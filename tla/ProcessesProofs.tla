--------------------------- MODULE ProcessesProofs ---------------------------
(***************************************************************************)
(* Proofs about commands, persistent shells and interactive terminals, for *)
(* any timeouts, limits, sessions and runs.                                *)
(*                                                                         *)
(* The deadline of a command holds because a poll is sent only before it   *)
(* and for no longer than what is left.  The answer of a shell is the      *)
(* run's own because in a session where nothing was left behind at most    *)
(* one command is unanswered, that of the run that holds the lock.  The    *)
(* outcome of a terminal is final because its thread reports one only on   *)
(* its way out of the connection, and looks whether there is one.          *)
(***************************************************************************)
EXTENDS Processes, PtySessions, FiniteSetTheorems, SequenceTheorems, TLAPS

(* The polling loop: a poll under way was sent before the deadline. *)
Latest == Timeout - 1 + Slowest
PollInv ==
    /\ TypeOK
    /\ pc \in {"start", "loop", "poll"} => errors < MaxErrors
    /\ pc = "start" => now = 0
    /\ pc = "poll" => now < Timeout /\ wait \in 1 .. Timeout - now
    /\ pc \in {"loop", "kill"} => now <= Latest

(* Shells: types, and sessions told apart. *)
SessionTypes ==
    /\ counter \in 0 .. MaxSessions
    /\ creating \subseteq 1 .. counter /\ IsFiniteSet(creating)
    /\ shells \in Seq(1 .. counter)
    /\ Len(shells) + Cardinality(creating) <= counter
    /\ \A i \in 1 .. Len(shells) : shells[i] \notin creating
    /\ closing \in (0 .. Len(shells) + 1) \cup {PastLoop}

(* Shells.close has closed, or failed to close, what it has passed. *)
Passed ==
    /\ closing # PastLoop => \A i \in 1 .. Len(shells) : i < closing /\ shells[i] \in live => shells[i] \in excused
    /\ closing = PastLoop => \A i \in 1 .. Len(shells) : shells[i] \in live => shells[i] \in excused
    /\ \A s \in live : s \in creating \cup excused \/ \E i \in 1 .. Len(shells) : shells[i] = s

SessionInv == SessionTypes /\ Passed

(* Runs: types. *)
Steps == {"new", "waiting", "submit", "loop", "poll", "ended"}
RunTypes ==
    /\ lock \in [Sessions -> Runs \cup {"none"}]
    /\ on \in [Runs -> Sessions \cup {0}] /\ at \in [Runs -> Steps]
    /\ got \in [Runs -> Runs \cup {"none"}]
    /\ polls \subseteq Runs /\ stray \subseteq Runs
    /\ busy \in [Sessions -> Seq(Runs)] /\ output \in [Sessions -> Seq(Runs)]
    /\ \A r \in Runs : at[r] # "new" => on[r] \in Sessions
    /\ \A r \in Runs : at[r] # "ended" => got[r] = "none"
    /\ \A r \in Runs : r \in polls => at[r] \in {"loop", "poll", "ended"}
    /\ \A r \in Runs : r \in stray => at[r] \in {"loop", "poll", "ended"}

(* Who has submitted, or is about to, holds the lock. *)
LockHeld == \A r \in Runs : at[r] \in {"submit", "loop", "poll"} => lock[on[r]] = r

(* A session that has ended runs nothing and has no output. *)
GoneEmpty == \A s \in Sessions : s \notin live => busy[s] = <<>> /\ output[s] = <<>>

(* One command is unanswered at most, that of a run that waits for it. *)
Due(s) ==
    /\ Len(busy[s]) + Len(output[s]) <= 1
    /\ \A i \in 1 .. Len(busy[s]) : on[busy[s][i]] = s /\ at[busy[s][i]] \in {"loop", "poll"}
    /\ \A i \in 1 .. Len(output[s]) : on[output[s][i]] = s /\ at[output[s][i]] \in {"loop", "poll"}
OneUnanswered == \A s \in Sessions : s \notin dropped => Due(s)

RunInv == RunTypes /\ LockHeld /\ GoneEmpty /\ OneUnanswered /\ AnswerIsOwn

ShellsInv == SessionInv /\ RunInv
ProcessInv == PollInv /\ ShellsInv

-----------------------------------------------------------------------------
(* The polling loop. *)
LEMMA PollConstants ==
    /\ Timeout \in Nat \ {0} /\ Interval \in Nat \ {0} /\ RetryDelay \in Nat \ {0}
    /\ MaxErrors \in Nat \ {0} /\ Slowest \in Nat /\ Slowest >= Interval
  BY ConstantsAssumption

(* The answer of a poll that was sent in time comes by the latest time. *)
LEMMA AnswerInTime ==
    ASSUME now \in Nat, now < Timeout, wait \in 1 .. Timeout - now,
           NEW t \in now .. LatestAnswer
    PROVE  t \in Nat /\ t <= Latest
  BY PollConstants DEF LatestAnswer, Latest

LEMMA PollStepInv ==
    ASSUME PollInv, Next PROVE PollInv'
  <1>0. /\ now \in Nat /\ wait \in 0 .. Interval /\ errors \in 0 .. MaxErrors
        /\ pc \in {"start", "loop", "poll", "kill", "ended"} /\ result \in Results
        /\ proc \in {"none", "running", "exited", "killed"} /\ open \in BOOLEAN
        /\ pc \in {"start", "loop", "poll"} => errors < MaxErrors
        /\ pc = "start" => now = 0
        /\ pc = "poll" => now < Timeout /\ wait \in 1 .. Timeout - now
        /\ pc \in {"loop", "kill"} => now <= Latest
    BY DEF PollInv, TypeOK
  <1>1. Timeout <= Latest /\ Latest \in Nat
    BY PollConstants DEF Latest
  <1>2. CASE Start
    <2>1. /\ UNCHANGED <<now, wait, errors, open>> /\ now = 0 /\ pc' \in {"loop", "ended"}
          /\ result' \in Results /\ proc' \in {"none", "running", "exited", "killed"}
      BY <1>0, <1>2 DEF Start, End, Results
    <2>2. errors < MaxErrors
      BY <1>0, <1>2 DEF Start
    <2>3. QED
      BY <1>0, <1>1, <2>1, <2>2, PollConstants DEF PollInv, TypeOK
  <1>3. CASE SendPoll
    <2>1. UNCHANGED <<now, errors, result, proc, open>> /\ pc = "loop" /\ pc' = "poll" /\ now < Timeout
      BY <1>3 DEF SendPoll
    <2>2. wait' \in 1 .. MinOf(Interval, Timeout - now)
      BY <1>3 DEF SendPoll
    <2>3. wait' \in 0 .. Interval /\ wait' \in 1 .. Timeout - now
      BY <1>0, <2>1, <2>2, PollConstants DEF MinOf
    <2>4. QED
      BY <1>0, <2>1, <2>3 DEF PollInv, TypeOK
  <1>4. CASE PollClosed \/ PollDone \/ PollError \/ PollFatal
    <2>1. /\ UNCHANGED <<wait, errors, proc, open>> /\ pc' = "ended" /\ result' \in Results
      BY <1>4 DEF PollClosed, PollDone, PollError, PollFatal, End, Results
    <2>2. now' \in Nat
      <3>1. CASE PollClosed
        BY <1>0, <3>1 DEF PollClosed
      <3>2. CASE PollDone \/ PollError \/ PollFatal
        <4>1. pc = "poll" /\ now' \in now .. LatestAnswer
          BY <3>2 DEF PollDone, PollError, PollFatal, Later
        <4>2. QED
          BY <1>0, <4>1, AnswerInTime
      <3>3. QED
        BY <1>4, <3>1, <3>2
    <2>3. QED
      BY <1>0, <2>1, <2>2 DEF PollInv, TypeOK
  <1>5. CASE PollRunning
    <2>1. /\ UNCHANGED <<wait, result, proc, open>> /\ pc = "poll" /\ pc' = "loop" /\ errors' = 0
          /\ now' \in now + wait .. LatestAnswer
      BY <1>5 DEF PollRunning
    <2>2. LatestAnswer \in Nat
      BY <1>0, PollConstants DEF LatestAnswer
    <2>3. now' \in now .. LatestAnswer
      BY <1>0, <2>1, <2>2
    <2>4. now' \in Nat /\ now' <= Latest
      BY <1>0, <2>1, <2>3, AnswerInTime
    <2>5. 0 < MaxErrors /\ 0 \in 0 .. MaxErrors
      BY PollConstants
    <2>6. QED
      BY <1>0, <2>1, <2>4, <2>5 DEF PollInv, TypeOK
  <1>6. CASE PollFails
    <2>1. UNCHANGED <<wait, proc, open>> /\ pc = "poll" /\ errors' = errors + 1
      BY <1>6 DEF PollFails
    <2>2. PICK t \in now .. LatestAnswer :
            \/ t >= Timeout /\ now' = t /\ pc' = "kill" /\ UNCHANGED result
            \/ t < Timeout /\ errors' >= MaxErrors /\ now' = t /\ End("errors")
            \/ /\ t < Timeout /\ errors' < MaxErrors
               /\ now' = t + MinOf(RetryDelay, Timeout - t)
               /\ pc' = "loop" /\ UNCHANGED result
      BY <1>6 DEF PollFails
    <2>3. t \in Nat /\ t <= Latest
      BY <1>0, <2>1, AnswerInTime
    <2>4. errors' \in 0 .. MaxErrors
      BY <1>0, <2>1, PollConstants
    <2>5. t < Timeout => t + MinOf(RetryDelay, Timeout - t) \in Nat /\ t + MinOf(RetryDelay, Timeout - t) <= Timeout
      BY <2>3, PollConstants DEF MinOf
    <2>6. /\ now' \in Nat /\ result' \in Results /\ pc' \in {"kill", "ended", "loop"}
          /\ pc' = "loop" => errors' < MaxErrors
      BY <1>0, <2>2, <2>3, <2>5 DEF End, Results
    <2>7. pc' \in {"loop", "kill"} => now' <= Latest
      BY <1>1, <2>2, <2>3, <2>5, PollConstants DEF End
    <2>8. QED
      BY <1>0, <2>1, <2>4, <2>6, <2>7 DEF PollInv, TypeOK
  <1>7. CASE Deadline
    BY <1>0, <1>7 DEF Deadline, PollInv, TypeOK
  <1>8. CASE KillAfterTimeout
    <2>1. /\ UNCHANGED <<wait, errors, open>> /\ pc' = "ended" /\ result' \in Results
          /\ proc' \in {"none", "running", "exited", "killed"}
      BY <1>0, <1>8 DEF KillAfterTimeout, End, Results
    <2>2. now' \in Nat
      BY <1>0, <1>8, PollConstants DEF KillAfterTimeout, LatestAnswer
    <2>3. QED
      BY <1>0, <2>1, <2>2 DEF PollInv, TypeOK
  <1>9. CASE ProcessEnds \/ ClientCloses
    BY <1>0, <1>9 DEF ProcessEnds, ClientCloses, PollInv, TypeOK
  <1>10. QED
    BY <1>2, <1>3, <1>4, <1>5, <1>6, <1>7, <1>8, <1>9 DEF Next, CallerStep

LEMMA PollInitInv ==
    ASSUME Init PROVE PollInv
  <1>1. /\ pc = "start" /\ now = 0 /\ wait = 0 /\ errors = 0 /\ result = "none"
        /\ proc = "none" /\ open \in BOOLEAN
    BY DEF Init
  <1>2. /\ wait \in 0 .. Interval /\ errors \in 0 .. MaxErrors /\ now \in Nat /\ result \in Results
        /\ errors < MaxErrors
    BY <1>1, PollConstants DEF Results
  <1>3. QED
    BY <1>1, <1>2 DEF PollInv, TypeOK

-----------------------------------------------------------------------------
(* Sessions. *)

(* The state the steps of sessions start from. *)
LEMMA SessionFacts ==
    ASSUME SessionInv
    PROVE  /\ MaxSessions \in Nat \ {0} /\ counter \in 0 .. MaxSessions
           /\ Len(shells) \in Nat /\ Cardinality(creating) \in Nat
           /\ Len(shells) <= MaxSessions /\ DOMAIN shells = 1 .. Len(shells)
           /\ closing \in Nat
           /\ \A i \in 1 .. Len(shells) : shells[i] \in 1 .. counter
  <1>1. MaxSessions \in Nat \ {0} /\ counter \in 0 .. MaxSessions
    BY ShellAssumption DEF SessionInv, SessionTypes
  <1>2. Cardinality(creating) \in Nat
    BY FS_CardinalityType DEF SessionInv, SessionTypes
  <1>3. /\ Len(shells) \in Nat /\ DOMAIN shells = 1 .. Len(shells)
        /\ \A i \in 1 .. Len(shells) : shells[i] \in 1 .. counter
    BY DEF SessionInv, SessionTypes
  <1>4. Len(shells) + Cardinality(creating) <= counter
    BY DEF SessionInv, SessionTypes
  <1>5. closing \in Nat
    BY <1>1, <1>3 DEF SessionInv, SessionTypes, PastLoop
  <1>6. QED
    BY <1>1, <1>2, <1>3, <1>4, <1>5

LEMMA CreateInv ==
    ASSUME SessionInv, Create PROVE SessionInv'
  <1>1. /\ counter < MaxSessions /\ counter' = counter + 1
        /\ creating' = creating \cup {counter + 1}
        /\ UNCHANGED <<shells, closing, live, excused>>
    BY DEF Create
  <1>2. /\ creating \subseteq 1 .. counter /\ IsFiniteSet(creating) /\ shells \in Seq(1 .. counter)
        /\ Len(shells) + Cardinality(creating) <= counter
        /\ \A i \in 1 .. Len(shells) : shells[i] \notin creating
        /\ closing \in (0 .. Len(shells) + 1) \cup {PastLoop}
    BY DEF SessionInv, SessionTypes
  <1>3. counter + 1 \notin creating /\ counter' \in 0 .. MaxSessions
    BY <1>1, <1>2, SessionFacts
  <1>4. IsFiniteSet(creating') /\ Cardinality(creating') = Cardinality(creating) + 1
    BY <1>1, <1>2, <1>3, FS_AddElement
  <1>5. 1 .. counter \subseteq 1 .. counter' /\ counter + 1 \in 1 .. counter'
    BY <1>1, SessionFacts
  <1>6. creating' \subseteq 1 .. counter'
    BY <1>1, <1>2, <1>5
  <1>7. shells' \in Seq(1 .. counter')
    <2>1. Seq(1 .. counter) \subseteq Seq(1 .. counter')
      BY <1>5, SeqMonotonic
    <2>2. QED
      BY <1>1, <1>2, <2>1
  <1>8. Len(shells') + Cardinality(creating') <= counter'
    BY <1>1, <1>2, <1>4, SessionFacts
  <1>9. \A i \in 1 .. Len(shells') : shells'[i] \notin creating'
    BY <1>1, <1>2, SessionFacts
  <1>10. Passed'
    BY <1>1 DEF SessionInv, Passed, PastLoop
  <1>11. QED
    BY <1>1, <1>2, <1>3, <1>4, <1>6, <1>7, <1>8, <1>9, <1>10 DEF SessionInv, SessionTypes, PastLoop

LEMMA CreatedInv ==
    ASSUME SessionInv, NEW s, Created(s) PROVE SessionInv'
  <1>1. /\ UNCHANGED <<counter, creating, shells, closing, excused>>
        /\ s \in creating \cup excused /\ live' = live \cup {s}
    BY DEF Created
  <1>2. \A i \in 1 .. Len(shells) : shells[i] = s => s \in excused
    BY <1>1 DEF SessionInv, SessionTypes
  <1>3. SessionTypes'
    BY <1>1 DEF SessionInv, SessionTypes, PastLoop
  <1>4. Passed'
    BY <1>1, <1>2 DEF SessionInv, Passed, PastLoop
  <1>5. QED
    BY <1>3, <1>4 DEF SessionInv

LEMMA CreateReturnsInv ==
    ASSUME SessionInv, NEW s, CreateReturns(s) PROVE SessionInv'
  <1>1. /\ UNCHANGED <<counter, closing, live>>
        /\ s \in creating /\ creating' = creating \ {s} /\ shells' = Append(shells, s)
        /\ excused \subseteq excused' /\ (closing = PastLoop => s \in excused')
    BY DEF CreateReturns
  <1>2. /\ creating \subseteq 1 .. counter /\ IsFiniteSet(creating) /\ shells \in Seq(1 .. counter)
        /\ Len(shells) + Cardinality(creating) <= counter
        /\ \A i \in 1 .. Len(shells) : shells[i] \notin creating
        /\ closing \in (0 .. Len(shells) + 1) \cup {PastLoop}
    BY DEF SessionInv, SessionTypes
  <1>3. IsFiniteSet(creating') /\ Cardinality(creating') = Cardinality(creating) - 1
    BY <1>1, <1>2, FS_RemoveElement
  <1>4. s \in 1 .. counter
    BY <1>1, <1>2
  <1>5. /\ shells' \in Seq(1 .. counter) /\ Len(shells') = Len(shells) + 1
        /\ \A i \in 1 .. Len(shells) : shells'[i] = shells[i]
        /\ shells'[Len(shells) + 1] = s
    BY <1>1, <1>2, <1>4
  <1>6. Len(shells') + Cardinality(creating') <= counter
    BY <1>2, <1>3, <1>5, SessionFacts
  <1>7. ASSUME NEW i \in 1 .. Len(shells')
        PROVE  (i \in 1 .. Len(shells) /\ shells'[i] = shells[i]) \/ (i = Len(shells) + 1 /\ shells'[i] = s)
    BY <1>5, SessionFacts
  <1>8. \A i \in 1 .. Len(shells') : shells'[i] \notin creating'
    BY <1>1, <1>2, <1>7
  <1>9. closing' \in (0 .. Len(shells') + 1) \cup {PastLoop}
    BY <1>1, <1>2, <1>5, SessionFacts
  <1>10. SessionTypes'
    BY <1>1, <1>2, <1>3, <1>5, <1>6, <1>8, <1>9, SessionFacts DEF SessionTypes, PastLoop
  <1>11. excused \subseteq excused' /\ (closing = PastLoop => s \in excused')
    BY <1>1
  <1>12. closing # PastLoop =>
           \A i \in 1 .. Len(shells') : i < closing /\ shells'[i] \in live => shells'[i] \in excused'
    <2>1. SUFFICES ASSUME closing # PastLoop, NEW i \in 1 .. Len(shells'), i < closing, shells'[i] \in live
                   PROVE  shells'[i] \in excused'
      OBVIOUS
    <2>2. closing \in 0 .. Len(shells) + 1
      BY <1>2, <2>1
    <2>3. i \in 1 .. Len(shells) /\ shells'[i] = shells[i]
      BY <1>5, <2>1, <2>2, SessionFacts
    <2>4. QED
      BY <1>11, <2>1, <2>3 DEF SessionInv, Passed
  <1>13. closing = PastLoop => \A i \in 1 .. Len(shells') : shells'[i] \in live => shells'[i] \in excused'
    BY <1>7, <1>11 DEF SessionInv, Passed
  <1>14. ASSUME NEW x \in live
         PROVE  x \in creating' \cup excused' \/ \E i \in 1 .. Len(shells') : shells'[i] = x
    <2>1. CASE x = s
      <3>1. Len(shells) + 1 \in 1 .. Len(shells')
        BY <1>5, SessionFacts
      <3>2. QED
        BY <1>5, <2>1, <3>1
    <2>2. CASE x # s /\ x \in creating \cup excused
      BY <1>1, <1>11, <2>2
    <2>3. CASE \E i \in 1 .. Len(shells) : shells[i] = x
      <3>1. PICK i \in 1 .. Len(shells) : shells[i] = x
        BY <2>3
      <3>2. i \in 1 .. Len(shells') /\ shells'[i] = x
        BY <1>5, <3>1, SessionFacts
      <3>3. QED
        BY <3>2
    <2>4. QED
      BY <2>1, <2>2, <2>3 DEF SessionInv, Passed
  <1>15. Passed'
    BY <1>1, <1>12, <1>13, <1>14 DEF Passed, PastLoop
  <1>16. QED
    BY <1>10, <1>15 DEF SessionInv

LEMMA CreateRaisesInv ==
    ASSUME SessionInv, NEW s, CreateRaises(s) PROVE SessionInv'
  <1>1. /\ UNCHANGED <<counter, shells, closing, live>>
        /\ s \in creating /\ creating' = creating \ {s} /\ excused' = excused \cup {s}
    BY DEF CreateRaises
  <1>2. IsFiniteSet(creating') /\ Cardinality(creating') = Cardinality(creating) - 1
    BY <1>1, FS_RemoveElement DEF SessionInv, SessionTypes
  <1>3. Len(shells) + Cardinality(creating') <= counter
    BY <1>2, SessionFacts DEF SessionInv, SessionTypes
  <1>4. SessionTypes'
    BY <1>1, <1>2, <1>3 DEF SessionInv, SessionTypes, PastLoop
  <1>5. Passed'
    BY <1>1 DEF SessionInv, Passed, PastLoop
  <1>6. QED
    BY <1>4, <1>5 DEF SessionInv

(* A session that is closed is gone or excused; the others stay as they are. *)
LEMMA ShellCloseSessions ==
    ASSUME NEW s, ShellClose(s)
    PROVE  live' \subseteq live /\ excused \subseteq excused' /\ (s \in live' => s \in excused')
  BY DEF ShellClose

LEMMA ClosingInv ==
    ASSUME SessionInv,
           (\E s \in Sessions : Kill(s)) \/ CloseBegin \/ CloseNext \/ CloseLoopEnds \/ CloseClears
    PROVE  SessionInv'
  <1>0. /\ shells \in Seq(1 .. counter)
        /\ closing \in (0 .. Len(shells) + 1) \cup {PastLoop}
        /\ Len(shells) + 1 # PastLoop /\ 0 # PastLoop /\ 1 # PastLoop
    BY SessionFacts DEF SessionInv, SessionTypes, PastLoop
  <1>1. CASE \E s \in Sessions : Kill(s)
    <2>1. PICK s \in Sessions : Kill(s)
      BY <1>1
    <2>2. UNCHANGED <<counter, creating, shells, closing>> /\ live' \subseteq live /\ excused \subseteq excused'
      BY <2>1, ShellCloseSessions DEF Kill
    <2>3. SessionTypes'
      BY <2>2 DEF SessionInv, SessionTypes, PastLoop
    <2>4. Passed'
      BY <2>2 DEF SessionInv, Passed, PastLoop
    <2>5. QED
      BY <2>3, <2>4 DEF SessionInv
  <1>2. CASE CloseBegin
    <2>1. UNCHANGED <<counter, creating, shells, live, excused>> /\ closing' = 1
      BY <1>2 DEF CloseBegin
    <2>2. 1 \in 0 .. Len(shells) + 1 /\ \A i \in 1 .. Len(shells) : ~(i < 1)
      BY SessionFacts
    <2>3. SessionTypes'
      BY <2>1, <2>2 DEF SessionInv, SessionTypes, PastLoop
    <2>4. Passed'
      BY <1>0, <2>1, <2>2 DEF SessionInv, Passed, PastLoop
    <2>5. QED
      BY <2>3, <2>4 DEF SessionInv
  <1>3. CASE CloseNext
    <2>1. /\ UNCHANGED <<counter, creating, shells>> /\ closing' = closing + 1 /\ closing \in 1 .. Len(shells)
          /\ live' \subseteq live /\ excused \subseteq excused'
          /\ shells[closing] \in live' => shells[closing] \in excused'
      BY <1>3, ShellCloseSessions, SessionFacts DEF CloseNext
    <2>2. closing + 1 \in 0 .. Len(shells) + 1 /\ closing + 1 # PastLoop /\ closing # PastLoop
      BY <2>1, SessionFacts DEF PastLoop
    <2>3. SessionTypes'
      BY <2>1, <2>2 DEF SessionInv, SessionTypes, PastLoop
    <2>4. ASSUME NEW i \in 1 .. Len(shells), i < closing + 1, shells[i] \in live'
          PROVE  shells[i] \in excused'
      <3>1. i < closing \/ i = closing
        BY <2>1, <2>4, SessionFacts
      <3>2. QED
        BY <2>1, <2>2, <2>4, <3>1 DEF SessionInv, Passed
    <2>5. Passed'
      BY <2>1, <2>2, <2>4 DEF SessionInv, Passed, PastLoop
    <2>6. QED
      BY <2>3, <2>5 DEF SessionInv
  <1>4. CASE CloseLoopEnds
    <2>1. UNCHANGED <<counter, creating, shells, live, excused>> /\ closing = Len(shells) + 1 /\ closing' = PastLoop
      BY <1>4 DEF CloseLoopEnds
    <2>2. \A i \in 1 .. Len(shells) : i < closing
      BY <2>1, SessionFacts
    <2>3. SessionTypes'
      BY <2>1 DEF SessionInv, SessionTypes, PastLoop
    <2>4. Passed'
      BY <1>0, <2>1, <2>2 DEF SessionInv, Passed, PastLoop
    <2>5. QED
      BY <2>3, <2>4 DEF SessionInv
  <1>5. CASE CloseClears
    <2>1. UNCHANGED <<counter, creating, live, excused>> /\ closing = PastLoop /\ closing' = 0 /\ shells' = <<>>
      BY <1>5 DEF CloseClears
    <2>2. /\ shells' \in Seq(1 .. counter) /\ Len(shells') = 0
          /\ \A i \in 1 .. Len(shells') : FALSE
      BY <2>1
    <2>3. Len(shells') + Cardinality(creating) <= counter
      BY <2>2, SessionFacts DEF SessionInv, SessionTypes
    <2>4. 0 \in 0 .. Len(shells') + 1
      BY <2>2
    <2>5. SessionTypes'
      BY <2>1, <2>2, <2>3, <2>4 DEF SessionInv, SessionTypes
    <2>6. \A x \in live : x \in creating \cup excused
      BY <2>1 DEF SessionInv, Passed
    <2>7. Passed'
      BY <1>0, <2>1, <2>2, <2>6 DEF Passed, PastLoop
    <2>8. QED
      BY <2>5, <2>7 DEF SessionInv
  <1>6. QED
    BY <1>1, <1>2, <1>3, <1>4, <1>5

(* The steps of a run leave the sessions as they are. *)
LEMMA RunLeavesSessions ==
    ASSUME NEW r, RunStep(r) \/ (\E s \in Sessions : CommandEnds(s) \/ RunCalled(r, s))
    PROVE  UNCHANGED sessions
  BY DEF RunStep, LockTaken, Submit, SubmitEnds, StrayRuns, PollSent, OutputTaken, OutputLost, StillRunning, TimesOut,
         Abandoned, CancelledWaiting, CommandEnds, RunCalled

LEMMA SessionKept ==
    ASSUME SessionInv, UNCHANGED sessions PROVE SessionInv'
  BY DEF SessionInv, SessionTypes, Passed, PastLoop, sessions

LEMMA SessionStepInv ==
    ASSUME SessionInv, ShellNext PROVE SessionInv'
  <1>1. CASE Create
    BY <1>1, CreateInv
  <1>2. CASE \E s \in Sessions : Created(s) \/ CreateReturns(s) \/ CreateRaises(s)
    BY <1>2, CreatedInv, CreateReturnsInv, CreateRaisesInv
  <1>3. CASE (\E s \in Sessions : Kill(s)) \/ CloseBegin \/ CloseNext \/ CloseLoopEnds \/ CloseClears
    BY <1>3, ClosingInv
  <1>4. CASE (\E s \in Sessions : CommandEnds(s)) \/ \E r \in Runs : RunStep(r) \/ \E s \in Sessions : RunCalled(r, s)
    BY <1>4, RunLeavesSessions, SessionKept
  <1>5. QED
    BY <1>1, <1>2, <1>3, <1>4 DEF ShellNext

-----------------------------------------------------------------------------
(* Runs. *)

(* Queues of commands and of outputs. *)
LEMMA QueueAppend ==
    ASSUME NEW q \in Seq(Runs), NEW r \in Runs
    PROVE  /\ Append(q, r) \in Seq(Runs) /\ Len(q) \in Nat /\ Len(Append(q, r)) = Len(q) + 1
           /\ \A i \in 1 .. Len(Append(q, r)) : Append(q, r)[i] = r \/ (i \in 1 .. Len(q) /\ Append(q, r)[i] = q[i])
  OBVIOUS

LEMMA QueueTail ==
    ASSUME NEW q \in Seq(Runs), q # <<>>
    PROVE  /\ Len(q) \in Nat \ {0} /\ 1 \in 1 .. Len(q) /\ Head(q) = q[1] /\ Head(q) \in Runs
           /\ Tail(q) \in Seq(Runs) /\ Len(Tail(q)) = Len(q) - 1
           /\ \A i \in 1 .. Len(Tail(q)) : i + 1 \in 1 .. Len(q) /\ Tail(q)[i] = q[i + 1]
  OBVIOUS

LEMMA QueueEmpty ==
    /\ <<>> \in Seq(Runs) /\ Len(<<>>) = 0 /\ 1 .. Len(<<>>) = {}
    /\ \A q \in Seq(Runs) : Len(q) \in Nat /\ (Len(q) = 0 => q = <<>>)
  OBVIOUS

LEMMA OneOfTwo ==
    \A a, b \in Nat : a + b <= 1 => (b # 0 => a = 0 /\ b = 1) /\ (a # 0 => a = 1 /\ b = 0)
  OBVIOUS

(* Whose turn it is does not depend on who else waits. *)
LEMMA WaiterHolds ==
    ASSUME RunInv, NEW s \in Sessions, s \notin dropped,
           NEW x \in Runs, \/ \E i \in 1 .. Len(busy[s]) : busy[s][i] = x
                           \/ \E i \in 1 .. Len(output[s]) : output[s][i] = x
    PROVE  on[x] = s /\ at[x] \in {"loop", "poll"} /\ lock[s] = x
  <1>0. Due(s)
    BY DEF RunInv, OneUnanswered
  <1>1. on[x] = s /\ at[x] \in {"loop", "poll"}
    BY <1>0 DEF Due
  <1>2. QED
    BY <1>1 DEF RunInv, LockHeld

(* The facts about runs that every step starts from. *)
LEMMA RunFacts ==
    ASSUME RunInv, NEW r \in Runs
    PROVE  /\ at[r] \in Steps /\ on[r] \in Sessions \cup {0} /\ got[r] \in Runs \cup {"none"}
           /\ (at[r] # "new" => /\ on[r] \in Sessions /\ lock[on[r]] \in Runs \cup {"none"}
                                /\ busy[on[r]] \in Seq(Runs) /\ output[on[r]] \in Seq(Runs))
           /\ "none" \notin Runs
  BY ShellAssumption DEF RunInv, RunTypes

(* The end of a run: it gives up the lock, and nothing changes for the others. *)
LEMMA LeavesInv ==
    ASSUME RunInv, NEW r \in Runs, at[r] \notin {"new", "ended"},
           NEW how \in Runs \cup {"none"}, Leaves(r, how)
    PROVE  /\ on' = on /\ lock' \in [Sessions -> Runs \cup {"none"}] /\ at' \in [Runs -> Steps]
           /\ got' \in [Runs -> Runs \cup {"none"}]
           /\ at'[r] = "ended" /\ got'[r] = how
           /\ \A x \in Runs : x # r => at'[x] = at[x] /\ got'[x] = got[x]
           /\ \A x \in Runs : at'[x] # "new" => on'[x] \in Sessions
           /\ \A x \in Runs : at'[x] # "ended" => got'[x] = "none"
           /\ \A x \in Runs : x \in polls \cup stray => at'[x] \in {"loop", "poll", "ended"}
           /\ LockHeld'
  <1>1. /\ at \in [Runs -> Steps] /\ got \in [Runs -> Runs \cup {"none"}] /\ lock \in [Sessions -> Runs \cup {"none"}]
        /\ on[r] \in Sessions
    BY RunFacts DEF RunInv, RunTypes
  <1>2. /\ on' = on /\ at' = [at EXCEPT ![r] = "ended"] /\ got' = [got EXCEPT ![r] = how]
        /\ lock' = [lock EXCEPT ![on[r]] = IF @ = r THEN "none" ELSE @]
    BY DEF Leaves
  <1>3. /\ at' \in [Runs -> Steps] /\ at'[r] = "ended"
        /\ \A x \in Runs : x # r => at'[x] = at[x]
    BY <1>1, <1>2 DEF Steps
  <1>4. got' \in [Runs -> Runs \cup {"none"}] /\ got'[r] = how /\ \A x \in Runs : x # r => got'[x] = got[x]
    BY <1>1, <1>2
  <1>5. /\ lock' \in [Sessions -> Runs \cup {"none"}]
        /\ \A s \in Sessions : lock[s] # r => lock'[s] = lock[s]
    BY <1>1, <1>2
  <1>6. /\ \A x \in Runs : at'[x] # "new" => on'[x] \in Sessions
        /\ \A x \in Runs : at'[x] # "ended" => got'[x] = "none"
        /\ \A x \in Runs : x \in polls \cup stray => at'[x] \in {"loop", "poll", "ended"}
    BY <1>1, <1>2, <1>3, <1>4 DEF RunInv, RunTypes
  <1>7. ASSUME NEW x \in Runs, at'[x] \in {"submit", "loop", "poll"}
        PROVE  lock'[on'[x]] = x
    <2>1. x # r /\ at[x] = at'[x]
      BY <1>3, <1>7
    <2>2. lock[on[x]] = x /\ on[x] \in Sessions
      BY <1>7, <2>1 DEF RunInv, LockHeld, RunTypes
    <2>3. QED
      BY <1>2, <1>5, <2>1, <2>2
  <1>8. LockHeld'
    BY <1>7 DEF LockHeld
  <1>9. QED
    BY <1>2, <1>3, <1>4, <1>5, <1>6, <1>8

(* A run that ends with no answer, its command not started or left behind. *)
LEMMA EndsInv ==
    ASSUME RunInv, NEW r \in Runs, at[r] \notin {"new", "ended"}, Leaves(r, "none"),
           UNCHANGED <<live, busy, output>>, polls' \subseteq polls, stray' \subseteq stray \cup {r},
           dropped \subseteq dropped',
           \/ at[r] \notin {"loop", "poll"}
           \/ on[r] \in dropped'
           \/ on[r] \notin live
    PROVE  RunInv'
  <1>1. /\ on' = on /\ lock' \in [Sessions -> Runs \cup {"none"}] /\ at' \in [Runs -> Steps]
        /\ got' \in [Runs -> Runs \cup {"none"}]
        /\ at'[r] = "ended" /\ got'[r] = "none"
        /\ \A x \in Runs : x # r => at'[x] = at[x] /\ got'[x] = got[x]
        /\ \A x \in Runs : at'[x] # "new" => on'[x] \in Sessions
        /\ \A x \in Runs : at'[x] # "ended" => got'[x] = "none"
        /\ \A x \in Runs : x \in polls \cup stray => at'[x] \in {"loop", "poll", "ended"}
        /\ LockHeld'
    BY LeavesInv
  <1>2. RunTypes'
    BY <1>1 DEF RunInv, RunTypes, Sessions
  <1>3. GoneEmpty'
    BY DEF RunInv, GoneEmpty, Sessions
  <1>4. ASSUME NEW s \in Sessions, s \notin dropped' PROVE Due(s)'
    <2>1. s \notin dropped
      BY <1>4
    <2>2. ASSUME NEW x \in Runs, \/ \E i \in 1 .. Len(busy[s]) : busy[s][i] = x
                                 \/ \E i \in 1 .. Len(output[s]) : output[s][i] = x
          PROVE  on[x] = s /\ at'[x] \in {"loop", "poll"}
      <3>1. on[x] = s /\ at[x] \in {"loop", "poll"}
        BY <2>1, <2>2, WaiterHolds
      <3>2. x # r
        <4>1. CASE s \notin live
          <5>1. busy[s] = <<>> /\ output[s] = <<>>
            BY <4>1 DEF RunInv, GoneEmpty
          <5>2. QED
            BY <2>2, <5>1, QueueEmpty
        <4>2. CASE s \in live
          BY <1>4, <3>1, <4>2
        <4>3. QED
          BY <4>1, <4>2
      <3>3. QED
        BY <1>1, <3>1, <3>2
    <2>3. busy[s] \in Seq(Runs) /\ output[s] \in Seq(Runs)
      BY DEF RunInv, RunTypes
    <2>4. /\ \A i \in 1 .. Len(busy[s]) : busy[s][i] \in Runs
          /\ \A i \in 1 .. Len(output[s]) : output[s][i] \in Runs
      BY <2>3
    <2>5. Len(busy[s]) + Len(output[s]) <= 1
      BY <2>1 DEF RunInv, OneUnanswered, Due
    <2>6. QED
      BY <1>1, <2>2, <2>4, <2>5 DEF Due
  <1>5. OneUnanswered'
    BY <1>4 DEF OneUnanswered, Sessions
  <1>6. AnswerIsOwn'
    BY <1>1, RunFacts DEF RunInv, AnswerIsOwn
  <1>7. QED
    BY <1>1, <1>2, <1>3, <1>5, <1>6 DEF RunInv

(* What a run waits for stays its own while it waits. *)
LEMMA DueKept ==
    ASSUME RunInv, NEW s \in Sessions, s \notin dropped, busy'[s] = busy[s], output'[s] = output[s],
           \A x \in Runs : on[x] = s /\ at[x] \in {"loop", "poll"} => on'[x] = s /\ at'[x] \in {"loop", "poll"}
    PROVE  Due(s)'
  <1>1. Due(s)
    BY DEF RunInv, OneUnanswered
  <1>2. busy[s] \in Seq(Runs) /\ output[s] \in Seq(Runs)
    BY DEF RunInv, RunTypes
  <1>3. /\ \A i \in 1 .. Len(busy[s]) : busy[s][i] \in Runs
        /\ \A i \in 1 .. Len(output[s]) : output[s][i] \in Runs
    BY <1>2
  <1>4. QED
    BY <1>1, <1>3 DEF Due

LEMMA RunCalledInv ==
    ASSUME RunInv, NEW r \in Runs, NEW s \in Sessions, RunCalled(r, s) PROVE RunInv'
  <1>1. /\ at[r] = "new" /\ at' = [at EXCEPT ![r] = "waiting"] /\ on' = [on EXCEPT ![r] = s]
        /\ UNCHANGED <<live, lock, got, polls, stray, busy, output, dropped>>
    BY DEF RunCalled, sessions
  <1>2. at \in [Runs -> Steps] /\ on \in [Runs -> Sessions \cup {0}]
    BY DEF RunInv, RunTypes
  <1>3. /\ at' \in [Runs -> Steps] /\ on' \in [Runs -> Sessions \cup {0}]
        /\ at'[r] = "waiting" /\ on'[r] = s /\ \A x \in Runs : x # r => at'[x] = at[x] /\ on'[x] = on[x]
    BY <1>1, <1>2 DEF Steps
  <1>4. r \notin polls \cup stray /\ got[r] = "none" /\ "none" \notin Runs
    BY <1>1, RunFacts DEF RunInv, RunTypes
  <1>5. RunTypes'
    BY <1>1, <1>3, <1>4 DEF RunInv, RunTypes, Sessions
  <1>6. LockHeld' /\ GoneEmpty'
    BY <1>1, <1>3 DEF RunInv, LockHeld, GoneEmpty, Sessions
  <1>7. OneUnanswered'
    BY <1>1, <1>3, DueKept DEF OneUnanswered, Sessions
  <1>8. AnswerIsOwn'
    BY <1>1, <1>3, <1>4 DEF RunInv, AnswerIsOwn
  <1>9. QED
    BY <1>5, <1>6, <1>7, <1>8 DEF RunInv

LEMMA LockTakenInv ==
    ASSUME RunInv, NEW r \in Runs, LockTaken(r) PROVE RunInv'
  <1>1. /\ at[r] = "waiting" /\ lock[on[r]] = "none" /\ lock' = [lock EXCEPT ![on[r]] = r]
        /\ at' = [at EXCEPT ![r] = "submit"]
        /\ UNCHANGED <<live, on, got, polls, stray, busy, output, dropped>>
    BY DEF LockTaken, sessions
  <1>2. at \in [Runs -> Steps] /\ lock \in [Sessions -> Runs \cup {"none"}] /\ on[r] \in Sessions
    BY <1>1, RunFacts DEF RunInv, RunTypes
  <1>3. /\ at' \in [Runs -> Steps] /\ lock' \in [Sessions -> Runs \cup {"none"}]
        /\ at'[r] = "submit" /\ lock'[on[r]] = r
        /\ \A x \in Runs : x # r => at'[x] = at[x]
        /\ \A s \in Sessions : s # on[r] => lock'[s] = lock[s]
    BY <1>1, <1>2 DEF Steps
  <1>4. r \notin polls \cup stray /\ got[r] = "none"
    BY <1>1 DEF RunInv, RunTypes
  <1>5. RunTypes'
    BY <1>1, <1>2, <1>3, <1>4 DEF RunInv, RunTypes, Sessions
  <1>6. ASSUME NEW x \in Runs, at'[x] \in {"submit", "loop", "poll"} PROVE lock'[on[x]] = x
    <2>1. CASE x = r
      BY <1>3, <2>1
    <2>2. CASE x # r
      <3>1. lock[on[x]] = x /\ on[x] \in Sessions /\ "none" # x
        BY <1>3, <1>6, <2>2, RunFacts DEF RunInv, LockHeld, RunTypes
      <3>2. QED
        BY <1>1, <1>3, <3>1
    <2>3. QED
      BY <2>1, <2>2
  <1>7. LockHeld' /\ GoneEmpty'
    BY <1>1, <1>6 DEF RunInv, LockHeld, GoneEmpty, Sessions
  <1>8. OneUnanswered'
    BY <1>1, <1>3, DueKept DEF OneUnanswered, Sessions
  <1>9. AnswerIsOwn'
    BY <1>1 DEF RunInv, AnswerIsOwn
  <1>10. QED
    BY <1>5, <1>7, <1>8, <1>9 DEF RunInv

(* The session of a run that submits has no command that is waited for. *)
LEMMA SubmitInv ==
    ASSUME RunInv, NEW r \in Runs, Submit(r) PROVE RunInv'
  <1>1. /\ at[r] = "submit"
        /\ (on[r] \in live /\ busy' = [busy EXCEPT ![on[r]] = Append(@, r)]) \/ UNCHANGED busy
        /\ at' = [at EXCEPT ![r] = "loop"] /\ stray' \subseteq stray \cup {r}
        /\ UNCHANGED <<live, lock, on, got, polls, output, dropped>>
    BY DEF Submit, Starts, LeavesStray, sessions
  <1>2. at \in [Runs -> Steps] /\ busy \in [Sessions -> Seq(Runs)] /\ on[r] \in Sessions
    BY <1>1, RunFacts DEF RunInv, RunTypes
  <1>3. /\ at' \in [Runs -> Steps] /\ at'[r] = "loop" /\ \A x \in Runs : x # r => at'[x] = at[x]
    BY <1>1, <1>2 DEF Steps
  <1>4. busy[on[r]] \in Seq(Runs) /\ Append(busy[on[r]], r) \in Seq(Runs)
    BY <1>2, QueueAppend
  <1>5. /\ busy' \in [Sessions -> Seq(Runs)]
        /\ (busy'[on[r]] = Append(busy[on[r]], r) /\ on[r] \in live) \/ busy'[on[r]] = busy[on[r]]
        /\ \A s \in Sessions : s # on[r] => busy'[s] = busy[s]
    <2>1. CASE busy' = busy
      BY <1>2, <2>1
    <2>2. CASE on[r] \in live /\ busy' = [busy EXCEPT ![on[r]] = Append(@, r)]
      BY <1>2, <1>4, <2>2
    <2>3. QED
      BY <1>1, <2>1, <2>2
  <1>6. r \notin polls \cup stray /\ got[r] = "none"
    BY <1>1 DEF RunInv, RunTypes
  <1>7. RunTypes'
    BY <1>1, <1>2, <1>3, <1>5, <1>6 DEF RunInv, RunTypes, Sessions
  <1>8. LockHeld' /\ GoneEmpty'
    BY <1>1, <1>3, <1>5 DEF RunInv, LockHeld, GoneEmpty, Sessions
  <1>9. ASSUME on[r] \notin dropped PROVE Due(on[r])'
    <2>1. output[on[r]] \in Seq(Runs)
      BY <1>2 DEF RunInv, RunTypes
    <2>2. ASSUME NEW x \in Runs, \/ \E i \in 1 .. Len(busy[on[r]]) : busy[on[r]][i] = x
                                 \/ \E i \in 1 .. Len(output[on[r]]) : output[on[r]][i] = x
          PROVE  FALSE
      <3>1. at[x] \in {"loop", "poll"} /\ lock[on[r]] = x
        BY <1>2, <1>9, <2>2, WaiterHolds
      <3>2. lock[on[r]] = r
        BY <1>1 DEF RunInv, LockHeld
      <3>3. QED
        BY <1>1, <3>1, <3>2
    <2>3. Len(busy[on[r]]) = 0
      <3>1. CASE busy[on[r]] # <<>>
        BY <1>4, <2>2, <3>1, QueueTail
      <3>2. QED
        BY <3>1, QueueEmpty
    <2>4. Len(output[on[r]]) = 0
      <3>1. CASE output[on[r]] # <<>>
        BY <2>1, <2>2, <3>1, QueueTail
      <3>2. QED
        BY <3>1, QueueEmpty
    <2>5. /\ Len(busy'[on[r]]) <= 1 /\ Len(busy'[on[r]]) \in Nat
          /\ \A i \in 1 .. Len(busy'[on[r]]) : busy'[on[r]][i] = r
      <3>1. CASE busy'[on[r]] = Append(busy[on[r]], r)
        BY <1>4, <2>3, <3>1, QueueAppend
      <3>2. CASE busy'[on[r]] = busy[on[r]]
        BY <2>3, <3>2
      <3>3. QED
        BY <1>5, <3>1, <3>2
    <2>6. Len(busy'[on[r]]) + Len(output[on[r]]) <= 1 /\ 1 .. Len(output[on[r]]) = {}
      BY <2>4, <2>5
    <2>7. QED
      BY <1>1, <1>3, <2>5, <2>6 DEF Due
  <1>10. OneUnanswered'
    BY <1>1, <1>3, <1>5, <1>9, DueKept DEF OneUnanswered, Sessions
  <1>11. AnswerIsOwn'
    BY <1>1 DEF RunInv, AnswerIsOwn
  <1>12. QED
    BY <1>7, <1>8, <1>10, <1>11 DEF RunInv

(* A command that may run with nobody waiting counts as left behind. *)
LEMMA SubmitEndsInv ==
    ASSUME RunInv, NEW r \in Runs, SubmitEnds(r) PROVE RunInv'
  <1>1. /\ at[r] = "submit" /\ Leaves(r, "none") /\ stray' \subseteq stray \cup {r}
        /\ UNCHANGED <<live, polls, output>>
    BY DEF SubmitEnds, LeavesStray, sessions
  <1>2. CASE UNCHANGED <<busy, dropped>>
    BY <1>1, <1>2, EndsInv
  <1>3. CASE on[r] \in live /\ Starts(r) /\ Drops(r)
    <2>1. on[r] \in Sessions /\ busy \in [Sessions -> Seq(Runs)] /\ busy[on[r]] \in Seq(Runs)
      BY <1>1, RunFacts DEF RunInv, RunTypes
    <2>2. busy' = [busy EXCEPT ![on[r]] = Append(@, r)] /\ dropped' = dropped \cup {on[r]}
      BY <1>3 DEF Starts, Drops
    <2>3. Append(busy[on[r]], r) \in Seq(Runs)
      BY <2>1, QueueAppend
    <2>4. /\ busy' \in [Sessions -> Seq(Runs)] /\ \A s \in Sessions : s # on[r] => busy'[s] = busy[s]
      BY <2>1, <2>2, <2>3
    <2>5. /\ on' = on /\ lock' \in [Sessions -> Runs \cup {"none"}] /\ at' \in [Runs -> Steps]
          /\ got' \in [Runs -> Runs \cup {"none"}]
          /\ at'[r] = "ended" /\ got'[r] = "none"
          /\ \A x \in Runs : x # r => at'[x] = at[x] /\ got'[x] = got[x]
          /\ \A x \in Runs : at'[x] # "new" => on'[x] \in Sessions
          /\ \A x \in Runs : at'[x] # "ended" => got'[x] = "none"
          /\ \A x \in Runs : x \in polls \cup stray => at'[x] \in {"loop", "poll", "ended"}
          /\ LockHeld'
      BY <1>1, LeavesInv
    <2>6. RunTypes'
      BY <1>1, <2>4, <2>5 DEF RunInv, RunTypes, Sessions
    <2>7. GoneEmpty'
      BY <1>1, <1>3, <2>4 DEF RunInv, GoneEmpty, Sessions
    <2>8. OneUnanswered'
      BY <1>1, <2>2, <2>4, <2>5, DueKept DEF OneUnanswered, Sessions
    <2>9. AnswerIsOwn'
      BY <2>2, <2>5, RunFacts DEF RunInv, AnswerIsOwn
    <2>10. QED
      BY <2>5, <2>6, <2>7, <2>8, <2>9 DEF RunInv
  <1>4. QED
    BY <1>2, <1>3 DEF SubmitEnds

(* So does the second copy of one, whose session is left as well. *)
LEMMA StrayRunsInv ==
    ASSUME RunInv, NEW r \in Runs, StrayRuns(r) PROVE RunInv'
  <1>1. /\ r \in stray /\ stray' \subseteq stray /\ UNCHANGED <<live, lock, on, at, got, polls, output>>
    BY DEF StrayRuns, sessions
  <1>2. /\ on[r] \in Sessions /\ busy \in [Sessions -> Seq(Runs)] /\ busy[on[r]] \in Seq(Runs)
        /\ output \in [Sessions -> Seq(Runs)]
    BY <1>1, RunFacts DEF RunInv, RunTypes
  <1>3. /\ busy' \in [Sessions -> Seq(Runs)] /\ dropped \subseteq dropped'
        /\ \A s \in Sessions : s \in live \/ busy'[s] = busy[s]
        /\ \A s \in Sessions : s \in dropped' \/ busy'[s] = busy[s]
    <2>1. CASE on[r] \in live
      <3>1. busy' = [busy EXCEPT ![on[r]] = Append(@, r)] /\ dropped' = dropped \cup {on[r]}
        BY <2>1 DEF StrayRuns, Starts, Drops
      <3>2. Append(busy[on[r]], r) \in Seq(Runs)
        BY <1>2, QueueAppend
      <3>3. busy' \in [Sessions -> Seq(Runs)] /\ \A s \in Sessions : s # on[r] => busy'[s] = busy[s]
        BY <1>2, <3>1, <3>2
      <3>4. QED
        BY <2>1, <3>1, <3>3
    <2>2. CASE on[r] \notin live
      BY <1>2, <2>2 DEF StrayRuns
    <2>3. QED
      BY <2>1, <2>2
  <1>4. RunTypes'
    BY <1>1, <1>3 DEF RunInv, RunTypes, Sessions
  <1>5. LockHeld' /\ GoneEmpty' /\ AnswerIsOwn'
    BY <1>1, <1>3 DEF RunInv, LockHeld, GoneEmpty, AnswerIsOwn, Sessions
  <1>6. OneUnanswered'
    BY <1>1, <1>3, DueKept DEF OneUnanswered, Sessions
  <1>7. QED
    BY <1>4, <1>5, <1>6 DEF RunInv

LEMMA PollSentInv ==
    ASSUME RunInv, NEW r \in Runs, PollSent(r) PROVE RunInv'
  <1>1. /\ at[r] = "loop" /\ at' = [at EXCEPT ![r] = "poll"] /\ polls' = polls \cup {r}
        /\ UNCHANGED <<live, lock, on, got, stray, busy, output, dropped>>
    BY DEF PollSent, sessions
  <1>2. at \in [Runs -> Steps] /\ on[r] \in Sessions /\ got[r] = "none"
    BY <1>1, RunFacts DEF RunInv, RunTypes
  <1>3. at' \in [Runs -> Steps] /\ at'[r] = "poll" /\ \A x \in Runs : x # r => at'[x] = at[x]
    BY <1>1, <1>2 DEF Steps
  <1>4. RunTypes'
    BY <1>1, <1>2, <1>3 DEF RunInv, RunTypes, Sessions
  <1>5. LockHeld' /\ GoneEmpty'
    BY <1>1, <1>3 DEF RunInv, LockHeld, GoneEmpty, Sessions
  <1>6. OneUnanswered'
    BY <1>1, <1>3, DueKept DEF OneUnanswered, Sessions
  <1>7. AnswerIsOwn'
    BY <1>1 DEF RunInv, AnswerIsOwn
  <1>8. QED
    BY <1>4, <1>5, <1>6, <1>7 DEF RunInv

(* The oldest output of a session where nothing was left behind is that of
   the run that holds the lock; it may be lost. *)
LEMMA OutputTakenInv ==
    ASSUME RunInv, NEW r \in Runs, OutputTaken(r) \/ OutputLost(r) PROVE RunInv'
  <1>1. /\ r \in polls /\ output[on[r]] # <<>> /\ polls' \subseteq polls
        /\ output' = [output EXCEPT ![on[r]] = Tail(@)]
        /\ UNCHANGED <<live, stray, busy, dropped>>
    BY DEF OutputTaken, OutputLost, PollServed, Takes, sessions
  <1>2. at[r] \in {"loop", "poll", "ended"} /\ on[r] \in Sessions
    BY <1>1 DEF RunInv, RunTypes
  <1>3. /\ output \in [Sessions -> Seq(Runs)] /\ output[on[r]] \in Seq(Runs)
        /\ busy \in [Sessions -> Seq(Runs)] /\ busy[on[r]] \in Seq(Runs)
    BY <1>2 DEF RunInv, RunTypes
  <1>4. /\ Head(output[on[r]]) = output[on[r]][1] /\ Head(output[on[r]]) \in Runs
        /\ 1 \in 1 .. Len(output[on[r]]) /\ Len(output[on[r]]) \in Nat \ {0}
        /\ Tail(output[on[r]]) \in Seq(Runs) /\ Len(Tail(output[on[r]])) = Len(output[on[r]]) - 1
    BY <1>1, <1>3, QueueTail
  <1>5. /\ output' \in [Sessions -> Seq(Runs)] /\ output'[on[r]] = Tail(output[on[r]])
        /\ \A s \in Sessions : s # on[r] => output'[s] = output[s]
    BY <1>1, <1>2, <1>3, <1>4
  <1>6. on[r] \in live
    BY <1>1, <1>2 DEF RunInv, GoneEmpty
  <1>7. GoneEmpty'
    BY <1>1, <1>5, <1>6 DEF RunInv, GoneEmpty, Sessions
  <1>8. ASSUME NEW s \in Sessions, s = on[r], s \notin dropped PROVE Due(s)'
    <2>1. Len(busy[s]) + Len(output[s]) <= 1
      BY <1>8 DEF RunInv, OneUnanswered, Due
    <2>2. Len(busy[s]) \in Nat
      BY <1>3, <1>8, QueueEmpty
    <2>3. Len(output[s]) \in Nat /\ Len(output[s]) # 0
      BY <1>4, <1>8
    <2>4. Len(busy[s]) = 0 /\ Len(output[s]) = 1
      BY <2>1, <2>2, <2>3, OneOfTwo
    <2>5. Len(output'[s]) = Len(output[s]) - 1
      BY <1>4, <1>5, <1>8
    <2>6. Len(output'[s]) = 0 /\ 1 .. 0 = {} /\ 0 + 0 <= 1
      BY <2>4, <2>5
    <2>7. Len(busy'[s]) = 0
      BY <1>1, <2>4
    <2>8. QED
      BY <2>6, <2>7 DEF Due
  <1>9. CASE OutputTaken(r)
    <2>1. at[r] = "poll" /\ Leaves(r, Head(output[on[r]]))
      BY <1>9 DEF OutputTaken
    <2>2. /\ on' = on /\ lock' \in [Sessions -> Runs \cup {"none"}] /\ at' \in [Runs -> Steps]
          /\ got' \in [Runs -> Runs \cup {"none"}]
          /\ at'[r] = "ended" /\ got'[r] = Head(output[on[r]])
          /\ \A x \in Runs : x # r => at'[x] = at[x] /\ got'[x] = got[x]
          /\ \A x \in Runs : at'[x] # "new" => on'[x] \in Sessions
          /\ \A x \in Runs : at'[x] # "ended" => got'[x] = "none"
          /\ \A x \in Runs : x \in polls \cup stray => at'[x] \in {"loop", "poll", "ended"}
          /\ LockHeld'
      BY <1>4, <2>1, LeavesInv
    <2>3. RunTypes'
      BY <1>1, <1>5, <2>2 DEF RunInv, RunTypes, Sessions
    <2>4. ASSUME NEW s \in Sessions, s \notin dropped' PROVE Due(s)'
      <3>1. CASE s = on[r]
        BY <1>1, <1>8, <2>4, <3>1
      <3>2. CASE s # on[r]
        BY <1>1, <1>5, <2>2, <2>4, <3>2, DueKept
      <3>3. QED
        BY <3>1, <3>2
    <2>5. OneUnanswered'
      BY <2>4 DEF OneUnanswered, Sessions
    <2>6. on[r] \notin dropped => Head(output[on[r]]) = r
      <3>1. SUFFICES ASSUME on[r] \notin dropped PROVE Head(output[on[r]]) = r
        OBVIOUS
      <3>2. lock[on[r]] = Head(output[on[r]])
        BY <1>2, <1>4, <3>1, WaiterHolds
      <3>3. lock[on[r]] = r
        BY <2>1 DEF RunInv, LockHeld
      <3>4. QED
        BY <3>2, <3>3
    <2>7. AnswerIsOwn'
      BY <1>1, <2>2, <2>6 DEF RunInv, AnswerIsOwn
    <2>8. QED
      BY <1>7, <2>2, <2>3, <2>5, <2>7 DEF RunInv
  <1>10. CASE OutputLost(r)
    <2>1. UNCHANGED <<lock, on, at, got>>
      BY <1>10 DEF OutputLost
    <2>2. RunTypes'
      BY <1>1, <1>5, <2>1 DEF RunInv, RunTypes, Sessions
    <2>3. LockHeld' /\ AnswerIsOwn'
      BY <1>1, <2>1 DEF RunInv, LockHeld, AnswerIsOwn
    <2>4. ASSUME NEW s \in Sessions, s \notin dropped' PROVE Due(s)'
      <3>1. CASE s = on[r]
        BY <1>1, <1>8, <2>4, <3>1
      <3>2. CASE s # on[r]
        BY <1>1, <1>5, <2>1, <2>4, <3>2, DueKept
      <3>3. QED
        BY <3>1, <3>2
    <2>5. OneUnanswered'
      BY <2>4 DEF OneUnanswered, Sessions
    <2>6. QED
      BY <1>7, <2>2, <2>3, <2>5 DEF RunInv
  <1>11. QED
    BY <1>9, <1>10

LEMMA StillRunningInv ==
    ASSUME RunInv, NEW r \in Runs, StillRunning(r) PROVE RunInv'
  <1>1. r \in polls /\ polls' \subseteq polls /\ UNCHANGED <<live, stray, busy, output, dropped>>
    BY DEF StillRunning, PollServed, sessions
  <1>2. at \in [Runs -> Steps] /\ on[r] \in Sessions
    BY <1>1 DEF RunInv, RunTypes
  <1>3. CASE at[r] = "poll" /\ on[r] \notin live
    <2>1. Leaves(r, "none")
      BY <1>3 DEF StillRunning
    <2>2. QED
      BY <1>1, <1>3, <2>1, EndsInv
  <1>4. CASE at[r] # "poll" \/ on[r] \in live
    <2>1. /\ UNCHANGED <<lock, on, got>>
          /\ at' = at \/ (at[r] = "poll" /\ at' = [at EXCEPT ![r] = "loop"])
      BY <1>4 DEF StillRunning
    <2>2. /\ at' \in [Runs -> Steps] /\ \A x \in Runs : x # r => at'[x] = at[x]
          /\ at'[r] = at[r] \/ (at[r] = "poll" /\ at'[r] = "loop")
      BY <1>2, <2>1 DEF Steps
    <2>3. RunTypes'
      BY <1>1, <2>1, <2>2 DEF RunInv, RunTypes, Sessions
    <2>4. LockHeld' /\ GoneEmpty' /\ AnswerIsOwn'
      BY <1>1, <2>1, <2>2 DEF RunInv, LockHeld, GoneEmpty, AnswerIsOwn, Sessions
    <2>5. OneUnanswered'
      BY <1>1, <2>1, <2>2, DueKept DEF OneUnanswered, Sessions
    <2>6. QED
      BY <2>3, <2>4, <2>5 DEF RunInv
  <1>5. QED
    BY <1>3, <1>4

LEMMA GivesUpInv ==
    ASSUME RunInv, NEW r \in Runs, TimesOut(r) \/ Abandoned(r) \/ CancelledWaiting(r) PROVE RunInv'
  <1>1. CASE TimesOut(r) \/ Abandoned(r)
    <2>1. /\ at[r] \in {"loop", "poll"} /\ Leaves(r, "none") /\ dropped' = dropped \cup {on[r]}
          /\ UNCHANGED <<live, polls, stray, busy, output>>
      BY <1>1 DEF TimesOut, Abandoned, Drops, sessions
    <2>2. QED
      BY <2>1, EndsInv
  <1>2. CASE CancelledWaiting(r)
    <2>1. at[r] = "waiting" /\ Leaves(r, "none") /\ UNCHANGED <<live, polls, stray, busy, output, dropped>>
      BY <1>2 DEF CancelledWaiting, sessions
    <2>2. QED
      BY <2>1, EndsInv
  <1>3. QED
    BY <1>1, <1>2

LEMMA CommandEndsInv ==
    ASSUME RunInv, NEW s \in Sessions, CommandEnds(s) PROVE RunInv'
  <1>1. /\ busy[s] # <<>> /\ output' = [output EXCEPT ![s] = Append(@, Head(busy[s]))]
        /\ busy' = [busy EXCEPT ![s] = Tail(@)]
        /\ UNCHANGED <<live, lock, on, at, got, polls, stray, dropped>>
    BY DEF CommandEnds, sessions
  <1>2. /\ output \in [Sessions -> Seq(Runs)] /\ output[s] \in Seq(Runs)
        /\ busy \in [Sessions -> Seq(Runs)] /\ busy[s] \in Seq(Runs)
    BY DEF RunInv, RunTypes
  <1>3. /\ Head(busy[s]) = busy[s][1] /\ Head(busy[s]) \in Runs
        /\ 1 \in 1 .. Len(busy[s]) /\ Len(busy[s]) \in Nat \ {0}
        /\ Tail(busy[s]) \in Seq(Runs) /\ Len(Tail(busy[s])) = Len(busy[s]) - 1
    BY <1>1, <1>2, QueueTail
  <1>4. /\ Append(output[s], Head(busy[s])) \in Seq(Runs) /\ Len(output[s]) \in Nat
        /\ Len(Append(output[s], Head(busy[s]))) = Len(output[s]) + 1
        /\ \A i \in 1 .. Len(Append(output[s], Head(busy[s]))) :
              \/ Append(output[s], Head(busy[s]))[i] = Head(busy[s])
              \/ i \in 1 .. Len(output[s]) /\ Append(output[s], Head(busy[s]))[i] = output[s][i]
    BY <1>2, <1>3, QueueAppend
  <1>5. /\ output' \in [Sessions -> Seq(Runs)] /\ output'[s] = Append(output[s], Head(busy[s]))
        /\ busy' \in [Sessions -> Seq(Runs)] /\ busy'[s] = Tail(busy[s])
        /\ \A x \in Sessions : x # s => output'[x] = output[x] /\ busy'[x] = busy[x]
    BY <1>1, <1>2, <1>3, <1>4
  <1>6. s \in live
    BY <1>1 DEF RunInv, GoneEmpty
  <1>7. RunTypes' /\ LockHeld' /\ GoneEmpty' /\ AnswerIsOwn'
    <2>1. RunTypes'
      BY <1>1, <1>5 DEF RunInv, RunTypes, Sessions
    <2>2. LockHeld' /\ AnswerIsOwn'
      BY <1>1 DEF RunInv, LockHeld, AnswerIsOwn
    <2>3. GoneEmpty'
      BY <1>1, <1>5, <1>6 DEF RunInv, GoneEmpty, Sessions
    <2>4. QED
      BY <2>1, <2>2, <2>3
  <1>8. ASSUME s \notin dropped PROVE Due(s)'
    <2>1. Due(s) /\ Len(busy[s]) + Len(output[s]) <= 1
      BY <1>8 DEF RunInv, OneUnanswered, Due
    <2>2. Len(busy[s]) = 1 /\ Len(output[s]) = 0
      <3>1. Len(busy[s]) \in Nat /\ Len(busy[s]) # 0 /\ Len(output[s]) \in Nat
        BY <1>3, <1>4
      <3>2. QED
        BY <2>1, <3>1, OneOfTwo
    <2>3. on[Head(busy[s])] = s /\ at[Head(busy[s])] \in {"loop", "poll"}
      BY <1>3, <2>1 DEF Due
    <2>4. Len(busy'[s]) = Len(busy[s]) - 1 /\ Len(output'[s]) = Len(output[s]) + 1
      BY <1>3, <1>4, <1>5
    <2>5. Len(busy'[s]) = 0 /\ Len(output'[s]) = 1 /\ 1 .. 0 = {} /\ 0 + 1 <= 1
      BY <2>2, <2>4
    <2>6. \A i \in 1 .. Len(output'[s]) : output'[s][i] = Head(busy[s])
      BY <1>4, <1>5, <2>2
    <2>7. QED
      BY <1>1, <2>3, <2>5, <2>6 DEF Due
  <1>9. ASSUME NEW x \in Sessions, x \notin dropped' PROVE Due(x)'
    <2>1. CASE x = s
      BY <1>1, <1>8, <1>9, <2>1
    <2>2. CASE x # s
      BY <1>1, <1>5, <1>9, <2>2, DueKept
    <2>3. QED
      BY <2>1, <2>2
  <1>10. OneUnanswered'
    BY <1>9 DEF OneUnanswered, Sessions
  <1>11. QED
    BY <1>7, <1>10 DEF RunInv

(* The steps of sessions that leave the runs as they are. *)
LEMMA RunKept ==
    ASSUME RunInv, UNCHANGED running, live \subseteq live' PROVE RunInv'
  <1>1. UNCHANGED <<lock, on, at, got, polls, stray, busy, output, dropped>>
    BY DEF running
  <1>2. RunTypes' /\ LockHeld' /\ AnswerIsOwn'
    BY <1>1 DEF RunInv, RunTypes, LockHeld, AnswerIsOwn, Sessions
  <1>3. GoneEmpty'
    BY <1>1 DEF RunInv, GoneEmpty, Sessions
  <1>4. OneUnanswered'
    BY <1>1 DEF RunInv, OneUnanswered, Due, Sessions
  <1>5. QED
    BY <1>2, <1>3, <1>4 DEF RunInv

(* A session that is closed takes its commands and outputs with it. *)
LEMMA ShellCloseInv ==
    ASSUME RunInv, NEW s \in Sessions, ShellClose(s), UNCHANGED <<lock, on, at, got, polls, stray, dropped>>
    PROVE  RunInv'
  <1>1. CASE /\ live' = live \ {s}
             /\ busy' = [busy EXCEPT ![s] = <<>>] /\ output' = [output EXCEPT ![s] = <<>>]
    <2>1. busy \in [Sessions -> Seq(Runs)] /\ output \in [Sessions -> Seq(Runs)]
      BY DEF RunInv, RunTypes
    <2>2. /\ busy' \in [Sessions -> Seq(Runs)] /\ output' \in [Sessions -> Seq(Runs)]
          /\ busy'[s] = <<>> /\ output'[s] = <<>>
          /\ \A x \in Sessions : x # s => busy'[x] = busy[x] /\ output'[x] = output[x]
      BY <1>1, <2>1, QueueEmpty
    <2>3. RunTypes'
      BY <2>2 DEF RunInv, RunTypes, Sessions
    <2>4. LockHeld' /\ AnswerIsOwn'
      BY DEF RunInv, LockHeld, AnswerIsOwn
    <2>5. GoneEmpty'
      BY <1>1, <2>2 DEF RunInv, GoneEmpty, Sessions
    <2>6. ASSUME NEW x \in Sessions, x \notin dropped' PROVE Due(x)'
      <3>1. CASE x = s
        <4>1. Len(<<>>) = 0 /\ 1 .. 0 = {} /\ 0 + 0 <= 1
          OBVIOUS
        <4>2. QED
          BY <2>2, <3>1, <4>1 DEF Due
      <3>2. CASE x # s
        BY <2>2, <2>6, <3>2, DueKept
      <3>3. QED
        BY <3>1, <3>2
    <2>7. OneUnanswered'
      BY <2>6 DEF OneUnanswered, Sessions
    <2>8. QED
      BY <2>3, <2>4, <2>5, <2>7 DEF RunInv
  <1>2. CASE UNCHANGED <<live, busy, output>>
    BY <1>2, RunKept DEF running
  <1>3. QED
    BY <1>1, <1>2 DEF ShellClose

LEMMA RunStepInv ==
    ASSUME SessionInv, RunInv, ShellNext PROVE RunInv'
  <1>1. CASE Create \/ CloseBegin \/ CloseLoopEnds \/ CloseClears
             \/ \E s \in Sessions : Created(s) \/ CreateReturns(s) \/ CreateRaises(s)
    <2>1. UNCHANGED running /\ live \subseteq live'
      BY <1>1 DEF Create, CloseBegin, CloseLoopEnds, CloseClears, Created, CreateReturns, CreateRaises
    <2>2. QED
      BY <2>1, RunKept
  <1>2. CASE CloseNext
    <2>1. closing \in 1 .. Len(shells)
      BY <1>2, SessionFacts DEF CloseNext
    <2>2. shells[closing] \in Sessions
      BY <2>1, SessionFacts DEF Sessions
    <2>3. ShellClose(shells[closing]) /\ UNCHANGED <<lock, on, at, got, polls, stray, dropped>>
      BY <1>2 DEF CloseNext
    <2>4. PICK s \in Sessions : s = shells[closing]
      BY <2>2
    <2>5. ShellClose(s)
      BY <2>3, <2>4 DEF ShellClose
    <2>6. QED
      BY <2>3, <2>5, ShellCloseInv
  <1>3. CASE \E s \in Sessions : Kill(s)
    <2>1. PICK s \in Sessions : Kill(s)
      BY <1>3
    <2>2. ShellClose(s) /\ UNCHANGED <<lock, on, at, got, polls, stray, dropped>>
      BY <2>1 DEF Kill
    <2>3. QED
      BY <2>2, ShellCloseInv
  <1>4. CASE \E s \in Sessions : CommandEnds(s) \/ \E r \in Runs : RunCalled(r, s)
    BY <1>4, CommandEndsInv, RunCalledInv
  <1>5. CASE \E r \in Runs : RunStep(r)
    BY <1>5, LockTakenInv, SubmitInv, SubmitEndsInv, StrayRunsInv, PollSentInv,
       OutputTakenInv, StillRunningInv, GivesUpInv DEF RunStep
  <1>6. QED
    BY <1>1, <1>2, <1>3, <1>4, <1>5 DEF ShellNext

-----------------------------------------------------------------------------
(* The two together. *)
LEMMA ShellInitInv ==
    ASSUME ShellInit PROVE ShellsInv
  <1>1. /\ counter = 0 /\ creating = {} /\ shells = <<>> /\ closing = 0 /\ live = {} /\ excused = {}
        /\ lock = [s \in Sessions |-> "none"]
        /\ on = [r \in Runs |-> 0] /\ at = [r \in Runs |-> "new"]
        /\ got = [r \in Runs |-> "none"] /\ polls = {} /\ stray = {}
        /\ busy = [s \in Sessions |-> <<>>] /\ output = [s \in Sessions |-> <<>>]
        /\ dropped = {}
    BY DEF ShellInit
  <1>2. SessionInv
    <2>1. IsFiniteSet({}) /\ Cardinality({}) = 0
      BY FS_EmptySet
    <2>2. 0 \in 0 .. MaxSessions /\ PastLoop # 0
      BY ShellAssumption DEF PastLoop
    <2>3. shells \in Seq(1 .. counter) /\ Len(shells) = 0 /\ 1 .. Len(shells) = {} /\ 0 \in 0 .. Len(shells) + 1
      BY <1>1
    <2>4. Len(shells) + Cardinality(creating) <= counter
      BY <1>1, <2>1, <2>3
    <2>5. SessionTypes
      BY <1>1, <2>1, <2>2, <2>3, <2>4 DEF SessionTypes
    <2>6. Passed
      BY <1>1, <2>2, <2>3 DEF Passed
    <2>7. QED
      BY <2>5, <2>6 DEF SessionInv
  <1>3. RunInv
    <2>1. "none" \notin Runs
      BY ShellAssumption
    <2>2. RunTypes
      BY <1>1, QueueEmpty DEF RunTypes, Steps
    <2>3. LockHeld /\ GoneEmpty /\ AnswerIsOwn
      BY <1>1, <2>1 DEF LockHeld, GoneEmpty, AnswerIsOwn
    <2>4. Len(<<>>) = 0 /\ 1 .. 0 = {} /\ 0 + 0 <= 1
      OBVIOUS
    <2>5. OneUnanswered
      BY <1>1, <2>4 DEF OneUnanswered, Due
    <2>6. QED
      BY <2>2, <2>3, <2>5 DEF RunInv
  <1>4. QED
    BY <1>2, <1>3 DEF ShellsInv

LEMMA PollKept ==
    ASSUME PollInv, UNCHANGED vars PROVE PollInv'
  BY DEF PollInv, TypeOK, vars, Latest

LEMMA ShellsKept ==
    ASSUME ShellsInv, UNCHANGED ShellVars PROVE ShellsInv'
  <1>1. UNCHANGED sessions /\ UNCHANGED running /\ live \subseteq live'
    BY DEF ShellVars, sessions
  <1>2. QED
    BY <1>1, SessionKept, RunKept DEF ShellsInv

(* The inductive invariant of commands and shells. *)
LEMMA ProcessInvariant == ProcessSpec => []ProcessInv
  <1>1. ProcessInit => ProcessInv
    BY PollInitInv, ShellInitInv DEF ProcessInit, ProcessInv
  <1>2. ProcessInv /\ [ProcessNext]_<<vars, ShellVars>> => ProcessInv'
    <2>1. SUFFICES ASSUME ProcessInv, [ProcessNext]_<<vars, ShellVars>> PROVE ProcessInv'
      OBVIOUS
    <2>2. PollInv /\ ShellsInv
      BY <2>1 DEF ProcessInv
    <2>3. CASE Next /\ UNCHANGED ShellVars
      BY <2>2, <2>3, PollStepInv, ShellsKept DEF ProcessInv
    <2>4. CASE ShellNext /\ UNCHANGED CommandVars
      <3>1. ShellsInv'
        BY <2>2, <2>4, SessionStepInv, RunStepInv DEF ShellsInv
      <3>2. PollInv'
        BY <2>2, <2>4, PollKept DEF CommandVars
      <3>3. QED
        BY <3>1, <3>2 DEF ProcessInv
    <2>5. CASE UNCHANGED <<vars, ShellVars>>
      BY <2>2, <2>5, PollKept, ShellsKept DEF ProcessInv
    <2>6. QED
      BY <2>1, <2>3, <2>4, <2>5 DEF ProcessNext
  <1>3. QED
    BY <1>1, <1>2, PTL DEF ProcessSpec

(* The variables of the polling loop keep their types: consecutive errors,
   those of _poll_pid_until_done, never pass their limit. *)
THEOREM CommandTypes == ProcessSpec => []TypeOK
  <1>1. ProcessInv => TypeOK
    BY DEF ProcessInv, PollInv
  <1>2. QED
    BY <1>1, ProcessInvariant, PTL

(* The deadline of a command is overrun by one answer at most, for any
   timeout, interval, delay and error limit and however long an answer takes. *)
THEOREM OneAnswerLate == ProcessSpec => []OverrunIsOneAnswer
  <1>1. ProcessInv => OverrunIsOneAnswer
    <2>1. SUFFICES ASSUME ProcessInv, pc \in {"loop", "poll", "kill"} PROVE now <= Latest
      BY DEF OverrunIsOneAnswer, Latest
    <2>2. now \in Nat /\ (pc = "poll" => now < Timeout) /\ (pc \in {"loop", "kill"} => now <= Latest)
      BY <2>1 DEF ProcessInv, PollInv, TypeOK
    <2>3. Timeout <= Latest /\ Latest \in Nat
      BY PollConstants DEF Latest
    <2>4. QED
      BY <2>1, <2>2, <2>3, PollConstants
  <1>2. QED
    BY <1>1, ProcessInvariant, PTL

(* Runs of one shell get the output of their own command, for any number of
   runs and sessions and whatever invoke makes of a call, until a command is
   submitted that no run waits for. *)
THEOREM RunGetsItsOwn == ProcessSpec => []AnswerIsOwn
  <1>1. ProcessInv => AnswerIsOwn
    BY DEF ProcessInv, ShellsInv, RunInv
  <1>2. QED
    BY <1>1, ProcessInvariant, PTL

(* Shells.close reaches every session of the sandbox, however creates, kills
   and other close() calls interleave, but for the ones excused. *)
THEOREM CloseReachesAll == ProcessSpec => []SessionsReachable
  <1>1. ProcessInv => SessionsReachable
    <2>1. SUFFICES ASSUME ProcessInv PROVE SessionsReachable
      OBVIOUS
    <2>2. SessionInv
      BY <2>1 DEF ProcessInv, ShellsInv
    <2>3. ToSet(shells) = {shells[i] : i \in 1 .. Len(shells)}
      BY <2>2, SessionFacts DEF ToSet
    <2>4. \A s \in live : s \in creating \cup excused \/ \E i \in 1 .. Len(shells) : shells[i] = s
      BY <2>2 DEF SessionInv, Passed
    <2>5. QED
      BY <2>3, <2>4 DEF SessionsReachable
  <1>2. QED
    BY <1>1, ProcessInvariant, PTL

-----------------------------------------------------------------------------
(***************************************************************************)
(* Terminals, for any set of them.  The outcome of a session is final      *)
(* because its thread reports one only on its way out of the connection,   *)
(* and on that way looks whether there is one.                             *)
(***************************************************************************)
ConnRecords ==
    [ready : BOOLEAN, done : BOOLEAN, started : BOOLEAN, exit : BOOLEAN,
     error : {"none", "thread", "connection", "remote", "noterminal"}]
ConnectedOrBefore == {"new", "boot", "connect", "open"}

(* What a transport thread may have reported where. *)
Reported(where, c) ==
    /\ where \in Stages /\ c \in ConnRecords
    /\ c.done => c.ready
    /\ where \in {"flagged", "dead"} => c.done
    /\ where \in ConnectedOrBefore => ~c.done

TransportInv ==
    /\ thread \in [Terminals -> Stages] /\ conn \in [Terminals -> ConnRecords]
    /\ \A s \in Terminals : Reported(thread[s], conn[s])

(* A close() that goes on has marked its session. *)
ClosesInv ==
    /\ closed \subseteq Terminals /\ stopping \subseteq closed
    /\ closeAt \in [Actors -> [Terminals -> {"no", "mark", "decide", "call", "join",
                                             "ended", "raised"}]]
    /\ snap \in [Actors -> [Terminals -> [loop : BOOLEAN, socket : BOOLEAN]]]
    /\ \A a \in Actors, s \in Terminals : closeAt[a][s] \in {"decide", "call"} => s \in closed

(* A thread is started once, by the thread that registered its session. *)
CallerInv ==
    /\ user \in [Terminals -> {"idle", "registered", "waiting", "open", "closing", "ended"}]
    /\ registered \subseteq Terminals
    /\ sweep \in [state : {"idle", "next", "closing", "done"}, todo : SUBSET Terminals]
    /\ \A s \in Terminals : user[s] \in {"idle", "registered"} => thread[s] = "new"

PtyInv == TransportInv /\ ClosesInv /\ CallerInv

(* The reports of a connection that later ones leave alone. *)
SameOutcome(c, d) == c.done => d.exit = c.exit /\ d.error = c.error

(* An error is reported with both events set. *)
LEMMA WithErrorReports ==
    ASSUME NEW c \in ConnRecords, NEW what \in {"thread", "connection", "remote", "noterminal"}
    PROVE  /\ WithError(c, what) \in ConnRecords
           /\ WithError(c, what).done /\ WithError(c, what).ready
  BY DEF WithError, ConnRecords

(* One step of one transport thread. *)
LEMMA ReportStep ==
    ASSUME TransportInv, CallerInv, NEW s \in Terminals, NEW to, NEW c,
           Reported(to, c), SameOutcome(conn[s], c),
           thread' = [thread EXCEPT ![s] = to], conn' = [conn EXCEPT ![s] = c],
           user' = user, sweep' = sweep, registered' \subseteq registered,
           thread[s] # "new"
    PROVE  /\ TransportInv' /\ CallerInv'
           /\ \A t \in Terminals : SameOutcome(conn[t], conn'[t])
  <1>1. to \in Stages /\ c \in ConnRecords  BY DEF Reported
  <1>2. thread' \in [Terminals -> Stages] /\ conn' \in [Terminals -> ConnRecords]
    BY <1>1 DEF TransportInv
  <1>3. thread'[s] = to /\ conn'[s] = c  BY DEF TransportInv
  <1>4. ASSUME NEW t \in Terminals, t # s
        PROVE  thread'[t] = thread[t] /\ conn'[t] = conn[t]
    BY <1>4 DEF TransportInv
  <1>5. ASSUME NEW t \in Terminals
        PROVE  Reported(thread'[t], conn'[t]) /\ SameOutcome(conn[t], conn'[t])
    BY <1>3, <1>4, Zenon DEF TransportInv, SameOutcome
  <1>6. ASSUME NEW t \in Terminals, user'[t] \in {"idle", "registered"}
        PROVE  thread'[t] = "new"
    BY <1>4, <1>6 DEF CallerInv
  <1>7. TransportInv'  BY <1>2, <1>5, Zenon DEF TransportInv
  <1>8. CallerInv'  BY <1>6 DEF CallerInv
  <1> QED BY <1>5, <1>7, <1>8

(* A step of a thread that reports nothing. *)
LEMMA QuietStep ==
    ASSUME PtyInv, NEW s \in Terminals, NEW to \in Stages, NEW from,
           Move(s, from, to), conn' = conn, registered' \subseteq registered,
           from # "new",
           to \in {"flagged", "dead"} => conn[s].done,
           to \in ConnectedOrBefore => ~conn[s].done
    PROVE  PtyInv' /\ \A t \in Terminals : SameOutcome(conn[t], conn'[t])
  <1>1. conn[s] \in ConnRecords /\ (conn[s].done => conn[s].ready)
    BY DEF PtyInv, TransportInv, Reported
  <1>2. Reported(to, conn[s])  BY <1>1 DEF Reported
  <1>3. conn' = [conn EXCEPT ![s] = conn[s]]  BY DEF PtyInv, TransportInv
  <1>4. SameOutcome(conn[s], conn[s])  BY DEF SameOutcome
  <1>5. /\ thread[s] = from /\ thread' = [thread EXCEPT ![s] = to]
        /\ user' = user /\ sweep' = sweep
        /\ UNCHANGED closes
    BY DEF Move
  <1>6. /\ TransportInv' /\ CallerInv'
        /\ \A t \in Terminals : SameOutcome(conn[t], conn'[t])
    BY <1>2, <1>3, <1>4, <1>5, ReportStep DEF PtyInv
  <1>7. ClosesInv'  BY <1>5 DEF PtyInv, ClosesInv, closes
  <1> QED BY <1>6, <1>7 DEF PtyInv

(* A step of a thread that reports the end of its session. *)
LEMMA EndingStep ==
    ASSUME PtyInv, NEW s \in Terminals, NEW to \in Stages \ ConnectedOrBefore, NEW from, NEW c,
           Move(s, from, to), conn' = [conn EXCEPT ![s] = c], registered' = registered,
           from # "new", c \in ConnRecords, c.done, c.ready, SameOutcome(conn[s], c)
    PROVE  PtyInv' /\ \A t \in Terminals : SameOutcome(conn[t], conn'[t])
  <1>2. Reported(to, c)  BY DEF Reported
  <1>5. /\ thread[s] = from /\ thread' = [thread EXCEPT ![s] = to]
        /\ user' = user /\ sweep' = sweep
        /\ UNCHANGED closes
    BY DEF Move
  <1>6. /\ TransportInv' /\ CallerInv'
        /\ \A t \in Terminals : SameOutcome(conn[t], conn'[t])
    BY <1>2, <1>5, ReportStep DEF PtyInv
  <1>7. ClosesInv'  BY <1>5 DEF PtyInv, ClosesInv, closes
  <1> QED BY <1>6, <1>7 DEF PtyInv

(* The steps of the transport thread itself. *)
LEMMA ThreadStepInv ==
    ASSUME PtyInv, NEW s \in Terminals, ThreadStep(s) \/ RemoteStep(s)
    PROVE  PtyInv' /\ \A t \in Terminals : SameOutcome(conn[t], conn'[t])
  <1> DEFINE Goal == PtyInv' /\ \A t \in Terminals : SameOutcome(conn[t], conn'[t])
  <1>0. /\ conn[s] \in ConnRecords /\ (conn[s].done => conn[s].ready)
        /\ thread[s] \in {"flagged", "dead"} => conn[s].done
        /\ thread[s] \in ConnectedOrBefore => ~conn[s].done
        /\ conn = [conn EXCEPT ![s] = conn[s]]
    BY DEF PtyInv, TransportInv, Reported
  <1>1. CASE SetLoop(s)
    <2>1. Move(s, "boot", "connect") /\ conn' = conn /\ registered' = registered
      BY <1>1 DEF SetLoop
    <2>2. ~conn[s].done  BY <2>1, <1>0 DEF Move, ConnectedOrBefore
    <2> QED BY <2>1, <2>2, QuietStep DEF Stages
  <1>2. CASE Connected(s)
    <2>1. Move(s, "connect", "open") /\ conn' = conn /\ registered' = registered
      BY <1>2 DEF Connected
    <2>2. ~conn[s].done  BY <2>1, <1>0 DEF Move, ConnectedOrBefore
    <2> QED BY <2>1, <2>2, QuietStep DEF Stages
  <1>3. CASE RunRaises(s)
    <2>1. PICK from \in {"connect", "open"}, to \in {"failed", "leave"} : Move(s, from, to)
      BY <1>3 DEF RunRaises
    <2>2. registered' = registered  BY <1>3 DEF RunRaises
    <2>3. CASE s \in closed \/ conn[s].done
      <3>1. conn' = conn  BY <1>3, <2>3 DEF RunRaises
      <3> QED BY <2>1, <2>2, <3>1, QuietStep DEF Stages, ConnectedOrBefore
    <2>4. CASE ~(s \in closed \/ conn[s].done)
      <3> DEFINE c == WithError(conn[s], "connection")
      <3>1. conn' = [conn EXCEPT ![s] = c]  BY <1>3, <2>4 DEF RunRaises
      <3>2. c \in ConnRecords /\ c.done /\ c.ready  BY <1>0, WithErrorReports
      <3>3. SameOutcome(conn[s], c)  BY <2>4 DEF SameOutcome
      <3>4. to \in Stages \ ConnectedOrBefore /\ from # "new"  BY DEF Stages, ConnectedOrBefore
      <3> HIDE DEF c
      <3> QED BY <2>1, <2>2, <3>1, <3>2, <3>3, <3>4, EndingStep
    <2> QED BY <2>3, <2>4
  <1>4. CASE StreamEnds(s)
    <2>1. Move(s, "open", "leave") /\ conn' = conn /\ registered' = registered
      BY <1>4 DEF StreamEnds
    <2> QED BY <2>1, QuietStep DEF Stages, ConnectedOrBefore
  <1>5. CASE StartedFrame(s)
    <2> DEFINE c == [conn[s] EXCEPT !.started = TRUE, !.ready = TRUE]
    <2>1. /\ thread[s] = "open" /\ conn' = [conn EXCEPT ![s] = c]
          /\ thread' = thread /\ user' = user /\ sweep' = sweep /\ registered' = registered
          /\ UNCHANGED closes
      <3>1. conn' = [conn EXCEPT ![s].started = TRUE, ![s].ready = TRUE]
        BY <1>5 DEF StartedFrame
      <3>2. conn \in [Terminals -> ConnRecords]  BY DEF PtyInv, TransportInv
      <3>3. conn' = [conn EXCEPT ![s] = c]  BY <3>1, <3>2, <1>0 DEF ConnRecords
      <3> QED BY <1>5, <3>3 DEF StartedFrame
    <2>2. thread' = [thread EXCEPT ![s] = thread[s]]
      BY <2>1 DEF PtyInv, TransportInv
    <2>3. /\ c \in ConnRecords /\ c.ready /\ c.done = conn[s].done
          /\ c.exit = conn[s].exit /\ c.error = conn[s].error
      BY <1>0 DEF ConnRecords
    <2>4. Reported(thread[s], c)
      BY <2>1, <2>3, <1>0 DEF Reported, Stages, ConnectedOrBefore
    <2>5. SameOutcome(conn[s], c)  BY <2>3 DEF SameOutcome
    <2> HIDE DEF c
    <2>6. /\ TransportInv' /\ CallerInv'
          /\ \A t \in Terminals : SameOutcome(conn[t], conn'[t])
      BY <2>1, <2>2, <2>4, <2>5, ReportStep DEF PtyInv
    <2>7. ClosesInv'  BY <2>1 DEF PtyInv, ClosesInv, closes
    <2> QED BY <2>6, <2>7 DEF PtyInv
  <1>6. CASE ExitedFrame(s)
    <2> DEFINE c == [conn[s] EXCEPT !.started = TRUE, !.exit = TRUE, !.ready = TRUE, !.done = TRUE]
    <2>1. /\ Move(s, "open", "leave") /\ conn' = [conn EXCEPT ![s] = c]
          /\ registered' = registered
      BY <1>6 DEF ExitedFrame
    <2>2. c \in ConnRecords /\ c.done /\ c.ready  BY <1>0 DEF ConnRecords
    <2>3. SameOutcome(conn[s], c)  BY <2>1, <1>0 DEF SameOutcome, Move, ConnectedOrBefore
    <2> HIDE DEF c
    <2> QED BY <2>1, <2>2, <2>3, EndingStep DEF Stages, ConnectedOrBefore
  <1>7. CASE ErrorFrame(s)
    <2> DEFINE c == WithError(conn[s], "remote")
    <2>1. Move(s, "open", "leave") /\ conn' = [conn EXCEPT ![s] = c] /\ registered' = registered
      BY <1>7 DEF ErrorFrame
    <2>2. c \in ConnRecords /\ c.done /\ c.ready  BY <1>0, WithErrorReports
    <2>3. SameOutcome(conn[s], c)  BY <2>1, <1>0 DEF SameOutcome, Move, ConnectedOrBefore
    <2> HIDE DEF c
    <2> QED BY <2>1, <2>2, <2>3, EndingStep DEF Stages, ConnectedOrBefore
  <1>8. CASE ClearLoop(s)
    <2>1. PICK from \in {"failed", "leave"} : Move(s, from, "cleared")  BY <1>8 DEF ClearLoop
    <2>2. conn' = conn /\ registered' = registered  BY <1>8 DEF ClearLoop
    <2> QED BY <2>1, <2>2, QuietStep DEF Stages, ConnectedOrBefore
  <1>9. CASE RunEnds(s)
    <2>1. Move(s, "cleared", "ran") /\ registered' = registered  BY <1>9 DEF RunEnds
    <2>3. CASE s \in closed \/ conn[s].done
      <3>1. conn' = conn  BY <1>9, <2>3 DEF RunEnds
      <3> QED BY <2>1, <3>1, QuietStep DEF Stages, ConnectedOrBefore
    <2>4. CASE ~(s \in closed \/ conn[s].done)
      <3> DEFINE c == WithError(conn[s], "noterminal")
      <3>1. conn' = [conn EXCEPT ![s] = c]  BY <1>9, <2>4 DEF RunEnds
      <3>2. c \in ConnRecords /\ c.done /\ c.ready  BY <1>0, WithErrorReports
      <3>3. SameOutcome(conn[s], c)  BY <2>4 DEF SameOutcome
      <3> HIDE DEF c
      <3> QED BY <2>1, <3>1, <3>2, <3>3, EndingStep DEF Stages, ConnectedOrBefore
    <2> QED BY <2>3, <2>4
  <1>10. CASE CloseLoop(s)
    <2>1. Move(s, "ran", "loopclosed") /\ conn' = conn /\ registered' = registered
      BY <1>10 DEF CloseLoop
    <2> QED BY <2>1, QuietStep DEF Stages, ConnectedOrBefore
  <1>11. CASE SetDone(s)
    <2> DEFINE c == [conn[s] EXCEPT !.ready = TRUE, !.done = TRUE]
    <2>1. /\ Move(s, "loopclosed", "flagged") /\ registered' = registered
          /\ conn' = [conn EXCEPT ![s] = c]
      <3>1. conn' = [conn EXCEPT ![s].ready = TRUE, ![s].done = TRUE]
        BY <1>11 DEF SetDone
      <3>2. conn \in [Terminals -> ConnRecords]  BY DEF PtyInv, TransportInv
      <3>3. conn' = [conn EXCEPT ![s] = c]  BY <3>1, <3>2, <1>0 DEF ConnRecords
      <3> QED BY <1>11, <3>3 DEF SetDone
    <2>2. /\ c \in ConnRecords /\ c.done /\ c.ready
          /\ c.exit = conn[s].exit /\ c.error = conn[s].error
      BY <1>0 DEF ConnRecords
    <2>3. SameOutcome(conn[s], c)  BY <2>2 DEF SameOutcome
    <2> HIDE DEF c
    <2> QED BY <2>1, <2>2, <2>3, EndingStep DEF Stages, ConnectedOrBefore
  <1>12. CASE OnDone(s)
    <2>1. Move(s, "flagged", "dead") /\ conn' = conn /\ registered' = registered \ {s}
      BY <1>12 DEF OnDone
    <2>2. conn[s].done  BY <2>1, <1>0 DEF Move
    <2> QED BY <2>1, <2>2, QuietStep DEF Stages, ConnectedOrBefore
  <1>13. CASE ThreadFails(s)
    <2> DEFINE c == WithError(conn[s], "thread")
    <2>1. Move(s, "boot", "flagged") /\ conn' = [conn EXCEPT ![s] = c] /\ registered' = registered
      BY <1>13 DEF ThreadFails
    <2>2. c \in ConnRecords /\ c.done /\ c.ready  BY <1>0, WithErrorReports
    <2>3. SameOutcome(conn[s], c)  BY <2>1, <1>0 DEF SameOutcome, Move, ConnectedOrBefore
    <2> HIDE DEF c
    <2> QED BY <2>1, <2>2, <2>3, EndingStep DEF Stages, ConnectedOrBefore
  <1> QED
    BY <1>1, <1>2, <1>3, <1>4, <1>5, <1>6, <1>7, <1>8, <1>9, <1>10, <1>11, <1>12, <1>13
    DEF ThreadStep, RemoteStep, Stopped

(* The steps of the user threads: the thread is started by one of them. *)
LEMMA UserStepInv ==
    ASSUME PtyInv, NEW s \in Terminals, UserStep(s)
    PROVE  PtyInv' /\ conn' = conn
  <1>1. CASE PtyCreate(s)
    <2>1. /\ user[s] = "idle" /\ user' = [user EXCEPT ![s] = "registered"]
          /\ registered' = registered \cup {s} /\ UNCHANGED <<transport, closes, sweep>>
      BY <1>1 DEF PtyCreate
    <2>2. CallerInv'  BY <2>1 DEF PtyInv, CallerInv, transport
    <2> QED BY <2>1, <2>2 DEF PtyInv, TransportInv, ClosesInv, transport, closes
  <1>2. CASE PtyStart(s)
    <2>1. /\ user[s] = "registered" /\ user' = [user EXCEPT ![s] = "waiting"]
          /\ thread' = [thread EXCEPT ![s] = "boot"]
          /\ UNCHANGED <<conn, closes, registered, sweep>>
      BY <1>2 DEF PtyStart
    <2>2. CallerInv'  BY <2>1 DEF PtyInv, CallerInv, TransportInv
    <2>3. thread[s] = "new"  BY <2>1 DEF PtyInv, CallerInv
    <2>4. Reported("boot", conn[s])
      BY <2>3 DEF PtyInv, TransportInv, Reported, Stages, ConnectedOrBefore
    <2>5. thread' \in [Terminals -> Stages]  BY <2>1 DEF PtyInv, TransportInv, Stages
    <2>6. ASSUME NEW t \in Terminals  PROVE Reported(thread'[t], conn'[t])
      <3>1. CASE t = s  BY <2>1, <2>4, <3>1 DEF PtyInv, TransportInv
      <3>2. CASE t # s  BY <2>1, <3>2 DEF PtyInv, TransportInv
      <3> QED BY <3>1, <3>2
    <2>7. TransportInv'  BY <2>1, <2>5, <2>6 DEF PtyInv, TransportInv
    <2> QED BY <2>1, <2>2, <2>7 DEF PtyInv, ClosesInv, closes
  <1>3. CASE StartReturns(s)
    <2>1. /\ user[s] = "waiting" /\ user' = [user EXCEPT ![s] = "open"]
          /\ UNCHANGED <<transport, closes, registered, sweep>>
      BY <1>3 DEF StartReturns
    <2>2. CallerInv'  BY <2>1 DEF PtyInv, CallerInv, transport
    <2> QED BY <2>1, <2>2 DEF PtyInv, TransportInv, ClosesInv, transport, closes
  <1>4. CASE StartFails(s) \/ UserClose(s)
    <2>1. /\ user' = [user EXCEPT ![s] = "closing"]
          /\ closeAt' = [closeAt EXCEPT !["user"][s] = "mark"]
          /\ UNCHANGED <<transport, closed, stopping, snap, registered, sweep>>
      BY <1>4 DEF StartFails, UserClose, BeginClose
    <2>2. CallerInv'  BY <2>1 DEF PtyInv, CallerInv, transport
    <2>3. ClosesInv'  BY <2>1 DEF PtyInv, ClosesInv, Actors
    <2> QED BY <2>1, <2>2, <2>3 DEF PtyInv, TransportInv, transport
  <1>5. CASE UserClosed(s)
    <2>1. /\ user' = [user EXCEPT ![s] = "ended"] /\ registered' \subseteq registered
          /\ UNCHANGED <<transport, closes, sweep>>
      BY <1>5 DEF UserClosed
    <2>2. CallerInv'  BY <2>1 DEF PtyInv, CallerInv, transport
    <2> QED BY <2>1, <2>2 DEF PtyInv, TransportInv, ClosesInv, transport, closes
  <1> QED BY <1>1, <1>2, <1>3, <1>4, <1>5 DEF UserStep

(* The steps of a close(). *)
LEMMA CloseStepInv ==
    ASSUME PtyInv, NEW a \in Actors, NEW s \in Terminals, CloseStep(a, s)
    PROVE  PtyInv' /\ conn' = conn
  <1>1. UNCHANGED <<transport, user, registered, sweep>>
    BY DEF CloseStep, Mark, Decide, Call, Join
  <1>2. ASSUME Mark(a, s)  PROVE ClosesInv'
    <2>1. CASE s \in closed
      <3>1. closeAt' = [closeAt EXCEPT ![a][s] = "ended"] /\ UNCHANGED <<closed, snap, stopping>>
        BY <1>2, <2>1 DEF Mark, To
      <3> QED BY <3>1 DEF PtyInv, ClosesInv
    <2>2. CASE s \notin closed
      <3>1. /\ closeAt' = [closeAt EXCEPT ![a][s] = "decide"]
            /\ closed' = closed \cup {s} /\ stopping' = stopping
            /\ snap' = [snap EXCEPT ![a][s] = [loop |-> HasLoop(s), socket |-> HasSocket(s)]]
        BY <1>2, <2>2 DEF Mark, To
      <3>2. [loop |-> HasLoop(s), socket |-> HasSocket(s)] \in [loop : BOOLEAN, socket : BOOLEAN]
        BY DEF HasLoop, HasSocket
      <3>3. snap' \in [Actors -> [Terminals -> [loop : BOOLEAN, socket : BOOLEAN]]]
        BY <3>1, <3>2, Zenon DEF PtyInv, ClosesInv
      <3> QED BY <3>1, <3>3 DEF PtyInv, ClosesInv
    <2> QED BY <2>1, <2>2
  <1>3. ASSUME Decide(a, s)  PROVE ClosesInv'
    <2>1. /\ closeAt[a][s] = "decide"
          /\ \E where \in {"call", "join"} : closeAt' = [closeAt EXCEPT ![a][s] = where]
          /\ UNCHANGED <<closed, stopping, snap>>
      BY <1>3 DEF Decide, To
    <2> QED BY <2>1 DEF PtyInv, ClosesInv
  <1>4. ASSUME Call(a, s)  PROVE ClosesInv'
    <2>1. /\ closeAt[a][s] = "call"
          /\ \E where \in {"raised", "join"} : closeAt' = [closeAt EXCEPT ![a][s] = where]
          /\ stopping' \in {stopping, stopping \cup {s}}
          /\ UNCHANGED <<closed, snap>>
      BY <1>4 DEF Call, To
    <2> QED BY <2>1 DEF PtyInv, ClosesInv
  <1>5. ASSUME Join(a, s)  PROVE ClosesInv'
    <2>1. closeAt' = [closeAt EXCEPT ![a][s] = "ended"] /\ UNCHANGED <<closed, stopping, snap>>
      BY <1>5 DEF Join, To
    <2> QED BY <2>1 DEF PtyInv, ClosesInv
  <1>6. ClosesInv'  BY <1>2, <1>3, <1>4, <1>5 DEF CloseStep, PtyInv
  <1> QED BY <1>1, <1>6 DEF PtyInv, TransportInv, CallerInv, transport

(* The steps of Pty._close. *)
LEMMA SweepStepInv ==
    ASSUME PtyInv, SweepStep
    PROVE  PtyInv' /\ conn' = conn
  <1> DEFINE Sweeps == [state : {"idle", "next", "closing", "done"}, todo : SUBSET Terminals]
  <1>0. sweep \in Sweeps /\ registered \subseteq Terminals  BY DEF PtyInv, CallerInv
  <1>1. UNCHANGED <<transport, closed, stopping, snap, user>>
    BY DEF SweepStep, SweepBegin, SweepDone, SweepNext, SweepClosed, SweepRaised, closes
  <1>2. CASE SweepBegin \/ SweepDone
    <2>1. UNCHANGED <<closes, registered>>  BY <1>2 DEF SweepBegin, SweepDone
    <2>2. sweep' \in Sweeps  BY <1>0, <1>2 DEF SweepBegin, SweepDone
    <2> QED
      BY <1>1, <2>1, <2>2 DEF PtyInv, TransportInv, ClosesInv, CallerInv, closes, transport
  <1>3. ASSUME NEW s \in Terminals, SweepNext(s)  PROVE PtyInv' /\ conn' = conn
    <2>1. closeAt' = [closeAt EXCEPT !["pty"][s] = "mark"] /\ registered' = registered
      BY <1>3 DEF SweepNext, BeginClose
    <2>2. sweep' \in Sweeps  BY <1>0, <1>3 DEF SweepNext
    <2>3. ClosesInv'  BY <1>1, <2>1 DEF PtyInv, ClosesInv, Actors
    <2> QED BY <1>1, <2>1, <2>2, <2>3 DEF PtyInv, TransportInv, CallerInv, transport
  <1>4. ASSUME NEW s \in Terminals, SweepClosed(s)  PROVE PtyInv' /\ conn' = conn
    <2>1. closeAt' = [closeAt EXCEPT !["pty"][s] = "no"] /\ registered' = registered \ {s}
      BY <1>4 DEF SweepClosed, To
    <2>2. sweep' \in Sweeps  BY <1>0, <1>4 DEF SweepClosed
    <2>3. ClosesInv'  BY <1>1, <2>1 DEF PtyInv, ClosesInv, Actors
    <2> QED BY <1>1, <2>1, <2>2, <2>3 DEF PtyInv, TransportInv, CallerInv, transport
  <1>5. ASSUME NEW s \in Terminals, SweepRaised(s)  PROVE PtyInv' /\ conn' = conn
    <2>1. UNCHANGED <<closes, registered>>  BY <1>5 DEF SweepRaised
    <2>2. sweep' \in Sweeps  BY <1>0, <1>5 DEF SweepRaised
    <2> QED
      BY <1>1, <2>1, <2>2 DEF PtyInv, TransportInv, ClosesInv, CallerInv, closes, transport
  <1> QED BY <1>2, <1>3, <1>4, <1>5 DEF SweepStep

(* Nothing is reported, closed or registered at first. *)
LEMMA PtyInitInv == PtyInit => PtyInv
  <1> SUFFICES ASSUME PtyInit PROVE PtyInv
    OBVIOUS
  <1>1. TransportInv
    <2>1. thread \in [Terminals -> Stages] /\ conn \in [Terminals -> ConnRecords]
      BY DEF PtyInit, Stages, ConnRecords
    <2>2. ASSUME NEW s \in Terminals  PROVE Reported(thread[s], conn[s])
      BY <2>1 DEF PtyInit, Reported, Stages
    <2> QED BY <2>1, <2>2 DEF TransportInv
  <1>2. ClosesInv  BY DEF PtyInit, ClosesInv
  <1>3. CallerInv  BY DEF PtyInit, CallerInv
  <1> QED BY <1>1, <1>2, <1>3 DEF PtyInv

(* Every step of the terminals keeps the invariant and the outcomes. *)
LEMMA PtyNextInv ==
    ASSUME PtyInv, [PtyNext]_ptyVars
    PROVE  PtyInv' /\ \A t \in Terminals : SameOutcome(conn[t], conn'[t])
  <1>0. conn' = conn => \A t \in Terminals : SameOutcome(conn[t], conn'[t])
    BY DEF SameOutcome
  <1>1. CASE UNCHANGED ptyVars
    BY <1>0, <1>1
    DEF ptyVars, transport, closes, PtyInv, TransportInv, ClosesInv, CallerInv
  <1>2. ASSUME NEW s \in Terminals, ThreadStep(s) \/ UserStep(s) \/ RemoteStep(s)
        PROVE  PtyInv' /\ \A t \in Terminals : SameOutcome(conn[t], conn'[t])
    BY <1>0, <1>2, ThreadStepInv, UserStepInv
  <1>3. ASSUME NEW a \in Actors, NEW s \in Terminals, CloseStep(a, s)
        PROVE  PtyInv' /\ \A t \in Terminals : SameOutcome(conn[t], conn'[t])
    BY <1>0, <1>3, CloseStepInv
  <1>4. CASE SweepStep  BY <1>0, <1>4, SweepStepInv
  <1> QED BY <1>1, <1>2, <1>3, <1>4 DEF PtyNext

(* The invariant of the terminals holds of every reachable state. *)
LEMMA PtyInvariant == PtySpec => []PtyInv
  <1>1. PtyInv /\ [PtyNext]_ptyVars => PtyInv'  BY PtyNextInv
  <1> QED BY PtyInitInv, <1>1, PTL DEF PtySpec

(***************************************************************************)
(* The state of the terminals is always of its type, a connection that     *)
(* ended has its events set, and a loop is asked to stop only by a close() *)
(* that has marked the session.                                            *)
(***************************************************************************)
THEOREM TerminalTypes == PtySpec => []PtyTypeOK
  <1>1. PtyInv => PtyTypeOK
    <2> SUFFICES ASSUME PtyInv PROVE PtyTypeOK
      OBVIOUS
    <2>1. \A s \in Terminals : /\ conn[s].done => conn[s].ready
                               /\ thread[s] \in {"flagged", "dead"} => conn[s].done
      BY DEF PtyInv, TransportInv, Reported
    <2> QED BY <2>1 DEF PtyInv, TransportInv, ClosesInv, CallerInv, PtyTypeOK, ConnRecords
  <1> QED BY PtyInvariant, <1>1, PTL

(***************************************************************************)
(* What wait() reports is final: once _PtyConnection's done event is set,  *)
(* neither the exit code nor the error of the session changes, whoever     *)
(* closes it and however its connection ends.                              *)
(***************************************************************************)
THEOREM OutcomeStays == PtySpec => OutcomeFinal
  <1>1. PtyInv /\ [PtyNext]_ptyVars
        => [\A s \in Terminals : conn[s].done =>
              conn'[s].exit = conn[s].exit /\ conn'[s].error = conn[s].error]_ptyVars
    BY PtyNextInv DEF SameOutcome
  <1> QED BY PtyInvariant, <1>1, PTL DEF PtySpec, OutcomeFinal

(***************************************************************************)
(* The part of a close() that does not depend on fairness: it never goes   *)
(* on from a loop it has found without having asked it to stop, unless the *)
(* thread is past its task.                                                *)
(***************************************************************************)
LoopAsked ==
    \A a \in Actors, s \in Terminals :
        snap[a][s].loop /\ closeAt[a][s] \notin {"decide", "call"}
        => s \in stopping \/ TaskDone(s)

(* Each actor closes a session at most once, Pty._close one at a time. *)
OneClose ==
    /\ \A s \in Terminals : user[s] \notin {"closing", "ended"} => closeAt["user"][s] = "no"
    /\ sweep.state \in {"idle", "next"} => \A s \in Terminals : closeAt["pty"][s] = "no"
    /\ \A s, t \in Terminals : closeAt["pty"][s] # "no" /\ closeAt["pty"][t] # "no" => s = t

(* A thread past its task stays past it. *)
LEMMA TaskStaysDone ==
    ASSUME PtyInv, [PtyNext]_ptyVars, NEW t \in Terminals, TaskDone(t)
    PROVE  TaskDone(t)'
  <1>0. thread \in [Terminals -> Stages]  BY DEF PtyInv, TransportInv
  <1>1. ASSUME NEW s \in Terminals, NEW from, NEW to, Move(s, from, to),
               from \in {"ran", "loopclosed", "flagged"} => to \in {"loopclosed", "flagged", "dead"},
               from # "dead"
        PROVE  TaskDone(t)'
    <2>1. thread[s] = from /\ thread' = [thread EXCEPT ![s] = to]  BY <1>1 DEF Move
    <2>2. CASE t = s  BY <1>0, <1>1, <2>1, <2>2 DEF TaskDone
    <2>3. CASE t # s  BY <1>0, <2>1, <2>3 DEF TaskDone
    <2> QED BY <2>2, <2>3
  <1>2. CASE thread' = thread  BY <1>2 DEF TaskDone
  <1>3. ASSUME NEW s \in Terminals, ThreadStep(s) \/ RemoteStep(s)  PROVE TaskDone(t)'
    <2>1. \/ thread' = thread
          \/ \E from \in {"boot", "connect", "open", "failed", "leave", "cleared"},
                to \in Stages : Move(s, from, to)
          \/ Move(s, "ran", "loopclosed") \/ Move(s, "loopclosed", "flagged")
          \/ Move(s, "flagged", "dead")
      BY <1>3 DEF ThreadStep, RemoteStep, SetLoop, ThreadFails, Connected, RunRaises, StreamEnds, Stopped,
         StartedFrame, ExitedFrame, ErrorFrame, ClearLoop, RunEnds, CloseLoop, SetDone, OnDone,
         Stages
    <2> QED BY <1>1, <1>2, <2>1
  <1>4. ASSUME NEW s \in Terminals, UserStep(s)  PROVE TaskDone(t)'
    <2>1. CASE PtyStart(s)
      <3>1. user[s] = "registered" /\ thread' = [thread EXCEPT ![s] = "boot"]
        BY <2>1 DEF PtyStart
      <3>2. thread[s] = "new"  BY <3>1 DEF PtyInv, CallerInv
      <3>3. t # s  BY <3>2 DEF TaskDone
      <3> QED BY <1>0, <3>1, <3>3 DEF TaskDone
    <2>2. CASE ~PtyStart(s)
      <3>1. thread' = thread
        BY <1>4, <2>2 DEF UserStep, PtyCreate, StartReturns, StartFails, UserClose, UserClosed,
           transport
      <3> QED BY <1>2, <3>1
    <2> QED BY <2>1, <2>2
  <1>5. ASSUME NEW a \in Actors, NEW s \in Terminals, CloseStep(a, s)  PROVE TaskDone(t)'
    BY <1>2, <1>5 DEF CloseStep, Mark, Decide, Call, Join, transport
  <1>6. CASE SweepStep
    BY <1>2, <1>6
    DEF SweepStep, SweepBegin, SweepDone, SweepNext, SweepClosed, SweepRaised, transport
  <1>7. CASE UNCHANGED ptyVars  BY <1>2, <1>7 DEF ptyVars, transport
  <1> QED BY <1>3, <1>4, <1>5, <1>6, <1>7 DEF PtyNext

(* One step of one close(). *)
LEMMA CloseAsks ==
    ASSUME PtyInv, LoopAsked, OneClose, NEW a \in Actors, NEW s \in Terminals, CloseStep(a, s),
           \A t \in Terminals : TaskDone(t) => TaskDone(t)'
    PROVE  LoopAsked' /\ OneClose'
  <1>0. /\ closeAt \in [Actors -> [Terminals -> {"no", "mark", "decide", "call", "join",
                                                 "ended", "raised"}]]
        /\ snap \in [Actors -> [Terminals -> [loop : BOOLEAN, socket : BOOLEAN]]]
    BY DEF PtyInv, ClosesInv
  <1>1. /\ closeAt[a][s] # "no" /\ UNCHANGED <<user, sweep>> /\ stopping \subseteq stopping'
        /\ \E where \in {"ended", "decide", "call", "join", "raised"} :
              closeAt' = [closeAt EXCEPT ![a][s] = where]
    BY DEF CloseStep, Mark, Decide, Call, Join, To
  <1>2. OneClose'
    <2>1. \A b \in Actors, t \in Terminals : closeAt'[b][t] # "no" => closeAt[b][t] # "no"
      BY <1>0, <1>1
    <2>2. \A b \in Actors, t \in Terminals : closeAt[b][t] = "no" => closeAt'[b][t] = "no"
      BY <2>1
    <2>3. "user" \in Actors /\ "pty" \in Actors  BY DEF Actors
    <2> QED BY <1>1, <2>1, <2>2, <2>3 DEF OneClose
  <1>3. ASSUME NEW b \in Actors, NEW t \in Terminals, b # a \/ t # s
        PROVE  closeAt'[b][t] = closeAt[b][t] /\ snap'[b][t] = snap[b][t]
    <2>1. closeAt'[b][t] = closeAt[b][t]  BY <1>0, <1>1, <1>3
    <2>2. snap' = snap \/ \E found : snap' = [snap EXCEPT ![a][s] = found]
      BY DEF CloseStep, Mark, Decide, Call, Join
    <2>3. snap'[b][t] = snap[b][t]  BY <1>0, <1>3, <2>2
    <2> QED BY <2>1, <2>3
  <1>4. ASSUME snap'[a][s].loop, closeAt'[a][s] \notin {"decide", "call"}
        PROVE  s \in stopping' \/ TaskDone(s)'
    <2>1. CASE Mark(a, s)
      <3>1. /\ s \in closed /\ snap' = snap /\ closeAt[a][s] = "mark"
        <4>1. closeAt[a][s] = "mark"  BY <2>1 DEF Mark
        <4>2. s \in closed
          <5>1. SUFFICES ASSUME s \notin closed PROVE FALSE
            OBVIOUS
          <5>2. closeAt' = [closeAt EXCEPT ![a][s] = "decide"]  BY <2>1, <5>1 DEF Mark, To
          <5>3. closeAt'[a][s] = "decide"  BY <1>0, <5>2
          <5> QED BY <1>4, <5>3
        <4> QED BY <2>1, <4>1, <4>2 DEF Mark
      <3>2. s \in stopping \/ TaskDone(s)  BY <1>4, <3>1 DEF LoopAsked
      <3> QED BY <1>1, <3>2
    <2>2. CASE Decide(a, s)
      <3>1. snap' = snap /\ snap[a][s].loop  BY <1>4, <2>2 DEF Decide
      <3>2. TaskDone(s)
        <4>1. SUFFICES ASSUME ~TaskDone(s) PROVE FALSE
          OBVIOUS
        <4>2. closeAt' = [closeAt EXCEPT ![a][s] = "call"]
          BY <2>2, <3>1, <4>1 DEF Decide, To
        <4>3. closeAt'[a][s] = "call"  BY <1>0, <4>2
        <4> QED BY <1>4, <4>3
      <3> QED BY <3>2
    <2>3. CASE Call(a, s)
      <3>1. CASE LoopClosed(s)
        <4>1. TaskDone(s)  BY <3>1 DEF LoopClosed, TaskDone
        <4> QED BY <4>1
      <3>2. CASE ~LoopClosed(s)  BY <2>3, <3>2 DEF Call
      <3> QED BY <3>1, <3>2
    <2>4. CASE Join(a, s)
      <3>1. closeAt[a][s] = "join" /\ snap' = snap  BY <2>4 DEF Join
      <3>2. s \in stopping \/ TaskDone(s)  BY <1>4, <3>1 DEF LoopAsked
      <3> QED BY <1>1, <3>2
    <2> QED BY <2>1, <2>2, <2>3, <2>4 DEF CloseStep
  <1>5. LoopAsked'
    <2> SUFFICES ASSUME NEW b \in Actors, NEW t \in Terminals,
                        snap'[b][t].loop, closeAt'[b][t] \notin {"decide", "call"}
                 PROVE  t \in stopping' \/ TaskDone(t)'
      BY DEF LoopAsked
    <2>1. CASE b = a /\ t = s  BY <1>4, <2>1
    <2>2. CASE b # a \/ t # s
      <3>1. t \in stopping \/ TaskDone(t)  BY <1>3, <2>2 DEF LoopAsked
      <3> QED BY <1>1, <3>1
    <2> QED BY <2>1, <2>2
  <1> QED BY <1>2, <1>5

(* A step that begins no close() and ends none. *)
LEMMA ClosesLeftAlone ==
    ASSUME LoopAsked, OneClose, UNCHANGED <<stopping, closeAt, snap, sweep>>,
           \A t \in Terminals : TaskDone(t) => TaskDone(t)',
           \A t \in Terminals : user[t] \in {"closing", "ended"} => user'[t] \in {"closing", "ended"}
    PROVE  LoopAsked' /\ OneClose'
  <1>1. LoopAsked'  BY DEF LoopAsked
  <1>2. OneClose'  BY DEF OneClose
  <1> QED BY <1>1, <1>2

(* A close() begins where none of this actor was before. *)
LEMMA CloseBegins ==
    ASSUME PtyInv, LoopAsked, NEW a \in Actors, NEW s \in Terminals, NEW where,
           closeAt[a][s] \notin {"decide", "call"},
           closeAt' = [closeAt EXCEPT ![a][s] = where], UNCHANGED <<stopping, snap>>,
           \A t \in Terminals : TaskDone(t) => TaskDone(t)'
    PROVE  LoopAsked'
  <1>1. closeAt \in [Actors -> [Terminals -> {"no", "mark", "decide", "call", "join",
                                              "ended", "raised"}]]
    BY DEF PtyInv, ClosesInv
  <1>2. \A b \in Actors, t \in Terminals :
            closeAt'[b][t] \notin {"decide", "call"} => closeAt[b][t] \notin {"decide", "call"}
    BY <1>1
  <1> QED BY <1>2 DEF LoopAsked

(* Every step keeps both. *)
LEMMA LoopAskedNext ==
    ASSUME PtyInv, LoopAsked, OneClose, [PtyNext]_ptyVars
    PROVE  LoopAsked' /\ OneClose'
  <1>0. \A t \in Terminals : TaskDone(t) => TaskDone(t)'  BY TaskStaysDone
  <1>t. /\ closeAt \in [Actors -> [Terminals -> {"no", "mark", "decide", "call", "join",
                                                 "ended", "raised"}]]
        /\ user \in [Terminals -> {"idle", "registered", "waiting", "open", "closing", "ended"}]
        /\ sweep \in [state : {"idle", "next", "closing", "done"}, todo : SUBSET Terminals]
        /\ "user" \in Actors /\ "pty" \in Actors
    BY DEF PtyInv, ClosesInv, CallerInv, Actors
  <1>1. CASE UNCHANGED ptyVars
    <2>1. UNCHANGED <<stopping, closeAt, snap, sweep, user>>  BY <1>1 DEF ptyVars, closes
    <2> QED BY <1>0, <2>1, ClosesLeftAlone
  <1>2. ASSUME NEW s \in Terminals, ThreadStep(s) \/ RemoteStep(s)
        PROVE  LoopAsked' /\ OneClose'
    <2>1. UNCHANGED <<closes, user, sweep>>
      BY <1>2 DEF ThreadStep, RemoteStep, SetLoop, ThreadFails, Connected, RunRaises, StreamEnds, Stopped,
         StartedFrame, ExitedFrame, ErrorFrame, ClearLoop, RunEnds, CloseLoop, SetDone, OnDone,
         Move
    <2>2. UNCHANGED <<stopping, closeAt, snap, sweep, user>>  BY <2>1 DEF closes
    <2> QED BY <1>0, <2>2, ClosesLeftAlone
  <1>3. ASSUME NEW s \in Terminals, UserStep(s)
        PROVE  LoopAsked' /\ OneClose'
    <2>1. CASE StartFails(s) \/ UserClose(s)
      <3>1. /\ user[s] \in {"waiting", "open"} /\ user' = [user EXCEPT ![s] = "closing"]
            /\ closeAt' = [closeAt EXCEPT !["user"][s] = "mark"]
            /\ UNCHANGED <<stopping, snap, sweep>>
        BY <2>1 DEF StartFails, UserClose, BeginClose
      <3>2. closeAt["user"][s] = "no"  BY <3>1 DEF OneClose
      <3>3. LoopAsked'  BY <1>0, <1>t, <3>1, <3>2, CloseBegins
      <3>4. closeAt'["pty"] = closeAt["pty"]  BY <1>t, <3>1
      <3>5. \A t \in Terminals : user'[t] \notin {"closing", "ended"} => closeAt'["user"][t] = "no"
        BY <1>t, <3>1 DEF OneClose
      <3>6. OneClose'  BY <3>1, <3>4, <3>5 DEF OneClose
      <3> QED BY <3>3, <3>6
    <2>2. CASE PtyCreate(s) \/ PtyStart(s) \/ StartReturns(s) \/ UserClosed(s)
      <3>1. /\ UNCHANGED <<stopping, closeAt, snap, sweep>>
            /\ \/ user[s] \in {"idle", "registered", "waiting"}
                  /\ \E where : user' = [user EXCEPT ![s] = where]
               \/ user' = [user EXCEPT ![s] = "ended"]
        BY <2>2 DEF PtyCreate, PtyStart, StartReturns, UserClosed, closes
      <3>2. \A t \in Terminals :
                user[t] \in {"closing", "ended"} => user'[t] \in {"closing", "ended"}
        BY <1>t, <3>1
      <3> QED BY <1>0, <3>1, <3>2, ClosesLeftAlone
    <2> QED BY <1>3, <2>1, <2>2 DEF UserStep
  <1>4. ASSUME NEW a \in Actors, NEW s \in Terminals, CloseStep(a, s)
        PROVE  LoopAsked' /\ OneClose'
    BY <1>0, <1>4, CloseAsks
  <1>5. CASE SweepBegin \/ SweepDone \/ \E s \in Terminals : SweepRaised(s)
    <2>1. /\ UNCHANGED <<stopping, closeAt, snap, user>>
          /\ sweep'.state \in {"next", "done"}
          /\ sweep'.state = "next" => sweep.state = "idle"
      BY <1>5, <1>t DEF SweepBegin, SweepDone, SweepRaised, closes
    <2>2. LoopAsked'  BY <1>0, <2>1 DEF LoopAsked
    <2>3. OneClose'  BY <2>1 DEF OneClose
    <2> QED BY <2>2, <2>3
  <1>6. ASSUME NEW s \in Terminals, SweepNext(s)  PROVE LoopAsked' /\ OneClose'
    <2>1. /\ sweep.state = "next" /\ sweep' = [sweep EXCEPT !.state = "closing", !.todo = @ \ {s}]
          /\ closeAt' = [closeAt EXCEPT !["pty"][s] = "mark"]
          /\ UNCHANGED <<stopping, snap, user>>
      BY <1>6 DEF SweepNext, BeginClose
    <2>2. \A t \in Terminals : closeAt["pty"][t] = "no"  BY <2>1 DEF OneClose
    <2>3. LoopAsked'  BY <1>0, <1>t, <2>1, <2>2, CloseBegins
    <2>4. sweep'.state = "closing"  BY <1>t, <2>1
    <2>5. closeAt'["user"] = closeAt["user"]
          /\ \A t \in Terminals : closeAt'["pty"][t] # "no" => t = s
      BY <1>t, <2>1, <2>2
    <2>6. OneClose'  BY <2>1, <2>4, <2>5 DEF OneClose
    <2> QED BY <2>3, <2>6
  <1>7. ASSUME NEW s \in Terminals, SweepClosed(s)  PROVE LoopAsked' /\ OneClose'
    <2>1. /\ closeAt["pty"][s] = "ended" /\ sweep' = [sweep EXCEPT !.state = "next"]
          /\ closeAt' = [closeAt EXCEPT !["pty"][s] = "no"]
          /\ UNCHANGED <<stopping, snap, user>>
      BY <1>7 DEF SweepClosed, To
    <2>2. LoopAsked'  BY <1>0, <1>t, <2>1, CloseBegins
    <2>3. \A t \in Terminals : t # s => closeAt["pty"][t] = "no"  BY <2>1 DEF OneClose
    <2>4. closeAt'["user"] = closeAt["user"]
          /\ \A t \in Terminals : closeAt'["pty"][t] = "no"
      BY <1>t, <2>1, <2>3
    <2>5. OneClose'  BY <2>1, <2>4 DEF OneClose
    <2> QED BY <2>2, <2>5
  <1> QED BY <1>1, <1>2, <1>3, <1>4, <1>5, <1>6, <1>7 DEF PtyNext, SweepStep

(***************************************************************************)
(* The safety half of FoundLoopIsStopped, for any number of terminals: a   *)
(* close() that found the loop and has gone on, or has raised, has asked   *)
(* the loop to stop, or came when the thread's task was over.  What may    *)
(* be missed is a loop not yet published, never one that was found.        *)
(***************************************************************************)
THEOREM FoundLoopIsAsked == PtySpec => []LoopAsked
  <1>1. PtyInit => LoopAsked /\ OneClose
    <2> SUFFICES ASSUME PtyInit PROVE LoopAsked /\ OneClose
      OBVIOUS
    <2>1. \A a \in Actors, s \in Terminals : snap[a][s].loop = FALSE /\ closeAt[a][s] = "no"
      BY DEF PtyInit
    <2>2. "user" \in Actors /\ "pty" \in Actors  BY DEF Actors
    <2>3. LoopAsked  BY <2>1, Zenon DEF LoopAsked
    <2>4. OneClose  BY <2>1, <2>2 DEF OneClose
    <2> QED BY <2>3, <2>4
  <1>2. PtyInv /\ LoopAsked /\ OneClose /\ [PtyNext]_ptyVars => LoopAsked' /\ OneClose'
    BY LoopAskedNext
  <1> QED BY PtyInvariant, <1>1, <1>2, PTL DEF PtySpec

=============================================================================
