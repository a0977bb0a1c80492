-------------------------- MODULE SandboxApiProofs ---------------------------
(***************************************************************************)
(* Proofs about the control operations of a Sandbox, for any number of     *)
(* threads that tear the handle down, any retry limits and any number of   *)
(* lifecycle calls.                                                        *)
(*                                                                         *)
(* None of the four properties is inductive.  That a deleted sandbox stays *)
(* gone rests on where a late create can still be executed (Numbered): the *)
(* sandbox this handle was told of is never one whose create request is    *)
(* still on its way.  That calls made one after the other leave the        *)
(* sandbox as the last one says rests on who can still be carried out      *)
(* (OthersDone): every earlier call that succeeded has its answer recorded *)
(* under its request id, so a late copy of it is only answered again.      *)
(***************************************************************************)
EXTENDS SandboxApi, TLAPS

-----------------------------------------------------------------------------
(* Where a constructor has one more attempt. *)
AttemptLeft == init.stage = "create" => init.attempts < CreateMax

(* Attempts are numbered: what is on its way and what exists was posted,  *)
(* nothing is both, and the handle's own sandbox is not on its way.       *)
Numbered ==
    /\ \A n \in flying \cup remote : n <= init.attempts
    /\ sid <= init.attempts
    /\ flying \cap remote = {}
    /\ sid \notin flying

(* A teardown needs a constructor that ended; only a teardown or a *)
(* rollback is told of a delete.                                   *)
TeardownLate ==
    /\ deleted => init.stage \in {"ready", "rb_client", "failed", "interrupted"}
    /\ \A c \in Callers : call[c].at # "idle" => init.stage \in {"ready", "interrupted"}

(* Who deletes, and what one that returns normally was told. *)
DeleteIsKill ==
    \A c \in Callers :
        /\ call[c].at = "idle" => call[c].op = "none"
        /\ call[c].at = "delete" => call[c].op = "kill" /\ ~opts.detached
        /\ call[c].at \in {"release", "ok"} /\ call[c].op = "kill" /\ ~opts.detached => deleted

DeletedGone == deleted => sid \notin remote

HandleInv ==
    /\ TypeOK
    /\ AttemptLeft
    /\ Numbered
    /\ TeardownLate
    /\ DeleteIsKill
    /\ DeletedGone

(* The records of the constructor and of one teardown; the other types. *)
InitType == [stage : Stages, attempts : 0 .. CreateMax, tries : 0 .. DeleteMax - 1]
CallType == [op : {"none", "kill", "close"}, at : CallStages, tries : 0 .. DeleteMax - 1]
OtherTypes ==
    /\ opts \in [detached : BOOLEAN, tunnel : BOOLEAN]
    /\ sid \in 0 .. CreateMax
    /\ handle \in [closed : BOOLEAN, tunnel : BOOLEAN, thread : Threads, client : BOOLEAN]
    /\ flying \subseteq Attempts
    /\ remote \subseteq Attempts
    /\ deleted \in BOOLEAN

(* The type invariant in its parts. *)
LEMMA TypeParts == TypeOK <=> init \in InitType /\ call \in [Callers -> CallType] /\ OtherTypes
  BY DEF TypeOK, InitType, CallType, OtherTypes

(* Initially nothing has been posted and nobody has called. *)
LEMMA HandleInit == Init => HandleInv
  <1> SUFFICES ASSUME Init PROVE HandleInv
    OBVIOUS
  <1>1. init \in InitType
    BY MaxAssumption DEF Init, InitType, Stages
  <1>2. call \in [Callers -> CallType]
    BY MaxAssumption DEF Init, CallType, CallStages
  <1>3. OtherTypes
    <2>1. sid \in 0 .. CreateMax
      BY MaxAssumption DEF Init
    <2>2. QED
      BY <2>1 DEF Init, OtherTypes, Threads
  <1>4. AttemptLeft /\ Numbered
    BY MaxAssumption DEF Init, AttemptLeft, Numbered
  <1>5. TeardownLate /\ DeleteIsKill /\ DeletedGone
    BY DEF Init, TeardownLate, DeleteIsKill, DeletedGone
  <1>6. QED
    BY <1>1, <1>2, <1>3, <1>4, <1>5, TypeParts DEF HandleInv

(* The constructor's record keeps its type: no attempt and no try more *)
(* than the limits allow.                                              *)
LEMMA InitTypeStep ==
    ASSUME TypeOK, AttemptLeft, Next PROVE init' \in InitType
  <1>1. /\ init \in InitType
        /\ init.stage = "create" => init.attempts + 1 \in 0 .. CreateMax
    BY MaxAssumption, TypeParts DEF AttemptLeft, InitType
  <1>2. CASE Post
    BY <1>1, <1>2 DEF Post, InitType, Stages
  <1>3. CASE (\E i \in Attempts : Created(i)) \/ AttemptLost \/ CreateFails
    BY <1>1, <1>3 DEF Created, AttemptLost, CreateFails, InitType, Stages
  <1>4. CASE TunnelConnects \/ TunnelFails \/ Interrupted
    BY <1>1, <1>4 DEF TunnelConnects, TunnelFails, Interrupted, InitType, Stages
  <1>5. CASE RollbackTunnel \/ RollbackClient
    BY <1>1, <1>5 DEF RollbackTunnel, RollbackClient, InitType, Stages
  <1>6. CASE RollbackDelete
    BY <1>1, <1>6, MaxAssumption DEF RollbackDelete, DeleteAnswers, AfterDelete, InitType, Stages
  <1>7. CASE UNCHANGED init
    BY <1>1, <1>7
  <1>8. QED
    BY <1>2, <1>3, <1>4, <1>5, <1>6, <1>7
       DEF Next, ConstructorStep, CallStep, ThreadEnds, Executed, Begin, Check, MarkClosed, Stop, Delete,
           DeleteOnClosedClient, Release

(* So do the records of the teardowns. *)
LEMMA CallTypeStep ==
    ASSUME TypeOK, Next PROVE call' \in [Callers -> CallType]
  <1>1. call \in [Callers -> CallType]
    BY TypeParts
  <1>2. ASSUME NEW c \in Callers, NEW op \in {"kill", "close"}, Begin(c, op)
        PROVE  call' \in [Callers -> CallType]
    BY <1>1, <1>2 DEF Begin, CallType, CallStages
  <1>3. ASSUME NEW c \in Callers, NEW where \in CallStages, Go(c, where)
        PROVE  call' \in [Callers -> CallType]
    BY <1>1, <1>3 DEF Go, CallType
  <1>4. ASSUME NEW c \in Callers, Delete(c) PROVE call' \in [Callers -> CallType]
    BY <1>1, <1>4, MaxAssumption DEF Delete, DeleteAnswers, AfterDelete, CallType, CallStages
  <1>5. ASSUME NEW c \in Callers, CallStep(c) PROVE call' \in [Callers -> CallType]
    BY <1>3, <1>4, <1>5 DEF CallStep, Check, MarkClosed, Stop, DeleteOnClosedClient, Release, CallStages
  <1>6. CASE UNCHANGED call
    BY <1>1, <1>6
  <1>7. QED
    BY <1>2, <1>5, <1>6
       DEF Next, ConstructorStep, Post, Created, AttemptLost, CreateFails, TunnelConnects, TunnelFails,
           RollbackTunnel, RollbackDelete, RollbackClient, Interrupted, ThreadEnds, Executed

(* So does the rest. *)
LEMMA OtherTypeStep ==
    ASSUME TypeOK, AttemptLeft, Next PROVE OtherTypes'
  <1> USE DEF OtherTypes, Attempts
  <1>1. OtherTypes /\ (init.stage = "create" => init.attempts + 1 \in 1 .. CreateMax)
    BY MaxAssumption, TypeParts DEF AttemptLeft, InitType
  <1>2. CASE Post
    BY <1>1, <1>2 DEF Post
  <1>3. CASE (\E i \in Attempts : Created(i)) \/ AttemptLost \/ CreateFails
    BY <1>1, <1>3 DEF Created, AttemptLost, CreateFails
  <1>4. CASE TunnelConnects \/ TunnelFails \/ Interrupted \/ ThreadEnds
    <2> USE DEF Threads, AfterStop
    <2>1. CASE TunnelConnects
      BY <1>1, <2>1 DEF TunnelConnects
    <2>2. CASE TunnelFails
      BY <1>1, <2>2 DEF TunnelFails
    <2>3. CASE Interrupted
      BY <1>1, <2>3 DEF Interrupted
    <2>4. CASE ThreadEnds
      BY <1>1, <2>4 DEF ThreadEnds
    <2>5. QED
      BY <1>4, <2>1, <2>2, <2>3, <2>4
  <1>12. \A new \in Dropped : new \in [closed : BOOLEAN, tunnel : BOOLEAN, thread : Threads, client : BOOLEAN]
    <2> SUFFICES ASSUME NEW new \in Dropped
                 PROVE  new \in [closed : BOOLEAN, tunnel : BOOLEAN, thread : Threads, client : BOOLEAN]
      OBVIOUS
    <2>1. CASE handle.tunnel
      <3>1. PICK t \in AfterStop(handle.thread) : new = [handle EXCEPT !.tunnel = FALSE, !.thread = t]
        BY <2>1 DEF Dropped
      <3>2. QED
        BY <1>1, <3>1 DEF AfterStop, Threads
    <2>2. CASE ~handle.tunnel
      BY <1>1, <2>2 DEF Dropped
    <2>3. QED
      BY <2>1, <2>2
  <1>5. CASE RollbackTunnel \/ RollbackClient
    <2>1. CASE RollbackTunnel
      BY <1>1, <1>12, <2>1 DEF RollbackTunnel
    <2>2. CASE RollbackClient
      BY <1>1, <2>2 DEF RollbackClient
    <2>3. QED
      BY <1>5, <2>1, <2>2
  <1>6. CASE RollbackDelete
    BY <1>1, <1>6 DEF RollbackDelete, DeleteAnswers
  <1>7. CASE \E n \in Attempts : Executed(n)
    BY <1>1, <1>7 DEF Executed
  <1>8. CASE \E c \in Callers, op \in {"kill", "close"} : Begin(c, op)
    BY <1>1, <1>8 DEF Begin
  <1>9. ASSUME NEW c \in Callers, Check(c) \/ MarkClosed(c) \/ Stop(c) PROVE OtherTypes'
    BY <1>1, <1>9, <1>12 DEF Check, MarkClosed, Stop
  <1>10. ASSUME NEW c \in Callers, Delete(c) \/ DeleteOnClosedClient(c) \/ Release(c)
         PROVE  OtherTypes'
    <2>1. CASE Delete(c)
      BY <1>1, <2>1 DEF Delete, DeleteAnswers
    <2>2. CASE DeleteOnClosedClient(c)
      BY <1>1, <2>2 DEF DeleteOnClosedClient
    <2>3. CASE Release(c)
      BY <1>1, <2>3 DEF Release
    <2>4. QED
      BY <1>10, <2>1, <2>2, <2>3
  <1>11. QED
    BY <1>2, <1>3, <1>4, <1>5, <1>6, <1>7, <1>8, <1>9, <1>10 DEF Next, ConstructorStep, CallStep

(* A constructor that tries again has made fewer attempts than it may. *)
LEMMA AttemptLeftStep == ASSUME TypeOK, AttemptLeft, Next PROVE AttemptLeft'
  <1>1. init \in InitType
    BY TypeParts
  <1>2. QED
    BY <1>1 DEF AttemptLeft, InitType, Next, ConstructorStep, CallStep, Post, Created, AttemptLost,
       CreateFails, TunnelConnects, TunnelFails, RollbackTunnel, RollbackDelete, RollbackClient,
       Interrupted, ThreadEnds, Executed, Begin, Check, MarkClosed, Stop, Delete, DeleteOnClosedClient,
       Release

(* Attempts stay numbered: a new one is on its way and in no other place, *)
(* and the handle takes the id of a sandbox that exists.                  *)
LEMMA NumberedStep == ASSUME TypeOK, Numbered, Next PROVE Numbered'
  <1> USE DEF Numbered
  <1>1. init \in InitType /\ OtherTypes
    BY TypeParts
  <1>2. CASE Post
    BY <1>1, <1>2, MaxAssumption DEF Post, InitType, OtherTypes, Attempts
  <1>3. CASE \E i \in Attempts : Created(i)
    BY <1>1, <1>3 DEF Created, InitType, Attempts
  <1>4. CASE \E n \in Attempts : Executed(n)
    BY <1>1, <1>4 DEF Executed
  <1>5. CASE UNCHANGED <<flying, sid>> /\ init'.attempts = init.attempts /\ remote' \subseteq remote
    BY <1>5
  <1>6. QED
    <2>2. CASE AttemptLost \/ CreateFails \/ TunnelConnects \/ TunnelFails \/ RollbackTunnel \/ RollbackClient
               \/ Interrupted \/ ThreadEnds
      BY <1>1, <1>5, <2>2 DEF AttemptLost, CreateFails, TunnelConnects, TunnelFails, RollbackTunnel,
         RollbackClient, Interrupted, ThreadEnds, InitType
    <2>3. CASE RollbackDelete
      BY <1>1, <1>5, <2>3 DEF RollbackDelete, DeleteAnswers, InitType
    <2>4. ASSUME NEW c \in Callers, CallStep(c) PROVE Numbered'
      BY <1>5, <2>4 DEF CallStep, Check, MarkClosed, Stop, Delete, DeleteAnswers, DeleteOnClosedClient,
         Release
    <2>5. QED
      BY <1>2, <1>3, <1>4, <1>5, <2>2, <2>3, <2>4 DEF Next, ConstructorStep, Begin

(* The constructor changes no teardown, and only its rollback hears of a *)
(* delete.                                                               *)
LEMMA ConstructorQuiet ==
    ASSUME (ConstructorStep /\ ~RollbackDelete) \/ Interrupted \/ ThreadEnds
    PROVE  UNCHANGED <<opts, call, deleted>>
  <1>1. CASE TunnelFails
    BY <1>1 DEF TunnelFails
  <1>2. CASE Interrupted
    BY <1>2 DEF Interrupted
  <1>3. CASE RollbackTunnel
    BY <1>3 DEF RollbackTunnel
  <1>4. CASE ThreadEnds
    BY <1>4 DEF ThreadEnds
  <1>5. QED
    BY <1>1, <1>2, <1>3, <1>4
       DEF ConstructorStep, Post, Created, AttemptLost, CreateFails, TunnelConnects, RollbackClient

(* The constructor has ended before anybody tears down, and nobody but a *)
(* teardown or a rollback hears of a delete.                             *)
LEMMA TeardownLateStep == ASSUME TypeOK, TeardownLate, Next PROVE TeardownLate'
  <1> USE DEF TeardownLate
  <1>1. init \in InitType /\ call \in [Callers -> CallType]
    BY TypeParts
  <1>8. CASE Interrupted \/ ThreadEnds
    <2>1. UNCHANGED <<deleted, call>> /\ (init' = init \/ init'.stage = "interrupted")
      BY <1>1, <1>8 DEF Interrupted, ThreadEnds, InitType
    <2>2. QED
      BY <1>1, <1>8, <2>1 DEF Interrupted, ThreadEnds
  <1>2. CASE ConstructorStep /\ ~RollbackDelete
    <2>1. init.stage \notin {"ready", "failed", "interrupted"}
      BY <1>2 DEF ConstructorStep, Post, Created, AttemptLost, CreateFails, TunnelConnects,
         TunnelFails, RollbackTunnel, RollbackClient
    <2>2. init.stage = "rb_client" => init'.stage = "failed"
      <3>1. init.stage = "rb_client" => RollbackClient
        BY <1>2 DEF ConstructorStep, Post, Created, AttemptLost, CreateFails, TunnelConnects,
           TunnelFails, RollbackTunnel
      <3>2. QED
        BY <1>1, <3>1 DEF RollbackClient, InitType
    <2>3. UNCHANGED <<deleted, call>>
      BY <1>2, ConstructorQuiet
    <2>4. QED
      BY <2>1, <2>2, <2>3
  <1>3. CASE RollbackDelete
    BY <1>1, <1>3 DEF RollbackDelete, DeleteAnswers, AfterDelete, InitType
  <1>4. CASE \E n \in Attempts : Executed(n)
    BY <1>4 DEF Executed
  <1>5. CASE \E c \in Callers, op \in {"kill", "close"} : Begin(c, op)
    BY <1>1, <1>5 DEF Begin
  <1>6. ASSUME NEW c \in Callers, CallStep(c) PROVE TeardownLate'
    <2>1. CASE Delete(c)
      BY <1>1, <2>1 DEF Delete, DeleteAnswers, AfterDelete, CallType
    <2>2. CASE ~Delete(c)
      BY <1>1, <1>6, <2>2 DEF CallStep, Check, MarkClosed, Stop, Go, DeleteOnClosedClient, Release, CallType
    <2>3. QED
      BY <2>1, <2>2
  <1>7. QED
    BY <1>2, <1>3, <1>4, <1>5, <1>6, <1>8 DEF Next

(* Only the kill() of a handle that is not detached comes to the DELETE, *)
(* and it goes on to its normal end only after a confirmation.           *)
LEMMA DeleteIsKillStep == ASSUME TypeOK, DeleteIsKill, Next PROVE DeleteIsKill'
  <1> USE DEF DeleteIsKill
  <1>1. call \in [Callers -> CallType] /\ deleted \in BOOLEAN
    BY TypeParts DEF OtherTypes
  <1>2. CASE UNCHANGED <<opts, call>> /\ (deleted => deleted')
    BY <1>2
  <1>3. CASE \E c \in Callers, op \in {"kill", "close"} : Begin(c, op)
    BY <1>1, <1>3 DEF Begin, CallType
  <1>4. ASSUME NEW c \in Callers, CallStep(c) PROVE DeleteIsKill'
    <2>1. CASE Check(c) \/ MarkClosed(c) \/ DeleteOnClosedClient(c)
      BY <1>1, <2>1 DEF Check, MarkClosed, DeleteOnClosedClient, Go, CallType
    <2>2. CASE Stop(c)
      BY <1>1, <2>2 DEF Stop, Go, CallType
    <2>3. CASE Delete(c)
      <3>1. PICK reply \in DeleteAnswers(sid) :
              LET then == AfterDelete(reply.says, call[c].tries + 1) IN
              /\ deleted' = (deleted \/ then = "return")
              /\ call' = CASE then = "again" -> [call EXCEPT ![c].tries = @ + 1]
                           [] then = "raise" -> [call EXCEPT ![c].at = "raise"]
                           [] then = "return" -> [call EXCEPT ![c].at = "release"]
        BY <2>3 DEF Delete
      <3>2. CASE AfterDelete(reply.says, call[c].tries + 1) = "again"
        BY <1>1, <2>3, <3>1, <3>2 DEF Delete, CallType
      <3>3. CASE AfterDelete(reply.says, call[c].tries + 1) = "raise"
        BY <1>1, <2>3, <3>1, <3>3 DEF Delete, CallType
      <3>4. CASE AfterDelete(reply.says, call[c].tries + 1) = "return"
        BY <1>1, <2>3, <3>1, <3>4 DEF Delete, CallType
      <3>5. QED
        BY <3>2, <3>3, <3>4 DEF AfterDelete
    <2>4. CASE Release(c)
      BY <1>1, <2>4 DEF Release, Go, CallType
    <2>5. QED
      BY <1>4, <2>1, <2>2, <2>3, <2>4 DEF CallStep
  <1>5. CASE RollbackDelete
    BY <1>1, <1>2, <1>5 DEF RollbackDelete
  <1>6. CASE \E n \in Attempts : Executed(n)
    BY <1>2, <1>6 DEF Executed
  <1>7. QED
    BY <1>2, <1>3, <1>4, <1>5, <1>6, ConstructorQuiet DEF Next

(* What an answer to DELETE leaves: nothing more, and where the call *)
(* returns because of it, not the sandbox.                           *)
LEMMA DeleteLeaves ==
    ASSUME NEW i, NEW reply \in DeleteAnswers(i), NEW n
    PROVE  /\ reply.left \subseteq remote
           /\ AfterDelete(reply.says, n) = "return" => i \notin reply.left
  <1>1. reply.left \subseteq remote
    BY DEF DeleteAnswers
  <1>2. reply.says = "deleted" => i \notin reply.left
    BY DEF DeleteAnswers
  <1>3. AfterDelete(reply.says, n) = "return" => reply.says = "deleted"
    BY DEF AfterDelete
  <1>4. QED
    BY <1>1, <1>2, <1>3

(* A sandbox that was reported deleted does not come back: a late create *)
(* is not the one the handle was told of, and no create follows.         *)
LEMMA DeletedGoneStep ==
    ASSUME TypeOK, Numbered, TeardownLate, DeletedGone, Next PROVE DeletedGone'
  <1> USE DEF DeletedGone
  <1>1. CASE \E i \in Attempts : Created(i)
    BY <1>1 DEF Created, TeardownLate
  <1>2. CASE \E n \in Attempts : Executed(n)
    BY <1>2 DEF Executed, Numbered
  <1>3. ASSUME NEW reply \in DeleteAnswers(sid), NEW n, UNCHANGED sid, remote' = reply.left,
               deleted' = (deleted \/ AfterDelete(reply.says, n) = "return")
        PROVE  DeletedGone'
    BY <1>3, DeleteLeaves
  <1>4. CASE RollbackDelete
    BY <1>3, <1>4 DEF RollbackDelete
  <1>5. ASSUME NEW c \in Callers, Delete(c) PROVE DeletedGone'
    BY <1>3, <1>5 DEF Delete
  <1>6. CASE UNCHANGED <<sid, remote, deleted>>
    BY <1>6
  <1>7. QED
    BY <1>1, <1>2, <1>4, <1>5, <1>6 DEF Next, ConstructorStep, Post, AttemptLost, CreateFails,
       TunnelConnects, TunnelFails, RollbackTunnel, RollbackClient, Interrupted, ThreadEnds, Begin,
       CallStep, Check, MarkClosed, Stop, DeleteOnClosedClient, Release

(* What one step of KeptUntilKill promises. *)
KeptStep ==
    init'.stage \in {"tunnel", "ready"} /\ sid \in remote =>
        \/ sid \in remote'
        \/ ~opts.detached /\ \E c \in Callers : call[c].op = "kill"

(* Only the two deletes take a sandbox away: the rollback of a constructor *)
(* that failed, and the kill() of a handle that is not detached.           *)
LEMMA KeptByNext ==
    ASSUME TypeOK, DeleteIsKill, [Next]_vars PROVE KeptStep
  <1> USE DEF KeptStep
  <1>1. init \in InitType
    BY TypeParts
  <1>2. CASE RollbackDelete
    <2>1. init'.stage \in {"rb_delete", "rb_client"}
      BY <1>1, <1>2 DEF RollbackDelete, InitType
    <2>2. QED
      BY <2>1
  <1>3. ASSUME NEW c \in Callers, Delete(c) PROVE KeptStep
    BY <1>3 DEF Delete, DeleteIsKill
  <1>4. CASE remote \subseteq remote'
    BY <1>4
  <1>5. QED
    BY <1>2, <1>3, <1>4 DEF vars, Next, ConstructorStep, CallStep, Post, Created, AttemptLost, CreateFails,
       TunnelConnects, TunnelFails, RollbackTunnel, RollbackClient, Interrupted, ThreadEnds, Executed,
       Begin, Check, MarkClosed, Stop, DeleteOnClosedClient, Release

(* The invariant of the handle is inductive. *)
LEMMA HandleStep == HandleInv /\ [Next]_vars => HandleInv'
  <1> SUFFICES ASSUME HandleInv, [Next]_vars PROVE HandleInv'
    OBVIOUS
  <1>1. CASE Next
    <2>1. TypeOK'
      BY <1>1, InitTypeStep, CallTypeStep, OtherTypeStep
         DEF HandleInv, TypeOK, InitType, CallType, OtherTypes
    <2>2. QED
      BY <1>1, <2>1, AttemptLeftStep, NumberedStep, TeardownLateStep, DeleteIsKillStep,
         DeletedGoneStep DEF HandleInv
  <1>2. CASE UNCHANGED vars
    BY <1>2 DEF vars, HandleInv, TypeOK, AttemptLeft, Numbered, TeardownLate, DeleteIsKill, DeletedGone
  <1>3. QED
    BY <1>1, <1>2

-----------------------------------------------------------------------------
(* One request id per call: what names the requests of different calls. *)
Ids == {<<c, 1>> : c \in Calls}
Answers == [state : {"none", "running", "paused"}, by : Ids \cup {<<>>}, done : BOOLEAN]
RequestType == [op : Operations \cup {"none"}, at : {"idle", "send", "wait", "ended"},
                attempt : 0 .. MaxAttempts, result : Results]
ServerType == [state : {"running", "paused"}, snapshot : Ids \cup {<<>>}, policy : Ids \cup {<<>>}]

RequestTypes ==
    /\ request \in [Calls -> RequestType]
    /\ answer \in [Calls -> Answers]
    /\ inTransit \subseteq Copies
    /\ known \in [Ids -> Answers]
    /\ server \in ServerType
    /\ settled \subseteq Calls

(* A call that sends again has an attempt left; one that has not begun has *)
(* no result, nothing under way and nothing recorded.                      *)
CallShape(c) ==
    /\ request[c].at = "send" => request[c].attempt < MaxAttempts
    /\ request[c].at # "ended" => request[c].result = "none"
    /\ request[c].at = "idle" => /\ request[c].attempt = 0
                                 /\ known[<<c, 1>>] = NoAnswer

NotIdle == \A m \in inTransit : request[m.call].at # "idle"

(* The answer recorded for a call says what the call asks for. *)
Carried(c) ==
    /\ known[<<c, 1>>] # NoAnswer
    /\ request[c].op = "pause" => known[<<c, 1>>].state = "paused"
    /\ request[c].op = "resume" => known[<<c, 1>>].state = "running"
    /\ request[c].op = "network" => known[<<c, 1>>].done

(* The frontend repeats its answer; a call succeeds only with one that *)
(* says what it asks for.                                              *)
AnswerKnown(c) ==
    /\ answer[c] # NoAnswer => answer[c] = known[<<c, 1>>]
    /\ Succeeded(c) => Carried(c)

Own(c) == request[c].op = "pause" /\ Succeeded(c) => known[<<c, 1>>].by = <<c, 1>>

(* While a call is the last one, all others have succeeded, and once it *)
(* was carried out the sandbox is as it says.                           *)
OthersDone(c) == \A d \in Calls \ {c} : request[d].at = "idle" \/ Succeeded(d)
Effective(c) ==
    /\ request[c].op = "pause" => server.state = "paused"
    /\ request[c].op = "resume" => server.state = "running"
    /\ request[c].op = "network" => server.policy = <<c, 1>>
LastOne(c) == request[c].at # "idle" /\ OthersDone(c) /\ (Carried(c) => Effective(c))

RequestInv ==
    /\ RequestTypes
    /\ NotIdle
    /\ \A c \in Calls : CallShape(c) /\ AnswerKnown(c) /\ Own(c)
    /\ \A c \in settled : LastOne(c)

(* Every attempt of a call has the call's one request id. *)
LEMMA OneId ==
    /\ \A c, n : RequestId(c, n) = <<c, 1>>
    /\ Requests = Ids
    /\ \A c, d : <<c, 1>> = <<d, 1>> => c = d
  <1>1. 1 \in 1 .. MaxAttempts
    BY MaxAttemptsAssumption
  <1>2. Requests = Ids
    BY <1>1 DEF Requests, Ids, RequestId
  <1>3. QED
    BY <1>2 DEF RequestId

(* The type invariant is part of it. *)
LEMMA RequestTypesOK == RequestTypes => RequestTypeOK
  BY DEF RequestTypes, RequestType, RequestTypeOK, ServerType

(* Initially no call has begun. *)
LEMMA RequestInitInv == RequestInit => RequestInv
  <1> SUFFICES ASSUME RequestInit PROVE RequestInv
    OBVIOUS
  <1>1. NoAnswer \in Answers
    BY DEF NoAnswer, Answers
  <1>2. request \in [Calls -> RequestType]
    BY MaxAttemptsAssumption DEF RequestInit, RequestType, Results
  <1>3. server \in ServerType
    BY DEF RequestInit, ServerType
  <1>4. RequestTypes
    BY <1>1, <1>2, <1>3, OneId DEF RequestInit, RequestTypes
  <1>5. \A c \in Calls : CallShape(c) /\ AnswerKnown(c) /\ Own(c)
    BY OneId DEF RequestInit, CallShape, AnswerKnown, Carried, Own, Succeeded, Ids
  <1>6. QED
    BY <1>4, <1>5 DEF RequestInit, RequestInv, NotIdle

(* A call begins: it is the last one if all others have succeeded. *)
LEMMA BeginInv ==
    ASSUME RequestInv, NEW c \in Calls, NEW op \in Operations, RequestBegin(c, op) PROVE RequestInv'
  <1> USE DEF RequestBegin
  <1>1. /\ request' \in [Calls -> RequestType]
        /\ request'[c].op = op /\ request'[c].at = "send" /\ request'[c].result = "none"
        /\ request'[c].attempt = 0
        /\ \A d \in Calls \ {c} : request'[d] = request[d]
    BY DEF RequestInv, RequestTypes, RequestType, CallShape
  <1>2. UNCHANGED <<answer, inTransit, known, server>> /\ known[<<c, 1>>] = NoAnswer
    BY DEF RequestInv, CallShape
  <1>3. settled' \subseteq {c} /\ (c \in settled' => OthersDone(c))
    BY DEF OthersDone
  <1>4. RequestTypes'
    BY <1>1, <1>2, <1>3 DEF RequestInv, RequestTypes
  <1>5. NotIdle'
    BY <1>1, <1>2 DEF RequestInv, RequestTypes, NotIdle, Copies
  <1>6. ASSUME NEW d \in Calls PROVE CallShape(d)' /\ AnswerKnown(d)' /\ Own(d)'
    <2>1. CallShape(d) /\ AnswerKnown(d) /\ Own(d)
      BY DEF RequestInv
    <2>2. CASE d = c
      BY <1>1, <1>2, <2>1, <2>2, MaxAttemptsAssumption DEF CallShape, AnswerKnown, Carried, Own, Succeeded
    <2>3. CASE d # c
      BY <1>1, <1>2, <2>1, <2>3 DEF CallShape, AnswerKnown, Carried, Own, Succeeded
    <2>4. QED
      BY <2>2, <2>3
  <1>7. \A d \in settled' : LastOne(d)'
    BY <1>1, <1>2, <1>3 DEF LastOne, OthersDone, Carried, Succeeded
  <1>8. QED
    BY <1>4, <1>5, <1>6, <1>7 DEF RequestInv

(* A call that has begun goes on, and only its own record changes. *)
LEMMA StepInv == ASSUME RequestInv, NEW c \in Calls, RequestStep(c) PROVE RequestInv'
  <1> DEFINE Moves == /\ request' \in [Calls -> RequestType]
                      /\ request[c].at # "idle" /\ request'[c].at # "idle"
                      /\ request'[c].op = request[c].op
                      /\ request'[c].at = "send" => request'[c].attempt < MaxAttempts
                      /\ request'[c].at # "ended" => request'[c].result = "none"
                      /\ request'[c].result = "ok" => \/ request[c].result = "ok"
                                                      \/ answer[c] # NoAnswer /\ Accepts(c)
                      /\ request[c].result = "ok" => request'[c].result = "ok"
                      /\ \A d \in Calls \ {c} : request'[d] = request[d]
                      /\ \A m \in inTransit' : m \in inTransit \/ m.call = c
                      /\ inTransit' \subseteq Copies
                      /\ UNCHANGED <<answer, known, server, settled>>
  <1>0. request \in [Calls -> RequestType] /\ CallShape(c) /\ inTransit \subseteq Copies
    BY DEF RequestInv, RequestTypes
  <1>1. ASSUME Send(c) PROVE Moves
    <2>1. request[c].attempt + 1 \in 0 .. MaxAttempts /\ request[c].attempt + 1 \in 1 .. MaxAttempts
      BY <1>0, <1>1, MaxAttemptsAssumption DEF Send, RequestType, CallShape
    <2>2. /\ request' \in [Calls -> RequestType]
          /\ request'[c].at = "wait"
          /\ request'[c].op = request[c].op
          /\ request'[c].result = request[c].result
          /\ \A d \in Calls \ {c} : request'[d] = request[d]
      BY <1>0, <1>1, <2>1 DEF Send, RequestType
    <2>3. inTransit' \subseteq Copies /\ \A m \in inTransit' : m \in inTransit \/ m.call = c
      BY <1>0, <1>1, <2>1 DEF Send, Copies
    <2>4. QED
      BY <1>0, <1>1, <2>2, <2>3 DEF Send, CallShape
  <1>2. ASSUME NEW how \in Results, Ends(c, how), request[c].at = "wait",
               how = "ok" => answer[c] # NoAnswer /\ Accepts(c),
               request[c].result # "ok",
               UNCHANGED <<answer, inTransit, known, server, settled>>
        PROVE  Moves
    <2>1. /\ request' \in [Calls -> RequestType]
          /\ request'[c].at = "ended" /\ request'[c].result = how
          /\ request'[c].op = request[c].op
          /\ \A d \in Calls \ {c} : request'[d] = request[d]
      BY <1>0, <1>2 DEF Ends, RequestType
    <2>2. QED
      BY <1>0, <1>2, <2>1
  <1>3. ASSUME Lost(c) PROVE Moves
    <2>1. CASE request[c].attempt < Tries(c)
      <3>1. request[c].attempt < MaxAttempts
        BY <1>0, <2>1, MaxAttemptsAssumption DEF Tries, RequestType
      <3>2. /\ request' \in [Calls -> RequestType]
            /\ request'[c].at = "send" /\ request'[c].attempt = request[c].attempt
            /\ request'[c].op = request[c].op /\ request'[c].result = request[c].result
            /\ \A d \in Calls \ {c} : request'[d] = request[d]
        BY <1>0, <1>3, <2>1 DEF Lost, RequestType
      <3>3. QED
        BY <1>0, <1>3, <3>1, <3>2 DEF Lost, CallShape
    <2>2. CASE ~(request[c].attempt < Tries(c))
      <3>1. Ends(c, "uncertain") /\ request[c].at = "wait" /\ request[c].result # "ok"
        BY <1>0, <1>3, <2>2 DEF Lost, CallShape
      <3>2. UNCHANGED <<answer, inTransit, known, server, settled>>
        BY <1>3 DEF Lost
      <3>3. QED
        BY <1>2, <3>1, <3>2 DEF Results
    <2>3. QED
      BY <2>1, <2>2
  <1>4. ASSUME Refused(c) \/ Answered(c) PROVE Moves
    <2>1. PICK how \in Results : Ends(c, how) /\ (how = "ok" => answer[c] # NoAnswer /\ Accepts(c))
      BY <1>4 DEF Refused, Answered, Results
    <2>2. request[c].at = "wait" /\ request[c].result # "ok"
      BY <1>0, <1>4 DEF Refused, Answered, CallShape
    <2>3. UNCHANGED <<answer, inTransit, known, server, settled>>
      BY <1>4 DEF Refused, Answered
    <2>4. QED
      BY <1>2, <2>1, <2>2, <2>3
  <1> HIDE DEF Moves
  <1>5. Moves
    BY <1>1, <1>3, <1>4 DEF RequestStep
  <1>6. RequestTypes'
    BY <1>5 DEF Moves, RequestInv, RequestTypes
  <1>7. NotIdle'
    BY <1>5 DEF Moves, RequestInv, RequestTypes, NotIdle, Copies
  <1>8. \A d \in Calls : CallShape(d)'
    BY <1>5 DEF Moves, RequestInv, CallShape
  <1>9. \A d \in Calls : AnswerKnown(d)'
    <2> SUFFICES ASSUME NEW d \in Calls PROVE AnswerKnown(d)'
      OBVIOUS
    <2>1. AnswerKnown(d) /\ request'[d].op = request[d].op /\ UNCHANGED <<answer, known>>
      BY <1>5 DEF Moves, RequestInv
    <2>2. CASE Succeeded(d)
      BY <2>1, <2>2 DEF AnswerKnown, Carried
    <2>3. CASE ~Succeeded(d) /\ Succeeded(d)'
      <3>1. answer[d] # NoAnswer /\ Accepts(d)
        BY <1>5, <2>3 DEF Moves, Succeeded
      <3>2. Carried(d)
        BY <2>1, <3>1 DEF AnswerKnown, Carried, Accepts
      <3>3. QED
        BY <2>1, <3>2 DEF AnswerKnown, Carried
    <2>4. QED
      BY <2>1, <2>2, <2>3 DEF AnswerKnown
  <1>10. \A d \in Calls : Own(d)'
    BY <1>5, OneId DEF Moves, RequestInv, AnswerKnown, Carried, Own, Succeeded, Accepts
  <1>11. \A d \in settled' : LastOne(d)'
    <2> SUFFICES ASSUME NEW d \in settled PROVE LastOne(d)'
      BY <1>5 DEF Moves
    <2>1. LastOne(d) /\ d \in Calls
      BY DEF RequestInv, RequestTypes
    <2>2. OthersDone(d)'
      BY <1>5, <2>1 DEF Moves, LastOne, OthersDone, Succeeded
    <2>3. Effective(d) => Effective(d)'
      BY <1>5, <2>1 DEF Moves, Effective
    <2>4. QED
      BY <1>5, <2>1, <2>2, <2>3 DEF Moves, LastOne, Carried
  <1>12. QED
    BY <1>6, <1>7, <1>8, <1>9, <1>10, <1>11 DEF RequestInv

(* What the frontend carries out leaves a well-formed sandbox, with the *)
(* policy an update asks for.                                           *)
LEMMA AfterEffect ==
    ASSUME server \in ServerType, NEW op, NEW r \in Ids
    PROVE  After(op, r) \in ServerType /\ (op = "network" => After(op, r).policy = r)
  <1>1. CASE op = "pause" /\ server.state = "running"
    BY <1>1 DEF After, ServerType
  <1>2. CASE op = "resume"
    BY <1>2 DEF After, ServerType
  <1>3. CASE op = "network"
    BY <1>3 DEF After, ServerType
  <1>4. CASE op \notin {"resume", "network"} /\ ~(op = "pause" /\ server.state = "running")
    BY <1>4 DEF After, ServerType
  <1>5. QED
    BY <1>1, <1>2, <1>3, <1>4

(* A copy arrives: the first one may be carried out, which is the last     *)
(* call's own if there is a last call, and is answered with what came of   *)
(* it; any other is only answered again.                                   *)
LEMMA ArrivesInv == ASSUME RequestInv, NEW m \in Copies, NEW done \in BOOLEAN, Arrives(m, done) PROVE RequestInv'
  <1> DEFINE c == m.call
             r == <<c, 1>>
             first == known[r] = NoAnswer
             now == IF first /\ done THEN After(request[c].op, r) ELSE server
             says == IF first THEN [state |-> now.state, by |-> now.snapshot, done |-> done]
                     ELSE known[r]
  <1>1. /\ c \in Calls /\ r \in Ids
        /\ request[c].at # "idle"
    BY DEF Copies, Ids, Arrives, RequestInv, NotIdle
  <1>2. RequestTypes
    BY DEF RequestInv
  <1>3. now \in ServerType /\ (first /\ done /\ request[c].op = "network" => now.policy = r)
    BY <1>1, <1>2, AfterEffect DEF RequestTypes
  <1>4. says \in Answers /\ says # NoAnswer
    <2>1. CASE first
      BY <1>3, <2>1 DEF ServerType, Answers, NoAnswer
    <2>2. CASE ~first
      BY <1>1, <1>2, <2>2 DEF RequestTypes
    <2>3. QED
      BY <2>1, <2>2
  <1>5. /\ inTransit' \subseteq inTransit
        /\ server' = now
        /\ known' = [known EXCEPT ![r] = says]
        /\ answer' = answer \/ answer' = [answer EXCEPT ![c] = says]
        /\ UNCHANGED <<request, settled>>
    BY OneId DEF Arrives
  <1>6. ~first => UNCHANGED <<known, server>>
    BY <1>1, <1>2, <1>5 DEF RequestTypes
  <1>7. known'[r] = says /\ \A d \in Calls \ {c} : known'[<<d, 1>>] = known[<<d, 1>>]
    BY <1>1, <1>2, <1>5, OneId DEF RequestTypes, Ids
  <1>8. first => \A d \in Calls : Succeeded(d) => d # c
    BY DEF RequestInv, AnswerKnown, Carried
  <1>9. ~first => says = known[r]
    OBVIOUS
  <1>10. first => /\ says.state = server'.state
                  /\ says.done /\ request[c].op = "network" => server'.policy = <<c, 1>>
    BY <1>3, <1>5
  <1> HIDE DEF now, says, first, c, r
  <1>11. RequestTypes'
    BY <1>1, <1>2, <1>3, <1>4, <1>5 DEF RequestTypes
  <1>12. NotIdle'
    BY <1>5 DEF RequestInv, NotIdle
  <1>13. ASSUME NEW d \in Calls PROVE CallShape(d)' /\ AnswerKnown(d)' /\ Own(d)'
    <2>1. CallShape(d) /\ AnswerKnown(d) /\ Own(d)
      BY DEF RequestInv
    <2>2. CASE d = c
      <3>1. known'[<<d, 1>>] # NoAnswer /\ (Succeeded(d) => known'[<<d, 1>>] = known[<<d, 1>>])
        BY <1>4, <1>6, <1>7, <1>8, <2>2 DEF r
      <3>2. answer'[d] = answer[d] \/ answer'[d] = known'[<<d, 1>>]
        BY <1>1, <1>2, <1>5, <1>7, <2>2 DEF r, RequestTypes
      <3>3. answer[d] # NoAnswer => known'[<<d, 1>>] = known[<<d, 1>>]
        BY <1>6, <2>1, <2>2 DEF AnswerKnown, first, r
      <3>4. QED
        BY <1>1, <1>5, <2>1, <2>2, <3>1, <3>2, <3>3 DEF CallShape, AnswerKnown, Carried, Own, Succeeded
    <2>3. CASE d # c
      <3>1. answer'[d] = answer[d] /\ known'[<<d, 1>>] = known[<<d, 1>>]
        BY <1>1, <1>2, <1>5, <1>7, <2>3 DEF RequestTypes
      <3>2. QED
        BY <1>5, <2>1, <3>1 DEF CallShape, AnswerKnown, Carried, Own, Succeeded
    <2>4. QED
      BY <2>2, <2>3
  <1>14. ASSUME NEW d \in settled PROVE LastOne(d)'
    <2>1. LastOne(d) /\ d \in Calls
      BY <1>2 DEF RequestInv, RequestTypes
    <2>2. CASE first
      <3>1. d = c
        BY <1>1, <1>8, <2>1, <2>2 DEF LastOne, OthersDone
      <3>2. QED
        BY <1>5, <1>7, <1>10, <2>1, <2>2, <3>1 DEF LastOne, OthersDone, Carried, Effective, Succeeded, r
    <2>3. CASE ~first
      BY <1>5, <1>6, <2>1, <2>3 DEF LastOne, OthersDone, Carried, Effective, Succeeded
    <2>4. QED
      BY <2>2, <2>3
  <1>15. QED
    BY <1>5, <1>11, <1>12, <1>13, <1>14 DEF RequestInv

(* The invariant of the requests is inductive. *)
LEMMA RequestsStep == RequestInv /\ [RequestNext]_requests => RequestInv'
  <1>1. RequestInv /\ RequestNext => RequestInv'
    BY BeginInv, StepInv, ArrivesInv DEF RequestNext
  <1>2. RequestInv /\ UNCHANGED requests => RequestInv'
    BY DEF requests, RequestInv, RequestTypes, NotIdle, CallShape, AnswerKnown, Carried, Own, LastOne,
       OthersDone, Effective, Succeeded
  <1>3. QED
    BY <1>1, <1>2

-----------------------------------------------------------------------------
(* Both invariants hold, whichever of the two a behaviour has. *)
LEMMA ApiInvariant == ApiSpec => [](HandleInv /\ RequestInv)
  <1>1. ApiInit => HandleInv /\ RequestInv
    BY HandleInit, RequestInitInv DEF ApiInit
  <1>2. [ApiNext]_api => [Next]_vars /\ [RequestNext]_requests
    BY DEF ApiNext, Handle, api
  <1>3. HandleInv /\ RequestInv /\ [ApiNext]_api => (HandleInv /\ RequestInv)'
    BY <1>2, HandleStep, RequestsStep
  <1>4. QED
    BY <1>1, <1>3, PTL DEF ApiSpec

(* Type correctness of the handle and of the requests: neither the create, *)
(* the delete nor a lifecycle request is tried more often than its limit.  *)
THEOREM ApiTypeOK == ApiSpec => [](TypeOK /\ RequestTypeOK)
  <1>1. HandleInv /\ RequestInv => TypeOK /\ RequestTypeOK
    BY RequestTypesOK DEF HandleInv, RequestInv
  <1>2. QED
    BY <1>1, ApiInvariant, PTL

(* A sandbox that was reported deleted is gone for good, and the kill() of *)
(* a handle that is not detached returns normally only after that report,  *)
(* for any number of threads that tear the handle down.                    *)
THEOREM DeletedStaysGone == ApiSpec => []DeletedIsGone
  <1>1. HandleInv => DeletedIsGone
    BY DEF HandleInv, DeletedGone, DeleteIsKill, DeletedIsGone
  <1>2. QED
    BY <1>1, ApiInvariant, PTL

(* A constructor that returned leaves its sandbox to the caller until a  *)
(* kill() of a handle that is not detached.                              *)
THEOREM KeptForTheCaller == ApiSpec => KeptUntilKill
  <1>1. [ApiNext]_api => [Next]_vars
    BY DEF ApiNext, Handle, api
  <1>2. HandleInv /\ [Next]_vars => [KeptStep]_vars
    BY KeptByNext DEF HandleInv
  <1>3. [][KeptStep]_vars => KeptUntilKill
    BY DEF KeptUntilKill, KeptStep
  <1>4. QED
    BY <1>1, <1>2, <1>3, ApiInvariant, PTL DEF ApiSpec

(* A pause() that returned has its own snapshot, for any number of calls *)
(* and attempts.                                                         *)
THEOREM PauseHasOwnSnapshot == ApiSpec => []PauseIsOwn
  <1>1. RequestInv => PauseIsOwn
    BY OneId DEF RequestInv, AnswerKnown, Carried, Own, PauseIsOwn
  <1>2. QED
    BY <1>1, ApiInvariant, PTL

(* Calls made one after the other leave the sandbox as the last one says, *)
(* whatever copies of them arrive later.                                  *)
THEOREM LastCallHolds == ApiSpec => []LastReturnedHolds
  <1>1. RequestInv => LastReturnedHolds
    <2> SUFFICES ASSUME RequestInv, NEW c \in settled, Succeeded(c) PROVE Effective(c)
      BY OneId DEF LastReturnedHolds, Effective
    <2>1. c \in Calls /\ LastOne(c) /\ AnswerKnown(c)
      BY DEF RequestInv, RequestTypes
    <2>2. QED
      BY <2>1 DEF LastOne, AnswerKnown
  <1>2. QED
    BY <1>1, ApiInvariant, PTL

=============================================================================
