-------------------------- MODULE TunnelLinkProofs ---------------------------
(***************************************************************************)
(* Proofs about the tunnel's thread and connection, for any finite number  *)
(* of threads that call stop().                                            *)
(*                                                                         *)
(* The properties speak of history variables and of the end, so each needs *)
(* a statement about what leads there: who may be let go to send, and on   *)
(* which connection (Greeted); where the answer to a ping that nobody      *)
(* hears could come from (Unanswered); what is still to be closed at each  *)
(* place of the thread (Closing).                                          *)
(***************************************************************************)
EXTENDS TunnelLink, FiniteSetTheorems, TLAPS

(* Senders are let go on a connection whose hello is out, and a sender's  *)
(* connection is the current one only until the next is there.            *)
Greeted ==
    /\ ready => t \in {"up", "exit"}
    /\ t \in {"up", "wedged", "exit"} => hello = "sent"
    /\ task = "cur" => hello = "sent"
    /\ connected => hello # "never"
    /\ HelloFirst

(* A ping to a silent peer has no answer, and none that is on its way is *)
(* taken for one.                                                        *)
Unanswered == (deaf => mute /\ "cur" \notin pongs) /\ HeartbeatNotFooled

(* What is open at each place of the thread. *)
Closing ==
    /\ t \in Looping => loop = "running"
    /\ t \in Looping \ {"closing"} => client = "open"
    /\ t = "drain" => loop = "running" /\ (cut \/ client \in {"open", "closed"})
    /\ t \in {"ending", "dead"} => cut \/ (client = "closed" /\ loop = "closed")

(* Each stop() leaves at most one loop.stop behind. *)
Returned == {u \in Stoppers : sp[u] = "returned"}
Counted == stops <= Cardinality(Returned)

Types ==
    /\ t \in Looping \cup {"none", "boot", "drain", "ending", "dead"}
    /\ loop \in {"none", "made", "running", "closed"}
    /\ client \in {"none", "open", "closing", "closed"}
    /\ ws \in {"none", "cur", "dead"} /\ sock \in {"none", "open", "lost"}
    /\ hello \in {"never", "ever", "sent"}
    /\ hb \in {"off", "sleep", "wait", "blocked"}
    /\ started \in {"none", "waiting", "true", "false"}
    /\ task \in {"wait", "cur", "old", "end"}

StopPlaces == {"idle", "check", "close", "closing", "join", "returned", "raised"}
Sets == pongs \subseteq {"cur", "old"} /\ stops \in Nat /\ sp \in [Stoppers -> StopPlaces]

Flags ==
    /\ connected \in BOOLEAN /\ ready \in BOOLEAN /\ stopping \in BOOLEAN
    /\ ping \in BOOLEAN /\ mute \in BOOLEAN /\ asked \in BOOLEAN
    /\ early \in BOOLEAN /\ deaf \in BOOLEAN /\ fooled \in BOOLEAN /\ cut \in BOOLEAN

IInv == Types /\ Sets /\ Flags /\ Counted /\ Greeted /\ Unanswered /\ Closing

-----------------------------------------------------------------------------
(* Every subset of the stoppers is finite. *)
LEMMA Finite ==
    ASSUME NEW S, S \subseteq Stoppers
    PROVE  IsFiniteSet(S) /\ Cardinality(S) \in Nat /\ Cardinality(S) <= Cardinality(Stoppers)
  BY StoppersAssumption, FS_Subset, FS_CardinalityType

(* Initially there is no thread. *)
LEMMA InitIInv == Init => IInv
  <1> SUFFICES ASSUME Init PROVE IInv
    OBVIOUS
  <1>1. Counted
    <2>1. Cardinality(Returned) \in Nat
      BY Finite DEF Returned
    <2>2. QED
      BY <2>1 DEF Init, Counted
  <1>2. Types /\ Sets /\ Flags
    BY DEF Init, Types, Sets, StopPlaces, Flags
  <1>3. Greeted /\ Unanswered /\ Closing
    BY DEF Init, Greeted, HelloFirst, Unanswered, HeartbeatNotFooled, Closing, Looping
  <1>4. QED
    BY <1>1, <1>2, <1>3 DEF IInv

(* The plain types are kept. *)
LEMMA TypesStep == Types /\ Next => Types'
  <1> SUFFICES ASSUME Types, Next PROVE Types'
    OBVIOUS
  <1> USE DEF Types, Looping, link, beat, user, rest
  <1>1. CASE Start \/ StartReturns \/ MakeLoop \/ RunLoop \/ Head \/ DialFails \/ Dialled
    BY <1>1 DEF Start, StartReturns, MakeLoop, RunLoop, Head, DialFails, Dialled
  <1>2. CASE HelloSent \/ HelloFails \/ Failed \/ SleepEnds \/ RxExits \/ ClientCloses
    BY <1>2 DEF HelloSent, HelloFails, Failed, SleepEnds, RxExits, Left, ClientCloses
  <1>3. CASE LoopStopped \/ Drained \/ DrainCut \/ ThreadEnds
    BY <1>3 DEF LoopStopped, Left, Drained, DrainCut, ThreadEnds
  <1>4. CASE RxEnds \/ RxAnswers \/ \E p \in {"cur", "old"} : RxPong(p)
    BY <1>4 DEF RxEnds, RxAnswers, RxPong
  <1>5. CASE HbPing \/ HbTimeout \/ TaskStep
    BY <1>5 DEF HbPing, HbTimeout, TaskStep, TaskPicks, TaskSends
  <1>6. CASE PeerPongs \/ PeerAsks \/ Lose \/ GoMute
    BY <1>6 DEF PeerPongs, PeerAsks, Lose, GoMute
  <1>7. ASSUME NEW u \in Stoppers, StopBegins(u) \/ StopStep(u) PROVE Types'
    BY <1>7 DEF StopBegins, StopStep, StopChecks, StopCloses, StopClosed, StopJoined, StopLast
  <1>8. QED
    BY <1>1, <1>2, <1>3, <1>4, <1>5, <1>6, <1>7 DEF Next, ThreadStep

(* So are the pongs, the count of loop.stop and the places of stop(). *)
LEMMA SetsStep == Sets /\ Next => Sets'
  <1> SUFFICES ASSUME Sets, Next PROVE Sets'
    OBVIOUS
  <1> USE DEF Sets, link, beat, user, rest
  <1>1. CASE RxExits
    BY <1>1 DEF RxExits, Left
  <1>2. CASE LoopStopped
    <2>1. stops - 1 \in Nat
      BY <1>2 DEF LoopStopped
    <2>2. CASE t \in {"up", "wedged", "exit"}
      BY <1>2, <2>1, <2>2 DEF LoopStopped, Left
    <2>3. CASE t \notin {"up", "wedged", "exit"}
      BY <1>2, <2>1, <2>3 DEF LoopStopped
    <2>4. QED
      BY <2>2, <2>3
  <1>3. CASE \E p \in {"cur", "old"} : RxPong(p)
    BY <1>3 DEF RxPong
  <1>4. CASE HbPing
    BY <1>4 DEF HbPing
  <1>5. CASE PeerPongs
    BY <1>5 DEF PeerPongs
  <1>6. ASSUME NEW u \in Stoppers, NEW place \in StopPlaces, Go(u, place), UNCHANGED pongs, stops' \in Nat
        PROVE  Sets'
    BY <1>6 DEF Go
  <1>7. ASSUME NEW u \in Stoppers, StopBegins(u) \/ StopStep(u) PROVE Sets'
    BY <1>6, <1>7 DEF StopPlaces, StopBegins, StopStep, StopChecks, StopCloses, StopClosed, StopJoined, StopLast
  <1>8. CASE UNCHANGED <<pongs, stops, sp>>
    BY <1>8
  <1>9. QED
    BY <1>1, <1>2, <1>3, <1>4, <1>5, <1>7, <1>8
       DEF Next, ThreadStep, Start, StartReturns, MakeLoop, RunLoop, Head, DialFails, Dialled, HelloSent,
           HelloFails, Failed, SleepEnds, ClientCloses, Drained, DrainCut, ThreadEnds, RxEnds, RxAnswers,
           HbTimeout, TaskStep, TaskPicks, TaskSends, PeerAsks, Lose, GoMute

(* So are the flags. *)
LEMMA FlagsStep == Flags /\ Next => Flags'
  <1> SUFFICES ASSUME Flags, Next PROVE Flags'
    OBVIOUS
  <1> USE DEF Flags, link, beat, user, rest
  <1>1. CASE Start
    BY <1>1 DEF Start
  <1>2. CASE StartReturns
    BY <1>2 DEF StartReturns
  <1>3. CASE MakeLoop
    BY <1>3 DEF MakeLoop
  <1>4. CASE RunLoop
    BY <1>4 DEF RunLoop
  <1>5. CASE Head
    BY <1>5 DEF Head
  <1>6. CASE DialFails
    BY <1>6 DEF DialFails
  <1>7. CASE Dialled
    BY <1>7 DEF Dialled
  <1>8. CASE HelloSent
    BY <1>8 DEF HelloSent
  <1>9. CASE HelloFails
    BY <1>9 DEF HelloFails
  <1>10. CASE Failed
    BY <1>10 DEF Failed
  <1>11. CASE SleepEnds
    BY <1>11 DEF SleepEnds
  <1>12. CASE RxExits
    BY <1>12 DEF RxExits, Left
  <1>13. CASE ClientCloses
    BY <1>13 DEF ClientCloses
  <1>14. CASE LoopStopped
    <2>1. CASE t \in {"up", "wedged", "exit"}
      BY <1>14, <2>1 DEF LoopStopped, Left
    <2>2. CASE t \notin {"up", "wedged", "exit"}
      BY <1>14, <2>2 DEF LoopStopped
    <2>3. QED
      BY <2>1, <2>2
  <1>15. CASE Drained
    BY <1>15 DEF Drained
  <1>16. CASE DrainCut
    BY <1>16 DEF DrainCut
  <1>17. CASE ThreadEnds
    BY <1>17 DEF ThreadEnds
  <1>18. CASE RxEnds
    BY <1>18 DEF RxEnds
  <1>19. CASE RxAnswers
    BY <1>19 DEF RxAnswers
  <1>20. CASE HbPing
    BY <1>20 DEF HbPing
  <1>21. CASE HbTimeout
    BY <1>21 DEF HbTimeout
  <1>22. CASE TaskPicks
    BY <1>22 DEF TaskPicks
  <1>23. CASE TaskSends
    BY <1>23 DEF TaskSends
  <1>24. CASE PeerPongs
    BY <1>24 DEF PeerPongs
  <1>25. CASE PeerAsks
    BY <1>25 DEF PeerAsks
  <1>26. CASE Lose
    BY <1>26 DEF Lose
  <1>27. CASE GoMute
    BY <1>27 DEF GoMute
  <1>28. CASE \E p \in {"cur", "old"} : RxPong(p)
    BY <1>28 DEF RxPong
  <1>29. ASSUME NEW u \in Stoppers, StopBegins(u) \/ StopStep(u) PROVE Flags'
    <2>1. CASE StopBegins(u)
      BY <2>1 DEF StopBegins
    <2>2. CASE StopChecks(u) \/ StopCloses(u)
      BY <2>2 DEF StopChecks, StopCloses
    <2>3. CASE StopClosed(u)
      BY <2>3 DEF StopClosed
    <2>4. CASE StopJoined(u) \/ StopLast(u)
      BY <2>4 DEF StopJoined, StopLast
    <2>5. QED
      BY <1>29, <2>1, <2>2, <2>3, <2>4 DEF StopStep
  <1>30. QED
    BY <1>1, <1>2, <1>3, <1>4, <1>5, <1>6, <1>7, <1>8, <1>9, <1>10, <1>11, <1>12, <1>13, <1>14,
       <1>15, <1>16, <1>17, <1>18, <1>19, <1>20, <1>21, <1>22, <1>23, <1>24, <1>25, <1>26, <1>27, <1>28, <1>29
       DEF Next, ThreadStep, TaskStep

(* No sender is let go before hello, on whichever connection. *)
LEMMA GreetedStep == Types /\ Flags /\ Greeted /\ Next => Greeted'
  <1> SUFFICES ASSUME Types, Flags, Greeted, Next PROVE Greeted'
    OBVIOUS
  <1> USE DEF Greeted, HelloFirst, Flags, link, beat, user, rest
  <1>1. CASE Start \/ StartReturns \/ MakeLoop \/ RunLoop \/ Head \/ DialFails
    BY <1>1 DEF Start, StartReturns, MakeLoop, RunLoop, Head, DialFails
  <1>2. CASE Dialled
    BY <1>2 DEF Dialled
  <1>3. CASE HelloSent \/ HelloFails \/ Failed \/ SleepEnds \/ RxExits \/ ClientCloses
    BY <1>3 DEF HelloSent, HelloFails, Failed, SleepEnds, RxExits, Left, ClientCloses
  <1>4. CASE LoopStopped \/ Drained \/ DrainCut \/ ThreadEnds
    BY <1>4 DEF LoopStopped, Left, Drained, DrainCut, ThreadEnds
  <1>5. CASE RxEnds \/ RxAnswers \/ \E p \in {"cur", "old"} : RxPong(p)
    BY <1>5 DEF RxEnds, RxAnswers, RxPong
  <1>6. CASE HbPing \/ HbTimeout
    BY <1>6 DEF HbPing, HbTimeout
  <1>7. CASE TaskStep
    <2>1. CASE TaskPicks
      BY <2>1 DEF TaskPicks
    <2>2. CASE TaskSends /\ task = "cur" /\ sock = "open"
      BY <2>2 DEF TaskSends
    <2>3. CASE TaskSends /\ ~(task = "cur" /\ sock = "open")
      BY <2>3 DEF TaskSends
    <2>4. QED
      BY <1>7, <2>1, <2>2, <2>3 DEF TaskStep
  <1>8. CASE PeerPongs \/ PeerAsks \/ Lose \/ GoMute
    BY <1>8 DEF PeerPongs, PeerAsks, Lose, GoMute
  <1>9. ASSUME NEW u \in Stoppers, StopBegins(u) \/ StopStep(u) PROVE Greeted'
    BY <1>9 DEF StopBegins, StopStep, StopChecks, StopCloses, StopClosed, StopJoined, StopLast
  <1>10. QED
    BY <1>1, <1>2, <1>3, <1>4, <1>5, <1>6, <1>7, <1>8, <1>9 DEF Next, ThreadStep

(* A pong never answers a ping that nobody heard. *)
LEMMA UnansweredStep == Types /\ Flags /\ Unanswered /\ Next => Unanswered'
  <1> SUFFICES ASSUME Types, Flags, Unanswered, Next PROVE Unanswered'
    OBVIOUS
  <1> USE DEF Unanswered, HeartbeatNotFooled, link, beat, user, rest
  <1>1. CASE RxExits
    BY <1>1 DEF RxExits, Left
  <1>2. CASE LoopStopped
    BY <1>2 DEF LoopStopped, Left
  <1>3. CASE \E p \in {"cur", "old"} : RxPong(p)
    <2>1. PICK p \in {"cur", "old"} : RxPong(p)
      BY <1>3
    <2>2. CASE p = "cur" /\ hb = "wait"
      <3>1. ~deaf
        BY <2>1, <2>2 DEF RxPong, Flags
      <3>2. QED
        BY <2>1, <2>2, <3>1 DEF RxPong, Flags
    <2>3. CASE ~(p = "cur" /\ hb = "wait")
      BY <2>1, <2>3 DEF RxPong
    <2>4. QED
      BY <2>2, <2>3
  <1>4. CASE HbPing
    BY <1>4 DEF HbPing, Flags
  <1>5. CASE PeerPongs \/ GoMute
    BY <1>5 DEF PeerPongs, GoMute, Flags
  <1>6. CASE UNCHANGED <<deaf, mute, pongs, fooled>>
    BY <1>6
  <1>7. QED
    BY <1>1, <1>2, <1>3, <1>4, <1>5, <1>6
       DEF Next, ThreadStep, Start, StartReturns, MakeLoop, RunLoop, Head, DialFails, Dialled, HelloSent,
           HelloFails, Failed, SleepEnds, ClientCloses, Drained, DrainCut, ThreadEnds, RxEnds, RxAnswers,
           HbTimeout, TaskStep, TaskPicks, TaskSends, PeerAsks, Lose, StopBegins, StopStep, StopChecks,
           StopCloses, StopClosed, StopJoined, StopLast

(* Every way out of the loop passes the places that close. *)
LEMMA ClosingStep == Types /\ Flags /\ Closing /\ Next => Closing'
  <1> SUFFICES ASSUME Types, Flags, Closing, Next PROVE Closing'
    OBVIOUS
  <1> USE DEF Closing, Looping, link, beat, user, rest
  <1>1. CASE Start \/ MakeLoop \/ RunLoop \/ Head \/ DialFails \/ Dialled
    BY <1>1 DEF Start, MakeLoop, RunLoop, Head, DialFails, Dialled
  <1>2. CASE HelloSent \/ HelloFails \/ Failed \/ SleepEnds \/ RxExits \/ ClientCloses
    BY <1>2 DEF HelloSent, HelloFails, Failed, SleepEnds, RxExits, ClientCloses
  <1>3. CASE LoopStopped
    BY <1>3 DEF LoopStopped, Types
  <1>4. CASE Drained \/ DrainCut \/ ThreadEnds
    BY <1>4 DEF Drained, DrainCut, ThreadEnds
  <1>5. CASE RxEnds \/ RxAnswers
    BY <1>5 DEF RxEnds, RxAnswers
  <1>6. CASE UNCHANGED <<t, loop, client, cut>>
    BY <1>6
  <1>7. QED
    BY <1>1, <1>2, <1>3, <1>4, <1>5, <1>6
       DEF Next, ThreadStep, StartReturns, RxPong, HbPing, HbTimeout, TaskStep, TaskPicks, TaskSends,
           PeerPongs, PeerAsks, Lose, GoMute, StopBegins, StopStep, StopChecks, StopCloses, StopClosed,
           StopJoined, StopLast

(* A stop() asks for at most one loop.stop, and has returned then. *)
LEMMA CountedStep == Types /\ Sets /\ Counted /\ Next => Counted'
  <1> SUFFICES ASSUME Types, Sets, Counted, Next PROVE Counted'
    OBVIOUS
  <1>1. /\ IsFiniteSet(Returned) /\ Cardinality(Returned) \in Nat
        /\ IsFiniteSet(Returned') /\ Cardinality(Returned') \in Nat
    BY Finite DEF Returned
  <1>2. ASSUME Returned \subseteq Returned', stops' = stops \/ stops' = stops - 1 PROVE Counted'
    <2>1. Cardinality(Returned) <= Cardinality(Returned')
      BY <1>1, <1>2, FS_Subset
    <2>2. QED
      BY <1>1, <1>2, <2>1 DEF Counted, Sets
  <1>3. ASSUME NEW u \in Stoppers, StopBegins(u) \/ StopStep(u) PROVE Counted'
    <2>1. CASE StopLast(u)
      <3>1. CASE loop = "closed"
        <4>1. Returned \subseteq Returned' /\ stops' = stops
          BY <2>1, <3>1 DEF StopLast, Go, Returned, Sets
        <4>2. QED
          BY <1>2, <4>1
      <3>2. CASE loop # "closed"
        <4>1. u \notin Returned /\ Returned' = Returned \cup {u}
          BY <2>1, <3>2 DEF StopLast, Go, Returned, Sets
        <4>2. Cardinality(Returned') = Cardinality(Returned) + 1
          BY <1>1, <4>1, FS_AddElement
        <4>3. stops' <= stops + 1
          BY <2>1 DEF StopLast, Sets
        <4>4. QED
          BY <1>1, <2>1, <4>2, <4>3 DEF Counted, Sets, StopLast
      <3>3. QED
        BY <3>1, <3>2
    <2>2. CASE ~StopLast(u)
      <3>1. Returned \subseteq Returned' /\ stops' = stops
        BY <1>3, <2>2 DEF StopBegins, StopStep, StopChecks, StopCloses, StopClosed, StopJoined, Go,
           Returned, Sets
      <3>2. QED
        BY <1>2, <3>1
    <2>3. QED
      BY <2>1, <2>2
  <1>4. CASE UNCHANGED sp /\ (stops' = stops \/ stops' = stops - 1)
    BY <1>2, <1>4 DEF Returned
  <1>5. QED
    BY <1>3, <1>4
       DEF Next, ThreadStep, Start, StartReturns, MakeLoop, RunLoop, Head, DialFails, Dialled, HelloSent,
           HelloFails, Failed, SleepEnds, RxExits, ClientCloses, LoopStopped, Drained, DrainCut, ThreadEnds,
           RxEnds, RxAnswers, RxPong, HbPing, HbTimeout, TaskStep, TaskPicks, TaskSends, PeerPongs,
           PeerAsks, Lose, GoMute, link, beat, user, rest

(* The invariant is inductive. *)
LEMMA NextIInv == IInv /\ [Next]_vars => IInv'
  <1>1. IInv /\ Next => IInv'
    BY TypesStep, SetsStep, FlagsStep, CountedStep, GreetedStep, UnansweredStep, ClosingStep DEF IInv
  <1>2. IInv /\ UNCHANGED vars => IInv'
    <2> SUFFICES ASSUME IInv, UNCHANGED vars PROVE IInv'
      OBVIOUS
    <2> USE DEF vars, link, beat, user, rest
    <2>1. Types' /\ Sets' /\ Counted'
      BY DEF IInv, Types, Sets, Counted, Returned
    <2>2. Flags'
      BY DEF IInv, Flags
    <2>3. Greeted' /\ Unanswered' /\ Closing'
      BY DEF IInv, Greeted, HelloFirst, Unanswered, HeartbeatNotFooled, Closing
    <2>4. QED
      BY <2>1, <2>2, <2>3 DEF IInv
  <1>3. QED
    BY <1>1, <1>2

(* The invariant holds throughout. *)
LEMMA LinkInvariant == Spec => []IInv
  BY InitIInv, NextIInv, PTL DEF Spec

-----------------------------------------------------------------------------
(* Type correctness; the callbacks left behind by stop() are never more    *)
(* than its callers.                                                       *)
THEOREM LinkTypeOK == Spec => []TypeOK
  <1>1. IInv => TypeOK
    <2> SUFFICES ASSUME IInv PROVE TypeOK
      OBVIOUS
    <2>1. stops \in 0 .. Cardinality(Stoppers)
      <3>1. /\ Cardinality(Returned) \in Nat /\ Cardinality(Returned) <= Cardinality(Stoppers)
            /\ Cardinality(Stoppers) \in Nat
        BY Finite DEF Returned
      <3>2. QED
        BY <3>1 DEF IInv, Sets, Counted
    <2>2. {connected, ready, stopping, ping, mute, asked, early, deaf, fooled, cut} \subseteq BOOLEAN
      BY DEF IInv, Flags
    <2>3. QED
      BY <2>1, <2>2 DEF IInv, Types, Sets, StopPlaces, TypeOK
  <1>2. QED
    BY <1>1, LinkInvariant, PTL

(* No frame of a task that outlives connections, and no True of start(), *)
(* comes before a hello, however often the connection is lost and        *)
(* however many threads stop the tunnel.                                 *)
THEOREM NothingBeforeHello == Spec => []HelloFirst
  <1>1. IInv => HelloFirst
    BY DEF IInv, Greeted
  <1>2. QED
    BY <1>1, LinkInvariant, PTL

(* No late pong answers a ping that was sent to a silent peer. *)
THEOREM SilenceIsNoticed == Spec => []HeartbeatNotFooled
  <1>1. IInv => HeartbeatNotFooled
    BY DEF IInv, Unanswered
  <1>2. QED
    BY <1>1, LinkInvariant, PTL

(* However the thread ends, client and loop are closed, unless loop.stop *)
(* came while they were being closed.                                    *)
THEOREM ThreadEndsClean == Spec => []EndsClean
  <1>1. IInv => EndsClean
    BY DEF IInv, Closing, EndsClean
  <1>2. QED
    BY <1>1, LinkInvariant, PTL

=============================================================================
