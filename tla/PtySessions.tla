----------------------------- MODULE PtySessions ----------------------------
(***************************************************************************)
(* Interactive terminals: Pty, PtySession (python/yr_sandbox/pty.py) and   *)
(* the thread-backed _PtyConnection (python/yr_sandbox/_pty_transport.py). *)
(*                                                                         *)
(* Every session has a transport thread that runs an event loop.  A user   *)
(* thread creates the session and may close it; another thread may run     *)
(* Pty._close, which closes all sessions one after the other, at any time. *)
(* close() marks the connection and reads loop and websocket under the     *)
(* state lock, and uses what it read after it.                             *)
(***************************************************************************)
CONSTANT Terminals

VARIABLES thread,      \* the transport thread of each session
          conn,        \* the events and results of each _PtyConnection
          closed,      \* sessions with _closed_by_client set
          stopping,    \* sessions whose loop was asked to close or cancel
          user,        \* the user thread of each session
          closeAt,     \* closeAt[a][s]: where actor a is in s's close()
          snap,        \* snap[a][s]: what that close() read under the lock
          registered,  \* Pty._sessions
          sweep        \* Pty._close: state, sessions still to close

transport == <<thread, conn>>
closes == <<closed, stopping, closeAt, snap>>
ptyVars == <<transport, closes, user, registered, sweep>>

Actors == {"user", "pty"}

(***************************************************************************)
(* "boot": _loop not yet set; "connect", "open": inside websockets.connect *)
(* and its message loop; "failed", "leave": on the way out of the one and  *)
(* the other; "cleared": _loop is None again; "ran": _run is over;         *)
(* "loopclosed": asyncio.run is over; "flagged": ready and done are set;   *)
(* "dead": on_done has run.                                                *)
(***************************************************************************)
Stages == {"new", "boot", "connect", "open", "failed", "leave", "cleared",
           "ran", "loopclosed", "flagged", "dead"}
HasLoop(s) == thread[s] \in {"connect", "open", "failed", "leave"}
HasSocket(s) == thread[s] \in {"open", "leave"}
TaskDone(s) == thread[s] \in {"ran", "loopclosed", "flagged", "dead"}
LoopClosed(s) == thread[s] \in {"loopclosed", "flagged", "dead"}

PtyInit ==
    /\ thread = [s \in Terminals |-> "new"]
    /\ conn = [s \in Terminals |-> [ready |-> FALSE, done |-> FALSE, started |-> FALSE,
                                    error |-> "none", exit |-> FALSE]]
    /\ closed = {}
    /\ stopping = {}
    /\ user = [s \in Terminals |-> "idle"]
    /\ closeAt = [a \in Actors |-> [s \in Terminals |-> "no"]]
    /\ snap = [a \in Actors |-> [s \in Terminals |-> [loop |-> FALSE, socket |-> FALSE]]]
    /\ registered = {}
    /\ sweep = [state |-> "idle", todo |-> {}]

-----------------------------------------------------------------------------
(* _set_error: the first error stays; both events are set. *)
WithError(c, what) ==
    [c EXCEPT !.error = IF @ = "none" THEN what ELSE @, !.ready = TRUE, !.done = TRUE]

Move(s, from, to) ==
    /\ thread[s] = from
    /\ thread' = [thread EXCEPT ![s] = to]
    /\ UNCHANGED <<closes, user, sweep>>

(* _run publishes its loop and task. *)
SetLoop(s) == Move(s, "boot", "connect") /\ UNCHANGED <<conn, registered>>

(* asyncio.run or the import of websockets raises before that; what asyncio.run
   does after _run is taken not to raise. *)
ThreadFails(s) ==
    /\ Move(s, "boot", "flagged")
    /\ conn' = [conn EXCEPT ![s] = WithError(@, "thread")]
    /\ UNCHANGED registered

Connected(s) == Move(s, "connect", "open") /\ UNCHANGED <<conn, registered>>

(***************************************************************************)
(* An exception leaves _run: no connection, a lost connection, the cancel. *)
(***************************************************************************)
RunRaises(s) ==
    /\ \/ Move(s, "connect", "failed")
       \/ Move(s, "open", "leave")
    /\ conn' = IF s \in closed \/ conn[s].done THEN conn
               ELSE [conn EXCEPT ![s] = WithError(@, "connection")]
    /\ UNCHANGED registered

(* The peer, or websocket.close(), ends the message loop without one. *)
StreamEnds(s) == Move(s, "open", "leave") /\ UNCHANGED <<conn, registered>>

(* _handle_control, started. *)
StartedFrame(s) ==
    /\ thread[s] = "open"
    /\ ~conn[s].started
    /\ conn' = [conn EXCEPT ![s].started = TRUE, ![s].ready = TRUE]
    /\ UNCHANGED <<thread, closes, user, registered, sweep>>

(* _handle_control, exited: the result is there and the loop is left. *)
ExitedFrame(s) ==
    /\ Move(s, "open", "leave")
    /\ conn' = [conn EXCEPT ![s] = [@ EXCEPT !.started = TRUE, !.exit = TRUE,
                                             !.ready = TRUE, !.done = TRUE]]
    /\ UNCHANGED registered

(* An error or malformed control frame, or an on_data callback that raises. *)
ErrorFrame(s) ==
    /\ Move(s, "open", "leave")
    /\ conn' = [conn EXCEPT ![s] = WithError(@, "remote")]
    /\ UNCHANGED registered

(* finally: _websocket, _loop and _run_task are None. *)
ClearLoop(s) ==
    /\ \/ Move(s, "failed", "cleared")
       \/ Move(s, "leave", "cleared")
    /\ UNCHANGED <<conn, registered>>

(* Mutant: a finished session is not exempt from the last error. *)
RunEndsIgnoringDone(s) ==
    /\ Move(s, "cleared", "ran")
    /\ conn' = IF s \in closed THEN conn
               ELSE [conn EXCEPT ![s] = WithError(@, "noterminal")]
    /\ UNCHANGED registered

(* The end of _run: without terminal status, unless the client closed. *)
RunEnds(s) ==
    /\ Move(s, "cleared", "ran")
    /\ conn' = IF s \in closed \/ conn[s].done THEN conn
               ELSE [conn EXCEPT ![s] = WithError(@, "noterminal")]
    /\ UNCHANGED registered

CloseLoop(s) == Move(s, "ran", "loopclosed") /\ UNCHANGED <<conn, registered>>

(* finally of _thread_main: the events, then on_done. *)
SetDone(s) ==
    /\ Move(s, "loopclosed", "flagged")
    /\ conn' = [conn EXCEPT ![s].ready = TRUE, ![s].done = TRUE]
    /\ UNCHANGED registered

OnDone(s) ==
    /\ Move(s, "flagged", "dead")
    /\ registered' = registered \ {s}
    /\ UNCHANGED conn

-----------------------------------------------------------------------------
(* Pty.create up to the registration of the new session. *)
PtyCreate(s) ==
    /\ user[s] = "idle"
    /\ user' = [user EXCEPT ![s] = "registered"]
    /\ registered' = registered \cup {s}
    /\ UNCHANGED <<transport, closes, sweep>>

(* _PtyConnection.start: the thread runs, the caller waits for ready. *)
PtyStart(s) ==
    /\ user[s] = "registered"
    /\ user' = [user EXCEPT ![s] = "waiting"]
    /\ thread' = [thread EXCEPT ![s] = "boot"]
    /\ UNCHANGED <<conn, closes, registered, sweep>>

(* start found the connection ready and without an error. *)
StartReturns(s) ==
    /\ user[s] = "waiting"
    /\ conn[s].ready /\ conn[s].error = "none" /\ conn[s].started
    /\ user' = [user EXCEPT ![s] = "open"]
    /\ UNCHANGED <<transport, closes, registered, sweep>>

BeginClose(a, s) == closeAt' = [closeAt EXCEPT ![a][s] = "mark"]

(***************************************************************************)
(* start times out, or raises what the thread met: both ways close() and   *)
(* then _remove.                                                           *)
(***************************************************************************)
StartFails(s) ==
    /\ user[s] = "waiting"
    /\ ~(conn[s].ready /\ conn[s].error = "none" /\ conn[s].started)
    /\ user' = [user EXCEPT ![s] = "closing"]
    /\ BeginClose("user", s)
    /\ UNCHANGED <<transport, closed, stopping, snap, registered, sweep>>

(* PtySession.close by the user. *)
UserClose(s) ==
    /\ user[s] = "open"
    /\ user' = [user EXCEPT ![s] = "closing"]
    /\ BeginClose("user", s)
    /\ UNCHANGED <<transport, closed, stopping, snap, registered, sweep>>

(* _remove, unless close() raised. *)
UserClosed(s) ==
    /\ closeAt["user"][s] \in {"ended", "raised"}
    /\ user[s] = "closing"
    /\ user' = [user EXCEPT ![s] = "ended"]
    /\ registered' = IF closeAt["user"][s] = "ended" THEN registered \ {s} ELSE registered
    /\ UNCHANGED <<transport, closes, sweep>>

-----------------------------------------------------------------------------
To(a, s, where) == closeAt' = [closeAt EXCEPT ![a][s] = where]

(* close(), under the state lock: only the first one goes on. *)
Mark(a, s) ==
    /\ closeAt[a][s] = "mark"
    /\ IF s \in closed
       THEN /\ To(a, s, "ended")
            /\ UNCHANGED <<closed, snap>>
       ELSE /\ To(a, s, "decide")
            /\ closed' = closed \cup {s}
            /\ snap' = [snap EXCEPT ![a][s] = [loop |-> HasLoop(s), socket |-> HasSocket(s)]]
    /\ UNCHANGED <<transport, stopping, user, registered, sweep>>

(* Mutant: only an open WebSocket is closed, a connecting one is left. *)
DecideOnlySocket(a, s) ==
    /\ closeAt[a][s] = "decide"
    /\ To(a, s, IF snap[a][s].loop /\ snap[a][s].socket /\ ~conn[s].done THEN "call" ELSE "join")
    /\ UNCHANGED <<transport, closed, stopping, snap, user, registered, sweep>>

(* Close the WebSocket, or cancel the task that connects it, or neither. *)
Decide(a, s) ==
    /\ closeAt[a][s] = "decide"
    /\ To(a, s, IF /\ snap[a][s].loop
                   /\ (snap[a][s].socket /\ ~conn[s].done) \/ ~TaskDone(s)
                THEN "call" ELSE "join")
    /\ UNCHANGED <<transport, closed, stopping, snap, user, registered, sweep>>

(* run_coroutine_threadsafe, call_soon_threadsafe: a closed loop raises. *)
Call(a, s) ==
    /\ closeAt[a][s] = "call"
    /\ IF LoopClosed(s)
       THEN To(a, s, "raised") /\ UNCHANGED stopping
       ELSE To(a, s, "join") /\ stopping' = stopping \cup {s}
    /\ UNCHANGED <<transport, closed, snap, user, registered, sweep>>

(* join with a timeout. *)
Join(a, s) ==
    /\ closeAt[a][s] = "join"
    /\ To(a, s, "ended")
    /\ UNCHANGED <<transport, closed, stopping, snap, user, registered, sweep>>

(* The close or the cancel reaches the loop while _run is in it. *)
Stopped(s) == s \in stopping /\ (RunRaises(s) \/ StreamEnds(s))

-----------------------------------------------------------------------------
(* Pty._close: a copy of the registered sessions ... *)
SweepBegin ==
    /\ sweep.state = "idle"
    /\ sweep' = [state |-> "next", todo |-> registered]
    /\ UNCHANGED <<transport, closes, user, registered>>

(* ... each closed in turn, in no particular order ... *)
SweepNext(s) ==
    /\ sweep.state = "next"
    /\ s \in sweep.todo
    /\ sweep' = [sweep EXCEPT !.state = "closing", !.todo = @ \ {s}]
    /\ BeginClose("pty", s)
    /\ UNCHANGED <<transport, closed, stopping, snap, user, registered>>

SweepClosed(s) ==
    /\ sweep.state = "closing"
    /\ closeAt["pty"][s] = "ended"
    /\ To("pty", s, "no")
    /\ sweep' = [sweep EXCEPT !.state = "next"]
    /\ registered' = registered \ {s}
    /\ UNCHANGED <<transport, closed, stopping, snap, user>>

(* ... until one raises, which ends the sweep. *)
SweepRaised(s) ==
    /\ sweep.state = "closing"
    /\ closeAt["pty"][s] = "raised"
    /\ sweep' = [sweep EXCEPT !.state = "done"]
    /\ UNCHANGED <<transport, closes, user, registered>>

SweepDone ==
    /\ sweep.state = "next"
    /\ sweep.todo = {}
    /\ sweep' = [sweep EXCEPT !.state = "done"]
    /\ UNCHANGED <<transport, closes, user, registered>>

-----------------------------------------------------------------------------
ThreadStep(s) ==
    \/ SetLoop(s)
    \/ ThreadFails(s)
    \/ Stopped(s)
    \/ ClearLoop(s)
    \/ RunEnds(s)
    \/ CloseLoop(s)
    \/ SetDone(s)
    \/ OnDone(s)

CloseStep(a, s) == Mark(a, s) \/ Decide(a, s) \/ Call(a, s) \/ Join(a, s)

UserStep(s) ==
    \/ PtyCreate(s)
    \/ PtyStart(s)
    \/ StartReturns(s)
    \/ StartFails(s)
    \/ UserClose(s)
    \/ UserClosed(s)

(* external: the sandbox's terminal server and the network. *)
RemoteStep(s) ==
    \/ Connected(s)
    \/ RunRaises(s)
    \/ StreamEnds(s)
    \/ StartedFrame(s)
    \/ ExitedFrame(s)
    \/ ErrorFrame(s)

SweepStep ==
    \/ SweepBegin
    \/ SweepDone
    \/ \E s \in Terminals : SweepNext(s) \/ SweepClosed(s) \/ SweepRaised(s)

PtyNext ==
    \/ \E s \in Terminals : ThreadStep(s) \/ UserStep(s) \/ RemoteStep(s)
    \/ \E a \in Actors, s \in Terminals : CloseStep(a, s)
    \/ SweepStep

(***************************************************************************)
(* Threads run: a started transport goes on where it depends on itself     *)
(* only, and a close() that was begun goes on.  Nothing is assumed of the  *)
(* remote side.                                                            *)
(***************************************************************************)
PtyFairness ==
    /\ \A s \in Terminals : WF_ptyVars(ThreadStep(s))
    /\ \A a \in Actors, s \in Terminals : WF_ptyVars(CloseStep(a, s))

PtySpec == PtyInit /\ [][PtyNext]_ptyVars
PtyFairSpec == PtySpec /\ PtyFairness

-----------------------------------------------------------------------------
(* Type correctness; a connection that ended has its events set. *)
PtyTypeOK ==
    /\ thread \in [Terminals -> Stages]
    /\ conn \in [Terminals -> [ready : BOOLEAN, done : BOOLEAN, started : BOOLEAN,
                               exit : BOOLEAN,
                               error : {"none", "thread", "connection", "remote", "noterminal"}]]
    /\ \A s \in Terminals : /\ conn[s].done => conn[s].ready
                            /\ thread[s] \in {"flagged", "dead"} => conn[s].done
    /\ closed \subseteq Terminals /\ stopping \subseteq closed
    /\ user \in [Terminals -> {"idle", "registered", "waiting", "open", "closing", "ended"}]
    /\ closeAt \in [Actors -> [Terminals -> {"no", "mark", "decide", "call", "join",
                                             "ended", "raised"}]]
    /\ snap \in [Actors -> [Terminals -> [loop : BOOLEAN, socket : BOOLEAN]]]
    /\ registered \subseteq Terminals
    /\ sweep \in [state : {"idle", "next", "closing", "done"},
                  todo : SUBSET Terminals]

(***************************************************************************)
(* What wait() reports never changes: once done is set neither the exit    *)
(* code nor the error does, whoever closes the session when.               *)
(***************************************************************************)
OutcomeFinal ==
    [][\A s \in Terminals : conn[s].done =>
          conn'[s].exit = conn[s].exit /\ conn'[s].error = conn[s].error]_ptyVars

(***************************************************************************)
(* A close() that found the loop ends the transport thread, whether it     *)
(* found it connecting, connected or already leaving, and even if the      *)
(* remote side never answers.                                              *)
(***************************************************************************)
FoundLoopIsStopped ==
    \A a \in Actors, s \in Terminals :
        closeAt[a][s] = "decide" /\ snap[a][s].loop ~> thread[s] = "dead"
=============================================================================
