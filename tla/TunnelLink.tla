----------------------------- MODULE TunnelLink ------------------------------
(***************************************************************************)
(* The tunnel's thread and connection: TunnelClient.start, stop, _run_loop,*)
(* _connect_loop, the heartbeat and the receive loop's part in them        *)
(* (python/yr_sandbox/tunnel_client.py).                                   *)
(*                                                                         *)
(* The tunnel thread runs an event loop; the threads in Stoppers call      *)
(* stop() and share _ws, _loop, _connected and _stopping with it.  Frames  *)
(* are told apart only as far as the link cares: heartbeats, frames that   *)
(* the receive loop answers itself, and the answer of one HTTP task that   *)
(* outlives connections.                                                   *)
(***************************************************************************)
EXTENDS Naturals, FiniteSets

CONSTANT Stoppers      \* threads that call stop(), once each

ASSUME StoppersAssumption == IsFiniteSet(Stoppers)

VARIABLES t,           \* where the tunnel thread is
          loop,        \* self._loop: "none", "made", "running", "closed"
          ws,          \* self._ws: "none", "cur" (this connection), "dead"
          sock,        \* this connection: "none", "open", "lost"
          stopping,    \* self._stopping
          connected,   \* self._connected
          ready,       \* resume_state["ws_ready"]
          client,      \* self._http_client: "none", "open", "closing", "closed"
          stops,       \* loop.stop callbacks the loop has not run yet
          sp,          \* where each stop() is
          started,     \* start(): "none", "waiting", "true", "false"
          hb,          \* the heartbeat task
          ping,        \* a ping the peer has not answered yet
          pongs,       \* pongs on their way: "cur" to the pending id, "old"
          mute,        \* external: the peer is gone and nothing says so
          asked,       \* a frame to be answered by the receive loop is there
          task,        \* the HTTP task: "wait", "cur" or "old" (its current_ws), "end"
          hello,       \* history: hello was sent on this connection, "ever" before
          early,       \* history: the HTTP task's frame came before hello
          deaf,        \* history: the pending ping went to a mute peer
          fooled,      \* history: a ping to a mute peer was taken as answered
          cut          \* history: loop.stop interrupted a cleanup

link == <<ws, sock, connected, ready, hello>>
beat == <<hb, ping, pongs, deaf, fooled>>
user == <<stopping, sp, started>>
rest == <<task, early, cut, asked, mute>>
vars == <<t, loop, client, stops, link, beat, user, rest>>

(* Places of the tunnel thread at which its loop runs _connect_loop. *)
Looping == {"head", "dial", "hello", "up", "wedged", "exit", "fail", "sleep", "closing"}
Alive == t \notin {"none", "dead"}

Init ==
    /\ t = "none" /\ loop = "none" /\ client = "none" /\ stops = 0
    /\ ws = "none" /\ sock = "none" /\ connected = FALSE /\ ready = FALSE
    /\ hello = "never"
    /\ hb = "off" /\ ping = FALSE /\ pongs = {} /\ deaf = FALSE /\ fooled = FALSE
    /\ stopping = FALSE /\ sp = [u \in Stoppers |-> "idle"] /\ started = "none"
    /\ task = "wait" /\ early = FALSE /\ cut = FALSE /\ asked = FALSE /\ mute = FALSE

-----------------------------------------------------------------------------
(* start() *)
Start ==
    /\ t = "none" /\ started = "none"
    /\ \A u \in Stoppers : sp[u] = "idle"
    /\ stopping' = FALSE /\ connected' = FALSE
    /\ t' = "boot" /\ started' = "waiting"
    /\ UNCHANGED <<loop, client, stops, ws, sock, ready, hello, beat, sp, rest>>

(* _connected.wait(timeout) *)
StartReturns ==
    /\ started = "waiting"
    /\ started' \in {"false"} \cup IF connected THEN {"true"} ELSE {}
    /\ UNCHANGED <<t, loop, client, stops, link, beat, stopping, sp, rest>>

(* _run_loop makes the loop, and then runs _connect_loop in it. *)
MakeLoop ==
    /\ t = "boot" /\ loop = "none"
    /\ loop' = "made"
    /\ UNCHANGED <<t, client, stops, link, beat, user, rest>>

RunLoop ==
    /\ t = "boot" /\ loop = "made"
    /\ loop' = "running" /\ client' = "open" /\ t' = "head"
    /\ UNCHANGED <<stops, link, beat, user, rest>>

(* while not self._stopping.is_set() *)
Head ==
    /\ t = "head"
    /\ t' = IF stopping THEN "drain" ELSE "dial"
    /\ UNCHANGED <<loop, client, stops, link, beat, user, rest>>

DialFails ==
    /\ t = "dial"
    /\ t' = "fail"
    /\ UNCHANGED <<loop, client, stops, link, beat, user, rest>>

(* Mutant: senders are let go before hello is out. *)
DialledReady ==
    /\ t = "dial"
    /\ t' = "hello" /\ sock' = "open" /\ ws' = "cur"
    /\ hello' = IF hello = "never" THEN "never" ELSE "ever"
    /\ ready' = TRUE
    /\ task' = IF task = "cur" THEN "old" ELSE task
    /\ UNCHANGED <<loop, client, stops, connected, beat, user, early, cut, asked, mute>>

(* The handshake succeeded: self._ws = ws, and hello is being sent. *)
Dialled ==
    /\ t = "dial"
    /\ t' = "hello" /\ sock' = "open" /\ ws' = "cur"
    /\ hello' = IF hello = "never" THEN "never" ELSE "ever"
    /\ task' = IF task = "cur" THEN "old" ELSE task
    /\ UNCHANGED <<loop, client, stops, connected, ready, beat, user, early, cut, asked,
                   mute>>

HelloSent ==
    /\ t = "hello" /\ sock = "open"
    /\ t' = "up" /\ hello' = "sent" /\ ready' = TRUE /\ connected' = TRUE
    /\ hb' = "sleep"
    /\ UNCHANGED <<loop, client, stops, ws, sock, ping, pongs, deaf, fooled, user, rest>>

(* self._ws keeps the connection that failed. *)
HelloFails ==
    /\ t = "hello" /\ sock = "lost"
    /\ t' = "fail" /\ sock' = "none" /\ ws' = "dead"
    /\ UNCHANGED <<loop, client, stops, connected, ready, hello, beat, user, rest>>

(* The except clauses, and the return after a connection that ended. *)
Failed ==
    /\ t = "fail"
    /\ connected' = FALSE
    /\ IF stopping THEN t' = "closing" /\ client' = "closing"
                   ELSE t' = "sleep" /\ UNCHANGED client
    /\ UNCHANGED <<loop, stops, ws, sock, ready, hello, beat, user, rest>>

SleepEnds ==
    /\ t = "sleep"
    /\ t' = "head"
    /\ UNCHANGED <<loop, client, stops, link, beat, user, rest>>

-----------------------------------------------------------------------------
(* The receive loop ends: no more messages, a message while stopping, or a
   ProtocolError of a handler. *)
RxEnds ==
    /\ t = "up"
    /\ sock = "lost" \/ ~mute
    /\ t' = "exit"
    /\ UNCHANGED <<loop, client, stops, link, beat, user, rest>>

(***************************************************************************)
(* A frame the receive loop answers itself, a ping or one that is over a   *)
(* limit.  On a lost connection send_frame clears ws_ready and waits for   *)
(* it, inside the only loop whose end leads to a new connection.           *)
(***************************************************************************)
RxAnswers ==
    /\ t = "up" /\ asked
    /\ asked' = FALSE
    /\ IF sock = "open" THEN UNCHANGED <<t, ready>> ELSE t' = "wedged" /\ ready' = FALSE
    /\ UNCHANGED <<loop, client, stops, ws, sock, connected, hello, beat, user, task,
                   early, cut, mute>>

(* Mutant: any pong is taken for the answer to the pending ping. *)
RxAnyPong(p) ==
    /\ t = "up" /\ p \in pongs /\ sock = "open"
    /\ pongs' = pongs \ {p}
    /\ IF hb = "wait" THEN hb' = "sleep" /\ fooled' = (fooled \/ deaf)
                      ELSE UNCHANGED <<hb, fooled>>
    /\ UNCHANGED <<t, loop, client, stops, link, ping, deaf, user, rest>>

(* Only a pong with pending_ping_id wakes the heartbeat. *)
RxPong(p) ==
    /\ t = "up" /\ p \in pongs /\ sock = "open"
    /\ pongs' = pongs \ {p}
    /\ IF p = "cur" /\ hb = "wait" THEN hb' = "sleep" /\ fooled' = (fooled \/ deaf)
                                   ELSE UNCHANGED <<hb, fooled>>
    /\ UNCHANGED <<t, loop, client, stops, link, ping, deaf, user, rest>>

(* The receive loop's finally and that of _connect_loop around it. *)
Left ==
    /\ hb' = "off" /\ ready' = FALSE /\ ws' = "none" /\ connected' = FALSE
    /\ sock' = "none" /\ ping' = FALSE /\ pongs' = {} /\ deaf' = FALSE
    /\ asked' = FALSE /\ mute' = FALSE
    /\ UNCHANGED <<hello, fooled>>

RxExits ==
    /\ t = "exit"
    /\ t' = "fail"
    /\ Left
    /\ UNCHANGED <<loop, client, stops, user, task, early, cut>>

-----------------------------------------------------------------------------
(***************************************************************************)
(* heartbeat_loop, beside the receive loop.  A ping that meets a lost      *)
(* connection waits in send_frame and never times out.                     *)
(***************************************************************************)
HbPing ==
    /\ hb = "sleep"
    /\ IF stopping THEN hb' = "off" /\ UNCHANGED <<ready, ping, pongs, deaf>>
       ELSE IF ready /\ sock = "open"
       THEN /\ hb' = "wait" /\ ping' = TRUE /\ deaf' = mute
            /\ pongs' = IF pongs = {} THEN {} ELSE {"old"}
            /\ UNCHANGED ready
       ELSE hb' = "blocked" /\ ready' = FALSE /\ UNCHANGED <<ping, pongs, deaf>>
    /\ UNCHANGED <<t, loop, client, stops, ws, sock, connected, hello, fooled, user, rest>>

(* Mutant: a missing pong is only logged. *)
HbMissed ==
    /\ hb = "wait"
    /\ hb' = "sleep"
    /\ UNCHANGED <<t, loop, client, stops, link, ping, pongs, deaf, fooled, user, rest>>

(* No pong in time: the connection is closed. *)
HbTimeout ==
    /\ hb = "wait"
    /\ hb' = "off"
    /\ sock' = "lost"
    /\ UNCHANGED <<t, loop, client, stops, ws, connected, ready, hello, ping, pongs, deaf,
                   fooled, user, rest>>

(* external: the peer and the network between.  A pong may also be one that
   nobody waits for any more. *)
PeerPongs ==
    /\ t = "up" /\ ~mute /\ sock = "open"
    /\ \/ ping /\ ping' = FALSE /\ pongs' = pongs \cup {"cur"}
       \/ pongs' = pongs \cup {"old"} /\ UNCHANGED ping
    /\ UNCHANGED <<t, loop, client, stops, link, hb, deaf, fooled, user, rest>>

PeerAsks ==
    /\ t = "up" /\ sock = "open" /\ ~mute
    /\ asked' = TRUE
    /\ UNCHANGED <<t, loop, client, stops, link, beat, user, task, early, cut, mute>>

Lose ==
    /\ sock = "open"
    /\ sock' = "lost"
    /\ UNCHANGED <<t, loop, client, stops, ws, connected, ready, hello, beat, user, rest>>

GoMute ==
    /\ t = "up" /\ sock = "open" /\ ~mute
    /\ mute' = TRUE
    /\ UNCHANGED <<t, loop, client, stops, link, beat, user, task, early, cut, asked>>

-----------------------------------------------------------------------------
(***************************************************************************)
(* send_frame in an HTTP task that outlives connections: it waits for      *)
(* ws_ready and picks self._ws, and sends once it has the send lock unless *)
(* there is another connection by then.                                    *)
(***************************************************************************)
TaskPicks ==
    /\ task = "wait" /\ t \in Looping /\ ready /\ ~stopping
    /\ task' = "cur"
    /\ UNCHANGED <<t, loop, client, stops, link, beat, user, early, cut, asked, mute>>

TaskSends ==
    /\ task \in {"cur", "old"} /\ t \in Looping
    /\ IF task = "cur" /\ sock = "open"
       THEN task' = "end" /\ early' = (early \/ hello # "sent") /\ UNCHANGED ready
       ELSE /\ task' = "wait"
            /\ ready' = IF task = "old" /\ ws # "none" THEN ready ELSE FALSE
            /\ UNCHANGED early
    /\ UNCHANGED <<t, loop, client, stops, ws, sock, connected, hello, beat, user, cut,
                   asked, mute>>

-----------------------------------------------------------------------------
(* _close_shared_http_client, awaited. *)
ClientCloses ==
    /\ t = "closing"
    /\ client' = "closed" /\ t' = "drain"
    /\ UNCHANGED <<loop, stops, link, beat, user, rest>>

(* Mutant: a stopped loop is simply left. *)
LoopStoppedLeft ==
    /\ t \in Looping /\ stops > 0
    /\ stops' = stops - 1
    /\ t' = "ending"
    /\ Left
    /\ UNCHANGED <<loop, client, user, task, early, cut>>

(***************************************************************************)
(* loop.stop ends run_until_complete with a RuntimeError, which is         *)
(* swallowed; _run_loop then cancels _connect_loop where it stands.        *)
(***************************************************************************)
LoopStopped ==
    /\ t \in Looping /\ stops > 0
    /\ stops' = stops - 1
    /\ t' = "drain"
    /\ cut' = (cut \/ t = "closing")
    /\ IF t \in {"up", "wedged", "exit"} THEN Left
       ELSE sock' = "none" /\ UNCHANGED <<ws, connected, ready, hello, beat, asked, mute>>
    /\ UNCHANGED <<loop, client, user, task, early>>

(* Pending tasks are gathered, the client and the loop closed. *)
Drained ==
    /\ t = "drain"
    /\ t' = "ending" /\ loop' = "closed"
    /\ client' = IF client = "open" THEN "closed" ELSE client
    /\ task' = "end"
    /\ UNCHANGED <<stops, link, beat, user, early, cut, asked, mute>>

(* A loop.stop that comes this late may end one of these runs with a
   RuntimeError that nobody catches. *)
DrainCut ==
    /\ t = "drain" /\ stops > 0
    /\ t' = "ending" /\ cut' = TRUE /\ loop' = "made"
    /\ client' \in {client, IF client = "open" THEN "closed" ELSE client}
    /\ UNCHANGED <<stops, link, beat, user, task, early, asked, mute>>

ThreadEnds ==
    /\ t = "ending"
    /\ t' = "dead"
    /\ UNCHANGED <<loop, client, stops, link, beat, user, rest>>

-----------------------------------------------------------------------------
Go(u, place) == sp' = [sp EXCEPT ![u] = place]

StopBegins(u) ==
    /\ sp[u] = "idle" /\ started \in {"true", "false"}
    /\ stopping' = TRUE
    /\ Go(u, "check")
    /\ UNCHANGED <<t, loop, client, stops, link, beat, started, rest>>

(* The first look at self._loop and self._ws. *)
StopChecks(u) ==
    /\ sp[u] = "check"
    /\ Go(u, IF loop = "running" /\ ws # "none" THEN "close" ELSE "join")
    /\ UNCHANGED <<t, loop, client, stops, link, beat, stopping, started, rest>>

(* The second look: None has no close(), a closed loop takes no call. *)
StopCloses(u) ==
    /\ sp[u] = "close"
    /\ Go(u, IF ws = "none" \/ loop = "closed" THEN "raised" ELSE "closing")
    /\ UNCHANGED <<t, loop, client, stops, link, beat, stopping, started, rest>>

(* ws.close() runs in the loop, or its result is not waited for. *)
StopClosed(u) ==
    /\ sp[u] = "closing"
    /\ sock' = IF sock = "open" /\ ws = "cur" THEN "lost" ELSE sock
    /\ Go(u, "join")
    /\ UNCHANGED <<t, loop, client, stops, ws, connected, ready, hello, beat, stopping,
                   started, rest>>

(* join(5) sees the end of the thread, *)
StopJoined(u) ==
    /\ sp[u] = "join" /\ ~Alive
    /\ Go(u, "returned")
    /\ UNCHANGED <<t, loop, client, stops, link, beat, stopping, started, rest>>

(* Mutant: the thread is not waited for any further. *)
StopReturnsAnyway(u) ==
    /\ sp[u] = "join" /\ Alive
    /\ Go(u, "returned")
    /\ UNCHANGED <<t, loop, client, stops, link, beat, stopping, started, rest>>

(* or it does not, and the last resort is loop.stop from this thread. *)
StopLast(u) ==
    /\ sp[u] = "join" /\ Alive
    /\ Go(u, IF loop = "closed" THEN "raised" ELSE "returned")
    /\ stops' = IF loop \in {"made", "running"} THEN stops + 1 ELSE stops
    /\ UNCHANGED <<t, loop, client, link, beat, stopping, started, rest>>

-----------------------------------------------------------------------------
ThreadStep ==
    \/ MakeLoop \/ RunLoop \/ Head \/ DialFails \/ Dialled \/ HelloSent \/ HelloFails
    \/ Failed \/ SleepEnds \/ RxExits \/ ClientCloses \/ LoopStopped \/ Drained
    \/ DrainCut \/ ThreadEnds

StopStep(u) ==
    \/ StopChecks(u) \/ StopCloses(u) \/ StopClosed(u) \/ StopJoined(u) \/ StopLast(u)

TaskStep == TaskPicks \/ TaskSends

Next ==
    \/ Start \/ StartReturns
    \/ ThreadStep
    \/ RxEnds \/ RxAnswers
    \/ \E p \in {"cur", "old"} : RxPong(p)
    \/ HbPing \/ HbTimeout \/ TaskStep
    \/ PeerPongs \/ PeerAsks \/ Lose \/ GoMute
    \/ \E u \in Stoppers : StopBegins(u) \/ StopStep(u)

(***************************************************************************)
(* The event loop runs what can run, a dial ends, timeouts pass, a receive *)
(* loop notices a lost connection, and a thread inside stop() goes on.     *)
(***************************************************************************)
Fairness ==
    /\ WF_vars(ThreadStep)
    /\ WF_vars(RxEnds /\ sock = "lost")
    /\ WF_vars(HbPing)
    /\ WF_vars(HbTimeout)
    /\ \A u \in Stoppers : WF_vars(StopStep(u))

Spec == Init /\ [][Next]_vars /\ Fairness

-----------------------------------------------------------------------------
(* Type correctness. *)
TypeOK ==
    /\ t \in Looping \cup {"none", "boot", "drain", "ending", "dead"}
    /\ loop \in {"none", "made", "running", "closed"}
    /\ client \in {"none", "open", "closing", "closed"}
    /\ stops \in 0 .. Cardinality(Stoppers)
    /\ ws \in {"none", "cur", "dead"} /\ sock \in {"none", "open", "lost"}
    /\ hello \in {"never", "ever", "sent"}
    /\ {connected, ready, stopping, ping, mute, asked, early, deaf, fooled, cut}
           \subseteq BOOLEAN
    /\ hb \in {"off", "sleep", "wait", "blocked"} /\ pongs \subseteq {"cur", "old"}
    /\ sp \in [Stoppers -> {"idle", "check", "close", "closing", "join", "returned",
                            "raised"}]
    /\ started \in {"none", "waiting", "true", "false"}
    /\ task \in {"wait", "cur", "old", "end"}

(***************************************************************************)
(* Nothing uses a connection before its hello is out: neither the answer   *)
(* of a task that waited for a new connection, nor start(), which returns  *)
(* True only when some hello was sent.                                     *)
(***************************************************************************)
HelloFirst == ~early /\ (started = "true" => hello # "never")

(***************************************************************************)
(* A late pong never keeps a dead connection alive: no ping that was sent  *)
(* after the peer fell silent counts as answered.                          *)
(***************************************************************************)
HeartbeatNotFooled == ~fooled

(***************************************************************************)
(* However the thread ends, by itself or through loop.stop in the middle   *)
(* of anything, the HTTP client and the event loop are closed, unless      *)
(* loop.stop came while they were being closed.                            *)
(***************************************************************************)
EndsClean == t = "dead" /\ ~cut => client = "closed" /\ loop = "closed"

(***************************************************************************)
(* stop() stops: whatever the thread was doing, and also when the second   *)
(* look at _ws or the closed loop makes stop() raise, the thread ends.     *)
(***************************************************************************)
StopStops == \A u \in Stoppers : sp[u] # "idle" ~> t = "dead"

(***************************************************************************)
(* A connection that is lost, or whose peer has fallen silent, is given up *)
(* and replaced, or the thread ends, unless the receive loop is caught in  *)
(* send_frame with a frame to answer.                                      *)
(***************************************************************************)
DeadLinkReplaced ==
    (t = "up" /\ (sock = "lost" \/ mute)) ~> t \in {"dial", "dead", "wedged"}
=============================================================================
