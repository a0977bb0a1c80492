---------------------------- MODULE TunnelChannel ----------------------------
(***************************************************************************)
(* WebSocket channels of the tunnel: ws_connect, ws_message, ws_close and  *)
(* error frames, binary envelopes, handle_ws_connect with its two pumps,   *)
(* the bounded queue between the receive loop and the pump, and the memory *)
(* of terminated ids (python/yr_sandbox/tunnel_client.py, _proxy_loop).    *)
(*                                                                         *)
(* One id is followed.  A peer that lost the connection may ask for it     *)
(* again: the number of the request tells its uses apart, not the frames.  *)
(* Cancelling handle_ws_connect does not cancel the pumps it waits for     *)
(* with asyncio.wait: they go on as orphans.                               *)
(***************************************************************************)
EXTENDS TunnelWire, Sequences, SequencesExt

CONSTANTS Uses,        \* 1 .. n: how often the peer asks for the id
          MaxMessages, \* bound: messages, over all uses and both directions
          QueueLimit   \* channel_limit

ASSUME ChannelAssumption ==
    /\ IsFiniteSet(Uses) /\ Uses = 1 .. Cardinality(Uses)
    /\ {MaxMessages, QueueLimit} \subseteq Nat \ {0}

VARIABLES chan,        \* external: the channel as the peer sees it
          use,         \* which use of the id that is
          toClient,    \* frames on their way to the client
          toPeer,      \* frames on their way to the peer
          registered,  \* use whose queue is in ws_channels and task in ws_tasks, or 0
          terminated,  \* the id is in terminated_streams
          forgotten,   \* its entry passed the TTL
          handler,     \* what handle_ws_connect of each use is doing
          pumps,       \* running pumps of each use: "out" from_upstream, "in" from_sandbox
          failed,      \* a pump of the use raised
          queue,       \* the asyncio.Queue of each use
          partIn,      \* incoming_binary of each use
          unread,      \* frames of upstream messages from_upstream of each use has to send
          upstream,    \* external: the upstream WebSocket of each use
          peerSent, upstreamGot, upstreamSent, peerGot,  \* messages of each use
          count,       \* bound: messages sent so far
          partOut,     \* external: binary message the peer is putting together
          blamed       \* data for an unknown channel ended the connection

ends == <<peerSent, upstreamGot, upstreamSent, peerGot, count>>
task == <<handler, pumps, failed, queue, partIn, unread>>
known == <<registered, terminated, forgotten>>
chanPeer == <<chan, use, partOut>>
channel == <<chanPeer, toClient, toPeer, known, task, upstream, ends, blamed>>

(* A message is the sequence of the frames that carry it: one for a text
   message, one or two for a binary one. *)
Message(u, k, n) == [i \in 1 .. n |-> [use |-> u, no |-> k, part |-> i, of |-> n]]
Messages == {Message(u, k, n) : u \in Uses, k \in 1 .. MaxMessages, n \in 1 .. 2}
Fresh(u, msgs) == {Message(u, Len(msgs) + 1, n) : n \in 1 .. 2}
Plain(t) == [type |-> t]
Data(f) == [type |-> "data", frame |-> f]
IsData(frame) == frame.type = "data"
Carried(msg) == [i \in DOMAIN msg |-> Data(msg[i])]

ChannelInit ==
    /\ chan = "idle" /\ use = 0 /\ partOut = <<>>
    /\ toClient = <<>> /\ toPeer = <<>>
    /\ registered = 0 /\ terminated = FALSE /\ forgotten = FALSE
    /\ handler = [u \in Uses |-> "none"]
    /\ pumps = [u \in Uses |-> {}]
    /\ failed = [u \in Uses |-> FALSE]
    /\ queue = [u \in Uses |-> <<>>] /\ partIn = [u \in Uses |-> <<>>]
    /\ unread = [u \in Uses |-> <<>>]
    /\ upstream = [u \in Uses |-> "none"]
    /\ peerSent = [u \in Uses |-> <<>>] /\ upstreamGot = peerSent
    /\ upstreamSent = peerSent /\ peerGot = peerSent /\ count = 0
    /\ blamed = FALSE

-----------------------------------------------------------------------------
(* The receive loop. *)
Takes(types) ==
    /\ RxReads
    /\ toClient # <<>> /\ Head(toClient).type \in types
    /\ toClient' = Tail(toClient)

RxReports(t) ==
    /\ RxSends
    /\ toPeer' = IF link = "up" THEN Append(toPeer, Plain(t)) ELSE toPeer

(* ws_connect; "full": other channels have reached the limit. *)
RxWsConnect(full) ==
    /\ Takes({"ws_connect"})
    /\ IF registered # 0 \/ terminated \/ full
       THEN /\ RxReports("error")
            /\ UNCHANGED <<known, task>>
       ELSE /\ registered' = Head(toClient).use
            /\ handler' = [handler EXCEPT ![registered'] = "dial"]
            /\ UNCHANGED <<wire, toPeer, terminated, forgotten, pumps, failed, queue,
                           partIn, unread>>
    /\ UNCHANGED <<chanPeer, upstream, ends, blamed>>

(* Mutant: ids are not remembered. *)
RememberedNever(us) == terminated

(* remember_terminated, for the id of each of these uses. *)
Remembered(us) == terminated \/ us # {}

(* task.cancel(), and the id is taken out of ws_tasks and ws_channels. *)
Cancelled(u) == [handler EXCEPT ![u] = IF @ = "done" THEN @ ELSE "cancelled"]

Evict ==
    /\ handler' = Cancelled(registered)
    /\ registered' = 0 /\ terminated' = Remembered({registered})
    /\ UNCHANGED <<forgotten, pumps, failed, partIn, unread>>

(* Mutant: the channel is given up without a word to the peer. *)
OverflowSilent == Evict /\ UNCHANGED <<wire, toPeer, queue>>

(* QueueFull. *)
Overflow ==
    /\ Evict
    /\ RxReports("error")
    /\ UNCHANGED queue

(* ws_message, ws_close or a binary envelope for a channel. *)
RxWsFrame ==
    /\ registered # 0
    /\ Takes({"data", "ws_close"})
    /\ IF Len(queue[registered]) = QueueLimit
       THEN Overflow
       ELSE /\ queue' = [queue EXCEPT ![registered] = Append(@, Head(toClient))]
            /\ UNCHANGED <<wire, toPeer, known, handler, pumps, failed, partIn, unread>>
    /\ UNCHANGED <<chanPeer, upstream, ends, blamed>>

(* The same without a channel, which is no error for an id that was
   terminated lately, nor for text. *)
NeedsChannel(frame) == IsData(frame) /\ frame.frame.of > 1 /\ ~terminated

RxWsStray ==
    /\ registered = 0
    /\ Takes({"data", "ws_close"})
    /\ ~NeedsChannel(Head(toClient))
    /\ UNCHANGED <<wire, chanPeer, toPeer, known, task, upstream, ends, blamed>>

(* Binary data for an unknown channel: a ProtocolError ends the connection. *)
RxWsUnknown ==
    /\ registered = 0
    /\ RxReads /\ toClient # <<>> /\ NeedsChannel(Head(toClient))
    /\ blamed' = TRUE
    /\ link' = "lost"
    /\ toClient' = <<>> /\ toPeer' = <<>> /\ partOut' = <<>>
    /\ chan' = IF chan \in {"asked", "open"} THEN "lost" ELSE chan
    /\ UNCHANGED <<losses, wedged, use, known, task, upstream, ends>>

(* error: the peer gives the channel up. *)
RxWsError ==
    /\ Takes({"error"})
    /\ IF registered = 0 THEN UNCHANGED <<known, task>> ELSE Evict /\ UNCHANGED queue
    /\ UNCHANGED <<wire, chanPeer, toPeer, upstream, ends, blamed>>

-----------------------------------------------------------------------------
(* handle_ws_connect. *)
At(u, pc) == handler[u] = pc
Goes(u, pc) == handler' = [handler EXCEPT ![u] = pc]
Pumps(u, who) == who \in pumps[u]
Stops(u, who) == pumps' = [pumps EXCEPT ![u] = @ \ {who}]

(* Closing the upstream and the finally branch: each use takes its own
   registration out, and the id is remembered.  What an orphaned from_sandbox
   does with its queue from here on reaches nobody. *)
Closed(us) == [u \in Uses |-> IF u \in us /\ upstream[u] = "open"
                              THEN "closed" ELSE upstream[u]]

Finally(us) ==
    /\ upstream' = Closed(us)
    /\ handler' = [u \in Uses |-> IF u \in us THEN "done" ELSE handler[u]]
    /\ registered' = IF registered \in us THEN 0 ELSE registered
    /\ terminated' = Remembered(us)
    /\ pumps' = [u \in Uses |-> IF u \in us THEN pumps[u] \ {"in"} ELSE pumps[u]]
    /\ queue' = [u \in Uses |-> IF u \in us THEN <<>> ELSE queue[u]]
    /\ partIn' = [u \in Uses |-> IF u \in us THEN <<>> ELSE partIn[u]]
    /\ UNCHANGED <<forgotten, failed, unread>>

Dial(u, ok) ==
    /\ At(u, "dial")
    /\ Goes(u, IF ok THEN "greet" ELSE "error")
    /\ upstream' = IF ok THEN [upstream EXCEPT ![u] = "open"] ELSE upstream
    /\ UNCHANGED <<wire, chanPeer, toClient, toPeer, known, pumps, failed, queue, partIn,
                   unread, ends, blamed>>

(* ws_connected is sent and both pumps are started. *)
Greet(u) ==
    /\ At(u, "greet") /\ link = "up"
    /\ Goes(u, "pump")
    /\ toPeer' = Append(toPeer, Plain("ws_connected"))
    /\ pumps' = [pumps EXCEPT ![u] = {"in", "out"}]
    /\ UNCHANGED <<wire, chanPeer, toClient, known, failed, queue, partIn, unread, upstream,
                   ends, blamed>>

(* from_upstream sends the next frame of what the upstream sent, even after
   the upstream has closed. *)
PumpsOut(u) ==
    /\ Pumps(u, "out") /\ link = "up"
    /\ unread[u] # <<>>
    /\ unread' = [unread EXCEPT ![u] = Tail(@)]
    /\ toPeer' = Append(toPeer, Head(unread[u]))
    /\ UNCHANGED <<wire, chanPeer, toClient, known, handler, pumps, failed, queue, partIn,
                   upstream, ends, blamed>>

(* The iteration over the upstream ends, or raises when it broke; a message
   may be larger than the tunnel takes, before any frame of it is sent. *)
OutEnds(u) ==
    /\ Pumps(u, "out")
    /\ \E raises \in BOOLEAN :
          /\ IF unread[u] = <<>> THEN upstream[u] # "open" /\ raises = (upstream[u] = "broken")
             ELSE Head(unread[u]).frame.part = 1 /\ raises
          /\ failed' = [failed EXCEPT ![u] = @ \/ raises]
    /\ Stops(u, "out")
    /\ UNCHANGED <<wire, chanPeer, toClient, toPeer, known, handler, queue, partIn, unread,
                   upstream, ends, blamed>>

(* Mutant: a binary envelope is passed on as it comes. *)
PumpedPiecewise(u, f) == <<<<f>>, <<>>>>

(* What from_sandbox passes on for a data frame, if anything, and what it
   keeps in incoming_binary. *)
Pumped(u, f) ==
    IF f.of = 1 THEN <<<<f>>, partIn[u]>>
    ELSE IF f.part = f.of THEN <<Append(partIn[u], f), <<>>>>
    ELSE <<<<>>, Append(partIn[u], f)>>

(* from_sandbox takes a frame; one that makes its message too large raises,
   and so does sending to a closed upstream. *)
PumpsIn(u) ==
    /\ Pumps(u, "in") /\ queue[u] # <<>>
    /\ queue' = [queue EXCEPT ![u] = Tail(@)]
    /\ \E large \in BOOLEAN :
       LET frame == Head(queue[u])
           next == IF IsData(frame) THEN Pumped(u, frame.frame) ELSE <<<<>>, partIn[u]>>
           raises == IsData(frame) /\ (large \/ (next[1] # <<>> /\ upstream[u] # "open"))
       IN /\ partIn' = [partIn EXCEPT ![u] = next[2]]
          /\ IF raises \/ ~IsData(frame) THEN Stops(u, "in") ELSE UNCHANGED pumps
          /\ failed' = [failed EXCEPT ![u] = @ \/ raises]
          /\ upstream' = IF ~IsData(frame) /\ upstream[u] = "open"
                         THEN [upstream EXCEPT ![u] = "closed"] ELSE upstream
          /\ upstreamGot' = IF next[1] # <<>> /\ ~raises
                            THEN [upstreamGot EXCEPT ![u] = Append(@, next[1])]
                            ELSE upstreamGot
    /\ UNCHANGED <<wire, chanPeer, toClient, toPeer, known, handler, unread, peerSent,
                   upstreamSent, peerGot, count, blamed>>

(* asyncio.wait returned: the other pump is cancelled; if one raised, the
   connection to the upstream is closed on the way to the error frame. *)
FirstDone(u) ==
    /\ At(u, "pump") /\ pumps[u] # {"in", "out"}
    /\ Goes(u, IF failed[u] THEN "error" ELSE "bye")
    /\ pumps' = [pumps EXCEPT ![u] = {}]
    /\ upstream' = IF failed[u] THEN Closed({u}) ELSE upstream
    /\ UNCHANGED <<wire, chanPeer, toClient, toPeer, known, failed, queue, partIn, unread,
                   ends, blamed>>

(* The last frame of the channel, and the end of handle_ws_connect. *)
Farewell(u) ==
    /\ handler[u] \in {"bye", "error"} /\ link = "up"
    /\ toPeer' = Append(toPeer, Plain(IF At(u, "bye") THEN "ws_close" ELSE "error"))
    /\ Finally({u})
    /\ UNCHANGED <<wire, chanPeer, toClient, ends, blamed>>

(* Cancelled: the upstream is closed, the pumps are left running. *)
CancelEnds(u) ==
    /\ At(u, "cancelled")
    /\ Finally({u})
    /\ UNCHANGED <<wire, chanPeer, toClient, toPeer, ends, blamed>>

(* The clock: the entry of the id passes its TTL, or newer ones replace it.
   No ws_connect is on its way for that long. *)
Forget ==
    /\ terminated
    /\ \A i \in DOMAIN toClient : toClient[i].type # "ws_connect"
    /\ terminated' = FALSE /\ forgotten' = TRUE
    /\ UNCHANGED <<wire, chanPeer, toClient, toPeer, registered, task, upstream, ends, blamed>>

-----------------------------------------------------------------------------
(* external: the upstream. *)
UpstreamSends(u) ==
    /\ upstream[u] = "open" /\ count < MaxMessages
    /\ \E msg \in Fresh(u, upstreamSent[u]) :
          /\ upstreamSent' = [upstreamSent EXCEPT ![u] = Append(@, msg)]
          /\ unread' = [unread EXCEPT ![u] = @ \o Carried(msg)]
    /\ count' = count + 1
    /\ UNCHANGED <<wire, chanPeer, toClient, toPeer, known, handler, pumps, failed, queue,
                   partIn, upstream, peerSent, upstreamGot, peerGot, blamed>>

UpstreamEnds(u, how) ==
    /\ upstream[u] = "open"
    /\ upstream' = [upstream EXCEPT ![u] = how]
    /\ UNCHANGED <<wire, chanPeer, toClient, toPeer, known, task, ends, blamed>>

(* external: the peer.  It uses an id again only after a loss, and within
   the time for which the client remembers it. *)
PeerConnects ==
    /\ link = "up" /\ ~forgotten
    /\ chan \in {"idle", "lost"} /\ use + 1 \in Uses
    /\ chan' = "asked" /\ use' = use + 1
    /\ toClient' = Append(toClient, [type |-> "ws_connect", use |-> use + 1])
    /\ UNCHANGED <<wire, partOut, toPeer, known, task, upstream, ends, blamed>>

PeerSends ==
    /\ link = "up" /\ chan = "open" /\ count < MaxMessages
    /\ \E msg \in Fresh(use, peerSent[use]) :
          /\ peerSent' = [peerSent EXCEPT ![use] = Append(@, msg)]
          /\ toClient' = toClient \o Carried(msg)
    /\ count' = count + 1
    /\ UNCHANGED <<wire, chanPeer, toPeer, known, task, upstream, upstreamGot,
                   upstreamSent, peerGot, blamed>>

PeerEnds(t) ==
    /\ link = "up" /\ chan \in {"asked", "open"}
    /\ chan' = "closed"
    /\ toClient' = Append(toClient, Plain(t))
    /\ UNCHANGED <<wire, use, partOut, toPeer, known, task, upstream, ends, blamed>>

(* The peer puts binary messages together; frames of a channel it does not
   have are dropped. *)
PeerTakes ==
    /\ toPeer # <<>>
    /\ toPeer' = Tail(toPeer)
    /\ LET frame == Head(toPeer)
           whole == Append(partOut, frame.frame)
       IN \/ /\ frame.type = "ws_connected"
             /\ chan' = IF chan = "asked" THEN "open" ELSE chan
             /\ UNCHANGED <<partOut, peerGot>>
          \/ /\ frame.type \in {"ws_close", "error"}
             /\ chan' = IF chan \in {"asked", "open"} THEN "closed" ELSE chan
             /\ UNCHANGED <<partOut, peerGot>>
          \/ /\ IsData(frame) /\ chan = "open"
             /\ IF frame.frame.part < frame.frame.of
                THEN partOut' = whole /\ UNCHANGED peerGot
                ELSE /\ partOut' = <<>>
                     /\ peerGot' = [peerGot EXCEPT ![use] = Append(@, whole)]
             /\ UNCHANGED chan
          \/ IsData(frame) /\ chan # "open" /\ UNCHANGED <<chan, partOut, peerGot>>
    /\ UNCHANGED <<wire, use, toClient, known, task, upstream, peerSent, upstreamGot,
                   upstreamSent, count, blamed>>

-----------------------------------------------------------------------------
(* The connection is lost: the client may still get what came before. *)
ChannelLose ==
    /\ \E n \in 0 .. Len(toClient) : toClient' = SubSeq(toClient, 1, n)
    /\ toPeer' = <<>> /\ partOut' = <<>>
    /\ chan' = IF chan \in {"asked", "open"} THEN "lost" ELSE chan
    /\ UNCHANGED <<use, known, task, upstream, ends, blamed>>

(* The end of _proxy_loop cancels every handler and waits for it. *)
ChannelLeave ==
    /\ toClient' = <<>>
    /\ Finally({u \in Uses : handler[u] \notin {"none", "done"}})
    /\ UNCHANGED <<chanPeer, toPeer, ends, blamed>>

HandlerSteps(u) ==
    \/ \E ok \in BOOLEAN : Dial(u, ok)
    \/ Greet(u) \/ FirstDone(u) \/ Farewell(u) \/ CancelEnds(u)

ReceiveSteps ==
    \/ \E full \in BOOLEAN : RxWsConnect(full)
    \/ RxWsFrame \/ RxWsStray \/ RxWsUnknown \/ RxWsError

ChannelNext ==
    \/ ReceiveSteps
    \/ \E u \in Uses : \/ HandlerSteps(u) \/ PumpsOut(u) \/ OutEnds(u) \/ PumpsIn(u)
                       \/ UpstreamSends(u)
                       \/ \E how \in {"closed", "broken"} : UpstreamEnds(u, how)
    \/ Forget
    \/ PeerConnects \/ PeerSends \/ PeerTakes
    \/ \E t \in {"ws_close", "error"} : PeerEnds(t)

-----------------------------------------------------------------------------
(* Type correctness. *)
ChannelTypeOK ==
    /\ chan \in {"idle", "asked", "open", "closed", "lost"}
    /\ use \in {0} \cup Uses /\ registered \in {0} \cup Uses
    /\ terminated \in BOOLEAN /\ forgotten \in BOOLEAN /\ blamed \in BOOLEAN
    /\ handler \in [Uses -> {"none", "dial", "greet", "pump", "bye", "error",
                             "cancelled", "done"}]
    /\ pumps \in [Uses -> SUBSET {"in", "out"}]
    /\ failed \in [Uses -> BOOLEAN]
    /\ upstream \in [Uses -> {"none", "open", "closed", "broken"}]
    /\ \A u \in Uses : Len(queue[u]) <= QueueLimit /\ Len(partIn[u]) <= 1

(***************************************************************************)
(* The tunnel relays what a FifoRelay relays, in both directions: every    *)
(* message whole, in order and once.  Orphaned pumps of a cancelled        *)
(* handler, which still read the queue and still send, and a queue that    *)
(* was full in the middle of a message make no difference, and neither     *)
(* direction gets what belongs to an earlier use of the id.                *)
(***************************************************************************)
Inward == INSTANCE FifoRelay WITH Chans <- Uses, Msgs <- Messages,
                                  sent <- peerSent, got <- upstreamGot
Outward == INSTANCE FifoRelay WITH Chans <- Uses, Msgs <- Messages,
                                   sent <- upstreamSent, got <- peerGot
Relayed == Inward!Spec /\ Outward!Spec

(***************************************************************************)
(* A peer that sends data before it has read that the channel is over is   *)
(* not blamed for it: the connection, which carries every other request,   *)
(* ends for an unknown channel only when the id was forgotten.             *)
(***************************************************************************)
NoFalseUnknown == blamed => forgotten

(***************************************************************************)
(* A message does not stay in the tunnel: it is relayed, or the channel    *)
(* ends for the one who sent it.  (The upstream may go on sending, but not *)
(* for ever: MaxMessages.)                                                 *)
(***************************************************************************)
MessagesSettle ==
    /\ []<>(chan # "open" \/ upstreamGot[use] = peerSent[use] \/ wedged)
    /\ \A u \in Uses : []<>(upstream[u] # "open" \/ peerGot[u] = upstreamSent[u] \/ wedged)
=============================================================================
