--------------------------- MODULE TunnelResponse ---------------------------
(***************************************************************************)
(* The response half of one HTTP request through the tunnel                *)
(* (python/yr_sandbox/tunnel_client.py): send_streaming_response, the      *)
(* window and error handlers of the receive loop, the replies to a         *)
(* replayed request, and what _connect_loop does to the response states.   *)
(*                                                                         *)
(* Two coroutines share the response state: the sending task, and the      *)
(* receive loop, which after a reconnect sends the unacknowledged chunks   *)
(* again from inside its window handler.  Both take credits from one queue *)
(* and both take send_lock; only the receive loop can fill the queue.      *)
(*                                                                         *)
(* The peer is external and mirrors the client's own request side: it      *)
(* grants its free room with ack_offset = consumed when it sees the begin  *)
(* frame, one credit per chunk it consumes, re-acknowledges duplicates,    *)
(* closes the connection on a gap, and replays its request frame after a   *)
(* reconnect.  All chunks have length 1; the list of the unacknowledged    *)
(* ones is always in the order of their offsets, so it is a set here.      *)
(***************************************************************************)
EXTENDS Integers, Sequences

CONSTANTS Chunks,         \* number of chunks of the response body
          Window,         \* negotiated_stream_window
          Forms,          \* how the request may come: http_req, http_req_begin
          MaxDrops        \* bound: connection losses

ASSUME ConstantsAssumption ==
    /\ Chunks \in Nat \ {0}
    /\ Window \in Nat \ {0}
    /\ Forms # {} /\ Forms \subseteq {"http_req", "http_req_begin"}
    /\ MaxDrops \in Nat

VARIABLES form,     \* the frame the request came in
          link,     \* the WebSocket: "up", "closing" (lost, not yet noticed), "down"
          drops,    \* bound: connection losses so far
          inbox,    \* frames from the peer, not yet read by the receive loop
          outbox,   \* frames to the peer, not yet read by it
          rx,       \* the receive loop: "ready", or what it waits for
          idx,      \* the chunk it resends, or waits to resend
          task,     \* where the sending task is
          kept,     \* the id is in response_credits
          resp,     \* its response_state
          lock,     \* holder of response_state["send_lock"]
          replies,  \* begin frames handle_http_req has scheduled
          peer      \* external: the peer's side

conn == <<form, link, drops>>
loop == <<rx, idx>>
state == <<kept, resp, lock>>
vars == <<conn, inbox, outbox, loop, task, state, replies, peer>>

BeginFrame == [type |-> "http_resp_begin"]
DataFrame(off) == [type |-> "data", offset |-> off]
EndFrame == [type |-> "http_resp_end"]
ErrorFrame == [type |-> "error"]
OtherFrame == [type |-> "other"]  \* the window of the request's own body
Request == [type |-> "request"]
Grant(n, ack) == [type |-> "window", credits |-> n, ack_offset |-> ack, complete |-> FALSE]
Complete == [type |-> "window", credits |-> 0, ack_offset |-> Chunks, complete |-> TRUE]

Least(a, b) == IF a <= b THEN a ELSE b

(* The response_state send_streaming_response registers. *)
NewResponse == [credits |-> 0, unacked |-> {}, next |-> 0, ready |-> TRUE, ended |-> FALSE]

Init ==
    /\ form \in Forms
    /\ link = "up"
    /\ drops = 0
    /\ inbox = <<>>
    /\ outbox = <<>>
    /\ rx = "ready"
    /\ idx = 0
    /\ task = "upstream"
    /\ kept = FALSE
    /\ resp = NewResponse
    /\ lock = "free"
    /\ replies = 0
    /\ peer = [state |-> "open", begun |-> FALSE, received |-> 0, consumed |-> 0]

-----------------------------------------------------------------------------
(* The sending task puts a frame on the connection; it waits while there   *)
(* is none.                                                                *)
TaskSends(f) == link = "up" /\ outbox' = Append(outbox, f)

(* The upstream's headers have arrived: the response state is registered. *)
Register ==
    /\ task = "upstream"
    /\ kept' = TRUE
    /\ resp' = NewResponse
    /\ lock' = "free"
    /\ task' = "begin"
    /\ UNCHANGED <<conn, inbox, outbox, loop, replies, peer>>

SendBegin ==
    /\ task = "begin"
    /\ TaskSends(BeginFrame)
    /\ task' = "ready"
    /\ UNCHANGED <<conn, inbox, loop, state, replies, peer>>

(***************************************************************************)
(* A credit is there: the chunk is numbered, kept until it is acknowledged *)
(* and, with the lock free, about to be sent; no other coroutine runs in   *)
(* between.                                                                *)
(***************************************************************************)
NumberChunk ==
    /\ resp.credits > 0
    /\ resp' = [resp EXCEPT !.credits = @ - 1, !.next = @ + 1,
                            !.unacked = @ \cup {resp.next}]
    /\ IF lock = "free" THEN lock' = "task" /\ task' = "send"
       ELSE task' = "lock" /\ UNCHANGED lock

(* The next chunk of the upstream, once the response is ready. *)
NextChunk ==
    /\ task = "ready"
    /\ resp.next < Chunks
    /\ resp.ready
    /\ \/ NumberChunk
       \/ resp.credits = 0 /\ task' = "credit" /\ UNCHANGED <<resp, lock>>
    /\ UNCHANGED <<conn, inbox, outbox, loop, kept, replies, peer>>

(* credit_queue.get() returns, whatever has become of ready meanwhile. *)
TakeCredit ==
    /\ task = "credit"
    /\ NumberChunk
    /\ UNCHANGED <<conn, inbox, outbox, loop, kept, replies, peer>>

(* The receive loop has released send_lock. *)
TakeLock ==
    /\ task = "lock"
    /\ lock = "free"
    /\ lock' = "task"
    /\ task' = "send"
    /\ UNCHANGED <<conn, inbox, outbox, loop, kept, resp, replies, peer>>

(* The upstream's body is over. *)
BodyEnds ==
    /\ task = "ready"
    /\ resp.next = Chunks
    /\ resp' = [resp EXCEPT !.ended = TRUE]
    /\ task' = "end"
    /\ UNCHANGED <<conn, inbox, outbox, loop, kept, lock, replies, peer>>

SendChunk ==
    /\ task = "send"
    /\ TaskSends(DataFrame(resp.next - 1))
    /\ lock' = "free"
    /\ task' = "ready"
    /\ UNCHANGED <<conn, inbox, loop, kept, resp, replies, peer>>

(* http_resp_end, sent without send_lock and without waiting for ready. *)
SendEnd ==
    /\ task = "end"
    /\ TaskSends(EndFrame)
    /\ task' = "done"
    /\ UNCHANGED <<conn, inbox, loop, state, replies, peer>>

(* The upstream's body breaks off; the response state stays registered. *)
BodyBreaks ==
    /\ task = "ready"
    /\ task' = "fail"
    /\ UNCHANGED <<conn, inbox, outbox, loop, state, replies, peer>>

(* Mutant: the task ends without telling the peer of the failure. *)
SendErrorUnsent ==
    /\ task = "fail"
    /\ link = "up"
    /\ task' = "done"
    /\ UNCHANGED <<conn, inbox, outbox, loop, state, replies, peer>>

SendError ==
    /\ task = "fail"
    /\ TaskSends(ErrorFrame)
    /\ task' = "done"
    /\ UNCHANGED <<conn, inbox, loop, state, replies, peer>>

(* A begin frame handle_http_req scheduled for a replayed http_req. *)
SendReply ==
    /\ replies > 0
    /\ TaskSends(BeginFrame)
    /\ replies' = replies - 1
    /\ UNCHANGED <<conn, inbox, loop, task, state, peer>>

-----------------------------------------------------------------------------
(* The receive loop takes the next frame. *)
Takes(type) ==
    /\ rx = "ready"
    /\ link \in {"up", "closing"}
    /\ inbox # <<>>
    /\ Head(inbox).type = type
    /\ inbox' = Tail(inbox)

(* send_frame from the receive loop: on a lost connection it never returns. *)
RxSend(f) ==
    IF link = "up" THEN outbox' = Append(outbox, f) /\ UNCHANGED rx
    ELSE rx' = "sendwait" /\ UNCHANGED outbox

(***************************************************************************)
(* A replayed request.  A streaming request that is still in               *)
(* stream_requests is answered with its own window; otherwise a registered *)
(* response begins again, from a task of its own for http_req.             *)
(***************************************************************************)
RxRequest ==
    /\ Takes("request")
    /\ IF form = "http_req_begin"
       THEN /\ IF task # "done" THEN RxSend(OtherFrame)
               ELSE IF kept THEN RxSend(BeginFrame)
               ELSE UNCHANGED <<outbox, rx>>
            /\ UNCHANGED replies
       ELSE /\ replies' = IF kept THEN replies + 1 ELSE replies
            /\ UNCHANGED <<outbox, rx>>
    /\ UNCHANGED <<conn, idx, task, state, peer>>

(* Mutant: the chunk the acknowledgement ends before is dropped too. *)
StillNeededLess(off, ack) == off > ack

(* The chunk at off is not covered by ack_offset. *)
StillNeeded(off, ack) == off + 1 > ack

(* put_nowait of n credits into the bounded credit queue. *)
CreditsAfter(n) == Least(Window, resp.credits + Least(n, Window))

(***************************************************************************)
(* The resend loop of the window handler, with send_lock held, from chunk  *)
(* first of the unacknowledged ones of r up to its next suspension: a      *)
(* send, or a wait for a credit.  Nobody but the receive loop puts credits *)
(* into the queue, so that wait has no end.                                *)
(***************************************************************************)
ResumeFrom(r, first) ==
    LET rest == {off \in r.unacked : off >= first} IN
    \/ /\ \E off \in rest : (\A other \in rest : off <= other) /\ idx' = off
       /\ lock' = "rx"
       /\ \/ r.credits > 0 /\ rx' = "send" /\ resp' = [r EXCEPT !.credits = @ - 1]
          \/ r.credits = 0 /\ rx' = "credit" /\ resp' = r
    \/ /\ rest = {}
       /\ UNCHANGED idx
       /\ \/ r.ended /\ rx' = "endsend" /\ lock' = "rx" /\ resp' = r
          \/ ~r.ended /\ rx' = "ready" /\ lock' = "free" /\ resp' = [r EXCEPT !.ready = TRUE]

(***************************************************************************)
(* window: acknowledged chunks are dropped and credits added; the first    *)
(* window after a reconnect goes on to resend what is left.                *)
(***************************************************************************)
RxWindow ==
    /\ Takes("window")
    /\ LET m == Head(inbox)
           left == {off \in resp.unacked : StillNeeded(off, m.ack_offset)}
           r == [resp EXCEPT !.unacked = left, !.credits = CreditsAfter(m.credits)]
       IN IF ~kept THEN UNCHANGED <<loop, state>>
          ELSE IF m.complete
          THEN /\ kept' = FALSE
               /\ resp' = [resp EXCEPT !.unacked = left]
               /\ UNCHANGED <<loop, lock>>
          ELSE /\ UNCHANGED kept
               /\ IF resp.ready THEN resp' = r /\ UNCHANGED <<loop, lock>>
                  ELSE IF lock = "free" THEN ResumeFrom(r, 0)
                  ELSE resp' = r /\ rx' = "lock" /\ UNCHANGED <<idx, lock>>
    /\ UNCHANGED <<conn, outbox, task, replies, peer>>

(* The task has released send_lock. *)
RxLock ==
    /\ rx = "lock"
    /\ lock = "free"
    /\ ResumeFrom(resp, 0)
    /\ UNCHANGED <<conn, inbox, outbox, task, kept, replies, peer>>

(* send_binary from the receive loop: on a lost connection it never returns. *)
RxResend ==
    /\ rx = "send"
    /\ link = "up"
    /\ outbox' = Append(outbox, DataFrame(idx))
    /\ ResumeFrom(resp, idx + 1)
    /\ UNCHANGED <<conn, inbox, task, kept, replies, peer>>

(* Everything is resent and the body had ended: the end frame, then ready. *)
RxEndAgain ==
    /\ rx = "endsend"
    /\ link = "up"
    /\ outbox' = Append(outbox, EndFrame)
    /\ resp' = [resp EXCEPT !.ready = TRUE]
    /\ lock' = "free"
    /\ rx' = "ready"
    /\ UNCHANGED <<conn, inbox, idx, task, kept, replies, peer>>

(* error from the peer: the response is forgotten, its task cancelled. *)
RxError ==
    /\ Takes("error")
    /\ kept' = FALSE
    /\ task' = "done"
    /\ lock' = IF lock = "task" THEN "free" ELSE lock
    /\ UNCHANGED <<conn, outbox, loop, resp, replies, peer>>

-----------------------------------------------------------------------------
(* The connection is lost with everything on its way to the peer. *)
Lose ==
    /\ link' = "closing"
    /\ outbox' = <<>>
    /\ \E k \in 0 .. Len(inbox) : inbox' = SubSeq(inbox, 1, k)

Drop ==
    /\ link = "up"
    /\ drops < MaxDrops
    /\ drops' = drops + 1
    /\ Lose
    /\ UNCHANGED <<form, loop, task, state, replies, peer>>

(* _proxy_loop returns: every registered response is marked not ready. *)
LoopExits ==
    /\ link = "closing"
    /\ rx = "ready"
    /\ inbox = <<>>
    /\ link' = "down"
    /\ resp' = IF kept THEN [resp EXCEPT !.ready = FALSE] ELSE resp
    /\ UNCHANGED <<form, drops, inbox, outbox, loop, task, kept, lock, replies, peer>>

(* _connect_loop connects again, and the peer replays its request. *)
Reconnect ==
    /\ link = "down"
    /\ link' = "up"
    /\ inbox' = IF peer.state = "open" THEN <<Request>> ELSE <<>>
    /\ peer' = [peer EXCEPT !.begun = FALSE]
    /\ UNCHANGED <<form, drops, outbox, loop, task, state, replies>>

-----------------------------------------------------------------------------
(* external: the peer reads the next frame of the connection. *)
Reads(type) ==
    /\ link = "up"
    /\ outbox # <<>>
    /\ Head(outbox).type = type

Room == Window - (peer.received - peer.consumed)

(* external: the response begins, or begins again: the free room is granted. *)
PeerBegin ==
    /\ Reads("http_resp_begin")
    /\ outbox' = Tail(outbox)
    /\ IF peer.state = "open" /\ ~peer.begun
       THEN /\ peer' = [peer EXCEPT !.begun = TRUE]
            /\ inbox' = Append(inbox, Grant(Room, peer.consumed))
       ELSE UNCHANGED <<peer, inbox>>
    /\ UNCHANGED <<conn, loop, task, state, replies>>

(* external: a chunk: stored, re-acknowledged, or refused. *)
PeerData ==
    /\ Reads("data")
    /\ LET off == Head(outbox).offset IN
       \/ /\ peer.state # "open"
          /\ outbox' = Tail(outbox)
          /\ UNCHANGED <<conn, inbox, peer>>
       \/ /\ peer.state = "open" /\ off < peer.received
          /\ outbox' = Tail(outbox)
          /\ inbox' = Append(inbox, Grant(0, peer.received))
          /\ UNCHANGED <<conn, peer>>
       \/ /\ peer.state = "open" /\ off = peer.received
          /\ outbox' = Tail(outbox)
          /\ IF Room > 0
             THEN /\ peer' = [peer EXCEPT !.received = @ + 1]
                  /\ UNCHANGED inbox
             ELSE /\ peer' = [peer EXCEPT !.state = "failed"]
                  /\ inbox' = Append(inbox, ErrorFrame)
          /\ UNCHANGED conn
       \/ /\ peer.state = "open" /\ off > peer.received
          /\ Lose
          /\ UNCHANGED <<form, drops, peer>>
    /\ UNCHANGED <<loop, task, state, replies>>

(* external: a chunk is passed on, its credit goes back. *)
PeerConsumes ==
    /\ link = "up"
    /\ peer.state = "open"
    /\ peer.consumed < peer.received
    /\ peer' = [peer EXCEPT !.consumed = @ + 1]
    /\ inbox' = Append(inbox, Grant(1, peer.consumed + 1))
    /\ UNCHANGED <<conn, outbox, loop, task, state, replies>>

(* external: the end of the body, complete or cut short. *)
PeerEnd ==
    /\ Reads("http_resp_end")
    /\ outbox' = Tail(outbox)
    /\ IF peer.state # "open" THEN UNCHANGED <<peer, inbox>>
       ELSE IF peer.received = Chunks
       THEN /\ peer' = [peer EXCEPT !.state = "complete"]
            /\ inbox' = Append(inbox, Complete)
       ELSE /\ peer' = [peer EXCEPT !.state = "short"]
            /\ UNCHANGED inbox
    /\ UNCHANGED <<conn, loop, task, state, replies>>

PeerOther ==
    /\ Reads("error") \/ Reads("other")
    /\ outbox' = Tail(outbox)
    /\ peer' = IF peer.state = "open" /\ Head(outbox).type = "error"
               THEN [peer EXCEPT !.state = "failed"] ELSE peer
    /\ UNCHANGED <<conn, inbox, loop, task, state, replies>>

(* external: the sandbox's caller goes away. *)
PeerCancels ==
    /\ link = "up"
    /\ peer.state = "open"
    /\ peer' = [peer EXCEPT !.state = "cancelled"]
    /\ inbox' = Append(inbox, ErrorFrame)
    /\ UNCHANGED <<conn, outbox, loop, task, state, replies>>

-----------------------------------------------------------------------------
TaskStep ==
    \/ Register
    \/ SendBegin
    \/ NextChunk
    \/ TakeCredit
    \/ TakeLock
    \/ BodyEnds
    \/ SendChunk
    \/ SendEnd
    \/ SendError

RxStep ==
    \/ RxRequest
    \/ RxWindow
    \/ RxLock
    \/ RxResend
    \/ RxEndAgain
    \/ RxError
    \/ LoopExits

PeerReads == PeerBegin \/ PeerData \/ PeerEnd \/ PeerOther

Next ==
    \/ TaskStep
    \/ SendReply
    \/ BodyBreaks
    \/ RxStep
    \/ Drop
    \/ Reconnect
    \/ PeerReads
    \/ PeerConsumes
    \/ PeerCancels

(***************************************************************************)
(* The event loop runs what can run, the upstream goes on, the reconnect   *)
(* loop retries for ever, the peer reads and consumes.                     *)
(***************************************************************************)
Fairness ==
    /\ WF_vars(TaskStep)
    /\ WF_vars(SendReply)
    /\ WF_vars(RxStep)
    /\ WF_vars(Reconnect)
    /\ WF_vars(PeerReads)
    /\ WF_vars(PeerConsumes)

Spec == Init /\ [][Next]_vars
FairSpec == Spec /\ Fairness

-----------------------------------------------------------------------------
(* Type correctness; the credit queue never holds more than the window. *)
TypeOK ==
    /\ form \in Forms
    /\ link \in {"up", "closing", "down"}
    /\ drops \in 0 .. MaxDrops
    /\ rx \in {"ready", "lock", "credit", "send", "endsend", "sendwait"}
    /\ idx \in 0 .. Chunks
    /\ task \in {"upstream", "begin", "ready", "credit", "lock", "send", "end", "fail", "done"}
    /\ kept \in BOOLEAN
    /\ resp.credits \in 0 .. Window
    /\ resp.unacked \subseteq 0 .. resp.next - 1
    /\ resp.next \in 0 .. Chunks
    /\ resp.ready \in BOOLEAN /\ resp.ended \in BOOLEAN
    /\ lock \in {"free", "task", "rx"}
    /\ replies \in Nat
    /\ peer.state \in {"open", "complete", "short", "failed", "cancelled"}
    /\ 0 <= peer.consumed /\ peer.consumed <= peer.received /\ peer.received <= Chunks

(***************************************************************************)
(* Nothing the peer has not received is forgotten, however the connection  *)
(* breaks: while the stream is open, the chunks from peer.received on are  *)
(* all kept for a resend.                                                  *)
(***************************************************************************)
RetainsUnreceived ==
    kept /\ peer.state = "open" =>
        peer.received .. resp.next - 1 \subseteq resp.unacked

(* The error frame of a failed upstream is on its way to the peer. *)
ErrorUnderWay == \E i \in DOMAIN outbox : outbox[i] = ErrorFrame

(***************************************************************************)
(* The response reaches an end at the peer, whole or with an error,        *)
(* however often the connection is lost, but for four ways the code leaves *)
(* the peer waiting or with a part of the body: the receive loop blocked   *)
(* for ever; the begin frame of a streaming request lost and never sent    *)
(* again; http_resp_end sent, after a loss, before the lost chunks are     *)
(* sent again; and the error frame of an upstream failure lost on its way, *)
(* which no replay of the request brings back.                             *)
(***************************************************************************)
ResponseEnds ==
    \/ <>(peer.state \in {"complete", "failed", "cancelled"})
    \/ <>[](rx # "ready")
    \/ form = "http_req_begin" /\ <>[](kept /\ ~peer.begun)
    \/ <>(peer.state = "short" /\ drops > 0)
    \/ <>(ErrorUnderWay /\ <>(~ErrorUnderWay /\ peer.state = "open"))
=============================================================================
