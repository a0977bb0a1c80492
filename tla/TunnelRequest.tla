--------------------------- MODULE TunnelRequest ----------------------------
(***************************************************************************)
(* The request-body half of one streaming HTTP request through the tunnel  *)
(* (python/yr_sandbox/tunnel_client.py): the receive loop of _proxy_loop,  *)
(* handle_http_req_begin, the binary data and http_req_end handlers,       *)
(* stream_http_response with its request_content generator, and what       *)
(* _connect_loop keeps across reconnects.                                  *)
(*                                                                         *)
(* The client runs on one event loop: a handler is atomic between awaits.  *)
(* The receive loop is the only reader of frames, and it awaits two things *)
(* that may block it: send_frame, which waits for a reconnect only the     *)
(* return of this same loop can bring, and queue.put(None), which waits    *)
(* for the upstream task to take a chunk.                                  *)
(*                                                                         *)
(* The peer (the sandbox's RRT tunnel server) is external.  It is the      *)
(* mirror of the client's own response sender: one credit per data frame,  *)
(* at most Window credits, a chunk kept until ack_offset covers it, and    *)
(* after a reconnect the begin frame again and the kept chunks from the    *)
(* last ack, as new credits arrive.  All chunks have length 1.             *)
(***************************************************************************)
EXTENDS Integers, Sequences

CONSTANTS Bodies,         \* possible numbers of chunks of the request body
          Window,         \* negotiated_stream_window
          MaxBody,        \* negotiated_max_body_size, in chunks
          MaxDrops        \* bound: connection losses

ASSUME ConstantsAssumption ==
    /\ Bodies # {} /\ Bodies \subseteq Nat \ {0}
    /\ Window \in Nat \ {0}
    /\ MaxBody \in Nat
    /\ MaxDrops \in Nat

VARIABLES body,        \* number of chunks of the request body
          declared,    \* whether the peer declares it as content_length
          link,        \* the WebSocket: "up", "closing" (lost, not yet noticed), "down"
          drops,       \* bound: connection losses so far
          inbox,       \* frames from the peer, not yet read by the receive loop
          outbox,      \* frames to the peer, not yet read by it
          rx,          \* the receive loop: "ready", or what it is blocked in
          live,        \* the id is in stream_requests
          req,         \* its request_state
          task,        \* the stream_http_response task
          responded,   \* the id is in response_credits
          terminated,  \* the id in terminated_streams: "no", "yes", "forgotten"
          starts,      \* upstream requests started for the id
          got,         \* body chunks the present upstream request received
          peer,        \* external: the peer's side of the stream
          fault        \* history: the first complaint about the peer

conn == <<body, declared, link, drops>>
stream == <<live, req, responded, terminated, starts>>
vars == <<conn, inbox, outbox, rx, stream, task, got, peer, fault>>

End == -1  \* the None that ends the queue: no chunk has this offset

Begin == [type |-> "begin"]
Data(off, eob) == [type |-> "data", offset |-> off, end_of_body |-> eob]
EndFrame == [type |-> "end"]
Error == [type |-> "error"]
Response == [type |-> "response"]
WindowFrame(c, ack) == [type |-> "window", credits |-> c, ack_offset |-> ack]

NewRequest == [queue |-> <<>>, received |-> 0, consumed |-> 0, pending |-> 0,
               ended |-> FALSE]

Max0(n) == IF n > 0 THEN n ELSE 0
Least(a, b) == IF a <= b THEN a ELSE b
Most(a, b) == IF a >= b THEN a ELSE b

Init ==
    /\ body \in Bodies
    /\ declared \in BOOLEAN
    /\ link = "up"
    /\ drops = 0
    /\ inbox = <<>>
    /\ outbox = <<>>
    /\ rx = "ready"
    /\ live = FALSE
    /\ req = NewRequest
    /\ task = "none"
    /\ responded = FALSE
    /\ terminated = "no"
    /\ starts = 0
    /\ got = <<>>
    /\ \E flag \in BOOLEAN :  \* ends the body with a flag, or with http_req_end
        peer = [state |-> "idle", next |-> 0, acked |-> 0, credits |-> 0,
                flagsEnd |-> flag, endSent |-> FALSE]
    /\ fault = "none"

-----------------------------------------------------------------------------
(***************************************************************************)
(* The receive loop takes the next frame.  After a loss it still reads the *)
(* frames that had arrived before.                                         *)
(***************************************************************************)
Takes(type) ==
    /\ rx = "ready"
    /\ link \in {"up", "closing"}
    /\ inbox # <<>>
    /\ Head(inbox).type = type
    /\ inbox' = Tail(inbox)

(***************************************************************************)
(* send_frame from the receive loop.  On a lost connection it waits for    *)
(* ws_ready, which is set only after the receive loop has returned.        *)
(***************************************************************************)
RxSend(f) ==
    IF link = "up" THEN outbox' = Append(outbox, f) /\ UNCHANGED rx
    ELSE rx' = "sendwait" /\ UNCHANGED outbox

RxSilent == UNCHANGED <<outbox, rx>>

(***************************************************************************)
(* ProtocolError leaves _proxy_loop; _connect_loop closes the connection   *)
(* and connects again.                                                     *)
(***************************************************************************)
ProtocolError(type) ==
    /\ rx = "ready"
    /\ link \in {"up", "closing"}
    /\ inbox # <<>>
    /\ Head(inbox).type = type
    /\ inbox' = <<>>
    /\ outbox' = <<>>
    /\ link' = "down"
    /\ UNCHANGED <<body, declared, drops, rx, stream, task, got, peer>>

Complain(what) == fault' = IF fault = "none" THEN what ELSE fault

(***************************************************************************)
(* An error reply that also cancels the stream: the frame first, then      *)
(* task.cancel(), stream_requests.pop and remember_terminated, unless the  *)
(* send never returns.                                                     *)
(***************************************************************************)
RejectStream ==
    /\ RxSend(Error)
    /\ IF link = "up"
       THEN live' = FALSE /\ terminated' = "yes" /\ task' = "done"
       ELSE UNCHANGED <<live, terminated, task>>
    /\ UNCHANGED <<req, responded, starts, got>>

(* The room a replayed begin is told of. *)
ResumeCredits == Max0(Window - Len(req.queue) - req.pending)

(***************************************************************************)
(* http_req_begin: a live stream is told its window again, a stream whose  *)
(* response has begun gets the response again, anything else is a new      *)
(* upstream request, unless its declared length is beyond the limit or     *)
(* other requests have used up max_inflight (crowded).                     *)
(***************************************************************************)
RxBegin ==
    /\ Takes("begin")
    /\ IF live
       THEN /\ RxSend(WindowFrame(ResumeCredits, req.consumed))
            /\ UNCHANGED <<stream, task, got>>
       ELSE IF responded
       THEN /\ RxSend(Response)
            /\ UNCHANGED <<stream, task, got>>
       ELSE \E crowded \in BOOLEAN :
            IF crowded \/ (declared /\ body > MaxBody)
            THEN /\ RxSend(Error)
                 /\ UNCHANGED <<stream, task, got>>
            ELSE /\ live' = TRUE
                 /\ req' = NewRequest
                 /\ task' = "get"
                 /\ starts' = starts + 1
                 /\ got' = <<>>
                 /\ RxSend(WindowFrame(Window, 0))
                 /\ UNCHANGED <<responded, terminated>>
    /\ UNCHANGED <<conn, peer, fault>>

(***************************************************************************)
(* await queue.put(None): the loop goes on only when there is room.        *)
(***************************************************************************)
PutEnd(r) ==
    IF Len(r.queue) < Window
    THEN req' = [r EXCEPT !.queue = Append(@, End), !.ended = TRUE] /\ UNCHANGED rx
    ELSE req' = [r EXCEPT !.ended = TRUE] /\ rx' = "putwait"

(* Data or end for a stream that has just ended is absorbed. *)
RxAbsorb ==
    /\ ~live /\ terminated = "yes"
    /\ Takes("data") \/ Takes("end")
    /\ RxSilent
    /\ UNCHANGED <<conn, stream, task, got, peer, fault>>

(***************************************************************************)
(* remember_terminated and is_terminated drop entries by age and number.   *)
(* Bound: only while at most MaxDrops upstream requests have started.      *)
(***************************************************************************)
Forget ==
    /\ starts <= MaxDrops
    /\ terminated = "yes"
    /\ terminated' = "forgotten"
    /\ UNCHANGED <<conn, inbox, outbox, rx, live, req, responded, starts, task, got,
                   peer, fault>>

RxUnknownStream ==
    /\ ~live /\ terminated # "yes"
    /\ ProtocolError("data") \/ ProtocolError("end")
    /\ Complain(IF terminated = "no" THEN "unknown" ELSE "forgotten")

(* Mutant: the acknowledgement of a duplicate is one chunk ahead. *)
RxDuplicateAhead ==
    /\ live
    /\ Takes("data")
    /\ Head(inbox).offset < req.received
    /\ RxSend(WindowFrame(0, req.received + 1))
    /\ UNCHANGED <<conn, stream, task, got, peer, fault>>

(* A chunk that was received before: acknowledged again, without credit. *)
RxDuplicate ==
    /\ live
    /\ Takes("data")
    /\ Head(inbox).offset < req.received
    /\ RxSend(WindowFrame(0, req.received))
    /\ UNCHANGED <<conn, stream, task, got, peer, fault>>

RxGap ==
    /\ live
    /\ ProtocolError("data")
    /\ Head(inbox).offset > req.received
    /\ Complain("gap")

(* The chunk continues the body. *)
NextInOrder == Head(inbox).offset = req.received

(* Mutant: the limit is compared with where the chunk starts. *)
WithinLimitStart == Head(inbox).offset <= MaxBody

(* The chunk ends within negotiated_max_body_size. *)
WithinLimit == Head(inbox).offset + 1 <= MaxBody

(* After the end of the body, or beyond the body limit or the window. *)
RxExcess ==
    /\ live
    /\ Takes("data")
    /\ NextInOrder
    /\ \/ /\ req.ended
          /\ RxSilent
          /\ UNCHANGED <<stream, task, got, fault>>
       \/ /\ ~req.ended /\ ~WithinLimit
          /\ RejectStream
          /\ UNCHANGED fault
       \/ /\ ~req.ended /\ WithinLimit
          /\ Len(req.queue) = Window
          /\ RejectStream
          /\ Complain("overflow")
    /\ UNCHANGED <<conn, peer>>

RxData ==
    /\ live
    /\ Takes("data")
    /\ NextInOrder
    /\ ~req.ended
    /\ WithinLimit
    /\ Len(req.queue) < Window
    /\ LET m == Head(inbox)
           r == [req EXCEPT !.received = m.offset + 1, !.queue = Append(@, m.offset)]
       IN IF m.end_of_body THEN PutEnd(r) ELSE req' = r /\ UNCHANGED rx
    /\ UNCHANGED <<conn, outbox, live, responded, terminated, starts, task, got,
                   peer, fault>>

RxEnd ==
    /\ live
    /\ Takes("end")
    /\ IF req.ended
       THEN RxSilent /\ UNCHANGED <<stream, task, got>>
       ELSE IF declared /\ body # req.received
       THEN RejectStream
       ELSE /\ PutEnd(req)
            /\ UNCHANGED <<outbox, live, responded, terminated, starts, task, got>>
    /\ UNCHANGED <<conn, peer, fault>>

(* The upstream task made room: the put completes. *)
PutCompletes ==
    /\ rx = "putwait"
    /\ Len(req.queue) < Window
    /\ req' = [req EXCEPT !.queue = Append(@, End)]
    /\ rx' = "ready"
    /\ UNCHANGED <<conn, inbox, outbox, live, responded, terminated, starts, task, got,
                   peer, fault>>

(* error from the peer: the stream is forgotten and its task cancelled. *)
RxError ==
    /\ Takes("error")
    /\ RxSilent
    /\ responded' = FALSE
    /\ live' = FALSE
    /\ terminated' = IF live THEN "yes" ELSE terminated
    /\ task' = IF live THEN "done" ELSE task
    /\ UNCHANGED <<conn, req, starts, got, peer, fault>>

-----------------------------------------------------------------------------
(***************************************************************************)
(* request_content: take the next chunk and hand it to the upstream, or    *)
(* end the upstream body.                                                  *)
(***************************************************************************)
TaskGet ==
    /\ task = "get"
    /\ req.queue # <<>>
    /\ IF Head(req.queue) = End
       THEN /\ req' = [req EXCEPT !.queue = Tail(@)]
            /\ task' = "upstream"
            /\ UNCHANGED got
       ELSE /\ req' = [req EXCEPT !.queue = Tail(@), !.consumed = @ + 1, !.pending = @ + 1]
            /\ got' = Append(got, Head(req.queue))
            /\ task' = "credit"
    /\ UNCHANGED <<conn, inbox, outbox, rx, live, responded, terminated, starts, peer, fault>>

(* Mutant: the credit of a consumed chunk is not given back. *)
TaskCreditKept ==
    /\ task = "credit"
    /\ link = "up"
    /\ req' = [req EXCEPT !.pending = @ - 1]
    /\ task' = "get"
    /\ UNCHANGED <<conn, inbox, outbox, rx, live, responded, terminated, starts, got, peer, fault>>

(* The chunk is written upstream: its credit goes back to the peer. *)
TaskCredit ==
    /\ task = "credit"
    /\ link = "up"
    /\ outbox' = Append(outbox, WindowFrame(1, req.consumed))
    /\ req' = [req EXCEPT !.pending = @ - 1]
    /\ task' = "get"
    /\ UNCHANGED <<conn, inbox, rx, live, responded, terminated, starts, got, peer, fault>>

(* The upstream's response is there: send_streaming_response. *)
ResponseBegins ==
    /\ responded' = TRUE
    /\ task' = "respond"
    /\ UNCHANGED <<conn, inbox, outbox, rx, live, req, terminated, starts, got, peer, fault>>

(* The upstream answers the complete request. *)
UpstreamAnswers == task = "upstream" /\ ResponseBegins

(***************************************************************************)
(* The upstream answers before it has the whole body and stops reading.    *)
(* Writing the headers or a chunk then fails, the HTTP library goes on to  *)
(* read the response, and request_content is never resumed: the chunk's    *)
(* credit stays pending and the queue has no reader.                       *)
(***************************************************************************)
UpstreamAnswersEarly ==
    /\ task = "credit" \/ (task = "get" /\ got = <<>>)
    /\ ResponseBegins

(* The upstream request raises. *)
UpstreamFailure ==
    /\ task \in {"get", "credit", "upstream"}
    /\ task' = "fail"
    /\ UNCHANGED <<conn, inbox, outbox, rx, stream, got, peer, fault>>

(* Mutant: the finished stream is not remembered as terminated. *)
TaskEndsUnremembered ==
    /\ task \in {"respond", "fail"}
    /\ link = "up"
    /\ outbox' = Append(outbox, IF task = "respond" THEN Response ELSE Error)
    /\ live' = FALSE
    /\ task' = "done"
    /\ UNCHANGED <<conn, inbox, rx, req, responded, terminated, starts, got, peer, fault>>

(***************************************************************************)
(* The last frame of the task, once the connection is up; then finally:    *)
(* stream_requests.pop and remember_terminated.                            *)
(***************************************************************************)
TaskEnds ==
    /\ task \in {"respond", "fail"}
    /\ link = "up"
    /\ outbox' = Append(outbox, IF task = "respond" THEN Response ELSE Error)
    /\ live' = FALSE
    /\ terminated' = "yes"
    /\ task' = "done"
    /\ UNCHANGED <<conn, inbox, rx, req, responded, starts, got, peer, fault>>

-----------------------------------------------------------------------------
(***************************************************************************)
(* The connection is lost: frames on the way to the peer are gone, of      *)
(* those on the way to the client the ones that had arrived stay readable. *)
(***************************************************************************)
Drop ==
    /\ link = "up"
    /\ drops < MaxDrops
    /\ drops' = drops + 1
    /\ link' = "closing"
    /\ outbox' = <<>>
    /\ \E k \in 0 .. Len(inbox) : inbox' = SubSeq(inbox, 1, k)
    /\ UNCHANGED <<body, declared, rx, stream, task, got, peer, fault>>

(* The receive loop has read everything and returns. *)
LoopExits ==
    /\ link = "closing"
    /\ rx = "ready"
    /\ inbox = <<>>
    /\ link' = "down"
    /\ UNCHANGED <<body, declared, drops, inbox, outbox, rx, stream, task, got, peer, fault>>

(***************************************************************************)
(* _connect_loop connects again; the peer replays the begin frame of a     *)
(* stream that has not ended and starts again from its last ack, with no   *)
(* credit but what the new connection brings.                              *)
(***************************************************************************)
Reconnect ==
    /\ link = "down"
    /\ link' = "up"
    /\ inbox' = IF peer.state = "active" THEN <<Begin>> ELSE <<>>
    /\ peer' = [peer EXCEPT !.next = peer.acked, !.credits = 0, !.endSent = FALSE]
    /\ UNCHANGED <<body, declared, drops, outbox, rx, stream, task, got, fault>>

-----------------------------------------------------------------------------
(* external: the peer opens the stream, sends its body, may give it up. *)
PeerBegin ==
    /\ link = "up"
    /\ peer.state = "idle"
    /\ inbox' = Append(inbox, Begin)
    /\ peer' = [peer EXCEPT !.state = "active"]
    /\ UNCHANGED <<conn, outbox, rx, stream, task, got, fault>>

PeerData ==
    /\ link = "up"
    /\ peer.state = "active"
    /\ peer.credits > 0
    /\ peer.next < body
    /\ inbox' = Append(inbox, Data(peer.next, peer.flagsEnd /\ peer.next + 1 = body))
    /\ peer' = [peer EXCEPT !.next = @ + 1, !.credits = @ - 1]
    /\ UNCHANGED <<conn, outbox, rx, stream, task, got, fault>>

PeerEnd ==
    /\ link = "up"
    /\ peer.state = "active"
    /\ peer.next = body
    /\ ~peer.flagsEnd /\ ~peer.endSent
    /\ inbox' = Append(inbox, EndFrame)
    /\ peer' = [peer EXCEPT !.endSent = TRUE]
    /\ UNCHANGED <<conn, outbox, rx, stream, task, got, fault>>

PeerCancel ==
    /\ link = "up"
    /\ peer.state = "active"
    /\ inbox' = Append(inbox, Error)
    /\ peer' = [peer EXCEPT !.state = "cancelled"]
    /\ UNCHANGED <<conn, outbox, rx, stream, task, got, fault>>

PeerReads ==
    /\ link = "up"
    /\ outbox # <<>>
    /\ outbox' = Tail(outbox)
    /\ LET m == Head(outbox) IN
       peer' = IF peer.state # "active" THEN peer
               ELSE IF m.type = "window"
               THEN [peer EXCEPT !.credits = Least(Window, @ + m.credits),
                                 !.acked = Most(@, m.ack_offset),
                                 !.next = Most(@, m.ack_offset)]
               ELSE [peer EXCEPT !.state = IF m.type = "error" THEN "failed" ELSE "answered"]
    /\ UNCHANGED <<conn, inbox, rx, stream, task, got, fault>>

-----------------------------------------------------------------------------
RxStep ==
    \/ RxBegin
    \/ RxAbsorb
    \/ RxUnknownStream
    \/ RxDuplicate
    \/ RxGap
    \/ RxExcess
    \/ RxData
    \/ RxEnd
    \/ RxError
    \/ PutCompletes
    \/ LoopExits

TaskStep ==
    \/ TaskGet
    \/ TaskCredit
    \/ UpstreamAnswers
    \/ TaskEnds

PeerStep == PeerBegin \/ PeerData \/ PeerEnd \/ PeerReads

Next ==
    \/ RxStep
    \/ TaskStep
    \/ UpstreamAnswersEarly
    \/ UpstreamFailure
    \/ Forget
    \/ Drop
    \/ Reconnect
    \/ PeerStep
    \/ PeerCancel

(***************************************************************************)
(* The event loop runs every task that can run, the reconnect loop retries *)
(* for ever, the upstream answers a complete request, and the peer goes on *)
(* with a stream it has opened.                                            *)
(***************************************************************************)
Fairness ==
    /\ WF_vars(RxStep)
    /\ WF_vars(TaskStep)
    /\ WF_vars(Reconnect)
    /\ WF_vars(PeerBegin) /\ WF_vars(PeerData) /\ WF_vars(PeerEnd)
    /\ WF_vars(PeerReads)

Spec == Init /\ [][Next]_vars
FairSpec == Spec /\ Fairness

-----------------------------------------------------------------------------
(* Type correctness. *)
TypeOK ==
    /\ body \in Bodies /\ declared \in BOOLEAN
    /\ link \in {"up", "closing", "down"}
    /\ drops \in 0 .. MaxDrops
    /\ rx \in {"ready", "sendwait", "putwait"}
    /\ live \in BOOLEAN /\ responded \in BOOLEAN
    /\ terminated \in {"no", "yes", "forgotten"}
    /\ req.queue \in Seq({End} \cup 0 .. body - 1) /\ Len(req.queue) <= Window
    /\ req.received \in 0 .. body /\ req.consumed \in 0 .. body
    /\ req.pending \in 0 .. 1 /\ req.ended \in BOOLEAN
    /\ task \in {"none", "get", "credit", "upstream", "respond", "fail", "done"}
    /\ starts \in Nat
    /\ peer.credits \in 0 .. Window
    /\ peer.acked \in 0 .. peer.next /\ peer.next \in 0 .. body

(***************************************************************************)
(* Reconnects, replayed begins and repeated chunks never reach the         *)
(* upstream service: each of its requests is given a prefix of the body,   *)
(* every chunk once and in order, and no more than                         *)
(* negotiated_max_body_size of it.                                         *)
(***************************************************************************)
BodyInOrderOnce ==
    /\ got = [i \in 1 .. Len(got) |-> i - 1]
    /\ Len(got) <= MaxBody

(***************************************************************************)
(* Nothing of the body gets lost between the peer, which forgets a chunk   *)
(* once ack_offset covers it, and the upstream, which takes the body for   *)
(* ended when request_content returns: as long as the upstream request is  *)
(* the first one of the id, the acknowledged chunks are those received,    *)
(* and the upstream's body ends only after its last chunk.                 *)
(***************************************************************************)
NothingCut ==
    starts <= 1 => /\ peer.acked <= req.received
                   /\ task = "upstream" => Len(got) = body

(***************************************************************************)
(* A peer that keeps to its credits never sees a gap, nor an unknown       *)
(* stream while terminated_streams remembers the id, whatever was lost and *)
(* replayed; on a connection that was never lost it is not accused of      *)
(* exceeding the window either.                                            *)
(***************************************************************************)
OffsetsNeverBlamed ==
    starts <= 1 => /\ fault \in {"none", "forgotten", "overflow"}
                   /\ drops = 0 => fault # "overflow"

(***************************************************************************)
(* The stream ends at the peer however often the connection is lost,       *)
(* unless the receive loop is blocked for ever (in send_frame or in        *)
(* queue.put), a second upstream request has been started for the same id, *)
(* or the id leaves terminated_streams while the stream is still open at   *)
(* the peer.                                                               *)
(***************************************************************************)
StreamEnds ==
    \/ <>(peer.state \in {"answered", "failed", "cancelled"})
    \/ <>[](rx # "ready")
    \/ <>(starts > 1)
    \/ <>(terminated = "forgotten" /\ peer.state = "active")
=============================================================================
