------------------------- MODULE TunnelResponseProofs -------------------------
(***************************************************************************)
(* Proofs about the response half of a tunnelled request, for bodies,      *)
(* windows and numbers of lost connections of any size.                    *)
(*                                                                         *)
(* A chunk is dropped from the unacknowledged ones only by a window frame, *)
(* and every window frame still on its way says no more than what the peer *)
(* has received: so what it has not received is kept, however often the    *)
(* connection is lost and the chunks are sent again.                       *)
(*                                                                         *)
(* Until the first loss more holds: the frames of either direction are one *)
(* line without gaps, so the peer is sent no chunk it has no room for.     *)
(***************************************************************************)
EXTENDS TunnelResponse, SequenceTheorems, TLAPS

Resps == [credits : 0 .. Window, unacked : SUBSET (0 .. Chunks - 1), next : 0 .. Chunks,
          ready : BOOLEAN, ended : BOOLEAN]
Peers == [state : {"open", "complete", "short", "failed", "cancelled"}, begun : BOOLEAN,
          received : 0 .. Chunks, consumed : 0 .. Chunks]

(* The frames a peer like p may have sent, and a response with n chunks. *)
Windows == [type : {"window"}, credits : 0 .. Window, ack_offset : 0 .. Chunks,
            complete : BOOLEAN]
FromPeer(p) ==
    [type : {"request", "error"}]
    \cup {m \in Windows : m.ack_offset <= p.received /\ (m.complete => p.state # "open")}
ToPeer(n) ==
    [type : {"http_resp_begin", "http_resp_end", "error", "other"}]
    \cup [type : {"data"}, offset : 0 .. n - 1]

ConnInv ==
    /\ form \in Forms /\ link \in {"up", "closing", "down"}
    /\ drops \in 0 .. MaxDrops /\ replies \in Nat

RespInv ==
    /\ resp \in Resps /\ resp.unacked \subseteq 0 .. resp.next - 1
    /\ kept \in BOOLEAN /\ lock \in {"free", "task", "rx"}

(* Before it is registered the response has sent and promised nothing. *)
TaskInv ==
    /\ task \in {"upstream", "begin", "ready", "credit", "lock", "send", "end", "fail", "done"}
    /\ task = "upstream" => /\ resp = NewResponse /\ ~kept
                            /\ lock = "free" /\ rx \in {"ready", "sendwait"}
    /\ task \in {"lock", "send"} => resp.next > 0
    /\ task = "credit" => resp.next < Chunks

(* What the receive loop sends again is still unacknowledged. *)
RxInv ==
    /\ rx \in {"ready", "lock", "credit", "send", "endsend", "sendwait"}
    /\ idx \in 0 .. Chunks
    /\ rx = "send" => idx \in resp.unacked

(* The peer has received only what was numbered, and never overflows. *)
PeerInv ==
    /\ peer \in Peers
    /\ peer.consumed <= peer.received /\ peer.received <= resp.next
    /\ peer.received - peer.consumed <= Window

QueuesInv == inbox \in Seq(FromPeer(peer)) /\ outbox \in Seq(ToPeer(resp.next))

ResponseInv ==
    /\ ConnInv /\ RespInv /\ TaskInv /\ RxInv /\ PeerInv /\ QueuesInv
    /\ RetainsUnreceived

-----------------------------------------------------------------------------
(* A queue of frames: what may be appended, and what is read. *)
LEMMA QueueAppend ==
    ASSUME NEW S, NEW q \in Seq(S), NEW e \in S
    PROVE  Append(q, e) \in Seq(S)
  OBVIOUS

(* The frame read is one of the queue, and so are those after it. *)
LEMMA QueueTail ==
    ASSUME NEW S, NEW q \in Seq(S), q # <<>>
    PROVE  Head(q) \in S /\ Tail(q) \in Seq(S)
  BY HeadTailProperties

(* What is left of a queue when the connection breaks. *)
LEMMA QueuePrefix ==
    ASSUME NEW S, NEW q \in Seq(S), NEW k \in 0 .. Len(q)
    PROVE  SubSeq(q, 1, k) \in Seq(S)
  <1>1. k \in Int /\ Len(q) \in Nat  OBVIOUS
  <1>2. \A i \in 1 .. k : q[i] \in S  BY <1>1
  <1> QED BY <1>1, <1>2, SubSeqProperties

(* More frames become possible. *)
LEMMA QueueWider ==
    ASSUME NEW S, NEW T, S \subseteq T, NEW q \in Seq(S)
    PROVE  q \in Seq(T)
  OBVIOUS

(* The frames that do not depend on the state. *)
LEMMA FixedFrames ==
    ASSUME NEW n, NEW p
    PROVE  /\ BeginFrame \in ToPeer(n) /\ EndFrame \in ToPeer(n)
           /\ ErrorFrame \in ToPeer(n) /\ OtherFrame \in ToPeer(n)
           /\ Request \in FromPeer(p) /\ ErrorFrame \in FromPeer(p)
  BY DEF BeginFrame, EndFrame, ErrorFrame, OtherFrame, Request, ToPeer, FromPeer

(* A chunk that was numbered may be sent. *)
LEMMA DataFits ==
    ASSUME NEW n \in Nat, NEW off \in 0 .. n - 1
    PROVE  DataFrame(off) \in ToPeer(n)
  BY DEF DataFrame, ToPeer

(* Numbering a chunk makes no frame impossible. *)
LEMMA ToPeerGrows ==
    ASSUME NEW n \in Nat
    PROVE  ToPeer(n) \subseteq ToPeer(n + 1)
  <1>1. 0 .. n - 1 \subseteq 0 .. n + 1 - 1  OBVIOUS
  <1> QED BY <1>1 DEF ToPeer

(* A grant that acknowledges no more than what was received. *)
LEMMA GrantFits ==
    ASSUME NEW p, NEW n \in 0 .. Window, NEW ack \in 0 .. Chunks, ack <= p.received
    PROVE  Grant(n, ack) \in FromPeer(p)
  <1>1. Grant(n, ack) \in Windows  BY DEF Grant, Windows
  <1>2. Grant(n, ack).ack_offset = ack /\ Grant(n, ack).complete = FALSE  BY DEF Grant
  <1> QED BY <1>1, <1>2 DEF FromPeer

(* What a peer has sent stays true of it as it goes on. *)
LEMMA FromPeerGrows ==
    ASSUME NEW p \in Peers, NEW q \in Peers, p.received <= q.received,
           p.state # "open" => q.state # "open"
    PROVE  FromPeer(p) \subseteq FromPeer(q)
  <1> SUFFICES ASSUME NEW m \in Windows, m.ack_offset <= p.received,
                      m.complete => p.state # "open"
               PROVE  m.ack_offset <= q.received /\ (m.complete => q.state # "open")
    BY DEF FromPeer
  <1>1. m.ack_offset \in Int /\ p.received \in Int /\ q.received \in Int
    BY DEF Windows, Peers
  <1> QED BY <1>1

(* The bounded credit queue. *)
LEMMA CreditsBounded ==
    ASSUME resp.credits \in 0 .. Window, NEW n \in 0 .. Window
    PROVE  CreditsAfter(n) \in 0 .. Window
  <1>1. Window \in Nat  BY ConstantsAssumption
  <1> QED BY <1>1 DEF CreditsAfter, Least

-----------------------------------------------------------------------------
(* A step of the sending task that numbers no chunk. *)
LEMMA QuietTaskStep ==
    ASSUME ResponseInv, UNCHANGED <<conn, inbox, loop, kept, resp, peer>>,
           outbox' \in Seq(ToPeer(resp.next)), replies' \in Nat,
           lock' \in {"free", "task", "rx"}, TaskInv'
    PROVE  ResponseInv'
  <1>1. /\ form' = form /\ link' = link /\ drops' = drops /\ inbox' = inbox
        /\ rx' = rx /\ idx' = idx /\ kept' = kept /\ resp' = resp /\ peer' = peer
    BY DEF conn, loop
  <1>2. ConnInv'  BY <1>1 DEF ResponseInv, ConnInv
  <1>3. RespInv'  BY <1>1 DEF ResponseInv, RespInv
  <1>4. RxInv'  BY <1>1 DEF ResponseInv, RxInv
  <1>5. PeerInv'  BY <1>1 DEF ResponseInv, PeerInv
  <1>6. QueuesInv'  BY <1>1 DEF ResponseInv, QueuesInv
  <1>7. RetainsUnreceived'  BY <1>1 DEF ResponseInv, RetainsUnreceived
  <1> QED BY <1>2, <1>3, <1>4, <1>5, <1>6, <1>7 DEF ResponseInv

(* Registration finds the response as nothing has touched it. *)
LEMMA RegisterInv ==
    ASSUME ResponseInv, Register
    PROVE  ResponseInv'
  <1>1. /\ task = "upstream" /\ kept' = TRUE /\ resp' = NewResponse /\ lock' = "free"
        /\ task' = "begin" /\ UNCHANGED <<conn, inbox, outbox, loop, replies, peer>>
    BY DEF Register
  <1>2. resp = NewResponse /\ lock = "free"  BY <1>1 DEF ResponseInv, TaskInv
  <1>3. UNCHANGED <<form, link, drops, inbox, outbox, rx, idx, replies, peer, resp, lock>>
    BY <1>1, <1>2 DEF conn, loop
  <1>4. ConnInv'  BY <1>3 DEF ResponseInv, ConnInv
  <1>5. RespInv'  BY <1>1, <1>3 DEF ResponseInv, RespInv
  <1>6. TaskInv'  BY <1>1 DEF TaskInv
  <1>7. RxInv'  BY <1>3 DEF ResponseInv, RxInv
  <1>8. PeerInv'  BY <1>3 DEF ResponseInv, PeerInv
  <1>9. QueuesInv'  BY <1>3 DEF ResponseInv, QueuesInv
  <1>10. RetainsUnreceived'
    <2>1. peer.received \in Nat /\ resp.next = 0
      BY <1>2 DEF ResponseInv, PeerInv, Peers, NewResponse
    <2>2. peer.received .. resp.next - 1 = {}  BY <2>1
    <2> QED BY <1>3, <2>2 DEF RetainsUnreceived
  <1> QED BY <1>4, <1>5, <1>6, <1>7, <1>8, <1>9, <1>10 DEF ResponseInv

(* A chunk is kept from the step that numbers it. *)
LEMMA NumberChunkInv ==
    ASSUME ResponseInv, NumberChunk, task # "upstream", resp.next < Chunks,
           UNCHANGED <<conn, inbox, outbox, loop, kept, replies, peer>>
    PROVE  ResponseInv'
  <1>0. Chunks \in Nat /\ Window \in Nat  BY ConstantsAssumption
  <1>1. /\ resp.credits > 0
        /\ resp' = [resp EXCEPT !.credits = @ - 1, !.next = @ + 1,
                                !.unacked = @ \cup {resp.next}]
        /\ \/ lock' = "task" /\ task' = "send"
           \/ lock' = lock /\ task' = "lock"
    BY DEF NumberChunk
  <1>2. UNCHANGED <<form, link, drops, inbox, outbox, rx, idx, kept, replies, peer>>
    BY DEF conn, loop
  <1>3. /\ resp \in Resps /\ resp.next \in Nat /\ resp.unacked \subseteq 0 .. resp.next - 1
        /\ resp.credits \in 0 .. Window
    BY DEF ResponseInv, RespInv, Resps
  <1>4. /\ resp'.next = resp.next + 1 /\ resp'.unacked = resp.unacked \cup {resp.next}
        /\ resp'.credits = resp.credits - 1
        /\ resp'.ready = resp.ready /\ resp'.ended = resp.ended
    BY <1>1, <1>3 DEF Resps
  <1>5. resp' \in Resps
    <2>1. resp.credits - 1 \in 0 .. Window  BY <1>0, <1>1, <1>3
    <2>2. resp.next + 1 \in 0 .. Chunks  BY <1>0, <1>3
    <2>3. resp.unacked \cup {resp.next} \in SUBSET (0 .. Chunks - 1)
      BY <1>0, <1>3 DEF Resps
    <2> QED BY <1>1, <1>3, <2>1, <2>2, <2>3 DEF Resps
  <1>6. ConnInv'  BY <1>2 DEF ResponseInv, ConnInv
  <1>7. RespInv'
    <2>1. resp'.unacked \subseteq 0 .. resp'.next - 1  BY <1>3, <1>4
    <2> QED BY <1>1, <1>2, <1>5, <2>1 DEF ResponseInv, RespInv
  <1>8. TaskInv'  BY <1>1, <1>3, <1>4 DEF TaskInv
  <1>9. RxInv'  BY <1>2, <1>4 DEF ResponseInv, RxInv
  <1>10. PeerInv'
    <2>1. peer.received \in Nat /\ peer.received <= resp.next
      BY DEF ResponseInv, PeerInv, Peers
    <2>2. peer.received <= resp'.next  BY <1>3, <1>4, <2>1
    <2> QED BY <1>2, <2>2 DEF ResponseInv, PeerInv
  <1>11. QueuesInv'
    <2>1. ToPeer(resp.next) \subseteq ToPeer(resp'.next)  BY <1>3, <1>4, ToPeerGrows
    <2>2. outbox \in Seq(ToPeer(resp'.next))  BY <2>1, QueueWider DEF ResponseInv, QueuesInv
    <2> QED BY <1>2, <2>2 DEF ResponseInv, QueuesInv
  <1>12. RetainsUnreceived'
    <2> SUFFICES ASSUME kept, peer.state = "open",
                        NEW off \in peer.received .. resp'.next - 1
                 PROVE  off \in resp'.unacked
      BY <1>2 DEF RetainsUnreceived
    <2>1. peer.received .. resp.next - 1 \subseteq resp.unacked
      BY DEF ResponseInv, RetainsUnreceived
    <2>2. peer.received \in Nat  BY DEF ResponseInv, PeerInv, Peers
    <2>3. off = resp.next \/ off \in peer.received .. resp.next - 1  BY <1>3, <1>4, <2>2
    <2> QED BY <1>4, <2>1, <2>3
  <1> QED BY <1>6, <1>7, <1>8, <1>9, <1>10, <1>11, <1>12 DEF ResponseInv

(* What the task puts on the connection may be there. *)
LEMMA TaskSendsFits ==
    ASSUME ResponseInv, NEW f \in ToPeer(resp.next), TaskSends(f)
    PROVE  outbox' \in Seq(ToPeer(resp.next))
  <1>1. outbox \in Seq(ToPeer(resp.next)) /\ outbox' = Append(outbox, f)
    BY DEF ResponseInv, QueuesInv, TaskSends
  <1> QED BY <1>1, QueueAppend

(* The other steps of the sending task, and of the replies. *)
LEMMA TaskStepInv ==
    ASSUME ResponseInv, TaskStep \/ SendReply \/ BodyBreaks
    PROVE  ResponseInv'
  <1>0. /\ outbox \in Seq(ToPeer(resp.next)) /\ replies \in Nat
        /\ lock \in {"free", "task", "rx"} /\ resp \in Resps /\ resp.next \in 0 .. Chunks
    BY DEF ResponseInv, QueuesInv, ConnInv, RespInv, Resps
  <1>f. /\ BeginFrame \in ToPeer(resp.next) /\ EndFrame \in ToPeer(resp.next)
        /\ ErrorFrame \in ToPeer(resp.next)
    BY FixedFrames
  <1>1. CASE Register  BY <1>1, RegisterInv
  <1>2. CASE SendBegin
    <2>1. /\ task' = "ready" /\ TaskSends(BeginFrame)
          /\ UNCHANGED <<conn, inbox, loop, state, replies, peer>>
      BY <1>2 DEF SendBegin
    <2>2. outbox' \in Seq(ToPeer(resp.next))  BY <1>f, <2>1, TaskSendsFits
    <2>3. TaskInv'  BY <2>1 DEF TaskInv
    <2>4. UNCHANGED <<kept, resp, lock>>  BY <2>1 DEF state
    <2> QED BY <1>0, <2>1, <2>2, <2>3, <2>4, QuietTaskStep
  <1>3. CASE NextChunk
    <2>1. /\ task = "ready" /\ resp.next < Chunks
          /\ UNCHANGED <<conn, inbox, outbox, loop, kept, replies, peer>>
      BY <1>3 DEF NextChunk
    <2>2. CASE NumberChunk  BY <2>1, <2>2, NumberChunkInv
    <2>3. CASE resp.credits = 0 /\ task' = "credit" /\ UNCHANGED <<resp, lock>>
      <3>1. TaskInv'  BY <2>1, <2>3 DEF TaskInv
      <3> QED BY <1>0, <2>1, <2>3, <3>1, QuietTaskStep
    <2> QED BY <1>3, <2>2, <2>3 DEF NextChunk
  <1>4. CASE TakeCredit
    <2>1. /\ task = "credit" /\ NumberChunk
          /\ UNCHANGED <<conn, inbox, outbox, loop, kept, replies, peer>>
      BY <1>4 DEF TakeCredit
    <2>2. resp.next < Chunks  BY <2>1 DEF ResponseInv, TaskInv
    <2> QED BY <2>1, <2>2, NumberChunkInv
  <1>5. CASE TakeLock
    <2>1. /\ task = "lock" /\ task' = "send" /\ lock' = "task"
          /\ UNCHANGED <<conn, inbox, outbox, loop, kept, resp, replies, peer>>
      BY <1>5 DEF TakeLock
    <2>2. TaskInv'  BY <2>1 DEF ResponseInv, TaskInv
    <2> QED BY <1>0, <2>1, <2>2, QuietTaskStep
  <1>6. CASE BodyEnds  
    <2>1. /\ task = "ready" /\ task' = "end" /\ resp' = [resp EXCEPT !.ended = TRUE]
          /\ UNCHANGED <<form, link, drops, inbox, outbox, rx, idx, kept, lock, replies, peer>>
      BY <1>6 DEF BodyEnds, conn, loop
    <2>2. resp' \in Resps /\ resp'.unacked = resp.unacked /\ resp'.next = resp.next
      BY <1>0, <2>1 DEF Resps
    <2>3. TaskInv'  BY <2>1 DEF TaskInv
    <2>4. ConnInv'  BY <2>1 DEF ResponseInv, ConnInv
    <2>5. RespInv'  BY <2>1, <2>2 DEF ResponseInv, RespInv
    <2>6. RxInv'  BY <2>1, <2>2 DEF ResponseInv, RxInv
    <2>7. PeerInv'  BY <2>1, <2>2 DEF ResponseInv, PeerInv
    <2>8. QueuesInv'  BY <2>1, <2>2 DEF ResponseInv, QueuesInv
    <2>9. RetainsUnreceived'  BY <2>1, <2>2 DEF ResponseInv, RetainsUnreceived
    <2> QED BY <2>3, <2>4, <2>5, <2>6, <2>7, <2>8, <2>9 DEF ResponseInv
  <1>7. CASE SendChunk
    <2>1. /\ task = "send" /\ task' = "ready" /\ lock' = "free"
          /\ TaskSends(DataFrame(resp.next - 1))
          /\ UNCHANGED <<conn, inbox, loop, kept, resp, replies, peer>>
      BY <1>7 DEF SendChunk
    <2>2. resp.next > 0  BY <2>1 DEF ResponseInv, TaskInv
    <2>3. resp.next \in Nat /\ resp.next - 1 \in 0 .. resp.next - 1
      BY <1>0, <2>2, ConstantsAssumption
    <2>4. DataFrame(resp.next - 1) \in ToPeer(resp.next)  BY <2>3, DataFits
    <2>5. outbox' \in Seq(ToPeer(resp.next))  BY <2>1, <2>4, TaskSendsFits
    <2>6. TaskInv'  BY <2>1 DEF TaskInv
    <2> QED BY <1>0, <2>1, <2>5, <2>6, QuietTaskStep
  <1>8. CASE SendEnd \/ SendError
    <2>1. /\ task' = "done" /\ (TaskSends(EndFrame) \/ TaskSends(ErrorFrame))
          /\ UNCHANGED <<conn, inbox, loop, state, replies, peer>>
      BY <1>8 DEF SendEnd, SendError
    <2>2. outbox' \in Seq(ToPeer(resp.next))  BY <1>f, <2>1, TaskSendsFits
    <2>3. TaskInv'  BY <2>1 DEF TaskInv
    <2>4. UNCHANGED <<kept, resp, lock>>  BY <2>1 DEF state
    <2> QED BY <1>0, <2>1, <2>2, <2>3, <2>4, QuietTaskStep
  <1>9. CASE SendReply
    <2>1. /\ replies > 0 /\ TaskSends(BeginFrame) /\ replies' = replies - 1
          /\ UNCHANGED <<conn, inbox, loop, task, kept, resp, lock, peer, rx>>
      BY <1>9 DEF SendReply, state, loop
    <2>2. outbox' \in Seq(ToPeer(resp.next))  BY <1>f, <2>1, TaskSendsFits
    <2>3. replies' \in Nat  BY <1>0, <2>1
    <2>4. TaskInv'  BY <2>1 DEF ResponseInv, TaskInv
    <2> QED BY <1>0, <2>1, <2>2, <2>3, <2>4, QuietTaskStep
  <1>10. CASE BodyBreaks
    <2>1. /\ task' = "fail" /\ UNCHANGED <<conn, inbox, outbox, loop, kept, resp, lock, replies, peer>>
      BY <1>10 DEF BodyBreaks, state
    <2>2. TaskInv'  BY <2>1 DEF TaskInv
    <2> QED BY <1>0, <2>1, <2>2, QuietTaskStep
  <1> QED
    BY <1>1, <1>2, <1>3, <1>4, <1>5, <1>6, <1>7, <1>8, <1>9, <1>10 DEF TaskStep

-----------------------------------------------------------------------------
(* A step that leaves the response, its task and the receive loop alone. *)
LEMMA OutsideStep ==
    ASSUME ResponseInv, UNCHANGED <<form, loop, task, state, replies>>,
           link' \in {"up", "closing", "down"}, drops' \in 0 .. MaxDrops,
           PeerInv', peer.received <= peer'.received,
           peer.state # "open" => peer'.state # "open",
           inbox' \in Seq(FromPeer(peer')), outbox' \in Seq(ToPeer(resp.next))
    PROVE  ResponseInv'
  <1>1. UNCHANGED <<form, rx, idx, task, kept, resp, lock, replies>>  BY DEF loop, state
  <1>2. ConnInv'  BY <1>1 DEF ResponseInv, ConnInv
  <1>3. RespInv'  BY <1>1 DEF ResponseInv, RespInv
  <1>4. TaskInv'  BY <1>1 DEF ResponseInv, TaskInv
  <1>5. RxInv'  BY <1>1 DEF ResponseInv, RxInv
  <1>6. QueuesInv'  BY <1>1 DEF QueuesInv
  <1>7. RetainsUnreceived'
    <2>1. peer.received \in Int /\ peer'.received \in Int  BY DEF ResponseInv, PeerInv, Peers
    <2>2. resp.next \in Int  BY DEF ResponseInv, RespInv, Resps
    <2>3. peer'.received .. resp.next - 1 \subseteq peer.received .. resp.next - 1
      BY <2>1, <2>2
    <2> QED BY <1>1, <2>3 DEF ResponseInv, RetainsUnreceived
  <1> QED BY <1>2, <1>3, <1>4, <1>5, <1>6, <1>7 DEF ResponseInv

(* Nothing on its way to the peer is the empty queue of frames. *)
LEMMA LostFits ==
    ASSUME ResponseInv, Lose
    PROVE  /\ link' = "closing" /\ inbox' \in Seq(FromPeer(peer))
           /\ outbox' \in Seq(ToPeer(resp.next))
  <1>1. inbox \in Seq(FromPeer(peer))  BY DEF ResponseInv, QueuesInv
  <1>2. PICK k \in 0 .. Len(inbox) : inbox' = SubSeq(inbox, 1, k)  BY DEF Lose
  <1>3. inbox' \in Seq(FromPeer(peer))  BY <1>1, <1>2, QueuePrefix
  <1>4. <<>> \in Seq(ToPeer(resp.next))  OBVIOUS
  <1> QED BY <1>3, <1>4 DEF Lose

(* The connection is lost, and comes back. *)
LEMMA ConnectionInv ==
    ASSUME ResponseInv, Drop \/ Reconnect
    PROVE  ResponseInv'
  <1>0. /\ PeerInv /\ peer \in Peers /\ drops \in 0 .. MaxDrops /\ MaxDrops \in Nat
        /\ peer.received \in Int
        /\ outbox \in Seq(ToPeer(resp.next))
    BY ConstantsAssumption DEF ResponseInv, ConnInv, PeerInv, Peers, QueuesInv
  <1>1. CASE Drop
    <2>1. /\ drops < MaxDrops /\ drops' = drops + 1 /\ Lose
          /\ UNCHANGED <<form, loop, task, state, replies, peer>>
      BY <1>1 DEF Drop
    <2>2. /\ link' = "closing" /\ inbox' \in Seq(FromPeer(peer))
          /\ outbox' \in Seq(ToPeer(resp.next))
      BY <2>1, LostFits
    <2>3. drops' \in 0 .. MaxDrops  BY <1>0, <2>1
    <2>4. PeerInv'  BY <1>0, <2>1 DEF PeerInv, state
    <2> QED BY <1>0, <2>1, <2>2, <2>3, <2>4, OutsideStep
  <1>2. CASE Reconnect
    <2>1. /\ link' = "up" /\ peer' = [peer EXCEPT !.begun = FALSE]
          /\ inbox' = IF peer.state = "open" THEN <<Request>> ELSE <<>>
          /\ UNCHANGED <<form, drops, outbox, loop, task, state, replies>>
      BY <1>2 DEF Reconnect
    <2>2. /\ peer' \in Peers /\ peer'.received = peer.received
          /\ peer'.consumed = peer.consumed /\ peer'.state = peer.state
      BY <1>0, <2>1 DEF Peers
    <2>3. PeerInv'  BY <1>0, <2>1, <2>2 DEF PeerInv, state
    <2>4. inbox' \in Seq(FromPeer(peer'))
      <3>1. Request \in FromPeer(peer')  BY FixedFrames
      <3>2. <<Request>> \in Seq(FromPeer(peer')) /\ <<>> \in Seq(FromPeer(peer'))  BY <3>1
      <3> QED BY <2>1, <3>2
    <2> QED BY <1>0, <2>1, <2>2, <2>3, <2>4, OutsideStep
  <1> QED BY <1>1, <1>2

(* What the peer reads was sent, and what it answers is true of it. *)
LEMMA PeerFacts ==
    ASSUME ResponseInv
    PROVE  /\ PeerInv /\ peer \in Peers /\ Window \in Nat
           /\ link \in {"up", "closing", "down"} /\ drops \in 0 .. MaxDrops
           /\ peer.received \in 0 .. Chunks /\ peer.consumed \in 0 .. peer.received
           /\ peer.received <= resp.next /\ resp.next \in 0 .. Chunks
           /\ peer.received \in Nat /\ peer.consumed \in Nat /\ Chunks \in Nat
           /\ resp.next \in Nat
           /\ Room \in 0 .. Window /\ Room = Window - (peer.received - peer.consumed)
           /\ inbox \in Seq(FromPeer(peer))
           /\ outbox \in Seq(ToPeer(resp.next))
           /\ outbox # <<>> => /\ Head(outbox) \in ToPeer(resp.next)
                               /\ Tail(outbox) \in Seq(ToPeer(resp.next))
  <1>1. Chunks \in Nat /\ Window \in Nat  BY ConstantsAssumption
  <1>2. peer \in Peers /\ peer.consumed <= peer.received /\ peer.received <= resp.next
        /\ peer.received - peer.consumed <= Window
    BY DEF ResponseInv, PeerInv
  <1>3. peer.received \in 0 .. Chunks /\ peer.consumed \in 0 .. Chunks
    BY <1>2 DEF Peers
  <1>4. resp.next \in 0 .. Chunks  BY DEF ResponseInv, RespInv, Resps
  <1>5. peer.received \in Nat /\ peer.consumed \in Nat /\ resp.next \in Nat
        /\ peer.consumed \in 0 .. peer.received
    BY <1>1, <1>2, <1>3, <1>4
  <1>6. Room \in 0 .. Window /\ Room = Window - (peer.received - peer.consumed)
    BY <1>1, <1>2, <1>5 DEF Room
  <1>7. inbox \in Seq(FromPeer(peer)) /\ outbox \in Seq(ToPeer(resp.next))
    BY DEF ResponseInv, QueuesInv
  <1>8. outbox # <<>> => /\ Head(outbox) \in ToPeer(resp.next)
                         /\ Tail(outbox) \in Seq(ToPeer(resp.next))
    BY <1>7, QueueTail
  <1> QED BY <1>1, <1>2, <1>3, <1>4, <1>5, <1>6, <1>7, <1>8 DEF ResponseInv, PeerInv, ConnInv

(* The peer answers with one frame more. *)
LEMMA AnswerFits ==
    ASSUME ResponseInv, NEW p \in Peers, peer.received <= p.received,
           peer.state # "open" => p.state # "open", NEW f \in FromPeer(p)
    PROVE  inbox \in Seq(FromPeer(p)) /\ Append(inbox, f) \in Seq(FromPeer(p))
  <1>1. inbox \in Seq(FromPeer(peer)) /\ peer \in Peers  BY PeerFacts
  <1>2. FromPeer(peer) \subseteq FromPeer(p)  BY <1>1, FromPeerGrows
  <1>3. inbox \in Seq(FromPeer(p))  BY <1>1, <1>2, QueueWider
  <1> QED BY <1>3, QueueAppend

(* The peer sees the response begin. *)
LEMMA PeerBeginInv ==
    ASSUME ResponseInv, PeerBegin
    PROVE  ResponseInv'
  <1>0. /\ outbox # <<>> /\ outbox' = Tail(outbox)
        /\ UNCHANGED <<form, link, drops, loop, task, state, replies>> /\ resp' = resp
    BY DEF PeerBegin, Reads, conn, state
  <1>1. outbox' \in Seq(ToPeer(resp.next))  BY <1>0, PeerFacts
  <1>2. CASE peer.state = "open" /\ ~peer.begun
    <2>1. /\ peer' = [peer EXCEPT !.begun = TRUE]
          /\ inbox' = Append(inbox, Grant(Room, peer.consumed))
      BY <1>2 DEF PeerBegin
    <2>2. /\ peer' \in Peers /\ peer'.received = peer.received
          /\ peer'.consumed = peer.consumed /\ peer'.state = peer.state
      BY <2>1, PeerFacts DEF Peers
    <2>3. PeerInv'  BY <1>0, <2>2, PeerFacts DEF PeerInv
    <2>4. peer.consumed \in 0 .. Chunks /\ peer.consumed <= peer'.received
          /\ peer.received <= peer'.received
      BY <2>2, PeerFacts
    <2>5. Grant(Room, peer.consumed) \in FromPeer(peer')  BY <2>4, PeerFacts, GrantFits
    <2>6. inbox' \in Seq(FromPeer(peer'))  BY <2>1, <2>2, <2>4, <2>5, AnswerFits
    <2> QED BY <1>0, <1>1, <2>2, <2>3, <2>4, <2>6, PeerFacts, OutsideStep
  <1>3. CASE ~(peer.state = "open" /\ ~peer.begun)
    <2>1. UNCHANGED <<peer, inbox>>  BY <1>3 DEF PeerBegin
    <2>2. PeerInv'  BY <1>0, <2>1, PeerFacts DEF PeerInv
    <2> QED BY <1>0, <1>1, <2>1, <2>2, PeerFacts, OutsideStep
  <1> QED BY <1>2, <1>3

(* The peer stores a chunk, acknowledges it again or refuses it. *)
LEMMA PeerDataInv ==
    ASSUME ResponseInv, PeerData
    PROVE  ResponseInv'
  <1> DEFINE off == Head(outbox).offset
  <1>0. /\ outbox # <<>> /\ Head(outbox).type = "data"
        /\ UNCHANGED <<form, drops, loop, task, state, replies>> /\ resp' = resp
    BY DEF PeerData, Reads, conn, state
  <1>1. Tail(outbox) \in Seq(ToPeer(resp.next))  BY <1>0, PeerFacts
  <1>2. off \in 0 .. resp.next - 1
    <2>1. Head(outbox) \in ToPeer(resp.next)  BY <1>0, PeerFacts
    <2> QED BY <1>0, <2>1 DEF ToPeer
  <1>3. peer.received \in Nat /\ resp.next \in Nat  BY PeerFacts
  <1> HIDE DEF off
  <1>4. CASE peer.state # "open" /\ outbox' = Tail(outbox) /\ UNCHANGED <<conn, inbox, peer>>
    <2>1. PeerInv'  BY <1>0, <1>4, PeerFacts DEF PeerInv
    <2> QED BY <1>0, <1>1, <1>3, <1>4, <2>1, PeerFacts, OutsideStep DEF conn
  <1>5. CASE /\ peer.state = "open" /\ off < peer.received
             /\ outbox' = Tail(outbox)
             /\ inbox' = Append(inbox, Grant(0, peer.received))
             /\ UNCHANGED <<conn, peer>>
    <2>1. PeerInv'  BY <1>0, <1>5, PeerFacts DEF PeerInv
    <2>2. 0 \in 0 .. Window /\ peer.received \in 0 .. Chunks /\ peer.received <= peer.received
      BY <1>3, PeerFacts
    <2>3. Grant(0, peer.received) \in FromPeer(peer)  BY <2>2, GrantFits
    <2>4. inbox' \in Seq(FromPeer(peer'))  BY <1>5, <2>2, <2>3, PeerFacts, AnswerFits
    <2> QED BY <1>0, <1>1, <1>5, <2>1, <2>2, <2>4, PeerFacts, OutsideStep DEF conn
  <1>6. CASE /\ peer.state = "open" /\ off = peer.received /\ Room > 0
             /\ outbox' = Tail(outbox)
             /\ peer' = [peer EXCEPT !.received = @ + 1]
             /\ UNCHANGED <<inbox, conn>>
    <2>1. peer.received + 1 \in 0 .. Chunks /\ peer.received + 1 <= resp.next
      BY <1>2, <1>3, <1>6, PeerFacts
    <2>2. /\ peer' \in Peers /\ peer'.received = peer.received + 1
          /\ peer'.consumed = peer.consumed /\ peer'.state = peer.state
      BY <1>6, <2>1, PeerFacts DEF Peers
    <2>3. (peer.received + 1) - peer.consumed <= Window /\ peer.consumed <= peer.received + 1
      BY <1>6, PeerFacts
    <2>4. PeerInv'
      <3>0. resp'.next = resp.next  BY <1>0
      <3>1. /\ peer'.consumed <= peer'.received /\ peer'.received <= resp'.next
            /\ peer'.received - peer'.consumed <= Window
        BY <2>1, <2>2, <2>3, <3>0
      <3> QED BY <2>2, <3>1, Zenon DEF PeerInv
    <2>5. peer.received <= peer'.received  BY <1>3, <2>2
    <2>6. FromPeer(peer) \subseteq FromPeer(peer')  BY <2>2, <2>5, PeerFacts, FromPeerGrows
    <2>7. inbox' \in Seq(FromPeer(peer'))  BY <1>6, <2>6, PeerFacts, QueueWider
    <2> QED BY <1>0, <1>1, <1>6, <2>2, <2>4, <2>5, <2>7, PeerFacts, OutsideStep DEF conn
  <1>7. CASE /\ peer.state = "open"
             /\ outbox' = Tail(outbox)
             /\ peer' = [peer EXCEPT !.state = "failed"]
             /\ inbox' = Append(inbox, ErrorFrame)
             /\ UNCHANGED conn
    <2>1. /\ peer' \in Peers /\ peer'.received = peer.received
          /\ peer'.consumed = peer.consumed /\ peer'.state = "failed"
      BY <1>7, PeerFacts DEF Peers
    <2>2. PeerInv'  BY <1>0, <2>1, PeerFacts DEF PeerInv
    <2>3. peer.received <= peer'.received  BY <1>3, <2>1
    <2>4. ErrorFrame \in FromPeer(peer')  BY FixedFrames
    <2>5. inbox' \in Seq(FromPeer(peer'))  BY <1>7, <2>1, <2>3, <2>4, AnswerFits
    <2> QED BY <1>0, <1>1, <1>7, <2>1, <2>2, <2>3, <2>5, PeerFacts, OutsideStep DEF conn
  <1>8. CASE Lose /\ peer' = peer
    <2>1. PeerInv'  BY <1>0, <1>8, PeerFacts DEF PeerInv
    <2>2. /\ link' = "closing" /\ inbox' \in Seq(FromPeer(peer))
          /\ outbox' \in Seq(ToPeer(resp.next))
      BY <1>8, LostFits
    <2> QED BY <1>0, <1>3, <1>8, <2>1, <2>2, PeerFacts, OutsideStep
  <1> QED BY <1>4, <1>5, <1>6, <1>7, <1>8 DEF PeerData, off

(* The peer passes a chunk on. *)
LEMMA PeerConsumesInv ==
    ASSUME ResponseInv, PeerConsumes
    PROVE  ResponseInv'
  <1>0. /\ peer.consumed < peer.received /\ peer' = [peer EXCEPT !.consumed = @ + 1]
        /\ inbox' = Append(inbox, Grant(1, peer.consumed + 1)) /\ outbox' = outbox
        /\ UNCHANGED <<form, link, drops, loop, task, state, replies>> /\ resp' = resp
    BY DEF PeerConsumes, conn, state
  <1>1. peer.consumed + 1 \in 0 .. Chunks /\ peer.consumed + 1 <= peer.received
        /\ peer.received - (peer.consumed + 1) <= Window
    <2>1. /\ peer.received \in 0 .. Chunks /\ peer.consumed \in Nat /\ Chunks \in Nat
          /\ Window \in Nat /\ peer.received - peer.consumed <= Window
      BY PeerFacts DEF PeerInv
    <2> QED BY <1>0, <2>1
  <1>2. /\ peer' \in Peers /\ peer'.received = peer.received
        /\ peer'.consumed = peer.consumed + 1 /\ peer'.state = peer.state
    BY <1>0, <1>1, PeerFacts DEF Peers
  <1>3. PeerInv'  BY <1>0, <1>1, <1>2, PeerFacts DEF PeerInv
  <1>4. 1 \in 0 .. Window  BY ConstantsAssumption
  <1>5. Grant(1, peer.consumed + 1) \in FromPeer(peer')  BY <1>1, <1>2, <1>4, GrantFits
  <1>6. peer.received <= peer'.received  BY <1>2, PeerFacts
  <1>7. inbox' \in Seq(FromPeer(peer'))  BY <1>0, <1>2, <1>5, <1>6, AnswerFits
  <1> QED BY <1>0, <1>2, <1>3, <1>6, <1>7, PeerFacts, OutsideStep

(* The peer completes, fails or leaves: only a complete one says so. *)
LEMMA PeerEndsInv ==
    ASSUME ResponseInv, PeerEnd \/ PeerOther \/ PeerCancels
    PROVE  ResponseInv'
  <1>0. /\ UNCHANGED <<form, link, drops, loop, task, state, replies>> /\ resp' = resp
    BY DEF PeerEnd, PeerOther, PeerCancels, conn, state
  <1>1. outbox' \in Seq(ToPeer(resp.next))
    <2>1. CASE PeerCancels  BY <2>1, PeerFacts DEF PeerCancels
    <2>2. CASE PeerEnd \/ PeerOther  BY <2>2, PeerFacts DEF PeerEnd, PeerOther, Reads
    <2> QED BY <2>1, <2>2
  <1>2. ASSUME NEW end \in {"complete", "short", "failed", "cancelled"},
               peer' = [peer EXCEPT !.state = end],
               \/ inbox' = inbox
               \/ inbox' = Append(inbox, ErrorFrame)
               \/ end = "complete" /\ peer.received = Chunks /\ inbox' = Append(inbox, Complete)
        PROVE  ResponseInv'
    <2>1. /\ peer' \in Peers /\ peer'.received = peer.received
          /\ peer'.consumed = peer.consumed /\ peer'.state = end
      BY <1>2, PeerFacts DEF Peers
    <2>2. PeerInv'  BY <1>0, <2>1, PeerFacts DEF PeerInv
    <2>3. peer.received <= peer'.received /\ peer'.state # "open"  BY <2>1, PeerFacts
    <2>4. ErrorFrame \in FromPeer(peer')  BY FixedFrames
    <2>5. CASE inbox' = inbox \/ inbox' = Append(inbox, ErrorFrame)
      <3>1. inbox' \in Seq(FromPeer(peer'))  BY <2>1, <2>3, <2>4, <2>5, AnswerFits
      <3> QED BY <1>0, <1>1, <2>2, <2>3, <3>1, PeerFacts, OutsideStep
    <2>6. CASE peer.received = Chunks /\ inbox' = Append(inbox, Complete)
      <3>1. Complete \in Windows /\ Complete.ack_offset = Chunks
        BY PeerFacts DEF Complete, Windows
      <3>2. Chunks <= peer'.received  BY <2>1, <2>6, PeerFacts
      <3>3. Complete \in FromPeer(peer')  BY <2>3, <3>1, <3>2 DEF FromPeer
      <3>4. inbox' \in Seq(FromPeer(peer'))  BY <2>1, <2>3, <2>6, <3>3, AnswerFits
      <3> QED BY <1>0, <1>1, <2>2, <2>3, <3>4, PeerFacts, OutsideStep
    <2> QED BY <1>2, <2>5, <2>6
  <1>3. CASE peer' = peer /\ inbox' = inbox
    <2>1. PeerInv'  BY <1>0, <1>3, PeerFacts DEF PeerInv
    <2> QED BY <1>0, <1>1, <1>3, <2>1, PeerFacts, OutsideStep
  <1>4. CASE PeerEnd
    <2>1. CASE peer.state # "open"  BY <1>3, <1>4, <2>1 DEF PeerEnd
    <2>2. CASE peer.state = "open" /\ peer.received = Chunks  
      BY <1>2, <1>4, <2>2 DEF PeerEnd
    <2>3. CASE peer.state = "open" /\ peer.received # Chunks
      BY <1>2, <1>4, <2>3 DEF PeerEnd
    <2> QED BY <2>1, <2>2, <2>3
  <1>5. CASE PeerOther  BY <1>2, <1>3, <1>5 DEF PeerOther
  <1>6. CASE PeerCancels  BY <1>2, <1>6 DEF PeerCancels
  <1> QED BY <1>4, <1>5, <1>6

-----------------------------------------------------------------------------
(* The frame the receive loop takes, and what it leaves. *)
LEMMA TakenFrame ==
    ASSUME ResponseInv, NEW type, Takes(type)
    PROVE  /\ rx = "ready" /\ inbox' \in Seq(FromPeer(peer))
           /\ Head(inbox) \in FromPeer(peer) /\ Head(inbox).type = type
  BY QueueTail DEF Takes, ResponseInv, QueuesInv

(* A window frame never says more than the peer has received. *)
LEMMA TakenWindow ==
    ASSUME ResponseInv, Takes("window")
    PROVE  /\ Head(inbox) \in Windows /\ Head(inbox).credits \in 0 .. Window
           /\ Head(inbox).ack_offset \in Nat /\ Head(inbox).ack_offset <= peer.received
           /\ Head(inbox).complete => peer.state # "open"
  <1> DEFINE m == Head(inbox)
  <1>1. m \in FromPeer(peer) /\ m.type = "window"  BY TakenFrame
  <1>2. m \notin [type : {"request", "error"}]  BY <1>1
  <1> HIDE DEF m
  <1>3. m \in Windows /\ m.ack_offset <= peer.received /\ (m.complete => peer.state # "open")
    BY <1>1, <1>2 DEF FromPeer
  <1>4. m.credits \in 0 .. Window /\ m.ack_offset \in 0 .. Chunks  BY <1>3 DEF Windows
  <1>5. m.ack_offset \in Nat  BY <1>4, ConstantsAssumption
  <1> QED BY <1>3, <1>4, <1>5 DEF m

(* A replayed request is answered, or the receive loop waits for ever. *)
LEMMA RxRequestInv ==
    ASSUME ResponseInv, RxRequest
    PROVE  ResponseInv'
  <1>0. /\ Takes("request") /\ UNCHANGED <<form, link, drops, idx, task, kept, resp, lock, peer>>
    BY DEF RxRequest, conn, state
  <1>1. rx = "ready" /\ inbox' \in Seq(FromPeer(peer))  BY <1>0, TakenFrame
  <1>2. replies \in Nat /\ outbox \in Seq(ToPeer(resp.next))
    BY DEF ResponseInv, ConnInv, QueuesInv
  <1>3. replies' \in Nat  BY <1>2 DEF RxRequest
  <1>4. ASSUME NEW f \in ToPeer(resp.next), RxSend(f)
        PROVE  rx' \in {"ready", "sendwait"} /\ outbox' \in Seq(ToPeer(resp.next))
    <2>1. Append(outbox, f) \in Seq(ToPeer(resp.next))  BY <1>2, QueueAppend
    <2> QED BY <1>1, <1>2, <1>4, <2>1 DEF RxSend
  <1>5. rx' \in {"ready", "sendwait"} /\ outbox' \in Seq(ToPeer(resp.next))
    <2>1. OtherFrame \in ToPeer(resp.next) /\ BeginFrame \in ToPeer(resp.next)  BY FixedFrames
    <2>2. RxSend(OtherFrame) \/ RxSend(BeginFrame) \/ UNCHANGED <<outbox, rx>>
      BY DEF RxRequest
    <2> QED BY <1>1, <1>2, <1>4, <2>1, <2>2
  <1>6. ConnInv'  BY <1>0, <1>3 DEF ResponseInv, ConnInv
  <1>7. RespInv'  BY <1>0 DEF ResponseInv, RespInv
  <1>8. TaskInv'  BY <1>0, <1>5 DEF ResponseInv, TaskInv
  <1>9. RxInv'  BY <1>0, <1>5 DEF ResponseInv, RxInv
  <1>10. PeerInv'  BY <1>0 DEF ResponseInv, PeerInv
  <1>11. QueuesInv'  BY <1>0, <1>1, <1>5 DEF QueuesInv
  <1>12. RetainsUnreceived'  BY <1>0 DEF ResponseInv, RetainsUnreceived
  <1> QED BY <1>6, <1>7, <1>8, <1>9, <1>10, <1>11, <1>12 DEF ResponseInv

(* After an error the response is forgotten and its task over. *)
LEMMA RxErrorInv ==
    ASSUME ResponseInv, RxError
    PROVE  ResponseInv'
  <1>0. /\ Takes("error") /\ kept' = FALSE /\ task' = "done"
        /\ lock' = IF lock = "task" THEN "free" ELSE lock
        /\ UNCHANGED <<form, link, drops, outbox, rx, idx, resp, replies, peer>>
    BY DEF RxError, conn, loop
  <1>1. inbox' \in Seq(FromPeer(peer))  BY <1>0, TakenFrame
  <1>2. ConnInv'  BY <1>0 DEF ResponseInv, ConnInv
  <1>3. RespInv'  BY <1>0 DEF ResponseInv, RespInv
  <1>4. TaskInv'  BY <1>0 DEF TaskInv
  <1>5. RxInv'  BY <1>0 DEF ResponseInv, RxInv
  <1>6. PeerInv'  BY <1>0 DEF ResponseInv, PeerInv
  <1>7. QueuesInv'  BY <1>0, <1>1 DEF ResponseInv, QueuesInv
  <1>8. RetainsUnreceived'  BY <1>0 DEF RetainsUnreceived
  <1> QED BY <1>2, <1>3, <1>4, <1>5, <1>6, <1>7, <1>8 DEF ResponseInv

(* The resend loop keeps every chunk, and sends one it keeps. *)
LEMMA ResumeKeeps ==
    ASSUME NEW r \in Resps, r.unacked \subseteq 0 .. r.next - 1, idx \in 0 .. Chunks,
           NEW first, ResumeFrom(r, first)
    PROVE  /\ resp' \in Resps /\ resp'.unacked = r.unacked /\ resp'.next = r.next
           /\ rx' \in {"send", "credit", "endsend", "ready"} /\ lock' \in {"free", "rx"}
           /\ idx' \in 0 .. Chunks /\ (rx' = "send" => idx' \in resp'.unacked)
  <1> DEFINE rest == {off \in r.unacked : off >= first}
  <1>0. Chunks \in Nat /\ Window \in Nat  BY ConstantsAssumption
  <1>1. /\ r.credits \in 0 .. Window /\ r.unacked \subseteq 0 .. Chunks - 1
        /\ r.next \in 0 .. Chunks
    BY DEF Resps
  <1>2. ASSUME r.credits > 0
        PROVE  LET c == [r EXCEPT !.credits = @ - 1]
               IN  c \in Resps /\ c.unacked = r.unacked /\ c.next = r.next
    <2>1. r.credits - 1 \in 0 .. Window  BY <1>0, <1>1, <1>2
    <2> QED BY <2>1 DEF Resps
  <1>3. LET c == [r EXCEPT !.ready = TRUE]
        IN  c \in Resps /\ c.unacked = r.unacked /\ c.next = r.next
    BY DEF Resps
  <1>4. CASE /\ \E off \in rest : (\A other \in rest : off <= other) /\ idx' = off
             /\ lock' = "rx"
             /\ \/ r.credits > 0 /\ rx' = "send" /\ resp' = [r EXCEPT !.credits = @ - 1]
                \/ r.credits = 0 /\ rx' = "credit" /\ resp' = r
    <2>1. idx' \in r.unacked  BY <1>4
    <2>2. idx' \in 0 .. Chunks  BY <1>0, <1>1, <2>1
    <2> QED BY <1>2, <1>4, <2>1, <2>2
  <1>5. CASE /\ idx' = idx
             /\ \/ r.ended /\ rx' = "endsend" /\ lock' = "rx" /\ resp' = r
                \/ ~r.ended /\ rx' = "ready" /\ lock' = "free" /\ resp' = [r EXCEPT !.ready = TRUE]
    BY <1>3, <1>5
  <1> QED BY <1>4, <1>5 DEF ResumeFrom

(***************************************************************************)
(* A step of the receive loop that leaves the chunks alone, or drops those *)
(* below what the peer has received.                                       *)
(***************************************************************************)
LEMMA ReceiveStep ==
    ASSUME ResponseInv, UNCHANGED <<form, link, drops, task, replies, peer>>,
           task # "upstream", kept' \in BOOLEAN, kept' => kept \/ peer.state # "open",
           resp' \in Resps, resp'.next = resp.next, resp'.unacked \subseteq resp.unacked,
           \A off \in resp.unacked : off >= peer.received /\ kept' => off \in resp'.unacked,
           lock' \in {"free", "task", "rx"},
           rx' \in {"ready", "lock", "credit", "send", "endsend", "sendwait"},
           idx' \in 0 .. Chunks, rx' = "send" => idx' \in resp'.unacked,
           inbox' \in Seq(FromPeer(peer)), outbox' \in Seq(ToPeer(resp.next))
    PROVE  ResponseInv'
  <1>1. ConnInv'  BY DEF ResponseInv, ConnInv
  <1>2. RespInv'
    <2>1. resp'.unacked \subseteq 0 .. resp'.next - 1  BY DEF ResponseInv, RespInv
    <2> QED BY <2>1 DEF RespInv
  <1>3. TaskInv'  BY DEF ResponseInv, TaskInv
  <1>4. RxInv'  BY DEF RxInv
  <1>5. PeerInv'  BY DEF ResponseInv, PeerInv
  <1>6. QueuesInv'  BY DEF QueuesInv
  <1>7. RetainsUnreceived'
    <2> SUFFICES ASSUME kept', peer.state = "open",
                        NEW off \in peer.received .. resp.next - 1
                 PROVE  off \in resp'.unacked
      BY DEF RetainsUnreceived
    <2>1. off \in resp.unacked  BY DEF ResponseInv, RetainsUnreceived
    <2>2. peer.received \in Int /\ resp.next \in Int
      BY DEF ResponseInv, RespInv, Resps, PeerInv, Peers
    <2>3. off >= peer.received  BY <2>2
    <2> QED BY <2>1, <2>3
  <1> QED BY <1>1, <1>2, <1>3, <1>4, <1>5, <1>6, <1>7 DEF ResponseInv

(* A window drops only what the peer has received. *)
LEMMA RxWindowInv ==
    ASSUME ResponseInv, RxWindow
    PROVE  ResponseInv'
  <1> DEFINE m == Head(inbox)
             left == {off \in resp.unacked : StillNeeded(off, m.ack_offset)}
             r == [resp EXCEPT !.unacked = left, !.credits = CreditsAfter(m.credits)]
  <1>0. /\ Takes("window") /\ UNCHANGED <<form, link, drops, outbox, task, replies, peer>>
    BY DEF RxWindow, conn
  <1>1. rx = "ready" /\ inbox' \in Seq(FromPeer(peer))  BY <1>0, TakenFrame
  <1>2. /\ m.credits \in 0 .. Window /\ m.ack_offset \in Nat
        /\ m.ack_offset <= peer.received
    BY <1>0, TakenWindow
  <1>3. /\ resp \in Resps /\ resp.credits \in 0 .. Window
        /\ resp.unacked \subseteq 0 .. resp.next - 1 /\ kept \in BOOLEAN
        /\ lock \in {"free", "task", "rx"} /\ idx \in 0 .. Chunks
        /\ outbox \in Seq(ToPeer(resp.next)) /\ peer.received \in Int
    BY DEF ResponseInv, RespInv, Resps, RxInv, QueuesInv, PeerInv, Peers
  <1>4. left \subseteq resp.unacked
    OBVIOUS
  <1>5. \A off \in resp.unacked : off >= peer.received => off \in left
    <2> SUFFICES ASSUME NEW off \in resp.unacked, off >= peer.received
                 PROVE  off + 1 > m.ack_offset
      BY DEF StillNeeded
    <2>1. off \in Int  BY <1>3
    <2> QED BY <1>2, <1>3, <2>1
  <1>6. /\ [resp EXCEPT !.unacked = left] \in Resps
        /\ [resp EXCEPT !.unacked = left].next = resp.next
        /\ [resp EXCEPT !.unacked = left].unacked = left
    BY <1>3, <1>4 DEF Resps
  <1>7. CreditsAfter(m.credits) \in 0 .. Window  BY <1>2, <1>3, CreditsBounded
  <1>8. r \in Resps /\ r.next = resp.next /\ r.unacked = left
    BY <1>3, <1>4, <1>7 DEF Resps
  <1>9. \/ ~kept /\ UNCHANGED <<rx, idx, kept, resp, lock>>
        \/ /\ kept /\ m.complete /\ kept' = FALSE
           /\ resp' = [resp EXCEPT !.unacked = left] /\ UNCHANGED <<rx, idx, lock>>
        \/ /\ kept /\ kept' = kept /\ resp' = r /\ UNCHANGED <<idx, lock>>
           /\ rx' \in {rx, "lock"}
        \/ kept /\ kept' = kept /\ ResumeFrom(r, 0)
    BY DEF RxWindow, loop, state
  <1>10. kept => task # "upstream"  BY DEF ResponseInv, TaskInv
  <1> HIDE DEF m, left, r
  <1>11. CASE ~kept /\ UNCHANGED <<rx, idx, kept, resp, lock>>
    <2>1. ConnInv'  BY <1>0 DEF ResponseInv, ConnInv
    <2>2. RespInv'  BY <1>11 DEF ResponseInv, RespInv
    <2>3. TaskInv'  BY <1>0, <1>11 DEF ResponseInv, TaskInv
    <2>4. RxInv'  BY <1>11 DEF ResponseInv, RxInv
    <2>5. PeerInv'  BY <1>0, <1>11 DEF ResponseInv, PeerInv
    <2>6. QueuesInv'  BY <1>0, <1>1, <1>3, <1>11 DEF QueuesInv
    <2>7. RetainsUnreceived'  BY <1>11 DEF RetainsUnreceived
    <2> QED BY <2>1, <2>2, <2>3, <2>4, <2>5, <2>6, <2>7 DEF ResponseInv
  <1>12. CASE /\ kept /\ kept' = FALSE
              /\ resp' = [resp EXCEPT !.unacked = left] /\ UNCHANGED <<rx, idx, lock>>
    BY <1>0, <1>1, <1>3, <1>4, <1>6, <1>10, <1>12, ReceiveStep
  <1>13. CASE kept /\ kept' = kept /\ resp' = r /\ UNCHANGED <<idx, lock>> /\ rx' \in {rx, "lock"}
    BY <1>0, <1>1, <1>3, <1>4, <1>5, <1>8, <1>10, <1>13, ReceiveStep
  <1>14. CASE kept /\ kept' = kept /\ ResumeFrom(r, 0)
    <2>1. r.unacked \subseteq 0 .. r.next - 1  BY <1>3, <1>4, <1>8
    <2>2. /\ resp' \in Resps /\ resp'.unacked = r.unacked /\ resp'.next = r.next
          /\ rx' \in {"send", "credit", "endsend", "ready"} /\ lock' \in {"free", "rx"}
          /\ idx' \in 0 .. Chunks /\ (rx' = "send" => idx' \in resp'.unacked)
      BY <1>3, <1>8, <1>14, <2>1, ResumeKeeps
    <2>3. resp'.unacked \subseteq resp.unacked /\ resp'.next = resp.next
          /\ \A off \in resp.unacked : off >= peer.received /\ kept' => off \in resp'.unacked
      BY <1>4, <1>5, <1>8, <2>2
    <2> QED BY <1>0, <1>1, <1>3, <1>10, <1>14, <2>2, <2>3, ReceiveStep
  <1> QED BY <1>9, <1>11, <1>12, <1>13, <1>14

(* The resend, with send_lock taken late, chunk by chunk, to the end frame. *)
LEMMA ResendInv ==
    ASSUME ResponseInv, RxLock \/ RxResend \/ RxEndAgain
    PROVE  ResponseInv'
  <1>0. UNCHANGED <<form, link, drops, inbox, task, kept, replies, peer>>
    BY DEF RxLock, RxResend, RxEndAgain, conn
  <1>1. /\ resp \in Resps /\ resp.unacked \subseteq 0 .. resp.next - 1 /\ kept \in BOOLEAN
        /\ idx \in 0 .. Chunks /\ resp.next \in 0 .. Chunks
        /\ inbox \in Seq(FromPeer(peer)) /\ outbox \in Seq(ToPeer(resp.next))
        /\ rx = "send" => idx \in resp.unacked
        /\ rx \notin {"ready", "sendwait"} => task # "upstream"
    BY DEF ResponseInv, RespInv, Resps, RxInv, QueuesInv, TaskInv
  <1>2. ASSUME NEW first, ResumeFrom(resp, first), outbox' \in Seq(ToPeer(resp.next)),
               rx \in {"lock", "send"}
        PROVE  ResponseInv'
    <2>1. /\ resp' \in Resps /\ resp'.unacked = resp.unacked /\ resp'.next = resp.next
          /\ rx' \in {"send", "credit", "endsend", "ready"} /\ lock' \in {"free", "rx"}
          /\ idx' \in 0 .. Chunks /\ (rx' = "send" => idx' \in resp'.unacked)
      BY <1>1, <1>2, ResumeKeeps
    <2> QED BY <1>0, <1>1, <1>2, <2>1, ReceiveStep
  <1>3. CASE RxLock
    <2>1. rx = "lock" /\ ResumeFrom(resp, 0) /\ outbox' = outbox  BY <1>3 DEF RxLock
    <2> QED BY <1>1, <1>2, <2>1
  <1>4. CASE RxResend
    <2>1. /\ rx = "send" /\ ResumeFrom(resp, idx + 1)
          /\ outbox' = Append(outbox, DataFrame(idx))
      BY <1>4 DEF RxResend
    <2>2. resp.next \in Nat /\ idx \in 0 .. resp.next - 1  BY <1>1, <2>1, ConstantsAssumption
    <2>3. DataFrame(idx) \in ToPeer(resp.next)  BY <2>2, DataFits
    <2>4. outbox' \in Seq(ToPeer(resp.next))  BY <1>1, <2>1, <2>3, QueueAppend
    <2> QED BY <1>2, <2>1, <2>4
  <1>5. CASE RxEndAgain
    <2>1. /\ rx = "endsend" /\ rx' = "ready" /\ lock' = "free" /\ idx' = idx
          /\ resp' = [resp EXCEPT !.ready = TRUE] /\ outbox' = Append(outbox, EndFrame)
      BY <1>5 DEF RxEndAgain
    <2>2. resp' \in Resps /\ resp'.unacked = resp.unacked /\ resp'.next = resp.next
      BY <1>1, <2>1 DEF Resps
    <2>3. EndFrame \in ToPeer(resp.next)  BY FixedFrames
    <2>4. outbox' \in Seq(ToPeer(resp.next))  BY <1>1, <2>1, <2>3, QueueAppend
    <2> QED BY <1>0, <1>1, <2>1, <2>2, <2>4, ReceiveStep
  <1> QED BY <1>3, <1>4, <1>5

(* The end of the receive loop makes a registered response not ready. *)
LEMMA LoopExitsInv ==
    ASSUME ResponseInv, LoopExits
    PROVE  ResponseInv'
  <1>0. /\ link' = "down" /\ UNCHANGED <<form, drops, inbox, outbox, rx, idx, task, kept, lock, replies, peer>>
        /\ resp' = IF kept THEN [resp EXCEPT !.ready = FALSE] ELSE resp
    BY DEF LoopExits, loop
  <1>1. resp \in Resps  BY DEF ResponseInv, RespInv
  <1>2. resp' \in Resps /\ resp'.unacked = resp.unacked /\ resp'.next = resp.next
    BY <1>0, <1>1 DEF Resps
  <1>3. ConnInv'  BY <1>0 DEF ResponseInv, ConnInv
  <1>4. RespInv'  BY <1>0, <1>2 DEF ResponseInv, RespInv
  <1>5. TaskInv'  BY <1>0, <1>2 DEF ResponseInv, TaskInv
  <1>6. RxInv'  BY <1>0, <1>2 DEF ResponseInv, RxInv
  <1>7. PeerInv'  BY <1>0, <1>2 DEF ResponseInv, PeerInv
  <1>8. QueuesInv'  BY <1>0, <1>2 DEF ResponseInv, QueuesInv
  <1>9. RetainsUnreceived'  BY <1>0, <1>2 DEF ResponseInv, RetainsUnreceived
  <1> QED BY <1>3, <1>4, <1>5, <1>6, <1>7, <1>8, <1>9 DEF ResponseInv

-----------------------------------------------------------------------------
(* At first nothing is numbered, sent or on its way. *)
LEMMA ResponseInitInv == Init => ResponseInv
  <1> SUFFICES ASSUME Init PROVE ResponseInv
    OBVIOUS
  <1>0. Chunks \in Nat /\ Window \in Nat /\ MaxDrops \in Nat  BY ConstantsAssumption
  <1>1. ConnInv  BY <1>0 DEF Init, ConnInv
  <1>2. RespInv
    <2>1. NewResponse \in Resps /\ NewResponse.unacked = {}
      <3>1. 0 \in 0 .. Window /\ 0 \in 0 .. Chunks  BY <1>0
      <3> QED BY <3>1 DEF Resps, NewResponse
    <2>2. resp = NewResponse /\ kept = FALSE /\ lock = "free"  BY DEF Init
    <2>3. resp.unacked \subseteq 0 .. resp.next - 1  BY <2>1, <2>2
    <2>4. kept \in BOOLEAN  BY <2>2
    <2> QED BY <2>1, <2>2, <2>3, <2>4 DEF RespInv
  <1>3. TaskInv
    <2>1. /\ task = "upstream" /\ resp = NewResponse /\ kept = FALSE
          /\ lock = "free" /\ rx = "ready"
      BY DEF Init
    <2> QED BY <2>1, Zenon DEF TaskInv
  <1>4. RxInv  BY <1>0 DEF Init, RxInv
  <1>5. PeerInv  BY <1>0 DEF Init, PeerInv, Peers, NewResponse
  <1>6. QueuesInv
    <2>1. <<>> \in Seq(FromPeer(peer)) /\ <<>> \in Seq(ToPeer(resp.next))  OBVIOUS
    <2> QED BY <2>1 DEF Init, QueuesInv
  <1>7. RetainsUnreceived  BY DEF Init, RetainsUnreceived
  <1> QED BY <1>1, <1>2, <1>3, <1>4, <1>5, <1>6, <1>7 DEF ResponseInv

(* Every step keeps the invariant. *)
LEMMA ResponseNextInv ==
    ASSUME ResponseInv, [Next]_vars
    PROVE  ResponseInv'
  <1>1. CASE UNCHANGED vars
    <2>1. UNCHANGED <<form, link, drops, inbox, outbox, rx, idx, task, kept, resp, lock, replies, peer>>
      BY <1>1 DEF vars, conn, loop, state
    <2>2. TaskInv'  BY <2>1 DEF ResponseInv, TaskInv
    <2>3. ConnInv' /\ RespInv'  BY <2>1 DEF ResponseInv, ConnInv, RespInv
    <2>4. RxInv' /\ PeerInv'  BY <2>1 DEF ResponseInv, RxInv, PeerInv
    <2>5. QueuesInv' /\ RetainsUnreceived'
      BY <2>1 DEF ResponseInv, QueuesInv, RetainsUnreceived
    <2> QED BY <2>2, <2>3, <2>4, <2>5 DEF ResponseInv
  <1>2. CASE TaskStep \/ SendReply \/ BodyBreaks  BY <1>2, TaskStepInv
  <1>3. CASE RxStep
    BY <1>3, RxRequestInv, RxWindowInv, RxErrorInv, ResendInv, LoopExitsInv DEF RxStep
  <1>4. CASE Drop \/ Reconnect  BY <1>4, ConnectionInv
  <1>5. CASE PeerReads \/ PeerConsumes \/ PeerCancels
    BY <1>5, PeerBeginInv, PeerDataInv, PeerConsumesInv, PeerEndsInv DEF PeerReads
  <1> QED BY <1>1, <1>2, <1>3, <1>4, <1>5 DEF Next

(* The invariant holds of every reachable state. *)
LEMMA ResponseInvariant == Spec => []ResponseInv
  <1>1. ResponseInv /\ [Next]_vars => ResponseInv'  BY ResponseNextInv
  <1> QED BY ResponseInitInv, <1>1, PTL DEF Spec

(***************************************************************************)
(* The state of a streamed response is always of its type: the credit      *)
(* queue holds no more than the window, no chunk is unacknowledged before  *)
(* it is numbered, and the peer never has more than the whole body.        *)
(***************************************************************************)
THEOREM ResponseTypes == Spec => []TypeOK
  <1>1. ResponseInv => TypeOK
    <2> SUFFICES ASSUME ResponseInv PROVE TypeOK
      OBVIOUS
    <2>1. /\ form \in Forms /\ link \in {"up", "closing", "down"}
          /\ drops \in 0 .. MaxDrops /\ replies \in Nat
      BY DEF ResponseInv, ConnInv
    <2>2. /\ resp.credits \in 0 .. Window /\ resp.unacked \subseteq 0 .. resp.next - 1
          /\ resp.next \in 0 .. Chunks /\ resp.ready \in BOOLEAN /\ resp.ended \in BOOLEAN
          /\ kept \in BOOLEAN /\ lock \in {"free", "task", "rx"}
      BY DEF ResponseInv, RespInv, Resps
    <2>3. /\ rx \in {"ready", "lock", "credit", "send", "endsend", "sendwait"}
          /\ idx \in 0 .. Chunks
      BY DEF ResponseInv, RxInv
    <2>4. task \in {"upstream", "begin", "ready", "credit", "lock", "send", "end", "fail", "done"}
      BY DEF ResponseInv, TaskInv
    <2>5. /\ peer.state \in {"open", "complete", "short", "failed", "cancelled"}
          /\ 0 <= peer.consumed /\ peer.consumed <= peer.received /\ peer.received <= Chunks
      BY ConstantsAssumption DEF ResponseInv, PeerInv, Peers
    <2> QED BY <2>1, <2>2, <2>3, <2>4, <2>5 DEF TypeOK
  <1> QED BY ResponseInvariant, <1>1, PTL

(***************************************************************************)
(* However often the connection is lost, and wherever the resend of the    *)
(* window handler is then, every chunk the peer has not received is still  *)
(* in response_state["unacked"] while the stream is open.                  *)
(***************************************************************************)
THEOREM UnreceivedKept == Spec => []RetainsUnreceived
  <1>1. ResponseInv => RetainsUnreceived  BY DEF ResponseInv
  <1> QED BY ResponseInvariant, <1>1, PTL

-----------------------------------------------------------------------------
(***************************************************************************)
(* Flow control.  Until a connection is lost from outside, the frames to   *)
(* the peer are one line: the begin frame, the chunks in order, the end.   *)
(* The grants to the client are another, and with the credits it has left  *)
(* they allow it no chunk the peer would have no room for.                 *)
(***************************************************************************)
LineOf(q, ahead, from, to, final) ==
    /\ Len(q) = ahead + (to - from) + final
    /\ \A i \in 1 .. Len(q) :
         /\ i <= ahead => q[i] = BeginFrame
         /\ ahead < i /\ i <= Len(q) - final => q[i] = DataFrame(from + (i - ahead - 1))
         /\ Len(q) - final < i => q[i] \in {EndFrame, ErrorFrame}

GrantsOf(q, read) ==
    \A i \in 1 .. Len(q) : q[i] = Grant(IF read + i = 0 THEN Window ELSE 1, read + i)

(* The begin frame on its way, the frame that ends it, the chunks sent. *)
Ahead == IF peer.begun THEN 0 ELSE 1
Final == IF task = "done" THEN 1 ELSE 0
Sent == IF task \in {"send", "lock"} THEN resp.next - 1 ELSE resp.next
(* What the last grant the client has read acknowledged; -1: it has none. *)
Read == peer.consumed - Len(inbox)

(* Nothing makes the client send again or the receive loop wait. *)
Undisturbed ==
    /\ link = "up" /\ rx = "ready" /\ replies = 0 /\ resp.ready = TRUE
    /\ \A i \in 1 .. Len(inbox) : inbox[i].type # "request"

SendsInLine ==
    IF task \in {"upstream", "begin"} THEN outbox = <<>> /\ peer.begun = FALSE
    ELSE LineOf(outbox, Ahead, peer.received, Sent, Final) /\ peer.received <= Sent

MayStillSend ==
    IF peer.begun
    THEN /\ GrantsOf(inbox, Read) /\ Read >= -1
         /\ resp.next + resp.credits <= (IF Read = -1 THEN 0 ELSE Read + Window)
    ELSE /\ peer.received = 0 /\ peer.consumed = 0 /\ inbox = <<>>
         /\ resp.next = 0 /\ resp.credits = 0

OpenFlow == peer.state = "open" => SendsInLine /\ MayStillSend
FlowInv == drops = 0 => Undisturbed /\ OpenFlow

(* The peer is never given cause to close the connection or to fail. *)
FlowKept ==
    drops = 0 => /\ link = "up"
                 /\ peer.state = "open" /\ Reads("data") =>
                        Head(outbox).offset = peer.received /\ Room > 0

(* The kinds of frames differ. *)
LEMMA FrameKinds ==
    ASSUME NEW off
    PROVE  /\ BeginFrame.type = "http_resp_begin" /\ EndFrame.type = "http_resp_end"
           /\ ErrorFrame.type = "error" /\ Request.type = "request"
           /\ Complete.type = "window"
           /\ DataFrame(off).type = "data" /\ DataFrame(off).offset = off
  BY DEF BeginFrame, EndFrame, ErrorFrame, Request, Complete, DataFrame

(* The kind of a grant, and what it says. *)
LEMMA GrantKind ==
    ASSUME NEW n, NEW ack
    PROVE  /\ Grant(n, ack).type = "window" /\ Grant(n, ack).credits = n
           /\ Grant(n, ack).complete = FALSE
  BY DEF Grant

(* An appended frame, and those before it. *)
LEMMA AppendedFrames ==
    ASSUME NEW S, NEW q \in Seq(S), NEW e
    PROVE  /\ Len(Append(q, e)) = Len(q) + 1 /\ Len(q) \in Nat
           /\ \A i \in 1 .. Len(q) : Append(q, e)[i] = q[i]
           /\ Append(q, e)[Len(q) + 1] = e
  <1>1. q \in Seq(S \cup {e}) /\ e \in S \cup {e}  OBVIOUS
  <1> QED BY <1>1, AppendProperties

(* The frames after the first. *)
LEMMA TailFrames ==
    ASSUME NEW S, NEW q \in Seq(S), q # <<>>
    PROVE  /\ Len(Tail(q)) = Len(q) - 1 /\ Len(q) \in Nat /\ Len(q) >= 1
           /\ Head(q) = q[1]
           /\ \A i \in 1 .. Len(q) - 1 : Tail(q)[i] = q[i + 1]
  BY HeadTailProperties, EmptySeq

(* The line grows by the next chunk. *)
LEMMA LineGrows ==
    ASSUME NEW S, NEW q \in Seq(S), NEW ahead \in {0, 1}, NEW from \in Nat, NEW to \in Nat,
           from <= to, LineOf(q, ahead, from, to, 0)
    PROVE  LineOf(Append(q, DataFrame(to)), ahead, from, to + 1, 0)
  <1> DEFINE p == Append(q, DataFrame(to))
  <1>1. /\ Len(p) = Len(q) + 1 /\ Len(q) \in Nat /\ p[Len(q) + 1] = DataFrame(to)
        /\ \A i \in 1 .. Len(q) : p[i] = q[i]
    BY AppendedFrames
  <1>2. Len(q) = ahead + (to - from)  BY DEF LineOf
  <1> HIDE DEF p
  <1>3. ASSUME NEW i \in 1 .. Len(p)
        PROVE  /\ i <= ahead => p[i] = BeginFrame
               /\ ahead < i /\ i <= Len(p) - 0 => p[i] = DataFrame(from + (i - ahead - 1))
               /\ ~(Len(p) - 0 < i)
    <2>1. CASE i = Len(q) + 1
      <3>1. ~(i <= ahead) /\ from + (i - ahead - 1) = to /\ ~(Len(p) - 0 < i)
        BY <1>1, <1>2, <2>1
      <3> QED BY <1>1, <2>1, <3>1
    <2>2. CASE i \in 1 .. Len(q)
      <3>1. p[i] = q[i] /\ i <= Len(q) - 0 /\ ~(Len(p) - 0 < i)  BY <1>1, <2>2
      <3> QED BY <2>2, <3>1 DEF LineOf
    <2> QED BY <1>1, <2>1, <2>2
  <1>4. Len(p) = ahead + ((to + 1) - from) + 0
    <2>1. (to + 1) - from = (to - from) + 1  OBVIOUS
    <2> QED BY <1>1, <1>2, <2>1
  <1> QED BY <1>3, <1>4 DEF LineOf, p

(* The line ends. *)
LEMMA LineEnds ==
    ASSUME NEW S, NEW q \in Seq(S), NEW ahead \in {0, 1}, NEW from \in Nat, NEW to \in Nat,
           from <= to, LineOf(q, ahead, from, to, 0), NEW e \in {EndFrame, ErrorFrame}
    PROVE  LineOf(Append(q, e), ahead, from, to, 1)
  <1> DEFINE p == Append(q, e)
  <1>1. /\ Len(p) = Len(q) + 1 /\ Len(q) \in Nat /\ p[Len(q) + 1] = e
        /\ \A i \in 1 .. Len(q) : p[i] = q[i]
    BY AppendedFrames
  <1>2. Len(q) = ahead + (to - from)  BY DEF LineOf
  <1> HIDE DEF p
  <1>3. ASSUME NEW i \in 1 .. Len(p)
        PROVE  /\ i <= ahead => p[i] = BeginFrame
               /\ ahead < i /\ i <= Len(p) - 1 => p[i] = DataFrame(from + (i - ahead - 1))
               /\ Len(p) - 1 < i => p[i] \in {EndFrame, ErrorFrame}
    <2>1. CASE i = Len(q) + 1
      <3>1. ~(i <= ahead) /\ ~(i <= Len(p) - 1)  BY <1>1, <1>2, <2>1
      <3> QED BY <1>1, <2>1, <3>1
    <2>2. CASE i \in 1 .. Len(q)
      <3>1. p[i] = q[i] /\ i <= Len(q) - 0 /\ ~(Len(p) - 1 < i)  BY <1>1, <2>2
      <3> QED BY <2>2, <3>1 DEF LineOf
    <2> QED BY <1>1, <2>1, <2>2
  <1>4. Len(p) = ahead + (to - from) + 1  BY <1>1, <1>2
  <1> QED BY <1>3, <1>4 DEF LineOf, p

(* The begin frame is read first. *)
LEMMA LineBegun ==
    ASSUME NEW S, NEW q \in Seq(S), NEW from \in Nat, NEW to \in Nat, NEW final \in {0, 1},
           from <= to, LineOf(q, 1, from, to, final)
    PROVE  q # <<>> /\ Head(q) = BeginFrame /\ LineOf(Tail(q), 0, from, to, final)
  <1>1. Len(q) = 1 + (to - from) + final  BY DEF LineOf
  <1>2. q # <<>>
    <2>1. Len(q) # 0  BY <1>1
    <2> QED BY <2>1, EmptySeq
  <1> DEFINE p == Tail(q)
  <1>3. /\ Len(p) = Len(q) - 1 /\ Len(q) \in Nat /\ Len(q) >= 1 /\ Head(q) = q[1]
        /\ \A i \in 1 .. Len(q) - 1 : p[i] = q[i + 1]
    BY <1>2, TailFrames
  <1> HIDE DEF p
  <1>4. Head(q) = BeginFrame
    <2>1. 1 \in 1 .. Len(q) /\ 1 <= 1  BY <1>3
    <2> QED BY <1>3, <2>1 DEF LineOf
  <1>5. ASSUME NEW i \in 1 .. Len(p)
        PROVE  /\ ~(i <= 0)
               /\ 0 < i /\ i <= Len(p) - final => p[i] = DataFrame(from + (i - 0 - 1))
               /\ Len(p) - final < i => p[i] \in {EndFrame, ErrorFrame}
    <2>1. /\ i + 1 \in 1 .. Len(q) /\ p[i] = q[i + 1] /\ 1 < i + 1 /\ ~(i <= 0)
          /\ (i + 1) - 1 - 1 = i - 0 - 1
          /\ i <= Len(p) - final => i + 1 <= Len(q) - final
          /\ Len(p) - final < i => Len(q) - final < i + 1
      BY <1>3
    <2> QED BY <2>1 DEF LineOf
  <1>6. Len(p) = 0 + (to - from) + final  BY <1>1, <1>3
  <1>7. LineOf(p, 0, from, to, final)  BY <1>5, <1>6 DEF LineOf
  <1> QED BY <1>2, <1>4, <1>7 DEF p

(* Then the chunks in order, then the end. *)
LEMMA LineRead ==
    ASSUME NEW S, NEW q \in Seq(S), NEW from \in Nat, NEW to \in Nat, NEW final \in {0, 1},
           from <= to, LineOf(q, 0, from, to, final), q # <<>>
    PROVE  /\ Head(q).type \in {"data", "http_resp_end", "error"}
           /\ Head(q).type = "data" => /\ Head(q).offset = from /\ from < to
                                       /\ LineOf(Tail(q), 0, from + 1, to, final)
  <1>1. Len(q) = (to - from) + final  BY DEF LineOf
  <1> DEFINE p == Tail(q)
  <1>3. /\ Len(p) = Len(q) - 1 /\ Len(q) \in Nat /\ Len(q) >= 1 /\ Head(q) = q[1]
        /\ \A i \in 1 .. Len(q) - 1 : p[i] = q[i + 1]
    BY TailFrames
  <1> HIDE DEF p
  <1>4. 1 \in 1 .. Len(q) /\ 0 < 1  BY <1>3
  <1>5. CASE Len(q) - final < 1
    <2>1. Head(q) \in {EndFrame, ErrorFrame}  BY <1>3, <1>4, <1>5 DEF LineOf
    <2>2. Head(q).type \in {"http_resp_end", "error"}  BY <2>1, FrameKinds
    <2> QED BY <2>2
  <1>6. CASE ~(Len(q) - final < 1)
    <2>1. 1 <= Len(q) - final /\ from + (1 - 0 - 1) = from /\ from < to  BY <1>1, <1>3, <1>6
    <2>2. Head(q) = DataFrame(from + (1 - 0 - 1))  BY <1>3, <1>4, <2>1 DEF LineOf
    <2>3. Head(q).type = "data" /\ Head(q).offset = from  BY <2>1, <2>2, FrameKinds
    <2>4. ASSUME NEW i \in 1 .. Len(p)
          PROVE  /\ ~(i <= 0)
                 /\ 0 < i /\ i <= Len(p) - final => p[i] = DataFrame(from + 1 + (i - 0 - 1))
                 /\ Len(p) - final < i => p[i] \in {EndFrame, ErrorFrame}
      <3>1. /\ i + 1 \in 1 .. Len(q) /\ p[i] = q[i + 1] /\ 0 < i + 1 /\ ~(i <= 0)
            /\ from + ((i + 1) - 0 - 1) = from + 1 + (i - 0 - 1)
            /\ i <= Len(p) - final => i + 1 <= Len(q) - final
            /\ Len(p) - final < i => Len(q) - final < i + 1
        BY <1>3
      <3> QED BY <3>1 DEF LineOf
    <2>5. Len(p) = 0 + (to - (from + 1)) + final  BY <1>1, <1>3
    <2>6. LineOf(p, 0, from + 1, to, final)  BY <2>4, <2>5 DEF LineOf
    <2> QED BY <2>1, <2>3, <2>6 DEF p
  <1> QED BY <1>5, <1>6

(* One grant more, and one less. *)
LEMMA GrantsGrow ==
    ASSUME NEW S, NEW q \in Seq(S), NEW read \in Int, read >= -1, GrantsOf(q, read),
           read + Len(q) + 1 # 0
    PROVE  GrantsOf(Append(q, Grant(1, read + Len(q) + 1)), read)
  <1> DEFINE p == Append(q, Grant(1, read + Len(q) + 1))
  <1>1. /\ Len(p) = Len(q) + 1 /\ Len(q) \in Nat
        /\ p[Len(q) + 1] = Grant(1, read + Len(q) + 1)
        /\ \A i \in 1 .. Len(q) : p[i] = q[i]
    BY AppendedFrames
  <1> HIDE DEF p
  <1>2. ASSUME NEW i \in 1 .. Len(p)
        PROVE  p[i] = Grant(IF read + i = 0 THEN Window ELSE 1, read + i)
    <2>1. CASE i = Len(q) + 1
      <3>1. read + i = read + Len(q) + 1  BY <1>1, <2>1
      <3> QED BY <1>1, <2>1, <3>1
    <2>2. CASE i \in 1 .. Len(q)  BY <1>1, <2>2 DEF GrantsOf
    <2> QED BY <1>1, <2>1, <2>2
  <1> QED BY <1>2 DEF GrantsOf, p

(* The grant that is read. *)
LEMMA GrantsRead ==
    ASSUME NEW S, NEW q \in Seq(S), NEW read \in Int, GrantsOf(q, read), q # <<>>
    PROVE  /\ Head(q) = Grant(IF read + 1 = 0 THEN Window ELSE 1, read + 1)
           /\ GrantsOf(Tail(q), read + 1)
  <1> DEFINE p == Tail(q)
  <1>1. /\ Len(p) = Len(q) - 1 /\ Len(q) \in Nat /\ Len(q) >= 1 /\ Head(q) = q[1]
        /\ \A i \in 1 .. Len(q) - 1 : p[i] = q[i + 1]
    BY TailFrames
  <1> HIDE DEF p
  <1>2. 1 \in 1 .. Len(q)  BY <1>1
  <1>3. Head(q) = Grant(IF read + 1 = 0 THEN Window ELSE 1, read + 1)
    BY <1>1, <1>2 DEF GrantsOf
  <1>4. ASSUME NEW i \in 1 .. Len(p)
        PROVE  p[i] = Grant(IF read + 1 + i = 0 THEN Window ELSE 1, read + 1 + i)
    <2>1. i + 1 \in 1 .. Len(q) /\ p[i] = q[i + 1] /\ read + (i + 1) = read + 1 + i
      BY <1>1
    <2> QED BY <2>1 DEF GrantsOf
  <1> QED BY <1>3, <1>4 DEF GrantsOf, p

(* The line of a response that has begun and sent nothing else. *)
LEMMA LineBegins ==
    ASSUME NEW from \in Nat
    PROVE  LineOf(Append(<<>>, BeginFrame), 1, from, from, 0)
  <1>1. <<>> \in Seq({BeginFrame}) /\ Len(<<>>) = 0  OBVIOUS
  <1>2. Len(Append(<<>>, BeginFrame)) = 1 /\ Append(<<>>, BeginFrame)[1] = BeginFrame
    BY <1>1, AppendedFrames
  <1> DEFINE p == Append(<<>>, BeginFrame)
  <1> HIDE DEF p
  <1>3. \A i \in 1 .. Len(p) : i = 1 /\ ~(1 < i) /\ ~(Len(p) - 0 < i) /\ p[i] = BeginFrame
    BY <1>2 DEF p
  <1>4. Len(p) = 1 + (from - from) + 0  BY <1>2 DEF p
  <1>5. LineOf(p, 1, from, from, 0)  BY <1>3, <1>4, Zenon DEF LineOf
  <1> QED BY <1>5 DEF p

(* Numbers and queues of the flow. *)
LEMMA FlowFacts ==
    ASSUME ResponseInv
    PROVE  /\ resp.next \in Nat /\ resp.credits \in Nat /\ Window \in Nat /\ Window > 0
           /\ peer.received \in Nat /\ peer.consumed \in Nat /\ peer.begun \in BOOLEAN
           /\ inbox \in Seq(FromPeer(peer)) /\ Len(inbox) \in Nat
           /\ outbox \in Seq(ToPeer(resp.next)) /\ Len(outbox) \in Nat
           /\ Ahead \in {0, 1} /\ Final \in {0, 1} /\ Sent \in Nat /\ Sent <= resp.next
           /\ Read \in Int
  <1>1. /\ resp.next \in Nat /\ resp.credits \in Nat /\ Window \in Nat /\ Window > 0
        /\ peer.received \in Nat /\ peer.consumed \in Nat
    <2>1. Chunks \in Nat /\ Window \in Nat /\ Window > 0  BY ConstantsAssumption
    <2>2. resp.next \in 0 .. Chunks /\ resp.credits \in 0 .. Window
      BY DEF ResponseInv, RespInv, Resps
    <2>3. peer.received \in 0 .. Chunks /\ peer.consumed \in 0 .. Chunks
      BY DEF ResponseInv, PeerInv, Peers
    <2> QED BY <2>1, <2>2, <2>3
  <1>2. peer.begun \in BOOLEAN  BY DEF ResponseInv, PeerInv, Peers
  <1>3. inbox \in Seq(FromPeer(peer)) /\ outbox \in Seq(ToPeer(resp.next))
    BY DEF ResponseInv, QueuesInv
  <1>4. Len(inbox) \in Nat /\ Len(outbox) \in Nat  BY <1>3, LenProperties
  <1>5. Ahead \in {0, 1} /\ Final \in {0, 1}  BY DEF Ahead, Final
  <1>6. Sent \in Nat /\ Sent <= resp.next
    <2>1. task \in {"send", "lock"} => resp.next > 0  BY DEF ResponseInv, TaskInv
    <2> QED BY <1>1, <2>1 DEF Sent
  <1>7. Read \in Int  BY <1>1, <1>4 DEF Read
  <1> QED BY <1>1, <1>2, <1>3, <1>4, <1>5, <1>6, <1>7

(* A step of the task that sends nothing. *)
LEMMA FlowUnsent ==
    ASSUME ResponseInv, Undisturbed, OpenFlow,
           UNCHANGED <<link, rx, replies, inbox, outbox, peer>>,
           resp'.ready = resp.ready, resp'.next \in Nat, resp'.credits \in Nat,
           resp'.next + resp'.credits = resp.next + resp.credits,
           task \notin {"upstream", "begin"}, task' \notin {"upstream", "begin"},
           Sent' = Sent, Final' = Final
    PROVE  Undisturbed' /\ OpenFlow'
  <1>1. Undisturbed'  BY DEF Undisturbed
  <1>2. ASSUME peer.state = "open"  PROVE SendsInLine' /\ MayStillSend'
    <2>1. SendsInLine /\ MayStillSend  BY <1>2 DEF OpenFlow
    <2>2. Ahead' = Ahead /\ Read' = Read  BY DEF Ahead, Read
    <2>3. SendsInLine'
      <3>1. LineOf(outbox, Ahead, peer.received, Sent, Final) /\ peer.received <= Sent
        BY <2>1 DEF SendsInLine
      <3>2. LineOf(outbox', Ahead', peer'.received, Sent', Final') /\ peer'.received <= Sent'
        BY <2>2, <3>1
      <3> QED BY <3>2 DEF SendsInLine
    <2>4. CASE peer.begun
      <3>1. /\ GrantsOf(inbox, Read) /\ Read >= -1
            /\ resp.next + resp.credits <= (IF Read = -1 THEN 0 ELSE Read + Window)
        BY <2>1, <2>4 DEF MayStillSend
      <3>2. /\ GrantsOf(inbox', Read') /\ Read' >= -1 /\ peer'.begun
            /\ resp'.next + resp'.credits <= (IF Read' = -1 THEN 0 ELSE Read' + Window)
        BY <2>2, <2>4, <3>1
      <3> QED BY <2>3, <3>2 DEF MayStillSend
    <2>5. CASE ~peer.begun
      <3>1. /\ peer.received = 0 /\ peer.consumed = 0 /\ inbox = <<>>
            /\ resp.next = 0 /\ resp.credits = 0
        BY <2>1, <2>5 DEF MayStillSend
      <3>2. resp'.next = 0 /\ resp'.credits = 0  BY <3>1
      <3> QED BY <2>3, <2>5, <3>1, <3>2 DEF MayStillSend
    <2> QED BY <2>4, <2>5
  <1> QED BY <1>1, <1>2 DEF OpenFlow

(* A step of the task that sends, in line. *)
LEMMA FlowSent ==
    ASSUME ResponseInv, Undisturbed, OpenFlow,
           UNCHANGED <<link, rx, replies, inbox, resp, peer>>,
           task' \notin {"upstream", "begin"},
           SendsInLine /\ MayStillSend => LineOf(outbox', Ahead, peer.received, Sent', Final'),
           Sent <= Sent', task \in {"upstream", "begin"} => Sent = 0, Sent' \in Nat
    PROVE  Undisturbed' /\ OpenFlow'
  <1>1. Undisturbed'  BY DEF Undisturbed
  <1>2. ASSUME peer.state = "open"  PROVE SendsInLine' /\ MayStillSend'
    <2>1. SendsInLine /\ MayStillSend  BY <1>2 DEF OpenFlow
    <2>2. Ahead' = Ahead /\ Read' = Read  BY DEF Ahead, Read
    <2>3. peer.received <= Sent'
      <3>1. CASE task \in {"upstream", "begin"}
        <4>1. peer.begun = FALSE  BY <2>1, <3>1 DEF SendsInLine
        <4>2. peer.received = 0  BY <2>1, <4>1 DEF MayStillSend
        <4> QED BY <4>2
      <3>2. CASE task \notin {"upstream", "begin"}
        <4>1. peer.received <= Sent  BY <2>1, <3>2 DEF SendsInLine
        <4> QED BY <4>1, FlowFacts
      <3> QED BY <3>1, <3>2
    <2>4. LineOf(outbox', Ahead', peer'.received, Sent', Final') /\ peer'.received <= Sent'
      BY <2>1, <2>2, <2>3
    <2>5. SendsInLine'  BY <2>4 DEF SendsInLine
    <2>6. MayStillSend'  BY <2>1, <2>2 DEF MayStillSend
    <2> QED BY <2>5, <2>6
  <1> QED BY <1>1, <1>2 DEF OpenFlow

(* The sending task keeps to the line and to its credits. *)
LEMMA TaskFlow ==
    ASSUME ResponseInv, Undisturbed, OpenFlow, TaskStep \/ SendReply \/ BodyBreaks
    PROVE  Undisturbed' /\ OpenFlow'
  <1>1. CASE Register
    <2>1. task = "upstream" /\ task' = "begin" /\ resp' = NewResponse
          /\ UNCHANGED <<link, inbox, outbox, rx, replies, peer>>
      BY <1>1 DEF Register, conn, loop
    <2>2. resp' = resp  BY <2>1 DEF ResponseInv, TaskInv
    <2>3. Undisturbed'  BY <2>1, <2>2 DEF Undisturbed
    <2>4. SendsInLine => SendsInLine'  BY <2>1 DEF SendsInLine
    <2>5. Read' = Read  BY <2>1 DEF Read
    <2>6. MayStillSend => MayStillSend'  BY <2>1, <2>2, <2>5 DEF MayStillSend
    <2> QED BY <2>1, <2>3, <2>4, <2>6 DEF OpenFlow
  <1>2. CASE SendBegin
    <2>1. /\ task = "begin" /\ task' = "ready" /\ outbox' = Append(outbox, BeginFrame)
          /\ UNCHANGED <<link, rx, replies, inbox, resp, peer>>
      BY <1>2 DEF SendBegin, TaskSends, conn, loop, state
    <2>2. Sent = resp.next /\ Sent' = resp.next /\ Final' = 0
      BY <2>1 DEF Sent, Final
    <2>3. ASSUME SendsInLine, MayStillSend
          PROVE  LineOf(outbox', Ahead, peer.received, Sent', Final') /\ Sent = 0
      <3>1. outbox = <<>> /\ peer.begun = FALSE  BY <2>1, <2>3 DEF SendsInLine
      <3>2. peer.received = 0 /\ resp.next = 0  BY <2>3, <3>1 DEF MayStillSend
      <3>3. Ahead = 1  BY <3>1 DEF Ahead
      <3>4. LineOf(Append(<<>>, BeginFrame), 1, 0, 0, 0)  BY LineBegins
      <3> QED BY <2>1, <2>2, <3>1, <3>2, <3>3, <3>4
    <2>4. CASE peer.state = "open"
      <3>1. Sent = 0  BY <2>3, <2>4 DEF OpenFlow
      <3> QED BY <2>1, <2>2, <2>3, <3>1, FlowFacts, FlowSent
    <2>5. CASE peer.state # "open"
      <3>1. Undisturbed'  BY <2>1 DEF Undisturbed
      <3> QED BY <2>1, <2>5, <3>1 DEF OpenFlow
    <2> QED BY <2>4, <2>5
  <1>3. CASE NextChunk \/ TakeCredit
    <2>1. /\ task \in {"ready", "credit"} /\ UNCHANGED <<link, rx, replies, inbox, outbox, peer>>
          /\ NumberChunk \/ (task' = "credit" /\ resp' = resp)
      BY <1>3 DEF NextChunk, TakeCredit, conn, loop
    <2>2. resp \in Resps  BY DEF ResponseInv, RespInv
    <2>3. CASE NumberChunk
      <3>1. /\ resp.credits > 0 /\ task' \in {"send", "lock"}
            /\ resp' = [resp EXCEPT !.credits = @ - 1, !.next = @ + 1,
                                    !.unacked = @ \cup {resp.next}]
        BY <2>3 DEF NumberChunk
      <3>2. /\ resp'.next = resp.next + 1 /\ resp'.credits = resp.credits - 1
            /\ resp'.ready = resp.ready
        BY <2>2, <3>1 DEF Resps
      <3>3. resp'.next \in Nat /\ resp'.credits \in Nat
            /\ resp'.next + resp'.credits = resp.next + resp.credits
            /\ resp'.next - 1 = resp.next
        <4>1. resp.next \in Nat /\ resp.credits \in Nat /\ resp.credits > 0
          BY <3>1, FlowFacts
        <4> QED BY <3>2, <4>1
      <3>4. Sent' = Sent /\ Final' = Final  BY <2>1, <3>1, <3>3 DEF Sent, Final
      <3> QED BY <2>1, <3>1, <3>2, <3>3, <3>4, FlowUnsent
    <2>4. CASE task' = "credit" /\ resp' = resp
      <3>1. Sent' = Sent /\ Final' = Final  BY <2>1, <2>4 DEF Sent, Final
      <3> QED BY <2>1, <2>4, <3>1, FlowFacts, FlowUnsent
    <2> QED BY <2>1, <2>3, <2>4
  <1>4. CASE TakeLock \/ BodyEnds \/ BodyBreaks
    <2>1. /\ UNCHANGED <<link, rx, replies, inbox, outbox, peer>>
          /\ \/ task = "lock" /\ task' = "send" /\ resp' = resp
             \/ task = "ready" /\ task' = "end" /\ resp' = [resp EXCEPT !.ended = TRUE]
             \/ task = "ready" /\ task' = "fail" /\ resp' = resp
      BY <1>4 DEF TakeLock, BodyEnds, BodyBreaks, conn, loop, state
    <2>2. resp \in Resps  BY DEF ResponseInv, RespInv
    <2>3. resp'.next = resp.next /\ resp'.credits = resp.credits /\ resp'.ready = resp.ready
      BY <2>1, <2>2 DEF Resps
    <2>4. Sent' = Sent /\ Final' = Final  BY <2>1, <2>3 DEF Sent, Final
    <2> QED BY <2>1, <2>3, <2>4, FlowFacts, FlowUnsent
  <1>5. CASE SendChunk
    <2>1. /\ task = "send" /\ task' = "ready"
          /\ outbox' = Append(outbox, DataFrame(resp.next - 1))
          /\ UNCHANGED <<link, rx, replies, inbox, resp, peer>>
      BY <1>5 DEF SendChunk, TaskSends, conn, loop
    <2>2. Sent = resp.next - 1 /\ Sent' = Sent + 1 /\ Final = 0 /\ Final' = 0
      BY <2>1, FlowFacts DEF Sent, Final
    <2>3. ASSUME SendsInLine  PROVE LineOf(outbox', Ahead, peer.received, Sent', Final')
      <3>1. LineOf(outbox, Ahead, peer.received, Sent, 0) /\ peer.received <= Sent
        BY <2>1, <2>2, <2>3 DEF SendsInLine
      <3>2. LineOf(Append(outbox, DataFrame(Sent)), Ahead, peer.received, Sent + 1, 0)
        BY <3>1, FlowFacts, LineGrows
      <3> QED BY <2>1, <2>2, <3>2
    <2>4. Sent <= Sent' /\ Sent' \in Nat  BY <2>2, FlowFacts
    <2> QED BY <2>1, <2>3, <2>4, FlowSent
  <1>6. CASE SendEnd \/ SendError
    <2>1. /\ task \in {"end", "fail"} /\ task' = "done"
          /\ \E e \in {EndFrame, ErrorFrame} : outbox' = Append(outbox, e)
          /\ UNCHANGED <<link, rx, replies, inbox, resp, peer>>
      BY <1>6 DEF SendEnd, SendError, TaskSends, conn, loop, state
    <2>2. Sent' = Sent /\ Final = 0 /\ Final' = 1  BY <2>1 DEF Sent, Final
    <2>3. ASSUME SendsInLine  PROVE LineOf(outbox', Ahead, peer.received, Sent', Final')
      <3>1. LineOf(outbox, Ahead, peer.received, Sent, 0) /\ peer.received <= Sent
        BY <2>1, <2>2, <2>3 DEF SendsInLine
      <3>2. PICK e \in {EndFrame, ErrorFrame} : outbox' = Append(outbox, e)  BY <2>1
      <3>3. LineOf(Append(outbox, e), Ahead, peer.received, Sent, 1)
        <4>1. /\ outbox \in Seq(ToPeer(resp.next)) /\ Ahead \in {0, 1}
              /\ peer.received \in Nat /\ Sent \in Nat
          BY FlowFacts
        <4> QED BY <3>1, <3>2, <4>1, LineEnds
      <3> QED BY <2>2, <3>2, <3>3
    <2>4. Sent <= Sent' /\ Sent' \in Nat  BY <2>2, FlowFacts
    <2> QED BY <2>1, <2>3, <2>4, FlowSent
  <1>7. CASE SendReply  BY <1>7 DEF SendReply, Undisturbed
  <1> QED BY <1>1, <1>2, <1>3, <1>4, <1>5, <1>6, <1>7 DEF TaskStep

(* The first frame on its way to an open peer. *)
LEMMA FirstInLine ==
    ASSUME ResponseInv, OpenFlow, peer.state = "open", outbox # <<>>
    PROVE  /\ task \notin {"upstream", "begin"}
           /\ ~peer.begun => /\ Head(outbox) = BeginFrame
                             /\ LineOf(Tail(outbox), 0, peer.received, Sent, Final)
           /\ peer.begun => Head(outbox).type \in {"data", "http_resp_end", "error"}
           /\ Head(outbox).type = "data" =>
                /\ peer.begun /\ Head(outbox).offset = peer.received
                /\ peer.received < Sent /\ Room > 0
                /\ LineOf(Tail(outbox), 0, peer.received + 1, Sent, Final)
  <1>1. SendsInLine /\ MayStillSend  BY DEF OpenFlow
  <1>2. task \notin {"upstream", "begin"}  BY <1>1 DEF SendsInLine
  <1>3. LineOf(outbox, Ahead, peer.received, Sent, Final) /\ peer.received <= Sent
    BY <1>1, <1>2 DEF SendsInLine
  <1>4. /\ outbox \in Seq(ToPeer(resp.next)) /\ peer.received \in Nat /\ Sent \in Nat
        /\ Final \in {0, 1}
    BY FlowFacts
  <1>5. CASE ~peer.begun
    <2>1. LineOf(outbox, 1, peer.received, Sent, Final)  BY <1>3, <1>5 DEF Ahead
    <2>2. Head(outbox) = BeginFrame /\ LineOf(Tail(outbox), 0, peer.received, Sent, Final)
      BY <1>3, <1>4, <2>1, LineBegun
    <2>3. Head(outbox).type # "data"  BY <2>2, FrameKinds
    <2> QED BY <1>2, <1>5, <2>2, <2>3
  <1>6. CASE peer.begun
    <2>1. LineOf(outbox, 0, peer.received, Sent, Final)  BY <1>3, <1>6 DEF Ahead
    <2>2. /\ Head(outbox).type \in {"data", "http_resp_end", "error"}
          /\ Head(outbox).type = "data" =>
               /\ Head(outbox).offset = peer.received /\ peer.received < Sent
               /\ LineOf(Tail(outbox), 0, peer.received + 1, Sent, Final)
      BY <1>3, <1>4, <2>1, LineRead
    <2>3. ASSUME peer.received < Sent  PROVE Room > 0
      <3>1. Read >= -1 /\ resp.next + resp.credits <= (IF Read = -1 THEN 0 ELSE Read + Window)
        BY <1>1, <1>6 DEF MayStillSend
      <3>2. /\ resp.next \in Nat /\ resp.credits \in Nat /\ Window \in Nat
            /\ peer.consumed \in Nat /\ Len(inbox) \in Nat /\ Sent <= resp.next
            /\ Read \in Int
        BY FlowFacts
      <3>3. Read # -1 /\ resp.next <= Read + Window  BY <1>4, <2>3, <3>1, <3>2
      <3>4. Read <= peer.consumed  BY <3>2 DEF Read
      <3>5. peer.received < peer.consumed + Window  BY <1>4, <2>3, <3>2, <3>3, <3>4
      <3> QED BY <1>4, <3>2, <3>5 DEF Room
    <2> QED BY <1>2, <1>6, <2>2, <2>3
  <1> QED BY <1>5, <1>6

(* What the peer does leaves an undisturbed response undisturbed. *)
LEMMA AnswerUndisturbed ==
    ASSUME ResponseInv, Undisturbed, UNCHANGED <<link, rx, replies, resp>>,
           NEW f, inbox' = inbox \/ (inbox' = Append(inbox, f) /\ f.type # "request")
    PROVE  Undisturbed'
  <1>1. \A i \in 1 .. Len(inbox) : inbox[i].type # "request"  BY DEF Undisturbed
  <1>2. \A i \in 1 .. Len(inbox') : inbox'[i].type # "request"
    <2>1. CASE inbox' = inbox  BY <1>1, <2>1
    <2>2. CASE inbox' = Append(inbox, f) /\ f.type # "request"
      <3>1. /\ Len(inbox') = Len(inbox) + 1 /\ Len(inbox) \in Nat
            /\ \A i \in 1 .. Len(inbox) : inbox'[i] = inbox[i]
            /\ inbox'[Len(inbox) + 1] = f
        BY <2>2, FlowFacts, AppendedFrames
      <3>2. \A i \in 1 .. Len(inbox') : i = Len(inbox) + 1 \/ i \in 1 .. Len(inbox)
        BY <3>1
      <3> QED BY <1>1, <2>2, <3>1, <3>2
    <2> QED BY <2>1, <2>2
  <1> QED BY <1>2 DEF Undisturbed

(* The open peer reads the line as it was sent, and grants in line. *)
LEMMA PeerFlow ==
    ASSUME ResponseInv, Undisturbed, OpenFlow, PeerReads \/ PeerConsumes \/ PeerCancels
    PROVE  Undisturbed' /\ OpenFlow'
  <1>0. UNCHANGED <<rx, replies, resp, task>>
    BY DEF PeerReads, PeerBegin, PeerData, PeerEnd, PeerOther, PeerConsumes, PeerCancels,
           loop, state
  <1>t. Sent' = Sent /\ Final' = Final  BY <1>0 DEF Sent, Final
  <1>1. CASE PeerBegin
    <2>1. /\ outbox # <<>> /\ Head(outbox).type = "http_resp_begin"
          /\ outbox' = Tail(outbox) /\ link' = link
      BY <1>1 DEF PeerBegin, Reads, conn
    <2>2. Undisturbed'
      <3>1. inbox' = inbox \/ inbox' = Append(inbox, Grant(Room, peer.consumed))
        BY <1>1 DEF PeerBegin
      <3>2. Grant(Room, peer.consumed).type # "request"  BY GrantKind
      <3> QED BY <1>0, <2>1, <3>1, <3>2, AnswerUndisturbed
    <2>3. ASSUME peer.state = "open"  PROVE SendsInLine' /\ MayStillSend'
      <3>1. /\ task \notin {"upstream", "begin"} /\ ~peer.begun
            /\ LineOf(Tail(outbox), 0, peer.received, Sent, Final)
        BY <2>1, <2>3, FirstInLine
      <3>2. SendsInLine /\ MayStillSend  BY <2>3 DEF OpenFlow
      <3>3. /\ peer.received = 0 /\ peer.consumed = 0 /\ inbox = <<>>
            /\ resp.next = 0 /\ resp.credits = 0
        BY <3>1, <3>2 DEF MayStillSend
      <3>4. /\ peer' = [peer EXCEPT !.begun = TRUE]
            /\ inbox' = Append(inbox, Grant(Room, peer.consumed))
        BY <1>1, <2>3, <3>1 DEF PeerBegin
      <3>5. /\ peer'.begun = TRUE /\ peer'.received = peer.received
            /\ peer'.consumed = peer.consumed
        BY <3>4, PeerFacts DEF Peers
      <3>6. SendsInLine'
        <4>1. peer.received <= Sent  BY <3>1, <3>2 DEF SendsInLine
        <4>2. Ahead' = 0  BY <3>5 DEF Ahead
        <4>3. LineOf(outbox', Ahead', peer'.received, Sent', Final')
          BY <1>t, <2>1, <3>1, <3>5, <4>2
        <4> QED BY <1>0, <1>t, <3>1, <3>5, <4>1, <4>3 DEF SendsInLine
      <3>7. MayStillSend'
        <4>1. Room = Window  BY <3>3, FlowFacts DEF Room
        <4>2. inbox' = Append(<<>>, Grant(Window, 0))  BY <3>3, <3>4, <4>1
        <4>3. Len(inbox') = 1 /\ inbox'[1] = Grant(Window, 0)
          <5>1. <<>> \in Seq({Request}) /\ Len(<<>>) = 0  OBVIOUS
          <5> QED BY <4>2, <5>1, AppendedFrames
        <4>4. Read' = -1  BY <3>3, <3>5, <4>3 DEF Read
        <4>5. GrantsOf(inbox', -1)  BY <4>3 DEF GrantsOf
        <4> QED BY <1>0, <3>3, <3>5, <4>4, <4>5 DEF MayStillSend
      <3> QED BY <3>6, <3>7
    <2>4. CASE peer.state # "open"
      <3>1. peer' = peer  BY <1>1, <2>4 DEF PeerBegin
      <3> QED BY <2>2, <2>4, <3>1 DEF OpenFlow
    <2> QED BY <2>2, <2>3, <2>4 DEF OpenFlow
  <1>2. CASE PeerData
    <2>1. outbox # <<>> /\ Head(outbox).type = "data"  BY <1>2 DEF PeerData, Reads
    <2>2. CASE peer.state # "open"
      <3>1. UNCHANGED <<link, inbox, peer>>  BY <1>2, <2>2 DEF PeerData, conn
      <3>2. Undisturbed'  BY <1>0, <3>1 DEF Undisturbed
      <3> QED BY <2>2, <3>1, <3>2 DEF OpenFlow
    <2>3. CASE peer.state = "open"
      <3>1. /\ peer.begun /\ Head(outbox).offset = peer.received
            /\ peer.received < Sent /\ Room > 0 /\ task \notin {"upstream", "begin"}
            /\ LineOf(Tail(outbox), 0, peer.received + 1, Sent, Final)
        BY <2>1, <2>3, FirstInLine
      <3>2. peer.received \in Nat /\ Sent \in Nat  BY FlowFacts
      <3>3. ~(Head(outbox).offset < peer.received) /\ ~(Head(outbox).offset > peer.received)
        BY <3>1, <3>2
      <3>4. /\ outbox' = Tail(outbox) /\ peer' = [peer EXCEPT !.received = @ + 1]
            /\ inbox' = inbox /\ link' = link
        BY <1>2, <2>3, <3>1, <3>3 DEF PeerData, conn
      <3>5. /\ peer'.begun = peer.begun /\ peer'.received = peer.received + 1
            /\ peer'.consumed = peer.consumed
        BY <3>4, PeerFacts DEF Peers
      <3>6. Undisturbed'  BY <1>0, <3>4 DEF Undisturbed
      <3>7. SendsInLine'
        <4>1. Ahead' = 0  BY <3>1, <3>5 DEF Ahead
        <4>2. LineOf(outbox', Ahead', peer'.received, Sent', Final')
          BY <1>t, <3>1, <3>4, <3>5, <4>1
        <4>3. peer'.received <= Sent'  BY <1>t, <3>1, <3>2, <3>5
        <4> QED BY <1>0, <3>1, <4>2, <4>3 DEF SendsInLine
      <3>8. MayStillSend'
        <4>1. MayStillSend  BY <2>3 DEF OpenFlow
        <4>2. Read' = Read  BY <3>4, <3>5 DEF Read
        <4> QED BY <1>0, <3>1, <3>4, <3>5, <4>1, <4>2 DEF MayStillSend
      <3> QED BY <3>6, <3>7, <3>8 DEF OpenFlow
    <2> QED BY <2>2, <2>3
  <1>3. CASE PeerConsumes
    <2>1. /\ peer.state = "open" /\ peer.consumed < peer.received
          /\ peer' = [peer EXCEPT !.consumed = @ + 1]
          /\ inbox' = Append(inbox, Grant(1, peer.consumed + 1))
          /\ outbox' = outbox /\ link' = link
      BY <1>3 DEF PeerConsumes, conn
    <2>2. /\ peer'.begun = peer.begun /\ peer'.received = peer.received
          /\ peer'.consumed = peer.consumed + 1
      BY <2>1, PeerFacts DEF Peers
    <2>3. Undisturbed'
      <3>1. Grant(1, peer.consumed + 1).type # "request"  BY GrantKind
      <3> QED BY <1>0, <2>1, <3>1, AnswerUndisturbed
    <2>4. SendsInLine /\ MayStillSend  BY <2>1 DEF OpenFlow
    <2>5. peer.begun
      <3>1. peer.received # 0  BY <2>1, FlowFacts
      <3> QED BY <2>4, <3>1 DEF MayStillSend
    <2>6. SendsInLine'
      <3>1. Ahead' = Ahead  BY <2>2 DEF Ahead
      <3> QED BY <1>0, <1>t, <2>1, <2>2, <2>4, <3>1 DEF SendsInLine
    <2>7. MayStillSend'
      <3>1. /\ GrantsOf(inbox, Read) /\ Read >= -1
            /\ resp.next + resp.credits <= (IF Read = -1 THEN 0 ELSE Read + Window)
        BY <2>4, <2>5 DEF MayStillSend
      <3>2. /\ inbox \in Seq(FromPeer(peer)) /\ Len(inbox) \in Nat /\ Read \in Int
            /\ peer.consumed \in Nat
        BY FlowFacts
      <3>3. Len(inbox') = Len(inbox) + 1  BY <2>1, <3>2, AppendedFrames
      <3>4. Read' = Read /\ Read + Len(inbox) + 1 = peer.consumed + 1
            /\ Read + Len(inbox) + 1 # 0
        BY <2>2, <3>2, <3>3 DEF Read
      <3>5. GrantsOf(Append(inbox, Grant(1, Read + Len(inbox) + 1)), Read)
        BY <3>1, <3>2, <3>4, GrantsGrow
      <3>6. GrantsOf(inbox', Read')  BY <2>1, <3>4, <3>5
      <3> QED BY <1>0, <2>2, <2>5, <3>1, <3>4, <3>6 DEF MayStillSend
    <2> QED BY <2>3, <2>6, <2>7 DEF OpenFlow
  <1>4. CASE PeerEnd \/ PeerOther \/ PeerCancels
    <2>1. link' = link  BY <1>4 DEF PeerEnd, PeerOther, PeerCancels, conn
    <2>2. Undisturbed'
      <3>1. \/ inbox' = inbox \/ inbox' = Append(inbox, ErrorFrame)
            \/ inbox' = Append(inbox, Complete)
        BY <1>4 DEF PeerEnd, PeerOther, PeerCancels
      <3>2. ErrorFrame.type # "request" /\ Complete.type # "request"  BY FrameKinds
      <3> QED BY <1>0, <2>1, <3>1, <3>2, AnswerUndisturbed
    <2>3. peer'.state # "open"
      <3>1. peer \in Peers  BY PeerFacts
      <3>2. CASE peer.state # "open"  
        BY <1>4, <3>2 DEF PeerEnd, PeerOther, PeerCancels
      <3>3. CASE peer.state = "open" /\ (PeerEnd \/ PeerCancels)
        <4>1. \E end \in {"complete", "short", "cancelled"} : peer' = [peer EXCEPT !.state = end]
          BY <3>3 DEF PeerEnd, PeerCancels
        <4> QED BY <3>1, <4>1 DEF Peers
      <3>4. CASE peer.state = "open" /\ PeerOther
        <4>1. outbox # <<>> /\ Head(outbox).type \in {"error", "other"}
              /\ peer' = IF Head(outbox).type = "error" THEN [peer EXCEPT !.state = "failed"]
                         ELSE peer
          BY <3>4 DEF PeerOther, Reads
        <4>2. Head(outbox).type # "other"
          <5>1. Head(outbox).type \in {"http_resp_begin", "data", "http_resp_end", "error"}
            BY <3>4, <4>1, FirstInLine, FrameKinds
          <5> QED BY <5>1
        <4> QED BY <3>1, <4>1, <4>2 DEF Peers
      <3> QED BY <1>4, <3>2, <3>3, <3>4
    <2> QED BY <2>2, <2>3 DEF OpenFlow
  <1> QED BY <1>1, <1>2, <1>3, <1>4 DEF PeerReads

(* The frame the receive loop takes from an open peer is the next grant. *)
LEMMA NextGrant ==
    ASSUME ResponseInv, OpenFlow, peer.state = "open", inbox # <<>>
    PROVE  /\ peer.begun /\ Head(inbox).type = "window" /\ Head(inbox).complete = FALSE
           /\ Head(inbox).credits \in Nat
           /\ GrantsOf(Tail(inbox), Read + 1) /\ Read + 1 >= -1 /\ Read + 1 # -1
           /\ resp.next + resp.credits + Head(inbox).credits <= Read + 1 + Window
  <1>1. MayStillSend  BY DEF OpenFlow
  <1>2. peer.begun  BY <1>1 DEF MayStillSend
  <1>3. /\ GrantsOf(inbox, Read) /\ Read >= -1
        /\ resp.next + resp.credits <= (IF Read = -1 THEN 0 ELSE Read + Window)
    BY <1>1, <1>2 DEF MayStillSend
  <1>4. /\ inbox \in Seq(FromPeer(peer)) /\ Read \in Int /\ Window \in Nat
        /\ resp.next \in Nat /\ resp.credits \in Nat
    BY FlowFacts
  <1> DEFINE n == IF Read + 1 = 0 THEN Window ELSE 1
  <1>5. Head(inbox) = Grant(n, Read + 1) /\ GrantsOf(Tail(inbox), Read + 1)
    BY <1>3, <1>4, GrantsRead
  <1>6. Head(inbox).type = "window" /\ Head(inbox).complete = FALSE /\ Head(inbox).credits = n
    <2> HIDE DEF n
    <2>1. /\ Grant(n, Read + 1).type = "window" /\ Grant(n, Read + 1).complete = FALSE
          /\ Grant(n, Read + 1).credits = n
      BY Zenon DEF Grant
    <2> QED BY <1>5, <2>1, Zenon
  <1>7. n \in Nat /\ resp.next + resp.credits + n <= Read + 1 + Window
    <2>1. CASE Read = -1  BY <1>3, <1>4, <2>1
    <2>2. CASE Read # -1  BY <1>3, <1>4, <2>2
    <2> QED BY <2>1, <2>2
  <1>8. Read + 1 >= -1 /\ Read + 1 # -1  BY <1>3, <1>4
  <1> HIDE DEF n
  <1> QED BY <1>2, <1>5, <1>6, <1>7, <1>8

(* What the receive loop leaves in the inbox are the grants after it. *)
LEMMA TailUndisturbed ==
    ASSUME ResponseInv, Undisturbed, inbox # <<>>, inbox' = Tail(inbox),
           UNCHANGED <<link, rx, replies>>, resp'.ready = resp.ready
    PROVE  Undisturbed'
  <1>1. \A i \in 1 .. Len(inbox) : inbox[i].type # "request"  BY DEF Undisturbed
  <1>2. /\ Len(inbox') = Len(inbox) - 1 /\ Len(inbox) \in Nat
        /\ \A i \in 1 .. Len(inbox) - 1 : inbox'[i] = inbox[i + 1]
    BY FlowFacts, TailFrames
  <1>3. \A i \in 1 .. Len(inbox') : i + 1 \in 1 .. Len(inbox) /\ i \in 1 .. Len(inbox) - 1
    BY <1>2
  <1>4. \A i \in 1 .. Len(inbox') : inbox'[i].type # "request"  BY <1>1, <1>2, <1>3
  <1> QED BY <1>4 DEF Undisturbed

(* The receive loop only takes grants while nothing is lost. *)
LEMMA ReceiveFlow ==
    ASSUME ResponseInv, Undisturbed, OpenFlow, RxStep
    PROVE  Undisturbed' /\ OpenFlow'
  <1>0. link = "up" /\ rx = "ready" /\ resp.ready = TRUE  BY DEF Undisturbed
  <1>1. CASE RxLock \/ RxResend \/ RxEndAgain \/ LoopExits
    BY <1>0, <1>1 DEF RxLock, RxResend, RxEndAgain, LoopExits
  <1>2. CASE RxRequest
    <2>1. inbox # <<>> /\ Head(inbox).type = "request"  BY <1>2 DEF RxRequest, Takes
    <2>2. inbox \in Seq(FromPeer(peer))  BY FlowFacts
    <2>3. Head(inbox) = inbox[1] /\ Len(inbox) \in Nat /\ Len(inbox) >= 1
      BY <2>1, <2>2, TailFrames
    <2>4. inbox[1].type # "request"  BY <2>3 DEF Undisturbed
    <2> QED BY <2>1, <2>3, <2>4
  <1>3. CASE RxError
    <2>1. /\ inbox # <<>> /\ Head(inbox).type = "error" /\ inbox' = Tail(inbox)
          /\ UNCHANGED <<link, rx, replies, resp, peer>>
      BY <1>3 DEF RxError, Takes, conn, loop
    <2>2. peer.state # "open"
      <3>1. Head(inbox).type # "window"  BY <2>1
      <3> QED BY <2>1, <3>1, NextGrant
    <2>3. Undisturbed'  BY <2>1, TailUndisturbed
    <2> QED BY <2>1, <2>2, <2>3 DEF OpenFlow
  <1>4. CASE RxWindow
    <2> DEFINE m == Head(inbox)
               left == {off \in resp.unacked : StillNeeded(off, m.ack_offset)}
               r == [resp EXCEPT !.unacked = left, !.credits = CreditsAfter(m.credits)]
    <2>1. /\ inbox # <<>> /\ inbox' = Tail(inbox)
          /\ UNCHANGED <<link, outbox, task, replies, peer>>
      BY <1>4 DEF RxWindow, Takes, conn
    <2>2. \/ UNCHANGED <<rx, resp>>
          \/ m.complete /\ rx' = rx /\ resp' = [resp EXCEPT !.unacked = left]
          \/ rx' = rx /\ resp' = r
      BY <1>0, <1>4 DEF RxWindow, loop, state
    <2>3. resp \in Resps  BY DEF ResponseInv, RespInv
    <2>4. /\ resp'.ready = resp.ready /\ resp'.next = resp.next /\ rx' = rx
          /\ \/ resp'.credits = resp.credits
             \/ resp'.credits = CreditsAfter(m.credits)
      BY <2>2, <2>3 DEF Resps
    <2>5. Undisturbed'  BY <2>1, <2>4, TailUndisturbed
    <2>6. ASSUME peer.state = "open"  PROVE SendsInLine' /\ MayStillSend'
      <3>1. SendsInLine /\ MayStillSend  BY <2>6 DEF OpenFlow
      <3>2. SendsInLine'
        <4>1. Sent' = Sent /\ Final' = Final /\ Ahead' = Ahead
          BY <2>1, <2>4 DEF Sent, Final, Ahead
        <4> QED BY <2>1, <3>1, <4>1 DEF SendsInLine
      <3>3. /\ peer.begun /\ m.credits \in Nat
            /\ GrantsOf(Tail(inbox), Read + 1) /\ Read + 1 >= -1 /\ Read + 1 # -1
            /\ resp.next + resp.credits + m.credits <= Read + 1 + Window
        BY <2>1, <2>6, NextGrant
      <3>4. /\ resp.next \in Nat /\ resp.credits \in Nat /\ Window \in Nat /\ Read \in Int
            /\ peer.consumed \in Nat /\ Len(inbox) \in Nat
        BY FlowFacts
      <3>5. Read' = Read + 1
        <4>1. Len(inbox') = Len(inbox) - 1  BY <2>1, FlowFacts, TailFrames
        <4> QED BY <2>1, <3>4, <4>1 DEF Read
      <3> HIDE DEF m, left, r
      <3>6. resp'.next + resp'.credits <= Read + 1 + Window
        <4>1. CreditsAfter(m.credits) \in Int /\ CreditsAfter(m.credits) <= resp.credits + m.credits
          BY <3>3, <3>4 DEF CreditsAfter, Least
        <4>2. CASE resp'.credits = resp.credits  BY <2>4, <3>3, <3>4, <4>2
        <4>3. CASE resp'.credits = CreditsAfter(m.credits)  BY <2>4, <3>3, <3>4, <4>1, <4>3
        <4> QED BY <2>4, <4>2, <4>3
      <3>7. /\ GrantsOf(inbox', Read') /\ Read' >= -1 /\ peer'.begun
            /\ resp'.next + resp'.credits <= (IF Read' = -1 THEN 0 ELSE Read' + Window)
        BY <2>1, <3>3, <3>5, <3>6
      <3>8. MayStillSend'  BY <3>7 DEF MayStillSend
      <3> QED BY <3>2, <3>8
    <2> QED BY <2>1, <2>5, <2>6 DEF OpenFlow
  <1> QED BY <1>1, <1>2, <1>3, <1>4 DEF RxStep

(* At first there is nothing in line. *)
LEMMA FlowInitInv == Init => FlowInv
  <1> SUFFICES ASSUME Init PROVE FlowInv
    OBVIOUS
  <1>1. Undisturbed
    <2>1. inbox = <<>> /\ Len(<<>>) = 0  BY DEF Init
    <2>2. resp.ready = TRUE  BY DEF Init, NewResponse
    <2> QED BY <2>1, <2>2 DEF Init, Undisturbed
  <1>2. SendsInLine  BY DEF Init, SendsInLine
  <1>3. MayStillSend
    <2>1. resp.next = 0 /\ resp.credits = 0  BY DEF Init, NewResponse
    <2>2. peer.received = 0 /\ peer.consumed = 0 /\ peer.begun = FALSE  BY DEF Init
    <2> QED BY <2>1, <2>2 DEF Init, MayStillSend
  <1> QED BY <1>1, <1>2, <1>3 DEF FlowInv, OpenFlow

(* Every step keeps the line, as long as nothing is lost. *)
LEMMA FlowNextInv ==
    ASSUME ResponseInv, FlowInv, [Next]_vars
    PROVE  FlowInv'
  <1> SUFFICES ASSUME drops' = 0 PROVE Undisturbed' /\ OpenFlow'
    BY DEF FlowInv
  <1>0. drops \in Nat /\ (drops' = drops \/ drops' = drops + 1)
    <2>1. drops \in Nat  BY ConstantsAssumption DEF ResponseInv, ConnInv
    <2>2. CASE UNCHANGED vars  BY <2>1, <2>2 DEF vars, conn
    <2>3. CASE TaskStep
      BY <2>1, <2>3 DEF TaskStep, Register, SendBegin, NextChunk, TakeCredit, TakeLock, BodyEnds,
                        SendChunk, SendEnd, SendError, conn
    <2>4. CASE SendReply \/ BodyBreaks  BY <2>1, <2>4 DEF SendReply, BodyBreaks, conn
    <2>5. CASE RxStep
      BY <2>1, <2>5 DEF RxStep, RxRequest, RxWindow, RxLock, RxResend, RxEndAgain, RxError,
                        LoopExits, conn
    <2>6. CASE Drop \/ Reconnect  BY <2>1, <2>6 DEF Drop, Reconnect
    <2>7. CASE PeerReads \/ PeerConsumes \/ PeerCancels
      BY <2>1, <2>7 DEF PeerReads, PeerBegin, PeerData, PeerEnd, PeerOther, PeerConsumes,
                        PeerCancels, conn
    <2> QED BY <2>2, <2>3, <2>4, <2>5, <2>6, <2>7 DEF Next
  <1>1. drops = 0 /\ Undisturbed /\ OpenFlow
    <2>1. drops = 0  BY <1>0
    <2> QED BY <2>1 DEF FlowInv
  <1>2. CASE UNCHANGED vars
    <2>1. UNCHANGED <<link, rx, replies, inbox, outbox, task, resp, peer>>
      BY <1>2 DEF vars, conn, loop, state
    <2>2. Undisturbed'  BY <1>1, <2>1 DEF Undisturbed
    <2>3. /\ Ahead' = Ahead /\ Final' = Final /\ Sent' = Sent /\ Read' = Read
      BY <2>1 DEF Ahead, Final, Sent, Read
    <2>4. SendsInLine => SendsInLine'  BY <2>1, <2>3 DEF SendsInLine
    <2>5. MayStillSend => MayStillSend'  BY <2>1, <2>3 DEF MayStillSend
    <2> QED BY <1>1, <2>1, <2>2, <2>4, <2>5 DEF OpenFlow
  <1>3. CASE TaskStep \/ SendReply \/ BodyBreaks  BY <1>1, <1>3, TaskFlow
  <1>4. CASE RxStep  BY <1>1, <1>4, ReceiveFlow
  <1>5. CASE Drop  BY <1>1, <1>5 DEF Drop
  <1>6. CASE Reconnect  BY <1>1, <1>6 DEF Reconnect, Undisturbed
  <1>7. CASE PeerReads \/ PeerConsumes \/ PeerCancels  BY <1>1, <1>7, PeerFlow
  <1> QED BY <1>2, <1>3, <1>4, <1>5, <1>6, <1>7 DEF Next

(***************************************************************************)
(* Credits and numbering agree with the peer's: until a connection is lost *)
(* from outside, a chunk that reaches the open peer is the next one it     *)
(* waits for, it has room for it, and so the peer never closes the         *)
(* connection itself and never fails the stream for what the client sent.  *)
(***************************************************************************)
THEOREM GrantsRespected == Spec => []FlowKept
  <1>1. ResponseInv /\ FlowInv /\ [Next]_vars => FlowInv'  BY FlowNextInv
  <1>2. ResponseInv /\ FlowInv => FlowKept
    <2> SUFFICES ASSUME ResponseInv, Undisturbed, OpenFlow
                 PROVE  /\ link = "up"
                        /\ peer.state = "open" /\ Reads("data") =>
                               Head(outbox).offset = peer.received /\ Room > 0
      BY DEF FlowInv, FlowKept
    <2>1. link = "up"  BY DEF Undisturbed
    <2>2. ASSUME peer.state = "open", Reads("data")
          PROVE  Head(outbox).offset = peer.received /\ Room > 0
      BY <2>2, FirstInLine DEF Reads
    <2> QED BY <2>1, <2>2
  <1> QED BY ResponseInvariant, FlowInitInv, <1>1, <1>2, PTL DEF Spec

=============================================================================
