------------------------- MODULE TunnelRequestProofs -------------------------
(***************************************************************************)
(* Proofs about the request half of a stream through the tunnel, for any   *)
(* body, window, body limit and number of losses.                          *)
(*                                                                         *)
(* The upstream gets a prefix of the body because the queue continues what *)
(* it was given and ends where the chunks received end.  Nothing is cut    *)
(* off because data on the way to the client continues what was received,  *)
(* frame by frame, whatever a loss has cut off behind it.  The             *)
(* window is kept because, until the first loss, each acknowledgement says *)
(* how many credits were given before it.                                  *)
(***************************************************************************)
EXTENDS TunnelRequest, SequenceTheorems, TLAPS

(* Types; frames are told apart by their type, and then have their fields. *)
InTypes == {"begin", "data", "end", "error"}
OutTypes == {"window", "error", "response"}
PeerStates == {"idle", "active", "answered", "failed", "cancelled"}
Tasks == {"none", "get", "credit", "upstream", "respond", "fail", "done"}

InFrames == {Begin, EndFrame, Error} \cup {Data(o, e) : o \in Nat, e \in BOOLEAN}
OutFrames == {Error, Response} \cup {WindowFrame(c, a) : c \in Nat, a \in Nat}
Requests == [queue : Seq(Int), received : Nat, consumed : Nat, pending : Nat, ended : BOOLEAN]
Peers == [state : PeerStates, next : Nat, acked : Nat, credits : Nat, flagsEnd : BOOLEAN, endSent : BOOLEAN]

ConnTypes ==
    /\ body \in Bodies /\ declared \in BOOLEAN
    /\ link \in {"up", "closing", "down"} /\ drops \in 0 .. MaxDrops
    /\ rx \in {"ready", "sendwait", "putwait"}
    /\ inbox \in Seq(InFrames) /\ outbox \in Seq(OutFrames)
StreamTypes ==
    /\ live \in BOOLEAN /\ responded \in BOOLEAN
    /\ terminated \in {"no", "yes", "forgotten"}
    /\ req \in Requests /\ task \in Tasks /\ starts \in Nat
    /\ got \in Seq(Nat) /\ peer \in Peers

(* Numbers: nothing passes the end of the body. *)
Bounds ==
    /\ req.consumed <= req.received /\ req.received <= body
    /\ req.pending <= 1 /\ req.pending <= req.consumed /\ Len(req.queue) <= Window
    /\ \A i \in 1 .. Len(req.queue) : req.queue[i] = End \/ req.queue[i] \in 0 .. body - 1
    /\ peer.acked <= peer.next /\ peer.next <= body /\ peer.credits <= Window
    /\ \A i \in 1 .. Len(inbox) : inbox[i].type = "data" =>
          inbox[i].offset < body /\ (inbox[i].end_of_body => inbox[i].offset + 1 = body)
    /\ \A i \in 1 .. Len(outbox) : outbox[i].type = "window" => outbox[i].ack_offset <= body

(* The task and the tables it is in. *)
Tables ==
    /\ live <=> task \notin {"none", "done"}
    /\ starts = 0 => task = "none" /\ req = NewRequest /\ got = <<>> /\ rx # "putwait"
    /\ starts # 0 /\ ~live => terminated # "no"
    /\ responded => task \in {"respond", "done"}
    /\ task \in {"get", "upstream"} => req.pending = 0
    /\ task = "credit" => req.pending = 1

(* The queue continues what the upstream was given, up to what was received. *)
Closed == Len(req.queue) > 0 /\ req.queue[Len(req.queue)] = End
Queue ==
    live => /\ Len(got) = req.consumed /\ req.received <= MaxBody
            /\ \A i \in 1 .. Len(req.queue) : i < Len(req.queue) \/ ~Closed => req.queue[i] = req.consumed + i - 1
            /\ Closed => req.ended /\ rx # "putwait" /\ req.received = req.consumed + Len(req.queue) - 1
            /\ ~Closed => req.received = req.consumed + Len(req.queue)
            /\ rx = "putwait" => req.ended
            /\ task = "upstream" => req.ended /\ rx # "putwait" /\ Len(req.queue) = 0

Given == /\ \A i \in 1 .. Len(got) : got[i] = i - 1
         /\ Len(got) <= MaxBody

(* What the peer is told while the upstream request is the first one. *)
Told ==
    starts <= 1 =>
        /\ peer.acked <= req.received
        /\ \A i \in 1 .. Len(outbox) : outbox[i].type = "window" => outbox[i].ack_offset <= req.received
        /\ live /\ req.ended => req.received = body

(* Before the stream is started the peer has nothing to send but the begin. *)
Unstarted ==
    starts = 0 =>
        /\ peer.next = 0 /\ peer.acked = 0 /\ peer.credits = 0
        /\ \A i \in 1 .. Len(outbox) : outbox[i].type # "window"
        /\ \A i \in 1 .. Len(inbox) : inbox[i].type \notin {"data", "end"}

(* A chunk with this offset, as the n-th frame, is no gap. *)
Continues(n, offset) ==
    \/ offset <= req.received
    \/ \E j \in 1 .. Len(inbox) : j < n /\ inbox[j].type = "data" /\ inbox[j].offset + 1 = offset
Following ==
    starts <= 1 /\ live /\ rx # "sendwait" =>
        /\ \A i \in 1 .. Len(inbox) : inbox[i].type = "data" => Continues(i, inbox[i].offset)
        /\ \A i \in 1 .. Len(inbox) : inbox[i].type = "end" => Continues(i, body)
        /\ link = "up" => Continues(Len(inbox) + 1, peer.next)

(* Until the first loss: one begin, chunks in order, credits as acknowledged. *)
Credited == req.consumed - req.pending
OneBegin ==
    /\ link = "up"
    /\ \A i, j \in 1 .. Len(inbox) : inbox[i].type = "begin" /\ inbox[j].type = "begin" => i = j
    /\ \A i \in 1 .. Len(inbox) : inbox[i].type = "begin" => starts = 0 /\ peer.state # "idle" /\ outbox = <<>>
    /\ peer.state = "idle" => starts = 0 /\ outbox = <<>>
InOrder ==
    /\ req.received <= peer.next
    /\ \A i \in 1 .. Len(inbox) : inbox[i].type = "data" => req.received <= inbox[i].offset /\ inbox[i].offset < peer.next
    /\ \A i, j \in 1 .. Len(inbox) : i < j /\ inbox[i].type = "data" /\ inbox[j].type = "data" => inbox[i].offset < inbox[j].offset
Granted ==
    /\ Len(outbox) <= Credited + 1
    /\ \A i \in 1 .. Len(outbox) : /\ outbox[i].type = "window" /\ outbox[i].ack_offset = Credited + i - Len(outbox)
                                   /\ outbox[i].credits = IF outbox[i].ack_offset = 0 THEN Window ELSE 1
    /\ peer.acked <= Credited /\ peer.next + peer.credits <= Window + peer.acked
    /\ peer.state = "active" => IF Len(outbox) = Credited + 1 THEN peer.next = 0 /\ peer.credits = 0 /\ peer.acked = 0
                                ELSE peer.acked = Credited - Len(outbox)
Unbroken ==
    drops = 0 /\ fault = "none" => OneBegin /\ (live /\ starts <= 1 => InOrder /\ Granted)

Blame == OffsetsNeverBlamed

RequestInv ==
    /\ ConnTypes /\ StreamTypes /\ Bounds /\ Tables /\ Queue /\ Given
    /\ Told /\ Unstarted /\ Following /\ Unbroken /\ Blame

-----------------------------------------------------------------------------
(* Frames and queues. *)
LEMMA InFrame ==
    ASSUME NEW m \in InFrames
    PROVE  m.type \in InTypes /\ (m.type = "data" => m.offset \in Nat /\ m.end_of_body \in BOOLEAN)
  <1>1. CASE m \in {Begin, EndFrame, Error}
    BY <1>1 DEF Begin, EndFrame, Error, InTypes
  <1>2. CASE \E o \in Nat, e \in BOOLEAN : m = Data(o, e)
    BY <1>2 DEF Data, InTypes
  <1>3. QED
    BY <1>1, <1>2 DEF InFrames

LEMMA OutFrame ==
    ASSUME NEW m \in OutFrames
    PROVE  m.type \in OutTypes /\ (m.type = "window" => m.credits \in Nat /\ m.ack_offset \in Nat)
  <1>1. CASE m \in {Error, Response}
    BY <1>1 DEF Error, Response, OutTypes
  <1>2. CASE \E c \in Nat, a \in Nat : m = WindowFrame(c, a)
    BY <1>2 DEF WindowFrame, OutTypes
  <1>3. QED
    BY <1>1, <1>2 DEF OutFrames

LEMMA FrameKinds ==
    /\ Begin \in InFrames /\ Begin.type = "begin"
    /\ EndFrame \in InFrames /\ EndFrame.type = "end"
    /\ Error \in InFrames /\ Error \in OutFrames /\ Error.type = "error"
    /\ Response \in OutFrames /\ Response.type = "response"
    /\ \A o \in Nat, e \in BOOLEAN :
          Data(o, e) \in InFrames /\ Data(o, e).type = "data" /\ Data(o, e).offset = o /\ Data(o, e).end_of_body = e
    /\ \A c, a \in Nat :
          /\ WindowFrame(c, a) \in OutFrames /\ WindowFrame(c, a).type = "window"
          /\ WindowFrame(c, a).credits = c /\ WindowFrame(c, a).ack_offset = a
  <1>1. /\ Begin \in InFrames /\ EndFrame \in InFrames /\ Error \in InFrames
        /\ Error \in OutFrames /\ Response \in OutFrames
    BY DEF InFrames, OutFrames
  <1>2. Begin.type = "begin" /\ EndFrame.type = "end" /\ Error.type = "error" /\ Response.type = "response"
    BY DEF Begin, EndFrame, Error, Response
  <1>3. \A o \in Nat, e \in BOOLEAN : Data(o, e) \in InFrames
    BY DEF InFrames
  <1>4. \A o \in Nat, e \in BOOLEAN : Data(o, e).type = "data" /\ Data(o, e).offset = o /\ Data(o, e).end_of_body = e
    BY DEF Data
  <1>5. \A c, a \in Nat : WindowFrame(c, a) \in OutFrames
    BY DEF OutFrames
  <1>6. \A c, a \in Nat : /\ WindowFrame(c, a).type = "window"
                          /\ WindowFrame(c, a).credits = c /\ WindowFrame(c, a).ack_offset = a
    BY DEF WindowFrame
  <1>7. QED
    BY <1>1, <1>2, <1>3, <1>4, <1>5, <1>6

LEMMA SeqTail ==
    ASSUME NEW S, NEW q \in Seq(S), q # <<>>
    PROVE  /\ Len(q) \in Nat \ {0} /\ 1 \in 1 .. Len(q) /\ Head(q) = q[1] /\ Head(q) \in S
           /\ Tail(q) \in Seq(S) /\ Len(Tail(q)) = Len(q) - 1
           /\ \A i \in 1 .. Len(Tail(q)) : i + 1 \in 1 .. Len(q) /\ Tail(q)[i] = q[i + 1]
  OBVIOUS

LEMMA SeqAppend ==
    ASSUME NEW S, NEW q \in Seq(S), NEW x \in S
    PROVE  /\ Append(q, x) \in Seq(S) /\ Len(q) \in Nat /\ Len(Append(q, x)) = Len(q) + 1
           /\ Append(q, x)[Len(q) + 1] = x
           /\ \A i \in 1 .. Len(q) : Append(q, x)[i] = q[i]
           /\ \A i \in 1 .. Len(Append(q, x)) : i \in 1 .. Len(q) \/ i = Len(q) + 1
  OBVIOUS

LEMMA SeqEmpty ==
    ASSUME NEW S
    PROVE  <<>> \in Seq(S) /\ Len(<<>>) = 0 /\ (\A i \in 1 .. Len(<<>>) : FALSE)
  OBVIOUS

LEMMA SeqOfFunction ==
    ASSUME NEW S, NEW n \in Nat, NEW f \in [1 .. n -> S] PROVE f \in Seq(S)
  BY SeqDef, Zenon

LEMMA Constants ==
    /\ Bodies \subseteq Nat \ {0} /\ Window \in Nat \ {0} /\ MaxBody \in Nat /\ MaxDrops \in Nat
  BY ConstantsAssumption

(* The facts that every step starts from. *)
LEMMA Facts ==
    ASSUME RequestInv
    PROVE  /\ body \in Nat \ {0} /\ drops \in Nat /\ starts \in Nat
           /\ live \in BOOLEAN /\ responded \in BOOLEAN /\ declared \in BOOLEAN
           /\ inbox \in Seq(InFrames) /\ outbox \in Seq(OutFrames) /\ got \in Seq(Nat)
           /\ Len(inbox) \in Nat /\ Len(outbox) \in Nat /\ Len(got) \in Nat
           /\ req \in Requests /\ req.queue \in Seq(Int) /\ Len(req.queue) \in Nat
           /\ req.received \in Nat /\ req.consumed \in Nat /\ req.pending \in Nat /\ req.ended \in BOOLEAN
           /\ peer \in Peers /\ peer.next \in Nat /\ peer.acked \in Nat /\ peer.credits \in Nat
           /\ peer.state \in PeerStates /\ peer.flagsEnd \in BOOLEAN /\ peer.endSent \in BOOLEAN
           /\ \A i \in 1 .. Len(inbox) : inbox[i].type \in InTypes
           /\ \A i \in 1 .. Len(inbox) : inbox[i].type = "data" => inbox[i].offset \in Nat /\ inbox[i].end_of_body \in BOOLEAN
           /\ \A i \in 1 .. Len(outbox) : outbox[i].type \in OutTypes
           /\ \A i \in 1 .. Len(outbox) : outbox[i].type = "window" => outbox[i].credits \in Nat /\ outbox[i].ack_offset \in Nat
  <1>1. ConnTypes /\ StreamTypes
    BY DEF RequestInv
  <1>2. /\ body \in Nat \ {0} /\ drops \in Nat /\ starts \in Nat
        /\ live \in BOOLEAN /\ responded \in BOOLEAN /\ declared \in BOOLEAN
    BY <1>1, Constants DEF ConnTypes, StreamTypes
  <1>3. inbox \in Seq(InFrames) /\ outbox \in Seq(OutFrames) /\ got \in Seq(Nat)
    BY <1>1 DEF ConnTypes, StreamTypes
  <1>4. Len(inbox) \in Nat /\ Len(outbox) \in Nat /\ Len(got) \in Nat
    BY <1>3
  <1>5. req \in Requests /\ peer \in Peers
    BY <1>1 DEF StreamTypes
  <1>6. /\ req.queue \in Seq(Int) /\ req.received \in Nat /\ req.consumed \in Nat /\ req.pending \in Nat
        /\ req.ended \in BOOLEAN
    BY <1>5 DEF Requests
  <1>7. Len(req.queue) \in Nat
    BY <1>6
  <1>8. /\ peer.next \in Nat /\ peer.acked \in Nat /\ peer.credits \in Nat
        /\ peer.state \in PeerStates /\ peer.flagsEnd \in BOOLEAN /\ peer.endSent \in BOOLEAN
    BY <1>5 DEF Peers
  <1>9. (\A i \in 1 .. Len(inbox) : inbox[i] \in InFrames) /\ (\A i \in 1 .. Len(outbox) : outbox[i] \in OutFrames)
    BY <1>3
  <1>10. /\ \A i \in 1 .. Len(inbox) : inbox[i].type \in InTypes
         /\ \A i \in 1 .. Len(inbox) : inbox[i].type = "data" => inbox[i].offset \in Nat /\ inbox[i].end_of_body \in BOOLEAN
    BY <1>9, InFrame
  <1>11. /\ \A i \in 1 .. Len(outbox) : outbox[i].type \in OutTypes
         /\ \A i \in 1 .. Len(outbox) : outbox[i].type = "window" => outbox[i].credits \in Nat /\ outbox[i].ack_offset \in Nat
    BY <1>9, OutFrame
  <1>12. QED
    BY <1>2, <1>3, <1>4, <1>5, <1>6, <1>7, <1>8, <1>10, <1>11

-----------------------------------------------------------------------------
(* What the receive loop leaves in the inbox when it takes a frame. *)
LEMMA Taken ==
    ASSUME RequestInv, NEW type, Takes(type)
    PROVE  /\ rx = "ready" /\ link \in {"up", "closing"} /\ Head(inbox) = inbox[1] /\ inbox[1].type = type
           /\ inbox' \in Seq(InFrames) /\ Len(inbox) \in Nat \ {0} /\ Len(inbox') = Len(inbox) - 1 /\ 1 \in 1 .. Len(inbox)
           /\ \A i \in 1 .. Len(inbox') : i + 1 \in 1 .. Len(inbox) /\ inbox'[i] = inbox[i + 1]
  <1>1. /\ rx = "ready" /\ link \in {"up", "closing"} /\ inbox # <<>> /\ Head(inbox).type = type
        /\ inbox' = Tail(inbox)
    BY DEF Takes
  <1>2. inbox \in Seq(InFrames)
    BY Facts
  <1>3. /\ Len(inbox) \in Nat \ {0} /\ 1 \in 1 .. Len(inbox) /\ Head(inbox) = inbox[1]
        /\ Tail(inbox) \in Seq(InFrames) /\ Len(Tail(inbox)) = Len(inbox) - 1
        /\ \A i \in 1 .. Len(Tail(inbox)) : i + 1 \in 1 .. Len(inbox) /\ Tail(inbox)[i] = inbox[i + 1]
    BY <1>1, <1>2, SeqTail
  <1>4. QED
    BY <1>1, <1>3

(* Each frame that is left keeps its offset within the body. *)
LEMMA TakenBounds ==
    ASSUME RequestInv, NEW type, Takes(type)
    PROVE  /\ \A i \in 1 .. Len(inbox') : inbox'[i].type = "data" =>
                 inbox'[i].offset < body /\ (inbox'[i].end_of_body => inbox'[i].offset + 1 = body)
           /\ starts = 0 => \A i \in 1 .. Len(inbox') : inbox'[i].type \notin {"data", "end"}
  <1>1. \A i \in 1 .. Len(inbox') : i + 1 \in 1 .. Len(inbox) /\ inbox'[i] = inbox[i + 1]
    BY Taken
  <1>2. /\ \A i \in 1 .. Len(inbox) : inbox[i].type = "data" =>
              inbox[i].offset < body /\ (inbox[i].end_of_body => inbox[i].offset + 1 = body)
        /\ starts = 0 => \A i \in 1 .. Len(inbox) : inbox[i].type \notin {"data", "end"}
    BY DEF RequestInv, Bounds, Unstarted
  <1>3. QED
    BY <1>1, <1>2

(* What continued the body before still does, if the frame that was taken
   was no chunk or is received now. *)
LEMMA TakenFollows ==
    ASSUME RequestInv, NEW type, Takes(type), UNCHANGED <<body, link, peer>>,
           starts' \in Nat, starts <= starts',
           live' /\ starts' <= 1 => live,
           req'.received \in Nat, req.received <= req'.received,
           live' /\ starts' <= 1 /\ rx' # "sendwait" /\ type = "data" => inbox[1].offset + 1 <= req'.received
    PROVE  Following'
  <1>1. SUFFICES ASSUME starts' <= 1, live', rx' # "sendwait"
                 PROVE  /\ \A i \in 1 .. Len(inbox') : inbox'[i].type = "data" => Continues(i, inbox[i].offset)'
                        /\ \A i \in 1 .. Len(inbox') : inbox'[i].type = "end" => Continues(i, body)'
                        /\ link' = "up" => Continues(Len(inbox) + 1, peer.next)'
    BY DEF Following
  <1>2. /\ rx = "ready" /\ inbox[1].type = type
        /\ Len(inbox) \in Nat \ {0} /\ Len(inbox') = Len(inbox) - 1
        /\ \A i \in 1 .. Len(inbox') : i + 1 \in 1 .. Len(inbox) /\ inbox'[i] = inbox[i + 1]
    BY Taken
  <1>3. starts <= 1 /\ live /\ req.received \in Nat
    BY <1>1, Facts
  <1>4. /\ \A i \in 1 .. Len(inbox) : inbox[i].type = "data" => Continues(i, inbox[i].offset)
        /\ \A i \in 1 .. Len(inbox) : inbox[i].type = "end" => Continues(i, body)
        /\ link = "up" => Continues(Len(inbox) + 1, peer.next)
    BY <1>2, <1>3 DEF RequestInv, Following
  <1>5. ASSUME NEW n \in 1 .. Len(inbox') + 1, NEW k \in Nat, Continues(n + 1, k)
        PROVE  \/ k <= req'.received
               \/ \E j \in 1 .. Len(inbox') : j < n /\ inbox'[j].type = "data" /\ inbox'[j].offset + 1 = k
    <2>1. CASE k <= req.received
      BY <1>3, <2>1
    <2>2. CASE \E j \in 1 .. Len(inbox) : j < n + 1 /\ inbox[j].type = "data" /\ inbox[j].offset + 1 = k
      <3>1. PICK j \in 1 .. Len(inbox) : j < n + 1 /\ inbox[j].type = "data" /\ inbox[j].offset + 1 = k
        BY <2>2
      <3>2. CASE j = 1
        BY <1>1, <1>2, <3>1, <3>2
      <3>3. CASE j # 1
        <4>1. j - 1 \in 1 .. Len(inbox') /\ j - 1 < n /\ (j - 1) + 1 = j
          BY <1>2, <3>1, <3>3
        <4>2. inbox'[j - 1] = inbox[j]
          BY <1>2, <4>1
        <4>3. QED
          BY <3>1, <4>1, <4>2
      <3>4. QED
        BY <3>2, <3>3
    <2>3. QED
      BY <1>5, <2>1, <2>2 DEF Continues
  <1>6. ASSUME NEW i \in 1 .. Len(inbox'), inbox'[i].type = "data" PROVE Continues(i, inbox[i].offset)'
    <2>1. i + 1 \in 1 .. Len(inbox) /\ inbox'[i] = inbox[i + 1] /\ i \in 1 .. Len(inbox') + 1
      BY <1>2
    <2>2. Continues(i + 1, inbox'[i].offset) /\ inbox'[i].offset \in Nat
      BY <1>4, <1>6, <2>1, Facts
    <2>3. QED
      BY <1>5, <2>1, <2>2 DEF Continues
  <1>7. ASSUME NEW i \in 1 .. Len(inbox'), inbox'[i].type = "end" PROVE Continues(i, body)'
    <2>1. i + 1 \in 1 .. Len(inbox) /\ inbox'[i] = inbox[i + 1] /\ i \in 1 .. Len(inbox') + 1
      BY <1>2
    <2>2. Continues(i + 1, body) /\ body \in Nat
      BY <1>4, <1>7, <2>1, Facts
    <2>3. QED
      BY <1>5, <2>1, <2>2 DEF Continues
  <1>8. ASSUME link' = "up" PROVE Continues(Len(inbox) + 1, peer.next)'
    <2>1. Continues(Len(inbox) + 1, peer.next) /\ peer.next \in Nat
      BY <1>4, <1>8, Facts
    <2>2. Len(inbox') + 1 \in 1 .. Len(inbox') + 1 /\ Len(inbox) + 1 = (Len(inbox') + 1) + 1
      BY <1>2
    <2>3. Continues((Len(inbox') + 1) + 1, peer.next)
      BY <2>1, <2>2
    <2>4. QED
      BY <1>5, <2>1, <2>2, <2>3 DEF Continues
  <1>9. QED
    BY <1>6, <1>7, <1>8

(* Until the first loss: the begin that is left, and the order of the chunks. *)
LEMMA TakenBegins ==
    ASSUME RequestInv, NEW type, Takes(type), drops = 0, fault = "none"
    PROVE  /\ link = "up"
           /\ \A i, j \in 1 .. Len(inbox') : inbox'[i].type = "begin" /\ inbox'[j].type = "begin" => i = j
           /\ \A i \in 1 .. Len(inbox') : inbox'[i].type = "begin" => starts = 0 /\ peer.state # "idle" /\ outbox = <<>>
           /\ type = "begin" => /\ starts = 0 /\ peer.state # "idle" /\ outbox = <<>>
                                /\ \A i \in 1 .. Len(inbox') : inbox'[i].type # "begin"
           /\ peer.state = "idle" => starts = 0 /\ outbox = <<>>
  <1>1. /\ inbox[1].type = type /\ 1 \in 1 .. Len(inbox)
        /\ \A i \in 1 .. Len(inbox') : i + 1 \in 1 .. Len(inbox) /\ inbox'[i] = inbox[i + 1]
        /\ Len(inbox') \in Nat
    BY Taken
  <1>2. OneBegin
    BY DEF RequestInv, Unbroken
  <1>3. /\ link = "up" /\ (peer.state = "idle" => starts = 0 /\ outbox = <<>>)
        /\ \A i \in 1 .. Len(inbox) : inbox[i].type = "begin" => starts = 0 /\ peer.state # "idle" /\ outbox = <<>>
        /\ \A i, j \in 1 .. Len(inbox) : inbox[i].type = "begin" /\ inbox[j].type = "begin" => i = j
    BY <1>2 DEF OneBegin
  <1>4. ASSUME NEW i \in 1 .. Len(inbox'), NEW j \in 1 .. Len(inbox'),
               inbox'[i].type = "begin", inbox'[j].type = "begin"
        PROVE  i = j
    <2>1. /\ i + 1 \in 1 .. Len(inbox) /\ inbox[i + 1].type = "begin"
          /\ j + 1 \in 1 .. Len(inbox) /\ inbox[j + 1].type = "begin"
      BY <1>1, <1>4
    <2>2. i + 1 = j + 1
      BY <1>3, <2>1
    <2>3. i \in Int /\ j \in Int
      BY <1>1
    <2>4. QED
      BY <2>2, <2>3
  <1>5. ASSUME type = "begin", NEW i \in 1 .. Len(inbox'), inbox'[i].type = "begin" PROVE FALSE
    <2>1. i + 1 = 1
      BY <1>1, <1>3, <1>5
    <2>2. QED
      BY <2>1
  <1>6. \A i \in 1 .. Len(inbox') : inbox'[i].type = "begin" => starts = 0 /\ peer.state # "idle" /\ outbox = <<>>
    BY <1>1, <1>3
  <1>7. QED
    BY <1>1, <1>3, <1>4, <1>5, <1>6

LEMMA TakenOrder ==
    ASSUME RequestInv, InOrder, NEW type, Takes(type), UNCHANGED peer,
           \/ req'.received = req.received
           \/ type = "data" /\ req'.received = inbox[1].offset + 1
    PROVE  InOrder'
  <1>1. /\ inbox[1].type = type /\ 1 \in 1 .. Len(inbox) /\ Len(inbox') \in Nat
        /\ \A i \in 1 .. Len(inbox') : i + 1 \in 1 .. Len(inbox) /\ inbox'[i] = inbox[i + 1]
    BY Taken
  <1>2. /\ req.received <= peer.next
        /\ \A i \in 1 .. Len(inbox) : inbox[i].type = "data" => req.received <= inbox[i].offset /\ inbox[i].offset < peer.next
        /\ \A i, j \in 1 .. Len(inbox) : i < j /\ inbox[i].type = "data" /\ inbox[j].type = "data" => inbox[i].offset < inbox[j].offset
    BY DEF InOrder
  <1>3. /\ req.received \in Nat /\ peer.next \in Nat
        /\ \A i \in 1 .. Len(inbox) : inbox[i].type = "data" => inbox[i].offset \in Nat
    BY Facts
  <1>4. req'.received <= peer.next
    BY <1>1, <1>2, <1>3
  <1>5. ASSUME NEW i \in 1 .. Len(inbox'), inbox'[i].type = "data"
        PROVE  req'.received <= inbox'[i].offset /\ inbox'[i].offset < peer.next
    <2>1. /\ i + 1 \in 1 .. Len(inbox) /\ inbox'[i] = inbox[i + 1] /\ inbox[i + 1].type = "data"
          /\ 1 < i + 1
      BY <1>1, <1>5
    <2>2. inbox[i + 1].offset \in Nat /\ req.received <= inbox[i + 1].offset /\ inbox[i + 1].offset < peer.next
      BY <1>2, <1>3, <2>1
    <2>3. type = "data" => inbox[1].offset \in Nat /\ inbox[1].offset < inbox[i + 1].offset
      BY <1>1, <1>2, <1>3, <2>1
    <2>4. QED
      BY <2>1, <2>2, <2>3
  <1>6. ASSUME NEW i \in 1 .. Len(inbox'), NEW j \in 1 .. Len(inbox'), i < j,
               inbox'[i].type = "data", inbox'[j].type = "data"
        PROVE  inbox'[i].offset < inbox'[j].offset
    <2>1. i + 1 < j + 1
      BY <1>6
    <2>2. QED
      BY <1>1, <1>2, <1>6, <2>1
  <1>7. QED
    BY <1>4, <1>5, <1>6 DEF InOrder

LEMMA GrantedKept ==
    ASSUME Granted, UNCHANGED <<outbox, peer>>,
           req'.consumed - req'.pending = req.consumed - req.pending
    PROVE  Granted'
  BY DEF Granted, Credited

(* A frame sent by the receive loop is the last one, or the loop is caught. *)
LEMMA Sends ==
    ASSUME RequestInv, rx = "ready", NEW f \in OutFrames, RxSend(f)
    PROVE  /\ outbox' \in Seq(OutFrames) /\ rx' \in {"ready", "sendwait"}
           /\ \A i \in 1 .. Len(outbox') : outbox'[i] = f \/ (i \in 1 .. Len(outbox) /\ outbox'[i] = outbox[i])
           /\ link = "up" => outbox' = Append(outbox, f) /\ rx' = rx
           /\ link # "up" => UNCHANGED outbox /\ rx' = "sendwait"
  <1>1. outbox \in Seq(OutFrames)
    BY Facts
  <1>2. CASE link = "up"
    <2>1. outbox' = Append(outbox, f) /\ rx' = rx
      BY <1>2 DEF RxSend
    <2>2. /\ Append(outbox, f) \in Seq(OutFrames) /\ Append(outbox, f)[Len(outbox) + 1] = f
          /\ \A i \in 1 .. Len(outbox) : Append(outbox, f)[i] = outbox[i]
          /\ \A i \in 1 .. Len(Append(outbox, f)) : i \in 1 .. Len(outbox) \/ i = Len(outbox) + 1
      BY <1>1, SeqAppend
    <2>3. QED
      BY <1>2, <2>1, <2>2
  <1>3. CASE link # "up"
    <2>1. UNCHANGED outbox /\ rx' = "sendwait"
      BY <1>3 DEF RxSend
    <2>2. QED
      BY <1>1, <1>3, <2>1
  <1>4. QED
    BY <1>2, <1>3

-----------------------------------------------------------------------------
(* The receive loop answers a frame, and nothing else changes. *)
LEMMA ReplyInv ==
    ASSUME RequestInv, NEW type, Takes(type), NEW f \in OutFrames, RxSend(f),
           UNCHANGED <<conn, stream, task, got, peer, fault>>,
           f.type = "window" => live /\ f.ack_offset <= req.received,
           f.type = "response" => responded,
           type = "data" => live /\ inbox[1].offset < req.received,
           type = "begin" \/ type = "data"
    PROVE  RequestInv'
  <1>1. /\ UNCHANGED <<body, declared, link, drops>>
        /\ UNCHANGED <<live, req, responded, terminated, starts>>
        /\ UNCHANGED <<task, got, peer, fault>>
    BY DEF conn, stream
  <1>2. /\ rx = "ready" /\ inbox[1].type = type /\ 1 \in 1 .. Len(inbox) /\ inbox' \in Seq(InFrames)
    BY Taken
  <1>3. /\ outbox' \in Seq(OutFrames) /\ rx' \in {"ready", "sendwait"}
        /\ \A i \in 1 .. Len(outbox') : outbox'[i] = f \/ (i \in 1 .. Len(outbox) /\ outbox'[i] = outbox[i])
    BY <1>2, Sends
  <1>4. f.type \in OutTypes /\ (f.type = "window" => f.ack_offset \in Nat)
    BY OutFrame
  <1>5. /\ Bounds /\ Tables /\ Queue /\ Given /\ Told /\ Unstarted /\ Unbroken /\ Blame
        /\ ConnTypes /\ StreamTypes
    BY DEF RequestInv
  <1>6. ConnTypes' /\ StreamTypes'
    BY <1>1, <1>2, <1>3, <1>5 DEF ConnTypes, StreamTypes
  <1>7. /\ Tables' /\ Given' /\ Blame'
    BY <1>1, <1>3, <1>5 DEF Tables, Given, Blame, OffsetsNeverBlamed
  <1>8. Queue'
    BY <1>1, <1>2, <1>3, <1>5 DEF Queue, Closed
  <1>9. Bounds'
    <2>1. \A i \in 1 .. Len(inbox') : inbox'[i].type = "data" =>
             inbox'[i].offset < body /\ (inbox'[i].end_of_body => inbox'[i].offset + 1 = body)
      BY TakenBounds
    <2>2. req.received \in Nat /\ body \in Nat /\ req.received <= body
      BY <1>5, Facts DEF Bounds
    <2>3. f.type = "window" => f.ack_offset <= body
      BY <1>4, <2>2
    <2>4. \A i \in 1 .. Len(outbox') : outbox'[i].type = "window" => outbox'[i].ack_offset <= body
      BY <1>3, <1>5, <2>3 DEF Bounds
    <2>5. QED
      BY <1>1, <1>5, <2>1, <2>4 DEF Bounds
  <1>10. Told'
    <2>1. SUFFICES ASSUME starts <= 1
                   PROVE  \A i \in 1 .. Len(outbox') : outbox'[i].type = "window" => outbox'[i].ack_offset <= req.received
      BY <1>1, <1>5 DEF Told
    <2>2. QED
      BY <1>3, <1>5, <2>1 DEF Told
  <1>11. Unstarted'
    <2>1. starts = 0 => f.type # "window"
      BY <1>5 DEF Tables
    <2>2. QED
      BY <1>1, <1>3, <1>5, <2>1, TakenBounds DEF Unstarted
  <1>12. Following'
    <2>1. starts' \in Nat /\ starts <= starts' /\ req'.received \in Nat /\ req.received <= req'.received
      BY <1>1, Facts
    <2>2. type = "data" => inbox[1].offset + 1 <= req'.received
      <3>1. type = "data" => inbox[1].offset \in Nat /\ inbox[1].offset < req.received
        BY <1>2, Facts
      <3>2. req.received \in Nat /\ req'.received = req.received
        BY <1>1, Facts
      <3>3. QED
        BY <3>1, <3>2
    <2>3. QED
      BY <1>1, <2>1, <2>2, TakenFollows
  <1>13. Unbroken'
    <2>1. SUFFICES ASSUME drops = 0, fault = "none" PROVE OneBegin' /\ (live /\ starts <= 1 => FALSE)
      BY <1>1 DEF Unbroken
    <2>2. live => starts # 0
      BY <1>5 DEF Tables
    <2>3. live /\ starts <= 1 => InOrder
      BY <1>5, <2>1 DEF Unbroken
    <2>4. live /\ starts <= 1 /\ type = "data" => FALSE
      <3>1. SUFFICES ASSUME live, starts <= 1, type = "data" PROVE FALSE
        OBVIOUS
      <3>2. req.received <= inbox[1].offset /\ inbox[1].offset < req.received
        BY <1>2, <2>3, <3>1 DEF InOrder
      <3>3. req.received \in Nat /\ inbox[1].offset \in Nat
        BY <1>2, <3>1, Facts
      <3>4. QED
        BY <3>2, <3>3
    <2>5. live /\ starts <= 1 /\ type = "begin" => FALSE
      BY <2>1, <2>2, TakenBegins
    <2>6. \A i \in 1 .. Len(inbox') : inbox'[i].type # "begin"
      BY <2>1, <2>2, TakenBegins
    <2>7. link = "up" /\ peer.state # "idle"
      BY <2>1, <2>2, TakenBegins
    <2>8. OneBegin'
      BY <1>1, <2>6, <2>7 DEF OneBegin
    <2>9. QED
      BY <2>4, <2>5, <2>8
  <1>14. QED
    BY <1>6, <1>7, <1>8, <1>9, <1>10, <1>11, <1>12, <1>13 DEF RequestInv

(* The receive loop passes over a frame. *)
LEMMA SilentInv ==
    ASSUME RequestInv, NEW type, Takes(type), RxSilent,
           UNCHANGED <<conn, stream, task, got, peer, fault>>,
           live /\ starts <= 1 /\ type = "data" => inbox[1].offset + 1 <= req.received
    PROVE  RequestInv'
  <1>1. /\ UNCHANGED <<body, declared, link, drops>>
        /\ UNCHANGED <<live, req, responded, terminated, starts>>
        /\ UNCHANGED <<task, got, peer, fault, outbox, rx>>
    BY DEF conn, stream, RxSilent
  <1>2. inbox' \in Seq(InFrames)
    BY Taken
  <1>3. /\ Bounds /\ Tables /\ Queue /\ Given /\ Told /\ Unstarted /\ Unbroken /\ Blame
        /\ ConnTypes /\ StreamTypes
    BY DEF RequestInv
  <1>4. ConnTypes' /\ StreamTypes'
    BY <1>1, <1>2, <1>3 DEF ConnTypes, StreamTypes
  <1>5. /\ Tables' /\ Given' /\ Blame'
    BY <1>1, <1>3 DEF Tables, Given, Blame, OffsetsNeverBlamed
  <1>6. Queue' /\ Told'
    BY <1>1, <1>3 DEF Queue, Closed, Told
  <1>7. Bounds'
    BY <1>1, <1>3, TakenBounds DEF Bounds
  <1>8. Unstarted'
    BY <1>1, <1>3, TakenBounds DEF Unstarted
  <1>9. Following'
    <2>1. starts' \in Nat /\ starts <= starts' /\ req'.received \in Nat /\ req.received <= req'.received
      BY <1>1, Facts
    <2>2. QED
      BY <1>1, <2>1, TakenFollows
  <1>10. Unbroken'
    <2>1. SUFFICES ASSUME drops = 0, fault = "none" PROVE OneBegin' /\ (live /\ starts <= 1 => InOrder' /\ Granted')
      BY <1>1 DEF Unbroken
    <2>2. OneBegin'
      BY <1>1, <2>1, TakenBegins DEF OneBegin
    <2>3. ASSUME live, starts <= 1 PROVE InOrder' /\ Granted'
      <3>1. InOrder /\ Granted
        BY <1>3, <2>1, <2>3 DEF Unbroken
      <3>2. QED
        BY <1>1, <3>1, TakenOrder, GrantedKept
    <2>4. QED
      BY <2>2, <2>3
  <1>11. QED
    BY <1>4, <1>5, <1>6, <1>7, <1>8, <1>9, <1>10 DEF RequestInv

(* The begin of a stream that is not known starts an upstream request. *)
LEMMA StartInv ==
    ASSUME RequestInv, Takes("begin"), ~live, ~responded,
           live' = TRUE, req' = NewRequest, task' = "get", starts' = starts + 1, got' = <<>>,
           RxSend(WindowFrame(Window, 0)), UNCHANGED <<responded, terminated, conn, peer, fault>>
    PROVE  RequestInv'
  <1>1. UNCHANGED <<body, declared, link, drops, responded, terminated, peer, fault>>
    BY DEF conn
  <1>2. rx = "ready" /\ inbox' \in Seq(InFrames)
    BY Taken
  <1>3. /\ WindowFrame(Window, 0) \in OutFrames /\ WindowFrame(Window, 0).type = "window"
        /\ WindowFrame(Window, 0).credits = Window /\ WindowFrame(Window, 0).ack_offset = 0
    BY FrameKinds, Constants
  <1>4. /\ outbox' \in Seq(OutFrames) /\ rx' \in {"ready", "sendwait"}
        /\ \A i \in 1 .. Len(outbox') :
              outbox'[i] = WindowFrame(Window, 0) \/ (i \in 1 .. Len(outbox) /\ outbox'[i] = outbox[i])
        /\ link = "up" => outbox' = Append(outbox, WindowFrame(Window, 0)) /\ rx' = rx
    BY <1>2, <1>3, Sends
  <1>5. /\ req'.queue = <<>> /\ req'.received = 0 /\ req'.consumed = 0 /\ req'.pending = 0 /\ req'.ended = FALSE
        /\ req' \in Requests /\ Len(req'.queue) = 0 /\ (\A i \in 1 .. Len(req'.queue) : FALSE)
    BY DEF NewRequest, Requests
  <1>6. got' \in Seq(Nat) /\ Len(got') = 0 /\ (\A i \in 1 .. Len(got') : FALSE)
    OBVIOUS
  <1>7. /\ Bounds /\ Tables /\ Queue /\ Given /\ Told /\ Unstarted /\ Unbroken /\ Blame
        /\ ConnTypes /\ StreamTypes
    BY DEF RequestInv
  <1>8. starts \in Nat /\ starts' \in Nat /\ starts' # 0 /\ (starts' <= 1 => starts = 0)
    <2>1. starts \in Nat /\ starts' = starts + 1
      BY Facts
    <2>2. QED
      BY <2>1
  <1>9. ConnTypes'
    BY <1>1, <1>2, <1>4, <1>7 DEF ConnTypes
  <1>10. StreamTypes'
    BY <1>1, <1>5, <1>6, <1>7, <1>8 DEF StreamTypes, Tasks
  <1>11. Bounds'
    <2>1. body \in Nat
      BY Facts
    <2>2. \A i \in 1 .. Len(outbox') : outbox'[i].type = "window" => outbox'[i].ack_offset <= body
      BY <1>3, <1>4, <1>7, <2>1 DEF Bounds
    <2>3. /\ req'.consumed <= req'.received /\ req'.received <= body /\ req'.pending <= 1
          /\ req'.pending <= req'.consumed /\ Len(req'.queue) <= Window
      BY <1>5, <2>1, Constants
    <2>4. peer.acked <= peer.next /\ peer.next <= body /\ peer.credits <= Window
      BY <1>7 DEF Bounds
    <2>5. QED
      BY <1>1, <1>5, <2>2, <2>3, <2>4, TakenBounds DEF Bounds
  <1>12. Tables'
    BY <1>1, <1>5, <1>8 DEF Tables
  <1>13. Queue' /\ Given'
    <2>1. Queue'
      BY <1>4, <1>5, <1>6, Constants DEF Queue, Closed
    <2>2. Given'
      BY <1>6, Constants DEF Given
    <2>3. QED
      BY <2>1, <2>2
  <1>14. Told'
    <2>1. SUFFICES ASSUME starts = 0 PROVE Told'
      BY <1>8 DEF Told
    <2>2. peer.acked = 0 /\ \A i \in 1 .. Len(outbox) : outbox[i].type # "window"
      BY <1>7, <2>1 DEF Unstarted
    <2>3. \A i \in 1 .. Len(outbox') : outbox'[i].type = "window" => outbox'[i].ack_offset <= req'.received
      BY <1>3, <1>4, <1>5, <2>2
    <2>4. QED
      BY <1>1, <1>5, <2>2, <2>3 DEF Told
  <1>15. Unstarted'
    BY <1>8 DEF Unstarted
  <1>16. Following'
    <2>1. SUFFICES ASSUME starts = 0 PROVE Following'
      BY <1>8 DEF Following
    <2>2. peer.next = 0 /\ \A i \in 1 .. Len(inbox') : inbox'[i].type \notin {"data", "end"}
      BY <1>7, <2>1, TakenBounds DEF Unstarted
    <2>3. Continues(Len(inbox) + 1, peer.next)'
      BY <1>1, <1>5, <2>2 DEF Continues
    <2>4. QED
      BY <2>2, <2>3 DEF Following
  <1>17. Unbroken'
    <2>1. SUFFICES ASSUME drops = 0, fault = "none" PROVE OneBegin' /\ InOrder' /\ Granted'
      BY <1>1 DEF Unbroken
    <2>2. /\ link = "up" /\ starts = 0 /\ peer.state # "idle" /\ outbox = <<>>
          /\ \A i \in 1 .. Len(inbox') : inbox'[i].type # "begin"
      BY <2>1, TakenBegins
    <2>3. OneBegin'
      BY <1>1, <2>2 DEF OneBegin
    <2>4. /\ peer.next = 0 /\ peer.acked = 0 /\ peer.credits = 0
          /\ \A i \in 1 .. Len(inbox') : inbox'[i].type \notin {"data", "end"}
      BY <1>7, <2>2, TakenBounds DEF Unstarted
    <2>5. InOrder'
      BY <1>1, <1>5, <2>4 DEF InOrder
    <2>6. outbox' = Append(<<>>, WindowFrame(Window, 0))
      BY <1>4, <2>2
    <2>7. Len(outbox') = 1 /\ \A i \in 1 .. Len(outbox') : i = 1 /\ outbox'[i] = WindowFrame(Window, 0)
      BY <2>6
    <2>8. Credited' = 0 /\ Credited' + 1 = 1 /\ 0 + 1 - 1 = 0
      BY <1>5 DEF Credited
    <2>9. /\ Len(outbox') <= Credited' + 1 /\ peer'.acked <= Credited'
          /\ peer'.next + peer'.credits <= Window + peer'.acked
      BY <1>1, <2>4, <2>7, <2>8, Constants
    <2>10. \A i \in 1 .. Len(outbox') : /\ outbox'[i].type = "window" /\ outbox'[i].ack_offset = Credited' + i - Len(outbox')
                                       /\ outbox'[i].credits = IF outbox'[i].ack_offset = 0 THEN Window ELSE 1
      BY <1>3, <2>7, <2>8
    <2>11. Granted'
      BY <1>1, <2>4, <2>7, <2>8, <2>9, <2>10 DEF Granted
    <2>12. QED
      BY <2>3, <2>5, <2>11
  <1>18. Blame'
    BY <1>1, <1>7, <1>8 DEF Blame, OffsetsNeverBlamed
  <1>19. QED
    BY <1>9, <1>10, <1>11, <1>12, <1>13, <1>14, <1>15, <1>16, <1>17, <1>18 DEF RequestInv

LEMMA RxBeginInv ==
    ASSUME RequestInv, RxBegin PROVE RequestInv'
  <1>1. Takes("begin") /\ UNCHANGED <<conn, peer, fault>>
    BY DEF RxBegin
  <1>2. /\ Error \in OutFrames /\ Error.type = "error" /\ Response \in OutFrames /\ Response.type = "response"
    BY FrameKinds
  <1>3. CASE live
    <2>1. RxSend(WindowFrame(ResumeCredits, req.consumed)) /\ UNCHANGED <<stream, task, got>>
      BY <1>3 DEF RxBegin
    <2>2. ResumeCredits \in Nat
      <3>1. Window \in Nat /\ Len(req.queue) \in Nat /\ req.pending \in Nat
        BY Facts, Constants
      <3>2. QED
        BY <3>1 DEF ResumeCredits, Max0
    <2>3. /\ WindowFrame(ResumeCredits, req.consumed) \in OutFrames
          /\ WindowFrame(ResumeCredits, req.consumed).ack_offset = req.consumed
          /\ WindowFrame(ResumeCredits, req.consumed).type = "window"
      <3>1. req.consumed \in Nat
        BY Facts
      <3>2. QED
        BY <2>2, <3>1, FrameKinds
    <2>4. req.consumed <= req.received
      BY DEF RequestInv, Bounds
    <2>5. QED
      BY <1>1, <1>3, <2>1, <2>3, <2>4, ReplyInv
  <1>4. CASE ~live /\ responded
    <2>1. RxSend(Response) /\ UNCHANGED <<stream, task, got>>
      BY <1>4 DEF RxBegin
    <2>2. QED
      BY <1>1, <1>2, <1>4, <2>1, ReplyInv
  <1>5. CASE ~live /\ ~responded
    <2>1. PICK crowded \in BOOLEAN :
             IF crowded \/ (declared /\ body > MaxBody)
             THEN RxSend(Error) /\ UNCHANGED <<stream, task, got>>
             ELSE /\ live' = TRUE /\ req' = NewRequest /\ task' = "get" /\ starts' = starts + 1 /\ got' = <<>>
                  /\ RxSend(WindowFrame(Window, 0)) /\ UNCHANGED <<responded, terminated>>
      BY <1>5 DEF RxBegin
    <2>2. CASE RxSend(Error) /\ UNCHANGED <<stream, task, got>>
      BY <1>1, <1>2, <2>2, ReplyInv
    <2>3. CASE /\ live' = TRUE /\ req' = NewRequest /\ task' = "get" /\ starts' = starts + 1 /\ got' = <<>>
               /\ RxSend(WindowFrame(Window, 0)) /\ UNCHANGED <<responded, terminated>>
      BY <1>1, <1>5, <2>3, StartInv
    <2>4. QED
      BY <2>1, <2>2, <2>3
  <1>6. QED
    BY <1>3, <1>4, <1>5

LEMMA RxAbsorbInv ==
    ASSUME RequestInv, RxAbsorb PROVE RequestInv'
  BY SilentInv DEF RxAbsorb

LEMMA RxDuplicateInv ==
    ASSUME RequestInv, RxDuplicate PROVE RequestInv'
  <1>1. /\ live /\ Takes("data") /\ Head(inbox).offset < req.received
        /\ RxSend(WindowFrame(0, req.received)) /\ UNCHANGED <<conn, stream, task, got, peer, fault>>
    BY DEF RxDuplicate
  <1>2. inbox[1].offset < req.received
    BY <1>1, Taken
  <1>3. /\ WindowFrame(0, req.received) \in OutFrames /\ WindowFrame(0, req.received).type = "window"
        /\ WindowFrame(0, req.received).ack_offset = req.received /\ req.received <= req.received
    <2>1. req.received \in Nat /\ 0 \in Nat
      BY Facts
    <2>2. req.received <= req.received
      BY <2>1
    <2>3. QED
      BY <2>1, <2>2, FrameKinds
  <1>4. QED
    BY <1>1, <1>2, <1>3, ReplyInv

(* A stream that is rejected ends, or the loop is caught in telling so. *)
LEMMA RejectInv ==
    ASSUME RequestInv, live, NEW type, Takes(type), type # "begin", RejectStream, UNCHANGED <<conn, peer>>,
           fault' = "none" => fault = "none", Blame'
    PROVE  RequestInv'
  <1>1. /\ UNCHANGED <<body, declared, link, drops, peer, req, responded, starts, got>>
        /\ RxSend(Error)
        /\ link = "up" => live' = FALSE /\ terminated' = "yes" /\ task' = "done"
        /\ link # "up" => UNCHANGED <<live, terminated, task>>
    BY DEF conn, RejectStream
  <1>2. rx = "ready" /\ inbox' \in Seq(InFrames)
    BY Taken
  <1>3. Error \in OutFrames /\ Error.type = "error"
    BY FrameKinds
  <1>4. /\ outbox' \in Seq(OutFrames) /\ rx' \in {"ready", "sendwait"}
        /\ \A i \in 1 .. Len(outbox') : outbox'[i] = Error \/ (i \in 1 .. Len(outbox) /\ outbox'[i] = outbox[i])
        /\ link # "up" => UNCHANGED outbox /\ rx' = "sendwait"
    BY <1>1, <1>2, <1>3, Sends
  <1>5. /\ Bounds /\ Tables /\ Queue /\ Given /\ Told /\ Unstarted /\ Unbroken
        /\ ConnTypes /\ StreamTypes
    BY DEF RequestInv
  <1>6. starts # 0
    BY <1>5 DEF Tables
  <1>7. ConnTypes'
    BY <1>1, <1>2, <1>4, <1>5 DEF ConnTypes
  <1>8. StreamTypes'
    BY <1>1, <1>5 DEF StreamTypes, Tasks
  <1>9. Bounds'
    <2>1. \A i \in 1 .. Len(outbox') : outbox'[i].type = "window" => outbox'[i].ack_offset <= body
      BY <1>3, <1>4, <1>5 DEF Bounds
    <2>2. QED
      BY <1>1, <1>5, <2>1, TakenBounds DEF Bounds
  <1>10. Tables' /\ Unstarted' /\ Given'
    BY <1>1, <1>5, <1>6 DEF Tables, Unstarted, Given
  <1>11. Queue'
    BY <1>1, <1>4, <1>5 DEF Queue, Closed
  <1>12. Told'
    <2>1. \A i \in 1 .. Len(outbox') : outbox'[i].type = "window" =>
             \E j \in 1 .. Len(outbox) : outbox'[i] = outbox[j] /\ outbox[j].type = "window"
      BY <1>3, <1>4
    <2>2. QED
      BY <1>1, <1>5, <2>1 DEF Told
  <1>13. Following'
    BY <1>1, <1>4 DEF Following
  <1>14. Unbroken'
    <2>1. SUFFICES ASSUME drops = 0, fault = "none" PROVE OneBegin' /\ ~live'
      BY <1>1 DEF Unbroken
    <2>2. /\ link = "up" /\ peer.state # "idle"
          /\ \A i \in 1 .. Len(inbox') : inbox'[i].type # "begin"
      BY <1>6, <2>1, TakenBegins
    <2>3. QED
      BY <1>1, <2>2 DEF OneBegin
  <1>15. QED
    BY <1>7, <1>8, <1>9, <1>10, <1>11, <1>12, <1>13, <1>14 DEF RequestInv

(* The first chunk in the inbox is no gap, the first end no early end. *)
LEMMA FirstContinues ==
    ASSUME RequestInv, starts <= 1, live, rx # "sendwait", Len(inbox) > 0
    PROVE  /\ inbox[1].type = "data" => inbox[1].offset <= req.received
           /\ inbox[1].type = "end" => req.received = body
  <1>1. 1 \in 1 .. Len(inbox)
    BY Facts
  <1>2. /\ inbox[1].type = "data" => Continues(1, inbox[1].offset)
        /\ inbox[1].type = "end" => Continues(1, body)
    BY <1>1 DEF RequestInv, Following
  <1>3. /\ inbox[1].type = "data" => inbox[1].offset <= req.received
        /\ inbox[1].type = "end" => body <= req.received
    BY <1>2, Facts DEF Continues
  <1>4. req.received <= body /\ req.received \in Nat /\ body \in Nat
    BY Facts DEF RequestInv, Bounds
  <1>5. QED
    BY <1>3, <1>4

LEMMA RxExcessInv ==
    ASSUME RequestInv, RxExcess PROVE RequestInv'
  <1>1. /\ live /\ Takes("data") /\ Head(inbox).offset = req.received /\ UNCHANGED <<conn, peer>>
    BY DEF RxExcess, NextInOrder
  <1>2. /\ rx = "ready" /\ Len(inbox) > 0 /\ 1 \in 1 .. Len(inbox) /\ inbox[1].type = "data"
        /\ inbox[1].offset = req.received /\ Head(inbox) = inbox[1]
    BY <1>1, Taken
  <1>3. inbox[1].offset < body /\ req.received \in Nat /\ body \in Nat
    BY <1>2, Facts DEF RequestInv, Bounds
  <1>4. Blame
    BY DEF RequestInv
  <1>5. CASE req.ended /\ RxSilent /\ UNCHANGED <<stream, task, got, fault>>
    <2>1. starts <= 1 => FALSE
      BY <1>1, <1>2, <1>3, <1>5 DEF RequestInv, Told
    <2>2. QED
      BY <1>1, <1>5, <2>1, SilentInv
  <1>6. CASE RejectStream /\ UNCHANGED fault
    <2>1. Blame'
      BY <1>1, <1>4, <1>6 DEF Blame, OffsetsNeverBlamed, RejectStream, conn
    <2>2. QED
      BY <1>1, <1>6, <2>1, RejectInv
  <1>7. CASE ~req.ended /\ Len(req.queue) = Window /\ RejectStream /\ Complain("overflow")
    <2>1. fault' = IF fault = "none" THEN "overflow" ELSE fault
      BY <1>7 DEF Complain
    <2>2. ASSUME starts <= 1, drops = 0, fault = "none" PROVE FALSE
      <3>1. InOrder /\ Granted
        BY <1>1, <2>2 DEF RequestInv, Unbroken
      <3>2. req.received = req.consumed + Len(req.queue)
        BY <1>1, <1>7 DEF RequestInv, Queue
      <3>3. peer.next \in Nat /\ peer.credits \in Nat /\ peer.acked \in Nat /\ req.consumed \in Nat /\ req.pending \in Nat
        BY Facts
      <3>4. req.received < peer.next
        BY <1>2, <3>1 DEF InOrder
      <3>5. peer.acked <= req.consumed - req.pending /\ peer.next + peer.credits <= Window + peer.acked
        BY <3>1 DEF Granted, Credited
      <3>6. QED
        BY <1>7, <3>2, <3>3, <3>4, <3>5, Constants
    <2>3. UNCHANGED <<starts, drops>>
      BY <1>1, <1>7 DEF RejectStream, conn
    <2>4. Blame'
      BY <1>4, <2>1, <2>2, <2>3 DEF Blame, OffsetsNeverBlamed
    <2>5. QED
      BY <1>1, <1>7, <2>1, <2>4, RejectInv
  <1>8. QED
    BY <1>5, <1>6, <1>7 DEF RxExcess

(* ProtocolError: nothing is left on the way. *)
LEMMA ProtocolInv ==
    ASSUME RequestInv, NEW type, ProtocolError(type), fault' # "none", Blame' PROVE RequestInv'
  <1>1. /\ UNCHANGED <<body, declared, drops, rx, live, req, responded, terminated, starts, task, got, peer>>
        /\ inbox' = <<>> /\ outbox' = <<>> /\ link' = "down"
    BY DEF ProtocolError, stream
  <1>2. /\ inbox' \in Seq(InFrames) /\ outbox' \in Seq(OutFrames)
        /\ (\A i \in 1 .. Len(inbox') : FALSE) /\ (\A i \in 1 .. Len(outbox') : FALSE)
    BY <1>1
  <1>3. /\ Bounds /\ Tables /\ Queue /\ Given /\ Told /\ Unstarted /\ ConnTypes /\ StreamTypes
    BY DEF RequestInv
  <1>4. ConnTypes' /\ StreamTypes'
    BY <1>1, <1>2, <1>3 DEF ConnTypes, StreamTypes
  <1>5. Bounds' /\ Tables' /\ Given' /\ Unstarted'
    BY <1>1, <1>2, <1>3 DEF Bounds, Tables, Given, Unstarted
  <1>6. Queue'
    BY <1>1, <1>3 DEF Queue, Closed
  <1>7. Told' /\ Following'
    BY <1>1, <1>2, <1>3 DEF Told, Following
  <1>8. Unbroken'
    BY DEF Unbroken
  <1>9. QED
    BY <1>4, <1>5, <1>6, <1>7, <1>8 DEF RequestInv

LEMMA RxFaultInv ==
    ASSUME RequestInv, RxUnknownStream \/ RxGap PROVE RequestInv'
  <1>1. Blame /\ Tables /\ Unstarted
    BY DEF RequestInv
  <1>2. CASE RxUnknownStream
    <2>1. PICK type \in {"data", "end"} : ProtocolError(type)
      BY <1>2 DEF RxUnknownStream
    <2>2. inbox # <<>> /\ Head(inbox).type = type /\ UNCHANGED <<starts, drops>>
      BY <2>1 DEF ProtocolError, stream
    <2>3. 1 \in 1 .. Len(inbox) /\ Head(inbox) = inbox[1]
      BY <2>2, Facts, SeqTail
    <2>4. starts # 0
      BY <1>1, <2>1, <2>2, <2>3 DEF Unstarted
    <2>5. terminated # "no"
      BY <1>1, <1>2, <2>4 DEF Tables, RxUnknownStream
    <2>6. fault' = IF fault = "none" THEN "forgotten" ELSE fault
      BY <1>2, <2>5 DEF RxUnknownStream, Complain
    <2>7. fault' # "none" /\ Blame'
      BY <1>1, <2>2, <2>6 DEF Blame, OffsetsNeverBlamed
    <2>8. QED
      BY <2>1, <2>7, ProtocolInv
  <1>3. CASE RxGap
    <2>1. /\ live /\ ProtocolError("data") /\ Head(inbox).offset > req.received
          /\ fault' = IF fault = "none" THEN "gap" ELSE fault
      BY <1>3 DEF RxGap, Complain
    <2>2. inbox # <<>> /\ Head(inbox).type = "data" /\ rx = "ready" /\ UNCHANGED <<starts, drops>>
      BY <2>1 DEF ProtocolError, stream
    <2>3. Len(inbox) > 0 /\ 1 \in 1 .. Len(inbox) /\ Head(inbox) = inbox[1]
      BY <2>2, Facts, SeqTail
    <2>4. starts <= 1 => inbox[1].offset <= req.received
      BY <2>1, <2>2, <2>3, FirstContinues
    <2>5. inbox[1].offset \in Nat /\ req.received \in Nat
      BY <2>2, <2>3, Facts
    <2>6. ~(starts <= 1)
      BY <2>1, <2>3, <2>4, <2>5
    <2>7. fault' # "none" /\ Blame'
      BY <2>1, <2>2, <2>6 DEF Blame, OffsetsNeverBlamed
    <2>8. QED
      BY <2>1, <2>7, ProtocolInv
  <1>4. QED
    BY <1>2, <1>3

-----------------------------------------------------------------------------
(* What the receive loop puts into the queue. *)
LEMMA QueueAppend ==
    ASSUME NEW q \in Seq(Int), NEW c \in Nat, \A i \in 1 .. Len(q) : q[i] = c + i - 1, NEW x \in Int
    PROVE  /\ Append(q, x) \in Seq(Int) /\ Len(Append(q, x)) = Len(q) + 1 /\ Append(q, x)[Len(Append(q, x))] = x
           /\ \A i \in 1 .. Len(Append(q, x)) : i < Len(Append(q, x)) => Append(q, x)[i] = c + i - 1
           /\ x = c + Len(q) => \A i \in 1 .. Len(Append(q, x)) : Append(q, x)[i] = c + i - 1
  <1>1. /\ Append(q, x) \in Seq(Int) /\ Len(q) \in Nat /\ Len(Append(q, x)) = Len(q) + 1
        /\ Append(q, x)[Len(q) + 1] = x
        /\ \A i \in 1 .. Len(q) : Append(q, x)[i] = q[i]
        /\ \A i \in 1 .. Len(Append(q, x)) : i \in 1 .. Len(q) \/ i = Len(q) + 1
    BY SeqAppend
  <1>2. \A i \in 1 .. Len(Append(q, x)) : i < Len(Append(q, x)) => Append(q, x)[i] = c + i - 1
    BY <1>1
  <1>3. x = c + Len(q) => x = c + (Len(q) + 1) - 1
    BY <1>1
  <1>4. QED
    BY <1>1, <1>2, <1>3

(* A queue of chunks only is not closed, and is as long as it says. *)
LEMMA Open ==
    ASSUME RequestInv, live, ~Closed
    PROVE  /\ req.received = req.consumed + Len(req.queue)
           /\ \A i \in 1 .. Len(req.queue) : req.queue[i] = req.consumed + i - 1
  BY DEF RequestInv, Queue

LEMMA PutEndQueue ==
    ASSUME NEW r \in Requests, PutEnd(r), rx = "ready", task # "upstream",
           UNCHANGED <<live, got, task>>, got \in Seq(Nat), Len(got) = r.consumed, r.received <= MaxBody,
           r.received = r.consumed + Len(r.queue), Len(r.queue) <= Window,
           \A i \in 1 .. Len(r.queue) : r.queue[i] = r.consumed + i - 1
    PROVE  /\ Queue' /\ req' \in Requests /\ req'.received = r.received /\ req'.consumed = r.consumed
           /\ req'.pending = r.pending /\ req'.ended = TRUE /\ Len(req'.queue) <= Window /\ rx' \in {"ready", "putwait"}
  <1>1. /\ r.queue \in Seq(Int) /\ Len(r.queue) \in Nat /\ r.consumed \in Nat /\ r.received \in Nat /\ r.pending \in Nat
        /\ End \in Int /\ Window \in Nat
    BY Constants DEF Requests, End
  <1>2. CASE Len(r.queue) < Window
    <2>1. req' = [r EXCEPT !.queue = Append(@, End), !.ended = TRUE] /\ rx' = rx
      BY <1>2 DEF PutEnd
    <2> DEFINE q == Append(r.queue, End)
    <2>2. /\ q \in Seq(Int) /\ Len(q) = Len(r.queue) + 1 /\ q[Len(q)] = End
          /\ \A i \in 1 .. Len(q) : i < Len(q) => q[i] = r.consumed + i - 1
      BY <1>1, QueueAppend
    <2>3. /\ req' \in Requests /\ req'.received = r.received /\ req'.consumed = r.consumed
          /\ req'.pending = r.pending /\ req'.ended = TRUE /\ req'.queue = q
      BY <2>1, <2>2 DEF Requests
    <2> HIDE DEF q
    <2>4. Closed'
      BY <1>1, <2>2, <2>3 DEF Closed
    <2>5. r.received = r.consumed + Len(q) - 1 /\ Len(q) <= Window
      BY <1>1, <1>2, <2>2
    <2>6. \A i \in 1 .. Len(req'.queue) : i < Len(req'.queue) \/ ~Closed' => req'.queue[i] = req'.consumed + i - 1
      BY <2>2, <2>3, <2>4
    <2>7. Queue'
      BY <2>1, <2>3, <2>4, <2>5, <2>6 DEF Queue
    <2>8. QED
      BY <2>1, <2>3, <2>5, <2>7
  <1>3. CASE ~(Len(r.queue) < Window)
    <2>1. req' = [r EXCEPT !.ended = TRUE] /\ rx' = "putwait"
      BY <1>3 DEF PutEnd
    <2>2. /\ req' \in Requests /\ req'.received = r.received /\ req'.consumed = r.consumed
          /\ req'.pending = r.pending /\ req'.ended = TRUE /\ req'.queue = r.queue
      BY <2>1 DEF Requests
    <2>3. ~Closed'
      <3>1. SUFFICES ASSUME Len(r.queue) > 0, r.queue[Len(r.queue)] = End PROVE FALSE
        BY <2>2 DEF Closed
      <3>1a. Len(r.queue) \in 1 .. Len(r.queue)
        BY <1>1, <3>1
      <3>2. r.queue[Len(r.queue)] = r.consumed + Len(r.queue) - 1
        BY <3>1a
      <3>3. QED
        BY <1>1, <3>1, <3>2 DEF End
    <2>4. Queue'
      BY <2>1, <2>2, <2>3 DEF Queue
    <2>5. QED
      BY <2>1, <2>2, <2>4
  <1>4. QED
    BY <1>2, <1>3

(* A frame of the body is taken into the queue. *)
LEMMA EnqueueInv ==
    ASSUME RequestInv, live, NEW type \in {"data", "end"}, Takes(type),
           UNCHANGED <<conn, outbox, live, responded, terminated, starts, task, got, peer, fault>>,
           req' \in Requests, req'.consumed = req.consumed, req'.pending = req.pending, Len(req'.queue) <= Window,
           type = "data" => inbox[1].offset = req.received /\ req'.received = req.received + 1,
           type = "end" => req'.received = req.received,
           req'.received <= body, rx' \in {"ready", "putwait"}, Queue',
           starts <= 1 /\ req'.ended => req'.received = body
    PROVE  RequestInv'
  <1>1. /\ UNCHANGED <<body, declared, link, drops, outbox>>
        /\ UNCHANGED <<live, responded, terminated, starts, task, got, peer, fault>>
    BY DEF conn
  <1>2. inbox' \in Seq(InFrames) /\ inbox[1].type = type
    BY Taken
  <1>3. /\ Bounds /\ Tables /\ Queue /\ Given /\ Told /\ Unstarted /\ Unbroken /\ Blame
        /\ ConnTypes /\ StreamTypes
    BY DEF RequestInv
  <1>4. /\ req.received \in Nat /\ req'.received \in Nat /\ req.received <= req'.received /\ starts \in Nat
        /\ req.consumed \in Nat
    <2>1. req.received \in Nat /\ starts \in Nat /\ req.consumed \in Nat
      BY Facts
    <2>2. req'.received \in Nat
      BY DEF Requests
    <2>3. req'.received = req.received + 1 \/ req'.received = req.received
      OBVIOUS
    <2>4. QED
      BY <2>1, <2>2, <2>3
  <1>5. starts # 0
    BY <1>3 DEF Tables
  <1>6. ConnTypes' /\ StreamTypes'
    BY <1>1, <1>2, <1>3 DEF ConnTypes, StreamTypes
  <1>7. Bounds'
    <2>1. req'.consumed <= req'.received
      BY <1>3, <1>4 DEF Bounds
    <2>2. ASSUME NEW i \in 1 .. Len(req'.queue) PROVE req'.queue[i] = End \/ req'.queue[i] \in 0 .. body - 1
      <3>1. Len(req'.queue) \in Nat /\ req'.consumed \in Nat /\ req'.received \in Nat /\ body \in Nat
        BY Facts DEF Requests
      <3>2. CASE Closed' /\ i = Len(req'.queue)
        BY <3>2 DEF Closed
      <3>3. CASE ~(Closed' /\ i = Len(req'.queue))
        <4>1. req'.queue[i] = req'.consumed + i - 1
          BY <1>1, <3>1, <3>3 DEF Queue
        <4>2. /\ Closed' => req'.received = req'.consumed + Len(req'.queue) - 1 /\ i < Len(req'.queue)
              /\ ~Closed' => req'.received = req'.consumed + Len(req'.queue)
          BY <1>1, <3>1, <3>3 DEF Queue
        <4>3. req'.consumed + i - 1 < req'.received /\ req'.consumed + i - 1 \in Nat
          BY <3>1, <4>2
        <4>4. QED
          BY <3>1, <4>1, <4>3
      <3>4. QED
        BY <3>2, <3>3
    <2>3. QED
      BY <1>1, <1>3, <2>1, <2>2, TakenBounds DEF Bounds
  <1>8. Tables' /\ Given' /\ Blame' /\ Unstarted'
    BY <1>1, <1>3, <1>5 DEF Tables, Given, Blame, OffsetsNeverBlamed, Unstarted
  <1>9. Told'
    <2>1. SUFFICES ASSUME starts <= 1 PROVE Told'
      BY <1>1 DEF Told
    <2>2. /\ peer.acked <= req.received
          /\ \A i \in 1 .. Len(outbox) : outbox[i].type = "window" => outbox[i].ack_offset <= req.received
      BY <1>3, <2>1 DEF Told
    <2>4. peer.acked \in Nat /\ \A i \in 1 .. Len(outbox) : outbox[i].type = "window" => outbox[i].ack_offset \in Nat
      BY Facts
    <2>5. peer.acked <= req'.received
      BY <1>4, <2>2, <2>4
    <2>6. \A i \in 1 .. Len(outbox) : outbox[i].type = "window" => outbox[i].ack_offset <= req'.received
      BY <1>4, <2>2, <2>4
    <2>7. QED
      BY <1>1, <2>1, <2>2, <2>5, <2>6 DEF Told
  <1>10. Following'
    <2>1. starts' \in Nat /\ starts <= starts' /\ UNCHANGED <<body, link, peer>> /\ (live' /\ starts' <= 1 => live)
      BY <1>1, <1>4
    <2>2. type = "data" => inbox[1].offset + 1 <= req'.received
      BY <1>4
    <2>3. QED
      BY <1>4, <2>1, <2>2, TakenFollows
  <1>11. Unbroken'
    <2>1. SUFFICES ASSUME drops = 0, fault = "none" PROVE OneBegin' /\ (live /\ starts <= 1 => InOrder' /\ Granted')
      BY <1>1 DEF Unbroken
    <2>2. OneBegin'
      BY <1>1, <2>1, TakenBegins DEF OneBegin
    <2>3. ASSUME starts <= 1 PROVE InOrder' /\ Granted'
      <3>1. InOrder /\ Granted
        BY <1>3, <2>1, <2>3 DEF Unbroken
      <3>2. req'.consumed - req'.pending = req.consumed - req.pending
        OBVIOUS
      <3>3. QED
        BY <1>1, <3>1, <3>2, TakenOrder, GrantedKept
    <2>4. QED
      BY <2>2, <2>3
  <1>12. QED
    BY <1>6, <1>7, <1>8, <1>9, <1>10, <1>11 DEF RequestInv

LEMMA RxDataInv ==
    ASSUME RequestInv, RxData PROVE RequestInv'
  <1>1. /\ live /\ Takes("data") /\ Head(inbox).offset = req.received /\ ~req.ended
        /\ Head(inbox).offset + 1 <= MaxBody /\ Len(req.queue) < Window
        /\ UNCHANGED <<conn, outbox, live, responded, terminated, starts, task, got, peer, fault>>
    BY DEF RxData, NextInOrder, WithinLimit
  <1>2. /\ rx = "ready" /\ Head(inbox) = inbox[1] /\ inbox[1].type = "data" /\ 1 \in 1 .. Len(inbox)
    BY <1>1, Taken
  <1> DEFINE m == inbox[1]
             r == [req EXCEPT !.received = m.offset + 1, !.queue = Append(@, m.offset)]
  <1>3. IF m.end_of_body THEN PutEnd(r) ELSE req' = r /\ UNCHANGED rx
    BY <1>2 DEF RxData
  <1>4. /\ req \in Requests /\ req.received \in Nat /\ req.consumed \in Nat /\ Len(req.queue) \in Nat
        /\ req.queue \in Seq(Int) /\ got \in Seq(Nat) /\ body \in Nat
    BY Facts
  <1>5. m.offset = req.received /\ m.offset < body /\ (m.end_of_body => m.offset + 1 = body)
    BY <1>1, <1>2 DEF RequestInv, Bounds
  <1>6. ~Closed /\ task # "upstream" /\ Len(got) = req.consumed
    BY <1>1 DEF RequestInv, Queue
  <1>7. /\ req.received = req.consumed + Len(req.queue)
        /\ \A i \in 1 .. Len(req.queue) : req.queue[i] = req.consumed + i - 1
    BY <1>1, <1>6, Open
  <1> DEFINE q == Append(req.queue, req.received)
  <1>8. /\ q \in Seq(Int) /\ Len(q) = Len(req.queue) + 1 /\ q[Len(q)] = req.received
        /\ \A i \in 1 .. Len(q) : q[i] = req.consumed + i - 1
    <2>1. req.received \in Int /\ req.consumed \in Nat /\ req.queue \in Seq(Int)
      BY <1>4
    <2>2. \A i \in 1 .. Len(req.queue) : req.queue[i] = req.consumed + i - 1
      BY <1>7
    <2>3. /\ q \in Seq(Int) /\ Len(q) = Len(req.queue) + 1 /\ q[Len(q)] = req.received
          /\ req.received = req.consumed + Len(req.queue) => \A i \in 1 .. Len(q) : q[i] = req.consumed + i - 1
      BY <2>1, <2>2, QueueAppend
    <2>4. QED
      BY <1>7, <2>3
  <1> HIDE DEF q
  <1>8a. r = [req EXCEPT !.received = req.received + 1, !.queue = q]
    BY <1>5 DEF q
  <1> HIDE DEF r
  <1>9. /\ r \in Requests /\ r.queue = q /\ r.received = req.received + 1 /\ r.consumed = req.consumed
        /\ r.pending = req.pending /\ r.ended = req.ended
    <2>1. q \in Seq(Int) /\ req.received + 1 \in Nat
      BY <1>4, <1>8
    <2>2. QED
      BY <1>8a, <1>4, <2>1 DEF Requests
  <1>10. /\ r.received = r.consumed + Len(q) /\ Len(q) <= Window /\ r.received <= body /\ r.received <= MaxBody
    <2>1. Len(req.queue) < Window /\ Window \in Nat /\ MaxBody \in Nat
      BY <1>1, Constants
    <2>2. req.received + 1 <= MaxBody /\ req.received < body
      BY <1>1, <1>5
    <2>3. \A a, b, n \in Nat : a = b + n => a + 1 = b + (n + 1)
      OBVIOUS
    <2>5. req.received + 1 = req.consumed + (Len(req.queue) + 1)
      BY <1>4, <1>7, <2>3
    <2>6. Len(req.queue) + 1 <= Window
      BY <1>4, <2>1
    <2>7. req.received + 1 <= body
      BY <1>4, <2>2
    <2>4. QED
      BY <1>8, <1>9, <2>2, <2>5, <2>6, <2>7
  <1>11. CASE m.end_of_body
    <2>1. /\ Queue' /\ req' \in Requests /\ req'.received = r.received /\ req'.consumed = r.consumed
          /\ req'.pending = r.pending /\ req'.ended = TRUE /\ Len(req'.queue) <= Window /\ rx' \in {"ready", "putwait"}
      BY <1>1, <1>2, <1>3, <1>4, <1>6, <1>8, <1>9, <1>10, <1>11, PutEndQueue
    <2>2. req'.received = body
      BY <1>5, <1>9, <1>11, <2>1
    <2>3. QED
      BY <1>1, <1>5, <1>9, <1>10, <2>1, <2>2, EnqueueInv
  <1>12. CASE ~m.end_of_body
    <2>1. req' = r /\ rx' = rx
      BY <1>3, <1>12
    <2>2. ~Closed'
      <3>1. req'.queue = q /\ q[Len(q)] = req.received
        BY <1>8, <1>9, <2>1
      <3>2. req.received # -1
        BY <1>4
      <3>3. QED
        BY <3>1, <3>2 DEF Closed, End
    <2>3. Queue'
      BY <1>1, <1>2, <1>6, <1>8, <1>9, <1>10, <2>1, <2>2 DEF Queue
    <2>4. req'.ended = FALSE
      BY <1>1, <1>4, <1>9, <2>1 DEF Requests
    <2>5. QED
      BY <1>1, <1>2, <1>5, <1>9, <1>10, <2>1, <2>3, <2>4, EnqueueInv
  <1>13. QED
    BY <1>11, <1>12

LEMMA RxEndInv ==
    ASSUME RequestInv, RxEnd PROVE RequestInv'
  <1>1. live /\ Takes("end") /\ UNCHANGED <<conn, peer, fault>>
    BY DEF RxEnd
  <1>2. rx = "ready" /\ inbox[1].type = "end" /\ Len(inbox) > 0
    BY <1>1, Taken
  <1>3. CASE req.ended
    BY <1>1, <1>3, SilentInv DEF RxEnd
  <1>4. CASE ~req.ended /\ RejectStream
    <2>1. Blame'
      BY <1>1, <1>4 DEF Blame, OffsetsNeverBlamed, RejectStream, conn, RequestInv
    <2>2. QED
      BY <1>1, <1>4, <2>1, RejectInv
  <1>5. CASE ~req.ended /\ PutEnd(req) /\ UNCHANGED <<outbox, live, responded, terminated, starts, task, got>>
    <2>1. /\ req \in Requests /\ req.received \in Nat /\ got \in Seq(Nat) /\ body \in Nat
      BY Facts
    <2>2. ~Closed /\ task # "upstream" /\ Len(got) = req.consumed /\ req.received <= MaxBody
      BY <1>1, <1>5 DEF RequestInv, Queue
    <2>3. /\ req.received = req.consumed + Len(req.queue)
          /\ \A i \in 1 .. Len(req.queue) : req.queue[i] = req.consumed + i - 1
      BY <1>1, <2>2, Open
    <2>4. Len(req.queue) <= Window /\ req.received <= body
      BY DEF RequestInv, Bounds
    <2>5. /\ Queue' /\ req' \in Requests /\ req'.received = req.received /\ req'.consumed = req.consumed
          /\ req'.pending = req.pending /\ req'.ended = TRUE /\ Len(req'.queue) <= Window /\ rx' \in {"ready", "putwait"}
      BY <1>2, <1>5, <2>1, <2>2, <2>3, <2>4, PutEndQueue
    <2>6. starts <= 1 => req.received = body
      BY <1>1, <1>2, FirstContinues
    <2>7. QED
      BY <1>1, <1>5, <2>4, <2>5, <2>6, EnqueueInv
  <1>6. QED
    BY <1>3, <1>4, <1>5 DEF RxEnd

(* Nothing is read, sent by the peer or lost: what follows still follows. *)
LEMMA StillFollows ==
    ASSUME RequestInv, UNCHANGED <<body, link, inbox, starts, peer>>, req'.received = req.received,
           live' => live, rx' # "sendwait" => rx # "sendwait"
    PROVE  Following'
  <1>1. SUFFICES ASSUME starts <= 1, live', rx' # "sendwait" PROVE Following'
    BY DEF Following
  <1>2. /\ \A i \in 1 .. Len(inbox) : inbox[i].type = "data" => Continues(i, inbox[i].offset)
        /\ \A i \in 1 .. Len(inbox) : inbox[i].type = "end" => Continues(i, body)
        /\ link = "up" => Continues(Len(inbox) + 1, peer.next)
    BY <1>1 DEF RequestInv, Following
  <1>3. QED
    BY <1>2 DEF Following, Continues

LEMMA PutCompletesInv ==
    ASSUME RequestInv, PutCompletes PROVE RequestInv'
  <1>1. /\ rx = "putwait" /\ Len(req.queue) < Window /\ req' = [req EXCEPT !.queue = Append(@, End)] /\ rx' = "ready"
        /\ UNCHANGED <<body, declared, link, drops, inbox, outbox>>
        /\ UNCHANGED <<live, responded, terminated, starts, task, got, peer, fault>>
    BY DEF PutCompletes, conn
  <1>2. /\ Bounds /\ Tables /\ Queue /\ Given /\ Told /\ Unstarted /\ Unbroken /\ Blame
        /\ ConnTypes /\ StreamTypes
    BY DEF RequestInv
  <1>3. /\ req \in Requests /\ req.queue \in Seq(Int) /\ Len(req.queue) \in Nat /\ req.consumed \in Nat
        /\ req.received \in Nat /\ got \in Seq(Nat) /\ End \in Int
    BY Facts DEF End
  <1> DEFINE q == Append(req.queue, End)
  <1>4. /\ q \in Seq(Int) /\ Len(q) = Len(req.queue) + 1 /\ q[Len(q)] = End
        /\ \A i \in 1 .. Len(q) : q[i] = End \/ (i \in 1 .. Len(req.queue) /\ q[i] = req.queue[i])
    BY <1>3, SeqAppend
  <1>5. live => \A i \in 1 .. Len(q) : i < Len(q) => q[i] = req.consumed + i - 1
    <2>1. SUFFICES ASSUME live PROVE \A i \in 1 .. Len(q) : i < Len(q) => q[i] = req.consumed + i - 1
      OBVIOUS
    <2>2. ~Closed
      BY <1>1, <1>2, <2>1 DEF Queue
    <2>3. \A i \in 1 .. Len(req.queue) : req.queue[i] = req.consumed + i - 1
      BY <2>1, <2>2, Open
    <2>4. QED
      BY <1>3, <2>3, QueueAppend
  <1>6. /\ req' \in Requests /\ req'.received = req.received /\ req'.consumed = req.consumed
        /\ req'.pending = req.pending /\ req'.ended = req.ended /\ req'.queue = q
    BY <1>1, <1>3, <1>4 DEF Requests
  <1> HIDE DEF q
  <1>7. starts # 0
    BY <1>1, <1>2 DEF Tables
  <1>8. ConnTypes' /\ StreamTypes'
    BY <1>1, <1>2, <1>6 DEF ConnTypes, StreamTypes
  <1>9. Bounds'
    <2>1. Len(q) <= Window
      BY <1>1, <1>3, <1>4, Constants
    <2>2. \A i \in 1 .. Len(q) : q[i] = End \/ q[i] \in 0 .. body - 1
      BY <1>2, <1>4 DEF Bounds
    <2>3. QED
      BY <1>1, <1>2, <1>6, <2>1, <2>2 DEF Bounds
  <1>10. Tables' /\ Given' /\ Blame' /\ Unstarted' /\ Told'
    BY <1>1, <1>2, <1>6, <1>7 DEF Tables, Given, Blame, OffsetsNeverBlamed, Unstarted, Told
  <1>11. Queue'
    <2>1. SUFFICES ASSUME live PROVE Queue'
      BY <1>1 DEF Queue
    <2>2. Closed'
      BY <1>3, <1>4, <1>6 DEF Closed
    <2>3. ~Closed /\ Len(got) = req.consumed /\ req.received <= MaxBody /\ req.ended /\ task # "upstream"
      BY <1>1, <1>2, <2>1 DEF Queue
    <2>4. req.received = req.consumed + Len(req.queue)
      BY <2>1, <2>3, Open
    <2>5. req.received = req.consumed + Len(q) - 1
      BY <1>3, <1>4, <2>4
    <2>6. QED
      BY <1>1, <1>5, <1>6, <2>1, <2>2, <2>3, <2>5 DEF Queue
  <1>12. Following'
    BY <1>1, <1>6, StillFollows
  <1>13. Unbroken'
    BY <1>1, <1>2, <1>6, GrantedKept DEF Unbroken, OneBegin, InOrder
  <1>14. QED
    BY <1>8, <1>9, <1>10, <1>11, <1>12, <1>13 DEF RequestInv

LEMMA RxErrorInv ==
    ASSUME RequestInv, RxError PROVE RequestInv'
  <1>1. /\ Takes("error") /\ responded' = FALSE /\ live' = FALSE
        /\ terminated' = (IF live THEN "yes" ELSE terminated) /\ task' = (IF live THEN "done" ELSE task)
        /\ UNCHANGED <<body, declared, link, drops, outbox, rx, req, starts, got, peer, fault>>
    BY DEF RxError, conn, RxSilent
  <1>2. /\ Bounds /\ Tables /\ Queue /\ Given /\ Told /\ Unstarted /\ Unbroken /\ Blame
        /\ ConnTypes /\ StreamTypes
    BY DEF RequestInv
  <1>3. inbox' \in Seq(InFrames)
    BY <1>1, Taken
  <1>4. task' \in {"none", "done"} /\ (starts # 0 => terminated' # "no")
    BY <1>1, <1>2 DEF Tables
  <1>5. ConnTypes' /\ StreamTypes'
    BY <1>1, <1>2, <1>3, <1>4 DEF ConnTypes, StreamTypes, Tasks
  <1>6. Bounds' /\ Unstarted'
    BY <1>1, <1>2, TakenBounds DEF Bounds, Unstarted
  <1>7. Tables' /\ Given' /\ Blame' /\ Queue' /\ Following'
    BY <1>1, <1>2, <1>4 DEF Tables, Given, Blame, OffsetsNeverBlamed, Queue, Following
  <1>8. Told'
    BY <1>1, <1>2, <1>4 DEF Told
  <1>9. Unbroken'
    <2>1. SUFFICES ASSUME drops = 0, fault = "none" PROVE OneBegin'
      BY <1>1 DEF Unbroken
    <2>2. QED
      BY <1>1, <2>1, TakenBegins DEF OneBegin
  <1>10. QED
    BY <1>5, <1>6, <1>7, <1>8, <1>9 DEF RequestInv

-----------------------------------------------------------------------------
(* The upstream task. *)
LEMMA TaskGetInv ==
    ASSUME RequestInv, TaskGet PROVE RequestInv'
  <1>1. /\ task = "get" /\ req.queue # <<>>
        /\ UNCHANGED <<body, declared, link, drops, inbox, outbox, rx>>
        /\ UNCHANGED <<live, responded, terminated, starts, peer, fault>>
    BY DEF TaskGet, conn
  <1>2. /\ Bounds /\ Tables /\ Queue /\ Given /\ Told /\ Unstarted /\ Unbroken /\ Blame
        /\ ConnTypes /\ StreamTypes
    BY DEF RequestInv
  <1>3. /\ req \in Requests /\ req.queue \in Seq(Int) /\ req.consumed \in Nat /\ req.received \in Nat
        /\ req.pending \in Nat /\ got \in Seq(Nat) /\ Len(got) \in Nat
    BY Facts
  <1>4. live /\ starts # 0 /\ req.pending = 0 /\ ~responded
    BY <1>1, <1>2 DEF Tables
  <1> DEFINE q == Tail(req.queue)
  <1>5. /\ Len(req.queue) \in Nat \ {0} /\ 1 \in 1 .. Len(req.queue) /\ Head(req.queue) = req.queue[1]
        /\ q \in Seq(Int) /\ Len(q) \in Nat /\ Len(q) + 1 = Len(req.queue)
        /\ \A i \in 1 .. Len(q) : i + 1 \in 1 .. Len(req.queue) /\ q[i] = req.queue[i + 1]
    BY <1>1, <1>3, SeqTail
  <1> HIDE DEF q
  <1>5a. \A i \in 1 .. Len(q) : q[i] = End \/ q[i] \in 0 .. body - 1
    BY <1>2, <1>5 DEF Bounds
  <1>6. /\ Len(got) = req.consumed /\ req.received <= MaxBody
        /\ \A i \in 1 .. Len(req.queue) : i < Len(req.queue) \/ ~Closed => req.queue[i] = req.consumed + i - 1
        /\ Closed => req.ended /\ rx # "putwait" /\ req.received = req.consumed + Len(req.queue) - 1
        /\ ~Closed => req.received = req.consumed + Len(req.queue)
        /\ rx = "putwait" => req.ended
    BY <1>2, <1>4 DEF Queue
  <1>7. Head(req.queue) # End => Head(req.queue) = req.consumed /\ (Closed => Len(q) > 0)
    BY <1>3, <1>5, <1>6 DEF Closed
  <1>8. Head(req.queue) = End => Closed /\ Len(q) = 0
    <2>1. ASSUME 1 < Len(req.queue) \/ ~Closed PROVE Head(req.queue) # End
      <3>1. req.queue[1] = req.consumed + 1 - 1
        BY <1>5, <1>6, <2>1
      <3>2. QED
        BY <1>3, <1>5, <3>1 DEF End
    <2>2. QED
      BY <1>5, <2>1
  <1>9. starts <= 1 /\ req.ended => req.received = body
    BY <1>2, <1>4 DEF Told
  <1>10. CASE Head(req.queue) = End
    <2>1. req' = [req EXCEPT !.queue = q] /\ task' = "upstream" /\ got' = got
      BY <1>10 DEF TaskGet, q
    <2>2. /\ req' \in Requests /\ req'.received = req.received /\ req'.consumed = req.consumed
          /\ req'.pending = req.pending /\ req'.ended = req.ended /\ req'.queue = q
      BY <1>3, <1>5, <2>1 DEF Requests
    <2>3. ConnTypes' /\ StreamTypes'
      BY <1>1, <1>2, <2>1, <2>2 DEF ConnTypes, StreamTypes, Tasks
    <2>4. Bounds'
      <3>1. Len(q) <= Window
        BY <1>8, <1>10, Constants
      <3>2. QED
        BY <1>1, <1>2, <1>5a, <2>2, <3>1 DEF Bounds
    <2>5. Tables' /\ Given' /\ Blame' /\ Unstarted'
      BY <1>1, <1>2, <1>4, <2>1, <2>2 DEF Tables, Given, Blame, OffsetsNeverBlamed, Unstarted
    <2>6. Queue'
      <3>5. Closed /\ Len(q) = 0
        BY <1>8, <1>10
      <3>6. Len(q) + 1 = Len(req.queue)
        BY <1>5
      <3>1. Closed /\ Len(q) = 0 /\ Len(req.queue) = 1
        BY <3>5, <3>6
      <3>2. req.received = req.consumed + Len(q) /\ ~Closed'
        BY <1>3, <1>6, <2>2, <3>1 DEF Closed
      <3>3. \A i \in 1 .. Len(q) : FALSE
        BY <3>1
      <3>4. QED
        BY <1>1, <1>6, <2>1, <2>2, <3>1, <3>2, <3>3 DEF Queue
    <2>7. Told'
      BY <1>1, <1>2, <1>9, <2>1, <2>2 DEF Told
    <2>8. Following'
      BY <1>1, <2>2, StillFollows
    <2>9. Unbroken'
      BY <1>1, <1>2, <2>2, GrantedKept DEF Unbroken, OneBegin, InOrder
    <2>10. QED
      BY <2>3, <2>4, <2>5, <2>6, <2>7, <2>8, <2>9 DEF RequestInv
  <1>11. CASE Head(req.queue) # End
    <2>1. /\ req' = [req EXCEPT !.queue = q, !.consumed = @ + 1, !.pending = @ + 1] /\ task' = "credit"
          /\ got' = Append(got, req.consumed)
      BY <1>7, <1>11 DEF TaskGet, q
    <2>2. /\ req' \in Requests /\ req'.received = req.received /\ req'.consumed = req.consumed + 1
          /\ req'.pending = 1 /\ req'.ended = req.ended /\ req'.queue = q
      <3>1. req.consumed + 1 \in Nat /\ req.pending + 1 \in Nat /\ req.pending + 1 = 1
        BY <1>3, <1>4
      <3>2. QED
        BY <1>3, <1>5, <2>1, <3>1 DEF Requests
    <2>3. /\ got' \in Seq(Nat) /\ Len(got') = Len(got) + 1 /\ got'[Len(got) + 1] = req.consumed
          /\ \A i \in 1 .. Len(got) : got'[i] = got[i]
          /\ \A i \in 1 .. Len(got') : i \in 1 .. Len(got) \/ i = Len(got) + 1
      BY <1>3, <2>1, SeqAppend
    <2>4. ConnTypes' /\ StreamTypes'
      BY <1>1, <1>2, <2>1, <2>2, <2>3 DEF ConnTypes, StreamTypes, Tasks
    <2>5. /\ Closed' <=> Closed
          /\ Closed => req.received = (req.consumed + 1) + Len(q) - 1
          /\ ~Closed => req.received = (req.consumed + 1) + Len(q)
          /\ \A i \in 1 .. Len(q) : i < Len(q) \/ ~Closed => q[i] = (req.consumed + 1) + i - 1
      <3>1. Len(q) > 0 => Len(q) \in 1 .. Len(q) /\ q[Len(q)] = req.queue[Len(req.queue)]
        BY <1>5
      <3>2. Closed' <=> Closed
        <4>1. CASE Len(q) > 0
          BY <1>5, <2>2, <3>1, <4>1 DEF Closed
        <4>2. CASE Len(q) = 0
          BY <1>7, <1>11, <2>2, <4>2 DEF Closed
        <4>3. QED
          BY <1>5, <4>1, <4>2
      <3>3. /\ Closed => req.received = (req.consumed + 1) + Len(q) - 1
            /\ ~Closed => req.received = (req.consumed + 1) + Len(q)
        <4>1. \A a, b, n \in Nat : a = b + (n + 1) => a = (b + 1) + n
          OBVIOUS
        <4>2. \A a, b, n \in Nat : a = b + (n + 1) - 1 => a = (b + 1) + n - 1
          OBVIOUS
        <4>3. Len(q) \in Nat /\ Len(req.queue) = Len(q) + 1
          BY <1>5
        <4>4. /\ Closed => req.received = req.consumed + (Len(q) + 1) - 1
              /\ ~Closed => req.received = req.consumed + (Len(q) + 1)
          BY <1>6, <4>3
        <4>5. req.received \in Nat /\ req.consumed \in Nat /\ Len(q) \in Nat
          BY <1>3, <4>3
        <4>6. Closed => req.received = (req.consumed + 1) + Len(q) - 1
          BY <4>2, <4>4, <4>5
        <4>7. ~Closed => req.received = (req.consumed + 1) + Len(q)
          BY <4>1, <4>4, <4>5
        <4>8. QED
          BY <4>6, <4>7
      <3>4. ASSUME NEW i \in 1 .. Len(q), i < Len(q) \/ ~Closed PROVE q[i] = (req.consumed + 1) + i - 1
        <4>1. req.queue[i + 1] = req.consumed + (i + 1) - 1
          BY <1>5, <1>6, <3>4
        <4>2. QED
          BY <1>3, <1>5, <4>1
      <3>5. QED
        BY <3>2, <3>3, <3>4
    <2>6. req.consumed + 1 <= req.received
      BY <1>3, <1>5, <1>7, <1>11, <2>5
    <2>7. Bounds'
      <3>1. Len(q) <= Window
        BY <1>2, <1>5, Constants DEF Bounds
      <3>2. 1 <= req.consumed + 1
        BY <1>3
      <3>3. QED
        BY <1>1, <1>2, <1>5a, <2>2, <2>6, <3>1, <3>2 DEF Bounds
    <2>8. Tables' /\ Blame' /\ Unstarted'
      BY <1>1, <1>2, <1>4, <2>1, <2>2 DEF Tables, Blame, OffsetsNeverBlamed, Unstarted
    <2>9. Given'
      <3>1. Len(got') <= MaxBody
        BY <1>3, <1>6, <2>3, <2>6, Constants
      <3>2. ASSUME NEW i \in 1 .. Len(got') PROVE got'[i] = i - 1
        <4>1. CASE i \in 1 .. Len(got)
          BY <1>2, <2>3, <4>1 DEF Given
        <4>2. CASE i = Len(got) + 1
          <5>1. got'[i] = req.consumed /\ i - 1 = Len(got)
            BY <1>3, <2>3, <4>2
          <5>2. QED
            BY <1>6, <5>1
        <4>3. QED
          BY <2>3, <4>1, <4>2
      <3>3. QED
        BY <3>1, <3>2 DEF Given
    <2>10. Queue'
      <3>1. Len(got') = req.consumed + 1
        BY <1>6, <2>3
      <3>2. task' # "upstream"
        BY <2>1
      <3>3. QED
        BY <1>1, <1>6, <2>2, <2>5, <3>1, <3>2 DEF Queue
    <2>11. Told'
      BY <1>1, <1>2, <1>9, <2>1, <2>2 DEF Told
    <2>12. Following'
      BY <1>1, <2>2, StillFollows
    <2>13. Unbroken'
      <3>1. req'.consumed - req'.pending = req.consumed - req.pending
        BY <1>3, <1>4, <2>2
      <3>2. QED
        BY <1>1, <1>2, <2>2, <3>1, GrantedKept DEF Unbroken, OneBegin, InOrder
    <2>14. QED
      BY <2>4, <2>7, <2>8, <2>9, <2>10, <2>11, <2>12, <2>13 DEF RequestInv
  <1>12. QED
    BY <1>10, <1>11

LEMMA TaskCreditInv ==
    ASSUME RequestInv, TaskCredit PROVE RequestInv'
  <1>1. /\ task = "credit" /\ link = "up" /\ outbox' = Append(outbox, WindowFrame(1, req.consumed))
        /\ req' = [req EXCEPT !.pending = @ - 1] /\ task' = "get"
        /\ UNCHANGED <<body, declared, link, drops, inbox, rx>>
        /\ UNCHANGED <<live, responded, terminated, starts, got, peer, fault>>
    BY DEF TaskCredit, conn
  <1>2. /\ Bounds /\ Tables /\ Queue /\ Given /\ Told /\ Unstarted /\ Unbroken /\ Blame
        /\ ConnTypes /\ StreamTypes
    BY DEF RequestInv
  <1>3. /\ req \in Requests /\ req.consumed \in Nat /\ req.received \in Nat /\ req.pending \in Nat
        /\ outbox \in Seq(OutFrames) /\ body \in Nat
    BY Facts
  <1>4. live /\ starts # 0 /\ req.pending = 1
    BY <1>1, <1>2 DEF Tables
  <1>5. req.consumed <= req.received /\ req.consumed <= body /\ req.consumed # 0
    BY <1>2, <1>3, <1>4 DEF Bounds
  <1> DEFINE f == WindowFrame(1, req.consumed)
  <1>6. f \in OutFrames /\ f.type = "window" /\ f.credits = 1 /\ f.ack_offset = req.consumed
    BY <1>3, FrameKinds
  <1>7. outbox' = Append(outbox, f)
    BY <1>1
  <1> HIDE DEF f
  <1>8. /\ outbox' \in Seq(OutFrames) /\ Len(outbox) \in Nat /\ Len(outbox') = Len(outbox) + 1
        /\ outbox'[Len(outbox) + 1] = f
        /\ \A i \in 1 .. Len(outbox) : outbox'[i] = outbox[i]
        /\ \A i \in 1 .. Len(outbox') : i \in 1 .. Len(outbox) \/ i = Len(outbox) + 1
    BY <1>3, <1>6, <1>7, SeqAppend
  <1>9. /\ req' \in Requests /\ req'.received = req.received /\ req'.consumed = req.consumed
        /\ req'.pending = 0 /\ req'.ended = req.ended /\ req'.queue = req.queue
    <2>1. req' = [req EXCEPT !.pending = 0]
      BY <1>1, <1>4
    <2>2. QED
      BY <1>3, <2>1 DEF Requests
  <1>10. ConnTypes' /\ StreamTypes'
    BY <1>1, <1>2, <1>8, <1>9 DEF ConnTypes, StreamTypes, Tasks
  <1>11. \A i \in 1 .. Len(outbox') : outbox'[i] = f \/ (i \in 1 .. Len(outbox) /\ outbox'[i] = outbox[i])
    BY <1>8
  <1>12. Bounds'
    <2>1. \A i \in 1 .. Len(outbox') : outbox'[i].type = "window" => outbox'[i].ack_offset <= body
      BY <1>2, <1>5, <1>6, <1>11 DEF Bounds
    <2>2. 0 <= req.consumed
      BY <1>3
    <2>3. QED
      BY <1>1, <1>2, <1>9, <2>1, <2>2 DEF Bounds
  <1>13. Tables' /\ Given' /\ Blame' /\ Unstarted'
    BY <1>1, <1>2, <1>4, <1>9 DEF Tables, Given, Blame, OffsetsNeverBlamed, Unstarted
  <1>14. Queue'
    BY <1>1, <1>2, <1>4, <1>9 DEF Queue, Closed
  <1>15. Told'
    <2>1. SUFFICES ASSUME starts <= 1 PROVE Told'
      BY <1>1 DEF Told
    <2>2. \A i \in 1 .. Len(outbox') : outbox'[i].type = "window" => outbox'[i].ack_offset <= req.received
      BY <1>2, <1>5, <1>6, <1>11, <2>1 DEF Told
    <2>3. QED
      BY <1>1, <1>2, <1>9, <2>1, <2>2 DEF Told
  <1>16. Following'
    BY <1>1, <1>9, StillFollows
  <1>17. Unbroken'
    <2>1. SUFFICES ASSUME drops = 0, fault = "none" PROVE OneBegin' /\ (starts <= 1 => InOrder' /\ Granted')
      BY <1>1 DEF Unbroken
    <2>2. OneBegin /\ (starts <= 1 => InOrder /\ Granted)
      BY <1>2, <1>4, <2>1 DEF Unbroken
    <2>3. OneBegin'
      BY <1>1, <1>4, <2>2 DEF OneBegin
    <2>4. ASSUME starts <= 1 PROVE Granted'
      <3>1. Credited \in Int /\ Credited' = Credited + 1 /\ Credited' = req.consumed
        BY <1>3, <1>4, <1>9 DEF Credited
      <3>2. /\ Len(outbox) <= Credited + 1
            /\ \A i \in 1 .. Len(outbox) :
                 /\ outbox[i].type = "window" /\ outbox[i].ack_offset = Credited + i - Len(outbox)
                 /\ outbox[i].credits = IF outbox[i].ack_offset = 0 THEN Window ELSE 1
            /\ peer.acked <= Credited /\ peer.next + peer.credits <= Window + peer.acked
            /\ peer.state = "active" => IF Len(outbox) = Credited + 1 THEN peer.next = 0 /\ peer.credits = 0 /\ peer.acked = 0
                                        ELSE peer.acked = Credited - Len(outbox)
        BY <2>2, <2>4 DEF Granted
      <3>3. peer.acked \in Nat
        BY Facts
      <3>4. /\ Len(outbox') <= Credited' + 1 /\ peer.acked <= Credited'
            /\ (Len(outbox') = Credited' + 1 <=> Len(outbox) = Credited + 1)
            /\ Credited' - Len(outbox') = Credited - Len(outbox)
        BY <1>8, <3>1, <3>2, <3>3
      <3>5. ASSUME NEW i \in 1 .. Len(outbox')
            PROVE  /\ outbox'[i].type = "window" /\ outbox'[i].ack_offset = Credited' + i - Len(outbox')
                   /\ outbox'[i].credits = IF outbox'[i].ack_offset = 0 THEN Window ELSE 1
        <4>1. CASE i \in 1 .. Len(outbox)
          <5>1. Credited' + i - Len(outbox') = Credited + i - Len(outbox)
            BY <1>8, <3>1, <4>1
          <5>2. QED
            BY <1>8, <3>2, <4>1, <5>1
        <4>2. CASE i = Len(outbox) + 1
          <5>1. Credited' + i - Len(outbox') = req.consumed
            BY <1>8, <3>1, <4>2
          <5>2. QED
            BY <1>5, <1>6, <1>8, <4>2, <5>1
        <4>3. QED
          BY <1>8, <4>1, <4>2
      <3>6. QED
        BY <1>1, <3>2, <3>4, <3>5 DEF Granted
    <2>5. starts <= 1 => InOrder'
      BY <1>1, <1>9, <2>2 DEF InOrder
    <2>6. QED
      BY <2>3, <2>4, <2>5
  <1>18. QED
    BY <1>10, <1>12, <1>13, <1>14, <1>15, <1>16, <1>17 DEF RequestInv

LEMMA ResponseBeginsInv ==
    ASSUME RequestInv, ResponseBegins, task \in {"get", "credit", "upstream"}
    PROVE  RequestInv'
  <1>1. /\ task \in {"get", "credit", "upstream"} /\ responded' = TRUE /\ task' = "respond"
        /\ UNCHANGED <<body, declared, link, drops, inbox, outbox, rx>>
        /\ UNCHANGED <<live, req, terminated, starts, got, peer, fault>>
    BY DEF ResponseBegins, conn
  <1>2. /\ Bounds /\ Tables /\ Queue /\ Given /\ Told /\ Unstarted /\ Unbroken /\ Blame
        /\ ConnTypes /\ StreamTypes
    BY DEF RequestInv
  <1>3. live /\ starts # 0
    BY <1>1, <1>2 DEF Tables
  <1>4. ConnTypes' /\ StreamTypes'
    BY <1>1, <1>2 DEF ConnTypes, StreamTypes, Tasks
  <1>5. Bounds' /\ Given' /\ Blame' /\ Unstarted'
    BY <1>1, <1>2 DEF Bounds, Given, Blame, OffsetsNeverBlamed, Unstarted
  <1>6. Tables'
    BY <1>1, <1>2, <1>3 DEF Tables
  <1>7. Queue'
    BY <1>1, <1>2, <1>3 DEF Queue, Closed
  <1>8. Told'
    BY <1>1, <1>2 DEF Told
  <1>9. Following'
    BY <1>1, StillFollows
  <1>10. Unbroken'
    BY <1>1, <1>2, GrantedKept DEF Unbroken, OneBegin, InOrder
  <1>11. QED
    BY <1>4, <1>5, <1>6, <1>7, <1>8, <1>9, <1>10 DEF RequestInv

LEMMA UpstreamAnswersInv ==
    ASSUME RequestInv, UpstreamAnswers \/ UpstreamAnswersEarly PROVE RequestInv'
  BY ResponseBeginsInv DEF UpstreamAnswers, UpstreamAnswersEarly

LEMMA UpstreamFailureInv ==
    ASSUME RequestInv, UpstreamFailure PROVE RequestInv'
  <1>1. /\ task \in {"get", "credit", "upstream"} /\ task' = "fail"
        /\ UNCHANGED <<body, declared, link, drops, inbox, outbox, rx>>
        /\ UNCHANGED <<live, req, responded, terminated, starts, got, peer, fault>>
    BY DEF UpstreamFailure, conn, stream
  <1>2. /\ Bounds /\ Tables /\ Queue /\ Given /\ Told /\ Unstarted /\ Unbroken /\ Blame
        /\ ConnTypes /\ StreamTypes
    BY DEF RequestInv
  <1>3. live /\ starts # 0 /\ ~responded
    BY <1>1, <1>2 DEF Tables
  <1>4. ConnTypes' /\ StreamTypes'
    BY <1>1, <1>2 DEF ConnTypes, StreamTypes, Tasks
  <1>5. Bounds' /\ Given' /\ Blame' /\ Unstarted'
    BY <1>1, <1>2 DEF Bounds, Given, Blame, OffsetsNeverBlamed, Unstarted
  <1>6. Tables' /\ Queue'
    BY <1>1, <1>2, <1>3 DEF Tables, Queue, Closed
  <1>7. Told'
    BY <1>1, <1>2 DEF Told
  <1>8. Following'
    BY <1>1, StillFollows
  <1>9. Unbroken'
    BY <1>1, <1>2, GrantedKept DEF Unbroken, OneBegin, InOrder
  <1>10. QED
    BY <1>4, <1>5, <1>6, <1>7, <1>8, <1>9 DEF RequestInv

LEMMA TaskEndsInv ==
    ASSUME RequestInv, TaskEnds PROVE RequestInv'
  <1> DEFINE f == IF task = "respond" THEN Response ELSE Error
  <1>1. /\ task \in {"respond", "fail"} /\ link = "up" /\ outbox' = Append(outbox, f)
        /\ live' = FALSE /\ terminated' = "yes" /\ task' = "done"
        /\ UNCHANGED <<body, declared, link, drops, inbox, rx>>
        /\ UNCHANGED <<req, responded, starts, got, peer, fault>>
    BY DEF TaskEnds, conn
  <1>2. /\ Bounds /\ Tables /\ Queue /\ Given /\ Told /\ Unstarted /\ Unbroken /\ Blame
        /\ ConnTypes /\ StreamTypes
    BY DEF RequestInv
  <1>3. f \in OutFrames /\ f.type # "window" /\ (f.type = "response" => task = "respond")
    BY FrameKinds
  <1> HIDE DEF f
  <1>4. /\ outbox' \in Seq(OutFrames)
        /\ \A i \in 1 .. Len(outbox') : outbox'[i] = f \/ (i \in 1 .. Len(outbox) /\ outbox'[i] = outbox[i])
    <2>1. outbox \in Seq(OutFrames)
      BY Facts
    <2>2. /\ Append(outbox, f) \in Seq(OutFrames) /\ Append(outbox, f)[Len(outbox) + 1] = f
          /\ \A i \in 1 .. Len(outbox) : Append(outbox, f)[i] = outbox[i]
          /\ \A i \in 1 .. Len(Append(outbox, f)) : i \in 1 .. Len(outbox) \/ i = Len(outbox) + 1
      BY <1>3, <2>1, SeqAppend
    <2>3. QED
      BY <1>1, <2>2
  <1>5. live /\ starts # 0
    BY <1>1, <1>2 DEF Tables
  <1>6. ConnTypes' /\ StreamTypes'
    BY <1>1, <1>2, <1>4 DEF ConnTypes, StreamTypes, Tasks
  <1>7. Bounds'
    <2>1. \A i \in 1 .. Len(outbox') : outbox'[i].type = "window" => outbox'[i].ack_offset <= body
      BY <1>2, <1>3, <1>4 DEF Bounds
    <2>2. QED
      BY <1>1, <1>2, <2>1 DEF Bounds
  <1>8. Given' /\ Blame' /\ Unstarted' /\ Queue' /\ Following' /\ Tables'
    BY <1>1, <1>2, <1>5 DEF Given, Blame, OffsetsNeverBlamed, Unstarted, Queue, Following, Tables
  <1>9. Told'
    <2>1. SUFFICES ASSUME starts <= 1 PROVE Told'
      BY <1>1 DEF Told
    <2>2. \A i \in 1 .. Len(outbox') : outbox'[i].type = "window" => outbox'[i].ack_offset <= req.received
      BY <1>2, <1>3, <1>4, <2>1 DEF Told
    <2>3. QED
      BY <1>1, <1>2, <2>1, <2>2 DEF Told
  <1>10. Unbroken'
    <2>1. SUFFICES ASSUME drops = 0, fault = "none" PROVE OneBegin'
      BY <1>1 DEF Unbroken
    <2>2. OneBegin
      BY <1>2, <2>1 DEF Unbroken
    <2>3. QED
      BY <1>1, <1>5, <2>2 DEF OneBegin
  <1>11. QED
    BY <1>6, <1>7, <1>8, <1>9, <1>10 DEF RequestInv

LEMMA ForgetInv ==
    ASSUME RequestInv, Forget PROVE RequestInv'
  <1>1. /\ terminated = "yes" /\ terminated' = "forgotten"
        /\ UNCHANGED <<body, declared, link, drops, inbox, outbox, rx>>
        /\ UNCHANGED <<live, req, responded, starts, task, got, peer, fault>>
    BY DEF Forget, conn
  <1>2. /\ Bounds /\ Tables /\ Queue /\ Given /\ Told /\ Unstarted /\ Unbroken /\ Blame
        /\ ConnTypes /\ StreamTypes
    BY DEF RequestInv
  <1>3. ConnTypes' /\ StreamTypes' /\ Bounds' /\ Tables'
    BY <1>1, <1>2 DEF ConnTypes, StreamTypes, Bounds, Tables
  <1>4. Queue' /\ Given' /\ Told' /\ Unstarted' /\ Blame'
    BY <1>1, <1>2 DEF Queue, Closed, Given, Told, Unstarted, Blame, OffsetsNeverBlamed
  <1>5. Following'
    BY <1>1, StillFollows
  <1>6. Unbroken'
    BY <1>1, <1>2, GrantedKept DEF Unbroken, OneBegin, InOrder
  <1>7. QED
    BY <1>3, <1>4, <1>5, <1>6 DEF RequestInv

-----------------------------------------------------------------------------
(* The connection. *)
LEMMA Prefix ==
    ASSUME NEW S, NEW q \in Seq(S), NEW k \in 0 .. Len(q)
    PROVE  /\ SubSeq(q, 1, k) \in Seq(S) /\ Len(SubSeq(q, 1, k)) = k
           /\ \A i \in 1 .. Len(SubSeq(q, 1, k)) : i \in 1 .. Len(q) /\ SubSeq(q, 1, k)[i] = q[i]
  OBVIOUS

LEMMA DropInv ==
    ASSUME RequestInv, Drop PROVE RequestInv'
  <1>1. /\ drops < MaxDrops /\ drops' = drops + 1 /\ link' = "closing" /\ outbox' = <<>>
        /\ UNCHANGED <<body, declared, rx, live, req, responded, terminated, starts, task, got, peer, fault>>
    BY DEF Drop, stream
  <1>2. /\ Bounds /\ Tables /\ Queue /\ Given /\ Told /\ Unstarted /\ Blame
        /\ ConnTypes /\ StreamTypes
    BY DEF RequestInv
  <1>3. inbox \in Seq(InFrames) /\ Len(inbox) \in Nat /\ drops \in Nat
    BY Facts
  <1>4. PICK k \in 0 .. Len(inbox) : inbox' = SubSeq(inbox, 1, k)
    BY DEF Drop
  <1>5. /\ inbox' \in Seq(InFrames) /\ Len(inbox') \in Nat
        /\ \A i \in 1 .. Len(inbox') : i \in 1 .. Len(inbox) /\ inbox'[i] = inbox[i]
    BY <1>3, <1>4, Prefix
  <1>6. outbox' \in Seq(OutFrames) /\ \A i \in 1 .. Len(outbox') : FALSE
    BY <1>1, SeqEmpty
  <1>7. drops' \in 0 .. MaxDrops /\ drops' # 0
    BY <1>1, <1>3, Constants
  <1>8. ConnTypes' /\ StreamTypes'
    BY <1>1, <1>2, <1>5, <1>6, <1>7 DEF ConnTypes, StreamTypes
  <1>9. Bounds' /\ Unstarted'
    BY <1>1, <1>2, <1>5, <1>6 DEF Bounds, Unstarted
  <1>10. Tables' /\ Queue' /\ Given'
    BY <1>1, <1>2 DEF Tables, Queue, Closed, Given
  <1>11. Told'
    BY <1>1, <1>2, <1>6 DEF Told
  <1>12. Following'
    <2>1. SUFFICES ASSUME starts <= 1, live, rx # "sendwait"
                   PROVE  /\ \A i \in 1 .. Len(inbox') : inbox'[i].type = "data" => Continues(i, inbox[i].offset)'
                          /\ \A i \in 1 .. Len(inbox') : inbox'[i].type = "end" => Continues(i, body)'
      BY <1>1 DEF Following
    <2>2. /\ \A i \in 1 .. Len(inbox) : inbox[i].type = "data" => Continues(i, inbox[i].offset)
          /\ \A i \in 1 .. Len(inbox) : inbox[i].type = "end" => Continues(i, body)
      BY <2>1 DEF RequestInv, Following
    <2>3. ASSUME NEW n \in 1 .. Len(inbox'), NEW o, Continues(n, o)
          PROVE  \/ o <= req'.received
                 \/ \E j \in 1 .. Len(inbox') : j < n /\ inbox'[j].type = "data" /\ inbox'[j].offset + 1 = o
      <3>1. CASE o <= req.received
        BY <1>1, <3>1
      <3>2. CASE \E j \in 1 .. Len(inbox) : j < n /\ inbox[j].type = "data" /\ inbox[j].offset + 1 = o
        <4>1. PICK j \in 1 .. Len(inbox) : j < n /\ inbox[j].type = "data" /\ inbox[j].offset + 1 = o
          BY <3>2
        <4>2. j \in 1 .. Len(inbox')
          BY <1>5, <4>1
        <4>3. QED
          BY <1>5, <4>1, <4>2
      <3>3. QED
        BY <2>3, <3>1, <3>2 DEF Continues
    <2>4. ASSUME NEW i \in 1 .. Len(inbox'), inbox'[i].type = "data" PROVE Continues(i, inbox[i].offset)'
      <3>1. i \in 1 .. Len(inbox) /\ inbox'[i] = inbox[i]
        BY <1>5
      <3>2. Continues(i, inbox'[i].offset)
        BY <2>2, <2>4, <3>1
      <3>3. QED
        BY <2>3, <3>2 DEF Continues
    <2>5. ASSUME NEW i \in 1 .. Len(inbox'), inbox'[i].type = "end" PROVE Continues(i, body)'
      <3>1. i \in 1 .. Len(inbox) /\ inbox'[i] = inbox[i]
        BY <1>5
      <3>2. Continues(i, body') /\ body' = body
        BY <1>1, <2>2, <2>5, <3>1
      <3>3. QED
        BY <2>3, <3>2 DEF Continues
    <2>6. QED
      BY <2>4, <2>5
  <1>13. Unbroken'
    BY <1>7 DEF Unbroken
  <1>14. Blame'
    BY <1>1, <1>2, <1>7 DEF Blame, OffsetsNeverBlamed
  <1>15. QED
    BY <1>8, <1>9, <1>10, <1>11, <1>12, <1>13, <1>14 DEF RequestInv

LEMMA LoopExitsInv ==
    ASSUME RequestInv, LoopExits PROVE RequestInv'
  <1>1. /\ link = "closing" /\ link' = "down"
        /\ UNCHANGED <<body, declared, drops, inbox, outbox, rx>>
        /\ UNCHANGED <<live, req, responded, terminated, starts, task, got, peer, fault>>
    BY DEF LoopExits, stream
  <1>2. /\ Bounds /\ Tables /\ Queue /\ Given /\ Told /\ Unstarted /\ Following /\ Unbroken /\ Blame
        /\ ConnTypes /\ StreamTypes
    BY DEF RequestInv
  <1>3. ConnTypes' /\ StreamTypes' /\ Bounds' /\ Tables'
    BY <1>1, <1>2 DEF ConnTypes, StreamTypes, Bounds, Tables
  <1>4. Queue' /\ Given' /\ Told' /\ Unstarted' /\ Blame'
    BY <1>1, <1>2 DEF Queue, Closed, Given, Told, Unstarted, Blame, OffsetsNeverBlamed
  <1>5. Following'
    BY <1>1, <1>2 DEF Following, Continues
  <1>6. Unbroken'
    BY <1>1, <1>2 DEF Unbroken, OneBegin
  <1>7. QED
    BY <1>3, <1>4, <1>5, <1>6 DEF RequestInv

LEMMA ReconnectInv ==
    ASSUME RequestInv, Reconnect PROVE RequestInv'
  <1>1. /\ link = "down" /\ link' = "up"
        /\ inbox' = IF peer.state = "active" THEN <<Begin>> ELSE <<>>
        /\ peer' = [peer EXCEPT !.next = peer.acked, !.credits = 0, !.endSent = FALSE]
        /\ UNCHANGED <<body, declared, drops, outbox, rx>>
        /\ UNCHANGED <<live, req, responded, terminated, starts, task, got, fault>>
    BY DEF Reconnect, stream
  <1>2. /\ Bounds /\ Tables /\ Queue /\ Given /\ Told /\ Unstarted /\ Unbroken /\ Blame
        /\ ConnTypes /\ StreamTypes
    BY DEF RequestInv
  <1>3. inbox' \in Seq(InFrames) /\ \A i \in 1 .. Len(inbox') : inbox'[i].type \notin {"data", "end"}
    <2>1. Begin \in InFrames /\ Begin.type = "begin"
      BY FrameKinds
    <2>2. CASE peer.state = "active"
      <3>1. inbox' = <<Begin>>
        BY <1>1, <2>2
      <3>2. <<Begin>> \in Seq(InFrames) /\ \A i \in 1 .. Len(<<Begin>>) : <<Begin>>[i] = Begin
        BY <2>1
      <3>3. QED
        BY <2>1, <3>1, <3>2
    <2>3. CASE peer.state # "active"
      BY <1>1, <2>3, SeqEmpty
    <2>4. QED
      BY <2>2, <2>3
  <1>4. /\ peer \in Peers /\ peer.acked \in Nat /\ peer.next \in Nat /\ body \in Nat /\ req.received \in Nat
        /\ starts \in Nat
    BY Facts
  <1>5. /\ peer' \in Peers /\ peer'.state = peer.state /\ peer'.next = peer.acked /\ peer'.acked = peer.acked
        /\ peer'.credits = 0
    BY <1>1, <1>4 DEF Peers
  <1>6. ConnTypes' /\ StreamTypes'
    BY <1>1, <1>2, <1>3, <1>5 DEF ConnTypes, StreamTypes
  <1>7. Bounds'
    <2>1. peer'.acked <= peer'.next /\ peer'.next <= body /\ peer'.credits <= Window
      BY <1>2, <1>4, <1>5, Constants DEF Bounds
    <2>2. QED
      BY <1>1, <1>2, <1>3, <2>1 DEF Bounds
  <1>8. Tables' /\ Queue' /\ Given' /\ Blame'
    BY <1>1, <1>2 DEF Tables, Queue, Closed, Given, Blame, OffsetsNeverBlamed
  <1>9. Told' /\ Unstarted'
    BY <1>1, <1>2, <1>3, <1>5 DEF Told, Unstarted
  <1>10. Following'
    <2>1. starts <= 1 => peer'.next <= req'.received
      BY <1>1, <1>2, <1>5 DEF Told
    <2>2. QED
      BY <1>1, <1>3, <2>1 DEF Following, Continues
  <1>11. Unbroken'
    BY <1>1, <1>2 DEF Unbroken, OneBegin
  <1>12. QED
    BY <1>6, <1>7, <1>8, <1>9, <1>10, <1>11 DEF RequestInv

-----------------------------------------------------------------------------
(* The peer posts a frame: all but Unbroken is kept whatever it is. *)
LEMMA PostedInv ==
    ASSUME RequestInv, link = "up", NEW f \in InFrames, inbox' = Append(inbox, f),
           UNCHANGED <<conn, outbox, rx, stream, task, got, fault>>, peer' \in Peers,
           peer'.state # "answered", peer'.acked = peer.acked, peer'.credits <= peer.credits,
           IF f.type = "data"
           THEN f.offset = peer.next /\ peer'.next = peer.next + 1 /\ peer'.next <= body
                /\ (f.end_of_body => f.offset + 1 = body)
           ELSE peer'.next = peer.next,
           f.type = "end" => peer.next = body,
           starts = 0 => f.type \notin {"data", "end"},
           Unbroken'
    PROVE  RequestInv'
  <1>1. /\ UNCHANGED <<body, declared, link, drops, outbox, rx>>
        /\ UNCHANGED <<live, req, responded, terminated, starts, task, got, fault>>
    BY DEF conn, stream
  <1>2. /\ Bounds /\ Tables /\ Queue /\ Given /\ Told /\ Unstarted /\ Blame
        /\ ConnTypes /\ StreamTypes
    BY DEF RequestInv
  <1>3. /\ inbox \in Seq(InFrames) /\ Len(inbox) \in Nat /\ starts \in Nat /\ body \in Nat
        /\ peer.next \in Nat /\ peer.acked \in Nat /\ peer.credits \in Nat
    BY Facts
  <1>4. /\ inbox' \in Seq(InFrames) /\ Len(inbox') = Len(inbox) + 1 /\ inbox'[Len(inbox) + 1] = f
        /\ \A i \in 1 .. Len(inbox) : inbox'[i] = inbox[i]
        /\ \A i \in 1 .. Len(inbox') : i \in 1 .. Len(inbox) \/ i = Len(inbox) + 1
    BY <1>3, SeqAppend
  <1>5. \A i \in 1 .. Len(inbox') : inbox'[i] = f \/ (i \in 1 .. Len(inbox) /\ inbox'[i] = inbox[i])
    BY <1>4
  <1>6. peer'.next \in Nat /\ peer'.credits \in Nat /\ peer.next <= peer'.next
    BY <1>3 DEF Peers
  <1>7. ConnTypes' /\ StreamTypes'
    BY <1>1, <1>2, <1>4 DEF ConnTypes, StreamTypes
  <1>8. Bounds'
    <2>1. f.type = "data" => f.offset < body /\ (f.end_of_body => f.offset + 1 = body)
      BY <1>3
    <2>2. \A i \in 1 .. Len(inbox') : inbox'[i].type = "data" =>
             inbox'[i].offset < body /\ (inbox'[i].end_of_body => inbox'[i].offset + 1 = body)
      BY <1>2, <1>5, <2>1 DEF Bounds
    <2>3. peer'.acked <= peer'.next /\ peer'.next <= body /\ peer'.credits <= Window
      <3>1. peer.acked <= peer.next /\ peer.next <= body /\ peer.credits <= Window
        BY <1>2 DEF Bounds
      <3>2. QED
        BY <1>3, <1>6, <3>1, Constants
    <2>4. QED
      BY <1>1, <1>2, <2>2, <2>3 DEF Bounds
  <1>9. Tables' /\ Queue' /\ Given' /\ Blame'
    BY <1>1, <1>2 DEF Tables, Queue, Closed, Given, Blame, OffsetsNeverBlamed
  <1>10. Told'
    BY <1>1, <1>2 DEF Told
  <1>11. Unstarted'
    <2>1. starts = 0 => peer'.next = 0 /\ peer'.credits = 0 /\ f.type \notin {"data", "end"}
      BY <1>2, <1>6 DEF Unstarted
    <2>2. starts = 0 => \A i \in 1 .. Len(inbox') : inbox'[i].type \notin {"data", "end"}
      BY <1>2, <1>5, <2>1 DEF Unstarted
    <2>3. QED
      BY <1>1, <1>2, <2>1, <2>2 DEF Unstarted
  <1>12. Following'
    <2>1. SUFFICES ASSUME starts <= 1, live, rx # "sendwait"
                   PROVE  /\ \A i \in 1 .. Len(inbox') : inbox'[i].type = "data" => Continues(i, inbox[i].offset)'
                          /\ \A i \in 1 .. Len(inbox') : inbox'[i].type = "end" => Continues(i, body)'
                          /\ link' = "up" => Continues(Len(inbox) + 1, peer.next)'
      BY <1>1 DEF Following
    <2>2. /\ \A i \in 1 .. Len(inbox) : inbox[i].type = "data" => Continues(i, inbox[i].offset)
          /\ \A i \in 1 .. Len(inbox) : inbox[i].type = "end" => Continues(i, body)
          /\ Continues(Len(inbox) + 1, peer.next)
      BY <2>1 DEF RequestInv, Following
    <2>3. ASSUME NEW n \in Nat, NEW k \in Nat, n <= k, NEW o, Continues(n, o)
          PROVE  \/ o <= req'.received
                 \/ \E j \in 1 .. Len(inbox') : j < k /\ inbox'[j].type = "data" /\ inbox'[j].offset + 1 = o
      <3>1. CASE o <= req.received
        BY <1>1, <3>1
      <3>2. CASE \E j \in 1 .. Len(inbox) : j < n /\ inbox[j].type = "data" /\ inbox[j].offset + 1 = o
        <4>1. PICK j \in 1 .. Len(inbox) : j < n /\ inbox[j].type = "data" /\ inbox[j].offset + 1 = o
          BY <3>2
        <4>2. j \in 1 .. Len(inbox') /\ j < k
          BY <1>3, <1>4, <2>3, <4>1
        <4>3. QED
          BY <1>4, <4>1, <4>2
      <3>3. QED
        BY <2>3, <3>1, <3>2 DEF Continues
    <2>4. ASSUME NEW i \in 1 .. Len(inbox'), inbox'[i].type = "data" PROVE Continues(i, inbox[i].offset)'
      <3>1. CASE i \in 1 .. Len(inbox)
        <4>1. inbox'[i] = inbox[i] /\ i \in Nat /\ i <= i
          BY <1>4, <3>1
        <4>2. Continues(i, inbox'[i].offset)
          BY <2>2, <2>4, <3>1, <4>1
        <4>3. \/ inbox'[i].offset <= req'.received
                \/ \E j \in 1 .. Len(inbox') : j < i /\ inbox'[j].type = "data" /\ inbox'[j].offset + 1 = inbox'[i].offset
          BY <2>3, <4>1, <4>2
        <4>4. QED
          BY <4>3 DEF Continues
      <3>2. CASE i = Len(inbox) + 1
        <4>1. inbox'[i].offset = peer.next /\ i \in Nat /\ i <= i
          BY <1>3, <1>4, <2>4, <3>2
        <4>2. Continues(i, inbox'[i].offset)
          BY <2>2, <3>2, <4>1
        <4>3. \/ inbox'[i].offset <= req'.received
                \/ \E j \in 1 .. Len(inbox') : j < i /\ inbox'[j].type = "data" /\ inbox'[j].offset + 1 = inbox'[i].offset
          BY <2>3, <4>1, <4>2
        <4>4. QED
          BY <4>3 DEF Continues
      <3>3. QED
        BY <1>4, <3>1, <3>2
    <2>5. ASSUME NEW i \in 1 .. Len(inbox'), inbox'[i].type = "end" PROVE Continues(i, body)'
      <3>1. body' = body /\ i \in Nat /\ i <= i
        BY <1>1
      <3>2. CASE i \in 1 .. Len(inbox)
        <4>1. inbox'[i] = inbox[i]
          BY <1>4, <3>2
        <4>2. Continues(i, body')
          BY <2>2, <2>5, <3>1, <3>2, <4>1
        <4>3. \/ body' <= req'.received
                \/ \E j \in 1 .. Len(inbox') : j < i /\ inbox'[j].type = "data" /\ inbox'[j].offset + 1 = body'
          BY <2>3, <3>1, <4>2
        <4>4. QED
          BY <4>3 DEF Continues
      <3>3. CASE i = Len(inbox) + 1
        <4>1. peer.next = body'
          BY <1>4, <2>5, <3>1, <3>3
        <4>2. Continues(i, body')
          BY <2>2, <3>3, <4>1
        <4>3. \/ body' <= req'.received
                \/ \E j \in 1 .. Len(inbox') : j < i /\ inbox'[j].type = "data" /\ inbox'[j].offset + 1 = body'
          BY <2>3, <3>1, <4>2
        <4>4. QED
          BY <4>3 DEF Continues
      <3>4. QED
        BY <1>4, <3>2, <3>3
    <2>6. Continues(Len(inbox) + 1, peer.next)'
      <3>1. CASE f.type = "data"
        <4>1. Len(inbox) + 1 \in 1 .. Len(inbox') /\ Len(inbox) + 1 < Len(inbox') + 1
          BY <1>3, <1>4
        <4>2. inbox'[Len(inbox) + 1].type = "data" /\ inbox'[Len(inbox) + 1].offset + 1 = peer'.next
          BY <1>4, <3>1
        <4>3. QED
          BY <4>1, <4>2 DEF Continues
      <3>2. CASE f.type # "data"
        <4>1. /\ peer'.next = peer.next /\ Len(inbox) + 1 \in Nat /\ Len(inbox') + 1 \in Nat
              /\ Len(inbox) + 1 <= Len(inbox') + 1
          BY <1>3, <1>4, <3>2
        <4>2. Continues(Len(inbox) + 1, peer'.next)
          BY <2>2, <4>1
        <4>3. CASE peer'.next <= req.received
          BY <1>1, <4>3 DEF Continues
        <4>4. CASE \E j \in 1 .. Len(inbox) : j < Len(inbox) + 1 /\ inbox[j].type = "data" /\ inbox[j].offset + 1 = peer'.next
          <5>1. PICK j \in 1 .. Len(inbox) : inbox[j].type = "data" /\ inbox[j].offset + 1 = peer'.next
            BY <4>4
          <5>2. j \in 1 .. Len(inbox') /\ j < Len(inbox') + 1 /\ inbox'[j] = inbox[j]
            BY <1>3, <1>4
          <5>3. QED
            BY <5>1, <5>2 DEF Continues
        <4>5. QED
          BY <4>2, <4>3, <4>4 DEF Continues
      <3>3. QED
        BY <3>1, <3>2
    <2>7. QED
      BY <2>4, <2>5, <2>6
  <1>13. QED
    BY <1>7, <1>8, <1>9, <1>10, <1>11, <1>12 DEF RequestInv

(* A frame is added that is neither begin nor chunk: the order is kept. *)
LEMMA PostedOrder ==
    ASSUME RequestInv, drops = 0, fault = "none", NEW f \in InFrames, inbox' = Append(inbox, f),
           f.type \notin {"begin", "data"}, peer.state # "idle", peer'.state # "idle",
           UNCHANGED <<link, drops, outbox, starts, live, req, fault>>,
           peer'.next = peer.next, peer'.acked = peer.acked, peer'.credits = peer.credits,
           peer'.state = "active" => peer.state = "active"
    PROVE  Unbroken'
  <1>1. inbox \in Seq(InFrames) /\ Len(inbox) \in Nat
    BY Facts
  <1>2. \A i \in 1 .. Len(inbox') : (i \in 1 .. Len(inbox) /\ inbox'[i] = inbox[i]) \/ inbox'[i].type \notin {"begin", "data"}
    BY <1>1, SeqAppend
  <1>3. OneBegin /\ (live /\ starts <= 1 => InOrder /\ Granted)
    BY DEF RequestInv, Unbroken
  <1>4. OneBegin'
    BY <1>2, <1>3 DEF OneBegin
  <1>5. live /\ starts <= 1 => InOrder'
    BY <1>2, <1>3 DEF InOrder
  <1>6. live /\ starts <= 1 => Granted'
    BY <1>3 DEF Granted, Credited
  <1>7. QED
    BY <1>4, <1>5, <1>6 DEF Unbroken

LEMMA PeerBeginInv ==
    ASSUME RequestInv, PeerBegin PROVE RequestInv'
  <1>1. /\ link = "up" /\ peer.state = "idle" /\ inbox' = Append(inbox, Begin)
        /\ peer' = [peer EXCEPT !.state = "active"]
        /\ UNCHANGED <<conn, outbox, rx, stream, task, got, fault>>
    BY DEF PeerBegin
  <1>2. Begin \in InFrames /\ Begin.type = "begin"
    BY FrameKinds
  <1>3. peer \in Peers /\ peer.credits \in Nat /\ inbox \in Seq(InFrames) /\ Len(inbox) \in Nat
    BY Facts
  <1>4. /\ peer' \in Peers /\ peer'.state = "active" /\ peer'.acked = peer.acked
        /\ peer'.credits = peer.credits /\ peer'.next = peer.next
    BY <1>1, <1>3 DEF Peers, PeerStates
  <1>5. UNCHANGED <<link, drops, fault, live, starts, outbox>>
    BY <1>1 DEF conn, stream
  <1>6. Unbroken'
    <2>1. SUFFICES ASSUME drops = 0, fault = "none" PROVE OneBegin' /\ ~live
      BY <1>5 DEF Unbroken
    <2>2. OneBegin
      BY <2>1 DEF RequestInv, Unbroken
    <2>3. starts = 0 /\ outbox = <<>> /\ \A i \in 1 .. Len(inbox) : inbox[i].type # "begin"
      BY <1>1, <2>2 DEF OneBegin
    <2>4. ~live
      BY <2>3 DEF RequestInv, Tables
    <2>5. \A i \in 1 .. Len(inbox') : inbox'[i].type = "begin" => i = Len(inbox) + 1
      BY <1>1, <1>2, <1>3, <2>3, SeqAppend
    <2>6. OneBegin'
      BY <1>1, <1>4, <1>5, <2>3, <2>5 DEF OneBegin
    <2>7. QED
      BY <2>4, <2>6
  <1>7. peer'.credits <= peer.credits
    BY <1>3, <1>4
  <1>8. QED
    BY <1>1, <1>2, <1>4, <1>6, <1>7, PostedInv

LEMMA PeerEndInv ==
    ASSUME RequestInv, PeerEnd PROVE RequestInv'
  <1>1. /\ link = "up" /\ peer.state = "active" /\ peer.next = body /\ inbox' = Append(inbox, EndFrame)
        /\ peer' = [peer EXCEPT !.endSent = TRUE]
        /\ UNCHANGED <<conn, outbox, rx, stream, task, got, fault>>
    BY DEF PeerEnd
  <1>2. EndFrame \in InFrames /\ EndFrame.type = "end"
    BY FrameKinds
  <1>3. peer \in Peers /\ peer.credits \in Nat /\ body # 0
    BY Facts
  <1>4. /\ peer' \in Peers /\ peer'.state = "active" /\ peer'.acked = peer.acked
        /\ peer'.credits = peer.credits /\ peer'.next = peer.next
    BY <1>1, <1>3 DEF Peers
  <1>5. UNCHANGED <<link, drops, fault, live, starts, req, outbox>>
    BY <1>1 DEF conn, stream
  <1>6. starts # 0
    BY <1>1, <1>3 DEF RequestInv, Unstarted
  <1>7. Unbroken'
    <2>1. CASE drops = 0 /\ fault = "none"
      BY <1>1, <1>2, <1>4, <1>5, <2>1, PostedOrder
    <2>2. CASE ~(drops = 0 /\ fault = "none")
      BY <1>5, <2>2 DEF Unbroken
    <2>3. QED
      BY <2>1, <2>2
  <1>8. peer'.credits <= peer.credits
    BY <1>3, <1>4
  <1>9. QED
    BY <1>1, <1>2, <1>4, <1>6, <1>7, <1>8, PostedInv

LEMMA PeerCancelInv ==
    ASSUME RequestInv, PeerCancel PROVE RequestInv'
  <1>1. /\ link = "up" /\ peer.state = "active" /\ inbox' = Append(inbox, Error)
        /\ peer' = [peer EXCEPT !.state = "cancelled"]
        /\ UNCHANGED <<conn, outbox, rx, stream, task, got, fault>>
    BY DEF PeerCancel
  <1>2. Error \in InFrames /\ Error.type = "error"
    BY FrameKinds
  <1>3. peer \in Peers /\ peer.credits \in Nat
    BY Facts
  <1>4. /\ peer' \in Peers /\ peer'.state = "cancelled" /\ peer'.acked = peer.acked
        /\ peer'.credits = peer.credits /\ peer'.next = peer.next
    BY <1>1, <1>3 DEF Peers, PeerStates
  <1>5. UNCHANGED <<link, drops, fault, live, starts, req, outbox>>
    BY <1>1 DEF conn, stream
  <1>6. Unbroken'
    <2>1. CASE drops = 0 /\ fault = "none"
      BY <1>1, <1>2, <1>4, <1>5, <2>1, PostedOrder
    <2>2. CASE ~(drops = 0 /\ fault = "none")
      BY <1>5, <2>2 DEF Unbroken
    <2>3. QED
      BY <2>1, <2>2
  <1>7. peer'.credits <= peer.credits
    BY <1>3, <1>4
  <1>8. QED
    BY <1>1, <1>2, <1>4, <1>6, <1>7, PostedInv

LEMMA PeerDataInv ==
    ASSUME RequestInv, PeerData PROVE RequestInv'
  <1> DEFINE e == peer.flagsEnd /\ peer.next + 1 = body
             f == Data(peer.next, e)
  <1>1. /\ link = "up" /\ peer.state = "active" /\ peer.credits > 0 /\ peer.next < body
        /\ inbox' = Append(inbox, f) /\ peer' = [peer EXCEPT !.next = @ + 1, !.credits = @ - 1]
        /\ UNCHANGED <<conn, outbox, rx, stream, task, got, fault>>
    BY DEF PeerData
  <1>2. /\ peer \in Peers /\ peer.credits \in Nat /\ peer.next \in Nat /\ peer.acked \in Nat /\ body \in Nat
        /\ peer.flagsEnd \in BOOLEAN /\ inbox \in Seq(InFrames) /\ Len(inbox) \in Nat /\ req.received \in Nat
    BY Facts
  <1>3. /\ f \in InFrames /\ f.type = "data" /\ f.offset = peer.next
        /\ (f.end_of_body => f.offset + 1 = body)
    <2>1. e \in BOOLEAN
      BY <1>2
    <2>2. f \in InFrames /\ f.type = "data" /\ f.offset = peer.next /\ f.end_of_body = e
      BY <1>2, <2>1, FrameKinds
    <2>3. QED
      BY <2>2
  <1> HIDE DEF f
  <1>4. /\ peer' \in Peers /\ peer'.state = "active" /\ peer'.acked = peer.acked
        /\ peer'.credits + 1 = peer.credits /\ peer'.next = peer.next + 1 /\ peer'.credits \in Nat
    <2>1. peer.next + 1 \in Nat /\ peer.credits - 1 \in Nat /\ (peer.credits - 1) + 1 = peer.credits
      BY <1>1, <1>2
    <2>2. QED
      BY <1>1, <1>2, <2>1 DEF Peers
  <1>5. UNCHANGED <<link, drops, fault, live, starts, req, outbox>>
    BY <1>1 DEF conn, stream
  <1>6. starts # 0
    BY <1>1, <1>2 DEF RequestInv, Unstarted
  <1>7. /\ \A i \in 1 .. Len(inbox) : inbox'[i] = inbox[i]
        /\ \A i \in 1 .. Len(inbox') : i \in 1 .. Len(inbox) \/ i = Len(inbox) + 1
        /\ inbox'[Len(inbox) + 1] = f
    BY <1>1, <1>2, <1>3, SeqAppend
  <1>8. Unbroken'
    <2>1. SUFFICES ASSUME drops = 0, fault = "none" PROVE OneBegin' /\ (live /\ starts <= 1 => InOrder' /\ Granted')
      BY <1>5 DEF Unbroken
    <2>2. OneBegin /\ (live /\ starts <= 1 => InOrder /\ Granted)
      BY <2>1 DEF RequestInv, Unbroken
    <2>3. OneBegin'
      <3>1. \A i \in 1 .. Len(inbox') : inbox'[i].type = "begin" => i \in 1 .. Len(inbox) /\ inbox'[i] = inbox[i]
        BY <1>3, <1>7
      <3>2. QED
        BY <1>4, <1>5, <1>6, <2>2, <3>1 DEF OneBegin
    <2>4. ASSUME live, starts <= 1 PROVE InOrder'
      <3>1. /\ req.received <= peer.next
            /\ \A i \in 1 .. Len(inbox) : inbox[i].type = "data" => req.received <= inbox[i].offset /\ inbox[i].offset < peer.next
            /\ \A i, j \in 1 .. Len(inbox) : i < j /\ inbox[i].type = "data" /\ inbox[j].type = "data" => inbox[i].offset < inbox[j].offset
        BY <2>2, <2>4 DEF InOrder
      <3>2. \A i \in 1 .. Len(inbox) : inbox[i].type = "data" => inbox[i].offset \in Nat
        BY Facts
      <3>3. ASSUME NEW i \in 1 .. Len(inbox'), inbox'[i].type = "data"
            PROVE  /\ req.received <= inbox'[i].offset /\ inbox'[i].offset < peer.next + 1
                   /\ i \in 1 .. Len(inbox) => inbox'[i] = inbox[i] /\ inbox[i].offset < peer.next
        <4>1. CASE i \in 1 .. Len(inbox)
          <5>1. /\ inbox'[i] = inbox[i] /\ inbox[i].offset \in Nat /\ req.received <= inbox[i].offset
                /\ inbox[i].offset < peer.next
            BY <1>7, <3>1, <3>2, <3>3, <4>1
          <5>2. QED
            BY <1>2, <5>1
        <4>2. CASE i = Len(inbox) + 1
          <5>1. inbox'[i].offset = peer.next
            BY <1>3, <1>7, <4>2
          <5>2. QED
            BY <1>2, <3>1, <4>2, <5>1
        <4>3. QED
          BY <1>7, <4>1, <4>2
      <3>4. ASSUME NEW i \in 1 .. Len(inbox'), NEW j \in 1 .. Len(inbox'), i < j,
                   inbox'[i].type = "data", inbox'[j].type = "data"
            PROVE  inbox'[i].offset < inbox'[j].offset
        <4>1. i \in 1 .. Len(inbox)
          BY <1>2, <1>7, <3>4
        <4>2. inbox'[i] = inbox[i] /\ inbox[i].type = "data" /\ inbox[i].offset < peer.next
          BY <3>3, <3>4, <4>1
        <4>3. CASE j \in 1 .. Len(inbox)
          BY <1>7, <3>1, <3>4, <4>1, <4>2, <4>3
        <4>4. CASE j = Len(inbox) + 1
          BY <1>3, <1>7, <4>2, <4>4
        <4>5. QED
          BY <1>7, <4>3, <4>4
      <3>5. req.received <= peer.next + 1
        BY <1>2, <3>1
      <3>6. QED
        BY <1>4, <1>5, <3>3, <3>4, <3>5 DEF InOrder
    <2>5. ASSUME live, starts <= 1 PROVE Granted'
      <3>1. Granted
        BY <2>2, <2>5
      <3>2. peer.next + peer.credits <= Window + peer.acked /\ Len(outbox) # Credited + 1 /\ peer.acked = Credited - Len(outbox)
        BY <1>1, <3>1 DEF Granted
      <3>3. peer'.next + peer'.credits <= Window + peer'.acked
        <4>1. /\ peer.next \in Nat /\ peer'.credits \in Nat /\ peer.acked \in Nat /\ Window \in Nat
              /\ peer.next + (peer'.credits + 1) <= Window + peer.acked
              /\ peer'.next = peer.next + 1 /\ peer'.acked = peer.acked
          BY <1>2, <1>4, <3>2, Constants
        <4>2. QED
          BY <4>1
      <3>4. Credited' = Credited
        BY <1>5 DEF Credited
      <3>5. QED
        BY <1>4, <1>5, <3>1, <3>2, <3>3, <3>4 DEF Granted
    <2>6. QED
      BY <2>3, <2>4, <2>5
  <1>9. peer'.credits <= peer.credits /\ peer'.next <= body
    BY <1>1, <1>2, <1>4
  <1>10. QED
    BY <1>1, <1>3, <1>4, <1>6, <1>8, <1>9, PostedInv

(* The peer reads the oldest frame; each that is left moves up by one. *)
LEMMA PeerReadsInv ==
    ASSUME RequestInv, PeerReads PROVE RequestInv'
  <1> DEFINE m == Head(outbox)
  <1>1. /\ link = "up" /\ outbox # <<>> /\ outbox' = Tail(outbox)
        /\ UNCHANGED <<body, declared, link, drops, inbox, rx>>
        /\ UNCHANGED <<live, req, responded, terminated, starts, task, got, fault>>
    BY DEF PeerReads, conn, stream
  <1>2. /\ Bounds /\ Tables /\ Queue /\ Given /\ Told /\ Unstarted /\ Unbroken /\ Blame
        /\ ConnTypes /\ StreamTypes
    BY DEF RequestInv
  <1>3. /\ peer \in Peers /\ peer.next \in Nat /\ peer.acked \in Nat /\ peer.credits \in Nat
        /\ outbox \in Seq(OutFrames) /\ body \in Nat /\ req.received \in Nat
    BY Facts
  <1>4. /\ Len(outbox) \in Nat \ {0} /\ 1 \in 1 .. Len(outbox) /\ m = outbox[1]
        /\ outbox' \in Seq(OutFrames) /\ Len(outbox') = Len(outbox) - 1
        /\ \A i \in 1 .. Len(outbox') : i + 1 \in 1 .. Len(outbox) /\ outbox'[i] = outbox[i + 1]
    BY <1>1, <1>3, SeqTail
  <1>5. m.type \in OutTypes /\ (m.type = "window" => m.credits \in Nat /\ m.ack_offset \in Nat)
    BY <1>4, Facts
  <1>6. peer' = IF peer.state # "active" THEN peer
                ELSE IF m.type = "window"
                THEN [peer EXCEPT !.credits = Least(Window, @ + m.credits),
                                  !.acked = Most(@, m.ack_offset),
                                  !.next = Most(@, m.ack_offset)]
                ELSE [peer EXCEPT !.state = IF m.type = "error" THEN "failed" ELSE "answered"]
    BY DEF PeerReads
  <1> HIDE DEF m
  <1>7. ASSUME peer.state = "active", m.type = "window"
        PROVE  /\ peer' \in Peers /\ peer'.state = "active" /\ peer'.credits = Least(Window, peer.credits + m.credits)
               /\ peer'.acked = Most(peer.acked, m.ack_offset) /\ peer'.next = Most(peer.next, m.ack_offset)
    <2>2. /\ Least(Window, peer.credits + m.credits) \in Nat /\ Most(peer.acked, m.ack_offset) \in Nat
          /\ Most(peer.next, m.ack_offset) \in Nat
      BY <1>3, <1>5, <1>7, Constants DEF Least, Most
    <2>3. peer' = [peer EXCEPT !.credits = Least(Window, peer.credits + m.credits),
                               !.acked = Most(peer.acked, m.ack_offset),
                               !.next = Most(peer.next, m.ack_offset)]
      BY <1>6, <1>7
    <2>4. QED
      BY <1>3, <1>7, <2>2, <2>3 DEF Peers
  <1>8. ~(peer.state = "active" /\ m.type = "window") =>
           /\ peer' \in Peers /\ peer'.credits = peer.credits /\ peer'.acked = peer.acked /\ peer'.next = peer.next
           /\ (peer'.state = "answered" => peer.state = "answered" \/ m.type = "response")
           /\ (peer.state # "idle" => peer'.state # "idle")
           /\ (peer'.state # "active" \/ (peer' = peer /\ peer.state # "active"))
    <2>1. CASE peer.state # "active"
      BY <1>3, <1>6, <2>1
    <2>2. CASE peer.state = "active" /\ m.type # "window"
      <3>1. m.type \in {"error", "response"}
        BY <1>5, <2>2 DEF OutTypes
      <3>2. peer' = [peer EXCEPT !.state = IF m.type = "error" THEN "failed" ELSE "answered"]
        BY <1>6, <2>2
      <3>3. /\ peer' \in Peers /\ peer'.credits = peer.credits /\ peer'.acked = peer.acked /\ peer'.next = peer.next
            /\ peer'.state = IF m.type = "error" THEN "failed" ELSE "answered"
        BY <1>3, <3>1, <3>2 DEF Peers, PeerStates
      <3>4. QED
        BY <2>2, <3>1, <3>3
    <2>3. QED
      BY <2>1, <2>2
  <1>9. m.type = "window" => m.ack_offset <= body /\ starts # 0 /\ (starts <= 1 => m.ack_offset <= req.received)
    BY <1>2, <1>4 DEF Bounds, Unstarted, Told
  <1>10. peer' \in Peers
    BY <1>7, <1>8
  <1>11. ConnTypes' /\ StreamTypes'
    BY <1>1, <1>2, <1>4, <1>10 DEF ConnTypes, StreamTypes
  <1>12. Bounds'
    <2>1. peer.acked <= peer.next /\ peer.next <= body /\ peer.credits <= Window
      BY <1>2 DEF Bounds
    <2>2. CASE peer.state = "active" /\ m.type = "window"
      <3>1. Most(peer.acked, m.ack_offset) <= Most(peer.next, m.ack_offset) /\ Most(peer.next, m.ack_offset) <= body
        BY <1>3, <1>5, <1>9, <2>1, <2>2 DEF Most
      <3>2. Least(Window, peer.credits + m.credits) <= Window
        BY <1>3, <1>5, <2>2, Constants DEF Least
      <3>3. QED
        BY <1>1, <1>2, <1>4, <1>7, <2>2, <3>1, <3>2 DEF Bounds
    <2>3. CASE ~(peer.state = "active" /\ m.type = "window")
      BY <1>1, <1>2, <1>4, <1>8, <2>1, <2>3 DEF Bounds
    <2>4. QED
      BY <2>2, <2>3
  <1>13. Tables' /\ Queue' /\ Given' /\ Blame'
    BY <1>1, <1>2 DEF Tables, Queue, Closed, Given, Blame, OffsetsNeverBlamed
  <1>14. Told'
    <2>1. SUFFICES ASSUME starts <= 1 PROVE Told'
      BY <1>1 DEF Told
    <2>2. peer'.acked <= req.received
      <3>1. peer.acked <= req.received
        BY <1>2, <2>1 DEF Told
      <3>2. CASE peer.state = "active" /\ m.type = "window"
        BY <1>3, <1>5, <1>7, <1>9, <2>1, <3>1, <3>2 DEF Most
      <3>3. QED
        BY <1>8, <3>1, <3>2
    <2>3. \A i \in 1 .. Len(outbox') : outbox'[i].type = "window" => outbox'[i].ack_offset <= req.received
      BY <1>2, <1>4, <2>1 DEF Told
    <2>4. QED
      BY <1>1, <1>2, <2>1, <2>2, <2>3 DEF Told
  <1>15. Unstarted'
    BY <1>1, <1>2, <1>4, <1>8, <1>9 DEF Unstarted
  <1>16. Following'
    <2>1. SUFFICES ASSUME starts <= 1, live, rx # "sendwait" PROVE Following'
      BY <1>1 DEF Following
    <2>2. /\ \A i \in 1 .. Len(inbox) : inbox[i].type = "data" => Continues(i, inbox[i].offset)
          /\ \A i \in 1 .. Len(inbox) : inbox[i].type = "end" => Continues(i, body)
          /\ Continues(Len(inbox) + 1, peer.next)
      BY <1>1, <2>1 DEF RequestInv, Following
    <2>3. Continues(Len(inbox) + 1, peer'.next)
      <3>1. CASE peer'.next = peer.next
        BY <2>2, <3>1
      <3>2. CASE peer'.next # peer.next
        <4>1. peer'.next = m.ack_offset /\ m.type = "window"
          BY <1>7, <1>8, <3>2 DEF Most
        <4>2. peer'.next <= req.received
          BY <1>9, <2>1, <4>1
        <4>3. QED
          BY <4>2 DEF Continues
      <3>3. QED
        BY <3>1, <3>2
    <2>4. QED
      BY <1>1, <2>2, <2>3 DEF Following, Continues
  <1>17. Unbroken'
    <2>1. SUFFICES ASSUME drops = 0, fault = "none" PROVE OneBegin' /\ (live /\ starts <= 1 => InOrder' /\ Granted')
      BY <1>1 DEF Unbroken
    <2>2. OneBegin /\ (live /\ starts <= 1 => InOrder /\ Granted)
      BY <1>2, <2>1 DEF Unbroken
    <2>3. OneBegin'
      <3>1. peer.state # "idle" /\ \A i \in 1 .. Len(inbox) : inbox[i].type # "begin"
        BY <1>1, <2>2 DEF OneBegin
      <3>2. peer'.state # "idle"
        BY <1>7, <1>8, <3>1
      <3>3. QED
        BY <1>1, <3>1, <3>2 DEF OneBegin
    <2>4. ASSUME live, starts <= 1 PROVE InOrder' /\ Granted'
      <3>1. /\ Len(outbox) <= Credited + 1
            /\ \A i \in 1 .. Len(outbox) :
                 /\ outbox[i].type = "window" /\ outbox[i].ack_offset = Credited + i - Len(outbox)
                 /\ outbox[i].credits = IF outbox[i].ack_offset = 0 THEN Window ELSE 1
            /\ peer.acked <= Credited /\ peer.next + peer.credits <= Window + peer.acked
            /\ peer.state = "active" => IF Len(outbox) = Credited + 1 THEN peer.next = 0 /\ peer.credits = 0 /\ peer.acked = 0
                                        ELSE peer.acked = Credited - Len(outbox)
        BY <2>2, <2>4 DEF Granted
      <3>2. Credited \in Int /\ Credited' = Credited
        BY <1>1, Facts DEF Credited
      <3>3. m.type = "window" /\ m.ack_offset = Credited + 1 - Len(outbox) /\ m.credits = IF m.ack_offset = 0 THEN Window ELSE 1
        BY <1>4, <3>1
      <3>4. peer.next <= peer'.next /\ peer'.next \in Nat
        BY <1>3, <1>5, <1>7, <1>8, <3>3 DEF Most
      <3>5. InOrder'
        <4>1. /\ req.received <= peer.next
              /\ \A i \in 1 .. Len(inbox) : inbox[i].type = "data" => req.received <= inbox[i].offset /\ inbox[i].offset < peer.next
              /\ \A i, j \in 1 .. Len(inbox) : i < j /\ inbox[i].type = "data" /\ inbox[j].type = "data" => inbox[i].offset < inbox[j].offset
          BY <2>2, <2>4 DEF InOrder
        <4>2. \A i \in 1 .. Len(inbox) : inbox[i].type = "data" => inbox[i].offset \in Nat
          BY Facts
        <4>3. req.received <= peer'.next
          BY <1>3, <3>4, <4>1
        <4>4. \A i \in 1 .. Len(inbox) : inbox[i].type = "data" => inbox[i].offset < peer'.next
          BY <1>3, <3>4, <4>1, <4>2
        <4>5. QED
          BY <1>1, <4>1, <4>3, <4>4 DEF InOrder
      <3>6. ASSUME NEW i \in 1 .. Len(outbox')
            PROVE  /\ outbox'[i].type = "window" /\ outbox'[i].ack_offset = Credited' + i - Len(outbox')
                   /\ outbox'[i].credits = IF outbox'[i].ack_offset = 0 THEN Window ELSE 1
        <4>1. i + 1 \in 1 .. Len(outbox) /\ outbox'[i] = outbox[i + 1] /\ Len(outbox') = Len(outbox) - 1
          BY <1>4
        <4>2. Credited + (i + 1) - Len(outbox) = Credited' + i - Len(outbox')
          BY <1>4, <3>2, <4>1
        <4>3. QED
          BY <3>1, <4>1, <4>2
      <3>7. Len(outbox') <= Credited' + 1 /\ Len(outbox') # Credited' + 1
        BY <1>4, <3>1, <3>2
      <3>8. /\ peer'.acked <= Credited /\ peer'.next + peer'.credits <= Window + peer'.acked
            /\ peer'.state = "active" => peer'.acked = Credited - Len(outbox')
        <4>1. CASE peer.state # "active"
          BY <1>8, <3>1, <4>1
        <4>2. CASE peer.state = "active" /\ Len(outbox) = Credited + 1
          <5>1. peer.next = 0 /\ peer.credits = 0 /\ peer.acked = 0 /\ m.ack_offset = 0 /\ m.credits = Window
            BY <1>4, <3>1, <3>2, <3>3, <4>2
          <5>2. peer'.next = 0 /\ peer'.acked = 0 /\ peer'.credits = Window
            BY <1>7, <3>3, <4>2, <5>1, Constants DEF Least, Most
          <5>3. QED
            BY <1>4, <3>2, <4>2, <5>2, Constants
        <4>3. CASE peer.state = "active" /\ Len(outbox) # Credited + 1
          <5>1. peer.acked = Credited - Len(outbox) /\ m.ack_offset = peer.acked + 1 /\ m.credits = 1
            BY <1>3, <1>4, <3>1, <3>2, <3>3, <4>3
          <5>2. /\ peer'.acked = peer.acked + 1 /\ peer'.credits = Least(Window, peer.credits + 1)
                /\ peer'.next = Most(peer.next, peer.acked + 1)
            BY <1>3, <1>7, <3>3, <4>3, <5>1 DEF Most
          <5>3. peer.acked <= peer.next /\ peer.next + peer.credits <= Window + peer.acked
            BY <1>2, <3>1 DEF Bounds
          <5>4. peer'.next + peer'.credits <= Window + peer'.acked
            <6>1. /\ peer.next \in Nat /\ peer.credits \in Nat /\ peer.acked \in Nat /\ Window \in Nat
              BY <1>3, Constants
            <6>2. peer'.credits <= Window /\ peer'.credits <= peer.credits + 1 /\ peer'.credits \in Nat
              BY <5>2, <6>1 DEF Least
            <6>3. peer'.next = peer.next \/ (peer'.next = peer.acked + 1 /\ peer.next = peer.acked)
              BY <5>2, <5>3, <6>1 DEF Most
            <6>4. QED
              BY <5>2, <5>3, <6>1, <6>2, <6>3
          <5>5. peer'.acked <= Credited /\ peer'.acked = Credited - Len(outbox')
            BY <1>3, <1>4, <3>2, <5>1, <5>2
          <5>6. QED
            BY <5>4, <5>5
        <4>4. QED
          BY <4>1, <4>2, <4>3
      <3>9. QED
        BY <3>2, <3>5, <3>6, <3>7, <3>8 DEF Granted
    <2>5. QED
      BY <2>3, <2>4
  <1>18. QED
    BY <1>11, <1>12, <1>13, <1>14, <1>15, <1>16, <1>17 DEF RequestInv

-----------------------------------------------------------------------------
LEMMA RequestInit == ASSUME Init PROVE RequestInv
  <1>1. /\ body \in Bodies /\ declared \in BOOLEAN /\ link = "up" /\ drops = 0 /\ inbox = <<>> /\ outbox = <<>>
        /\ rx = "ready" /\ live = FALSE /\ req = NewRequest /\ task = "none" /\ responded = FALSE
        /\ terminated = "no" /\ starts = 0 /\ got = <<>> /\ fault = "none"
    BY DEF Init
  <1>2. PICK flag \in BOOLEAN :
           peer = [state |-> "idle", next |-> 0, acked |-> 0, credits |-> 0, flagsEnd |-> flag, endSent |-> FALSE]
    BY DEF Init
  <1>3. /\ peer \in Peers /\ peer.state = "idle" /\ peer.next = 0 /\ peer.acked = 0 /\ peer.credits = 0
    BY <1>2 DEF Peers, PeerStates
  <1>4. /\ req.queue = <<>> /\ req.received = 0 /\ req.consumed = 0 /\ req.pending = 0 /\ req.ended = FALSE
        /\ req \in Requests
    BY <1>1 DEF NewRequest, Requests
  <1>5. /\ inbox \in Seq(InFrames) /\ outbox \in Seq(OutFrames) /\ got \in Seq(Nat)
        /\ Len(got) = 0 /\ Len(req.queue) = 0
        /\ (\A i \in 1 .. Len(inbox) : FALSE) /\ (\A i \in 1 .. Len(outbox) : FALSE) /\ (\A i \in 1 .. Len(got) : FALSE)
        /\ (\A i \in 1 .. Len(req.queue) : FALSE)
    BY <1>1, <1>4, SeqEmpty
  <1>6. body \in Nat /\ 0 <= body /\ 0 <= Window /\ 0 <= MaxBody /\ 0 \in 0 .. MaxDrops
    BY <1>1, Constants
  <1>7. ConnTypes /\ StreamTypes
    BY <1>1, <1>3, <1>4, <1>5, <1>6 DEF ConnTypes, StreamTypes, Tasks
  <1>8. Bounds
    BY <1>3, <1>4, <1>5, <1>6 DEF Bounds
  <1>9. Tables /\ Queue /\ Given /\ Unstarted /\ Following /\ Blame
    BY <1>1, <1>3, <1>4, <1>5, <1>6 DEF Tables, Queue, Given, Unstarted, Following, Blame, OffsetsNeverBlamed
  <1>10. Told
    BY <1>1, <1>3, <1>4, <1>5 DEF Told
  <1>11. Unbroken
    BY <1>1, <1>5 DEF Unbroken, OneBegin
  <1>12. QED
    BY <1>7, <1>8, <1>9, <1>10, <1>11 DEF RequestInv

LEMMA RequestStutter == ASSUME RequestInv, UNCHANGED vars PROVE RequestInv'
  <1>1. /\ UNCHANGED <<body, declared, link, drops, inbox, outbox, rx>>
        /\ UNCHANGED <<live, req, responded, terminated, starts, task, got, peer, fault>>
    BY DEF vars, conn, stream
  <1>2. /\ Bounds /\ Tables /\ Queue /\ Given /\ Told /\ Unstarted /\ Unbroken /\ Blame
        /\ ConnTypes /\ StreamTypes
    BY DEF RequestInv
  <1>3. ConnTypes' /\ StreamTypes' /\ Bounds' /\ Tables'
    BY <1>1, <1>2 DEF ConnTypes, StreamTypes, Bounds, Tables
  <1>4. Queue' /\ Given' /\ Told' /\ Unstarted' /\ Blame'
    BY <1>1, <1>2 DEF Queue, Closed, Given, Told, Unstarted, Blame, OffsetsNeverBlamed
  <1>5. Following'
    BY <1>1, StillFollows
  <1>6. Unbroken'
    BY <1>1, <1>2, GrantedKept DEF Unbroken, OneBegin, InOrder
  <1>7. QED
    BY <1>3, <1>4, <1>5, <1>6 DEF RequestInv

LEMMA RequestStep == ASSUME RequestInv, [Next]_vars PROVE RequestInv'
  <1>1. CASE RxStep
    BY <1>1, RxBeginInv, RxAbsorbInv, RxFaultInv, RxDuplicateInv, RxExcessInv, RxDataInv, RxEndInv,
       RxErrorInv, PutCompletesInv, LoopExitsInv DEF RxStep
  <1>2. CASE TaskStep
    BY <1>2, TaskGetInv, TaskCreditInv, UpstreamAnswersInv, TaskEndsInv DEF TaskStep
  <1>3. CASE PeerStep
    BY <1>3, PeerBeginInv, PeerDataInv, PeerEndInv, PeerReadsInv DEF PeerStep
  <1>4. CASE UpstreamAnswersEarly \/ UpstreamFailure \/ Forget \/ Drop \/ Reconnect \/ PeerCancel
    BY <1>4, UpstreamAnswersInv, UpstreamFailureInv, ForgetInv, DropInv, ReconnectInv, PeerCancelInv
  <1>5. CASE UNCHANGED vars
    BY <1>5, RequestStutter
  <1>6. QED
    BY <1>1, <1>2, <1>3, <1>4, <1>5 DEF Next

LEMMA RequestInvariant == Spec => []RequestInv
  BY RequestInit, RequestStep, PTL DEF Spec

-----------------------------------------------------------------------------
(***************************************************************************)
(* The bounds of a request_state and of the peer's counters: its queue     *)
(* is never longer than negotiated_stream_window and holds offsets of the  *)
(* body or the None that ends it, at most one chunk is pending its credit, *)
(* and neither side's offsets pass the end of the body.                    *)
(***************************************************************************)
THEOREM RequestTypesHold == Spec => []TypeOK
  <1>1. RequestInv => TypeOK
    <2>1. SUFFICES ASSUME RequestInv PROVE TypeOK
      OBVIOUS
    <2>2. ConnTypes /\ StreamTypes /\ Bounds
      BY <2>1 DEF RequestInv
    <2>3. /\ body \in Nat /\ req.queue \in Seq(Int) /\ Len(req.queue) \in Nat /\ req.received \in Nat
          /\ req.consumed \in Nat /\ req.pending \in Nat /\ req.ended \in BOOLEAN
          /\ peer.next \in Nat /\ peer.acked \in Nat /\ peer.credits \in Nat
      BY <2>1, Facts
    <2>4. req.queue \in Seq({End} \cup 0 .. body - 1)
      <3>1. \A i \in 1 .. Len(req.queue) : req.queue[i] \in {End} \cup 0 .. body - 1
        BY <2>2 DEF Bounds
      <3>2. req.queue \in [1 .. Len(req.queue) -> Int]
        BY <2>3, LenProperties
      <3>3. req.queue \in [1 .. Len(req.queue) -> {End} \cup 0 .. body - 1]
        BY <3>1, <3>2
      <3>4. QED
        BY <2>3, <3>3, SeqOfFunction
    <2>5. req.received \in 0 .. body /\ req.consumed \in 0 .. body /\ req.pending \in 0 .. 1
      BY <2>2, <2>3 DEF Bounds
    <2>6. peer.credits \in 0 .. Window /\ peer.acked \in 0 .. peer.next /\ peer.next \in 0 .. body
      BY <2>2, <2>3, Constants DEF Bounds
    <2>7. QED
      BY <2>2, <2>3, <2>4, <2>5, <2>6 DEF TypeOK, ConnTypes, StreamTypes, Bounds, Tasks
  <1>2. QED
    BY <1>1, RequestInvariant, PTL

(***************************************************************************)
(* request_content hands the upstream service a prefix of the body, every  *)
(* chunk once and in order and within negotiated_max_body_size, whatever   *)
(* the connection loses and the peer replays, and whatever the number of   *)
(* chunks, the window and the number of losses.                            *)
(***************************************************************************)
THEOREM UpstreamGetsPrefix == Spec => []BodyInOrderOnce
  <1>1. RequestInv => BodyInOrderOnce
    <2>1. SUFFICES ASSUME RequestInv PROVE BodyInOrderOnce
      OBVIOUS
    <2>2. got \in Seq(Nat) /\ Len(got) \in Nat
      BY <2>1, Facts
    <2>3. (\A i \in 1 .. Len(got) : got[i] = i - 1) /\ Len(got) <= MaxBody
      BY <2>1 DEF RequestInv, Given
    <2>4. got = [i \in 1 .. Len(got) |-> got[i]]
      BY <2>2
    <2>5. got = [i \in 1 .. Len(got) |-> i - 1]
      BY <2>3, <2>4
    <2>6. QED
      BY <2>3, <2>5 DEF BodyInOrderOnce
  <1>2. QED
    BY <1>1, RequestInvariant, PTL

(***************************************************************************)
(* Nothing of the body is cut off: while the first upstream request for    *)
(* the id is under way, an ack_offset the peer has read never passes       *)
(* received, so a chunk the peer forgets is in the queue or upstream; and  *)
(* when request_content returns, which is how the upstream learns that the *)
(* body has ended, it has yielded every chunk of the body.                 *)
(***************************************************************************)
THEOREM NothingIsCut == Spec => []NothingCut
  <1>1. ASSUME RequestInv PROVE NothingCut
    <2>1. SUFFICES ASSUME starts <= 1
                   PROVE  peer.acked <= req.received /\ (task = "upstream" => Len(got) = body)
      BY DEF NothingCut
    <2>2. peer.acked <= req.received /\ (live /\ req.ended => req.received = body)
      BY <1>1, <2>1 DEF RequestInv, Told
    <2>3. ASSUME task = "upstream" PROVE Len(got) = body
      <3>1. live
        BY <1>1, <2>3 DEF RequestInv, Tables
      <3>2. Len(got) = req.consumed /\ req.ended /\ rx # "putwait" /\ Len(req.queue) = 0 /\ ~Closed
        BY <1>1, <2>3, <3>1 DEF RequestInv, Queue, Closed
      <3>3. req.received = req.consumed + Len(req.queue)
        BY <1>1, <3>1, <3>2 DEF RequestInv, Queue
      <3>4. req.consumed \in Nat
        BY <1>1, Facts
      <3>5. QED
        BY <2>2, <3>1, <3>2, <3>3, <3>4
    <2>4. QED
      BY <2>2, <2>3
  <1>2. QED
    BY <1>1, RequestInvariant, PTL

(***************************************************************************)
(* A peer that keeps to its credits never makes the client raise "request  *)
(* chunk gap", nor "unknown stream" while terminated_streams remembers the *)
(* id; and before the first loss it is never told "request stream exceeded *)
(* advertised window".                                                     *)
(***************************************************************************)
THEOREM PeerNotBlamed == Spec => []OffsetsNeverBlamed
  <1>1. RequestInv => OffsetsNeverBlamed
    BY DEF RequestInv, Blame
  <1>2. QED
    BY <1>1, RequestInvariant, PTL

=============================================================================
