------------------------- MODULE TunnelFramesProofs --------------------------
(***************************************************************************)
(* Proofs about the receive loop of the tunnel and the work it hands out,  *)
(* for any ids, limits, number of uses of a channel and of losses.         *)
(*                                                                         *)
(* That a replayed request is not run again rests on Traced: what was run  *)
(* and not forgotten is found in one of the three places that              *)
(* handle_http_req looks into.  That nobody is blamed for data of a        *)
(* channel the client gave up rests on the way data takes: it is sent only *)
(* on a channel that was confirmed, so the id was in use, and is in use,   *)
(* remembered or forgotten ever after (Known).                             *)
(*                                                                         *)
(* That channels relay rests on two lines of frames per use, one in each   *)
(* direction (RelayInv): a line is in order, starts at the frame that its  *)
(* receiver waits for, ends at the next message of its sender, and at most *)
(* one use of the id is served at a time.                                  *)
(***************************************************************************)
EXTENDS TunnelFrames, SequenceTheorems, FiniteSetTheorems, TLAPS

DedupTypes == DedupTypeOK /\ losses \in 0 .. MaxLosses

(* One task builds the answer to an id, and until it returns the id is not *)
(* in the cache; while it streams, the id is in response_credits.          *)
TasksApart ==
    /\ \A j, k \in jobs : j.what \in Building /\ k.what \in Building /\ j.id = k.id => j = k
    /\ \A j \in jobs : j.what \in Building => j.id \notin ToSet(completed)
    /\ \A j \in jobs : j.what \in {"begin first", "stream"} => j.id \in credits

(* What was run and not forgotten can be found, and was run once. *)
Traced(r) ==
    execs[r] = 0 \/ r \in forgot \/ (execs[r] = 1 /\ r \in Inflight \cup ToSet(completed) \cup credits)

(* A request that is refused is not on its way, and its refusal is true. *)
Refusal(r) ==
    /\ r \in asks => peer[r] # "new"
    /\ <<r, "refused">> \in answers => /\ peer[r] # "new" /\ r \notin asks
                                       /\ execs[r] = 0 \/ r \in forgot \cup credits

(* Frames to the peer do not outlive their connection. *)
Silent == carries = "ws" \/ link # "up" => answers = {}

DedupInv == DedupTypes /\ TasksApart /\ Silent /\ \A r \in Ids : Traced(r) /\ Refusal(r)

-----------------------------------------------------------------------------
(* What cleanup_completed leaves: no more than the limit, nothing new, and *)
(* the newest answer unless it is too old.                                 *)
LEMMA CleanedCache ==
    ASSUME NEW cache \in Seq(Ids), aged \in 0 .. Len(cache)
    PROVE  /\ Cleaned(cache) \in Seq(Ids)
           /\ Len(Cleaned(cache)) <= CacheLimit
           /\ ToSet(Cleaned(cache)) \subseteq ToSet(cache)
           /\ aged < Len(cache) => cache[Len(cache)] \in ToSet(Cleaned(cache))
  <1> DEFINE first == 1 + (IF Len(cache) - aged > CacheLimit THEN Len(cache) - CacheLimit ELSE aged)
  <1>1. CacheLimit \in Nat \ {0}
    BY DedupAssumption
  <1>2. first \in 1 .. Len(cache) + 1 /\ Len(cache) - first + 1 <= CacheLimit
    BY <1>1
  <1>3. aged < Len(cache) => first <= Len(cache)
    BY <1>1
  <1>4. Cleaned(cache) = SubSeq(cache, first, Len(cache))
    BY DEF Cleaned
  <1> HIDE DEF first
  <1>5. /\ Cleaned(cache) \in Seq(Ids)
        /\ Len(Cleaned(cache)) = Len(cache) - first + 1
        /\ \A i \in 1 .. Len(cache) - first + 1 : Cleaned(cache)[i] = cache[first + i - 1]
    BY <1>2, <1>4
  <1>6. ToSet(Cleaned(cache)) \subseteq ToSet(cache)
    <2>1. DOMAIN Cleaned(cache) = 1 .. Len(cache) - first + 1 /\ DOMAIN cache = 1 .. Len(cache)
      BY <1>5
    <2>2. \A i \in 1 .. Len(cache) - first + 1 : first + i - 1 \in 1 .. Len(cache)
      BY <1>2
    <2>3. QED
      BY <1>5, <2>1, <2>2, Zenon DEF ToSet
  <1>7. ASSUME aged < Len(cache) PROVE cache[Len(cache)] \in ToSet(Cleaned(cache))
    <2>1. Len(cache) - first + 1 \in 1 .. Len(cache) - first + 1
      BY <1>2, <1>3, <1>7
    <2>2. Cleaned(cache)[Len(cache) - first + 1] = cache[Len(cache)]
      BY <1>2, <1>5, <2>1
    <2>3. QED
      BY <1>5, <2>1, <2>2 DEF ToSet
  <1>8. QED
    BY <1>2, <1>5, <1>6, <1>7

(* Initially nothing was asked. *)
LEMMA DedupInitInv == Init => DedupInv
  <1> SUFFICES ASSUME Init PROVE DedupInv
    OBVIOUS
  <1>1. DedupTypes
    <2>1. lim \in 1 .. MaxInflight /\ losses \in 0 .. MaxLosses /\ 0 <= CacheLimit
      BY DedupAssumption, WireAssumption DEF Init, WireInit, DedupInit
    <2>2. completed \in Seq(Ids) /\ Len(completed) = 0 /\ aged \in 0 .. Len(completed)
      BY DEF Init, DedupInit
    <2>3. QED
      BY <2>1, <2>2 DEF Init, DedupInit, DedupTypes, DedupTypeOK
  <1>2. TasksApart /\ Silent
    BY DEF Init, DedupInit, TasksApart, Silent
  <1>3. \A r \in Ids : Traced(r) /\ Refusal(r)
    BY DEF Init, DedupInit, Traced, Refusal
  <1>4. QED
    BY <1>1, <1>2, <1>3 DEF DedupInv

(* The cache, after an answer was added or not, and the frame handlers'    *)
(* other state keep their types.                                           *)
LEMMA RecallTypes ==
    ASSUME DedupTypes, NEW cache \in Seq(Ids), aged \in 0 .. Len(cache), Recall(Cleaned(cache))
    PROVE  /\ completed' \in Seq(Ids) /\ Len(completed') <= CacheLimit
           /\ aged' \in 0 .. Len(completed')
           /\ forgot' \subseteq Ids
           /\ forgot \subseteq forgot'
           /\ \A r \in ToSet(completed) : r \in forgot' \/ r \in ToSet(completed')
           /\ ToSet(completed') \subseteq ToSet(cache)
  <1>1. /\ Cleaned(cache) \in Seq(Ids) /\ Len(Cleaned(cache)) <= CacheLimit
        /\ ToSet(Cleaned(cache)) \subseteq ToSet(cache)
    BY CleanedCache
  <1>2. ToSet(completed) \subseteq Ids
    BY DEF DedupTypes, DedupTypeOK, ToSet
  <1>3. QED
    BY <1>1, <1>2 DEF Recall, DedupTypes, DedupTypeOK

(* The types are kept by each step of the http side. *)
LEMMA DedupTypesStep == ASSUME DedupTypes, DedupNext PROVE DedupTypes'
  <1> USE DEF DedupTypes, DedupTypeOK, wire, peers, store, hist
  <1>0. Connection \in 0 .. MaxLosses + 1
    BY WireAssumption DEF Connection
  <1>1. ASSUME NEW n \in PeerLimits, RxHello(n) PROVE DedupTypes'
    <2>1. lim' \in 1 .. MaxInflight
      BY <1>1, DedupAssumption DEF RxHello
    <2>2. QED
      BY <1>0, <1>1, <2>1 DEF RxHello
  <1>2. ASSUME NEW r \in Ids, RxRefuse(r) PROVE DedupTypes'
    BY <1>2 DEF RxRefuse, RxSends
  <1>3. ASSUME NEW r \in Ids, RxRequest(r) PROVE DedupTypes'
    <2>1. /\ completed' \in Seq(Ids) /\ Len(completed') <= CacheLimit
          /\ aged' \in 0 .. Len(completed') /\ forgot' \subseteq Ids
      BY <1>3, RecallTypes DEF RxRequest
    <2>2. \A what \in Building \cup {"resp", "begin"} :
             Job(r, what) \in [id : Ids, what : Building \cup {"resp", "begin"}, conn : 0 .. MaxLosses + 1]
      BY <1>0 DEF Job
    <2>3. jobs' \subseteq [id : Ids, what : Building \cup {"resp", "begin"}, conn : 0 .. MaxLosses + 1]
      BY <1>3, <2>2 DEF RxRequest, TaskFor, Building
    <2>4. execs' \in [Ids -> Nat]
      BY <1>3 DEF RxRequest
    <2>5. QED
      BY <1>3, <2>1, <2>3, <2>4 DEF RxRequest
  <1>4. ASSUME NEW r \in Ids, RxCancel(r) \/ RxComplete(r) PROVE DedupTypes'
    BY <1>4 DEF RxCancel, RxComplete
  <1>5. ASSUME NEW j \in jobs, BuildReturns(j) PROVE DedupTypes'
    <2>1. Append(completed, j.id) \in Seq(Ids) /\ aged \in 0 .. Len(Append(completed, j.id))
      OBVIOUS
    <2>2. /\ completed' \in Seq(Ids) /\ Len(completed') <= CacheLimit
          /\ aged' \in 0 .. Len(completed') /\ forgot' \subseteq Ids
      BY <1>5, <2>1, RecallTypes DEF BuildReturns
    <2>3. jobs' \subseteq [id : Ids, what : Building \cup {"resp", "begin"}, conn : 0 .. MaxLosses + 1]
      BY <1>5 DEF BuildReturns
    <2>4. QED
      BY <1>5, <2>2, <2>3 DEF BuildReturns
  <1>6. ASSUME NEW j \in jobs, BuildStreams(j) PROVE DedupTypes'
    BY <1>6 DEF BuildStreams, Building
  <1>7. ASSUME NEW j \in jobs, JobSends(j) PROVE DedupTypes'
    <2>1. jobs' \subseteq [id : Ids, what : Building \cup {"resp", "begin"}, conn : 0 .. MaxLosses + 1]
      BY <1>7 DEF JobSends, Building
    <2>2. answers' \subseteq Ids \X {"answered", "refused"}
      <3>1. j.id \in Ids /\ answers' = answers \cup {<<j.id, "answered">>}
        BY <1>7 DEF JobSends
      <3>2. QED
        BY <3>1
    <2>3. QED
      BY <1>7, <2>1, <2>2 DEF JobSends
  <1>8. ASSUME NEW j \in jobs, StreamEnds(j) PROVE DedupTypes'
    BY <1>8 DEF StreamEnds
  <1>9. CASE Age
    BY <1>9 DEF Age
  <1>10. ASSUME NEW r \in Ids, PeerAsks(r) \/ PeerCancels(r) PROVE DedupTypes'
    BY <1>10 DEF PeerAsks, PeerCancels
  <1>11. ASSUME NEW a \in answers, PeerReads(a) PROVE DedupTypes'
    BY <1>11 DEF PeerReads
  <1>12. QED
    BY <1>1, <1>2, <1>3, <1>4, <1>5, <1>6, <1>7, <1>8, <1>9, <1>10, <1>11 DEF DedupNext, DedupRun

(* What handle_http_req makes of a request. *)
LEMMA TaskForIs ==
    ASSUME NEW r, NEW cache
    PROVE  /\ \A j \in TaskFor(r, cache) : j.id = r /\ j.what \in {"begin", "resp", "build"}
           /\ \A j \in TaskFor(r, cache) :
                 j.what = "build" => r \notin credits /\ r \notin ToSet(cache) /\ r \notin Inflight
           /\ \A j, k \in TaskFor(r, cache) : j = k
           /\ TaskFor(r, cache) = {Job(r, "build")} =>
                 /\ r \notin credits /\ r \notin ToSet(cache) /\ r \notin Inflight
                 /\ \E j \in TaskFor(r, cache) : j.id = r /\ j.what = "build"
  <1>1. \A what : Job(r, what).id = r /\ Job(r, what).what = what
    BY DEF Job
  <1>2. \/ TaskFor(r, cache) = {Job(r, "begin")} \/ TaskFor(r, cache) = {Job(r, "resp")}
        \/ TaskFor(r, cache) = {}
        \/ /\ TaskFor(r, cache) = {Job(r, "build")}
           /\ r \notin credits /\ r \notin ToSet(cache) /\ r \notin Inflight
    BY DEF TaskFor
  <1>3. QED
    BY <1>1, <1>2

(* The tasks stay apart: a request is not run while its task is there or *)
(* its answer cached.                                                    *)
LEMMA TasksApartStep == ASSUME DedupTypes, TasksApart, DedupNext PROVE TasksApart'
  <1> USE DEF wire, peers, store, hist
  <1>1. /\ \A j \in jobs : j.id \in Ids /\ j.what \in Building \cup {"resp", "begin"}
        /\ \A j \in jobs, what \in {"begin first", "stream", "resp"} :
              [j EXCEPT !.what = what].id = j.id /\ [j EXCEPT !.what = what].what = what
        /\ completed \in Seq(Ids) /\ aged \in 0 .. Len(completed)
    BY DEF DedupTypes, DedupTypeOK
  <1>2. ASSUME NEW r \in Ids, RxRequest(r) PROVE TasksApart'
    <2> DEFINE new == TaskFor(r, Cleaned(completed))
    <2>1. /\ ToSet(completed') \subseteq ToSet(completed) /\ completed' = Cleaned(completed)
          /\ jobs' = jobs \cup new /\ UNCHANGED credits
      BY <1>1, <1>2, RecallTypes DEF RxRequest, Recall
    <2>2. /\ \A j \in new : j.id = r /\ j.what \in {"begin", "resp", "build"}
          /\ \A j \in new : j.what = "build" => r \notin ToSet(completed') /\ r \notin Inflight
          /\ \A j, k \in new : j = k
      BY <2>1, TaskForIs
    <2> HIDE DEF new
    <2>3. \A j \in new : j.what \in Building =>
             r \notin ToSet(completed') /\ \A k \in jobs : k.what \in Building => k.id # j.id
      BY <2>2 DEF Building, Inflight
    <2>4. ASSUME NEW j \in jobs', NEW k \in jobs', j.what \in Building, k.what \in Building, j.id = k.id
          PROVE  j = k
      <3>1. j \in jobs /\ k \in jobs => j = k
        BY <2>4 DEF TasksApart
      <3>2. j \in new => k \in new
        BY <2>1, <2>3, <2>4
      <3>3. k \in new => j \in new
        BY <2>1, <2>3, <2>4
      <3>4. QED
        BY <2>1, <2>2, <3>1, <3>2, <3>3
    <2>5. \A j \in jobs' : j.what \in Building => j.id \notin ToSet(completed')
      BY <2>1, <2>2, <2>3 DEF TasksApart
    <2>6. \A j \in jobs' : j.what \in {"begin first", "stream"} => j.id \in credits'
      BY <2>1, <2>2 DEF TasksApart
    <2>7. QED
      BY <2>4, <2>5, <2>6 DEF TasksApart
  <1>3. ASSUME NEW r \in Ids, RxCancel(r) PROVE TasksApart'
    <2>1. /\ jobs' \subseteq jobs /\ UNCHANGED completed /\ credits' = credits \ {r}
          /\ \A j \in jobs' : j.what \in Building => j.id # r
      BY <1>3 DEF RxCancel
    <2>2. {"begin first", "stream"} \subseteq Building
      BY DEF Building
    <2>3. QED
      BY <2>1, <2>2 DEF TasksApart
  <1>4. ASSUME NEW r \in Ids, RxComplete(r) PROVE TasksApart'
    BY <1>4 DEF RxComplete, Inflight, Building, TasksApart
  <1>5. ASSUME NEW j \in jobs, BuildReturns(j) PROVE TasksApart'
    <2>1. Append(completed, j.id) \in Seq(Ids) /\ aged \in 0 .. Len(Append(completed, j.id))
      BY <1>1
    <2>2. ToSet(completed') \subseteq ToSet(Append(completed, j.id)) /\ UNCHANGED credits
      BY <1>5, <2>1, RecallTypes DEF BuildReturns
    <2>3. ToSet(Append(completed, j.id)) \subseteq ToSet(completed) \cup {j.id}
      BY <1>1 DEF ToSet
    <2>4. \A k \in jobs' : k \in jobs \ {j} \/ k.what = "resp"
      BY <1>1, <1>5 DEF BuildReturns
    <2>5. QED
      BY <1>5, <2>2, <2>3, <2>4 DEF TasksApart, BuildReturns, Building
  <1>6. ASSUME NEW j \in jobs, BuildStreams(j) PROVE TasksApart'
    <2>1. /\ \A k \in jobs' : k \in jobs \ {j} \/ k = [j EXCEPT !.what = "begin first"]
          /\ UNCHANGED completed /\ credits' = credits \cup {j.id}
      BY <1>6 DEF BuildStreams
    <2>2. j.what \in Building
      BY <1>6 DEF BuildStreams, Building
    <2>3. \A k \in jobs' : \/ k \in jobs \ {j}
                           \/ k.id = j.id /\ k = [j EXCEPT !.what = "begin first"]
      BY <1>1, <2>1
    <2>4. \A k \in jobs' : k.what \in {"begin first", "stream"} => k \in jobs \/ k.id = j.id
      BY <1>1, <2>1
    <2>5. QED
      BY <2>1, <2>2, <2>3, <2>4 DEF TasksApart
  <1>7. ASSUME NEW j \in jobs, JobSends(j) PROVE TasksApart'
    <2>1. /\ \/ jobs' = jobs \ {j}
             \/ j.what = "begin first" /\ jobs' = (jobs \ {j}) \cup {[j EXCEPT !.what = "stream"]}
          /\ UNCHANGED <<completed, credits>>
      BY <1>7 DEF JobSends
    <2>2. \A k \in jobs' : \/ k \in jobs \ {j}
                           \/ /\ k.id = j.id /\ k = [j EXCEPT !.what = "stream"]
                              /\ j.what \in Building /\ j.id \in credits
      BY <1>1, <2>1 DEF Building, TasksApart
    <2>3. QED
      BY <2>1, <2>2 DEF TasksApart
  <1>8. ASSUME NEW j \in jobs, StreamEnds(j) PROVE TasksApart'
    BY <1>8 DEF StreamEnds, TasksApart
  <1>9. CASE UNCHANGED <<jobs, completed, credits>>
    BY <1>9 DEF TasksApart
  <1>10. QED
    BY <1>2, <1>3, <1>4, <1>5, <1>6, <1>7, <1>8, <1>9
       DEF DedupNext, DedupRun, RxHello, RxRefuse, Age, PeerAsks, PeerCancels, PeerReads

(* Whatever was run stays in one of the places the client looks into, or *)
(* is forgotten, so it is not run again unforgotten.                     *)
LEMMA TracedStep ==
    ASSUME DedupTypes, TasksApart, DedupNext, NEW r \in Ids, Traced(r) PROVE Traced(r)'
  <1> USE DEF Traced, wire, peers, store, hist
  <1>1. /\ jobs \subseteq [id : Ids, what : Building \cup {"resp", "begin"}, conn : 0 .. MaxLosses + 1]
        /\ execs \in [Ids -> Nat] /\ completed \in Seq(Ids) /\ aged \in 0 .. Len(completed)
    BY DEF DedupTypes, DedupTypeOK
  <1>2. ASSUME NEW q \in Ids, RxRequest(q) PROVE Traced(r)'
    <2>1. /\ completed' = Cleaned(completed) /\ forgot \subseteq forgot'
          /\ \A x \in ToSet(completed) : x \in forgot' \/ x \in ToSet(completed')
      BY <1>1, <1>2, RecallTypes DEF RxRequest, Recall
    <2>2. Inflight \subseteq Inflight' /\ UNCHANGED credits
      BY <1>2 DEF RxRequest, Inflight
    <2>3. CASE execs' = execs
      BY <2>1, <2>2, <2>3
    <2>4. CASE execs' # execs
      <3>1. TaskFor(q, Cleaned(completed)) = {Job(q, "build")} /\ execs' = [execs EXCEPT ![q] = @ + 1]
        BY <1>2, <2>4 DEF RxRequest
      <3>2. q \notin credits /\ q \notin ToSet(completed') /\ q \notin Inflight
        BY <2>1, <3>1, TaskForIs
      <3>3. q \in Inflight'
        <4>1. PICK j \in TaskFor(q, Cleaned(completed)) : j.id = q /\ j.what = "build"
          BY <3>1, TaskForIs
        <4>2. j \in jobs'
          BY <1>2 DEF RxRequest
        <4>3. QED
          BY <4>1, <4>2 DEF Inflight, Building
      <3>4. CASE r = q
        BY <1>1, <2>1, <2>2, <3>1, <3>2, <3>3, <3>4
      <3>5. CASE r # q
        BY <1>1, <2>1, <2>2, <3>1, <3>5
      <3>6. QED
        BY <3>4, <3>5
    <2>5. QED
      BY <2>3, <2>4
  <1>3. ASSUME NEW q \in Ids, RxCancel(q) PROVE Traced(r)'
    <2>1. \A x \in Inflight : x = q \/ x \in Inflight'
      BY <1>3 DEF RxCancel, Inflight
    <2>2. QED
      BY <1>3, <2>1 DEF RxCancel
  <1>4. ASSUME NEW q \in Ids, RxComplete(q) PROVE Traced(r)'
    BY <1>4 DEF RxComplete, Inflight
  <1>5. ASSUME NEW j \in jobs, BuildReturns(j) PROVE Traced(r)'
    <2> DEFINE cache == Append(completed, j.id)
    <2>1. cache \in Seq(Ids) /\ aged \in 0 .. Len(cache) /\ aged < Len(cache) /\ cache[Len(cache)] = j.id
      BY <1>1
    <2>2. completed' = Cleaned(cache) /\ forgot \subseteq forgot' /\ j.id \in ToSet(completed')
      BY <1>5, <2>1, CleanedCache DEF BuildReturns, Recall
    <2>3. \A x \in ToSet(completed) : x \in forgot' \/ x \in ToSet(completed')
      BY <1>5, <2>1, RecallTypes DEF BuildReturns
    <2>4. \A x \in Inflight : x = j.id \/ x \in Inflight'
      BY <1>5 DEF BuildReturns, Inflight
    <2>5. QED
      BY <1>5, <2>2, <2>3, <2>4 DEF BuildReturns
  <1>6. ASSUME NEW j \in jobs, BuildStreams(j) PROVE Traced(r)'
    <2>1. \A x \in Inflight : x = j.id \/ x \in Inflight'
      BY <1>6 DEF BuildStreams, Inflight
    <2>2. QED
      BY <1>6, <2>1 DEF BuildStreams
  <1>7. ASSUME NEW j \in jobs, JobSends(j) \/ StreamEnds(j) PROVE Traced(r)'
    <2>1. \A x \in Inflight : x \in Inflight' \/ x \in credits
      BY <1>7 DEF JobSends, StreamEnds, Inflight, Building, TasksApart
    <2>2. QED
      BY <1>7, <2>1 DEF JobSends, StreamEnds
  <1>8. CASE UNCHANGED <<jobs, completed, credits, execs, forgot>>
    BY <1>8 DEF Inflight
  <1>9. QED
    BY <1>2, <1>3, <1>4, <1>5, <1>6, <1>7, <1>8
       DEF DedupNext, DedupRun, RxHello, RxRefuse, Age, PeerAsks, PeerCancels, PeerReads

(* A refusal is true as long as it is on its way: the request comes again *)
(* only over another connection.                                          *)
LEMMA RefusalStep ==
    ASSUME DedupInv, DedupNext, NEW r \in Ids PROVE Refusal(r)'
  <1> USE DEF Refusal, wire, peers, store, hist
  <1>1. Refusal(r) /\ Traced(r)
    BY DEF DedupInv
  <1>2. peer \in [Ids -> {"new", "asked", "answered", "refused", "cancelled"}] /\ execs \in [Ids -> Nat]
    BY DEF DedupInv, DedupTypes, DedupTypeOK
  <1>3. ASSUME NEW q \in Ids, RxRefuse(q) PROVE Refusal(r)'
    <2>1. execs[q] = 0 \/ q \in forgot \cup credits
      BY <1>3 DEF RxRefuse, Existing, DedupInv, Traced
    <2>2. QED
      BY <1>1, <1>3, <2>1 DEF RxRefuse
  <1>4. ASSUME NEW q \in Ids, RxRequest(q) PROVE Refusal(r)'
    <2>1. forgot \subseteq forgot'
      BY <1>4 DEF RxRequest, Recall
    <2>2. r # q => execs'[r] = execs[r]
      BY <1>2, <1>4 DEF RxRequest
    <2>3. QED
      BY <1>1, <1>4, <2>1, <2>2 DEF RxRequest
  <1>5. ASSUME NEW q \in Ids, RxCancel(q) \/ RxComplete(q) PROVE Refusal(r)'
    BY <1>1, <1>5 DEF RxCancel, RxComplete
  <1>6. ASSUME NEW j \in jobs, BuildReturns(j) \/ BuildStreams(j) \/ JobSends(j) \/ StreamEnds(j)
        PROVE  Refusal(r)'
    BY <1>1, <1>6 DEF BuildReturns, Recall, BuildStreams, JobSends, StreamEnds
  <1>7. ASSUME NEW q \in Ids, PeerAsks(q) \/ PeerCancels(q) PROVE Refusal(r)'
    BY <1>1, <1>2, <1>7 DEF PeerAsks, PeerCancels
  <1>8. ASSUME NEW a \in answers, PeerReads(a) PROVE Refusal(r)'
    <2>1. a[1] \in Ids /\ a[2] # "new"
      BY DEF DedupInv, DedupTypes, DedupTypeOK
    <2>2. peer[r] # "new" => peer'[r] # "new"
      BY <1>2, <1>8, <2>1 DEF PeerReads
    <2>3. QED
      BY <1>1, <1>8, <2>2 DEF PeerReads
  <1>9. CASE Age \/ \E n \in PeerLimits : RxHello(n)
    BY <1>1, <1>9 DEF Age, RxHello
  <1>10. QED
    BY <1>3, <1>4, <1>5, <1>6, <1>7, <1>8, <1>9 DEF DedupNext, DedupRun

(* A step of the http side. *)
LEMMA HttpInv == ASSUME DedupInv, Http(DedupNext) PROVE DedupInv'
  <1>1. DedupNext /\ carries = "http" /\ carries' = "http"
    BY DEF Http
  <1>2. DedupTypes' /\ TasksApart' /\ \A r \in Ids : Traced(r)' /\ Refusal(r)'
    BY <1>1, DedupTypesStep, TasksApartStep, TracedStep, RefusalStep DEF DedupInv
  <1>3. Silent'
    <2>1. link' = link /\ (link # "up" => answers' \subseteq answers)
      BY <1>1 DEF DedupNext, DedupRun, RxHello, RxRefuse, RxSends, RxRequest, RxCancel, RxComplete,
         BuildReturns, BuildStreams, JobSends, StreamEnds, Age, PeerAsks, PeerCancels, PeerReads, wire
    <2>2. QED
      BY <1>1, <2>1 DEF Silent, DedupInv
  <1>4. QED
    BY <1>2, <1>3 DEF DedupInv

(* A step of the channel side leaves the http side alone; it may end the *)
(* connection, but then there are no http frames.                        *)
LEMMA WsKeepsDedup == ASSUME DedupInv, Ws(ChannelNext) PROVE DedupInv'
  <1>1. UNCHANGED <<dedup, carries>> /\ carries = "ws"
    BY DEF Ws
  <1>2. UNCHANGED losses
    BY DEF Ws, ChannelNext, ReceiveSteps, HandlerSteps, RxWsConnect, RxReports, RxSends, RxWsFrame, Overflow,
       RxWsStray, RxWsUnknown, RxWsError, Dial, Greet, FirstDone, Farewell, CancelEnds, PumpsOut, OutEnds,
       PumpsIn, UpstreamSends, UpstreamEnds, Forget, PeerConnects, PeerSends, PeerTakes, PeerEnds, wire
  <1>3. DedupTypes'
    BY <1>1, <1>2 DEF DedupInv, DedupTypes, DedupTypeOK, dedup
  <1>4. TasksApart' /\ Silent'
    BY <1>1 DEF DedupInv, TasksApart, Silent, dedup
  <1>5. \A r \in Ids : Traced(r)' /\ Refusal(r)'
    BY <1>1 DEF DedupInv, Traced, Refusal, Inflight, dedup
  <1>6. QED
    BY <1>3, <1>4, <1>5 DEF DedupInv

(* The connection is lost, given up and made again. *)
LEMMA ConnectionInv == ASSUME DedupInv, Lost \/ Left \/ Connected PROVE DedupInv'
  <1> USE DEF store, hist
  <1>1. UNCHANGED <<peer, jobs, completed, aged, credits, execs, forgot, carries>>
    BY DEF Lost, DedupLose, Left, DedupLeave, Connected, DedupConnect
  <1>2. DedupTypes'
    <2>1. losses' \in 0 .. MaxLosses
      BY WireAssumption DEF Lost, Lose, Left, RxLeaves, Connected, Connect, DedupInv, DedupTypes
    <2>2. lim' \in 1 .. MaxInflight
      BY DedupAssumption DEF Lost, DedupLose, Left, DedupLeave, Connected, DedupConnect, DedupInv, DedupTypes,
         DedupTypeOK
    <2>0. v2' \subseteq 0 .. MaxLosses + 1
      BY DEF Lost, DedupLose, Left, DedupLeave, Connected, DedupConnect, DedupInv, DedupTypes, DedupTypeOK
    <2>3. asks' \subseteq Ids /\ cancels' \subseteq Ids /\ answers' \subseteq answers
      BY DEF Lost, DedupLose, Left, DedupLeave, Connected, DedupConnect, DedupInv, DedupTypes, DedupTypeOK
    <2>4. QED
      BY <1>1, <2>0, <2>1, <2>2, <2>3 DEF DedupInv, DedupTypes, DedupTypeOK
  <1>3. TasksApart' /\ \A r \in Ids : Traced(r)'
    BY <1>1 DEF DedupInv, TasksApart, Traced, Inflight
  <1>4. answers' = {}
    BY DEF Lost, DedupLose, Left, DedupLeave, RxLeaves, Connected, DedupConnect, Connect, DedupInv, Silent
  <1>5. \A r \in Ids : Refusal(r)'
    BY <1>1, <1>4 DEF Lost, DedupLose, Left, DedupLeave, Connected, DedupConnect, DedupInv, Refusal
  <1>6. QED
    BY <1>2, <1>3, <1>4, <1>5 DEF DedupInv, Silent

-----------------------------------------------------------------------------
(* The id of the channel is in use, remembered, or was forgotten. *)
Known == registered # 0 \/ terminated \/ forgotten

IsSequence(s) == s \in Seq(ToSet(s))

ChannelTypes ==
    /\ IsSequence(toClient) /\ IsSequence(toPeer)
    /\ \A frame \in ToSet(toClient) : frame.type = "ws_connect" => frame.use \in Uses
    /\ use \in {0} \cup Uses /\ registered \in {0} \cup Uses
    /\ handler \in [Uses -> {"none", "dial", "greet", "pump", "bye", "error", "cancelled", "done"}]
    /\ count \in Nat

(* Where data can be, or come from, the id is known. *)
DataKnown ==
    /\ \A frame \in ToSet(toClient) : frame.type = "data" => Known
    /\ \A frame \in ToSet(toPeer) : frame.type = "ws_connected" => Known
    /\ chan = "open" => Known
    /\ \A u \in Uses : handler[u] # "none" => Known

ChannelInv == ChannelTypes /\ DataKnown /\ NoFalseUnknown

-----------------------------------------------------------------------------
(***************************************************************************)
(* The refinement of FifoRelay.  Each direction is a line of frames: what  *)
(* was sent and is not yet put together again.  A line is never out of     *)
(* order, starts at the frame the receiver waits for, and ends at the next *)
(* message of the sender.                                                  *)
(***************************************************************************)
Pieces == [use : Uses, no : Nat, part : Nat, of : Nat]
Closings == {"ws_connected", "ws_close", "error"}
Wires == [type : {"data"}, frame : Pieces] \cup [type : {"ws_connect"}, use : Uses]
         \cup [type : Closings]

(* The place of a frame among all frames of a sender, the place after it   *)
(* (nothing leads on from the last frame of a channel), and after the last *)
(* frame of these messages.                                                *)
Place(f) == <<f.no, f.part>>
Leads(frame) == frame.type \in {"data", "ws_connected"}
After(frame) ==
    IF frame.type = "ws_connected" THEN <<1, 1>>
    ELSE IF frame.frame.part < frame.frame.of
    THEN <<frame.frame.no, frame.frame.part + 1>> ELSE <<frame.frame.no + 1, 1>>
NextOf(msgs) == <<Len(msgs) + 1, 1>>

Fits(x, y) == Leads(x) /\ IsData(y) => Place(y.frame) = After(x)

InOrder(s) == \A i \in 1 .. Len(s) - 1 : Fits(s[i], s[i + 1])
EndsAt(s, to) == s # <<>> /\ Leads(s[Len(s)]) => After(s[Len(s)]) = to
StartsAt(s, from) == s # <<>> /\ IsData(s[1]) => Place(s[1].frame) = from
Spans(s, from, to) == StartsAt(s, from) /\ (s = <<>> => from = to)

(* The frame carries a part of one of these messages. *)
PartOf(f, u, msgs) ==
    /\ f.no \in 1 .. Len(msgs) /\ f.of \in 1 .. 2 /\ f.part \in 1 .. f.of
    /\ f = [use |-> u, no |-> f.no, part |-> f.part, of |-> f.of]
    /\ msgs[f.no] = Message(u, f.no, f.of)

(* What is put together so far, behind the messages that are whole. *)
Begun(u, msgs) == {<<>>, <<[use |-> u, no |-> Len(msgs) + 1, part |-> 1, of |-> 2]>>}
Wanted(msgs, part) == <<Len(msgs) + 1, Len(part) + 1>>

Live == chan \in {"asked", "open"}
Served(u) == handler[u] # "none"
Greeted(u) == handler[u] \notin {"none", "dial", "greet"}
Rests(u) == handler[u] \in {"none", "done"}

HandlerStates == {"none", "dial", "greet", "pump", "bye", "error", "cancelled", "done"}

RelayTypes ==
    /\ chan \in {"idle", "asked", "open", "closed", "lost"}
    /\ use \in {0} \cup Uses /\ registered \in {0} \cup Uses
    /\ handler \in [Uses -> HandlerStates]
    /\ pumps \in [Uses -> SUBSET {"in", "out"}]
    /\ upstream \in [Uses -> {"none", "open", "closed", "broken"}]
    /\ toClient \in Seq(Wires) /\ toPeer \in Seq(Wires)
    /\ queue \in [Uses -> Seq(Wires)] /\ unread \in [Uses -> Seq(Wires)]
    /\ partIn \in [Uses -> Seq(Pieces)] /\ partOut \in Seq(Pieces)
    /\ \A sent \in {peerSent, upstreamGot, upstreamSent, peerGot} : sent \in [Uses -> Seq(Messages)]
    /\ count \in 0 .. MaxMessages
    /\ \A u \in Uses : Len(peerSent[u]) <= count /\ Len(upstreamSent[u]) <= count

(* Of all uses of the id at most one is served: the peer asks again only   *)
(* when the connection has ended all handlers, and before the id of a      *)
(* served use is forgotten.                                                *)
Asks(s, i) == i \in 1 .. Len(s) /\ s[i].type = "ws_connect"

OneServed ==
    /\ \A u, v \in Uses : Served(u) /\ Served(v) => u = v
    /\ \A u \in Uses : ~Rests(u) => u = use
    /\ registered # 0 => ~Rests(registered)
    /\ \A i : Asks(toClient, i) => /\ i = 1 /\ toClient[i].use = use
                                  /\ ~forgotten /\ \A u \in Uses : Rests(u)
    /\ link = "down" \/ (chan \in {"idle", "lost"} /\ link = "up") =>
          toClient = <<>> /\ \A u \in Uses : Rests(u)

(* How far the peer can be. *)
PeerKnows ==
    /\ link # "up" => toPeer = <<>> /\ chan \notin {"asked", "open"}
    /\ chan = "open" => Greeted(use)
    /\ \A i \in 1 .. Len(toPeer) :
          /\ toPeer[i].type = "ws_connected" => chan \in {"asked", "closed"} /\ Greeted(use)
          /\ \A j \in 1 .. Len(toPeer) :
                toPeer[i].type = "ws_connected" /\ toPeer[j].type = "ws_connected" => i = j
    /\ chan \in {"idle", "lost", "asked"} => partOut = <<>>
    /\ chan = "idle" => use = 0
    /\ chan # "idle" => use # 0
    /\ \A u \in Uses : peerGot[u] # <<>> => u <= use /\ (u = use => chan # "asked")

(* From the peer to the upstream. *)
InLine(u) == queue[u] \o (IF registered = u THEN toClient ELSE <<>>)

InContent ==
    /\ \A i \in 1 .. Len(toClient) :
          IsData(toClient[i]) => use # 0 /\ PartOf(toClient[i].frame, use, peerSent[use])
    /\ \A u \in Uses : /\ \A i \in 1 .. Len(queue[u]) :
                             IsData(queue[u][i]) => PartOf(queue[u][i].frame, u, peerSent[u])
                       /\ peerSent[u] # <<>> => Greeted(u)
                       /\ ~Greeted(u) => /\ pumps[u] = {} /\ partIn[u] = <<>>
                                         /\ upstreamGot[u] = <<>>
                       /\ ~Served(u) => queue[u] = <<>>
                       /\ "in" \in pumps[u] => partIn[u] \in Begun(u, upstreamGot[u])

LineIn(u) ==
    /\ InOrder(InLine(u))
    /\ "in" \in pumps[u] => StartsAt(InLine(u), Wanted(upstreamGot[u], partIn[u]))
    /\ registered = u /\ Live =>
          /\ EndsAt(InLine(u), NextOf(peerSent[u]))
          /\ "in" \in pumps[u] => Spans(InLine(u), Wanted(upstreamGot[u], partIn[u]), NextOf(peerSent[u]))

InInOrder ==
    /\ InOrder(toClient)
    /\ Live => EndsAt(toClient, NextOf(peerSent[use]))
    /\ \A u \in Uses : LineIn(u)

(* From the upstream to the peer. *)
OutLine(u) == toPeer \o unread[u]

OutContent ==
    /\ \A i \in 1 .. Len(toPeer) :
          IsData(toPeer[i]) => LET f == toPeer[i].frame
                               IN Greeted(f.use) /\ PartOf(f, f.use, upstreamSent[f.use])
    /\ \A u \in Uses : /\ \A i \in 1 .. Len(unread[u]) :
                             IsData(unread[u][i]) /\ PartOf(unread[u][i].frame, u, upstreamSent[u])
                       /\ ~Served(u) => upstream[u] = "none" /\ unread[u] = <<>> /\ upstreamSent[u] = <<>>

LineOut(u) ==
    /\ InOrder(OutLine(u)) /\ EndsAt(OutLine(u), NextOf(upstreamSent[u]))
    /\ ~Greeted(u) => Spans(unread[u], <<1, 1>>, NextOf(upstreamSent[u]))
    /\ chan = "open" => /\ partOut \in Begun(u, peerGot[u])
                        /\ Spans(OutLine(u), Wanted(peerGot[u], partOut), NextOf(upstreamSent[u]))

OutInOrder == \A u \in Uses : Served(u) => LineOut(u)

RelayInv == RelayTypes /\ OneServed /\ PeerKnows /\ InContent /\ InInOrder /\ OutContent /\ OutInOrder

-----------------------------------------------------------------------------

(* Sequences of frames, whatever is in them. *)
LEMMA SequenceOps ==
    ASSUME NEW s, IsSequence(s)
    PROVE  /\ \A x : IsSequence(Append(s, x)) /\ ToSet(Append(s, x)) = ToSet(s) \cup {x}
           /\ s # <<>> => IsSequence(Tail(s)) /\ ToSet(Tail(s)) \subseteq ToSet(s) /\ Head(s) \in ToSet(s)
           /\ \A n \in 0 .. Len(s) : IsSequence(SubSeq(s, 1, n)) /\ ToSet(SubSeq(s, 1, n)) \subseteq ToSet(s)
           /\ IsSequence(<<>>) /\ ToSet(<<>>) = {}
  <1> USE DEF IsSequence
  <1>1. \A q, S : q \in Seq(S) => q \in Seq(ToSet(q))
    <2> SUFFICES ASSUME NEW S, NEW q \in Seq(S) PROVE q \in Seq(ToSet(q))
      OBVIOUS
    <2>1. \A i \in 1 .. Len(q) : q[i] \in ToSet(q)
      BY DEF ToSet
    <2>2. QED
      BY <2>1
  <1>2. ASSUME NEW x PROVE IsSequence(Append(s, x)) /\ ToSet(Append(s, x)) = ToSet(s) \cup {x}
    <2>1. s \in Seq(ToSet(s) \cup {x})
      BY SeqMonotonic
    <2>2. Append(s, x) \in Seq(ToSet(s) \cup {x})
      BY <2>1
    <2>3. ToSet(Append(s, x)) = ToSet(s) \cup {x}
      <3>1. /\ Len(s) \in Nat /\ DOMAIN s = 1 .. Len(s)
            /\ DOMAIN Append(s, x) = 1 .. Len(s) + 1 /\ Append(s, x)[Len(s) + 1] = x
            /\ \A i \in 1 .. Len(s) : Append(s, x)[i] = s[i]
        BY <2>1
      <3>2. 1 .. Len(s) + 1 = (1 .. Len(s)) \cup {Len(s) + 1}
        BY <3>1
      <3>3. QED
        BY <3>1, <3>2, Zenon DEF ToSet
    <2>4. QED
      BY <2>2, <2>3
  <1>3. ASSUME s # <<>>
        PROVE  IsSequence(Tail(s)) /\ ToSet(Tail(s)) \subseteq ToSet(s) /\ Head(s) \in ToSet(s)
    <2>1. Tail(s) \in Seq(ToSet(s)) /\ Head(s) \in ToSet(s)
      BY <1>3
    <2>2. ToSet(Tail(s)) \subseteq ToSet(s)
      BY <2>1 DEF ToSet
    <2>3. QED
      BY <1>1, <2>1, <2>2
  <1>4. ASSUME NEW n \in 0 .. Len(s)
        PROVE  IsSequence(SubSeq(s, 1, n)) /\ ToSet(SubSeq(s, 1, n)) \subseteq ToSet(s)
    <2>1. SubSeq(s, 1, n) \in Seq(ToSet(s))
      OBVIOUS
    <2>2. ToSet(SubSeq(s, 1, n)) \subseteq ToSet(s)
      BY <2>1 DEF ToSet
    <2>3. QED
      BY <1>1, <2>1, <2>2
  <1>5. IsSequence(<<>>) /\ ToSet(<<>>) = {}
    BY DEF ToSet
  <1>6. QED
    BY <1>2, <1>3, <1>4, <1>5

(* What a step may do to the frames to the client, to those to the peer, *)
(* and to the tasks and tables of the client.                            *)
ClientFrames ==
    /\ IsSequence(toClient')
    /\ \A frame \in ToSet(toClient') : \/ frame \in ToSet(toClient)
                                       \/ frame.type = "data" /\ chan = "open"
                                       \/ frame.type = "ws_connect" /\ frame.use \in Uses
                                       \/ frame.type \in {"ws_close", "error"}
PeerFrames ==
    /\ IsSequence(toPeer')
    /\ \A frame \in ToSet(toPeer') : frame \in ToSet(toPeer) \/ frame.type # "ws_connected" \/ Known
    /\ chan' = "open" => chan = "open" \/ Known
Tables ==
    /\ Known => Known'
    /\ registered' \in {0} \cup Uses
    /\ handler' \in [Uses -> {"none", "dial", "greet", "pump", "bye", "error", "cancelled", "done"}]
    /\ \A u \in Uses : handler'[u] # "none" => handler[u] # "none" \/ Known'
Others == use' \in {0} \cup Uses /\ count' \in Nat /\ (blamed' => forgotten')

(* A step that does no more keeps the invariant. *)
LEMMA ChannelKeeps ==
    ASSUME ChannelInv, ClientFrames, PeerFrames, Tables, Others PROVE ChannelInv'
  <1>1. ChannelTypes'
    BY DEF ChannelInv, ChannelTypes, ClientFrames, PeerFrames, Tables, Others
  <1>2. \A frame \in ToSet(toClient') : frame.type = "data" => Known'
    BY DEF ChannelInv, DataKnown, ClientFrames, Tables
  <1>3. \A frame \in ToSet(toPeer') : frame.type = "ws_connected" => Known'
    BY DEF ChannelInv, DataKnown, PeerFrames, Tables
  <1>4. (chan' = "open" => Known') /\ \A u \in Uses : handler'[u] # "none" => Known'
    BY DEF ChannelInv, DataKnown, PeerFrames, Tables
  <1>5. NoFalseUnknown'
    BY DEF Others, NoFalseUnknown
  <1>6. QED
    BY <1>1, <1>2, <1>3, <1>4, <1>5 DEF ChannelInv, DataKnown

(* What each of these leaves alone. *)
LEMMA ChannelQuiet ==
    ASSUME ChannelInv
    PROVE  /\ UNCHANGED toClient => ClientFrames
           /\ UNCHANGED <<chan, toPeer>> => PeerFrames
           /\ UNCHANGED <<known, handler>> => Tables
           /\ UNCHANGED <<use, count, blamed>> /\ (forgotten => forgotten') => Others
  <1>1. UNCHANGED toClient => ClientFrames
    BY DEF ChannelInv, ChannelTypes, ClientFrames
  <1>2. UNCHANGED <<chan, toPeer>> => PeerFrames
    BY DEF ChannelInv, ChannelTypes, PeerFrames
  <1>3. UNCHANGED <<known, handler>> => Tables
    BY DEF ChannelInv, ChannelTypes, Tables, Known, known
  <1>4. UNCHANGED <<use, count, blamed>> /\ (forgotten => forgotten') => Others
    BY DEF ChannelInv, ChannelTypes, NoFalseUnknown, Others
  <1>5. QED
    BY <1>1, <1>2, <1>3, <1>4

(* Uses are numbered from 1. *)
LEMMA UseNotZero == 0 \notin Uses
  <1>1. Cardinality(Uses) \in Nat
    BY ChannelAssumption, FS_CardinalityType
  <1>2. \A n \in Nat : 0 \notin 1 .. n
    OBVIOUS
  <1>3. QED
    BY <1>1, <1>2, ChannelAssumption

(* The parts that actions share. *)
LEMMA ChannelParts ==
    ASSUME ChannelInv
    PROVE  /\ \A types : Takes(types) => ClientFrames
           /\ \A t : t # "ws_connected" /\ RxReports(t) /\ UNCHANGED chan => PeerFrames
           /\ \A t : /\ toPeer' = Append(toPeer, Plain(t)) /\ UNCHANGED chan
                     /\ t = "ws_connected" => Known
                     => PeerFrames
           /\ \A x : toPeer' = Append(toPeer, x) /\ IsData(x) /\ UNCHANGED chan => PeerFrames
           /\ registered # 0 /\ Evict => Tables
           /\ \A us \in SUBSET Uses : (\A u \in us : handler[u] # "none") /\ Finally(us) => Tables
           /\ \A u \in Uses, pc \in {"greet", "pump", "bye", "error"} :
                 handler[u] # "none" /\ Goes(u, pc) /\ UNCHANGED known => Tables
  <1>1. IsSequence(toClient) /\ IsSequence(toPeer)
    BY DEF ChannelInv, ChannelTypes
  <1>2. \A types : Takes(types) => ClientFrames
    BY <1>1, SequenceOps DEF Takes, ClientFrames
  <1>3. \A x : /\ toPeer' = Append(toPeer, x) /\ UNCHANGED chan
               /\ x.type = "ws_connected" => Known
               => PeerFrames
    BY <1>1, SequenceOps DEF PeerFrames
  <1>4. (\A t : Plain(t).type = t) /\ \A x : IsData(x) => x.type # "ws_connected"
    BY DEF Plain, IsData
  <1>5. \A t : t # "ws_connected" /\ RxReports(t) /\ UNCHANGED chan => PeerFrames
    BY <1>3, <1>4, ChannelQuiet DEF RxReports
  <1>6. ASSUME registered # 0, Evict PROVE Tables
    <2>1. registered' = 0 /\ terminated' /\ registered \in Uses
      BY <1>6 DEF Evict, Remembered, ChannelInv, ChannelTypes
    <2>2. QED
      BY <1>6, <2>1 DEF Evict, Cancelled, ChannelInv, ChannelTypes, Tables, Known
  <1>7. ASSUME NEW us \in SUBSET Uses, \A u \in us : handler[u] # "none", Finally(us) PROVE Tables
    <2>1. Known => Known'
      BY <1>7, UseNotZero DEF Finally, Remembered, Known
    <2>2. QED
      BY <1>7, <2>1 DEF Finally, Tables, ChannelInv, ChannelTypes
  <1>8. ASSUME NEW u \in Uses, NEW pc \in {"greet", "pump", "bye", "error"},
               handler[u] # "none", Goes(u, pc), UNCHANGED known
        PROVE  Tables
    BY <1>8 DEF Goes, known, Known, Tables, ChannelInv, ChannelTypes
  <1>9. QED
    BY <1>2, <1>3, <1>4, <1>5, <1>6, <1>7, <1>8

(* The steps of the receive loop. *)
LEMMA ReceiveKeeps ==
    ASSUME ChannelInv, ReceiveSteps PROVE ChannelInv'
  <1>1. ASSUME NEW full \in BOOLEAN, RxWsConnect(full) PROVE ChannelInv'
    <2>1. ClientFrames
      BY <1>1, ChannelParts DEF RxWsConnect
    <2>2. UNCHANGED <<chan, use, count, blamed>>
      BY <1>1 DEF RxWsConnect, chanPeer, ends
    <2>3. CASE registered # 0 \/ terminated \/ full
      <3>1. RxReports("error") /\ UNCHANGED <<known, handler, forgotten>>
        BY <1>1, <2>3 DEF RxWsConnect, known, task
      <3>2. PeerFrames /\ Tables /\ Others
        BY <3>1, <2>2, ChannelParts, ChannelQuiet
      <3>3. QED
        BY <2>1, <3>2, ChannelKeeps
    <2>4. CASE ~(registered # 0 \/ terminated \/ full)
      <3>1. /\ registered' = Head(toClient).use
            /\ handler' = [handler EXCEPT ![registered'] = "dial"]
            /\ UNCHANGED <<toPeer, forgotten>>
        BY <1>1, <2>4 DEF RxWsConnect
      <3>2. Head(toClient) \in ToSet(toClient) /\ Head(toClient).type = "ws_connect"
        BY <1>1, SequenceOps DEF RxWsConnect, Takes, ChannelInv, ChannelTypes
      <3>3. registered' \in Uses
        BY <3>1, <3>2 DEF ChannelInv, ChannelTypes
      <3>4. Known'
        BY <3>3, UseNotZero DEF Known
      <3>5. Tables
        BY <3>1, <3>3, <3>4 DEF ChannelInv, ChannelTypes, Tables
      <3>6. PeerFrames /\ Others
        BY <3>1, <2>2, ChannelQuiet
      <3>7. QED
        BY <2>1, <3>5, <3>6, ChannelKeeps
    <2>5. QED
      BY <2>3, <2>4
  <1>2. ASSUME RxWsFrame PROVE ChannelInv'
    <2>1. ClientFrames
      BY <1>2, ChannelParts DEF RxWsFrame
    <2>2. UNCHANGED <<chan, use, count, blamed>> /\ registered # 0
      BY <1>2 DEF RxWsFrame, chanPeer, ends
    <2>3. CASE Overflow
      <3>1. UNCHANGED forgotten /\ Evict /\ RxReports("error")
        BY <2>3 DEF Overflow, Evict
      <3>2. PeerFrames /\ Tables /\ Others
        BY <3>1, <2>2, ChannelParts, ChannelQuiet
      <3>3. QED
        BY <2>1, <3>2, ChannelKeeps
    <2>4. CASE ~Overflow
      <3>1. UNCHANGED <<toPeer, known, handler, forgotten>>
        BY <1>2, <2>4 DEF RxWsFrame, known
      <3>2. PeerFrames /\ Tables /\ Others
        BY <3>1, <2>2, ChannelQuiet
      <3>3. QED
        BY <2>1, <3>2, ChannelKeeps
    <2>5. QED
      BY <2>3, <2>4
  <1>3. ASSUME RxWsStray PROVE ChannelInv'
    <2>1. ClientFrames /\ UNCHANGED <<chan, use, count, blamed, toPeer, known, handler, forgotten>>
      BY <1>3, ChannelParts DEF RxWsStray, chanPeer, ends, task, known
    <2>2. QED
      BY <2>1, ChannelQuiet, ChannelKeeps
  <1>4. ASSUME RxWsUnknown PROVE ChannelInv'
    <2>1. /\ toClient' = <<>> /\ toPeer' = <<>> /\ chan' # "open"
          /\ UNCHANGED <<known, handler, use, count, forgotten>>
      BY <1>4 DEF RxWsUnknown, ends, task, known
    <2>2. ClientFrames /\ PeerFrames
      BY <2>1, SequenceOps DEF ClientFrames, PeerFrames, ChannelInv, ChannelTypes
    <2>3. Head(toClient) \in ToSet(toClient)
      BY <1>4, SequenceOps DEF RxWsUnknown, ChannelInv, ChannelTypes
    <2>4. Known
      BY <1>4, <2>3 DEF RxWsUnknown, NeedsChannel, IsData, ChannelInv, DataKnown
    <2>5. forgotten
      BY <1>4, <2>4 DEF RxWsUnknown, NeedsChannel, Known
    <2>6. Tables /\ Others
      BY <2>1, <2>5, ChannelQuiet DEF Others, ChannelInv, ChannelTypes
    <2>7. QED
      BY <2>2, <2>6, ChannelKeeps
  <1>5. ASSUME RxWsError PROVE ChannelInv'
    <2>1. ClientFrames /\ UNCHANGED <<chan, use, count, blamed, toPeer>>
      BY <1>5, ChannelParts DEF RxWsError, chanPeer, ends
    <2>2. Tables /\ UNCHANGED forgotten
      BY <1>5, ChannelParts, ChannelQuiet DEF RxWsError, Evict, task, known
    <2>3. QED
      BY <2>1, <2>2, ChannelQuiet, ChannelKeeps
  <1>6. QED
    BY <1>1, <1>2, <1>3, <1>4, <1>5 DEF ReceiveSteps

(* The steps of a handler, of its pumps and of its upstream. *)
LEMMA HandlerKeeps ==
    ASSUME ChannelInv, RelayInv, NEW u \in Uses,
           \/ HandlerSteps(u) \/ PumpsOut(u) \/ OutEnds(u) \/ PumpsIn(u) \/ UpstreamSends(u)
           \/ \E how \in {"closed", "broken"} : UpstreamEnds(u, how)
    PROVE  ChannelInv'
  <1> SUFFICES ClientFrames /\ PeerFrames /\ Tables /\ Others
    BY ChannelKeeps
  <1>1. ASSUME NEW ok \in BOOLEAN, Dial(u, ok)
        PROVE  ClientFrames /\ PeerFrames /\ Tables /\ Others
    <2>1. /\ UNCHANGED <<toClient, chan, toPeer, known, use, count, blamed, forgotten>>
          /\ handler[u] # "none"
          /\ \E pc \in {"greet", "error"} : Goes(u, pc)
      BY <1>1 DEF Dial, At, chanPeer, ends, known
    <2>2. QED
      BY <2>1, ChannelQuiet, ChannelParts
  <1>2. ASSUME Greet(u) PROVE ClientFrames /\ PeerFrames /\ Tables /\ Others
    <2>1. /\ UNCHANGED <<toClient, chan, known, use, count, blamed, forgotten>>
          /\ handler[u] # "none" /\ Goes(u, "pump")
          /\ toPeer' = Append(toPeer, Plain("ws_connected"))
      BY <1>2 DEF Greet, At, chanPeer, ends, known
    <2>2. Known
      BY <2>1 DEF ChannelInv, DataKnown
    <2>3. QED
      BY <2>1, <2>2, ChannelQuiet, ChannelParts
  <1>3. ASSUME FirstDone(u) PROVE ClientFrames /\ PeerFrames /\ Tables /\ Others
    <2>1. /\ UNCHANGED <<toClient, chan, toPeer, known, use, count, blamed, forgotten>>
          /\ handler[u] # "none"
          /\ \E pc \in {"bye", "error"} : Goes(u, pc)
      BY <1>3 DEF FirstDone, At, chanPeer, ends, known
    <2>2. QED
      BY <2>1, ChannelQuiet, ChannelParts
  <1>4. ASSUME Farewell(u) PROVE ClientFrames /\ PeerFrames /\ Tables /\ Others
    <2>1. /\ UNCHANGED <<toClient, chan, use, count, blamed, forgotten>>
          /\ handler[u] # "none" /\ Finally({u})
          /\ \E t \in {"ws_close", "error"} : toPeer' = Append(toPeer, Plain(t))
      BY <1>4 DEF Farewell, Finally, chanPeer, ends
    <2>2. Tables
      BY <2>1, ChannelParts
    <2>3. PeerFrames
      BY <2>1, ChannelParts
    <2>4. QED
      BY <2>1, <2>2, <2>3, ChannelQuiet
  <1>5. ASSUME CancelEnds(u) PROVE ClientFrames /\ PeerFrames /\ Tables /\ Others
    <2>1. /\ UNCHANGED <<toClient, toPeer, chan, use, count, blamed, forgotten>>
          /\ handler[u] # "none" /\ Finally({u})
      BY <1>5 DEF CancelEnds, At, Finally, chanPeer, ends
    <2>2. Tables
      BY <2>1, ChannelParts
    <2>3. QED
      BY <2>1, <2>2, ChannelQuiet
  <1>6. ASSUME PumpsOut(u) PROVE ClientFrames /\ PeerFrames /\ Tables /\ Others
    <2>1. /\ UNCHANGED <<toClient, chan, known, handler, use, count, blamed, forgotten>>
          /\ unread[u] # <<>> /\ toPeer' = Append(toPeer, Head(unread[u]))
      BY <1>6 DEF PumpsOut, chanPeer, ends, known
    <2>2. unread[u] \in Seq(Wires)
      BY DEF RelayInv, RelayTypes
    <2>3. Head(unread[u]) = unread[u][1] /\ 1 \in 1 .. Len(unread[u])
      BY <2>1, <2>2
    <2>4. IsData(Head(unread[u]))
      BY <2>3 DEF RelayInv, OutContent
    <2>5. QED
      BY <2>1, <2>4, ChannelQuiet, ChannelParts
  <1>7. ASSUME \/ OutEnds(u) \/ PumpsIn(u)
               \/ \E how \in {"closed", "broken"} : UpstreamEnds(u, how)
        PROVE  ClientFrames /\ PeerFrames /\ Tables /\ Others
    <2>1. UNCHANGED <<toClient, toPeer, chan, known, handler, use, count, blamed, forgotten>>
      BY <1>7 DEF OutEnds, PumpsIn, UpstreamEnds, chanPeer, ends, known, task
    <2>2. QED
      BY <2>1, ChannelQuiet
  <1>8. ASSUME UpstreamSends(u) PROVE ClientFrames /\ PeerFrames /\ Tables /\ Others
    <2>1. /\ UNCHANGED <<toClient, toPeer, chan, known, handler, use, blamed, forgotten>>
          /\ count' = count + 1
      BY <1>8 DEF UpstreamSends, chanPeer, known
    <2>2. Others
      BY <2>1 DEF ChannelInv, ChannelTypes, NoFalseUnknown, Others
    <2>3. QED
      BY <2>1, <2>2, ChannelQuiet
  <1>9. QED
    BY <1>1, <1>2, <1>3, <1>4, <1>5, <1>6, <1>7, <1>8 DEF HandlerSteps

(* What the peer sends is on its way behind the frames before it. *)
LEMMA Sent ==
    ASSUME NEW s, IsSequence(s), NEW n \in Nat, NEW q, q = [i \in 1 .. n |-> q[i]]
    PROVE  IsSequence(s \o q) /\ ToSet(s \o q) = ToSet(s) \cup {q[i] : i \in 1 .. n}
  <1> DEFINE All == ToSet(s) \cup {q[i] : i \in 1 .. n}
  <1>1. q \in Seq({q[i] : i \in 1 .. n}) /\ Len(q) = n
    OBVIOUS
  <1>2. s \in Seq(All) /\ q \in Seq(All)
    BY <1>1, SeqMonotonic DEF IsSequence
  <1>3. ToSet(s) = {s[i] : i \in 1 .. Len(s)}
    <2>1. DOMAIN s = 1 .. Len(s)
      BY <1>2
    <2>2. QED
      BY <2>1, Zenon DEF ToSet
  <1> HIDE DEF All
  <1>4. s \o q \in Seq(All) /\ Len(s \o q) = Len(s) + Len(q)
    BY <1>2
  <1>5. /\ \A i \in 1 .. Len(s) : (s \o q)[i] = s[i]
        /\ \A i \in 1 .. n : (s \o q)[Len(s) + i] = q[i]
    BY <1>1, <1>2
  <1>6. ToSet(s \o q) = {(s \o q)[i] : i \in 1 .. Len(s) + n}
    BY <1>1, <1>4 DEF ToSet
  <1>7. All \subseteq ToSet(s \o q)
    <2>1. \A i \in 1 .. Len(s) : s[i] \in ToSet(s \o q)
      BY <1>2, <1>5, <1>6
    <2>2. \A i \in 1 .. n : Len(s) + i \in 1 .. Len(s) + n
      BY <1>2
    <2>3. \A i \in 1 .. n : q[i] \in ToSet(s \o q)
      BY <1>5, <1>6, <2>2
    <2>4. QED
      BY <1>3, <2>1, <2>3 DEF All
  <1>8. ToSet(s \o q) \subseteq All
    BY <1>4 DEF ToSet
  <1>9. QED
    BY <1>4, <1>7, <1>8 DEF IsSequence, All

(* The clock and the steps of the peer. *)
LEMMA PeerKeeps ==
    ASSUME ChannelInv,
           \/ Forget \/ PeerConnects \/ PeerSends \/ PeerTakes
           \/ \E t \in {"ws_close", "error"} : PeerEnds(t)
    PROVE  ChannelInv'
  <1> SUFFICES ClientFrames /\ PeerFrames /\ Tables /\ Others
    BY ChannelKeeps
  <1>0. IsSequence(toClient) /\ IsSequence(toPeer)
    BY DEF ChannelInv, ChannelTypes
  <1>1. ASSUME Forget PROVE ClientFrames /\ PeerFrames /\ Tables /\ Others
    <2>1. UNCHANGED <<toClient, toPeer, chan, use, count, blamed>> /\ forgotten'
      BY <1>1 DEF Forget, chanPeer, ends
    <2>2. Tables
      BY <1>1 DEF Forget, task, Tables, Known, ChannelInv, ChannelTypes
    <2>3. QED
      BY <2>1, <2>2, ChannelQuiet
  <1>2. ASSUME PeerConnects PROVE ClientFrames /\ PeerFrames /\ Tables /\ Others
    <2>1. /\ UNCHANGED <<toPeer, known, handler, count, blamed, forgotten>>
          /\ chan' # "open" /\ use' = use + 1 /\ use + 1 \in Uses
          /\ toClient' = Append(toClient, [type |-> "ws_connect", use |-> use + 1])
      BY <1>2 DEF PeerConnects, ends, known, task
    <2>2. ClientFrames
      BY <1>0, <2>1, SequenceOps DEF ClientFrames
    <2>3. PeerFrames
      BY <1>0, <2>1 DEF PeerFrames
    <2>4. Others
      BY <2>1 DEF Others, ChannelInv, ChannelTypes, NoFalseUnknown
    <2>5. QED
      BY <2>1, <2>2, <2>3, <2>4, ChannelQuiet
  <1>3. ASSUME PeerSends PROVE ClientFrames /\ PeerFrames /\ Tables /\ Others
    <2>0. PICK msg \in Fresh(use, peerSent[use]) : toClient' = toClient \o Carried(msg)
      BY <1>3 DEF PeerSends
    <2> DEFINE q == Carried(msg)
    <2>1. /\ UNCHANGED <<toPeer, chan, known, handler, use, blamed, forgotten>>
          /\ chan = "open" /\ count' = count + 1
          /\ toClient' = toClient \o q
      BY <1>3, <2>0 DEF PeerSends, chanPeer, known, task
    <2>2. PICK n \in 1 .. 2 : DOMAIN msg = 1 .. n
      BY DEF Fresh, Message
    <2>3. n \in Nat
      OBVIOUS
    <2>4. q = [i \in 1 .. n |-> q[i]] /\ \A i \in 1 .. n : q[i].type = "data"
      BY <2>2 DEF Carried, Data
    <2> HIDE DEF q
    <2>5. IsSequence(toClient') /\ ToSet(toClient') = ToSet(toClient) \cup {q[i] : i \in 1 .. n}
      BY <1>0, <2>1, <2>3, <2>4, Sent
    <2>6. ClientFrames
      BY <2>1, <2>4, <2>5 DEF ClientFrames
    <2>7. Others
      BY <2>1 DEF Others, ChannelInv, ChannelTypes, NoFalseUnknown
    <2>8. QED
      BY <2>1, <2>6, <2>7, ChannelQuiet
  <1>4. ASSUME PeerTakes PROVE ClientFrames /\ PeerFrames /\ Tables /\ Others
    <2>1. /\ UNCHANGED <<toClient, known, handler, use, count, blamed, forgotten>>
          /\ toPeer # <<>> /\ toPeer' = Tail(toPeer)
          /\ chan' = "open" => chan = "open" \/ Head(toPeer).type = "ws_connected"
      BY <1>4 DEF PeerTakes, known, task
    <2>2. IsSequence(toPeer') /\ ToSet(toPeer') \subseteq ToSet(toPeer) /\ Head(toPeer) \in ToSet(toPeer)
      BY <1>0, <2>1, SequenceOps
    <2>3. PeerFrames
      BY <2>1, <2>2 DEF PeerFrames, ChannelInv, DataKnown
    <2>4. QED
      BY <2>1, <2>3, ChannelQuiet
  <1>5. ASSUME NEW t \in {"ws_close", "error"}, PeerEnds(t)
        PROVE  ClientFrames /\ PeerFrames /\ Tables /\ Others
    <2>1. /\ UNCHANGED <<toPeer, known, handler, use, count, blamed, forgotten>>
          /\ chan' # "open" /\ toClient' = Append(toClient, Plain(t))
      BY <1>5 DEF PeerEnds, ends, known, task
    <2>2. Plain(t).type = t
      BY DEF Plain
    <2>3. ClientFrames
      BY <1>0, <2>1, <2>2, SequenceOps DEF ClientFrames
    <2>4. PeerFrames
      BY <1>0, <2>1 DEF PeerFrames
    <2>5. QED
      BY <2>1, <2>3, <2>4, ChannelQuiet
  <1>6. QED
    BY <1>1, <1>2, <1>3, <1>4, <1>5

(* A lost connection, and the end of the receive loop. *)
LEMMA EndKeeps ==
    ASSUME ChannelInv, ChannelLose \/ ChannelLeave PROVE ChannelInv'
  <1> SUFFICES ClientFrames /\ PeerFrames /\ Tables /\ Others
    BY ChannelKeeps
  <1>0. IsSequence(toClient) /\ IsSequence(toPeer)
    BY DEF ChannelInv, ChannelTypes
  <1>1. ASSUME ChannelLose PROVE ClientFrames /\ PeerFrames /\ Tables /\ Others
    <2>1. /\ UNCHANGED <<known, handler, use, count, blamed, forgotten>>
          /\ \E n \in 0 .. Len(toClient) : toClient' = SubSeq(toClient, 1, n)
          /\ toPeer' = <<>> /\ chan' # "open"
      BY <1>1 DEF ChannelLose, known, task, ends
    <2>2. ClientFrames
      BY <1>0, <2>1, SequenceOps DEF ClientFrames
    <2>3. PeerFrames
      BY <1>0, <2>1, SequenceOps DEF PeerFrames
    <2>4. QED
      BY <2>1, <2>2, <2>3, ChannelQuiet
  <1>2. ASSUME ChannelLeave PROVE ClientFrames /\ PeerFrames /\ Tables /\ Others
    <2> DEFINE us == {u \in Uses : handler[u] \notin {"none", "done"}}
    <2>1. UNCHANGED <<toPeer, chan, use, count, blamed, forgotten>> /\ toClient' = <<>> /\ Finally(us)
      BY <1>2 DEF ChannelLeave, Finally, chanPeer, ends
    <2>2. us \in SUBSET Uses /\ \A u \in us : handler[u] # "none"
      OBVIOUS
    <2> HIDE DEF us
    <2>3. Tables
      BY <2>1, <2>2, ChannelParts
    <2>4. ClientFrames
      BY <1>0, <2>1, SequenceOps DEF ClientFrames
    <2>5. QED
      BY <2>1, <2>3, <2>4, ChannelQuiet
  <1>3. QED
    BY <1>1, <1>2

-----------------------------------------------------------------------------
(* What two lines make. *)
LEMMA Joins ==
    ASSUME NEW S, NEW s \in Seq(S), NEW t \in Seq(S)
    PROVE  /\ s \o t \in Seq(S) /\ Len(s \o t) = Len(s) + Len(t)
           /\ \A i \in 1 .. Len(s) : (s \o t)[i] = s[i]
           /\ \A i \in Len(s) + 1 .. Len(s) + Len(t) : (s \o t)[i] = t[i - Len(s)]
           /\ s = <<>> <=> Len(s) = 0
           /\ s \o <<>> = s /\ <<>> \o s = s
  OBVIOUS

(* Two sequences that have the same elements are the same. *)
LEMMA SameSequence ==
    ASSUME NEW S, NEW s \in Seq(S), NEW t \in Seq(S), Len(s) = Len(t),
           \A i \in 1 .. Len(s) : s[i] = t[i]
    PROVE  s = t
  BY SeqEqual

(* A frame that goes from the end of one line to the other; the first      *)
(* frame is taken; a third line is added.                                  *)
LEMMA Shifts ==
    ASSUME NEW S, NEW s \in Seq(S), NEW t \in Seq(S)
    PROVE  /\ t # <<>> => Append(s, Head(t)) \o Tail(t) = s \o t
           /\ s # <<>> => Tail(s) \o t = Tail(s \o t) /\ s \o t # <<>> /\ (s \o t)[1] = s[1]
           /\ \A r \in Seq(S) : (s \o t) \o r = s \o (t \o r)
  <1>1. ASSUME t # <<>> PROVE Append(s, Head(t)) \o Tail(t) = s \o t
    <2> DEFINE a == Append(s, Head(t))
    <2>1. a \in Seq(S) /\ Len(a) = Len(s) + 1 /\ a[Len(s) + 1] = t[1]
          /\ \A i \in 1 .. Len(s) : a[i] = s[i]
      BY <1>1
    <2>2. Tail(t) \in Seq(S) /\ Len(Tail(t)) = Len(t) - 1 /\ Len(t) \in Nat
          /\ \A i \in 1 .. Len(t) - 1 : Tail(t)[i] = t[i + 1]
      BY <1>1
    <2> HIDE DEF a
    <2>3. /\ a \o Tail(t) \in Seq(S) /\ Len(a \o Tail(t)) = Len(s) + Len(t)
          /\ \A i \in 1 .. Len(s) + 1 : (a \o Tail(t))[i] = a[i]
          /\ \A i \in Len(s) + 2 .. Len(s) + Len(t) : (a \o Tail(t))[i] = Tail(t)[i - Len(s) - 1]
      BY <2>1, <2>2
    <2>4. \A i \in Len(s) + 2 .. Len(s) + Len(t) : (a \o Tail(t))[i] = t[i - Len(s)]
      BY <2>2, <2>3
    <2>5. \A i \in 1 .. Len(s) + Len(t) : (a \o Tail(t))[i] = (s \o t)[i]
      <3>1. (a \o Tail(t))[Len(s) + 1] = (s \o t)[Len(s) + 1]
        BY <1>1, <2>1, <2>3, Joins
      <3>2. QED
        BY <2>1, <2>3, <2>4, <3>1, Joins
    <2>6. s \o t \in Seq(S) /\ Len(s \o t) = Len(s) + Len(t)
      BY Joins
    <2>7. QED
      BY <2>3, <2>5, <2>6, SameSequence DEF a
  <1>2. ASSUME s # <<>> PROVE Tail(s) \o t = Tail(s \o t) /\ s \o t # <<>> /\ (s \o t)[1] = s[1]
    <2>1. Tail(s) \in Seq(S) /\ Len(Tail(s)) = Len(s) - 1 /\ Len(s) \in Nat \ {0}
          /\ \A i \in 1 .. Len(s) - 1 : Tail(s)[i] = s[i + 1]
      BY <1>2
    <2>2. s \o t \in Seq(S) /\ Len(s \o t) = Len(s) + Len(t) /\ s \o t # <<>> /\ Len(t) \in Nat
      BY <2>1, Joins
    <2>3. Tail(s \o t) \in Seq(S) /\ Len(Tail(s \o t)) = Len(s) + Len(t) - 1
          /\ \A i \in 1 .. Len(s) + Len(t) - 1 : Tail(s \o t)[i] = (s \o t)[i + 1]
      BY <2>2
    <2>4. /\ Tail(s) \o t \in Seq(S) /\ Len(Tail(s) \o t) = Len(s) + Len(t) - 1
          /\ \A i \in 1 .. Len(s) - 1 : (Tail(s) \o t)[i] = Tail(s)[i]
          /\ \A i \in Len(s) .. Len(s) + Len(t) - 1 : (Tail(s) \o t)[i] = t[i - (Len(s) - 1)]
      BY <2>1, <2>2
    <2>5. \A i \in 1 .. Len(s) + Len(t) - 1 : (Tail(s) \o t)[i] = Tail(s \o t)[i]
      BY <2>1, <2>2, <2>3, <2>4, Joins
    <2>6. QED
      BY <2>1, <2>2, <2>3, <2>4, <2>5, SameSequence, Joins
  <1>3. ASSUME NEW r \in Seq(S) PROVE (s \o t) \o r = s \o (t \o r)
    <2>1. Len(s) \in Nat /\ Len(t) \in Nat /\ Len(r) \in Nat
      OBVIOUS
    <2>2. s \o t \in Seq(S) /\ t \o r \in Seq(S) /\ Len(s \o t) = Len(s) + Len(t) /\ Len(t \o r) = Len(t) + Len(r)
      BY Joins
    <2>3. (s \o t) \o r \in Seq(S) /\ s \o (t \o r) \in Seq(S)
          /\ Len((s \o t) \o r) = Len(s) + Len(t) + Len(r) /\ Len(s \o (t \o r)) = Len(s) + Len(t) + Len(r)
      BY <2>2
    <2>4. \A i \in 1 .. Len(s) + Len(t) + Len(r) : ((s \o t) \o r)[i] = (s \o (t \o r))[i]
      BY <2>1, <2>2
    <2>5. QED
      BY <2>3, <2>4, SameSequence
  <1>4. QED
    BY <1>1, <1>2, <1>3

(* The rest of a line, behind its first frame. *)
LEMMA TailOfLine ==
    ASSUME NEW S, NEW s \in Seq(S), s # <<>>, InOrder(s)
    PROVE  /\ InOrder(Tail(s))
           /\ \A to : EndsAt(s, to) => EndsAt(Tail(s), to)
           /\ Leads(s[1]) => StartsAt(Tail(s), After(s[1]))
           /\ \A to : Leads(s[1]) /\ EndsAt(s, to) => Spans(Tail(s), After(s[1]), to)
  <1>1. Tail(s) \in Seq(S) /\ Len(Tail(s)) = Len(s) - 1 /\ Len(s) \in Nat \ {0}
        /\ \A i \in 1 .. Len(s) - 1 : Tail(s)[i] = s[i + 1]
    OBVIOUS
  <1>2. InOrder(Tail(s))
    BY <1>1 DEF InOrder
  <1>3. Tail(s) # <<>> => Len(s) > 1 /\ Tail(s)[1] = s[2] /\ Tail(s)[Len(Tail(s))] = s[Len(s)]
    BY <1>1
  <1>4. Tail(s) = <<>> => Len(s) = 1
    <2>1. Tail(s) = <<>> => Len(Tail(s)) = 0
      BY <1>1, EmptySeq
    <2>2. QED
      BY <1>1, <2>1
  <1>5. Len(s) > 1 => Fits(s[1], s[2])
    BY <1>1 DEF InOrder
  <1>6. \A to : EndsAt(s, to) => EndsAt(Tail(s), to)
    BY <1>3 DEF EndsAt
  <1>7. Leads(s[1]) => StartsAt(Tail(s), After(s[1]))
    BY <1>3, <1>5 DEF StartsAt, Fits
  <1>8. \A to : Leads(s[1]) /\ EndsAt(s, to) => Spans(Tail(s), After(s[1]), to)
    BY <1>4, <1>7 DEF Spans, EndsAt
  <1>9. QED
    BY <1>2, <1>6, <1>7, <1>8

(* What is left of a line that is cut off, and what comes behind a part    *)
(* that is lost.                                                           *)
LEMMA CutLine ==
    ASSUME NEW S, NEW s \in Seq(S), NEW t \in Seq(S), InOrder(s \o t)
    PROVE  /\ InOrder(s) /\ InOrder(t)
           /\ \A from : StartsAt(s \o t, from) => StartsAt(s, from)
           /\ \A to : EndsAt(s \o t, to) => EndsAt(t, to)
           /\ \A n \in 0 .. Len(t) : InOrder(s \o SubSeq(t, 1, n))
           /\ \A n \in 0 .. Len(t) : \A from :
                 StartsAt(s \o t, from) => StartsAt(s \o SubSeq(t, 1, n), from)
  <1> DEFINE l == s \o t
  <1>1. /\ l \in Seq(S) /\ Len(l) = Len(s) + Len(t) /\ Len(s) \in Nat /\ Len(t) \in Nat
        /\ \A i \in 1 .. Len(s) : l[i] = s[i]
        /\ \A i \in 1 .. Len(t) : l[Len(s) + i] = t[i]
    OBVIOUS
  <1>2. \A i \in 1 .. Len(s) + Len(t) - 1 : Fits(l[i], l[i + 1])
    BY <1>1 DEF InOrder
  <1> HIDE DEF l
  <1>3. InOrder(s)
    BY <1>1, <1>2 DEF InOrder
  <1>4. InOrder(t)
    <2>1. \A i \in 1 .. Len(t) - 1 : Fits(l[Len(s) + i], l[Len(s) + i + 1])
      BY <1>1, <1>2
    <2>2. \A i \in 1 .. Len(t) - 1 : l[Len(s) + i] = t[i] /\ l[Len(s) + i + 1] = t[i + 1]
      BY <1>1
    <2>3. QED
      BY <2>1, <2>2 DEF InOrder
  <1>5. \A from : StartsAt(l, from) => StartsAt(s, from)
    BY <1>1 DEF StartsAt
  <1>6. \A to : EndsAt(l, to) => EndsAt(t, to)
    BY <1>1 DEF EndsAt
  <1>7. ASSUME NEW n \in 0 .. Len(t)
        PROVE  /\ InOrder(s \o SubSeq(t, 1, n))
               /\ \A from : StartsAt(l, from) => StartsAt(s \o SubSeq(t, 1, n), from)
    <2> DEFINE c == SubSeq(t, 1, n)
    <2>1. c \in Seq(S) /\ Len(c) = n /\ \A i \in 1 .. n : c[i] = t[i]
      BY <1>1
    <2> HIDE DEF c
    <2>2. /\ s \o c \in Seq(S) /\ Len(s \o c) = Len(s) + n
          /\ \A i \in 1 .. Len(s) : (s \o c)[i] = s[i]
          /\ \A i \in Len(s) + 1 .. Len(s) + n : (s \o c)[i] = c[i - Len(s)]
      BY <2>1, Joins
    <2>3. \A i \in Len(s) + 1 .. Len(s) + n : l[i] = t[i - Len(s)]
      BY Joins DEF l
    <2>4. \A i \in 1 .. Len(s) + n : (s \o c)[i] = l[i]
      BY <1>1, <2>1, <2>2, <2>3
    <2>5. InOrder(s \o c)
      <3>1. SUFFICES ASSUME NEW i \in 1 .. Len(s) + n - 1 PROVE Fits((s \o c)[i], (s \o c)[i + 1])
        BY <2>2 DEF InOrder
      <3>2. i \in 1 .. Len(s) + n /\ i + 1 \in 1 .. Len(s) + n /\ i \in 1 .. Len(s) + Len(t) - 1
        BY <1>1
      <3>3. QED
        BY <1>2, <2>4, <3>2
    <2>6. \A from : StartsAt(l, from) => StartsAt(s \o c, from)
      BY <1>1, <2>2, <2>4 DEF StartsAt
    <2>7. QED
      BY <2>5, <2>6 DEF c
  <1>8. QED
    BY <1>3, <1>4, <1>5, <1>6, <1>7 DEF l

(* A line that goes on with another. *)
LEMMA Extends ==
    ASSUME NEW S, NEW s \in Seq(S), NEW t \in Seq(S), NEW at, NEW to,
           InOrder(s), EndsAt(s, at), InOrder(t), Spans(t, at, to), EndsAt(t, to)
    PROVE  /\ InOrder(s \o t) /\ EndsAt(s \o t, to)
           /\ \A from : StartsAt(s, from) /\ (s = <<>> => from = at) => Spans(s \o t, from, to)
           /\ t # <<>> => \A from : StartsAt(s, from) /\ s # <<>> => StartsAt(s \o t, from)
  <1> DEFINE l == s \o t
  <1>1. /\ l \in Seq(S) /\ Len(l) = Len(s) + Len(t) /\ Len(s) \in Nat /\ Len(t) \in Nat
        /\ \A i \in 1 .. Len(s) : l[i] = s[i]
        /\ \A i \in Len(s) + 1 .. Len(s) + Len(t) : l[i] = t[i - Len(s)]
        /\ (s = <<>> <=> Len(s) = 0) /\ (t = <<>> <=> Len(t) = 0) /\ (l = <<>> <=> Len(l) = 0)
    BY Joins
  <1>2. s = <<>> => l = t
    OBVIOUS
  <1>3. t = <<>> => l = s /\ at = to
    BY DEF Spans
  <1>4. s # <<>> /\ t # <<>> => Fits(s[Len(s)], t[1])
    BY DEF EndsAt, Spans, StartsAt, Fits
  <1> HIDE DEF l
  <1>5. InOrder(l)
    <2> SUFFICES ASSUME NEW i \in 1 .. Len(l) - 1 PROVE Fits(l[i], l[i + 1])
      BY DEF InOrder
    <2>1. CASE i < Len(s)
      <3>1. i \in 1 .. Len(s) - 1 /\ l[i] = s[i] /\ l[i + 1] = s[i + 1]
        BY <1>1, <2>1
      <3>2. QED
        BY <3>1 DEF InOrder
    <2>2. CASE i = Len(s)
      BY <1>1, <1>4, <2>2
    <2>3. CASE i > Len(s)
      <3>1. i - Len(s) \in 1 .. Len(t) - 1 /\ i + 1 - Len(s) = (i - Len(s)) + 1
        BY <1>1, <2>3
      <3>2. l[i] = t[i - Len(s)] /\ l[i + 1] = t[(i - Len(s)) + 1]
        BY <1>1, <3>1
      <3>3. QED
        BY <3>1, <3>2 DEF InOrder
    <2>4. QED
      BY <1>1, <2>1, <2>2, <2>3
  <1>6. EndsAt(l, to)
    <2>1. t # <<>> => l[Len(l)] = t[Len(t)]
      BY <1>1
    <2>2. QED
      BY <1>3, <2>1 DEF EndsAt
  <1>7. s # <<>> => l # <<>> /\ l[1] = s[1]
    BY <1>1
  <1>8. \A from : StartsAt(s, from) /\ (s = <<>> => from = at) => Spans(l, from, to)
    BY <1>2, <1>7 DEF Spans, StartsAt
  <1>9. \A from : StartsAt(s, from) /\ s # <<>> => StartsAt(l, from)
    BY <1>7 DEF StartsAt
  <1>10. QED
    BY <1>5, <1>6, <1>8, <1>9 DEF l

(* A frame that is no data comes between two lines. *)
LEMMA Inserts ==
    ASSUME NEW S, NEW s \in Seq(S), NEW t \in Seq(S), NEW x \in S, NEW to,
           InOrder(s \o t), EndsAt(s \o t, to), ~IsData(x),
           Leads(x) => Spans(t, After(x), to)
    PROVE  /\ InOrder(Append(s, x) \o t) /\ EndsAt(Append(s, x) \o t, to)
           /\ \A from : StartsAt(s \o t, from) => Spans(Append(s, x) \o t, from, to)
  <1> DEFINE a == Append(s, x)
  <1>1. /\ a \in Seq(S) /\ Len(a) = Len(s) + 1 /\ a[Len(s) + 1] = x /\ a # <<>>
        /\ \A i \in 1 .. Len(s) : a[i] = s[i]
        /\ Len(s) \in Nat /\ Len(t) \in Nat
    OBVIOUS
  <1>2. InOrder(s) /\ InOrder(t) /\ EndsAt(t, to) /\ \A from : StartsAt(s \o t, from) => StartsAt(s, from)
    BY CutLine
  <1> HIDE DEF a
  <1>3. InOrder(a)
    <2> SUFFICES ASSUME NEW i \in 1 .. Len(s) PROVE Fits(a[i], a[i + 1])
      BY <1>1 DEF InOrder
    <2>1. CASE i < Len(s)
      <3>1. i \in 1 .. Len(s) - 1 /\ a[i] = s[i] /\ a[i + 1] = s[i + 1]
        BY <1>1, <2>1
      <3>2. QED
        BY <1>2, <3>1 DEF InOrder
    <2>2. CASE i = Len(s)
      BY <1>1, <2>2 DEF Fits
    <2>3. QED
      BY <1>1, <2>1, <2>2
  <1>4. /\ a \o t \in Seq(S) /\ Len(a \o t) = Len(s) + 1 + Len(t)
        /\ \A i \in 1 .. Len(s) + 1 : (a \o t)[i] = a[i]
        /\ \A i \in Len(s) + 2 .. Len(s) + 1 + Len(t) : (a \o t)[i] = t[i - Len(s) - 1]
    BY <1>1
  <1>5. t # <<>> => Fits(x, t[1])
    BY DEF Spans, StartsAt, Fits
  <1>6. InOrder(a \o t)
    <2> SUFFICES ASSUME NEW i \in 1 .. Len(s) + Len(t) PROVE Fits((a \o t)[i], (a \o t)[i + 1])
      BY <1>1, <1>4 DEF InOrder
    <2>1. CASE i < Len(s) + 1
      BY <1>1, <1>3, <1>4, <2>1 DEF InOrder
    <2>2. CASE i = Len(s) + 1
      <3>1. t # <<>> /\ (a \o t)[i] = x /\ (a \o t)[i + 1] = t[1]
        BY <1>1, <1>4, <2>2
      <3>2. QED
        BY <1>5, <3>1
    <2>3. CASE i > Len(s) + 1
      <3>1. i - Len(s) - 1 \in 1 .. Len(t) - 1 /\ i + 1 - Len(s) - 1 = (i - Len(s) - 1) + 1
        BY <1>1, <2>3
      <3>2. (a \o t)[i] = t[i - Len(s) - 1] /\ (a \o t)[i + 1] = t[(i - Len(s) - 1) + 1]
        BY <1>1, <1>4, <2>3, <3>1
      <3>3. QED
        BY <1>2, <3>1, <3>2 DEF InOrder
    <2>4. QED
      BY <1>1, <2>1, <2>2, <2>3
  <1>7. EndsAt(a \o t, to)
    <2>1. CASE t = <<>>
      <3>1. (a \o t)[Len(a \o t)] = x
        BY <1>1, <1>4, <2>1
      <3>2. QED
        BY <2>1, <3>1 DEF EndsAt, Spans
    <2>2. CASE t # <<>>
      <3>1. (a \o t)[Len(a \o t)] = t[Len(t)]
        BY <1>1, <1>4, <2>2
      <3>2. QED
        BY <1>2, <2>2, <3>1 DEF EndsAt
    <2>3. QED
      BY <2>1, <2>2
  <1>8. a \o t # <<>> /\ (s # <<>> => (a \o t)[1] = s[1]) /\ (s = <<>> => (a \o t)[1] = x)
    BY <1>1, <1>4
  <1>9. \A from : StartsAt(s, from) => Spans(a \o t, from, to)
    BY <1>8 DEF Spans, StartsAt
  <1>10. QED
    BY <1>2, <1>6, <1>7, <1>9 DEF a

(* The frames of a message are in order, and follow the message before.    *)
LEMMA Carries ==
    ASSUME NEW u \in Uses, NEW k \in Nat \ {0}, NEW n \in 1 .. 2
    PROVE  LET line == Carried(Message(u, k, n))
               frame(i) == [use |-> u, no |-> k, part |-> i, of |-> n]
           IN /\ line \in Seq(Wires) /\ Len(line) = n /\ line # <<>>
              /\ \A i \in 1 .. n : line[i] = Data(frame(i)) /\ IsData(line[i])
              /\ InOrder(line) /\ Spans(line, <<k, 1>>, <<k + 1, 1>>) /\ EndsAt(line, <<k + 1, 1>>)
  <1> DEFINE line == Carried(Message(u, k, n))
             frame(i) == [use |-> u, no |-> k, part |-> i, of |-> n]
  <1>1. \A i \in 1 .. n : frame(i) \in Pieces /\ Data(frame(i)) \in Wires
    BY DEF Pieces, Wires, Data
  <1>2. line = [i \in 1 .. n |-> Data(frame(i))]
    BY DEF Carried, Message
  <1>3. \A i \in 1 .. n : line[i] = Data(frame(i))
    BY <1>2
  <1>4. line \in Seq(Wires) /\ Len(line) = n
    BY <1>1, <1>2
  <1>5. \A i \in 1 .. n : /\ IsData(line[i]) /\ Place(line[i].frame) = <<k, i>>
                          /\ After(line[i]) = IF i < n THEN <<k, i + 1>> ELSE <<k + 1, 1>>
    <2> SUFFICES ASSUME NEW i \in 1 .. n
                 PROVE  /\ IsData(Data(frame(i))) /\ Place(Data(frame(i)).frame) = <<k, i>>
                        /\ After(Data(frame(i))) = IF i < n THEN <<k, i + 1>> ELSE <<k + 1, 1>>
      BY <1>3, Zenon
    <2>1. Data(frame(i)).type = "data" /\ Data(frame(i)).frame = frame(i)
      BY DEF Data
    <2>2. frame(i).no = k /\ frame(i).part = i /\ frame(i).of = n
      OBVIOUS
    <2> HIDE DEF frame
    <2>3. QED
      BY <2>1, <2>2 DEF IsData, Place, After
  <1> HIDE DEF line, frame
  <1>6. InOrder(line)
    BY <1>4, <1>5 DEF InOrder, Fits
  <1>7. line # <<>>
    BY <1>4
  <1>8. Spans(line, <<k, 1>>, <<k + 1, 1>>) /\ EndsAt(line, <<k + 1, 1>>)
    BY <1>4, <1>5, <1>7 DEF Spans, StartsAt, EndsAt
  <1>9. QED
    BY <1>3, <1>4, <1>5, <1>6, <1>7, <1>8 DEF line, frame

(* Frames stay parts of what was sent, and those of a new message are.     *)
LEMMA Parts ==
    ASSUME NEW u \in Uses, NEW msgs \in Seq(Messages), NEW n \in 1 .. 2
    PROVE  LET m == Message(u, Len(msgs) + 1, n)
           IN /\ \A f : PartOf(f, u, msgs) => PartOf(f, u, Append(msgs, m))
              /\ \A i \in 1 .. n :
                    PartOf([use |-> u, no |-> Len(msgs) + 1, part |-> i, of |-> n], u, Append(msgs, m))
              /\ NextOf(Append(msgs, m)) = <<Len(msgs) + 2, 1>>
  <1> DEFINE m == Message(u, Len(msgs) + 1, n)
  <1> HIDE DEF m
  <1>1. /\ Len(Append(msgs, m)) = Len(msgs) + 1 /\ Append(msgs, m)[Len(msgs) + 1] = m
        /\ Len(msgs) \in Nat /\ \A i \in 1 .. Len(msgs) : Append(msgs, m)[i] = msgs[i]
    OBVIOUS
  <1>2. \A f : PartOf(f, u, msgs) => PartOf(f, u, Append(msgs, m))
    BY <1>1 DEF PartOf
  <1>3. \A i \in 1 .. n :
            PartOf([use |-> u, no |-> Len(msgs) + 1, part |-> i, of |-> n], u, Append(msgs, m))
    BY <1>1 DEF PartOf, m
  <1>4. NextOf(Append(msgs, m)) = <<Len(msgs) + 2, 1>>
    BY <1>1 DEF NextOf
  <1>5. QED
    BY <1>2, <1>3, <1>4 DEF m

(* What the frame that is waited for makes of what was begun.              *)
LEMMA Wholes ==
    ASSUME NEW u \in Uses, NEW msgs \in Seq(Messages), NEW got \in Seq(Messages),
           NEW part \in Begun(u, got), NEW f, PartOf(f, u, msgs), Place(f) = Wanted(got, part)
    PROVE  /\ Append(part, f) \in Seq(Pieces) /\ f \in Pieces
           /\ f.part < f.of => /\ part = <<>> /\ Append(part, f) \in Begun(u, got) /\ f.of # 1
                               /\ After(Data(f)) = Wanted(got, Append(part, f))
           /\ f.part = f.of => /\ Len(got) < Len(msgs) /\ Append(part, f) = msgs[Len(got) + 1]
                               /\ <<>> \in Begun(u, Append(got, Append(part, f)))
                               /\ After(Data(f)) = Wanted(Append(got, Append(part, f)), <<>>)
           /\ f.of = 1 => part = <<>> /\ f.part = f.of
           /\ f.part < f.of \/ f.part = f.of
  <1>1. /\ f.no \in 1 .. Len(msgs) /\ f.of \in 1 .. 2 /\ f.part \in 1 .. f.of
        /\ f = [use |-> u, no |-> f.no, part |-> f.part, of |-> f.of]
        /\ msgs[f.no] = Message(u, f.no, f.of)
    BY DEF PartOf
  <1>2. f \in Pieces
    BY <1>1 DEF Pieces
  <1>3. f.no = Len(got) + 1 /\ f.part = Len(part) + 1
    BY DEF Place, Wanted
  <1> DEFINE g == [use |-> u, no |-> Len(got) + 1, part |-> 1, of |-> 2]
  <1>4. g \in Pieces
    BY DEF Pieces
  <1>5. part = <<>> \/ part = <<g>>
    BY DEF Begun
  <1>6. part \in Seq(Pieces) /\ (part = <<>> => Len(part) = 0) /\ (part = <<g>> => Len(part) = 1)
    <2>1. <<g>> \in Seq(Pieces) /\ Len(<<g>>) = 1 /\ <<>> \in Seq(Pieces) /\ Len(<<>>) = 0
      <3> HIDE DEF g
      <3>1. QED
        BY <1>4
    <2>2. QED
      BY <1>5, <2>1, Zenon
  <1>7. Append(part, f) \in Seq(Pieces) /\ Len(Append(part, f)) = Len(part) + 1
    BY <1>2, <1>6
  <1>8. After(Data(f)) = IF f.part < f.of THEN <<f.no, f.part + 1>> ELSE <<f.no + 1, 1>>
    BY DEF After, Data
  <1>9. part = <<>> => Append(part, f) = <<f>>
    OBVIOUS
  <1>10. f.part < f.of => /\ part = <<>> /\ Append(part, f) \in Begun(u, got) /\ f.of # 1
                          /\ After(Data(f)) = Wanted(got, Append(part, f))
    <2> SUFFICES ASSUME f.part < f.of
                 PROVE  /\ part = <<>> /\ Append(part, f) \in Begun(u, got) /\ f.of # 1
                        /\ After(Data(f)) = Wanted(got, Append(part, f))
      OBVIOUS
    <2>1. f.part = 1 /\ f.of = 2
      BY <1>1
    <2>2. part = <<>>
      BY <1>3, <1>5, <1>6, <2>1
    <2>3. f = g
      BY <1>1, <1>3, <2>1
    <2>4. Append(part, f) \in Begun(u, got)
      BY <1>9, <2>2, <2>3 DEF Begun
    <2>5. After(Data(f)) = Wanted(got, Append(part, f))
      BY <1>3, <1>6, <1>7, <1>8, <2>1, <2>2 DEF Wanted
    <2>6. QED
      BY <2>1, <2>2, <2>4, <2>5
  <1>11. f.part = f.of => /\ Len(got) < Len(msgs) /\ Append(part, f) = msgs[Len(got) + 1]
                          /\ <<>> \in Begun(u, Append(got, Append(part, f)))
                          /\ After(Data(f)) = Wanted(Append(got, Append(part, f)), <<>>)
    <2> SUFFICES ASSUME f.part = f.of
                 PROVE  /\ Len(got) < Len(msgs) /\ Append(part, f) = msgs[Len(got) + 1]
                        /\ <<>> \in Begun(u, Append(got, Append(part, f)))
                        /\ After(Data(f)) = Wanted(Append(got, Append(part, f)), <<>>)
      OBVIOUS
    <2>1. Len(got) < Len(msgs) /\ msgs[Len(got) + 1] = Message(u, Len(got) + 1, f.of)
      BY <1>1, <1>3
    <2>2. f = [use |-> u, no |-> Len(got) + 1, part |-> f.of, of |-> f.of]
      BY <1>1, <1>3
    <2>3. Append(part, f) = Message(u, Len(got) + 1, f.of)
      <3>1. CASE part = <<>>
        <4>1. f.of = 1
          BY <1>3, <1>6, <3>1
        <4>2. <<f>> = [i \in 1 .. 1 |-> f]
          OBVIOUS
        <4>3. [i \in 1 .. 1 |-> f] = [i \in 1 .. 1 |-> [use |-> u, no |-> Len(got) + 1, part |-> i, of |-> 1]]
          BY <2>2, <4>1
        <4>4. QED
          BY <1>9, <3>1, <4>1, <4>2, <4>3 DEF Message
      <3>2. CASE part = <<g>>
        <4>1. f.of = 2
          BY <1>1, <1>3, <1>6, <3>2
        <4>2. Append(part, f) = <<g, f>>
          <5> HIDE DEF g
          <5>1. <<g>> \in Seq(Pieces) /\ <<g, f>> \in Seq(Pieces) /\ Append(<<g>>, f) \in Seq(Pieces)
            BY <1>2, <1>4
          <5>2. /\ Len(<<g, f>>) = 2 /\ <<g, f>>[1] = g /\ <<g, f>>[2] = f
                /\ Len(Append(<<g>>, f)) = 2 /\ Append(<<g>>, f)[1] = g /\ Append(<<g>>, f)[2] = f
            BY <5>1
          <5>3. \A i \in 1 .. 2 : Append(<<g>>, f)[i] = <<g, f>>[i]
            <6>1. \A i \in 1 .. 2 : i = 1 \/ i = 2
              OBVIOUS
            <6>2. QED
              BY <5>2, <6>1, Zenon
          <5>4. Append(<<g>>, f) = <<g, f>>
            BY <5>1, <5>2, <5>3, SeqEqual
          <5>5. QED
            BY <3>2, <5>4
        <4>3. <<g, f>> = [i \in 1 .. 2 |-> [use |-> u, no |-> Len(got) + 1, part |-> i, of |-> 2]]
          BY <2>2, <4>1
        <4>4. QED
          BY <4>1, <4>2, <4>3 DEF Message
      <3>3. QED
        BY <1>5, <3>1, <3>2
    <2>4. Len(Append(got, Append(part, f))) = Len(got) + 1
      OBVIOUS
    <2>5. After(Data(f)) = Wanted(Append(got, Append(part, f)), <<>>)
      <3>1. After(Data(f)) = <<Len(got) + 2, 1>>
        BY <1>1, <1>3, <1>8
      <3>2. QED
        BY <2>4, <3>1 DEF Wanted
    <2>6. QED
      BY <2>1, <2>3, <2>5 DEF Begun
  <1>12. f.of = 1 => part = <<>> /\ f.part = f.of
    BY <1>1, <1>3, <1>5, <1>6
  <1>13. QED
    BY <1>1, <1>2, <1>7, <1>10, <1>11, <1>12

(* Uses and frames, and what the steps make of them. *)
LEMMA UsesAreNumbers == Uses \subseteq Nat \ {0}
  <1>1. Cardinality(Uses) \in Nat
    BY ChannelAssumption, FS_CardinalityType
  <1>2. \A n \in Nat : 1 .. n \subseteq Nat \ {0}
    OBVIOUS
  <1>3. QED
    BY <1>1, <1>2, ChannelAssumption

(* What is on its way is a frame, and of what type. *)
LEMMA WireFrames ==
    /\ \A t \in Closings : Plain(t) \in Wires /\ Plain(t).type = t
    /\ \A u \in Uses : [type |-> "ws_connect", use |-> u] \in Wires
    /\ \A frame \in Wires : /\ IsData(frame) => frame.frame \in Pieces /\ frame = Data(frame.frame)
                            /\ frame.type = "ws_connect" => frame.use \in Uses
    /\ \A frame \in Wires : frame.type \in {"data", "ws_connect"} \cup Closings
  <1>1. \A t \in Closings : Plain(t) \in Wires /\ Plain(t).type = t
    BY DEF Plain, Wires
  <1>2. \A u \in Uses : [type |-> "ws_connect", use |-> u] \in Wires
    BY DEF Wires
  <1>3. \A frame \in Wires : /\ IsData(frame) => frame.frame \in Pieces /\ frame = Data(frame.frame)
                             /\ frame.type = "ws_connect" => frame.use \in Uses
    BY DEF Wires, Closings, IsData, Data
  <1>4. \A frame \in Wires : frame.type \in {"data", "ws_connect"} \cup Closings
    BY DEF Wires
  <1>5. QED
    BY <1>1, <1>2, <1>3, <1>4

(* What the operators on sequences make of a line. *)
LEMMA LineSteps ==
    ASSUME NEW s \in Seq(Wires)
    PROVE  /\ s # <<>> => /\ Tail(s) \in Seq(Wires) /\ Head(s) \in Wires /\ Head(s) = s[1]
                          /\ Len(s) \in Nat \ {0} /\ Len(Tail(s)) = Len(s) - 1
                          /\ \A i \in 1 .. Len(s) - 1 : Tail(s)[i] = s[i + 1]
           /\ \A x \in Wires : /\ Append(s, x) \in Seq(Wires) /\ Append(s, x) # <<>>
                               /\ Len(Append(s, x)) = Len(s) + 1 /\ Append(s, x)[Len(s) + 1] = x
                               /\ \A i \in 1 .. Len(s) : Append(s, x)[i] = s[i]
           /\ \A n \in 0 .. Len(s) : /\ SubSeq(s, 1, n) \in Seq(Wires) /\ Len(SubSeq(s, 1, n)) = n
                                     /\ \A i \in 1 .. n : SubSeq(s, 1, n)[i] = s[i]
           /\ <<>> \in Seq(Wires) /\ Len(<<>>) = 0 /\ Len(s) \in Nat /\ (s = <<>> <=> Len(s) = 0)
  OBVIOUS

(* What RelayTypes says of the single variables. *)
LEMMA Typed ==
    ASSUME RelayInv
    PROVE  /\ peerSent \in [Uses -> Seq(Messages)] /\ upstreamGot \in [Uses -> Seq(Messages)]
           /\ upstreamSent \in [Uses -> Seq(Messages)] /\ peerGot \in [Uses -> Seq(Messages)]
           /\ toClient \in Seq(Wires) /\ toPeer \in Seq(Wires)
           /\ queue \in [Uses -> Seq(Wires)] /\ unread \in [Uses -> Seq(Wires)]
           /\ handler \in [Uses -> HandlerStates] /\ registered \in {0} \cup Uses
           /\ use \in {0} \cup Uses
  BY DEF RelayInv, RelayTypes

(* A new message is the next one of its sender, and within the bound. *)
LEMMA NewMessage ==
    ASSUME NEW u \in Uses, NEW msgs \in Seq(Messages), count \in 0 .. MaxMessages - 1, Len(msgs) <= count
    PROVE  \A msg \in Fresh(u, msgs) : \E n \in 1 .. 2 :
              msg = Message(u, Len(msgs) + 1, n) /\ Message(u, Len(msgs) + 1, n) \in Messages
  <1>1. MaxMessages \in Nat
    BY ChannelAssumption
  <1>2. Len(msgs) + 1 \in 1 .. MaxMessages
    BY <1>1
  <1>3. QED
    BY <1>2 DEF Fresh, Messages

(* The steps of a channel, with what the connection does to it. *)
WireSteps == (Lose /\ ChannelLose) \/ (RxLeaves /\ ChannelLeave) \/ (Connect /\ UNCHANGED channel)

Serving ==
    /\ \A u \in Uses : (Served(u)' <=> Served(u)) /\ (Rests(u) => Rests(u)') /\ (Greeted(u) => Greeted(u)')
    /\ registered' # 0 => registered' = registered /\ ~Rests(registered)'

(* Who serves what, after the parts that actions share. *)
LEMMA ServingParts ==
    ASSUME RelayInv
    PROVE  /\ UNCHANGED <<handler, registered>> => Serving
           /\ \A u \in Uses, pc \in {"greet", "pump", "bye", "error"} :
                 /\ ~Rests(u) /\ Goes(u, pc) /\ UNCHANGED registered
                 /\ pc \in {"greet", "pump"} => handler[u] \in {"dial", "greet"}
                 => Serving
           /\ registered # 0 /\ Evict => Serving
           /\ \A us \in SUBSET Uses : (\A u \in us : ~Rests(u)) /\ Finally(us) => Serving
  <1>0. registered \in {0} \cup Uses /\ handler \in [Uses -> HandlerStates] /\ 0 \notin Uses
    BY Typed, UsesAreNumbers
  <1>1. UNCHANGED <<handler, registered>> => Serving
    BY DEF Serving, RelayInv, OneServed, Served, Rests, Greeted
  <1>2. ASSUME NEW u \in Uses, NEW pc \in {"greet", "pump", "bye", "error"},
               ~Rests(u), Goes(u, pc), UNCHANGED registered,
               pc \in {"greet", "pump"} => handler[u] \in {"dial", "greet"}
        PROVE  Serving
    <2>1. \A v \in Uses : handler'[v] = IF v = u THEN pc ELSE handler[v]
      BY <1>0, <1>2 DEF Goes
    <2>2. \A v \in Uses : (Served(v)' <=> Served(v)) /\ (Rests(v) => Rests(v)')
      BY <1>2, <2>1 DEF Served, Rests
    <2>3. ASSUME NEW v \in Uses, Greeted(v) PROVE Greeted(v)'
      <3>1. v # u \/ pc \in {"bye", "error", "pump"}
        BY <1>2, <2>3 DEF Greeted
      <3>2. QED
        BY <2>1, <2>3, <3>1 DEF Greeted
    <2>4. registered' # 0 => registered' = registered /\ ~Rests(registered)'
      BY <1>0, <1>2, <2>1 DEF RelayInv, OneServed, Rests
    <2>5. QED
      BY <2>2, <2>3, <2>4 DEF Serving
  <1>3. ASSUME registered # 0, Evict PROVE Serving
    <2>1. \A v \in Uses : handler'[v] = IF v = registered /\ handler[v] # "done" THEN "cancelled" ELSE handler[v]
      BY <1>0, <1>3 DEF Evict, Cancelled
    <2>2. ~Rests(registered) /\ registered' = 0
      BY <1>3 DEF RelayInv, OneServed, Evict
    <2>3. QED
      BY <2>1, <2>2 DEF Serving, Served, Rests, Greeted
  <1>4. ASSUME NEW us \in SUBSET Uses, \A u \in us : ~Rests(u), Finally(us) PROVE Serving
    <2>1. \A v \in Uses : handler'[v] = IF v \in us THEN "done" ELSE handler[v]
      BY <1>4 DEF Finally
    <2>2. registered' # 0 => registered' = registered /\ registered \notin us
      BY <1>4 DEF Finally
    <2>3. \A v \in Uses : (Served(v)' <=> Served(v)) /\ (Rests(v) => Rests(v)') /\ (Greeted(v) => Greeted(v)')
      BY <1>4, <2>1 DEF Served, Rests, Greeted
    <2>4. registered' # 0 => ~Rests(registered)'
      BY <1>0, <2>1, <2>2 DEF RelayInv, OneServed, Rests
    <2>5. QED
      BY <2>2, <2>3, <2>4 DEF Serving
  <1>5. QED
    BY <1>1, <1>2, <1>3, <1>4

Accepts ==
    /\ registered = 0 /\ ~terminated
    /\ toClient # <<>> /\ toClient' = Tail(toClient) /\ toClient[1].type = "ws_connect"
    /\ registered' = toClient[1].use
    /\ handler' = [handler EXCEPT ![registered'] = "dial"]
    /\ UNCHANGED <<wire, toPeer, chanPeer, terminated, forgotten, pumps, failed, queue, partIn,
                   unread, upstream, ends, blamed>>

(* Handlers only go on, but for the one that a ws_connect starts.          *)
LEMMA ServingStep ==
    ASSUME RelayInv, ChannelNext \/ WireSteps
    PROVE  Serving \/ Accepts
  <1>1. CASE ReceiveSteps
    <2>1. ASSUME NEW full \in BOOLEAN, RxWsConnect(full) PROVE Serving \/ Accepts
      <3>1. CASE registered # 0 \/ terminated \/ full
        <4>1. UNCHANGED <<handler, registered>>
          BY <2>1, <3>1 DEF RxWsConnect, known, task
        <4>2. QED
          BY <4>1, ServingParts
      <3>2. CASE ~(registered # 0 \/ terminated \/ full)
        <4>1. toClient # <<>> /\ Head(toClient) = toClient[1]
          BY <2>1, Typed, LineSteps DEF RxWsConnect, Takes
        <4>2. QED
          BY <2>1, <3>2, <4>1 DEF RxWsConnect, Takes, Accepts
      <3>3. QED
        BY <3>1, <3>2
    <2>2. ASSUME RxWsFrame \/ RxWsStray \/ RxWsUnknown \/ RxWsError PROVE Serving
      <3>1. (registered # 0 /\ Evict) \/ UNCHANGED <<handler, registered>>
        BY <2>2 DEF RxWsFrame, Overflow, RxWsStray, RxWsUnknown, RxWsError, known, task
      <3>2. QED
        BY <3>1, ServingParts
    <2>3. QED
      BY <1>1, <2>1, <2>2 DEF ReceiveSteps
  <1>2. ASSUME NEW u \in Uses, HandlerSteps(u) PROVE Serving
    <2>1. ASSUME NEW ok \in BOOLEAN, Dial(u, ok) PROVE Serving
      <3>1. ~Rests(u) /\ handler[u] = "dial" /\ UNCHANGED registered
            /\ \E pc \in {"greet", "error"} : Goes(u, pc)
        BY <2>1 DEF Dial, At, Rests, known
      <3>2. QED
        BY <3>1, ServingParts
    <2>2. ASSUME Greet(u) \/ FirstDone(u) PROVE Serving
      <3>1. ~Rests(u) /\ UNCHANGED registered
            /\ \E pc \in {"pump", "bye", "error"} : Goes(u, pc) /\ (pc = "pump" => handler[u] = "greet")
        BY <2>2 DEF Greet, FirstDone, At, Rests, known
      <3>2. QED
        BY <3>1, ServingParts
    <2>3. ASSUME Farewell(u) \/ CancelEnds(u) PROVE Serving
      <3>1. Finally({u}) /\ ~Rests(u)
        BY <2>3 DEF Farewell, CancelEnds, At, Rests
      <3>2. {u} \in SUBSET Uses /\ \A v \in {u} : ~Rests(v)
        BY <3>1
      <3>3. QED
        BY <3>1, <3>2, ServingParts
    <2>4. QED
      BY <1>2, <2>1, <2>2, <2>3 DEF HandlerSteps
  <1>3. ASSUME \/ \E u \in Uses : \/ PumpsOut(u) \/ OutEnds(u) \/ PumpsIn(u) \/ UpstreamSends(u)
                                  \/ \E how \in {"closed", "broken"} : UpstreamEnds(u, how)
               \/ Forget \/ PeerConnects \/ PeerSends \/ PeerTakes
               \/ \E t \in {"ws_close", "error"} : PeerEnds(t)
               \/ ChannelLose \/ UNCHANGED channel
        PROVE  Serving
    <2>1. UNCHANGED <<handler, registered>>
      BY <1>3 DEF PumpsOut, OutEnds, PumpsIn, UpstreamSends, UpstreamEnds, Forget, PeerConnects,
                  PeerSends, PeerTakes, PeerEnds, ChannelLose, channel, known, task
    <2>2. QED
      BY <2>1, ServingParts
  <1>4. ASSUME ChannelLeave PROVE Serving
    <2> DEFINE us == {u \in Uses : handler[u] \notin {"none", "done"}}
    <2>1. Finally(us)
      BY <1>4 DEF ChannelLeave
    <2>2. us \in SUBSET Uses /\ \A u \in us : ~Rests(u)
      BY DEF Rests
    <2> HIDE DEF us
    <2>3. QED
      BY <2>1, <2>2, ServingParts
  <1>5. QED
    BY <1>1, <1>2, <1>3, <1>4 DEF ChannelNext, WireSteps

(* What PeerSends and UpstreamSends add. *)
LEMMA SentIs ==
    ASSUME RelayInv
    PROVE  /\ PeerSends => LET k == Len(peerSent[use]) + 1 IN \E n \in 1 .. 2 :
                 /\ use \in Uses /\ k \in Nat \ {0} /\ Message(use, k, n) \in Messages
                 /\ toClient' = toClient \o Carried(Message(use, k, n))
                 /\ peerSent' = [peerSent EXCEPT ![use] = Append(@, Message(use, k, n))]
           /\ \A u \in Uses : UpstreamSends(u) => LET k == Len(upstreamSent[u]) + 1 IN \E n \in 1 .. 2 :
                 /\ k \in Nat \ {0} /\ Message(u, k, n) \in Messages
                 /\ unread' = [unread EXCEPT ![u] = @ \o Carried(Message(u, k, n))]
                 /\ upstreamSent' = [upstreamSent EXCEPT ![u] = Append(@, Message(u, k, n))]
  <1>0. count \in 0 .. MaxMessages /\ MaxMessages \in Nat
        /\ \A u \in Uses : Len(peerSent[u]) <= count /\ Len(upstreamSent[u]) <= count
    BY ChannelAssumption DEF RelayInv, RelayTypes
  <1>00. \A u \in Uses : peerSent[u] \in Seq(Messages) /\ upstreamSent[u] \in Seq(Messages)
    BY Typed
  <1>1. ASSUME PeerSends
        PROVE  LET k == Len(peerSent[use]) + 1 IN \E n \in 1 .. 2 :
                 /\ use \in Uses /\ k \in Nat \ {0} /\ Message(use, k, n) \in Messages
                 /\ toClient' = toClient \o Carried(Message(use, k, n))
                 /\ peerSent' = [peerSent EXCEPT ![use] = Append(@, Message(use, k, n))]
    <2>1. use \in Uses
      BY <1>1, Typed DEF PeerSends, RelayInv, PeerKnows
    <2>2. count \in 0 .. MaxMessages - 1
      BY <1>0, <1>1 DEF PeerSends
    <2>3. PICK msg \in Fresh(use, peerSent[use]) :
             toClient' = toClient \o Carried(msg) /\ peerSent' = [peerSent EXCEPT ![use] = Append(@, msg)]
      BY <1>1 DEF PeerSends
    <2>6. PICK n \in 1 .. 2 : /\ msg = Message(use, Len(peerSent[use]) + 1, n)
                              /\ Message(use, Len(peerSent[use]) + 1, n) \in Messages
      BY <1>0, <1>00, <2>1, <2>2, NewMessage
    <2>4. Len(peerSent[use]) + 1 \in Nat \ {0}
      BY <1>00, <2>1
    <2>5. QED
      BY <2>1, <2>3, <2>4, <2>6
  <1>2. ASSUME NEW u \in Uses, UpstreamSends(u)
        PROVE  LET k == Len(upstreamSent[u]) + 1 IN \E n \in 1 .. 2 :
                 /\ k \in Nat \ {0} /\ Message(u, k, n) \in Messages
                 /\ unread' = [unread EXCEPT ![u] = @ \o Carried(Message(u, k, n))]
                 /\ upstreamSent' = [upstreamSent EXCEPT ![u] = Append(@, Message(u, k, n))]
    <2>2. count \in 0 .. MaxMessages - 1
      BY <1>0, <1>2 DEF UpstreamSends
    <2>3. PICK msg \in Fresh(u, upstreamSent[u]) :
             /\ unread' = [unread EXCEPT ![u] = @ \o Carried(msg)]
             /\ upstreamSent' = [upstreamSent EXCEPT ![u] = Append(@, msg)]
      BY <1>2 DEF UpstreamSends
    <2>6. PICK n \in 1 .. 2 : /\ msg = Message(u, Len(upstreamSent[u]) + 1, n)
                              /\ Message(u, Len(upstreamSent[u]) + 1, n) \in Messages
      BY <1>0, <1>00, <2>2, NewMessage
    <2>4. Len(upstreamSent[u]) + 1 \in Nat \ {0}
      BY <1>00
    <2>5. QED
      BY <2>3, <2>4, <2>6
  <1>3. QED
    BY <1>1, <1>2

(* The frames that PeerSends and UpstreamSends add. *)
LEMMA SentLine ==
    ASSUME RelayInv
    PROVE  /\ PeerSends => \E line \in Seq(Wires), n \in 1 .. 2 :
                 toClient' = toClient \o line /\ Len(line) = n /\ \A i \in 1 .. n : IsData(line[i])
           /\ \A u \in Uses : UpstreamSends(u) => \E line \in Seq(Wires), n \in 1 .. 2 :
                 /\ unread' = [unread EXCEPT ![u] = @ \o line]
                 /\ Len(line) = n /\ \A i \in 1 .. n : IsData(line[i])
  <1>1. ASSUME NEW u \in Uses, NEW k \in Nat \ {0}, NEW n \in 1 .. 2
        PROVE  LET line == Carried(Message(u, k, n))
               IN line \in Seq(Wires) /\ Len(line) = n /\ \A i \in 1 .. n : IsData(line[i])
    BY Carries
  <1>2. ASSUME PeerSends
        PROVE  \E line \in Seq(Wires), n \in 1 .. 2 :
                 toClient' = toClient \o line /\ Len(line) = n /\ \A i \in 1 .. n : IsData(line[i])
    <2> DEFINE k == Len(peerSent[use]) + 1
    <2>1. PICK n \in 1 .. 2 : use \in Uses /\ k \in Nat \ {0} /\ toClient' = toClient \o Carried(Message(use, k, n))
      BY <1>2, SentIs
    <2> HIDE DEF k
    <2>2. QED
      BY <1>1, <2>1
  <1>3. ASSUME NEW u \in Uses, UpstreamSends(u)
        PROVE  \E line \in Seq(Wires), n \in 1 .. 2 :
                 /\ unread' = [unread EXCEPT ![u] = @ \o line]
                 /\ Len(line) = n /\ \A i \in 1 .. n : IsData(line[i])
    <2> DEFINE k == Len(upstreamSent[u]) + 1
    <2>1. PICK n \in 1 .. 2 : k \in Nat \ {0} /\ unread' = [unread EXCEPT ![u] = @ \o Carried(Message(u, k, n))]
      BY <1>3, SentIs
    <2> HIDE DEF k
    <2>2. QED
      BY <1>1, <2>1
  <1>4. QED
    BY <1>2, <1>3

(* A ws_connect is on its way alone, and is taken first. *)
LEMMA AskedSteps ==
    ASSUME RelayInv, ChannelNext \/ WireSteps
    PROVE  /\ \/ /\ \A i : Asks(toClient', i) => Asks(toClient, i) /\ toClient'[i] = toClient[i]
                 /\ UNCHANGED use
              \/ /\ ~forgotten /\ \A u \in Uses : Rests(u)
                 /\ \A i : Asks(toClient', i) => i = 1 /\ toClient'[i].use = use'
                 /\ UNCHANGED forgotten
           /\ \/ forgotten' = forgotten
              \/ \A i : ~Asks(toClient', i)
           /\ Accepts => \A i : ~Asks(toClient', i)
  <1> USE DEF Asks
  <1>0. /\ toClient \in Seq(Wires) /\ Len(toClient) \in Nat
        /\ \A i : Asks(toClient, i) => i = 1 /\ ~forgotten /\ \A u \in Uses : Rests(u)
    BY Typed DEF RelayInv, OneServed
  <1>00. PeerConnects \/ UNCHANGED use
    BY DEF ChannelNext, WireSteps, ReceiveSteps, RxWsConnect, RxWsFrame, RxWsStray, RxWsUnknown, RxWsError,
           HandlerSteps, Dial, Greet, FirstDone, Farewell, CancelEnds, PumpsOut, OutEnds, PumpsIn,
           UpstreamSends, UpstreamEnds, Forget, PeerSends, PeerTakes, PeerEnds, ChannelLose, ChannelLeave,
           channel, chanPeer
  <1>1. ASSUME toClient # <<>>, toClient' = Tail(toClient)
        PROVE  \A i : ~Asks(toClient', i)
    <2>1. Len(toClient') = Len(toClient) - 1 /\ \A i \in 1 .. Len(toClient) - 1 : toClient'[i] = toClient[i + 1]
      BY <1>0, <1>1, LineSteps
    <2>2. \A i \in 1 .. Len(toClient) - 1 : ~Asks(toClient, i + 1)
      BY <1>0
    <2>3. QED
      BY <1>0, <2>1, <2>2
  <1>2. CASE ReceiveSteps
    <2>1. CASE RxWsUnknown
      BY <1>0, <2>1, LineSteps DEF RxWsUnknown, known
    <2>2. CASE (\E full \in BOOLEAN : RxWsConnect(full)) \/ RxWsFrame \/ RxWsStray \/ RxWsError
      <3>1. toClient # <<>> /\ toClient' = Tail(toClient)
        BY <2>2 DEF RxWsConnect, RxWsFrame, RxWsStray, RxWsError, Takes
      <3>2. UNCHANGED use
        BY <2>2 DEF RxWsConnect, RxWsFrame, RxWsStray, RxWsError, chanPeer
      <3>3. QED
        BY <1>1, <3>1, <3>2
    <2>3. QED
      BY <1>2, <2>1, <2>2 DEF ReceiveSteps
  <1>3. ASSUME \E u \in Uses : \/ HandlerSteps(u) \/ PumpsOut(u) \/ OutEnds(u) \/ PumpsIn(u) \/ UpstreamSends(u)
                               \/ \E how \in {"closed", "broken"} : UpstreamEnds(u, how)
        PROVE  UNCHANGED <<toClient, forgotten>>
    BY <1>3 DEF HandlerSteps, Dial, Greet, FirstDone, Farewell, CancelEnds, Finally, PumpsOut, OutEnds,
                PumpsIn, UpstreamSends, UpstreamEnds, known
  <1>4. ASSUME PeerTakes \/ UNCHANGED channel PROVE UNCHANGED <<toClient, forgotten>>
    BY <1>4 DEF PeerTakes, channel, known
  <1>5. ASSUME Forget PROVE UNCHANGED toClient /\ \A i : ~Asks(toClient, i)
    BY <1>0, <1>5 DEF Forget
  <1>6. ASSUME PeerConnects
        PROVE  /\ ~forgotten /\ \A u \in Uses : Rests(u)
               /\ \A i : Asks(toClient', i) => i = 1 /\ toClient'[i].use = use'
               /\ UNCHANGED forgotten
    <2>1. toClient = <<>> /\ ~forgotten /\ UNCHANGED forgotten /\ \A u \in Uses : Rests(u)
      BY <1>6 DEF PeerConnects, RelayInv, OneServed, known
    <2>2. Len(toClient') = 1 /\ toClient'[1].use = use'
      BY <1>6, <2>1 DEF PeerConnects
    <2>3. QED
      BY <2>1, <2>2
  <1>7. ASSUME PeerSends PROVE UNCHANGED forgotten /\ \A i : Asks(toClient', i) => Asks(toClient, i) /\ toClient'[i] = toClient[i]
    <2>1. PICK line \in Seq(Wires), n \in 1 .. 2 :
             toClient' = toClient \o line /\ Len(line) = n /\ \A i \in 1 .. n : IsData(line[i])
      BY <1>7, SentLine
    <2>3. /\ Len(toClient') = Len(toClient) + n
          /\ \A i \in 1 .. Len(toClient) : toClient'[i] = toClient[i]
          /\ \A i \in Len(toClient) + 1 .. Len(toClient) + n : toClient'[i].type = "data"
      BY <1>0, <2>1, Joins DEF IsData
    <2>4. \A i : Asks(toClient', i) => Asks(toClient, i) /\ toClient'[i] = toClient[i]
      BY <1>0, <2>1, <2>3
    <2>5. QED
      BY <1>7, <2>4 DEF PeerSends, known
  <1>8. ASSUME NEW t \in {"ws_close", "error"}, PeerEnds(t)
        PROVE  UNCHANGED forgotten /\ \A i : Asks(toClient', i) => Asks(toClient, i) /\ toClient'[i] = toClient[i]
    <2>1. toClient' = Append(toClient, Plain(t)) /\ Plain(t) \in Wires /\ Plain(t).type = t /\ UNCHANGED forgotten
      BY <1>8, WireFrames DEF PeerEnds, Closings, known
    <2>2. QED
      BY <1>0, <2>1, LineSteps
  <1>9. ASSUME ChannelLose \/ ChannelLeave
        PROVE  UNCHANGED forgotten /\ \A i : Asks(toClient', i) => Asks(toClient, i) /\ toClient'[i] = toClient[i]
    <2>1. UNCHANGED forgotten /\ \E n \in 0 .. Len(toClient) : toClient' = SubSeq(toClient, 1, n)
      <3>1. toClient' = <<>> => toClient' = SubSeq(toClient, 1, 0) /\ 0 \in 0 .. Len(toClient)
        BY <1>0, LineSteps
      <3>2. QED
        BY <1>9, <3>1 DEF ChannelLose, ChannelLeave, Finally, known
    <2>2. QED
      BY <1>0, <2>1, LineSteps
  <1>10. Accepts => \A i : ~Asks(toClient', i)
    BY <1>1 DEF Accepts
  <1>11. \A i : Asks(toClient, i) => ~forgotten
    BY <1>0
  <1>12. QED
    BY <1>1, <1>2, <1>3, <1>4, <1>5, <1>6, <1>7, <1>8, <1>9, <1>10, <1>11, <1>00 DEF ChannelNext, WireSteps

Idle == link = "down" \/ (chan \in {"idle", "lost"} /\ link = "up")

(* A connection that the peer does not use yet stays without frames. *)
LEMMA IdleSteps ==
    ASSUME RelayInv, ChannelNext \/ WireSteps
    PROVE  /\ Idle' => (Idle /\ toClient' = <<>>) \/ (RxLeaves /\ ChannelLeave)
           /\ Accepts => ~Idle
  <1>1. Idle => toClient = <<>>
    BY DEF RelayInv, OneServed, Idle
  <1>2. chan = "open" => link = "up"
    BY DEF RelayInv, PeerKnows
  <1>3. CASE ReceiveSteps
    <2>1. toClient # <<>> /\ (RxWsUnknown \/ UNCHANGED chan)
      BY <1>3 DEF ReceiveSteps, RxWsConnect, RxWsFrame, RxWsStray, RxWsError, RxWsUnknown, Takes, chanPeer
    <2>2. RxWsUnknown \/ UNCHANGED link
      BY <1>3 DEF ReceiveSteps, RxWsConnect, RxWsFrame, RxWsStray, RxWsError, Overflow, RxReports, RxSends, wire
    <2>3. ~Idle'
      BY <1>1, <2>1, <2>2 DEF RxWsUnknown, Idle
    <2>4. QED
      BY <1>1, <2>1, <2>3 DEF Accepts
  <1>4. ASSUME \E u \in Uses : \/ HandlerSteps(u) \/ PumpsOut(u) \/ OutEnds(u) \/ PumpsIn(u) \/ UpstreamSends(u)
                               \/ \E how \in {"closed", "broken"} : UpstreamEnds(u, how)
        PROVE  UNCHANGED <<toClient, link, chan>>
    BY <1>4 DEF HandlerSteps, Dial, Greet, FirstDone, Farewell, CancelEnds, Finally, PumpsOut, OutEnds,
                PumpsIn, UpstreamSends, UpstreamEnds, chanPeer, wire
  <1>5. ASSUME Forget \/ PeerTakes PROVE (Idle' => Idle) /\ UNCHANGED toClient
    BY <1>5 DEF Forget, PeerTakes, Idle, chanPeer, wire
  <1>6. ASSUME PeerConnects \/ PeerSends \/ \E t \in {"ws_close", "error"} : PeerEnds(t) PROVE ~Idle'
    BY <1>2, <1>6 DEF PeerConnects, PeerSends, PeerEnds, Idle, chanPeer, wire
  <1>7. ASSUME Lose PROVE ~Idle'
    BY <1>7 DEF Lose, Idle
  <1>8. ASSUME Connect, UNCHANGED channel PROVE Idle /\ UNCHANGED toClient
    BY <1>8 DEF Connect, channel, Idle
  <1>9. Accepts => ~Idle
    BY <1>1 DEF Accepts
  <1>10. QED
    BY <1>1, <1>3, <1>4, <1>5, <1>6, <1>7, <1>8, <1>9 DEF ChannelNext, WireSteps, Idle

(* Before a ws_connect is accepted no use was served. *)
LEMMA FirstServed ==
    ASSUME RelayInv, ChannelInv, Accepts
    PROVE  /\ registered' \in Uses /\ registered' = toClient[1].use /\ registered' = use
           /\ \A u \in Uses : ~Served(u)
  <1>1. toClient[1].use \in Uses /\ Asks(toClient, 1)
    BY Typed, LineSteps, WireFrames DEF Accepts, Asks
  <1>2. ~forgotten /\ toClient[1].use = use
    BY <1>1 DEF RelayInv, OneServed
  <1>3. QED
    BY <1>1, <1>2 DEF Accepts, ChannelInv, DataKnown, Known, Served

(* OneServed is kept. *)
LEMMA OneServedStep ==
    ASSUME RelayInv, ChannelInv, ChannelNext \/ WireSteps
    PROVE  OneServed'
  <1>0. /\ handler \in [Uses -> HandlerStates] /\ 0 \notin Uses /\ registered \in {0} \cup Uses
        /\ OneServed
    BY Typed, UsesAreNumbers DEF RelayInv
  <1>1. CASE Serving
    <2>1. \A u, v \in Uses : Served(u)' /\ Served(v)' => u = v
      BY <1>0, <1>1 DEF OneServed, Serving
    <2>2. registered' # 0 => ~Rests(registered)'
      BY <1>1 DEF Serving
    <2>3. \A i : Asks(toClient', i) => /\ i = 1 /\ toClient'[i].use = use'
                                      /\ ~forgotten' /\ \A u \in Uses : Rests(u)'
      <3>1. \A i : Asks(toClient, i) => /\ i = 1 /\ toClient[i].use = use
                                       /\ ~forgotten /\ \A u \in Uses : Rests(u)
        BY <1>0 DEF OneServed
      <3>2. QED
        BY <1>1, <3>1, AskedSteps DEF Serving
    <2>4. Idle' => toClient' = <<>> /\ \A u \in Uses : Rests(u)'
      <3>1. CASE Idle /\ toClient' = <<>>
        BY <1>0, <1>1, <3>1 DEF OneServed, Serving, Idle
      <3>2. CASE RxLeaves /\ ChannelLeave
        <4>1. toClient' = <<>> /\ \A u \in Uses : handler'[u] \in {"none", "done"}
          BY <1>0, <3>2 DEF ChannelLeave, Finally
        <4>2. QED
          BY <4>1 DEF Rests
      <3>3. QED
        BY <3>1, <3>2, IdleSteps
    <2>5. \A u \in Uses : ~Rests(u)' => u = use'
      BY <1>0, <1>1, AskedSteps DEF OneServed, Serving
    <2>6. QED
      BY <2>1, <2>2, <2>3, <2>4, <2>5 DEF OneServed, Idle
  <1>2. CASE Accepts
    <2>1. registered' \in Uses /\ \A u \in Uses : handler[u] = "none"
      BY <1>2, FirstServed DEF Served
    <2>4. \A u \in Uses : handler'[u] = IF u = registered' THEN "dial" ELSE "none"
      BY <1>0, <1>2, <2>1 DEF Accepts
    <2>6. \A i : ~Asks(toClient', i)
      BY <1>2, AskedSteps
    <2>7. ~Idle'
      BY <1>2, IdleSteps DEF Accepts, RxLeaves, wire
    <2>8. /\ \A u, v \in Uses : Served(u)' /\ Served(v)' => u = v
          /\ registered' # 0 => ~Rests(registered)'
          /\ \A u \in Uses : ~Rests(u)' => u = registered'
      BY <2>1, <2>4 DEF Served, Rests
    <2>9. registered' = use /\ UNCHANGED use
      BY <1>2, FirstServed DEF Accepts, chanPeer
    <2>10. QED
      BY <2>6, <2>7, <2>8, <2>9 DEF OneServed, Idle
  <1>3. QED
    BY <1>1, <1>2, ServingStep

(* A handler that has greeted the peer has for good. *)
LEMMA GreetedStays ==
    ASSUME RelayInv, ChannelInv, ChannelNext \/ WireSteps
    PROVE  \A u \in Uses : Greeted(u) => Greeted(u)'
  <1>1. Accepts => \A u \in Uses : ~Greeted(u)
    BY FirstServed DEF Served, Greeted
  <1>2. QED
    BY <1>1, ServingStep DEF Serving

(* What a step may do to the frames to the peer. *)
ToPeerKeeps == \/ UNCHANGED toPeer
               \/ link = "up" /\ \E x \in Wires : x.type # "ws_connected" /\ toPeer' = Append(toPeer, x)

(* What RxReports puts into the line to the peer. *)
LEMMA ReportsKeep ==
    ASSUME RelayInv, NEW t \in Closings, t # "ws_connected", RxReports(t)
    PROVE  ToPeerKeeps /\ UNCHANGED link
  BY WireFrames DEF RxReports, RxSends, ToPeerKeeps

(* A step that does no more to the peer keeps PeerKnows. *)
LEMMA PeerKnowsKeeps ==
    ASSUME RelayInv, ToPeerKeeps, UNCHANGED <<chan, use, partOut, peerGot, link>>,
           \A u \in Uses : Greeted(u) => Greeted(u)'
    PROVE  PeerKnows'
  <1>0. PeerKnows /\ toPeer \in Seq(Wires) /\ use \in {0} \cup Uses
    BY Typed DEF RelayInv
  <1>1. /\ link' # "up" => toPeer' = <<>> /\ chan' \notin {"asked", "open"}
        /\ chan' = "open" => Greeted(use)'
        /\ chan' \in {"idle", "lost", "asked"} => partOut' = <<>>
        /\ chan' = "idle" => use' = 0
        /\ chan' # "idle" => use' # 0
        /\ \A u \in Uses : peerGot'[u] # <<>> => u <= use' /\ (u = use' => chan' # "asked")
    BY <1>0 DEF PeerKnows, ToPeerKeeps
  <1>2. \A i \in 1 .. Len(toPeer') : toPeer'[i].type = "ws_connected" =>
           i \in 1 .. Len(toPeer) /\ toPeer[i].type = "ws_connected"
    BY <1>0, LineSteps DEF ToPeerKeeps
  <1>3. chan \in {"asked", "closed"} /\ Greeted(use) => Greeted(use)'
    BY <1>0 DEF PeerKnows
  <1>4. QED
    BY <1>0, <1>1, <1>2, <1>3 DEF PeerKnows

(* PeerKnows is kept. *)
LEMMA PeerKnowsStep ==
    ASSUME RelayInv, ChannelInv, ChannelNext \/ WireSteps
    PROVE  PeerKnows'
  <1>0. /\ PeerKnows /\ OneServed /\ toPeer \in Seq(Wires) /\ use \in {0} \cup Uses
        /\ \A u \in Uses : Greeted(u) => Greeted(u)'
    BY Typed, GreetedStays DEF RelayInv
  <1> DEFINE Quiet == ToPeerKeeps /\ UNCHANGED <<chan, use, partOut, peerGot, link>>
  <1>1. ASSUME Quiet PROVE PeerKnows'
    BY <1>0, <1>1, PeerKnowsKeeps
  <1>2. CASE ReceiveSteps
    <2>1. CASE RxWsUnknown
      <3>1. toPeer' = <<>> /\ partOut' = <<>> /\ link' = "lost" /\ UNCHANGED <<use, peerGot>>
            /\ chan' = IF chan \in {"asked", "open"} THEN "lost" ELSE chan
        BY <2>1 DEF RxWsUnknown, ends
      <3>2. Len(toPeer') = 0
        BY <3>1
      <3>3. QED
        BY <1>0, <3>1, <3>2 DEF PeerKnows
    <2>2. CASE RxWsStray
      BY <1>1, <2>2 DEF RxWsStray, ToPeerKeeps, chanPeer, ends, wire
    <2>3. CASE RxWsError
      BY <1>1, <2>3 DEF RxWsError, ToPeerKeeps, chanPeer, ends, wire
    <2>4. CASE RxWsFrame
      <3>1. Overflow => ToPeerKeeps /\ UNCHANGED link
        BY ReportsKeep DEF Overflow, Closings
      <3>2. QED
        BY <1>1, <2>4, <3>1 DEF RxWsFrame, ToPeerKeeps, chanPeer, ends, wire
    <2>5. ASSUME NEW full \in BOOLEAN, RxWsConnect(full) PROVE PeerKnows'
      <3>1. RxReports("error") => ToPeerKeeps /\ UNCHANGED link
        BY ReportsKeep DEF Closings
      <3>2. QED
        BY <1>1, <2>5, <3>1 DEF RxWsConnect, ToPeerKeeps, chanPeer, ends, wire
    <2>6. QED
      BY <1>2, <2>1, <2>2, <2>3, <2>4, <2>5 DEF ReceiveSteps
  <1>3. ASSUME NEW u \in Uses, Greet(u) PROVE PeerKnows'
    <2>1. /\ link = "up" /\ ~Greeted(u) /\ ~Rests(u) /\ Served(u) /\ toPeer' = Append(toPeer, Plain("ws_connected"))
          /\ UNCHANGED <<chan, use, partOut, peerGot, link>>
      BY <1>3 DEF Greet, At, Greeted, Rests, Served, chanPeer, ends, wire
    <2>2. Greeted(u)'
      BY <1>3, Typed DEF Greet, Goes, Greeted
    <2>3. u = use /\ use' = use
      BY <1>0, <2>1 DEF OneServed
    <2>5. chan # "open" /\ \A i \in 1 .. Len(toPeer) : toPeer[i].type # "ws_connected"
      BY <1>0, <2>1, <2>3 DEF PeerKnows
    <2>6. chan \in {"asked", "closed"}
      BY <1>0, <2>1, <2>5 DEF OneServed, RelayInv, RelayTypes
    <2>7. \A i \in 1 .. Len(toPeer') : toPeer'[i].type = "ws_connected" => i = Len(toPeer) + 1
      <3>1. Plain("ws_connected") \in Wires
        BY WireFrames DEF Closings
      <3>2. QED
        BY <1>0, <2>1, <2>5, <3>1, LineSteps
    <2>8. Greeted(use)'
      BY <2>2, <2>3
    <2>9. QED
      BY <1>0, <2>1, <2>6, <2>7, <2>8 DEF PeerKnows
  <1>4. ASSUME NEW u \in Uses, Farewell(u) PROVE PeerKnows'
    <2>1. \E t \in {"ws_close", "error"} : link = "up" /\ toPeer' = Append(toPeer, Plain(t))
      BY <1>4 DEF Farewell
    <2>2. ToPeerKeeps
      BY <2>1, WireFrames DEF ToPeerKeeps, Closings
    <2>3. QED
      BY <1>1, <1>4, <2>2 DEF Farewell, chanPeer, ends, wire
  <1>5. ASSUME NEW u \in Uses, PumpsOut(u) PROVE PeerKnows'
    <2>1. unread[u] \in Seq(Wires) /\ unread[u] # <<>> /\ link = "up" /\ toPeer' = Append(toPeer, Head(unread[u]))
      BY <1>5, Typed DEF PumpsOut
    <2>2. Head(unread[u]) \in Wires /\ Head(unread[u]) = unread[u][1] /\ 1 \in 1 .. Len(unread[u])
      BY <2>1, LineSteps
    <2>3. IsData(Head(unread[u]))
      BY <2>2 DEF RelayInv, OutContent
    <2>4. ToPeerKeeps
      BY <2>1, <2>2, <2>3 DEF ToPeerKeeps, IsData
    <2>5. QED
      BY <1>1, <1>5, <2>4 DEF PumpsOut, chanPeer, ends, wire
  <1>6. ASSUME \/ \E u \in Uses : \/ \E ok \in BOOLEAN : Dial(u, ok)
                                 \/ FirstDone(u) \/ CancelEnds(u) \/ OutEnds(u) \/ PumpsIn(u) \/ UpstreamSends(u)
                                 \/ \E how \in {"closed", "broken"} : UpstreamEnds(u, how)
               \/ Forget \/ PeerSends
        PROVE  PeerKnows'
    <2>1. UNCHANGED <<toPeer, chanPeer, link>>
      BY <1>6 DEF Dial, FirstDone, CancelEnds, OutEnds, PumpsIn, UpstreamSends, UpstreamEnds, Forget,
                  PeerSends, chanPeer, wire
    <2>2. UNCHANGED peerGot
      BY <1>6 DEF Dial, FirstDone, CancelEnds, OutEnds, PumpsIn, UpstreamSends, UpstreamEnds, Forget,
                  PeerSends, ends
    <2>3. QED
      BY <1>1, <2>1, <2>2 DEF ToPeerKeeps, chanPeer
  <1>7. ASSUME PeerConnects PROVE PeerKnows'
    <2>1. /\ link = "up" /\ chan \in {"idle", "lost"} /\ chan' = "asked" /\ use' = use + 1
          /\ UNCHANGED <<link, toPeer, partOut, peerGot>>
      BY <1>7 DEF PeerConnects, ends, wire
    <2>2. \A i \in 1 .. Len(toPeer) : toPeer[i].type # "ws_connected"
      BY <1>0, <2>1 DEF PeerKnows
    <2>3. use + 1 # 0 /\ \A u \in Uses : u <= use => u <= use + 1 /\ u # use + 1
      BY <1>0, UsesAreNumbers
    <2>4. QED
      BY <1>0, <2>1, <2>2, <2>3 DEF PeerKnows
  <1>8. ASSUME NEW t \in {"ws_close", "error"}, PeerEnds(t) PROVE PeerKnows'
    <2>1. /\ link = "up" /\ chan \in {"asked", "open"} /\ chan' = "closed"
          /\ UNCHANGED <<link, use, toPeer, partOut, peerGot>>
      BY <1>8 DEF PeerEnds, ends, wire
    <2>2. \A i \in 1 .. Len(toPeer) : toPeer[i].type = "ws_connected" => Greeted(use)'
      BY <1>0, <2>1 DEF PeerKnows
    <2>3. QED
      BY <1>0, <2>1, <2>2 DEF PeerKnows
  <1>9. CASE PeerTakes
    <2> DEFINE frame == toPeer[1]
    <2>1. /\ toPeer # <<>> /\ toPeer' = Tail(toPeer) /\ UNCHANGED <<use, link>> /\ Head(toPeer) = toPeer[1]
          /\ Len(toPeer') = Len(toPeer) - 1 /\ Len(toPeer) \in Nat \ {0}
          /\ \A i \in 1 .. Len(toPeer) - 1 : toPeer'[i] = toPeer[i + 1]
      BY <1>0, <1>9, LineSteps DEF PeerTakes, wire
    <2>2. link = "up" /\ 1 \in 1 .. Len(toPeer)
      BY <1>0, <2>1 DEF PeerKnows
    <2>3. \A i \in 1 .. Len(toPeer') : i + 1 \in 1 .. Len(toPeer) /\ toPeer'[i] = toPeer[i + 1]
      BY <2>1
    <2>4. \A i, j \in 1 .. Len(toPeer') :
             toPeer'[i].type = "ws_connected" /\ toPeer'[j].type = "ws_connected" => i = j
      <3>1. \A i, j \in 1 .. Len(toPeer') : i + 1 = j + 1 => i = j
        BY <2>1
      <3>2. QED
        BY <1>0, <2>3, <3>1 DEF PeerKnows
    <2>5. \A i \in 1 .. Len(toPeer') : toPeer'[i].type = "ws_connected" =>
             frame.type # "ws_connected" /\ chan \in {"asked", "closed"} /\ Greeted(use)
      <3>1. \A i \in 1 .. Len(toPeer') : i + 1 # 1
        BY <2>1
      <3>2. QED
        BY <1>0, <2>2, <2>3, <3>1 DEF PeerKnows
    <2>6. CASE frame.type = "ws_connected"
      <3>1. chan' = (IF chan = "asked" THEN "open" ELSE chan) /\ UNCHANGED <<partOut, peerGot>>
        BY <1>9, <2>1, <2>6 DEF PeerTakes, IsData
      <3>2. Greeted(use) /\ chan \in {"asked", "closed"}
        BY <1>0, <2>2, <2>6 DEF PeerKnows
      <3>3. use \in Uses
        BY <1>0, <3>2 DEF PeerKnows
      <3>4. QED
        BY <1>0, <2>1, <2>2, <2>5, <2>6, <3>1, <3>2, <3>3 DEF PeerKnows
    <2>7. CASE frame.type \in {"ws_close", "error"}
      <3>1. chan' = (IF chan \in {"asked", "open"} THEN "closed" ELSE chan) /\ UNCHANGED <<partOut, peerGot>>
        BY <1>9, <2>1, <2>7 DEF PeerTakes, IsData
      <3>2. (chan' = "open" => Greeted(use)') /\ (chan \in {"asked", "closed"} /\ Greeted(use) => Greeted(use)')
        BY <1>0, <2>1, <3>1 DEF PeerKnows
      <3>3. QED
        BY <1>0, <2>1, <2>2, <2>4, <2>5, <3>1, <3>2 DEF PeerKnows
    <2>8. CASE IsData(frame)
      <3>1. UNCHANGED chan /\ (chan # "open" => UNCHANGED <<partOut, peerGot>>)
            /\ \E whole : UNCHANGED peerGot \/ peerGot' = [peerGot EXCEPT ![use] = Append(@, whole)]
        BY <1>9, <2>1, <2>8 DEF PeerTakes, IsData
      <3>2. \A u \in Uses : u # use => peerGot'[u] = peerGot[u]
        BY <3>1, Typed
      <3>3. (chan = "open" => Greeted(use)') /\ (chan \in {"asked", "closed"} /\ Greeted(use) => Greeted(use)')
        BY <1>0, <2>1 DEF PeerKnows
      <3>4. \A u \in Uses : peerGot'[u] # <<>> => u <= use /\ (u = use => chan # "asked")
        <4>1. use \in Nat /\ use <= use
          BY <1>0, UsesAreNumbers
        <4>2. QED
          BY <1>0, <3>1, <3>2, <4>1 DEF PeerKnows
      <3>5. QED
        BY <1>0, <2>1, <2>2, <2>4, <2>5, <3>1, <3>3, <3>4 DEF PeerKnows
    <2>9. QED
      BY <1>9, <2>1, <2>6, <2>7, <2>8 DEF PeerTakes
  <1>10. ASSUME Lose, ChannelLose PROVE PeerKnows'
    <2>1. toPeer' = <<>> /\ partOut' = <<>> /\ link' = "lost" /\ UNCHANGED <<use, peerGot>>
          /\ chan' = IF chan \in {"asked", "open"} THEN "lost" ELSE chan
      BY <1>10 DEF Lose, ChannelLose, ends
    <2>2. Len(toPeer') = 0
      BY <2>1
    <2>3. QED
      BY <1>0, <2>1, <2>2 DEF PeerKnows
  <1>11. ASSUME (RxLeaves /\ ChannelLeave) \/ (Connect /\ UNCHANGED channel) PROVE PeerKnows'
    <2>1. link # "up" /\ UNCHANGED <<toPeer, partOut, chan, use, peerGot>>
      BY <1>11 DEF RxLeaves, ChannelLeave, Connect, channel, chanPeer, ends
    <2>2. toPeer' = <<>> /\ Len(toPeer') = 0
      BY <1>0, <2>1 DEF PeerKnows
    <2>3. QED
      BY <1>0, <2>1, <2>2 DEF PeerKnows
  <1>12. QED
    BY <1>2, <1>3, <1>4, <1>5, <1>6, <1>7, <1>8, <1>9, <1>10, <1>11 DEF ChannelNext, HandlerSteps, WireSteps

(* What from_sandbox makes of the frame it takes: it keeps it, or it hands *)
(* over the next message whole; or it stops.                               *)
InTakes(u) ==
    /\ UNCHANGED upstreamGot
    /\ \E p \in Seq(Pieces) :
          /\ partIn' = [partIn EXCEPT ![u] = p]
          /\ p \in {partIn[u], <<>>} \/ p \in Begun(u, upstreamGot[u])
          /\ "in" \in pumps'[u] => /\ IsData(queue[u][1]) /\ p \in Begun(u, upstreamGot[u])
                                   /\ After(queue[u][1]) = Wanted(upstreamGot[u], p)
InDelivers(u) ==
    /\ Len(upstreamGot[u]) < Len(peerSent[u])
    /\ upstreamGot' = [upstreamGot EXCEPT ![u] = Append(@, peerSent[u][Len(@) + 1])]
    /\ partIn' = [partIn EXCEPT ![u] = <<>>]
    /\ IsData(queue[u][1]) /\ <<>> \in Begun(u, upstreamGot'[u])
    /\ After(queue[u][1]) = Wanted(upstreamGot'[u], <<>>)

(* The line to a use begins with its queue. *)
LEMMA InLineParts ==
    ASSUME RelayInv, NEW u \in Uses
    PROVE  /\ InLine(u) \in Seq(Wires) /\ queue[u] \in Seq(Wires)
           /\ queue[u] # <<>> => InLine(u) # <<>> /\ InLine(u)[1] = queue[u][1] /\ Head(queue[u]) = queue[u][1]
           /\ registered = u => InLine(u) = queue[u] \o toClient
           /\ registered # u => InLine(u) = queue[u]
  <1>1. queue[u] \in Seq(Wires) /\ toClient \in Seq(Wires) /\ <<>> \in Seq(Wires)
    BY Typed
  <1>2. registered = u => InLine(u) = queue[u] \o toClient
    BY DEF InLine
  <1>3. registered # u => InLine(u) = queue[u]
    BY <1>1 DEF InLine
  <1>4. queue[u] # <<>> => (queue[u] \o toClient)[1] = queue[u][1] /\ queue[u] \o toClient # <<>>
    BY <1>1, Shifts
  <1>5. queue[u] # <<>> => Head(queue[u]) = queue[u][1]
    BY <1>1, LineSteps
  <1>6. InLine(u) \in Seq(Wires)
    BY <1>1, <1>2, <1>3, Joins
  <1>7. QED
    BY <1>1, <1>2, <1>3, <1>4, <1>5, <1>6

(* from_sandbox takes the first frame of the line. *)
LEMMA PumpsInIs ==
    ASSUME RelayInv, NEW u \in Uses, PumpsIn(u)
    PROVE  /\ queue[u] # <<>> /\ "in" \in pumps[u]
           /\ queue' = [queue EXCEPT ![u] = Tail(@)]
           /\ \A v \in Uses : pumps'[v] \subseteq pumps[v]
           /\ InTakes(u) \/ InDelivers(u)
  <1> DEFINE frame == queue[u][1]
             f == frame.frame
             next == IF IsData(frame) THEN Pumped(u, f) ELSE <<<<>>, partIn[u]>>
  <1>0. PICK large \in BOOLEAN :
           LET raises == IsData(frame) /\ (large \/ (next[1] # <<>> /\ upstream[u] # "open"))
           IN /\ IF raises \/ ~IsData(frame) THEN Stops(u, "in") ELSE UNCHANGED pumps
              /\ upstreamGot' = IF next[1] # <<>> /\ ~raises
                                THEN [upstreamGot EXCEPT ![u] = Append(@, next[1])] ELSE upstreamGot
    BY Typed, LineSteps DEF PumpsIn
  <1> DEFINE raises == IsData(frame) /\ (large \/ (next[1] # <<>> /\ upstream[u] # "open"))
  <1>1. /\ queue[u] # <<>> /\ "in" \in pumps[u] /\ queue' = [queue EXCEPT ![u] = Tail(@)]
        /\ partIn' = [partIn EXCEPT ![u] = next[2]]
        /\ IF raises \/ ~IsData(frame) THEN Stops(u, "in") ELSE UNCHANGED pumps
        /\ upstreamGot' = IF next[1] # <<>> /\ ~raises
                          THEN [upstreamGot EXCEPT ![u] = Append(@, next[1])] ELSE upstreamGot
    BY <1>0, Typed, LineSteps DEF PumpsIn, Pumps
  <1>2. /\ pumps \in [Uses -> SUBSET {"in", "out"}] /\ partIn \in [Uses -> Seq(Pieces)]
        /\ upstreamGot \in [Uses -> Seq(Messages)] /\ peerSent \in [Uses -> Seq(Messages)]
    BY DEF RelayInv, RelayTypes
  <1>3. \A v \in Uses : pumps'[v] \subseteq pumps[v]
    BY <1>1, <1>2 DEF Stops
  <1>4. raises \/ ~IsData(frame) => "in" \notin pumps'[u]
    BY <1>1, <1>2 DEF Stops
  <1>5. CASE ~IsData(frame)
    <2>1. next[1] = <<>> /\ next[2] = partIn[u]
      BY <1>5
    <2>2. InTakes(u)
      BY <1>1, <1>2, <1>4, <1>5, <2>1 DEF InTakes
    <2>3. QED
      BY <1>1, <1>3, <2>2
  <1>6. CASE IsData(frame)
    <2>1. 1 \in 1 .. Len(queue[u])
      BY <1>1, InLineParts, LineSteps
    <2>2. PartOf(f, u, peerSent[u]) /\ partIn[u] \in Begun(u, upstreamGot[u])
      BY <1>1, <1>6, <2>1 DEF RelayInv, InContent
    <2>3. StartsAt(InLine(u), Wanted(upstreamGot[u], partIn[u]))
      BY <1>1 DEF RelayInv, InInOrder, LineIn
    <2>4. Place(f) = Wanted(upstreamGot[u], partIn[u])
      BY <1>1, <1>6, <2>3, InLineParts DEF StartsAt
    <2>5. frame = Data(f)
      <3>1. frame \in Wires
        BY <2>1, InLineParts
      <3>2. QED
        BY <1>6, <3>1, WireFrames
    <2> DEFINE got == upstreamGot[u]
               msgs == peerSent[u]
               part == partIn[u]
    <2>6. /\ Append(part, f) \in Seq(Pieces) /\ f \in Pieces
          /\ f.part < f.of => /\ part = <<>> /\ Append(part, f) \in Begun(u, got) /\ f.of # 1
                              /\ After(frame) = Wanted(got, Append(part, f))
          /\ f.part = f.of => /\ Len(got) < Len(msgs) /\ Append(part, f) = msgs[Len(got) + 1]
                              /\ <<>> \in Begun(u, Append(got, Append(part, f)))
                              /\ After(frame) = Wanted(Append(got, Append(part, f)), <<>>)
          /\ f.of = 1 => part = <<>> /\ f.part = f.of
          /\ f.part < f.of \/ f.part = f.of
      <3>1. got \in Seq(Messages) /\ msgs \in Seq(Messages)
        BY <1>2
      <3>2. PartOf(f, u, msgs) /\ part \in Begun(u, got) /\ Place(f) = Wanted(got, part)
        BY <2>2, <2>4
      <3> HIDE DEF got, msgs, part, f, frame
      <3>3. QED
        BY <2>5, <3>1, <3>2, Wholes
    <2>7. f.part < f.of => f.part # f.of
      BY <2>2 DEF PartOf
    <2>8. CASE f.part < f.of
      <3>1. next[1] = <<>> /\ next[2] = Append(part, f)
        BY <1>6, <2>6, <2>7, <2>8 DEF Pumped
      <3>2. InTakes(u)
        BY <1>1, <1>2, <1>6, <2>6, <2>8, <3>1 DEF InTakes
      <3>3. QED
        BY <1>1, <1>3, <3>2
    <2>9. CASE f.part = f.of
      <3>1. next[1] = Append(part, f) /\ next[2] = <<>>
        <4>1. f.of = 1 => <<f>> = Append(part, f)
          BY <2>6
        <4>2. QED
          BY <1>6, <2>6, <2>9, <4>1 DEF Pumped
      <3>2. next[1] # <<>>
        BY <3>1, <2>6
      <3>3. CASE raises
        <4>1. "in" \notin pumps'[u] /\ UNCHANGED upstreamGot /\ partIn' = [partIn EXCEPT ![u] = <<>>]
          <5> HIDE DEF raises, next
          <5>1. QED
            BY <1>1, <1>4, <3>1, <3>3
        <4>2. <<>> \in Seq(Pieces)
          OBVIOUS
        <4>3. InTakes(u)
          BY <4>1, <4>2 DEF InTakes
        <4>4. QED
          BY <1>1, <1>3, <4>3
      <3>4. CASE ~raises
        <4>1. upstreamGot' = [upstreamGot EXCEPT ![u] = Append(@, Append(part, f))]
          BY <1>1, <3>1, <3>2, <3>4
        <4>2. upstreamGot'[u] = Append(got, Append(part, f))
          BY <1>2, <4>1
        <4>3. InDelivers(u)
          BY <1>1, <1>6, <2>6, <2>9, <3>1, <4>1, <4>2 DEF InDelivers
        <4>4. QED
          BY <1>1, <1>3, <4>3
      <3>5. QED
        BY <3>3, <3>4
    <2>10. QED
      BY <2>6, <2>8, <2>9
  <1>7. QED
    BY <1>5, <1>6

(* What the peer makes of a frame of data. *)
PeerDelivers ==
    /\ Len(peerGot[use]) < Len(upstreamSent[use])
    /\ peerGot' = [peerGot EXCEPT ![use] = Append(@, upstreamSent[use][Len(@) + 1])]
    /\ partOut' = <<>> /\ <<>> \in Begun(use, peerGot'[use])
    /\ After(toPeer[1]) = Wanted(peerGot'[use], <<>>)
PeerKeepsPart ==
    /\ UNCHANGED peerGot
    /\ partOut' \in Seq(Pieces) /\ partOut' \in Begun(use, peerGot[use])
    /\ After(toPeer[1]) = Wanted(peerGot[use], partOut')

(* Data reaches the peer only on an open channel. *)
LEMMA PeerTakesIs ==
    ASSUME RelayInv, PeerTakes, IsData(toPeer[1])
    PROVE  /\ UNCHANGED chan
           /\ chan # "open" => UNCHANGED <<peerGot, partOut>>
           /\ chan = "open" => use \in Uses /\ (PeerDelivers \/ PeerKeepsPart)
  <1> DEFINE frame == toPeer[1]
             f == frame.frame
             whole == Append(partOut, f)
  <1>1. toPeer # <<>> /\ toPeer \in Seq(Wires) /\ Head(toPeer) = frame /\ 1 \in 1 .. Len(toPeer) /\ frame \in Wires
    BY Typed, LineSteps DEF PeerTakes
  <1>2. UNCHANGED chan /\ (chan # "open" => UNCHANGED <<peerGot, partOut>>)
    BY <1>1 DEF PeerTakes, IsData
  <1>3. ASSUME chan = "open" PROVE use \in Uses /\ (PeerDelivers \/ PeerKeepsPart)
    <2>1. use \in Uses /\ Greeted(use) /\ Served(use)
      <3>1. use \in Uses /\ Greeted(use)
        BY <1>3, Typed DEF RelayInv, PeerKnows
      <3>2. QED
        BY <3>1 DEF Greeted, Served
    <2>2. PartOf(f, f.use, upstreamSent[f.use]) /\ Greeted(f.use) /\ f.use \in Uses
      <3>1. f \in Pieces
        BY <1>1, WireFrames
      <3>2. QED
        BY <1>1, <3>1 DEF RelayInv, OutContent, Pieces
    <2>3. f.use = use
      BY <2>1, <2>2 DEF RelayInv, OneServed, Greeted, Served
    <2>4. partOut \in Begun(use, peerGot[use]) /\ Spans(OutLine(use), Wanted(peerGot[use], partOut), NextOf(upstreamSent[use]))
      BY <1>3, <2>1 DEF RelayInv, OutInOrder, LineOut
    <2>5. OutLine(use) # <<>> /\ OutLine(use)[1] = frame
      BY <1>1, <2>1, Typed, Shifts DEF OutLine
    <2>6. Place(f) = Wanted(peerGot[use], partOut)
      BY <2>4, <2>5 DEF Spans, StartsAt
    <2>7. frame = Data(f)
      BY <1>1, WireFrames
    <2>8. peerGot[use] \in Seq(Messages) /\ upstreamSent[use] \in Seq(Messages) /\ peerGot \in [Uses -> Seq(Messages)]
      BY <2>1, Typed
    <2> DEFINE got == peerGot[use]
               msgs == upstreamSent[use]
    <2>9. /\ whole \in Seq(Pieces)
          /\ f.part < f.of => whole \in Begun(use, got) /\ After(frame) = Wanted(got, whole)
          /\ f.part = f.of => /\ Len(got) < Len(msgs) /\ whole = msgs[Len(got) + 1]
                              /\ <<>> \in Begun(use, Append(got, whole))
                              /\ After(frame) = Wanted(Append(got, whole), <<>>)
          /\ f.part < f.of \/ f.part = f.of
      BY <2>1, <2>2, <2>3, <2>4, <2>6, <2>7, <2>8, Wholes
    <2>10. IF f.part < f.of
           THEN partOut' = whole /\ UNCHANGED peerGot
           ELSE partOut' = <<>> /\ peerGot' = [peerGot EXCEPT ![use] = Append(@, whole)]
      BY <1>1, <1>3 DEF PeerTakes, IsData
    <2>11. CASE f.part < f.of
      BY <2>1, <2>9, <2>10, <2>11 DEF PeerKeepsPart
    <2>12. CASE f.part = f.of
      <3>1. ~(f.part < f.of)
        BY <2>2, <2>12 DEF PartOf
      <3>2. partOut' = <<>> /\ peerGot' = [peerGot EXCEPT ![use] = Append(@, whole)]
        BY <2>10, <3>1
      <3>3. peerGot'[use] = Append(got, whole)
        BY <2>1, <2>8, <3>2
      <3>4. QED
        BY <2>1, <2>9, <2>12, <3>2, <3>3 DEF PeerDelivers
    <2>13. QED
      BY <2>9, <2>11, <2>12
  <1>4. QED
    BY <1>2, <1>3

(* The types are kept. *)
LEMMA FrameTypesStep ==
    ASSUME RelayInv, ChannelNext \/ WireSteps
    PROVE  /\ toClient' \in Seq(Wires) /\ toPeer' \in Seq(Wires)
           /\ queue' \in [Uses -> Seq(Wires)] /\ unread' \in [Uses -> Seq(Wires)]
  <1>0. /\ toClient \in Seq(Wires) /\ toPeer \in Seq(Wires) /\ <<>> \in Seq(Wires)
        /\ queue \in [Uses -> Seq(Wires)] /\ unread \in [Uses -> Seq(Wires)]
    BY Typed
  <1>1. /\ toClient # <<>> => Tail(toClient) \in Seq(Wires) /\ Head(toClient) \in Wires
        /\ toPeer # <<>> => Tail(toPeer) \in Seq(Wires)
        /\ \A u \in Uses : unread[u] # <<>> => Tail(unread[u]) \in Seq(Wires) /\ Head(unread[u]) \in Wires
        /\ \A u \in Uses : queue[u] # <<>> => Tail(queue[u]) \in Seq(Wires)
        /\ \A s \in Seq(Wires) : \A x \in Wires : Append(s, x) \in Seq(Wires)
    BY <1>0, LineSteps
  <1>2. Plain("error") \in Wires /\ Plain("ws_close") \in Wires /\ Plain("ws_connected") \in Wires
    BY WireFrames DEF Closings
  <1>3. RxReports("error") => toPeer' \in Seq(Wires)
    BY <1>0, <1>1, <1>2 DEF RxReports
  <1>4. \A us \in SUBSET Uses : Finally(us) => queue' \in [Uses -> Seq(Wires)] /\ UNCHANGED unread
    BY <1>0 DEF Finally
  <1> DEFINE Goal == /\ toClient' \in Seq(Wires) /\ toPeer' \in Seq(Wires)
                     /\ queue' \in [Uses -> Seq(Wires)] /\ unread' \in [Uses -> Seq(Wires)]
  <1>5. CASE ReceiveSteps
    <2>1. ASSUME NEW full \in BOOLEAN, RxWsConnect(full) PROVE Goal
      BY <1>0, <1>1, <1>3, <2>1 DEF RxWsConnect, Takes, task
    <2>2. ASSUME RxWsFrame PROVE Goal
      <3>1. toClient' \in Seq(Wires) /\ Head(toClient) \in Wires
        BY <1>1, <2>2 DEF RxWsFrame, Takes
      <3>2. CASE Len(queue[registered]) = QueueLimit
        BY <1>0, <1>3, <2>2, <3>1, <3>2 DEF RxWsFrame, Overflow, Evict
      <3>3. CASE Len(queue[registered]) # QueueLimit
        <4>1. queue' = [queue EXCEPT ![registered] = Append(@, Head(toClient))] /\ UNCHANGED <<toPeer, unread>>
          BY <2>2, <3>3 DEF RxWsFrame
        <4>2. QED
          BY <1>0, <1>1, <3>1, <4>1
      <3>4. QED
        BY <3>2, <3>3
    <2>3. ASSUME RxWsStray \/ RxWsUnknown \/ RxWsError PROVE Goal
      BY <1>0, <1>1, <2>3 DEF RxWsStray, RxWsUnknown, RxWsError, Takes, Evict, task
    <2>4. QED
      BY <1>5, <2>1, <2>2, <2>3 DEF ReceiveSteps
  <1>6. ASSUME NEW u \in Uses, HandlerSteps(u) PROVE Goal
    <2>1. Greet(u) => Goal
      BY <1>0, <1>1, <1>2 DEF Greet
    <2>2. FirstDone(u) \/ (\E ok \in BOOLEAN : Dial(u, ok)) => Goal
      BY <1>0 DEF Dial, FirstDone
    <2>3. Farewell(u) \/ CancelEnds(u) => Goal
      BY <1>0, <1>1, <1>2, <1>4 DEF Farewell, CancelEnds
    <2>4. QED
      BY <1>6, <2>1, <2>2, <2>3 DEF HandlerSteps
  <1>7. ASSUME NEW u \in Uses, PumpsOut(u) \/ PumpsIn(u) PROVE Goal
    <2>1. PumpsOut(u) => Goal
      BY <1>0, <1>1 DEF PumpsOut
    <2>2. PumpsIn(u) => queue' = [queue EXCEPT ![u] = Tail(@)] /\ UNCHANGED <<toClient, toPeer, unread>>
      BY DEF PumpsIn
    <2>3. PumpsIn(u) => queue[u] # <<>>
      BY DEF PumpsIn
    <2>4. QED
      BY <1>0, <1>1, <1>7, <2>1, <2>2, <2>3
  <1>8. ASSUME NEW u \in Uses, OutEnds(u) \/ \E how \in {"closed", "broken"} : UpstreamEnds(u, how) PROVE Goal
    BY <1>0, <1>8 DEF OutEnds, UpstreamEnds, task
  <1>9. ASSUME NEW u \in Uses, UpstreamSends(u) PROVE Goal
    <2>1. PICK line \in Seq(Wires) : unread' = [unread EXCEPT ![u] = @ \o line]
      BY <1>9, SentLine
    <2>2. UNCHANGED <<toClient, toPeer, queue>>
      BY <1>9 DEF UpstreamSends
    <2>3. QED
      BY <1>0, <2>1, <2>2
  <1>10. ASSUME PeerSends PROVE Goal
    <2>1. PICK line \in Seq(Wires) : toClient' = toClient \o line
      BY <1>10, SentLine
    <2>2. UNCHANGED <<toPeer, queue, unread>>
      BY <1>10 DEF PeerSends, task
    <2>3. QED
      BY <1>0, <2>1, <2>2
  <1>11. ASSUME PeerConnects PROVE Goal
    <2>1. [type |-> "ws_connect", use |-> use + 1] \in Wires
      BY <1>11, WireFrames DEF PeerConnects
    <2>2. QED
      BY <1>0, <1>1, <1>11, <2>1 DEF PeerConnects, task
  <1>12. ASSUME Forget \/ PeerTakes \/ (\E t \in {"ws_close", "error"} : PeerEnds(t)) \/ UNCHANGED channel
         PROVE  Goal
    BY <1>0, <1>1, <1>2, <1>12 DEF Forget, PeerTakes, PeerEnds, channel, task
  <1>13. ASSUME ChannelLose PROVE Goal
    <2>1. toClient' \in Seq(Wires)
      BY <1>0, <1>13, LineSteps DEF ChannelLose
    <2>2. QED
      BY <1>0, <1>13, <2>1 DEF ChannelLose, task
  <1>14. ASSUME ChannelLeave PROVE Goal
    BY <1>0, <1>4, <1>14 DEF ChannelLeave
  <1>15. QED
    BY <1>5, <1>6, <1>7, <1>8, <1>9, <1>10, <1>11, <1>12, <1>13, <1>14 DEF ChannelNext, WireSteps

(* Messages are sent and handed over one at a time. *)
SentOne(u, sent, sentNow) ==
    \E m \in Messages : sentNow = [sent EXCEPT ![u] = Append(@, m)]

(* Who sends and who gets a message in a step. *)
LEMMA MessagesStep ==
    ASSUME RelayInv, ChannelNext \/ WireSteps
    PROVE  /\ \/ UNCHANGED <<peerSent, upstreamSent, count>>
              \/ /\ PeerSends /\ SentOne(use, peerSent, peerSent') /\ use \in Uses
                 /\ count' = count + 1 /\ UNCHANGED upstreamSent
              \/ \E u \in Uses : /\ UpstreamSends(u) /\ SentOne(u, upstreamSent, upstreamSent')
                                 /\ count' = count + 1 /\ UNCHANGED peerSent
           /\ UNCHANGED upstreamGot \/ \E u \in Uses : PumpsIn(u) /\ InDelivers(u)
           /\ UNCHANGED peerGot \/ (PeerTakes /\ use \in Uses /\ PeerDelivers)
  <1>1. ASSUME PeerSends PROVE /\ SentOne(use, peerSent, peerSent') /\ use \in Uses
                               /\ count' = count + 1 /\ UNCHANGED <<upstreamSent, upstreamGot, peerGot>>
    BY <1>1, SentIs DEF SentOne, PeerSends
  <1>2. ASSUME NEW u \in Uses, UpstreamSends(u)
        PROVE  /\ SentOne(u, upstreamSent, upstreamSent')
               /\ count' = count + 1 /\ UNCHANGED <<peerSent, upstreamGot, peerGot>>
    BY <1>2, SentIs DEF SentOne, UpstreamSends
  <1>3. ASSUME NEW u \in Uses, PumpsIn(u)
        PROVE  UNCHANGED <<peerSent, upstreamSent, count, peerGot>> /\ (UNCHANGED upstreamGot \/ InDelivers(u))
    BY <1>3, PumpsInIs DEF PumpsIn, InTakes
  <1>4. ASSUME PeerTakes
        PROVE  UNCHANGED <<peerSent, upstreamSent, count, upstreamGot>>
               /\ (UNCHANGED peerGot \/ (use \in Uses /\ PeerDelivers))
    <2>1. toPeer[1] = Head(toPeer)
      BY <1>4, Typed, LineSteps DEF PeerTakes
    <2>2. ~IsData(toPeer[1]) => UNCHANGED peerGot
      BY <1>4, <2>1 DEF PeerTakes
    <2>3. QED
      BY <1>4, <2>2, PeerTakesIs DEF PeerTakes, PeerKeepsPart
  <1>5. ASSUME \/ ReceiveSteps
               \/ \E u \in Uses : \/ HandlerSteps(u) \/ PumpsOut(u) \/ OutEnds(u)
                                  \/ \E how \in {"closed", "broken"} : UpstreamEnds(u, how)
               \/ Forget \/ PeerConnects \/ \E t \in {"ws_close", "error"} : PeerEnds(t)
               \/ ChannelLose \/ ChannelLeave \/ UNCHANGED channel
        PROVE  UNCHANGED ends
    BY <1>5 DEF ReceiveSteps, RxWsConnect, RxWsFrame, RxWsStray, RxWsUnknown, RxWsError,
           HandlerSteps, Dial, Greet, FirstDone, Farewell, CancelEnds, PumpsOut, OutEnds,
           UpstreamEnds, Forget, PeerConnects, PeerEnds, ChannelLose, ChannelLeave, channel
  <1>6. QED
    BY <1>1, <1>2, <1>3, <1>4, <1>5 DEF ChannelNext, WireSteps, ends

(* RelayTypes is kept. *)
LEMMA RelayTypesStep ==
    ASSUME RelayInv, ChannelInv', ChannelNext \/ WireSteps
    PROVE  RelayTypes'
  <1>1. toClient' \in Seq(Wires) /\ toPeer' \in Seq(Wires)
        /\ queue' \in [Uses -> Seq(Wires)] /\ unread' \in [Uses -> Seq(Wires)]
    BY FrameTypesStep
  <1>2. use' \in {0} \cup Uses /\ registered' \in {0} \cup Uses /\ handler' \in [Uses -> HandlerStates]
    BY DEF ChannelInv, ChannelTypes, HandlerStates
  <1>3. /\ chan \in {"idle", "asked", "open", "closed", "lost"}
        /\ pumps \in [Uses -> SUBSET {"in", "out"}] /\ partIn \in [Uses -> Seq(Pieces)] /\ partOut \in Seq(Pieces)
        /\ count \in 0 .. MaxMessages /\ MaxMessages \in Nat /\ count \in Nat
        /\ \A u \in Uses : Len(peerSent[u]) <= count /\ Len(upstreamSent[u]) <= count
    BY ChannelAssumption DEF RelayInv, RelayTypes
  <1>4. chan' \in {"idle", "asked", "open", "closed", "lost"}
    <2>1. ASSUME \E full \in BOOLEAN : RxWsConnect(full) PROVE UNCHANGED chan
      BY <2>1 DEF RxWsConnect, chanPeer
    <2>2. ASSUME RxWsFrame \/ RxWsStray \/ RxWsError PROVE UNCHANGED chan
      BY <2>2 DEF RxWsFrame, RxWsStray, RxWsError, chanPeer
    <2>3. ASSUME \E u \in Uses : HandlerSteps(u) PROVE UNCHANGED chan
      BY <2>3 DEF HandlerSteps, Dial, Greet, FirstDone, Farewell, CancelEnds, chanPeer
    <2>4. ASSUME \E u \in Uses : \/ PumpsOut(u) \/ OutEnds(u) \/ PumpsIn(u) \/ UpstreamSends(u)
                                 \/ \E how \in {"closed", "broken"} : UpstreamEnds(u, how)
          PROVE  UNCHANGED chan
      BY <2>4 DEF PumpsOut, OutEnds, PumpsIn, UpstreamSends, UpstreamEnds, chanPeer
    <2>5. ASSUME RxWsUnknown \/ ChannelLose PROVE UNCHANGED chan \/ chan' = "lost"
      BY <2>5 DEF RxWsUnknown, ChannelLose
    <2>6. ASSUME Forget \/ PeerSends \/ ChannelLeave \/ UNCHANGED channel PROVE UNCHANGED chan
      BY <2>6 DEF Forget, PeerSends, ChannelLeave, channel, chanPeer
    <2>7. ASSUME PeerConnects \/ PeerTakes \/ \E t \in {"ws_close", "error"} : PeerEnds(t)
          PROVE  UNCHANGED chan \/ chan' \in {"asked", "open", "closed"}
      BY <2>7 DEF PeerConnects, PeerTakes, PeerEnds
    <2>8. ChannelNext \/ WireSteps => UNCHANGED chan \/ chan' \in {"asked", "open", "closed", "lost"}
      BY <2>1, <2>2, <2>3, <2>4, <2>5, <2>6, <2>7 DEF ChannelNext, ReceiveSteps, WireSteps
    <2>9. QED
      BY <1>3, <2>8
  <1>5. \A us \in SUBSET Uses : Finally(us) => /\ pumps' \in [Uses -> SUBSET {"in", "out"}]
                                               /\ partIn' \in [Uses -> Seq(Pieces)]
    BY <1>3 DEF Finally
  <1>6. pumps' \in [Uses -> SUBSET {"in", "out"}] /\ partIn' \in [Uses -> Seq(Pieces)]
    <2>1. ASSUME NEW u \in Uses, PumpsIn(u) PROVE pumps' \in [Uses -> SUBSET {"in", "out"}] /\ partIn' \in [Uses -> Seq(Pieces)]
      <3>1. pumps' \in [Uses -> SUBSET {"in", "out"}]
        <4>1. UNCHANGED pumps \/ Stops(u, "in")
          BY <2>1 DEF PumpsIn
        <4>2. QED
          BY <1>3, <4>1 DEF Stops
      <3>2. partIn' \in [Uses -> Seq(Pieces)]
        <4>1. <<>> \in Seq(Pieces)
          OBVIOUS
        <4>2. PICK p \in Seq(Pieces) : partIn' = [partIn EXCEPT ![u] = p]
          BY <2>1, <4>1, PumpsInIs DEF InTakes, InDelivers
        <4>3. QED
          BY <1>3, <4>2
      <3>3. QED
        BY <3>1, <3>2
    <2>2. ASSUME NEW u \in Uses, HandlerSteps(u) \/ OutEnds(u)
          PROVE  pumps' \in [Uses -> SUBSET {"in", "out"}] /\ partIn' \in [Uses -> Seq(Pieces)]
      BY <1>3, <1>5, <2>2 DEF HandlerSteps, Dial, Greet, FirstDone, Farewell, CancelEnds, OutEnds, Stops
    <2>3. ASSUME \/ ReceiveSteps
                 \/ \E u \in Uses : \/ PumpsOut(u) \/ UpstreamSends(u)
                                    \/ \E how \in {"closed", "broken"} : UpstreamEnds(u, how)
                 \/ Forget \/ PeerConnects \/ PeerSends \/ PeerTakes \/ \E t \in {"ws_close", "error"} : PeerEnds(t)
                 \/ ChannelLose \/ UNCHANGED channel
          PROVE  UNCHANGED <<pumps, partIn>>
      BY <2>3 DEF ReceiveSteps, RxWsConnect, RxWsFrame, RxWsStray, RxWsUnknown, RxWsError, Overflow, Evict,
           PumpsOut, UpstreamSends, UpstreamEnds, Forget, PeerConnects, PeerSends, PeerTakes, PeerEnds,
           ChannelLose, channel, task
    <2>4. ASSUME ChannelLeave PROVE pumps' \in [Uses -> SUBSET {"in", "out"}] /\ partIn' \in [Uses -> Seq(Pieces)]
      BY <1>5, <2>4 DEF ChannelLeave
    <2>5. QED
      BY <1>3, <2>1, <2>2, <2>3, <2>4 DEF ChannelNext, WireSteps
  <1>7. partOut' \in Seq(Pieces)
    <2>1. ASSUME PeerTakes PROVE partOut' \in Seq(Pieces)
      <3>1. toPeer[1] = Head(toPeer)
        BY <2>1, Typed, LineSteps DEF PeerTakes
      <3>2. ~IsData(toPeer[1]) => UNCHANGED partOut
        BY <2>1, <3>1 DEF PeerTakes
      <3>3. <<>> \in Seq(Pieces)
        OBVIOUS
      <3>4. QED
        BY <1>3, <2>1, <3>2, <3>3, PeerTakesIs DEF PeerKeepsPart, PeerDelivers
    <2>2. ~PeerTakes => UNCHANGED partOut \/ partOut' = <<>>
      BY DEF ChannelNext, WireSteps, ReceiveSteps, RxWsConnect, RxWsFrame, RxWsStray, RxWsUnknown, RxWsError,
           HandlerSteps, Dial, Greet, FirstDone, Farewell, CancelEnds, PumpsOut, OutEnds, PumpsIn,
           UpstreamSends, UpstreamEnds, Forget, PeerConnects, PeerSends, PeerEnds, ChannelLose,
           ChannelLeave, channel, chanPeer
    <2>3. <<>> \in Seq(Pieces)
      OBVIOUS
    <2>4. QED
      BY <1>3, <2>1, <2>2, <2>3
  <1>8. /\ peerSent \in [Uses -> Seq(Messages)] /\ upstreamGot \in [Uses -> Seq(Messages)]
        /\ upstreamSent \in [Uses -> Seq(Messages)] /\ peerGot \in [Uses -> Seq(Messages)]
    BY Typed
  <1>9. /\ peerSent' \in [Uses -> Seq(Messages)] /\ upstreamSent' \in [Uses -> Seq(Messages)]
        /\ count' \in 0 .. MaxMessages
        /\ \A u \in Uses : Len(peerSent'[u]) <= count' /\ Len(upstreamSent'[u]) <= count'
    <2>1. ASSUME NEW sent \in [Uses -> Seq(Messages)], NEW sentNow, NEW u \in Uses, SentOne(u, sent, sentNow)
          PROVE  /\ sentNow \in [Uses -> Seq(Messages)]
                 /\ \A v \in Uses : Len(sentNow[v]) <= Len(sent[v]) + 1
      <3>1. PICK m \in Messages : sentNow = [sent EXCEPT ![u] = Append(@, m)]
        BY <2>1 DEF SentOne
      <3>2. QED
        BY <3>1
    <2>2. \A v \in Uses : Len(peerSent[v]) \in Nat /\ Len(upstreamSent[v]) \in Nat
      BY <1>8
    <2>3. \A a, b, c \in Nat : b <= c => b <= c + 1 /\ (a <= b + 1 => a <= c + 1)
      OBVIOUS
    <2>4. CASE UNCHANGED <<peerSent, upstreamSent, count>>
      BY <1>3, <1>8, <2>4
    <2>5. CASE PeerSends /\ SentOne(use, peerSent, peerSent') /\ use \in Uses /\ count' = count + 1 /\ UNCHANGED upstreamSent
      <3>1. count < MaxMessages
        BY <2>5 DEF PeerSends
      <3>2. /\ peerSent' \in [Uses -> Seq(Messages)]
            /\ \A v \in Uses : Len(peerSent'[v]) <= Len(peerSent[v]) + 1
        BY <1>8, <2>1, <2>5
      <3>3. \A v \in Uses : Len(peerSent'[v]) \in Nat
        BY <3>2
      <3>4. \A v \in Uses : Len(peerSent'[v]) <= count + 1 /\ Len(upstreamSent[v]) <= count + 1
        BY <1>3, <2>2, <2>3, <3>2, <3>3
      <3>5. QED
        BY <1>3, <1>8, <2>5, <3>1, <3>2, <3>4
    <2>6. ASSUME NEW u \in Uses, UpstreamSends(u), SentOne(u, upstreamSent, upstreamSent'),
                 count' = count + 1, UNCHANGED peerSent
          PROVE  /\ peerSent' \in [Uses -> Seq(Messages)] /\ upstreamSent' \in [Uses -> Seq(Messages)]
                 /\ count' \in 0 .. MaxMessages
                 /\ \A v \in Uses : Len(peerSent'[v]) <= count' /\ Len(upstreamSent'[v]) <= count'
      <3>1. count < MaxMessages
        BY <2>6 DEF UpstreamSends
      <3>2. /\ upstreamSent' \in [Uses -> Seq(Messages)]
            /\ \A v \in Uses : Len(upstreamSent'[v]) <= Len(upstreamSent[v]) + 1
        BY <1>8, <2>1, <2>6
      <3>3. \A v \in Uses : Len(upstreamSent'[v]) \in Nat
        BY <3>2
      <3>4. \A v \in Uses : Len(upstreamSent'[v]) <= count + 1 /\ Len(peerSent[v]) <= count + 1
        BY <1>3, <2>2, <2>3, <3>2, <3>3
      <3>5. QED
        BY <1>3, <1>8, <2>6, <3>1, <3>2, <3>4
    <2>7. QED
      BY <2>4, <2>5, <2>6, MessagesStep
  <1>10. upstreamGot' \in [Uses -> Seq(Messages)]
    <2>1. ASSUME NEW u \in Uses, InDelivers(u) PROVE upstreamGot' \in [Uses -> Seq(Messages)]
      <3>1. peerSent[u][Len(upstreamGot[u]) + 1] \in Messages
        <4>1. Len(upstreamGot[u]) + 1 \in 1 .. Len(peerSent[u])
          BY <1>8, <2>1 DEF InDelivers
        <4>2. QED
          BY <1>8, <4>1
      <3>2. QED
        BY <1>8, <2>1, <3>1 DEF InDelivers
    <2>2. QED
      BY <1>8, <2>1, MessagesStep
  <1>11. peerGot' \in [Uses -> Seq(Messages)]
    <2>1. ASSUME use \in Uses, PeerDelivers PROVE peerGot' \in [Uses -> Seq(Messages)]
      <3>1. upstreamSent[use][Len(peerGot[use]) + 1] \in Messages
        <4>1. Len(peerGot[use]) + 1 \in 1 .. Len(upstreamSent[use])
          BY <1>8, <2>1 DEF PeerDelivers
        <4>2. QED
          BY <1>8, <2>1, <4>1
      <3>2. QED
        BY <1>8, <2>1, <3>1 DEF PeerDelivers
    <2>2. QED
      BY <1>8, <2>1, MessagesStep
  <1>12. upstream' \in [Uses -> {"none", "open", "closed", "broken"}]
    <2>0. upstream \in [Uses -> {"none", "open", "closed", "broken"}]
      BY DEF RelayInv, RelayTypes
    <2>1. \A us \in SUBSET Uses : upstream' = Closed(us) => upstream' \in [Uses -> {"none", "open", "closed", "broken"}]
      BY <2>0 DEF Closed
    <2>2. ASSUME NEW u \in Uses, HandlerSteps(u) PROVE upstream' \in [Uses -> {"none", "open", "closed", "broken"}]
      <3>1. {u} \in SUBSET Uses
        OBVIOUS
      <3>2. QED
        BY <2>0, <2>1, <2>2, <3>1 DEF HandlerSteps, Dial, Greet, FirstDone, Farewell, CancelEnds, Finally
    <2>3. ASSUME NEW u \in Uses, PumpsIn(u) \/ \E how \in {"closed", "broken"} : UpstreamEnds(u, how)
          PROVE  upstream' \in [Uses -> {"none", "open", "closed", "broken"}]
      BY <2>0, <2>3 DEF PumpsIn, UpstreamEnds
    <2>4. ASSUME ChannelLeave PROVE upstream' \in [Uses -> {"none", "open", "closed", "broken"}]
      BY <2>1, <2>4 DEF ChannelLeave, Finally
    <2>5. ASSUME \/ ReceiveSteps \/ Forget \/ PeerConnects \/ PeerSends \/ PeerTakes
                 \/ \E u \in Uses : PumpsOut(u) \/ OutEnds(u) \/ UpstreamSends(u)
                 \/ \E t \in {"ws_close", "error"} : PeerEnds(t)
                 \/ ChannelLose \/ UNCHANGED channel
          PROVE  UNCHANGED upstream
      BY <2>5 DEF ReceiveSteps, RxWsConnect, RxWsFrame, RxWsStray, RxWsUnknown, RxWsError, Forget, PeerConnects,
                  PeerSends, PeerTakes, PumpsOut, OutEnds, UpstreamSends, PeerEnds, ChannelLose, channel
    <2>6. QED
      BY <2>0, <2>2, <2>3, <2>4, <2>5 DEF ChannelNext, WireSteps
  <1>13. QED
    BY <1>1, <1>2, <1>4, <1>6, <1>7, <1>9, <1>10, <1>11, <1>12 DEF RelayTypes

(* What was served, greeted or sent stays so. *)
LEMMA SentStays ==
    ASSUME RelayInv, ChannelInv, ChannelNext \/ WireSteps
    PROVE  /\ \A u \in Uses : (Served(u) => Served(u)') /\ (Greeted(u) => Greeted(u)')
           /\ Accepts \/ \A u \in Uses : Served(u)' => Served(u)
           /\ \A u \in Uses : \A f : PartOf(f, u, peerSent[u]) => PartOf(f, u, peerSent'[u])
           /\ \A u \in Uses : \A f : PartOf(f, u, upstreamSent[u]) => PartOf(f, u, upstreamSent'[u])
           /\ \A u \in Uses : (peerSent'[u] # peerSent[u] => u = use /\ PeerSends)
                              /\ (upstreamSent'[u] # upstreamSent[u] => UpstreamSends(u))
  <1>0. peerSent \in [Uses -> Seq(Messages)] /\ upstreamSent \in [Uses -> Seq(Messages)]
    BY Typed
  <1>1. Accepts => \A u \in Uses : ~Served(u) /\ ~Greeted(u)
    BY FirstServed DEF Served, Greeted
  <1>2. /\ \A u \in Uses : (Served(u) => Served(u)') /\ (Greeted(u) => Greeted(u)')
        /\ Accepts \/ \A u \in Uses : Served(u)' => Served(u)
    BY <1>1, ServingStep DEF Serving
  <1>3. \/ UNCHANGED <<peerSent, upstreamSent>>
        \/ PeerSends /\ UNCHANGED upstreamSent /\ use \in Uses
        \/ \E u \in Uses : UpstreamSends(u) /\ UNCHANGED peerSent
    BY MessagesStep
  <1>4. ASSUME NEW u \in Uses, NEW msgs \in Seq(Messages), NEW n \in 1 .. 2
        PROVE  \A f : PartOf(f, u, msgs) => PartOf(f, u, Append(msgs, Message(u, Len(msgs) + 1, n)))
    BY Parts
  <1>5. ASSUME PeerSends, use \in Uses
        PROVE  /\ \A u \in Uses : u # use => peerSent'[u] = peerSent[u]
               /\ \A f : PartOf(f, use, peerSent[use]) => PartOf(f, use, peerSent'[use])
    <2>1. PICK n \in 1 .. 2 : peerSent' = [peerSent EXCEPT ![use] = Append(@, Message(use, Len(peerSent[use]) + 1, n))]
      BY <1>5, SentIs
    <2>2. peerSent'[use] = Append(peerSent[use], Message(use, Len(peerSent[use]) + 1, n))
      BY <1>0, <1>5, <2>1
    <2>3. QED
      BY <1>0, <1>4, <1>5, <2>1, <2>2
  <1>6. ASSUME NEW v \in Uses, UpstreamSends(v)
        PROVE  /\ \A u \in Uses : u # v => upstreamSent'[u] = upstreamSent[u]
               /\ \A f : PartOf(f, v, upstreamSent[v]) => PartOf(f, v, upstreamSent'[v])
    <2>1. PICK n \in 1 .. 2 : upstreamSent' = [upstreamSent EXCEPT ![v] = Append(@, Message(v, Len(upstreamSent[v]) + 1, n))]
      BY <1>6, SentIs
    <2>2. upstreamSent'[v] = Append(upstreamSent[v], Message(v, Len(upstreamSent[v]) + 1, n))
      BY <1>0, <2>1
    <2>3. QED
      BY <1>0, <1>4, <2>1, <2>2
  <1>7. QED
    BY <1>2, <1>3, <1>5, <1>6

(* What a step makes of the line of a direction, seen by a use. *)
ClientLine ==
    \/ UNCHANGED toClient
    \/ ReceiveSteps /\ toClient # <<>> /\ toClient' = Tail(toClient) /\ UNCHANGED <<use, chan>>
    \/ /\ ~Live' /\ UNCHANGED use
       /\ \E n \in 0 .. Len(toClient) : toClient' = SubSeq(toClient, 1, n)
    \/ PeerConnects /\ toClient = <<>> /\ registered = 0
       /\ \E x \in Wires : x.type = "ws_connect" /\ toClient' = <<x>>
    \/ PeerSends
    \/ ~Live' /\ UNCHANGED use /\ \E x \in Wires : ~IsData(x) /\ ~Leads(x) /\ toClient' = Append(toClient, x)

(* No step does anything else to the line to the client. *)
LEMMA ClientLineIs ==
    ASSUME RelayInv, ChannelNext \/ WireSteps
    PROVE  ClientLine
  <1>0. toClient \in Seq(Wires) /\ Len(toClient) \in Nat /\ use \in {0} \cup Uses
    BY Typed
  <1>1. toClient' = <<>> => \E n \in 0 .. Len(toClient) : toClient' = SubSeq(toClient, 1, n)
    <2>1. SubSeq(toClient, 1, 0) = <<>> /\ 0 \in 0 .. Len(toClient)
      BY <1>0, LineSteps
    <2>2. QED
      BY <2>1
  <1>2. ASSUME (\E full \in BOOLEAN : RxWsConnect(full)) \/ RxWsFrame \/ RxWsStray \/ RxWsError
        PROVE  ClientLine
    BY <1>2 DEF ReceiveSteps, RxWsConnect, RxWsFrame, RxWsStray, RxWsError, Takes, chanPeer, ClientLine
  <1>3. ASSUME RxWsUnknown PROVE ClientLine
    BY <1>1, <1>3 DEF RxWsUnknown, ClientLine, Live
  <1>4. ASSUME \/ \E u \in Uses : \/ HandlerSteps(u) \/ PumpsOut(u) \/ OutEnds(u) \/ PumpsIn(u) \/ UpstreamSends(u)
                                  \/ \E how \in {"closed", "broken"} : UpstreamEnds(u, how)
               \/ Forget \/ PeerTakes \/ UNCHANGED channel
        PROVE  UNCHANGED toClient
    BY <1>4 DEF HandlerSteps, Dial, Greet, FirstDone, Farewell, CancelEnds, PumpsOut, OutEnds, PumpsIn,
                UpstreamSends, UpstreamEnds, Forget, PeerTakes, channel
  <1>5. ASSUME PeerConnects PROVE ClientLine
    <2>1. toClient = <<>> /\ registered = 0
      BY <1>5, Typed DEF PeerConnects, RelayInv, OneServed
    <2>2. [type |-> "ws_connect", use |-> use + 1] \in Wires
      BY <1>5, WireFrames DEF PeerConnects
    <2>3. toClient' = <<[type |-> "ws_connect", use |-> use + 1]>>
      BY <1>5, <2>1 DEF PeerConnects
    <2>4. QED
      BY <1>5, <2>1, <2>2, <2>3 DEF ClientLine
  <1>6. ASSUME NEW t \in {"ws_close", "error"}, PeerEnds(t) PROVE ClientLine
    <2>1. Plain(t) \in Wires /\ Plain(t).type = t
      BY WireFrames DEF Closings
    <2>2. QED
      BY <1>6, <2>1 DEF PeerEnds, ClientLine, Live, Leads, IsData
  <1>7. ASSUME ChannelLose PROVE ClientLine
    BY <1>7 DEF ChannelLose, ClientLine, Live, RelayInv, RelayTypes
  <1>8. ASSUME RxLeaves, ChannelLeave PROVE ClientLine
    <2>1. link # "up" /\ toClient' = <<>> /\ UNCHANGED <<chan, use>>
      BY <1>8 DEF RxLeaves, ChannelLeave, chanPeer
    <2>2. ~Live'
      BY <2>1 DEF RelayInv, PeerKnows, Live
    <2>3. QED
      BY <1>1, <2>1, <2>2 DEF ClientLine
  <1>9. PeerSends => ClientLine
    BY DEF ClientLine
  <1>10. UNCHANGED toClient => ClientLine
    BY DEF ClientLine
  <1>11. QED
    BY <1>2, <1>3, <1>4, <1>5, <1>6, <1>7, <1>8, <1>9, <1>10 DEF ChannelNext, WireSteps, ReceiveSteps

(* The frames that the peer sent are parts of its messages. *)
LEMMA ToClientContent ==
    ASSUME RelayInv, ChannelInv, ChannelNext \/ WireSteps
    PROVE  \A i \in 1 .. Len(toClient') : IsData(toClient'[i]) =>
              use' # 0 /\ PartOf(toClient'[i].frame, use', peerSent'[use'])
  <1> DEFINE Part(x, v) == v # 0 /\ PartOf(x.frame, v, peerSent'[v])
  <1>0. /\ toClient \in Seq(Wires) /\ use \in {0} \cup Uses /\ peerSent \in [Uses -> Seq(Messages)]
        /\ Len(toClient) \in Nat
    BY Typed
  <1>1. \A i \in 1 .. Len(toClient) : IsData(toClient[i]) => Part(toClient[i], use)
    BY <1>0, SentStays DEF RelayInv, InContent
  <1> SUFFICES \A i \in 1 .. Len(toClient') : IsData(toClient'[i]) => Part(toClient'[i], use')
    OBVIOUS
  <1> HIDE DEF Part
  <1>2. CASE UNCHANGED <<toClient, use>>
    BY <1>1, <1>2
  <1>3. CASE toClient # <<>> /\ toClient' = Tail(toClient) /\ UNCHANGED use
    <2>1. /\ Len(toClient') = Len(toClient) - 1
          /\ \A i \in 1 .. Len(toClient) - 1 : toClient'[i] = toClient[i + 1] /\ i + 1 \in 1 .. Len(toClient)
      BY <1>0, <1>3, LineSteps
    <2>2. QED
      BY <1>1, <1>3, <2>1
  <1>4. ASSUME NEW n \in 0 .. Len(toClient), toClient' = SubSeq(toClient, 1, n), UNCHANGED use
        PROVE  \A i \in 1 .. Len(toClient') : IsData(toClient'[i]) => Part(toClient'[i], use')
    <2>1. Len(toClient') = n /\ \A i \in 1 .. n : toClient'[i] = toClient[i] /\ i \in 1 .. Len(toClient)
      BY <1>0, <1>4, LineSteps
    <2>2. QED
      BY <1>1, <1>4, <2>1
  <1>5. ASSUME NEW x \in Wires, x.type = "ws_connect", toClient' = <<x>>
        PROVE  \A i \in 1 .. Len(toClient') : IsData(toClient'[i]) => Part(toClient'[i], use')
    BY <1>5 DEF IsData
  <1>6. ASSUME NEW x \in Wires, ~IsData(x), toClient' = Append(toClient, x), UNCHANGED use
        PROVE  \A i \in 1 .. Len(toClient') : IsData(toClient'[i]) => Part(toClient'[i], use')
    <2>1. /\ Len(toClient') = Len(toClient) + 1 /\ toClient'[Len(toClient) + 1] = x
          /\ \A i \in 1 .. Len(toClient) : toClient'[i] = toClient[i]
      BY <1>0, <1>6, LineSteps
    <2>2. QED
      BY <1>0, <1>1, <1>6, <2>1
  <1>7. CASE PeerSends
    <2> DEFINE k == Len(peerSent[use]) + 1
    <2>1. PICK n \in 1 .. 2 :
             /\ use \in Uses /\ k \in Nat \ {0}
             /\ toClient' = toClient \o Carried(Message(use, k, n))
             /\ peerSent' = [peerSent EXCEPT ![use] = Append(@, Message(use, k, n))]
      BY <1>7, SentIs
    <2>2. peerSent'[use] = Append(peerSent[use], Message(use, k, n)) /\ peerSent[use] \in Seq(Messages)
      BY <1>0, <2>1
    <2>3. \A i \in 1 .. n : PartOf([use |-> use, no |-> k, part |-> i, of |-> n], use, peerSent'[use])
      BY <2>1, <2>2, Parts
    <2> DEFINE line == Carried(Message(use, k, n))
    <2>4. /\ line \in Seq(Wires) /\ Len(line) = n
          /\ \A i \in 1 .. n : line[i].frame = [use |-> use, no |-> k, part |-> i, of |-> n]
      <3>1. line \in Seq(Wires) /\ Len(line) = n
            /\ \A i \in 1 .. n : line[i] = Data([use |-> use, no |-> k, part |-> i, of |-> n])
        <4> HIDE DEF k
        <4>1. QED
          BY <2>1, Carries
      <3>2. \A f : Data(f).frame = f
        BY DEF Data
      <3>3. QED
        BY <3>1, <3>2
    <2> HIDE DEF line, k
    <2>5. /\ Len(toClient') = Len(toClient) + n
          /\ \A i \in 1 .. Len(toClient) : toClient'[i] = toClient[i]
          /\ \A i \in Len(toClient) + 1 .. Len(toClient) + n : toClient'[i] = line[i - Len(toClient)]
      BY <1>0, <2>1, <2>4, Joins DEF line
    <2>6. UNCHANGED use /\ use # 0
      BY <1>7, <2>1, UsesAreNumbers DEF PeerSends, chanPeer
    <2>7. \A i \in Len(toClient) + 1 .. Len(toClient) + n : Part(toClient'[i], use)
      <3>1. \A i \in Len(toClient) + 1 .. Len(toClient) + n : i - Len(toClient) \in 1 .. n
        BY <1>0
      <3>2. QED
        BY <2>3, <2>4, <2>5, <2>6, <3>1 DEF Part
    <2>8. \A i \in 1 .. Len(toClient') : i \in 1 .. Len(toClient) \/ i \in Len(toClient) + 1 .. Len(toClient) + n
      BY <1>0, <2>5
    <2>9. QED
      BY <1>1, <2>5, <2>6, <2>7, <2>8
  <1>8. CASE UNCHANGED toClient /\ ~UNCHANGED use
    <2>1. PeerConnects
      BY <1>8, AskedSteps DEF ChannelNext, WireSteps, ReceiveSteps, RxWsConnect, RxWsFrame, RxWsStray, RxWsUnknown,
           RxWsError, HandlerSteps, Dial, Greet, FirstDone, Farewell, CancelEnds, PumpsOut, OutEnds, PumpsIn,
           UpstreamSends, UpstreamEnds, Forget, PeerSends, PeerTakes, PeerEnds, ChannelLose, ChannelLeave,
           channel, chanPeer
    <2>2. toClient' # toClient
      <3>1. [type |-> "ws_connect", use |-> use + 1] \in Wires
        BY <2>1, WireFrames DEF PeerConnects
      <3>2. Len(toClient') = Len(toClient) + 1
        BY <1>0, <2>1, <3>1, LineSteps DEF PeerConnects
      <3>3. QED
        BY <1>0, <3>2
    <2>3. QED
      BY <1>8, <2>2
  <1>9. QED
    BY <1>2, <1>3, <1>4, <1>5, <1>6, <1>7, <1>8, ClientLineIs DEF ClientLine

(* So is what the queues hold. *)
LEMMA QueueContent ==
    ASSUME RelayInv, ChannelInv, ChannelNext \/ WireSteps
    PROVE  \A u \in Uses : /\ \A i \in 1 .. Len(queue'[u]) :
                                 IsData(queue'[u][i]) => PartOf(queue'[u][i].frame, u, peerSent'[u])
                           /\ ~Served(u)' => queue'[u] = <<>>
  <1>0. /\ toClient \in Seq(Wires) /\ queue \in [Uses -> Seq(Wires)] /\ registered \in {0} \cup Uses
    BY Typed
  <1>1. \A u \in Uses : /\ \A i \in 1 .. Len(queue[u]) :
                              IsData(queue[u][i]) => PartOf(queue[u][i].frame, u, peerSent'[u])
                        /\ ~Served(u)' => queue[u] = <<>>
    BY <1>0, SentStays DEF RelayInv, InContent
  <1>2. CASE UNCHANGED queue
    BY <1>1, <1>2
  <1>3. ASSUME NEW us \in SUBSET Uses, Finally(us)
        PROVE  \A u \in Uses : queue'[u] = queue[u] \/ (queue'[u] = <<>> /\ Len(queue'[u]) = 0)
    BY <1>0, <1>3 DEF Finally
  <1>4. ASSUME \A u \in Uses : queue'[u] = queue[u] \/ (queue'[u] = <<>> /\ Len(queue'[u]) = 0)
        PROVE  \A u \in Uses : /\ \A i \in 1 .. Len(queue'[u]) :
                                     IsData(queue'[u][i]) => PartOf(queue'[u][i].frame, u, peerSent'[u])
                               /\ ~Served(u)' => queue'[u] = <<>>
    BY <1>1, <1>4
  <1>5. ASSUME RxWsFrame, ~UNCHANGED queue
        PROVE  \A u \in Uses : /\ \A i \in 1 .. Len(queue'[u]) :
                                     IsData(queue'[u][i]) => PartOf(queue'[u][i].frame, u, peerSent'[u])
                               /\ ~Served(u)' => queue'[u] = <<>>
    <2>1. /\ registered \in Uses /\ toClient # <<>> /\ queue' = [queue EXCEPT ![registered] = Append(@, Head(toClient))]
          /\ UNCHANGED <<handler, registered>>
      BY <1>0, <1>5 DEF RxWsFrame, Overflow, Takes, known
    <2>2. ~Rests(registered) /\ registered = use /\ Served(registered)'
      <3>1. ~Rests(registered) /\ registered = use
        BY <1>0, <2>1, UsesAreNumbers DEF RelayInv, OneServed
      <3>2. QED
        BY <2>1, <3>1 DEF Rests, Served
    <2>3. Head(toClient) = toClient[1] /\ 1 \in 1 .. Len(toClient) /\ Head(toClient) \in Wires
      BY <1>0, <2>1, LineSteps
    <2>4. IsData(toClient[1]) => PartOf(toClient[1].frame, registered, peerSent'[registered])
      BY <2>1, <2>2, <2>3, SentStays DEF RelayInv, InContent
    <2>5. /\ Len(queue'[registered]) = Len(queue[registered]) + 1
          /\ \A i \in 1 .. Len(queue[registered]) : queue'[registered][i] = queue[registered][i]
          /\ queue'[registered][Len(queue[registered]) + 1] = toClient[1]
          /\ Len(queue[registered]) \in Nat
      BY <1>0, <2>1, <2>3, LineSteps
    <2>6. \A i \in 1 .. Len(queue'[registered]) :
             IsData(queue'[registered][i]) => PartOf(queue'[registered][i].frame, registered, peerSent'[registered])
      <3>1. \A i \in 1 .. Len(queue'[registered]) : i \in 1 .. Len(queue[registered]) \/ i = Len(queue[registered]) + 1
        BY <2>5
      <3>2. QED
        BY <1>1, <2>1, <2>4, <2>5, <3>1
    <2>7. \A u \in Uses : u # registered => queue'[u] = queue[u]
      BY <1>0, <2>1
    <2>8. ~(~Served(registered)')
      BY <2>2
    <2>9. QED
      <3>1. SUFFICES ASSUME NEW u \in Uses
                     PROVE  /\ \A i \in 1 .. Len(queue'[u]) :
                                  IsData(queue'[u][i]) => PartOf(queue'[u][i].frame, u, peerSent'[u])
                            /\ ~Served(u)' => queue'[u] = <<>>
        OBVIOUS
      <3>2. CASE u = registered
        <4>1. Served(u)'
          BY <2>1, <2>8, <3>2
        <4>2. QED
          BY <2>6, <3>2, <4>1
      <3>3. CASE u # registered
        <4>1. queue'[u] = queue[u]
          BY <2>7, <3>3
        <4>2. QED
          BY <1>1, <4>1
      <3>4. QED
        BY <3>2, <3>3
  <1>6. ASSUME NEW u \in Uses, PumpsIn(u)
        PROVE  \A v \in Uses : /\ \A i \in 1 .. Len(queue'[v]) :
                                     IsData(queue'[v][i]) => PartOf(queue'[v][i].frame, v, peerSent'[v])
                               /\ ~Served(v)' => queue'[v] = <<>>
    <2>1. queue[u] # <<>> /\ queue' = [queue EXCEPT ![u] = Tail(@)]
      BY <1>6, PumpsInIs
    <2>2. /\ queue'[u] = Tail(queue[u]) /\ Len(queue'[u]) = Len(queue[u]) - 1 /\ Len(queue[u]) \in Nat
          /\ \A i \in 1 .. Len(queue[u]) - 1 : queue'[u][i] = queue[u][i + 1]
      BY <1>0, <2>1, LineSteps
    <2>3. \A i \in 1 .. Len(queue'[u]) : i + 1 \in 1 .. Len(queue[u]) /\ queue'[u][i] = queue[u][i + 1]
      BY <2>2
    <2>4. \A v \in Uses : v # u => queue'[v] = queue[v]
      BY <1>0, <2>1
    <2>5. SUFFICES ASSUME NEW v \in Uses
                   PROVE  /\ \A i \in 1 .. Len(queue'[v]) :
                                IsData(queue'[v][i]) => PartOf(queue'[v][i].frame, v, peerSent'[v])
                          /\ ~Served(v)' => queue'[v] = <<>>
      OBVIOUS
    <2>6. CASE v = u
      <3>1. Served(v)'
        BY <1>1, <2>1, <2>6
      <3>2. QED
        BY <1>1, <2>3, <2>6, <3>1
    <2>7. CASE v # u
      <3>1. queue'[v] = queue[v]
        BY <2>4, <2>7
      <3>2. QED
        BY <1>1, <3>1
    <2>8. QED
      BY <2>6, <2>7
  <1>7. CASE ReceiveSteps
    <2>1. UNCHANGED queue \/ RxWsFrame
      BY <1>7 DEF ReceiveSteps, RxWsConnect, RxWsStray, RxWsUnknown, RxWsError, task
    <2>2. QED
      BY <1>2, <1>5, <2>1
  <1>8. ASSUME NEW u \in Uses, HandlerSteps(u)
        PROVE  UNCHANGED queue \/ \A v \in Uses : queue'[v] = queue[v] \/ (queue'[v] = <<>> /\ Len(queue'[v]) = 0)
    <2>1. UNCHANGED queue \/ Finally({u})
      BY <1>8 DEF HandlerSteps, Dial, Greet, FirstDone, Farewell, CancelEnds
    <2>2. {u} \in SUBSET Uses
      OBVIOUS
    <2>3. QED
      BY <1>3, <2>1, <2>2
  <1>9. ASSUME ChannelLeave
        PROVE  \A v \in Uses : queue'[v] = queue[v] \/ (queue'[v] = <<>> /\ Len(queue'[v]) = 0)
    BY <1>3, <1>9 DEF ChannelLeave
  <1>10. ASSUME \/ \E u \in Uses : \/ PumpsOut(u) \/ OutEnds(u) \/ UpstreamSends(u)
                                   \/ \E how \in {"closed", "broken"} : UpstreamEnds(u, how)
                \/ Forget \/ PeerConnects \/ PeerSends \/ PeerTakes \/ \E t \in {"ws_close", "error"} : PeerEnds(t)
                \/ ChannelLose \/ UNCHANGED channel
         PROVE  UNCHANGED queue
    BY <1>10 DEF PumpsOut, OutEnds, UpstreamSends, UpstreamEnds, Forget, PeerConnects, PeerSends, PeerTakes,
                 PeerEnds, ChannelLose, channel, task
  <1>11. QED
    BY <1>2, <1>4, <1>6, <1>7, <1>8, <1>9, <1>10 DEF ChannelNext, WireSteps

(* What a step makes of the pumps of a use and of what they have put       *)
(* together.                                                               *)
PumpsKeep(u) ==
    /\ pumps'[u] \subseteq pumps[u] /\ upstreamGot'[u] = upstreamGot[u]
    /\ partIn'[u] \in {partIn[u], <<>>} /\ ("in" \in pumps'[u] => partIn'[u] = partIn[u])

(* Only Greet starts pumps, and only from_sandbox hands over. *)
LEMMA PumpsKept ==
    ASSUME RelayInv, ChannelNext \/ WireSteps, NEW u \in Uses
    PROVE  PumpsKeep(u) \/ Greet(u) \/ PumpsIn(u)
  <1>0. /\ pumps \in [Uses -> SUBSET {"in", "out"}] /\ partIn \in [Uses -> Seq(Pieces)]
        /\ upstreamGot \in [Uses -> Seq(Messages)]
    BY DEF RelayInv, RelayTypes
  <1>1. UNCHANGED <<pumps, partIn, upstreamGot>> => PumpsKeep(u)
    BY DEF PumpsKeep
  <1>2. ASSUME NEW us \in SUBSET Uses, Finally(us), UNCHANGED upstreamGot PROVE PumpsKeep(u)
    <2>1. /\ pumps'[u] = IF u \in us THEN pumps[u] \ {"in"} ELSE pumps[u]
          /\ partIn'[u] = IF u \in us THEN <<>> ELSE partIn[u]
      BY <1>2 DEF Finally
    <2>2. QED
      BY <1>2, <2>1 DEF PumpsKeep
  <1>3. ASSUME NEW v \in Uses, HandlerSteps(v), ~Greet(v) PROVE PumpsKeep(u)
    <2>1. CASE \E ok \in BOOLEAN : Dial(v, ok)
      BY <1>1, <2>1 DEF Dial, ends
    <2>2. CASE FirstDone(v)
      <3>1. pumps'[u] = (IF u = v THEN {} ELSE pumps[u]) /\ UNCHANGED <<partIn, upstreamGot>>
        BY <1>0, <2>2 DEF FirstDone, ends
      <3>2. QED
        BY <3>1 DEF PumpsKeep
    <2>3. CASE Farewell(v) \/ CancelEnds(v)
      <3>1. Finally({v}) /\ UNCHANGED upstreamGot /\ {v} \in SUBSET Uses
        BY <2>3 DEF Farewell, CancelEnds, ends
      <3>2. QED
        BY <1>2, <3>1
    <2>4. QED
      BY <1>3, <2>1, <2>2, <2>3 DEF HandlerSteps
  <1>4. ASSUME NEW v \in Uses, v # u, Greet(v) \/ PumpsIn(v) PROVE PumpsKeep(u)
    <2>1. CASE Greet(v)
      <3>1. pumps'[u] = pumps[u] /\ UNCHANGED <<partIn, upstreamGot>>
        BY <1>0, <1>4, <2>1 DEF Greet, ends
      <3>2. QED
        BY <3>1 DEF PumpsKeep
    <2>2. CASE PumpsIn(v)
      <3>1. pumps'[u] \subseteq pumps[u] /\ (InTakes(v) \/ InDelivers(v))
        BY <2>2, PumpsInIs
      <3>2. upstreamGot'[u] = upstreamGot[u] /\ partIn'[u] = partIn[u]
        BY <1>0, <1>4, <3>1 DEF InTakes, InDelivers
      <3>3. QED
        BY <3>1, <3>2 DEF PumpsKeep
    <2>3. QED
      BY <1>4, <2>1, <2>2
  <1>5. ASSUME NEW v \in Uses, OutEnds(v) PROVE PumpsKeep(u)
    <2>1. pumps'[u] \subseteq pumps[u] /\ UNCHANGED <<partIn, upstreamGot>>
      BY <1>0, <1>5 DEF OutEnds, Stops, ends
    <2>2. QED
      BY <2>1 DEF PumpsKeep
  <1>6. ASSUME ChannelLeave PROVE PumpsKeep(u)
    BY <1>2, <1>6 DEF ChannelLeave, ends
  <1>7. ASSUME \/ \E v \in Uses : \/ PumpsOut(v) \/ UpstreamSends(v)
                                  \/ \E how \in {"closed", "broken"} : UpstreamEnds(v, how)
               \/ Forget \/ PeerConnects \/ PeerSends \/ PeerTakes \/ \E t \in {"ws_close", "error"} : PeerEnds(t)
               \/ ChannelLose \/ UNCHANGED channel
        PROVE  PumpsKeep(u)
    BY <1>1, <1>7 DEF PumpsOut, UpstreamSends, UpstreamEnds, Forget, PeerConnects, PeerSends, PeerTakes,
                PeerEnds, ChannelLose, channel, task, ends
  <1>8. ASSUME ReceiveSteps PROVE PumpsKeep(u)
    BY <1>1, <1>8 DEF ReceiveSteps, RxWsConnect, RxWsFrame, RxWsStray, RxWsUnknown, RxWsError, Overflow, Evict, task, ends
  <1>9. QED
    BY <1>3, <1>4, <1>5, <1>6, <1>7, <1>8 DEF ChannelNext, WireSteps

(* InContent is kept. *)
LEMMA InContentStep ==
    ASSUME RelayInv, ChannelInv, ChannelNext \/ WireSteps
    PROVE  InContent'
  <1>0. /\ InContent /\ \A u \in Uses : Greeted(u) => Greeted(u)'
        /\ peerSent \in [Uses -> Seq(Messages)] /\ upstreamGot \in [Uses -> Seq(Messages)]
        /\ partIn \in [Uses -> Seq(Pieces)] /\ handler \in [Uses -> HandlerStates]
    BY SentStays DEF RelayInv, RelayTypes
  <1>1. ASSUME NEW u \in Uses, peerSent'[u] # <<>> PROVE Greeted(u)'
    <2>1. CASE peerSent'[u] = peerSent[u]
      BY <1>0, <1>1, <2>1 DEF InContent
    <2>2. CASE peerSent'[u] # peerSent[u]
      <3>1. u = use /\ PeerSends
        BY <2>2, SentStays
      <3>2. Greeted(u)
        BY <3>1 DEF PeerSends, RelayInv, PeerKnows
      <3>3. QED
        BY <1>0, <3>2
    <2>3. QED
      BY <2>1, <2>2
  <1>2. ASSUME NEW u \in Uses
        PROVE  /\ ~Greeted(u)' => pumps'[u] = {} /\ partIn'[u] = <<>> /\ upstreamGot'[u] = <<>>
               /\ "in" \in pumps'[u] => partIn'[u] \in Begun(u, upstreamGot'[u])
    <2>1. CASE PumpsKeep(u)
      <3>1. "in" \in pumps'[u] => partIn'[u] \in Begun(u, upstreamGot'[u])
        BY <1>0, <2>1 DEF InContent, PumpsKeep
      <3>2. ~Greeted(u) => pumps[u] = {} /\ partIn[u] = <<>> /\ upstreamGot[u] = <<>>
        BY <1>0 DEF InContent
      <3>3. QED
        BY <1>0, <2>1, <3>1, <3>2 DEF PumpsKeep
    <2>2. CASE Greet(u)
      <3>1. handler'[u] = "pump" /\ handler[u] = "greet" /\ UNCHANGED <<partIn, upstreamGot>>
        BY <1>0, <2>2 DEF Greet, At, Goes, ends
      <3>2. partIn[u] = <<>>
        BY <1>0, <3>1 DEF InContent, Greeted
      <3>3. QED
        BY <3>1, <3>2 DEF Greeted, Begun
    <2>3. CASE PumpsIn(u)
      <3>1. "in" \in pumps[u] /\ (InTakes(u) \/ InDelivers(u))
        BY <2>3, PumpsInIs
      <3>2. Greeted(u)'
        BY <1>0, <3>1 DEF InContent
      <3>3. "in" \in pumps'[u] => partIn'[u] \in Begun(u, upstreamGot'[u])
        <4>1. CASE InTakes(u)
          BY <1>0, <4>1 DEF InTakes
        <4>2. CASE InDelivers(u)
          BY <1>0, <4>2 DEF InDelivers
        <4>3. QED
          BY <3>1, <4>1, <4>2
      <3>4. QED
        BY <3>2, <3>3
    <2>4. QED
      BY <2>1, <2>2, <2>3, PumpsKept
  <1>3. QED
    BY <1>1, <1>2, ToClientContent, QueueContent DEF InContent

(* What a step makes of the frames to the peer. *)
PeerQuiet == UNCHANGED <<chan, partOut, peerGot>>
PeerLine ==
    \/ UNCHANGED <<toPeer, unread>> /\ (PeerQuiet \/ chan' # "open")
    \/ UNCHANGED unread /\ PeerQuiet /\ \E x \in Wires : ~IsData(x) /\ ~Leads(x) /\ toPeer' = Append(toPeer, x)
    \/ \E u \in Uses : Greet(u) \/ PumpsOut(u) \/ UpstreamSends(u)
    \/ PeerTakes
    \/ toPeer' = <<>> /\ chan' # "open" /\ UNCHANGED unread

(* No step does anything else to the line to the peer. *)
LEMMA PeerLineIs ==
    ASSUME RelayInv, ChannelNext \/ WireSteps
    PROVE  PeerLine
  <1>0. \A t \in {"error", "ws_close"} : Plain(t) \in Wires /\ ~IsData(Plain(t)) /\ ~Leads(Plain(t))
    BY WireFrames DEF Closings, IsData, Leads
  <1>1. ASSUME UNCHANGED <<toPeer, unread>> /\ (PeerQuiet \/ chan' # "open") PROVE PeerLine
    BY <1>1 DEF PeerLine
  <1>2. ASSUME NEW t \in {"error", "ws_close"}, UNCHANGED unread, PeerQuiet,
               toPeer' = toPeer \/ toPeer' = Append(toPeer, Plain(t))
        PROVE  PeerLine
    BY <1>0, <1>2 DEF PeerLine
  <1>3. CASE ReceiveSteps
    <2>1. ASSUME RxReports("error") PROVE toPeer' = toPeer \/ toPeer' = Append(toPeer, Plain("error"))
      BY <2>1 DEF RxReports
    <2>2. ASSUME (\E full \in BOOLEAN : RxWsConnect(full)) \/ RxWsFrame PROVE PeerLine
      <3>1. UNCHANGED unread /\ PeerQuiet /\ (UNCHANGED toPeer \/ RxReports("error"))
        BY <2>2 DEF RxWsConnect, RxWsFrame, Overflow, Evict, task, chanPeer, ends, PeerQuiet
      <3>2. QED
        BY <1>2, <2>1, <3>1
    <2>3. ASSUME RxWsStray \/ RxWsError PROVE PeerLine
      BY <1>1, <2>3 DEF RxWsStray, RxWsError, Evict, task, chanPeer, ends, PeerQuiet
    <2>4. ASSUME RxWsUnknown PROVE PeerLine
      BY <2>4 DEF RxWsUnknown, task, PeerLine
    <2>5. QED
      BY <1>3, <2>2, <2>3, <2>4 DEF ReceiveSteps
  <1>4. ASSUME NEW u \in Uses, HandlerSteps(u) PROVE PeerLine
    <2>1. CASE Farewell(u)
      <3>1. UNCHANGED unread /\ PeerQuiet /\ \E t \in {"error", "ws_close"} : toPeer' = Append(toPeer, Plain(t))
        BY <2>1 DEF Farewell, Finally, chanPeer, ends, PeerQuiet
      <3>2. QED
        BY <1>2, <3>1
    <2>2. CASE (\E ok \in BOOLEAN : Dial(u, ok)) \/ FirstDone(u) \/ CancelEnds(u)
      BY <1>1, <2>2 DEF Dial, FirstDone, CancelEnds, Finally, chanPeer, ends, PeerQuiet
    <2>3. QED
      BY <1>4, <2>1, <2>2 DEF HandlerSteps, PeerLine
  <1>5. ASSUME \/ \E u \in Uses : OutEnds(u) \/ PumpsIn(u) \/ \E how \in {"closed", "broken"} : UpstreamEnds(u, how)
               \/ Forget \/ PeerSends \/ UNCHANGED channel
        PROVE  PeerLine
    BY <1>1, <1>5 DEF OutEnds, PumpsIn, UpstreamEnds, Forget, PeerSends, channel, task, chanPeer, ends, PeerQuiet
  <1>6. ASSUME PeerConnects \/ \E t \in {"ws_close", "error"} : PeerEnds(t) PROVE PeerLine
    BY <1>1, <1>6 DEF PeerConnects, PeerEnds, task
  <1>7. ASSUME ChannelLose PROVE PeerLine
    BY <1>7 DEF ChannelLose, task, PeerLine
  <1>8. ASSUME ChannelLeave PROVE PeerLine
    BY <1>1, <1>8 DEF ChannelLeave, Finally, chanPeer, ends, PeerQuiet
  <1>9. QED
    BY <1>3, <1>4, <1>5, <1>6, <1>7, <1>8 DEF ChannelNext, WireSteps, PeerLine

(* An upstream is there once it has been dialled. *)
LEMMA UpstreamKept ==
    ASSUME RelayInv, ChannelNext \/ WireSteps, NEW u \in Uses, upstream[u] = "none"
    PROVE  upstream'[u] = "none" \/ Served(u)
  <1>0. \A us \in SUBSET Uses : upstream' = Closed(us) => upstream'[u] = "none"
    BY DEF Closed
  <1>1. UNCHANGED upstream => upstream'[u] = "none"
    OBVIOUS
  <1>2. ASSUME NEW v \in Uses, HandlerSteps(v) PROVE upstream'[u] = "none" \/ Served(u)
    <2>1. ASSUME NEW ok \in BOOLEAN, Dial(v, ok) PROVE upstream'[u] = "none" \/ Served(u)
      <3>1. CASE u = v
        BY <2>1, <3>1 DEF Dial, At, Served
      <3>2. CASE u # v
        BY <2>1, <3>2 DEF Dial, RelayInv, RelayTypes
      <3>3. QED
        BY <3>1, <3>2
    <2>2. {v} \in SUBSET Uses
      OBVIOUS
    <2>3. QED
      BY <1>0, <1>2, <2>1, <2>2 DEF HandlerSteps, Greet, FirstDone, Farewell, CancelEnds, Finally
  <1>3. ASSUME NEW v \in Uses, PumpsIn(v) \/ \E how \in {"closed", "broken"} : UpstreamEnds(v, how)
        PROVE  upstream'[u] = "none"
    <2>1. UNCHANGED upstream \/ (upstream[v] = "open" /\ \E how : upstream' = [upstream EXCEPT ![v] = how])
      BY <1>3 DEF PumpsIn, UpstreamEnds
    <2>2. QED
      BY <2>1 DEF RelayInv, RelayTypes
  <1>4. ASSUME ChannelLeave PROVE upstream'[u] = "none"
    BY <1>0, <1>4 DEF ChannelLeave, Finally
  <1>5. ASSUME \/ ReceiveSteps \/ Forget \/ PeerConnects \/ PeerSends \/ PeerTakes
               \/ \E v \in Uses : PumpsOut(v) \/ OutEnds(v) \/ UpstreamSends(v)
               \/ \E t \in {"ws_close", "error"} : PeerEnds(t)
               \/ ChannelLose \/ UNCHANGED channel
        PROVE  UNCHANGED upstream
    BY <1>5 DEF ReceiveSteps, RxWsConnect, RxWsFrame, RxWsStray, RxWsUnknown, RxWsError, Forget, PeerConnects,
                PeerSends, PeerTakes, PumpsOut, OutEnds, UpstreamSends, PeerEnds, ChannelLose, channel
  <1>6. QED
    BY <1>1, <1>2, <1>3, <1>4, <1>5 DEF ChannelNext, WireSteps

(* OutContent is kept. *)
OwnPart(x, u, msgs) == IsData(x) /\ PartOf(x.frame, u, msgs)

(* from_upstream has only frames of its own upstream to send. *)
LEMMA UnreadContent ==
    ASSUME RelayInv, ChannelInv, ChannelNext \/ WireSteps, NEW u \in Uses
    PROVE  /\ \A i \in 1 .. Len(unread'[u]) : OwnPart(unread'[u][i], u, upstreamSent'[u])
           /\ unread'[u] # unread[u] => Served(u)
  <1>0. unread \in [Uses -> Seq(Wires)] /\ upstreamSent \in [Uses -> Seq(Messages)] /\ unread[u] \in Seq(Wires)
    BY Typed
  <1>1. \A i \in 1 .. Len(unread[u]) : OwnPart(unread[u][i], u, upstreamSent'[u])
    BY SentStays DEF RelayInv, OutContent, OwnPart
  <1>2. CASE unread'[u] = unread[u]
    BY <1>1, <1>2
  <1>3. CASE PumpsOut(u)
    <2>1. unread[u] # <<>> /\ unread'[u] = Tail(unread[u])
      BY <1>0, <1>3 DEF PumpsOut
    <2>2. /\ Len(unread'[u]) = Len(unread[u]) - 1
          /\ \A i \in 1 .. Len(unread[u]) - 1 : unread'[u][i] = unread[u][i + 1] /\ i + 1 \in 1 .. Len(unread[u])
      BY <1>0, <2>1, LineSteps
    <2>3. Served(u)
      BY <2>1 DEF RelayInv, OutContent
    <2>4. QED
      BY <1>1, <2>2, <2>3
  <1>4. CASE UpstreamSends(u)
    <2> DEFINE k == Len(upstreamSent[u]) + 1
    <2>1. PICK n \in 1 .. 2 :
             /\ k \in Nat \ {0}
             /\ unread' = [unread EXCEPT ![u] = @ \o Carried(Message(u, k, n))]
             /\ upstreamSent' = [upstreamSent EXCEPT ![u] = Append(@, Message(u, k, n))]
      BY <1>4, SentIs
    <2>2. upstreamSent'[u] = Append(upstreamSent[u], Message(u, k, n)) /\ upstreamSent[u] \in Seq(Messages)
      BY <1>0, <2>1
    <2>3. \A i \in 1 .. n : PartOf([use |-> u, no |-> k, part |-> i, of |-> n], u, upstreamSent'[u])
      BY <2>1, <2>2, Parts
    <2> DEFINE line == Carried(Message(u, k, n))
    <2>4. /\ line \in Seq(Wires) /\ Len(line) = n
          /\ \A i \in 1 .. n : IsData(line[i]) /\ line[i].frame = [use |-> u, no |-> k, part |-> i, of |-> n]
      <3>1. /\ line \in Seq(Wires) /\ Len(line) = n
            /\ \A i \in 1 .. n : IsData(line[i]) /\ line[i] = Data([use |-> u, no |-> k, part |-> i, of |-> n])
        <4> HIDE DEF k
        <4>1. QED
          BY <2>1, Carries
      <3>2. \A f : Data(f).frame = f
        BY DEF Data
      <3>3. QED
        BY <3>1, <3>2
    <2>5. unread'[u] = unread[u] \o line
      BY <1>0, <2>1
    <2>9. Served(u)
      BY <1>4 DEF UpstreamSends, RelayInv, OutContent
    <2> HIDE DEF line, k
    <2>6. /\ Len(unread'[u]) = Len(unread[u]) + n /\ Len(unread[u]) \in Nat
          /\ \A i \in 1 .. Len(unread[u]) : unread'[u][i] = unread[u][i]
          /\ \A i \in Len(unread[u]) + 1 .. Len(unread[u]) + n : unread'[u][i] = line[i - Len(unread[u])]
      BY <1>0, <2>4, <2>5, Joins
    <2>7. \A i \in Len(unread[u]) + 1 .. Len(unread[u]) + n : OwnPart(unread'[u][i], u, upstreamSent'[u])
      <3>1. \A i \in Len(unread[u]) + 1 .. Len(unread[u]) + n : i - Len(unread[u]) \in 1 .. n
        BY <2>6
      <3>2. QED
        BY <2>3, <2>4, <2>6, <3>1 DEF OwnPart
    <2>8. \A i \in 1 .. Len(unread'[u]) : i \in 1 .. Len(unread[u]) \/ i \in Len(unread[u]) + 1 .. Len(unread[u]) + n
      BY <2>6
    <2>10. QED
      BY <1>1, <2>6, <2>7, <2>8, <2>9
  <1>5. unread'[u] = unread[u] \/ PumpsOut(u) \/ UpstreamSends(u)
    <2>1. ASSUME NEW v \in Uses, v # u, PumpsOut(v) PROVE unread'[u] = unread[u]
      BY <1>0, <2>1 DEF PumpsOut
    <2>2. ASSUME NEW v \in Uses, v # u, UpstreamSends(v) PROVE unread'[u] = unread[u]
      BY <1>0, <2>2 DEF UpstreamSends
    <2>3. (\E v \in Uses : Greet(v)) \/ PeerTakes => UNCHANGED unread
      BY DEF Greet, PeerTakes, task
    <2>4. QED
      BY <2>1, <2>2, <2>3, PeerLineIs DEF PeerLine
  <1>6. QED
    BY <1>2, <1>3, <1>4, <1>5

(* Data on its way to the peer comes from a use that has greeted. *)
LEMMA ToPeerContent ==
    ASSUME RelayInv, ChannelInv, ChannelNext \/ WireSteps
    PROVE  \A i \in 1 .. Len(toPeer') : IsData(toPeer'[i]) =>
              LET f == toPeer'[i].frame
              IN handler'[f.use] \notin {"none", "dial", "greet"} /\ PartOf(f, f.use, upstreamSent'[f.use])
  <1> DEFINE Part(x) == /\ handler'[x.frame.use] \notin {"none", "dial", "greet"}
                    /\ PartOf(x.frame, x.frame.use, upstreamSent'[x.frame.use])
  <1>0. toPeer \in Seq(Wires) /\ unread \in [Uses -> Seq(Wires)] /\ Len(toPeer) \in Nat
    BY Typed
  <1>1. \A i \in 1 .. Len(toPeer) : IsData(toPeer[i]) => Part(toPeer[i])
    <2>1. SUFFICES ASSUME NEW i \in 1 .. Len(toPeer), IsData(toPeer[i]) PROVE Part(toPeer[i])
      OBVIOUS
    <2>2. toPeer[i].frame.use \in Uses
      <3>1. toPeer[i] \in Wires
        BY <1>0
      <3>2. QED
        BY <2>1, <3>1, WireFrames DEF Pieces
    <2>3. Greeted(toPeer[i].frame.use)
          /\ PartOf(toPeer[i].frame, toPeer[i].frame.use, upstreamSent[toPeer[i].frame.use])
      BY <2>1 DEF RelayInv, OutContent
    <2>4. QED
      BY <2>2, <2>3, SentStays DEF Greeted
  <1> SUFFICES \A i \in 1 .. Len(toPeer') : IsData(toPeer'[i]) => Part(toPeer'[i])
    OBVIOUS
  <1>2. ASSUME NEW u \in Uses, PumpsOut(u)
        PROVE  toPeer' = Append(toPeer, unread[u][1]) /\ unread[u][1] \in Wires /\ Part(unread[u][1])
    <2>1. /\ unread[u] # <<>> /\ "out" \in pumps[u] /\ toPeer' = Append(toPeer, unread[u][1])
          /\ unread[u][1] \in Wires /\ 1 \in 1 .. Len(unread[u])
      BY <1>0, <1>2, LineSteps DEF PumpsOut, Pumps
    <2>2. PartOf(unread[u][1].frame, u, upstreamSent[u]) /\ Greeted(u)
      BY <2>1 DEF RelayInv, OutContent, InContent
    <2>3. unread[u][1].frame.use = u
      <3>1. unread[u][1].frame = [use |-> u, no |-> unread[u][1].frame.no, part |-> unread[u][1].frame.part,
                                  of |-> unread[u][1].frame.of]
        BY <2>2 DEF PartOf
      <3>2. QED
        BY <3>1
    <2>4. QED
      BY <2>1, <2>2, <2>3, SentStays DEF Greeted
  <1> HIDE DEF Part
  <1>3. CASE UNCHANGED toPeer
    BY <1>1, <1>3
  <1>4. ASSUME NEW x \in Wires, ~IsData(x) \/ Part(x), toPeer' = Append(toPeer, x)
        PROVE  \A i \in 1 .. Len(toPeer') : IsData(toPeer'[i]) => Part(toPeer'[i])
    <2>1. /\ Len(toPeer') = Len(toPeer) + 1 /\ toPeer'[Len(toPeer) + 1] = x
          /\ \A i \in 1 .. Len(toPeer) : toPeer'[i] = toPeer[i]
      BY <1>0, <1>4, LineSteps
    <2>2. \A i \in 1 .. Len(toPeer') : i \in 1 .. Len(toPeer) \/ i = Len(toPeer) + 1
      BY <1>0, <2>1
    <2>3. QED
      BY <1>1, <1>4, <2>1, <2>2
  <1>5. CASE PeerTakes
    <2>1. /\ Len(toPeer') = Len(toPeer) - 1
          /\ \A i \in 1 .. Len(toPeer) - 1 : toPeer'[i] = toPeer[i + 1] /\ i + 1 \in 1 .. Len(toPeer)
      BY <1>0, <1>5, LineSteps DEF PeerTakes
    <2>2. QED
      BY <1>1, <2>1
  <1>6. CASE toPeer' = <<>>
    BY <1>6
  <1>7. ASSUME NEW u \in Uses, Greet(u)
        PROVE  \E x \in Wires : ~IsData(x) /\ toPeer' = Append(toPeer, x)
    BY <1>7, WireFrames DEF Greet, Closings, IsData
  <1>8. ASSUME NEW u \in Uses, UpstreamSends(u) PROVE UNCHANGED toPeer
    BY <1>8 DEF UpstreamSends
  <1>9. QED
    BY <1>2, <1>3, <1>4, <1>5, <1>6, <1>7, <1>8, PeerLineIs DEF PeerLine

(* OutContent is kept. *)
LEMMA OutContentStep ==
    ASSUME RelayInv, ChannelInv, ChannelNext \/ WireSteps
    PROVE  OutContent'
  <1>1. ASSUME NEW u \in Uses, ~Served(u)'
        PROVE  upstream'[u] = "none" /\ unread'[u] = <<>> /\ upstreamSent'[u] = <<>>
    <2>1. ~Served(u)
      BY <1>1, SentStays
    <2>2. upstream[u] = "none" /\ unread[u] = <<>> /\ upstreamSent[u] = <<>>
      BY <2>1 DEF RelayInv, OutContent
    <2>3. upstreamSent'[u] = upstreamSent[u]
      BY <2>2, SentStays DEF UpstreamSends
    <2>4. QED
      BY <2>1, <2>2, <2>3, UpstreamKept, UnreadContent
  <1>2. QED
    BY <1>1, ToPeerContent, UnreadContent DEF OutContent, OwnPart, Greeted

(* A frame put behind a line is a line of one frame put behind it. *)
LEMMA Behind ==
    ASSUME NEW S, NEW s \in Seq(S), NEW x \in S
    PROVE  <<x>> \in Seq(S) /\ Len(<<x>>) = 1 /\ <<x>>[1] = x /\ Append(s, x) = s \o <<x>>
  <1>1. <<x>> \in Seq(S) /\ Len(<<x>>) = 1 /\ <<x>>[1] = x /\ Len(s) \in Nat
    OBVIOUS
  <1>2. /\ Append(s, x) \in Seq(S) /\ Len(Append(s, x)) = Len(s) + 1 /\ Append(s, x)[Len(s) + 1] = x
        /\ \A i \in 1 .. Len(s) : Append(s, x)[i] = s[i]
    OBVIOUS
  <1> DEFINE t == <<x>>
  <1>3. t \in Seq(S) /\ Len(t) = 1 /\ t[1] = x
    BY <1>1
  <1> HIDE DEF t
  <1>4. /\ s \o t \in Seq(S) /\ Len(s \o t) = Len(s) + 1 /\ (s \o t)[Len(s) + 1] = x
        /\ \A i \in 1 .. Len(s) : (s \o t)[i] = s[i]
    <2>1. /\ s \o t \in Seq(S) /\ Len(s \o t) = Len(s) + 1
          /\ \A i \in 1 .. Len(s) : (s \o t)[i] = s[i]
          /\ \A i \in Len(s) + 1 .. Len(s) + 1 : (s \o t)[i] = t[i - Len(s)]
      BY <1>3, Joins
    <2>2. Len(s) + 1 \in Len(s) + 1 .. Len(s) + 1 /\ (Len(s) + 1) - Len(s) = 1
      BY <1>1
    <2>3. QED
      BY <1>3, <2>1, <2>2
  <1>5. \A i \in 1 .. Len(s) + 1 : i \in 1 .. Len(s) \/ i = Len(s) + 1
    BY <1>1
  <1>6. Append(s, x) = s \o t
    BY <1>2, <1>4, <1>5, SameSequence
  <1>7. QED
    BY <1>1, <1>6 DEF t

(* What a step makes of the line from the peer to a use, but for the frame *)
(* that from_sandbox takes.                                                *)
InKept(u) ==
    /\ InLine(u)' = InLine(u)
    /\ registered' = u /\ Live' => registered = u /\ Live /\ peerSent'[u] = peerSent[u]
InCut(u) ==
    /\ ~(registered' = u /\ Live')
    /\ \E s, t \in Seq(Wires) : \E n \in 0 .. Len(t) :
          InLine(u) = s \o t /\ InLine(u)' = s \o SubSeq(t, 1, n)
InSent(u) ==
    /\ PeerSends /\ registered = u /\ registered' = u /\ u = use
    /\ UNCHANGED queue
InEnded(u) ==
    /\ ~Live'
    /\ \E x \in Wires : ~IsData(x) /\ ~Leads(x) /\ InLine(u)' = Append(InLine(u), x)

(* The line to a use after a step. *)
LEMMA InLineNext ==
    ASSUME RelayInv, ChannelNext \/ WireSteps, NEW u \in Uses
    PROVE  /\ InLine(u)' \in Seq(Wires) /\ queue'[u] \in Seq(Wires)
           /\ registered' = u => InLine(u)' = queue'[u] \o toClient'
           /\ registered' # u => InLine(u)' = queue'[u]
  <1>1. queue'[u] \in Seq(Wires) /\ toClient' \in Seq(Wires) /\ <<>> \in Seq(Wires)
    BY FrameTypesStep
  <1>2. registered' = u => InLine(u)' = queue'[u] \o toClient'
    BY DEF InLine
  <1>3. registered' # u => InLine(u)' = queue'[u]
    BY <1>1 DEF InLine
  <1>4. InLine(u)' \in Seq(Wires)
    BY <1>1, <1>2, <1>3, Joins
  <1>5. QED
    BY <1>1, <1>2, <1>3, <1>4

(* Without from_sandbox, the line to a use is kept, cut or goes on. *)
LEMMA InLineIs ==
    ASSUME RelayInv, ChannelInv, ChannelNext \/ WireSteps, NEW u \in Uses, ~PumpsIn(u)
    PROVE  InKept(u) \/ InCut(u) \/ InSent(u) \/ InEnded(u) \/ (Accepts /\ registered' = u)
  <1>0. /\ toClient \in Seq(Wires) /\ queue \in [Uses -> Seq(Wires)] /\ queue[u] \in Seq(Wires) /\ <<>> \in Seq(Wires)
        /\ u # 0 /\ registered \in {0} \cup Uses /\ InLine(u) \in Seq(Wires) /\ Len(toClient) \in Nat
        /\ registered = u => InLine(u) = queue[u] \o toClient
        /\ registered # u => InLine(u) = queue[u]
    BY Typed, UsesAreNumbers, InLineParts
  <1>00. /\ registered' = u => InLine(u)' = queue'[u] \o toClient'
         /\ registered' # u => InLine(u)' = queue'[u]
    BY InLineNext
  <1>1. ASSUME queue'[u] = queue[u], registered # u, registered' # u PROVE InKept(u)
    BY <1>0, <1>00, <1>1 DEF InKept
  <1>2. ASSUME queue'[u] = queue[u], UNCHANGED <<registered, toClient>>, Live' => Live, peerSent'[u] = peerSent[u]
        PROVE  InKept(u)
    BY <1>0, <1>00, <1>2 DEF InKept
  <1>3. ASSUME queue'[u] = queue[u], registered = u, registered' # u PROVE InCut(u)
    <2>1. queue[u] \o SubSeq(toClient, 1, 0) = queue[u] /\ 0 \in 0 .. Len(toClient)
      BY <1>0, LineSteps, Joins
    <2>2. QED
      BY <1>0, <1>00, <1>3, <2>1 DEF InCut
  <1>4. ASSUME queue'[u] = <<>>, registered' # u PROVE InCut(u)
    <2>1. <<>> \o InLine(u) = InLine(u) /\ <<>> \o SubSeq(InLine(u), 1, 0) = <<>> /\ 0 \in 0 .. Len(InLine(u))
      BY <1>0, LineSteps, Joins
    <2>2. QED
      BY <1>0, <1>00, <1>4, <2>1 DEF InCut
  <1>5. ASSUME registered # 0, Evict, UNCHANGED queue PROVE InKept(u) \/ InCut(u)
    <2>1. registered' = 0
      BY <1>5 DEF Evict
    <2>2. QED
      BY <1>0, <1>1, <1>3, <1>5, <2>1
  <1>6. ASSUME ReceiveSteps, ~Accepts PROVE InKept(u) \/ InCut(u)
    <2>1. ASSUME NEW full \in BOOLEAN, RxWsConnect(full) PROVE InKept(u)
      <3>1. toClient # <<>> /\ toClient[1].type = "ws_connect" /\ 1 \in 1 .. Len(toClient)
        BY <1>0, <2>1, LineSteps DEF RxWsConnect, Takes
      <3>2. registered = 0
        BY <1>0, <3>1 DEF RelayInv, OneServed, Asks
      <3>3. CASE registered # 0 \/ terminated \/ full
        <4>1. UNCHANGED <<queue, registered>>
          BY <2>1, <3>3 DEF RxWsConnect, known, task
        <4>2. QED
          BY <1>0, <1>1, <3>2, <4>1
      <3>4. CASE ~(registered # 0 \/ terminated \/ full)
        <4>1. Head(toClient) = toClient[1]
          BY <1>0, <3>1, LineSteps
        <4>2. Accepts
          BY <2>1, <3>1, <3>4, <4>1 DEF RxWsConnect, Takes, Accepts
        <4>3. QED
          BY <1>6, <4>2
      <3>5. QED
        BY <3>3, <3>4
    <2>2. CASE RxWsFrame
      <3>1. toClient # <<>> /\ toClient' = Tail(toClient) /\ registered # 0 /\ UNCHANGED <<chan, peerSent>>
        BY <2>2 DEF RxWsFrame, Takes, chanPeer, ends
      <3>2. CASE Len(queue[registered]) = QueueLimit
        BY <1>5, <2>2, <3>1, <3>2 DEF RxWsFrame, Overflow
      <3>3. CASE Len(queue[registered]) # QueueLimit
        <4>1. queue' = [queue EXCEPT ![registered] = Append(@, Head(toClient))] /\ UNCHANGED registered
          BY <2>2, <3>3 DEF RxWsFrame, known
        <4>2. CASE registered = u
          <5>1. queue'[u] = Append(queue[u], Head(toClient))
            BY <1>0, <4>1, <4>2
          <5>2. Append(queue[u], Head(toClient)) \o Tail(toClient) = queue[u] \o toClient
            BY <1>0, <3>1, Shifts
          <5>3. InLine(u)' = InLine(u)
            BY <1>0, <1>00, <3>1, <4>1, <4>2, <5>1, <5>2
          <5>4. QED
            BY <3>1, <4>1, <5>3 DEF InKept, Live
        <4>3. CASE registered # u
          BY <1>0, <1>1, <4>1, <4>3
        <4>4. QED
          BY <4>2, <4>3
      <3>4. QED
        BY <3>2, <3>3
    <2>3. CASE RxWsStray \/ RxWsUnknown
      <3>1. registered = 0 /\ UNCHANGED <<queue, registered>>
        BY <2>3 DEF RxWsStray, RxWsUnknown, known, task
      <3>2. QED
        BY <1>0, <1>1, <3>1
    <2>4. CASE RxWsError
      <3>1. (registered = 0 /\ UNCHANGED <<queue, registered>>) \/ (registered # 0 /\ Evict /\ UNCHANGED queue)
        BY <2>4 DEF RxWsError, known, task
      <3>2. QED
        BY <1>0, <1>1, <1>5, <3>1
    <2>5. QED
      BY <1>6, <2>1, <2>2, <2>3, <2>4 DEF ReceiveSteps
  <1>7. ASSUME NEW us \in SUBSET Uses, Finally(us), u \in us PROVE InCut(u)
    <2>1. queue'[u] = <<>> /\ registered' # u
      BY <1>0, <1>7 DEF Finally
    <2>2. QED
      BY <1>4, <2>1
  <1>8. ASSUME NEW us \in SUBSET Uses, Finally(us), u \notin us, UNCHANGED <<chan, peerSent>>,
               UNCHANGED toClient \/ registered # u
        PROVE  InKept(u)
    <2>1. queue'[u] = queue[u] /\ (registered' = u <=> registered = u)
      BY <1>0, <1>8 DEF Finally
    <2>2. QED
      BY <1>1, <1>2, <1>8, <2>1 DEF Live
  <1>9. ASSUME NEW v \in Uses, HandlerSteps(v) PROVE InKept(u) \/ InCut(u)
    <2>1. CASE Farewell(v) \/ CancelEnds(v)
      <3>1. Finally({v}) /\ UNCHANGED <<chan, peerSent, toClient>> /\ {v} \in SUBSET Uses
        BY <2>1 DEF Farewell, CancelEnds, chanPeer, ends
      <3>2. QED
        BY <1>7, <1>8, <3>1
    <2>2. CASE (\E ok \in BOOLEAN : Dial(v, ok)) \/ Greet(v) \/ FirstDone(v)
      BY <1>2, <2>2 DEF Dial, Greet, FirstDone, known, chanPeer, ends, Live
    <2>3. QED
      BY <1>9, <2>1, <2>2 DEF HandlerSteps
  <1>10. ASSUME RxLeaves, ChannelLeave PROVE InKept(u) \/ InCut(u)
    <2> DEFINE us == {v \in Uses : handler[v] \notin {"none", "done"}}
    <2>1. us \in SUBSET Uses /\ Finally(us) /\ UNCHANGED <<chan, peerSent>>
      BY <1>10 DEF ChannelLeave, chanPeer, ends
    <2>2. u \notin us => registered # u
      BY <1>0 DEF RelayInv, OneServed, Rests
    <2> HIDE DEF us
    <2>3. QED
      BY <1>7, <1>8, <2>1, <2>2
  <1>11. ASSUME NEW v \in Uses, v # u, PumpsIn(v) PROVE InKept(u)
    <2>1. queue' = [queue EXCEPT ![v] = Tail(@)] /\ UNCHANGED <<registered, toClient, chan, peerSent>>
      BY <1>11, PumpsInIs DEF PumpsIn, known, chanPeer
    <2>2. queue'[u] = queue[u]
      BY <1>0, <1>11, <2>1
    <2>3. QED
      BY <1>2, <2>1, <2>2 DEF Live
  <1>12. ASSUME PeerConnects PROVE InKept(u)
    <2>1. registered = 0 /\ UNCHANGED <<queue, registered>>
      BY <1>12, Typed DEF PeerConnects, RelayInv, OneServed, known, task
    <2>2. QED
      BY <1>0, <1>1, <2>1
  <1>13. ASSUME PeerSends PROVE InKept(u) \/ InSent(u)
    <2>1. UNCHANGED <<queue, registered>>
      BY <1>13 DEF PeerSends, known, task
    <2>2. registered = u => u = use
      BY <1>0 DEF RelayInv, OneServed
    <2>3. QED
      BY <1>1, <1>13, <2>1, <2>2 DEF InSent
  <1>14. ASSUME NEW t \in {"ws_close", "error"}, PeerEnds(t) PROVE InKept(u) \/ InEnded(u)
    <2>1. /\ UNCHANGED <<queue, registered>> /\ ~Live' /\ toClient' = Append(toClient, Plain(t))
          /\ Plain(t) \in Wires /\ ~IsData(Plain(t)) /\ ~Leads(Plain(t))
      BY <1>14, WireFrames DEF PeerEnds, known, task, Live, Closings, IsData, Leads
    <2>2. CASE registered = u
      <3>0. \A s \in Seq(Wires) : \A x \in Wires : <<x>> \in Seq(Wires) /\ Append(s, x) = s \o <<x>>
        BY Behind
      <3>1. <<Plain(t)>> \in Seq(Wires) /\ Append(toClient, Plain(t)) = toClient \o <<Plain(t)>>
            /\ Append(InLine(u), Plain(t)) = InLine(u) \o <<Plain(t)>>
        <4>1. toClient \in Seq(Wires) /\ InLine(u) \in Seq(Wires) /\ Plain(t) \in Wires
          BY <1>0, <2>1
        <4>2. QED
          BY <3>0, <4>1
      <3>2. InLine(u)' = Append(InLine(u), Plain(t))
        <4>1. InLine(u)' = queue[u] \o (toClient \o <<Plain(t)>>) /\ InLine(u) = queue[u] \o toClient
          BY <1>0, <1>00, <2>1, <2>2, <3>1
        <4>2. \A r \in Seq(Wires) : (queue[u] \o toClient) \o r = queue[u] \o (toClient \o r)
          BY <1>0, Shifts
        <4>3. QED
          BY <3>1, <4>1, <4>2, Zenon
      <3>3. QED
        BY <2>1, <3>2 DEF InEnded
    <2>3. QED
      BY <1>1, <2>1, <2>2
  <1>15. ASSUME ChannelLose PROVE InKept(u) \/ InCut(u)
    <2>1. /\ UNCHANGED <<queue, registered>> /\ ~Live'
          /\ \E n \in 0 .. Len(toClient) : toClient' = SubSeq(toClient, 1, n)
      BY <1>15 DEF ChannelLose, known, task, Live, RelayInv, RelayTypes
    <2>2. CASE registered = u
      BY <1>0, <1>00, <2>1, <2>2 DEF InCut
    <2>3. QED
      BY <1>1, <2>1, <2>2
  <1>16. ASSUME \/ \E v \in Uses : \/ PumpsOut(v) \/ OutEnds(v) \/ UpstreamSends(v)
                                   \/ \E how \in {"closed", "broken"} : UpstreamEnds(v, how)
                \/ Forget \/ UNCHANGED channel
         PROVE  InKept(u)
    BY <1>2, <1>16 DEF PumpsOut, OutEnds, UpstreamSends, UpstreamEnds, Forget, channel, known, task, chanPeer, ends, Live
  <1>17. ASSUME PeerTakes PROVE InKept(u)
    <2>1. UNCHANGED <<queue, registered, toClient, peerSent>> /\ (Live' => Live)
      BY <1>17 DEF PeerTakes, known, task, Live
    <2>2. QED
      BY <1>2, <2>1
  <1>18. ASSUME Accepts, registered' # u PROVE InKept(u)
    BY <1>0, <1>1, <1>18 DEF Accepts
  <1>19. QED
    BY <1>6, <1>9, <1>10, <1>11, <1>12, <1>13, <1>14, <1>15, <1>16, <1>17, <1>18 DEF ChannelNext, WireSteps

(* A line that ends with a closing frame. *)
LEMMA Ended ==
    ASSUME NEW s \in Seq(Wires), NEW x \in Wires, ~IsData(x), InOrder(s)
    PROVE  /\ InOrder(Append(s, x)) /\ \A from : StartsAt(s, from) => StartsAt(Append(s, x), from)
           /\ ~Leads(x) => \A to : EndsAt(Append(s, x), to)
  <1>1. /\ Append(s, x) \in Seq(Wires) /\ Append(s, x) # <<>> /\ Len(s) \in Nat
        /\ Len(Append(s, x)) = Len(s) + 1 /\ Append(s, x)[Len(s) + 1] = x
        /\ \A i \in 1 .. Len(s) : Append(s, x)[i] = s[i]
        /\ s = <<>> <=> Len(s) = 0
    BY LineSteps
  <1>2. InOrder(Append(s, x))
    <2> SUFFICES ASSUME NEW i \in 1 .. Len(s) PROVE Fits(Append(s, x)[i], Append(s, x)[i + 1])
      BY <1>1 DEF InOrder
    <2>1. CASE i < Len(s)
      <3>1. i \in 1 .. Len(s) - 1 /\ Append(s, x)[i] = s[i] /\ Append(s, x)[i + 1] = s[i + 1]
        BY <1>1, <2>1
      <3>2. QED
        BY <3>1 DEF InOrder
    <2>2. CASE i = Len(s)
      BY <1>1, <2>2 DEF Fits
    <2>3. QED
      BY <1>1, <2>1, <2>2
  <1>3. \A from : StartsAt(s, from) => StartsAt(Append(s, x), from)
    <2>1. (s # <<>> => Append(s, x)[1] = s[1]) /\ (s = <<>> => Append(s, x)[1] = x)
      BY <1>1
    <2>2. QED
      BY <2>1 DEF StartsAt
  <1>4. ~Leads(x) => \A to : EndsAt(Append(s, x), to)
    BY <1>1 DEF EndsAt
  <1>5. QED
    BY <1>2, <1>3, <1>4

(* What the peer adds to its line. *)
LEMMA SentFits ==
    ASSUME RelayInv, PeerSends
    PROVE  \E line \in Seq(Wires) :
              /\ use \in Uses /\ toClient' = toClient \o line /\ line # <<>> /\ InOrder(line)
              /\ Spans(line, NextOf(peerSent[use]), NextOf(peerSent'[use]))
              /\ EndsAt(line, NextOf(peerSent'[use]))
  <1> DEFINE k == Len(peerSent[use]) + 1
  <1>1. PICK n \in 1 .. 2 :
           /\ use \in Uses /\ k \in Nat \ {0}
           /\ toClient' = toClient \o Carried(Message(use, k, n))
           /\ peerSent' = [peerSent EXCEPT ![use] = Append(@, Message(use, k, n))]
    BY SentIs
  <1>2. peerSent'[use] = Append(peerSent[use], Message(use, k, n)) /\ peerSent[use] \in Seq(Messages)
    BY <1>1, Typed
  <1>3. NextOf(peerSent[use]) = <<k, 1>> /\ NextOf(peerSent'[use]) = <<Len(peerSent[use]) + 2, 1>>
    BY <1>2, Parts DEF NextOf
  <1>4. Len(peerSent[use]) + 2 = k + 1
    BY <1>2
  <1> HIDE DEF k
  <1>5. LET line == Carried(Message(use, k, n))
        IN /\ line \in Seq(Wires) /\ line # <<>> /\ InOrder(line)
           /\ Spans(line, <<k, 1>>, <<k + 1, 1>>) /\ EndsAt(line, <<k + 1, 1>>)
    BY <1>1, Carries
  <1>6. QED
    BY <1>1, <1>3, <1>4, <1>5

(* What an upstream sends follows what it sent before. *)
LEMMA UpstreamFits ==
    ASSUME RelayInv, NEW u \in Uses, UpstreamSends(u)
    PROVE  \E line \in Seq(Wires) :
              /\ unread' = [unread EXCEPT ![u] = @ \o line] /\ line # <<>> /\ InOrder(line)
              /\ Spans(line, NextOf(upstreamSent[u]), NextOf(upstreamSent'[u]))
              /\ EndsAt(line, NextOf(upstreamSent'[u]))
  <1> DEFINE k == Len(upstreamSent[u]) + 1
  <1>1. PICK n \in 1 .. 2 :
           /\ k \in Nat \ {0}
           /\ unread' = [unread EXCEPT ![u] = @ \o Carried(Message(u, k, n))]
           /\ upstreamSent' = [upstreamSent EXCEPT ![u] = Append(@, Message(u, k, n))]
    BY SentIs
  <1>2. upstreamSent'[u] = Append(upstreamSent[u], Message(u, k, n)) /\ upstreamSent[u] \in Seq(Messages)
    BY <1>1, Typed
  <1>3. NextOf(upstreamSent[u]) = <<k, 1>> /\ NextOf(upstreamSent'[u]) = <<Len(upstreamSent[u]) + 2, 1>>
    BY <1>2, Parts DEF NextOf
  <1>4. Len(upstreamSent[u]) + 2 = k + 1
    BY <1>2
  <1> HIDE DEF k
  <1>5. LET line == Carried(Message(u, k, n))
        IN /\ line \in Seq(Wires) /\ line # <<>> /\ InOrder(line)
           /\ Spans(line, <<k, 1>>, <<k + 1, 1>>) /\ EndsAt(line, <<k + 1, 1>>)
    BY <1>1, Carries
  <1>6. QED
    BY <1>1, <1>3, <1>4, <1>5

(* When a use greets, nothing was sent to it yet. *)
LEMMA GreetsFirst ==
    ASSUME RelayInv, NEW u \in Uses, ~Greeted(u)
    PROVE  /\ peerSent[u] = <<>> /\ upstreamGot[u] = <<>> /\ partIn[u] = <<>> /\ pumps[u] = {}
           /\ ~Rests(u) => \A from : StartsAt(InLine(u), from)
  <1>1. peerSent[u] = <<>> /\ upstreamGot[u] = <<>> /\ partIn[u] = <<>> /\ pumps[u] = {}
    BY DEF RelayInv, InContent
  <1>2. \A f : ~PartOf(f, u, peerSent[u])
    BY <1>1 DEF PartOf
  <1>3. queue[u] # <<>> => ~IsData(queue[u][1])
    <2>1. queue[u] # <<>> => 1 \in 1 .. Len(queue[u])
      BY Typed, LineSteps
    <2>2. QED
      BY <1>2, <2>1 DEF RelayInv, InContent
  <1>4. ~Rests(u) => (toClient # <<>> => ~IsData(toClient[1]))
    <2>1. ~Rests(u) => u = use
      BY DEF RelayInv, OneServed
    <2>2. toClient # <<>> => 1 \in 1 .. Len(toClient)
      BY Typed, LineSteps
    <2>3. QED
      BY <1>2, <2>1, <2>2 DEF RelayInv, InContent
  <1>5. InLine(u) # <<>> => \/ queue[u] # <<>> /\ InLine(u)[1] = queue[u][1]
                            \/ toClient # <<>> /\ InLine(u)[1] = toClient[1]
    <2>1. queue[u] = <<>> /\ registered = u => InLine(u) = toClient
      <3>1. toClient \in Seq(Wires) /\ <<>> \o toClient = toClient
        BY Typed, Joins
      <3>2. registered = u => InLine(u) = queue[u] \o toClient
        BY InLineParts
      <3>3. QED
        BY <3>1, <3>2
    <2>2. QED
      BY <2>1, InLineParts
  <1>6. QED
    BY <1>1, <1>3, <1>4, <1>5 DEF StartsAt

(* The line from the peer to a use stays in order. *)
LEMMA LineInStep ==
    ASSUME RelayInv, ChannelInv, ChannelNext \/ WireSteps, NEW u \in Uses
    PROVE  LineIn(u)'
  <1> DEFINE l == InLine(u)
             m == InLine(u)'
             from == Wanted(upstreamGot[u], partIn[u])
             fromNow == Wanted(upstreamGot'[u], partIn'[u])
             to == NextOf(peerSent[u])
             toNow == NextOf(peerSent'[u])
  <1>0. /\ l \in Seq(Wires) /\ m \in Seq(Wires) /\ InOrder(l)
        /\ "in" \in pumps[u] => StartsAt(l, from)
        /\ registered = u /\ Live => EndsAt(l, to) /\ ("in" \in pumps[u] => Spans(l, from, to))
    BY InLineParts, InLineNext DEF RelayInv, InInOrder, LineIn
  <1> SUFFICES /\ InOrder(m)
               /\ "in" \in pumps'[u] => StartsAt(m, fromNow)
               /\ registered' = u /\ Live' => EndsAt(m, toNow) /\ ("in" \in pumps'[u] => Spans(m, fromNow, toNow))
    BY DEF LineIn
  <1>1. CASE Greet(u)
    <2>1. ~Greeted(u) /\ ~Rests(u) /\ UNCHANGED <<queue, registered, toClient, chan, peerSent, upstreamGot, partIn>>
      BY <1>1 DEF Greet, At, Greeted, Rests, known, chanPeer, ends
    <2>2. m = l
      BY <2>1 DEF InLine
    <2>3. StartsAt(l, fromNow)
      BY <2>1, GreetsFirst
    <2>4. fromNow = <<1, 1>> /\ toNow = <<1, 1>>
      BY <2>1, GreetsFirst DEF Wanted, NextOf
    <2>5. registered' = u /\ Live' => EndsAt(m, toNow)
      BY <1>0, <2>1, <2>2 DEF Live
    <2> HIDE DEF l, m, fromNow, toNow
    <2>6. QED
      BY <1>0, <2>2, <2>3, <2>4, <2>5 DEF Spans
  <1>2. CASE PumpsIn(u)
    <2>1. /\ queue[u] # <<>> /\ "in" \in pumps[u] /\ queue'[u] = Tail(queue[u])
          /\ UNCHANGED <<registered, toClient, chan, peerSent>>
          /\ pumps'[u] \subseteq pumps[u] /\ (InTakes(u) \/ InDelivers(u))
      BY <1>2, PumpsInIs, Typed DEF PumpsIn, known, chanPeer
    <2>2. l # <<>> /\ l[1] = queue[u][1]
      BY <2>1, InLineParts
    <2>3. m = Tail(l)
      <3>1. CASE registered = u
        <4>1. Tail(queue[u]) \o toClient = Tail(queue[u] \o toClient)
          <5>1. queue[u] \in Seq(Wires) /\ toClient \in Seq(Wires) /\ queue[u] # <<>>
            BY <2>1, Typed
          <5>2. QED
            BY <5>1, Shifts
        <4>2. QED
          BY <2>1, <3>1, <4>1, InLineParts, InLineNext
      <3>2. CASE registered # u
        BY <2>1, <3>2, InLineParts, InLineNext
      <3>3. QED
        BY <3>1, <3>2
    <2>4. "in" \in pumps'[u] => Leads(l[1]) /\ After(l[1]) = fromNow
      <3>1. CASE InTakes(u)
        <4>1. PICK p \in Seq(Pieces) :
                 /\ partIn' = [partIn EXCEPT ![u] = p] /\ UNCHANGED upstreamGot
                 /\ "in" \in pumps'[u] => IsData(queue[u][1]) /\ After(queue[u][1]) = Wanted(upstreamGot[u], p)
          BY <3>1 DEF InTakes
        <4>2. partIn'[u] = p
          BY <4>1 DEF RelayInv, RelayTypes
        <4>3. QED
          BY <2>2, <4>1, <4>2 DEF Leads, IsData
      <3>2. CASE InDelivers(u)
        <4>1. partIn'[u] = <<>>
          BY <3>2 DEF InDelivers, RelayInv, RelayTypes
        <4>2. QED
          BY <2>2, <3>2, <4>1 DEF InDelivers, Leads, IsData
      <3>3. QED
        BY <2>1, <3>1, <3>2
    <2>5. /\ InOrder(Tail(l)) /\ \A t : EndsAt(l, t) => EndsAt(Tail(l), t)
          /\ Leads(l[1]) => StartsAt(Tail(l), After(l[1]))
          /\ \A t : Leads(l[1]) /\ EndsAt(l, t) => Spans(Tail(l), After(l[1]), t)
      <3> HIDE DEF l
      <3>1. QED
        BY <1>0, <2>2, TailOfLine
    <2>6. toNow = to /\ (registered' = u /\ Live' => EndsAt(l, to))
      BY <1>0, <2>1 DEF Live
    <2> HIDE DEF l, m, from, fromNow, to, toNow
    <2>7. QED
      BY <2>3, <2>4, <2>5, <2>6
  <1>3. CASE PumpsKeep(u) /\ ~PumpsIn(u)
    <2>1. "in" \in pumps'[u] => "in" \in pumps[u] /\ fromNow = from
      BY <1>3 DEF PumpsKeep
    <2>2. CASE InKept(u)
      <3>1. m = l /\ (registered' = u /\ Live' => registered = u /\ Live /\ toNow = to)
        BY <2>2 DEF InKept
      <3> HIDE DEF l, m, from, fromNow, to, toNow
      <3>2. QED
        BY <1>0, <2>1, <3>1
    <2>3. CASE InCut(u)
      <3>0. PICK s \in Seq(Wires), t \in Seq(Wires) : \E n \in 0 .. Len(t) : l = s \o t /\ m = s \o SubSeq(t, 1, n)
        BY <2>3 DEF InCut
      <3>1. PICK n \in 0 .. Len(t) : l = s \o t /\ m = s \o SubSeq(t, 1, n)
        BY <3>0
      <3>2. ~(registered' = u /\ Live')
        BY <2>3 DEF InCut
      <3> HIDE DEF l, m, from, fromNow, to, toNow
      <3>3. InOrder(m) /\ (StartsAt(l, from) => StartsAt(m, from))
        BY <1>0, <3>1, CutLine
      <3>4. QED
        BY <1>0, <2>1, <3>2, <3>3
    <2>4. CASE InSent(u)
      <3>1. PICK line \in Seq(Wires) :
               /\ toClient' = toClient \o line /\ line # <<>> /\ InOrder(line)
               /\ Spans(line, to, toNow) /\ EndsAt(line, toNow)
        BY <2>4, SentFits DEF InSent
      <3>2. m = l \o line
        <4>1. \A r \in Seq(Wires) : (queue[u] \o toClient) \o r = queue[u] \o (toClient \o r)
          <5>1. queue[u] \in Seq(Wires) /\ toClient \in Seq(Wires)
            BY Typed
          <5>2. ASSUME NEW s \in Seq(Wires), NEW t \in Seq(Wires)
                PROVE  \A r \in Seq(Wires) : (s \o t) \o r = s \o (t \o r)
            BY Shifts
          <5>3. QED
            BY <5>1, <5>2
        <4>2. m = queue[u] \o (toClient \o line) /\ l = queue[u] \o toClient
          BY <2>4, <3>1, InLineParts, InLineNext DEF InSent
        <4>3. QED
          BY <4>1, <4>2
      <3>3. registered = u /\ Live
        BY <2>4 DEF InSent, PeerSends, Live
      <3> HIDE DEF l, m, from, fromNow, to, toNow
      <3>4. InOrder(l \o line) /\ EndsAt(l \o line, toNow)
            /\ \A f : Spans(l, f, to) => Spans(l \o line, f, toNow)
        BY <1>0, <3>1, <3>3, Extends DEF Spans
      <3>5. \A f : Spans(m, f, toNow) => StartsAt(m, f)
        BY DEF Spans
      <3>6. QED
        BY <1>0, <2>1, <3>2, <3>3, <3>4, <3>5
    <2>5. CASE InEnded(u)
      <3>1. PICK x \in Wires : ~IsData(x) /\ ~Leads(x) /\ m = Append(l, x) /\ ~Live'
        BY <2>5 DEF InEnded
      <3> HIDE DEF l, m, from, fromNow, to, toNow
      <3>2. InOrder(m) /\ (StartsAt(l, from) => StartsAt(m, from))
        BY <1>0, <3>1, Ended
      <3>3. QED
        BY <1>0, <2>1, <3>1, <3>2
    <2>6. CASE Accepts /\ registered' = u
      <3>1. /\ u = use /\ ~Served(u) /\ UNCHANGED <<queue, chan, peerSent, pumps>>
            /\ toClient # <<>> /\ toClient' = Tail(toClient)
        BY <2>6, FirstServed DEF Accepts, chanPeer, ends
      <3>2. queue[u] = <<>> /\ pumps[u] = {}
        BY <3>1 DEF RelayInv, InContent, Served, Greeted
      <3>3. m = Tail(toClient)
        <4>1. m = queue'[u] \o toClient' /\ queue'[u] = <<>>
          BY <2>6, <3>1, <3>2, InLineNext
        <4>2. <<>> \o Tail(toClient) = Tail(toClient)
          BY <3>1, Typed, LineSteps, Joins
        <4>3. QED
          BY <3>1, <4>1, <4>2
      <3>4. InOrder(toClient) /\ (Live => EndsAt(toClient, toNow)) /\ (Live' => Live)
        BY <3>1 DEF RelayInv, InInOrder, Live
      <3>5. InOrder(Tail(toClient)) /\ (EndsAt(toClient, toNow) => EndsAt(Tail(toClient), toNow))
        BY <3>1, <3>4, Typed, TailOfLine
      <3>6. "in" \notin pumps'[u]
        BY <3>1, <3>2
      <3> HIDE DEF l, m, from, fromNow, to, toNow
      <3>7. QED
        BY <3>3, <3>4, <3>5, <3>6
    <2>7. QED
      BY <1>3, <2>2, <2>3, <2>4, <2>5, <2>6, InLineIs
  <1>4. QED
    BY <1>1, <1>2, <1>3, PumpsKept

(* A channel becomes live only when the peer asks for it. *)
LEMMA LiveIs ==
    ASSUME RelayInv, ChannelNext \/ WireSteps
    PROVE  Live' => (Live /\ UNCHANGED use) \/ PeerConnects
  <1>1. ASSUME \/ \E full \in BOOLEAN : RxWsConnect(full)
               \/ RxWsFrame \/ RxWsStray \/ RxWsError \/ ChannelLeave \/ UNCHANGED channel
               \/ Forget \/ PeerSends
               \/ \E u \in Uses : \/ HandlerSteps(u) \/ PumpsOut(u) \/ OutEnds(u) \/ PumpsIn(u) \/ UpstreamSends(u)
                                  \/ \E how \in {"closed", "broken"} : UpstreamEnds(u, how)
        PROVE  UNCHANGED <<chan, use>>
    BY <1>1 DEF RxWsConnect, RxWsFrame, RxWsStray, RxWsError, ChannelLeave, channel, Forget, PeerSends,
                HandlerSteps, Dial, Greet, FirstDone, Farewell, CancelEnds, PumpsOut, OutEnds, PumpsIn,
                UpstreamSends, UpstreamEnds, chanPeer
  <1>2. ASSUME RxWsUnknown \/ ChannelLose \/ PeerTakes \/ \E t \in {"ws_close", "error"} : PeerEnds(t)
        PROVE  UNCHANGED use /\ (Live' => Live)
    BY <1>2 DEF RxWsUnknown, ChannelLose, PeerTakes, PeerEnds, Live
  <1>3. QED
    BY <1>1, <1>2 DEF ChannelNext, ReceiveSteps, WireSteps, Live

(* InInOrder is kept. *)
LEMMA InInOrderStep ==
    ASSUME RelayInv, ChannelInv, ChannelNext \/ WireSteps
    PROVE  InInOrder'
  <1> DEFINE toNow == NextOf(peerSent'[use'])
  <1>0. /\ toClient \in Seq(Wires) /\ InOrder(toClient) /\ <<>> \in Seq(Wires)
        /\ Live => EndsAt(toClient, NextOf(peerSent[use]))
    BY Typed DEF RelayInv, InInOrder
  <1>1. InOrder(toClient') /\ (Live' => EndsAt(toClient', toNow))
    <2>1. CASE PeerSends
      <3>1. PICK line \in Seq(Wires) :
               /\ toClient' = toClient \o line /\ InOrder(line)
               /\ Spans(line, NextOf(peerSent[use]), NextOf(peerSent'[use]))
               /\ EndsAt(line, NextOf(peerSent'[use]))
        BY <2>1, SentFits
      <3>2. Live /\ UNCHANGED use
        BY <2>1 DEF PeerSends, Live, chanPeer
      <3>3. \A at, to : /\ EndsAt(toClient, at) /\ Spans(line, at, to) /\ EndsAt(line, to)
                        => InOrder(toClient \o line) /\ EndsAt(toClient \o line, to)
        BY <1>0, <3>1, Extends
      <3>4. QED
        BY <1>0, <3>1, <3>2, <3>3
    <2>2. CASE PeerConnects
      <3>1. toClient = <<>> /\ [type |-> "ws_connect", use |-> use + 1] \in Wires
        BY <2>2, WireFrames DEF PeerConnects, RelayInv, OneServed
      <3>2. PICK x \in Wires : x.type = "ws_connect" /\ toClient' = Append(toClient, x)
        BY <2>2, <3>1 DEF PeerConnects
      <3>3. QED
        BY <1>0, <3>2, Ended DEF IsData, Leads
    <2>3. CASE ~PeerSends /\ ~PeerConnects
      <3>1. Live' => Live /\ toNow = NextOf(peerSent[use])
        <4>1. Live' => Live /\ UNCHANGED use
          BY <2>3, LiveIs
        <4>2. Live => use \in Uses
          BY Typed DEF RelayInv, PeerKnows, Live
        <4>3. use \in Uses => peerSent'[use] = peerSent[use]
          BY <2>3, SentStays
        <4>4. QED
          BY <4>1, <4>2, <4>3
      <3> HIDE DEF toNow
      <3>2. CASE UNCHANGED toClient
        BY <1>0, <3>1, <3>2
      <3>3. CASE toClient # <<>> /\ toClient' = Tail(toClient)
        <4>1. InOrder(Tail(toClient)) /\ \A to : EndsAt(toClient, to) => EndsAt(Tail(toClient), to)
          BY <1>0, <3>3, TailOfLine
        <4>2. QED
          BY <1>0, <3>1, <3>3, <4>1
      <3>4. ASSUME ~Live', NEW n \in 0 .. Len(toClient), toClient' = SubSeq(toClient, 1, n)
            PROVE  InOrder(toClient') /\ (Live' => EndsAt(toClient', toNow))
        <4>1. <<>> \o toClient = toClient /\ SubSeq(toClient, 1, n) \in Seq(Wires)
              /\ <<>> \o SubSeq(toClient, 1, n) = SubSeq(toClient, 1, n)
          <5>1. SubSeq(toClient, 1, n) \in Seq(Wires)
            BY <1>0, LineSteps
          <5>2. QED
            BY <1>0, <5>1, Joins
        <4>2. ASSUME NEW s \in Seq(Wires), NEW t \in Seq(Wires), InOrder(s \o t), NEW k \in 0 .. Len(t)
              PROVE  InOrder(s \o SubSeq(t, 1, k))
          BY <4>2, CutLine
        <4>3. InOrder(<<>> \o SubSeq(toClient, 1, n))
          BY <1>0, <4>1, <4>2
        <4>4. QED
          BY <3>4, <4>1, <4>3
      <3>5. ASSUME ~Live', NEW x \in Wires, ~IsData(x), toClient' = Append(toClient, x)
            PROVE  InOrder(toClient') /\ (Live' => EndsAt(toClient', toNow))
        BY <1>0, <3>5, Ended
      <3>6. QED
        BY <2>3, <3>2, <3>3, <3>4, <3>5, ClientLineIs DEF ClientLine
    <2>4. QED
      BY <2>1, <2>2, <2>3
  <1>2. QED
    BY <1>1, LineInStep DEF InInOrder

(* Only a use that is served has a line to the peer. *)
LEMMA OutServed ==
    ASSUME RelayInv, NEW u \in Uses
    PROVE  /\ (PumpsOut(u) \/ UpstreamSends(u) \/ Greet(u)) => Served(u)
           /\ PumpsOut(u) => Greeted(u)
  <1>1. PumpsOut(u) => Greeted(u) /\ Served(u)
    BY DEF PumpsOut, Pumps, RelayInv, InContent, Greeted, Served
  <1>2. UpstreamSends(u) => Served(u)
    BY DEF UpstreamSends, RelayInv, OutContent
  <1>3. Greet(u) => Served(u)
    BY DEF Greet, At, Served
  <1>4. QED
    BY <1>1, <1>2, <1>3

(* The line to the peer of a use that was served. *)
LEMMA LineOutStep ==
    ASSUME RelayInv, ChannelInv, ChannelNext \/ WireSteps, NEW u \in Uses, Served(u)
    PROVE  LineOut(u)'
  <1> DEFINE l == OutLine(u)
             m == OutLine(u)'
             from == Wanted(peerGot[u], partOut)
             fromNow == Wanted(peerGot'[u], partOut')
             at == NextOf(upstreamSent[u])
             atNow == NextOf(upstreamSent'[u])
             Goal == /\ InOrder(m) /\ EndsAt(m, atNow)
                     /\ ~Greeted(u)' => Spans(unread'[u], <<1, 1>>, atNow)
                     /\ chan' = "open" => partOut' \in Begun(u, peerGot'[u]) /\ Spans(m, fromNow, atNow)
  <1>0. /\ toPeer \in Seq(Wires) /\ unread[u] \in Seq(Wires) /\ l = toPeer \o unread[u] /\ l \in Seq(Wires)
        /\ m = toPeer' \o unread'[u] /\ unread \in [Uses -> Seq(Wires)] /\ <<>> \in Seq(Wires)
    BY Typed, Joins DEF OutLine
  <1>1. /\ InOrder(l) /\ EndsAt(l, at)
        /\ ~Greeted(u) => Spans(unread[u], <<1, 1>>, at)
        /\ chan = "open" => partOut \in Begun(u, peerGot[u]) /\ Spans(l, from, at)
    BY DEF RelayInv, OutInOrder, LineOut
  <1>2. (Greeted(u) => Greeted(u)') /\ (upstreamSent'[u] = upstreamSent[u] \/ UpstreamSends(u))
    BY SentStays
  <1> SUFFICES Goal
    BY DEF LineOut
  <1>3. CASE UNCHANGED <<toPeer, unread>> /\ (PeerQuiet \/ chan' # "open") /\ ~UpstreamSends(u)
    <2>1. m = l /\ atNow = at
      BY <1>0, <1>2, <1>3
    <2>2. PeerQuiet => fromNow = from /\ partOut' = partOut /\ peerGot'[u] = peerGot[u] /\ chan' = chan
      BY DEF PeerQuiet
    <2>3. unread'[u] = unread[u]
      BY <1>3
    <2> HIDE DEF l, m, from, fromNow, at, atNow
    <2>4. QED
      BY <1>1, <1>2, <1>3, <2>1, <2>2, <2>3
  <1>4. ASSUME NEW x \in Wires, toPeer' = Append(toPeer, x), ~IsData(x), UNCHANGED unread, ~UpstreamSends(u), PeerQuiet,
               Leads(x) => Spans(unread[u], After(x), at)
        PROVE  Goal
    <2>1. m = Append(toPeer, x) \o unread[u] /\ atNow = at
      BY <1>0, <1>2, <1>4
    <2>2. fromNow = from /\ partOut' = partOut /\ peerGot'[u] = peerGot[u] /\ chan' = chan /\ unread'[u] = unread[u]
      BY <1>4 DEF PeerQuiet
    <2> HIDE DEF m, from, fromNow, at, atNow
    <2>3. /\ InOrder(m) /\ EndsAt(m, at)
          /\ \A f : StartsAt(l, f) => Spans(m, f, at)
      BY <1>0, <1>1, <1>4, <2>1, Inserts
    <2>4. chan = "open" => Spans(m, from, at)
      BY <1>1, <2>3 DEF Spans
    <2>5. QED
      BY <1>1, <1>2, <2>1, <2>2, <2>3, <2>4
  <1>5. CASE Greet(u)
    <2>1. ~Greeted(u) /\ toPeer' = Append(toPeer, Plain("ws_connected")) /\ UNCHANGED unread /\ PeerQuiet
          /\ UNCHANGED upstreamSent
      BY <1>5 DEF Greet, At, Greeted, chanPeer, ends, PeerQuiet
    <2>2. Plain("ws_connected") \in Wires /\ ~IsData(Plain("ws_connected")) /\ After(Plain("ws_connected")) = <<1, 1>>
      BY WireFrames DEF Closings, IsData, After
    <2>3. Spans(unread[u], After(Plain("ws_connected")), at)
      BY <1>1, <2>1, <2>2
    <2>4. ~UpstreamSends(u)
      <3>1. ASSUME UpstreamSends(u) PROVE FALSE
        <4>1. PICK line \in Seq(Wires) : unread' = [unread EXCEPT ![u] = @ \o line] /\ line # <<>>
          BY <3>1, UpstreamFits
        <4>2. unread[u] \o line = unread[u]
          BY <1>0, <2>1, <4>1
        <4>3. Len(unread[u] \o line) = Len(unread[u]) + Len(line) /\ Len(line) # 0 /\ Len(line) \in Nat
              /\ Len(unread[u]) \in Nat
          BY <1>0, <4>1, LineSteps
        <4>4. QED
          BY <4>2, <4>3
      <3>2. QED
        BY <3>1
    <2>5. QED
      BY <1>4, <2>1, <2>2, <2>3, <2>4
  <1>6. CASE PumpsOut(u)
    <2>1. /\ unread[u] # <<>> /\ unread'[u] = Tail(unread[u]) /\ toPeer' = Append(toPeer, Head(unread[u]))
          /\ PeerQuiet /\ upstreamSent' = upstreamSent /\ Greeted(u)
      BY <1>0, <1>6, OutServed DEF PumpsOut, chanPeer, ends, PeerQuiet
    <2>2. m = l
      <3>1. Append(toPeer, Head(unread[u])) \o Tail(unread[u]) = toPeer \o unread[u]
        BY <1>0, <2>1, Shifts
      <3>2. QED
        BY <1>0, <2>1, <3>1
    <2>3. atNow = at /\ fromNow = from /\ partOut' = partOut /\ peerGot'[u] = peerGot[u] /\ chan' = chan
      BY <2>1 DEF PeerQuiet
    <2> HIDE DEF l, m, from, fromNow, at, atNow
    <2>4. QED
      BY <1>1, <1>2, <2>1, <2>2, <2>3
  <1>7. CASE UpstreamSends(u)
    <2>1. PICK line \in Seq(Wires) :
             /\ unread' = [unread EXCEPT ![u] = @ \o line] /\ line # <<>> /\ InOrder(line)
             /\ Spans(line, at, atNow) /\ EndsAt(line, atNow)
      BY <1>7, UpstreamFits
    <2>2. unread'[u] = unread[u] \o line /\ UNCHANGED toPeer /\ PeerQuiet /\ UNCHANGED handler
      BY <1>0, <1>7, <2>1 DEF UpstreamSends, chanPeer, PeerQuiet
    <2>3. m = l \o line
      <3>1. ASSUME NEW s \in Seq(Wires), NEW t \in Seq(Wires)
            PROVE  \A r \in Seq(Wires) : (s \o t) \o r = s \o (t \o r)
        BY Shifts
      <3>2. QED
        BY <1>0, <2>2, <3>1
    <2>4. ASSUME NEW s \in Seq(Wires), InOrder(s), EndsAt(s, at)
          PROVE  /\ InOrder(s \o line) /\ EndsAt(s \o line, atNow)
                 /\ \A f : Spans(s, f, at) => Spans(s \o line, f, atNow)
      <3> HIDE DEF at, atNow
      <3>1. QED
        BY <2>1, <2>4, Extends DEF Spans
    <2>5. InOrder(unread[u]) /\ EndsAt(unread[u], at)
      BY <1>0, <1>1, CutLine
    <2>6. fromNow = from /\ partOut' = partOut /\ peerGot'[u] = peerGot[u] /\ chan' = chan
      BY <2>2 DEF PeerQuiet
    <2> HIDE DEF l, m, from, fromNow, at, atNow
    <2>7. QED
      BY <1>0, <1>1, <1>2, <2>2, <2>3, <2>4, <2>5, <2>6
  <1>8. CASE toPeer' = <<>> /\ chan' # "open" /\ UNCHANGED unread /\ ~UpstreamSends(u)
    <2>1. m = unread[u] /\ atNow = at /\ unread'[u] = unread[u]
      <3>1. <<>> \o unread[u] = unread[u]
        BY <1>0, Joins
      <3>2. QED
        BY <1>0, <1>2, <1>8, <3>1
    <2>2. InOrder(unread[u]) /\ EndsAt(unread[u], at)
      BY <1>0, <1>1, CutLine
    <2> HIDE DEF l, m, from, fromNow, at, atNow
    <2>3. QED
      BY <1>1, <1>2, <1>8, <2>1, <2>2
  <1>9. CASE PeerTakes
    <2>1. toPeer # <<>> /\ toPeer' = Tail(toPeer) /\ UNCHANGED <<unread, use, handler, upstreamSent>>
          /\ Head(toPeer) = toPeer[1] /\ 1 \in 1 .. Len(toPeer)
      BY <1>0, <1>9, LineSteps DEF PeerTakes, task
    <2>2. m = Tail(l) /\ l # <<>> /\ l[1] = toPeer[1]
      BY <1>0, <2>1, Shifts
    <2>3. /\ InOrder(Tail(l)) /\ EndsAt(Tail(l), at)
          /\ \A to : Leads(l[1]) /\ EndsAt(l, to) => Spans(Tail(l), After(l[1]), to)
      <3> HIDE DEF l, at
      <3>1. QED
        BY <1>0, <1>1, <2>2, TailOfLine
    <2>4. atNow = at /\ unread'[u] = unread[u] /\ (Greeted(u)' => Greeted(u))
      BY <2>1 DEF Greeted
    <2>5. chan' = "open" => partOut' \in Begun(u, peerGot'[u]) /\ Leads(l[1]) /\ After(l[1]) = fromNow
      <3>1. CASE IsData(toPeer[1])
        <4>1. UNCHANGED chan /\ (chan = "open" => use \in Uses /\ (PeerDelivers \/ PeerKeepsPart))
          BY <1>9, <3>1, PeerTakesIs
        <4>2. chan = "open" => u = use
          BY <4>1 DEF RelayInv, PeerKnows, OneServed, Greeted, Served
        <4>3. Leads(l[1])
          BY <2>2, <3>1 DEF Leads, IsData
        <4>4. QED
          BY <2>2, <4>1, <4>2, <4>3 DEF PeerDelivers, PeerKeepsPart
      <3>2. CASE toPeer[1].type = "ws_connected"
        <4>1. chan \in {"asked", "closed"} /\ Greeted(use)
          BY <2>1, <3>2 DEF RelayInv, PeerKnows
        <4>2. chan' = (IF chan = "asked" THEN "open" ELSE chan) /\ UNCHANGED <<partOut, peerGot>>
          BY <1>9, <2>1, <3>2 DEF PeerTakes, IsData
        <4>3. use \in Uses
          BY <4>1, Typed DEF RelayInv, PeerKnows
        <4>4. u = use
          BY <4>1, <4>3 DEF RelayInv, OneServed, Greeted, Served
        <4>5. chan = "asked" => partOut = <<>> /\ peerGot[u] = <<>>
          BY <4>4 DEF RelayInv, PeerKnows
        <4>6. Leads(l[1]) /\ After(l[1]) = <<1, 1>>
          BY <2>2, <3>2 DEF Leads, After
        <4>7. QED
          BY <4>1, <4>2, <4>5, <4>6 DEF Begun, Wanted
      <3>3. CASE ~IsData(toPeer[1]) /\ toPeer[1].type # "ws_connected"
        <4>1. chan' = IF chan \in {"asked", "open"} THEN "closed" ELSE chan
          BY <1>9, <2>1, <3>3 DEF PeerTakes, IsData
        <4>2. QED
          BY <4>1
      <3>4. QED
        BY <3>1, <3>2, <3>3
    <2> HIDE DEF l, m, from, fromNow, at, atNow
    <2>6. QED
      BY <1>1, <1>2, <2>2, <2>3, <2>4, <2>5
  <1>10. \A v \in Uses : Greet(v) \/ PumpsOut(v) \/ UpstreamSends(v) => v = u
    BY OutServed DEF RelayInv, OneServed
  <1>11. QED
    BY <1>3, <1>4, <1>5, <1>6, <1>7, <1>8, <1>9, <1>10, PeerLineIs DEF PeerLine

(* OutInOrder is kept. *)
LEMMA OutInOrderStep ==
    ASSUME RelayInv, ChannelInv, ChannelNext \/ WireSteps
    PROVE  OutInOrder'
  <1> SUFFICES ASSUME NEW u \in Uses, Served(u)' PROVE LineOut(u)'
    BY DEF OutInOrder
  <1>1. CASE Served(u)
    BY <1>1, LineOutStep
  <1>2. CASE ~Served(u)
    <2>1. Accepts
      BY <1>2, SentStays
    <2>2. \A v \in Uses : ~Served(v) /\ ~Greeted(v)
      BY <2>1, FirstServed DEF Served, Greeted
    <2>3. UNCHANGED <<toPeer, unread, chan, use, partOut, peerGot, upstreamSent>>
      BY <2>1 DEF Accepts, chanPeer, ends
    <2>4. unread[u] = <<>> /\ upstreamSent[u] = <<>>
      BY <1>2 DEF RelayInv, OutContent
    <2>5. toPeer \in Seq(Wires) /\ <<>> \in Seq(Wires) /\ Len(toPeer) \in Nat /\ use \in {0} \cup Uses
      BY Typed
    <2>6. \A i \in 1 .. Len(toPeer) : ~IsData(toPeer[i])
      <3>1. SUFFICES ASSUME NEW i \in 1 .. Len(toPeer), IsData(toPeer[i]) PROVE FALSE
        OBVIOUS
      <3>2. toPeer[i] \in Wires
        BY <2>5
      <3>3. toPeer[i].frame.use \in Uses
        BY <3>1, <3>2, WireFrames DEF Pieces
      <3>4. Greeted(toPeer[i].frame.use)
        BY <3>1 DEF RelayInv, OutContent
      <3>5. QED
        BY <2>2, <3>3, <3>4
    <2>7. use # 0 => ~Greeted(use)
      BY <2>2, <2>5
    <2>8. \A i \in 1 .. Len(toPeer) : toPeer[i].type # "ws_connected"
      BY <2>7 DEF RelayInv, PeerKnows
    <2>9. chan # "open"
      BY <2>7 DEF RelayInv, PeerKnows
    <2>10. OutLine(u)' = toPeer
      <3>1. toPeer \o <<>> = toPeer
        BY <2>5, Joins
      <3>2. QED
        BY <2>3, <2>4, <3>1 DEF OutLine
    <2>11. InOrder(toPeer) /\ \A to : EndsAt(toPeer, to)
      <3>1. \A i \in 1 .. Len(toPeer) : ~Leads(toPeer[i])
        BY <2>6, <2>8 DEF IsData, Leads
      <3>2. \A i \in 1 .. Len(toPeer) - 1 : i \in 1 .. Len(toPeer)
        BY <2>5
      <3>3. toPeer # <<>> => Len(toPeer) \in 1 .. Len(toPeer)
        BY <2>5, LineSteps
      <3>4. QED
        BY <3>1, <3>2, <3>3 DEF InOrder, EndsAt, Fits
    <2>12. NextOf(<<>>) = <<1, 1>> /\ Spans(<<>>, <<1, 1>>, <<1, 1>>)
      BY DEF NextOf, Spans, StartsAt
    <2>13. QED
      BY <2>3, <2>4, <2>9, <2>10, <2>11, <2>12 DEF LineOut
  <1>3. QED
    BY <1>1, <1>2

-----------------------------------------------------------------------------
(* Initially no frame is on its way and no use is served. *)
LEMMA RelayInitInv == ASSUME ChannelInit, WireInit PROVE RelayInv
  <1>0. 0 \notin Uses /\ <<>> \in Seq(Wires) /\ <<>> \in Seq(Pieces) /\ <<>> \in Seq(Messages) /\ Len(<<>>) = 0
        /\ MaxMessages \in Nat
    BY UsesAreNumbers, ChannelAssumption
  <1>1. /\ chan = "idle" /\ use = 0 /\ partOut = <<>> /\ toClient = <<>> /\ toPeer = <<>> /\ link = "up"
        /\ registered = 0 /\ count = 0 /\ forgotten = FALSE
        /\ \A u \in Uses : /\ handler[u] = "none" /\ pumps[u] = {} /\ queue[u] = <<>> /\ partIn[u] = <<>>
                           /\ unread[u] = <<>> /\ upstream[u] = "none" /\ peerSent[u] = <<>>
                           /\ upstreamGot[u] = <<>> /\ upstreamSent[u] = <<>> /\ peerGot[u] = <<>>
    BY DEF ChannelInit, WireInit
  <1>2. RelayTypes
    <2>1. \A sent \in {peerSent, upstreamGot, upstreamSent, peerGot} : sent = [u \in Uses |-> <<>>]
      BY DEF ChannelInit
    <2>2. [u \in Uses |-> <<>>] \in [Uses -> Seq(Messages)] /\ [u \in Uses |-> <<>>] \in [Uses -> Seq(Wires)]
          /\ [u \in Uses |-> <<>>] \in [Uses -> Seq(Pieces)]
      BY <1>0
    <2>3. /\ handler = [u \in Uses |-> "none"] /\ pumps = [u \in Uses |-> {}] /\ upstream = [u \in Uses |-> "none"]
          /\ queue = [u \in Uses |-> <<>>] /\ unread = [u \in Uses |-> <<>>] /\ partIn = [u \in Uses |-> <<>>]
      BY DEF ChannelInit
    <2>4. handler \in [Uses -> HandlerStates] /\ pumps \in [Uses -> SUBSET {"in", "out"}]
          /\ upstream \in [Uses -> {"none", "open", "closed", "broken"}]
      BY <2>3 DEF HandlerStates
    <2>5. \A sent \in {peerSent, upstreamGot, upstreamSent, peerGot} : sent \in [Uses -> Seq(Messages)]
      BY <2>1, <2>2
    <2>6. queue \in [Uses -> Seq(Wires)] /\ unread \in [Uses -> Seq(Wires)] /\ partIn \in [Uses -> Seq(Pieces)]
      BY <2>2, <2>3
    <2>7. count \in 0 .. MaxMessages /\ \A u \in Uses : Len(peerSent[u]) <= count /\ Len(upstreamSent[u]) <= count
      BY <1>0, <1>1
    <2>8. QED
      BY <1>0, <1>1, <2>4, <2>5, <2>6, <2>7 DEF RelayTypes
  <1>3. \A u \in Uses : ~Served(u) /\ Rests(u) /\ ~Greeted(u)
    BY <1>1 DEF Served, Rests, Greeted
  <1>4. OneServed
    <2>1. \A i : ~Asks(toClient, i)
      BY <1>0, <1>1 DEF Asks
    <2>2. QED
      BY <1>1, <1>3, <2>1 DEF OneServed
  <1>5. PeerKnows
    BY <1>0, <1>1 DEF PeerKnows
  <1>6. InContent
    BY <1>0, <1>1, <1>3 DEF InContent
  <1>7. InOrder(<<>>) /\ ~Live
    BY <1>0, <1>1 DEF InOrder, Live
  <1>8. InInOrder
    <2>1. \A u \in Uses : InLine(u) = <<>>
      BY <1>0, <1>1, Joins DEF InLine
    <2>2. QED
      BY <1>1, <1>7, <2>1 DEF InInOrder, LineIn
  <1>9. OutContent
    BY <1>0, <1>1 DEF OutContent
  <1>10. OutInOrder
    BY <1>3 DEF OutInOrder
  <1>11. QED
    BY <1>2, <1>4, <1>5, <1>6, <1>8, <1>9, <1>10 DEF RelayInv

(* Every step of a channel and of its connection keeps RelayInv. *)
LEMMA RelayStep ==
    ASSUME RelayInv, ChannelInv, ChannelInv', ChannelNext \/ WireSteps
    PROVE  RelayInv'
  BY RelayTypesStep, OneServedStep, PeerKnowsStep, InContentStep, InInOrderStep, OutContentStep, OutInOrderStep
     DEF RelayInv

(* Work on plain requests leaves the channel and its connection alone. *)
LEMMA RelayQuiet ==
    ASSUME RelayInv, UNCHANGED <<channel, link>>
    PROVE  RelayInv'
  <1>1. /\ UNCHANGED <<chan, use, partOut, toClient, toPeer, registered, terminated, forgotten>>
        /\ UNCHANGED <<handler, pumps, failed, queue, partIn, unread, upstream, blamed, link>>
        /\ UNCHANGED <<peerSent, upstreamGot, upstreamSent, peerGot, count>>
    BY DEF channel, chanPeer, known, task, ends
  <1>2. RelayTypes' /\ OneServed' /\ PeerKnows'
    <2>1. RelayTypes'
      BY <1>1 DEF RelayInv, RelayTypes
    <2>2. OneServed'
      BY <1>1 DEF RelayInv, OneServed, Served, Rests, Asks
    <2>3. PeerKnows'
      BY <1>1 DEF RelayInv, PeerKnows, Greeted
    <2>4. QED
      BY <2>1, <2>2, <2>3
  <1>3. InContent' /\ InInOrder'
    BY <1>1 DEF RelayInv, InContent, InInOrder, LineIn, InLine, Live, Served, Greeted
  <1>4. OutContent' /\ OutInOrder'
    BY <1>1 DEF RelayInv, OutContent, OutInOrder, LineOut, OutLine, Served, Greeted
  <1>5. QED
    BY <1>2, <1>3, <1>4 DEF RelayInv

(* Plain requests leave the link alone. *)
LEMMA HttpLink == ASSUME DedupNext PROVE UNCHANGED link
  BY DEF DedupNext, DedupRun, BuildReturns, BuildStreams, JobSends, StreamEnds, RxRefuse, RxRequest, RxCancel,
         RxComplete, PeerReads, RxHello, Age, PeerAsks, PeerCancels, RxSends, wire

-----------------------------------------------------------------------------
(* A step hands on messages as a relay does. *)
Relays(sent, got, sentNow, gotNow) ==
    \/ sentNow = sent /\ gotNow = got
    \/ \E u \in Uses :
          \/ SentOne(u, sent, sentNow) /\ gotNow = got
          \/ /\ Len(got[u]) < Len(sent[u])
             /\ gotNow = [got EXCEPT ![u] = Append(@, sent[u][Len(@) + 1])] /\ sentNow = sent

(* Every step of the tunnel does so, in both directions. *)
LEMMA RelaysStep ==
    ASSUME RelayInv, [Next]_vars
    PROVE  /\ Relays(peerSent, upstreamGot, peerSent', upstreamGot')
           /\ Relays(upstreamSent, peerGot, upstreamSent', peerGot')
  <1>1. CASE UNCHANGED channel
    BY <1>1 DEF channel, ends, Relays
  <1>2. CASE ChannelNext \/ WireSteps
    <2>1. ASSUME NEW u \in Uses, PumpsIn(u) PROVE UNCHANGED peerSent
      BY <2>1 DEF PumpsIn
    <2>2. ASSUME NEW u \in Uses, UpstreamSends(u) PROVE UNCHANGED <<upstreamGot, peerGot>>
      BY <2>2 DEF UpstreamSends
    <2>3. PeerSends => UNCHANGED <<upstreamGot, peerGot>>
      BY DEF PeerSends
    <2>4. PeerTakes => UNCHANGED upstreamSent
      BY DEF PeerTakes
    <2>5. \/ UNCHANGED peerSent
          \/ \E u \in Uses : SentOne(u, peerSent, peerSent') /\ UNCHANGED upstreamGot
      BY <1>2, <2>3, MessagesStep
    <2>6. \/ UNCHANGED upstreamSent
          \/ \E u \in Uses : SentOne(u, upstreamSent, upstreamSent') /\ UNCHANGED peerGot
      BY <1>2, <2>2, MessagesStep
    <2>7. \/ UNCHANGED upstreamGot
          \/ UNCHANGED peerSent /\ \E u \in Uses : InDelivers(u)
      BY <1>2, <2>1, MessagesStep
    <2>8. UNCHANGED peerGot \/ (UNCHANGED upstreamSent /\ use \in Uses /\ PeerDelivers)
      BY <1>2, <2>4, MessagesStep
    <2>9. Relays(peerSent, upstreamGot, peerSent', upstreamGot')
      BY <2>5, <2>7 DEF Relays, InDelivers
    <2>10. Relays(upstreamSent, peerGot, upstreamSent', peerGot')
      BY <2>6, <2>8 DEF Relays, PeerDelivers
    <2>11. QED
      BY <2>9, <2>10
  <1>3. QED
    BY <1>1, <1>2 DEF Next, Http, Ws, Lost, Left, Connected, WireSteps, vars

-----------------------------------------------------------------------------
(* What else the types of a channel say: a queue keeps to its limit, and   *)
(* of a binary message that is put together one frame is held at most.     *)
ChannelRest ==
    /\ terminated \in BOOLEAN /\ forgotten \in BOOLEAN /\ blamed \in BOOLEAN
    /\ failed \in [Uses -> BOOLEAN]
    /\ \A u \in Uses : Len(queue[u]) <= QueueLimit /\ Len(partIn[u]) <= 1
    /\ link \in {"up", "lost", "down"}

(* The flags stay flags. *)
LEMMA FlagsStep ==
    ASSUME ChannelRest, ChannelNext \/ WireSteps
    PROVE  /\ terminated' \in BOOLEAN /\ forgotten' \in BOOLEAN /\ blamed' \in BOOLEAN
           /\ failed' \in [Uses -> BOOLEAN] /\ link' \in {"up", "lost", "down"}
  <1> DEFINE Goal == /\ terminated' \in BOOLEAN /\ forgotten' \in BOOLEAN /\ blamed' \in BOOLEAN
                     /\ failed' \in [Uses -> BOOLEAN] /\ link' \in {"up", "lost", "down"}
  <1>0. \A us : Remembered(us) \in BOOLEAN
    BY DEF Remembered
  <1>1. UNCHANGED <<terminated, forgotten, blamed, failed, link>> => Goal
    BY DEF ChannelRest
  <1>2. (Evict \/ \E us : Finally(us)) => /\ terminated' \in BOOLEAN /\ forgotten' \in BOOLEAN
                                          /\ failed' \in [Uses -> BOOLEAN]
    BY <1>0 DEF Evict, Finally, ChannelRest
  <1>3. \A t : RxReports(t) => UNCHANGED link
    BY DEF RxReports, RxSends
  <1>4. ASSUME NEW full \in BOOLEAN, RxWsConnect(full) PROVE Goal
    BY <1>1, <1>3, <1>4 DEF RxWsConnect, known, task, wire
  <1>5. ASSUME RxWsFrame PROVE Goal
    <2>1. CASE Len(queue[registered]) = QueueLimit
      BY <1>2, <1>3, <1>5, <2>1 DEF RxWsFrame, Overflow, ChannelRest
    <2>2. CASE Len(queue[registered]) # QueueLimit
      BY <1>1, <1>5, <2>2 DEF RxWsFrame, known, wire
    <2>3. QED
      BY <2>1, <2>2
  <1>6. ASSUME RxWsStray \/ RxWsUnknown \/ RxWsError PROVE Goal
    <2>1. RxWsStray => Goal
      BY <1>1 DEF RxWsStray, known, task, wire
    <2>2. RxWsUnknown => Goal
      BY DEF RxWsUnknown, known, task, ChannelRest
    <2>3. RxWsError => Goal
      BY <1>1, <1>2 DEF RxWsError, known, task, wire, ChannelRest
    <2>4. QED
      BY <1>6, <2>1, <2>2, <2>3
  <1>7. ASSUME NEW u \in Uses, HandlerSteps(u) PROVE Goal
    <2>1. (\E ok \in BOOLEAN : Dial(u, ok)) \/ Greet(u) \/ FirstDone(u) => Goal
      BY <1>1 DEF Dial, Greet, FirstDone, known, wire
    <2>2. Farewell(u) \/ CancelEnds(u) => Goal
      BY <1>2 DEF Farewell, CancelEnds, wire, ChannelRest
    <2>3. QED
      BY <1>7, <2>1, <2>2 DEF HandlerSteps
  <1>8. ASSUME NEW u \in Uses, OutEnds(u) \/ PumpsIn(u) PROVE Goal
    <2>1. UNCHANGED <<terminated, forgotten, blamed, link>>
      BY <1>8 DEF OutEnds, PumpsIn, known, wire
    <2>2. \E raised \in BOOLEAN : failed' = [failed EXCEPT ![u] = @ \/ raised]
      <3> DEFINE frame == Head(queue[u])
                 next == IF IsData(frame) THEN Pumped(u, frame.frame) ELSE <<<<>>, partIn[u]>>
                 raises(large) == IsData(frame) /\ (large \/ (next[1] # <<>> /\ upstream[u] # "open"))
      <3>1. OutEnds(u) => \E raised \in BOOLEAN : failed' = [failed EXCEPT ![u] = @ \/ raised]
        BY Zenon DEF OutEnds
      <3>2. PumpsIn(u) => \E large \in BOOLEAN : failed' = [failed EXCEPT ![u] = @ \/ raises(large)]
        BY Zenon DEF PumpsIn
      <3>3. \A large \in BOOLEAN : raises(large) \in BOOLEAN
        OBVIOUS
      <3> HIDE DEF raises
      <3>4. QED
        BY <1>8, <3>1, <3>2, <3>3, Zenon
    <2>3. failed' \in [Uses -> BOOLEAN]
      BY <2>2 DEF ChannelRest
    <2>4. QED
      BY <2>1, <2>3 DEF ChannelRest
  <1>9. ASSUME \/ \E u \in Uses : \/ PumpsOut(u) \/ UpstreamSends(u)
                                  \/ \E how \in {"closed", "broken"} : UpstreamEnds(u, how)
               \/ PeerConnects \/ PeerSends \/ PeerTakes \/ \E t \in {"ws_close", "error"} : PeerEnds(t)
        PROVE  Goal
    BY <1>1, <1>9 DEF PumpsOut, UpstreamSends, UpstreamEnds, PeerConnects, PeerSends, PeerTakes,
                      PeerEnds, known, task, wire
  <1>10. Forget => Goal
    BY DEF Forget, task, wire, ChannelRest
  <1>11. ASSUME WireSteps PROVE Goal
    <2>1. link' \in {"up", "lost", "down"}
      BY <1>11 DEF WireSteps, Lose, RxLeaves, Connect
    <2>2. terminated' \in BOOLEAN /\ forgotten' \in BOOLEAN /\ failed' \in [Uses -> BOOLEAN] /\ blamed' \in BOOLEAN
      BY <1>2, <1>11 DEF WireSteps, ChannelLose, ChannelLeave, channel, known, task, ChannelRest
    <2>3. QED
      BY <2>1, <2>2
  <1>12. QED
    BY <1>4, <1>5, <1>6, <1>7, <1>8, <1>9, <1>10, <1>11 DEF ChannelNext, ReceiveSteps

(* Only the receive loop puts a frame into a queue, and not into a full one. *)
LEMMA QueueLimitStep ==
    ASSUME RelayInv, ChannelRest, ChannelNext \/ WireSteps, NEW u \in Uses
    PROVE  Len(queue'[u]) <= QueueLimit
  <1>0. /\ queue \in [Uses -> Seq(Wires)] /\ QueueLimit \in Nat \ {0} /\ registered \in {0} \cup Uses
        /\ Len(queue[u]) <= QueueLimit
    BY Typed, ChannelAssumption DEF ChannelRest
  <1>1. UNCHANGED queue => Len(queue'[u]) <= QueueLimit
    BY <1>0
  <1>2. (\E us : Finally(us)) => Len(queue'[u]) <= QueueLimit
    <2>1. Len(<<>>) = 0
      OBVIOUS
    <2>2. (\E us : Finally(us)) => queue'[u] \in {queue[u], <<>>}
      BY DEF Finally
    <2>3. QED
      BY <1>0, <2>1, <2>2
  <1>3. ASSUME RxWsFrame PROVE Len(queue'[u]) <= QueueLimit
    <2>1. CASE Len(queue[registered]) = QueueLimit
      BY <1>1, <1>3, <2>1 DEF RxWsFrame, Overflow
    <2>2. CASE Len(queue[registered]) # QueueLimit
      <3>1. /\ queue' = [queue EXCEPT ![registered] = Append(@, Head(toClient))]
            /\ Head(toClient) \in Wires
        BY <1>3, <2>2, Typed, LineSteps DEF RxWsFrame, Takes
      <3>2. registered # u => queue'[u] = queue[u]
        BY <1>0, <3>1
      <3>3. registered = u => Len(queue'[u]) = Len(queue[u]) + 1
        BY <1>0, <3>1
      <3>4. Len(queue[u]) \in Nat
        BY <1>0
      <3>5. QED
        BY <1>0, <2>2, <3>2, <3>3, <3>4
    <2>3. QED
      BY <2>1, <2>2
  <1>4. ASSUME NEW v \in Uses, PumpsIn(v) PROVE Len(queue'[u]) <= QueueLimit
    <2>1. queue[v] # <<>> /\ queue' = [queue EXCEPT ![v] = Tail(@)]
      BY <1>4, PumpsInIs
    <2>2. v = u => Len(queue'[u]) = Len(queue[u]) - 1
      BY <1>0, <2>1
    <2>3. v # u => queue'[u] = queue[u]
      BY <1>0, <2>1
    <2>4. Len(queue[u]) \in Nat
      BY <1>0
    <2>5. QED
      BY <1>0, <2>2, <2>3, <2>4
  <1>5. ASSUME NEW v \in Uses, \/ HandlerSteps(v) \/ PumpsOut(v) \/ OutEnds(v) \/ UpstreamSends(v)
                               \/ \E how \in {"closed", "broken"} : UpstreamEnds(v, how)
        PROVE  Len(queue'[u]) <= QueueLimit
    BY <1>1, <1>2, <1>5 DEF HandlerSteps, Dial, Greet, FirstDone, Farewell, CancelEnds, PumpsOut, OutEnds,
                            UpstreamSends, UpstreamEnds, task
  <1>6. ASSUME \/ Forget \/ PeerConnects \/ PeerSends \/ PeerTakes \/ \E t \in {"ws_close", "error"} : PeerEnds(t)
               \/ WireSteps
        PROVE  Len(queue'[u]) <= QueueLimit
    BY <1>1, <1>2, <1>6 DEF Forget, PeerConnects, PeerSends, PeerTakes, PeerEnds, WireSteps, ChannelLose,
                            ChannelLeave, channel, task
  <1>7. ASSUME \/ \E full \in BOOLEAN : RxWsConnect(full)
               \/ RxWsStray \/ RxWsUnknown \/ RxWsError
        PROVE  Len(queue'[u]) <= QueueLimit
    BY <1>1, <1>7 DEF RxWsConnect, RxWsStray, RxWsUnknown, RxWsError, task
  <1>8. QED
    BY <1>3, <1>4, <1>5, <1>6, <1>7 DEF ChannelNext, ReceiveSteps

(* from_sandbox keeps the first frame of a message, which is not the last. *)
LEMMA PartInStep ==
    ASSUME RelayInv, ChannelRest, ChannelNext \/ WireSteps, NEW u \in Uses
    PROVE  Len(partIn'[u]) <= 1
  <1>0. /\ partIn \in [Uses -> Seq(Pieces)] /\ Len(partIn[u]) <= 1 /\ Len(<<>>) = 0
        /\ pumps \in [Uses -> SUBSET {"in", "out"}]
    BY DEF RelayInv, RelayTypes, ChannelRest
  <1>1. CASE PumpsKeep(u)
    BY <1>0, <1>1 DEF PumpsKeep
  <1>2. CASE Greet(u)
    BY <1>0, <1>2 DEF Greet
  <1>3. CASE PumpsIn(u)
    <2>1. \A p \in Begun(u, upstreamGot[u]) : Len(p) <= 1
      <3>1. \A x : Len(<<x>>) = 1
        OBVIOUS
      <3>2. \A p \in Begun(u, upstreamGot[u]) : Len(p) \in {0, 1}
        BY <1>0, <3>1, Zenon DEF Begun
      <3>3. \A n \in {0, 1} : n <= 1
        OBVIOUS
      <3>4. QED
        BY <3>2, <3>3, Zenon
    <2>2. InTakes(u) \/ InDelivers(u)
      BY <1>3, PumpsInIs
    <2>3. partIn'[u] \in {partIn[u], <<>>} \/ partIn'[u] \in Begun(u, upstreamGot[u])
      BY <1>0, <2>2 DEF InTakes, InDelivers
    <2>4. QED
      BY <1>0, <2>1, <2>3
  <1>4. QED
    BY <1>1, <1>2, <1>3, PumpsKept

(* ChannelRest is kept. *)
LEMMA RestStep ==
    ASSUME RelayInv, ChannelRest, ChannelNext \/ WireSteps PROVE ChannelRest'
  BY FlagsStep, QueueLimitStep, PartInStep DEF ChannelRest

(* The types are kept, as far as ChannelTypeOK states them. *)
LEMMA ChannelTyped == RelayInv /\ ChannelRest => ChannelTypeOK
  BY DEF RelayInv, RelayTypes, HandlerStates, ChannelRest, ChannelTypeOK

-----------------------------------------------------------------------------
(* What holds at first, and is kept by every step. *)
FramesInv == DedupInv /\ ChannelInv /\ RelayInv /\ ChannelRest

(* The invariant holds at first. *)
LEMMA FramesInitInv ==
    ASSUME Init PROVE FramesInv
  <1>1. DedupInv
    BY DedupInitInv
  <1>2. /\ toClient = <<>> /\ toPeer = <<>> /\ use = 0 /\ registered = 0 /\ count = 0
        /\ handler = [u \in Uses |-> "none"] /\ chan = "idle" /\ blamed = FALSE
    BY DEF Init, ChannelInit
  <1>3. IsSequence(<<>>) /\ ToSet(<<>>) = {}
    BY DEF IsSequence, ToSet
  <1>4. ChannelInv
    BY <1>2, <1>3 DEF ChannelInv, ChannelTypes, DataKnown, NoFalseUnknown
  <1>5. RelayInv
    BY RelayInitInv DEF Init
  <1>6. ChannelRest
    <2>1. QueueLimit \in Nat \ {0} /\ Len(<<>>) = 0
      BY ChannelAssumption
    <2>2. /\ terminated = FALSE /\ forgotten = FALSE /\ failed = [u \in Uses |-> FALSE] /\ link = "up"
          /\ \A u \in Uses : queue[u] = <<>> /\ partIn[u] = <<>>
      BY DEF Init, ChannelInit, WireInit
    <2>3. failed \in [Uses -> BOOLEAN] /\ terminated \in BOOLEAN /\ forgotten \in BOOLEAN /\ blamed \in BOOLEAN
      BY <1>2, <2>2, Zenon
    <2>4. \A u \in Uses : Len(queue[u]) <= QueueLimit /\ Len(partIn[u]) <= 1
      BY <2>1, <2>2
    <2>5. QED
      BY <2>2, <2>3, <2>4 DEF ChannelRest
  <1>7. QED
    BY <1>1, <1>4, <1>5, <1>6 DEF FramesInv

(* Every step keeps it. *)
LEMMA FramesStepInv ==
    ASSUME FramesInv, [Next]_vars PROVE FramesInv'
  <1> USE DEF FramesInv
  <1>0. UNCHANGED <<channel, link>> => ChannelRest'
    BY DEF ChannelRest, channel, known, task
  <1>1. UNCHANGED channel => ChannelInv'
    <2>1. UNCHANGED channel => /\ ClientFrames /\ PeerFrames /\ Tables /\ Others
      BY ChannelQuiet DEF channel, chanPeer, known, task, ends
    <2>2. QED
      BY <2>1, ChannelKeeps
  <1>2. CASE Http(DedupNext)
    <2>1. UNCHANGED <<channel, link>>
      BY <1>2, HttpLink DEF Http
    <2>2. QED
      BY <1>0, <1>1, <1>2, <2>1, HttpInv, RelayQuiet
  <1>3. CASE Ws(ChannelNext)
    <2>1. DedupInv'
      BY <1>3, WsKeepsDedup
    <2>2. ChannelNext
      BY <1>3 DEF Ws
    <2>3. ChannelInv'
      BY <2>2, ReceiveKeeps, HandlerKeeps, PeerKeeps DEF ChannelNext
    <2>4. RelayInv' /\ ChannelRest'
      BY <2>2, <2>3, RelayStep, RestStep
    <2>5. QED
      BY <2>1, <2>3, <2>4
  <1>4. CASE Lost \/ Left \/ Connected
    <2>1. DedupInv' /\ ChannelInv'
      BY <1>1, <1>4, ConnectionInv, EndKeeps DEF Lost, Left, Connected
    <2>2. WireSteps
      BY <1>4 DEF Lost, Left, Connected, WireSteps
    <2>3. QED
      BY <2>1, <2>2, RelayStep, RestStep
  <1>5. CASE UNCHANGED vars
    <2>1. UNCHANGED <<dedup, carries, link, losses>> /\ UNCHANGED channel
      BY <1>5 DEF vars, wire
    <2>2. DedupTypes' /\ TasksApart' /\ Silent'
      BY <2>1 DEF DedupInv, DedupTypes, DedupTypeOK, TasksApart, Silent, dedup
    <2>3. \A r \in Ids : Traced(r)' /\ Refusal(r)'
      BY <2>1 DEF DedupInv, Traced, Refusal, Inflight, dedup
    <2>4. QED
      BY <1>0, <1>1, <2>1, <2>2, <2>3, RelayQuiet DEF DedupInv
  <1>6. QED
    BY <1>2, <1>3, <1>4, <1>5 DEF Next

(* So it always holds. *)
LEMMA FramesInvariant == Spec => []FramesInv
  <1>1. Init => FramesInv
    BY FramesInitInv
  <1>2. FramesInv /\ [Next]_vars => FramesInv'
    BY FramesStepInv
  <1>3. QED
    BY <1>1, <1>2, PTL DEF Spec

(* Type correctness of both sides of the receive loop: jobs, the cache of  *)
(* answers and the queue of a channel within their limits, and the limit   *)
(* of requests in flight.                                                  *)
THEOREM FramesTypesHold == Spec => []TypeOK
  <1>1. FramesInv => TypeOK
    BY ChannelTyped DEF FramesInv, DedupInv, DedupTypes, ChannelRest, TypeOK
  <1>2. QED
    BY <1>1, FramesInvariant, PTL

(* However often the connection is lost and a request replayed, the        *)
(* upstream gets it once until handle_http_req has nothing left to know it *)
(* by: neither an entry of inflight_http, nor of completed, nor of         *)
(* response_credits.                                                       *)
THEOREM ReplayRunsOnce == Spec => []ExecutedOnce
  <1>1. FramesInv => ExecutedOnce
    BY DEF FramesInv, DedupInv, Traced, ExecutedOnce
  <1>2. QED
    BY <1>1, FramesInvariant, PTL

(* A request that the receive loop refused for max_inflight was not run,   *)
(* unless it was forgotten or its answer is being streamed.                *)
THEOREM RefusalIsTrue == Spec => []RefusedNotRun
  <1>1. FramesInv => RefusedNotRun
    BY DEF FramesInv, DedupInv, Refusal, RefusedNotRun
  <1>2. QED
    BY <1>1, FramesInvariant, PTL

(* The connection ends for data of an unknown channel only when the id was *)
(* in use once and is no longer among terminated_streams.                  *)
THEOREM UnknownWasForgotten == Spec => []NoFalseUnknown
  <1>1. FramesInv => NoFalseUnknown
    BY DEF FramesInv, ChannelInv
  <1>2. QED
    BY <1>1, FramesInvariant, PTL

(* Every message of a channel reaches the other side whole, in order and   *)
(* once, in both directions: a step of the tunnel is a step of a FifoRelay *)
(* or leaves its messages alone.                                           *)
THEOREM ChannelsRelay == Spec => Relayed
  <1> USE DEF Inward!Init, Outward!Init, Inward!Send, Outward!Send, Inward!Deliver, Outward!Deliver
  <1>1. Init => Inward!Init /\ Outward!Init
    BY DEF Init, ChannelInit
  <1>2. FramesInv /\ [Next]_vars =>
           /\ [Inward!Next]_<<peerSent, upstreamGot>>
           /\ [Outward!Next]_<<upstreamSent, peerGot>>
    <2> SUFFICES ASSUME FramesInv, [Next]_vars
                 PROVE  /\ [Inward!Next]_<<peerSent, upstreamGot>>
                        /\ [Outward!Next]_<<upstreamSent, peerGot>>
      OBVIOUS
    <2>1. /\ Relays(peerSent, upstreamGot, peerSent', upstreamGot')
          /\ Relays(upstreamSent, peerGot, upstreamSent', peerGot')
      BY RelaysStep DEF FramesInv
    <2>2. [Inward!Next]_<<peerSent, upstreamGot>>
      BY <2>1 DEF Relays, SentOne, Inward!Next
    <2>3. [Outward!Next]_<<upstreamSent, peerGot>>
      BY <2>1 DEF Relays, SentOne, Outward!Next
    <2>4. QED
      BY <2>2, <2>3
  <1>3. QED
    BY <1>1, <1>2, FramesInvariant, PTL DEF Spec, Relayed, Inward!Spec, Outward!Spec

=============================================================================
