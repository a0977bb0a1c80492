----------------------------- MODULE TunnelDedup -----------------------------
(***************************************************************************)
(* Plain HTTP requests of the tunnel: hello, http_req and error frames,    *)
(* handle_http_req, build_http_resp_frame, await_and_send and the cache of *)
(* answers (python/yr_sandbox/tunnel_client.py, _proxy_loop).              *)
(*                                                                         *)
(* After a reconnect the peer replays every request it has no answer to.   *)
(* The client must know such a request again: by its task (inflight), its  *)
(* cached answer (completed) or its response stream (response_credits).    *)
(***************************************************************************)
EXTENDS TunnelWire, Sequences, SequencesExt

CONSTANTS Ids,          \* request ids
          MaxInflight,  \* self._max_inflight
          PeerLimits,   \* values of max_inflight a hello may carry
          CacheLimit    \* _COMPLETED_FRAME_LIMIT, and the bytes limit

ASSUME DedupAssumption ==
    /\ IsFiniteSet(Ids)
    /\ {MaxInflight, CacheLimit} \subseteq Nat \ {0}
    /\ PeerLimits \subseteq Nat \ {0}

VARIABLES lim,        \* negotiated_max_inflight
          v2,         \* connections with negotiated_protocol_version 2
          asks,       \* http_req frames on their way
          cancels,    \* error frames on their way to the client
          answers,    \* frames on their way to the peer
          peer,       \* external: what the peer knows of each request
          jobs,       \* http_tasks, each with what it is about to do
          completed,  \* ids of cached answers, oldest first
          aged,       \* how many of them are older than the TTL
          credits,    \* ids in response_credits
          execs,      \* history: upstream requests started for each id
          forgot      \* history: ids the client has forgotten

dedup == <<lim, v2, asks, cancels, answers, peer, jobs, completed, aged, credits,
           execs, forgot>>
peers == <<asks, cancels, peer>>
store == <<completed, aged, credits>>
hist == <<execs, forgot>>

(* A task is in inflight until build_http_resp_frame returns. *)
Building == {"build", "begin first", "stream"}
Inflight == {j.id : j \in {k \in jobs : k.what \in Building}}

(* The connection whose frames the receive loop reads; its tasks keep the
   state of that _proxy_loop. *)
Connection == IF link = "lost" THEN losses ELSE losses + 1
Job(r, what) == [id |-> r, what |-> what, conn |-> Connection]

DedupInit ==
    /\ lim = MaxInflight /\ v2 = {}
    /\ asks = {} /\ cancels = {} /\ answers = {}
    /\ peer = [r \in Ids |-> "new"]
    /\ jobs = {} /\ completed = <<>> /\ aged = 0 /\ credits = {}
    /\ execs = [r \in Ids |-> 0] /\ forgot = {}

-----------------------------------------------------------------------------
(* The first usable hello of a connection decides; later ones are ignored. *)
RxHello(n) ==
    /\ RxReads
    /\ Connection \notin v2
    /\ v2' = v2 \cup {Connection}
    /\ lim' = IF n < MaxInflight THEN n ELSE MaxInflight
    /\ UNCHANGED <<wire, answers, jobs, peers, store, hist>>

(* cleanup_completed: what is too old goes, then the oldest over the limit. *)
Cleaned(cache) ==
    SubSeq(cache, 1 + (IF Len(cache) - aged > CacheLimit THEN Len(cache) - CacheLimit ELSE aged),
           Len(cache))

Recall(cache) ==
    /\ completed' = cache
    /\ aged' = 0
    /\ forgot' = forgot \cup (ToSet(completed) \ ToSet(cache))

(* Mutant: a replayed request in flight is not looked up. *)
ExistingCached(r) == r \in ToSet(completed)

(* is_existing, which is asked before the cache is cleaned. *)
Existing(r) == r \in Inflight \/ r \in ToSet(completed)

(* len(http_tasks) < negotiated_max_inflight. *)
Room == Cardinality(jobs) < lim

(* http_req over the limit. *)
RxRefuse(r) ==
    /\ RxReads /\ r \in asks
    /\ ~Existing(r) /\ ~Room
    /\ asks' = asks \ {r}
    /\ RxSends
    /\ answers' = IF link = "up" THEN answers \cup {<<r, "refused">>} ELSE answers
    /\ UNCHANGED <<lim, v2, cancels, peer, jobs, store, hist>>

(* Mutant: a request whose task is running is started again. *)
KnownByAnswer(r, cache) ==
    IF r \in credits THEN {Job(r, "begin")}
    ELSE IF r \in ToSet(cache) THEN {Job(r, "resp")}
    ELSE {Job(r, "build")}

(* Mutant: a request that was answered is not answered again. *)
AnsweredOnce(r, cache) ==
    IF r \in ToSet(cache) \/ r \in Inflight \/ r \in credits THEN {} ELSE {Job(r, "build")}

(* Which task handle_http_req makes of a request: send the begin frame or the
   cached answer again, nothing as long as it runs, or run it. *)
TaskFor(r, cache) ==
    IF r \in credits THEN {Job(r, "begin")}
    ELSE IF r \in ToSet(cache) THEN {Job(r, "resp")}
    ELSE IF r \in Inflight THEN {}
    ELSE {Job(r, "build")}

RxRequest(r) ==
    /\ RxReads /\ r \in asks
    /\ Existing(r) \/ Room
    /\ asks' = asks \ {r}
    /\ Recall(Cleaned(completed))
    /\ LET new == TaskFor(r, Cleaned(completed))
       IN /\ jobs' = jobs \cup new
          /\ execs' = IF new = {Job(r, "build")} THEN [execs EXCEPT ![r] = @ + 1] ELSE execs
    /\ UNCHANGED <<wire, lim, v2, cancels, answers, peer, credits>>

(* error: the peer gave the request up. *)
RxCancel(r) ==
    /\ RxReads /\ r \in cancels
    /\ cancels' = cancels \ {r}
    /\ credits' = credits \ {r}
    /\ jobs' = {j \in jobs : ~(j.id = r /\ j.what \in Building)}
    /\ forgot' = IF r \in credits \cup Inflight THEN forgot \cup {r} ELSE forgot
    /\ UNCHANGED <<wire, lim, v2, asks, answers, peer, completed, aged, execs>>

(* window with "complete": the peer has the whole response. *)
RxComplete(r) ==
    /\ link = "up" /\ ~wedged
    /\ r \in credits \ Inflight /\ peer[r] = "answered"
    /\ credits' = credits \ {r}
    /\ forgot' = forgot \cup {r}
    /\ UNCHANGED <<wire, lim, v2, answers, jobs, peers, completed, aged, execs>>

-----------------------------------------------------------------------------
(* build_http_resp_frame returned a frame, an answer or an upstream error,
   the one of a stream that broke off too: done_callback moves the id from
   inflight to completed. *)
BuildReturns(j) ==
    /\ j \in jobs /\ j.what \in {"build", "stream"}
    /\ jobs' = (jobs \ {j}) \cup {[j EXCEPT !.what = "resp"]}
    /\ Recall(Cleaned(Append(completed, j.id)))
    /\ UNCHANGED <<wire, lim, v2, answers, peers, credits, execs>>

(* A large answer is streamed instead. *)
BuildStreams(j) ==
    /\ j \in jobs /\ j.what = "build" /\ j.conn \in v2
    /\ jobs' = (jobs \ {j}) \cup {[j EXCEPT !.what = "begin first"]}
    /\ credits' = credits \cup {j.id}
    /\ UNCHANGED <<wire, lim, v2, answers, peers, completed, aged, hist>>

(* send_frame of a task waits for a connection, and the task ends. *)
JobSends(j) ==
    /\ link = "up"
    /\ j \in jobs /\ j.what \in {"resp", "begin", "begin first"}
    /\ jobs' = (jobs \ {j}) \cup IF j.what = "begin first"
                                 THEN {[j EXCEPT !.what = "stream"]} ELSE {}
    /\ answers' = answers \cup {<<j.id, "answered">>}
    /\ UNCHANGED <<wire, lim, v2, peers, store, hist>>

(* The end of a streamed answer was sent; nothing is cached. *)
StreamEnds(j) ==
    /\ link = "up"
    /\ j \in jobs /\ j.what = "stream"
    /\ jobs' = jobs \ {j}
    /\ UNCHANGED <<wire, lim, v2, answers, peers, store, hist>>

(* The clock: the oldest cached answer passes its TTL. *)
Age ==
    /\ aged < Len(completed)
    /\ aged' = aged + 1
    /\ UNCHANGED <<wire, lim, v2, answers, jobs, peers, completed, credits, hist>>

-----------------------------------------------------------------------------
(* external: the peer. *)
PeerAsks(r) ==
    /\ link = "up" /\ peer[r] = "new"
    /\ peer' = [peer EXCEPT ![r] = "asked"]
    /\ asks' = asks \cup {r}
    /\ UNCHANGED <<wire, lim, v2, answers, jobs, cancels, store, hist>>

PeerCancels(r) ==
    /\ link = "up" /\ peer[r] = "asked" /\ r \notin asks
    /\ peer' = [peer EXCEPT ![r] = "cancelled"]
    /\ cancels' = cancels \cup {r}
    /\ UNCHANGED <<wire, lim, v2, answers, jobs, asks, store, hist>>

PeerReads(a) ==
    /\ a \in answers
    /\ answers' = answers \ {a}
    /\ peer' = [peer EXCEPT ![a[1]] = IF @ = "asked" THEN a[2] ELSE @]
    /\ UNCHANGED <<wire, lim, v2, jobs, asks, cancels, store, hist>>

-----------------------------------------------------------------------------
(* The frames of a lost connection: some may have been received. *)
DedupLose ==
    /\ asks' \in SUBSET asks /\ cancels' = {} /\ answers' = {}
    /\ UNCHANGED <<lim, v2, peer, jobs, store, hist>>

DedupLeave ==
    /\ asks' = {}
    /\ UNCHANGED <<lim, v2, answers, cancels, peer, jobs, store, hist>>

(* A new connection has no limits yet; the peer replays. *)
DedupConnect ==
    /\ lim' = MaxInflight
    /\ asks' = {r \in Ids : peer[r] = "asked"}
    /\ UNCHANGED <<v2, answers, cancels, peer, jobs, store, hist>>

DedupRun ==
    \/ \E j \in jobs : BuildReturns(j) \/ BuildStreams(j) \/ JobSends(j) \/ StreamEnds(j)
    \/ \E r \in Ids : RxRefuse(r) \/ RxRequest(r) \/ RxCancel(r) \/ RxComplete(r)
    \/ \E a \in answers : PeerReads(a)

DedupNext ==
    \/ DedupRun
    \/ \E n \in PeerLimits : RxHello(n)
    \/ Age
    \/ \E r \in Ids : PeerAsks(r) \/ PeerCancels(r)

-----------------------------------------------------------------------------
(* Type correctness. *)
DedupTypeOK ==
    /\ lim \in 1 .. MaxInflight /\ v2 \subseteq 0 .. MaxLosses + 1
    /\ asks \subseteq Ids /\ cancels \subseteq Ids
    /\ answers \subseteq Ids \X {"answered", "refused"}
    /\ peer \in [Ids -> {"new", "asked", "answered", "refused", "cancelled"}]
    /\ jobs \subseteq [id : Ids, what : Building \cup {"resp", "begin"}, conn : 0 .. MaxLosses + 1]
    /\ completed \in Seq(Ids) /\ Len(completed) <= CacheLimit
    /\ aged \in 0 .. Len(completed) /\ credits \subseteq Ids
    /\ execs \in [Ids -> Nat] /\ forgot \subseteq Ids

(***************************************************************************)
(* However often the connection is lost and a request replayed, the        *)
(* upstream gets it once, as long as the client has not forgotten it: by   *)
(* age or limit of the cache, by the peer's cancel, or with the complete   *)
(* streamed answer.                                                        *)
(***************************************************************************)
ExecutedOnce == \A r \in Ids : execs[r] > 1 => r \in forgot

(***************************************************************************)
(* A request that was refused for max_inflight was not run, so the peer    *)
(* may run it elsewhere, unless it was forgotten or its answer is being    *)
(* streamed: the limit does not know a request by response_credits.        *)
(***************************************************************************)
RefusedNotRun ==
    \A r \in Ids : <<r, "refused">> \in answers =>
        execs[r] = 0 \/ r \in forgot \cup credits

(***************************************************************************)
(* Every request is answered, refused or given up by the peer, whatever    *)
(* frames are lost, unless the receive loop is caught in send_frame.       *)
(***************************************************************************)
EveryRequestAnswered ==
    \A r \in Ids : peer[r] = "asked" ~> peer[r] # "asked" \/ wedged
=============================================================================
