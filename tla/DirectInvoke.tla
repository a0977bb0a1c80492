---------------------------- MODULE DirectInvoke ----------------------------
(***************************************************************************)
(* SandboxClient.invoke and _invoke_direct (python/yr_sandbox/             *)
(* _transport.py): a logical action is tried up to MaxAttempts times over  *)
(* frontend /direct, which forwards to the sandbox's RRT server, and falls *)
(* back to frontend /invoke (RuntimeRPC).  Several threads may call invoke *)
(* on one client: the enable flags and the route-miss counter are shared.  *)
(*                                                                         *)
(* RRT deduplicates direct requests by request id, so it executes a call   *)
(* at most once; RuntimeRPC knows nothing of what RRT executed.  A request *)
(* that left the client may reach RRT long after the client gave up on it. *)
(***************************************************************************)
EXTENDS Naturals, FiniteSets

CONSTANTS Calls,        \* logical calls of invoke, one request id each
          Bounded,      \* the calls with a deadline (timeout not negative)
          MaxAttempts,  \* _DIRECT_MAX_ATTEMPTS
          MissBudget    \* _DIRECT_ROUTE_MISS_BUDGET

ASSUME InvokeAssumption ==
    /\ Bounded \subseteq Calls
    /\ MaxAttempts \in Nat \ {0}
    /\ MissBudget \in Nat

VARIABLES enabled,   \* _direct_enabled
          disabled,  \* _direct_disabled: sticky
          misses,    \* _direct_route_misses
          pc,        \* where each call is
          attempt,   \* the attempt each call is in
          lastFail,  \* class of the last failure: last_error, last_failure_safe
          outcome,   \* how each call ended
          expired,   \* calls whose deadline has passed
          sent,      \* calls whose current attempt left the client for RRT
          wire,      \* calls with a request on its way to RRT
          viaRRT,    \* calls RRT has executed
          viaRPC,    \* calls RuntimeRPC has executed
          doubt      \* history: calls with an attempt of unknown outcome

client == <<enabled, disabled, misses>>
thread == <<pc, attempt, lastFail, outcome>>
server == <<wire, viaRRT, viaRPC>>
invokeVars == <<client, thread, expired, sent, server, doubt>>

(***************************************************************************)
(* pc: "top" is the head of the attempt loop, "posted" waits for the       *)
(* reply of a direct attempt, "failed" is after a retryable failure.       *)
(***************************************************************************)
InDirect == {"top", "posted", "failed"}
PCs == InDirect \cup {"idle", "fallback", "rpc", "done"}
Failures == {"none", "safe", "unknown", "gateway"}
Outcomes == {"none", "result", "unknown", "http", "deadline", "rpcerror"}

InvokeInit ==
    /\ enabled = TRUE
    /\ disabled = FALSE
    /\ misses = 0
    /\ pc = [c \in Calls |-> "idle"]
    /\ attempt = [c \in Calls |-> 0]
    /\ lastFail = [c \in Calls |-> "none"]
    /\ outcome = [c \in Calls |-> "none"]
    /\ expired = {}
    /\ sent = {}
    /\ wire = {}
    /\ viaRRT = {}
    /\ viaRPC = {}
    /\ doubt = {}

(* The call returns or raises. *)
End(c, how) ==
    /\ pc' = [pc EXCEPT ![c] = "done"]
    /\ outcome' = [outcome EXCEPT ![c] = how]

-----------------------------------------------------------------------------
(***************************************************************************)
(* set_direct_enabled: switching direct off also sets the sticky flag,     *)
(* switching it on again does not clear it.                                *)
(***************************************************************************)
SetDirectEnabled(b) ==
    /\ enabled' = b
    /\ disabled' = (disabled \/ ~b)
    /\ UNCHANGED <<misses, thread, expired, sent, server, doubt>>

(* The deadline of a call passes while the call runs. *)
Expire(c) ==
    /\ c \in Bounded \ expired
    /\ pc[c] \notin {"idle", "done"}
    /\ expired' = expired \cup {c}
    /\ UNCHANGED <<client, thread, sent, server, doubt>>

(* invoke: /direct first unless it is switched off or was given up. *)
Invoke(c) ==
    /\ pc[c] = "idle"
    /\ IF enabled /\ ~disabled
       THEN /\ pc' = [pc EXCEPT ![c] = "top"]
            /\ attempt' = [attempt EXCEPT ![c] = 1]
       ELSE /\ pc' = [pc EXCEPT ![c] = "fallback"]
            /\ UNCHANGED attempt
    /\ UNCHANGED <<client, lastFail, outcome, expired, sent, server, doubt>>

(* The POST of one attempt, with the deadline still ahead. *)
Post(c) ==
    /\ pc[c] = "top"
    /\ c \notin expired
    /\ pc' = [pc EXCEPT ![c] = "posted"]
    /\ sent' = sent \ {c}
    /\ UNCHANGED <<client, attempt, lastFail, outcome, expired, server, doubt>>

(* external: the frontend forwards the request towards RRT. *)
Forward(c) ==
    /\ pc[c] = "posted"
    /\ c \notin sent
    /\ sent' = sent \cup {c}
    /\ wire' = wire \cup {c}
    /\ UNCHANGED <<client, thread, expired, viaRRT, viaRPC, doubt>>

(* external: RRT executes the request, or finds its id already executed. *)
RRTExecute(c) ==
    /\ c \in wire
    /\ wire' = wire \ {c}
    /\ viaRRT' = viaRRT \cup {c}
    /\ UNCHANGED <<client, thread, expired, sent, viaRPC, doubt>>

-----------------------------------------------------------------------------
(* A retryable failure of class f: the loop decides next. *)
Failed(c, f) ==
    /\ misses' = 0
    /\ lastFail' = [lastFail EXCEPT ![c] = f]
    /\ pc' = [pc EXCEPT ![c] = "failed"]
    /\ UNCHANGED <<enabled, disabled, attempt, outcome, expired, sent, server>>

(* Mutant: an error that can follow the send is classed as a connect error. *)
SafeFailureAfterSend(c) ==
    /\ pc[c] = "posted"
    /\ Failed(c, "safe")
    /\ UNCHANGED doubt

(***************************************************************************)
(* ConnectError, ConnectTimeout, PoolTimeout: nothing was sent.            *)
(***************************************************************************)
SafeFailure(c) ==
    /\ pc[c] = "posted"
    /\ c \notin sent
    /\ Failed(c, "safe")
    /\ UNCHANGED doubt

(***************************************************************************)
(* Read, write and protocol errors, or a 200 whose body is not JSON: RRT   *)
(* may or may not have the request.                                        *)
(***************************************************************************)
UnknownFailure(c) ==
    /\ pc[c] = "posted"
    /\ Failed(c, "unknown")
    /\ doubt' = doubt \cup {c}

(* 502, 503, 504 that is not terminal: retried, kept as the error to raise. *)
GatewayFailure(c) ==
    /\ pc[c] = "posted"
    /\ Failed(c, "gateway")
    /\ doubt' = doubt \cup {c}

(* Any other RequestError: raised at once, outcome unknown. *)
OtherTransportError(c) ==
    /\ pc[c] = "posted"
    /\ misses' = 0
    /\ End(c, "unknown")
    /\ UNCHANGED <<enabled, disabled, attempt, lastFail, expired, sent, server, doubt>>

(***************************************************************************)
(* An HTTP error that ends the call: a terminal body leaves the miss       *)
(* counter alone, any other status outside 404 and the gateway codes       *)
(* resets it.                                                              *)
(***************************************************************************)
HttpError(c, terminal) ==
    /\ pc[c] = "posted"
    /\ misses' = IF terminal THEN misses ELSE 0
    /\ End(c, "http")
    /\ UNCHANGED <<enabled, disabled, attempt, lastFail, expired, sent, server, doubt>>

(***************************************************************************)
(* 404: the frontend has no direct route.  The call falls back whatever    *)
(* its earlier attempts met; past the budget direct is given up for good.  *)
(***************************************************************************)
RouteMiss(c) ==
    /\ pc[c] = "posted"
    /\ c \notin sent
    /\ misses' = misses + 1
    /\ disabled' = (disabled \/ misses' > MissBudget)
    /\ pc' = [pc EXCEPT ![c] = "fallback"]
    /\ UNCHANGED <<enabled, attempt, lastFail, outcome, expired, sent, server, doubt>>

(* 200 with JSON: RRT executed the call. *)
DirectResult(c) ==
    /\ pc[c] = "posted"
    /\ c \in sent \cap viaRRT
    /\ misses' = 0
    /\ End(c, "result")
    /\ UNCHANGED <<enabled, disabled, attempt, lastFail, expired, sent, server, doubt>>

(* Back-off and next attempt. *)
Retry(c) ==
    /\ pc[c] = "failed"
    /\ attempt[c] < MaxAttempts
    /\ c \notin expired
    /\ attempt' = [attempt EXCEPT ![c] = @ + 1]
    /\ pc' = [pc EXCEPT ![c] = "top"]
    /\ UNCHANGED <<client, lastFail, outcome, expired, sent, server, doubt>>

(* Out of the loop: no attempts left, or no time. *)
Exhausted(c) ==
    \/ pc[c] = "failed" /\ (attempt[c] >= MaxAttempts \/ c \in expired)
    \/ pc[c] = "top" /\ c \in expired

(***************************************************************************)
(* The loop ends without an answer.  Only the last failure decides: a safe *)
(* one gives direct up and falls back, a gateway reply is raised as such,  *)
(* anything else is an unknown outcome.                                    *)
(***************************************************************************)
GiveUp(c) ==
    /\ Exhausted(c)
    /\ IF lastFail[c] = "safe"
       THEN /\ disabled' = TRUE
            /\ pc' = [pc EXCEPT ![c] = "fallback"]
            /\ UNCHANGED outcome
       ELSE /\ End(c, IF lastFail[c] = "gateway" THEN "http" ELSE "unknown")
            /\ UNCHANGED disabled
    /\ UNCHANGED <<enabled, misses, attempt, lastFail, expired, sent, server, doubt>>

-----------------------------------------------------------------------------
(* The frontend fallback: posted only while the deadline is ahead. *)
Fallback(c) ==
    /\ pc[c] = "fallback"
    /\ IF c \in expired
       THEN End(c, "deadline")
       ELSE pc' = [pc EXCEPT ![c] = "rpc"] /\ UNCHANGED outcome
    /\ UNCHANGED <<client, attempt, lastFail, expired, sent, server, doubt>>

(* external: the frontend hands the call to RuntimeRPC. *)
RPCExecute(c) ==
    /\ pc[c] = "rpc"
    /\ viaRPC' = viaRPC \cup {c}
    /\ UNCHANGED <<client, thread, expired, sent, wire, viaRRT, doubt>>

(***************************************************************************)
(* The fallback's reply, unwrapped by _json, or any error it raises.  A    *)
(* 200 that is empty or not JSON is unwrapped to an empty object, so the   *)
(* call may return normally although nobody executed it.                   *)
(***************************************************************************)
FallbackReply(c) ==
    /\ pc[c] = "rpc"
    /\ \E how \in {"result", "rpcerror"} : End(c, how)
    /\ UNCHANGED <<client, attempt, lastFail, expired, sent, server, doubt>>

(* The reply, or failure, of a direct attempt. *)
Answer(c) ==
    \/ SafeFailure(c)
    \/ UnknownFailure(c)
    \/ GatewayFailure(c)
    \/ OtherTransportError(c)
    \/ \E terminal \in BOOLEAN : HttpError(c, terminal)
    \/ RouteMiss(c)
    \/ DirectResult(c)

(* Steps the calling thread takes by itself. *)
ThreadStep(c) ==
    \/ Post(c)
    \/ Retry(c)
    \/ GiveUp(c)
    \/ Fallback(c)

InvokeNext ==
    \/ \E b \in BOOLEAN : SetDirectEnabled(b)
    \/ \E c \in Calls :
        \/ Invoke(c)
        \/ Expire(c)
        \/ ThreadStep(c)
        \/ Answer(c)
        \/ FallbackReply(c)
        \/ Forward(c)
        \/ RRTExecute(c)
        \/ RPCExecute(c)

InvokeSpec == InvokeInit /\ [][InvokeNext]_invokeVars

-----------------------------------------------------------------------------
(* Type correctness of the client, the threads and the servers. *)
InvokeTypeOK ==
    /\ enabled \in BOOLEAN
    /\ disabled \in BOOLEAN
    /\ misses \in Nat
    /\ pc \in [Calls -> PCs]
    /\ attempt \in [Calls -> 0 .. MaxAttempts]
    /\ lastFail \in [Calls -> Failures]
    /\ outcome \in [Calls -> Outcomes]
    /\ expired \subseteq Bounded
    /\ sent \subseteq Calls
    /\ wire \subseteq Calls
    /\ viaRRT \subseteq Calls
    /\ viaRPC \subseteq Calls
    /\ doubt \subseteq Calls

(***************************************************************************)
(* A call is executed both by RRT and by RuntimeRPC only if one of its     *)
(* attempts ended with an unknown outcome: safe failures, route misses and *)
(* other threads' calls alone never duplicate a side effect.               *)
(***************************************************************************)
ReplayNeedsDoubt == viaRRT \cap viaRPC \subseteq doubt

(***************************************************************************)
(* The attempt on which invoke decides to fall back never left the client: *)
(* "No connection was established and no request bytes reached RRT" holds  *)
(* of the last attempt, and the fallback never races a live direct reply.  *)
(***************************************************************************)
FallbackAttemptUnsent == \A c \in Calls : pc[c] \in {"fallback", "rpc"} => c \notin sent

(***************************************************************************)
(* What the docstring of _invoke_direct promises of the whole call: no     *)
(* call RRT executed is replayed through RuntimeRPC.  The code breaks it   *)
(* when a safe failure or a route miss follows an unknown outcome.         *)
(***************************************************************************)
NeverExecutedTwice == viaRRT \cap viaRPC = {}
=============================================================================
