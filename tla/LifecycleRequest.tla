-------------------------- MODULE LifecycleRequest --------------------------
(***************************************************************************)
(* pause, resume, reload, update_network_policy and create_snapshot of a   *)
(* Sandbox (python/yr_sandbox/sandbox_api.py) over                         *)
(* SandboxClient._lifecycle_request and SandboxClient.create_snapshot      *)
(* (python/yr_sandbox/_transport.py).                                      *)
(*                                                                         *)
(* A call is sent up to MaxAttempts times under one request id.  Copies    *)
(* the client has given up may be executed much later.  The frontend is    *)
(* external: it carries a request id out once and repeats its answer.      *)
(***************************************************************************)
EXTENDS Naturals

CONSTANTS Calls,       \* calls, by one thread or several
          MaxAttempts  \* _LIFECYCLE_MAX_ATTEMPTS

ASSUME MaxAttemptsAssumption == MaxAttempts \in Nat \ {0}

VARIABLES request,    \* each call: operation, place, attempt, result
          answer,     \* the answer a waiting call has received
          inTransit,  \* copies of requests that have not reached the frontend
          known,      \* external: the answers recorded under request ids
          server,     \* external: state, snapshot and policy of the sandbox
          settled     \* history: calls begun after all others had succeeded

requests == <<request, answer, inTransit, known, server, settled>>

Operations == {"pause", "resume", "reload", "network", "snapshot"}
Results == {"none", "ok", "refused", "uncertain", "mismatch"}
NoAnswer == [state |-> "none", by |-> <<>>, done |-> FALSE]

(* Mutant: every attempt gets a request id of its own. *)
FreshRequestId(c, attempt) == <<c, attempt>>

(* _new_request_id is called once, before the first attempt. *)
RequestId(c, attempt) == <<c, 1>>

Requests == {RequestId(c, n) : c \in Calls, n \in 1 .. MaxAttempts}
Copies == [call : Calls, attempt : 1 .. MaxAttempts]

RequestInit ==
    /\ request = [c \in Calls |-> [op |-> "none", at |-> "idle", attempt |-> 0, result |-> "none"]]
    /\ answer = [c \in Calls |-> NoAnswer]
    /\ inTransit = {}
    /\ known = [r \in Requests |-> NoAnswer]
    /\ server = [state |-> "running", snapshot |-> <<>>, policy |-> <<>>]
    /\ settled = {}

-----------------------------------------------------------------------------
Succeeded(c) == request[c].result = "ok"
Ends(c, how) == request' = [request EXCEPT ![c] = [@ EXCEPT !.at = "ended", !.result = how]]

(* The handle is open and the arguments are valid. *)
RequestBegin(c, op) ==
    /\ request[c].at = "idle"
    /\ request' = [request EXCEPT ![c] = [@ EXCEPT !.op = op, !.at = "send"]]
    /\ settled' = IF \A d \in Calls \ {c} : request[d].at = "idle" \/ Succeeded(d)
                  THEN {c} ELSE {}
    /\ UNCHANGED <<answer, inTransit, known, server>>

Send(c) ==
    /\ request[c].at = "send"
    /\ request' = [request EXCEPT ![c].at = "wait", ![c].attempt = @ + 1]
    /\ inTransit' = inTransit \cup {[call |-> c, attempt |-> request[c].attempt + 1]}
    /\ UNCHANGED <<answer, known, server, settled>>

(* create_snapshot is sent once, the other operations up to MaxAttempts. *)
Tries(c) == IF request[c].op = "snapshot" THEN 1 ELSE MaxAttempts

(* A transport error or a gateway status, at any time before an answer. *)
Lost(c) ==
    /\ request[c].at = "wait"
    /\ answer[c] = NoAnswer
    /\ IF request[c].attempt < Tries(c)
       THEN request' = [request EXCEPT ![c].at = "send"]
       ELSE Ends(c, "uncertain")
    /\ UNCHANGED <<answer, inTransit, known, server, settled>>

(* Any other status of 400 or more. *)
Refused(c) ==
    /\ request[c].at = "wait"
    /\ answer[c] = NoAnswer
    /\ Ends(c, "refused")
    /\ UNCHANGED <<answer, inTransit, known, server, settled>>

(* Mutant: the snapshot id of the answer is not looked at. *)
AcceptsAny(c) == answer[c].state # "none"

(***************************************************************************)
(* pause and resume check the state they are told, pause also whose        *)
(* snapshot it is, and update_network_policy that the answer says success. *)
(***************************************************************************)
Accepts(c) ==
    CASE request[c].op = "pause" -> answer[c].state = "paused" /\ answer[c].by = RequestId(c, 1)
      [] request[c].op = "resume" -> answer[c].state = "running"
      [] request[c].op = "network" -> answer[c].done
      [] OTHER -> TRUE

Answered(c) ==
    /\ request[c].at = "wait"
    /\ answer[c] # NoAnswer
    /\ Ends(c, IF Accepts(c) THEN "ok" ELSE "mismatch")
    /\ UNCHANGED <<answer, inTransit, known, server, settled>>

-----------------------------------------------------------------------------
(* external: the sandbox after the frontend carried out an operation. *)
After(op, r) ==
    CASE op = "pause" /\ server.state = "running" ->
           [server EXCEPT !.state = "paused", !.snapshot = r]
      [] op = "resume" -> [server EXCEPT !.state = "running"]
      [] op = "network" -> [server EXCEPT !.policy = r]
      [] OTHER -> server

(***************************************************************************)
(* external: a copy arrives, and its request is carried out, or answered   *)
(* without that.  The answer names the snapshot the sandbox is paused in,  *)
(* which is an older one if it was paused already, and reaches the call if *)
(* that attempt is still waited for.                                       *)
(***************************************************************************)
Arrives(m, done) ==
    LET r == RequestId(m.call, m.attempt)
        first == known[r] = NoAnswer
        now == IF first /\ done THEN After(request[m.call].op, r) ELSE server
        says == IF first THEN [state |-> now.state, by |-> now.snapshot, done |-> done]
                ELSE known[r]
        awaited == request[m.call].at = "wait" /\ request[m.call].attempt = m.attempt
    IN /\ m \in inTransit
       /\ inTransit' = inTransit \ {m}
       /\ server' = now
       /\ known' = [known EXCEPT ![r] = says]
       /\ answer' \in {answer, IF awaited THEN [answer EXCEPT ![m.call] = says] ELSE answer}
       /\ UNCHANGED <<request, settled>>

RequestStep(c) ==
    \/ Send(c)
    \/ Lost(c)
    \/ Refused(c)
    \/ Answered(c)

RequestNext ==
    \/ \E c \in Calls, op \in Operations : RequestBegin(c, op)
    \/ \E c \in Calls : RequestStep(c)
    \/ \E m \in Copies, done \in BOOLEAN : Arrives(m, done)

RequestSpec == RequestInit /\ [][RequestNext]_requests

-----------------------------------------------------------------------------
(* Type correctness; the attempts stay within their limits. *)
RequestTypeOK ==
    /\ request \in [Calls -> [op : Operations \cup {"none"}, at : {"idle", "send", "wait", "ended"},
                           attempt : 0 .. MaxAttempts, result : Results]]
    /\ inTransit \subseteq Copies
    /\ server.state \in {"running", "paused"}
    /\ settled \subseteq Calls

(***************************************************************************)
(* A pause() that returned has a snapshot of its own: it is never handed   *)
(* the snapshot of another pause, which somebody else may delete, even if  *)
(* it finds the sandbox paused already or one of its attempts was lost.    *)
(***************************************************************************)
PauseIsOwn ==
    \A c \in Calls : request[c].op = "pause" /\ Succeeded(c) =>
        /\ known[RequestId(c, 1)].state = "paused"
        /\ known[RequestId(c, 1)].by = RequestId(c, 1)

(***************************************************************************)
(* Calls made one after the other leave the sandbox as the last one says:  *)
(* once it returned, no late copy of it or of an earlier successful call   *)
(* pauses, resumes or reconfigures the sandbox again.                      *)
(***************************************************************************)
LastReturnedHolds ==
    \A c \in settled : Succeeded(c) =>
        /\ request[c].op = "pause" => server.state = "paused"
        /\ request[c].op = "resume" => server.state = "running"
        /\ request[c].op = "network" => server.policy = RequestId(c, 1)

=============================================================================
