-------------------------- MODULE SandboxLifecycle --------------------------
(***************************************************************************)
(* The life of one Sandbox handle (python/yr_sandbox/sandbox_api.py):      *)
(* the constructor with its create retries and its rollback, and kill()    *)
(* and close() from several threads, over SandboxClient.create_info and    *)
(* SandboxClient.delete (python/yr_sandbox/_transport.py).                 *)
(*                                                                         *)
(* The frontend is external: a posted create may be executed long after    *)
(* the client has given it up, a later attempt may get the sandbox of an   *)
(* earlier one or another, and any answer may be lost.                     *)
(***************************************************************************)
EXTENDS Naturals

CONSTANTS Callers,    \* threads that call kill() or close()
          CreateMax,  \* _CREATE_MAX_ATTEMPTS
          DeleteMax   \* _DELETE_MAX_ATTEMPTS

ASSUME MaxAssumption == CreateMax \in Nat \ {0} /\ DeleteMax \in Nat \ {0}

VARIABLES opts,     \* the constructor's detached and upstream arguments
          init,     \* the constructor: stage, attempts made, tries to delete
          sid,      \* self._sid; 0 stands for the empty string
          handle,   \* self._closed, _tunnel_client, its thread, the client
          call,     \* the kill() or close() of each caller
          flying,   \* create requests the frontend has not executed yet
          remote,   \* the sandboxes that exist
          deleted   \* whether a DELETE was confirmed to this process (history)

vars == <<opts, init, sid, handle, call, flying, remote, deleted>>

Attempts == 1 .. CreateMax
Stages == {"create", "posted", "tunnel", "ready", "rb_tunnel", "rb_delete",
           "rb_client", "failed", "interrupted"}
Threads == {"none", "running", "stopping"}
CallStages == {"idle", "check", "mark", "stop", "delete", "release", "raise",
               "noop", "ok", "raised"}

Init ==
    /\ opts \in [detached : BOOLEAN, tunnel : BOOLEAN]
    /\ init = [stage |-> "create", attempts |-> 0, tries |-> 0]
    /\ sid = 0
    /\ handle = [closed |-> FALSE, tunnel |-> FALSE, thread |-> "none", client |-> TRUE]
    /\ call = [c \in Callers |-> [op |-> "none", at |-> "idle", tries |-> 0]]
    /\ flying = {} /\ remote = {} /\ deleted = FALSE

-----------------------------------------------------------------------------
(* create_info: one attempt, under the one request id of this create. *)
Post ==
    /\ init.stage = "create"
    /\ init' = [init EXCEPT !.stage = "posted", !.attempts = @ + 1]
    /\ flying' = flying \cup {init.attempts + 1}
    /\ UNCHANGED <<opts, sid, handle, call, remote, deleted>>

(* external: the frontend executes a request, now or much later, or finds *)
(* the sandbox it made for an earlier attempt of the same request id.     *)
Executed(n) ==
    /\ n \in flying
    /\ flying' = flying \ {n}
    /\ remote' \in {remote, remote \cup {n}}
    /\ UNCHANGED <<opts, init, sid, handle, call, deleted>>

(***************************************************************************)
(* The final event says running and names the sandbox.  An answer that is  *)
(* no event stream is taken as it is, without a look at the status: it     *)
(* names a sandbox the frontend has dealt with, which need not run.        *)
(***************************************************************************)
Created(i) ==
    /\ init.stage = "posted"
    /\ \/ i \in remote
       \/ i \in (1 .. init.attempts) \ flying
    /\ sid' = i
    /\ init' = [init EXCEPT !.stage = IF opts.tunnel THEN "tunnel" ELSE "ready"]
    /\ UNCHANGED <<opts, handle, call, flying, remote, deleted>>

(***************************************************************************)
(* A transport error or a gateway status: again, unless this was the last  *)
(* attempt or the deadline of the create has passed.                       *)
(***************************************************************************)
AttemptLost ==
    /\ init.stage = "posted"
    /\ \/ /\ init.attempts < CreateMax
          /\ init' = [init EXCEPT !.stage = "create"]
       \/ init' = [init EXCEPT !.stage = "rb_tunnel"]
    /\ UNCHANGED <<opts, sid, handle, call, flying, remote, deleted>>

(* Refused, not running, no final event, or an answer without an id. *)
CreateFails ==
    /\ init.stage = "posted"
    /\ init' = [init EXCEPT !.stage = "rb_tunnel"]
    /\ UNCHANGED <<opts, sid, handle, call, flying, remote, deleted>>

(* TunnelClient.start, which starts the thread. *)
TunnelConnects ==
    /\ init.stage = "tunnel"
    /\ init' = [init EXCEPT !.stage = "ready"]
    /\ handle' = [handle EXCEPT !.tunnel = TRUE, !.thread = "running"]
    /\ UNCHANGED <<opts, sid, call, flying, remote, deleted>>

(***************************************************************************)
(* An exception before or after the client was made, or no connection in   *)
(* time: then stop(), which may raise and leave the client in the handle.  *)
(***************************************************************************)
TunnelFails ==
    /\ init.stage = "tunnel"
    /\ init' = [init EXCEPT !.stage = "rb_tunnel"]
    /\ \E held \in BOOLEAN, thread \in {"none", "stopping"} :
          handle' = [handle EXCEPT !.tunnel = held, !.thread = thread]
    /\ UNCHANGED <<opts, sid, call, flying, remote, deleted>>

(***************************************************************************)
(* The thread after a TunnelClient.stop(): told to stop in any case, it    *)
(* has ended or not, if stop() raised or waited in vain.                   *)
(***************************************************************************)
AfterStop(thread) == IF thread = "none" THEN {"none"} ELSE {"none", "stopping"}

(* stop() if there is a tunnel, and the handle drops it, even if it raised. *)
Dropped ==
    IF handle.tunnel
    THEN {[handle EXCEPT !.tunnel = FALSE, !.thread = t] : t \in AfterStop(handle.thread)}
    ELSE {handle}

(* A thread that was told to stop ends later (TunnelLink has the details). *)
ThreadEnds ==
    /\ handle.thread = "stopping"
    /\ handle' = [handle EXCEPT !.thread = "none"]
    /\ UNCHANGED <<opts, init, sid, call, flying, remote, deleted>>

-----------------------------------------------------------------------------
(* external: what the frontend answers to DELETE, and what it did. *)
DeleteAnswers(i) ==
    {[says |-> "deleted", left |-> remote \ {i}],
     [says |-> "refused", left |-> remote],
     [says |-> "lost", left |-> remote],
     [says |-> "lost", left |-> remote \ {i}]}

(* SandboxClient.delete after one more try: return, raise, or try again; *)
(* a 404 is a successful delete.                                         *)
AfterDelete(says, tries) ==
    IF says = "deleted" THEN "return"
    ELSE IF says = "refused" \/ tries >= DeleteMax THEN "raise"
    ELSE "again"

(* Rollback of a constructor that failed: the tunnel ... *)
RollbackTunnel ==
    /\ init.stage = "rb_tunnel"
    /\ handle' \in Dropped
    /\ init' = [init EXCEPT !.stage = IF sid = 0 THEN "rb_client" ELSE "rb_delete"]
    /\ UNCHANGED <<opts, sid, call, flying, remote, deleted>>

(* ... the sandbox, detached or not, if its id is known ... *)
RollbackDelete ==
    /\ init.stage = "rb_delete"
    /\ \E answer \in DeleteAnswers(sid) :
          LET then == AfterDelete(answer.says, init.tries + 1) IN
          /\ remote' = answer.left
          /\ deleted' = (deleted \/ then = "return")
          /\ init' = IF then = "again"
                     THEN [init EXCEPT !.tries = @ + 1]
                     ELSE [init EXCEPT !.stage = "rb_client"]
    /\ UNCHANGED <<opts, sid, handle, call, flying>>

(* ... and the client, whatever happened before. *)
RollbackClient ==
    /\ init.stage = "rb_client"
    /\ handle' = [handle EXCEPT !.client = FALSE, !.closed = TRUE]
    /\ init' = [init EXCEPT !.stage = "failed"]
    /\ UNCHANGED <<opts, sid, call, flying, remote, deleted>>

(***************************************************************************)
(* A KeyboardInterrupt is no Exception: it ends the constructor without    *)
(* its rollback, and a rollback where it stands, _closed being set last.   *)
(* Before that the tunnel or the client may have changed already.          *)
(***************************************************************************)
Interrupted ==
    /\ init.stage \notin {"ready", "failed", "interrupted"}
    /\ init' = [init EXCEPT !.stage = "interrupted"]
    /\ \/ UNCHANGED handle
       \/ /\ init.stage = "tunnel"
          /\ \E t \in Threads : handle' = [handle EXCEPT !.tunnel = TRUE, !.thread = t]
       \/ /\ init.stage = "rb_tunnel" /\ handle.tunnel
          /\ \E t \in AfterStop(handle.thread) : handle' = [handle EXCEPT !.thread = t]
       \/ init.stage = "rb_client" /\ handle' = [handle EXCEPT !.client = FALSE]
    /\ UNCHANGED <<opts, sid, call, flying, remote, deleted>>

-----------------------------------------------------------------------------
Go(c, where) == call' = [call EXCEPT ![c].at = where]

(* kill(), close(), __exit__ and __del__ all come to _close; of a handle
   that nobody got there is only the one __del__. *)
Begin(c, op) ==
    /\ \/ init.stage = "ready"
       \/ init.stage = "interrupted" /\ op = "kill" /\ \A d \in Callers : call[d].at = "idle"
    /\ call[c].at = "idle"
    /\ call' = [call EXCEPT ![c] = [@ EXCEPT !.op = op, !.at = "check"]]
    /\ UNCHANGED <<opts, init, sid, handle, flying, remote, deleted>>

(* _close reads _closed and sets it in two steps, without a lock. *)
Check(c) ==
    /\ call[c].at = "check"
    /\ Go(c, IF handle.closed THEN "noop" ELSE "mark")
    /\ UNCHANGED <<opts, init, sid, handle, flying, remote, deleted>>

MarkClosed(c) ==
    /\ call[c].at = "mark"
    /\ Go(c, "stop")
    /\ handle' = [handle EXCEPT !.closed = TRUE]
    /\ UNCHANGED <<opts, init, sid, flying, remote, deleted>>

(* Mutant: close() deletes the sandbox as kill() does. *)
StopForBoth(c) ==
    /\ call[c].at = "stop"
    /\ handle' \in Dropped
    /\ Go(c, IF opts.detached THEN "release" ELSE "delete")
    /\ UNCHANGED <<opts, init, sid, flying, remote, deleted>>

(* The tunnel, the shells and the terminals; their errors are logged. *)
Stop(c) ==
    /\ call[c].at = "stop"
    /\ handle' \in Dropped
    /\ Go(c, IF call[c].op = "kill" /\ ~opts.detached THEN "delete" ELSE "release")
    /\ UNCHANGED <<opts, init, sid, flying, remote, deleted>>

(* Mutant: a lost DELETE counts as a confirmed one. *)
DeleteLostIsDone(c) ==
    /\ call[c].at = "delete"
    /\ handle.client
    /\ \E answer \in DeleteAnswers(sid) :
          /\ remote' = answer.left
          /\ deleted' = TRUE
          /\ Go(c, IF answer.says = "refused" THEN "raise" ELSE "release")
    /\ UNCHANGED <<opts, init, sid, handle, flying>>

(* One try of the DELETE; a lease closed by another thread raises. *)
Delete(c) ==
    /\ call[c].at = "delete"
    /\ handle.client
    /\ \E answer \in DeleteAnswers(sid) :
          LET then == AfterDelete(answer.says, call[c].tries + 1) IN
          /\ remote' = answer.left
          /\ deleted' = (deleted \/ then = "return")
          /\ call' = CASE then = "again" -> [call EXCEPT ![c].tries = @ + 1]
                       [] then = "raise" -> [call EXCEPT ![c].at = "raise"]
                       [] then = "return" -> [call EXCEPT ![c].at = "release"]
    /\ UNCHANGED <<opts, init, sid, handle, flying>>

DeleteOnClosedClient(c) ==
    /\ call[c].at = "delete"
    /\ ~handle.client
    /\ Go(c, "raise")
    /\ UNCHANGED <<opts, init, sid, handle, flying, remote, deleted>>

(* Mutant: without the finally, an error leaves the client open. *)
ReleaseOnReturn(c) ==
    /\ call[c].at \in {"release", "raise"}
    /\ handle' = [handle EXCEPT !.client = (call[c].at = "raise") /\ @]
    /\ Go(c, IF call[c].at = "raise" THEN "raised" ELSE "ok")
    /\ UNCHANGED <<opts, init, sid, flying, remote, deleted>>

(* finally: the client is closed, whether the delete returned or raised. *)
Release(c) ==
    /\ call[c].at \in {"release", "raise"}
    /\ handle' = [handle EXCEPT !.client = FALSE]
    /\ Go(c, IF call[c].at = "raise" THEN "raised" ELSE "ok")
    /\ UNCHANGED <<opts, init, sid, flying, remote, deleted>>

-----------------------------------------------------------------------------
ConstructorStep ==
    \/ Post
    \/ \E i \in Attempts : Created(i)
    \/ AttemptLost
    \/ CreateFails
    \/ TunnelConnects
    \/ TunnelFails
    \/ RollbackTunnel
    \/ RollbackDelete
    \/ RollbackClient

CallStep(c) ==
    \/ Check(c)
    \/ MarkClosed(c)
    \/ Stop(c)
    \/ Delete(c)
    \/ DeleteOnClosedClient(c)
    \/ Release(c)

Next ==
    \/ ConstructorStep \/ Interrupted \/ ThreadEnds
    \/ \E n \in Attempts : Executed(n)
    \/ \E c \in Callers, op \in {"kill", "close"} : Begin(c, op)
    \/ \E c \in Callers : CallStep(c)

Spec == Init /\ [][Next]_vars

-----------------------------------------------------------------------------
(* Type correctness; the retries stay within their limits. *)
TypeOK ==
    /\ opts \in [detached : BOOLEAN, tunnel : BOOLEAN]
    /\ init \in [stage : Stages, attempts : 0 .. CreateMax, tries : 0 .. DeleteMax - 1]
    /\ sid \in 0 .. CreateMax
    /\ handle \in [closed : BOOLEAN, tunnel : BOOLEAN, thread : Threads, client : BOOLEAN]
    /\ call \in [Callers -> [op : {"none", "kill", "close"}, at : CallStages,
                             tries : 0 .. DeleteMax - 1]]
    /\ flying \subseteq Attempts
    /\ remote \subseteq Attempts
    /\ deleted \in BOOLEAN

(***************************************************************************)
(* Once the client was told that its sandbox is deleted, it is gone and    *)
(* stays gone: a kill() that did the work, or a rollback, leaves at most   *)
(* sandboxes this process never learned the id of, however late an earlier *)
(* create attempt is executed and however the teardowns of two threads     *)
(* interleave.  A kill() that ran the teardown and returned normally has   *)
(* been told so; only one that found _closed set returns without.  After   *)
(* an interrupted constructor the kill() of __del__ does the same, but the *)
(* empty id of a create that was not answered deletes nothing.             *)
(***************************************************************************)
DeletedIsGone ==
    /\ deleted => sid \notin remote
    /\ \A c \in Callers :
          call[c].op = "kill" /\ call[c].at = "ok" /\ ~opts.detached => deleted

(***************************************************************************)
(* From the moment the constructor knows of its sandbox, and as long as it *)
(* does not fail and nobody calls kill(), or the sandbox is detached, no   *)
(* step of a close(), a retry or a late answer takes the sandbox away.     *)
(***************************************************************************)
KeptUntilKill ==
    [][init'.stage \in {"tunnel", "ready"} /\ sid \in remote =>
          \/ sid \in remote'
          \/ ~opts.detached /\ \E c \in Callers : call[c].op = "kill"]_vars

(***************************************************************************)
(* What the handle holds locally is released: after the constructor failed *)
(* or a teardown began, the tunnel was told to stop and is dropped and the *)
(* client's lease is given back, even if stop() or every DELETE fails and  *)
(* whoever else tears down; an interrupted constructor leaves that to      *)
(* __del__.  Whether the thread of a tunnel that was told to stop ends is  *)
(* the subject of TunnelLink: stop() may return before.                    *)
(***************************************************************************)
ClosedReleases ==
    handle.closed \/ init.stage = "rb_tunnel" ~>
        \/ ~handle.tunnel /\ handle.thread # "running" /\ ~handle.client
        \/ init.stage = "interrupted" /\ ~handle.closed

=============================================================================
