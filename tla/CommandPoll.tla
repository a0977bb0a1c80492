---------------------------- MODULE CommandPoll -----------------------------
(***************************************************************************)
(* A command with a long timeout: Commands._run_with_poll and              *)
(* CommandHandle.wait over _poll_pid_until_done                            *)
(* (python/yr_sandbox/commands.py).                                        *)
(*                                                                         *)
(* The process runs in the sandbox and may exit at any time; a poll may    *)
(* take as long as invoke does; another thread may close the client.  Time *)
(* is counted from the moment the deadline is computed.                    *)
(***************************************************************************)
EXTENDS Naturals

CONSTANTS Timeout,     \* the caller's timeout
          Interval,    \* the longest poll_wait: _POLL_INTERVAL with its jitter
          RetryDelay,  \* _POLL_RETRY_DELAY
          MaxErrors,   \* _POLL_MAX_CONSECUTIVE_ERRORS
          Slowest      \* bound: the longest a call of invoke takes

ASSUME ConstantsAssumption ==
    /\ {Timeout, Interval, RetryDelay, MaxErrors} \subseteq Nat \ {0}
    /\ Slowest \in Nat /\ Slowest >= Interval

VARIABLES pc,      \* where the caller is
          now,     \* time.monotonic()
          wait,    \* poll_wait of the poll under way
          errors,  \* consecutive_errors
          result,  \* how the call ended
          proc,    \* external: the process in the sandbox
          open     \* whether the client's lease is open

vars == <<pc, now, wait, errors, result, proc, open>>

MinOf(a, b) == IF a <= b THEN a ELSE b

Results == {"none", "notstarted", "done", "error", "timeout", "closed", "fatal",
            "errors"}

Init ==
    /\ pc = "start" /\ now = 0 /\ wait = 0 /\ errors = 0 /\ result = "none"
    /\ proc = "none" /\ open = TRUE

-----------------------------------------------------------------------------
End(how) == pc' = "ended" /\ result' = how

(* process.start; the deadline counts from its answer. *)
Start ==
    /\ pc = "start"
    /\ \/ /\ pc' = "loop" /\ proc' = "running" /\ UNCHANGED result
       \/ /\ End("notstarted") /\ proc' \in {"none", "running"}
    /\ UNCHANGED <<now, wait, errors, open>>

(* Mutant: a poll is still sent at the deadline. *)
SendPollAtDeadline ==
    /\ pc = "loop"
    /\ now <= Timeout
    /\ open
    /\ wait' \in 1 .. (IF now = Timeout THEN 1 ELSE MinOf(Interval, Timeout - now))
    /\ pc' = "poll"
    /\ UNCHANGED <<now, errors, result, proc, open>>

(* The next poll waits for the process no longer than there is time left. *)
SendPoll ==
    /\ pc = "loop"
    /\ now < Timeout
    /\ open
    /\ wait' \in 1 .. MinOf(Interval, Timeout - now)
    /\ pc' = "poll"
    /\ UNCHANGED <<now, errors, result, proc, open>>

(* SandboxClientClosedError is not retried. *)
PollClosed ==
    /\ (pc = "loop" /\ now < Timeout) \/ pc = "poll"
    /\ ~open
    /\ End("closed")
    /\ UNCHANGED <<now, wait, errors, proc, open>>

(***************************************************************************)
(* invoke gives httpx a timeout of max(timeout + buffer, default) for each *)
(* phase of a request, for each piece it reads, and may make two requests: *)
(* the code has no bound on the whole of it, Slowest stands for one.       *)
(***************************************************************************)
LatestAnswer == now + Slowest

Later == now' \in now .. LatestAnswer

PollDone ==
    /\ pc = "poll"
    /\ proc \in {"exited", "killed"}
    /\ Later
    /\ End("done")
    /\ UNCHANGED <<wait, errors, proc, open>>

(* The sandbox does not know the process. *)
PollError ==
    /\ pc = "poll"
    /\ Later
    /\ End("error")
    /\ UNCHANGED <<wait, errors, proc, open>>

(* Still running, after the wait_timeout the sandbox was given. *)
PollRunning ==
    /\ pc = "poll"
    /\ proc = "running"
    /\ now' \in now + wait .. LatestAnswer
    /\ pc' = "loop"
    /\ errors' = 0
    /\ UNCHANGED <<wait, result, proc, open>>

(* A terminal HTTP error is raised at once. *)
PollFatal ==
    /\ pc = "poll"
    /\ Later
    /\ End("fatal")
    /\ UNCHANGED <<wait, errors, proc, open>>

(***************************************************************************)
(* Any other failure: past the deadline the loop ends; after MaxErrors in  *)
(* a row it is raised; else the next poll comes after a pause that ends at *)
(* the deadline at the latest.                                             *)
(***************************************************************************)
PollFails ==
    /\ pc = "poll"
    /\ errors' = errors + 1
    /\ \E t \in now .. LatestAnswer :
          \/ t >= Timeout /\ now' = t /\ pc' = "kill" /\ UNCHANGED result
          \/ t < Timeout /\ errors' >= MaxErrors /\ now' = t /\ End("errors")
          \/ /\ t < Timeout /\ errors' < MaxErrors
             /\ now' = t + MinOf(RetryDelay, Timeout - t)
             /\ pc' = "loop" /\ UNCHANGED result
    /\ UNCHANGED <<wait, proc, open>>

Deadline ==
    /\ pc = "loop"
    /\ now >= Timeout
    /\ pc' = "kill"
    /\ UNCHANGED <<now, wait, errors, result, proc, open>>

(* process.kill; what goes wrong with it is only logged. *)
KillAfterTimeout ==
    /\ pc = "kill"
    /\ now' \in {now, LatestAnswer}
    /\ proc' \in {proc, IF proc = "running" /\ open THEN "killed" ELSE proc}
    /\ End("timeout")
    /\ UNCHANGED <<wait, errors, open>>

-----------------------------------------------------------------------------
(* external: the process exits by itself, or somebody else kills it. *)
ProcessEnds ==
    /\ proc = "running"
    /\ proc' \in {"exited", "killed"}
    /\ UNCHANGED <<pc, now, wait, errors, result, open>>

(* Sandbox.close in another thread. *)
ClientCloses ==
    /\ open
    /\ open' = FALSE
    /\ UNCHANGED <<pc, now, wait, errors, result, proc>>

CallerStep ==
    \/ Start
    \/ SendPoll
    \/ PollClosed
    \/ PollDone
    \/ PollError
    \/ PollRunning
    \/ PollFatal
    \/ PollFails
    \/ Deadline
    \/ KillAfterTimeout

Next == CallerStep \/ ProcessEnds \/ ClientCloses

Spec == Init /\ [][Next]_vars

-----------------------------------------------------------------------------
(* Type correctness; consecutive errors stay within their limit. *)
TypeOK ==
    /\ pc \in {"start", "loop", "poll", "kill", "ended"}
    /\ now \in Nat
    /\ wait \in 0 .. Interval
    /\ errors \in 0 .. MaxErrors
    /\ result \in Results
    /\ proc \in {"none", "running", "exited", "killed"}
    /\ open \in BOOLEAN

(***************************************************************************)
(* The deadline is overrun by the answer of one poll at most: however      *)
(* polls fail and retry, the loop is over before a second one is waited    *)
(* for, and a pause between two polls ends with it.                        *)
(***************************************************************************)
OverrunIsOneAnswer ==
    pc \in {"loop", "poll", "kill"} => now <= Timeout - 1 + Slowest

=============================================================================
