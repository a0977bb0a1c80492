----------------------------- MODULE SandboxApi ------------------------------
(***************************************************************************)
(* The control operations of a Sandbox: its handle, from the constructor   *)
(* to kill() and close() (SandboxLifecycle), and the requests that change  *)
(* a running sandbox (LifecycleRequest).                                   *)
(***************************************************************************)
EXTENDS SandboxLifecycle, LifecycleRequest

VARIABLE about         \* bound: which of the two this behaviour has

api == <<vars, requests, about>>

(* What the behaviour does not use starts in one state. *)
ApiInit ==
    /\ about \in {"handle", "requests"}
    /\ Init /\ RequestInit
    /\ about = "requests" => ~opts.detached /\ ~opts.tunnel

Handle(step) == about = "handle" /\ step /\ UNCHANGED <<requests, about>>

ApiNext ==
    \/ Handle(Next)
    \/ about = "requests" /\ RequestNext /\ UNCHANGED <<vars, about>>

(***************************************************************************)
(* Every request has a timeout, so the constructor and a call that was     *)
(* begun go on.  Whether anybody calls, and whether the frontend executes  *)
(* what was posted, is left open.                                          *)
(***************************************************************************)
ApiSpec ==
    /\ ApiInit /\ [][ApiNext]_api
    /\ WF_api(Handle(ConstructorStep))
    /\ \A c \in Callers : WF_api(Handle(CallStep(c)))
=============================================================================
