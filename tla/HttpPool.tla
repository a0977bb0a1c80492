------------------------------ MODULE HttpPool ------------------------------
(***************************************************************************)
(* The process-local registry of shared HTTPX clients and the per-sandbox  *)
(* leases over it (python/yr_sandbox/_http_pool.py).                       *)
(*                                                                         *)
(* Every process has its own registry, one entry per target, and its own   *)
(* copy of every lease object it created or inherited by fork.  The        *)
(* registry's methods run under the registry lock, so each is one step.    *)
(* The lease's lock is a plain threading.Lock: a request holds it for two  *)
(* steps, and a fork between them copies it held.  close() marks the lease *)
(* under the lease lock and releases the reference after it.               *)
(***************************************************************************)
EXTENDS Naturals, FiniteSets

CONSTANTS Procs,      \* process ids; a pid names one process (no reuse)
          NoPid,      \* the pid of nobody
          Root,       \* the process that imported the SDK
          Leases,     \* lease objects
          Targets,    \* (scheme, server, verify_tls) triples
          TargetOf    \* the target each lease is acquired for

ASSUME ConstantsAssumption ==
    /\ IsFiniteSet(Leases)
    /\ Root \in Procs
    /\ NoPid \notin Procs
    /\ TargetOf \in [Leases -> Targets]

VARIABLES alive,     \* processes that exist
          entries,   \* entries[p][t]: the _PoolEntry, or NoEntry
          lease,     \* lease[p][l]: process p's copy of lease object l
          shut       \* processes whose atexit close_all has run

vars == <<alive, entries, lease, shut>>

(***************************************************************************)
(* A client is identified by the process that constructed it and whether   *)
(* it was made before or after that process's close_all, which is the only *)
(* way the entry of a target disappears and is made again.                 *)
(***************************************************************************)
Clients == [owner : Procs, age : {"early", "late"}]
NoClient == [owner |-> NoPid, age |-> "early"]

Entries == [client : Clients \cup {NoClient}, references : Nat]
NoEntry == [client |-> NoClient, references |-> 0]

(***************************************************************************)
(* state "releasing" is a lease marked closed whose release is to come.    *)
(* lock is "orphan" in a child forked while another thread of the parent   *)
(* held it: nobody in the child will ever release it.                      *)
(***************************************************************************)
LeaseObjects ==
    [state : {"none", "open", "releasing", "closed"},
     lock : {"free", "request", "orphan"},
     pid : Procs \cup {NoPid}, client : Clients \cup {NoClient}]

NoLease == [state |-> "none", lock |-> "free",
            pid |-> NoPid, client |-> NoClient]

Init ==
    /\ alive = {Root}
    /\ entries = [p \in Procs |-> [t \in Targets |-> NoEntry]]
    /\ lease = [p \in Procs |-> [l \in Leases |-> NoLease]]
    /\ shut = {}

(* Mutant: every acquire constructs its own client. *)
AlwaysMade(p, t) ==
    [client |-> [owner |-> p, age |-> IF p \in shut \/ entries[p][t] # NoEntry THEN "late" ELSE "early"],
     references |-> entries[p][t].references]

(***************************************************************************)
(* The entry of target t in process p as _acquire_target finds or makes    *)
(* it, before it counts the new reference.                                 *)
(***************************************************************************)
FoundOrMade(p, t) ==
    IF entries[p][t] # NoEntry THEN entries[p][t]
    ELSE [client |-> [owner |-> p, age |-> IF p \in shut THEN "late" ELSE "early"], references |-> 0]

Referenced(p, t) ==
    [FoundOrMade(p, t) EXCEPT !.references = @ + 1]

(* release: a count that is already zero, after close_all, stays. *)
Unreferenced(p, t) ==
    IF entries[p][t].references > 0
    THEN [entries[p][t] EXCEPT !.references = @ - 1]
    ELSE entries[p][t]

-----------------------------------------------------------------------------
(***************************************************************************)
(* acquire: a reference on the target's entry and a new lease object.  An  *)
(* invalid environment makes _new_http_client raise before anything        *)
(* changes, which is no step of the model.                                 *)
(***************************************************************************)
Acquire(p, l) ==
    /\ p \in alive
    /\ \A q \in Procs : lease[q][l].state = "none"
    /\ entries' = [entries EXCEPT ![p][TargetOf[l]] = Referenced(p, TargetOf[l])]
    /\ lease' = [lease EXCEPT ![p][l] =
                    [state |-> "open", lock |-> "free", pid |-> p,
                     client |-> FoundOrMade(p, TargetOf[l]).client]]
    /\ UNCHANGED <<alive, shut>>

(***************************************************************************)
(* _current_client, first half: a request takes the lease lock.  On a      *)
(* closed lease it raises and releases the lock, which changes nothing.    *)
(***************************************************************************)
RequestBegin(p, l) ==
    /\ p \in alive
    /\ lease[p][l].state = "open"
    /\ lease[p][l].lock = "free"
    /\ lease' = [lease EXCEPT ![p][l] = [@ EXCEPT !.lock = "request"]]
    /\ UNCHANGED <<alive, entries, shut>>

(* Mutant: the lease is not moved to the child's client. *)
RequestEndNoReacquire(p, l) ==
    /\ p \in alive
    /\ lease[p][l].lock = "request"
    /\ lease' = [lease EXCEPT ![p][l] = [@ EXCEPT !.lock = "free"]]
    /\ UNCHANGED <<alive, entries, shut>>

(* Mutant: the child's client is used but the lease keeps the parent's pid. *)
RequestEndKeepsPid(p, l) ==
    /\ p \in alive
    /\ lease[p][l].lock = "request"
    /\ LET t == TargetOf[l] IN
       IF lease[p][l].pid = p
       THEN /\ lease' = [lease EXCEPT ![p][l] = [@ EXCEPT !.lock = "free"]]
            /\ UNCHANGED entries
       ELSE /\ entries' = [entries EXCEPT ![p][t] = Referenced(p, t)]
            /\ lease' = [lease EXCEPT ![p][l] =
                            [@ EXCEPT !.lock = "free", !.client = FoundOrMade(p, t).client]]
    /\ UNCHANGED <<alive, shut>>

(***************************************************************************)
(* _current_client, second half: a lease inherited by fork acquires a      *)
(* client of this process before it is used; then the lock is released.    *)
(***************************************************************************)
RequestEnd(p, l) ==
    /\ p \in alive
    /\ lease[p][l].lock = "request"
    /\ LET t == TargetOf[l] IN
       IF lease[p][l].pid = p
       THEN /\ lease' = [lease EXCEPT ![p][l] = [@ EXCEPT !.lock = "free"]]
            /\ UNCHANGED entries
       ELSE /\ entries' = [entries EXCEPT ![p][t] = Referenced(p, t)]
            /\ lease' = [lease EXCEPT ![p][l] =
                            [@ EXCEPT !.lock = "free", !.pid = p,
                                      !.client = FoundOrMade(p, t).client]]
    /\ UNCHANGED <<alive, shut>>

(***************************************************************************)
(* close, under the lease lock: only the first call goes on to release.    *)
(***************************************************************************)
CloseMark(p, l) ==
    /\ p \in alive
    /\ lease[p][l].state = "open"
    /\ lease[p][l].lock = "free"
    /\ lease' = [lease EXCEPT ![p][l] = [@ EXCEPT !.state = "releasing"]]
    /\ UNCHANGED <<alive, entries, shut>>

(***************************************************************************)
(* close, after the lease lock: the registry drops the reference unless    *)
(* the lease still belongs to the parent process.                          *)
(***************************************************************************)
Release(p, l) ==
    /\ p \in alive
    /\ lease[p][l].state = "releasing"
    /\ lease' = [lease EXCEPT ![p][l] = [@ EXCEPT !.state = "closed"]]
    /\ LET t == TargetOf[l] IN
       entries' = IF lease[p][l].pid # p THEN entries
                  ELSE [entries EXCEPT ![p][t] = Unreferenced(p, t)]
    /\ UNCHANGED <<alive, shut>>

(***************************************************************************)
(* What a forked child sees of a lease: the object as it was, without the  *)
(* parent's threads that were inside close() or _current_client.           *)
(***************************************************************************)
Inherited(obj) ==
    [obj EXCEPT !.state = IF @ = "releasing" THEN "closed" ELSE @,
                !.lock = IF @ = "free" THEN "free" ELSE "orphan"]

(***************************************************************************)
(* fork: the child's registry is reset by _after_fork_in_child, its leases *)
(* are copies of the parent's.                                             *)
(***************************************************************************)
Fork(p, q) ==
    /\ p \in alive
    /\ q \in Procs \ alive
    /\ alive' = alive \cup {q}
    /\ entries' = [entries EXCEPT ![q] = [t \in Targets |-> NoEntry]]
    /\ lease' = [lease EXCEPT ![q] = [l \in Leases |-> Inherited(lease[p][l])]]
    /\ UNCHANGED shut

(***************************************************************************)
(* close_all, run once per process at exit: the entries are dropped and    *)
(* their clients closed.  Leases keep the closed client they hold.         *)
(***************************************************************************)
CloseAll(p) ==
    /\ p \in alive
    /\ p \notin shut
    /\ shut' = shut \cup {p}
    /\ entries' = [entries EXCEPT ![p] = [t \in Targets |-> NoEntry]]
    /\ UNCHANGED <<alive, lease>>

LeaseStep(p, l) ==
    \/ Acquire(p, l)
    \/ RequestBegin(p, l)
    \/ RequestEnd(p, l)
    \/ CloseMark(p, l)
    \/ Release(p, l)

Next ==
    \/ \E p \in Procs, l \in Leases : LeaseStep(p, l)
    \/ \E p \in Procs, q \in Procs : Fork(p, q)
    \/ \E p \in Procs : CloseAll(p)

Spec == Init /\ [][Next]_vars

-----------------------------------------------------------------------------
(***************************************************************************)
(* Type correctness of the registry entries and the lease objects.         *)
(***************************************************************************)
TypeOK ==
    /\ alive \subseteq Procs
    /\ shut \subseteq alive
    /\ entries \in [Procs -> [Targets -> Entries]]
    /\ lease \in [Procs -> [Leases -> LeaseObjects]]

(***************************************************************************)
(* The leases whose reference on (p, t) has not been given back: open, or  *)
(* closed with the release still to come.                                  *)
(***************************************************************************)
Holders(p, t) ==
    {l \in Leases : /\ TargetOf[l] = t
                    /\ lease[p][l].pid = p
                    /\ lease[p][l].state \in {"open", "releasing"}}

References(p, t) == entries[p][t].references

(***************************************************************************)
(* The reference count of _PoolEntry never exceeds the leases that hold a  *)
(* reference, in any process, whatever was forked or closed when; and it   *)
(* is exact until the process runs close_all.                              *)
(***************************************************************************)
ReferencesExact ==
    \A p \in Procs, t \in Targets :
        /\ References(p, t) <= Cardinality(Holders(p, t))
        /\ p \notin shut => References(p, t) = Cardinality(Holders(p, t))

(***************************************************************************)
(* Sharing: until close_all, every lease that holds a reference in its     *)
(* process uses the one client the registry has for the lease's target.    *)
(***************************************************************************)
OneClientPerTarget ==
    \A p \in Procs \ shut, t \in Targets : \A l \in Holders(p, t) :
        entries[p][t] # NoEntry /\ lease[p][l].client = entries[p][t].client

(***************************************************************************)
(* "Never use or close inherited HTTPX clients in the child": the client   *)
(* _current_client hands to a request was constructed by the process that  *)
(* makes the request, and so is every client close_all closes.             *)
(***************************************************************************)
NoInheritedClientUsed ==
    [][/\ \A p \in Procs, l \in Leases :
            lease[p][l].lock = "request" /\ lease'[p][l].lock = "free"
                => lease'[p][l].client.owner = p
       /\ \A p \in shut' \ shut, t \in Targets :
            entries[p][t] # NoEntry => entries[p][t].client.owner = p]_vars
=============================================================================
