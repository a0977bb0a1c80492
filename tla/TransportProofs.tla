-------------------------- MODULE TransportProofs ---------------------------
(***************************************************************************)
(* Proofs about the two parts of the transport, for any number of          *)
(* processes, leases and targets of the HTTP client registry, and of       *)
(* concurrent calls, attempts and tolerated route misses of                *)
(* SandboxClient.invoke.                                                   *)
(***************************************************************************)
EXTENDS HttpPool, DirectInvoke, FiniteSetTheorems, TLAPS

(***************************************************************************)
(* The registry.  ReferencesExact and OneClientPerTarget are not           *)
(* inductive: a fork copies leases, so a count is right only because no    *)
(* lease carries the pid of a process that does not exist yet, a request   *)
(* in the critical section is on an open lease, and a lease nobody has     *)
(* acquired carries no pid.  IInv adds those facts.                        *)
(***************************************************************************)
LeaseShape(p, l) ==
    /\ lease[p][l].state = "none" => lease[p][l].pid = NoPid
    /\ lease[p][l].lock = "request" => lease[p][l].state = "open" /\ p \in alive
    /\ lease[p][l].pid \in alive \cup {NoPid}
    /\ lease[p][l].pid = p => lease[p][l].client.owner = p

EntryShape(p, t) == entries[p][t] # NoEntry => entries[p][t].client.owner = p

Counted(p, t) ==
    /\ References(p, t) <= Cardinality(Holders(p, t))
    /\ p \notin shut => References(p, t) = Cardinality(Holders(p, t))

Shared(p, t) ==
    p \notin shut => \A l \in Holders(p, t) :
        entries[p][t] # NoEntry /\ lease[p][l].client = entries[p][t].client

IInv ==
    /\ TypeOK
    /\ \A p \in Procs, l \in Leases : LeaseShape(p, l)
    /\ \A p \in Procs, t \in Targets : EntryShape(p, t)
    /\ \A p \in Procs, t \in Targets : Counted(p, t)
    /\ \A p \in Procs, t \in Targets : Shared(p, t)

-----------------------------------------------------------------------------
(* An entry as _acquire_target and release leave it is an entry. *)
LEMMA EntryTypes ==
    ASSUME TypeOK, NEW p \in Procs, NEW t \in Targets
    PROVE  /\ FoundOrMade(p, t) \in Entries
           /\ FoundOrMade(p, t).client \in Clients \cup {NoClient}
           /\ Referenced(p, t) \in Entries
           /\ Referenced(p, t).client = FoundOrMade(p, t).client
           /\ Referenced(p, t).references = FoundOrMade(p, t).references + 1
           /\ Unreferenced(p, t) \in Entries
           /\ Unreferenced(p, t).client = entries[p][t].client
  <1>1. entries[p][t] \in Entries
    BY DEF TypeOK
  <1>2. FoundOrMade(p, t) \in Entries
    BY <1>1 DEF FoundOrMade, Entries, Clients
  <1>3. QED
    BY <1>1, <1>2 DEF Referenced, Unreferenced, Entries

(* Process p's copy of lease l becomes n. *)
Replace(p, l, n) == lease' = [lease EXCEPT ![p][l] = n]

(* The entry of target t in process p becomes e. *)
Register(p, t, e) == entries' = [entries EXCEPT ![p][t] = e]

(* One lease object is replaced, the others are left alone. *)
LEMMA LeaseUpdate ==
    ASSUME TypeOK, NEW p \in Procs, NEW l \in Leases, NEW n \in LeaseObjects,
           Replace(p, l, n)
    PROVE  /\ lease' \in [Procs -> [Leases -> LeaseObjects]]
           /\ lease'[p][l] = n
           /\ \A q \in Procs, m \in Leases : q # p \/ m # l => lease'[q][m] = lease[q][m]
  BY DEF TypeOK, Replace

(* One registry entry is replaced, the others are left alone. *)
LEMMA EntryUpdate ==
    ASSUME TypeOK, NEW p \in Procs, NEW t \in Targets, NEW e \in Entries,
           Register(p, t, e)
    PROVE  /\ entries' \in [Procs -> [Targets -> Entries]]
           /\ entries'[p][t] = e
           /\ \A q \in Procs, u \in Targets : q # p \/ u # t => entries'[q][u] = entries[q][u]
  BY DEF TypeOK, Register

(* What a record update of a lease object changes. *)
LEMMA ObjectUpdate ==
    ASSUME NEW obj \in LeaseObjects
    PROVE  /\ \A v \in {"free", "request", "orphan"} :
                /\ [obj EXCEPT !.lock = v] \in LeaseObjects
                /\ [obj EXCEPT !.lock = v].state = obj.state
                /\ [obj EXCEPT !.lock = v].lock = v
                /\ [obj EXCEPT !.lock = v].pid = obj.pid
                /\ [obj EXCEPT !.lock = v].client = obj.client
           /\ \A s \in {"none", "open", "releasing", "closed"} :
                /\ [obj EXCEPT !.state = s] \in LeaseObjects
                /\ [obj EXCEPT !.state = s].state = s
                /\ [obj EXCEPT !.state = s].lock = obj.lock
                /\ [obj EXCEPT !.state = s].pid = obj.pid
                /\ [obj EXCEPT !.state = s].client = obj.client
  BY DEF LeaseObjects

(* The leases that hold a reference are finitely many. *)
LEMMA HoldersFinite ==
    ASSUME NEW p \in Procs, NEW t \in Targets
    PROVE  IsFiniteSet(Holders(p, t)) /\ Cardinality(Holders(p, t)) \in Nat
  <1>1. Holders(p, t) \subseteq Leases
    BY DEF Holders
  <1>2. QED
    BY <1>1, ConstantsAssumption, FS_Subset, FS_CardinalityType

(* n, as process p's copy of a lease, holds a reference. *)
Holds(n, p) == n.pid = p /\ n.state \in {"open", "releasing"}

(* How replacing one lease object changes the set of holders. *)
LEMMA HoldersStep ==
    ASSUME TypeOK, NEW p \in Procs, NEW l \in Leases, NEW n \in LeaseObjects,
           Replace(p, l, n)
    PROVE  /\ \A q \in Procs, u \in Targets :
                q # p \/ u # TargetOf[l] => Holders(q, u)' = Holders(q, u)
           /\ Holds(n, p) => Holders(p, TargetOf[l])' = Holders(p, TargetOf[l]) \cup {l}
           /\ ~Holds(n, p) => Holders(p, TargetOf[l])' = Holders(p, TargetOf[l]) \ {l}
           /\ l \in Holders(p, TargetOf[l]) <=> Holds(lease[p][l], p)
  <1>1. /\ lease'[p][l] = n
        /\ \A q \in Procs, m \in Leases : q # p \/ m # l => lease'[q][m] = lease[q][m]
    BY LeaseUpdate
  <1>2. ASSUME NEW q \in Procs, NEW u \in Targets, q # p \/ u # TargetOf[l]
        PROVE  Holders(q, u)' = Holders(q, u)
    BY <1>1, <1>2 DEF Holders
  <1>3. ASSUME Holds(n, p)
        PROVE  Holders(p, TargetOf[l])' = Holders(p, TargetOf[l]) \cup {l}
    BY <1>1, <1>3 DEF Holders, Holds
  <1>4. ASSUME ~Holds(n, p)
        PROVE  Holders(p, TargetOf[l])' = Holders(p, TargetOf[l]) \ {l}
    BY <1>1, <1>4 DEF Holders, Holds
  <1>5. l \in Holders(p, TargetOf[l]) <=> Holds(lease[p][l], p)
    BY DEF Holders, Holds
  <1>6. QED
    BY <1>2, <1>3, <1>4, <1>5

(* The number of holders grows or shrinks by one. *)
LEMMA HoldersCount ==
    ASSUME NEW p \in Procs, NEW t \in Targets, NEW l
    PROVE  /\ l \in Holders(p, t) =>
                /\ Holders(p, t) \cup {l} = Holders(p, t)
                /\ Cardinality(Holders(p, t)) >= 1
                /\ Cardinality(Holders(p, t) \ {l}) = Cardinality(Holders(p, t)) - 1
           /\ l \notin Holders(p, t) =>
                /\ Holders(p, t) \ {l} = Holders(p, t)
                /\ Cardinality(Holders(p, t) \cup {l}) = Cardinality(Holders(p, t)) + 1
  <1>1. IsFiniteSet(Holders(p, t)) /\ Cardinality(Holders(p, t)) \in Nat
    BY HoldersFinite
  <1>2. ASSUME l \in Holders(p, t)
        PROVE  /\ Cardinality(Holders(p, t) \ {l}) = Cardinality(Holders(p, t)) - 1
               /\ Cardinality(Holders(p, t) \ {l}) \in Nat
    BY <1>1, <1>2, FS_RemoveElement, FS_CardinalityType
  <1>3. ASSUME l \notin Holders(p, t)
        PROVE  Cardinality(Holders(p, t) \cup {l}) = Cardinality(Holders(p, t)) + 1
    BY <1>1, <1>3, FS_AddElement
  <1>4. l \in Holders(p, t) => Cardinality(Holders(p, t)) >= 1
    BY <1>1, <1>2
  <1>5. QED
    BY <1>2, <1>3, <1>4

-----------------------------------------------------------------------------
(* Replacing a lease by a well-shaped one keeps every lease well-shaped. *)
LEMMA ShapeStep ==
    ASSUME IInv, NEW p \in Procs, NEW l \in Leases, NEW n \in LeaseObjects,
           Replace(p, l, n),
           alive' = alive,
           n.state = "none" => n.pid = NoPid,
           n.lock = "request" => n.state = "open" /\ p \in alive,
           n.pid \in alive \cup {NoPid},
           n.pid = p => n.client.owner = p
    PROVE  \A q \in Procs, m \in Leases : LeaseShape(q, m)'
  <1>1. TypeOK
    BY DEF IInv
  <1>2. /\ lease'[p][l] = n
        /\ \A q \in Procs, m \in Leases : q # p \/ m # l => lease'[q][m] = lease[q][m]
    BY <1>1, LeaseUpdate
  <1>3. \A q \in Procs, m \in Leases : LeaseShape(q, m)
    BY DEF IInv
  <1>4. QED
    BY <1>2, <1>3 DEF LeaseShape

(* The invariant over the parts a lease step changes. *)
Balanced ==
    /\ \A p \in Procs, t \in Targets : EntryShape(p, t)
    /\ \A p \in Procs, t \in Targets : Counted(p, t)
    /\ \A p \in Procs, t \in Targets : Shared(p, t)

(* A step that moves no reference: neither holders nor entries change. *)
LEMMA SameReferences ==
    ASSUME IInv, NEW p \in Procs, NEW l \in Leases, NEW n \in LeaseObjects,
           Replace(p, l, n),
           entries' = entries, shut' = shut,
           n.client = lease[p][l].client,
           Holds(n, p) <=> Holds(lease[p][l], p)
    PROVE  Balanced'
  <1>1. TypeOK /\ TargetOf[l] \in Targets
    BY ConstantsAssumption DEF IInv
  <1>2. \A q \in Procs, u \in Targets : Holders(q, u)' = Holders(q, u)
    <2>1. \A q \in Procs, u \in Targets :
              q # p \/ u # TargetOf[l] => Holders(q, u)' = Holders(q, u)
      BY <1>1, HoldersStep
    <2>2. CASE Holds(n, p)
      <3>1. /\ l \in Holders(p, TargetOf[l])
            /\ Holders(p, TargetOf[l])' = Holders(p, TargetOf[l]) \cup {l}
        BY <1>1, <2>2, HoldersStep
      <3>2. Holders(p, TargetOf[l])' = Holders(p, TargetOf[l])
        BY <1>1, <3>1, HoldersCount
      <3>3. QED
        BY <2>1, <3>2
    <2>3. CASE ~Holds(n, p)
      <3>1. /\ l \notin Holders(p, TargetOf[l])
            /\ Holders(p, TargetOf[l])' = Holders(p, TargetOf[l]) \ {l}
        BY <1>1, <2>3, HoldersStep
      <3>2. Holders(p, TargetOf[l])' = Holders(p, TargetOf[l])
        BY <1>1, <3>1, HoldersCount
      <3>3. QED
        BY <2>1, <3>2
    <2>4. QED
      BY <2>2, <2>3
  <1>3. \A q \in Procs, m \in Leases : lease'[q][m].client = lease[q][m].client
    BY <1>1, LeaseUpdate
  <1>4. ASSUME NEW q \in Procs, NEW u \in Targets
        PROVE  EntryShape(q, u)' /\ Counted(q, u)' /\ Shared(q, u)'
    <2>1. EntryShape(q, u) /\ Counted(q, u) /\ Shared(q, u)
      BY DEF IInv
    <2>2. EntryShape(q, u)'
      BY <2>1 DEF EntryShape
    <2>3. Counted(q, u)'
      BY <2>1, <1>2 DEF Counted, References
    <2>4. Holders(q, u) \subseteq Leases
      BY DEF Holders
    <2>5. Shared(q, u)'
      BY <2>1, <2>4, <1>2, <1>3 DEF Shared
    <2>6. QED
      BY <2>2, <2>3, <2>5
  <1>5. QED
    BY <1>4 DEF Balanced

(* A step that takes a reference: one more holder, counted and shared. *)
LEMMA TakeReference ==
    ASSUME IInv, NEW p \in Procs, NEW l \in Leases, NEW n \in LeaseObjects,
           Replace(p, l, n),
           Register(p, TargetOf[l], Referenced(p, TargetOf[l])),
           shut' = shut,
           n.client = FoundOrMade(p, TargetOf[l]).client,
           Holds(n, p), ~Holds(lease[p][l], p)
    PROVE  Balanced'
  <1> DEFINE t == TargetOf[l]
  <1>1. TypeOK /\ t \in Targets
    BY ConstantsAssumption DEF IInv
  <1>2. /\ FoundOrMade(p, t) \in Entries
        /\ Referenced(p, t) \in Entries
        /\ Referenced(p, t).client = FoundOrMade(p, t).client
        /\ Referenced(p, t).references = FoundOrMade(p, t).references + 1
    BY <1>1, EntryTypes
  <1>3. /\ entries'[p][t] = Referenced(p, t)
        /\ \A q \in Procs, u \in Targets : q # p \/ u # t => entries'[q][u] = entries[q][u]
    BY <1>1, <1>2, EntryUpdate
  <1>4. /\ \A q \in Procs, u \in Targets :
                q # p \/ u # t => Holders(q, u)' = Holders(q, u)
        /\ Holders(p, t)' = Holders(p, t) \cup {l}
        /\ l \notin Holders(p, t)
    BY <1>1, HoldersStep
  <1>5. /\ lease'[p][l] = n
        /\ \A q \in Procs, m \in Leases : q # p \/ m # l => lease'[q][m] = lease[q][m]
    BY <1>1, LeaseUpdate
  <1>6. /\ FoundOrMade(p, t).references = References(p, t)
        /\ FoundOrMade(p, t).client.owner = p
        /\ entries[p][t] # NoEntry => FoundOrMade(p, t).client = entries[p][t].client
    <2>1. EntryShape(p, t)
      BY <1>1 DEF IInv
    <2>2. QED
      BY <2>1 DEF FoundOrMade, References, NoEntry, EntryShape
  <1> HIDE DEF t
  <1>7. ASSUME NEW q \in Procs, NEW u \in Targets, q # p \/ u # t
        PROVE  EntryShape(q, u)' /\ Counted(q, u)' /\ Shared(q, u)'
    <2>1. EntryShape(q, u) /\ Counted(q, u) /\ Shared(q, u)
      BY DEF IInv
    <2>2. entries'[q][u] = entries[q][u] /\ Holders(q, u)' = Holders(q, u)
      BY <1>3, <1>4, <1>7
    <2>3. EntryShape(q, u)'
      BY <2>1, <2>2 DEF EntryShape
    <2>4. Counted(q, u)'
      BY <2>1, <2>2 DEF Counted, References
    <2>5. \A m \in Holders(q, u) : lease'[q][m] = lease[q][m]
      BY <1>5, <1>7 DEF Holders, t
    <2>6. Shared(q, u)'
      BY <2>1, <2>2, <2>5 DEF Shared
    <2>7. QED
      BY <2>3, <2>4, <2>6
  <1>8. EntryShape(p, t)'
    BY <1>2, <1>3, <1>6 DEF EntryShape
  <1>9. Counted(p, t)'
    <2>1. Cardinality(Holders(p, t)') = Cardinality(Holders(p, t)) + 1
      BY <1>1, <1>4, HoldersCount
    <2>2. References(p, t)' = References(p, t) + 1
      BY <1>2, <1>3, <1>6 DEF References
    <2>3. References(p, t) \in Nat /\ Cardinality(Holders(p, t)) \in Nat
      BY <1>1, HoldersFinite DEF References, TypeOK, Entries
    <2>4. Counted(p, t)
      BY <1>1 DEF IInv
    <2>5. QED
      BY <2>1, <2>2, <2>3, <2>4 DEF Counted
  <1>10. Shared(p, t)'
    <2>1. Shared(p, t)
      BY <1>1 DEF IInv
    <2>2. entries'[p][t] # NoEntry /\ entries'[p][t].client = FoundOrMade(p, t).client
      <3>1. entries'[p][t].references >= 1
        BY <1>2, <1>3 DEF Entries
      <3>2. NoEntry.references = 0
        BY DEF NoEntry
      <3>3. QED
        BY <3>1, <3>2, <1>2, <1>3
    <2>3. lease'[p][l].client = FoundOrMade(p, t).client
      BY <1>5 DEF t
    <2>4. ASSUME NEW m \in Holders(p, t), p \notin shut
          PROVE  lease'[p][m].client = FoundOrMade(p, t).client
      <3>1. m \in Leases /\ m # l
        BY <1>4 DEF Holders
      <3>2. QED
        BY <3>1, <2>1, <2>4, <1>5, <1>6 DEF Shared
    <2>5. QED
      BY <2>2, <2>3, <2>4, <1>4 DEF Shared
  <1>11. QED
    BY <1>7, <1>8, <1>9, <1>10 DEF Balanced

(* A step that gives a reference back: one holder less, and counted. *)
LEMMA GiveReference ==
    ASSUME IInv, NEW p \in Procs, NEW l \in Leases, NEW n \in LeaseObjects,
           Replace(p, l, n),
           Register(p, TargetOf[l], Unreferenced(p, TargetOf[l])),
           shut' = shut,
           ~Holds(n, p), Holds(lease[p][l], p)
    PROVE  Balanced'
  <1> DEFINE t == TargetOf[l]
  <1>1. TypeOK /\ t \in Targets
    BY ConstantsAssumption DEF IInv
  <1>2. /\ Unreferenced(p, t) \in Entries
        /\ Unreferenced(p, t).client = entries[p][t].client
    BY <1>1, EntryTypes
  <1>3. /\ entries'[p][t] = Unreferenced(p, t)
        /\ \A q \in Procs, u \in Targets : q # p \/ u # t => entries'[q][u] = entries[q][u]
    BY <1>1, <1>2, EntryUpdate
  <1>4. /\ \A q \in Procs, u \in Targets :
                q # p \/ u # t => Holders(q, u)' = Holders(q, u)
        /\ Holders(p, t)' = Holders(p, t) \ {l}
        /\ l \in Holders(p, t)
    BY <1>1, HoldersStep
  <1>5. \A q \in Procs, m \in Leases : q # p \/ m # l => lease'[q][m] = lease[q][m]
    BY <1>1, LeaseUpdate
  <1>6. entries[p][t] \in Entries /\ NoClient.owner \notin Procs
    BY <1>1, ConstantsAssumption DEF TypeOK, NoClient
  <1>7. EntryShape(p, t) /\ Counted(p, t) /\ Shared(p, t)
    BY <1>1 DEF IInv
  <1> HIDE DEF t
  <1>8. ASSUME NEW q \in Procs, NEW u \in Targets, q # p \/ u # t
        PROVE  EntryShape(q, u)' /\ Counted(q, u)' /\ Shared(q, u)'
    <2>1. EntryShape(q, u) /\ Counted(q, u) /\ Shared(q, u)
      BY DEF IInv
    <2>2. entries'[q][u] = entries[q][u] /\ Holders(q, u)' = Holders(q, u)
      BY <1>3, <1>4, <1>8
    <2>3. EntryShape(q, u)'
      BY <2>1, <2>2 DEF EntryShape
    <2>4. Counted(q, u)'
      BY <2>1, <2>2 DEF Counted, References
    <2>5. \A m \in Holders(q, u) : lease'[q][m] = lease[q][m]
      BY <1>5, <1>8 DEF Holders, t
    <2>6. Shared(q, u)'
      BY <2>1, <2>2, <2>5 DEF Shared
    <2>7. QED
      BY <2>3, <2>4, <2>6
  <1>9. entries'[p][t] # NoEntry <=> entries[p][t] # NoEntry
    <2>1. CASE entries[p][t] = NoEntry
      BY <2>1, <1>3 DEF Unreferenced, NoEntry
    <2>2. CASE entries[p][t] # NoEntry
      <3>1. entries[p][t].client.owner = p
        BY <1>7, <2>2 DEF EntryShape
      <3>2. entries'[p][t].client.owner = p
        BY <3>1, <1>2, <1>3
      <3>3. NoEntry.client.owner \notin Procs
        BY <1>6 DEF NoEntry
      <3>4. QED
        BY <2>2, <3>2, <3>3
    <2>3. QED
      BY <2>1, <2>2
  <1>10. EntryShape(p, t)'
    BY <1>2, <1>3, <1>7, <1>9 DEF EntryShape
  <1>11. Counted(p, t)'
    <2>1. /\ Cardinality(Holders(p, t)') = Cardinality(Holders(p, t)) - 1
          /\ Cardinality(Holders(p, t)) >= 1
      BY <1>1, <1>4, HoldersCount
    <2>2. References(p, t) \in Nat /\ Cardinality(Holders(p, t)) \in Nat
      BY <1>1, <1>6, HoldersFinite DEF References, Entries
    <2>3. References(p, t)' = IF References(p, t) > 0 THEN References(p, t) - 1
                              ELSE References(p, t)
      BY <1>3, <1>6 DEF References, Unreferenced, Entries
    <2>4. QED
      BY <2>1, <2>2, <2>3, <1>7 DEF Counted
  <1>12. Shared(p, t)'
    <2>1. ASSUME NEW m \in Holders(p, t) \ {l}, p \notin shut
          PROVE  entries'[p][t] # NoEntry /\ lease'[p][m].client = entries'[p][t].client
      <3>1. m \in Leases
        BY DEF Holders
      <3>2. entries[p][t] # NoEntry /\ lease[p][m].client = entries[p][t].client
        BY <1>7, <2>1 DEF Shared
      <3>3. QED
        BY <3>1, <3>2, <1>2, <1>3, <1>5, <1>9
    <2>2. QED
      BY <2>1, <1>4 DEF Shared
  <1>13. QED
    BY <1>8, <1>10, <1>11, <1>12 DEF Balanced

-----------------------------------------------------------------------------
(* acquire keeps the invariant. *)
LEMMA AcquireStep ==
    ASSUME IInv, NEW p \in Procs, NEW l \in Leases, Acquire(p, l) PROVE IInv'
  <1> DEFINE t == TargetOf[l]
             n == [state |-> "open", lock |-> "free", pid |-> p,
                   client |-> FoundOrMade(p, t).client]
  <1>1. TypeOK /\ t \in Targets /\ EntryShape(p, t) /\ LeaseShape(p, l)
    BY ConstantsAssumption DEF IInv
  <1>2. FoundOrMade(p, t).client \in Clients \cup {NoClient} /\ Referenced(p, t) \in Entries
    BY <1>1, EntryTypes
  <1>3. n \in LeaseObjects
    BY <1>2 DEF LeaseObjects
  <1>4. FoundOrMade(p, t).client.owner = p
    BY <1>1 DEF FoundOrMade, EntryShape
  <1>5. /\ Replace(p, l, n)
        /\ Register(p, t, Referenced(p, t))
        /\ p \in alive /\ lease[p][l].state = "none"
        /\ alive' = alive /\ shut' = shut
    BY DEF Acquire, Replace, Register
  <1>6. /\ n.state = "open" /\ n.lock = "free" /\ n.pid = p
        /\ n.client = FoundOrMade(p, t).client
    OBVIOUS
  <1> HIDE DEF n
  <1>7. Holds(n, p) /\ ~Holds(lease[p][l], p)
    BY <1>5, <1>6 DEF Holds
  <1>8. Balanced'
    BY <1>3, <1>5, <1>6, <1>7, TakeReference
  <1>9. \A q \in Procs, m \in Leases : LeaseShape(q, m)'
    BY <1>3, <1>4, <1>5, <1>6, ShapeStep
  <1>10. TypeOK'
    <2>1. lease' \in [Procs -> [Leases -> LeaseObjects]]
      BY <1>1, <1>3, <1>5, LeaseUpdate
    <2>2. entries' \in [Procs -> [Targets -> Entries]]
      BY <1>1, <1>2, <1>5, EntryUpdate
    <2>3. QED
      BY <1>1, <1>5, <2>1, <2>2 DEF TypeOK
  <1>11. QED
    BY <1>8, <1>9, <1>10 DEF IInv, Balanced

(* Taking the lease lock keeps the invariant. *)
LEMMA RequestBeginStep ==
    ASSUME IInv, NEW p \in Procs, NEW l \in Leases, RequestBegin(p, l) PROVE IInv'
  <1> DEFINE n == [lease[p][l] EXCEPT !.lock = "request"]
  <1>1. TypeOK /\ LeaseShape(p, l) /\ lease[p][l] \in LeaseObjects
    BY DEF IInv, TypeOK
  <1>2. /\ n \in LeaseObjects /\ n.state = lease[p][l].state /\ n.lock = "request"
        /\ n.pid = lease[p][l].pid /\ n.client = lease[p][l].client
    BY <1>1, ObjectUpdate
  <1>3. /\ Replace(p, l, n) /\ lease[p][l].state = "open" /\ p \in alive
        /\ alive' = alive /\ shut' = shut /\ entries' = entries
    BY DEF RequestBegin, Replace
  <1> HIDE DEF n
  <1>4. Balanced'
    BY <1>2, <1>3, SameReferences DEF Holds
  <1>5. \A q \in Procs, m \in Leases : LeaseShape(q, m)'
    BY <1>1, <1>2, <1>3, ShapeStep DEF LeaseShape
  <1>6. TypeOK'
    BY <1>1, <1>2, <1>3, LeaseUpdate DEF TypeOK
  <1>7. QED
    BY <1>4, <1>5, <1>6 DEF IInv, Balanced

(* Releasing the lease lock, with or without a new client, keeps it. *)
LEMMA RequestEndStep ==
    ASSUME IInv, NEW p \in Procs, NEW l \in Leases, RequestEnd(p, l) PROVE IInv'
  <1> DEFINE t == TargetOf[l]
  <1>1. /\ TypeOK /\ LeaseShape(p, l) /\ lease[p][l] \in LeaseObjects
        /\ t \in Targets /\ EntryShape(p, t)
    BY ConstantsAssumption DEF IInv, TypeOK
  <1>2. /\ lease[p][l].lock = "request" /\ lease[p][l].state = "open"
        /\ p \in alive /\ alive' = alive /\ shut' = shut
    BY <1>1 DEF RequestEnd, LeaseShape
  <1>3. CASE lease[p][l].pid = p
    <2> DEFINE n == [lease[p][l] EXCEPT !.lock = "free"]
    <2>1. /\ n \in LeaseObjects /\ n.state = lease[p][l].state /\ n.lock = "free"
          /\ n.pid = lease[p][l].pid /\ n.client = lease[p][l].client
      BY <1>1, ObjectUpdate
    <2>2. Replace(p, l, n) /\ entries' = entries
      BY <1>3 DEF RequestEnd, Replace
    <2> HIDE DEF n
    <2>3. Balanced'
      BY <1>2, <2>1, <2>2, SameReferences DEF Holds
    <2>4. \A q \in Procs, m \in Leases : LeaseShape(q, m)'
      BY <1>1, <1>2, <2>1, <2>2, ShapeStep DEF LeaseShape
    <2>5. TypeOK'
      BY <1>1, <1>2, <2>1, <2>2, LeaseUpdate DEF TypeOK
    <2>6. QED
      BY <2>3, <2>4, <2>5 DEF IInv, Balanced
  <1>4. CASE lease[p][l].pid # p
    <2> DEFINE n == [lease[p][l] EXCEPT !.lock = "free", !.pid = p,
                                        !.client = FoundOrMade(p, t).client]
    <2>1. FoundOrMade(p, t).client \in Clients \cup {NoClient} /\ Referenced(p, t) \in Entries
      BY <1>1, EntryTypes
    <2>2. /\ n \in LeaseObjects /\ n.state = lease[p][l].state /\ n.lock = "free"
          /\ n.pid = p /\ n.client = FoundOrMade(p, t).client
      BY <1>1, <2>1 DEF LeaseObjects
    <2>3. Replace(p, l, n) /\ Register(p, t, Referenced(p, t))
      BY <1>4 DEF RequestEnd, Replace, Register
    <2>4. FoundOrMade(p, t).client.owner = p
      BY <1>1 DEF FoundOrMade, EntryShape
    <2> HIDE DEF n
    <2>5. Holds(n, p) /\ ~Holds(lease[p][l], p)
      BY <1>2, <1>4, <2>2 DEF Holds
    <2>6. Balanced'
      BY <1>2, <2>2, <2>3, <2>5, TakeReference
    <2>7. \A q \in Procs, m \in Leases : LeaseShape(q, m)'
      BY <1>2, <2>2, <2>3, <2>4, ShapeStep
    <2>8. TypeOK'
      <3>1. lease' \in [Procs -> [Leases -> LeaseObjects]]
        BY <1>1, <2>2, <2>3, LeaseUpdate
      <3>2. entries' \in [Procs -> [Targets -> Entries]]
        BY <1>1, <2>1, <2>3, EntryUpdate
      <3>3. QED
        BY <1>1, <1>2, <3>1, <3>2 DEF TypeOK
    <2>9. QED
      BY <2>6, <2>7, <2>8 DEF IInv, Balanced
  <1>5. QED
    BY <1>3, <1>4

(* Marking a lease closed keeps the invariant: its release is to come. *)
LEMMA CloseMarkStep ==
    ASSUME IInv, NEW p \in Procs, NEW l \in Leases, CloseMark(p, l) PROVE IInv'
  <1> DEFINE n == [lease[p][l] EXCEPT !.state = "releasing"]
  <1>1. TypeOK /\ LeaseShape(p, l) /\ lease[p][l] \in LeaseObjects
    BY DEF IInv, TypeOK
  <1>2. /\ n \in LeaseObjects /\ n.state = "releasing" /\ n.lock = lease[p][l].lock
        /\ n.pid = lease[p][l].pid /\ n.client = lease[p][l].client
    BY <1>1, ObjectUpdate
  <1>3. /\ Replace(p, l, n) /\ lease[p][l].state = "open" /\ lease[p][l].lock = "free"
        /\ alive' = alive /\ shut' = shut /\ entries' = entries
    BY DEF CloseMark, Replace
  <1> HIDE DEF n
  <1>4. Balanced'
    BY <1>2, <1>3, SameReferences DEF Holds
  <1>5. \A q \in Procs, m \in Leases : LeaseShape(q, m)'
    BY <1>1, <1>2, <1>3, ShapeStep DEF LeaseShape
  <1>6. TypeOK'
    BY <1>1, <1>2, <1>3, LeaseUpdate DEF TypeOK
  <1>7. QED
    BY <1>4, <1>5, <1>6 DEF IInv, Balanced

(* release gives back the reference of a lease of this process only. *)
LEMMA ReleaseStep ==
    ASSUME IInv, NEW p \in Procs, NEW l \in Leases, Release(p, l) PROVE IInv'
  <1> DEFINE t == TargetOf[l]
             n == [lease[p][l] EXCEPT !.state = "closed"]
  <1>1. /\ TypeOK /\ LeaseShape(p, l) /\ lease[p][l] \in LeaseObjects /\ t \in Targets
    BY ConstantsAssumption DEF IInv, TypeOK
  <1>2. /\ n \in LeaseObjects /\ n.state = "closed" /\ n.lock = lease[p][l].lock
        /\ n.pid = lease[p][l].pid /\ n.client = lease[p][l].client
    BY <1>1, ObjectUpdate
  <1>3. /\ Replace(p, l, n) /\ lease[p][l].state = "releasing"
        /\ alive' = alive /\ shut' = shut
    BY DEF Release, Replace
  <1>4. IF lease[p][l].pid # p THEN entries' = entries
        ELSE Register(p, t, Unreferenced(p, t))
    BY DEF Release, Register
  <1> HIDE DEF n
  <1>5. Balanced'
    <2>1. CASE lease[p][l].pid = p
      BY <2>1, <1>2, <1>3, <1>4, GiveReference DEF Holds
    <2>2. CASE lease[p][l].pid # p
      BY <2>2, <1>2, <1>3, <1>4, SameReferences DEF Holds
    <2>3. QED
      BY <2>1, <2>2
  <1>6. \A q \in Procs, m \in Leases : LeaseShape(q, m)'
    BY <1>1, <1>2, <1>3, ShapeStep DEF LeaseShape
  <1>7. TypeOK'
    <2>1. lease' \in [Procs -> [Leases -> LeaseObjects]]
      BY <1>1, <1>2, <1>3, LeaseUpdate
    <2>2. entries' \in [Procs -> [Targets -> Entries]]
      <3>1. Unreferenced(p, t) \in Entries
        BY <1>1, EntryTypes
      <3>2. QED
        BY <1>1, <1>4, <3>1, EntryUpdate DEF TypeOK
    <2>3. QED
      BY <1>1, <1>3, <2>1, <2>2 DEF TypeOK
  <1>8. QED
    BY <1>5, <1>6, <1>7 DEF IInv, Balanced

(* What a child sees of a lease keeps pid and client and is in no request. *)
LEMMA InheritedObject ==
    ASSUME NEW obj \in LeaseObjects
    PROVE  /\ Inherited(obj) \in LeaseObjects
           /\ Inherited(obj).pid = obj.pid
           /\ Inherited(obj).lock # "request"
           /\ Inherited(obj).state = "none" => obj.state = "none"
  BY DEF Inherited, LeaseObjects

(* fork: the child holds no reference and has no entry. *)
LEMMA ForkStep ==
    ASSUME IInv, NEW p \in Procs, NEW q \in Procs, Fork(p, q) PROVE IInv'
  <1>1. /\ TypeOK
        /\ p \in alive /\ q \notin alive /\ shut' = shut
        /\ alive' = alive \cup {q}
    BY DEF IInv, Fork
  <1>2. q \notin shut
    BY <1>1 DEF TypeOK
  <1>3. /\ \A l \in Leases : lease'[q][l] = Inherited(lease[p][l])
        /\ \A r \in Procs \ {q} : lease'[r] = lease[r]
        /\ \A t \in Targets : entries'[q][t] = NoEntry
        /\ \A r \in Procs \ {q} : entries'[r] = entries[r]
    BY <1>1 DEF Fork, TypeOK
  <1>4. ASSUME NEW l \in Leases
        PROVE  /\ Inherited(lease[p][l]) \in LeaseObjects
               /\ LeaseShape(q, l)'
               /\ lease'[q][l].pid # q
    <2> DEFINE old == lease[p][l]
               new == lease'[q][l]
    <2>1. old \in LeaseObjects /\ new = Inherited(old)
      BY <1>1, <1>3 DEF TypeOK
    <2>2. LeaseShape(p, l)
      BY DEF IInv
    <2>3. old.state = "none" => old.pid = NoPid
      BY <2>2 DEF LeaseShape
    <2>4. old.pid \in alive \cup {NoPid}
      BY <2>2 DEF LeaseShape
    <2> HIDE DEF old, new
    <2>5. /\ Inherited(old) \in LeaseObjects
          /\ new.pid = old.pid
          /\ new.lock # "request"
          /\ new.state = "none" => old.state = "none"
      BY <2>1, InheritedObject
    <2>6. /\ new.pid # q
          /\ new.pid \in alive' \cup {NoPid}
          /\ new.state = "none" => new.pid = NoPid
      BY <2>3, <2>4, <2>5, <1>1, ConstantsAssumption
    <2>7. QED
      BY <2>5, <2>6 DEF LeaseShape, old, new
  <1>5. TypeOK'
    <2>1. NoEntry \in Entries
      BY DEF NoEntry, Entries
    <2>2. entries' \in [Procs -> [Targets -> Entries]]
      BY <1>1, <2>1 DEF Fork, TypeOK
    <2>3. [l \in Leases |-> Inherited(lease[p][l])] \in [Leases -> LeaseObjects]
      BY <1>4
    <2>4. lease' \in [Procs -> [Leases -> LeaseObjects]]
      BY <1>1, <2>3 DEF Fork, TypeOK
    <2>5. QED
      BY <1>1, <2>2, <2>4 DEF TypeOK
  <1>6. \A r \in Procs, l \in Leases : LeaseShape(r, l)'
    <2>1. ASSUME NEW r \in Procs \ {q}, NEW l \in Leases PROVE LeaseShape(r, l)'
      <3>1. LeaseShape(r, l)
        BY DEF IInv
      <3>2. QED
        BY <3>1, <1>1, <1>3 DEF LeaseShape
    <2>2. QED
      BY <1>4, <2>1
  <1>7. ASSUME NEW t \in Targets
        PROVE  EntryShape(q, t)' /\ Counted(q, t)' /\ Shared(q, t)'
    <2>1. Holders(q, t)' = {}
      BY <1>4 DEF Holders
    <2>2. References(q, t)' = 0
      BY <1>3 DEF References, NoEntry
    <2>3. Counted(q, t)'
      BY <2>1, <2>2, FS_EmptySet DEF Counted
    <2>4. QED
      BY <2>1, <2>3, <1>3 DEF EntryShape, Shared
  <1>8. ASSUME NEW r \in Procs \ {q}, NEW t \in Targets
        PROVE  EntryShape(r, t)' /\ Counted(r, t)' /\ Shared(r, t)'
    <2>1. EntryShape(r, t) /\ Counted(r, t) /\ Shared(r, t)
      BY DEF IInv
    <2>2. Holders(r, t)' = Holders(r, t)
      BY <1>3 DEF Holders
    <2>3. EntryShape(r, t)'
      BY <2>1, <1>3 DEF EntryShape
    <2>4. Counted(r, t)'
      BY <2>1, <2>2, <1>1, <1>3 DEF Counted, References
    <2>5. Shared(r, t)'
      BY <2>1, <2>2, <1>1, <1>3 DEF Shared
    <2>6. QED
      BY <2>3, <2>4, <2>5
  <1>9. QED
    BY <1>5, <1>6, <1>7, <1>8 DEF IInv

(* close_all drops the counts below the holders, which it never exceeds. *)
LEMMA CloseAllStep ==
    ASSUME IInv, NEW p \in Procs, CloseAll(p) PROVE IInv'
  <1>1. /\ TypeOK
        /\ p \in alive /\ alive' = alive /\ lease' = lease
        /\ shut' = shut \cup {p}
    BY DEF IInv, CloseAll
  <1>2. /\ \A t \in Targets : entries'[p][t] = NoEntry
        /\ \A r \in Procs \ {p} : entries'[r] = entries[r]
    BY <1>1 DEF CloseAll, TypeOK
  <1>3. TypeOK'
    <2>1. NoEntry \in Entries
      BY DEF NoEntry, Entries
    <2>2. entries' \in [Procs -> [Targets -> Entries]]
      BY <1>1, <2>1 DEF CloseAll, TypeOK
    <2>3. QED
      BY <1>1, <2>2 DEF TypeOK
  <1>4. \A r \in Procs, l \in Leases : LeaseShape(r, l)'
    BY <1>1 DEF IInv, LeaseShape
  <1>5. \A r \in Procs, t \in Targets : Holders(r, t)' = Holders(r, t)
    BY <1>1 DEF Holders
  <1>6. ASSUME NEW t \in Targets
        PROVE  EntryShape(p, t)' /\ Counted(p, t)' /\ Shared(p, t)'
    <2>1. References(p, t)' = 0
      BY <1>2 DEF References, NoEntry
    <2>2. Cardinality(Holders(p, t)) \in Nat
      BY HoldersFinite
    <2>3. Counted(p, t)'
      BY <2>1, <2>2, <1>1, <1>5 DEF Counted
    <2>4. QED
      BY <2>3, <1>1, <1>2 DEF EntryShape, Shared
  <1>7. ASSUME NEW r \in Procs \ {p}, NEW t \in Targets
        PROVE  EntryShape(r, t)' /\ Counted(r, t)' /\ Shared(r, t)'
    <2>1. EntryShape(r, t) /\ Counted(r, t) /\ Shared(r, t)
      BY DEF IInv
    <2>2. EntryShape(r, t)'
      BY <2>1, <1>2 DEF EntryShape
    <2>3. Counted(r, t)'
      BY <2>1, <1>1, <1>2, <1>5 DEF Counted, References
    <2>4. Shared(r, t)'
      BY <2>1, <1>1, <1>2, <1>5 DEF Shared
    <2>5. QED
      BY <2>2, <2>3, <2>4
  <1>8. QED
    BY <1>3, <1>4, <1>6, <1>7 DEF IInv

-----------------------------------------------------------------------------
(* Initially every part of the invariant holds of an empty registry. *)
LEMMA InitIInv == Init => IInv
  <1> SUFFICES ASSUME Init PROVE IInv
    OBVIOUS
  <1>1. NoEntry \in Entries /\ NoLease \in LeaseObjects
    BY DEF Entries, NoEntry, LeaseObjects, NoLease
  <1>2. TypeOK
    BY <1>1, ConstantsAssumption DEF Init, TypeOK
  <1>3. ASSUME NEW p \in Procs, NEW t \in Targets PROVE Holders(p, t) = {}
    BY DEF Init, Holders, NoLease
  <1>4. ASSUME NEW p \in Procs, NEW t \in Targets PROVE Counted(p, t) /\ Shared(p, t)
    <2>1. entries[p][t] = NoEntry
      BY DEF Init
    <2>2. References(p, t) = 0
      BY <2>1 DEF References, NoEntry
    <2>3. Counted(p, t)
      BY <1>3, <2>2, FS_EmptySet DEF Counted
    <2>4. QED
      BY <1>3, <2>3 DEF Shared
  <1>5. ASSUME NEW p \in Procs, NEW t \in Targets PROVE EntryShape(p, t)
    BY DEF Init, EntryShape
  <1>6. ASSUME NEW p \in Procs, NEW l \in Leases PROVE LeaseShape(p, l)
    BY ConstantsAssumption DEF Init, LeaseShape, NoLease
  <1>7. QED
    BY <1>2, <1>4, <1>5, <1>6 DEF IInv

(* Every step of every process keeps the invariant. *)
LEMMA NextIInv == IInv /\ [Next]_vars => IInv'
  <1> SUFFICES ASSUME IInv, [Next]_vars PROVE IInv'
    OBVIOUS
  <1>1. ASSUME NEW p \in Procs, NEW l \in Leases, LeaseStep(p, l) PROVE IInv'
    BY <1>1, AcquireStep, RequestBeginStep, RequestEndStep, CloseMarkStep, ReleaseStep
    DEF LeaseStep
  <1>2. ASSUME NEW p \in Procs, NEW q \in Procs, Fork(p, q) PROVE IInv'
    BY <1>2, ForkStep
  <1>3. ASSUME NEW p \in Procs, CloseAll(p) PROVE IInv'
    BY <1>3, CloseAllStep
  <1>4. CASE UNCHANGED vars
    BY <1>4 DEF vars, IInv, TypeOK, LeaseShape, EntryShape, Counted, Shared,
                Holders, References
  <1>5. QED
    BY <1>1, <1>2, <1>3, <1>4 DEF Next

(***************************************************************************)
(* Registry entries and lease objects keep their types, whatever processes *)
(* fork and close in whatever order.                                       *)
(***************************************************************************)
THEOREM TypeCorrect == Spec => []TypeOK
  <1>1. IInv => TypeOK
    BY DEF IInv
  <1>2. QED
    BY <1>1, InitIInv, NextIInv, PTL DEF Spec

(***************************************************************************)
(* The reference counts of acquire and release are exact in every process  *)
(* until its close_all, and never above the leases that hold a reference.  *)
(***************************************************************************)
THEOREM ReferencesCorrect == Spec => []ReferencesExact
  <1>1. IInv => ReferencesExact
    BY DEF IInv, Counted, ReferencesExact
  <1>2. QED
    BY <1>1, InitIInv, NextIInv, PTL DEF Spec

(***************************************************************************)
(* All leases of a target in one process share the one client the registry *)
(* has for it, until close_all.                                            *)
(***************************************************************************)
THEOREM SharingCorrect == Spec => []OneClientPerTarget
  <1>1. IInv => OneClientPerTarget
    BY DEF IInv, Shared, OneClientPerTarget
  <1>2. QED
    BY <1>1, InitIInv, NextIInv, PTL DEF Spec

(* Only the end of a request releases a lease lock a request holds. *)
LEMMA OnlyRequestEndUnlocks ==
    ASSUME IInv, [Next]_vars, NEW p \in Procs, NEW l \in Leases,
           lease[p][l].lock = "request", lease'[p][l].lock = "free"
    PROVE  RequestEnd(p, l)
  <1>1. TypeOK /\ LeaseShape(p, l) /\ lease[p][l] \in LeaseObjects
    BY DEF IInv, TypeOK
  <1>2. lease[p][l].state = "open" /\ p \in alive
    BY <1>1 DEF LeaseShape
  <1>3. lease'[p][l] # lease[p][l]
    OBVIOUS
  <1>4. ASSUME NEW q \in Procs, NEW m \in Leases, LeaseStep(q, m)
        PROVE  q = p /\ m = l
    <2>1. lease' = [lease EXCEPT ![q] = [lease[q] EXCEPT ![m] = lease'[q][m]]]
      BY <1>1, <1>4 DEF LeaseStep, Acquire, RequestBegin, RequestEnd, CloseMark, Release, TypeOK
    <2>2. QED
      BY <1>1, <1>3, <2>1 DEF TypeOK
  <1>5. ASSUME LeaseStep(p, l) PROVE RequestEnd(p, l)
    BY <1>2, <1>5 DEF LeaseStep, Acquire, RequestBegin, CloseMark, Release
  <1>6. ASSUME NEW r \in Procs, NEW q \in Procs, Fork(r, q) PROVE FALSE
    <2>1. q # p
      BY <1>2, <1>6 DEF Fork
    <2>2. lease'[p] = lease[p]
      BY <1>1, <1>6, <2>1 DEF Fork, TypeOK
    <2>3. QED
      BY <1>3, <2>2
  <1>7. ASSUME NEW r \in Procs, CloseAll(r) PROVE FALSE
    BY <1>3, <1>7 DEF CloseAll
  <1>8. CASE UNCHANGED vars
    BY <1>3, <1>8 DEF vars
  <1>9. QED
    BY <1>4, <1>5, <1>6, <1>7, <1>8 DEF Next

(***************************************************************************)
(* No process uses or closes a client another process constructed: what    *)
(* _current_client returns and what close_all closes belong to the caller. *)
(***************************************************************************)
THEOREM InheritedNeverUsed == Spec => NoInheritedClientUsed
  <1> DEFINE Used == /\ \A p \in Procs, l \in Leases :
                            lease[p][l].lock = "request" /\ lease'[p][l].lock = "free"
                                => lease'[p][l].client.owner = p
                     /\ \A p \in shut' \ shut, t \in Targets :
                            entries[p][t] # NoEntry => entries[p][t].client.owner = p
  <1>1. ASSUME IInv, [Next]_vars PROVE Used
    <2>1. IInv'
      BY <1>1, NextIInv
    <2>2. ASSUME NEW p \in Procs, NEW l \in Leases,
                 lease[p][l].lock = "request", lease'[p][l].lock = "free"
          PROVE  lease'[p][l].client.owner = p
      <3>1. RequestEnd(p, l)
        BY <1>1, <2>2, OnlyRequestEndUnlocks
      <3>2. lease[p][l] \in LeaseObjects /\ TypeOK
        BY <1>1 DEF IInv, TypeOK
      <3>3. lease'[p][l].pid = p
        <4>1. CASE lease[p][l].pid = p
          <5>1. lease'[p][l] = [lease[p][l] EXCEPT !.lock = "free"]
            BY <3>1, <3>2, <4>1 DEF RequestEnd, TypeOK
          <5>2. QED
            BY <3>2, <4>1, <5>1, ObjectUpdate
        <4>2. CASE lease[p][l].pid # p
          <5>1. lease'[p][l] = [lease[p][l] EXCEPT !.lock = "free", !.pid = p,
                                   !.client = FoundOrMade(p, TargetOf[l]).client]
            BY <3>1, <3>2, <4>2 DEF RequestEnd, TypeOK
          <5>2. QED
            BY <3>2, <5>1 DEF LeaseObjects
        <4>3. QED
          BY <4>1, <4>2
      <3>4. LeaseShape(p, l)'
        BY <2>1 DEF IInv
      <3>5. QED
        BY <3>3, <3>4 DEF LeaseShape
    <2>3. ASSUME NEW p \in shut' \ shut, NEW t \in Targets, entries[p][t] # NoEntry
          PROVE  entries[p][t].client.owner = p
      <3>1. p \in Procs
        BY <2>1 DEF IInv, TypeOK
      <3>2. EntryShape(p, t)
        BY <1>1, <3>1 DEF IInv
      <3>3. QED
        BY <2>3, <3>2 DEF EntryShape
    <2>4. QED
      BY <2>2, <2>3
  <1>2. QED
    BY <1>1, InitIInv, NextIInv, PTL DEF Spec, NoInheritedClientUsed

-----------------------------------------------------------------------------
(***************************************************************************)
(* Direct invokes.  That a double execution needs an attempt of unknown    *)
(* outcome rests on where a request can be when the call is where it is: a *)
(* request that left the client belongs either to the attempt being waited *)
(* for, or to a call that ended without fallback, or to a call in doubt    *)
(* (Accounted); and an attempt that ended safely left nothing behind       *)
(* (SafeUnsent).                                                           *)
(***************************************************************************)
ThreadTypes ==
    /\ pc \in [Calls -> PCs]
    /\ attempt \in [Calls -> 0 .. MaxAttempts]
    /\ lastFail \in [Calls -> Failures]
    /\ outcome \in [Calls -> Outcomes]

SetTypes ==
    /\ expired \subseteq Bounded
    /\ sent \subseteq Calls
    /\ wire \subseteq Calls
    /\ viaRRT \subseteq Calls
    /\ viaRPC \subseteq Calls
    /\ doubt \subseteq Calls

FlagTypes ==
    /\ enabled \in BOOLEAN
    /\ disabled \in BOOLEAN
    /\ misses \in Nat

(* RuntimeRPC gets only fallbacks. *)
OnlyFallbacks(c) == c \in viaRPC => pc[c] \in {"rpc", "done"}

(* Before a call, after a safe failure and in the fallback, nothing is out. *)
SafeUnsent(c) ==
    /\ lastFail[c] = "safe" /\ pc[c] \in {"top", "failed"} => c \notin sent
    /\ pc[c] \in {"idle", "fallback", "rpc"} => c \notin sent

(* Whose a request is that RRT has, or may still get. *)
Accounted(c) ==
    c \in wire \cup viaRRT => \/ c \in doubt
                              \/ pc[c] = "posted" /\ c \in sent
                              \/ pc[c] = "done" /\ c \notin viaRPC

CallInv(c) == OnlyFallbacks(c) /\ SafeUnsent(c) /\ Accounted(c)

InvokeInv == InvokeTypeOK /\ \A c \in Calls : CallInv(c)

-----------------------------------------------------------------------------
(* The type invariant in its three parts. *)
LEMMA TypeParts == InvokeTypeOK <=> ThreadTypes /\ SetTypes /\ FlagTypes
  BY DEF InvokeTypeOK, ThreadTypes, SetTypes, FlagTypes

(* Initially nothing has been called. *)
LEMMA InvokeInitInv == InvokeInit => InvokeInv
  <1> SUFFICES ASSUME InvokeInit PROVE InvokeInv
    OBVIOUS
  <1>1. ThreadTypes
    BY InvokeAssumption DEF InvokeInit, ThreadTypes, PCs, InDirect, Failures, Outcomes
  <1>2. SetTypes
    BY DEF InvokeInit, SetTypes
  <1>3. FlagTypes
    BY DEF InvokeInit, FlagTypes
  <1>4. \A c \in Calls : CallInv(c)
    BY DEF InvokeInit, CallInv, OnlyFallbacks, SafeUnsent, Accounted
  <1>5. QED
    BY <1>1, <1>2, <1>3, <1>4, TypeParts DEF InvokeInv

(* The actions of one call, as one operator. *)
CallStep(c) ==
    \/ Invoke(c)
    \/ Expire(c)
    \/ ThreadStep(c)
    \/ Answer(c)
    \/ FallbackReply(c)
    \/ Forward(c)
    \/ RRTExecute(c)
    \/ RPCExecute(c)

(* The calling thread's variables keep their types. *)
LEMMA ThreadTypeStep ==
    ASSUME ThreadTypes, NEW c \in Calls, CallStep(c) PROVE ThreadTypes'
  <1> USE InvokeAssumption DEF ThreadTypes, PCs, InDirect, Failures, Outcomes
  <1>1. CASE Invoke(c) \/ Expire(c)
    BY <1>1 DEF Invoke, Expire, thread
  <1>2. CASE Post(c) \/ Retry(c)
    BY <1>2 DEF Post, Retry
  <1>3. CASE GiveUp(c)
    BY <1>3 DEF GiveUp, End
  <1>4. CASE Fallback(c)
    BY <1>4 DEF Fallback, End
  <1>5. CASE Answer(c)
    BY <1>5 DEF Answer, SafeFailure, UnknownFailure, GatewayFailure, OtherTransportError,
                HttpError, RouteMiss, DirectResult, Failed, End
  <1>6. CASE FallbackReply(c)
    BY <1>6 DEF FallbackReply, End
  <1>7. CASE Forward(c) \/ RRTExecute(c) \/ RPCExecute(c)
    BY <1>7 DEF Forward, RRTExecute, RPCExecute, thread
  <1>8. QED
    BY <1>1, <1>2, <1>3, <1>4, <1>5, <1>6, <1>7 DEF CallStep, ThreadStep

(* So do the sets of calls. *)
LEMMA SetTypeStep ==
    ASSUME SetTypes, NEW c \in Calls, CallStep(c) PROVE SetTypes'
  BY InvokeAssumption DEF SetTypes, CallStep, Invoke, Expire, ThreadStep, Post, Retry, GiveUp, Fallback,
     Answer, SafeFailure, UnknownFailure, GatewayFailure, OtherTransportError, HttpError,
     RouteMiss, DirectResult, Failed, FallbackReply, Forward, RRTExecute, RPCExecute, server

(* And the flags and the counter the threads share. *)
LEMMA FlagTypeStep ==
    ASSUME FlagTypes, NEW c \in Calls, CallStep(c) PROVE FlagTypes'
  <1>1. CASE Invoke(c) \/ Expire(c) \/ Post(c) \/ Retry(c) \/ Fallback(c)
             \/ FallbackReply(c) \/ Forward(c) \/ RRTExecute(c) \/ RPCExecute(c)
    BY <1>1 DEF FlagTypes, Invoke, Expire, Post, Retry, Fallback, FallbackReply, Forward,
                RRTExecute, RPCExecute, client
  <1>2. CASE GiveUp(c)
    <2>1. enabled' = enabled /\ misses' = misses
      BY <1>2 DEF GiveUp
    <2>2. disabled' = TRUE \/ disabled' = disabled
      BY <1>2 DEF GiveUp
    <2>3. QED
      BY <2>1, <2>2 DEF FlagTypes
  <1>3. CASE RouteMiss(c)
    <2>1. enabled' = enabled /\ misses' = misses + 1
      BY <1>3 DEF RouteMiss
    <2>2. disabled' \in BOOLEAN
      BY <1>3 DEF RouteMiss
    <2>3. misses' \in Nat
      BY <2>1 DEF FlagTypes
    <2>4. QED
      BY <2>1, <2>2, <2>3 DEF FlagTypes
  <1>4. CASE Answer(c) /\ ~RouteMiss(c)
    <2>1. enabled' = enabled /\ disabled' = disabled
      BY <1>4 DEF Answer, SafeFailure, UnknownFailure, GatewayFailure, OtherTransportError,
                  HttpError, DirectResult, Failed
    <2>2. misses' = 0 \/ misses' = misses
      BY <1>4 DEF Answer, SafeFailure, UnknownFailure, GatewayFailure, OtherTransportError,
                  HttpError, DirectResult, Failed
    <2>3. QED
      BY <2>1, <2>2 DEF FlagTypes
  <1>5. QED
    BY <1>1, <1>2, <1>3, <1>4 DEF CallStep, ThreadStep

(* Switching /direct on or off touches no call. *)
LEMMA SetDirectStep ==
    ASSUME InvokeInv, NEW b \in BOOLEAN, SetDirectEnabled(b) PROVE InvokeInv'
  <1>1. ThreadTypes' /\ SetTypes' /\ \A c \in Calls : CallInv(c)'
    BY TypeParts DEF InvokeInv, SetDirectEnabled, thread, server, ThreadTypes, SetTypes,
       CallInv, OnlyFallbacks, SafeUnsent, Accounted
  <1>2. misses' \in Nat
    BY DEF InvokeInv, InvokeTypeOK, SetDirectEnabled
  <1>3. enabled' \in BOOLEAN
    BY DEF SetDirectEnabled
  <1>4. disabled' \in BOOLEAN
    BY DEF SetDirectEnabled
  <1>5. QED
    BY <1>1, <1>2, <1>3, <1>4 DEF InvokeInv, InvokeTypeOK, ThreadTypes, SetTypes

(* A step of one call changes nothing of another. *)
LEMMA OtherCalls ==
    ASSUME InvokeInv, NEW c \in Calls, CallStep(c), NEW d \in Calls, d # c
    PROVE  CallInv(d)'
  <1>1. /\ pc'[d] = pc[d] /\ lastFail'[d] = lastFail[d] /\ outcome'[d] = outcome[d]
    BY DEF InvokeInv, InvokeTypeOK, CallStep, Invoke, Expire, ThreadStep, Post, Retry, GiveUp, Fallback,
     Answer, SafeFailure, UnknownFailure, GatewayFailure, OtherTransportError, HttpError,
     RouteMiss, DirectResult, Failed, FallbackReply, Forward, RRTExecute, RPCExecute,
     thread, End
  <1>2. /\ d \in sent' <=> d \in sent
        /\ d \in wire' <=> d \in wire
        /\ d \in viaRRT' <=> d \in viaRRT
        /\ d \in viaRPC' <=> d \in viaRPC
        /\ d \in doubt' <=> d \in doubt
    BY DEF CallStep, Invoke, Expire, ThreadStep, Post, Retry, GiveUp, Fallback,
     Answer, SafeFailure, UnknownFailure, GatewayFailure, OtherTransportError, HttpError,
     RouteMiss, DirectResult, Failed, FallbackReply, Forward, RRTExecute, RPCExecute, server
  <1>3. CallInv(d)
    BY DEF InvokeInv
  <1>4. QED
    BY <1>1, <1>2, <1>3 DEF CallInv, OnlyFallbacks, SafeUnsent, Accounted

(* A step of one call keeps what is known of it. *)
LEMMA OwnCall ==
    ASSUME InvokeInv, NEW c \in Calls, CallStep(c) PROVE CallInv(c)'
  <1>1. ThreadTypes /\ CallInv(c)
    BY TypeParts DEF InvokeInv
  <1> USE <1>1 DEF ThreadTypes, CallInv, OnlyFallbacks, SafeUnsent, Accounted
  <1>2. CASE Invoke(c) \/ Expire(c)
    BY <1>2 DEF Invoke, Expire, thread, server
  <1>3. CASE Post(c)
    BY <1>3 DEF Post, server
  <1>4. CASE Retry(c)
    BY <1>4 DEF Retry, server
  <1>5. CASE GiveUp(c)
    BY <1>5 DEF GiveUp, Exhausted, End, server
  <1>6. CASE Fallback(c)
    BY <1>6 DEF Fallback, End, server
  <1>7. CASE SafeFailure(c)
    BY <1>7 DEF SafeFailure, Failed, server
  <1>8. CASE UnknownFailure(c) \/ GatewayFailure(c)
    BY <1>8 DEF UnknownFailure, GatewayFailure, Failed, server
  <1>9. CASE OtherTransportError(c) \/ \E terminal \in BOOLEAN : HttpError(c, terminal)
    BY <1>9 DEF OtherTransportError, HttpError, End, server
  <1>10. CASE RouteMiss(c)
    BY <1>10 DEF RouteMiss, server
  <1>11. CASE DirectResult(c)
    BY <1>11 DEF DirectResult, End, server
  <1>12. CASE FallbackReply(c)
    BY <1>12 DEF FallbackReply, End, server
  <1>13. CASE Forward(c)
    BY <1>13 DEF Forward, thread
  <1>14. CASE RRTExecute(c)
    BY <1>14 DEF RRTExecute, thread
  <1>15. CASE RPCExecute(c)
    BY <1>15 DEF RPCExecute, thread
  <1>16. QED
    BY <1>2, <1>3, <1>4, <1>5, <1>6, <1>7, <1>8, <1>9, <1>10, <1>11, <1>12, <1>13, <1>14,
       <1>15 DEF CallStep, ThreadStep, Answer

(* Every step keeps the invariant. *)
LEMMA InvokeNextInv == InvokeInv /\ [InvokeNext]_invokeVars => InvokeInv'
  <1> SUFFICES ASSUME InvokeInv, [InvokeNext]_invokeVars PROVE InvokeInv'
    OBVIOUS
  <1>1. ASSUME NEW c \in Calls, CallStep(c) PROVE InvokeInv'
    <2>1. ThreadTypes /\ SetTypes /\ FlagTypes
      BY TypeParts DEF InvokeInv
    <2>2. ThreadTypes'
      BY <1>1, <2>1, ThreadTypeStep
    <2>3. SetTypes'
      BY <1>1, <2>1, SetTypeStep
    <2>4. FlagTypes'
      BY <1>1, <2>1, FlagTypeStep
    <2>5. \A d \in Calls : CallInv(d)'
      BY <1>1, OtherCalls, OwnCall
    <2>6. InvokeTypeOK'
      BY <2>2, <2>3, <2>4 DEF InvokeTypeOK, ThreadTypes, SetTypes, FlagTypes
    <2>7. QED
      BY <2>5, <2>6 DEF InvokeInv
  <1>2. ASSUME NEW b \in BOOLEAN, SetDirectEnabled(b) PROVE InvokeInv'
    BY <1>2, SetDirectStep
  <1>3. CASE UNCHANGED invokeVars
    BY <1>3 DEF invokeVars, client, thread, server, InvokeInv, InvokeTypeOK, CallInv, OnlyFallbacks, SafeUnsent,
                Accounted
  <1>4. QED
    BY <1>1, <1>2, <1>3 DEF InvokeNext, CallStep

(***************************************************************************)
(* The client's flags and counter, the threads and the servers keep their  *)
(* types: in particular no call makes more than MaxAttempts attempts.      *)
(***************************************************************************)
THEOREM InvokeTypesHold == InvokeSpec => []InvokeTypeOK
  <1>1. InvokeInv => InvokeTypeOK
    BY DEF InvokeInv
  <1>2. QED
    BY <1>1, InvokeInitInv, InvokeNextInv, PTL DEF InvokeSpec

(***************************************************************************)
(* A call RRT and RuntimeRPC both execute had an attempt of unknown        *)
(* outcome: safe failures and route misses never duplicate a side effect.  *)
(***************************************************************************)
THEOREM DoubleNeedsDoubt == InvokeSpec => []ReplayNeedsDoubt
  <1>1. ASSUME InvokeInv PROVE ReplayNeedsDoubt
    <2>1. ASSUME NEW c \in viaRRT \cap viaRPC PROVE c \in doubt
      <3>1. c \in Calls /\ CallInv(c)
        BY <1>1 DEF InvokeInv, InvokeTypeOK
      <3>2. QED
        BY <3>1 DEF CallInv, Accounted, OnlyFallbacks
    <2>2. QED
      BY <2>1 DEF ReplayNeedsDoubt
  <1>2. QED
    BY <1>1, InvokeInitInv, InvokeNextInv, PTL DEF InvokeSpec

(***************************************************************************)
(* The attempt that made invoke fall back never left the client.           *)
(***************************************************************************)
THEOREM FallbackUnsent == InvokeSpec => []FallbackAttemptUnsent
  <1>1. InvokeInv => FallbackAttemptUnsent
    BY DEF InvokeInv, CallInv, SafeUnsent, FallbackAttemptUnsent
  <1>2. QED
    BY <1>1, InvokeInitInv, InvokeNextInv, PTL DEF InvokeSpec
=============================================================================
