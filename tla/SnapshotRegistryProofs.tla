----------------------- MODULE SnapshotRegistryProofs -----------------------
(***************************************************************************)
(* Proofs about SnapshotRegistry, for any set of transactions, collectors, *)
(* counters and clock values, with or without the gc_floor.                *)
(***************************************************************************)
EXTENDS SnapshotRegistry, FiniteSetTheorems, TLAPS

-----------------------------------------------------------------------------
(* The types, the gc_floor and the scan of earliest_active.  Of the counters *)
(* these lemmas use one fact, LinkInv, which the registry's invariant gives. *)

\* The floor and every proposal stay below the registered atomic.
FloorInv ==
    /\ gc_floor <= clock
    /\ \A t \in Tx : pc[t] = "floor" => HasFloor
    /\ \A g \in Collector :
        /\ gpc[g] \in {"publish", "final", "finalLoad"} => prop[g] <= clock
        /\ gpc[g] \in {"final", "finalLoad", "collect"}
             => prop[g] <= IF HasFloor THEN gc_floor ELSE clock
        /\ gpc[g] = "collect" /\ HasFloor => wm[g] <= prop[g]

\* The deciding scan has not passed a transaction it must find.
ScanInv ==
    \A g \in Collector, t \in Tx :
        Active(t) /\ ver[t] < prop[g] =>
            /\ gpc[g] = "final" => pos[g] < ver[t]
            /\ gpc[g] = "finalLoad" =>
                 \/ pos[g] < ver[t]
                 \/ pos[g] = ver[t] /\ cur[g] = ctr[t]
            /\ gpc[g] = "collect" => wm[g] <= ver[t]

\* The scan holds a counter exactly while it is about to load it.
CursorInv ==
    \A g \in Collector :
        gpc[g] \in {"firstLoad", "finalLoad"} =>
            cur[g] \in Counter /\ pos[g] \in Time

\* A registered transaction's counter is linked, and the scan does not skip it.
LinkInv ==
    \A t \in Tx : Active(t) =>
        /\ ctr[t] \in Counter /\ map[ver[t]] = ctr[t]
        /\ count[ctr[t]] # 0 /\ count[ctr[t]] # Tombstone

-----------------------------------------------------------------------------
(* Types *)

TypeInv == TypeOK /\ CursorInv

\* Every step keeps the state well typed, the scan's cursor included.
LEMMA TypeStep == TypeInv /\ [Next]_vars => TypeInv'
<1> SUFFICES ASSUME TypeInv, [Next]_vars PROVE TypeInv'
  OBVIOUS
<1> USE TimeAssumption, CounterAssumption, TombstoneAssumption
    DEF TypeInv, TypeOK, CursorInv, Mark, TxPc, GcPc, Goto, GcGoto, MinOf,
        MaxOf, gcVars, txVars
<1>1. CASE Advance
  BY <1>1 DEF Advance
<1>2. ASSUME NEW t \in Tx, Load(t) PROVE TypeInv'
  BY <1>2 DEF Load
<1>3. ASSUME NEW t \in Tx, GetOrInsert(t) PROVE TypeInv'
  <2>1. CASE map[ver[t]] # NoCounter
    BY <1>3, <2>1, ZenonT(30) DEF GetOrInsert
  <2>2. CASE map[ver[t]] = NoCounter
    <3>1. PICK c \in Counter :
            /\ map' = [map EXCEPT ![ver[t]] = c]
            /\ count' = [count EXCEPT ![c] = 0]
            /\ ctr' = [ctr EXCEPT ![t] = c]
      BY <1>3, <2>2 DEF GetOrInsert
    <3> QED
      BY <1>3, <3>1 DEF GetOrInsert
  <2> QED
    BY <2>1, <2>2
<1>4. ASSUME NEW t \in Tx, Acquire(t) PROVE TypeInv'
  BY <1>4 DEF Acquire
<1>5. ASSUME NEW t \in Tx, CheckStable(t) PROVE TypeInv'
  BY <1>5 DEF CheckStable
<1>6. ASSUME NEW t \in Tx, CheckFloor(t) PROVE TypeInv'
  BY <1>6 DEF CheckFloor
<1>7. ASSUME NEW t \in Tx, Rollback(t) PROVE TypeInv'
  BY <1>7 DEF Rollback, ReleaseCounter
<1>8. ASSUME NEW t \in Tx, RollbackUnlink(t) PROVE TypeInv'
  BY <1>8, SMTT(30), Z3T(30) DEF RollbackUnlink
<1>9. ASSUME NEW t \in Tx, DropRelease(t) PROVE TypeInv'
  BY <1>9 DEF DropRelease, ReleaseCounter
<1>10. ASSUME NEW t \in Tx, DropRemove(t) PROVE TypeInv'
  BY <1>10 DEF DropRemove
<1>11. ASSUME NEW g \in Collector, ReadNow(g) PROVE TypeInv'
  BY <1>11 DEF ReadNow
<1>12. ASSUME NEW g \in Collector, ReadFallback(g) PROVE TypeInv'
  BY <1>12 DEF ReadFallback
<1>13. ASSUME NEW g \in Collector, ScanNext(g) PROVE TypeInv'
  BY <1>13, SMTT(30), Z3T(30) DEF ScanNext, ScanReturns, Ahead
<1>14. ASSUME NEW g \in Collector, ScanLoad(g) PROVE TypeInv'
  BY <1>14 DEF ScanLoad, ScanReturns
<1>15. ASSUME NEW g \in Collector, Propose(g) PROVE TypeInv'
  BY <1>15 DEF Propose
<1>16. ASSUME NEW g \in Collector, PublishFloor(g) PROVE TypeInv'
  BY <1>16 DEF PublishFloor
<1>17. ASSUME NEW g \in Collector, Finish(g) PROVE TypeInv'
  BY <1>17 DEF Finish
<1>18. CASE UNCHANGED vars
  BY <1>18 DEF vars
<1> HIDE DEF TypeInv, TypeOK, CursorInv
<1> QED
  BY ZenonT(30), <1>1, <1>2, <1>3, <1>4, <1>5, <1>6, <1>7, <1>8, <1>9, <1>10, <1>11,
        <1>12, <1>13, <1>14, <1>15, <1>16, <1>17, <1>18
     DEF Next, Register, Drop, Collect
-----------------------------------------------------------------------------
(* The floor *)

\* Every step keeps the floor and the proposals below the registered atomic.
LEMMA FloorStep == TypeInv /\ FloorInv /\ [Next]_vars => FloorInv'
<1> SUFFICES ASSUME TypeInv, FloorInv, [Next]_vars PROVE FloorInv'
  OBVIOUS
<1>0. /\ clock \in Nat /\ gc_floor \in Nat /\ pc \in [Tx -> TxPc]
      /\ gpc \in [Collector -> GcPc] /\ prop \in [Collector -> Nat]
      /\ wm \in [Collector -> Nat] /\ now \in [Collector -> Nat]
  <2>1. Mark \subseteq Nat /\ Time \subseteq Nat
    BY TimeAssumption DEF Mark
  <2> QED
    BY <2>1, Zenon DEF TypeInv, TypeOK
<1> USE <1>0, FloorAssumption
    DEF Goto, GcGoto, MinOf, MaxOf, gcVars, txVars
<1>1. CASE Advance
  <2>1. clock' \in Nat /\ clock < clock'
    BY <1>1, TimeAssumption DEF Advance
  <2>2. UNCHANGED <<gc_floor, pc, gpc, prop, wm>>
    BY <1>1 DEF Advance
  <2> QED
    BY <2>1, <2>2 DEF FloorInv
<1>2. ASSUME NEW t \in Tx, Register(t) \/ Drop(t) PROVE FloorInv'
  <2>1. UNCHANGED <<clock, gc_floor, gcVars>>
    BY <1>2, SMTT(30), Z3T(30) DEF Register, Drop, Load, GetOrInsert, Acquire, CheckStable,
                CheckFloor, Rollback, RollbackUnlink, DropRelease, DropRemove
  <2>2. \A u \in Tx : pc'[u] = "floor" => HasFloor
    BY <1>2 DEF Register, Drop, Load, GetOrInsert, Acquire, CheckStable,
                CheckFloor, Rollback, RollbackUnlink, DropRelease, DropRemove,
                ReleaseCounter, FloorInv
  <2> QED
    BY <2>1, <2>2, SMTT(30), Z3T(30) DEF FloorInv
<1>3. ASSUME NEW g \in Collector, ReadNow(g) PROVE FloorInv'
  BY <1>3 DEF ReadNow, FloorInv
<1>4. ASSUME NEW g \in Collector, ReadFallback(g) PROVE FloorInv'
  BY <1>4 DEF ReadFallback, FloorInv
<1>5. ASSUME NEW g \in Collector, NEW e, ScanReturns(g, e),
             UNCHANGED <<clock, gc_floor, pc>>, e \in Nat
      PROVE  FloorInv'
  <2>1. \A h \in Collector \ {g} : /\ gpc'[h] = gpc[h] /\ prop'[h] = prop[h]
                                   /\ wm'[h] = wm[h]
    BY <1>5 DEF ScanReturns
  <2>2. CASE gpc[g] \in {"first", "firstLoad"}
    BY <1>5, <2>1, <2>2, SMTT(30), Z3T(30) DEF ScanReturns, FloorInv
  <2>3. CASE gpc[g] \in {"final", "finalLoad"}
    <3>1. /\ gpc'[g] = "collect" /\ prop' = prop
          /\ HasFloor => wm'[g] <= prop[g]
      BY <1>5, <2>3 DEF ScanReturns
    <3> QED
      BY <1>5, <2>1, <2>3, <3>1 DEF FloorInv
  <2> QED
    BY <1>5, <2>2, <2>3 DEF ScanReturns
<1>6. ASSUME NEW g \in Collector, ScanNext(g) \/ ScanLoad(g),
             UNCHANGED <<prop, wm>>, gpc[g] \in {"first", "firstLoad", "final", "finalLoad"},
             gpc' = [gpc EXCEPT ![g] =
                       IF gpc[g] \in {"first", "firstLoad"}
                         THEN IF gpc[g] = "first" THEN "firstLoad" ELSE "first"
                         ELSE IF gpc[g] = "final" THEN "finalLoad" ELSE "final"]
      PROVE  FloorInv'
  <2>1. UNCHANGED <<clock, gc_floor, pc>>
    BY <1>6 DEF ScanNext, ScanLoad
  <2> QED
    BY <1>6, <2>1 DEF FloorInv
<1>7. ASSUME NEW g \in Collector, ScanNext(g) PROVE FloorInv'
  <2>1. CASE Ahead(g) = {}
    BY <1>5, <1>7, <2>1, SMTT(30), Z3T(30) DEF ScanNext
  <2>2. CASE Ahead(g) # {}
    BY <1>6, <1>7, <2>2 DEF ScanNext
  <2> QED
    BY <2>1, <2>2
<1>8. ASSUME NEW g \in Collector, ScanLoad(g) PROVE FloorInv'
  <2>1. pos[g] \in Nat
    BY <1>8, TimeAssumption, Zenon DEF ScanLoad, TypeInv, CursorInv
  <2>2. CASE count[cur[g]] \notin {0, Tombstone}
    BY <1>5, <1>8, <2>1, <2>2, SMTT(30), Z3T(30) DEF ScanLoad
  <2>3. CASE count[cur[g]] \in {0, Tombstone}
    BY <1>6, <1>8, <2>3, ZenonT(30) DEF ScanLoad
  <2> QED
    BY <2>2, <2>3
<1>9. ASSUME NEW g \in Collector, Propose(g) PROVE FloorInv'
  BY <1>9 DEF Propose, FloorInv
<1>10. ASSUME NEW g \in Collector, PublishFloor(g) PROVE FloorInv'
  <2>1. /\ gpc[g] = "publish" /\ prop[g] <= clock
        /\ gpc' = [gpc EXCEPT ![g] = "final"]
        /\ UNCHANGED <<clock, pc, prop, wm>>
    BY <1>10 DEF PublishFloor, FloorInv
  <2>2. /\ gc_floor' \in Nat /\ gc_floor <= gc_floor' /\ prop[g] <= gc_floor'
        /\ gc_floor' <= clock
    BY <1>10, <2>1 DEF PublishFloor, FloorInv
  <2> QED
    BY <2>1, <2>2 DEF FloorInv
<1>11. ASSUME NEW g \in Collector, Finish(g) PROVE FloorInv'
  BY <1>11 DEF Finish, FloorInv
<1>12. CASE UNCHANGED vars
  BY <1>12 DEF vars, FloorInv
<1> QED
  BY <1>1, <1>2, <1>3, <1>4, <1>7, <1>8, <1>9, <1>10, <1>11, <1>12
     DEF Next, Collect
-----------------------------------------------------------------------------
(* The deciding scan *)

\* A transaction that is registered after a step was registered before it, or
\* has just seen that the atomic (no floor) or the floor is not above its
\* snapshot.
LEMMA ActiveStep ==
  ASSUME TypeInv, NEW u \in Tx, Register(u) \/ Drop(u),
         NEW t \in Tx, Active(t)', FloorInv
  PROVE  /\ ver'[t] = ver[t] /\ ctr'[t] = ctr[t]
         /\ \/ Active(t)
            \/ HasFloor /\ gc_floor <= ver[t]
            \/ ~HasFloor /\ clock <= ver[t]
<1>0. /\ pc \in [Tx -> TxPc] /\ ver \in [Tx -> Time]
      /\ ctr \in [Tx -> Counter \cup {NoCounter}] /\ clock \in Time
  BY SMTT(30), Z3T(30) DEF TypeInv, TypeOK
<1> USE <1>0 DEF Active, Goto
<1>1. CASE u # t
  BY <1>1, SMTT(30), Z3T(30) DEF Register, Drop, Load, GetOrInsert, Acquire, CheckStable,
     CheckFloor, Rollback, RollbackUnlink, DropRelease, DropRemove,
     ReleaseCounter
<1>2. CASE u = t
  <2>1. CheckStable(t) \/ CheckFloor(t)
    BY <1>2 DEF Register, Drop, Load, GetOrInsert, Acquire, Rollback,
       RollbackUnlink, DropRelease, DropRemove, ReleaseCounter
  <2>2. CASE CheckStable(t)
    BY <2>2, TimeAssumption, FloorAssumption DEF CheckStable
  <2>3. CASE CheckFloor(t)
    BY <2>3 DEF CheckFloor, FloorInv
  <2> QED
    BY <2>1, <2>2, <2>3, SMTT(30), Z3T(30)
<1> QED
  BY <1>1, <1>2

\* Every step preserves the scan invariant.
LEMMA ScanStep ==
  TypeInv /\ LinkInv /\ FloorInv /\ ScanInv /\ [Next]_vars => ScanInv'
<1> SUFFICES ASSUME TypeInv, LinkInv, FloorInv, ScanInv, [Next]_vars
             PROVE  ScanInv'
  OBVIOUS
<1>0. /\ clock \in Nat /\ gc_floor \in Nat /\ ver \in [Tx -> Nat]
      /\ gpc \in [Collector -> GcPc] /\ pos \in [Collector -> Int]
      /\ cur \in [Collector -> Counter \cup {NoCounter}]
      /\ prop \in [Collector -> Nat] /\ wm \in [Collector -> Nat]
      /\ now \in [Collector -> Nat]
  <2>1. Mark \subseteq Nat /\ Time \subseteq Nat /\ Time \cup {-1} \subseteq Int
    BY TimeAssumption, SMTT(30), Z3T(30) DEF Mark
  <2> QED
    BY <2>1, Zenon DEF TypeInv, TypeOK
<1> USE <1>0 DEF GcGoto, gcVars, txVars
<1>1. CASE Advance \/ UNCHANGED vars
  BY <1>1 DEF Advance, vars, ScanInv, Active
<1>2. ASSUME NEW u \in Tx, Register(u) \/ Drop(u) PROVE ScanInv'
  <2>1. UNCHANGED gcVars
    BY <1>2, ZenonT(30) DEF Register, Drop, Load, GetOrInsert, Acquire, CheckStable,
                CheckFloor, Rollback, RollbackUnlink, DropRelease, DropRemove
  <2> SUFFICES ASSUME NEW g \in Collector, NEW t \in Tx,
                      Active(t)', ver'[t] < prop[g],
                      gpc[g] \in {"final", "finalLoad", "collect"}
               PROVE  /\ gpc[g] = "final" => pos[g] < ver'[t]
                      /\ gpc[g] = "finalLoad" =>
                           \/ pos[g] < ver'[t]
                           \/ pos[g] = ver'[t] /\ cur[g] = ctr'[t]
                      /\ gpc[g] = "collect" => wm[g] <= ver'[t]
    BY <2>1, SMTT(30), Z3T(30) DEF ScanInv
  <2>2. ver'[t] = ver[t] /\ ctr'[t] = ctr[t]
    BY <1>2, ActiveStep
  <2>3. Active(t)
    BY <1>2, <2>2, ActiveStep, SMTT(30), Z3T(30) DEF FloorInv
  <2> QED
    BY <2>2, <2>3, SMTT(30), Z3T(30) DEF ScanInv
<1>3. ASSUME NEW g \in Collector, Collect(g) PROVE ScanInv'
  <2>1. UNCHANGED txVars
    BY <1>3, ZenonT(30) DEF Collect, ReadNow, ReadFallback, ScanNext, ScanLoad, Propose,
                PublishFloor, Finish
  <2>2. \A h \in Collector \ {g} :
          /\ gpc'[h] = gpc[h] /\ prop'[h] = prop[h] /\ pos'[h] = pos[h]
          /\ cur'[h] = cur[h] /\ wm'[h] = wm[h]
    <3>1. CASE ScanNext(g)
      BY <3>1 DEF ScanNext, ScanReturns
    <3>2. CASE ScanLoad(g)
      BY <3>2 DEF ScanLoad, ScanReturns
    <3>3. CASE ReadNow(g) \/ ReadFallback(g) \/ Propose(g)
      BY <3>3 DEF ReadNow, ReadFallback, Propose
    <3>4. CASE PublishFloor(g) \/ Finish(g)
      BY <3>4, SMTT(30), Z3T(30) DEF PublishFloor, Finish
    <3> QED
      BY <1>3, <3>1, <3>2, <3>3, <3>4, ZenonT(30) DEF Collect
  <2>3. ASSUME NEW t \in Tx, Active(t), ver[t] < prop'[g]
        PROVE  /\ gpc'[g] = "final" => pos'[g] < ver[t]
               /\ gpc'[g] = "finalLoad" =>
                    \/ pos'[g] < ver[t]
                    \/ pos'[g] = ver[t] /\ cur'[g] = ctr[t]
               /\ gpc'[g] = "collect" => wm'[g] <= ver[t]
    <3>3. /\ ver[t] \in Time /\ ctr[t] \in Counter /\ map[ver[t]] = ctr[t]
          /\ count[ctr[t]] # 0 /\ count[ctr[t]] # Tombstone
      BY <2>3 DEF TypeInv, TypeOK, LinkInv
    <3>4. CASE ReadNow(g) \/ ReadFallback(g)
      BY <3>4 DEF ReadNow, ReadFallback
    <3>5. CASE Propose(g) \/ PublishFloor(g) \/ Finish(g)
      BY <3>5, SMTT(30), Z3T(30) DEF Propose, PublishFloor, Finish
    <3>6. CASE ScanNext(g) /\ gpc[g] = "first"
      BY <3>6, SMTT(30), Z3T(30) DEF ScanNext, ScanReturns
    <3>7. CASE ScanLoad(g) /\ gpc[g] = "firstLoad"
      BY <3>7 DEF ScanLoad, ScanReturns
    <3>8. CASE ScanNext(g) /\ gpc[g] = "final"
      <4>1. prop' = prop /\ pos[g] < ver[t]
        BY <2>3, <3>8, SMTT(30), Z3T(30) DEF ScanNext, ScanReturns, ScanInv
      <4>2. ver[t] \in Ahead(g)
        BY <3>3, <4>1, CounterAssumption, SMTT(30), Z3T(30) DEF Ahead
      <4>3. PICK k \in Ahead(g) :
              /\ \A j \in Ahead(g) : k <= j
              /\ pos' = [pos EXCEPT ![g] = k]
              /\ cur' = [cur EXCEPT ![g] = map[k]]
              /\ gpc' = [gpc EXCEPT ![g] = "finalLoad"]
        BY <3>8, <4>2, SMTT(30), Z3T(30) DEF ScanNext
      <4>4. k <= ver[t] /\ k \in Nat
        BY <4>2, <4>3, TimeAssumption, SMTT(30), Z3T(30) DEF Ahead
      <4> QED
        BY <3>3, <4>3, <4>4, SMTT(30), Z3T(30)
    <3>9. CASE ScanLoad(g) /\ gpc[g] = "finalLoad"
      <4>1. /\ prop' = prop /\ pos' = pos
            /\ pos[g] < ver[t] \/ (pos[g] = ver[t] /\ cur[g] = ctr[t])
        BY <2>3, <3>9, SMTT(30), Z3T(30) DEF ScanLoad, ScanReturns, ScanInv
      <4>2. CASE count[cur[g]] \notin {0, Tombstone}
        <5>1. gpc'[g] = "collect" /\ wm'[g] <= pos[g]
          BY <3>9, <4>2, SMTT(30), Z3T(30) DEF ScanLoad, ScanReturns, MinOf
        <5>2. wm'[g] \in Int
          BY <3>9, <4>2 DEF ScanLoad, ScanReturns, MinOf
        <5>3. pos[g] <= ver[t]
          BY <4>1
        <5>4. wm'[g] <= ver[t]
          BY <5>1, <5>2, <5>3, SMTT(30), Z3T(30)
        <5> QED
          BY <5>1, <5>4, SMTT(30), Z3T(30)
      <4>3. CASE count[cur[g]] \in {0, Tombstone}
        BY <3>3, <3>9, <4>1, <4>3, SMTT(30), Z3T(30) DEF ScanLoad
      <4> QED
        BY <4>2, <4>3, SMTT(30), Z3T(30)
    <3> QED
      BY <1>3, <3>4, <3>5, <3>6, <3>7, <3>8, <3>9, ZenonT(30) DEF Collect, ScanNext, ScanLoad
  <2> SUFFICES ASSUME NEW h \in Collector, NEW t \in Tx,
                      Active(t)', ver'[t] < prop'[h]
               PROVE  /\ gpc'[h] = "final" => pos'[h] < ver'[t]
                      /\ gpc'[h] = "finalLoad" =>
                           \/ pos'[h] < ver'[t]
                           \/ pos'[h] = ver'[t] /\ cur'[h] = ctr'[t]
                      /\ gpc'[h] = "collect" => wm'[h] <= ver'[t]
    BY DEF ScanInv
  <2>4. Active(t) /\ ver' = ver /\ ctr' = ctr
    BY <2>1, SMTT(30), Z3T(30) DEF Active
  <2>5. CASE h = g
    BY <2>3, <2>4, <2>5, SMTT(30), Z3T(30)
  <2>6. CASE h # g
    BY <2>2, <2>4, <2>6 DEF ScanInv
  <2> QED
    BY <2>5, <2>6, SMTT(30), Z3T(30)
<1> QED
  BY <1>1, <1>2, <1>3 DEF Next

-----------------------------------------------------------------------------
(* The registry *)

Unlinking(t) == pc[t] \in {"unlink", "remove"}

\* A counter that is not a tombstone counts exactly its holders; a tombstone
\* has none.
CountInv ==
    \A c \in Counter :
        /\ count[c] = Tombstone => Holders(c) = {}
        /\ count[c] # Tombstone => count[c] = Cardinality(Holders(c))

\* Who has incremented a counter finds it in the map under its snapshot.
HoldInv ==
    \A t \in Tx : Holding(t) => ctr[t] \in Counter /\ map[ver[t]] = ctr[t]

\* A counter fetched but not yet incremented is still linked, or dead.
AcquireInv ==
    \A t \in Tx : pc[t] = "acquire" =>
        /\ ctr[t] \in Counter
        /\ map[ver[t]] = ctr[t] \/ count[ctr[t]] = Tombstone

\* Whoever leaves a tombstone is the only one to unlink it.
UnlinkInv ==
    \A t \in Tx : Unlinking(t) =>
        /\ ctr[t] \in Counter
        /\ map[ver[t]] = ctr[t]
        /\ count[ctr[t]] = Tombstone
        /\ \A u \in Tx : Unlinking(u) /\ ctr[u] = ctr[t] => u = t

RegistryInv == CountInv /\ HoldInv /\ AcquireInv /\ UnlinkInv

\* A counter is stored under one key; the transaction that inserted a zero
\* counter is about to increment it, a tombstone is about to be unlinked.
OwnerInv ==
    \A k \in Time : map[k] # NoCounter =>
        /\ \A j \in Time : map[j] = map[k] => j = k
        /\ count[map[k]] = 0 =>
             \E t \in Tx : pc[t] = "acquire" /\ ctr[t] = map[k] /\ ver[t] = k
        /\ count[map[k]] = Tombstone =>
             \E t \in Tx : Unlinking(t) /\ ctr[t] = map[k] /\ ver[t] = k

IInv == TypeOK /\ CursorInv /\ RegistryInv /\ OwnerInv /\ FloorInv /\ ScanInv

-----------------------------------------------------------------------------
(* The registry *)

\* The number of holders of a counter is a natural number below the tombstone.
LEMMA HoldersFinite ==
  ASSUME NEW c \in Counter
  PROVE  /\ IsFiniteSet(Holders(c))
         /\ Cardinality(Holders(c)) \in Nat
         /\ Cardinality(Holders(c)) < Tombstone
<1>1. Holders(c) \subseteq Tx
  BY DEF Holders
<1>2. /\ IsFiniteSet(Holders(c))
      /\ Cardinality(Holders(c)) <= Cardinality(Tx)
  BY <1>1, TxAssumption, FS_Subset
<1>3. Cardinality(Holders(c)) \in Nat /\ Cardinality(Tx) \in Nat
  BY <1>2, TxAssumption, FS_CardinalityType
<1> QED
  BY <1>2, <1>3, TombstoneAssumption

\* A counter somebody holds is not a tombstone and is at least one.
LEMMA HeldIsLive ==
  ASSUME TypeInv, RegistryInv, NEW t \in Tx, Holding(t)
  PROVE  /\ ctr[t] \in Counter
         /\ count[ctr[t]] # Tombstone
         /\ count[ctr[t]] # 0
         /\ count[ctr[t]] = Cardinality(Holders(ctr[t]))
<1>1. ctr[t] \in Counter /\ t \in Holders(ctr[t])
  BY DEF RegistryInv, HoldInv, Holders
<1>2. count[ctr[t]] # Tombstone
  BY <1>1 DEF RegistryInv, CountInv
<1>3. Cardinality(Holders(ctr[t])) # 0
  BY <1>1, HoldersFinite, FS_EmptySet
<1> QED
  BY <1>1, <1>2, <1>3 DEF RegistryInv, CountInv

\* What the scan needs of the counters.
LEMMA RegistryLinked ==
  ASSUME TypeInv, RegistryInv PROVE LinkInv
BY HeldIsLive, SMTT(30), Z3T(30) DEF LinkInv, RegistryInv, HoldInv, Active, Holding

\* The steps that leave the map, the counters and the transactions alone.
LEMMA RegistryStutter ==
  ASSUME RegistryInv, UNCHANGED <<map, count, pc, ver, ctr>>
  PROVE  RegistryInv'
BY SMTT(30), Z3T(30) DEF RegistryInv, CountInv, HoldInv, AcquireInv, UnlinkInv, Holders,
       Holding, Unlinking

\* The steps of a transaction that hold nothing before and after and touch
\* neither the map nor a counter.
LEMMA RegistryLocal ==
  ASSUME TypeInv, RegistryInv, NEW t \in Tx, UNCHANGED <<map, count>>,
         NEW l \in TxPc, pc' = [pc EXCEPT ![t] = l],
         \A u \in Tx \ {t} : ver'[u] = ver[u] /\ ctr'[u] = ctr[u],
         pc[t] \in {"begin", "insert", "acquire"},
         l \in {"begin", "insert"}
  PROVE  RegistryInv'
<1> USE DEF TypeInv, TypeOK, Holding, Unlinking
<1>1. \A c : Holders(c)' = Holders(c)
  BY SMTT(30), Z3T(30) DEF Holders
<1>2. CountInv'
  BY <1>1, SMTT(30), Z3T(30) DEF RegistryInv, CountInv
<1>3. HoldInv' /\ AcquireInv'
  BY SMTT(30), Z3T(30) DEF RegistryInv, HoldInv, AcquireInv
<1>4. UnlinkInv'
  BY DEF RegistryInv, UnlinkInv
<1> QED
  BY <1>2, <1>3, <1>4, SMTT(30), Z3T(30) DEF RegistryInv
\* get_or_insert_with: a fresh counter is in nobody's hands.
LEMMA RegistryInsert ==
  ASSUME TypeInv, RegistryInv, NEW t \in Tx, GetOrInsert(t)
  PROVE  RegistryInv'
<1> USE DEF TypeInv, TypeOK, Holding, Unlinking
<1>1. /\ pc[t] = "insert"
      /\ pc' = [pc EXCEPT ![t] = "acquire"]
      /\ ver' = ver
  BY DEF GetOrInsert, Goto
<1>2. CASE map[ver[t]] # NoCounter
  <2>1. /\ ctr' = [ctr EXCEPT ![t] = map[ver[t]]]
        /\ map' = map /\ count' = count
    BY <1>2 DEF GetOrInsert
  <2>2. \A c : Holders(c)' = Holders(c)
    BY <1>1, <2>1 DEF Holders
  <2>3. CountInv'
    BY <2>1, <2>2, SMTT(30), Z3T(30) DEF RegistryInv, CountInv
  <2>4. HoldInv' /\ AcquireInv'
    BY <1>1, <1>2, <2>1, SMTT(30), Z3T(30) DEF RegistryInv, HoldInv, AcquireInv
  <2>5. UnlinkInv'
    BY <1>1, <2>1 DEF RegistryInv, UnlinkInv
  <2> QED
    BY <2>3, <2>4, <2>5 DEF RegistryInv
<1>3. CASE map[ver[t]] = NoCounter
  <2>1. PICK c \in Counter :
          /\ Unreferenced(c)
          /\ map' = [map EXCEPT ![ver[t]] = c]
          /\ count' = [count EXCEPT ![c] = 0]
          /\ ctr' = [ctr EXCEPT ![t] = c]
    BY <1>3 DEF GetOrInsert
  <2>2. \A u \in Tx : ctr[u] # c
    BY <2>1 DEF Unreferenced
  <2>3. \A d \in Counter : Holders(d)' = Holders(d)
    BY <1>1, <2>1 DEF Holders
  <2>4. Holders(c) = {}
    BY <2>2 DEF Holders
  <2>5. CountInv'
    BY <2>1, <2>3, <2>4, FS_EmptySet, TombstoneAssumption
      , ZenonT(30) DEF RegistryInv, CountInv
  <2>6. HoldInv' /\ AcquireInv'
    BY <1>1, <1>3, <2>1, <2>2, CounterAssumption, SMTT(30), Z3T(30)
       DEF RegistryInv, HoldInv, AcquireInv
  <2>7. UnlinkInv'
    BY <1>1, <1>3, <2>1, <2>2, CounterAssumption, SMTT(30), Z3T(30) DEF RegistryInv, UnlinkInv
  <2> QED
    BY <2>5, <2>6, <2>7, SMTT(30), Z3T(30) DEF RegistryInv
<1> QED
  BY <1>2, <1>3

\* The compare-exchange: a tombstone is left alone, any other counter gains
\* exactly one holder, and that counter is still linked.
LEMMA RegistryAcquire ==
  ASSUME TypeInv, RegistryInv, NEW t \in Tx, Acquire(t)
  PROVE  RegistryInv'
<1> USE DEF TypeInv, TypeOK, Holding, Unlinking
<1>1. CASE count[ctr[t]] = Tombstone
  <2>1. /\ pc' = [pc EXCEPT ![t] = "begin"]
        /\ ctr' = [ctr EXCEPT ![t] = NoCounter]
        /\ UNCHANGED <<map, count, ver>>
        /\ pc[t] = "acquire"
    BY <1>1, SMTT(30), Z3T(30) DEF Acquire, Goto
  <2> QED
    BY <2>1, RegistryLocal, Zenon DEF TxPc
<1>2. CASE count[ctr[t]] # Tombstone
  <2>0. PICK c \in Counter : c = ctr[t] /\ map[ver[t]] = c
    BY <1>2, SMTT(30), Z3T(30) DEF Acquire, RegistryInv, AcquireInv
  <2>1. /\ pc[t] = "acquire"
        /\ pc' = [pc EXCEPT ![t] = "stable"]
        /\ count' = [count EXCEPT ![c] = @ + 1]
        /\ UNCHANGED <<map, ver, ctr>>
    BY <1>2, <2>0, SMTT(30), Z3T(30) DEF Acquire, Goto
  <2>2. c \in Counter /\ map[ver[t]] = c /\ c = ctr[t]
    BY <2>0
  <2>3. \A d \in Counter \ {c} : Holders(d)' = Holders(d)
    BY <2>1, <2>2 DEF Holders
  <2>4. Holders(c)' = Holders(c) \cup {t} /\ t \notin Holders(c)
    BY <2>1, <2>2 DEF Holders
  <2>5. Cardinality(Holders(c) \cup {t}) = Cardinality(Holders(c)) + 1
    BY <2>2, <2>4, HoldersFinite, FS_AddElement, Zenon
  <2>6. count[c] = Cardinality(Holders(c))
    BY <1>2, <2>2 DEF RegistryInv, CountInv
  <2>7. IsFiniteSet(Holders(c) \cup {t}) /\ Holders(c) \cup {t} \subseteq Tx
    BY <2>2, HoldersFinite, FS_AddElement, ZenonT(30) DEF Holders
  <2>8. count[c] + 1 # Tombstone
    <3>1. Cardinality(Holders(c) \cup {t}) <= Cardinality(Tx)
      BY <2>7, TxAssumption, FS_Subset
    <3>2. Cardinality(Tx) \in Nat
      BY TxAssumption, FS_CardinalityType
    <3> QED
      BY <2>2, <2>5, <2>6, <3>1, <3>2, TombstoneAssumption, HoldersFinite
  <2>9. CountInv'
    <3> SUFFICES ASSUME NEW d \in Counter
                 PROVE  /\ count'[d] = Tombstone => Holders(d)' = {}
                        /\ count'[d] # Tombstone
                             => count'[d] = Cardinality(Holders(d)')
      BY DEF CountInv
    <3>1. CASE d = c
      <4>1. count'[c] = count[c] + 1
        BY <2>1, <2>2
      <4>2. count'[c] = Cardinality(Holders(c)')
        BY <2>4, <2>5, <2>6, <4>1, SMTT(30), Z3T(30)
      <4> QED
        BY <2>8, <3>1, <4>1, <4>2
    <3>2. CASE d # c
      <4>1. count'[d] = count[d] /\ Holders(d)' = Holders(d)
        BY <2>1, <2>3, <3>2, SMTT(30), Z3T(30)
      <4> QED
        BY <4>1 DEF RegistryInv, CountInv
    <3> QED
      BY <3>1, <3>2
  <2>10. HoldInv' /\ AcquireInv' /\ UnlinkInv'
    BY <1>2, <2>1, <2>2, SMTT(30), Z3T(30) DEF RegistryInv, HoldInv, AcquireInv, UnlinkInv
  <2> QED
    BY <2>9, <2>10, SMTT(30), Z3T(30) DEF RegistryInv
<1> QED
  BY <1>1, <1>2
\* The reload of the atomic and the floor check only move the transaction
\* between places where it holds its counter.
LEMMA RegistryCheck ==
  ASSUME TypeInv, RegistryInv, NEW t \in Tx, CheckStable(t) \/ CheckFloor(t)
  PROVE  RegistryInv'
<1> USE DEF TypeInv, TypeOK, Holding, Unlinking
<1>1. PICK l \in {"floor", "active", "rollback"} :
        pc' = [pc EXCEPT ![t] = l]
  BY SMTT(30), Z3T(30) DEF CheckStable, CheckFloor, Goto
<1>2. UNCHANGED <<map, count, ver, ctr>> /\ pc[t] \in {"stable", "floor"}
  BY SMTT(30), Z3T(30) DEF CheckStable, CheckFloor
<1>3. \A c : Holders(c)' = Holders(c)
  BY <1>1, <1>2, SMTT(30), Z3T(30) DEF Holders
<1>4. CountInv'
  BY <1>2, <1>3, SMTT(30), Z3T(30) DEF RegistryInv, CountInv
<1>5. HoldInv' /\ AcquireInv' /\ UnlinkInv'
  BY <1>1, <1>2 DEF RegistryInv, HoldInv, AcquireInv, UnlinkInv
<1> QED
  BY <1>4, <1>5 DEF RegistryInv

\* release_counter: exactly the last holder leaves a tombstone.
LEMMA RegistryRelease ==
  ASSUME TypeInv, RegistryInv, NEW t \in Tx, Holding(t),
         NEW last \in {"unlink", "remove"}, NEW others \in {"begin", "done"},
         ReleaseCounter(t, last, others), UNCHANGED <<map, ver>>
  PROVE  RegistryInv'
<1> USE DEF TypeInv, TypeOK, Holding, Unlinking
<1>1. PICK c \in Counter :
        /\ c = ctr[t]
        /\ map[ver[t]] = c
        /\ count[c] # Tombstone
        /\ count[c] = Cardinality(Holders(c))
  BY HeldIsLive DEF RegistryInv, HoldInv
<1>2. /\ \A u \in Tx \ {t} : ctr'[u] = ctr[u] /\ pc'[u] = pc[u]
      /\ pc'[t] \in {last, others}
      /\ \A d \in Counter \ {c} : count'[d] = count[d]
  BY <1>1 DEF ReleaseCounter, Goto
<1>3. \A d \in Counter \ {c} : Holders(d)' = Holders(d)
  BY <1>1, <1>2, SMTT(30), Z3T(30) DEF Holders
<1>4. Holders(c)' = Holders(c) \ {t} /\ t \in Holders(c)
  BY <1>1, <1>2 DEF Holders
<1>5. Cardinality(Holders(c) \ {t}) = Cardinality(Holders(c)) - 1
  BY <1>4, HoldersFinite, FS_RemoveElement, ZenonT(30)
<1>6. \/ /\ count[c] > 1
         /\ count'[c] = count[c] - 1
         /\ pc'[t] = others
      \/ /\ count[c] = 1
         /\ count'[c] = Tombstone
         /\ pc'[t] = last
         /\ ctr' = ctr
  BY <1>1 DEF ReleaseCounter, Goto
<1>7. count[c] \in Nat /\ count[c] < Tombstone
  BY <1>1, HoldersFinite
<1>8. count[c] = 1 => Holders(c) \ {t} = {}
  BY <1>1, <1>4, <1>5, HoldersFinite, FS_EmptySet, FS_RemoveElement, SMTT(30), Z3T(30)
<1>9. CountInv'
  <2> SUFFICES ASSUME NEW d \in Counter
               PROVE  /\ count'[d] = Tombstone => Holders(d)' = {}
                      /\ count'[d] # Tombstone
                           => count'[d] = Cardinality(Holders(d)')
    BY DEF CountInv
  <2>1. CASE d = c
    <3>1. Cardinality(Holders(c)') = count[c] - 1
      BY <1>1, <1>4, <1>5, SMTT(30), Z3T(30)
    <3>2. CASE count[c] > 1
      <4>1. count'[c] = count[c] - 1 /\ count'[c] # Tombstone
        BY <1>6, <1>7, <3>2, TombstoneAssumption, SMTT(30), Z3T(30)
      <4> QED
        BY <2>1, <3>1, <4>1, SMTT(30), Z3T(30)
    <3>3. CASE count[c] = 1
      <4>1. count'[c] = Tombstone /\ Holders(c)' = {}
        BY <1>4, <1>6, <1>8, <3>3, SMTT(30), Z3T(30)
      <4> QED
        BY <2>1, <4>1, SMTT(30), Z3T(30)
    <3> QED
      BY <1>6, <3>2, <3>3, SMTT(30), Z3T(30)
  <2>2. CASE d # c
    BY <1>2, <1>3, <2>2, SMTT(30), Z3T(30) DEF RegistryInv, CountInv
  <2> QED
    BY <2>1, <2>2, SMTT(30), Z3T(30)
<1>10. HoldInv'
  BY <1>1, <1>2, SMTT(30), Z3T(30) DEF RegistryInv, HoldInv
<1>11. AcquireInv'
  BY <1>1, <1>2, SMTT(30), Z3T(30) DEF RegistryInv, AcquireInv
<1>12. UnlinkInv'
  <2>1. \A u \in Tx : Unlinking(u) => ctr[u] # c
    BY <1>1, SMTT(30), Z3T(30) DEF RegistryInv, UnlinkInv
  <2>2. CASE count[c] > 1
    BY <1>1, <1>2, <1>6, <1>7, <2>1, <2>2, SMTT(30), Z3T(30) DEF RegistryInv, UnlinkInv
  <2>3. CASE count[c] = 1
    BY <1>1, <1>2, <1>6, <2>1, <2>3, SMTT(30), Z3T(30) DEF RegistryInv, UnlinkInv
  <2> QED
    BY <1>6, <2>2, <2>3, SMTT(30), Z3T(30)
<1> QED
  BY <1>9, <1>10, <1>11, <1>12, SMTT(30), Z3T(30) DEF RegistryInv

\* Both removals, the guarded one of a rollback and the unguarded one of a
\* drop, take out the tombstone of the transaction itself.
LEMMA RegistryUnlink ==
  ASSUME TypeInv, RegistryInv, NEW t \in Tx,
         RollbackUnlink(t) \/ DropRemove(t)
  PROVE  RegistryInv'
<1> USE DEF TypeInv, TypeOK, Holding, Unlinking
<1>1. /\ Unlinking(t) /\ map[ver[t]] = ctr[t] /\ ctr[t] \in Counter
      /\ count[ctr[t]] = Tombstone
      /\ \A u \in Tx : Unlinking(u) /\ ctr[u] = ctr[t] => u = t
  BY SMTT(30), Z3T(30) DEF RollbackUnlink, DropRemove, RegistryInv, UnlinkInv
<1>2. /\ map' = [map EXCEPT ![ver[t]] = NoCounter]
      /\ ctr' = [ctr EXCEPT ![t] = NoCounter]
      /\ UNCHANGED <<count, ver>>
  BY <1>1 DEF RollbackUnlink, DropRemove
<1>3. PICK l \in {"begin", "done"} : pc' = [pc EXCEPT ![t] = l]
  BY SMTT(30), Z3T(30) DEF RollbackUnlink, DropRemove, Goto
<1>4. \A u \in Tx : Holding(u) => ver[u] # ver[t]
  BY <1>1, HeldIsLive, SMTT(30), Z3T(30) DEF RegistryInv, HoldInv
<1>5. \A c \in Counter : Holders(c)' = Holders(c)
  BY <1>1, <1>2, <1>3, SMTT(30), Z3T(30) DEF Holders
<1>6. CountInv'
  BY <1>2, <1>5, SMTT(30), Z3T(30) DEF RegistryInv, CountInv
<1>7. HoldInv'
  BY <1>1, <1>2, <1>3, <1>4, SMTT(30), Z3T(30) DEF RegistryInv, HoldInv
<1>8. AcquireInv'
  BY <1>1, <1>2, <1>3, SMTT(30), Z3T(30) DEF RegistryInv, AcquireInv
<1>9. UnlinkInv'
  BY <1>1, <1>2, <1>3, SMTT(30), Z3T(30) DEF RegistryInv, UnlinkInv
<1> QED
  BY <1>6, <1>7, <1>8, <1>9, SMTT(30), Z3T(30) DEF RegistryInv
\* Every step preserves the registry invariant.
LEMMA RegistryStep == TypeInv /\ RegistryInv /\ [Next]_vars => RegistryInv'
<1> SUFFICES ASSUME TypeInv, RegistryInv, [Next]_vars PROVE RegistryInv'
  OBVIOUS
<1>1. CASE Advance
  BY <1>1, RegistryStutter DEF Advance, txVars
<1>2. ASSUME NEW t \in Tx, Load(t) PROVE RegistryInv'
  <2>1. /\ pc[t] = "begin" /\ pc' = [pc EXCEPT ![t] = "insert"]
        /\ UNCHANGED <<map, count, ctr>>
        /\ \A u \in Tx \ {t} : ver'[u] = ver[u]
    BY <1>2 DEF Load, Goto, TypeInv, TypeOK
  <2> QED
    BY <2>1, RegistryLocal, Zenon DEF TxPc
<1>3. ASSUME NEW t \in Tx, GetOrInsert(t) PROVE RegistryInv'
  BY <1>3, RegistryInsert
<1>4. ASSUME NEW t \in Tx, Acquire(t) PROVE RegistryInv'
  BY <1>4, RegistryAcquire
<1>5. ASSUME NEW t \in Tx, CheckStable(t) \/ CheckFloor(t) PROVE RegistryInv'
  BY <1>5, RegistryCheck
<1>6. ASSUME NEW t \in Tx, Rollback(t) PROVE RegistryInv'
  BY <1>6, RegistryRelease, SMTT(30), Z3T(30) DEF Rollback, Holding
<1>7. ASSUME NEW t \in Tx, DropRelease(t) PROVE RegistryInv'
  BY <1>7, RegistryRelease, SMTT(30), Z3T(30) DEF DropRelease, Holding
<1>8. ASSUME NEW t \in Tx, RollbackUnlink(t) \/ DropRemove(t)
      PROVE  RegistryInv'
  BY <1>8, RegistryUnlink
<1>9. ASSUME NEW g \in Collector, Collect(g) PROVE RegistryInv'
  BY <1>9, RegistryStutter, ZenonT(30)
     DEF Collect, ReadNow, ReadFallback, ScanNext, ScanLoad, Propose,
         PublishFloor, Finish, txVars
<1>10. CASE UNCHANGED vars
  BY <1>10, RegistryStutter DEF vars, txVars
<1> QED
  BY <1>1, <1>2, <1>3, <1>4, <1>5, <1>6, <1>7, <1>8, <1>9, <1>10, SMTT(30), Z3T(30)
     DEF Next, Register, Drop

-----------------------------------------------------------------------------
(* The owner of a map entry *)

\* Every step preserves the ownership of the map's entries.
LEMMA OwnerStep ==
  TypeInv /\ RegistryInv /\ OwnerInv /\ [Next]_vars => OwnerInv'
<1> SUFFICES ASSUME TypeInv, RegistryInv, OwnerInv, [Next]_vars
             PROVE  OwnerInv'
  OBVIOUS
<1> USE DEF TypeInv, TypeOK, Unlinking, Goto
<1>1. CASE UNCHANGED <<map, count, pc, ver, ctr>>
  BY <1>1, SMTT(30), Z3T(30) DEF OwnerInv
<1>2. ASSUME NEW t \in Tx, Load(t) PROVE OwnerInv'
  BY <1>2, SMTT(30), Z3T(30) DEF Load, OwnerInv
<1>3. ASSUME NEW t \in Tx, GetOrInsert(t), map[ver[t]] # NoCounter
      PROVE  OwnerInv'
  BY <1>3, SMTT(30), Z3T(30) DEF GetOrInsert, OwnerInv
<1>4. ASSUME NEW t \in Tx, GetOrInsert(t), map[ver[t]] = NoCounter
      PROVE  OwnerInv'
  <2>1. PICK c \in Counter :
          /\ Unreferenced(c)
          /\ map' = [map EXCEPT ![ver[t]] = c]
          /\ count' = [count EXCEPT ![c] = 0]
          /\ ctr' = [ctr EXCEPT ![t] = c]
    BY <1>4, SMTT(30), Z3T(30) DEF GetOrInsert
  <2>2. /\ pc[t] = "insert" /\ pc' = [pc EXCEPT ![t] = "acquire"]
        /\ ver' = ver
    BY <1>4, SMTT(30), Z3T(30) DEF GetOrInsert
  <2>3. \A k \in Time : map[k] # c
    BY <2>1 DEF Unreferenced
  <2> QED
    BY <2>1, <2>2, <2>3, CounterAssumption, TombstoneAssumption,
       TxAssumption, FS_CardinalityType, SMTT(30), Z3T(30) DEF OwnerInv
<1>5. ASSUME NEW t \in Tx, Acquire(t) PROVE OwnerInv'
  <2>1. CASE count[ctr[t]] = Tombstone
    <3>1. Tombstone # 0
      BY TombstoneAssumption, TxAssumption, FS_CardinalityType, SMTT(30), Z3T(30)
    <3>2. /\ pc[t] = "acquire" /\ pc' = [pc EXCEPT ![t] = "begin"]
          /\ ctr' = [ctr EXCEPT ![t] = NoCounter]
          /\ UNCHANGED <<map, count, ver>>
      BY <1>5, <2>1, SMTT(30), Z3T(30) DEF Acquire
    <3> QED
      BY <2>1, <3>1, <3>2, SMTT(30), Z3T(30) DEF OwnerInv
  <2>2. CASE count[ctr[t]] # Tombstone
    <3>1. PICK c \in Counter : c = ctr[t] /\ count[c] # Tombstone
      BY <1>5, <2>2, SMTT(30), Z3T(30) DEF Acquire, RegistryInv, AcquireInv
    <3>2. /\ pc[t] = "acquire" /\ pc' = [pc EXCEPT ![t] = "stable"]
          /\ count' = [count EXCEPT ![c] = @ + 1]
          /\ UNCHANGED <<map, ver, ctr>>
      BY <1>5, <2>2, <3>1, SMTT(30), Z3T(30) DEF Acquire
    <3>3. count'[c] # 0 /\ count'[c] # Tombstone
      <4>1. t \in Holders(c)'
        BY <3>1, <3>2, SMTT(30), Z3T(30) DEF Holders, Holding
      <4>2. CountInv'
        BY <1>5, RegistryAcquire, SMTT(30), Z3T(30) DEF RegistryInv
      <4>3. count'[c] # Tombstone
        BY <4>1, <4>2, SMTT(30), Z3T(30) DEF CountInv
      <4> QED
        BY <3>2, <4>3, SMTT(30), Z3T(30)
    <3> QED
      BY <3>1, <3>2, <3>3, SMTT(30), Z3T(30) DEF OwnerInv
  <2> QED
    BY <2>1, <2>2, SMTT(30), Z3T(30)
<1>6. ASSUME NEW t \in Tx, CheckStable(t) \/ CheckFloor(t) PROVE OwnerInv'
  BY <1>6, SMTT(30), Z3T(30) DEF CheckStable, CheckFloor, OwnerInv
<1>7. ASSUME NEW t \in Tx, Rollback(t) \/ DropRelease(t) PROVE OwnerInv'
  <2>1. Holding(t) /\ UNCHANGED <<map, ver>>
    BY <1>7, SMTT(30), Z3T(30) DEF Rollback, DropRelease, Holding
  <2>2. PICK c \in Counter :
          /\ c = ctr[t] /\ map[ver[t]] = c
          /\ count[c] # Tombstone /\ count[c] = Cardinality(Holders(c))
    BY <2>1, HeldIsLive, SMTT(30), Z3T(30) DEF RegistryInv, HoldInv
  <2>3. count[c] \in Nat /\ count[c] < Tombstone
    BY <2>2, HoldersFinite, SMTT(30), Z3T(30)
  <2>4. /\ \A u \in Tx \ {t} : ctr'[u] = ctr[u] /\ pc'[u] = pc[u]
        /\ \A d \in Counter \ {c} : count'[d] = count[d]
    BY <1>7, <2>2, SMTT(30), Z3T(30) DEF Rollback, DropRelease, ReleaseCounter
  <2>5. CASE count[c] > 1
    <3>1. count'[c] # 0 /\ count'[c] # Tombstone
      BY <1>7, <2>2, <2>3, <2>5, TombstoneAssumption, SMTT(30), Z3T(30)
         DEF Rollback, DropRelease, ReleaseCounter
    <3> QED
      BY <2>1, <2>2, <2>4, <3>1, SMTT(30), Z3T(30) DEF OwnerInv, Holding
  <2>6. CASE count[c] = 1
    <3>1. /\ count'[c] = Tombstone /\ Unlinking(t)' /\ ctr' = ctr
      BY <1>7, <2>2, <2>6, SMTT(30), Z3T(30) DEF Rollback, DropRelease, ReleaseCounter
    <3> QED
      BY <2>1, <2>2, <2>3, <2>4, <2>6, <3>1, SMTT(30), Z3T(30) DEF OwnerInv, Holding
  <2> QED
    BY <1>7, <2>2, <2>5, <2>6, SMTT(30), Z3T(30) DEF Rollback, DropRelease, ReleaseCounter
<1>8. ASSUME NEW t \in Tx, RollbackUnlink(t) \/ DropRemove(t) PROVE OwnerInv'
  <2>1. /\ map[ver[t]] = ctr[t] /\ ctr[t] \in Counter
        /\ count[ctr[t]] = Tombstone
    BY <1>8, SMTT(30), Z3T(30) DEF RollbackUnlink, DropRemove, RegistryInv, UnlinkInv
  <2>2. /\ map' = [map EXCEPT ![ver[t]] = NoCounter]
        /\ ctr' = [ctr EXCEPT ![t] = NoCounter]
        /\ UNCHANGED <<count, ver>>
        /\ \A u \in Tx \ {t} : pc'[u] = pc[u]
        /\ pc[t] \in {"unlink", "remove"}
    BY <1>8, <2>1, SMTT(30), Z3T(30) DEF RollbackUnlink, DropRemove
  <2> QED
    BY <2>1, <2>2, CounterAssumption, SMTT(30), Z3T(30) DEF OwnerInv
<1>9. ASSUME NEW g \in Collector, Collect(g) PROVE OwnerInv'
  BY <1>1, <1>9, SMTT(30), Z3T(30) DEF Collect, ReadNow, ReadFallback, ScanNext, ScanLoad,
                    Propose, PublishFloor, Finish, txVars
<1>10. CASE Advance \/ UNCHANGED vars
  BY <1>1, <1>10 DEF Advance, vars, txVars
<1> HIDE DEF TypeInv, TypeOK
<1> QED
  BY <1>2, <1>3, <1>4, <1>5, <1>6, <1>7, <1>8, <1>9, <1>10, Zenon
     DEF Next, Register, Drop
-----------------------------------------------------------------------------
(* Theorems *)

\* IInv is an inductive invariant of the specification.
THEOREM Inductive == Spec => []IInv
<1>1. Init => IInv
  <2> SUFFICES ASSUME Init PROVE IInv
    OBVIOUS
  <2>1. TypeOK /\ CursorInv
    BY TimeAssumption DEF Init, TypeOK, CursorInv, Mark, TxPc, GcPc
  <2>2. \A c : Holders(c) = {}
    BY DEF Init, Holders, Holding
  <2>3. RegistryInv
    <3>1. CountInv
      BY <2>2, FS_EmptySet, ZenonT(30) DEF Init, CountInv
    <3> QED
      BY <3>1 DEF Init, RegistryInv, HoldInv, AcquireInv, UnlinkInv, Holding,
                  Unlinking
  <2>4. OwnerInv /\ ScanInv
    BY DEF Init, OwnerInv, ScanInv, Active
  <2>5. FloorInv
    <3>1. clock \in Nat
      BY TimeAssumption DEF Init
    <3> QED
      BY <3>1 DEF Init, FloorInv
  <2> QED
    BY <2>1, <2>3, <2>4, <2>5 DEF IInv
<1>2. IInv /\ [Next]_vars => IInv'
  BY TypeStep, RegistryStep, OwnerStep, FloorStep, RegistryLinked, ScanStep
     DEF IInv, TypeInv
<1> QED
  BY <1>1, <1>2, PTL DEF Spec

\* Type correctness of the registry.
THEOREM TypeCorrect == Spec => []TypeOK
BY Inductive, PTL DEF IInv

\* compute_cleanup_ts and register_counter: with the floor, no collection uses
\* a watermark above the snapshot of a registered transaction.
THEOREM WatermarkSafe ==
  ASSUME HasFloor PROVE Spec => []WatermarkBelowSnapshots
<1>1. IInv => WatermarkBelowSnapshots
  <2> SUFFICES ASSUME IInv, NEW g \in Collector, NEW t \in Tx,
                      gpc[g] = "collect", Active(t)
               PROVE  wm[g] <= ver[t]
    BY DEF WatermarkBelowSnapshots
  <2>1. prop[g] \in Nat /\ wm[g] \in Nat /\ ver[t] \in Nat
    <3>1. Mark \subseteq Nat /\ Time \subseteq Nat
      BY TimeAssumption DEF Mark
    <3> QED
      BY <3>1, Zenon DEF IInv, TypeOK
  <2>2. wm[g] <= prop[g]
    BY HasFloor DEF IInv, FloorInv
  <2>3. ver[t] < prop[g] => wm[g] <= ver[t]
    BY DEF IInv, ScanInv
  <2> QED
    BY <2>1, <2>2, <2>3, SMTT(30), Z3T(30)
<1> QED
  BY <1>1, Inductive, PTL

\* register_counter and earliest_active, with or without the floor: the scan
\* finds every transaction registered below its fallback or proposal.
THEOREM ScanComplete == Spec => []BelowFallbackNotMissed
<1>1. IInv => BelowFallbackNotMissed
  BY SMTT(30), Z3T(30) DEF IInv, ScanInv, BelowFallbackNotMissed
<1> QED
  BY <1>1, Inductive, PTL

\* A registered transaction's counter is in the map and counts its holders:
\* Transaction::drop may remove by key without comparing pointers.
THEOREM CounterLinked == Spec => []LiveCounterLinked
<1>1. IInv => LiveCounterLinked
  BY HeldIsLive, SMTT(30), Z3T(30)
     DEF IInv, TypeInv, RegistryInv, HoldInv, LiveCounterLinked, Active, Holding
<1> QED
  BY <1>1, Inductive, PTL

\* No entry of the map outlives the transactions that will unlink it.
THEOREM NoLeak == Spec => []NoLeakedEntry
<1>1. IInv => NoLeakedEntry
  <2> SUFFICES ASSUME IInv, NEW k \in Time, map[k] # NoCounter
               PROVE  \E t \in Tx : ctr[t] = map[k] /\ ver[t] = k
    BY DEF NoLeakedEntry
  <2> DEFINE c == map[k]
  <2>1. c \in Counter
    BY DEF IInv, TypeOK
  <2>2. CASE count[c] \in {0, Tombstone}
    BY <2>2, SMTT(30), Z3T(30) DEF IInv, OwnerInv
  <2>3. CASE count[c] \notin {0, Tombstone}
    <3>1. Holders(c) # {}
      BY <2>1, <2>3, FS_EmptySet, SMTT(30), Z3T(30) DEF IInv, RegistryInv, CountInv
    <3>2. PICK t \in Tx : Holding(t) /\ ctr[t] = c
      BY <3>1 DEF Holders
    <3>3. map[ver[t]] = map[k] /\ ver[t] \in Time
      BY <3>2 DEF IInv, RegistryInv, HoldInv, TypeOK
    <3> QED
      BY <3>2, <3>3, SMTT(30), Z3T(30) DEF IInv, OwnerInv
  <2> QED
    BY <2>2, <2>3
<1> QED
  BY <1>1, Inductive, PTL

\* The floor never passes the atomic, so the floor check can succeed.
THEOREM FloorSafe == Spec => []FloorNotAhead
<1>1. IInv => FloorNotAhead
  BY DEF IInv, FloorInv, FloorNotAhead
<1> QED
  BY <1>1, Inductive, PTL
=============================================================================
