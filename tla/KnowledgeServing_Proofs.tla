------------------------ MODULE KnowledgeServing_Proofs ------------------------
(***************************************************************************)
(* ServingInv is inductive, so that no directory in use is ever deleted,   *)
(* whatever the number of sources, versions, tool calls, edits and faults. *)
(***************************************************************************)
EXTENDS KnowledgeServing, FiniteSetTheorems, TLAPS

(* The calls that hold version v, and how their number follows one call.   *)
Holders(f, v) == {r \in Readers : f[r] = v}

(* A call that takes a version is one more holder of it, and of no other.  *)
LEMMA OneMore ==
    ASSUME NEW f \in [Readers -> Versions \cup {None}], NEW r \in Readers,
           f[r] = None, NEW u \in Versions, NEW v \in Versions
    PROVE  Cardinality(Holders([f EXCEPT ![r] = u], v)) =
              IF v = u THEN Cardinality(Holders(f, v)) + 1 ELSE Cardinality(Holders(f, v))
<1> DEFINE g == [f EXCEPT ![r] = u]
<1>1. IsFiniteSet(Holders(f, v))
      BY FS_Subset, ServingAssumptions DEF Holders
<1>2. CASE v = u
  <2>1. Holders(g, v) = Holders(f, v) \cup {r} /\ r \notin Holders(f, v)
        BY <1>2, ServingAssumptions DEF Holders, Versions
  <2> QED BY <1>1, <1>2, <2>1, FS_AddElement
<1>3. CASE v # u
  <2>1. Holders(g, v) = Holders(f, v)
        BY <1>3, ServingAssumptions DEF Holders, Versions
  <2> QED BY <1>3, <2>1
<1> QED BY <1>2, <1>3

(* A call that ends is one holder less of the version it held.             *)
LEMMA OneLess ==
    ASSUME NEW f \in [Readers -> Versions \cup {None}], NEW r \in Readers,
           f[r] # None, NEW v \in Versions
    PROVE  Cardinality(Holders([f EXCEPT ![r] = None], v)) =
              IF v = f[r] THEN Cardinality(Holders(f, v)) - 1 ELSE Cardinality(Holders(f, v))
<1> DEFINE g == [f EXCEPT ![r] = None]
<1>1. IsFiniteSet(Holders(f, v))
      BY FS_Subset, ServingAssumptions DEF Holders
<1>2. CASE v = f[r]
  <2>1. Holders(g, v) = Holders(f, v) \ {r} /\ r \in Holders(f, v)
        BY <1>2, ServingAssumptions DEF Holders, Versions
  <2> QED BY <1>1, <1>2, <2>1, FS_RemoveElement
<1>3. CASE v # f[r]
  <2>1. Holders(g, v) = Holders(f, v)
        BY <1>3, ServingAssumptions DEF Holders, Versions
  <2> QED BY <1>3, <2>1
<1> QED BY <1>2, <1>3

(* A version some call holds has a positive count.                         *)
LEMMA HeldIsPinned ==
    ASSUME TypeOK, PinsCount, NEW r \in Readers, reader[r] # None
    PROVE  reader[r] \in Pinned
<1>1. IsFiniteSet(Holders(reader, reader[r])) /\ r \in Holders(reader, reader[r])
      BY FS_Subset, ServingAssumptions DEF Holders
<1>2. Cardinality(Holders(reader, reader[r])) # 0
      BY <1>1, FS_EmptySet
<1>3. Cardinality(Holders(reader, reader[r])) \in Nat
      BY <1>1, FS_CardinalityType
<1>4. reader[r] \in Versions
      BY DEF TypeOK
<1>5. pins[reader[r]] = Cardinality(Holders(reader, reader[r]))
      BY <1>4 DEF PinsCount, Holders
<1> QED BY <1>2, <1>3, <1>4, <1>5 DEF Pinned

-----------------------------------------------------------------------------
LEMMA InitServing == Init => ServingInv
<1> SUFFICES ASSUME Init PROVE ServingInv
    OBVIOUS
<1>1. TypeOK
      BY ServingAssumptions DEF Init, TypeOK, Rows
<1>2. InUseOnDisk
      BY DEF Init, InUseOnDisk, Active, Used
<1>3. ASSUME NEW v \in Versions PROVE pins[v] = Cardinality({r \in Readers : reader[r] = v})
  <2>1. {r \in Readers : reader[r] = v} = {}
        BY ServingAssumptions DEF Init, Versions
  <2> QED BY <2>1, FS_EmptySet DEF Init
<1> QED BY <1>1, <1>2, <1>3 DEF ServingInv, PinsCount, Init

(* Steps that leave the tables, the directories and the refresh alone.     *)
LEMMA RegistryStep ==
    ASSUME ServingInv, TypeOK', UNCHANGED <<serving, files, task>>
    PROVE  ServingInv'
BY DEF ServingInv, InUseOnDisk, PinsCount, Active, Used, Whole, OnDisk, Pinned,
       serving, files, task

(* Every step preserves the types; a count is positive where Unpin lowers  *)
(* it.                                                                     *)
LEMMA TypeStep == TypeOK /\ PinsCount /\ [Next]_vars => TypeOK'
<1> SUFFICES ASSUME TypeOK, PinsCount, [Next]_vars PROVE TypeOK'
    OBVIOUS
<1> USE ServingAssumptions
<1>1. CASE UNCHANGED vars
      BY <1>1 DEF TypeOK, vars, registry, serving, files, task
<1>2. ASSUME NEW s \in Sources, Promote(s) PROVE TypeOK'
      BY <1>2 DEF TypeOK, Promote, serving, files, task
<1>3. ASSUME NEW s \in Sources, PointBack(s) PROVE TypeOK'
      BY <1>3 DEF TypeOK, PointBack, serving, files, task
<1>4. ASSUME NEW s \in Sources, EditSource(s) PROVE TypeOK'
  <2>1. alias' \in [Sources -> Aliases] /\ edits' \in Nat
        BY <1>4 DEF TypeOK, EditSource
  <2>2. enabled' \in [Sources -> BOOLEAN]
    <3>1. CASE UNCHANGED enabled
          BY <3>1 DEF TypeOK
    <3>2. CASE enabled' = [enabled EXCEPT ![s] = ~enabled[s]]
          BY <3>2 DEF TypeOK
    <3> QED BY <1>4, <3>1, <3>2 DEF EditSource
  <2> QED BY <1>4, <2>1, <2>2 DEF TypeOK, EditSource, serving, files, task
<1>5. CASE ReadRows
      BY <1>5 DEF TypeOK, ReadRows, Rows, registry, serving, files
<1>6. ASSUME NEW row \in Rows, Hydrate(row) PROVE TypeOK'
  <2>1. row[2] \in Versions
        BY DEF Rows
  <2>2. replacements' \subseteq (Rows \X (Versions \cup {None}))
        BY <1>6, <2>1 DEF TypeOK, Hydrate
  <2>3. mtime' \in [Versions -> Nat] /\ clock' \in Nat /\ broken' \subseteq Versions /\ faults' \in Nat
        BY <1>6, <2>1 DEF TypeOK, Hydrate, files
  <2> QED BY <1>6, <2>2, <2>3 DEF TypeOK, Hydrate, registry, serving
<1>7. CASE Swap
  <2>1. ASSUME NEW a \in Aliases PROVE byAlias'[a] \in Versions \cup {None}
    <3>1. CASE \E p \in replacements : p[1][3] = a /\ p[2] # None
      <4>1. (CHOOSE p \in replacements : p[1][3] = a) \in replacements
            BY <3>1
      <4>2. (CHOOSE p \in replacements : p[1][3] = a)[2] \in Versions \cup {None}
            BY <4>1 DEF TypeOK
      <4> QED BY <1>7, <3>1, <4>2 DEF Swap, TypeOK
    <3>2. CASE ~\E p \in replacements : p[1][3] = a /\ p[2] # None
          BY <1>7, <3>2 DEF Swap, TypeOK
    <3> QED BY <3>1, <3>2
  <2>2. byAlias' \in [Aliases -> Versions \cup {None}]
        BY <1>7, <2>1 DEF Swap
  <2> QED BY <1>7, <2>2 DEF TypeOK, Swap, registry, files
<1>8. CASE Sweep
      BY <1>8 DEF TypeOK, Sweep, Active, Pinned, registry, serving, files
<1>9. CASE Delete
      BY <1>9 DEF TypeOK, Delete, registry, serving, task
<1>10. CASE Finish
      BY <1>10 DEF TypeOK, Finish, BreakOne, registry, serving
<1>11. CASE Restart
      BY <1>11 DEF TypeOK, Restart, BreakOne, registry
<1>12. ASSUME NEW r \in Readers, Pin(r) PROVE TypeOK'
      BY <1>12 DEF TypeOK, Pin, registry, files, task
<1>13. ASSUME NEW r \in Readers, Unpin(r) PROVE TypeOK'
  <2>1. reader[r] \in Versions /\ pins[reader[r]] > 0
        BY <1>13, HeldIsPinned DEF Unpin, Pinned
  <2> QED BY <1>13, <2>1 DEF TypeOK, Unpin, registry, files, task
<1> QED BY <1>1, <1>2, <1>3, <1>4, <1>5, <1>6, <1>7, <1>8, <1>9, <1>10, <1>11, <1>12, <1>13
           DEF Next, Refresh

-----------------------------------------------------------------------------
(* A hydration adds a whole directory and takes none away.                 *)
LEMMA HydrateStep ==
    ASSUME ServingInv, TypeOK', NEW row \in Rows, Hydrate(row) PROVE ServingInv'
<1>1. row[2] \in Versions
      BY DEF Rows
<1>2. Whole \subseteq Whole' /\ \A p \in replacements' : p[2] # None => p[2] \in Whole'
      BY <1>1, ServingAssumptions DEF ServingInv, TypeOK, Hydrate, Whole, OnDisk, files
<1> QED BY <1>2 DEF ServingInv, InUseOnDisk, PinsCount, Active, Used, Hydrate, serving

(* What the swap serves was hydrated, or served before.                    *)
LEMMA SwapStep ==
    ASSUME ServingInv, TypeOK', Swap PROVE ServingInv'
<1>1. ASSUME NEW a \in Aliases, byAlias'[a] # None PROVE byAlias'[a] \in Whole
  <2>1. CASE byAlias'[a] = byAlias[a]
        BY <1>1, <2>1 DEF ServingInv, InUseOnDisk, Active
  <2>2. CASE byAlias'[a] # byAlias[a]
    <3> DEFINE q == CHOOSE p \in replacements : p[1][3] = a
    <3>1. byAlias'[a] = q[2] /\ q \in replacements
          BY <1>1, <2>2 DEF Swap
    <3> QED BY <1>1, <3>1 DEF ServingInv, Swap
  <2> QED BY <2>1, <2>2
<1>2. Active' \subseteq Whole
      BY <1>1 DEF Active
<1> QED BY <1>2 DEF ServingInv, InUseOnDisk, PinsCount, Used, Whole, OnDisk, Swap, files

(* Cleanup keeps what is served and, by the count, what is held.           *)
LEMMA SweepStep ==
    ASSUME ServingInv, TypeOK', Sweep PROVE ServingInv'
<1>1. Used \subseteq Pinned
      BY HeldIsPinned DEF ServingInv, Used
<1> QED BY <1>1 DEF ServingInv, InUseOnDisk, PinsCount, Active, Used, Whole, OnDisk, Sweep,
                    serving, files

(* A doomed directory is not in use, whole or broken.                      *)
LEMMA DeleteStep ==
    ASSUME ServingInv, TypeOK', Delete PROVE ServingInv'
<1> PICK v \in Versions : /\ Doomed(v)
                          /\ mtime' = [mtime EXCEPT ![v] = 0]
                          /\ broken' = broken \ {v}
    BY DEF Delete
<1>1. v \notin Active \cup Used
      BY DEF ServingInv, Delete, Doomed
<1>2. Whole \ {v} \subseteq Whole'
      BY DEF ServingInv, TypeOK, Whole, OnDisk
<1> QED BY <1>1, <1>2 DEF ServingInv, InUseOnDisk, PinsCount, Active, Used, Delete,
                          serving, task

LEMMA FinishStep ==
    ASSUME ServingInv, TypeOK', Finish PROVE ServingInv'
<1>1. (Active \cup Used) \cap broken' = {}
      BY DEF ServingInv, InUseOnDisk, Finish, BreakOne, Doomed, Whole
<1> QED BY <1>1 DEF ServingInv, InUseOnDisk, PinsCount, Active, Used, Whole, OnDisk, Finish, serving

LEMMA RestartStep ==
    ASSUME ServingInv, TypeOK', Restart PROVE ServingInv'
<1>1. ASSUME NEW v \in Versions PROVE pins'[v] = Cardinality({r \in Readers : reader'[r] = v})
  <2>1. {r \in Readers : reader'[r] = v} = {}
        BY ServingAssumptions DEF Restart, Versions
  <2> QED BY <2>1, FS_EmptySet DEF Restart
<1> QED BY <1>1 DEF ServingInv, InUseOnDisk, PinsCount, Active, Used, Restart

(* A call pins what is served, so it is kept by a running cleanup.         *)
LEMMA PinStep ==
    ASSUME ServingInv, TypeOK', NEW r \in Readers, Pin(r) PROVE ServingInv'
<1> PICK a \in Aliases : /\ byAlias[a] # None
                         /\ reader' = [reader EXCEPT ![r] = byAlias[a]]
                         /\ pins' = [pins EXCEPT ![byAlias[a]] = @ + 1]
    BY DEF Pin
<1> DEFINE u == byAlias[a]
<1>1. u \in Versions /\ u \in Active
      BY DEF ServingInv, TypeOK, Active
<1>2. Used' \subseteq Used \cup {u}
      BY DEF ServingInv, TypeOK, Used
<1>3. PinsCount'
  <2> SUFFICES ASSUME NEW v \in Versions PROVE pins'[v] = Cardinality(Holders(reader', v))
      BY DEF PinsCount, Holders
  <2>1. Cardinality(Holders(reader', v)) =
           IF v = u THEN Cardinality(Holders(reader, v)) + 1 ELSE Cardinality(Holders(reader, v))
    <3>1. /\ reader \in [Readers -> Versions \cup {None}] /\ reader[r] = None
          /\ reader' = [reader EXCEPT ![r] = u]
          BY DEF ServingInv, TypeOK, Pin
    <3>2. Cardinality(Holders([reader EXCEPT ![r] = u], v)) =
             IF v = u THEN Cardinality(Holders(reader, v)) + 1 ELSE Cardinality(Holders(reader, v))
          BY <1>1, <3>1, OneMore, ZenonT(60)
    <3> QED BY <3>1, <3>2, Zenon
  <2>2. pins[v] = Cardinality(Holders(reader, v))
        BY DEF ServingInv, PinsCount, Holders
  <2> QED BY <1>1, <2>1, <2>2 DEF ServingInv, TypeOK
<1> QED BY <1>1, <1>2, <1>3 DEF ServingInv, InUseOnDisk, Active, Whole, OnDisk, Pin, files, task

LEMMA UnpinStep ==
    ASSUME ServingInv, TypeOK', NEW r \in Readers, Unpin(r) PROVE ServingInv'
<1>1. Used' \subseteq Used
      BY DEF ServingInv, TypeOK, Used, Unpin
<1>2. PinsCount'
  <2> SUFFICES ASSUME NEW v \in Versions PROVE pins'[v] = Cardinality(Holders(reader', v))
      BY DEF PinsCount, Holders
  <2>1. Cardinality(Holders(reader', v)) =
           IF v = reader[r] THEN Cardinality(Holders(reader, v)) - 1 ELSE Cardinality(Holders(reader, v))
    <3>1. /\ reader \in [Readers -> Versions \cup {None}] /\ reader[r] # None
          /\ reader' = [reader EXCEPT ![r] = None]
          BY DEF ServingInv, TypeOK, Unpin
    <3>2. Cardinality(Holders([reader EXCEPT ![r] = None], v)) =
             IF v = reader[r] THEN Cardinality(Holders(reader, v)) - 1
             ELSE Cardinality(Holders(reader, v))
          BY <3>1, OneLess, ZenonT(60)
    <3> QED BY <3>1, <3>2, Zenon
  <2>2. pins[v] = Cardinality(Holders(reader, v))
        BY DEF ServingInv, PinsCount, Holders
  <2> QED BY <2>1, <2>2 DEF ServingInv, TypeOK, Unpin
<1> QED BY <1>1, <1>2 DEF ServingInv, InUseOnDisk, Active, Whole, OnDisk, Unpin, files, task

LEMMA NextServing == ServingInv /\ [Next]_vars => ServingInv'
<1> SUFFICES ASSUME ServingInv, [Next]_vars PROVE ServingInv'
    OBVIOUS
<1>0. TypeOK'
      BY TypeStep DEF ServingInv
<1>1. CASE UNCHANGED vars
      BY <1>0, <1>1, RegistryStep DEF vars
<1>2. ASSUME NEW s \in Sources, Promote(s) \/ PointBack(s) \/ EditSource(s) PROVE ServingInv'
      BY <1>0, <1>2, RegistryStep DEF Promote, PointBack, EditSource
<1>3. CASE ReadRows
      BY <1>0, <1>3 DEF ServingInv, InUseOnDisk, PinsCount, Active, Used, Whole, OnDisk, ReadRows,
                        serving, files
<1>4. ASSUME NEW row \in Rows, Hydrate(row) PROVE ServingInv'
      BY <1>0, <1>4, HydrateStep
<1> QED BY <1>0, <1>1, <1>2, <1>3, <1>4, SwapStep, SweepStep, DeleteStep, FinishStep,
           RestartStep, PinStep, UnpinStep DEF Next, Refresh

(* The tables of the registry, the pins, the directories and the cleanup's *)
(* decision agree in every reachable state.                                *)
THEOREM Serving == Spec => []ServingInv
BY InitServing, NextServing, PTL DEF Spec

(* _cleanup_unpinned_versions, which deletes without the lock, never takes *)
(* a directory that is served or that a tool call reads.                   *)
THEOREM InUseOnDiskHolds == Spec => []InUseOnDisk
<1>1. ServingInv => InUseOnDisk
      BY DEF ServingInv
<1> QED BY <1>1, Serving, PTL
=============================================================================
