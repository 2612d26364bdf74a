--------------------------- MODULE KnowledgeServing ---------------------------
(***************************************************************************)
(* The knowledge MCP server: KnowledgeSourceServingRegistry serves local   *)
(* copies of promoted versions by alias.  One refresh task reads the       *)
(* registry rows, hydrates version after version in a thread, swaps the    *)
(* alias table under the registry's lock and deletes old directories; tool *)
(* calls pin a snapshot and read its files meanwhile.                      *)
(*                                                                         *)
(* Versions come from KnowledgeSync: a promoted version is succeeded and   *)
(* its manifest names the alias the source had.                            *)
(***************************************************************************)
EXTENDS Integers, FiniteSets

CONSTANTS
    Sources, Aliases, Readers,
    FirstAlias,    \* the alias each source was created with
    Keep,          \* knowledge_source_cache_versions_to_keep
    None,
    MaxVersions,   \* bound: versions promoted
    MaxEdits,      \* bound: renames, switches and pointers moved back
    MaxFaults      \* bound: failed hydrations, failed deletions, restarts

ASSUME ServingAssumptions ==
    /\ Keep \in Nat \ {0, 1}
    /\ MaxVersions \in Nat /\ MaxEdits \in Nat /\ MaxFaults \in Nat
    /\ None \notin Aliases /\ None \notin Sources /\ None \notin 1..MaxVersions
    /\ FirstAlias \in [Sources -> Aliases]
    /\ \A s, t \in Sources : FirstAlias[s] = FirstAlias[t] => s = t
    /\ IsFiniteSet(Readers)

VARIABLES
    alias, enabled, current,   \* knowledge_sources: alias, enabled, current version
    owner, ident,              \* a version's source and the alias in its manifest
    byAlias,                   \* _by_alias
    pins, reader,              \* _pins, and the version each tool call reads
    mtime, clock,              \* when a version's directory was written; 0: none
    broken,                    \* those an interrupted deletion left incomplete
    pc, rows, replacements,    \* the refresh task
    keep,                      \* active and pinned, as cleanup read them
    edits, faults

registry == <<alias, enabled, current, owner, ident>>
serving  == <<byAlias, pins, reader>>
task     == <<pc, rows, replacements, keep>>
files    == <<mtime, clock, broken>>
vars     == <<registry, serving, files, task, edits, faults>>

Versions == 1..MaxVersions
OnDisk   == {v \in Versions : mtime[v] > 0}
Rows     == Sources \X Versions \X Aliases

Init ==
    /\ alias = FirstAlias
    /\ enabled = [s \in Sources |-> TRUE]
    /\ current = [s \in Sources |-> None]
    /\ owner = [v \in Versions |-> None] /\ ident = [v \in Versions |-> None]
    /\ byAlias = [a \in Aliases |-> None]
    /\ pins = [v \in Versions |-> 0] /\ reader = [r \in Readers |-> None]
    /\ mtime = [v \in Versions |-> 0] /\ clock = 0 /\ broken = {}
    /\ pc = "idle" /\ rows = {} /\ replacements = {} /\ keep = {}
    /\ edits = 0 /\ faults = 0

-----------------------------------------------------------------------------
(* The registry, as the indexer and the control plane change it.           *)

(* promote_knowledge_source_version.                                       *)
Promote(s) ==
    /\ \E v \in Versions :
          /\ owner[v] = None /\ \A u \in Versions : u < v => owner[u] # None
          /\ owner' = [owner EXCEPT ![v] = s]
          /\ ident' = [ident EXCEPT ![v] = alias[s]]
          /\ current' = [current EXCEPT ![s] = v]
    /\ UNCHANGED <<alias, enabled, serving, files, task, edits, faults>>

(* A skipped sync points back to an earlier version of the source.         *)
PointBack(s) ==
    /\ edits < MaxEdits /\ edits' = edits + 1
    /\ \E v \in Versions : /\ owner[v] = s /\ v # current[s]
                           /\ current' = [current EXCEPT ![s] = v]
    /\ UNCHANGED <<alias, enabled, owner, ident, serving, files, task, faults>>

(* update_knowledge_source: a new repository is a new alias, which must be *)
(* unique; or the source is switched on or off.                            *)
EditSource(s) ==
    /\ edits < MaxEdits /\ edits' = edits + 1
    /\ \/ /\ \E a \in Aliases : /\ \A t \in Sources : alias[t] # a
                                /\ alias' = [alias EXCEPT ![s] = a]
          /\ UNCHANGED enabled
       \/ /\ enabled' = [enabled EXCEPT ![s] = ~@]
          /\ UNCHANGED alias
    /\ UNCHANGED <<current, owner, ident, serving, files, task, faults>>

-----------------------------------------------------------------------------
(* refresh.                                                                *)

(* The enabled sources with a promoted version.                            *)
ReadRows ==
    /\ pc = "idle"
    /\ rows' = {<<s, current[s], alias[s]>> : s \in {t \in Sources : enabled[t] /\ current[t] # None}}
    /\ replacements' = {}
    /\ pc' = "hydrate"
    /\ UNCHANGED <<registry, serving, files, keep, edits, faults>>

(* The rows whose hydration has not been tried: a row is marked by moving  *)
(* it to replacements, with None for a failure.                            *)
Tried == {p[1] : p \in replacements}

(* hydrate_knowledge_source: a manifest that does not carry the row's      *)
(* alias is refused, whether the copy is cached or downloaded; anything    *)
(* else may fail too.  A complete directory is kept; otherwise a new one   *)
(* takes its place, once it is complete itself.                            *)
Hydrate(row) ==
    /\ pc = "hydrate" /\ row \in rows \ Tried
    /\ LET v == row[2] IN
          \/ /\ ident[v] = row[3]
             /\ IF v \in OnDisk \ broken THEN UNCHANGED files
                ELSE /\ clock' = clock + 1
                     /\ mtime' = [mtime EXCEPT ![v] = clock']
                     /\ broken' = broken \ {v}
             /\ replacements' = replacements \cup {<<row, v>>}
             /\ UNCHANGED faults
          \/ /\ \/ ident[v] # row[3] /\ UNCHANGED faults
                \/ ident[v] = row[3] /\ faults < MaxFaults /\ faults' = faults + 1
             /\ replacements' = replacements \cup {<<row, None>>}
             /\ UNCHANGED files
    /\ UNCHANGED <<registry, serving, pc, rows, keep, edits>>

(* Mutant: an alias that serves something keeps it.                        *)
Swap_KeepsOld ==
    /\ pc = "hydrate" /\ rows \subseteq Tried
    /\ byAlias' = [a \in Aliases |->
          IF \A row \in rows : row[3] # a THEN None
          ELSE IF byAlias[a] = None /\ \E p \in replacements : p[1][3] = a /\ p[2] # None
               THEN (CHOOSE p \in replacements : p[1][3] = a)[2]
               ELSE byAlias[a]]
    /\ pc' = "sweep"
    /\ UNCHANGED <<registry, pins, reader, files, rows, replacements, keep, edits, faults>>

(* Under the lock: aliases without a row are dropped, hydrated ones set,   *)
(* and an alias whose hydration failed keeps what it had.                  *)
Swap ==
    /\ pc = "hydrate" /\ rows \subseteq Tried
    /\ byAlias' = [a \in Aliases |->
          IF \A row \in rows : row[3] # a THEN None
          ELSE IF \E p \in replacements : p[1][3] = a /\ p[2] # None
               THEN (CHOOSE p \in replacements : p[1][3] = a)[2]
               ELSE byAlias[a]]
    /\ pc' = "sweep"
    /\ UNCHANGED <<registry, pins, reader, files, rows, replacements, keep, edits, faults>>

Active == {byAlias[a] : a \in Aliases} \ {None}
Pinned == {v \in Versions : pins[v] > 0}

(* _cleanup_unpinned_versions reads both tables under the lock ...         *)
Sweep ==
    /\ pc = "sweep"
    /\ keep' = Active \cup Pinned
    /\ pc' = "delete"
    /\ UNCHANGED <<registry, serving, files, rows, replacements, edits, faults>>

(* The version directories of the same source written after v.             *)
Newer(v) == {u \in OnDisk : owner[u] = owner[v] /\ mtime[u] > mtime[v]}

(* Mutant: pins do not count.                                              *)
Doomed_Pinned(v) == v \in OnDisk \ Active /\ Cardinality(Newer(v)) >= Keep

(* The newest Keep directories of a source are retained whatever they are, *)
(* and beyond those the ones in use.                                       *)
Doomed(v) == v \in OnDisk \ keep /\ Cardinality(Newer(v)) >= Keep

(* ... and deletes one directory after the other without it.               *)
Delete ==
    /\ pc = "delete"
    /\ \E v \in Versions :
          /\ Doomed(v)
          /\ mtime' = [mtime EXCEPT ![v] = 0]
          /\ broken' = broken \ {v}
    /\ UNCHANGED <<registry, serving, clock, task, edits, faults>>

(* A deletion stops half way, which ends the cleanup.                      *)
BreakOne == \E v \in Versions : Doomed(v) /\ broken' = broken \cup {v}

(* Nothing is left to delete, or a deletion failed: the loop sleeps.       *)
Finish ==
    /\ pc = "delete"
    /\ \/ (\A v \in Versions : ~Doomed(v)) /\ UNCHANGED <<broken, faults>>
       \/ BreakOne /\ faults < MaxFaults /\ faults' = faults + 1
    /\ pc' = "idle" /\ rows' = {} /\ replacements' = {} /\ keep' = {}
    /\ UNCHANGED <<registry, serving, mtime, clock, edits>>

(* The server restarts; its cache directory survives.                      *)
Restart ==
    /\ faults < MaxFaults /\ faults' = faults + 1
    /\ byAlias' = [a \in Aliases |-> None]
    /\ pins' = [v \in Versions |-> 0] /\ reader' = [r \in Readers |-> None]
    /\ \/ UNCHANGED broken
       \/ pc = "delete" /\ BreakOne
    /\ pc' = "idle" /\ rows' = {} /\ replacements' = {} /\ keep' = {}
    /\ UNCHANGED <<registry, mtime, clock, edits>>

-----------------------------------------------------------------------------
(* pin: a tool call holds a snapshot for as long as it reads it.           *)
Pin(r) ==
    /\ reader[r] = None
    /\ \E a \in Aliases :
          /\ byAlias[a] # None
          /\ reader' = [reader EXCEPT ![r] = byAlias[a]]
          /\ pins' = [pins EXCEPT ![byAlias[a]] = @ + 1]
    /\ UNCHANGED <<registry, byAlias, files, task, edits, faults>>

Unpin(r) ==
    /\ reader[r] # None
    /\ pins' = [pins EXCEPT ![reader[r]] = @ - 1]
    /\ reader' = [reader EXCEPT ![r] = None]
    /\ UNCHANGED <<registry, byAlias, files, task, edits, faults>>

-----------------------------------------------------------------------------
Refresh == ReadRows \/ (\E row \in Rows : Hydrate(row)) \/ Swap \/ Sweep \/ Delete \/ Finish

Next ==
    \/ \E s \in Sources : Promote(s) \/ PointBack(s) \/ EditSource(s)
    \/ Refresh \/ Restart
    \/ \E r \in Readers : Pin(r) \/ Unpin(r)

Spec == Init /\ [][Next]_vars

(* _refresh_loop catches every exception and comes round for ever.         *)
LiveSpec == Spec /\ WF_vars(Refresh)

-----------------------------------------------------------------------------
(* Type correctness.                                                       *)
TypeOK ==
    /\ alias \in [Sources -> Aliases] /\ enabled \in [Sources -> BOOLEAN]
    /\ current \in [Sources -> Versions \cup {None}]
    /\ owner \in [Versions -> Sources \cup {None}]
    /\ ident \in [Versions -> Aliases \cup {None}]
    /\ byAlias \in [Aliases -> Versions \cup {None}]
    /\ pins \in [Versions -> Nat] /\ reader \in [Readers -> Versions \cup {None}]
    /\ mtime \in [Versions -> Nat] /\ clock \in Nat /\ broken \subseteq Versions
    /\ pc \in {"idle", "hydrate", "sweep", "delete"}
    /\ rows \subseteq Rows
    /\ replacements \subseteq (Rows \X (Versions \cup {None}))
    /\ keep \subseteq Versions
    /\ edits \in Nat /\ faults \in Nat

Used == {reader[r] : r \in Readers} \ {None}
Whole == OnDisk \ broken

(* A directory a tool call is reading, or that an alias serves, is whole   *)
(* on disk at every moment: cleanup decides under the lock and deletes     *)
(* after it, while pins come and go and versions are promoted and pointed  *)
(* back.                                                                   *)
InUseOnDisk == Active \cup Used \subseteq Whole

(* The pins count the calls that hold them.                                *)
PinsCount == \A v \in Versions : pins[v] = Cardinality({r \in Readers : reader[r] = v})

(* The refresh never lets go of what it is about to serve, and cleanup     *)
(* keeps everything that may still be pinned while it runs.                *)
ServingInv ==
    /\ TypeOK
    /\ InUseOnDisk
    /\ PinsCount
    /\ pc = "hydrate" => \A p \in replacements : p[2] # None => p[2] \in Whole
    /\ pc = "delete" => Active \cup Used \subseteq keep

(* A promoted version whose manifest agrees with the registry is served,   *)
(* unless the registry moves on, and although other sources may fail.      *)
PromotedServed ==
    \A s \in Sources, v \in Versions :
       LET Wanted == enabled[s] /\ current[s] = v /\ ident[v] = alias[s]
       IN  Wanted ~> (byAlias[alias[s]] = v \/ ~Wanted)
=============================================================================
