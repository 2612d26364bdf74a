------------------------ MODULE KnowledgeSync_Proofs ------------------------
(***************************************************************************)
(* Proofs about KnowledgeSync for any number of workers, runs, commits,    *)
(* scopes and artifacts, with any number of crashes and lost connections:  *)
(* the serving pointer, the immutability of a succeeded version and the    *)
(* order of promotions.                                                    *)
(***************************************************************************)
EXTENDS KnowledgeSync, TLAPS

(* What promote, skip and fail read of a session is of the right type.     *)
LEMMA VersionType ==
    ASSUME TypeOK, SessionInv, NEW w \in Workers, pc[w] \in Fetched
    PROVE  Version(w) \in Versions
  BY DEF TypeOK, TableType, SessionInv, Version, Versions, Source, Fetched, Syncing

(* At most one connected worker is inside a sync.                          *)
LEMMA OneHolder ==
    ASSUME LockInv, NEW w \in Workers, NEW u \in Workers,
           pc[w] \in Syncing, conn[w], pc[u] \in Syncing, conn[u]
    PROVE  u = w
  BY DEF LockInv

(* A session as a worker starts, ends or fills it in has its type.         *)
LEMMA NoSessionType == NoSession \in SessionType
  BY SyncAssumptions DEF SessionType, NoSession, NewSession, RunStatus

LEMMA NewSessionType ==
    ASSUME NEW r \in Runs, NEW x \in Source, NEW v \in Versions \cup {None}
    PROVE  NewSession(r, x, v) \in SessionType
  BY SyncAssumptions DEF SessionType, NewSession, RunStatus

LEMMA SessionTypes ==
    ASSUME NEW s \in SessionType
    PROVE  /\ \A q \in RunStatus : [s EXCEPT !.status = q] \in SessionType
           /\ \A c \in Commits : [s EXCEPT !.commit = c] \in SessionType
           /\ \A x \in Salts : [s EXCEPT !.built = x] \in SessionType
           /\ s.art # Len(Artifacts) => [s EXCEPT !.art = @ + 1] \in SessionType
<1>1. /\ \A q \in RunStatus : [s EXCEPT !.status = q] \in SessionType
      /\ \A c \in Commits : [s EXCEPT !.commit = c] \in SessionType
      /\ \A x \in Salts : [s EXCEPT !.built = x] \in SessionType
  BY DEF SessionType
<1>2. ASSUME s.art # Len(Artifacts) PROVE [s EXCEPT !.art = @ + 1] \in SessionType
  <2>1. Len(Artifacts) \in Nat
    BY SyncAssumptions
  <2>2. s.art + 1 \in 1..Len(Artifacts)
    BY <1>2, <2>1 DEF SessionType
  <2> QED  BY <2>2 DEF SessionType
<1> QED  BY <1>1, <1>2

(* Every initial state satisfies the invariant.                            *)
LEMMA SyncInit == Init => SyncInv
<1> SUFFICES ASSUME Init PROVE SyncInv
  OBVIOUS
<1> USE SyncAssumptions
<1>2. TypeOK
  BY NoSessionType DEF Init, TypeOK, TableType, WorkerType, Source, Runs, RunStatus, VersionStatus
<1>3. LockInv /\ SessionInv
  BY DEF Init, LockInv, SessionInv, Syncing, Fetched, Built
<1>4. AttemptInv /\ CurrentSucceeded /\ NotOvertaken
  BY DEF Init, AttemptInv, CurrentSucceeded, NotOvertaken, Syncing, Fetched, Attempting,
         NoSession, NewSession
<1> QED  BY <1>2, <1>3, <1>4 DEF SyncInv

(* The ghost flag is the only field an overtaken session loses.            *)
LEMMA OvertakenSession ==
    ASSUME NEW s \in SessionType
    PROVE  LET t == [s EXCEPT !.overtaken = TRUE] IN
              /\ t \in SessionType /\ t.overtaken
              /\ t.run = s.run /\ t.src = s.src /\ t.pointer = s.pointer
              /\ t.status = s.status /\ t.commit = s.commit /\ t.built = s.built
              /\ t.art = s.art
  BY DEF SessionType

(* A step of the worker w changes no other worker's step, connection or    *)
(* session, except for the ghost flag.                                     *)
Kept(u) ==
    /\ pc'[u] = pc[u] /\ conn'[u] = conn[u] /\ batch'[u] = batch[u]
    /\ ses'[u].run = ses[u].run /\ ses'[u].src = ses[u].src
    /\ ses'[u].status = ses[u].status /\ ses'[u].commit = ses[u].commit
    /\ ses'[u].built = ses[u].built
    /\ ses[u] = NoSession => ses'[u] = NoSession

LEMMA OthersKept ==
    ASSUME TypeOK, NEW w \in Workers, NEW u \in Workers, u # w,
           Work(w) \/ Crash(w) \/ LoseConnection(w)
    PROVE  Kept(u)
<1> USE SyncAssumptions DEF TypeOK, WorkerType, Kept, Goto
<1>1. CASE Start(w)
  BY <1>1 DEF Start
<1>2. CASE QueueDue(w)
  BY <1>2 DEF QueueDue
<1>3. CASE ListQueued(w)
  BY <1>3 DEF ListQueued
<1>4. CASE Sleep(w)
  BY <1>4 DEF Sleep
<1>5. CASE Acquire(w)
  BY <1>5 DEF Acquire
<1>6. CASE Claim(w)
  BY <1>6 DEF Claim, Return
<1>7. CASE Fetch(w)
  BY <1>7 DEF Fetch, Raise
<1>8. CASE Skip(w)
  <2>1. ses'[u] = IF ses[u].commit # None
                 THEN [ses[u] EXCEPT !.overtaken = TRUE] ELSE ses[u]
    BY <1>8 DEF Skip, Overtake
  <2>2. ses[u] = NoSession => ses'[u] = NoSession
    BY <2>1 DEF NoSession, NewSession
  <2> HIDE DEF Kept
  <2>3. pc'[u] = pc[u] /\ conn'[u] = conn[u] /\ batch'[u] = batch[u]
    BY <1>8 DEF Skip
  <2> QED
    BY <2>1, <2>2, <2>3, OvertakenSession DEF Kept
<1>9. CASE Attempt(w)
  BY <1>9 DEF Attempt
<1>10. CASE Heartbeat(w)
  BY <1>10 DEF Heartbeat, Exit
<1>11. CASE Extract(w)
  BY <1>11 DEF Extract, Raise
<1>12. CASE Bundle(w)
  BY <1>12 DEF Bundle, Raise
<1>13. CASE PublishCheck(w)
  BY <1>13 DEF PublishCheck, Raise
<1>14. CASE PublishUpload(w)
  BY <1>14 DEF PublishUpload
<1>15. CASE PublishVerify(w)
  BY <1>15 DEF PublishVerify, Advance, Raise
<1>16. CASE Promote(w)
  <2>1. ses'[u] = IF ses[u].commit # None
                 THEN [ses[u] EXCEPT !.overtaken = TRUE] ELSE ses[u]
    BY <1>16 DEF Promote, Overtake
  <2>2. ses[u] = NoSession => ses'[u] = NoSession
    BY <2>1 DEF NoSession, NewSession
  <2> HIDE DEF Kept
  <2>3. pc'[u] = pc[u] /\ conn'[u] = conn[u] /\ batch'[u] = batch[u]
    BY <1>16 DEF Promote
  <2> QED
    BY <2>1, <2>2, <2>3, OvertakenSession DEF Kept
<1>17. CASE Close(w)
  BY <1>17 DEF Close, Return, Raise
<1>18. CASE FailRun(w)
  BY <1>18 DEF FailRun, Return
<1>19. CASE FailVersion(w)
  BY <1>19 DEF FailVersion, Return, Exit
<1>20. CASE Disconnected(w)
  BY <1>20 DEF Disconnected, Exit
<1>21. CASE Crash(w)
  BY <1>21 DEF Crash, Exit
<1>22. CASE LoseConnection(w)
  BY <1>22 DEF LoseConnection
<1> QED
  BY <1>1, <1>2, <1>3, <1>4, <1>5, <1>6, <1>7, <1>8, <1>9, <1>10, <1>11, <1>12, <1>13, <1>14, <1>15, <1>16, <1>17, <1>18, <1>19, <1>20, <1>21, <1>22 DEF Work

(* The tables keep their types.                                            *)
LEMMA TableStep ==
    ASSUME TypeOK, SessionInv, NEW w \in Workers,
           Work(w) \/ Crash(w) \/ LoseConnection(w)
    PROVE  TableType'
<1> USE SyncAssumptions DEF TypeOK, TableType, RunStatus, VersionStatus
<1>0. pc[w] \in Fetched => Version(w) \in Versions
  BY VersionType
<1> USE DEF Fetched, Syncing
<1>1. CASE Start(w)
  BY <1>0, <1>1 DEF Start, runs, versions, bounds
<1>2. CASE QueueDue(w)
  BY <1>0, <1>2 DEF QueueDue, Insert, runs, versions, bounds
<1>3. CASE ListQueued(w)
  BY <1>0, <1>3 DEF ListQueued, runs, versions, bounds
<1>4. CASE Sleep(w)
  BY <1>0, <1>4 DEF Sleep, runs, versions, bounds
<1>5. CASE Acquire(w)
  BY <1>0, <1>5 DEF Acquire, runs, versions, bounds
<1>6. CASE Claim(w)
  <2>1. ses[w].run \in Runs
    BY <1>6 DEF Claim, SessionInv
  <2>2. /\ rstatus' = rstatus \/ rstatus' = [rstatus EXCEPT ![ses[w].run] = "running"]
        /\ rstale' = rstale \/ rstale' = [rstale EXCEPT ![ses[w].run] = FALSE]
        /\ UNCHANGED <<source, pointer, head, vstatus, sums, object, manual, edits, crashes, lost>>
    BY <1>6 DEF Claim, runs, versions, bounds
  <2>3. rstale' \in [Runs -> BOOLEAN]
    BY <2>1, <2>2, Zenon
  <2> QED
    BY <2>1, <2>2, <2>3
<1>7. CASE Fetch(w)
  BY <1>0, <1>7 DEF Fetch, Raise, runs, versions, bounds
<1>8. CASE Skip(w)
  BY <1>0, <1>8 DEF Skip, MovePointer, SessionInv, runs, versions, bounds
<1>9. CASE Attempt(w)
  BY <1>0, <1>9 DEF Attempt, runs, versions, bounds
<1>10. CASE Heartbeat(w)
  BY <1>0, <1>10 DEF Heartbeat, SessionInv, AfterBeat, runs, versions, bounds
<1>11. CASE Extract(w)
  BY <1>0, <1>11 DEF Extract, Raise, runs, versions, bounds
<1>12. CASE Bundle(w)
  BY <1>0, <1>12 DEF Bundle, Raise, runs, versions, bounds
<1>13. CASE PublishCheck(w)
  BY <1>0, <1>13 DEF PublishCheck, Raise, runs, versions, bounds
<1>14. CASE PublishUpload(w)
  BY <1>0, <1>14 DEF PublishUpload, Mine, BytesOf, Bytes, Names, Built, SessionInv, Source, WorkerType, SessionType, runs, versions, bounds
<1>15. CASE PublishVerify(w)
  BY <1>0, <1>15 DEF PublishVerify, Raise, runs, versions, bounds
<1>16. CASE Promote(w)
  BY <1>0, <1>16 DEF Promote, MovePointer, SessionInv, BytesOf, Bytes, Built, Source, runs, versions, bounds
<1>17. CASE Close(w)
  BY <1>0, <1>17 DEF Close, Raise, runs, versions, bounds
<1>18. CASE FailRun(w)
  BY <1>0, <1>18 DEF FailRun, SessionInv, runs, versions, bounds
<1>19. CASE FailVersion(w)
  <2>1. ses[w].run \in Runs /\ Version(w) \in Versions
    BY <1>0, <1>19 DEF FailVersion, SessionInv
  <2>2. /\ vstatus' = vstatus \/ vstatus' = [vstatus EXCEPT ![Version(w)] = "failed"]
        /\ rstatus' = rstatus \/ rstatus' = [rstatus EXCEPT ![ses[w].run] = "failed"]
        /\ UNCHANGED <<source, pointer, head, rstale, sums, object, manual, edits, crashes, lost>>
    BY <1>19 DEF FailVersion, bounds
  <2> QED  BY <2>1, <2>2
<1>20. CASE Disconnected(w)
  BY <1>0, <1>20 DEF Disconnected, runs, versions, bounds
<1>21. CASE Crash(w)
  BY <1>0, <1>21 DEF Crash, runs, versions, bounds
<1>22. CASE LoseConnection(w)
  BY <1>0, <1>22 DEF LoseConnection, runs, versions, bounds
<1> QED
  BY <1>1, <1>2, <1>3, <1>4, <1>5, <1>6, <1>7, <1>8, <1>9, <1>10, <1>11, <1>12, <1>13, <1>14, <1>15, <1>16, <1>17, <1>18, <1>19, <1>20, <1>21, <1>22 DEF Work

(* Leaving a sync, or the process, keeps the workers' types.               *)
LEMMA LeaveType ==
    ASSUME WorkerType, NEW w \in Workers, Return(w) \/ Exit(w)
    PROVE  WorkerType'
<1>1. /\ ses' \in [Workers -> SessionType]
      /\ lock' \in Workers \cup {None}
  BY NoSessionType DEF WorkerType, Return, Exit, Unlock
<1>2. conn' \in [Workers -> BOOLEAN]
  BY Zenon DEF WorkerType, Return, Exit
<1>3. /\ pc' \in [Workers -> Syncing \cup {"down", "poll", "list", "work"}]
      /\ batch' \in [Workers -> SUBSET Runs]
  BY DEF WorkerType, Return, Exit, Goto
<1> QED
  BY <1>1, <1>2, <1>3 DEF WorkerType

(* The workers keep their types.                                           *)
LEMMA WorkerStep ==
    ASSUME TypeOK, SessionInv, NEW w \in Workers,
           Work(w) \/ Crash(w) \/ LoseConnection(w)
    PROVE  WorkerType'
<1> USE SyncAssumptions DEF TypeOK
<1>1. CASE Return(w) \/ Exit(w)
  BY <1>1, LeaveType
<1>2. CASE Start(w) \/ QueueDue(w) \/ ListQueued(w) \/ Sleep(w)
  BY <1>2 DEF Start, QueueDue, ListQueued, Sleep, WorkerType, Goto
<1>3. CASE Acquire(w)
  <2>1. CASE lock = None
    <3>1. PICK r \in batch[w] : ses' = [ses EXCEPT ![w] = NewSession(r, source, pointer)]
      BY <1>3, <2>1 DEF Acquire
    <3>2. NewSession(r, source, pointer) \in SessionType
      BY NewSessionType DEF WorkerType, TableType
    <3>3. ses' \in [Workers -> SessionType]
      BY <3>1, <3>2 DEF WorkerType
    <3> QED
      BY <1>3, <2>1, <3>3 DEF Acquire, WorkerType, Goto, Syncing
  <2>2. CASE lock # None
    BY <1>3, <2>2 DEF Acquire, WorkerType
  <2> QED  BY <2>1, <2>2
<1>4. CASE Claim(w) /\ ~Return(w)
  <2>1. ses' = [ses EXCEPT ![w].status = "running"]
    BY <1>4 DEF Claim
  <2>2. [ses[w] EXCEPT !.status = "running"] \in SessionType
    BY SessionTypes DEF WorkerType, RunStatus
  <2>3. ses' \in [Workers -> SessionType]
    BY <2>1, <2>2 DEF WorkerType
  <2> QED
    BY <1>4, <2>3 DEF Claim, WorkerType, Goto, Syncing
<1>5. CASE Fetch(w) \/ Extract(w)
  <2>1. /\ [ses[w] EXCEPT !.commit = head] \in SessionType
        /\ \A x \in Salts : [ses[w] EXCEPT !.built = x] \in SessionType
    BY SessionTypes DEF WorkerType, TableType
  <2>2. \/ ses' = ses \/ ses' = [ses EXCEPT ![w].commit = head]
        \/ \E x \in Salts : ses' = [ses EXCEPT ![w].built = x]
    BY <1>5 DEF Fetch, Extract
  <2>3. ses' \in [Workers -> SessionType]
    BY <2>1, <2>2 DEF WorkerType
  <2> QED
    BY <1>5, <2>3 DEF Fetch, Extract, Raise, WorkerType, Goto, Syncing
<1>6. CASE Skip(w) \/ Promote(w)
  <2> DEFINE s == IF pc[w] = "resolve" THEN [ses EXCEPT ![w] = NoSession]
                  ELSE [ses EXCEPT ![w].status = "succeeded"]
  <2>1. s \in [Workers -> SessionType]
    BY <1>6, SessionTypes, NoSessionType DEF WorkerType, RunStatus
  <2>2. ses' = Overtake(w, s)
    BY <1>6 DEF Skip, Promote
  <2> HIDE DEF s
  <2>3. ses' \in [Workers -> SessionType]
    BY <2>1, <2>2, OvertakenSession DEF Overtake
  <2>4. CASE Skip(w)
    BY <2>4, <2>3 DEF Skip, Unlock, WorkerType, Goto, Syncing
  <2>5. CASE Promote(w)
    BY <2>5, <2>3 DEF Promote, WorkerType, Goto, Syncing
  <2> QED  BY <1>6, <2>4, <2>5
<1>7. CASE Attempt(w) \/ Bundle(w) \/ PublishCheck(w) \/ PublishUpload(w)
  BY <1>7 DEF Attempt, Bundle, PublishCheck, PublishUpload, Raise, WorkerType, Goto, Syncing
<1>8. CASE Heartbeat(w) /\ ~Exit(w)
  BY <1>8 DEF Heartbeat, AfterBeat, WorkerType, Goto, Syncing
<1>9. CASE PublishVerify(w)
  <2>1. ses' \in [Workers -> SessionType]
    BY <1>9, SessionTypes DEF PublishVerify, Advance, WorkerType
  <2> QED
    BY <1>9, <2>1 DEF PublishVerify, Advance, Raise, WorkerType, Goto, Syncing
<1>10. CASE Close(w) /\ ~Return(w)
  BY <1>10 DEF Close, Raise, WorkerType, Syncing
<1>11. CASE LoseConnection(w)
  <2>1. conn' \in [Workers -> BOOLEAN]
    BY <1>11, Zenon DEF LoseConnection, WorkerType
  <2> QED
    BY <1>11, <2>1 DEF LoseConnection, Unlock, WorkerType
<1> QED
  BY <1>1, <1>2, <1>3, <1>4, <1>5, <1>6, <1>7, <1>8, <1>9, <1>10, <1>11
     DEF Work, FailRun, FailVersion, Disconnected, Crash, Claim, Close, Heartbeat

(* The lock and its holder agree after every step of a worker: a sync that *)
(* is left, exits or loses its connection gives the lock back.             *)
LEMMA LockStep ==
    ASSUME TypeOK, LockInv, SessionInv, NEW w \in Workers,
           Work(w) \/ Crash(w) \/ LoseConnection(w)
    PROVE  LockInv'
<1> USE SyncAssumptions DEF Goto
<1>0. \A u \in Workers \ {w} :
         /\ pc'[u] = pc[u] /\ conn'[u] = conn[u]
         /\ lock = u <=> pc[u] \in Syncing /\ conn[u]
  BY OthersKept DEF Kept, LockInv
<1>h. lock = w <=> pc[w] \in Syncing /\ conn[w]
  BY DEF LockInv
<1> DEFINE Own == lock' = w <=> pc'[w] \in Syncing /\ conn'[w]
           Rest == lock' = lock \/ (lock = w /\ lock' = None) \/ (lock = None /\ lock' = w)
<1>c. pc[w] \notin Syncing => conn[w]
  BY DEF SessionInv
<1>w. pc \in [Workers -> Syncing \cup {"down", "poll", "list", "work"}] /\ conn \in [Workers -> BOOLEAN]
  BY DEF TypeOK, WorkerType
<1>s. Own /\ Rest
  <2>1. CASE Return(w) \/ Exit(w)
    BY <2>1, <1>w DEF Return, Exit, Unlock, Syncing
  <2>2. CASE Start(w) \/ QueueDue(w) \/ ListQueued(w) \/ Sleep(w)
    BY <2>2, <1>w, <1>h DEF Start, QueueDue, ListQueued, Sleep, Syncing
  <2>3. CASE Acquire(w)
    <3>1. pc[w] = "work" /\ conn'[w] = conn[w] /\ conn[w]
      BY <2>3, <1>c DEF Acquire, Syncing
    <3> QED
      BY <2>3, <3>1, <1>w, <1>h DEF Acquire, Syncing
  <2>4. CASE (Claim(w) /\ ~Return(w)) \/ (Heartbeat(w) /\ ~Exit(w)) \/ (Close(w) /\ ~Return(w))
    BY <2>4, <1>w, <1>h DEF Claim, Heartbeat, AfterBeat, Close, Raise, Syncing
  <2>5. CASE Fetch(w) \/ Attempt(w) \/ Extract(w) \/ Bundle(w)
    BY <2>5, <1>w, <1>h DEF Fetch, Attempt, Extract, Bundle, Raise, Syncing
  <2>6. CASE PublishCheck(w) \/ PublishUpload(w) \/ PublishVerify(w) \/ Promote(w)
    BY <2>6, <1>w, <1>h DEF PublishCheck, PublishUpload, PublishVerify, Advance, Promote,
                            Raise, Syncing
  <2>7. CASE Skip(w) \/ LoseConnection(w)
    BY <2>7, <1>w, <1>h DEF Skip, LoseConnection, Unlock, Syncing
  <2> QED
    BY <2>1, <2>2, <2>3, <2>4, <2>5, <2>6, <2>7
       DEF Work, FailRun, FailVersion, Disconnected, Crash, Claim, Close, Heartbeat
<1> QED
  BY <1>0, <1>s DEF LockInv

(* Filling in one field of a session leaves the others alone.              *)
LEMMA SessionFields ==
    ASSUME NEW s \in SessionType, NEW x
    PROVE  /\ LET t == [s EXCEPT !.status = x] IN
                 /\ t.run = s.run /\ t.src = s.src /\ t.commit = s.commit
                 /\ t.built = s.built /\ t.status = x /\ t.overtaken = s.overtaken
           /\ LET t == [s EXCEPT !.commit = x] IN
                 /\ t.run = s.run /\ t.src = s.src /\ t.commit = x
                 /\ t.built = s.built /\ t.status = s.status /\ t.overtaken = s.overtaken
           /\ LET t == [s EXCEPT !.built = x] IN
                 /\ t.run = s.run /\ t.src = s.src /\ t.commit = s.commit
                 /\ t.built = x /\ t.status = s.status /\ t.overtaken = s.overtaken
  BY DEF SessionType

LEMMA NextArtifact ==
    ASSUME NEW s \in SessionType
    PROVE  LET t == [s EXCEPT !.art = @ + 1] IN
              /\ t.run = s.run /\ t.src = s.src /\ t.commit = s.commit
              /\ t.built = s.built /\ t.status = s.status /\ t.overtaken = s.overtaken
  BY DEF SessionType

(* After a step of a worker its own session still holds what its phase     *)
(* needs.                                                                  *)
OwnSession(w) ==
    /\ pc[w] \notin Syncing => ses[w] = NoSession /\ conn[w]
    /\ pc[w] \in Syncing => ses[w].run \in Runs /\ ses[w].src \in Source
    /\ pc[w] \in Fetched => ses[w].commit \in Commits
    /\ pc[w] \in {"claim", "fetch"} => ses[w].commit = None
    /\ pc[w] \in Built => ses[w].built \in Salts

LEMMA SessionStep ==
    ASSUME TypeOK, LockInv, SessionInv, NEW w \in Workers,
           Work(w) \/ Crash(w) \/ LoseConnection(w)
    PROVE  SessionInv'
<1> USE SyncAssumptions DEF Goto, Syncing, Fetched, Built
<1>0. \A u \in Workers \ {w} : OwnSession(u)'
  BY OthersKept DEF Kept, SessionInv, OwnSession
<1>o. OwnSession(w)
  BY DEF SessionInv, OwnSession
<1>w. /\ pc \in [Workers -> Syncing \cup {"down", "poll", "list", "work"}]
      /\ conn \in [Workers -> BOOLEAN] /\ ses \in [Workers -> SessionType]
      /\ head \in Commits /\ source \in Source /\ batch[w] \subseteq Runs
  BY DEF TypeOK, WorkerType, TableType
<1>s. OwnSession(w)'
  <2>1. CASE Return(w) \/ Exit(w)
    BY <2>1, <1>w DEF Return, Exit, OwnSession
  <2>2. CASE Start(w) \/ QueueDue(w) \/ ListQueued(w) \/ Sleep(w)
    BY <2>2, <1>w, <1>o DEF Start, QueueDue, ListQueued, Sleep, OwnSession
  <2>3. CASE Acquire(w)
    BY <2>3, <1>w, <1>o DEF Acquire, NewSession, OwnSession
  <2>4. CASE Claim(w) /\ ~Return(w)
    <3>1. ses'[w] = [ses[w] EXCEPT !.status = "running"]
      BY <2>4, <1>w DEF Claim
    <3>2. ses'[w].run = ses[w].run /\ ses'[w].src = ses[w].src /\ ses'[w].commit = ses[w].commit
      BY <3>1, <1>w, SessionFields
    <3> QED
      BY <2>4, <1>w, <1>o, <3>2 DEF Claim, OwnSession
  <2>5. CASE Fetch(w)
    <3>1. CASE pc'[w] # "resolve"
      <4>1. ses' = ses /\ conn' = conn /\ pc[w] = "fetch" /\ pc'[w] = "fail_run"
        BY <2>5, <3>1, <1>w DEF Fetch, Raise
      <4> QED  BY <4>1, <1>o DEF OwnSession
    <3>2. CASE pc'[w] = "resolve"
      <4>1. ses'[w] = [ses[w] EXCEPT !.commit = head] /\ pc[w] = "fetch"
        BY <2>5, <3>2, <1>w DEF Fetch, Raise
      <4>2. ses'[w].run = ses[w].run /\ ses'[w].src = ses[w].src /\ ses'[w].commit = head
        BY <4>1, <1>w, SessionFields
      <4> QED  BY <3>2, <4>1, <4>2, <1>w, <1>o DEF OwnSession
    <3> QED  BY <3>1, <3>2
  <2>6. CASE Skip(w)
    <3>1. ses'[w] = NoSession
      BY <2>6, <1>w DEF Skip, Overtake
    <3>2. conn'[w]
      BY <2>6 DEF Skip
    <3> QED
      BY <2>6, <1>w, <3>1, <3>2 DEF Skip, OwnSession
  <2>7. CASE Attempt(w)
    BY <2>7, <1>w, <1>o DEF Attempt, OwnSession
  <2>8. CASE Heartbeat(w) /\ ~Exit(w)
    BY <2>8, <1>w, <1>o DEF Heartbeat, AfterBeat, OwnSession
  <2>9. CASE Extract(w)
    <3>1. CASE pc'[w] # "beat_bundle"
      BY <2>9, <1>w, <1>o, <3>1 DEF Extract, Raise, OwnSession
    <3>2. CASE pc'[w] = "beat_bundle"
      <4>1. PICK x \in Salts : ses'[w] = [ses[w] EXCEPT !.built = x]
        BY <2>9, <1>w, <3>2 DEF Extract, Raise
      <4>2. /\ ses'[w].run = ses[w].run /\ ses'[w].src = ses[w].src
            /\ ses'[w].commit = ses[w].commit /\ ses'[w].built \in Salts
        BY <4>1, <1>w, SessionFields
      <4> QED
        BY <2>9, <1>w, <1>o, <3>2, <4>2 DEF Extract, OwnSession
    <3> QED  BY <3>1, <3>2
  <2>10. CASE Bundle(w) \/ PublishCheck(w) \/ PublishUpload(w)
    BY <2>10, <1>w, <1>o DEF Bundle, PublishCheck, PublishUpload, Raise, OwnSession
  <2>11. CASE PublishVerify(w)
    <3>1. ses'[w] = ses[w] \/ ses'[w] = [ses[w] EXCEPT !.art = @ + 1]
      BY <2>11, <1>w DEF PublishVerify, Advance
    <3>2. /\ ses'[w].run = ses[w].run /\ ses'[w].src = ses[w].src
          /\ ses'[w].commit = ses[w].commit /\ ses'[w].built = ses[w].built
      BY <3>1, <1>w, NextArtifact
    <3> QED
      BY <2>11, <1>w, <1>o, <3>2 DEF PublishVerify, Advance, Raise, OwnSession
  <2>12. CASE Promote(w)
    <3>1. ses'[w] = [ses[w] EXCEPT !.status = "succeeded"]
      BY <2>12, <1>w DEF Promote, Overtake
    <3>2. /\ ses'[w].run = ses[w].run /\ ses'[w].src = ses[w].src
          /\ ses'[w].commit = ses[w].commit
      BY <3>1, <1>w DEF SessionType
    <3> QED
      BY <2>12, <1>w, <1>o, <3>2 DEF Promote, OwnSession
  <2>13. CASE Close(w) /\ ~Return(w)
    BY <2>13, <1>w, <1>o DEF Close, Raise, OwnSession
  <2>14. CASE LoseConnection(w)
    BY <2>14, <1>w, <1>o DEF LoseConnection, OwnSession
  <2> QED
    BY <2>1, <2>2, <2>3, <2>4, <2>5, <2>6, <2>7, <2>8, <2>9, <2>10, <2>11, <2>12, <2>13,
       <2>14 DEF Work, FailRun, FailVersion, Disconnected, Crash, Claim, Close, Heartbeat
<1> QED
  BY <1>0, <1>s DEF SessionInv, OwnSession

(* The version a sync attempts stays its own: nobody else finishes or      *)
(* restarts it, so the session's "running" is the table's.                 *)
OwnAttempt(w) ==
    /\ pc[w] \in Attempting \cup {"fetch", "resolve"} => ses[w].status = "running"
    /\ pc[w] = "close" => ses[w].status = "succeeded"
    /\ pc[w] \in Attempting \cup {"fail"} /\ conn[w] /\ ses[w].status = "running" =>
          vstatus[Version(w)] = "running"

LEMMA AttemptStep ==
    ASSUME TypeOK, LockInv, SessionInv, AttemptInv, NEW w \in Workers,
           Work(w) \/ Crash(w) \/ LoseConnection(w)
    PROVE  AttemptInv'
<1> USE SyncAssumptions DEF Goto, Syncing, Fetched, Attempting
<1>o. OwnAttempt(w)
  BY DEF AttemptInv, OwnAttempt
<1>w. /\ pc \in [Workers -> Syncing \cup {"down", "poll", "list", "work"}]
      /\ conn \in [Workers -> BOOLEAN] /\ ses \in [Workers -> SessionType]
  BY DEF TypeOK, WorkerType
<1>v. pc[w] \in Fetched => Version(w) \in Versions /\ vstatus \in [Versions -> VersionStatus]
  BY VersionType DEF TypeOK, TableType
<1>u. vstatus' = vstatus \/ (pc[w] \in Syncing /\ conn[w])
  BY DEF Work, Start, QueueDue, ListQueued, Sleep, Acquire, Claim, Fetch, Skip, Attempt,
         Heartbeat, Extract, Bundle, PublishCheck, PublishUpload, PublishVerify, Promote,
         Close, FailRun, FailVersion, Disconnected, Crash, LoseConnection, versions
<1>0. ASSUME NEW u \in Workers \ {w} PROVE OwnAttempt(u)'
  <2>1. pc'[u] = pc[u] /\ conn'[u] = conn[u] /\ ses'[u].status = ses[u].status /\ Version(u)' = Version(u)
    BY OthersKept DEF Kept, Version
  <2>2. pc[u] \in Syncing /\ conn[u] => vstatus' = vstatus
    BY <1>u, OneHolder
  <2> QED
    BY <2>1, <2>2 DEF AttemptInv, OwnAttempt
<1>s. OwnAttempt(w)'
  <2>1. CASE pc'[w] \in {"down", "poll", "list", "work", "claim", "fail_run"}
    BY <2>1 DEF OwnAttempt
  <2>2. CASE Claim(w) /\ pc'[w] = "fetch"
    <3>1. ses'[w] = [ses[w] EXCEPT !.status = "running"]
      BY <2>2, <1>w DEF Claim, Return
    <3>2. ses'[w].status = "running"
      BY <3>1, <1>w, SessionFields
    <3> QED  BY <2>2, <3>2 DEF OwnAttempt
  <2>3. CASE Fetch(w) /\ pc'[w] = "resolve"
    <3>1. ses'[w] = [ses[w] EXCEPT !.commit = head]
      BY <2>3, <1>w DEF Fetch, Raise
    <3>2. ses'[w].status = ses[w].status /\ pc[w] = "fetch"
      BY <2>3, <3>1, <1>w, SessionFields DEF Fetch
    <3> QED  BY <2>3, <3>2, <1>o DEF OwnAttempt
  <2>4. CASE Attempt(w)
    BY <2>4, <1>w, <1>v, <1>o DEF Attempt, OwnAttempt, Version
  <2>5. CASE Extract(w) \/ PublishVerify(w)
    <3>1. \/ ses'[w] = ses[w] \/ ses'[w] = [ses[w] EXCEPT !.art = @ + 1]
          \/ \E x \in Salts : ses'[w] = [ses[w] EXCEPT !.built = x]
      BY <2>5, <1>w DEF Extract, PublishVerify, Advance
    <3>2. ses'[w].src = ses[w].src /\ ses'[w].commit = ses[w].commit /\ ses'[w].status = ses[w].status
      <4>1. CASE ses'[w] = ses[w] \/ ses'[w] = [ses[w] EXCEPT !.art = @ + 1]
        BY <4>1, <1>w, NextArtifact
      <4>2. ASSUME NEW x \in Salts, ses'[w] = [ses[w] EXCEPT !.built = x]
            PROVE  /\ ses'[w].src = ses[w].src /\ ses'[w].commit = ses[w].commit
                   /\ ses'[w].status = ses[w].status
        BY <4>2, <1>w, SessionFields
      <4> QED  BY <3>1, <4>1, <4>2
    <3>3. Version(w)' = Version(w) /\ vstatus' = vstatus /\ conn' = conn
      BY <3>2, <2>5 DEF Version, Extract, PublishVerify, versions
    <3>4. pc[w] \in Attempting /\ pc'[w] \in Attempting \cup {"fail"}
      BY <2>5, <1>w DEF Extract, PublishVerify, Advance, Raise
    <3> QED
      BY <3>2, <3>3, <3>4, <1>o DEF OwnAttempt
  <2>6. CASE Bundle(w) \/ PublishCheck(w) \/ PublishUpload(w) \/ (Heartbeat(w) /\ ~Exit(w))
    <3>1. ses' = ses /\ vstatus' = vstatus /\ conn' = conn /\ Version(w)' = Version(w)
      BY <2>6 DEF Bundle, PublishCheck, PublishUpload, Heartbeat, Version, versions
    <3>2. pc[w] \in Attempting /\ pc'[w] \in Attempting \cup {"fail"}
      BY <2>6, <1>w DEF Bundle, PublishCheck, PublishUpload, Raise, Heartbeat, AfterBeat
    <3> QED
      BY <3>1, <3>2, <1>o DEF OwnAttempt
  <2>7. CASE Promote(w)
    <3>1. ses'[w] = [ses[w] EXCEPT !.status = "succeeded"]
      BY <2>7, <1>w DEF Promote, Overtake
    <3>2. ses'[w].status = "succeeded"
      BY <3>1, <1>w, SessionFields
    <3> QED
      BY <2>7, <1>w, <3>2 DEF Promote, OwnAttempt
  <2>8. CASE Close(w) /\ ~Return(w)
    BY <2>8, <1>w, <1>o DEF Close, Raise, OwnAttempt
  <2>9. CASE LoseConnection(w)
    BY <2>9, <1>w, <1>o DEF LoseConnection, OwnAttempt
  <2>10. CASE Return(w) \/ Exit(w) \/ Skip(w)
    BY <2>1, <2>10, <1>w DEF Return, Exit, Skip
  <2>11. CASE Start(w) \/ QueueDue(w) \/ ListQueued(w) \/ Sleep(w) \/ Acquire(w)
    BY <2>1, <2>11, <1>w DEF Start, QueueDue, ListQueued, Sleep, Acquire
  <2>12. CASE Claim(w) /\ ~Return(w)
    BY <2>1, <2>2, <2>12, <1>w DEF Claim
  <2>13. CASE Fetch(w)
    BY <2>1, <2>3, <2>13, <1>w DEF Fetch, Raise
  <2> QED
    BY <2>4, <2>5, <2>6, <2>7, <2>8, <2>9, <2>10, <2>11, <2>12, <2>13
       DEF Work, FailRun, FailVersion, Disconnected, Crash, Claim, Close, Heartbeat
<1> QED
  BY <1>0, <1>s DEF AttemptInv, OwnAttempt

(* The serving pointer, the succeeded versions and the order of promotions *)
(* under a step of a worker.                                               *)
Immutable ==
    \A v \in Versions : vstatus[v] = "succeeded" =>
       vstatus'[v] = "succeeded" /\ sums'[v] = sums[v]

LEMMA ImmutableStep ==
    ASSUME SyncInv, NEW w \in Workers, Work(w) \/ Crash(w) \/ LoseConnection(w)
    PROVE  Immutable
<1> USE DEF SyncInv
<1>1. pc[w] \in Fetched => Version(w) \in Versions
  BY VersionType
<1>2. vstatus \in [Versions -> VersionStatus] /\ sums \in [Versions -> [Names -> Bytes \cup {None}]]
  BY DEF TypeOK, TableType
<1>3. CASE Attempt(w)
  BY <1>1, <1>2, <1>3 DEF Attempt, Immutable
<1>4. CASE Promote(w)
  <2>1. vstatus[Version(w)] = "running"
    BY <1>4 DEF Promote, AttemptInv, Attempting, Fetched, Syncing
  <2> QED
    BY <1>1, <1>2, <1>4, <2>1 DEF Promote, Immutable
<1>5. CASE FailVersion(w)
  <2>1. ses[w].status = "running" => vstatus[Version(w)] = "running"
    BY <1>5 DEF FailVersion, AttemptInv
  <2> QED
    BY <1>1, <1>2, <1>5, <2>1 DEF FailVersion, Immutable
<1>6. CASE ~Attempt(w) /\ ~Promote(w) /\ ~FailVersion(w)
  <2>1. UNCHANGED <<vstatus, sums>>
    BY <1>6 DEF Work, Start, QueueDue, ListQueued, Sleep, Acquire, Claim, Fetch, Skip,
         Heartbeat, Extract, Bundle, PublishCheck, PublishUpload, PublishVerify,
         Close, FailRun, Disconnected, Crash, LoseConnection, versions
  <2> QED  BY <2>1 DEF Immutable
<1> QED  BY <1>3, <1>4, <1>5, <1>6

LEMMA PointerStep ==
    ASSUME SyncInv, NEW w \in Workers, Work(w) \/ Crash(w) \/ LoseConnection(w)
    PROVE  CurrentSucceeded'
<1> USE DEF SyncInv
<1>1. pc[w] \in Fetched => Version(w) \in Versions
  BY VersionType
<1>2. vstatus \in [Versions -> VersionStatus] /\ pointer \in Versions \cup {None}
  BY DEF TypeOK, TableType
<1>3. Immutable
  BY ImmutableStep
<1>4. CASE pointer' = pointer
  BY <1>2, <1>3, <1>4 DEF CurrentSucceeded, Immutable
<1>5. CASE pointer' # pointer
  <2>1. pointer' = Version(w) /\ (Skip(w) \/ Promote(w))
    BY <1>5 DEF Work, Start, QueueDue, ListQueued, Sleep, Acquire, Claim, Fetch, Skip, Attempt,
         Heartbeat, Extract, Bundle, PublishCheck, PublishUpload, PublishVerify, Promote,
         Close, FailRun, FailVersion, Disconnected, Crash, LoseConnection, MovePointer
  <2>2. CASE Skip(w)
    BY <2>1, <2>2, <1>1, <1>3 DEF Skip, CurrentSucceeded, Immutable, Fetched, Syncing
  <2>3. CASE Promote(w)
    BY <2>1, <2>3, <1>1, <1>2 DEF Promote, CurrentSucceeded, Fetched, Syncing
  <2> QED  BY <2>1, <2>2, <2>3
<1> QED  BY <1>4, <1>5

LEMMA OvertakenStep ==
    ASSUME SyncInv, NEW w \in Workers, Work(w) \/ Crash(w) \/ LoseConnection(w)
    PROVE  NotOvertaken'
<1> USE SyncAssumptions DEF SyncInv, Goto
<1>w. /\ pc \in [Workers -> Syncing \cup {"down", "poll", "list", "work"}]
      /\ conn \in [Workers -> BOOLEAN] /\ ses \in [Workers -> SessionType]
  BY DEF TypeOK, WorkerType
<1>1. ASSUME NEW u \in Workers \ {w}, ses'[u].overtaken PROVE ~conn'[u]
  <2>1. conn'[u] = conn[u]
    BY OthersKept DEF Kept
  <2>2. CASE ses'[u] = ses[u]
    BY <1>1, <2>1, <2>2 DEF NotOvertaken
  <2>3. CASE ses'[u] # ses[u]
    <3>1. /\ Skip(w) \/ Promote(w)
          /\ ses[u].commit # None
      BY <2>3, <1>w DEF Work, Start, QueueDue, ListQueued, Sleep, Acquire, Claim, Fetch, Skip,
         Attempt, Heartbeat, Extract, Bundle, PublishCheck, PublishUpload, PublishVerify, Advance,
         Promote, Close, FailRun, FailVersion, Disconnected, Crash, LoseConnection, Return, Exit,
         Overtake
    <3>2. pc[u] \in Syncing
      BY <3>1 DEF SessionInv, NoSession, NewSession
    <3>3. pc[w] \in Syncing /\ conn[w]
      BY <3>1 DEF Skip, Promote, Syncing
    <3> QED
      BY <2>1, <3>2, <3>3, OneHolder
  <2> QED  BY <2>2, <2>3
<1>2. ASSUME ses'[w].overtaken PROVE ~conn'[w]
  <2>1. ses'[w] # NoSession /\ \A r, x, v : ses'[w] # NewSession(r, x, v)
    BY <1>2 DEF NoSession, NewSession
  <2>2. ses'[w].overtaken = ses[w].overtaken
    <3>1. \/ ses'[w] = ses[w]
          \/ \E x : \/ ses'[w] = [ses[w] EXCEPT !.status = x]
                    \/ ses'[w] = [ses[w] EXCEPT !.commit = x]
                    \/ ses'[w] = [ses[w] EXCEPT !.built = x]
          \/ ses'[w] = [ses[w] EXCEPT !.art = @ + 1]
      <4>1. CASE Return(w) \/ Exit(w) \/ Skip(w)
        BY <4>1, <2>1, <1>w DEF Return, Exit, Skip, Overtake
      <4>2. CASE Acquire(w)
        BY <4>2, <2>1, <1>w DEF Acquire
      <4>3. CASE Promote(w)
        BY <4>3, <1>w DEF Promote, Overtake
      <4>4. CASE Fetch(w) \/ Extract(w) \/ PublishVerify(w) \/ (Claim(w) /\ ~Return(w))
        <5>1. CASE Fetch(w) \/ Extract(w)
          <6>1. \/ ses' = ses \/ ses' = [ses EXCEPT ![w].commit = head]
                \/ \E x \in Salts : ses' = [ses EXCEPT ![w].built = x]
            BY <5>1 DEF Fetch, Extract
          <6> QED  BY <6>1, <1>w
        <5>2. CASE PublishVerify(w) \/ (Claim(w) /\ ~Return(w))
          BY <5>2, <1>w DEF PublishVerify, Advance, Claim
        <5> QED  BY <4>4, <5>1, <5>2
      <4> QED
        BY <4>1, <4>2, <4>3, <4>4
           DEF Work, Start, QueueDue, ListQueued, Sleep, Attempt, Heartbeat, Bundle, PublishCheck,
               PublishUpload, Close, FailRun, FailVersion, Disconnected, Crash, LoseConnection, Claim
    <3>2. ASSUME NEW x PROVE
             /\ [ses[w] EXCEPT !.status = x].overtaken = ses[w].overtaken
             /\ [ses[w] EXCEPT !.commit = x].overtaken = ses[w].overtaken
             /\ [ses[w] EXCEPT !.built = x].overtaken = ses[w].overtaken
             /\ [ses[w] EXCEPT !.art = @ + 1].overtaken = ses[w].overtaken
      BY <1>w, SessionFields, NextArtifact
    <3> QED  BY <3>1, <3>2
  <2>3. ~conn[w]
    BY <1>2, <2>2 DEF NotOvertaken
  <2>4. conn'[w] = conn[w] \/ ~conn'[w]
    <3>1. CASE Return(w) \/ Exit(w)
      BY <3>1, <2>1, <1>w DEF Return, Exit
    <3> QED
      BY <3>1, <1>w DEF Work, Start, QueueDue, ListQueued, Sleep, Acquire, Claim, Fetch, Skip, Attempt,
         Heartbeat, Extract, Bundle, PublishCheck, PublishUpload, PublishVerify, Promote,
         Close, FailRun, FailVersion, Disconnected, Crash, LoseConnection
  <2> QED  BY <2>3, <2>4
<1> QED  BY <1>1, <1>2 DEF NotOvertaken

(* The environment: a heartbeat that expires, a manual request, a registry *)
(* edit or a moved ref touches no version, pointer, worker or object.      *)
LEMMA EnvironmentStep ==
    ASSUME SyncInv, Requests \/ (\E r \in Runs : HeartbeatExpires(r)) \/ UNCHANGED vars
    PROVE  SyncInv' /\ Immutable
<1> USE SyncAssumptions DEF SyncInv
<1>1. UNCHANGED <<pointer, vstatus, sums, object, lock, pc, batch, conn, ses>>
  BY DEF Requests, ManualCheck, ManualInsert, EditSource, MoveRef, HeartbeatExpires, vars,
         worker, versions
<1>2. LockInv' /\ NotOvertaken' /\ CurrentSucceeded' /\ Immutable
  BY <1>1 DEF LockInv, NotOvertaken, CurrentSucceeded, Immutable
<1>3. SessionInv'
  BY <1>1 DEF SessionInv
<1>4. AttemptInv'
  BY <1>1 DEF AttemptInv, Version
<1>5. TypeOK'
  <2>1. WorkerType'
    BY <1>1 DEF TypeOK, WorkerType
  <2>2. TableType'
    <3> USE DEF TypeOK, TableType, runs, versions, bounds
    <3>1. CASE ManualCheck \/ EditSource \/ MoveRef
      <4>1. CASE ManualCheck
        BY <4>1, Zenon DEF ManualCheck
      <4>2. CASE EditSource
        <5>1. source' \in Source /\ edits' \in Nat
          BY <4>2 DEF EditSource
        <5> QED  BY <4>2, <5>1 DEF EditSource
      <4>3. CASE MoveRef
        BY <4>3 DEF MoveRef
      <4> QED  BY <3>1, <4>1, <4>2, <4>3
    <3>2. CASE ManualInsert
      BY <3>2 DEF ManualInsert, Insert, RunStatus
    <3>3. CASE \E r \in Runs : HeartbeatExpires(r)
      <4>1. rstale' \in [Runs -> BOOLEAN]
        BY <3>3, Zenon DEF HeartbeatExpires
      <4> QED  BY <3>3, <4>1 DEF HeartbeatExpires
    <3>4. CASE UNCHANGED vars
      BY <3>4 DEF vars
    <3> QED  BY <3>1, <3>2, <3>3, <3>4 DEF Requests
  <2> QED  BY <2>1, <2>2 DEF TypeOK
<1> QED  BY <1>2, <1>3, <1>4, <1>5

(* The invariant is inductive.                                             *)
LEMMA SyncStep == SyncInv /\ [Next]_vars => SyncInv' /\ Immutable
<1> SUFFICES ASSUME SyncInv, [Next]_vars PROVE SyncInv' /\ Immutable
  OBVIOUS
<1>1. ASSUME NEW w \in Workers, Work(w) \/ Crash(w) \/ LoseConnection(w)
      PROVE  SyncInv' /\ Immutable
  <2>1. TypeOK'
    BY <1>1, TableStep, WorkerStep DEF SyncInv, TypeOK
  <2>2. LockInv' /\ SessionInv' /\ AttemptInv'
    BY <1>1, LockStep, SessionStep, AttemptStep DEF SyncInv
  <2>3. CurrentSucceeded' /\ NotOvertaken' /\ Immutable
    BY <1>1, PointerStep, OvertakenStep, ImmutableStep
  <2> QED  BY <2>1, <2>2, <2>3 DEF SyncInv
<1>2. CASE Requests \/ (\E r \in Runs : HeartbeatExpires(r)) \/ UNCHANGED vars
  BY <1>2, EnvironmentStep
<1> QED  BY <1>1, <1>2 DEF Next

(* The inductive invariant holds throughout: only the lock's holder can    *)
(* write to the database, and it attempts a version nobody else finishes.  *)
THEOREM Sync == Spec => []SyncInv
<1>1. Init => SyncInv
  BY SyncInit
<1>2. SyncInv /\ [Next]_vars => SyncInv'
  BY SyncStep
<1> QED  BY <1>1, <1>2, PTL DEF Spec

(* The serving pointer names a succeeded version, always.                  *)
THEOREM CurrentSucceededHolds == Spec => []CurrentSucceeded
<1>1. SyncInv => CurrentSucceeded
  BY DEF SyncInv
<1> QED  BY <1>1, Sync, PTL

(* No sync that can still write was overtaken by another promotion.        *)
THEOREM NotOvertakenHolds == Spec => []NotOvertaken
<1>1. SyncInv => NotOvertaken
  BY DEF SyncInv
<1> QED  BY <1>1, Sync, PTL

(* A succeeded version and its checksums never change, whatever crashes,   *)
(* retries, skips or lost connections follow.                              *)
THEOREM SucceededStays == Spec => [][Immutable]_vars
<1>1. SyncInv /\ [Next]_vars => [Immutable]_vars
  BY SyncStep
<1> QED  BY <1>1, Sync, PTL DEF Spec

-----------------------------------------------------------------------------
(* The syncs implement VersionRegistry.                                    *)

(* Filling in a session does not touch the pointer it loaded.              *)
LEMMA SamePointer ==
    ASSUME NEW s \in SessionType, NEW x
    PROVE  /\ [s EXCEPT !.status = x].pointer = s.pointer
           /\ [s EXCEPT !.commit = x].pointer = s.pointer
           /\ [s EXCEPT !.built = x].pointer = s.pointer
           /\ [s EXCEPT !.art = @ + 1].pointer = s.pointer
  BY DEF SessionType

(* Only Skip and Promote write the pointer, and only over a live           *)
(* connection.                                                             *)
LEMMA PointerWriters ==
    ASSUME NEW w \in Workers, Work(w) \/ Crash(w) \/ LoseConnection(w), pointer' # pointer
    PROVE  (Skip(w) \/ Promote(w)) /\ pc[w] \in Syncing /\ conn[w]
<1>1. Skip(w) \/ Promote(w)
  BY DEF Work, Start, QueueDue, ListQueued, Sleep, Acquire, Claim, Fetch, Attempt, Heartbeat,
         Extract, Bundle, PublishCheck, PublishUpload, PublishVerify, Close, FailRun,
         FailVersion, Disconnected, Crash, LoseConnection
<1> QED  BY <1>1 DEF Skip, Promote, Syncing

(* What a session remembers of the pointer, after a step of another worker.*)
LEMMA OthersPointer ==
    ASSUME SyncInv, NEW w \in Workers, NEW u \in Workers, u # w,
           Work(w) \/ Crash(w) \/ LoseConnection(w)
    PROVE  ses'[u].pointer = ses[u].pointer
<1>w. ses \in [Workers -> SessionType]
  BY DEF SyncInv, TypeOK, WorkerType
<1>1. CASE Skip(w) \/ Promote(w)
  <2>1. ses'[u] = ses[u] \/ ses'[u] = [ses[u] EXCEPT !.overtaken = TRUE]
    BY <1>1, <1>w DEF Skip, Promote, Overtake
  <2> QED  BY <2>1, <1>w, OvertakenSession
<1>2. CASE ~(Skip(w) \/ Promote(w))
  BY <1>2, <1>w DEF Work, Start, QueueDue, ListQueued, Sleep, Acquire, Claim, Fetch, Attempt,
     Heartbeat, Extract, Bundle, PublishCheck, PublishUpload, PublishVerify, Advance, Close,
     FailRun, FailVersion, Disconnected, Crash, LoseConnection, Return, Exit
<1> QED  BY <1>1, <1>2

(* The pointer a session loaded is the row's until the session writes it:  *)
(* only the holder of the lock moves it.                                   *)
LEMMA PointerFresh ==
    ASSUME SyncInv, PointerInv, NEW w \in Workers, Work(w) \/ Crash(w) \/ LoseConnection(w)
    PROVE  PointerInv'
<1>w. /\ pc \in [Workers -> Syncing \cup {"down", "poll", "list", "work"}]
      /\ conn \in [Workers -> BOOLEAN] /\ ses \in [Workers -> SessionType]
  BY DEF SyncInv, TypeOK, WorkerType
<1>1. ASSUME NEW u \in Workers \ {w}, pc'[u] \in BeforePointer, conn'[u]
      PROVE  ses'[u].pointer = pointer'
  <2>1. pc[u] \in BeforePointer /\ conn[u]
    BY <1>1, OthersKept DEF Kept, SyncInv
  <2>2. pointer' = pointer
    BY <2>1, PointerWriters, OneHolder DEF SyncInv, BeforePointer
  <2> QED  BY <2>1, <2>2, OthersPointer DEF PointerInv
<1>2. ASSUME pc'[w] \in BeforePointer, conn'[w] PROVE ses'[w].pointer = pointer'
  <2> USE DEF Goto
  <2>1. pc'[w] \notin {"down", "poll", "list", "work", "close", "fail", "fail_run"}
    BY <1>2 DEF BeforePointer, Syncing
  <2>2. ~(Return(w) \/ Exit(w) \/ Skip(w) \/ Promote(w))
    BY <2>1, <1>w DEF Return, Exit, Skip, Promote
  <2>3. pointer' = pointer
    BY <2>2, PointerWriters
  <2>4. CASE Acquire(w)
    BY <2>1, <2>3, <2>4, <1>w DEF Acquire, NewSession
  <2>5. CASE ~Acquire(w)
    <3>1. /\ pc[w] \in BeforePointer /\ conn[w]
          /\ \/ ses'[w] = ses[w]
             \/ ses'[w] = [ses[w] EXCEPT !.status = "running"]
             \/ ses'[w] = [ses[w] EXCEPT !.commit = head]
             \/ \E x \in Salts : ses'[w] = [ses[w] EXCEPT !.built = x]
             \/ ses'[w] = [ses[w] EXCEPT !.art = @ + 1]
      <4> USE DEF BeforePointer, Syncing
      <4>1. CASE Start(w) \/ QueueDue(w) \/ ListQueued(w) \/ Sleep(w)
        BY <2>1, <4>1, <1>w DEF Start, QueueDue, ListQueued, Sleep
      <4>2. CASE Claim(w)
        BY <1>2, <2>1, <2>2, <4>2, <1>w DEF Claim
      <4>3. CASE Fetch(w) \/ Extract(w)
        BY <1>2, <2>1, <4>3, <1>w DEF Fetch, Extract, Raise
      <4>4. CASE Attempt(w) \/ Bundle(w) \/ PublishCheck(w) \/ PublishUpload(w)
        BY <1>2, <2>1, <4>4, <1>w DEF Attempt, Bundle, PublishCheck, PublishUpload
      <4>5. CASE Heartbeat(w)
        BY <1>2, <2>1, <2>2, <4>5, <1>w DEF Heartbeat, AfterBeat
      <4>6. CASE PublishVerify(w)
        BY <1>2, <2>1, <4>6, <1>w DEF PublishVerify, Advance
      <4>7. CASE Close(w)
        BY <2>1, <2>2, <4>7, <1>w DEF Close, Raise
      <4>8. CASE LoseConnection(w)
        BY <1>2, <4>8, <1>w DEF LoseConnection
      <4> QED
        BY <2>2, <2>5, <4>1, <4>2, <4>3, <4>4, <4>5, <4>6, <4>7, <4>8
           DEF Work, FailRun, FailVersion, Disconnected, Crash
    <3>2. ses[w].pointer = pointer /\ ses[w] \in SessionType
      BY <3>1, <1>w DEF PointerInv
    <3>3. ses'[w].pointer = ses[w].pointer
      <4>1. ASSUME NEW x \in Salts, ses'[w] = [ses[w] EXCEPT !.built = x]
            PROVE  ses'[w].pointer = ses[w].pointer
        BY <3>2, <4>1, SamePointer
      <4>2. CASE ses'[w] = [ses[w] EXCEPT !.commit = head]
        BY <3>2, <4>2, SamePointer
      <4>3. CASE ses'[w] = [ses[w] EXCEPT !.status = "running"]
        BY <3>2, <4>3, SamePointer
      <4>4. CASE ses'[w] = [ses[w] EXCEPT !.art = @ + 1]
        BY <3>2, <4>4 DEF SessionType
      <4> QED  BY <3>1, <4>1, <4>2, <4>3, <4>4
    <3> QED  BY <2>3, <3>2, <3>3
  <2> QED  BY <2>4, <2>5
<1> QED  BY <1>1, <1>2 DEF PointerInv

(* Wherever the pointer was, a sync that assigns it leaves it at its own   *)
(* version: an assignment that is not written would not have changed it.   *)
LEMMA PointerMoves ==
    ASSUME PointerInv, NEW w \in Workers, pc[w] \in BeforePointer, conn[w], MovePointer(w)
    PROVE  pointer' = Version(w)
  BY DEF PointerInv, MovePointer

(* A promotion of the worker w is a promotion of the registry.             *)
LEMMA PromoteStep ==
    ASSUME SyncInv, PointerInv, NEW w \in Workers, Promote(w)
    PROVE  Registry!Next
<1> DEFINE V == Version(w)  S == [a \in Names |-> BytesOf(w, a)]
<1>t. /\ vstatus \in [Versions -> VersionStatus]
      /\ sums \in [Versions -> [Names -> Bytes \cup {None}]]
  BY DEF SyncInv, TypeOK, TableType
<1>1. pc[w] = "promote" /\ conn[w] /\ ses[w].status = "running"
  BY DEF Promote
<1>2. V \in Versions /\ vstatus[V] = "running"
  BY <1>1, VersionType DEF SyncInv, AttemptInv, Attempting, Fetched, Syncing
<1>3. pointer' = V
  BY <1>1, PointerMoves DEF Promote, BeforePointer, Syncing
<1>4. S \in [Names -> Bytes]
  <2>1. ses[w].built \in Salts /\ ses[w].src \in Source
    BY <1>1 DEF SyncInv, SessionInv, Built, Syncing
  <2>2. ses[w].src.ident \in Idents
    BY <2>1 DEF Source
  <2> QED  BY <2>1, <2>2 DEF BytesOf, Bytes
<1>5. vstatus' = [vstatus EXCEPT ![V] = "succeeded"] /\ sums' = [sums EXCEPT ![V] = S]
  BY DEF Promote
<1> HIDE DEF V, S
<1>6. Succeeded' = Succeeded \cup {V} /\ V \notin Succeeded
  BY <1>2, <1>5, <1>t DEF Succeeded
<1>7. [v \in Succeeded |-> sums[v]]' =
         [u \in Succeeded \cup {V} |-> IF u = V THEN S ELSE [v \in Succeeded |-> sums[v]][u]]
  <2>1. \A u \in Succeeded : u \in Versions /\ sums'[u] = sums[u]
    BY <1>2, <1>5, <1>6, <1>t DEF Succeeded
  <2>2. sums'[V] = S
    BY <1>2, <1>5, <1>t
  <2> QED  BY <1>6, <2>1, <2>2
<1>8. PICK v \in Versions, d \in [Names -> Bytes] : v = V /\ d = S
  BY <1>2, <1>4
<1>9. Registry!Promote(v, d)
  BY <1>3, <1>6, <1>7, <1>8 DEF Registry!Promote
<1> QED  BY <1>9 DEF Registry!Next

(* Coming back to a version that succeeded moves only the pointer.         *)
LEMMA SkipStep ==
    ASSUME SyncInv, PointerInv, NEW w \in Workers, Skip(w)
    PROVE  Registry!Next
<1>1. pc[w] = "resolve" /\ conn[w] /\ vstatus[Version(w)] = "succeeded"
  BY DEF Skip
<1>2. Version(w) \in Versions
  BY <1>1, VersionType DEF SyncInv, Fetched, Syncing
<1>3. pointer' = Version(w)
  BY <1>1, PointerMoves DEF Skip, BeforePointer, Syncing
<1>4. vstatus' = vstatus /\ sums' = sums
  BY DEF Skip, versions
<1>5. Registry!PointBack(Version(w))
  BY <1>1, <1>2, <1>3, <1>4 DEF Registry!PointBack, Succeeded
<1> QED  BY <1>2, <1>5 DEF Registry!Next

(* Nothing else changes the pointer or what succeeded.                     *)
LEMMA QuietStep ==
    ASSUME SyncInv, NEW w \in Workers, Work(w) \/ Crash(w) \/ LoseConnection(w),
           ~Skip(w), ~Promote(w)
    PROVE  UNCHANGED <<pointer, Succeeded, sums>>
<1>t. vstatus \in [Versions -> VersionStatus]
  BY DEF SyncInv, TypeOK, TableType
<1>1. pointer' = pointer
  BY PointerWriters
<1>2. sums' = sums
  BY DEF Work, Start, QueueDue, ListQueued, Sleep, Acquire, Claim, Fetch, Attempt, Heartbeat,
         Extract, Bundle, PublishCheck, PublishUpload, PublishVerify, Close, FailRun,
         FailVersion, Disconnected, Crash, LoseConnection, versions
<1>3. Succeeded' \subseteq Succeeded
  <2>1. CASE Attempt(w)
    BY <2>1, <1>t DEF Attempt, Succeeded
  <2>2. CASE FailVersion(w)
    BY <2>2, <1>t DEF FailVersion, Succeeded
  <2>3. CASE ~Attempt(w) /\ ~FailVersion(w)
    <3>1. vstatus' = vstatus
      BY <2>3 DEF Work, Start, QueueDue, ListQueued, Sleep, Acquire, Claim, Fetch, Heartbeat,
         Extract, Bundle, PublishCheck, PublishUpload, PublishVerify, Close, FailRun,
         Disconnected, Crash, LoseConnection, versions
    <3> QED  BY <3>1 DEF Succeeded
  <2> QED  BY <2>1, <2>2, <2>3
<1>4. Succeeded \subseteq Succeeded'
  BY ImmutableStep DEF Immutable, Succeeded
<1> QED  BY <1>1, <1>2, <1>3, <1>4

LEMMA RegistryStep ==
    ASSUME SyncInv, PointerInv, [Next]_vars
    PROVE  /\ PointerInv'
           /\ Registry!Next \/ UNCHANGED <<pointer, [v \in Succeeded |-> sums[v]]>>
<1>1. ASSUME NEW w \in Workers, Work(w) \/ Crash(w) \/ LoseConnection(w)
      PROVE  /\ PointerInv'
             /\ Registry!Next \/ UNCHANGED <<pointer, [v \in Succeeded |-> sums[v]]>>
  <2>1. PointerInv'
    BY <1>1, PointerFresh
  <2>2. CASE ~Skip(w) /\ ~Promote(w)
    <3>1. UNCHANGED <<pointer, Succeeded, sums>>
      BY <1>1, <2>2, QuietStep
    <3> QED  BY <2>1, <3>1
  <2> QED  BY <2>1, <2>2, SkipStep, PromoteStep
<1>2. CASE Requests \/ (\E r \in Runs : HeartbeatExpires(r)) \/ UNCHANGED vars
  <2>1. UNCHANGED <<pointer, vstatus, sums, pc, conn, ses>>
    BY <1>2 DEF Requests, ManualCheck, ManualInsert, EditSource, MoveRef, HeartbeatExpires,
       vars, worker, versions
  <2> QED  BY <2>1 DEF PointerInv, Succeeded
<1> QED  BY <1>1, <1>2 DEF Next

(* The syncs of any number of workers, with crashes, retries and lost      *)
(* connections, implement a registry of versions promoted in single steps. *)
THEOREM SyncImplementsRegistry == Spec => ImplementsRegistry
<1>1. Init => PointerInv /\ Registry!Init
  <2> SUFFICES ASSUME Init PROVE PointerInv /\ Registry!Init
    OBVIOUS
  <2>1. Succeeded = {}
    BY DEF Init, Succeeded
  <2> QED  BY <2>1 DEF Init, PointerInv, BeforePointer, Syncing, Registry!Init
<1>2. SyncInv /\ PointerInv /\ [Next]_vars =>
         PointerInv' /\ [Registry!Next]_<<pointer, [v \in Succeeded |-> sums[v]]>>
  BY RegistryStep
<1> QED  BY <1>1, <1>2, Sync, PTL DEF Spec, ImplementsRegistry, Registry!Spec

-----------------------------------------------------------------------------
(* The bucket while connections hold.                                      *)

OwnPublish(w) ==
    /\ conn[w]
    /\ pc[w] \in BeforePublish => ses[w].art = 1
    /\ pc[w] \in {"check", "upload", "verify"} =>
          \A i \in 1..Len(Artifacts) : i < ses[w].art =>
             object[Version(w)][Artifacts[i]] = BytesOf(w, Artifacts[i])
    /\ pc[w] = "upload" => Stored(w) = None
    /\ pc[w] = "promote" => \A a \in Names : object[Version(w)][a] = BytesOf(w, a)

(* Filling in another field leaves the artifact counter alone.             *)
LEMMA SameArtifact ==
    ASSUME NEW s \in SessionType, NEW x
    PROVE  /\ [s EXCEPT !.status = x].art = s.art
           /\ [s EXCEPT !.commit = x].art = s.art
           /\ [s EXCEPT !.built = x].art = s.art
           /\ [s EXCEPT !.art = @ + 1].art = s.art + 1
  BY DEF SessionType

(* Only an upload changes the bucket.                                      *)
LEMMA OnlyUploads ==
    ASSUME NEW w \in Workers, Work(w) \/ Crash(w) \/ LoseConnection(w), ~PublishUpload(w)
    PROVE  object' = object
  BY DEF Work, Start, QueueDue, ListQueued, Sleep, Acquire, Claim, Fetch, Skip, Attempt,
         Heartbeat, Extract, Bundle, PublishCheck, PublishVerify, Promote, Close, FailRun,
         FailVersion, Disconnected, Crash, LoseConnection

(* What an upload stores, and that it stores nothing else.                 *)
LEMMA Uploaded ==
    ASSUME SyncInv, NEW w \in Workers, PublishUpload(w)
    PROVE  /\ Version(w) \in Versions /\ ses[w].art \in 1..Len(Artifacts)
           /\ Artifacts[ses[w].art] \in Names
           /\ object'[Version(w)][Artifacts[ses[w].art]] = Mine(w)
           /\ \A a \in Names : a # Artifacts[ses[w].art] =>
                 object'[Version(w)][a] = object[Version(w)][a]
           /\ \A v \in Versions : v # Version(w) => object'[v] = object[v]
           /\ UNCHANGED <<vstatus, sums, ses, conn>>
<1>1. Version(w) \in Versions
  BY VersionType DEF SyncInv, PublishUpload, Fetched, Syncing
<1>2. ses[w].art \in 1..Len(Artifacts)
  BY DEF SyncInv, TypeOK, WorkerType, SessionType
<1>3. Artifacts[ses[w].art] \in Names
  BY <1>2 DEF Names
<1>4. object \in [Versions -> [Names -> Bytes \cup {None}]]
  BY DEF SyncInv, TypeOK, TableType
<1>5. object' = [object EXCEPT ![Version(w)][Artifacts[ses[w].art]] = Mine(w)]
  BY DEF PublishUpload
<1>6. UNCHANGED <<vstatus, sums, ses, conn>>
  BY DEF PublishUpload, versions
<1> DEFINE V == Version(w)  A == Artifacts[ses[w].art]  M == Mine(w)
<1>7. V \in Versions /\ A \in Names /\ object' = [object EXCEPT ![V][A] = M]
  BY <1>1, <1>3, <1>5
<1> HIDE DEF V, A, M
<1>8. /\ object'[V][A] = M
      /\ \A a \in Names : a # A => object'[V][a] = object[V][a]
      /\ \A v \in Versions : v # V => object'[v] = object[v]
  BY <1>4, <1>7
<1> QED  BY <1>1, <1>2, <1>3, <1>6, <1>8 DEF V, A, M

(* A worker other than the one that takes the step: either it is not in a  *)
(* sync, or the step is not one of a sync.                                 *)
LEMMA PublishOthers ==
    ASSUME SyncInv, PublishInv, MaxLost = 0, NEW w \in Workers, NEW u \in Workers, u # w,
           Work(w) \/ Crash(w)
    PROVE  OwnPublish(u)'
<1>1. pc'[u] = pc[u] /\ conn'[u] = conn[u] /\ conn[u] /\ conn[w] /\ OwnPublish(u)
  BY OthersKept DEF Kept, SyncInv, PublishInv, OwnPublish
<1>2. CASE pc[u] \notin Syncing
  BY <1>1, <1>2 DEF OwnPublish, Syncing, BeforePublish
<1>3. CASE pc[u] \in Syncing
  <2>1. pc[w] \notin Syncing
    BY <1>1, <1>3, OneHolder DEF SyncInv
  <2>2. ses'[u] = ses[u] /\ object' = object
    <3>1. ses \in [Workers -> SessionType]
      BY DEF SyncInv, TypeOK, WorkerType
    <3>2. Start(w) \/ QueueDue(w) \/ ListQueued(w) \/ Sleep(w) \/ Acquire(w) \/ Crash(w)
      BY <2>1 DEF Work, Claim, Fetch, Skip, Attempt, Heartbeat, AfterBeat, Extract, Bundle,
         PublishCheck, PublishUpload, PublishVerify, Promote, Close, FailRun, FailVersion,
         Disconnected, Syncing, Database
    <3> QED
      BY <3>1, <3>2 DEF Start, QueueDue, ListQueued, Sleep, Acquire, Crash, Exit
  <2>3. Version(u)' = Version(u) /\ Stored(u)' = Stored(u) /\ \A a \in Names : BytesOf(u, a)' = BytesOf(u, a)
    BY <2>2 DEF Version, Stored, BytesOf
  <2>4. \A i \in 1..Len(Artifacts) : Artifacts[i] \in Names
    BY DEF Names
  <2> QED
    BY <1>1, <2>2, <2>3, <2>4 DEF OwnPublish
<1> QED  BY <1>2, <1>3

(* The worker that takes the step.                                         *)
LEMMA PublishOwn ==
    ASSUME SyncInv, PublishInv, MaxLost = 0, NEW w \in Workers, Work(w) \/ Crash(w)
    PROVE  OwnPublish(w)'
<1> USE DEF Goto
<1>o. OwnPublish(w)
  BY DEF PublishInv, OwnPublish
<1>w. /\ pc \in [Workers -> Syncing \cup {"down", "poll", "list", "work"}]
      /\ conn \in [Workers -> BOOLEAN] /\ ses \in [Workers -> SessionType]
  BY DEF SyncInv, TypeOK, WorkerType
<1>c. conn[w]
  BY <1>o DEF OwnPublish
<1>n. Artifacts \in Seq(STRING) /\ Len(Artifacts) \in Nat
      /\ \A i, j \in 1..Len(Artifacts) : Artifacts[i] = Artifacts[j] => i = j
  BY SyncAssumptions
<1>i. \A i \in 1..Len(Artifacts) : Artifacts[i] \in Names
  BY DEF Names
<1>a. ses[w].art \in 1..Len(Artifacts)
  BY <1>w DEF SessionType
<1>1. ASSUME conn'[w], pc'[w] \in {"down", "poll", "list", "work", "close", "fail", "fail_run"}
      PROVE  OwnPublish(w)'
  BY <1>1 DEF OwnPublish, BeforePublish
<1>2. ASSUME conn'[w], pc'[w] \in BeforePublish, ses'[w].art = 1
      PROVE  OwnPublish(w)'
  BY <1>2 DEF OwnPublish, BeforePublish
<1>3. CASE Return(w) \/ Exit(w) \/ Skip(w)
  BY <1>1, <1>3, <1>w, <1>c DEF Return, Exit, Skip
<1>4. CASE Start(w) \/ QueueDue(w) \/ ListQueued(w) \/ Sleep(w)
  <2>1. conn'[w]
    BY <1>4, <1>c DEF Start, QueueDue, ListQueued, Sleep
  <2>2. pc'[w] \in {"poll", "list", "work"}
    BY <1>4, <1>w DEF Start, QueueDue, ListQueued, Sleep
  <2> QED  BY <1>1, <2>1, <2>2
<1>5. CASE Acquire(w)
  <2>1. conn'[w]
    BY <1>5, <1>c DEF Acquire
  <2>2. pc'[w] = "work" \/ (pc'[w] = "claim" /\ ses'[w].art = 1)
    BY <1>5, <1>w DEF Acquire, NewSession
  <2> QED  BY <1>1, <1>2, <2>1, <2>2 DEF BeforePublish
<1>6. CASE Claim(w) /\ ~Return(w)
  <2>1. conn'[w] /\ ses'[w] = [ses[w] EXCEPT !.status = "running"] /\ pc[w] = "claim"
        /\ pc'[w] \in {"fetch", "fail_run"}
    BY <1>6, <1>w, <1>c DEF Claim
  <2>2. ses'[w].art = ses[w].art
    BY <2>1, <1>w, SameArtifact
  <2> QED  BY <1>1, <1>2, <1>o, <2>1, <2>2 DEF BeforePublish, OwnPublish
<1>7. CASE Fetch(w) \/ Extract(w)
  <2>1. conn'[w] /\ pc[w] \in {"fetch", "extract"}
        /\ pc'[w] \in {"resolve", "beat_bundle", "fail", "fail_run"}
    BY <1>7, <1>w, <1>c DEF Fetch, Extract, Raise
  <2>2. \/ ses'[w] = ses[w] \/ ses'[w] = [ses[w] EXCEPT !.commit = head]
        \/ \E x \in Salts : ses'[w] = [ses[w] EXCEPT !.built = x]
    BY <1>7, <1>w DEF Fetch, Extract
  <2>3. ses'[w].art = ses[w].art
    <3>1. ses[w] \in SessionType
      BY <1>w
    <3>2. ASSUME NEW x \in Salts, ses'[w] = [ses[w] EXCEPT !.built = x]
          PROVE  ses'[w].art = ses[w].art
      BY <3>1, <3>2, SameArtifact
    <3>3. CASE ses'[w] = [ses[w] EXCEPT !.commit = head]
      BY <3>1, <3>3, SameArtifact
    <3> QED  BY <2>2, <3>2, <3>3
  <2> QED  BY <1>1, <1>2, <1>o, <2>1, <2>3 DEF BeforePublish, OwnPublish
<1>8. CASE Attempt(w) \/ Bundle(w)
  <2>1. conn'[w] /\ pc[w] \in {"resolve", "bundle"} /\ ses' = ses
        /\ pc'[w] \in {"beat_extract", "beat_publish", "fail"}
    BY <1>8, <1>w, <1>c DEF Attempt, Bundle, Raise
  <2> QED  BY <1>1, <1>2, <1>o, <2>1 DEF BeforePublish, OwnPublish
<1>9. CASE Heartbeat(w) /\ ~Exit(w)
  <2>1. conn'[w] /\ pc[w] \in BeforePublish /\ ses' = ses
        /\ pc'[w] \in {"extract", "bundle", "check"}
    BY <1>9, <1>w, <1>c DEF Heartbeat, AfterBeat, BeforePublish
  <2>2. ses'[w].art = 1
    BY <1>o, <2>1 DEF OwnPublish
  <2>3. CASE pc'[w] = "check"
    <3>1. \A i \in 1..Len(Artifacts) : ~(i < ses'[w].art)
      BY <2>2
    <3> QED  BY <2>1, <2>3, <3>1 DEF OwnPublish, BeforePublish
  <2> QED  BY <1>2, <2>1, <2>2, <2>3 DEF BeforePublish
<1>10. CASE PublishCheck(w)
  <2>1. conn'[w] /\ pc[w] = "check" /\ ses' = ses /\ object' = object
        /\ pc'[w] \in {"upload", "verify", "fail"} /\ (pc'[w] = "upload" => Stored(w) = None)
    BY <1>10, <1>w, <1>c DEF PublishCheck, Raise
  <2>2. Version(w)' = Version(w) /\ Stored(w)' = Stored(w) /\ \A a \in Names : BytesOf(w, a)' = BytesOf(w, a)
    BY <2>1 DEF Version, Stored, BytesOf
  <2> QED
    BY <1>o, <1>i, <2>1, <2>2 DEF OwnPublish, BeforePublish
<1>11. CASE PublishUpload(w)
  <2>1. conn'[w] /\ pc[w] = "upload" /\ pc'[w] = "verify" /\ ses' = ses
    BY <1>11, <1>w, <1>c DEF PublishUpload
  <2>2. Version(w)' = Version(w) /\ \A a \in Names : BytesOf(w, a)' = BytesOf(w, a)
    BY <2>1 DEF Version, BytesOf
  <2>3. ASSUME NEW i \in 1..Len(Artifacts), i < ses[w].art
        PROVE  object'[Version(w)][Artifacts[i]] = BytesOf(w, Artifacts[i])
    <3>1. Artifacts[i] # Artifacts[ses[w].art]
      BY <1>n, <1>a, <2>3
    <3>2. object'[Version(w)][Artifacts[i]] = object[Version(w)][Artifacts[i]]
      BY <1>11, <1>i, <3>1, Uploaded
    <3> QED  BY <1>o, <2>1, <2>3, <3>2 DEF OwnPublish
  <2> QED
    BY <1>i, <2>1, <2>2, <2>3 DEF OwnPublish, BeforePublish
<1>12. CASE PublishVerify(w)
  <2>1. conn'[w] /\ pc[w] = "verify" /\ object' = object /\ pc'[w] \in {"check", "promote", "fail"}
    BY <1>12, <1>w, <1>c DEF PublishVerify, Advance, Raise
  <2>2. ses'[w] = ses[w] \/ ses'[w] = [ses[w] EXCEPT !.art = @ + 1]
    BY <1>12, <1>w DEF PublishVerify, Advance
  <2>3. /\ ses'[w].src = ses[w].src /\ ses'[w].commit = ses[w].commit
        /\ ses'[w].built = ses[w].built
    BY <2>2, <1>w, NextArtifact
  <2>4. Version(w)' = Version(w) /\ \A a \in Names : BytesOf(w, a)' = BytesOf(w, a)
    BY <2>3 DEF Version, BytesOf
  <2>5. ASSUME pc'[w] # "fail", NEW i \in 1..Len(Artifacts), i < ses[w].art + 1
        PROVE  object[Version(w)][Artifacts[i]] = BytesOf(w, Artifacts[i])
    <3>1. object[Version(w)][Artifacts[ses[w].art]] = BytesOf(w, Artifacts[ses[w].art])
      BY <1>12, <1>w, <2>5 DEF PublishVerify, Raise, Stored, Mine
    <3>2. i < ses[w].art \/ i = ses[w].art
      BY <1>a, <2>5
    <3> QED  BY <1>o, <2>1, <3>1, <3>2 DEF OwnPublish
  <2>6. CASE pc'[w] = "promote"
    <3>1. ses[w].art = Len(Artifacts)
      BY <1>12, <1>w, <2>6 DEF PublishVerify, Advance, Raise
    <3>2. ASSUME NEW a \in Names PROVE object[Version(w)][a] = BytesOf(w, a)
      <4>1. PICK i \in 1..Len(Artifacts) : a = Artifacts[i]
        BY DEF Names
      <4>2. i < ses[w].art + 1
        BY <1>n, <3>1
      <4> QED  BY <2>5, <2>6, <4>1, <4>2
    <3> QED
      BY <2>1, <2>4, <2>6, <3>2 DEF OwnPublish, BeforePublish
  <2>7. CASE pc'[w] = "check"
    <3>1. ses'[w].art = ses[w].art + 1
      BY <1>12, <1>w, <2>7, SameArtifact DEF PublishVerify, Advance, Raise
    <3> QED
      BY <1>i, <2>1, <2>4, <2>5, <2>7, <3>1 DEF OwnPublish, BeforePublish
  <2> QED  BY <1>1, <2>1, <2>6, <2>7
<1>13. CASE Promote(w) \/ (Close(w) /\ ~Return(w))
  <2>1. conn'[w] /\ pc'[w] \in {"close", "fail"}
    BY <1>13, <1>w, <1>c DEF Promote, Close, Raise
  <2> QED  BY <1>1, <2>1
<1> QED
  BY <1>3, <1>4, <1>5, <1>6, <1>7, <1>8, <1>9, <1>10, <1>11, <1>12, <1>13
     DEF Work, FailRun, FailVersion, Disconnected, Crash, Claim, Close, Heartbeat

(* An upload goes to a version that is not promoted, and a promotion       *)
(* records what this worker has just stored and read back.                 *)
LEMMA IntactStep ==
    ASSUME SyncInv, PublishInv, PromotedIntact, NEW w \in Workers, Work(w) \/ Crash(w)
    PROVE  PromotedIntact'
<1>t. /\ vstatus \in [Versions -> VersionStatus]
      /\ sums \in [Versions -> [Names -> Bytes \cup {None}]]
      /\ object \in [Versions -> [Names -> Bytes \cup {None}]]
  BY DEF SyncInv, TypeOK, TableType
<1>v. pc[w] \in Fetched => Version(w) \in Versions
  BY VersionType DEF SyncInv
<1>1. CASE PublishUpload(w)
  <2>1. vstatus[Version(w)] = "running"
    <3>1. pc[w] = "upload" /\ conn[w]
      BY <1>1 DEF PublishUpload, PublishInv
    <3>2. ses[w].status = "running"
      BY <3>1 DEF SyncInv, AttemptInv, Attempting, Fetched, Syncing
    <3> QED  BY <3>1, <3>2 DEF SyncInv, AttemptInv, Attempting, Fetched, Syncing
  <2> QED  BY <1>1, <2>1, Uploaded DEF PromotedIntact
<1>2. CASE Promote(w)
  <2>1. object' = object /\ Version(w) \in Versions /\ pc[w] = "promote"
    BY <1>2, <1>v DEF Promote, Fetched, Syncing
  <2>2. sums'[Version(w)] = [a \in Names |-> BytesOf(w, a)]
    BY <1>2, <1>t, <2>1 DEF Promote
  <2>3. \A a \in Names : object[Version(w)][a] = BytesOf(w, a)
    BY <2>1 DEF PublishInv
  <2>4. object[Version(w)] = [a \in Names |-> BytesOf(w, a)]
    BY <1>t, <2>1, <2>3
  <2>5. \A v \in Versions : v # Version(w) => vstatus'[v] = vstatus[v] /\ sums'[v] = sums[v]
    BY <1>2, <1>t DEF Promote
  <2> QED  BY <2>1, <2>2, <2>4, <2>5 DEF PromotedIntact
<1>3. CASE ~PublishUpload(w) /\ ~Promote(w)
  <2>1. object' = object
    BY <1>3, OnlyUploads
  <2>2. sums' = sums /\ \A v \in Versions : vstatus'[v] = "succeeded" => vstatus[v] = "succeeded"
    <3>1. CASE Attempt(w)
      BY <3>1, <1>t DEF Attempt
    <3>2. CASE FailVersion(w)
      BY <3>2, <1>t DEF FailVersion
    <3>3. CASE ~Attempt(w) /\ ~FailVersion(w)
      BY <1>3, <3>3 DEF Work, Start, QueueDue, ListQueued, Sleep, Acquire, Claim, Fetch, Skip,
         Heartbeat, Extract, Bundle, PublishCheck, PublishVerify, Close, FailRun,
         Disconnected, Crash, versions
    <3> QED  BY <3>1, <3>2, <3>3
  <2> QED  BY <2>1, <2>2 DEF PromotedIntact
<1> QED  BY <1>1, <1>2, <1>3

(* The manifest is the last artifact: an upload of it finds the others of  *)
(* this extraction, and an upload of another one finds no manifest.        *)
LEMMA ManifestStep ==
    ASSUME SyncInv, PublishInv, ManifestComplete, NEW w \in Workers, Work(w) \/ Crash(w)
    PROVE  ManifestComplete'
<1>1. CASE PublishUpload(w)
  <2> DEFINE V == Version(w)  A == Artifacts[ses[w].art]
  <2>n. Artifacts \in Seq(STRING) /\ Len(Artifacts) \in Nat \ {0}
        /\ \A i, j \in 1..Len(Artifacts) : Artifacts[i] = Artifacts[j] => i = j
    BY SyncAssumptions
  <2>1. pc[w] = "upload" /\ object[V][A] = None
    BY <1>1 DEF PublishUpload, PublishInv, Stored
  <2>2. /\ V \in Versions /\ ses[w].art \in 1..Len(Artifacts) /\ A \in Names
        /\ object'[V][A] = <<IF A = Manifest THEN ses[w].src.ident ELSE None, ses[w].built>>
        /\ \A a \in Names : a # A => object'[V][a] = object[V][a]
        /\ \A v \in Versions : v # V => object'[v] = object[v]
    BY <1>1, Uploaded DEF Mine, BytesOf
  <2>3. Manifest \in Names
    BY <2>n DEF Manifest, Names
  <2>4. CASE A = Manifest
    <3>1. ses[w].art = Len(Artifacts)
      BY <2>n, <2>2, <2>4 DEF Manifest
    <3>2. ASSUME NEW a \in Names \ {Manifest} PROVE object'[V][a] = <<None, ses[w].built>>
      <4>1. PICK i \in 1..Len(Artifacts) : a = Artifacts[i]
        BY DEF Names
      <4>2. i < ses[w].art
        BY <2>n, <3>1, <4>1, <3>2 DEF Manifest
      <4>3. object[V][a] = BytesOf(w, a)
        BY <2>1, <4>1, <4>2 DEF PublishInv
      <4> QED  BY <2>2, <2>4, <4>3 DEF BytesOf
    <3>3. object'[V][Manifest][2] = ses[w].built
      BY <2>2, <2>4
    <3> QED  BY <2>2, <3>2, <3>3 DEF ManifestComplete
  <2>5. CASE A # Manifest
    <3>1. object[V][Manifest] = None
      <4>1. ASSUME object[V][Manifest] # None PROVE FALSE
        <5>1. object[V][A] = <<None, object[V][Manifest][2]>>
          BY <2>2, <2>5, <4>1 DEF ManifestComplete
        <5>2. object[V][Manifest] \in Bytes
          BY <2>2, <2>3, <4>1 DEF SyncInv, TypeOK, TableType
        <5>3. object[V][Manifest][2] \in Salts
          BY <5>2 DEF Bytes
        <5>4. object[V][A] \in (Idents \cup {None}) \X Salts
          BY <5>1, <5>3
        <5> QED  BY <2>1, <5>4, SyncAssumptions
      <4> QED  BY <4>1
    <3>2. object'[V][Manifest] = None
      BY <2>2, <2>3, <2>5, <3>1
    <3> QED  BY <2>2, <3>2 DEF ManifestComplete
  <2> QED  BY <2>4, <2>5
<1>2. CASE ~PublishUpload(w)
  BY <1>2, OnlyUploads DEF ManifestComplete
<1> QED  BY <1>1, <1>2

(* What is published, while no connection is lost.                         *)
BucketInv == PublishInv /\ PromotedIntact /\ ManifestComplete

LEMMA BucketInit == Init => BucketInv
<1> SUFFICES ASSUME Init PROVE BucketInv
  OBVIOUS
<1>1. PublishInv /\ PromotedIntact
  BY DEF Init, PublishInv, PromotedIntact, BeforePublish
<1>2. Manifest \in Names
  BY SyncAssumptions DEF Manifest, Names
<1>3. ManifestComplete
  BY <1>2 DEF Init, ManifestComplete
<1> QED  BY <1>1, <1>3 DEF BucketInv

LEMMA BucketStep ==
    ASSUME MaxLost = 0, SyncInv, BucketInv, [Next]_vars
    PROVE  BucketInv'
<1> USE DEF BucketInv
<1>1. ASSUME NEW w \in Workers, Work(w) \/ Crash(w) PROVE BucketInv'
  <2>1. PublishInv'
    BY <1>1, PublishOthers, PublishOwn DEF PublishInv, OwnPublish
  <2> QED  BY <1>1, <2>1, IntactStep, ManifestStep
<1>2. ASSUME NEW w \in Workers PROVE ~LoseConnection(w)
  BY DEF LoseConnection, SyncInv, TypeOK, TableType
<1>3. CASE Requests \/ (\E r \in Runs : HeartbeatExpires(r)) \/ UNCHANGED vars
  <2>1. UNCHANGED <<vstatus, sums, object, pc, conn, ses>>
    BY <1>3 DEF Requests, ManualCheck, ManualInsert, EditSource, MoveRef, HeartbeatExpires,
       vars, worker, versions
  <2>2. PublishInv'
    <3>1. ASSUME NEW w \in Workers
          PROVE  /\ Version(w)' = Version(w) /\ Stored(w)' = Stored(w)
                 /\ \A a : BytesOf(w, a)' = BytesOf(w, a)
      BY <2>1 DEF Version, Stored, BytesOf
    <3> QED  BY <2>1, <3>1 DEF PublishInv
  <2>3. PromotedIntact' /\ ManifestComplete'
    BY <2>1 DEF PromotedIntact, ManifestComplete
  <2> QED  BY <2>2, <2>3
<1> QED  BY <1>1, <1>2, <1>3 DEF Next

(* The bucket invariant is inductive when no connection is lost.           *)
THEOREM Bucket == ASSUME MaxLost = 0 PROVE Spec => []BucketInv
<1>1. SyncInv /\ BucketInv /\ [Next]_vars => BucketInv'
  BY BucketStep
<1> QED  BY <1>1, BucketInit, Sync, PTL DEF Spec

(* The objects of a promoted version are the ones its checksums record,    *)
(* for any number of workers, artifacts, attempts and crashes.             *)
THEOREM PromotedIntactHolds == ASSUME MaxLost = 0 PROVE Spec => []PromotedIntact
<1>1. BucketInv => PromotedIntact
  BY DEF BucketInv
<1> QED  BY <1>1, Bucket, PTL

(* A manifest lies only beside the complete set of artifacts of the        *)
(* extraction it describes.                                                *)
THEOREM ManifestCompleteHolds == ASSUME MaxLost = 0 PROVE Spec => []ManifestComplete
<1>1. BucketInv => ManifestComplete
  BY DEF BucketInv
<1> QED  BY <1>1, Bucket, PTL
=============================================================================
