------------------------- MODULE AlertIntake_Proofs -------------------------
(***************************************************************************)
(* Proofs about AlertIntake for every number of messages, keys, tasks and  *)
(* concurrent callbacks: no acknowledged message is missing from the task  *)
(* table, and nothing that was merged is overwritten.                      *)
(***************************************************************************)
EXTENDS AlertIntake, SumTheorems, TLAPS

USE IntakeAssumptions

(* The empty metadata is a metadata value. *)
LEMMA EmptyMetadata ==
    /\ NoAlerts \in [Msgs -> Nat]
    /\ NoMetadata \in [alerts : [Msgs -> Nat], count : Nat]
  BY DEF NoAlerts, NoMetadata

(* Every initial state satisfies the inductive invariant. *)
LEMMA InitIntake == Init => IntakeInv
<1> SUFFICES ASSUME Init PROVE IntakeInv
  OBVIOUS
<1>1. TypeOK
  <2>1. TableType
    BY EmptyMetadata DEF Init, TableType, TaskStatus
  <2>2. HandlerType
    BY EmptyMetadata DEF Init, HandlerType
  <2>3. WorldType
    <3>1. paused \in BOOLEAN
      BY Zenon DEF Init
    <3> QED  BY <3>1 DEF Init, WorldType
  <2> QED
    BY <2>1, <2>2, <2>3 DEF TypeOK
<1>2. KeyLockInv /\ SnapshotFresh /\ AckedIsRecorded
  BY DEF Init, KeyLockInv, SnapshotFresh, AckedIsRecorded
<1>3. \A h \in Handlers : pc[h] # "ack"
  BY DEF Init
<1> QED
  BY <1>1, <1>2, <1>3 DEF IntakeInv

(* Type correctness is preserved by every step. *)
LEMMA IntakeType == TypeOK /\ [Next]_vars => TypeOK'
<1> SUFFICES ASSUME TypeOK, [Next]_vars PROVE TypeOK'
  OBVIOUS
<1> USE DEF TypeOK, TaskStatus, Fault
<1>1. ASSUME NEW h \in Handlers, NEW m \in Msgs, Receive(h, m) PROVE TypeOK'
  <2>1. HandlerType'
    <3>1. CASE m \in Ignored
      BY <1>1, <3>1 DEF Receive, HandlerType, handler
    <3>2. CASE m \notin Ignored
      <4>1. /\ pc' = [pc EXCEPT ![h] = "admit"] /\ cur' = [cur EXCEPT ![h] = m]
            /\ UNCHANGED <<start, found, snap, keylock>>
        BY <1>1, <3>2 DEF Receive
      <4>2. \A g \in Handlers : pc'[g] # "idle" => cur'[g] \in Msgs
        BY <4>1 DEF HandlerType
      <4> QED  BY <4>1, <4>2 DEF HandlerType
    <3> QED  BY <3>1, <3>2
  <2>2. TableType' /\ WorldType'
    BY <1>1 DEF Receive, TableType, WorldType, table
  <2> QED  BY <2>1, <2>2
<1>2. ASSUME NEW h \in Handlers, AdmitMessage(h) PROVE TypeOK'
  <2>1. HandlerType'
    <3>1. CASE Leave(h)
      BY <3>1, EmptyMetadata DEF Leave, HandlerType
    <3>2. CASE ~Leave(h)
      <4>1. /\ pc' = [pc EXCEPT ![h] = "lock"] /\ start' = [start EXCEPT ![h] = clock]
            /\ UNCHANGED <<cur, found, snap, keylock>> /\ pc[h] = "admit"
        BY <1>2, <3>2 DEF AdmitMessage
      <4>2. \A g \in Handlers : pc'[g] # "idle" => cur'[g] \in Msgs
        BY <4>1 DEF HandlerType
      <4> QED  BY <4>1, <4>2 DEF HandlerType, WorldType
    <3> QED  BY <3>1, <3>2
  <2>2. TableType'
    BY <1>2 DEF AdmitMessage, Nack, Leave, HandlerType, TableType, table
  <2>3. WorldType'
    <3>1. msg' \in [Msgs -> {"outstanding", "leased", "acked"}]
      BY <1>2 DEF AdmitMessage, Nack, WorldType
    <3>2. UNCHANGED <<clock, paused, merged, faults>>
      BY <1>2 DEF AdmitMessage
    <3> QED  BY <3>1, <3>2 DEF WorldType
  <2> QED  BY <2>1, <2>2, <2>3
<1>3. ASSUME NEW h \in Handlers, LockKey(h) PROVE TypeOK'
  <2>1. HandlerType'
    BY <1>3, EmptyMetadata DEF LockKey, HandlerType, TableType, WorldType
  <2>2. TableType'
    BY <1>3 DEF LockKey, HandlerType, TableType, table
  <2>3. WorldType'
    BY <1>3 DEF LockKey, HandlerType, WorldType
  <2> QED  BY <2>1, <2>2, <2>3
<1>4. ASSUME NEW h \in Handlers, Lookup(h) PROVE TypeOK'
  <2>1. HandlerType'
    <3>1. CASE Candidates(h) = {}
      BY <1>4, <3>1 DEF Lookup, Latest, HandlerType
    <3>2. CASE Candidates(h) # {}
      <4> PICK t \in Tasks :
             /\ found' = [found EXCEPT ![h] = t]
             /\ snap' = [snap EXCEPT ![h] = [alerts |-> alerts[t], count |-> count[t]]]
        BY <1>4, <3>2 DEF Lookup, Latest, Candidates
      <4>1. [alerts |-> alerts[t], count |-> count[t]] \in [alerts : [Msgs -> Nat], count : Nat]
        BY DEF TableType
      <4>2. /\ found' \in [Handlers -> Tasks \cup {None}]
            /\ snap' \in [Handlers -> [alerts : [Msgs -> Nat], count : Nat]]
        BY <4>1 DEF HandlerType
      <4> QED  BY <1>4, <4>2 DEF Lookup, HandlerType
    <3> QED  BY <3>1, <3>2
  <2>2. TableType'
    BY <1>4 DEF Lookup, Latest, Candidates, HandlerType, TableType, table
  <2>3. WorldType'
    BY <1>4 DEF Lookup, Latest, Candidates, HandlerType, WorldType
  <2> QED  BY <2>1, <2>2, <2>3
<1>5. ASSUME NEW h \in Handlers, MergeIntoExisting(h) PROVE TypeOK'
  <2>1. HandlerType'
    BY <1>5, EmptyMetadata DEF MergeIntoExisting, Committed, HandlerType, TableType, WorldType
  <2>2. TableType'
    BY <1>5 DEF MergeIntoExisting, Committed, HandlerType, TableType, table
  <2>3. WorldType'
    BY <1>5 DEF MergeIntoExisting, Committed, HandlerType, WorldType
  <2> QED  BY <2>1, <2>2, <2>3
<1>6. ASSUME NEW h \in Handlers, MergeIntoDeleted(h) PROVE TypeOK'
  <2>1. HandlerType'
    BY <1>6, EmptyMetadata DEF MergeIntoDeleted, Nack, Leave, HandlerType, TableType, WorldType
  <2>2. TableType'
    BY <1>6 DEF MergeIntoDeleted, Nack, Leave, HandlerType, TableType, table
  <2>3. WorldType'
    BY <1>6 DEF MergeIntoDeleted, Nack, Leave, HandlerType, WorldType
  <2> QED  BY <2>1, <2>2, <2>3
<1>7. ASSUME NEW h \in Handlers, InsertTask(h) PROVE TypeOK'
  <2>1. HandlerType'
    BY <1>7, EmptyMetadata DEF InsertTask, Committed, HandlerType, TableType, WorldType
  <2>2. TableType'
    BY <1>7 DEF InsertTask, Committed, HandlerType, TableType, table
  <2>3. WorldType'
    BY <1>7 DEF InsertTask, Committed, HandlerType, WorldType
  <2> QED  BY <2>1, <2>2, <2>3
<1>8. ASSUME NEW h \in Handlers, Ack(h) PROVE TypeOK'
  <2>1. HandlerType'
    BY <1>8, EmptyMetadata DEF Ack, Leave, HandlerType, TableType, WorldType
  <2>2. TableType'
    BY <1>8 DEF Ack, Leave, HandlerType, TableType, table
  <2>3. WorldType'
    BY <1>8 DEF Ack, Leave, HandlerType, WorldType
  <2> QED  BY <2>1, <2>2, <2>3
<1>9. ASSUME NEW h \in Handlers, Fail(h) PROVE TypeOK'
  <2>1. HandlerType'
    BY <1>9, EmptyMetadata DEF Fail, Nack, Leave, HandlerType, TableType, WorldType
  <2>2. TableType'
    BY <1>9 DEF Fail, Nack, Leave, HandlerType, TableType, table
  <2>3. WorldType'
    BY <1>9 DEF Fail, Nack, Leave, HandlerType, WorldType
  <2> QED  BY <2>1, <2>2, <2>3
<1>10. ASSUME NEW m \in Msgs, LeaseExpires(m) PROVE TypeOK'
  BY <1>10 DEF LeaseExpires, TableType, HandlerType, WorldType, table, handler
<1>11. ASSUME NEW t \in Tasks, TaskEnds(t) \/ RerunTask(t) \/ DeleteTask(t) PROVE TypeOK'
  <2>1. HandlerType' /\ WorldType'
    BY <1>11 DEF TaskEnds, RerunTask, DeleteTask, HandlerType, WorldType, handler
  <2>2. TableType'
    BY <1>11 DEF TaskEnds, RerunTask, DeleteTask, TableType
  <2> QED  BY <2>1, <2>2
<1>12. CASE Tick \/ SetPaused
  <2>1. TableType' /\ HandlerType'
    BY <1>12 DEF Tick, SetPaused, TableType, HandlerType, table, handler
  <2>2. WorldType'
    <3>1. paused' \in BOOLEAN
      BY <1>12, Zenon DEF Tick, SetPaused, WorldType
    <3> QED  BY <1>12, <3>1 DEF Tick, SetPaused, WorldType
  <2> QED  BY <2>1, <2>2
<1>13. CASE UNCHANGED vars
  BY <1>13 DEF vars, TableType, HandlerType, WorldType, table, handler
<1> QED
  BY <1>1, <1>2, <1>3, <1>4, <1>5, <1>6, <1>7, <1>8, <1>9, <1>10, <1>11, <1>12,
     <1>13 DEF Next, Work

(* The lock of a key and the metadata read under it stay valid until the   *)
(* callback commits.                                                       *)
LEMMA LockStep == TypeOK /\ KeyLockInv /\ [Next]_vars => KeyLockInv'
<1> SUFFICES ASSUME TypeOK, KeyLockInv, [Next]_vars,
                    NEW g \in Handlers, pc'[g] \in {"lookup", "write"}
             PROVE  keylock'[KeyOf[cur'[g]]] = g
  BY DEF KeyLockInv
<1> USE DEF TypeOK, HandlerType, KeyLockInv
<1>1. ASSUME NEW h \in Handlers,
             \/ \E m \in Msgs : Receive(h, m)
             \/ Work(h)
             \/ Fail(h)
      PROVE  keylock'[KeyOf[cur'[g]]] = g
  <2>1. CASE \E m \in Msgs : Receive(h, m)
    BY <2>1 DEF Receive, handler
  <2>2. CASE Leave(h)
    BY <2>2 DEF Leave
  <2>3. CASE AdmitMessage(h) /\ ~Leave(h)
    BY <2>3 DEF AdmitMessage
  <2>4. CASE LockKey(h)
    BY <2>4 DEF LockKey
  <2>5. CASE Lookup(h)
    BY <2>5 DEF Lookup
  <2>6. CASE MergeIntoExisting(h) \/ InsertTask(h)
    BY <2>6 DEF MergeIntoExisting, InsertTask, Committed
  <2> QED
    BY <1>1, <2>1, <2>2, <2>3, <2>4, <2>5, <2>6 DEF Work, Fail, Ack, MergeIntoDeleted
<1>2. ASSUME NEW m \in Msgs, LeaseExpires(m) PROVE UNCHANGED <<pc, cur, keylock>>
  BY <1>2 DEF LeaseExpires, handler
<1>3. ASSUME NEW t \in Tasks, TaskEnds(t) \/ RerunTask(t) \/ DeleteTask(t)
      PROVE  UNCHANGED <<pc, cur, keylock>>
  BY <1>3 DEF TaskEnds, RerunTask, DeleteTask, handler
<1>4. CASE Tick \/ SetPaused \/ UNCHANGED vars
  BY <1>4 DEF Tick, SetPaused, vars, handler
<1> QED
  BY <1>1, <1>2, <1>3, <1>4 DEF Next

(* What a lookup read is still in the row when its callback writes: two    *)
(* callbacks between lookup and write have different keys.                 *)
LEMMA SnapshotStep ==
    TypeOK /\ KeyLockInv /\ SnapshotFresh /\ [Next]_vars => SnapshotFresh'
<1> DEFINE Fresh(g) == /\ status[found[g]] # "absent"
                       /\ key[found[g]] = KeyOf[cur[g]]
                       /\ snap[g] = [alerts |-> alerts[found[g]], count |-> count[found[g]]]
<1> SUFFICES ASSUME TypeOK, KeyLockInv, SnapshotFresh, [Next]_vars,
                    NEW g \in Handlers, pc'[g] = "write", found'[g] # None
             PROVE  Fresh(g)'
  BY DEF SnapshotFresh
<1> USE DEF TypeOK, HandlerType, TableType, TaskStatus
<1>0. pc[g] = "write" /\ found[g] # None => found[g] \in Tasks /\ Fresh(g)
  BY DEF SnapshotFresh
<1>1. ASSUME NEW h \in Handlers,
             \/ \E m \in Msgs : Receive(h, m)
             \/ Work(h)
             \/ Fail(h)
      PROVE  Fresh(g)'
  <2>1. CASE \E m \in Msgs : Receive(h, m)
    BY <2>1, <1>0, ZenonT(60) DEF Receive, handler, table
  <2>2. CASE Leave(h) /\ UNCHANGED table
    BY <2>2, <1>0 DEF Leave, table
  <2>3. CASE AdmitMessage(h) /\ ~Leave(h)
    BY <2>3, <1>0 DEF AdmitMessage, table
  <2>4. CASE LockKey(h)
    BY <2>4, <1>0 DEF LockKey, table
  <2>5. CASE Lookup(h)
    <3>1. CASE g # h
      BY <2>5, <3>1, <1>0 DEF Lookup, table
    <3>2. CASE g = h /\ Candidates(h) # {}
      <4> PICK t \in Candidates(h) :
             /\ found' = [found EXCEPT ![h] = t]
             /\ snap' = [snap EXCEPT ![h] = [alerts |-> alerts[t], count |-> count[t]]]
        BY <2>5, <3>2 DEF Lookup, Latest
      <4>1. t \in Tasks /\ status[t] = "active" /\ key[t] = KeyOf[cur[h]]
        BY DEF Candidates
      <4>2. found'[h] = t /\ snap'[h] = [alerts |-> alerts[t], count |-> count[t]]
        OBVIOUS
      <4>3. UNCHANGED <<status, key, alerts, count, cur>>
        BY <2>5 DEF Lookup, table
      <4> QED  BY <3>2, <4>1, <4>2, <4>3
    <3>3. CASE g = h /\ Candidates(h) = {}
      BY <2>5, <3>3 DEF Lookup, Latest
    <3> QED  BY <3>1, <3>2, <3>3
  <2>6. CASE MergeIntoExisting(h)
    <3>1. g # h /\ pc[g] = "write" /\ found[g] # None /\ pc[h] = "write" /\ found[h] # None
      BY <2>6 DEF MergeIntoExisting, Committed
    <3>2. key[found[h]] = KeyOf[cur[h]] /\ found[h] \in Tasks
      BY <3>1 DEF SnapshotFresh
    <3>3. found[g] # found[h]
      BY <3>1, <3>2, <1>0 DEF KeyLockInv
    <3> QED  BY <2>6, <3>1, <3>2, <3>3, <1>0 DEF MergeIntoExisting, Committed
  <2>7. CASE InsertTask(h)
    <3>1. g # h /\ pc[g] = "write" /\ found[g] # None
      BY <2>7 DEF InsertTask, Committed
    <3> QED  BY <2>7, <3>1, <1>0 DEF InsertTask, Committed
  <2> QED
    BY <1>1, <2>1, <2>2, <2>3, <2>4, <2>5, <2>6, <2>7 DEF Work, Fail, Ack, AdmitMessage, MergeIntoDeleted
<1>2. ASSUME NEW m \in Msgs, LeaseExpires(m) PROVE Fresh(g)'
  BY <1>2, <1>0 DEF LeaseExpires, handler, table
<1>3. ASSUME NEW t \in Tasks, TaskEnds(t) \/ RerunTask(t) \/ DeleteTask(t)
      PROVE  Fresh(g)'
  BY <1>3, <1>0 DEF TaskEnds, RerunTask, DeleteTask, handler
<1>4. CASE Tick \/ SetPaused \/ UNCHANGED vars
  BY <1>4, <1>0 DEF Tick, SetPaused, vars, handler, table
<1> QED
  BY <1>1, <1>2, <1>3, <1>4 DEF Next

(* No step takes an alert out of the metadata of a task.                   *)
LEMMA AlertsGrow ==
    ASSUME TypeOK, SnapshotFresh, [Next]_vars
    PROVE  \A t \in Tasks, m \in Msgs : alerts[t][m] > 0 => alerts'[t][m] > 0
<1> USE DEF TypeOK, HandlerType, TableType
<1>1. ASSUME NEW h \in Handlers, MergeIntoExisting(h)
      PROVE  \A t \in Tasks, m \in Msgs : alerts[t][m] > 0 => alerts'[t][m] > 0
  <2>1. found[h] \in Tasks /\ cur[h] \in Msgs /\ snap[h].alerts = alerts[found[h]]
    BY <1>1 DEF MergeIntoExisting, SnapshotFresh
  <2>2. alerts' = [alerts EXCEPT ![found[h]] = [alerts[found[h]] EXCEPT ![cur[h]] = @ + 1]]
    BY <1>1, <2>1 DEF MergeIntoExisting
  <2> QED  BY <2>1, <2>2
<1>2. ASSUME NEW h \in Handlers, InsertTask(h)
      PROVE  \A t \in Tasks, m \in Msgs : alerts[t][m] > 0 => alerts'[t][m] > 0
  BY <1>2 DEF InsertTask
<1>3. ASSUME ~ \E h \in Handlers : MergeIntoExisting(h) \/ InsertTask(h)
      PROVE  UNCHANGED alerts
  BY <1>3 DEF Next, Work, Receive, AdmitMessage, LockKey, Lookup, MergeIntoDeleted,
     Ack, Fail, LeaseExpires, TaskEnds, RerunTask, DeleteTask, Tick, SetPaused, vars, table
<1> QED
  BY <1>1, <1>2, <1>3

(* A message becomes acknowledged only in Receive, when the filter rejects *)
(* it, and in Ack; a callback is about to acknowledge only after a commit. *)
LEMMA AckStep == IntakeInv /\ [Next]_vars =>
    /\ \A h \in Handlers : pc'[h] = "ack" => \E t \in Tasks : alerts'[t][cur'[h]] > 0
    /\ AckedIsRecorded'
<1> SUFFICES ASSUME IntakeInv, [Next]_vars
    PROVE  /\ \A h \in Handlers : pc'[h] = "ack" => \E t \in Tasks : alerts'[t][cur'[h]] > 0
           /\ AckedIsRecorded'
  OBVIOUS
<1> USE DEF TypeOK, HandlerType, TableType, WorldType
<1>0. /\ TypeOK /\ SnapshotFresh
      /\ \A t \in Tasks, m \in Msgs : alerts[t][m] > 0 => alerts'[t][m] > 0
  BY AlertsGrow DEF IntakeInv
<1>1. ASSUME NEW g \in Handlers, pc'[g] = "ack"
      PROVE  \E t \in Tasks : alerts'[t][cur'[g]] > 0
  <2>1. CASE MergeIntoExisting(g)
    <3>1. found[g] \in Tasks /\ cur[g] \in Msgs /\ snap[g].alerts = alerts[found[g]]
      BY <2>1, <1>0 DEF MergeIntoExisting, SnapshotFresh
    <3>2. alerts'[found[g]][cur[g]] = alerts[found[g]][cur[g]] + 1 /\ cur' = cur
      BY <2>1, <3>1, <1>0 DEF MergeIntoExisting, Committed
    <3>3. alerts[found[g]][cur[g]] \in Nat
      BY <3>1, <1>0
    <3> QED  BY <3>1, <3>2, <3>3
  <2>2. CASE InsertTask(g)
    BY <2>2, <1>0 DEF InsertTask, Committed
  <2>3. CASE ~MergeIntoExisting(g) /\ ~InsertTask(g)
    <3> DEFINE Was == pc[g] = "ack" /\ cur'[g] = cur[g] /\ cur[g] \in Msgs
    <3>1. Was
      <4>1. ASSUME NEW h \in Handlers, NEW k \in Msgs, Receive(h, k) PROVE Was
        BY <4>1, <1>0, <1>1, <2>3 DEF Receive, handler
      <4>2. ASSUME NEW h \in Handlers, AdmitMessage(h) PROVE Was
        BY <4>2, <1>0, <1>1, <2>3 DEF AdmitMessage, Leave, Nack
      <4>3. ASSUME NEW h \in Handlers, LockKey(h) \/ Lookup(h) PROVE Was
        BY <4>3, <1>0, <1>1, <2>3 DEF LockKey, Lookup
      <4>4. ASSUME NEW h \in Handlers, MergeIntoExisting(h) \/ InsertTask(h) PROVE Was
        <5>1. h # g /\ pc' = [pc EXCEPT ![h] = "ack"] /\ cur' = cur
          BY <4>4, <2>3 DEF MergeIntoExisting, InsertTask, Committed
        <5> QED  BY <5>1, <1>0, <1>1
      <4>5. ASSUME NEW h \in Handlers, MergeIntoDeleted(h) \/ Fail(h) PROVE Was
        BY <4>5, <1>0, <1>1, <2>3 DEF MergeIntoDeleted, Fail, Leave, Nack
      <4>6. ASSUME NEW h \in Handlers, Ack(h) PROVE Was
        BY <4>6, <1>0, <1>1, <2>3 DEF Ack, Leave
      <4>7. ASSUME NEW k \in Msgs, LeaseExpires(k) PROVE Was
        BY <4>7, <1>0, <1>1, <2>3 DEF LeaseExpires, handler
      <4>8. ASSUME NEW t \in Tasks, TaskEnds(t) \/ RerunTask(t) \/ DeleteTask(t) PROVE Was
        BY <4>8, <1>0, <1>1, <2>3 DEF TaskEnds, RerunTask, DeleteTask, handler
      <4>9. CASE Tick \/ SetPaused \/ UNCHANGED vars
        BY <4>9, <1>0, <1>1, <2>3 DEF Tick, SetPaused, vars, handler
      <4> QED
        BY <4>1, <4>2, <4>3, <4>4, <4>5, <4>6, <4>7, <4>8, <4>9 DEF Next, Work
    <3> QED  BY <3>1, <1>0 DEF IntakeInv
  <2> QED  BY <2>1, <2>2, <2>3
<1>2. ASSUME NEW m \in Msgs \ Ignored, msg'[m] = "acked"
      PROVE  \E t \in Tasks : alerts'[t][m] > 0
  <2>1. CASE msg[m] = "acked"
    BY <2>1, <1>0 DEF IntakeInv, AckedIsRecorded
  <2>2. CASE msg[m] # "acked"
    <3> DEFINE Acks == \E h \in Handlers : Ack(h) /\ cur[h] = m
    <3>1. Acks
      <4>1. ASSUME NEW h \in Handlers, NEW k \in Msgs, Receive(h, k) PROVE Acks
        BY <4>1, <1>0, <1>2, <2>2 DEF Receive, handler
      <4>2. ASSUME NEW h \in Handlers, AdmitMessage(h) PROVE Acks
        BY <4>2, <1>0, <1>2, <2>2 DEF AdmitMessage, Leave, Nack
      <4>3. ASSUME NEW h \in Handlers, LockKey(h) \/ Lookup(h) PROVE Acks
        BY <4>3, <1>0, <1>2, <2>2 DEF LockKey, Lookup
      <4>4. ASSUME NEW h \in Handlers, MergeIntoExisting(h) \/ InsertTask(h) PROVE Acks
        BY <4>4, <1>0, <1>2, <2>2 DEF MergeIntoExisting, InsertTask, Committed
      <4>5. ASSUME NEW h \in Handlers, MergeIntoDeleted(h) \/ Fail(h) PROVE Acks
        BY <4>5, <1>0, <1>2, <2>2 DEF MergeIntoDeleted, Fail, Leave, Nack
      <4>6. ASSUME NEW h \in Handlers, Ack(h) PROVE Acks
        BY <4>6, <1>0, <1>2, <2>2 DEF Ack, Leave
      <4>7. ASSUME NEW k \in Msgs, LeaseExpires(k) PROVE Acks
        BY <4>7, <1>0, <1>2, <2>2 DEF LeaseExpires, handler
      <4>8. ASSUME NEW t \in Tasks, TaskEnds(t) \/ RerunTask(t) \/ DeleteTask(t) PROVE Acks
        BY <4>8, <1>0, <1>2, <2>2 DEF TaskEnds, RerunTask, DeleteTask, handler
      <4>9. CASE Tick \/ SetPaused \/ UNCHANGED vars
        BY <4>9, <1>0, <1>2, <2>2 DEF Tick, SetPaused, vars, handler
      <4> QED
        BY <4>1, <4>2, <4>3, <4>4, <4>5, <4>6, <4>7, <4>8, <4>9 DEF Next, Work
    <3> QED  BY <3>1, <1>0 DEF IntakeInv, Ack
  <2> QED  BY <2>1, <2>2
<1> QED
  BY <1>1, <1>2 DEF AckedIsRecorded

(* IntakeInv is inductive and holds in every reachable state. *)
THEOREM Intake == Spec => []IntakeInv
<1>1. IntakeInv /\ [Next]_vars => IntakeInv'
  BY IntakeType, LockStep, SnapshotStep, AckStep DEF IntakeInv
<1> QED
  BY <1>1, InitIntake, PTL DEF Spec

(* No acknowledged message is missing from the task table, for any number  *)
(* of concurrent callbacks, keys and tasks.                                *)
THEOREM AckedIsRecordedHolds == Spec => []AckedIsRecorded
<1>1. IntakeInv => AckedIsRecorded
  BY DEF IntakeInv
<1> QED
  BY <1>1, Intake, PTL

(* A task is inserted for the callback's key, at the start of its          *)
(* transaction; no other row changes its status, key or creation time.     *)
LEMMA InsertedRow ==
    ASSUME TypeOK, NEW h \in Handlers, InsertTask(h)
    PROVE  \E t \in Tasks :
              /\ status[t] = "absent" /\ status'[t] = "active"
              /\ key'[t] = KeyOf[cur[h]] /\ created'[t] = start[h]
              /\ \A u \in Tasks \ {t} :
                    status'[u] = status[u] /\ key'[u] = key[u] /\ created'[u] = created[u]
  BY DEF InsertTask, TypeOK, TableType

(* A lookup that found nothing stands until the insert.                    *)
LEMMA NothingStep ==
    TypeOK /\ KeyLockInv /\ NothingToMerge /\ [Next]_vars => NothingToMerge'
<1> SUFFICES ASSUME TypeOK, KeyLockInv, NothingToMerge, [Next]_vars,
                    NEW g \in Handlers, pc'[g] = "write", found'[g] = None,
                    NEW t \in Tasks, status'[t] = "active", key'[t] = KeyOf[cur'[g]],
                    created'[t] + Window >= start'[g]
             PROVE  rerun'[t]
  BY DEF NothingToMerge, Candidates
<1> USE DEF TypeOK, HandlerType
<1> DEFINE Same == /\ pc[g] = "write" /\ found[g] = None
                   /\ cur'[g] = cur[g] /\ start'[g] = start[g]
           Row  == /\ status[t] = "active" /\ key'[t] = key[t]
                   /\ created'[t] = created[t] /\ rerun'[t] = rerun[t]
<1>0. ASSUME Same, Row PROVE rerun'[t]
  BY <1>0 DEF NothingToMerge, Candidates
<1>1. ASSUME NEW h \in Handlers,
             \/ \E m \in Msgs : Receive(h, m)
             \/ Work(h)
             \/ Fail(h)
      PROVE  rerun'[t]
  <2>1. CASE \E m \in Msgs : Receive(h, m)
    <3>1. Same
      BY <2>1 DEF Receive, handler
    <3>2. Row
      BY <2>1 DEF Receive, table
    <3> QED  BY <3>1, <3>2, <1>0
  <2>2. CASE Leave(h) /\ UNCHANGED table
    <3>1. Same
      BY <2>2 DEF Leave
    <3>2. Row
      BY <2>2 DEF table
    <3> QED  BY <3>1, <3>2, <1>0
  <2>3. CASE (AdmitMessage(h) /\ ~Leave(h)) \/ LockKey(h)
    <3>1. Same
      BY <2>3 DEF AdmitMessage, LockKey
    <3>2. Row
      BY <2>3 DEF AdmitMessage, LockKey, table
    <3> QED  BY <3>1, <3>2, <1>0
  <2>4. CASE Lookup(h)
    <3>1. UNCHANGED <<table, cur, start>>
      BY <2>4 DEF Lookup
    <3>2. Row
      BY <3>1 DEF table
    <3>3. CASE g # h
      <4>1. Same
        BY <2>4, <3>3, <3>1 DEF Lookup
      <4> QED  BY <4>1, <3>2, <1>0
    <3>4. CASE g = h
      <4>1. Candidates(h) = {}
        <5>1. ASSUME NEW u \in Latest(Candidates(h)), found' = [found EXCEPT ![h] = u]
              PROVE  FALSE
          BY <5>1, <3>4, IntakeAssumptions DEF Latest, Candidates
        <5> QED  BY <2>4, <5>1 DEF Lookup
      <4>2. t \in Candidates(h)
        BY <3>1, <3>2, <3>4 DEF Candidates, table
      <4> QED  BY <4>1, <4>2
    <3> QED  BY <3>3, <3>4
  <2>5. CASE MergeIntoExisting(h)
    <3>1. Same
      BY <2>5 DEF MergeIntoExisting, Committed
    <3>2. Row
      BY <2>5 DEF MergeIntoExisting
    <3> QED  BY <3>1, <3>2, <1>0
  <2>6. CASE InsertTask(h)
    <3>1. Same /\ g # h
      BY <2>6 DEF InsertTask, Committed
    <3>2. KeyOf[cur[g]] # KeyOf[cur[h]]
      BY <2>6, <3>1 DEF InsertTask, KeyLockInv
    <3>3. Row
      <4>1. rerun' = rerun
        BY <2>6 DEF InsertTask
      <4> QED  BY <2>6, <3>1, <3>2, <4>1, InsertedRow
    <3> QED  BY <3>1, <3>3, <1>0
  <2> QED
    BY <1>1, <2>1, <2>2, <2>3, <2>4, <2>5, <2>6
       DEF Work, Fail, Ack, AdmitMessage, MergeIntoDeleted
<1>2. ASSUME NEW u \in Tasks, TaskEnds(u) \/ RerunTask(u) \/ DeleteTask(u)
      PROVE  rerun'[t]
  <2>1. Same
    BY <1>2 DEF TaskEnds, RerunTask, DeleteTask, handler
  <2>2. Row \/ rerun'[t]
    BY <1>2 DEF TaskEnds, RerunTask, DeleteTask, TableType
  <2> QED  BY <2>1, <2>2, <1>0
<1>3. CASE (\E m \in Msgs : LeaseExpires(m)) \/ Tick \/ SetPaused \/ UNCHANGED vars
  <2>1. Same /\ Row
    BY <1>3 DEF LeaseExpires, Tick, SetPaused, vars, handler, table
  <2> QED  BY <2>1, <1>0
<1> QED
  BY <1>1, <1>2, <1>3 DEF Next

(* Only an insert adds a pair of active tasks, and no task of its key that *)
(* is not rerun was created within a window of it, before or after.        *)
LEMMA WindowStep ==
    TypeOK /\ NothingToMerge /\ OneTaskPerWindow /\ [Next]_vars => OneTaskPerWindow'
<1> SUFFICES ASSUME TypeOK, NothingToMerge, OneTaskPerWindow, [Next]_vars,
                    NEW t \in Tasks, NEW u \in Tasks, t # u, key'[t] = key'[u],
                    status'[t] = "active", status'[u] = "active",
                    created'[t] <= created'[u], created'[u] <= created'[t] + Window
             PROVE  rerun'[t] \/ rerun'[u]
  BY DEF OneTaskPerWindow
<1> USE DEF TypeOK, TableType
<1>1. ASSUME NEW h \in Handlers, InsertTask(h) PROVE rerun'[t] \/ rerun'[u]
  <2>1. PICK n \in Tasks :
           /\ status[n] = "absent" /\ status'[n] = "active"
           /\ key'[n] = KeyOf[cur[h]] /\ created'[n] = start[h]
           /\ \A o \in Tasks \ {n} :
                 status'[o] = status[o] /\ key'[o] = key[o] /\ created'[o] = created[o]
    BY <1>1, InsertedRow
  <2>2. rerun' = rerun
    BY <1>1 DEF InsertTask
  <2>3. start[h] \in Nat /\ created[t] \in Nat /\ created[u] \in Nat /\ Window \in Nat
    BY IntakeAssumptions DEF HandlerType
  <2>4. ASSUME NEW o \in Tasks \ {n}, status[o] = "active", key[o] = KeyOf[cur[h]],
               created[o] + Window >= start[h]
        PROVE  rerun[o]
    BY <1>1, <2>4 DEF NothingToMerge, Candidates, InsertTask
  <2>5. CASE t = n
    <3>1. u \in Tasks \ {n} /\ created'[t] = start[h] /\ created'[u] = created[u]
      BY <2>1, <2>5
    <3>2. created[u] + Window >= start[h]
      BY <2>3, <3>1
    <3> QED  BY <2>1, <2>2, <2>4, <2>5, <3>1, <3>2
  <2>6. CASE u = n
    <3>1. t \in Tasks \ {n} /\ created'[u] = start[h] /\ created'[t] = created[t]
      BY <2>1, <2>6
    <3>2. created[t] + Window >= start[h]
      BY <2>3, <3>1
    <3> QED  BY <2>1, <2>2, <2>4, <2>6, <3>1, <3>2
  <2>7. CASE t # n /\ u # n
    BY <2>1, <2>2, <2>7 DEF OneTaskPerWindow
  <2> QED  BY <2>5, <2>6, <2>7
<1>2. ASSUME NEW o \in Tasks, TaskEnds(o) \/ RerunTask(o) \/ DeleteTask(o)
      PROVE  rerun'[t] \/ rerun'[u]
  <2>1. key' = key /\ created' = created
    BY <1>2 DEF TaskEnds, RerunTask, DeleteTask
  <2>2. ASSUME NEW v \in {t, u}
        PROVE  rerun'[v] \/ (status[v] = "active" /\ rerun'[v] = rerun[v])
    BY <1>2 DEF TaskEnds, RerunTask, DeleteTask
  <2> QED  BY <2>1, <2>2 DEF OneTaskPerWindow
<1>3. ASSUME ~ \E h \in Handlers : InsertTask(h),
             ~ \E o \in Tasks : TaskEnds(o) \/ RerunTask(o) \/ DeleteTask(o)
      PROVE  UNCHANGED <<status, key, created, rerun>>
  BY <1>3 DEF Next, Work, Receive, AdmitMessage, LockKey, Lookup, MergeIntoExisting,
     MergeIntoDeleted, Ack, Fail, LeaseExpires, Tick, SetPaused, vars, table
<1> QED
  BY <1>1, <1>2, <1>3 DEF OneTaskPerWindow

(* Coalescing: two active tasks of one key created within a window exist   *)
(* only when an operator put one of them back, for any number of callbacks *)
(* and however long one of them waited for the lock of its key.            *)
THEOREM OneTaskPerWindowHolds == Spec => []OneTaskPerWindow
<1> DEFINE Inv == NothingToMerge /\ OneTaskPerWindow
<1>1. Init => Inv
  BY DEF Init, NothingToMerge, OneTaskPerWindow
<1>2. IntakeInv /\ Inv /\ [Next]_vars => Inv'
  BY NothingStep, WindowStep DEF IntakeInv
<1>3. Inv => OneTaskPerWindow
  OBVIOUS
<1> HIDE DEF Inv
<1> QED
  BY <1>1, <1>2, <1>3, Intake, PTL DEF Spec

-----------------------------------------------------------------------------
(* What a commit adds.                                                     *)

(* A row that does not exist yet records nothing.                          *)
EmptyRows == \A t \in Tasks : status[t] = "absent" => alerts[t] = NoAlerts /\ count[t] = 1

(* One more alert m in the row t, and one more committed call for m; the   *)
(* count of a new row is 1 from the start.                                 *)
AddsAlert(t, m) ==
    /\ alerts' = [alerts EXCEPT ![t] = [alerts[t] EXCEPT ![m] = alerts[t][m] + 1]]
    /\ merged' = [merged EXCEPT ![m] = merged[m] + 1]
    /\ count' = IF status[t] = "absent" THEN count
                ELSE [count EXCEPT ![t] = count[t] + 1]

(* No row appears outside S.                                               *)
NoRowBut(S) == \A u \in Tasks \ S : status[u] = "absent" => status'[u] = "absent"

AddsAtMostOne ==
    \/ UNCHANGED <<alerts, count, merged>> /\ NoRowBut({})
    \/ \E t \in Tasks, m \in Msgs : AddsAlert(t, m) /\ NoRowBut({t})

LEMMA EmptyStep ==
    TypeOK /\ SnapshotFresh /\ EmptyRows /\ [Next]_vars => EmptyRows'
<1> SUFFICES ASSUME TypeOK, SnapshotFresh, EmptyRows, [Next]_vars,
                    NEW t \in Tasks, status'[t] = "absent"
             PROVE  alerts'[t] = NoAlerts /\ count'[t] = 1
  BY DEF EmptyRows
<1> USE DEF TypeOK, TableType, EmptyRows
<1>1. ASSUME NEW h \in Handlers, MergeIntoExisting(h)
      PROVE  alerts'[t] = NoAlerts /\ count'[t] = 1
  <2>1. status' = status /\ status[found[h]] # "absent"
    BY <1>1 DEF MergeIntoExisting, SnapshotFresh
  <2> QED  BY <1>1, <2>1 DEF MergeIntoExisting
<1>2. ASSUME NEW h \in Handlers, InsertTask(h)
      PROVE  alerts'[t] = NoAlerts /\ count'[t] = 1
  <2>1. PICK n \in Tasks : /\ status[n] = "absent"
                           /\ status' = [status EXCEPT ![n] = "active"]
                           /\ alerts' = [alerts EXCEPT ![n][cur[h]] = 1]
    BY <1>2 DEF InsertTask
  <2>2. count' = count /\ t # n
    BY <1>2, <2>1 DEF InsertTask
  <2> QED  BY <2>1, <2>2
<1>3. ASSUME NEW o \in Tasks, TaskEnds(o) \/ RerunTask(o) \/ DeleteTask(o)
      PROVE  alerts'[t] = NoAlerts /\ count'[t] = 1
  BY <1>3 DEF TaskEnds, RerunTask, DeleteTask
<1>4. ASSUME ~ \E h \in Handlers : MergeIntoExisting(h) \/ InsertTask(h),
             ~ \E o \in Tasks : TaskEnds(o) \/ RerunTask(o) \/ DeleteTask(o)
      PROVE  UNCHANGED <<status, alerts, count>>
  BY <1>4 DEF Next, Work, Receive, AdmitMessage, LockKey, Lookup,
     MergeIntoDeleted, Ack, Fail, LeaseExpires, Tick, SetPaused, vars, table
<1> QED
  BY <1>1, <1>2, <1>3, <1>4

(* A merge writes back the metadata the row still has, with one alert      *)
(* added; an insert writes a row that recorded nothing.                    *)
LEMMA AddsStep ==
    TypeOK /\ SnapshotFresh /\ EmptyRows /\ [Next]_vars => AddsAtMostOne
<1> SUFFICES ASSUME TypeOK, SnapshotFresh, EmptyRows, [Next]_vars PROVE AddsAtMostOne
  OBVIOUS
<1> USE DEF TypeOK, TableType, HandlerType
<1>1. ASSUME NEW h \in Handlers, MergeIntoExisting(h) PROVE AddsAtMostOne
  <2>1. /\ found[h] \in Tasks /\ cur[h] \in Msgs /\ status[found[h]] # "absent"
        /\ snap[h] = [alerts |-> alerts[found[h]], count |-> count[found[h]]]
    BY <1>1 DEF MergeIntoExisting, SnapshotFresh
  <2>2. snap[h].alerts = alerts[found[h]] /\ snap[h].count = count[found[h]]
    BY <2>1
  <2>3. alerts' = [alerts EXCEPT ![found[h]] =
                     [alerts[found[h]] EXCEPT ![cur[h]] = alerts[found[h]][cur[h]] + 1]]
    BY <1>1, <2>1, <2>2 DEF MergeIntoExisting
  <2>4. count' = [count EXCEPT ![found[h]] = count[found[h]] + 1]
    BY <1>1, <2>2 DEF MergeIntoExisting
  <2>5. merged' = [merged EXCEPT ![cur[h]] = merged[cur[h]] + 1]
    BY <1>1, <2>1 DEF MergeIntoExisting, Committed, WorldType
  <2>6. NoRowBut({found[h]})
    BY <1>1 DEF MergeIntoExisting, NoRowBut
  <2>7. AddsAlert(found[h], cur[h])
    BY <2>1, <2>3, <2>4, <2>5 DEF AddsAlert
  <2> QED  BY <2>1, <2>6, <2>7 DEF AddsAtMostOne
<1>2. ASSUME NEW h \in Handlers, InsertTask(h) PROVE AddsAtMostOne
  <2>1. PICK n \in Tasks : /\ status[n] = "absent"
                           /\ status' = [status EXCEPT ![n] = "active"]
                           /\ alerts' = [alerts EXCEPT ![n][cur[h]] = 1]
    BY <1>2 DEF InsertTask
  <2>2. cur[h] \in Msgs /\ count' = count
    BY <1>2 DEF InsertTask
  <2>3. alerts[n][cur[h]] + 1 = 1
    BY <2>1, <2>2 DEF EmptyRows, NoAlerts
  <2>4. alerts' = [alerts EXCEPT ![n] = [alerts[n] EXCEPT ![cur[h]] = alerts[n][cur[h]] + 1]]
    BY <2>1, <2>2, <2>3
  <2>5. merged' = [merged EXCEPT ![cur[h]] = merged[cur[h]] + 1]
    BY <1>2, <2>2 DEF InsertTask, Committed, WorldType
  <2>6. NoRowBut({n})
    BY <2>1 DEF NoRowBut
  <2>7. AddsAlert(n, cur[h])
    BY <2>1, <2>2, <2>4, <2>5 DEF AddsAlert
  <2> QED  BY <2>2, <2>6, <2>7 DEF AddsAtMostOne
<1>3. ASSUME ~ \E h \in Handlers : MergeIntoExisting(h) \/ InsertTask(h)
      PROVE  UNCHANGED <<alerts, count, merged>> /\ NoRowBut({})
  <2>1. UNCHANGED <<alerts, count, merged>>
    BY <1>3 DEF Next, Work, Receive, AdmitMessage, LockKey, Lookup, MergeIntoDeleted,
       Ack, Fail, LeaseExpires, TaskEnds, RerunTask, DeleteTask, Tick, SetPaused, vars, table
  <2>2. CASE \E t \in Tasks : TaskEnds(t) \/ RerunTask(t) \/ DeleteTask(t)
    BY <2>2 DEF TaskEnds, RerunTask, DeleteTask, NoRowBut
  <2>3. CASE UNCHANGED status
    BY <2>1, <2>3 DEF NoRowBut
  <2>4. UNCHANGED status \/ \E t \in Tasks : TaskEnds(t) \/ RerunTask(t) \/ DeleteTask(t)
    BY <1>3 DEF Next, Work, Receive, AdmitMessage, LockKey, Lookup, MergeIntoDeleted,
       Ack, Fail, LeaseExpires, Tick, SetPaused, vars, table
  <2> QED  BY <2>1, <2>2, <2>3, <2>4
<1> QED
  BY <1>1, <1>2, <1>3 DEF AddsAtMostOne

(* No update is lost: every step leaves the metadata of all tasks alone or *)
(* adds exactly one alert to exactly one of them, together with its count  *)
(* and the history of committed calls; a row appears only with its first   *)
(* alert.                                                                  *)
THEOREM OneAlertPerCommit == Spec => []EmptyRows /\ [][AddsAtMostOne]_vars
<1>1. Init => EmptyRows
  BY DEF Init, EmptyRows
<1>2. IntakeInv /\ EmptyRows /\ [Next]_vars => EmptyRows' /\ [AddsAtMostOne]_vars
  BY EmptyStep, AddsStep DEF IntakeInv
<1> QED
  BY <1>1, <1>2, Intake, PTL DEF Spec

(* The sums behind NoAlertOverwritten. *)
Taken(m)    == SumFunctionOnSet([t \in Tasks |-> alerts[t][m]], Tasks)
Recorded(t) == SumFunctionOnSet(alerts[t], Msgs)

CountsInv ==
    /\ \A m \in Msgs : Taken(m) = merged[m]
    /\ \A t \in Tasks : status[t] # "absent" => count[t] = Recorded(t)

LEMMA CountsAre == TypeOK => (CountsInv <=> NoAlertOverwritten)
<1> SUFFICES ASSUME TypeOK PROVE CountsInv <=> NoAlertOverwritten
  OBVIOUS
<1>1. ASSUME NEW t \in Tasks PROVE DOMAIN alerts[t] = Msgs
  BY DEF TypeOK, TableType
<1>2. ASSUME NEW m PROVE DOMAIN [t \in Tasks |-> alerts[t][m]] = Tasks
  OBVIOUS
<1> QED
  BY <1>1, <1>2 DEF CountsInv, NoAlertOverwritten, SumFunction, Taken, Recorded

LEMMA CountsStep ==
    TypeOK /\ EmptyRows /\ CountsInv /\ AddsAtMostOne => CountsInv'
<1> SUFFICES ASSUME TypeOK, EmptyRows, CountsInv, AddsAtMostOne PROVE CountsInv'
  OBVIOUS
<1>0. /\ alerts \in [Tasks -> [Msgs -> Nat]] /\ count \in [Tasks -> Nat]
      /\ merged \in [Msgs -> Nat]
  BY DEF TypeOK, TableType, WorldType
<1>1. CASE UNCHANGED <<alerts, count, merged>> /\ NoRowBut({})
  BY <1>1 DEF CountsInv, NoRowBut, Taken, Recorded
<1>2. ASSUME NEW t \in Tasks, NEW m \in Msgs, AddsAlert(t, m), NoRowBut({t}) PROVE CountsInv'
  <2>1. /\ alerts' = [alerts EXCEPT ![t] = [alerts[t] EXCEPT ![m] = alerts[t][m] + 1]]
        /\ merged' = [merged EXCEPT ![m] = merged[m] + 1]
    BY <1>2 DEF AddsAlert
  <2>2. /\ \A u \in Tasks \ {t} : alerts'[u] = alerts[u]
        /\ alerts'[t][m] = alerts[t][m] + 1
        /\ \A n \in Msgs \ {m} : alerts'[t][n] = alerts[t][n]
    BY <1>0, <2>1
  <2>3. ASSUME NEW n \in Msgs PROVE Taken(n)' = merged'[n]
    <3> DEFINE f == [u \in Tasks |-> alerts[u][n]]
               g == [u \in Tasks |-> alerts'[u][n]]
    <3>0. (\A u \in Tasks : f[u] \in Nat) /\ Taken(n) = merged[n]
      BY <1>0 DEF CountsInv
    <3>1. CASE n = m
      <4>1. g[t] = f[t] + 1 /\ \A u \in Tasks \ {t} : g[u] = f[u]
        BY <2>2, <3>1
      <4> HIDE DEF f, g
      <4>2. SumFunctionOnSet(g, Tasks) = SumFunctionOnSet(f, Tasks) + 1
        BY <3>0, <4>1, IntakeAssumptions, SumOneMore
      <4> QED
        BY <1>0, <2>1, <3>0, <3>1, <4>2 DEF f, g, Taken
    <3>2. CASE n # m
      <4>1. \A u \in Tasks : f[u] = g[u]
        BY <2>2, <3>2
      <4> HIDE DEF f, g
      <4>2. SumFunctionOnSet(f, Tasks) = SumFunctionOnSet(g, Tasks)
        BY <4>1, IntakeAssumptions, SumSame
      <4> QED
        BY <1>0, <2>1, <3>0, <3>2, <4>2 DEF f, g, Taken
    <3> QED
      BY <3>1, <3>2
  <2>4. ASSUME NEW u \in Tasks, status'[u] # "absent" PROVE count'[u] = Recorded(u)'
    <3>1. CASE u # t
      <4>1. status[u] # "absent"
        BY <1>2, <2>4, <3>1 DEF NoRowBut
      <4>2. count'[u] = count[u]
        BY <1>0, <1>2, <3>1 DEF AddsAlert
      <4> QED
        BY <2>2, <3>1, <4>1, <4>2 DEF CountsInv, Recorded
    <3>2. CASE u = t
      <4> DEFINE f == alerts[t]
                 g == alerts'[t]
      <4>1. /\ \A n \in Msgs : f[n] \in Nat
            /\ g[m] = f[m] + 1 /\ \A n \in Msgs \ {m} : g[n] = f[n]
        BY <1>0, <2>2
      <4>2. SumFunctionOnSet(g, Msgs) = SumFunctionOnSet(f, Msgs) + 1
        <5> HIDE DEF f, g
        <5> QED
          BY <4>1, IntakeAssumptions, SumOneMore
      <4>3. Recorded(t)' = Recorded(t) + 1
        BY <4>2 DEF Recorded
      <4>4. CASE status[t] # "absent"
        BY <1>0, <1>2, <3>2, <4>3, <4>4 DEF AddsAlert, CountsInv
      <4>5. CASE status[t] = "absent"
        <5>1. count'[t] = 1
          BY <1>2, <4>5 DEF AddsAlert, EmptyRows
        <5>2. \A n \in Msgs : f[n] = 0
          BY <4>5 DEF EmptyRows, NoAlerts
        <5>3. Recorded(t) = 0
          <6> HIDE DEF f
          <6>1. SumFunctionOnSet(f, Msgs) = 0
            BY <5>2, IntakeAssumptions, SumZero
          <6> QED
            BY <6>1 DEF f, Recorded
        <5> QED
          BY <3>2, <4>3, <5>1, <5>3
      <4> QED
        BY <4>4, <4>5
    <3> QED
      BY <3>1, <3>2
  <2> QED
    BY <2>3, <2>4 DEF CountsInv
<1> QED
  BY <1>1, <1>2 DEF AddsAtMostOne

(* NoAlertOverwritten for every number of messages, tasks and callbacks:   *)
(* however create_task calls interleave, the alerts recorded in the table  *)
(* add up to the calls committed, and the count of a task to its alerts.   *)
THEOREM NoAlertIsOverwritten == Spec => []NoAlertOverwritten
<1>1. Init => CountsInv
  <2> SUFFICES ASSUME Init PROVE CountsInv
    OBVIOUS
  <2>1. ASSUME NEW m \in Msgs PROVE Taken(m) = merged[m]
    <3> DEFINE f == [t \in Tasks |-> alerts[t][m]]
    <3>1. \A t \in Tasks : f[t] = 0
      BY DEF Init, NoAlerts
    <3> HIDE DEF f
    <3>2. SumFunctionOnSet(f, Tasks) = 0
      BY <3>1, IntakeAssumptions, SumZero
    <3> QED
      BY <3>2 DEF f, Taken, Init
  <2>2. \A t \in Tasks : status[t] = "absent"
    BY DEF Init
  <2> QED
    BY <2>1, <2>2 DEF CountsInv
<1>2. TypeOK /\ EmptyRows /\ CountsInv /\ [AddsAtMostOne]_vars => CountsInv'
  <2>1. CountsInv /\ UNCHANGED vars => CountsInv'
    BY DEF CountsInv, Taken, Recorded, vars, table
  <2> QED
    BY <2>1, CountsStep
<1>3. IntakeInv => TypeOK
  BY DEF IntakeInv
<1>4. TypeOK /\ CountsInv => NoAlertOverwritten
  BY CountsAre
<1> QED
  BY <1>1, <1>2, <1>3, <1>4, Intake, OneAlertPerCommit, PTL DEF Spec
=============================================================================
