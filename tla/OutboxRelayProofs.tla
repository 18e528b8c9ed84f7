------------------------- MODULE OutboxRelayProofs -------------------------
(***************************************************************************)
(* Machine-checked proofs about the outbox relay, for any messages, relays *)
(* and bounds.                                                             *)
(*                                                                         *)
(* Leases play no part in the argument: safety rests on what a task        *)
(* remembers staying true while rows change under it.  A task about to     *)
(* mark a row published has seen the broker take the message, one about to *)
(* dead-letter it has seen the broker refuse it, and the retry_count a     *)
(* task was claimed with never exceeds that of the row.                    *)
(***************************************************************************)
EXTENDS OutboxRelay, TLAPS

TasksOK ==
    \A r \in Relays, m \in Messages :
        /\ task[r][m].retry_count <= row[m].retry_count
        /\ task[r][m].pc = "mark_published" => delivered[m] > 0
        /\ task[r][m].pc = "dead_letter" => m \in refused

(* A row that is not there yet has no retries *)
FreshOK == \A m \in Messages : ~row[m].stored => row[m].retry_count = 0

IInv == TypeOK /\ TasksOK /\ FreshOK /\ PublishedWasDelivered /\ DeadLetterJustified

-----------------------------------------------------------------------------
LEMMA InitIInv == Init => IInv
  BY ConstantsAssumption DEF Init, IInv, TypeOK, TasksOK, FreshOK, PublishedWasDelivered,
     DeadLetterJustified, OutboxRow, Row, Idle, ProcessMessage, Task, Points

(* The facts a task remembers are about counters and sets that only grow.   *)
LEMMA Kept ==
    ASSUME IInv, TypeOK', FreshOK', refused \subseteq refused',
           \A m \in Messages : row'[m].retry_count >= row[m].retry_count,
           \A m \in Messages : delivered'[m] >= delivered[m],
           \A m \in Messages : row'[m].published => row[m].published \/ delivered'[m] > 0,
           \A m \in Messages : dead'[m] > 0 =>
                dead[m] > 0 \/ row'[m].retry_count >= MaxRetries \/ m \in refused',
           \A r \in Relays, m \in Messages :
                \/ /\ task'[r][m].retry_count = task[r][m].retry_count
                   /\ task'[r][m].pc = task[r][m].pc
                \/ /\ task'[r][m].retry_count <= row'[m].retry_count
                   /\ task'[r][m].pc = "mark_published" => delivered'[m] > 0
                   /\ task'[r][m].pc = "dead_letter" => m \in refused'
    PROVE  IInv'
<1>1. /\ \A m \in Messages : /\ row[m].retry_count \in Nat /\ row'[m].retry_count \in Nat
                             /\ delivered[m] \in Nat /\ delivered'[m] \in Nat
      /\ \A r \in Relays, m \in Messages : /\ task[r][m].retry_count \in Nat
                                           /\ task'[r][m].retry_count \in Nat
  BY DEF IInv, TypeOK, Row, Task
<1>2. TasksOK'
  BY <1>1 DEF IInv, TasksOK
<1>3. PublishedWasDelivered'
  BY <1>1 DEF IInv, PublishedWasDelivered
<1>4. DeadLetterJustified'
  BY <1>1, ConstantsAssumption DEF IInv, DeadLetterJustified
<1> QED
  BY <1>2, <1>3, <1>4 DEF IInv

(* A task that moves on, or returns, is the only task that changes.         *)
LEMMA TaskMoves ==
    ASSUME TypeOK, NEW r \in Relays, NEW m \in Messages, NEW t \in Task,
           task' = [task EXCEPT ![r] = [task[r] EXCEPT ![m] = t]]
    PROVE  /\ task' \in [Relays -> [Messages -> Task]]
           /\ task'[r][m] = t
           /\ \A q \in Relays, n \in Messages : q # r \/ n # m => task'[q][n] = task[q][n]
  BY DEF TypeOK

LEMMA GotoMoves ==
    ASSUME TypeOK, NEW r \in Relays, NEW m \in Messages, NEW pc \in Points, Goto(r, m, pc)
    PROVE  /\ task' \in [Relays -> [Messages -> Task]]
           /\ task'[r][m].pc = pc /\ task'[r][m].retry_count = task[r][m].retry_count
           /\ \A q \in Relays, n \in Messages : q # r \/ n # m => task'[q][n] = task[q][n]
<1> DEFINE t == ProcessMessage(pc, task[r][m].retry_count, task[r][m].window)
<1>1. t \in Task /\ t.pc = pc /\ t.retry_count = task[r][m].retry_count
  BY DEF TypeOK, Task, ProcessMessage
<1> HIDE DEF t
<1>2. task' = [task EXCEPT ![r] = [task[r] EXCEPT ![m] = t]]
  BY DEF Goto, t
<1> QED
  BY <1>1, <1>2, TaskMoves, ZenonT(60)

LEMMA FinishMoves ==
    ASSUME TypeOK, NEW r \in Relays, NEW m \in Messages, Finish(r, m)
    PROVE  /\ task' \in [Relays -> [Messages -> Task]]
           /\ task'[r][m] = Idle
           /\ \A q \in Relays, n \in Messages : q # r \/ n # m => task'[q][n] = task[q][n]
<1>1. Idle \in Task
  BY ConstantsAssumption DEF Idle, Task, ProcessMessage, Points
<1> QED
  BY <1>1, TaskMoves, ZenonT(60) DEF Finish

(* What an idle task remembers is nothing *)
LEMMA IdleTask == Idle.pc = "idle" /\ Idle.retry_count = 0
  BY DEF Idle, ProcessMessage

LEMMA FaultCounted == ASSUME TypeOK, Fault \/ faults' = faults
                      PROVE  faults' \in 0..MaxFaults
  BY ConstantsAssumption DEF TypeOK, Fault

-----------------------------------------------------------------------------
(* Each action preserves the invariant *)

LEMMA InsertIInv == ASSUME IInv, NEW m \in Messages, InsertRow(m) PROVE IInv'
<1> TypeOK
  BY DEF IInv
<1>1. /\ row' \in [Messages -> Row]
      /\ \A n \in Messages : n # m => row'[n] = row[n]
      /\ row'[m].retry_count = 0 /\ ~row'[m].published
  BY ConstantsAssumption DEF TypeOK, InsertRow, Row, OutboxRow
<1>2. TypeOK'
  BY <1>1 DEF TypeOK, InsertRow
<1>3. row[m].retry_count = 0
  BY DEF IInv, FreshOK, InsertRow
<1>4. row'[m].stored
  BY DEF TypeOK, InsertRow, OutboxRow
<1>5. \A n \in Messages : row'[n].retry_count >= row[n].retry_count
  BY <1>1, <1>3 DEF TypeOK, Row
<1>6. UNCHANGED <<task, delivered, refused, dead, faults>>
  BY DEF InsertRow
<1>7. \A n \in Messages : delivered'[n] >= delivered[n]
  BY <1>6 DEF TypeOK
<1>8. FreshOK'
  BY <1>1 DEF IInv, FreshOK
<1> QED
  BY <1>1, <1>2, <1>5, <1>6, <1>7, <1>8, Kept

LEMMA ClaimIInv == ASSUME IInv, NEW r \in Relays, NEW s \in SUBSET Due, Claim(r, s) PROVE IInv'
<1> TypeOK
  BY DEF IInv
<1>1. /\ row' \in [Messages -> Row]
      /\ \A m \in Messages : /\ row'[m].retry_count = row[m].retry_count
                             /\ row'[m].published => row[m].published
                             /\ row'[m].stored \/ ~row[m].stored
  <2>1. row' \in [Messages -> Row]
    BY ConstantsAssumption DEF TypeOK, Claim, Leased, OutboxRow, Row
  <2>2. ASSUME NEW m \in Messages, m \in s
        PROVE  row'[m] = OutboxRow(TRUE, row[m].published, row[m].retry_count, LeaseTime, row[m].delay)
    BY <2>2 DEF Claim, Leased
  <2>3. ASSUME NEW m \in Messages, m \notin s
        PROVE  row'[m] = row[m]
    BY <2>3 DEF Claim, Leased
  <2> QED
    BY <2>1, <2>2, <2>3 DEF OutboxRow
<1>2. /\ Spawned(s) \in [Messages -> Task]
      /\ \A m \in Messages : /\ Spawned(s)[m].retry_count <= row[m].retry_count
                             /\ Spawned(s)[m].pc \in {"process", "idle"}
  <2>1. \A m \in Messages : /\ ProcessMessage("process", row[m].retry_count, LeaseTime) \in Task
                            /\ row[m].retry_count \in Nat
    BY ConstantsAssumption DEF TypeOK, Row, Task, ProcessMessage, Points
  <2>2. Idle \in Task
    BY ConstantsAssumption DEF Idle, Task, ProcessMessage, Points
  <2> QED
    BY <2>1, <2>2, IdleTask DEF Spawned, ProcessMessage, TypeOK, Row
<1>3. /\ task' \in [Relays -> [Messages -> Task]]
      /\ \A q \in Relays : task'[q] = task[q] \/ task'[q] = Spawned(s)
  BY <1>2 DEF TypeOK, Claim
<1>4. TypeOK'
  BY <1>1, <1>3, FaultCounted DEF TypeOK, Claim
<1>5. \A m \in Messages : row'[m].retry_count >= row[m].retry_count
  BY <1>1 DEF TypeOK, Row
<1>6. \A q \in Relays, m \in Messages :
        \/ task'[q][m].retry_count = task[q][m].retry_count /\ task'[q][m].pc = task[q][m].pc
        \/ /\ task'[q][m].retry_count <= row'[m].retry_count
           /\ task'[q][m].pc \notin {"mark_published", "dead_letter"}
  BY <1>1, <1>2, <1>3
<1>7. UNCHANGED <<delivered, refused, dead>>
  BY DEF Claim
<1>8. \A m \in Messages : delivered'[m] >= delivered[m]
  BY <1>7 DEF TypeOK
<1>9. FreshOK'
  BY <1>1 DEF IInv, FreshOK
<1> QED
  BY <1>1, <1>4, <1>5, <1>6, <1>7, <1>8, <1>9, Kept

LEMMA PublishIInv ==
    ASSUME IInv, NEW r \in Relays, NEW m \in Messages, Publish(r, m) PROVE IInv'
<1> TypeOK
  BY DEF IInv
<1>1. PICK pc \in {"mark_published", "mark_failed", "dead_letter"} :
        /\ Goto(r, m, pc)
        /\ pc = "mark_published" => delivered'[m] > 0
        /\ pc = "dead_letter" => m \in refused'
        /\ delivered' \in [Messages -> Nat]
        /\ \A n \in Messages : delivered'[n] >= delivered[n]
        /\ refused \subseteq refused' /\ refused' \subseteq Messages
  <2>1. CASE delivered' = [delivered EXCEPT ![m] = @ + 1] /\ refused' = refused
             /\ (Goto(r, m, "mark_published") \/ Goto(r, m, "mark_failed"))
    BY <2>1 DEF TypeOK
  <2>2. CASE Goto(r, m, "mark_failed") /\ UNCHANGED <<delivered, refused>>
    BY <2>2 DEF TypeOK
  <2>3. CASE Goto(r, m, "dead_letter") /\ refused' = refused \cup {m} /\ delivered' = delivered
    BY <2>3 DEF TypeOK
  <2> QED
    BY <2>1, <2>2, <2>3 DEF Publish
<1>2. pc \in Points
  BY DEF Points
<1>3. /\ task' \in [Relays -> [Messages -> Task]]
      /\ task'[r][m].pc = pc /\ task'[r][m].retry_count = task[r][m].retry_count
      /\ \A q \in Relays, n \in Messages : q # r \/ n # m => task'[q][n] = task[q][n]
  BY <1>1, <1>2, GotoMoves
<1>4. UNCHANGED <<row, dead, faults>>
  BY DEF Publish
<1>5. TypeOK'
  BY <1>1, <1>3, <1>4 DEF TypeOK
<1>6. task'[r][m].retry_count <= row'[m].retry_count
  BY <1>3, <1>4 DEF IInv, TasksOK
<1>7. \A n \in Messages : row'[n].retry_count >= row[n].retry_count
  BY <1>4 DEF TypeOK, Row
<1>8. \A q \in Relays, n \in Messages :
        \/ task'[q][n].retry_count = task[q][n].retry_count /\ task'[q][n].pc = task[q][n].pc
        \/ /\ task'[q][n].retry_count <= row'[n].retry_count
           /\ task'[q][n].pc = "mark_published" => delivered'[n] > 0
           /\ task'[q][n].pc = "dead_letter" => n \in refused'
  BY <1>1, <1>3, <1>6
<1>9. FreshOK'
  BY <1>4 DEF IInv, FreshOK
<1> QED
  BY <1>1, <1>4, <1>5, <1>7, <1>8, <1>9, Kept

(* Steps that leave the rows alone and at most empty tasks *)
LEMMA SettledTasks ==
    ASSUME IInv, TypeOK', FreshOK', UNCHANGED <<delivered, refused>>,
           \A m \in Messages : row'[m].retry_count >= row[m].retry_count,
           \A m \in Messages : row'[m].published => row[m].published \/ delivered[m] > 0,
           \A m \in Messages : dead'[m] > 0 =>
                dead[m] > 0 \/ row'[m].retry_count >= MaxRetries \/ m \in refused,
           \A r \in Relays, m \in Messages :
                /\ task'[r][m].retry_count \in {0, task[r][m].retry_count}
                /\ \/ task'[r][m].pc = task[r][m].pc
                      /\ task'[r][m].retry_count = task[r][m].retry_count
                   \/ task'[r][m].pc \in {"idle", "mark_failed"}
    PROVE  IInv'
<1>1. \A m \in Messages : /\ delivered'[m] >= delivered[m]
                         /\ row[m].retry_count \in Nat /\ row'[m].retry_count \in Nat
  BY DEF IInv, TypeOK, Row
<1>2. \A r \in Relays, m \in Messages :
        task[r][m].retry_count <= row[m].retry_count /\ task[r][m].retry_count \in Nat
  BY DEF IInv, TasksOK, TypeOK, Task
<1>3. \A r \in Relays, m \in Messages : task'[r][m].retry_count <= row'[m].retry_count
  BY <1>1, <1>2
<1> QED
  BY <1>1, <1>3, Kept

LEMMA SendDeadLetterIInv ==
    ASSUME IInv, NEW r \in Relays, NEW m \in Messages, SendDeadLetter(r, m) PROVE IInv'
<1> TypeOK
  BY DEF IInv
<1>1. row[m].retry_count >= MaxRetries \/ m \in refused
  BY ConstantsAssumption DEF SendDeadLetter, At, IInv, TasksOK, TypeOK, Row, Task
<1>2. /\ dead' \in [Messages -> 0..MaxRows]
      /\ \A n \in Messages : n # m => dead'[n] = dead[n]
  <2>1. Saturated(dead[m] + 1, MaxRows) \in 0..MaxRows
    BY ConstantsAssumption DEF Saturated, TypeOK
  <2> QED
    BY <2>1 DEF SendDeadLetter, TypeOK
<1>3. /\ task' \in [Relays -> [Messages -> Task]]
      /\ \A q \in Relays, n \in Messages :
            /\ task'[q][n].retry_count \in {0, task[q][n].retry_count}
            /\ \/ task'[q][n].pc = task[q][n].pc
                  /\ task'[q][n].retry_count = task[q][n].retry_count
               \/ task'[q][n].pc \in {"idle", "mark_failed"}
  <2>1. CASE Finish(r, m)
    BY <2>1, FinishMoves, IdleTask
  <2>2. CASE Goto(r, m, "mark_failed")
    <3>1. "mark_failed" \in Points
      BY DEF Points
    <3> QED
      BY <2>2, <3>1, GotoMoves
  <2> QED
    BY <2>1, <2>2 DEF SendDeadLetter
<1>4. UNCHANGED <<row, delivered, refused>> /\ faults' \in 0..MaxFaults
  BY FaultCounted DEF SendDeadLetter
<1>5. TypeOK'
  BY <1>2, <1>3, <1>4 DEF TypeOK
<1>6. \A n \in Messages : row'[n].retry_count >= row[n].retry_count
  BY <1>4 DEF TypeOK, Row
<1>7. FreshOK'
  BY <1>4 DEF IInv, FreshOK
<1> QED
  BY <1>1, <1>2, <1>3, <1>4, <1>5, <1>6, <1>7, SettledTasks

(* mark_published and mark_failed return, whether or not the row changed *)
LEMMA MarkIInv ==
    ASSUME IInv, NEW r \in Relays, NEW m \in Messages,
           MarkPublished(r, m) \/ MarkFailed(r, m)
    PROVE  IInv'
<1> TypeOK
  BY DEF IInv
<1>1. Finish(r, m) /\ UNCHANGED <<delivered, refused, dead>> /\ faults' \in 0..MaxFaults
  BY FaultCounted DEF MarkPublished, MarkFailed
<1>2. /\ task' \in [Relays -> [Messages -> Task]]
      /\ \A q \in Relays, n \in Messages :
            /\ task'[q][n].retry_count \in {0, task[q][n].retry_count}
            /\ \/ task'[q][n].pc = task[q][n].pc
                  /\ task'[q][n].retry_count = task[q][n].retry_count
               \/ task'[q][n].pc \in {"idle", "mark_failed"}
  BY <1>1, FinishMoves, IdleTask
<1>3. /\ row' \in [Messages -> Row]
      /\ \A n \in Messages : n # m => row'[n] = row[n]
      /\ row'[m].retry_count >= row[m].retry_count
      /\ row'[m] = row[m] \/ row'[m].stored
      /\ row'[m].published => row[m].published \/ delivered[m] > 0
  <2>1. CASE row' = row
    BY <2>1 DEF TypeOK, Row
  <2>2. CASE MarkPublished(r, m) /\ row' = Published(m)
    <3>1. delivered[m] > 0
      BY <2>2 DEF MarkPublished, At, IInv, TasksOK
    <3> QED
      BY <2>2, <3>1, ConstantsAssumption DEF Published, TypeOK, Row, OutboxRow
  <2>3. ASSUME NEW delay \in 1..MaxDelay, row' = Failed(m, delay)
        PROVE  /\ row' \in [Messages -> Row]
               /\ \A n \in Messages : n # m => row'[n] = row[n]
               /\ row'[m].retry_count >= row[m].retry_count
               /\ row'[m] = row[m] \/ row'[m].stored
               /\ row'[m].published => row[m].published \/ delivered[m] > 0
    <3>1. /\ row' \in [Messages -> Row]
          /\ row'[m] = OutboxRow(TRUE, row[m].published, row[m].retry_count + 1, 0, delay)
          /\ \A n \in Messages : n # m => row'[n] = row[n]
      BY <2>3, ConstantsAssumption DEF Failed, TypeOK, Row, OutboxRow
    <3>2. row'[m].stored /\ row'[m].retry_count = row[m].retry_count + 1
          /\ (row'[m].published => row[m].published)
      BY <3>1 DEF OutboxRow
    <3>3. row[m].retry_count \in Nat
      BY DEF TypeOK, Row
    <3>4. row'[m].retry_count >= row[m].retry_count
      BY <3>2, <3>3
    <3> QED
      BY <3>1, <3>2, <3>4, Zenon
  <2> QED
    BY <2>1, <2>2, <2>3 DEF MarkPublished, MarkFailed
<1>4. TypeOK'
  BY <1>1, <1>2, <1>3 DEF TypeOK
<1>5. \A n \in Messages : row'[n].retry_count >= row[n].retry_count
  BY <1>3 DEF TypeOK, Row
<1>6. FreshOK'
  BY <1>3 DEF IInv, FreshOK
<1>7. \A n \in Messages : row'[n].published => row[n].published \/ delivered[n] > 0
  BY <1>3
<1>9. \A n \in Messages : dead'[n] > 0 =>
        dead[n] > 0 \/ row'[n].retry_count >= MaxRetries \/ n \in refused
  BY <1>1
<1> QED
  BY <1>1, <1>2, <1>4, <1>5, <1>6, <1>7, <1>9, SettledTasks

LEMMA CrashIInv == ASSUME IInv, NEW r \in Relays, Crash(r) PROVE IInv'
<1> TypeOK
  BY DEF IInv
<1>1. Idle \in Task
  BY ConstantsAssumption DEF Idle, Task, ProcessMessage, Points
<1>2. /\ task' \in [Relays -> [Messages -> Task]]
      /\ \A q \in Relays, m \in Messages : task'[q][m] = task[q][m] \/ task'[q][m] = Idle
  BY <1>1 DEF TypeOK, Crash
<1>3. UNCHANGED <<row, delivered, refused, dead>> /\ faults' \in 0..MaxFaults
  BY FaultCounted DEF Crash
<1>4. TypeOK'
  BY <1>2, <1>3 DEF TypeOK
<1>5. \A m \in Messages : row'[m].retry_count >= row[m].retry_count
  BY <1>3 DEF TypeOK, Row
<1>6. FreshOK'
  BY <1>3 DEF IInv, FreshOK
<1> QED
  BY <1>2, <1>3, <1>4, <1>5, <1>6, IdleTask, SettledTasks

LEMMA TickIInv == ASSUME IInv, Tick PROVE IInv'
<1> TypeOK
  BY DEF IInv
<1>0. \A n \in Nat : \A t \in 0..n : Elapsed(t) \in 0..n
  BY DEF Elapsed
<1>1. /\ row' \in [Messages -> Row]
      /\ \A m \in Messages : /\ row'[m].retry_count = row[m].retry_count
                             /\ row'[m].published => row[m].published
                             /\ row'[m].stored \/ ~row[m].stored
  BY <1>0, ConstantsAssumption DEF TypeOK, Tick, OutboxRow, Row
<1>2. /\ task' \in [Relays -> [Messages -> Task]]
      /\ \A r \in Relays, m \in Messages : /\ task'[r][m].retry_count = task[r][m].retry_count
                                           /\ task'[r][m].pc = task[r][m].pc
  BY <1>0, ConstantsAssumption DEF TypeOK, Tick, ProcessMessage, Task
<1>3. UNCHANGED <<delivered, refused, dead, faults>>
  BY DEF Tick
<1>4. TypeOK'
  BY <1>1, <1>2, <1>3 DEF TypeOK
<1>5. \A m \in Messages : row'[m].retry_count >= row[m].retry_count
  BY <1>1 DEF TypeOK, Row
<1>6. FreshOK'
  BY <1>1 DEF IInv, FreshOK
<1> QED
  BY <1>1, <1>2, <1>3, <1>4, <1>5, <1>6, SettledTasks

-----------------------------------------------------------------------------
LEMMA NextIInv == IInv /\ [Next]_vars => IInv'
<1> SUFFICES ASSUME IInv, [Next]_vars PROVE IInv'
  OBVIOUS
<1>1. CASE UNCHANGED vars
  BY <1>1 DEF IInv, TypeOK, TasksOK, FreshOK, PublishedWasDelivered, DeadLetterJustified, vars
<1>2. CASE \E m \in Messages : Store(m) \/ StoreByJob(m)
  BY <1>2, InsertIInv DEF Store, StoreByJob
<1>3. ASSUME NEW r \in Relays, Poll(r) PROVE IInv'
  BY <1>3, ClaimIInv DEF Poll, Batches
<1>4. ASSUME NEW r \in Relays, Crash(r) PROVE IInv'
  BY <1>4, CrashIInv
<1>5. ASSUME NEW r \in Relays, NEW m \in Messages, Process(r, m) PROVE IInv'
  BY <1>5, PublishIInv, SendDeadLetterIInv, MarkIInv DEF Process
<1>6. CASE Tick
  BY <1>6, TickIInv
<1> QED
  BY <1>1, <1>2, <1>3, <1>4, <1>5, <1>6 DEF Next

THEOREM Invariance == Spec => []IInv
  BY InitIInv, NextIInv, PTL DEF Spec

(* Type correctness of the outbox, the tasks and the dead-letter table *)
THEOREM TypeCorrect == Spec => []TypeOK
  BY Invariance, PTL DEF IInv

(* No event is marked published that the broker has not taken: holds for    *)
(* any number of relays, crashes and stale tasks                            *)
THEOREM NothingDropped == Spec => []PublishedWasDelivered
  BY Invariance, PTL DEF IInv

(* Only spent or refused messages are dead-lettered, although a task        *)
(* decides on the retry_count of its claim                                  *)
THEOREM DeadLettersJustified == Spec => []DeadLetterJustified
  BY Invariance, PTL DEF IInv
=============================================================================
