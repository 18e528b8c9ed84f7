------------------------- MODULE ClientOutboxProofs -------------------------
(***************************************************************************)
(* Machine-checked proofs about the device's outbox, for any rows, batch   *)
(* size and number of faults.                                              *)
(*                                                                         *)
(* The argument follows one row.  An acknowledgement the pump holds stays  *)
(* true until it is applied (AckOK), a row between the two statements of   *)
(* a pair is the pump's current row and there is one of them (PassOK), and *)
(* every second showing or second dead_letter row is paid for by a fault   *)
(* (PaidOK).                                                               *)
(***************************************************************************)
EXTENDS ClientOutbox, TLAPS

PassOK ==
    /\ \A m, n \in pump.current : m = n
    /\ \A m \in pump.current : m \notin pump.todo
    /\ \A m \in pump.todo \cup pump.uploadable : ~row[m].published
    /\ \A m \in Rows : ~row[m].stored => ~row[m].published /\ ~row[m].bus_delivered

AckOK ==
    /\ \A m \in Rows : row[m].retry_count <= rejections[m]
    /\ \A m \in pump.todo :
        /\ pump.acks[m] = "stored" => m \in cloud
        /\ pump.acks[m] = "rejected" => m \in refused
        /\ pump.acks[m] = "retry" => row[m].retry_count < rejections[m]
    /\ pump.pc = "close" => \A m \in pump.current : dead[m] > 0

(* m is shown, or dead-lettered, and the record of it is still to come *)
Pending(pc, m) == pump.pc = pc /\ m \in pump.current

PaidOK ==
    \A m \in Rows :
        /\ row[m].bus_delivered \/ Pending("mark_bus", m) \/ shown[m] <= faults
        /\ row[m].published \/ Pending("close", m) \/ dead[m] <= faults

IInv ==
    /\ TypeOK /\ PassOK /\ AckOK /\ PaidOK
    /\ PublishedIsSettled /\ DeadLetterJustified /\ RepeatsBounded /\ DeadLettersBounded

-----------------------------------------------------------------------------
(* The records of the model *)

LEMMA IdleFacts ==
    /\ Idle \in Pump /\ Idle.pc = "idle" /\ Idle.todo = {} /\ Idle.uploadable = {}
    /\ Idle.current = {}
  BY DEF Idle, Pass, Pump, Points, NoAcks, Acks

LEMMA PassFacts ==
    ASSUME NEW pc \in Points, NEW todo \in SUBSET Rows, NEW uploadable \in SUBSET Rows,
           NEW acks \in [Rows -> Acks], NEW current \in SUBSET Rows,
           pump' = Pass(pc, todo, uploadable, acks, current)
    PROVE  /\ pump' \in Pump /\ pump'.pc = pc /\ pump'.todo = todo
           /\ pump'.uploadable = uploadable /\ pump'.acks = acks /\ pump'.current = current
  BY DEF Pass, Pump

LEMMA ContinueFacts ==
    ASSUME NEW todo \in SUBSET Rows, NEW uploadable \in SUBSET Rows,
           pump' = Continue(todo, uploadable)
    PROVE  /\ pump' \in Pump /\ pump'.pc \in {"deliver", "idle"} /\ pump'.todo = todo
           /\ pump'.uploadable = uploadable /\ pump'.current = {}
           /\ \A m \in Rows : pump'.acks[m] = "none"
<1>1. NoAcks \in [Rows -> Acks] /\ \A m \in Rows : NoAcks[m] = "none"
  BY DEF NoAcks, Acks
<1> QED
  BY <1>1 DEF Continue, Idle, Pass, Pump, Points

LEMMA NextAckFacts ==
    ASSUME TypeOK, NEW todo \in SUBSET Rows, pump' = NextAck(todo)
    PROVE  /\ pump' \in Pump /\ pump'.pc \in {"acks", "idle"} /\ pump'.todo = todo
           /\ pump'.uploadable = {} /\ pump'.current = {}
           /\ \A m \in todo : pump'.acks[m] = pump.acks[m]
<1>1. NoAcks \in [Rows -> Acks] /\ pump.acks \in [Rows -> Acks]
  BY DEF NoAcks, Acks, TypeOK, Pump
<1> QED
  BY <1>1 DEF NextAck, Idle, Pass, Pump, Points

(* A statement that rewrites the row of m *)
LEMMA RowWritten ==
    ASSUME TypeOK, NEW m \in Rows, NEW published \in BOOLEAN, NEW bus_delivered \in BOOLEAN,
           NEW retry_count \in Nat, NEW lease \in 0..LeaseTime, NEW delay \in 0..MaxDelay,
           row' = [row EXCEPT ![m] =
                        OutboxRow(published, bus_delivered, retry_count, lease, delay)]
    PROVE  /\ row' \in [Rows -> Row]
           /\ row'[m].stored = TRUE /\ row'[m].published = published
           /\ row'[m].bus_delivered = bus_delivered /\ row'[m].retry_count = retry_count
           /\ \A n \in Rows : n # m => row'[n] = row[n]
<1> DEFINE r == OutboxRow(published, bus_delivered, retry_count, lease, delay)
<1>1. /\ r.stored = TRUE /\ r.published = published
      /\ r.bus_delivered = bus_delivered /\ r.retry_count = retry_count
  BY DEF OutboxRow
<1>2. r \in Row
  BY DEF OutboxRow, Row
<1>3. row' = [row EXCEPT ![m] = r]
  OBVIOUS
<1> HIDE DEF r
<1>4. row' \in [Rows -> Row] /\ row'[m] = r /\ \A n \in Rows : n # m => row'[n] = row[n]
  BY <1>2, <1>3 DEF TypeOK
<1> QED
  BY <1>1, <1>4

LEMMA Columns ==
    ASSUME TypeOK, NEW m \in Rows
    PROVE  /\ row[m].published \in BOOLEAN /\ row[m].bus_delivered \in BOOLEAN
           /\ row[m].stored \in BOOLEAN /\ row[m].retry_count \in Nat
           /\ row[m].lease \in 0..LeaseTime /\ row[m].delay \in 0..MaxDelay
           /\ shown[m] \in Nat /\ dead[m] \in Nat /\ rejections[m] \in Nat
  BY DEF TypeOK, Row

LEMMA FaultCounted ==
    ASSUME TypeOK, Fault \/ faults' = faults
    PROVE  faults' \in 0..MaxFaults /\ faults' >= faults /\ (Fault => faults' = faults + 1)
  BY ConstantsAssumption DEF TypeOK, Fault

(* What a step may do to a row for the invariant to survive *)
RowStep(n) ==
    /\ rejections'[n] >= rejections[n]
    /\ row'[n].published => row[n].published \/ n \in cloud' \/ dead'[n] > 0
    /\ dead'[n] > 0 => dead[n] > 0 \/ n \in refused' \/ rejections'[n] >= MaxAttempts
    /\ \/ /\ shown'[n] = shown[n]
          /\ row[n].bus_delivered => row'[n].bus_delivered
          /\ Pending("mark_bus", n) =>
                Pending("mark_bus", n)' \/ row'[n].bus_delivered \/ faults' > faults
       \/ /\ shown'[n] = shown[n] + 1 /\ shown[n] <= faults
          /\ Pending("mark_bus", n)'
    /\ \/ /\ dead'[n] = dead[n]
          /\ row[n].published => row'[n].published
          /\ Pending("close", n) => Pending("close", n)' \/ row'[n].published \/ faults' > faults
       \/ /\ dead'[n] = dead[n] + 1 /\ dead[n] <= faults
          /\ Pending("close", n)'

LEMMA Kept ==
    ASSUME IInv, TypeOK', PassOK', AckOK', faults' >= faults,
           cloud \subseteq cloud', refused \subseteq refused', \A n \in Rows : RowStep(n)
    PROVE  IInv'
<1> SUFFICES ASSUME NEW n \in Rows
             PROVE  /\ (row[n].published => n \in cloud \/ dead[n] > 0)'
                    /\ (dead[n] > 0 => n \in refused \/ rejections[n] >= MaxAttempts)'
                    /\ (shown[n] <= 1 + faults)' /\ (dead[n] <= 1 + faults)'
                    /\ (row[n].bus_delivered \/ Pending("mark_bus", n) \/ shown[n] <= faults)'
                    /\ (row[n].published \/ Pending("close", n) \/ dead[n] <= faults)'
  BY DEF IInv, PaidOK, PublishedIsSettled, DeadLetterJustified, RepeatsBounded, DeadLettersBounded
<1>1. /\ shown[n] \in Nat /\ dead[n] \in Nat /\ rejections[n] \in Nat
      /\ shown'[n] \in Nat /\ dead'[n] \in Nat /\ rejections'[n] \in Nat
      /\ faults \in Nat /\ faults' \in Nat
  BY ConstantsAssumption DEF IInv, TypeOK
<1>2. RowStep(n)
  OBVIOUS
<1>3. /\ row[n].published => n \in cloud \/ dead[n] > 0
      /\ dead[n] > 0 => n \in refused \/ rejections[n] >= MaxAttempts
      /\ shown[n] <= 1 + faults /\ dead[n] <= 1 + faults
      /\ row[n].bus_delivered \/ Pending("mark_bus", n) \/ shown[n] <= faults
      /\ row[n].published \/ Pending("close", n) \/ dead[n] <= faults
  BY DEF IInv, PaidOK, PublishedIsSettled, DeadLetterJustified, RepeatsBounded, DeadLettersBounded
<1>4. dead'[n] = dead[n] \/ dead'[n] = dead[n] + 1
  BY <1>2 DEF RowStep
<1>5. (row[n].published => n \in cloud \/ dead[n] > 0)'
  BY <1>1, <1>2, <1>3, <1>4 DEF RowStep
<1>6. (dead[n] > 0 => n \in refused \/ rejections[n] >= MaxAttempts)'
  BY <1>1, <1>2, <1>3, ConstantsAssumption DEF RowStep
<1>7. (shown[n] <= 1 + faults)' /\ (dead[n] <= 1 + faults)'
  BY <1>1, <1>2, <1>3 DEF RowStep
<1>8. (row[n].bus_delivered \/ Pending("mark_bus", n) \/ shown[n] <= faults)'
  <2>1. CASE shown'[n] = shown[n] + 1 /\ shown[n] <= faults /\ Pending("mark_bus", n)'
    BY <2>1
  <2>2. CASE shown'[n] = shown[n] /\ shown[n] <= faults
    BY <1>1, <2>2
  <2>3. CASE shown'[n] = shown[n] /\ faults' > faults
    BY <1>1, <1>3, <2>3
  <2>4. CASE row'[n].bus_delivered \/ Pending("mark_bus", n)'
    BY <2>4
  <2> QED
    BY <1>2, <1>3, <2>1, <2>2, <2>3, <2>4, Zenon DEF RowStep
<1>9. (row[n].published \/ Pending("close", n) \/ dead[n] <= faults)'
  <2>1. CASE dead'[n] = dead[n] + 1 /\ dead[n] <= faults /\ Pending("close", n)'
    BY <2>1
  <2>2. CASE dead'[n] = dead[n] /\ dead[n] <= faults
    BY <1>1, <2>2
  <2>3. CASE dead'[n] = dead[n] /\ faults' > faults
    BY <1>1, <1>3, <2>3
  <2>4. CASE row'[n].published \/ Pending("close", n)'
    BY <2>4
  <2> QED
    BY <1>2, <1>3, <2>1, <2>2, <2>3, <2>4, Zenon DEF RowStep
<1> QED
  BY <1>5, <1>6, <1>7, <1>8, <1>9

LEMMA InitIInv == Init => IInv
<1> SUFFICES ASSUME Init PROVE IInv
  OBVIOUS
<1>1. /\ NotStored \in Row /\ ~NotStored.published /\ ~NotStored.bus_delivered
      /\ NotStored.retry_count = 0
  BY ConstantsAssumption DEF NotStored, Row
<1>2. TypeOK
  BY <1>1, IdleFacts, ConstantsAssumption DEF Init, TypeOK
<1>3. PassOK /\ AckOK
  BY <1>1, IdleFacts DEF Init, PassOK, AckOK
<1>4. PaidOK /\ RepeatsBounded /\ DeadLettersBounded
  BY DEF Init, PaidOK, RepeatsBounded, DeadLettersBounded
<1>5. PublishedIsSettled /\ DeadLetterJustified
  BY <1>1 DEF Init, PublishedIsSettled, DeadLetterJustified
<1> QED
  BY <1>2, <1>3, <1>4, <1>5 DEF IInv

(* Steps that leave the tables to themselves: the pump moves on with rows it *)
(* has already claimed, and nothing it still has to record is forgotten      *)
LEMMA PumpMoves ==
    ASSUME IInv, pump' \in Pump, pump'.current = {},
           UNCHANGED <<row, shown, rejections, dead>>,
           cloud \subseteq cloud', cloud' \subseteq Rows,
           refused \subseteq refused', refused' \subseteq Rows,
           faults' \in 0..MaxFaults, faults' >= faults,
           pump'.todo \cup pump'.uploadable \subseteq pump.todo \cup pump.uploadable,
           \A m \in pump'.todo : \/ pump'.acks[m] = "none"
                                 \/ m \in pump.todo /\ pump'.acks[m] = pump.acks[m],
           pump.pc \in {"mark_bus", "close"} => faults' > faults
    PROVE  IInv'
<1> TypeOK
  BY DEF IInv
<1>1. TypeOK'
  BY DEF TypeOK
<1>2. PassOK'
  BY DEF IInv, PassOK
<1>3. AckOK'
  BY DEF IInv, AckOK
<1>4. ASSUME NEW n \in Rows PROVE RowStep(n)
  <2>1. /\ rejections'[n] >= rejections[n]
        /\ row'[n] = row[n] /\ shown'[n] = shown[n] /\ dead'[n] = dead[n]
    BY Columns
  <2>2. /\ Pending("mark_bus", n) => faults' > faults
        /\ Pending("close", n) => faults' > faults
    BY DEF Pending
  <2> QED
    BY <2>1, <2>2 DEF RowStep
<1> QED
  BY <1>1, <1>2, <1>3, <1>4, Kept

LEMMA NoAnswerIInv == ASSUME IInv, NEW m \in Rows, NoAnswer(m) PROVE IInv'
<1> TypeOK
  BY DEF IInv
<1>1. pump.todo \ {m} \in SUBSET Rows
  BY DEF TypeOK, Pump
<1>2. /\ pump' = NextAck(pump.todo \ {m}) /\ pump.pc = "acks"
      /\ UNCHANGED <<row, shown, cloud, rejections, refused, dead, faults>>
  BY DEF NoAnswer
<1>3. /\ pump' \in Pump /\ pump'.todo = pump.todo \ {m} /\ pump'.uploadable = {}
      /\ pump'.current = {} /\ \A n \in pump'.todo : pump'.acks[n] = pump.acks[n]
  BY <1>1, <1>2, NextAckFacts
<1> QED
  <2>1. /\ cloud' = cloud /\ refused' = refused /\ cloud \subseteq Rows /\ refused \subseteq Rows
        /\ faults' \in 0..MaxFaults /\ faults' >= faults
    BY <1>2, ConstantsAssumption DEF TypeOK
  <2>2. pump.pc \notin {"mark_bus", "close"}
    BY <1>2
  <2> QED
    BY <1>2, <1>3, <2>1, <2>2, PumpMoves, SMTT(20)

LEMMA UploadFailsIInv ==
    ASSUME IInv, NEW landed \in SUBSET pump.uploadable, UploadFails(landed) PROVE IInv'
<1> TypeOK
  BY DEF IInv
<1>1. pump' = Idle /\ pump.pc = "deliver" /\ cloud' = cloud \cup landed
      /\ UNCHANGED <<row, shown, rejections, refused, dead, faults>>
  BY DEF UploadFails, AtUpload
<1>2. cloud' \subseteq Rows
  BY <1>1 DEF TypeOK, Pump
<1> QED
  BY <1>1, <1>2, IdleFacts, PumpMoves, ConstantsAssumption DEF TypeOK

LEMMA UploadRefusedIInv == ASSUME IInv, UploadRefused PROVE IInv'
<1> TypeOK
  BY DEF IInv
<1>1. pump' = Idle /\ pump.pc = "deliver"
      /\ UNCHANGED <<row, shown, cloud, rejections, refused, dead, faults>>
  BY DEF UploadRefused, AtUpload
<1> QED
  BY <1>1, IdleFacts, PumpMoves, ConstantsAssumption DEF TypeOK

LEMMA RestartIInv == ASSUME IInv, Restart PROVE IInv'
<1> TypeOK
  BY DEF IInv
<1>1. pump' = Idle /\ Fault /\ UNCHANGED <<row, shown, cloud, rejections, refused, dead>>
  BY DEF Restart
<1>2. faults' \in 0..MaxFaults /\ faults' > faults
  BY <1>1, FaultCounted, ConstantsAssumption DEF TypeOK
<1> QED
  BY <1>1, <1>2, IdleFacts, PumpMoves, ConstantsAssumption DEF TypeOK

LEMMA UploadAnsweredIInv ==
    ASSUME IInv, NEW acks \in [Rows -> Acks], UploadAnswered(acks) PROVE IInv'
<1> TypeOK
  BY DEF IInv
<1>1. /\ pump.pc = "deliver" /\ pump' = Pass("acks", pump.uploadable, {}, acks, {})
      /\ cloud' = cloud \cup {m \in Rows : acks[m] = "stored"}
      /\ refused' = refused \cup {m \in Rows : acks[m] = "rejected"}
      /\ UNCHANGED <<row, shown, dead, faults>>
  BY DEF UploadAnswered, AtUpload
<1>2. /\ pump' \in Pump /\ pump'.todo = pump.uploadable /\ pump'.uploadable = {}
      /\ pump'.pc = "acks" /\ pump'.acks = acks /\ pump'.current = {}
  BY <1>1 DEF TypeOK, Pass, Pump, Points
<1>3. /\ rejections' \in [Rows -> Nat]
      /\ \A m \in Rows : rejections'[m] >= rejections[m]
                         /\ (acks[m] = "retry" => rejections'[m] = rejections[m] + 1)
  BY DEF UploadAnswered, TypeOK
<1>4. TypeOK'
  BY <1>1, <1>2, <1>3 DEF TypeOK
<1>5. PassOK'
  BY <1>1, <1>2 DEF IInv, PassOK
<1>6. \A m \in Rows : row[m].retry_count <= rejections[m]
  BY DEF IInv, AckOK
<1>7. \A m \in Rows : /\ row[m].retry_count <= rejections'[m]
                      /\ acks[m] = "retry" => row[m].retry_count < rejections'[m]
  <2>1. ASSUME NEW m \in Rows
        PROVE  row[m].retry_count <= rejections'[m]
               /\ (acks[m] = "retry" => row[m].retry_count < rejections'[m])
    <3>1. row[m].retry_count \in Nat /\ rejections[m] \in Nat /\ rejections'[m] \in Nat
      BY <1>3, Columns
    <3> QED
      BY <3>1, <1>3, <1>6
  <2> QED
    BY <2>1
<1>8. pump.uploadable \subseteq Rows
  BY DEF TypeOK, Pump
<1>9. AckOK'
  BY <1>1, <1>2, <1>7, <1>8 DEF AckOK
<1>10. ASSUME NEW n \in Rows PROVE RowStep(n)
  BY <1>1, <1>3 DEF RowStep, Pending
<1>11. faults' >= faults
  BY <1>1, ConstantsAssumption DEF TypeOK
<1> QED
  BY <1>1, <1>4, <1>5, <1>9, <1>10, <1>11, Kept

LEMMA ClaimIInv == ASSUME IInv, NEW s \in SUBSET Due, Claim(s) PROVE IInv'
<1> TypeOK
  BY DEF IInv
<1>1. /\ pump.pc = "idle" /\ row' = Leased(s)
      /\ pump' = (IF s \cap Corrupt = {} THEN Continue(s, {}) ELSE Idle)
      /\ UNCHANGED <<shown, cloud, rejections, refused, dead, faults>>
  BY DEF Claim
<1>2. s \subseteq Rows /\ \A m \in s : row[m].stored /\ ~row[m].published
  BY DEF Due
<1>3. /\ pump' \in Pump /\ pump'.todo \subseteq s /\ pump'.uploadable = {} /\ pump'.current = {}
      /\ \A m \in pump'.todo : pump'.acks[m] = "none"
  <2>1. CASE pump' = Idle
    BY <2>1, IdleFacts
  <2>2. CASE pump' = Continue(s, {})
    <3>1. s \in SUBSET Rows /\ {} \in SUBSET Rows
      BY <1>2
    <3> QED
      BY <2>2, <3>1, <1>2, ContinueFacts
  <2> QED
    BY <1>1, <2>1, <2>2
<1>4. \A m \in Rows : /\ row'[m] \in Row /\ row'[m].stored = row[m].stored
                      /\ row'[m].published = row[m].published
                      /\ row'[m].bus_delivered = row[m].bus_delivered
                      /\ row'[m].retry_count = row[m].retry_count
  <2>1. ASSUME NEW m \in Rows
        PROVE  /\ row'[m] \in Row /\ row'[m].stored = row[m].stored
               /\ row'[m].published = row[m].published
               /\ row'[m].bus_delivered = row[m].bus_delivered
               /\ row'[m].retry_count = row[m].retry_count
    <3>1. CASE m \in s
      <4>1. row'[m] = OutboxRow(row[m].published, row[m].bus_delivered,
                                row[m].retry_count, LeaseTime, row[m].delay)
        BY <1>1, <3>1 DEF Leased
      <4>2. LeaseTime \in 0..LeaseTime
        BY ConstantsAssumption
      <4>3. row[m].stored = TRUE
        BY <1>2, <3>1, Columns
      <4> QED
        <5>1. /\ row'[m].stored = TRUE /\ row'[m].published = row[m].published
              /\ row'[m].bus_delivered = row[m].bus_delivered
              /\ row'[m].retry_count = row[m].retry_count
          BY <4>1 DEF OutboxRow
        <5>2. row'[m] \in Row
          BY <4>1, <4>2, Columns DEF OutboxRow, Row
        <5> QED
          BY <4>3, <5>1, <5>2
    <3>2. CASE m \notin s
      BY <1>1, <3>2 DEF Leased, TypeOK
    <3> QED
      BY <3>1, <3>2
  <2> QED
    BY <2>1
<1>5. row' \in [Rows -> Row]
  BY <1>1, <1>4 DEF Leased
<1>6. TypeOK'
  BY <1>1, <1>2, <1>3, <1>4, <1>5 DEF TypeOK
<1>7. PassOK'
  BY <1>2, <1>3, <1>4 DEF IInv, PassOK
<1>8. AckOK'
  BY <1>1, <1>3, <1>4 DEF IInv, AckOK
<1>9. ASSUME NEW n \in Rows PROVE RowStep(n)
  <2>1. rejections'[n] >= rejections[n]
    BY <1>1, Columns
  <2> QED
    BY <1>1, <1>4, <2>1 DEF RowStep, Pending
<1>10. faults' >= faults
  BY <1>1, ConstantsAssumption DEF TypeOK
<1> QED
  BY <1>1, <1>6, <1>7, <1>8, <1>9, <1>10, Kept

(* A statement that rewrites the row of m, after which the pump moves on *)
LEMMA RowMoves ==
    ASSUME IInv, NEW m \in Rows,
           row' \in [Rows -> Row], row'[m].stored, \A n \in Rows : n # m => row'[n] = row[n],
           pump' \in Pump, pump'.current = {},
           pump'.todo \subseteq pump.todo, pump'.uploadable \subseteq pump.uploadable,
           \A n \in pump'.todo : pump'.acks[n] \in {"none", pump.acks[n]},
           UNCHANGED <<shown, cloud, rejections, refused, dead, faults>>,
           \A n \in Rows : n # m => ~Pending("mark_bus", n) /\ ~Pending("close", n),
           row'[m].retry_count <= rejections[m],
           m \in pump'.todo => row'[m].retry_count = row[m].retry_count,
           row'[m].published => m \notin pump'.todo \cup pump'.uploadable,
           RowStep(m)
    PROVE  IInv'
<1> TypeOK
  BY DEF IInv
<1>0. /\ pump'.todo \subseteq Rows /\ pump'.uploadable \subseteq Rows
      /\ \A n \in pump'.todo \cup pump'.uploadable : row'[n].stored
  <2>1. pump'.todo \subseteq Rows /\ pump'.uploadable \subseteq Rows
    BY DEF Pump
  <2>2. \A n \in pump.todo \cup pump.uploadable : row[n].stored
    BY DEF TypeOK
  <2> QED
    BY <2>1, <2>2
<1>1. TypeOK'
  BY <1>0 DEF TypeOK
<1>2. PassOK'
  <2>1. \A n \in pump'.todo \cup pump'.uploadable : ~row'[n].published
    BY <1>0 DEF IInv, PassOK
  <2>2. \A n \in Rows : ~row'[n].stored => ~row'[n].published /\ ~row'[n].bus_delivered
    BY DEF IInv, PassOK
  <2> QED
    BY <2>1, <2>2 DEF PassOK
<1>3. AckOK'
  BY DEF IInv, AckOK, TypeOK, Pump
<1>4. ASSUME NEW n \in Rows, n # m PROVE RowStep(n)
  <2>1. rejections'[n] >= rejections[n]
    BY Columns
  <2> QED
    BY <1>4, <2>1 DEF RowStep
<1>5. faults' >= faults
  BY ConstantsAssumption DEF TypeOK
<1> QED
  BY <1>1, <1>2, <1>3, <1>4, <1>5, Kept

LEMMA MarkBusDeliveredIInv == ASSUME IInv, NEW m \in Rows, MarkBusDelivered(m) PROVE IInv'
<1> TypeOK
  BY DEF IInv
<1>1. /\ pump.pc = "mark_bus" /\ m \in pump.current
      /\ pump' = Continue(pump.todo, pump.uploadable)
      /\ UNCHANGED <<shown, cloud, rejections, refused, dead>>
  BY DEF MarkBusDelivered
<1>2. pump.todo \in SUBSET Rows /\ pump.uploadable \in SUBSET Rows
  BY DEF TypeOK, Pump
<1>3. /\ pump' \in Pump /\ pump'.todo = pump.todo /\ pump'.uploadable = pump.uploadable
      /\ pump'.current = {} /\ \A n \in Rows : pump'.acks[n] = "none"
  BY <1>1, <1>2, ContinueFacts
<1>4. CASE row' = row /\ Fault
  <2>1. /\ faults' \in 0..MaxFaults /\ faults' > faults /\ faults' >= faults
        /\ cloud \subseteq Rows /\ refused \subseteq Rows
    BY <1>4, ConstantsAssumption DEF TypeOK, Fault
  <2>2. /\ \A n \in pump'.todo : \/ pump'.acks[n] = "none"
                                 \/ n \in pump.todo /\ pump'.acks[n] = pump.acks[n]
        /\ pump'.todo \cup pump'.uploadable \subseteq pump.todo \cup pump.uploadable
    BY <1>2, <1>3
  <2>3. /\ UNCHANGED <<row, shown, rejections, dead>> /\ cloud' = cloud /\ refused' = refused
    BY <1>1, <1>4
  <2> QED
    BY <1>3, <2>1, <2>2, <2>3, PumpMoves
<1>5. CASE /\ row' = [row EXCEPT ![m] = OutboxRow(row[m].published, TRUE, row[m].retry_count,
                                                  row[m].lease, row[m].delay)]
           /\ faults' = faults
  <2>1. /\ row' \in [Rows -> Row] /\ row'[m].stored = TRUE
        /\ row'[m].published = row[m].published /\ row'[m].bus_delivered = TRUE
        /\ row'[m].retry_count = row[m].retry_count
        /\ \A n \in Rows : n # m => row'[n] = row[n]
    BY <1>5, Columns, RowWritten, ZenonT(60)
  <2>2. \A n \in Rows : n # m => ~Pending("mark_bus", n) /\ ~Pending("close", n)
    BY <1>1 DEF IInv, PassOK, Pending
  <2>3. /\ row[m].retry_count <= rejections[m]
        /\ m \in pump.todo \cup pump.uploadable => ~row[m].published
    BY DEF IInv, AckOK, PassOK
  <2>4. rejections'[m] >= rejections[m]
    BY <1>1, Columns
  <2>5. ~Pending("close", m)
    BY <1>1 DEF Pending
  <2>6. RowStep(m)
    BY <1>1, <2>1, <2>4, <2>5 DEF RowStep
  <2> QED
    BY <1>1, <1>2, <1>3, <1>5, <2>1, <2>2, <2>3, <2>6, RowMoves
<1> QED
  BY <1>4, <1>5 DEF MarkBusDelivered

(* Where the pump is when it applies the acknowledgement of m *)
LEMMA AckApplied ==
    ASSUME IInv, NEW m \in Rows, pump.pc = "acks", m \in pump.todo,
           pump' = NextAck(pump.todo \ {m})
    PROVE  /\ pump' \in Pump /\ pump'.todo = pump.todo \ {m} /\ pump'.uploadable = {}
           /\ pump'.current = {} /\ \A n \in pump'.todo : pump'.acks[n] = pump.acks[n]
           /\ ~row[m].published
           /\ \A n \in Rows : ~Pending("mark_bus", n) /\ ~Pending("close", n)
<1>1. TypeOK /\ pump.todo \ {m} \in SUBSET Rows
  BY DEF IInv, TypeOK, Pump
<1>2. ~row[m].published /\ \A n \in Rows : ~Pending("mark_bus", n) /\ ~Pending("close", n)
  BY DEF IInv, PassOK, Pending
<1> QED
  BY <1>1, <1>2, NextAckFacts

(* The statement fails: the row stays as it is, under its lease *)
LEMMA AckDropped ==
    ASSUME IInv, NEW m \in Rows, pump.pc = "acks", m \in pump.todo,
           pump' = NextAck(pump.todo \ {m}), Fault,
           UNCHANGED <<row, shown, cloud, rejections, refused, dead>>
    PROVE  IInv'
<1> TypeOK
  BY DEF IInv
<1>1. /\ faults' \in 0..MaxFaults /\ faults' >= faults
      /\ cloud \subseteq Rows /\ refused \subseteq Rows
  BY FaultCounted DEF TypeOK
<1> QED
  BY <1>1, AckApplied, PumpMoves

LEMMA MarkPublishedIInv == ASSUME IInv, NEW m \in Rows, MarkPublished(m) PROVE IInv'
<1> TypeOK
  BY DEF IInv
<1>1. /\ pump.pc = "acks" /\ m \in pump.todo /\ pump.acks[m] = "stored"
      /\ pump' = NextAck(pump.todo \ {m})
      /\ UNCHANGED <<shown, cloud, rejections, refused, dead>>
  BY DEF MarkPublished
<1>2. CASE row' = row /\ Fault
  BY <1>1, <1>2, AckDropped
<1>3. CASE /\ row' = [row EXCEPT ![m] = OutboxRow(TRUE, row[m].bus_delivered,
                                                  row[m].retry_count, 0, row[m].delay)]
           /\ faults' = faults
  <2>1. 0 \in 0..LeaseTime
    BY ConstantsAssumption
  <2>2. /\ row' \in [Rows -> Row] /\ row'[m].stored = TRUE
        /\ row'[m].published = TRUE /\ row'[m].bus_delivered = row[m].bus_delivered
        /\ row'[m].retry_count = row[m].retry_count
        /\ \A n \in Rows : n # m => row'[n] = row[n]
    BY <1>3, <2>1, Columns, RowWritten
  <2>3. /\ pump' \in Pump /\ pump'.todo = pump.todo \ {m} /\ pump'.uploadable = {}
        /\ pump'.current = {} /\ \A n \in pump'.todo : pump'.acks[n] = pump.acks[n]
        /\ \A n \in Rows : ~Pending("mark_bus", n) /\ ~Pending("close", n)
    BY <1>1, AckApplied
  <2>4. row[m].retry_count <= rejections[m] /\ m \in cloud
    BY <1>1 DEF IInv, AckOK
  <2>5. rejections'[m] >= rejections[m]
    BY <1>1, Columns
  <2>6. RowStep(m)
    BY <1>1, <2>2, <2>3, <2>4, <2>5 DEF RowStep
  <2> QED
    BY <1>1, <1>3, <2>2, <2>3, <2>4, <2>6, RowMoves
<1> QED
  BY <1>2, <1>3 DEF MarkPublished

LEMMA MarkFailedIInv ==
    ASSUME IInv, NEW m \in Rows, NEW delay \in 1..MaxDelay, MarkFailed(m, delay) PROVE IInv'
<1> TypeOK
  BY DEF IInv
<1>1. /\ pump.pc = "acks" /\ m \in pump.todo /\ pump.acks[m] = "retry"
      /\ pump' = NextAck(pump.todo \ {m})
      /\ UNCHANGED <<shown, cloud, rejections, refused, dead>>
  BY DEF MarkFailed
<1>2. CASE row' = row /\ Fault
  BY <1>1, <1>2, AckDropped
<1>3. CASE /\ row' = [row EXCEPT ![m] = OutboxRow(row[m].published, row[m].bus_delivered,
                                                  row[m].retry_count + 1, 0, delay)]
           /\ faults' = faults
  <2>1. 0 \in 0..LeaseTime /\ delay \in 0..MaxDelay /\ row[m].retry_count + 1 \in Nat
    BY ConstantsAssumption, Columns
  <2>2. /\ row' \in [Rows -> Row] /\ row'[m].stored = TRUE
        /\ row'[m].published = row[m].published /\ row'[m].bus_delivered = row[m].bus_delivered
        /\ row'[m].retry_count = row[m].retry_count + 1
        /\ \A n \in Rows : n # m => row'[n] = row[n]
    BY <1>3, <2>1, Columns, RowWritten, ZenonT(60)
  <2>3. /\ pump' \in Pump /\ pump'.todo = pump.todo \ {m} /\ pump'.uploadable = {}
        /\ pump'.current = {} /\ \A n \in pump'.todo : pump'.acks[n] = pump.acks[n]
        /\ \A n \in Rows : ~Pending("mark_bus", n) /\ ~Pending("close", n)
    BY <1>1, AckApplied
  <2>4. row[m].retry_count < rejections[m]
    BY <1>1 DEF IInv, AckOK
  <2>5. row'[m].retry_count <= rejections[m]
    BY <2>2, <2>4, Columns
  <2>6. rejections'[m] >= rejections[m]
    BY <1>1, Columns
  <2>7. RowStep(m)
    BY <1>1, <2>2, <2>3, <2>6 DEF RowStep
  <2> QED
    BY <1>1, <1>3, <2>2, <2>3, <2>5, <2>7, RowMoves
<1> QED
  BY <1>2, <1>3 DEF MarkFailed

LEMMA DeadLetterIInv == ASSUME IInv, NEW m \in Rows, DeadLetter(m) PROVE IInv'
<1> TypeOK
  BY DEF IInv
<1>1. /\ pump.pc = "acks" /\ m \in pump.todo
      /\ \/ pump.acks[m] = "rejected"
         \/ pump.acks[m] = "retry" /\ Exhausted(m)
      /\ UNCHANGED <<row, shown, cloud, rejections, refused>>
  BY DEF DeadLetter
<1>2. CASE Fault /\ pump' = NextAck(pump.todo \ {m}) /\ dead' = dead
  BY <1>1, <1>2, AckDropped
<1>3. CASE /\ dead' = [dead EXCEPT ![m] = @ + 1] /\ faults' = faults
           /\ pump' = Pass("close", pump.todo \ {m}, {}, pump.acks, {m})
  <2>1. /\ pump' \in Pump /\ pump'.pc = "close" /\ pump'.todo = pump.todo \ {m}
        /\ pump'.uploadable = {} /\ pump'.acks = pump.acks /\ pump'.current = {m}
    BY <1>3 DEF Pass, Pump, Points, TypeOK
  <2>2. /\ dead' \in [Rows -> Nat] /\ dead'[m] = dead[m] + 1 /\ dead'[m] > 0
        /\ \A n \in Rows : n # m => dead'[n] = dead[n]
    BY <1>3 DEF TypeOK
  <2>3. TypeOK'
    BY <1>1, <1>3, <2>1, <2>2 DEF TypeOK
  <2>4. PassOK'
    BY <1>1, <2>1 DEF IInv, PassOK
  <2>5. AckOK'
    BY <1>1, <2>1, <2>2 DEF IInv, AckOK
  <2>6. m \in refused \/ rejections[m] >= MaxAttempts
    <3>1. row[m].retry_count \in Nat /\ rejections[m] \in Nat /\ MaxAttempts \in Nat
      BY Columns, ConstantsAssumption
    <3>2. \/ m \in refused
          \/ row[m].retry_count < rejections[m] /\ row[m].retry_count + 1 >= MaxAttempts
      BY <1>1 DEF IInv, AckOK, Exhausted
    <3> QED
      BY <3>1, <3>2
  <2>7. dead[m] <= faults
    BY <1>1 DEF IInv, PaidOK, PassOK, Pending
  <2>8. ASSUME NEW n \in Rows PROVE RowStep(n)
    <3>1. rejections'[n] >= rejections[n] /\ row'[n] = row[n] /\ shown'[n] = shown[n]
      BY <1>1, Columns
    <3>2. ~Pending("mark_bus", n) /\ ~Pending("close", n)
      BY <1>1 DEF Pending
    <3>3. Pending("close", m)'
      BY <2>1 DEF Pending
    <3>4. CASE n = m
      BY <1>1, <2>2, <2>6, <2>7, <3>1, <3>2, <3>3, <3>4 DEF RowStep
    <3>5. CASE n # m
      BY <1>1, <2>2, <3>1, <3>2, <3>5 DEF RowStep
    <3> QED
      BY <3>4, <3>5
  <2>9. faults' >= faults
    BY <1>3, ConstantsAssumption DEF TypeOK
  <2> QED
    BY <1>1, <2>3, <2>4, <2>5, <2>8, <2>9, Kept
<1> QED
  BY <1>2, <1>3 DEF DeadLetter

LEMMA CloseRowIInv == ASSUME IInv, NEW m \in Rows, CloseRow(m) PROVE IInv'
<1> TypeOK
  BY DEF IInv
<1>1. /\ pump.pc = "close" /\ m \in pump.current /\ pump' = NextAck(pump.todo)
      /\ UNCHANGED <<shown, cloud, rejections, refused, dead>>
  BY DEF CloseRow
<1>2. pump.todo \in SUBSET Rows
  BY DEF TypeOK, Pump
<1>3. /\ pump' \in Pump /\ pump'.todo = pump.todo /\ pump'.uploadable = {}
      /\ pump'.current = {} /\ \A n \in pump'.todo : pump'.acks[n] = pump.acks[n]
  BY <1>1, <1>2, NextAckFacts
<1>4. CASE row' = row /\ Fault
  <2>1. /\ faults' \in 0..MaxFaults /\ faults' > faults /\ faults' >= faults
        /\ cloud \subseteq Rows /\ refused \subseteq Rows
    BY <1>4, ConstantsAssumption DEF TypeOK, Fault
  <2>2. UNCHANGED <<row, shown, rejections, dead>> /\ cloud' = cloud /\ refused' = refused
    BY <1>1, <1>4
  <2> QED
    BY <1>3, <2>1, <2>2, PumpMoves
<1>5. CASE /\ row' = [row EXCEPT ![m] = OutboxRow(TRUE, row[m].bus_delivered,
                                                  row[m].retry_count, row[m].lease, row[m].delay)]
           /\ faults' = faults
  <2>1. /\ row' \in [Rows -> Row] /\ row'[m].stored = TRUE
        /\ row'[m].published = TRUE /\ row'[m].bus_delivered = row[m].bus_delivered
        /\ row'[m].retry_count = row[m].retry_count
        /\ \A n \in Rows : n # m => row'[n] = row[n]
    BY <1>5, Columns, RowWritten
  <2>2. \A n \in Rows : n # m => ~Pending("mark_bus", n) /\ ~Pending("close", n)
    BY <1>1 DEF IInv, PassOK, Pending
  <2>3. row[m].retry_count <= rejections[m] /\ dead[m] > 0 /\ m \notin pump.todo
    BY <1>1 DEF IInv, AckOK, PassOK
  <2>4. rejections'[m] >= rejections[m]
    BY <1>1, Columns
  <2>5. ~Pending("mark_bus", m)
    BY <1>1 DEF Pending
  <2>6. RowStep(m)
    BY <1>1, <2>1, <2>3, <2>4, <2>5 DEF RowStep
  <2> QED
    BY <1>1, <1>2, <1>3, <1>5, <2>1, <2>2, <2>3, <2>6, RowMoves
<1> QED
  BY <1>4, <1>5 DEF CloseRow

LEMMA DeliverIInv == ASSUME IInv, NEW m \in Rows, Deliver(m) PROVE IInv'
<1> TypeOK
  BY DEF IInv
<1>1. /\ pump.pc = "deliver" /\ m \in pump.todo
      /\ UNCHANGED <<row, cloud, rejections, refused, dead, faults>>
  BY DEF Deliver
<1>2. /\ pump.todo \ {m} \in SUBSET Rows /\ pump.uploadable \in SUBSET Rows
      /\ pump.uploadable \cup {m} \in SUBSET Rows
  BY DEF TypeOK, Pump
<1>3. ASSUME NEW up \in SUBSET Rows, up \subseteq pump.uploadable \cup {m},
             pump' = Continue(pump.todo \ {m}, up), shown' = shown
      PROVE  IInv'
  <2>1. /\ pump' \in Pump /\ pump'.todo = pump.todo \ {m} /\ pump'.uploadable = up
        /\ pump'.current = {} /\ \A n \in Rows : pump'.acks[n] = "none"
    BY <1>2, <1>3, ContinueFacts
  <2>2. /\ \A n \in pump'.todo : \/ pump'.acks[n] = "none"
                                 \/ n \in pump.todo /\ pump'.acks[n] = pump.acks[n]
        /\ pump'.todo \cup pump'.uploadable \subseteq pump.todo \cup pump.uploadable
    BY <1>1, <1>2, <1>3, <2>1
  <2>3. /\ faults' \in 0..MaxFaults /\ faults' >= faults
        /\ cloud \subseteq Rows /\ refused \subseteq Rows
    BY <1>1, ConstantsAssumption DEF TypeOK
  <2>4. /\ UNCHANGED <<row, shown, rejections, dead>> /\ cloud' = cloud /\ refused' = refused
        /\ pump.pc \notin {"mark_bus", "close"}
    BY <1>1, <1>3
  <2> QED
    BY <2>1, <2>2, <2>3, <2>4, PumpMoves
<1>4. CASE /\ ~row[m].bus_delivered /\ shown' = [shown EXCEPT ![m] = @ + 1]
           /\ pump' = Pass("mark_bus", pump.todo \ {m}, pump.uploadable \cup {m}, NoAcks, {m})
  <2>1. NoAcks \in [Rows -> Acks] /\ \A n \in Rows : NoAcks[n] = "none"
    BY DEF NoAcks, Acks
  <2>2. /\ pump' \in Pump /\ pump'.pc = "mark_bus" /\ pump'.todo = pump.todo \ {m}
        /\ pump'.uploadable = pump.uploadable \cup {m} /\ pump'.acks = NoAcks
        /\ pump'.current = {m}
    BY <1>2, <1>4, <2>1 DEF Pass, Pump, Points
  <2>3. /\ shown' \in [Rows -> Nat] /\ shown'[m] = shown[m] + 1
        /\ \A n \in Rows : n # m => shown'[n] = shown[n]
    BY <1>4 DEF TypeOK
  <2>4. TypeOK'
    BY <1>1, <2>2, <2>3 DEF TypeOK
  <2>5. PassOK'
    BY <1>1, <2>2 DEF IInv, PassOK
  <2>6. AckOK'
    BY <1>1, <1>2, <2>1, <2>2 DEF IInv, AckOK
  <2>7. shown[m] <= faults
    BY <1>1, <1>4 DEF IInv, PaidOK, Pending
  <2>8. ASSUME NEW n \in Rows PROVE RowStep(n)
    <3>1. rejections'[n] >= rejections[n] /\ row'[n] = row[n] /\ dead'[n] = dead[n]
      BY <1>1, Columns
    <3>2. ~Pending("mark_bus", n) /\ ~Pending("close", n)
      BY <1>1 DEF Pending
    <3>3. Pending("mark_bus", m)'
      BY <2>2 DEF Pending
    <3>4. CASE n = m
      BY <2>3, <2>7, <3>1, <3>2, <3>3, <3>4 DEF RowStep
    <3>5. CASE n # m
      BY <2>3, <3>1, <3>2, <3>5 DEF RowStep
    <3> QED
      BY <3>4, <3>5
  <2>9. faults' >= faults
    BY <1>1, ConstantsAssumption DEF TypeOK
  <2> QED
    BY <1>1, <2>4, <2>5, <2>6, <2>8, <2>9, Kept
<1>5. pump.uploadable \subseteq pump.uploadable \cup {m}
  OBVIOUS
<1> QED
  BY <1>2, <1>3, <1>4, <1>5 DEF Deliver

LEMMA StoreIInv == ASSUME IInv, NEW m \in Rows, Store(m) PROVE IInv'
<1> TypeOK
  BY DEF IInv
<1>1. /\ ~row[m].stored /\ UNCHANGED <<pump, shown, cloud, rejections, refused, dead, faults>>
      /\ row' = [row EXCEPT ![m] = OutboxRow(FALSE, FALSE, 0, 0, 0)]
  BY DEF Store
<1>2. 0 \in 0..LeaseTime /\ 0 \in 0..MaxDelay /\ 0 \in Nat
  BY ConstantsAssumption
<1>3. /\ row' \in [Rows -> Row] /\ row'[m].stored = TRUE
      /\ row'[m].published = FALSE /\ row'[m].bus_delivered = FALSE /\ row'[m].retry_count = 0
      /\ \A n \in Rows : n # m => row'[n] = row[n]
  BY <1>1, <1>2, RowWritten
<1>4. m \notin pump.todo \cup pump.uploadable \cup pump.current
  BY <1>1 DEF TypeOK
<1>5. TypeOK'
  BY <1>1, <1>3 DEF TypeOK, Pump
<1>6. PassOK'
  BY <1>1, <1>3, <1>4 DEF IInv, PassOK, TypeOK, Pump
<1>7. AckOK'
  <2>1. \A n \in Rows : row'[n].retry_count <= rejections[n]
    BY <1>3, Columns DEF IInv, AckOK
  <2> QED
    BY <1>1, <1>3, <1>4, <2>1 DEF IInv, AckOK, TypeOK, Pump
<1>8. ASSUME NEW n \in Rows PROVE RowStep(n)
  <2>1. /\ rejections'[n] >= rejections[n] /\ shown'[n] = shown[n] /\ dead'[n] = dead[n]
        /\ Pending("mark_bus", n)' = Pending("mark_bus", n)
        /\ Pending("close", n)' = Pending("close", n)
    BY <1>1, Columns DEF Pending
  <2>2. CASE n # m
    BY <1>1, <1>3, <2>1, <2>2 DEF RowStep
  <2>3. CASE n = m
    <3>1. ~row[m].published /\ ~row[m].bus_delivered
      BY <1>1 DEF IInv, PassOK
    <3> QED
      BY <1>1, <1>3, <2>1, <2>3, <3>1 DEF RowStep
  <2> QED
    BY <2>2, <2>3
<1>9. faults' >= faults
  BY <1>1, ConstantsAssumption DEF TypeOK
<1> QED
  BY <1>1, <1>5, <1>6, <1>7, <1>8, <1>9, Kept

LEMMA TickIInv == ASSUME IInv, Tick PROVE IInv'
<1> TypeOK
  BY DEF IInv
<1>1. \A n \in Nat : \A t \in 0..n : Elapsed(t) \in 0..n
  BY DEF Elapsed
<1>2. UNCHANGED <<pump, shown, cloud, rejections, refused, dead, faults>>
  BY DEF Tick
<1>3. ASSUME NEW m \in Rows
      PROVE  /\ row'[m] \in Row /\ row'[m].stored = row[m].stored
             /\ row'[m].published = row[m].published
             /\ row'[m].bus_delivered = row[m].bus_delivered
             /\ row'[m].retry_count = row[m].retry_count
  <2>1. CASE ~row[m].stored
    BY <2>1 DEF Tick, TypeOK
  <2>2. CASE row[m].stored
    <3>1. row'[m] = OutboxRow(row[m].published, row[m].bus_delivered, row[m].retry_count,
                              Elapsed(row[m].lease), Elapsed(row[m].delay))
      BY <2>2 DEF Tick
    <3>2. Elapsed(row[m].lease) \in 0..LeaseTime /\ Elapsed(row[m].delay) \in 0..MaxDelay
      BY <1>1, Columns, ConstantsAssumption
    <3>3. /\ row'[m].stored = TRUE /\ row'[m].published = row[m].published
          /\ row'[m].bus_delivered = row[m].bus_delivered
          /\ row'[m].retry_count = row[m].retry_count
      BY <3>1 DEF OutboxRow
    <3>4. row'[m] \in Row
      BY <3>1, <3>2, Columns DEF OutboxRow, Row
    <3>5. row[m].stored = TRUE
      BY <2>2, Columns
    <3> QED
      BY <3>3, <3>4, <3>5
  <2> QED
    BY <2>1, <2>2
<1>4. row' \in [Rows -> Row]
  BY <1>3 DEF Tick
<1>5. TypeOK'
  BY <1>2, <1>3, <1>4 DEF TypeOK, Pump
<1>6. PassOK'
  BY <1>2, <1>3 DEF IInv, PassOK, TypeOK, Pump
<1>7. AckOK'
  BY <1>2, <1>3 DEF IInv, AckOK, TypeOK, Pump
<1>8. ASSUME NEW n \in Rows PROVE RowStep(n)
  <2>1. /\ rejections'[n] >= rejections[n] /\ shown'[n] = shown[n] /\ dead'[n] = dead[n]
        /\ Pending("mark_bus", n)' = Pending("mark_bus", n)
        /\ Pending("close", n)' = Pending("close", n)
    BY <1>2, Columns DEF Pending
  <2> QED
    BY <1>3, <2>1 DEF RowStep
<1>9. faults' >= faults
  BY <1>2, ConstantsAssumption DEF TypeOK
<1> QED
  BY <1>2, <1>5, <1>6, <1>7, <1>8, <1>9, Kept

-----------------------------------------------------------------------------
LEMMA NextIInv == IInv /\ [Next]_vars => IInv'
<1> SUFFICES ASSUME IInv, [Next]_vars PROVE IInv'
  OBVIOUS
<1>1. CASE UNCHANGED vars
  BY <1>1 DEF IInv, TypeOK, PassOK, AckOK, PaidOK, Pending, PublishedIsSettled,
     DeadLetterJustified, RepeatsBounded, DeadLettersBounded, vars
<1>2. CASE \E m \in Rows : Store(m)
  BY <1>2, StoreIInv
<1>3. CASE Restart
  BY <1>3, RestartIInv, Zenon
<1>4. CASE Tick
  BY <1>4, TickIInv, Zenon
<1>5. CASE PumpStep
  <2>1. CASE \E s \in Batches : Claim(s)
    BY <2>1, ClaimIInv DEF Batches
  <2>2. ASSUME NEW m \in Rows,
               \/ Deliver(m) \/ MarkBusDelivered(m) \/ NoAnswer(m)
               \/ MarkPublished(m) \/ DeadLetter(m) \/ CloseRow(m)
               \/ \E delay \in 1..MaxDelay : MarkFailed(m, delay)
        PROVE  IInv'
    BY <2>2, DeliverIInv, MarkBusDeliveredIInv, NoAnswerIInv, MarkPublishedIInv,
       DeadLetterIInv, CloseRowIInv, MarkFailedIInv
  <2>3. CASE \E landed \in SUBSET pump.uploadable : UploadFails(landed)
    BY <2>3, UploadFailsIInv
  <2>4. CASE Answered
    BY <2>4, UploadAnsweredIInv DEF Answered
  <2>5. CASE UploadRefused
    BY <2>5, UploadRefusedIInv
  <2> QED
    BY <1>5, <2>1, <2>2, <2>3, <2>4, <2>5 DEF PumpStep
<1> QED
  BY <1>1, <1>2, <1>3, <1>4, <1>5 DEF Next

THEOREM Invariance == Spec => []IInv
  BY InitIInv, NextIInv, PTL DEF Spec

(* Type correctness of the outbox table and of the pump *)
THEOREM TypeCorrect == Spec => []TypeOK
  BY Invariance, PTL DEF IInv

(* No event is lost on its way off the device, whatever the cloud answers,  *)
(* whichever answers are lost and wherever the client restarts              *)
THEOREM NothingLost == Spec => []PublishedIsSettled
  BY Invariance, PTL DEF IInv

(* An event is given up only when it was refused or rejected often enough;  *)
(* uploads that got no answer never bring it closer to the limit            *)
THEOREM DeadLettersJustified == Spec => []DeadLetterJustified
  BY Invariance, PTL DEF IInv

(* Repeated showings are paid for by faults, one each *)
THEOREM RepeatsPaid == Spec => []RepeatsBounded
  BY Invariance, PTL DEF IInv

(* Repeated dead_letter rows are paid for by faults, one each *)
THEOREM DeadLettersPaid == Spec => []DeadLettersBounded
  BY Invariance, PTL DEF IInv
=============================================================================
