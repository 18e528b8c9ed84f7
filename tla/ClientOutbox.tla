---------------------------- MODULE ClientOutbox ----------------------------
(***************************************************************************)
(* The offline outbox of a device: SqliteOutboxStore, the outbox pump of   *)
(* SyncAgent, which shows each event to the local user interface once and  *)
(* uploads it, and the cloud: the Worker's syncOutboxIngest, which refuses *)
(* a batch as a whole or answers with one acknowledgement per row.         *)
(*                                                                         *)
(* The pump is the only writer of a row once it is stored, so what it      *)
(* claimed and what the table holds agree until the pump itself writes.    *)
(* Times are relative to the clock and stop at 0, as in JobQueue.          *)
(***************************************************************************)
EXTENDS Naturals, FiniteSets

CONSTANTS
    Rows,          \* outbox rows, one per committed event
    Malformed,     \* rows whose payload column is not JSON text
    Corrupt,       \* rows whose vector_clock column does not decode
    Refusals,      \* the sets of batches a deployment may refuse as a whole
    MaxAttempts,   \* MAX_CLOUD_ATTEMPTS
    LeaseTime,     \* the lease window of claim_unpublished, in ticks
    MaxDelay,      \* the longest retry_backoff, in ticks
    BatchSize,     \* SyncAgentConfig.outbox_batch_size
    MaxFaults      \* bound: failing store calls and process restarts

ASSUME ConstantsAssumption ==
    /\ Malformed \subseteq Rows /\ Corrupt \subseteq Rows
    /\ Refusals \subseteq SUBSET SUBSET Rows
    /\ MaxAttempts \in Nat \ {0} /\ LeaseTime \in Nat \ {0} /\ MaxDelay \in Nat \ {0}
    /\ BatchSize \in Nat \ {0} /\ MaxFaults \in Nat

VARIABLES
    row,          \* the outbox table
    pump,         \* the pump: where it is, the rows it still has to handle
    shown,        \* per row: times it was published to the EventBus
    cloud,        \* rows the cloud has stored
    rejections,   \* per row: retryable rejections received
    refused,      \* rows the cloud refused for good
    dead,         \* per row: its rows in the dead_letter table
    faults,       \* failing store calls and restarts so far
    unacceptable  \* the batches that never get an answer: those with a body over
                  \* OUTBOX_MAX_BODY_BYTES, or all of them (no cloud uploader, or
                  \* a replica that belongs to somebody else); never changes

vars == <<unacceptable, row, pump, shown, cloud, rejections, refused, dead, faults>>

Row == [stored : BOOLEAN, published : BOOLEAN, bus_delivered : BOOLEAN,
        retry_count : Nat, lease : 0..LeaseTime, delay : 0..MaxDelay]

OutboxRow(published, bus_delivered, retry_count, lease, delay) ==
    [stored |-> TRUE, published |-> published, bus_delivered |-> bus_delivered,
     retry_count |-> retry_count, lease |-> lease, delay |-> delay]

NotStored == [stored |-> FALSE, published |-> FALSE, bus_delivered |-> FALSE,
              retry_count |-> 0, lease |-> 0, delay |-> 0]

Points == {"idle", "deliver", "mark_bus", "acks", "close"}
Acks == {"stored", "rejected", "retry", "none"}

Pump == [pc : Points, todo : SUBSET Rows, uploadable : SUBSET Rows,
         acks : [Rows -> Acks], current : SUBSET Rows]

NoAcks == [m \in Rows |-> "none"]

(* todo: rows not handled yet in this pass; current: the row whose second   *)
(* statement is still to come                                               *)
Pass(pc, todo, uploadable, acks, current) ==
    [pc |-> pc, todo |-> todo, uploadable |-> uploadable, acks |-> acks,
     current |-> current]

Idle == Pass("idle", {}, {}, NoAcks, {})

Init ==
    /\ row = [m \in Rows |-> NotStored]
    /\ pump = Idle
    /\ shown = [m \in Rows |-> 0]
    /\ cloud = {}
    /\ rejections = [m \in Rows |-> 0]
    /\ refused = {}
    /\ dead = [m \in Rows |-> 0]
    /\ faults = 0
    /\ unacceptable \in Refusals

-----------------------------------------------------------------------------
(* Helpers *)

Elapsed(time) == IF time = 0 THEN 0 ELSE time - 1
Fault == faults < MaxFaults /\ faults' = faults + 1

Due == {m \in Rows : /\ row[m].stored /\ ~row[m].published
                     /\ row[m].delay = 0 /\ row[m].lease = 0}

Batches ==
    {s \in SUBSET Due : \/ s = Due /\ Cardinality(s) <= BatchSize
                        \/ Cardinality(s) = BatchSize}

(* Seeded defect: the lease is one tick too long *)
LeasedTooLong(s) ==
    [m \in Rows |->
        IF m \in s
        THEN OutboxRow(row[m].published, row[m].bus_delivered, row[m].retry_count,
                       LeaseTime + 1, row[m].delay)
        ELSE row[m]]

Leased(s) ==
    [m \in Rows |->
        IF m \in s
        THEN OutboxRow(row[m].published, row[m].bus_delivered, row[m].retry_count,
                       LeaseTime, row[m].delay)
        ELSE row[m]]

(* The pump goes on with the rows of this pass, or ends it *)
Continue(todo, uploadable) ==
    IF todo # {} \/ uploadable # {}
    THEN Pass("deliver", todo, uploadable, NoAcks, {})
    ELSE Idle

NextAck(todo) == IF todo = {} THEN Idle ELSE Pass("acks", todo, {}, pump.acks, {})

-----------------------------------------------------------------------------
(* A unit of work commits an event together with its outbox row *)
Store(m) ==
    /\ ~row[m].stored
    /\ row' = [row EXCEPT ![m] = OutboxRow(FALSE, FALSE, 0, 0, 0)]
    /\ UNCHANGED <<unacceptable, pump, shown, cloud, rejections, refused, dead, faults>>

(* claim_unpublished.  The leases are committed before the rows are decoded: *)
(* one corrupt vector clock fails the call for the whole batch.              *)
Claim(s) ==
    /\ pump.pc = "idle" /\ s # {}
    /\ row' = Leased(s)
    /\ pump' = IF s \cap Corrupt = {} THEN Continue(s, {}) ELSE Idle
    /\ UNCHANGED <<unacceptable, shown, cloud, rejections, refused, dead, faults>>

(* Seeded defect: the row is shown whether or not it was shown before *)
DeliverAgain(m) ==
    /\ pump.pc = "deliver" /\ m \in pump.todo
    /\ shown' = [shown EXCEPT ![m] = @ + 1]
    /\ pump' = Pass("mark_bus", pump.todo \ {m}, pump.uploadable \cup {m}, NoAcks, {m})
    /\ UNCHANGED <<unacceptable, row, cloud, rejections, refused, dead, faults>>

(* The first loop of process_claimed, up to mark_bus_delivered.  A malformed *)
(* payload reaches the pump empty; dead_letter hands it to                   *)
(* SqliteDeadLetterStore::send, which parses it again and fails, so nothing  *)
(* is written and the row is left to its lease.                              *)
Deliver(m) ==
    /\ pump.pc = "deliver" /\ m \in pump.todo
    /\ \/ /\ m \in Malformed
          /\ pump' = Continue(pump.todo \ {m}, pump.uploadable)
          /\ shown' = shown
       \/ /\ m \notin Malformed /\ row[m].bus_delivered
          /\ pump' = Continue(pump.todo \ {m}, pump.uploadable \cup {m})
          /\ shown' = shown
       \/ /\ m \notin Malformed /\ ~row[m].bus_delivered
          /\ shown' = [shown EXCEPT ![m] = @ + 1]
          /\ pump' = Pass("mark_bus", pump.todo \ {m}, pump.uploadable \cup {m}, NoAcks, {m})
    /\ UNCHANGED <<unacceptable, row, cloud, rejections, refused, dead, faults>>

(* mark_bus_delivered; an error is logged and the row goes on to the upload *)
MarkBusDelivered(m) ==
    /\ pump.pc = "mark_bus" /\ m \in pump.current
    /\ \/ /\ row' = [row EXCEPT ![m] =
                OutboxRow(@.published, TRUE, @.retry_count, @.lease, @.delay)]
          /\ faults' = faults
       \/ row' = row /\ Fault
    /\ pump' = Continue(pump.todo, pump.uploadable)
    /\ UNCHANGED <<unacceptable, shown, cloud, rejections, refused, dead>>

(* Every claimed row is shown; the upload, if the agent has an uploader, is next *)
AtUpload == pump.pc = "deliver" /\ pump.todo = {}

(* What syncOutboxIngest decides for the whole batch before it looks at a row *)
Acceptable(batch) == batch \notin unacceptable

(* Seeded defect: a failed upload is taken for an answer to every row *)
UploadOffline(landed) ==
    /\ pump.pc = "deliver" /\ pump.todo = {}
    /\ landed \subseteq pump.uploadable
    /\ cloud' = cloud \cup landed
    /\ pump' = Pass("acks", pump.uploadable, {},
                    [m \in Rows |-> IF m \in pump.uploadable THEN "stored" ELSE "none"], {})
    /\ UNCHANGED <<unacceptable, row, shown, rejections, refused, dead, faults>>

(* Seeded defect: a failed upload counts as an attempt of every row *)
UploadFailsCounted(landed) ==
    /\ pump.pc = "deliver" /\ pump.todo = {}
    /\ cloud' = cloud \cup landed
    /\ row' = [m \in Rows |->
                IF m \in pump.uploadable
                THEN OutboxRow(FALSE, row[m].bus_delivered, row[m].retry_count + 1, 0, MaxDelay)
                ELSE row[m]]
    /\ pump' = Idle
    /\ UNCHANGED <<unacceptable, shown, rejections, refused, dead, faults>>

(* The upload gets no usable answer: unreachable, a server error, or an      *)
(* answer lost after the cloud stored the rows it takes.  The rows stay      *)
(* pending under their lease.                                                *)
UploadFails(landed) ==
    /\ AtUpload /\ Acceptable(pump.uploadable)
    /\ landed \subseteq pump.uploadable
    /\ cloud' = cloud \cup landed
    /\ pump' = Idle
    /\ UNCHANGED <<unacceptable, row, shown, rejections, refused, dead, faults>>

(* The agent has no uploader, or the Worker refuses the batch as a whole,    *)
(* for its size or for its owner, before it stores a row of it.  The agent   *)
(* takes that for an upload that failed, and sends the same rows again.      *)
UploadRefused ==
    /\ AtUpload /\ ~Acceptable(pump.uploadable)
    /\ pump' = Idle
    /\ UNCHANGED <<unacceptable, row, shown, cloud, rejections, refused, dead, faults>>

(* The cloud answers: it stores a row before it says so, INSERT OR IGNORE    *)
(* makes a second upload of a row harmless, and the agent reads a row that   *)
(* has no acknowledgement, or a retryable rejection, although the Worker     *)
(* sends neither.                                                            *)
UploadAnswered(acks) ==
    /\ AtUpload /\ Acceptable(pump.uploadable)
    /\ \A m \in Rows \ pump.uploadable : acks[m] = "none"
    /\ cloud' = cloud \cup {m \in Rows : acks[m] = "stored"}
    /\ refused' = refused \cup {m \in Rows : acks[m] = "rejected"}
    /\ rejections' = [m \in Rows |->
                        IF acks[m] = "retry" THEN rejections[m] + 1 ELSE rejections[m]]
    /\ pump' = Pass("acks", pump.uploadable, {}, acks, {})
    /\ UNCHANGED <<unacceptable, row, shown, dead, faults>>

(* A row without an acknowledgement is left pending *)
NoAnswer(m) ==
    /\ pump.pc = "acks" /\ m \in pump.todo /\ pump.acks[m] = "none"
    /\ pump' = NextAck(pump.todo \ {m})
    /\ UNCHANGED <<unacceptable, row, shown, cloud, rejections, refused, dead, faults>>

(* Seeded defect: mark_published gives the lease back and no more *)
MarkPublishedUnset(m) ==
    /\ pump.pc = "acks" /\ m \in pump.todo /\ pump.acks[m] = "stored"
    /\ row' = [row EXCEPT ![m] =
                OutboxRow(FALSE, @.bus_delivered, @.retry_count, 0, @.delay)]
    /\ pump' = NextAck(pump.todo \ {m})
    /\ UNCHANGED <<unacceptable, shown, cloud, rejections, refused, dead, faults>>

(* mark_published *)
MarkPublished(m) ==
    /\ pump.pc = "acks" /\ m \in pump.todo /\ pump.acks[m] = "stored"
    /\ \/ /\ row' = [row EXCEPT ![m] =
                OutboxRow(TRUE, @.bus_delivered, @.retry_count, 0, @.delay)]
          /\ faults' = faults
       \/ row' = row /\ Fault
    /\ pump' = NextAck(pump.todo \ {m})
    /\ UNCHANGED <<unacceptable, shown, cloud, rejections, refused, dead>>

Exhausted(m) == row[m].retry_count + 1 >= MaxAttempts

(* mark_failed, with the backoff of the attempt *)
MarkFailed(m, delay) ==
    /\ pump.pc = "acks" /\ m \in pump.todo /\ pump.acks[m] = "retry" /\ ~Exhausted(m)
    /\ \/ /\ row' = [row EXCEPT ![m] =
                OutboxRow(@.published, @.bus_delivered, @.retry_count + 1, 0, delay)]
          /\ faults' = faults
       \/ row' = row /\ Fault
    /\ pump' = NextAck(pump.todo \ {m})
    /\ UNCHANGED <<unacceptable, shown, cloud, rejections, refused, dead>>

(* The INSERT of dead_letter_row, for a row refused or out of attempts *)
DeadLetter(m) ==
    /\ pump.pc = "acks" /\ m \in pump.todo
    /\ \/ pump.acks[m] = "rejected"
       \/ pump.acks[m] = "retry" /\ Exhausted(m)
    /\ \/ /\ dead' = [dead EXCEPT ![m] = @ + 1]
          /\ pump' = Pass("close", pump.todo \ {m}, {}, pump.acks, {m})
          /\ faults' = faults
       \/ /\ Fault
          /\ pump' = NextAck(pump.todo \ {m})
          /\ dead' = dead
    /\ UNCHANGED <<unacceptable, row, shown, cloud, rejections, refused>>

(* Seeded defect: the UPDATE is missing *)
CloseForgotten(m) ==
    /\ pump.pc = "close" /\ m \in pump.current
    /\ pump' = NextAck(pump.todo)
    /\ UNCHANGED <<unacceptable, row, shown, cloud, rejections, refused, dead, faults>>

(* Its UPDATE, a second statement outside any transaction *)
CloseRow(m) ==
    /\ pump.pc = "close" /\ m \in pump.current
    /\ \/ /\ row' = [row EXCEPT ![m] =
                OutboxRow(TRUE, @.bus_delivered, @.retry_count, @.lease, @.delay)]
          /\ faults' = faults
       \/ row' = row /\ Fault
    /\ pump' = NextAck(pump.todo)
    /\ UNCHANGED <<unacceptable, shown, cloud, rejections, refused, dead>>

(* The client process ends and starts again; the table survives *)
Restart ==
    /\ pump # Idle /\ Fault
    /\ pump' = Idle
    /\ UNCHANGED <<unacceptable, row, shown, cloud, rejections, refused, dead>>

Tick ==
    /\ row' = [m \in Rows |->
                IF row[m].stored
                THEN OutboxRow(row[m].published, row[m].bus_delivered, row[m].retry_count,
                               Elapsed(row[m].lease), Elapsed(row[m].delay))
                ELSE row[m]]
    /\ UNCHANGED <<unacceptable, pump, shown, cloud, rejections, refused, dead, faults>>

Answered == \E acks \in [Rows -> Acks] : UploadAnswered(acks)

PumpStep ==
    \/ \E s \in Batches : Claim(s)
    \/ \E m \in Rows : \/ Deliver(m) \/ MarkBusDelivered(m) \/ NoAnswer(m)
                       \/ MarkPublished(m) \/ DeadLetter(m) \/ CloseRow(m)
                       \/ \E delay \in 1..MaxDelay : MarkFailed(m, delay)
    \/ \E landed \in SUBSET pump.uploadable : UploadFails(landed)
    \/ UploadRefused
    \/ Answered

Next ==
    \/ \E m \in Rows : Store(m)
    \/ PumpStep
    \/ Restart
    \/ Tick

Spec == Init /\ [][Next]_vars

(* The pump's loop and the clock go on, and the cloud, however often it is    *)
(* out of reach, answers for a row again and again when it is sent in a batch *)
(* that is not refused as a whole                                             *)
AnsweredFor(m) ==
    \E acks \in [Rows -> Acks] : acks[m] # "none" /\ UploadAnswered(acks)

FairSpec ==
    /\ Spec
    /\ WF_vars(PumpStep)
    /\ WF_vars(Tick)
    /\ \A m \in Rows : SF_vars(AnsweredFor(m))

-----------------------------------------------------------------------------
(* Properties *)

(* Each table column and each field of the pump stays in its range; a row is  *)
(* never claimed before a unit of work stored it                              *)
TypeOK ==
    /\ row \in [Rows -> Row]
    /\ pump \in Pump
    /\ shown \in [Rows -> Nat]
    /\ cloud \subseteq Rows /\ refused \subseteq Rows
    /\ rejections \in [Rows -> Nat]
    /\ dead \in [Rows -> Nat]
    /\ faults \in 0..MaxFaults
    /\ \A m \in pump.todo \cup pump.uploadable \cup pump.current : row[m].stored

(* No event is lost on its way off the device: a row leaves the outbox only   *)
(* when the cloud holds it or the dead_letter table does (mark_published,     *)
(* dead_letter), whatever answers, answer losses and restarts came before     *)
PublishedIsSettled ==
    \A m \in Rows : row[m].published => m \in cloud \/ dead[m] > 0

(* An event is given up only when the cloud refused it for good or rejected   *)
(* it MAX_CLOUD_ATTEMPTS times; being offline is never counted as an attempt  *)
(* (process_claimed, apply_acks)                                              *)
DeadLetterJustified ==
    \A m \in Rows : dead[m] > 0 => m \in refused \/ rejections[m] >= MaxAttempts

(* The user interface sees an event a second time only after a failing        *)
(* mark_bus_delivered or a restart between the two steps, once for each       *)
RepeatsBounded == \A m \in Rows : shown[m] <= 1 + faults

(* An event gets a second dead_letter row only after a failing second         *)
(* statement of dead_letter or a restart between the two, once for each       *)
DeadLettersBounded == \A m \in Rows : dead[m] <= 1 + faults

(* The pump is about to send a batch that is refused as a whole *)
RefusedWhole == AtUpload /\ ~Acceptable(pump.uploadable)

(* Every readable event a unit of work stored leaves the outbox in the end,   *)
(* to the cloud or to the dead_letter table, although the device goes offline *)
(* again and again, answers are lost and the client restarts.  The one        *)
(* exception: process_claimed sends for ever batches that are refused as a    *)
(* whole.  That counts as an attempt of no row and leaves the order of   *)
(* the claims as it is, so the same rows come first again, and neither they   *)
(* nor the rows behind them leave.                                            *)
RowsSettle ==
    \A m \in Rows \ (Malformed \cup Corrupt) :
        \/ row[m].stored ~> row[m].published
        \/ []<>RefusedWhole

=============================================================================
