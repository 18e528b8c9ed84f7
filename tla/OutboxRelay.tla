---------------------------- MODULE OutboxRelay ----------------------------
(***************************************************************************)
(* The transactional outbox of the server and the relays that drain it:    *)
(* PostgresOutboxStore, PostgresDeadLetterStore and the worker's           *)
(* run_outbox_relay, one relay per worker process.                         *)
(*                                                                         *)
(* A relay claims a batch under a lease, spawns one task per message and   *)
(* joins them all before it polls again.  Neither mark_published nor       *)
(* mark_failed looks at the lease token, so a task that outlived its lease *)
(* still changes the row; tokens are therefore left out of the rows, and   *)
(* each task keeps instead the time left of the lease it was given.        *)
(*                                                                         *)
(* Times are relative to the clock and stop at 0, as in JobQueue.          *)
(***************************************************************************)
EXTENDS Naturals, FiniteSets

CONSTANTS
    Messages,     \* events, one outbox row each
    WorkerEvents, \* the events of the worker's jobs: vector_clock '{}'
    Relays,       \* worker processes, each with one relay loop
    MaxRetries,   \* RelayConfig.max_retries
    LeaseTime,    \* the lease window of claim_unpublished, in ticks
    MaxDelay,     \* the longest retry_after, in ticks
    BatchSize,    \* RelayConfig.batch_size
    MaxFaults,    \* bound: store errors and process crashes
    MaxRows       \* bound: dead_letter rows of a message that are told apart

ASSUME ConstantsAssumption ==
    /\ WorkerEvents \subseteq Messages
    /\ MaxRetries \in Nat /\ LeaseTime \in Nat \ {0} /\ MaxDelay \in Nat \ {0}
    /\ BatchSize \in Nat \ {0} /\ MaxFaults \in Nat /\ MaxRows \in Nat \ {0}

VARIABLES
    row,         \* the outbox table
    task,        \* per relay and message: the spawned process_message
    delivered,   \* per message: times the broker took it
    refused,     \* messages the broker refused for good
    dead,        \* per message: its rows in the dead_letter table, up to MaxRows
    faults       \* store errors and crashes so far

vars == <<row, task, delivered, refused, dead, faults>>

Row == [stored : BOOLEAN, published : BOOLEAN, retry_count : Nat,
        lease : 0..LeaseTime, delay : 0..MaxDelay]

OutboxRow(stored, published, retry_count, lease, delay) ==
    [stored |-> stored, published |-> published, retry_count |-> retry_count,
     lease |-> lease, delay |-> delay]

Points == {"idle", "process", "mark_published", "mark_failed", "dead_letter"}

Task == [pc : Points, retry_count : Nat, window : 0..LeaseTime]

ProcessMessage(pc, retry_count, window) ==
    [pc |-> pc, retry_count |-> retry_count, window |-> window]

Idle == ProcessMessage("idle", 0, 0)

Init ==
    /\ row = [m \in Messages |-> OutboxRow(FALSE, FALSE, 0, 0, 0)]
    /\ task = [r \in Relays |-> [m \in Messages |-> Idle]]
    /\ delivered = [m \in Messages |-> 0]
    /\ refused = {}
    /\ dead = [m \in Messages |-> 0]
    /\ faults = 0

-----------------------------------------------------------------------------
(* Helpers *)

Saturated(n, limit) == IF n < limit THEN n ELSE limit
Elapsed(time) == IF time = 0 THEN 0 ELSE time - 1

At(r, m, pc) == task[r][m].pc = pc
Goto(r, m, pc) ==
    task' = [task EXCEPT ![r] = [task[r] EXCEPT ![m] =
        ProcessMessage(pc, task[r][m].retry_count, task[r][m].window)]]
Finish(r, m) ==
    task' = [task EXCEPT ![r] = [task[r] EXCEPT ![m] = Idle]]

Fault == faults < MaxFaults /\ faults' = faults + 1

(* Seeded defect: the query forgets published = FALSE *)
DueAlthoughPublished ==
    {m \in Messages : row[m].stored /\ row[m].delay = 0 /\ row[m].lease = 0}

(* WHERE published = FALSE AND next_attempt_at <= NOW() AND the lease is over *)
Due == {m \in Messages : /\ row[m].stored /\ ~row[m].published
                         /\ row[m].delay = 0 /\ row[m].lease = 0}

(* What SELECT ... LIMIT may return; rows already due are not told apart *)
Batches ==
    {s \in SUBSET Due : \/ s = Due /\ Cardinality(s) <= BatchSize
                        \/ Cardinality(s) = BatchSize}

(* Seeded defect: the lease is one tick too long *)
LeasedTooLong(s) ==
    [m \in Messages |->
        IF m \in s
        THEN OutboxRow(TRUE, row[m].published, row[m].retry_count, LeaseTime + 1, row[m].delay)
        ELSE row[m]]

(* Seeded defect: a row counts as published from the moment it is claimed *)
LeasedAsPublished(s) ==
    [m \in Messages |->
        IF m \in s
        THEN OutboxRow(TRUE, TRUE, row[m].retry_count, LeaseTime, row[m].delay)
        ELSE row[m]]

Leased(s) ==
    [m \in Messages |->
        IF m \in s
        THEN OutboxRow(TRUE, row[m].published, row[m].retry_count, LeaseTime, row[m].delay)
        ELSE row[m]]

Spawned(s) ==
    [m \in Messages |->
        IF m \in s THEN ProcessMessage("process", row[m].retry_count, LeaseTime) ELSE Idle]

Published(m) ==
    [row EXCEPT ![m] = OutboxRow(TRUE, TRUE, row[m].retry_count, 0, row[m].delay)]

(* Seeded defect: mark_failed does not count the retry *)
FailedUncounted(m, delay) ==
    [row EXCEPT ![m] = OutboxRow(TRUE, row[m].published, row[m].retry_count, 0, delay)]

Failed(m, delay) ==
    [row EXCEPT ![m] =
        OutboxRow(TRUE, row[m].published, row[m].retry_count + 1, 0, delay)]

-----------------------------------------------------------------------------
InsertRow(m) ==
    /\ ~row[m].stored
    /\ row' = [row EXCEPT ![m] = OutboxRow(TRUE, FALSE, 0, 0, 0)]
    /\ UNCHANGED <<task, delivered, refused, dead, faults>>

(* A unit of work commits an event together with its outbox row *)
Store(m) == m \notin WorkerEvents /\ InsertRow(m)

(* So does a job of the worker: execute_timeline_trigger and                *)
(* execute_staff_loan_expiry, whose rows have the vector_clock '{}'         *)
StoreByJob(m) == m \in WorkerEvents /\ InsertRow(m)

(* A VectorClock has a field "entries" without a default: '{}' is not one *)
Decodable(s) == s \cap WorkerEvents = {}

(* One poll.  The leases are committed before the rows are decoded: one row *)
(* that does not decode fails the call for its whole batch, as a lost       *)
(* answer does, and the batch is leased to nobody.                          *)
Claim(r, s) ==
    /\ \A m \in Messages : At(r, m, "idle")
    /\ row' = Leased(s)
    /\ \/ /\ Decodable(s)
          /\ task' = [task EXCEPT ![r] = Spawned(s)]
          /\ faults' = faults
       \/ /\ ~Decodable(s)
          /\ task' = task
          /\ faults' = faults
       \/ /\ Fault
          /\ task' = task
    /\ UNCHANGED <<delivered, refused, dead>>

(* Seeded defect: a transient error is treated as success *)
PublishSwallowsError(r, m) ==
    /\ At(r, m, "process") /\ task[r][m].retry_count < MaxRetries
    /\ \/ delivered' = [delivered EXCEPT ![m] = @ + 1]
       \/ delivered' = delivered
    /\ Goto(r, m, "mark_published")
    /\ UNCHANGED <<row, refused, dead, faults>>

(* publisher.publish: delivered; failed for now, the broker having taken the *)
(* message or not; refused                                                   *)
Publish(r, m) ==
    /\ At(r, m, "process") /\ task[r][m].retry_count < MaxRetries
    /\ \/ /\ delivered' = [delivered EXCEPT ![m] = @ + 1]
          /\ \/ Goto(r, m, "mark_published")
             \/ Goto(r, m, "mark_failed")
          /\ refused' = refused
       \/ /\ Goto(r, m, "mark_failed")
          /\ UNCHANGED <<delivered, refused>>
       \/ /\ Goto(r, m, "dead_letter")
          /\ refused' = refused \cup {m}
          /\ delivered' = delivered
    /\ UNCHANGED <<row, dead, faults>>

(* Seeded defect: gives up one retry early *)
SendDeadLetterEarly(r, m) ==
    /\ \/ At(r, m, "process") /\ task[r][m].retry_count + 1 >= MaxRetries
       \/ At(r, m, "dead_letter")
    /\ Finish(r, m)
    /\ dead' = [dead EXCEPT ![m] = Saturated(dead[m] + 1, MaxRows)]
    /\ UNCHANGED <<row, delivered, refused, faults>>

(* dead_letter.send, a plain INSERT, for a message out of retries or refused. *)
(* On success the task returns: nothing is written to the outbox row.         *)
SendDeadLetter(r, m) ==
    /\ \/ At(r, m, "process") /\ task[r][m].retry_count >= MaxRetries
       \/ At(r, m, "dead_letter")
    /\ \/ /\ Finish(r, m)
          /\ dead' = [dead EXCEPT ![m] = Saturated(dead[m] + 1, MaxRows)]
          /\ faults' = faults
       \/ /\ Fault
          /\ Goto(r, m, "mark_failed")
          /\ dead' = dead
    /\ UNCHANGED <<row, delivered, refused>>

MarkPublished(r, m) ==
    /\ At(r, m, "mark_published")
    /\ Finish(r, m)
    /\ \/ row' = Published(m) /\ faults' = faults
       \/ row' = row /\ Fault
    /\ UNCHANGED <<delivered, refused, dead>>

MarkFailed(r, m) ==
    /\ At(r, m, "mark_failed")
    /\ Finish(r, m)
    /\ \/ /\ \E delay \in 1..MaxDelay : row' = Failed(m, delay)
          /\ faults' = faults
       \/ row' = row /\ Fault
    /\ UNCHANGED <<delivered, refused, dead>>

(* The worker process is killed and started again *)
Crash(r) ==
    /\ Fault
    /\ task' = [task EXCEPT ![r] = [m \in Messages |-> Idle]]
    /\ UNCHANGED <<row, delivered, refused, dead>>

Tick ==
    /\ row' = [m \in Messages |->
          OutboxRow(row[m].stored, row[m].published, row[m].retry_count,
                    Elapsed(row[m].lease), Elapsed(row[m].delay))]
    /\ task' = [r \in Relays |-> [m \in Messages |->
          ProcessMessage(task[r][m].pc, task[r][m].retry_count, Elapsed(task[r][m].window))]]
    /\ UNCHANGED <<delivered, refused, dead, faults>>

Poll(r) == \E s \in Batches : Claim(r, s)

Process(r, m) ==
    Publish(r, m) \/ SendDeadLetter(r, m) \/ MarkPublished(r, m) \/ MarkFailed(r, m)

Next ==
    \/ \E m \in Messages : Store(m) \/ StoreByJob(m)
    \/ \E r \in Relays : Poll(r) \/ Crash(r) \/ \E m \in Messages : Process(r, m)
    \/ Tick

Spec == Init /\ [][Next]_vars

(* The runtime polls every spawned task and the interval timer; time passes *)
FairSpec ==
    /\ Spec
    /\ \A r \in Relays : WF_vars(Poll(r)) /\ \A m \in Messages : WF_vars(Process(r, m))
    /\ WF_vars(Tick)

-----------------------------------------------------------------------------
(* TypeOK: every column of the outbox table and every local of a spawned     *)
(* process_message stays in its range; no lease outlasts the claim's window. *)
TypeOK ==
    /\ row \in [Messages -> Row]
    /\ task \in [Relays -> [Messages -> Task]]
    /\ delivered \in [Messages -> Nat]
    /\ refused \in SUBSET Messages
    /\ dead \in [Messages -> 0..MaxRows]
    /\ faults \in 0..MaxFaults

(* PublishedWasDelivered: whatever leases expired, tasks went stale, answers *)
(* got lost or processes died, a row is marked published only after the      *)
(* broker took its message: no event is silently dropped.                    *)
PublishedWasDelivered ==
    \A m \in Messages : row[m].published => delivered[m] > 0

(* DeadLetterJustified: process_message decides on the retry_count it was    *)
(* claimed with; still, only messages out of retries or refused by the       *)
(* broker ever reach the dead_letter table.                                  *)
DeadLetterJustified ==
    \A m \in Messages :
        dead[m] > 0 => row[m].retry_count >= MaxRetries \/ m \in refused

(* DuplicatesBounded: although leases are not fenced, the broker takes one   *)
(* message at most once per retry it has, plus once per other relay that     *)
(* works on a stale claim and per fault.                                     *)
DuplicatesBounded ==
    \A m \in Messages :
        delivered[m] <= MaxRetries + (Cardinality(Relays) - 1) + faults

(* PublishedNeverWorkedAgain: once a row is published no relay claims it,    *)
(* whatever stale tasks still do to it.                                      *)
PublishedNeverWorkedAgain ==
    [][\A r \in Relays, m \in Messages :
        row[m].published =>
            /\ row'[m].published
            /\ task[r][m].pc = "idle" => task'[r][m].pc = "idle"]_vars

(* The last claim of m failed on a worker's event in the same batch: the two *)
(* rows run out the same lease and nobody works on m                         *)
LeasedInVain(m) ==
    /\ row[m].lease > 0 /\ \A r \in Relays : At(r, m, "idle")
    /\ \E u \in WorkerEvents : row[u].lease = row[m].lease

(* DeliveredOrDeadLettered: every event a unit of work stored is eventually  *)
(* taken by the broker or put into the dead_letter table, even if every      *)
(* publish fails.  One thing keeps it waiting: that again and again a claim  *)
(* takes it together with a worker's event, which claim_unpublished cannot   *)
(* decode, so that it is leased in vain for ever.                            *)
DeliveredOrDeadLettered ==
    \A m \in Messages \ WorkerEvents :
        \/ row[m].stored ~> (delivered[m] > 0 \/ dead[m] > 0)
        \/ []<>LeasedInVain(m)

-----------------------------------------------------------------------------
(* A claim of the comments that the code does not keep *)

(* LeasePreventsDuplicates: while the lease window of a relay's claim is     *)
(* open, no other relay works on that message under an open window.          *)
LeasePreventsDuplicates ==
    \A q, r \in Relays : \A m \in Messages :
        /\ ~At(q, m, "idle") /\ task[q][m].window > 0
        /\ ~At(r, m, "idle") /\ task[r][m].window > 0
        => q = r
=============================================================================
