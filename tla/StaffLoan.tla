----------------------------- MODULE StaffLoan -----------------------------
(***************************************************************************)
(* One staff loan and everyone who writes it: the commands of the people   *)
(* concerned (routes/command.rs, todo-domain/src/aggregate.rs), the        *)
(* scheduler that scans for loans about to end                             *)
(* (bins/worker/src/staff_loan_scheduler.rs) and the two jobs it enqueues  *)
(* (bins/worker/src/job_runner.rs), which write the row with SQL of their  *)
(* own instead of the command pipeline.                                    *)
(*                                                                         *)
(* From CommandPipeline this module keeps the load and the guarded commit; *)
(* from JobQueue that a job is enqueued once per key and runs under a      *)
(* lease, that an expired lease lets a second worker run it as well, and   *)
(* that an error of the queue ends the runner.                             *)
(***************************************************************************)
EXTENDS Naturals, FiniteSets

CONSTANTS
    Requests,     \* requests the server executes at the same time
    Workers,      \* worker processes
    Lead,         \* ADVANCE_WARNING_LEAD, in clock ticks
    FirstEnd,     \* window.end_at of the loan as requested
    MaxTime,      \* bound: the clock stops here and no window ends later
    MaxVersion,   \* bound: commands accepted
    MaxAhead,     \* bound: how far expected_version is ahead of the row
    MaxFaults     \* bound: failing queries and jobs, lost leases, restarts

ASSUME ConstantsAssumption ==
    /\ Lead \in Nat /\ FirstEnd \in Nat /\ MaxTime \in Nat /\ MaxVersion \in Nat
    /\ MaxAhead \in Nat /\ MaxFaults \in Nat
    /\ FirstEnd <= MaxTime

VARIABLES
    now,         \* the clock
    row,         \* the loan in the aggregates table
    events,      \* aggregate_version of its rows in domain_events and outbox
    request,     \* per request: program counter and locals
    job,         \* per job type of this loan: its row in the jobs table
    execution,   \* per worker: where its job runner is, and with which job
    schedulers,  \* the workers whose staff-loan scheduler still runs
    sent,        \* per job type: how often its notifications were sent
    lost,        \* per job type: leases that ran out during an execution
    faults       \* faults so far

vars == <<now, row, events, request, job, execution, schedulers, sent, lost, faults>>
worker == <<job, execution, schedulers, sent, lost, faults>>

People == {"owner", "borrower", "superior", "chief"}
CommandTypes == {"approve", "decline", "extend", "end_early", "escalate", "expire"}
JobTypes == {"warning", "expiry"}
Live == {"Active", "Extended"}
Closed == {"Declined", "Ended", "Expired"}
None == 0
Nobody == "nobody"

(* The state document; version is the field inside the document.  The      *)
(* domain type has no advance_warning_sent_at: only the worker's SQL        *)
(* writes "warned", and a document serialised by a command lacks it.        *)
Loan(status, end_at, pending, escalated_to, version, warned) ==
    [status |-> status, end_at |-> end_at, pending |-> pending,
     escalated_to |-> escalated_to, version |-> version, warned |-> warned]

Row(version, loan) == [version |-> version, loan |-> loan]

(* The command a payload holds, with its end_at or escalated_to if it has one *)
Command(kind, end_at, to) == [kind |-> kind, end_at |-> end_at, to |-> to]

(* named is the command_type of the envelope, checked the version of the row *)
(* the authority was checked on                                              *)
Request(pc, actor, named, command, expected, checked, loan) ==
    [pc |-> pc, actor |-> actor, named |-> named, command |-> command,
     expected |-> expected, checked |-> checked, loan |-> loan]

(* The payload of an escalation, and of a request that has been decided, is   *)
(* of no more use                                                             *)
NoCommand == Command("approve", None, Nobody)

Job(status, holder) == [status |-> status, holder |-> holder]

Requested == Loan("Requested", FirstEnd, None, Nobody, 0, FALSE)

Idle == Request("idle", "owner", "approve", NoCommand, 0, 0, Requested)

Init ==
    /\ now = 0
    /\ row = Row(0, Requested)
    /\ events = {}
    /\ request = [c \in Requests |-> Idle]
    /\ job = [j \in JobTypes |-> Job("absent", Nobody)]
    /\ execution = [w \in Workers |-> <<"idle", "warning">>]
    /\ schedulers = Workers
    /\ sent = [j \in JobTypes |-> 0]
    /\ lost = [j \in JobTypes |-> 0]
    /\ faults = 0

Fault == faults < MaxFaults /\ faults' = faults + 1

-----------------------------------------------------------------------------
(* The aggregate *)

(* Who decides on a request: the real owner until an escalation replaces    *)
(* them                                                                     *)
DecisionMaker(loan) == IF loan.escalated_to = Nobody THEN "owner" ELSE loan.escalated_to

(* grants_approval_authority_to *)
GrantsApproval(loan, person) ==
    \/ /\ loan.status = "Requested"
       /\ person = DecisionMaker(loan)
    \/ /\ loan.status \in Live
       /\ loan.pending # None
       /\ person = "owner"

(* require_staff_loan_authority *)
Authorized(loan, person, named) ==
    CASE named \in {"approve", "decline", "escalate"} -> GrantsApproval(loan, person)
      [] named = "extend" -> person = "borrower"
      [] named = "end_early" -> person \in {"owner", "borrower"}
      [] named = "expire" -> FALSE

(* decide *)
Accepts(loan, command) ==
    CASE command.kind \in {"approve", "decline"} ->
            loan.status = "Requested" \/ (loan.status \in Live /\ loan.pending # None)
      [] command.kind = "extend" ->
            loan.status \in Live /\ loan.pending = None /\ command.end_at > loan.end_at
      [] command.kind \in {"end_early", "expire"} -> loan.status \in Live
      [] command.kind = "escalate" -> loan.status = "Requested"

(* apply, on the document as the domain type reads and writes it *)
Applied(loan, command) ==
    LET Becomes(status, end, pending, escalated_to) ==
            Loan(status, end, pending, escalated_to, loan.version + 1, FALSE)
        first == loan.status = "Requested"
    IN  CASE command.kind = "approve" /\ first ->
                Becomes("Active", loan.end_at, loan.pending, loan.escalated_to)
          [] command.kind = "approve" /\ ~first ->
                Becomes("Extended", loan.pending, None, loan.escalated_to)
          [] command.kind = "decline" /\ first ->
                Becomes("Declined", loan.end_at, loan.pending, loan.escalated_to)
          [] command.kind = "decline" /\ ~first ->
                Becomes(loan.status, loan.end_at, None, loan.escalated_to)
          [] command.kind = "extend" ->
                Becomes(loan.status, loan.end_at, command.end_at, loan.escalated_to)
          [] command.kind = "end_early" ->
                Becomes("Ended", loan.end_at, None, loan.escalated_to)
          [] command.kind = "expire" ->
                Becomes("Expired", loan.end_at, loan.pending, loan.escalated_to)
          [] command.kind = "escalate" ->
                Becomes(loan.status, loan.end_at, loan.pending, command.to)

(* parent_user_id in the user store *)
ManagerOf(person) ==
    CASE person \in {"owner", "borrower"} -> "superior"
      [] person = "superior" -> "chief"
      [] person = "chief" -> Nobody

(* The manager of whoever decides now, if there is one *)
EscalationTarget(loan) == ManagerOf(DecisionMaker(loan))

-----------------------------------------------------------------------------
(* Commands *)

At(c, pc) == request[c].pc = pc

Goto(c, pc, command, loan) ==
    LET r == request[c] IN
    request' = [request EXCEPT ![c] =
        Request(pc, r.actor, r.named, command, r.expected, r.checked, loan)]

End(c) == request' = [request EXCEPT ![c] = Idle]

(* A request arrives and require_staff_loan_authority makes a load of its    *)
(* own; a request it turns away has no effect.  It looks at the command_type *)
(* of the envelope; the command that is executed is the one in the payload,  *)
(* which is not compared with it, except that an escalation is put together  *)
(* by the server.  expected_version is any number: one below the column can  *)
(* only be refused, one above it may be reached before the next load.        *)
Submit(c, person, named, command, expected) ==
    /\ At(c, "idle")
    /\ Authorized(row.loan, person, named)
    /\ request' = [request EXCEPT ![c] =
          IF named = "escalate"
          THEN Request("resolve", person, named, NoCommand, expected, row.version, Requested)
          ELSE Request("load", person, named, command, expected, row.version, Requested)]
    /\ UNCHANGED <<now, row, events, worker>>

(* resolve_staff_loan_escalation_command: another load, for the person the   *)
(* escalation goes to                                                        *)
Resolve(c) ==
    LET to == EscalationTarget(row.loan) IN
    /\ At(c, "resolve")
    /\ \/ to # Nobody /\ Goto(c, "load", Command("escalate", None, to), Requested)
       \/ to = Nobody /\ End(c)
    /\ UNCHANGED <<now, row, events, worker>>

(* Seeded defect: the expected version is not compared *)
LoadAnyVersion(c) ==
    LET r == request[c] IN
    /\ At(c, "load")
    /\ Accepts(row.loan, r.command)
    /\ row.loan.version < MaxVersion
    /\ Goto(c, "commit", NoCommand, Applied(row.loan, r.command))
    /\ UNCHANGED <<now, row, events, worker>>

(* handle_command, up to the commit.  The epochs the client sent may differ   *)
(* from the document's: that ends the request, as Abandon does.               *)
Load(c) ==
    LET r == request[c]
        good == /\ row.version = r.expected
                /\ Accepts(row.loan, r.command)
                /\ row.loan.version < MaxVersion
    IN  /\ At(c, "load")
        /\ \/ good /\ Goto(c, "commit", NoCommand, Applied(row.loan, r.command))
           \/ ~good /\ End(c)
        /\ UNCHANGED <<now, row, events, worker>>

(* Seeded defect: the upsert also overwrites a row of the same version *)
GuardNotStrict(loan) == row.version <= loan.version

(* WHERE aggregates.version < EXCLUDED.version *)
Guard(loan) == row.version < loan.version

(* The document, the event and its outbox row in one transaction; a row the  *)
(* guard holds back rolls all of it back.  The event carries the version     *)
(* column of the load plus one, the row the version inside the document.     *)
Commit(c) ==
    LET r == request[c] IN
    /\ At(c, "commit")
    /\ \/ /\ Guard(r.loan)
          /\ row' = Row(r.loan.version, r.loan)
          /\ events' = events \union {r.expected + 1}
       \/ ~Guard(r.loan) /\ UNCHANGED <<row, events>>
    /\ End(c)
    /\ UNCHANGED <<now, worker>>

(* The request fails on the way, or its connection is dropped *)
Abandon(c) ==
    /\ ~At(c, "idle")
    /\ End(c)
    /\ UNCHANGED <<now, row, events, worker>>

-----------------------------------------------------------------------------
(* The scheduler and its jobs *)

(* Seeded defect: the scans select Active loans only *)
MatchedActiveOnly(j) ==
    /\ row.loan.status = "Active"
    /\ row.loan.end_at <= now + IF j = "warning" THEN Lead ELSE 0
    /\ j = "warning" => ~row.loan.warned

(* The rows the two scans select *)
Matched(j) ==
    /\ row.loan.status \in Live
    /\ row.loan.end_at <= now + IF j = "warning" THEN Lead ELSE 0
    /\ j = "warning" => ~row.loan.warned

(* enqueue: nothing happens when the deduplication key exists *)
Scan(j) ==
    /\ schedulers # {}
    /\ Matched(j)
    /\ job[j].status = "absent"
    /\ job' = [job EXCEPT ![j] = Job("pending", Nobody)]
    /\ UNCHANGED <<now, row, events, request, execution, schedulers, sent, lost, faults>>

(* The first error of a scan ends run_staff_loan_scheduler, and main starts  *)
(* no other                                                                  *)
SchedulerEnds(w) ==
    /\ w \in schedulers /\ Fault
    /\ schedulers' = schedulers \ {w}
    /\ UNCHANGED <<now, row, events, request, job, execution, sent, lost>>

Step(w, pc, j) == execution' = [execution EXCEPT ![w] = <<pc, j>>]
Stop(w) == Step(w, "idle", "warning")
RunnerEnds(w) == Step(w, "ended", "warning")

(* Seeded defect: the job does not look before it writes *)
AlreadyDoneNever(j) == FALSE

(* The SELECT that makes the transaction of the job return at once *)
AlreadyDone(j) ==
    IF j = "warning" THEN row.loan.warned ELSE row.loan.status \notin Live

(* claim, and the job up to its SELECT *)
Execute(w, j) ==
    /\ execution[w][1] = "idle"
    /\ job[j].status = "pending"
    /\ job' = [job EXCEPT ![j] = Job("running", w)]
    /\ Step(w, IF AlreadyDone(j) THEN "complete" ELSE "write", j)
    /\ UNCHANGED <<now, row, events, request, schedulers, sent, lost, faults>>

(* An error of recover_expired_leases, claim or depth ends run_job_runner *)
RunnerFails(w) ==
    /\ execution[w][1] = "idle" /\ Fault
    /\ RunnerEnds(w)
    /\ UNCHANGED <<now, row, events, request, job, schedulers, sent, lost>>

(* Seeded defect: the SQL of the expiry leaves the version column alone *)
WrittenUnversioned(j) ==
    LET l == row.loan IN
    Row(IF j = "warning" THEN row.version + 1 ELSE row.version,
        Loan(IF j = "warning" THEN l.status ELSE "Expired",
             l.end_at, l.pending, l.escalated_to, l.version, j = "warning" \/ l.warned))

(* Seeded defect: the SQL spells the status otherwise than the domain type *)
WrittenMisspelt(j) ==
    LET l == row.loan IN
    Row(row.version + 1,
        Loan(IF j = "warning" THEN l.status ELSE "expired",
             l.end_at, l.pending, l.escalated_to, l.version, TRUE))

(* UPDATE aggregates SET state = jsonb_set(...), version = version + 1: one  *)
(* field of the document and the column, but not the document's version     *)
Written(j) ==
    LET l == row.loan IN
    Row(row.version + 1,
        Loan(IF j = "warning" THEN l.status ELSE "Expired",
             l.end_at, l.pending, l.escalated_to, l.version, j = "warning" \/ l.warned))

(* The notifications, the UPDATE, for an expiry also the event and its outbox *)
(* row with the version the UPDATE returns, and COMMIT                        *)
Write(w) ==
    LET j == execution[w][2] IN
    /\ execution[w][1] = "write"
    /\ row' = Written(j)
    /\ events' = IF j = "expiry" THEN events \union {row'.version} ELSE events
    /\ sent' = [sent EXCEPT ![j] = @ + 1]
    /\ Step(w, "complete", j)
    /\ UNCHANGED <<now, request, job, schedulers, lost, faults>>

HasLease(w, j) == job[j] = Job("running", w)

(* complete: without the lease it is an error, which ends the runner *)
Complete(w) ==
    LET j == execution[w][2] IN
    /\ execution[w][1] = "complete"
    /\ \/ /\ HasLease(w, j)
          /\ job' = [job EXCEPT ![j] = Job("completed", Nobody)]
          /\ Stop(w)
       \/ ~HasLease(w, j) /\ RunnerEnds(w) /\ job' = job
    /\ UNCHANGED <<now, row, events, request, schedulers, sent, lost, faults>>

(* The transaction of the job fails and rolls back; fail puts the job back or, *)
(* after the last of its max_retries attempts, dead-letters it for good.  It   *)
(* too needs the lease.                                                        *)
Fail(w) ==
    LET j == execution[w][2] IN
    /\ execution[w][1] = "write" /\ Fault
    /\ \/ /\ HasLease(w, j)
          /\ \E status \in {"pending", "dead_letter"} :
                job' = [job EXCEPT ![j] = Job(status, Nobody)]
          /\ Stop(w)
       \/ ~HasLease(w, j) /\ RunnerEnds(w) /\ job' = job
    /\ UNCHANGED <<now, row, events, request, schedulers, sent, lost>>

Executes(w, j) == execution[w][1] \in {"write", "complete"} /\ execution[w][2] = j

(* recover_expired_leases, by any runner: of a job nobody executes any more, *)
(* or of one that takes longer than its lease                                *)
Recover(j) ==
    /\ job[j].status = "running"
    /\ \E w \in Workers : execution[w][1] = "idle"
    /\ \/ ~Executes(job[j].holder, j) /\ UNCHANGED <<lost, faults>>
       \/ Executes(job[j].holder, j) /\ Fault /\ lost' = [lost EXCEPT ![j] = @ + 1]
    /\ job' = [job EXCEPT ![j] = Job("pending", Nobody)]
    /\ UNCHANGED <<now, row, events, request, execution, schedulers, sent>>

(* A worker process dies and is started again: its transaction rolls back,   *)
(* its lease is left to expire, both of its loops run again                  *)
Restart(w) ==
    /\ Fault
    /\ Stop(w)
    /\ schedulers' = schedulers \union {w}
    /\ UNCHANGED <<now, row, events, request, job, sent, lost>>

Tick ==
    /\ now < MaxTime
    /\ now' = now + 1
    /\ UNCHANGED <<row, events, request, worker>>

Payloads ==
    {Command(kind, None, Nobody) : kind \in {"approve", "decline", "end_early", "expire"}}
        \union {Command("extend", end_at, Nobody) : end_at \in 1..MaxTime}
        \union {Command("escalate", None, to) : to \in People}

Next ==
    \/ \E c \in Requests :
          \/ \E p \in People, named \in CommandTypes, command \in Payloads,
                v \in row.version..(row.version + MaxAhead) :
                Submit(c, p, named, command, v)
          \/ Resolve(c) \/ Load(c) \/ Commit(c) \/ Abandon(c)
    \/ \E j \in JobTypes : Scan(j) \/ Recover(j) \/ \E w \in Workers : Execute(w, j)
    \/ \E w \in Workers : \/ Write(w) \/ Complete(w) \/ Fail(w)
                          \/ SchedulerEnds(w) \/ RunnerFails(w) \/ Restart(w)
    \/ Tick

Spec == Init /\ [][Next]_vars

(* A scheduler that has not ended scans every STAFF_LOAN_SCAN_INTERVAL, a    *)
(* runner that has not ended recovers, claims what is pending and finishes   *)
(* what it has begun                                                         *)
Fairness ==
    /\ WF_vars(Tick)
    /\ \A j \in JobTypes : WF_vars(Scan(j)) /\ WF_vars(Recover(j))
    /\ \A j \in JobTypes, w \in Workers : WF_vars(Execute(w, j))
    /\ \A w \in Workers : WF_vars(Write(w)) /\ WF_vars(Complete(w))

FairSpec == Spec /\ Fairness

-----------------------------------------------------------------------------
(* Properties *)

Times == 0..MaxTime

LoanType ==
    [status : {"Requested"} \union Live \union Closed, end_at : Times, pending : Times,
     escalated_to : People \union {Nobody}, version : 0..MaxVersion, warned : BOOLEAN]

(* Every variable holds a value of its kind, no window ends after the last   *)
(* moment somebody asked for, and a running job has a holder.                *)
TypeOK ==
    /\ now \in Times
    /\ row \in [version : Nat, loan : LoanType]
    /\ events \subseteq 1..row.version
    /\ request \in [Requests ->
          [pc : {"idle", "resolve", "load", "commit"}, actor : People, named : CommandTypes,
           command : Payloads, expected : Nat, checked : Nat, loan : LoanType]]
    /\ job \in [JobTypes ->
          [status : {"absent", "pending", "running", "completed", "dead_letter"},
           holder : Workers \union {Nobody}]]
    /\ \A j \in JobTypes : job[j].status = "running" <=> job[j].holder \in Workers
    /\ execution \in [Workers -> {"idle", "write", "complete", "ended"} \X JobTypes]
    /\ schedulers \subseteq Workers
    /\ sent \in [JobTypes -> Nat] /\ lost \in [JobTypes -> Nat]
    /\ faults \in 0..MaxFaults

(* c's command changes the loan in this step *)
Changes(c) == At(c, "commit") /\ row' # row /\ request'[c] # request[c]

(* Whoever changes the loan through /api/command holds the authority for the *)
(* command type they named in the very state the command changes, although   *)
(* require_staff_loan_authority looks at an earlier load, and an escalation  *)
(* goes to the manager of whoever decides in that state, although its target *)
(* is resolved from a load of its own: what is written in between moves the  *)
(* version.  This is so for every request that expects the version the       *)
(* authority was checked on; one that expects a version still to come is     *)
(* executed although the authority may have moved on.                        *)
AuthorityHeldAtCommit ==
    [][\A c \in Requests :
        LET r == request[c] IN
        Changes(c) /\ r.expected = r.checked
            => /\ Authorized(row.loan, r.actor, r.named)
               /\ r.named = "escalate"
                    => row'.loan.escalated_to = EscalationTarget(row.loan)]_vars

(* Every change of the loan but the mark of a sent warning has an event of   *)
(* its own in domain_events, under the version the row gets and no earlier   *)
(* event has, although a command numbers its event after the column it       *)
(* loaded, the row after the document, and the expiry after the column it    *)
(* finds.                                                                    *)
EventPerChange ==
    [][Loan(row.loan.status, row.loan.end_at, row.loan.pending, row.loan.escalated_to, 0, FALSE)
        # Loan(row'.loan.status, row'.loan.end_at, row'.loan.pending, row'.loan.escalated_to,
               0, FALSE)
        => row'.version \in events' \ events]_vars

(* A declined, ended or expired loan never gives anybody authority again:   *)
(* the worker's UPDATE and the guard of the command path exclude each other *)
(* through the version column.                                              *)
ClosedStaysClosed ==
    [][row.loan.status \in Closed => row'.loan.status \in Closed]_vars

(* A round of notifications is sent again only when a lease ran out while    *)
(* its job was executed, once for each: advance_warning_sent_at and the      *)
(* status stop every execution that begins after the first commit, however   *)
(* often a job fails, is put back or loses its worker.                       *)
NotificationsBounded == \A j \in JobTypes : sent[j] <= 1 + lost[j]

NobodyScans == schedulers = {} /\ job["expiry"].status = "absent"
NobodyRuns == \A w \in Workers : execution[w][1] = "ended"

(* A loan does not stay open for ever: the scans find it when its end has   *)
(* come, extended or not, and the expiry job closes it, through restarts,   *)
(* lost leases and retries.  The ways out are an expiry job that failed     *)
(* max_retries times, whose deduplication key keeps every later scan from   *)
(* enqueueing another, and a system in which an error has ended the last    *)
(* scheduler before it enqueued the job, or the last job runner, and nobody *)
(* restarts a worker.                                                       *)
LoanEnds ==
    \/ row.loan.status \in Live
            ~> (row.loan.status \in Closed \/ job["expiry"].status = "dead_letter")
    \/ <>[](NobodyScans \/ NobodyRuns)

-----------------------------------------------------------------------------
(* What comments of the repository say and the code does not do *)

(* Expired: "Reached its scheduled end_at without being extended or ended   *)
(* early"; of the worker's expiry job                                       *)
ExpiresAtItsEnd ==
    [][row.loan.status # "Expired" /\ row'.loan.status = "Expired" /\ request' = request
        => row.loan.end_at <= now]_vars

(* "You may extend or let it end when it does.": an extension that nothing  *)
(* overtakes is written                                                     *)
MayExtend ==
    \A c \in Requests :
        LET loan == request[c].loan IN
        /\ At(c, "commit") /\ row.version = request[c].expected
        /\ loan.status \in Live /\ loan.pending # None
        => Guard(loan)
=============================================================================
