------------------------------ MODULE JobQueue ------------------------------
(***************************************************************************)
(* The durable background-job queue (background-jobs/src/postgres_queue.rs *)
(* and sqlite_queue.rs) together with the runners that drain it            *)
(* (bins/worker/src/job_runner.rs), one runner per worker process.         *)
(*                                                                         *)
(* A job stands for its deduplication key: the unique index on that key    *)
(* covers every status, so a key names at most one row for ever.           *)
(*                                                                         *)
(* Times are kept relative to the clock: "lease" is the time left before   *)
(* lease_expires_at_ms and "delay" the time left before next_attempt_at_ms.*)
(* Both stop at 0, so rows that are already due are not told apart and     *)
(* ORDER BY next_attempt_at_ms leaves their order open.                    *)
(***************************************************************************)
EXTENDS Naturals, Sequences, FiniteSets

CONSTANTS
    Jobs,         \* deduplication keys
    Workers,      \* worker processes, each with one runner task
    MaxRetries,   \* max_retries of every job
    LeaseTime,    \* JobRunnerConfig.lease_seconds, in clock ticks
    MaxDelay,     \* the 300 s cap of retry_delay, in clock ticks
    BatchSize,    \* JobRunnerConfig.batch_size
    MaxCrashes    \* bound: process crashes, restarts and query failures

ASSUME ConstantsAssumption ==
    /\ MaxRetries \in Nat /\ LeaseTime \in Nat \ {0} /\ MaxDelay \in Nat \ {0}
    /\ BatchSize \in Nat \ {0} /\ MaxCrashes \in Nat

VARIABLES
    job,      \* the jobs table
    runner,   \* per worker: program counter, claimed batch, pending verdict
    runs,     \* per job: executions whose transaction committed
    crashes   \* crashes, restarts and query failures so far

vars == <<job, runner, runs, crashes>>

Statuses == {"absent", "pending", "running", "completed", "dead_letter"}
Settled == {"completed", "dead_letter"}

(* A lease token is a fresh UUID per claim.  Every claim of a job also      *)
(* increments its attempts, so the attempt number identifies the claim and  *)
(* stands for the token; 0 is NULL.                                         *)
NoToken == 0

Row == [status : Statuses, attempts : Nat, token : Nat,
        lease : 0..LeaseTime, delay : 0..MaxDelay]

JobRow(status, attempts, token, lease, delay) ==
    [status |-> status, attempts |-> attempts, token |-> token,
     lease |-> lease, delay |-> delay]

AbsentRow == JobRow("absent", 0, NoToken, 0, 0)

Claim == [id : Jobs, token : Nat]

Points == {"recover", "claim", "execute", "complete",
           "fail_select", "fail_update", "dead"}

Runner(pc, batch, dead_lettered) ==
    [pc |-> pc, batch |-> batch, dead_lettered |-> dead_lettered]

Fresh == Runner("recover", <<>>, FALSE)
Dead == Runner("dead", <<>>, FALSE)

Init ==
    /\ job = [j \in Jobs |-> AbsentRow]
    /\ runner = [w \in Workers |-> Fresh]
    /\ runs = [j \in Jobs |-> 0]
    /\ crashes = 0

-----------------------------------------------------------------------------
(* Statements of the queue, as functions of the table *)

Inserted(j) ==
    [job EXCEPT ![j] = JobRow("pending", 0, NoToken, 0, 0)]

(* Seeded defect: expired leases are never returned to the queue *)
RecoveredNever == job

(* Seeded defect: the recovery forgets WHERE status = 'running' *)
RecoveredAnyStatus ==
    [j \in Jobs |->
        IF job[j].status # "absent" /\ job[j].lease = 0
        THEN JobRow("pending", job[j].attempts, NoToken, 0, job[j].delay)
        ELSE job[j]]

(* UPDATE ... WHERE status = 'running' AND lease_expires_at_ms <= now *)
Recovered ==
    [j \in Jobs |->
        IF job[j].status = "running" /\ job[j].lease = 0
        THEN JobRow("pending", job[j].attempts, NoToken, 0, job[j].delay)
        ELSE job[j]]

Due == {j \in Jobs : job[j].status = "pending" /\ job[j].delay = 0}

(* What SELECT ... LIMIT may return: up to BatchSize due rows *)
Batches ==
    {s \in UNION {[1..n -> Due] : n \in 0..BatchSize} :
        /\ \A a, b \in DOMAIN s : s[a] = s[b] => a = b
        /\ Len(s) = BatchSize \/ \A j \in Due : \E a \in DOMAIN s : s[a] = j}

(* Seeded defect: one token per job instead of one per claim *)
TokenPerJob(j) == 1

FreshToken(j) == job[j].attempts + 1

(* Seeded defect: a claim does not count as an attempt *)
LeasedUncounted(s) ==
    [j \in Jobs |->
        IF \E a \in DOMAIN s : s[a] = j
        THEN JobRow("running", job[j].attempts, FreshToken(j), LeaseTime, job[j].delay)
        ELSE job[j]]

(* Seeded defect: the lease runs one tick too long *)
LeasedTooLong(s) ==
    [j \in Jobs |->
        IF \E a \in DOMAIN s : s[a] = j
        THEN JobRow("running", job[j].attempts + 1, FreshToken(j), LeaseTime + 1, job[j].delay)
        ELSE job[j]]

Leased(s) ==
    [j \in Jobs |->
        IF \E a \in DOMAIN s : s[a] = j
        THEN JobRow("running", job[j].attempts + 1, FreshToken(j), LeaseTime, job[j].delay)
        ELSE job[j]]

ClaimsOf(s) == [a \in DOMAIN s |-> [id |-> s[a], token |-> FreshToken(s[a])]]

(* Seeded defect: complete and fail ask for a running row and not for their *)
(* own lease                                                                *)
RunningAnyLease(c) == job[c.id].status = "running"

(* WHERE id = $1 AND status = 'running' AND lease_token = $2 *)
LeaseValid(c) == job[c.id].status = "running" /\ job[c.id].token = c.token

Released(j, status, delay) ==
    [job EXCEPT ![j] = JobRow(status, job[j].attempts, NoToken, 0, delay)]

-----------------------------------------------------------------------------
(* Steps of a runner *)

At(w, pc) == runner[w].pc = pc
Current(w) == Head(runner[w].batch)
Goto(w, pc) == runner' = [runner EXCEPT ![w] = Runner(pc, runner[w].batch, FALSE)]

(* The for loop over the batch: the next job, or a new round *)
NextJob(w) ==
    LET rest == Tail(runner[w].batch)
    IN  runner' = [runner EXCEPT ![w] =
            Runner(IF rest = <<>> THEN "recover" ELSE "execute", rest, FALSE)]

(* An error leaves run_job_runner through `?`; nothing starts it again *)
Exit(w) == runner' = [runner EXCEPT ![w] = Dead]

(* A scheduler enqueues a job; ON CONFLICT DO NOTHING keeps an older row *)
Enqueue(j) ==
    /\ job' = IF job[j].status = "absent" THEN Inserted(j) ELSE job
    /\ UNCHANGED <<runner, runs, crashes>>

RecoverExpiredLeases(w) ==
    /\ At(w, "recover")
    /\ job' = Recovered
    /\ Goto(w, "claim")
    /\ UNCHANGED <<runs, crashes>>

ClaimBatch(w) ==
    /\ At(w, "claim")
    /\ \E s \in Batches :
        /\ job' = Leased(s)
        /\ runner' = [runner EXCEPT ![w] =
                Runner(IF s = <<>> THEN "recover" ELSE "execute", ClaimsOf(s), FALSE)]
    /\ UNCHANGED <<runs, crashes>>

(* execute_job: its transaction commits, or is rolled back; it returns Ok or *)
(* an error.  Ok without a commit is a staff-loan job that finds its warning *)
(* sent or its loan no longer open; an error after a commit is a COMMIT      *)
(* whose answer was lost.                                                    *)
ExecuteJob(w) ==
    /\ At(w, "execute")
    /\ \/ runs' = [runs EXCEPT ![Current(w).id] = @ + 1]
       \/ runs' = runs
    /\ \/ Goto(w, "complete")
       \/ Goto(w, "fail_select")
    /\ UNCHANGED <<job, crashes>>

Complete(w) ==
    /\ At(w, "complete")
    /\ \/ /\ LeaseValid(Current(w))
          /\ job' = Released(Current(w).id, "completed", job[Current(w).id].delay)
          /\ NextJob(w)
       \/ /\ ~LeaseValid(Current(w))
          /\ job' = job
          /\ Exit(w)
    /\ UNCHANGED <<runs, crashes>>

(* Seeded defect: gives up one attempt early *)
FailSelectEarly(w) ==
    /\ At(w, "fail_select")
    /\ \/ /\ LeaseValid(Current(w))
          /\ runner' = [runner EXCEPT ![w] = Runner("fail_update", runner[w].batch,
                job[Current(w).id].attempts + 1 >= MaxRetries)]
       \/ /\ ~LeaseValid(Current(w))
          /\ Exit(w)
    /\ UNCHANGED <<job, runs, crashes>>

(* fail() reads the row and writes it in two statements, no transaction *)
FailSelect(w) ==
    /\ At(w, "fail_select")
    /\ \/ /\ LeaseValid(Current(w))
          /\ runner' = [runner EXCEPT ![w] = Runner("fail_update", runner[w].batch,
                job[Current(w).id].attempts >= MaxRetries)]
       \/ /\ ~LeaseValid(Current(w))
          /\ Exit(w)
    /\ UNCHANGED <<job, runs, crashes>>

FailUpdate(w) ==
    LET c == Current(w)
    IN  /\ At(w, "fail_update")
        /\ \/ /\ job[c.id].token = c.token
              /\ \E delay \in 1..MaxDelay :
                    job' = Released(c.id,
                        IF runner[w].dead_lettered THEN "dead_letter" ELSE "pending",
                        delay)
              /\ NextJob(w)
           \/ /\ job[c.id].token # c.token
              /\ job' = job
              /\ Exit(w)
        /\ UNCHANGED <<runs, crashes>>

(* A query fails: the error ends the runner task, the process lives on *)
QueryFails(w) ==
    /\ crashes < MaxCrashes
    /\ ~At(w, "dead")
    /\ Exit(w)
    /\ crashes' = crashes + 1
    /\ UNCHANGED <<job, runs>>

(* The worker process is killed and started again *)
Restart(w) ==
    /\ crashes < MaxCrashes
    /\ runner' = [runner EXCEPT ![w] = Fresh]
    /\ crashes' = crashes + 1
    /\ UNCHANGED <<job, runs>>

Elapsed(time) == IF time = 0 THEN 0 ELSE time - 1

Tick ==
    /\ job' = [j \in Jobs |->
          JobRow(job[j].status, job[j].attempts, job[j].token,
                 Elapsed(job[j].lease), Elapsed(job[j].delay))]
    /\ UNCHANGED <<runner, runs, crashes>>

RunnerStep(w) ==
    \/ RecoverExpiredLeases(w) \/ ClaimBatch(w) \/ ExecuteJob(w)
    \/ Complete(w) \/ FailSelect(w) \/ FailUpdate(w)

Next ==
    \/ \E j \in Jobs : Enqueue(j)
    \/ \E w \in Workers : RunnerStep(w) \/ QueryFails(w) \/ Restart(w)
    \/ Tick

Spec == Init /\ [][Next]_vars

(* The tokio runtime keeps polling every live runner and the clock advances; *)
(* nothing obliges a scheduler to enqueue or a dead process to be restarted. *)
FairSpec ==
    /\ Spec
    /\ \A w \in Workers : WF_vars(RunnerStep(w))
    /\ WF_vars(Tick)

-----------------------------------------------------------------------------
(* TypeOK: every column of the jobs table and every local of a runner stays   *)
(* in its range; no lease outlasts lease_seconds and no delay the cap of      *)
(* retry_delay.                                                               *)
TypeOK ==
    /\ job \in [Jobs -> Row]
    /\ runner \in [Workers -> [pc : Points, batch : Seq(Claim), dead_lettered : BOOLEAN]]
    /\ runs \in [Jobs -> Nat]
    /\ crashes \in 0..MaxCrashes

(* Claims of a runner it has not settled yet *)
Holds(w, c) == \E a \in DOMAIN runner[w].batch : runner[w].batch[a] = c

(* LeaseExclusive: claim() hands every claim its own token, so no two runners *)
(* ever hold the token that is valid for a running job, whatever expired or   *)
(* crashed in between.                                                        *)
LeaseExclusive ==
    \A v, w \in Workers : \A j \in Jobs :
        LET c == [id |-> j, token |-> job[j].token]
        IN  job[j].status = "running" /\ Holds(v, c) /\ Holds(w, c) => v = w

(* DeadLetterExhausted: the attempts read by fail()'s SELECT still hold when  *)
(* its UPDATE runs: no job is dead-lettered before max_retries attempts.      *)
DeadLetterExhausted ==
    \A j \in Jobs : job[j].status = "dead_letter" => job[j].attempts >= MaxRetries

(* RunsPaidByAttempts: a job is executed at most once per claim, so every    *)
(* duplicate effect is accounted for by an attempt.                          *)
RunsPaidByAttempts ==
    \A j \in Jobs : runs[j] <= job[j].attempts

(* SettledIsFinal: a completed or dead-lettered row is never changed again,  *)
(* not by a late complete/fail of a runner that lost its lease, not by a     *)
(* recovery and not by a scheduler that enqueues the same key again.         *)
SettledIsFinal ==
    [][\A j \in Jobs : job[j].status \in Settled =>
        /\ job'[j].status = job[j].status
        /\ job'[j].attempts = job[j].attempts]_vars

(* The runner at pc executes the latest attempt of job j *)
LatestAttemptAt(j, pc) ==
    \E w \in Workers :
        At(w, pc) /\ Current(w) = [id |-> j, token |-> job[j].attempts]

(* SettledByLatestAttempt: the verdict on a job is that of its latest        *)
(* attempt.  It is completed only by the runner whose execute_job of that    *)
(* attempt returned Ok and dead-lettered only by the one whose execution     *)
(* failed, although a runner that lost its lease may come to complete() or   *)
(* fail() with the outcome of an older attempt at any time.                  *)
SettledByLatestAttempt ==
    [][\A j \in Jobs : job[j].status \notin Settled =>
        /\ job'[j].status = "completed" => LatestAttemptAt(j, "complete")
        /\ job'[j].status = "dead_letter" => LatestAttemptAt(j, "fail_update")]_vars

(* JobsSettle: an enqueued job is eventually completed or dead-lettered,     *)
(* unless every runner task has exited on an error.                          *)
JobsSettle ==
    \A j \in Jobs : job[j].status = "pending" ~>
        \/ job[j].status \in Settled
        \/ \A w \in Workers : runner[w].pc = "dead"
=============================================================================
