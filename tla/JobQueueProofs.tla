--------------------------- MODULE JobQueueProofs ---------------------------
(***************************************************************************)
(* Machine-checked proofs about the job queue, for any jobs, workers,      *)
(* bounds and crash pattern.                                               *)
(*                                                                         *)
(* The safety properties rest on one inductive invariant.  Its core is the *)
(* discipline of lease tokens: a row carries a token exactly while it is   *)
(* running, the token is that of its latest claim, and no two claims held  *)
(* anywhere by any runner, live or stale, are the same.                    *)
(***************************************************************************)
EXTENDS JobQueue, TLAPS

Busy == {"execute", "complete", "fail_select", "fail_update"}

(* A row has a token while it runs, and then that of its latest claim *)
RowsOK ==
    \A j \in Jobs :
        /\ job[j].status = "running" => /\ job[j].token = job[j].attempts
                                        /\ job[j].attempts >= 1
        /\ job[j].status # "running" => job[j].token = NoToken
        /\ job[j].status = "absent" => job[j].attempts = 0

(* Every claim a runner holds is of an attempt the row has counted *)
ClaimsOK ==
    \A w \in Workers : \A a \in 1..Len(runner[w].batch) :
        /\ runner[w].batch[a].token >= 1
        /\ runner[w].batch[a].token <= job[runner[w].batch[a].id].attempts

(* No claim is held twice *)
ClaimsUnique ==
    \A v, w \in Workers :
        \A a \in 1..Len(runner[v].batch) : \A b \in 1..Len(runner[w].batch) :
            runner[v].batch[a] = runner[w].batch[b] => v = w /\ a = b

(* A runner between claim and settlement has a current job, and the verdict *)
(* it remembers about that job stays true                                   *)
RunnerOK(w) ==
    /\ runner[w].pc \in Busy => runner[w].batch # <<>>
    /\ runner[w].pc = "fail_update" /\ runner[w].dead_lettered
        => job[Current(w).id].attempts >= MaxRetries

RunnersOK == \A w \in Workers : RunnerOK(w)

IInv ==
    /\ TypeOK /\ RowsOK /\ ClaimsOK /\ ClaimsUnique /\ RunnersOK
    /\ DeadLetterExhausted

-----------------------------------------------------------------------------
(* TypeOK holds initially: an empty table and idle runners *)
LEMMA InitIInv == Init => IInv
<1> SUFFICES ASSUME Init PROVE IInv
  OBVIOUS
<1>1. TypeOK
  BY ConstantsAssumption DEF Init, TypeOK, Row, AbsentRow, JobRow, NoToken, Statuses, Fresh, Runner, Points, Claim
<1>2. RowsOK /\ DeadLetterExhausted
  BY DEF Init, AbsentRow, JobRow, RowsOK, DeadLetterExhausted
<1>3. ClaimsOK /\ ClaimsUnique /\ RunnersOK
  BY DEF Init, Fresh, Runner, ClaimsOK, ClaimsUnique, RunnersOK, RunnerOK, Busy
<1> QED
  BY <1>1, <1>2, <1>3 DEF IInv

(* NextJob drops the current claim: what remains are the later claims, each *)
(* one place further forward (the for loop over the batch).                 *)
LEMMA NextJobStep ==
    ASSUME TypeOK, NEW w \in Workers, runner[w].batch # <<>>, NextJob(w)
    PROVE  /\ runner' \in [Workers -> [pc : Points, batch : Seq(Claim), dead_lettered : BOOLEAN]]
           /\ \A v \in Workers : v # w => runner'[v] = runner[v]
           /\ Len(runner'[w].batch) = Len(runner[w].batch) - 1
           /\ \A a \in 1..Len(runner'[w].batch) : runner'[w].batch[a] = runner[w].batch[a + 1]
           /\ runner'[w].pc \in {"recover", "execute"}
           /\ runner'[w].pc = "execute" => runner'[w].batch # <<>>
  BY DEF TypeOK, NextJob, Runner, Points

(* Exit, a restart and the start of a round leave the runner no claims.     *)
LEMMA DropStep ==
    ASSUME TypeOK, NEW w \in Workers,
           NEW r \in {Dead, Fresh}, runner' = [runner EXCEPT ![w] = r]
    PROVE  /\ runner' \in [Workers -> [pc : Points, batch : Seq(Claim), dead_lettered : BOOLEAN]]
           /\ \A v \in Workers : v # w => runner'[v] = runner[v]
           /\ runner'[w] = r
           /\ Len(runner'[w].batch) = 0
<1>1. \A p \in Points : /\ Runner(p, <<>>, FALSE)
                              \in [pc : Points, batch : Seq(Claim), dead_lettered : BOOLEAN]
                        /\ Len(Runner(p, <<>>, FALSE).batch) = 0
  BY DEF Runner
<1>2. \E p \in Points : r = Runner(p, <<>>, FALSE)
  BY DEF Points, Dead, Fresh
<1> QED
  BY <1>1, <1>2 DEF TypeOK

-----------------------------------------------------------------------------
(* Statements of the queue, as facts about the rows they leave *)

(* recover_expired_leases only returns running rows to pending *)
LEMMA RecoveredRows ==
    ASSUME TypeOK, RowsOK
    PROVE  /\ Recovered \in [Jobs -> Row]
           /\ \A j \in Jobs :
                /\ Recovered[j].attempts = job[j].attempts
                /\ \/ Recovered[j] = job[j]
                   \/ /\ job[j].status = "running"
                      /\ Recovered[j].status = "pending"
                      /\ Recovered[j].token = NoToken
<1>1. Recovered \in [Jobs -> Row]
  BY ConstantsAssumption DEF TypeOK, Recovered, JobRow, Row, Statuses, NoToken
<1>2. ASSUME NEW j \in Jobs, job[j].status = "running" /\ job[j].lease = 0
      PROVE  Recovered[j] = JobRow("pending", job[j].attempts, NoToken, 0, job[j].delay)
  BY <1>2 DEF Recovered
<1>3. ASSUME NEW j \in Jobs, ~(job[j].status = "running" /\ job[j].lease = 0)
      PROVE  Recovered[j] = job[j]
  BY <1>3 DEF Recovered
<1> QED
  BY <1>1, <1>2, <1>3 DEF JobRow

(* A settlement changes its own row only, keeps attempts, clears the token *)
LEMMA ReleasedRows ==
    ASSUME TypeOK, NEW i \in Jobs, NEW d \in 0..MaxDelay,
           NEW st \in {"pending", "completed", "dead_letter"}
    PROVE  /\ Released(i, st, d) \in [Jobs -> Row]
           /\ \A j \in Jobs : j # i => Released(i, st, d)[j] = job[j]
           /\ Released(i, st, d)[i].status = st
           /\ Released(i, st, d)[i].token = NoToken
           /\ Released(i, st, d)[i].attempts = job[i].attempts
  BY ConstantsAssumption DEF TypeOK, Released, JobRow, Row, Statuses, NoToken

(* claim() leases exactly the rows it selected, each with a new token *)
LEMMA LeasedRows ==
    ASSUME TypeOK, NEW s \in Batches
    PROVE  /\ Leased(s) \in [Jobs -> Row]
           /\ \E n \in Nat : s \in [1..n -> Due] /\ DOMAIN s = 1..n /\ (s = <<>> <=> n = 0)
           /\ \A a, b \in DOMAIN s : s[a] = s[b] => a = b
           /\ \A j \in Jobs : (~\E a \in DOMAIN s : s[a] = j) => Leased(s)[j] = job[j]
           /\ \A a \in DOMAIN s :
                /\ s[a] \in Jobs /\ job[s[a]].status = "pending"
                /\ Leased(s)[s[a]].status = "running"
                /\ Leased(s)[s[a]].token = job[s[a]].attempts + 1
                /\ Leased(s)[s[a]].attempts = job[s[a]].attempts + 1
<1>1. PICK n \in 0..BatchSize : s \in [1..n -> Due]
  BY DEF Batches
<1>2. n \in Nat
  BY ConstantsAssumption
<1>3. Leased(s) \in [Jobs -> Row]
  BY ConstantsAssumption DEF TypeOK, Leased, FreshToken, JobRow, Row, Statuses
<1>4. s = <<>> <=> n = 0
  BY <1>1, <1>2
<1>5. \A a, b \in DOMAIN s : s[a] = s[b] => a = b
  BY DEF Batches
<1>6. \A a \in DOMAIN s : s[a] \in Due
  BY <1>1
<1> QED
  BY <1>1, <1>2, <1>3, <1>4, <1>5, <1>6 DEF TypeOK, Leased, FreshToken, JobRow, Row, Due

(* The clock changes no status, no count and no token *)
LEMMA TickRows ==
    ASSUME TypeOK, Tick
    PROVE  /\ job' \in [Jobs -> Row]
           /\ \A j \in Jobs : /\ job'[j].status = job[j].status
                              /\ job'[j].attempts = job[j].attempts
                              /\ job'[j].token = job[j].token
<1>1. \A n \in Nat : \A t \in 0..n : Elapsed(t) \in 0..n
  BY DEF Elapsed
<1> QED
  BY <1>1, ConstantsAssumption DEF TypeOK, Tick, JobRow, Row

-----------------------------------------------------------------------------
(* Runner w moves on: it keeps no claims, or all but its first k; no other  *)
(* runner moves                                                             *)
Moved(w, k) ==
    /\ \A v \in Workers : v # w => runner'[v] = runner[v]
    /\ \/ Len(runner'[w].batch) = 0
       \/ Len(runner'[w].batch) = Len(runner[w].batch) - k
    /\ \A a \in 1..Len(runner'[w].batch) : runner'[w].batch[a] = runner[w].batch[a + k]

(* The attempts of the table only grow *)
Grown ==
    /\ TypeOK'
    /\ \A j \in Jobs : job'[j].attempts >= job[j].attempts

(* What a runner remembers about its own claims survives the steps of others *)
LEMMA OthersKept ==
    ASSUME IInv, Grown, NEW v \in Workers, runner'[v] = runner[v]
    PROVE  RunnerOK(v)'
<1>1. RunnerOK(v)
  BY DEF IInv, RunnersOK
<1>2. runner[v].batch # <<>> => Current(v) \in Claim
  BY DEF IInv, TypeOK, Current
<1>3. Current(v)' = Current(v)
  BY DEF Current
<1>4. \A j \in Jobs : job[j].attempts \in Nat /\ job'[j].attempts \in Nat
  BY DEF IInv, Grown, TypeOK, Row
<1> QED
  BY <1>1, <1>2, <1>3, <1>4, ConstantsAssumption DEF RunnerOK, Grown, Claim, Busy

(* ... and so does the discipline of all claims *)
LEMMA ClaimsKept ==
    ASSUME IInv, Grown, NEW w \in Workers, NEW k \in Nat, Moved(w, k)
    PROVE  ClaimsOK' /\ ClaimsUnique'
<1> USE DEF Grown, Moved
<1> DEFINE shift(v) == IF v = w THEN k ELSE 0
<1>1. ASSUME NEW v \in Workers, NEW a \in 1..Len(runner'[v].batch)
      PROVE  /\ a + shift(v) \in 1..Len(runner[v].batch)
             /\ runner'[v].batch[a] = runner[v].batch[a + shift(v)]
  <2> Len(runner[v].batch) \in Nat /\ Len(runner'[v].batch) \in Nat
    BY DEF IInv, TypeOK
  <2>1. CASE v = w
    BY <2>1
  <2>2. CASE v # w
    BY <2>2
  <2> QED
    BY <2>1, <2>2
<1>2. ASSUME NEW v \in Workers, NEW a \in 1..Len(runner[v].batch)
      PROVE  runner[v].batch[a] \in Claim
  BY DEF IInv, TypeOK
<1>3. ASSUME NEW v \in Workers, NEW a \in 1..Len(runner'[v].batch)
      PROVE  /\ runner'[v].batch[a].token >= 1
             /\ runner'[v].batch[a].token <= job'[runner'[v].batch[a].id].attempts
  <2> DEFINE c == runner'[v].batch[a]
  <2>1. c \in Claim /\ c.token >= 1 /\ c.token <= job[c.id].attempts
    BY <1>1, <1>2 DEF IInv, ClaimsOK
  <2>2. /\ c.id \in Jobs /\ c.token \in Nat
        /\ job[c.id].attempts \in Nat /\ job'[c.id].attempts \in Nat
    BY <2>1 DEF IInv, TypeOK, Claim, Row
  <2> QED
    BY <2>1, <2>2
<1>4. ASSUME NEW u \in Workers, NEW v \in Workers,
             NEW a \in 1..Len(runner'[u].batch), NEW b \in 1..Len(runner'[v].batch),
             runner'[u].batch[a] = runner'[v].batch[b]
      PROVE  u = v /\ a = b
  <2> DEFINE x == a + shift(u)
             y == b + shift(v)
  <2>1. x \in 1..Len(runner[u].batch) /\ y \in 1..Len(runner[v].batch)
    BY <1>1
  <2>2. runner[u].batch[x] = runner[v].batch[y]
    BY <1>1, <1>4
  <2>3. (x = y /\ u = v) => a = b
    BY DEF IInv, TypeOK
  <2>4. u = v /\ x = y
    <3> HIDE DEF x, y
    <3> QED
      BY <2>1, <2>2 DEF IInv, ClaimsUnique
  <2> QED
    BY <2>3, <2>4
<1> QED
  BY <1>3, <1>4 DEF ClaimsOK, ClaimsUnique

(* The life of a row: every step of the system takes each row one of these  *)
(* ways.  It is the abstract machine of which the SQL statements are steps.  *)
RowMove(j) ==
    LET old == job[j]
        new == job'[j]
    IN  \/ new.status = old.status /\ new.attempts = old.attempts /\ new.token = old.token
        \/ /\ old.status = "absent" /\ new.status = "pending"
           /\ new.attempts = 0 /\ new.token = NoToken
        \/ /\ old.status = "pending" /\ new.status = "running"
           /\ new.attempts = old.attempts + 1 /\ new.token = new.attempts
        \/ /\ old.status = "running" /\ new.token = NoToken /\ new.attempts = old.attempts
           /\ \/ new.status = "pending"
              \/ new.status = "completed" /\ LatestAttemptAt(j, "complete")
              \/ /\ new.status = "dead_letter" /\ old.attempts >= MaxRetries
                 /\ LatestAttemptAt(j, "fail_update")

LEMMA RowsKept ==
    ASSUME IInv, TypeOK', \A j \in Jobs : RowMove(j)
    PROVE  Grown /\ RowsOK' /\ DeadLetterExhausted'
<1>1. \A j \in Jobs : job[j].attempts \in Nat /\ job'[j].attempts \in Nat
  BY DEF IInv, TypeOK, Row
<1>2. Grown
  BY <1>1 DEF Grown, IInv, RowsOK, RowMove
<1>3. RowsOK'
  BY <1>1 DEF IInv, RowsOK, RowMove, NoToken
<1>5. DeadLetterExhausted'
  BY <1>1, ConstantsAssumption DEF IInv, DeadLetterExhausted, RowMove
<1> QED
  BY <1>2, <1>3, <1>5

(* Steps that leave the runners alone *)
LEMMA RunnersIdle ==
    ASSUME IInv, TypeOK', \A j \in Jobs : RowMove(j), UNCHANGED runner
    PROVE  IInv'
<1>2. Grown /\ RowsOK' /\ DeadLetterExhausted'
  BY RowsKept
<1>3. RunnersOK'
  BY <1>2, OthersKept DEF RunnersOK
<1>4. ASSUME NEW w \in Workers
      PROVE  ClaimsOK' /\ ClaimsUnique'
  <2>1. Moved(w, 0)
    BY DEF Moved, IInv, TypeOK
  <2> QED
    BY <1>2, <2>1, ClaimsKept
<1>5. ClaimsOK' /\ ClaimsUnique'
  BY <1>4 DEF ClaimsOK, ClaimsUnique
<1> QED
  BY <1>2, <1>3, <1>5 DEF IInv

(* Steps of one runner *)
LEMMA RunnerMoves ==
    ASSUME IInv, TypeOK', \A j \in Jobs : RowMove(j),
           NEW w \in Workers, NEW k \in Nat, Moved(w, k), RunnerOK(w)'
    PROVE  IInv'
<1>1. Grown /\ RowsOK' /\ DeadLetterExhausted'
  BY RowsKept
<1>2. \A v \in Workers : v # w => RunnerOK(v)'
  BY <1>1, OthersKept DEF Moved
<1>3. ClaimsOK' /\ ClaimsUnique'
  BY <1>1, ClaimsKept
<1> QED
  BY <1>1, <1>2, <1>3 DEF IInv, RunnersOK

-----------------------------------------------------------------------------
(* Each action preserves the invariant *)

LEMMA EnqueueIInv ==
    ASSUME IInv, NEW j \in Jobs, Enqueue(j)
    PROVE  IInv' /\ \A i \in Jobs : RowMove(i)
<1>1. /\ job' \in [Jobs -> Row]
      /\ \A i \in Jobs : i # j \/ job[j].status # "absent" => job'[i] = job[i]
      /\ job[j].status = "absent" => job'[j] = JobRow("pending", 0, NoToken, 0, 0)
  BY ConstantsAssumption DEF IInv, TypeOK, Enqueue, Inserted, JobRow, Row, Statuses, NoToken
<1>2. \A i \in Jobs : RowMove(i)
  BY <1>1 DEF RowMove, JobRow
<1>3. TypeOK'
  BY <1>1 DEF IInv, TypeOK, Enqueue
<1> QED
  BY <1>2, <1>3, RunnersIdle DEF Enqueue

LEMMA TickIInv ==
    ASSUME IInv, Tick
    PROVE  IInv' /\ \A j \in Jobs : RowMove(j)
<1>1. \A j \in Jobs : RowMove(j)
  BY TickRows DEF RowMove, IInv
<1>2. TypeOK'
  BY TickRows DEF IInv, TypeOK, Tick
<1> QED
  BY <1>1, <1>2, RunnersIdle DEF Tick

(* A runner that exits or is restarted forgets its claims *)
LEMMA DropIInv ==
    ASSUME IInv, NEW w \in Workers, NEW r \in {Dead, Fresh},
           runner' = [runner EXCEPT ![w] = r],
           UNCHANGED <<job, runs>>, crashes' \in 0..MaxCrashes
    PROVE  IInv' /\ \A j \in Jobs : RowMove(j)
<1> TypeOK
  BY DEF IInv
<1>0. /\ runner' \in [Workers -> [pc : Points, batch : Seq(Claim), dead_lettered : BOOLEAN]]
      /\ \A v \in Workers : v # w => runner'[v] = runner[v]
      /\ runner'[w] = r
      /\ Len(runner'[w].batch) = 0
  BY DropStep
<1>1. TypeOK'
  BY <1>0 DEF TypeOK
<1>2. \A j \in Jobs : RowMove(j)
  BY DEF RowMove, TypeOK
<1>3. Moved(w, 0)
  BY <1>0 DEF Moved
<1>4. r.pc \in {"dead", "recover"}
  BY DEF Dead, Fresh, Runner
<1>5. RunnerOK(w)'
  BY <1>0, <1>4 DEF RunnerOK, Busy
<1> QED
  BY <1>1, <1>2, <1>3, <1>5, RunnerMoves

(* A runner that stays on its current claim *)
LEMMA StayStep ==
    ASSUME TypeOK, NEW w \in Workers, NEW p \in Points, NEW d \in BOOLEAN,
           runner' = [runner EXCEPT ![w] = Runner(p, runner[w].batch, d)]
    PROVE  /\ runner' \in [Workers -> [pc : Points, batch : Seq(Claim), dead_lettered : BOOLEAN]]
           /\ Moved(w, 0)
           /\ runner'[w].pc = p /\ runner'[w].batch = runner[w].batch
           /\ runner'[w].dead_lettered = d
  BY DEF TypeOK, Runner, Moved

LEMMA RecoverIInv ==
    ASSUME IInv, NEW w \in Workers, RecoverExpiredLeases(w)
    PROVE  IInv' /\ \A j \in Jobs : RowMove(j)
<1> USE DEF RecoverExpiredLeases
<1> TypeOK /\ RowsOK /\ "claim" \in Points
  BY DEF IInv, Points
<1>1. \A j \in Jobs : RowMove(j)
  BY RecoveredRows DEF RowMove
<1>2. TypeOK'
  BY RecoveredRows, StayStep DEF TypeOK, Goto
<1>3. Moved(w, 0) /\ RunnerOK(w)'
  BY StayStep DEF Goto, RunnerOK, Busy
<1> QED
  BY <1>1, <1>2, <1>3, RunnerMoves

(* A busy runner has a current claim, of an attempt the row has counted *)
LEMMA CurrentClaim ==
    ASSUME IInv, NEW w \in Workers, runner[w].pc \in Busy
    PROVE  /\ runner[w].batch # <<>>
           /\ Current(w) \in Claim /\ Current(w).id \in Jobs
           /\ Current(w).token \in Nat /\ Current(w).token >= 1
<1>1. runner[w].batch # <<>> /\ runner[w].batch \in Seq(Claim)
  BY DEF IInv, TypeOK, RunnersOK, RunnerOK
<1>2. Current(w) = runner[w].batch[1] /\ 1 \in 1..Len(runner[w].batch)
  BY <1>1 DEF Current
<1>3. Current(w) \in Claim
  BY <1>1, <1>2
<1>4. Current(w).token >= 1
  BY <1>2 DEF IInv, ClaimsOK
<1> QED
  BY <1>1, <1>3, <1>4 DEF Claim

LEMMA ExecuteIInv ==
    ASSUME IInv, NEW w \in Workers, ExecuteJob(w)
    PROVE  IInv' /\ \A j \in Jobs : RowMove(j)
<1> TypeOK
  BY DEF IInv
<1>1. runner[w].batch # <<>> /\ Current(w).id \in Jobs
  BY CurrentClaim DEF ExecuteJob, At, Busy
<1>2. runs' \in [Jobs -> Nat]
  BY <1>1 DEF ExecuteJob, TypeOK
<1>3. PICK pc \in {"complete", "fail_select"} : Goto(w, pc)
  BY DEF ExecuteJob
<1>4. pc \in Points
  BY DEF Points
<1>5. /\ runner' \in [Workers -> [pc : Points, batch : Seq(Claim), dead_lettered : BOOLEAN]]
      /\ Moved(w, 0) /\ runner'[w].pc = pc /\ runner'[w].batch = runner[w].batch
  BY <1>3, <1>4, StayStep DEF Goto
<1>8. TypeOK'
  BY <1>2, <1>5 DEF TypeOK, ExecuteJob
<1>6. RunnerOK(w)'
  BY <1>1, <1>3, <1>5 DEF RunnerOK, Current, Busy
<1>7. \A j \in Jobs : RowMove(j)
  BY DEF ExecuteJob, RowMove
<1> QED
  BY <1>3, <1>5, <1>6, <1>7, <1>8, RunnerMoves

LEMMA FailSelectIInv ==
    ASSUME IInv, NEW w \in Workers, FailSelect(w)
    PROVE  IInv' /\ \A j \in Jobs : RowMove(j)
<1> TypeOK
  BY DEF IInv
<1>1. CASE Exit(w)
  BY <1>1, DropIInv DEF Exit, FailSelect, TypeOK
<1>2. CASE ~Exit(w)
  <2> DEFINE d == job[Current(w).id].attempts >= MaxRetries
  <2>1. runner' = [runner EXCEPT ![w] = Runner("fail_update", runner[w].batch, d)]
    BY <1>2 DEF FailSelect
  <2>2. runner[w].batch # <<>>
    BY DEF IInv, RunnersOK, RunnerOK, FailSelect, At, Busy
  <2>3. d \in BOOLEAN /\ "fail_update" \in Points
    BY DEF Points
  <2>4. /\ runner' \in [Workers -> [pc : Points, batch : Seq(Claim), dead_lettered : BOOLEAN]]
        /\ Moved(w, 0)
        /\ runner'[w].pc = "fail_update" /\ runner'[w].batch = runner[w].batch
        /\ runner'[w].dead_lettered = d
    <3> HIDE DEF d
    <3> QED
      BY <2>1, <2>3, StayStep
  <2>6. TypeOK'
    BY <2>4 DEF TypeOK, FailSelect
  <2>7. RunnerOK(w)'
    BY <2>2, <2>4 DEF FailSelect, RunnerOK, Current
  <2>5. \A j \in Jobs : RowMove(j)
    BY DEF FailSelect, RowMove
  <2> QED
    BY <2>4, <2>5, <2>6, <2>7, RunnerMoves
<1> QED
  BY <1>1, <1>2

(* A runner that settles its current claim and goes on with the next *)
LEMMA SettleIInv ==
    ASSUME IInv, NEW w \in Workers, runner[w].pc \in Busy, NextJob(w),
           NEW st \in {"pending", "completed", "dead_letter"}, NEW d \in 0..MaxDelay,
           job' = Released(Current(w).id, st, d),
           job[Current(w).id].token = Current(w).token,
           st = "completed" => runner[w].pc = "complete",
           st = "dead_letter" => /\ runner[w].pc = "fail_update"
                                 /\ job[Current(w).id].attempts >= MaxRetries,
           UNCHANGED <<runs, crashes>>
    PROVE  IInv' /\ \A j \in Jobs : RowMove(j)
<1> TypeOK
  BY DEF IInv
<1> DEFINE i == Current(w).id
<1>1. runner[w].batch # <<>> /\ i \in Jobs /\ Current(w).token >= 1 /\ Current(w).token \in Nat
  BY CurrentClaim
<1>2. job[i].status = "running"
  BY <1>1 DEF IInv, RowsOK, NoToken
<1>3. /\ job' \in [Jobs -> Row]
      /\ \A j \in Jobs : j # i => job'[j] = job[j]
      /\ job'[i].status = st /\ job'[i].token = NoToken /\ job'[i].attempts = job[i].attempts
  BY <1>1, ReleasedRows
<1>4. \A j \in Jobs : RowMove(j)
  <2>1. Current(w) = [id |-> i, token |-> job[i].attempts]
    BY <1>1, <1>2, CurrentClaim DEF IInv, RowsOK, Claim
  <2>2. LatestAttemptAt(i, runner[w].pc)
    BY <2>1 DEF LatestAttemptAt, At
  <2>3. RowMove(i)
    BY <1>1, <1>2, <1>3, <2>2 DEF RowMove
  <2>4. \A j \in Jobs : j # i => RowMove(j)
    BY <1>3 DEF RowMove
  <2> QED
    BY <2>3, <2>4
<1>5. /\ runner' \in [Workers -> [pc : Points, batch : Seq(Claim), dead_lettered : BOOLEAN]]
      /\ Moved(w, 1)
      /\ runner'[w].pc \in {"recover", "execute"}
      /\ runner'[w].pc = "execute" => runner'[w].batch # <<>>
  BY <1>1, NextJobStep DEF Moved
<1>6. RunnerOK(w)'
  BY <1>5 DEF RunnerOK, Busy
<1>7. TypeOK'
  BY <1>3, <1>5 DEF TypeOK
<1> QED
  BY <1>4, <1>5, <1>6, <1>7, RunnerMoves

LEMMA CompleteIInv ==
    ASSUME IInv, NEW w \in Workers, Complete(w)
    PROVE  IInv' /\ \A j \in Jobs : RowMove(j)
<1> TypeOK /\ runner[w].pc \in Busy
  BY DEF IInv, Complete, At, Busy
<1>1. CASE ~LeaseValid(Current(w))
  BY <1>1, DropIInv DEF Exit, Complete, TypeOK
<1>2. CASE LeaseValid(Current(w))
  <2>1. job[Current(w).id].delay \in 0..MaxDelay
    BY CurrentClaim DEF TypeOK, Row
  <2> QED
    BY <1>2, <2>1, SettleIInv DEF Complete, LeaseValid, At
<1> QED
  BY <1>1, <1>2

LEMMA FailUpdateIInv ==
    ASSUME IInv, NEW w \in Workers, FailUpdate(w)
    PROVE  IInv' /\ \A j \in Jobs : RowMove(j)
<1> DEFINE c == Current(w)
<1> TypeOK /\ runner[w].pc \in Busy
  BY DEF IInv, FailUpdate, At, Busy
<1>1. CASE job[c.id].token # c.token
  BY <1>1, DropIInv DEF Exit, FailUpdate, TypeOK
<1>2. CASE job[c.id].token = c.token
  <2> DEFINE st == IF runner[w].dead_lettered THEN "dead_letter" ELSE "pending"
  <2>1. PICK d \in 1..MaxDelay : job' = Released(c.id, st, d)
    BY <1>2 DEF FailUpdate
  <2>2. st = "dead_letter" => /\ runner[w].pc = "fail_update"
                              /\ job[c.id].attempts >= MaxRetries
    BY DEF IInv, RunnersOK, RunnerOK, FailUpdate, At
  <2>3. d \in 0..MaxDelay /\ st \in {"pending", "completed", "dead_letter"} /\ st # "completed"
    BY <2>1, ConstantsAssumption
  <2>4. NextJob(w) /\ UNCHANGED <<runs, crashes>>
    BY <1>2 DEF FailUpdate
  <2> HIDE DEF st
  <2> QED
    BY <1>2, <2>1, <2>2, <2>3, <2>4, SettleIInv
<1> QED
  BY <1>1, <1>2

(* claim() makes new claims: their tokens are above every token handed out  *)
(* for the same job before, so they meet no older claim.                    *)
LEMMA ClaimIInv ==
    ASSUME IInv, NEW w \in Workers, ClaimBatch(w)
    PROVE  IInv' /\ \A j \in Jobs : RowMove(j)
<1> TypeOK /\ RowsOK
  BY DEF IInv
<1>1. PICK s \in Batches :
        /\ job' = Leased(s)
        /\ runner' = [runner EXCEPT ![w] =
                Runner(IF s = <<>> THEN "recover" ELSE "execute", ClaimsOf(s), FALSE)]
  BY DEF ClaimBatch
<1>2. PICK n \in Nat : s \in [1..n -> Due] /\ DOMAIN s = 1..n /\ (s = <<>> <=> n = 0)
  BY LeasedRows
<1>3. \A a, b \in 1..n : s[a] = s[b] => a = b
  BY <1>2, LeasedRows
<1>4. \A j \in Jobs : (~\E a \in 1..n : s[a] = j) => job'[j] = job[j]
  BY <1>1, <1>2, LeasedRows
<1>5. \A a \in 1..n : /\ s[a] \in Jobs /\ job[s[a]].status = "pending"
                      /\ job'[s[a]].status = "running"
                      /\ job'[s[a]].token = job[s[a]].attempts + 1
                      /\ job'[s[a]].attempts = job[s[a]].attempts + 1
  BY <1>1, <1>2, LeasedRows
<1>6. ASSUME NEW j \in Jobs
      PROVE  RowMove(j)
  <2>1. CASE \E a \in 1..n : s[a] = j
    BY <1>5, <2>1 DEF RowMove
  <2>2. CASE ~\E a \in 1..n : s[a] = j
    BY <1>4, <2>2 DEF RowMove
  <2> QED
    BY <2>1, <2>2
<1>7. \A j \in Jobs : job[j].attempts \in Nat
  BY DEF TypeOK, Row
<1>8. /\ ClaimsOf(s) \in Seq(Claim) /\ Len(ClaimsOf(s)) = n
      /\ \A a \in 1..n : /\ ClaimsOf(s)[a].id = s[a]
                          /\ ClaimsOf(s)[a].token = job[s[a]].attempts + 1
  <2>1. ClaimsOf(s) = [a \in 1..n |-> [id |-> s[a], token |-> job[s[a]].attempts + 1]]
    BY <1>2 DEF ClaimsOf, FreshToken
  <2>2. \A a \in 1..n : [id |-> s[a], token |-> job[s[a]].attempts + 1] \in Claim
    BY <1>5, <1>7 DEF Claim
  <2>3. ClaimsOf(s) \in Seq(Claim) /\ Len(ClaimsOf(s)) = n
    BY <1>2, <2>1, <2>2
  <2> QED
    BY <2>1, <2>3
<1>9. /\ runner' \in [Workers -> [pc : Points, batch : Seq(Claim), dead_lettered : BOOLEAN]]
      /\ \A v \in Workers : v # w => runner'[v] = runner[v]
      /\ runner'[w].batch = ClaimsOf(s)
      /\ runner'[w].pc = IF n = 0 THEN "recover" ELSE "execute"
  BY <1>1, <1>2, <1>8 DEF TypeOK, Points, Runner
<1>10. TypeOK'
  BY <1>1, <1>9, LeasedRows DEF TypeOK, ClaimBatch
<1>11. Grown /\ RowsOK' /\ DeadLetterExhausted'
  BY <1>6, <1>10, RowsKept
<1>12. RunnersOK'
  <2>1. \A v \in Workers : v # w => RunnerOK(v)'
    BY <1>9, <1>11, OthersKept
  <2>2. RunnerOK(w)'
    BY <1>8, <1>9 DEF RunnerOK, Busy
  <2> QED
    BY <2>1, <2>2 DEF RunnersOK
(* older claims, now or before, are of counted attempts *)
<1>13. ASSUME NEW v \in Workers, v # w, NEW a \in 1..Len(runner[v].batch)
       PROVE  LET c == runner[v].batch[a]
              IN  c \in Claim /\ c.token >= 1 /\ c.token <= job[c.id].attempts
  BY DEF IInv, TypeOK, ClaimsOK
<1>14. ClaimsOK'
  <2>1. ASSUME NEW v \in Workers, v # w, NEW a \in 1..Len(runner'[v].batch)
        PROVE  /\ runner'[v].batch[a].token >= 1
               /\ runner'[v].batch[a].token <= job'[runner'[v].batch[a].id].attempts
    <3>1. runner'[v] = runner[v]
      BY <1>9, <2>1
    <3>2. LET c == runner[v].batch[a]
          IN  c \in Claim /\ c.token >= 1 /\ c.token <= job[c.id].attempts
      BY <1>13, <2>1, <3>1
    <3>3. \A j \in Jobs : job'[j].attempts \in Nat /\ job'[j].attempts >= job[j].attempts
      BY <1>11 DEF Grown, TypeOK, Row
    <3> QED
      BY <1>7, <3>1, <3>2, <3>3 DEF Claim
  <2>2. ASSUME NEW a \in 1..Len(runner'[w].batch)
        PROVE  /\ runner'[w].batch[a].token >= 1
               /\ runner'[w].batch[a].token <= job'[runner'[w].batch[a].id].attempts
    BY <1>5, <1>7, <1>8, <1>9
  <2> QED
    BY <2>1, <2>2 DEF ClaimsOK
<1>15. ClaimsUnique'
  <2>1. ASSUME NEW v \in Workers, v # w,
               NEW a \in 1..Len(runner[v].batch), NEW b \in 1..n
        PROVE  runner[v].batch[a] # ClaimsOf(s)[b]
    <3> DEFINE c == runner[v].batch[a]
    <3>1. c \in Claim /\ c.token <= job[c.id].attempts
      BY <1>13, <2>1
    <3>2. /\ ClaimsOf(s)[b].id = s[b] /\ s[b] \in Jobs
          /\ ClaimsOf(s)[b].token = job[s[b]].attempts + 1
      BY <1>5, <1>8
    <3> HIDE DEF c
    <3>3. c # ClaimsOf(s)[b]
      BY <1>7, <3>1, <3>2
    <3> QED
      BY <3>3 DEF c
  <2>2. \A a, b \in 1..n : ClaimsOf(s)[a] = ClaimsOf(s)[b] => a = b
    BY <1>3, <1>8
  <2>3. ASSUME NEW u \in Workers, NEW v \in Workers,
               NEW a \in 1..Len(runner'[u].batch), NEW b \in 1..Len(runner'[v].batch),
               runner'[u].batch[a] = runner'[v].batch[b]
        PROVE  u = v /\ a = b
    <3>1. CASE u # w /\ v # w
      <4>1. runner'[u] = runner[u] /\ runner'[v] = runner[v]
        BY <1>9, <3>1
      <4> QED
        BY <2>3, <4>1 DEF IInv, ClaimsUnique
    <3>2. CASE u = w /\ v = w
      BY <1>8, <1>9, <2>2, <2>3, <3>2
    <3>3. CASE u = w /\ v # w
      BY <1>8, <1>9, <2>1, <2>3, <3>3
    <3>4. CASE u # w /\ v = w
      BY <1>8, <1>9, <2>1, <2>3, <3>4
    <3> QED
      BY <3>1, <3>2, <3>3, <3>4
  <2> QED
    BY <2>3 DEF ClaimsUnique
<1> QED
  BY <1>6, <1>10, <1>11, <1>12, <1>14, <1>15 DEF IInv

-----------------------------------------------------------------------------
(* Every step of the system preserves the invariant and takes each row one  *)
(* of the ways of RowMove.                                                  *)
LEMMA NextIInv == IInv /\ [Next]_vars => IInv' /\ \A j \in Jobs : RowMove(j)
<1> SUFFICES ASSUME IInv, [Next]_vars
             PROVE  IInv' /\ \A j \in Jobs : RowMove(j)
  OBVIOUS
<1>1. CASE UNCHANGED vars
  <2>1. TypeOK' /\ \A j \in Jobs : RowMove(j)
    BY <1>1 DEF IInv, TypeOK, vars, RowMove
  <2> QED
    BY <1>1, <2>1, RunnersIdle DEF vars
<1>2. CASE \E j \in Jobs : Enqueue(j)
  BY <1>2, EnqueueIInv
<1>3. ASSUME NEW w \in Workers, RunnerStep(w)
      PROVE  IInv' /\ \A j \in Jobs : RowMove(j)
  BY <1>3, RecoverIInv, ClaimIInv, ExecuteIInv, CompleteIInv, FailSelectIInv, FailUpdateIInv
     DEF RunnerStep
<1>4. ASSUME NEW w \in Workers, QueryFails(w) \/ Restart(w)
      PROVE  IInv' /\ \A j \in Jobs : RowMove(j)
  <2>1. crashes' \in 0..MaxCrashes /\ UNCHANGED <<job, runs>>
    BY <1>4, ConstantsAssumption DEF IInv, TypeOK, QueryFails, Restart
  <2>2. \E r \in {Dead, Fresh} : runner' = [runner EXCEPT ![w] = r]
    BY <1>4 DEF QueryFails, Restart, Exit
  <2> QED
    BY <2>1, <2>2, DropIInv
<1>5. CASE Tick
  BY <1>5, TickIInv
<1> QED
  BY <1>1, <1>2, <1>3, <1>4, <1>5 DEF Next

THEOREM Invariance == Spec => []IInv
  BY InitIInv, NextIInv, PTL DEF Spec

(* Type correctness of the jobs table and the runners *)
THEOREM TypeCorrect == Spec => []TypeOK
  BY Invariance, PTL DEF IInv

(* No two runners hold a valid lease on one job (claim's token discipline)  *)
THEOREM LeasesExclusive == Spec => []LeaseExclusive
<1>1. IInv => LeaseExclusive
  <2> SUFFICES ASSUME IInv, NEW v \in Workers, NEW w \in Workers, NEW c,
                      Holds(v, c), Holds(w, c)
               PROVE  v = w
    BY DEF LeaseExclusive
  <2>1. DOMAIN runner[v].batch = 1..Len(runner[v].batch)
        /\ DOMAIN runner[w].batch = 1..Len(runner[w].batch)
    BY DEF IInv, TypeOK
  <2> QED
    BY <2>1 DEF IInv, ClaimsUnique, Holds
<1> QED
  BY <1>1, Invariance, PTL

(* A job is dead-lettered only once its attempts are spent, although fail() *)
(* decides on a row it read in an earlier statement                         *)
THEOREM DeadLetterSpent == Spec => []DeadLetterExhausted
  BY Invariance, PTL DEF IInv

(* Settled rows are never touched again                                     *)
THEOREM SettledFinal == Spec => SettledIsFinal
<1>1. IInv /\ [Next]_vars =>
        [\A j \in Jobs : job[j].status \in Settled =>
            /\ job'[j].status = job[j].status
            /\ job'[j].attempts = job[j].attempts]_vars
  BY NextIInv DEF RowMove, Settled
<1> QED
  BY <1>1, Invariance, PTL DEF Spec, SettledIsFinal

(* The verdict on a job is that of its latest attempt, whatever a runner that *)
(* lost its lease still has to report                                         *)
THEOREM VerdictOfLatest == Spec => SettledByLatestAttempt
<1>1. IInv /\ [Next]_vars =>
        [\A j \in Jobs : job[j].status \notin Settled =>
            /\ job'[j].status = "completed" => LatestAttemptAt(j, "complete")
            /\ job'[j].status = "dead_letter" => LatestAttemptAt(j, "fail_update")]_vars
  BY NextIInv DEF RowMove, Settled
<1> QED
  BY <1>1, Invariance, PTL DEF Spec, SettledByLatestAttempt
=============================================================================
