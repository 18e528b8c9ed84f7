----------------------- MODULE CommandPipelineProofs -----------------------
(***************************************************************************)
(* Proofs about CommandPipeline for any number of operations and requests. *)
(*                                                                         *)
(* The argument for exactly-once turns on RequestOK: a request past its    *)
(* idempotency lookup whose operation has meanwhile been committed by      *)
(* another request expects a version the row has left behind, so the guard *)
(* of its upsert fails.                                                    *)
(***************************************************************************)
EXTENDS CommandPipeline, SequenceTheorems, TLAPS

Working == {"load", "decide", "upsert", "insert"}

(* What handle_command knows at each point between two awaits *)
RequestOK(r) ==
    /\ r.pc # "idle" => r.op \in Operations /\ r.expected.version <= row.version
    /\ r.pc \in Working /\ idempotency[r.op] # 0 => r.expected.version < row.version
    /\ r.pc \in {"decide", "upsert", "insert"} /\ row.version = r.expected.version =>
         r.expected = Expected(row.version, row.state.lifecycle, row.state.authority)
    /\ r.pc = "decide" =>
         /\ r.state.version = r.expected.version
         /\ row.version = r.expected.version => r.state = row.state
    /\ r.pc \in {"upsert", "insert"} =>
         /\ r.count \in EventCounts
         /\ r.state.version = r.expected.version + r.count
         /\ r.result = r.state.version
         /\ row.version = r.expected.version => r.state = Applied(row.state, r.op, r.count)
    /\ r.pc = "insert" => row.version < r.state.version
    /\ r.pc = "respond" => r.result # 0 /\ idempotency[r.op] = r.result

RequestsOK == \A q \in Requests : RequestOK(request[q])

(* The row lock is held exactly by the transaction past its upsert *)
LockOK == \A q \in Requests : At(q, "insert") <=> lock = q

(* The idempotency table is an index of the event log *)
IdempotencyOK ==
    /\ \A o \in Operations :
         idempotency[o] # 0 =>
            /\ idempotency[o] \in DOMAIN events
            /\ events[idempotency[o]].op = o
            /\ o \in outbox
    /\ \A i \in DOMAIN events : idempotency[events[i].op] = i

AnswersOK == \A a \in answers : a.version # 0 /\ idempotency[a.op] = a.version

IInv ==
    /\ TypeOK
    /\ NothingOverwritten
    /\ VersionsContiguous
    /\ RequestsOK
    /\ LockOK
    /\ IdempotencyOK
    /\ AnswersOK

-----------------------------------------------------------------------------
(* What concatenation does to two sequences of one kind. *)
LEMMA ConcatFacts ==
    ASSUME NEW S, NEW u \in Seq(S), NEW v \in Seq(S)
    PROVE  /\ u \o v \in Seq(S)
           /\ Len(u \o v) = Len(u) + Len(v)
           /\ \A i \in 1..Len(u \o v) :
                 (u \o v)[i] = IF i <= Len(u) THEN u[i] ELSE v[i - Len(u)]
<1>1. Len(u \o v) = Len(u) + Len(v) BY ConcatProperties
<1> QED BY <1>1, ConcatProperties

(* apply() yields a well-formed document, one version on, that extends the  *)
(* applied events by the operation.                                         *)
LEMMA AppliedFacts ==
    ASSUME NEW s \in State, NEW o \in Operations, NEW n \in EventCounts
    PROVE  /\ Applied(s, o, n) \in State
           /\ Applied(s, o, n).version = s.version + n
           /\ n = 1 =>
                /\ Len(Applied(s, o, n).applied) = Len(s.applied) + 1
                /\ \A i \in 1..Len(s.applied) : Applied(s, o, n).applied[i] = s.applied[i]
                /\ Applied(s, o, n).applied[Len(s.applied) + 1] = o
<1> DEFINE t == s.applied \o Repeat(o, n)
<1>1. Repeat(o, n) \in Seq(Operations) /\ Len(Repeat(o, n)) = n
  BY DEF Repeat, EventCounts
<1>2. s.applied \in Seq(Operations) /\ Len(s.applied) \in Nat
  BY DEF State
<1>3. /\ t \in Seq(Operations)
      /\ Len(t) = Len(s.applied) + n
      /\ \A i \in 1..Len(t) : t[i] = IF i <= Len(s.applied) THEN s.applied[i]
                                     ELSE Repeat(o, n)[i - Len(s.applied)]
  BY <1>1, <1>2, ConcatFacts, ZenonT(60)
<1>4. /\ Applied(s, o, n).applied = t
      /\ Applied(s, o, n).version = s.version + n
  BY DEF Applied, Document
<1>5. Applied(s, o, n) \in State
  <2> HIDE DEF t
  <2>1. n \in Nat BY DEF EventCounts
  <2>2. Applied(s, o, n) = Document(t, s.version + n,
             s.lifecycle + IF o \in LifecycleOps THEN n ELSE 0,
             s.authority + IF o \in AuthorityOps THEN n ELSE 0)
    BY DEF Applied, t
  <2> QED BY <1>3, <2>1, <2>2 DEF State, Document
<1>6. ASSUME n = 1
      PROVE  /\ Len(t) = Len(s.applied) + 1
             /\ \A i \in 1..Len(s.applied) : t[i] = s.applied[i]
             /\ t[Len(s.applied) + 1] = o
  <2> HIDE DEF t
  <2>1. Repeat(o, n)[1] = o BY <1>6 DEF Repeat
  <2> QED BY <1>2, <1>3, <1>6, <2>1
<1> QED BY <1>4, <1>5, <1>6

(* A step that leaves the tables alone and moves one request to a record    *)
(* that satisfies the invariant preserves the invariant.                    *)
LEMMA LocalStep ==
    ASSUME IInv, NEW q \in Requests, NEW x \in RequestRecord,
           request' = [request EXCEPT ![q] = x],
           UNCHANGED Store,
           RequestOK(x),
           x.pc = "insert" => lock' = q,
           x.pc # "insert" => lock' # q,
           \A p \in Requests \ {q} : lock' = p <=> lock = p,
           lock' \in Requests \union {None},
           answers' \subseteq [op : Operations, version : Nat],
           \A a \in answers' : a.version # 0 /\ idempotency[a.op] = a.version,
           broadcast' \in [Operations -> Nat]
    PROVE  IInv'
<1> USE DEF IInv, Store
<1>1. TypeOK' BY DEF TypeOK
<1>2. NothingOverwritten' /\ VersionsContiguous'
  BY DEF NothingOverwritten, VersionsContiguous
<1>3. \A p \in Requests : request'[p] = IF p = q THEN x ELSE request[p]
  BY DEF TypeOK
<1>4. RequestsOK'
  <2> SUFFICES ASSUME NEW p \in Requests PROVE RequestOK(request[p])'
    BY DEF RequestsOK
  <2>1. RequestOK(IF p = q THEN x ELSE request[p])
    BY DEF RequestsOK
  <2> QED BY <1>3, <2>1 DEF RequestOK
<1>5. LockOK' BY <1>3 DEF LockOK, At
<1>6. IdempotencyOK' BY DEF IdempotencyOK
<1>7. AnswersOK' BY DEF AnswersOK
<1> QED BY <1>1, <1>2, <1>4, <1>5, <1>6, <1>7

(* The record of a request that has ended satisfies the invariant. *)
LEMMA IdleFacts == Idle \in RequestRecord /\ RequestOK(Idle) /\ Idle.pc = "idle"
BY DEF Idle, Request, Expected, Blank, Document, RequestRecord, Expectation,
       State, Points, RequestOK, Working

(* The steps that end a request without touching the tables. *)
LEMMA EndStep ==
    ASSUME IInv, NEW q \in Requests, End(q), UNCHANGED Store,
           lock' = (IF lock = q THEN None ELSE lock),
           answers' \subseteq [op : Operations, version : Nat],
           \A a \in answers' : a.version # 0 /\ idempotency[a.op] = a.version,
           broadcast' \in [Operations -> Nat]
    PROVE  IInv'
<1>1. lock' \in Requests \union {None} /\ lock' # q
  BY ConstantsAssumption DEF IInv, TypeOK
<1>2. \A p \in Requests \ {q} : lock' = p <=> lock = p
  BY ConstantsAssumption
<1> QED BY <1>1, <1>2, IdleFacts, LocalStep DEF End

(* Submit: the expectations are of versions the row has had. *)
LEMMA SubmitStep ==
    ASSUME IInv, NEW q \in Requests, NEW o \in Operations, NEW e \in Observable,
           Submit(q, o, e)
    PROVE  IInv'
<1> DEFINE x == Request("route", o, e, FALSE, Blank, 0, 0)
<1>1. e \in Expectation /\ e.version <= row.version
  BY DEF Observable, Expected, Expectation, IInv, TypeOK, State
<1>2. x \in RequestRecord /\ RequestOK(x) /\ x.pc = "route"
  BY <1>1 DEF Request, RequestRecord, Blank, Document, State, Points, RequestOK, Working
<1>3. lock # q BY DEF Submit, At, IInv, LockOK
<1>4. request' = [request EXCEPT ![q] = x] /\ UNCHANGED <<Store, lock, answers, broadcast>>
  BY DEF Submit
<1> HIDE DEF x
<1> QED BY <1>2, <1>3, <1>4, LocalStep DEF IInv, TypeOK, AnswersOK

(* The lookup of the route. *)
LEMMA LookUpStep ==
    ASSUME IInv, NEW q \in Requests, LookUp(q)
    PROVE  IInv'
<1> DEFINE r == request[q]
<1> DEFINE x == Request("check", r.op, r.expected, idempotency[r.op] # 0, r.state, 0, 0)
<1>1. r \in RequestRecord /\ r.pc = "route" /\ RequestOK(r)
  BY DEF IInv, TypeOK, RequestsOK, LookUp, At
<1>2. (idempotency[r.op] # 0) \in BOOLEAN OBVIOUS
<1>3. x \in RequestRecord /\ RequestOK(x) /\ x.pc = "check"
  BY <1>1, <1>2 DEF Request, RequestRecord, Points, RequestOK, Working
<1>4. lock # q BY DEF LookUp, At, IInv, LockOK
<1>5. request' = [request EXCEPT ![q] = x] /\ UNCHANGED <<Store, lock, answers, broadcast>>
  BY DEF LookUp
<1> HIDE DEF x
<1> QED BY <1>3, <1>4, <1>5, LocalStep DEF IInv, TypeOK, AnswersOK

(* The lookup of handle_command: a request goes on only if its operation    *)
(* has no recorded result.                                                  *)
LEMMA CheckStep ==
    ASSUME IInv, NEW q \in Requests, Check(q)
    PROVE  IInv'
<1> DEFINE r == request[q]
<1>1. r \in RequestRecord /\ r.pc = "check" /\ RequestOK(r) /\ r.op \in Operations
  BY DEF IInv, TypeOK, RequestsOK, RequestOK, Check, At
<1>2. lock # q BY DEF Check, At, IInv, LockOK
<1>3. UNCHANGED <<Store, lock, answers, broadcast>> BY DEF Check
<1>4. CASE idempotency[r.op] # 0
  <2> DEFINE x == Request("respond", r.op, r.expected, r.duplicate, r.state, 0,
                          idempotency[r.op])
  <2>1. idempotency[r.op] \in Nat BY <1>1 DEF IInv, TypeOK
  <2>2. x \in RequestRecord /\ RequestOK(x) /\ x.pc = "respond"
    BY <1>1, <1>4, <2>1 DEF Request, RequestRecord, Points, RequestOK, Working
  <2>3. request' = [request EXCEPT ![q] = x]
    BY <1>4 DEF Check
  <2> HIDE DEF x
  <2> QED BY <1>2, <1>3, <2>2, <2>3, LocalStep DEF IInv, TypeOK, AnswersOK
<1>5. CASE idempotency[r.op] = 0
  <2> DEFINE x == Request("load", r.op, r.expected, r.duplicate, r.state, r.count, r.result)
  <2>1. x \in RequestRecord /\ RequestOK(x) /\ x.pc = "load"
    BY <1>1, <1>5 DEF Request, RequestRecord, Points, RequestOK, Working
  <2>2. request' = [request EXCEPT ![q] = x]
    BY <1>5 DEF Check, Goto
  <2> HIDE DEF x
  <2> QED BY <1>2, <1>3, <2>1, <2>2, LocalStep DEF IInv, TypeOK, AnswersOK
<1> QED BY <1>4, <1>5

(* The load and the three comparisons with the envelope. *)
LEMMA LoadStep ==
    ASSUME IInv, NEW q \in Requests, Load(q)
    PROVE  IInv'
<1> DEFINE r == request[q]
<1>1. r \in RequestRecord /\ r.pc = "load" /\ RequestOK(r)
  BY DEF IInv, TypeOK, RequestsOK, Load, At
<1>2. lock # q BY DEF Load, At, IInv, LockOK
<1>3. UNCHANGED <<Store, lock, answers, broadcast>> BY DEF Load
<1>4. CASE Matches(r)
  <2> DEFINE x == Request("decide", r.op, r.expected, r.duplicate, row.state, 0, 0)
  <2>1. row.state \in State /\ row.state.version = row.version
    BY DEF IInv, TypeOK, VersionsContiguous
  <2>2. r.expected = Expected(row.version, row.state.lifecycle, row.state.authority)
    BY <1>1, <1>4 DEF Matches, Expected, RequestRecord, Expectation
  <2>3. x \in RequestRecord /\ RequestOK(x) /\ x.pc = "decide"
    BY <1>1, <1>4, <2>1, <2>2 DEF Request, RequestRecord, Points, RequestOK, Working, Matches
  <2>4. request' = [request EXCEPT ![q] = x]
    BY <1>4 DEF Load
  <2> HIDE DEF x
  <2> QED BY <1>2, <1>3, <2>3, <2>4, LocalStep DEF IInv, TypeOK, AnswersOK
<1>5. CASE ~Matches(r)
  <2>1. End(q) BY <1>5 DEF Load
  <2> QED BY <1>2, <1>3, <2>1, EndStep DEF IInv, TypeOK, AnswersOK
<1> QED BY <1>4, <1>5

(* decide() and apply(): the document is the row's with the events applied. *)
LEMMA DecideStep ==
    ASSUME IInv, NEW q \in Requests, Decide(q)
    PROVE  IInv'
<1> DEFINE r == request[q]
<1>1. r \in RequestRecord /\ r.pc = "decide" /\ RequestOK(r)
  BY DEF IInv, TypeOK, RequestsOK, Decide, At
<1>2. lock # q BY DEF Decide, At, IInv, LockOK
<1>3. UNCHANGED <<Store, lock, answers, broadcast>> BY DEF Decide
<1>4. CASE End(q)
  BY <1>2, <1>3, <1>4, EndStep DEF IInv, TypeOK, AnswersOK
<1>5. ASSUME NEW n \in EventCounts,
             request' = [request EXCEPT ![q] =
                Request("upsert", r.op, r.expected, r.duplicate,
                        Applied(r.state, r.op, n), n, r.state.version + n)]
      PROVE  IInv'
  <2> DEFINE x == Request("upsert", r.op, r.expected, r.duplicate,
                          Applied(r.state, r.op, n), n, r.state.version + n)
  <2>1. r.op \in Operations /\ r.state \in State /\ r.state.version \in Nat /\ n \in Nat
    BY <1>1 DEF RequestOK, RequestRecord, State, EventCounts
  <2>2. /\ Applied(r.state, r.op, n) \in State
        /\ Applied(r.state, r.op, n).version = r.state.version + n
    BY <2>1, AppliedFacts
  <2>3. x \in RequestRecord
    BY <1>1, <2>1, <2>2 DEF Request, RequestRecord, Points
  <2>4. RequestOK(x) /\ x.pc = "upsert"
    BY <1>1, <2>1, <2>2 DEF Request, RequestOK, Working
  <2>5. request' = [request EXCEPT ![q] = x] BY <1>5
  <2> HIDE DEF x
  <2> QED BY <1>2, <1>3, <2>3, <2>4, <2>5, LocalStep DEF IInv, TypeOK, AnswersOK
<1> QED BY <1>4, <1>5 DEF Decide

(* The upsert: the guard is evaluated under the row lock. *)
LEMMA UpsertStep ==
    ASSUME IInv, NEW q \in Requests, Upsert(q)
    PROVE  IInv'
<1> DEFINE r == request[q]
<1>1. r \in RequestRecord /\ r.pc = "upsert" /\ RequestOK(r)
  BY DEF IInv, TypeOK, RequestsOK, Upsert, At
<1>2. lock = None /\ UNCHANGED <<Store, answers, broadcast>>
  BY DEF Upsert
<1>3. CASE Guard(r) /\ lock' = q /\ Goto(q, "insert")
  <2> DEFINE x == Request("insert", r.op, r.expected, r.duplicate, r.state, r.count, r.result)
  <2>1. x \in RequestRecord /\ RequestOK(x) /\ x.pc = "insert"
    BY <1>1, <1>3 DEF Request, RequestRecord, Points, RequestOK, Working, Guard
  <2>2. request' = [request EXCEPT ![q] = x]
    BY <1>3 DEF Goto
  <2> HIDE DEF x
  <2> QED BY <1>2, <1>3, <2>1, <2>2, LocalStep, ConstantsAssumption DEF IInv, TypeOK, AnswersOK
<1>4. CASE End(q) /\ UNCHANGED lock
  <2>1. lock' = (IF lock = q THEN None ELSE lock) BY <1>2, <1>4
  <2> QED BY <1>2, <1>4, <2>1, EndStep DEF IInv, TypeOK, AnswersOK
<1> QED BY <1>3, <1>4 DEF Upsert

(* The answer, which may be lost. *)
LEMMA RespondStep ==
    ASSUME IInv, NEW q \in Requests, Respond(q)
    PROVE  IInv'
<1> DEFINE r == request[q]
<1>1. /\ r \in RequestRecord /\ r.pc = "respond" /\ r.op \in Operations
      /\ r.result # 0 /\ idempotency[r.op] = r.result
  BY DEF IInv, TypeOK, RequestsOK, RequestOK, Respond, At
<1>2. lock # q BY DEF Respond, At, IInv, LockOK
<1>3. UNCHANGED <<Store, lock>> /\ End(q) BY DEF Respond
<1>4. broadcast' \in [Operations -> Nat]
  BY <1>1 DEF Respond, Fed, IInv, TypeOK
<1>5. answers' \subseteq answers \union {[op |-> r.op, version |-> r.result]}
  BY DEF Respond
<1>6. [op |-> r.op, version |-> r.result] \in [op : Operations, version : Nat]
  BY <1>1 DEF RequestRecord
<1>7. answers' \subseteq [op : Operations, version : Nat]
  BY <1>5, <1>6 DEF IInv, TypeOK
<1>8. \A a \in answers' : a.version # 0 /\ idempotency[a.op] = a.version
  BY <1>1, <1>5 DEF IInv, AnswersOK
<1> QED BY <1>2, <1>3, <1>4, <1>7, <1>8, EndStep

(* A dropped request. *)
LEMMA AbandonStep ==
    ASSUME IInv, NEW q \in Requests, Abandon(q)
    PROVE  IInv'
BY EndStep DEF Abandon, IInv, TypeOK, AnswersOK

(* A transaction at its COMMIT writes one event on top of the row it has    *)
(* loaded, and its operation has not been committed before.                 *)
LEMMA CommitFacts ==
    ASSUME IInv, NEW q \in Requests, At(q, "insert")
    PROVE  /\ request[q].op \in Operations
           /\ request[q].count = 1
           /\ row.version = request[q].expected.version
           /\ request[q].expected =
                 Expected(row.version, row.state.lifecycle, row.state.authority)
           /\ request[q].state = Applied(row.state, request[q].op, 1)
           /\ request[q].state.version = row.version + 1
           /\ request[q].result = row.version + 1
           /\ idempotency[request[q].op] = 0
<1> DEFINE r == request[q]
<1>1. r \in RequestRecord /\ r.pc = "insert" /\ RequestOK(r) /\ row.version \in Nat
  BY DEF IInv, TypeOK, RequestsOK, At
<1>2. r.expected.version \in Nat /\ r.expected.version <= row.version /\ r.op \in Operations
  BY <1>1 DEF RequestRecord, Expectation, RequestOK
<1>3. /\ r.count \in {0, 1} /\ r.state.version = r.expected.version + r.count
      /\ row.version < r.state.version /\ r.result = r.state.version
  BY <1>1 DEF RequestOK, EventCounts
<1>4. r.count = 1 /\ row.version = r.expected.version
  BY <1>1, <1>2, <1>3
<1>5. r.state = Applied(row.state, r.op, 1)
  BY <1>1, <1>4 DEF RequestOK
<1>6. r.expected = Expected(row.version, row.state.lifecycle, row.state.authority)
  BY <1>1, <1>4 DEF RequestOK
<1>7. idempotency[r.op] = 0
  BY <1>1, <1>4 DEF RequestOK, Working
<1> QED BY <1>2, <1>3, <1>4, <1>5, <1>6, <1>7

(* The tables after a COMMIT. *)
LEMMA CommitEffect ==
    ASSUME IInv, NEW q \in Requests, Commit(q)
    PROVE  /\ row' = Row(row.version + 1, Applied(row.state, request[q].op, 1))
           /\ Applied(row.state, request[q].op, 1).version = row.version + 1
           /\ events' \in Seq([op : Operations, version : Nat])
           /\ Len(events') = Len(events) + 1
           /\ \A i \in 1..Len(events) : events'[i] = events[i]
           /\ events'[Len(events) + 1] = Event(request[q].op, Len(events) + 1)
           /\ outbox' = outbox \union {request[q].op}
           /\ idempotency' = [idempotency EXCEPT ![request[q].op] = Len(events) + 1]
<1> DEFINE r == request[q]
<1> DEFINE fresh == [i \in 1..r.count |-> Event(r.op, r.expected.version + i)]
<1> DEFINE S == [op : Operations, version : Nat]
<1>1. At(q, "insert") BY DEF Commit
<1>2. /\ r.op \in Operations /\ r.count = 1 /\ row.version = r.expected.version
      /\ r.state = Applied(row.state, r.op, 1) /\ r.state.version = row.version + 1
      /\ r.result = row.version + 1 /\ idempotency[r.op] = 0
  BY <1>1, CommitFacts
<1>3. row.version \in Nat /\ row.version = Len(events) /\ Len(events) \in Nat
  BY DEF IInv, TypeOK, VersionsContiguous
<1>4. events \in Seq(S) BY DEF IInv, TypeOK
<1>5. fresh \in Seq(S) /\ Len(fresh) = 1 /\ fresh[1] = Event(r.op, Len(events) + 1)
  BY <1>2, <1>3 DEF Event
<1>6. events' = events \o fresh BY DEF Commit
<1>7. /\ events' \in Seq(S)
      /\ Len(events') = Len(events) + 1
      /\ \A i \in 1..Len(events') :
           events'[i] = IF i <= Len(events) THEN events[i] ELSE fresh[i - Len(events)]
  <2> HIDE DEF fresh, S
  <2> QED BY <1>4, <1>5, <1>6, ConcatFacts, SMTT(40)
<1>8. /\ \A i \in 1..Len(events) : events'[i] = events[i]
      /\ events'[Len(events) + 1] = Event(r.op, Len(events) + 1)
  <2> HIDE DEF fresh, S
  <2> QED BY <1>3, <1>5, <1>7
<1>9. row' = Row(row.version + 1, Applied(row.state, r.op, 1))
  BY <1>2 DEF Commit
<1>10. outbox' = outbox \union {r.op}
  BY <1>2 DEF Commit, Staged
<1>11. idempotency' = [idempotency EXCEPT ![r.op] = Len(events) + 1]
  BY <1>2, <1>3 DEF Commit, Recorded
<1> QED BY <1>2, <1>7, <1>8, <1>9, <1>10, <1>11

(* COMMIT preserves the invariant: every other request now expects a        *)
(* version the row has left.                                                *)
LEMMA CommitStep ==
    ASSUME IInv, NEW q \in Requests, Commit(q)
    PROVE  IInv'
<1> DEFINE r == request[q]
<1> DEFINE d == Applied(row.state, r.op, 1)
<1> DEFINE n == Len(events)
<1> DEFINE x == Request("respond", r.op, r.expected, r.duplicate, r.state, r.count, r.result)
<1>1. /\ At(q, "insert") /\ lock' = None /\ request' = [request EXCEPT ![q] = x]
      /\ UNCHANGED <<answers, broadcast>>
  BY DEF Commit, Goto
<1>2. r \in RequestRecord /\ r.op \in Operations /\ r.result = n + 1 /\ idempotency[r.op] = 0
  BY <1>1, CommitFacts DEF IInv, TypeOK, VersionsContiguous
<1>3. /\ n \in Nat /\ row.version = n /\ row.state \in State /\ row.state.version = n
      /\ events \in Seq([op : Operations, version : Nat]) /\ DOMAIN events = 1..n
  BY DEF IInv, TypeOK, VersionsContiguous
<1>4. /\ d \in State /\ d.version = n + 1
      /\ Len(d.applied) = Len(row.state.applied) + 1
      /\ \A i \in 1..Len(row.state.applied) : d.applied[i] = row.state.applied[i]
      /\ d.applied[Len(row.state.applied) + 1] = r.op
  <2>1. 1 \in EventCounts BY DEF EventCounts
  <2>2. row.state.version + 1 = n + 1 BY <1>3
  <2> HIDE DEF n
  <2>3. /\ d \in State /\ d.version = row.state.version + 1
        /\ Len(d.applied) = Len(row.state.applied) + 1
        /\ \A i \in 1..Len(row.state.applied) : d.applied[i] = row.state.applied[i]
        /\ d.applied[Len(row.state.applied) + 1] = r.op
    BY <1>2, <1>3, <2>1, AppliedFacts, ZenonT(60)
  <2> QED BY <2>2, <2>3
<1>5. row' = Row(n + 1, d) BY <1>3, CommitEffect
<1>6. /\ events' \in Seq([op : Operations, version : Nat])
      /\ Len(events') = n + 1
      /\ \A i \in 1..n : events'[i] = events[i]
      /\ events'[n + 1] = Event(r.op, n + 1)
      /\ outbox' = outbox \union {r.op}
      /\ idempotency' = [idempotency EXCEPT ![r.op] = n + 1]
  BY CommitEffect
<1>7. DOMAIN events' = 1..(n + 1) BY <1>3, <1>6
<1>8. x \in RequestRecord /\ x.pc = "respond" /\ x.op = r.op /\ x.result = n + 1
  BY <1>2 DEF Request, RequestRecord, Points
<1>9. \A p \in Requests : request'[p] = IF p = q THEN x ELSE request[p]
  BY <1>1 DEF IInv, TypeOK
<1> HIDE DEF d, x, n
<1>10. row'.version = n + 1 /\ row'.state = d /\ row' \in [version : Nat, state : State]
  BY <1>3, <1>4, <1>5 DEF Row
<1>11. TypeOK'
  BY <1>1, <1>2, <1>3, <1>6, <1>8, <1>10 DEF IInv, TypeOK
<1>12. NothingOverwritten'
  <2>1. Len(row.state.applied) = n /\ \A i \in 1..n : row.state.applied[i] = events[i].op
    BY <1>3 DEF IInv, NothingOverwritten, n
  <2>2. events'[n + 1].op = r.op BY <1>6 DEF Event
  <2>3. \A i \in 1..(n + 1) : d.applied[i] = events'[i].op
    BY <1>3, <1>4, <1>6, <2>1, <2>2
  <2> QED BY <1>4, <1>6, <1>7, <1>10, <2>1, <2>3 DEF NothingOverwritten
<1>13. VersionsContiguous'
  <2>1. \A i \in 1..n : events[i].version = i
    BY <1>3 DEF IInv, VersionsContiguous
  <2>2. events'[n + 1].version = n + 1 BY <1>6 DEF Event
  <2>3. \A i \in 1..(n + 1) : events'[i].version = i
    BY <1>3, <1>6, <2>1, <2>2
  <2> QED BY <1>4, <1>6, <1>7, <1>10, <2>3 DEF VersionsContiguous
<1>14. IdempotencyOK'
  <2>1. idempotency \in [Operations -> Nat] BY DEF IInv, TypeOK
  <2>2. \A o \in Operations : idempotency'[o] = IF o = r.op THEN n + 1 ELSE idempotency[o]
    BY <1>6, <2>1
  <2>3. \A o \in Operations : idempotency[o] # 0 =>
           idempotency[o] \in 1..n /\ events[idempotency[o]].op = o /\ o \in outbox
    BY <1>3 DEF IInv, IdempotencyOK
  <2>4. events'[n + 1].op = r.op BY <1>6 DEF Event
  <2>5. \A o \in Operations : idempotency'[o] # 0 =>
           idempotency'[o] \in 1..(n + 1) /\ events'[idempotency'[o]].op = o /\ o \in outbox'
    BY <1>2, <1>3, <1>6, <2>2, <2>3, <2>4
  <2>6. \A i \in 1..n : events[i].op \in Operations /\ idempotency[events[i].op] = i
    <3>1. \A i \in 1..n : events[i] \in [op : Operations, version : Nat] BY <1>3, ElementOfSeq DEF n
    <3>2. \A i \in 1..n : idempotency[events[i].op] = i
      BY <1>3 DEF IInv, IdempotencyOK
    <3> QED BY <3>1, <3>2
  <2>7. \A i \in 1..(n + 1) : idempotency'[events'[i].op] = i
    BY <1>2, <1>3, <1>6, <2>2, <2>4, <2>6
  <2> QED BY <1>7, <2>5, <2>7 DEF IdempotencyOK
<1>15. AnswersOK'
  <2>1. \A a \in answers : a.op \in Operations /\ a.version # 0 /\ idempotency[a.op] = a.version
    BY DEF IInv, TypeOK, AnswersOK
  <2>2. \A a \in answers : a.op # r.op BY <1>2, <2>1
  <2>3. \A a \in answers : idempotency'[a.op] = idempotency[a.op]
    BY <1>6, <2>1, <2>2 DEF IInv, TypeOK
  <2> QED BY <1>1, <2>1, <2>3 DEF AnswersOK
<1>16. LockOK'
  <2>1. \A p \in Requests \ {q} : request[p].pc # "insert"
    BY <1>1 DEF IInv, LockOK, At
  <2> QED BY <1>1, <1>8, <1>9, <2>1, ConstantsAssumption DEF LockOK, At
<1>17. RequestsOK'
  <2> SUFFICES ASSUME NEW p \in Requests PROVE RequestOK(request[p])'
    BY DEF RequestsOK
  <2>1. \A o \in Operations : idempotency'[o] = IF o = r.op THEN n + 1 ELSE idempotency[o]
    BY <1>6 DEF IInv, TypeOK
  <2>2. CASE p = q
    <3>1. x.expected.version <= n + 1
      BY <1>1, <1>2, <1>3, CommitFacts DEF x, Request
    <3>2. request'[p] = x BY <1>9, <2>2
    <3>3. idempotency'[x.op] = x.result /\ x.result # 0 /\ x.op \in Operations
      BY <1>2, <1>3, <1>8, <2>1
    <3>4. x.expected.version <= row'.version BY <1>10, <3>1
    <3> QED BY <1>8, <3>2, <3>3, <3>4 DEF RequestOK, Working
  <2>3. CASE p # q
    <3>1. /\ request'[p] = request[p] /\ request[p].pc # "insert"
          /\ request[p] \in RequestRecord /\ RequestOK(request[p])
      BY <1>1, <1>9, <2>3 DEF IInv, TypeOK, LockOK, RequestsOK, At
    <3>2. request[p].pc # "idle" =>
            /\ request[p].op \in Operations /\ request[p].expected.version \in Nat
            /\ request[p].expected.version <= n
      BY <1>3, <3>1 DEF RequestOK, RequestRecord, Expectation
    <3>3. request[p].pc = "respond" => request[p].op # r.op
      BY <1>2, <3>1 DEF RequestOK
    <3>4. request[p].pc # "idle" =>
            /\ request[p].expected.version <= row'.version
            /\ request[p].expected.version < row'.version
            /\ row'.version # request[p].expected.version
      BY <1>3, <1>10, <3>2
    <3>5. request[p].pc = "respond" => idempotency'[request[p].op] = idempotency[request[p].op]
      BY <2>1, <3>2, <3>3
    <3> QED BY <3>1, <3>2, <3>4, <3>5 DEF RequestOK, Working
  <2> QED BY <2>2, <2>3
<1> QED BY <1>11, <1>12, <1>13, <1>14, <1>15, <1>16, <1>17 DEF IInv

-----------------------------------------------------------------------------
(* The invariant holds when the aggregate has just been created. *)
LEMMA InitIInv == Init => IInv
<1> SUFFICES ASSUME Init PROVE IInv OBVIOUS
<1>1. Blank \in State /\ Blank.version = 0 /\ Blank.applied = <<>>
  BY DEF Blank, Document, State
<1>2. \A q \in Requests : request[q] = Idle BY DEF Init
<1>3. events = <<>> /\ Len(events) = 0 /\ DOMAIN events = {} BY DEF Init
<1>4. row.version = 0 /\ row.state = Blank BY DEF Init, Row
<1>5. TypeOK
  BY <1>1, <1>2, IdleFacts DEF Init, TypeOK, Row
<1>6. NothingOverwritten /\ VersionsContiguous
  BY <1>1, <1>3, <1>4 DEF NothingOverwritten, VersionsContiguous
<1>7. RequestsOK BY <1>2, IdleFacts DEF RequestsOK
<1>8. LockOK BY <1>2, IdleFacts, ConstantsAssumption DEF LockOK, At, Init
<1>9. IdempotencyOK /\ AnswersOK BY <1>3 DEF Init, IdempotencyOK, AnswersOK
<1> QED BY <1>5, <1>6, <1>7, <1>8, <1>9 DEF IInv

(* Every step of every request preserves the invariant. *)
LEMMA NextIInv == IInv /\ [Next]_vars => IInv'
<1> SUFFICES ASSUME IInv, [Next]_vars PROVE IInv' OBVIOUS
<1>1. CASE UNCHANGED vars
  BY <1>1 DEF vars, IInv, TypeOK, NothingOverwritten, VersionsContiguous, RequestsOK,
              RequestOK, LockOK, At, IdempotencyOK, AnswersOK
<1>2. ASSUME NEW q \in Requests, NEW o \in Operations, NEW e \in Observable, Submit(q, o, e)
      PROVE  IInv'
  BY <1>2, SubmitStep
<1>3. ASSUME NEW q \in Requests, Step(q) PROVE IInv'
  BY <1>3, LookUpStep, CheckStep, LoadStep, DecideStep, UpsertStep, CommitStep, RespondStep
     DEF Step
<1>4. ASSUME NEW q \in Requests, Abandon(q) PROVE IInv'
  BY <1>4, AbandonStep
<1> QED BY <1>1, <1>2, <1>3, <1>4 DEF Next

(* The inductive invariant of the command pipeline. *)
THEOREM Invariance == Spec => []IInv
BY InitIInv, NextIInv, PTL DEF Spec

(* handle_command, the repository and the unit of work keep every table and *)
(* every request well typed.                                                *)
THEOREM TypeCorrect == Spec => []TypeOK
<1>1. IInv => TypeOK BY DEF IInv
<1> QED BY <1>1, Invariance, PTL

(* However many requests carry an operation_id and however they overlap,    *)
(* handle_command commits its event once.                                   *)
THEOREM ExactlyOnce == Spec => []AppliedOnce
<1>1. IInv => AppliedOnce BY DEF IInv, IdempotencyOK, AppliedOnce
<1> QED BY <1>1, Invariance, PTL

(* The guard of upsert_aggregate is enough to exclude lost updates although *)
(* handle_command loads before it opens its transaction.                    *)
THEOREM NoLostUpdate == Spec => []NothingOverwritten
<1>1. IInv => NothingOverwritten BY DEF IInv
<1> QED BY <1>1, Invariance, PTL

(* Column, document and events number the history of an aggregate alike.    *)
THEOREM VersionsAgree == Spec => []VersionsContiguous
<1>1. IInv => VersionsContiguous BY DEF IInv
<1> QED BY <1>1, Invariance, PTL

(* A successful answer of command_route, cached or not, is backed by a      *)
(* durable event, outbox row and result.                                    *)
THEOREM AnswersKept == Spec => []AnswersDurable
<1>1. IInv => AnswersDurable
  <2> SUFFICES ASSUME IInv, NEW a \in answers
               PROVE  /\ \E i \in DOMAIN events : events[i].op = a.op /\ i = a.version
                      /\ a.op \in outbox
                      /\ idempotency[a.op] = a.version
    BY DEF AnswersDurable
  <2>1. a.op \in Operations /\ idempotency[a.op] = a.version /\ idempotency[a.op] # 0
    BY DEF IInv, TypeOK, AnswersOK
  <2> QED BY <2>1 DEF IInv, IdempotencyOK
<1> QED BY <1>1, Invariance, PTL

(* Only Commit writes the tables of the aggregate. *)
LEMMA OnlyCommitWrites ==
    ASSUME [Next]_vars
    PROVE  UNCHANGED Store \/ \E q \in Requests : Commit(q)
BY DEF Next, vars, Store, Step, Submit, LookUp, Check, Load, Decide, Upsert, Respond, Abandon

(* A command changes the aggregate only as its issuer last saw it.          *)
THEOREM WritesExpected == Spec => WritesWhatWasExpected
<1>1. IInv /\ [Next]_vars =>
        [row' # row =>
            \E q \in Requests :
                /\ At(q, "insert")
                /\ request[q].expected =
                     Expected(row.version, row.state.lifecycle, row.state.authority)]_vars
  BY OnlyCommitWrites, CommitFacts DEF Commit, Store
<1> QED BY <1>1, Invariance, PTL DEF Spec, WritesWhatWasExpected

(* The operations of the events, in order: the log the pipeline implements  *)
Log == [i \in DOMAIN events |-> events[i].op]

Answered == {a.op : a \in answers}

(* A COMMIT appends its operation to the log. *)
LEMMA CommitAppends ==
    ASSUME IInv, NEW q \in Requests, Commit(q)
    PROVE  /\ \A i \in DOMAIN Log : Log[i] # request[q].op
           /\ Log' = Append(Log, request[q].op)
<1> DEFINE o == request[q].op
<1> DEFINE n == Len(events)
<1>1. At(q, "insert") /\ IInv' BY CommitStep DEF Commit
<1>2. o \in Operations /\ idempotency[o] = 0 BY <1>1, CommitFacts
<1>3. n \in Nat /\ DOMAIN events = 1..n /\ \A i \in 1..n : events[i].op \in Operations
  <2>1. \A i \in 1..n : events[i] \in [op : Operations, version : Nat]
    BY ElementOfSeq DEF IInv, TypeOK
  <2> QED BY <2>1 DEF IInv, TypeOK
<1>4. /\ events' \in Seq([op : Operations, version : Nat]) /\ Len(events') = n + 1
      /\ \A i \in 1..n : events'[i] = events[i]
      /\ events'[n + 1].op = o
  <2>1. Event(o, n + 1).op = o BY DEF Event
  <2> QED BY <2>1, CommitEffect
<1>5. DOMAIN events' = 1..(n + 1) BY <1>4
<1> HIDE DEF n, o
<1>6. Log \in Seq(Operations) /\ Len(Log) = n /\ \A i \in 1..n : Log[i] = events[i].op
  BY <1>3 DEF Log
<1>7. /\ Log' = [i \in 1..(n + 1) |-> events'[i].op]
      /\ \A i \in 1..(n + 1) : events'[i].op = IF i = n + 1 THEN o ELSE events[i].op
  BY <1>3, <1>4, <1>5 DEF Log
<1>8. /\ Log' \in Seq(Operations) /\ Len(Log') = n + 1
      /\ \A i \in 1..(n + 1) : Log'[i] = IF i = n + 1 THEN o ELSE Log[i]
  BY <1>2, <1>3, <1>6, <1>7
<1>9. Log' = Append(Log, o)
  <2>1. /\ Append(Log, o) \in Seq(Operations) /\ Len(Append(Log, o)) = n + 1
        /\ \A i \in 1..n : Append(Log, o)[i] = Log[i]
        /\ Append(Log, o)[n + 1] = o
    BY <1>2, <1>6, AppendProperties
  <2>2. \A i \in 1..(n + 1) : Log'[i] = Append(Log, o)[i]
    BY <1>3, <1>8, <2>1
  <2> QED BY <1>8, <2>1, <2>2, SeqEqual
<1>10. \A i \in DOMAIN Log : Log[i] # o
  <2>1. \A i \in 1..n : idempotency[events[i].op] = i /\ i # 0
    BY <1>3 DEF IInv, IdempotencyOK
  <2> QED BY <1>2, <1>3, <2>1 DEF Log
<1> QED BY <1>9, <1>10 DEF o

(* The command pipeline implements OperationLog: whatever command_route,    *)
(* handle_command and the unit of work interleave, a client sees operations *)
(* take effect one at a time, each at most once, and never an answer ahead  *)
(* of its effect.                                                           *)
THEOREM Refinement == Spec => ImplementsLog
<1>1. Init => Abstract!Init
  BY DEF Init, Abstract!Init
<1>2. IInv /\ [Next]_vars => [Abstract!Next]_(Abstract!vars)
  <2> SUFFICES ASSUME IInv, [Next]_vars,
                      Log' # Log \/ Answered' # Answered
               PROVE  Abstract!Next
    BY DEF Abstract!vars, Log, Answered
  <2>1. ASSUME NEW q \in Requests, Commit(q) PROVE Abstract!Next
    <3>1. request[q].op \in Operations BY <2>1, CommitFacts DEF Commit
    <3>2. Answered' = Answered BY <2>1 DEF Commit, Answered
    <3>3. \E o \in Operations :
            (\A i \in DOMAIN Log : Log[i] # o) /\ Log' = Append(Log, o)
      BY <2>1, <3>1, CommitAppends
    <3> QED BY <3>2, <3>3 DEF Abstract!Next, Abstract!Effect, Log, Answered
  <2>2. ASSUME NEW q \in Requests, Respond(q) PROVE Abstract!Next
    <3> DEFINE r == request[q]
    <3>1. r.op \in Operations /\ r.result # 0 /\ idempotency[r.op] = r.result
      BY <2>2 DEF IInv, RequestsOK, RequestOK, Respond, At
    <3>2. \E i \in DOMAIN events : events[i].op = r.op
      BY <3>1 DEF IInv, IdempotencyOK
    <3>3. Log' = Log BY <2>2 DEF Respond, Store, Log
    <3>4. answers' = answers \union {[op |-> r.op, version |-> r.result]}
      BY <2>2, <3>3 DEF Respond, Answered
    <3>5. Answered' = Answered \union {r.op}
      <4> DEFINE b == [op |-> r.op, version |-> r.result]
      <4>1. b.op = r.op OBVIOUS
      <4> HIDE DEF b
      <4>2. answers' = answers \union {b} BY <3>4 DEF b
      <4> QED BY <4>1, <4>2 DEF Answered
    <3>6. \E o \in Operations :
            (\E i \in DOMAIN Log : Log[i] = o) /\ Answered' = Answered \union {o}
      BY <3>1, <3>2, <3>5 DEF Log
    <3> QED BY <3>3, <3>6 DEF Abstract!Next, Abstract!Answer, Log, Answered
  <2>3. (\E q \in Requests : Commit(q)) \/ (\E q \in Requests : Respond(q))
    <3>1. UNCHANGED <<events, answers>> => Log' = Log /\ Answered' = Answered
      BY DEF Log, Answered
    <3> QED BY <3>1 DEF Next, vars, Store, Step, Submit, LookUp, Check, Load, Decide, Upsert,
                        Abandon
  <2> QED BY <2>1, <2>2, <2>3
<1> QED BY <1>1, <1>2, Invariance, PTL DEF Spec, ImplementsLog, Abstract!Spec
=============================================================================
