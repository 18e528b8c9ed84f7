-------------------------- MODULE CommandPipeline --------------------------
(***************************************************************************)
(* One aggregate and the requests that execute commands on it:             *)
(* command_route (bins/api-server/src/routes/command.rs), handle_command   *)
(* (bins/api-server/src/command_handler.rs), the repository and the unit   *)
(* of work of persistence-postgres (persistence-sqlite has the same        *)
(* statements).                                                            *)
(*                                                                         *)
(* A client that gets no answer sends the same operation again, so several *)
(* requests may carry one operation_id.  The steps of a request are the    *)
(* stretches between its awaits on the database.                           *)
(***************************************************************************)
EXTENDS Naturals, Sequences, FiniteSets

CONSTANTS
    Operations,          \* operation ids; an id stands for its command
    Requests,            \* requests the server executes at the same time
    LifecycleOps,        \* operations whose event advances the lifecycle epoch
    AuthorityOps,        \* operations whose event advances the authority epoch
    None                 \* no operation, no transaction

ASSUME ConstantsAssumption ==
    /\ IsFiniteSet(Requests) /\ None \notin Requests \union Operations
    /\ LifecycleOps \subseteq Operations /\ AuthorityOps \subseteq Operations

VARIABLES
    row,          \* aggregates: the version column and the state document
    events,       \* domain_events of the aggregate, in commit order
    outbox,       \* operations with a row in the outbox table
    idempotency,  \* idempotency: per operation its result, 0 when there is none
    lock,         \* the transaction that has upserted the row and not ended
    request,      \* per request: program counter and locals
    answers,      \* successful answers that reached a client
    broadcast     \* per operation: how often its event went to the live feed

vars == <<row, events, outbox, idempotency, lock, request, answers, broadcast>>

(* The state document.  Its content is the sequence of events folded into   *)
(* it; version and epochs are fields the document carries itself.           *)
State == [applied : Seq(Operations), version : Nat, lifecycle : Nat, authority : Nat]

Document(applied, version, lifecycle, authority) ==
    [applied |-> applied, version |-> version,
     lifecycle |-> lifecycle, authority |-> authority]

Blank == Document(<<>>, 0, 0, 0)

Row(version, state) == [version |-> version, state |-> state]

Event(o, version) == [op |-> o, version |-> version]

Points == {"idle", "route", "check", "load", "decide", "upsert", "insert", "respond"}

(* A request: expected holds the three expectations of the command          *)
(* envelope, state the aggregate it works on, count the events it has       *)
(* decided on and result the new_version it will answer (0: none yet).      *)
Request(pc, o, expected, duplicate, state, count, result) ==
    [pc |-> pc, op |-> o, expected |-> expected, duplicate |-> duplicate,
     state |-> state, count |-> count, result |-> result]

Expected(version, lifecycle, authority) ==
    [version |-> version, lifecycle |-> lifecycle, authority |-> authority]

Idle == Request("idle", None, Expected(0, 0, 0), FALSE, Blank, 0, 0)

(* The aggregate has just been created (creation writes version 0, no event) *)
Init ==
    /\ row = Row(0, Blank)
    /\ events = <<>>
    /\ outbox = {}
    /\ idempotency = [o \in Operations |-> 0]
    /\ lock = None
    /\ request = [q \in Requests |-> Idle]
    /\ answers = {}
    /\ broadcast = [o \in Operations |-> 0]

-----------------------------------------------------------------------------
At(q, pc) == request[q].pc = pc

Goto(q, pc) ==
    LET r == request[q] IN
    request' = [request EXCEPT ![q] =
        Request(pc, r.op, r.expected, r.duplicate, r.state, r.count, r.result)]

End(q) == request' = [request EXCEPT ![q] = Idle]

Store == <<row, events, outbox, idempotency>>

(* A client submits an operation, for the first time or again               *)
Submit(q, o, expected) ==
    /\ At(q, "idle")
    /\ request' = [request EXCEPT ![q] =
                      Request("route", o, expected, FALSE, Blank, 0, 0)]
    /\ UNCHANGED <<Store, lock, answers, broadcast>>

(* What the clients of this repository put into the expectations: numbers    *)
(* they have read from the aggregate, or 0.  command_route takes any number; *)
(* AppliedOnce depends on this restriction (two requests of one operation,   *)
(* of which one expects the version the other is about to write, may both    *)
(* commit).                                                                  *)
Observable ==
    {Expected(v, l, a) : v \in 0..row.version, l \in 0..row.state.lifecycle,
                         a \in 0..row.state.authority}

(* was_duplicate: the lookup the route makes for itself *)
LookUp(q) ==
    LET r == request[q] IN
    /\ At(q, "route")
    /\ request' = [request EXCEPT ![q] =
                      Request("check", r.op, r.expected, idempotency[r.op] # 0,
                              r.state, 0, 0)]
    /\ UNCHANGED <<Store, lock, answers, broadcast>>

(* Seeded defect: the handler does not consult the idempotency table *)
CheckNothing(q) ==
    /\ At(q, "check")
    /\ Goto(q, "load")
    /\ UNCHANGED <<Store, lock, answers, broadcast>>

Check(q) ==
    LET r == request[q]
        cached == idempotency[r.op]
    IN  /\ At(q, "check")
        /\ \/ /\ cached # 0
              /\ request' = [request EXCEPT ![q] =
                    Request("respond", r.op, r.expected, r.duplicate, r.state, 0, cached)]
           \/ /\ cached = 0
              /\ Goto(q, "load")
        /\ UNCHANGED <<Store, lock, answers, broadcast>>

(* Seeded defect: the expectations of the envelope are not compared *)
MatchesAnything(r) == TRUE

Matches(r) ==
    /\ row.version = r.expected.version
    /\ row.state.lifecycle = r.expected.lifecycle
    /\ row.state.authority = r.expected.authority

Load(q) ==
    LET r == request[q] IN
    /\ At(q, "load")
    /\ \/ /\ Matches(r)
          /\ request' = [request EXCEPT ![q] =
                Request("decide", r.op, r.expected, r.duplicate, row.state, 0, 0)]
       \/ /\ ~Matches(r)
          /\ End(q)
    /\ UNCHANGED <<Store, lock, answers, broadcast>>

(* Seeded defect: some decide() returns two events *)
EventCountsTwo == {0, 1, 2}

(* How many events decide() returns when it accepts: one, or none for a     *)
(* command it finds already satisfied                                       *)
EventCounts == {0, 1}

Repeat(o, n) == [i \in 1..n |-> o]

(* apply(), once per event *)
Applied(state, o, n) ==
    Document(state.applied \o Repeat(o, n), state.version + n,
             state.lifecycle + IF o \in LifecycleOps THEN n ELSE 0,
             state.authority + IF o \in AuthorityOps THEN n ELSE 0)

(* The owner's authority and decide() accept or refuse; accepted events are *)
(* applied and staged with the outbox messages and the result.              *)
Decide(q) ==
    LET r == request[q] IN
    /\ At(q, "decide")
    /\ \/ End(q)
       \/ \E n \in EventCounts :
            request' = [request EXCEPT ![q] =
                Request("upsert", r.op, r.expected, r.duplicate,
                        Applied(r.state, r.op, n), n, r.state.version + n)]
    /\ UNCHANGED <<Store, lock, answers, broadcast>>

(* Seeded defect: INSERT ... ON CONFLICT DO UPDATE without its WHERE *)
GuardDropped(r) == TRUE

(* WHERE aggregates.version < EXCLUDED.version *)
Guard(r) == row.version < r.state.version

(* The first statement of the commit waits for the row lock of any other    *)
(* transaction and evaluates the guard on what that one left behind.        *)
Upsert(q) ==
    LET r == request[q] IN
    /\ At(q, "upsert")
    /\ lock = None
    /\ \/ /\ Guard(r)
          /\ lock' = q
          /\ Goto(q, "insert")
       \/ /\ ~Guard(r)
          /\ End(q)
          /\ UNCHANGED lock
    /\ UNCHANGED <<Store, answers, broadcast>>

(* Seeded defect: the result is not recorded in the same transaction *)
RecordedNowhere(r) == idempotency

(* Seeded defect: the result is recorded under no operation *)
RecordedUnkeyed(r) ==
    [o \in Operations \union {None} |-> IF o = None THEN r.result ELSE idempotency[o]]

(* INSERT INTO idempotency ... ON CONFLICT DO NOTHING *)
Recorded(r) ==
    [idempotency EXCEPT ![r.op] = IF @ = 0 THEN r.result ELSE @]

(* Seeded defect: register_outbox is forgotten *)
StagedNothing(r) == {}

Staged(r) == IF r.count = 0 THEN {} ELSE {r.op}

(* The rest of the unit of work and its COMMIT: everything becomes visible  *)
(* at once.                                                                 *)
Commit(q) ==
    LET r == request[q] IN
    /\ At(q, "insert")
    /\ row' = Row(r.state.version, r.state)
    /\ events' = events \o [i \in 1..r.count |-> Event(r.op, r.expected.version + i)]
    /\ outbox' = outbox \union Staged(r)
    /\ idempotency' = Recorded(r)
    /\ lock' = None
    /\ Goto(q, "respond")
    /\ UNCHANGED <<answers, broadcast>>

(* Seeded defect: a duplicate goes to the live feed again *)
FedAlways(r) == [broadcast EXCEPT ![r.op] = @ + 1]

(* Events of an operation the route did not find recorded go to the feed *)
Fed(r) == IF r.duplicate THEN broadcast ELSE [broadcast EXCEPT ![r.op] = @ + 1]

Respond(q) ==
    LET r == request[q] IN
    /\ At(q, "respond")
    /\ broadcast' = Fed(r)
    /\ \/ answers' = answers \union {[op |-> r.op, version |-> r.result]}
       \/ UNCHANGED answers      \* the answer is lost
    /\ End(q)
    /\ UNCHANGED <<Store, lock>>

(* Seeded defect: a dropped unit of work keeps its transaction open *)
AbandonLeaks(q) ==
    /\ ~At(q, "idle")
    /\ End(q)
    /\ UNCHANGED <<Store, lock, answers, broadcast>>

(* The server dies, the connection drops, or a statement fails and `?`      *)
(* leaves handle_command: its unit of work is dropped without a commit and  *)
(* the transaction, if any, rolls back.                                     *)
Abandon(q) ==
    /\ ~At(q, "idle")
    /\ lock' = IF lock = q THEN None ELSE lock
    /\ End(q)
    /\ UNCHANGED <<Store, answers, broadcast>>

Step(q) ==
    \/ LookUp(q) \/ Check(q) \/ Load(q) \/ Decide(q)
    \/ Upsert(q) \/ Commit(q) \/ Respond(q)

Next ==
    \E q \in Requests :
        \/ \E o \in Operations : \E e \in Observable : Submit(q, o, e)
        \/ Step(q)
        \/ Abandon(q)

Spec == Init /\ [][Next]_vars

-----------------------------------------------------------------------------
(* Properties *)

Expectation == [version : Nat, lifecycle : Nat, authority : Nat]

RequestRecord ==
    [pc : Points, op : Operations \union {None}, expected : Expectation,
     duplicate : BOOLEAN, state : State, count : Nat, result : Nat]

(* Every table, lock and request of the pipeline holds a value of its kind. *)
TypeOK ==
    /\ row \in [version : Nat, state : State]
    /\ events \in Seq([op : Operations, version : Nat])
    /\ outbox \subseteq Operations
    /\ idempotency \in [Operations -> Nat]
    /\ lock \in Requests \union {None}
    /\ request \in [Requests -> RequestRecord]
    /\ answers \subseteq [op : Operations, version : Nat]
    /\ broadcast \in [Operations -> Nat]

(* An operation takes effect at most once, however often it is submitted    *)
(* and wherever its requests overlap: the idempotency lookup of             *)
(* handle_command and the guard of upsert_aggregate together exclude a      *)
(* second commit, although neither does so alone.                           *)
AppliedOnce ==
    \A i, j \in DOMAIN events : events[i].op = events[j].op => i = j

(* No lost update: the stored document is the fold of every committed       *)
(* event, so no commit of handle_command replaces a document it has not     *)
(* loaded.                                                                  *)
NothingOverwritten ==
    /\ Len(row.state.applied) = Len(events)
    /\ \A i \in DOMAIN events : row.state.applied[i] = events[i].op

(* The version column, the version inside the document and the              *)
(* aggregate_version of the events agree: the n-th event carries n and the  *)
(* row the number of the last one.                                          *)
VersionsContiguous ==
    /\ row.version = Len(events)
    /\ row.state.version = row.version
    /\ \A i \in DOMAIN events : events[i].version = i

(* A client told of success can rely on it: the event, its outbox row and   *)
(* the recorded result are durable, and the answer names the version at     *)
(* which the operation took effect, be it the first answer or a cached one. *)
AnswersDurable ==
    \A a \in answers :
        /\ \E i \in DOMAIN events : events[i].op = a.op /\ i = a.version
        /\ a.op \in outbox
        /\ idempotency[a.op] = a.version

(* The live feed repeats an event at most once per request that was under   *)
(* way when the operation committed: a retry sent later finds was_duplicate.*)
BroadcastsBounded ==
    \A o \in Operations : broadcast[o] <= Cardinality(Requests)

(* A command only changes the aggregate its issuer saw: when the row        *)
(* changes, the expectations of the request that changes it describe the    *)
(* row as it was just before, not merely as it was when it was loaded.      *)
WritesWhatWasExpected ==
    [][row' # row =>
        \E q \in Requests :
            /\ At(q, "insert")
            /\ request[q].expected =
                 Expected(row.version, row.state.lifecycle, row.state.authority)]_vars

(* The pipeline implements the log of operations: overlapping requests,     *)
(* retries, lost answers and rollbacks of the code are invisible in it.     *)
Abstract == INSTANCE OperationLog WITH
    log <- [i \in DOMAIN events |-> events[i].op],
    answered <- {a.op : a \in answers}

ImplementsLog == Abstract!Spec

(* "Idempotent no-op rather than an error": a command whose decide()        *)
(* returned no event, and whose aggregate nobody has changed since, passes  *)
(* the upsert.                                                              *)
NoOpSucceeds ==
    \A q \in Requests :
        At(q, "upsert") /\ request[q].count = 0 /\ Matches(request[q])
            => Guard(request[q])

(* Row locks are granted in the order they are asked for, so a waiting      *)
(* upsert gets its turn; the other steps of a request run to completion.    *)
Fairness == \A q \in Requests : WF_vars(Step(q)) /\ SF_vars(Upsert(q))

FairSpec == Spec /\ Fairness

(* Every request ends: requests waiting for one row never wait on each      *)
(* other for ever.                                                          *)
RequestsEnd == \A q \in Requests : ~At(q, "idle") ~> At(q, "idle")
=============================================================================
