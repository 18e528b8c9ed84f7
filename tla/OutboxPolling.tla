--------------------------- MODULE OutboxPolling ---------------------------
(***************************************************************************)
(* OutboxRelay with the order in which a poll takes its rows: claim_       *)
(* unpublished selects ORDER BY next_attempt_at ASC LIMIT batch_size, and  *)
(* a relay polls once per poll_interval.                                   *)
(*                                                                         *)
(* One tick is one poll interval here, and every batch is finished within  *)
(* it: the store and the broker answer promptly and nothing crashes.       *)
(***************************************************************************)
EXTENDS OutboxRelay, Sequences

VARIABLES
    order,    \* the stored messages by next_attempt_at, earliest first
    polled    \* the relays that have polled in this interval

pvars == <<row, task, delivered, refused, dead, faults, order, polled>>

PInit == Init /\ order = <<>> /\ polled = {}

(* The rows once m is due in d ticks: after the rows due by then *)
Placed(m, d) ==
    LET others == SelectSeq(order, LAMBDA x : x # m)
        early == SelectSeq(others, LAMBDA x : row[x].delay <= d)
        late == SelectSeq(others, LAMBDA x : row[x].delay > d)
    IN  early \o <<m>> \o late

FirstDue ==
    LET due == SelectSeq(order, LAMBDA x : x \in Due)
        size == IF Len(due) < BatchSize THEN Len(due) ELSE BatchSize
    IN  {due[i] : i \in 1..size}

PStore(m) ==
    (Store(m) \/ StoreByJob(m)) /\ order' = Placed(m, 0) /\ polled' = polled

PPoll(r) ==
    /\ r \notin polled
    /\ Claim(r, FirstDue)
    /\ polled' = polled \cup {r}
    /\ order' = order

(* Only mark_failed writes next_attempt_at *)
PProcess(r, m) ==
    /\ Process(r, m)
    /\ order' = IF row'[m].retry_count # row[m].retry_count
                THEN Placed(m, row'[m].delay) ELSE order
    /\ polled' = polled

PTick ==
    /\ polled = Relays
    /\ \A r \in Relays, m \in Messages : At(r, m, "idle")
    /\ Tick
    /\ polled' = {}
    /\ order' = order

PNext ==
    \/ \E m \in Messages : PStore(m)
    \/ \E r \in Relays : PPoll(r) \/ \E m \in Messages : PProcess(r, m)
    \/ PTick

(* As in OutboxRelay: spawned tasks, the interval timer and the clock go on *)
PSpec ==
    /\ PInit /\ [][PNext]_pvars
    /\ \A r \in Relays :
        WF_pvars(PPoll(r)) /\ \A m \in Messages : WF_pvars(PProcess(r, m))
    /\ WF_pvars(PTick)
=============================================================================
