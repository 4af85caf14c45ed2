---------------------------- MODULE FirehoseServer ----------------------------
(* The side of logd (firehose_server.c): the clients that register, the two *)
(* serial queues that drain the memory and the I/O chunks of all of them,   *)
(* the lists of clients to drain, the end of a client and the snapshots.    *)
(* What a drain reads in the buffer of a client is in Firehose; here a      *)
(* drain is one step of its queue, which may find the memory corrupted.     *)
(*                                                                         *)
(* External, as their own modules have them: a list (os_mpsc) is a sequence *)
(* with one step to push and one to pop, a data source fires its handler on *)
(* its queue after a merge, a serial queue runs one item at a time, a mach  *)
(* channel reports its cancellation on its queue, a group runs its          *)
(* notification when its count comes to zero.                               *)
EXTENDS Naturals, Sequences, FiniteSets

CONSTANTS
  Clients,
  Null,
  Turn,       \* clients drained before a source fires again: 4, 1 in quarantine
  Plans       \* what logd and its clients do in a behaviour: its messages, its
              \* snapshots, and what else may happen

Banks == {"mem", "io"}
Lists == BOOLEAN \X Banks        \* fs_queues: quarantined or not, by bank

VARIABLES
  fc,        \* the clients: registered, fc_state, the flags, their channels
  list,      \* fs_queues: the clients in each list
  source,    \* fs_sources: merged and not yet handled
  suspended, \* the sources of the quarantined lists may be suspended
  queue,     \* the items on the two drain queues
  running,   \* what the drain queues execute
  snap,      \* the snapshot: its group, its gate
  plan       \* what is left of the plan: messages, snapshots, may

vars == <<fc, list, source, suspended, queue, running, snap, plan>>

Rest == [on |-> "nothing", c |-> Null, l |-> Null, n |-> 0]

Init ==
  /\ fc = [c \in Clients |->
       [life |-> "unknown", enqueued |-> {}, canceling |-> {}, canceled |-> {},
        corrupted |-> FALSE, quarantined |-> FALSE, needs |-> {}, served |-> {},
        open |-> Banks, deaths |-> 0, misused |-> FALSE]]
  /\ list = [l \in Lists |-> <<>>] /\ source = [l \in Lists |-> FALSE]
  /\ suspended = {}
  /\ queue = [b \in Banks |-> <<>>] /\ running = [b \in Banks |-> Rest]
  /\ snap = [asked |-> 0, on |-> FALSE, group |-> 0, due |-> {}, bad |-> FALSE]
  /\ plan \in Plans

-----------------------------------------------------------------------------
\* fc_state of one client and bank, in one atomic step each.

Push(c, b, fcs) ==
  LET l == <<fcs[c].quarantined, b>>
  IN /\ list' = [list EXCEPT ![l] = Append(@, c)]
     /\ source' = [source EXCEPT ![l] = @ \/ list[l] = <<>>]

\* Faulty variant: a client is woken although its bank is canceled.
WakesAnyone(c, b) == TRUE
\* firehose_client_wakeup: a client is in one list once, a canceled one in none.
Wakes(c, b) == b \notin fc[c].canceled
Woken(c, b, fcs) == [fcs EXCEPT ![c].enqueued = @ \union {b}]
Wakeup(c, b, fcs) ==
  IF ~Wakes(c, b)
  THEN fc' = fcs /\ UNCHANGED <<list, source>>
  ELSE /\ fc' = Woken(c, b, fcs)
       /\ IF b \in fc[c].enqueued THEN UNCHANGED <<list, source>> ELSE Push(c, b, fcs)

\* firehose_client_start_cancel.
StartCancel(c, b, fcs) ==
  IF b \in fc[c].canceled \union fc[c].canceling
  THEN fc' = fcs /\ UNCHANGED <<list, source>>
  ELSE /\ fc' = [Woken(c, b, fcs) EXCEPT ![c].canceling = @ \union {b}]
       /\ IF b \in fc[c].enqueued THEN UNCHANGED <<list, source>> ELSE Push(c, b, fcs)

\* firehose_client_dequeue: the second bank to be canceled starts the end.
Canceled(c, b) ==
  IF b \in fc[c].canceling THEN fc[c].canceled \union {b} ELSE fc[c].canceled
Dequeued(c, b) ==
  [fc EXCEPT ![c].enqueued = @ \ {b}, ![c].canceling = @ \ {b}, ![c].canceled = Canceled(c, b)]
Ends(c, b) == Canceled(c, b) = Banks /\ fc[c].canceled # Banks

-----------------------------------------------------------------------------

Free(b) == running[b] = Rest
Use(c, fcs) == [fcs EXCEPT ![c].misused = @ \/ fc[c].life = "freed"]

\* A client registers (firehose_server_register, on the memory queue).
Register(c) ==
  /\ Free("mem") /\ fc[c].life = "unknown"
  /\ fc' = [fc EXCEPT ![c].life = "known"]
  /\ UNCHANGED <<list, source, suspended, queue, running, snap, plan>>

\* A message of a client: push_async wakes its drain, push_and_wait drains.
Message(c, b) ==
  /\ Free(b) /\ fc[c].life # "unknown" /\ b \in fc[c].open /\ plan.messages > 0
  /\ plan' = [plan EXCEPT !.messages = @ - 1]
  /\ \/ /\ IF fc[c].corrupted THEN fc' = Use(c, fc) /\ UNCHANGED <<list, source>>
           ELSE Wakeup(c, b, Use(c, fc))
        /\ UNCHANGED running
     \/ /\ fc' = Use(c, fc)
        /\ running' = [running EXCEPT ![b] =
             IF fc[c].corrupted THEN Rest
             ELSE [on |-> "client", c |-> c, l |-> Null, n |-> 0]]
        /\ UNCHANGED <<list, source>>
  /\ UNCHANGED <<suspended, queue, snap>>

\* firehose_client_initiate_quarantine, by the handler of logd; the quarantined
\* sources are suspended and resumed as logd likes.
Quarantine(c) ==
  /\ "quarantine" \in plan.may /\ fc[c].life = "known" /\ ~fc[c].quarantined
  /\ fc' = [fc EXCEPT ![c].quarantined = TRUE]
  /\ UNCHANGED <<list, source, suspended, queue, running, snap, plan>>

Suspend(b) ==
  /\ "suspend" \in plan.may /\ b \notin suspended /\ plan.messages > 0
  /\ plan' = [plan EXCEPT !.messages = @ - 1]
  /\ suspended' = suspended \union {b}
  /\ UNCHANGED <<fc, list, source, queue, running, snap>>
Resume(b) ==
  /\ b \in suspended /\ suspended' = suspended \ {b}
  /\ UNCHANGED <<fc, list, source, queue, running, snap, plan>>

-----------------------------------------------------------------------------
\* firehose_client_drain: the handler of a source takes clients off its list, and
\* after a turn it lets its source fire again.

Fire(l) ==
  /\ Free(l[2]) /\ source[l] /\ ~(l[1] /\ l[2] \in suspended)
  /\ source' = [source EXCEPT ![l] = FALSE]
  /\ running' = [running EXCEPT ![l[2]] = [on |-> "list", c |-> Null, l |-> l, n |-> 0]]
  /\ UNCHANGED <<fc, list, suspended, queue, snap, plan>>

Pop(b) ==
  /\ running[b].on = "list"
  /\ LET l == running[b].l
         c == Head(list[l])
     IN IF list[l] = <<>>
        THEN /\ running' = [running EXCEPT ![b] = Rest]
             /\ UNCHANGED <<fc, list, queue>>
        ELSE /\ list' = [list EXCEPT ![l] = Tail(@)]
             /\ fc' = Use(c, Dequeued(c, b))
             /\ queue' = IF Ends(c, b)
                         THEN [queue EXCEPT !["io"] = Append(@, [on |-> "death", c |-> c])]
                         ELSE queue
             /\ running' = [running EXCEPT ![b] =
                  [@ EXCEPT !.c = c, !.n = @ + 1,
                            !.on = IF b \in Canceled(c, b) THEN "next" ELSE "client"]]
  /\ UNCHANGED <<source, suspended, snap, plan>>

NextClient(b) ==
  /\ running[b].on = "next"
  /\ LET l == running[b].l
         over == l # Null /\ running[b].n = Turn[l[1]]
     IN /\ running' = [running EXCEPT ![b] =
             IF over \/ l = Null THEN Rest ELSE [@ EXCEPT !.on = "list", !.c = Null]]
        /\ source' = IF over THEN [source EXCEPT ![l] = TRUE] ELSE source
  /\ UNCHANGED <<fc, list, suspended, queue, snap, plan>>

\* What follows a drain, of the list or of a caller.
After(b) == running' = [running EXCEPT ![b].on = "next"]

\* The group of a snapshot; at zero its notification is queued.
Leaves(n) ==
  /\ snap' = [snap EXCEPT !.group = @ - n]
  /\ IF n > 0 /\ snap.group = n
     THEN queue' = [queue EXCEPT !["io"] = Append(@, [on |-> "finish", c |-> Null])]
     ELSE UNCHANGED queue

One(S) == IF S = {} THEN 0 ELSE 1

\* firehose_client_drain_one: the chunks go to the handler and, when the snapshot
\* waits for this client, to the snapshot's; a full batch wakes the client again.
\* Memory that makes no sense ends the drains of this bank.
DrainOne(b) ==
  /\ running[b].on = "client" /\ ~fc[running[b].c].corrupted
  /\ LET c == running[b].c
         done == [fc EXCEPT ![c].needs = @ \ {b},
                            ![c].served = @ \union (fc[c].needs \intersect {b})]
     IN /\ \/ fc' = done /\ UNCHANGED <<list, source, plan>>
           \/ /\ plan.messages > 0 /\ plan' = [plan EXCEPT !.messages = @ - 1]
              /\ Wakeup(c, b, done)
        /\ Leaves(One(fc[c].needs \intersect {b}))
  /\ After(b)
  /\ UNCHANGED suspended

DrainCorrupt(b) ==
  /\ running[b].on = "client"
  /\ LET c == running[b].c IN
     /\ fc[c].corrupted \/ "corrupt" \in plan.may
     /\ StartCancel(c, b, [fc EXCEPT ![c].corrupted = TRUE, ![c].needs = @ \ {b}])
     /\ Leaves(One(fc[c].needs \intersect {b}))
  /\ After(b)
  /\ UNCHANGED <<suspended, plan>>

-----------------------------------------------------------------------------
\* The end of a client.

\* DISPATCH_MACH_NO_SENDERS on the memory channel: both channels are canceled.
NoSenders(c) ==
  /\ "die" \in plan.may /\ Free("mem") /\ fc[c].life # "unknown" /\ fc[c].open = Banks
  /\ queue' = [b \in Banks |-> Append(queue[b], [on |-> "canceled", c |-> c])]
  /\ fc' = [Use(c, fc) EXCEPT ![c].open = {"closing"}]
  /\ UNCHANGED <<list, source, suspended, running, snap, plan>>

\* DISPATCH_MACH_CANCELED: the last channel cancels the client, its memory
\* drain first.
ChannelCanceled(b) ==
  /\ running[b].on = "canceled"
  /\ LET c == running[b].c IN
     IF fc[c].open = {"closing"}
     THEN /\ fc' = [Use(c, fc) EXCEPT ![c].open = {"half"}]
          /\ running' = [running EXCEPT ![b] = Rest] /\ UNCHANGED <<list, source>>
     ELSE /\ StartCancel(c, "mem", [Use(c, fc) EXCEPT ![c].open = {}])
          /\ running' = [running EXCEPT ![b].on = "cancelIo"]
  /\ UNCHANGED <<suspended, queue, snap, plan>>

CancelIo(b) ==
  /\ running[b].on = "cancelIo"
  /\ StartCancel(running[b].c, "io", fc)
  /\ running' = [running EXCEPT ![b] = Rest]
  /\ UNCHANGED <<suspended, queue, snap, plan>>

\* firehose_client_finalize, on the I/O queue: a snapshot stops waiting, the
\* client leaves the list of clients and is freed.
Finalize(c, b) ==
  /\ fc' = [Use(c, fc) EXCEPT ![c].life = "freed", ![c].deaths = @ + 1, ![c].needs = {}]
  /\ Leaves(Cardinality(fc[c].needs))
  /\ running' = [running EXCEPT ![b] = Rest]

\* firehose_client_handle_death: the chunks left in the I/O bank are handled here,
\* those of the memory bank, if any, on the memory queue.
HandleDeath ==
  /\ running["io"].on = "death"
  /\ LET c == running["io"].c IN
     \/ Finalize(c, "io")
     \/ /\ ~fc[c].corrupted
        /\ queue' = [queue EXCEPT !["mem"] = Append(@, [on |-> "left", c |-> c])]
        /\ fc' = [fc EXCEPT ![c].served = @ \union (fc[c].needs \intersect {"io"})]
        /\ running' = [running EXCEPT !["io"] = Rest] /\ UNCHANGED snap
  /\ UNCHANGED <<list, source, suspended, plan>>

HandleLeft ==
  /\ running["mem"].on = "left"
  /\ LET c == running["mem"].c IN
     /\ queue' = [queue EXCEPT !["io"] = Append(@, [on |-> "finalize", c |-> c])]
     /\ fc' = [Use(c, fc) EXCEPT ![c].served = @ \union (fc[c].needs \intersect {"mem"})]
  /\ running' = [running EXCEPT !["mem"] = Rest]
  /\ UNCHANGED <<list, source, suspended, snap, plan>>

FinalizeLeft ==
  /\ running["io"].on = "finalize"
  /\ Finalize(running["io"].c, "io")
  /\ UNCHANGED <<list, source, suspended, plan>>

-----------------------------------------------------------------------------
\* A queue takes its next item.

Take(b) ==
  /\ Free(b) /\ queue[b] # <<>>
  /\ queue' = [queue EXCEPT ![b] = Tail(@)]
  /\ running' = [running EXCEPT ![b] =
       [on |-> Head(queue[b]).on, c |-> Head(queue[b]).c, l |-> Null, n |-> 0]]
  /\ UNCHANGED <<fc, list, source, suspended, snap, plan>>

\* firehose_snapshot and its gate: one snapshot at a time.  The work starts on the
\* memory queue, and from there on the I/O queue.
Snapshot ==
  /\ plan.snapshots > 0
  /\ plan' = [plan EXCEPT !.snapshots = @ - 1]
  /\ snap' = [snap EXCEPT !.asked = @ + 1]
  /\ UNCHANGED <<fc, list, source, suspended, queue, running>>

SnapshotGate ==
  /\ snap.asked > 0 /\ ~snap.on
  /\ snap' = [snap EXCEPT !.asked = @ - 1, !.on = TRUE, !.group = 1, !.due = {}]
  /\ queue' = [queue EXCEPT !["mem"] = Append(@, [on |-> "tickle", c |-> Null])]
  /\ UNCHANGED <<fc, list, source, suspended, running, plan>>

\* firehose_snapshot_tickle_clients, under the lock of the clients: one client after
\* the other is woken and asked for, and the group counts them afterwards.
Asked(b) == {c \in Clients : fc[c].life = "known" /\ ~fc[c].corrupted /\ Wakes(c, b)}

Tickle(b) ==
  /\ running[b].on = "tickle"
  /\ LET asked == Asked(b)
         new(q) == {c \in asked : b \notin fc[c].enqueued /\ fc[c].quarantined = q}
     IN /\ fc' = [c \in Clients |->
                    IF c \in asked
                    THEN [fc[c] EXCEPT !.enqueued = @ \union {b}, !.needs = @ \union {b},
                                       !.served = @ \ {b}]
                    ELSE fc[c]]
        /\ \E order \in [Lists -> [1 .. Cardinality(Clients) -> Clients]] :
             /\ \A l \in Lists : order[l] = order[<<FALSE, "io">>]
             /\ \A i, j \in DOMAIN order[<<FALSE, "io">>] :
                  order[<<FALSE, "io">>][i] = order[<<FALSE, "io">>][j] => i = j
             /\ list' = [l \in Lists |->
                  IF l[2] = b THEN list[l] \o SelectSeq(order[l], LAMBDA c : c \in new(l[1]))
                  ELSE list[l]]
        /\ source' = [l \in Lists |->
                        source[l] \/ (l[2] = b /\ list[l] = <<>> /\ new(l[1]) # {})]
        /\ running' = [running EXCEPT ![b].on = "count", ![b].n = Cardinality(asked)]
        /\ snap' = [snap EXCEPT !.due = @ \union {<<c, b>> : c \in asked}]
  /\ UNCHANGED <<suspended, queue, plan>>

\* The group counts the clients; the memory item then starts the I/O item and
\* leaves, the I/O item leaves.
CountClients(b) ==
  /\ running[b].on = "count"
  /\ LET n == running[b].n + (IF b = "mem" THEN 1 ELSE 0)
     IN snap' = [snap EXCEPT !.group = @ + n]
  /\ queue' = IF b = "mem"
              THEN [queue EXCEPT !["io"] = Append(@, [on |-> "tickle", c |-> Null])]
              ELSE queue
  /\ running' = [running EXCEPT ![b].on = "leave"]
  /\ UNCHANGED <<fc, list, source, suspended, plan>>

LeaveItem(b) ==
  /\ running[b].on = "leave"
  /\ Leaves(1)
  /\ running' = [running EXCEPT ![b] = Rest]
  /\ UNCHANGED <<fc, list, source, suspended, plan>>

\* firehose_snapshot_finish: the handler hears that the snapshot is complete and
\* the gate opens.
SnapshotFinish ==
  /\ running["io"].on = "finish"
  /\ snap' = [snap EXCEPT !.on = FALSE, !.due = {},
       !.bad = @ \/ \E d \in snap.due : d[2] \notin fc[d[1]].served
                                        /\ fc[d[1]].life # "freed" /\ ~fc[d[1]].corrupted]
  /\ running' = [running EXCEPT !["io"] = Rest]
  /\ UNCHANGED <<fc, list, source, suspended, queue, plan>>

Next ==
  \/ \E c \in Clients : Register(c) \/ Quarantine(c) \/ NoSenders(c)
                        \/ \E b \in Banks : Message(c, b)
  \/ \E l \in Lists : Fire(l)
  \/ \E b \in Banks :
       \/ Suspend(b) \/ Resume(b) \/ Pop(b) \/ NextClient(b) \/ DrainOne(b)
       \/ DrainCorrupt(b) \/ ChannelCanceled(b) \/ CancelIo(b) \/ Take(b)
       \/ Tickle(b) \/ CountClients(b) \/ LeaveItem(b)
  \/ HandleDeath \/ HandleLeft \/ FinalizeLeft
  \/ Snapshot \/ SnapshotGate \/ SnapshotFinish

ServerSpec == Init /\ [][Next]_vars

-----------------------------------------------------------------------------

Listed(c, b) == \E l \in Lists : l[2] = b /\ \E i \in DOMAIN list[l] : list[l][i] = c

\* A client is in a list exactly while its bit says so, once, and a list with
\* clients has a drain that comes, unless logd has suspended it.
ListsAreServed ==
  /\ \A c \in Clients, b \in Banks : b \in fc[c].enqueued <=> Listed(c, b)
  /\ \A l \in Lists :
       /\ \A i, j \in DOMAIN list[l] : list[l][i] = list[l][j] => i = j
       /\ list[l] # <<>> => source[l] \/ running[l[2]].l = l

\* A client ends once, and only one with corrupted memory is used after that.
EndsOnce ==
  \A c \in Clients :
    /\ fc[c].deaths <= 1
    /\ fc[c].misused => fc[c].corrupted
    /\ fc[c].life = "freed" => ~Listed(c, "mem") /\ ~Listed(c, "io") /\ fc[c].needs = {}

\* The group of the snapshot counts the clients it waits for and its items.
Items(b) == Cardinality({i \in DOMAIN queue[b] : queue[b][i].on = "tickle"})
            + (IF running[b].on \in {"tickle", "count", "leave"} THEN 1 ELSE 0)
Uncounted == {b \in Banks : running[b].on = "count"}
GroupIsExact ==
  snap.group + (IF running["mem"].on = "count" THEN running["mem"].n ELSE 0)
             + (IF running["io"].on = "count" THEN running["io"].n ELSE 0)
  = Items("mem") + Items("io")
      + Cardinality({<<c, b>> \in Clients \X Banks : b \in fc[c].needs})

\* A snapshot that finishes has seen every client it asked, but those that died or
\* whose memory is corrupted.
SnapshotIsComplete == ~snap.bad

Quiet ==
  /\ \A b \in Banks : Free(b) /\ queue[b] = <<>>
  /\ \A l \in Lists : ~source[l]
\* When all is quiet no snapshot waits and a client that was canceled is gone.
NothingIsForgotten ==
  Quiet => /\ snap.on => FALSE
           /\ \A c \in Clients : fc[c].open = {} => fc[c].life = "freed"

ServerIsSound ==
  /\ ListsAreServed /\ EndsOnce /\ GroupIsExact /\ SnapshotIsComplete
  /\ NothingIsForgotten
=============================================================================
