----------------------------- MODULE BlockObject -----------------------------
(***************************************************************************)
(* Block objects (src/queue.c, src/block.cpp): a block with a group that   *)
(* was entered once when it was created, so that it can be waited for,     *)
(* observed and cancelled.  dbpd_queue remembers the queue the block was   *)
(* submitted to, with two references on it, until the block has run, is    *)
(* waited for, or is destroyed.                                            *)
(***************************************************************************)
EXTENDS Integers, FiniteSets

CONSTANTS Waiters,  \* threads that wait for the block
          Runs,     \* bound: submissions and direct calls of the block
          MaxWaits  \* bound: waits made in all

VARIABLES
  dbpd,       \* the private data: atomic_flags, performed, whether queue and
              \* thread are set
  entered,    \* the value of dbpd_group
  queue_refs, \* internal references of the queue; its owner keeps one
  block_refs, \* references of the block
  owned,      \* whether the client still keeps the block
  pc,
  direct,     \* runs that are direct calls of the block
  boost,      \* locals boost_dq and boost_th of a waiter
  waits,      \* waits made so far
  began,      \* history: runs whose body began
  finished,   \* history: runs that left the body or skipped it
  cancelled,  \* history: runs that had not looked at the flags at a cancel
  misused,    \* history: a wait overlapped another or followed its success
  life        \* "live", "crash" or "disposed"

vars == <<dbpd, entered, queue_refs, block_refs, owned, pc, direct, boost,
          waits, began, finished, cancelled, misused, life>>

refs == <<entered, queue_refs, block_refs, owned>>
locals == <<direct, boost, waits>>
history == <<began, finished, cancelled, misused>>

RunPCs == {"none", "submit", "retain", "queued", "called", "body", "perform",
           "leave", "unqueue", "release", "drop", "done"}
WaitPCs == {"idle", "boost_queue", "wakeup", "boost_thread", "check", "blocked",
            "timed_out", "succeeded"}

Inside == {"boost_queue", "wakeup", "boost_thread", "check", "blocked"}

\* _dispatch_block_create and the copy that makes it an object: the group is
\* created and entered.
Init ==
  /\ dbpd = [flags |-> {}, performed |-> 0, queue |-> FALSE, thread |-> FALSE]
  /\ entered = 1 /\ queue_refs = 1 /\ block_refs = 1 /\ owned = TRUE
  /\ pc = [a \in Waiters \cup Runs |-> IF a \in Runs THEN "none" ELSE "idle"]
  /\ direct = {}
  /\ boost = [w \in Waiters |-> {}]
  /\ waits = 0
  /\ began = {} /\ finished = {} /\ cancelled = {} /\ misused = FALSE
  /\ life = "live"

Goto(a, from, to) ==
  /\ life = "live"
  /\ pc[a] = from
  /\ pc' = [pc EXCEPT ![a] = to]

----------------------------------------------------------------------------
(* Submissions and direct calls *)

\* dispatch_async copies the block; a synchronous submission borrows it, and so
\* does a direct call.
Start(r) ==
  /\ owned
  /\ \/ Goto(r, "none", "submit") /\ UNCHANGED direct
     \/ Goto(r, "none", "called") /\ direct' = direct \cup {r}
  /\ block_refs' = block_refs + 1
  /\ UNCHANGED <<dbpd, entered, queue_refs, owned, boost, waits, history, life>>

\* _dispatch_continuation_init_slow and the synchronous submissions: remember
\* the queue unless one is remembered already.
Remember(r) ==
  /\ Goto(r, "submit", IF dbpd.queue THEN "queued" ELSE "retain")
  /\ dbpd' = [dbpd EXCEPT !.queue = TRUE]
  /\ UNCHANGED <<refs, locals, history, life>>

\* _dispatch_retain_2(dq), after the compare-and-swap.
Retain(r) ==
  /\ Goto(r, "retain", "queued")
  /\ queue_refs' = queue_refs + 2
  /\ UNCHANGED <<dbpd, entered, block_refs, owned, locals, history, life>>

\* The flags decide: a block that was waited for may not run again, one that
\* was cancelled is skipped.
Invoke(r, from) ==
  /\ life = "live" /\ pc[r] = from
  /\ \/ /\ "waited" \in dbpd.flags
        /\ life' = "crash"
        /\ UNCHANGED <<pc, dbpd, began, finished>>
     \/ /\ "canceled" \in dbpd.flags /\ "waited" \notin dbpd.flags
        /\ Goto(r, from, "perform")
        /\ finished' = finished \cup {r}
        /\ UNCHANGED <<dbpd, began, life>>
     \/ /\ dbpd.flags \cap {"waited", "canceled"} = {}
        /\ Goto(r, from, "body")
        /\ began' = began \cup {r}
        /\ dbpd' = [dbpd EXCEPT !.thread = @ \/ r \in direct]
        /\ UNCHANGED <<finished, life>>
  /\ UNCHANGED <<refs, locals, cancelled, misused>>

Body(r) ==
  /\ Goto(r, "body", "perform")
  /\ finished' = finished \cup {r}
  /\ UNCHANGED <<dbpd, refs, locals, began, cancelled, misused, life>>


\* The first run to be performed, and no other, leaves the group.
Perform(r) ==
  /\ Goto(r, "perform", IF dbpd.performed = 0 THEN "leave"
                        ELSE IF r \in direct THEN "drop" ELSE "unqueue")
  /\ dbpd' = [dbpd EXCEPT !.performed = @ + 1]
  /\ UNCHANGED <<refs, locals, history, life>>

Leave(r) ==
  /\ Goto(r, "leave", IF r \in direct THEN "drop" ELSE "unqueue")
  /\ entered' = entered - 1
  /\ UNCHANGED <<dbpd, queue_refs, block_refs, owned, locals, history, life>>

\* Faulty variant: a load and a store instead of the exchange.
UnqueueLoads(r) ==
  /\ Goto(r, "unqueue", IF dbpd.queue THEN "release" ELSE "drop")
  /\ UNCHANGED <<dbpd, refs, locals, history, life>>

\* os_atomic_xchg2o(dbpd, dbpd_queue, NULL): whoever takes the queue out has to
\* release it.  A direct call leaves it alone.
Unqueue(r) ==
  /\ Goto(r, "unqueue", IF dbpd.queue THEN "release" ELSE "drop")
  /\ dbpd' = [dbpd EXCEPT !.queue = FALSE]
  /\ UNCHANGED <<refs, locals, history, life>>

ReleaseQueue(r) ==
  /\ Goto(r, "release", "drop")
  /\ queue_refs' = queue_refs - 2
  /\ UNCHANGED <<dbpd, entered, block_refs, owned, locals, history, life>>

\* The run gives its reference of the block back.
Drop(r) ==
  /\ Goto(r, "drop", "done")
  /\ block_refs' = block_refs - 1
  /\ UNCHANGED <<dbpd, entered, queue_refs, owned, locals, history, life>>

----------------------------------------------------------------------------
(* dispatch_block_cancel, dispatch_block_wait *)

Cancel ==
  /\ life = "live" /\ owned /\ "canceled" \notin dbpd.flags
  /\ dbpd' = [dbpd EXCEPT !.flags = @ \cup {"canceled"}]
  /\ cancelled' = {r \in Runs :
                     pc[r] \in {"none", "submit", "retain", "queued", "called"}}
  /\ UNCHANGED <<refs, pc, locals, began, finished, misused, life>>

\* A second wait crashes while another is inside or has succeeded.
Wait(w) ==
  /\ owned /\ waits < MaxWaits
  /\ Goto(w, "idle", "boost_queue")
  /\ waits' = waits + 1
  /\ life' = IF dbpd.flags \cap {"waited", "waiting"} # {} THEN "crash" ELSE life
  /\ dbpd' = [dbpd EXCEPT !.flags = @ \cup {"waiting"}]
  /\ misused' = (misused \/ "waited" \in dbpd.flags
                 \/ \E u \in Waiters : pc[u] # "idle")
  /\ block_refs' = block_refs + 1
  /\ UNCHANGED <<entered, queue_refs, owned, direct, boost, began, finished,
                 cancelled>>

BoostQueue(w) ==
  /\ Goto(w, "boost_queue", IF dbpd.queue THEN "wakeup" ELSE "boost_thread")
  /\ dbpd' = [dbpd EXCEPT !.queue = FALSE]
  /\ boost' = [boost EXCEPT ![w] = IF dbpd.queue THEN {"queue"} ELSE {}]
  /\ UNCHANGED <<refs, direct, waits, history, life>>

\* dx_wakeup with CONSUME_2 drops the two references, so that a timeout has
\* nothing to put back.
Wakeup(w) ==
  /\ Goto(w, "wakeup", "boost_thread")
  /\ queue_refs' = queue_refs - 2
  /\ UNCHANGED <<dbpd, entered, block_refs, owned, locals, history, life>>

BoostThread(w) ==
  /\ Goto(w, "boost_thread", "check")
  /\ boost' = [boost EXCEPT ![w] = IF dbpd.thread THEN @ \cup {"thread"} ELSE @]
  /\ UNCHANGED <<dbpd, refs, direct, waits, history, life>>

\* Run more than once and waited for, as far as the waiter can tell.
Check(w) ==
  /\ Goto(w, "check", "blocked")
  /\ life' = IF dbpd.performed > 1 \/ boost[w] = {"queue", "thread"} THEN "crash"
                                                                ELSE life
  /\ UNCHANGED <<dbpd, refs, locals, history>>

\* dispatch_group_wait.
GroupEmpty(w) ==
  /\ entered = 0
  /\ Goto(w, "blocked", "succeeded")
  /\ UNCHANGED <<dbpd, refs, locals, history, life>>

TimesOut(w) ==
  /\ Goto(w, "blocked", "timed_out")
  /\ UNCHANGED <<dbpd, refs, locals, history, life>>

\* Faulty variant: a timeout does not take the flag back.
EndWaitKeeps(w) ==
  /\ \/ Goto(w, "timed_out", "idle") /\ UNCHANGED dbpd
     \/ /\ Goto(w, "succeeded", "idle")
        /\ dbpd' = [dbpd EXCEPT !.flags = @ \cup {"waited"}]
  /\ boost' = [boost EXCEPT ![w] = {}]
  /\ block_refs' = block_refs - 1
  /\ UNCHANGED <<entered, queue_refs, owned, direct, waits, history, life>>

EndWait(w) ==
  /\ \/ /\ Goto(w, "timed_out", "idle")
        /\ dbpd' = [dbpd EXCEPT !.flags = @ \ {"waiting"}]
     \/ /\ Goto(w, "succeeded", "idle")
        /\ dbpd' = [dbpd EXCEPT !.flags = @ \cup {"waited"}]
  /\ boost' = [boost EXCEPT ![w] = {}]
  /\ block_refs' = block_refs - 1
  /\ UNCHANGED <<entered, queue_refs, owned, direct, waits, history, life>>

----------------------------------------------------------------------------
(* The end of the block *)

Release ==
  /\ life = "live" /\ owned
  /\ owned' = FALSE
  /\ block_refs' = block_refs - 1
  /\ UNCHANGED <<dbpd, entered, queue_refs, pc, locals, history, life>>

\* ~dispatch_block_private_data_s: a block that never ran leaves its group.
Dispose ==
  /\ life = "live" /\ block_refs = 0
  /\ life' = "disposed"
  /\ entered' = IF dbpd.performed = 0 THEN entered - 1 ELSE entered
  /\ queue_refs' = IF dbpd.queue THEN queue_refs - 2 ELSE queue_refs
  /\ UNCHANGED <<dbpd, block_refs, owned, pc, locals, history>>

----------------------------------------------------------------------------

RunStep(r) ==
  \/ Remember(r) \/ Retain(r) \/ Invoke(r, "queued") \/ Invoke(r, "called")
  \/ Body(r) \/ Perform(r) \/ Leave(r) \/ Unqueue(r) \/ ReleaseQueue(r)
  \/ Drop(r)

WaitStep(w) ==
  \/ BoostQueue(w) \/ Wakeup(w) \/ BoostThread(w) \/ Check(w) \/ GroupEmpty(w)
  \/ EndWait(w)

Next ==
  \/ \E r \in Runs : Start(r) \/ RunStep(r)
  \/ \E w \in Waiters : Wait(w) \/ TimesOut(w) \/ WaitStep(w)
  \/ Cancel \/ Release \/ Dispose

Spec == Init /\ [][Next]_vars

\* What was submitted is run, and a wait goes on; timeouts may never come.
Fairness ==
  /\ \A r \in Runs : WF_vars(RunStep(r))
  /\ \A w \in Waiters : WF_vars(WaitStep(w))
  /\ WF_vars(Dispose)

----------------------------------------------------------------------------
(* Properties *)

TypeOK ==
  /\ dbpd.flags \subseteq {"canceled", "waiting", "waited"}
  /\ dbpd.performed \in 0 .. Cardinality(Runs)
  /\ dbpd.queue \in BOOLEAN /\ dbpd.thread \in BOOLEAN
  /\ entered \in 0 .. 1 /\ queue_refs \in Int /\ block_refs \in Nat
  /\ owned \in BOOLEAN
  /\ \A r \in Runs : pc[r] \in RunPCs
  /\ \A w \in Waiters : pc[w] \in WaitPCs
  /\ waits \in 0 .. MaxWaits
  /\ direct \subseteq Runs /\ began \subseteq Runs /\ finished \subseteq Runs
  /\ cancelled \subseteq Runs /\ misused \in BOOLEAN
  /\ life \in {"live", "crash", "disposed"}

Count(p) == Cardinality({a \in Waiters \cup Runs : pc[a] = p})

\* The group is left once, by the first run or with the block, and the two
\* references of the queue are given back by one of the three that may: the
\* run, the waiter or the destructor.
GroupAndQueueAreBalanced ==
  /\ life # "disposed" =>
       entered = IF dbpd.performed = 0 THEN 1 ELSE Count("leave")
  /\ life # "disposed" =>
       queue_refs = 1 + 2 * ((IF dbpd.queue THEN 1 ELSE 0) - Count("retain")
                             + Count("release") + Count("wakeup"))
  /\ life = "disposed" => entered = 0 /\ queue_refs = 1

\* A run that was cancelled before it looked does not begin; a wait returns 0
\* when a run is over; and the crashes blame only clients that wait twice, or
\* wait for a block and run it twice.
ServesItsClients ==
  /\ cancelled \cap began = {}
  /\ \A w \in Waiters : pc[w] = "succeeded" => finished # {}
  /\ life = "crash" =>
       misused \/ \E r, s \in Runs : r # s /\ pc[r] # "none" /\ pc[s] # "none"

\* queue.c: the retain of the queue is "balanced in ... d_block_wait", so that
\* the references the wakeup consumes are there: the queue never has fewer than
\* its owner's.
QueueIsRetained == queue_refs >= 1

\* Once a run is over, no waiter stays blocked.
WaitersReturn ==
  \A w \in Waiters : [](pc[w] # "idle" /\ finished # {} =>
                          <>(pc[w] = "idle" \/ life = "crash"))
=============================================================================
