----------------------------- MODULE RootQueue -----------------------------
(***************************************************************************)
(* A global (root) queue and its threads (src/queue.c, from                *)
(* _dispatch_root_queue_poke_slow to _dispatch_worker_thread).             *)
(*                                                                         *)
(* Producers push lists of items on a linked list; whoever finds it empty  *)
(* asks for threads.  Worker threads pop items: the exchange of the head   *)
(* with MEDIATOR locks the list, and losers of that race wait, marking the *)
(* queue as pending while they do.  Threads come from the kernel's         *)
(* workqueue or from a pool of pthreads that sleep on a semaphore between  *)
(* two drains and that a monitor may extend (src/event/workqueue.c).       *)
(***************************************************************************)
EXTENDS Integers, Sequences, FiniteSets, Functions

CONSTANTS Producers, Workers,
          Monitors,    \* the thread of the monitor
          Nil, Mediator,
          MaxPush,     \* bound: lists pushed by each producer
          Batches,     \* the lengths of these lists
          Queues,      \* the global queues: their kinds and pool sizes
          Excess,      \* threads the monitor may create beyond the pool
          MaxTicks     \* bound: pokes of the monitor for more load

\* "kernel": !DISPATCH_USE_INTERNAL_WORKQUEUE.  The others have a pool of
\* pthreads, "overcommit" with DISPATCH_PRIORITY_FLAG_OVERCOMMIT, "monitored"
\* with HAVE_DISPATCH_WORKQ_MONITORING.
QueueTypes == [kind : {"kernel", "pool", "overcommit", "monitored"}, pool : Nat]

\* The n-th item of a push.
Items == [by : Producers, push : 1 .. MaxPush, n : UNION {1 .. b : b \in Batches}]

Actors == Producers \cup Workers \cup Monitors

ASSUME RootQueueAssumption ==
  /\ IsFiniteSet(Producers) /\ IsFiniteSet(Workers) /\ IsFiniteSet(Monitors)
  /\ Producers \cap Workers = {} /\ Monitors \cap (Producers \cup Workers) = {}
  /\ MaxPush \in Nat /\ Batches \subseteq Nat \ {0} /\ IsFiniteSet(Batches)
  /\ Queues \subseteq QueueTypes
  /\ \A q \in Queues : q.kind = "kernel" \/ q.pool > 0
  /\ Excess \in Nat /\ MaxTicks \in Nat

ASSUME MarkersAssumption ==
  Nil # Mediator /\ Nil \notin Items /\ Mediator \notin Items

VARIABLES
  dq,         \* which queue it is
  dq_items_head, dq_items_tail, do_next,
  dgq_pending, dgq_thread_pool_size,
  permits,    \* of dpq_thread_mediator, a semaphore
  requests,   \* threads asked for that have not begun to run
  pc,         \* where each producer and worker is
  pushes,     \* lists pushed by each producer
  batch,      \* the list a producer is pushing
  prev,       \* the tail it found
  remaining,  \* local of poke
  t_count,    \* local of poke
  back,       \* where poke returns to
  held,       \* the item a worker has taken
  marked,     \* local "pending" of the contended wait
  status,     \* local of the contended wait
  headless,   \* whether _head_tail_quiesced has read an empty head
  ticks,      \* pokes of the monitor for more load
  fifo,       \* history: items pushed and not popped, oldest first
  ran,        \* history: items that were run
  slipped     \* history: a poke gave up because of marks alone, or of threads
              \* that had left the pool and were back by then

vars == <<dq, dq_items_head, dq_items_tail, do_next, dgq_pending,
          dgq_thread_pool_size, permits, requests, pc, pushes, batch, prev,
          remaining, t_count, back, held, marked, status, headless, ticks,
          fifo, ran, slipped>>

list == <<dq_items_head, dq_items_tail, do_next>>
threads == <<dgq_thread_pool_size, permits, requests>>
producing == <<pushes, batch, prev, ticks>>
poking == <<remaining, t_count, back>>
contending == <<marked, status, headless>>
history == <<fifo, ran, slipped>>

PokePCs == {"poke", "poke_pending", "poke_request", "poke_signal",
            "poke_reserve", "poke_add", "poke_count", "poke_take"}

WorkerPCs == {"none", "drain", "restore", "look", "next", "last", "wait_next",
              "run", "gone", "quiesced", "quiesced_tail", "mark_gone",
              "mark_quiesced", "out", "done", "asleep", "exit"}

Statuses == {"wait", "ready", "abort"}

Kernel == dq.kind = "kernel"
Overcommit == dq.kind = "overcommit"
Monitored == dq.kind = "monitored"

Init ==
  /\ dq \in Queues
  /\ dq_items_head = Nil /\ dq_items_tail = Nil
  /\ do_next = [i \in Items |-> Nil]
  /\ dgq_pending = 0
  /\ dgq_thread_pool_size = dq.pool
  /\ permits = 0 /\ requests = 0
  /\ pc = [a \in Actors |-> IF a \in Workers THEN "none" ELSE "idle"]
  /\ pushes = [p \in Producers |-> 0]
  /\ batch = [p \in Producers |-> <<>>]
  /\ prev = [p \in Producers |-> Nil]
  /\ remaining = [a \in Actors |-> 0]
  /\ t_count = [a \in Actors |-> 0]
  /\ back = [a \in Actors |-> "idle"]
  /\ held = [w \in Workers |-> Nil]
  /\ marked = [w \in Workers |-> FALSE]
  /\ status = [w \in Workers |-> "ready"]
  /\ headless = [w \in Workers |-> FALSE]
  /\ ticks = 0
  /\ fifo = <<>> /\ ran = {}
  /\ slipped = FALSE

Goto(a, p) == pc' = [pc EXCEPT ![a] = p]

\* Calls _dispatch_root_queue_poke(dq, n, 0), to go on at p.
Poke(a, n, p) ==
  /\ Goto(a, "poke")
  /\ remaining' = [remaining EXCEPT ![a] = n]
  /\ back' = [back EXCEPT ![a] = p]
  /\ UNCHANGED t_count

\* Poke returns.
Return(a) ==
  /\ Goto(a, back[a])
  /\ remaining' = [remaining EXCEPT ![a] = 0]
  /\ t_count' = [t_count EXCEPT ![a] = 0]
  /\ back' = [back EXCEPT ![a] = "idle"]

----------------------------------------------------------------------------
(* _dispatch_root_queue_push_inline: os_mpsc_push_list *)

\* The exchange of the tail, of a list whose items are linked already.
Push(p, b) ==
  LET new == [n \in 1 .. b |-> [by |-> p, push |-> pushes[p] + 1, n |-> n]] IN
  /\ pc[p] = "idle"
  /\ pushes[p] < MaxPush
  /\ pushes' = [pushes EXCEPT ![p] = @ + 1]
  /\ do_next' = [i \in Items |->
       IF \E n \in 1 .. b - 1 : i = new[n] THEN new[i.n + 1] ELSE do_next[i]]
  /\ dq_items_tail' = new[b]
  /\ prev' = [prev EXCEPT ![p] = dq_items_tail]
  /\ batch' = [batch EXCEPT ![p] = new]
  /\ fifo' = fifo \o new
  /\ Goto(p, "push_link")
  /\ UNCHANGED <<dq_items_head, dgq_pending, threads, ticks, poking, held,
                 contending, ran, slipped>>

\* A list that was empty gets a head, and the queue threads.
PushLink(p) ==
  LET hd == batch[p][1] IN
  /\ pc[p] = "push_link"
  /\ \/ /\ prev[p] = Nil
        /\ dq_items_head' = hd
        /\ Poke(p, Len(batch[p]), "idle")
        /\ UNCHANGED do_next
     \/ /\ prev[p] # Nil
        /\ do_next' = [do_next EXCEPT ![prev[p]] = hd]
        /\ Goto(p, "idle")
        /\ UNCHANGED <<dq_items_head, poking>>
  /\ batch' = [batch EXCEPT ![p] = <<>>]
  /\ prev' = [prev EXCEPT ![p] = Nil]
  /\ UNCHANGED <<dq_items_tail, dgq_pending, threads, pushes, ticks, held,
                 contending, history>>

----------------------------------------------------------------------------
(* _dispatch_root_queue_poke, _dispatch_root_queue_poke_slow *)

PokeProbe(a) ==
  /\ pc[a] = "poke"
  /\ \/ /\ dq_items_tail = Nil
        /\ Return(a)
     \/ /\ dq_items_tail # Nil
        /\ Goto(a, IF Kernel THEN "poke_pending" ELSE "poke_signal")
        /\ UNCHANGED poking
  /\ UNCHANGED <<list, dgq_pending, threads, producing, held, contending, history>>

\* One place for each thread that is about to be asked for.
Claims == {a \in Actors : pc[a] \in {"poke_request", "poke_count", "poke_take"}}
Claimed == UNION {{a} \X (1 .. remaining[a]) : a \in Claims}

\* The threads that were asked for, or are about to be, and have not begun.
Requested == requests + Cardinality(Claimed)

\* dgq_pending goes from 0 to n, unless a request is pending.
PokePending(a, from, to) ==
  /\ pc[a] = from
  /\ \/ /\ dgq_pending = 0
        /\ dgq_pending' = remaining[a]
        /\ Goto(a, to)
        /\ UNCHANGED <<poking, slipped>>
     \/ /\ dgq_pending # 0
        /\ Return(a)
        /\ slipped' = (slipped \/ Requested = 0)
        /\ UNCHANGED dgq_pending
  /\ UNCHANGED <<list, threads, producing, held, contending, fifo, ran>>

\* _pthread_workqueue_addthreads
PokeRequest(a) ==
  /\ pc[a] = "poke_request"
  /\ requests' = requests + remaining[a]
  /\ Return(a)
  /\ UNCHANGED <<list, dgq_pending, dgq_thread_pool_size, permits, producing, held,
                 contending, history>>

Asleep == {w \in Workers : pc[w] = "asleep"}

\* One dispatch_semaphore_signal.  It says whether it woke a thread, and
\* leaves a permit if it did not.
PokeSignal(a) ==
  /\ pc[a] = "poke_signal"
  /\ \/ \E w \in Asleep :
          /\ remaining[a] > 1
          /\ remaining' = [remaining EXCEPT ![a] = @ - 1]
          /\ Goto(w, "drain")
          /\ UNCHANGED <<permits, t_count, back>>
     \/ \E w \in Asleep :
          /\ remaining[a] = 1
          /\ pc' = [pc EXCEPT ![w] = "drain", ![a] = back[a]]
          /\ remaining' = [remaining EXCEPT ![a] = 0]
          /\ back' = [back EXCEPT ![a] = "idle"]
          /\ UNCHANGED <<permits, t_count>>
     \/ /\ Asleep = {}
        /\ permits' = permits + 1
        /\ Goto(a, IF Overcommit THEN "poke_add" ELSE "poke_reserve")
        /\ UNCHANGED poking
  /\ UNCHANGED <<list, dgq_pending, dgq_thread_pool_size, requests, producing, held,
                 contending, history>>

\* An overcommit queue does not mind requests that are pending.
PokeAdd(a) ==
  /\ pc[a] = "poke_add"
  /\ dgq_pending' = dgq_pending + remaining[a]
  /\ Goto(a, "poke_count")
  /\ UNCHANGED <<list, threads, producing, poking, held, contending, history>>

PokeCount(a) ==
  /\ pc[a] = "poke_count"
  /\ t_count' = [t_count EXCEPT ![a] = dgq_thread_pool_size]
  /\ Goto(a, "poke_take")
  /\ UNCHANGED <<list, dgq_pending, threads, producing, remaining, back, held,
                 contending, history>>

\* can_request
Available(a) ==
  LET floor == IF a \in Monitors THEN -Excess ELSE 0
  IN  IF t_count[a] < floor THEN 0 ELSE t_count[a] - floor

\* Faulty variant: all of the request is given back.
SurplusAll(a) == remaining[a]

Surplus(a) == remaining[a] - Available(a)

\* The pool has fewer threads left than requested: gives the rest back.
PokeTrim(a) ==
  /\ pc[a] = "poke_take"
  /\ remaining[a] > Available(a)
  /\ dgq_pending' = dgq_pending - Surplus(a)
  /\ \/ /\ Available(a) = 0
        /\ Return(a)
     \/ /\ Available(a) > 0
        /\ remaining' = [remaining EXCEPT ![a] = Available(a)]
        /\ UNCHANGED <<pc, t_count, back>>
  /\ slipped' = (slipped \/ dgq_thread_pool_size > t_count[a])
  /\ UNCHANGED <<list, threads, producing, held, contending, fifo, ran>>

\* Faulty variant: the pool is written blindly.
PoolReadOnce(a) == TRUE

PoolUnchanged(a) == dgq_thread_pool_size = t_count[a]

\* Takes threads off the pool and creates them.
PokeTake(a) ==
  /\ pc[a] = "poke_take"
  /\ remaining[a] <= Available(a)
  /\ \/ /\ PoolUnchanged(a)
        /\ dgq_thread_pool_size' = t_count[a] - remaining[a]
        /\ requests' = requests + remaining[a]
        /\ Return(a)
     \/ /\ ~PoolUnchanged(a)
        /\ t_count' = [t_count EXCEPT ![a] = dgq_thread_pool_size]
        /\ UNCHANGED <<dgq_thread_pool_size, requests, pc, remaining, back>>
  /\ UNCHANGED <<list, dgq_pending, permits, producing, held, contending, history>>

Running == {w \in Workers : pc[w] \notin {"none", "asleep"}}

\* Nobody is in the middle of anything and no thread is on its way.
AtRest ==
  /\ \A a \in Producers \cup Monitors : pc[a] = "idle"
  /\ Running = {} /\ requests = 0

\* _dispatch_workq_monitor_pools, once a second: there is work and no worker is
\* runnable.  Calls that have begun are taken to be over within that second.
MonitorStalled(m) ==
  /\ Monitored
  /\ AtRest
  /\ dq_items_tail # Nil
  /\ Poke(m, 1, "idle")
  /\ UNCHANGED <<list, dgq_pending, threads, producing, held, contending, history>>

\* The same if fewer workers are runnable than there are processors.
MonitorUnderused(m) ==
  /\ Monitored
  /\ pc[m] = "idle"
  /\ ticks < MaxTicks
  /\ Running # {}
  /\ dq_items_tail # Nil
  /\ ticks' = ticks + 1
  /\ Poke(m, 1, "idle")
  /\ UNCHANGED <<list, dgq_pending, threads, pushes, batch, prev, held, contending,
                 history>>

----------------------------------------------------------------------------
(* _dispatch_root_queue_drain_one *)

\* Faulty variant: a load in place of the exchange.
HeadLoaded == dq_items_head

HeadExchanged == Mediator

\* The exchange of the head: the list was empty, locked, or is ours now.
Drain(w) ==
  /\ pc[w] = "drain"
  /\ dq_items_head' = HeadExchanged
  /\ \/ /\ dq_items_head = Nil
        /\ Goto(w, "restore")
        /\ UNCHANGED <<held, fifo>>
     \/ /\ dq_items_head = Mediator
        /\ Goto(w, "gone")
        /\ UNCHANGED <<held, fifo>>
     \/ /\ dq_items_head \in Items
        /\ held' = [held EXCEPT ![w] = dq_items_head]
        /\ fifo' = Tail(fifo)  \* PopsInOrder says that it is the first
        /\ Goto(w, "next")
  /\ UNCHANGED <<dq_items_tail, do_next, dgq_pending, threads, producing, poking,
                 contending, ran, slipped>>

\* Faulty variant: NULL is stored without a look at what is there.
StillLockedAlways == TRUE

StillLocked == dq_items_head = Mediator

\* Puts NULL back, unless a producer has set the head blindly.
Restore(w) ==
  /\ pc[w] = "restore"
  /\ \/ /\ StillLocked
        /\ dq_items_head' = Nil
        /\ Goto(w, "look")
     \/ /\ ~StillLocked
        /\ Goto(w, "drain")
        /\ UNCHANGED dq_items_head
  /\ UNCHANGED <<dq_items_tail, do_next, dgq_pending, threads, producing, poking,
                 held, contending, history>>

\* A tail without a head: an item is about to be linked, or was just popped.
Look(w) ==
  /\ pc[w] = "look"
  /\ Goto(w, IF dq_items_tail # Nil THEN "quiesced" ELSE "done")
  /\ UNCHANGED <<list, dgq_pending, threads, producing, poking, held, contending,
                 history>>

\* The next item becomes the head and another thread is asked for.
HandOn(w, next) ==
  /\ dq_items_head' = next
  /\ Poke(w, 1, "run")

TakeNext(w) ==
  /\ pc[w] = "next"
  /\ \/ /\ do_next[held[w]] = Nil
        /\ dq_items_head' = Nil
        /\ Goto(w, "last")
        /\ UNCHANGED poking
     \/ /\ do_next[held[w]] # Nil
        /\ HandOn(w, do_next[held[w]])
  /\ UNCHANGED <<dq_items_tail, do_next, dgq_pending, threads, producing, held,
                 contending, history>>

\* Faulty variant: the tail is reset without a look at it.
IsLastAlways(w) == TRUE

IsLast(w) == dq_items_tail = held[w]

\* The item that may be the last one: the tail decides.
TakeLast(w) ==
  /\ pc[w] = "last"
  /\ \/ /\ IsLast(w)
        /\ dq_items_tail' = Nil
        /\ Goto(w, "run")
     \/ /\ ~IsLast(w)
        /\ Goto(w, "wait_next")
        /\ UNCHANGED dq_items_tail
  /\ UNCHANGED <<dq_items_head, do_next, dgq_pending, threads, producing, poking,
                 held, contending, history>>

\* os_mpsc_get_next, then as in TakeNext.
WaitNext(w) ==
  /\ pc[w] = "wait_next"
  /\ do_next[held[w]] # Nil
  /\ HandOn(w, do_next[held[w]])
  /\ UNCHANGED <<dq_items_tail, do_next, dgq_pending, threads, producing, held,
                 contending, history>>

\* Runs the item; the drain goes on or narrows.
Run(w) ==
  /\ pc[w] = "run"
  /\ ran' = ran \cup {held[w]}
  /\ do_next' = [do_next EXCEPT ![held[w]] = Nil]
  /\ held' = [held EXCEPT ![w] = Nil]
  /\ Goto(w, "drain") \/ Goto(w, "done")
  /\ UNCHANGED <<dq_items_head, dq_items_tail, dgq_pending, threads, producing,
                 poking, contending, fifo, slipped>>

----------------------------------------------------------------------------
(* __DISPATCH_ROOT_QUEUE_CONTENDED_WAIT__ *)

\* The predicate said s.  A wait marks the queue, looks again and gives up in
\* the end.
Decide(w, s, mark, again) ==
  \/ /\ s = "wait"
     /\ Goto(w, IF marked[w] THEN again ELSE mark)
     /\ UNCHANGED status
  \/ /\ s # "wait" \/ marked[w]
     /\ status' = [status EXCEPT ![w] = s]
     /\ Goto(w, "out")

\* _dispatch_root_queue_mediator_is_gone
Gone(w) ==
  /\ pc[w] = "gone"
  /\ Decide(w, IF dq_items_head # Mediator THEN "ready" ELSE "wait",
            "mark_gone", "gone")
  /\ UNCHANGED <<list, dgq_pending, threads, producing, poking, held, marked,
                 headless, history>>

\* _dispatch_root_queue_head_tail_quiesced loads the head, then the tail.
Quiesced(w) ==
  /\ pc[w] = "quiesced"
  /\ headless' = [headless EXCEPT ![w] = dq_items_head = Nil]
  /\ Goto(w, "quiesced_tail")
  /\ UNCHANGED <<list, dgq_pending, threads, producing, poking, held, marked, status,
                 history>>

QuiescedTail(w) ==
  LET tailless == dq_items_tail = Nil IN
  /\ pc[w] = "quiesced_tail"
  /\ Decide(w, IF ~(headless[w] <=> tailless) THEN "wait"
               ELSE IF tailless THEN "abort" ELSE "ready",
            "mark_quiesced", "quiesced")
  /\ headless' = [headless EXCEPT ![w] = FALSE]
  /\ UNCHANGED <<list, dgq_pending, threads, producing, poking, held, marked,
                 history>>

Mark(w, from, to) ==
  /\ pc[w] = from
  /\ dgq_pending' = dgq_pending + 1
  /\ marked' = [marked EXCEPT ![w] = TRUE]
  /\ Goto(w, to)
  /\ UNCHANGED <<list, threads, producing, poking, held, status, headless, history>>

\* Faulty variant: unmarks a queue it has not marked.
UnmarkedBlindly(w) == dgq_pending - 1

Unmarked(w) == IF marked[w] THEN dgq_pending - 1 ELSE dgq_pending

\* Unmarks the queue, and asks for another thread before giving up.
Out(w) ==
  /\ pc[w] = "out"
  /\ dgq_pending' = Unmarked(w)
  /\ marked' = [marked EXCEPT ![w] = FALSE]
  /\ status' = [status EXCEPT ![w] = "ready"]
  /\ \/ /\ status[w] = "ready"
        /\ Goto(w, "drain")
        /\ UNCHANGED poking
     \/ /\ status[w] = "abort"
        /\ Goto(w, "done")
        /\ UNCHANGED poking
     \/ /\ status[w] = "wait"
        /\ Poke(w, 1, "done")
  /\ UNCHANGED <<list, threads, producing, held, headless, history>>

----------------------------------------------------------------------------
(* _dispatch_worker_thread, _dispatch_worker_thread2 *)

\* A requested thread begins to run.
Begin(w) ==
  /\ pc[w] = "none"
  /\ requests > 0
  /\ requests' = requests - 1
  /\ dgq_pending' = dgq_pending - 1
  /\ Goto(w, "drain")
  /\ UNCHANGED <<dq, list, dgq_thread_pool_size, permits, producing, poking,
                 held, contending, history>>

\* The drain is over: the thread goes back to the kernel, or waits for a
\* permit, 5 seconds long.
Park(w) ==
  /\ pc[w] = "done"
  /\ \/ /\ Kernel
        /\ Goto(w, "none")
        /\ UNCHANGED permits
     \/ /\ ~Kernel /\ permits > 0
        /\ permits' = permits - 1
        /\ Goto(w, "drain")
     \/ /\ ~Kernel /\ permits = 0
        /\ Goto(w, "asleep")
        /\ UNCHANGED permits
  /\ UNCHANGED <<list, dgq_pending, dgq_thread_pool_size, requests, producing, poking,
                 held, contending, history>>

TimedOut(w) ==
  /\ pc[w] = "asleep"
  /\ Goto(w, "exit")
  /\ UNCHANGED <<list, dgq_pending, threads, producing, poking, held, contending,
                 history>>

\* Gives its place in the pool back and looks once more.
Exit(w) ==
  /\ pc[w] = "exit"
  /\ dgq_thread_pool_size' = dgq_thread_pool_size + 1
  /\ Poke(w, 1, "none")
  /\ UNCHANGED <<list, dgq_pending, permits, requests, producing, held, contending,
                 history>>

----------------------------------------------------------------------------

\* The steps of a push or a poke that has begun.
ActorStep(a) ==
  \/ PokeProbe(a)
  \/ PokePending(a, "poke_pending", "poke_request") \/ PokeRequest(a)
  \/ PokeSignal(a)
  \/ PokePending(a, "poke_reserve", "poke_count") \/ PokeAdd(a)
  \/ PokeCount(a) \/ PokeTrim(a) \/ PokeTake(a)

ProducerStep(p) == (PushLink(p) \/ ActorStep(p)) /\ UNCHANGED dq

WorkerStep(w) ==
  /\ \/ ActorStep(w)
     \/ Drain(w) \/ Restore(w) \/ Look(w)
     \/ TakeNext(w) \/ TakeLast(w) \/ WaitNext(w) \/ Run(w)
     \/ Gone(w) \/ Quiesced(w) \/ QuiescedTail(w)
     \/ Mark(w, "mark_gone", "gone") \/ Mark(w, "mark_quiesced", "quiesced")
     \/ Out(w)
     \/ Park(w) \/ Exit(w)
  /\ UNCHANGED dq

MonitorStep(m) == (MonitorStalled(m) \/ ActorStep(m)) /\ UNCHANGED dq

\* Calls of producers, timeouts and changes of the load.
Environment ==
  /\ \/ \E p \in Producers, b \in Batches : Push(p, b)
     \/ \E w \in Workers : TimedOut(w)
     \/ \E m \in Monitors : MonitorUnderused(m)
  /\ UNCHANGED dq

Next ==
  \/ Environment
  \/ \E p \in Producers : ProducerStep(p)
  \/ \E w \in Workers : Begin(w) \/ WorkerStep(w)
  \/ \E m \in Monitors : MonitorStep(m)

Spec == Init /\ [][Next]_vars

\* Running threads run, threads that were asked for begin to run, and the
\* monitor's timer fires.
Fairness ==
  /\ \A p \in Producers : WF_vars(ProducerStep(p))
  /\ \A w \in Workers : WF_vars(WorkerStep(w))
  /\ WF_vars(\E w \in Workers : Begin(w))
  /\ \A m \in Monitors : WF_vars(MonitorStep(m))

FairSpec == Spec /\ Fairness

----------------------------------------------------------------------------
(* Properties *)

ListTyped ==
  /\ dq_items_head \in Items \cup {Nil, Mediator}
  /\ dq_items_tail \in Items \cup {Nil}
  /\ do_next \in [Items -> Items \cup {Nil}]

ThreadsTyped ==
  /\ dq \in Queues
  /\ dgq_pending \in Nat
  /\ dgq_thread_pool_size \in -Excess .. dq.pool
  /\ permits \in Nat /\ requests \in Nat

ControlTyped ==
  /\ pc \in [Actors -> {"idle", "push_link"} \cup PokePCs \cup WorkerPCs]
  /\ \A p \in Producers : pc[p] \in {"idle", "push_link"} \cup PokePCs
  /\ \A w \in Workers : pc[w] \in WorkerPCs \cup PokePCs
  /\ \A m \in Monitors : pc[m] \in {"idle"} \cup PokePCs

ProducingTyped ==
  /\ ticks \in 0 .. MaxTicks
  /\ pushes \in [Producers -> 0 .. MaxPush]
  /\ batch \in [Producers -> Seq(Items)]
  /\ prev \in [Producers -> Items \cup {Nil}]

PokingTyped ==
  /\ remaining \in [Actors -> Nat] /\ t_count \in [Actors -> Int]
  /\ back \in [Actors -> {"idle", "run", "done", "none"}]

DrainingTyped ==
  /\ held \in [Workers -> Items \cup {Nil}]
  /\ marked \in [Workers -> BOOLEAN]
  /\ status \in [Workers -> Statuses]
  /\ headless \in [Workers -> BOOLEAN]

HistoryTyped ==
  /\ fifo \in Seq(Items) /\ ran \subseteq Items
  /\ slipped \in BOOLEAN

TypeOK ==
  /\ ListTyped /\ ThreadsTyped /\ ControlTyped /\ ProducingTyped
  /\ PokingTyped /\ DrainingTyped /\ HistoryTyped

\* Items leave the list in the order of the exchanges of its tail, each to one
\* worker, however the exchanges of the head, its blind stores and the resets of
\* the tail interleave: an item at the head is the oldest one that nobody took,
\* and a worker that has not given the list back is the only one.
PopsInOrder ==
  /\ dq_items_head \in Items => fifo # <<>> /\ dq_items_head = fifo[1]
  /\ Cardinality({w \in Workers : pc[w] \in {"next", "last", "wait_next"}}) <= 1
  /\ \A v, w \in Workers : held[v] = held[w] /\ v # w => held[v] = Nil

\* dgq_pending is what was asked for and has not begun, plus the marks of
\* contending workers; so a beginning thread never crashes with "Pending thread
\* request underflow", and a queue that is at rest accepts requests.
PendingIsAccounted ==
  dgq_pending = Requested + Cardinality({w \in Workers : marked[w]})

\* A worker that has left the pool and looks once more.
Exiting(w) == pc[w] \in PokePCs /\ back[w] = "none"

\* Threads come from the pool and go back to it.
PoolIsAccounted ==
  ~Kernel =>
    dgq_thread_pool_size + requests
      + Cardinality({w \in Workers : pc[w] # "none" /\ ~Exiting(w)}) = dq.pool

\* A thread of a global queue comes from its pool, is asked for once and begins
\* once, and the counts agree.
ThreadsAreAccounted == TypeOK /\ PendingIsAccounted /\ PoolIsAccounted

\* What man/dispatch_queue_create.3 says of a global queue: it schedules blocks
\* "as soon as threads become available".  The code does not ensure it.  A poke
\* may be refused because of the mark of a worker that has just found the list
\* empty and leaves; and one that has found the pool exhausted may give up after
\* the threads have come back, whose own pokes it has refused.
NothingIsStranded == AtRest => fifo = <<>>

\* Nothing else strands an item: an overcommit queue does not refuse requests,
\* and its items never are.
StrandedOnlyBySlips == NothingIsStranded \/ (slipped /\ ~Overcommit)

\* Every item is run, by threads that come and go and queue up for items, as
\* long as no request slips; and the monitor makes up for those that do.
ItemsRun ==
  \A i \in Items : i \in Range(fifo) ~> i \in ran \/ (slipped /\ ~Monitored)
=============================================================================
