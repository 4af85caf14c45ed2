------------------------------ MODULE OnceGate ------------------------------
(***************************************************************************)
(* dispatch_once (dispatch/once.h, src/once.c) and the gate it waits on    *)
(* (src/shims/lock.h, src/shims/lock.c) in the three forms it is built in: *)
(*   "tso"       x86, where the caller tests the predicate without barrier *)
(*   "quiescent" Apple arm, which tests it without barrier as well and so  *)
(*               publishes DONE only when the kernel's counter of          *)
(*               quiescent periods has moved on far enough                 *)
(*   "weak"      any other machine: an acquire load before the slow path   *)
(* Memory is weak: a load may return any write that its thread's view does *)
(* not exclude yet; acquire and release move views.                        *)
(***************************************************************************)
EXTENDS Integers, Sequences, FiniteSets

LOCAL INSTANCE FiniteSetsExt   \* Max
LOCAL INSTANCE SequencesExt    \* Last

CONSTANTS Threads,   \* each on a CPU of its own
          Nobody,
          Builds,    \* the builds looked at
          MaxGen,    \* bound: quiescent periods
          MaxCalls   \* bound: calls of each thread

VARIABLES
  build,
  dgo_once, \* the writes of the word, oldest first, with the view they carry
  view,     \* what each thread's loads have to see at least
  data,     \* history: how often the initializer ran
  gen,      \* _COMM_PAGE_CPU_QUIESCENT_COUNTER
  mask,     \* kernel: CPUs that switched context in this period
  maskView, \* kernel: the view the mask carries
  pc,
  old,      \* the word a thread has loaded
  counter,  \* the generation it has loaded
  asleep,   \* threads the kernel blocks on the word
  calls

vars == <<build, dgo_once, view, data, gen, mask, maskView, pc, old, counter,
          asleep, calls>>

kernel == <<gen, mask, maskView>>

\* The word: unlocked, owned (with or without DLOCK_WAITERS_BIT), a generation,
\* or done.
Word(k, t, w, g) == [kind |-> k, owner |-> t, waiters |-> w, gen |-> g]
Unlocked == Word("unlocked", Nobody, FALSE, 0)
Owned(t, w) == Word("owned", t, w, 0)
Gen(g) == Word("gen", Nobody, FALSE, g)
Done == Word("done", Nobody, FALSE, 0)
Words == [kind : {"unlocked", "owned", "gen", "done"},
          owner : Threads \cup {Nobody}, waiters : BOOLEAN, gen : 0 .. MaxGen]

\* A view: whether the initializer's stores are seen, the oldest write of the
\* word and the oldest value of the counter that may still be loaded.
Views == [data : BOOLEAN, once : Nat, gen : 0 .. MaxGen]
Nothing == [data |-> FALSE, once |-> 1, gen |-> 0]

Join(v, u) == [data |-> v.data \/ u.data, once |-> Max({v.once, u.once}),
               gen |-> Max({v.gen, u.gen})]

Now == Len(dgo_once)
Current == Last(dgo_once).word
Tso == build = "tso"
Quiescent == build = "quiescent"

\* t loads the i-th write; an acquire load takes over the view it carries.
Load(t, i, acquire) ==
  /\ i \in (IF Tso THEN Now ELSE view[t].once) .. Now
  /\ view' = [view EXCEPT ![t] =
       Join(IF acquire \/ Tso THEN Join(@, dgo_once[i].view) ELSE @,
            [Nothing EXCEPT !.once = i])]

\* t writes w; a release write carries all that t has seen.
Store(t, w, carried) ==
  /\ dgo_once' = Append(dgo_once, [word |-> w, view |-> carried])
  /\ view' = [view EXCEPT ![t].once = Now + 1]

PCs == {"idle", "call", "enter", "init", "count", "broadcast", "wake", "wait",
        "kernel", "asleep", "mark", "returned"}

Init ==
  /\ build \in Builds
  /\ dgo_once = <<[word |-> Unlocked, view |-> Nothing]>>
  /\ view = [t \in Threads |-> Nothing]
  /\ data = 0
  /\ gen = 0 /\ mask = {} /\ maskView = Nothing
  /\ pc = [t \in Threads |-> "idle"]
  /\ old = [t \in Threads |-> Unlocked]
  /\ counter = [t \in Threads |-> 0]
  /\ asleep = {}
  /\ calls = [t \in Threads |-> 0]

Goto(t, from, to) == pc[t] = from /\ pc' = [pc EXCEPT ![t] = to]

----------------------------------------------------------------------------

\* The inlined dispatch_once: a plain load that, when it finds DONE, is followed
\* by a compiler barrier only.  The "weak" build has no such fast path.
InlineTest(t) ==
  /\ calls[t] < MaxCalls
  /\ calls' = [calls EXCEPT ![t] = @ + 1]
  /\ \/ /\ build = "weak"
        /\ Goto(t, "idle", "call")
        /\ UNCHANGED view
     \/ /\ build # "weak"
        /\ \E i \in 1 .. Now :
             /\ Load(t, i, FALSE)
             /\ Goto(t, "idle", IF dgo_once[i].word = Done THEN "returned"
                                                           ELSE "call")
  /\ UNCHANGED <<build, dgo_once, data, kernel, old, counter, asleep>>

\* dispatch_once_f: the acquire load of the builds other than "tso".
AcquireTest(t) ==
  /\ \/ Tso /\ Goto(t, "call", "enter") /\ UNCHANGED <<view, old>>
     \/ /\ ~Tso
        /\ \E i \in 1 .. Now :
             LET w == dgo_once[i].word IN
             /\ Load(t, i, TRUE)
             /\ Goto(t, "call", CASE w.kind = "done" -> "returned"
                                  [] w.kind = "gen" -> "mark"
                                  [] OTHER -> "enter")
             /\ old' = [old EXCEPT ![t] = w]
  /\ UNCHANGED <<build, dgo_once, data, kernel, counter, asleep, calls>>

\* _dispatch_once_gate_tryenter: a relaxed compare-and-swap.
TryEnter(t) ==
  /\ \/ /\ Current = Unlocked
        /\ Goto(t, "enter", "init")
        /\ Store(t, Owned(t, FALSE), Nothing)
     \/ /\ Current # Unlocked
        /\ Goto(t, "enter", "wait")
        /\ UNCHANGED <<dgo_once, view>>
  /\ UNCHANGED <<build, data, kernel, old, counter, asleep, calls>>

\* _dispatch_once_callout: the caller's function.
Callout(t) ==
  /\ Goto(t, "init", "count")
  /\ data' = data + 1
  /\ view' = [view EXCEPT ![t].data = TRUE]
  /\ UNCHANGED <<build, dgo_once, kernel, old, counter, asleep, calls>>

\* _dispatch_once_generation, a load that may be old.
LoadGeneration(t, from, to) ==
  \E g \in view[t].gen .. gen :
    /\ Goto(t, from, to)
    /\ counter' = [counter EXCEPT ![t] = g]
    /\ view' = [view EXCEPT ![t].gen = g]
    /\ UNCHANGED <<build, dgo_once, data, kernel, old, asleep, calls>>

\* Faulty variant: DONE at once, as if every load were an acquire.
BroadcastDone(t) ==
  /\ Goto(t, "broadcast", IF Current = Owned(t, FALSE) THEN "returned" ELSE "wake")
  /\ Store(t, Done, view[t])
  /\ counter' = [counter EXCEPT ![t] = 0]
  /\ UNCHANGED <<build, data, kernel, old, asleep, calls>>

\* _dispatch_once_gate_broadcast: the exchange that marks the word as done, or
\* as quiescing; gate_broadcast_slow follows when there are waiters.
Broadcast(t) ==
  /\ Goto(t, "broadcast", IF Current = Owned(t, FALSE) THEN "returned" ELSE "wake")
  /\ Store(t, IF Quiescent THEN Gen(counter[t]) ELSE Done, view[t])
  /\ counter' = [counter EXCEPT ![t] = 0]
  /\ UNCHANGED <<build, data, kernel, old, asleep, calls>>

\* Faulty variant: ulock_wake without ULF_WAKE_ALL.
WakeOne(t) ==
  /\ pc[t] = "wake"
  /\ \E u \in asleep : pc' = [pc EXCEPT ![t] = "returned", ![u] = "wait"]
                       /\ asleep' = asleep \ {u}
  /\ UNCHANGED <<build, dgo_once, view, data, kernel, old, counter, calls>>

\* _dispatch_gate_broadcast_slow wakes everyone.
Wake(t) ==
  /\ pc[t] = "wake"
  /\ pc' = [u \in Threads |-> IF u = t THEN "returned"
                              ELSE IF u \in asleep THEN "wait" ELSE pc[u]]
  /\ asleep' = {}
  /\ UNCHANGED <<build, dgo_once, view, data, kernel, old, counter, calls>>

\* One turn of _dispatch_once_wait.  DONE returns without a barrier; a
\* generation is followed by an acquire fence.
OnceWait(t) ==
  /\ \E i \in 1 .. Now :
       LET w == dgo_once[i].word IN
       /\ old' = [old EXCEPT ![t] = w]
       /\ \/ /\ w.kind \in {"done", "gen"}
             /\ Load(t, i, w.kind = "gen")
             /\ Goto(t, "wait", IF w = Done THEN "returned" ELSE "mark")
             /\ UNCHANGED dgo_once
          \/ /\ w.kind = "owned" /\ w.waiters
             /\ Load(t, i, FALSE)
             /\ Goto(t, "wait", "kernel")
             /\ UNCHANGED dgo_once
          \/ /\ w.kind = "owned" /\ ~w.waiters /\ i = Now
             /\ Goto(t, "wait", "kernel")
             /\ old' = [old EXCEPT ![t] = Owned(w.owner, TRUE)]
             /\ Store(t, old'[t], Nothing)
  /\ UNCHANGED <<build, data, kernel, counter, asleep, calls>>

\* ulock_wait or futex_wait: block while the word is the one that was marked.
KernelWait(t) ==
  /\ Goto(t, "kernel", IF Current = old[t] THEN "asleep" ELSE "wait")
  /\ asleep' = IF Current = old[t] THEN asleep \cup {t} ELSE asleep
  /\ UNCHANGED <<build, dgo_once, view, data, kernel, old, counter, calls>>

\* DISPATCH_ONCE_GEN_SAFE_DELTA, in periods.
SafeDelta == 4

\* Faulty variant: half the periods.
MarkDoneEarly(t) ==
  \E g \in view[t].gen .. gen :
    /\ Goto(t, "mark", "returned")
    /\ IF g - old[t].gen >= 2
       THEN /\ dgo_once' = Append(dgo_once, [word |-> Done, view |-> Nothing])
            /\ view' = [view EXCEPT ![t].once = Now + 1, ![t].gen = g]
       ELSE view' = [view EXCEPT ![t].gen = g] /\ UNCHANGED dgo_once
    /\ UNCHANGED <<build, data, kernel, old, counter, asleep, calls>>

\* _dispatch_once_mark_done_if_quiesced: a relaxed store of DONE once every CPU
\* has gone through enough barriers.
MarkDone(t) ==
  \E g \in view[t].gen .. gen :
    /\ Goto(t, "mark", "returned")
    /\ IF g - old[t].gen >= SafeDelta
       THEN /\ dgo_once' = Append(dgo_once, [word |-> Done, view |-> Nothing])
            /\ view' = [view EXCEPT ![t].once = Now + 1, ![t].gen = g]
       ELSE view' = [view EXCEPT ![t].gen = g] /\ UNCHANGED dgo_once
    /\ UNCHANGED <<build, data, kernel, old, counter, asleep, calls>>

\* The caller goes on.
Leave(t) ==
  /\ Goto(t, "returned", "idle")
  /\ old' = [old EXCEPT ![t] = Unlocked]
  /\ UNCHANGED <<build, dgo_once, view, data, kernel, counter, asleep, calls>>

\* The kernel's counter: a CPU that switches context sets its bit of the mask
\* with acq_rel order; the one that completes the mask advances the counter.
SwitchContext(t) ==
  /\ Quiescent /\ t \notin mask /\ gen < MaxGen
  /\ LET full == mask \cup {t} = Threads
         seen == Join(Join(view[t], maskView),
                      IF full THEN [Nothing EXCEPT !.gen = gen + 1] ELSE Nothing)
     IN  /\ view' = [view EXCEPT ![t] = seen]
         /\ maskView' = seen
         /\ mask' = IF full THEN {} ELSE mask \cup {t}
         /\ gen' = IF full THEN gen + 1 ELSE gen
  /\ UNCHANGED <<build, dgo_once, data, pc, old, counter, asleep, calls>>

----------------------------------------------------------------------------

Progress(t) ==
  \/ AcquireTest(t)
  \/ TryEnter(t)
  \/ Callout(t)
  \/ LoadGeneration(t, "count", "broadcast")
  \/ Broadcast(t)
  \/ Wake(t)
  \/ OnceWait(t)
  \/ KernelWait(t)
  \/ MarkDone(t)

Next == \E t \in Threads :
          InlineTest(t) \/ Leave(t) \/ SwitchContext(t) \/ Progress(t)

Spec == Init /\ [][Next]_vars

\* Threads in a call keep running; context switches come or do not.
Fairness == \A t \in Threads : WF_vars(Progress(t))

----------------------------------------------------------------------------
(* Properties *)

TypeOK ==
  /\ build \in Builds
  /\ dgo_once \in Seq([word : Words, view : Views])
  /\ view \in [Threads -> Views]
  /\ data \in 0 .. 1
  /\ gen \in 0 .. MaxGen /\ mask \subseteq Threads /\ maskView \in Views
  /\ pc \in [Threads -> PCs]
  /\ old \in [Threads -> Words]
  /\ counter \in [Threads -> 0 .. MaxGen]
  /\ asleep \subseteq Threads
  /\ calls \in [Threads -> 0 .. MaxCalls]

\* Whoever returns from dispatch_once sees the stores of the initializer, which
\* ran once, although the fast path has no barrier: four quiescent periods
\* (DISPATCH_ONCE_GEN_SAFE_DELTA, the theorem in lock.h) give every CPU one.
ReturnersSeeTheInit ==
  \A t \in Threads : pc[t] = "returned" => data = 1 /\ view[t].data

\* dispatch/once.h: DISPATCH_COMPILER_CAN_ASSUME(*predicate == ~0l), which the
\* inlined dispatch_once of the "tso" and "quiescent" builds states on return.
PredicateIsDone ==
  build # "weak" => \A t \in Threads : pc[t] = "returned" => Current = Done

\* Every caller returns.
CallersReturn == \A t \in Threads : [](pc[t] # "idle" => <>(pc[t] = "returned"))
=============================================================================
