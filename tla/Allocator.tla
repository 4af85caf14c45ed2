----------------------------- MODULE Allocator -----------------------------
(* The allocator of continuations (allocator.c) and the cache of each thread *)
(* in front of it: heaps of one magazine per CPU, a bitmap for every group   *)
(* of continuations, a supermap of the bitmaps that are full, the page where *)
(* a CPU found one last, and the return of empty pages to the kernel.        *)
(*                                                                           *)
(* Every access to a bitmap, a supermap or the list of heaps is a step, and  *)
(* a thread may change CPU between steps.                                    *)
EXTENDS Integers, Sequences, FiniteSets

CONSTANTS
  Threads, Cpus, Null,
  Heaps,      \* bound: heaps there are at most, 1..Heaps
  FirstMaps,  \* bitmaps in the first page of a magazine
  Maps,       \* bitmaps of the other pages of a magazine
  PerPage,    \* bitmaps of a page
  PerSuper,   \* bitmaps of a supermap
  Bits,       \* continuations of a bitmap
  Limit,      \* _dispatch_continuation_cache_limit at first
  LowLimit,   \* and under memory pressure
  Allocs      \* bound: calls of alloc

VARIABLES
  heaps,      \* how many heaps are linked
  bits,       \* of each bitmap, the continuations in use; Null if the bits are locked
  supers,     \* of each supermap, the bitmaps marked as full
  last,       \* of each CPU, the first bitmap of a page
  limit,      \* _dispatch_continuation_cache_limit
  cache,      \* of each thread, the continuations in its cache
  held,       \* the continuations that are with the program
  allocs, crash, at

allocVars == <<heaps, bits, supers, last, limit, cache, held, allocs, crash, at>>

\* A bitmap is <<heap, cpu, number>>; those of the first page have numbers from 0 down.
Numbers == (1 - FirstMaps) .. Maps
Bitmaps == (1..Heaps) \X Cpus \X Numbers
Magazine(h, c) == [n \in 1..Maps |-> <<h, c, n>>]
InFirstPage(b) == b[3] <= 0
Super(b) == (b[3] - 1) \div PerSuper
Supers == 0 .. ((Maps - 1) \div PerSuper)
\* first_bitmap_in_same_page
PageOf(b) == [b EXCEPT ![3] = ((@ - 1) \div PerPage) * PerPage + 1]
PageMaps(p) == [i \in 1..PerPage |-> [p EXCEPT ![3] = @ + i - 1]]
All == 1..Bits

\* bitmap_is_full
Full(b) == bits[b] = Null \/ bits[b] = All

Idle == [pc |-> "idle", heap |-> 0, cpu |-> Null, map |-> Null, n |-> 0, next |-> Null, seen |-> {},
         freed |-> <<>>]

AllocInit ==
  /\ heaps = 0
  /\ bits = [b \in Bitmaps |-> {}]
  /\ supers = [s \in (1..Heaps) \X Cpus \X Supers |-> {}]
  /\ last = [c \in Cpus |-> Null]
  /\ limit = Limit
  /\ cache = [t \in Threads |-> <<>>]
  /\ held = {}
  /\ allocs = 0
  /\ crash = "no"
  /\ at = [t \in Threads |-> Idle]

Goto(t, changes) == at' = [at EXCEPT ![t] = changes]

\* bitmap_set_first_unset_bit: takes the first continuation that is free; then(c) is
\* the thread after it, if there is one, and otherwise the thread after a full bitmap.
TakeBit(t, b, then, otherwise) ==
  IF Full(b) THEN Goto(t, otherwise) /\ UNCHANGED <<bits, held, crash>>
  ELSE LET i == CHOOSE x \in All \ bits[b] : \A y \in All \ bits[b] : x <= y
       IN /\ bits' = [bits EXCEPT ![b] = @ \cup {i}]
          /\ held' = held \cup {<<b, i>>}
          /\ crash' = IF <<b, i>> \in held THEN "A continuation is given out twice" ELSE crash
          /\ Goto(t, then)

-----------------------------------------------------------------------------
(* alloc                                                                    *)

\* _dispatch_continuation_alloc: from the cache, from the page where one was found
\* last, or from the heap.
Alloc(t) ==
  /\ at[t].pc = "idle"
  /\ allocs < Allocs
  /\ allocs' = allocs + 1
  /\ IF cache[t] # <<>>
       THEN /\ held' = held \cup {Head(cache[t])}
            /\ crash' = IF Head(cache[t]) \in held THEN "A continuation is given out twice" ELSE crash
            /\ cache' = [cache EXCEPT ![t] = Tail(@)]
            /\ UNCHANGED at
     ELSE /\ \E c \in Cpus :
               Goto(t, IF heaps = 0 THEN [Idle EXCEPT !.pc = "create", !.heap = 1]
                       ELSE IF last[c] # Null THEN [Idle EXCEPT !.pc = "last", !.map = last[c], !.n = 1]
                       ELSE [Idle EXCEPT !.pc = "first", !.heap = 1, !.cpu = c, !.n = 0])
          /\ UNCHANGED <<cache, held, crash>>
  /\ UNCHANGED <<heaps, bits, supers, last, limit>>

\* The bitmaps of the page where this CPU found a continuation last.
AllocLast(t) ==
  LET b == PageMaps(at[t].map)[at[t].n]
  IN /\ at[t].pc = "last"
     /\ \E c \in Cpus :
          TakeBit(t, b, [Idle EXCEPT !.pc = "mark", !.map = b],
                  IF at[t].n < PerPage THEN [at[t] EXCEPT !.n = @ + 1]
                  ELSE [Idle EXCEPT !.pc = "first", !.heap = 1, !.cpu = c])
     /\ UNCHANGED <<heaps, supers, last, limit, cache, allocs>>

\* _dispatch_alloc_try_create_heap: who loses the race to link a heap unmaps its own.
Create(t) ==
  /\ at[t].pc = "create"
  /\ at[t].heap <= Heaps
  /\ heaps' = IF heaps < at[t].heap THEN at[t].heap ELSE heaps
  /\ \E c \in Cpus : Goto(t, [at[t] EXCEPT !.pc = "first", !.cpu = c, !.n = 0])
  /\ UNCHANGED <<bits, supers, last, limit, cache, held, allocs, crash>>

\* The next bitmap of a magazine to look at: those of a supermap that is full are
\* skipped, and after the last magazine comes the next heap.
Onward(t, n) ==
  LET skipped == {m \in n..Maps : (m - 1) % PerSuper = 0 /\
                    supers[<<at[t].heap, at[t].cpu, Super(<<0, 0, m>>)>>] = 0..(PerSuper - 1)}
      here == IF n \in skipped THEN n + PerSuper ELSE n
  IN IF n > Maps THEN [Idle EXCEPT !.pc = "create", !.heap = at[t].heap + 1]
     ELSE IF n \in skipped THEN [at[t] EXCEPT !.pc = "skip", !.n = here]
     ELSE [at[t] EXCEPT !.pc = "scan", !.n = n]

\* alloc_continuation_from_first_page
AllocFirst(t) ==
  LET b == <<at[t].heap, at[t].cpu, 0 - at[t].n>>
  IN /\ at[t].pc = "first"
     /\ IF at[t].n < FirstMaps
          THEN TakeBit(t, b, Idle, [at[t] EXCEPT !.n = @ + 1])
        ELSE Goto(t, Onward(t, 1)) /\ UNCHANGED <<bits, held, crash>>
     /\ UNCHANGED <<heaps, supers, last, limit, cache, allocs>>

\* alloc_continuation_from_magazine
AllocScan(t) ==
  LET b == <<at[t].heap, at[t].cpu, at[t].n>>
      found == ~Full(b)
  IN /\ \/ /\ at[t].pc = "scan"
           /\ TakeBit(t, b, [Idle EXCEPT !.pc = "mark", !.map = b], Onward(t, at[t].n + 1))
           /\ \E c \in Cpus : last' = IF found THEN [last EXCEPT ![c] = PageOf(b)] ELSE last
        \/ /\ at[t].pc = "skip"
           /\ Goto(t, Onward(t, at[t].n))
           /\ UNCHANGED <<bits, held, crash, last>>
     /\ UNCHANGED <<heaps, supers, limit, cache, allocs>>

\* mark_bitmap_as_full_if_still_full: loads the supermap, looks at the bitmap, and
\* stores the supermap if it is what it was.
Mark(t) ==
  LET b == at[t].map
      s == <<b[1], b[2], Super(b)>>
      looked == IF Full(b) THEN [at[t] EXCEPT !.pc = "store", !.seen = supers[s]] ELSE Idle
  IN /\ \/ at[t].pc = "mark" /\ UNCHANGED supers /\ Goto(t, looked)
        \/ /\ at[t].pc = "store"
           /\ IF supers[s] # at[t].seen THEN UNCHANGED supers /\ Goto(t, looked)
              ELSE /\ supers' = [supers EXCEPT ![s] = @ \cup {(b[3] - 1) % PerSuper}]
                   /\ Goto(t, Idle)
     /\ UNCHANGED <<heaps, bits, last, limit, cache, held, allocs, crash>>

-----------------------------------------------------------------------------
(* free                                                                     *)

\* _dispatch_continuation_free: into the cache; a full cache gives the continuation
\* to the heap, and what it has above the limit.
Free(t, c) ==
  LET over == IF Len(cache[t]) > limit THEN SubSeq(cache[t], 1, Len(cache[t]) - limit) ELSE <<>>
      kept == SubSeq(cache[t], Len(over) + 1, Len(cache[t]))
  IN /\ at[t].pc = "idle"
     /\ c \in held
     /\ held' = held \ {c}
     /\ IF Len(cache[t]) + 1 <= limit
          THEN cache' = [cache EXCEPT ![t] = <<c>> \o @] /\ UNCHANGED at
        ELSE /\ cache' = [cache EXCEPT ![t] = kept]
             /\ Goto(t, [Idle EXCEPT !.pc = "clear", !.freed = <<c>> \o over])
     /\ UNCHANGED <<heaps, bits, supers, last, limit, allocs, crash>>

\* _dispatch_cache_cleanup, when a thread ends.
Cleanup(t) ==
  /\ at[t].pc = "idle"
  /\ cache[t] # <<>>
  /\ Goto(t, [Idle EXCEPT !.pc = "clear", !.freed = cache[t]])
  /\ cache' = [cache EXCEPT ![t] = <<>>]
  /\ UNCHANGED <<heaps, bits, supers, last, limit, held, allocs, crash>>

\* The limit changes with the memory pressure.
Pressure ==
  /\ limit # LowLimit
  /\ limit' = LowLimit
  /\ UNCHANGED <<heaps, bits, supers, last, cache, held, allocs, crash, at>>

Freed(t) ==
  IF Len(at[t].freed) <= 1 THEN Idle ELSE [Idle EXCEPT !.pc = "clear", !.freed = Tail(at[t].freed)]

\* bitmap_clear_bit of the continuation, then of its bitmap in the supermap.
Clear(t) ==
  LET c == Head(at[t].freed)
      b == c[1]
      left == bits[b] \ {c[2]}
      corrupt == bits[b] = Null \/ c[2] \notin bits[b]
  IN /\ at[t].pc = "clear"
     /\ crash' = IF corrupt THEN "Corruption: failed to clear bit exclusively" ELSE crash
     /\ bits' = IF corrupt THEN bits ELSE [bits EXCEPT ![b] = left]
     /\ Goto(t, IF corrupt \/ InFirstPage(b) THEN Freed(t)
                ELSE [at[t] EXCEPT !.pc = "unmark", !.map = b, !.n = IF left = {} THEN 1 ELSE 0])
     /\ UNCHANGED <<heaps, supers, last, limit, cache, held, allocs>>

Unmark(t) ==
  LET b == at[t].map
  IN /\ at[t].pc = "unmark"
     /\ supers' = [supers EXCEPT ![<<b[1], b[2], Super(b)>>] = @ \ {(b[3] - 1) % PerSuper}]
     /\ Goto(t, IF at[t].n = 0 THEN Freed(t)
                ELSE [at[t] EXCEPT !.pc = "probe", !.map = PageOf(b)])
     /\ UNCHANGED <<heaps, bits, last, limit, cache, held, allocs, crash>>

\* _dispatch_alloc_maybe_madvise_page: looks at all the bitmaps of the page, locks them
\* one by one if they are empty, and unlocks as many as it has locked.
Probe(t) ==
  LET b == PageMaps(at[t].map)[at[t].n]
      next == [at[t] EXCEPT !.n = @ + 1]
  IN /\ at[t].pc = "probe"
     /\ Goto(t, IF bits[b] # {} THEN Freed(t)
                ELSE IF at[t].n < PerPage THEN next ELSE [next EXCEPT !.pc = "lock", !.n = 1])
     /\ UNCHANGED <<heaps, bits, supers, last, limit, cache, held, allocs, crash>>

Lock(t) ==
  LET b == PageMaps(at[t].map)[at[t].n]
      free == bits[b] = {}
  IN /\ at[t].pc = "lock"
     /\ bits' = IF free THEN [bits EXCEPT ![b] = Null] ELSE bits
     /\ Goto(t, IF ~free THEN [at[t] EXCEPT !.pc = "unlock", !.n = @ - 1]
                ELSE IF at[t].n < PerPage THEN [at[t] EXCEPT !.n = @ + 1]
                ELSE [at[t] EXCEPT !.pc = "madvise"])
     /\ UNCHANGED <<heaps, supers, last, limit, cache, held, allocs, crash>>

Madvise(t) ==
  LET lost == {c \in held : ~InFirstPage(c[1]) /\ PageOf(c[1]) = at[t].map}
  IN /\ at[t].pc = "madvise"
     /\ crash' = IF lost # {} THEN "A continuation in use is given back" ELSE crash
     /\ Goto(t, [at[t] EXCEPT !.pc = "unlock"])
     /\ UNCHANGED <<heaps, bits, supers, last, limit, cache, held, allocs>>

\* Faulty variant: unlocks all the bitmaps of the page, also those it did not lock.
UnlockAll(t) ==
  LET b == PageMaps(at[t].map)[PerPage]
  IN /\ at[t].pc = "unlock"
     /\ bits' = [m \in Bitmaps |-> IF \E i \in 1..PerPage : m = PageMaps(at[t].map)[i] THEN {} ELSE bits[m]]
     /\ Goto(t, Freed(t))
     /\ UNCHANGED <<heaps, supers, last, limit, cache, held, allocs, crash>>

\* The last one it locked first.
Unlock(t) ==
  LET b == PageMaps(at[t].map)[at[t].n]
  IN /\ at[t].pc = "unlock"
     /\ IF at[t].n = 0 THEN UNCHANGED bits /\ Goto(t, Freed(t))
        ELSE bits' = [bits EXCEPT ![b] = {}] /\ Goto(t, [at[t] EXCEPT !.n = @ - 1])
     /\ UNCHANGED <<heaps, supers, last, limit, cache, held, allocs, crash>>

-----------------------------------------------------------------------------
AllocNext ==
  /\ crash = "no"
  /\ \/ Pressure
     \/ \E t \in Threads :
          \/ Alloc(t) \/ AllocLast(t) \/ Create(t) \/ AllocFirst(t) \/ AllocScan(t) \/ Mark(t)
          \/ Cleanup(t) \/ Clear(t) \/ Unmark(t) \/ Probe(t) \/ Lock(t) \/ Madvise(t) \/ Unlock(t)
          \/ \E c \in held : Free(t, c)

AllocSpec == AllocInit /\ [][AllocNext]_allocVars

-----------------------------------------------------------------------------
(* Properties                                                               *)

\* The continuations that a thread has taken and not given back yet.
InHands == held \cup UNION {{cache[t][i] : i \in DOMAIN cache[t]} : t \in Threads}
           \cup UNION {{at[t].freed[i] : i \in DOMAIN at[t].freed} : t \in Threads}

\* No continuation is given out twice, none that is in use is given back to the
\* kernel or loses its bit, and none is in two places; what nobody has is free, or
\* locked by the thread that gives its page back.
AllocatorIsSound ==
  /\ crash = "no"
  /\ \A t, u \in Threads : t # u =>
       \A i \in DOMAIN cache[t] : cache[t][i] \notin held /\ \A j \in DOMAIN cache[u] : cache[t][i] # cache[u][j]
  /\ \A b \in Bitmaps :
       IF bits[b] = Null
         THEN Cardinality({t \in Threads : at[t].pc \in {"lock", "madvise", "unlock"}
                             /\ at[t].map = PageOf(b)}) >= 1
         ELSE \A i \in All : <<b, i>> \in held => i \in bits[b]
  /\ (\A t \in Threads : at[t].pc = "idle") =>
       \A b \in Bitmaps : bits[b] = {i \in All : <<b, i>> \in InHands}

\* A bitmap that is marked in the supermap, so that a search skips it, is full when no
\* thread is at work.
SkippedMapsAreFull ==
  (\A t \in Threads : at[t].pc = "idle") =>
    \A s \in DOMAIN supers : \A i \in supers[s] : Full(<<s[1], s[2], s[3] * PerSuper + i + 1>>)
=============================================================================
