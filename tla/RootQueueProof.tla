--------------------------- MODULE RootQueueProof ---------------------------
(***************************************************************************)
(* The invariant of RootQueue: its counts (RootQueueCounts), the shape of  *)
(* its list, and that somebody sees to the items as long as no poke slips. *)
(***************************************************************************)
EXTENDS RootQueueCounts

----------------------------------------------------------------------------
(* The shape of the list *)

Pops(w) == pc[w] \in PopPCs
Links(p) == pc[p] = "push_link"

Popped == \E w \in Workers : Pops(w)

\* The list as its links show it: the item that a worker is taking off is still in
\* front.
Chains ==
  IF Popped THEN {<<held[w]>> \o fifo : w \in {v \in Workers : Pops(v)}} ELSE {fifo}

\* The link from i to j is there, or the producer that owes it is.
LinkedTo(i, j) ==
  \/ do_next[i] = j
  \/ do_next[i] = Nil /\ \E p \in Producers :
                           Links(p) /\ prev[p] = i /\ batch[p][1] = j

\* Each item has been pushed once, and only popped ones are held.
ItemsAreOnce(c) ==
  /\ IsInjective(c)
  /\ \A v, w \in Workers : Pops(v) /\ Pops(w) => v = w
  /\ \A v, w \in Workers : held[v] = held[w] /\ v # w => held[v] = Nil
  /\ \A w \in Workers : held[w] # Nil /\ ~Pops(w) => held[w] \notin Range(c)
  /\ \A w \in Workers : held[w] # Nil => held[w].push <= pushes[held[w].by]
  /\ \A i \in Range(c) : i.push <= pushes[i.by]
  /\ \A i \in Items : i.push > pushes[i.by] => do_next[i] = Nil

LinksAreWhole(c) ==
  /\ dq_items_tail = IF c = <<>> THEN Nil ELSE c[Len(c)]
  /\ c # <<>> => do_next[c[Len(c)]] = Nil
  /\ \A n \in 1 .. Len(c) - 1 : LinkedTo(c[n], c[n + 1])
  /\ \A p \in Producers : Links(p) /\ prev[p] # Nil =>
       \E n \in 1 .. Len(c) - 1 :
         prev[p] = c[n] /\ batch[p][1] = c[n + 1] /\ do_next[c[n]] = Nil

\* The list is in the head, or held by a worker, or about to be put in the head by
\* the producer that found it empty.
HeadHasKeeper(c) ==
  /\ \A p \in Producers : Links(p) /\ prev[p] = Nil =>
       c # <<>> /\ batch[p][1] = c[1] /\ dq_items_head \notin Items /\ ~Popped
  /\ dq_items_head \in Items => c # <<>> /\ dq_items_head = c[1] /\ ~Popped
  /\ c # <<>> /\ ~Popped =>
       \/ dq_items_head = c[1]
       \/ \E p \in Producers : Links(p) /\ prev[p] = Nil

ListHasShape(c) == ItemsAreOnce(c) /\ LinksAreWhole(c) /\ HeadHasKeeper(c)

Shape == \E c \in Chains : ListHasShape(c)

----------------------------------------------------------------------------
(* Who sees to the items *)

\* A worker that will pop an item, or see the list empty, or poke.
Drains(w) ==
  \/ pc[w] \in PopPCs \cup {"drain", "restore", "look", "gone", "quiesced",
                            "quiesced_tail", "mark_gone", "mark_quiesced", "exit"}
  \/ pc[w] = "out" /\ status[w] # "abort"

\* An actor that will poke and has not been refused yet.
Asks(a) == pc[a] \in {"poke", "poke_pending", "poke_request", "poke_signal"}

\* A worker of the pool that will look for a permit.
Parks(w) == pc[w] \notin {"none", "asleep", "exit"} /\ ~Exiting(w)

\* An actor that is taking threads from the pool.  An overcommit queue does not
\* excuse one that will find out late that the pool has grown.
Takes(a) ==
  \/ pc[a] \in {"poke_reserve", "poke_add", "poke_count"}
  \/ /\ pc[a] = "poke_take"
     /\ Overcommit => Available(a) > 0 \/ dgq_thread_pool_size <= t_count[a]

Sees(a) ==
  \/ a \in Producers /\ Links(a) /\ prev[a] = Nil
  \/ a \in Workers /\ Drains(a)
  \/ Asks(a)
  \/ permits > 0 /\ (Takes(a) \/ (a \in Workers /\ Parks(a)))

SeenTo == requests > 0 \/ \E a \in Actors : Sees(a)

Served == fifo # <<>> /\ (slipped => Overcommit) => SeenTo

IInv == Core /\ Shape /\ Served

----------------------------------------------------------------------------
(* The list *)

LEMMA ConsFacts ==
  ASSUME NEW S, NEW x \in S, NEW t \in Seq(S), NEW c, c = <<x>> \o t
  PROVE  /\ c \in Seq(S) /\ Len(c) = Len(t) + 1 /\ Len(t) \in Nat /\ c # <<>>
         /\ c[1] = x
         /\ \A i \in 1 .. Len(t) : c[i + 1] = t[i]
<1>1. <<x>> \in Seq(S) /\ Len(<<x>>) = 1 /\ <<x>>[1] = x
  OBVIOUS
<1>2. Len(t) \in Nat /\ DOMAIN t = 1 .. Len(t)
  BY LenProperties
<1>3. /\ c \in Seq(S) /\ Len(c) = Len(t) + 1
      /\ \A i \in 1 .. Len(t) + 1 : c[i] = IF i <= 1 THEN <<x>>[i] ELSE t[i - 1]
  BY <1>1, <1>2, ConcatProperties
<1>4. c[1] = x /\ \A i \in 1 .. Len(t) : c[i + 1] = t[i]
  BY <1>1, <1>2, <1>3
<1>5. c # <<>>
  BY <1>2, <1>3, EmptySeq
<1> QED BY <1>2, <1>3, <1>4, <1>5

LEMMA ConsRange ==
  ASSUME NEW S, NEW t \in Seq(S), NEW c \in Seq(S), Len(c) = Len(t) + 1,
         \A i \in 1 .. Len(t) : c[i + 1] = t[i]
  PROVE  /\ Range(t) \subseteq Range(c) /\ c[1] \in Range(c)
         /\ IsInjective(c) => IsInjective(t) /\ c[1] \notin Range(t)
<1>1. Len(t) \in Nat /\ DOMAIN t = 1 .. Len(t) /\ DOMAIN c = 1 .. Len(t) + 1
  BY LenProperties
<1>2. 1 \in DOMAIN c /\ \A i \in 1 .. Len(t) : i + 1 \in DOMAIN c
  BY <1>1
<1>3. Range(t) \subseteq Range(c)
  BY <1>1, <1>2 DEF Range
<1>4. c[1] \in Range(c)
  BY <1>2 DEF Range
<1>5. ASSUME IsInjective(c) PROVE IsInjective(t) /\ c[1] \notin Range(t)
  <2>1. ASSUME NEW i \in 1 .. Len(t), NEW j \in 1 .. Len(t), t[i] = t[j]
        PROVE  i = j
    <3>1. c[i + 1] = c[j + 1]
      BY <2>1
    <3>2. i + 1 = j + 1
      BY <1>2, <1>5, <3>1 DEF IsInjective
    <3> QED BY <1>1, <3>2
  <2>2. ASSUME NEW i \in 1 .. Len(t), t[i] = c[1]
        PROVE  FALSE
    <3>1. c[i + 1] = c[1]
      BY <2>2
    <3>2. i + 1 = 1
      BY <1>2, <1>5, <3>1 DEF IsInjective
    <3> QED BY <1>1, <3>2
  <2> QED BY <1>1, <2>1, <2>2 DEF IsInjective, Range
<1> QED BY <1>3, <1>4, <1>5

LEMMA SeqFacts ==
  ASSUME NEW S, NEW c \in Seq(S)
  PROVE  /\ Len(c) \in Nat /\ DOMAIN c = 1 .. Len(c)
         /\ c # <<>> => Len(c) > 0 /\ c[1] \in S /\ c[Len(c)] \in S
         /\ \A n \in 1 .. Len(c) : c[n] \in S /\ c[n] \in Range(c)
         /\ c = <<>> <=> Len(c) = 0
<1>1. Len(c) \in Nat /\ DOMAIN c = 1 .. Len(c) /\ \A n \in 1 .. Len(c) : c[n] \in S
  BY LenProperties, ElementOfSeq
<1>2. c = <<>> <=> Len(c) = 0
  BY EmptySeq
<1>3. \A n \in 1 .. Len(c) : c[n] \in Range(c)
  BY <1>1 DEF Range
<1> QED BY <1>1, <1>2, <1>3

LEMMA ChainFacts ==
  ASSUME Core, NEW c \in Chains, ListHasShape(c)
  PROVE  /\ c \in Seq(Items)
         /\ fifo \in Seq(Items)
         /\ ~Popped => c = fifo
         /\ \A w \in Workers : Pops(w) => held[w] \in Items /\ c = <<held[w]>> \o fifo
         /\ fifo # <<>> => c # <<>>
         /\ dq_items_tail = Nil <=> c = <<>>
<1>1. fifo \in Seq(Items) /\ held \in [Workers -> Items \cup {Nil}]
  BY Parts DEF PartsTyped, HistoryTyped, DrainingTyped
<1>2. \A w \in Workers : Pops(w) => held[w] \in Items
  BY <1>1, Parts DEF ControlOf, Holds, Pops, Actors
<1>3. ~Popped => c = fifo
  BY DEF Chains
<1>4. \A w \in Workers : Pops(w) => c = <<held[w]>> \o fifo
  <2> SUFFICES ASSUME NEW w \in Workers, Pops(w) PROVE c = <<held[w]>> \o fifo
    OBVIOUS
  <2>1. PICK v \in Workers : Pops(v) /\ c = <<held[v]>> \o fifo
    BY DEF Chains, Popped
  <2>2. v = w
    BY <2>1 DEF ListHasShape, ItemsAreOnce
  <2> QED BY <2>1, <2>2
<1>5. c \in Seq(Items) /\ (fifo # <<>> => c # <<>>)
  <2>1. CASE Popped
    <3>1. PICK w \in Workers : Pops(w)
      BY <2>1 DEF Popped
    <3>2. held[w] \in Items /\ c = <<held[w]>> \o fifo
      BY <1>2, <1>4, <3>1
    <3> DEFINE x == held[w]
    <3>3. x \in Items /\ c = <<x>> \o fifo
      BY <3>2
    <3> HIDE DEF x
    <3>4. c \in Seq(Items) /\ c # <<>>
      BY <1>1, <3>3, ConsFacts
    <3> QED BY <3>4
  <2> QED BY <1>1, <1>3, <2>1
<1>6. dq_items_tail = Nil <=> c = <<>>
  BY <1>5, SeqFacts, MarkersAssumption DEF ListHasShape, LinksAreWhole
<1> QED BY <1>1, <1>2, <1>3, <1>4, <1>5, <1>6

\* The shape depends on who pops, who links and on their locals.
LEMMA ShapeKept ==
  ASSUME Core, Shape,
         UNCHANGED <<dq_items_tail, do_next, fifo, held, pushes, batch, prev>>,
         \A p \in Producers : Links(p)' <=> Links(p),
         \A w \in Workers : Pops(w)' <=> Pops(w),
         \/ dq_items_head' = dq_items_head
         \/ dq_items_head \notin Items /\ dq_items_head' \notin Items
  PROVE  Shape'
<1>1. PICK c \in Chains : ListHasShape(c)
  BY DEF Shape
<1>2. c \in Seq(Items) /\ (c # <<>> => c[1] \in Items)
  BY <1>1, ChainFacts, SeqFacts
<1>3. Popped' <=> Popped
  BY DEF Popped
<1>4. c \in Chains'
  <2>1. {v \in Workers : Pops(v)}' = {v \in Workers : Pops(v)}
    BY DEF Pops
  <2> QED BY <1>3, <2>1 DEF Chains
<1>5. ItemsAreOnce(c)'
  BY <1>1 DEF ListHasShape, ItemsAreOnce
<1>6. LinksAreWhole(c)'
  <2>1. \A i, j : LinkedTo(i, j) => LinkedTo(i, j)'
    BY DEF LinkedTo
  <2> QED BY <1>1, <2>1 DEF ListHasShape, LinksAreWhole
<1>7. HeadHasKeeper(c)'
  BY <1>1, <1>2, <1>3 DEF ListHasShape, HeadHasKeeper
<1> QED BY <1>4, <1>5, <1>6, <1>7 DEF Shape, ListHasShape

LEMMA ShapeAlone ==
  ASSUME Core, Shape, NEW a \in Actors, OnlyOf(a),
         UNCHANGED <<dq_items_tail, do_next, fifo, held, pushes, batch, prev>>,
         pc[a] \in PopPCs <=> pc'[a] \in PopPCs,
         pc[a] = "push_link" <=> pc'[a] = "push_link",
         \/ dq_items_head' = dq_items_head
         \/ dq_items_head \notin Items /\ dq_items_head' \notin Items
  PROVE  Shape'
<1>1. \A p \in Producers : Links(p)' <=> Links(p)
  BY DEF OnlyOf, Links, Actors
<1>2. \A w \in Workers : Pops(w)' <=> Pops(w)
  BY DEF OnlyOf, Pops, Actors
<1> QED BY <1>1, <1>2, ShapeKept

LEMMA HeadFacts ==
  ASSUME Core, Shape
  PROVE  /\ dq_items_head \in Items =>
              fifo # <<>> /\ dq_items_head = fifo[1] /\ ~Popped
         /\ Popped => dq_items_head \notin Items
         /\ dq_items_tail = Nil => fifo = <<>>
         /\ \A v, w \in Workers : Pops(v) /\ Pops(w) => v = w
         /\ \A v, w \in Workers : held[v] = held[w] /\ v # w => held[v] = Nil
<1>1. PICK c \in Chains : ListHasShape(c)
  BY DEF Shape
<1>2. /\ ~Popped => c = fifo
      /\ fifo # <<>> => c # <<>>
      /\ dq_items_tail = Nil <=> c = <<>>
  BY <1>1, ChainFacts
<1>3. dq_items_head \in Items => c # <<>> /\ dq_items_head = c[1] /\ ~Popped
  BY <1>1 DEF ListHasShape, HeadHasKeeper
<1>4. /\ \A v, w \in Workers : Pops(v) /\ Pops(w) => v = w
      /\ \A v, w \in Workers : held[v] = held[w] /\ v # w => held[v] = Nil
  BY <1>1 DEF ListHasShape, ItemsAreOnce
<1> QED BY <1>2, <1>3, <1>4

LEMMA DrainShape ==
  ASSUME Core, Shape, NEW w \in Workers, Drain(w), dq' = dq
  PROVE  Shape'
<1>0. w \in Actors /\ TypeOK /\ PartsTyped
  BY Parts DEF Actors
<1>1. Core' /\ OnlyOf(w)
  BY HeadFacts, DrainCore
<1>2. pc[w] = "drain" /\ dq_items_head' = Mediator
  BY DEF Drain, HeadExchanged
<1>3. UNCHANGED <<dq_items_tail, do_next, pushes, batch, prev>>
  BY DEF Drain, producing
<1>4. CASE dq_items_head \notin Items
  <2>1. UNCHANGED <<held, fifo>> /\ (Goto(w, "restore") \/ Goto(w, "gone"))
    BY <1>4 DEF Drain
  <2>2. pc'[w] = "restore" \/ pc'[w] = "gone"
    BY <1>0, <2>1 DEF Goto, TypeOK, ControlTyped
  <2> QED BY <1>0, <1>1, <1>2, <1>3, <1>4, <2>1, <2>2, ShapeAlone, MarkersAssumption DEF PopPCs
<1>5. CASE dq_items_head \in Items
  <2>1. PICK c \in Chains : ListHasShape(c)
    BY DEF Shape
  <2>2. c \in Seq(Items) /\ c = fifo /\ fifo # <<>> /\ dq_items_head = c[1] /\ ~Popped
    BY <1>5, <2>1, ChainFacts, HeadFacts
  <2>3. c[1] \in Items /\ c[1] \in Range(c)
    BY <2>2, SeqFacts
  <2>4. /\ held' = [held EXCEPT ![w] = c[1]] /\ fifo' = Tail(c) /\ Goto(w, "next")
    BY <1>5, <2>2, MarkersAssumption DEF Drain
  <2>5. pc'[w] = "next" /\ held'[w] = c[1] /\ \A v \in Workers \ {w} : held'[v] = held[v]
    BY <1>0, <2>4 DEF Goto, TypeOK, ControlTyped, DrainingTyped
  <2>6. <<c[1]>> \o Tail(c) = c
    BY <2>2
  <2>7. Pops(w)' /\ Popped' /\ \A v \in Workers \ {w} : ~Pops(v)' /\ ~Pops(v)
    BY <1>1, <2>2, <2>5 DEF Pops, PopPCs, Popped, OnlyOf, Actors
  <2>8. c \in Chains'
    BY <2>4, <2>5, <2>6, <2>7 DEF Chains
  <2>9. \A p \in Producers : Links(p)' <=> Links(p)
    BY <1>1, Kinds DEF Links, OnlyOf, Actors
  <2>10. \A v \in Workers \ {w} : held[v] # Nil => held[v] # c[1]
    BY <2>1, <2>3, <2>7 DEF ListHasShape, ItemsAreOnce
  <2>11. ItemsAreOnce(c)'
    <3>1. /\ IsInjective(c)
          /\ \A u, v \in Workers : Pops(u)' /\ Pops(v)' => u = v
      BY <2>1, <2>7 DEF ListHasShape, ItemsAreOnce
    <3>2. \A u, v \in Workers : held'[u] = held'[v] /\ u # v => held'[u] = Nil
      BY <2>1, <2>5, <2>10 DEF ListHasShape, ItemsAreOnce
    <3>3. \A v \in Workers : held'[v] # Nil /\ ~Pops(v)' => held'[v] \notin Range(c)
      BY <2>1, <2>5, <2>7 DEF ListHasShape, ItemsAreOnce
    <3>4. \A v \in Workers : held'[v] # Nil => held'[v].push <= pushes'[held'[v].by]
      BY <1>3, <2>1, <2>3, <2>5 DEF ListHasShape, ItemsAreOnce
    <3>5. /\ \A i \in Range(c) : i.push <= pushes'[i.by]
          /\ \A i \in Items : i.push > pushes'[i.by] => do_next'[i] = Nil
      BY <1>3, <2>1 DEF ListHasShape, ItemsAreOnce
    <3> QED BY <3>1, <3>2, <3>3, <3>4, <3>5 DEF ItemsAreOnce
  <2>12. LinksAreWhole(c)'
    BY <1>3, <2>1, <2>9 DEF ListHasShape, LinksAreWhole, LinkedTo
  <2>13. HeadHasKeeper(c)'
    <3>1. \A p \in Producers : ~(Links(p)' /\ prev'[p] = Nil)
      BY <1>3, <1>5, <2>1, <2>9 DEF ListHasShape, HeadHasKeeper
    <3> QED BY <1>2, <2>7, <3>1, MarkersAssumption DEF HeadHasKeeper
  <2> QED BY <2>8, <2>11, <2>12, <2>13 DEF Shape, ListHasShape
<1> QED BY <1>4, <1>5

\* An item leaves the list for good.
LEMMA PoppedOnce ==
  ASSUME Core, NEW c \in Chains, ListHasShape(c), NEW w \in Workers, Pops(w),
         OnlyOf(w), pc'[w] \notin PopPCs,
         UNCHANGED <<do_next, held, pushes, batch, prev, fifo>>
  PROVE  /\ held[w] \in Items /\ fifo \in Seq(Items) /\ c \in Seq(Items)
         /\ c[1] = held[w] /\ Len(c) = Len(fifo) + 1 /\ Len(fifo) \in Nat
         /\ \A i \in 1 .. Len(fifo) : c[i + 1] = fifo[i]
         /\ ~Popped' /\ fifo \in Chains' /\ ItemsAreOnce(fifo)'
         /\ \A p \in Producers : Links(p)' <=> Links(p)
         /\ \A p \in Producers : ~(Links(p) /\ prev[p] = Nil)
         /\ dq_items_head \notin Items
<1> DEFINE x == held[w]
<1>1. x \in Items /\ fifo \in Seq(Items) /\ c \in Seq(Items) /\ c = <<x>> \o fifo
  BY ChainFacts
<1>2. /\ Len(c) = Len(fifo) + 1 /\ Len(fifo) \in Nat /\ c[1] = x
      /\ \A i \in 1 .. Len(fifo) : c[i + 1] = fifo[i]
      /\ Range(fifo) \subseteq Range(c) /\ x \in Range(c)
      /\ IsInjective(c) => IsInjective(fifo) /\ x \notin Range(fifo)
  <2> HIDE DEF x
  <2>1. x \in Items /\ fifo \in Seq(Items) /\ c = <<x>> \o fifo
    BY <1>1
  <2>2. /\ Len(c) = Len(fifo) + 1 /\ Len(fifo) \in Nat /\ c[1] = x
        /\ \A i \in 1 .. Len(fifo) : c[i + 1] = fifo[i]
    BY <2>1, ConsFacts
  <2>3. /\ Range(fifo) \subseteq Range(c) /\ c[1] \in Range(c)
        /\ IsInjective(c) => IsInjective(fifo) /\ c[1] \notin Range(fifo)
    BY <1>1, <2>2, ConsRange
  <2> QED BY <2>2, <2>3
<1>3. Popped /\ \A v \in Workers \ {w} : ~Pops(v)
  BY DEF Popped, ListHasShape, ItemsAreOnce
<1>4. ~Popped' /\ \A v \in Workers : ~Pops(v)'
  BY <1>3 DEF Pops, Popped, OnlyOf, Actors
<1>5. fifo \in Chains'
  BY <1>4 DEF Chains
<1>6. ItemsAreOnce(fifo)'
  <2>1. IsInjective(c)
    BY DEF ListHasShape, ItemsAreOnce
  <2>2. \A v \in Workers : held[v] # Nil => held[v] \notin Range(fifo)
    BY <1>2, <1>3, <2>1 DEF ListHasShape, ItemsAreOnce
  <2> QED BY <1>2, <1>4, <2>1, <2>2 DEF ListHasShape, ItemsAreOnce
<1>7. \A p \in Producers : Links(p)' <=> Links(p)
  BY Kinds DEF OnlyOf, Links, Actors
<1>8. /\ \A p \in Producers : ~(Links(p) /\ prev[p] = Nil)
      /\ dq_items_head \notin Items
  BY <1>3 DEF ListHasShape, HeadHasKeeper
<1> QED BY <1>1, <1>2, <1>4, <1>5, <1>6, <1>7, <1>8

LEMMA HandOnShape ==
  ASSUME Core, Shape, NEW w \in Workers, Pops(w), do_next[held[w]] # Nil,
         dq_items_head' = do_next[held[w]], OnlyOf(w), pc'[w] = "poke",
         UNCHANGED <<dq_items_tail, do_next, held, pushes, batch, prev, fifo>>
  PROVE  Shape'
<1>1. PICK c \in Chains : ListHasShape(c)
  BY DEF Shape
<1>2. /\ held[w] \in Items /\ fifo \in Seq(Items) /\ c \in Seq(Items)
      /\ c[1] = held[w] /\ Len(c) = Len(fifo) + 1 /\ Len(fifo) \in Nat
      /\ \A i \in 1 .. Len(fifo) : c[i + 1] = fifo[i]
      /\ ~Popped' /\ fifo \in Chains' /\ ItemsAreOnce(fifo)'
      /\ \A p \in Producers : Links(p)' <=> Links(p)
      /\ \A p \in Producers : ~(Links(p) /\ prev[p] = Nil)
  BY <1>1, PoppedOnce DEF PopPCs
<1>3. c # <<>> /\ Len(c) > 0
  BY <1>2, SeqFacts
<1>4. Len(c) # 1
  BY <1>1, <1>2, <1>3 DEF ListHasShape, LinksAreWhole
<1>5. Len(fifo) >= 1 /\ fifo # <<>> /\ c[2] = fifo[1] /\ c[Len(c)] = fifo[Len(fifo)]
  <2>1. Len(fifo) >= 1 /\ c[1 + 1] = fifo[1] /\ c[Len(fifo) + 1] = fifo[Len(fifo)]
    BY <1>2, <1>4
  <2> QED BY <1>2, <2>1, SeqFacts
<1>6. do_next[c[1]] = fifo[1]
  <2>1. LinkedTo(c[1], c[1 + 1])
    BY <1>1, <1>2, <1>5 DEF ListHasShape, LinksAreWhole
  <2> QED BY <1>2, <1>5, <2>1 DEF LinkedTo
<1>7. LinksAreWhole(fifo)'
  <2>1. /\ dq_items_tail' = fifo[Len(fifo)]
        /\ do_next'[fifo[Len(fifo)]] = Nil
    BY <1>1, <1>3, <1>5 DEF ListHasShape, LinksAreWhole
  <2>2. ASSUME NEW n \in 1 .. Len(fifo) - 1 PROVE LinkedTo(fifo[n], fifo[n + 1])'
    <3>1. /\ n + 1 \in 1 .. Len(c) - 1 /\ n \in 1 .. Len(fifo) /\ n + 1 \in 1 .. Len(fifo)
      BY <1>2
    <3>2. LinkedTo(c[n + 1], c[(n + 1) + 1])
      BY <1>1, <3>1 DEF ListHasShape, LinksAreWhole
    <3>3. c[n + 1] = fifo[n] /\ c[(n + 1) + 1] = fifo[n + 1]
      BY <1>2, <3>1
    <3> QED BY <1>2, <3>2, <3>3 DEF LinkedTo
  <2>3. ASSUME NEW p \in Producers, Links(p)', prev'[p] # Nil
        PROVE  \E n \in 1 .. Len(fifo) - 1 :
                 prev'[p] = fifo[n] /\ batch'[p][1] = fifo[n + 1] /\ do_next'[fifo[n]] = Nil
    <3>1. PICK n \in 1 .. Len(c) - 1 :
            prev[p] = c[n] /\ batch[p][1] = c[n + 1] /\ do_next[c[n]] = Nil
      BY <1>1, <1>2, <2>3 DEF ListHasShape, LinksAreWhole
    <3>2. n # 1
      BY <1>2, <3>1
    <3>3. /\ n - 1 \in 1 .. Len(fifo) - 1 /\ n - 1 \in 1 .. Len(fifo) /\ n \in 1 .. Len(fifo)
          /\ (n - 1) + 1 = n
      BY <1>2, <3>2
    <3>4. c[n] = fifo[n - 1] /\ c[n + 1] = fifo[n]
      BY <1>2, <3>3
    <3> QED BY <3>1, <3>3, <3>4
  <2> QED BY <1>5, <2>1, <2>2, <2>3 DEF LinksAreWhole
<1>8. HeadHasKeeper(fifo)'
  BY <1>2, <1>5, <1>6 DEF HeadHasKeeper
<1> QED BY <1>2, <1>7, <1>8 DEF Shape, ListHasShape

LEMMA LastShape ==
  ASSUME Core, Shape, NEW w \in Workers, Pops(w), dq_items_tail = held[w],
         dq_items_tail' = Nil, OnlyOf(w), pc'[w] = "run",
         UNCHANGED <<dq_items_head, do_next, held, pushes, batch, prev, fifo>>
  PROVE  Shape' /\ fifo = <<>>
<1>1. PICK c \in Chains : ListHasShape(c)
  BY DEF Shape
<1>2. /\ held[w] \in Items /\ fifo \in Seq(Items) /\ c \in Seq(Items)
      /\ c[1] = held[w] /\ Len(c) = Len(fifo) + 1 /\ Len(fifo) \in Nat
      /\ ~Popped' /\ fifo \in Chains' /\ ItemsAreOnce(fifo)'
      /\ \A p \in Producers : Links(p)' <=> Links(p)
      /\ \A p \in Producers : ~(Links(p) /\ prev[p] = Nil)
      /\ dq_items_head \notin Items
  BY <1>1, PoppedOnce DEF PopPCs
<1>3. c # <<>> /\ Len(c) \in DOMAIN c /\ 1 \in DOMAIN c
  BY <1>2, SeqFacts
<1>4. Len(c) = 1
  BY <1>1, <1>2, <1>3 DEF ListHasShape, LinksAreWhole, ItemsAreOnce, IsInjective
<1>5. fifo = <<>>
  BY <1>2, <1>4, SeqFacts
<1>6. LinksAreWhole(fifo)'
  <2>1. \A p \in Producers : ~(Links(p) /\ prev[p] # Nil)
    BY <1>1, <1>4 DEF ListHasShape, LinksAreWhole
  <2> QED BY <1>2, <1>5, <2>1 DEF LinksAreWhole
<1>7. HeadHasKeeper(fifo)'
  BY <1>2, <1>5 DEF HeadHasKeeper
<1> QED BY <1>2, <1>5, <1>6, <1>7 DEF Shape, ListHasShape

LEMMA LinkFacts ==
  ASSUME Core, NEW p \in Producers, Links(p)
  PROVE  batch[p][1].by = p
<1>1. p \in Actors /\ ControlOf(p)
  BY Parts DEF Actors
<1> QED BY <1>1 DEF ControlOf, Links

LEMMA RunShape ==
  ASSUME Core, Shape, NEW w \in Workers, Run(w), dq' = dq
  PROVE  Shape'
<1>0. w \in Actors /\ TypeOK /\ pc[w] = "run"
  BY Parts DEF Actors, Run
<1>1. /\ OnlyOf(w) /\ pc'[w] \in {"drain", "done"}
      /\ held[w] \in Items /\ held'[w] = Nil
  BY RunCore
<1>2. PICK c \in Chains : ListHasShape(c)
  BY DEF Shape
<1>3. UNCHANGED <<dq_items_head, dq_items_tail, fifo, pushes, batch, prev>>
  BY DEF Run, producing
<1>4. do_next'[held[w]] = Nil /\ \A i \in Items : i # held[w] => do_next'[i] = do_next[i]
  BY <1>0, <1>1 DEF Run, TypeOK, ListTyped
<1>5. \A v \in Workers \ {w} : held'[v] = held[v]
  BY <1>1 DEF OnlyOf
<1>6. \A p \in Producers : Links(p)' <=> Links(p)
  BY <1>1, Kinds DEF OnlyOf, Links, Actors
<1>7. ~Pops(w) /\ ~Pops(w)' /\ \A v \in Workers : Pops(v)' <=> Pops(v)
  BY <1>0, <1>1 DEF OnlyOf, Pops, PopPCs, Actors
<1>8. Popped' <=> Popped
  BY <1>7 DEF Popped
<1>9. c \in Chains'
  <2>1. CASE Popped
    <3>1. PICK v \in Workers : Pops(v) /\ c = <<held[v]>> \o fifo
      BY <2>1, <1>2 DEF Chains
    <3>2. Pops(v)' /\ c = <<held'[v]>> \o fifo'
      BY <3>1, <1>3, <1>5, <1>7
    <3> QED BY <1>8, <2>1, <3>2 DEF Chains
  <2>2. CASE ~Popped
    BY <1>2, <1>3, <1>8, <2>2 DEF Chains
  <2> QED BY <2>1, <2>2
<1>10. held[w] \notin Range(c)
  BY <1>1, <1>2, <1>7, MarkersAssumption DEF ListHasShape, ItemsAreOnce
<1>11. c \in Seq(Items)
  BY <1>2, ChainFacts
<1>12. \A n \in 1 .. Len(c) : do_next'[c[n]] = do_next[c[n]]
  BY <1>4, <1>10, <1>11, SeqFacts
<1>13. ItemsAreOnce(c)'
  <2>1. /\ IsInjective(c) /\ \A u, v \in Workers : Pops(u)' /\ Pops(v)' => u = v
        /\ \A i \in Range(c) : i.push <= pushes'[i.by]
    BY <1>2, <1>3, <1>7 DEF ListHasShape, ItemsAreOnce
  <2>2. \A u, v \in Workers : held'[u] = held'[v] /\ u # v => held'[u] = Nil
    BY <1>1, <1>2, <1>5 DEF ListHasShape, ItemsAreOnce
  <2>3. \A v \in Workers : held'[v] # Nil =>
          (~Pops(v)' => held'[v] \notin Range(c)) /\ held'[v].push <= pushes'[held'[v].by]
    BY <1>1, <1>2, <1>3, <1>5, <1>7 DEF ListHasShape, ItemsAreOnce
  <2>4. \A i \in Items : i.push > pushes'[i.by] => do_next'[i] = Nil
    BY <1>2, <1>3, <1>4 DEF ListHasShape, ItemsAreOnce
  <2> QED BY <2>1, <2>2, <2>3, <2>4 DEF ItemsAreOnce
<1>14. LinksAreWhole(c)'
  <2>1. c # <<>> => do_next'[c[Len(c)]] = Nil
    BY <1>2, <1>11, <1>12, SeqFacts DEF ListHasShape, LinksAreWhole
  <2>2. ASSUME NEW n \in 1 .. Len(c) - 1 PROVE LinkedTo(c[n], c[n + 1])'
    <3>1. do_next'[c[n]] = do_next[c[n]]
      BY <1>11, <1>12, SeqFacts
    <3>2. LinkedTo(c[n], c[n + 1])
      BY <1>2 DEF ListHasShape, LinksAreWhole
    <3> QED BY <1>3, <1>6, <3>1, <3>2 DEF LinkedTo
  <2>3. ASSUME NEW p \in Producers, Links(p)', prev'[p] # Nil
        PROVE  \E n \in 1 .. Len(c) - 1 :
                 prev'[p] = c[n] /\ batch'[p][1] = c[n + 1] /\ do_next'[c[n]] = Nil
    <3>1. PICK n \in 1 .. Len(c) - 1 :
            prev[p] = c[n] /\ batch[p][1] = c[n + 1] /\ do_next[c[n]] = Nil
      BY <1>2, <1>3, <1>6, <2>3 DEF ListHasShape, LinksAreWhole
    <3>2. n \in 1 .. Len(c)
      BY <1>11, SeqFacts
    <3> QED BY <1>3, <1>12, <3>1, <3>2
  <2> QED BY <1>2, <1>3, <2>1, <2>2, <2>3 DEF ListHasShape, LinksAreWhole
<1>15. HeadHasKeeper(c)'
  BY <1>2, <1>3, <1>6, <1>8 DEF ListHasShape, HeadHasKeeper
<1> QED BY <1>9, <1>13, <1>14, <1>15 DEF Shape, ListHasShape

\* A list that was empty gets its head.
LEMMA NewHeadShape ==
  ASSUME Core, Shape, NEW p \in Producers, PushLink(p), dq' = dq, prev[p] = Nil
  PROVE  Shape'
<1>0. p \in Actors /\ TypeOK /\ pc[p] = "push_link" /\ ControlOf(p)
  BY Parts DEF Actors, PushLink
<1>1. OnlyOf(p) /\ pc'[p] = "poke"
  BY PushLinkCore
<1>2. PICK c \in Chains : ListHasShape(c)
  BY DEF Shape
<1>3. /\ UNCHANGED <<dq_items_tail, do_next, held, fifo, pushes>>
      /\ dq_items_head' = batch[p][1]
  BY DEF PushLink, history
<1>4. ~Links(p)' /\ Links(p) /\ \A q \in Producers \ {p} : Links(q)' <=> Links(q)
  BY <1>0, <1>1 DEF OnlyOf, Links, Actors
<1>5. \A q \in Producers \ {p} : batch'[q] = batch[q] /\ prev'[q] = prev[q]
  BY <1>1 DEF OnlyOf
<1>6. /\ c # <<>> /\ batch[p][1] = c[1] /\ ~Popped
      /\ \A q \in Producers : Links(q) /\ prev[q] = Nil => batch[q][1] = c[1]
  BY <1>2, <1>4 DEF ListHasShape, HeadHasKeeper
<1>7. \A q \in Producers : Links(q) /\ prev[q] = Nil => q = p
  <2>1. \A q \in Producers : Links(q) => batch[q][1].by = q
    BY LinkFacts
  <2> QED BY <1>4, <1>6, <2>1
<1>8. \A v \in Workers : Pops(v)' <=> Pops(v)
  BY <1>1, Kinds DEF OnlyOf, Pops, Actors
<1>9. ~Popped' /\ c \in Chains'
  BY <1>2, <1>3, <1>6, <1>8 DEF Popped, Chains
<1>10. ItemsAreOnce(c)'
  BY <1>2, <1>3, <1>8 DEF ListHasShape, ItemsAreOnce
<1>11. c \in Seq(Items)
  BY <1>2, ChainFacts
<1>12. LinksAreWhole(c)'
  <2>1. ASSUME NEW n \in 1 .. Len(c) - 1 PROVE LinkedTo(c[n], c[n + 1])'
    <3>1. c[n] # Nil
      BY <1>11, SeqFacts, MarkersAssumption
    <3>2. LinkedTo(c[n], c[n + 1])
      BY <1>2 DEF ListHasShape, LinksAreWhole
    <3> QED BY <1>3, <1>4, <1>5, <3>1, <3>2 DEF LinkedTo
  <2> QED BY <1>2, <1>3, <1>4, <1>5, <2>1 DEF ListHasShape, LinksAreWhole
<1>13. HeadHasKeeper(c)'
  BY <1>3, <1>4, <1>5, <1>6, <1>7, <1>9 DEF HeadHasKeeper
<1> QED BY <1>9, <1>10, <1>12, <1>13 DEF Shape, ListHasShape

\* The link that a producer owes.
LEMMA NewLinkShape ==
  ASSUME Core, Shape, NEW p \in Producers, PushLink(p), dq' = dq, prev[p] # Nil
  PROVE  Shape'
<1>0. p \in Actors /\ TypeOK /\ pc[p] = "push_link"
  BY Parts DEF Actors, PushLink
<1>1. OnlyOf(p) /\ pc'[p] = "idle"
  BY PushLinkCore
<1>2. PICK c \in Chains : ListHasShape(c)
  BY DEF Shape
<1>3. /\ UNCHANGED <<dq_items_head, dq_items_tail, held, fifo, pushes>>
      /\ do_next' = [do_next EXCEPT ![prev[p]] = batch[p][1]]
  BY DEF PushLink, history
<1>4. ~Links(p)' /\ Links(p) /\ \A q \in Producers \ {p} : Links(q)' <=> Links(q)
  BY <1>0, <1>1 DEF OnlyOf, Links, Actors
<1>5. \A q \in Producers \ {p} : batch'[q] = batch[q] /\ prev'[q] = prev[q]
  BY <1>1 DEF OnlyOf
<1>6. PICK k \in 1 .. Len(c) - 1 :
        prev[p] = c[k] /\ batch[p][1] = c[k + 1] /\ do_next[c[k]] = Nil
  BY <1>2, <1>4 DEF ListHasShape, LinksAreWhole
<1>7. c \in Seq(Items) /\ IsInjective(c)
  BY <1>2, ChainFacts DEF ListHasShape, ItemsAreOnce
<1>8. /\ Len(c) \in Nat /\ DOMAIN c = 1 .. Len(c) /\ k \in 1 .. Len(c) /\ k # Len(c)
      /\ \A n \in 1 .. Len(c) : c[n] \in Items /\ c[n] \in Range(c)
  BY <1>7, SeqFacts
<1>9. \A n \in 1 .. Len(c) : n # k => c[n] # c[k]
  BY <1>7, <1>8 DEF IsInjective
<1>10. do_next'[c[k]] = c[k + 1] /\ \A i \in Items : i # c[k] => do_next'[i] = do_next[i]
  BY <1>0, <1>3, <1>6, <1>8 DEF TypeOK, ListTyped
<1>11. \A v \in Workers : Pops(v)' <=> Pops(v)
  BY <1>1, Kinds DEF OnlyOf, Pops, Actors
<1>12. {v \in Workers : Pops(v)}' = {v \in Workers : Pops(v)} /\ (Popped' <=> Popped)
  BY <1>11 DEF Popped, Pops
<1>13. c \in Chains'
  BY <1>2, <1>3, <1>12 DEF Chains
<1>14. ItemsAreOnce(c)'
  <2>1. \A i \in Items : i.push > pushes[i.by] => i # c[k]
    <3>1. c[k] \in Range(c) /\ c[k] \in Items
      BY <1>8
    <3>2. c[k].push <= pushes[c[k].by]
      BY <1>2, <3>1 DEF ListHasShape, ItemsAreOnce
    <3>3. c[k].push \in Nat /\ pushes[c[k].by] \in Nat
      BY <1>0, <3>1, RootQueueAssumption DEF Items, TypeOK, ProducingTyped
    <3> QED BY <3>2, <3>3
  <2>2. \A i \in Items : i.push > pushes'[i.by] => do_next'[i] = Nil
    BY <1>2, <1>3, <1>10, <2>1 DEF ListHasShape, ItemsAreOnce
  <2> QED BY <1>2, <1>3, <1>11, <2>2 DEF ListHasShape, ItemsAreOnce
<1>15. LinksAreWhole(c)'
  <2>1. ASSUME c # <<>> PROVE do_next'[c[Len(c)]] = Nil
    <3>1. Len(c) \in 1 .. Len(c)
      <4>1. Len(c) \in Nat /\ Len(c) > 0
        BY <1>7, <2>1, SeqFacts
      <4> QED BY <4>1
    <3>2. c[Len(c)] \in Items /\ c[Len(c)] # c[k]
      BY <1>8, <1>9, <3>1
    <3>3. do_next[c[Len(c)]] = Nil
      BY <1>2, <2>1 DEF ListHasShape, LinksAreWhole
    <3> QED BY <1>10, <3>2, <3>3
  <2>2. ASSUME NEW n \in 1 .. Len(c) - 1 PROVE LinkedTo(c[n], c[n + 1])'
    <3>1. CASE n = k
      BY <1>10, <3>1 DEF LinkedTo
    <3>2. CASE n # k
      <4>1. do_next'[c[n]] = do_next[c[n]] /\ c[n] # c[k]
        BY <1>8, <1>9, <1>10, <3>2
      <4>2. LinkedTo(c[n], c[n + 1])
        BY <1>2 DEF ListHasShape, LinksAreWhole
      <4> QED BY <1>4, <1>5, <1>6, <4>1, <4>2 DEF LinkedTo
    <3> QED BY <3>1, <3>2
  <2>3. ASSUME NEW q \in Producers, Links(q)', prev'[q] # Nil
        PROVE  \E n \in 1 .. Len(c) - 1 :
                 prev'[q] = c[n] /\ batch'[q][1] = c[n + 1] /\ do_next'[c[n]] = Nil
    <3>1. q # p /\ Links(q) /\ prev[q] # Nil
      BY <1>4, <1>5, <2>3
    <3>2. PICK n \in 1 .. Len(c) - 1 :
            prev[q] = c[n] /\ batch[q][1] = c[n + 1] /\ do_next[c[n]] = Nil
      BY <1>2, <3>1 DEF ListHasShape, LinksAreWhole
    <3>3. n # k
      <4>1. batch[p][1].by = p /\ batch[q][1].by = q
        BY <1>4, <3>1, LinkFacts
      <4>2. batch[q][1] # batch[p][1]
        BY <3>1, <4>1
      <4> QED BY <1>6, <3>2, <4>2
    <3>4. do_next'[c[n]] = Nil
      BY <1>8, <1>9, <1>10, <3>2, <3>3
    <3> QED BY <1>5, <3>1, <3>2, <3>4
  <2> QED BY <1>2, <1>3, <2>1, <2>2, <2>3 DEF ListHasShape, LinksAreWhole
<1>16. HeadHasKeeper(c)'
  <2>1. \A q \in Producers : Links(q)' /\ prev'[q] = Nil <=> Links(q) /\ prev[q] = Nil
    BY <1>4, <1>5
  <2>2. \A q \in Producers : Links(q)' /\ prev'[q] = Nil => batch'[q] = batch[q]
    BY <1>4, <1>5
  <2> QED BY <1>2, <1>3, <1>12, <2>1, <2>2 DEF ListHasShape, HeadHasKeeper
<1> QED BY <1>13, <1>14, <1>15, <1>16 DEF Shape, ListHasShape

LEMMA ConcatFacts ==
  ASSUME NEW S, NEW s \in Seq(S), NEW t \in Seq(S), t # <<>>, NEW d, d = s \o t
  PROVE  /\ d \in Seq(S) /\ d # <<>> /\ Len(d) = Len(s) + Len(t)
         /\ Len(s) \in Nat /\ Len(t) \in Nat /\ Len(t) > 0
         /\ \A n \in 1 .. Len(s) : d[n] = s[n]
         /\ \A m \in 1 .. Len(t) : d[Len(s) + m] = t[m]
         /\ d[Len(d)] = t[Len(t)]
<1>1. Len(s) \in Nat /\ Len(t) \in Nat /\ Len(t) > 0
  BY SeqFacts
<1>2. /\ d \in Seq(S) /\ Len(d) = Len(s) + Len(t)
      /\ \A n \in 1 .. Len(s) + Len(t) : d[n] = IF n <= Len(s) THEN s[n] ELSE t[n - Len(s)]
  BY ConcatProperties
<1>3. \A n \in 1 .. Len(s) : d[n] = s[n]
  BY <1>1, <1>2
<1>4. ASSUME NEW m \in 1 .. Len(t) PROVE d[Len(s) + m] = t[m]
  <2>1. /\ Len(s) + m \in 1 .. Len(s) + Len(t) /\ ~(Len(s) + m <= Len(s))
        /\ (Len(s) + m) - Len(s) = m
    BY <1>1
  <2> QED BY <1>2, <2>1
<1>5. d[Len(d)] = t[Len(t)]
  BY <1>1, <1>2, <1>4
<1>6. d # <<>>
  BY <1>1, <1>2, SeqFacts
<1> QED BY <1>1, <1>2, <1>3, <1>4, <1>5, <1>6

\* Each place of the whole is one of the first part or of the second.
LEMMA ConcatPlaces ==
  ASSUME NEW S, NEW s \in Seq(S), NEW t \in Seq(S), NEW d \in Seq(S),
         Len(d) = Len(s) + Len(t),
         \A n \in 1 .. Len(s) : d[n] = s[n],
         \A m \in 1 .. Len(t) : d[Len(s) + m] = t[m]
  PROVE  /\ \A n \in 1 .. Len(d) : n \in 1 .. Len(s) \/ n - Len(s) \in 1 .. Len(t)
         /\ \A i \in Range(d) : i \in Range(s) \/ i \in Range(t)
         /\ IsInjective(s) /\ IsInjective(t) /\ (\A i \in Range(s) : i \notin Range(t))
              => IsInjective(d)
<1>1. /\ Len(s) \in Nat /\ Len(t) \in Nat /\ DOMAIN d = 1 .. Len(d)
      /\ DOMAIN s = 1 .. Len(s) /\ DOMAIN t = 1 .. Len(t)
  BY SeqFacts
<1>2. \A n \in 1 .. Len(d) : n \in 1 .. Len(s) \/ n - Len(s) \in 1 .. Len(t)
  BY <1>1
<1>3. ASSUME NEW n \in 1 .. Len(d)
      PROVE  \/ n \in 1 .. Len(s) /\ d[n] = s[n]
             \/ n - Len(s) \in 1 .. Len(t) /\ d[n] = t[n - Len(s)]
  <2>1. CASE n \in 1 .. Len(s)
    BY <2>1
  <2>2. CASE n - Len(s) \in 1 .. Len(t)
    <3>1. Len(s) + (n - Len(s)) = n
      BY <1>1
    <3> QED BY <2>2, <3>1
  <2> QED BY <1>2, <2>1, <2>2
<1>4. ASSUME NEW i \in Range(d) PROVE i \in Range(s) \/ i \in Range(t)
  <2>1. PICK n \in 1 .. Len(d) : i = d[n]
    BY <1>1 DEF Range
  <2>2. CASE n \in 1 .. Len(s) /\ d[n] = s[n]
    BY <1>1, <2>1, <2>2 DEF Range
  <2>3. CASE n - Len(s) \in 1 .. Len(t) /\ d[n] = t[n - Len(s)]
    BY <1>1, <2>1, <2>3 DEF Range
  <2> QED BY <1>3, <2>2, <2>3
<1>5. ASSUME IsInjective(s), IsInjective(t), \A i \in Range(s) : i \notin Range(t)
      PROVE  IsInjective(d)
  <2>1. \A n \in 1 .. Len(s) : s[n] \in Range(s)
    BY <1>1 DEF Range
  <2>2. \A n \in 1 .. Len(t) : t[n] \in Range(t)
    BY <1>1 DEF Range
  <2>3. ASSUME NEW m \in 1 .. Len(d), NEW n \in 1 .. Len(d), d[m] = d[n]
        PROVE  m = n
    <3>1. CASE m \in 1 .. Len(s) /\ d[m] = s[m]
      <4>1. n \in 1 .. Len(s) /\ d[n] = s[n]
        BY <1>3, <1>5, <2>1, <2>2, <2>3, <3>1
      <4> QED BY <1>1, <1>5, <2>3, <3>1, <4>1 DEF IsInjective
    <3>2. CASE m - Len(s) \in 1 .. Len(t) /\ d[m] = t[m - Len(s)]
      <4>1. n - Len(s) \in 1 .. Len(t) /\ d[n] = t[n - Len(s)]
        BY <1>3, <1>5, <2>1, <2>2, <2>3, <3>2
      <4>2. m - Len(s) = n - Len(s)
        BY <1>1, <1>5, <2>3, <3>2, <4>1 DEF IsInjective
      <4> QED BY <1>1, <4>2
    <3> QED BY <1>3, <3>1, <3>2
  <2> QED BY <1>1, <2>3 DEF IsInjective
<1> QED BY <1>2, <1>4, <1>5


\* The exchange of the tail, as its effect on each item and each producer.
LEMMA PushFacts ==
  ASSUME Core, NEW p \in Producers, NEW b \in Batches, Push(p, b), dq' = dq
  PROVE  /\ OnlyOf(p) /\ ~Links(p) /\ Links(p)'
         /\ \A q \in Producers \ {p} : Links(q)' <=> Links(q)
         /\ \A w \in Workers : Pops(w)' <=> Pops(w)
         /\ UNCHANGED <<dq_items_head, held>>
         /\ dq_items_tail' = New(p, b)[b] /\ fifo' = fifo \o New(p, b)
         /\ prev'[p] = dq_items_tail /\ batch'[p] = New(p, b)
         /\ pushes'[p] = pushes[p] + 1
         /\ \A q \in Producers : pushes[q] \in Nat /\ pushes'[q] \in Nat /\ pushes[q] <= pushes'[q]
         /\ \A m \in 1 .. b - 1 : do_next'[New(p, b)[m]] = New(p, b)[m + 1]
         /\ do_next'[New(p, b)[b]] = do_next[New(p, b)[b]]
         /\ \A i \in Items : i.push <= pushes[i.by] \/ i.push > pushes'[i.by] =>
              do_next'[i] = do_next[i]
<1>0. p \in Actors /\ TypeOK /\ pc[p] = "idle" /\ pushes[p] < MaxPush
  BY Parts DEF Actors, Push
<1>1. OnlyOf(p) /\ pc'[p] = "push_link"
  BY PushCore
<1> DEFINE new == New(p, b)
<1>2. /\ b \in Nat \ {0}
      /\ \A n \in 1 .. b : /\ new[n] \in Items
                           /\ new[n].by = p /\ new[n].push = pushes[p] + 1 /\ new[n].n = n
  BY <1>0, NewFacts
<1>3. /\ UNCHANGED <<dq_items_head, held>>
      /\ dq_items_tail' = new[b] /\ fifo' = fifo \o new
      /\ prev' = [prev EXCEPT ![p] = dq_items_tail]
      /\ batch' = [batch EXCEPT ![p] = new]
      /\ pushes' = [pushes EXCEPT ![p] = @ + 1]
  BY DEF Push, New
<1>4. do_next' = [i \in Items |->
        IF \E n \in 1 .. b - 1 : i = new[n] THEN new[i.n + 1] ELSE do_next[i]]
  BY DEF Push, New
<1>5. /\ ~Links(p) /\ Links(p)'
      /\ \A q \in Producers \ {p} : Links(q)' <=> Links(q)
      /\ \A w \in Workers : Pops(w)' <=> Pops(w)
  BY <1>0, <1>1, Kinds DEF Links, Pops, OnlyOf, Actors
<1>6. prev'[p] = dq_items_tail /\ batch'[p] = new /\ pushes'[p] = pushes[p] + 1
  BY <1>0, <1>3 DEF TypeOK, ProducingTyped
<1>7. \A q \in Producers : pushes[q] \in Nat /\ pushes'[q] \in Nat /\ pushes[q] <= pushes'[q]
  <2>1. \A q \in Producers : pushes[q] \in Nat
    BY <1>0, RootQueueAssumption DEF TypeOK, ProducingTyped
  <2>2. \A q \in Producers : q # p => pushes'[q] = pushes[q]
    BY <1>1 DEF OnlyOf
  <2>3. pushes'[p] \in Nat /\ pushes[p] <= pushes'[p]
    BY <1>6, <2>1
  <2> QED BY <2>1, <2>2, <2>3
<1> HIDE DEF new
<1>8. \A m \in 1 .. b - 1 : do_next'[new[m]] = new[m + 1]
  BY <1>2, <1>4
<1>9. do_next'[new[b]] = do_next[new[b]]
  <2>1. \A n \in 1 .. b - 1 : new[b] # new[n]
    BY <1>2
  <2> QED BY <1>2, <1>4, <2>1
<1>10. ASSUME NEW i \in Items, i.push <= pushes[i.by] \/ i.push > pushes'[i.by]
       PROVE  do_next'[i] = do_next[i]
  <2>1. \A n \in 1 .. b - 1 : i # new[n]
    <3> SUFFICES ASSUME NEW n \in 1 .. b - 1, i = new[n] PROVE FALSE
      OBVIOUS
    <3>1. i.by = p /\ i.push = pushes[p] + 1
      BY <1>2
    <3>2. pushes[p] \in Nat /\ pushes'[p] = pushes[p] + 1
      BY <1>6, <1>7
    <3> QED BY <1>10, <3>1, <3>2
  <2> QED BY <1>4, <2>1
<1> QED BY <1>1, <1>3, <1>5, <1>6, <1>7, <1>8, <1>9, <1>10 DEF new

LEMMA PushShape ==
  ASSUME Core, Shape, NEW p \in Producers, NEW b \in Batches, Push(p, b), dq' = dq
  PROVE  Shape'
<1>0. p \in Actors /\ TypeOK /\ pushes[p] < MaxPush
  BY Parts DEF Actors, Push
<1>1. PICK c \in Chains : ListHasShape(c)
  BY DEF Shape
<1>A. PICK new : new = New(p, b)
  OBVIOUS
<1>B. PICK d : d = c \o new
  OBVIOUS
<1>2. /\ b \in Nat \ {0} /\ new \in Seq(Items) /\ Len(new) = b /\ new # <<>>
      /\ \A n \in 1 .. b : /\ new[n] \in Items
                           /\ new[n].by = p /\ new[n].push = pushes[p] + 1 /\ new[n].n = n
  BY <1>0, <1>A, NewFacts
<1>3. /\ OnlyOf(p) /\ ~Links(p) /\ Links(p)'
      /\ \A q \in Producers \ {p} : Links(q)' <=> Links(q)
      /\ \A w \in Workers : Pops(w)' <=> Pops(w)
      /\ UNCHANGED <<dq_items_head, held>>
      /\ dq_items_tail' = new[b] /\ fifo' = fifo \o new
      /\ prev'[p] = dq_items_tail /\ batch'[p] = new
      /\ pushes'[p] = pushes[p] + 1
      /\ \A q \in Producers : pushes[q] \in Nat /\ pushes'[q] \in Nat /\ pushes[q] <= pushes'[q]
  BY <1>A, PushFacts
<1>4. /\ \A m \in 1 .. b - 1 : do_next'[new[m]] = new[m + 1]
      /\ do_next'[new[b]] = do_next[new[b]]
      /\ \A i \in Items : i.push <= pushes[i.by] \/ i.push > pushes'[i.by] =>
           do_next'[i] = do_next[i]
  BY <1>A, PushFacts
<1>5. \A q \in Producers \ {p} : batch'[q] = batch[q] /\ prev'[q] = prev[q]
  BY <1>3 DEF OnlyOf
<1>6. /\ c \in Seq(Items) /\ fifo \in Seq(Items)
      /\ ~Popped => c = fifo
      /\ \A w \in Workers : Pops(w) => held[w] \in Items /\ c = <<held[w]>> \o fifo
      /\ (dq_items_tail = Nil <=> c = <<>>)
  BY <1>1, ChainFacts
<1>7. /\ d \in Seq(Items) /\ d # <<>> /\ Len(d) = Len(c) + b
      /\ Len(c) \in Nat
      /\ \A n \in 1 .. Len(c) : d[n] = c[n]
      /\ \A m \in 1 .. b : d[Len(c) + m] = new[m]
      /\ d[Len(d)] = new[b]
  <2>1. c \in Seq(Items) /\ new \in Seq(Items) /\ new # <<>> /\ Len(new) = b
    BY <1>2, <1>6
  <2>4. d \in Seq(Items) /\ d # <<>>
    BY <1>B, <2>1, ConcatFacts
  <2>5. Len(d) = Len(c) + Len(new)
    <3>1. Len(c \o new) = Len(c) + Len(new)
      BY <2>1, ConcatProperties
    <3> QED BY <1>B, <3>1
  <2>6. Len(c) \in Nat
    BY <2>1, SeqFacts
  <2>2. /\ \A n \in 1 .. Len(c) : d[n] = c[n]
    BY <1>B, <2>1, ConcatFacts
  <2>3. /\ \A m \in 1 .. Len(new) : d[Len(c) + m] = new[m]
        /\ d[Len(d)] = new[Len(new)]
    BY <1>B, <2>1, ConcatFacts
  <2> QED BY <2>1, <2>2, <2>3, <2>4, <2>5, <2>6
<1>8. d \in Chains'
  <2>1. Popped' <=> Popped
    BY <1>3 DEF Popped
  <2>2. CASE Popped
    <3>1. PICK w \in Workers : Pops(w)
      BY <2>2 DEF Popped
    <3>2. held[w] \in Items /\ c = <<held[w]>> \o fifo
      BY <1>6, <3>1
    <3>3. <<held[w]>> \in Seq(Items)
      BY <3>2
    <3>4. d = <<held[w]>> \o (fifo \o new)
      BY <1>2, <1>6, <1>B, <3>2, <3>3, ConcatAssociative
    <3>5. Pops(w)' /\ d = <<held'[w]>> \o fifo'
      BY <1>3, <3>1, <3>4
    <3> QED BY <2>1, <2>2, <3>5 DEF Chains
  <2>3. CASE ~Popped
    BY <1>3, <1>6, <1>B, <2>1, <2>3 DEF Chains
  <2> QED BY <2>2, <2>3
<1>9. /\ \A n \in 1 .. Len(d) : n \in 1 .. Len(c) \/ n - Len(c) \in 1 .. b
      /\ \A i \in Range(d) : i \in Range(c) \/ i \in Range(new)
      /\ IsInjective(c) /\ IsInjective(new) /\ (\A i \in Range(c) : i \notin Range(new))
           => IsInjective(d)
  BY <1>2, <1>6, <1>7, ConcatPlaces
<1>10. \A i \in Range(new) : i \in Items /\ i.by = p /\ i.push = pushes[p] + 1
  BY <1>2, SeqFacts DEF Range
<1>11. /\ \A i \in Range(c) : i \in Items /\ i.push <= pushes[i.by]
       /\ \A n \in 1 .. Len(c) : c[n] \in Range(c)
  BY <1>1, <1>6, SeqFacts DEF ListHasShape, ItemsAreOnce, Range
<1>12. \A n \in 1 .. Len(c) : do_next'[c[n]] = do_next[c[n]]
  BY <1>4, <1>11
<1>13. ItemsAreOnce(d)'
  <2>1. IsInjective(d)
    <3>1. IsInjective(new)
      BY <1>2, SeqFacts DEF IsInjective
    <3>2. \A i \in Range(c) : i \notin Range(new)
      BY <1>3, <1>10, <1>11
    <3> QED BY <1>1, <1>9, <3>1, <3>2 DEF ListHasShape, ItemsAreOnce
  <2>2. /\ \A u, v \in Workers : Pops(u)' /\ Pops(v)' => u = v
        /\ \A u, v \in Workers : held'[u] = held'[v] /\ u # v => held'[u] = Nil
    BY <1>1, <1>3 DEF ListHasShape, ItemsAreOnce
  <2>3. ASSUME NEW w \in Workers, held[w] # Nil
        PROVE  /\ ~Pops(w) => held[w] \notin Range(d)
               /\ held[w].push <= pushes'[held[w].by]
    <3>1. held[w] \in Items
      BY <1>0, <2>3 DEF TypeOK, DrainingTyped
    <3>2. held[w].push <= pushes[held[w].by] /\ (~Pops(w) => held[w] \notin Range(c))
      BY <1>1, <2>3 DEF ListHasShape, ItemsAreOnce
    <3>3. held[w].push \in Nat /\ held[w].by \in Producers
      BY <3>1, RootQueueAssumption DEF Items
    <3>4. held[w].push <= pushes'[held[w].by]
      BY <1>3, <3>2, <3>3
    <3>5. held[w] \notin Range(new)
      BY <1>3, <1>10, <3>2, <3>3
    <3> QED BY <1>9, <3>2, <3>4, <3>5
  <2>4. ASSUME NEW i \in Range(d) PROVE i.push <= pushes'[i.by]
    <3>1. CASE i \in Range(new)
      BY <1>3, <1>10, <3>1
    <3>2. CASE i \in Range(c)
      <4>1. i.push \in Nat /\ i.by \in Producers /\ i.push <= pushes[i.by]
        BY <1>11, <3>2, RootQueueAssumption DEF Items
      <4> QED BY <1>3, <4>1
    <3> QED BY <1>9, <3>1, <3>2
  <2>5. ASSUME NEW i \in Items, i.push > pushes'[i.by] PROVE do_next'[i] = Nil
    <3>1. i.push \in Nat /\ i.by \in Producers
      BY RootQueueAssumption DEF Items
    <3>2. i.push > pushes[i.by]
      BY <1>3, <2>5, <3>1
    <3> QED BY <1>1, <1>4, <2>5, <3>2 DEF ListHasShape, ItemsAreOnce
  <2> QED BY <1>3, <2>1, <2>2, <2>3, <2>4, <2>5 DEF ItemsAreOnce
<1>14. d[1] = IF c = <<>> THEN new[1] ELSE c[1]
  <2>1. CASE c = <<>>
    <3>1. Len(c) = 0 /\ 1 \in 1 .. b
      BY <1>2, <2>1
    <3>2. d[Len(c) + 1] = new[1]
      BY <1>7, <3>1
    <3> QED BY <2>1, <3>1, <3>2
  <2>2. CASE c # <<>>
    <3>1. 1 \in 1 .. Len(c)
      BY <1>6, <2>2, SeqFacts
    <3> QED BY <1>7, <2>2, <3>1
  <2> QED BY <2>1, <2>2
<1>15. LinksAreWhole(d)'
  <2>1. do_next'[d[Len(d)]] = Nil
    <3>1. new[b] \in Items /\ new[b].by = p /\ new[b].push = pushes[p] + 1
      BY <1>2
    <3>2. new[b].push > pushes[new[b].by]
      BY <1>3, <3>1
    <3> QED BY <1>1, <1>4, <1>7, <3>1, <3>2 DEF ListHasShape, ItemsAreOnce
  <2>2. ASSUME NEW n \in 1 .. Len(d) - 1 PROVE LinkedTo(d[n], d[n + 1])'
    <3>1. CASE n \in 1 .. Len(c) - 1
      <4>1. n \in 1 .. Len(c) /\ n + 1 \in 1 .. Len(c)
        BY <1>7, <3>1
      <4>2. d[n] = c[n] /\ d[n + 1] = c[n + 1] /\ do_next'[c[n]] = do_next[c[n]]
        BY <1>7, <1>12, <4>1
      <4>3. LinkedTo(c[n], c[n + 1])
        BY <1>1, <3>1 DEF ListHasShape, LinksAreWhole
      <4> QED BY <1>3, <1>5, <4>2, <4>3 DEF LinkedTo
    <3>2. CASE n = Len(c)
      <4>1. n \in 1 .. Len(c) /\ 1 \in 1 .. b
        BY <1>2, <1>7, <3>2
      <4>2. d[n] = c[n] /\ d[n + 1] = new[1] /\ do_next'[c[n]] = do_next[c[n]]
        BY <1>7, <1>12, <3>2, <4>1
      <4>3. c # <<>>
        BY <1>6, <4>1, SeqFacts
      <4>4. do_next[c[n]] = Nil /\ dq_items_tail = c[n]
        BY <1>1, <3>2, <4>3 DEF ListHasShape, LinksAreWhole
      <4> QED BY <1>3, <4>2, <4>4 DEF LinkedTo
    <3>3. CASE n - Len(c) \in 1 .. b - 1
      <4> DEFINE m == n - Len(c)
      <4>1. m \in 1 .. b - 1 /\ m \in 1 .. b /\ m + 1 \in 1 .. b
        BY <1>2, <3>3
      <4>2. n = Len(c) + m /\ n + 1 = Len(c) + (m + 1)
        BY <1>7
      <4> HIDE DEF m
      <4>3. d[n] = new[m] /\ d[n + 1] = new[m + 1]
        BY <1>7, <4>1, <4>2
      <4> QED BY <1>4, <4>1, <4>3 DEF LinkedTo
    <3>4. n \in 1 .. Len(c) - 1 \/ n = Len(c) \/ n - Len(c) \in 1 .. b - 1
      BY <1>2, <1>7
    <3> QED BY <3>1, <3>2, <3>3, <3>4
  <2>3. ASSUME NEW q \in Producers, Links(q)', prev'[q] # Nil
        PROVE  \E n \in 1 .. Len(d) - 1 :
                 prev'[q] = d[n] /\ batch'[q][1] = d[n + 1] /\ do_next'[d[n]] = Nil
    <3>1. CASE q = p
      <4> DEFINE n == Len(c)
      <4>1. c # <<>> /\ dq_items_tail = c[n] /\ do_next[c[n]] = Nil
        BY <1>1, <1>3, <1>6, <2>3, <3>1 DEF ListHasShape, LinksAreWhole
      <4>2. n \in 1 .. Len(c) /\ 1 \in 1 .. b
        BY <1>2, <1>6, <4>1, SeqFacts
      <4>3. d[n] = c[n] /\ d[n + 1] = new[1] /\ do_next'[c[n]] = do_next[c[n]]
        BY <1>7, <1>12, <4>2
      <4>4. n \in 1 .. Len(d) - 1
        BY <1>2, <1>7, <4>2
      <4> QED BY <1>3, <3>1, <4>1, <4>3, <4>4
    <3>2. CASE q # p
      <4>1. Links(q) /\ prev[q] # Nil
        BY <1>3, <1>5, <2>3, <3>2
      <4>2. PICK n \in 1 .. Len(c) - 1 :
              prev[q] = c[n] /\ batch[q][1] = c[n + 1] /\ do_next[c[n]] = Nil
        BY <1>1, <4>1 DEF ListHasShape, LinksAreWhole
      <4>3. n \in 1 .. Len(c) /\ n + 1 \in 1 .. Len(c) /\ n \in 1 .. Len(d) - 1
        BY <1>2, <1>7
      <4>4. d[n] = c[n] /\ d[n + 1] = c[n + 1] /\ do_next'[c[n]] = do_next[c[n]]
        BY <1>7, <1>12, <4>3
      <4> QED BY <1>5, <3>2, <4>2, <4>3, <4>4
    <3> QED BY <3>1, <3>2
  <2> QED BY <1>3, <1>7, <2>1, <2>2, <2>3 DEF LinksAreWhole
<1>16. HeadHasKeeper(d)'
  <2>0. Popped' <=> Popped
    BY <1>3 DEF Popped
  <2>1. c = <<>> => ~Popped
    <3> SUFFICES ASSUME NEW w \in Workers, Pops(w) PROVE c # <<>>
      BY DEF Popped
    <3>1. held[w] \in Items /\ c = <<held[w]>> \o fifo
      BY <1>6
    <3>2. <<held[w]>> \in Seq(Items) /\ <<held[w]>> # <<>>
      BY <3>1
    <3> QED BY <1>6, <3>1, <3>2, ConcatEqualIffEmpty
  <2>2. ASSUME NEW q \in Producers, Links(q)', prev'[q] = Nil
        PROVE  batch'[q][1] = d[1] /\ dq_items_head' \notin Items /\ ~Popped'
    <3>1. CASE q = p
      <4>1. c = <<>>
        BY <1>3, <1>6, <2>2, <3>1
      <4> QED BY <1>1, <1>3, <1>14, <2>0, <2>1, <3>1, <4>1 DEF ListHasShape, HeadHasKeeper
    <3>2. CASE q # p
      BY <1>1, <1>3, <1>5, <1>14, <2>0, <2>2, <3>2 DEF ListHasShape, HeadHasKeeper
    <3> QED BY <3>1, <3>2
  <2>3. dq_items_head' \in Items => dq_items_head' = d[1] /\ ~Popped'
    BY <1>1, <1>3, <1>14, <2>0 DEF ListHasShape, HeadHasKeeper
  <2>4. ASSUME ~Popped'
        PROVE  \/ dq_items_head' = d[1]
               \/ \E q \in Producers : Links(q)' /\ prev'[q] = Nil
    <3>1. CASE c = <<>>
      BY <1>3, <1>6, <3>1
    <3>2. CASE c # <<>>
      <4>1. dq_items_head = c[1] \/ \E q \in Producers : Links(q) /\ prev[q] = Nil
        BY <1>1, <2>0, <2>4, <3>2 DEF ListHasShape, HeadHasKeeper
      <4> QED BY <1>3, <1>5, <1>14, <3>2, <4>1
    <3> QED BY <3>1, <3>2
  <2> QED BY <1>7, <2>2, <2>3, <2>4 DEF HeadHasKeeper
<1> QED BY <1>8, <1>13, <1>15, <1>16 DEF Shape, ListHasShape

----------------------------------------------------------------------------
(* Somebody sees to the items *)

\* Those who do not move keep seeing to the items.
LEMMA SeesKept ==
  ASSUME Core, NEW a \in Actors, OnlyOf(a), dq' = dq, NEW b \in Actors \ {a}, Sees(b),
         permits' >= permits, permits' \in Nat, dgq_thread_pool_size' = dgq_thread_pool_size
  PROVE  Sees(b)'
<1>0. permits \in Nat
  BY Parts DEF TypeOK, ThreadsTyped
<1>1. /\ pc'[b] = pc[b] /\ t_count'[b] = t_count[b] /\ back'[b] = back[b]
      /\ b \in Workers => status'[b] = status[b]
      /\ b \in Producers => prev'[b] = prev[b]
  BY DEF OnlyOf
<1>2. CASE b \in Producers /\ Links(b) /\ prev[b] = Nil
  BY <1>1, <1>2 DEF Sees, Links
<1>3. CASE b \in Workers /\ Drains(b)
  BY <1>1, <1>3 DEF Sees, Drains
<1>4. CASE Asks(b)
  BY <1>1, <1>4 DEF Sees, Asks
<1>5. CASE permits > 0 /\ Takes(b)
  <2>1. Takes(b)'
    BY <1>1, <1>5 DEF Takes, Available, Overcommit
  <2> QED BY <1>0, <1>5, <2>1 DEF Sees
<1>6. CASE permits > 0 /\ b \in Workers /\ Parks(b)
  <2>1. Parks(b)'
    BY <1>1, <1>6 DEF Parks, Exiting
  <2> QED BY <1>0, <1>6, <2>1 DEF Sees
<1> QED BY <1>2, <1>3, <1>4, <1>5, <1>6 DEF Sees

LEMMA SeenBy ==
  ASSUME NEW a \in Actors, Sees(a)'
  PROVE  Served'
BY DEF Served, SeenTo

\* Steps of a that lose no thread: what a did itself is left to see to.
LEMMA ServedStep ==
  ASSUME Core, Served, NEW a \in Actors, OnlyOf(a), dq' = dq,
         permits' = permits, requests' = requests,
         dgq_thread_pool_size' = dgq_thread_pool_size,
         fifo' # <<>> => fifo # <<>>, slipped => slipped',
         Sees(a) /\ fifo' # <<>> /\ (slipped' => Overcommit) => SeenTo'
  PROVE  Served'
<1> SUFFICES ASSUME fifo' # <<>>, slipped' => Overcommit'
             PROVE  SeenTo'
  BY DEF Served
<1>0. permits \in Nat /\ (Overcommit' <=> Overcommit)
  BY Parts DEF TypeOK, ThreadsTyped, Overcommit
<1>1. SeenTo
  BY <1>0 DEF Served
<1>2. CASE requests > 0
  BY <1>2 DEF SeenTo
<1>3. ASSUME NEW b \in Actors \ {a}, Sees(b) PROVE SeenTo'
  BY <1>0, <1>3, SeesKept DEF SeenTo
<1> QED BY <1>0, <1>1, <1>2, <1>3 DEF SeenTo

\* Steps of a worker that drains, whose end does not need the permits.
LEMMA DrainsOn ==
  ASSUME NEW w \in Workers, Drains(w)' \/ Asks(w)'
  PROVE  Served' /\ SeenTo'
<1>1. w \in Actors /\ Sees(w)'
  BY DEF Actors, Sees
<1> QED BY <1>1, SeenBy DEF SeenTo

\* Who is neither draining nor asking needs a permit that is left.
LEMMA NeedsPermit ==
  ASSUME NEW a \in Actors, Sees(a), ~Asks(a),
         a \in Workers => ~Drains(a), a \in Producers => ~(Links(a) /\ prev[a] = Nil)
  PROVE  permits > 0 /\ (Takes(a) \/ (a \in Workers /\ Parks(a)))
BY DEF Sees

\* Nothing is left to see to.
LEMMA EmptyServed ==
  ASSUME Core, Shape, dq_items_tail = Nil, fifo' = fifo
  PROVE  Served'
BY HeadFacts DEF Served

LEMMA ParksOn ==
  ASSUME NEW w \in Workers, pc'[w] \in {"run", "done"}, permits' > 0
  PROVE  SeenTo'
<1>1. Parks(w)' /\ w \in Actors
  BY DEF Parks, Exiting, PokePCs, Actors
<1> QED BY <1>1 DEF SeenTo, Sees

\* Workers that go on in a drain, or out of one that has left nothing.
LEMMA DrainServed ==
  ASSUME Core, Shape, NEW w \in Workers, dq' = dq,
         \/ Drain(w) \/ Restore(w) \/ Look(w) \/ TakeNext(w) \/ TakeLast(w) \/ WaitNext(w)
         \/ Gone(w) \/ Quiesced(w) \/ QuiescedTail(w)
         \/ Mark(w, "mark_gone", "gone") \/ Mark(w, "mark_quiesced", "quiesced")
  PROVE  Served'
<1>0. w \in Actors /\ TypeOK
  BY Parts DEF Actors
<1>1. CASE Drain(w)
  <2>1. PICK p \in {"restore", "gone", "next"} : Goto(w, p)
    BY <1>1 DEF Drain
  <2>2. pc'[w] = p
    BY <1>0, <2>1 DEF Goto, TypeOK, ControlTyped
  <2> QED BY <2>2, DrainsOn DEF Drains, PopPCs
<1>2. CASE Restore(w)
  BY <1>2, RestoreCore, DrainsOn DEF Drains
<1>3. CASE Look(w)
  <2>1. CASE dq_items_tail = Nil
    BY <1>3, <2>1, EmptyServed DEF Look, history
  <2>2. CASE dq_items_tail # Nil
    BY <1>3, <2>2, LookCore, DrainsOn DEF Drains
  <2> QED BY <2>1, <2>2
<1>4. CASE TakeNext(w)
  <2>1. pc'[w] = "last" \/ pc'[w] = "poke"
    BY <1>4, TakeNextCore
  <2> QED BY <2>1, DrainsOn DEF Drains, PopPCs, Asks
<1>5. CASE TakeLast(w)
  <2>1. CASE IsLast(w)
    <3>1. pc'[w] = "run" /\ OnlyOf(w)
      BY <1>5, <2>1, TakeLastCore
    <3>2. /\ Pops(w) /\ dq_items_tail = held[w] /\ dq_items_tail' = Nil
          /\ UNCHANGED <<dq_items_head, do_next, held, pushes, batch, prev, fifo>>
      BY <1>5, <2>1 DEF TakeLast, IsLast, Pops, PopPCs, producing, history
    <3>3. fifo = <<>>
      BY <3>1, <3>2, LastShape
    <3> QED BY <3>2, <3>3 DEF Served
  <2>2. CASE ~IsLast(w)
    BY <1>5, <2>2, TakeLastCore, DrainsOn DEF Drains, PopPCs
  <2> QED BY <2>1, <2>2
<1>6. CASE WaitNext(w)
  BY <1>6, WaitNextCore, DrainsOn DEF Asks
<1>7. CASE Gone(w)
  BY <1>7, GoneCore, DrainsOn DEF Drains
<1>8. CASE Quiesced(w)
  BY <1>8, QuiescedCore, DrainsOn DEF Drains
<1>9. CASE QuiescedTail(w)
  <2>1. CASE dq_items_tail = Nil
    BY <1>9, <2>1, EmptyServed DEF QuiescedTail, history
  <2>2. CASE dq_items_tail # Nil
    BY <1>9, <2>2, QuiescedTailCore, DrainsOn DEF Drains
  <2> QED BY <2>1, <2>2
<1>10. CASE Mark(w, "mark_gone", "gone")
  BY <1>10, MarkCore, DrainsOn DEF Drains
<1>11. CASE Mark(w, "mark_quiesced", "quiesced")
  BY <1>11, MarkCore, DrainsOn DEF Drains
<1> QED BY <1>1, <1>2, <1>3, <1>4, <1>5, <1>6, <1>7, <1>8, <1>9, <1>10, <1>11

LEMMA RunServed ==
  ASSUME Core, Served, NEW w \in Workers, Run(w), dq' = dq
  PROVE  Served'
<1>1. w \in Actors /\ OnlyOf(w) /\ pc'[w] \in {"drain", "done"} /\ pc[w] = "run"
  BY RunCore DEF Actors, Run
<1>2. UNCHANGED <<permits, requests, dgq_thread_pool_size, fifo, slipped>>
  BY DEF Run, threads
<1>3. Sees(w) => SeenTo'
  <2> SUFFICES ASSUME Sees(w) PROVE SeenTo'
    OBVIOUS
  <2>1. permits > 0
    BY <1>1, Kinds, NeedsPermit DEF Asks, Drains, PopPCs
  <2>2. CASE pc'[w] = "drain"
    BY <2>2, DrainsOn DEF Drains
  <2>3. CASE pc'[w] = "done"
    BY <1>2, <2>1, <2>3, ParksOn
  <2> QED BY <1>1, <2>2, <2>3
<1> QED BY <1>1, <1>2, <1>3, ServedStep

LEMMA OutServed ==
  ASSUME Core, Served, NEW w \in Workers, Out(w), dq' = dq
  PROVE  Served'
<1>1. /\ w \in Actors /\ OnlyOf(w) /\ pc[w] = "out"
      /\ pc'[w] = IF status[w] = "ready" THEN "drain"
                  ELSE IF status[w] = "abort" THEN "done" ELSE "poke"
  BY OutCore DEF Actors, Out
<1>2. UNCHANGED <<permits, requests, dgq_thread_pool_size, fifo, slipped>>
  BY DEF Out, threads, history
<1>3. CASE status[w] # "abort"
  BY <1>1, <1>3, DrainsOn DEF Drains, Asks
<1>4. CASE status[w] = "abort"
  <2>1. Sees(w) => SeenTo'
    <3> SUFFICES ASSUME Sees(w) PROVE SeenTo'
      OBVIOUS
    <3>1. permits > 0
      BY <1>1, <1>4, Kinds, NeedsPermit DEF Asks, Drains, PopPCs
    <3> QED BY <1>1, <1>2, <1>4, <3>1, ParksOn
  <2> QED BY <1>1, <1>2, <2>1, ServedStep
<1> QED BY <1>3, <1>4

LEMMA ParkServed ==
  ASSUME Core, Served, NEW w \in Workers, Park(w), dq' = dq
  PROVE  Served'
<1>1. /\ w \in Actors /\ OnlyOf(w) /\ pc[w] = "done" /\ PermitsAreLate
      /\ pc'[w] = IF Kernel THEN "none" ELSE IF permits > 0 THEN "drain" ELSE "asleep"
  BY ParkCore, Parts DEF Actors, Park
<1>2. UNCHANGED <<requests, dgq_thread_pool_size, fifo, slipped>>
  BY DEF Park, history
<1>3. CASE permits > 0
  BY <1>1, <1>3, DrainsOn DEF Drains, PermitsAreLate
<1>4. CASE ~(permits > 0)
  <2>1. permits' = permits
    BY <1>4 DEF Park
  <2>2. ~Sees(w)
    BY <1>1, <1>4, Kinds, NeedsPermit DEF Asks, Drains, PopPCs
  <2> QED BY <1>1, <1>2, <2>1, <2>2, ServedStep
<1> QED BY <1>3, <1>4

LEMMA ComesServed ==
  ASSUME Core, NEW w \in Workers,
         Begin(w) \/ (TimedOut(w) /\ dq' = dq) \/ (Exit(w) /\ dq' = dq)
  PROVE  Served'
BY BeginCore, TimedOutCore, ExitCore, DrainsOn DEF Drains, Asks

LEMMA MonitorServed ==
  ASSUME Core, NEW m \in Monitors, dq' = dq, MonitorStalled(m) \/ MonitorUnderused(m)
  PROVE  Served'
<1>1. m \in Actors /\ pc'[m] = "poke"
  BY MonitorStalledCore, MonitorUnderusedCore DEF Actors
<1>2. Sees(m)'
  BY <1>1 DEF Sees, Asks
<1> QED BY <1>1, <1>2, SeenBy

LEMMA PushServed ==
  ASSUME Core, Shape, Served, NEW p \in Producers, NEW b \in Batches, Push(p, b), dq' = dq
  PROVE  Served'
<1>1. /\ p \in Actors /\ OnlyOf(p) /\ ~Links(p) /\ Links(p)' /\ prev'[p] = dq_items_tail
      /\ \A w \in Workers : Pops(w)' <=> Pops(w)
  BY PushFacts DEF Actors
<1>2. CASE dq_items_tail = Nil
  <2>1. Sees(p)'
    BY <1>1, <1>2 DEF Sees
  <2> QED BY <1>1, <2>1, SeenBy
<1>3. CASE Popped
  <2>1. PICK w \in Workers : Pops(w)'
    BY <1>1, <1>3 DEF Popped
  <2> QED BY <2>1, DrainsOn DEF Drains, Pops
<1>4. CASE dq_items_tail # Nil /\ ~Popped
  <2>1. PICK c \in Chains : ListHasShape(c)
    BY DEF Shape
  <2>2. fifo # <<>>
    BY <1>4, <2>1, ChainFacts
  <2>3. UNCHANGED <<permits, requests, dgq_thread_pool_size, slipped>>
    BY DEF Push, threads
  <2>4. ~Sees(p)
    BY <1>1, Kinds DEF Push, Sees, Asks, Takes
  <2> QED BY <1>1, <2>2, <2>3, <2>4, ServedStep
<1> QED BY <1>2, <1>3, <1>4

LEMMA PushLinkServed ==
  ASSUME Core, Served, NEW p \in Producers, PushLink(p), dq' = dq
  PROVE  Served'
<1>1. /\ p \in Actors /\ OnlyOf(p) /\ pc[p] = "push_link"
      /\ pc'[p] = IF prev[p] = Nil THEN "poke" ELSE "idle"
  BY PushLinkCore DEF Actors, PushLink
<1>2. CASE prev[p] = Nil
  <2>1. Sees(p)'
    BY <1>1, <1>2 DEF Sees, Asks
  <2> QED BY <1>1, <2>1, SeenBy
<1>3. CASE prev[p] # Nil
  <2>1. ~Sees(p)
    BY <1>1, <1>3, Kinds DEF Sees, Asks, Takes
  <2>2. UNCHANGED <<permits, requests, dgq_thread_pool_size, fifo, slipped>>
    BY DEF PushLink, threads, history
  <2> QED BY <1>1, <2>1, <2>2, ServedStep
<1> QED BY <1>2, <1>3

LEMMA ClaimFacts ==
  ASSUME Core, Requested # 0, ~(requests > 0)
  PROVE  \E b \in Actors : pc[b] \in {"poke_request", "poke_count", "poke_take"}
<1>1. requests \in Nat
  BY Parts DEF TypeOK, ThreadsTyped
<1>2. Cardinality({}) = 0
  BY FS_EmptySet
<1>3. Claimed # {}
  BY <1>1, <1>2 DEF Requested
<1>4. PICK x \in Claimed : TRUE
  BY <1>3
<1> QED BY <1>4 DEF Claimed, Claims

LEMMA PokePendingServed ==
  ASSUME Core, Served, NEW a \in Actors, dq' = dq,
         NEW from \in {"poke_pending", "poke_reserve"},
         NEW to, to = IF from = "poke_pending" THEN "poke_request" ELSE "poke_count",
         PokePending(a, from, to)
  PROVE  Served'
<1>0. pc[a] = from /\ ControlOf(a)
  BY Parts DEF PokePending
<1>1. OnlyOf(a) /\ pc'[a] = IF dgq_pending = 0 THEN to ELSE back[a]
  BY PokePendingCore
<1>2. UNCHANGED <<permits, requests, dgq_thread_pool_size, fifo>> /\ (slipped => slipped')
  <2>1. UNCHANGED <<permits, requests, dgq_thread_pool_size, fifo>>
    BY DEF PokePending, threads
  <2>2. CASE dgq_pending = 0
    BY <2>1, <2>2 DEF PokePending
  <2>3. CASE dgq_pending # 0
    BY <2>1, <2>3 DEF PokePending
  <2> QED BY <2>2, <2>3
<1>3. from = "poke_reserve" => ~Overcommit /\ ~Kernel
  BY <1>0 DEF ControlOf, PoolPCs
<1>4. from = "poke_pending" => Kernel
  BY <1>0 DEF ControlOf
<1>5. Sees(a) => from = "poke_pending" \/ permits > 0
  BY <1>0, Kinds, NeedsPermit DEF Asks, Drains, PopPCs, Links
<1>6. CASE dgq_pending = 0
  <2>1. CASE from = "poke_pending"
    <3>1. Sees(a)'
      BY <1>1, <1>6, <2>1 DEF Sees, Asks
    <3> QED BY <3>1, SeenBy
  <2>2. CASE from = "poke_reserve"
    <3>1. Sees(a) => Sees(a)'
      BY <1>1, <1>2, <1>5, <1>6, <2>2 DEF Sees, Takes
    <3> QED BY <1>1, <1>2, <3>1, ServedStep DEF SeenTo
  <2> QED BY <2>1, <2>2
<1>7. CASE dgq_pending # 0
  <2>1. ~Overcommit
    BY <1>3, <1>4 DEF Kernel, Overcommit
  <2> SUFFICES ASSUME Sees(a), ~slipped', ~(requests > 0) PROVE SeenTo'
    BY <1>1, <1>2, <2>1, ServedStep DEF SeenTo
  <2>2. Requested # 0
    BY <1>7 DEF PokePending
  <2>3. PICK b \in Actors : pc[b] \in {"poke_request", "poke_count", "poke_take"}
    BY <2>2, ClaimFacts
  <2>4. b # a /\ ControlOf(b)
    BY <1>0, <2>3, Parts
  <2>5. CASE from = "poke_pending"
    <3>1. Asks(b)
      BY <1>4, <2>3, <2>4, <2>5 DEF ControlOf, PoolPCs, Asks
    <3>2. Asks(b)'
      BY <1>1, <2>4, <3>1 DEF Asks, OnlyOf
    <3> QED BY <3>2 DEF SeenTo, Sees
  <2>6. CASE from = "poke_reserve"
    <3>1. permits' > 0
      BY <1>2, <1>5, <2>6
    <3>2. pc[b] # "poke_request"
      BY <1>3, <2>4, <2>6 DEF ControlOf
    <3>3. Takes(b)
      BY <2>1, <2>3, <3>2 DEF Takes
    <3>4. Takes(b)'
      BY <1>1, <2>1, <2>4, <3>3 DEF Takes, OnlyOf, Overcommit
    <3> QED BY <3>1, <3>4 DEF SeenTo, Sees
  <2> QED BY <2>5, <2>6
<1> QED BY <1>6, <1>7

\* A pool from which nobody is left to take has threads that are up.
LEMMA PoolServed ==
  ASSUME Core, ~Kernel, permits > 0, ~(requests > 0), dgq_thread_pool_size <= 0
  PROVE  \E w \in Workers : Drains(w) \/ Parks(w)
<1>1. /\ TypeOK /\ PoolIsAccounted /\ PermitsAreLate
  BY Parts DEF Core, ThreadsAreAccounted
<1>2. dq.pool > 0 /\ dq.pool \in Nat /\ requests \in Nat /\ dgq_thread_pool_size \in Int
  BY <1>1, RootQueueAssumption DEF TypeOK, ThreadsTyped, QueueTypes, Kernel
<1>3. requests = 0
  BY <1>2
<1>4. dgq_thread_pool_size + requests + Cardinality(Busy) = dq.pool
  BY <1>1, PoolDef
<1>5. Cardinality({}) = 0
  BY FS_EmptySet
<1>6. Busy # {}
  BY <1>2, <1>3, <1>4, <1>5
<1>7. PICK w \in Workers : pc[w] # "none" /\ ~Exiting(w)
  BY <1>6 DEF Busy
<1>8. pc[w] # "asleep"
  BY <1>1 DEF PermitsAreLate, Asleep
<1> QED BY <1>7, <1>8 DEF Drains, Parks

LEMMA PokeTrimServed ==
  ASSUME Core, Served, NEW a \in Actors, PokeTrim(a), dq' = dq
  PROVE  Served'
<1>0. /\ pc[a] = "poke_take" /\ ControlOf(a) /\ TypeOK
      /\ slipped' = (slipped \/ dgq_thread_pool_size > t_count[a])
  BY Parts DEF PokeTrim
<1>1. /\ OnlyOf(a)
      /\ Available(a) = 0 => pc'[a] = back[a]
      /\ Available(a) > 0 => pc'[a] = "poke_take" /\ t_count' = t_count
  BY PokeTrimCore
<1>2. UNCHANGED <<permits, requests, dgq_thread_pool_size, fifo>> /\ (slipped => slipped')
  BY <1>0 DEF PokeTrim, threads
<1>3. ~Kernel
  BY <1>0 DEF ControlOf, PoolPCs
<1>4. t_count[a] \in Int /\ dgq_thread_pool_size \in Int /\ Excess \in Nat
  BY <1>0, RootQueueAssumption DEF TypeOK, PokingTyped, ThreadsTyped, QueueTypes
<1> SUFFICES ASSUME Sees(a), slipped' => Overcommit PROVE SeenTo'
  BY <1>1, <1>2, ServedStep
<1>5. permits > 0 /\ (Takes(a) \/ (a \in Workers /\ Parks(a)))
  BY <1>0, Kinds, NeedsPermit DEF Asks, Drains, PopPCs, Links
<1>6. CASE Available(a) > 0
  <2>1. Available(a)' = Available(a)
    BY <1>1, <1>6 DEF Available
  <2>2. Takes(a)'
    BY <1>1, <1>6, <2>1 DEF Takes
  <2> QED BY <1>2, <1>5, <2>2 DEF SeenTo, Sees
<1>7. CASE Available(a) = 0
  <2>1. CASE a \in Workers /\ Parks(a)
    <3>1. back[a] \in {"run", "done"}
      BY <1>0, <2>1 DEF Parks, Exiting, PokePCs, ControlOf, TypeOK, PokingTyped
    <3> QED BY <1>1, <1>2, <1>5, <1>7, <2>1, <3>1, ParksOn
  <2>2. CASE ~(a \in Workers /\ Parks(a))
    <3>1. dgq_thread_pool_size <= t_count[a]
      <4>1. CASE Overcommit
        BY <1>0, <1>5, <1>7, <2>2, <4>1 DEF Takes
      <4>2. CASE ~Overcommit
        <5>1. ~(dgq_thread_pool_size > t_count[a])
          BY <1>0, <4>2
        <5> QED BY <1>4, <5>1
      <4> QED BY <4>1, <4>2
    <3>2. t_count[a] <= 0
      BY <1>4, <1>7 DEF Available
    <3>3. dgq_thread_pool_size <= 0
      BY <1>4, <3>1, <3>2
    <3>4. CASE requests > 0
      BY <1>2, <3>4 DEF SeenTo
    <3>5. CASE ~(requests > 0)
      <4>1. PICK w \in Workers : Drains(w) \/ Parks(w)
        BY <1>3, <1>5, <3>3, <3>5, PoolServed
      <4>2. w # a /\ w \in Actors
        BY <1>0, <2>2, <4>1 DEF Drains, PopPCs, Actors
      <4>3. Sees(w)
        BY <1>5, <4>1, <4>2 DEF Sees
      <4>4. permits \in Nat
        BY <1>0 DEF TypeOK, ThreadsTyped
      <4> QED BY <1>1, <1>2, <4>2, <4>3, <4>4, SeesKept DEF SeenTo
    <3> QED BY <3>4, <3>5
  <2> QED BY <2>1, <2>2
<1>8. Available(a) >= 0
  BY <1>4 DEF Available
<1>9. Available(a) \in Int
  BY <1>4 DEF Available
<1> QED BY <1>6, <1>7, <1>8, <1>9

LEMMA PokeServed ==
  ASSUME Core, Shape, Served, NEW a \in Actors, dq' = dq,
         \/ PokeProbe(a) \/ PokeRequest(a) \/ PokeSignal(a)
         \/ PokeAdd(a) \/ PokeCount(a) \/ PokeTake(a)
  PROVE  Served'
<1>0. TypeOK /\ ControlOf(a)
  BY Parts
<1>1. CASE PokeProbe(a)
  <2>1. CASE dq_items_tail = Nil
    BY <1>1, <2>1, EmptyServed DEF PokeProbe, history
  <2>2. CASE dq_items_tail # Nil
    <3>1. Sees(a)'
      BY <1>1, <2>2, PokeProbeCore DEF Sees, Asks
    <3> QED BY <3>1, SeenBy
  <2> QED BY <2>1, <2>2
<1>2. CASE PokeRequest(a)
  BY <1>2, PokeRequestCore DEF Served, SeenTo
<1>3. CASE PokeSignal(a)
  <2>1. CASE \E w \in Workers \ {a} : pc'[w] = "drain"
    BY <2>1, DrainsOn DEF Drains
  <2>2. CASE permits' > 0 /\ pc'[a] = IF Overcommit THEN "poke_add" ELSE "poke_reserve"
    <3>1. Sees(a)'
      BY <2>2 DEF Sees, Takes
    <3> QED BY <3>1, SeenBy
  <2> QED BY <1>3, <2>1, <2>2, PokeSignalCore
<1>4. CASE PokeAdd(a)
  <2>1. OnlyOf(a) /\ pc'[a] = "poke_count" /\ pc[a] = "poke_add"
    BY <1>4, PokeAddCore DEF PokeAdd
  <2>2. UNCHANGED <<permits, requests, dgq_thread_pool_size, fifo, slipped>>
    BY <1>4 DEF PokeAdd, threads, history
  <2>3. Sees(a) => Sees(a)'
    <3>1. Sees(a) => permits > 0
      BY <2>1, Kinds, NeedsPermit DEF Asks, Drains, PopPCs, Links
    <3> QED BY <2>1, <2>2, <3>1 DEF Sees, Takes
  <2> QED BY <2>1, <2>2, <2>3, ServedStep DEF SeenTo
<1>5. CASE PokeCount(a)
  <2>1. /\ OnlyOf(a) /\ pc'[a] = "poke_take" /\ pc[a] = "poke_count"
        /\ t_count'[a] = dgq_thread_pool_size
    BY <1>5, PokeCountCore DEF PokeCount
  <2>2. UNCHANGED <<permits, requests, dgq_thread_pool_size, fifo, slipped>>
    BY <1>5 DEF PokeCount, threads, history
  <2>3. Sees(a) => Sees(a)'
    <3>1. Sees(a) => permits > 0
      BY <2>1, Kinds, NeedsPermit DEF Asks, Drains, PopPCs, Links
    <3>2. dgq_thread_pool_size' <= t_count'[a]
      BY <1>0, <2>1, <2>2, RootQueueAssumption DEF TypeOK, ThreadsTyped, QueueTypes
    <3> QED BY <2>1, <2>2, <3>1, <3>2 DEF Sees, Takes
  <2> QED BY <2>1, <2>2, <2>3, ServedStep DEF SeenTo
<1>6. CASE PokeTake(a)
  <2>1. CASE PoolUnchanged(a)
    BY <1>6, <2>1, PokeTakeCore DEF Served, SeenTo
  <2>2. CASE ~PoolUnchanged(a)
    <3>1. /\ OnlyOf(a) /\ pc'[a] = "poke_take" /\ pc[a] = "poke_take"
          /\ t_count'[a] = dgq_thread_pool_size
      BY <1>6, <2>2, PokeTakeCore DEF PokeTake
    <3>2. UNCHANGED <<permits, requests, dgq_thread_pool_size, fifo, slipped>>
      BY <1>6, <2>2 DEF PokeTake, history
    <3>3. Sees(a) => Sees(a)'
      <4>1. Sees(a) => permits > 0
        BY <3>1, Kinds, NeedsPermit DEF Asks, Drains, PopPCs, Links
      <4>2. dgq_thread_pool_size' <= t_count'[a]
        BY <1>0, <3>1, <3>2, RootQueueAssumption DEF TypeOK, ThreadsTyped, QueueTypes
      <4> QED BY <3>1, <3>2, <4>1, <4>2 DEF Sees, Takes
    <3> QED BY <3>1, <3>2, <3>3, ServedStep DEF SeenTo
  <2> QED BY <2>1, <2>2
<1> QED BY <1>1, <1>2, <1>3, <1>4, <1>5, <1>6

----------------------------------------------------------------------------
(* The steps that leave the list alone *)

Touches == PopPCs \cup {"push_link"}

LEMMA ShapeStays ==
  ASSUME Core, Shape, NEW a \in Actors, OnlyOf(a),
         UNCHANGED <<list, held, pushes, batch, prev, fifo>>,
         pc[a] \notin Touches, pc'[a] \notin Touches
  PROVE  Shape'
BY ShapeAlone DEF list, Touches

LEMMA SignalShape ==
  ASSUME Core, Shape, NEW a \in Actors, PokeSignal(a), dq' = dq
  PROVE  Shape'
<1>0. TypeOK /\ pc[a] = "poke_signal" /\ ControlOf(a)
  BY Parts DEF PokeSignal
<1>1. UNCHANGED <<list, held, pushes, batch, prev, fifo>>
  BY DEF PokeSignal, producing, history
<1>2. back[a] \in {"idle", "run", "done", "none"}
  BY <1>0 DEF TypeOK, PokingTyped
<1>3. ASSUME NEW b \in Actors
      PROVE  \/ pc'[b] = pc[b]
             \/ pc[b] \notin Touches /\ pc'[b] \notin Touches
  <2>1. CASE \E w \in Asleep : Goto(w, "drain")
    <3>1. PICK w \in Asleep : Goto(w, "drain")
      BY <2>1
    <3>2. pc[w] = "asleep"
      BY DEF Asleep
    <3> QED BY <1>0, <3>1, <3>2 DEF Goto, TypeOK, ControlTyped, Touches, PopPCs
  <2>2. CASE \E w \in Asleep : pc' = [pc EXCEPT ![w] = "drain", ![a] = back[a]]
    <3>1. PICK w \in Asleep : pc' = [pc EXCEPT ![w] = "drain", ![a] = back[a]]
      BY <2>2
    <3>2. pc[w] = "asleep"
      BY DEF Asleep
    <3>3. pc'[b] = IF b = a THEN back[a] ELSE IF b = w THEN "drain" ELSE pc[b]
      BY <1>0, <3>1, <3>2 DEF TypeOK, ControlTyped
    <3> QED BY <1>0, <1>2, <3>2, <3>3 DEF Touches, PopPCs
  <2>3. CASE Goto(a, IF Overcommit THEN "poke_add" ELSE "poke_reserve")
    BY <1>0, <2>3 DEF Goto, TypeOK, ControlTyped, Touches, PopPCs
  <2> QED BY <2>1, <2>2, <2>3 DEF PokeSignal
<1>4. \A p \in Producers : Links(p)' <=> Links(p)
  BY <1>3 DEF Links, Touches, Actors
<1>5. \A w \in Workers : Pops(w)' <=> Pops(w)
  BY <1>3 DEF Pops, Touches, Actors
<1> QED BY <1>1, <1>4, <1>5, ShapeKept DEF list

LEMMA PokeShape ==
  ASSUME Core, Shape, NEW a \in Actors, dq' = dq,
         \/ PokeProbe(a) \/ PokeRequest(a) \/ PokeAdd(a) \/ PokeCount(a)
         \/ PokeTrim(a) \/ PokeTake(a)
         \/ PokePending(a, "poke_pending", "poke_request")
         \/ PokePending(a, "poke_reserve", "poke_count")
  PROVE  Shape'
<1>0. TypeOK /\ back[a] \notin Touches
  <2>1. TypeOK
    BY Parts
  <2> QED BY <2>1 DEF TypeOK, PokingTyped, Touches, PopPCs
<1>1. UNCHANGED <<list, held, pushes, batch, prev, fifo>>
  BY DEF PokeProbe, PokeRequest, PokeAdd, PokeCount, PokeTrim, PokeTake, PokePending,
         producing, history
<1>2. pc[a] \in PokePCs
  BY DEF PokeProbe, PokeRequest, PokeAdd, PokeCount, PokeTrim, PokeTake, PokePending, PokePCs
<1>3. OnlyOf(a)
  BY PokeProbeCore, PokeRequestCore, PokeAddCore, PokeCountCore, PokeTrimCore, PokeTakeCore,
     PokePendingCore
<1>4. pc'[a] \notin Touches
  <2>1. \/ Goto(a, back[a]) \/ UNCHANGED pc
        \/ \E p \in PokePCs : Goto(a, p)
    BY DEF PokeProbe, PokeRequest, PokeAdd, PokeCount, PokeTrim, PokeTake, PokePending,
           Return, PokePCs
  <2>2. pc'[a] = back[a] \/ pc'[a] \in PokePCs
    BY <1>0, <1>2, <2>1 DEF Goto, TypeOK, ControlTyped
  <2> QED BY <1>0, <2>2 DEF Touches, PopPCs, PokePCs
<1>5. pc[a] \notin Touches
  BY <1>2 DEF Touches, PopPCs, PokePCs
<1> QED BY <1>0, <1>1, <1>3, <1>4, <1>5, ShapeStays

LEMMA WaitShape ==
  ASSUME Core, Shape, NEW w \in Workers, dq' = dq,
         \/ Look(w) \/ Gone(w) \/ Quiesced(w) \/ QuiescedTail(w)
         \/ Mark(w, "mark_gone", "gone") \/ Mark(w, "mark_quiesced", "quiesced")
         \/ Out(w) \/ Begin(w) \/ Park(w) \/ TimedOut(w) \/ Exit(w)
  PROVE  Shape'
<1>0. w \in Actors
  BY DEF Actors
<1>1. UNCHANGED <<list, held, pushes, batch, prev, fifo>>
  BY DEF Look, Gone, Quiesced, QuiescedTail, Mark, Out, Begin, Park, TimedOut, Exit,
         producing, history
<1>2. pc[w] \notin Touches
  BY DEF Look, Gone, Quiesced, QuiescedTail, Mark, Out, Begin, Park, TimedOut, Exit,
         Touches, PopPCs
<1>3. OnlyOf(w) /\ pc'[w] \notin Touches
  <2>1. CASE Look(w)
    BY <2>1, LookCore DEF Touches, PopPCs
  <2>2. CASE Gone(w) \/ Quiesced(w) \/ QuiescedTail(w)
    BY <2>2, GoneCore, QuiescedCore, QuiescedTailCore DEF Touches, PopPCs
  <2>3. CASE Mark(w, "mark_gone", "gone") \/ Mark(w, "mark_quiesced", "quiesced")
    BY <2>3, MarkCore DEF Touches, PopPCs
  <2>4. CASE Out(w)
    BY <2>4, OutCore DEF Touches, PopPCs
  <2>5. CASE Begin(w) \/ Park(w)
    BY <2>5, BeginCore, ParkCore DEF Touches, PopPCs
  <2>6. CASE TimedOut(w) \/ Exit(w)
    BY <2>6, TimedOutCore, ExitCore DEF Touches, PopPCs
  <2> QED BY <2>1, <2>2, <2>3, <2>4, <2>5, <2>6
<1> QED BY <1>0, <1>1, <1>2, <1>3, ShapeStays

LEMMA TakeShape ==
  ASSUME Core, Shape, NEW w \in Workers, dq' = dq,
         TakeNext(w) \/ WaitNext(w) \/ TakeLast(w) \/ Restore(w)
  PROVE  Shape'
<1>0. w \in Actors /\ (Pops(w) => dq_items_head \notin Items)
  BY HeadFacts DEF Actors, Popped
<1>1. CASE TakeNext(w)
  <2>1. /\ OnlyOf(w)
        /\ pc'[w] = IF do_next[held[w]] = Nil THEN "last" ELSE "poke"
        /\ UNCHANGED <<dq_items_tail, do_next, held, pushes, batch, prev, fifo>>
    BY <1>1, TakeNextCore DEF producing, history
  <2>2. Pops(w) /\ pc[w] = "next"
    BY <1>1 DEF TakeNext, Pops, PopPCs
  <2>3. CASE do_next[held[w]] = Nil
    <3>1. dq_items_head' \notin Items
      BY <1>1, <2>3, MarkersAssumption DEF TakeNext
    <3> QED BY <1>0, <2>1, <2>2, <2>3, <3>1, ShapeAlone DEF PopPCs
  <2>4. CASE do_next[held[w]] # Nil
    <3>1. dq_items_head' = do_next[held[w]]
      BY <1>1, <2>4 DEF TakeNext, HandOn
    <3> QED BY <2>1, <2>2, <2>4, <3>1, HandOnShape
  <2> QED BY <2>3, <2>4
<1>2. CASE WaitNext(w)
  <2>1. /\ OnlyOf(w) /\ pc'[w] = "poke" /\ Pops(w)
        /\ UNCHANGED <<dq_items_tail, do_next, held, pushes, batch, prev, fifo>>
        /\ do_next[held[w]] # Nil /\ dq_items_head' = do_next[held[w]]
    BY <1>2, WaitNextCore DEF WaitNext, HandOn, Pops, PopPCs, producing, history
  <2> QED BY <2>1, HandOnShape
<1>3. CASE TakeLast(w)
  <2>1. /\ OnlyOf(w) /\ pc'[w] = IF IsLast(w) THEN "run" ELSE "wait_next"
        /\ UNCHANGED <<dq_items_head, do_next, held, pushes, batch, prev, fifo>>
        /\ Pops(w) /\ pc[w] = "last"
    BY <1>3, TakeLastCore DEF TakeLast, Pops, PopPCs, producing, history
  <2>2. CASE IsLast(w)
    <3>1. dq_items_tail = held[w] /\ dq_items_tail' = Nil
      BY <1>3, <2>2 DEF TakeLast, IsLast
    <3> QED BY <2>1, <2>2, <3>1, LastShape
  <2>3. CASE ~IsLast(w)
    <3>1. dq_items_tail' = dq_items_tail
      BY <1>3, <2>3 DEF TakeLast
    <3> QED BY <1>0, <2>1, <2>3, <3>1, ShapeAlone DEF PopPCs
  <2> QED BY <2>2, <2>3
<1>4. CASE Restore(w)
  <2>1. /\ OnlyOf(w) /\ pc'[w] \in {"look", "drain"} /\ pc[w] = "restore"
        /\ UNCHANGED <<dq_items_tail, do_next, held, pushes, batch, prev, fifo>>
    BY <1>4, RestoreCore DEF Restore, producing, history
  <2>2. \/ dq_items_head' = dq_items_head
        \/ dq_items_head \notin Items /\ dq_items_head' \notin Items
    BY <1>4, MarkersAssumption DEF Restore, StillLocked
  <2> QED BY <1>0, <2>1, <2>2, ShapeAlone DEF PopPCs
<1> QED BY <1>1, <1>2, <1>3, <1>4

LEMMA MonitorShape ==
  ASSUME Core, Shape, NEW m \in Monitors, dq' = dq, MonitorStalled(m) \/ MonitorUnderused(m)
  PROVE  Shape'
<1>1. m \in Actors /\ OnlyOf(m) /\ pc'[m] = "poke"
  BY MonitorStalledCore, MonitorUnderusedCore DEF Actors
<1>2. pc[m] = "idle" /\ UNCHANGED <<list, held, pushes, batch, prev, fifo>>
  BY DEF MonitorStalled, MonitorUnderused, AtRest, producing, history
<1> QED BY <1>1, <1>2, ShapeStays DEF Touches, PopPCs

----------------------------------------------------------------------------
(* The invariant *)

LEMMA InitCore ==
  ASSUME Init
  PROVE  Core
<1>1. /\ dq \in Queues /\ dq.pool \in Nat /\ Excess \in Nat
      /\ MaxTicks \in Nat /\ MaxPush \in Nat
  BY RootQueueAssumption DEF Init, QueueTypes
<1>2. TypeOK
  <2>1. ListTyped /\ HistoryTyped
    BY EmptySeq DEF Init, ListTyped, HistoryTyped
  <2>2. ThreadsTyped
    BY <1>1 DEF Init, ThreadsTyped
  <2>3. ControlTyped
    BY RootQueueAssumption DEF Init, ControlTyped, Actors, WorkerPCs
  <2>4. ProducingTyped
    BY <1>1, EmptySeq DEF Init, ProducingTyped
  <2>5. PokingTyped /\ DrainingTyped
    BY DEF Init, PokingTyped, DrainingTyped, Statuses
  <2> QED BY <2>1, <2>2, <2>3, <2>4, <2>5 DEF TypeOK
<1>3. \A a \in Actors : pc[a] = IF a \in Workers THEN "none" ELSE "idle"
  BY DEF Init
<1>4. Cardinality({}) = 0
  BY FS_EmptySet
<1>5. PendingIsAccounted
  <2>1. Claimed = {}
    BY <1>3 DEF Claimed, Claims
  <2>2. Marks = {}
    BY DEF Init, Marks
  <2> QED BY <1>4, <2>1, <2>2, PendingDef DEF Init
<1>6. PoolIsAccounted
  <2>1. Busy = {}
    BY <1>3 DEF Busy, Actors
  <2> QED BY <1>1, <1>4, <2>1, PoolDef DEF Init
<1>7. PermitsAreLate
  BY DEF Init, PermitsAreLate
<1>8. ASSUME NEW a \in Actors PROVE ControlOf(a)
  <2>1. pc[a] = IF a \in Workers THEN "none" ELSE "idle"
    BY <1>3
  <2>2. back[a] = "idle" /\ (a \in Workers => held[a] = Nil /\ ~marked[a])
    BY DEF Init
  <2> QED BY <2>1, <2>2, Kinds DEF ControlOf, Holds, PopPCs, PoolPCs, PokePCs
<1> QED BY <1>2, <1>5, <1>6, <1>7, <1>8 DEF Core, ThreadsAreAccounted, Control

LEMMA InitInv == Init => IInv
<1> SUFFICES ASSUME Init PROVE IInv
  OBVIOUS
<1>1. Core
  BY InitCore
<1>2. fifo = <<>> /\ dq_items_head = Nil /\ dq_items_tail = Nil
  BY DEF Init
<1>3. /\ \A p \in Producers : ~Links(p)
      /\ \A w \in Workers : ~Pops(w) /\ held[w] = Nil
  BY DEF Init, Links, Pops, PopPCs, Actors
<1>4. ~Popped /\ <<>> \in Chains
  BY <1>2, <1>3 DEF Popped, Chains
<1>5. ItemsAreOnce(<<>>)
  <2>1. \A i \in Items : do_next[i] = Nil
    BY DEF Init
  <2> QED BY <1>3, <2>1 DEF ItemsAreOnce, IsInjective, Range
<1>6. LinksAreWhole(<<>>)
  BY <1>2, <1>3 DEF LinksAreWhole
<1>7. HeadHasKeeper(<<>>)
  BY <1>2, <1>3, MarkersAssumption DEF HeadHasKeeper
<1>8. Served
  BY <1>2 DEF Served
<1> QED BY <1>1, <1>4, <1>5, <1>6, <1>7, <1>8 DEF IInv, Shape, ListHasShape

LEMMA ActorInv ==
  ASSUME Core, Shape, Served, NEW a \in Actors, ActorStep(a), dq' = dq
  PROVE  Core' /\ Shape' /\ Served'
<1>1. Core'
  BY PokeProbeCore, PokePendingCore, PokeRequestCore, PokeSignalCore, PokeAddCore,
     PokeCountCore, PokeTrimCore, PokeTakeCore DEF ActorStep
<1>2. Shape'
  BY PokeShape, SignalShape DEF ActorStep
<1>3. Served'
  BY PokeServed, PokePendingServed, PokeTrimServed DEF ActorStep
<1> QED BY <1>1, <1>2, <1>3

LEMMA WorkerInv ==
  ASSUME Core, Shape, Served, NEW w \in Workers, WorkerStep(w) \/ Begin(w)
  PROVE  Core' /\ Shape' /\ Served'
<1>0. w \in Actors /\ dq' = dq
  BY DEF Actors, WorkerStep, Begin
<1>1. CASE ActorStep(w)
  BY <1>0, <1>1, ActorInv
<1>2. CASE Drain(w)
  BY <1>0, <1>2, HeadFacts, DrainCore, DrainShape, DrainServed
<1>3. CASE Restore(w)
  BY <1>0, <1>3, RestoreCore, TakeShape, DrainServed
<1>4. CASE Look(w)
  BY <1>0, <1>4, LookCore, WaitShape, DrainServed
<1>5. CASE TakeNext(w)
  BY <1>0, <1>5, TakeNextCore, TakeShape, DrainServed
<1>6. CASE TakeLast(w)
  BY <1>0, <1>6, TakeLastCore, TakeShape, DrainServed
<1>7. CASE WaitNext(w)
  BY <1>0, <1>7, WaitNextCore, TakeShape, DrainServed
<1>8. CASE Run(w)
  BY <1>0, <1>8, RunCore, RunShape, RunServed
<1>9. CASE Gone(w)
  BY <1>0, <1>9, GoneCore, WaitShape, DrainServed
<1>10. CASE Quiesced(w)
  BY <1>0, <1>10, QuiescedCore, WaitShape, DrainServed
<1>11. CASE QuiescedTail(w)
  BY <1>0, <1>11, QuiescedTailCore, WaitShape, DrainServed
<1>12. CASE Mark(w, "mark_gone", "gone")
  BY <1>0, <1>12, MarkCore, WaitShape, DrainServed
<1>13. CASE Mark(w, "mark_quiesced", "quiesced")
  BY <1>0, <1>13, MarkCore, WaitShape, DrainServed
<1>14. CASE Out(w)
  BY <1>0, <1>14, OutCore, WaitShape, OutServed
<1>15. CASE Park(w)
  BY <1>0, <1>15, ParkCore, WaitShape, ParkServed
<1>16. CASE Exit(w)
  BY <1>0, <1>16, ExitCore, WaitShape, ComesServed
<1>17. CASE Begin(w)
  BY <1>0, <1>17, BeginCore, WaitShape, ComesServed
<1> QED BY <1>1, <1>2, <1>3, <1>4, <1>5, <1>6, <1>7, <1>8, <1>9, <1>10, <1>11, <1>12,
           <1>13, <1>14, <1>15, <1>16, <1>17 DEF WorkerStep

LEMMA EnvironmentInv ==
  ASSUME Core, Shape, Served, Environment
  PROVE  Core' /\ Shape' /\ Served'
<1>0. dq' = dq
  BY DEF Environment
<1>1. CASE \E p \in Producers, b \in Batches : Push(p, b)
  BY <1>0, <1>1, PushCore, PushShape, PushServed
<1>2. CASE \E w \in Workers : TimedOut(w)
  BY <1>0, <1>2, TimedOutCore, WaitShape, ComesServed
<1>3. CASE \E m \in Monitors : MonitorUnderused(m)
  BY <1>0, <1>3, MonitorUnderusedCore, MonitorShape, MonitorServed
<1> QED BY <1>1, <1>2, <1>3 DEF Environment

LEMMA StutterInv ==
  ASSUME IInv, UNCHANGED vars
  PROVE  IInv'
<1>1. Core'
  BY DEF IInv, vars, Core, ThreadsAreAccounted, TypeOK, PendingIsAccounted, PoolIsAccounted,
         Control, ListTyped, ThreadsTyped, ControlTyped, ProducingTyped, PokingTyped,
         DrainingTyped, HistoryTyped, Requested, Claimed, Claims, Kernel, Overcommit,
         Exiting, PermitsAreLate, Asleep, ControlOf, Holds
<1>2. Shape'
  BY ShapeKept DEF IInv, vars, Links, Pops
<1>3. Served'
  BY DEF IInv, vars, Served, SeenTo, Sees, Overcommit, Links, Drains, Asks, Takes, Parks,
         Exiting, Available
<1> QED BY <1>1, <1>2, <1>3 DEF IInv

LEMMA StepInv == IInv /\ [Next]_vars => IInv'
<1> SUFFICES ASSUME IInv, [Next]_vars PROVE IInv'
  OBVIOUS
<1>0. Core /\ Shape /\ Served
  BY DEF IInv
<1>1. CASE Environment
  BY <1>0, <1>1, EnvironmentInv DEF IInv
<1>2. ASSUME NEW p \in Producers, ProducerStep(p) PROVE IInv'
  <2>1. p \in Actors /\ dq' = dq
    BY <1>2 DEF Actors, ProducerStep
  <2>2. CASE ActorStep(p)
    BY <1>0, <2>1, <2>2, ActorInv DEF IInv
  <2>3. CASE PushLink(p)
    BY <1>0, <2>1, <2>3, PushLinkCore, NewHeadShape, NewLinkShape, PushLinkServed DEF IInv
  <2> QED BY <1>2, <2>2, <2>3 DEF ProducerStep
<1>3. ASSUME NEW w \in Workers, Begin(w) \/ WorkerStep(w) PROVE IInv'
  BY <1>0, <1>3, WorkerInv DEF IInv
<1>4. ASSUME NEW m \in Monitors, MonitorStep(m) PROVE IInv'
  <2>1. m \in Actors /\ dq' = dq
    BY <1>4 DEF Actors, MonitorStep
  <2>2. CASE ActorStep(m)
    BY <1>0, <2>1, <2>2, ActorInv DEF IInv
  <2>3. CASE MonitorStalled(m)
    BY <1>0, <2>1, <2>3, MonitorStalledCore, MonitorShape, MonitorServed DEF IInv
  <2> QED BY <1>4, <2>2, <2>3 DEF MonitorStep
<1>5. CASE UNCHANGED vars
  BY <1>5, StutterInv
<1> QED BY <1>1, <1>2, <1>3, <1>4, <1>5 DEF Next

\* The counts agree, the list has its shape, and as long as no poke has slipped
\* somebody sees to the items, in every state.
THEOREM RootQueueInvariant == Spec => []IInv
BY InitInv, StepInv, PTL DEF Spec

\* A thread of a global queue is asked for once and begins once, marks of
\* contending workers apart, and comes from its pool and goes back to it.
THEOREM ThreadsAreAccountedHolds == Spec => []ThreadsAreAccounted
<1>1. IInv => ThreadsAreAccounted
  BY DEF IInv, Core
<1> QED BY <1>1, RootQueueInvariant, PTL

\* Items leave the list in the order in which they entered it, one at a time and
\* each to one worker.
THEOREM PopsInOrderHolds == Spec => []PopsInOrder
<1>1. ASSUME IInv PROVE PopsInOrder
  <2> DEFINE popping == {w \in Workers : pc[w] \in {"next", "last", "wait_next"}}
  <2>1. /\ dq_items_head \in Items => fifo # <<>> /\ dq_items_head = fifo[1]
        /\ \A v, w \in Workers : Pops(v) /\ Pops(w) => v = w
        /\ \A v, w \in Workers : held[v] = held[w] /\ v # w => held[v] = Nil
    BY <1>1, HeadFacts DEF IInv
  <2>2. Cardinality(popping) <= 1
    <3>1. \A v, w \in popping : v = w
      BY <2>1 DEF Pops, PopPCs
    <3>2. CASE popping = {}
      BY <3>2, FS_EmptySet
    <3>3. CASE popping # {}
      <4>1. PICK w \in popping : popping = {w}
        BY <3>1, <3>3
      <4> QED BY <4>1, FS_Singleton
    <3> QED BY <3>2, <3>3
  <2> QED BY <2>1, <2>2 DEF PopsInOrder
<1> QED BY <1>1, RootQueueInvariant, PTL

\* When everything is at rest nothing is left on the queue, unless a poke gave up
\* because of marks alone or of threads that were back by then; on an overcommit
\* queue not even then.
THEOREM StrandedOnlyBySlipsHolds == Spec => []StrandedOnlyBySlips
<1>1. ASSUME IInv PROVE StrandedOnlyBySlips
  <2> SUFFICES ASSUME AtRest, fifo # <<>>, slipped => Overcommit PROVE FALSE
    BY DEF StrandedOnlyBySlips, NothingIsStranded
  <2>1. SeenTo /\ PermitsAreLate /\ TypeOK
    BY <1>1, Parts DEF IInv, Served
  <2>2. PICK a \in Actors : Sees(a)
    BY <2>1 DEF SeenTo, AtRest
  <2>3. CASE a \in Workers
    <3>1. pc[a] \in {"none", "asleep"}
      BY <2>3 DEF AtRest, Running
    <3> QED BY <2>2, <2>3, <3>1, Kinds DEF Sees, Drains, PopPCs, Asks, Takes, Parks
  <2>4. CASE a \notin Workers
    <3>1. pc[a] = "idle"
      BY <2>4 DEF AtRest, Actors
    <3> QED BY <2>2, <2>4, <3>1 DEF Sees, Links, Asks, Takes
  <2> QED BY <2>3, <2>4
<1> QED BY <1>1, RootQueueInvariant, PTL

=============================================================================
