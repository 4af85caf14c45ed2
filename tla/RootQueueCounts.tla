--------------------------- MODULE RootQueueCounts --------------------------
(***************************************************************************)
(* Proofs about the threads of RootQueue, for any number of producers,     *)
(* workers and pushes, lists of any lengths and pools of any size: where a *)
(* thread is, what it holds, and that the counts of threads agree.         *)
(* RootQueueProof builds on them.                                          *)
(***************************************************************************)
EXTENDS RootQueue, FiniteSetTheorems, SequenceTheorems, TLAPS

----------------------------------------------------------------------------
(* Where the threads are *)

PopPCs == {"next", "last", "wait_next"}

\* The steps that only queues with a pool take.
PoolPCs == {"poke_signal", "poke_reserve", "poke_add", "poke_count", "poke_take",
            "asleep", "exit"}

Holds(w) ==
  \/ pc[w] \in PopPCs \cup {"run"}
  \/ pc[w] \in PokePCs /\ back[w] = "run"

ControlOf(a) ==
  /\ pc[a] \in PokePCs => remaining[a] > 0
  /\ back[a] # "idle" <=> a \in Workers /\ pc[a] \in PokePCs
  /\ Kernel => pc[a] \notin PoolPCs /\ back[a] # "none"
  /\ ~Kernel => pc[a] \notin {"poke_pending", "poke_request"}
  /\ Overcommit => pc[a] # "poke_reserve"
  /\ a \in Workers =>
       /\ held[a] # Nil <=> Holds(a)
       /\ marked[a] => pc[a] \in {"gone", "quiesced", "quiesced_tail", "out"}
  /\ a \in Producers /\ pc[a] = "push_link" =>
       /\ batch[a] # <<>> /\ batch[a][1].by = a
       /\ batch[a][1].push = pushes[a]

\* Permits are left only when nobody sleeps, and in queues with a pool.
PermitsAreLate ==
  /\ Kernel => permits = 0
  /\ permits > 0 => Asleep = {}

Control == PermitsAreLate /\ \A a \in Actors : ControlOf(a)

Core == ThreadsAreAccounted /\ Control

----------------------------------------------------------------------------
(* Counts *)

Marks == {w \in Workers : marked[w]}
Busy == {w \in Workers : pc[w] # "none" /\ ~Exiting(w)}

LEMMA PendingDef ==
  PendingIsAccounted <=> dgq_pending = requests + Cardinality(Claimed) + Cardinality(Marks)
BY DEF PendingIsAccounted, Requested, Marks

LEMMA PendingDefNext ==
  PendingIsAccounted' <=>
    dgq_pending' = requests' + Cardinality(Claimed') + Cardinality(Marks')
BY DEF PendingIsAccounted, Requested, Marks

LEMMA PoolDef ==
  PoolIsAccounted <=>
    (~Kernel => dgq_thread_pool_size + requests + Cardinality(Busy) = dq.pool)
BY DEF PoolIsAccounted, Busy

LEMMA PoolDefNext ==
  PoolIsAccounted' <=>
    (~Kernel' => dgq_thread_pool_size' + requests' + Cardinality(Busy') = dq'.pool)
BY DEF PoolIsAccounted, Busy

LEMMA Finite ==
  /\ IsFiniteSet(Actors)
  /\ \A S \in SUBSET Actors : IsFiniteSet(S) /\ Cardinality(S) \in Nat
BY RootQueueAssumption, FS_Union, FS_Subset, FS_CardinalityType DEF Actors

\* A row of r[a] places for each a of C.
Rows(C, r) == UNION {{a} \X (1 .. r[a]) : a \in C}

LEMMA RowFacts ==
  ASSUME NEW a, NEW n \in Nat
  PROVE  /\ IsFiniteSet({a} \X (1 .. n))
         /\ Cardinality({a} \X (1 .. n)) = n
<1>1. IsFiniteSet(1 .. n) /\ Cardinality(1 .. n) = n
  BY FS_Interval
<1>2. IsFiniteSet({a}) /\ Cardinality({a}) = 1
  BY FS_Singleton
<1>3. /\ IsFiniteSet({a} \X (1 .. n))
      /\ Cardinality({a} \X (1 .. n)) = Cardinality({a}) * Cardinality(1 .. n)
  BY <1>1, <1>2, FS_Product
<1> QED BY <1>1, <1>2, <1>3

LEMMA RowsFacts ==
  ASSUME NEW C \in SUBSET Actors, NEW r, \A a \in C : r[a] \in Nat
  PROVE  IsFiniteSet(Rows(C, r)) /\ Cardinality(Rows(C, r)) \in Nat
<1> DEFINE rows == {{a} \X (1 .. r[a]) : a \in C}
<1>1. IsFiniteSet(C)
  BY Finite
<1>2. IsFiniteSet(rows)
  <2> DEFINE f == [a \in C |-> {a} \X (1 .. r[a])]
  <2>1. f \in Surjection(C, rows)
    BY DEF Surjection
  <2> HIDE DEF f, rows
  <2> QED BY <2>1, <1>1, FS_Surjection
<1>3. ASSUME NEW T \in rows PROVE IsFiniteSet(T)
  <2>1. PICK a \in C : T = {a} \X (1 .. r[a])
    OBVIOUS
  <2>2. IsFiniteSet({a} \X (1 .. r[a]))
    BY RowFacts
  <2> QED BY <2>1, <2>2
<1>4. IsFiniteSet(UNION rows)
  <2> HIDE DEF rows
  <2> QED BY <1>2, <1>3, FS_UNION
<1> QED BY <1>4, FS_CardinalityType DEF Rows

LEMMA RowAdded ==
  ASSUME NEW C \in SUBSET Actors, NEW r, \A b \in C : r[b] \in Nat,
         NEW a \in C
  PROVE  Cardinality(Rows(C, r)) = Cardinality(Rows(C \ {a}, r)) + r[a]
<1> DEFINE rest == Rows(C \ {a}, r)
           row == {a} \X (1 .. r[a])
<1>1. Rows(C, r) = rest \cup row
  BY DEF Rows
<1>2. rest \cap row = {}
  BY DEF Rows
<1>3. IsFiniteSet(rest) /\ Cardinality(rest) \in Nat
  BY RowsFacts
<1>4. IsFiniteSet(row) /\ Cardinality(row) = r[a]
  BY RowFacts
<1> HIDE DEF rest, row
<1>5. Cardinality(rest \cup row) = Cardinality(rest) + Cardinality(row) - 0
  BY <1>2, <1>3, <1>4, FS_Union, FS_EmptySet
<1> QED BY <1>1, <1>3, <1>4, <1>5 DEF rest

\* What a contributes to the rows of C.
RowOf(a, C, r) == IF a \in C THEN r[a] ELSE 0

LEMMA RowsLeft ==
  ASSUME NEW C \in SUBSET Actors, NEW r, \A b \in C : r[b] \in Nat, NEW a \in Actors
  PROVE  /\ Cardinality(Rows(C, r)) - RowOf(a, C, r) = Cardinality(Rows(C \ {a}, r))
         /\ Cardinality(Rows(C, r)) \in Nat
<1>1. Cardinality(Rows(C, r)) \in Nat /\ Cardinality(Rows(C \ {a}, r)) \in Nat
  BY RowsFacts
<1>2. CASE a \in C
  <2>1. RowOf(a, C, r) = r[a] /\ r[a] \in Nat
    BY <1>2 DEF RowOf
  <2>2. Cardinality(Rows(C, r)) = Cardinality(Rows(C \ {a}, r)) + r[a]
    BY <1>2, RowAdded
  <2> QED BY <1>1, <2>1, <2>2
<1>3. CASE a \notin C
  <2>1. RowOf(a, C, r) = 0 /\ C \ {a} = C
    BY <1>3 DEF RowOf
  <2> QED BY <1>1, <2>1
<1> QED BY <1>2, <1>3

LEMMA RowsStep ==
  ASSUME NEW C \in SUBSET Actors, NEW r, \A b \in C : r[b] \in Nat,
         NEW D \in SUBSET Actors, NEW s, \A b \in D : s[b] \in Nat,
         NEW a \in Actors, C \ {a} = D \ {a}, \A b \in C \ {a} : r[b] = s[b]
  PROVE  /\ Cardinality(Rows(D, s)) - RowOf(a, D, s)
              = Cardinality(Rows(C, r)) - RowOf(a, C, r)
         /\ Cardinality(Rows(C, r)) \in Nat /\ Cardinality(Rows(D, s)) \in Nat
<1>1. Rows(C \ {a}, r) = Rows(D \ {a}, s)
  BY DEF Rows
<1>2. /\ Cardinality(Rows(C, r)) - RowOf(a, C, r) = Cardinality(Rows(C \ {a}, r))
      /\ Cardinality(Rows(C, r)) \in Nat
  BY RowsLeft
<1>3. /\ Cardinality(Rows(D, s)) - RowOf(a, D, s) = Cardinality(Rows(D \ {a}, s))
      /\ Cardinality(Rows(D, s)) \in Nat
  BY RowsLeft
<1> QED BY <1>1, <1>2, <1>3

\* Membership as a number.
One(a, S) == IF a \in S THEN 1 ELSE 0

LEMMA SetLeft ==
  ASSUME NEW S \in SUBSET Actors, NEW a \in Actors
  PROVE  /\ Cardinality(S) - One(a, S) = Cardinality(S \ {a})
         /\ Cardinality(S) \in Nat
<1>1. IsFiniteSet(S) /\ Cardinality(S) \in Nat
  BY Finite
<1>2. Cardinality(S \ {a}) = IF a \in S THEN Cardinality(S) - 1 ELSE Cardinality(S)
  BY <1>1, FS_RemoveElement
<1> QED BY <1>1, <1>2 DEF One

LEMMA SetStep ==
  ASSUME NEW S \in SUBSET Actors, NEW T \in SUBSET Actors, NEW a \in Actors,
         S \ {a} = T \ {a}
  PROVE  /\ Cardinality(T) - One(a, T) = Cardinality(S) - One(a, S)
         /\ Cardinality(S) \in Nat /\ Cardinality(T) \in Nat
BY SetLeft

\* A step of a does not touch the place, the locals and the marks of anybody else.
OnlyOf(a) ==
  /\ \A b \in Actors \ {a} :
       /\ pc'[b] = pc[b] /\ remaining'[b] = remaining[b]
       /\ t_count'[b] = t_count[b] /\ back'[b] = back[b]
  /\ \A w \in Workers \ {a} :
       /\ held'[w] = held[w] /\ marked'[w] = marked[w]
       /\ status'[w] = status[w] /\ headless'[w] = headless[w]
  /\ \A p \in Producers \ {a} :
       pushes'[p] = pushes[p] /\ batch'[p] = batch[p] /\ prev'[p] = prev[p]

\* What a has of each of the counts.
Row(a) == RowOf(a, Claims, remaining)
Mark1(a) == One(a, Marks)
Busy1(a) == One(a, Busy)

LEMMA CountStep ==
  ASSUME TypeOK, PokingTyped', NEW a \in Actors,
         Claims' \ {a} = Claims \ {a},
         \A b \in Claims \ {a} : remaining'[b] = remaining[b],
         Marks' \ {a} = Marks \ {a}, Busy' \ {a} = Busy \ {a}
  PROVE  /\ Cardinality(Claimed') - Row(a)' = Cardinality(Claimed) - Row(a)
         /\ Cardinality(Marks') - Mark1(a)' = Cardinality(Marks) - Mark1(a)
         /\ Cardinality(Busy') - Busy1(a)' = Cardinality(Busy) - Busy1(a)
         /\ Cardinality(Claimed) \in Nat /\ Cardinality(Claimed') \in Nat
         /\ Cardinality(Marks) \in Nat /\ Cardinality(Marks') \in Nat
         /\ Cardinality(Busy) \in Nat /\ Cardinality(Busy') \in Nat
<1>1. /\ Claims \in SUBSET Actors /\ Claims' \in SUBSET Actors
      /\ Marks \in SUBSET Actors /\ Marks' \in SUBSET Actors
      /\ Busy \in SUBSET Actors /\ Busy' \in SUBSET Actors
  BY DEF Claims, Marks, Busy, Actors
<1>2. /\ \A b \in Claims : remaining[b] \in Nat
      /\ \A b \in Claims' : remaining'[b] \in Nat
  BY <1>1 DEF TypeOK, PokingTyped
<1>3. /\ Claimed = Rows(Claims, remaining)
      /\ Claimed' = Rows(Claims', remaining')
  BY DEF Claimed, Rows
<1>4. /\ Row(a) = RowOf(a, Claims, remaining) /\ Row(a)' = RowOf(a, Claims', remaining')
      /\ Mark1(a) = One(a, Marks) /\ Mark1(a)' = One(a, Marks')
      /\ Busy1(a) = One(a, Busy) /\ Busy1(a)' = One(a, Busy')
  BY DEF Row, Mark1, Busy1, RowOf, One
<1>5. /\ Cardinality(Rows(Claims', remaining')) - RowOf(a, Claims', remaining')
           = Cardinality(Rows(Claims, remaining)) - RowOf(a, Claims, remaining)
      /\ Cardinality(Rows(Claims, remaining)) \in Nat
      /\ Cardinality(Rows(Claims', remaining')) \in Nat
  <2> \A b \in Claims \ {a} : remaining[b] = remaining'[b]
    OBVIOUS
  <2> HIDE DEF Claims
  <2> QED BY <1>1, <1>2, RowsStep
<1>6. /\ Cardinality(Marks') - One(a, Marks') = Cardinality(Marks) - One(a, Marks)
      /\ Cardinality(Marks) \in Nat /\ Cardinality(Marks') \in Nat
  BY <1>1, SetStep
<1>7. /\ Cardinality(Busy') - One(a, Busy') = Cardinality(Busy) - One(a, Busy)
      /\ Cardinality(Busy) \in Nat /\ Cardinality(Busy') \in Nat
  BY <1>1, SetStep
<1> QED BY <1>3, <1>4, <1>5, <1>6, <1>7

LEMMA OthersStay ==
  ASSUME NEW a \in Actors, OnlyOf(a)
  PROVE  /\ Claims' \ {a} = Claims \ {a}
         /\ \A b \in Claims \ {a} : remaining'[b] = remaining[b]
         /\ Marks' \ {a} = Marks \ {a}
         /\ Busy' \ {a} = Busy \ {a}
<1>1. Claims' \ {a} = Claims \ {a} /\ \A b \in Claims \ {a} : remaining'[b] = remaining[b]
  BY DEF OnlyOf, Claims
<1>2. Marks' \ {a} = Marks \ {a}
  BY DEF OnlyOf, Marks
<1>3. Busy' \ {a} = Busy \ {a}
  BY DEF OnlyOf, Busy, Exiting, Actors
<1> QED BY <1>1, <1>2, <1>3

\* What a step of a takes from one count it has to add to another.
Balanced(a) ==
  /\ requests' \in Nat /\ dgq_pending' \in Int /\ dgq_thread_pool_size' \in Int
  /\ dgq_pending' - requests' - Row(a)' - Mark1(a)'
       = dgq_pending - requests - Row(a) - Mark1(a)
  /\ ~Kernel => dgq_thread_pool_size' + requests' + Busy1(a)'
                  = dgq_thread_pool_size + requests + Busy1(a)

LEMMA OneFacts ==
  ASSUME TypeOK, NEW a \in Actors
  PROVE  Row(a) \in Nat /\ Mark1(a) \in Nat /\ Busy1(a) \in Nat
BY DEF TypeOK, PokingTyped, Row, RowOf, Mark1, Busy1, One

LEMMA OneFactsNext ==
  ASSUME PokingTyped', NEW a \in Actors
  PROVE  Row(a)' \in Nat /\ Mark1(a)' \in Nat /\ Busy1(a)' \in Nat
BY DEF PokingTyped, Row, RowOf, Mark1, Busy1, One

LEMMA AccountStep ==
  ASSUME ThreadsAreAccounted, PokingTyped', NEW a \in Actors, dq' = dq,
         Claims' \ {a} = Claims \ {a},
         \A b \in Claims \ {a} : remaining'[b] = remaining[b],
         Marks' \ {a} = Marks \ {a}, Busy' \ {a} = Busy \ {a},
         Balanced(a)
  PROVE  /\ PendingIsAccounted' /\ PoolIsAccounted'
         /\ dgq_pending' \in Nat
         /\ ~Kernel => dgq_thread_pool_size' <= dq.pool
<1>1. /\ Row(a) \in Nat /\ Mark1(a) \in Nat /\ Busy1(a) \in Nat
      /\ Row(a)' \in Nat /\ Mark1(a)' \in Nat /\ Busy1(a)' \in Nat
  BY OneFacts, OneFactsNext DEF ThreadsAreAccounted
<1>2. /\ Cardinality(Claimed') - Row(a)' = Cardinality(Claimed) - Row(a)
      /\ Cardinality(Marks') - Mark1(a)' = Cardinality(Marks) - Mark1(a)
      /\ Cardinality(Busy') - Busy1(a)' = Cardinality(Busy) - Busy1(a)
      /\ Cardinality(Claimed) \in Nat /\ Cardinality(Claimed') \in Nat
      /\ Cardinality(Marks) \in Nat /\ Cardinality(Marks') \in Nat
      /\ Cardinality(Busy) \in Nat /\ Cardinality(Busy') \in Nat
  BY CountStep DEF ThreadsAreAccounted
<1>3. /\ requests \in Nat /\ dgq_pending \in Nat /\ dgq_thread_pool_size \in Int
      /\ dq.pool \in Nat
  BY RootQueueAssumption DEF ThreadsAreAccounted, TypeOK, ThreadsTyped, QueueTypes
<1>4. /\ dgq_pending = requests + Cardinality(Claimed) + Cardinality(Marks)
      /\ ~Kernel => dgq_thread_pool_size + requests + Cardinality(Busy) = dq.pool
  BY PendingDef, PoolDef DEF ThreadsAreAccounted
<1>5. dgq_pending' = requests' + Cardinality(Claimed') + Cardinality(Marks')
  BY <1>1, <1>2, <1>3, <1>4 DEF Balanced
<1>6. ~Kernel => dgq_thread_pool_size' + requests' + Cardinality(Busy') = dq.pool
  <2> SUFFICES ASSUME ~Kernel
               PROVE  dgq_thread_pool_size' + requests' + Cardinality(Busy') = dq.pool
    OBVIOUS
  <2>1. /\ dgq_thread_pool_size' + requests' + Busy1(a)'
             = dgq_thread_pool_size + requests + Busy1(a)
        /\ dgq_thread_pool_size' \in Int /\ requests' \in Nat
    BY DEF Balanced
  <2>2. dgq_thread_pool_size + requests + Cardinality(Busy) = dq.pool
    BY <1>4
  <2> QED BY <1>1, <1>2, <1>3, <2>1, <2>2
<1>7. PendingIsAccounted' /\ PoolIsAccounted'
  BY <1>5, <1>6, PendingDefNext, PoolDefNext DEF Kernel
<1>8. dgq_pending' \in Nat
  BY <1>2, <1>5 DEF Balanced
<1>9. ~Kernel => dgq_thread_pool_size' <= dq.pool
  BY <1>2, <1>3, <1>6 DEF Balanced
<1> QED BY <1>7, <1>8, <1>9

----------------------------------------------------------------------------
(* Calls *)

PCs(a) ==
  IF a \in Producers THEN {"idle", "push_link"} \cup PokePCs
  ELSE IF a \in Workers THEN WorkerPCs \cup PokePCs
  ELSE {"idle"} \cup PokePCs

LEMMA PlaceFacts ==
  ASSUME TypeOK, NEW a \in Actors
  PROVE  pc[a] \in PCs(a)
BY DEF TypeOK, ControlTyped, PCs, Actors

LEMMA GotoFacts ==
  ASSUME TypeOK, NEW a \in Actors, NEW p \in PCs(a), Goto(a, p)
  PROVE  ControlTyped' /\ pc'[a] = p /\ \A b \in Actors \ {a} : pc'[b] = pc[b]
<1>1. pc'[a] = p /\ \A b \in Actors \ {a} : pc'[b] = pc[b]
  BY DEF TypeOK, ControlTyped, Goto
<1>2. p \in {"idle", "push_link"} \cup PokePCs \cup WorkerPCs
  BY DEF PCs, WorkerPCs
<1>3. pc' \in [Actors -> {"idle", "push_link"} \cup PokePCs \cup WorkerPCs]
  BY <1>2 DEF TypeOK, ControlTyped, Goto
<1>4. \A b \in Actors : pc'[b] \in PCs(b)
  BY <1>1, PlaceFacts
<1>5. /\ \A q \in Producers : pc'[q] \in {"idle", "push_link"} \cup PokePCs
      /\ \A w \in Workers : pc'[w] \in WorkerPCs \cup PokePCs
      /\ \A m \in Monitors : pc'[m] \in {"idle"} \cup PokePCs
  BY <1>4, RootQueueAssumption DEF PCs, Actors
<1> QED BY <1>1, <1>3, <1>5 DEF ControlTyped

LEMMA PokeFacts ==
  ASSUME TypeOK, NEW a \in Actors, NEW n \in Nat,
         NEW p \in {"idle", "run", "done", "none"}, Poke(a, n, p)
  PROVE  /\ ControlTyped' /\ PokingTyped'
         /\ pc'[a] = "poke" /\ remaining'[a] = n /\ back'[a] = p
         /\ t_count' = t_count
         /\ \A b \in Actors \ {a} :
              pc'[b] = pc[b] /\ remaining'[b] = remaining[b] /\ back'[b] = back[b]
<1>1. "poke" \in PCs(a) /\ Goto(a, "poke")
  BY DEF PCs, PokePCs, Poke
<1>2. ControlTyped' /\ pc'[a] = "poke" /\ \A b \in Actors \ {a} : pc'[b] = pc[b]
  BY <1>1, GotoFacts
<1>3. remaining' \in [Actors -> Nat] /\ back' \in [Actors -> {"idle", "run", "done", "none"}]
  BY DEF TypeOK, PokingTyped, Poke
<1>4. /\ remaining'[a] = n /\ back'[a] = p
      /\ \A b \in Actors \ {a} : remaining'[b] = remaining[b] /\ back'[b] = back[b]
  BY DEF TypeOK, PokingTyped, Poke
<1> QED BY <1>2, <1>3, <1>4 DEF TypeOK, PokingTyped, Poke

LEMMA ReturnFacts ==
  ASSUME TypeOK, NEW a \in Actors, ControlOf(a), pc[a] \in PokePCs, Return(a)
  PROVE  /\ ControlTyped' /\ PokingTyped'
         /\ pc'[a] = back[a] /\ remaining'[a] = 0 /\ t_count'[a] = 0
         /\ back'[a] = "idle"
         /\ \A b \in Actors \ {a} :
              /\ pc'[b] = pc[b] /\ remaining'[b] = remaining[b]
              /\ t_count'[b] = t_count[b] /\ back'[b] = back[b]
         /\ back[a] \in IF a \in Workers THEN {"run", "done", "none"} ELSE {"idle"}
<1>1. back[a] \in IF a \in Workers THEN {"run", "done", "none"} ELSE {"idle"}
  BY DEF TypeOK, PokingTyped, ControlOf
<1>2. back[a] \in PCs(a) /\ Goto(a, back[a])
  BY <1>1, RootQueueAssumption DEF PCs, WorkerPCs, Return
<1>3. ControlTyped' /\ pc'[a] = back[a] /\ \A b \in Actors \ {a} : pc'[b] = pc[b]
  BY <1>2, GotoFacts
<1>4. /\ remaining' \in [Actors -> Nat] /\ t_count' \in [Actors -> Int]
      /\ back' \in [Actors -> {"idle", "run", "done", "none"}]
  BY DEF TypeOK, PokingTyped, Return
<1>5. /\ remaining'[a] = 0 /\ t_count'[a] = 0 /\ back'[a] = "idle"
      /\ \A b \in Actors \ {a} :
           /\ remaining'[b] = remaining[b]
           /\ t_count'[b] = t_count[b] /\ back'[b] = back[b]
  BY DEF TypeOK, PokingTyped, Return
<1> QED BY <1>1, <1>3, <1>4, <1>5 DEF PokingTyped

LEMMA ControlStep ==
  ASSUME Control, NEW a \in Actors, OnlyOf(a), dq' = dq, ControlOf(a)', PermitsAreLate'
  PROVE  Control'
<1>1. ASSUME NEW b \in Actors, b # a PROVE ControlOf(b)'
  BY <1>1 DEF Control, ControlOf, OnlyOf, Holds, Kernel, Overcommit
<1> QED BY <1>1 DEF Control

LEMMA PermitsKept ==
  ASSUME PermitsAreLate, TypeOK, NEW a \in Actors, OnlyOf(a), dq' = dq, permits' = permits,
         pc'[a] # "asleep"
  PROVE  PermitsAreLate'
<1>1. Asleep' \subseteq Asleep
  BY DEF Asleep, OnlyOf, Actors
<1> QED BY <1>1 DEF PermitsAreLate, Kernel

\* The same numbers by the place and the locals of a.
LEMMA OneDef ==
  ASSUME NEW a \in Actors
  PROVE  /\ Row(a) = IF pc[a] \in {"poke_request", "poke_count", "poke_take"}
                     THEN remaining[a] ELSE 0
         /\ Mark1(a) = IF a \in Workers /\ marked[a] THEN 1 ELSE 0
         /\ Busy1(a) = IF a \in Workers /\ pc[a] # "none" /\ ~Exiting(a) THEN 1 ELSE 0
BY DEF Row, RowOf, Claims, Mark1, Marks, Busy1, Busy, One

LEMMA OneDefNext ==
  ASSUME NEW a \in Actors
  PROVE  /\ Row(a)' = IF pc'[a] \in {"poke_request", "poke_count", "poke_take"}
                      THEN remaining'[a] ELSE 0
         /\ Mark1(a)' = IF a \in Workers /\ marked'[a] THEN 1 ELSE 0
         /\ Busy1(a)' = IF a \in Workers /\ pc'[a] # "none" /\ ~Exiting(a)' THEN 1 ELSE 0
BY DEF Row, RowOf, Claims, Mark1, Marks, Busy1, Busy, One

\* What of the types a step has to keep by itself.
PartsTyped ==
  /\ ListTyped /\ ControlTyped /\ ProducingTyped
  /\ PokingTyped /\ DrainingTyped /\ HistoryTyped

LEMMA CoreStep ==
  ASSUME Core, NEW a \in Actors, OnlyOf(a), dq' = dq, Balanced(a), PartsTyped',
         permits' \in Nat, dgq_thread_pool_size' >= -Excess,
         Kernel => dgq_thread_pool_size' = dgq_thread_pool_size,
         PermitsAreLate', ControlOf(a)'
  PROVE  Core'
<1>1. /\ PendingIsAccounted' /\ PoolIsAccounted'
      /\ dgq_pending' \in Nat
      /\ ~Kernel => dgq_thread_pool_size' <= dq.pool
  <2>1. /\ Claims' \ {a} = Claims \ {a}
        /\ \A b \in Claims \ {a} : remaining'[b] = remaining[b]
        /\ Marks' \ {a} = Marks \ {a} /\ Busy' \ {a} = Busy \ {a}
    BY OthersStay
  <2> QED BY <2>1, AccountStep DEF Core, PartsTyped
<1>2. dgq_thread_pool_size' \in -Excess .. dq.pool
  <2>1. /\ dgq_thread_pool_size' \in Int /\ dgq_thread_pool_size \in -Excess .. dq.pool
        /\ dq.pool \in Nat /\ Excess \in Nat
    BY RootQueueAssumption
    DEF Balanced, Core, ThreadsAreAccounted, TypeOK, ThreadsTyped, QueueTypes
  <2> QED BY <1>1, <2>1
<1>3. TypeOK'
  BY <1>1, <1>2 DEF Core, ThreadsAreAccounted, TypeOK, ThreadsTyped, PartsTyped, Balanced
<1>4. Control'
  BY ControlStep DEF Core
<1> QED BY <1>1, <1>3, <1>4 DEF Core, ThreadsAreAccounted

\* Steps that leave the counts alone.
LEMMA QuietCore ==
  ASSUME Core, NEW a \in Actors, OnlyOf(a), dq' = dq, PartsTyped',
         UNCHANGED <<dgq_pending, dgq_thread_pool_size, permits, requests>>,
         Row(a)' = Row(a), Mark1(a)' = Mark1(a), ~Kernel => Busy1(a)' = Busy1(a),
         ControlOf(a)', pc'[a] # "asleep"
  PROVE  Core'
<1>1. /\ requests \in Nat /\ dgq_pending \in Nat /\ permits \in Nat
      /\ dgq_thread_pool_size \in Int /\ dgq_thread_pool_size >= -Excess
  BY RootQueueAssumption DEF Core, ThreadsAreAccounted, TypeOK, ThreadsTyped, QueueTypes
<1>2. Balanced(a)
  BY <1>1 DEF Balanced
<1>3. PermitsAreLate'
  BY PermitsKept DEF Core, Control, ThreadsAreAccounted
<1> QED BY <1>1, <1>2, <1>3, CoreStep

----------------------------------------------------------------------------
(* The counts and the control state, action by action *)

LEMMA Parts ==
  ASSUME Core
  PROVE  TypeOK /\ PartsTyped /\ PermitsAreLate /\ \A a \in Actors : ControlOf(a)
BY DEF Core, ThreadsAreAccounted, TypeOK, PartsTyped, Control

LEMMA Kinds ==
  ASSUME NEW a \in Actors
  PROVE  /\ a \in Producers => a \notin Workers /\ a \notin Monitors
         /\ a \in Workers => a \notin Producers /\ a \notin Monitors
         /\ a \in Monitors => a \notin Producers /\ a \notin Workers
BY RootQueueAssumption

LEMMA DrainCore ==
  ASSUME Core, NEW w \in Workers, Drain(w), dq' = dq, dq_items_head \in Items => fifo # <<>>
  PROVE  Core' /\ OnlyOf(w)
<1>0. w \in Actors /\ TypeOK /\ PartsTyped /\ ControlOf(w)
  BY Parts DEF Actors
<1>1. PICK p \in {"restore", "gone", "next"} :
        Goto(w, p) /\ (p = "next" <=> dq_items_head \in Items)
  BY MarkersAssumption DEF Drain
<1>2. ControlTyped' /\ pc'[w] = p /\ \A b \in Actors \ {w} : pc'[b] = pc[b]
  BY <1>0, <1>1, GotoFacts, Kinds DEF PCs, WorkerPCs
<1>3. /\ held' = IF p = "next" THEN [held EXCEPT ![w] = dq_items_head] ELSE held
      /\ fifo' = IF p = "next" THEN Tail(fifo) ELSE fifo
      /\ dq_items_head' = Mediator
  BY <1>1, MarkersAssumption DEF Drain, HeadExchanged
<1>4. fifo' \in Seq(Items)
  BY <1>0, <1>1, <1>3, HeadTailProperties DEF PartsTyped, HistoryTyped
<1>5. PartsTyped'
  BY <1>0, <1>1, <1>2, <1>3, <1>4
  DEF Drain, PartsTyped, ListTyped, ProducingTyped, PokingTyped, DrainingTyped, HistoryTyped,
      producing, poking, contending
<1>6. OnlyOf(w)
  BY <1>0, <1>2, <1>3
  DEF Drain, OnlyOf, PartsTyped, DrainingTyped, producing, poking, contending
<1>7. /\ held'[w] = IF p = "next" THEN dq_items_head ELSE held[w]
      /\ marked' = marked /\ remaining' = remaining /\ back' = back
      /\ pc[w] = "drain"
  BY <1>0, <1>3 DEF Drain, PartsTyped, DrainingTyped, poking, contending
<1>8. ControlOf(w)'
  BY <1>0, <1>1, <1>2, <1>7, MarkersAssumption, Kinds
  DEF ControlOf, Holds, PopPCs, PoolPCs, PokePCs, Kernel, Overcommit
<1>9. Row(w)' = Row(w) /\ Mark1(w)' = Mark1(w) /\ Busy1(w)' = Busy1(w)
  BY <1>0, <1>2, <1>7, OneDef, OneDefNext DEF Exiting, PokePCs
<1>10. UNCHANGED <<dgq_pending, dgq_thread_pool_size, permits, requests>>
  BY DEF Drain, threads
<1> QED BY <1>0, <1>2, <1>5, <1>6, <1>8, <1>9, <1>10, QuietCore

\* A worker goes on within a drain or a wait.
LEMMA WorkerGoes ==
  ASSUME Core, NEW w \in Workers, NEW p \in WorkerPCs \ {"none", "asleep", "exit"},
         Goto(w, p), pc[w] \in WorkerPCs \ {"none"},
         UNCHANGED <<dq, dgq_pending, threads, producing, poking, held, marked>>,
         ListTyped', HistoryTyped', DrainingTyped',
         \A v \in Workers \ {w} : status'[v] = status[v] /\ headless'[v] = headless[v],
         held[w] # Nil <=> p \in PopPCs \cup {"run"},
         marked[w] => p \in {"gone", "quiesced", "quiesced_tail", "out"}
  PROVE  Core' /\ OnlyOf(w) /\ pc'[w] = p
<1>0. w \in Actors /\ TypeOK /\ PartsTyped /\ ControlOf(w)
  BY Parts DEF Actors
<1>2. ControlTyped' /\ pc'[w] = p /\ \A b \in Actors \ {w} : pc'[b] = pc[b]
  BY <1>0, GotoFacts, Kinds DEF PCs
<1>3. PartsTyped'
  BY <1>0, <1>2 DEF PartsTyped, ProducingTyped, PokingTyped, producing, poking
<1>4. OnlyOf(w)
  BY <1>0, <1>2 DEF OnlyOf, producing, poking
<1>5. p \notin PokePCs /\ pc[w] \notin PokePCs
  BY DEF WorkerPCs, PokePCs
<1>6. ControlOf(w)'
  BY <1>0, <1>2, <1>5, Kinds
  DEF ControlOf, Holds, PopPCs, PoolPCs, PokePCs, Kernel, Overcommit, poking
<1>7. Row(w)' = Row(w) /\ Mark1(w)' = Mark1(w) /\ Busy1(w)' = Busy1(w)
  <2> p # "none" /\ pc[w] # "none"
    OBVIOUS
  <2> QED BY <1>0, <1>2, <1>5, OneDef, OneDefNext DEF Exiting, PokePCs
<1>8. UNCHANGED <<dgq_pending, dgq_thread_pool_size, permits, requests>>
  BY DEF threads
<1> QED BY <1>0, <1>2, <1>3, <1>4, <1>6, <1>7, <1>8, QuietCore

\* A worker asks for another thread and will go on at p.
LEMMA WorkerPokes ==
  ASSUME Core, NEW w \in Workers, NEW p \in {"run", "done"},
         Poke(w, 1, p), pc[w] \in WorkerPCs \ {"none"},
         UNCHANGED <<dq, dgq_pending, threads, producing, held, contending>>,
         ListTyped', HistoryTyped',
         held[w] # Nil <=> p = "run", ~marked[w]
  PROVE  Core' /\ OnlyOf(w) /\ pc'[w] = "poke"
<1>0. w \in Actors /\ TypeOK /\ PartsTyped /\ ControlOf(w)
  BY Parts DEF Actors
<1>2. /\ ControlTyped' /\ PokingTyped'
      /\ pc'[w] = "poke" /\ remaining'[w] = 1 /\ back'[w] = p
      /\ t_count' = t_count
      /\ \A b \in Actors \ {w} :
           pc'[b] = pc[b] /\ remaining'[b] = remaining[b] /\ back'[b] = back[b]
  BY <1>0, PokeFacts
<1>3. PartsTyped'
  BY <1>0, <1>2 DEF PartsTyped, ProducingTyped, DrainingTyped, producing, contending
<1>4. OnlyOf(w)
  BY <1>0, <1>2 DEF OnlyOf, producing, contending
<1>5. pc[w] \notin PokePCs
  BY DEF WorkerPCs, PokePCs
<1>6. ControlOf(w)'
  BY <1>0, <1>2, <1>5, Kinds
  DEF ControlOf, Holds, PopPCs, PoolPCs, PokePCs, Kernel, Overcommit, contending
<1>7. Row(w)' = Row(w) /\ Mark1(w)' = Mark1(w) /\ Busy1(w)' = Busy1(w)
  <2> pc[w] # "none" /\ p # "none"
    OBVIOUS
  <2> QED BY <1>0, <1>2, <1>5, OneDef, OneDefNext DEF Exiting, PokePCs, contending
<1>8. UNCHANGED <<dgq_pending, dgq_thread_pool_size, permits, requests>>
  BY DEF threads
<1> QED BY <1>0, <1>2, <1>3, <1>4, <1>6, <1>7, <1>8, QuietCore

LEMMA RestoreCore ==
  ASSUME Core, NEW w \in Workers, Restore(w), dq' = dq
  PROVE  Core' /\ OnlyOf(w) /\ pc'[w] \in {"look", "drain"}
<1>0. w \in Actors /\ TypeOK /\ PartsTyped /\ ControlOf(w)
  BY Parts DEF Actors
<1>1. PICK p \in {"look", "drain"} : Goto(w, p)
  BY DEF Restore
<1>2. held[w] = Nil /\ ~marked[w] /\ pc[w] \in WorkerPCs \ {"none"}
  BY <1>0 DEF ControlOf, Holds, PopPCs, PokePCs, Restore, WorkerPCs
<1>3. ListTyped' /\ HistoryTyped' /\ DrainingTyped'
  BY <1>0 DEF PartsTyped, Restore, ListTyped, HistoryTyped, DrainingTyped, history, contending
<1>4. UNCHANGED <<dq, dgq_pending, threads, producing, poking, held, contending>>
  BY DEF Restore
<1> QED BY <1>1, <1>2, <1>3, <1>4, WorkerGoes DEF PopPCs, WorkerPCs, contending

LEMMA LookCore ==
  ASSUME Core, NEW w \in Workers, Look(w), dq' = dq
  PROVE  Core' /\ OnlyOf(w) /\ pc'[w] = IF dq_items_tail # Nil THEN "quiesced" ELSE "done"
<1>0. w \in Actors /\ TypeOK /\ PartsTyped /\ ControlOf(w)
  BY Parts DEF Actors
<1>1. PICK p \in {"quiesced", "done"} :
        Goto(w, p) /\ p = IF dq_items_tail # Nil THEN "quiesced" ELSE "done"
  BY DEF Look
<1>2. held[w] = Nil /\ ~marked[w] /\ pc[w] \in WorkerPCs \ {"none"}
  BY <1>0 DEF ControlOf, Holds, PopPCs, PokePCs, Look, WorkerPCs
<1>3. ListTyped' /\ HistoryTyped' /\ DrainingTyped'
  BY <1>0
  DEF PartsTyped, Look, ListTyped, HistoryTyped, DrainingTyped, list, history, contending
<1>4. UNCHANGED <<dq, dgq_pending, threads, producing, poking, held, contending>>
  BY DEF Look
<1> QED BY <1>1, <1>2, <1>3, <1>4, WorkerGoes DEF PopPCs, WorkerPCs, contending

\* What a worker that is not in a call has and has not.
LEMMA WorkerFacts ==
  ASSUME Core, NEW w \in Workers, pc[w] \in WorkerPCs
  PROVE  /\ w \in Actors /\ TypeOK /\ PartsTyped /\ ControlOf(w)
         /\ pc[w] \notin PokePCs /\ back[w] = "idle"
         /\ held[w] # Nil <=> pc[w] \in PopPCs \cup {"run"}
         /\ marked[w] => pc[w] \in {"gone", "quiesced", "quiesced_tail", "out"}
<1>1. w \in Actors /\ TypeOK /\ PartsTyped /\ ControlOf(w)
  BY Parts DEF Actors
<1>2. pc[w] \notin PokePCs
  BY DEF WorkerPCs, PokePCs
<1> QED BY <1>1, <1>2 DEF ControlOf, Holds

LEMMA TakeNextCore ==
  ASSUME Core, NEW w \in Workers, TakeNext(w), dq' = dq
  PROVE  /\ Core' /\ OnlyOf(w)
         /\ pc'[w] = IF do_next[held[w]] = Nil THEN "last" ELSE "poke"
         /\ UNCHANGED <<dq_items_tail, do_next, dgq_pending, threads, producing, held,
                        contending, history>>
<1>0. pc[w] = "next" /\ pc[w] \in WorkerPCs \ {"none"}
  BY DEF TakeNext, WorkerPCs
<1>1. /\ w \in Actors /\ TypeOK /\ PartsTyped /\ ControlOf(w)
      /\ held[w] \in Items /\ held[w] # Nil /\ ~marked[w]
  BY <1>0, WorkerFacts DEF PopPCs, PartsTyped, DrainingTyped
<1>2. UNCHANGED <<dq_items_tail, do_next, dgq_pending, threads, producing, held,
                  contending, history>>
  BY DEF TakeNext
<1>3. HistoryTyped' /\ DrainingTyped'
  BY <1>1, <1>2 DEF PartsTyped, HistoryTyped, DrainingTyped, history, contending
<1>4. CASE do_next[held[w]] = Nil
  <2>1. Goto(w, "last") /\ UNCHANGED poking /\ dq_items_head' = Nil
    BY <1>4 DEF TakeNext
  <2>2. ListTyped'
    BY <1>1, <1>2, <2>1 DEF PartsTyped, ListTyped
  <2>3. "last" \in WorkerPCs \ {"none", "asleep", "exit"}
    BY DEF WorkerPCs
  <2> QED BY <1>0, <1>1, <1>2, <1>3, <1>4, <2>1, <2>2, <2>3, WorkerGoes DEF PopPCs, contending
<1>5. CASE do_next[held[w]] # Nil
  <2>1. Poke(w, 1, "run") /\ dq_items_head' = do_next[held[w]]
    BY <1>5 DEF TakeNext, HandOn
  <2>2. ListTyped'
    BY <1>1, <1>2, <2>1 DEF PartsTyped, ListTyped
  <2> QED BY <1>0, <1>1, <1>2, <1>3, <1>5, <2>1, <2>2, WorkerPokes
<1> QED BY <1>4, <1>5

LEMMA WaitNextCore ==
  ASSUME Core, NEW w \in Workers, WaitNext(w), dq' = dq
  PROVE  Core' /\ OnlyOf(w) /\ pc'[w] = "poke"
<1>0. pc[w] = "wait_next" /\ pc[w] \in WorkerPCs \ {"none"}
  BY DEF WaitNext, WorkerPCs
<1>1. /\ w \in Actors /\ TypeOK /\ PartsTyped /\ ControlOf(w)
      /\ held[w] \in Items /\ held[w] # Nil /\ ~marked[w]
  BY <1>0, WorkerFacts DEF PopPCs, PartsTyped, DrainingTyped
<1>2. UNCHANGED <<dq_items_tail, do_next, dgq_pending, threads, producing, held,
                  contending, history>>
  BY DEF WaitNext
<1>3. HistoryTyped'
  BY <1>1, <1>2 DEF PartsTyped, HistoryTyped, history
<1>4. Poke(w, 1, "run") /\ dq_items_head' = do_next[held[w]]
  BY DEF WaitNext, HandOn
<1>5. ListTyped'
  BY <1>1, <1>2, <1>4 DEF PartsTyped, ListTyped
<1> QED BY <1>0, <1>1, <1>2, <1>3, <1>4, <1>5, WorkerPokes

LEMMA TakeLastCore ==
  ASSUME Core, NEW w \in Workers, TakeLast(w), dq' = dq
  PROVE  /\ Core' /\ OnlyOf(w)
         /\ pc'[w] = IF IsLast(w) THEN "run" ELSE "wait_next"
<1>0. pc[w] = "last" /\ pc[w] \in WorkerPCs \ {"none"}
  BY DEF TakeLast, WorkerPCs
<1>1. /\ w \in Actors /\ TypeOK /\ PartsTyped /\ ControlOf(w)
      /\ held[w] \in Items /\ held[w] # Nil /\ ~marked[w]
  BY <1>0, WorkerFacts DEF PopPCs, PartsTyped, DrainingTyped
<1>2. UNCHANGED <<dq_items_head, do_next, dgq_pending, threads, producing, poking, held,
                  contending, history>>
  BY DEF TakeLast
<1>3. HistoryTyped' /\ DrainingTyped'
  BY <1>1, <1>2 DEF PartsTyped, HistoryTyped, DrainingTyped, history, contending
<1>4. PICK p \in {"run", "wait_next"} :
        Goto(w, p) /\ p = IF IsLast(w) THEN "run" ELSE "wait_next"
  BY DEF TakeLast
<1>5. ListTyped'
  BY <1>1, <1>2 DEF PartsTyped, ListTyped, TakeLast
<1>6. p \in WorkerPCs \ {"none", "asleep", "exit"} /\ p \in PopPCs \cup {"run"}
  BY DEF WorkerPCs, PopPCs
<1> QED BY <1>0, <1>1, <1>2, <1>3, <1>4, <1>5, <1>6, WorkerGoes DEF contending

LEMMA RunCore ==
  ASSUME Core, NEW w \in Workers, Run(w), dq' = dq
  PROVE  /\ Core' /\ OnlyOf(w) /\ pc'[w] \in {"drain", "done"}
         /\ held[w] \in Items /\ held'[w] = Nil
<1>0. pc[w] = "run" /\ pc[w] \in WorkerPCs
  BY DEF Run, WorkerPCs
<1>1. /\ w \in Actors /\ TypeOK /\ PartsTyped /\ ControlOf(w)
      /\ held[w] \in Items /\ held[w] # Nil /\ ~marked[w]
  BY <1>0, WorkerFacts DEF PartsTyped, DrainingTyped
<1>2. PICK p \in {"drain", "done"} : Goto(w, p)
  BY DEF Run
<1>3. ControlTyped' /\ pc'[w] = p /\ \A b \in Actors \ {w} : pc'[b] = pc[b]
  BY <1>1, <1>2, GotoFacts, Kinds DEF PCs, WorkerPCs
<1>4. /\ held' \in [Workers -> Items \cup {Nil}] /\ held'[w] = Nil
      /\ \A v \in Workers \ {w} : held'[v] = held[v]
      /\ do_next' \in [Items -> Items \cup {Nil}]
      /\ ran' \subseteq Items
  BY <1>1 DEF Run, PartsTyped, DrainingTyped, ListTyped, HistoryTyped
<1>5. PartsTyped'
  BY <1>1, <1>3, <1>4
  DEF Run, PartsTyped, ListTyped, ProducingTyped, PokingTyped, DrainingTyped, HistoryTyped,
      producing, poking, contending
<1>6. OnlyOf(w)
  BY <1>1, <1>3, <1>4 DEF Run, OnlyOf, producing, poking, contending
<1>7. ControlOf(w)'
  BY <1>0, <1>1, <1>3, <1>4, Kinds
  DEF Run, ControlOf, Holds, PopPCs, PoolPCs, PokePCs, Kernel, Overcommit, poking, contending
<1>8. Row(w)' = Row(w) /\ Mark1(w)' = Mark1(w) /\ Busy1(w)' = Busy1(w)
  BY <1>0, <1>1, <1>3, OneDef, OneDefNext DEF Run, Exiting, PokePCs, contending
<1>9. UNCHANGED <<dgq_pending, dgq_thread_pool_size, permits, requests>>
  BY DEF Run, threads
<1> QED BY <1>1, <1>3, <1>4, <1>5, <1>6, <1>7, <1>8, <1>9, QuietCore

\* A predicate of the contended wait is evaluated.
LEMMA DecideCore ==
  ASSUME Core, NEW w \in Workers, NEW s \in Statuses,
         NEW mark \in {"mark_gone", "mark_quiesced"}, NEW again \in {"gone", "quiesced"},
         pc[w] \in {"gone", "quiesced_tail"},
         Decide(w, s, mark, again), dq' = dq,
         UNCHANGED <<list, dgq_pending, threads, producing, poking, held, marked, history>>,
         headless' \in [Workers -> BOOLEAN],
         \A v \in Workers \ {w} : headless'[v] = headless[v]
  PROVE  /\ Core' /\ OnlyOf(w)
         /\ pc'[w] \in {mark, again, "out"}
         /\ pc'[w] = "out" => status'[w] = s
<1>0. pc[w] \in {"gone", "quiesced_tail"} /\ pc[w] \in WorkerPCs \ {"none"}
  BY DEF WorkerPCs
<1>1. w \in Actors /\ TypeOK /\ PartsTyped /\ ControlOf(w) /\ held[w] = Nil
  BY <1>0, WorkerFacts DEF PopPCs
<1>2. PICK p \in {mark, again, "out"} :
        /\ Goto(w, p)
        /\ p = mark => ~marked[w]
        /\ p = "out" => status' = [status EXCEPT ![w] = s]
        /\ p # "out" => status' = status
  BY DEF Decide
<1>3. /\ status' \in [Workers -> Statuses]
      /\ \A v \in Workers \ {w} : status'[v] = status[v]
      /\ p = "out" => status'[w] = s
  BY <1>1, <1>2 DEF PartsTyped, DrainingTyped
<1>4. ListTyped' /\ HistoryTyped' /\ DrainingTyped'
  BY <1>1, <1>3 DEF PartsTyped, ListTyped, HistoryTyped, DrainingTyped, list, history
<1>5. /\ p \in WorkerPCs \ {"none", "asleep", "exit"} /\ p \notin PopPCs \cup {"run"}
      /\ p # mark => p \in {"gone", "quiesced", "quiesced_tail", "out"}
  BY <1>2 DEF WorkerPCs, PopPCs
<1>6. Core' /\ OnlyOf(w) /\ pc'[w] = p
  BY <1>0, <1>1, <1>2, <1>3, <1>4, <1>5, WorkerGoes
<1> QED BY <1>3, <1>6

LEMMA GoneCore ==
  ASSUME Core, NEW w \in Workers, Gone(w), dq' = dq
  PROVE  /\ Core' /\ OnlyOf(w)
         /\ pc'[w] \in {"mark_gone", "gone", "out"}
         /\ pc'[w] = "out" => status'[w] # "abort"
<1>1. PICK s \in {"ready", "wait"} : Decide(w, s, "mark_gone", "gone")
  BY DEF Gone
<1>2. headless' \in [Workers -> BOOLEAN] /\ headless' = headless
  BY Parts DEF PartsTyped, DrainingTyped, Gone
<1>3. UNCHANGED <<list, dgq_pending, threads, producing, poking, held, marked, history>>
  BY DEF Gone
<1>4. pc[w] = "gone"
  BY DEF Gone
<1>5. s \in Statuses
  BY DEF Statuses
<1>6. /\ Core' /\ OnlyOf(w)
      /\ pc'[w] \in {"mark_gone", "gone", "out"}
      /\ pc'[w] = "out" => status'[w] = s
  BY <1>1, <1>2, <1>3, <1>4, <1>5, DecideCore
<1> QED BY <1>6

LEMMA QuiescedCore ==
  ASSUME Core, NEW w \in Workers, Quiesced(w), dq' = dq
  PROVE  Core' /\ OnlyOf(w) /\ pc'[w] = "quiesced_tail"
<1>0. pc[w] = "quiesced" /\ pc[w] \in WorkerPCs \ {"none"}
  BY DEF Quiesced, WorkerPCs
<1>1. w \in Actors /\ TypeOK /\ PartsTyped /\ ControlOf(w) /\ held[w] = Nil
  BY <1>0, WorkerFacts DEF PopPCs
<1>2. UNCHANGED <<list, dgq_pending, threads, producing, poking, held, marked, status,
                  history>>
  BY DEF Quiesced
<1>3. /\ headless' \in [Workers -> BOOLEAN]
      /\ \A v \in Workers \ {w} : headless'[v] = headless[v]
  BY <1>1 DEF PartsTyped, DrainingTyped, Quiesced
<1>4. ListTyped' /\ HistoryTyped' /\ DrainingTyped'
  BY <1>1, <1>2, <1>3 DEF PartsTyped, ListTyped, HistoryTyped, DrainingTyped, list, history
<1>5. Goto(w, "quiesced_tail")
  BY DEF Quiesced
<1>6. /\ "quiesced_tail" \in WorkerPCs \ {"none", "asleep", "exit"}
      /\ "quiesced_tail" \notin PopPCs \cup {"run"}
  BY DEF WorkerPCs, PopPCs
<1> QED BY <1>0, <1>1, <1>2, <1>3, <1>4, <1>5, <1>6, WorkerGoes

LEMMA QuiescedTailCore ==
  ASSUME Core, NEW w \in Workers, QuiescedTail(w), dq' = dq
  PROVE  /\ Core' /\ OnlyOf(w)
         /\ pc'[w] \in {"mark_quiesced", "quiesced", "out"}
         /\ pc'[w] = "out" /\ status'[w] = "abort" => dq_items_tail = Nil
<1>0. pc[w] = "quiesced_tail" /\ headless[w] \in BOOLEAN
  BY Parts DEF PartsTyped, DrainingTyped, QuiescedTail
<1>1. PICK s \in Statuses :
        /\ Decide(w, s, "mark_quiesced", "quiesced")
        /\ s = "abort" => dq_items_tail = Nil
  BY DEF QuiescedTail, Statuses
<1>2. /\ headless' \in [Workers -> BOOLEAN]
      /\ \A v \in Workers \ {w} : headless'[v] = headless[v]
  BY Parts DEF PartsTyped, DrainingTyped, QuiescedTail
<1>3. UNCHANGED <<list, dgq_pending, threads, producing, poking, held, marked, history>>
  BY DEF QuiescedTail
<1>6. /\ Core' /\ OnlyOf(w)
      /\ pc'[w] \in {"mark_quiesced", "quiesced", "out"}
      /\ pc'[w] = "out" => status'[w] = s
  BY <1>0, <1>1, <1>2, <1>3, DecideCore
<1> QED BY <1>1, <1>6

LEMMA MarkCore ==
  ASSUME Core, NEW w \in Workers, dq' = dq,
         NEW from \in {"mark_gone", "mark_quiesced"}, NEW to \in {"gone", "quiesced"},
         Mark(w, from, to)
  PROVE  Core' /\ OnlyOf(w) /\ pc'[w] = to
<1>0. pc[w] = from /\ pc[w] \in WorkerPCs /\ from \notin PopPCs
  BY DEF Mark, WorkerPCs, PopPCs
<1>1. /\ w \in Actors /\ TypeOK /\ PartsTyped /\ ControlOf(w)
      /\ held[w] = Nil /\ ~marked[w]
  BY <1>0, WorkerFacts
<1>2. ControlTyped' /\ pc'[w] = to /\ \A b \in Actors \ {w} : pc'[b] = pc[b]
  BY <1>1, GotoFacts, Kinds DEF PCs, WorkerPCs, Mark
<1>3. /\ marked' \in [Workers -> BOOLEAN] /\ marked'[w]
      /\ \A v \in Workers \ {w} : marked'[v] = marked[v]
  BY <1>1 DEF Mark, PartsTyped, DrainingTyped
<1>4. PartsTyped'
  BY <1>1, <1>2, <1>3
  DEF Mark, PartsTyped, ListTyped, ProducingTyped, PokingTyped, DrainingTyped, HistoryTyped,
      list, producing, poking, history
<1>5. OnlyOf(w)
  BY <1>1, <1>2, <1>3 DEF Mark, OnlyOf, producing, poking
<1>6. ControlOf(w)'
  BY <1>0, <1>1, <1>2, <1>3, Kinds
  DEF Mark, ControlOf, Holds, PopPCs, PoolPCs, PokePCs, Kernel, Overcommit, poking
<1>7. Row(w)' = Row(w) /\ Mark1(w)' = 1 /\ Mark1(w) = 0 /\ Busy1(w)' = Busy1(w)
  BY <1>0, <1>1, <1>2, <1>3, OneDef, OneDefNext DEF Mark, Exiting, PokePCs
<1>8. /\ dgq_pending' = dgq_pending + 1
      /\ UNCHANGED <<dgq_thread_pool_size, permits, requests>>
  BY DEF Mark, threads
<1>9. /\ requests \in Nat /\ dgq_pending \in Nat /\ permits \in Nat
      /\ dgq_thread_pool_size \in Int /\ dgq_thread_pool_size >= -Excess
      /\ Row(w) \in Nat /\ Busy1(w) \in Nat
  BY <1>1, RootQueueAssumption, OneFacts DEF TypeOK, ThreadsTyped, QueueTypes
<1>10. Balanced(w)
  BY <1>7, <1>8, <1>9 DEF Balanced
<1>11. PermitsAreLate'
  BY <1>1, <1>2, <1>5, <1>8, PermitsKept, Parts
<1> QED BY <1>1, <1>2, <1>4, <1>5, <1>6, <1>8, <1>9, <1>10, <1>11, CoreStep

LEMMA OutCore ==
  ASSUME Core, NEW w \in Workers, Out(w), dq' = dq
  PROVE  /\ Core' /\ OnlyOf(w)
         /\ pc'[w] = IF status[w] = "ready" THEN "drain"
                     ELSE IF status[w] = "abort" THEN "done" ELSE "poke"
<1>0. pc[w] = "out" /\ pc[w] \in WorkerPCs /\ "out" \notin PopPCs
  BY DEF Out, WorkerPCs, PopPCs
<1>1. /\ w \in Actors /\ TypeOK /\ PartsTyped /\ ControlOf(w)
      /\ held[w] = Nil /\ back[w] = "idle" /\ status[w] \in Statuses
  BY <1>0, WorkerFacts DEF PartsTyped, DrainingTyped
<1>2. /\ ControlTyped' /\ PokingTyped' /\ t_count' = t_count
      /\ pc'[w] = IF status[w] = "ready" THEN "drain"
                  ELSE IF status[w] = "abort" THEN "done" ELSE "poke"
      /\ pc'[w] = "poke" => remaining'[w] = 1 /\ back'[w] = "done"
      /\ pc'[w] # "poke" => back'[w] = "idle"
      /\ \A b \in Actors \ {w} :
           pc'[b] = pc[b] /\ remaining'[b] = remaining[b] /\ back'[b] = back[b]
  <2>1. CASE status[w] = "ready"
    <3>1. Goto(w, "drain") /\ UNCHANGED poking
      BY <2>1 DEF Out
    <3> QED BY <2>1, <3>1, <1>1, GotoFacts, Kinds
            DEF PCs, WorkerPCs, poking, PartsTyped, PokingTyped
  <2>2. CASE status[w] = "abort"
    <3>1. Goto(w, "done") /\ UNCHANGED poking
      BY <2>2 DEF Out
    <3> QED BY <2>2, <3>1, <1>1, GotoFacts, Kinds
            DEF PCs, WorkerPCs, poking, PartsTyped, PokingTyped
  <2>3. CASE status[w] = "wait"
    <3>1. Poke(w, 1, "done")
      BY <2>3 DEF Out
    <3> QED BY <2>3, <3>1, <1>1, PokeFacts
  <2> QED BY <1>1, <2>1, <2>2, <2>3 DEF Statuses
<1>3. /\ marked' \in [Workers -> BOOLEAN] /\ ~marked'[w]
      /\ status' \in [Workers -> Statuses]
      /\ \A v \in Workers \ {w} : marked'[v] = marked[v] /\ status'[v] = status[v]
  BY <1>1 DEF Out, PartsTyped, DrainingTyped, Statuses
<1>4. PartsTyped'
  BY <1>1, <1>2, <1>3
  DEF Out, PartsTyped, ListTyped, ProducingTyped, DrainingTyped, HistoryTyped,
      list, producing, history
<1>5. OnlyOf(w)
  BY <1>1, <1>2, <1>3 DEF Out, OnlyOf, producing
<1>6. ControlOf(w)'
  <2>1. held' = held /\ pc'[w] \notin PopPCs \cup PoolPCs
    BY <1>1, <1>2 DEF Out, PopPCs, PoolPCs
  <2>2. pc'[w] \in PokePCs <=> pc'[w] = "poke"
    BY <1>1, <1>2 DEF PokePCs
  <2> QED BY <1>1, <1>2, <1>3, <2>1, <2>2, Kinds DEF ControlOf, Holds, Kernel, Overcommit
<1>7. /\ Row(w)' = Row(w) /\ Busy1(w)' = Busy1(w)
      /\ Mark1(w)' = 0 /\ Mark1(w) = IF marked[w] THEN 1 ELSE 0
  <2>1. pc'[w] # "none" /\ ~Exiting(w)'
    BY <1>2 DEF Exiting, PokePCs
  <2>2. ~Exiting(w)
    BY <1>0 DEF Exiting, PokePCs
  <2> QED BY <1>0, <1>1, <1>2, <1>3, <2>1, <2>2, OneDef, OneDefNext
<1>8. /\ dgq_pending' = IF marked[w] THEN dgq_pending - 1 ELSE dgq_pending
      /\ UNCHANGED <<dgq_thread_pool_size, permits, requests>>
  BY DEF Out, Unmarked, threads
<1>9. /\ requests \in Nat /\ dgq_pending \in Nat /\ permits \in Nat
      /\ dgq_thread_pool_size \in Int /\ dgq_thread_pool_size >= -Excess
      /\ Row(w) \in Nat /\ Busy1(w) \in Nat
  BY <1>1, RootQueueAssumption, OneFacts DEF TypeOK, ThreadsTyped, QueueTypes
<1>10. Balanced(w)
  <2>1. CASE marked[w]
    BY <2>1, <1>7, <1>8, <1>9 DEF Balanced
  <2>2. CASE ~marked[w]
    BY <2>2, <1>7, <1>8, <1>9 DEF Balanced
  <2> QED BY <2>1, <2>2
<1>11. PermitsAreLate'
  BY <1>1, <1>2, <1>5, <1>8, PermitsKept, Parts
<1> QED BY <1>1, <1>2, <1>4, <1>5, <1>6, <1>8, <1>9, <1>10, <1>11, CoreStep

LEMMA BeginCore ==
  ASSUME Core, NEW w \in Workers, Begin(w)
  PROVE  Core' /\ OnlyOf(w) /\ pc'[w] = "drain"
<1>0. pc[w] = "none" /\ pc[w] \in WorkerPCs /\ "none" \notin PopPCs /\ dq' = dq
  BY DEF Begin, WorkerPCs, PopPCs
<1>1. /\ w \in Actors /\ TypeOK /\ PartsTyped /\ ControlOf(w)
      /\ held[w] = Nil /\ ~marked[w] /\ back[w] = "idle"
  BY <1>0, WorkerFacts
<1>2. ControlTyped' /\ pc'[w] = "drain" /\ \A b \in Actors \ {w} : pc'[b] = pc[b]
  BY <1>1, GotoFacts, Kinds DEF PCs, WorkerPCs, Begin
<1>4. PartsTyped'
  BY <1>1, <1>2
  DEF Begin, PartsTyped, ListTyped, ProducingTyped, PokingTyped, DrainingTyped, HistoryTyped,
      list, producing, poking, contending, history
<1>5. OnlyOf(w)
  BY <1>1, <1>2 DEF Begin, OnlyOf, producing, poking, contending
<1>6. ControlOf(w)'
  BY <1>0, <1>1, <1>2, Kinds
  DEF Begin, ControlOf, Holds, PopPCs, PoolPCs, PokePCs, Kernel, Overcommit, poking, contending
<1>7. Row(w)' = Row(w) /\ Mark1(w)' = Mark1(w) /\ Busy1(w)' = 1 /\ Busy1(w) = 0
  BY <1>0, <1>1, <1>2, OneDef, OneDefNext DEF Begin, Exiting, PokePCs, contending
<1>8. /\ dgq_pending' = dgq_pending - 1 /\ requests' = requests - 1 /\ requests > 0
      /\ UNCHANGED <<dgq_thread_pool_size, permits>>
  BY DEF Begin
<1>9. /\ requests \in Nat /\ dgq_pending \in Nat /\ permits \in Nat
      /\ dgq_thread_pool_size \in Int /\ dgq_thread_pool_size >= -Excess
      /\ Row(w) \in Nat /\ Mark1(w) \in Nat
  BY <1>1, RootQueueAssumption, OneFacts DEF TypeOK, ThreadsTyped, QueueTypes
<1>10. Balanced(w)
  BY <1>7, <1>8, <1>9 DEF Balanced
<1>11. PermitsAreLate'
  BY <1>0, <1>1, <1>2, <1>5, <1>8, PermitsKept, Parts
<1> QED BY <1>0, <1>1, <1>2, <1>4, <1>5, <1>6, <1>8, <1>9, <1>10, <1>11, CoreStep

LEMMA ParkCore ==
  ASSUME Core, NEW w \in Workers, Park(w), dq' = dq
  PROVE  /\ Core' /\ OnlyOf(w)
         /\ pc'[w] = IF Kernel THEN "none" ELSE IF permits > 0 THEN "drain" ELSE "asleep"
<1>0. pc[w] = "done" /\ pc[w] \in WorkerPCs /\ "done" \notin PopPCs
  BY DEF Park, WorkerPCs, PopPCs
<1>1. /\ w \in Actors /\ TypeOK /\ PartsTyped /\ ControlOf(w) /\ PermitsAreLate
      /\ held[w] = Nil /\ ~marked[w] /\ back[w] = "idle" /\ permits \in Nat
  BY <1>0, WorkerFacts, Parts DEF TypeOK, ThreadsTyped
<1>2. PICK p \in {"none", "drain", "asleep"} :
        /\ Goto(w, p)
        /\ p = IF Kernel THEN "none" ELSE IF permits > 0 THEN "drain" ELSE "asleep"
        /\ permits' = IF p = "drain" THEN permits - 1 ELSE permits
  BY <1>1 DEF Park
<1>3. ControlTyped' /\ pc'[w] = p /\ \A b \in Actors \ {w} : pc'[b] = pc[b]
  BY <1>1, <1>2, GotoFacts, Kinds DEF PCs, WorkerPCs
<1>4. PartsTyped'
  BY <1>1, <1>3
  DEF Park, PartsTyped, ListTyped, ProducingTyped, PokingTyped, DrainingTyped, HistoryTyped,
      list, producing, poking, contending, history
<1>5. OnlyOf(w)
  BY <1>1, <1>3 DEF Park, OnlyOf, producing, poking, contending
<1>6. ControlOf(w)'
  BY <1>0, <1>1, <1>2, <1>3, Kinds
  DEF Park, ControlOf, Holds, PopPCs, PoolPCs, PokePCs, Kernel, Overcommit, poking, contending
<1>7. Row(w)' = Row(w) /\ Mark1(w)' = Mark1(w) /\ (~Kernel => Busy1(w)' = Busy1(w))
  BY <1>0, <1>1, <1>2, <1>3, OneDef, OneDefNext DEF Park, Exiting, PokePCs, contending
<1>8. UNCHANGED <<dgq_pending, dgq_thread_pool_size, requests>>
  BY DEF Park
<1>9. /\ requests \in Nat /\ dgq_pending \in Nat
      /\ dgq_thread_pool_size \in Int /\ dgq_thread_pool_size >= -Excess
      /\ Row(w) \in Nat /\ Mark1(w) \in Nat /\ Busy1(w) \in Nat
  BY <1>1, RootQueueAssumption, OneFacts DEF TypeOK, ThreadsTyped, QueueTypes
<1>10. Balanced(w)
  BY <1>7, <1>8, <1>9 DEF Balanced
<1>11. PermitsAreLate' /\ permits' \in Nat
  <2>1. p = "drain" => Asleep' = Asleep /\ permits > 0
    BY <1>0, <1>2, <1>3 DEF Asleep, Actors
  <2>2. p # "drain" => permits' = 0 /\ permits = 0
    BY <1>1, <1>2 DEF PermitsAreLate
  <2>3. p = "drain" => ~Kernel
    BY <1>2
  <2> QED BY <1>1, <1>2, <2>1, <2>2, <2>3 DEF PermitsAreLate, Kernel
<1> QED BY <1>1, <1>2, <1>3, <1>4, <1>5, <1>6, <1>8, <1>9, <1>10, <1>11, CoreStep

LEMMA TimedOutCore ==
  ASSUME Core, NEW w \in Workers, TimedOut(w), dq' = dq
  PROVE  Core' /\ OnlyOf(w) /\ pc'[w] = "exit"
<1>0. pc[w] = "asleep" /\ pc[w] \in WorkerPCs /\ "asleep" \notin PopPCs
  BY DEF TimedOut, WorkerPCs, PopPCs
<1>1. /\ w \in Actors /\ TypeOK /\ PartsTyped /\ ControlOf(w)
      /\ held[w] = Nil /\ ~marked[w] /\ back[w] = "idle"
  BY <1>0, WorkerFacts
<1>2. ControlTyped' /\ pc'[w] = "exit" /\ \A b \in Actors \ {w} : pc'[b] = pc[b]
  BY <1>1, GotoFacts, Kinds DEF PCs, WorkerPCs, TimedOut
<1>4. PartsTyped'
  BY <1>1, <1>2
  DEF TimedOut, PartsTyped, ListTyped, ProducingTyped, PokingTyped, DrainingTyped,
      HistoryTyped, list, producing, poking, contending, history
<1>5. OnlyOf(w)
  BY <1>1, <1>2 DEF TimedOut, OnlyOf, producing, poking, contending
<1>6. ControlOf(w)'
  BY <1>0, <1>1, <1>2, Kinds
  DEF TimedOut, ControlOf, Holds, PopPCs, PoolPCs, PokePCs, Kernel, Overcommit, poking,
      contending
<1>7. Row(w)' = Row(w) /\ Mark1(w)' = Mark1(w) /\ Busy1(w)' = Busy1(w)
  BY <1>0, <1>1, <1>2, OneDef, OneDefNext DEF TimedOut, Exiting, PokePCs, contending
<1>8. UNCHANGED <<dgq_pending, dgq_thread_pool_size, permits, requests>>
  BY DEF TimedOut, threads
<1> QED BY <1>1, <1>2, <1>4, <1>5, <1>6, <1>7, <1>8, QuietCore

LEMMA ExitCore ==
  ASSUME Core, NEW w \in Workers, Exit(w), dq' = dq
  PROVE  Core' /\ OnlyOf(w) /\ pc'[w] = "poke"
<1>0. pc[w] = "exit" /\ pc[w] \in WorkerPCs /\ "exit" \notin PopPCs /\ "exit" \in PoolPCs
  BY DEF Exit, WorkerPCs, PopPCs, PoolPCs
<1>1. /\ w \in Actors /\ TypeOK /\ PartsTyped /\ ControlOf(w)
      /\ held[w] = Nil /\ ~marked[w] /\ back[w] = "idle"
  BY <1>0, WorkerFacts
<1>2. /\ ControlTyped' /\ PokingTyped'
      /\ pc'[w] = "poke" /\ remaining'[w] = 1 /\ back'[w] = "none"
      /\ t_count' = t_count
      /\ \A b \in Actors \ {w} :
           pc'[b] = pc[b] /\ remaining'[b] = remaining[b] /\ back'[b] = back[b]
  BY <1>1, PokeFacts DEF Exit
<1>3. ~Kernel
  BY <1>0, <1>1 DEF ControlOf
<1>4. PartsTyped'
  BY <1>1, <1>2
  DEF Exit, PartsTyped, ListTyped, ProducingTyped, DrainingTyped, HistoryTyped,
      list, producing, contending, history
<1>5. OnlyOf(w)
  BY <1>1, <1>2 DEF Exit, OnlyOf, producing, contending
<1>6. ControlOf(w)'
  BY <1>0, <1>1, <1>2, <1>3, Kinds
  DEF Exit, ControlOf, Holds, PopPCs, PoolPCs, PokePCs, Kernel, Overcommit, contending
<1>7. Row(w)' = Row(w) /\ Mark1(w)' = Mark1(w) /\ Busy1(w)' = 0 /\ Busy1(w) = 1
  BY <1>0, <1>1, <1>2, OneDef, OneDefNext DEF Exit, Exiting, PokePCs, contending
<1>8. /\ dgq_thread_pool_size' = dgq_thread_pool_size + 1
      /\ UNCHANGED <<dgq_pending, permits, requests>>
  BY DEF Exit
<1>9. /\ requests \in Nat /\ dgq_pending \in Nat /\ permits \in Nat
      /\ dgq_thread_pool_size \in Int /\ dgq_thread_pool_size >= -Excess /\ Excess \in Nat
      /\ Row(w) \in Nat /\ Mark1(w) \in Nat
  BY <1>1, RootQueueAssumption, OneFacts DEF TypeOK, ThreadsTyped, QueueTypes
<1>10. Balanced(w)
  BY <1>7, <1>8, <1>9 DEF Balanced
<1>11. PermitsAreLate'
  BY <1>1, <1>2, <1>5, <1>8, PermitsKept, Parts
<1> QED BY <1>1, <1>2, <1>3, <1>4, <1>5, <1>6, <1>8, <1>9, <1>10, <1>11, CoreStep

\* A poke that has not returned.
LEMMA PokerFacts ==
  ASSUME Core, NEW a \in Actors, pc[a] \in PokePCs
  PROVE  /\ TypeOK /\ PartsTyped /\ ControlOf(a) /\ PermitsAreLate
         /\ remaining[a] \in Nat /\ remaining[a] > 0 /\ t_count[a] \in Int
         /\ a \in Workers => ~marked[a] /\ (held[a] # Nil <=> back[a] = "run")
         /\ a \in Workers => back[a] \in {"run", "done", "none"}
         /\ a \notin Workers => back[a] = "idle"
         /\ pc[a] \notin PopPCs \cup {"run"} /\ pc[a] # "push_link"
<1>1. TypeOK /\ PartsTyped /\ ControlOf(a) /\ PermitsAreLate
  BY Parts
<1>2. pc[a] \notin PopPCs \cup {"run", "gone", "quiesced", "quiesced_tail", "out", "push_link"}
  BY DEF PokePCs, PopPCs
<1>3. /\ remaining[a] \in Nat /\ t_count[a] \in Int
      /\ back[a] \in {"idle", "run", "done", "none"}
  BY <1>1 DEF PartsTyped, PokingTyped
<1>4. a \in Workers => ~marked[a] /\ (held[a] # Nil <=> back[a] = "run")
  BY <1>1, <1>2 DEF ControlOf, Holds
<1> QED BY <1>1, <1>2, <1>3, <1>4 DEF ControlOf

LEMMA PokeReturns ==
  ASSUME Core, NEW a \in Actors, pc[a] \in PokePCs, Return(a), dq' = dq,
         UNCHANGED <<producing, held, contending>>
  PROVE  /\ OnlyOf(a) /\ ControlOf(a)'
         /\ ControlTyped' /\ PokingTyped' /\ ProducingTyped' /\ DrainingTyped'
         /\ Row(a)' = 0 /\ Mark1(a)' = Mark1(a) /\ Busy1(a)' = Busy1(a)
         /\ pc'[a] = back[a]
         /\ pc'[a] \in IF a \in Workers THEN {"run", "done", "none"} ELSE {"idle"}
<1>1. /\ TypeOK /\ PartsTyped /\ ControlOf(a)
      /\ a \in Workers => ~marked[a] /\ (held[a] # Nil <=> back[a] = "run")
  BY PokerFacts
<1>2. /\ ControlTyped' /\ PokingTyped'
      /\ pc'[a] = back[a] /\ remaining'[a] = 0 /\ t_count'[a] = 0
      /\ back'[a] = "idle"
      /\ \A b \in Actors \ {a} :
           /\ pc'[b] = pc[b] /\ remaining'[b] = remaining[b]
           /\ t_count'[b] = t_count[b] /\ back'[b] = back[b]
      /\ back[a] \in IF a \in Workers THEN {"run", "done", "none"} ELSE {"idle"}
  BY <1>1, ReturnFacts
<1>3. ProducingTyped' /\ DrainingTyped'
  BY <1>1 DEF PartsTyped, ProducingTyped, DrainingTyped, producing, contending
<1>4. OnlyOf(a)
  BY <1>2 DEF OnlyOf, producing, contending
<1>5. pc'[a] \notin PokePCs \cup PopPCs \cup PoolPCs \cup {"push_link"}
  BY <1>2 DEF PokePCs, PopPCs, PoolPCs
<1>6. pc'[a] \notin {"poke_pending", "poke_request", "poke_reserve", "poke_count", "poke_take"}
  BY <1>2
<1>7. ControlOf(a)'
  BY <1>1, <1>2, <1>5, <1>6 DEF ControlOf, Holds, Kernel, Overcommit, contending
<1>8. Row(a)' = 0 /\ Mark1(a)' = Mark1(a)
  BY <1>6, OneDef, OneDefNext DEF contending
<1>9. Busy1(a)' = Busy1(a)
  <2>1. pc[a] # "none" /\ ~Exiting(a)'
    BY <1>5 DEF PokePCs, Exiting
  <2>2. Exiting(a) <=> back[a] = "none"
    BY DEF Exiting
  <2> QED BY <1>2, <2>1, <2>2, OneDef, OneDefNext
<1> QED BY <1>2, <1>3, <1>4, <1>7, <1>8, <1>9

\* A poke goes on.
LEMMA PokeGoes ==
  ASSUME Core, NEW a \in Actors, pc[a] \in PokePCs, NEW p \in PokePCs, dq' = dq,
         ControlTyped', PokingTyped', pc'[a] = p, remaining'[a] > 0,
         \A b \in Actors \ {a} :
           /\ pc'[b] = pc[b] /\ remaining'[b] = remaining[b] /\ t_count'[b] = t_count[b],
         UNCHANGED <<back, producing, held, contending>>,
         Kernel => p \in {"poke", "poke_pending", "poke_request"},
         ~Kernel => p \notin {"poke_pending", "poke_request"},
         Overcommit => p # "poke_reserve"
  PROVE  /\ OnlyOf(a) /\ ControlOf(a)' /\ ProducingTyped' /\ DrainingTyped'
         /\ Row(a)' = IF p \in {"poke_request", "poke_count", "poke_take"}
                      THEN remaining'[a] ELSE 0
         /\ Mark1(a)' = Mark1(a) /\ Busy1(a)' = Busy1(a)
<1>1. /\ TypeOK /\ PartsTyped /\ ControlOf(a)
      /\ a \in Workers => ~marked[a] /\ (held[a] # Nil <=> back[a] = "run")
  BY PokerFacts
<1>2. ProducingTyped' /\ DrainingTyped'
  BY <1>1 DEF PartsTyped, ProducingTyped, DrainingTyped, producing, contending
<1>3. OnlyOf(a)
  BY DEF OnlyOf, producing, contending
<1>4. p \notin PopPCs \cup {"push_link", "run", "none"}
  BY DEF PokePCs, PopPCs
<1>5. Kernel => p \notin PoolPCs
  BY DEF PoolPCs
<1>6. ControlOf(a)'
  BY <1>1, <1>4, <1>5 DEF ControlOf, Holds, Kernel, Overcommit, contending
<1>7. /\ Row(a)' = IF p \in {"poke_request", "poke_count", "poke_take"}
                   THEN remaining'[a] ELSE 0
      /\ Mark1(a)' = Mark1(a)
  BY OneDef, OneDefNext DEF contending
<1>8. Busy1(a)' = Busy1(a)
  <2>1. pc[a] # "none" /\ pc'[a] # "none"
    BY DEF PokePCs
  <2>2. Exiting(a)' <=> Exiting(a)
    BY DEF Exiting
  <2> QED BY <2>1, <2>2, OneDef, OneDefNext
<1> QED BY <1>2, <1>3, <1>6, <1>7, <1>8

LEMMA Counters ==
  ASSUME Core, NEW a \in Actors
  PROVE  /\ requests \in Nat /\ dgq_pending \in Nat /\ permits \in Nat
         /\ dgq_thread_pool_size \in Int /\ dgq_thread_pool_size >= -Excess
         /\ dgq_thread_pool_size <= dq.pool /\ dq.pool \in Nat /\ Excess \in Nat
         /\ Row(a) \in Nat /\ Mark1(a) \in Nat /\ Busy1(a) \in Nat
BY Parts, RootQueueAssumption, OneFacts DEF TypeOK, ThreadsTyped, QueueTypes

LEMMA PokeProbeCore ==
  ASSUME Core, NEW a \in Actors, PokeProbe(a), dq' = dq
  PROVE  /\ Core' /\ OnlyOf(a)
         /\ pc'[a] = IF dq_items_tail = Nil THEN back[a]
                     ELSE IF Kernel THEN "poke_pending" ELSE "poke_signal"
<1>0. pc[a] = "poke" /\ pc[a] \in PokePCs /\ Row(a) = 0
  BY OneDef DEF PokeProbe, PokePCs
<1>1. /\ TypeOK /\ PartsTyped /\ remaining[a] > 0 /\ permits \in Nat
  BY <1>0, PokerFacts, Counters
<1>2. UNCHANGED <<list, dgq_pending, threads, producing, held, contending, history>>
  BY DEF PokeProbe
<1>3. ListTyped' /\ HistoryTyped'
  BY <1>1, <1>2 DEF PartsTyped, ListTyped, HistoryTyped, list, history
<1>4. UNCHANGED <<dgq_pending, dgq_thread_pool_size, permits, requests>>
  BY <1>2 DEF threads
<1>5. CASE dq_items_tail = Nil
  <2>1. Return(a)
    BY <1>5 DEF PokeProbe
  <2>2. /\ OnlyOf(a) /\ ControlOf(a)'
        /\ ControlTyped' /\ PokingTyped' /\ ProducingTyped' /\ DrainingTyped'
        /\ Row(a)' = 0 /\ Mark1(a)' = Mark1(a) /\ Busy1(a)' = Busy1(a)
        /\ pc'[a] = back[a] /\ pc'[a] # "asleep"
    BY <1>0, <1>2, <2>1, PokeReturns
  <2>3. PartsTyped'
    BY <1>3, <2>2 DEF PartsTyped
  <2> QED BY <1>0, <1>4, <1>5, <2>2, <2>3, QuietCore
<1>6. CASE dq_items_tail # Nil
  <2> DEFINE p == IF Kernel THEN "poke_pending" ELSE "poke_signal"
  <2>1. Goto(a, p) /\ UNCHANGED poking
    BY <1>6 DEF PokeProbe
  <2>2. p \in PokePCs /\ p \in PCs(a)
    BY DEF PokePCs, PCs
  <2>3. ControlTyped' /\ pc'[a] = p /\ \A b \in Actors \ {a} : pc'[b] = pc[b]
    <3> HIDE DEF p
    <3> QED BY <1>1, <2>1, <2>2, GotoFacts
  <2>4. PokingTyped' /\ remaining'[a] > 0
    BY <1>1, <2>1 DEF PartsTyped, PokingTyped, poking
  <2>5. /\ OnlyOf(a) /\ ControlOf(a)' /\ ProducingTyped' /\ DrainingTyped'
        /\ Row(a)' = 0 /\ Mark1(a)' = Mark1(a) /\ Busy1(a)' = Busy1(a)
    <3>1. /\ Kernel => p \in {"poke", "poke_pending", "poke_request"}
          /\ ~Kernel => p \notin {"poke_pending", "poke_request"}
          /\ Overcommit => p # "poke_reserve"
          /\ p \notin {"poke_request", "poke_count", "poke_take"}
      OBVIOUS
    <3>2. \A b \in Actors \ {a} : remaining'[b] = remaining[b] /\ t_count'[b] = t_count[b]
      BY <2>1 DEF poking
    <3>3. UNCHANGED <<back, producing, held, contending>>
      BY <1>2, <2>1 DEF poking
    <3> HIDE DEF p
    <3> QED BY <1>0, <2>2, <2>3, <2>4, <3>1, <3>2, <3>3, PokeGoes
  <2>6. PartsTyped'
    BY <1>3, <2>3, <2>4, <2>5 DEF PartsTyped
  <2>7. pc'[a] # "asleep"
    BY <2>3
  <2>8. Core'
    BY <1>0, <1>4, <2>5, <2>6, <2>7, QuietCore
  <2> QED BY <1>6, <2>3, <2>5, <2>8
<1> QED BY <1>5, <1>6

LEMMA PokeMoves ==
  ASSUME Core, NEW a \in Actors, pc[a] \in PokePCs, NEW p \in PokePCs, dq' = dq,
         Goto(a, p), UNCHANGED <<poking, producing, held, contending>>,
         Kernel => p \in {"poke", "poke_pending", "poke_request"},
         ~Kernel => p \notin {"poke_pending", "poke_request"},
         Overcommit => p # "poke_reserve"
  PROVE  /\ OnlyOf(a) /\ ControlOf(a)' /\ pc'[a] = p
         /\ ControlTyped' /\ PokingTyped' /\ ProducingTyped' /\ DrainingTyped'
         /\ Row(a)' = IF p \in {"poke_request", "poke_count", "poke_take"}
                      THEN remaining[a] ELSE 0
         /\ Mark1(a)' = Mark1(a) /\ Busy1(a)' = Busy1(a)
<1>1. TypeOK /\ PartsTyped /\ remaining[a] > 0 /\ p \in PCs(a)
  BY PokerFacts DEF PCs
<1>2. ControlTyped' /\ pc'[a] = p /\ \A b \in Actors \ {a} : pc'[b] = pc[b]
  BY <1>1, GotoFacts
<1>3. PokingTyped' /\ remaining' = remaining /\ t_count' = t_count /\ back' = back
  BY <1>1 DEF PartsTyped, PokingTyped, poking
<1> QED BY <1>1, <1>2, <1>3, PokeGoes

LEMMA PokePendingCore ==
  ASSUME Core, NEW a \in Actors, dq' = dq,
         NEW from \in {"poke_pending", "poke_reserve"},
         NEW to, to = IF from = "poke_pending" THEN "poke_request" ELSE "poke_count",
         PokePending(a, from, to)
  PROVE  /\ Core' /\ OnlyOf(a)
         /\ pc'[a] = IF dgq_pending = 0 THEN to ELSE back[a]
<1>0. pc[a] = from /\ pc[a] \in PokePCs /\ Row(a) = 0
  BY OneDef DEF PokePending, PokePCs
<1>1. /\ TypeOK /\ PartsTyped /\ ControlOf(a) /\ PermitsAreLate
      /\ remaining[a] \in Nat /\ remaining[a] > 0
  BY <1>0, PokerFacts
<1>2. /\ requests \in Nat /\ dgq_pending \in Nat /\ permits \in Nat
      /\ dgq_thread_pool_size \in Int /\ dgq_thread_pool_size >= -Excess
      /\ Mark1(a) \in Nat /\ Busy1(a) \in Nat
  BY Counters
<1>3. /\ UNCHANGED <<list, threads, producing, held, contending, fifo, ran>>
      /\ UNCHANGED <<dgq_thread_pool_size, permits, requests>>
  BY DEF PokePending, threads
<1>4. CASE dgq_pending = 0
  <2>1. Goto(a, to) /\ UNCHANGED <<poking, slipped>> /\ dgq_pending' = remaining[a]
    BY <1>4 DEF PokePending
  <2>2. /\ to \in PokePCs /\ to # "poke_reserve" /\ to # "asleep"
        /\ to \in {"poke_request", "poke_count", "poke_take"}
        /\ Kernel => to \in {"poke", "poke_pending", "poke_request"}
        /\ ~Kernel => to \notin {"poke_pending", "poke_request"}
    BY <1>0, <1>1 DEF PokePCs, PoolPCs, ControlOf
  <2>3. /\ OnlyOf(a) /\ ControlOf(a)' /\ pc'[a] = to
        /\ ControlTyped' /\ PokingTyped' /\ ProducingTyped' /\ DrainingTyped'
        /\ Row(a)' = remaining[a] /\ Mark1(a)' = Mark1(a) /\ Busy1(a)' = Busy1(a)
    BY <1>0, <1>3, <2>1, <2>2, PokeMoves
  <2>4. ListTyped' /\ HistoryTyped'
    BY <1>1, <1>3, <2>1 DEF PartsTyped, ListTyped, HistoryTyped, list
  <2>5. PartsTyped'
    BY <2>3, <2>4 DEF PartsTyped
  <2>6. Balanced(a)
    BY <1>0, <1>1, <1>2, <1>3, <1>4, <2>1, <2>3 DEF Balanced
  <2>7. PermitsAreLate'
    BY <1>1, <1>3, <2>2, <2>3, PermitsKept
  <2>8. Core'
    BY <1>2, <1>3, <2>3, <2>5, <2>6, <2>7, CoreStep
  <2> QED BY <1>4, <2>3, <2>8
<1>5. CASE dgq_pending # 0
  <2>1. /\ Return(a) /\ dgq_pending' = dgq_pending
        /\ slipped' = (slipped \/ Requested = 0)
    BY <1>5 DEF PokePending
  <2>2. /\ OnlyOf(a) /\ ControlOf(a)'
        /\ ControlTyped' /\ PokingTyped' /\ ProducingTyped' /\ DrainingTyped'
        /\ Row(a)' = 0 /\ Mark1(a)' = Mark1(a) /\ Busy1(a)' = Busy1(a)
        /\ pc'[a] = back[a] /\ pc'[a] # "asleep"
    BY <1>0, <1>3, <2>1, PokeReturns
  <2>3. ListTyped' /\ HistoryTyped'
    BY <1>1, <1>3, <2>1 DEF PartsTyped, ListTyped, HistoryTyped, list
  <2>4. PartsTyped'
    BY <2>2, <2>3 DEF PartsTyped
  <2>5. Core'
    BY <1>0, <1>3, <2>1, <2>2, <2>4, QuietCore
  <2> QED BY <1>5, <2>2, <2>5
<1> QED BY <1>4, <1>5

LEMMA PokeRequestCore ==
  ASSUME Core, NEW a \in Actors, PokeRequest(a), dq' = dq
  PROVE  Core' /\ OnlyOf(a) /\ requests' > 0
<1>0. pc[a] = "poke_request" /\ pc[a] \in PokePCs /\ Row(a) = remaining[a]
  BY OneDef DEF PokeRequest, PokePCs
<1>1. /\ TypeOK /\ PartsTyped /\ ControlOf(a) /\ PermitsAreLate
      /\ remaining[a] \in Nat /\ remaining[a] > 0
  BY <1>0, PokerFacts
<1>2. /\ requests \in Nat /\ dgq_pending \in Nat /\ permits \in Nat
      /\ dgq_thread_pool_size \in Int /\ dgq_thread_pool_size >= -Excess
      /\ Mark1(a) \in Nat /\ Busy1(a) \in Nat
  BY Counters
<1>3. /\ UNCHANGED <<list, dgq_pending, dgq_thread_pool_size, permits, producing, held,
                     contending, history>>
      /\ Return(a) /\ requests' = requests + remaining[a]
  BY DEF PokeRequest
<1>4. /\ OnlyOf(a) /\ ControlOf(a)'
      /\ ControlTyped' /\ PokingTyped' /\ ProducingTyped' /\ DrainingTyped'
      /\ Row(a)' = 0 /\ Mark1(a)' = Mark1(a) /\ Busy1(a)' = Busy1(a)
      /\ pc'[a] # "asleep"
  BY <1>0, <1>3, PokeReturns
<1>5. ListTyped' /\ HistoryTyped'
  BY <1>1, <1>3 DEF PartsTyped, ListTyped, HistoryTyped, list, history
<1>6. PartsTyped'
  BY <1>4, <1>5 DEF PartsTyped
<1>7. Kernel
  BY <1>0, <1>1 DEF ControlOf
<1>8. Balanced(a)
  BY <1>0, <1>1, <1>2, <1>3, <1>4, <1>7 DEF Balanced
<1>9. PermitsAreLate'
  BY <1>1, <1>3, <1>4, PermitsKept
<1>10. Core'
  BY <1>2, <1>3, <1>4, <1>6, <1>8, <1>9, CoreStep
<1> QED BY <1>1, <1>2, <1>3, <1>4, <1>10

LEMMA PokeAddCore ==
  ASSUME Core, NEW a \in Actors, PokeAdd(a), dq' = dq
  PROVE  Core' /\ OnlyOf(a) /\ pc'[a] = "poke_count"
<1>0. pc[a] = "poke_add" /\ pc[a] \in PokePCs /\ Row(a) = 0
  BY OneDef DEF PokeAdd, PokePCs
<1>1. /\ TypeOK /\ PartsTyped /\ ControlOf(a) /\ PermitsAreLate
      /\ remaining[a] \in Nat /\ remaining[a] > 0
  BY <1>0, PokerFacts
<1>2. /\ requests \in Nat /\ dgq_pending \in Nat /\ permits \in Nat
      /\ dgq_thread_pool_size \in Int /\ dgq_thread_pool_size >= -Excess
      /\ Mark1(a) \in Nat /\ Busy1(a) \in Nat
  BY Counters
<1>3. /\ UNCHANGED <<list, threads, producing, poking, held, contending, history>>
      /\ UNCHANGED <<dgq_thread_pool_size, permits, requests>>
      /\ Goto(a, "poke_count") /\ dgq_pending' = dgq_pending + remaining[a]
  BY DEF PokeAdd, threads
<1>4. ~Kernel /\ "poke_count" \in PokePCs
  BY <1>0, <1>1 DEF ControlOf, PoolPCs, PokePCs
<1>5. /\ OnlyOf(a) /\ ControlOf(a)' /\ pc'[a] = "poke_count"
      /\ ControlTyped' /\ PokingTyped' /\ ProducingTyped' /\ DrainingTyped'
      /\ Row(a)' = remaining[a] /\ Mark1(a)' = Mark1(a) /\ Busy1(a)' = Busy1(a)
  BY <1>0, <1>3, <1>4, PokeMoves
<1>6. ListTyped' /\ HistoryTyped'
  BY <1>1, <1>3 DEF PartsTyped, ListTyped, HistoryTyped, list, history
<1>7. PartsTyped'
  BY <1>5, <1>6 DEF PartsTyped
<1>8. Balanced(a)
  BY <1>0, <1>1, <1>2, <1>3, <1>5 DEF Balanced
<1>9. PermitsAreLate'
  BY <1>1, <1>3, <1>5, PermitsKept
<1> QED BY <1>2, <1>3, <1>5, <1>7, <1>8, <1>9, CoreStep

LEMMA PokeCountCore ==
  ASSUME Core, NEW a \in Actors, PokeCount(a), dq' = dq
  PROVE  /\ Core' /\ OnlyOf(a) /\ pc'[a] = "poke_take"
         /\ t_count'[a] = dgq_thread_pool_size
<1>0. pc[a] = "poke_count" /\ pc[a] \in PokePCs /\ Row(a) = remaining[a]
  BY OneDef DEF PokeCount, PokePCs
<1>1. /\ TypeOK /\ PartsTyped /\ ControlOf(a)
      /\ remaining[a] \in Nat /\ remaining[a] > 0
      /\ dgq_thread_pool_size \in Int
  BY <1>0, PokerFacts, Counters
<1>2. /\ UNCHANGED <<list, dgq_pending, threads, producing, remaining, back, held,
                     contending, history>>
      /\ UNCHANGED <<dgq_pending, dgq_thread_pool_size, permits, requests>>
      /\ Goto(a, "poke_take")
  BY DEF PokeCount, threads
<1>3. /\ PokingTyped' /\ t_count'[a] = dgq_thread_pool_size
      /\ \A b \in Actors \ {a} : t_count'[b] = t_count[b]
  BY <1>1, <1>2 DEF PokeCount, PartsTyped, PokingTyped
<1>4. ~Kernel /\ "poke_take" \in PokePCs /\ "poke_take" \in PCs(a)
  BY <1>0, <1>1 DEF ControlOf, PoolPCs, PokePCs, PCs
<1>5. ControlTyped' /\ pc'[a] = "poke_take" /\ \A b \in Actors \ {a} : pc'[b] = pc[b]
  BY <1>1, <1>2, <1>4, GotoFacts
<1>6. /\ OnlyOf(a) /\ ControlOf(a)' /\ ProducingTyped' /\ DrainingTyped'
      /\ Row(a)' = remaining'[a] /\ Mark1(a)' = Mark1(a) /\ Busy1(a)' = Busy1(a)
  BY <1>0, <1>1, <1>2, <1>3, <1>4, <1>5, PokeGoes
<1>7. ListTyped' /\ HistoryTyped'
  BY <1>1, <1>2 DEF PartsTyped, ListTyped, HistoryTyped, list, history
<1>8. PartsTyped'
  BY <1>3, <1>5, <1>6, <1>7 DEF PartsTyped
<1>9. Row(a)' = Row(a)
  BY <1>0, <1>2, <1>6
<1>10. Core'
  BY <1>2, <1>5, <1>6, <1>8, <1>9, QuietCore
<1> QED BY <1>3, <1>5, <1>6, <1>10

LEMMA AvailableFacts ==
  ASSUME TypeOK, NEW a \in Actors
  PROVE  /\ Available(a) \in Nat
         /\ Available(a) > 0 => t_count[a] - Available(a) = IF a \in Monitors THEN -Excess ELSE 0
         /\ Available(a) = 0 => t_count[a] <= 0
<1>1. t_count[a] \in Int /\ Excess \in Nat
  BY RootQueueAssumption DEF TypeOK, PokingTyped
<1> QED BY <1>1 DEF Available

LEMMA PokeTrimCore ==
  ASSUME Core, NEW a \in Actors, PokeTrim(a), dq' = dq
  PROVE  /\ Core' /\ OnlyOf(a)
         /\ Available(a) = 0 => pc'[a] = back[a]
         /\ Available(a) > 0 => pc'[a] = "poke_take" /\ t_count' = t_count
<1>0. pc[a] = "poke_take" /\ pc[a] \in PokePCs /\ Row(a) = remaining[a]
  BY OneDef DEF PokeTrim, PokePCs
<1>1. /\ TypeOK /\ PartsTyped /\ ControlOf(a) /\ PermitsAreLate
      /\ remaining[a] \in Nat /\ Available(a) \in Nat /\ remaining[a] > Available(a)
      /\ back[a] # "asleep"
  BY <1>0, PokerFacts, AvailableFacts DEF PokeTrim
<1>2. /\ requests \in Nat /\ dgq_pending \in Nat /\ permits \in Nat
      /\ dgq_thread_pool_size \in Int /\ dgq_thread_pool_size >= -Excess
      /\ Mark1(a) \in Nat /\ Busy1(a) \in Nat
  BY Counters
<1>3. /\ UNCHANGED <<list, threads, producing, held, contending, fifo, ran>>
      /\ UNCHANGED <<dgq_thread_pool_size, permits, requests>>
      /\ dgq_pending' = dgq_pending - (remaining[a] - Available(a))
  BY DEF PokeTrim, threads, Surplus
<1>4. slipped' \in BOOLEAN
  BY <1>1 DEF PokeTrim, PartsTyped, HistoryTyped
<1>5. ListTyped' /\ HistoryTyped'
  BY <1>1, <1>3, <1>4 DEF PartsTyped, ListTyped, HistoryTyped, list
<1>6. ~Kernel
  BY <1>0, <1>1 DEF ControlOf, PoolPCs
<1>7. CASE Available(a) = 0
  <2>1. Return(a)
    BY <1>7 DEF PokeTrim
  <2>2. /\ OnlyOf(a) /\ ControlOf(a)'
        /\ ControlTyped' /\ PokingTyped' /\ ProducingTyped' /\ DrainingTyped'
        /\ Row(a)' = 0 /\ Mark1(a)' = Mark1(a) /\ Busy1(a)' = Busy1(a)
        /\ pc'[a] = back[a] /\ pc'[a] # "asleep"
    BY <1>0, <1>3, <2>1, PokeReturns
  <2>3. PartsTyped'
    BY <1>5, <2>2 DEF PartsTyped
  <2>4. Balanced(a)
    BY <1>0, <1>1, <1>2, <1>3, <1>7, <2>2 DEF Balanced
  <2>5. PermitsAreLate'
    BY <1>1, <1>3, <2>2, PermitsKept
  <2>6. Core'
    BY <1>2, <1>3, <2>2, <2>3, <2>4, <2>5, CoreStep
  <2> QED BY <1>7, <2>2, <2>6
<1>8. CASE Available(a) > 0
  <2>1. UNCHANGED <<pc, t_count, back>> /\ remaining' = [remaining EXCEPT ![a] = Available(a)]
    BY <1>8, <1>1 DEF PokeTrim
  <2>2. /\ ControlTyped' /\ PokingTyped' /\ remaining'[a] = Available(a)
        /\ \A b \in Actors \ {a} : remaining'[b] = remaining[b]
    BY <1>1, <2>1 DEF PartsTyped, PokingTyped, ControlTyped
  <2>3. /\ OnlyOf(a) /\ ControlOf(a)' /\ ProducingTyped' /\ DrainingTyped'
        /\ Row(a)' = Available(a) /\ Mark1(a)' = Mark1(a) /\ Busy1(a)' = Busy1(a)
    BY <1>0, <1>1, <1>3, <1>6, <1>8, <2>1, <2>2, PokeGoes
  <2>4. PartsTyped'
    BY <1>5, <2>2, <2>3 DEF PartsTyped
  <2>5. Balanced(a)
    BY <1>0, <1>1, <1>2, <1>3, <2>3 DEF Balanced
  <2>6. PermitsAreLate'
    BY <1>0, <1>1, <1>3, <2>1, <2>3, PermitsKept
  <2>7. Core'
    BY <1>2, <1>3, <2>3, <2>4, <2>5, <2>6, CoreStep
  <2> QED BY <1>0, <1>8, <2>1, <2>3, <2>7
<1> QED BY <1>1, <1>7, <1>8

LEMMA PokeTakeCore ==
  ASSUME Core, NEW a \in Actors, PokeTake(a), dq' = dq
  PROVE  /\ Core' /\ OnlyOf(a)
         /\ PoolUnchanged(a) => requests' > 0
         /\ ~PoolUnchanged(a) =>
              pc'[a] = "poke_take" /\ t_count'[a] = dgq_thread_pool_size
<1>0. pc[a] = "poke_take" /\ pc[a] \in PokePCs /\ Row(a) = remaining[a]
  BY OneDef DEF PokeTake, PokePCs
<1>1. /\ TypeOK /\ PartsTyped /\ ControlOf(a) /\ PermitsAreLate
      /\ remaining[a] \in Nat /\ remaining[a] > 0 /\ t_count[a] \in Int
      /\ Available(a) \in Nat /\ remaining[a] <= Available(a)
      /\ back[a] # "asleep"
  BY <1>0, PokerFacts, AvailableFacts DEF PokeTake
<1>2. /\ requests \in Nat /\ dgq_pending \in Nat /\ permits \in Nat /\ Excess \in Nat
      /\ dgq_thread_pool_size \in Int /\ dgq_thread_pool_size >= -Excess
      /\ Mark1(a) \in Nat /\ Busy1(a) \in Nat
  BY Counters
<1>3. UNCHANGED <<list, dgq_pending, permits, producing, held, contending, history>>
  BY DEF PokeTake
<1>4. ListTyped' /\ HistoryTyped'
  BY <1>1, <1>3 DEF PartsTyped, ListTyped, HistoryTyped, list, history
<1>5. ~Kernel /\ "poke_take" \in PokePCs
  BY <1>0, <1>1 DEF ControlOf, PoolPCs
<1>6. CASE PoolUnchanged(a)
  <2>1. /\ Return(a) /\ dgq_thread_pool_size' = t_count[a] - remaining[a]
        /\ requests' = requests + remaining[a] /\ dgq_thread_pool_size = t_count[a]
    BY <1>6 DEF PokeTake, PoolUnchanged
  <2>2. /\ OnlyOf(a) /\ ControlOf(a)'
        /\ ControlTyped' /\ PokingTyped' /\ ProducingTyped' /\ DrainingTyped'
        /\ Row(a)' = 0 /\ Mark1(a)' = Mark1(a) /\ Busy1(a)' = Busy1(a)
        /\ pc'[a] = back[a] /\ pc'[a] # "asleep"
    BY <1>0, <1>3, <2>1, PokeReturns
  <2>3. PartsTyped'
    BY <1>4, <2>2 DEF PartsTyped
  <2>4. Balanced(a)
    BY <1>0, <1>1, <1>2, <1>3, <2>1, <2>2 DEF Balanced
  <2>5. PermitsAreLate'
    BY <1>1, <1>3, <2>2, PermitsKept
  <2>6. dgq_thread_pool_size' >= -Excess
    <3>1. t_count[a] - Available(a) >= -Excess
      BY <1>1, <1>2, AvailableFacts
    <3> QED BY <1>1, <1>2, <2>1, <3>1
  <2>7. Core'
    BY <1>2, <1>3, <1>5, <2>2, <2>3, <2>4, <2>5, <2>6, CoreStep
  <2> QED BY <1>1, <1>2, <1>6, <2>1, <2>2, <2>7
<1>7. CASE ~PoolUnchanged(a)
  <2>1. /\ t_count' = [t_count EXCEPT ![a] = dgq_thread_pool_size]
        /\ UNCHANGED <<dgq_thread_pool_size, requests, pc, remaining, back>>
    BY <1>7 DEF PokeTake
  <2>2. /\ ControlTyped' /\ PokingTyped' /\ t_count'[a] = dgq_thread_pool_size
        /\ \A b \in Actors \ {a} : t_count'[b] = t_count[b]
    BY <1>1, <1>2, <2>1 DEF PartsTyped, PokingTyped, ControlTyped
  <2>3. /\ OnlyOf(a) /\ ControlOf(a)' /\ ProducingTyped' /\ DrainingTyped'
        /\ Row(a)' = remaining[a] /\ Mark1(a)' = Mark1(a) /\ Busy1(a)' = Busy1(a)
    BY <1>0, <1>1, <1>3, <1>5, <2>1, <2>2, PokeGoes
  <2>4. PartsTyped'
    BY <1>4, <2>2, <2>3 DEF PartsTyped
  <2>5. Core'
    BY <1>0, <1>3, <2>1, <2>3, <2>4, QuietCore
  <2> QED BY <1>0, <1>7, <2>1, <2>2, <2>3, <2>5
<1> QED BY <1>6, <1>7

\* A signal wakes a sleeper: the one step that moves two.
LEMMA WakeCore ==
  ASSUME Core, NEW a \in Actors, pc[a] = "poke_signal", NEW w \in Asleep, dq' = dq,
         UNCHANGED <<list, dgq_pending, threads, producing, t_count, held, contending,
                     history>>,
         NEW p, pc' = [pc EXCEPT ![w] = "drain", ![a] = p],
         remaining' = [remaining EXCEPT ![a] = @ - 1],
         \/ /\ p = "poke_signal" /\ remaining[a] > 1
            /\ back' = back
         \/ /\ p = back[a] /\ remaining[a] = 1
            /\ back' = [back EXCEPT ![a] = "idle"]
  PROVE  /\ Core' /\ pc'[w] = "drain" /\ pc'[a] = p /\ w # a
         /\ \A b \in Actors \ {a, w} :
              pc'[b] = pc[b] /\ remaining'[b] = remaining[b] /\ back'[b] = back[b]
<1>0. /\ pc[a] \in PokePCs /\ pc[a] \notin {"poke_request", "poke_count", "poke_take"}
      /\ w \in Workers /\ pc[w] = "asleep" /\ pc[w] \in WorkerPCs /\ w # a
  BY DEF Asleep, PokePCs, WorkerPCs
<1>1. /\ TypeOK /\ PartsTyped /\ ControlOf(a) /\ ControlOf(w) /\ PermitsAreLate
      /\ remaining[a] \in Nat /\ remaining[a] > 0
      /\ a \in Workers => ~marked[a] /\ (held[a] # Nil <=> back[a] = "run")
      /\ a \in Workers => back[a] \in {"run", "done", "none"}
      /\ a \notin Workers => back[a] = "idle"
      /\ w \in Actors /\ held[w] = Nil /\ ~marked[w] /\ back[w] = "idle"
  BY <1>0, PokerFacts, WorkerFacts DEF PopPCs
<1>2. /\ pc'[w] = "drain" /\ pc'[a] = p
      /\ \A b \in Actors \ {a, w} : pc'[b] = pc[b]
  BY <1>0, <1>1 DEF PartsTyped, ControlTyped
<1>3. /\ PokingTyped' /\ remaining'[a] = remaining[a] - 1
      /\ \A b \in Actors \ {a} : remaining'[b] = remaining[b] /\ back'[b] = back[b]
      /\ \/ p = "poke_signal" /\ back'[a] = back[a] /\ remaining'[a] > 0
         \/ p = back[a] /\ back'[a] = "idle"
  <2>1. /\ remaining' \in [Actors -> Nat] /\ remaining'[a] = remaining[a] - 1
        /\ \A b \in Actors \ {a} : remaining'[b] = remaining[b]
    <3>1. remaining \in [Actors -> Nat] /\ remaining[a] - 1 \in Nat
      BY <1>1 DEF PartsTyped, PokingTyped
    <3> QED BY <3>1
  <2>2. back \in [Actors -> {"idle", "run", "done", "none"}] /\ t_count' \in [Actors -> Int]
    BY <1>1 DEF PartsTyped, PokingTyped
  <2>3. CASE p = "poke_signal" /\ remaining[a] > 1 /\ back' = back
    BY <1>1, <2>1, <2>2, <2>3 DEF PokingTyped
  <2>4. CASE p = back[a] /\ back' = [back EXCEPT ![a] = "idle"]
    <3>1. /\ back' \in [Actors -> {"idle", "run", "done", "none"}]
          /\ back'[a] = "idle" /\ \A b \in Actors \ {a} : back'[b] = back[b]
      BY <2>2, <2>4
    <3> QED BY <2>1, <2>2, <2>4, <3>1 DEF PokingTyped
  <2> QED BY <2>3, <2>4
<1>4. ControlTyped'
  <2>1. /\ p \in PCs(a) /\ "drain" \in PCs(w)
        /\ p \in {"idle", "push_link"} \cup PokePCs \cup WorkerPCs
        /\ "drain" \in {"idle", "push_link"} \cup PokePCs \cup WorkerPCs
    <3>1. \/ p \in {"poke_signal", "idle"}
          \/ a \in Workers /\ p \in {"run", "done", "none"}
      BY <1>1, <1>3
    <3>2. p = "idle" => a \notin Workers
      BY <1>1
    <3> QED BY <1>0, <3>1, <3>2, Kinds, <1>1 DEF PCs, PokePCs, WorkerPCs
  <2>2. pc' \in [Actors -> {"idle", "push_link"} \cup PokePCs \cup WorkerPCs]
    BY <1>1, <2>1 DEF PartsTyped, ControlTyped
  <2>3. \A b \in Actors : pc'[b] \in PCs(b)
    BY <1>1, <1>2, <2>1, PlaceFacts
  <2>4. /\ \A q \in Producers : pc'[q] \in {"idle", "push_link"} \cup PokePCs
        /\ \A v \in Workers : pc'[v] \in WorkerPCs \cup PokePCs
        /\ \A m \in Monitors : pc'[m] \in {"idle"} \cup PokePCs
    BY <2>3, RootQueueAssumption DEF PCs, Actors
  <2> QED BY <2>2, <2>4 DEF ControlTyped
<1>5. PartsTyped'
  BY <1>1, <1>3, <1>4
  DEF PartsTyped, ListTyped, ProducingTyped, DrainingTyped, HistoryTyped,
      list, producing, contending, history
<1>6. ControlOf(w)'
  BY <1>0, <1>1, <1>2, <1>3, Kinds
  DEF ControlOf, Holds, PopPCs, PoolPCs, PokePCs, Kernel, Overcommit, contending
<1>7. ControlOf(a)'
  <2>1. CASE p = "poke_signal" /\ back'[a] = back[a] /\ remaining'[a] > 0
    BY <1>0, <1>1, <1>2, <2>1
    DEF ControlOf, Holds, PopPCs, PoolPCs, PokePCs, Kernel, Overcommit, contending
  <2>2. CASE p = back[a] /\ back'[a] = "idle"
    <3>1. p \notin PokePCs \cup PopPCs \cup PoolPCs \cup {"push_link"}
      BY <1>1, <2>2 DEF PokePCs, PopPCs, PoolPCs
    <3>2. p \notin {"poke_pending", "poke_request", "poke_reserve"}
      BY <1>1, <2>2
    <3> QED BY <1>0, <1>1, <1>2, <2>2, <3>1, <3>2
            DEF ControlOf, Holds, Kernel, Overcommit, contending
  <2> QED BY <1>3, <2>1, <2>2
<1>8. ASSUME NEW b \in Actors, b # a, b # w PROVE ControlOf(b)'
  <2>1. ControlOf(b) /\ pc'[b] = pc[b] /\ remaining'[b] = remaining[b] /\ back'[b] = back[b]
    BY <1>2, <1>3, <1>8, Parts
  <2> QED BY <2>1 DEF ControlOf, Holds, Kernel, Overcommit, contending, producing
<1>9. PermitsAreLate'
  BY <1>1 DEF PermitsAreLate, Kernel, threads
<1>10. Control'
  BY <1>6, <1>7, <1>8, <1>9 DEF Control
<1>11. p \notin {"poke_request", "poke_count", "poke_take"} /\ p # "asleep"
  BY <1>1
<1>12. /\ Claims' \ {a} = Claims \ {a}
       /\ \A b \in Claims \ {a} : remaining'[b] = remaining[b]
       /\ Marks' \ {a} = Marks \ {a}
       /\ Busy' \ {a} = Busy \ {a}
  <2>1. Claims' \ {a} = Claims \ {a} /\ \A b \in Claims \ {a} : remaining'[b] = remaining[b]
    BY <1>0, <1>2, <1>3 DEF Claims
  <2>2. Marks' \ {a} = Marks \ {a}
    BY DEF Marks, contending
  <2>3. ~Exiting(w) /\ ~Exiting(w)'
    BY <1>0, <1>2 DEF Exiting, PokePCs
  <2>4. \A v \in Workers \ {a} : (v \in Busy)' <=> v \in Busy
    BY <1>0, <1>2, <1>3, <2>3 DEF Busy, Exiting, Actors
  <2> QED BY <2>1, <2>2, <2>4 DEF Busy
<1>13. Row(a)' = Row(a) /\ Mark1(a)' = Mark1(a) /\ Busy1(a)' = Busy1(a)
  <2>1. Row(a)' = Row(a) /\ Mark1(a)' = Mark1(a)
    BY <1>0, <1>2, <1>11, OneDef, OneDefNext DEF contending
  <2>2. Busy1(a)' = Busy1(a)
    <3>1. CASE p = "poke_signal" /\ back'[a] = back[a]
      <4>1. pc'[a] = "poke_signal" /\ pc[a] = "poke_signal"
        BY <1>2, <3>1
      <4>2. Exiting(a)' <=> Exiting(a)
        BY <3>1, <4>1 DEF Exiting
      <4> QED BY <4>1, <4>2, OneDef, OneDefNext
    <3>2. CASE p = back[a]
      <4>1. ~Exiting(a)' /\ (Exiting(a) <=> back[a] = "none") /\ pc[a] # "none"
        BY <1>0, <1>1, <1>2, <3>2 DEF Exiting, PokePCs
      <4> QED BY <1>1, <1>2, <3>2, <4>1, OneDef, OneDefNext
    <3> QED BY <1>3, <3>1, <3>2
  <2> QED BY <2>1, <2>2
<1>14. Balanced(a)
  BY <1>13, Counters DEF Balanced, threads
<1>15. PendingIsAccounted' /\ PoolIsAccounted'
  BY <1>5, <1>12, <1>14, AccountStep DEF Core, PartsTyped
<1>16. TypeOK'
  BY <1>1, <1>5 DEF PartsTyped, TypeOK, ThreadsTyped, threads
<1> QED BY <1>0, <1>2, <1>3, <1>10, <1>15, <1>16 DEF Core, ThreadsAreAccounted

LEMMA PokeSignalCore ==
  ASSUME Core, NEW a \in Actors, PokeSignal(a), dq' = dq
  PROVE  /\ Core'
         /\ \/ \E w \in Workers \ {a} :
                 /\ pc'[w] = "drain"
                 /\ permits' = permits
            \/ /\ OnlyOf(a) /\ permits' > 0
               /\ pc'[a] = IF Overcommit THEN "poke_add" ELSE "poke_reserve"
<1>0. pc[a] = "poke_signal" /\ pc[a] \in PokePCs /\ Row(a) = 0
  BY OneDef DEF PokeSignal, PokePCs
<1>1. /\ TypeOK /\ PartsTyped /\ ControlOf(a)
      /\ remaining[a] \in Nat /\ remaining[a] > 0
  BY <1>0, PokerFacts
<1>2. UNCHANGED <<list, dgq_pending, dgq_thread_pool_size, requests, producing, held,
                  contending, history>>
  BY DEF PokeSignal
<1>3. ~Kernel
  BY <1>0, <1>1 DEF ControlOf, PoolPCs
<1>4. ASSUME NEW w \in Asleep, remaining[a] > 1, Goto(w, "drain"),
             remaining' = [remaining EXCEPT ![a] = @ - 1],
             UNCHANGED <<permits, t_count, back>>
      PROVE  Core' /\ pc'[w] = "drain" /\ w \in Workers \ {a}
  <2>1. pc' = [pc EXCEPT ![w] = "drain", ![a] = "poke_signal"]
    <3>1. w # a /\ pc[a] = "poke_signal"
      BY <1>0 DEF Asleep
    <3> QED BY <3>1, <1>1, <1>4 DEF Goto, PartsTyped, ControlTyped
  <2>2. UNCHANGED threads
    BY <1>2, <1>4 DEF threads
  <2> QED BY <1>0, <1>2, <1>4, <2>1, <2>2, WakeCore DEF Asleep
<1>5. ASSUME NEW w \in Asleep, remaining[a] = 1,
             pc' = [pc EXCEPT ![w] = "drain", ![a] = back[a]],
             remaining' = [remaining EXCEPT ![a] = 0],
             back' = [back EXCEPT ![a] = "idle"], UNCHANGED <<permits, t_count>>
      PROVE  Core' /\ pc'[w] = "drain" /\ w \in Workers \ {a}
  <2>1. remaining' = [remaining EXCEPT ![a] = @ - 1]
    BY <1>1, <1>5 DEF PartsTyped, PokingTyped
  <2>2. UNCHANGED threads
    BY <1>2, <1>5 DEF threads
  <2> QED BY <1>0, <1>2, <1>5, <2>1, <2>2, WakeCore DEF Asleep
<1>6. ASSUME Asleep = {}, permits' = permits + 1, UNCHANGED poking,
             Goto(a, IF Overcommit THEN "poke_add" ELSE "poke_reserve")
      PROVE  /\ Core' /\ OnlyOf(a) /\ permits' > 0
             /\ pc'[a] = IF Overcommit THEN "poke_add" ELSE "poke_reserve"
  <2>1. PICK p \in {"poke_add", "poke_reserve"} :
          Goto(a, p) /\ p = IF Overcommit THEN "poke_add" ELSE "poke_reserve"
    BY <1>6
  <2>2. p \in PokePCs /\ p \notin {"poke_request", "poke_count", "poke_take"}
    BY DEF PokePCs
  <2>3. /\ OnlyOf(a) /\ ControlOf(a)' /\ pc'[a] = p
        /\ ControlTyped' /\ PokingTyped' /\ ProducingTyped' /\ DrainingTyped'
        /\ Row(a)' = Row(a) /\ Mark1(a)' = Mark1(a) /\ Busy1(a)' = Busy1(a)
    BY <1>0, <1>2, <1>3, <1>6, <2>1, <2>2, PokeMoves
  <2>4. ListTyped' /\ HistoryTyped'
    BY <1>1, <1>2 DEF PartsTyped, ListTyped, HistoryTyped, list, history
  <2>5. PartsTyped'
    BY <2>3, <2>4 DEF PartsTyped
  <2>6. /\ requests \in Nat /\ dgq_pending \in Nat /\ permits \in Nat
        /\ dgq_thread_pool_size \in Int /\ dgq_thread_pool_size >= -Excess
    BY Counters
  <2>7. Balanced(a)
    BY <1>2, <2>3, <2>6 DEF Balanced
  <2>8. PermitsAreLate'
    <3>1. \A v \in Workers : pc'[v] # "asleep"
      BY <1>6, <2>3 DEF OnlyOf, Asleep, Actors
    <3> QED BY <1>3, <3>1 DEF PermitsAreLate, Kernel, Asleep
  <2>9. Core'
    BY <1>2, <1>6, <2>3, <2>5, <2>6, <2>7, <2>8, CoreStep
  <2> QED BY <1>6, <2>1, <2>3, <2>6, <2>9
<1>7. \/ \E w \in Asleep :
           /\ remaining[a] > 1
           /\ remaining' = [remaining EXCEPT ![a] = @ - 1]
           /\ Goto(w, "drain")
           /\ UNCHANGED <<permits, t_count, back>>
      \/ \E w \in Asleep :
           /\ remaining[a] = 1
           /\ pc' = [pc EXCEPT ![w] = "drain", ![a] = back[a]]
           /\ remaining' = [remaining EXCEPT ![a] = 0]
           /\ back' = [back EXCEPT ![a] = "idle"]
           /\ UNCHANGED <<permits, t_count>>
      \/ /\ Asleep = {}
         /\ permits' = permits + 1
         /\ Goto(a, IF Overcommit THEN "poke_add" ELSE "poke_reserve")
         /\ UNCHANGED poking
  BY DEF PokeSignal
<1> QED BY <1>4, <1>5, <1>6, <1>7

\* A monitor asks for a thread.
LEMMA MonitorCore ==
  ASSUME Core, NEW m \in Monitors, pc[m] = "idle", Poke(m, 1, "idle"), dq' = dq, ~Kernel,
         UNCHANGED <<list, dgq_pending, threads, pushes, batch, prev, held, contending,
                     history>>,
         ticks' \in 0 .. MaxTicks
  PROVE  Core' /\ OnlyOf(m) /\ pc'[m] = "poke"
<1>1. m \in Actors /\ TypeOK /\ PartsTyped /\ ControlOf(m)
  BY Parts DEF Actors
<1>2. /\ ControlTyped' /\ PokingTyped'
      /\ pc'[m] = "poke" /\ remaining'[m] = 1 /\ back'[m] = "idle"
      /\ t_count' = t_count
      /\ \A b \in Actors \ {m} :
           pc'[b] = pc[b] /\ remaining'[b] = remaining[b] /\ back'[b] = back[b]
  BY <1>1, PokeFacts
<1>3. PartsTyped'
  BY <1>1, <1>2
  DEF PartsTyped, ListTyped, ProducingTyped, DrainingTyped, HistoryTyped,
      list, contending, history
<1>4. OnlyOf(m)
  BY <1>1, <1>2 DEF OnlyOf, contending
<1>5. ControlOf(m)'
  BY <1>1, <1>2, Kinds
  DEF ControlOf, Holds, PopPCs, PoolPCs, PokePCs, Kernel, Overcommit
<1>6. Row(m)' = Row(m) /\ Mark1(m)' = Mark1(m) /\ Busy1(m)' = Busy1(m)
  BY <1>1, <1>2, OneDef, OneDefNext, Kinds DEF Exiting, PokePCs
<1>7. UNCHANGED <<dgq_pending, dgq_thread_pool_size, permits, requests>>
  BY DEF threads
<1> QED BY <1>1, <1>2, <1>3, <1>4, <1>5, <1>6, <1>7, QuietCore

LEMMA MonitorStalledCore ==
  ASSUME Core, NEW m \in Monitors, MonitorStalled(m), dq' = dq
  PROVE  Core' /\ OnlyOf(m) /\ pc'[m] = "poke"
<1>1. pc[m] = "idle" /\ ~Kernel /\ ticks' \in 0 .. MaxTicks
  BY Parts DEF MonitorStalled, AtRest, Monitored, Kernel, PartsTyped, ProducingTyped, producing
<1> QED BY <1>1, MonitorCore DEF MonitorStalled, producing

LEMMA MonitorUnderusedCore ==
  ASSUME Core, NEW m \in Monitors, MonitorUnderused(m), dq' = dq
  PROVE  Core' /\ OnlyOf(m) /\ pc'[m] = "poke"
<1>1. pc[m] = "idle" /\ ~Kernel
  BY DEF MonitorUnderused, Monitored, Kernel
<1>2. ticks' \in 0 .. MaxTicks
  BY Parts, RootQueueAssumption DEF MonitorUnderused, PartsTyped, ProducingTyped
<1> QED BY <1>1, <1>2, MonitorCore DEF MonitorUnderused

New(p, b) == [n \in 1 .. b |-> [by |-> p, push |-> pushes[p] + 1, n |-> n]]

LEMMA NewFacts ==
  ASSUME TypeOK, NEW p \in Producers, NEW b \in Batches, pushes[p] < MaxPush
  PROVE  /\ b \in Nat \ {0}
         /\ New(p, b) \in Seq(Items) /\ Len(New(p, b)) = b /\ New(p, b) # <<>>
         /\ \A n \in 1 .. b :
              /\ New(p, b)[n] \in Items
              /\ New(p, b)[n].by = p /\ New(p, b)[n].push = pushes[p] + 1
              /\ New(p, b)[n].n = n
         /\ pushes[p] \in 0 .. MaxPush /\ pushes[p] + 1 \in 1 .. MaxPush
<1>1. b \in Nat \ {0} /\ pushes[p] \in 0 .. MaxPush /\ MaxPush \in Nat
  BY RootQueueAssumption DEF TypeOK, ProducingTyped
<1>2. pushes[p] + 1 \in 1 .. MaxPush
  BY <1>1
<1>3. \A n \in 1 .. b : n \in UNION {1 .. i : i \in Batches}
  OBVIOUS
<1>4. \A n \in 1 .. b : [by |-> p, push |-> pushes[p] + 1, n |-> n] \in Items
  BY <1>2, <1>3 DEF Items
<1>5. New(p, b) \in [1 .. b -> Items]
  BY <1>4 DEF New
<1>6. New(p, b) \in Seq(Items) /\ Len(New(p, b)) = b
  BY <1>1, <1>5
<1>7. New(p, b) # <<>>
  BY <1>1, <1>6, EmptySeq
<1> QED BY <1>1, <1>2, <1>4, <1>6, <1>7 DEF New

LEMMA PushCore ==
  ASSUME Core, NEW p \in Producers, NEW b \in Batches, Push(p, b), dq' = dq
  PROVE  Core' /\ OnlyOf(p) /\ pc'[p] = "push_link"
<1>0. p \in Actors /\ TypeOK /\ PartsTyped /\ ControlOf(p)
  BY Parts DEF Actors
<1>1. pc[p] = "idle" /\ pushes[p] < MaxPush
  BY DEF Push
<1>2. /\ b \in Nat \ {0}
      /\ New(p, b) \in Seq(Items) /\ Len(New(p, b)) = b /\ New(p, b) # <<>>
      /\ \A n \in 1 .. b :
           /\ New(p, b)[n] \in Items
           /\ New(p, b)[n].by = p /\ New(p, b)[n].push = pushes[p] + 1
           /\ New(p, b)[n].n = n
      /\ pushes[p] \in 0 .. MaxPush /\ pushes[p] + 1 \in 1 .. MaxPush
  BY <1>0, <1>1, NewFacts
<1>3. ControlTyped' /\ pc'[p] = "push_link" /\ \A a \in Actors \ {p} : pc'[a] = pc[a]
  <2>1. Goto(p, "push_link") /\ "push_link" \in PCs(p)
    BY DEF Push, PCs
  <2> QED BY <1>0, <2>1, GotoFacts
<1>4. /\ pushes' = [pushes EXCEPT ![p] = pushes[p] + 1]
      /\ batch' = [batch EXCEPT ![p] = New(p, b)]
      /\ prev' = [prev EXCEPT ![p] = dq_items_tail]
      /\ dq_items_tail' = New(p, b)[b]
      /\ fifo' = fifo \o New(p, b)
      /\ do_next' = [i \in Items |-> IF \E n \in 1 .. b - 1 : i = New(p, b)[n]
                                     THEN New(p, b)[i.n + 1] ELSE do_next[i]]
  BY DEF Push, New
<1>5. UNCHANGED <<dq_items_head, dgq_pending, threads, ticks, poking, held, contending, ran,
                  slipped>>
  BY DEF Push
<1>6. ListTyped'
  <2>1. New(p, b)[b] \in Items
    BY <1>2
  <2>2. ASSUME NEW i \in Items, NEW n \in 1 .. b - 1, i = New(p, b)[n]
        PROVE  New(p, b)[i.n + 1] \in Items
    <3>1. i.n = n /\ n + 1 \in 1 .. b
      BY <1>2, <2>2
    <3> QED BY <1>2, <3>1
  <2>3. do_next' \in [Items -> Items \cup {Nil}]
    <3> HIDE DEF New
    <3> QED BY <1>0, <1>4, <2>2 DEF PartsTyped, ListTyped
  <2> QED BY <1>0, <1>4, <1>5, <2>1, <2>3 DEF PartsTyped, ListTyped
<1>7. HistoryTyped'
  BY <1>0, <1>2, <1>4, <1>5, ConcatProperties DEF PartsTyped, HistoryTyped
<1>8. /\ ProducingTyped' /\ batch'[p] = New(p, b) /\ pushes'[p] = pushes[p] + 1
      /\ \A q \in Producers \ {p} :
           pushes'[q] = pushes[q] /\ batch'[q] = batch[q] /\ prev'[q] = prev[q]
  <2>1. pushes[p] + 1 \in 0 .. MaxPush
    BY <1>2
  <2>2. /\ pushes' \in [Producers -> 0 .. MaxPush] /\ pushes'[p] = pushes[p] + 1
        /\ \A q \in Producers \ {p} : pushes'[q] = pushes[q]
    BY <1>0, <1>4, <2>1 DEF PartsTyped, ProducingTyped
  <2>3. /\ batch' \in [Producers -> Seq(Items)] /\ batch'[p] = New(p, b)
        /\ \A q \in Producers \ {p} : batch'[q] = batch[q]
    BY <1>0, <1>2, <1>4 DEF PartsTyped, ProducingTyped
  <2>4. /\ prev' \in [Producers -> Items \cup {Nil}]
        /\ \A q \in Producers \ {p} : prev'[q] = prev[q]
    BY <1>0, <1>4 DEF PartsTyped, ProducingTyped, ListTyped
  <2> QED BY <1>0, <1>5, <2>2, <2>3, <2>4 DEF PartsTyped, ProducingTyped
<1>9. PartsTyped'
  BY <1>0, <1>3, <1>5, <1>6, <1>7, <1>8
  DEF PartsTyped, PokingTyped, DrainingTyped, poking, contending
<1>10. OnlyOf(p)
  BY <1>3, <1>5, <1>8 DEF OnlyOf, poking, contending
<1>11. ControlOf(p)'
  <2>1. batch'[p][1].by = p /\ batch'[p][1].push = pushes[p] + 1
    BY <1>2, <1>8
  <2>2. pc'[p] \notin PokePCs \cup PoolPCs
    BY <1>3 DEF PokePCs, PoolPCs
  <2>3. back'[p] = back[p] /\ pc[p] \notin PokePCs
    BY <1>1, <1>5 DEF PokePCs, poking
  <2> QED BY <1>0, <1>2, <1>3, <1>8, <2>1, <2>2, <2>3, Kinds DEF ControlOf, Kernel, Overcommit
<1>12. Row(p)' = Row(p) /\ Mark1(p)' = Mark1(p) /\ Busy1(p)' = Busy1(p)
  BY <1>0, <1>1, <1>3, OneDef, OneDefNext, Kinds
<1>13. UNCHANGED <<dgq_pending, dgq_thread_pool_size, permits, requests>>
  BY <1>5 DEF threads
<1> QED BY <1>0, <1>3, <1>9, <1>10, <1>11, <1>12, <1>13, QuietCore

LEMMA PushLinkCore ==
  ASSUME Core, NEW p \in Producers, PushLink(p), dq' = dq
  PROVE  /\ Core' /\ OnlyOf(p)
         /\ pc'[p] = IF prev[p] = Nil THEN "poke" ELSE "idle"
<1>0. p \in Actors /\ TypeOK /\ PartsTyped /\ ControlOf(p) /\ pc[p] = "push_link"
  BY Parts DEF Actors, PushLink
<1>1. /\ batch[p] \in Seq(Items) /\ batch[p] # <<>>
      /\ batch[p][1] \in Items /\ Len(batch[p]) \in Nat \ {0}
      /\ back[p] = "idle"
  <2>1. batch[p] \in Seq(Items) /\ batch[p] # <<>> /\ back[p] = "idle"
    BY <1>0, Kinds DEF ControlOf, PartsTyped, ProducingTyped
  <2>2. Len(batch[p]) \in Nat \ {0}
    BY <2>1, EmptySeq
  <2>3. 1 \in 1 .. Len(batch[p])
    BY <2>2
  <2> QED BY <2>1, <2>2, <2>3, ElementOfSeq
<1>2. UNCHANGED <<dq_items_tail, dgq_pending, threads, pushes, ticks, held, contending,
                  history>>
  BY DEF PushLink
<1>3. /\ ProducingTyped' /\ batch'[p] = <<>> /\ prev'[p] = Nil
      /\ \A q \in Producers \ {p} :
           pushes'[q] = pushes[q] /\ batch'[q] = batch[q] /\ prev'[q] = prev[q]
  <2>1. batch' = [batch EXCEPT ![p] = <<>>] /\ prev' = [prev EXCEPT ![p] = Nil]
    BY DEF PushLink
  <2>2. <<>> \in Seq(Items)
    BY EmptySeq
  <2> QED BY <1>0, <1>2, <2>1, <2>2 DEF PartsTyped, ProducingTyped
<1>4. HistoryTyped' /\ DrainingTyped'
  BY <1>0, <1>2 DEF PartsTyped, HistoryTyped, DrainingTyped, history, contending
<1>5. UNCHANGED <<dgq_pending, dgq_thread_pool_size, permits, requests>>
  BY <1>2 DEF threads
<1>6. CASE prev[p] = Nil
  <2>1. /\ dq_items_head' = batch[p][1] /\ UNCHANGED do_next
        /\ Poke(p, Len(batch[p]), "idle")
    BY <1>6 DEF PushLink
  <2>2. /\ ControlTyped' /\ PokingTyped'
        /\ pc'[p] = "poke" /\ remaining'[p] = Len(batch[p]) /\ back'[p] = "idle"
        /\ t_count' = t_count
        /\ \A b \in Actors \ {p} :
             pc'[b] = pc[b] /\ remaining'[b] = remaining[b] /\ back'[b] = back[b]
    <3>1. Len(batch[p]) \in Nat
      BY <1>1
    <3> QED BY <1>0, <2>1, <3>1, PokeFacts
  <2>3. ListTyped'
    BY <1>0, <1>1, <1>2, <2>1 DEF PartsTyped, ListTyped
  <2>4. PartsTyped'
    BY <1>3, <1>4, <2>2, <2>3 DEF PartsTyped
  <2>5. OnlyOf(p)
    BY <1>2, <1>3, <2>2 DEF OnlyOf, contending
  <2>6. ControlOf(p)'
    <3>1. remaining'[p] > 0
      BY <1>1, <2>2
    <3>2. pc'[p] \notin PoolPCs /\ pc'[p] \notin {"poke_pending", "poke_request", "poke_reserve"}
      BY <2>2 DEF PoolPCs
    <3> QED BY <1>0, <2>2, <3>1, <3>2, Kinds DEF ControlOf, Kernel, Overcommit
  <2>7. Row(p)' = Row(p) /\ Mark1(p)' = Mark1(p) /\ Busy1(p)' = Busy1(p)
    BY <1>0, <2>2, OneDef, OneDefNext, Kinds
  <2> QED BY <1>0, <1>5, <1>6, <2>2, <2>4, <2>5, <2>6, <2>7, QuietCore
<1>7. CASE prev[p] # Nil
  <2>1. /\ do_next' = [do_next EXCEPT ![prev[p]] = batch[p][1]]
        /\ Goto(p, "idle") /\ UNCHANGED <<dq_items_head, poking>>
    BY <1>7 DEF PushLink
  <2>2. ControlTyped' /\ pc'[p] = "idle" /\ \A b \in Actors \ {p} : pc'[b] = pc[b]
    <3>1. "idle" \in PCs(p)
      BY DEF PCs
    <3> QED BY <1>0, <2>1, <3>1, GotoFacts
  <2>3. ListTyped'
    BY <1>0, <1>1, <1>2, <2>1 DEF PartsTyped, ListTyped
  <2>4. PartsTyped'
    BY <1>0, <1>3, <1>4, <2>1, <2>2, <2>3 DEF PartsTyped, PokingTyped, poking
  <2>5. OnlyOf(p)
    BY <1>2, <1>3, <2>1, <2>2 DEF OnlyOf, contending, poking
  <2>6. ControlOf(p)'
    <3>1. pc'[p] \notin PoolPCs \cup PokePCs
      BY <2>2 DEF PoolPCs, PokePCs
    <3>2. back'[p] = back[p]
      BY <2>1 DEF poking
    <3> QED BY <1>0, <1>1, <2>2, <3>1, <3>2, Kinds DEF ControlOf, Kernel, Overcommit
  <2>7. Row(p)' = Row(p) /\ Mark1(p)' = Mark1(p) /\ Busy1(p)' = Busy1(p)
    BY <1>0, <2>2, OneDef, OneDefNext, Kinds
  <2> QED BY <1>0, <1>5, <1>7, <2>2, <2>4, <2>5, <2>6, <2>7, QuietCore
<1> QED BY <1>6, <1>7

=============================================================================
