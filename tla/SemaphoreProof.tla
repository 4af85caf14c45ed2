--------------------------- MODULE SemaphoreProof ---------------------------
(***************************************************************************)
(* Proofs about Semaphore for any number of threads, any original value    *)
(* and any width of the counter.                                           *)
(***************************************************************************)
EXTENDS Semaphore, FiniteSetTheorems, SequenceTheorems, TLAPS

LOCAL INSTANCE SequencesExt

\* Threads whose decrement is still part of dsema_value.
Slow == {t \in Threads : InWaitSlow(t)}

\* Conservation of permits: every permit ever made is stored in the counter,
\* was handed to a wait that returned, or belongs to a thread in the slow path.
Conservation ==
  life = "live" =>
    dsema_value + acquired + Cardinality(Slow) = Orig + signalled

\* A thread past _dispatch_sema4_create finds a published port.
PortReady ==
  \A t \in Threads :
    pc[t] \in {"signal_post", "wait_enter", "wait_blocked", "wait_woken",
               "undo_read", "undo_cas"} => dsema_sema # NoPort

\* Only the published kernel semaphore is used, and its queue holds threads
\* blocked on it, each once.
QueueOK ==
  /\ \A p \in Threads \ {dsema_sema} : kqueue[p] = <<>> /\ kcount[p] = 0
  /\ \A p \in Threads : \A i \in DOMAIN kqueue[p] :
       pc[kqueue[p][i]] = "wait_blocked"
  /\ \A p \in Threads : \A i, j \in DOMAIN kqueue[p] :
       kqueue[p][i] = kqueue[p][j] => i = j

IInv ==
  /\ TypeOK
  /\ PortReady
  /\ QueueOK
  /\ Conservation
  /\ WakeupsMatchWaiters
  /\ PermitBound

----------------------------------------------------------------------------

\* The sets the counting invariants are about are finite.
LEMMA Finite ==
  ASSUME NEW S \in SUBSET Threads
  PROVE  IsFiniteSet(S) /\ Cardinality(S) \in Nat
BY SemaphoreAssumption, FS_Subset, FS_CardinalityType

\* One thread enters, or leaves, a set of threads.
LEMMA Enter ==
  ASSUME NEW S \in SUBSET Threads, NEW t \in Threads \ S
  PROVE  Cardinality(S \cup {t}) = Cardinality(S) + 1
BY Finite, FS_AddElement

LEMMA Leave ==
  ASSUME NEW S \in SUBSET Threads, NEW t \in S
  PROVE  Cardinality(S \ {t}) = Cardinality(S) - 1
BY Finite, FS_RemoveElement

\* RemoveAt deletes one position of a sequence.
LEMMA RemoveAtProperties ==
  ASSUME NEW S, NEW s \in Seq(S), NEW i \in DOMAIN s
  PROVE  /\ RemoveAt(s, i) \in Seq(S)
         /\ DOMAIN RemoveAt(s, i) = 1 .. Len(s) - 1
         /\ \A j \in 1 .. Len(s) - 1 :
              RemoveAt(s, i)[j] = IF j < i THEN s[j] ELSE s[j + 1]
<1> DEFINE a == SubSeq(s, 1, i - 1)
           b == SubSeq(s, i + 1, Len(s))
<1>1. Len(s) \in Nat /\ DOMAIN s = 1 .. Len(s) /\ i \in 1 .. Len(s)
  BY LenProperties
<1>2. /\ a \in Seq(S) /\ Len(a) = i - 1
      /\ \A j \in 1 .. i - 1 : a[j] = s[j]
  <2>1. \A j \in 1 .. i - 1 : s[j] \in S
    BY <1>1, ElementOfSeq
  <2> QED BY <1>1, <2>1, SubSeqProperties
<1>3. /\ b \in Seq(S) /\ Len(b) = Len(s) - i
      /\ \A j \in 1 .. Len(s) - i : b[j] = s[i + j]
  <2>1. \A j \in i + 1 .. Len(s) : s[j] \in S
    BY <1>1, ElementOfSeq
  <2>2. /\ b \in Seq(S)
        /\ Len(b) = IF i + 1 <= Len(s) THEN Len(s) - (i + 1) + 1 ELSE 0
        /\ \A j \in 1 .. Len(s) - (i + 1) + 1 : b[j] = s[i + 1 + j - 1]
    BY <1>1, <2>1, SubSeqProperties
  <2> QED BY <1>1, <2>2
<1>4. /\ a \o b \in Seq(S)
      /\ Len(a \o b) = Len(a) + Len(b)
      /\ \A j \in 1 .. Len(a) + Len(b) :
           (a \o b)[j] = IF j <= Len(a) THEN a[j] ELSE b[j - Len(a)]
  BY <1>2, <1>3, ConcatProperties
<1>5. DOMAIN (a \o b) = 1 .. Len(s) - 1
  BY <1>1, <1>2, <1>3, <1>4, LenProperties
<1>6. ASSUME NEW j \in 1 .. Len(s) - 1
      PROVE  (a \o b)[j] = IF j < i THEN s[j] ELSE s[j + 1]
  <2> HIDE DEF a, b
  <2>1. CASE j < i
    BY <1>1, <1>2, <1>3, <1>4, <2>1
  <2>2. CASE ~(j < i)
    <3>1. j - (i - 1) \in 1 .. Len(s) - i /\ i + (j - (i - 1)) = j + 1
      BY <1>1, <2>2
    <3>2. (a \o b)[j] = b[j - (i - 1)]
      BY <1>1, <1>2, <1>3, <1>4, <2>2
    <3>3. b[j - (i - 1)] = s[i + (j - (i - 1))]
      BY <1>3, <3>1
    <3> QED BY <2>2, <3>1, <3>2, <3>3
  <2> QED BY <2>1, <2>2
<1> QED BY <1>4, <1>5, <1>6 DEF RemoveAt

----------------------------------------------------------------------------
(* The invariant is inductive. *)

LEMMA InitInv == Init => IInv
<1> SUFFICES ASSUME Init PROVE IInv
  OBVIOUS
<1> USE SemaphoreAssumption
<1>1. TypeOK /\ PortReady /\ QueueOK /\ PermitBound
  <2>1. TypeOK
    BY EmptySeq DEF Init, TypeOK, LongMin, PCs, Timeouts
  <2>2. QueueOK
    BY DEF Init, QueueOK
  <2> QED BY <2>1, <2>2 DEF Init, PortReady, PermitBound
<1>2. Slow = {} /\ Unserved = {} /\ Posting = {}
  BY DEF Init, Slow, InWaitSlow, Unserved, Posting
<1>3. Cardinality(Slow) = 0 /\ Cardinality(Unserved) = 0
      /\ Cardinality(Posting) = 0
  BY <1>2, FS_EmptySet
<1>4. Conservation /\ WakeupsMatchWaiters
  BY <1>3 DEF Init, Conservation, WakeupsMatchWaiters, Shortage, Stored
<1> QED BY <1>1, <1>4 DEF IInv

\* What every step uses of the invariant: the sets are finite, the counter is
\* never as low as LONG_MIN.
LEMMA Facts ==
  ASSUME IInv, life = "live"
  PROVE  /\ Slow \in SUBSET Threads
         /\ Unserved \in SUBSET Threads
         /\ Posting \in SUBSET Threads
         /\ Cardinality(Slow) \in Nat
         /\ Cardinality(Unserved) \in Nat
         /\ Cardinality(Posting) \in Nat
         /\ Stored \in Nat
         /\ dsema_value \in Int /\ dsema_value >= -LongMax
         /\ Cardinality(Unserved) = Shortage + Stored + Cardinality(Posting)
         /\ dsema_value + acquired + Cardinality(Slow) = Orig + signalled
         /\ Cardinality(Slow) >= Cardinality(Unserved)
<1>1. /\ Slow \in SUBSET Threads /\ Unserved \in SUBSET Slow
      /\ Posting \in SUBSET Threads /\ Unserved \in SUBSET Threads
  BY DEF Slow, Unserved, Posting, InWaitSlow
<1>2. /\ Cardinality(Slow) \in Nat /\ Cardinality(Unserved) \in Nat
      /\ Cardinality(Posting) \in Nat
      /\ Cardinality(Unserved) <= Cardinality(Threads)
      /\ Cardinality(Unserved) <= Cardinality(Slow)
      /\ Cardinality(Threads) \in Nat
  BY <1>1, Finite, SemaphoreAssumption, FS_Subset, FS_CardinalityType
<1>3. /\ dsema_value \in Int /\ Stored \in Nat
      /\ acquired \in Nat /\ signalled \in Nat
  BY SemaphoreAssumption DEF IInv, TypeOK, Stored, LongMin
<1>4. /\ Cardinality(Unserved) = Shortage + Stored + Cardinality(Posting)
      /\ dsema_value + acquired + Cardinality(Slow) = Orig + signalled
  BY DEF IInv, Conservation, WakeupsMatchWaiters
<1>5. dsema_value >= -LongMax
  BY <1>2, <1>3, <1>4, SemaphoreAssumption DEF Shortage
<1> QED BY <1>1, <1>2, <1>3, <1>4, <1>5

\* What the counting invariants say, as plain arithmetic: the waits that
\* returned 0 have had a permit each.
LEMMA PermitArithmetic ==
  ASSUME NEW value \in Int, NEW got \in Nat, NEW gave \in Nat,
         NEW slow \in Nat, NEW unserved \in Nat, NEW stored \in Nat,
         NEW posting \in Nat, unserved <= slow,
         value + got + slow = Orig + gave,
         unserved = (IF value < 0 THEN -value ELSE 0) + stored + posting
  PROVE  got <= Orig + gave
BY SemaphoreAssumption

\* The counting part of the invariant after a step that leaves the object live,
\* from what the step does to the sets.
LEMMA Counting ==
  ASSUME TypeOK', life' = "live",
         Slow' \in SUBSET Threads, Unserved' \in SUBSET Threads,
         Posting' \in SUBSET Threads,
         dsema_value' + acquired' + Cardinality(Slow') = Orig + signalled',
         Cardinality(Unserved') = Shortage' + Stored' + Cardinality(Posting')
  PROVE  Conservation' /\ WakeupsMatchWaiters' /\ PermitBound'
<1>1. Conservation' /\ WakeupsMatchWaiters'
  BY DEF Conservation, WakeupsMatchWaiters
<1>2. PermitBound'
  <2> DEFINE value == dsema_value'
             got == acquired'
             gave == signalled'
             slow == Cardinality(Slow')
             unserved == Cardinality(Unserved')
             posting == Cardinality(Posting')
             stored == Stored'
  <2>1. slow \in Nat /\ unserved \in Nat /\ posting \in Nat
    BY Finite
  <2>2. unserved <= slow
    <3>1. Unserved' \in SUBSET Slow'
      BY DEF Unserved, Slow, InWaitSlow
    <3> QED BY <3>1, Finite, FS_Subset
  <2>3. value \in Int /\ got \in Nat /\ gave \in Nat /\ stored \in Nat
    BY SemaphoreAssumption DEF TypeOK, Stored, LongMin
  <2>4. /\ value + got + slow = Orig + gave
        /\ unserved = (IF value < 0 THEN -value ELSE 0) + stored + posting
    BY DEF Shortage
  <2>5. got <= Orig + gave
    <3> HIDE DEF value, got, gave, slow, unserved, posting, stored
    <3> QED BY <2>1, <2>2, <2>3, <2>4, PermitArithmetic
  <2> QED BY <2>5 DEF PermitBound
<1> QED BY <1>1, <1>2

\* A step that moves no permit leaves the counting invariants alone.
LEMMA CountingUnchanged ==
  ASSUME IInv, life = "live", TypeOK', life' = "live",
         UNCHANGED <<dsema_value, acquired, signalled>>, Stored' = Stored,
         Slow' = Slow, Unserved' = Unserved, Posting' = Posting
  PROVE  Conservation' /\ WakeupsMatchWaiters' /\ PermitBound'
<1>1. Shortage' = Shortage
  BY DEF Shortage
<1>2. /\ dsema_value' + acquired' + Cardinality(Slow') = Orig + signalled'
      /\ Cardinality(Unserved') = Shortage' + Stored' + Cardinality(Posting')
  BY <1>1, Facts
<1>3. /\ Slow' \in SUBSET Threads /\ Unserved' \in SUBSET Threads
      /\ Posting' \in SUBSET Threads
  BY Facts
<1> QED BY <1>2, <1>3, Counting

\* The queues stay sound when no thread in them stops waiting.
LEMMA QueueKept ==
  ASSUME IInv, UNCHANGED <<kqueue, kcount, dsema_sema>>,
         \A u \in Threads :
           pc[u] = "wait_blocked" => pc'[u] = "wait_blocked"
  PROVE  QueueOK'
<1>1. \A p \in Threads : \A i \in DOMAIN kqueue[p] : kqueue[p][i] \in Threads
  BY LenProperties, ElementOfSeq DEF IInv, TypeOK
<1> QED BY <1>1 DEF IInv, QueueOK

\* QueueOK after a step, from what it says of the published semaphore.
LEMMA QueueParts ==
  ASSUME dsema_sema' \in Threads,
         \A q \in Threads \ {dsema_sema'} : kqueue'[q] = <<>> /\ kcount'[q] = 0,
         \A i \in DOMAIN kqueue'[dsema_sema'] :
           pc'[kqueue'[dsema_sema'][i]] = "wait_blocked",
         \A i, j \in DOMAIN kqueue'[dsema_sema'] :
           kqueue'[dsema_sema'][i] = kqueue'[dsema_sema'][j] => i = j
  PROVE  QueueOK'
<1>1. \A q \in Threads \ {dsema_sema'} : \A i \in DOMAIN kqueue'[q] : FALSE
  <2>1. DOMAIN <<>> = {}
    BY EmptySeq
  <2> QED BY <2>1
<1> QED BY <1>1 DEF QueueOK

LEMMA SignalStep ==
  ASSUME IInv, NEW t \in Threads, Signal(t)
  PROVE  IInv'
<1> USE SemaphoreAssumption
<1>1. life = "live" /\ pc[t] = "idle" /\ TypeOK
  BY DEF Signal, Call, IInv
<1>2. dsema_value \in LongMin .. LongMax /\ LongMin \in Int
      /\ Inc(dsema_value) \in LongMin .. LongMax
  BY <1>1 DEF TypeOK, Inc, LongMin
<1>3. /\ pc' \in [Threads -> PCs]
      /\ pc' = pc \/ pc' = [pc EXCEPT ![t] = "signal_create"]
  BY <1>1 DEF Signal, TypeOK, PCs
<1>4. TypeOK'
  BY <1>1, <1>2, <1>3 DEF Signal, Call, TypeOK
<1>5. PortReady' /\ QueueOK'
  <2>1. \A u \in Threads :
          pc'[u] = pc[u] \/ (u = t /\ pc'[u] = "signal_create")
    BY <1>1, <1>3 DEF TypeOK
  <2>2. PortReady'
    BY <2>1 DEF IInv, PortReady, Signal
  <2>3. QueueOK'
    BY <1>1, <2>1, QueueKept DEF Signal
  <2> QED BY <2>2, <2>3
<1>6. Slow' = Slow /\ Unserved' = Unserved
  BY <1>1, <1>3 DEF TypeOK, Slow, Unserved, InWaitSlow
<1>7. Stored' = Stored
  BY DEF Stored, Signal
<1>8. CASE life' # "live"
  <2>1. acquired' = acquired /\ signalled' = signalled + 1
    BY DEF Signal
  <2>2. PermitBound'
    BY <1>1, <2>1 DEF IInv, PermitBound, TypeOK
  <2> QED BY <1>4, <1>5, <1>8, <2>2 DEF IInv, Conservation, WakeupsMatchWaiters
<1>9. CASE life' = "live"
  <2>1. dsema_value' = dsema_value + 1 /\ acquired' = acquired
        /\ signalled' = signalled + 1
    <3>1. dsema_value' # LongMin
      BY <1>1, <1>2, <1>9 DEF Signal, LongMin
    <3> QED BY <1>2, <3>1 DEF Signal, Inc
  <2>2. \/ dsema_value' > 0 /\ Posting' = Posting
        \/ dsema_value' <= 0 /\ Posting' = Posting \cup {t} /\ t \notin Posting
    <3>1. CASE dsema_value' > 0 /\ pc' = pc
      BY <3>1 DEF Posting
    <3>2. CASE dsema_value' <= 0 /\ pc' = [pc EXCEPT ![t] = "signal_create"]
      BY <1>1, <3>2 DEF Posting, TypeOK
    <3> QED BY <1>1, <1>2, <1>9, <3>1, <3>2 DEF Signal, LongMin
  <2>3. Posting' \in SUBSET Threads
    BY DEF Posting
  <2>4. dsema_value + 1 > 0 => Shortage' = Shortage
    BY <2>1, Facts, <1>1 DEF Shortage
  <2>5. dsema_value + 1 <= 0 => Shortage' = Shortage - 1
    BY <2>1, Facts, <1>1 DEF Shortage
  <2>6. /\ dsema_value' + acquired' + Cardinality(Slow') = Orig + signalled'
        /\ Shortage \in Nat
    BY <1>1, <1>6, <2>1, Facts DEF TypeOK, Shortage
  <2>7. Cardinality(Unserved') = Shortage' + Stored' + Cardinality(Posting')
    <3>1. CASE dsema_value + 1 > 0 /\ Posting' = Posting
      BY <1>1, <1>6, <1>7, <2>4, <3>1, Facts
    <3>2. CASE dsema_value + 1 <= 0 /\ Posting' = Posting \cup {t} /\ t \notin Posting
      <4>1. Cardinality(Posting') = Cardinality(Posting) + 1
        BY <1>1, <3>2, Facts, Enter
      <4> QED BY <1>1, <1>6, <1>7, <2>5, <2>6, <3>2, <4>1, Facts
    <3> QED BY <2>1, <2>2, <3>1, <3>2
  <2> QED BY <1>1, <1>4, <1>5, <1>6, <1>9, <2>3, <2>6, <2>7, Facts, Counting DEF IInv
<1> QED BY <1>8, <1>9

LEMMA WaitStep ==
  ASSUME IInv, NEW t \in Threads, NEW to \in Timeouts, Wait(t, to)
  PROVE  IInv'
<1> USE SemaphoreAssumption
<1>1. /\ life = "live" /\ life' = "live" /\ pc[t] = "idle" /\ TypeOK
      /\ pc \in [Threads -> PCs]
  BY DEF Wait, Call, IInv, TypeOK
<1>2. dsema_value' = dsema_value - 1 /\ dsema_value - 1 \in LongMin .. LongMax
  BY <1>1, Facts DEF Wait, Dec, LongMin, TypeOK
<1>3. /\ pc' \in [Threads -> PCs]
      /\ \/ dsema_value - 1 >= 0 /\ acquired' = acquired + 1 /\ pc' = pc
         \/ /\ dsema_value - 1 < 0 /\ acquired' = acquired
            /\ pc' = [pc EXCEPT ![t] = "wait_create"]
  BY <1>1, <1>2 DEF Wait, PCs
<1>4. TypeOK'
  BY <1>1, <1>2, <1>3 DEF Wait, Call, TypeOK
<1>5. \A u \in Threads : pc'[u] = pc[u] \/ (u = t /\ pc'[u] = "wait_create")
  BY <1>1, <1>3
<1>6. PortReady'
  BY <1>5 DEF IInv, PortReady, Wait
<1>7. QueueOK'
  BY <1>1, <1>5, QueueKept DEF Wait
<1>8. Posting' = Posting /\ Stored' = Stored /\ signalled' = signalled
  BY <1>1, <1>3 DEF Posting, Stored, Wait
<1>9. CASE dsema_value - 1 >= 0 /\ acquired' = acquired + 1 /\ pc' = pc
  <2>1. Slow' = Slow /\ Unserved' = Unserved
    BY <1>9 DEF Slow, Unserved, InWaitSlow
  <2>2. Shortage' = Shortage
    BY <1>1, <1>2, <1>9, Facts DEF Shortage
  <2>3. dsema_value' + acquired' + Cardinality(Slow') = Orig + signalled'
    BY <1>1, <1>2, <1>8, <1>9, <2>1, Facts DEF TypeOK
  <2> QED BY <1>1, <1>4, <1>6, <1>7, <1>8, <2>1, <2>2, <2>3, Facts, Counting
          DEF IInv
<1>10. CASE /\ dsema_value - 1 < 0 /\ acquired' = acquired
            /\ pc' = [pc EXCEPT ![t] = "wait_create"]
  <2>1. /\ Slow' = Slow \cup {t} /\ t \notin Slow
        /\ Unserved' = Unserved \cup {t} /\ t \notin Unserved
    BY <1>1, <1>10 DEF Slow, Unserved, InWaitSlow
  <2>2. /\ Cardinality(Slow') = Cardinality(Slow) + 1
        /\ Cardinality(Unserved') = Cardinality(Unserved) + 1
    BY <1>1, <2>1, Facts, Enter
  <2>3. Shortage' = Shortage + 1 /\ Shortage \in Nat
    BY <1>1, <1>2, <1>10, Facts DEF Shortage
  <2>4. dsema_value' + acquired' + Cardinality(Slow') = Orig + signalled'
    BY <1>1, <1>2, <1>8, <1>10, <2>2, Facts DEF TypeOK
  <2>5. Cardinality(Unserved') = Shortage' + Stored' + Cardinality(Posting')
    BY <1>1, <1>8, <2>2, <2>3, Facts
  <2>6. Slow' \in SUBSET Threads /\ Unserved' \in SUBSET Threads
    BY <1>1, <2>1, Facts
  <2> QED BY <1>1, <1>4, <1>6, <1>7, <1>8, <2>4, <2>5, <2>6, Facts, Counting
          DEF IInv
<1> QED BY <1>3, <1>9, <1>10

\* Creating and publishing the kernel semaphore, in either call.
LEMMA CreateStep ==
  ASSUME IInv, NEW t \in Threads, life = "live",
         NEW from, NEW to, pc[t] = from, pc' = [pc EXCEPT ![t] = to],
         \/ /\ from \in {"signal_create", "signal_cas"}
            /\ to \in {"signal_cas", "signal_post"}
         \/ /\ from \in {"wait_create", "wait_cas"}
            /\ to \in {"wait_cas", "wait_enter", "undo_read"},
         dsema_sema' \in Threads \cup {NoPort},
         dsema_sema # NoPort => dsema_sema' = dsema_sema,
         to \notin {"signal_cas", "wait_cas"} => dsema_sema' # NoPort,
         UNCHANGED <<dsema_value, kcount, kqueue, timeout, orig, calls,
                     aborts, signalled, acquired, life>>
  PROVE  IInv'
<1> USE SemaphoreAssumption
<1>1. TypeOK
  BY DEF IInv
<1>2. TypeOK'
  BY <1>1 DEF TypeOK, PCs
<1>3. PortReady'
  BY <1>1 DEF IInv, PortReady, TypeOK
<1>4. QueueOK'
  <2>1. CASE dsema_sema' = dsema_sema
    BY <1>1, <2>1, QueueKept DEF TypeOK
  <2>2. CASE dsema_sema = NoPort
    <3>1. \A p \in Threads : kqueue[p] = <<>> /\ kcount[p] = 0
      BY <2>2 DEF IInv, QueueOK
    <3> QED BY <3>1 DEF QueueOK
  <2> QED BY <2>1, <2>2
<1>5. Slow' = Slow /\ Unserved' = Unserved /\ Posting' = Posting
  BY <1>1 DEF TypeOK, Slow, Unserved, Posting, InWaitSlow
<1>6. Stored' = Stored
  BY <1>1 DEF IInv, QueueOK, Stored, TypeOK
<1> QED BY <1>1, <1>2, <1>3, <1>4, <1>5, <1>6, CountingUnchanged DEF IInv

\* Steps inside the slow path of wait that leave the counters alone.
LEMMA QueueStep ==
  ASSUME IInv, NEW t \in Threads, life = "live",
         NEW from, NEW to, pc[t] = from, pc' = [pc EXCEPT ![t] = to],
         from \in {"wait_enter", "wait_blocked", "undo_read", "undo_cas"},
         to \in {"wait_enter", "wait_blocked", "undo_read", "undo_cas"},
         TypeOK', QueueOK',
         UNCHANGED <<dsema_value, dsema_sema, kcount, signalled, acquired, life>>
  PROVE  IInv'
<1>1. TypeOK
  BY DEF IInv
<1>2. PortReady'
  BY <1>1 DEF IInv, PortReady, TypeOK
<1>3. Slow' = Slow /\ Unserved' = Unserved /\ Posting' = Posting
  BY <1>1 DEF TypeOK, Slow, Unserved, Posting, InWaitSlow
<1>4. Stored' = Stored
  BY DEF Stored
<1> QED BY <1>1, <1>2, <1>3, <1>4, CountingUnchanged DEF IInv

LEMMA SignalSlowStep ==
  ASSUME IInv, NEW t \in Threads, SignalSlow(t)
  PROVE  IInv'
<1> USE SemaphoreAssumption
<1> DEFINE p == dsema_sema
           h == Head(kqueue[p])
<1>1. /\ life = "live" /\ life' = "live" /\ pc[t] = "signal_post"
      /\ dsema_sema' = dsema_sema /\ dsema_sema \in Threads /\ TypeOK
      /\ pc \in [Threads -> PCs] /\ kqueue \in [Threads -> Seq(Threads)]
      /\ kcount \in [Threads -> Nat]
      /\ UNCHANGED <<dsema_value, acquired, signalled>>
  BY DEF SignalSlow, IInv, TypeOK, PortReady
<1>2. Shortage' = Shortage /\ Shortage \in Nat
  BY <1>1, Facts DEF Shortage
<1>3. CASE kqueue[p] # <<>>
  <2>1. /\ pc' = [pc EXCEPT ![t] = "idle", ![h] = "wait_woken"]
        /\ kqueue' = [kqueue EXCEPT ![p] = Tail(@)]
        /\ kcount' = kcount
    BY <1>3 DEF SignalSlow
  <2>2. /\ h \in Threads /\ Tail(kqueue[p]) \in Seq(Threads)
        /\ Len(Tail(kqueue[p])) = Len(kqueue[p]) - 1
        /\ \A i \in 1 .. Len(Tail(kqueue[p])) :
             Tail(kqueue[p])[i] = kqueue[p][i + 1]
    BY <1>1, <1>3, HeadTailProperties
  <2>3. /\ DOMAIN kqueue[p] = 1 .. Len(kqueue[p]) /\ Len(kqueue[p]) \in Nat \ {0}
        /\ h = kqueue[p][1] /\ 1 \in DOMAIN kqueue[p]
        /\ DOMAIN Tail(kqueue[p]) = 1 .. Len(kqueue[p]) - 1
    BY <1>1, <1>3, <2>2, LenProperties, EmptySeq
  <2>4. pc[h] = "wait_blocked" /\ h # t
    BY <1>1, <2>3 DEF IInv, QueueOK
  <2>5. TypeOK'
    BY <1>1, <2>1, <2>2 DEF SignalSlow, TypeOK, PCs
  <2>6. PortReady'
    BY <1>1 DEF PortReady
  <2>7. QueueOK'
    <3>1. \A q \in Threads \ {p} : kqueue'[q] = <<>> /\ kcount'[q] = 0
      BY <1>1, <2>1 DEF IInv, QueueOK
    <3>2. kqueue'[p] = Tail(kqueue[p])
      BY <1>1, <2>1
    <3>3. ASSUME NEW i \in DOMAIN kqueue'[p]
          PROVE  /\ i + 1 \in DOMAIN kqueue[p]
                 /\ kqueue'[p][i] = kqueue[p][i + 1]
      BY <2>2, <2>3, <3>2
    <3>4. ASSUME NEW i \in DOMAIN kqueue'[p]
          PROVE  pc'[kqueue'[p][i]] = "wait_blocked"
      <4> DEFINE u == kqueue[p][i + 1]
      <4>1. i + 1 # 1 /\ u \in Threads
        BY <1>1, <2>2, <2>3, <3>2, <3>3, ElementOfSeq
      <4>2. pc[u] = "wait_blocked" /\ u # h
        BY <1>1, <2>3, <3>3, <4>1 DEF IInv, QueueOK
      <4> QED BY <1>1, <2>1, <3>3, <4>1, <4>2
    <3>5. ASSUME NEW i \in DOMAIN kqueue'[p], NEW j \in DOMAIN kqueue'[p],
                 kqueue'[p][i] = kqueue'[p][j]
          PROVE  i = j
      <4>1. i + 1 \in DOMAIN kqueue[p] /\ j + 1 \in DOMAIN kqueue[p]
            /\ kqueue[p][i + 1] = kqueue[p][j + 1]
        BY <3>3, <3>5
      <4>2. i + 1 = j + 1
        BY <1>1, <4>1 DEF IInv, QueueOK
      <4>3. i \in Int /\ j \in Int
        BY <2>3, <3>2
      <4> QED BY <4>2, <4>3
    <3> QED BY <1>1, <3>1, <3>4, <3>5, QueueParts
  <2>8. /\ Slow' = Slow
        /\ Unserved' = Unserved \ {h} /\ h \in Unserved
        /\ Posting' = Posting \ {t} /\ t \in Posting
    BY <1>1, <2>1, <2>2, <2>4 DEF Slow, Unserved, Posting, InWaitSlow
  <2>9. /\ Cardinality(Unserved') = Cardinality(Unserved) - 1
        /\ Cardinality(Posting') = Cardinality(Posting) - 1
    BY <1>1, <2>8, Facts, Leave
  <2>10. Stored' = Stored
    BY <1>1, <2>1 DEF Stored
  <2>11. /\ dsema_value' + acquired' + Cardinality(Slow') = Orig + signalled'
         /\ Slow' \in SUBSET Threads /\ Unserved' \in SUBSET Threads
         /\ Posting' \in SUBSET Threads
    BY <1>1, <2>8, Facts
  <2>12. Cardinality(Unserved') = Shortage' + Stored' + Cardinality(Posting')
    BY <1>1, <1>2, <2>9, <2>10, Facts
  <2> QED BY <1>1, <2>5, <2>6, <2>7, <2>11, <2>12, Counting DEF IInv
<1>4. CASE kqueue[p] = <<>>
  <2>1. /\ pc' = [pc EXCEPT ![t] = "idle"]
        /\ kqueue' = kqueue
        /\ kcount' = [kcount EXCEPT ![p] = @ + 1]
    BY <1>4 DEF SignalSlow
  <2>2. TypeOK'
    BY <1>1, <2>1 DEF SignalSlow, TypeOK, PCs
  <2>3. PortReady'
    BY <1>1 DEF PortReady
  <2>4. QueueOK'
    <3>1. \A q \in Threads \ {p} : kqueue'[q] = <<>> /\ kcount'[q] = 0
      BY <1>1, <2>1 DEF IInv, QueueOK
    <3>2. \A q \in Threads : \A i \in DOMAIN kqueue'[q] : FALSE
      BY <1>1, <1>4, <2>1, <3>1, EmptySeq
    <3> QED BY <1>1, <3>1, <3>2 DEF QueueOK
  <2>5. Slow' = Slow /\ Unserved' = Unserved
        /\ Posting' = Posting \ {t} /\ t \in Posting
    BY <1>1, <2>1 DEF Slow, Unserved, Posting, InWaitSlow
  <2>6. Cardinality(Posting') = Cardinality(Posting) - 1
    BY <1>1, <2>5, Facts, Leave
  <2>7. Stored' = Stored + 1
    BY <1>1, <2>1 DEF Stored
  <2>8. /\ dsema_value' + acquired' + Cardinality(Slow') = Orig + signalled'
        /\ Cardinality(Unserved') = Shortage' + Stored' + Cardinality(Posting')
        /\ Slow' \in SUBSET Threads /\ Unserved' \in SUBSET Threads
        /\ Posting' \in SUBSET Threads
    BY <1>1, <1>2, <2>5, <2>6, <2>7, Facts
  <2> QED BY <1>1, <2>2, <2>3, <2>4, <2>8, Counting DEF IInv
<1> QED BY <1>3, <1>4

LEMMA KernelWaitStep ==
  ASSUME IInv, NEW t \in Threads, KernelWait(t)
  PROVE  IInv'
<1> USE SemaphoreAssumption
<1> DEFINE p == dsema_sema
<1>1. /\ life = "live" /\ life' = "live" /\ pc[t] = "wait_enter"
      /\ dsema_sema' = dsema_sema /\ dsema_sema \in Threads /\ TypeOK
      /\ pc \in [Threads -> PCs] /\ kqueue \in [Threads -> Seq(Threads)]
      /\ kcount \in [Threads -> Nat]
      /\ UNCHANGED <<dsema_value, acquired, signalled>>
  BY DEF KernelWait, IInv, TypeOK, PortReady
<1>2. CASE /\ kcount[p] > 0
           /\ kcount' = [kcount EXCEPT ![p] = @ - 1]
           /\ pc' = [pc EXCEPT ![t] = "wait_woken"]
           /\ UNCHANGED kqueue
  <2>1. TypeOK'
    BY <1>1, <1>2 DEF KernelWait, TypeOK, PCs
  <2>2. PortReady'
    BY <1>1 DEF PortReady
  <2>3. QueueOK'
    <3>1. \A q \in Threads : \A i \in DOMAIN kqueue[q] :
            kqueue[q][i] \in Threads \ {t}
      <4>1. \A q \in Threads : \A i \in DOMAIN kqueue[q] : kqueue[q][i] \in Threads
        BY <1>1, LenProperties, ElementOfSeq
      <4> QED BY <1>1, <4>1 DEF IInv, QueueOK
    <3> QED BY <1>1, <1>2, <3>1 DEF IInv, QueueOK
  <2>4. /\ Slow' = Slow /\ Posting' = Posting
        /\ Unserved' = Unserved \ {t} /\ t \in Unserved
    BY <1>1, <1>2 DEF Slow, Unserved, Posting, InWaitSlow
  <2>5. Cardinality(Unserved') = Cardinality(Unserved) - 1
    BY <1>1, <2>4, Facts, Leave
  <2>6. Stored' = Stored - 1 /\ Shortage' = Shortage /\ Shortage \in Nat
    BY <1>1, <1>2, Facts DEF Stored, Shortage
  <2>7. /\ dsema_value' + acquired' + Cardinality(Slow') = Orig + signalled'
        /\ Slow' \in SUBSET Threads /\ Unserved' \in SUBSET Threads
        /\ Posting' \in SUBSET Threads
    BY <1>1, <2>4, Facts
  <2>8. Cardinality(Unserved') = Shortage' + Stored' + Cardinality(Posting')
    BY <1>1, <2>4, <2>5, <2>6, Facts
  <2> QED BY <1>1, <2>1, <2>2, <2>3, <2>7, <2>8, Counting DEF IInv
<1>3. CASE /\ kqueue' = [kqueue EXCEPT ![p] = Append(@, t)]
           /\ pc' = [pc EXCEPT ![t] = "wait_blocked"]
           /\ UNCHANGED kcount
  <2> DEFINE n == Len(kqueue[p])
  <2>1. /\ Append(kqueue[p], t) \in Seq(Threads)
        /\ n \in Nat /\ DOMAIN kqueue[p] = 1 .. n
        /\ DOMAIN Append(kqueue[p], t) = 1 .. n + 1
        /\ \A i \in 1 .. n : Append(kqueue[p], t)[i] = kqueue[p][i]
        /\ Append(kqueue[p], t)[n + 1] = t
    BY <1>1, AppendProperties, LenProperties
  <2>2. TypeOK'
    BY <1>1, <1>3, <2>1 DEF KernelWait, TypeOK, PCs
  <2>3. QueueOK'
    <3>1. \A q \in Threads \ {p} : kqueue'[q] = <<>> /\ kcount'[q] = 0
      BY <1>1, <1>3 DEF IInv, QueueOK
    <3>2. kqueue'[p] = Append(kqueue[p], t)
      BY <1>1, <1>3
    <3>3. \A i \in 1 .. n : /\ kqueue[p][i] \in Threads
                            /\ pc[kqueue[p][i]] = "wait_blocked"
                            /\ kqueue[p][i] # t
      BY <1>1, <2>1, ElementOfSeq DEF IInv, QueueOK
    <3>4. \A i \in DOMAIN kqueue'[p] : pc'[kqueue'[p][i]] = "wait_blocked"
      <4> SUFFICES ASSUME NEW i \in 1 .. n + 1
                   PROVE  pc'[kqueue'[p][i]] = "wait_blocked"
        BY <2>1, <3>2
      <4>1. CASE i \in 1 .. n
        BY <1>1, <1>3, <2>1, <3>2, <3>3, <4>1
      <4>2. CASE i = n + 1
        BY <1>1, <1>3, <2>1, <3>2, <4>2
      <4> QED BY <2>1, <4>1, <4>2
    <3>5. \A i, j \in DOMAIN kqueue'[p] :
            kqueue'[p][i] = kqueue'[p][j] => i = j
      <4> SUFFICES ASSUME NEW i \in 1 .. n + 1, NEW j \in 1 .. n + 1,
                          kqueue'[p][i] = kqueue'[p][j]
                   PROVE  i = j
        BY <2>1, <3>2
      <4>1. CASE i \in 1 .. n /\ j \in 1 .. n
        <5>1. kqueue[p][i] = kqueue[p][j]
          BY <2>1, <3>2, <4>1
        <5> QED BY <1>1, <2>1, <4>1, <5>1 DEF IInv, QueueOK
      <4>2. CASE i = n + 1
        BY <2>1, <3>2, <3>3, <4>2
      <4>3. CASE j = n + 1
        BY <2>1, <3>2, <3>3, <4>3
      <4> QED BY <2>1, <4>1, <4>2, <4>3
    <3> QED BY <1>1, <3>1, <3>4, <3>5, QueueParts
  <2> QED BY <1>1, <1>3, <2>2, <2>3, QueueStep DEF KernelWait
<1> QED BY <1>2, <1>3 DEF KernelWait

\* A blocked thread leaves the kernel queue without a signal.
LEMMA LeaveQueueStep ==
  ASSUME IInv, NEW t \in Threads, life = "live", NEW to,
         to \in {"wait_enter", "undo_read"}, pc[t] = "wait_blocked",
         pc' = [pc EXCEPT ![t] = to], aborts' \in Nat, LeaveQueue(t),
         UNCHANGED <<dsema_value, dsema_sema, kcount, timeout, orig, calls,
                     signalled, acquired, life>>
  PROVE  IInv'
<1> USE SemaphoreAssumption
<1> DEFINE p == dsema_sema
           q == kqueue[p]
<1>1. /\ dsema_sema \in Threads /\ TypeOK /\ pc \in [Threads -> PCs]
      /\ kqueue \in [Threads -> Seq(Threads)]
  BY DEF IInv, TypeOK, PortReady
<1>2. PICK i \in DOMAIN q :
        q[i] = t /\ kqueue' = [kqueue EXCEPT ![p] = RemoveAt(@, i)]
  BY DEF LeaveQueue
<1>3. /\ RemoveAt(q, i) \in Seq(Threads)
      /\ DOMAIN RemoveAt(q, i) = 1 .. Len(q) - 1
      /\ \A j \in 1 .. Len(q) - 1 :
           RemoveAt(q, i)[j] = IF j < i THEN q[j] ELSE q[j + 1]
  BY <1>1, RemoveAtProperties
<1>4. Len(q) \in Nat /\ DOMAIN q = 1 .. Len(q)
  BY <1>1, LenProperties
<1>5. kqueue' \in [Threads -> Seq(Threads)]
  BY <1>1, <1>2, <1>3
<1>6. TypeOK'
  BY <1>1, <1>5 DEF TypeOK, PCs
<1>7. kqueue'[p] = RemoveAt(q, i)
  BY <1>1, <1>2
<1>8. ASSUME NEW j \in DOMAIN kqueue'[p]
      PROVE  \E k \in DOMAIN q : /\ k # i /\ kqueue'[p][j] = q[k]
                                 /\ k = IF j < i THEN j ELSE j + 1
  BY <1>3, <1>4, <1>7
<1>9. QueueOK'
  <2>1. \A r \in Threads \ {p} : kqueue'[r] = <<>> /\ kcount'[r] = 0
    BY <1>1, <1>2 DEF IInv, QueueOK
  <2>2. ASSUME NEW j \in DOMAIN kqueue'[p]
        PROVE  pc'[kqueue'[p][j]] = "wait_blocked"
    <3>1. PICK k \in DOMAIN q : k # i /\ kqueue'[p][j] = q[k]
      BY <1>8
    <3>2. q[k] \in Threads /\ pc[q[k]] = "wait_blocked" /\ q[k] # t
      BY <1>1, <1>2, <1>4, <3>1, ElementOfSeq DEF IInv, QueueOK
    <3> QED BY <1>1, <3>1, <3>2
  <2>3. ASSUME NEW j \in DOMAIN kqueue'[p], NEW l \in DOMAIN kqueue'[p],
               kqueue'[p][j] = kqueue'[p][l]
        PROVE  j = l
    <3>1. PICK k \in DOMAIN q : /\ kqueue'[p][j] = q[k]
                                /\ k = IF j < i THEN j ELSE j + 1
      BY <1>8
    <3>2. PICK m \in DOMAIN q : /\ kqueue'[p][l] = q[m]
                                /\ m = IF l < i THEN l ELSE l + 1
      BY <1>8
    <3>3. k = m
      BY <1>1, <2>3, <3>1, <3>2 DEF IInv, QueueOK
    <3>4. j \in 1 .. Len(q) - 1 /\ l \in 1 .. Len(q) - 1 /\ i \in Nat
      BY <1>3, <1>4, <1>7
    <3> QED BY <1>4, <3>1, <3>2, <3>3, <3>4
  <2> QED BY <1>1, <2>1, <2>2, <2>3, QueueParts
<1> QED BY <1>6, <1>9, QueueStep

LEMMA UndoCasStep ==
  ASSUME IInv, NEW t \in Threads, UndoCas(t)
  PROVE  IInv'
<1> USE SemaphoreAssumption
<1>1. /\ life = "live" /\ life' = "live" /\ pc[t] = "undo_cas" /\ TypeOK
      /\ pc \in [Threads -> PCs] /\ orig \in [Threads -> LongMin .. LongMax]
      /\ UNCHANGED <<dsema_sema, kcount, kqueue, signalled, acquired>>
  BY DEF UndoCas, IInv, TypeOK
<1>2. CASE /\ orig[t] < 0 /\ dsema_value = orig[t]
           /\ dsema_value' = orig[t] + 1
           /\ pc' = [pc EXCEPT ![t] = "idle"]
           /\ UNCHANGED <<orig, timeout>>
  <2>1. dsema_value' = dsema_value + 1 /\ dsema_value < 0
        /\ dsema_value + 1 \in LongMin .. LongMax
    BY <1>1, <1>2 DEF TypeOK, LongMin
  <2>2. TypeOK'
    BY <1>1, <1>2, <2>1 DEF UndoCas, TypeOK, PCs
  <2>3. PortReady'
    BY <1>1, <1>2 DEF IInv, PortReady
  <2>4. QueueOK'
    BY <1>1, <1>2, QueueKept
  <2>5. /\ Slow' = Slow \ {t} /\ t \in Slow
        /\ Unserved' = Unserved \ {t} /\ t \in Unserved
        /\ Posting' = Posting /\ Stored' = Stored
    BY <1>1, <1>2 DEF Slow, Unserved, Posting, InWaitSlow, Stored
  <2>6. /\ Cardinality(Slow') = Cardinality(Slow) - 1
        /\ Cardinality(Unserved') = Cardinality(Unserved) - 1
    BY <1>1, <2>5, Facts, Leave
  <2>7. Shortage' = Shortage - 1 /\ Shortage \in Nat
    BY <1>1, <2>1, Facts DEF Shortage
  <2>8. /\ Slow' \in SUBSET Threads /\ Unserved' \in SUBSET Threads
        /\ Posting' \in SUBSET Threads
    BY <1>1, <2>5, Facts
  <2>9. dsema_value' + acquired' + Cardinality(Slow') = Orig + signalled'
    <3>1. acquired \in Nat /\ signalled \in Nat
      BY <1>1 DEF TypeOK
    <3> QED BY <1>1, <2>1, <2>6, <3>1, Facts
  <2>10. Cardinality(Unserved') = Shortage' + Stored' + Cardinality(Posting')
    BY <1>1, <2>5, <2>6, <2>7, Facts
  <2> QED BY <1>1, <2>2, <2>3, <2>4, <2>8, <2>9, <2>10, Counting DEF IInv
<1>3. CASE /\ orig' = [orig EXCEPT ![t] = dsema_value]
           /\ UNCHANGED <<dsema_value, pc, timeout>>
  <2>1. TypeOK'
    BY <1>1, <1>3 DEF UndoCas, TypeOK
  <2>2. QueueOK'
    BY <1>1, <1>3, QueueKept
  <2>3. pc' = [pc EXCEPT ![t] = "undo_cas"]
    BY <1>1, <1>3
  <2> QED BY <1>1, <1>3, <2>1, <2>2, <2>3, QueueStep
<1>4. CASE /\ pc' = [pc EXCEPT ![t] = "wait_enter"]
           /\ timeout' = [timeout EXCEPT ![t] = "forever"]
           /\ UNCHANGED <<dsema_value, orig>>
  <2>1. TypeOK'
    BY <1>1, <1>4 DEF UndoCas, TypeOK, PCs, Timeouts
  <2>2. QueueOK'
    BY <1>1, <1>4, QueueKept
  <2> QED BY <1>1, <1>4, <2>1, <2>2, QueueStep
<1> QED BY <1>2, <1>3, <1>4 DEF UndoCas

LEMMA WaitReturnsStep ==
  ASSUME IInv, NEW t \in Threads, WaitReturns(t)
  PROVE  IInv'
<1> USE SemaphoreAssumption
<1>1. /\ life = "live" /\ life' = "live" /\ pc[t] = "wait_woken" /\ TypeOK
      /\ pc \in [Threads -> PCs] /\ pc' = [pc EXCEPT ![t] = "idle"]
      /\ acquired' = acquired + 1
      /\ UNCHANGED <<dsema_value, dsema_sema, kcount, kqueue, signalled>>
  BY DEF WaitReturns, Goto, IInv, TypeOK
<1>2. TypeOK'
  BY <1>1 DEF WaitReturns, TypeOK, PCs
<1>3. PortReady' /\ QueueOK'
  BY <1>1, QueueKept DEF IInv, PortReady
<1>4. /\ Slow' = Slow \ {t} /\ t \in Slow /\ Unserved' = Unserved
      /\ Posting' = Posting /\ Stored' = Stored
  BY <1>1 DEF Slow, Unserved, Posting, InWaitSlow, Stored
<1>5. Cardinality(Slow') = Cardinality(Slow) - 1
  BY <1>1, <1>4, Facts, Leave
<1>6. Shortage' = Shortage
  BY <1>1 DEF Shortage
<1>7. /\ Slow' \in SUBSET Threads /\ Unserved' \in SUBSET Threads
      /\ Posting' \in SUBSET Threads
  BY <1>1, <1>4, Facts
<1>8. dsema_value' + acquired' + Cardinality(Slow') = Orig + signalled'
  <2>1. acquired \in Nat /\ signalled \in Nat
    BY <1>1 DEF TypeOK
  <2> QED BY <1>1, <1>5, <2>1, Facts
<1>9. Cardinality(Unserved') = Shortage' + Stored' + Cardinality(Posting')
  BY <1>1, <1>4, <1>6, Facts
<1> QED BY <1>1, <1>2, <1>3, <1>7, <1>8, <1>9, Counting DEF IInv

LEMMA DisposeStep ==
  ASSUME IInv, Dispose
  PROVE  IInv'
<1>1. life' # "live"
  BY DEF Dispose
<1>2. TypeOK'
  BY DEF IInv, TypeOK, Dispose
<1>3. PortReady' /\ QueueOK' /\ PermitBound'
  BY QueueKept DEF IInv, PortReady, PermitBound, Dispose
<1> QED BY <1>1, <1>2, <1>3 DEF IInv, Conservation, WakeupsMatchWaiters

LEMMA ProgressStep ==
  ASSUME IInv, NEW t \in Threads, Progress(t)
  PROVE  IInv'
<1> USE SemaphoreAssumption
<1>1. TypeOK
  BY DEF IInv
<1>2. CASE CheckCreated(t, "signal_create", "signal_cas", "signal_post")
  BY <1>1, <1>2, CreateStep DEF CheckCreated, Goto, TypeOK
<1>3. CASE PublishPort(t, "signal_cas", "signal_post")
  BY <1>1, <1>3, CreateStep DEF PublishPort, Goto, TypeOK
<1>4. CASE CheckCreated(t, "wait_create", "wait_cas", AfterCreate(t))
  BY <1>1, <1>4, CreateStep DEF CheckCreated, Goto, AfterCreate, TypeOK
<1>5. CASE PublishPort(t, "wait_cas", AfterCreate(t))
  BY <1>1, <1>5, CreateStep DEF PublishPort, Goto, AfterCreate, TypeOK
<1>6. CASE UndoRead(t)
  <2>1. TypeOK'
    BY <1>1, <1>6 DEF UndoRead, Goto, TypeOK, PCs
  <2>2. QueueOK'
    BY <1>1, <1>6, QueueKept DEF UndoRead, Goto, TypeOK
  <2> QED BY <1>6, <2>1, <2>2, QueueStep DEF UndoRead, Goto
<1> QED BY <1>2, <1>3, <1>4, <1>5, <1>6, SignalSlowStep, KernelWaitStep,
           UndoCasStep, WaitReturnsStep DEF Progress

LEMMA NextInv == IInv /\ [Next]_vars => IInv'
<1> SUFFICES ASSUME IInv, [Next]_vars PROVE IInv'
  OBVIOUS
<1> USE SemaphoreAssumption
<1>1. ASSUME NEW t \in Threads, KernelAborted(t) PROVE IInv'
  <2>1. aborts' \in Nat
    BY <1>1 DEF KernelAborted, IInv, TypeOK
  <2> QED BY <1>1, <2>1, LeaveQueueStep DEF KernelAborted, Goto
<1>2. ASSUME NEW t \in Threads, KernelTimedOut(t) PROVE IInv'
  <2>1. aborts' \in Nat
    BY <1>2 DEF KernelTimedOut, IInv, TypeOK
  <2> QED BY <1>2, <2>1, LeaveQueueStep DEF KernelTimedOut, Goto
<1>3. ASSUME UNCHANGED vars PROVE IInv'
  BY <1>3 DEF vars, IInv, TypeOK, PortReady, QueueOK, Conservation,
     WakeupsMatchWaiters, PermitBound, Slow, InWaitSlow, Unserved, Posting,
     Stored, Shortage
<1> QED BY <1>1, <1>2, <1>3, SignalStep, WaitStep, ProgressStep, DisposeStep
        DEF Next

THEOREM Invariance == Spec => []IInv
BY InitInv, NextInv, PTL DEF Spec

\* The state of a semaphore keeps its type: no local of the slow path leaves
\* the range of a long, no thread leaves the control points of the code.
THEOREM TypeCorrect == Spec => []TypeOK
<1>1. IInv => TypeOK
  BY DEF IInv
<1> QED BY <1>1, Invariance, PTL

\* dispatch_semaphore_wait never returns 0 more often than the semaphore had
\* permits, for any number of threads, timeouts and interruptions.
THEOREM PermitsNeverExceeded == Spec => []PermitBound
<1>1. IInv => PermitBound
  BY DEF IInv
<1> QED BY <1>1, Invariance, PTL

\* No kernel wakeup is lost or invented: parked threads, the negative part of
\* dsema_value, stored signals and signals about to be posted always add up.
THEOREM WakeupsConserved == Spec => []WakeupsMatchWaiters
<1>1. IInv => WakeupsMatchWaiters
  BY DEF IInv
<1> QED BY <1>1, Invariance, PTL

\* The two client crashes are the caller's fault: signal crashes only when the
\* permits overflow LONG_MAX, dispose only when successful waits outnumber
\* signals; waits that timed out count for neither.
THEOREM CrashesAreUnbalanced == Spec => []CrashIsUnbalanced
<1>1. Init => CrashIsUnbalanced
  BY DEF Init, CrashIsUnbalanced
<1>2. IInv /\ CrashIsUnbalanced /\ [Next]_vars => CrashIsUnbalanced'
  <2> SUFFICES ASSUME IInv, CrashIsUnbalanced, [Next]_vars
               PROVE  CrashIsUnbalanced'
    OBVIOUS
  <2> USE SemaphoreAssumption
  <2>1. TypeOK
    BY DEF IInv
  <2>2. ASSUME NEW t \in Threads, Signal(t), life' # "live"
        PROVE  CrashIsUnbalanced'
    <3>1. /\ life = "live" /\ life' = "signal_crash"
          /\ acquired' = acquired /\ signalled' = signalled + 1
          /\ Inc(dsema_value) = LongMin
      BY <2>2 DEF Signal, Call
    <3>2. dsema_value = LongMax
      BY <2>1, <3>1, Facts DEF Inc, LongMin
    <3>3. Orig + signalled - acquired >= LongMax
      BY <2>1, <3>1, <3>2, Facts DEF TypeOK
    <3> QED BY <2>1, <3>1, <3>3 DEF CrashIsUnbalanced, TypeOK
  <2>3. ASSUME Dispose PROVE CrashIsUnbalanced'
    <3>1. life = "live" /\ Slow = {} /\ UNCHANGED <<acquired, signalled>>
      BY <2>3 DEF Dispose, Slow, InWaitSlow, Unserved
    <3>2. dsema_value + acquired = Orig + signalled
      BY <2>1, <3>1, Facts, FS_EmptySet DEF TypeOK
    <3>3. dsema_value < Orig <=> acquired > signalled
      BY <2>1, <3>2 DEF TypeOK, LongMin
    <3> QED BY <2>1, <2>3, <3>1, <3>3 DEF CrashIsUnbalanced, Dispose, TypeOK
  <2>4. CASE life' = "live"
    BY <2>4 DEF CrashIsUnbalanced
  <2>5. CASE UNCHANGED <<life, acquired, signalled>>
    BY <2>5 DEF CrashIsUnbalanced
  <2>6. CASE life = "live" /\ life' = life
    BY <2>6 DEF CrashIsUnbalanced
  <2>7. ASSUME NEW t \in Threads, ~Signal(t),
               \/ \E to \in Timeouts : Wait(t, to)
               \/ KernelAborted(t) \/ KernelTimedOut(t) \/ Progress(t)
        PROVE  life = "live" /\ life' = life
    BY <2>7 DEF Wait, Call, KernelAborted, KernelTimedOut, Progress, Goto,
       CheckCreated, PublishPort, SignalSlow, KernelWait, UndoRead, UndoCas,
       WaitReturns
  <2>8. CASE UNCHANGED vars
    BY <2>5, <2>8 DEF vars
  <2> QED BY <2>2, <2>3, <2>4, <2>6, <2>7, <2>8 DEF Next
<1> QED BY <1>1, <1>2, Invariance, PTL DEF Spec
=============================================================================
