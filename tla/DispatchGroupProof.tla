------------------------- MODULE DispatchGroupProof -------------------------
(***************************************************************************)
(* Proofs about DispatchGroup for any number of threads and of calls and   *)
(* any width of the counters.                                              *)
(***************************************************************************)
EXTENDS DispatchGroup, FiniteSetTheorems, SequenceTheorems, TLAPS

\* A thread inside group_wake, which may own references that it will release.
Waking == {"leave_clear", "wake", "fire", "wake_waiters", "wake_release"}

\* A thread that has captured the list.
Told == {"fire", "wake_waiters", "wake_release"}

\* The caller whose notification made the list non-empty, until HAS_NOTIFS is set.
Announcing == {"notify_retain", "notify_link_first", "notify_set"}

Calling == {"enter_retain", "notify_link"} \cup Announcing \cup WaitPCs

\* The value counts the enters, with the one that is retaining the group: there is at
\* most one of these.
EntersAreCounted ==
  /\ dg_state.value = inside +
       IF \E t \in Threads : pc[t] = "enter_retain" THEN 1 ELSE 0
  /\ \A t, u \in Threads :
       pc[t] = "enter_retain" /\ pc[u] = "enter_retain" => t = u

\* Who has the duty to capture the list.
OnDuty(t) ==
  \/ pc[t] \in Announcing
  \/ pc[t] = "wake" /\ old[t].notifs

\* A list that is not empty has one keeper: HAS_NOTIFS in the word, or the thread that
\* will set it, or the one that took it away; an empty list has none.
ListHasKeeper ==
  /\ \A t, u \in Threads : OnDuty(t) /\ OnDuty(u) => t = u
  /\ dg_state.notifs => \A t \in Threads : ~OnDuty(t)
  /\ dg_notify # <<>> <=> dg_state.notifs \/ \E t \in Threads : OnDuty(t)

Pushed(t) == [by |-> t, n |-> calls[t]]

\* Notifications wait once each; the head is not linked before its pusher does it.
ListIsOrderly ==
  /\ \A d \in linked \cup Pending : d.n <= calls[d.by]
  /\ \A t \in Threads :
       pc[t] \in {"notify_retain", "notify_link_first"} =>
         dg_notify # <<>> /\ Head(dg_notify) = Pushed(t) /\ Pushed(t) \notin linked
  /\ IsInjective(dg_notify)
  /\ \A t \in Threads :
       /\ IsInjective(snapshot[t])
       /\ Range(snapshot[t]) \cap Range(dg_notify) = {}
       /\ \A u \in Threads \ {t} : Range(snapshot[t]) \cap Range(snapshot[u]) = {}

\* What has seen the group empty.
EmptyIsSeen ==
  /\ dg_state.value = 0 => Waiting \cup Pending \subseteq since
  /\ \A t \in Threads : Range(snapshot[t]) \subseteq since \cup racing
  /\ (\E t \in Threads : pc[t] \in {"leave_clear", "wake"}) =>
       Range(dg_notify) \subseteq since \cup racing
  /\ \A t \in Waiting :
       t \notin since => dg_state.gen = old[t].gen /\ dg_state.waiters

\* The bits of an empty group are about to be cleared.
BitsAreCleared ==
  dg_state.value = 0 /\ (dg_state.waiters \/ dg_state.notifs) =>
    \E t \in Threads : pc[t] = "leave_clear" /\ Cleared(old[t]) # old[t]

\* Only a thread that has left last or owns a reference is inside a call.
CallerOwns(t) ==
  /\ pc[t] \in Calling => owns[t]
  /\ pc[t] \in Waking /\ ~drops[t] => owns[t]
  /\ drops[t] => pc[t] \in Waking
  /\ snapshot[t] # <<>> <=> pc[t] = "fire"
  /\ pc[t] \in {"notify_retain", "notify_link_first", "notify_link"} => calls[t] > 0

CallersOwn == \A t \in Threads : CallerOwns(t)

LiveInv ==
  /\ EntersAreCounted
  /\ ListHasKeeper
  /\ ListIsOrderly
  /\ EmptyIsSeen
  /\ BitsAreCleared
  /\ CallersOwn
  /\ RefsAreAccounted

IInv ==
  /\ TypeOK
  /\ WaitsForEmpty /\ NotifiedUnlessRacing
  /\ life = "live" => LiveInv
  /\ life # "live" => refs > 0 /\ (life = "leave_crash" => inside = 0)

\* A generation that a waiter remembers does not come again while it waits.
GenerationsDiffer ==
  \A t \in Waiting : t \in since => dg_state.gen # old[t].gen

\* Whoever is blocked although the group was empty will be woken.
WakersCome ==
  life = "live" =>
    \A t \in Threads :
      pc[t] = "wait_blocked" /\ t \in since =>
        \/ dg_state.waiters
        \/ \E u \in Threads :
             pc[u] \in {"wake", "fire", "wake_waiters"} /\ old[u].waiters
----------------------------------------------------------------------------
(* Sequences and words *)

LEMMA AppendFacts ==
  ASSUME NEW S, NEW s \in Seq(S), NEW e \in S
  PROVE  /\ Append(s, e) \in Seq(S) /\ Append(s, e) # <<>>
         /\ Range(Append(s, e)) = Range(s) \cup {e}
         /\ IsInjective(s) /\ e \notin Range(s) => IsInjective(Append(s, e))
         /\ Head(Append(s, e)) = IF s = <<>> THEN e ELSE Head(s)
<1>1. /\ Len(s) \in Nat /\ DOMAIN s = 1 .. Len(s)
      /\ DOMAIN Append(s, e) = 1 .. Len(s) + 1
      /\ \A i \in 1 .. Len(s) : Append(s, e)[i] = s[i]
      /\ Append(s, e)[Len(s) + 1] = e
  BY AppendProperties, LenProperties
<1>2. Range(Append(s, e)) = Range(s) \cup {e}
  BY <1>1 DEF Range
<1>3. IsInjective(s) /\ e \notin Range(s) => IsInjective(Append(s, e))
  BY <1>1 DEF Range, IsInjective
<1> QED BY <1>2, <1>3, AppendProperties, HeadTailAppend

LEMMA RangeFacts ==
  ASSUME NEW S, NEW s \in Seq(S)
  PROVE  Range(s) \subseteq S
BY LenProperties, ElementOfSeq DEF Range

LEMMA TailFacts ==
  ASSUME NEW S, NEW s \in Seq(S), s # <<>>
  PROVE  /\ Head(s) \in S /\ Head(s) = s[1] /\ Head(s) \in Range(s)
         /\ Tail(s) \in Seq(S) /\ Len(s) \in Nat \ {0}
         /\ Range(s) \subseteq S
         /\ Tail(s) = <<>> <=> Len(s) = 1
         /\ IsInjective(s) =>
              IsInjective(Tail(s)) /\ Range(Tail(s)) = Range(s) \ {Head(s)}
<1>1. /\ Len(s) \in Nat \ {0} /\ DOMAIN s = 1 .. Len(s)
      /\ \A i \in 1 .. Len(s) : s[i] \in S
      /\ Head(s) = s[1]
  BY EmptySeq, LenProperties, ElementOfSeq
<1>2. /\ Tail(s) \in Seq(S) /\ DOMAIN Tail(s) = 1 .. Len(s) - 1
      /\ Len(Tail(s)) = Len(s) - 1
      /\ \A i \in 1 .. Len(s) - 1 : Tail(s)[i] = s[i + 1]
  BY HeadTailProperties, LenProperties
<1>3. Head(s) \in Range(s) /\ Head(s) \in S /\ Range(s) \subseteq S
  BY <1>1 DEF Range
<1>4. Tail(s) = <<>> <=> Len(s) = 1
  <2>1. Tail(s) # <<>> => Len(Tail(s)) # 0
    BY <1>2, EmptySeq
  <2>2. Len(<<>>) = 0
    BY EmptySeq
  <2> QED BY <1>1, <1>2, <2>1, <2>2
<1>5. ASSUME IsInjective(s)
      PROVE  IsInjective(Tail(s)) /\ Range(Tail(s)) = Range(s) \ {Head(s)}
  <2>1. IsInjective(Tail(s))
    BY <1>1, <1>2, <1>5 DEF IsInjective
  <2>2. Range(Tail(s)) \subseteq Range(s) \ {Head(s)}
    BY <1>1, <1>2, <1>5 DEF Range, IsInjective
  <2>3. ASSUME NEW i \in 1 .. Len(s), s[i] # s[1]
        PROVE  s[i] \in Range(Tail(s))
    <3>1. i - 1 \in 1 .. Len(s) - 1 /\ s[i] = Tail(s)[i - 1]
      BY <1>1, <1>2, <2>3
    <3> QED BY <1>2, <3>1 DEF Range
  <2>4. Range(s) \ {Head(s)} \subseteq Range(Tail(s))
    BY <1>1, <2>3 DEF Range
  <2> QED BY <2>1, <2>2, <2>4
<1> QED BY <1>1, <1>2, <1>3, <1>4, <1>5

LEMMA EmptyFacts ==
  /\ \A S : <<>> \in Seq(S)
  /\ Range(<<>>) = {} /\ IsInjective(<<>>)
<1>1. DOMAIN <<>> = {}
  BY EmptySeq
<1> QED BY <1>1, EmptySeq DEF Range, IsInjective

\* The fields of a word.
LEMMA Fields ==
  ASSUME NEW s \in States
  PROVE  /\ s.value \in 0 .. ValueMod - 1 /\ s.gen \in 0 .. GenMod - 1
         /\ s.waiters \in BOOLEAN /\ s.notifs \in BOOLEAN
BY DEF States

LEMMA SameWord ==
  ASSUME NEW r \in States, NEW s \in States
  PROVE  r.value = s.value /\ r.gen = s.gen /\ r.waiters = s.waiters
         /\ r.notifs = s.notifs => r = s
BY DEF States

LEMMA ClearedFacts ==
  ASSUME NEW s \in States
  PROVE  /\ Cleared(s) \in States
         /\ Cleared(s).value = s.value /\ Cleared(s).gen = s.gen
         /\ ~Cleared(s).notifs
         /\ Cleared(s).waiters <=> s.waiters /\ s.value # 0
         /\ Cleared(s) = s <=> ~s.notifs /\ (s.value = 0 => ~s.waiters)
<1> DEFINE a == [s EXCEPT !.notifs = FALSE]
           b == [a EXCEPT !.waiters = FALSE]
           c == [s EXCEPT !.notifs = FALSE, !.waiters = FALSE]
<1>1. /\ a \in States /\ a.value = s.value /\ a.gen = s.gen
      /\ a.waiters = s.waiters /\ a.notifs = FALSE
  BY DEF States
<1>2. /\ b \in States /\ b.value = s.value /\ b.gen = s.gen
      /\ b.waiters = FALSE /\ b.notifs = FALSE
  <2> HIDE DEF a
  <2> QED BY <1>1 DEF States
<1>3. c = b
  BY DEF States
<1>4. Cleared(s) = IF s.value = 0 THEN b ELSE a
  BY <1>3 DEF Cleared
<1> HIDE DEF a, b, c
<1>5. /\ Cleared(s) \in States
      /\ Cleared(s).value = s.value /\ Cleared(s).gen = s.gen
      /\ Cleared(s).notifs = FALSE
      /\ Cleared(s).waiters = IF s.value = 0 THEN FALSE ELSE s.waiters
  BY <1>1, <1>2, <1>4
<1>6. s.waiters \in BOOLEAN /\ s.notifs \in BOOLEAN
  BY Fields
<1>7. ASSUME ~s.notifs, s.value = 0 => ~s.waiters
      PROVE  Cleared(s) = s
  BY <1>5, <1>6, <1>7, SameWord
<1> QED BY <1>5, <1>6, <1>7

LEMMA CarryFacts ==
  ASSUME NEW s \in States
  PROVE  /\ Carry(s) \in States
         /\ Carry(s).value = 0 /\ Carry(s).waiters = s.waiters
         /\ Carry(s).notifs = s.notifs
<1> USE GroupAssumption
<1> DEFINE a == [s EXCEPT !.value = 0]
           b == [a EXCEPT !.gen = (s.gen + 1) % GenMod]
<1>1. 0 \in 0 .. ValueMod - 1 /\ (s.gen + 1) % GenMod \in 0 .. GenMod - 1
  BY Fields
<1>2. /\ a \in States /\ a.value = 0
      /\ a.waiters = s.waiters /\ a.notifs = s.notifs
  BY <1>1 DEF States
<1>3. /\ b \in States /\ b.value = 0
      /\ b.waiters = s.waiters /\ b.notifs = s.notifs
  <2> HIDE DEF a
  <2> QED BY <1>1, <1>2 DEF States
<1>4. Carry(s) = b
  BY DEF Carry, States
<1> QED BY <1>3, <1>4

LEMMA EnteredFacts ==
  ASSUME NEW s \in States
  PROVE  /\ Entered(s) \in States
         /\ Entered(s).value = (s.value + 1) % ValueMod
         /\ s.value < ValueMod - 1 => Entered(s).value = s.value + 1
         /\ Entered(s).gen = s.gen /\ Entered(s).waiters = s.waiters
         /\ Entered(s).notifs = s.notifs
<1>1. (s.value + 1) % ValueMod \in 0 .. ValueMod - 1
  BY Fields, GroupAssumption
<1>2. s.value < ValueMod - 1 => (s.value + 1) % ValueMod = s.value + 1
  BY Fields, GroupAssumption
<1> QED BY <1>1, <1>2 DEF Entered, States

----------------------------------------------------------------------------
(* Steps that leave a part of the invariant alone *)

LEMMA PendingFacts ==
  \A d : d \in Pending <=> \/ d \in Range(dg_notify)
                           \/ \E t \in Threads : d \in Range(snapshot[t])
BY DEF Pending

LEMMA PendingNext ==
  \A d : d \in Pending' <=> \/ d \in Range(dg_notify')
                            \/ \E t \in Threads : d \in Range(snapshot'[t])
BY DEF Pending

LEMMA GotoFacts ==
  ASSUME pc \in [Threads -> PCs], NEW t \in Threads, NEW p \in PCs, Goto(t, p)
  PROVE  /\ pc' \in [Threads -> PCs] /\ pc'[t] = p
         /\ \A u \in Threads \ {t} : pc'[u] = pc[u]
BY DEF Goto

LEMMA CallFacts ==
  ASSUME TypeOK, NEW t \in Threads, Call(t)
  PROVE  /\ calls' \in [Threads -> 0 .. MaxCalls] /\ calls'[t] = calls[t] + 1
         /\ \A u \in Threads \ {t} : calls'[u] = calls[u]
         /\ \A u \in Threads :
              calls[u] <= calls'[u] /\ (calls[u] > 0 => calls'[u] > 0)
<1>1. calls \in [Threads -> 0 .. MaxCalls] /\ MaxCalls \in Nat
  BY GroupAssumption DEF TypeOK
<1>2. calls[t] + 1 \in 0 .. MaxCalls /\ calls' = [calls EXCEPT ![t] = calls[t] + 1]
  BY <1>1 DEF Call
<1> QED BY <1>1, <1>2

LEMMA EntersKept ==
  ASSUME EntersAreCounted, dg_state'.value = dg_state.value, inside' = inside,
         \A u \in Threads : pc'[u] = "enter_retain" <=> pc[u] = "enter_retain"
  PROVE  EntersAreCounted'
BY DEF EntersAreCounted

LEMMA KeeperKept ==
  ASSUME ListHasKeeper, dg_state'.notifs = dg_state.notifs,
         dg_notify' = <<>> <=> dg_notify = <<>>,
         \A u \in Threads : OnDuty(u)' <=> OnDuty(u)
  PROVE  ListHasKeeper'
BY DEF ListHasKeeper

LEMMA OrderKept ==
  ASSUME TypeOK, TypeOK', ListIsOrderly, UNCHANGED list,
         \A u \in Threads : calls[u] <= calls'[u],
         \A u \in Threads :
           pc'[u] \in {"notify_retain", "notify_link_first"} =>
             pc[u] \in {"notify_retain", "notify_link_first"} /\ calls'[u] = calls[u]
  PROVE  ListIsOrderly'
<1>1. UNCHANGED Pending /\ UNCHANGED linked
  BY DEF list, Pending
<1>2. \A d \in linked \cup Pending : d \in Notifs
  <2>1. \A t \in Threads : Range(snapshot[t]) \subseteq Notifs
    BY RangeFacts DEF TypeOK
  <2>2. Range(dg_notify) \subseteq Notifs
    BY RangeFacts DEF TypeOK
  <2> QED BY <2>1, <2>2, PendingFacts DEF TypeOK
<1>3. \A d \in (linked \cup Pending)' : d.n <= calls'[d.by]
  <2> SUFFICES ASSUME NEW d \in linked \cup Pending PROVE d.n <= calls'[d.by]
    BY <1>1
  <2>1. d.n \in Int /\ d.by \in Threads
    BY <1>2, GroupAssumption DEF Notifs
  <2>2. calls[d.by] \in Int /\ calls'[d.by] \in Int
    BY <2>1, GroupAssumption DEF TypeOK
  <2>3. d.n <= calls[d.by] /\ calls[d.by] <= calls'[d.by]
    BY <2>1 DEF ListIsOrderly
  <2> QED BY <2>1, <2>2, <2>3
<1> QED BY <1>3 DEF ListIsOrderly, list, Pushed

LEMMA SeenKept ==
  ASSUME EmptyIsSeen, UNCHANGED list, since \subseteq since', racing \subseteq racing',
         dg_state'.value = 0 => dg_state.value = 0,
         dg_state'.gen = dg_state.gen, dg_state.waiters => dg_state'.waiters,
         \A u \in Threads :
           pc'[u] \in WaitPCs => pc[u] \in WaitPCs /\ old'[u] = old[u],
         \A u \in Threads :
           pc'[u] \in {"leave_clear", "wake"} => pc[u] \in {"leave_clear", "wake"}
  PROVE  EmptyIsSeen'
<1>1. UNCHANGED Pending /\ UNCHANGED <<dg_notify, snapshot>>
  BY DEF list, Pending
<1>2. Waiting' \subseteq Waiting
  BY DEF Waiting
<1> QED BY <1>1, <1>2 DEF EmptyIsSeen, Waiting

LEMMA BitsKept ==
  ASSUME BitsAreCleared, dg_state'.value = 0 => dg_state.value = 0,
         dg_state'.waiters => dg_state.waiters, dg_state'.notifs => dg_state.notifs,
         \A u \in Threads :
           pc[u] = "leave_clear" => pc'[u] = "leave_clear" /\ old'[u] = old[u]
  PROVE  BitsAreCleared'
BY DEF BitsAreCleared

----------------------------------------------------------------------------
(* References *)

Owned == IF \E t \in Threads : owns[t] THEN 1 ELSE 0
Entries == IF dg_state.value > 0 THEN 1 ELSE 0
Listed == IF dg_notify # <<>> THEN 1 ELSE 0
Leavers == {t \in Threads : drops[t] /\ pc[t] \in Waking}
Takers == {t \in Threads : old[t].notifs /\ pc[t] \in Told}
Retaining == {t \in Threads : pc[t] \in {"enter_retain", "notify_retain"}}

Refs == Owned + Entries + Listed + Cardinality(Leavers) + Cardinality(Takers)
          - Cardinality(Retaining)

LEMMA RefsDef == RefsAreAccounted <=> (life = "live" => refs = Refs)
BY DEF RefsAreAccounted, Refs, Owned, Entries, Listed, Leavers, Takers, Retaining,
       Waking, Told

LEMMA RefsDefNext == RefsAreAccounted' <=> (life' = "live" => refs' = Refs')
BY DEF RefsAreAccounted, Refs, Owned, Entries, Listed, Leavers, Takers, Retaining,
       Waking, Told

LEMMA Finite ==
  ASSUME NEW S \in SUBSET Threads
  PROVE  IsFiniteSet(S) /\ Cardinality(S) \in Nat
BY GroupAssumption, FS_Subset, FS_CardinalityType

LEMMA Joins ==
  ASSUME NEW S \in SUBSET Threads, NEW t \in Threads \ S
  PROVE  Cardinality(S \cup {t}) = Cardinality(S) + 1
BY Finite, FS_AddElement

LEMMA Quits ==
  ASSUME NEW S \in SUBSET Threads, NEW t \in S
  PROVE  Cardinality(S \ {t}) = Cardinality(S) - 1
BY Finite, FS_RemoveElement

\* Who retains the group for the enters, or for the list, is one thread; the
\* references of both are accounted for from the start.
LEMMA RefsFacts ==
  ASSUME IInv, life = "live"
  PROVE  /\ refs = Refs /\ refs \in Nat
         /\ Owned \in 0 .. 1 /\ Entries \in 0 .. 1 /\ Listed \in 0 .. 1
         /\ Leavers \in SUBSET Threads /\ Takers \in SUBSET Threads
         /\ Retaining \in SUBSET Threads
         /\ Cardinality(Leavers) \in Nat /\ Cardinality(Takers) \in Nat
         /\ Cardinality(Retaining) \in Nat
         /\ Cardinality(Retaining) <= Entries + Listed
<1>1. /\ Leavers \in SUBSET Threads /\ Takers \in SUBSET Threads
      /\ Retaining \in SUBSET Threads
  BY DEF Leavers, Takers, Retaining
<1>2. /\ Cardinality(Leavers) \in Nat /\ Cardinality(Takers) \in Nat
      /\ Cardinality(Retaining) \in Nat
  BY <1>1, Finite
<1>3. Owned \in 0 .. 1 /\ Entries \in 0 .. 1 /\ Listed \in 0 .. 1
  BY DEF Owned, Entries, Listed
<1>4. refs = Refs /\ refs \in Nat
  BY RefsDef DEF IInv, LiveInv, TypeOK
<1>5. Cardinality(Retaining) <= Entries + Listed
  <2> DEFINE E == {t \in Threads : pc[t] = "enter_retain"}
             L == {t \in Threads : pc[t] = "notify_retain"}
  <2>1. E \in SUBSET Threads /\ L \in SUBSET Threads /\ Retaining = E \cup L
    BY DEF Retaining
  <2>2. \A t, u \in E : t = u
    BY DEF IInv, LiveInv, EntersAreCounted
  <2>3. \A t, u \in L : t = u
    BY DEF IInv, LiveInv, ListHasKeeper, OnDuty, Announcing
  <2>4. E # {} => Entries = 1
    <3>1. E # {} => dg_state.value = inside + 1
      BY DEF IInv, LiveInv, EntersAreCounted
    <3>2. inside \in Nat
      BY DEF IInv, TypeOK
    <3> QED BY <3>1, <3>2 DEF Entries
  <2>5. L # {} => Listed = 1
    BY DEF IInv, LiveInv, ListIsOrderly, Listed
  <2>6. \A S \in SUBSET Threads :
          (\A t, u \in S : t = u) => S = {} \/ \E t \in Threads : S = {t}
    OBVIOUS
  <2> HIDE DEF E, L
  <2>7. Cardinality(E) <= Entries
    <3>1. CASE E = {}
      BY <1>3, <3>1, FS_EmptySet
    <3>2. CASE E # {}
      <4>1. PICK t \in Threads : E = {t}
        BY <2>1, <2>2, <2>6, <3>2
      <4>2. Cardinality(E) = 1
        BY <4>1, FS_Singleton
      <4> QED BY <2>4, <3>2, <4>2
    <3> QED BY <3>1, <3>2
  <2>8. Cardinality(L) <= Listed
    <3>1. CASE L = {}
      BY <1>3, <3>1, FS_EmptySet
    <3>2. CASE L # {}
      <4>1. PICK t \in Threads : L = {t}
        BY <2>1, <2>3, <2>6, <3>2
      <4>2. Cardinality(L) = 1
        BY <4>1, FS_Singleton
      <4> QED BY <2>5, <3>2, <4>2
    <3> QED BY <3>1, <3>2
  <2>9. Cardinality(E \cup L) <= Cardinality(E) + Cardinality(L)
    <3>1. /\ Cardinality(E \cup L) = Cardinality(E) + Cardinality(L) - Cardinality(E \cap L)
          /\ Cardinality(E \cap L) \in Nat
      BY <2>1, Finite, FS_Union
    <3> QED BY <2>1, <3>1, Finite
  <2> QED BY <1>3, <2>1, <2>7, <2>8, <2>9, Finite
<1> QED BY <1>1, <1>2, <1>3, <1>4, <1>5

\* The references keep adding up if each reference comes or goes with its owner.
LEMMA RefsStep ==
  ASSUME IInv, life = "live",
         refs' = refs + (Owned' - Owned) + (Entries' - Entries) + (Listed' - Listed)
                   + (Cardinality(Leavers') - Cardinality(Leavers))
                   + (Cardinality(Takers') - Cardinality(Takers))
                   - (Cardinality(Retaining') - Cardinality(Retaining))
  PROVE  RefsAreAccounted'
<1>1. /\ Owned' \in Int /\ Entries' \in Int /\ Listed' \in Int
  BY DEF Owned, Entries, Listed
<1>2. /\ Leavers' \in SUBSET Threads /\ Takers' \in SUBSET Threads
      /\ Retaining' \in SUBSET Threads
  BY DEF Leavers, Takers, Retaining
<1>3. /\ Cardinality(Leavers') \in Int /\ Cardinality(Takers') \in Int
      /\ Cardinality(Retaining') \in Int
  BY <1>2, Finite
<1>4. /\ Owned \in Int /\ Entries \in Int /\ Listed \in Int
      /\ Cardinality(Leavers) \in Int /\ Cardinality(Takers) \in Int
      /\ Cardinality(Retaining) \in Int /\ refs = Refs
  BY RefsFacts
<1> HIDE DEF Owned, Entries, Listed, Leavers, Takers, Retaining
<1>5. refs' = Refs'
  BY <1>1, <1>3, <1>4 DEF Refs
<1> QED BY <1>5, RefsDefNext

LEMMA RefsKept ==
  ASSUME IInv, life = "live", refs' = refs, owns' = owns,
         dg_state'.value > 0 <=> dg_state.value > 0,
         dg_notify' = <<>> <=> dg_notify = <<>>,
         Leavers' = Leavers, Takers' = Takers, Retaining' = Retaining
  PROVE  RefsAreAccounted'
<1>1. Owned' = Owned /\ Entries' = Entries /\ Listed' = Listed
  BY DEF Owned, Entries, Listed
<1> QED BY <1>1, RefsFacts, RefsStep


----------------------------------------------------------------------------
(* The invariant after each step *)

LEMMA Concluded ==
  ASSUME TypeOK', WaitsForEmpty', NotifiedUnlessRacing', life' = "live",
         EntersAreCounted', ListHasKeeper', ListIsOrderly', EmptyIsSeen',
         BitsAreCleared', CallersOwn', RefsAreAccounted'
  PROVE  IInv'
BY DEF IInv, LiveInv

LEMMA EnterStep ==
  ASSUME IInv, NEW t \in Threads, Enter(t)
  PROVE  IInv'
<1> USE GroupAssumption
<1>1. /\ life = "live" /\ pc[t] = "idle" /\ owns[t] /\ TypeOK /\ LiveInv
      /\ pc \in [Threads -> PCs] /\ dg_state \in States
      /\ WaitsForEmpty /\ NotifiedUnlessRacing
  BY DEF Enter, Call, At, IInv, TypeOK
<1>2. /\ dg_state' \in States
      /\ dg_state'.gen = dg_state.gen /\ dg_state'.waiters = dg_state.waiters
      /\ dg_state'.notifs = dg_state.notifs
      /\ dg_state.value < ValueMod - 1 => dg_state'.value = dg_state.value + 1
      /\ dg_state.value \in 0 .. ValueMod - 1
  BY <1>1, EnteredFacts, Fields DEF Enter
<1>3. /\ pc' \in [Threads -> PCs]
      /\ pc' = pc \/ pc'[t] = "enter_retain"
      /\ \A u \in Threads \ {t} : pc'[u] = pc[u]
  BY <1>1, GotoFacts DEF Enter, PCs
<1>4. TypeOK'
  <2>1. calls' \in [Threads -> 0 .. MaxCalls]
    BY <1>1 DEF Enter, Call, TypeOK
  <2>2. inside' \in Nat /\ life' \in {"live", "enter_crash", "leave_crash"}
    BY <1>1 DEF Enter, TypeOK
  <2> QED BY <1>1, <1>2, <1>3, <2>1, <2>2 DEF Enter, TypeOK, list, history
<1>5. WaitsForEmpty' /\ NotifiedUnlessRacing'
  BY <1>1 DEF Enter, history, WaitsForEmpty, NotifiedUnlessRacing
<1>6. CASE life' # "live"
  <2>1. refs' > 0 /\ life' = "enter_crash"
    <3>1. refs > 0
      <4>1. Owned = 1
        BY <1>1 DEF Owned
      <4> QED BY <1>1, <4>1, RefsFacts DEF Refs
    <3> QED BY <1>1, <1>6, <3>1 DEF Enter
  <2> QED BY <1>4, <1>5, <1>6, <2>1 DEF IInv
<1>7. CASE life' = "live"
  <2>1. /\ dg_state'.value = dg_state.value + 1
        /\ \/ /\ dg_state.value = 0
              /\ pc'[t] = "enter_retain" /\ inside' = inside
           \/ dg_state.value > 0 /\ pc' = pc /\ inside' = inside + 1
    BY <1>1, <1>2, <1>3, <1>7, GotoFacts DEF Enter, PCs
  <2>2. EntersAreCounted'
    <3>1. inside \in Nat
      BY <1>1 DEF TypeOK
    <3>2. CASE dg_state.value = 0
      <4>1. \A u \in Threads : pc[u] # "enter_retain"
        BY <1>1, <3>1, <3>2 DEF LiveInv, EntersAreCounted
      <4>2. \A u \in Threads : pc'[u] = "enter_retain" <=> u = t
        BY <1>3, <2>1, <3>2, <4>1
      <4>3. inside' = inside /\ dg_state.value = inside
        BY <1>1, <2>1, <3>1, <3>2, <4>1 DEF LiveInv, EntersAreCounted
      <4> QED BY <2>1, <4>2, <4>3 DEF EntersAreCounted
    <3>3. CASE dg_state.value > 0
      <4>1. pc' = pc /\ inside' = inside + 1
        BY <2>1, <3>3
      <4> QED BY <1>1, <2>1, <3>1, <4>1 DEF LiveInv, EntersAreCounted
    <3> QED BY <1>2, <3>2, <3>3
  <2>3. ListHasKeeper'
    <3>1. \A u \in Threads : OnDuty(u)' <=> OnDuty(u)
      BY <1>1, <1>3 DEF OnDuty, Announcing, Enter
    <3> QED BY <1>1, <1>2, <3>1, KeeperKept DEF LiveInv, Enter, list
  <2>4. ListIsOrderly'
    <3>1. \A u \in Threads : calls[u] <= calls'[u] /\ (u # t => calls'[u] = calls[u])
      BY <1>1, CallFacts DEF Enter
    <3> QED BY <1>1, <1>3, <1>4, <3>1, OrderKept DEF LiveInv, Enter
  <2>5. EmptyIsSeen'
    BY <1>1, <1>2, <1>3, <2>1, SeenKept DEF LiveInv, Enter, history, WaitPCs
  <2>6. BitsAreCleared'
    BY <1>1, <1>2, <1>3, <2>1, BitsKept DEF LiveInv, Enter
  <2>7. CallersOwn'
    <3>1. \A u \in Threads : calls[u] > 0 => calls'[u] > 0
      BY <1>1, CallFacts DEF Enter
    <3> QED BY <1>1, <1>3, <3>1 DEF LiveInv, CallersOwn, CallerOwns, Calling, Announcing,
         WaitPCs, Waking, Enter, list
  <2>8. RefsAreAccounted'
    <3>1. /\ Owned' = Owned /\ Listed' = Listed /\ refs' = refs
          /\ Leavers' = Leavers /\ Takers' = Takers
      BY <1>1, <1>3 DEF Owned, Listed, Leavers, Takers, Waking, Told, Enter, list
    <3>2. \/ /\ Cardinality(Retaining') = Cardinality(Retaining) + 1
             /\ Entries = 0 /\ Entries' = 1
          \/ Retaining' = Retaining /\ Entries' = Entries
      <4>1. CASE dg_state.value = 0
        <5>1. Retaining' = Retaining \cup {t} /\ t \notin Retaining
          BY <1>1, <1>3, <2>1, <4>1 DEF Retaining
        <5>2. Cardinality(Retaining') = Cardinality(Retaining) + 1
          BY <1>1, <5>1, Joins, RefsFacts
        <5> QED BY <2>1, <4>1, <5>2 DEF Entries
      <4>2. CASE dg_state.value > 0
        BY <1>2, <2>1, <4>2 DEF Entries, Retaining
      <4> QED BY <1>2, <4>1, <4>2
    <3> QED BY <1>1, <3>1, <3>2, RefsFacts, RefsStep
  <2> QED BY <1>4, <1>5, <1>7, <2>2, <2>3, <2>4, <2>5, <2>6, <2>7, <2>8, Concluded
<1> QED BY <1>6, <1>7

LEMMA EnterRetainStep ==
  ASSUME IInv, NEW t \in Threads, EnterRetain(t)
  PROVE  IInv'
<1>1. /\ life = "live" /\ life' = "live" /\ pc[t] = "enter_retain" /\ TypeOK /\ LiveInv
      /\ pc \in [Threads -> PCs] /\ dg_state \in States
  BY DEF EnterRetain, At, IInv, TypeOK
<1>2. /\ pc' \in [Threads -> PCs] /\ pc'[t] = "idle"
      /\ \A u \in Threads \ {t} : pc'[u] = pc[u]
  BY <1>1, GotoFacts DEF EnterRetain, PCs
<1>3. TypeOK' /\ WaitsForEmpty' /\ NotifiedUnlessRacing'
  BY <1>1, <1>2 DEF EnterRetain, TypeOK, list, history, IInv, WaitsForEmpty,
     NotifiedUnlessRacing
<1>4. EntersAreCounted'
  <2>1. \A u \in Threads : pc'[u] # "enter_retain"
    BY <1>1, <1>2 DEF LiveInv, EntersAreCounted
  <2>2. inside \in Nat /\ dg_state.value = inside + 1
    BY <1>1 DEF LiveInv, EntersAreCounted, TypeOK
  <2> QED BY <2>1, <2>2 DEF EntersAreCounted, EnterRetain
<1>5. ListHasKeeper'
  <2>1. \A u \in Threads : OnDuty(u)' <=> OnDuty(u)
    BY <1>1, <1>2 DEF OnDuty, Announcing, EnterRetain
  <2> QED BY <1>1, <2>1, KeeperKept DEF LiveInv, EnterRetain, list
<1>6. ListIsOrderly'
  BY <1>1, <1>2, <1>3, OrderKept DEF LiveInv, EnterRetain, TypeOK
<1>7. EmptyIsSeen'
  BY <1>1, <1>2, SeenKept DEF LiveInv, EnterRetain, history, WaitPCs
<1>8. BitsAreCleared'
  BY <1>1, <1>2, BitsKept DEF LiveInv, EnterRetain
<1>9. CallersOwn'
  BY <1>1, <1>2 DEF LiveInv, CallersOwn, CallerOwns, Calling, Announcing, WaitPCs,
     Waking, EnterRetain, list
<1>10. RefsAreAccounted'
  <2>1. Retaining' = Retaining \ {t} /\ t \in Retaining
    BY <1>1, <1>2 DEF Retaining
  <2>2. Cardinality(Retaining') = Cardinality(Retaining) - 1
    BY <1>1, <2>1, Quits, RefsFacts
  <2>3. /\ Owned' = Owned /\ Entries' = Entries /\ Listed' = Listed
        /\ Leavers' = Leavers /\ Takers' = Takers /\ refs' = refs + 1
    BY <1>1, <1>2 DEF Owned, Entries, Listed, Leavers, Takers, Waking, Told,
       EnterRetain, list
  <2> QED BY <1>1, <2>2, <2>3, RefsFacts, RefsStep
<1> QED BY <1>1, <1>3, <1>4, <1>5, <1>6, <1>7, <1>8, <1>9, <1>10, Concluded

LEMMA LeaveUnbalancedStep ==
  ASSUME IInv, NEW t \in Threads, LeaveUnbalanced(t)
  PROVE  IInv'
<1> USE GroupAssumption
<1>1. /\ life = "live" /\ life' = "leave_crash" /\ TypeOK /\ LiveInv
      /\ dg_state \in States /\ dg_state.value = 0 /\ inside' = inside
  BY DEF LeaveUnbalanced, At, IInv, TypeOK, client
<1>2. inside = 0
  BY <1>1 DEF LiveInv, EntersAreCounted, TypeOK
<1>3. owns[t] /\ Owned = 1
  BY <1>2 DEF LeaveUnbalanced, Owned
<1>4. refs' > 0
  BY <1>1, <1>3, RefsFacts DEF LeaveUnbalanced, Refs
<1>5. dg_state' \in States
  BY <1>1 DEF LeaveUnbalanced, States
<1>6. TypeOK' /\ WaitsForEmpty' /\ NotifiedUnlessRacing'
  BY <1>1, <1>5 DEF LeaveUnbalanced, TypeOK, list, client, history, IInv,
     WaitsForEmpty, NotifiedUnlessRacing
<1> QED BY <1>1, <1>2, <1>4, <1>6 DEF IInv

LEMMA LeaveBalancedStep ==
  ASSUME IInv, NEW t \in Threads, LeaveBalanced(t)
  PROVE  IInv'
<1> USE GroupAssumption
<1>1. /\ life = "live" /\ life' = "live" /\ pc[t] = "idle" /\ TypeOK /\ LiveInv
      /\ pc \in [Threads -> PCs] /\ dg_state \in States /\ inside \in Nat
      /\ inside > 0 /\ inside' = inside - 1
  BY DEF LeaveBalanced, At, IInv, TypeOK
<1>2. /\ dg_state' \in States /\ dg_state'.value = dg_state.value - 1
      /\ dg_state'.waiters = dg_state.waiters /\ dg_state'.notifs = dg_state.notifs
      /\ dg_state.value \in 1 .. ValueMod - 1
  <2>1. dg_state.value \in 1 .. ValueMod - 1
    BY <1>1, Fields DEF LeaveBalanced
  <2>2. CASE dg_state.value = 1
    BY <1>1, <2>1, <2>2, CarryFacts DEF LeaveBalanced
  <2>3. CASE dg_state.value > 1
    <3>1. dg_state' = [dg_state EXCEPT !.value = @ - 1]
      BY <2>3 DEF LeaveBalanced
    <3>2. dg_state.value - 1 \in 0 .. ValueMod - 1
      BY <2>1
    <3> QED BY <1>1, <2>1, <3>1, <3>2 DEF States
  <2> QED BY <2>1, <2>2, <2>3
<1>3. /\ pc' \in [Threads -> PCs]
      /\ \A u \in Threads \ {t} : pc'[u] = pc[u]
      /\ \A u \in Threads \ {t} : old'[u] = old[u] /\ drops'[u] = drops[u]
      /\ \/ /\ dg_state.value = 1 /\ pc'[t] = "leave_clear"
            /\ old'[t] = dg_state' /\ drops'[t]
         \/ dg_state.value > 1 /\ pc' = pc /\ old' = old /\ drops' = drops
  <2>1. CASE dg_state.value = 1
    BY <1>1, <2>1, GotoFacts DEF LeaveBalanced, PCs, TypeOK
  <2>2. CASE dg_state.value > 1
    BY <1>1, <2>2, GotoFacts DEF LeaveBalanced, PCs, TypeOK
  <2> QED BY <1>2, <2>1, <2>2
<1>4. /\ since \subseteq since'
      /\ dg_state.value = 1 => Waiting \cup Pending \subseteq since'
  BY <1>2 DEF LeaveBalanced
<1>5. TypeOK' /\ WaitsForEmpty' /\ NotifiedUnlessRacing'
  <2>1. since' \subseteq Notifs \cup Threads
    <3>1. Waiting \subseteq Threads
      BY DEF Waiting
    <3>2. Pending \subseteq Notifs
      BY <1>1, PendingFacts, RangeFacts DEF TypeOK
    <3>3. since' = since \cup Waiting \cup Pending \/ since' = since
      BY DEF LeaveBalanced
    <3> QED BY <1>1, <3>1, <3>2, <3>3 DEF TypeOK
  <2>2. old' \in [Threads -> States] /\ drops' \in [Threads -> BOOLEAN]
    <3>1. old \in [Threads -> States] /\ drops \in [Threads -> BOOLEAN]
      BY <1>1 DEF TypeOK
    <3>2. old' = [old EXCEPT ![t] = dg_state'] \/ old' = old
      BY DEF LeaveBalanced
    <3>3. drops' = [drops EXCEPT ![t] = TRUE] \/ drops' = drops
      BY DEF LeaveBalanced
    <3> QED BY <1>2, <3>1, <3>2, <3>3
  <2>3. inside' \in Nat
    BY <1>1
  <2>4. UNCHANGED <<dg_notify, linked, snapshot, timeout, refs, owns, calls, racing, early>>
    BY DEF LeaveBalanced, list
  <2> QED BY <1>1, <1>2, <1>3, <2>1, <2>2, <2>3, <2>4 DEF TypeOK, IInv, WaitsForEmpty,
          NotifiedUnlessRacing
<1>6. EntersAreCounted'
  BY <1>1, <1>2, <1>3 DEF LiveInv, EntersAreCounted
<1>7. ListHasKeeper'
  <2>1. \A u \in Threads : OnDuty(u)' <=> OnDuty(u)
    BY <1>1, <1>3 DEF OnDuty, Announcing
  <2> QED BY <1>1, <1>2, <2>1, KeeperKept DEF LiveInv, LeaveBalanced, list
<1>8. ListIsOrderly'
  <2>1. UNCHANGED list /\ calls' = calls /\ \A u \in Threads : calls[u] \in Int
    BY <1>1 DEF LeaveBalanced, TypeOK
  <2>2. pc'[t] \notin {"notify_retain", "notify_link_first"}
    BY <1>1, <1>3
  <2> QED BY <1>1, <1>3, <1>5, <2>1, <2>2, OrderKept DEF LiveInv
<1>9. EmptyIsSeen'
  <2>1. UNCHANGED <<Pending, Waiting, dg_notify, snapshot, racing>>
    BY <1>1, <1>3 DEF LeaveBalanced, list, Pending, Waiting, WaitPCs
  <2>2. CASE dg_state.value = 1
    BY <1>1, <1>2, <1>4, <2>1, <2>2, PendingFacts DEF LiveInv, EmptyIsSeen
  <2>3. CASE dg_state.value > 1
    <3>1. dg_state'.gen = dg_state.gen /\ dg_state'.value # 0 /\ pc' = pc /\ old' = old
      BY <1>1, <1>2, <1>3, <2>3 DEF LeaveBalanced, States
    <3> QED BY <1>1, <1>2, <1>4, <2>1, <3>1, SeenKept DEF LiveInv, LeaveBalanced
  <2> QED BY <1>2, <2>2, <2>3
<1>10. BitsAreCleared'
  <2>1. CASE dg_state.value = 1
    <3>1. pc'[t] = "leave_clear" /\ old'[t] = dg_state'
      BY <1>3, <2>1
    <3>2. (dg_state.waiters \/ dg_state.notifs) => Cleared(old'[t]) # old'[t]
      BY <1>2, <2>1, <3>1, ClearedFacts
    <3> QED BY <1>2, <3>1, <3>2 DEF BitsAreCleared
  <2>2. CASE dg_state.value > 1
    BY <1>2, <2>2 DEF BitsAreCleared
  <2> QED BY <1>2, <2>1, <2>2
<1>11. CallersOwn'
  BY <1>1, <1>3 DEF LiveInv, CallersOwn, CallerOwns, Calling, Announcing, WaitPCs,
     Waking, LeaveBalanced, list
<1>12. RefsAreAccounted'
  <2>1. /\ Owned' = Owned /\ Listed' = Listed /\ refs' = refs
        /\ Takers' = Takers /\ Retaining' = Retaining
    BY <1>1, <1>3 DEF Owned, Listed, Takers, Retaining, Told, LeaveBalanced, list
  <2>2. \/ /\ Cardinality(Leavers') = Cardinality(Leavers) + 1
           /\ Entries = 1 /\ Entries' = 0
        \/ Leavers' = Leavers /\ Entries' = Entries
    <3>1. CASE dg_state.value = 1
      <4>1. Leavers' = Leavers \cup {t} /\ t \notin Leavers
        BY <1>1, <1>2, <1>3, <3>1 DEF Leavers, Waking
      <4>2. Cardinality(Leavers') = Cardinality(Leavers) + 1
        BY <1>1, <4>1, Joins, RefsFacts
      <4> QED BY <1>2, <3>1, <4>2 DEF Entries
    <3>2. CASE dg_state.value > 1
      BY <1>2, <1>3, <3>2 DEF Entries, Leavers
    <3> QED BY <1>2, <3>1, <3>2
  <2> QED BY <1>1, <2>1, <2>2, RefsFacts, RefsStep
<1> QED BY <1>1, <1>5, <1>6, <1>7, <1>8, <1>9, <1>10, <1>11, <1>12, Concluded

LEMMA LeaveClearStep ==
  ASSUME IInv, NEW t \in Threads, LeaveClear(t)
  PROVE  IInv'
<1> DEFINE s == old[t]
<1>1. /\ life = "live" /\ life' = "live" /\ pc[t] = "leave_clear" /\ TypeOK /\ LiveInv
      /\ pc \in [Threads -> PCs] /\ dg_state \in States /\ s \in States
  BY DEF LeaveClear, At, IInv, TypeOK
<1>2. /\ Cleared(s) \in States
      /\ Cleared(s).value = s.value /\ Cleared(s).gen = s.gen /\ ~Cleared(s).notifs
      /\ Cleared(s).waiters <=> s.waiters /\ s.value # 0
      /\ Cleared(s) = s <=> ~s.notifs /\ (s.value = 0 => ~s.waiters)
  BY <1>1, ClearedFacts
<1>3. \/ /\ Cleared(s) = s /\ dg_state' = dg_state /\ old' = old
         /\ pc' = [pc EXCEPT ![t] = "wake"]
      \/ /\ Cleared(s) # s /\ dg_state = s /\ dg_state' = Cleared(s) /\ old' = old
         /\ pc' = [pc EXCEPT ![t] = "wake"]
      \/ /\ Cleared(s) # s /\ dg_state # s /\ dg_state' = dg_state
         /\ old' = [old EXCEPT ![t] = dg_state] /\ pc' = pc
  BY DEF LeaveClear, Goto
<1> HIDE DEF s
<1>4. /\ pc' \in [Threads -> PCs]
      /\ pc'[t] \in {"leave_clear", "wake"}
      /\ \A u \in Threads \ {t} : pc'[u] = pc[u] /\ old'[u] = old[u]
      /\ old' \in [Threads -> States]
  <2>1. "wake" \in PCs /\ old \in [Threads -> States]
    BY <1>1 DEF PCs, TypeOK
  <2>2. CASE old' = old /\ pc' = [pc EXCEPT ![t] = "wake"]
    BY <1>1, <2>1, <2>2
  <2>3. CASE old' = [old EXCEPT ![t] = dg_state] /\ pc' = pc
    BY <1>1, <2>1, <2>3
  <2> QED BY <1>3, <2>2, <2>3
<1>5. /\ dg_state' \in States
      /\ dg_state'.value = dg_state.value /\ dg_state'.gen = dg_state.gen
      /\ dg_state'.waiters => dg_state.waiters
      /\ dg_state'.notifs => dg_state.notifs
      /\ dg_state.waiters /\ dg_state.value # 0 => dg_state'.waiters
  BY <1>1, <1>2, <1>3
<1>6. TypeOK' /\ WaitsForEmpty' /\ NotifiedUnlessRacing'
  BY <1>1, <1>4, <1>5 DEF LeaveClear, TypeOK, list, client, history, IInv,
     WaitsForEmpty, NotifiedUnlessRacing
<1>7. EntersAreCounted'
  BY <1>1, <1>4, <1>5, EntersKept DEF LiveInv, LeaveClear, client
<1>8. ListHasKeeper'
  <2>1. \A u \in Threads \ {t} : OnDuty(u)' <=> OnDuty(u)
    BY <1>4 DEF OnDuty
  <2>2. ~OnDuty(t) /\ (OnDuty(t)' <=> pc'[t] = "wake" /\ old'[t].notifs)
    BY <1>1, <1>4 DEF OnDuty, Announcing
  <2>3. dg_notify' = dg_notify
    BY DEF LeaveClear, list
  <2>4. CASE dg_state'.notifs = dg_state.notifs /\ ~OnDuty(t)'
    BY <1>1, <2>1, <2>2, <2>3, <2>4, KeeperKept DEF LiveInv
  <2>5. CASE dg_state.notifs /\ ~dg_state'.notifs /\ OnDuty(t)'
    BY <1>1, <2>1, <2>2, <2>3, <2>5 DEF LiveInv, ListHasKeeper
  <2>6. CASE Cleared(s) # s /\ dg_state = s /\ dg_state' = Cleared(s)
    <3>1. pc'[t] = "wake" /\ old'[t] = s
      BY <1>1, <1>2, <1>3, <2>6 DEF s
    <3>2. s.notifs \in BOOLEAN /\ dg_state'.notifs \in BOOLEAN
      BY <1>1, <1>5, Fields
    <3>3. CASE s.notifs
      BY <1>2, <2>2, <2>5, <2>6, <3>1, <3>3
    <3>4. CASE ~s.notifs
      <4>1. dg_state.notifs = FALSE /\ dg_state'.notifs = FALSE
        BY <1>2, <2>6, <3>2, <3>4
      <4> QED BY <2>2, <2>4, <3>1, <3>4, <4>1
    <3> QED BY <3>3, <3>4
  <2>7. CASE dg_state' = dg_state
    <3>1. pc'[t] = "wake" => ~old'[t].notifs
      BY <1>1, <1>2, <1>3, <2>7 DEF s
    <3> QED BY <2>2, <2>4, <2>7, <3>1
  <2> QED BY <1>3, <2>6, <2>7
<1>9. ListIsOrderly'
  BY <1>1, <1>4, <1>6, OrderKept DEF LiveInv, LeaveClear, TypeOK, client
<1>10. EmptyIsSeen'
  <2>1. UNCHANGED <<Pending, Waiting, dg_notify, snapshot, racing, since>>
    BY <1>1, <1>4 DEF LeaveClear, list, history, Pending, Waiting, WaitPCs
  <2>2. t \notin Waiting
    BY <1>1 DEF Waiting, WaitPCs
  <2> QED BY <1>1, <1>4, <1>5, <2>1, <2>2 DEF LiveInv, EmptyIsSeen, Waiting
<1>11. BitsAreCleared'
  <2>1. CASE Cleared(s) = s /\ dg_state' = dg_state /\ old' = old
    <3>1. \A u \in Threads : pc[u] = "leave_clear" /\ Cleared(old[u]) # old[u] =>
                               pc'[u] = "leave_clear" /\ old'[u] = old[u]
      BY <1>4, <2>1 DEF s
    <3> QED BY <1>1, <2>1, <3>1 DEF LiveInv, BitsAreCleared
  <2>2. CASE dg_state = s /\ dg_state' = Cleared(s)
    BY <1>2, <2>2 DEF BitsAreCleared
  <2>3. CASE dg_state' = dg_state /\ old' = [old EXCEPT ![t] = dg_state] /\ pc' = pc
    <3>1. old'[t] = dg_state /\ pc'[t] = "leave_clear"
      BY <1>1, <2>3 DEF TypeOK
    <3>2. dg_state.value = 0 /\ (dg_state.waiters \/ dg_state.notifs) =>
            Cleared(dg_state) # dg_state
      BY <1>1, ClearedFacts
    <3> QED BY <2>3, <3>1, <3>2 DEF BitsAreCleared
  <2> QED BY <1>3, <2>1, <2>2, <2>3
<1>12. CallersOwn'
  BY <1>1, <1>4 DEF LiveInv, CallersOwn, CallerOwns, Calling, Announcing, WaitPCs,
     Waking, LeaveClear, list, client
<1>13. RefsAreAccounted'
  <2>1. Leavers' = Leavers /\ Takers' = Takers /\ Retaining' = Retaining
    BY <1>1, <1>4 DEF Leavers, Takers, Retaining, Waking, Told, LeaveClear
  <2> QED BY <1>1, <1>5, <2>1, RefsKept DEF LeaveClear, list, client
<1> QED BY <1>1, <1>6, <1>7, <1>8, <1>9, <1>10, <1>11, <1>12, <1>13, Concluded

LEMMA WakeStep ==
  ASSUME IInv, NEW t \in Threads, Wake(t)
  PROVE  IInv'
<1>1. /\ life = "live" /\ life' = "live" /\ pc[t] = "wake" /\ TypeOK /\ LiveInv
      /\ pc \in [Threads -> PCs] /\ dg_state \in States
      /\ snapshot \in [Threads -> Seq(Notifs)] /\ dg_notify \in Seq(Notifs)
      /\ snapshot[t] = <<>>
  BY DEF Wake, At, IInv, TypeOK, LiveInv, CallersOwn, CallerOwns
<1>2. /\ pc' \in [Threads -> PCs]
      /\ \A u \in Threads \ {t} : pc'[u] = pc[u]
      /\ \/ /\ old[t].notifs /\ pc'[t] = "fire"
            /\ dg_notify # <<>> /\ dg_notify' = <<>>
            /\ snapshot' = [snapshot EXCEPT ![t] = dg_notify]
         \/ /\ ~old[t].notifs /\ pc'[t] = "wake_waiters"
            /\ UNCHANGED <<dg_notify, snapshot>>
  BY <1>1, GotoFacts DEF Wake, PCs
<1>3. \A u \in Threads \ {t} : snapshot'[u] = snapshot[u]
  BY <1>1, <1>2
<1>4. TypeOK' /\ WaitsForEmpty' /\ NotifiedUnlessRacing'
  <2>1. dg_notify' \in Seq(Notifs) /\ snapshot' \in [Threads -> Seq(Notifs)]
    BY <1>1, <1>2, EmptyFacts
  <2> QED BY <1>1, <1>2, <2>1 DEF Wake, TypeOK, client, history, IInv,
          WaitsForEmpty, NotifiedUnlessRacing
<1>5. EntersAreCounted'
  BY <1>1, <1>2, EntersKept DEF LiveInv, Wake, client
<1>6. BitsAreCleared'
  BY <1>1, <1>2, BitsKept DEF LiveInv, Wake
<1>7. CallersOwn'
  BY <1>1, <1>2, <1>3 DEF LiveInv, CallersOwn, CallerOwns, Calling, Announcing, WaitPCs,
     Waking, Wake, client
<1>8. Leavers' = Leavers /\ Retaining' = Retaining /\ Owned' = Owned
      /\ Entries' = Entries /\ refs' = refs
  BY <1>1, <1>2 DEF Leavers, Retaining, Waking, Owned, Entries, Wake, client
<1>9. CASE old[t].notifs
  <2>1. /\ pc'[t] = "fire" /\ dg_notify # <<>> /\ dg_notify' = <<>>
        /\ snapshot'[t] = dg_notify
    BY <1>1, <1>2, <1>9
  <2>2. OnDuty(t) /\ (\A u \in Threads : OnDuty(u) => u = t) /\ ~dg_state.notifs
    BY <1>1, <1>9 DEF OnDuty, LiveInv, ListHasKeeper
  <2>3. ListHasKeeper'
    <3>1. \A u \in Threads : ~OnDuty(u)'
      BY <1>1, <1>2, <2>1, <2>2 DEF OnDuty, Announcing, Wake
    <3> QED BY <2>1, <2>2, <3>1 DEF ListHasKeeper, Wake
  <2>4. Range(snapshot[t]) = {} /\ Range(dg_notify') = {} /\ IsInjective(dg_notify')
    BY <1>1, <2>1, EmptyFacts
  <2>5. Pending' = Pending
    <3>1. \A d : d \in Pending' <=> d \in Pending
      BY <1>1, <1>3, <2>1, <2>4, PendingFacts, PendingNext
    <3> QED BY <3>1
  <2>6. ListIsOrderly'
    <3>1. \A u \in Threads : pc'[u] \notin {"notify_retain", "notify_link_first"}
      BY <1>2, <2>1, <2>2 DEF OnDuty, Announcing
    <3>2. \A u \in Threads :
            /\ IsInjective(snapshot'[u])
            /\ Range(snapshot'[u]) \cap Range(dg_notify') = {}
            /\ \A v \in Threads \ {u} : Range(snapshot'[u]) \cap Range(snapshot'[v]) = {}
      BY <1>1, <1>3, <2>1, <2>4 DEF LiveInv, ListIsOrderly
    <3>3. \A d \in (linked \cup Pending)' : d.n <= calls'[d.by]
      BY <1>1, <2>5 DEF LiveInv, ListIsOrderly, Wake, client
    <3> QED BY <2>4, <3>1, <3>2, <3>3 DEF ListIsOrderly
  <2>7. EmptyIsSeen'
    <3>1. Waiting' = Waiting /\ UNCHANGED <<dg_state, old, since, racing>>
      BY <1>1, <1>2 DEF Waiting, WaitPCs, Wake, history
    <3>2. Range(snapshot'[t]) \subseteq since \cup racing
      BY <1>1, <2>1 DEF LiveInv, EmptyIsSeen
    <3> QED BY <1>1, <1>3, <2>4, <2>5, <3>1, <3>2 DEF LiveInv, EmptyIsSeen
  <2>8. RefsAreAccounted'
    <3>1. Takers' = Takers \cup {t} /\ t \notin Takers
      BY <1>1, <1>2, <1>9, <2>1 DEF Takers, Told, Wake
    <3>2. Cardinality(Takers') = Cardinality(Takers) + 1
      BY <1>1, <3>1, Joins, RefsFacts
    <3>3. Listed = 1 /\ Listed' = 0
      BY <2>1 DEF Listed
    <3> QED BY <1>1, <1>8, <3>2, <3>3, RefsFacts, RefsStep
  <2> QED BY <1>1, <1>4, <1>5, <1>6, <1>7, <2>3, <2>6, <2>7, <2>8, Concluded
<1>10. CASE ~old[t].notifs
  <2>1. pc'[t] = "wake_waiters" /\ UNCHANGED <<list, dg_state, old>>
    BY <1>2, <1>10 DEF Wake, list
  <2>2. ListHasKeeper'
    <3>1. \A u \in Threads : OnDuty(u)' <=> OnDuty(u)
      BY <1>1, <1>2, <1>10, <2>1 DEF OnDuty, Announcing
    <3> QED BY <1>1, <2>1, <3>1, KeeperKept DEF LiveInv, list
  <2>3. ListIsOrderly'
    BY <1>1, <1>2, <1>4, <2>1, OrderKept DEF LiveInv, Wake, TypeOK, client
  <2>4. EmptyIsSeen'
    BY <1>1, <1>2, <2>1, SeenKept DEF LiveInv, Wake, history, WaitPCs
  <2>5. Takers' = Takers
    BY <1>1, <1>2, <1>10, <2>1 DEF Takers, Told
  <2>6. RefsAreAccounted'
    BY <1>1, <1>8, <2>1, <2>5, RefsKept DEF Wake, client, list
  <2> QED BY <1>1, <1>4, <1>5, <1>6, <1>7, <2>2, <2>3, <2>4, <2>6, Concluded
<1> QED BY <1>9, <1>10

LEMMA FireStep ==
  ASSUME IInv, NEW t \in Threads, Fire(t)
  PROVE  IInv'
<1> DEFINE d == Head(snapshot[t])
<1>1. /\ life = "live" /\ life' = "live" /\ pc[t] = "fire" /\ TypeOK /\ LiveInv
      /\ pc \in [Threads -> PCs] /\ snapshot \in [Threads -> Seq(Notifs)]
      /\ snapshot[t] # <<>> /\ snapshot' = [snapshot EXCEPT ![t] = Tail(snapshot[t])]
  BY DEF Fire, At, IInv, TypeOK, LiveInv, CallersOwn, CallerOwns
<1>2. /\ d \in Notifs /\ d \in Range(snapshot[t])
      /\ Tail(snapshot[t]) \in Seq(Notifs) /\ IsInjective(Tail(snapshot[t]))
      /\ Range(Tail(snapshot[t])) = Range(snapshot[t]) \ {d}
      /\ Tail(snapshot[t]) = <<>> <=> Len(snapshot[t]) = 1
  BY <1>1, TailFacts DEF LiveInv, ListIsOrderly
<1>3. /\ pc' \in [Threads -> PCs]
      /\ \A u \in Threads \ {t} : pc'[u] = pc[u]
      /\ pc'[t] \in {"fire", "wake_waiters"}
      /\ pc'[t] = "fire" <=> Len(snapshot[t]) # 1
  BY <1>1, GotoFacts DEF Fire, PCs
<1>4. /\ snapshot' \in [Threads -> Seq(Notifs)] /\ snapshot'[t] = Tail(snapshot[t])
      /\ \A u \in Threads \ {t} : snapshot'[u] = snapshot[u]
  BY <1>1, <1>2
<1>5. /\ since' = since \ {d} /\ racing' = racing \ {d} /\ linked' = linked \ {d}
      /\ early' = IF d \in since THEN early
                  ELSE early \cup {IF d \in racing THEN "racing" ELSE "notify"}
      /\ UNCHANGED <<dg_state, dg_notify, old, drops, timeout, refs, client>>
  BY DEF Fire
<1>6. d \in since \cup racing /\ d \in Pending
  BY <1>1, <1>2, PendingFacts DEF LiveInv, EmptyIsSeen
<1> HIDE DEF d
<1>7. TypeOK' /\ WaitsForEmpty' /\ NotifiedUnlessRacing'
  <2>1. WaitsForEmpty' /\ NotifiedUnlessRacing'
    BY <1>5, <1>6 DEF IInv, WaitsForEmpty, NotifiedUnlessRacing
  <2>2. early' \subseteq {"wait", "notify", "racing"}
    BY <1>1, <1>5 DEF TypeOK
  <2> QED BY <1>1, <1>3, <1>4, <1>5, <2>1, <2>2 DEF TypeOK, client
<1>8. EntersAreCounted'
  BY <1>1, <1>3, <1>5, EntersKept DEF LiveInv, client
<1>9. ListHasKeeper'
  <2>1. \A u \in Threads : OnDuty(u)' <=> OnDuty(u)
    BY <1>1, <1>3, <1>5 DEF OnDuty, Announcing
  <2> QED BY <1>1, <1>5, <2>1, KeeperKept DEF LiveInv
<1>10. /\ Range(snapshot'[t]) = Range(snapshot[t]) \ {d} /\ IsInjective(snapshot'[t])
       /\ d \notin Range(dg_notify)
       /\ \A u \in Threads \ {t} : d \notin Range(snapshot[u])
  BY <1>1, <1>2, <1>4 DEF LiveInv, ListIsOrderly
<1>11. Pending' = Pending \ {d}
  <2>1. \A e : e \in Pending' <=> e \in Pending \ {d}
    BY <1>1, <1>4, <1>5, <1>10, PendingFacts, PendingNext
  <2> QED BY <2>1
<1>12. ListIsOrderly'
  <2>1. \A e \in (linked \cup Pending)' : e.n <= calls'[e.by]
    BY <1>1, <1>5, <1>11 DEF LiveInv, ListIsOrderly, client
  <2>2. \A u \in Threads :
          pc'[u] \in {"notify_retain", "notify_link_first"} =>
            dg_notify' # <<>> /\ Head(dg_notify') = Pushed(u)' /\ Pushed(u)' \notin linked'
    BY <1>1, <1>3, <1>5 DEF LiveInv, ListIsOrderly, Pushed, client
  <2>3. \A u \in Threads :
          /\ IsInjective(snapshot'[u])
          /\ Range(snapshot'[u]) \subseteq Range(snapshot[u])
    BY <1>1, <1>4, <1>10 DEF LiveInv, ListIsOrderly
  <2>4. \A u \in Threads :
          /\ Range(snapshot[u]) \cap Range(dg_notify) = {}
          /\ \A v \in Threads \ {u} : Range(snapshot[u]) \cap Range(snapshot[v]) = {}
    BY <1>1 DEF LiveInv, ListIsOrderly
  <2>5. \A u \in Threads :
          /\ Range(snapshot'[u]) \cap Range(dg_notify') = {}
          /\ \A v \in Threads \ {u} : Range(snapshot'[u]) \cap Range(snapshot'[v]) = {}
    BY <1>5, <2>3, <2>4
  <2>6. IsInjective(dg_notify')
    BY <1>1, <1>5 DEF LiveInv, ListIsOrderly
  <2> QED BY <2>1, <2>2, <2>3, <2>5, <2>6 DEF ListIsOrderly
<1>13. EmptyIsSeen'
  <2>1. Waiting' = Waiting /\ Waiting \subseteq Threads
    BY <1>1, <1>3 DEF Waiting, WaitPCs
  <2>2. d \notin Threads
    BY <1>2, ServedAssumption
  <2>3. dg_state'.value = 0 => (Waiting \cup Pending)' \subseteq since'
    BY <1>1, <1>5, <1>11, <2>1, <2>2 DEF LiveInv, EmptyIsSeen
  <2>4. \A u \in Threads : Range(snapshot'[u]) \subseteq (since \cup racing)'
    BY <1>1, <1>4, <1>5, <1>10 DEF LiveInv, EmptyIsSeen
  <2>5. (\E u \in Threads : pc'[u] \in {"leave_clear", "wake"}) =>
          Range(dg_notify') \subseteq (since \cup racing)'
    BY <1>1, <1>3, <1>5, <1>10 DEF LiveInv, EmptyIsSeen
  <2>6. \A u \in Waiting' :
          u \notin since' => dg_state'.gen = old'[u].gen /\ dg_state'.waiters
    BY <1>1, <1>5, <2>1, <2>2 DEF LiveInv, EmptyIsSeen
  <2> QED BY <2>3, <2>4, <2>5, <2>6 DEF EmptyIsSeen
<1>14. BitsAreCleared'
  BY <1>1, <1>3, <1>5, BitsKept DEF LiveInv
<1>15. CallersOwn'
  BY <1>1, <1>2, <1>3, <1>4, <1>5 DEF LiveInv, CallersOwn, CallerOwns, Calling,
     Announcing, WaitPCs, Waking, client
<1>16. RefsAreAccounted'
  <2>1. Leavers' = Leavers /\ Takers' = Takers /\ Retaining' = Retaining
    BY <1>1, <1>3, <1>5 DEF Leavers, Takers, Retaining, Waking, Told
  <2> QED BY <1>1, <1>5, <2>1, RefsKept DEF client
<1> QED BY <1>1, <1>7, <1>8, <1>9, <1>12, <1>13, <1>14, <1>15, <1>16, Concluded

\* Threads that move between states that the invariant does not tell apart.
LEMMA MoveStep ==
  ASSUME IInv, life = "live", life' = life, pc' \in [Threads -> PCs],
         UNCHANGED <<dg_state, list, old, drops, timeout, refs, client, history>>,
         \A u \in Threads :
           \/ pc'[u] = pc[u]
           \/ pc[u] \in WaitPCs /\ pc'[u] \in WaitPCs
           \/ pc[u] = "wake_waiters" /\ pc'[u] = "wake_release"
  PROVE  IInv'
<1>1. TypeOK /\ LiveInv /\ pc \in [Threads -> PCs]
  BY DEF IInv, TypeOK
<1>2. TypeOK' /\ WaitsForEmpty' /\ NotifiedUnlessRacing'
  BY <1>1 DEF TypeOK, list, client, history, IInv, WaitsForEmpty, NotifiedUnlessRacing
<1>3. EntersAreCounted'
  <2>1. \A u \in Threads : pc'[u] = "enter_retain" <=> pc[u] = "enter_retain"
    BY DEF WaitPCs
  <2> QED BY <1>1, <2>1, EntersKept DEF LiveInv, client
<1>4. ListHasKeeper'
  <2>1. \A u \in Threads : OnDuty(u)' <=> OnDuty(u)
    BY DEF OnDuty, Announcing, WaitPCs
  <2> QED BY <1>1, <2>1, KeeperKept DEF LiveInv, list
<1>5. ListIsOrderly'
  <2>1. \A u \in Threads : pc'[u] \in {"notify_retain", "notify_link_first"} =>
          pc[u] \in {"notify_retain", "notify_link_first"}
    BY DEF WaitPCs
  <2>2. \A u \in Threads : calls'[u] = calls[u] /\ calls[u] \in Nat
    BY <1>1, GroupAssumption DEF TypeOK, client
  <2>3. \A u \in Threads : calls[u] <= calls'[u]
    BY <2>2
  <2> QED BY <1>1, <1>2, <2>1, <2>2, <2>3, OrderKept DEF LiveInv
<1>6. EmptyIsSeen'
  <2>1. \A u \in Threads : pc'[u] \in WaitPCs => pc[u] \in WaitPCs /\ old'[u] = old[u]
    BY DEF WaitPCs
  <2>2. \A u \in Threads :
          pc'[u] \in {"leave_clear", "wake"} => pc[u] \in {"leave_clear", "wake"}
    BY DEF WaitPCs
  <2> QED BY <1>1, <2>1, <2>2, SeenKept DEF LiveInv, history
<1>7. BitsAreCleared'
  <2>1. \A u \in Threads :
          pc[u] = "leave_clear" => pc'[u] = "leave_clear" /\ old'[u] = old[u]
    BY DEF WaitPCs
  <2> QED BY <1>1, <2>1, BitsKept DEF LiveInv
<1>8. CallersOwn'
  BY <1>1 DEF LiveInv, CallersOwn, CallerOwns, Calling, Announcing, WaitPCs, Waking,
     client, list
<1>9. RefsAreAccounted'
  <2>1. Leavers' = Leavers /\ Takers' = Takers /\ Retaining' = Retaining
    BY DEF Leavers, Takers, Retaining, Waking, Told, WaitPCs
  <2> QED BY <1>1, <2>1, RefsKept DEF client, list
<1> QED BY <1>1, <1>2, <1>3, <1>4, <1>5, <1>6, <1>7, <1>8, <1>9, Concluded

LEMMA WakeWaitersStep ==
  ASSUME IInv, NEW t \in Threads, WakeWaiters(t)
  PROVE  IInv'
<1>1. pc' \in [Threads -> PCs]
  BY DEF WakeWaiters, IInv, TypeOK, PCs, WaitPCs
<1>2. \A u \in Threads :
        \/ pc'[u] = pc[u]
        \/ pc[u] \in WaitPCs /\ pc'[u] \in WaitPCs
        \/ pc[u] = "wake_waiters" /\ pc'[u] = "wake_release"
  BY DEF WakeWaiters, At, WaitPCs
<1> QED BY <1>1, <1>2, MoveStep DEF WakeWaiters, At

LEMMA WaitMoves ==
  ASSUME IInv, NEW t \in Threads,
         WaitKernel(t) \/ WaitTimedOut(t) \/ WaitInterrupted(t)
  PROVE  IInv'
<1>1. /\ pc \in [Threads -> PCs] /\ life = "live" /\ life' = life
      /\ pc[t] \in WaitPCs /\ \E p \in WaitPCs : Goto(t, p)
      /\ UNCHANGED <<dg_state, list, old, drops, timeout, refs, client, history>>
  BY DEF WaitKernel, WaitTimedOut, WaitInterrupted, At, WaitPCs, IInv, TypeOK
<1>2. PICK p \in WaitPCs : Goto(t, p)
  BY <1>1
<1>3. /\ pc' \in [Threads -> PCs] /\ pc'[t] \in WaitPCs
      /\ \A u \in Threads \ {t} : pc'[u] = pc[u]
  BY <1>1, <1>2, GotoFacts DEF PCs
<1> QED BY <1>1, <1>3, MoveStep

LEMMA ReturnFacts ==
  ASSUME TypeOK, NEW t \in Threads, Return(t)
  PROVE  /\ pc' \in [Threads -> PCs] /\ pc'[t] = "idle"
         /\ old' \in [Threads -> States]
         /\ drops' \in [Threads -> BOOLEAN] /\ ~drops'[t]
         /\ timeout' \in [Threads -> Timeouts]
         /\ \A u \in Threads \ {t} :
              pc'[u] = pc[u] /\ old'[u] = old[u] /\ drops'[u] = drops[u]
<1>1. InitValue(0) \in States
  BY GroupAssumption DEF InitValue, States
<1> QED BY <1>1, GotoFacts DEF Return, TypeOK, PCs, Timeouts

LEMMA WakeReleaseStep ==
  ASSUME IInv, NEW t \in Threads, WakeRelease(t)
  PROVE  IInv'
<1>1. /\ life = "live" /\ life' = "live" /\ pc[t] = "wake_release" /\ TypeOK /\ LiveInv
      /\ drops[t] \in BOOLEAN /\ old[t].notifs \in BOOLEAN
      /\ refs' = refs - (IF drops[t] THEN 1 ELSE 0) - (IF old[t].notifs THEN 1 ELSE 0)
      /\ UNCHANGED <<dg_state, list, client, history>>
  BY Fields DEF WakeRelease, At, IInv, TypeOK
<1>2. /\ pc' \in [Threads -> PCs] /\ pc'[t] = "idle"
      /\ old' \in [Threads -> States]
      /\ drops' \in [Threads -> BOOLEAN] /\ ~drops'[t]
      /\ timeout' \in [Threads -> Timeouts]
      /\ \A u \in Threads \ {t} :
           pc'[u] = pc[u] /\ old'[u] = old[u] /\ drops'[u] = drops[u]
  BY <1>1, ReturnFacts DEF WakeRelease
<1>3. /\ Owned' = Owned /\ Entries' = Entries /\ Listed' = Listed
      /\ Retaining' = Retaining
  BY <1>1, <1>2 DEF Owned, Entries, Listed, Retaining, client, list
<1>4. Cardinality(Leavers') = Cardinality(Leavers) - (IF drops[t] THEN 1 ELSE 0)
      /\ (drops[t] => Cardinality(Leavers) >= 1)
  <2>1. CASE drops[t]
    <3>1. Leavers' = Leavers \ {t} /\ t \in Leavers
      BY <1>1, <1>2, <2>1 DEF Leavers, Waking
    <3>2. Cardinality(Leavers') = Cardinality(Leavers) - 1
          /\ Cardinality(Leavers') \in Nat
      BY <1>1, <3>1, Quits, Finite, RefsFacts
    <3> QED BY <1>1, <2>1, <3>2, RefsFacts
  <2>2. CASE ~drops[t]
    <3>1. Leavers' = Leavers
      BY <1>1, <1>2, <2>2 DEF Leavers, Waking
    <3> QED BY <1>1, <2>2, <3>1, RefsFacts
  <2> QED BY <2>1, <2>2
<1>5. Cardinality(Takers') = Cardinality(Takers) - (IF old[t].notifs THEN 1 ELSE 0)
      /\ (old[t].notifs => Cardinality(Takers) >= 1)
  <2>1. CASE old[t].notifs
    <3>1. Takers' = Takers \ {t} /\ t \in Takers
      BY <1>1, <1>2, <2>1 DEF Takers, Told
    <3>2. Cardinality(Takers') = Cardinality(Takers) - 1
          /\ Cardinality(Takers') \in Nat
      BY <1>1, <3>1, Quits, Finite, RefsFacts
    <3> QED BY <1>1, <2>1, <3>2, RefsFacts
  <2>2. CASE ~old[t].notifs
    <3>1. Takers' = Takers
      BY <1>1, <1>2, <2>2 DEF Takers, Told
    <3> QED BY <1>1, <2>2, <3>1, RefsFacts
  <2> QED BY <2>1, <2>2
<1>6. refs' \in Nat
  <2>1. refs >= Cardinality(Leavers) + Cardinality(Takers)
    BY <1>1, RefsFacts DEF Refs
  <2> QED BY <1>1, <1>4, <1>5, <2>1, RefsFacts
<1>7. TypeOK' /\ WaitsForEmpty' /\ NotifiedUnlessRacing'
  BY <1>1, <1>2, <1>6 DEF TypeOK, list, client, history, IInv, WaitsForEmpty,
     NotifiedUnlessRacing
<1>8. EntersAreCounted'
  BY <1>1, <1>2, EntersKept DEF LiveInv, client
<1>9. ListHasKeeper'
  <2>1. \A u \in Threads : OnDuty(u)' <=> OnDuty(u)
    BY <1>1, <1>2 DEF OnDuty, Announcing
  <2> QED BY <1>1, <2>1, KeeperKept DEF LiveInv, list
<1>10. ListIsOrderly'
  BY <1>1, <1>2, <1>7, OrderKept DEF LiveInv, TypeOK, client
<1>11. EmptyIsSeen'
  BY <1>1, <1>2, SeenKept DEF LiveInv, history, WaitPCs
<1>12. BitsAreCleared'
  BY <1>1, <1>2, BitsKept DEF LiveInv
<1>13. CallersOwn'
  BY <1>1, <1>2 DEF LiveInv, CallersOwn, CallerOwns, Calling, Announcing, WaitPCs,
     Waking, client, list
<1>14. RefsAreAccounted'
  BY <1>1, <1>3, <1>4, <1>5, RefsFacts, RefsStep
<1> QED BY <1>1, <1>7, <1>8, <1>9, <1>10, <1>11, <1>12, <1>13, <1>14, Concluded

LEMMA ReleaseStep ==
  ASSUME IInv, NEW t \in Threads, Release(t)
  PROVE  IInv'
<1>1. /\ life = "live" /\ life' = "live" /\ pc[t] = "idle" /\ TypeOK /\ LiveInv
      /\ owns[t] /\ owns' = [owns EXCEPT ![t] = FALSE]
      /\ owns' \in [Threads -> BOOLEAN]
      /\ UNCHANGED <<dg_state, list, pc, old, drops, timeout, calls, inside, history>>
  BY DEF Release, At, IInv, TypeOK
<1>2. Owned = 1 /\ Owned' \in {0, 1} /\ refs' = refs + (Owned' - Owned)
  <2>1. Owned = 1 /\ Owned' \in {0, 1} /\ refs \in Nat
    BY <1>1 DEF Owned, TypeOK
  <2>2. CASE \A u \in Threads : ~owns'[u]
    <3>1. Owned' = 0 /\ refs' = refs - 1
      BY <2>2 DEF Owned, Release
    <3> QED BY <2>1, <3>1
  <2>3. CASE \E u \in Threads : owns'[u]
    <3>1. Owned' = 1 /\ refs' = refs
      BY <2>3 DEF Owned, Release
    <3> QED BY <2>1, <3>1
  <2> QED BY <2>2, <2>3
<1>3. refs' \in Nat
  BY <1>1, <1>2, RefsFacts DEF Refs
<1>4. TypeOK' /\ WaitsForEmpty' /\ NotifiedUnlessRacing'
  BY <1>1, <1>3 DEF TypeOK, list, history, IInv, WaitsForEmpty, NotifiedUnlessRacing
<1>5. EntersAreCounted' /\ BitsAreCleared'
  BY <1>1 DEF LiveInv, EntersAreCounted, BitsAreCleared
<1>6. ListHasKeeper'
  <2>1. \A u \in Threads : OnDuty(u)' <=> OnDuty(u)
    BY <1>1 DEF OnDuty
  <2> QED BY <1>1, <2>1, KeeperKept DEF LiveInv, list
<1>7. ListIsOrderly'
  BY <1>1, <1>4, OrderKept DEF LiveInv, TypeOK
<1>8. EmptyIsSeen'
  BY <1>1, SeenKept DEF LiveInv, history
<1>9. CallersOwn'
  BY <1>1 DEF LiveInv, CallersOwn, CallerOwns, Calling, Announcing, WaitPCs, Waking,
     list, TypeOK
<1>10. RefsAreAccounted'
  <2>1. /\ Entries' = Entries /\ Listed' = Listed
        /\ Leavers' = Leavers /\ Takers' = Takers /\ Retaining' = Retaining
    BY <1>1 DEF Entries, Listed, Leavers, Takers, Retaining, list
  <2> QED BY <1>1, <1>2, <2>1, RefsFacts, RefsStep
<1> QED BY <1>1, <1>4, <1>5, <1>6, <1>7, <1>8, <1>9, <1>10, Concluded

LEMMA NotifyStep ==
  ASSUME IInv, NEW t \in Threads, Notify(t)
  PROVE  IInv'
<1> DEFINE d == [by |-> t, n |-> calls[t] + 1]
<1> USE GroupAssumption
<1>1. /\ life = "live" /\ life' = "live" /\ pc[t] = "idle" /\ TypeOK /\ LiveInv
      /\ owns[t] /\ calls[t] < MaxCalls /\ calls' = [calls EXCEPT ![t] = @ + 1]
      /\ dg_notify \in Seq(Notifs)
  BY DEF Notify, Call, At, IInv, TypeOK
<1>2. /\ calls[t] \in Nat /\ calls' \in [Threads -> 0 .. MaxCalls]
      /\ calls'[t] = calls[t] + 1
      /\ \A u \in Threads \ {t} : calls'[u] = calls[u]
      /\ \A u \in Threads : calls[u] <= calls'[u] /\ calls[u] \in Nat
  BY <1>1 DEF TypeOK
<1>3. d \in Notifs /\ d.by = t /\ d.n = calls[t] + 1 /\ d = Pushed(t)'
  BY <1>1, <1>2 DEF Notifs, Pushed
<1>4. /\ dg_notify' = Append(dg_notify, d)
      /\ since' = (IF dg_state.value = 0 THEN since \cup {d} ELSE since)
      /\ racing' = IF \E u \in Threads : pc[u] \in {"leave_clear", "wake"}
                    THEN racing \cup {d} ELSE racing
      /\ UNCHANGED <<dg_state, linked, snapshot, old, drops, timeout, refs, owns,
                     inside, early>>
  BY DEF Notify
<1>5. /\ pc' \in [Threads -> PCs]
      /\ pc'[t] = IF dg_notify = <<>> THEN "notify_retain" ELSE "notify_link"
      /\ \A u \in Threads \ {t} : pc'[u] = pc[u]
  BY <1>1, GotoFacts DEF Notify, TypeOK, PCs
<1>6. d \notin linked /\ d \notin Pending
  <2>1. \A e \in linked \cup Pending : e.n <= calls[e.by]
    BY <1>1 DEF LiveInv, ListIsOrderly
  <2> QED BY <1>2, <1>3, <2>1
<1> HIDE DEF d
<1>7. /\ dg_notify' \in Seq(Notifs) /\ dg_notify' # <<>>
      /\ Range(dg_notify') = Range(dg_notify) \cup {d}
      /\ Head(dg_notify') = IF dg_notify = <<>> THEN d ELSE Head(dg_notify)
      /\ IsInjective(dg_notify')
  <2>1. d \notin Range(dg_notify)
    BY <1>6, PendingFacts
  <2> QED BY <1>1, <1>3, <1>4, <2>1, AppendFacts DEF LiveInv, ListIsOrderly
<1>8. Pending' = Pending \cup {d}
  <2>1. \A e : e \in Pending' <=> e \in Pending \cup {d}
    BY <1>4, <1>7, PendingFacts, PendingNext
  <2> QED BY <2>1
<1>9. TypeOK' /\ WaitsForEmpty' /\ NotifiedUnlessRacing'
  <2>1. since' \subseteq Notifs \cup Threads /\ racing' \subseteq Notifs
    BY <1>1, <1>3, <1>4 DEF TypeOK
  <2> QED BY <1>1, <1>2, <1>4, <1>5, <1>7, <2>1 DEF TypeOK, IInv, WaitsForEmpty,
          NotifiedUnlessRacing
<1>10. EntersAreCounted'
  BY <1>1, <1>4, <1>5, EntersKept DEF LiveInv
<1>11. ListHasKeeper'
  <2>1. \A u \in Threads \ {t} : OnDuty(u)' <=> OnDuty(u)
    BY <1>4, <1>5 DEF OnDuty
  <2>2. ~OnDuty(t) /\ (OnDuty(t)' <=> dg_notify = <<>>)
    BY <1>1, <1>5 DEF OnDuty, Announcing
  <2> QED BY <1>1, <1>4, <1>7, <2>1, <2>2 DEF LiveInv, ListHasKeeper
<1>12. ListIsOrderly'
  <2>1. \A e \in (linked \cup Pending)' : e.n <= calls'[e.by]
    <3>1. \A e \in linked \cup Pending : e.n <= calls[e.by] /\ e \in Notifs
      <4>1. Pending \subseteq Notifs
        BY <1>1, PendingFacts, RangeFacts DEF TypeOK
      <4> QED BY <1>1, <4>1 DEF LiveInv, ListIsOrderly, TypeOK
    <3>2. \A e \in Notifs : e.by \in Threads /\ e.n \in Int
      BY DEF Notifs
    <3>3. \A u \in Threads : calls'[u] \in Int
      BY <1>2
    <3>4. \A e \in linked \cup Pending : e.n <= calls'[e.by]
      BY <1>2, <3>1, <3>2, <3>3
    <3> QED BY <1>2, <1>3, <1>4, <1>8, <3>4
  <2>2. \A u \in Threads :
          pc'[u] \in {"notify_retain", "notify_link_first"} =>
            dg_notify' # <<>> /\ Head(dg_notify') = Pushed(u)' /\ Pushed(u)' \notin linked'
    <3>1. \A u \in Threads \ {t} : Pushed(u)' = Pushed(u)
      BY <1>2 DEF Pushed
    <3>2. \A u \in Threads \ {t} : pc[u] \in {"notify_retain", "notify_link_first"} =>
            dg_notify # <<>> /\ Head(dg_notify) = Pushed(u) /\ Pushed(u) \notin linked
      BY <1>1 DEF LiveInv, ListIsOrderly
    <3> QED BY <1>3, <1>4, <1>5, <1>6, <1>7, <3>1, <3>2
  <2>3. \A u \in Threads :
          /\ IsInjective(snapshot'[u])
          /\ Range(snapshot'[u]) \cap Range(dg_notify') = {}
          /\ \A v \in Threads \ {u} : Range(snapshot'[u]) \cap Range(snapshot'[v]) = {}
    <3>1. \A u \in Threads :
            /\ IsInjective(snapshot[u])
            /\ Range(snapshot[u]) \cap Range(dg_notify) = {}
            /\ \A v \in Threads \ {u} : Range(snapshot[u]) \cap Range(snapshot[v]) = {}
      BY <1>1 DEF LiveInv, ListIsOrderly
    <3>2. \A u \in Threads : d \notin Range(snapshot[u])
      BY <1>6, PendingFacts
    <3>3. \A u \in Threads : Range(snapshot[u]) \cap Range(dg_notify') = {}
      BY <1>7, <3>1, <3>2
    <3> QED BY <1>4, <3>1, <3>3
  <2> QED BY <1>7, <2>1, <2>2, <2>3 DEF ListIsOrderly
<1>13. EmptyIsSeen'
  <2>1. Waiting' = Waiting /\ since \subseteq since' /\ racing \subseteq racing'
    BY <1>1, <1>4, <1>5 DEF Waiting, WaitPCs
  <2>2. dg_state'.value = 0 => (Waiting \cup Pending)' \subseteq since'
    BY <1>1, <1>4, <1>8, <2>1 DEF LiveInv, EmptyIsSeen
  <2>3. (\E u \in Threads : pc'[u] \in {"leave_clear", "wake"}) =>
          Range(dg_notify') \subseteq (since \cup racing)'
    BY <1>1, <1>4, <1>5, <1>7, <2>1 DEF LiveInv, EmptyIsSeen
  <2> QED BY <1>1, <1>4, <2>1, <2>2, <2>3 DEF LiveInv, EmptyIsSeen
<1>14. BitsAreCleared'
  BY <1>1, <1>4, <1>5, BitsKept DEF LiveInv
<1>15. CallersOwn'
  <2>1. \A u \in Threads \ {t} : CallerOwns(u)'
    BY <1>1, <1>2, <1>4, <1>5 DEF LiveInv, CallersOwn, CallerOwns
  <2>2. /\ ~drops[t] /\ snapshot[t] = <<>> /\ calls'[t] > 0
        /\ pc'[t] \in {"notify_retain", "notify_link"} /\ owns'[t]
    BY <1>1, <1>2, <1>4, <1>5 DEF LiveInv, CallersOwn, CallerOwns, Waking
  <2>3. CallerOwns(t)'
    BY <1>4, <2>2 DEF CallerOwns, Calling, Announcing, WaitPCs, Waking
  <2> QED BY <2>1, <2>3 DEF CallersOwn
<1>16. RefsAreAccounted'
  <2>1. /\ Owned' = Owned /\ Entries' = Entries /\ Leavers' = Leavers
        /\ Takers' = Takers /\ refs' = refs
    BY <1>1, <1>4, <1>5 DEF Owned, Entries, Leavers, Takers, Waking, Told
  <2>2. \/ /\ Cardinality(Retaining') = Cardinality(Retaining) + 1
           /\ Listed = 0 /\ Listed' = 1
        \/ Retaining' = Retaining /\ Listed' = Listed
    <3>1. CASE dg_notify = <<>>
      <4>1. Retaining' = Retaining \cup {t} /\ t \notin Retaining
        BY <1>1, <1>5, <3>1 DEF Retaining
      <4>2. Cardinality(Retaining') = Cardinality(Retaining) + 1
        BY <1>1, <4>1, Joins, RefsFacts
      <4> QED BY <1>7, <3>1, <4>2 DEF Listed
    <3>2. CASE dg_notify # <<>>
      BY <1>1, <1>5, <1>7, <3>2 DEF Listed, Retaining
    <3> QED BY <3>1, <3>2
  <2>3. refs' = refs + (Owned' - Owned) + (Entries' - Entries) + (Listed' - Listed)
                  + (Cardinality(Leavers') - Cardinality(Leavers))
                  + (Cardinality(Takers') - Cardinality(Takers))
                  - (Cardinality(Retaining') - Cardinality(Retaining))
    <3>1. /\ Owned \in Int /\ Entries \in Int /\ Listed \in Int /\ refs \in Int
          /\ Cardinality(Leavers) \in Int /\ Cardinality(Takers) \in Int
          /\ Cardinality(Retaining) \in Int
      BY <1>1, RefsFacts
    <3> HIDE DEF Owned, Entries, Listed, Leavers, Takers, Retaining
    <3> QED BY <2>1, <2>2, <3>1
  <2> QED BY <1>1, <2>3, RefsStep
<1> QED BY <1>1, <1>9, <1>10, <1>11, <1>12, <1>13, <1>14, <1>15, <1>16, Concluded

LEMMA NotifyRetainStep ==
  ASSUME IInv, NEW t \in Threads, NotifyRetain(t)
  PROVE  IInv'
<1>1. /\ life = "live" /\ life' = "live" /\ pc[t] = "notify_retain" /\ TypeOK /\ LiveInv
      /\ pc \in [Threads -> PCs]
  BY DEF NotifyRetain, At, IInv, TypeOK
<1>2. /\ pc' \in [Threads -> PCs] /\ pc'[t] = "notify_link_first"
      /\ \A u \in Threads \ {t} : pc'[u] = pc[u]
  BY <1>1, GotoFacts DEF NotifyRetain, PCs
<1>3. TypeOK' /\ WaitsForEmpty' /\ NotifiedUnlessRacing'
  BY <1>1, <1>2 DEF NotifyRetain, TypeOK, list, client, history, IInv, WaitsForEmpty,
     NotifiedUnlessRacing
<1>4. EntersAreCounted'
  BY <1>1, <1>2, EntersKept DEF LiveInv, NotifyRetain, client
<1>5. ListHasKeeper'
  <2>1. \A u \in Threads : OnDuty(u)' <=> OnDuty(u)
    BY <1>1, <1>2 DEF OnDuty, Announcing, NotifyRetain
  <2> QED BY <1>1, <2>1, KeeperKept DEF LiveInv, NotifyRetain, list
<1>6. ListIsOrderly'
  BY <1>1, <1>2, <1>3, OrderKept DEF LiveInv, NotifyRetain, TypeOK, client
<1>7. EmptyIsSeen'
  BY <1>1, <1>2, SeenKept DEF LiveInv, NotifyRetain, history, WaitPCs
<1>8. BitsAreCleared'
  BY <1>1, <1>2, BitsKept DEF LiveInv, NotifyRetain
<1>9. CallersOwn'
  BY <1>1, <1>2 DEF LiveInv, CallersOwn, CallerOwns, Calling, Announcing, WaitPCs,
     Waking, NotifyRetain, list, client
<1>10. RefsAreAccounted'
  <2>1. Retaining' = Retaining \ {t} /\ t \in Retaining
    BY <1>1, <1>2 DEF Retaining
  <2>2. Cardinality(Retaining') = Cardinality(Retaining) - 1
    BY <1>1, <2>1, Quits, RefsFacts
  <2>3. /\ Owned' = Owned /\ Entries' = Entries /\ Listed' = Listed
        /\ Leavers' = Leavers /\ Takers' = Takers /\ refs' = refs + 1
    BY <1>1, <1>2 DEF Owned, Entries, Listed, Leavers, Takers, Waking, Told,
       NotifyRetain, list, client
  <2> QED BY <1>1, <2>2, <2>3, RefsFacts, RefsStep
<1> QED BY <1>1, <1>3, <1>4, <1>5, <1>6, <1>7, <1>8, <1>9, <1>10, Concluded

LEMMA NotifyLinkStep ==
  ASSUME IInv, NEW t \in Threads,
         \/ NotifyLink(t, "notify_link_first", "notify_set")
         \/ NotifyLink(t, "notify_link", "idle")
  PROVE  IInv'
<1> USE GroupAssumption
<1>1. /\ life = "live" /\ life' = "live" /\ TypeOK /\ LiveInv
      /\ pc \in [Threads -> PCs] /\ linked' = linked \cup {Pushed(t)}
      /\ UNCHANGED <<dg_state, dg_notify, snapshot, old, drops, timeout, refs, client,
                     history>>
  BY DEF NotifyLink, At, IInv, TypeOK, Pushed
<1>2. /\ pc' \in [Threads -> PCs]
      /\ \/ pc[t] = "notify_link_first" /\ pc'[t] = "notify_set"
         \/ pc[t] = "notify_link" /\ pc'[t] = "idle"
      /\ \A u \in Threads \ {t} : pc'[u] = pc[u]
  BY <1>1, GotoFacts DEF NotifyLink, PCs, At
<1>3. Pushed(t) \in Notifs /\ \A d \in linked' : d.n <= calls[d.by]
  <2>1. calls[t] \in 0 .. MaxCalls /\ calls[t] > 0
    BY <1>1, <1>2 DEF LiveInv, CallersOwn, CallerOwns, TypeOK
  <2> QED BY <1>1, <2>1 DEF Pushed, Notifs, LiveInv, ListIsOrderly
<1>4. TypeOK' /\ WaitsForEmpty' /\ NotifiedUnlessRacing'
  BY <1>1, <1>2, <1>3 DEF TypeOK, client, history, IInv, WaitsForEmpty,
     NotifiedUnlessRacing
<1>5. EntersAreCounted'
  BY <1>1, <1>2, EntersKept DEF LiveInv, client
<1>6. ListHasKeeper'
  <2>1. \A u \in Threads : OnDuty(u)' <=> OnDuty(u)
    BY <1>1, <1>2 DEF OnDuty, Announcing
  <2> QED BY <1>1, <2>1, KeeperKept DEF LiveInv
<1>7. UNCHANGED Pending
  BY <1>1 DEF Pending
<1>8. ListIsOrderly'
  <2>1. \A u \in Threads \ {t} : Pushed(u)' = Pushed(u) /\ Pushed(u) # Pushed(t)
    BY <1>1 DEF Pushed, client
  <2>2. \A u \in Threads :
          pc'[u] \in {"notify_retain", "notify_link_first"} =>
            dg_notify' # <<>> /\ Head(dg_notify') = Pushed(u)' /\ Pushed(u)' \notin linked'
    BY <1>1, <1>2, <2>1 DEF LiveInv, ListIsOrderly
  <2>3. \A d \in (linked \cup Pending)' : d.n <= calls'[d.by]
    BY <1>1, <1>3, <1>7 DEF LiveInv, ListIsOrderly, client
  <2> QED BY <1>1, <2>2, <2>3 DEF LiveInv, ListIsOrderly
<1>9. EmptyIsSeen'
  <2>1. UNCHANGED Waiting
    BY <1>1, <1>2 DEF Waiting, WaitPCs
  <2> QED BY <1>1, <1>2, <1>7, <2>1 DEF LiveInv, EmptyIsSeen, history
<1>10. BitsAreCleared'
  BY <1>1, <1>2, BitsKept DEF LiveInv
<1>11. CallersOwn'
  BY <1>1, <1>2 DEF LiveInv, CallersOwn, CallerOwns, Calling, Announcing, WaitPCs,
     Waking, client
<1>12. RefsAreAccounted'
  <2>1. Leavers' = Leavers /\ Takers' = Takers /\ Retaining' = Retaining
    BY <1>1, <1>2 DEF Leavers, Takers, Retaining, Waking, Told
  <2> QED BY <1>1, <2>1, RefsKept DEF client
<1> QED BY <1>1, <1>4, <1>5, <1>6, <1>8, <1>9, <1>10, <1>11, <1>12, Concluded

LEMMA NotifySetStep ==
  ASSUME IInv, NEW t \in Threads, NotifySet(t)
  PROVE  IInv'
<1>1. /\ life = "live" /\ life' = "live" /\ pc[t] = "notify_set" /\ TypeOK /\ LiveInv
      /\ pc \in [Threads -> PCs] /\ old \in [Threads -> States] /\ dg_state \in States
      /\ drops \in [Threads -> BOOLEAN] /\ ~drops[t]
      /\ UNCHANGED <<list, timeout, refs, client, history>>
  BY DEF NotifySet, At, IInv, TypeOK, LiveInv, CallersOwn, CallerOwns, Waking
<1>2. /\ OnDuty(t) /\ ~dg_state.notifs /\ dg_notify # <<>>
      /\ \A u \in Threads \ {t} : ~OnDuty(u)
  BY <1>1 DEF LiveInv, ListHasKeeper, OnDuty, Announcing
<1>3. /\ [dg_state EXCEPT !.notifs = TRUE] \in States
      /\ [dg_state EXCEPT !.notifs = TRUE].value = dg_state.value
      /\ [dg_state EXCEPT !.notifs = TRUE].gen = dg_state.gen
      /\ [dg_state EXCEPT !.notifs = TRUE].waiters = dg_state.waiters
      /\ [dg_state EXCEPT !.notifs = TRUE].notifs
  BY <1>1 DEF States
<1>4. CASE Quiet(dg_state)
  <2>1. /\ dg_state' = dg_state /\ dg_state.value = 0
        /\ old' = [old EXCEPT ![t] = [dg_state EXCEPT !.notifs = TRUE]]
        /\ drops' = [drops EXCEPT ![t] = FALSE]
        /\ Goto(t, "wake")
    BY <1>4 DEF NotifySet, Quiet
  <2>2. /\ pc' \in [Threads -> PCs] /\ pc'[t] = "wake"
        /\ \A u \in Threads \ {t} : pc'[u] = pc[u]
    BY <1>1, <2>1, GotoFacts DEF PCs
  <2>3. /\ old' \in [Threads -> States] /\ old'[t].notifs
        /\ \A u \in Threads \ {t} : old'[u] = old[u]
    <3> DEFINE w == [dg_state EXCEPT !.notifs = TRUE]
    <3>1. w \in States /\ w.notifs /\ old' = [old EXCEPT ![t] = w]
      BY <1>3, <2>1
    <3> HIDE DEF w
    <3> QED BY <1>1, <3>1
  <2>4. drops' = drops
    BY <1>1, <2>1
  <2>5. TypeOK' /\ WaitsForEmpty' /\ NotifiedUnlessRacing'
    BY <1>1, <2>1, <2>2, <2>3, <2>4 DEF TypeOK, list, client, history, IInv,
       WaitsForEmpty, NotifiedUnlessRacing
  <2>6. EntersAreCounted'
    BY <1>1, <2>1, <2>2, EntersKept DEF LiveInv, client
  <2>7. ListHasKeeper'
    <3>1. \A u \in Threads : OnDuty(u)' <=> OnDuty(u)
      BY <1>2, <2>2, <2>3 DEF OnDuty
    <3> QED BY <1>1, <2>1, <3>1, KeeperKept DEF LiveInv, list
  <2>8. ListIsOrderly'
    BY <1>1, <2>2, <2>5, OrderKept DEF LiveInv, TypeOK, client
  <2>9. EmptyIsSeen'
    <3>1. Waiting' = Waiting /\ Pending' = Pending
      BY <1>1, <2>2 DEF Waiting, WaitPCs, Pending, list
    <3>2. Range(dg_notify) \subseteq since
      BY <1>1, <2>1, PendingFacts DEF LiveInv, EmptyIsSeen
    <3>3. \A u \in Waiting : old'[u] = old[u]
      BY <1>1, <2>3 DEF Waiting, WaitPCs
    <3> QED BY <1>1, <2>1, <3>1, <3>2, <3>3 DEF LiveInv, EmptyIsSeen, history, list
  <2>10. BitsAreCleared'
    BY <1>1, <2>1, <2>2, <2>3, BitsKept DEF LiveInv
  <2>11. CallersOwn'
    BY <1>1, <2>2, <2>4 DEF LiveInv, CallersOwn, CallerOwns, Calling, Announcing,
       WaitPCs, Waking, client, list
  <2>12. RefsAreAccounted'
    <3>1. Leavers' = Leavers /\ Takers' = Takers /\ Retaining' = Retaining
      BY <1>1, <2>2, <2>3, <2>4 DEF Leavers, Takers, Retaining, Waking, Told
    <3> QED BY <1>1, <2>1, <3>1, RefsKept DEF client, list
  <2> QED BY <1>1, <2>5, <2>6, <2>7, <2>8, <2>9, <2>10, <2>11, <2>12, Concluded
<1>5. CASE ~Quiet(dg_state)
  <2>1. /\ dg_state' = [dg_state EXCEPT !.notifs = TRUE]
        /\ Goto(t, "idle") /\ UNCHANGED <<old, drops>>
    BY <1>5 DEF NotifySet
  <2>2. /\ pc' \in [Threads -> PCs] /\ pc'[t] = "idle"
        /\ \A u \in Threads \ {t} : pc'[u] = pc[u]
    BY <1>1, <2>1, GotoFacts DEF PCs
  <2>3. /\ dg_state' \in States /\ dg_state'.value = dg_state.value
        /\ dg_state'.gen = dg_state.gen /\ dg_state'.waiters = dg_state.waiters
        /\ dg_state'.notifs
    BY <1>3, <2>1
  <2>4. TypeOK' /\ WaitsForEmpty' /\ NotifiedUnlessRacing'
    BY <1>1, <2>1, <2>2, <2>3 DEF TypeOK, list, client, history, IInv,
       WaitsForEmpty, NotifiedUnlessRacing
  <2>5. EntersAreCounted'
    BY <1>1, <2>2, <2>3, EntersKept DEF LiveInv, client
  <2>6. ListHasKeeper'
    <3>1. \A u \in Threads : ~OnDuty(u)'
      BY <1>2, <2>1, <2>2 DEF OnDuty, Announcing
    <3> QED BY <1>1, <1>2, <2>3, <3>1 DEF ListHasKeeper, list
  <2>7. ListIsOrderly'
    BY <1>1, <2>2, <2>4, OrderKept DEF LiveInv, TypeOK, client
  <2>8. EmptyIsSeen'
    BY <1>1, <2>1, <2>2, <2>3, SeenKept DEF LiveInv, history, WaitPCs
  <2>9. BitsAreCleared'
    <3>1. dg_state.value = 0 => dg_state.waiters \/ dg_state.notifs
      BY <1>5 DEF Quiet
    <3>2. dg_state.value = 0 =>
            \E u \in Threads : pc[u] = "leave_clear" /\ Cleared(old[u]) # old[u]
      BY <1>1, <3>1 DEF LiveInv, BitsAreCleared
    <3>3. \A u \in Threads : pc[u] = "leave_clear" =>
            pc'[u] = "leave_clear" /\ old'[u] = old[u]
      BY <1>1, <2>1, <2>2
    <3> QED BY <2>3, <3>2, <3>3 DEF BitsAreCleared
  <2>10. CallersOwn'
    BY <1>1, <2>1, <2>2 DEF LiveInv, CallersOwn, CallerOwns, Calling, Announcing,
       WaitPCs, Waking, client, list
  <2>11. RefsAreAccounted'
    <3>1. Leavers' = Leavers /\ Takers' = Takers /\ Retaining' = Retaining
      BY <1>1, <2>1, <2>2 DEF Leavers, Takers, Retaining, Waking, Told
    <3> QED BY <1>1, <2>3, <3>1, RefsKept DEF client, list
  <2> QED BY <1>1, <2>4, <2>5, <2>6, <2>7, <2>8, <2>9, <2>10, <2>11, Concluded
<1> QED BY <1>4, <1>5

LEMMA WaitStep ==
  ASSUME IInv, NEW t \in Threads, NEW to \in Timeouts, Wait(t, to)
  PROVE  IInv'
<1>1. /\ life = "live" /\ life' = "live" /\ pc[t] = "idle" /\ TypeOK /\ LiveInv
      /\ owns[t] /\ calls[t] < MaxCalls /\ calls' = [calls EXCEPT ![t] = @ + 1]
      /\ pc \in [Threads -> PCs] /\ old \in [Threads -> States] /\ dg_state \in States
      /\ UNCHANGED <<list, drops, refs, owns, inside, history>>
  BY DEF Wait, Call, At, IInv, TypeOK
<1>2. /\ calls' \in [Threads -> 0 .. MaxCalls]
      /\ \A u \in Threads : calls[u] <= calls'[u] /\ calls[u] \in Nat
                            /\ (u # t => calls'[u] = calls[u])
                            /\ (calls[u] > 0 => calls'[u] > 0)
  BY <1>1, GroupAssumption DEF TypeOK
<1>3. CASE UNCHANGED <<dg_state, pc, old, timeout>>
  <2>1. TypeOK' /\ WaitsForEmpty' /\ NotifiedUnlessRacing'
    BY <1>1, <1>2, <1>3 DEF TypeOK, list, history, IInv, WaitsForEmpty,
       NotifiedUnlessRacing
  <2>2. EntersAreCounted' /\ BitsAreCleared'
    BY <1>1, <1>3 DEF LiveInv, EntersAreCounted, BitsAreCleared
  <2>3. ListHasKeeper'
    <3>1. \A u \in Threads : OnDuty(u)' <=> OnDuty(u)
      BY <1>3 DEF OnDuty
    <3> QED BY <1>1, <1>3, <3>1, KeeperKept DEF LiveInv, list
  <2>4. ListIsOrderly'
    BY <1>1, <1>2, <1>3, <2>1, OrderKept DEF LiveInv
  <2>5. EmptyIsSeen'
    BY <1>1, <1>3, SeenKept DEF LiveInv, history
  <2>6. CallersOwn'
    BY <1>1, <1>2, <1>3 DEF LiveInv, CallersOwn, CallerOwns, list
  <2>7. RefsAreAccounted'
    <3>1. Leavers' = Leavers /\ Takers' = Takers /\ Retaining' = Retaining
      BY <1>1, <1>3 DEF Leavers, Takers, Retaining
    <3> QED BY <1>1, <1>3, <3>1, RefsKept DEF list
  <2> QED BY <1>1, <2>1, <2>2, <2>3, <2>4, <2>5, <2>6, <2>7, Concluded
<1>4. CASE /\ dg_state.value # 0 /\ to # "now"
           /\ dg_state' = [dg_state EXCEPT !.waiters = TRUE]
           /\ old' = [old EXCEPT ![t] = dg_state']
           /\ timeout' = [timeout EXCEPT ![t] = to]
           /\ Goto(t, "wait_kernel")
  <2>1. /\ pc' \in [Threads -> PCs] /\ pc'[t] = "wait_kernel"
        /\ \A u \in Threads \ {t} : pc'[u] = pc[u]
    BY <1>1, <1>4, GotoFacts DEF PCs, WaitPCs
  <2>2. /\ dg_state' \in States /\ dg_state'.value = dg_state.value
        /\ dg_state'.gen = dg_state.gen /\ dg_state'.waiters
        /\ dg_state'.notifs = dg_state.notifs
    BY <1>1, <1>4 DEF States
  <2>3. /\ old' \in [Threads -> States] /\ old'[t] = dg_state'
        /\ \A u \in Threads \ {t} : old'[u] = old[u]
    BY <1>1, <1>4, <2>2
  <2>4. TypeOK' /\ WaitsForEmpty' /\ NotifiedUnlessRacing'
    BY <1>1, <1>2, <1>4, <2>1, <2>2, <2>3 DEF TypeOK, list, history, IInv,
       WaitsForEmpty, NotifiedUnlessRacing
  <2>5. EntersAreCounted'
    BY <1>1, <2>1, <2>2, EntersKept DEF LiveInv
  <2>6. ListHasKeeper'
    <3>1. \A u \in Threads : OnDuty(u)' <=> OnDuty(u)
      BY <1>1, <2>1, <2>3 DEF OnDuty, Announcing
    <3> QED BY <1>1, <2>2, <3>1, KeeperKept DEF LiveInv, list
  <2>7. ListIsOrderly'
    BY <1>1, <1>2, <2>1, <2>4, OrderKept DEF LiveInv
  <2>8. EmptyIsSeen'
    <3>1. Pending' = Pending /\ dg_state'.value # 0
      BY <1>1, <1>4, <2>2 DEF Pending, list
    <3>2. \A u \in Waiting' : u \notin since =>
            dg_state'.gen = old'[u].gen /\ dg_state'.waiters
      BY <1>1, <2>1, <2>2, <2>3 DEF LiveInv, EmptyIsSeen, Waiting
    <3> QED BY <1>1, <2>1, <3>1, <3>2 DEF LiveInv, EmptyIsSeen, history, list
  <2>9. BitsAreCleared'
    BY <1>4, <2>2 DEF BitsAreCleared
  <2>10. CallersOwn'
    BY <1>1, <1>2, <2>1 DEF LiveInv, CallersOwn, CallerOwns, Calling, Announcing,
       WaitPCs, Waking, list
  <2>11. RefsAreAccounted'
    <3>1. Leavers' = Leavers /\ Takers' = Takers /\ Retaining' = Retaining
      BY <1>1, <2>1, <2>3 DEF Leavers, Takers, Retaining, Waking, Told
    <3> QED BY <1>1, <2>2, <3>1, RefsKept DEF list
  <2> QED BY <1>1, <2>4, <2>5, <2>6, <2>7, <2>8, <2>9, <2>10, <2>11, Concluded
<1> QED BY <1>3, <1>4 DEF Wait

LEMMA WaitCheckStep ==
  ASSUME IInv, NEW t \in Threads, WaitCheck(t)
  PROVE  IInv'
<1>1. /\ life = "live" /\ life' = "live" /\ pc[t] \in WaitPCs /\ TypeOK /\ LiveInv
      /\ pc \in [Threads -> PCs] /\ ~drops[t]
      /\ UNCHANGED <<dg_state, list, refs, client, racing>>
  BY DEF WaitCheck, At, IInv, TypeOK, WaitPCs, LiveInv, CallersOwn, CallerOwns, Waking
<1>2. CASE Goto(t, "wait_kernel") /\ UNCHANGED <<old, drops, timeout, since, early>>
  <2>1. /\ pc' \in [Threads -> PCs] /\ pc'[t] = "wait_kernel"
        /\ \A u \in Threads \ {t} : pc'[u] = pc[u]
    BY <1>1, <1>2, GotoFacts DEF PCs, WaitPCs
  <2> QED BY <1>1, <1>2, <2>1, MoveStep DEF history, WaitPCs
<1>3. CASE Return(t) /\ since' = since \ {t} /\ early' = early
  <2>1. /\ pc' \in [Threads -> PCs] /\ pc'[t] = "idle"
        /\ old' \in [Threads -> States]
        /\ drops' \in [Threads -> BOOLEAN] /\ ~drops'[t]
        /\ timeout' \in [Threads -> Timeouts]
        /\ \A u \in Threads \ {t} :
             pc'[u] = pc[u] /\ old'[u] = old[u] /\ drops'[u] = drops[u]
    BY <1>1, <1>3, ReturnFacts
  <2>2. TypeOK' /\ WaitsForEmpty' /\ NotifiedUnlessRacing'
    BY <1>1, <1>3, <2>1 DEF TypeOK, list, client, IInv, WaitsForEmpty,
       NotifiedUnlessRacing
  <2>3. EntersAreCounted'
    BY <1>1, <2>1, EntersKept DEF LiveInv, client, WaitPCs
  <2>4. ListHasKeeper'
    <3>1. \A u \in Threads : OnDuty(u)' <=> OnDuty(u)
      BY <1>1, <2>1 DEF OnDuty, Announcing, WaitPCs
    <3> QED BY <1>1, <3>1, KeeperKept DEF LiveInv, list
  <2>5. ListIsOrderly'
    BY <1>1, <2>1, <2>2, OrderKept DEF LiveInv, TypeOK, client
  <2>6. EmptyIsSeen'
    <3>1. Pending' = Pending /\ dg_notify' = dg_notify /\ snapshot' = snapshot
      BY <1>1 DEF Pending, list
    <3>2. Waiting' \subseteq Waiting \ {t}
      BY <2>1 DEF Waiting, WaitPCs
    <3>3. t \notin Pending /\ t \notin Range(dg_notify)
          /\ \A u \in Threads : t \notin Range(snapshot[u])
      BY <1>1, PendingFacts, RangeFacts, ServedAssumption DEF TypeOK
    <3>4. \A u \in Waiting' : u \notin since' =>
            dg_state'.gen = old'[u].gen /\ dg_state'.waiters
      BY <1>1, <1>3, <2>1, <3>2 DEF LiveInv, EmptyIsSeen, Waiting
    <3>5. (\E u \in Threads : pc'[u] \in {"leave_clear", "wake"}) =>
            \E u \in Threads : pc[u] \in {"leave_clear", "wake"}
      BY <2>1
    <3> QED BY <1>1, <1>3, <3>1, <3>2, <3>3, <3>4, <3>5 DEF LiveInv, EmptyIsSeen
  <2>7. BitsAreCleared'
    BY <1>1, <2>1, BitsKept DEF LiveInv, WaitPCs
  <2>8. CallersOwn'
    BY <1>1, <2>1 DEF LiveInv, CallersOwn, CallerOwns, Calling, Announcing,
       WaitPCs, Waking, client, list
  <2>9. RefsAreAccounted'
    <3>1. Leavers' = Leavers /\ Takers' = Takers /\ Retaining' = Retaining
      BY <1>1, <2>1 DEF Leavers, Takers, Retaining, Waking, Told, WaitPCs
    <3> QED BY <1>1, <3>1, RefsKept DEF list, client
  <2> QED BY <1>1, <2>2, <2>3, <2>4, <2>5, <2>6, <2>7, <2>8, <2>9, Concluded
<1>4. Changed(t) => t \in since
  BY <1>1 DEF Changed, LiveInv, EmptyIsSeen, Waiting
<1> QED BY <1>2, <1>3, <1>4 DEF WaitCheck

----------------------------------------------------------------------------
(* The theorems *)

LEMMA InitInv == Init => IInv
<1> SUFFICES ASSUME Init PROVE IInv
  OBVIOUS
<1> USE GroupAssumption
<1>1. PICK n \in {0, 1} : dg_state = InitValue(n) /\ refs = 1 + n /\ inside = n
  BY DEF Init
<1>2. /\ dg_state \in States /\ dg_state.value = n
      /\ dg_state.waiters = FALSE /\ dg_state.notifs = FALSE
      /\ InitValue(0) \in States /\ ~InitValue(0).notifs
  BY <1>1 DEF InitValue, States
<1>3. /\ dg_notify = <<>> /\ linked = {} /\ pc = [t \in Threads |-> "idle"]
      /\ old = [t \in Threads |-> InitValue(0)] /\ drops = [t \in Threads |-> FALSE]
      /\ snapshot = [t \in Threads |-> <<>>] /\ owns = [t \in Threads |-> TRUE]
      /\ timeout = [t \in Threads |-> "forever"] /\ calls = [t \in Threads |-> 0]
      /\ since = {} /\ racing = {} /\ early = {} /\ life = "live"
  BY DEF Init
<1>4. TypeOK /\ WaitsForEmpty /\ NotifiedUnlessRacing
  BY <1>1, <1>2, <1>3, EmptyFacts DEF TypeOK, WaitsForEmpty, NotifiedUnlessRacing, PCs,
     Timeouts
<1>5. Pending = {} /\ Waiting = {} /\ \A t \in Threads : Range(snapshot[t]) = {}
  <2>1. \A t \in Threads : Range(snapshot[t]) = {}
    BY <1>3, EmptyFacts
  <2>2. Waiting = {}
    BY <1>3 DEF Waiting, WaitPCs
  <2> QED BY <1>3, <2>1, <2>2, EmptyFacts, PendingFacts
<1>6. EntersAreCounted /\ BitsAreCleared
  BY <1>1, <1>2, <1>3 DEF EntersAreCounted, BitsAreCleared
<1>7. ListHasKeeper
  BY <1>2, <1>3 DEF ListHasKeeper, OnDuty, Announcing
<1>8. ListIsOrderly
  BY <1>3, <1>5, EmptyFacts DEF ListIsOrderly
<1>9. EmptyIsSeen
  BY <1>3, <1>5, EmptyFacts DEF EmptyIsSeen
<1>10. CallersOwn
  BY <1>3 DEF CallersOwn, CallerOwns, Calling, Announcing, WaitPCs, Waking
<1>11. RefsAreAccounted
  <2>1. Owned = 1 /\ Entries = n /\ Listed = 0
    BY <1>2, <1>3 DEF Owned, Entries, Listed
  <2>2. Leavers = {} /\ Takers = {} /\ Retaining = {}
    BY <1>3 DEF Leavers, Takers, Retaining, Told
  <2>3. Cardinality(Leavers) = 0 /\ Cardinality(Takers) = 0 /\ Cardinality(Retaining) = 0
    BY <2>2, FS_EmptySet
  <2> QED BY <1>1, <2>1, <2>3, RefsDef DEF Refs
<1> QED BY <1>3, <1>4, <1>6, <1>7, <1>8, <1>9, <1>10, <1>11 DEF IInv, LiveInv

LEMMA StepInv == IInv /\ [Next]_vars => IInv'
<1> SUFFICES ASSUME IInv, [Next]_vars PROVE IInv'
  OBVIOUS
<1>1. CASE UNCHANGED vars
  BY <1>1 DEF vars, IInv, TypeOK, WaitsForEmpty, NotifiedUnlessRacing, LiveInv,
     EntersAreCounted, ListHasKeeper, OnDuty, ListIsOrderly, Pushed, Pending,
     EmptyIsSeen, Waiting, BitsAreCleared, CallersOwn, CallerOwns, RefsAreAccounted
<1>2. ASSUME NEW t \in Threads, Enter(t) PROVE IInv'
  BY <1>2, EnterStep
<1>3. ASSUME NEW t \in Threads, Leave(t) PROVE IInv'
  BY <1>3, LeaveBalancedStep, LeaveUnbalancedStep DEF Leave
<1>4. ASSUME NEW t \in Threads, Notify(t) PROVE IInv'
  BY <1>4, NotifyStep
<1>5. ASSUME NEW t \in Threads, NEW to \in Timeouts, Wait(t, to) PROVE IInv'
  BY <1>5, WaitStep
<1>6. ASSUME NEW t \in Threads, WaitTimedOut(t) \/ WaitInterrupted(t) PROVE IInv'
  BY <1>6, WaitMoves
<1>7. ASSUME NEW t \in Threads, Release(t) PROVE IInv'
  BY <1>7, ReleaseStep
<1>8. ASSUME NEW t \in Threads, Progress(t) PROVE IInv'
  <2>1. CASE EnterRetain(t)
    BY <2>1, <1>8, EnterRetainStep
  <2>2. CASE LeaveClear(t) \/ Wake(t) \/ Fire(t)
    BY <2>2, <1>8, LeaveClearStep, WakeStep, FireStep
  <2>3. CASE WakeWaiters(t) \/ WakeRelease(t)
    BY <2>3, <1>8, WakeWaitersStep, WakeReleaseStep
  <2>4. CASE NotifyRetain(t) \/ NotifySet(t)
    BY <2>4, <1>8, NotifyRetainStep, NotifySetStep
  <2>5. CASE \/ NotifyLink(t, "notify_link_first", "notify_set")
             \/ NotifyLink(t, "notify_link", "idle")
    BY <2>5, <1>8, NotifyLinkStep
  <2>6. CASE WaitKernel(t) \/ WaitCheck(t)
    BY <2>6, <1>8, WaitMoves, WaitCheckStep
  <2> QED BY <1>8, <2>1, <2>2, <2>3, <2>4, <2>5, <2>6 DEF Progress
<1> QED BY <1>1, <1>2, <1>3, <1>4, <1>5, <1>6, <1>7, <1>8 DEF Next

\* Whatever the threads, their calls and the widths of the counters, every reachable
\* state of a group satisfies the inductive invariant.
THEOREM GroupInvariant == Spec => []IInv
BY InitInv, StepInv, PTL DEF Spec

\* No dispatch_group_wait returns 0 unless the group was empty at some time during the
\* call: whatever wakes the waiter, however often the group is entered again, and even
\* if the generation wraps around.
THEOREM WaitsForEmptyHolds == Spec => []WaitsForEmpty
<1>1. IInv => WaitsForEmpty
  BY DEF IInv
<1> QED BY <1>1, GroupInvariant, PTL

\* A notification is submitted before the group was empty only if its call began while
\* a wake that had emptied the group was on its way to the list.
THEOREM NotifiedUnlessRacingHolds == Spec => []NotifiedUnlessRacing
<1>1. IInv => NotifiedUnlessRacing
  BY DEF IInv
<1> QED BY <1>1, GroupInvariant, PTL

\* When the last reference is gone every thread is out of the group, for whoever is
\* inside owns a reference or holds the one of the enters.
LEMMA AtRest ==
  ASSUME IInv, refs = 0
  PROVE  Quiet(dg_state) /\ Pending = {} /\ \A t \in Threads : pc[t] = "idle"
<1>1. life = "live" /\ LiveInv /\ TypeOK
  BY DEF IInv, TypeOK
<1>2. /\ Owned = 0 /\ Cardinality(Leavers) = 0
      /\ Entries + Listed = Cardinality(Retaining)
  <2>1. /\ Owned \in Nat /\ Entries \in Nat /\ Listed \in Nat
        /\ Cardinality(Leavers) \in Nat /\ Cardinality(Takers) \in Nat
        /\ Cardinality(Retaining) \in Nat
        /\ Cardinality(Retaining) <= Entries + Listed /\ Refs = 0
    BY <1>1, RefsFacts
  <2> DEFINE l == Cardinality(Leavers)
             k == Cardinality(Takers)
             r == Cardinality(Retaining)
  <2>2. /\ l \in Nat /\ k \in Nat /\ r \in Nat /\ r <= Entries + Listed
        /\ Owned + Entries + Listed + l + k - r = 0
    BY <2>1 DEF Refs
  <2> HIDE DEF l, k, r
  <2>3. Owned = 0 /\ l = 0 /\ Entries + Listed = r
    BY <2>1, <2>2
  <2> QED BY <2>3 DEF l, r
<1>3. Leavers = {}
  BY <1>1, <1>2, RefsFacts, Finite, FS_EmptySet
<1>4. \A t \in Threads : ~owns[t]
  BY <1>2 DEF Owned
<1>5. \A t \in Threads : pc[t] = "idle"
  <2>1. \A t \in Threads : pc[t] \notin Calling /\ pc[t] \notin Waking
    BY <1>1, <1>3, <1>4 DEF LiveInv, CallersOwn, CallerOwns, Leavers
  <2> QED BY <1>1, <2>1 DEF TypeOK, PCs, Calling, Waking, Announcing, WaitPCs
<1>6. Retaining = {} /\ Cardinality(Retaining) = 0
  BY <1>5, FS_EmptySet DEF Retaining
<1>7. Entries = 0 /\ Listed = 0
  BY <1>1, <1>2, <1>6, RefsFacts
<1>8. dg_state.value = 0 /\ dg_notify = <<>>
  BY <1>1, <1>7, Fields DEF Entries, Listed, TypeOK
<1>9. Quiet(dg_state)
  BY <1>1, <1>5, <1>8 DEF LiveInv, BitsAreCleared, Quiet
<1>10. \A t \in Threads : snapshot[t] = <<>>
  BY <1>1, <1>5 DEF LiveInv, CallersOwn, CallerOwns
<1>11. Pending = {}
  BY <1>8, <1>10, EmptyFacts, PendingFacts
<1> QED BY <1>5, <1>9, <1>11

\* The references of a group add up; the last one goes only when the group is at rest,
\* so that _dispatch_group_dispose never crashes; and a leave that balances an enter
\* never does.
THEOREM GroupIsSoundHolds == Spec => []GroupIsSound
<1>1. IInv => GroupIsSound
  <2>1. IInv => TypeOK
    BY DEF IInv
  <2>2. IInv => RefsAreAccounted
    BY DEF IInv, LiveInv, RefsAreAccounted
  <2>3. IInv => DisposedAtRest
    BY AtRest DEF IInv, DisposedAtRest
  <2> QED BY <2>1, <2>2, <2>3 DEF GroupIsSound
<1> QED BY <1>1, GroupInvariant, PTL

----------------------------------------------------------------------------
(* Nothing is left behind *)

LEMMA WakersStep ==
  ASSUME IInv, IInv', GenerationsDiffer, WakersCome, NEW t \in Threads,
         \/ Enter(t) \/ Leave(t) \/ Notify(t)
         \/ \E to \in Timeouts : Wait(t, to)
         \/ WaitTimedOut(t) \/ WaitInterrupted(t)
         \/ Release(t)
         \/ Progress(t)
  PROVE  WakersCome'
<1> SUFFICES ASSUME life' = "live", NEW v \in Threads,
                    pc'[v] = "wait_blocked", v \in since'
             PROVE  \/ dg_state'.waiters
                    \/ \E u \in Threads :
                         /\ pc'[u] \in {"wake", "fire", "wake_waiters"}
                         /\ old'[u].waiters
  BY DEF WakersCome
<1>1. /\ life = "live" /\ TypeOK /\ LiveInv /\ pc \in [Threads -> PCs]
      /\ old \in [Threads -> States] /\ dg_state \in States
  BY DEF IInv, TypeOK, Enter, Leave, LeaveBalanced, LeaveUnbalanced, Notify, Call, At,
     Wait, WaitTimedOut, WaitInterrupted, Release, Progress, EnterRetain, LeaveClear,
     Wake, Fire, WakeWaiters, WakeRelease, NotifyRetain, NotifyLink, NotifySet,
     WaitKernel, WaitCheck
\* Who was blocked before and is not woken keeps its waker, unless that is the thread
\* that takes the step.
<1>2. ASSUME pc[v] = "wait_blocked", v \in since,
             dg_state.waiters => dg_state'.waiters,
             \A u \in Threads :
               pc[u] \in {"wake", "fire", "wake_waiters"} /\ old[u].waiters =>
                 pc'[u] \in {"wake", "fire", "wake_waiters"} /\ old'[u] = old[u]
      PROVE  \/ dg_state'.waiters
             \/ \E u \in Threads :
                  pc'[u] \in {"wake", "fire", "wake_waiters"} /\ old'[u].waiters
  BY <1>1, <1>2 DEF WakersCome
<1>3. CASE Enter(t)
  <2>1. /\ pc[t] = "idle" /\ since' = since /\ old' = old
        /\ dg_state' = Entered(dg_state) /\ \A u \in Threads \ {t} : pc'[u] = pc[u]
        /\ pc'[t] \in {"idle", "enter_retain"}
    BY <1>1, <1>3, GotoFacts DEF Enter, Call, At, PCs, history
  <2> QED BY <1>1, <1>2, <2>1, EnteredFacts
<1>4. CASE LeaveBalanced(t)
  <2>1. /\ pc[t] = "idle" /\ \A u \in Threads \ {t} : pc'[u] = pc[u] /\ old'[u] = old[u]
        /\ pc'[t] \in {"idle", "leave_clear"} /\ since' \subseteq since \cup Waiting \cup Pending
    BY <1>1, <1>4, GotoFacts DEF LeaveBalanced, At, PCs
  <2>2. dg_state'.waiters = dg_state.waiters
    <3>1. CASE dg_state' = Carry(dg_state)
      BY <1>1, <3>1, CarryFacts
    <3>2. CASE dg_state' = [dg_state EXCEPT !.value = @ - 1]
      BY <1>1, <3>2 DEF States
    <3> QED BY <1>4, <3>1, <3>2 DEF LeaveBalanced
  <2>3. v # t /\ pc[v] = "wait_blocked" /\ v \in Waiting
    BY <2>1 DEF Waiting, WaitPCs
  <2>4. CASE v \in since
    BY <1>2, <2>1, <2>2, <2>3, <2>4
  <2>5. CASE v \notin since
    BY <1>1, <2>2, <2>3, <2>5 DEF LiveInv, EmptyIsSeen
  <2> QED BY <2>4, <2>5
<1>5. CASE Notify(t)
  <2>1. v \notin Notifs
    BY ServedAssumption
  <2>2. /\ pc[t] = "idle" /\ dg_state' = dg_state /\ old' = old
        /\ pc'[t] \in {"notify_retain", "notify_link"}
        /\ \A u \in Threads \ {t} : pc'[u] = pc[u]
    BY <1>1, <1>5, GotoFacts DEF Notify, Call, At, PCs
  <2>3. calls[t] \in 0 .. MaxCalls /\ calls[t] < MaxCalls
    BY <1>1, <1>5 DEF Notify, Call, TypeOK
  <2>4. [by |-> t, n |-> calls[t] + 1] \in Notifs
    BY <2>3, GroupAssumption DEF Notifs
  <2>5. v \in since
    BY <1>5, <2>1, <2>4 DEF Notify
  <2> QED BY <1>1, <1>2, <2>2, <2>5
<1>6. ASSUME NEW to \in Timeouts, Wait(t, to)
      PROVE  \/ dg_state'.waiters
             \/ \E u \in Threads :
                  pc'[u] \in {"wake", "fire", "wake_waiters"} /\ old'[u].waiters
  <2>1. CASE UNCHANGED <<dg_state, pc, old, timeout>>
    BY <1>1, <1>2, <1>6, <2>1 DEF Wait, history
  <2>2. CASE dg_state' = [dg_state EXCEPT !.waiters = TRUE]
    BY <1>1, <2>2 DEF States
  <2> QED BY <1>6, <2>1, <2>2 DEF Wait
<1>7. CASE WaitTimedOut(t) \/ WaitInterrupted(t) \/ Release(t)
  <2>1. /\ pc[t] \in {"wait_kernel", "wait_blocked", "idle"}
        /\ pc'[t] \in {"wait_expired", "wait_check", "idle"}
        /\ \A u \in Threads \ {t} : pc'[u] = pc[u]
        /\ since' = since /\ dg_state' = dg_state /\ old' = old
    BY <1>1, <1>7, GotoFacts DEF WaitTimedOut, WaitInterrupted, Release, At, PCs, WaitPCs,
       history
  <2> QED BY <1>1, <1>2, <2>1
<1>8. CASE LeaveClear(t)
  <2>1. /\ pc[t] = "leave_clear" /\ pc'[t] \in {"leave_clear", "wake"} /\ since' = since
        /\ \A u \in Threads \ {t} : pc'[u] = pc[u] /\ old'[u] = old[u]
    BY <1>1, <1>8, GotoFacts DEF LeaveClear, At, PCs, history
  <2>2. pc[v] = "wait_blocked"
    BY <2>1
  <2>3. CASE dg_state' = dg_state
    BY <1>2, <2>1, <2>2, <2>3
  <2>4. CASE /\ dg_state = old[t] /\ dg_state' = Cleared(old[t])
             /\ Goto(t, "wake") /\ UNCHANGED old
    <3>1. pc'[t] = "wake" /\ old'[t] = dg_state
      BY <1>1, <2>4, GotoFacts DEF PCs
    <3>2. CASE dg_state.waiters
      BY <3>1, <3>2
    <3>3. CASE ~dg_state.waiters
      BY <1>2, <2>1, <2>2, <3>3
    <3> QED BY <3>2, <3>3
  <2> QED BY <1>8, <2>3, <2>4 DEF LeaveClear
<1>9. CASE Wake(t) \/ Fire(t)
  <2>1. /\ pc[t] \in {"wake", "fire"} /\ pc'[t] \in {"fire", "wake_waiters"}
        /\ \A u \in Threads \ {t} : pc'[u] = pc[u]
        /\ since' \subseteq since /\ dg_state' = dg_state /\ old' = old
    BY <1>1, <1>9, GotoFacts DEF Wake, Fire, At, PCs, history
  <2> QED BY <1>1, <1>2, <2>1
<1>10. CASE WakeWaiters(t)
  <2>1. /\ pc[t] = "wake_waiters" /\ since' = since /\ dg_state' = dg_state /\ old' = old
        /\ pc[v] = "wait_blocked" /\ ~old[t].waiters
        /\ \A u \in Threads \ {t} : pc'[u] = pc[u]
    BY <1>1, <1>10 DEF WakeWaiters, At, history
  <2> QED BY <1>1, <1>2, <2>1
<1>11. CASE WakeRelease(t)
  <2>1. /\ pc[t] = "wake_release" /\ pc'[t] = "idle"
        /\ \A u \in Threads \ {t} : pc'[u] = pc[u] /\ old'[u] = old[u]
        /\ since' = since /\ dg_state' = dg_state
    BY <1>1, <1>11, ReturnFacts DEF WakeRelease, At, history
  <2> QED BY <1>1, <1>2, <2>1
<1>12. CASE \/ EnterRetain(t) \/ NotifyRetain(t)
            \/ NotifyLink(t, "notify_link_first", "notify_set")
            \/ NotifyLink(t, "notify_link", "idle")
  <2>1. /\ pc[t] \in {"enter_retain", "notify_retain", "notify_link_first", "notify_link"}
        /\ pc'[t] \in {"idle", "notify_link_first", "notify_set"}
        /\ \A u \in Threads \ {t} : pc'[u] = pc[u]
        /\ since' = since /\ dg_state' = dg_state /\ old' = old
    BY <1>1, <1>12, GotoFacts DEF EnterRetain, NotifyRetain, NotifyLink, At, PCs, history
  <2> QED BY <1>1, <1>2, <2>1
<1>13. CASE NotifySet(t)
  <2>1. /\ pc[t] = "notify_set" /\ pc'[t] \in {"idle", "wake"}
        /\ \A u \in Threads \ {t} : pc'[u] = pc[u] /\ old'[u] = old[u]
        /\ since' = since
    BY <1>1, <1>13, GotoFacts DEF NotifySet, At, PCs, history
  <2>2. dg_state'.waiters = dg_state.waiters
    BY <1>1, <1>13 DEF NotifySet, States
  <2> QED BY <1>1, <1>2, <2>1, <2>2
<1>14. CASE WaitKernel(t)
  <2>1. /\ pc[t] = "wait_kernel" /\ dg_state' = dg_state /\ old' = old /\ since' = since
        /\ pc'[t] = IF dg_state.gen = old[t].gen THEN "wait_blocked" ELSE "wait_check"
        /\ \A u \in Threads \ {t} : pc'[u] = pc[u]
    BY <1>1, <1>14, GotoFacts DEF WaitKernel, At, PCs, WaitPCs, history
\* A waiter that has seen the group empty is not let into the kernel.
  <2>2. v # t
    <3>1. t \in Waiting
      BY <2>1 DEF Waiting, WaitPCs
    <3> QED BY <2>1, <3>1 DEF GenerationsDiffer
  <2> QED BY <1>1, <1>2, <2>1, <2>2
<1>15. CASE WaitCheck(t)
  <2>1. /\ pc[t] \in {"wait_check", "wait_expired"} /\ dg_state' = dg_state
        /\ pc'[t] \in {"wait_kernel", "idle"} /\ since' \subseteq since
        /\ \A u \in Threads \ {t} : pc'[u] = pc[u] /\ old'[u] = old[u]
    BY <1>1, <1>15, GotoFacts, ReturnFacts DEF WaitCheck, At, PCs, WaitPCs
  <2> QED BY <1>1, <1>2, <2>1
<1> QED BY <1>3, <1>4, <1>5, <1>6, <1>7, <1>8, <1>9, <1>10, <1>11, <1>12, <1>13,
        <1>14, <1>15 DEF Leave, LeaveUnbalanced, Progress

\* No wakeup is lost: once the group is empty and nobody is in the middle of a call, no
\* thread sleeps in the kernel and neither a notification nor a bit is left.  The
\* hypothesis is about the width of the generation only: it must not come round again
\* between the steps of one dispatch_group_wait.
THEOREM NothingIsLeftBehindHolds ==
  Spec /\ []GenerationsDiffer => []NothingIsLeftBehind
<1>1. Init => WakersCome
  BY DEF Init, WakersCome
<1>2. IInv /\ IInv' /\ GenerationsDiffer /\ WakersCome /\ [Next]_vars => WakersCome'
  <2> SUFFICES ASSUME IInv, IInv', GenerationsDiffer, WakersCome, [Next]_vars
               PROVE  WakersCome'
    OBVIOUS
  <2>1. CASE UNCHANGED vars
    BY <2>1 DEF vars, WakersCome
  <2>2. CASE Next
    BY <2>2, WakersStep DEF Next
  <2> QED BY <2>1, <2>2
<1>3. IInv /\ WakersCome => NothingIsLeftBehind
  <2> SUFFICES ASSUME IInv, WakersCome, life = "live", dg_state.value = 0,
                      \A t \in Threads : pc[t] \in {"idle", "wait_blocked"}
               PROVE  /\ Quiet(dg_state) /\ Pending = {}
                      /\ \A t \in Threads : pc[t] = "idle"
    BY DEF NothingIsLeftBehind
  <2>1. LiveInv
    BY DEF IInv
  <2>2. Quiet(dg_state)
    BY <2>1 DEF LiveInv, BitsAreCleared, Quiet
  <2>3. dg_notify = <<>> /\ \A t \in Threads : snapshot[t] = <<>>
    BY <2>1, <2>2 DEF LiveInv, ListHasKeeper, OnDuty, Announcing, Quiet, CallersOwn,
       CallerOwns
  <2>4. Pending = {}
    BY <2>3, EmptyFacts, PendingFacts
  <2>5. \A t \in Threads : pc[t] = "idle"
    <3>1. \A t \in Threads : pc[t] = "wait_blocked" => t \in since
      BY <2>1 DEF LiveInv, EmptyIsSeen, Waiting, WaitPCs
    <3> QED BY <2>2, <3>1 DEF WakersCome, Quiet
  <2> QED BY <2>2, <2>4, <2>5
<1> QED BY <1>1, <1>2, <1>3, GroupInvariant, PTL DEF Spec
=============================================================================
