------------------------------ MODULE SideLock ------------------------------
(***************************************************************************)
(* dispatch_unfair_lock_t (src/shims/lock.h, src/shims/lock.c, the build   *)
(* with UL_UNFAIR_LOCK) as the side lock of a queue whose target may       *)
(* change.  Plain owners (the suspend count, see SuspendCount) lock and    *)
(* unlock.  Wakers run _dispatch_queue_wakeup_with_override_slow: they     *)
(* only try the lock, and whoever fails leaves a hint that makes the       *)
(* owner's tryunlock fail and look at the queue again.                     *)
(***************************************************************************)
EXTENDS Integers, FiniteSets

LOCAL INSTANCE FiniteSetsExt  \* Max

CONSTANTS Threads,
          Nobody,   \* DLOCK_OWNER_NULL
          MaxQos,   \* DISPATCH_QOS_MAX
          MaxCalls  \* bound: calls the threads make

VARIABLES
  dul_lock, \* the word: owner, DLOCK_WAITERS_BIT, DLOCK_FAILED_TRYLOCK_BIT
  pc,
  value,    \* the word a thread gave to ulock_wait
  next,     \* whether local "next" of lock_slow carries the waiters bit
  cur,      \* the word an unlock replaced
  asleep,   \* threads the kernel blocks on the word
  calls,
  dq_qos,   \* the max QoS in dq_state
  qos,      \* local of the waker
  applied,  \* the highest override given to the target
  excused   \* history: the highest QoS whose waker lost against a plain owner

\* A local is reset where it dies, so that states differ by what matters.
vars == <<dul_lock, pc, value, next, cur, asleep, calls, dq_qos, qos, applied,
          excused>>

Word == [owner : Threads \cup {Nobody}, waiters : BOOLEAN, failed : BOOLEAN]

Unlocked == [owner |-> Nobody, waiters |-> FALSE, failed |-> FALSE]
Locked(t, w) == [owner |-> t, waiters |-> w, failed |-> FALSE]

Held == {"held", "apply", "unlocking", "reread"}

PCs == Held \cup {"idle", "slow", "kernel", "asleep", "wake", "raised"}

Init ==
  /\ dul_lock = Unlocked
  /\ pc = [t \in Threads |-> "idle"]
  /\ value = [t \in Threads |-> Unlocked]
  /\ next = [t \in Threads |-> FALSE]
  /\ cur = [t \in Threads |-> Unlocked]
  /\ asleep = {}
  /\ calls = 0
  /\ dq_qos = 0 /\ qos = [t \in Threads |-> 0]
  /\ applied = 0 /\ excused = 0

Goto(t, from, to) == pc[t] = from /\ pc' = [pc EXCEPT ![t] = to]

Call == calls < MaxCalls /\ calls' = calls + 1

----------------------------------------------------------------------------
(* _dispatch_unfair_lock_lock and _unlock *)

\* The compare-and-swap of the fast path; a taken lock leads to lock_slow.
Lock(t) ==
  /\ Call
  /\ Goto(t, "idle", IF dul_lock = Unlocked THEN "held" ELSE "slow")
  /\ dul_lock' = IF dul_lock = Unlocked THEN Locked(t, FALSE) ELSE dul_lock
  /\ UNCHANGED <<value, next, cur, asleep, dq_qos, qos, applied, excused>>

\* Faulty variant: the bit for the waiters left behind is forgotten.
LockSlowForgets(t) ==
  /\ \/ /\ dul_lock.owner = Nobody
        /\ Goto(t, "slow", "held")
        /\ dul_lock' = Locked(t, FALSE)
        /\ next' = [next EXCEPT ![t] = FALSE]
        /\ UNCHANGED value
     \/ /\ dul_lock.owner # Nobody
        /\ Goto(t, "slow", "kernel")
        /\ dul_lock' = [dul_lock EXCEPT !.waiters = TRUE]
        /\ value' = [value EXCEPT ![t] = dul_lock']
        /\ UNCHANGED next
  /\ UNCHANGED <<cur, asleep, calls, dq_qos, qos, applied, excused>>

\* One turn of the loop of lock_slow: take a free lock, or mark it as waited
\* for and go to the kernel with the word that was seen.
LockSlow(t) ==
  /\ \/ /\ dul_lock.owner = Nobody
        /\ Goto(t, "slow", "held")
        /\ dul_lock' = Locked(t, next[t])
        /\ next' = [next EXCEPT ![t] = FALSE]
        /\ UNCHANGED value
     \/ /\ dul_lock.owner # Nobody
        /\ Goto(t, "slow", "kernel")
        /\ dul_lock' = [dul_lock EXCEPT !.waiters = TRUE]
        /\ value' = [value EXCEPT ![t] = dul_lock']
        /\ UNCHANGED next
  /\ UNCHANGED <<cur, asleep, calls, dq_qos, qos, applied, excused>>

\* ulock_wait blocks a thread only while the word is the one it was given.  It
\* returns the number of threads that still wait: ENOTEMPTY in _dlock_wait.
UlockWait(t) ==
  /\ value' = [value EXCEPT ![t] = IF dul_lock = @ THEN @ ELSE Unlocked]
  /\ \/ /\ dul_lock = value[t]
        /\ Goto(t, "kernel", "asleep")
        /\ asleep' = asleep \cup {t}
        /\ UNCHANGED next
     \/ /\ dul_lock # value[t]
        /\ Goto(t, "kernel", "slow")
        /\ next' = [next EXCEPT ![t] = @ \/ asleep # {}]
        /\ UNCHANGED asleep
  /\ UNCHANGED <<dul_lock, cur, calls, dq_qos, qos, applied, excused>>

\* EINTR: _dlock_wait enters the kernel again.
Interrupt(t) ==
  /\ Goto(t, "asleep", "kernel")
  /\ asleep' = asleep \ {t}
  /\ UNCHANGED <<dul_lock, value, next, cur, calls, dq_qos, qos, applied,
                 excused>>

\* unlock_had_failed_trylock: an exchange; other bits lead to unlock_slow.
Unlock(t) ==
  /\ Goto(t, "held", IF dul_lock = Locked(t, FALSE) THEN "idle" ELSE "wake")
  /\ dul_lock' = Unlocked
  /\ cur' = [cur EXCEPT ![t] = IF pc'[t] = "wake" THEN dul_lock ELSE @]
  /\ UNCHANGED <<value, next, asleep, calls, dq_qos, qos, applied, excused>>

\* unlock_slow: wake one of the waiters, the kernel says which.
Wake(t) ==
  /\ pc[t] = "wake"
  /\ \/ /\ cur[t].waiters
        /\ \E u \in asleep :
             /\ pc' = [pc EXCEPT ![t] = "idle", ![u] = "slow"]
             /\ asleep' = asleep \ {u}
             /\ next' = [next EXCEPT ![u] = @ \/ asleep # {u}]
             /\ value' = [value EXCEPT ![u] = Unlocked]
     \/ /\ cur[t].waiters => asleep = {}
        /\ pc' = [pc EXCEPT ![t] = "idle"]
        /\ UNCHANGED <<asleep, next, value>>
  /\ cur' = [cur EXCEPT ![t] = Unlocked]
  /\ UNCHANGED <<dul_lock, calls, dq_qos, qos, applied, excused>>

----------------------------------------------------------------------------
(* _dispatch_queue_wakeup_with_override_slow *)

\* The caller raised the max QoS of dq_state before it calls.
Raise(t) ==
  \E q \in 1 .. MaxQos :
    /\ Call
    /\ Goto(t, "idle", "raised")
    /\ q > dq_qos
    /\ dq_qos' = q
    /\ qos' = [qos EXCEPT ![t] = q]
    /\ UNCHANGED <<dul_lock, value, next, cur, asleep, applied, excused>>

\* trylock: the loser leaves its hint and overrides the owner's thread.
TryLock(t) ==
  /\ \/ /\ dul_lock.owner = Nobody
        /\ Goto(t, "raised", "apply")
        /\ dul_lock' = Locked(t, FALSE)
        /\ UNCHANGED <<excused, qos>>
     \/ /\ dul_lock.owner # Nobody
        /\ Goto(t, "raised", "idle")
        /\ qos' = [qos EXCEPT ![t] = 0]
        /\ dul_lock' = [dul_lock EXCEPT !.failed = TRUE]
        /\ excused' = IF pc[dul_lock.owner] = "held" THEN Max({excused, qos[t]})
                                                     ELSE excused
  /\ UNCHANGED <<value, next, cur, asleep, calls, dq_qos, applied>>

\* apply_again: the target learns of the override.
Apply(t) ==
  /\ Goto(t, "apply", "unlocking")
  /\ applied' = Max({applied, qos[t]})
  /\ UNCHANGED <<dul_lock, value, next, cur, asleep, calls, dq_qos, qos,
                 excused>>

\* Faulty variant: an unlock that does not look for a failed trylock.
TryUnlockBlind(t) ==
  /\ Goto(t, "unlocking", IF dul_lock.waiters THEN "wake" ELSE "idle")
  /\ dul_lock' = Unlocked
  /\ cur' = [cur EXCEPT ![t] = IF dul_lock.waiters THEN dul_lock ELSE @]
  /\ qos' = [qos EXCEPT ![t] = 0]
  /\ UNCHANGED <<value, next, asleep, calls, dq_qos, applied, excused>>

\* tryunlock: a hint is taken away instead of the lock, and the owner reads the
\* max QoS again; it applies what the losers raised.
TryUnlock(t) ==
  /\ \/ /\ dul_lock.failed
        /\ dul_lock' = [dul_lock EXCEPT !.failed = FALSE]
        /\ pc[t] = "unlocking"
        /\ pc' = [pc EXCEPT ![t] = "reread"]
        /\ UNCHANGED <<cur, qos>>
     \/ /\ ~dul_lock.failed
        /\ Goto(t, "unlocking", IF dul_lock.waiters THEN "wake" ELSE "idle")
        /\ dul_lock' = Unlocked
        /\ cur' = [cur EXCEPT ![t] = IF dul_lock.waiters THEN dul_lock ELSE @]
        /\ qos' = [qos EXCEPT ![t] = 0]
  /\ UNCHANGED <<value, next, asleep, calls, dq_qos, applied, excused>>

Reread(t) ==
  /\ Goto(t, "reread", IF dq_qos > qos[t] THEN "apply" ELSE "unlocking")
  /\ qos' = [qos EXCEPT ![t] = Max({@, dq_qos})]
  /\ UNCHANGED <<dul_lock, value, next, cur, asleep, calls, dq_qos, applied,
                 excused>>

----------------------------------------------------------------------------

Progress(t) ==
  \/ LockSlow(t)
  \/ UlockWait(t)
  \/ Unlock(t)
  \/ Wake(t)
  \/ TryLock(t)
  \/ Apply(t)
  \/ TryUnlock(t)
  \/ Reread(t)

Next == \E t \in Threads : Lock(t) \/ Interrupt(t) \/ Raise(t) \/ Progress(t)

Spec == Init /\ [][Next]_vars

\* A thread in a call keeps running; signals interrupt it at will.
Fairness == \A t \in Threads : WF_vars(Progress(t))

----------------------------------------------------------------------------
(* Properties *)

TypeOK ==
  /\ dul_lock \in Word
  /\ pc \in [Threads -> PCs]
  /\ value \in [Threads -> Word]
  /\ next \in [Threads -> BOOLEAN]
  /\ cur \in [Threads -> Word]
  /\ asleep \subseteq Threads
  /\ calls \in 0 .. MaxCalls
  /\ dq_qos \in 0 .. MaxQos
  /\ qos \in [Threads -> 0 .. MaxQos]
  /\ applied \in 0 .. MaxQos
  /\ excused \in 0 .. MaxQos

\* The word names the one thread that owns the lock, and unlock_slow never sees
\* a word that is not its caller's ("lock not owned by current thread").
OneOwner ==
  /\ \A t \in Threads : pc[t] \in Held => dul_lock.owner = t
  /\ dul_lock.owner # Nobody => pc[dul_lock.owner] \in Held
  /\ \A t \in Threads : pc[t] = "wake" => cur[t].owner = t

\* The override the last waker raised reaches the target, although a waker that
\* finds the lock taken returns at once: the hint makes the owner look again.
\* Exempt is what lost against a plain owner, whose resume takes it over.
OverridesAreApplied ==
  (\A t \in Threads : pc[t] \in {"idle", "slow", "kernel", "asleep", "wake"})
    => applied >= dq_qos \/ excused = dq_qos

\* Nobody sleeps for good: everyone who asks for the lock returns.
LockersReturn == \A t \in Threads : []<>(pc[t] = "idle")
=============================================================================
