------------------------------- MODULE Voucher -------------------------------
(* Vouchers (voucher.c, voucher_internal.h, inline_internal.h): a thread     *)
(* adopts a voucher, carries it along with the blocks and messages it sends, *)
(* and derives others from it.  A voucher stands for a kernel voucher of     *)
(* which it owns, or borrows from its base, a user reference of the task; it *)
(* is entered in a hash by the kernel voucher that messages carry, so that   *)
(* the receiver of one finds the voucher again: even one whose last external *)
(* reference was just dropped.                                               *)
(*                                                                           *)
(* A kernel voucher is what it contains: the kernel gives the same name to   *)
(* the same contents, and counts the references the task has to the name.    *)
(* The hash is read and written under its lock: a critical section is one    *)
(* step.                                                                     *)
EXTENDS Integers, Sequences, FiniteSets, Bags, SequencesExt

CONSTANTS
  Threads,
  IdRange, \* MACH_ACTIVITY_ID_RANGE_SIZE: the identifiers a call of the kernel reserves
  Plans    \* a sequence of what the threads do, and of the messages that come in

VARIABLES plan, vm, at

voucherVars == <<plan, vm, at>>

Plan == Plans[plan]

\* What a kernel voucher contains: accounting for this process ("bank") or for another
\* ("other", "persona"), importance, a priority (as an attribute and in the user data),
\* and the activity in the user data.
Kv(attrs, act) == [attrs |-> attrs, act |-> act]
NoKv == Kv({}, 0)
Default == Kv({"bank"}, 0)
Banks == {"bank", "other", "persona"}

NoVoucher == 0
Blank == [xref |-> 0, ref |-> 0, kv |-> NoKv, ipc |-> NoKv, base |-> NoVoucher, act |-> 0,
          prio |-> FALSE, imp |-> FALSE, live |-> TRUE]

Ready == [pc |-> "next", v |-> NoVoucher, kv |-> NoKv, base |-> NoVoucher, then |-> "no"]
NotReleasing == [v |-> NoVoucher, pc |-> "no"]

VoucherInit ==
  /\ plan \in DOMAIN Plans
  /\ vm = [vs |-> <<>>, hash |-> <<>>, urefs |-> SetToBag({Default}), task |-> Default,
           mail |-> Plan.mail, conts |-> <<>>, aid |-> 0, generated |-> 0, ids |-> <<>>,
           copies |-> {}, crash |-> "no"]
  /\ at = [t \in Threads |-> [todo |-> Plan.scripts[t], do |-> Ready, r |-> NotReleasing,
                              cur |-> NoVoucher, kernel |-> NoKv, held |-> <<>>, saved |-> <<>>]]

---------------------------------------------------------------------------
\* The kernel's references.

Crash(s, why) == [s EXCEPT !.crash = IF @ = "no" THEN why ELSE @]
CrashIf(s, cond, why) == IF cond THEN Crash(s, why) ELSE s

\* host_create_mach_voucher, or a voucher received: one more reference to the name.
KNew(s, k) == IF k = NoKv THEN s ELSE [s EXCEPT !.urefs = @ (+) SetToBag({k})]

\* The name is given to the kernel: in a recipe, in a message or for the thread.
KUse(s, k) == CrashIf(s, k # NoKv /\ ~BagIn(k, s.urefs), "dead name")

\* _voucher_dealloc_mach_voucher
KDrop(s, k) ==
  IF BagIn(k, s.urefs) THEN [s EXCEPT !.urefs = @ (-) SetToBag({k})]
  ELSE Crash(s, "kernel over-release")

---------------------------------------------------------------------------
\* Reference counts and the hash.

Queued(s, v) == v \in ToSet(s.hash)

Touch(s, v) == CrashIf(s, ~s.vs[v].live, "use after free")

\* _voucher_retain
Retain(s, v) ==
  IF v = NoVoucher THEN Crash(s, "null")
  ELSE LET s1 == [Touch(s, v) EXCEPT !.vs[v].xref = @ + 1]
       IN CrashIf(s1, s1.vs[v].xref <= 0, "resurrection")

RetainAny(s, v) == IF v = NoVoucher THEN s ELSE Retain(s, v)

\* _voucher_release_no_dispose
ReleaseNoDispose(s, v) ==
  LET s1 == [Touch(s, v) EXCEPT !.vs[v].xref = @ - 1]
  IN CrashIf(s1, s1.vs[v].xref < 0, "over-release")

\* Faulty variant: a voucher found after its last external reference went is not given
\* back its internal one.
FindUnretained(s, k) ==
  LET i == SelectInSeq(s.hash, LAMBDA w : s.vs[w].ipc = k)
  IN IF k = NoKv \/ i = 0 THEN [s |-> s, v |-> NoVoucher]
     ELSE [s |-> [s EXCEPT !.vs[s.hash[i]].xref = @ + 1], v |-> s.hash[i]]

\* _voucher_find_and_retain: the voucher of a kernel voucher, with a reference.
Find(s, k) ==
  LET i == SelectInSeq(s.hash, LAMBDA w : s.vs[w].ipc = k)
      v == s.hash[i]
      s1 == [Touch(s, v) EXCEPT !.vs[v].xref = @ + 1,
                                !.vs[v].ref = IF s.vs[v].xref = -1 THEN @ + 1 ELSE @]
  IN IF k = NoKv \/ i = 0 THEN [s |-> s, v |-> NoVoucher]
     ELSE [s |-> CrashIf(s1, s1.vs[v].xref < 0, "over-release"), v |-> v]

\* _voucher_alloc: with the fields it is given.
Alloc(s, voucher) == [s EXCEPT !.vs = Append(@, voucher)]
New(s) == Len(s.vs)

\* _voucher_clone: a copy, of the kernel voucher too unless it is ignored; the copy
\* borrows the reference of the voucher that owns it.
Clone(s, v, withKv) ==
  IF v = NoVoucher THEN Alloc(s, Blank)
  ELSE LET o == s.vs[v]
           base == IF o.base # NoVoucher THEN o.base ELSE v
           copy == [Blank EXCEPT !.act = o.act, !.prio = o.prio]
       IN IF withKv /\ o.kv # NoKv
          THEN Alloc(Retain(s, base), [copy EXCEPT !.base = base, !.kv = s.vs[base].kv,
                                                   !.imp = s.vs[base].imp])
          ELSE Alloc(Touch(s, v), copy)

\* _voucher_insert
Enter(s, v) ==
  IF s.vs[v].ipc = NoKv THEN s
  ELSE [CrashIf(s, Queued(s, v), "corruption") EXCEPT !.hash = <<v>> \o @]

\* _voucher_mach_recipe_init: what a kernel voucher made from base for the voucher
\* contains: the user data are replaced if there is an activity or a priority to store.
Recipe(base, act, prio) ==
  IF act = 0 /\ ~prio THEN base
  ELSE Kv((base.attrs \ {"user"}) \cup (IF prio THEN {"pth", "user"} ELSE {}), act)

---------------------------------------------------------------------------
\* A thread.  A call goes through the steps of at[t].do; a release it makes on the way
\* comes first.

Free(t) == at[t].r.v = NoVoucher
Is(t, pc) == at[t].do.pc = pc /\ Free(t)
Op(t, op) == Is(t, "next") /\ at[t].todo # <<>> /\ Head(at[t].todo) = op

Go(t, s, do) == vm' = s /\ at' = [at EXCEPT ![t].do = do] /\ UNCHANGED plan
\* The call returns: what the client owns after it.
Return(t, s, held) ==
  vm' = s /\ at' = [at EXCEPT ![t].do = Ready, ![t].todo = Tail(@), ![t].held = held]
  /\ UNCHANGED plan
Push(t, v) == Append(at[t].held, v)
Top(t) == Last(at[t].held)

\* The kernel may refuse to make a voucher, in the plans that say so.
Refusals == IF Plan.fails THEN BOOLEAN ELSE {FALSE}

IpcOrKv(v) == IF vm.vs[v].ipc # NoKv THEN vm.vs[v].ipc ELSE vm.vs[v].kv
TaskOr(kv) == IF kv # NoKv THEN kv ELSE vm.task

\* _voucher_release_inline, as a subroutine of whatever the thread does.
ReleaseDec(t) ==
  LET v == at[t].r.v
      s == [Touch(vm, v) EXCEPT !.vs[v].xref = @ - 1]
  IN /\ at[t].r.pc = "dec"
     /\ vm' = CrashIf(s, s.vs[v].xref < -1, "over-release")
     /\ at' = [at EXCEPT ![t].r = IF s.vs[v].xref >= 0 THEN NotReleasing
                                  ELSE [@ EXCEPT !.pc = "check"]]
     /\ UNCHANGED plan

\* _voucher_remove: looks without the lock whether there is anything to remove...
RemoveCheck(t) ==
  /\ at[t].r.pc = "check"
  /\ at' = [at EXCEPT ![t].r.pc = IF Queued(vm, at[t].r.v) THEN "remove" ELSE "unref"]
  /\ UNCHANGED <<plan, vm>>

\* ... and removes the voucher under it, unless it was found in the meantime.
RemoveQueued(t) ==
  LET v == at[t].r.v
      s == CrashIf(vm, vm.vs[v].ipc = NoKv, "corruption")
  IN /\ at[t].r.pc = "remove"
     /\ vm' = IF vm.vs[v].xref < 0 THEN [s EXCEPT !.hash = SelectSeq(@, LAMBDA w : w # v)] ELSE s
     /\ at' = [at EXCEPT ![t].r.pc = "unref"]
     /\ UNCHANGED plan

\* _voucher_dispose
Dispose(s, v) ==
  LET o == s.vs[v]
      s1 == CrashIf(s, Queued(s, v), "corruption")
      s2 == IF o.ipc # NoKv /\ o.ipc # o.kv THEN KDrop(s1, o.ipc) ELSE s1
      s3 == IF o.kv # NoKv /\ o.base = NoVoucher THEN KDrop(s2, o.kv) ELSE s2
  IN [s3 EXCEPT !.vs[v] = [Blank EXCEPT !.xref = -1, !.ref = -1, !.live = FALSE]]

\* _os_object_release_internal: the last internal reference disposes of the voucher, and
\* then of its reference to its base.
Unref(t) ==
  LET v == at[t].r.v
      s == [Touch(vm, v) EXCEPT !.vs[v].ref = @ - 1]
      base == s.vs[v].base
  IN /\ at[t].r.pc = "unref"
     /\ vm' = IF s.vs[v].ref >= 0 THEN s
              ELSE Dispose(CrashIf(s, s.vs[v].ref < -1, "over-release"), v)
     /\ at' = [at EXCEPT ![t].r = IF s.vs[v].ref >= 0 \/ base = NoVoucher THEN NotReleasing
                                  ELSE [v |-> base, pc |-> "dec"]]
     /\ UNCHANGED plan

Releasing(v) == IF v = NoVoucher THEN NotReleasing ELSE [v |-> v, pc |-> "dec"]

\* _voucher_swap_and_get_mach_voucher, _voucher_mach_voucher_set: the voucher of the
\* thread, and the kernel voucher of the thread if it is another.
Swap(a, s, v) ==
  LET kv == IF v = NoVoucher THEN NoKv ELSE s.vs[v].kv
      okv == IF a.cur = NoVoucher THEN NoKv ELSE s.vs[a.cur].kv
  IN [a EXCEPT !.cur = v, !.kernel = IF a.cur # v /\ kv # okv THEN kv ELSE @]

Swapped(s, t, v) ==
  LET s1 == IF v = NoVoucher THEN s ELSE Touch(s, v)
  IN IF v = NoVoucher \/ v = at[t].cur THEN s1 ELSE KUse(s1, s1.vs[v].kv)

\* Inserts the voucher made for the call, and goes on.
Insert(t) ==
  /\ Is(t, "insert")
  /\ Go(t, Enter(vm, at[t].do.v), [at[t].do EXCEPT !.pc = at[t].do.then])

\* The voucher made is the client's.
Give(t) ==
  /\ Is(t, "give")
  /\ Return(t, vm, Push(t, at[t].do.v))

---------------------------------------------------------------------------
\* voucher_mach_msg_adopt: a message is received with its voucher, if it has one.

ReceiveNone(t) ==
  /\ Op(t, "receive") /\ vm.mail # <<>> /\ Head(vm.mail).kv = NoKv
  /\ Return(t, [vm EXCEPT !.mail = Tail(@)], at[t].held)

\* _voucher_create_with_mach_voucher: the voucher of that kernel voucher, if there is one.
Receive(t) ==
  /\ Op(t, "receive") /\ vm.mail # <<>> /\ Head(vm.mail).kv # NoKv
  /\ LET k == Head(vm.mail).kv
         f == Find(KNew([vm EXCEPT !.mail = Tail(@)], k), k)
     IN IF f.v # NoVoucher
        THEN Go(t, KDrop(f.s, k), [Ready EXCEPT !.pc = "adopt", !.v = f.v])
        ELSE Go(t, f.s, [Ready EXCEPT !.pc = "build", !.kv = k,
                                      !.then = IF "imp" \in k.attrs THEN "raise" ELSE "no"])

\* Else a new one; an activity is taken out of the kernel voucher.
Build(t) ==
  LET k == at[t].do.kv
      v == [Blank EXCEPT !.kv = k, !.ipc = k, !.imp = at[t].do.then = "raise",
                         !.prio = "user" \in k.attrs, !.act = k.act]
      nkv == Kv(k.attrs \ {"user", "pth"}, 0)
      f == Find(KNew(vm, nkv), nkv)
      s1 == IF f.v # NoVoucher THEN KDrop(f.s, nkv) ELSE f.s
      stripped == [v EXCEPT !.ipc = NoKv, !.kv = nkv, !.base = f.v]
      next == [Ready EXCEPT !.pc = "insert", !.v = New(vm) + 1, !.then = "adopt"]
  IN /\ Is(t, "build")
     /\ \/ /\ k.act = 0 \/ TRUE \in Refusals
           /\ Go(t, Alloc(vm, v), next)
        \/ /\ k.act # 0
           /\ Go(t, KDrop(Alloc(s1, stripped), k), next)

\* _voucher_adopt: the voucher that was adopted before is the client's, to go back to.
AdoptMade(t) ==
  LET v == at[t].do.v
  IN /\ Is(t, "adopt")
     /\ vm' = Swapped(vm, t, v)
     /\ at' = [at EXCEPT ![t] = [Swap(@, vm, v) EXCEPT !.do = Ready, !.todo = Tail(@),
                                   !.held = Append(@, at[t].cur)]]
     /\ UNCHANGED plan

\* voucher_adopt: consumes the client's reference, and gives the one of the old voucher.
Adopt(t) ==
  /\ Op(t, "adopt")
  /\ vm' = Swapped(vm, t, Top(t))
  /\ at' = [at EXCEPT ![t] = [Swap(@, vm, Top(t)) EXCEPT !.todo = Tail(@),
                                !.held = Append(Front(@), at[t].cur)]]
  /\ UNCHANGED plan

\* voucher_mach_msg_revert: _voucher_replace
Revert(t) ==
  /\ Op(t, "revert")
  /\ vm' = Swapped(vm, t, Top(t))
  /\ at' = [at EXCEPT ![t] = [Swap(@, vm, Top(t)) EXCEPT !.todo = Tail(@), !.held = Front(@),
                                !.r = Releasing(at[t].cur)]]
  /\ UNCHANGED plan

\* voucher_release by the client
Drop(t) ==
  /\ Op(t, "drop")
  /\ at' = [at EXCEPT ![t].todo = Tail(@), ![t].held = Front(@), ![t].r = Releasing(Top(t))]
  /\ UNCHANGED <<plan, vm>>

---------------------------------------------------------------------------
\* Blocks.

\* _dispatch_continuation_voucher_set
Async(t) ==
  /\ Op(t, "async")
  /\ Return(t, [RetainAny(vm, at[t].cur) EXCEPT !.conts = Append(@, at[t].cur)], at[t].held)

\* _dispatch_continuation_voucher_adopt: with a reference to give away, in place of the
\* voucher of the thread.
Run(t) ==
  /\ Op(t, "run") /\ vm.conts # <<>>
  /\ LET v == Head(vm.conts)
         s == [vm EXCEPT !.conts = Tail(@)]
     IN IF v = at[t].cur
        THEN Return(t, IF v = NoVoucher THEN s ELSE ReleaseNoDispose(s, v), at[t].held)
        ELSE /\ vm' = Swapped(s, t, v)
             /\ at' = [at EXCEPT ![t] = [Swap(@, vm, v) EXCEPT !.todo = Tail(@),
                                           !.r = Releasing(at[t].cur)]]
             /\ UNCHANGED plan

\* _dispatch_block_invoke_direct: the voucher of the block, for the time it runs.
Perform(t) ==
  /\ Op(t, "perform")
  /\ vm' = Swapped(RetainAny(vm, Top(t)), t, Top(t))
  /\ at' = [at EXCEPT ![t] = [Swap(@, vm, Top(t)) EXCEPT !.todo = Tail(@),
                                !.saved = Append(@, at[t].cur)]]
  /\ UNCHANGED plan

\* _dispatch_reset_priority_and_voucher
Reset(t) ==
  /\ Op(t, "reset")
  /\ LET v == Last(at[t].saved)
         a == [at[t] EXCEPT !.todo = Tail(@), !.saved = Front(@)]
     IN IF v = at[t].cur
        THEN vm' = (IF v = NoVoucher THEN vm ELSE ReleaseNoDispose(vm, v)) /\ at' = [at EXCEPT ![t] = a]
        ELSE /\ vm' = Swapped(vm, t, v)
             /\ at' = [at EXCEPT ![t] = [Swap(a, vm, v) EXCEPT !.r = Releasing(at[t].cur)]]
  /\ UNCHANGED plan

---------------------------------------------------------------------------
\* voucher_mach_msg_set and mach_msg: the kernel voucher of the adopted voucher is sent.

\* _voucher_get_mach_voucher: the one it has, or the base one if it has nothing to add.
Send(t) ==
  LET v == at[t].cur
      o == vm.vs[v]
  IN /\ Op(t, "send")
     /\ Go(t, vm,
           IF v = NoVoucher THEN [Ready EXCEPT !.pc = "sent", !.kv = vm.task]
           ELSE IF o.ipc # NoKv THEN [Ready EXCEPT !.pc = "sent", !.kv = o.ipc]
           ELSE [Ready EXCEPT !.pc = IF o.act = 0 /\ ~o.prio THEN "sent" ELSE "make",
                              !.kv = TaskOr(o.kv)])

\* Else one is made of it...
Make(t) ==
  LET v == at[t].cur
      kv == Recipe(at[t].do.kv, vm.vs[v].act, vm.vs[v].prio)
      s == KUse(Touch(vm, v), at[t].do.kv)
  IN /\ Is(t, "make")
     /\ \/ Go(t, KNew(s, kv), [Ready EXCEPT !.pc = "publish", !.kv = kv])
        \/ TRUE \in Refusals /\ Go(t, s, [Ready EXCEPT !.pc = "sent"])

\* ... and is the voucher's, unless another thread came first; then it is entered.
Publish(t) ==
  LET v == at[t].cur
      kv == at[t].do.kv
      s == [vm EXCEPT !.vs[v].ipc = kv]
  IN /\ Is(t, "publish")
     /\ IF vm.vs[v].ipc # NoKv
        THEN Go(t, KDrop(vm, kv), [Ready EXCEPT !.pc = "sent", !.kv = vm.vs[v].ipc])
        ELSE Go(t, IF kv = vm.vs[v].kv THEN KDrop(s, kv) ELSE s,
                [Ready EXCEPT !.pc = "insert", !.v = v, !.kv = kv, !.then = "sent"])

\* The message goes, to a receiver of this process.
Sent(t) ==
  LET kv == at[t].do.kv
  IN /\ Is(t, "sent")
     /\ Return(t, [KUse(vm, kv) EXCEPT !.mail = Append(@, [kv |-> kv])], at[t].held)

\* _dispatch_mach_msg_send with a priority that is not the voucher's: a kernel voucher is
\* made for the message and moved with it.
SendPriority(t) ==
  LET v == at[t].cur
      o == vm.vs[v]
  IN /\ Op(t, "sendprio") /\ (v # NoVoucher => ~o.prio)
     /\ Go(t, vm, [Ready EXCEPT !.pc = "makeprio",
                                !.kv = IF v = NoVoucher THEN vm.task ELSE TaskOr(o.kv)])

SendSamePriority(t) ==
  /\ Op(t, "sendprio") /\ at[t].cur # NoVoucher /\ vm.vs[at[t].cur].prio
  /\ vm' = vm /\ at' = [at EXCEPT ![t].todo = <<"send">> \o Tail(@)] /\ UNCHANGED plan

\* The message is taken, or refused, or there is no room: then the kernel voucher comes
\* back and is kept for the time it is sent again.
MakePriority(t) ==
  LET v == at[t].cur
      kv == Recipe(at[t].do.kv, IF v = NoVoucher THEN 0 ELSE vm.vs[v].act, TRUE)
      s == KUse(vm, at[t].do.kv)
      f == Find(KNew(s, kv), kv)
  IN /\ Is(t, "makeprio")
     /\ \/ Return(t, [s EXCEPT !.mail = Append(@, [kv |-> kv])], at[t].held)
        \/ TRUE \in Refusals /\ Return(t, s, at[t].held)
        \/ /\ Plan.full
           /\ IF f.v # NoVoucher THEN Go(t, KDrop(f.s, kv), [Ready EXCEPT !.pc = "give", !.v = f.v])
              ELSE Go(t, f.s, [Ready EXCEPT !.pc = "keepprio", !.kv = kv])

\* _voucher_create_with_priority_and_mach_voucher
KeepPriority(t) ==
  LET kv == at[t].do.kv
      s == Clone(vm, at[t].cur, FALSE)
      n == New(s)
  IN /\ Is(t, "keepprio")
     /\ Go(t, [s EXCEPT !.vs[n].prio = TRUE, !.vs[n].kv = kv, !.vs[n].ipc = kv],
           [Ready EXCEPT !.pc = "insert", !.v = n, !.then = "give"])

---------------------------------------------------------------------------
\* Vouchers derived from the one adopted.

\* _voucher_create_without_importance of a voucher that has none
NoImportance(t) ==
  LET v == at[t].cur
  IN /\ Op(t, "noimp") /\ (v # NoVoucher => vm.vs[v].kv = NoKv \/ ~vm.vs[v].imp)
     /\ Return(t, [RetainAny(vm, v) EXCEPT !.copies = @ \cup {[of |-> v, copy |-> v]}], Push(t, v))

Derived(op, okv) ==
  IF op = "noimp" THEN Kv(okv.attrs \ {"imp"}, okv.act)
  ELSE Kv((okv.attrs \ Banks) \cup {"persona"}, okv.act)

\* _voucher_create_without_importance and voucher_copy_with_persona_mach_voucher: makes
\* the kernel voucher from the one that is sent, if there is one already, and looks for
\* its voucher.
Derive(t, op) ==
  LET v == at[t].cur
      okv == IF v = NoVoucher THEN NoKv ELSE IpcOrKv(v)
      s == KUse(vm, okv)
      found(kv) ==
        IF kv = okv THEN Return(t, Retain(IF kv = NoKv THEN s ELSE KDrop(KNew(s, kv), kv), v), Push(t, v))
        ELSE LET f == Find(KNew(s, kv), kv)
             IN Go(t, f.s, [Ready EXCEPT !.pc = "derived", !.kv = kv, !.base = f.v])
  IN /\ Op(t, op)
     /\ op = "noimp" => v # NoVoucher /\ vm.vs[v].kv # NoKv /\ vm.vs[v].imp
     /\ \/ Derived(op, okv) # NoKv /\ found(Derived(op, okv))
        \/ /\ TRUE \in Refusals \/ Derived(op, okv) = NoKv
           /\ IF op = "noimp" /\ vm.vs[v].ipc # NoKv THEN Return(t, s, Push(t, NoVoucher))
              ELSE found(NoKv) \/ (op = "persona" /\ Return(t, s, Push(t, NoVoucher)))

HasIpc(t) == IF at[t].cur = NoVoucher THEN Head(at[t].todo) = "persona" ELSE vm.vs[at[t].cur].ipc # NoKv

\* The voucher found is the one, if it stands for what is sent.
DeriveFound(t) ==
  LET d == at[t].do
  IN /\ Is(t, "derived")
     /\ IF d.base # NoVoucher /\ HasIpc(t)
        THEN Return(t, [KDrop(vm, d.kv) EXCEPT !.copies = @ \cup {[of |-> at[t].cur, copy |-> d.base]}],
                    Push(t, d.base))
        ELSE Go(t, vm, [d EXCEPT !.pc = "derive"])

\* Else a copy of the voucher stands for it, or borrows it from the voucher found.
DeriveNew(t) ==
  LET d == at[t].do
      s == Clone(vm, at[t].cur, FALSE)
      n == New(s)
      made == [s EXCEPT !.vs[n].kv = d.kv, !.copies = @ \cup {[of |-> at[t].cur, copy |-> n]}]
      next == [Ready EXCEPT !.pc = "insert", !.v = n, !.then = "give"]
  IN /\ Is(t, "derive")
     /\ IF HasIpc(t) THEN Go(t, [made EXCEPT !.vs[n].ipc = d.kv], next)
        ELSE IF d.base # NoVoucher
        THEN Go(t, KDrop([made EXCEPT !.vs[n].base = d.base], d.kv), next)
        ELSE Go(t, made, next)

\* _voucher_create_accounting_voucher of a voucher without attributes
NoAccount(t) ==
  /\ Op(t, "account") /\ (at[t].cur # NoVoucher => vm.vs[at[t].cur].kv = NoKv)
  /\ Return(t, vm, Push(t, NoVoucher))

Account(t) ==
  LET v == at[t].cur
      okv == IpcOrKv(v)
      kv == Kv(okv.attrs \cap Banks, 0)
      s == KUse(vm, okv)
      f == Find(KNew(s, kv), kv)
  IN /\ Op(t, "account") /\ v # NoVoucher /\ vm.vs[v].kv # NoKv
     /\ \/ /\ kv = NoKv \/ TRUE \in Refusals
           /\ Return(t, s, Push(t, NoVoucher))
        \/ /\ kv # NoKv
           /\ IF f.v # NoVoucher THEN Return(t, KDrop(f.s, kv), Push(t, f.v))
              ELSE Go(t, f.s, [Ready EXCEPT !.pc = "account", !.kv = kv,
                                            !.base = IF kv = okv THEN v ELSE NoVoucher])

AccountNew(t) ==
  LET d == at[t].do
      v == [Blank EXCEPT !.kv = d.kv, !.ipc = d.kv, !.base = d.base]
      s == IF d.base # NoVoucher THEN KDrop(Retain(vm, d.base), d.kv) ELSE vm
  IN /\ Is(t, "account")
     /\ Go(t, Alloc(s, v), [Ready EXCEPT !.pc = "insert", !.v = New(s) + 1, !.then = "give"])

---------------------------------------------------------------------------
\* voucher_activity_create: a copy of the voucher with an activity of its own.

\* _voucher_activity_id_allocate: the next identifier, unless the range is used up.
ActivityId(t) ==
  /\ Op(t, "activity")
  /\ IF vm.aid = 0 \/ (vm.aid + 1) % IdRange = 0
     THEN Go(t, [vm EXCEPT !.generated = @ + 1],
             [Ready EXCEPT !.pc = "range", !.v = vm.aid, !.base = (vm.generated + 1) * IdRange])
     ELSE Go(t, [vm EXCEPT !.aid = @ + 1], [Ready EXCEPT !.pc = "activity", !.v = vm.aid])

\* _voucher_activity_id_allocate_slow: another range; who replaces one takes what was next
\* in it.
ActivityRange(t) ==
  LET d == at[t].do
  IN /\ Is(t, "range")
     /\ IF d.v = 0 /\ vm.aid = 0
        THEN Go(t, [vm EXCEPT !.aid = d.base + 1], [Ready EXCEPT !.pc = "activity", !.v = d.base])
        ELSE Go(t, [vm EXCEPT !.aid = d.base], [Ready EXCEPT !.pc = "activity", !.v = vm.aid])

Activity(t) ==
  LET s == Clone(vm, at[t].cur, TRUE)
      n == New(s)
  IN /\ Is(t, "activity")
     /\ Return(t, [s EXCEPT !.vs[n].act = at[t].do.v, !.ids = Append(@, at[t].do.v)], Push(t, n))

\* voucher_replace_default_voucher: the accounting of the adopted voucher is the task's,
\* in place of the default.
ReplaceDefault(t) ==
  LET v == at[t].cur
      kv == IF v = NoVoucher THEN NoKv ELSE Kv(IpcOrKv(v).attrs \cap Banks, 0)
      s == KNew(IF v = NoVoucher THEN vm ELSE KUse(vm, IpcOrKv(v)), kv)
      task == IF kv = NoKv THEN Default ELSE kv
      s1 == [s EXCEPT !.task = task]
  IN /\ Op(t, "replace")
     /\ Return(t, IF vm.task # Default THEN KDrop(s1, vm.task) ELSE s1, at[t].held)

---------------------------------------------------------------------------
\* At the end the client releases what it owns, and _voucher_thread_cleanup what is
\* adopted; the kernel's is forgotten with the thread.
Finish(t) ==
  LET a == at[t]
  IN /\ Is(t, "next") /\ a.todo = <<>> /\ (a.held # <<>> \/ a.cur # NoVoucher)
     /\ at' = [at EXCEPT ![t] =
                 IF a.held # <<>> THEN [a EXCEPT !.held = Front(@), !.r = Releasing(Last(a.held))]
                 ELSE [a EXCEPT !.cur = NoVoucher, !.kernel = NoKv, !.r = Releasing(a.cur)]]
     /\ UNCHANGED <<plan, vm>>

Step(t) ==
  \/ ReleaseDec(t) \/ RemoveCheck(t) \/ RemoveQueued(t) \/ Unref(t)
  \/ Insert(t) \/ Give(t) \/ ReceiveNone(t) \/ Receive(t) \/ Build(t) \/ AdoptMade(t)
  \/ Adopt(t) \/ Revert(t) \/ Drop(t) \/ Async(t) \/ Run(t) \/ Perform(t) \/ Reset(t)
  \/ Send(t) \/ Make(t) \/ Publish(t) \/ Sent(t)
  \/ SendPriority(t) \/ SendSamePriority(t) \/ MakePriority(t) \/ KeepPriority(t)
  \/ NoImportance(t) \/ Derive(t, "noimp") \/ Derive(t, "persona") \/ DeriveFound(t) \/ DeriveNew(t)
  \/ NoAccount(t) \/ Account(t) \/ AccountNew(t)
  \/ ActivityId(t) \/ ActivityRange(t) \/ Activity(t) \/ ReplaceDefault(t) \/ Finish(t)

VoucherNext == \E t \in Threads : Step(t)

VoucherSpec == VoucherInit /\ [][VoucherNext]_voucherVars

---------------------------------------------------------------------------
\* Correctness.

Live == {v \in DOMAIN vm.vs : vm.vs[v].live}

\* The hash has only vouchers that can still be found, once each.
HashIsSound ==
  /\ IsInjective(vm.hash)
  /\ \A v \in ToSet(vm.hash) : v \in Live /\ vm.vs[v].ipc # NoKv

\* The kernel vouchers of a voucher are not let go under it.
KernelVouchersAreHeld ==
  \A v \in Live : \A k \in {vm.vs[v].kv, vm.vs[v].ipc} \ {NoKv} : BagIn(k, vm.urefs)

\* The kernel has for a thread the kernel voucher of the voucher the thread has adopted.
KernelFollows ==
  \A t \in Threads : at[t].cur # NoVoucher => at[t].kernel = vm.vs[at[t].cur].kv

\* Two activities never have the same identifier.
ActivitiesAreDistinct == IsInjective(vm.ids)

\* When every thread is gone and no block is left, nothing is left of the vouchers but the
\* kernel voucher of the task.
Gone(t) == Free(t) /\ at[t].do = Ready /\ at[t].todo = <<>> /\ at[t].held = <<>> /\ at[t].cur = NoVoucher
NothingIsLeaked ==
  (\A t \in Threads : Gone(t)) /\ vm.conts = <<>>
     => /\ Live = {}
        /\ vm.hash = <<>>
        /\ vm.urefs = SetToBag({Default, vm.task})

\* voucher_copy_without_importance: the copy has all the properties of the voucher but
\* its importance: also in what is sent with it.
CopiesKeepProperties ==
  \A c \in vm.copies :
     (c.of # NoVoucher /\ c.of \in Live /\ c.copy \in Live)
       => LET o == vm.vs[c.of]
              n == vm.vs[c.copy]
          IN /\ n.act = o.act /\ n.prio = o.prio
             /\ n.ipc # NoKv => n.ipc.act = n.act
             /\ "imp" \notin n.kv.attrs

VoucherIsSound ==
  /\ vm.crash = "no"
  /\ HashIsSound
  /\ KernelVouchersAreHeld
  /\ KernelFollows
  /\ ActivitiesAreDistinct
  /\ NothingIsLeaked
=============================================================================
