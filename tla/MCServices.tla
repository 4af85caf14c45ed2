------------------------------ MODULE MCServices ------------------------------
(* Small instances for TLC: channels of dispatch I/O, the event loop, lanes    *)
(* and sources that are suspended, activated and given a new target,           *)
(* workloops, and vouchers.  A behaviour is about one of them, the variable    *)
(* object says which; they share the variables of IoChannel, which the others  *)
(* rename.                                                                     *)
EXTENDS IoChannel, TLC

CONSTANTS
  c1, c2, e1, e2, o1, o2, o3, k1, k2, k3, th1, th2, th3, q1, q2, wk, a1, b1,
  Objects,  \* what a behaviour may be about
  Watched,  \* the plans of EventLoop
  Suspends, \* of Suspend
  Workloops, Vouchers

VARIABLES object, manager, threads

MCChannels == {c1, c2}
MCEntries == {e1, e2}
MCOps == {o1, o2, o3}

\* What is done with a file of a kind, with bounds of channels, operations, calls.
FileUse(kind, path, types, mark, timers, dirs, lengths, bounds) ==
  [kind |-> kind, path |-> path, types |-> types,
   marks |-> {[low |-> mark[1], high |-> mark[2]]},
   timers |-> timers, dirs |-> dirs, lengths |-> lengths,
   channels |-> bounds[1], ops |-> bounds[2], calls |-> bounds[3]]

MCFiles == <<
  FileUse("stream", FALSE, {"stream"}, <<1, 2>>, {"none"}, {"read"}, {1}, <<1, 2, 1>>),
  FileUse("disk", FALSE, {"stream"}, <<1, 2>>, {"none"}, {"read"}, {1}, <<1, 2, 0>>),
  FileUse("disk", FALSE, {"stream"}, <<2, 3>>, {"none"}, {"read"}, {2}, <<1, 2, 0>>),
  FileUse("disk", FALSE, {"random"}, <<2, 3>>, {"none"}, {"read"}, {2}, <<1, 2, 0>>),
  FileUse("stream", FALSE, {"random"}, <<1, 2>>, {"none"}, {"read"}, {1}, <<2, 1, 0>>),
  FileUse("disk", FALSE, {"random"}, <<1, 2>>, {"none"}, {"write"}, {2}, <<2, 1, 0>>),
  FileUse("stream", FALSE, {"stream"}, <<2, 3>>, {"strict"}, {"read", "write"}, {3}, <<1, 1, 1>>),
  FileUse("disk", FALSE, {"stream"}, <<2, 3>>, {"interval"}, {"read", "write"}, {3}, <<1, 1, 1>>),
  FileUse("stream", TRUE, {"stream"}, <<1, 2>>, {"none"}, {"read"}, {1}, <<2, 1, 1>>),
  FileUse("disk", TRUE, {"random"}, <<1, 2>>, {"none"}, {"read"}, {2}, <<2, 2, 0>>)>>

\* TLC evaluates MCFiles once, but what the cfg substitutes for a constant each time.
MCUses == MCFiles

Reg(u) == [op |-> "register", u |-> u]
Unreg(u) == [op |-> "unregister", u |-> u]
Send(u) == [op |-> "send", u |-> u]
On(ident, what) == [ident |-> ident, what |-> what]
Unote(ident, fflags) == [ident |-> ident, fflags |-> fflags]

\* What is watched by two clients and what happens: files and a process, a descriptor on
\* two sources, a process and a timer, a port, a port and a file.
MCWatches == <<
 [zombie |-> FALSE, timer |-> {}, mode |-> "thread", kinds |-> [vnode |-> "clear", pid |-> "proc"],
  blocks |-> [vnode |-> {a1}, pid |-> {b1}],
  unotes |-> [u1 |-> Unote("vnode", {"write"}), u2 |-> Unote("vnode", {"write", "link"}), u3 |-> Unote("pid", {"exit"})],
  scripts |-> th1 :> <<Reg("u1"), Reg("u2"), Unreg("u2"), Reg("u2")>> @@ th2 :> <<Reg("u3"), Unreg("u1")>>,
  happens |-> <<On("vnode", "write"), On("vnode", "link"), On("pid", "exit")>>],
 [zombie |-> FALSE, timer |-> {}, mode |-> "thread", kinds |-> [fd |-> "dispatch"], blocks |-> [fd |-> {a1}],
  unotes |-> [u1 |-> Unote("fd", {}), u2 |-> Unote("fd", {})],
  scripts |-> th1 :> <<Reg("u1")>> @@ th2 :> <<Reg("u2")>>,
  happens |-> <<On("fd", "data"), On("fd", "data")>>],
 [zombie |-> FALSE, timer |-> {Unreg("u4")}, mode |-> "thread", kinds |-> [pid |-> "proc"], blocks |-> [pid |-> {b1}],
  unotes |-> [u3 |-> Unote("pid", {"exit"}), u4 |-> Unote("pid", {"fork", "exit"})],
  scripts |-> th1 :> <<Reg("u3")>> @@ th2 :> <<Reg("u4"), Unreg("u3")>>,
  happens |-> <<On("pid", "fork"), On("pid", "exit")>>],
 [zombie |-> FALSE, timer |-> {}, mode |-> "workq", kinds |-> [port |-> "port"],
  blocks |-> [port |-> {a1}],
  unotes |-> [u1 |-> Unote("port", {"possible", "dead"}), u2 |-> Unote("port", {"possible", "dead"}), u3 |-> Unote("port", {"dead"})],
  scripts |-> th1 :> <<Reg("u1"), Send("u1"), Reg("u3")>> @@ th2 :> <<Reg("u2"), Send("u2"), Unreg("u2")>>,
  happens |-> <<On("port", "possible"), On("port", "possible"), On("port", "dead")>>],
 [zombie |-> FALSE, timer |-> {Send("u1")}, mode |-> "workq", kinds |-> [port |-> "port", vnode |-> "clear"],
  blocks |-> [port |-> {a1}, vnode |-> {b1}],
  unotes |-> [u1 |-> Unote("port", {"possible", "dead"}), u2 |-> Unote("vnode", {"write"})],
  scripts |-> th1 :> <<Reg("u1"), Send("u1"), [op |-> "again", then |-> "send", u |-> "u1"]>>
          @@ th2 :> <<[op |-> "again", then |-> "register", u |-> "u2"], Unreg("u2")>>,
  happens |-> <<On("port", "possible"), On("vnode", "write")>>] >>

MCWatched == MCWatches

Loop == INSTANCE EventLoop WITH
          Clients <- {th1, th2}, Worker <- wk, MaxEvents <- 2, Batch <- 2,
          Plans <- Watched, plan <- use, loop <- io, mgr <- manager, at <- threads

Op(o) == [op |-> o, to |-> Null]
To(q) == [op |-> "target", to |-> q]
Holding == Op("suspend")
Freeing == Op("resume")
Submitting == Op("async")

\* The calls of three clients on a queue or a source, active or inactive at first.
Asked(source, inactive, a, b, c) ==
  [source |-> source, inactive |-> inactive, target |-> q1,
   calls |-> (k1 :> a) @@ (k2 :> b) @@ (k3 :> c)]

MCSuspended == <<
  Asked(FALSE, FALSE, <<Holding, Holding, Holding, Freeing, Freeing, Freeing>>,
       <<Holding, Freeing, Holding, Freeing>>, <<Submitting, Submitting>>),
  Asked(FALSE, FALSE, <<To(q2), Submitting, Op("drop")>>, <<Submitting>>, <<Holding, Freeing>>),
  Asked(FALSE, TRUE, <<To(q2), Op("activate"), Submitting>>, <<Holding, Submitting, Freeing>>,
       <<Op("activate")>>),
  Asked(TRUE, TRUE, <<Op("activate"), To(q2), Holding, Freeing>>,
       <<Op("event"), Op("event")>>, <<>>),
  Asked(TRUE, TRUE, <<To(q2), Op("activate")>>, <<Holding, Freeing, Op("activate")>>, <<>>),
  Asked(TRUE, TRUE, <<To(q2), Freeing, Op("event")>>, <<Op("event")>>, <<>>),
  Asked(FALSE, FALSE, <<Submitting, To(q2), Submitting>>, <<Holding, Holding, Freeing, Freeing>>, <<>>)>>

\* TLC evaluates MCSuspended once, but what the cfg substitutes for a constant each time.
MCSuspends == MCSuspended

\* A source is activated while another thread suspends and resumes it.
MCOver ==
  <<Asked(TRUE, TRUE, <<Op("activate")>>, <<Op("event")>>, <<Holding, Freeing>>)>>

SU == INSTANCE Suspend WITH
        Clients <- {k1, k2, k3}, Targets <- {q1, q2}, Half <- 2, Plans <- Suspends,
        plan <- use, lane <- io, tokens <- manager, at <- threads

Item(by, how, qos) == [by |-> by, how |-> how, qos |-> qos]

\* The items of a workloop: who submits each, how, and in which bucket.
MCWorked == <<
  <<Item(k1, "async", 1), Item(k2, "sync", 2), Item(k1, "sync", 1), Item(k2, "async", 1)>>,
  <<Item(k1, "sync", 1), Item(k2, "wait", 1), Item(k3, "async", 2)>>,
  <<Item(k1, "async", 1), Item(k2, "wait", 1), Item(k1, "sync", 2)>>,
  <<Item(wk, "event", 1), Item(k1, "wait", 2), Item(k2, "sync", 1)>>,
  <<Item(wk, "event", 2), Item(k1, "async", 2), Item(k1, "async", 1), Item(k2, "async", 1)>>,
  <<Item(k1, "sync", 1), Item(k1, "wait", 1), Item(k2, "sync", 2)>>>>

MCWorkloops == MCWorked

WL == INSTANCE Workloop WITH
        Clients <- {k1, k2, k3}, Servicer <- wk, Qos <- 2, Plans <- Workloops,
        plan <- use, wl <- io, kq <- manager, at <- threads

\* Messages that come in: their kernel vouchers, of another process.
Incoming(attrs, act) == [kv |-> [attrs |-> attrs, act |-> act]]
Important == Incoming({"other", "imp"}, 0)
Active == Incoming({"other", "imp", "user"}, 9)
Prioritized == Incoming({"other", "pth", "user"}, 0)

\* What three threads do with vouchers; the kernel may fail to make one; the priority
\* of a message may have to be in its voucher.
Carried(mail, a, b, c) ==
  [fails |-> FALSE, full |-> FALSE, mail |-> mail,
   scripts |-> (th1 :> a) @@ (th2 :> b) @@ (th3 :> c)]
Failing(p) == [p EXCEPT !.fails = TRUE]
Full(p) == [p EXCEPT !.full = TRUE]

MCCarried == <<
  Carried(<<Important, Important>>,
       <<"receive", "activity", "adopt", "async", "send">>, <<"run", "send">>, <<"receive">>),
  Failing(Carried(<<Important, Active>>,
               <<"receive", "noimp", "drop">>, <<"receive", "noimp", "revert">>, <<>>)),
  Failing(Carried(<<Important, Active>>, <<"receive", "account">>, <<"receive", "persona">>, <<>>)),
  Full(Carried(<<Prioritized, Active>>,
            <<"receive", "sendprio", "perform", "reset">>, <<"receive", "persona", "send">>, <<>>)),
  Full(Carried(<<Prioritized>>, <<"sendprio", "sendprio">>, <<"receive">>, <<"receive">>)),
  Carried(<<Important>>,
       <<"activity", "adopt", "async">>, <<"activity", "adopt">>, <<"activity">>),
  Carried(<<Important, Important, Important>>,
       <<"receive", "revert">>, <<"receive", "revert">>, <<"receive", "replace">>)>>

MCVouchers == MCCarried

\* A voucher is copied while another thread gives it its own kernel voucher.
MCCopied == <<
  Carried(<<Important>>,
       <<"receive", "activity", "adopt", "async", "noimp">>, <<"run", "send">>, <<>>)>>

VU == INSTANCE Voucher WITH
        Threads <- {th1, th2, th3}, IdRange <- 2, Plans <- Vouchers,
        plan <- use, vm <- io, at <- threads

MCInit ==
  /\ object \in Objects
  /\ \/ object = "io" /\ IoInit /\ manager = 0 /\ threads = 0
     \/ object = "loop" /\ Loop!LoopInit
     \/ object = "suspend" /\ SU!SuspendInit
     \/ object = "workloop" /\ WL!WorkloopInit
     \/ object = "voucher" /\ VU!VoucherInit /\ manager = 0

MCNext ==
  \/ object = "io" /\ IoNext /\ UNCHANGED <<object, manager, threads>>
  \/ object = "loop" /\ Loop!LoopNext /\ UNCHANGED object
  \/ object = "suspend" /\ SU!SuspendNext /\ UNCHANGED object
  \/ object = "workloop" /\ WL!WorkloopNext /\ UNCHANGED object
  \/ object = "voucher" /\ VU!VoucherNext /\ UNCHANGED <<object, manager>>

MCSpec == MCInit /\ [][MCNext]_<<object, ioVars, manager, threads>>

\* Channels deliver what was read or written once and in order, an operation is done
\* once, a barrier runs alone, and the cleanup handler comes last.
IoChannelsAreSound == object = "io" => IoIsSound

\* What the event loop watches in the kernel is what is registered, each event goes to
\* those who asked for it, and nobody hears of one after the unregistration.
EventLoopIsSound == object = "loop" => Loop!LoopIsSound


\* The references of the creator of a queue are not released by who resumes it.
CreatorKeepsItsReference == object = "suspend" => SU!CreatorKeepsItsReference

\* Vouchers that threads adopt, derive and send are found again by their kernel
\* vouchers as long as they live, hold these, and leave nothing behind.
VouchersAreSound == object = "voucher" => VU!VoucherIsSound

\* A copy of a voucher without its importance has its other properties.
CopiesKeepProperties == object = "voucher" => VU!CopiesKeepProperties
=============================================================================
