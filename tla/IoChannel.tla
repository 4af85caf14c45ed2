----------------------------- MODULE IoChannel -----------------------------
(* Dispatch I/O (io.c) on one file: channels, their operations, the entry   *)
(* of the file descriptor, its streams or the disk it is on, barriers and   *)
(* cleanup handlers.                                                        *)
(*                                                                          *)
(* Everything io.c does it does in blocks on serial queues: the queue of    *)
(* the channel, the barrier queue of the descriptor (or the channel's own   *)
(* if it got no descriptor), the queue of a stream or of a disk, the lock   *)
(* queue of the table of descriptors with the close queue of each entry on  *)
(* top of it, and a queue for the handlers of each operation.  A block is a *)
(* tuple <<name, what it is about>>, a queue the sequence of its blocks, and *)
(* to run a block is one step.  The references to an entry are the          *)
(* suspensions of its close queue.                                          *)
(*                                                                          *)
(* The data itself, the read advice and the priorities are left out; data   *)
(* are counted in bytes, in regions of one.                                 *)
EXTENDS Integers, Sequences, SequencesExt, FiniteSets

CONSTANTS
  Channels, Entries, Ops,   \* bounds: those there will be
  Null,
  Dirs,       \* of operations: "read", "write"
  Chunk,      \* dispatch_io_defaults.chunk_size
  Depth,      \* dispatch_io_defaults.max_pending_io_reqs
  Uses,       \* a sequence of what is done with a file: its kind ("stream" or
              \* "disk"), if channels are made for its path, the types of channels ("stream", "random"), the water
              \* marks, the intervals ("none", "interval", "strict"), dirs and
              \* lengths of operations, and the bounds: the number of channels, of
              \* ops and of calls of close, stop and barrier
  Liberties   \* what the code does not cope with: "stop", to stop a channel
              \* while others use the stream, or a closed one of a path; "badf", an operation that the
              \* descriptor is not open for, with other operations or a
              \* barrier under way

ASSUME IoAssumption ==
  /\ Null \notin Channels \cup Entries \cup Ops
  /\ Depth \in Nat \ {0} /\ Chunk \in Nat \ {0}
  /\ \A u \in DOMAIN Uses : /\ Uses[u].dirs \subseteq Dirs
                           /\ \A m \in Uses[u].marks : m.low <= m.high /\ m.high > 0

VARIABLES use, io

ioVars == <<use, io>>

Use == Uses[use]

Barriers == Entries \cup Channels

NewOp == [state |-> "new", ch |-> Null, e |-> Null, dir |-> "read", type |-> "stream",
          low |-> 0, high |-> 0, timer |-> "none", len |-> 0, total |-> 0, siz |-> 0,
          buf |-> 0, mapped |-> FALSE, data |-> 0, undel |-> 0, err |-> "no",
          flag |-> FALSE, refs |-> 0, active |-> FALSE, ended |-> FALSE, out |-> <<>>]

NewStream == [q |-> <<>>, random |-> <<>>, stream |-> <<>>, op |-> Null,
              running |-> FALSE, source |-> "absent"]

IoInit ==
  /\ use \in DOMAIN Uses
  /\ io = [ch |-> [c \in Channels |->
                     [xref |-> "none", q |-> <<>>, susp |-> TRUE, flags |-> {}, path |-> FALSE,
                      entry |-> Null, via |-> c, err |-> "no", type |-> "stream",
                      low |-> 0, high |-> 0, timer |-> "none", cleaned |-> 0]],
           fd |-> [e \in Entries |->
                     [state |-> "unused", refs |-> 0, closeq |-> <<>>, err |-> "no",
                      stream_ops |-> <<>>, fd |-> FALSE]],
           fds |-> <<>>, devs |-> <<>>,
           bq |-> [b \in Barriers |->
                     [q |-> <<>>, susp |-> FALSE, group |-> 0, barrier |-> "none"]],
           st |-> [e \in Entries |-> [d \in Dirs |-> NewStream]],
           disk |-> [q |-> <<>>, ops |-> <<>>, cur |-> Null,
                     ring |-> [i \in 0 .. Depth - 1 |-> Null], free |-> 0, req |-> 0,
                     advise |-> 0, active |-> FALSE, performing |-> FALSE],
           op |-> [o \in Ops |-> NewOp],
           told |-> [o \in Ops |-> [got |-> 0, done |-> FALSE, err |-> "no",
                                    late |-> FALSE, given |-> "no"]],
           env |-> [calls |-> 0, crash |-> "no", barrier |-> Null, earlier |-> {}]]

\* What has been scheduled on a queue runs in that order.
Async(w, c, block) == [w EXCEPT !.ch[c].q = Append(@, block)]
AsyncBarrier(w, b, block) == [w EXCEPT !.bq[b].q = Append(@, block)]
AsyncStream(w, e, d, block) == [w EXCEPT !.st[e][d].q = Append(@, block)]
AsyncDisk(w, block) == [w EXCEPT !.disk.q = Append(@, block)]
AsyncClose(w, e, block) == [w EXCEPT !.fd[e].closeq = Append(@, block)]

Retain(w, e) == [w EXCEPT !.fd[e].refs = @ + 1]
Release(w, e) == [w EXCEPT !.fd[e].refs = @ - 1]

Crash(w, what, if) == IF if THEN [w EXCEPT !.env.crash = what] ELSE w

\* The convenience channel of dispatch_read is never closed.
Flags(w, c) == IF c = Null THEN {} ELSE w.ch[c].flags

\* _dispatch_io_get_error, of a channel and of an operation.
ChannelError(w, c) ==
  IF c = Null THEN "no" ELSE IF w.ch[c].flags # {} THEN "canceled" ELSE w.ch[c].err

OpError(w, o) ==
  LET flags == Flags(w, w.op[o].ch)
  IN IF "stopped" \in flags THEN "canceled"
     ELSE IF flags # {} THEN "no" ELSE w.fd[w.op[o].e].err

-----------------------------------------------------------------------------
(* Delivery of data and the end of an operation                             *)

\* _dispatch_operation_deliver_data, flags from "deliver", "done", "no_empty".
\* Data stay with the operation until there are enough of them for the low-water
\* mark, the buffer is used up or somebody asks for them.
Deliver(w, o, flags) ==
  LET p == w.op[o]
      undelivered == p.undel + p.buf
      asked == flags \cap {"deliver", "done"} # {} \/ p.flag
      deliver == asked \/ undelivered >= p.low
      err == IF asked /\ p.err = "no" /\ "stopped" \in Flags(w, p.ch)
               THEN "canceled" ELSE p.err
      used == IF p.dir = "read" THEN p.buf > 0 ELSE p.mapped /\ p.buf = p.siz
      data == IF p.dir = "read" THEN p.data + p.buf ELSE p.data - p.buf
      kept == IF p.dir = "read" THEN IF deliver THEN 0 ELSE data
              ELSE IF used THEN data ELSE p.data
      quiet == ~deliver \/ ("no_empty" \in flags /\ data = 0)
      taken == [p EXCEPT !.flag = FALSE, !.err = IF asked THEN err ELSE @, !.data = kept,
                         !.mapped = @ /\ ~used, !.buf = IF used THEN 0 ELSE @,
                         !.undel = IF quiet THEN undelivered ELSE 0]
      call == [done |-> "done" \in flags, data |-> data,
               err |-> IF asked THEN err ELSE "no"]
  IN IF ~deliver /\ p.buf < p.siz THEN [w EXCEPT !.op[o].flag = FALSE]
     ELSE IF quiet THEN [w EXCEPT !.op[o] = taken]
     ELSE Retain([w EXCEPT !.op[o] = [taken EXCEPT !.out = Append(@, call)]], p.e)

\* The last reference to an operation goes: _dispatch_operation_dispose.
ReleaseOp(w, o) ==
  LET p == w.op[o]
      over == Crash(w, "Over-release of an operation", p.refs = 0)
      less == [over EXCEPT !.op[o].refs = @ - 1]
      told == Deliver(less, o, {"done"})
  IN IF p.refs # 1 THEN less
     ELSE IF p.e = Null THEN [less EXCEPT !.op[o].state = "gone"]
     ELSE Release([told EXCEPT !.op[o].state = "gone",
                               !.bq[p.e].group = @ - 1], p.e)

\* The block that calls the handler of an operation, on its queue op_q.  An error
\* comes without data, after what there was to read; what was written is not
\* returned.
Heard(t, p, call) ==
  LET read == p.dir = "read"
  IN [t EXCEPT !.got = IF read THEN @ + call.data
                       ELSE p.len - (IF call.done /\ call.err = "no" THEN 0 ELSE call.data),
               !.done = call.done, !.err = call.err, !.late = @ \/ t.done]

Handler(o) ==
  /\ io.op[o].out # <<>>
  /\ LET p == io.op[o]
         call == Head(p.out)
         w == [io EXCEPT !.op[o].out = Tail(@), !.told[o] = Heard(@, p, call)]
     IN io' = IF p.e = Null THEN w ELSE Release(w, p.e)
  /\ UNCHANGED use

-----------------------------------------------------------------------------
(* The operation on the file                                                *)

Least(a, b) == IF a < b THEN a ELSE b

\* The buffer of a read is at most a chunk and never takes the data past the high
\* water mark; a write takes as many regions as fit.
Buffered(w, o) ==
  LET p == w.op[o]
      siz == IF p.dir = "read"
               THEN Least(p.len - p.total, Least(p.high - p.data, Chunk))
               ELSE Least(p.data, Least(p.high, Chunk))
  IN IF p.mapped THEN w
     ELSE [Crash(w, "data_siz < max_buf_siz", p.dir = "read" /\ p.data >= p.high)
             EXCEPT !.op[o].siz = siz, !.op[o].mapped = TRUE]

\* External: what read(2) or write(2) may answer to a request of n bytes.  Others may
\* not take the file away, but it may be at its end, have nothing now, be broken, or
\* be open for the other direction.
Alone(w, o) == \A other \in Ops \ {o} : w.op[other].state \notin {"called", "open"}

Answers(w, o) ==
  LET p == w.op[o]
  IN {"io"} \cup (IF p.dir = "read" THEN {"eof"} ELSE {})
     \cup (IF Use.kind = "stream" THEN {"again"} ELSE {})
     \cup (IF "badf" \in Liberties \/ (Alone(w, o) /\ w.env.barrier = Null)
             THEN {"badf"} ELSE {})

\* _dispatch_fd_entry_open: the file of a path is opened by the first operation.
Opening(w, e) ==
  IF w.fd[e].fd \/ w.fd[e].err # "no" THEN {w}
  ELSE {[w EXCEPT !.fd[e].fd = TRUE], [w EXCEPT !.fd[e].err = "other"]}

\* _dispatch_operation_perform: what may become of it, with the result.
Tried(w, o) ==
  LET b == Buffered(w, o)
      p == b.op[o]
      Ended == [b EXCEPT !.op[o].ended = TRUE]    \* for the properties
      Fail(why) == [b EXCEPT !.op[o].err = why]
  IN      {[w |-> [b EXCEPT !.op[o].buf = @ + n, !.op[o].total = @ + n],
            result |-> IF p.total + n = p.len THEN "complete" ELSE "deliver"] :
              n \in 1 .. p.siz - p.buf}
       \cup {CASE a = "eof" -> [w |-> Ended, result |-> "deliver_and_complete"]
               [] a = "again" -> IF p.dir = "read" /\ p.total > 0 /\ p.ch = Null
                                   THEN [w |-> Ended, result |-> "complete_resume"]
                                   ELSE [w |-> b, result |-> "resume"]
               [] a = "io" -> [w |-> Fail("io"), result |-> "complete"]
               [] OTHER -> [w |-> [Fail("badf") EXCEPT !.fd[p.e].err = "badf"],
                            result |-> "fd_err"] : a \in Answers(w, o)}

Performed(w, o) ==
  UNION {LET err == OpError(x, o)
         IN IF err = "no" THEN Tried(x, o)
            ELSE {[w |-> [x EXCEPT !.op[o].err = err],
                   result |-> CASE err = "canceled" -> "err" [] err = "badf" -> "fd_err"
                                [] OTHER -> "complete"]} :
           x \in IF OpError(w, o) = "no" THEN Opening(w, w.op[o].e) ELSE {w}}

-----------------------------------------------------------------------------
(* A stream: its lists of operations and its source                         *)

Avail(s) == s.random # <<>> \/ s.stream # <<>>
Without(list, o) == SelectSeq(list, LAMBDA x : x # o)
In(list, o) == \E i \in DOMAIN list : list[i] = o

\* _dispatch_stream_complete_operation.
CompleteStream(w, e, d, o) ==
  LET type == w.op[o].type
      s == w.st[e][d]
      gone == [s EXCEPT ![type] = Without(@, o), !.op = IF @ = o THEN Null ELSE @]
      ok == Crash(w, "Operation completed twice", ~In(s[type], o))
  IN ReleaseOp([ok EXCEPT !.st[e][d] = gone, !.op[o].timer = "none"], o)

\* dispatch_resume and dispatch_suspend of the source.
ResumeSource(w, e, d) ==
  [Crash(w, "Over-resume of an object", w.st[e][d].source = "on")
     EXCEPT !.st[e][d].source = "on", !.st[e][d].running = TRUE]
SuspendSource(w, e, d) == [w EXCEPT !.st[e][d].source = "off", !.st[e][d].running = FALSE]

\* _dispatch_stream_cleanup_operations, of one channel or (Null) of all.
CleanupStream(w, e, d, c) ==
  LET s == w.st[e][d]
      theirs == SelectSeq(s.random \o s.stream, LAMBDA o : c = Null \/ w.op[o].ch = c)
      left == FoldLeft(LAMBDA x, o : CompleteStream(x, e, d, o), w, theirs)
  IN IF s.running /\ ~Avail(left.st[e][d]) THEN SuspendSource(left, e, d) ELSE left

\* _dispatch_stream_pick_next_operation: streams one after the other, random
\* operations in turn.
NextIn(list, o) ==
  LET later == {i \in DOMAIN list : \E j \in 1 .. i - 1 : list[j] = o}
  IN IF later = {} THEN Null ELSE list[CHOOSE i \in later : \A j \in later : i <= j]

PickStream(w, s) ==
  LET first == IF s.stream # <<>> THEN Head(s.stream)
               ELSE IF s.random # <<>> THEN Head(s.random) ELSE Null
  IN IF s.op = Null THEN first
     ELSE IF w.op[s.op].type = "stream" THEN s.op
     ELSE IF NextIn(s.random, s.op) # Null THEN NextIn(s.random, s.op)
     ELSE IF s.random # <<>> THEN Head(s.random) ELSE Null

Again(w, e, d) == IF Avail(w.st[e][d]) THEN AsyncStream(w, e, d, <<"handler", Null>>) ELSE w

CleanupFd(w, e, c) ==    \* _dispatch_fd_entry_cleanup_operations
  IF Use.kind = "disk" THEN AsyncDisk(Retain(w, e), <<"cleanup", c, e>>)
  ELSE FoldSet(LAMBDA d, x : AsyncStream(Retain(x, e), e, d, <<"cleanup", c>>), w,
               {d \in Dirs : w.st[e][d].source # "absent"})

\* What _dispatch_stream_handler does with the result of an operation.
StreamResult(w, e, d, o, result) ==
  CASE result = "deliver" -> Again(Deliver(w, o, {}), e, d)
    [] result = "deliver_and_complete" ->
         Again(CompleteStream(Deliver(w, o, {"deliver", "no_empty"}), e, d, o), e, d)
    [] result = "complete" -> Again(CompleteStream(w, e, d, o), e, d)
    [] result \in {"resume", "complete_resume"} ->
         LET x == IF result = "resume" THEN w ELSE CompleteStream(w, e, d, o)
         IN IF Avail(x.st[e][d]) THEN ResumeSource(x, e, d) ELSE x
    [] result = "err" -> CleanupStream(w, e, d, w.op[o].ch)
    [] OTHER -> AsyncBarrier(Retain(w, e), e, <<"fd_error", e>>)

\* _dispatch_stream_handler: an operation that has an error already is completed and
\* the next one is picked, again says so; otherwise it is performed.
StreamHandler(w, e, d) ==
  LET s == w.st[e][d]
      o == PickStream(w, s)
      err == OpError(w, o)
  IN IF o = Null THEN {[w |-> w, again |-> FALSE]}
     ELSE IF err # "no"
       THEN {[w |-> CompleteStream([w EXCEPT !.op[o].err = err], e, d, o), again |-> TRUE]}
     ELSE {[w |-> StreamResult(r.w, e, d, o, r.result), again |-> FALSE] :
             r \in Performed([w EXCEPT !.st[e][d].op = o], o)}

\* _dispatch_operation_should_enqueue.
Opened(w, o) ==
  IF OpError(w, o) # "no" THEN ReleaseOp([w EXCEPT !.op[o].err = OpError(w, o)], o)
  ELSE w

EnqueueStream(w, e, d, o) ==
  LET s == w.st[e][d]
      there == [w EXCEPT !.st[e][d][w.op[o].type] = Append(@, o)]
  IN IF OpError(w, o) # "no" THEN Opened(w, o)
     ELSE IF Avail(s) THEN there ELSE AsyncStream(there, e, d, <<"handler", Null>>)

\* A block on the queue of a stream.  A handler that comes after the stream was
\* disposed of does nothing.
StreamBlock(e, d) ==
  /\ io.st[e][d].q # <<>>
  /\ LET block == Head(io.st[e][d].q)
         rest == [io EXCEPT !.st[e][d].q = Tail(@)]
     IN CASE block[1] = "enqueue" -> io' = EnqueueStream(rest, e, d, block[2])
          [] block[1] = "cleanup" -> io' = Release(CleanupStream(rest, e, d, block[2]), e)
          [] io.st[e][d].source \in {"canceling", "freed"} -> io' = rest
          [] OTHER -> \E next \in StreamHandler(rest, e, d) :
                        io' = IF next.again THEN [next.w EXCEPT !.st[e][d].q =
                                                    <<block>> \o @] ELSE next.w
  /\ UNCHANGED use

\* The file is ready: _dispatch_stream_source_handler.
SourceFires(e, d) ==
  /\ io.st[e][d].source = "on"
  /\ LET off == SuspendSource(io, e, d)
     IN \E next \in StreamHandler(off, e, d) :
          io' = IF next.again THEN [next.w EXCEPT !.st[e][d].q =
                                      <<<<"handler", Null>>>> \o @] ELSE next.w
  /\ UNCHANGED use

-----------------------------------------------------------------------------
(* A disk: the operations of all its files in turn, with a ring of those    *)
(* that are to be performed next                                            *)

\* Faulty variant: the next stream operation of the descriptor is not put in the list.
CompleteDiskAlone(w, o) ==
  LET k == w.disk
      at == CHOOSE i \in DOMAIN k.ops : k.ops[i] = o
      cur == IF k.cur # o THEN k.cur ELSE IF at = 1 THEN Null ELSE k.ops[at - 1]
  IN IF ~In(k.ops, o) THEN Crash(w, "Operation completed twice", TRUE)
     ELSE ReleaseOp([w EXCEPT !.disk.cur = cur, !.disk.ops = Without(k.ops, o),
                              !.fd[w.op[o].e].stream_ops = Without(@, o)], o)

\* _dispatch_disk_complete_operation.  Of the stream operations of a descriptor only
\* the first is in the list of the disk.
CompleteDisk(w, o) ==
  LET p == w.op[o]
      k == w.disk
      at == CHOOSE i \in DOMAIN k.ops : k.ops[i] = o
      cur == IF k.cur # o THEN k.cur ELSE IF at = 1 THEN Null ELSE k.ops[at - 1]
      next == IF p.type = "stream" THEN NextIn(w.fd[p.e].stream_ops, o) ELSE Null
      ops == Without(k.ops, o) \o (IF next = Null THEN <<>> ELSE <<next>>)
  IN IF ~In(k.ops, o) THEN Crash(w, "Operation completed twice", TRUE)
     ELSE ReleaseOp([w EXCEPT !.disk.cur = cur, !.disk.ops = ops, !.op[o].timer = "none",
                              !.fd[p.e].stream_ops = Without(@, o)], o)

\* _dispatch_disk_cleanup_specified_operations.  The next operation is read before
\* one is completed: what that adds at the end of the list is seen unless it was
\* the last.
RECURSIVE CleanupDisk(_, _, _, _)
CleanupDisk(w, o, c, inactive) ==
  IF o = Null THEN w
  ELSE LET next == NextIn(w.disk.ops, o)
           spared == (inactive /\ w.op[o].active) \/ (c # Null /\ w.op[o].ch # c)
       IN CleanupDisk(IF spared THEN w ELSE CompleteDisk(w, o), next, c, inactive)

FirstOf(list) == IF list = <<>> THEN Null ELSE Head(list)

\* _dispatch_disk_pick_next_operation: the first in turn that is not active.
PickDisk(w) ==
  LET ops == w.disk.ops
      at == CHOOSE i \in DOMAIN ops : ops[i] = w.disk.cur
      turn == IF w.disk.cur = Null THEN <<FirstOf(ops)>>
              ELSE SubSeq(ops, at + 1, Len(ops)) \o SubSeq(ops, 1, at)
  IN IF ops = <<>> THEN Null ELSE FirstOf(SelectSeq(turn, LAMBDA o : ~w.op[o].active))

\* _dispatch_disk_handler: the free slots of the ring from i on are filled.
RECURSIVE Fill(_, _, _)
Fill(w, i, j) ==
  LET slot == i % Depth
      o == IF w.disk.ring[slot] = Null THEN PickDisk(w) ELSE Null
      picked == [w EXCEPT !.disk.cur = o]
  IN IF i > j \/ o = Null THEN [w EXCEPT !.disk.free = slot]
     ELSE IF OpError(w, o) # "no"
       THEN Fill(CompleteDisk([picked EXCEPT !.op[o].err = OpError(w, o)], o), i, j)
     ELSE Fill([picked EXCEPT !.disk.ring[slot] = o, !.op[o].active = TRUE,
                              !.op[o].refs = @ + 1], i + 1, j)

UpTo(i, j) == IF j <= i THEN j + Depth ELSE j

DiskHandler(w) ==
  LET k == w.disk
      full == Fill(w, k.free, UpTo(k.free, k.req))
      busy == full.disk.ring[k.req] # Null
  IN IF k.active THEN w
     ELSE [full EXCEPT !.disk.active = busy, !.disk.performing = busy]

\* _dispatch_disk_perform, on another queue: the advice goes on from where it was to
\* the free slot, then the first request is performed.
Advised(k) ==
  LET most == UpTo(k.advise, k.free) - k.advise
      ends == {n \in 0 .. most : n = most \/ k.ring[(k.advise + n) % Depth] = Null}
  IN (k.advise + (CHOOSE n \in ends : \A m \in ends : n <= m)) % Depth

DiskPerform ==
  /\ io.disk.performing
  /\ LET k == io.disk
         o == k.ring[k.req]
         to == Advised(k)
         w == Crash(io, "i%depth == free_idx", k.ring[to] = Null /\ to # k.free)
     IN \E r \in Performed(w, o) :
          io' = AsyncDisk([r.w EXCEPT !.disk.advise = to, !.disk.performing = FALSE,
                                      !.disk.ring[k.req] = Null,
                                      !.disk.req = (@ + 1) % Depth],
                          <<"performed", o, r.result>>)
  /\ UNCHANGED use

DiskResult(w, o, result) ==
  LET first == FirstOf(w.disk.ops)
  IN CASE result = "deliver" -> Deliver(w, o, {})
       [] result = "complete" -> CompleteDisk(w, o)
       [] result = "deliver_and_complete" ->
            CompleteDisk(Deliver(w, o, {"deliver", "no_empty"}), o)
       [] result = "err" -> CleanupDisk(w, first, w.op[o].ch, FALSE)
       [] OTHER -> CleanupDisk(w, first, Null, FALSE)

EnqueueDisk(w, o) ==
  LET p == w.op[o]
      e == p.e
      listed == [w EXCEPT !.disk.ops = Append(@, o)]
      waiting == p.type = "stream" /\ w.fd[e].stream_ops # <<>>
      there == IF waiting THEN w ELSE listed
  IN IF OpError(w, o) # "no" THEN Opened(w, o)
     ELSE DiskHandler(IF p.type = "stream"
                        THEN [there EXCEPT !.fd[e].stream_ops = Append(@, o)] ELSE there)

\* A block on the pick queue of the disk.
DiskBlock ==
  /\ io.disk.q # <<>>
  /\ LET block == Head(io.disk.q)
         rest == [io EXCEPT !.disk.q = Tail(@)]
         o == block[2]
     IN io' = CASE block[1] = "enqueue" -> EnqueueDisk(rest, o)
                [] block[1] = "cleanup" ->
                     Release(CleanupDisk(rest, FirstOf(rest.disk.ops), block[2], TRUE),
                             block[3])
                [] OTHER ->
                     LET x == DiskResult(rest, o, block[3])
                         idle == [x EXCEPT !.op[o].active = FALSE, !.disk.active = FALSE]
                     IN ReleaseOp(DiskHandler(idle), o)
  /\ UNCHANGED use

-----------------------------------------------------------------------------
(* The entry of a file descriptor                                           *)

NewEntry(w, e, state) ==
  [w EXCEPT !.fd[e] = [@ EXCEPT !.state = state, !.refs = 1,
                                !.closeq = <<<<"unlink", e>>, <<"free", e>>>>]]

NewStreams(w, e) ==
  IF Use.kind = "disk" THEN w
  ELSE [w EXCEPT !.st[e] = [d \in Dirs |-> [NewStream EXCEPT !.source = "none"]]]

\* _dispatch_fd_entry_init_async, on the lock queue of the table: the entry of the
\* descriptor is found, or made, and retained for a block on its barrier queue.
Listed(w) == {e \in Entries : w.fd[e].state = "listed"}

InitAsync(w, block) ==
  IF Listed(w) # {}
    THEN LET e == CHOOSE x \in Listed(w) : TRUE
         IN {AsyncBarrier(Retain(w, e), e, block)}
  ELSE LET new == {e \in Entries : w.fd[e].state = "unused"}
           e == CHOOSE x \in new : TRUE
           made == [NewEntry(w, e, "listed") EXCEPT !.fd[e].fd = TRUE]
       IN {AsyncBarrier(AsyncBarrier(made, e, <<"stat", e>>), e, block) : x \in new}

\* The first block on the barrier queue: the file is looked at, and its streams or
\* the entry of its disk are made.
Stat(w, e) == {[w EXCEPT !.fd[e].err = "other"], NewStreams(w, e)}

\* _dispatch_io_init and the resumption of the queue of a new channel.
NewChannel(w, c, e, err) ==
  LET block == <<"cleanup", c>>
      w1 == [w EXCEPT !.ch[c] = [@ EXCEPT !.susp = FALSE, !.err = err, !.entry = e,
                                          !.via = IF e = Null THEN c ELSE e]]
  IN IF err = "no" THEN AsyncClose(w1, e, block) ELSE Async(w1, c, block)

TypeError(w, c, e) ==
  IF w.fd[e].err # "no" THEN w.fd[e].err
  ELSE IF Use.kind = "stream" /\ w.ch[c].type = "random" THEN "other" ELSE "no"

\* dispatch_io_create_with_path: the file is looked at on the queue of the channel;
\* then, on the lock queue of devices, the channel gets an entry of its own.
StatPath(w, c) ==
  LET there == [w EXCEPT !.ch[c].susp = TRUE, !.devs = Append(@, c)]
      wrong == IF Use.kind = "stream" /\ w.ch[c].type = "random" THEN {} ELSE {there}
  IN {NewChannel(w, c, Null, "other")} \cup wrong

DevsBlock ==
  /\ io.devs # <<>>
  /\ LET c == Head(io.devs)
         rest == [io EXCEPT !.devs = Tail(@)]
         unused == {e \in Entries : io.fd[e].state = "unused"}
         new == CHOOSE e \in unused : TRUE
     IN /\ unused # {}
        /\ io' = NewChannel(NewStreams(NewEntry(rest, new, "path"), new), c, new, "no")
  /\ UNCHANGED use

\* What dispatch_io_create does when the entry is there: the channel keeps it, even
\* one that failed, and the reference it was found with is given up.
Created(w, c, e) ==
  Release(NewChannel(Retain(w, e), c, e, TypeError(w, c, e)), e)

\* dispatch_io_create_with_io, on the queue of the other channel, in, and then on its
\* barrier queue.
DeriveFirst(w, c, in) ==
  LET err == ChannelError(w, in)
  IN IF err # "no" THEN NewChannel(w, c, Null, err)
     ELSE AsyncBarrier(w, w.ch[in].via, <<"derive", c, in>>)

Derived(w, c, in) ==
  LET err == ChannelError(w, in)
      e == w.ch[in].entry
      all == IF err # "no" THEN err ELSE TypeError(w, c, e)
  IN IF all # "no" THEN NewChannel(w, c, Null, all)
     ELSE IF w.ch[in].path THEN [w EXCEPT !.ch[c].path = TRUE, !.devs = Append(@, c)]
     ELSE NewChannel(Retain(w, e), c, e, all)

\* A block on the close queue of an entry, when nobody needs the entry any more.
\* The streams are disposed of; a source keeps the entry until it is cancelled.
OnDisk(w) == {e \in Entries : w.fd[e].state \in {"listed", "path"}}

Unlink(w, e) ==
  LET busy == \/ \E d \in Dirs : Avail(w.st[e][d])
              \/ OnDisk(w) = {e} /\ (w.disk.ops # <<>> \/ w.disk.active)
      on == \E d \in Dirs : w.st[e][d].source = "on"
      sources == {d \in Dirs : w.st[e][d].source = "off"}
      x == Crash(Crash(w, "TAILQ_EMPTY", busy \/ w.fd[e].stream_ops # <<>>),
                 "Over-resume of an object", on)
  IN [x EXCEPT !.fd[e].state = "unlisted", !.fd[e].refs = Cardinality(sources),
               !.st[e] = [d \in Dirs |-> [@[d] EXCEPT !.source =
                            IF d \in sources THEN "canceling" ELSE "freed"]]]

CloseBlock(e) ==
  /\ io.fd[e].refs = 0 /\ io.fd[e].closeq # <<>>
  /\ LET block == Head(io.fd[e].closeq)
         rest == [io EXCEPT !.fd[e].closeq = Tail(@)]
     IN io' = CASE block[1] = "unlink" -> Unlink(rest, e)
                [] block[1] = "free" -> [rest EXCEPT !.fd[e].state = "freed"]
                [] block[1] = "user" -> [rest EXCEPT !.told[block[2]].given = "closed"]
                [] OTHER -> [rest EXCEPT !.ch[block[2]].cleaned = @ + 1]
  /\ UNCHANGED use

\* The cancel handler of the source of a stream.
SourceCancelled(e, d) ==
  /\ io.st[e][d].source = "canceling"
  /\ io' = Release([io EXCEPT !.st[e][d].source = "freed"], e)
  /\ UNCHANGED use

-----------------------------------------------------------------------------
(* The queues of channels, the barrier queues, the lock queue of the table  *)

\* _dispatch_operation_create, on the queue of the channel (for dispatch_read on the
\* barrier queue): an operation that fails at once is answered from the barrier queue.
Unlimited == 100    \* SIZE_MAX
Params(w, c) == IF c = Null THEN [type |-> "stream", low |-> Chunk, high |-> Unlimited,
                                  timer |-> "none"]
                ELSE w.ch[c]

CreateOp(w, o) ==
  LET p == w.op[o]
      m == Params(w, p.ch)
  IN [w EXCEPT !.op[o] =
        [p EXCEPT !.state = "open", !.refs = 1, !.type = m.type, !.low = m.low,
                  !.high = m.high, !.timer = m.timer,
                  !.data = IF p.dir = "read" THEN 0 ELSE p.len]]

Refused(w, o, err) ==
  [w EXCEPT !.op[o].state = "gone", !.op[o].refs = 0,
            !.op[o].out = <<[done |-> TRUE, err |-> err,
                             data |-> IF w.op[o].dir = "write" /\ err # "no"
                                        THEN w.op[o].len ELSE 0]>>]

OperationBlock(w, o) ==
  LET c == w.op[o].ch
      err == ChannelError(w, c)
  IN IF err # "no" \/ w.op[o].len = 0
       THEN AsyncBarrier([w EXCEPT !.op[o].err = err], w.ch[c].via, <<"refused", o>>)
     ELSE AsyncBarrier(CreateOp(w, o), w.ch[c].via, <<"enqueue", o>>)

\* _dispatch_operation_enqueue, on the barrier queue.
EnqueueOp(w, o, e) ==
  LET p == w.op[o]
      err == ChannelError(w, p.ch)
      x == Retain([w EXCEPT !.op[o].e = e, !.bq[e].group = @ + 1], e)
  IN IF err # "no" THEN Refused(w, o, err)
     ELSE IF Use.kind = "disk" THEN AsyncDisk(x, <<"enqueue", o>>)
     ELSE AsyncStream(x, e, p.dir, <<"enqueue", o>>)

\* What these do when the entry is there: the caller's handler is called when the entry
\* is closed.
ConvenienceBlock(w, o, e) ==
  IF w.fd[e].err # "no" THEN Refused(w, o, w.fd[e].err)
  ELSE EnqueueOp(AsyncClose([CreateOp(w, o) EXCEPT !.told[o].given = "due"], e, <<"user", o>>), o, e)

LeaveEntry(w, c) == Release([w EXCEPT !.ch[c].entry = Null], w.ch[c].entry)

\* The blocks of dispatch_io_close and of _dispatch_io_stop on the barrier queue.
CloseChannel(w, c) ==
  LET closed == [w EXCEPT !.ch[c].flags = {"closed"}]
  IN IF w.ch[c].flags # {} THEN w
     ELSE IF w.ch[c].entry = Null THEN closed ELSE LeaveEntry(closed, c)

StopChannel(w, c) ==
  LET e == w.ch[c].entry
      x == CleanupFd(w, e, c)
  IN IF e = Null
       THEN IF w.ch[c].path THEN w ELSE [w EXCEPT !.fds = Append(@, <<"stopped", c>>)]
     ELSE IF "closed" \in w.ch[c].flags THEN x ELSE LeaveEntry(x, c)

ChannelBlock(c) ==
  /\ io.ch[c].q # <<>> /\ ~io.ch[c].susp
  /\ LET block == Head(io.ch[c].q)
         rest == [io EXCEPT !.ch[c].q = Tail(@)]
     IN CASE block[1] = "operation" -> io' = OperationBlock(rest, block[2])
          [] block[1] = "derive" -> io' = DeriveFirst(rest, block[2], c)
          [] block[1] = "path" -> io' \in StatPath(rest, c)
          [] block[1] = "cleanup" -> io' = [rest EXCEPT !.ch[c].cleaned = @ + 1]
          [] OTHER -> io' = AsyncBarrier(rest, io.ch[c].via, block)
  /\ UNCHANGED use

\* A barrier suspends the queue until the operations under way are complete and it
\* has run.
BarrierBlock(b) ==
  /\ io.bq[b].q # <<>> /\ ~io.bq[b].susp
  /\ LET block == Head(io.bq[b].q)
         rest == [io EXCEPT !.bq[b].q = Tail(@)]
         what == block[1]
         o == block[2]
     IN CASE what = "stat" -> io' \in Stat(rest, b)
          [] what = "init" -> io' = Created(rest, block[2], b)
          [] what = "derive" -> io' = Derived(rest, block[2], block[3])
          [] what = "convenience" ->
               io' = Release(ConvenienceBlock(rest, o, b), b)
          [] what = "refused" -> io' = Refused(rest, o, rest.op[o].err)
          [] what = "enqueue" -> io' = EnqueueOp(rest, o, rest.ch[rest.op[o].ch].entry)
          [] what = "close" -> io' = CloseChannel(rest, block[2])
          [] what = "stop" -> io' = StopChannel(rest, block[2])
          [] what = "fd_error" -> io' = Release(CleanupFd(rest, b, Null), b)
          [] OTHER -> io' = [rest EXCEPT !.bq[b].susp = TRUE, !.bq[b].barrier = "waiting"]
  /\ UNCHANGED use

\* The group of operations is empty: the block of the barrier is submitted, and runs.
BarrierRuns(b) ==
  /\ io.bq[b].barrier = "waiting" /\ io.bq[b].group = 0
  /\ io' = [io EXCEPT !.bq[b].barrier = "running"]
  /\ UNCHANGED use

BarrierReturns(b) ==
  /\ io.bq[b].barrier = "running"
  /\ io' = [io EXCEPT !.bq[b].barrier = "none", !.bq[b].susp = FALSE]
  /\ UNCHANGED use

TableBlock ==
  /\ io.fds # <<>>
  /\ LET block == Head(io.fds)
         rest == [io EXCEPT !.fds = Tail(@)]
         e == CHOOSE x \in Listed(io) : TRUE
     IN IF block[1] # "stopped" THEN io' \in InitAsync(rest, block)
        ELSE io' = IF Listed(io) = {} THEN rest ELSE CleanupFd(rest, e, block[2])
  /\ UNCHANGED use

-----------------------------------------------------------------------------
(* Calls                                                                    *)

Held(c) == io.ch[c].xref = "held"
Fresh(c) == io.ch[c].xref = "none"
MoreChannels == Cardinality({c \in Channels : ~Fresh(c)}) < Use.channels

\* The policy of a channel is set before it is used.
Made(w, c, type, mark, timer) ==
  [w EXCEPT !.ch[c] = [@ EXCEPT !.xref = "held", !.type = type, !.low = mark.low,
                                !.high = mark.high, !.timer = timer]]

MayShare == "stop" \in Liberties \/ Use.kind = "disk" \/ \A c \in Channels : "stopped" \notin io.ch[c].flags

Create(c, type, mark, timer) ==    \* dispatch_io_create
  /\ Fresh(c) /\ MoreChannels /\ MayShare /\ ~Use.path
  /\ io' = [Made(io, c, type, mark, timer) EXCEPT !.fds = Append(@, <<"init", c>>)]
  /\ UNCHANGED use

CreateWithPath(c, type, mark, timer) ==
  /\ Fresh(c) /\ MoreChannels /\ Use.path
  /\ io' = [Made(io, c, type, mark, timer)
              EXCEPT !.ch[c].path = TRUE, !.ch[c].susp = FALSE, !.ch[c].q = <<<<"path", c>>>>]
  /\ UNCHANGED use

CreateWithIo(c, in, type, mark, timer) ==
  /\ Fresh(c) /\ MoreChannels /\ Held(in) /\ MayShare
  /\ io' = Async(Made(io, c, type, mark, timer), in, <<"derive", c>>)
  /\ UNCHANGED use

\* dispatch_io_read and dispatch_io_write; operations are used in order.
NextOp == CHOOSE o \in Ops : io.op[o].state = "new"
Called(w, o, c, dir, len) ==
  [w EXCEPT !.op[o] = [@ EXCEPT !.state = "called", !.ch = c, !.dir = dir, !.len = len],
            !.env.earlier = IF w.env.barrier = Null THEN @ \cup {o} ELSE @]

MoreOps == Cardinality({o \in Ops : io.op[o].state # "new"}) < Use.ops

Operate(c, dir, len) ==
  /\ Held(c) /\ MoreOps
  /\ io' = Async(Called(io, NextOp, c, dir, len), c, <<"operation", NextOp>>)
  /\ UNCHANGED use

\* dispatch_read and dispatch_write use a channel of the entry of its own.
Convenience(dir, len) ==
  /\ MoreOps /\ MayShare /\ ~Use.path /\ len > 0
  /\ io' = [Called(io, NextOp, Null, dir, len)
              EXCEPT !.fds = Append(@, <<"convenience", NextOp>>)]
  /\ UNCHANGED use

ConvenienceRead(len) == "read" \in Use.dirs /\ Convenience("read", len)
ConvenienceWrite(len) == "write" \in Use.dirs /\ Convenience("write", len)

More == io.env.calls < Use.calls
Count(w) == [w EXCEPT !.env.calls = @ + 1]

Close(c) ==
  /\ Held(c) /\ More /\ io.ch[c].flags = {}
  /\ io' = Count(Async(io, c, <<"close", c>>))
  /\ UNCHANGED use

\* The flag of a channel that is stopped is set at once.
OnlyUser(c) ==
  /\ \A d \in Channels \ {c} : Fresh(d)
  /\ \A o \in Ops : io.op[o].ch = c \/ io.op[o].state = "new"

Stop(c) ==
  /\ Held(c) /\ More /\ "stopped" \notin io.ch[c].flags
  /\ \/ "stop" \in Liberties
     \/ IF io.ch[c].path THEN io.ch[c].flags = {} ELSE Use.kind = "disk" \/ OnlyUser(c)
  /\ io' = Count(Async([io EXCEPT !.ch[c].flags = @ \cup {"stopped"}], c, <<"stop", c>>))
  /\ UNCHANGED use

Barrier(c) ==
  /\ Held(c) /\ More /\ io.env.barrier = Null
  /\ io' = Count(Async([io EXCEPT !.env.barrier = c], c, <<"barrier", c>>))
  /\ UNCHANGED use

XrefRelease(c) ==
  /\ Held(c)
  /\ io' = [io EXCEPT !.ch[c].xref = "gone"]
  /\ UNCHANGED use

\* _dispatch_io_dispose, when no block and no operation holds the channel any more.
Mentions(q, c) == \E i \in DOMAIN q : \E j \in 2 .. Len(q[i]) : q[i][j] = c
Unused(c) ==
  /\ io.ch[c].q = <<>>
  /\ ~Mentions(io.fds, c) /\ ~Mentions(io.disk.q, c) /\ ~In(io.devs, c)
  /\ \A b \in Barriers : ~Mentions(io.bq[b].q, c)
  /\ \A d \in Channels : ~Mentions(io.ch[d].q, c)
  /\ \A e \in Entries, d \in Dirs : ~Mentions(io.st[e][d].q, c)
  /\ \A o \in Ops : io.op[o].ch = c =>
       io.op[o].state \notin {"called", "open"} /\ io.op[o].out = <<>>
  /\ io.bq[io.ch[c].via].barrier # "none" => io.env.barrier # c

Dispose(c) ==
  /\ io.ch[c].xref = "gone" /\ Unused(c)
  /\ LET x == [io EXCEPT !.ch[c].xref = "disposed"]
     IN io' = IF io.ch[c].entry # Null /\ io.ch[c].flags = {} THEN LeaveEntry(x, c) ELSE x
  /\ UNCHANGED use

\* The timer of an operation, on the queue of its stream or of the disk, until it is
\* complete.
Listing(o) ==
  LET p == io.op[o]
  IN IF Use.kind = "disk" THEN In(io.disk.ops, o) \/ In(io.fd[p.e].stream_ops, o)
     ELSE In(io.st[p.e][p.dir][p.type], o)

Interval(o) ==
  /\ io.op[o].timer # "none" /\ io.op[o].e # Null /\ Listing(o)
  /\ LET strict == io.op[o].timer = "strict"
     IN io' = IF strict /\ io.op[o].active THEN [io EXCEPT !.op[o].flag = TRUE]
              ELSE Deliver(io, o, IF strict THEN {"deliver"} ELSE {})
  /\ io.op[o].out = <<>>      \* bound: not again before the handler has run
  /\ UNCHANGED use

Call(c) ==
  \/ \E type \in Use.types, mark \in Use.marks, timer \in Use.timers :
       \/ Create(c, type, mark, timer) \/ CreateWithPath(c, type, mark, timer)
       \/ \E in \in Channels : CreateWithIo(c, in, type, mark, timer)
  \/ \E dir \in Use.dirs, len \in Use.lengths : Operate(c, dir, len)
  \/ Close(c) \/ Stop(c) \/ Barrier(c) \/ XrefRelease(c)

Block ==
  \/ \E c \in Channels : ChannelBlock(c) \/ Dispose(c)
  \/ \E b \in Barriers : BarrierBlock(b) \/ BarrierRuns(b) \/ BarrierReturns(b)
  \/ \E e \in Entries : CloseBlock(e)
  \/ \E e \in Entries, d \in Dirs :
       StreamBlock(e, d) \/ SourceFires(e, d) \/ SourceCancelled(e, d)
  \/ \E o \in Ops : Handler(o) \/ Interval(o)
  \/ TableBlock \/ DevsBlock \/ DiskBlock \/ DiskPerform

IoNext ==
  \/ \E c \in Channels : Call(c)
  \/ \E len \in Use.lengths : ConvenienceRead(len) \/ ConvenienceWrite(len)
  \/ Block

IoSpec == IoInit /\ [][IoNext]_ioVars

-----------------------------------------------------------------------------
(* Properties                                                               *)

\* The assertions of the code hold, no operation is completed or released twice and
\* no source resumed twice.
IoNeverCrashes ==
  /\ io.env.crash = "no"
  /\ \A e \in Entries : io.fd[e].refs >= 0
  /\ \A b \in Barriers : io.bq[b].group >= 0

\* "An invocation of the I/O handler with the done flag set indicates that the read
\* operation is complete and that the handler will not be enqueued again", and all
\* that was read has been handed over by then, once; without an error it is all that
\* was asked for unless the file came to its end (dispatch/io.h).
DoneIsDone ==
  \A o \in Ops : LET t == io.told[o] IN
    /\ ~t.late
    /\ t.got <= io.op[o].total \/ io.op[o].dir = "write"
    /\ t.done /\ io.op[o].e # Null =>
         /\ t.got = io.op[o].total
         /\ t.err = "no" => t.got = io.op[o].len \/ io.op[o].ended
    /\ t.given = "closed" => t.done

\* While a barrier runs, the operations called before it on its channel are complete,
\* those called after it have not begun, and no operation on the file is under way.
BarrierIsExclusive ==
  \A b \in Barriers : io.bq[b].barrier = "running" =>
    \A o \in Ops :
      /\ io.op[o].state = "open" => io.op[o].e # b
      /\ io.op[o].ch = io.env.barrier =>
           IF o \in io.env.earlier THEN io.op[o].state = "gone" ELSE io.op[o].e = Null

\* The cleanup handler of a channel is called at most once, and when it is, all the
\* handlers of operations on the file have returned and no source watches it.
CleanupIsLast ==
  \A c \in Channels :
    /\ io.ch[c].cleaned <= 1
    /\ io.ch[c].cleaned = 1 /\ io.ch[c].err = "no" =>
         /\ io.fd[io.ch[c].via].state = "freed"
         /\ \A d \in Dirs : io.st[io.ch[c].via][d].source \in {"absent", "freed"}
         /\ \A o \in Ops : io.op[o].e = io.ch[c].via =>
              io.op[o].state = "gone" /\ io.op[o].out = <<>>

\* Nothing to do but wait: for the file, if waiting.
Settled(waiting) ==
  /\ io.fds = <<>> /\ io.devs = <<>> /\ io.disk.q = <<>> /\ ~io.disk.performing
  /\ \A c \in Channels : (io.ch[c].q = <<>> \/ io.ch[c].susp)
                          /\ ~(io.ch[c].xref = "gone" /\ Unused(c))
  /\ \A b \in Barriers :
       /\ io.bq[b].q = <<>> \/ io.bq[b].susp
       /\ io.bq[b].barrier = "none" \/ (io.bq[b].barrier = "waiting" /\ io.bq[b].group > 0)
  /\ \A e \in Entries : io.fd[e].refs > 0 \/ io.fd[e].closeq = <<>>
  /\ \A e \in Entries, d \in Dirs :
       /\ io.st[e][d].q = <<>> /\ io.st[e][d].source # "canceling"
       /\ ~waiting => io.st[e][d].source # "on"
  /\ \A o \in Ops : io.op[o].out = <<>>

\* Every handler is told that its operation is done, unless the file is waited for,
\* and then too after a stop, if no barrier holds it up; a channel is set up, and once all have gone or have been
\* closed the entry is freed and the cleanup handlers have been called.
NothingIsLeft ==
  /\ Settled(FALSE) =>
       /\ \A o \in Ops : io.op[o].state # "new" => io.told[o].done
       /\ \A c \in Channels : io.ch[c].xref # "none" => ~io.ch[c].susp
       /\ (\A c \in Channels : Held(c) => io.ch[c].flags # {}) =>
            /\ \A e \in Entries : io.fd[e].state \in {"unused", "freed"}
            /\ \A c \in Channels : ~Fresh(c) => io.ch[c].cleaned = 1
  /\ Settled(TRUE) =>
       \A o \in Ops : "stopped" \in Flags(io, io.op[o].ch) /\ io.op[o].state = "open" =>
                      io.bq[io.ch[io.op[o].ch].via].barrier = "waiting"

\* "All previously scheduled operations on the channel will complete before the
\* provided barrier block is enqueued" (dispatch/io.h): a barrier is not left
\* waiting when nothing else is to happen.
BarrierComes ==
  Settled(FALSE) => \A b \in Barriers : io.bq[b].barrier # "waiting"

\* All of what the passing runs check of dispatch I/O.
IoIsSound ==
  IoNeverCrashes /\ DoneIsDone /\ BarrierIsExclusive /\ CleanupIsLast /\ NothingIsLeft
=============================================================================
