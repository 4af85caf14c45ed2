------------------------------ MODULE Firehose ------------------------------
(* The logging buffer a process shares with logd (firehose_buffer.c, its    *)
(* inline half and the drain of firehose_server.c).  Threads write          *)
(* tracepoints into the chunk installed in a stream; a full chunk goes to   *)
(* the ring of its bank, logd reads it there and tells the process how far  *)
(* it has come, and the chunks behind that point are used again.  A bank    *)
(* limits the chunks its streams may have in use.  The gate of a stream     *)
(* elects the thread that finds a new chunk: a reliable one waits for logd, *)
(* an unreliable one gives up and counts a loss.  logd may start again, and *)
(* the process may die between any two steps, its memory left for logd.     *)
(*                                                                         *)
(* The layout inside a chunk (firehose_chunk_*, not under src) is external: *)
(* a reservation succeeds, or fails and tells its caller to enqueue the     *)
(* chunk, or just fails.                                                    *)
EXTENDS Integers, Sequences, FiniteSets, FiniteSetsExt

CONSTANTS
  Threads,   \* the threads of the process
  MemStream, \* a stream of the memory bank
  IoStream,  \* a stream of the I/O bank
  Null,
  Count,     \* FIREHOSE_BUFFER_CHUNK_COUNT: cells of a ring; chunks are 1..Count-1
  Prealloc,  \* FIREHOSE_BUFFER_CHUNK_PREALLOCATED_COUNT
  Room,      \* tracepoints that fit in a chunk
  Batch,     \* DRAIN_BATCH_SIZE
  Letters,   \* MACH_PORT_QLIMIT_BASIC: notifications that fit in the port
  LossMax,   \* FIREHOSE_LOSS_COUNT_MAX
  Base,      \* values of a 16-bit field of the bank state
  Totals,    \* chunks allowed, by memory pressure and streams in use
  Scripts    \* behaviours: the calls, [kind, stream, reliable], and what else may
             \* happen: "die", "restart" of logd, its "unload", "pressure"

Streams == {MemStream, IoStream}
Banks == {"mem", "io"}
Refs == 1 .. Count - 1
Pristine == Count             \* FIREHOSE_STREAM_STATE_PRISTINE
Dead == -1                    \* MACH_PORT_DEAD

ASSUME FirehoseAssumption ==
  /\ Count \in Nat \ {0, 1} /\ Prealloc \in 1 .. Count - 1
  /\ Room > 0 /\ Batch > 0 /\ Letters > 0 /\ LossMax > 0 /\ Base > Count

VARIABLES
  script,    \* the calls that are left
  stream,    \* fbs_state of each stream
  lossStart, \* fbs_loss_start is set
  bank,      \* fbb_state: mem, io and max_ref packed in one word
  limits,    \* fbb_limits, packed alike
  bitmap,    \* fbb_bitmap: the chunks in use
  low,       \* FIREHOSE_BUFFER_BANK_FLAG_LOW_MEMORY
  tail,      \* fbh_ring_tail: tail and flushed of both banks, one word
  head,      \* fbh_ring_mem_head and fbh_ring_io_head
  ring,      \* the cells: a generation and a chunk or 0
  seen,      \* fbb_mem_flushed and fbb_io_flushed: the last news from logd
  chunk,     \* what each chunk holds
  sendp,     \* fbh_sendp: 0, the logd it leads to, or Dead
  logd,      \* logd: its run, whether it is loaded, what it flushed and sent
  drain,     \* logd's drain of each bank
  mail,      \* messages: pushes, calls that wait, answers, notifications
  th,        \* the threads
  told       \* what a reader may check: delivered, lost, recorded, alive

vars == <<script, stream, lossStart, bank, limits, bitmap, low, tail, head,
          ring, seen, chunk, sendp, logd, drain, mail, th, told>>

-----------------------------------------------------------------------------
\* The word of a bank.

BankOf(s) == IF s = IoStream THEN "io" ELSE "mem"
Inc(b) == IF b = "io" THEN Base ELSE 1
Word == Base * Base * Base
Pack(mem, io, max) == mem + Base * io + Base * Base * max
Slots(w, b) == IF b = "io" THEN (w \div Base) % Base ELSE w % Base
MaxRef(w) == w \div (Base * Base)
Plus(w, d) == (w + d) % Word

InUse(str) == {s \in Streams : str[s].cur # Pristine}

\* The limits for the streams in use: one chunk less than the total for memory,
\* and for I/O its share of the total or two for a stream.
LimitsFor(str, pressure) ==
  LET total == Totals[pressure][Cardinality(InUse(str))]
      io == {s \in InUse(str) : s = IoStream}
  IN Pack(total - 1, Max({(3 * total) \div 8, 2 * Cardinality(io)}), total + 1)

-----------------------------------------------------------------------------
\* Rings and chunks.

Cell(p) == p % Count
Gen(p) == p \div Count

\* A chunk: whose it is, who still writes in it, whether it is closed, the
\* tracepoints begun and ended in it and the loss it tells of.
Void == [stream |-> Null, writers |-> 0, full |-> TRUE,
         begun |-> {}, ended |-> {}, loss |-> 0]

\* firehose_chunk_tracepoint_try_reserve: 1 reserved, -1 the caller enqueues
\* the chunk, 0 somebody else does or did.
Reserve(r, s, room) ==
  LET c == chunk[r]
  IN IF c.full \/ c.stream # s THEN 0
     ELSE IF room /\ Cardinality(c.begun) < Room THEN 1
     ELSE IF c.writers = 0 THEN -1 ELSE 0

Closed(r, s) ==
  IF chunk[r].stream = s THEN [chunk EXCEPT ![r].full = TRUE] ELSE chunk

\* fss_allocator as a futex sees it: the owner and the bits of the waiters.
Gate(str) == <<str.alloc, str.waitR, str.waitU>>
Open == <<Null, FALSE, FALSE>>

\* fss_state after the gate opens: a chunk or nothing installed.
Installed(str, r) ==
  [alloc |-> Null, waitR |-> FALSE, waitU |-> FALSE, cur |-> r, loss |-> 0,
   stamped |-> FALSE, waiting |-> FALSE, gen |-> str.gen + 1]
OneMore(loss) == Min({loss + 1, LossMax})
Missed(str) ==
  [Installed(str, 0) EXCEPT !.loss = OneMore(str.loss), !.stamped = TRUE,
                            !.gen = str.gen]

-----------------------------------------------------------------------------
\* Threads.

Idle == [at |-> "idle", kind |-> "log", s |-> MemStream, reliable |-> TRUE,
         p |-> 0, old |-> Null, gate |-> Open, ref |-> 0, max |-> 0,
         slot |-> FALSE, waited |-> FALSE, patient |-> FALSE, n |-> 0,
         pos |-> 0, b |-> "mem", news |-> [mem |-> 0, io |-> 0], back |-> "idle",
         first |-> FALSE]

Goto(t, l) == th' = [th EXCEPT ![t].at = l]
Set(t, r) == th' = [th EXCEPT ![t] = r]

\* Those asleep at the gate of a stream wake and look again.
Woken(s, threads) ==
  [u \in Threads |->
    IF threads[u].at = "asleep" /\ threads[u].s = s
    THEN [threads[u] EXCEPT !.at = "load", !.waited = TRUE] ELSE threads[u]]

Lose(s) == told' = [told EXCEPT !.lost[s] = @ + 1]

Init ==
  /\ \E plan \in Scripts :
       /\ script = plan.calls
       /\ told = [delivered |-> [p \in 1 .. Len(script) |-> 0],
                  lost |-> [s \in Streams |-> 0], recorded |-> [s \in Streams |-> 0],
                  stamps |-> TRUE, alive |-> TRUE, calls |-> Len(script),
                  may |-> plan.may]
  /\ stream = [s \in Streams |-> [Installed([gen |-> -1], 0) EXCEPT !.cur = Pristine]]
  /\ lossStart = [s \in Streams |-> FALSE]
  /\ limits = LimitsFor(stream, FALSE) /\ bank = limits
  /\ bitmap = 1 .. Prealloc /\ low = FALSE
  /\ tail = [b \in Banks |-> [tail |-> 0,
                               flushed |-> IF b = "mem" THEN Prealloc ELSE 0]]
  /\ head = [b \in Banks |-> tail[b].flushed]
  /\ ring = [b \in Banks |-> [i \in 0 .. Count - 1 |->
       [gen |-> 0, ref |-> IF b = "mem" /\ i < Prealloc THEN i + 1 ELSE 0]]]
  /\ seen = [b \in Banks |-> tail[b].flushed]
  /\ chunk = [r \in Refs |-> Void]
  /\ sendp = 0
  /\ logd = [run |-> 1, loaded |-> TRUE, known |-> FALSE, flushed |-> seen, sent |-> seen]
  /\ drain = [b \in Banks |-> [at |-> "idle", port |-> Null, sent |-> 0, n |-> 0]]
  /\ mail = [push |-> {}, calls |-> {}, answer |-> [t \in Threads |-> Null],
             notes |-> <<>>]
  /\ th = [t \in Threads |-> Idle]

buffer == <<stream, lossStart, bank, limits, bitmap, tail, head, ring, seen, chunk>>
outside == <<logd, drain, mail, sendp>>

\* A thread calls the library: it logs a tracepoint or flushes a stream.
Call(t) ==
  /\ th[t].at = "idle" /\ script # <<>>
  /\ LET c == Head(script)
     IN Set(t, [Idle EXCEPT !.at = "load", !.kind = c.kind, !.s = c.stream,
                            !.reliable = c.reliable, !.b = BankOf(c.stream),
                            !.p = told.calls - Len(script) + 1])
  /\ script' = Tail(script)
  /\ UNCHANGED <<buffer, outside, low, told>>

Load(t) ==
  /\ th[t].at = "load"
  /\ LET st == stream[th[t].s] nothing == st.cur \in {0, Pristine}
     IN Set(t, [th[t] EXCEPT !.old = st, !.back = "decide",
                  !.at = IF ~nothing THEN "try"
                         ELSE IF th[t].kind = "flush" THEN "connect" ELSE "decide"])
  /\ UNCHANGED <<script, buffer, outside, low, told>>

\* The reservation in the chunk the stream had when it was read.  A flush asks
\* for what never fits.
Try(t) ==
  /\ th[t].at = "try"
  /\ LET r == th[t].old.cur
         s == th[t].s
         got == Reserve(r, s, th[t].kind = "log")
     IN IF got = 1
        THEN /\ chunk' = [chunk EXCEPT ![r].writers = @ + 1,
                                        ![r].begun = @ \union {th[t].p}]
             /\ Set(t, [th[t] EXCEPT !.ref = r, !.old = Null, !.at = "write"])
        ELSE /\ chunk' = Closed(r, s)
             /\ Set(t, [th[t] EXCEPT !.ref = IF got = -1 THEN r ELSE 0,
                          !.at = IF got = -1 THEN "enqueue" ELSE "decide"])
  /\ UNCHANGED <<script, stream, lossStart, bank, limits, bitmap, tail, head,
                 ring, seen, outside, low, told>>

\* The compare-and-swap that ends a round of firehose_buffer_tracepoint_reserve:
\* an unreliable thread counts a loss, or waits at the gate, or closes it behind
\* itself; a flush takes the chunk out if nothing has changed.
Next0(t) ==
  LET old == th[t].old
      out == IF old.cur = Pristine THEN old ELSE [old EXCEPT !.cur = 0]
      gives == /\ th[t].kind = "log" /\ ~th[t].reliable
               /\ (th[t].waited /\ old.stamped) \/ old.waiting
  IN CASE th[t].kind = "flush" -> [to |-> "idle", st |-> out]
       [] gives -> [to |-> "lost", st |-> [out EXCEPT !.loss = OneMore(old.loss)]]
       [] ~gives /\ old.alloc # Null /\ th[t].reliable ->
            [to |-> "gate", st |-> [out EXCEPT !.waitR = TRUE]]
       [] ~gives /\ old.alloc # Null /\ ~th[t].reliable ->
            [to |-> "gate", st |-> [out EXCEPT !.waitU = TRUE]]
       [] OTHER -> [to |-> "first", st |-> [out EXCEPT !.alloc = t]]

Decide(t) ==
  /\ th[t].at = "decide"
  /\ LET new == Next0(t)
         s == th[t].s
     IN IF stream[s] # th[t].old
        THEN /\ IF th[t].kind = "flush" THEN Set(t, Idle)
                ELSE Set(t, [th[t] EXCEPT !.old = stream[s], !.ref = 0,
                       !.at = IF stream[s].cur \in {0, Pristine} THEN "decide" ELSE "try"])
             /\ UNCHANGED <<stream, told>>
        ELSE /\ stream' = [stream EXCEPT ![s] = new.st]
             /\ CASE new.to \in {"idle", "lost"} -> Set(t, Idle)
                  [] new.to = "gate" ->
                       Set(t, [th[t] EXCEPT !.at = "gate", !.gate = Gate(new.st), !.old = Null])
                  [] new.to = "first" ->
                       Set(t, [th[t] EXCEPT !.at = "first", !.old = Null, !.ref = 0,
                                 !.first = th[t].old.cur = Pristine])
             /\ IF new.to = "lost" THEN Lose(s) ELSE UNCHANGED told
  /\ UNCHANGED <<script, lossStart, bank, limits, bitmap, tail, head, ring, seen,
                 chunk, outside, low>>

\* _dispatch_firehose_gate_wait: sleeps if the word is still the one it put there.
GateWait(t) ==
  /\ th[t].at = "gate"
  /\ IF Gate(stream[th[t].s]) = th[t].gate
     THEN Goto(t, "asleep")
     ELSE Set(t, [th[t] EXCEPT !.at = "load", !.waited = TRUE, !.gate = Open])
  /\ UNCHANGED <<script, buffer, outside, low, told>>

-----------------------------------------------------------------------------
\* A full chunk goes to its ring, and logd is told.

\* The cell at the head takes the chunk when it is empty in this generation; until
\* then the thread waits for the enqueuer before it or for a slow recycler.
Enqueue(t) ==
  /\ th[t].at = "enqueue"
  /\ LET b == BankOf(chunk[th[t].ref].stream)
         p == head[b]
     IN /\ ring[b][Cell(p)] = [gen |-> Gen(p), ref |-> 0]
        /\ ring' = [ring EXCEPT ![b][Cell(p)].ref = th[t].ref]
        /\ Set(t, [th[t] EXCEPT !.at = "advance", !.pos = p, !.b = b])
  /\ UNCHANGED <<script, stream, lossStart, bank, limits, bitmap, tail, head,
                 seen, chunk, outside, low, told>>

Advance(t) ==
  /\ th[t].at = "advance"
  /\ head' = [head EXCEPT ![th[t].b] = @ + 1]
  /\ Set(t, [th[t] EXCEPT !.at = "push", !.ref = 0, !.pos = 0])
  /\ UNCHANGED <<script, stream, lossStart, bank, limits, bitmap, tail, ring,
                 seen, chunk, outside, low, told>>

\* firehose_client_reconnect under fbh_logd_lock: the process registers with the
\* logd that runs, which starts from what the process knows was flushed, or
\* learns that there will be none.
Connected ==
  IF sendp = Dead \/ sendp = logd.run THEN sendp
  ELSE IF logd.loaded THEN logd.run ELSE Dead
Registered ==
  IF Connected = logd.run /\ sendp # logd.run
  THEN [logd EXCEPT !.known = TRUE, !.flushed = seen, !.sent = seen]
  ELSE logd

\* firehose_client_send_push_async: one message waits at the port, more are dropped.
Push(t) ==
  /\ th[t].at = "push"
  /\ sendp' = Connected /\ logd' = Registered
  /\ mail' = IF Connected = Dead THEN mail
             ELSE [mail EXCEPT !.push = @ \union {th[t].b}]
  /\ IF th[t].back = "idle" THEN Set(t, Idle) ELSE Goto(t, th[t].back)
  /\ UNCHANGED <<script, buffer, drain, low, told>>

\* firehose_buffer_force_connect, when there is nothing to flush.
Connect(t) ==
  /\ th[t].at = "connect"
  /\ sendp' = (IF sendp = 0 THEN Connected ELSE sendp)
  /\ logd' = (IF sendp = 0 THEN Registered ELSE logd)
  /\ Set(t, Idle)
  /\ UNCHANGED <<script, buffer, drain, mail, low, told>>

\* The tracepoint is written and ends; the last writer of a full chunk enqueues it.
Write(t) ==
  /\ th[t].at = "write"
  /\ LET r == th[t].ref
     IN /\ chunk' = [chunk EXCEPT ![r].ended = @ \union {th[t].p}, ![r].writers = @ - 1]
        /\ IF chunk[r].full /\ chunk[r].writers = 1
           THEN Set(t, [Idle EXCEPT !.at = "enqueue", !.ref = r, !.back = "idle"])
           ELSE Set(t, Idle)
  /\ UNCHANGED <<script, stream, lossStart, bank, limits, bitmap, tail, head,
                 ring, seen, outside, low, told>>

-----------------------------------------------------------------------------
\* firehose_buffer_tracepoint_reserve_slow: the thread that holds the gate looks
\* for a chunk.

\* firehose_drain_notifications_once.
Notified(t, back) ==
  IF mail.notes = <<>>
  THEN Goto(t, back) /\ UNCHANGED mail
  ELSE /\ mail' = [mail EXCEPT !.notes = Tail(@)]
       /\ Set(t, [th[t] EXCEPT !.at = "merge", !.news = Head(mail.notes), !.back = back])

First(t) ==
  /\ th[t].at = "first"
  /\ Notified(t, "slot")
  /\ UNCHANGED <<script, buffer, logd, drain, sendp, low, told>>

\* Faulty variant: news that differ from the last are taken, late ones too.
NewsOfAnyAge(t, b) == th[t].news[b] - seen[b]

\* firehose_client_merge_updates: news may come late or twice, the highest counts.
\* The chunks come back to the ring's tail first, then the slots to the bank.
News(t, b) == Max({0, th[t].news[b] - seen[b]})

Merge(t) ==
  /\ th[t].at = "merge"
  /\ LET delta == [b \in Banks |-> News(t, b)]
     IN /\ seen' = [b \in Banks |-> seen[b] + delta[b]]
        /\ Set(t, [th[t] EXCEPT !.news = delta,
                     !.at = IF \A b \in Banks : delta[b] = 0 THEN th[t].back
                            ELSE "mergeTail"])
  /\ UNCHANGED <<script, stream, lossStart, bank, limits, bitmap, tail, head,
                 ring, chunk, outside, low, told>>

MergeTail(t) ==
  /\ th[t].at = "mergeTail"
  /\ tail' = [b \in Banks |-> [tail[b] EXCEPT !.flushed = @ + th[t].news[b]]]
  /\ Goto(t, "mergeBank")
  /\ UNCHANGED <<script, stream, lossStart, bank, limits, bitmap, head,
                 ring, seen, chunk, outside, low, told>>

MergeBank(t) ==
  /\ th[t].at = "mergeBank"
  /\ bank' = Plus(bank, th[t].news["mem"] * Inc("mem") + th[t].news["io"] * Inc("io"))
  /\ Set(t, [th[t] EXCEPT !.news = Idle.news, !.at = th[t].back])
  /\ UNCHANGED <<script, stream, lossStart, limits, bitmap, tail, head,
                 ring, seen, chunk, outside, low, told>>

\* firehose_buffer_bank_try_reserve_slot; a patient thread that finds no slot
\* asks logd and waits.
Slot(t) ==
  /\ th[t].at = "slot"
  /\ LET b == BankOf(th[t].s) IN
     IF Slots(bank, b) > 0
     THEN /\ bank' = Plus(bank, -Inc(b))
          /\ Set(t, [th[t] EXCEPT !.slot = TRUE, !.max = MaxRef(bank), !.at = "recycle"])
     ELSE /\ Set(t, [th[t] EXCEPT !.at = IF th[t].patient THEN "ask" ELSE "nothing",
                                  !.back = "slot"])
          /\ UNCHANGED bank
  /\ UNCHANGED <<script, stream, lossStart, limits, bitmap, tail, head,
                 ring, seen, chunk, outside, low, told>>

\* firehose_buffer_ring_try_recycle: the tail moves over a flushed chunk, of the
\* memory ring first, and then the chunk is marked void and its cell emptied.
Recycle(t) ==
  /\ th[t].at = "recycle"
  /\ LET ready == {b \in Banks : tail[b].tail # tail[b].flushed}
         b == IF "mem" \in ready THEN "mem" ELSE "io"
     IN IF ready = {}
        THEN Goto(t, "grow") /\ UNCHANGED tail
        ELSE /\ tail' = [tail EXCEPT ![b].tail = @ + 1]
             /\ Set(t, [th[t] EXCEPT !.at = "void", !.b = b, !.pos = tail[b].tail])
  /\ UNCHANGED <<script, stream, lossStart, bank, limits, bitmap, head,
                 ring, seen, chunk, outside, low, told>>

MarkVoid(t) ==
  /\ th[t].at = "void"
  /\ LET b == th[t].b
         i == Cell(th[t].pos)
         r == ring[b][i].ref
     IN /\ r # 0
        /\ chunk' = [chunk EXCEPT ![r] = Void]
        /\ ring' = [ring EXCEPT ![b][i] = [gen |-> @.gen + 1, ref |-> 0]]
        /\ Set(t, [th[t] EXCEPT !.ref = r, !.pos = 0,
                     !.at = IF r >= th[t].max THEN "shrink" ELSE "got"])
  /\ UNCHANGED <<script, stream, lossStart, bank, limits, bitmap, tail, head,
                 seen, outside, low, told>>

\* firehose_buffer_ring_shrink under fbb_lock: a chunk beyond the limits is freed.
Shrink(t) ==
  /\ th[t].at = "shrink"
  /\ IF th[t].ref < MaxRef(limits)
     THEN Goto(t, "got") /\ UNCHANGED bitmap
     ELSE /\ bitmap' = bitmap \ {th[t].ref}
          /\ Set(t, [th[t] EXCEPT !.ref = 0, !.at = "recycle"])
  /\ UNCHANGED <<script, stream, lossStart, bank, limits, tail, head,
                 ring, seen, chunk, outside, low, told>>

\* firehose_buffer_ring_try_grow under fbb_lock.
Grow(t) ==
  /\ th[t].at = "grow"
  /\ LET free == {r \in Refs : r < th[t].max /\ r \notin bitmap}
     IN IF free = {}
        THEN /\ Set(t, [th[t] EXCEPT !.at = IF th[t].patient THEN "ask" ELSE "nothing",
                                     !.back = "recycle"])
             /\ UNCHANGED bitmap
        ELSE /\ bitmap' = bitmap \union {Min(free)}
             /\ Set(t, [th[t] EXCEPT !.ref = Min(free), !.at = "got"])
  /\ UNCHANGED <<script, stream, lossStart, bank, limits, tail, head,
                 ring, seen, chunk, outside, low, told>>

\* No chunk at once: an unreliable thread gives the slot back and opens the gate,
\* a reliable one says that it waits for logd, which lets the unreliable go.
Relinquish(t) ==
  /\ th[t].at = "nothing" /\ ~th[t].reliable
  /\ bank' = (IF th[t].slot THEN Plus(bank, Inc(BankOf(th[t].s))) ELSE bank)
  /\ Set(t, [th[t] EXCEPT !.slot = FALSE, !.at = "miss"])
  /\ UNCHANGED <<script, stream, lossStart, limits, bitmap, tail, head, ring,
                 seen, chunk, outside, low, told>>

SignalWaiting(t) ==
  /\ th[t].at = "nothing" /\ th[t].reliable
  /\ LET s == th[t].s IN
     /\ stream' = [stream EXCEPT ![s].waitU = FALSE, ![s].stamped = TRUE,
                                 ![s].waiting = TRUE]
     /\ lossStart' = [lossStart EXCEPT ![s] = @ \/ ~stream[s].stamped]
     /\ Set(t, [th[t] EXCEPT !.patient = TRUE, !.n = Letters,
                  !.at = IF stream[s].waitU THEN "rouse" ELSE "notes"])
  /\ UNCHANGED <<script, bank, limits, bitmap, tail, head, ring, seen, chunk,
                 outside, low, told>>

Rouse(t) ==
  /\ th[t].at = "rouse"
  /\ th' = Woken(th[t].s, [th EXCEPT ![t].at = "notes"])
  /\ UNCHANGED <<script, buffer, outside, low, told>>

\* The waiting thread first takes what logd has sent, then looks for a slot if it
\* has none.
TakeNotes(t) ==
  /\ th[t].at = "notes"
  /\ IF th[t].n > 0 /\ mail.notes # <<>>
     THEN /\ mail' = [mail EXCEPT !.notes = Tail(@)]
          /\ Set(t, [th[t] EXCEPT !.at = "merge", !.n = @ - 1, !.back = "notes",
                                  !.news = Head(mail.notes)])
     ELSE /\ Set(t, [th[t] EXCEPT !.n = 0,
                       !.max = IF th[t].slot THEN MaxRef(bank) ELSE 0,
                       !.at = IF th[t].slot THEN "recycle" ELSE "slot"])
          /\ UNCHANGED mail
  /\ UNCHANGED <<script, buffer, logd, drain, sendp, low, told>>

\* firehose_client_send_push_and_wait; with no logd to come the thread gives up,
\* without a slot at once, with one as if there were no chunk.
Ask(t) ==
  /\ th[t].at = "ask"
  /\ sendp' = Connected /\ logd' = Registered
  /\ IF Connected = Dead
     THEN /\ UNCHANGED mail
          /\ IF th[t].back = "slot" THEN Lose(th[t].s) /\ Set(t, Idle)
             ELSE UNCHANGED told /\ Goto(t, "miss")
     ELSE /\ mail' = [mail EXCEPT !.calls = @ \union {<<t, BankOf(th[t].s)>>}]
          /\ Goto(t, "answer") /\ UNCHANGED told
  /\ UNCHANGED <<script, buffer, drain, low>>

\* The answer comes, or the logd that owed it is gone and is asked again.
Answer(t) ==
  /\ th[t].at = "answer"
  /\ \/ /\ mail.answer[t] # Null
        /\ mail' = [mail EXCEPT !.answer[t] = Null]
        /\ Set(t, [th[t] EXCEPT !.at = "merge", !.news = mail.answer[t]])
     \/ /\ sendp # logd.run /\ mail.answer[t] = Null
        /\ Goto(t, "ask") /\ UNCHANGED mail
  /\ UNCHANGED <<script, buffer, logd, drain, sendp, low, told>>

-----------------------------------------------------------------------------
\* firehose_buffer_stream_chunk_install.

\* The chunk is made ready with the tracepoint in it before anybody sees it.
Got(t) ==
  /\ th[t].at = "got"
  /\ chunk' = [chunk EXCEPT ![th[t].ref] =
       [Void EXCEPT !.stream = th[t].s, !.writers = 1, !.full = FALSE,
                    !.begun = {th[t].p}]]
  /\ Goto(t, "install")
  /\ UNCHANGED <<script, stream, lossStart, bank, limits, bitmap, tail, head,
                 ring, seen, outside, low, told>>

\* After the gate has opened: the sleepers are woken, the first chunk of a stream
\* changes the limits.
Opened(t, s, l) ==
  Set(t, [th[t] EXCEPT !.slot = FALSE, !.max = 0, !.patient = FALSE, !.waited = FALSE,
            !.back = l,
            !.at = IF stream[s].waitR \/ stream[s].waitU THEN "wake"
                   ELSE IF th[t].first THEN "limit" ELSE l])

\* Without a loss to tell of, one step; with one, the start of the loss is read
\* and reset before.
Install(t) ==
  /\ th[t].at \in {"install", "record"}
  /\ LET s == th[t].s
         recording == th[t].at = "record"
     IN IF stream[s].loss > 0 /\ ~recording
        THEN /\ told' = [told EXCEPT !.stamps = @ /\ lossStart[s]]
             /\ lossStart' = [lossStart EXCEPT ![s] = FALSE]
             /\ Goto(t, "record") /\ UNCHANGED <<stream, chunk>>
        ELSE /\ stream' = [stream EXCEPT ![s] = Installed(@, th[t].ref)]
             /\ chunk' = [chunk EXCEPT ![th[t].ref].loss = stream[s].loss]
             /\ told' = [told EXCEPT !.recorded[s] = @ + stream[s].loss]
             /\ Opened(t, s, "write") /\ UNCHANGED lossStart
  /\ UNCHANGED <<script, bank, limits, bitmap, tail, head, ring, seen, outside, low>>

\* No chunk: the gate opens and the loss is counted.
Miss(t) ==
  /\ th[t].at = "miss"
  /\ LET s == th[t].s IN
     /\ stream' = [stream EXCEPT ![s] = Missed(@)]
     /\ lossStart' = [lossStart EXCEPT ![s] = @ \/ ~stream[s].stamped]
     /\ Lose(s)
     /\ Opened(t, s, "idle")
  /\ UNCHANGED <<script, bank, limits, bitmap, tail, head, ring, seen, chunk,
                 outside, low>>

Finish(t, l) == IF l = "idle" THEN Idle ELSE [th[t] EXCEPT !.at = l, !.first = FALSE,
                                                            !.back = "idle"]

Wake(t) ==
  /\ th[t].at = "wake"
  /\ th' = Woken(th[t].s, [th EXCEPT ![t] = IF th[t].first THEN [@ EXCEPT !.at = "limit"]
                                            ELSE Finish(t, th[t].back)])
  /\ UNCHANGED <<script, buffer, outside, low, told>>

\* firehose_buffer_update_limits: the difference of the limits is added to the
\* word of the bank.
Limited == LET new == LimitsFor(stream, low)
           IN limits' = new /\ bank' = Plus(bank, new - limits)

Limit(t) ==
  /\ th[t].at = "limit"
  /\ Limited
  /\ Set(t, Finish(t, th[t].back))
  /\ UNCHANGED <<script, stream, lossStart, bitmap, tail, head, ring, seen,
                 chunk, outside, low, told>>

\* The memory pressure handler sets or clears LOW_MEMORY (event_kevent.c).
Pressure ==
  /\ "pressure" \in told.may /\ told.alive
  /\ low' = ~low
  /\ LET new == LimitsFor(stream, low')
     IN limits' = new /\ bank' = Plus(bank, new - limits)
  /\ UNCHANGED <<script, stream, lossStart, bitmap, tail, head, ring, seen, chunk,
                 outside, th, told>>

-----------------------------------------------------------------------------
\* logd: the drains of the two banks run beside each other.

\* A push wakes the drain of its bank, a call starts it with a port to answer.
DrainBegin(b) ==
  /\ drain[b].at = "idle" /\ logd.known
  /\ \/ /\ b \in mail.push
        /\ mail' = [mail EXCEPT !.push = @ \ {b}]
        /\ drain' = [drain EXCEPT ![b] = [@ EXCEPT !.at = "read", !.sent = logd.sent[b]]]
     \/ \E t \in Threads :
          /\ <<t, b>> \in mail.calls
          /\ mail' = [mail EXCEPT !.calls = @ \ {<<t, b>>}]
          /\ drain' = [drain EXCEPT ![b] = [at |-> "read", port |-> t, n |-> 0,
                                            sent |-> logd.sent[b]]]
  /\ UNCHANGED <<script, buffer, logd, sendp, low, th, told>>

Delivered(refs) ==
  LET points == UNION {chunk[r].ended : r \in refs}
  IN [p \in DOMAIN told.delivered |->
        told.delivered[p] + Cardinality({r \in refs : p \in chunk[r].ended})]

\* The chunks up to the head, or a batch of them, go to the handler, and the
\* position moves over them.
DrainRead(b) ==
  /\ drain[b].at = "read"
  /\ LET from == logd.flushed[b]
         n == Max({0, Min({Batch, head[b] - from})})
         refs == {ring[b][Cell(from + i)].ref : i \in 0 .. n - 1} \ {0}
     IN /\ told' = [told EXCEPT !.delivered = Delivered(refs)]
        /\ logd' = [logd EXCEPT !.flushed[b] = @ + n]
        /\ drain' = [drain EXCEPT ![b].at = "check", ![b].n = n]
  /\ UNCHANGED <<script, buffer, mail, sendp, low, th>>

\* A caller is answered; without one, the process is notified when it has taken
\* everything it was told.  After a full batch logd comes back by itself.
DrainCheck(b) ==
  /\ drain[b].at = "check"
  /\ LET d == drain[b]
         news == d.n > 0 /\ d.port = Null /\ tail[b].flushed = d.sent
     IN /\ drain' = [drain EXCEPT ![b].at =
                       IF d.port # Null \/ news THEN "notify" ELSE "idle"]
        /\ mail' = IF d.n >= Batch THEN [mail EXCEPT !.push = @ \union {b}] ELSE mail
  /\ UNCHANGED <<script, buffer, logd, sendp, low, th, told>>

DrainNotify(b) ==
  /\ drain[b].at = "notify"
  /\ logd' = [logd EXCEPT !.sent = [c \in Banks |-> Max({@[c], logd.flushed[c]})]]
  /\ mail' = IF drain[b].port = Null
             THEN [mail EXCEPT !.notes =
                 IF Len(@) < Letters THEN Append(@, logd.flushed) ELSE @]
             ELSE [mail EXCEPT !.answer[drain[b].port] = logd.flushed]
  /\ drain' = [drain EXCEPT ![b] = [at |-> "idle", port |-> Null, sent |-> 0, n |-> 0]]
  /\ UNCHANGED <<script, buffer, sendp, low, th, told>>

\* logd dies and is started again: what was sent to it is gone, what it sent stays.
\* Or it is unloaded for good.
LogdDies ==
  /\ told.alive /\ logd.loaded
  /\ \/ "restart" \in told.may /\ logd.run = 1 /\ logd' = [logd EXCEPT !.run = @ + 1, !.known = FALSE]
     \/ /\ "unload" \in told.may
        /\ logd' = [logd EXCEPT !.run = @ + 1, !.known = FALSE, !.loaded = FALSE]
  /\ drain' = [b \in Banks |-> [at |-> "idle", port |-> Null, sent |-> 0, n |-> 0]]
  /\ mail' = [mail EXCEPT !.push = {}, !.calls = {}]
  /\ UNCHANGED <<script, buffer, sendp, low, th, told>>

-----------------------------------------------------------------------------
\* The process dies between two steps, and logd looks through what it left.

Die ==
  /\ "die" \in told.may /\ told.alive /\ sendp = logd.run
  /\ th' = [t \in Threads |-> Idle] /\ script' = <<>>
  /\ told' = [told EXCEPT !.alive = FALSE]
  /\ UNCHANGED <<buffer, outside, low>>

\* firehose_client_handle_death: the chunks in use that are not between the tail
\* and what logd has flushed, and that hold a tracepoint, are read.
LeftBehind ==
  LET behind(b) == {ring[b][Cell(p)].ref : p \in tail[b].tail .. logd.flushed[b] - 1}
  IN {r \in bitmap \ UNION {behind(b) : b \in Banks} : chunk[r].begun # {}}

HandleDeath ==
  /\ ~told.alive /\ logd.known /\ \A b \in Banks : drain[b].at = "idle"
  /\ told' = [told EXCEPT !.delivered = Delivered(LeftBehind)]
  /\ logd' = [logd EXCEPT !.known = FALSE]
  /\ UNCHANGED <<script, buffer, drain, mail, sendp, low, th>>

ThreadStep(t) ==
  \/ Call(t) \/ Load(t) \/ Try(t) \/ Decide(t) \/ GateWait(t) \/ Enqueue(t)
  \/ Advance(t) \/ Push(t) \/ Connect(t) \/ Write(t) \/ First(t) \/ Merge(t)
  \/ MergeTail(t) \/ MergeBank(t) \/ Slot(t) \/ Recycle(t) \/ MarkVoid(t)
  \/ Shrink(t) \/ Grow(t) \/ Relinquish(t) \/ SignalWaiting(t) \/ Rouse(t)
  \/ TakeNotes(t) \/ Ask(t) \/ Answer(t) \/ Got(t) \/ Install(t) \/ Miss(t)
  \/ Wake(t) \/ Limit(t)

Next ==
  \/ \E t \in Threads : ThreadStep(t)
  \/ \E b \in Banks : DrainBegin(b) \/ DrainRead(b) \/ DrainCheck(b) \/ DrainNotify(b)
  \/ Pressure \/ LogdDies \/ Die \/ HandleDeath

FirehoseSpec == Init /\ [][Next]_vars

-----------------------------------------------------------------------------

Live(b) == tail[b].tail .. head[b] - 1
RingOf(b) == {ring[b][Cell(p)].ref : p \in Live(b)}
Holding == {"shrink", "got", "install", "record"}
Held == {th[t].ref : t \in {u \in Threads : th[u].at \in Holding}}
Enqueuing == {th[t].ref : t \in {u \in Threads : th[u].at \in {"enqueue", "advance"}}}
Voiding == {ring[th[t].b][Cell(th[t].pos)].ref :
              t \in {u \in Threads : th[u].at = "void"}}

\* The rings keep their order, tail, flushed, head (the conditions in
\* firehose_buffer_internal.h), the cells between hold distinct chunks, and a
\* chunk a thread has taken from there is nobody else's.
RingsAreSound ==
  /\ \A b \in Banks :
       /\ tail[b].tail <= tail[b].flushed /\ tail[b].flushed <= head[b]
       /\ head[b] - tail[b].tail < Count
       /\ Cardinality(RingOf(b)) = Cardinality(Live(b)) /\ 0 \notin RingOf(b)
  /\ RingOf("mem") \intersect RingOf("io") = {}
  /\ \A t, u \in Threads :
       t # u /\ {th[t].at, th[u].at} \subseteq Holding => th[t].ref # th[u].ref
  /\ told.alive => Held \intersect (RingOf("mem") \union RingOf("io")) = {}

\* A chunk in use is in a ring, installed, written in, or in the hands of a
\* thread: none is hidden (the generation in fss_state is there for that).
NoChunkIsHidden ==
  told.alive => \A r \in bitmap :
    \/ r \in RingOf("mem") \union RingOf("io") \union Held \union Enqueuing \union Voiding
    \/ chunk[r].writers > 0
    \/ ~chunk[r].full /\ stream[chunk[r].stream].cur = r

\* The slots of a bank are its limit less what is in use: reserved by a thread,
\* in a chunk that logd has not flushed, or about to be given back.  The word is
\* compared as a whole, since a limit that shrinks below what is in use borrows
\* from the next field.
Unflushed(b) ==
  {r \in bitmap \ (Held \union Voiding) :
     /\ chunk[r].stream # Null /\ BankOf(chunk[r].stream) = b
     /\ \A p \in tail[b].tail .. tail[b].flushed - 1 : ring[b][Cell(p)].ref # r}
Outstanding(b) ==
  Cardinality({t \in Threads : th[t].slot /\ BankOf(th[t].s) = b})
    + Cardinality(Unflushed(b))
    + MapThenSumSet(LAMBDA t : th[t].news[b], {t \in Threads : th[t].at = "mergeBank"})
BankIsAccounted ==
  told.alive =>
    Plus(bank, Outstanding("mem") * Inc("mem") + Outstanding("io") * Inc("io")) = limits

\* What is lost is counted in the stream or recorded in a chunk, and a loss that
\* is recorded has the stamp of its start.
LossIsCounted ==
  told.alive =>
    /\ told.stamps
    /\ \A s \in Streams : told.lost[s] = told.recorded[s] + stream[s].loss

AtRest == \A t \in Threads : th[t].at = "idle"
LogdRests == mail.push = {} /\ mail.calls = {} /\ \A b \in Banks : drain[b].at = "idle"
Ended == UNION {chunk[r].ended : r \in Refs}

\* When nothing moves no thread sleeps at a gate, no gate is closed, and logd has
\* read every chunk; what it has not read is in an installed one.
RestIsClean ==
  told.alive /\ (\A t \in Threads : th[t].at \in {"idle", "asleep"}) =>
    /\ AtRest
    /\ \A s \in Streams : Gate(stream[s]) = Open
    /\ LogdRests /\ logd.known => \A b \in Banks : logd.flushed[b] = head[b]

\* logd reads a tracepoint once, unless a logd before it has read it already or
\* the process dies, and after a death it has read all that ended.
ReadOnce ==
  logd.run = 1 /\ told.alive => \A p \in DOMAIN told.delivered : told.delivered[p] <= 1
ReadAfterDeath ==
  ~told.alive /\ ~logd.known => \A p \in Ended : told.delivered[p] > 0

FirehoseIsSound ==
  /\ RingsAreSound /\ NoChunkIsHidden /\ BankIsAccounted /\ LossIsCounted
  /\ RestIsClean /\ ReadOnce /\ ReadAfterDeath

\* The comment of the recycler (firehose_buffer.c:1234): a chunk that no reference
\* in the ring leads to and that is dirty is one that needs a flush.  So a death
\* delivers nothing twice.
DeadAreReadOnce == logd.run = 1 => \A p \in DOMAIN told.delivered : told.delivered[p] <= 1

\* "the allocator gave up - just clear the allocator and waiter bits" (974): a
\* thread that has returned holds no gate.
GateIsGivenUp ==
  \A s \in Streams : stream[s].alloc # Null => th[stream[s].alloc].at # "idle"
=============================================================================
