----------------------------- MODULE DataObject -----------------------------
(* Data objects (data.c): a leaf has a buffer, a composite object has records *)
(* that are ranges of leaves and, once its bytes were asked for, a flattened  *)
(* copy of them.  Objects share leaves and are counted by references.         *)
(*                                                                            *)
(* A client calls the operations one after the other; two threads may flatten *)
(* the same object at once.                                                   *)
EXTENDS Integers, Sequences, SequencesExt, FiniteSets

CONSTANTS
  Leaves,   \* what leaves hold: a sequence of sequences of bytes
  Calls,    \* bound: operations a client calls
  Null

VARIABLES
  objs,     \* the objects there have been, in the order of their creation
  has,      \* the references that the client has, of each object
  value,    \* what each object stands for, as the documentation has it
  freed,    \* how often the buffer of each object was given back
  flattening, \* the object each of two threads is flattening, with what it will be
  calls, crash

dataVars == <<objs, has, value, freed, flattening, calls, crash>>

Leaf(bytes) == [buf |-> bytes, records |-> <<>>, refs |-> 1]

Record(o, from, length) == [obj |-> o, from |-> from, length |-> length]

\* _dispatch_data_leaf
IsLeaf(o) == objs[o].records = <<>>

SumOf(seq) == FoldLeft(+, 0, seq)
Lengths(records) == [i \in DOMAIN records |-> records[i].length]

\* dispatch_data_get_size
Size(o) == IF IsLeaf(o) THEN Len(objs[o].buf) ELSE SumOf(Lengths(objs[o].records))

DataInit ==
  /\ objs = [i \in DOMAIN Leaves |-> Leaf(Leaves[i])]
  /\ has = [i \in DOMAIN Leaves |-> 1]
  /\ value = Leaves
  /\ freed = [i \in DOMAIN Leaves |-> 0]
  /\ flattening = <<Null, Null>>
  /\ calls = 0
  /\ crash = "no"

Slice(bytes, from, length) == SubSeq(bytes, from + 1, from + length)

\* _dispatch_data_map_direct: sees through an object of one record; the bytes are
\* Null if there is no buffer that holds them all.
Direct(o, offset) ==
  LET r == objs[o].records[1]
      through == ~IsLeaf(o) /\ Len(objs[o].records) = 1
      obj == IF through THEN r.obj ELSE o
  IN [obj |-> obj, from |-> IF through THEN offset + r.from ELSE offset, buf |-> objs[obj].buf]

\* The records an object contributes to another.
RecordsOf(o) == IF IsLeaf(o) THEN <<Record(o, 0, Size(o))>> ELSE objs[o].records

\* An object is returned to the client: an object that exists is retained, a new one
\* retains the objects of its records.
Existing(o, meaning) ==
  /\ objs' = [objs EXCEPT ![o].refs = @ + 1]
  /\ has' = [has EXCEPT ![o] = @ + 1]
  /\ crash' = IF value[o] # meaning THEN "wrong bytes" ELSE crash
  /\ UNCHANGED <<value, freed>>

Fresh(records, buf, meaning) ==
  /\ objs' = [o \in DOMAIN objs |->
                [objs[o] EXCEPT !.refs = @ + Cardinality({i \in DOMAIN records : records[i].obj = o})]]
             \o <<[buf |-> buf, records |-> records, refs |-> 1]>>
  /\ has' = Append(has, 1)
  /\ value' = Append(value, meaning)
  /\ freed' = Append(freed, 0)
  /\ UNCHANGED crash

\* dispatch_data_empty
Empty == UNCHANGED <<objs, has, value, freed, crash>>

\* dispatch_data_create_concat
Concat(a, b) ==
  LET meaning == value[a] \o value[b]
  IN IF Size(a) = 0 THEN Existing(b, meaning)
     ELSE IF Size(b) = 0 THEN Existing(a, meaning)
     ELSE Fresh(RecordsOf(a) \o RecordsOf(b), Null, meaning)

\* The record with the byte at this offset, and the offset in it.
RECURSIVE Seek(_, _, _)
Seek(records, i, offset) ==
  IF i <= Len(records) /\ offset >= records[i].length
    THEN Seek(records, i + 1, offset - records[i].length)
  ELSE [i |-> i, offset |-> offset]

\* How many records there are from i to the end of a range, and what of the last one.
RECURSIVE Count(_, _, _, _)
Count(records, i, count, last) ==
  IF i + count > Len(records) THEN [count |-> count, last |-> last]
  ELSE IF last <= records[i + count].length THEN [count |-> count + 1, last |-> last]
  ELSE Count(records, i, count + 1, last - records[i + count].length)

\* Faulty variant: the last record of a range is left as it was.
TrimmedFirst(records, i, skip, length, toTheEnd) ==
  LET c == IF toTheEnd THEN [count |-> Len(records) - i + 1, last |-> Null]
           ELSE Count(records, i, 1, length - (records[i].length - skip))
      part == SubSeq(records, i, i + c.count - 1)
  IN [part EXCEPT ![1].from = @ + skip, ![1].length = @ - skip]

\* The records of a range: the first and the last one are cut, unless the range goes
\* to the end of the object.
Trimmed(records, i, skip, length, toTheEnd) ==
  LET c == IF toTheEnd THEN [count |-> Len(records) - i + 1, last |-> Null]
           ELSE Count(records, i, 1, length - (records[i].length - skip))
      part == SubSeq(records, i, i + c.count - 1)
      first == [part EXCEPT ![1].from = @ + skip, ![1].length = @ - skip]
  IN IF toTheEnd THEN first ELSE [first EXCEPT ![c.count].length = c.last]

\* dispatch_data_create_subrange: a range within one record is a range of its leaf.
RECURSIVE Subrange(_, _, _, _)
Subrange(o, offset, length, meaning) ==
  LET rest == Size(o) - offset
      n == IF length > rest THEN rest ELSE length
      records == objs[o].records
      at == Seek(records, 1, offset)
      r == records[at.i]
  IN IF offset >= Size(o) \/ length = 0
       THEN Empty
     ELSE IF length <= rest /\ length = Size(o) THEN Existing(o, meaning)
     ELSE IF IsLeaf(o) THEN Fresh(<<Record(o, offset, n)>>, Null, meaning)
     ELSE IF at.offset + n <= r.length THEN Subrange(r.obj, r.from + at.offset, n, meaning)
     ELSE Fresh(Trimmed(records, at.i, at.offset, n, n = rest), Null, meaning)

\* _dispatch_data_apply: the regions of an object, with their offsets and bytes.
RECURSIVE Regions(_, _, _, _)
Regions(o, offset, from, size) ==
  LET d == Direct(o, 0)
      records == objs[o].records
      At(i) == offset + SumOf(Lengths(SubSeq(records, 1, i - 1)))
  IN IF d.buf # Null THEN <<[offset |-> offset, bytes |-> Slice(d.buf, d.from + from, size)]>>
     ELSE FlattenSeq([i \in DOMAIN records |->
                        Regions(records[i].obj, At(i), records[i].from, records[i].length)])

\* _dispatch_data_flatten: the regions at their offsets in a buffer.
Flattened(o) ==
  LET regions == Regions(o, 0, 0, Size(o))
  IN [k \in 1..Size(o) |->
        LET r == CHOOSE i \in DOMAIN regions :
                   regions[i].offset < k /\ k <= regions[i].offset + Len(regions[i].bytes)
        IN regions[r].bytes[k - regions[r].offset]]

\* dispatch_data_create_map: a copy in a leaf of its own unless there is a buffer.
Map(o) ==
  LET d == Direct(o, 0)
  IN IF Size(o) = 0 THEN Empty
     ELSE IF d.buf # Null
       THEN Existing(o, IF Slice(d.buf, d.from, Size(o)) = value[o] THEN value[o] ELSE <<Null>>)
     ELSE Fresh(<<>>, Flattened(o), value[o])

\* The record with this location in a composite object, its offset and what of it comes
\* before the part that counts.
RECURSIVE Locate(_, _, _, _, _)
Locate(records, i, from, offset, location) ==
  LET length == records[i].length
  IN IF from >= length THEN Locate(records, i + 1, from - length, offset, location)
     ELSE IF location >= offset + length - from
       THEN Locate(records, i + 1, 0, offset + length - from, location)
     ELSE [r |-> records[i], from |-> from, offset |-> offset]

\* _dispatch_data_copy_region: the region of an object with this location in it, and
\* the offset of the region.
RECURSIVE Region(_, _, _, _, _)
Region(o, from, size, location, offset) ==
  LET d == Direct(o, from)
      at == Locate(objs[o].records, 1, from, 0, location)
  IN IF d.buf = Null
       THEN Region(at.r.obj, at.from + at.r.from, at.r.length - at.from, location - at.offset,
                   offset + at.offset)
     ELSE IF from = 0 /\ size = Size(o) THEN [new |-> FALSE, obj |-> o, offset |-> offset]
     ELSE IF d.from = 0 /\ size = Size(d.obj) THEN [new |-> FALSE, obj |-> d.obj, offset |-> offset]
     ELSE [new |-> TRUE, obj |-> d.obj, from |-> d.from, size |-> size, offset |-> offset]

\* dispatch_data_copy_region
CopyRegion(o, location) ==
  LET r == Region(o, 0, Size(o), location, 0)
      n == IF r.new THEN r.size ELSE Size(r.obj)
      meaning == Slice(value[o], r.offset, n)
  IN IF location >= Size(o) THEN Empty
     ELSE IF location < r.offset \/ location >= r.offset + n
       THEN crash' = "the region is not where it is said to be" /\ UNCHANGED <<objs, has, value, freed>>
     ELSE IF r.new THEN Fresh(<<Record(r.obj, r.from, r.size)>>, Null, meaning)
     ELSE Existing(r.obj, meaning)

\* The objects that go when references are released: _dispatch_data_dispose.
RECURSIVE Released(_, _)
Released(os, gone) ==
  IF gone = <<>> THEN os
  ELSE LET o == Head(gone)
           left == [os EXCEPT ![o].refs = @ - 1]
           subs == [i \in DOMAIN os[o].records |-> os[o].records[i].obj]
       IN Released(left, Tail(gone) \o (IF left[o].refs = 0 THEN subs ELSE <<>>))

\* dispatch_release
Release(o) ==
  /\ objs' = Released(objs, <<o>>)
  /\ has' = [has EXCEPT ![o] = @ - 1]
  /\ freed' = [i \in DOMAIN objs |-> IF objs[i].refs > 0 /\ objs'[i].refs = 0 /\ objs[i].buf # Null
                                     THEN freed[i] + 1 ELSE freed[i]]
  /\ UNCHANGED <<value, crash>>

\* dispatch_data_get_flattened_bytes_4libxpc: makes a copy, then stores it unless
\* another thread has, and then frees it.
Flatten(t, o) ==
  /\ flattening[t] = Null
  /\ Direct(o, 0).buf = Null
  /\ flattening' = [flattening EXCEPT ![t] = <<Direct(o, 0).obj, Flattened(o)>>]
  /\ UNCHANGED <<objs, has, value, freed, crash>>

FlattenEnd(t) ==
  LET o == flattening[t][1]
      mine == flattening[t][2]
      buf == IF objs[o].buf = Null THEN mine ELSE objs[o].buf
  IN /\ flattening[t] # Null
     /\ objs' = [objs EXCEPT ![o].buf = buf]
     /\ crash' = IF buf # value[o] THEN "wrong bytes" ELSE crash
     /\ flattening' = [flattening EXCEPT ![t] = Null]
     /\ UNCHANGED <<has, value, freed, calls>>

Busy(o) == \E t \in 1..2 : flattening[t] # Null /\ flattening[t][1] = o

DataCall ==
  /\ calls < Calls
  /\ calls' = calls + 1
  /\ \E o \in {x \in DOMAIN objs : has[x] > 0} :
       \/ /\ \/ \E p \in {x \in DOMAIN objs : has[x] > 0} : Concat(o, p)
             \/ \E offset \in 0..Size(o), length \in 0..(Size(o) + 1) :
                  Subrange(o, offset, length, Slice(value[o], offset,
                    IF length > Size(o) - offset THEN Size(o) - offset ELSE length))
             \/ Map(o)
             \/ \E location \in 0..Size(o) : CopyRegion(o, location)
             \/ ~Busy(o) /\ Release(o)
          /\ UNCHANGED flattening
       \/ \E t \in 1..2 : Flatten(t, o)

DataNext == crash = "no" /\ (DataCall \/ \E t \in 1..2 : FlattenEnd(t))

DataSpec == DataInit /\ [][DataNext]_dataVars

-----------------------------------------------------------------------------
(* Properties                                                               *)

\* Every object stands for the bytes it should, whatever was built from it or
\* released; the regions that are applied are its bytes in order; a leaf lives as
\* long as an object with a range of it, and its buffer is given back once.
DataIsSound ==
  /\ crash = "no"
  /\ \A o \in DOMAIN objs :
       /\ objs[o].refs > 0 =>
            /\ Size(o) = Len(value[o])
            /\ FlattenSeq([i \in DOMAIN Regions(o, 0, 0, Size(o)) |-> Regions(o, 0, 0, Size(o))[i].bytes])
                 = value[o]
            /\ \A i \in DOMAIN objs[o].records : objs[objs[o].records[i].obj].refs > 0
       /\ objs[o].refs = has[o] + SumOf([p \in DOMAIN objs |->
            IF objs[p].refs = 0 THEN 0
            ELSE Cardinality({i \in DOMAIN objs[p].records : objs[p].records[i].obj = o})])
       /\ freed[o] = IF objs[o].refs = 0 /\ objs[o].buf # Null THEN 1 ELSE 0
=============================================================================
