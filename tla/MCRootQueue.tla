---------------------------- MODULE MCRootQueue ----------------------------
(* Small instances of RootQueue for TLC. *)
EXTENDS RootQueue, TLC

CONSTANTS p1, p2, w1, w2, m1

MCProducers == {p1, p2}
MCWorkers == {w1, w2}
MCMonitors == {m1}

Queue(kind, pool) == [kind |-> kind, pool |-> pool]

MCQueues == {Queue("kernel", 0), Queue("pool", 2), Queue("overcommit", 2),
             Queue("monitored", 1)}

\* All items pushed so far.
Pushed == Len(fifo) + Cardinality(ran) + Cardinality({w \in Workers : held[w] # Nil})

\* Three items for the kernel's queue and two for a pool, alone or in a list of two.
MCSpec ==
  /\ Init /\ Fairness
  /\ [][/\ Next
        /\ Pushed' <= IF Kernel THEN 3 ELSE 2
        /\ Len(batch'[p2]) <= 1]_vars
=============================================================================
