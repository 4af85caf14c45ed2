---------------------------- MODULE MCCompletion ----------------------------
(* Small instances for TLC of what tells that work is over: the group, the *)
(* apply and the block object.  A behaviour is about one of them, the      *)
(* variable object says which; the others rest in their initial states.    *)
EXTENDS DispatchGroup, TLC

CONSTANTS
  t1, t2, r1, r2,
  MaxIterations, MaxThreads, MaxDepth, MaxWidth, \* of Apply
  MaxWaits                                       \* of BlockObject

VARIABLES
  object,
  \* of Apply
  da_iterations, da_index, da_todo, da_thr_cnt, dte_value, free, level,
  da_width, applyPc, idx, done, freed, ran, taken,
  \* of BlockObject
  dbpd, entered, queue_refs, block_refs, owned, blockPc, direct, boost, waits,
  began, finished, cancelled, misused, blockLife

MCThreads == {t1, t2}

applyVars == <<da_iterations, da_index, da_todo, da_thr_cnt, dte_value, free,
               level, da_width, applyPc, idx, done, freed, ran, taken>>
blockVars == <<dbpd, entered, queue_refs, block_refs, owned, blockPc, direct,
               boost, waits, began, finished, cancelled, misused, blockLife>>

AP == INSTANCE Apply WITH pc <- applyPc

BO == INSTANCE BlockObject WITH
        Waiters <- {t1, t2}, Runs <- {r1, r2}, pc <- blockPc, life <- blockLife

MCInit ==
  /\ object \in {"group", "apply", "block"}
  /\ Init /\ AP!Init /\ BO!Init
  /\ object # "group" => dg_state = InitValue(0)

MCNext ==
  \/ object = "group" /\ Next /\ UNCHANGED <<object, applyVars, blockVars>>
  \/ object = "apply" /\ AP!Next /\ UNCHANGED <<object, vars, blockVars>>
  \/ object = "block" /\ BO!Next /\ UNCHANGED <<object, vars, applyVars>>

\* The fairness of each module, of the one the behaviour is about.
MCSpec ==
  /\ MCInit /\ [][MCNext]_<<object, vars, applyVars, blockVars>>
  /\ \A t \in Threads : WF_vars(object = "group" /\ Progress(t))
  /\ WF_applyVars(object = "apply" /\ AP!CallerStep)
  /\ \A p \in AP!Participants : WF_applyVars(object = "apply" /\ AP!Step(p))
  /\ \A r \in {r1, r2} : WF_blockVars(object = "block" /\ BO!RunStep(r))
  /\ \A t \in Threads : WF_blockVars(object = "block" /\ BO!WaitStep(t))
  /\ WF_blockVars(object = "block" /\ BO!Dispose)

\* Whoever leaves an apply last frees its state, and nobody uses it after that;
\* the call returns when every iteration has run once, with the width it took
\* from the queues given back and used by a thread for each slot in between.
ApplyIsSound ==
  /\ AP!TypeOK /\ AP!NothingIsUsedAfterFree
  /\ AP!ReturnsWhenAllRan /\ AP!WidthCoversThreads


\* Waits for an emptied group, calls of apply and waits for a block that has run
\* return, and the notifications of a group fire.
CompletionIsTold ==
  /\ WaitersReturn /\ NotificationsFire
  /\ AP!ApplyReturns /\ BO!WaitersReturn
=============================================================================
