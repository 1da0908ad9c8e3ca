------------------------------ MODULE WriteOps ------------------------------
(***************************************************************************)
(* Insert batches (InsertOne) and update or delete items (UpdateRemove)    *)
(* of concurrent write commands on one namespace, sharing the database    *)
(* and the collection, the node's role and the drops by other operations. *)
(*                                                                         *)
(* An insert thread keeps its database and collection locks between its   *)
(* steps; an update or delete item runs each of its locked regions as one *)
(* step, which the lock manager lets in only when no insert thread holds  *)
(* a lock that conflicts with it: the upsert's AutoGetOrCreateDb and a    *)
(* drop need the database in X, multiUpdate and multiRemove take IX on    *)
(* the database and the collection.  An insert, or an implicit creation,  *)
(* writes the node's newest optime, so every item client's lastOp falls   *)
(* behind it.                                                             *)
(***************************************************************************)
EXTENDS Naturals

CONSTANTS
  InsertThreads,  \* threads running an insert batch
  ItemThreads,    \* threads running one update or delete item
  Docs, MaxWCE, MaxStepDowns

VARIABLES
  dbExists, collExists, primary, stepDowns,
  \* the insert threads (InsertOne)
  ipc, idx, intent, dbLock, collLock, collPtr, ordered, indexReq, errs,
  inserted, iwces,
  \* the update and delete items (UpdateRemove)
  kind, upc, createColl, wrote, upToDate, result, raced, uwces

insVars == <<ipc, idx, intent, dbLock, collLock, collPtr, ordered, indexReq,
             errs, inserted, iwces>>
itemVars == <<kind, upc, createColl, wrote, upToDate, result, raced, uwces>>
vars == <<dbExists, collExists, primary, stepDowns, insVars, itemVars>>

Ins == INSTANCE InsertOne WITH Threads <- InsertThreads, pc <- ipc, wces <- iwces
Upd == INSTANCE UpdateRemove WITH Threads <- ItemThreads, pc <- upc, wces <- uwces

-----------------------------------------------------------------------------

Init == Ins!Init /\ Upd!Init

\* No insert thread holds the database lock: a request for X is granted.
DbFree == \A t \in InsertThreads : dbLock[t] = "none"

\* No insert thread holds X on the database or the collection: IX on both
\* is granted.
IntentFree == \A t \in InsertThreads : dbLock[t] /= "X" /\ collLock[t] /= "X"

\* A step A of an insert thread; if it inserted a document, built an index
\* or created the collection, the node's newest optime is past every item client's lastOp.
InsStep(A) ==
  /\ A
  /\ upToDate' = IF inserted' /= inserted \/ collExists' /= collExists
                 THEN [u \in ItemThreads |-> FALSE] ELSE upToDate
  /\ UNCHANGED <<kind, upc, createColl, wrote, result, raced, uwces>>

InsLock(t) == InsStep(Ins!LockDb(t)) \/ InsStep(Ins!LockColl(t))

InsRun(t) ==
  \/ InsStep(Ins!NextInsert(t)) \/ InsStep(Ins!Yield(t))
  \/ InsStep(Ins!Insert(t)) \/ InsStep(Ins!CreateIndex(t))

ItemStart(u) == Upd!Start(u) /\ UNCHANGED insVars

\* The upsert's region under the database's X lock.
ItemCreate(u) == DbFree /\ Upd!CreateCollection(u) /\ UNCHANGED insVars

\* multiUpdate's or multiRemove's region under IX locks.
ItemRun(u) == IntentFree /\ (Upd!Run(u) \/ Upd!RemoveRun(u)) /\ UNCHANGED insVars

\* A drop by another operation needs the database's X lock.
Drop == DbFree /\ Upd!Drop /\ UNCHANGED insVars

StepDown == Upd!StepDown /\ UNCHANGED insVars

StepUp == Upd!StepUp /\ UNCHANGED insVars

Next ==
  \/ \E t \in InsertThreads : InsLock(t) \/ InsRun(t)
  \/ \E u \in ItemThreads : ItemStart(u) \/ ItemCreate(u) \/ ItemRun(u)
  \/ Drop \/ StepDown \/ StepUp

Spec == Init /\ [][Next]_vars

\* Every thread keeps running; the lock manager grants in FIFO order, so a
\* request that is grantable infinitely often is granted.  Drops and
\* stepdowns are not assumed to stop.
FairSpec ==
  /\ Spec
  /\ \A t \in InsertThreads :
       /\ WF_vars(InsStep(Ins!NextInsert(t)) \/ InsStep(Ins!Insert(t)))
       /\ SF_vars(InsStep(Ins!LockDb(t))) /\ SF_vars(InsStep(Ins!LockColl(t)))
       /\ SF_vars(InsStep(Ins!CreateIndex(t)))
  /\ \A u \in ItemThreads :
       WF_vars(ItemStart(u)) /\ SF_vars(ItemCreate(u)) /\ SF_vars(ItemRun(u))

-----------------------------------------------------------------------------
(* Properties                                                              *)

\* Both components' variables keep their types; every item ends with a
\* result its kind can have.
TypeOK == Ins!TypeOK /\ Upd!TypeOK

\* An insert thread's cached Collection pointer is only held with the
\* locks that keep the collection from being dropped, whatever the items
\* and the drops do between the insert's steps.
CollectionPointerValid == Ins!CollectionPointerValid

\* An upsert accepts defeat only when a drop removed the collection it
\* had created or found, never because an insert created it first.
DefeatOnlyAfterRace == Upd!DefeatOnlyAfterRace

\* Every insert batch ends, however the items and drops interleave.
AllBatchesFinish == Ins!AllBatchesFinish

\* Every update or delete item ends, however often the collection is
\* dropped and re-created by inserts and upserts.
AllItemsFinish == Upd!AllItemsFinish
=============================================================================
