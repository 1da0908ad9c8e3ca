---------------------------- MODULE UpdateRemove ----------------------------
(***************************************************************************)
(* One update or delete item of a write batch (multiUpdate and multiRemove *)
(* in src/mongo/db/index_names.h), for several threads writing to one      *)
(* namespace while other operations drop its collection or database and   *)
(* the node steps down.                                                    *)
(*                                                                         *)
(* Each locked region of the code is one action: another operation that   *)
(* drops the collection or database needs the database's X lock, which    *)
(* excludes the region, so a drop happens only between regions.  An       *)
(* upsert that finds no collection leaves the IX region, creates the      *)
(* collection under X in a region of its own, and enters the IX region    *)
(* again; if the collection is gone by then it "accepts defeat".          *)
(*                                                                         *)
(* Write concern: the client's lastOp is abstracted to upToDate[t], "t's  *)
(* lastOp is the newest optime of the node".  A write by t makes it TRUE  *)
(* for t and FALSE for every other client; a drop makes it FALSE for all; *)
(* setLastOpToSystemLastOpTime makes it TRUE for t.                       *)
(***************************************************************************)
EXTENDS Naturals

CONSTANTS
  Threads,       \* clients, each running one update or delete item
  MaxWCE,        \* bound on WriteConflictExceptions
  MaxStepDowns   \* bound on stepdowns

\* "update" (single), "multi", "upsert" (single) or "remove"
Kinds == {"update", "multi", "upsert", "remove"}

PCs == {"start", "create", "run", "done"}

Errors == {"BadValue", "NotMaster", "StaleShardVersion", "WriteError"}

\* What an item may end with, by kind: an error, "nothing" (no database
\* or collection to write to), "defeat" (an upsert that raced with a
\* drop), "modified", "unchanged" (matched, nothing written), "upserted",
\* "aborted" (a multi update's write conflict escapes), "nullDeref".
ResultsOf(k) ==
  {"none", "modified", "unchanged"} \cup Errors \cup
  CASE k = "update" -> {"nothing"}
    [] k = "multi"  -> {"nothing", "aborted"}
    [] k = "upsert" -> {"upserted", "defeat"}
    [] k = "remove" -> {"nothing", "nullDeref"}

Acked == {"nothing", "defeat", "modified", "unchanged", "upserted"}

VARIABLES
  dbExists, collExists,
  kind,        \* kind[t]: the item t runs
  pc,          \* pc[t]: where t is in multiUpdate / multiRemove
  createColl,  \* createColl[t]: multiUpdate's createCollection
  wrote,       \* wrote[t]: t's lastOp moved since lastOpAtOperationStart
  upToDate,    \* upToDate[t]: t's lastOp is the node's newest optime
  result,      \* result[t]
  raced,       \* raced[t]: a drop came after t last created the collection
  wces, primary, stepDowns

vars == <<dbExists, collExists, kind, pc, createColl, wrote, upToDate,
          result, raced, wces, primary, stepDowns>>

-----------------------------------------------------------------------------

Init ==
  /\ dbExists \in BOOLEAN
  /\ collExists \in IF dbExists THEN BOOLEAN ELSE {FALSE}
  /\ kind \in [Threads -> Kinds]
  /\ pc = [t \in Threads |-> "start"]
  /\ createColl = [t \in Threads |-> FALSE]
  /\ wrote = [t \in Threads |-> FALSE]
  /\ upToDate \in [Threads -> BOOLEAN]
  /\ result = [t \in Threads |-> "none"]
  /\ raced = [t \in Threads |-> FALSE]
  /\ wces = 0 /\ primary = TRUE /\ stepDowns = 0

\* t's write gets the node's newest optime.
Write(t) ==
  /\ upToDate' = [u \in Threads |-> u = t]
  /\ wrote' = [wrote EXCEPT ![t] = TRUE]

\* "No-ops need to reset lastOp in the client, for write concern."
NoOpReset(t) ==
  /\ upToDate' = [upToDate EXCEPT ![t] = IF wrote[t] THEN @ ELSE TRUE]
  /\ UNCHANGED wrote

\* The item ends with r.
Finish(t, r) ==
  /\ pc' = [pc EXCEPT ![t] = "done"]
  /\ result' = [result EXCEPT ![t] = r]

\* ParsedUpdate / ParsedDelete::parseRequest, the same on every pass.
Start(t) ==
  /\ pc[t] = "start"
  /\ \/ Finish(t, "BadValue")
     \/ pc' = [pc EXCEPT ![t] = "run"] /\ UNCHANGED result
  /\ UNCHANGED <<dbExists, collExists, kind, createColl, wrote, upToDate,
                 raced, wces, primary, stepDowns>>

CreateOnlyNewDb(t) ==
  /\ pc[t] = "create"
  /\ \/ /\ ~primary
        /\ Finish(t, "NotMaster")
        /\ UNCHANGED <<collExists, wrote, upToDate>>
     \/ /\ primary
        /\ IF ~dbExists THEN collExists' = TRUE /\ Write(t)
                        ELSE UNCHANGED <<collExists, wrote, upToDate>>
        /\ pc' = [pc EXCEPT ![t] = "run"]
        /\ UNCHANGED result
  /\ dbExists' = TRUE
  /\ raced' = [raced EXCEPT ![t] = FALSE]
  /\ UNCHANGED <<kind, createColl, wces, primary, stepDowns>>

\* The upsert's X region: AutoGetOrCreateDb opens (or creates) the
\* database, then NotMaster returns; else the collection is created
\* unless "someone else beat us to it".
CreateCollection(t) ==
  /\ pc[t] = "create"
  /\ \/ /\ ~primary
        /\ Finish(t, "NotMaster")
        /\ UNCHANGED <<collExists, wrote, upToDate>>
     \/ /\ primary
        /\ IF ~collExists THEN collExists' = TRUE /\ Write(t)
                          ELSE UNCHANGED <<collExists, wrote, upToDate>>
        /\ pc' = [pc EXCEPT ![t] = "run"]
        /\ UNCHANGED result
  /\ dbExists' = TRUE
  /\ raced' = [raced EXCEPT ![t] = FALSE]
  /\ UNCHANGED <<kind, createColl, wces, primary, stepDowns>>

\* execUpdate and execRemove attach the request's shard version to the
\* operation for a single update or remove (a remove item here may have
\* limit 1); a multi update runs its plan with the version IGNORED, so
\* only its single check under the locks can find it stale.
ShardVersionAttached(t) == kind[t] /= "multi"

\* The update's plan ran: it modified a document, matched without change
\* (a no-op), or, for an upsert, inserted one.
Executed(t) ==
  \/ Finish(t, "modified") /\ Write(t)
  \/ Finish(t, "unchanged") /\ NoOpReset(t)
  \/ kind[t] = "upsert" /\ Finish(t, "upserted") /\ Write(t)

MissingNoDefeat(t) ==
  \/ /\ kind[t] /= "upsert"
     /\ Finish(t, "nothing") /\ UNCHANGED createColl
  \/ /\ kind[t] = "upsert"
     /\ createColl' = [createColl EXCEPT ![t] = TRUE]
     /\ pc' = [pc EXCEPT ![t] = "create"] /\ UNCHANGED result

\* A missing database or collection in the IX region.
Missing(t) ==
  \/ /\ createColl[t]
     /\ Finish(t, "defeat") /\ UNCHANGED createColl
  \/ /\ ~createColl[t] /\ kind[t] /= "upsert"
     /\ Finish(t, "nothing") /\ UNCHANGED createColl
  \/ /\ ~createColl[t] /\ kind[t] = "upsert"
     /\ createColl' = [createColl EXCEPT ![t] = TRUE]
     /\ pc' = [pc EXCEPT ![t] = "create"] /\ UNCHANGED result

\* multiUpdate's IX region: NotMaster, then the shard version, then the
\* database and collection lookups, then the plan, which fails stale when
\* the version attached to the operation is; a write conflict
\* restarts the loop (clearing createCollection) unless the update is
\* multi, where it escapes; other exceptions become the item's error.
Run(t) ==
  /\ pc[t] = "run" /\ kind[t] /= "remove"
  /\ \/ /\ ~primary /\ Finish(t, "NotMaster")
        /\ UNCHANGED <<createColl, wrote, upToDate, wces>>
     \/ /\ primary /\ Finish(t, "StaleShardVersion")
        /\ UNCHANGED <<createColl, wrote, upToDate, wces>>
     \/ /\ primary /\ ~collExists
        /\ Missing(t) /\ UNCHANGED <<wrote, upToDate, wces>>
     \/ /\ primary /\ collExists
        /\ \/ Executed(t) /\ UNCHANGED <<createColl, wces>>
           \/ /\ Finish(t, "WriteError")
              /\ UNCHANGED <<createColl, wrote, upToDate, wces>>
           \/ /\ ShardVersionAttached(t) /\ Finish(t, "StaleShardVersion")
              /\ UNCHANGED <<createColl, wrote, upToDate, wces>>
           \/ /\ kind[t] = "multi" /\ Finish(t, "aborted")
              /\ UNCHANGED <<createColl, wrote, upToDate, wces>>
           \/ /\ kind[t] /= "multi" /\ wces < MaxWCE
              /\ wces' = wces + 1
              /\ createColl' = [createColl EXCEPT ![t] = FALSE]
              /\ UNCHANGED <<pc, result, wrote, upToDate>>
  /\ UNCHANGED <<dbExists, collExists, kind, raced, primary, stepDowns>>

\* multiRemove's IX region: a missing database breaks out of the loop
\* before any check; then NotMaster and the shard version; the
\* collection may be missing (getCollection returns NULL), and
\* getExecutorDelete then throws or plans an empty delete after which
\* collection->infoCache() is called on the NULL collection.
RemoveRun(t) ==
  /\ pc[t] = "run" /\ kind[t] = "remove"
  /\ \/ /\ ~dbExists /\ Finish(t, "nothing")
        /\ UNCHANGED <<wrote, upToDate, wces>>
     \/ /\ dbExists /\ ~primary /\ Finish(t, "NotMaster")
        /\ UNCHANGED <<wrote, upToDate, wces>>
     \/ /\ dbExists /\ primary /\ Finish(t, "StaleShardVersion")
        /\ UNCHANGED <<wrote, upToDate, wces>>
     \/ /\ dbExists /\ primary /\ ~collExists
        /\ \/ Finish(t, "WriteError")
           \/ Finish(t, "nullDeref")
        /\ UNCHANGED <<wrote, upToDate, wces>>
     \/ /\ dbExists /\ primary /\ collExists
        /\ \/ Finish(t, "modified") /\ Write(t) /\ UNCHANGED wces
           \/ Finish(t, "unchanged") /\ NoOpReset(t) /\ UNCHANGED wces
           \/ /\ Finish(t, "WriteError")
              /\ UNCHANGED <<wrote, upToDate, wces>>
           \/ /\ ShardVersionAttached(t) /\ Finish(t, "StaleShardVersion")
              /\ UNCHANGED <<wrote, upToDate, wces>>
           \/ /\ wces < MaxWCE /\ wces' = wces + 1
              /\ UNCHANGED <<pc, result, wrote, upToDate>>
  /\ UNCHANGED <<dbExists, collExists, kind, createColl, raced, primary,
                 stepDowns>>

-----------------------------------------------------------------------------
(* The environment                                                         *)

\* Another operation drops the collection, or the whole database, under
\* the database's X lock; its optime is the node's newest.
Drop ==
  /\ dbExists
  /\ collExists' = FALSE
  /\ dbExists' \in BOOLEAN
  /\ upToDate' = [t \in Threads |-> FALSE]
  /\ raced' = [t \in Threads |-> raced[t] \/ createColl[t]]
  /\ UNCHANGED <<kind, pc, createColl, wrote, result, wces, primary,
                 stepDowns>>

StepDown ==
  /\ primary /\ stepDowns < MaxStepDowns
  /\ primary' = FALSE /\ stepDowns' = stepDowns + 1
  /\ UNCHANGED <<dbExists, collExists, kind, pc, createColl, wrote,
                 upToDate, result, raced, wces>>

StepUp ==
  /\ ~primary /\ primary' = TRUE
  /\ UNCHANGED <<dbExists, collExists, kind, pc, createColl, wrote,
                 upToDate, result, raced, wces, stepDowns>>

Next ==
  \/ \E t \in Threads :
       Start(t) \/ CreateCollection(t) \/ Run(t) \/ RemoveRun(t)
  \/ Drop \/ StepDown \/ StepUp

Spec == Init /\ [][Next]_vars

\* Each client thread keeps running its item; drops and stepdowns are
\* not assumed to stop.
FairSpec ==
  /\ Spec
  /\ \A t \in Threads :
       WF_vars(Start(t) \/ CreateCollection(t) \/ Run(t) \/ RemoveRun(t))

-----------------------------------------------------------------------------
(* Properties                                                              *)

\* Each item ends with a result its kind can have: only an upsert creates
\* the collection or reports an insert or a lost race, and only a multi
\* update lets a write conflict escape.
TypeOK ==
  /\ dbExists \in BOOLEAN /\ collExists \in BOOLEAN
  /\ kind \in [Threads -> Kinds] /\ pc \in [Threads -> PCs]
  /\ createColl \in [Threads -> BOOLEAN] /\ wrote \in [Threads -> BOOLEAN]
  /\ upToDate \in [Threads -> BOOLEAN] /\ raced \in [Threads -> BOOLEAN]
  /\ \A t \in Threads : result[t] \in ResultsOf(kind[t])
  /\ wces \in 0..MaxWCE /\ primary \in BOOLEAN /\ stepDowns \in 0..MaxStepDowns

\* An upsert reports n = 0 ("we raced with some, accept defeat") only when
\* a drop really removed the collection it had just created or found.
DefeatOnlyAfterRace ==
  \A t \in Threads : result[t] = "defeat" => raced[t]

\* Every item ends, however often the collection is dropped and
\* re-created: an upsert goes back to create at most once per write
\* conflict.
AllItemsFinish == <>(\A t \in Threads : pc[t] = "done")

\* A write acknowledged without error leaves the client's lastOp at the
\* newest optime, so that write concern also covers the state the item
\* observed ("No-ops need to reset lastOp in the client").
AckedCoversObserved ==
  [][\A t \in Threads :
       pc[t] /= "done" /\ pc'[t] = "done" /\ result'[t] \in Acked
         => upToDate'[t]]_vars
=============================================================================
