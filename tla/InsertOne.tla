------------------------------ MODULE InsertOne ------------------------------
(***************************************************************************)
(* The lock protocol of batched inserts (WriteBatchExecutor::execInserts, *)
(* insertOne, ExecInsertsState::lockAndCheck, _lockAndCheckImpl and       *)
(* unlock, in src/mongo/db/index_names.h), for several threads inserting  *)
(* into one namespace while other operations drop its collection or its   *)
(* database.                                                              *)
(*                                                                         *)
(* A thread takes the database and collection locks in intent mode (IX),  *)
(* falls back to exclusive mode (X) when the database or the collection   *)
(* does not exist yet, creates them under X, and keeps its locks from one  *)
(* insert to the next; it releases them when it yields between inserts,   *)
(* on a WriteConflictException (then retries the same document), and on   *)
(* an error.  An ordered batch stops at its first error.                  *)
(*                                                                         *)
(* Locks are granted as the lock manager does: X excludes every other     *)
(* holder, IX is compatible with IX.  Database::createCollection fails    *)
(* with an error when the collection already exists.                      *)
(*                                                                         *)
(* A batch into an index namespace (an insert index request) takes none   *)
(* of these locks: insertOne hands each index specification to the        *)
(* createIndexes command, which takes the database in X itself and        *)
(* creates the database and collection when they are missing.             *)
(***************************************************************************)
EXTENDS Naturals, FiniteSets

CONSTANTS
  Threads,     \* threads running an insert batch
  Docs,        \* documents per batch
  MaxWCE,      \* bound on WriteConflictExceptions
  MaxStepDowns \* bound on stepdowns

Modes == {"none", "IX", "X"}
PCs == {"loop", "lockDb", "lockColl", "insert", "index", "done"}
ErrCodes == {"DuplicateKey", "NotMaster", "StaleShardVersion",
             "IndexBuildFailed"}

VARIABLES
  dbExists, collExists,
  pc,        \* pc[t]: where thread t is in execInserts / insertOne
  idx,       \* idx[t]: state.currIndex, 1-based
  intent,    \* intent[t]: _lockAndCheckImpl's intentLock argument
  dbLock,    \* dbLock[t]: mode of t's _dbLock
  collLock,  \* collLock[t]: mode of t's _collLock
  collPtr,   \* collPtr[t]: t's _collection is set
  ordered,   \* ordered[t]: t's batch is ordered
  indexReq,  \* indexReq[t]: t's batch is an insert index request
  errs,      \* errs[t]: codes of the write errors t's batch got
  inserted,  \* documents inserted: pairs <<t, i>>
  wces, primary, stepDowns

vars == <<dbExists, collExists, pc, idx, intent, dbLock, collLock, collPtr,
          ordered, indexReq, errs, inserted, wces, primary, stepDowns>>

-----------------------------------------------------------------------------

\* The lock manager grants t the mode m on a resource whose holders are h.
Grantable(h, t, m) ==
  \A u \in Threads \ {t} : h[u] = "none" \/ (m = "IX" /\ h[u] = "IX")

HasLock(t) == dbLock[t] /= "none"

Init ==
  /\ dbExists \in BOOLEAN
  /\ collExists \in IF dbExists THEN BOOLEAN ELSE {FALSE}
  /\ pc = [t \in Threads |-> "loop"]
  /\ idx = [t \in Threads |-> 1]
  /\ intent = [t \in Threads |-> TRUE]
  /\ dbLock = [t \in Threads |-> "none"]
  /\ collLock = [t \in Threads |-> "none"]
  /\ collPtr = [t \in Threads |-> FALSE]
  /\ ordered \in [Threads -> BOOLEAN]
  /\ indexReq \in [Threads -> BOOLEAN]
  /\ errs = [t \in Threads |-> {}]
  /\ inserted = {}
  /\ wces = 0 /\ primary = TRUE /\ stepDowns = 0

UnlockKeepsCollection(t) ==
  /\ dbLock' = [dbLock EXCEPT ![t] = "none"]
  /\ collLock' = [collLock EXCEPT ![t] = "none"]
  /\ UNCHANGED collPtr

\* ExecInsertsState::unlock(): forget the collection, release both locks.
Unlock(t) ==
  /\ collPtr' = [collPtr EXCEPT ![t] = FALSE]
  /\ dbLock' = [dbLock EXCEPT ![t] = "none"]
  /\ collLock' = [collLock EXCEPT ![t] = "none"]

\* The head of execInserts' loop: insertOne starts on the current
\* document (with the locks still held, lockAndCheck returns at once; an
\* index request goes to createIndexes), or the batch is over and the
\* ExecInsertsState's destructor releases the locks.
NextInsert(t) ==
  /\ pc[t] = "loop"
  /\ \/ /\ idx[t] <= Docs
        /\ pc' = [pc EXCEPT ![t] = CASE indexReq[t] -> "index"
                                      [] HasLock(t) -> "insert"
                                      [] OTHER -> "lockDb"]
        /\ UNCHANGED <<dbLock, collLock, collPtr>>
     \/ /\ idx[t] > Docs
        /\ pc' = [pc EXCEPT ![t] = "done"]
        /\ Unlock(t)
  /\ intent' = [intent EXCEPT ![t] = TRUE]
  /\ UNCHANGED <<dbExists, collExists, idx, ordered, indexReq, errs, inserted, wces, primary, stepDowns>>

\* The yield between inserts when the interval has elapsed.
Yield(t) ==
  /\ pc[t] = "loop" /\ idx[t] <= Docs /\ HasLock(t)
  /\ Unlock(t)
  /\ UNCHANGED <<dbExists, collExists, pc, idx, intent, ordered, indexReq, errs,
                 inserted, wces, primary, stepDowns>>

LockDbKeepsIntent(t) ==
  LET m == IF intent[t] THEN "IX" ELSE "X"
  IN /\ pc[t] = "lockDb"
     /\ Grantable(dbLock, t, m)
     /\ IF intent[t] /\ ~dbExists
        THEN /\ dbLock' = [dbLock EXCEPT ![t] = "IX"]
             /\ intent' = [intent EXCEPT ![t] = FALSE]
             /\ UNCHANGED pc
        ELSE /\ dbLock' = [dbLock EXCEPT ![t] = m]
             /\ pc' = [pc EXCEPT ![t] = "lockColl"]
             /\ UNCHANGED intent
     /\ UNCHANGED <<dbExists, collExists, idx, collLock, collPtr, ordered, indexReq,
                    errs, inserted, wces, primary, stepDowns>>

\* _lockAndCheckImpl takes the database lock, IX or X; in IX, a database
\* that does not exist yet makes it drop the lock and take X instead.
LockDb(t) ==
  LET m == IF intent[t] THEN "IX" ELSE "X"
  IN /\ pc[t] = "lockDb"
     /\ Grantable(dbLock, t, m)
     /\ IF intent[t] /\ ~dbExists
        THEN /\ intent' = [intent EXCEPT ![t] = FALSE]
             /\ UNCHANGED <<pc, dbLock>>
        ELSE /\ dbLock' = [dbLock EXCEPT ![t] = m]
             /\ pc' = [pc EXCEPT ![t] = "lockColl"]
             /\ UNCHANGED intent
     /\ UNCHANGED <<dbExists, collExists, idx, collLock, collPtr, ordered, indexReq,
                    errs, inserted, wces, primary, stepDowns>>

\* An error ends the insert: unlock; an ordered batch stops.
Fail(t, code) ==
  /\ errs' = [errs EXCEPT ![t] = @ \cup {code}]
  /\ Unlock(t)
  /\ idx' = [idx EXCEPT ![t] = @ + 1]
  /\ pc' = [pc EXCEPT ![t] = IF ordered[t] THEN "done" ELSE "loop"]

RetryKeepsIntent(t) ==
  LET m == IF intent[t] THEN "IX" ELSE "X"
  IN /\ pc[t] = "lockColl"
     /\ Grantable(collLock, t, m)
     /\ \/ /\ ~primary /\ Fail(t, "NotMaster")
           /\ UNCHANGED <<dbExists, collExists, intent>>
        \/ /\ primary /\ Fail(t, "StaleShardVersion")
           /\ UNCHANGED <<dbExists, collExists, intent>>
        \/ /\ primary /\ collExists
           /\ collLock' = [collLock EXCEPT ![t] = m]
           /\ collPtr' = [collPtr EXCEPT ![t] = TRUE]
           /\ pc' = [pc EXCEPT ![t] = "insert"]
           /\ UNCHANGED <<dbExists, collExists, intent, idx, dbLock, errs>>
        \/ /\ primary /\ ~collExists /\ intent[t]
           /\ Unlock(t)
           /\ pc' = [pc EXCEPT ![t] = "lockDb"]
           /\ UNCHANGED <<dbExists, collExists, intent, idx, errs>>
        \/ /\ primary /\ ~collExists /\ ~intent[t]
           /\ dbExists' = TRUE /\ collExists' = TRUE
           /\ collLock' = [collLock EXCEPT ![t] = m]
           /\ collPtr' = [collPtr EXCEPT ![t] = TRUE]
           /\ pc' = [pc EXCEPT ![t] = "insert"]
           /\ UNCHANGED <<intent, idx, dbLock, errs>>
     /\ UNCHANGED <<ordered, indexReq, inserted, wces, primary, stepDowns>>

\* Then the collection lock in the same mode.  Under both locks the node
\* must be primary and the request's shard version current, else the
\* insert fails and lockAndCheck unlocks.  Under X a missing database is
\* opened; the collection is looked up, and a missing one makes an IX
\* attempt unlock and start again in X (the recursive call), or is
\* created under X (implicit creation).
LockColl(t) ==
  LET m == IF intent[t] THEN "IX" ELSE "X"
  IN /\ pc[t] = "lockColl"
     /\ Grantable(collLock, t, m)
     /\ \/ /\ ~primary /\ Fail(t, "NotMaster")
           /\ UNCHANGED <<dbExists, collExists, intent>>
        \/ /\ primary /\ Fail(t, "StaleShardVersion")
           /\ UNCHANGED <<dbExists, collExists, intent>>
        \/ /\ primary /\ collExists
           /\ collLock' = [collLock EXCEPT ![t] = m]
           /\ collPtr' = [collPtr EXCEPT ![t] = TRUE]
           /\ pc' = [pc EXCEPT ![t] = "insert"]
           /\ UNCHANGED <<dbExists, collExists, intent, idx, dbLock, errs>>
        \/ /\ primary /\ ~collExists /\ intent[t]
           /\ Unlock(t)
           /\ intent' = [intent EXCEPT ![t] = FALSE]
           /\ pc' = [pc EXCEPT ![t] = "lockDb"]
           /\ UNCHANGED <<dbExists, collExists, idx, errs>>
        \/ /\ primary /\ ~collExists /\ ~intent[t]
           /\ dbExists' = TRUE /\ collExists' = TRUE
           /\ collLock' = [collLock EXCEPT ![t] = m]
           /\ collPtr' = [collPtr EXCEPT ![t] = TRUE]
           /\ pc' = [pc EXCEPT ![t] = "insert"]
           /\ UNCHANGED <<intent, idx, dbLock, errs>>
     /\ UNCHANGED <<ordered, indexReq, inserted, wces, primary, stepDowns>>

InsertSkipsOnWCE(t) ==
  /\ pc[t] = "insert"
  /\ \/ /\ inserted' = inserted \cup {<<t, idx[t]>>}
        /\ idx' = [idx EXCEPT ![t] = @ + 1]
        /\ pc' = [pc EXCEPT ![t] = "loop"]
        /\ UNCHANGED <<dbLock, collLock, collPtr, errs, wces>>
     \/ /\ wces < MaxWCE
        /\ wces' = wces + 1
        /\ Unlock(t)
        /\ idx' = [idx EXCEPT ![t] = @ + 1]
        /\ pc' = [pc EXCEPT ![t] = "lockDb"]
        /\ UNCHANGED <<errs, inserted>>
     \/ /\ Fail(t, "DuplicateKey")
        /\ UNCHANGED <<inserted, wces>>
  /\ intent' = [intent EXCEPT ![t] = TRUE]
  /\ UNCHANGED <<dbExists, collExists, ordered, indexReq, primary, stepDowns>>

\* singleInsert in insertOne's retry loop: the document is inserted (the
\* locks are kept), or a WriteConflictException makes it unlock and retry
\* the same document, or the insert fails (duplicate key) with an error.
Insert(t) ==
  /\ pc[t] = "insert"
  /\ \/ /\ inserted' = inserted \cup {<<t, idx[t]>>}
        /\ idx' = [idx EXCEPT ![t] = @ + 1]
        /\ pc' = [pc EXCEPT ![t] = "loop"]
        /\ UNCHANGED <<dbLock, collLock, collPtr, errs, wces>>
     \/ /\ wces < MaxWCE
        /\ wces' = wces + 1
        /\ Unlock(t)
        /\ pc' = [pc EXCEPT ![t] = "lockDb"]
        /\ UNCHANGED <<idx, errs, inserted>>
     \/ /\ Fail(t, "DuplicateKey")
        /\ UNCHANGED <<inserted, wces>>
  /\ intent' = [intent EXCEPT ![t] = TRUE]
  /\ UNCHANGED <<dbExists, collExists, ordered, indexReq, primary, stepDowns>>

\* singleCreateIndex in insertOne's retry loop, for an index request: the
\* createIndexes command runs under its own X lock on the database, which
\* it opens or creates, and creates the collection if it is missing; it
\* fails on a secondary (NotMaster) or for any other reason the command
\* reports, and a WriteConflictException retries the same specification.
CreateIndex(t) ==
  /\ pc[t] = "index"
  /\ \A u \in Threads : dbLock[u] = "none"
  /\ \/ /\ ~primary /\ Fail(t, "NotMaster")
        /\ UNCHANGED <<dbExists, collExists, inserted, wces>>
     \/ /\ primary
        /\ dbExists' = TRUE /\ collExists' = TRUE
        /\ inserted' = inserted \cup {<<t, idx[t]>>}
        /\ idx' = [idx EXCEPT ![t] = @ + 1]
        /\ pc' = [pc EXCEPT ![t] = "loop"]
        /\ UNCHANGED <<dbLock, collLock, collPtr, errs, wces>>
     \/ /\ primary /\ Fail(t, "IndexBuildFailed")
        /\ UNCHANGED <<dbExists, collExists, inserted, wces>>
     \/ /\ primary /\ wces < MaxWCE
        /\ wces' = wces + 1
        /\ Unlock(t)
        /\ UNCHANGED <<dbExists, collExists, pc, idx, errs, inserted>>
  /\ UNCHANGED <<intent, ordered, indexReq, primary, stepDowns>>

-----------------------------------------------------------------------------
(* The environment                                                         *)

\* Another operation drops the collection, or the whole database, under
\* the database's X lock.
Drop ==
  /\ \A t \in Threads : dbLock[t] = "none"
  /\ dbExists
  /\ collExists' = FALSE
  /\ dbExists' \in BOOLEAN
  /\ UNCHANGED <<pc, idx, intent, dbLock, collLock, collPtr, ordered, indexReq, errs,
                 inserted, wces, primary, stepDowns>>

StepDown ==
  /\ primary /\ stepDowns < MaxStepDowns
  /\ primary' = FALSE /\ stepDowns' = stepDowns + 1
  /\ UNCHANGED <<dbExists, collExists, pc, idx, intent, dbLock, collLock,
                 collPtr, ordered, indexReq, errs, inserted, wces>>

StepUp ==
  /\ ~primary /\ primary' = TRUE
  /\ UNCHANGED <<dbExists, collExists, pc, idx, intent, dbLock, collLock,
                 collPtr, ordered, indexReq, errs, inserted, wces, stepDowns>>

Next ==
  \/ \E t \in Threads :
       \/ NextInsert(t) \/ Yield(t) \/ LockDb(t) \/ LockColl(t) \/ Insert(t)
       \/ CreateIndex(t)
  \/ Drop \/ StepDown \/ StepUp

Spec == Init /\ [][Next]_vars

\* Each thread runs; the lock manager grants in FIFO order, so a waiter
\* that is repeatedly grantable gets its lock.
FairSpec ==
  /\ Spec
  /\ \A t \in Threads :
       /\ WF_vars(NextInsert(t) \/ Insert(t))
       /\ SF_vars(LockDb(t)) /\ SF_vars(LockColl(t)) /\ SF_vars(CreateIndex(t))

-----------------------------------------------------------------------------
(* Properties                                                              *)

TypeOK ==
  /\ dbExists \in BOOLEAN /\ collExists \in BOOLEAN
  /\ pc \in [Threads -> PCs] /\ idx \in [Threads -> 1..Docs + 1]
  /\ intent \in [Threads -> BOOLEAN]
  /\ dbLock \in [Threads -> Modes] /\ collLock \in [Threads -> Modes]
  /\ collPtr \in [Threads -> BOOLEAN] /\ ordered \in [Threads -> BOOLEAN]
  /\ indexReq \in [Threads -> BOOLEAN] /\ errs \in [Threads -> SUBSET ErrCodes]
  /\ inserted \subseteq Threads \X (1..Docs)
  /\ wces \in 0..MaxWCE /\ primary \in BOOLEAN /\ stepDowns \in 0..MaxStepDowns

\* A thread's cached Collection pointer is only held together with the
\* locks that keep the collection from being dropped: the yield, the
\* write-conflict retry and the error path all clear it with the locks,
\* so it never dangles after a concurrent drop.
CollectionPointerValid ==
  \A t \in Threads :
    collPtr[t] => collExists /\ HasLock(t) /\ collLock[t] /= "none"

\* Every batch finishes: the release of the IX lock before taking X keeps
\* two threads upgrading at once from waiting on each other.
AllBatchesFinish == <>(\A t \in Threads : pc[t] = "done")
=============================================================================
