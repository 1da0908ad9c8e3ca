---------------------------- MODULE DropDatabase ----------------------------
(***************************************************************************)
(* mongod's dropDatabase() (the file src/mongo/bson/bson_depth.h holds,    *)
(* after its BSONDepth struct, the source of catalog/drop_database.cpp).   *)
(*                                                                         *)
(* An attempt runs in three steps, each atomic in the code:                *)
(*  - under the global X lock: check the database exists and the node is   *)
(*    primary, mark it drop-pending, drop (two-phase) every replicated     *)
(*    collection and note the newest already drop-pending one; finish at  *)
(*    once when there is nothing to wait for;                              *)
(*  - with every lock released: wait until those drops are majority        *)
(*    committed (10 minute wtimeout);                                      *)
(*  - under the global X lock again: check the node is still primary and   *)
(*    the database still exists, then drop it and log onDropDatabase.      *)
(* Scope guards reset the drop-pending flag on each failure path.  A      *)
(* WriteConflictException in a collection drop of the first step leaves   *)
(* the drops before it committed, runs the guard, releases the locks and  *)
(* writeConflictRetry runs the step again, with the locals                *)
(* numCollectionsToDrop and latestDropPendingOpTime kept (they are        *)
(* captured by reference).                                                 *)
(*                                                                         *)
(* Several clients (Callers) may call dropDatabase on the database at     *)
(* once.  Database::setDropPending(true), not in the repository, throws   *)
(* DatabaseDropPending when the flag is already set; the first step calls *)
(* it before it creates its guard.                                         *)
(*                                                                         *)
(* The environment: replication advancing the majority commit point, the  *)
(* reaper removing drop-pending collections whose drop is committed,       *)
(* stepdown and stepup, and users creating collections (which the          *)
(* Database refuses while it is drop-pending).  Clients retry failed      *)
(* attempts.                                                               *)
(***************************************************************************)
EXTENDS Integers, FiniteSets

CONSTANTS
  Callers,      \* clients calling dropDatabase
  Colls,        \* collection names of the database
  Unreplicated, \* collections with the oplog disabled, or system.indexes
  MaxOpTime,    \* bound on the optimes of user writes
  MaxAttempts,  \* bound on dropDatabase calls, all clients together
  MaxWCE,       \* bound on write conflicts in the first step
  MaxStepDowns  \* bound on stepdowns

ASSUME Unreplicated \subseteq Colls
ASSUME {MaxOpTime, MaxAttempts, MaxWCE, MaxStepDowns} \subseteq Nat

CollStates == {"live", "dropPending", "gone"}

VARIABLES
  dbExists,     \* the Database is in the catalog
  dropPending,  \* Database::isDropPending()
  coll,         \* coll[c]: state of collection c
  dropOpTime,   \* dropOpTime[c]: optime of c's two-phase drop
  lastOp,       \* newest optime written
  commitPoint,  \* majority commit point
  primary,      \* canAcceptWritesForDatabase()
  stepDowns,    \* stepdowns so far
  wces,         \* write conflicts so far
  attempts,     \* dropDatabase calls so far
  pc,           \* pc[t]: "idle", "retry" (backing off after a write
                \* conflict), "await" (locks released) or "finish"
  clientLastOp, \* clientLastOp[t]: the last optime t's client wrote
  numCollectionsToDrop,    \* locals of t's current call
  latestDropPendingOpTime  \* (0 stands for the null OpTime)

vars == <<dbExists, dropPending, coll, dropOpTime, lastOp, commitPoint,
          primary, stepDowns, wces, attempts, pc, clientLastOp,
          numCollectionsToDrop, latestDropPendingOpTime>>

envVars == <<commitPoint, primary, stepDowns>>
callVars == <<pc, attempts, clientLastOp, numCollectionsToDrop,
              latestDropPendingOpTime>>

-----------------------------------------------------------------------------

Init ==
  /\ dbExists = TRUE
  /\ dropPending = FALSE
  /\ coll \in [Colls -> CollStates]
  /\ dropOpTime = [c \in Colls |-> IF coll[c] = "dropPending" THEN 1 ELSE 0]
  /\ lastOp = 1
  /\ commitPoint \in 0..1
  /\ primary = TRUE
  /\ stepDowns = 0
  /\ wces = 0
  /\ attempts = 0
  /\ pc = [t \in Callers |-> "idle"]
  /\ clientLastOp = [t \in Callers |-> 0]
  /\ numCollectionsToDrop = [t \in Callers |-> 0]
  /\ latestDropPendingOpTime = [t \in Callers |-> 0]

\* _finishDropDatabase(): Database::dropDatabase() removes the database and
\* every collection left in it, then onDropDatabase is logged.  When
\* Database::dropDatabase() throws, its guard resets the drop-pending flag.
FinishDropDatabase ==
  \/ /\ dbExists' = FALSE
     /\ dropPending' = FALSE
     /\ coll' = [c \in Colls |-> "gone"]
  \/ /\ dropPending' = FALSE
     /\ UNCHANGED <<dbExists, coll>>

\* The collections the first step drops, and the newest optime of a set of
\* drop-pending ones.
ToDropWithUnreplicated == {c \in Colls : coll[c] = "live"}
ToDrop == {c \in Colls : coll[c] = "live" /\ c \notin Unreplicated}
Pending == {c \in Colls : coll[c] = "dropPending"}
NewestPending(P) ==
  IF P = {} THEN 0
  ELSE CHOOSE o \in {dropOpTime[c] : c \in P} : \A c \in P : dropOpTime[c] <= o

\* The collection loop of the first step, as far as it gets: it drops the
\* collections D (each drop writes its own oplog entry, in some order) and
\* sees the drop-pending collections P, adding to t's locals num0, latest0.
DropColls(t, num0, latest0, D, P) ==
  LET n == Cardinality(D)
      order == CHOOSE f \in [D -> lastOp + 1..lastOp + n] :
                 \A a, b \in D : f[a] = f[b] => a = b
  IN /\ lastOp' = lastOp + n
     /\ dropOpTime' = [c \in Colls |-> IF c \in D THEN order[c] ELSE dropOpTime[c]]
     /\ clientLastOp' = [clientLastOp EXCEPT ![t] = IF n > 0 THEN lastOp + n ELSE @]
     /\ numCollectionsToDrop' = [numCollectionsToDrop EXCEPT ![t] = num0 + n]
     /\ latestDropPendingOpTime' =
          [latestDropPendingOpTime EXCEPT ![t] =
             IF latest0 >= NewestPending(P) THEN latest0 ELSE NewestPending(P)]
     /\ coll' = [c \in Colls |-> IF c \in D THEN "dropPending" ELSE coll[c]]

EarlyReturnRunsGuard(t, num0, latest0) ==
  /\ ~dbExists \/ ~primary \/ dropPending
  /\ pc' = [pc EXCEPT ![t] = "idle"]
  /\ dropPending' = (dropPending /\ ~(dbExists /\ primary))
  /\ numCollectionsToDrop' = [numCollectionsToDrop EXCEPT ![t] = num0]
  /\ latestDropPendingOpTime' = [latestDropPendingOpTime EXCEPT ![t] = latest0]
  /\ UNCHANGED <<dbExists, coll, dropOpTime, lastOp, wces, clientLastOp>>

\* The first step's early returns, before its guard exists: the database
\* is missing (NamespaceNotFound), the node is not primary (NotMaster), or
\* setDropPending(true) throws DatabaseDropPending because another call
\* holds the flag.
EarlyReturn(t, num0, latest0) ==
  /\ ~dbExists \/ ~primary \/ dropPending
  /\ pc' = [pc EXCEPT ![t] = "idle"]
  /\ numCollectionsToDrop' = [numCollectionsToDrop EXCEPT ![t] = num0]
  /\ latestDropPendingOpTime' = [latestDropPendingOpTime EXCEPT ![t] = latest0]
  /\ UNCHANGED <<dbExists, dropPending, coll, dropOpTime, lastOp, wces,
                 clientLastOp>>

\* The first writeConflictRetry of dropDatabase(), under the global X lock:
\* the early returns, setDropPending(true) (which throws when another call
\* holds the flag), the collection loop, and the immediate finish when
\* there is nothing to wait for.  A write conflict in a collection drop
\* leaves the drops before it, runs the guard and backs off for a retry.
DropCollectionsStep(t, num0, latest0) ==
  /\ \/ EarlyReturn(t, num0, latest0)
     \/ /\ dbExists /\ primary /\ ~dropPending
        /\ DropColls(t, num0, latest0, ToDrop, Pending)
        /\ UNCHANGED wces
        /\ IF numCollectionsToDrop'[t] = 0 /\ latestDropPendingOpTime'[t] = 0
           THEN /\ pc' = [pc EXCEPT ![t] = "idle"]
                /\ FinishDropDatabase
           ELSE /\ pc' = [pc EXCEPT ![t] = "await"]
                /\ dropPending' = TRUE
                /\ UNCHANGED dbExists
     \/ /\ dbExists /\ primary /\ ~dropPending /\ wces < MaxWCE
        /\ \E D \in SUBSET ToDrop, P \in SUBSET Pending :
             /\ D /= ToDrop
             /\ DropColls(t, num0, latest0, D, P)
        /\ wces' = wces + 1
        /\ pc' = [pc EXCEPT ![t] = "retry"]
        /\ UNCHANGED <<dbExists, dropPending>>

\* A call of dropDatabase by client t starts with fresh locals.
StartDrop(t) ==
  /\ pc[t] = "idle" /\ attempts < MaxAttempts
  /\ attempts' = attempts + 1
  /\ DropCollectionsStep(t, 0, 0)
  /\ UNCHANGED envVars

\* writeConflictRetry runs the first step again after its back-off.
RetryDropCollections(t) ==
  /\ pc[t] = "retry"
  /\ DropCollectionsStep(t, numCollectionsToDrop[t], latestDropPendingOpTime[t])
  /\ UNCHANGED <<envVars, attempts>>

\* The optime the second step waits for: the client's last op (the last
\* collection drop) when it dropped any, else the newest pending drop.
AwaitTargetSwapped(t) ==
  IF numCollectionsToDrop[t] > 0 THEN latestDropPendingOpTime[t] ELSE clientLastOp[t]
AwaitTarget(t) ==
  IF numCollectionsToDrop[t] > 0 THEN clientLastOp[t] ELSE latestDropPendingOpTime[t]

AwaitReplicationNoGuard(t) ==
  /\ pc[t] = "await"
  /\ \/ /\ commitPoint >= AwaitTarget(t)
        /\ pc' = [pc EXCEPT ![t] = "finish"]
     \/ pc' = [pc EXCEPT ![t] = "idle"]
  /\ UNCHANGED <<dbExists, dropPending, coll, dropOpTime, lastOp, envVars, wces,
                 attempts, clientLastOp, numCollectionsToDrop, latestDropPendingOpTime>>

\* The wait, with every lock released: it returns once the target is
\* majority committed, or fails (wtimeout, stepdown, interruption), when
\* the guard takes the lock and resets the flag if the database exists.
AwaitReplication(t) ==
  /\ pc[t] = "await"
  /\ \/ /\ commitPoint >= AwaitTarget(t)
        /\ pc' = [pc EXCEPT ![t] = "finish"]
        /\ UNCHANGED dropPending
     \/ /\ pc' = [pc EXCEPT ![t] = "idle"]
        /\ dropPending' = (dropPending /\ ~dbExists)
  /\ UNCHANGED <<dbExists, coll, dropOpTime, lastOp, envVars, wces, attempts,
                 clientLastOp, numCollectionsToDrop, latestDropPendingOpTime>>

\* The last step, under the global X lock again.
FinishDrop(t) ==
  /\ pc[t] = "finish"
  /\ pc' = [pc EXCEPT ![t] = "idle"]
  /\ \/ /\ ~primary                          \* PrimarySteppedDown
        /\ dropPending' = (dropPending /\ ~dbExists)
        /\ UNCHANGED <<dbExists, coll>>
     \/ /\ primary /\ dbExists
        /\ FinishDropDatabase
     \/ /\ primary /\ ~dbExists              \* NamespaceNotFound
        /\ UNCHANGED <<dbExists, dropPending, coll>>
  /\ UNCHANGED <<dropOpTime, lastOp, envVars, wces, attempts, clientLastOp,
                 numCollectionsToDrop, latestDropPendingOpTime>>

-----------------------------------------------------------------------------
(* The environment                                                         *)

\* Secondaries acknowledge one more optime.
Replicate ==
  /\ commitPoint < lastOp
  /\ commitPoint' = commitPoint + 1
  /\ UNCHANGED <<dbExists, dropPending, coll, dropOpTime, lastOp, primary,
                 stepDowns, wces, callVars>>

\* The reaper removes a drop-pending collection once its drop is committed.
Reap(c) ==
  /\ coll[c] = "dropPending" /\ dropOpTime[c] <= commitPoint
  /\ coll' = [coll EXCEPT ![c] = "gone"]
  /\ UNCHANGED <<dbExists, dropPending, dropOpTime, lastOp, envVars, wces,
                 callVars>>

StepDown ==
  /\ primary /\ stepDowns < MaxStepDowns
  /\ primary' = FALSE
  /\ stepDowns' = stepDowns + 1
  /\ UNCHANGED <<dbExists, dropPending, coll, dropOpTime, lastOp, commitPoint,
                 wces, callVars>>

StepUp ==
  /\ ~primary
  /\ primary' = TRUE
  /\ UNCHANGED <<dbExists, dropPending, coll, dropOpTime, lastOp, commitPoint,
                 stepDowns, wces, callVars>>

\* A user creates collection c (creating the database if need be); the
\* Database refuses while it is drop-pending.
CreateCollection(c) ==
  /\ primary /\ lastOp < MaxOpTime
  /\ coll[c] = "gone"
  /\ ~(dbExists /\ dropPending)
  /\ dbExists' = TRUE
  /\ coll' = [coll EXCEPT ![c] = "live"]
  /\ lastOp' = lastOp + 1
  /\ UNCHANGED <<dropPending, dropOpTime, envVars, wces, callVars>>

Next ==
  \/ \E t \in Callers :
       \/ StartDrop(t)
       \/ RetryDropCollections(t)
       \/ AwaitReplication(t)
       \/ FinishDrop(t)
  \/ Replicate
  \/ \E c \in Colls : Reap(c)
  \/ StepDown
  \/ StepUp
  \/ \E c \in Colls : CreateCollection(c)

Spec == Init /\ [][Next]_vars

-----------------------------------------------------------------------------
(* Properties                                                              *)

\* Users write up to MaxOpTime; each run of the first step adds at most
\* one drop per collection.
OpTimeBound == MaxOpTime + (MaxAttempts + MaxWCE) * Cardinality(Colls)

TypeOK ==
  /\ dbExists \in BOOLEAN /\ dropPending \in BOOLEAN
  /\ coll \in [Colls -> CollStates]
  /\ dropOpTime \in [Colls -> 0..OpTimeBound]
  /\ lastOp \in 0..OpTimeBound /\ commitPoint \in 0..lastOp
  /\ primary \in BOOLEAN /\ stepDowns \in 0..MaxStepDowns
  /\ wces \in 0..MaxWCE /\ attempts \in 0..MaxAttempts
  /\ pc \in [Callers -> {"idle", "retry", "await", "finish"}]
  /\ clientLastOp \in [Callers -> 0..OpTimeBound]
  /\ numCollectionsToDrop \in [Callers -> 0..(1 + MaxWCE) * Cardinality(Colls \ Unreplicated)]
  /\ latestDropPendingOpTime \in [Callers -> 0..OpTimeBound]

\* Once every call has returned or is backing off after a write conflict,
\* the database is not left drop-pending: each failure path of
\* dropDatabase() (a write conflict in the collection loop, the wait
\* failing, a stepdown before the last step, Database::dropDatabase()
\* throwing) goes through a guard that resets the flag, or users could
\* never create a collection in the database again.
NoStuckDropPending ==
  (\A t \in Callers : pc[t] \in {"idle", "retry"}) => ~dropPending

\* The database is removed (and onDropDatabase logged) only once every
\* two-phase collection drop still pending in it is majority committed:
\* the wait on the client's last op, or on latestDropPendingOpTime, must
\* cover the drops of this call, of its runs before a write conflict, and
\* of earlier calls.
DbDropAfterDropsCommitted ==
  [][dbExists /\ ~dbExists' =>
       \A c \in Pending : dropOpTime[c] <= commitPoint]_vars

\* When the database is removed, no replicated collection in it is live:
\* each was dropped two-phase by the first step, and none was created
\* while a call waited, since the drop-pending flag stays set from the
\* first step to the last, even when a second dropDatabase call on the
\* same database runs in between and fails.
NoLiveCollectionAtDbDrop ==
  [][dbExists /\ ~dbExists' =>
       \A c \in Colls \ Unreplicated : coll[c] /= "live"]_vars

=============================================================================
