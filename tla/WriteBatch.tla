----------------------------- MODULE WriteBatch -----------------------------
(***************************************************************************)
(* WriteBatchExecutor::executeBatch and bulkExecute (batch_executor.cpp,   *)
(* held in src/mongo/db/index_names.h): validate the batch, execute its    *)
(* items one at a time (an ordered batch stops at its first error), fill   *)
(* in stale-version errors for an unordered batch, wait for write concern  *)
(* when something is to be acknowledged, refresh the shard's metadata      *)
(* after a stale batch and wait out a migration's critical section, then   *)
(* build the response (nothing of it for an unacknowledged write).         *)
(*                                                                         *)
(* An item is an insert, an update or a delete.  Its execution is reduced  *)
(* to the checks it makes under its locks (primary, shard version, a bad   *)
(* insert document) and a write that may fail; the lock protocol of        *)
(* inserts is the subject of InsertOne.  The environment: stepdown and     *)
(* stepup, other threads refreshing the shard's metadata, and migrations   *)
(* entering and committing their critical section, between any two steps. *)
(***************************************************************************)
EXTENDS Naturals, Sequences, SequencesExt

CONSTANTS
  MaxItems,           \* the largest batch a client sends
  MaxWriteBatchSize,  \* BatchedCommandRequest::kMaxWriteBatchSize
  MaxVersion,         \* bound on the collection's shard version
  MaxStepDowns        \* bound on stepdowns

ASSUME MaxWriteBatchSize < MaxItems

Items == 1..MaxItems
Versions == 1..MaxVersion
BatchTypes == {"insert", "update", "delete"}
Codes == {"StaleShardVersion", "NotMaster", "BadValue", "WriteError"}
Errors == [idx : Items, code : Codes]

VARIABLES
  \* the request
  batchType, ordered, size,
  versioned,   \* the request carries a shard version and sharding is enabled
  badDoc,      \* badDoc[i]: fixDocumentForInsert rejects insert i
  badNs,       \* the namespace is invalid, not writable by users, or the
               \* request an invalid index request
  silentWC,    \* w:0, no acknowledgement
  reqVer,      \* the shard version the router sent
  \* the executor
  pc, cur, normalized, errors, applied, wcWaited, batchError, respErrors,
  \* the environment
  primary, stepDowns, shardVer, configVer, critical

reqVars == <<batchType, ordered, size, versioned, badDoc, badNs, silentWC, reqVer>>
envVars == <<primary, stepDowns, shardVer, configVer, critical>>
vars == <<reqVars, pc, cur, normalized, errors, applied, wcWaited,
          batchError, respErrors, envVars>>

-----------------------------------------------------------------------------

Init ==
  /\ batchType \in BatchTypes
  /\ ordered \in BOOLEAN
  /\ size \in 0..MaxItems
  /\ versioned \in BOOLEAN
  /\ badDoc \in IF batchType = "insert" THEN [Items -> BOOLEAN]
                ELSE {[i \in Items |-> FALSE]}
  /\ badNs \in BOOLEAN
  /\ silentWC \in BOOLEAN
  /\ configVer \in Versions
  /\ shardVer \in 1..configVer
  /\ reqVer \in 1..configVer
  /\ pc = "validate" /\ cur = 1 /\ normalized = 0
  /\ errors = <<>> /\ applied = {} /\ wcWaited = FALSE
  /\ batchError = FALSE /\ respErrors = <<>>
  /\ primary = TRUE /\ stepDowns = 0 /\ critical = FALSE

NormalizeInsertsAlwaysStops ==
  IF \E i \in 1..size : badDoc[i]
  THEN CHOOSE i \in 1..size : badDoc[i] /\ \A j \in 1..i - 1 : ~badDoc[j]
  ELSE size

\* normalizeInserts: how many documents are normalised; an ordered batch
\* stops after the first that fails.
NormalizeInserts ==
  IF ordered /\ \E i \in 1..size : badDoc[i]
  THEN CHOOSE i \in 1..size : badDoc[i] /\ \A j \in 1..i - 1 : ~badDoc[j]
  ELSE size

\* validateBatch: the namespace must be valid and writable by users, and
\* an insert into an index namespace a valid index specification.
ValidateBatch == ~badNs

\* executeBatch's validation: a request validateBatch refuses, or an empty
\* or oversized batch, is a batch error.
ExecuteBatch ==
  /\ pc = "validate"
  /\ IF ~ValidateBatch \/ size = 0 \/ size > MaxWriteBatchSize
     THEN /\ batchError' = TRUE /\ pc' = "done"
          /\ UNCHANGED normalized
     ELSE /\ pc' = "exec"
          /\ normalized' = IF batchType = "insert" THEN NormalizeInserts ELSE 0
          /\ UNCHANGED batchError
  /\ UNCHANGED <<reqVars, cur, errors, applied, wcWaited, respErrors, envVars>>

\* checkShardVersion: the request's own version (not the per-item
\* OperationShardVersion, which is IGNORED for a multi write) is checked
\* against the shard's, for every item of a versioned request.
CheckShardVersion == versioned /\ reqVer /= shardVer

\* The error item i gets, if any, from the checks made under its locks;
\* "none" lets the write go ahead.
CheckError(i) ==
  IF batchType = "insert" /\ badDoc[i] THEN "BadValue"
  ELSE IF ~primary THEN "NotMaster"
  ELSE IF CheckShardVersion THEN "StaleShardVersion"
  ELSE "none"

ExecItemPastEnd ==
  /\ pc = "exec" /\ cur <= size + 1 /\ cur <= MaxItems
  /\ LET c == CheckError(cur)
         fail(code) == /\ errors' = Append(errors, [idx |-> cur, code |-> code])
                       /\ UNCHANGED applied
                       /\ pc' = IF ordered THEN "fill" ELSE "exec"
     IN \/ /\ c /= "none"
           /\ fail(c)
        \/ /\ c = "none"
           /\ applied' = applied \cup {cur}
           /\ UNCHANGED <<errors, pc>>
        \/ /\ c = "none"
           /\ fail("WriteError")
  /\ cur' = cur + 1
  /\ UNCHANGED <<reqVars, normalized, wcWaited, batchError, respErrors, envVars>>

\* One turn of bulkExecute's loop (execInserts, execUpdate or execRemove):
\* the item is applied, or gets an error, and an ordered batch breaks.
ExecItem ==
  /\ pc = "exec" /\ cur <= size
  /\ LET c == CheckError(cur)
         fail(code) == /\ errors' = Append(errors, [idx |-> cur, code |-> code])
                       /\ UNCHANGED applied
                       /\ pc' = IF ordered THEN "fill" ELSE "exec"
     IN \/ /\ c /= "none"
           /\ fail(c)
        \/ /\ c = "none"
           /\ applied' = applied \cup {cur}
           /\ UNCHANGED <<errors, pc>>
        \/ /\ c = "none"           \* the write itself fails (duplicate key ...)
           /\ fail("WriteError")
  /\ cur' = cur + 1
  /\ UNCHANGED <<reqVars, normalized, wcWaited, batchError, respErrors, envVars>>

\* The copies name the later items instead.
FillCopiesIndexed ==
  LET last == errors[Len(errors)]
  IN [j \in 1..size - last.idx |-> [last EXCEPT !.idx = last.idx + j]]

\* The last error of an unordered batch is stale: copies of it (cloneTo,
\* the copies keep its index) are appended, one per later item.
FillCopies ==
  LET last == errors[Len(errors)]
  IN [j \in 1..size - last.idx |-> last]

\* After the loop: fill in stale version errors for an unordered batch.
FillStaleErrors ==
  /\ \/ pc = "exec" /\ cur > size
     \/ pc = "fill"
  /\ errors' = IF errors /= <<>> /\ ~ordered
                  /\ errors[Len(errors)].code = "StaleShardVersion"
               THEN errors \o FillCopies
               ELSE errors
  /\ pc' = "wc"
  /\ UNCHANGED <<reqVars, cur, normalized, applied, wcWaited, batchError,
                 respErrors, envVars>>

\* Write concern is waited for when everything succeeded, or when an
\* unordered batch has fewer errors than items.
NeedToEnforceWC ==
  errors = <<>> \/ (~ordered /\ Len(errors) < size)

EnforceWriteConcern ==
  /\ pc = "wc"
  /\ wcWaited' = NeedToEnforceWC
  /\ pc' = "stale"
  /\ UNCHANGED <<reqVars, cur, normalized, errors, applied, batchError,
                 respErrors, envVars>>

\* A stale batch refreshes the shard's metadata when the request is newer
\* than it; a request older than the refreshed version and not write
\* compatible with it waits for the current migration to commit.
RefreshIfStale ==
  /\ pc = "stale"
  /\ LET stale == errors /= <<>> /\ errors[Len(errors)].code = "StaleShardVersion"
         latest == IF reqVer > shardVer THEN configVer ELSE shardVer
     IN /\ shardVer' = IF stale THEN latest ELSE shardVer
        /\ pc' = IF stale /\ reqVer < latest THEN "wait" ELSE "respond"
  /\ UNCHANGED <<reqVars, cur, normalized, errors, applied, wcWaited,
                 batchError, respErrors, primary, stepDowns, configVer, critical>>

\* while (inCriticalMigrateSection()) waitTillNotInCriticalSection(10)
WaitForMigrationCommit ==
  /\ pc = "wait" /\ ~critical
  /\ pc' = "respond"
  /\ UNCHANGED <<reqVars, cur, normalized, errors, applied, wcWaited,
                 batchError, respErrors, envVars>>

\* The response carries the errors unless the write is unacknowledged.
Respond ==
  /\ pc = "respond"
  /\ pc' = "done"
  /\ respErrors' = IF silentWC THEN <<>> ELSE errors
  /\ UNCHANGED <<reqVars, cur, normalized, errors, applied, wcWaited,
                 batchError, envVars>>

-----------------------------------------------------------------------------
(* The environment                                                         *)

StepDown ==
  /\ primary /\ stepDowns < MaxStepDowns
  /\ primary' = FALSE /\ stepDowns' = stepDowns + 1
  /\ UNCHANGED <<reqVars, pc, cur, normalized, errors, applied, wcWaited,
                 batchError, respErrors, shardVer, configVer, critical>>

StepUp ==
  /\ ~primary /\ primary' = TRUE
  /\ UNCHANGED <<reqVars, pc, cur, normalized, errors, applied, wcWaited,
                 batchError, respErrors, stepDowns, shardVer, configVer, critical>>

\* Another operation refreshes the shard's metadata from the config server.
OtherRefresh ==
  /\ shardVer < configVer /\ shardVer' = configVer
  /\ UNCHANGED <<reqVars, pc, cur, normalized, errors, applied, wcWaited,
                 batchError, respErrors, primary, stepDowns, configVer, critical>>

\* A migration off this shard enters its critical section ...
EnterCriticalSection ==
  /\ ~critical /\ configVer < MaxVersion
  /\ critical' = TRUE
  /\ UNCHANGED <<reqVars, pc, cur, normalized, errors, applied, wcWaited,
                 batchError, respErrors, primary, stepDowns, shardVer, configVer>>

\* ... and commits, bumping the collection's version on the shard.
CommitMigration ==
  /\ critical
  /\ critical' = FALSE
  /\ configVer' = configVer + 1 /\ shardVer' = configVer + 1
  /\ UNCHANGED <<reqVars, pc, cur, normalized, errors, applied, wcWaited,
                 batchError, respErrors, primary, stepDowns>>

Next ==
  \/ ExecuteBatch \/ ExecItem \/ FillStaleErrors \/ EnforceWriteConcern
  \/ RefreshIfStale \/ WaitForMigrationCommit \/ Respond
  \/ StepDown \/ StepUp \/ OtherRefresh \/ EnterCriticalSection
  \/ CommitMigration

Spec == Init /\ [][Next]_vars

-----------------------------------------------------------------------------
(* Properties                                                              *)

TypeOK ==
  /\ batchType \in BatchTypes /\ ordered \in BOOLEAN /\ size \in 0..MaxItems
  /\ pc \in {"validate", "exec", "fill", "wc", "stale", "wait", "respond", "done"}
  /\ cur \in 1..MaxItems + 1 /\ normalized \in 0..MaxItems
  /\ errors \in Seq(Errors) /\ respErrors \in Seq(Errors)
  /\ applied \subseteq 1..size
  /\ wcWaited \in BOOLEAN /\ batchError \in BOOLEAN
  /\ primary \in BOOLEAN /\ stepDowns \in 0..MaxStepDowns
  /\ {shardVer, configVer, reqVer} \subseteq Versions /\ critical \in BOOLEAN

\* No error in the response names an item whose write was applied, or the
\* router retries it and applies it twice; the unordered stale-version
\* fill-in must not report the items that ran after the stale one.
NoAppliedItemReportedFailed ==
  \A e \in Range(respErrors) : e.idx \notin applied

\* insertOne's invariant(currIndex < normalizedInserts.size()): every
\* insert executeBatch reaches was normalised, although normalizeInserts
\* stops an ordered batch at the first bad document.
InsertWithinNormalized ==
  batchType = "insert" /\ pc = "exec" /\ cur <= size => cur <= normalized

\* What the comment before needToEnforceWC says: write concern is
\* enforced when something succeeded and the batch is unordered.
UnorderedSuccessAwaitsWC ==
  pc \in {"stale", "wait", "respond", "done"} /\ ~ordered /\ applied /= {}
    => wcWaited

=============================================================================
