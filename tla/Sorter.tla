------------------------------- MODULE Sorter -------------------------------
(***************************************************************************)
(* The external sorter of src/mongo/db/sorter/sorter.h: the NoLimitSorter  *)
(* facade (add, done, spill), the SortedFileWriter that seals a spilled    *)
(* run in a temporary file, the MergeIterator over the in-memory run and   *)
(* the file runs (more/next), and the FileDeleter shared by every owner    *)
(* of a run file.  sorter.cpp is not in the repository: the behaviour of   *)
(* these classes is taken from spec.md (sections 3 to 5 and 7), the types, *)
(* options and ownership from sorter.h.                                    *)
(*                                                                         *)
(* A record stands for a (Key, Value) pair; records are numbered so that   *)
(* the comparator is <= on the numbers.  Records are values, so two equal  *)
(* under the comparator are the same record.                               *)
(***************************************************************************)
EXTENDS Integers, Sequences, FiniteSets, SequencesExt

CONSTANTS
  Recs,       \* the records a caller may add
  RecSize,    \* RecSize[r]: memUsageForSorter() of record r
  Limits,     \* values of SortOptions.limit the caller may choose
  Budgets,    \* values of SortOptions.maxMemoryUsageBytes
  MaxAdds     \* bound on the number of add() calls

ASSUME Recs \subseteq Int /\ RecSize \in [Recs -> Nat \ {0}]
ASSUME Limits \subseteq Nat /\ Budgets \subseteq Nat \ {0}
ASSUME MaxAdds \in Nat \ {0}

\* Temporary files: each spill creates the next one (a new unique name).
FileIds == 1..MaxAdds
\* Holders of a run file's FileDeleter: the sorter's list of spilled runs
\* and the merge iterator that done() hands out.
Holders == {"sorter", "merge"}
\* States of the iterator done() returns; "none" before done().
IterStates == {"none", "constructed", "primed", "exhausted", "failed", "destroyed"}
LiveIter == {"constructed", "primed", "exhausted", "failed"}

VARIABLES
  opts,       \* the SortOptions the sorter was made with
  added,      \* history: the records passed to add(), in order
  buffer,     \* records added since the last spill (the unsorted buffer)
  memUsed,    \* running estimate of the buffer's memory
  runs,       \* file ids of the sealed runs, in spill order
  content,    \* content[f]: the records written to file f
  onDisk,     \* files present in the scratch directory
  owners,     \* owners[f]: the holders of f's FileDeleter
  phase,      \* "adding", "done" or "failed" (an add or spill threw)
  sorterLive, \* the Sorter object has not been destroyed
  srcs,       \* the merge iterator's children: [data, file], file 0 = in memory
  pos,        \* pos[i]: index of child i's current head
  iter,       \* state of the merge iterator
  out         \* records next() has returned, in order

vars == <<opts, added, buffer, memUsed, runs, content, onDisk, owners,
          phase, sorterLive, srcs, pos, iter, out>>

-----------------------------------------------------------------------------
(* Helpers                                                                 *)

\* The sorted order of a sequence of records (std::sort under the
\* comparator): position i holds the record with fewer than i records
\* below it and at least i records at or below it.
SortRecs(s) ==
  LET Below(v) == Cardinality({j \in DOMAIN s : s[j] < v})
      UpTo(v) == Cardinality({j \in DOMAIN s : s[j] <= v})
  IN [i \in 1..Len(s) |-> CHOOSE v \in Range(s) : Below(v) < i /\ i <= UpTo(v)]

\* Dropping one holder's reference: a file whose last reference goes is
\* deleted (FileDeleter's destructor), exactly then.
Release(who) ==
  LET left == [f \in FileIds |-> owners[f] \ {who}]
  IN /\ owners' = left
     /\ onDisk' = {f \in onDisk : who \in owners[f] => left[f] /= {}}

\* Children of the merge iterator that still hold records.
Heads == {i \in DOMAIN srcs : pos[i] <= Len(srcs[i].data)}
HeadOf(i) == srcs[i].data[pos[i]]
\* The file-backed children whose next read goes to disk.
FileReads == {i \in Heads : srcs[i].file /= 0}
\* The merge may still produce a record (SortOptions.limit, 0 = no limit).
UnderLimit == opts.limit = 0 \/ Len(out) < opts.limit

-----------------------------------------------------------------------------
(* The Sorter facade                                                       *)

Init ==
  /\ opts \in [limit : Limits, maxMemoryUsageBytes : Budgets,
               extSortAllowed : BOOLEAN]
  /\ added = <<>>
  /\ buffer = <<>>
  /\ memUsed = 0
  /\ runs = <<>>
  /\ content = [f \in FileIds |-> <<>>]
  /\ onDisk = {}
  /\ owners = [f \in FileIds |-> {}]
  /\ phase = "adding"
  /\ sorterLive = TRUE
  /\ srcs = <<>>
  /\ pos = <<>>
  /\ iter = "none"
  /\ out = <<>>

\* Plausible bugs, each the definition below it done wrong.
\* The buffer is written as it stands, never sorted.
SpillUnsorted(data) ==
  LET f == Len(runs) + 1
  IN /\ content' = [content EXCEPT ![f] = data]
     /\ runs' = Append(runs, f)
     /\ onDisk' = onDisk \cup {f}
     /\ owners' = [owners EXCEPT ![f] = {"sorter"}]
     /\ buffer' = <<>>
     /\ memUsed' = 0
     /\ UNCHANGED phase

\* The spill writes the buffer as it was before the record that pushed it
\* over the budget was appended, and then clears it.
SpillBeforeAppend(data) ==
  LET f == Len(runs) + 1
  IN /\ content' = [content EXCEPT ![f] = SortRecs(Front(data))]
     /\ runs' = Append(runs, f)
     /\ onDisk' = onDisk \cup {f}
     /\ owners' = [owners EXCEPT ![f] = {"sorter"}]
     /\ buffer' = <<>>
     /\ memUsed' = 0
     /\ UNCHANGED phase

\* A spill: sort the buffer, write it through a SortedFileWriter to a new
\* file, seal it and keep the returned run; clear the buffer.  The writer
\* holds the file's FileDeleter from creation, and hands it to the run.
Spill(data) ==
  LET f == Len(runs) + 1
  IN /\ content' = [content EXCEPT ![f] = SortRecs(data)]
     /\ runs' = Append(runs, f)
     /\ onDisk' = onDisk \cup {f}
     /\ owners' = [owners EXCEPT ![f] = {"sorter"}]
     /\ buffer' = <<>>
     /\ memUsed' = 0
     /\ UNCHANGED phase

\* The writer creates the file before it holds a FileDeleter for it, so
\* a failed write leaves the file behind.
SpillFailsLeaks ==
  /\ phase' = "failed"
  /\ onDisk' = onDisk \cup {Len(runs) + 1}
  /\ UNCHANGED <<runs, content, owners, buffer, memUsed>>

\* The spill's write fails (IOError): the sort is aborted; the partly
\* written file goes with the writer's FileDeleter, and is never a run.
SpillFails ==
  /\ phase' = "failed"
  /\ UNCHANGED <<runs, content, onDisk, owners, buffer, memUsed>>

\* Over the budget: spill when extSortAllowed, else fail with
\* MemoryLimitExceeded.  A record whose add() throws is not added.
OverBudget(r, data) ==
  \/ /\ ~opts.extSortAllowed
     /\ phase' = "failed"
     /\ UNCHANGED <<added, runs, content, onDisk, owners, buffer, memUsed>>
  \/ /\ opts.extSortAllowed
     /\ added' = Append(added, r)
     /\ Spill(data)
  \/ /\ opts.extSortAllowed
     /\ SpillFails
     /\ UNCHANGED added

\* The budget test is missing from add(): records stay in memory.
AddUnchecked(r) ==
  /\ sorterLive /\ phase = "adding"
  /\ Len(added) < MaxAdds
  /\ LET data == Append(buffer, r)
         mem == memUsed + RecSize[r]
     IN \/ /\ added' = Append(added, r)
           /\ buffer' = data /\ memUsed' = mem
           /\ UNCHANGED <<phase, runs, content, onDisk, owners>>
        \/ /\ mem > opts.maxMemoryUsageBytes
           /\ OverBudget(r, data)
  /\ UNCHANGED <<opts, sorterLive, srcs, pos, iter, out>>

\* add(key, value): append the record to the buffer and add its size to
\* the estimate; past maxMemoryUsageBytes, react as OverBudget says.
Add(r) ==
  /\ sorterLive /\ phase = "adding"
  /\ Len(added) < MaxAdds
  /\ LET data == Append(buffer, r)
         mem == memUsed + RecSize[r]
     IN \/ /\ mem <= opts.maxMemoryUsageBytes
           /\ added' = Append(added, r)
           /\ buffer' = data /\ memUsed' = mem
           /\ UNCHANGED <<phase, runs, content, onDisk, owners>>
        \/ /\ mem > opts.maxMemoryUsageBytes
           /\ OverBudget(r, data)
  /\ UNCHANGED <<opts, sorterLive, srcs, pos, iter, out>>

\* done() hands the iterator the runs without taking a reference to
\* their FileDeleters (a raw pointer instead of a shared_ptr copy).
DoneSharesNoDeleter ==
  /\ sorterLive /\ phase = "adding"
  /\ phase' = "done"
  /\ srcs' = <<[data |-> SortRecs(buffer), file |-> 0]>>
             \o [i \in 1..Len(runs) |-> [data |-> content[runs[i]], file |-> runs[i]]]
  /\ pos' = [i \in 1..Len(runs) + 1 |-> 1]
  /\ iter' = "constructed"
  /\ UNCHANGED <<opts, added, buffer, memUsed, runs, content, onDisk, owners, sorterLive, out>>

\* done(): no more adds; sort the residual buffer and return a merge
\* iterator over it and every spilled run.  The iterator takes its own
\* reference to each run file's FileDeleter.
Done ==
  /\ sorterLive /\ phase = "adding"
  /\ phase' = "done"
  /\ srcs' = <<[data |-> SortRecs(buffer), file |-> 0]>>
             \o [i \in 1..Len(runs) |-> [data |-> content[runs[i]], file |-> runs[i]]]
  /\ pos' = [i \in 1..Len(runs) + 1 |-> 1]
  /\ owners' = [f \in FileIds |->
                  IF f \in Range(runs) THEN owners[f] \cup {"merge"} ELSE owners[f]]
  /\ iter' = "constructed"
  /\ UNCHANGED <<opts, added, buffer, memUsed, runs, content, onDisk, sorterLive, out>>

\* The caller destroys the Sorter, at any point of its life.
DestroySorter ==
  /\ sorterLive
  /\ sorterLive' = FALSE
  /\ Release("sorter")
  /\ UNCHANGED <<opts, added, buffer, memUsed, runs, content, phase, srcs, pos, iter, out>>

-----------------------------------------------------------------------------
(* The merge iterator                                                      *)

\* The first more() or next() primes the heap with every child's first
\* record; reading a file child's head may fail.
Prime ==
  /\ iter = "constructed"
  /\ \/ iter' = "primed"
     \/ FileReads /= {} /\ iter' = "failed"
  /\ UNCHANGED <<opts, added, buffer, memUsed, runs, content, onDisk, owners,
                 phase, sorterLive, srcs, pos, out>>

\* next(): pop the smallest head, return it and advance its child.
MergeNext ==
  /\ iter = "primed" /\ UnderLimit
  /\ \E i \in Heads :
       /\ \A j \in Heads : HeadOf(i) <= HeadOf(j)
       /\ out' = Append(out, HeadOf(i))
       /\ pos' = [pos EXCEPT ![i] = @ + 1]
  /\ UNCHANGED <<opts, added, buffer, memUsed, runs, content, onDisk, owners,
                 phase, sorterLive, srcs, iter>>

\* Refilling a file child from disk fails (IOError or DeserializationError).
ReadFails ==
  /\ iter = "primed" /\ UnderLimit /\ FileReads /= {}
  /\ iter' = "failed"
  /\ UNCHANGED <<opts, added, buffer, memUsed, runs, content, onDisk, owners,
                 phase, sorterLive, srcs, pos, out>>

\* more() is false: every child is drained, or the limit is reached.
Exhaust ==
  /\ iter = "primed" /\ ~(UnderLimit /\ Heads /= {})
  /\ iter' = "exhausted"
  /\ UNCHANGED <<opts, added, buffer, memUsed, runs, content, onDisk, owners,
                 phase, sorterLive, srcs, pos, out>>

\* The caller destroys the iterator, drained or not.
DestroyIterator ==
  /\ iter \in LiveIter
  /\ iter' = "destroyed"
  /\ Release("merge")
  /\ UNCHANGED <<opts, added, buffer, memUsed, runs, content, phase, sorterLive, srcs, pos, out>>

Next ==
  \/ \E r \in Recs : Add(r)
  \/ Done
  \/ DestroySorter
  \/ Prime
  \/ MergeNext
  \/ ReadFails
  \/ Exhaust
  \/ DestroyIterator

Spec == Init /\ [][Next]_vars

-----------------------------------------------------------------------------
(* Properties                                                              *)

TypeOK ==
  /\ opts \in [limit : Limits, maxMemoryUsageBytes : Budgets, extSortAllowed : BOOLEAN]
  /\ added \in Seq(Recs) /\ buffer \in Seq(Recs) /\ out \in Seq(Recs)
  /\ memUsed \in 0..opts.maxMemoryUsageBytes
  /\ runs \in Seq(FileIds) /\ content \in [FileIds -> Seq(Recs)]
  /\ onDisk \subseteq FileIds /\ owners \in [FileIds -> SUBSET Holders]
  /\ phase \in {"adding", "done", "failed"} /\ sorterLive \in BOOLEAN
  /\ iter \in IterStates

\* The caller's view of the sort: open until done(), closed after it while
\* the iterator lives, aborted by an error or by the caller dropping it.
SortStatus ==
  IF \/ phase = "failed" \/ iter \in {"failed", "destroyed"}
     \/ (~sorterLive /\ phase = "adding")
  THEN "aborted"
  ELSE IF phase = "done" THEN "closed" ELSE "open"

Abs == INSTANCE SortAbstract WITH status <- SortStatus, limit <- opts.limit

\* Spill transparency, sorted order and top-N: whatever the budget and the
\* number of spilled runs, every record next() returns is the smallest
\* record added and not yet returned, and no more than limit are returned
\* (the facade, SortedFileWriter and MergeIterator together implement the
\* abstract sort).
SortRefinement == Abs!Spec

\* Completeness: once more() is false, the output holds every record added
\* (limit = 0) or the limit smallest, in sorted order; none is lost in a
\* spill or left in the residual buffer.
OutputComplete ==
  iter = "exhausted" => out = SubSeq(SortRecs(added), 1, Abs!Bound)

\* No run is read after its file is deleted: every file the live sorter or
\* the live iterator still reads is on disk (FileDeleter reference counts).
NoReadOfDeletedRun ==
  /\ sorterLive => \A i \in DOMAIN runs : runs[i] \in onDisk
  /\ iter \in LiveIter =>
       \A i \in DOMAIN srcs : srcs[i].file /= 0 => srcs[i].file \in onDisk

\* Resource safety: once the sorter and its iterator are both gone, drained,
\* failed or abandoned, no temporary file of the sort is left on disk.
NoLeakedFile ==
  (~sorterLive /\ iter \in {"none", "destroyed"}) => onDisk = {}

=============================================================================
