--------------------------- MODULE SortAbstract ----------------------------
(***************************************************************************)
(* What the sorting framework promises its caller (sorter.h, spec.md      *)
(* sections 2, 4.5 and 8), with no buffer, spill, file or merge heap:     *)
(* records are added while the sort is open; once it is closed by done(),  *)
(* the output grows one record at a time, each the smallest record added  *)
(* and not yet produced, until min(limit, #added) records are out; the     *)
(* sort may be aborted at any point (an error, or the caller dropping it), *)
(* after which nothing more is produced.                                   *)
(*                                                                         *)
(* A record stands for a (Key, Value) pair; records are numbered so that   *)
(* the caller's comparator is <= on the numbers.                           *)
(***************************************************************************)
EXTENDS Integers, Sequences, Bags, SequencesExt

CONSTANTS Recs

\* limit is SortOptions.limit, fixed when the sorter is made.
VARIABLES added, out, status, limit

vars == <<added, out, status, limit>>

\* How many records the output holds when it is complete: all of them when
\* limit = 0, else the limit smallest (SortOptions.limit).
Bound == IF limit = 0 \/ Len(added) < limit THEN Len(added) ELSE limit

\* The records added and not yet produced, as a multiset.
Unproduced == ToBag(added) (-) ToBag(out)

Init ==
  /\ added = <<>>
  /\ out = <<>>
  /\ status = "open"
  /\ limit \in Nat

Add(r) ==
  /\ status = "open"
  /\ added' = Append(added, r)
  /\ UNCHANGED <<out, status, limit>>

Close ==
  /\ status = "open"
  /\ status' = "closed"
  /\ UNCHANGED <<added, out, limit>>

Emit ==
  /\ status = "closed"
  /\ Len(out) < Bound
  /\ \E m \in BagToSet(Unproduced) :
       /\ \A x \in BagToSet(Unproduced) : m <= x
       /\ out' = Append(out, m)
  /\ UNCHANGED <<added, status, limit>>

Abort ==
  /\ status /= "aborted"
  /\ status' = "aborted"
  /\ UNCHANGED <<added, out, limit>>

Next ==
  \/ \E r \in Recs : Add(r)
  \/ Close
  \/ Emit
  \/ Abort

Spec == Init /\ [][Next]_vars
=============================================================================
