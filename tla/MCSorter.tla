------------------------------ MODULE MCSorter ------------------------------
(***************************************************************************)
(* Model of the sorter for TLC.  Three records of sizes 1, 1 and 2; a     *)
(* budget of 2 makes a run spill every two or three records, so five adds  *)
(* reach two spilled runs plus a residual in-memory run, and a budget of 4 *)
(* sorts in memory: both give the same output.  Limit 2 exercises top-N.   *)
(***************************************************************************)
EXTENDS Sorter

MCRecSize == [r \in Recs |-> IF r = 3 THEN 2 ELSE 1]
=============================================================================
