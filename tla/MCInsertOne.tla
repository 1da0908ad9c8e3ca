---------------------------- MODULE MCInsertOne ----------------------------
(***************************************************************************)
(* Two threads inserting two documents each, so both can find the         *)
(* collection missing, upgrade and create at once, and one can yield or   *)
(* retry between the other's steps; one write conflict and one drop of    *)
(* the collection or the database during the batches.                     *)
(***************************************************************************)
EXTENDS InsertOne

CONSTANTS t1, t2

MCThreads == {t1, t2}
=============================================================================
