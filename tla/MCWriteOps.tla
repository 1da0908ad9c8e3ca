----------------------------- MODULE MCWriteOps -----------------------------
(***************************************************************************)
(* One insert thread of two documents, so that it can yield between its  *)
(* inserts, racing with one update or delete item of any kind on the same *)
(* namespace; one write conflict per side and one stepdown; drops are     *)
(* unbounded.  Races between two insert threads are checked by            *)
(* MCInsertOne.                                                            *)
(***************************************************************************)
EXTENDS WriteOps

CONSTANTS i1, u1

MCInsertThreads == {i1}
MCItemThreads == {u1}
=============================================================================
