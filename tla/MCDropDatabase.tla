--------------------------- MODULE MCDropDatabase ---------------------------
(***************************************************************************)
(* Two clients calling dropDatabase on one database, so that one can call *)
(* while the other waits with its locks released.  Three collections, one *)
(* of them with its oplog disabled; Init lets each start live, drop-      *)
(* pending (drop at optime 1) or absent, so a call can drop collections,  *)
(* find only pending ones, or find nothing.  Three calls let a client     *)
(* retry after a failed wait or a stepdown, or call again after a success *)
(* (NamespaceNotFound); one write conflict in the collection loop; one    *)
(* stepdown; users write up to optime 5, recreating collections.         *)
(***************************************************************************)
EXTENDS DropDatabase

CONSTANTS d1, d2, c1, c2, c3

MCCallers == {d1, d2}
MCColls == {c1, c2, c3}
MCUnreplicated == {c3}
=============================================================================
