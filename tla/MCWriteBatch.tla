---------------------------- MODULE MCWriteBatch ----------------------------
(***************************************************************************)
(* Batches of up to four items against a maximum batch size of three, so  *)
(* empty, oversized and accepted batches all occur; versions up to 3 let  *)
(* the request be older or newer than the shard and a migration commit    *)
(* during the batch; one stepdown.                                        *)
(***************************************************************************)
EXTENDS WriteBatch
=============================================================================
