---------------------------- MODULE MCBatchCheck ----------------------------
(***************************************************************************)
(* Batches of one or two contexts of two users; an action resolves to one   *)
(* relation (delete) or to two (approve).                                   *)
(***************************************************************************)
EXTENDS BatchCheck

MCRelations == {"owner", "admin"}
MCWants == {{"owner"}, {"owner", "admin"}}
=============================================================================
