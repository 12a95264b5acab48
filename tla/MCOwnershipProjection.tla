----------------------- MODULE MCOwnershipProjection ------------------------
(* Every block moves the token or burns it, so that four blocks give an     *)
(* anchor with history below it, two reorgs and two rollbacks.              *)
EXTENDS OwnershipProjection
=============================================================================
