------------------------------ MODULE MCDbPool ------------------------------
(***************************************************************************)
(* An instance of DbPool for TLC: one writable connection and two          *)
(* read-only ones of different weight.                                     *)
(***************************************************************************)
EXTENDS DbPool, TLC

MCWeight == 0 :> 1 @@ 1 :> 2 @@ 2 :> 1
=============================================================================
