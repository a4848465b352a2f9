------------------------------- MODULE Results ------------------------------
(***************************************************************************)
(* Option and Result of the program: Unset stands for None, and a failure  *)
(* is told from every other record by its field.                           *)
(***************************************************************************)
CONSTANT Unset

Failure(kind) == [error |-> kind]
IsFailure(result) == "error" \in DOMAIN result
=============================================================================
