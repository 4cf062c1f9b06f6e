----------------------------- MODULE MCAccounts -----------------------------
(***************************************************************************)
(* A small instance of Accounts for TLC.                                   *)
(***************************************************************************)
EXTENDS Accounts, TLC

Symmetry == Permutations(Users) \cup Permutations(Requests)

(* The setting was changed long before the start. *)
LongAgo == -9
=============================================================================
