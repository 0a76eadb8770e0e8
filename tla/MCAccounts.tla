----------------------------- MODULE MCAccounts -----------------------------
(***************************************************************************)
(* Model-checking instance of Accounts: names are interchangeable, and so  *)
(* are session tokens.                                                     *)
(***************************************************************************)
EXTENDS Accounts, TLC

Symmetric == Permutations(Name) \cup Permutations(Token)
=============================================================================
