----------------------------- MODULE MCAccounts -----------------------------
(* Accounts with two requests at once, and two users whose addresses       *)
(* differ in nothing but case; whatever has no name of its own is          *)
(* interchangeable, and every property is a safety property.               *)
EXTENDS Accounts, TLC

MCAddressOf == [u \in Users |-> CHOOSE a \in Addresses : TRUE]

MCSymmetry ==
  Permutations(Workspaces) \cup Permutations(Users) \cup Permutations(Tokens)
    \cup Permutations(Requests) \cup Permutations(Keys)
=============================================================================
