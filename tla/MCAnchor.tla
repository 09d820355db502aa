------------------------------- MODULE MCAnchor -------------------------------
(***************************************************************************)
(* Small instances of AnchorDeposit for TLC.                               *)
(***************************************************************************)
EXTENDS AnchorProperties, TLC

CONSTANTS alice, bob

Deposits == 1..MaxDeposits
AccountSymmetry == Permutations(Account)
=============================================================================
