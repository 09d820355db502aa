------------------------------- MODULE Accounts -------------------------------
(***************************************************************************)
(* The accounts that the wallet and the sign-in at the anchor share.       *)
(***************************************************************************)
EXTENDS Nothing

CONSTANT Account      \* the accounts of the user of one browser

ASSUME AccountsAssumption == None \notin Account

Address == Account \cup {None}
=============================================================================
