------------------------------- MODULE Nothing -------------------------------
(***************************************************************************)
(* null and undefined in the browser, and a storage key without an entry   *)
(* on the ledger: no account, no answer, no reservation.                   *)
(***************************************************************************)
CONSTANT None
=============================================================================
