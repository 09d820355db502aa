-------------------------------- MODULE MCScan --------------------------------
(***************************************************************************)
(* Small instances of ScanPage for TLC.                                    *)
(***************************************************************************)
EXTENDS ScanPage, TLC

CONSTANTS paula, quinn
=============================================================================
