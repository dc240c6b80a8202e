----------------------------- MODULE MCCleaner -----------------------------
(***************************************************************************)
(* Small instances of Cleaner.                                             *)
(***************************************************************************)
EXTENDS Cleaner

CONSTANTS v1, e1, e2
=============================================================================
