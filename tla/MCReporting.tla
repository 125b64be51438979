---------------------------- MODULE MCReporting ----------------------------
(* A small instance of the reporting path. *)
EXTENDS Reporting
=============================================================================
