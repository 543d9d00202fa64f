---------------------------- MODULE MCImportJobs ----------------------------
(* ImportJobs for TLC; imports.cfg gives the constants their values. *)
EXTENDS ImportJobs
=============================================================================
