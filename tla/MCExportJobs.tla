---------------------------- MODULE MCExportJobs ----------------------------
(* A small instance of the export jobs for TLC. *)
EXTENDS ExportJobs, TLC

CONSTANTS j1, j2, w1, w2
=============================================================================
