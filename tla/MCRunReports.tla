---------------------------- MODULE MCRunReports ----------------------------
(* RunReports needs no value that a configuration file cannot write.        *)
EXTENDS RunReports
=============================================================================
