--------------------------- MODULE MCHostReports ---------------------------
(***************************************************************************)
(* Heartbeats of one host, for TLC.                                        *)
(***************************************************************************)
EXTENDS HostReports
=============================================================================
