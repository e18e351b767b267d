----------------------------- MODULE MCDiagnostics ----------------------------
(***************************************************************************)
(* Two reporters contend for a channel of one event and a window of two.   *)
(* The count of suppressed reports saturates below the number of reports.  *)
(***************************************************************************)
EXTENDS Diagnostics

===============================================================================
