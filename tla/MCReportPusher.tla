--------------------------- MODULE MCReportPusher ---------------------------
(* ReportPusher for TLC: timers fire and a webhook that is sent to answers. *)
EXTENDS ReportPusher

FairSpec == Spec /\ WF_vars(Progress)
==============================================================================
