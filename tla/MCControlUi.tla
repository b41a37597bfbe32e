---------------------------- MODULE MCControlUi ----------------------------
(* AuditApi with ControlUi for TLC: three events of two kinds; an export of *)
(* everything with a header, and a filtered one that stops at two rows; a   *)
(* loopback page, and an exposed one whose operator has opted in to verify. *)
EXTENDS ControlUi

Loopback == [nonLoopback |-> FALSE, auth |-> FALSE, allowExport |-> FALSE, allowVerify |-> FALSE]
Exposed  == [Loopback EXCEPT !.nonLoopback = TRUE, !.allowVerify = TRUE]

MCPolicies == {Loopback, Exposed}
MCKindOf   == <<"a", "b", "a">>
MCExports  == {[id |-> 1, filter |-> NoFilter, cap |-> 9, csv |-> TRUE],
               [id |-> 2, filter |-> [kind |-> "a", from |-> 1, to |-> 1], cap |-> 2, csv |-> FALSE]}
=============================================================================
