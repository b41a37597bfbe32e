--------------------------- MODULE MCConfirmation ---------------------------
(* Confirmation for TLC: complete API credentials, and a key without a      *)
(* tenant, which disables the service although a wallet is configured.      *)
EXTENDS Confirmation

MCConfigs ==
  {[apiKey |-> TRUE, org |-> TRUE, tenant |-> TRUE, wallet |-> "none"],
   [apiKey |-> TRUE, org |-> TRUE, tenant |-> FALSE, wallet |-> "usable"]}

FairSpec == Spec /\ Fairness
==============================================================================
