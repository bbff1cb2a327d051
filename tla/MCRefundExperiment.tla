-------------------------- MODULE MCRefundExperiment --------------------------
(***************************************************************************)
(* RefundExperiment on a workload of five intents, with every loss count    *)
(* from one below the legal range to one above it, and profiles that        *)
(* describe the scenario as the runner does or otherwise in one or more     *)
(* respects.                                                                *)
(***************************************************************************)
EXTENDS RefundExperiment

MCLossCounts == -1 .. 6

MCContexts ==
  [mode : {"deterministic_simulation", "sandbox"},
   injects : {<< >>, <<"refund-connector">>, <<"refund-provider">>,
              <<"refund-connector", "refund-connector">>},
   fault : {"response-loss-after-commit", "other-fault"},
   shared : {<< >>, <<"refund-provider-status-api">>},
   claims : SUBSET {"refund-provider-outage", "other-claim"}]
=============================================================================
