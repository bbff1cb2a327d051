----------------------------- MODULE MCSharedFate -----------------------------
(***************************************************************************)
(* SharedFate on topologies of seven components: one for each critical      *)
(* role, an identity provider and a further component that is either a      *)
(* second authorization component or a plain one.  Cyclic topologies, a     *)
(* missing critical role, a missing fault target, an unknown or absent      *)
(* guard mode, a wrong exercise mode, malformed parameters and a profile    *)
(* without the claim are among the scenarios.                               *)
(***************************************************************************)
EXTENDS SharedFate

MCComponent == {"primary", "fallback", "policy", "status", "operators", "idp", "extra"}

Dependencies ==
  {[c \in MCComponent |->
      CASE c = "primary" -> p [] c = "fallback" -> f [] c = "policy" -> a
        [] c = "status" -> o [] c = "operators" -> h [] c = "idp" -> i
        [] OTHER -> e] :
     p \in {{}, {"idp"}, {"policy", "extra"}}, f \in {{}, {"idp"}, {"status"}, {"extra"}},
     a \in {{}, {"idp"}, {"extra"}}, o \in {{}, {"idp"}}, h \in {{}, {"status"}},
     i \in {{}, {"extra"}}, e \in {{}, {"idp"}}}

Roles ==
  LET usual == [c \in MCComponent |->
        CASE c = "primary" -> "primary_execution" [] c = "fallback" -> "fallback_execution"
          [] c = "policy" -> "authorization" [] c = "status" -> "external_outcome"
          [] c = "operators" -> "human_handover" [] OTHER -> "other"]
  IN  {usual, [usual EXCEPT !["extra"] = "authorization"],
       [usual EXCEPT !["operators"] = "other"]}

MCScenarios ==
  [mode : {"deterministic_simulation"}, deps : Dependencies, role : Roles,
   targets : {{"idp"}, {"extra"}, {"policy", "status"}, {"policy", "operators"}, {"unlisted"}},
   guard : {"fail_closed", "bypass_on_unavailable", "unknown"},
   parameters : {"numbers"}, claimListed : {TRUE}]
    \cup
  [mode : {"deterministic_simulation", "sandbox"}, deps : {[c \in MCComponent |-> {}]},
   role : Roles, targets : {{"idp"}, {"primary", "fallback"}, {"policy"}},
   guard : {"fail_closed", "bypass_on_unavailable", "absent"},
   parameters : {"numbers", "not_numbers", "unreadable"}, claimListed : BOOLEAN]
=============================================================================
