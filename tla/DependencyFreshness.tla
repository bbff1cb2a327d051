------------------------- MODULE DependencyFreshness -------------------------
(***************************************************************************)
(* dependency_freshness of tools/portable_checks.py: what a signed snapshot *)
(* of dependency versions says about the claims of a profile.               *)
(*                                                                          *)
(*   snapshot  [readable, observed, until, entries]                         *)
(*   entries   the sequence of observations [key, version]                  *)
(*   claims    claim identifier -> set of [key, version, onChange]          *)
(***************************************************************************)
EXTENDS Integers, Sequences

Unobserved == "unobserved"

Keys(snapshot) == {snapshot.entries[i].key : i \in DOMAIN snapshot.entries}

\* The version the snapshot gives for a dependency; the last entry wins.
Observed(snapshot, key) ==
  LET at == {i \in DOMAIN snapshot.entries : snapshot.entries[i].key = key}
  IN  IF at = {} THEN Unobserved
      ELSE snapshot.entries[CHOOSE i \in at : \A j \in at : j <= i].version

SnapshotErrors(snapshot, claims, asOf) ==
  LET declared == {d.key : d \in UNION {claims[c] : c \in DOMAIN claims}}
  IN  IF ~snapshot.readable THEN {"unreadable"}
      ELSE {e \in {"future", "stale", "duplicate", "undeclared"} :
              CASE e = "future"     -> snapshot.observed > asOf
                [] e = "stale"      -> snapshot.until <= asOf
                [] e = "duplicate"  -> \E i, j \in DOMAIN snapshot.entries :
                                         i # j /\ snapshot.entries[i].key
                                                    = snapshot.entries[j].key
                [] e = "undeclared" -> ~(Keys(snapshot) \subseteq declared)}

Changed(snapshot, dependencies) ==
  {d \in dependencies : Observed(snapshot, d.key) # d.version}

\* One change of a dependency declared any_change makes the claim stale, any
\* other change asks for a review.
Freshness(snapshot, dependencies) ==
  LET changed == Changed(snapshot, dependencies)
  IN  CASE \E d \in changed : d.onChange = "any_change" -> "STALE"
        [] changed # {} /\ \A d \in changed : d.onChange # "any_change"
             -> "REVIEW_REQUIRED"
        [] OTHER -> "CURRENT"

ClaimFreshness(snapshot, claims) ==
  [c \in DOMAIN claims |-> Freshness(snapshot, claims[c])]
=============================================================================
