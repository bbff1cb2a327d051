--------------------------- MODULE ProviderClients ---------------------------
(***************************************************************************)
(* The provider under arbitrary callers: any intent, any key, any number of *)
(* repeats, any response lost.  It shows what the provider alone promises,  *)
(* which is what the profile-aware variant builds on.                       *)
(***************************************************************************)
EXTENDS RefundProvider

CONSTANTS ClientIntent, ClientKey

VARIABLES
  answers,  \* the responses callers received: [intent, key, effect]
  lost      \* the calls whose response was lost: [intent, key]

clientVars == <<byKey, effects, answers, lost>>

ClientsTypeOK ==
  /\ effects \in Seq([intent : ClientIntent, key : ClientKey])
  /\ DOMAIN byKey \subseteq ClientKey
  /\ \A k \in DOMAIN byKey : byKey[k] \in DOMAIN effects
  /\ answers \subseteq [intent : ClientIntent, key : ClientKey, effect : DOMAIN effects]
  /\ lost \subseteq [intent : ClientIntent, key : ClientKey]

ClientsInit ==
  /\ ProviderInit
  /\ answers = {}
  /\ lost = {}

CallAnswered(i, k) ==
  /\ Commit(i, k)
  /\ answers' = answers \cup {[intent |-> i, key |-> k, effect |-> EffectId(k)]}
  /\ UNCHANGED lost

\* Seeded fault: losing the response loses the effect as well.
CallLostBeforeCommit(i, k) ==
  /\ lost' = lost \cup {[intent |-> i, key |-> k]}
  /\ UNCHANGED <<byKey, effects, answers>>

CallLost(i, k) ==
  /\ Commit(i, k)
  /\ lost' = lost \cup {[intent |-> i, key |-> k]}
  /\ UNCHANGED answers

ClientsNext == \E i \in ClientIntent, k \in ClientKey : CallAnswered(i, k) \/ CallLost(i, k)

ClientsSpec == ClientsInit /\ [][ClientsNext]_clientVars

-----------------------------------------------------------------------------

(***************************************************************************)
(* However often a key is used, answered or not, it stands for one effect,  *)
(* and every answer under it names that effect: a retry under a stable key  *)
(* never pays twice and never confuses two payments.                        *)
(***************************************************************************)
OneEffectPerKey ==
  /\ \A a, b \in DOMAIN effects : effects[a].key = effects[b].key => a = b
  /\ \A r, s \in answers : r.key = s.key => r.effect = s.effect

\* The keys under which an intent has been submitted.
KeysOf(i) == {c.key : c \in {d \in answers \cup lost : d.intent = i}}

(***************************************************************************)
(* A call whose response was lost took effect.  If its key was never used   *)
(* for another intent, the lookup by intent finds it: this is what makes    *)
(* reconciliation before a retry possible at all.                           *)
(***************************************************************************)
LostCallIsReconcilable ==
  \A c \in lost :
    (\A i \in ClientIntent \ {c.intent} : c.key \notin KeysOf(i))
      => \E e \in LookupByIntent(c.intent) : effects[e].key = c.key
=============================================================================
