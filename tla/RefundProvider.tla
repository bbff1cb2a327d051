--------------------------- MODULE RefundProvider ---------------------------
(***************************************************************************)
(* The authoritative refund provider of the response-loss game day         *)
(* (FakeRefundProvider): a ledger of external effects with native          *)
(* idempotency on a key the caller chooses and a lookup by intent.  This    *)
(* module holds its state and operations; the callers are ProviderClients   *)
(* (anybody), ProfileAware and ConventionalRetry (the two variants).        *)
(***************************************************************************)
EXTENDS Integers, Sequences, FiniteSets

VARIABLES
  byKey,    \* idempotency key -> the effect committed under it
  effects   \* the ledger: effects[e] is the effect with effect id e

ProviderInit ==
  /\ byKey = [k \in {} |-> 0]
  /\ effects = << >>

\* The effect a commit under this key yields: the one already committed under
\* it, or the next entry of the ledger.
EffectId(key) ==
  IF key \in DOMAIN byKey THEN byKey[key] ELSE Len(effects) + 1

\* Seeded fault: the index of committed keys is never consulted.
CommitIgnoringKey(intent, key) ==
  /\ effects' = Append(effects, [intent |-> intent, key |-> key])
  /\ byKey' = [k \in DOMAIN byKey \cup {key} |->
                 IF k = key THEN Len(effects) + 1 ELSE byKey[k]]

\* The provider's side of a commit.  Whether the caller sees the response is
\* decided after this, so a lost response never undoes an effect.
Commit(intent, key) ==
  /\ effects' = IF key \in DOMAIN byKey
                THEN effects
                ELSE Append(effects, [intent |-> intent, key |-> key])
  /\ byKey' = [k \in DOMAIN byKey \cup {key} |-> EffectId(k)]

\* Every effect the ledger holds for an intent.
LookupByIntent(intent) == {e \in DOMAIN effects : effects[e].intent = intent}
=============================================================================
