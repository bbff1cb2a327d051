SPECIFICATION ClientsSpec
CONSTANTS
  ClientIntent = {i1, i2}
  ClientKey = {k1, k2, k3}
INVARIANTS
  OneEffectPerKey
  LostCallIsReconcilable
