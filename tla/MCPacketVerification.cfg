SPECIFICATION Spec
CONSTANT Packets <- MCPackets
INVARIANTS
  VerifiedIsSound
  RejectionIsExplained
  SupportRestsOnProofs
  PartialSupportIsNotSupport
  CurrentRestsOnASnapshot
  TrustedCoversEveryProof
  ForgeryIsInvalid
  InvalidMeansForgedOrQuoted
CHECK_DEADLOCK FALSE
