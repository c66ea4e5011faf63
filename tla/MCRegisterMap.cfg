SPECIFICATION FairSpec
CONSTANTS
  WordSize = 2
  MaxAddress = 2
  Signals <- MCSignals
  NoSignal = NoSignal
  RawValues <- MCRawValues
  BlockReads <- MCBlockReads
  BlockWrites <- MCBlockWrites
  BitReads <- MCBitReads
  BitWrites <- MCBitWrites
  SimChoices <- MCSimChoices
  Web = {w1}
  Loop = loop
  SimSetters = {w1}
  Nobody = Nobody
INVARIANTS ConsistentReads SettingsApplied
PROPERTIES CallsReturn NoLostBits MaskedReads ImplementsAtomic
