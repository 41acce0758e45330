CONSTANTS
  BlankTokens = FALSE
  MaxFrames = 2
  Kinds = {"data", "dpd_request", "disconnect"}
  MaskBits = 2
  Mtus = {0, 67, 68, 1400}
  MaxRingFaults = 1
SPECIFICATION FairSpec
CHECK_DEADLOCK FALSE
INVARIANTS
  
  OneHonestLoss
  NothingUndecoded
PROPERTIES
  SessionSettles
