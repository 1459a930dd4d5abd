CONSTANTS
  Groups6 = 4
  GroupBytes = 1
  ByteBits = 2
  MappedPrefix <- MCMappedPrefix
  DottedAsHex <- MCDottedAsHex
  Loopback <- MCLoopback
  DefaultEntries <- MCDefaultEntries
  NoPublicDomains <- MCNoPublicDomains
  Label <- MCLabel
  Empty = ""
  Lower <- MCLower
  Texts <- MCTexts
  Scenarios <- MCScenarios
  SessionKeys <- MCSessionKeys
SPECIFICATION DualSpec
INVARIANTS
  PassExactly
  
  OpenOnlyIfTold
  SameValkey
  LoopComputesCandidates
  CandidatesAgreeWithHostAllowed
PROPERTY StartedWhole
CHECK_DEADLOCK FALSE
