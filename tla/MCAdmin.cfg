CONSTANTS
  Key <- MCKey
  Id = {"u", "[u]"}
  Plain = {"u"}
  Own <- MCOwn
  Matching <- MCMatching
  Bare <- MCBare
  Slot = {1, 2, 3}
  SlotOf <- MCSlotOf
  MaxRequests = 2
  MaxRetries = 1
  MaxResizes = 1
  MaxChanges = 2
SPECIFICATION Spec
INVARIANTS
  ListingComplete
  ListingSound
  NotFoundMeansNone
  RepeatedOnlyByResize
PROPERTY Answered
CHECK_DEADLOCK FALSE
