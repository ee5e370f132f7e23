SPECIFICATION FairSpec
CONSTANTS
  HasHw = TRUE
  Shared = FALSE
  Wrap = 8
  MaxQueued = 2
  MaxCredit = 2
INVARIANTS TypeOK Accounts PollUnblocked NoSpuriousWakeup SubscribeAgrees
PROPERTIES DrainEnds ReadReturns EventsDelivered
CHECK_DEADLOCK FALSE
