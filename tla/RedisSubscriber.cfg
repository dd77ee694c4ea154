CONSTANTS
  MaxNode = 4
  Channel = 2
  MaxUnread = 2
  MaxOutage = 2
  MaxRestart = 2
SPECIFICATION Spec
INVARIANTS
  OneSubscriber
  LostForAConfirmation
PROPERTY
  SubscriptionReturns
