CONSTANTS
  Producers = {p1, p2}
  Consumers = {c1, c2}
  MaxPushes = 2
  NoThread = NoThread
SPECIFICATION FairSpec
INVARIANTS TypeOK PopSafe NoLostWakeup QueueInv
PROPERTIES ImplementsChannel EventuallyPopped
