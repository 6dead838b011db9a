CONSTANTS
  Requests = {r1, r2, r3, r4}
  Lanes = {l1, l2}
  MaxQueuedRequests = 2
  Unlimited = 9
  InitConnectionLimit = 2
  InitLaneLimit = 1
  Limits = {0, 1}
SPECIFICATION FairSpec
INVARIANTS CreditsConserved NoWaiterLost NoLostWakeup
PROPERTIES ImplementsCreditWindow EveryWaiterServed
