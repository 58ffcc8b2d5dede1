SPECIFICATION Spec
CONSTANTS
  j1 = j1  j2 = j2  j3 = j3
  gpt = gpt  claude = claude
  NoLease = NoLease
  Job = {j1, j2, j3}
  Queue <- TwoQueues
  QueueOf <- McQueueOf
  Worker = {1, 2}
  LeaseId = {1, 2, 3}
  Deniable = {j1}
  Flaky = {j1}
  RetryDelays = {0, 2}
  ErrorDelay = 1
  IdleInterval = 1
  ChanFactor = 1
INVARIANTS JobsConserved LeaseDiscipline
