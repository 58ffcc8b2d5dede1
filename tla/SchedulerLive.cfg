SPECIFICATION FairSpec
CONSTANTS
  j1 = j1  j2 = j2  j3 = j3
  gpt = gpt  claude = claude
  NoLease = NoLease
  Job = {j1, j2}
  Queue <- TwoQueues
  QueueOf <- TwoQueueOf
  Worker = {1}
  LeaseId = {1, 2, 3}
  Deniable = {j1}
  Flaky = {j1}
  RetryDelays = {0}
  ErrorDelay = 0
  IdleInterval = 1
  ChanFactor = 1
PROPERTIES AdmittedJobsRun ShutdownEnds
