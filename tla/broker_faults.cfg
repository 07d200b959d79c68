\* Safety under crashes, a second broker process, store errors and a clock
\* that is set back.
CONSTANTS
  j1 = j1  j2 = j2  j3 = j3
  NoJob = NoJob
  Jobs <- ThreeJobs
  Policy <- MixedPolicy
  LineageOf <- MixedLineage
  PeerOf <- OnePeer
  FailureReason = {"unhealthy", "handler_failed"}
  TechnicalReason = {"handler_failed"}
  MaximumTechnicalFailures = 1
  LineageWindow = 2
  MaxOpenPerUid = 2
  MaxOpenPerLineage = 1
  MaxJobsPerUidWindow = 3
  RateWindow = 1
  QueueCapacity = 1
  Faults = {"crash", "clock", "second_instance", "store"}
  MaxFaults = 2
  MaxClock = 1
SPECIFICATION Spec
INVARIANTS HandlerRunsOnce ReceiptMatchesRecord LedgerExplainsRecord
PROPERTIES ImplementsOneShotJob
