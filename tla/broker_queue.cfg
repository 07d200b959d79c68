\* Automatic jobs of one lineage against the submission limits, the circuit
\* breaker and a queue of one, with a crash.
CONSTANTS
  j1 = j1  j2 = j2  j3 = j3
  NoJob = NoJob
  Jobs <- ThreeJobs
  Policy <- AllAuto
  LineageOf <- OneLineage
  PeerOf <- OnePeer
  FailureReason = {"handler_failed"}
  TechnicalReason = {"handler_failed"}
  MaximumTechnicalFailures = 1
  LineageWindow = 2
  MaxOpenPerUid = 2
  MaxOpenPerLineage = 2
  MaxJobsPerUidWindow = 2
  RateWindow = 1
  QueueCapacity = 1
  Faults = {"crash"}
  MaxFaults = 1
  MaxClock = 2
SPECIFICATION FairSpec
INVARIANTS AdmissionBounded
PROPERTIES ClaimedJobSettles AutomaticJobDecided
