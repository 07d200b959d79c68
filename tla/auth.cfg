SPECIFICATION Spec
CONSTANTS
  hello = hello  phone = phone  key = key  synced = synced  auto = auto  j1 = j1  j2 = j2
  c1 = c1  c2 = c2  c3 = c3  c4 = c4  t1 = t1  t2 = t2  b1 = b1  b2 = b2  b3 = b3
  Labels = {"office_windows_hello", "remote_phone_passkey", "recovery_fido2"}
  Jobs = {auto, j1}
  Devices = {hello, key, synced}
  Ceremonies = {c1, c2, c3}
  Bootstraps = {b1, b2}
  Requests = {t1, t2}
  NoJob = NoJob  NoDevice = NoDevice  NoBootstrap = NoBootstrap  NoLabel = NoLabel
  Policy <- MCPolicy
  Kind <- MCKind
  Counting = {hello}
  RegistrationSeconds = 2
  ApprovalSeconds = 1
  MaxSigned = 2
  MaxClock = 5
  MaxFaults = 2
SYMMETRY Symmetry
CHECK_DEADLOCK FALSE
CONSTRAINT Focus
INVARIANTS OneEnrollment ApprovalsAreSigned OneApprovalPerClaim
