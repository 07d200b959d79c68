--------------------------- MODULE ActivationProofs ---------------------------
(***************************************************************************)
(* The inductive invariant behind the safety properties of                 *)
(* ActivationTransaction, the proof that it is one, and the theorems that  *)
(* follow from it.                                                         *)
(*                                                                         *)
(* InstalledAsOne and RecoveryPossible are not inductive: that no mixture  *)
(* is left when the journal is retired depends on what the installer has   *)
(* established by the time it finalizes.  The invariant therefore says,    *)
(* for each stretch of the program, whose journal is pending, how far the  *)
(* paths have been moved and what systemd has loaded.                      *)
(***************************************************************************)
EXTENDS ActivationTransaction, TLAPS

CleanupPc == {"ack", "retire", "sweep"}

Publishing ==
  \/ installer.pc \in PublishPc \cup {"finalize"}
  \/ installer.pc \in CleanupPc /\ installer.mode = "publish"

Mine ==
  /\ journal.commit = installer.commit /\ journal.candidate = installer.release
  /\ journal.previous = installer.previous /\ journal.state = installer.state
  /\ ~journal.recovered

\* Which transaction directory exists where in the program, and whose it is.
ControlInv ==
  /\ Publishing => dirs = {"pending"} /\ Mine
  /\ installer.pc \in RecoveryPc =>
       /\ dirs = {"pending"} /\ journal.commit = installer.commit
       /\ journal.previous = installer.previous
  /\ installer.pc = "start" => installer.mode = "install"
  /\ installer.pc \in CleanupPc /\ ~Publishing => "pending" \notin dirs
  /\ installer.pc = "sweep" => Recovered = {}
  /\ installer.pc = "f_clean" => dirs = {"complete"}
  /\ installer.pc \in {"capture", "build", "prepare", "recheck", "begin", "begun", "post"} =>
       dirs = {}

\* What begin has measured and what it writes.
BeginInv ==
  /\ installer.pc \in {"prepare", "recheck", "begin", "begun"} =>
       installer.release \in releases
  /\ installer.pc = "begun" => Mine /\ journal.baseline = live /\ Baseline("current") = journal.previous

\* What is true of every journal while it is pending.
PendingInv ==
  "pending" \in dirs =>
    /\ journal.candidate \in releases
    /\ journal.previous \in releases \cup {Absent}
    /\ \A n \in Entries : Baseline(n) = Identity(n, journal.previous)
    /\ Baseline("broker") \in {Absent, journal.previous}
    /\ \A n \in Names : live[n] \in {Baseline(n), Candidate(n)}
    /\ broker.loaded \in {Baseline("broker"), journal.candidate}
    /\ broker.active \in {Absent, Baseline("broker"), journal.candidate}

\* Progress of recover and of the restoration of the broker.
RestoreInv ==
  /\ installer.pc = "r_restore" => temp = {}
  /\ installer.pc = "r_rename" =>
       installer.i <= 6 /\ temp = {Order[installer.i]} /\ ~journal.recovered
  /\ installer.pc = "r_mark" => temp = {} /\ AllBaseline
  /\ installer.pc \in {"r_reload", "r_broker", "r_attest", "r_finalize"} => journal.recovered
  /\ installer.pc \in {"r_broker", "r_attest", "r_finalize"} => broker.loaded = live["broker"]
  /\ installer.pc \in {"r_attest", "r_finalize"} => broker.active \in {Absent, broker.loaded}

\* Progress of publish and publish-broker, and what has been attested.
PublishInv ==
  /\ installer.pc \in {"p_entry", "p_rename"} => installer.i <= 5
  /\ installer.pc \in {"attest", "b_contract", "b_entry", "b_rename"} => installer.i = 6
  /\ installer.pc \in {"b_reload", "b_start", "b_attest", "finalize"} =>
       live["broker"] = journal.candidate
  /\ installer.pc \in {"b_start", "b_attest", "finalize"} => broker.loaded = journal.candidate
  /\ installer.pc \in {"b_attest", "finalize"} => broker.active \in {Absent, broker.loaded}
  /\ installer.pc \in {"b_contract", "b_entry", "b_rename", "b_reload", "b_start", "b_attest",
                       "finalize"} => <<installer.release, "cli">> \in passed
  /\ installer.pc = "finalize" => <<installer.release, "broker">> \in passed

\* The code of the installed release is on disk.
CurrentKept == "pending" \notin dirs => live["current"] \in releases \cup {Absent}

IInv ==
  /\ TypeOK /\ ControlInv /\ BeginInv /\ PendingInv /\ RestoreInv /\ PublishInv
  /\ InstalledAsOne /\ RecoveredIsBaseline /\ CurrentKept

-------------------------------------------------------------------------------
(* Facts the steps share *)

\* The five entries come first, the broker unit last.
LEMMA OrderFacts ==
  /\ Len(Order) = 6 /\ Order[6] = "broker"
  /\ \A k \in 1..5 : Order[k] \in Entries
  /\ \A k \in 1..6 : Order[k] \in Names
BY DEF Order, Entries, Names

\* The moves of the installer that set several fields, field by field.
LEMMA RollBackIs ==
  ASSUME TypeOK, RollBack
  PROVE  installer' = [pc |-> "r_quiesce", commit |-> installer.commit, mode |-> "failed",
                       previous |-> installer.previous, state |-> installer.state, release |-> installer.release, i |-> 1]
BY Zenon DEF TypeOK, RollBack

LEMMA ResumeIs ==
  ASSUME TypeOK, Resume
  PROVE  installer' = [pc |-> "r_quiesce", commit |-> installer.commit, mode |-> "resume",
                       previous |-> journal.previous, state |-> installer.state, release |-> installer.release, i |-> installer.i]
BY Zenon DEF TypeOK, Resume

LEMMA GotoAsIs ==
  ASSUME TypeOK, NEW pc, NEW mode, GotoAs(pc, mode)
  PROVE  installer' = [pc |-> pc, commit |-> installer.commit, mode |-> mode,
                       previous |-> installer.previous, state |-> installer.state, release |-> installer.release, i |-> installer.i]
BY Zenon DEF TypeOK, GotoAs

LEMMA GotoAtIs ==
  ASSUME TypeOK, NEW pc, NEW i, GotoAt(pc, i)
  PROVE  installer' = [pc |-> pc, commit |-> installer.commit, mode |-> installer.mode,
                       previous |-> installer.previous, state |-> installer.state, release |-> installer.release, i |-> i]
BY Zenon DEF TypeOK, GotoAt

LEMMA MeasuredIs ==
  ASSUME TypeOK, NEW previous, NEW state, Measured(previous, state)
  PROVE  installer' = [pc |-> "build", commit |-> installer.commit, mode |-> installer.mode,
                       previous |-> previous, state |-> state, release |-> installer.release, i |-> installer.i]
BY Zenon DEF TypeOK, Measured

LEMMA MaterializedIs ==
  ASSUME TypeOK, NEW r, Materialized(r)
  PROVE  installer' = [pc |-> "prepare", commit |-> installer.commit, mode |-> installer.mode,
                       previous |-> installer.previous, state |-> installer.state, release |-> r, i |-> installer.i]
BY Zenon DEF TypeOK, Materialized

\* Writing the marker leaves a well-formed journal.
LEMMA MarkRecoveredTyped ==
  ASSUME IInv, MarkRecovered
  PROVE  TypeOK'
<1>1. journal' \in Journal
  BY ZenonT(40) DEF MarkRecovered, IInv, TypeOK, Journal
<1>2. QED
  BY <1>1, SMTT(60) DEF MarkRecovered, Goto, IInv, TypeOK, Pc, RecoveryPc

\* recover_and_attest_activation_baseline keeps the invariant: one step per
\* action.
LEMMA RecoveryKeeps == ASSUME IInv, RecoveryStep PROVE IInv'
<1> USE DEF IInv, TypeOK, ControlInv, BeginInv, PendingInv, RestoreInv, PublishInv,
            InstalledAsOne, RecoveredIsBaseline, CurrentKept, CleanupPc, Publishing, Mine,
            Entries, Names, Absent, MaybeRelease, Identity, Uniform, Journal, RecoveryPc,
            PublishPc, Pc, Idle, files, Stop, Goto, Advance, Baseline, Candidate, AllBaseline,
            AllCandidate, Recovered
<1>1. CASE QuiesceBeforeRecovery
  <2>1. TypeOK'
    BY <1>1, SMTT(60) DEF QuiesceBeforeRecovery
  <2>2. ControlInv' /\ BeginInv' /\ RestoreInv' /\ PublishInv'
    BY <1>1, SMTT(60) DEF QuiesceBeforeRecovery
  <2>3. PendingInv' /\ InstalledAsOne' /\ RecoveredIsBaseline' /\ CurrentKept'
    BY <1>1, SMTT(60) DEF QuiesceBeforeRecovery
  <2>4. QED
    BY <2>1, <2>2, <2>3, Zenon DEF IInv
<1>2. CASE Preflight
  <2>1. TypeOK'
    BY <1>2, SMTT(60) DEF Preflight
  <2>2. ControlInv' /\ BeginInv' /\ RestoreInv' /\ PublishInv'
    BY <1>2, SMTT(60) DEF Preflight
  <2>3. PendingInv' /\ InstalledAsOne' /\ RecoveredIsBaseline' /\ CurrentKept'
    BY <1>2, SMTT(60) DEF Preflight
  <2>4. QED
    BY <2>1, <2>2, <2>3, Zenon DEF IInv
<1>3. CASE RemoveTemps
  <2>1. CASE temp = {} /\ UNCHANGED temp /\ GotoAt("r_restore", 1)
    BY <1>3, <2>1, GotoAtIs, SMTT(60) DEF RemoveTemps
  <2>2. CASE (\E n \in temp : temp' = temp \ {n}) /\ UNCHANGED installer
    <3>1. PICK n \in temp : temp' = temp \ {n}
      BY <2>2
    <3>2. QED
      BY <1>3, <2>2, <3>1, SMTT(60) DEF RemoveTemps
  <2>3. QED
    BY <1>3, <2>1, <2>2, ZenonT(40) DEF RemoveTemps
<1>4. CASE RestoreEntry
  <2>1. TypeOK'
    BY <1>4, GotoAtIs, OrderFacts, SMTT(60) DEF RestoreEntry
  <2>2. ControlInv' /\ BeginInv' /\ RestoreInv' /\ PublishInv'
    BY <1>4, GotoAtIs, OrderFacts, SMTT(60) DEF RestoreEntry
  <2>3. PendingInv' /\ InstalledAsOne' /\ RecoveredIsBaseline' /\ CurrentKept'
    BY <1>4, GotoAtIs, OrderFacts, SMTT(60) DEF RestoreEntry
  <2>4. QED
    BY <2>1, <2>2, <2>3, Zenon DEF IInv
<1>5. CASE RestoreRename
  <2>1. TypeOK'
    BY <1>5, GotoAtIs, OrderFacts, SMTT(60) DEF RestoreRename
  <2>2. ControlInv' /\ BeginInv' /\ RestoreInv' /\ PublishInv'
    BY <1>5, GotoAtIs, OrderFacts, SMTT(60) DEF RestoreRename
  <2>3. PendingInv' /\ InstalledAsOne' /\ RecoveredIsBaseline' /\ CurrentKept'
    <3>1. PendingInv'
      BY <1>5, GotoAtIs, OrderFacts, SMTT(60) DEF RestoreRename
    <3>2. InstalledAsOne'
      BY <1>5, GotoAtIs, OrderFacts, SMTT(60) DEF RestoreRename
    <3>3. RecoveredIsBaseline'
      BY <1>5, GotoAtIs, OrderFacts, SMTT(60) DEF RestoreRename
    <3>4. CurrentKept'
      BY <1>5, GotoAtIs, OrderFacts, SMTT(60) DEF RestoreRename
    <3>5. QED
      BY <3>1, <3>2, <3>3, <3>4, SMTT(60)
  <2>4. QED
    BY <2>1, <2>2, <2>3, Zenon DEF IInv
<1>6. CASE RestoreDone
  <2>1. TypeOK'
    BY <1>6, SMTT(60) DEF RestoreDone
  <2>2. ControlInv' /\ BeginInv' /\ RestoreInv' /\ PublishInv'
    BY <1>6, SMTT(60) DEF RestoreDone
  <2>3. PendingInv' /\ InstalledAsOne' /\ RecoveredIsBaseline' /\ CurrentKept'
    BY <1>6, SMTT(60) DEF RestoreDone
  <2>4. QED
    BY <2>1, <2>2, <2>3, Zenon DEF IInv
<1>7. CASE MarkRecovered
  <2>1. TypeOK'
    BY <1>7, MarkRecoveredTyped DEF MarkRecovered
  <2>2. ControlInv' /\ BeginInv' /\ RestoreInv' /\ PublishInv'
    BY <1>7, SMTT(60) DEF MarkRecovered
  <2>3. PendingInv' /\ InstalledAsOne' /\ RecoveredIsBaseline' /\ CurrentKept'
    BY <1>7, SMTT(60) DEF MarkRecovered
  <2>4. QED
    BY <2>1, <2>2, <2>3, Zenon DEF IInv
<1>8. CASE DaemonReload("r_reload", "r_broker")
  <2>1. TypeOK'
    BY <1>8, SMTT(60) DEF DaemonReload
  <2>2. ControlInv' /\ BeginInv' /\ RestoreInv' /\ PublishInv'
    BY <1>8, SMTT(60) DEF DaemonReload
  <2>3. PendingInv' /\ InstalledAsOne' /\ RecoveredIsBaseline' /\ CurrentKept'
    BY <1>8, SMTT(60) DEF DaemonReload
  <2>4. QED
    BY <2>1, <2>2, <2>3, Zenon DEF IInv
<1>9. CASE RestoreBroker
  <2>1. TypeOK'
    BY <1>9, SMTT(60) DEF RestoreBroker, Startable
  <2>2. ControlInv' /\ BeginInv' /\ RestoreInv' /\ PublishInv'
    BY <1>9, SMTT(60) DEF RestoreBroker, Startable
  <2>3. PendingInv' /\ InstalledAsOne' /\ RecoveredIsBaseline' /\ CurrentKept'
    BY <1>9, SMTT(60) DEF RestoreBroker, Startable
  <2>4. QED
    BY <2>1, <2>2, <2>3, Zenon DEF IInv
<1>10. CASE AttestRestored
  <2>1. TypeOK'
    BY <1>10, SMTT(60) DEF AttestRestored
  <2>2. ControlInv' /\ BeginInv' /\ RestoreInv' /\ PublishInv'
    BY <1>10, SMTT(60) DEF AttestRestored
  <2>3. PendingInv' /\ InstalledAsOne' /\ RecoveredIsBaseline' /\ CurrentKept'
    BY <1>10, SMTT(60) DEF AttestRestored
  <2>4. QED
    BY <2>1, <2>2, <2>3, Zenon DEF IInv
<1>11. CASE FinalizeBaseline
  <2>1. TypeOK'
    BY <1>11, ActivationAssumption, SMTT(60) DEF FinalizeBaseline
  <2>2. ControlInv' /\ BeginInv' /\ RestoreInv' /\ PublishInv'
    BY <1>11, ActivationAssumption, SMTT(60) DEF FinalizeBaseline
  <2>3. PendingInv' /\ InstalledAsOne' /\ RecoveredIsBaseline' /\ CurrentKept'
    BY <1>11, ActivationAssumption, SMTT(60) DEF FinalizeBaseline
  <2>4. QED
    BY <2>1, <2>2, <2>3, Zenon DEF IInv
<1>12. QED
  BY <1>1, <1>2, <1>3, <1>4, <1>5, <1>6, <1>7, <1>8, <1>9, <1>10, <1>11, ZenonT(40) DEF RecoveryStep

\* Acknowledging a recovery and sweeping keep the invariant.
LEMMA CleanupKeeps == ASSUME IInv, CleanupStep PROVE IInv'
<1> USE DEF IInv, TypeOK, ControlInv, BeginInv, PendingInv, RestoreInv, PublishInv,
            InstalledAsOne, RecoveredIsBaseline, CurrentKept, CleanupPc, Publishing, Mine,
            Entries, Names, Absent, MaybeRelease, Identity, Uniform, Journal, RecoveryPc,
            PublishPc, Pc, Idle, files, Stop, Goto, Advance, Baseline, Candidate, AllBaseline,
            AllCandidate, Recovered
<1>1. CASE Acknowledge
  <2>1. TypeOK'
    BY <1>1, RollBackIs, SMTT(60) DEF Acknowledge, AckStops
  <2>2. ControlInv' /\ BeginInv' /\ RestoreInv' /\ PublishInv'
    BY <1>1, RollBackIs, SMTT(60) DEF Acknowledge, AckStops
  <2>3. PendingInv' /\ InstalledAsOne' /\ RecoveredIsBaseline' /\ CurrentKept'
    BY <1>1, RollBackIs, SMTT(60) DEF Acknowledge, AckStops
  <2>4. QED
    BY <2>1, <2>2, <2>3, Zenon DEF IInv
<1>2. CASE Retire
  <2>1. TypeOK'
    BY <1>2, RollBackIs, SMTT(60) DEF Retire, AckStops
  <2>2. ControlInv' /\ BeginInv' /\ RestoreInv' /\ PublishInv'
    BY <1>2, RollBackIs, SMTT(60) DEF Retire, AckStops
  <2>3. PendingInv' /\ InstalledAsOne' /\ RecoveredIsBaseline' /\ CurrentKept'
    BY <1>2, RollBackIs, SMTT(60) DEF Retire, AckStops
  <2>4. QED
    BY <2>1, <2>2, <2>3, Zenon DEF IInv
<1>3. CASE Sweep
  <2>1. TypeOK'
    BY <1>3, SMTT(60) DEF Sweep, SweptTo
  <2>2. ControlInv' /\ BeginInv' /\ RestoreInv' /\ PublishInv'
    BY <1>3, SMTT(60) DEF Sweep, SweptTo
  <2>3. PendingInv' /\ InstalledAsOne' /\ RecoveredIsBaseline' /\ CurrentKept'
    BY <1>3, SMTT(60) DEF Sweep, SweptTo
  <2>4. QED
    BY <2>1, <2>2, <2>3, Zenon DEF IInv
<1>4. QED
  BY <1>1, <1>2, <1>3, ZenonT(40) DEF CleanupStep

\* begin writes a well-formed journal.
LEMMA BeginTyped ==
  ASSUME IInv, Begin
  PROVE  TypeOK'
<1>1. journal' \in Journal
  <2>1. CASE CanBegin
    <3>1. journal' = [commit |-> installer.commit, candidate |-> installer.release,
                      previous |-> installer.previous, state |-> installer.state,
                      baseline |-> live, recovered |-> FALSE]
      BY <2>1, Zenon DEF Begin
    <3>2. QED
      BY <3>1, SMTT(60) DEF IInv, TypeOK, Journal
  <2>2. QED
    BY <2>1, SMTT(60) DEF Begin, IInv, TypeOK
<1>2. QED
  BY <1>1, SMTT(60) DEF Begin, IInv, TypeOK, Goto, Stop, Idle, Pc, MaybeRelease, Absent

\* What begin has checked makes the transaction it publishes recoverable.
LEMMA BeginRenamePending ==
  ASSUME IInv, BeginRename
  PROVE  PendingInv'
<1>1. dirs = {} /\ Mine /\ journal.baseline = live /\ live["current"] = journal.previous
  BY SMTT(60) DEF BeginRename, IInv, ControlInv, BeginInv, Baseline
<1>2. Uniform(journal.previous)
  BY <1>1, SMTT(60) DEF IInv, InstalledAsOne
<1>3. journal.candidate \in releases /\ journal.previous \in releases \cup {Absent}
  BY <1>1, SMTT(60) DEF BeginRename, IInv, BeginInv, CurrentKept, Mine
<1>4. broker.loaded = live["broker"] /\ broker.active \in {Absent, live["broker"]}
  BY <1>1, SMTT(60) DEF IInv, InstalledAsOne
<1>5. QED
  BY <1>1, <1>2, <1>3, <1>4, SMTT(60)
  DEF BeginRename, PendingInv, Baseline, Candidate, Uniform, Entries, Names

\* Capturing the previous release keeps the invariant.
LEMMA CaptureKeeps == ASSUME IInv, Capture PROVE IInv'
<1> DEFINE state == BrokerState(live["current"])
<1>1. installer' = Idle \/ (Measured(live["current"], state) /\ state # "unsafe")
  BY DEF Capture, Stop
<1>2. state # "unsafe" => state \in {"active", "inactive", "absent"}
  BY DEF BrokerState
<1>3. installer.pc = "capture" /\ UNCHANGED <<files, built, broker, faults, passed>>
  BY DEF Capture
<1> HIDE DEF state
<1>4. \/ installer' = Idle
      \/ /\ state \in {"active", "inactive", "absent"}
         /\ installer' = [pc |-> "build", commit |-> installer.commit, mode |-> installer.mode,
                          previous |-> live["current"], state |-> state,
                          release |-> installer.release, i |-> installer.i]
  BY <1>1, <1>2, MeasuredIs DEF IInv
<1>5. installer'.pc \in {"off", "build"}
  <2>1. CASE installer' = Idle
    BY <2>1 DEF Idle
  <2>2. CASE installer' = [pc |-> "build", commit |-> installer.commit, mode |-> installer.mode,
                           previous |-> live["current"], state |-> state,
                           release |-> installer.release, i |-> installer.i]
    BY <2>2
  <2>3. QED
    BY <1>4, <2>1, <2>2
<1>6. TypeOK'
  BY <1>3, <1>4, ActivationAssumption, SMTT(60)
  DEF IInv, TypeOK, files, Idle, Pc, RecoveryPc, PublishPc, MaybeRelease, Names, Entries
<1> USE DEF IInv, TypeOK, ControlInv, BeginInv, PendingInv, RestoreInv, PublishInv,
            InstalledAsOne, RecoveredIsBaseline, CurrentKept, CleanupPc, Publishing, Mine,
            Entries, Names, Absent, MaybeRelease, Identity, Uniform, Journal, RecoveryPc,
            PublishPc, Pc, Idle, files, Stop, Goto, Advance, Baseline, Candidate, AllBaseline,
            AllCandidate, Recovered
<1>7. ControlInv' /\ BeginInv' /\ RestoreInv' /\ PublishInv'
  BY <1>3, <1>4, <1>5, SMTT(60)
<1>8. PendingInv' /\ InstalledAsOne' /\ RecoveredIsBaseline' /\ CurrentKept'
  BY <1>3, <1>4, <1>5, SMTT(60)
<1>9. QED
  BY <1>6, <1>7, <1>8, Zenon DEF IInv

\* The way from the measurements to the pending journal keeps the invariant.
LEMMA PrepareKeeps == ASSUME IInv, PrepareStep PROVE IInv'
<1> USE DEF IInv, TypeOK, ControlInv, BeginInv, PendingInv, RestoreInv, PublishInv,
            InstalledAsOne, RecoveredIsBaseline, CurrentKept, CleanupPc, Publishing, Mine,
            Entries, Names, Absent, MaybeRelease, Identity, Uniform, Journal, RecoveryPc,
            PublishPc, Pc, Idle, files, Stop, Goto, Advance, Baseline, Candidate, AllBaseline,
            AllCandidate, Recovered
<1>1. CASE Capture
  BY <1>1, CaptureKeeps, ZenonT(40)
<1>2. CASE Build
  <2>1. TypeOK'
    BY <1>2, ActivationAssumption, MaterializedIs, SMTT(60) DEF Build, Release
  <2>2. ControlInv' /\ BeginInv' /\ RestoreInv' /\ PublishInv'
    BY <1>2, ActivationAssumption, MaterializedIs, SMTT(60) DEF Build, Release
  <2>3. PendingInv' /\ InstalledAsOne' /\ RecoveredIsBaseline' /\ CurrentKept'
    BY <1>2, ActivationAssumption, MaterializedIs, SMTT(60) DEF Build, Release
  <2>4. QED
    BY <2>1, <2>2, <2>3, Zenon DEF IInv
<1>3. CASE BuildFails
  <2>1. TypeOK'
    BY <1>3, SMTT(60) DEF BuildFails
  <2>2. ControlInv' /\ BeginInv' /\ RestoreInv' /\ PublishInv'
    BY <1>3, SMTT(60) DEF BuildFails
  <2>3. PendingInv' /\ InstalledAsOne' /\ RecoveredIsBaseline' /\ CurrentKept'
    BY <1>3, SMTT(60) DEF BuildFails
  <2>4. QED
    BY <2>1, <2>2, <2>3, Zenon DEF IInv
<1>4. CASE Prepare
  <2>1. TypeOK'
    BY <1>4, SMTT(60) DEF Prepare
  <2>2. ControlInv' /\ BeginInv' /\ RestoreInv' /\ PublishInv'
    BY <1>4, SMTT(60) DEF Prepare
  <2>3. PendingInv' /\ InstalledAsOne' /\ RecoveredIsBaseline' /\ CurrentKept'
    BY <1>4, SMTT(60) DEF Prepare
  <2>4. QED
    BY <2>1, <2>2, <2>3, Zenon DEF IInv
<1>5. CASE Recheck
  <2>1. TypeOK'
    BY <1>5, GotoAsIs, SMTT(60) DEF Recheck, BrokerState
  <2>2. ControlInv' /\ BeginInv' /\ RestoreInv' /\ PublishInv'
    BY <1>5, GotoAsIs, SMTT(60) DEF Recheck, BrokerState
  <2>3. PendingInv' /\ InstalledAsOne' /\ RecoveredIsBaseline' /\ CurrentKept'
    BY <1>5, GotoAsIs, SMTT(60) DEF Recheck, BrokerState
  <2>4. QED
    BY <2>1, <2>2, <2>3, Zenon DEF IInv
<1>6. CASE Begin
  <2>1. TypeOK'
    BY <1>6, BeginTyped DEF Begin
  <2>2. ControlInv' /\ BeginInv' /\ RestoreInv' /\ PublishInv'
    BY <1>6, SMTT(60) DEF Begin, CanBegin
  <2>3. PendingInv' /\ InstalledAsOne' /\ RecoveredIsBaseline' /\ CurrentKept'
    BY <1>6, SMTT(60) DEF Begin, CanBegin
  <2>4. QED
    BY <2>1, <2>2, <2>3, Zenon DEF IInv
<1>7. CASE BeginRename
  <2>1. TypeOK'
    BY <1>7, SMTT(60) DEF BeginRename
  <2>2. ControlInv' /\ BeginInv' /\ RestoreInv' /\ PublishInv'
    BY <1>7, SMTT(60) DEF BeginRename
  <2>3. PendingInv'
    BY <1>7, BeginRenamePending
  <2>4. InstalledAsOne' /\ RecoveredIsBaseline' /\ CurrentKept'
    BY <1>7, SMTT(60) DEF BeginRename
  <2>5. QED
    BY <2>1, <2>2, <2>3, <2>4, Zenon DEF IInv
<1>8. QED
  BY <1>1, <1>2, <1>3, <1>4, <1>5, <1>6, <1>7, ZenonT(40) DEF PrepareStep

-------------------------------------------------------------------------------
\* Renaming a staged entry puts the candidate's identity in place.
LEMMA RenameEntryTyped ==
  ASSUME IInv, RenameEntry("p_rename", Published)
  PROVE  TypeOK'
<1>1. live' \in [Names -> MaybeRelease] /\ temp' \subseteq Names
  BY ActivationAssumption, OrderFacts, SMTT(60)
  DEF RenameEntry, IInv, TypeOK, PublishInv, Candidate, Identity, Journal, MaybeRelease, Release
<1>2. QED
  BY <1>1, GotoAtIs, SMTT(60)
  DEF RenameEntry, Published, Advance, IInv, TypeOK, PublishInv, Pc, PublishPc

\* Publication, attestation, finalization and pruning keep the invariant.
LEMMA PublishKeeps == ASSUME IInv, PublishStep PROVE IInv'
<1> USE DEF IInv, TypeOK, ControlInv, BeginInv, PendingInv, RestoreInv, PublishInv,
            InstalledAsOne, RecoveredIsBaseline, CurrentKept, CleanupPc, Publishing, Mine,
            Entries, Names, Absent, MaybeRelease, Identity, Uniform, Journal, RecoveryPc,
            PublishPc, Pc, Idle, files, Stop, Goto, Advance, Baseline, Candidate, AllBaseline,
            AllCandidate, Recovered
<1>1. CASE QuiesceForPublication
  <2>1. TypeOK'
    BY <1>1, GotoAsIs, SMTT(60) DEF QuiesceForPublication
  <2>2. ControlInv' /\ BeginInv' /\ RestoreInv' /\ PublishInv'
    BY <1>1, GotoAsIs, SMTT(60) DEF QuiesceForPublication
  <2>3. PendingInv' /\ InstalledAsOne' /\ RecoveredIsBaseline' /\ CurrentKept'
    BY <1>1, GotoAsIs, SMTT(60) DEF QuiesceForPublication
  <2>4. QED
    BY <2>1, <2>2, <2>3, Zenon DEF IInv
<1>2. CASE CheckPublish
  <2>1. TypeOK'
    BY <1>2, RollBackIs, GotoAtIs, SMTT(60) DEF CheckPublish
  <2>2. ControlInv' /\ BeginInv' /\ RestoreInv' /\ PublishInv'
    BY <1>2, RollBackIs, GotoAtIs, SMTT(60) DEF CheckPublish
  <2>3. PendingInv' /\ InstalledAsOne' /\ RecoveredIsBaseline' /\ CurrentKept'
    BY <1>2, RollBackIs, GotoAtIs, SMTT(60) DEF CheckPublish
  <2>4. QED
    BY <2>1, <2>2, <2>3, Zenon DEF IInv
<1>3. CASE StageEntry("p_entry", "p_rename", Published)
  <2>1. TypeOK'
    BY <1>3, GotoAtIs, OrderFacts, SMTT(60) DEF StageEntry, Published
  <2>2. ControlInv' /\ BeginInv' /\ RestoreInv' /\ PublishInv'
    BY <1>3, GotoAtIs, OrderFacts, SMTT(60) DEF StageEntry, Published
  <2>3. PendingInv' /\ InstalledAsOne' /\ RecoveredIsBaseline' /\ CurrentKept'
    BY <1>3, GotoAtIs, OrderFacts, SMTT(60) DEF StageEntry, Published
  <2>4. QED
    BY <2>1, <2>2, <2>3, Zenon DEF IInv
<1>4. CASE RenameEntry("p_rename", Published)
  <2>1. TypeOK'
    BY <1>4, RenameEntryTyped, SMTT(60)
  <2>2. ControlInv' /\ BeginInv' /\ RestoreInv' /\ PublishInv'
    BY <1>4, ActivationAssumption, GotoAtIs, OrderFacts, SMTT(60) DEF RenameEntry, Published
  <2>3. PendingInv'
    BY <1>4, ActivationAssumption, GotoAtIs, OrderFacts, SMTT(60) DEF RenameEntry, Published
  <2>4. InstalledAsOne' /\ RecoveredIsBaseline' /\ CurrentKept'
    BY <1>4, ActivationAssumption, GotoAtIs, OrderFacts, SMTT(60) DEF RenameEntry, Published
  <2>5. QED
    BY <2>1, <2>2, <2>3, <2>4, Zenon DEF IInv
<1>5. CASE AttestActive
  <2>1. TypeOK'
    BY <1>5, RollBackIs, SMTT(60) DEF AttestActive
  <2>2. ControlInv' /\ BeginInv' /\ RestoreInv' /\ PublishInv'
    BY <1>5, RollBackIs, SMTT(60) DEF AttestActive
  <2>3. PendingInv' /\ InstalledAsOne' /\ RecoveredIsBaseline' /\ CurrentKept'
    BY <1>5, RollBackIs, SMTT(60) DEF AttestActive
  <2>4. QED
    BY <2>1, <2>2, <2>3, Zenon DEF IInv
<1>6. CASE CheckBroker
  <2>1. TypeOK'
    BY <1>6, RollBackIs, SMTT(60) DEF CheckBroker
  <2>2. ControlInv' /\ BeginInv' /\ RestoreInv' /\ PublishInv'
    BY <1>6, RollBackIs, SMTT(60) DEF CheckBroker
  <2>3. PendingInv' /\ InstalledAsOne' /\ RecoveredIsBaseline' /\ CurrentKept'
    BY <1>6, RollBackIs, SMTT(60) DEF CheckBroker
  <2>4. QED
    BY <2>1, <2>2, <2>3, Zenon DEF IInv
<1>7. CASE StageEntry("b_entry", "b_rename", Goto("b_reload"))
  <2>1. TypeOK'
    BY <1>7, ActivationAssumption, OrderFacts, SMTT(60) DEF StageEntry
  <2>2. ControlInv' /\ BeginInv' /\ RestoreInv' /\ PublishInv'
    BY <1>7, ActivationAssumption, OrderFacts, SMTT(60) DEF StageEntry
  <2>3. PendingInv' /\ InstalledAsOne' /\ RecoveredIsBaseline' /\ CurrentKept'
    BY <1>7, ActivationAssumption, OrderFacts, SMTT(60) DEF StageEntry
  <2>4. QED
    BY <2>1, <2>2, <2>3, Zenon DEF IInv
<1>8. CASE RenameEntry("b_rename", Goto("b_reload"))
  <2>1. TypeOK'
    BY <1>8, ActivationAssumption, OrderFacts, SMTT(60) DEF RenameEntry, Release
  <2>2. ControlInv' /\ BeginInv' /\ RestoreInv' /\ PublishInv'
    BY <1>8, ActivationAssumption, OrderFacts, SMTT(60) DEF RenameEntry, Release
  <2>3. PendingInv' /\ InstalledAsOne' /\ RecoveredIsBaseline' /\ CurrentKept'
    BY <1>8, ActivationAssumption, OrderFacts, SMTT(60) DEF RenameEntry, Release
  <2>4. QED
    BY <2>1, <2>2, <2>3, Zenon DEF IInv
<1>9. CASE DaemonReload("b_reload", "b_start")
  <2>1. TypeOK'
    BY <1>9, SMTT(60) DEF DaemonReload
  <2>2. ControlInv' /\ BeginInv' /\ RestoreInv' /\ PublishInv'
    BY <1>9, SMTT(60) DEF DaemonReload
  <2>3. PendingInv' /\ InstalledAsOne' /\ RecoveredIsBaseline' /\ CurrentKept'
    BY <1>9, SMTT(60) DEF DaemonReload
  <2>4. QED
    BY <2>1, <2>2, <2>3, Zenon DEF IInv
<1>10. CASE StartBroker
  <2>1. TypeOK'
    BY <1>10, RollBackIs, SMTT(60) DEF StartBroker, Startable
  <2>2. ControlInv' /\ BeginInv' /\ RestoreInv' /\ PublishInv'
    BY <1>10, RollBackIs, SMTT(60) DEF StartBroker, Startable
  <2>3. PendingInv' /\ InstalledAsOne' /\ RecoveredIsBaseline' /\ CurrentKept'
    BY <1>10, RollBackIs, SMTT(60) DEF StartBroker, Startable
  <2>4. QED
    BY <2>1, <2>2, <2>3, Zenon DEF IInv
<1>11. CASE AttestBroker
  <2>1. TypeOK'
    BY <1>11, RollBackIs, SMTT(60) DEF AttestBroker
  <2>2. ControlInv' /\ BeginInv' /\ RestoreInv' /\ PublishInv'
    BY <1>11, RollBackIs, SMTT(60) DEF AttestBroker
  <2>3. PendingInv' /\ InstalledAsOne' /\ RecoveredIsBaseline' /\ CurrentKept'
    BY <1>11, RollBackIs, SMTT(60) DEF AttestBroker
  <2>4. QED
    BY <2>1, <2>2, <2>3, Zenon DEF IInv
<1>12. CASE FinalizeCandidate
  <2>1. TypeOK'
    BY <1>12, ActivationAssumption, SMTT(60) DEF FinalizeCandidate
  <2>2. ControlInv' /\ BeginInv' /\ RestoreInv' /\ PublishInv'
    BY <1>12, ActivationAssumption, SMTT(60) DEF FinalizeCandidate
  <2>3. PendingInv' /\ InstalledAsOne' /\ RecoveredIsBaseline' /\ CurrentKept'
    BY <1>12, ActivationAssumption, SMTT(60) DEF FinalizeCandidate
  <2>4. QED
    BY <2>1, <2>2, <2>3, Zenon DEF IInv
<1>13. CASE FinalizeClean
  <2>1. TypeOK'
    BY <1>13, SMTT(60) DEF FinalizeClean
  <2>2. ControlInv' /\ BeginInv' /\ RestoreInv' /\ PublishInv'
    BY <1>13, SMTT(60) DEF FinalizeClean
  <2>3. PendingInv' /\ InstalledAsOne' /\ RecoveredIsBaseline' /\ CurrentKept'
    BY <1>13, SMTT(60) DEF FinalizeClean
  <2>4. QED
    BY <2>1, <2>2, <2>3, Zenon DEF IInv
<1>14. CASE Prune
  <2>1. TypeOK'
    BY <1>14, SMTT(60) DEF Prune
  <2>2. ControlInv' /\ BeginInv' /\ RestoreInv' /\ PublishInv'
    BY <1>14, SMTT(60) DEF Prune
  <2>3. PendingInv' /\ InstalledAsOne' /\ RecoveredIsBaseline' /\ CurrentKept'
    BY <1>14, SMTT(60) DEF Prune
  <2>4. QED
    BY <2>1, <2>2, <2>3, Zenon DEF IInv
<1>15. QED
  BY <1>1, <1>2, <1>3, <1>4, <1>5, <1>6, <1>7, <1>8, <1>9, <1>10, <1>11, <1>12, <1>13,
     <1>14, Zenon DEF PublishStep

\* So do failing commands, kills, reboots and the broker starting or stopping.
LEMMA EnvironmentKeeps == ASSUME IInv, Environment PROVE IInv'
<1> USE DEF IInv, TypeOK, ControlInv, BeginInv, PendingInv, RestoreInv, PublishInv,
            InstalledAsOne, RecoveredIsBaseline, CurrentKept, CleanupPc, Publishing, Mine,
            Entries, Names, Absent, MaybeRelease, Identity, Uniform, Journal, RecoveryPc,
            PublishPc, Pc, Idle, files, Stop, Goto, Advance, Baseline, Candidate, AllBaseline,
            AllCandidate, Recovered
<1>1. CASE CommandFails
  <2>1. TypeOK'
    BY <1>1, ActivationAssumption, RollBackIs, SMTT(60) DEF CommandFails, Fault
  <2>2. ControlInv' /\ BeginInv' /\ RestoreInv' /\ PublishInv'
    BY <1>1, ActivationAssumption, RollBackIs, SMTT(60) DEF CommandFails, Fault
  <2>3. PendingInv' /\ InstalledAsOne' /\ RecoveredIsBaseline' /\ CurrentKept'
    BY <1>1, ActivationAssumption, RollBackIs, SMTT(60) DEF CommandFails, Fault
  <2>4. QED
    BY <2>1, <2>2, <2>3, Zenon DEF IInv
<1>2. CASE Kill
  <2>1. TypeOK'
    BY <1>2, ActivationAssumption, SMTT(60) DEF Kill, Fault
  <2>2. ControlInv' /\ BeginInv' /\ RestoreInv' /\ PublishInv'
    BY <1>2, ActivationAssumption, SMTT(60) DEF Kill, Fault
  <2>3. PendingInv' /\ InstalledAsOne' /\ RecoveredIsBaseline' /\ CurrentKept'
    BY <1>2, ActivationAssumption, SMTT(60) DEF Kill, Fault
  <2>4. QED
    BY <2>1, <2>2, <2>3, Zenon DEF IInv
<1>3. CASE Reboot
  <2>1. TypeOK'
    BY <1>3, ActivationAssumption, SMTT(60) DEF Reboot, Fault
  <2>2. ControlInv' /\ BeginInv' /\ RestoreInv' /\ PublishInv'
    BY <1>3, ActivationAssumption, SMTT(60) DEF Reboot, Fault
  <2>3. PendingInv' /\ InstalledAsOne' /\ RecoveredIsBaseline' /\ CurrentKept'
    BY <1>3, ActivationAssumption, SMTT(60) DEF Reboot, Fault
  <2>4. QED
    BY <2>1, <2>2, <2>3, Zenon DEF IInv
<1>4. CASE BrokerStarts
  <2>1. TypeOK'
    BY <1>4, ActivationAssumption, SMTT(60) DEF BrokerStarts, Fault, Startable
  <2>2. ControlInv' /\ BeginInv' /\ RestoreInv' /\ PublishInv'
    BY <1>4, ActivationAssumption, SMTT(60) DEF BrokerStarts, Fault, Startable
  <2>3. PendingInv' /\ InstalledAsOne' /\ RecoveredIsBaseline' /\ CurrentKept'
    BY <1>4, ActivationAssumption, SMTT(60) DEF BrokerStarts, Fault, Startable
  <2>4. QED
    BY <2>1, <2>2, <2>3, Zenon DEF IInv
<1>5. CASE BrokerStops
  <2>1. TypeOK'
    BY <1>5, ActivationAssumption, SMTT(60) DEF BrokerStops, Fault
  <2>2. ControlInv' /\ BeginInv' /\ RestoreInv' /\ PublishInv'
    BY <1>5, ActivationAssumption, SMTT(60) DEF BrokerStops, Fault
  <2>3. PendingInv' /\ InstalledAsOne' /\ RecoveredIsBaseline' /\ CurrentKept'
    BY <1>5, ActivationAssumption, SMTT(60) DEF BrokerStops, Fault
  <2>4. QED
    BY <2>1, <2>2, <2>3, Zenon DEF IInv
<1>6. QED
  BY <1>1, <1>2, <1>3, <1>4, <1>5, ZenonT(40) DEF Environment

\* A new run of the installer has no progress the invariant speaks of.
LEMMA StartKeeps == ASSUME IInv, NEW c \in Commits, Start(c) PROVE IInv'
<1>1. /\ TypeOK /\ ControlInv /\ PendingInv /\ InstalledAsOne /\ RecoveredIsBaseline /\ CurrentKept
  BY DEF IInv
<1>2. /\ installer' = [pc |-> "start", commit |-> c, mode |-> "install",
                       previous |-> Absent, state |-> "absent", release |-> Absent, i |-> 1]
      /\ UNCHANGED <<live, temp, staging, dirs, journal, releases, built, broker, faults, passed>>
  <2>1. installer' = [Idle EXCEPT !.pc = "start", !.commit = c]
    BY DEF Start
  <2>2. UNCHANGED <<live, temp, staging, dirs, journal, releases, built, broker, faults, passed>>
    BY DEF Start, files
  <2>3. QED
    BY <2>1, <2>2, Zenon DEF Idle
<1>3. /\ installer'.pc = "start" /\ installer'.mode = "install" /\ installer'.i = 1
      /\ installer'.release = Absent
  BY <1>2
<1>4. installer' \in [pc : Pc, commit : Commits \cup {NoCommit},
                      mode : {"install", "publish", "resume", "failed", "changed"},
                      previous : MaybeRelease, state : {"active", "inactive", "absent"},
                      release : MaybeRelease, i : 1..7]
  <2>1. "start" \in Pc /\ Absent \in MaybeRelease /\ 1 \in 1..7
    BY DEF Pc, MaybeRelease
  <2>2. QED
    BY <1>2, <2>1
<1>5. TypeOK'
  BY <1>1, <1>2, <1>4 DEF TypeOK
<1>6. ~Publishing' /\ installer'.pc \notin RecoveryPc
  BY <1>3 DEF Publishing, CleanupPc, PublishPc, RecoveryPc
<1>7. ControlInv' /\ BeginInv'
  BY <1>3, <1>6 DEF ControlInv, BeginInv, CleanupPc
<1>8. RestoreInv' /\ PublishInv'
  BY <1>3 DEF RestoreInv, PublishInv
<1>9. PendingInv' /\ CurrentKept'
  BY <1>1, <1>2 DEF PendingInv, CurrentKept, Baseline, Candidate
<1>10. InstalledAsOne'
  BY <1>1, <1>2 DEF InstalledAsOne, Uniform
<1>11. RecoveredIsBaseline'
  BY <1>1, <1>2 DEF RecoveredIsBaseline, AllBaseline, Baseline
<1>12. QED
  BY <1>5, <1>7, <1>8, <1>9, <1>10, <1>11 DEF IInv

\* An installer resumes the pending transaction of its own commit only.
LEMMA LookKeeps == ASSUME IInv, LookForPending PROVE IInv'
<1> USE DEF IInv, TypeOK, ControlInv, BeginInv, PendingInv, RestoreInv, PublishInv,
            InstalledAsOne, RecoveredIsBaseline, CurrentKept, CleanupPc, Publishing, Mine,
            Entries, Names, Absent, MaybeRelease, Identity, Uniform, Journal, RecoveryPc,
            PublishPc, Pc, Idle, files, Stop, Goto, Baseline, Candidate, AllBaseline, Recovered
<1>1. TypeOK'
  BY ResumeIs, SMTT(60) DEF LookForPending
<1>2. ControlInv' /\ BeginInv'
  BY ResumeIs, SMTT(60) DEF LookForPending
<1>3. RestoreInv' /\ PublishInv'
  BY ResumeIs, SMTT(60) DEF LookForPending
<1>4. PendingInv' /\ InstalledAsOne' /\ RecoveredIsBaseline' /\ CurrentKept'
  BY SMTT(60) DEF LookForPending
<1>5. QED
  BY <1>1, <1>2, <1>3, <1>4, Zenon DEF IInv

\* So does taking the lock and looking for a pending transaction.
LEMMA EntryKeeps == ASSUME IInv, LookForPending \/ \E c \in Commits : Start(c) PROVE IInv'
BY StartKeeps, LookKeeps

\* A fresh host and a host with one release satisfy the invariant.
LEMMA InvInit == Init => IInv
<1> SUFFICES ASSUME Init PROVE IInv
  OBVIOUS
<1> DEFINE Host(r, unit, active) ==
             /\ live = [n \in Names |-> IF n = "broker" THEN unit ELSE Identity(n, r)]
             /\ releases = {r} \ {Absent}
             /\ built = r
             /\ broker = [loaded |-> unit, active |-> active]
<1>1. PICK r \in {Absent, 1} : \E unit \in {Absent, r} : \E active \in {Absent, unit} :
                                Host(r, unit, active)
  BY DEF Init
<1>2. PICK unit \in {Absent, r} : \E active \in {Absent, unit} : Host(r, unit, active)
  BY <1>1
<1>3. PICK active \in {Absent, unit} : Host(r, unit, active)
  BY <1>2
<1>4. 1 \in Release /\ 0..MaxReleases = Release \cup {0} /\ 0 \in 0..MaxFaults
  BY ActivationAssumption DEF Release
<1>5. TypeOK
  BY <1>3, <1>4, SMTT(60) DEF Init, TypeOK, Journal, Idle, Pc, Absent, MaybeRelease, Identity, Names
<1>6. InstalledAsOne /\ CurrentKept
  BY <1>3, ActivationAssumption, SMTT(60)
  DEF Init, InstalledAsOne, CurrentKept, Uniform, Identity, Names, Entries, Absent
<1>7. QED
  BY <1>5, <1>6
  DEF Init, IInv, ControlInv, BeginInv, PendingInv, RestoreInv, PublishInv, RecoveredIsBaseline,
      Idle, Publishing, CleanupPc, RecoveryPc, PublishPc

\* Every step of the installer and of its environment keeps the invariant.
LEMMA InvStep == IInv /\ [Next]_vars => IInv'
<1>1. ASSUME IInv, Next PROVE IInv'
  BY <1>1, EntryKeeps, RecoveryKeeps, CleanupKeeps, PrepareKeeps, PublishKeeps, EnvironmentKeeps
  DEF Next, Step
<1>2. ASSUME IInv, UNCHANGED vars PROVE IInv'
  <2>1. /\ TypeOK /\ ControlInv /\ BeginInv /\ PendingInv /\ RestoreInv /\ PublishInv
        /\ InstalledAsOne /\ RecoveredIsBaseline /\ CurrentKept
    BY <1>2 DEF IInv
  <2>2. /\ UNCHANGED <<live, temp, staging, dirs, journal, releases>>
        /\ UNCHANGED <<built, broker, installer, faults, passed>>
    BY <1>2 DEF vars, files
  <2>3. TypeOK'
    BY <2>1, <2>2 DEF TypeOK
  <2>4. ControlInv' /\ BeginInv' /\ CurrentKept'
    BY <2>1, <2>2, SMTT(60)
    DEF ControlInv, BeginInv, CurrentKept, Mine, Publishing, Recovered, Baseline
  <2>5. PendingInv' /\ RestoreInv'
    BY <2>1, <2>2 DEF PendingInv, RestoreInv, Baseline, Candidate, AllBaseline, Recovered
  <2>6. PublishInv'
    BY <2>1, <2>2, Zenon DEF PublishInv, Baseline, Candidate, Mine, Publishing
  <2>7. InstalledAsOne' /\ RecoveredIsBaseline'
    BY <2>1, <2>2 DEF InstalledAsOne, RecoveredIsBaseline, Uniform, Baseline, AllBaseline,
                      Recovered
  <2>8. QED
    BY <2>3, <2>4, <2>5, <2>6, <2>7 DEF IInv
<1>3. QED
  BY <1>1, <1>2

-------------------------------------------------------------------------------
(* The theorems *)

\* IInv is an invariant of the activation.
LEMMA Invariance == Spec => []IInv
BY InvInit, InvStep, PTL DEF Spec

\* Whatever is killed when: the variables keep their types, and at most one
\* directory of the transaction frontier of activation_transaction.py exists.
THEOREM Typed == Spec => []TypeOK
<1>1. IInv => TypeOK
  BY DEF IInv
<1>2. QED
  BY <1>1, Invariance, PTL

\* Whenever no activation is pending the host is on one release: finalize and
\* recover of activation_transaction.py leave no mixture behind.
THEOREM OneRelease == Spec => []InstalledAsOne
<1>1. IInv => InstalledAsOne
  BY DEF IInv
<1>2. QED
  BY <1>1, Invariance, PTL

\* recover never refuses a pending activation, and the release it goes back to
\* is still on disk.
THEOREM Recoverable == Spec => []RecoveryPossible
<1>1. IInv => RecoveryPossible
  BY ActivationAssumption, SMTT(60) DEF IInv, PendingInv, RecoveryPossible, Identity, Entries
<1>2. QED
  BY <1>1, Invariance, PTL

\* prune_old_release_code removes no code that is in use.
THEOREM NoCodeLost == Spec => []CodeInUseKept
<1>1. IInv /\ "pending" \in dirs => CodeInUseKept
  BY ActivationAssumption, SMTT(60)
  DEF IInv, PendingInv, CodeInUseKept, Identity, Entries, Names, Candidate, Absent
<1>2. IInv /\ "pending" \notin dirs => CodeInUseKept
  BY SMTT(60) DEF IInv, InstalledAsOne, CurrentKept, CodeInUseKept, Uniform
<1>3. IInv => CodeInUseKept
  BY <1>1, <1>2
<1>4. QED
  BY <1>3, Invariance, PTL

\* After the recovery marker the host stays the recorded baseline.
THEOREM BaselineHeld == Spec => []RecoveredIsBaseline
<1>1. IInv => RecoveredIsBaseline
  BY DEF IInv
<1>2. QED
  BY <1>1, Invariance, PTL

\* recover_pending_activation_transaction and acknowledge_recovered of another
\* commit leave the disk as it is.
THEOREM ForeignWaits == Spec => ForeignCommitWaits
<1> DEFINE Waits == AwaitsItsInstaller /\ installer.pc # "off"
                    /\ installer.commit # journal.commit
<1>1. ASSUME IInv, Next, Waits PROVE UNCHANGED files
  <2>1. CASE (\E c \in Commits : Start(c)) \/ LookForPending \/ Environment
    BY <2>1, Zenon DEF Start, LookForPending, Environment, CommandFails, Kill, Reboot,
                       BrokerStarts, BrokerStops
  <2>2. CASE RecoveryStep
    <3>1. installer.pc \in RecoveryPc
      BY <2>2 DEF RecoveryStep, RecoveryPc, QuiesceBeforeRecovery, Preflight, RemoveTemps,
                  RestoreEntry, RestoreRename, RestoreDone, MarkRecovered, DaemonReload,
                  RestoreBroker, AttestRestored, FinalizeBaseline
    <3>2. QED
      BY <1>1, <3>1, SMTT(60) DEF IInv, ControlInv
  <2>3. CASE CleanupStep
    <3>1. installer.pc \in CleanupPc
      BY <2>3 DEF CleanupStep, CleanupPc, Acknowledge, Retire, Sweep
    <3>2. "pending" \notin dirs
      BY <1>1, <3>1 DEF IInv, ControlInv, Mine
    <3>3. "recovered.retired" \notin dirs /\ Recovered \notin {{}, {"recovered.retired"}}
      BY <1>1, <3>2, SMTT(60) DEF IInv, TypeOK, AwaitsItsInstaller, Recovered
    <3>4. QED
      BY <1>1, <2>3, <3>3, SMTT(60)
      DEF IInv, ControlInv, CleanupStep, Acknowledge, Retire, Sweep, files
  <2>4. CASE PrepareStep
    <3>1. installer.pc \in {"capture", "build", "prepare", "recheck", "begin", "begun"}
      BY <2>4 DEF PrepareStep, Capture, Build, BuildFails, Prepare, Recheck, Begin, BeginRename
    <3>2. QED
      BY <1>1, <3>1, SMTT(60) DEF IInv, ControlInv, AwaitsItsInstaller
  <2>5. CASE PublishStep
    <3>1. installer.pc \in PublishPc \cup {"finalize", "f_clean", "post"}
      BY <2>5 DEF PublishStep, PublishPc, QuiesceForPublication, CheckPublish, StageEntry,
                  RenameEntry, AttestActive, CheckBroker, DaemonReload, StartBroker,
                  AttestBroker, FinalizeCandidate, FinalizeClean, Prune
    <3>2. QED
      BY <1>1, <3>1 DEF IInv, ControlInv, AwaitsItsInstaller, Publishing, Mine
  <2>6. QED
    BY <1>1, <2>1, <2>2, <2>3, <2>4, <2>5 DEF Next, Step
<1>2. IInv /\ [Next]_vars => [Waits => UNCHANGED files]_vars
  BY <1>1
<1>3. QED
  BY <1>2, Invariance, PTL DEF Spec, ForeignCommitWaits

-------------------------------------------------------------------------------
(* Refinement *)

\* Steps that move no frontier directory and, outside a transaction, no
\* current link leave the installed release alone.
LEMMA SameInstalled ==
  ASSUME UNCHANGED passed, "pending" \in dirs' <=> "pending" \in dirs,
         "pending" \in dirs => journal'.previous = journal.previous,
         "pending" \notin dirs => UNCHANGED live
  PROVE  UNCHANGED <<Installed, passed>>
BY DEF Installed

\* The previous release of a pending transaction is the one begin measured.
LEMMA InstalledAtBegin ==
  ASSUME IInv, BeginRename
  PROVE  Installed' = Installed
BY SMTT(60) DEF BeginRename, IInv, ControlInv, BeginInv, Installed, Baseline

\* A recovered host is on the previous release.
LEMMA InstalledAtBaseline ==
  ASSUME IInv, FinalizeBaseline
  PROVE  Installed' = Installed
BY ActivationAssumption, SMTT(60)
DEF FinalizeBaseline, IInv, ControlInv, PendingInv, Installed, Baseline, AllBaseline, Identity,
    Names, Entries, RecoveryPc

\* The rename of finalize --expect candidate activates the attested candidate.
LEMMA ActivatesAtCandidate ==
  ASSUME IInv, FinalizeCandidate
  PROVE  [Atomic!Next]_<<Installed, passed>>
<1>1. CASE UNCHANGED dirs
  BY <1>1, SMTT(60) DEF FinalizeCandidate, Installed
<1>2. CASE dirs' # dirs
  <2>1. /\ AllCandidate /\ dirs' = {"complete"} /\ UNCHANGED <<live, passed>>
        /\ installer.pc = "finalize"
    BY <1>2, SMTT(60) DEF FinalizeCandidate
  <2>2. Mine /\ <<installer.release, "cli">> \in passed /\ <<installer.release, "broker">> \in passed
    BY <2>1, SMTT(60) DEF IInv, ControlInv, PublishInv, Publishing
  <2>3. Installed' = journal.candidate
    BY <2>1, ActivationAssumption, SMTT(60)
    DEF AllCandidate, Candidate, Identity, Names, Entries, Installed
  <2>4. journal.candidate \in Release
    BY <2>1, SMTT(60) DEF IInv, TypeOK, ControlInv, PendingInv, Publishing
  <2>5. Atomic!Activate(journal.candidate)
    BY <2>1, <2>2, <2>3, SMTT(60) DEF Atomic!Activate, Atomic!Attestations, Mine
  <2>6. QED
    BY <2>4, <2>5 DEF Atomic!Next
<1>3. QED
  BY <1>1, <1>2

\* An attestation that succeeds is one step of the abstract specification.
LEMMA AttestsOnce ==
  ASSUME IInv, AttestActive \/ AttestBroker
  PROVE  [Atomic!Next]_<<Installed, passed>>
<1>1. Installed' = Installed
  BY Zenon DEF AttestActive, AttestBroker, Installed, files
<1>2. CASE UNCHANGED passed
  BY <1>1, <1>2
<1>3. CASE passed' # passed
  <2>1. PICK what \in {"cli", "broker"} : passed' = passed \cup {<<installer.release, what>>}
    BY <1>3, Zenon DEF AttestActive, AttestBroker
  <2>2. installer.release \in Release
    BY SMTT(60)
    DEF AttestActive, AttestBroker, IInv, TypeOK, ControlInv, PendingInv, Publishing, PublishPc, Mine
  <2>3. Atomic!Attest(installer.release, what)
    BY <1>1, <2>1 DEF Atomic!Attest
  <2>4. QED
    BY <2>1, <2>2, <2>3 DEF Atomic!Next, Atomic!Attestations
<1>4. QED
  BY <1>2, <1>3

\* Although install.sh replaces six paths one by one and may be killed between
\* any two of them, the installed release changes in one step, and only to a
\* release that has passed both attestations.
THEOREM ActivationIsAtomic == Spec => ImplementsAtomicActivation
<1>1. Init => Atomic!Init
  BY InvInit, SMTT(60) DEF IInv, TypeOK, Init, Atomic!Init, Installed, MaybeRelease, Absent, Names, Entries
<1>2. ASSUME IInv, [Next]_vars PROVE [Atomic!Next]_<<Installed, passed>>
  <2>1. CASE BeginRename
    BY <1>2, <2>1, InstalledAtBegin DEF BeginRename
  <2>2. CASE FinalizeBaseline
    BY <1>2, <2>2, InstalledAtBaseline DEF FinalizeBaseline
  <2>3. CASE FinalizeCandidate
    BY <1>2, <2>3, ActivatesAtCandidate
  <2>4. CASE AttestActive \/ AttestBroker
    BY <1>2, <2>4, AttestsOnce
  <2>5. CASE (\E c \in Commits : Start(c)) \/ LookForPending \/ Environment \/ UNCHANGED vars
    <3>1. UNCHANGED <<dirs, journal, live, passed>>
      BY <2>5, Zenon DEF Start, LookForPending, Environment, CommandFails, Kill, Reboot,
                         BrokerStarts, BrokerStops, vars, files
    <3>2. QED
      BY <3>1 DEF Installed
  <2>6. CASE RecoveryStep /\ ~FinalizeBaseline
    <3>1. installer.pc \in RecoveryPc /\ UNCHANGED <<dirs, passed>>
      BY <2>6, Zenon DEF RecoveryStep, RecoveryPc, QuiesceBeforeRecovery, Preflight, RemoveTemps,
                  RestoreEntry, RestoreRename, RestoreDone, MarkRecovered, DaemonReload,
                  RestoreBroker, AttestRestored, files
    <3>2. journal' = journal \/ journal' = [journal EXCEPT !.recovered = TRUE]
      BY <2>6, Zenon DEF RecoveryStep, QuiesceBeforeRecovery, Preflight, RemoveTemps,
                  RestoreEntry, RestoreRename, RestoreDone, MarkRecovered, DaemonReload,
                  RestoreBroker, AttestRestored, files
    <3>3. journal'.previous = journal.previous
      BY <1>2, <3>2 DEF IInv, TypeOK, Journal
    <3>4. "pending" \in dirs
      BY <1>2, <3>1 DEF IInv, ControlInv
    <3>5. QED
      BY <3>1, <3>3, <3>4, SameInstalled
  <2>7. CASE CleanupStep
    <3>1. UNCHANGED <<live, journal, passed>>
      BY <2>7, Zenon DEF CleanupStep, Acknowledge, Retire, Sweep
    <3>2. "pending" \in dirs' <=> "pending" \in dirs
      BY <2>7, SMTT(60) DEF CleanupStep, Acknowledge, Retire, Sweep, Recovered
    <3>3. QED
      BY <3>1, <3>2, SameInstalled
  <2>8. CASE PrepareStep /\ ~BeginRename
    <3>1. /\ installer.pc \in {"capture", "build", "prepare", "recheck", "begin"}
          /\ UNCHANGED <<live, dirs, passed>>
      BY <2>8, Zenon DEF PrepareStep, Capture, Build, BuildFails, Prepare, Recheck, Begin, files
    <3>2. "pending" \notin dirs
      BY <1>2, <3>1 DEF IInv, ControlInv
    <3>3. QED
      BY <3>1, <3>2, SameInstalled
  <2>9. CASE PublishStep /\ ~FinalizeCandidate /\ ~AttestActive /\ ~AttestBroker
    <3>1. CASE FinalizeClean \/ Prune
      BY <3>1, SMTT(60) DEF FinalizeClean, Prune, Installed
    <3>2. CASE ~FinalizeClean /\ ~Prune
      <4>1. installer.pc \in PublishPc /\ UNCHANGED <<dirs, journal, passed>>
        BY <2>9, <3>2, Zenon
        DEF PublishStep, PublishPc, QuiesceForPublication, CheckPublish, StageEntry, RenameEntry,
            CheckBroker, DaemonReload, StartBroker, files
      <4>2. "pending" \in dirs
        BY <1>2, <4>1 DEF IInv, ControlInv, Publishing
      <4>3. QED
        BY <4>1, <4>2, SameInstalled
    <3>3. QED
      BY <3>1, <3>2
  <2>10. QED
    BY <1>2, <2>1, <2>2, <2>3, <2>4, <2>5, <2>6, <2>7, <2>8, <2>9 DEF Next, Step
<1>3. QED
  BY <1>1, <1>2, Invariance, PTL
  DEF Spec, ImplementsAtomicActivation, Atomic!Spec, Atomic!activationVars
===============================================================================
