------------------------ MODULE ActivationTransaction ------------------------
(***************************************************************************)
(* Activation of a release: install.sh drives the helper                   *)
(* scripts/activation_transaction.py under the install lock.  Six managed  *)
(* identities (five entry points and the broker unit) cannot be replaced   *)
(* together, so a journal with the exact baseline and candidate is made    *)
(* durable first, and an interrupted publication is rolled back by a later *)
(* run of the installer.  The installer may be killed, or the host may     *)
(* reboot, between any two file-system operations; systemd or an operator  *)
(* may start the broker at any time.                                       *)
(***************************************************************************)
EXTENDS Integers, Sequences

CONSTANTS
  Commits,      \* source commits the installer may be run for
  NoCommit,
  Common,       \* entries whose identity does not depend on the release
  MaxReleases,  \* bound: releases built in this instance
  MaxFaults     \* bound: kills, reboots, failed commands and broker starts

Entries == {"opsctl", "mcp", "gemini", "manifest", "current"}
Names   == Entries \cup {"broker"}
Order   == <<"opsctl", "mcp", "gemini", "manifest", "current", "broker">>

Absent  == 0                 \* nothing there; also "no release"
Release == 1..MaxReleases    \* a release directory, fresh for every build

ASSUME ActivationAssumption ==
  /\ NoCommit \notin Commits
  /\ Common \subseteq Entries \ {"current"}
  /\ MaxReleases \in Nat \ {0} /\ MaxFaults \in Nat

\* What an entry is (bytes or link target) when release r is active.
Identity(n, r) == IF n \in Common /\ r # Absent THEN 1 ELSE r

VARIABLES
  live,       \* the identity at each managed path
  temp,       \* paths whose staging file (.agent-runtime-activation-next) exists
  staging,    \* .activation-candidate.prepare and ....pending.new
  dirs,       \* directories that hold a transaction
  journal,    \* what they hold
  releases,   \* release directories on disk
  built,      \* how many releases were ever built
  broker,     \* systemd: the unit it has loaded, the release that runs
  installer,  \* the running install.sh
  faults,
  passed      \* history: attestations a release has passed

files == <<live, temp, staging, dirs, journal, releases>>
vars  == <<files, built, broker, installer, faults, passed>>

Idle == [pc |-> "off", commit |-> NoCommit, mode |-> "install", previous |-> Absent,
         state |-> "absent", release |-> Absent, i |-> 1]

RecoveryPc == {"r_quiesce", "r_check", "r_temps", "r_restore", "r_rename",
               "r_mark", "r_reload", "r_broker", "r_attest", "r_finalize"}
PublishPc  == {"quiesce", "publish", "p_entry", "p_rename", "attest", "b_contract",
               "b_entry", "b_rename", "b_reload", "b_start", "b_attest"}
Pc == RecoveryPc \cup PublishPc \cup
      {"off", "start", "ack", "retire", "sweep", "capture", "build", "prepare", "recheck",
       "begin", "begun", "finalize", "f_clean", "post"}

MaybeRelease == Release \cup {Absent}

Journal == [commit : Commits \cup {NoCommit}, candidate : MaybeRelease, previous : MaybeRelease,
            state : {"active", "inactive", "absent"}, baseline : [Names -> MaybeRelease],
            recovered : BOOLEAN]

TypeOK ==
  /\ live \in [Names -> MaybeRelease]
  /\ temp \subseteq Names
  /\ staging \subseteq {"prepare", "new"}
  /\ dirs \subseteq {"pending", "complete", "recovered.complete",
                     "recovered.acknowledged", "recovered.retired"}
  /\ \A d, e \in dirs : d = e   \* so one variable can hold what they contain
  /\ journal \in Journal
  /\ releases \subseteq Release
  /\ built \in 0..MaxReleases
  /\ broker \in [loaded : MaybeRelease, active : MaybeRelease]
  /\ installer \in [pc : Pc, commit : Commits \cup {NoCommit},
                    mode : {"install", "publish", "resume", "failed", "changed"},
                    previous : MaybeRelease, state : {"active", "inactive", "absent"},
                    release : MaybeRelease, i : 1..7]
  /\ faults \in 0..MaxFaults
  /\ passed \subseteq Release \X {"cli", "broker"}

\* A fresh host, or one with release 1 installed and its broker unit absent,
\* stopped or running.
Init ==
  /\ \E r \in {Absent, 1} : \E unit \in {Absent, r} : \E active \in {Absent, unit} :
       /\ live = [n \in Names |-> IF n = "broker" THEN unit ELSE Identity(n, r)]
       /\ releases = {r} \ {Absent}
       /\ built = r
       /\ broker = [loaded |-> unit, active |-> active]
  /\ temp = {} /\ staging = {} /\ dirs = {}
  /\ journal = [commit |-> NoCommit, candidate |-> Absent, previous |-> Absent,
                state |-> "absent", baseline |-> [n \in Names |-> Absent],
                recovered |-> FALSE]
  /\ installer = Idle
  /\ faults = 0
  /\ passed = {}

-------------------------------------------------------------------------------
(* Control of the installer *)

Goto(pc)         == installer' = [installer EXCEPT !.pc = pc]
GotoAs(pc, mode) == installer' = [installer EXCEPT !.pc = pc, !.mode = mode]
GotoAt(pc, i)    == installer' = [installer EXCEPT !.pc = pc, !.i = i]

Stop == installer' = Idle   \* die, or the end of the script

\* return 1 while a transaction is pending: the caller rolls back.
RollBack == installer' = [installer EXCEPT !.pc = "r_quiesce", !.mode = "failed", !.i = 1]

Baseline(n)  == journal.baseline[n]
Candidate(n) == Identity(n, journal.candidate)

AllBaseline  == \A n \in Names : live[n] = Baseline(n)
AllCandidate == \A n \in Names : live[n] = Candidate(n)

\* install_package takes the lock; recover_pending_activation_transaction.
Start(c) ==
  /\ installer.pc = "off"
  /\ installer' = [Idle EXCEPT !.pc = "start", !.commit = c]
  /\ UNCHANGED <<files, built, broker, faults, passed>>

Resume == installer' = [installer EXCEPT !.pc = "r_quiesce", !.mode = "resume",
                                         !.previous = journal.previous]

LookForPending ==
  /\ installer.pc = "start"
  /\ \/ "pending" \notin dirs /\ Goto("ack")
     \/ /\ "pending" \in dirs /\ journal.commit = installer.commit
        /\ Resume
     \/ "pending" \in dirs /\ journal.commit # installer.commit /\ Stop
  /\ UNCHANGED <<files, built, broker, faults, passed>>

-------------------------------------------------------------------------------
(* recover_and_attest_activation_baseline *)

QuiesceBeforeRecovery ==
  /\ installer.pc = "r_quiesce"
  /\ broker' = [broker EXCEPT !.active = Absent]
  /\ Goto("r_check")
  /\ UNCHANGED <<files, built, faults, passed>>

\* _preflight_variant_union: every entry is the baseline or the candidate.
Preflight ==
  /\ installer.pc = "r_check"
  /\ IF \A n \in Names : live[n] \in {Baseline(n), Candidate(n)}
     THEN Goto("r_temps") ELSE Stop
  /\ UNCHANGED <<files, built, broker, faults, passed>>

RemoveTemps ==
  /\ installer.pc = "r_temps"
  /\ \/ /\ \E n \in temp : temp' = temp \ {n}
        /\ UNCHANGED installer
     \/ /\ temp = {} /\ UNCHANGED temp
        /\ GotoAt("r_restore", 1)
  /\ UNCHANGED <<live, staging, dirs, journal, releases, built, broker, faults, passed>>

\* The step of an installer that has dealt with entry i.
Advance(pc) == GotoAt(pc, installer.i + 1)

RestoreEntry ==
  /\ installer.pc = "r_restore" /\ installer.i <= Len(Order)
  /\ LET n == Order[installer.i]
     IN \/ live[n] = Baseline(n) /\ Advance("r_restore") /\ UNCHANGED <<live, temp>>
        \/ /\ live[n] # Baseline(n) /\ Baseline(n) = Absent
           /\ live' = [live EXCEPT ![n] = Absent]
           /\ Advance("r_restore") /\ UNCHANGED temp
        \/ /\ live[n] # Baseline(n) /\ Baseline(n) # Absent
           /\ temp' = temp \cup {n}
           /\ Goto("r_rename") /\ UNCHANGED live
  /\ UNCHANGED <<staging, dirs, journal, releases, built, broker, faults, passed>>

RestoreRename ==
  /\ installer.pc = "r_rename"
  /\ LET n == Order[installer.i]
     IN temp' = temp \ {n} /\ live' = [live EXCEPT ![n] = Baseline(n)]
  /\ Advance("r_restore")
  /\ UNCHANGED <<staging, dirs, journal, releases, built, broker, faults, passed>>

\* The restoration is verified, then the marker "recovered" is written.
RestoreDone ==
  /\ installer.pc = "r_restore" /\ installer.i > Len(Order)
  /\ IF AllBaseline THEN Goto("r_mark") ELSE Stop
  /\ UNCHANGED <<files, built, broker, faults, passed>>

MarkRecovered ==
  /\ installer.pc = "r_mark"
  /\ journal' = [journal EXCEPT !.recovered = TRUE]
  /\ Goto("r_reload")
  /\ UNCHANGED <<live, temp, staging, dirs, releases, built, broker, faults, passed>>

\* systemctl daemon-reload.
DaemonReload(from, to) ==
  /\ installer.pc = from
  /\ broker' = [broker EXCEPT !.loaded = live["broker"]]
  /\ Goto(to)
  /\ UNCHANGED <<files, built, faults, passed>>

\* systemctl can start a unit whose release directory exists.
Startable == broker.loaded # Absent /\ broker.loaded \in releases

\* restore_broker_service_from_transaction after its daemon-reload.
RestoreBroker ==
  /\ installer.pc = "r_broker"
  /\ \/ /\ journal.state = "active"
        /\ broker' = [broker EXCEPT !.active = IF Startable THEN broker.loaded ELSE Absent]
        /\ IF Startable /\ broker.loaded = installer.previous THEN Goto("r_attest") ELSE Stop
     \/ /\ journal.state = "inactive"
        /\ broker' = [broker EXCEPT !.active = Absent]
        /\ IF broker.loaded # Absent THEN Goto("r_attest") ELSE Stop
     \/ /\ journal.state = "absent"
        /\ broker' = [broker EXCEPT !.active = Absent]
        /\ IF broker.loaded = Absent THEN Goto("r_attest") ELSE Stop
  /\ UNCHANGED <<files, built, faults, passed>>

\* attest_restored_cli_as_ops, for a previous release.
AttestRestored ==
  /\ installer.pc = "r_attest"
  /\ IF installer.previous = Absent \/ live["current"] = installer.previous
     THEN Goto("r_finalize") ELSE Stop
  /\ UNCHANGED <<files, built, broker, faults, passed>>

\* finalize --expect baseline.
FinalizeBaseline ==
  /\ installer.pc = "r_finalize"
  /\ IF journal.recovered /\ dirs = {"pending"} /\ AllBaseline /\ temp = {}
     THEN /\ dirs' = {"recovered.complete"}
          /\ IF installer.mode = "resume" THEN Goto("ack") ELSE Stop
     ELSE Stop /\ UNCHANGED dirs
  /\ UNCHANGED <<live, temp, staging, journal, releases, built, broker, faults, passed>>

RecoveryStep ==
  \/ QuiesceBeforeRecovery \/ Preflight \/ RemoveTemps \/ RestoreEntry
  \/ RestoreRename \/ RestoreDone \/ MarkRecovered \/ DaemonReload("r_reload", "r_broker")
  \/ RestoreBroker \/ AttestRestored \/ FinalizeBaseline

-------------------------------------------------------------------------------
(* cleanup_abandoned_activation_staging: ack-recovered, then cleanup-staging *)

\* What the caller does with a result other than "nothing was recovered".
AckStops == IF installer.mode = "publish" THEN RollBack ELSE Stop

Recovered == {"recovered.complete", "recovered.acknowledged", "recovered.retired"} \cap dirs

\* Mutant: an acknowledged transaction counts as dealt with and is kept.
AcknowledgeOnce ==
  /\ installer.pc = "ack"
  /\ \/ Recovered = {} /\ Goto("sweep") /\ UNCHANGED dirs
     \/ Recovered = {"recovered.retired"} /\ Goto("retire") /\ UNCHANGED dirs
     \/ /\ Recovered \notin {{}, {"recovered.retired"}}
        /\ IF /\ "recovered.complete" \in dirs /\ journal.commit = installer.commit
              /\ AllBaseline /\ temp = {}
           THEN dirs' = (dirs \ Recovered) \cup {"recovered.acknowledged"} /\ AckStops
           ELSE AckStops /\ UNCHANGED dirs
  /\ UNCHANGED <<live, temp, staging, journal, releases, built, broker, faults, passed>>

\* acknowledge_recovered: each run takes the recovered transaction one name
\* further, after checking that the host still is the baseline it recorded.
Acknowledge ==
  /\ installer.pc = "ack"
  /\ \/ Recovered = {} /\ Goto("sweep") /\ UNCHANGED dirs
     \/ Recovered = {"recovered.retired"} /\ Goto("retire") /\ UNCHANGED dirs
     \/ /\ Recovered \notin {{}, {"recovered.retired"}}
        /\ IF /\ \E d \in dirs : Recovered = {d}
              /\ journal.commit = installer.commit /\ AllBaseline /\ temp = {}
           THEN IF "recovered.complete" \in dirs
                THEN dirs' = (dirs \ Recovered) \cup {"recovered.acknowledged"} /\ AckStops
                ELSE dirs' = (dirs \ Recovered) \cup {"recovered.retired"} /\ Goto("retire")
           ELSE AckStops /\ UNCHANGED dirs
  /\ UNCHANGED <<live, temp, staging, journal, releases, built, broker, faults, passed>>

\* _cleanup_fixed_directory of the retired transaction.
Retire ==
  /\ installer.pc = "retire"
  /\ dirs' = dirs \ {"recovered.retired"}
  /\ AckStops
  /\ UNCHANGED <<live, temp, staging, journal, releases, built, broker, faults, passed>>

SweptTo ==
  IF installer.mode = "install" THEN Goto("capture")
  ELSE IF installer.mode = "publish" THEN Goto("publish") ELSE Stop

\* Mutant: the pending transaction is swept with the staging directories.
SweepAll ==
  /\ installer.pc = "sweep"
  /\ staging' = {}
  /\ dirs' = {}
  /\ SweptTo
  /\ UNCHANGED <<live, temp, journal, releases, built, broker, faults, passed>>

\* cleanup_staging: the two staging directories, then a completed transaction.
Sweep ==
  /\ installer.pc = "sweep"
  /\ \/ \E d \in staging : staging' = staging \ {d} /\ UNCHANGED <<dirs, installer>>
     \/ staging = {} /\ dirs' = dirs \ {"complete"} /\ SweptTo /\ UNCHANGED staging
  /\ UNCHANGED <<live, temp, journal, releases, built, broker, faults, passed>>

CleanupStep == Acknowledge \/ Retire \/ Sweep

-------------------------------------------------------------------------------
(* install_package up to the journal *)

\* capture_root_action_broker_state; "unsafe" makes it die.
BrokerState(previous) ==
  IF broker.active # Absent
  THEN IF previous # Absent /\ broker.active = previous /\ broker.loaded # Absent
       THEN "active" ELSE "unsafe"
  ELSE IF broker.loaded = Absent THEN "absent" ELSE "inactive"

Measured(previous, state) ==
  installer' = [installer EXCEPT !.pc = "build", !.previous = previous, !.state = state]

\* capture_previous_active_release and the broker state.
Capture ==
  /\ installer.pc = "capture"
  /\ LET previous == live["current"]
     IN IF \/ BrokerState(previous) = "unsafe"
           \/ previous = Absent /\ \E n \in Entries : live[n] # Absent
        THEN Stop
        ELSE Measured(previous, BrokerState(previous))
  /\ UNCHANGED <<files, built, broker, faults, passed>>

Materialized(r) == installer' = [installer EXCEPT !.pc = "prepare", !.release = r]

Build ==
  /\ installer.pc = "build" /\ built < MaxReleases
  /\ built' = built + 1
  /\ releases' = releases \cup {built + 1}
  /\ Materialized(built + 1)
  /\ UNCHANGED <<live, temp, staging, dirs, journal, broker, faults, passed>>

\* The release cannot be built or does not pass its attestation: it is removed.
BuildFails ==
  /\ installer.pc = "build"
  /\ Stop
  /\ UNCHANGED <<files, built, broker, faults, passed>>

\* activate_release writes the candidate identities ...
Prepare ==
  /\ installer.pc = "prepare"
  /\ IF "prepare" \in staging THEN Stop /\ UNCHANGED staging
     ELSE staging' = staging \cup {"prepare"} /\ Goto("recheck")
  /\ UNCHANGED <<live, temp, dirs, journal, releases, built, broker, faults, passed>>

\* ... and measures the broker again right before the journal.
Recheck ==
  /\ installer.pc = "recheck"
  /\ LET now == BrokerState(installer.previous)
     IN IF now = installer.state THEN Goto("begin")
        ELSE IF now = "unsafe" THEN Stop
        ELSE GotoAs("ack", "changed")
  /\ UNCHANGED <<files, built, broker, faults, passed>>

CanBegin ==
  /\ dirs = {} /\ "new" \notin staging /\ temp = {}
  /\ IF installer.previous = Absent THEN \A n \in Entries : live[n] = Absent
     ELSE live["current"] = installer.previous
  /\ (live["broker"] = Absent) <=> (installer.state = "absent")

\* begin: the journal is written next to its final name ...
Begin ==
  /\ installer.pc = "begin"
  /\ IF CanBegin
     THEN /\ staging' = staging \cup {"new"}
          /\ journal' = [commit |-> installer.commit, candidate |-> installer.release,
                         previous |-> installer.previous, state |-> installer.state,
                         baseline |-> live, recovered |-> FALSE]
          /\ Goto("begun")
     ELSE Stop /\ UNCHANGED <<staging, journal>>
  /\ UNCHANGED <<live, temp, dirs, releases, built, broker, faults, passed>>

\* ... and renamed: from here on the transaction is pending.
BeginRename ==
  /\ installer.pc = "begun"
  /\ staging' = staging \ {"new"}
  /\ dirs' = dirs \cup {"pending"}
  /\ Goto("quiesce")
  /\ UNCHANGED <<live, temp, journal, releases, built, broker, faults, passed>>

PrepareStep == Capture \/ Build \/ BuildFails \/ Prepare \/ Recheck \/ Begin \/ BeginRename

-------------------------------------------------------------------------------
(* Publication: activate_release after begin, the attestations, finalize *)

QuiesceForPublication ==
  /\ installer.pc = "quiesce"
  /\ broker' = [broker EXCEPT !.active = Absent]
  /\ GotoAs("ack", "publish")
  /\ UNCHANGED <<files, built, faults, passed>>

\* publish: the five entries still are the baseline and none is staged.
CheckPublish ==
  /\ installer.pc = "publish"
  /\ IF /\ ~journal.recovered
        /\ \A n \in Entries : live[n] = Baseline(n) /\ n \notin temp
     THEN GotoAt("p_entry", 1) ELSE RollBack
  /\ UNCHANGED <<files, built, broker, faults, passed>>

\* An entry that already is the candidate is not replaced.
StageEntry(from, rename, done) ==
  /\ installer.pc = from
  /\ LET n == Order[installer.i]
     IN IF live[n] = Candidate(n) THEN done /\ UNCHANGED temp
        ELSE temp' = temp \cup {n} /\ Goto(rename)
  /\ UNCHANGED <<live, staging, dirs, journal, releases, built, broker, faults, passed>>

RenameEntry(rename, done) ==
  /\ installer.pc = rename
  /\ LET n == Order[installer.i]
     IN temp' = temp \ {n} /\ live' = [live EXCEPT ![n] = Candidate(n)]
  /\ done
  /\ UNCHANGED <<staging, dirs, journal, releases, built, broker, faults, passed>>

\* After entry i: the next of the five, or the attestation of the CLI.
Published == Advance(IF installer.i < 5 THEN "p_entry" ELSE "attest")

\* Mutant: old code is pruned once the CLI of the candidate works.
AttestActivePrunes ==
  /\ installer.pc = "attest"
  /\ IF live["current"] = installer.release
     THEN passed' = passed \cup {<<installer.release, "cli">>} /\ Goto("b_contract")
     ELSE RollBack /\ UNCHANGED passed
  /\ releases' = {live["current"]}
  /\ UNCHANGED <<live, temp, staging, dirs, journal, built, broker, faults>>

\* attest_active_cli_as_ops.
AttestActive ==
  /\ installer.pc = "attest"
  /\ IF live["current"] = installer.release
     THEN passed' = passed \cup {<<installer.release, "cli">>} /\ Goto("b_contract")
     ELSE RollBack /\ UNCHANGED passed
  /\ UNCHANGED <<files, built, broker, faults>>

\* install_root_action_broker_contract up to publish-broker.
CheckBroker ==
  /\ installer.pc = "b_contract"
  /\ IF /\ broker.active = Absent /\ journal.state = installer.state
        /\ ~journal.recovered /\ "broker" \notin temp
        /\ live["broker"] \in {Baseline("broker"), Candidate("broker")}
     THEN Goto("b_entry") ELSE RollBack
  /\ UNCHANGED <<files, built, broker, faults, passed>>

\* Mutant: the candidate broker is not attested before the activation commits.
StartBrokerOnly ==
  /\ installer.pc = "b_start"
  /\ broker' = [broker EXCEPT !.active =
                  IF installer.state = "active" /\ Startable THEN broker.loaded ELSE @]
  /\ Goto("finalize")
  /\ UNCHANGED <<files, built, faults, passed>>

\* The broker was running: restart it and wait for the pinned candidate;
\* otherwise it must not run.
StartBroker ==
  /\ installer.pc = "b_start"
  /\ \/ /\ installer.state = "active"
        /\ broker' = [broker EXCEPT !.active = IF Startable THEN broker.loaded ELSE Absent]
        /\ IF Startable /\ broker.loaded = installer.release THEN Goto("b_attest")
           ELSE RollBack
     \/ /\ installer.state # "active"
        /\ IF broker.active = Absent /\ broker.loaded # Absent THEN Goto("b_attest")
           ELSE RollBack
        /\ UNCHANGED broker
  /\ UNCHANGED <<files, built, faults, passed>>

\* attest_candidate_root_action_broker_state.
AttestBroker ==
  /\ installer.pc = "b_attest"
  /\ IF IF installer.state = "active" THEN broker.active = installer.release
        ELSE broker.active = Absent /\ broker.loaded # Absent
     THEN passed' = passed \cup {<<installer.release, "broker">>} /\ Goto("finalize")
     ELSE RollBack /\ UNCHANGED passed
  /\ UNCHANGED <<files, built, broker, faults>>

\* finalize --expect candidate: the rename commits the activation ...
FinalizeCandidate ==
  /\ installer.pc = "finalize"
  /\ IF ~journal.recovered /\ dirs = {"pending"} /\ AllCandidate /\ temp = {}
     THEN dirs' = {"complete"} /\ Goto("f_clean")
     ELSE Stop /\ UNCHANGED dirs
  /\ UNCHANGED <<live, temp, staging, journal, releases, built, broker, faults, passed>>

\* ... and the directory is emptied and removed.
FinalizeClean ==
  /\ installer.pc = "f_clean"
  /\ dirs' = dirs \ {"complete"}
  /\ Goto("post")
  /\ UNCHANGED <<live, temp, staging, journal, releases, built, broker, faults, passed>>

\* prune_old_release_code, one directory at a time; then the script ends.
Prune ==
  /\ installer.pc = "post"
  /\ \/ \E r \in releases \ {live["current"]} : releases' = releases \ {r} /\ UNCHANGED installer
     \/ releases \subseteq {live["current"]} /\ Stop /\ UNCHANGED releases
  /\ UNCHANGED <<live, temp, staging, dirs, journal, built, broker, faults, passed>>

PublishStep ==
  \/ QuiesceForPublication \/ CheckPublish
  \/ StageEntry("p_entry", "p_rename", Published) \/ RenameEntry("p_rename", Published)
  \/ AttestActive \/ CheckBroker
  \/ StageEntry("b_entry", "b_rename", Goto("b_reload"))
  \/ RenameEntry("b_rename", Goto("b_reload"))
  \/ DaemonReload("b_reload", "b_start") \/ StartBroker \/ AttestBroker
  \/ FinalizeCandidate \/ FinalizeClean \/ Prune

-------------------------------------------------------------------------------
(* The environment *)

Fault == faults < MaxFaults /\ faults' = faults + 1

\* A command of the publication fails or times out.
CommandFails ==
  /\ Fault
  /\ installer.pc \in PublishPc
  /\ RollBack
  /\ UNCHANGED <<files, built, broker, passed>>

\* The installer is killed, or a step dies; what is on disk stays.
Kill ==
  /\ Fault
  /\ installer.pc # "off"
  /\ Stop
  /\ UNCHANGED <<files, built, broker, passed>>

\* The host goes down; systemd reads the unit again.
Reboot ==
  /\ Fault
  /\ Stop
  /\ broker' = [loaded |-> live["broker"], active |-> Absent]
  /\ UNCHANGED <<files, built, passed>>

\* systemd (at boot, Restart=on-failure) or an operator starts the broker.
BrokerStarts ==
  /\ Fault
  /\ broker.active = Absent /\ Startable
  /\ broker' = [broker EXCEPT !.active = broker.loaded]
  /\ UNCHANGED <<files, built, installer, passed>>

BrokerStops ==
  /\ Fault
  /\ broker.active # Absent
  /\ broker' = [broker EXCEPT !.active = Absent]
  /\ UNCHANGED <<files, built, installer, passed>>

Environment == CommandFails \/ Kill \/ Reboot \/ BrokerStarts \/ BrokerStops

Step == LookForPending \/ RecoveryStep \/ CleanupStep \/ PrepareStep \/ PublishStep

Next == (\E c \in Commits : Start(c)) \/ Step \/ Environment

Spec == Init /\ [][Next]_vars

\* The installer runs when it can; the operator reruns it, and for the commit
\* whose activation was interrupted too.
FairSpec == Spec /\ WF_vars(Step) /\ \A c \in Commits : SF_vars(Start(c))

-------------------------------------------------------------------------------
(* Properties *)

Uniform(r) ==
  /\ \A n \in Entries : live[n] = Identity(n, r)
  /\ live["broker"] \in {Absent, r}

\* Whenever no activation is pending, whatever was killed before, the managed
\* paths all belong to one release (or are all absent), and so do the unit
\* systemd has loaded and a broker that runs: finalize and recover leave no
\* mixture behind.
InstalledAsOne ==
  "pending" \notin dirs =>
    /\ Uniform(live["current"]) /\ temp = {}
    /\ broker.loaded = live["broker"]
    /\ broker.active \in {Absent, live["broker"]}

\* A pending activation can always be rolled back: every path holds one of the
\* two identities in the journal, so the preflight of recover never refuses,
\* and the previous release is still on disk.
RecoveryPossible ==
  "pending" \in dirs =>
    /\ \A n \in Names : live[n] \in {Baseline(n), Candidate(n)}
    /\ journal.previous \in releases \cup {Absent}
    /\ Baseline("current") = journal.previous

\* Pruning removes no code that is in use: by the current link, by the unit on
\* disk or by a broker that runs, also one that was started at a bad moment.
CodeInUseKept ==
  {live["current"], live["broker"], broker.active} \subseteq releases \cup {Absent}

\* Once the recovery marker is written the host stays the recorded baseline
\* until the last trace of the transaction is gone: nothing is published from a
\* recovered transaction, and acknowledge_recovered finds what it demands.
RecoveredIsBaseline ==
  dirs # {} /\ journal.recovered => AllBaseline /\ temp = {}

AwaitsItsInstaller ==
  dirs \cap {"pending", "recovered.complete", "recovered.acknowledged"} # {}

\* An installer of another commit leaves a transaction that awaits its own
\* installer alone, and everything else on disk with it.
ForeignCommitWaits ==
  [][AwaitsItsInstaller /\ installer.pc # "off" /\ installer.commit # journal.commit
       => UNCHANGED files]_vars

\* When faults stop and the operator keeps rerunning the installer, an
\* interrupted activation is recovered, acknowledged and retired (or was
\* already complete): the next activation is not blocked for ever.
FrontierCleared == dirs # {} ~> dirs = {}

\* The release the host is on: while a transaction is pending the previous one.
Installed == IF "pending" \in dirs THEN journal.previous ELSE live["current"]

Atomic == INSTANCE AtomicActivation WITH installed <- Installed

\* The activation is atomic across kills and reboots, and only an attested
\* release becomes the installed one.
ImplementsAtomicActivation == Atomic!Spec

==============================================================================
