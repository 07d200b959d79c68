---------------------------- MODULE RuntimeApply ----------------------------
(***************************************************************************)
(* One slot under `opsctl apply', the image rollouts, `rollback' (plain    *)
(* and bound to an exact marker) and the migration of legacy backups.      *)
(* Every command holds the non-blocking locks of the slot from its first   *)
(* write to its end, so at most one is under way; a second one is refused  *)
(* and leaves no trace.  A command may be killed between any two of its    *)
(* writes, and any write, docker command or live check may fail.           *)
(***************************************************************************)
EXTENDS Integers, Sequences

CONSTANTS
  Image,        \* the images a slot may run: wrapper and product digest
  None,
  Legacy,       \* the backups of older layouts, oldest first, each with its versions
  Damages,      \* what may be wrong with one of them
  MaxBackups,   \* bound: backups in the managed root
  MaxMarkers,   \* bound: rollback transactions ever opened
  MaxFaults     \* bound: kills, failed writes, docker commands and live checks,
                \* and changes of a legacy backup

Absent     == "absent"       \* a file that is not there
Unrecorded == "unrecorded"   \* a legacy backup that says nothing of .env
Content    == Image \cup {Absent}

\* The files of a slot, each known by the image it was written for:
\* .env, the compose file, .agent-runtime-manifest and state manifest.yaml.
Files      == [env : Content, compose : Content, manifest : Content, state : Content]
Snapshot   == [env : Content \cup {Unrecorded},
               compose : Content, manifest : Content, state : Content]
Uniform(c) == [env |-> c, compose |-> c, manifest |-> c, state |-> c]

VARIABLES
  files,        \* the slot's files
  running,      \* the compose project: None, or the files it was started from
  backups,      \* published backup directories, in order of publication
  legacy,       \* the legacy backups as they are on disk
  residue,      \* what else is in the managed backup root
  marker,       \* .agent-runtime-rollback-transaction.json
  markers,      \* how many rollback transactions were ever opened
  canary,       \* canary-transactions/<slot>/transaction.json
  outcomes,     \* what the receipts of canary transactions have ever said
  reading,      \* the image an `apply' without the locks yet read in the manifest
  op,           \* the command that holds the locks
  pc,           \* its next step
  report,       \* the receipt of an exact rollback, until the next command
  faults

slot == <<files, running>>
tx   == <<marker, markers>>
can  == <<canary, outcomes>>
vars == <<files, running, backups, legacy, residue, marker, markers, canary, outcomes,
          reading, op, pc, report, faults>>

\* The first layout has neither state manifest nor .env, the second no .env.
Source  == [layout : {"v0", "v1", "v2"}, files : Files]
OnDisk  == [layout : {"v0", "v1", "v2"}, files : Files,
            damage : {"none", "directory", "artifact", "metadata"}]

\* A backup's name orders it by time: the legacy ones are older than all others,
\* and carry the identity of their source.
Backup  == [files : Snapshot, at : Nat, source : Source \cup {None}]
Marker  == [tx : Nat, point : Nat]
Canary  == [id : Nat, candidate : Image, prestate : Content]
Outcome == [id : Nat, outcome : {"candidate_succeeded", "rollback_succeeded"}]
Project == [compose : Image, env : Content]

\* `touched' and `removed' are history: whether the command has changed the
\* slot, and whether it has removed the marker.
Op == [kind : {"apply", "canary", "promote", "rollback", "exact", "migrate", "none"},
       image : Content, point : Nat, expected : Nat,
       read : Seq(OnDisk), mutated : BOOLEAN, touched : BOOLEAN, removed : BOOLEAN]

Report == [writes : BOOLEAN, state : {"committed", "absent", "pending", "unavailable"},
           result : {"complete", "failed", "rejected"}, touched : BOOLEAN, removed : BOOLEAN]

ApplyPc   == {"preflight", "backup", "staged", "mark", "canary", "env", "compose",
              "unprepare", "up", "check", "manifest", "state", "finish", "receipt",
              "consume", "log"}
RestorePc == {"restore", "down", "r_env", "r_compose", "r_manifest", "r_state", "r_up",
              "r_check", "r_finish", "r_receipt", "r_consume", "r_log"}
Pc == ApplyPc \cup RestorePc \cup {"idle", "pick", "sources", "import", "publish"}

ASSUME RuntimeAssumption ==
  /\ {None, Absent, Unrecorded} \cap Image = {}
  /\ None \notin Project \cup Marker \cup Canary \cup Report \cup Source
  /\ Legacy \in Seq(Seq(Source) \ {<<>>})
  /\ Damages \subseteq {"directory", "artifact", "metadata"}
  /\ MaxBackups \in Nat /\ MaxMarkers \in Nat /\ MaxFaults \in Nat

TypeOK ==
  /\ files \in Files
  /\ running \in Project \cup {None}
  /\ backups \in Seq(Backup)
  /\ legacy \in Seq(OnDisk)
  /\ residue \in {"none", "staging", "interrupted"}
  /\ marker \in Marker \cup {None}
  /\ markers \in Nat
  /\ canary \in Canary \cup {None}
  /\ outcomes \subseteq Outcome
  /\ reading \in Image \cup {None}
  /\ op \in Op /\ pc \in Pc
  /\ report \in Report \cup {None}
  /\ faults \in Nat

NoOp == [kind |-> "none", image |-> Absent, point |-> 0, expected |-> 0, read |-> <<>>,
         mutated |-> FALSE, touched |-> FALSE, removed |-> FALSE]

Stored(s, d) == [layout |-> s.layout, files |-> s.files, damage |-> d]

\* A slot as the older tools left it; an import of theirs may have been stopped
\* after it had moved its first backup to a name of the wrong form.
Init ==
  /\ files \in {Uniform(c) : c \in Content}
  /\ running = IF files.compose = Absent THEN None
               ELSE [compose |-> files.compose, env |-> files.env]
  /\ backups = <<>>
  /\ legacy = [i \in DOMAIN Legacy |-> Stored(Legacy[i][1], "none")]
  /\ residue \in {"none"} \cup (IF Legacy # <<>> THEN {"interrupted"} ELSE {})
  /\ marker = None /\ markers = 0
  /\ canary = None /\ outcomes = {}
  /\ reading = None /\ op = NoOp /\ pc = "idle" /\ report = None /\ faults = 0

----------------------------------------------------------------------------
\* What the commands compute from the files.

\* docker compose up --force-recreate: the project is started from the files.
Started == [compose |-> files.compose, env |-> files.env]

\* The image of the contract in a backup: manifest.yaml before the older manifest.
ContractImage(s) == IF s.state # Absent THEN s.state ELSE s.manifest

Point == backups[op.point].files

\* latest_backup: by name, that is by time.
Latest(i) == \A j \in DOMAIN backups : backups[j].at <= backups[i].at

\* _open_legacy_directory, _read_legacy_regular_file and _strict_legacy_metadata:
\* the directories, the artifacts and backup.json of a source have their form,
\* and stay as they are while they are read.
SoundDirectory(s) == s.damage # "directory"
SoundArtifacts(s) == s.damage # "artifact"
SoundMetadata(s)  == s.damage # "metadata"

\* _read_legacy_backup_directory, _read_all_legacy_backups
SoundSource(s)  == SoundDirectory(s) /\ SoundArtifacts(s) /\ SoundMetadata(s)
ReadableSources == \A i \in DOMAIN legacy : SoundSource(legacy[i])

\* _legacy_source_identity: name, metadata and artifacts by their digests.
SourceIdentity(s) == [layout |-> s.layout, files |-> s.files]

\* What a source becomes as a managed backup: the older layouts record no .env,
\* and the first one no state manifest.
Imported(s) ==
  [s.files EXCEPT !.env   = IF s.layout = "v2" THEN @ ELSE Unrecorded,
                  !.state = IF s.layout = "v0" THEN Absent ELSE @]

\* _legacy_import_metadata: the backups that were imported from source i.
ImportsOf(i) == {j \in DOMAIN backups : backups[j].source # None /\ backups[j].at = i}

\* _existing_legacy_imports: the sources that no managed backup is made from.
NotImported == {i \in DOMAIN op.read : ImportsOf(i) = {}}

\* A source that was imported and has another identity now.
Conflicting ==
  {i \in DOMAIN op.read :
     \E j \in ImportsOf(i) : backups[j].source # SourceIdentity(op.read[i])}

FromSource(i, s) == [files |-> Imported(s), at |-> i, source |-> SourceIdentity(s)]

\* Stamps are taken from a clock that does not go back.
NextStamp == Len(Legacy) + Len(backups) + 1

IsRollout  == op.kind \in {"canary", "promote"}
IsApply    == IsRollout \/ op.kind = "apply"

Fault == faults < MaxFaults /\ faults' = faults + 1
NoFault == UNCHANGED faults

----------------------------------------------------------------------------
\* The command ends with return code rc, o being the command after its last
\* step: the locks are released, and an exact rollback prints its receipt.
ReceiptOf(o, m, rc) ==
  LET state == IF m = None THEN IF rc \in {0, 3} THEN "committed" ELSE "absent"
               ELSE IF m.tx = o.expected THEN "pending" ELSE "unavailable"
      ok    == rc = 0 /\ o.mutated /\ state = "committed"
  IN [writes |-> o.mutated, state |-> state,
      result |-> IF ok THEN "complete" ELSE IF o.mutated THEN "failed" ELSE "rejected",
      touched |-> o.touched, removed |-> o.removed]

Ends(o, rc) ==
  /\ pc' = "idle" /\ op' = NoOp
  /\ report' = IF o.kind = "exact" THEN ReceiptOf(o, marker', rc) ELSE report
  /\ UNCHANGED <<reading, legacy>>

Goto(l) == pc' = l /\ UNCHANGED <<op, report, reading, legacy>>

\* The next step together with a changed command.
Becomes(o, l) == pc' = l /\ op' = o /\ UNCHANGED <<report, reading, legacy>>

\* runtime_host_mutation_lock and runtime_transaction_lock.  The form of an exact
\* rollback creates no lock file: some command has to have held them before.
Unlocked       == pc = "idle"
UnlockedBefore == Unlocked /\ markers > 0

Start(o, l) ==
  /\ Unlocked /\ pc' = l /\ op' = o /\ report' = None
  /\ UNCHANGED <<reading, legacy>>
  /\ UNCHANGED <<slot, backups, residue, tx, can, faults>>

\* Bound: room for one backup and for the two markers an apply may open.
RoomToApply == Len(backups) < MaxBackups /\ markers + 2 <= MaxMarkers

----------------------------------------------------------------------------
\* Commands.

\* cmd_apply reads the image in the runtime manifest before it takes the locks.
\* Only the steps at `state' and `r_state' change that manifest: a read at any
\* other step is the same as one before the next of them.
ReadManifest ==
  /\ reading = None /\ files.state # Absent
  /\ pc \in {"idle", "state", "r_state"}
  /\ reading' = files.state
  /\ UNCHANGED <<slot, backups, legacy, residue, tx, can, op, pc, report, faults>>

StartApply ==
  /\ reading # None /\ Unlocked /\ RoomToApply
  /\ op' = [NoOp EXCEPT !.kind = "apply", !.image = reading] /\ pc' = "preflight"
  /\ reading' = None /\ report' = None
  /\ UNCHANGED <<slot, backups, legacy, residue, tx, can, faults>>

\* The locks are taken: `apply' gives up.
ApplyRefused ==
  /\ reading # None /\ ~Unlocked
  /\ reading' = None
  /\ UNCHANGED <<slot, backups, legacy, residue, tx, can, op, pc, report, faults>>

\* image-canary and image-dev-apply differ in the class of slot they accept;
\* image-promote takes its image from a slot that passes the live checks.
StartRollout(v) ==
  /\ RoomToApply
  /\ Start([NoOp EXCEPT !.kind = "canary", !.image = v], "preflight")

StartPromote(v) ==
  /\ RoomToApply
  /\ Start([NoOp EXCEPT !.kind = "promote", !.image = v], "preflight")

StartRollback ==
  /\ marker # None \/ (markers < MaxMarkers /\ Len(backups) + Len(Legacy) <= MaxBackups)
  /\ Start([NoOp EXCEPT !.kind = "rollback"], "pick")

\* pending_rollback_backup, require_exact_pending_rollback
PendingBackup   == marker.point
ExactPending(t) == marker # None /\ marker.tx = t

\* rollback with the identity of a transaction: no other one is accepted, and
\* there is no fall-back to the latest or a legacy backup.
StartExact(t) ==
  LET o == [NoOp EXCEPT !.kind = "exact", !.expected = t]
  IN /\ UnlockedBefore
     /\ UNCHANGED <<slot, backups, residue, tx, can, faults>>
     /\ \/ ExactPending(t) /\ Start([o EXCEPT !.point = PendingBackup], "restore")
        \/ ~ExactPending(t) /\ Ends(o, 1)

\* install_migrations.py, run by the installer.
StartMigrate ==
  /\ Len(backups) + Len(Legacy) <= MaxBackups
  /\ legacy # <<>>
  /\ Start([NoOp EXCEPT !.kind = "migrate"], "sources")

----------------------------------------------------------------------------
\* verify_target_before_apply; the slot the image was taken from may have changed.
PromotionAdmitted == marker = None /\ ContractImage(files) # Absent

\* apply_desired_slot.  Everything up to the backup only reads.
Preflight ==
  /\ pc = "preflight"
  /\ UNCHANGED <<slot, backups, residue, tx, can>> /\ NoFault
  /\ \/ /\ op.kind = "promote" => PromotionAdmitted
        /\ Goto("backup")
     \/ Ends(op, 1)

\* Mutant: a pending rollback does not stop a new backup.
StageBackupOverPending ==
  /\ pc = "backup"
  /\ UNCHANGED <<slot, backups, tx, can>> /\ NoFault
  /\ \/ residue = "none" /\ residue' = "staging" /\ Goto("staged")
     \/ residue # "none" /\ UNCHANGED residue /\ Ends(op, 1)

\* backup_agent_runtime_state: refused while a rollback is pending, and by
\* anything in the backup root that is not a backup.
StageBackup ==
  /\ pc = "backup"
  /\ UNCHANGED <<slot, backups, tx, can>> /\ NoFault
  /\ \/ marker = None /\ residue = "none" /\ residue' = "staging" /\ Goto("staged")
     \/ (marker # None \/ residue # "none") /\ UNCHANGED residue /\ Ends(op, 1)

\* The staging directory is renamed; a failure is followed by its removal, but
\* after the rename there is nothing left to remove.
PublishBackup ==
  LET published == Append(backups, [files |-> files, at |-> NextStamp, source |-> None])
  IN /\ pc = "staged"
     /\ residue' = "none"
     /\ UNCHANGED <<slot, tx, can>>
     /\ \/ /\ backups' = published
           /\ Becomes([op EXCEPT !.point = Len(backups) + 1], "mark") /\ NoFault
        \/ backups' \in {backups, published} /\ Ends(op, 1) /\ Fault

\* _begin_rollback_transaction where no rollback is pending.
MarkerWritten ==
  /\ marker' = [tx |-> markers + 1, point |-> op.point]
  /\ markers' = markers + 1

\* begin_rollback_transaction.  A file is written under another name, renamed,
\* and its directory synced: a failure leaves the old or the new content.
OpenMarker ==
  /\ pc = "mark"
  /\ UNCHANGED <<slot, backups, residue, can>>
  /\ \/ MarkerWritten /\ Goto(IF op.kind = "promote" THEN "canary" ELSE "env") /\ NoFault
     \/ (MarkerWritten \/ UNCHANGED tx) /\ Ends(op, 1) /\ Fault

\* Only the action rollout_image_promote opens a canary transaction.
OpenCanary ==
  LET sealed == [id |-> marker.tx, candidate |-> op.image, prestate |-> ContractImage(Point)]
  IN /\ pc = "canary"
     /\ UNCHANGED <<slot, backups, residue, tx, outcomes>>
     /\ \/ canary = None /\ canary' = sealed /\ Goto("env") /\ NoFault
        \/ canary = None /\ canary' \in {canary, sealed} /\ Ends(op, 1) /\ Fault
        \/ canary # None /\ UNCHANGED canary /\ Ends(op, 1) /\ NoFault

\* _prepare_runtime_env_for_direct_image
RolloutEnv == [files EXCEPT !.env = op.image]

\* A rollout writes its image into .env; `apply' only needs .env to be there.
PrepareEnv ==
  /\ pc = "env"
  /\ UNCHANGED <<running, backups, residue, tx, can>>
  /\ \/ IsRollout /\ files' = RolloutEnv /\ Goto("compose") /\ NoFault
     \/ /\ IsRollout /\ files' \in {files, RolloutEnv}
        /\ Goto("unprepare") /\ Fault
     \/ ~IsRollout /\ files.env # Absent /\ UNCHANGED files /\ Goto("compose") /\ NoFault
     \/ ~IsRollout /\ files.env = Absent /\ UNCHANGED files /\ Ends(op, 1) /\ NoFault

WriteCompose ==
  LET written == [files EXCEPT !.compose = op.image]
  IN /\ pc = "compose"
     /\ UNCHANGED <<running, backups, residue, tx, can>>
     /\ \/ files' = written /\ Goto("up") /\ NoFault
        \/ files' \in {files, written} /\ IsRollout /\ Goto("unprepare") /\ Fault
        \/ files' \in {files, written} /\ ~IsRollout /\ Ends(op, 1) /\ Fault

\* The except clause before the compose file is written: only .env is put back,
\* and the marker stays.
Unprepare ==
  /\ pc = "unprepare"
  /\ UNCHANGED <<running, backups, residue, tx, can>>
  /\ Ends(op, 1)
  /\ \/ files' = [files EXCEPT !.env = Point.env] /\ NoFault
     \/ files' \in {files, [files EXCEPT !.env = Point.env]} /\ Fault

\* A failed or interrupted docker command: the project is as it was, gone, or
\* already the new one.
DockerLeaves == running' \in {running, None, Started}

\* docker compose config and up
ComposeUp ==
  /\ pc = "up"
  /\ UNCHANGED <<files, backups, residue, tx, can>>
  /\ \/ running' = Started /\ Goto("check") /\ NoFault
     \/ DockerLeaves /\ Goto("restore") /\ Fault

----------------------------------------------------------------------------
\* The live checks compare the project with the image that is to run; the
\* workspace guidance before and after them may fail as they may.
CheckLive ==
  /\ pc = "check"
  /\ UNCHANGED <<slot, backups, residue, tx, can>>
  /\ \/ /\ Goto(IF running # None /\ running.compose = op.image THEN "manifest" ELSE "restore")
        /\ NoFault
     \/ Goto("restore") /\ Fault

WriteManifest ==
  LET written == [files EXCEPT !.manifest = op.image]
  IN /\ pc = "manifest"
     /\ UNCHANGED <<running, backups, residue, tx, can>>
     /\ \/ files' = written /\ Goto("state") /\ NoFault
        \/ files' \in {files, written} /\ Goto("restore") /\ Fault

WriteState ==
  LET written == [files EXCEPT !.state = op.image]
  IN /\ pc = "state"
     /\ UNCHANGED <<running, backups, residue, tx, can>>
     /\ \/ files' = written /\ Goto("finish") /\ NoFault
        \/ files' \in {files, written} /\ Goto("restore") /\ Fault

\* finish_rollback_transaction.  It may fail before or after the unlink.
FinishApply ==
  /\ pc = "finish"
  /\ UNCHANGED <<slot, backups, residue, markers, can>>
  /\ \/ /\ marker' = None
        /\ Goto(IF op.kind = "promote" THEN "receipt" ELSE "log") /\ NoFault
     \/ marker' \in {marker, None} /\ Goto("restore") /\ Fault

\* finish_canary_transaction writes the receipt, then removes the transaction.
WriteReceipt ==
  /\ pc = "receipt"
  /\ UNCHANGED <<slot, backups, residue, tx, canary>>
  /\ canary # None /\ canary.candidate = op.image
  /\ LET receipt == [id |-> canary.id, outcome |-> "candidate_succeeded"]
     IN \/ outcomes' = outcomes \cup {receipt} /\ Goto("consume") /\ NoFault
        \/ outcomes' \in {outcomes, outcomes \cup {receipt}} /\ Goto("restore") /\ Fault

ConsumeCanary ==
  /\ pc = "consume"
  /\ UNCHANGED <<slot, backups, residue, tx, outcomes>>
  /\ \/ canary' = None /\ Goto("log") /\ NoFault
     \/ canary' \in {canary, None} /\ Goto("restore") /\ Fault

\* The action log is written inside the same try block.
AppendLog ==
  /\ pc = "log"
  /\ UNCHANGED <<slot, backups, residue, tx, can>>
  /\ \/ Ends(op, 0) /\ NoFault
     \/ Goto("restore") /\ Fault

ApplyStep ==
  \/ Preflight \/ StageBackup \/ PublishBackup \/ OpenMarker \/ OpenCanary
  \/ PrepareEnv \/ WriteCompose \/ Unprepare \/ ComposeUp \/ CheckLive
  \/ WriteManifest \/ WriteState \/ FinishApply \/ WriteReceipt
  \/ ConsumeCanary \/ AppendLog

----------------------------------------------------------------------------
\* rollback: choosing the backup, and importing the legacy ones.

PickBackup ==
  /\ pc = "pick"
  /\ UNCHANGED <<slot, backups, residue, tx, can>> /\ NoFault
  /\ \/ marker # None /\ Becomes([op EXCEPT !.point = PendingBackup], "restore")
     \/ marker = None /\ residue # "none" /\ Ends(op, 1)
     \/ /\ marker = None /\ residue = "none"
        /\ \E i \in DOMAIN backups :
             Latest(i) /\ Becomes([op EXCEPT !.point = i], "restore")
     \/ /\ marker = None /\ residue = "none" /\ backups = <<>>
        /\ IF legacy # <<>> THEN Goto("sources") ELSE Ends(op, 1)

\* import_legacy_agent_runtime_backups reads every source before it writes.
ReadSources ==
  /\ pc = "sources"
  /\ UNCHANGED <<slot, backups, residue, tx, can>> /\ NoFault
  /\ IF ReadableSources /\ residue # "staging"
     THEN Becomes([op EXCEPT !.read = legacy], "import") ELSE Ends(op, 1)

\* _recover_interrupted_legacy_publications: the directory gets a proper name.
RecoverInterrupted ==
  /\ pc = "import" /\ residue = "interrupted"
  /\ residue' = "none"
  /\ backups' = Append(backups, FromSource(1, Legacy[1][1]))
  /\ UNCHANGED <<slot, tx, can>> /\ Goto("import") /\ NoFault

\* Oldest first, each staged and renamed; one that changed since it was imported
\* stops the command.
ImportNext ==
  LET todo == NotImported \cup Conflicting
      Oldest(k) == \A l \in todo : k <= l
  IN /\ pc = "import" /\ residue = "none"
     /\ UNCHANGED <<slot, backups, tx, can>> /\ NoFault
     /\ \/ \E k \in Conflicting : Oldest(k) /\ UNCHANGED residue /\ Ends(op, 1)
        \/ \E k \in NotImported :
             /\ Oldest(k) /\ residue' = "staging"
             /\ Becomes([op EXCEPT !.point = k], "publish")
        \/ /\ todo = {} /\ UNCHANGED residue
           /\ IF op.kind = "rollback" THEN Becomes([op EXCEPT !.read = <<>>], "pick")
              ELSE Ends(op, 0)

PublishImport ==
  /\ pc = "publish"
  /\ residue' = "none"
  /\ UNCHANGED <<slot, tx, can>>
  /\ \/ /\ backups' = Append(backups, FromSource(op.point, op.read[op.point]))
        /\ Goto("import") /\ NoFault
     \/ UNCHANGED backups /\ Ends(op, 1) /\ Fault

\* The legacy backups stay in the slot's own directory, where they may change.
\* Only ReadSources looks at them: a change while a command runs is the same as
\* one before or after it.
LegacyChanges(i) ==
  /\ Unlocked /\ Fault
  /\ \/ \E v \in DOMAIN Legacy[i] : legacy' = [legacy EXCEPT ![i] = Stored(Legacy[i][v], "none")]
     \/ \E d \in Damages : legacy' = [legacy EXCEPT ![i].damage = d]
  /\ legacy' # legacy
  /\ UNCHANGED <<slot, backups, residue, tx, can, reading, op, pc, report>>

----------------------------------------------------------------------------
\* Mutant: a pending transaction is refused even for its own backup.
BeginRestoreOnce ==
  /\ pc = "restore"
  /\ UNCHANGED <<slot, backups, residue, can>>
  /\ \/ marker = None /\ MarkerWritten /\ Goto("r_env") /\ NoFault
     \/ marker # None /\ UNCHANGED tx /\ Ends(op, 1) /\ NoFault

\* restore_backup.  The marker is opened, or found, before the first write; an
\* exact rollback marks here that it has started to change the slot.
BeginRestore ==
  /\ pc = "restore"
  /\ UNCHANGED <<slot, backups, residue, can>>
  /\ LET next == IF Point.compose = Absent /\ files.compose # Absent THEN "down" ELSE "r_env"
     IN \/ marker = None /\ op.kind # "exact" /\ MarkerWritten /\ Goto(next) /\ NoFault
        \/ marker = None /\ op.kind # "exact" /\ MarkerWritten /\ Ends(op, 1) /\ Fault
        \/ /\ marker # None /\ marker.point = op.point /\ UNCHANGED tx
           /\ Becomes([op EXCEPT !.mutated = op.kind = "exact"], next) /\ NoFault
        \/ UNCHANGED tx /\ Ends(op, 1) /\ Fault

Touched == [op EXCEPT !.touched = TRUE]

\* An empty baseline: the project is taken down while its compose file exists.
ComposeDown ==
  /\ pc = "down"
  /\ UNCHANGED <<files, backups, residue, tx, can>>
  /\ \/ running' = None /\ Becomes(Touched, "r_env") /\ NoFault
     \/ running' \in {running, None} /\ Ends(Touched, 1) /\ Fault

RestoreOrder == <<"env", "compose", "manifest", "state">>
RestoreLabel == <<"r_env", "r_compose", "r_manifest", "r_state", "r_up">>

\* _validate_env_restore_inputs: a backup of an older layout has no record of .env.
EnvRecorded == Point.env # Unrecorded

\* _restore_regular_file, _remove_regular_file
RestoredFile(f) == [files EXCEPT ![f] = Point[f]]

\* restore_backup_env leaves .env alone if the backup does not speak of it; the
\* other files follow one at a time.
RestoreFile(i) ==
  LET f == RestoreOrder[i]
      restored == IF f = "env" /\ ~EnvRecorded THEN files ELSE RestoredFile(f)
  IN /\ pc = RestoreLabel[i]
     /\ UNCHANGED <<running, backups, residue, tx, can>>
     /\ \/ files' = restored /\ Becomes(Touched, RestoreLabel[i + 1]) /\ NoFault
        \/ files' \in {files, restored} /\ Ends(Touched, 1) /\ Fault

\* Mutant: the return code of docker compose up is ignored.
RestoreUpUnchecked ==
  /\ pc = "r_up"
  /\ UNCHANGED <<files, backups, residue, tx, can>>
  /\ \/ files.compose = Absent /\ UNCHANGED running /\ Goto("r_finish") /\ NoFault
     \/ files.compose # Absent /\ running' = Started /\ Becomes(Touched, "r_check") /\ NoFault
     \/ files.compose # Absent /\ DockerLeaves /\ Becomes(Touched, "r_finish") /\ Fault

\* Either neither manifest nor anything of the project may remain, or it is
\* started from the files.
RestoreUp ==
  /\ pc = "r_up"
  /\ UNCHANGED <<files, backups, residue, tx, can>>
  /\ \/ /\ files.compose = Absent /\ UNCHANGED running
        /\ IF files.manifest = Absent /\ running = None
           THEN Goto("r_finish") ELSE Ends(op, 1)
        /\ NoFault
     \/ files.compose = Absent /\ UNCHANGED running /\ Ends(op, 1) /\ Fault
     \/ files.compose # Absent /\ running' = Started /\ Becomes(Touched, "r_check") /\ NoFault
     \/ files.compose # Absent /\ DockerLeaves /\ Ends(Touched, 1) /\ Fault

\* load_backup_runtime_contract: what the restored slot has to run.
BackupContract == ContractImage(Point)

\* _restore_and_verify_backup, and the same checks of the command rollback
RestoreVerified == running # None /\ running.compose = BackupContract

RestoreCheck ==
  /\ pc = "r_check"
  /\ UNCHANGED <<slot, backups, residue, tx, can>>
  /\ \/ /\ IF RestoreVerified THEN Goto("r_finish") ELSE Ends(op, 1)
        /\ NoFault
     \/ Ends(op, 1) /\ Fault

Removing == [op EXCEPT !.touched = TRUE, !.removed = TRUE]

\* finish_rollback_transaction
FinishRestore ==
  /\ pc = "r_finish" /\ op.kind # "exact"
  /\ UNCHANGED <<slot, backups, residue, markers, can>>
  /\ \/ /\ marker' = None
        /\ Becomes(Removing, IF IsApply THEN "r_receipt" ELSE "r_log") /\ NoFault
     \/ marker' = None /\ Ends(Removing, 1) /\ Fault
     \/ UNCHANGED marker /\ Ends(op, 1) /\ Fault

\* finish_exact_rollback_transaction: only the transaction that was asked for.
FinishExact ==
  /\ pc = "r_finish" /\ op.kind = "exact"
  /\ ExactPending(op.expected) /\ PendingBackup = op.point
  /\ UNCHANGED <<slot, backups, residue, markers, can>>
  /\ \/ marker' = None /\ Becomes(Removing, "r_log") /\ NoFault
     \/ marker' = None /\ Ends(Removing, 1) /\ Fault
     \/ UNCHANGED marker /\ Ends(op, 1) /\ Fault

\* Mutant: the restored image is not compared with the canary's prestate.
WriteRollbackReceiptUnchecked ==
  /\ pc = "r_receipt"
  /\ UNCHANGED <<slot, backups, residue, tx, canary>> /\ NoFault
  /\ \/ /\ canary # None
        /\ outcomes' = outcomes \cup {[id |-> canary.id, outcome |-> "rollback_succeeded"]}
        /\ Goto("r_consume")
     \/ canary = None /\ UNCHANGED outcomes /\ Ends(op, 1)

\* _finish_canary_rollback: an apply that rolled back consumes the canary
\* transaction it finds, if what it restored is that canary's prestate.
WriteRollbackReceipt ==
  /\ pc = "r_receipt"
  /\ UNCHANGED <<slot, backups, residue, tx, canary>>
  /\ \/ /\ canary # None /\ canary.prestate = BackupContract
        /\ outcomes' = outcomes \cup {[id |-> canary.id, outcome |-> "rollback_succeeded"]}
        /\ Goto("r_consume") /\ NoFault
     \/ /\ canary # None => canary.prestate # BackupContract
        /\ UNCHANGED outcomes /\ Ends(op, 1) /\ NoFault
     \/ /\ canary # None /\ canary.prestate = BackupContract
        /\ outcomes' \in {outcomes, outcomes \cup {[id |-> canary.id, outcome |-> "rollback_succeeded"]}}
        /\ Ends(op, 1) /\ Fault

ConsumeRollback ==
  /\ pc = "r_consume"
  /\ UNCHANGED <<slot, backups, residue, tx, outcomes>>
  /\ \/ canary' = None /\ Ends(op, 1) /\ NoFault
     \/ canary' \in {canary, None} /\ Ends(op, 1) /\ Fault

\* The commands rollback log after the marker is gone; the exact one reports
\* a failure of the log as such.
LogRollback ==
  /\ pc = "r_log"
  /\ UNCHANGED <<slot, backups, residue, tx, can>>
  /\ \/ Ends(op, 0) /\ NoFault
     \/ Ends(op, 3) /\ Fault

RollbackStep ==
  \/ PickBackup \/ ReadSources \/ RecoverInterrupted \/ ImportNext \/ PublishImport
  \/ BeginRestore \/ ComposeDown \/ (\E i \in 1..4 : RestoreFile(i)) \/ RestoreUp
  \/ RestoreCheck \/ FinishRestore \/ FinishExact \/ WriteRollbackReceipt \/ ConsumeRollback
  \/ LogRollback

\* The command is killed; the kernel drops its locks.
Crash ==
  /\ pc # "idle" /\ Fault
  /\ IF pc \in {"up", "r_up", "down"} /\ files.compose # Absent THEN DockerLeaves
     ELSE UNCHANGED running
  /\ pc' = "idle" /\ op' = NoOp
  /\ UNCHANGED <<files, backups, legacy, residue, tx, can, reading, report>>

Next ==
  \/ ReadManifest \/ StartApply \/ ApplyRefused
  \/ \E v \in Image : StartRollout(v) \/ StartPromote(v)
  \/ StartRollback \/ (\E t \in 1..markers : StartExact(t)) \/ StartMigrate
  \/ ApplyStep \/ RollbackStep \/ Crash \/ (\E i \in DOMAIN Legacy : LegacyChanges(i))

Spec == Init /\ [][Next]_vars

\* A command that got the locks runs on, and an operator who finds a rollback
\* pending repeats `opsctl rollback' until it gets the locks.
FairSpec ==
  /\ Spec
  /\ WF_vars(ApplyStep \/ RollbackStep)
  /\ SF_vars(StartRollback /\ marker # None)

----------------------------------------------------------------------------
\* Properties.

\* What the slot is committed to: its files, or while a rollback is pending
\* the recovery point that the marker names.
Restored(s, f) ==
  [env      |-> IF s.env = Unrecorded THEN f.env ELSE s.env,
   compose  |-> s.compose, manifest |-> s.manifest, state |-> s.state]

Installed == IF marker = None THEN files ELSE Restored(backups[marker.point].files, files)

Rollout == INSTANCE SlotRollout
  WITH installed <- Installed,
       saved <- [i \in DOMAIN backups |->
                   [files |-> backups[i].files,
                    from |-> IF backups[i].source = None THEN 0 ELSE backups[i].at]],
       Importable <- [i \in DOMAIN Legacy |->
                        {Imported(Legacy[i][v]) : v \in DOMAIN Legacy[i]}]

\* Killed or failing at any write, the commands switch the four files of a
\* slot together: what is installed changes in one step to a new image or to
\* an earlier recovery point, and a recovery point is saved only of what is
\* installed (runtime_apply.py, restore_backup).  However often an import is
\* repeated or killed, whoever runs it, and whatever becomes of its source in the
\* meantime, a legacy backup is published once (_existing_legacy_imports).
ImplementsSlotRollout == Rollout!Spec

\* Without a pending rollback the containers are those of the installed files:
\* the marker is removed only after docker and the live checks have agreed.
ServesInstalled ==
  /\ TypeOK
  /\ marker = None => running = IF files.compose = Absent THEN None ELSE Started

\* A receipt is true when it is written.  A canary's: the slot is then committed
\* to the candidate, or to the prestate, that the transaction was sealed with.
\* That of an exact rollback: writes=0 only if the slot was not touched,
\* committed only if this very command removed the marker, pending only if it
\* did not (_emit_marker_recovery_receipt, _exact_recovery_post_state).
ReceiptsTruthful ==
  [][/\ \A r \in outcomes' \ outcomes :
          /\ marker = None /\ canary # None /\ canary.id = r.id
          /\ ContractImage(files) =
               IF r.outcome = "candidate_succeeded" THEN canary.candidate ELSE canary.prestate
     /\ report' # None =>
          /\ ~report'.writes => ~report'.touched
          /\ report'.state = "committed" => report'.removed
          /\ report'.state = "pending" => ~report'.removed]_vars

\* A pending rollback is completed once faults have ceased: no sequence of
\* crashes and failed commands leaves a marker that rollback cannot clear.
PendingRollbackCompletes == marker # None ~> marker = None
=============================================================================
