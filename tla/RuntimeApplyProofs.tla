------------------------- MODULE RuntimeApplyProofs -------------------------
(***************************************************************************)
(* What holds of a slot for every set of images, every list of legacy      *)
(* backups and every number of faults.                                     *)
(***************************************************************************)
EXTENDS RuntimeApply, TLAPS

HostType ==
  /\ files \in Files /\ running \in Project \cup {None}
  /\ backups \in Seq(Backup) /\ residue \in {"none", "staging", "interrupted"}
  /\ marker \in Marker \cup {None} /\ markers \in Nat
  /\ canary \in Canary \cup {None} /\ outcomes \subseteq Outcome /\ faults \in Nat

CmdType ==
  /\ legacy \in Seq(OnDisk) /\ reading \in Image \cup {None}
  /\ op \in Op /\ pc \in Pc /\ report \in Report \cup {None}

\* The containers are those of the files.
Serves == running = IF files.compose = Absent THEN None ELSE Started

\* The slot as it is outside a command, and whatever the command.
WorldInv ==
  /\ marker = None => Serves
  /\ marker # None => marker.point \in DOMAIN backups
  /\ residue = "interrupted" => backups = <<>> /\ 1 \in DOMAIN Legacy

\* Who is at which step.
KindInv ==
  /\ pc \in ApplyPc => IsApply
  /\ pc \in RestorePc => IsApply \/ op.kind \in {"rollback", "exact"}
  /\ pc \in {"r_receipt", "r_consume"} => IsApply
  /\ pc = "pick" => op.kind = "rollback"
  /\ pc \in {"sources", "import", "publish"} => op.kind \in {"rollback", "migrate"}
  /\ IsApply => op.image \in Image

\* What an exact rollback knows of itself.
ExactInv ==
  op.kind = "exact" =>
    /\ pc \in RestorePc
    /\ pc = "restore" => marker # None /\ ~op.touched
    /\ pc # "restore" => op.mutated
    /\ op.removed <=> pc = "r_log"

OwnPoint == op.point \in DOMAIN backups /\ Point \in Files
Held == marker # None /\ marker.point = op.point

ApplyInv ==
  /\ pc \in {"staged", "mark"} => marker = None
  /\ pc \in {"mark", "canary", "env"} => OwnPoint /\ Point = files
  /\ pc \in {"canary", "env", "compose", "unprepare", "up", "check", "manifest", "state",
             "finish"} => OwnPoint /\ Held
  /\ pc \in {"compose", "up", "check", "manifest", "state", "finish"} =>
       files.env = IF IsRollout THEN op.image ELSE Point.env
  /\ pc \in {"up", "check", "manifest", "state", "finish"} => files.compose = op.image
  /\ pc \in {"check", "manifest", "state", "finish"} => running = Started
  /\ pc \in {"state", "finish"} => files.manifest = op.image
  /\ pc \in {"finish", "receipt", "consume", "log"} => files.state = op.image
  /\ pc \in {"receipt", "consume", "log"} => marker = None /\ OwnPoint

RestoreInv ==
  /\ pc = "restore" => op.point \in DOMAIN backups /\ (marker = None \/ Held)
  /\ pc \in {"down", "r_env", "r_compose", "r_manifest", "r_state", "r_up", "r_check",
             "r_finish"} => op.point \in DOMAIN backups /\ Held
  /\ pc \in {"r_compose", "r_manifest", "r_state", "r_up", "r_check", "r_finish"} =>
       Point.env = Unrecorded \/ files.env = Point.env
  /\ pc \in {"r_manifest", "r_state", "r_up", "r_check", "r_finish"} =>
       files.compose = Point.compose
  /\ pc \in {"r_state", "r_up", "r_check", "r_finish", "r_receipt"} =>
       files.manifest = Point.manifest
  /\ pc \in {"r_up", "r_check", "r_finish", "r_receipt"} => files.state = Point.state
  /\ pc = "r_check" => running = Started /\ files.compose # Absent
  /\ pc = "r_finish" => Serves
  /\ pc = "r_receipt" => op.point \in DOMAIN backups
  /\ pc \in {"r_receipt", "r_consume", "r_log"} => marker = None

\* A source that was read is a version of a legacy backup.
VersionOf(i, s) ==
  \E v \in DOMAIN Legacy[i] : SourceIdentity(s) = SourceIdentity(Legacy[i][v])

ImportInv ==
  /\ DOMAIN legacy = DOMAIN Legacy
  /\ \A i \in DOMAIN legacy : VersionOf(i, legacy[i])
  /\ pc \in {"import", "publish"} =>
       /\ DOMAIN op.read \subseteq DOMAIN Legacy
       /\ \A i \in DOMAIN op.read : VersionOf(i, op.read[i])
  /\ pc = "publish" => op.point \in DOMAIN op.read /\ ImportsOf(op.point) = {}

IInv ==
  /\ HostType /\ CmdType
  /\ WorldInv /\ KindInv /\ ExactInv /\ ApplyInv /\ RestoreInv /\ ImportInv

----------------------------------------------------------------------------
(* How a step moves the command *)

LEMMA NoOpType == NoOp \in Op /\ NoOp.kind = "none"
  BY DEF NoOp, Op, Content

LEMMA ReceiptType ==
  ASSUME NEW o \in Op, NEW m \in Marker \cup {None}, NEW rc
  PROVE  ReceiptOf(o, m, rc) \in Report
<1>1. o.mutated \in BOOLEAN /\ o.touched \in BOOLEAN /\ o.removed \in BOOLEAN
  BY DEF Op
<1>2. PICK s \in {"committed", "absent", "pending", "unavailable"} :
        s = IF m = None THEN IF rc \in {0, 3} THEN "committed" ELSE "absent"
            ELSE IF m.tx = o.expected THEN "pending" ELSE "unavailable"
  OBVIOUS
<1>3. PICK r \in {"complete", "failed", "rejected"} :
        r = IF rc = 0 /\ o.mutated /\ s = "committed" THEN "complete"
            ELSE IF o.mutated THEN "failed" ELSE "rejected"
  OBVIOUS
<1>4. ReceiptOf(o, m, rc) = [writes |-> o.mutated, state |-> s, result |-> r,
                             touched |-> o.touched, removed |-> o.removed]
  BY <1>2, <1>3 DEF ReceiptOf
<1> QED BY <1>1, <1>4 DEF Report

\* The command ends, and what it leaves is in order.
LEMMA EndsKeeps ==
  ASSUME IInv, NEW o \in Op, NEW rc, Ends(o, rc), HostType', WorldInv'
  PROVE  IInv'
<1>1. CmdType'
  <2>1. report' \in Report \cup {None}
    BY ReceiptType DEF IInv, Ends, HostType, CmdType
  <2> QED BY <2>1, NoOpType DEF IInv, Ends, CmdType, Pc
<1>2. pc' = "idle" /\ op'.kind = "none" /\ legacy' = legacy
  BY NoOpType DEF Ends
<1>3. KindInv' /\ ExactInv'
  BY <1>2 DEF KindInv, ExactInv, ApplyPc, RestorePc, IsApply, IsRollout
<1>4. ApplyInv' /\ RestoreInv'
  BY <1>2 DEF ApplyInv, RestoreInv
<1>5. ImportInv'
  BY <1>2 DEF IInv, ImportInv, VersionOf
<1> QED BY <1>1, <1>3, <1>4, <1>5 DEF IInv

LEMMA GotoBecomes ==
  ASSUME NEW l, Goto(l)
  PROVE  Becomes(op, l)
  BY DEF Goto, Becomes

\* An apply goes on to another of its steps.
LEMMA ApplyGoesOn ==
  ASSUME IInv, pc \in ApplyPc, NEW l \in ApplyPc,
         NEW o \in Op, o.kind = op.kind, o.image = op.image, Becomes(o, l),
         HostType', WorldInv', ApplyInv'
  PROVE  IInv'
<1>1. pc' = l /\ op' = o /\ legacy' = legacy /\ IsApply /\ op.image \in Image
  BY DEF Becomes, IInv, KindInv
<1>2. CmdType'
  BY <1>1 DEF IInv, Becomes, CmdType, Pc
<1>3. KindInv' /\ ExactInv'
  BY <1>1 DEF KindInv, ExactInv, ApplyPc, RestorePc, IsApply, IsRollout
<1>4. RestoreInv'
  BY <1>1 DEF RestoreInv, ApplyPc
<1>5. ImportInv'
  BY <1>1 DEF IInv, ImportInv, VersionOf, ApplyPc
<1> QED BY <1>2, <1>3, <1>4, <1>5 DEF IInv

\* A restore goes on, or an apply turns to one.
LEMMA RestoreGoesOn ==
  ASSUME IInv, pc \in ApplyPc \cup RestorePc \cup {"pick"}, NEW l \in RestorePc,
         NEW o \in Op, o.kind = op.kind, o.image = op.image, Becomes(o, l),
         l \in {"r_receipt", "r_consume"} => IsApply,
         HostType', WorldInv', RestoreInv', ExactInv'
  PROVE  IInv'
<1>1. /\ pc' = l /\ op' = o /\ legacy' = legacy
      /\ IsApply \/ op.kind \in {"rollback", "exact"}
      /\ IsApply => op.image \in Image
  BY DEF Becomes, IInv, KindInv
<1>2. CmdType'
  BY <1>1 DEF IInv, Becomes, CmdType, Pc
<1>3. KindInv'
  BY <1>1 DEF KindInv, ApplyPc, RestorePc, IsApply, IsRollout
<1>4. ApplyInv'
  BY <1>1 DEF ApplyInv, RestorePc
<1>5. ImportInv'
  BY <1>1 DEF IInv, ImportInv, VersionOf, RestorePc
<1> QED BY <1>2, <1>3, <1>4, <1>5 DEF IInv

----------------------------------------------------------------------------
(* What a step leaves alone *)

LEMMA FaultType ==
  ASSUME faults \in Nat, Fault \/ NoFault
  PROVE  faults' \in Nat
  BY DEF Fault, NoFault

\* The slot, the backups and the marker stay.
LEMMA StillWorld ==
  ASSUME IInv, UNCHANGED <<slot, backups, marker>>,
         UNCHANGED residue \/ residue' \in {"none", "staging"}
  PROVE  WorldInv'
<1>1. UNCHANGED <<files, running, backups, marker>>
  BY DEF slot
<1>2. Serves' <=> Serves
  BY <1>1 DEF Serves, Started
<1> QED BY <1>1, <1>2 DEF IInv, WorldInv

\* A pending rollback lets the slot change.
LEMMA PendingWorld ==
  ASSUME IInv, marker' # None, marker'.point \in DOMAIN backups,
         UNCHANGED <<backups, residue>>
  PROVE  WorldInv'
  BY DEF IInv, WorldInv

\* One more backup.
LEMMA GrownWorld ==
  ASSUME IInv, NEW b \in Backup, backups' = Append(backups, b),
         residue' = "none", UNCHANGED <<slot, marker>>
  PROVE  /\ WorldInv' /\ backups' \in Seq(Backup)
         /\ DOMAIN backups \subseteq DOMAIN backups'
         /\ Len(backups) + 1 \in DOMAIN backups' /\ backups'[Len(backups) + 1] = b
         /\ \A i \in DOMAIN backups : backups'[i] = backups[i]
<1>1. UNCHANGED <<files, running, marker>>
  BY DEF slot
<1>2. Serves' <=> Serves
  BY <1>1 DEF Serves, Started
<1>3. backups \in Seq(Backup)
  BY DEF IInv, HostType
<1>4. /\ backups' \in Seq(Backup)
      /\ DOMAIN backups \subseteq DOMAIN backups'
      /\ Len(backups) + 1 \in DOMAIN backups' /\ backups'[Len(backups) + 1] = b
      /\ \A i \in DOMAIN backups : backups'[i] = backups[i]
  BY <1>3
<1> QED BY <1>1, <1>2, <1>4 DEF IInv, WorldInv

----------------------------------------------------------------------------
(* The steps of an apply *)

LEMMA AtApply ==
  ASSUME IInv, pc \in ApplyPc
  PROVE  /\ op \in Op /\ op.image \in Image /\ op.image \in Content /\ IsApply
         /\ op.kind # "exact" /\ op.image # Absent
  BY RuntimeAssumption DEF IInv, CmdType, KindInv, IsApply, IsRollout, Content

LEMMA PreflightKeeps ==
  ASSUME IInv, Preflight
  PROVE  IInv'
<1>1. pc = "preflight" /\ pc \in ApplyPc /\ HostType' /\ op \in Op
  BY FaultType DEF Preflight, ApplyPc, IInv, HostType, slot, tx, can, CmdType
<1>2. WorldInv'
  BY StillWorld DEF Preflight, tx
<1>3. CASE Goto("backup")
  <2>1. pc' = "backup"
    BY <1>3 DEF Goto
  <2>2. ApplyInv'
    BY <2>1 DEF ApplyInv
  <2> QED BY <1>1, <1>2, <1>3, <2>2, ApplyGoesOn, GotoBecomes DEF ApplyPc
<1>4. CASE Ends(op, 1)
  BY <1>1, <1>2, <1>4, EndsKeeps
<1> QED BY <1>3, <1>4 DEF Preflight

LEMMA StageBackupKeeps ==
  ASSUME IInv, StageBackup
  PROVE  IInv'
<1>1. pc = "backup" /\ pc \in ApplyPc /\ HostType' /\ op \in Op
  BY FaultType DEF StageBackup, ApplyPc, IInv, HostType, slot, tx, can, CmdType
<1>2. WorldInv'
  BY StillWorld DEF StageBackup, tx
<1>3. CASE Goto("staged") /\ marker = None
  <2>1. pc' = "staged" /\ marker' = None
    BY <1>3 DEF Goto, StageBackup, tx
  <2>2. ApplyInv'
    BY <2>1 DEF ApplyInv
  <2> QED BY <1>1, <1>2, <1>3, <2>2, ApplyGoesOn, GotoBecomes DEF ApplyPc
<1>4. CASE Ends(op, 1)
  BY <1>1, <1>2, <1>4, EndsKeeps
<1> QED BY <1>3, <1>4 DEF StageBackup

LEMMA PublishBackupKeeps ==
  ASSUME IInv, PublishBackup
  PROVE  IInv'
<1> DEFINE b == [files |-> files, at |-> NextStamp, source |-> None]
           o == [op EXCEPT !.point = Len(backups) + 1]
<1>1. pc = "staged" /\ pc \in ApplyPc /\ marker = None /\ marker' = marker
  BY DEF PublishBackup, ApplyPc, IInv, ApplyInv, tx
<1>2. files \in Files /\ Files \subseteq Snapshot /\ Len(backups) \in Nat
  BY DEF IInv, HostType, Files, Snapshot
<1>3. b \in Backup /\ b.files = files
  <2>1. Len(Legacy) \in Nat
    BY RuntimeAssumption
  <2> QED BY <1>2, <2>1 DEF Backup, NextStamp
<1>4. o \in Op /\ op \in Op /\ o.kind = op.kind /\ o.image = op.image
      /\ o.point = Len(backups) + 1
  BY <1>2 DEF IInv, CmdType, Op
<1> HIDE DEF b, o
<1>5. CASE backups' = Append(backups, b)
  <2>1. /\ WorldInv' /\ backups' \in Seq(Backup)
        /\ Len(backups) + 1 \in DOMAIN backups' /\ backups'[Len(backups) + 1] = b
    BY <1>3, <1>5, GrownWorld DEF PublishBackup, tx
  <2>2. HostType'
    BY <2>1, FaultType DEF PublishBackup, IInv, HostType, slot, tx, can
  <2>3. CASE Becomes(o, "mark")
    <3>1. pc' = "mark" /\ op' = o /\ files' = files
      BY <2>3 DEF Becomes, PublishBackup, slot
    <3>2. Point' = files' /\ OwnPoint'
      BY <1>2, <1>3, <1>4, <2>1, <3>1 DEF Point, OwnPoint
    <3>3. ApplyInv'
      BY <1>1, <3>1, <3>2 DEF ApplyInv
    <3> QED BY <1>1, <1>4, <2>1, <2>2, <2>3, <3>3, ApplyGoesOn DEF ApplyPc
  <2>4. CASE Ends(op, 1)
    BY <1>4, <2>1, <2>2, <2>4, EndsKeeps
  <2> QED BY <2>3, <2>4 DEF PublishBackup, b, o
<1>6. CASE backups' = backups /\ Ends(op, 1)
  <2>1. WorldInv'
    BY <1>6, StillWorld DEF PublishBackup, tx
  <2>2. HostType'
    BY <1>6, FaultType DEF PublishBackup, IInv, HostType, slot, tx, can
  <2> QED BY <1>4, <1>6, <2>1, <2>2, EndsKeeps
<1> QED BY <1>5, <1>6 DEF PublishBackup, b, o

\* What the marker is once it is written.
LEMMA MarkerOpened ==
  ASSUME IInv, MarkerWritten
  PROVE  /\ marker' # None /\ marker' \in Marker /\ marker'.point = op.point
         /\ markers' \in Nat
  BY RuntimeAssumption DEF IInv, HostType, CmdType, Op, MarkerWritten, Marker

LEMMA NotBoth ==
  ASSUME IInv, MarkerWritten
  PROVE  ~ UNCHANGED tx
<1>1. markers \in Nat /\ markers' = markers + 1
  BY DEF IInv, HostType, MarkerWritten
<1> QED BY <1>1 DEF tx

LEMMA OpenMarkerKeeps ==
  ASSUME IInv, OpenMarker
  PROVE  IInv'
<1>1. pc = "mark" /\ pc \in ApplyPc /\ marker = None /\ OwnPoint /\ Point = files /\ op \in Op
  BY DEF OpenMarker, ApplyPc, IInv, ApplyInv, CmdType
<1>2. CASE MarkerWritten
  <2>1. marker' # None /\ marker' \in Marker /\ marker'.point = op.point /\ markers' \in Nat
    BY <1>2, MarkerOpened
  <2>2. HostType'
    BY <2>1, FaultType DEF OpenMarker, IInv, HostType, slot, can
  <2>3. WorldInv'
    BY <1>1, <2>1, PendingWorld DEF OpenMarker, OwnPoint
  <2>4. ASSUME NEW l \in {"canary", "env"}, Goto(l) PROVE IInv'
    <3>1. pc' = l /\ op' = op /\ files' = files /\ backups' = backups
      BY <2>4 DEF Goto, OpenMarker, slot
    <3>2. OwnPoint' /\ Held' /\ Point' = files'
      BY <1>1, <2>1, <3>1 DEF OwnPoint, Held, Point
    <3>3. ApplyInv'
      BY <2>4, <3>1, <3>2 DEF ApplyInv
    <3> QED BY <1>1, <2>2, <2>3, <2>4, <3>3, ApplyGoesOn, GotoBecomes DEF ApplyPc
  <2>5. CASE Ends(op, 1)
    BY <1>1, <2>2, <2>3, <2>5, EndsKeeps
  <2> QED BY <2>4, <2>5 DEF OpenMarker
<1>3. CASE UNCHANGED tx /\ Ends(op, 1)
  <2>1. WorldInv'
    BY <1>3, StillWorld DEF OpenMarker, tx
  <2>2. HostType'
    BY <1>3, FaultType DEF OpenMarker, IInv, HostType, slot, tx, can
  <2> QED BY <1>1, <1>3, <2>1, <2>2, EndsKeeps
<1> QED BY <1>2, <1>3 DEF OpenMarker

LEMMA OpenCanaryKeeps ==
  ASSUME IInv, OpenCanary
  PROVE  IInv'
<1> DEFINE sealed == [id |-> marker.tx, candidate |-> op.image, prestate |-> ContractImage(Point)]
<1>1. /\ pc = "canary" /\ pc \in ApplyPc /\ Held /\ OwnPoint /\ Point = files /\ op \in Op
      /\ files \in Files /\ marker \in Marker
  BY DEF OpenCanary, ApplyPc, IInv, ApplyInv, CmdType, HostType, Held
<1>2. sealed \in Canary
  <2>1. ContractImage(Point) \in Content
    BY <1>1 DEF ContractImage, Files
  <2> QED BY <1>1, <2>1, AtApply DEF Canary, Marker
<1> HIDE DEF sealed
<1>3. HostType'
  <2>1. canary' \in {canary, sealed}
    BY DEF OpenCanary, sealed
  <2> QED BY <1>2, <2>1, FaultType DEF OpenCanary, IInv, HostType, slot, tx
<1>4. WorldInv'
  BY StillWorld DEF OpenCanary, tx
<1>5. CASE Goto("env")
  <2>1. pc' = "env" /\ op' = op /\ files' = files /\ backups' = backups /\ marker' = marker
    BY <1>5 DEF Goto, OpenCanary, slot, tx
  <2>2. OwnPoint' /\ Held' /\ Point' = files'
    BY <1>1, <2>1 DEF OwnPoint, Held, Point
  <2>3. ApplyInv'
    BY <2>1, <2>2 DEF ApplyInv
  <2> QED BY <1>1, <1>3, <1>4, <1>5, <2>3, ApplyGoesOn, GotoBecomes DEF ApplyPc
<1>6. CASE Ends(op, 1)
  BY <1>1, <1>3, <1>4, <1>6, EndsKeeps
<1> QED BY <1>5, <1>6 DEF OpenCanary

\* The slot changes under a pending rollback.
LEMMA HeldWrite ==
  ASSUME IInv, Held, op.point \in DOMAIN backups, UNCHANGED <<backups, residue, tx, can>>,
         files' \in Files, running' \in Project \cup {None}, Fault \/ NoFault
  PROVE  HostType' /\ WorldInv'
<1>1. UNCHANGED <<marker, markers, canary, outcomes>>
  BY DEF tx, can
<1>2. HostType'
  BY <1>1, FaultType DEF IInv, HostType
<1>3. WorldInv'
  BY <1>1, PendingWorld DEF Held
<1> QED BY <1>2, <1>3

\* An apply that fails turns to its own backup.
LEMMA TurnsToRestore ==
  ASSUME IInv, pc \in ApplyPc, Goto("restore"), HostType', WorldInv',
         op.point \in DOMAIN backups', marker' = None \/ marker'.point = op.point
  PROVE  IInv'
<1>1. op \in Op /\ op.kind # "exact"
  BY AtApply
<1>2. pc' = "restore" /\ op' = op /\ Becomes(op, "restore")
  BY GotoBecomes DEF Goto
<1>3. RestoreInv' /\ ExactInv'
  BY <1>1, <1>2 DEF RestoreInv, ExactInv, Held
<1> QED BY <1>1, <1>2, <1>3, RestoreGoesOn DEF RestorePc

\* What an apply holds on to from its marker to its end.
LEMMA ApplyHolds ==
  ASSUME IInv, pc \in {"env", "compose", "unprepare", "up", "check", "manifest", "state",
                       "finish"}
  PROVE  /\ pc \in ApplyPc /\ Held /\ OwnPoint /\ op.point \in DOMAIN backups
         /\ Point \in Files /\ files \in Files /\ op \in Op
         /\ op.image \in Image /\ op.image \in Content /\ op.image # Absent
<1>1. pc \in ApplyPc
  BY DEF ApplyPc
<1> QED BY <1>1, AtApply DEF IInv, ApplyInv, OwnPoint, HostType

LEMMA PrepareEnvKeeps ==
  ASSUME IInv, PrepareEnv
  PROVE  IInv'
<1>1. pc = "env" /\ Point = files /\ UNCHANGED <<running, backups, residue, tx, can>>
  BY DEF PrepareEnv, IInv, ApplyInv
<1>2. files' \in {files, RolloutEnv} /\ files' \in Files
  BY <1>1, ApplyHolds DEF PrepareEnv, RolloutEnv, Files
<1>3. HostType' /\ WorldInv'
  BY <1>1, <1>2, ApplyHolds, HeldWrite DEF PrepareEnv, IInv, HostType
<1>4. ASSUME NEW l \in {"compose", "unprepare"}, Goto(l),
             l = "compose" => files' = IF IsRollout THEN RolloutEnv ELSE files
      PROVE  IInv'
  <2>1. pc' = l /\ op' = op /\ backups' = backups /\ marker' = marker
    BY <1>1, <1>4 DEF Goto, tx
  <2>2. OwnPoint' /\ Held' /\ Point' = Point /\ IsRollout' = IsRollout
    BY <1>1, <2>1, ApplyHolds DEF OwnPoint, Held, Point, IsRollout
  <2>3. l = "compose" => files'.env = IF IsRollout THEN op.image ELSE Point.env
    BY <1>1, <1>4, ApplyHolds DEF RolloutEnv, Files
  <2>4. ApplyInv'
    BY <1>4, <2>1, <2>2, <2>3 DEF ApplyInv
  <2> QED BY <1>1, <1>3, <1>4, <2>4, ApplyHolds, ApplyGoesOn, GotoBecomes DEF ApplyPc
<1>5. CASE Ends(op, 1)
  BY <1>1, <1>3, <1>5, ApplyHolds, EndsKeeps
<1> QED BY <1>4, <1>5 DEF PrepareEnv

LEMMA WriteComposeKeeps ==
  ASSUME IInv, WriteCompose
  PROVE  IInv'
<1> DEFINE written == [files EXCEPT !.compose = op.image]
<1>1. /\ pc = "compose" /\ UNCHANGED <<running, backups, residue, tx, can>>
      /\ files.env = IF IsRollout THEN op.image ELSE Point.env
  BY DEF WriteCompose, IInv, ApplyInv
<1>2. /\ files' \in {files, written} /\ files' \in Files
      /\ written.env = files.env /\ written.compose = op.image
  BY <1>1, ApplyHolds DEF WriteCompose, Files
<1>3. HostType' /\ WorldInv'
  BY <1>1, <1>2, ApplyHolds, HeldWrite DEF WriteCompose, IInv, HostType
<1>4. ASSUME NEW l \in {"up", "unprepare"}, Goto(l), l = "up" => files' = written
      PROVE  IInv'
  <2>1. pc' = l /\ op' = op /\ backups' = backups /\ marker' = marker
    BY <1>1, <1>4 DEF Goto, tx
  <2>2. OwnPoint' /\ Held' /\ Point' = Point /\ IsRollout' = IsRollout
    BY <1>1, <2>1, ApplyHolds DEF OwnPoint, Held, Point, IsRollout
  <2> HIDE DEF written
  <2>4. ApplyInv'
    BY <1>1, <1>2, <1>4, <2>1, <2>2 DEF ApplyInv
  <2> QED BY <1>1, <1>3, <1>4, <2>4, ApplyHolds, ApplyGoesOn, GotoBecomes DEF ApplyPc
<1>5. CASE Ends(op, 1)
  BY <1>1, <1>3, <1>5, ApplyHolds, EndsKeeps
<1> QED BY <1>4, <1>5 DEF WriteCompose

LEMMA UnprepareKeeps ==
  ASSUME IInv, Unprepare
  PROVE  IInv'
<1>1. pc = "unprepare" /\ UNCHANGED <<running, backups, residue, tx, can>> /\ Ends(op, 1)
  BY DEF Unprepare
<1>2. files' \in Files
  BY <1>1, ApplyHolds DEF Unprepare, Files
<1>3. HostType' /\ WorldInv'
  BY <1>1, <1>2, ApplyHolds, HeldWrite DEF Unprepare, IInv, HostType
<1> QED BY <1>1, <1>3, ApplyHolds, EndsKeeps

\* A project that was started from files with a compose file.
LEMMA StartedType ==
  ASSUME files \in Files, files.compose # Absent
  PROVE  Started \in Project
  BY DEF Started, Project, Files, Content

LEMMA ComposeUpKeeps ==
  ASSUME IInv, ComposeUp
  PROVE  IInv'
<1>1. /\ pc = "up" /\ UNCHANGED <<files, backups, residue, tx, can>>
      /\ files.env = IF IsRollout THEN op.image ELSE Point.env
      /\ files.compose = op.image
  BY DEF ComposeUp, IInv, ApplyInv
<1>2. files' \in Files /\ running' \in Project \cup {None}
  BY <1>1, ApplyHolds, StartedType DEF ComposeUp, DockerLeaves, IInv, HostType
<1>3. HostType' /\ WorldInv'
  BY <1>1, <1>2, ApplyHolds, HeldWrite DEF ComposeUp
<1>4. CASE Goto("check") /\ running' = Started
  <2>1. pc' = "check" /\ op' = op /\ backups' = backups /\ marker' = marker /\ files' = files
    BY <1>1, <1>4 DEF Goto, tx
  <2>2. OwnPoint' /\ Held' /\ Point' = Point /\ IsRollout' = IsRollout /\ running' = Started'
    BY <1>1, <1>4, <2>1, ApplyHolds DEF OwnPoint, Held, Point, IsRollout, Started
  <2>3. ApplyInv'
    BY <1>1, <2>1, <2>2 DEF ApplyInv
  <2> QED BY <1>1, <1>3, <1>4, <2>3, ApplyHolds, ApplyGoesOn, GotoBecomes DEF ApplyPc
<1>5. CASE Goto("restore")
  BY <1>1, <1>3, <1>5, ApplyHolds, TurnsToRestore DEF Held, tx
<1> QED BY <1>4, <1>5 DEF ComposeUp

LEMMA CheckLiveKeeps ==
  ASSUME IInv, CheckLive
  PROVE  IInv'
<1>1. /\ pc = "check" /\ UNCHANGED <<files, running, backups, residue, tx, can>>
      /\ files.env = IF IsRollout THEN op.image ELSE Point.env
      /\ files.compose = op.image /\ running = Started
  BY DEF CheckLive, IInv, ApplyInv, slot
<1>2. HostType' /\ WorldInv'
  BY <1>1, ApplyHolds, HeldWrite DEF CheckLive, IInv, HostType
<1>3. CASE Goto("manifest")
  <2>1. /\ pc' = "manifest" /\ op' = op /\ backups' = backups /\ marker' = marker
        /\ files' = files /\ running' = running
    BY <1>1, <1>3 DEF Goto, tx
  <2>2. OwnPoint' /\ Held' /\ Point' = Point /\ IsRollout' = IsRollout /\ Started' = Started
    BY <1>1, <2>1, ApplyHolds DEF OwnPoint, Held, Point, IsRollout, Started
  <2>3. ApplyInv'
    BY <1>1, <2>1, <2>2 DEF ApplyInv
  <2> QED BY <1>1, <1>2, <1>3, <2>3, ApplyHolds, ApplyGoesOn, GotoBecomes DEF ApplyPc
<1>4. CASE Goto("restore")
  BY <1>1, <1>2, <1>4, ApplyHolds, TurnsToRestore DEF Held, tx
<1> QED BY <1>3, <1>4 DEF CheckLive

LEMMA WriteManifestKeeps ==
  ASSUME IInv, WriteManifest
  PROVE  IInv'
<1> DEFINE written == [files EXCEPT !.manifest = op.image]
<1>1. /\ pc = "manifest" /\ UNCHANGED <<running, backups, residue, tx, can>>
      /\ files.env = IF IsRollout THEN op.image ELSE Point.env
      /\ files.compose = op.image /\ running = Started
  BY DEF WriteManifest, IInv, ApplyInv
<1>2. /\ files' \in {files, written} /\ files' \in Files /\ written.manifest = op.image
      /\ written.env = files.env /\ written.compose = files.compose
  BY <1>1, ApplyHolds DEF WriteManifest, Files
<1>3. HostType' /\ WorldInv'
  BY <1>1, <1>2, ApplyHolds, HeldWrite DEF WriteManifest, IInv, HostType
<1> HIDE DEF written
<1>4. CASE Goto("state") /\ files' = written
  <2>1. /\ pc' = "state" /\ op' = op /\ backups' = backups /\ marker' = marker
        /\ running' = running
    BY <1>1, <1>4 DEF Goto, tx
  <2>2. OwnPoint' /\ Held' /\ Point' = Point /\ IsRollout' = IsRollout /\ Started' = Started
    BY <1>1, <1>2, <1>4, <2>1, ApplyHolds DEF OwnPoint, Held, Point, IsRollout, Started
  <2>3. ApplyInv'
    BY <1>1, <1>2, <1>4, <2>1, <2>2 DEF ApplyInv
  <2> QED BY <1>1, <1>3, <1>4, <2>3, ApplyHolds, ApplyGoesOn, GotoBecomes DEF ApplyPc
<1>5. CASE Goto("restore")
  BY <1>1, <1>3, <1>5, ApplyHolds, TurnsToRestore DEF Held, tx
<1> QED BY <1>4, <1>5 DEF WriteManifest, written

LEMMA WriteStateKeeps ==
  ASSUME IInv, WriteState
  PROVE  IInv'
<1> DEFINE written == [files EXCEPT !.state = op.image]
<1>1. /\ pc = "state" /\ UNCHANGED <<running, backups, residue, tx, can>>
      /\ files.env = IF IsRollout THEN op.image ELSE Point.env
      /\ files.compose = op.image /\ files.manifest = op.image /\ running = Started
  BY DEF WriteState, IInv, ApplyInv
<1>2. /\ files' \in {files, written} /\ files' \in Files /\ written.state = op.image
      /\ written.env = files.env /\ written.compose = files.compose
      /\ written.manifest = files.manifest
  BY <1>1, ApplyHolds DEF WriteState, Files
<1>3. HostType' /\ WorldInv'
  BY <1>1, <1>2, ApplyHolds, HeldWrite DEF WriteState, IInv, HostType
<1> HIDE DEF written
<1>4. CASE Goto("finish") /\ files' = written
  <2>1. /\ pc' = "finish" /\ op' = op /\ backups' = backups /\ marker' = marker
        /\ running' = running
    BY <1>1, <1>4 DEF Goto, tx
  <2>2. OwnPoint' /\ Held' /\ Point' = Point /\ IsRollout' = IsRollout /\ Started' = Started
    BY <1>1, <1>2, <1>4, <2>1, ApplyHolds, Zenon DEF OwnPoint, Held, Point, IsRollout, Started
  <2>3. ApplyInv'
    BY <1>1, <1>2, <1>4, <2>1, <2>2, Zenon DEF ApplyInv
  <2> QED BY <1>1, <1>3, <1>4, <2>3, ApplyHolds, ApplyGoesOn, GotoBecomes DEF ApplyPc
<1>5. CASE Goto("restore")
  BY <1>1, <1>3, <1>5, ApplyHolds, TurnsToRestore DEF Held, tx
<1> QED BY <1>4, <1>5 DEF WriteState, written

LEMMA FinishApplyKeeps ==
  ASSUME IInv, FinishApply
  PROVE  IInv'
<1>1. /\ pc = "finish" /\ UNCHANGED <<files, running, backups, residue, markers, can>>
      /\ files.compose = op.image /\ running = Started /\ files.state = op.image
      /\ marker' \in {marker, None} /\ (Fault \/ NoFault)
  BY DEF FinishApply, IInv, ApplyInv, slot
<1>2. HostType'
  BY <1>1, FaultType DEF IInv, HostType, can
<1>3. WorldInv'
  <2>1. Serves'
    BY <1>1, ApplyHolds DEF Serves, Started
  <2> QED BY <1>1, <2>1 DEF IInv, WorldInv
<1>4. ASSUME NEW l \in {"receipt", "log"}, Goto(l), marker' = None PROVE IInv'
  <2>1. pc' = l /\ op' = op /\ backups' = backups /\ files' = files
    BY <1>1, <1>4 DEF Goto
  <2>2. OwnPoint'
    BY <1>1, <2>1, ApplyHolds DEF OwnPoint, Point
  <2>3. ApplyInv'
    BY <1>1, <1>4, <2>1, <2>2 DEF ApplyInv
  <2> QED BY <1>1, <1>2, <1>3, <1>4, <2>3, ApplyHolds, ApplyGoesOn, GotoBecomes DEF ApplyPc
<1>5. CASE Goto("restore")
  BY <1>1, <1>2, <1>3, <1>5, ApplyHolds, TurnsToRestore DEF Held
<1> QED BY <1>4, <1>5 DEF FinishApply

\* After the marker is gone.
LEMMA ApplyCommitted ==
  ASSUME IInv, pc \in {"receipt", "consume", "log"},
         UNCHANGED <<slot, backups, residue, tx>>, HostType', op' = op, pc' \in {"consume", "log"}
  PROVE  ApplyInv'
<1>1. UNCHANGED <<files, backups, marker>>
  BY DEF slot, tx
<1>2. marker = None /\ OwnPoint /\ files.state = op.image
  BY DEF IInv, ApplyInv
<1>3. OwnPoint'
  BY <1>1, <1>2 DEF OwnPoint, Point
<1> QED BY <1>1, <1>2, <1>3 DEF ApplyInv

LEMMA WriteReceiptKeeps ==
  ASSUME IInv, WriteReceipt
  PROVE  IInv'
<1>1. /\ pc = "receipt" /\ pc \in ApplyPc /\ UNCHANGED <<slot, backups, residue, tx, canary>>
      /\ canary # None /\ marker = None /\ op.point \in DOMAIN backups
  BY DEF WriteReceipt, ApplyPc, IInv, ApplyInv, OwnPoint
<1>2. HostType'
  <2>1. [id |-> canary.id, outcome |-> "candidate_succeeded"] \in Outcome
    BY <1>1, Zenon DEF IInv, HostType, Canary, Outcome
  <2>2. outcomes' \subseteq Outcome
    BY <2>1 DEF WriteReceipt, IInv, HostType
  <2> QED BY <1>1, <2>2, FaultType, Zenon DEF WriteReceipt, IInv, HostType, slot, tx
<1>3. WorldInv'
  BY <1>1, StillWorld DEF tx
<1>4. CASE Goto("consume")
  <2>1. ApplyInv'
    BY <1>1, <1>2, <1>4, ApplyCommitted DEF Goto
  <2> QED BY <1>1, <1>2, <1>3, <1>4, <2>1, AtApply, ApplyGoesOn, GotoBecomes DEF ApplyPc
<1>5. CASE Goto("restore")
  BY <1>1, <1>2, <1>3, <1>5, TurnsToRestore DEF tx
<1> QED BY <1>4, <1>5 DEF WriteReceipt

LEMMA ConsumeCanaryKeeps ==
  ASSUME IInv, ConsumeCanary
  PROVE  IInv'
<1>1. /\ pc = "consume" /\ pc \in ApplyPc /\ UNCHANGED <<slot, backups, residue, tx, outcomes>>
      /\ marker = None /\ op.point \in DOMAIN backups
  BY DEF ConsumeCanary, ApplyPc, IInv, ApplyInv, OwnPoint
<1>2. HostType'
  BY <1>1, FaultType DEF ConsumeCanary, IInv, HostType, slot, tx
<1>3. WorldInv'
  BY <1>1, StillWorld DEF tx
<1>4. CASE Goto("log")
  <2>1. ApplyInv'
    BY <1>1, <1>2, <1>4, ApplyCommitted DEF Goto
  <2> QED BY <1>1, <1>2, <1>3, <1>4, <2>1, AtApply, ApplyGoesOn, GotoBecomes DEF ApplyPc
<1>5. CASE Goto("restore")
  BY <1>1, <1>2, <1>3, <1>5, TurnsToRestore DEF tx
<1> QED BY <1>4, <1>5 DEF ConsumeCanary

LEMMA AppendLogKeeps ==
  ASSUME IInv, AppendLog
  PROVE  IInv'
<1>1. /\ pc = "log" /\ pc \in ApplyPc /\ UNCHANGED <<slot, backups, residue, tx, can>>
      /\ marker = None /\ op.point \in DOMAIN backups
  BY DEF AppendLog, ApplyPc, IInv, ApplyInv, OwnPoint
<1>2. HostType'
  BY <1>1, FaultType DEF AppendLog, IInv, HostType, slot, tx, can
<1>3. WorldInv'
  BY <1>1, StillWorld DEF tx
<1>4. CASE Ends(op, 0)
  BY <1>1, <1>2, <1>3, <1>4, AtApply, EndsKeeps
<1>5. CASE Goto("restore")
  BY <1>1, <1>2, <1>3, <1>5, TurnsToRestore DEF tx
<1> QED BY <1>4, <1>5 DEF AppendLog

LEMMA ApplyStepKeeps ==
  ASSUME IInv, ApplyStep
  PROVE  IInv'
  BY PreflightKeeps, StageBackupKeeps, PublishBackupKeeps, OpenMarkerKeeps, OpenCanaryKeeps,
     PrepareEnvKeeps, WriteComposeKeeps, UnprepareKeeps, ComposeUpKeeps, CheckLiveKeeps,
     WriteManifestKeeps, WriteStateKeeps, FinishApplyKeeps, WriteReceiptKeeps,
     ConsumeCanaryKeeps, AppendLogKeeps DEF ApplyStep

----------------------------------------------------------------------------
(* The choice of a backup, and the import of the legacy ones *)

LEMMA ImportGoesOn ==
  ASSUME IInv, op.kind \in {"rollback", "migrate"},
         NEW l \in {"pick", "sources", "import", "publish"}, l = "pick" => op.kind = "rollback",
         NEW o \in Op, o.kind = op.kind, Becomes(o, l), HostType', WorldInv', ImportInv'
  PROVE  IInv'
<1>1. pc' = l /\ op' = o
  BY DEF Becomes
<1>2. CmdType'
  BY <1>1 DEF IInv, Becomes, CmdType, Pc
<1>3. KindInv' /\ ExactInv'
  BY <1>1 DEF KindInv, ExactInv, ApplyPc, RestorePc, IsApply, IsRollout
<1>4. ApplyInv' /\ RestoreInv'
  BY <1>1 DEF ApplyInv, RestoreInv
<1> QED BY <1>2, <1>3, <1>4 DEF IInv

LEMMA PickBackupKeeps ==
  ASSUME IInv, PickBackup
  PROVE  IInv'
<1>1. /\ pc = "pick" /\ op.kind = "rollback" /\ op \in Op
      /\ UNCHANGED <<slot, backups, residue, tx, can>>
  BY DEF PickBackup, IInv, KindInv, CmdType
<1>2. HostType' /\ WorldInv'
  <2>1. HostType'
    BY <1>1, FaultType DEF PickBackup, IInv, HostType, slot, tx, can
  <2> QED BY <1>1, <2>1, StillWorld DEF tx
<1>3. ASSUME NEW i \in DOMAIN backups, marker # None => marker.point = i,
             Becomes([op EXCEPT !.point = i], "restore")
      PROVE  IInv'
  <2> DEFINE o == [op EXCEPT !.point = i]
  <2>1. o \in Op /\ o.kind = op.kind /\ o.image = op.image /\ o.point = i
    <3>1. i \in Nat
      BY DEF IInv, HostType
    <3> QED BY <1>1, <3>1 DEF Op
  <2> HIDE DEF o
  <2>2. pc' = "restore" /\ op' = o /\ Becomes(o, "restore")
    BY <1>3 DEF Becomes, o
  <2>3. RestoreInv' /\ ExactInv'
    BY <1>1, <1>3, <2>1, <2>2 DEF RestoreInv, ExactInv, Held, tx
  <2> QED BY <1>1, <1>2, <2>1, <2>2, <2>3, RestoreGoesOn DEF RestorePc
<1>4. CASE Goto("sources")
  <2>1. ImportInv'
    BY <1>4 DEF IInv, ImportInv, VersionOf, Goto
  <2> QED BY <1>1, <1>2, <1>4, <2>1, ImportGoesOn, GotoBecomes
<1>5. CASE Ends(op, 1)
  BY <1>1, <1>2, <1>5, EndsKeeps
<1>6. marker # None => PendingBackup \in DOMAIN backups /\ marker.point = PendingBackup
  BY DEF IInv, WorldInv, PendingBackup
<1> QED BY <1>3, <1>4, <1>5, <1>6, Zenon DEF PickBackup

LEMMA ReadSourcesKeeps ==
  ASSUME IInv, ReadSources
  PROVE  IInv'
<1>1. /\ pc = "sources" /\ op.kind \in {"rollback", "migrate"} /\ op \in Op
      /\ UNCHANGED <<slot, backups, residue, tx, can>>
  BY DEF ReadSources, IInv, KindInv, CmdType
<1>2. HostType' /\ WorldInv'
  <2>1. HostType'
    BY <1>1, FaultType DEF ReadSources, IInv, HostType, slot, tx, can
  <2> QED BY <1>1, <2>1, StillWorld DEF tx
<1>3. CASE Becomes([op EXCEPT !.read = legacy], "import")
  <2> DEFINE o == [op EXCEPT !.read = legacy]
  <2>1. o \in Op /\ o.kind = op.kind /\ o.read = legacy
    BY <1>1, Zenon DEF IInv, CmdType, Op
  <2> HIDE DEF o
  <2>2. pc' = "import" /\ op' = o /\ legacy' = legacy /\ Becomes(o, "import")
    BY <1>3, Zenon DEF Becomes, o
  <2>3. ImportInv'
    BY <2>1, <2>2 DEF IInv, ImportInv, VersionOf
  <2> QED BY <1>1, <1>2, <2>1, <2>2, <2>3, ImportGoesOn
<1>4. CASE Ends(op, 1)
  BY <1>1, <1>2, <1>4, EndsKeeps
<1> QED BY <1>3, <1>4 DEF ReadSources

\* What a source becomes is a backup.
LEMMA FromSourceType ==
  ASSUME NEW i \in Nat, NEW s, s.files \in Files, s.layout \in {"v0", "v1", "v2"}
  PROVE  /\ FromSource(i, s) \in Backup /\ FromSource(i, s).source # None
         /\ FromSource(i, s).at = i /\ FromSource(i, s).files = Imported(s)
<1>1. Imported(s) \in Snapshot
  BY Zenon DEF Imported, Snapshot, Files, Content
<1>2. SourceIdentity(s) \in Source
  BY DEF SourceIdentity, Source
<1>3. SourceIdentity(s) # None
  BY <1>2, RuntimeAssumption
<1> QED BY <1>1, <1>2, <1>3 DEF FromSource, Backup

LEMMA FirstVersion ==
  ASSUME NEW i \in DOMAIN Legacy
  PROVE  /\ i \in Nat /\ 1 \in DOMAIN Legacy[i]
         /\ \A v \in DOMAIN Legacy[i] :
              Legacy[i][v].files \in Files /\ Legacy[i][v].layout \in {"v0", "v1", "v2"}
<1>1. i \in Nat /\ Legacy[i] \in Seq(Source) /\ Legacy[i] # <<>>
  BY RuntimeAssumption
<1>2. \A v \in DOMAIN Legacy[i] : Legacy[i][v] \in Source
  BY <1>1
<1> QED BY <1>1, <1>2 DEF Source

LEMMA RecoverInterruptedKeeps ==
  ASSUME IInv, RecoverInterrupted
  PROVE  IInv'
<1> DEFINE b == FromSource(1, Legacy[1][1])
<1>1. /\ pc = "import" /\ op.kind \in {"rollback", "migrate"} /\ op \in Op
      /\ UNCHANGED <<slot, tx, can>> /\ residue' = "none" /\ residue = "interrupted"
      /\ backups' = Append(backups, b)
  BY DEF RecoverInterrupted, IInv, KindInv, CmdType
<1>2. b \in Backup
  <2>1. 1 \in DOMAIN Legacy
    BY <1>1 DEF IInv, WorldInv
  <2> QED BY <2>1, FirstVersion, FromSourceType
<1> HIDE DEF b
<1>3. WorldInv' /\ backups' \in Seq(Backup)
  BY <1>1, <1>2, GrownWorld DEF tx
<1>4. HostType'
  BY <1>1, <1>3, FaultType DEF RecoverInterrupted, IInv, HostType, slot, tx, can
<1>5. Goto("import")
  BY Zenon DEF RecoverInterrupted
<1>6. ImportInv'
  BY <1>1, <1>5 DEF IInv, ImportInv, VersionOf, Goto
<1> QED BY <1>1, <1>3, <1>4, <1>5, <1>6, ImportGoesOn, GotoBecomes

LEMMA NothingRead ==
  ASSUME NEW o \in Op
  PROVE  [o EXCEPT !.read = <<>>] \in Op /\ [o EXCEPT !.read = <<>>].kind = o.kind
<1>1. <<>> \in Seq(OnDisk)
  OBVIOUS
<1> QED BY <1>1, Zenon DEF Op

LEMMA ImportNextKeeps ==
  ASSUME IInv, ImportNext
  PROVE  IInv'
<1>1. /\ pc = "import" /\ op.kind \in {"rollback", "migrate"} /\ op \in Op
      /\ UNCHANGED <<slot, backups, tx, can>> /\ residue' \in {residue, "staging"}
  BY Zenon DEF ImportNext, IInv, KindInv, CmdType
<1>2. HostType' /\ WorldInv'
  <2>1. HostType'
    BY <1>1, FaultType DEF ImportNext, IInv, HostType, slot, tx, can
  <2> QED BY <1>1, <2>1, StillWorld DEF tx
<1>3. ASSUME NEW k \in NotImported, Becomes([op EXCEPT !.point = k], "publish")
      PROVE  IInv'
  <2> DEFINE o == [op EXCEPT !.point = k]
  <2>1. k \in DOMAIN op.read /\ k \in Nat /\ ImportsOf(k) = {}
    BY <1>1 DEF NotImported, Op
  <2>2. o \in Op /\ o.kind = op.kind /\ o.read = op.read /\ o.point = k
    BY <1>1, <2>1 DEF Op
  <2> HIDE DEF o
  <2>3. pc' = "publish" /\ op' = o /\ legacy' = legacy /\ Becomes(o, "publish")
    BY <1>3, Zenon DEF Becomes, o
  <2>4. ImportsOf(op.point)' = {}
    BY <1>1, <2>1, <2>2, <2>3 DEF ImportsOf
  <2>5. ImportInv'
    <3>1. /\ (DOMAIN legacy = DOMAIN Legacy)'
          /\ (\A i \in DOMAIN legacy : VersionOf(i, legacy[i]))'
      BY <2>3, Zenon DEF IInv, ImportInv, VersionOf
    <3>2. /\ (DOMAIN op.read \subseteq DOMAIN Legacy)'
          /\ (\A i \in DOMAIN op.read : VersionOf(i, op.read[i]))'
      BY <1>1, <2>2, <2>3 DEF IInv, ImportInv, VersionOf
    <3>3. (op.point \in DOMAIN op.read)'
      BY <2>1, <2>2, <2>3
    <3> QED BY <2>4, <3>1, <3>2, <3>3, Zenon DEF ImportInv
  <2> QED BY <1>1, <1>2, <2>2, <2>3, <2>5, ImportGoesOn
<1>4. CASE op.kind = "rollback" /\ Becomes([op EXCEPT !.read = <<>>], "pick")
  <2> DEFINE o == [op EXCEPT !.read = <<>>]
  <2>1. o \in Op /\ o.kind = op.kind
    BY <1>1, NothingRead
  <2> HIDE DEF o
  <2>2. pc' = "pick" /\ legacy' = legacy /\ Becomes(o, "pick")
    BY <1>4, Zenon DEF Becomes, o
  <2>3. ImportInv'
    BY <2>2 DEF IInv, ImportInv, VersionOf
  <2> QED BY <1>2, <1>4, <2>1, <2>2, <2>3, ImportGoesOn
<1>5. ASSUME NEW rc, Ends(op, rc) PROVE IInv'
  BY <1>1, <1>2, <1>5, EndsKeeps
<1> QED BY <1>3, <1>4, <1>5, Zenon DEF ImportNext

LEMMA PublishImportKeeps ==
  ASSUME IInv, PublishImport
  PROVE  IInv'
<1> DEFINE b == FromSource(op.point, op.read[op.point])
<1>1. /\ pc = "publish" /\ op.kind \in {"rollback", "migrate"} /\ op \in Op
      /\ UNCHANGED <<slot, tx, can>> /\ residue' = "none" /\ op.point \in DOMAIN op.read
  BY DEF PublishImport, IInv, KindInv, CmdType, ImportInv
<1>2. b \in Backup
  <2>1. op.point \in Nat /\ op.read[op.point] \in OnDisk
    BY <1>1 DEF Op
  <2> QED BY <2>1, FromSourceType DEF OnDisk
<1> HIDE DEF b
<1>3. CASE backups' = Append(backups, b) /\ Goto("import")
  <2>1. WorldInv' /\ backups' \in Seq(Backup)
    BY <1>1, <1>2, <1>3, GrownWorld DEF tx
  <2>2. HostType'
    BY <1>1, <2>1, FaultType, Zenon DEF PublishImport, IInv, HostType, slot, tx, can
  <2>3. ImportInv'
    BY <1>1, <1>3 DEF IInv, ImportInv, VersionOf, Goto
  <2> QED BY <1>1, <1>3, <2>1, <2>2, <2>3, ImportGoesOn, GotoBecomes
<1>4. CASE backups' = backups /\ Ends(op, 1)
  <2>1. HostType'
    BY <1>1, <1>4, FaultType DEF PublishImport, IInv, HostType, slot, tx, can
  <2>2. WorldInv'
    BY <1>1, <1>4, StillWorld DEF tx
  <2> QED BY <1>1, <1>4, <2>1, <2>2, EndsKeeps, Zenon
<1> QED BY <1>3, <1>4, Zenon DEF PublishImport, b

----------------------------------------------------------------------------
(* The steps of a restore *)

\* What a restore holds on to while its marker is there.
LEMMA RestoreHolds ==
  ASSUME IInv, pc \in {"down", "r_env", "r_compose", "r_manifest", "r_state", "r_up",
                       "r_check", "r_finish"}
  PROVE  /\ pc \in RestorePc /\ Held /\ op.point \in DOMAIN backups
         /\ Point \in Snapshot /\ files \in Files /\ op \in Op
         /\ op.kind = "exact" => op.mutated /\ ~op.removed
<1>1. pc \in RestorePc /\ Held /\ op.point \in DOMAIN backups
  BY DEF RestorePc, IInv, RestoreInv
<1>2. backups[op.point] \in Backup
  BY <1>1 DEF IInv, HostType
<1>3. op.kind = "exact" => op.mutated /\ ~op.removed
  BY DEF IInv, ExactInv
<1> QED BY <1>1, <1>2, <1>3, Zenon DEF Point, Backup, IInv, HostType, CmdType

LEMMA BeginRestoreKeeps ==
  ASSUME IInv, BeginRestore
  PROVE  IInv'
<1>1. /\ pc = "restore" /\ pc \in RestorePc /\ op \in Op /\ op.point \in DOMAIN backups
      /\ UNCHANGED <<slot, backups, residue, can>> /\ (Fault \/ NoFault)
  BY DEF BeginRestore, RestorePc, IInv, CmdType, RestoreInv
<1>2. UNCHANGED <<files, running, backups, residue, canary, outcomes>>
  BY <1>1 DEF slot, can
<1>3. CASE MarkerWritten
  <2>1. marker' # None /\ marker' \in Marker /\ marker'.point = op.point /\ markers' \in Nat
    BY <1>3, MarkerOpened
  <2>2. HostType'
    BY <1>1, <1>2, <2>1, FaultType DEF IInv, HostType
  <2>3. WorldInv'
    BY <1>1, <2>1, PendingWorld
  <2>4. ASSUME NEW l \in {"down", "r_env"}, Goto(l), op.kind # "exact" PROVE IInv'
    <3>1. pc' = l /\ op' = op /\ Becomes(op, l)
      BY <2>4, GotoBecomes DEF Goto
    <3>2. RestoreInv' /\ ExactInv'
      BY <1>1, <1>2, <2>1, <2>4, <3>1 DEF RestoreInv, ExactInv, Held
    <3> QED BY <1>1, <2>2, <2>3, <2>4, <3>1, <3>2, RestoreGoesOn DEF RestorePc
  <2>5. CASE Ends(op, 1)
    BY <1>1, <2>2, <2>3, <2>5, EndsKeeps
  <2> QED BY <1>3, <2>4, <2>5, NotBoth DEF BeginRestore
<1>4. CASE UNCHANGED tx
  <2>1. HostType'
    BY <1>1, <1>2, <1>4, FaultType DEF IInv, HostType, tx
  <2>2. WorldInv'
    BY <1>1, <1>4, StillWorld DEF tx
  <2>3. ASSUME NEW l \in {"down", "r_env"}, marker # None, marker.point = op.point,
               Becomes([op EXCEPT !.mutated = op.kind = "exact"], l)
        PROVE  IInv'
    <3> DEFINE o == [op EXCEPT !.mutated = op.kind = "exact"]
    <3>1. /\ o \in Op /\ o.kind = op.kind /\ o.image = op.image /\ o.point = op.point
          /\ (op.kind = "exact" => o.mutated) /\ o.removed = op.removed
      BY <1>1, Zenon DEF Op
    <3> HIDE DEF o
    <3>2. pc' = l /\ op' = o /\ Becomes(o, l) /\ marker' = marker
      BY <1>4, <2>3 DEF Becomes, o, tx
    <3>3. op.kind = "exact" => ~op.removed
      BY <1>1 DEF IInv, ExactInv
    <3>4. RestoreInv'
      BY <1>1, <1>2, <2>3, <3>1, <3>2 DEF RestoreInv, Held
    <3>5. ExactInv'
      BY <2>3, <3>1, <3>2, <3>3 DEF ExactInv, RestorePc
    <3> QED BY <1>1, <2>1, <2>2, <2>3, <3>1, <3>2, <3>4, <3>5, RestoreGoesOn DEF RestorePc
  <2>4. CASE Ends(op, 1)
    BY <1>1, <2>1, <2>2, <2>4, EndsKeeps
  <2> QED BY <1>4, <2>3, <2>4, NotBoth, Zenon DEF BeginRestore
<1> QED BY <1>3, <1>4 DEF BeginRestore

LEMMA TouchedOp ==
  ASSUME op \in Op
  PROVE  /\ Touched \in Op /\ Touched.kind = op.kind /\ Touched.image = op.image
         /\ Touched.point = op.point /\ Touched.mutated = op.mutated
         /\ Touched.removed = op.removed
  BY Zenon DEF Touched, Op

\* A restore goes on to its next step with its marker in place.
LEMMA RestoreMoves ==
  ASSUME IInv, pc \in {"down", "r_env", "r_compose", "r_manifest", "r_state", "r_up", "r_check"},
         NEW l \in {"r_env", "r_compose", "r_manifest", "r_state", "r_up", "r_check", "r_finish"},
         NEW o \in {op, Touched}, Becomes(o, l), HostType', WorldInv', RestoreInv'
  PROVE  IInv'
<1>1. /\ op \in Op /\ pc \in RestorePc /\ l \in RestorePc
      /\ op.kind = "exact" => op.mutated /\ ~op.removed
  BY RestoreHolds DEF RestorePc
<1>2. /\ o \in Op /\ o.kind = op.kind /\ o.image = op.image
      /\ o.mutated = op.mutated /\ o.removed = op.removed
  BY <1>1, TouchedOp
<1>3. ExactInv'
  BY <1>1, <1>2 DEF ExactInv, Becomes
<1> QED BY <1>1, <1>2, <1>3, RestoreGoesOn

LEMMA ComposeDownKeeps ==
  ASSUME IInv, ComposeDown
  PROVE  IInv'
<1>1. pc = "down" /\ UNCHANGED <<files, backups, residue, tx, can>>
  BY DEF ComposeDown
<1>2. HostType' /\ WorldInv'
  <2>1. running' \in Project \cup {None} /\ files' \in Files /\ (Fault \/ NoFault)
    BY DEF ComposeDown, IInv, HostType
  <2> QED BY <1>1, <2>1, RestoreHolds, HeldWrite
<1>3. CASE Becomes(Touched, "r_env")
  <2>1. RestoreInv'
    BY <1>1, <1>3, RestoreHolds, TouchedOp DEF RestoreInv, Held, Becomes, tx
  <2> QED BY <1>1, <1>2, <1>3, <2>1, RestoreMoves
<1>4. CASE Ends(Touched, 1)
  BY <1>1, <1>2, <1>4, RestoreHolds, TouchedOp, EndsKeeps
<1> QED BY <1>3, <1>4 DEF ComposeDown

LEMMA RestoreFileKeeps ==
  ASSUME IInv, NEW i \in 1..4, RestoreFile(i)
  PROVE  IInv'
<1> DEFINE f == RestoreOrder[i]
           restored == IF f = "env" /\ ~EnvRecorded THEN files ELSE RestoredFile(f)
<1>1. \/ i = 1 /\ f = "env" /\ RestoreLabel[i] = "r_env" /\ RestoreLabel[i + 1] = "r_compose"
      \/ i = 2 /\ f = "compose" /\ RestoreLabel[i] = "r_compose"
           /\ RestoreLabel[i + 1] = "r_manifest"
      \/ i = 3 /\ f = "manifest" /\ RestoreLabel[i] = "r_manifest"
           /\ RestoreLabel[i + 1] = "r_state"
      \/ i = 4 /\ f = "state" /\ RestoreLabel[i] = "r_state" /\ RestoreLabel[i + 1] = "r_up"
  BY DEF RestoreOrder, RestoreLabel
<1>2. /\ pc = RestoreLabel[i] /\ UNCHANGED <<running, backups, residue, tx, can>>
      /\ files' \in {files, restored} /\ (Fault \/ NoFault)
  BY DEF RestoreFile
<1>3. pc \in {"r_env", "r_compose", "r_manifest", "r_state"}
  BY <1>1, <1>2
<1>4. Held /\ op.point \in DOMAIN backups /\ Point \in Snapshot /\ files \in Files /\ op \in Op
  BY <1>3, RestoreHolds
<1>5. restored \in Files /\ DOMAIN restored = {"env", "compose", "manifest", "state"}
  BY <1>1, <1>4, Zenon DEF RestoredFile, EnvRecorded, Files, Snapshot
<1>6. /\ Point.env = Unrecorded \/ restored.env = IF f = "env" THEN Point.env ELSE files.env
      /\ restored.compose = IF f = "compose" THEN Point.compose ELSE files.compose
      /\ restored.manifest = IF f = "manifest" THEN Point.manifest ELSE files.manifest
      /\ restored.state = IF f = "state" THEN Point.state ELSE files.state
  BY <1>1, <1>4 DEF RestoredFile, EnvRecorded, Files
<1> HIDE DEF restored, f
<1>7. HostType' /\ WorldInv'
  <2>1. running' \in Project \cup {None} /\ files' \in Files
    BY <1>2, <1>4, <1>5 DEF IInv, HostType
  <2> QED BY <1>2, <1>4, <2>1, HeldWrite, Zenon
<1>8. ASSUME files' = restored, Becomes(Touched, RestoreLabel[i + 1])
      PROVE  IInv'
  <2>1. /\ pc' = RestoreLabel[i + 1] /\ op' = Touched /\ op'.point = op.point
        /\ backups' = backups /\ marker' = marker
    BY <1>2, <1>4, <1>8, TouchedOp, Zenon DEF Becomes, tx
  <2>2. Point' = Point /\ Held'
    BY <1>4, <2>1 DEF Point, Held
  <2>3. RestoreInv'
    BY <1>1, <1>2, <1>4, <1>6, <1>8, <2>1, <2>2, Zenon DEF IInv, RestoreInv
  <2> QED BY <1>1, <1>3, <1>7, <1>8, <2>3, RestoreMoves, Zenon
<1>9. CASE Ends(Touched, 1)
  BY <1>4, <1>7, <1>9, TouchedOp, EndsKeeps, Zenon
<1> QED BY <1>8, <1>9 DEF RestoreFile, restored, f

LEMMA RestoreUpKeeps ==
  ASSUME IInv, RestoreUp
  PROVE  IInv'
<1>1. /\ pc = "r_up" /\ UNCHANGED <<files, backups, residue, tx, can>>
      /\ (Fault \/ NoFault)
  BY Zenon DEF RestoreUp
<1>2. Held /\ op.point \in DOMAIN backups /\ files \in Files /\ op \in Op
  BY <1>1, RestoreHolds
<1>3. HostType' /\ WorldInv'
  <2>1. running' \in Project \cup {None}
    BY <1>2, StartedType DEF RestoreUp, DockerLeaves, IInv, HostType
  <2> QED BY <1>1, <1>2, <2>1, HeldWrite
<1>4. ASSUME NEW o \in {op, Touched}, NEW l \in {"r_check", "r_finish"}, Becomes(o, l),
             l = "r_check" => files.compose # Absent /\ running' = Started,
             l = "r_finish" => files.compose = Absent /\ running' = None
      PROVE  IInv'
  <2>1. /\ pc' = l /\ op' = o /\ op'.point = op.point
        /\ backups' = backups /\ marker' = marker /\ files' = files
    BY <1>1, <1>2, <1>4, TouchedOp DEF Becomes, tx
  <2>2. Point' = Point /\ Held' /\ Started' = Started /\ (l = "r_finish" => Serves')
    BY <1>2, <1>4, <2>1, Zenon DEF Point, Held, Started, Serves
  <2>3. RestoreInv'
    BY <1>1, <1>2, <1>4, <2>1, <2>2 DEF IInv, RestoreInv
  <2> QED BY <1>1, <1>3, <1>4, <2>3, RestoreMoves
<1>5. ASSUME NEW o \in {op, Touched}, Ends(o, 1) PROVE IInv'
  BY <1>2, <1>3, <1>5, TouchedOp, EndsKeeps
<1>6. \/ files.compose = Absent /\ running' = None /\ Goto("r_finish")
      \/ files.compose # Absent /\ running' = Started /\ Becomes(Touched, "r_check")
      \/ Ends(op, 1) \/ Ends(Touched, 1)
  BY Zenon DEF RestoreUp
<1>7. CASE files.compose = Absent /\ running' = None /\ Goto("r_finish")
  BY <1>4, <1>7, GotoBecomes
<1>8. CASE files.compose # Absent /\ running' = Started /\ Becomes(Touched, "r_check")
  BY <1>4, <1>8
<1> QED BY <1>5, <1>6, <1>7, <1>8, Zenon

LEMMA RestoreCheckKeeps ==
  ASSUME IInv, RestoreCheck
  PROVE  IInv'
<1>1. /\ pc = "r_check" /\ UNCHANGED <<files, running, backups, residue, tx, can>>
      /\ (Fault \/ NoFault)
  BY DEF RestoreCheck, slot
<1>2. Held /\ op.point \in DOMAIN backups /\ files \in Files /\ op \in Op
  BY <1>1, RestoreHolds
<1>3. HostType' /\ WorldInv'
  <2>1. running' \in Project \cup {None}
    BY <1>1 DEF IInv, HostType
  <2> QED BY <1>1, <1>2, <2>1, HeldWrite
<1>4. CASE Goto("r_finish")
  <2>1. /\ pc' = "r_finish" /\ op' = op /\ Becomes(op, "r_finish")
        /\ backups' = backups /\ marker' = marker /\ files' = files /\ running' = running
    BY <1>1, <1>4, GotoBecomes, Zenon DEF Goto, tx
  <2>2. Point' = Point /\ Held' /\ Started' = Started
    BY <1>2, <2>1, Zenon DEF Point, Held, Started
  <2>3. Serves'
    BY <1>1, <2>1, <2>2, Zenon DEF IInv, RestoreInv, Serves
  <2>4. RestoreInv'
    BY <1>1, <1>2, <2>1, <2>2, <2>3, Zenon DEF IInv, RestoreInv
  <2> QED BY <1>1, <1>3, <2>1, <2>4, RestoreMoves
<1>5. CASE Ends(op, 1)
  BY <1>2, <1>3, <1>5, EndsKeeps
<1> QED BY <1>4, <1>5 DEF RestoreCheck

LEMMA RemovingOp ==
  ASSUME op \in Op
  PROVE  /\ Removing \in Op /\ Removing.kind = op.kind /\ Removing.image = op.image
         /\ Removing.point = op.point /\ Removing.mutated = op.mutated /\ Removing.removed
  BY Zenon DEF Removing, Op

\* The marker goes once the slot is restored and serves.
LEMMA FinishKeeps ==
  ASSUME IInv, FinishRestore \/ FinishExact
  PROVE  IInv'
<1>1. /\ pc = "r_finish" /\ UNCHANGED <<files, running, backups, residue, markers, can>>
      /\ marker' \in {marker, None} /\ (Fault \/ NoFault)
  BY Zenon DEF FinishRestore, FinishExact, slot
<1>2. /\ Held /\ op.point \in DOMAIN backups /\ op \in Op /\ pc \in RestorePc /\ Serves
      /\ op.kind = "exact" => op.mutated
  BY <1>1, RestoreHolds DEF IInv, RestoreInv
<1>3. HostType'
  BY <1>1, FaultType DEF IInv, HostType, can
<1>4. WorldInv'
  <2>1. Serves'
    BY <1>1, <1>2 DEF Serves, Started
  <2> QED BY <1>1, <2>1 DEF IInv, WorldInv
<1>5. ASSUME marker' = None, NEW l \in {"r_receipt", "r_log"}, Becomes(Removing, l),
             l = "r_receipt" => IsApply
      PROVE  IInv'
  <2>1. /\ pc' = l /\ op' = Removing /\ op'.point = op.point
        /\ backups' = backups /\ files' = files
    BY <1>1, <1>2, <1>5, RemovingOp DEF Becomes
  <2>2. Point' = Point
    BY <2>1, Zenon DEF Point
  <2>3. RestoreInv'
    BY <1>1, <1>2, <1>5, <2>1, <2>2, Zenon DEF IInv, RestoreInv
  <2>4. ExactInv'
    BY <1>2, <1>5, <2>1, RemovingOp DEF ExactInv, RestorePc, IsApply, IsRollout
  <2> QED BY <1>2, <1>3, <1>4, <1>5, <2>3, <2>4, RemovingOp, RestoreGoesOn DEF RestorePc
<1>6. ASSUME NEW o \in {op, Removing}, Ends(o, 1) PROVE IInv'
  BY <1>2, <1>3, <1>4, <1>6, RemovingOp, EndsKeeps
<1> QED BY <1>5, <1>6 DEF FinishRestore, FinishExact

LEMMA WriteRollbackReceiptKeeps ==
  ASSUME IInv, WriteRollbackReceipt
  PROVE  IInv'
<1>1. /\ pc = "r_receipt" /\ UNCHANGED <<slot, backups, residue, tx, canary>> /\ op \in Op
      /\ IsApply /\ marker = None /\ marker' = None
  BY DEF WriteRollbackReceipt, IInv, CmdType, KindInv, RestoreInv, tx
<1>2. HostType'
  <2>1. canary # None => [id |-> canary.id, outcome |-> "rollback_succeeded"] \in Outcome
    BY <1>1 DEF IInv, HostType, Canary, Outcome
  <2>2. outcomes' \subseteq Outcome
    BY <2>1 DEF WriteRollbackReceipt, IInv, HostType
  <2> QED BY <1>1, <2>2, FaultType DEF WriteRollbackReceipt, IInv, HostType, slot, tx
<1>3. WorldInv'
  BY <1>1, StillWorld
<1>4. CASE Goto("r_consume")
  <2>1. pc' = "r_consume" /\ op' = op /\ Becomes(op, "r_consume")
    BY <1>4, GotoBecomes DEF Goto
  <2>2. RestoreInv' /\ ExactInv'
    BY <1>1, <2>1 DEF RestoreInv, ExactInv, IsApply, IsRollout
  <2> QED BY <1>1, <1>2, <1>3, <2>1, <2>2, RestoreGoesOn DEF RestorePc
<1>5. CASE Ends(op, 1)
  BY <1>1, <1>2, <1>3, <1>5, EndsKeeps
<1> QED BY <1>4, <1>5, Zenon DEF WriteRollbackReceipt

LEMMA LastStepsKeep ==
  ASSUME IInv, ConsumeRollback \/ LogRollback
  PROVE  IInv'
<1>1. /\ UNCHANGED <<slot, backups, residue, tx, outcomes>> /\ op \in Op
      /\ canary' \in {canary, None} /\ (Fault \/ NoFault)
  BY DEF ConsumeRollback, LogRollback, IInv, CmdType, can
<1>2. HostType'
  BY <1>1, FaultType DEF IInv, HostType, slot, tx
<1>3. WorldInv'
  BY <1>1, StillWorld DEF tx
<1>4. PICK rc : Ends(op, rc)
  BY DEF ConsumeRollback, LogRollback
<1> QED BY <1>1, <1>2, <1>3, <1>4, EndsKeeps

LEMMA RollbackStepKeeps ==
  ASSUME IInv, RollbackStep
  PROVE  IInv'
  BY PickBackupKeeps, ReadSourcesKeeps, RecoverInterruptedKeeps, ImportNextKeeps,
     PublishImportKeeps, BeginRestoreKeeps, ComposeDownKeeps, RestoreFileKeeps, RestoreUpKeeps,
     RestoreCheckKeeps, FinishKeeps, WriteRollbackReceiptKeeps, LastStepsKeep, Zenon
     DEF RollbackStep

----------------------------------------------------------------------------
(* The commands, a kill and a change of a legacy backup *)

\* A command begins: it has nothing but its kind, its image or its backup.
LEMMA BeginsOK ==
  ASSUME IInv, NEW o \in Op, NEW l \in {"preflight", "pick", "restore", "sources"},
         pc' = l, op' = o, UNCHANGED <<slot, backups, residue, tx, can, faults, legacy>>,
         report' = None, reading' \in {reading, None},
         l = "preflight" => o.kind \in {"apply", "canary", "promote"} /\ o.image \in Image,
         l = "pick" => o.kind = "rollback", l = "sources" => o.kind = "migrate",
         l = "restore" => o.kind = "exact" /\ ~o.touched /\ ~o.removed
                          /\ marker # None /\ marker.point = o.point
  PROVE  IInv'
<1>1. UNCHANGED <<files, running, marker, markers, canary, outcomes>>
  BY DEF slot, tx, can
<1>2. HostType' /\ WorldInv'
  <2>1. HostType'
    BY <1>1 DEF IInv, HostType
  <2> QED BY <1>1, <2>1, StillWorld, Zenon
<1>3. CmdType'
  BY DEF IInv, CmdType, Pc, ApplyPc, RestorePc
<1>4. KindInv'
  BY DEF KindInv, IsApply, IsRollout, ApplyPc, RestorePc
<1>5. ExactInv'
  BY <1>1, Zenon DEF ExactInv, RestorePc
<1>6. ApplyInv'
  BY Zenon DEF ApplyInv
<1>7. RestoreInv'
  BY <1>1 DEF RestoreInv, Held, IInv, WorldInv
<1>8. ImportInv'
  BY Zenon DEF IInv, ImportInv, VersionOf
<1> QED BY <1>2, <1>3, <1>4, <1>5, <1>6, <1>7, <1>8, Zenon DEF IInv

LEMMA ReadingKeeps ==
  ASSUME IInv, ReadManifest \/ ApplyRefused
  PROVE  IInv'
<1>1. /\ UNCHANGED <<slot, backups, residue, tx, can, faults, legacy, op, pc, report>>
      /\ reading' \in {files.state, None} /\ (reading' # None => files.state # Absent)
  BY DEF ReadManifest, ApplyRefused
<1>2. UNCHANGED <<files, running, marker, markers, canary, outcomes>>
  BY <1>1 DEF slot, tx, can
<1>3. HostType' /\ WorldInv'
  <2>1. HostType'
    BY <1>1, <1>2 DEF IInv, HostType
  <2> QED BY <1>1, <1>2, <2>1, StillWorld
<1>4. CmdType'
  <2>1. reading' \in Image \cup {None}
    BY <1>1 DEF IInv, HostType, Files, Content
  <2> QED BY <1>1, <2>1 DEF IInv, CmdType
<1>5. KindInv' /\ ExactInv'
  BY <1>1, <1>2 DEF IInv, KindInv, ExactInv, IsApply, IsRollout
<1>6. ApplyInv'
  BY <1>1, <1>2, Zenon DEF IInv, ApplyInv, OwnPoint, Held, Point, IsRollout, Started
<1>7. RestoreInv'
  BY <1>1, <1>2, Zenon DEF IInv, RestoreInv, Held, Point, Started, Serves
<1>8. ImportInv'
  BY <1>1, <1>2, Zenon DEF IInv, ImportInv, VersionOf, ImportsOf
<1> QED BY <1>3, <1>4, <1>5, <1>6, <1>7, <1>8 DEF IInv

LEMMA ApplyBegins ==
  ASSUME IInv, \/ StartApply
               \/ \E v \in Image : StartRollout(v) \/ StartPromote(v)
  PROVE  IInv'
<1>1. ASSUME NEW k \in {"apply", "canary", "promote"}, NEW v \in Image
      PROVE  /\ [NoOp EXCEPT !.kind = k, !.image = v] \in Op
             /\ [NoOp EXCEPT !.kind = k, !.image = v].kind = k
             /\ [NoOp EXCEPT !.kind = k, !.image = v].image = v
  BY NoOpType, Zenon DEF Op, Content
<1>2. CASE StartApply
  <2> DEFINE o == [NoOp EXCEPT !.kind = "apply", !.image = reading]
  <2>1. reading \in Image
    BY <1>2 DEF StartApply, IInv, CmdType
  <2>2. o \in Op /\ o.kind = "apply" /\ o.image \in Image
    BY <1>1, <2>1, Zenon
  <2>3. /\ pc' = "preflight" /\ op' = o /\ report' = None /\ reading' = None
        /\ UNCHANGED <<slot, backups, residue, tx, can, faults, legacy>>
    BY <1>2 DEF StartApply
  <2> HIDE DEF o
  <2> QED BY <2>2, <2>3, BeginsOK, Zenon
<1>3. ASSUME NEW k \in {"canary", "promote"}, NEW v \in Image,
             Start([NoOp EXCEPT !.kind = k, !.image = v], "preflight")
      PROVE  IInv'
  <2> DEFINE o == [NoOp EXCEPT !.kind = k, !.image = v]
  <2>1. o \in Op /\ o.kind = k /\ o.image = v
    BY <1>1, Zenon
  <2>2. /\ pc' = "preflight" /\ op' = o /\ report' = None /\ reading' = reading
        /\ UNCHANGED <<slot, backups, residue, tx, can, faults, legacy>>
    BY <1>3 DEF Start
  <2> HIDE DEF o
  <2> QED BY <2>1, <2>2, BeginsOK, Zenon
<1> QED BY <1>2, <1>3, Zenon DEF StartRollout, StartPromote

LEMMA RollbackBegins ==
  ASSUME IInv, StartRollback \/ StartMigrate
  PROVE  IInv'
<1>1. ASSUME NEW k \in {"rollback", "migrate"}, NEW l, Start([NoOp EXCEPT !.kind = k], l),
             l = IF k = "rollback" THEN "pick" ELSE "sources"
      PROVE  IInv'
  <2> DEFINE o == [NoOp EXCEPT !.kind = k]
  <2>1. o \in Op /\ o.kind = k
    BY NoOpType DEF Op
  <2>2. /\ pc' = l /\ op' = o /\ report' = None /\ reading' = reading
        /\ UNCHANGED <<slot, backups, residue, tx, can, faults, legacy>>
    BY <1>1 DEF Start
  <2> HIDE DEF o
  <2> QED BY <1>1, <2>1, <2>2, BeginsOK
<1> QED BY <1>1 DEF StartRollback, StartMigrate

\* The command of an exact rollback, before its first step.
LEMMA ExactOp ==
  ASSUME NEW t \in Nat
  PROVE  LET o == [NoOp EXCEPT !.kind = "exact", !.expected = t]
         IN o \in Op /\ o.kind = "exact" /\ ~o.touched /\ ~o.removed
  BY NoOpType, Zenon DEF Op, NoOp

LEMMA PointedOp ==
  ASSUME NEW o \in Op, NEW p \in Nat
  PROVE  LET q == [o EXCEPT !.point = p]
         IN /\ q \in Op /\ q.kind = o.kind /\ q.point = p
            /\ q.touched = o.touched /\ q.removed = o.removed
  BY DEF Op

LEMMA ExactBegins ==
  ASSUME IInv, NEW t \in 1..markers, StartExact(t)
  PROVE  IInv'
<1> DEFINE o == [NoOp EXCEPT !.kind = "exact", !.expected = t]
           q == [o EXCEPT !.point = PendingBackup]
<1>1. t \in Nat /\ UNCHANGED <<slot, backups, residue, tx, can, faults>>
  BY DEF IInv, HostType, StartExact
<1>2. o \in Op /\ o.kind = "exact" /\ ~o.touched /\ ~o.removed
  BY <1>1, ExactOp, Zenon
<1> HIDE DEF o
<1>3. CASE ExactPending(t) /\ Start(q, "restore")
  <2>1. marker # None /\ PendingBackup = marker.point /\ PendingBackup \in Nat
    BY <1>3 DEF ExactPending, PendingBackup, IInv, HostType, Marker
  <2>2. q \in Op /\ q.kind = "exact" /\ q.point = PendingBackup /\ ~q.touched /\ ~q.removed
    BY <1>2, <2>1, PointedOp
  <2> HIDE DEF q
  <2>3. /\ pc' = "restore" /\ op' = q /\ report' = None /\ reading' = reading
        /\ UNCHANGED <<slot, backups, residue, tx, can, faults, legacy>>
    BY <1>1, <1>3 DEF Start
  <2> QED BY <2>1, <2>2, <2>3, BeginsOK
<1>4. CASE Ends(o, 1)
  <2>1. HostType'
    BY <1>1 DEF IInv, HostType, slot, tx, can
  <2>2. WorldInv'
    BY <1>1, StillWorld DEF tx
  <2> QED BY <1>4, <1>2, <2>1, <2>2, EndsKeeps
<1> QED BY <1>3, <1>4 DEF StartExact, o

LEMMA CrashKeeps ==
  ASSUME IInv, Crash
  PROVE  IInv'
<1>1. UNCHANGED <<files, backups, legacy, residue, tx, can, reading, report>>
  BY DEF Crash
<1>2. pc' = "idle" /\ op' = NoOp /\ faults' \in Nat
  BY FaultType DEF Crash, IInv, HostType
<1>3. \/ running' = running
      \/ /\ pc \in {"up", "r_up", "down"} /\ files.compose # Absent
         /\ running' \in {running, None, Started}
  BY DEF Crash, DockerLeaves
<1>4. HostType'
  <2>1. running' \in Project \cup {None}
    BY <1>3, StartedType DEF IInv, HostType
  <2> QED BY <1>1, <1>2, <2>1 DEF IInv, HostType, tx, can
<1>5. WorldInv'
  <2>1. CASE running' = running
    BY <1>1, <2>1, StillWorld DEF slot, tx
  <2>2. CASE pc \in {"up", "r_up", "down"}
    <3>1. Held
      BY <2>2, Zenon DEF IInv, ApplyInv, RestoreInv
    <3> QED BY <1>1, <3>1 DEF Held, tx, IInv, WorldInv
  <2> QED BY <1>3, <2>1, <2>2
<1>6. CmdType' /\ KindInv' /\ ExactInv'
  BY <1>1, <1>2, NoOpType DEF IInv, CmdType, Pc, KindInv, ExactInv, ApplyPc, RestorePc,
     IsApply, IsRollout
<1>7. ApplyInv' /\ RestoreInv' /\ ImportInv'
  BY <1>1, <1>2, Zenon DEF IInv, ApplyInv, RestoreInv, ImportInv, VersionOf
<1> QED BY <1>4, <1>5, <1>6, <1>7 DEF IInv

LEMMA StoredType ==
  ASSUME NEW i \in DOMAIN Legacy, NEW v \in DOMAIN Legacy[i], NEW d \in {"none"} \cup Damages
  PROVE  /\ Stored(Legacy[i][v], d) \in OnDisk
         /\ VersionOf(i, Stored(Legacy[i][v], d))
<1>1. d \in {"none", "directory", "artifact", "metadata"}
  BY RuntimeAssumption
<1>2. SourceIdentity(Stored(Legacy[i][v], d)) = SourceIdentity(Legacy[i][v])
  BY DEF SourceIdentity, Stored
<1> QED BY <1>1, <1>2, FirstVersion, Zenon DEF Stored, OnDisk, VersionOf

\* Whatever is put in place of a legacy backup, it is one of its versions.
LEMMA ChangedLegacy ==
  ASSUME IInv, NEW i \in DOMAIN Legacy, LegacyChanges(i)
  PROVE  /\ legacy' \in Seq(OnDisk) /\ DOMAIN legacy' = DOMAIN Legacy
         /\ \A k \in DOMAIN legacy' : VersionOf(k, legacy'[k])
<1>1. /\ legacy \in Seq(OnDisk) /\ DOMAIN legacy = DOMAIN Legacy /\ i \in DOMAIN legacy
      /\ \A k \in DOMAIN legacy : VersionOf(k, legacy[k])
  BY Zenon DEF IInv, CmdType, ImportInv
<1>2. PICK s \in OnDisk : legacy' = [legacy EXCEPT ![i] = s] /\ VersionOf(i, s)
  <2>1. ASSUME NEW v \in DOMAIN Legacy[i],
               legacy' = [legacy EXCEPT ![i] = Stored(Legacy[i][v], "none")]
        PROVE  \E s \in OnDisk : legacy' = [legacy EXCEPT ![i] = s] /\ VersionOf(i, s)
    BY <2>1, StoredType, Zenon
  <2>2. ASSUME NEW d \in Damages, legacy' = [legacy EXCEPT ![i].damage = d]
        PROVE  \E s \in OnDisk : legacy' = [legacy EXCEPT ![i] = s] /\ VersionOf(i, s)
    <3> DEFINE s == [legacy[i] EXCEPT !.damage = d]
    <3>1. legacy[i] \in OnDisk /\ d \in {"none", "directory", "artifact", "metadata"}
      BY <1>1, RuntimeAssumption
    <3>2. s \in OnDisk /\ s.layout = legacy[i].layout /\ s.files = legacy[i].files
      BY <3>1 DEF OnDisk
    <3>3. VersionOf(i, s)
      BY <1>1, <3>2 DEF VersionOf, SourceIdentity
    <3>4. legacy' = [legacy EXCEPT ![i] = s]
      BY <2>2
    <3> HIDE DEF s
    <3> QED BY <3>2, <3>3, <3>4, Zenon
  <2> QED BY <2>1, <2>2 DEF LegacyChanges
<1>3. legacy' \in Seq(OnDisk) /\ DOMAIN legacy' = DOMAIN legacy
  BY <1>1, <1>2
<1>4. ASSUME NEW k \in DOMAIN legacy' PROVE VersionOf(k, legacy'[k])
  BY <1>1, <1>2, <1>3
<1> QED BY <1>1, <1>3, <1>4, Zenon

LEMMA LegacyChangesKeeps ==
  ASSUME IInv, NEW i \in DOMAIN Legacy, LegacyChanges(i)
  PROVE  IInv'
<1>1. /\ UNCHANGED <<files, running, backups, residue, marker, markers, canary, outcomes>>
      /\ UNCHANGED <<reading, op, pc, report>> /\ pc = "idle" /\ faults' \in Nat
  BY FaultType DEF LegacyChanges, Unlocked, slot, tx, can, IInv, HostType
<1>2. HostType' /\ WorldInv'
  <2>1. HostType'
    BY <1>1, SMTT(30) DEF IInv, HostType
  <2> QED BY <1>1, <2>1, StillWorld DEF slot
<1>3. CmdType'
  BY <1>1, ChangedLegacy DEF IInv, CmdType
<1>4. KindInv' /\ ExactInv'
  BY <1>1, Zenon DEF IInv, KindInv, ExactInv, IsApply, IsRollout
<1>5. ApplyInv' /\ RestoreInv'
  BY <1>1 DEF ApplyInv, RestoreInv
<1>6. ImportInv'
  BY <1>1, ChangedLegacy, Zenon DEF ImportInv
<1> QED BY <1>2, <1>3, <1>4, <1>5, <1>6 DEF IInv

LEMMA Begin ==
  ASSUME Init
  PROVE  IInv
<1>1. PICK c \in Content : files = Uniform(c)
  BY Zenon DEF Init
<1>2. /\ files \in Files
      /\ running = IF files.compose = Absent THEN None ELSE Started
  BY <1>1, Zenon DEF Init, Uniform, Files, Started
<1>3. HostType
  <2>1. running \in Project \cup {None}
    BY <1>2, StartedType
  <2>2. <<>> \in Seq(Backup)
    OBVIOUS
  <2> QED BY <1>2, <2>1, <2>2 DEF Init, HostType
<1>4. WorldInv
  BY <1>2, RuntimeAssumption DEF Init, WorldInv, Serves
<1>5. /\ DOMAIN legacy = DOMAIN Legacy
      /\ \A i \in DOMAIN legacy : legacy[i] \in OnDisk /\ VersionOf(i, legacy[i])
  BY StoredType, FirstVersion, Zenon DEF Init
<1>6. CmdType
  <2>1. legacy \in Seq(OnDisk)
    <3>1. DOMAIN Legacy = 1..Len(Legacy) /\ Len(Legacy) \in Nat
      BY RuntimeAssumption
    <3>2. legacy \in [1..Len(Legacy) -> OnDisk]
      BY <1>5, <3>1 DEF Init
    <3> QED BY <3>1, <3>2
  <2> QED BY <2>1, NoOpType, Zenon DEF Init, CmdType, Pc
<1>7. KindInv /\ ExactInv /\ ApplyInv /\ RestoreInv
  BY NoOpType, Zenon DEF Init, KindInv, ExactInv, ApplyInv, RestoreInv, ApplyPc, RestorePc,
     IsApply, IsRollout
<1>8. ImportInv
  BY <1>5, Zenon DEF Init, ImportInv
<1> QED BY <1>3, <1>4, <1>6, <1>7, <1>8 DEF IInv

LEMMA StepKeeps ==
  ASSUME IInv, [Next]_vars
  PROVE  IInv'
<1>1. CASE Next
  BY <1>1, ApplyStepKeeps, RollbackStepKeeps, ReadingKeeps, ApplyBegins, RollbackBegins,
     ExactBegins, CrashKeeps, LegacyChangesKeeps, Zenon DEF Next
<1>2. CASE UNCHANGED vars
  <2>1. /\ UNCHANGED <<files, running, backups, legacy, residue, marker, markers, canary>>
        /\ UNCHANGED <<outcomes, reading, op, pc, report, faults>>
    BY <1>2 DEF vars
  <2>2. HostType' /\ CmdType'
    BY <2>1 DEF IInv, HostType, CmdType
  <2>3. WorldInv'
    BY <2>1, StillWorld, SMTT(30) DEF slot
  <2>4. KindInv' /\ ExactInv'
    BY <2>1 DEF IInv, KindInv, ExactInv, IsApply, IsRollout
  <2>5. ApplyInv'
    BY <2>1, Zenon DEF IInv, ApplyInv, OwnPoint, Held, Point, IsRollout, Started
  <2>6. RestoreInv'
    BY <2>1, Zenon DEF IInv, RestoreInv, Held, Point, Started, Serves
  <2>7. ImportInv'
    BY <2>1, Zenon DEF IInv, ImportInv, VersionOf, ImportsOf
  <2> QED BY <2>2, <2>3, <2>4, <2>5, <2>6, <2>7 DEF IInv
<1> QED BY <1>1, <1>2

LEMMA Invariant == Spec => []IInv
  BY Begin, StepKeeps, PTL DEF Spec

\* Whatever fails or is killed, and however often: without a pending rollback
\* the containers are those of the installed files.
THEOREM SlotServesInstalled == Spec => []ServesInstalled
<1>1. IInv => ServesInstalled
  BY DEF IInv, HostType, CmdType, WorldInv, TypeOK, Serves, ServesInstalled
<1> QED BY <1>1, Invariant, PTL

----------------------------------------------------------------------------
(* The receipts *)

ReportTrue ==
  report # None =>
    /\ ~report.writes => ~report.touched
    /\ report.state = "committed" => report.removed
    /\ report.state = "pending" => ~report.removed

\* What a command that ends knows of itself, if it is an exact rollback.
HonestEnd(o, rc) ==
  o.kind = "exact" =>
    /\ o.touched => o.mutated
    /\ rc \in {0, 3} => o.removed
    /\ marker' # None => ~o.removed

LEMMA EndsTruly ==
  ASSUME IInv, ReportTrue, NEW o \in Op, NEW rc, Ends(o, rc), HonestEnd(o, rc)
  PROVE  ReportTrue'
<1>1. CASE o.kind = "exact"
  <2>1. report' = ReceiptOf(o, marker', rc)
    BY <1>1, Zenon DEF Ends
  <2>2. /\ report'.writes = o.mutated /\ report'.touched = o.touched
        /\ report'.removed = o.removed
        /\ report'.state = "committed" => rc \in {0, 3}
        /\ report'.state = "pending" => marker' # None
    BY <2>1 DEF ReceiptOf
  <2> QED BY <1>1, <2>2 DEF HonestEnd, ReportTrue
<1>2. CASE o.kind # "exact"
  BY <1>2 DEF Ends, ReportTrue
<1> QED BY <1>1, <1>2

LEMMA ApplyReports ==
  ASSUME IInv, ApplyStep
  PROVE  report' = report
<1>1. op.kind # "exact"
  BY AtApply, Zenon DEF ApplyStep, ApplyPc, Preflight, StageBackup, PublishBackup, OpenMarker,
     OpenCanary, PrepareEnv, WriteCompose, Unprepare, ComposeUp, CheckLive, WriteManifest,
     WriteState, FinishApply, WriteReceipt, ConsumeCanary, AppendLog
<1>2. CASE \/ Preflight \/ StageBackup \/ PublishBackup \/ OpenMarker \/ OpenCanary
           \/ PrepareEnv \/ WriteCompose \/ Unprepare
  BY <1>1, <1>2, Zenon DEF Preflight, StageBackup, PublishBackup, OpenMarker, OpenCanary,
     PrepareEnv, WriteCompose, Unprepare, Goto, Becomes, Ends
<1>3. CASE \/ ComposeUp \/ CheckLive \/ WriteManifest \/ WriteState \/ FinishApply
           \/ WriteReceipt \/ ConsumeCanary \/ AppendLog
  BY <1>1, <1>3, Zenon DEF ComposeUp, CheckLive, WriteManifest, WriteState, FinishApply,
     WriteReceipt, ConsumeCanary, AppendLog, Goto, Ends
<1> QED BY <1>2, <1>3 DEF ApplyStep

LEMMA ImportReports ==
  ASSUME IInv, \/ PickBackup \/ ReadSources \/ RecoverInterrupted \/ ImportNext \/ PublishImport
               \/ WriteRollbackReceipt \/ ConsumeRollback
  PROVE  report' = report
<1>1. op.kind # "exact"
  <2>1. pc \in {"pick", "sources", "import", "publish", "r_receipt", "r_consume"}
    BY DEF PickBackup, ReadSources, RecoverInterrupted, ImportNext, PublishImport,
           WriteRollbackReceipt, ConsumeRollback
  <2> QED BY <2>1 DEF IInv, KindInv, IsApply, IsRollout
<1> QED BY <1>1, Zenon DEF PickBackup, ReadSources, RecoverInterrupted, ImportNext, PublishImport,
           WriteRollbackReceipt, ConsumeRollback, Goto, Becomes, Ends

\* An exact rollback has marked that it mutates before it touches anything, and
\* has removed its marker once it logs.
LEMMA RestoreReports ==
  ASSUME IInv, ReportTrue,
         \/ BeginRestore \/ ComposeDown \/ (\E i \in 1..4 : RestoreFile(i)) \/ RestoreUp
         \/ RestoreCheck \/ FinishRestore \/ FinishExact \/ LogRollback
  PROVE  ReportTrue'
<1>1. op \in Op
  BY DEF IInv, CmdType
<1>2. ASSUME report' = report PROVE ReportTrue'
  BY <1>2 DEF ReportTrue
<1>3. CASE BeginRestore
  <2>1. pc = "restore" /\ (op.kind = "exact" => ~op.touched /\ ~op.removed)
    BY <1>3 DEF BeginRestore, IInv, ExactInv
  <2>2. CASE Ends(op, 1)
    <3>1. HonestEnd(op, 1)
      BY <2>1 DEF HonestEnd
    <3> QED BY <1>1, <2>2, <3>1, EndsTruly
  <2>3. CASE ~Ends(op, 1)
    BY <1>2, <1>3, <2>3, Zenon DEF BeginRestore, Goto, Becomes
  <2> QED BY <2>2, <2>3
<1>4. CASE ComposeDown \/ (\E i \in 1..4 : RestoreFile(i)) \/ RestoreUp \/ RestoreCheck
  <2>1. pc \in {"down", "r_env", "r_compose", "r_manifest", "r_state", "r_up", "r_check"}
    <3>1. ASSUME NEW i \in 1..4, RestoreFile(i)
          PROVE  pc \in {"r_env", "r_compose", "r_manifest", "r_state"}
      <4>1. pc = RestoreLabel[i]
        BY <3>1, Zenon DEF RestoreFile
      <4> QED BY <4>1 DEF RestoreLabel
    <3>2. CASE ComposeDown \/ RestoreUp \/ RestoreCheck
      <4>1. pc = "down" \/ pc = "r_up" \/ pc = "r_check"
        BY <3>2, Zenon DEF ComposeDown, RestoreUp, RestoreCheck
      <4> QED BY <4>1
    <3> QED BY <1>4, <3>1, <3>2
  <2>2. ASSUME NEW o \in {op, Touched} PROVE o \in Op /\ HonestEnd(o, 1)
    <3>1. op.kind = "exact" => op.mutated /\ ~op.removed
      BY <2>1, RestoreHolds
    <3> QED BY <1>1, <3>1, TouchedOp DEF HonestEnd
  <2>3. ASSUME NEW o \in {op, Touched}, Ends(o, 1) PROVE ReportTrue'
    BY <2>2, <2>3, EndsTruly
  <2>4. CASE ~Ends(op, 1) /\ ~Ends(Touched, 1)
    BY <1>2, <1>4, <2>4, Zenon
       DEF ComposeDown, RestoreFile, RestoreUp, RestoreCheck, Goto, Becomes
  <2> QED BY <2>3, <2>4, Zenon
<1>5. CASE FinishRestore \/ FinishExact
  <2>1. pc = "r_finish" /\ marker # None
    BY <1>5, RestoreHolds, Zenon DEF FinishRestore, FinishExact, Held
  <2>2. HonestEnd(op, 1) /\ (marker' = None => HonestEnd(Removing, 1)) /\ Removing \in Op
    <3>1. op.kind = "exact" => op.mutated /\ ~op.removed
      BY <2>1, RestoreHolds
    <3> QED BY <1>1, <3>1, RemovingOp DEF HonestEnd
  <2>3. CASE Ends(op, 1)
    BY <1>1, <2>2, <2>3, EndsTruly
  <2>4. CASE marker' = None /\ Ends(Removing, 1)
    BY <2>2, <2>4, EndsTruly
  <2>5. ASSUME NEW l, Becomes(Removing, l) PROVE ReportTrue'
    BY <1>2, <2>5 DEF Becomes
  <2> QED BY <1>5, <2>3, <2>4, <2>5 DEF FinishRestore, FinishExact
<1>6. CASE LogRollback
  <2>1. /\ op.kind = "exact" => op.mutated /\ op.removed
        /\ marker' = None
    BY <1>6 DEF LogRollback, IInv, ExactInv, RestoreInv, tx
  <2>2. ASSUME NEW rc PROVE HonestEnd(op, rc)
    BY <2>1 DEF HonestEnd
  <2> QED BY <1>1, <1>6, <2>2, EndsTruly, Zenon DEF LogRollback
<1> QED BY <1>3, <1>4, <1>5, <1>6

LEMMA StepReports ==
  ASSUME IInv, ReportTrue, [Next]_vars
  PROVE  ReportTrue'
<1>1. ASSUME report' \in {report, None} PROVE ReportTrue'
  BY <1>1 DEF ReportTrue
<1>2. CASE ApplyStep \/ RollbackStep
  BY <1>1, <1>2, ApplyReports, ImportReports, RestoreReports DEF RollbackStep
<1>3. ASSUME NEW t \in 1..markers, StartExact(t) PROVE ReportTrue'
  <2> DEFINE o == [NoOp EXCEPT !.kind = "exact", !.expected = t]
  <2>1. CASE Ends(o, 1)
    <3>0. t \in Nat
      BY DEF IInv, HostType
    <3>1. o \in Op /\ ~o.touched /\ ~o.removed
      BY <3>0, ExactOp, Zenon
    <3>2. HonestEnd(o, 1)
      BY <3>1 DEF HonestEnd
    <3> HIDE DEF o
    <3> QED BY <2>1, <3>1, <3>2, EndsTruly
  <2>2. CASE ~Ends(o, 1)
    BY <1>1, <1>3, <2>2, Zenon DEF StartExact, Start
  <2> QED BY <2>1, <2>2
<1>4. CASE \/ ReadManifest \/ StartApply \/ ApplyRefused
           \/ \E v \in Image : StartRollout(v) \/ StartPromote(v)
           \/ StartRollback \/ StartMigrate \/ Crash \/ (\E i \in DOMAIN Legacy : LegacyChanges(i))
  BY <1>1, <1>4, Zenon DEF ReadManifest, StartApply, ApplyRefused, StartRollout, StartPromote,
     StartRollback, StartMigrate, Start, Crash, LegacyChanges
<1>5. CASE UNCHANGED vars
  BY <1>1, <1>5 DEF vars
<1> QED BY <1>2, <1>3, <1>4, <1>5, Zenon DEF Next

\* A canary's receipt is written by one of two steps, and says what then runs.
LEMMA CanaryReceipts ==
  ASSUME IInv, Next, NEW r \in outcomes' \ outcomes
  PROVE  /\ marker = None /\ canary # None /\ canary.id = r.id
         /\ ContractImage(files) =
              IF r.outcome = "candidate_succeeded" THEN canary.candidate ELSE canary.prestate
<1>1. CASE WriteReceipt
  <2>1. /\ canary # None /\ canary.candidate = op.image /\ marker = None
        /\ r = [id |-> canary.id, outcome |-> "candidate_succeeded"]
        /\ files.state = op.image
    BY <1>1, Zenon DEF WriteReceipt, IInv, ApplyInv
  <2>2. op.image # Absent
    BY <1>1, AtApply, Zenon DEF WriteReceipt, ApplyPc
  <2> QED BY <2>1, <2>2, Zenon DEF ContractImage
<1>2. CASE WriteRollbackReceipt
  <2>1. /\ canary # None /\ canary.prestate = ContractImage(Point) /\ marker = None
        /\ r = [id |-> canary.id, outcome |-> "rollback_succeeded"]
        /\ files.state = Point.state /\ files.manifest = Point.manifest
    BY <1>2, Zenon DEF WriteRollbackReceipt, IInv, RestoreInv, BackupContract
  <2> QED BY <2>1 DEF ContractImage
<1>3. CASE ~WriteReceipt /\ ~WriteRollbackReceipt
  <2>1. CASE ApplyStep
    BY <1>3, <2>1, Zenon DEF ApplyStep, Preflight, StageBackup, PublishBackup, OpenMarker,
       OpenCanary, PrepareEnv, WriteCompose, Unprepare, ComposeUp, CheckLive, WriteManifest,
       WriteState, FinishApply, ConsumeCanary, AppendLog, can
  <2>2. CASE RollbackStep
    BY <1>3, <2>2, Zenon DEF RollbackStep, PickBackup, ReadSources, RecoverInterrupted,
       ImportNext, PublishImport, BeginRestore, ComposeDown, RestoreFile, RestoreUp,
       RestoreCheck, FinishRestore, FinishExact, ConsumeRollback, LogRollback, can
  <2>3. CASE \/ ReadManifest \/ StartApply \/ ApplyRefused
             \/ \E v \in Image : StartRollout(v) \/ StartPromote(v)
             \/ StartRollback \/ (\E t \in 1..markers : StartExact(t)) \/ StartMigrate
             \/ Crash \/ (\E i \in DOMAIN Legacy : LegacyChanges(i))
    BY <2>3, Zenon DEF ReadManifest, StartApply, ApplyRefused, StartRollout, StartPromote,
       StartRollback, StartExact, StartMigrate, Start, Crash, LegacyChanges, can
  <2> QED BY <2>1, <2>2, <2>3, Zenon DEF Next
<1> QED BY <1>1, <1>2, <1>3

\* Every receipt is true when it is written: a canary's of what the slot is then
\* committed to, an exact rollback's of whether it touched the slot and removed
\* the marker.
THEOREM EveryReceiptIsTrue == Spec => ReceiptsTruthful
<1>1. Init => ReportTrue
  BY Zenon DEF Init, ReportTrue
<1>2. ASSUME IInv, ReportTrue, [Next]_vars
      PROVE  [/\ \A r \in outcomes' \ outcomes :
                   /\ marker = None /\ canary # None /\ canary.id = r.id
                   /\ ContractImage(files) =
                        IF r.outcome = "candidate_succeeded" THEN canary.candidate
                        ELSE canary.prestate
              /\ report' # None =>
                   /\ ~report'.writes => ~report'.touched
                   /\ report'.state = "committed" => report'.removed
                   /\ report'.state = "pending" => ~report'.removed]_vars
  <2>1. ReportTrue'
    BY <1>2, StepReports
  <2> QED BY <1>2, <2>1, CanaryReceipts DEF ReportTrue
<1> QED BY <1>1, <1>2, StepReports, Invariant, PTL DEF Spec, ReceiptsTruthful

----------------------------------------------------------------------------
(* The files of a slot change together *)

SavedOf(b) == [files |-> b.files, from |-> IF b.source = None THEN 0 ELSE b.at]
Saved == [i \in DOMAIN backups |-> SavedOf(backups[i])]

\* The abstract step of a command: none, one more recovery point, or another
\* choice of what is installed.
LEMMA Stutters ==
  ASSUME Installed' = Installed, backups' = backups
  PROVE  UNCHANGED Rollout!vars
  BY DEF Rollout!vars

LEMMA SameSeq ==
  ASSUME NEW T, NEW u \in Seq(T), NEW v \in Seq(T), Len(u) = Len(v),
         \A i \in 1..Len(u) : u[i] = v[i]
  PROVE  u = v
  OBVIOUS

LEMMA FunctionIsSeq ==
  ASSUME NEW T, NEW n \in Nat, NEW u \in [1..n -> T]
  PROVE  u \in Seq(T) /\ Len(u) = n
  OBVIOUS

LEMMA Appended ==
  ASSUME NEW T, NEW u \in Seq(T), NEW e \in T
  PROVE  /\ Append(u, e) \in Seq(T) /\ Len(Append(u, e)) = Len(u) + 1
         /\ DOMAIN Append(u, e) = 1..(Len(u) + 1) /\ Append(u, e)[Len(u) + 1] = e
         /\ \A i \in 1..Len(u) : Append(u, e)[i] = u[i]
  OBVIOUS

LEMMA SavedGrows ==
  ASSUME IInv, NEW b \in Backup, backups' = Append(backups, b)
  PROVE  Saved' = Append(Saved, SavedOf(b))
<1> DEFINE S == {SavedOf(c) : c \in Backup}
           n == Len(backups)
<1>1. backups \in Seq(Backup) /\ n \in Nat /\ DOMAIN backups = 1..n
  BY DEF IInv, HostType
<1>2. /\ DOMAIN backups' = 1..(n + 1) /\ backups'[n + 1] = b /\ backups' \in Seq(Backup)
      /\ \A i \in 1..n : backups'[i] = backups[i]
  BY <1>1, Appended
<1>3. /\ Saved \in [1..n -> S] /\ Saved' \in [1..(n + 1) -> S] /\ SavedOf(b) \in S
      /\ \A i \in 1..n : Saved[i] = SavedOf(backups[i])
      /\ \A i \in 1..(n + 1) : Saved'[i] = SavedOf(backups'[i])
  <2>1. /\ \A i \in 1..n : backups[i] \in Backup
        /\ \A i \in 1..(n + 1) : backups'[i] \in Backup
    BY <1>1, <1>2
  <2>2. /\ Saved = [i \in 1..n |-> SavedOf(backups[i])]
        /\ Saved' = [i \in 1..(n + 1) |-> SavedOf(backups'[i])]
    BY <1>1, <1>2 DEF Saved
  <2> QED BY <2>1, <2>2, Zenon
<1> HIDE DEF S
<1>4. Saved \in Seq(S) /\ Len(Saved) = n /\ Saved' \in Seq(S) /\ Len(Saved') = n + 1
  <2>1. Saved \in Seq(S) /\ Len(Saved) = n
    BY <1>1, <1>3, FunctionIsSeq, Zenon
  <2>2. n + 1 \in Nat
    BY <1>1
  <2>3. Saved' \in Seq(S) /\ Len(Saved') = n + 1
    BY <1>3, <2>2, FunctionIsSeq, Zenon
  <2> QED BY <2>1, <2>3
<1>5. /\ Append(Saved, SavedOf(b)) \in Seq(S) /\ Len(Append(Saved, SavedOf(b))) = n + 1
      /\ Append(Saved, SavedOf(b))[n + 1] = SavedOf(b)
      /\ \A i \in 1..n : Append(Saved, SavedOf(b))[i] = Saved[i]
  BY <1>3, <1>4, Appended
<1>6. \A i \in 1..(n + 1) : Saved'[i] = Append(Saved, SavedOf(b))[i]
  <2> SUFFICES ASSUME NEW i \in 1..(n + 1)
               PROVE  Saved'[i] = Append(Saved, SavedOf(b))[i]
    BY Zenon
  <2>1. i \in 1..n \/ i = n + 1
    BY <1>1
  <2> QED BY <1>2, <1>3, <1>5, <2>1, Zenon
<1> QED BY <1>4, <1>5, <1>6, SameSeq

\* While a rollback is pending the files may be anything.
LEMMA PendingStutters ==
  ASSUME IInv, marker # None, UNCHANGED <<backups, marker>>,
         backups[marker.point].files.env = Unrecorded => files'.env = files.env
  PROVE  UNCHANGED Rollout!vars
<1>1. Installed' = Installed
  BY DEF Installed, Restored
<1> QED BY <1>1, Stutters

LEMMA StillStutters ==
  ASSUME UNCHANGED <<files, backups, marker>>
  PROVE  UNCHANGED Rollout!vars
<1>1. Installed' = Installed
  BY DEF Installed
<1> QED BY <1>1, Stutters

LEMMA Saves ==
  ASSUME Saved' = Append(Saved, [files |-> Installed, from |-> 0]), Installed' = Installed
  PROVE  Rollout!Next
<1>1. Rollout!Save
  BY Zenon DEF Rollout!Save, Rollout!Point, Rollout!Own, Saved, SavedOf
<1> QED BY <1>1 DEF Rollout!Next

LEMMA Switches ==
  ASSUME NEW v \in Image, backups' = backups,
         Installed' \in {Uniform(v), [Uniform(v) EXCEPT !.env = Installed.env]}
  PROVE  Rollout!Next
<1>1. Rollout!Switch(v)
  BY DEF Rollout!Switch, Rollout!Uniform, Uniform
<1> QED BY <1>1 DEF Rollout!Next

LEMMA Reverts ==
  ASSUME NEW i \in DOMAIN backups, backups' = backups,
         Installed' = Restored(backups[i].files, Installed)
  PROVE  Rollout!Next
<1> DEFINE s == [k \in DOMAIN backups |->
                   [files |-> backups[k].files,
                    from |-> IF backups[k].source = None THEN 0 ELSE backups[k].at]]
<1>1. DOMAIN s = DOMAIN backups /\ s[i].files = backups[i].files /\ s' = s
  BY Zenon
<1>2. Installed' = Rollout!Restored(backups[i].files, Installed)
  BY Zenon DEF Restored, Rollout!Restored, Unrecorded, Rollout!Unrecorded
<1>3. Rollout!Revert(i)
  BY <1>1, <1>2, Zenon DEF Rollout!Revert
<1> QED BY <1>1, <1>3, Zenon DEF Rollout!Next

LEMMA Imports ==
  ASSUME NEW k \in DOMAIN Legacy, NEW v \in DOMAIN Legacy[k], ImportsOf(k) = {},
         Saved' = Append(Saved, [files |-> Imported(Legacy[k][v]), from |-> k]),
         Installed' = Installed
  PROVE  Rollout!Next
<1>1. k # 0
  BY RuntimeAssumption
<1>2. \A i \in DOMAIN Saved : Saved[i].from # k
  BY <1>1, Zenon DEF Saved, SavedOf, ImportsOf
<1>3. Rollout!Import(k)
  <2>1. Imported(Legacy[k][v]) \in {Imported(Legacy[k][w]) : w \in DOMAIN Legacy[k]}
    OBVIOUS
  <2> QED BY <1>2, <2>1, Zenon DEF Rollout!Import, Rollout!Point, Saved, SavedOf
<1> QED BY <1>3, Zenon DEF Rollout!Next

----------------------------------------------------------------------------
(* The step that each step of a command is *)

LEMMA PublishBackupSaves ==
  ASSUME IInv, PublishBackup
  PROVE  [Rollout!Next]_Rollout!vars
<1> DEFINE b == [files |-> files, at |-> NextStamp, source |-> None]
<1>1. marker = None /\ UNCHANGED <<files, marker>>
  BY DEF PublishBackup, IInv, ApplyInv, slot, tx
<1>2. Installed = files /\ Installed' = Installed
  BY <1>1 DEF Installed
<1>3. CASE backups' = Append(backups, b)
  <2>1. b \in Backup
    <3>1. files \in Snapshot /\ NextStamp \in Nat
      BY RuntimeAssumption DEF IInv, HostType, Files, Snapshot, NextStamp
    <3> QED BY <3>1, Zenon DEF Backup
  <2>2. SavedOf(b) = [files |-> Installed, from |-> 0]
    BY <1>2 DEF SavedOf
  <2> HIDE DEF b
  <2>3. Saved' = Append(Saved, [files |-> Installed, from |-> 0])
    BY <1>3, <2>1, <2>2, SavedGrows
  <2> QED BY <1>2, <2>3, Saves
<1>4. CASE backups' = backups
  BY <1>2, <1>4, Stutters
<1> QED BY <1>3, <1>4, Zenon DEF PublishBackup, b

LEMMA OpenMarkerStutters ==
  ASSUME IInv, OpenMarker
  PROVE  [Rollout!Next]_Rollout!vars
<1>1. /\ marker = None /\ OwnPoint /\ Point = files /\ UNCHANGED <<files, backups>>
      /\ MarkerWritten \/ UNCHANGED tx
  BY DEF OpenMarker, IInv, ApplyInv, slot
<1>2. CASE MarkerWritten
  <2>1. marker' # None /\ marker'.point = op.point
    BY <1>2, MarkerOpened, Zenon
  <2>2. files.env # Unrecorded /\ files = Restored(files, files)
    BY <1>1, RuntimeAssumption, Zenon DEF OwnPoint, Files, Content, Restored, Absent, Unrecorded
  <2>3. Installed' = Installed
    BY <1>1, <2>1, <2>2 DEF Installed, Point
  <2> QED BY <1>1, <2>3, Stutters
<1>3. CASE UNCHANGED tx
  BY <1>1, <1>3, StillStutters DEF tx
<1> QED BY <1>1, <1>2, <1>3, Zenon

\* Before the marker goes, the files are those of the new image.
LEMMA FinishApplySwitches ==
  ASSUME IInv, FinishApply
  PROVE  [Rollout!Next]_Rollout!vars
<1>1. pc = "finish" /\ UNCHANGED <<files, backups>> /\ marker' \in {marker, None}
  BY Zenon DEF FinishApply, slot
<1>2. /\ Held /\ op.image \in Image /\ Point \in Files /\ files \in Files
      /\ files.env = IF IsRollout THEN op.image ELSE Point.env
      /\ files.compose = op.image /\ files.manifest = op.image /\ files.state = op.image
  BY <1>1, ApplyHolds DEF IInv, ApplyInv
<1>3. CASE marker' = None
  <2>1. Installed = Restored(Point, files) /\ Installed' = files
    BY <1>1, <1>2, <1>3, Zenon DEF Installed, Held, Point
  <2>2. Installed.env = Point.env
    BY <1>2, <2>1, RuntimeAssumption DEF Restored, Files, Content, Absent, Unrecorded
  <2>3. files \in {Uniform(op.image), [Uniform(op.image) EXCEPT !.env = Installed.env]}
    BY <1>2, <2>2 DEF Uniform, Files
  <2> QED BY <1>1, <1>2, <2>1, <2>3, Switches
<1>4. CASE marker' = marker
  BY <1>1, <1>4, StillStutters
<1> QED BY <1>1, <1>3, <1>4

\* The recovery point is installed when its rollback is opened.
LEMMA BeginRestoreReverts ==
  ASSUME IInv, BeginRestore
  PROVE  [Rollout!Next]_Rollout!vars
<1>1. /\ UNCHANGED <<files, backups>> /\ op.point \in DOMAIN backups
      /\ (marker = None /\ MarkerWritten) \/ UNCHANGED tx
  BY DEF BeginRestore, IInv, RestoreInv, slot
<1>2. CASE marker = None /\ MarkerWritten
  <2>1. marker' # None /\ marker'.point = op.point
    BY <1>2, MarkerOpened, Zenon
  <2>2. Installed = files /\ Installed' = Restored(backups[op.point].files, files)
    BY <1>1, <1>2, <2>1 DEF Installed
  <2> QED BY <1>1, <2>2, Reverts
<1>3. CASE UNCHANGED tx
  BY <1>1, <1>3, StillStutters DEF tx
<1> QED BY <1>1, <1>2, <1>3

\* The marker goes when the files are those of the recovery point.
LEMMA FinishStutters ==
  ASSUME IInv, FinishRestore \/ FinishExact
  PROVE  [Rollout!Next]_Rollout!vars
<1>1. pc = "r_finish" /\ UNCHANGED <<files, backups>> /\ marker' \in {marker, None}
  BY DEF FinishRestore, FinishExact, slot
<1>2. /\ Held /\ Point \in Snapshot /\ files \in Files
      /\ Point.env = Unrecorded \/ files.env = Point.env
      /\ files.compose = Point.compose /\ files.manifest = Point.manifest
      /\ files.state = Point.state
  BY <1>1, RestoreHolds, Zenon DEF IInv, RestoreInv
<1>3. CASE marker' = None
  <2>1. files = Restored(Point, files)
    BY <1>2, Zenon DEF Restored, Files
  <2>2. Installed = Restored(Point, files) /\ Installed' = files
    BY <1>1, <1>2, <1>3, Zenon DEF Installed, Held, Point
  <2> QED BY <1>1, <2>1, <2>2, Stutters
<1>4. CASE marker' = marker
  BY <1>1, <1>4, StillStutters
<1> QED BY <1>1, <1>3, <1>4

\* No source is imported twice.
LEMMA ImportSteps ==
  ASSUME IInv, RecoverInterrupted \/ PublishImport
  PROVE  [Rollout!Next]_Rollout!vars
<1>1. UNCHANGED <<files, marker>>
  BY DEF RecoverInterrupted, PublishImport, slot, tx
<1>2. ASSUME NEW b \in Backup, backups' = Append(backups, b) PROVE Installed' = Installed
  <2>1. /\ marker # None => marker.point \in DOMAIN backups
        /\ backups \in Seq(Backup)
    BY Zenon DEF IInv, WorldInv, HostType
  <2>2. marker # None => backups'[marker.point] = backups[marker.point]
    BY <1>2, <2>1
  <2> QED BY <1>1, <2>2, Zenon DEF Installed
<1>3. ASSUME NEW k \in DOMAIN Legacy, NEW s, VersionOf(k, s), ImportsOf(k) = {},
             s.files \in Files, s.layout \in {"v0", "v1", "v2"},
             backups' = Append(backups, FromSource(k, s))
      PROVE  Rollout!Next
  <2>1. PICK v \in DOMAIN Legacy[k] : SourceIdentity(s) = SourceIdentity(Legacy[k][v])
    BY <1>3 DEF VersionOf
  <2>2. Imported(s) = Imported(Legacy[k][v])
    BY <2>1, Zenon DEF SourceIdentity, Imported
  <2>3. PICK b \in Backup : /\ b = FromSource(k, s) /\ b.source # None /\ b.at = k
                            /\ b.files = Imported(s)
    BY <1>3, FirstVersion, FromSourceType
  <2>4. SavedOf(b) = [files |-> Imported(Legacy[k][v]), from |-> k]
    BY <2>2, <2>3, Zenon DEF SavedOf
  <2>5. Saved' = Append(Saved, [files |-> Imported(Legacy[k][v]), from |-> k])
    BY <1>3, <2>3, <2>4, SavedGrows, Zenon
  <2>6. Installed' = Installed
    BY <1>2, <1>3, <2>3, Zenon
  <2> QED BY <1>3, <2>5, <2>6, Imports, Zenon
<1>4. CASE RecoverInterrupted
  <2>1. 1 \in DOMAIN Legacy /\ backups = <<>>
    BY <1>4 DEF RecoverInterrupted, IInv, WorldInv
  <2>2. ImportsOf(1) = {}
    BY <2>1 DEF ImportsOf
  <2>3. 1 \in DOMAIN Legacy[1] /\ VersionOf(1, Legacy[1][1])
    BY <2>1, FirstVersion DEF VersionOf
  <2> QED BY <1>3, <1>4, <2>1, <2>2, <2>3, FirstVersion, Zenon DEF RecoverInterrupted
<1>5. CASE PublishImport
  <2>1. CASE backups' = backups
    BY <1>1, <2>1, StillStutters, Zenon
  <2>2. CASE backups' = Append(backups, FromSource(op.point, op.read[op.point]))
    <3>1. /\ op.point \in DOMAIN Legacy /\ ImportsOf(op.point) = {}
          /\ VersionOf(op.point, op.read[op.point]) /\ op.point \in DOMAIN op.read
      BY <1>5, Zenon DEF PublishImport, IInv, ImportInv
    <3>2. op.read[op.point] \in OnDisk
      BY <3>1 DEF IInv, CmdType, Op
    <3> QED BY <1>3, <2>2, <3>1, <3>2, Zenon DEF OnDisk
  <2> QED BY <1>5, <2>1, <2>2 DEF PublishImport
<1> QED BY <1>4, <1>5

\* An apply and a restore write their files under a pending rollback, and leave
\* .env alone if the recovery point does not speak of it.
LEMMA WritesStutter ==
  ASSUME IInv, \/ PrepareEnv \/ WriteCompose \/ Unprepare \/ WriteManifest \/ WriteState
               \/ \E i \in 1..4 : RestoreFile(i)
  PROVE  UNCHANGED Rollout!vars
<1>1. UNCHANGED <<backups, marker>>
  BY Zenon DEF PrepareEnv, WriteCompose, Unprepare, WriteManifest, WriteState, RestoreFile, tx
<1>2. CASE PrepareEnv \/ WriteCompose \/ Unprepare \/ WriteManifest \/ WriteState
  <2>1. Held /\ Point \in Files
    BY <1>2, ApplyHolds DEF PrepareEnv, WriteCompose, Unprepare, WriteManifest, WriteState
  <2>2. Point.env # Unrecorded
    BY <2>1, RuntimeAssumption, Zenon DEF Files, Content, Absent, Unrecorded
  <2> QED BY <1>1, <2>1, <2>2, PendingStutters DEF Held, Point
<1>3. ASSUME NEW i \in 1..4, RestoreFile(i) PROVE UNCHANGED Rollout!vars
  <2>1. pc \in {"r_env", "r_compose", "r_manifest", "r_state"}
    BY <1>3 DEF RestoreFile, RestoreLabel
  <2>2. Held /\ files \in Files
    BY <2>1, RestoreHolds, Zenon
  <2>3. Point.env = Unrecorded => files'.env = files.env
    BY <1>3, <2>2 DEF RestoreFile, RestoreOrder, RestoredFile, EnvRecorded, Files
  <2> QED BY <1>1, <2>2, <2>3, PendingStutters, Zenon DEF Held, Point
<1> QED BY <1>2, <1>3

LEMMA OthersStutter ==
  ASSUME Next, ~PublishBackup, ~OpenMarker, ~FinishApply, ~BeginRestore,
         ~FinishRestore, ~FinishExact, ~RecoverInterrupted, ~PublishImport,
         ~PrepareEnv, ~WriteCompose, ~Unprepare, ~WriteManifest, ~WriteState,
         ~ \E i \in 1..4 : RestoreFile(i)
  PROVE  UNCHANGED <<files, backups, marker>>
<1>1. CASE ApplyStep
  BY <1>1, Zenon DEF ApplyStep, Preflight, StageBackup, OpenCanary, ComposeUp, CheckLive,
     WriteReceipt, ConsumeCanary, AppendLog, slot, tx
<1>2. CASE RollbackStep
  BY <1>2, Zenon DEF RollbackStep, PickBackup, ReadSources, ImportNext, ComposeDown, RestoreUp,
     RestoreCheck, WriteRollbackReceipt, ConsumeRollback, LogRollback, slot, tx
<1>3. CASE \/ ReadManifest \/ StartApply \/ ApplyRefused
           \/ \E v \in Image : StartRollout(v) \/ StartPromote(v)
           \/ StartRollback \/ (\E t \in 1..markers : StartExact(t)) \/ StartMigrate
           \/ Crash \/ (\E i \in DOMAIN Legacy : LegacyChanges(i))
  BY <1>3, Zenon DEF ReadManifest, StartApply, ApplyRefused, StartRollout, StartPromote,
     StartRollback, StartExact, StartMigrate, Start, Crash, LegacyChanges, slot, tx
<1> QED BY <1>1, <1>2, <1>3, Zenon DEF Next

LEMMA StepImplements ==
  ASSUME IInv, [Next]_vars
  PROVE  [Rollout!Next]_Rollout!vars
<1>1. CASE PublishBackup \/ OpenMarker \/ FinishApply \/ BeginRestore
  BY <1>1, PublishBackupSaves, OpenMarkerStutters, FinishApplySwitches, BeginRestoreReverts, Zenon
<1>2. CASE FinishRestore \/ FinishExact \/ RecoverInterrupted \/ PublishImport
  BY <1>2, FinishStutters, ImportSteps, Zenon
<1>3. CASE \/ PrepareEnv \/ WriteCompose \/ Unprepare \/ WriteManifest \/ WriteState
           \/ \E i \in 1..4 : RestoreFile(i)
  BY <1>3, WritesStutter, Zenon
<1>4. CASE UNCHANGED <<files, backups, marker>>
  BY <1>4, StillStutters, Zenon
<1>5. CASE UNCHANGED vars
  BY <1>4, <1>5, Zenon DEF vars
<1> QED BY <1>1, <1>2, <1>3, <1>4, <1>5, OthersStutter, Zenon

\* Killed or failing at any write, with any images and any legacy backups, the
\* commands switch the four files of a slot together, save only what is
\* installed and import no legacy backup twice.
THEOREM ApplyImplementsSlotRollout == Spec => ImplementsSlotRollout
<1>1. Init => Rollout!Init
  <2> SUFFICES ASSUME Init PROVE Rollout!Init
    OBVIOUS
  <2>1. PICK c \in Content : files = Uniform(c) /\ marker = None /\ backups = <<>>
    BY DEF Init
  <2>2. Installed = Rollout!Uniform(c) /\ c \in Rollout!Content
    BY <2>1 DEF Installed, Uniform, Rollout!Uniform, Content, Rollout!Content, Absent,
       Rollout!Absent
  <2>3. [i \in DOMAIN backups |->
           [files |-> backups[i].files,
            from |-> IF backups[i].source = None THEN 0 ELSE backups[i].at]] = <<>>
    BY <2>1
  <2> QED BY <2>2, <2>3 DEF Rollout!Init
<1> QED BY <1>1, StepImplements, Invariant, PTL DEF Spec, ImplementsSlotRollout, Rollout!Spec
============================================================================
