------------------------------- MODULE NasViews -------------------------------
(***************************************************************************)
(* The corpus views of the slots: `opsctl nas view assign`, `detach` and   *)
(* `restore`.  A view is a stack of mounts.  A CIFS master (one per slot,  *)
(* or the collector's mount that the policy names) is the source of        *)
(* read-only binds under view/, and view/ is bound recursively onto the    *)
(* entry the slot sees.  nas-views.yaml records the views, /etc/fstab the  *)
(* per-slot masters.  The commands load the state file first, work on the  *)
(* mount table one mount(8) call at a time, and save what they loaded.     *)
(*                                                                         *)
(* A key is a pair of a slot and a corpus.  A user's slice of a corpus is  *)
(* a set of rooms (rooms, or granted paths), and a package where the       *)
(* corpus has them.                                                        *)
(***************************************************************************)
EXTENDS Naturals, FiniteSets

CONSTANTS
    Keys,              \* the views a host can have: a slot and a corpus
    Users,             \* the identities a view can be assigned to
    Rooms,             \* the directories of the corpora that can be bound
    Slice,             \* Slice[u]: the rooms of user u
    Package,           \* the target that the package is bound on
    HasPackage,        \* keys whose corpus has packages (layout kakao_package)
    GrantedPaths,      \* keys bound from explicit paths (layout granted_paths)
    SharedRequired,    \* keys whose corpus needs a collector in the policy
    PerSlotDelivery,   \* keys delivered by a per-slot master all the same
    MasterPaths,       \* the paths where the collector mounts a share
    NoPath, NoRecord,  \* absent
    Procs,             \* the opsctl processes that may run at the same time
    MaxCommands,       \* how many commands are started
    MaxFaults          \* how many mount, umount and save calls fail

ASSUME ViewsAssumption ==
    /\ Slice \in [Users -> SUBSET Rooms]
    /\ Package \notin Rooms
    /\ HasPackage \subseteq Keys
    /\ GrantedPaths \subseteq Keys \ HasPackage
    /\ SharedRequired \subseteq Keys
    /\ PerSlotDelivery \subseteq Keys
    /\ NoPath \notin MasterPaths
    /\ MaxCommands \in Nat /\ MaxFaults \in Nat

VARIABLES
    records,     \* nas-views.yaml
    fstab,       \* keys whose managed pair is in /etc/fstab
    masters,     \* keys whose hidden per-slot master is mounted
    policy,      \* corpus_master_mounts of nas-policy.yaml
    credentials, \* keys that a credential file is there for
    collectors,  \* the collector's paths that are mounted
    present,     \* the rooms that exist on the NAS
    shared,      \* the host's mounts are shared (systemd's default, and what the
                 \* rslave binds of the containers need), or private
    view,        \* the mounts under view/ of each key
    entry,       \* the mount at each key's entry, and the ones under it
    cmd,         \* the commands in flight
    lock,        \* the holder of the restore lock
    damaged,     \* history: keys left with mounts by a failed umount or a kill
    commands, faults

vars == <<records, fstab, masters, policy, credentials, collectors, present,
          shared, view, entry, cmd, lock, damaged, commands, faults>>

Targets == Rooms \cup {Package}

\* One bind: where it is, whose package or which room it shows, and whether it
\* is mounted ro,nosuid,nodev.
Mount == [at : Targets, what : Users \cup Rooms, ro : BOOLEAN]

\* The mount at the entry and its submounts.
Entry == [on : BOOLEAN, ro : BOOLEAN, kids : SUBSET Mount]
NoEntry == [on |-> FALSE, ro |-> FALSE, kids |-> {}]

\* A record of the state file: master_path is NoPath in mode per_slot_cifs.
Record == [user : Users, path : MasterPaths \cup {NoPath},
           bound : SUBSET Rooms]

Steps == {"idle", "master", "mount_master", "plan", "bind", "harden",
          "harden_entry", "save", "rollback", "unmount", "fstab", "drop",
          "lock", "mount_all", "next"}

Command == [op : {"none", "assign", "detach", "restore"}, at : Steps,
            key : Keys, user : Users, path : MasterPaths \cup {NoPath},
            loaded : [Keys -> Record \cup {NoRecord}],
            todo : SUBSET [at : Targets, what : Users \cup Rooms],
            now : Targets, bound : SUBSET Rooms,
            queue : SUBSET Keys, over : SUBSET Keys, failed : BOOLEAN,
            approved : 0 .. MaxFaults + 1]

Idle == [op |-> "none", at |-> "idle", key |-> CHOOSE k \in Keys : TRUE,
         user |-> CHOOSE u \in Users : TRUE, path |-> NoPath,
         loaded |-> [k \in Keys |-> NoRecord], todo |-> {}, now |-> Package,
         bound |-> {}, queue |-> {}, over |-> {}, failed |-> FALSE,
         approved |-> MaxFaults + 1]

Init ==
    /\ records = [k \in Keys |-> NoRecord]
    /\ fstab = {} /\ masters = {}
    /\ policy \in [Keys -> MasterPaths \cup {NoPath}]
    /\ credentials \in SUBSET Keys
    /\ collectors = MasterPaths
    /\ present = Rooms
    /\ shared \in BOOLEAN
    /\ view = [k \in Keys |-> {}]
    /\ entry = [k \in Keys |-> NoEntry]
    /\ cmd = [p \in Procs |-> Idle]
    /\ lock = {} /\ damaged = {}
    /\ commands = 0 /\ faults = 0

--------------------------------------------------------------------------------
(* The mount table. *)

Fails == faults < MaxFaults /\ faults' = faults + 1
Works == UNCHANGED faults

\* The submounts without the ones at some targets.
Without(mounts, targets) == {m \in mounts : m.at \notin targets}

\* A bind starts with the flags of its source: a per-slot master is mounted ro,
\* the collector's mount may be writable.
BindOf(c, b) == [at |-> b.at, what |-> b.what, ro |-> c.path = NoPath]

\* mount --bind onto a target of view/.  bind_ro leaves the propagation as it
\* is: where mounts are shared, the mount at the entry is a peer of the one that
\* holds view/ and receives a copy, with the flags of the source.
BindUnder(c, b) ==
    /\ view' = [view EXCEPT ![c.key] = Without(@, {b.at}) \cup {BindOf(c, b)}]
    /\ entry' =
        IF shared /\ entry[c.key].on
          THEN [entry EXCEPT ![c.key].kids =
                  Without(@, {b.at}) \cup {BindOf(c, b)}]
          ELSE entry

\* Mutant: only the entry is unmounted, view/ keeps its binds.
UnmountBothEntryOnly(k, stay, top) ==
    /\ entry' = [entry EXCEPT ![k] = NoEntry]
    /\ UNCHANGED view

\* unmount_tree of the entry and of view/, as far as both get: the mounts at the
\* targets stay, and the entry itself stays under a submount that stays, or when
\* its own umount fails (top).
UnmountBoth(k, stay, top) ==
    /\ view' = [view EXCEPT ![k] = Without(@, Targets \ stay)]
    /\ entry' = [entry EXCEPT ![k] =
                   LET kids == Without(@.kids, Targets \ stay)
                   IN  IF @.on /\ (kids # {} \/ top)
                         THEN [@ EXCEPT !.kids = kids]
                         ELSE NoEntry]

\* What unmounting both trees can leave behind: nothing, or, when umount fails,
\* some of the mounts.  The key is damaged exactly when something is left.
UnmountTrees(k) ==
    \/ /\ UnmountBoth(k, {}, FALSE)
       /\ damaged' = damaged \ {k}
       /\ Works
    \/ \E stay \in SUBSET Targets, top \in BOOLEAN :
         /\ UnmountBoth(k, stay, top)
         /\ view'[k] # {} \/ entry'[k].on
         /\ damaged' = damaged \cup {k}
         /\ Fails

\* mount(8) of a hidden master: it needs the fstab pair, and is skipped when the
\* master is there already.
MasterMounted(k) ==
    \/ k \in masters /\ UNCHANGED masters /\ Works
    \/ k \notin masters /\ k \in fstab /\ masters' = masters \cup {k} /\ Works

MasterMissing(k) ==
    /\ k \notin masters
    /\ UNCHANGED masters
    /\ IF k \in fstab THEN Fails ELSE Works

--------------------------------------------------------------------------------
(* Steps that the commands share. *)

Goes(p, step) == cmd' = [cmd EXCEPT ![p].at = step]
Ends(p) == cmd' = [cmd EXCEPT ![p] = Idle]
Working(p) == cmd[p].at # "idle"

\* What no mount command touches: files, and the other end.
Disk == <<records, fstab, policy, credentials, present, collectors, shared>>

\* save_views_state replaces the file as a whole.
SavesState(views) == records' = views /\ Works
SaveFails == UNCHANGED records /\ Fails

\* iter_view_records, put_view_record and drop_view_record.
ViewRecords(views) == {k \in Keys : views[k] # NoRecord}
PutRecord(views, k, r) == [views EXCEPT ![k] = r]
DropRecord(views, k) == [views EXCEPT ![k] = NoRecord]

\* The managed pair of a per-slot master.
WritesPair(k) == fstab' = fstab \cup {k}
RemovesPair(k) == fstab' = fstab \ {k}

\* Where a failed view leads: assign ends, restore goes on with the next view.
GivesUp(p) ==
    IF cmd[p].op = "restore"
      THEN cmd' = [cmd EXCEPT ![p].at = "next", ![p].failed = TRUE]
      ELSE Ends(p)

\* The plan of a user's view: the binds and the rooms that exist.
PlanRooms(u) == Slice[u] \cap present
Binds(k, u) ==
    [at : {Package}, what : IF k \in HasPackage THEN {u} ELSE {}]
      \cup {[at |-> r, what |-> r] : r \in PlanRooms(u)}

\* _validate_shared_master: the collector's path is a live mount of the share.
Usable(path) == path \in collectors

\* The source that the corpus is delivered from, and whether assign may use it.
DeliveryPath(k) == IF k \in PerSlotDelivery THEN NoPath ELSE policy[k]
PolicyAllows(k) ==
    /\ k \in SharedRequired => policy[k] # NoPath
    /\ policy[k] # NoPath => Usable(policy[k])

\* _shared_master_for_record: the recorded path is still the policy's.
StillShared(k, path) == policy[k] = path /\ Usable(path)

\* Whether a plan can be built: no rooms or paths at all are refused, and so are
\* granted paths that are all missing.
Planned(k, u) ==
    /\ Slice[u] # {}
    /\ k \in GrantedPaths => PlanRooms(u) # {}

\* build_view_plan, on the master that is mounted now.
BuildPlan(p) ==
    /\ cmd[p].at = "plan"
    /\ IF Planned(cmd[p].key, cmd[p].user)
         THEN cmd' = [cmd EXCEPT ![p].at = "bind",
                        ![p].todo = Binds(cmd[p].key, cmd[p].user),
                        ![p].bound = PlanRooms(cmd[p].user)]
         ELSE GivesUp(p)
    /\ UNCHANGED <<Disk, masters, view, entry, lock, damaged, commands,
                   faults>>

\* _apply_binds, one bind_ro: the package first.  A mount that is at the target
\* is torn down, whoever left it there; mount --bind follows.
BindOne(p) ==
    /\ cmd[p].at = "bind"
    /\ \E b \in cmd[p].todo :
         /\ b.at = Package \/ \A other \in cmd[p].todo : other.at # Package
         /\ \/ /\ BindUnder(cmd[p], b)
               /\ cmd' = [cmd EXCEPT ![p].at = "harden", ![p].now = b.at,
                            ![p].todo = @ \ {b}]
               /\ Works
            \/ /\ Goes(p, "rollback") /\ Fails /\ UNCHANGED <<view, entry>>
    /\ UNCHANGED <<Disk, masters, lock, damaged, commands>>

\* The rest of bind_ro: remount,ro,nosuid,nodev and the check of the result.
HardenOne(p) ==
    LET k == cmd[p].key
        Hardened(m) == IF m.at = cmd[p].now THEN [m EXCEPT !.ro = TRUE] ELSE m
    IN
    /\ cmd[p].at = "harden"
    /\ \/ /\ view' = [view EXCEPT ![k] = {Hardened(m) : m \in @}]
          /\ Goes(p, "bind") /\ Works
       \/ /\ Goes(p, "rollback") /\ Fails /\ UNCHANGED view
    /\ UNCHANGED <<Disk, masters, entry, lock, damaged, commands>>

\* The last bind: view/ onto the entry with --rbind, so that the submounts
\* follow.  A mount at the entry is torn down first.  Where mounts are shared,
\* umount of its submounts takes their peers under view/ along, and there is
\* nothing left to follow: over collects the keys this happened to.
BindEntry(p) ==
    LET k == cmd[p].key
        emptied == shared /\ entry[k].on
        kids == IF emptied THEN Without(view[k], {m.at : m \in entry[k].kids})
                ELSE view[k]
    IN
    /\ cmd[p].at = "bind" /\ cmd[p].todo = {}
    /\ \/ /\ view' = [view EXCEPT ![k] = kids]
          /\ entry' = [entry EXCEPT ![k] =
                         [on |-> TRUE, ro |-> FALSE, kids |-> kids]]
          /\ cmd' = [cmd EXCEPT ![p].at = "harden_entry",
                       ![p].over = @ \cup {x \in {k} : emptied}]
          /\ Works
       \/ /\ Goes(p, "rollback") /\ Fails /\ UNCHANGED <<view, entry>>
    /\ UNCHANGED <<Disk, masters, lock, damaged, commands>>

\* The remount of the entry.  Restore then updates the record it holds in
\* memory and goes on.
HardenEntry(p) ==
    LET k == cmd[p].key IN
    /\ cmd[p].at = "harden_entry"
    /\ \/ /\ entry' = [entry EXCEPT ![k].ro = TRUE]
          /\ IF cmd[p].op = "restore"
               THEN cmd' = [cmd EXCEPT ![p].at = "next",
                              ![p].loaded[k].bound = cmd[p].bound]
               ELSE Goes(p, "save")
          /\ Works
       \/ /\ Goes(p, "rollback") /\ Fails /\ UNCHANGED entry
    /\ UNCHANGED <<Disk, masters, view, lock, damaged, commands>>

\* fail(): both trees are unmounted, what cannot be is reported.
Rollback(p) ==
    /\ cmd[p].at = "rollback"
    /\ UnmountTrees(cmd[p].key)
    /\ GivesUp(p)
    /\ UNCHANGED <<Disk, masters, lock, commands>>

--------------------------------------------------------------------------------
(* preflight and assign *)

\* Mutant: paths that are missing pass although the content must be ready.
PreflightLenient(k, u, strict) ==
    /\ PolicyAllows(k)
    /\ IF policy[k] # NoPath THEN Planned(k, u)
       ELSE /\ k \in credentials
            /\ k \in masters => Planned(k, u)
            /\ strict => k \in masters

\* cmd_nas_view_preflight: what can be said of an assignment without mounting
\* anything.  The plan is made on the collector's mount, or on the slot's own
\* master if that happens to be mounted; strict is --require-content-ready.
Preflight(k, u, strict) ==
    /\ PolicyAllows(k)
    /\ IF policy[k] # NoPath THEN Planned(k, u)
       ELSE /\ k \in credentials
            /\ k \in masters => Planned(k, u)
            /\ strict => k \in masters
    /\ strict => PlanRooms(u) = Slice[u]

\* What assign refuses before its first write: a slot that has a view of the
\* corpus, a policy that names no master or one that is not usable, and a plan
\* that cannot be made on the collector's mount.
Admitted(k, u) ==
    /\ records[k] = NoRecord
    /\ PolicyAllows(k)
    /\ policy[k] # NoPath => Planned(k, u)

\* cmd_nas_view_assign up to its first write: the state file is loaded and the
\* master chosen.
BeginAssign(p, k, u) ==
    /\ ~Working(p) /\ commands < MaxCommands
    /\ Admitted(k, u)
    /\ cmd' = [cmd EXCEPT ![p] =
                 [Idle EXCEPT !.op = "assign", !.at = "master", !.key = k,
                    !.user = u, !.path = DeliveryPath(k), !.loaded = records,
                    !.todo = Binds(k, u), !.bound = PlanRooms(u),
                    !.approved = IF Preflight(k, u, TRUE) THEN faults ELSE @]]
    /\ commands' = commands + 1
    /\ UNCHANGED <<Disk, masters, view, entry, lock, damaged, faults>>

\* The fstab pair of a per-slot master is stamped, with the credential file
\* that is there.
StampFstab(p) ==
    /\ cmd[p].op = "assign" /\ cmd[p].at = "master" /\ cmd[p].path = NoPath
    /\ IF cmd[p].key \in credentials
         THEN WritesPair(cmd[p].key) /\ Goes(p, "mount_master")
         ELSE UNCHANGED fstab /\ Ends(p)
    /\ UNCHANGED <<records, policy, credentials, collectors, present, masters,
                   shared, view, entry, lock, damaged, commands, faults>>

\* _remove_stale_per_slot_registration: a stale pair is removed for a shared
\* master, unless its own master is still mounted.
RemoveStalePair(p) ==
    LET k == cmd[p].key IN
    /\ cmd[p].op = "assign" /\ cmd[p].at = "master" /\ cmd[p].path # NoPath
    /\ IF k \in fstab /\ k \in masters
         THEN UNCHANGED fstab /\ Ends(p)
         ELSE RemovesPair(k) /\ Goes(p, "bind")
    /\ UNCHANGED <<records, policy, credentials, collectors, present, masters,
                   shared, view, entry, lock, damaged, commands, faults>>

\* _mount_master of assign and of restore.
MountMaster(p) ==
    LET k == cmd[p].key IN
    /\ cmd[p].at = "mount_master"
    /\ \/ MasterMounted(k) /\ Goes(p, "plan")
       \/ MasterMissing(k) /\ GivesUp(p)
    /\ UNCHANGED <<Disk, view, entry, lock, damaged, commands>>

\* put_view_record and save_views_state: the file that was loaded at the start,
\* with the new record.  A save that fails takes the mounts down.
SaveAssigned(p) ==
    LET c == cmd[p] IN
    /\ c.op = "assign" /\ c.at = "save"
    /\ \/ /\ SavesState(PutRecord(c.loaded, c.key,
                  [user |-> c.user, path |-> c.path, bound |-> c.bound]))
          /\ Ends(p)
       \/ SaveFails /\ Goes(p, "rollback")
    /\ UNCHANGED <<fstab, policy, credentials, collectors, present, masters,
                   shared, view, entry, lock, damaged, commands>>

--------------------------------------------------------------------------------
(* detach *)

\* Mutant: the fstab pair goes before the mounts.
BeginDetachPairFirst(p, k) ==
    /\ ~Working(p) /\ commands < MaxCommands
    /\ cmd' = [cmd EXCEPT ![p] =
                 [Idle EXCEPT !.op = "detach", !.at = "unmount", !.key = k,
                    !.path = IF records[k] = NoRecord THEN NoPath
                             ELSE records[k].path,
                    !.loaded = records]]
    /\ commands' = commands + 1
    /\ RemovesPair(k)
    /\ UNCHANGED <<records, policy, credentials, present, collectors, masters,
                   shared, view, entry, lock, damaged, faults>>

\* cmd_nas_view_detach: the record, or the share on the command line, names the
\* view; without a record the mode is per_slot_cifs.
BeginDetach(p, k) ==
    /\ ~Working(p) /\ commands < MaxCommands
    /\ cmd' = [cmd EXCEPT ![p] =
                 [Idle EXCEPT !.op = "detach", !.at = "unmount", !.key = k,
                    !.path = IF records[k] = NoRecord THEN NoPath
                             ELSE records[k].path,
                    !.loaded = records]]
    /\ commands' = commands + 1
    /\ UNCHANGED <<Disk, masters, view, entry, lock, damaged, faults>>

\* The trees are unmounted, and the per-slot master, never a shared one; the
\* command ends there when a umount fails.
DetachUnmount(p) ==
    LET k == cmd[p].key IN
    /\ cmd[p].at = "unmount"
    /\ \/ /\ UnmountTrees(k)
          /\ masters' = IF cmd[p].path = NoPath THEN masters \ {k} ELSE masters
       \/ /\ UnmountBoth(k, {}, FALSE) /\ damaged' = damaged \ {k}
          /\ k \in masters /\ cmd[p].path = NoPath
          /\ Fails /\ UNCHANGED masters
    /\ IF faults' = faults THEN Goes(p, "fstab") ELSE Ends(p)
    /\ UNCHANGED <<Disk, lock, commands>>

DetachFstab(p) ==
    /\ cmd[p].at = "fstab"
    /\ IF cmd[p].path = NoPath THEN RemovesPair(cmd[p].key) ELSE UNCHANGED fstab
    /\ Goes(p, "drop")
    /\ UNCHANGED <<records, policy, credentials, collectors, present, masters,
                   shared, view, entry, lock, damaged, commands, faults>>

\* drop_view_record and save_views_state, if there was a record.
DetachSave(p) ==
    LET c == cmd[p] IN
    /\ c.at = "drop"
    /\ \/ c.key \notin ViewRecords(c.loaded) /\ SavesState(records)
       \/ /\ c.key \in ViewRecords(c.loaded)
          /\ SavesState(DropRecord(c.loaded, c.key)) \/ SaveFails
    /\ Ends(p)
    /\ UNCHANGED <<fstab, policy, credentials, collectors, present, masters,
                   shared, view, entry, lock, damaged, commands>>

--------------------------------------------------------------------------------
(* restore *)

\* cmd_nas_view_restore loads the state before it takes the lock.
BeginRestore(p) ==
    /\ ~Working(p) /\ commands < MaxCommands
    /\ cmd' = [cmd EXCEPT ![p] =
                 [Idle EXCEPT !.op = "restore", !.at = "lock",
                    !.loaded = records,
                    !.queue = ViewRecords(records)]]
    /\ commands' = commands + 1
    /\ UNCHANGED <<Disk, masters, view, entry, lock, damaged, faults>>

TakeLock(p) ==
    /\ cmd[p].at = "lock" /\ lock = {}
    /\ lock' = {p} /\ Goes(p, "mount_all")
    /\ UNCHANGED <<Disk, masters, view, entry, damaged, commands, faults>>

\* wait_for_nas_ready: the NAS answers within the wait and mount -a -t cifs
\* mounts every master of fstab, or it does not and some are mounted.
NasReady ==
    masters' = masters \cup fstab /\ collectors' = MasterPaths /\ Works
NasLate ==
    /\ masters' \in {masters \cup some : some \in SUBSET fstab}
    /\ UNCHANGED collectors /\ Fails

\* The mounts of fstab, before the views.
MountAll(p) ==
    /\ cmd[p].at = "mount_all"
    /\ \/ NasReady /\ Goes(p, "next")
       \/ NasLate /\ cmd' = [cmd EXCEPT ![p].at = "next", ![p].failed = TRUE]
    /\ UNCHANGED <<records, fstab, policy, credentials, present, shared, view,
                   entry, lock, damaged, commands>>

\* Mutant: a view whose master is not usable is passed over silently.
RestoreNextSilent(p, k) ==
    LET c == cmd[p]
        r == c.loaded[k]
        taken == [c EXCEPT !.queue = @ \ {k}, !.key = k, !.user = r.user,
                           !.path = r.path]
    IN
    /\ c.at = "next" /\ k \in c.queue
    /\ cmd' = [cmd EXCEPT ![p] =
                 IF r.path = NoPath THEN [taken EXCEPT !.at = "mount_master"]
                 ELSE IF StillShared(k, r.path)
                   THEN [taken EXCEPT !.at = "plan"]
                   ELSE taken]
    /\ UNCHANGED <<Disk, masters, view, entry, lock, damaged, commands,
                   faults>>

\* _restore_views, one record: a shared master must still be the one that the
\* policy names, and be mounted.
RestoreNext(p, k) ==
    LET c == cmd[p]
        r == c.loaded[k]
        taken == [c EXCEPT !.queue = @ \ {k}, !.key = k, !.user = r.user,
                           !.path = r.path]
    IN
    /\ c.at = "next" /\ k \in c.queue
    /\ cmd' = [cmd EXCEPT ![p] =
                 IF r.path = NoPath THEN [taken EXCEPT !.at = "mount_master"]
                 ELSE IF StillShared(k, r.path)
                   THEN [taken EXCEPT !.at = "plan"]
                   ELSE [taken EXCEPT !.failed = TRUE]]
    /\ UNCHANGED <<Disk, masters, view, entry, lock, damaged, commands,
                   faults>>

\* What restore loaded, with the rooms it bound, is saved over the file.
FinishRestore(p) ==
    LET c == cmd[p] IN
    /\ c.at = "next" /\ c.queue = {}
    /\ \/ ViewRecords(c.loaded) = {} /\ SavesState(records)
       \/ ViewRecords(c.loaded) # {} /\ (SavesState(c.loaded) \/ SaveFails)
    /\ lock' = {} /\ Ends(p)
    /\ UNCHANGED <<fstab, policy, credentials, collectors, present, masters,
                   shared, view, entry, damaged, commands>>

--------------------------------------------------------------------------------
(* status, which only reads *)

\* The grant evidence of a view: under the entry there are exactly the paths
\* that the last mutation bound.
GrantsGreen(k) ==
    k \in GrantedPaths =>
      {m.at : m \in entry[k].kids} = records[k].bound /\ records[k].bound # {}

\* The master and the entry of a recorded view are mounted, read-only where they
\* must be.
Mounted(k) ==
    /\ IF records[k].path = NoPath THEN k \in masters
       ELSE StillShared(k, records[k].path)
    /\ entry[k].on /\ entry[k].ro

\* What brings the master of a recorded view back at boot: its own pair, or the
\* collector's entry on the path that the policy still names.
BootEntry(k) ==
    IF records[k].path = NoPath THEN k \in fstab
    ELSE policy[k] = records[k].path

\* The issues that status ends with: views that are not in order, views that
\* will not come back, and pairs of fstab that are not mounted, which may belong
\* to no record at all.
Issues ==
    LET Found(code, keys) == IF keys = {} THEN {} ELSE {code}
        viewed == ViewRecords(records)
    IN  Found("view_unhealthy",
              {k \in viewed : ~Mounted(k) \/ ~GrantsGreen(k)})
          \cup Found("boot_fstab_missing", {k \in viewed : ~BootEntry(k)})
          \cup Found("managed_fstab_unmounted", fstab \ masters)

--------------------------------------------------------------------------------
(* The environment. *)

\* A command is killed: its locks go, the mounts stay.
Kill(p) ==
    LET c == cmd[p] IN
    /\ Working(p) /\ Fails
    /\ damaged' =
        IF c.at \in {"harden", "harden_entry", "save", "rollback"}
             \/ (c.at = "bind" /\ (view[c.key] # {} \/ entry[c.key].on))
          THEN damaged \cup {c.key} ELSE damaged
    /\ lock' = lock \ {p}
    /\ Ends(p)
    /\ UNCHANGED <<Disk, masters, view, entry, commands>>

\* A power cut: mounts and processes are gone, the files stay, and the NAS may
\* come back after the host.
PowerCut ==
    /\ Fails
    /\ masters' = {} /\ collectors' = {}
    /\ view' = [k \in Keys |-> {}] /\ entry' = [k \in Keys |-> NoEntry]
    /\ cmd' = [p \in Procs |-> Idle] /\ lock' = {} /\ damaged' = {}
    /\ UNCHANGED <<records, fstab, policy, credentials, present, shared,
                   commands>>

\* The NAS gains or loses a directory.
FolderChanges(r) ==
    /\ Fails
    /\ present' = (present \ {r}) \cup ({r} \ present)
    /\ UNCHANGED <<records, fstab, policy, credentials, collectors, masters,
                   shared, view, entry, cmd, lock, damaged, commands>>

\* An administrator moves the collector or takes it out of the policy.
PolicyChanges(k, path) ==
    /\ Fails
    /\ policy' = [policy EXCEPT ![k] = path] /\ policy' # policy
    /\ UNCHANGED <<records, fstab, credentials, present, collectors, masters,
                   shared, view, entry, cmd, lock, damaged, commands>>

Next ==
    \/ \E p \in Procs :
         \/ \E k \in Keys, u \in Users : BeginAssign(p, k, u)
         \/ \E k \in Keys : BeginDetach(p, k) \/ RestoreNext(p, k)
         \/ BeginRestore(p) \/ TakeLock(p) \/ MountAll(p) \/ FinishRestore(p)
         \/ StampFstab(p) \/ RemoveStalePair(p) \/ MountMaster(p)
         \/ BuildPlan(p) \/ BindOne(p) \/ HardenOne(p) \/ BindEntry(p)
         \/ HardenEntry(p) \/ Rollback(p) \/ SaveAssigned(p)
         \/ DetachUnmount(p) \/ DetachFstab(p) \/ DetachSave(p)
         \/ Kill(p)
    \/ PowerCut
    \/ \E r \in Rooms : FolderChanges(r)
    \/ \E k \in Keys, path \in MasterPaths \cup {NoPath} :
         PolicyChanges(k, path)

Spec == Init /\ [][Next]_vars

--------------------------------------------------------------------------------
(* Properties. *)

\* The state is well formed.
TypeOK ==
    /\ records \in [Keys -> Record \cup {NoRecord}]
    /\ fstab \subseteq Keys /\ masters \subseteq Keys
    /\ policy \in [Keys -> MasterPaths \cup {NoPath}]
    /\ credentials \subseteq Keys
    /\ collectors \subseteq MasterPaths /\ present \subseteq Rooms
    /\ shared \in BOOLEAN
    /\ view \in [Keys -> SUBSET Mount]
    /\ entry \in [Keys -> Entry]
    /\ cmd \in [Procs -> Command]
    /\ lock \subseteq Procs /\ damaged \subseteq Keys
    /\ commands \in 0 .. MaxCommands /\ faults \in 0 .. MaxFaults

\* The commands that are working on a key.
WorkingOn(k) == {p \in Procs :
    /\ Working(p) /\ cmd[p].key = k
    /\ cmd[p].at \notin {"next", "lock", "mount_all"}}
Busy(k) == WorkingOn(k) # {}

\* What is mounted outside a running command is in order, however assign,
\* detach, restore and their failures followed each other.  It has its record:
\* assign mounts first and records last, and takes the mounts down when the
\* record cannot be saved; detach unmounts first and drops the record last (no
\* status would show a view without one).  It is read-only, although every mount
\* is writable between mount --bind and its remount.  And it has what brings its
\* master back after a reboot, unless the policy no longer names that master,
\* which status reports.
MountedIsManaged ==
    /\ TypeOK
    /\ \A k \in Keys : entry[k].on /\ ~Busy(k) /\ k \notin damaged =>
         /\ records[k] # NoRecord
         /\ entry[k].ro /\ \A m \in entry[k].kids : m.ro
         /\ records[k].path \in {NoPath, policy[k]} => BootEntry(k)

\* The identities a key's mounts may belong to: the recorded one, and the one
\* that a running assign or restore binds.
Owners(k) ==
    {u \in Users : records[k] # NoRecord /\ records[k].user = u}
      \cup {cmd[p].user : p \in {q \in WorkingOn(k) : cmd[q].op # "detach"}}

\* A view shows one user's slice and nothing of another's, at every moment:
\* what an earlier assignment mounted is gone before the next one binds.
OneUsersSlice ==
    \A k \in Keys \ damaged :
      /\ \A m \in view[k] \cup entry[k].kids :
           \E u \in Owners(k) : m.what \in {u} \cup Slice[u]
      /\ Cardinality(Owners(k)) <= 1

\* The entry shows what a record says is bound.
Shows(k, r, e) ==
    /\ e.on /\ e.ro
    /\ r.bound \cup (IF k \in HasPackage THEN {r.user} ELSE {})
         \subseteq {m.what : m \in e.kids}

\* A command that reports ok has told the truth: after assign and restore the
\* slot sees what the records say and status finds the mounts in order, unless
\* the policy moved the collector meanwhile; after detach nothing of the view is
\* left.  After restore every pair of fstab is mounted, a stale one too; after
\* assign the evidence is green.  (Not so after a restore of a mounted view that
\* lost a directory, or where a killed assign left binds: neither is cleared,
\* and the evidence shows it.)
\* One ok is not true.  Where mounts are shared, a restore (or an assign after a
\* killed one) that finds the entry mounted leaves it empty: bind_ro tears the
\* entry down after it has rebuilt the binds under view/, and they go with it.
\* The entry is read-only and shows nothing; status notices it for granted paths
\* and for no other corpus.  A restore after a boot, or where mounts are private,
\* is not affected.
OkIsTrue ==
    [][\A p \in Procs : cmd'[p] = Idle /\ faults' = faults =>
         LET InOrder(k) ==
               records'[k].path \in {NoPath, policy[k]}
                 => Mounted(k)' /\ BootEntry(k)'
             Stands(k) ==
               /\ InOrder(k)
               /\ IF k \in cmd[p].over
                    THEN /\ entry'[k].on /\ entry'[k].kids = {}
                         /\ GrantsGreen(k)' <=> k \notin GrantedPaths
                    ELSE Shows(k, records'[k], entry'[k])
         IN
         /\ cmd[p].op = "assign" /\ cmd[p].at = "save" =>
              \A k \in {cmd[p].key} :
                Stands(k) /\ (k \notin damaged => GrantsGreen(k)')
         /\ cmd[p].at = "next" /\ ~cmd[p].failed =>
              /\ \A k \in Keys : cmd[p].loaded[k] # NoRecord => Stands(k)
              /\ "managed_fstab_unmounted" \notin Issues'
         /\ cmd[p].at = "drop" =>
              LET k == cmd[p].key IN
              /\ records'[k] = NoRecord /\ ~entry'[k].on /\ view'[k] = {}
              /\ cmd[p].path = NoPath => k \notin fstab' \cup masters']_vars

\* A preflight that demands the content keeps its word.  An assignment that it
\* passed is admitted and, if nothing fails or changes meanwhile, binds and
\* records the whole slice: the mounts are never begun and taken down again.
\* Two things it does not look at can still refuse the assignment before the
\* first mount: the slot's own master still mounted under a collector's policy,
\* and no credential where a collector's corpus is delivered by the slot's own
\* master.
PreflightHolds ==
    [][/\ \A k \in Keys, u \in Users :
            records[k] = NoRecord /\ Preflight(k, u, TRUE) => Admitted(k, u)
       /\ \A p \in {q \in Procs : cmd[q].op = "assign"} :
            cmd'[p] = Idle /\ cmd[p].approved = faults /\ faults' = faults =>
              LET c == cmd[p] IN
              \/ c.at = "save" /\ records'[c.key].bound = Slice[c.user]
              \/ /\ c.at = "master"
                 /\ IF c.path = NoPath
                      THEN c.key \in PerSlotDelivery \ credentials
                      ELSE c.key \in masters]_vars

=============================================================================
