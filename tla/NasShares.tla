------------------------------- MODULE NasShares -------------------------------
(***************************************************************************)
(* The NAS shares of one slot: requests and credentials of the customer,   *)
(* `opsctl nas mount`, `approve-auto`, `unmount`, `remove`, `credential    *)
(* migrate-to-root` and `workspace-assign`, and the boot.  A share is      *)
(* registered by a managed pair in /etc/fstab that names its credential    *)
(* file.  A writable share (OCn) has its credential in the slot's home, a  *)
(* corpus share in the root vault.  The container sees one writable mount: *)
(* the workspace is a bind of it, stamped in fstab as well.                *)
(***************************************************************************)
EXTENDS Naturals, FiniteSets

CONSTANTS
    Writable,       \* the OCn shares
    Corpus,         \* the other shares, mounted read-only
    NoShare,        \* the workspace is not bound, or has no stamp
    MaxMounts,      \* max_mounts of the slot's account
    MaxCommands,    \* how many commands are started
    MaxFaults       \* how many calls fail, kills and power cuts happen

Shares == Writable \cup Corpus

ASSUME SharesAssumption ==
    /\ Writable \cap Corpus = {} /\ NoShare \notin Shares
    /\ MaxMounts \in Nat /\ MaxCommands \in Nat /\ MaxFaults \in Nat

VARIABLES
    grants,     \* the shares that nas-policy.yaml grants
    watching,   \* approve-auto runs
    pending,    \* the request files
    vault, home,\* the credential files: of root, and of the customer
    fstab,      \* where the managed pair of a share finds its credential
    mounted,    \* the shares that are mounted
    workspace,  \* the share that the workspace shows
    stamp,      \* the share that the workspace's fstab pair binds
    local,      \* the unbound workspace directory has entries
    cmd,        \* the command in flight
    stuck,      \* history: the workspace could not be brought in line, and has
                \* not been since
    commands, faults

vars == <<grants, watching, pending, vault, home, fstab, mounted, workspace,
          stamp, local, cmd, stuck, commands, faults>>

Ops == {"none", "mount", "approve", "unmount", "remove", "migrate", "assign",
        "boot"}
Steps == {"idle", "prepare", "mount", "choose", "bind", "stamp", "clear",
          "unstamp", "unmount", "fstab", "keys", "repoint", "mount_all",
          "restore"}
Command == [op : Ops, at : Steps, share : Shares \cup {NoShare},
            key : {"none", "vault", "home"}, to : Shares \cup {NoShare}]
Idle == [op |-> "none", at |-> "idle", share |-> NoShare, key |-> "none",
         to |-> NoShare]

\* A pair that an earlier build stamped for a corpus share may still name the
\* copy in the customer's home.
Init ==
    /\ grants = Shares /\ watching = FALSE
    /\ pending = {} /\ vault = {}
    /\ home \in SUBSET Corpus
    /\ fstab = [s \in Shares |-> IF s \in home THEN "home" ELSE "none"]
    /\ mounted = {} /\ workspace = NoShare /\ stamp = NoShare /\ local = FALSE
    /\ cmd = Idle /\ stuck = FALSE /\ commands = 0 /\ faults = 0

--------------------------------------------------------------------------------
(* Helpers. *)

Fails == faults < MaxFaults /\ faults' = faults + 1
Works == UNCHANGED faults
Goes(step) == cmd' = [cmd EXCEPT !.at = step]
Ends == cmd' = Idle

KeyPresent(s, place) ==
    \/ place = "vault" /\ s \in vault
    \/ place = "home" /\ s \in home

\* migrate_customer_credential_to_root: the vault gets the secret unless it has
\* one, and the customer's copy goes.
Migrated(s) == vault' = vault \cup ({s} \cap home) /\ home' = home \ {s}

RwMounts == mounted \cap Writable

Begin(op, step, s, key) ==
    /\ cmd.op = "none" /\ commands < MaxCommands
    /\ cmd' = [Idle EXCEPT !.op = op, !.at = step, !.share = s, !.key = key]
    /\ commands' = commands + 1

Host == <<grants, watching>>
Secrets == <<Host, vault, home>>
Files == <<Secrets, pending>>
Workspace == <<workspace, stamp, local>>

--------------------------------------------------------------------------------
(* The customer, the policy and the agent. *)

\* cmd_nas_request
Request(s) ==
    /\ commands < MaxCommands /\ commands' = commands + 1
    /\ s \notin pending /\ pending' = pending \cup {s}
    /\ UNCHANGED <<Host, vault, home, fstab, mounted, Workspace, cmd, stuck,
                   faults>>

\* cmd_nas_credential_set: any share, also a corpus.
CredentialSet(s) ==
    /\ commands < MaxCommands /\ commands' = commands + 1
    /\ home' = home \cup {s}
    /\ UNCHANGED <<Host, pending, vault, fstab, mounted, Workspace, cmd,
                   stuck, faults>>

\* The policy is edited.
PolicyChanges(s) ==
    /\ Fails /\ grants' = (grants \ {s}) \cup ({s} \ grants)
    /\ UNCHANGED <<watching, pending, vault, home, fstab, mounted, Workspace, cmd,
                   stuck, commands>>

\* The agent writes into the workspace directory while nothing is bound on it.
AgentWrites ==
    /\ Fails /\ workspace = NoShare /\ local' = TRUE
    /\ UNCHANGED <<Files, fstab, mounted, workspace, stamp, cmd, stuck,
                   commands>>

--------------------------------------------------------------------------------
(* mount and approve-auto *)

\* cmd_nas_mount with a password: it goes to the vault for a corpus share, and
\* the customer's copy goes; to the customer's home for a writable one.
MountWithPassword(s) ==
    /\ Begin("mount", "prepare", s, IF s \in Corpus THEN "vault" ELSE "home")
    /\ IF s \in Corpus
         THEN vault' = vault \cup {s} /\ home' = home \ {s}
         ELSE home' = home \cup {s} /\ UNCHANGED vault
    /\ UNCHANGED <<Host, pending, fstab, mounted, Workspace, stuck, faults>>

\* Which stored credential a command uses.
StoredKey(s) ==
    IF s \in Corpus THEN "vault" ELSE IF s \in home THEN "home" ELSE "vault"

\* cmd_nas_mount without one: a corpus copy in the home is migrated first; a
\* writable share falls back to the vault.
MountWithStoredKey(s) ==
    /\ s \in home \cup vault
    /\ Begin("mount", "prepare", s, StoredKey(s))
    /\ IF s \in Corpus THEN Migrated(s) ELSE UNCHANGED <<vault, home>>
    /\ UNCHANGED <<Host, pending, fstab, mounted, Workspace, stuck, faults>>

\* The credential that approve-auto waits for: it never takes root's for a
\* writable share.
HasKey(s) == s \in home \/ (s \in Corpus /\ s \in vault)

\* approve-auto is started, with --watch or for one round.
StartWatch ==
    /\ cmd.op = "none" /\ ~watching /\ watching' = TRUE
    /\ UNCHANGED <<grants, pending, vault, home, fstab, mounted, Workspace, cmd,
                   stuck, commands, faults>>

\* Mutant: a request without a grant is left in place.
ApproveOnly(s) ==
    /\ watching /\ cmd.op = "none" /\ s \in pending
    /\ s \in grants /\ HasKey(s)
    /\ IF s \in Corpus THEN Migrated(s) ELSE UNCHANGED <<vault, home>>
    /\ cmd' = [Idle EXCEPT !.op = "approve", !.at = "prepare",
                           !.share = s, !.key = StoredKey(s)]
    /\ UNCHANGED <<Host, pending, fstab, mounted, Workspace, stuck, commands,
                   faults>>

\* _approve_auto_once, one request of the watch loop.  It waits for a
\* credential; a corpus copy is migrated.
Approve(s) ==
    /\ watching /\ cmd.op = "none" /\ s \in pending
    /\ \/ /\ s \notin grants
          /\ pending' = pending \ {s}
          /\ UNCHANGED <<cmd, vault, home>>
       \/ /\ s \in grants /\ HasKey(s)
          /\ IF s \in Corpus THEN Migrated(s) ELSE UNCHANGED <<vault, home>>
          /\ cmd' = [Idle EXCEPT !.op = "approve", !.at = "prepare",
                                 !.share = s, !.key = StoredKey(s)]
          /\ UNCHANGED pending
    /\ UNCHANGED <<Host, fstab, mounted, Workspace, stuck, commands, faults>>

\* move_request: the request that approve-auto worked on leaves the queue, as
\* approved or as rejected, when the command is through with it.
Concludes ==
    /\ Ends
    /\ pending' = IF cmd.op = "approve" THEN pending \ {cmd.share} ELSE pending

\* prepare_mount_entry: policy, credential, max_mounts, then the fstab pair.
Prepare ==
    LET s == cmd.share
        allowed == /\ s \in grants /\ KeyPresent(s, cmd.key)
                   /\ s \in mounted \/ Cardinality(mounted) < MaxMounts
    IN
    /\ cmd.at = "prepare"
    /\ \/ /\ allowed
          /\ fstab' = [fstab EXCEPT ![s] = cmd.key]
          /\ Goes("mount") /\ Works /\ UNCHANGED pending
       \/ ~allowed /\ Concludes /\ Works /\ UNCHANGED fstab
       \/ allowed /\ Concludes /\ Fails /\ UNCHANGED fstab
    /\ UNCHANGED <<Secrets, mounted, Workspace, stuck, commands>>

\* mount_prepared_share: a share that is there already is taken as it is
\* (cmd_nas_mount then ends, approve-auto goes on); otherwise mount(8), and the
\* pair is removed again when it fails, unless that fails too or the operator
\* asked to keep it.
MountShare ==
    LET s == cmd.share
        after == IF s \in Writable THEN Goes("choose") /\ UNCHANGED pending
                 ELSE Concludes
    IN
    /\ cmd.at = "mount"
    /\ \/ /\ s \in mounted /\ UNCHANGED <<mounted, fstab>> /\ Works
          /\ IF cmd.op = "approve" THEN after ELSE Concludes
       \/ /\ s \notin mounted /\ KeyPresent(s, fstab[s])
          /\ mounted' = mounted \cup {s} /\ after
          /\ UNCHANGED fstab /\ Works
       \/ /\ s \notin mounted /\ Fails
          /\ \E kept \in {fstab[s], "none"} : fstab' = [fstab EXCEPT ![s] = kept]
          /\ Concludes /\ UNCHANGED mounted
    /\ UNCHANGED <<Secrets, Workspace, stuck, commands>>

--------------------------------------------------------------------------------
(* The workspace *)

\* reconcile_workspace_bind: one writable mount is bound, none clears the
\* workspace, several leave it as it is.
ChooseWorkspace ==
    /\ cmd.at = "choose"
    /\ \/ /\ Cardinality(RwMounts) = 1
          /\ cmd' = [cmd EXCEPT !.at = "bind",
                                !.to = CHOOSE s \in RwMounts : TRUE]
          /\ UNCHANGED pending
       \/ RwMounts = {} /\ Goes("clear") /\ UNCHANGED pending
       \/ Cardinality(RwMounts) > 1 /\ Concludes
    /\ UNCHANGED <<Secrets, fstab, mounted, Workspace, stuck, commands, faults>>

\* _release_workspace: what is bound is busy and stays.
ReleaseFails ==
    /\ workspace # NoShare /\ UNCHANGED workspace
    /\ Fails /\ stuck' = TRUE

\* assign_workspace_bind: the source must be mounted; entries that a bind would
\* hide are never hidden; what is bound is released first.
BindWorkspace ==
    LET s == cmd.to IN
    /\ cmd.at = "bind"
    /\ \/ /\ s \in mounted /\ (workspace = NoShare => ~local)
          /\ workspace' = s /\ Goes("stamp") /\ Works
          /\ UNCHANGED <<stuck, pending>>
       \/ /\ s \notin mounted \/ (workspace = NoShare /\ local)
          /\ Concludes /\ Works /\ UNCHANGED <<workspace, stuck>>
       \/ /\ s \in mounted /\ workspace # s /\ Concludes
          /\ \/ ReleaseFails
             \/ workspace' = NoShare /\ UNCHANGED stuck /\ Fails
    /\ UNCHANGED <<Secrets, fstab, mounted, stamp, local, commands>>

\* write_managed_workspace_bind_entry, after the bind.  It may raise: the bind
\* stays, under the stamp of before.
StampWorkspace ==
    /\ cmd.at = "stamp" /\ Concludes
    /\ \/ stamp' = cmd.to /\ stuck' = FALSE /\ Works
       \/ UNCHANGED stamp /\ stuck' = TRUE /\ Fails
    /\ UNCHANGED <<Secrets, fstab, mounted, workspace, local, commands>>

\* clear_workspace_bind: release, then the stamp.
ClearWorkspace ==
    /\ cmd.at = "clear"
    /\ \/ /\ workspace' = NoShare /\ Goes("unstamp") /\ Works
          /\ UNCHANGED <<stuck, pending>>
       \/ ReleaseFails /\ Concludes
    /\ UNCHANGED <<Secrets, fstab, mounted, stamp, local, commands>>

UnstampWorkspace ==
    /\ cmd.at = "unstamp" /\ Concludes /\ stuck' = FALSE
    /\ \/ stamp' = NoShare /\ Works
       \/ UNCHANGED stamp /\ Fails
    /\ UNCHANGED <<Secrets, fstab, mounted, workspace, local, commands>>

\* cmd_nas_workspace_assign: the explicit choice.
WorkspaceAssign(s) ==
    /\ s \in Writable
    /\ cmd.op = "none" /\ commands < MaxCommands /\ commands' = commands + 1
    /\ cmd' = [Idle EXCEPT !.op = "assign", !.at = "bind", !.share = s,
                           !.to = s]
    /\ UNCHANGED <<Files, fstab, mounted, Workspace, stuck, faults>>

--------------------------------------------------------------------------------
(* unmount, remove and migrate-to-root *)

BeginUnmount(s) ==
    /\ s \in mounted /\ Begin("unmount", "unmount", s, "none")
    /\ UNCHANGED <<Files, fstab, mounted, Workspace, stuck, faults>>

BeginRemove(s) ==
    /\ Begin("remove", "unmount", s, "none")
    /\ UNCHANGED <<Files, fstab, mounted, Workspace, stuck, faults>>

\* Mutant: unmount does not reconcile the workspace.
UnmountShareOnly ==
    LET s == cmd.share IN
    /\ cmd.at = "unmount"
    /\ mounted' = mounted \ {s}
    /\ IF cmd.op = "remove" THEN Goes("fstab") ELSE Ends
    /\ UNCHANGED <<Files, fstab, Workspace, stuck, commands, faults>>

\* umount: unmount keeps the registration, remove goes on with the pair and the
\* keys.  A failed umount ends either command.
UnmountShare ==
    LET s == cmd.share IN
    /\ cmd.at = "unmount"
    /\ \/ /\ mounted' = mounted \ {s} /\ Works
          /\ IF cmd.op = "remove" THEN Goes("fstab")
             ELSE IF s \in Writable THEN Goes("choose") ELSE Ends
       \/ s \in mounted /\ Fails /\ Ends /\ UNCHANGED mounted
    /\ UNCHANGED <<Files, fstab, Workspace, stuck, commands>>

\* Mutant: the pair stays where nothing is mounted.
RemovePairMounted ==
    /\ cmd.at = "fstab"
    /\ fstab' = [fstab EXCEPT ![cmd.share] =
                   IF cmd.share \in mounted THEN "none" ELSE @]
    /\ Goes("keys")
    /\ UNCHANGED <<Files, mounted, Workspace, stuck, commands, faults>>

\* An error here or with the keys ends the command: the share is unmounted and
\* the workspace is left as it is.
RemoveFails == Fails /\ Ends /\ stuck' = TRUE

RemovePair ==
    /\ cmd.at = "fstab"
    /\ \/ /\ fstab' = [fstab EXCEPT ![cmd.share] = "none"]
          /\ Goes("keys") /\ Works /\ UNCHANGED stuck
       \/ RemoveFails /\ UNCHANGED fstab
    /\ UNCHANGED <<Files, mounted, Workspace, commands>>

\* delete_official_credentials: root's file, then the customer's.
DeleteKeys ==
    /\ cmd.at = "keys"
    /\ \/ /\ vault' = vault \ {cmd.share} /\ home' = home \ {cmd.share}
          /\ IF cmd.share \in Writable THEN Goes("choose") ELSE Ends
          /\ Works /\ UNCHANGED stuck
       \/ /\ vault' \in {vault, vault \ {cmd.share}} /\ UNCHANGED home
          /\ RemoveFails
    /\ UNCHANGED <<Host, pending, fstab, mounted, Workspace, commands>>

\* cmd_nas_credential_migrate_root: first the file, then the pair.
MigrateKey(s) ==
    /\ s \in Corpus /\ s \in home \cup vault
    /\ Begin("migrate", "repoint", s, "vault")
    /\ Migrated(s)
    /\ UNCHANGED <<Host, pending, fstab, mounted, Workspace, stuck, faults>>

\* update_managed_fstab_credentials: only where there is a pair.
Repoint ==
    /\ cmd.at = "repoint" /\ Ends
    /\ \/ /\ fstab' = [fstab EXCEPT ![cmd.share] =
                         IF @ = "none" THEN "none" ELSE "vault"]
          /\ Works
       \/ UNCHANGED fstab /\ Fails
    /\ UNCHANGED <<Files, mounted, Workspace, stuck, commands>>

--------------------------------------------------------------------------------
(* Kill, power cut and boot *)

\* The command in flight is killed, the watch loop with it if it is its own; or
\* approve-auto ends between two requests.
Kill ==
    /\ Fails
    /\ \/ /\ cmd.op # "none" /\ Ends /\ stuck' = TRUE
          /\ watching' = (watching /\ cmd.op # "approve")
       \/ /\ cmd.op = "none" /\ watching /\ watching' = FALSE
          /\ UNCHANGED <<cmd, stuck>>
    /\ UNCHANGED <<grants, pending, vault, home, fstab, mounted, Workspace,
                   commands>>

\* Nothing starts approve-auto at boot.
PowerCut ==
    /\ Fails
    /\ mounted' = {} /\ workspace' = NoShare /\ stuck' = FALSE
    /\ watching' = FALSE
    /\ cmd' = [Idle EXCEPT !.op = "boot", !.at = "mount_all"]
    /\ UNCHANGED <<grants, pending, vault, home, fstab, stamp, local, commands>>

\* mount -a: every registered share whose credential is there, or some.
BootMounts ==
    LET able == {s \in Shares : KeyPresent(s, fstab[s])} IN
    /\ cmd.at = "mount_all"
    /\ \/ mounted' = able /\ Works
       \/ mounted' \in SUBSET able /\ Fails
    /\ Goes("restore")
    /\ UNCHANGED <<Files, fstab, Workspace, stuck, commands>>

\* restore_managed_workspace_binds: the stamp is reproduced if its source is
\* mounted; it is never cleared or rewritten.
BootWorkspace ==
    /\ cmd.at = "restore"
    /\ \/ stamp \in mounted /\ ~local /\ workspace' = stamp /\ Works
       \/ ~(stamp \in mounted /\ ~local) /\ UNCHANGED workspace /\ Works
       \/ stamp \in mounted /\ ~local /\ UNCHANGED workspace /\ Fails
    /\ Ends
    /\ UNCHANGED <<Files, fstab, mounted, stamp, local, stuck, commands>>

--------------------------------------------------------------------------------
CommandStep ==
    \/ Prepare \/ MountShare \/ ChooseWorkspace \/ BindWorkspace
    \/ StampWorkspace \/ ClearWorkspace \/ UnstampWorkspace \/ UnmountShare
    \/ RemovePair \/ DeleteKeys \/ Repoint \/ BootMounts \/ BootWorkspace

Next ==
    \/ \E s \in Shares :
         \/ Request(s) \/ CredentialSet(s) \/ PolicyChanges(s)
         \/ MountWithPassword(s) \/ MountWithStoredKey(s) \/ Approve(s)
         \/ BeginUnmount(s) \/ BeginRemove(s) \/ MigrateKey(s)
         \/ WorkspaceAssign(s)
    \/ CommandStep
    \/ StartWatch \/ AgentWrites \/ Kill \/ PowerCut

\* A command that has started goes on, and the watch loop of approve-auto, while
\* it runs, visits every request on every tick.
Spec == /\ Init /\ [][Next]_vars
        /\ WF_vars(CommandStep)
        /\ \A s \in Shares : WF_vars(Approve(s))

--------------------------------------------------------------------------------
(* Properties. *)

\* The state is well formed; only a writable share is ever bound or stamped.
TypeOK ==
    /\ grants \subseteq Shares /\ watching \in BOOLEAN
    /\ pending \subseteq Shares
    /\ vault \subseteq Shares /\ home \subseteq Shares
    /\ fstab \in [Shares -> {"none", "vault", "home"}]
    /\ mounted \subseteq Shares
    /\ workspace \in Writable \cup {NoShare} /\ stamp \in Writable \cup {NoShare}
    /\ local \in BOOLEAN /\ stuck \in BOOLEAN
    /\ cmd \in Command
    /\ commands \in 0 .. MaxCommands /\ faults \in 0 .. MaxFaults

\* The workspace never shows a share that was unmounted or removed: the command
\* that changed the writable mounts rebinds or clears it.  And what it shows is
\* what the next boot will show: the stamp follows every rebind, by a command,
\* by the watch loop and by the boot itself.  Where a command was killed, a
\* release or a stamp failed, or remove ended with an error after its umount,
\* the workspace may lag behind; the next command that reconciles it puts it
\* right.  (With two or more writable mounts left the code leaves the choice to
\* workspace-assign.)
WorkspaceIsMounted ==
    /\ TypeOK
    /\ cmd = Idle /\ ~stuck =>
         /\ Cardinality(RwMounts) < 2 => workspace \in mounted \cup {NoShare}
         /\ workspace # NoShare => stamp = workspace

\* A registration finds its credential, at every moment: no mount, removal,
\* migration, kill or error leaves a pair in fstab whose credential file is
\* gone, which the next boot could not mount.  The one exception is a corpus
\* pair of an earlier build that names the customer's copy: mount, approve-auto
\* and migrate-to-root move the file first, and may be refused or fail before
\* the pair is written.  The secret is in the vault then, so that the command
\* can be repeated without it.  And a corpus share is never mounted with a key
\* that the customer can read: whichever command mounts it, with whatever the
\* customer stored before or meanwhile, the mount uses the vault.  (A boot
\* mounts what an earlier build stamped.)
RegistrationHasKey ==
    [][\A s \in Shares :
         /\ fstab'[s] # "none" =>
              \/ KeyPresent(s, fstab[s])'
              \/ s \in Corpus /\ fstab'[s] = "home" /\ s \in vault'
         /\ s \in Corpus /\ s \in mounted' \ mounted /\ cmd.op # "boot"
            => fstab'[s] = "vault"]_vars

\* A request that can be decided: it has lost its grant, or its credential is
\* there.
Decidable(s) == s \in pending /\ (s \in grants => HasKey(s))

\* While approve-auto --watch runs, no request that can be decided stays: it is
\* approved or rejected, or it loses its credential or regains its grant first.
\* A request whose credential comes later is decided then, whatever commands and
\* faults come in between.  (When the loop was killed or the host rebooted, the
\* requests wait until somebody starts it again.)
RequestDecided ==
    \A s \in Shares : (watching /\ Decidable(s)) ~> ~(watching /\ Decidable(s))

=============================================================================
