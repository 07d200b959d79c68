--------------------------- MODULE GrantObservation ---------------------------
(***************************************************************************)
(* Two observers of a slot's groupware view, which write nothing: the      *)
(* grant evidence of `opsctl nas view status`, and the root action         *)
(* nas.observe_groupware_runtime.  What they report is put together from   *)
(* many reads (stat, findmnt, mountinfo, access probes) while mounts,      *)
(* modes, the container and the record of the view change.  status reads   *)
(* every grant in two rounds around an inventory of the mounts; the root   *)
(* action reads the host's mounts, the container's mounts and the          *)
(* container's files once each.                                            *)
(*                                                                         *)
(* The observers do not interact, so one observation runs at a time.       *)
(***************************************************************************)
EXTENDS Naturals, FiniteSets

CONSTANTS
    NumGrants,    \* how many granted paths there are, in the order of a record
    MaxChanges,   \* how often the world changes during the observations
    MaxFaults,    \* how many probes fail or time out without a cause
    MaxRuns       \* how many observations are made

Grants == 1 .. NumGrants

ASSUME GrantsAssumption ==
    /\ NumGrants \in Nat \ {0} /\ MaxRuns \in Nat
    /\ MaxChanges \in Nat /\ MaxFaults \in Nat

VARIABLES
    world,      \* what can be observed
    hung,       \* the NAS does not answer: reads of its directories block
    obs,        \* the observation in flight, or its report
    worlds,     \* history: what the world was since the observation began
    reverted,   \* history: something changed and changed back since then
    changes, faults, runs

vars == <<world, hung, obs, worlds, reverted, changes, faults, runs>>

\* What is mounted on a granted path: the granted directory ro,nosuid,nodev,
\* the granted directory writable, or another directory.  (A mount that is ro
\* and lacks only nosuid or nodev is left out: status rejects it, the runtime
\* observation asks for ro alone.)
Place == {"none", "right", "rw", "wrong"}

\* The paths of the view's record: asked for, and bound by the last mutation.
\* There are none where there is no record.
Declaration == {d \in [requested : SUBSET Grants, effective : SUBSET Grants] :
                  d.effective \subseteq d.requested}

\* The record, the mounts that the host and the container have, whether the
\* slot's account may read the directory, a mount under the entry that is no
\* grant, and the container that runs.
World == [declared : Declaration, host : [Grants -> Place],
          inside : [Grants -> Place], open : [Grants -> BOOLEAN],
          stray : BOOLEAN, container : Nat]

\* One item of the evidence.
Item == [rows : Place \cup {"?"}, match : BOOLEAN, open : BOOLEAN,
         access : {"allow", "deny", "?"}, complete : BOOLEAN]
Gap == [rows |-> "?", match |-> FALSE, open |-> FALSE, access |-> "?",
        complete |-> FALSE]

Identity == [shows : {"dir", "source", "other"}, open : BOOLEAN]
NoIdentity == [shows |-> "dir", open |-> FALSE]

Observation ==
    [op : {"none", "status", "runtime"},
     at : {"idle", "master", "stat", "findmnt", "again", "access", "final", "inventory",
           "principal", "host", "inside", "probe", "report"},
     paths : Declaration, round : 1 .. 2, grant : Grants,
     id : Identity, item : Item, evidence : [1 .. 2 -> [Grants -> Item]],
     targets : SUBSET Grants, exact : BOOLEAN, container : Nat,
     hostRows : [Grants -> Place \cup {"?"}],
     insideRows : [Grants -> Place \cup {"?"}],
     reads : [Grants -> {"read", "denied", "empty", "?"}],
     result : {"none", "incomplete", "complete", "healthy", "unhealthy",
               "unknown"},
     class : {"none", "healthy", "missing", "source", "denied", "empty",
              "contract", "cardinality"}]

Idle == [op |-> "none", at |-> "idle",
         paths |-> [requested |-> Grants, effective |-> Grants],
         round |-> 1, grant |-> 1, id |-> NoIdentity, item |-> Gap,
         evidence |-> [r \in 1 .. 2 |-> [g \in Grants |-> Gap]],
         targets |-> {}, exact |-> FALSE, container |-> 0,
         hostRows |-> [g \in Grants |-> "?"],
         insideRows |-> [g \in Grants |-> "?"],
         reads |-> [g \in Grants |-> "?"], result |-> "none", class |-> "none"]

Init ==
    /\ world \in [declared : {d \in Declaration : d.requested \in {Grants, {}}},
                  host : [Grants -> {"none", "right"}],
                  inside : {[g \in Grants |-> "right"]},
                  open : {[g \in Grants |-> TRUE]},
                  stray : {FALSE}, container : {0}]
    /\ \A g \in Grants :
         world.host[g] = "right" <=> g \in world.declared.effective
    /\ hung = FALSE /\ obs = Idle
    /\ worlds = {world} /\ reverted = FALSE
    /\ changes = 0 /\ faults = 0 /\ runs = 0

--------------------------------------------------------------------------------
(* Helpers. *)

Fails == faults < MaxFaults /\ faults' = faults + 1
Works == UNCHANGED faults

\* _grant_identity of the directory on the path, compared with the source.
Shows(place) == CASE place = "none" -> "dir"
                  [] place = "wrong" -> "other"
                  [] OTHER -> "source"
IdentityOf(g) == [shows |-> Shows(world.host[g]), open |-> world.open[g]]

\* The grants that come after g in the record, and the first of a set.
After(g, paths) == {h \in paths : h > g}
First(paths) == CHOOSE g \in paths : \A h \in paths : g <= h

Unchanged == UNCHANGED <<world, hung, worlds, reverted, changes, runs>>

\* The report stays until the caller has read it.
Reports(result) == obs' = [obs EXCEPT !.at = "report", !.result = result]

--------------------------------------------------------------------------------
(* nas view status *)

\* _view_grant_evidence begins: paths that were never bound are no evidence.
Gathering(paths) ==
    IF paths.effective = {}
      THEN [Idle EXCEPT !.op = "status", !.at = "report", !.paths = paths,
                        !.result = "incomplete"]
      ELSE [Idle EXCEPT !.op = "status", !.at = "stat", !.paths = paths,
                        !.grant = First(paths.effective)]

\* cmd_nas_view_status loads the records.  A record's master is the slot's own,
\* which is only looked up among the mounts, or the collector's, which is
\* validated first.
BeginStatus ==
    LET paths == world.declared IN
    /\ obs.op = "none" /\ runs < MaxRuns /\ runs' = runs + 1
    /\ paths.requested # {}
    /\ \/ obs' = Gathering(paths)
       \/ obs' = [Idle EXCEPT !.op = "status", !.at = "master",
                              !.paths = paths]
    /\ worlds' = {world} /\ reverted' = FALSE
    /\ UNCHANGED <<world, hung, changes, faults>>

\* _validate_shared_master opens and reads the collector's directory in the
\* process itself, without a deadline.  The evidence is gathered whatever it
\* finds.
Master ==
    /\ obs.at = "master" /\ ~hung
    /\ obs' = Gathering(obs.paths)
    /\ Works /\ Unchanged

\* Mutant: the second round replaces the first and is not compared with it.
TakesLatest(item) ==
    LET rest == After(obs.grant, obs.paths.effective)
        taken == [obs EXCEPT !.evidence[obs.round][obs.grant] = item]
    IN
    obs' = IF rest # {} THEN [taken EXCEPT !.at = "stat", !.grant = First(rest)]
           ELSE IF obs.round = 1 THEN [taken EXCEPT !.at = "inventory"]
           ELSE [taken EXCEPT !.at = "report",
                   !.result =
                     IF /\ \A g \in obs.paths.effective :
                             taken.evidence[2][g].complete
                        /\ obs.exact /\ obs.targets = obs.paths.effective
                       THEN "complete" ELSE "incomplete"]

\* observe_round takes the item and goes on with the next grant, with the
\* inventory after the first round, or with the verdict after the second.
Takes(item) ==
    LET rest == After(obs.grant, obs.paths.effective)
        taken == [obs EXCEPT !.evidence[obs.round][obs.grant] = item]
    IN
    obs' = IF rest # {} THEN [taken EXCEPT !.at = "stat", !.grant = First(rest)]
           ELSE IF obs.round = 1 THEN [taken EXCEPT !.at = "inventory"]
           ELSE [taken EXCEPT !.at = "report",
                   !.result =
                     IF /\ taken.evidence[1] = taken.evidence[2]
                        /\ \A g \in obs.paths.effective :
                             taken.evidence[2][g].complete
                        /\ obs.exact /\ obs.targets = obs.paths.effective
                       THEN "complete" ELSE "incomplete"]

\* _observe_ro_view_grant_core: the source and the entry are opened and read.
\* Without the mount the directory may be missing altogether.
Stat ==
    /\ obs.at = "stat" /\ ~hung
    /\ \/ obs' = [obs EXCEPT !.at = "findmnt", !.id = IdentityOf(obs.grant)]
       \/ world.host[obs.grant] = "none" /\ Takes(Gap)
    /\ Works /\ Unchanged

\* _findmnt_exact
Findmnt ==
    /\ obs.at = "findmnt"
    /\ obs' = [obs EXCEPT !.at = "again",
                          !.item = [Gap EXCEPT !.rows = world.host[obs.grant],
                                               !.open = obs.id.open]]
    /\ Works /\ Unchanged

\* Both are read a second time.
Again ==
    LET g == obs.grant IN
    /\ obs.at = "again" /\ ~hung
    /\ obs' = [obs EXCEPT !.at = "access",
                 !.item.complete = (obs.item.rows = world.host[g]),
                 !.item.match = /\ obs.id = IdentityOf(g)
                                /\ obs.id.shows = "source"]
    /\ Works /\ Unchanged

\* _probe_slot_access, as the slot's account.
Access ==
    /\ obs.at = "access" /\ ~hung
    /\ obs' = [obs EXCEPT !.at = "final",
                 !.item.access = IF world.open[obs.grant] THEN "allow"
                                 ELSE "deny"]
    /\ Works /\ Unchanged

\* Identity and mount are read a third time: an item whose state changed under
\* the probes is incomplete.
Final ==
    LET g == obs.grant
        same == obs.id = IdentityOf(g) /\ obs.item.rows = world.host[g]
    IN
    /\ obs.at = "final" /\ ~hung
    /\ Takes([obs.item EXCEPT
                !.complete = @ /\ same,
                !.match = @ /\ same /\ Shows(world.host[g]) = "source"])
    /\ Works /\ Unchanged

\* observe_mount_targets_under: the mounts under the entry, between the rounds.
Inventory ==
    /\ obs.at = "inventory"
    /\ obs' = [obs EXCEPT !.at = "stat", !.round = 2,
                 !.grant = First(obs.paths.effective),
                 !.targets = {g \in Grants : world.host[g] # "none"},
                 !.exact = ~world.stray]
    /\ Works /\ Unchanged

\* Mutant: the probes run in the process itself, without a deadline.
TimeOutOnError ==
    /\ obs.at \in {"stat", "findmnt", "again", "access", "final", "inventory"}
    /\ Fails
    /\ \/ obs.at # "inventory" /\ Takes(Gap)
       \/ Reports("incomplete")
    /\ Unchanged

\* _run_isolated_json_probe: the worker runs under the parent's deadline.  A
\* worker that fails or is killed leaves an item with a gap; when the deadline
\* of the whole evidence has passed the evidence ends there.
TimeOut ==
    /\ obs.at \in {"stat", "findmnt", "again", "access", "final", "inventory"}
    /\ IF hung /\ obs.at \notin {"findmnt", "inventory"} THEN Works ELSE Fails
    /\ \/ obs.at # "inventory" /\ Takes(Gap)
       \/ Reports("incomplete")
    /\ Unchanged

StatusStep ==
    \/ Master \/ Stat \/ Findmnt \/ Again \/ Access \/ Final \/ Inventory
    \/ TimeOut

--------------------------------------------------------------------------------
(* nas.observe_groupware_runtime *)

\* unresolved_observation: an error before the mounts were read.
Unresolved == Reports("unknown")

\* _groupware_desired_contract: the record declares paths for the slot.
HasContract(declared) == declared.requested # {}

\* _resolve_runtime: the container by its label, its profile, and the contract
\* of the record.
BeginRuntime ==
    LET begun == [Idle EXCEPT !.op = "runtime", !.at = "principal",
                              !.paths = world.declared,
                              !.container = world.container]
        refused == [begun EXCEPT !.at = "report", !.result = "unknown"]
    IN
    /\ obs.op = "none" /\ runs < MaxRuns /\ runs' = runs + 1
    /\ \/ /\ obs' = (IF HasContract(world.declared) THEN begun ELSE refused)
          /\ Works
       \/ obs' = refused /\ Fails
    /\ worlds' = {world} /\ reverted' = FALSE
    /\ UNCHANGED <<world, hung, changes>>

Same == world.container = obs.container

\* _service_principal: exactly one process of the container is the service.
Principal ==
    /\ obs.at = "principal"
    /\ \/ Same /\ obs' = [obs EXCEPT !.at = "host"] /\ Works
       \/ ~Same /\ Unresolved /\ Works
       \/ Unresolved /\ Fails
    /\ Unchanged

\* mountinfo_under of the host's namespace.
HostRows ==
    /\ obs.at = "host"
    /\ \/ obs' = [obs EXCEPT !.at = "inside", !.hostRows = world.host] /\ Works
       \/ obs' = [obs EXCEPT !.at = "inside"] /\ Fails
    /\ Unchanged

\* mountinfo_under of the process that was resolved: gone with its container.
InsideRows ==
    /\ obs.at = "inside"
    /\ obs' = [obs EXCEPT !.at = "probe",
                 !.insideRows = IF Same THEN world.inside ELSE @]
    /\ Works /\ Unchanged

\* What a probe finds in a directory of the container.
ReadOf(g) == IF world.open[g] THEN {"read", "empty"} ELSE {"denied"}

\* mount_failure_class: _mount of the host's and the container's rows.
MountClass(o, g) ==
    LET both == {o.hostRows[g], o.insideRows[g]} IN
    IF "?" \in both THEN "contract"
    ELSE IF "none" \in both THEN "missing"
    ELSE IF "wrong" \in both THEN "source"
    ELSE IF "rw" \in both THEN "contract" ELSE "none"

\* bounded_probe_outcome
ProbeClass(o, g) ==
    CASE o.reads[g] = "read" -> "healthy"
      [] o.reads[g] = "denied" -> "denied"
      [] o.reads[g] = "empty" -> "empty"
      [] OTHER -> "contract"

FailureClass(o, g) ==
    IF MountClass(o, g) # "none" THEN MountClass(o, g) ELSE ProbeClass(o, g)

\* _aggregate_failure_class, after the count of the paths.
Aggregate(o) ==
    LET failures == {FailureClass(o, g) : g \in o.paths.effective}
                      \ {"healthy"}
    IN
    IF o.paths.requested # o.paths.effective THEN "cardinality"
    ELSE IF failures = {} THEN "healthy"
    ELSE IF Cardinality(failures) = 1 THEN CHOOSE c \in failures : TRUE
    ELSE "contract"

ResultOf(class) ==
    CASE class = "healthy" -> "healthy"
      [] class \in {"missing", "source", "denied", "cardinality"} -> "unhealthy"
      [] OTHER -> "unknown"

\* The paths that were probed.
Probed(o) == IF o.class = "none" THEN {} ELSE o.paths.effective

\* public_facts: the counts that a consumer of the receipt decides from.  The
\* paths are not available where the runtime could not be resolved.
PublicFacts(o) ==
    LET onHost == {g \in Probed(o) : o.hostRows[g] = "right"}
        inside == {g \in Probed(o) : o.insideRows[g] = "right"}
        opened == {g \in Probed(o) : ProbeClass(o, g) = "healthy"}
    IN  [available |-> o.class # "none",
         requested |-> Cardinality(o.paths.requested),
         effective |-> Cardinality(o.paths.effective),
         host_mount_verified |-> Cardinality(onHost),
         container_mount_verified |-> Cardinality(inside),
         bounded_probe_open_read |-> Cardinality(opened),
         failure |-> [c \in {"missing", "source", "denied", "empty", "contract"}
                        |-> Cardinality({g \in Probed(o) :
                                           FailureClass(o, g) = c})]]

\* Mutant: the probe enters whichever container runs now.
ProbeAnyContainer ==
    LET Judged(o) == [o EXCEPT !.at = "report", !.class = Aggregate(o),
                               !.result = ResultOf(Aggregate(o))]
    IN
    /\ obs.at = "probe" /\ ~hung
    /\ \E found \in [Grants -> {"read", "denied", "empty"}] :
         /\ \A g \in Grants : found[g] \in ReadOf(g)
         /\ obs' = Judged([obs EXCEPT !.reads = found])
    /\ Works /\ Unchanged

\* _probe_namespace: a child enters the mount namespace of the resolved process
\* as the service's account.  Its deadline kills it and waits for it, which
\* takes as long as a read that hangs.
Probe ==
    LET Judged(o) == [o EXCEPT !.at = "report", !.class = Aggregate(o),
                               !.result = ResultOf(Aggregate(o))]
    IN
    /\ obs.at = "probe" /\ ~hung
    /\ \/ /\ Same /\ Works
          /\ \E found \in [Grants -> {"read", "denied", "empty"}] :
               /\ \A g \in Grants : found[g] \in ReadOf(g)
               /\ obs' = Judged([obs EXCEPT !.reads = found])
       \/ obs' = Judged(obs) /\ IF Same THEN Fails ELSE Works
    /\ Unchanged

RuntimeStep == Principal \/ HostRows \/ InsideRows \/ Probe

\* The report is printed, or sealed into the receipt.
Finish ==
    /\ obs.at = "report" /\ obs' = Idle
    /\ Works /\ Unchanged

--------------------------------------------------------------------------------
(* The world.  A change of what the observation in flight does not read is *)
(* left out.                                                               *)

\* Whether a new value was there before, since the observation began.
Back(new) ==
    \E w \in worlds :
      \/ \E g \in Grants :
           \/ new.host[g] # world.host[g] /\ new.host[g] = w.host[g]
           \/ new.inside[g] # world.inside[g] /\ new.inside[g] = w.inside[g]
           \/ new.open[g] # world.open[g] /\ new.open[g] = w.open[g]
      \/ new.stray # world.stray /\ new.stray = w.stray

Becomes(new) ==
    /\ obs.op # "none" /\ obs.at # "report"
    /\ changes < MaxChanges /\ changes' = changes + 1
    /\ world' = new /\ new # world
    /\ worlds' = worlds \cup {new}
    /\ reverted' = (reverted \/ Back(new))
    /\ UNCHANGED <<hung, obs, faults, runs>>

\* assign, detach, restore or an administrator changes a mount of the host; the
\* change reaches the container or it does not.
HostChanges ==
    \E g \in Grants, p \in Place :
      \/ Becomes([world EXCEPT !.host[g] = p])
      \/ /\ obs.op = "runtime"
         /\ Becomes([world EXCEPT !.host[g] = p, !.inside[g] = p])

AccessChanges == \E g \in Grants : Becomes([world EXCEPT !.open[g] = ~@])

StrayChanges == obs.op = "status" /\ Becomes([world EXCEPT !.stray = ~@])

\* The container is started anew, with the mounts that the host has.
ContainerRestarts ==
    /\ obs.op = "runtime"
    /\ Becomes([world EXCEPT !.container = @ + 1, !.inside = world.host])

NasHangs ==
    /\ ~hung /\ Fails /\ hung' = TRUE
    /\ UNCHANGED <<world, obs, worlds, reverted, changes, runs>>

NasAnswers ==
    /\ hung /\ hung' = FALSE
    /\ UNCHANGED <<world, obs, worlds, reverted, changes, faults, runs>>

Environment ==
    \/ HostChanges \/ AccessChanges \/ StrayChanges \/ ContainerRestarts
    \/ NasHangs \/ NasAnswers

Next ==
    \/ BeginStatus \/ StatusStep \/ BeginRuntime \/ RuntimeStep \/ Finish
    \/ Environment

\* An observer that has begun goes on.
Spec == /\ Init /\ [][Next]_vars
        /\ WF_vars(StatusStep \/ RuntimeStep \/ Finish)

--------------------------------------------------------------------------------
(* Properties. *)

\* The state is well formed.
TypeOK ==
    /\ world \in World /\ hung \in BOOLEAN
    /\ obs \in Observation
    /\ worlds \subseteq World /\ reverted \in BOOLEAN
    /\ changes \in 0 .. MaxChanges /\ faults \in 0 .. MaxFaults
    /\ runs \in 0 .. MaxRuns

\* An item of the evidence describes a grant in one state of the world.
Describes(i, w, g) ==
    /\ i.rows = w.host[g]
    /\ i.match = (Shows(w.host[g]) = "source")
    /\ i.open = w.open[g] /\ i.access = IF w.open[g] THEN "allow" ELSE "deny"

\* Complete evidence is a snapshot: although every grant is read on its own,
\* with mounts and modes changing in between, there was one moment when all the
\* items together, and the inventory, were what the host had.  (Unless
\* something changed and changed back meanwhile, which no read can notice.)
CompleteIsSnapshot ==
    /\ TypeOK
    /\ obs.at = "report" /\ obs.result = "complete" /\ ~reverted =>
         \E w \in worlds :
           /\ \A g \in obs.paths.effective : Describes(obs.evidence[2][g], w, g)
           /\ ~w.stray
           /\ {g \in Grants : w.host[g] # "none"} = obs.paths.effective

\* The states of the world in which the resolved container ran.
Resolved == {w \in worlds : w.container = obs.container}

\* The counts say what the status says: healthy exactly when each of them is the
\* number of paths asked for, and a class of failure that it names is counted.
FactsAgree(o) ==
    LET facts == PublicFacts(o) IN
    /\ o.result = "healthy" <=>
         /\ facts.available
         /\ \A n \in {facts.effective, facts.host_mount_verified,
                      facts.container_mount_verified,
                      facts.bounded_probe_open_read} : n = facts.requested
    /\ o.result = "unhealthy" /\ o.class # "cardinality" =>
         facts.failure[o.class] > 0

\* The report of the root action is true of the runtime that it resolved.
\* Healthy: every path of the record was mounted right on the host and in that
\* container and could be read there.  Unhealthy: the failure it names was
\* there.  A container that restarts under the probes yields neither.  The
\* public counts, which are taken from other fields, agree with the status.
VerdictIsTrue ==
    obs.at = "report" /\ obs.op = "runtime" =>
      /\ obs.result = "healthy" =>
           /\ obs.paths.requested = obs.paths.effective
           /\ \A g \in obs.paths.effective :
                /\ \E w \in Resolved : w.host[g] = "right"
                /\ \E w \in Resolved : w.inside[g] = "right"
                /\ \E w \in Resolved : w.open[g]
      /\ obs.class = "missing" =>
           \E g \in obs.paths.effective :
             \/ \E w \in worlds : w.host[g] = "none"
             \/ \E w \in Resolved : w.inside[g] = "none"
      /\ obs.class = "source" =>
           \E g \in obs.paths.effective :
             \/ \E w \in worlds : w.host[g] = "wrong"
             \/ \E w \in Resolved : w.inside[g] = "wrong"
      /\ obs.class = "denied" =>
           \E g \in obs.paths.effective, w \in Resolved : ~w.open[g]
      /\ FactsAgree(obs)

\* nas view status ends once it gathers evidence: no read that hangs outlives
\* the deadline of the worker that makes it, also when the NAS never answers
\* again.  The validation of a shared master has no deadline: there status ends
\* if the NAS does not stay silent for good.
StatusReports ==
    /\ (obs.op = "status" /\ obs.at # "master") ~> obs.op = "none"
    /\ []<>~hung => (obs.op = "status" ~> obs.op = "none")

=============================================================================
