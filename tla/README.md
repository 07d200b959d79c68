# A verification project for agent-runtime-ops

`agent-runtime-ops` operates per-account agent runtimes (Hermes, OpenClaw) on a
host: it installs itself by releases, renders and applies container projects
with backups and rollback, mounts NAS views, keeps secrets and usage ledgers,
and runs a small set of *root actions* through a broker service.  This directory
holds TLA+ models of the parts where order, crashes and races matter, TLC
configurations that check them on small instances, and TLAPS proofs of what
matters most for every size.

## 1. The system's parts

| Part | Where | State it keeps | Modelled |
|---|---|---|---|
| Root-action state machine | `root_actions/state.py` | record of a job | `RootActionState` |
| Root-action broker, store, worker, service | `root_actions/{broker,posix_store,worker,service,listener,submission,admission,execution}.py` | SQLite tables, queue, two threads | `RootActionBroker`, abstract `OneShotJob` |
| Public projections and catalog | `root_actions/{broker,public_projection,projection,catalog}.py` | derived files | `RootActionPublication` |
| Authorization ceremonies | `root_actions/{auth_service,authorization}.py`, tables in `posix_store.py` | bootstraps, credentials, ceremonies | `RootActionAuth` |
| Activation of a release | `install.sh`, `scripts/activation_transaction.py` | transaction directory, six activation identities, broker unit | `ActivationTransaction`, abstract `AtomicActivation` |
| Runtime apply, rollback, canary, backups | `domain/{runtime_apply,canary_transaction,runtime_backup}.py`, `commands/{apply,rollout}.py`, `install_migrations.py` | compose file, env file, manifests, markers, backup tree | `RuntimeApply`, abstract `SlotRollout` |
| Runtime secrets | `commands/runtime_secret.py` | secret file, `.env`, transaction directory | `RuntimeSecret` |
| NAS views of a corpus | `commands/nas_view.py`, `domain/nas_views.py`, `host/*` | `nas-views.yaml`, fstab, mounts | `NasViews` |
| NAS shares of a slot | `commands/nas.py`, `nas.py`, `domain/workspace_bind.py` | requests, credentials, fstab, workspace bind | `NasShares` |
| Grant evidence and the groupware root action | `commands/nas_view.py`, `host/bind_mounts.py`, `domain/groupware_runtime_observation.py` | none (many reads, one report) | `GrantObservation` |
| Usage collection | `commands/usage.py`, `domain/{usage_ledger,usage_store}.py` | central database, cursor | `UsageCollection` |
| Usage cost and exchange rates | `domain/{usage_cost,usage_cost_store,usage_fx}.py` | rate ledger, estimates | `UsageCost` |
| Configuration, policies, recipes, root review, CLI, MCP server, images | the rest | none, or one file written at once | no, see section 10 |

`PROJECT.json` lists every part with its status and, for each hazard of the
code, the line where it bites and the property that would catch it.

Every module states that its variables have their types.  Where that is proved
(broker, authorization, activation) it is not checked again; in the other
modules it is a conjunct of one of the invariants that their run checks.

## 2. Root actions

### How the parts interact

A client submits a typed manifest over a Unix socket.  The *listener* thread
serves one request at a time.  `submit` seals the job in the SQLite store with
its first record and ledger entry, provided the submission limits allow it; a
disabled operation, or a lineage that has spent its technical failures, is
sealed and closed in the same transaction.  An enabled automatic operation is
claimed at once, any other waits for an approval; a claim (`claim_execution`)
is a compare-and-append on the record and is durable before anything runs.  The
claimed job goes through a bounded in-memory queue to the *worker* thread, which
re-reads the record, runs the handler and settles the job in one transaction:
raw receipt, record, ledger entry and public receipt.  Whatever goes wrong after
the claim makes the job `unknown`, never a second execution.  On start the
service marks every running record unknown before it serves.

### `RootActionState`

The pure state machine.  `Admits(r, e)` is "apply_transition raises nothing",
`ApplyTransition(r, e)` the record it returns.  `ValidRecord` is
`validate_record`.  Reasons, outcomes and states keep the source's names.

### `RootActionBroker`

| Variable | Code |
|---|---|
| `records`, `received`, `ledger`, `raw`, `receipt` | the tables `root_action_records`, `root_action_jobs.broker_received_at`, `root_action_ledger`, `root_action_raw_receipts`, `root_action_receipts` through `root_action_receipt_current` |
| `listener` | the program counter of the listener thread; `down` and `starting` are the process |
| `worker`, `queue` | the worker thread and `RootActionExecutionWorker._queue` |
| `clock` | the wall clock the events are stamped with |
| `faults` | how many faults the instance has spent (a bound) |
| `runs`, `returned` | history: how often the handler was entered, what it returned |

One store transaction is one step (`BEGIN IMMEDIATE`); everything between two
transactions of a handler may be interleaved with the other thread, a crash, or
a second broker process.  The steps of the listener are `SubmitRejected`,
`SubmitCircuitOpen`, `SubmitPending`, `RecoverIdempotent`, `AutoClaim`,
`ClaimWithApproval`, `Enqueue`; of the worker `WorkerTake`, `WorkerRun`,
`WorkerReturn`, `WorkerRaise`, `WorkerCommit`, `WorkerExcept`; of the process
`RecoverOrphan`, `Serve`, `Crash`, `Restart`, `SecondInstanceRecovers`.

Decisions taken in the model:

* Event ids are random and fresh, so the ledger's uniqueness check on them is
  left out.
* The two clock readings of `submit` are one, and reading the clock is part of
  the transaction that uses it; `_mark_unknown` reads the record and commits in
  one step (a record that changed in between is refused by its revision, which
  is the same as not being admitted).
* `WorkerTake` is `queue.get` and the read of the record: nothing observable
  lies between them.
* The worker thread lives as long as the listener serves (`service.main` starts
  it first and `_execute` catches everything), so `worker_unavailable_after_claim`
  cannot happen.
* A graceful stop joins the worker for five seconds and abandons it (a daemon
  thread): for the store this is `Crash`.  An SQLite error in the listener ends
  the process: `Crash` too.  An SQLite error in the worker is the `store` fault.
* The approval ceremony is not here but in `RootActionAuth` (section 3): any
  pending job may be approved, also an automatic one whose claim was lost.
* The legacy and the standalone unit share one state root, and `main` recovers
  orphans before `listener.open` finds the socket lock taken:
  `SecondInstanceRecovers`.

### `OneShotJob`

What the broker promises: a job gets a verdict, its handler is entered at most
once and only after the claim, a reported result is the result, and a job lost
sight of is `unknown` for good.  `RootActionBroker!ImplementsOneShotJob` is the
refinement under the mapping `VerdictOf`, `EffectOf`.

### What the runs check

| Run | Instance | Shows |
|---|---|---|
| `broker_faults` | three jobs, one per policy, queue of one, two faults of any kind (crash, clock set back, store error, second process) | `HandlerRunsOnce`, `ReceiptMatchesRecord`, `LedgerExplainsRecord`, and the refinement `ImplementsOneShotJob` |
| `broker_queue` | three automatic jobs of one lineage and uid, clock 0..2, limits of two, a queue of one, one crash, under `FairSpec` | `AdmissionBounded` (open jobs, submissions in a window, technical failures of a lineage), `ClaimedJobSettles`, `AutomaticJobDecided` |

Bounds.  Two jobs already compete for queue, worker and limits; the third gives
every policy a job and lets a window hold more than its limit if a limit were
wrong.  A queue of one overflows with two jobs.  Two faults cover a fault during
the recovery from another.  The clock needs one tick to make a step back matter
and two to leave a window of one.

Fairness.  `FairSpec` assumes that a thread that can go on does, that a handler
ends (its commands carry timeouts), and that systemd restarts the service
(`Restart=on-failure`).  Nothing is assumed about clients or the clock.

Known limits of the code that the liveness properties exclude on purpose: a crash between
sealing an automatic job and claiming it leaves it pending until someone
approves it; a clock set back across a restart keeps the service from starting
until the clock has caught up; a store error inside the worker's except clause
leaves the job running until the next start.

### What is proved

For every set of jobs, policies, limits, queue capacity and number of faults
(`BrokerAssumption` only types the constants), in `RootActionBrokerProofs`:

* `TypeCorrect`, `Spec => []TypeOK`.  `TypeInv` adds to `TypeOK` that a thread
  which is not idle holds a job; `RecordInv` that every record is valid.
* `OneShotExecution`,
  `Spec => [](ClaimHandedOn /\ HandlerRunsOnce /\ VerdictTruthful)`.  The
  inductive invariant `ClaimInv` is `ClaimHandedOn` (a claim is in exactly one
  place) together with `HandlerProgress`, which relates the place of a claim to
  `runs` and `returned`: a job waiting in the listener or the queue was never
  entered, one the worker holds was entered exactly when its program counter is
  past `WorkerRun`.  Every step either leaves claims alone, moves one along, or
  drops it.
* `SettledForGood` (`FinalStateIsFinal`), `ReceiptsAgree`
  (`[]ReceiptMatchesRecord`) and `BrokerImplementsOneShotJob`.  Every step either
  leaves the rows of a job alone or settles one job that was open
  (`StepSettles`); the refinement maps each action to one step of `OneShotJob` or
  to a stutter.
* `LedgerIsHistory` (`[]LedgerExplainsRecord`) and
  `AdmissionIsBounded` (`[]AdmissionBounded`).  Both rest on `StoreSteps`, which
  sorts every step by what it does to the store: nothing, one appended
  transition, a job sealed and closed at once, or a job sealed as pending.
  `AdmissionBounded` is not inductive: it counts the failures of a window, and a
  job that fails later joins the windows of its submission.  `AdmissionInv`
  therefore counts an open job of the lineage as the failure it may still become
  (`ExposedIn`), bounds every window `t - w .. t` and not only those that end with
  a submission, and says that no submission lies in the future.  The theorem assumes what the property itself
  assumes, a clock that does not step back (`"clock" \notin Faults`); its bounds on
  the limits (`LimitsAssumption`) are the ones `LineageFailurePolicy` and
  `_validate_submission` enforce.

Type correctness, `ClaimHandedOn`, `VerdictTruthful` and `FinalStateIsFinal` are
proved and not part of a run.  Only model-checked: the two liveness properties
(the proof system has no support for fairness).

## 3. Authorization of root actions

### How the parts interact

An operation that is not automatic waits until its owner approves it with a
WebAuthn credential.  Root creates a *bootstrap* token once; under it the fixed
credentials are registered, each by a registration ceremony (begin, finish).
An approval ceremony is issued for one pending job, the owner's authenticator
signs its challenge, and `finish_approval` reads ceremony and credential,
verifies the assertion, and commits counter, ceremony, approval and claim in one
transaction.  The web process in between only carries messages: an assertion may
be late, repeated, or one of several.

### `RootActionAuth`

| Variable | Code |
|---|---|
| `records` | `root_action_records`, moved by `RootActionState` |
| `bootstraps`, `ceremonies`, `credentials`, `approvals` | the four `root_action_auth_*` tables |
| `requests` | `finish_approval` calls between their reads and their transaction |
| `signed`, `counters` | external: assertions in transit, which never get lost for good, and the authenticators' counters |
| `clock`, `faults` | the clock the rows are stamped with; the fault bound |

`CreateBootstrap`, `BeginRegistration`, `FinishRegistration`, `BeginApproval`
are one transaction each and one step each.  `ReadAndVerify` and
`ClaimWithApproval` are the two halves of `finish_approval`.  The listener
serves one request at a time, but the store is written for several (it compares
rows again and swaps counters conditionally, and
`tests/test_root_action_auth_store.py` races approvals in threads), so the model
has several.  `Submit`, `AutoClaim`, `Settle` are what approvals can see of the
broker; the dispatch after a claim is in `RootActionBroker`.  A request that is
refused leaves the store alone and is only a step where it ends a
`finish_approval`.  Left out: origins, user handles and the other contents of
WebAuthn messages (an assertion either is a signature of a ceremony's challenge
or is refused), revocation and recovery ceremonies, which no code performs, and
`backed_up`, which only travels with the counter.

### What the runs check

| Run | Instance | Shows |
|---|---|---|
| `auth` | an automatic and a waiting job, two tokens, three ceremonies, three authenticators of which one is unfit for every role, two requests, two assertions, clock 0..5, two faults | `OneEnrollment` (with at most one open registration), `ApprovalsAreSigned`, `OneApprovalPerClaim` |

Bounds.  Two requests and two assertions are the races there are: same ceremony,
same job, same credential.  A ceremony lives one tick of the clock, a token two
ceremonies (as 300 and 600 seconds), and the clock reaches past the token's end.
The constraint `Focus` divides the instance: enrollment alone is explored with
every device, label and tick; with a job, what follows the enrollment of the
first two devices, for two ticks and one fault; with the automatic job as well,
what one tick without faults brings.
Deadlock is not checked: the bounds let an instance come to rest.

A limit of the code: a registration may only begin in the first half of a
token's life, since its ceremony must not outlive the token, and no new token is
issued once a ceremony exists.  A registration that is begun and abandoned can
therefore leave enrollment unfinished for good.

### What is proved

`RootActionAuthProofs`, for every set of jobs, authenticators, requests and
lifetimes: `SignedApprovals`, `PairedApprovals`, `AdvancingCounters`
(invariants) and `SpentCeremonies` (an action property).  `IInv` adds to the
three invariants what an assertion in transit and a request between its reads
and its commit rely on (`SignedInv`, `RequestInv`): that an answered ceremony
is for a sealed job, that an enrolled credential keeps its role, and that the
verified counter is newer than the one that was read.  The commit compares what
was read with what is stored, so these carry over to the rows it writes.
`EnrollmentUnderOneToken` proves `OneEnrollment`.  `EnrollmentInv` says that at
most one token is alive, that every registration was begun under it and ends
before it, and that the token has spent one registration for every enrolled
device; two open registrations would have to be a ceremony's lifetime apart,
and a token lives no longer than two ceremonies.
`CountersAdvance` and `CeremonySpentForGood` are proved and not part of the run.

## 4. Activation of a release

### How the parts interact

`install.sh` builds a release in a directory of its own and then replaces six
managed paths that must change together: three command entry points, the
manifest, the `current` link and the broker's unit file.  No file system
replaces six paths at once, so the helper `scripts/activation_transaction.py`
keeps a journal directory whose *name* is the state of the transaction:

    .pending.new -> pending -> complete -> (removed)                  published
                    pending -> recovered.complete -> recovered.acknowledged
                            -> recovered.retired -> (removed)         rolled back

Each arrow is one rename.  `install.sh` runs under a lock and starts with
`recover_pending_activation_transaction`: if a journal of its own commit is
pending it stops the broker, restores the baseline, writes the marker
`recovered`, restores the broker's previous state, attests and retires the
journal.  The installer of another commit stops without touching anything.
After that it sweeps abandoned staging, measures the previous release and the
broker, builds, measures the broker again, begins, stops the broker, publishes,
attests the command line, publishes the unit, reloads and attests the broker,
finalizes and prunes.  A failure between begin and finalize leads to the same
recovery in the same process.

### `ActivationTransaction`

| Variable | Code |
|---|---|
| `live`, `temp` | the identity at each managed path; its `.agent-runtime-activation-next` |
| `staging`, `dirs`, `journal` | the staging directories, the transaction directories, what the journal says |
| `releases`, `built` | release directories on disk; how many were ever built (a bound) |
| `broker` | systemd: the unit it has loaded and the release that runs |
| `installer` | the running `install.sh`: place, mode, what it has measured |
| `faults`, `passed` | the fault bound; history of the attestations a release has passed |

An action is one file-system operation that a kill can separate from the next.
`TypeOK` includes that at most one transaction directory exists, which is why
one variable `journal` can hold the contents.  Decisions:

* An identity is the release it belongs to.  `Common` are entries whose bytes
  are the same in every release (they are skipped by publication, which the
  code also does by comparing bytes).
* Writing a journal or a staging file and syncing it is one step; what can be
  seen after a crash is the directory with or without its final name.
* The lock is the single `installer` record; a second installer does not start.
* Owners, modes, path strings and hosts without `systemctl` are left out, and so
  is a managed path that somebody edits by hand: the code then refuses to go on.
* A release is fresh for every build, as its directory name carries the commit,
  the time and the process id; one that cannot be built is removed.
* `BrokerStarts` and `BrokerStops` are systemd or an operator at any moment,
  also between the installer's quiescing and its attestation.

`AtomicActivation` is the promise: the installed release changes in one step,
and only to a release that has passed both attestations.  The mapping
`Installed` is the journal's previous release while a transaction is pending and
the `current` link otherwise: the commit point is the rename of `finalize`.

### What the runs check

| Run | Instance | Shows |
|---|---|---|
| `activation` | two commits, three releases, three faults of any kind, one common entry; fresh host, and host with a release whose broker is absent, stopped or running; under `FairSpec` | `InstalledAsOne`, `RecoveryPossible`, the refinement `ImplementsAtomicActivation`, `FrontierCleared` |

Bounds.  Three releases are the previous one, an interrupted candidate and its
successor.  Three faults reach a kill during the recovery from a kill with a
broker start in between.  Two commits give a foreign installer.

Fairness.  The installer goes on when it can (its commands have timeouts or
end), and an operator who reruns the installer reruns it for the interrupted
commit too (strong fairness of `Start(c)`, since the lock may be taken now and
then).  Without the latter a pending activation stays: an installer of another
commit is refused, as documented in `docs/INSTALL.md`.  The journal is retired
only after up to three runs for its own commit (recover, acknowledge, retire).

### What is proved

For every set of commits, choice of common entries and number of releases and
faults, `ActivationProofs` shows `Typed`, `OneRelease`, `Recoverable`,
`NoCodeLost`, `BaselineHeld`, `ForeignWaits` and `ActivationIsAtomic`.
The properties are not inductive by themselves: that `finalize` leaves no
mixture depends on what the installer established on the way there.  `IInv` adds,
for each stretch of the program,

* `ControlInv`: which directory exists and whose journal it is,
* `BeginInv`, `PendingInv`: what begin has measured, and what is true of every
  pending journal (its two releases are on disk, every path is one of the two
  identities, the broker is old or new),
* `RestoreInv`, `PublishInv`: how far recovery or publication has come, and what
  has been attested,
* `CurrentKept`: the code of the installed release is on disk.

Each action keeps `IInv` (one step per action); the refinement then has two
steps that are not stutters, an attestation and the rename of `finalize`.
Type correctness, `CodeInUseKept`, `RecoveredIsBaseline` and
`ForeignCommitWaits` are proved and not part of the run; `FrontierCleared` is
only model-checked.

## 5. Apply, rollback and canary of a slot

### How the parts interact

A slot is four files that belong together (`.env`, the compose file, the
manifest beside it, and `manifest.yaml` in the state root) and the compose
project started from them.  `apply_desired_slot`, which `opsctl apply` and the
image rollouts share, stages and publishes a backup, opens a *rollback
transaction* (a marker file that names the backup), writes the files, starts the
project, runs the live checks, writes the manifests and removes the marker.  A
failure after the compose file is written restores the backup through
`restore_backup`; a failure before it only puts `.env` back and leaves the
marker.  While a marker exists no new backup can be made, so the way out is
`opsctl rollback`, which restores the marked backup, or the latest one when there
is no marker, and imports backups of an older layout when there is none at all.
With the identity of a transaction `rollback` is *exact*: it accepts no other
marker and prints a receipt.  A promotion also opens a *canary transaction*,
consumed by a receipt that says whether the candidate or its prestate is
installed.  Two non-blocking locks admit one command at a time.

### `RuntimeApply`

| Variable | Code |
|---|---|
| `files`, `running` | the slot's files, each known by the image it was written for; what the compose project was started from |
| `backups`, `residue` | published backups in order of publication; a staging directory in the backup root |
| `marker`, `markers` | `.agent-runtime-rollback-transaction.json`; how many were ever opened (its identity) |
| `canary`, `outcomes` | `transaction.json`; history of what receipts have said |
| `reading` | the image that an `apply` still without the locks has read |
| `op`, `pc` | the command that holds the locks and its next step |
| `report`, `faults` | the last receipt of an exact rollback; the fault bound |

An action is one write, rename, docker command or check.  Decisions:

* Every file is written under another name, renamed, and its directory synced;
  a failing write therefore leaves the old or the new content.  A failing or
  killed docker command leaves the project as it was, gone, or started.
* `op.touched` and `op.removed` are history: they say what the command has done,
  the receipt what it claims.
* The compose file holds the image literally and `.env` holds it a second time;
  `apply` does not write `.env`.  A legacy backup of the first layout records no
  `.env` and leaves it alone (`Unrecorded`).
* `image-canary` and `image-dev-apply` differ only in the slots they accept and
  open no canary transaction (their action names have a hyphen).
* Stamps come from a clock that does not go back; digests and permissions of
  backups hold.  Everything before the backup only reads and may refuse.

`SlotRollout` is the promise: what is installed changes in one step, to a new
image or to a saved recovery point, only what is installed is saved, and a
legacy backup becomes a recovery point at most once.  The
mapping `Installed` is the marked recovery point while a marker exists and the
files otherwise: an apply commits when it removes the marker, a rollback when it
opens one.

### What the runs check

| Run | Instance | Shows |
|---|---|---|
| `apply` | two images, two backups, three markers, two faults; fresh and installed slot; one legacy place that holds a backup without `.env` or a later one and may be damaged; under `FairSpec` | `ServesInstalled`, `ReceiptsTruthful` (of an exact rollback and of a canary), the refinement `ImplementsSlotRollout`, `PendingRollbackCompletes` |

Bounds.  Two backups and three markers allow an apply after a rolled back apply;
two faults reach a kill during the restore that follows a failure.  Two images
are the old and the new one.

Fairness.  A command that has the locks goes on (docker and the checks have
timeouts), and an operator who finds a rollback pending repeats `opsctl
rollback`; since another command may hold the locks now and then this is strong
fairness, of the plain rollback only.  Nothing else is retried.

### What is proved

`RuntimeApplyProofs` shows, for every set of images, every list of legacy
backups with every history of their versions, and any number of backups,
markers and faults, `SlotServesInstalled` (`Spec => []ServesInstalled`),
`EveryReceiptIsTrue` (`Spec => ReceiptsTruthful`) and
`ApplyImplementsSlotRollout` (`Spec => ImplementsSlotRollout`).
`RuntimeAssumption` says that the marks of what is absent are none of the
values and that a legacy place holds some version; a version may lack any of its
files, as `_strict_legacy_metadata` lets it.

None of the three is inductive: that a removed marker leaves a slot which serves
what is installed depends on every step between the backup and the removal.
`IInv` adds

* `WorldInv`: without a marker the containers are those of the files, whatever
  command was killed; a marker names a recovery point that exists; what an
  interrupted import left lies in an empty backup root,
* `KindInv`, `ExactInv`: which command may be at which step, and what an exact
  rollback has recorded of its own writes,
* `ApplyInv`: how far an apply has come.  Its own recovery point equals the files
  up to the first write; then the files are the image's one after the other, and
  the marker names that point until the last of them is written,
* `RestoreInv`: the same for a restore, where a point without `.env` leaves `.env`
  as it is,
* `ImportInv`: what an import has read is a version of a legacy backup, and what
  it is about to publish is not there yet.

Each action keeps `IInv` (`ApplyStepKeeps`, `RollbackStepKeeps` and a lemma per
action below them).  The receipts follow from `IInv` and `HonestEnd`, what a
command that ends has recorded of itself.  In the refinement a published backup
is a `Save` (`Saves`), the removal of an apply's marker a `Switch`
(`Switches`), the opening of a rollback's marker a `Revert` (`Reverts`), a
published import an `Import` (`Imports`); every other step stutters, since the
marked recovery point hides the files while they are written
(`PendingStutters`).  `PendingRollbackCompletes` is only model-checked.

### Three things the code does not promise

* Not every recovery point can be restored.  A legacy backup with a manifest and
  no compose file is an empty baseline whose active files remain, and one with a
  compose file and neither manifest has no contract to check the containers
  against: either import is accepted, and a rollback to it stays pending.  The
  safety theorems cover such backups; `PendingRollbackCompletes` is checked on an
  instance whose legacy backups have every file their layout has.
* The receipt of a canary is not terminal.  It is written before the transaction
  is removed and inside the apply's try block; when a sync or the removal fails,
  the apply is rolled back and the same receipt is rewritten as
  `rollback_succeeded`.  Each receipt is true when it is written, which is what
  `ReceiptsTruthful` says; that a canary has one outcome would be false.
* `opsctl apply` reads the image before it takes the locks.  When a rollout
  commits in between, `apply` reinstalls the image that was just replaced, and
  `.env` keeps the name of the other one.  The model allows this in
  `SlotRollout` (`Switch` without `.env`), since the four files still change in
  one step.

Known limits of the code that no property contradicts: a kill during staging
leaves a directory that blocks later backups until it is removed by hand; a
canary transaction left open by a kill refuses later promotions; a failed legacy
import is not resumed by `rollback`, which then restores an older backup; the
latest backup is the one with the latest wall-clock name, so a clock set back
changes which one that is.

## 6. The public copies of root actions

### How the parts interact

The broker's store is private; clients and dashboards read files that the broker
derives from it: one `projection.json` per job, and `catalog.json`, which names
a *generation* of immutable pages.  `public_projection` builds a bundle with
three separate reads of the store (receipt, record, ledger).  The listener does
so for the client it answers, the worker after it settled a job; both then
publish under the publication lock, which re-reads the revision, rebuilds a
bundle that has become old, writes the file, then the pages, then `catalog.json`,
prunes older generations and remembers what it published, for at most as many
jobs as the catalog lists.  A start settles the orphans, publishes every job and
the catalog, and serves only if all of that succeeded.

### `RootActionPublication`

| Variable | Code |
|---|---|
| `record`, `recent` | the revision of each job; `catalog_job_ids` |
| `file`, `pages`, `catalog` | `projection.json`, `catalog-generations/`, `catalog.json` |
| `published` | `_published_projection_digests` and `_published_projection_revisions` |
| `threads`, `lock`, `broker` | the two threads' places, the publication lock, the process |
| `missed`, `faults` | history: jobs whose last write failed; the fault bound |

A read, a file and a page are one step each.  The store itself is abstracted to
the order of a record's revisions (what they are is in `RootActionBroker`); a
generation is named by its entries, as the code names it by their digest.  One
page holds one entry.  A start publishes the jobs in the order of their ids,
which are random: here in any order.

Run `publication`: two jobs, one automatic and polled, a catalog (and memory) of
one, one fault.  It shows `BundlesOrdered`, `PublicNeverBack`, `CatalogWhole`
and, under fairness of both threads and of the worker's lock, `FilesCatchUp`.
A memory of one forgets with two jobs, which is when an old bundle is no longer
recognized as stale; the fault is a kill or a failing write at any step.

Two races that the code accepts are in the model and contradict no property.
`submit` forms its answer from the record of the claim and a receipt read later:
when the worker was faster the two do not fit and the connection is closed
without an answer (`SubmittedStatus`).  And since the receipt is read before the
record, a final bundle may lack its receipt; the next poll or start repairs it.

`RootActionPublicationProofs` proves `BundlesAreOrdered`
(`Spec => []BundlesOrdered`), `NeverGoesBack` (`Spec => PublicNeverBack`) and
`CatalogIsWhole` (`Spec => []CatalogWhole`) for any number of jobs, any limit of
catalog and memory and any number of faults.  `AbsentIsNothing` only says that the mark of what is not there is
none of the values.  None of the three is inductive.  `PublicInv` adds where a
thread may be with the lock and without it (`Control`); what it has read so far
(`Drafted`: a receipt that was seen means that the record is final by now, and
under the lock the status is not older than the file); that the bundle it
publishes is not older than the file and not ahead of the record (`Bundled`);
and that a prune keeps the generation which is named (`Cataloged`).  A step
of one thread disturbs nothing that the other relies on (`OtherThread`): records
only grow, and files and catalog change under the lock.  The memory of what was
published is not part of the argument: it saves writes, and the lock with the
revision read again under it keeps the order.  `CatalogWhole` includes the types
of all state, among them that `recent` lists every submitted job once; its
invariant `TypeInv` says which of its fields a thread has filled at each of its
steps.  `FilesCatchUp` is only model-checked.

## 7. Runtime secrets

### How the parts interact

`opsctl runtime-secret set` copies the files it is about to change into a
transaction directory, rewrites the secret file in place, replaces `.env` when
the gateway key is among the values, recreates the container by the apply of
section 5 (or by docker compose alone in the unsafe mode), checks it and removes
the directory.  A failure restores the copies and recreates once more.  A kill
leaves the directory, which refuses the next `set` until `recover` has restored
from it.  `status`, `fingerprint` and `probe` only read.

### `RuntimeSecret`

| Variable | Code |
|---|---|
| `layout` | which compose files the slot has |
| `secret`, `env`, `container` | the profile's first secret file, the gateway key in `.env`, the environment of the running container |
| `tx` | the transaction directory: its copies, and whether its manifest is there |
| `pending`, `residue` | the recovery point of an apply that did not finish; a staging directory that one left in the backup root |
| `cmd`, `pc`, `report` | the command, its next step, what it has reported |
| `before`, `faults` | history of the files a `set` found; the fault bound |

A file that is rewritten in place may be torn by a kill; `.env` is replaced by a
rename except by the restore, which copies in place.  `Created` is the compose
file's order of precedence.  The whole of `apply_desired_slot` is one step here,
with the outcomes that `RuntimeApply` shows it has: refused, done, failed with
or without a pending rollback, or stopped while it staged its backup, which
leaves the staging directory behind.  One command runs at a time: the directory keeps
a second `set` out, and a `recover` beside a running `set` is not modelled.

Run `runtime_secret`: two values of which the provider accepts one, every
combination of keys, modes and `--check`, three layouts, two faults.  It shows
`SetReportsTruth` (a value reported stored is the one in use, one reported
restored is the one from before), `NoHalfRotation` (which includes that a
recovery point is whole) and `RotationSettles` (on a slot that was applied no
transaction waits for `recover` for ever, provided that a staging directory left
behind is removed in the end).  Two faults are a kill, and a failure of the recovery
from it.  Fairness: a command that runs goes on, and an operator who finds a
transaction repeats `rollback` (strongly, as it may be refused now and then) and
`recover`.

`RuntimeSecretProofs` proves `RotationIsWhole` (`Spec => []NoHalfRotation`) and
`ReportsAreTrue` (`Spec => []SetReportsTruth`) for every set of values and any
number of faults.  `SecretAssumption` says that the marks for what is absent,
torn or not given are none of the values, and that a torn file is not an absent
one.  Neither property is inductive: both speak of the moment when a command has ended, and
whether a file is whole then depends on how far every earlier command came.
`SecretInv` says for each step of a command what it has done so far.  `Forward`:
up to which file a set has written the new values.  `Backward`: up to which file
the restore is back.  `Resting`: between commands the files are whole, or a
transaction is there which holds whole ones.  `Sealed` carries the argument
through a kill: a set that does not cover the gateway key never changes `.env`,
not even through the rollback of an apply that it began, so restoring the secret
file alone makes the pair whole again.  `RotationSettles` is only model-checked.

Limits of the code: a kill before the manifest is written or in the middle of
the removal leaves a directory that neither `set` nor `recover` accepts; on a
slot that was never applied a `set` with restart cannot finish its restore; and
after an apply that was killed while it staged its backup every later apply is
refused (`_next_backup_path`), so that `recover` restores the files and fails at
the container until the administrator has removed the directory.  No command
does that (`ClearResidue` is the administrator, and no fairness is assumed of
it).

## 8. NAS

### How the parts interact

A *share* is mounted for a slot by a managed pair in `/etc/fstab` that names a
credential file; one writable share is bound as the slot's workspace.  A
*corpus view* shows a slot a user's slice of a corpus: a CIFS master (the slot's
own hidden mount, or the collector's mount that the policy names) is the source
of read-only binds under `view/`, and `view/` is bound recursively onto the
entry inside the slot.  `nas view assign` mounts first and records last,
`detach` the other way round, `restore` rebuilds all views after a boot.  `nas
view status` and the root action `nas.observe_groupware_runtime` look at the
result, in many reads, while it may change.

### `NasViews`

| Variable | Code |
|---|---|
| `records`, `fstab`, `policy`, `credentials` | `nas-views.yaml`, the managed pairs, `corpus_master_mounts`, the credential files |
| `masters`, `collectors`, `view`, `entry` | the mount table: hidden masters, collector's mounts, binds under `view/`, the entry and its submounts |
| `present` | the directories that exist on the NAS |
| `cmd`, `lock` | the commands in flight and what they have loaded; the lock of `restore` |
| `shared` | whether mounts propagate between `view/` and the entry |
| `damaged`, `commands`, `faults` | history: keys on which a failed umount or a kill left mounts; bounds |

A step is one `mount`, `umount` or save.  A bind and its remount to read-only are
two steps.  `Preflight`, `Mounted`, `GrantsGreen`, `BootEntry` and `Issues` are
the read-only commands `preflight` and `status` as operators; the properties
compare them with what `assign` and `restore` do.

Run `nas_views`: one slot with two corpora (a package corpus with the slot's own
master, and granted paths whose policy names a collector), two users whose slices
share a room, three commands, two faults.  It shows `MountedIsManaged` (what is
mounted is recorded, read-only at rest, and comes back after a boot),
`OneUsersSlice`, `OkIsTrue` and `PreflightHolds`.  Three commands are an assignment, its detach and an
assignment to the other user; two faults are a failure and a failure of its
rollback, or a power cut and a directory that is gone when the views come back.
The host's mounts are private or shared; the run has both.
The properties leave out `damaged` keys: where a umount failed the commands say
so, where a command was killed they cannot, and the recursive bind of the next
assignment carries what is left along.  Commands run one at a time, as an
operator runs them: `assign`, `detach` and `restore` all load the state file and
save the whole of it, and only `restore` takes a lock, so with two processes one
command loses the other's record.

One report of success is not true of the code, and `OkIsTrue` says so.  Where
mounts are shared, which is systemd's default and what the containers' `rslave`
binds build on, the recursive bind makes the entry a peer of `view/`.  A
`restore` that finds the entry mounted (the boot unit and the `@reboot` line both
start one) rebuilds the binds under `view/`; `bind_ro` then unmounts the entry
with everything below it, the binds under `view/` go with it, and an empty
`view/` is bound.  The command reports ok.  Nothing of the wrong user is shown
and the entry is read-only; `status` notices the missing binds for granted paths
and for no other corpus.  The field `over` of a command holds the keys to which
this happened.

### `NasShares`

The shares of one slot: `grants`, `watching` (`approve-auto` runs), `pending`
(request files), `vault` and `home`
(credential files of root and of the customer), `fstab` (where the pair of a
share finds its credential), `mounted`, `workspace` and `stamp` (what is bound
now, and at the next boot), `local` (the unbound workspace has entries), `cmd`,
and `stuck`, the history that the workspace could not be brought in line: a
release or a stamp failed, `remove` ended with an error after its umount, or a
command was killed.  The next command that reconciles the workspace ends it.

Run `nas_shares`: two writable shares and a corpus, at most two mounts, four
commands, one fault.  It shows `WorkspaceIsMounted` (now and after the next
boot, unless `stuck`), `RegistrationHasKey` (at every moment, also between the
steps of a command, a registration names a credential that is there; a corpus is
mounted with root's) and `RequestDecided`.  `RegistrationHasKey` has one
exception: the pair of an earlier build names the customer's copy of a corpus
credential, the copy is moved to the vault, and the command is refused or killed
before it writes the pair.  Four commands reach a mount, a migration, a removal
and a second mount.  The run also passes with two faults, in six minutes.
Fairness: a command goes on, and the watch loop of `approve-auto`, while it runs,
comes to every request.  Nothing restarts the loop after a kill or a reboot, so
`RequestDecided` speaks of the time while it runs.  The watch loop and the
operator's commands take turns in the model, and a customer who deletes a
credential file is left out.

### `GrantObservation`

`world` is what can be observed (the record, the mounts of the host and of the
container, permissions, the container that runs), `obs` the observation in
flight with what it has read so far, `worlds` and `reverted` the history that
the properties compare it with, `hung` a NAS that does not answer.  A read is a
step; any change of the world may come between two.

Run `grant_observation`: two granted paths, two changes of the world, one failing
or hanging probe.  It shows `CompleteIsSnapshot`, `VerdictIsTrue` (which
includes that the public counts agree with the verdict) and, under fairness of
the observer alone, `StatusReports`.  The reads of the evidence run in workers
under a deadline, so `status` ends although the NAS never answers again; the
validation of a shared master (`Master`) runs in the process itself, and there
`StatusReports` asks that the NAS does not stay silent for good.  The reads of
the probe inside the container are one step, and a mount that is read-only but
lacks `nosuid` or `nodev` is left out.  Two changes are a change between two reads
of one item and one between the rounds.  The probe of the root action waits for
its killed child: while the NAS hangs it does not end, and no property says so.

`GrantObservationProofs` proves `EvidenceIsSnapshot`
(`Spec => []CompleteIsSnapshot`) and `VerdictsAreTrue` (`Spec => []VerdictIsTrue`)
for any number of grants, changes, faults and observations.  The inductive invariant is `ObservationInv`.  For the snapshot the
moment that has to be shown to exist is the inventory between the two rounds.
What the first round read at a grant was still so at the inventory, or is gone
for good (`Between`): a value that was seen and comes back sets `reverted`.  What
the second round finds again can therefore not have been gone.  Within one item
the same argument runs over the repeated `stat` and mount reads (`ItemOK`).  For
the verdict, a container id is never used again (`History`), so what was read
inside the resolved container was so in a state of `Resolved`; and `Judgement`
says that the class reported is the aggregate of the rows that were read.  That
the counts agree needs that a set of paths of which one fails has fewer paths
that succeed, which is where the cardinality theorems come in.  `StatusReports`
is only model-checked.

## 9. Usage

### How the parts interact

The gateway container of a slot appends one receipt per model call to its own
ledger.  `opsctl usage collect`, from a timer or by hand, takes an advisory lock
in the central database, looks up the container, reads the cursor, runs the
export in the container, validates the page, looks at the container again and
stores receipts, coverage manifests and cursor in one transaction.  `usage
fx-refresh` keeps the daily reference rates, whose source only offers a rolling
window; `usage cost-estimate` values stored calls with catalog and rates, under
a lock of its own.

### `UsageCollection`

| Variable | Code |
|---|---|
| `product`, `container`, `today` | the product's ledger, the container that runs, the day |
| `rows`, `manifests`, `cursor`, `conflicts` | the tables `provider_usage_call`, `provider_usage_coverage_manifest`, `usage_collection_cursor`, `usage_collection_conflict` |
| `collectors`, `lock` | the collectors' places and pages; `GET_LOCK` |
| `faults` | the fault bound: kills, failing commands, faulty pages, call ids that come back |

`ExportOf` is external: what the product prints; `FaultyExports` what one prints
that contradicts itself.  `ValidPage`, `ValidReceipt` and `ValidCoverage` are
`validate_export` and its parts.  A page that skips a receipt without a trace is
left out: `validate_export` allows gaps in the positions, so the collector
cannot tell one from a product that numbers so.

Run `usage_collect`: three calls on two days with two holders of the slot, two
containers of which one has a gap in its coverage, two collectors, pages of one
and two pages to a run, one fault.  It shows `NothingSkipped` (nothing below the
cursor is missing, and the cursor stops at a conflict), `RowsTruthful` (a row is
what the product recorded, charged to the holder of its day, and the evidence
says no more than was stored) and `EventuallyCollected`.  Three calls make a run stop at its page limit.  Fairness:
some collector goes on or is started again by the timer.

`UsageCollectionProofs` proves `CollectedInOrder` (`Spec => []NothingSkipped`)
and `CursorNeverBack` (the cursor only advances) for any number of calls,
collectors, containers and faults and any page size.  `NothingSkipped` alone is
not inductive: the page that a collector holds was exported at an earlier
cursor.  `CollectInv` adds that every row is of a call the product recorded
(`RowsOfProduct`), that a conflict stands where it was found (`ConflictsStand`)
and that a page which passed `validate_export` holds every position from its
start to its end (`PagesConsecutive`); the store compares the start with the
cursor before it moves it past the end.

`RowsAreTruthful` (`Spec => []RowsTruthful`) needs in addition that what was
checked of a page still holds when it is stored, though the ledger has grown and
a container may have been replaced meanwhile.  `TruthInv` carries this from
`Receives` to `StorePage` (`Checked`): every receipt's claim is the one that its
null fields imply, and every manifest that of a product with some surface.  From
there a stored claim is complete or unavailable exactly when the provider's
report was (`ValidIsTrue`), whatever a faulty product prints (`ExportTypes`).
`CollectionAssumption` only gives the constants their types.
`EventuallyCollected` is only model-checked.

### `UsageCost`

`rates` and `evidence` are the published ledger and the raw documents, `refresh`
the refresh in flight (one at a time; the code has no lock, so two could lose a
day), `catalog` the prices (an entry applies from its first day up to, not
including, the day in `until`), `estimates` and `revisions` the tables that a
projection writes, `projectors` and `costLock` the projections and their lock.
Amounts are left out: a value is its status and the day of its rate.

Run `usage_cost`: one call, two days, documents of one day, two projections, one
fault.  It shows `ValuationReproducible` (a call is valued once, from artifacts
from which it can be valued again) and `EventuallyValued`.  A document of one day
is the smallest window that moves on; a late catalog entry and a late rate each turn an unavailable estimate into a
settled one.  Fairness: days pass and the timers start both commands again.

## 10. Not modelled

* Parsing, canonical encoding, digests, framing and rendering (contracts,
  registry, manifests, wire protocol, compose files, recipes, Apache routing,
  MCP schemas): functions of immutable values without a protocol of their own.
  Where a decision depends on one, the models keep the decision (`ValidPage`,
  `Admits`, `Supported`).
* Reports that only read: `runtime_checks`, `runtime_truth`, the image policies,
  root-action catalogs and package information, the crontab and systemd parts of
  the status commands, heartbeats and diagnostics.
* The polling client: it reads files and sleeps; what it can find there is the
  subject of `RootActionPublication`.
* `runtime set-model`, which lets the product change its configuration, attests
  the result and puts a snapshot back on failure, in one process without a
  marker; the other `runtime-config` commands replace one file.
* Root review: one request file that its only writer compares and replaces, and
  a transcript read behind a handle that refuses whatever changed meanwhile.
* Hand-off and binding commands: fixed lists of host commands that stop at the
  first that fails.
* The one-time exemption for a missing retrieval projection in
  `runtime_backup.py` (2020-2264): no code calls it.  `quarantine_if_absent`,
  `publish_if_absent` and `create_pending` of the root-action store have no
  production caller either.
* A promotion over several slots, which is a loop over the slots of what
  `RuntimeApply` models for one.
* Owners, modes and path strings, which are checked and refused everywhere, and
  the building of container images.

## 11. Proved and only model-checked

Proved for every size: the broker with its admission limits and ledger, the
authorization ceremonies, the activation, apply and rollback of a slot, the
public copies, the rotation of secrets, the observation of grants, and the usage
collection; the three refinements are among them.  Every safety property of these
modules that a run checks is a theorem.

Only model-checked, on the instances given above:

* every liveness property: the proof system reasons neither about fairness nor
  about when an action is enabled;
* the modules `NasViews` (`MountedIsManaged`, `OneUsersSlice`, `OkIsTrue`,
  `PreflightHolds`), `NasShares` (`WorkspaceIsMounted`, `RegistrationHasKey`) and
  `UsageCost` (`ValuationReproducible`).  Nothing in them is out of the provers'
  reach; the NAS commands run one at a time on one slot, a valuation looks at one
  call at a time, and their instances are close to what the code meets.
