------------------------ MODULE RootActionPublication ------------------------
(***************************************************************************)
(* The public side of the root-action broker: what it builds from its      *)
(* store with separate reads, writes to one projection.json per job and    *)
(* lists in a catalog of immutable pages behind catalog.json.              *)
(* Two threads build and publish: the listener, which is also the thread   *)
(* that starts the service, and the execution worker.                      *)
(***************************************************************************)
EXTENDS Integers, Sequences, FiniteSets

CONSTANTS
    Jobs,
    AutoDispatch,   \* the jobs whose operation needs no approval
    Polled,         \* the jobs whose requester asks again after its submit
    Absent,         \* no record, no file, no catalog, no generation
    CatalogLimit,   \* PUBLIC_CATALOG_JOB_LIMIT; one job to a page
    MaxFaults

ASSUME PublicationAssumption ==
    /\ IsFiniteSet(Jobs) /\ AutoDispatch \cup Polled \subseteq Jobs /\ Absent \notin Jobs
    /\ CatalogLimit \in Nat \ {0} /\ MaxFaults \in Nat

VARIABLES
    record,     \* record[j]: its revision
    recent,     \* the jobs, the one that changed last first
    file,       \* file[j]: <job>/projection.json
    catalog,    \* the generation that catalog.json names
    pages,      \* the files under catalog-generations/
    published,  \* _published_projection_digests and _revisions, oldest first
    threads, lock, broker, faults,
    missed      \* the jobs whose file the last attempt did not write

vars == <<record, recent, file, catalog, pages, published, threads, lock,
          broker, faults, missed>>
store == <<record, recent>>
disk == <<file, catalog, pages, missed>>

Threads == {"listener", "worker"}

\* The states of a record, in the order of its revisions.
Pending == 0
Running == 1
Final == 2
Revisions == {Pending, Running, Final}

\* A bundle says which revision its status and its history are of and whether
\* it carries the receipt; its digest is a function of the three.
Bundle == [job : Jobs, status : Revisions, history : Revisions,
           receipt : BOOLEAN]

ASSUME AbsentIsNothing ==
    Absent \notin Revisions /\ Absent \notin Threads /\ Absent \notin Bundle

NoBundle == [job |-> Absent, status |-> Pending, history |-> Pending,
             receipt |-> FALSE]
Resting == [at |-> "idle", job |-> Absent, draft |-> NoBundle,
            bundle |-> NoBundle, listed |-> {}, todo |-> <<>>, done |-> <<>>,
            keep |-> {}, next |-> "answer"]

Submitted == {j \in Jobs : record[j] # Absent}

Elements(s) == {s[i] : i \in DOMAIN s}

\* A sequence without its entry at one of these positions, if there is one.
Drop(s, positions) ==
    IF positions = {} THEN s
    ELSE LET i == CHOOSE k \in positions : TRUE
         IN SubSeq(s, 1, i - 1) \o SubSeq(s, i + 1, Len(s))

Init ==
    /\ record = [j \in Jobs |-> Absent] /\ recent = <<>>
    /\ file = [j \in Jobs |-> Absent] /\ catalog = Absent /\ pages = {}
    /\ published = <<>> /\ missed = {}
    /\ threads = [t \in Threads |-> Resting] /\ lock = Absent
    /\ broker = "serving" /\ faults = 0

Fails == faults < MaxFaults /\ faults' = faults + 1
Works == UNCHANGED faults

With(thread, changes) ==
    [f \in DOMAIN thread |-> IF f \in DOMAIN changes THEN changes[f] ELSE thread[f]]
Goes(t, changes) == threads' = [threads EXCEPT ![t] = With(@, changes)]
At(t, step) == threads[t].at = step

------------------------------------------------------------------------------
(* The store: every change of a record is one transaction, which writes its *)
(* ledger entry and, for a final state, its receipt.                        *)

Commit(j, revision) ==
    /\ record' = [record EXCEPT ![j] = revision]
    /\ recent' = <<j>> \o Drop(recent, {i \in DOMAIN recent : recent[i] = j})

HasReceipt(j) == record[j] = Final

\* status_projection: a receipt is shown with a final state only.
\* history_projection: the ledger, replayed, ends in the state of the record.
StatusFits(revision, receipt) == receipt => revision = Final
HistoryOf(j) == record[j]

------------------------------------------------------------------------------
(* The handlers, up to the point where they turn to the public copy *)

\* submit: sealed and pending; claimed and handed to the worker in the same
\* call if the operation needs no approval; or final at once when the circuit
\* of its lineage is open or the worker does not take it.
Submit(j) ==
    /\ broker = "serving" /\ At("listener", "idle") /\ record[j] = Absent
    /\ \E revision \in {Final, IF j \in AutoDispatch THEN Running ELSE Pending} :
         /\ Commit(j, revision)
         /\ Goes("listener", [at |-> IF revision = Running THEN "submitted" ELSE "lock",
                              job |-> j, next |-> "retrieve"])
    /\ UNCHANGED <<disk, published, lock, broker, faults>>

\* The status it returns is formed from the record of the claim and a receipt
\* read now: a receipt that is there already does not fit, and the connection
\* is closed without an answer.
SubmittedStatus ==
    LET j == threads["listener"].job IN
    /\ At("listener", "submitted")
    /\ \/ StatusFits(Running, HasReceipt(j)) /\ Goes("listener", [at |-> "lock"])
       \/ ~ StatusFits(Running, HasReceipt(j)) /\ Goes("listener", Resting)
    /\ UNCHANGED <<store, disk, published, lock, broker, faults>>

\* finish_approval claims the job and hands it to the worker.
Approve(j) ==
    /\ broker = "serving" /\ At("listener", "idle") /\ record[j] = Pending
    /\ Commit(j, Running)
    /\ Goes("listener", [at |-> "receipt", job |-> j, next |-> "answer"])
    /\ UNCHANGED <<disk, published, lock, broker, faults>>

\* requester_projection, for a client that polls.
Retrieve(j) ==
    /\ broker = "serving" /\ At("listener", "idle")
    /\ j \in Polled /\ record[j] # Absent
    /\ Goes("listener", [at |-> "receipt", job |-> j, next |-> "answer"])
    /\ UNCHANGED <<store, disk, published, lock, broker, faults>>

\* Mutant: the worker does not repair the public copy.
ExecuteOnly(j) ==
    /\ broker = "serving" /\ At("worker", "idle") /\ record[j] = Running
    /\ Commit(j, Final)
    /\ UNCHANGED <<disk, published, threads, lock, broker, faults>>

\* _execute ends in complete_claimed_execution, or in the record of an outcome
\* that is not known, and repairs the public copy of either.
Execute(j) ==
    /\ broker = "serving" /\ At("worker", "idle") /\ record[j] = Running
    /\ Commit(j, Final)
    /\ Goes("worker", [at |-> "receipt", job |-> j, next |-> "answer"])
    /\ UNCHANGED <<disk, published, lock, broker, faults>>

------------------------------------------------------------------------------
(* public_projection: three reads of the store *)

\* The job that is read: the next one of a catalog that is being listed, or
\* the one whose public copy the thread is at.
Reading(t) ==
    IF threads[t].todo # <<>> THEN Head(threads[t].todo) ELSE threads[t].job

ReadReceipt(t) ==
    /\ At(t, "receipt")
    /\ Goes(t, [at |-> "record",
                draft |-> [NoBundle EXCEPT !.job = Reading(t),
                                           !.receipt = HasReceipt(Reading(t))]])
    /\ UNCHANGED <<store, disk, published, lock, broker, faults>>

ReadRecord(t) ==
    /\ At(t, "record")
    /\ StatusFits(record[Reading(t)], threads[t].draft.receipt)
    /\ Goes(t, [at |-> "ledger",
                draft |-> [threads[t].draft EXCEPT !.status = record[Reading(t)]]])
    /\ UNCHANGED <<store, disk, published, lock, broker, faults>>

\* Mutant: the receipt is read with the ledger, after the record.
ReadLedgerAndReceipt(t) ==
    LET b == [threads[t].draft EXCEPT !.history = HistoryOf(Reading(t)),
                                      !.receipt = HasReceipt(Reading(t))] IN
    /\ At(t, "ledger")
    /\ IF threads[t].todo # <<>>
       THEN Goes(t, [at |-> IF Len(threads[t].todo) = 1 THEN "pages" ELSE "receipt",
                     listed |-> threads[t].listed \cup {b},
                     draft |-> NoBundle, todo |-> Tail(threads[t].todo)])
       ELSE Goes(t, [at |-> IF lock = t THEN "publish" ELSE "lock",
                     draft |-> NoBundle, bundle |-> b])
    /\ UNCHANGED <<store, disk, published, lock, broker, faults>>

\* The bundle is complete.  A thread without the lock asks for it; one that
\* rebuilt its bundle under the lock goes on; one that lists the catalog adds
\* it to the list.
ReadLedger(t) ==
    LET b == [threads[t].draft EXCEPT !.history = HistoryOf(Reading(t))] IN
    /\ At(t, "ledger")
    /\ IF threads[t].todo # <<>>
       THEN Goes(t, [at |-> IF Len(threads[t].todo) = 1 THEN "pages" ELSE "receipt",
                     listed |-> threads[t].listed \cup {b},
                     draft |-> NoBundle, todo |-> Tail(threads[t].todo)])
       ELSE Goes(t, [at |-> IF lock = t THEN "publish" ELSE "lock",
                     draft |-> NoBundle, bundle |-> b])
    /\ UNCHANGED <<store, disk, published, lock, broker, faults>>

------------------------------------------------------------------------------
(* _repair_public_best_effort *)

\* Mutant: the bundle that was built before the lock is published as it is.
TakeLockAsBuilt(t) ==
    /\ At(t, "lock") /\ lock = Absent /\ lock' = t
    /\ Goes(t, [at |-> IF threads[t].bundle # NoBundle THEN "publish" ELSE "receipt"])
    /\ UNCHANGED <<store, disk, published, broker, faults>>

\* With the lock, the bundle is kept only if it is of the revision that the
\* store has now.
TakeLock(t) ==
    LET b == threads[t].bundle IN
    /\ At(t, "lock") /\ lock = Absent /\ lock' = t
    /\ Goes(t, [at |-> IF b # NoBundle /\ b.status = record[threads[t].job]
                       THEN "publish" ELSE "receipt"])
    /\ UNCHANGED <<store, disk, published, broker, faults>>

\* The thread is done with the public copy: submit goes on to the projection
\* that it answers with, the recovery of a start to the next orphan.
After(thread) ==
    CASE thread.next = "answer" -> Resting
      [] thread.next = "retrieve" -> [Resting EXCEPT !.at = "receipt",
                                                     !.job = thread.job]
      [] thread.next = "recover" -> [Resting EXCEPT !.at = "recover",
                                                    !.next = "recover"]

Leaves(t) ==
    /\ lock' = Absent
    /\ threads' = [threads EXCEPT ![t] = After(@)]

Remembered(j) == {i \in DOMAIN published : published[i].job = j}

Stale(b) == \E i \in Remembered(b.job) : b.status < published[i].status
Known(b) == \E i \in Remembered(b.job) : b = published[i]

\* AtomicPublicProjectionPublisher.publish: a temporary file that replaces
\* projection.json, or an error and the old file.
WriteFile(b) ==
    \/ /\ file' = [file EXCEPT ![b.job] = b]
       /\ missed' = missed \ {b.job} /\ Works
    \/ missed' = missed \cup {b.job} /\ UNCHANGED file /\ Fails

\* catalog_job_ids: the jobs that changed last.
Listing ==
    [at |-> "receipt",
     todo |-> SubSeq(recent, 1, IF Len(recent) < CatalogLimit THEN Len(recent)
                                ELSE CatalogLimit)]

\* What is older than the published copy, or the same, is not written; after
\* the file comes the catalog.
Publish(t) ==
    LET b == threads[t].bundle IN
    /\ At(t, "publish")
    /\ \/ (Stale(b) \/ Known(b)) /\ Leaves(t) /\ UNCHANGED <<file, missed, faults>>
       \/ /\ ~ Stale(b) /\ ~ Known(b) /\ WriteFile(b)
          /\ IF b.job \in missed' THEN Leaves(t)
             ELSE Goes(t, Listing) /\ UNCHANGED lock
    /\ UNCHANGED <<store, catalog, pages, published, broker>>

------------------------------------------------------------------------------
(* _publish_catalog *)

\* A generation is named by the digest of its entries: the same entries are
\* the same generation, and one page holds one entry.
PageOf(generation, b) ==
    [generation |-> generation, entry |-> b, whole |-> TRUE]
Whole(generation) == \A b \in generation : PageOf(generation, b) \in pages
Torn(page) == [page EXCEPT !.whole = FALSE]

\* publish_catalog stops at the first error; in a repair the error is noted
\* and forgotten, in a start it ends the process.
CatalogFails(t) ==
    \/ /\ threads[t].next # "serve"
       /\ Leaves(t) /\ UNCHANGED <<broker, published>>
    \/ /\ threads[t].next = "serve"
       /\ lock' = Absent /\ threads' = [threads EXCEPT ![t] = Resting]
       /\ broker' = "down" /\ published' = <<>>

\* _publish_immutable_file: a page that is there already must be the same to
\* the byte; a write that fails half way leaves what it wrote.
WritePage(t) ==
    LET generation == threads[t].listed IN
    /\ At(t, "pages")
    /\ \E b \in generation :
         LET page == PageOf(generation, b)
         IN /\ page \notin pages
            /\ \/ /\ Torn(page) \notin pages /\ pages' = pages \cup {page}
                  /\ Works /\ UNCHANGED <<threads, lock, broker, published>>
               \/ /\ Torn(page) \notin pages /\ pages' = pages \cup {Torn(page)}
                  /\ Fails /\ CatalogFails(t)
               \/ /\ Torn(page) \in pages /\ UNCHANGED pages
                  /\ Works /\ CatalogFails(t)
    /\ UNCHANGED <<store, file, catalog, missed>>

\* Mutant: catalog.json is replaced first.
SwitchCatalogEarly(t) ==
    LET generation == threads[t].listed
        prior == IF catalog # Absent /\ Whole(catalog) THEN {catalog} ELSE {}
    IN /\ At(t, "pages")
       /\ catalog' = generation
       /\ Goes(t, [at |-> "prune", keep |-> {generation} \cup prior])
       /\ Works /\ UNCHANGED <<lock, broker, published>>
       /\ UNCHANGED <<store, file, pages, missed>>

\* _publish_current_catalog: catalog.json is replaced once every page of the
\* new generation is there.  The one it replaces is kept if it validates.
SwitchCatalog(t) ==
    LET generation == threads[t].listed
        prior == IF catalog # Absent /\ Whole(catalog) THEN {catalog} ELSE {}
    IN /\ At(t, "pages") /\ Whole(generation)
       /\ \/ /\ catalog' = generation
             /\ Goes(t, [at |-> "prune", keep |-> {generation} \cup prior])
             /\ Works /\ UNCHANGED <<lock, broker, published>>
          \/ Fails /\ CatalogFails(t) /\ UNCHANGED catalog
       /\ UNCHANGED <<store, file, pages, missed>>

Unkept(t) == {p \in pages : p.generation \notin threads[t].keep}

\* _remember_publication: the newest last, at most CatalogLimit of them.
Remember(remembered, b) ==
    LET earlier == {i \in DOMAIN remembered : remembered[i].job = b.job}
        all == Append(Drop(remembered, earlier), b)
    IN IF Len(all) > CatalogLimit THEN Tail(all) ELSE all

BundleOf(j) == [job |-> j, status |-> record[j], history |-> HistoryOf(j),
                receipt |-> HasReceipt(j)]

\* The bundles of these jobs, remembered one after the other.
LastBundles(order) ==
    LET skip == IF Len(order) > CatalogLimit THEN Len(order) - CatalogLimit ELSE 0
    IN [i \in 1 .. Len(order) - skip |-> BundleOf(order[skip + i])]

\* _prune_catalog_generations; then, in memory, the publication is remembered.
\* A start that came here has published every job, and serves.
Prune(t) ==
    /\ At(t, "prune")
    /\ \/ /\ pages' = pages \ Unkept(t) /\ Works
          /\ \/ /\ threads[t].next # "serve"
                /\ published' = Remember(published, threads[t].bundle)
                /\ Leaves(t) /\ UNCHANGED broker
             \/ /\ threads[t].next = "serve"
                /\ published' = LastBundles(threads[t].done)
                /\ lock' = Absent /\ threads' = [threads EXCEPT ![t] = Resting]
                /\ broker' = "serving"
       \/ \E gone \in SUBSET Unkept(t) :
            pages' = pages \ gone /\ Fails /\ CatalogFails(t)
    /\ UNCHANGED <<store, file, catalog, missed>>

------------------------------------------------------------------------------
(* Stop and start *)

\* The process dies: what it had half written of a page, or half removed of an
\* old generation, stays.
Kill ==
    /\ broker # "down" /\ broker' = "down" /\ Fails
    /\ threads' = [t \in Threads |-> Resting] /\ lock' = Absent
    /\ published' = <<>>
    /\ \/ UNCHANGED pages
       \/ \E t \in Threads : \E b \in threads[t].listed :
            LET page == PageOf(threads[t].listed, b) IN
            /\ At(t, "pages") /\ {page, Torn(page)} \cap pages = {}
            /\ pages' = pages \cup {Torn(page)}
       \/ \E t \in Threads : \E gone \in SUBSET Unkept(t) :
            At(t, "prune") /\ gone # {} /\ pages' = pages \ gone
    /\ UNCHANGED <<store, file, catalog, missed>>

\* systemd starts it again.
Start ==
    /\ broker = "down" /\ broker' = "starting"
    /\ Goes("listener", [at |-> "recover", next |-> "recover"])
    /\ UNCHANGED <<store, disk, published, lock, faults>>

\* recover_orphaned_claims, one orphan at a time, each with its repair; then
\* reconcile_public, which builds every bundle while nothing else runs.
Recover ==
    /\ At("listener", "recover")
    /\ \/ \E j \in Jobs :
            /\ record[j] = Running /\ Commit(j, Final)
            /\ Goes("listener", [at |-> "receipt", job |-> j])
            /\ UNCHANGED lock
       \/ /\ \A j \in Jobs : record[j] # Running
          /\ lock = Absent /\ lock' = "listener"
          /\ Goes("listener", [at |-> "reconcile", next |-> "serve", done |-> <<>>])
          /\ UNCHANGED store
    /\ UNCHANGED <<disk, published, broker, faults>>

\* list_job_ids orders by job id, and an id is random: the jobs come in any order.
Reconcile ==
    LET done == threads["listener"].done IN
    /\ At("listener", "reconcile")
    /\ \/ /\ Elements(done) = Submitted
          /\ Goes("listener", IF recent = <<>> THEN [at |-> "pages"] ELSE Listing)
          /\ UNCHANGED <<file, missed, lock, broker, faults, published>>
       \/ \E j \in Submitted \ Elements(done) :
            /\ WriteFile(BundleOf(j))
            /\ IF j \in missed' THEN CatalogFails("listener")
               ELSE Goes("listener", [done |-> Append(done, j)])
                    /\ UNCHANGED <<lock, broker, published>>
    /\ UNCHANGED <<store, catalog, pages>>

------------------------------------------------------------------------------

ThreadStep(t) ==
    \/ ReadReceipt(t) \/ ReadRecord(t) \/ ReadLedger(t)
    \/ TakeLock(t) \/ Publish(t)
    \/ WritePage(t) \/ SwitchCatalog(t) \/ Prune(t)

ListenerStep == SubmittedStatus \/ Start \/ Recover \/ Reconcile \/ ThreadStep("listener")
WorkerStep == (\E j \in Jobs : Execute(j)) \/ ThreadStep("worker")

Next ==
    \/ \E j \in Jobs : Submit(j) \/ Approve(j) \/ Retrieve(j)
    \/ ListenerStep \/ WorkerStep \/ Kill

\* Both threads run what they have begun, the worker takes what is queued and,
\* however often the listener takes the lock, gets it too in the end, and
\* systemd starts a service that failed.
Fairness ==
    WF_vars(ListenerStep) /\ WF_vars(WorkerStep) /\ SF_vars(TakeLock("worker"))

Spec == Init /\ [][Next]_vars /\ Fairness

------------------------------------------------------------------------------
(* Properties *)

\* Every variable has its type; in particular no page, file or memory holds a
\* bundle of no job.
TypeOK ==
    /\ record \in [Jobs -> Revisions \cup {Absent}]
    /\ Elements(recent) = Submitted
    /\ \A i, k \in DOMAIN recent : recent[i] = recent[k] => i = k
    /\ \A j \in Jobs : file[j] = Absent \/ (file[j] \in Bundle /\ file[j].job = j)
    /\ catalog = Absent \/ catalog \subseteq Bundle
    /\ \A p \in pages : p.entry \in Bundle /\ p.generation \subseteq Bundle
    /\ Elements(published) \subseteq Bundle /\ Len(published) <= CatalogLimit
    /\ \A t \in Threads : threads[t].bundle \in Bundle \cup {NoBundle}
    /\ lock \in Threads \cup {Absent}
    /\ broker \in {"serving", "down", "starting"}
    /\ faults \in 0 .. MaxFaults /\ missed \subseteq Jobs

Ordered(b) == (b.receipt => b.status = Final) /\ b.status <= b.history

\* The three reads of public_projection form one view whatever commits between
\* them: a receipt comes only with the final state (anything else is refused by
\* status_projection, and the poll would end without an answer), and the
\* history holds at least the event of the state that the status reports.
BundlesOrdered ==
    /\ \A t \in Threads : \A b \in {threads[t].bundle} \cup threads[t].listed : Ordered(b)
    /\ \A j \in Jobs : file[j] # Absent => Ordered(file[j])

\* Whatever the two threads interleave, whatever the bounded memory of what was
\* published has forgotten, and across a crash: projection.json never goes back
\* to an earlier revision of its job.
PublicNeverBack ==
    [][\A j \in Jobs : file[j] # Absent => file'[j] # Absent
                                          /\ file'[j].status >= file[j].status]_vars

\* catalog.json names a generation whose pages are all there and whole.
CatalogReadable == catalog # Absent => Whole(catalog)

\* catalog.json always names a generation whose pages are all there and whole:
\* through a crash in the middle of a page, of a prune or of a start, and when
\* a generation that was once given up comes back; and nothing in the store, on
\* disk or in memory is of no job.
CatalogWhole == TypeOK /\ CatalogReadable

\* Every change of a record reaches its public file, unless the file could not
\* be written: also one that was committed just before the process died, and
\* one whose repair had to wait for, or was overtaken by, the other thread.
FilesCatchUp ==
    []<>(\A j \in Submitted \ missed : file[j] # Absent /\ file[j].status = record[j])
=============================================================================
