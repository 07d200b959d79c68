--------------------------- MODULE RootActionBroker ---------------------------
(***************************************************************************)
(* The root-action broker service: one listener thread that serves one     *)
(* request at a time (listener.py, broker.py, auth_service.py), one        *)
(* execution worker thread fed by a bounded queue (worker.py), and the     *)
(* SQLite store both commit to (posix_store.py).  Every store operation    *)
(* that changes state is one BEGIN IMMEDIATE transaction, hence one step;  *)
(* whatever lies between two transactions of a handler can be separated by *)
(* steps of the other thread, by a crash, or by another broker process.    *)
(***************************************************************************)
EXTENDS RootActionState, Sequences, FiniteSets

CONSTANTS
  Jobs,                      \* job ids that may be submitted
  NoJob,                     \* placeholder: a thread holds no job
  Policy,                    \* [Jobs -> {"auto", "approval", "disabled"}]
  LineageOf,                 \* [Jobs -> lineages]
  PeerOf,                    \* [Jobs -> submitting uids]
  FailureReason,             \* reason codes a handler may fail with
  TechnicalReason,           \* LineageFailurePolicy.technical_reason_codes
  MaximumTechnicalFailures, LineageWindow,
  MaxOpenPerUid, MaxOpenPerLineage, MaxJobsPerUidWindow, RateWindow,
  QueueCapacity,
  Faults,                    \* fault kinds that may happen in this instance
  MaxFaults, MaxClock        \* bounds of the instance

FaultKind == {"crash", "clock", "second_instance", "store"}

ASSUME BrokerAssumption ==
  /\ NoJob \notin Jobs
  /\ Policy \in [Jobs -> {"auto", "approval", "disabled"}]
  /\ None \notin FailureReason
  /\ QueueCapacity \in Nat \ {0}
  /\ Faults \subseteq FaultKind
  /\ MaxFaults \in Nat /\ MaxClock \in Nat

\* What LineageFailurePolicy and _validate_submission insist on, and that a
\* submission refused by the circuit breaker is no technical failure itself.
ASSUME LimitsAssumption ==
  /\ \A n \in {MaximumTechnicalFailures, LineageWindow, MaxOpenPerUid,
               MaxOpenPerLineage, MaxJobsPerUidWindow, RateWindow} : n \in Nat \ {0}
  /\ "technical_failure_circuit_open" \notin TechnicalReason

Reason == FailureReason \cup
  {"handler_succeeded", "disabled_unverified_authority",
   "technical_failure_circuit_open", "broker_restarted_with_running_job",
   "worker_queue_unavailable", "worker_outcome_uncertain"}

VARIABLES
  records,   \* root_action_records; Absent for a job that was never sealed
  received,  \* broker_received_at of root_action_jobs
  ledger,    \* root_action_ledger, per job
  raw,       \* root_action_raw_receipts: which event stored the job's one row
  receipt,   \* root_action_receipts through root_action_receipt_current
  listener,  \* [pc, job] of the listener thread; "down" is the whole process
  worker,    \* [pc, job, revision, outcome, reason] of the worker thread
  queue,     \* RootActionExecutionWorker._queue
  clock,     \* wall clock, in seconds
  faults,    \* faults spent so far
  runs,      \* history: how often handler.run was entered for the job
  returned   \* history: the outcome handler.run returned, if it did

store   == <<records, received, ledger, raw, receipt>>
threads == <<listener, worker, queue>>
history == <<runs, returned>>
vars    == <<store, threads, clock, faults, history>>

Absent == [InitialRecord(0) EXCEPT !.state = "absent"]

NoReceipt == [kind |-> None, terminal_outcome |-> None, reason_code |-> None]

IdleWorker == [pc |-> "idle", job |-> NoJob, revision |-> 0,
               outcome |-> None, reason |-> None]

At(pc, j) == [pc |-> pc, job |-> j]

Sealed == {j \in Jobs : records[j] # Absent}

LedgerRow == [action : TransitionKind \cup {"sealed_pending"},
              prior_state : JobState \cup {None},
              next_state : JobState, record_revision : Nat]

Receipt == [kind : {None, "public", "unknown", "terminal_notice"},
            terminal_outcome : TerminalOutcome \cup {None},
            reason_code : Reason \cup {None}]

TypeOK ==
  /\ records \in [Jobs -> JobRecord(Reason) \cup {Absent}]
  /\ received \in [Jobs -> Nat]
  /\ ledger \in [Jobs -> Seq(LedgerRow)]
  /\ raw \in [Jobs -> {None, "complete_execution", "mark_unknown"}]
  /\ receipt \in [Jobs -> Receipt]
  /\ listener \in [pc : {"down", "starting", "idle", "claim", "dispatch"},
                   job : Jobs \cup {NoJob}]
  /\ worker \in [pc : {"idle", "run", "running", "commit", "except"},
                 job : Jobs \cup {NoJob}, revision : Nat,
                 outcome : ExecutedOutcome \cup {None},
                 reason : Reason \cup {None}]
  /\ queue \in Seq(Jobs)
  /\ clock \in Nat
  /\ faults \in Nat
  /\ runs \in [Jobs -> Nat]
  /\ returned \in [Jobs -> ExecutedOutcome \cup {None}]

Init ==
  /\ records = [j \in Jobs |-> Absent]
  /\ received = [j \in Jobs |-> 0]
  /\ ledger = [j \in Jobs |-> <<>>]
  /\ raw = [j \in Jobs |-> None]
  /\ receipt = [j \in Jobs |-> NoReceipt]
  /\ listener = At("starting", NoJob)
  /\ worker = IdleWorker
  /\ queue = <<>>
  /\ clock = 0
  /\ faults = 0
  /\ runs = [j \in Jobs |-> 0]
  /\ returned = [j \in Jobs |-> None]

-------------------------------------------------------------------------------
(* Store transactions *)

Event(kind, revision, outcome, reason) ==
  [kind |-> kind, expected_revision |-> revision, occurred_at |-> clock,
   outcome |-> outcome, reason_code |-> reason]

\* Mutant: the entry carries the revision the event expected.
LedgerEntryOldRevision(r, e) ==
  [action |-> e.kind, prior_state |-> r.state,
   next_state |-> NextState(e.kind), record_revision |-> r.revision]

LedgerEntry(r, e) ==
  [action |-> e.kind, prior_state |-> r.state,
   next_state |-> NextState(e.kind), record_revision |-> r.revision + 1]

SealedEntry == [action |-> "sealed_pending", prior_state |-> None,
                next_state |-> "pending", record_revision |-> 0]

\* _compare_and_append, run inside a caller's transaction.
CompareAndAppend(j, e) ==
  /\ Admits(records[j], e)
  /\ records' = [records EXCEPT ![j] = ApplyTransition(@, e)]
  /\ ledger' = [ledger EXCEPT ![j] = Append(@, LedgerEntry(records[j], e))]

\* _insert_receipt: only an unknown notice gives way to a later receipt.
ReceiptReplaceable(j, kind) ==
  \/ receipt[j].kind = None
  \/ receipt[j].kind = "unknown" /\ kind # "unknown"

\* _finalize_claimed_execution: raw receipt, state and public receipt of a
\* claimed job change together.
CanFinalize(j, e) ==
  /\ raw[j] = None
  /\ Admits(records[j], e)
  /\ ReceiptReplaceable(j, IF e.kind = "mark_unknown" THEN "unknown" ELSE "public")

Finalize(j, e) ==
  /\ CanFinalize(j, e)
  /\ raw' = [raw EXCEPT ![j] = e.kind]
  /\ CompareAndAppend(j, e)
  /\ receipt' = [receipt EXCEPT ![j] =
       IF e.kind = "mark_unknown"
       THEN [kind |-> "unknown", terminal_outcome |-> None,
             reason_code |-> e.reason_code]
       ELSE [kind |-> "public", terminal_outcome |-> e.outcome,
             reason_code |-> None]]
  /\ UNCHANGED received

\* The event _mark_unknown builds from the record it reads.
UnknownEvent(j, reason) ==
  Event("mark_unknown", records[j].revision, None, reason)

OpenState == {"pending", "running", "unknown"}

Open(S) == {j \in S : records[j].state \in OpenState}

OfLineage(j) == {k \in Sealed : LineageOf[k] = LineageOf[j]}
OfPeer(j)    == {k \in Sealed : PeerOf[k] = PeerOf[j]}

\* _enforce_submission_limits at broker_received_at = clock.
WithinLimits(j) ==
  /\ Cardinality(Open(OfPeer(j))) < MaxOpenPerUid
  /\ Cardinality(Open(OfLineage(j))) < MaxOpenPerLineage
  /\ Cardinality({k \in OfPeer(j) : received[k] >= clock - RateWindow})
       < MaxJobsPerUidWindow

TechnicalFailure(j) ==
  /\ records[j].terminal_outcome \in {"failed", "prestart_failed"}
  /\ records[j].reason_code \in TechnicalReason

\* _lineage_summary(...).technical_failure_count measured now.
TechnicalFailureCount(j) ==
  Cardinality({k \in OfLineage(j) :
                 /\ received[k] >= clock - LineageWindow
                 /\ received[k] <= clock
                 /\ TechnicalFailure(k)})

\* Mutant: the breaker opens one failure too late.
CircuitOpenLate(j) == TechnicalFailureCount(j) > MaximumTechnicalFailures

CircuitOpen(j) == TechnicalFailureCount(j) >= MaximumTechnicalFailures

\* Mutant: the terminal notice is left to a later transaction.
SealClosedWithoutNotice(j, outcome, reason) ==
  LET pending == InitialRecord(clock)
      e == Event("close_pending", 0, outcome, reason)
  IN /\ records' = [records EXCEPT ![j] = ApplyTransition(pending, e)]
     /\ received' = [received EXCEPT ![j] = clock]
     /\ ledger' = [ledger EXCEPT ![j] = <<SealedEntry, LedgerEntry(pending, e)>>]
     /\ UNCHANGED <<raw, receipt>>

\* The transaction that seals a job and closes it before it could start.
SealClosed(j, outcome, reason) ==
  LET pending == InitialRecord(clock)
      e == Event("close_pending", 0, outcome, reason)
  IN /\ records' = [records EXCEPT ![j] = ApplyTransition(pending, e)]
     /\ received' = [received EXCEPT ![j] = clock]
     /\ ledger' = [ledger EXCEPT ![j] = <<SealedEntry, LedgerEntry(pending, e)>>]
     /\ receipt' = [receipt EXCEPT ![j] =
          [kind |-> "terminal_notice", terminal_outcome |-> outcome,
           reason_code |-> reason]]
     /\ UNCHANGED raw

-------------------------------------------------------------------------------
(* The listener thread *)

\* submit: what every new submission must pass before its sealing transaction.
Submittable(j) == listener.pc = "idle" /\ j \notin Sealed /\ WithinLimits(j)

\* submit of a disabled operation: sealed and rejected in one transaction.
SubmitRejected(j) ==
  /\ Submittable(j) /\ Policy[j] = "disabled"
  /\ SealClosed(j, "rejected", "disabled_unverified_authority")
  /\ UNCHANGED <<threads, clock, faults, history>>

\* submit while the lineage has spent its technical failures.
SubmitCircuitOpen(j) ==
  /\ Submittable(j) /\ Policy[j] # "disabled" /\ CircuitOpen(j)
  /\ SealClosed(j, "prestart_failed", "technical_failure_circuit_open")
  /\ UNCHANGED <<threads, clock, faults, history>>

\* submit of an admitted job; an automatic one goes on to its claim.
SubmitPending(j) ==
  /\ Submittable(j) /\ Policy[j] # "disabled" /\ ~CircuitOpen(j)
  /\ records' = [records EXCEPT ![j] = InitialRecord(clock)]
  /\ received' = [received EXCEPT ![j] = clock]
  /\ ledger' = [ledger EXCEPT ![j] = <<SealedEntry>>]
  /\ listener' = IF Policy[j] = "auto" THEN At("claim", j) ELSE listener
  /\ UNCHANGED <<raw, receipt, worker, queue, clock, faults, history>>

\* submit of a job that is already sealed: the stored result is returned.
RecoverIdempotent(j) ==
  /\ listener.pc = "idle" /\ j \in Sealed
  /\ UNCHANGED vars

ClaimEvent == Event("claim_execution", 0, None, None)

\* _auto_claim_and_dispatch up to its commit.  The claim carries a wall-clock
\* time of its own, so a clock set back since the job was sealed makes
\* apply_transition raise: the request fails and the job stays pending.
AutoClaim ==
  /\ listener.pc = "claim"
  /\ IF Admits(records[listener.job], ClaimEvent)
     THEN /\ CompareAndAppend(listener.job, ClaimEvent)
          /\ listener' = At("dispatch", listener.job)
     ELSE /\ listener' = At("idle", NoJob)
          /\ UNCHANGED <<records, ledger>>
  /\ UNCHANGED <<received, raw, receipt, worker, queue, clock, faults, history>>

\* finish_approval up to the commit of claim_with_approval.  The ceremony is
\* the subject of RootActionAuth; any pending job may be approved.
ClaimWithApproval(j) ==
  /\ listener.pc = "idle"
  /\ CompareAndAppend(j, ClaimEvent)
  /\ listener' = At("dispatch", j)
  /\ UNCHANGED <<received, raw, receipt, worker, queue, clock, faults, history>>

ExactClaim(j) == records[j].state = "running" /\ records[j].execution_count = 1

\* Mutant: a full queue fails the request and leaves the claim alone.
EnqueueDropsOnFull ==
  LET j == listener.job
  IN /\ listener.pc = "dispatch"
     /\ listener' = At("idle", NoJob)
     /\ IF ExactClaim(j) /\ Len(queue) < QueueCapacity
        THEN queue' = Append(queue, j) ELSE UNCHANGED queue
     /\ UNCHANGED <<store, worker, clock, faults, history>>

\* enqueue: the claimed job is handed to the worker, or becomes unknown when
\* the queue is full.  A job that is no longer running is refused.
Enqueue ==
  LET j == listener.job
      e == UnknownEvent(j, "worker_queue_unavailable")
  IN /\ listener.pc = "dispatch"
     /\ listener' = At("idle", NoJob)
     /\ \/ /\ ExactClaim(j) /\ Len(queue) < QueueCapacity
           /\ queue' = Append(queue, j)
           /\ UNCHANGED store
        \/ /\ ExactClaim(j) /\ Len(queue) >= QueueCapacity
           /\ IF CanFinalize(j, e) THEN Finalize(j, e) ELSE UNCHANGED store
           /\ UNCHANGED queue
        \/ /\ ~ExactClaim(j)
           /\ UNCHANGED <<store, queue>>
     /\ UNCHANGED <<worker, clock, faults, history>>

-------------------------------------------------------------------------------
(* The worker thread: _run and _execute *)

\* queue.get and the checks on the record read before the handler starts.
\* The revision read here is the one the completion is conditioned on.
WorkerTake ==
  /\ worker.pc = "idle" /\ queue # <<>>
  /\ queue' = Tail(queue)
  /\ worker' = [IdleWorker EXCEPT
                  !.pc = IF ExactClaim(Head(queue)) THEN "run" ELSE "except",
                  !.job = Head(queue),
                  !.revision = records[Head(queue)].revision]
  /\ UNCHANGED <<store, listener, clock, faults, history>>

\* handler.run is entered: from here on the root action has effects.
WorkerRun ==
  /\ worker.pc = "run"
  /\ worker' = [worker EXCEPT !.pc = "running"]
  /\ runs' = [runs EXCEPT ![worker.job] = @ + 1]
  /\ UNCHANGED <<store, listener, queue, clock, faults, returned>>

\* handler.run returns a HandlerResult ...
WorkerReturn(outcome, reason) ==
  /\ worker.pc = "running"
  /\ (outcome = "succeeded") <=> (reason = "handler_succeeded")
  /\ worker' = [worker EXCEPT !.pc = "commit", !.outcome = outcome,
                              !.reason = reason]
  /\ returned' = [returned EXCEPT ![worker.job] = outcome]
  /\ UNCHANGED <<store, listener, queue, clock, faults, runs>>

\* Mutant: an exception of the handler is reported as a failed execution.
WorkerRaiseFails ==
  /\ worker.pc = "running"
  /\ worker' = [worker EXCEPT !.pc = "commit", !.outcome = "failed",
                              !.reason = "worker_outcome_uncertain"]
  /\ UNCHANGED <<store, listener, queue, clock, faults, history>>

\* ... or raises.
WorkerRaise ==
  /\ worker.pc = "running"
  /\ worker' = [worker EXCEPT !.pc = "except"]
  /\ UNCHANGED <<store, listener, queue, clock, faults, history>>

CompletionEvent == Event("complete_execution", worker.revision,
                         worker.outcome, worker.reason)

Fault(kind) ==
  /\ kind \in Faults
  /\ faults < MaxFaults
  /\ faults' = faults + 1

\* complete_claimed_execution; a conflict or a store error raises.
WorkerCommit ==
  /\ worker.pc = "commit"
  /\ \/ /\ CanFinalize(worker.job, CompletionEvent)
        /\ Finalize(worker.job, CompletionEvent)
        /\ worker' = IdleWorker
        /\ UNCHANGED faults
     \/ /\ ~CanFinalize(worker.job, CompletionEvent) /\ UNCHANGED faults
        /\ worker' = [worker EXCEPT !.pc = "except"]
        /\ UNCHANGED store
     \/ /\ Fault("store")
        /\ worker' = [worker EXCEPT !.pc = "except"]
        /\ UNCHANGED store
  /\ UNCHANGED <<listener, queue, clock, history>>

\* Mutant: a job whose outcome is uncertain is put back on the queue.
WorkerExceptRetries ==
  /\ worker.pc = "except"
  /\ worker' = IdleWorker
  /\ queue' = IF ExactClaim(worker.job) THEN Append(queue, worker.job) ELSE queue
  /\ UNCHANGED <<store, listener, clock, faults, history>>

\* The except clause of _execute: a job that is still running becomes unknown;
\* any further error is swallowed and the job stays running.
WorkerExcept ==
  LET e == UnknownEvent(worker.job, "worker_outcome_uncertain")
  IN /\ worker.pc = "except"
     /\ worker' = IdleWorker
     /\ \/ /\ CanFinalize(worker.job, e)
           /\ Finalize(worker.job, e)
           /\ UNCHANGED faults
        \/ ~CanFinalize(worker.job, e) /\ UNCHANGED <<store, faults>>
        \/ Fault("store") /\ UNCHANGED store
     /\ UNCHANGED <<listener, queue, clock, history>>

-------------------------------------------------------------------------------
(* Process start, crash, a second process, and the clock *)

Running == {j \in Jobs : records[j].state = "running"}

RestartEvent(j) == UnknownEvent(j, "broker_restarted_with_running_job")

\* recover_orphaned_claims, one job: an error ends the starting process.
RecoverOrphan(j) ==
  /\ listener.pc = "starting" /\ j \in Running
  /\ IF CanFinalize(j, RestartEvent(j))
     THEN Finalize(j, RestartEvent(j)) /\ UNCHANGED listener
     ELSE listener' = At("down", NoJob) /\ UNCHANGED store
  /\ UNCHANGED <<worker, queue, clock, faults, history>>

\* Mutant: the service starts to serve without waiting for the recovery.
ServeAtOnce ==
  /\ listener.pc = "starting"
  /\ listener' = At("idle", NoJob)
  /\ UNCHANGED <<store, worker, queue, clock, faults, history>>

\* main: the worker and the listener start once no job is left running.
Serve ==
  /\ listener.pc = "starting" /\ Running = {}
  /\ listener' = At("idle", NoJob)
  /\ UNCHANGED <<store, worker, queue, clock, faults, history>>

\* The process dies: the threads and the in-memory queue are lost.
Crash ==
  /\ listener.pc # "down"
  /\ Fault("crash")
  /\ listener' = At("down", NoJob)
  /\ worker' = IdleWorker
  /\ queue' = <<>>
  /\ UNCHANGED <<store, clock, history>>

\* systemd restarts the failed service.
Restart ==
  /\ listener.pc = "down"
  /\ listener' = At("starting", NoJob)
  /\ UNCHANGED <<store, worker, queue, clock, faults, history>>

\* main of another broker process (the legacy and the standalone unit share
\* one state root): it recovers "orphans" before listener.open finds the lock
\* taken, so it acts on jobs the serving process is still executing.  A process
\* that is starting itself and has already listed the job fails over it.
SecondInstanceRecovers(j) ==
  /\ j \in Running
  /\ Fault("second_instance")
  /\ CanFinalize(j, RestartEvent(j)) /\ Finalize(j, RestartEvent(j))
  /\ \/ UNCHANGED listener
     \/ listener.pc = "starting" /\ listener' = At("down", NoJob)
  /\ UNCHANGED <<worker, queue, clock, history>>

Tick ==
  /\ clock < MaxClock
  /\ clock' = clock + 1
  /\ UNCHANGED <<store, threads, faults, history>>

\* The wall clock is set back.
ClockStepsBack ==
  /\ clock > 0
  /\ Fault("clock")
  /\ clock' = clock - 1
  /\ UNCHANGED <<store, threads, history>>

-------------------------------------------------------------------------------
ListenerStep == AutoClaim \/ Enqueue \/ Serve \/ \E j \in Jobs : RecoverOrphan(j)

WorkerStep ==
  \/ WorkerTake \/ WorkerRun \/ WorkerRaise \/ WorkerCommit \/ WorkerExcept
  \/ \E outcome \in ExecutedOutcome, reason \in FailureReason \cup {"handler_succeeded"} :
        WorkerReturn(outcome, reason)

Request ==
  \E j \in Jobs : \/ SubmitRejected(j) \/ SubmitCircuitOpen(j) \/ SubmitPending(j)
                  \/ RecoverIdempotent(j) \/ ClaimWithApproval(j)

Next ==
  \/ Request \/ ListenerStep \/ WorkerStep
  \/ Crash \/ Restart \/ \E j \in Jobs : SecondInstanceRecovers(j)
  \/ Tick \/ ClockStepsBack

Spec == Init /\ [][Next]_vars

\* A thread that can go on does, a handler ends (its commands have timeouts),
\* and systemd restarts the service (Restart=on-failure).
Fairness == WF_vars(ListenerStep) /\ WF_vars(WorkerStep) /\ WF_vars(Restart)

FairSpec == Spec /\ Fairness

-------------------------------------------------------------------------------
(* Properties *)

\* A handler is entered at most once per job, over all threads, processes and
\* restarts, and never without a durable claim (the "one-shot" of worker.py and
\* state.py): claims, the queue and recovery never lead to a second run.
HandlerRunsOnce ==
  \A j \in Jobs : /\ runs[j] <= 1
                  /\ runs[j] = 1 => records[j].execution_count = 1

\* Where a claimed job is on its way to the handler.
Dispatching(j) == listener.pc = "dispatch" /\ listener.job = j
InQueue(j)     == \E i \in 1..Len(queue) : queue[i] = j
InHand(j)      == worker.pc # "idle" /\ worker.job = j

\* A claim is handed on and never copied: the job is with the listener, in the
\* queue once, or with the worker, and nowhere before its claim is durable.
ClaimHandedOn ==
  /\ \A i, k \in 1..Len(queue) : queue[i] = queue[k] => i = k
  /\ \A j \in Jobs :
       /\ Dispatching(j) => ~InQueue(j) /\ ~InHand(j)
       /\ InQueue(j) => ~InHand(j)
       /\ Dispatching(j) \/ InQueue(j) \/ InHand(j) =>
            records[j].execution_count = 1

\* A record that reports a result reports the one the handler returned, and a
\* job closed without execution was never entered.
VerdictTruthful ==
  \A j \in Jobs :
    /\ records[j].terminal_outcome \in ExecutedOutcome =>
         runs[j] = 1 /\ returned[j] = records[j].terminal_outcome
    /\ records[j].terminal_outcome \in ClosedOutcome => runs[j] = 0

\* The four tables about a job agree whenever no transaction is open: the
\* requester finds a receipt exactly when the state is terminal or unknown,
\* of the kind and with the outcome the record has, backed by a raw receipt
\* when the job was claimed.
ReceiptMatchesRecord ==
  \A j \in Jobs :
    LET r == records[j]
    IN /\ (receipt[j] # NoReceipt) <=> r.state \in {"terminal", "unknown"}
       /\ r.state = "unknown" =>
            receipt[j].kind = "unknown" /\ raw[j] = "mark_unknown"
       /\ r.state = "terminal" =>
            /\ receipt[j].terminal_outcome = r.terminal_outcome
            /\ IF r.execution_count = 1
               THEN receipt[j].kind = "public" /\ raw[j] = "complete_execution"
               ELSE receipt[j].kind = "terminal_notice" /\ raw[j] = None

\* The ledger is the history of the record: gapless revisions, each entry
\* starting in the state the previous one ended in, the last one the current
\* state (what history_projection insists on).
LedgerExplainsRecord ==
  \A j \in Sealed :
    LET l == ledger[j]
    IN /\ Len(l) = records[j].revision + 1
       /\ l[Len(l)].next_state = records[j].state
       /\ \A i \in 1..Len(l) : l[i].record_revision = i - 1
       /\ \A i \in 2..Len(l) : l[i].prior_state = l[i - 1].next_state

\* The limits of admission bound what a lineage and a uid can hold and spend,
\* at every moment and not only when they are checked: open jobs, submissions
\* in any rate window, and technical failures in any window of LineageWindow
\* seconds that ends with a submission (the circuit breaker together with the
\* open-job limit leaves no room for one more).  A clock that is set back
\* defeats the windows, so the run about it has a monotone one.
AdmissionBounded ==
  \A j \in Sealed :
    LET Since(w) == {k \in Sealed : /\ received[k] >= received[j] - w
                                    /\ received[k] <= received[j]}
    IN /\ Cardinality(Open(OfLineage(j))) <= MaxOpenPerLineage
       /\ Cardinality(Open(OfPeer(j))) <= MaxOpenPerUid
       /\ Cardinality(OfPeer(j) \cap Since(RateWindow)) <= MaxJobsPerUidWindow
       /\ Cardinality({k \in OfLineage(j) \cap Since(LineageWindow) : TechnicalFailure(k)})
            <= MaximumTechnicalFailures - 1 + MaxOpenPerLineage

\* Nothing the store holds about a job changes once its state is terminal or
\* unknown, whatever late completion, recovery or retry still arrives.
FinalStateIsFinal ==
  [][\A j \in Jobs : records[j].state \in {"terminal", "unknown"} =>
       /\ records'[j] = records[j] /\ receipt'[j] = receipt[j]
       /\ raw'[j] = raw[j] /\ ledger'[j] = ledger[j]]_vars

\* Every claimed job reaches a terminal or unknown state, in spite of crashes:
\* the worker or the next start of the service sees to it.
ClaimedJobSettles ==
  \A j \in Jobs : (records[j].state = "running") ~> (records[j].state # "running")

\* Every automatic job that was sealed gets its verdict, also when the queue is
\* full, unless the service crashes first.
AutomaticJobDecided ==
  \A j \in Jobs : (listener = At("claim", j))
                    ~> \/ records[j].state \in {"terminal", "unknown"}
                       \/ listener.pc = "down"

\* The abstract verdict and effect of a job.
VerdictOf(r) ==
  IF r.state = "absent" THEN "none"
  ELSE IF r.state = "pending" THEN "open"
  ELSE IF r.state = "running" THEN "claimed"
  ELSE IF r.state = "unknown" THEN "unknown" ELSE r.terminal_outcome

EffectOf(j) ==
  IF returned[j] # None THEN returned[j]
  ELSE IF runs[j] = 0 THEN "none" ELSE "entered"

OneShot == INSTANCE OneShotJob WITH
  verdict <- [j \in Jobs |-> VerdictOf(records[j])],
  effect  <- [j \in Jobs |-> EffectOf(j)]

\* The broker implements the one-shot job: every step of it is a step of
\* OneShotJob on the verdicts and effects, or leaves them alone.
ImplementsOneShotJob == OneShot!Spec
=============================================================================
