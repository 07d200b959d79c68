--------------------------- MODULE RootActionState ---------------------------
(***************************************************************************)
(* The pure state machine of one root action: root_actions/state.py.       *)
(* A record is what the table root_action_records holds for a job; the     *)
(* identity fields (job_id, job_digest, last_event_id) are left out, since *)
(* every event id is fresh and a job has one digest.  A transition is      *)
(* `Admits' (no exception is raised) together with `ApplyTransition' (the  *)
(* record that is returned).                                               *)
(***************************************************************************)
EXTENDS Integers

JobState == {"pending", "running", "terminal", "unknown"}

TransitionKind == {"claim_execution", "close_pending", "complete_execution",
                   "mark_unknown", "reconcile_unknown"}

\* The two halves of TerminalOutcome: results of an execution, and closures
\* of a job that never started.
ExecutedOutcome == {"succeeded", "failed"}
ClosedOutcome   == {"rejected", "expired", "canceled", "prestart_failed"}
TerminalOutcome == ExecutedOutcome \cup ClosedOutcome

None == "none"   \* Python's None

\* Reasons are opaque to the state machine; only their presence matters.
JobRecord(Reason) ==
  [state : JobState, revision : Nat, execution_count : {0, 1},
   terminal_outcome : TerminalOutcome \cup {None},
   reason_code : Reason \cup {None}, last_changed_at : Nat]

InitialRecord(at) ==
  [state |-> "pending", revision |-> 0, execution_count |-> 0,
   terminal_outcome |-> None, reason_code |-> None, last_changed_at |-> at]

\* The state-dependent half of validate_record.
ValidRecord(r) ==
  /\ r.state \in JobState
  /\ r.execution_count =
       IF r.state \in {"running", "unknown"} \/ r.terminal_outcome \in ExecutedOutcome
       THEN 1 ELSE 0
  /\ r.terminal_outcome # None <=> r.state = "terminal"
  /\ r.reason_code # None <=> r.state \in {"terminal", "unknown"}

TransitionEvent(Reason) ==
  [kind : TransitionKind, expected_revision : Nat, occurred_at : Nat,
   outcome : TerminalOutcome \cup {None}, reason_code : Reason \cup {None}]

\* The precondition each kind of event adds to the common ones.
KindAllowed(r, e) ==
  \/ /\ e.kind = "claim_execution"
     /\ r.state = "pending" /\ r.execution_count = 0
     /\ e.outcome = None /\ e.reason_code = None
  \/ /\ e.kind = "close_pending"
     /\ r.state = "pending"
     /\ e.outcome \in ClosedOutcome /\ e.reason_code # None
  \/ /\ e.kind = "complete_execution"
     /\ r.state = "running" /\ r.execution_count = 1
     /\ e.outcome \in ExecutedOutcome /\ e.reason_code # None
  \/ /\ e.kind = "mark_unknown"
     /\ r.state = "running" /\ r.execution_count = 1
     /\ e.outcome = None /\ e.reason_code # None
  \/ /\ e.kind = "reconcile_unknown"
     /\ r.state = "unknown" /\ r.execution_count = 1
     /\ e.outcome \in ExecutedOutcome /\ e.reason_code # None

Admits(r, e) ==
  /\ ValidRecord(r)
  /\ e.expected_revision = r.revision
  /\ e.occurred_at >= r.last_changed_at
  /\ KindAllowed(r, e)

NextState(kind) ==
  IF kind = "claim_execution" THEN "running"
  ELSE IF kind = "mark_unknown" THEN "unknown" ELSE "terminal"

ApplyTransition(r, e) ==
  [state            |-> NextState(e.kind),
   revision         |-> r.revision + 1,
   execution_count  |-> IF e.kind = "close_pending" THEN 0 ELSE 1,
   terminal_outcome |-> e.outcome,
   reason_code      |-> e.reason_code,
   last_changed_at  |-> e.occurred_at]
==============================================================================
