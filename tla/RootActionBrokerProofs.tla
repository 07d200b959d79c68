------------------------ MODULE RootActionBrokerProofs ------------------------
(***************************************************************************)
(* RootActionBroker, for every set of jobs, policy, limit, fault budget:   *)
(* its types and what its store transactions do to a record; a record is   *)
(* the sum of its ledger and admission keeps within the limits; a root     *)
(* action is executed at most once and reported truthfully, what is        *)
(* settled stays settled, the tables agree, and the broker implements      *)
(* OneShotJob.                                                             *)
(***************************************************************************)
EXTENDS RootActionBroker, TLAPS

-------------------------------------------------------------------------------
(* The state machine of one record *)

\* apply_transition returns a record of the right type that passes the
\* validate_record call at its end, so a transition that is admitted never
\* raises after the fact; and it is only admitted for a job that was sealed.
LEMMA TransitionSound ==
  ASSUME NEW R, NEW r, r.revision \in Nat, NEW e \in TransitionEvent(R), Admits(r, e)
  PROVE  /\ ApplyTransition(r, e) \in JobRecord(R)
         /\ ValidRecord(ApplyTransition(r, e))
         /\ r.state \in JobState
         /\ NextState(e.kind) \in JobState
         /\ ApplyTransition(r, e).state = NextState(e.kind)
<1>1. r.state \in JobState
  BY DEF Admits, ValidRecord
<1>2. NextState(e.kind) \in JobState
  BY DEF NextState, JobState
<1>3. e.outcome \in TerminalOutcome \cup {None} /\ e.reason_code \in R \cup {None}
      /\ e.occurred_at \in Nat
  BY DEF TransitionEvent
<1>4. ApplyTransition(r, e) \in JobRecord(R)
  BY <1>2, <1>3 DEF ApplyTransition, JobRecord
<1>5. ValidRecord(ApplyTransition(r, e))
  <2> DEFINE n == ApplyTransition(r, e)
  <2>1. /\ n.state = NextState(e.kind)
        /\ n.execution_count = (IF e.kind = "close_pending" THEN 0 ELSE 1)
        /\ n.terminal_outcome = e.outcome /\ n.reason_code = e.reason_code
    BY DEF ApplyTransition
  <2> SUFFICES ValidRecord(n)
    OBVIOUS
  <2> HIDE DEF n
  <2> USE <2>1 DEF ValidRecord, NextState, Admits, KindAllowed, JobState,
                   ExecutedOutcome, ClosedOutcome, None
  <2>2. CASE e.kind = "claim_execution"
    BY <2>2
  <2>3. CASE e.kind = "close_pending"
    BY <2>3
  <2>4. CASE e.kind \in {"complete_execution", "reconcile_unknown"}
    BY <2>4
  <2>5. CASE e.kind = "mark_unknown"
    BY <2>5
  <2>6. e.kind \in TransitionKind
    BY DEF TransitionEvent
  <2>7. QED
    BY <2>2, <2>3, <2>4, <2>5, <2>6 DEF TransitionKind
<1>6. QED
  BY <1>1, <1>2, <1>4, <1>5 DEF ApplyTransition

-------------------------------------------------------------------------------
(* Types *)

\* The fields of the placeholder record of a job that was never sealed.
LEMMA AbsentFields ==
  /\ Absent.state = "absent" /\ Absent.execution_count = 0 /\ Absent.revision = 0
  /\ Absent.terminal_outcome = None /\ Absent.reason_code = None
  /\ ~ValidRecord(Absent)
BY DEF Absent, InitialRecord, ValidRecord, JobState

\* A record as it is sealed.
LEMMA InitialFields ==
  ASSUME NEW at
  PROVE  /\ InitialRecord(at).state = "pending" /\ InitialRecord(at).execution_count = 0
         /\ InitialRecord(at).terminal_outcome = None /\ InitialRecord(at) # Absent
BY AbsentFields DEF InitialRecord

\* A job without a receipt has none of the kinds.
LEMMA NoReceiptKind ==
  NoReceipt.kind \notin {"unknown", "public", "terminal_notice"}
BY DEF NoReceipt, None

\* No job ends with the outcome None, and a job that ran is not one that never did.
LEMMA NoneIsNoOutcome ==
  None \notin ExecutedOutcome \cup ClosedOutcome /\ 0 # 1
BY DEF None, ExecutedOutcome, ClosedOutcome

\* Arithmetic of windows: what was received at r lies in the window of length w
\* that ends at t, hence in the one that ends at an earlier c; and time goes on.
LEMMA WindowMoves ==
  ASSUME NEW r \in Nat, NEW c \in Nat, NEW t \in Int, NEW w \in Nat, r >= t - w, c <= t
  PROVE  r >= c - w
OBVIOUS

LEMMA TimeGoesOn ==
  ASSUME NEW r \in Nat, NEW c \in Nat, NEW d \in Nat, r <= c, d >= c
  PROVE  r <= d
OBVIOUS

\* Whatever is stored for a job, its revision is a number.
LEMMA RevisionType ==
  ASSUME TypeOK, NEW j \in Jobs
  PROVE  records[j].revision \in Nat
BY AbsentFields DEF TypeOK, JobRecord

\* An event is appended to a job that is there.
LEMMA AppendedStates ==
  ASSUME TypeOK, NEW j \in Jobs, NEW e \in TransitionEvent(Reason), CompareAndAppend(j, e)
  PROVE  records[j].state \in JobState /\ records'[j].state \in JobState
<1>1. records[j].revision \in Nat /\ Admits(records[j], e)
  BY RevisionType DEF CompareAndAppend
<1>2. records'[j] = ApplyTransition(records[j], e)
  BY DEF CompareAndAppend, TypeOK
<1>3. QED
  BY <1>1, <1>2, TransitionSound

\* Appending an event keeps records and ledger well typed.
LEMMA AppendType ==
  ASSUME TypeOK, NEW j \in Jobs, NEW e \in TransitionEvent(Reason),
         CompareAndAppend(j, e)
  PROVE  /\ records' \in [Jobs -> JobRecord(Reason) \cup {Absent}]
         /\ ledger' \in [Jobs -> Seq(LedgerRow)]
         /\ records' = [records EXCEPT ![j] = ApplyTransition(records[j], e)]
         /\ Admits(records[j], e)
<1>1. /\ ApplyTransition(records[j], e) \in JobRecord(Reason)
      /\ records[j].state \in JobState
      /\ NextState(e.kind) \in JobState
  BY RevisionType, TransitionSound DEF CompareAndAppend
<1>2. LedgerEntry(records[j], e) \in LedgerRow
  BY <1>1, RevisionType DEF LedgerEntry, LedgerRow, TransitionEvent
<1>3. Append(ledger[j], LedgerEntry(records[j], e)) \in Seq(LedgerRow)
  BY <1>2 DEF TypeOK
<1>4. QED
  BY <1>1, <1>3 DEF CompareAndAppend, TypeOK

\* The events the broker and the worker build are well formed.
LEMMA EventType ==
  ASSUME TypeOK,
         NEW kind \in TransitionKind, NEW revision \in Nat,
         NEW outcome \in TerminalOutcome \cup {None},
         NEW reason \in Reason \cup {None}
  PROVE  Event(kind, revision, outcome, reason) \in TransitionEvent(Reason)
BY DEF Event, TransitionEvent, TypeOK

LEMMA ClaimEventType ==
  ASSUME TypeOK
  PROVE  ClaimEvent \in TransitionEvent(Reason)
BY EventType DEF ClaimEvent, TransitionKind

LEMMA UnknownEventType ==
  ASSUME TypeOK, NEW j \in Jobs, NEW reason \in Reason
  PROVE  UnknownEvent(j, reason) \in TransitionEvent(Reason)
BY EventType, RevisionType DEF UnknownEvent, TransitionKind

LEMMA CompletionEventType ==
  ASSUME TypeOK
  PROVE  CompletionEvent \in TransitionEvent(Reason)
BY EventType, Zenon DEF CompletionEvent, TransitionKind, TypeOK, TerminalOutcome

\* The finalizing transaction keeps the store well typed.
LEMMA FinalizeType ==
  ASSUME TypeOK, NEW j \in Jobs, NEW e \in TransitionEvent(Reason), Finalize(j, e),
         e.kind \in {"complete_execution", "mark_unknown"}
  PROVE  /\ records' \in [Jobs -> JobRecord(Reason) \cup {Absent}]
         /\ received' \in [Jobs -> Nat]
         /\ ledger' \in [Jobs -> Seq(LedgerRow)]
         /\ raw' \in [Jobs -> {None, "complete_execution", "mark_unknown"}]
         /\ receipt' \in [Jobs -> Receipt]
<1>1. /\ records' \in [Jobs -> JobRecord(Reason) \cup {Absent}]
      /\ ledger' \in [Jobs -> Seq(LedgerRow)]
  BY AppendType DEF Finalize
<1>2. raw' \in [Jobs -> {None, "complete_execution", "mark_unknown"}]
  BY DEF Finalize, TypeOK
<1>3. e.outcome \in TerminalOutcome \cup {None} /\ e.reason_code \in Reason \cup {None}
  BY DEF TransitionEvent
<1>4. receipt' \in [Jobs -> Receipt]
  BY <1>3 DEF Finalize, TypeOK, Receipt
<1>5. QED
  BY <1>1, <1>2, <1>4, Zenon DEF Finalize, TypeOK

\* A thread past its first step holds a real job.
ThreadJobs ==
  /\ listener.pc \in {"claim", "dispatch"} => listener.job \in Jobs
  /\ worker.pc # "idle" => worker.job \in Jobs

TypeInv == TypeOK /\ ThreadJobs

LEMMA TypeInvInit == Init => TypeInv
<1> SUFFICES ASSUME Init PROVE TypeInv
  OBVIOUS
<1>1. received \in [Jobs -> Nat] /\ clock \in Nat /\ faults \in Nat /\ runs \in [Jobs -> Nat]
  BY DEF Init
<1>2. records \in [Jobs -> JobRecord(Reason) \cup {Absent}]
  BY DEF Init
<1>3. ledger \in [Jobs -> Seq(LedgerRow)] /\ queue \in Seq(Jobs)
  BY DEF Init
<1>4. receipt \in [Jobs -> Receipt]
  BY Zenon DEF Init, NoReceipt, Receipt
<1>5. QED
  BY <1>1, <1>2, <1>3, <1>4 DEF Init, TypeInv, TypeOK, ThreadJobs, At, IdleWorker

\* One step per action of Next.
LEMMA TypeInvStep == TypeInv /\ [Next]_vars => TypeInv'
<1> SUFFICES ASSUME TypeOK, ThreadJobs, [Next]_vars PROVE TypeInv'
  BY DEF TypeInv
<1> USE DEF TypeInv, ThreadJobs
<1> DEFINE StoreOK == /\ records' \in [Jobs -> JobRecord(Reason) \cup {Absent}]
                      /\ received' \in [Jobs -> Nat]
                      /\ ledger' \in [Jobs -> Seq(LedgerRow)]
                      /\ raw' \in [Jobs -> {None, "complete_execution", "mark_unknown"}]
                      /\ receipt' \in [Jobs -> Receipt]
           Listener == [pc : {"down", "starting", "idle", "claim", "dispatch"},
                        job : Jobs \cup {NoJob}]
           Worker == [pc : {"idle", "run", "running", "commit", "except"},
                      job : Jobs \cup {NoJob}, revision : Nat,
                      outcome : ExecutedOutcome \cup {None},
                      reason : Reason \cup {None}]
<1>0. UNCHANGED store => StoreOK
  BY DEF store, TypeOK
<1>f. ASSUME NEW j \in Jobs, NEW reason \in Reason, Finalize(j, UnknownEvent(j, reason))
      PROVE  StoreOK
  BY <1>f, FinalizeType, UnknownEventType DEF UnknownEvent, Event
<1>s. ASSUME NEW j \in Jobs, NEW outcome \in ClosedOutcome, NEW reason \in Reason,
             SealClosed(j, outcome, reason)
      PROVE  StoreOK
  <2> DEFINE e == Event("close_pending", 0, outcome, reason)
             n == ApplyTransition(InitialRecord(clock), e)
  <2>1. n \in JobRecord(Reason)
    BY DEF ApplyTransition, InitialRecord, JobRecord, Event, TypeOK, NextState,
           JobState, TerminalOutcome
  <2>2. <<SealedEntry, LedgerEntry(InitialRecord(clock), e)>> \in Seq(LedgerRow)
    BY DEF SealedEntry, LedgerEntry, LedgerRow, InitialRecord, Event, JobState,
           NextState, TransitionKind
  <2>3. [kind |-> "terminal_notice", terminal_outcome |-> outcome,
         reason_code |-> reason] \in Receipt
    BY DEF Receipt, TerminalOutcome
  <2> HIDE DEF n, e
  <2>4. QED
    BY <1>s, <2>1, <2>2, <2>3, SMTT(60), Zenon DEF SealClosed, TypeOK, n, e
<1>1. ASSUME NEW j \in Jobs, SubmitRejected(j) PROVE TypeInv'
  <2>1. StoreOK
    BY <1>1, <1>s, Zenon DEF SubmitRejected, ClosedOutcome, Reason
  <2>2. QED
    BY <1>1, <2>1, Zenon DEF SubmitRejected, TypeOK, threads, history
<1>2. ASSUME NEW j \in Jobs, SubmitCircuitOpen(j) PROVE TypeInv'
  <2>1. StoreOK
    BY <1>2, <1>s, Zenon DEF SubmitCircuitOpen, ClosedOutcome, Reason
  <2>2. QED
    BY <1>2, <2>1, Zenon DEF SubmitCircuitOpen, TypeOK, threads, history
<1>3. ASSUME NEW j \in Jobs, SubmitPending(j) PROVE TypeInv'
  <2>1. InitialRecord(clock) \in JobRecord(Reason)
    BY DEF InitialRecord, JobRecord, TypeOK, JobState
  <2>2. <<SealedEntry>> \in Seq(LedgerRow)
    BY DEF SealedEntry, LedgerRow, JobState
  <2>3. StoreOK
    BY <1>3, <2>1, <2>2, SMTT(60), Zenon DEF SubmitPending, TypeOK
  <2>4. QED
    BY <1>3, <2>3, SMTT(60), Zenon DEF SubmitPending, TypeOK, history, At
<1>4. ASSUME NEW j \in Jobs, RecoverIdempotent(j) PROVE TypeInv'
  BY <1>4, Zenon DEF RecoverIdempotent, vars, store, threads, history, TypeOK
<1>5. ASSUME NEW j \in Jobs, ClaimWithApproval(j) PROVE TypeInv'
  <2>1. /\ records' \in [Jobs -> JobRecord(Reason) \cup {Absent}]
        /\ ledger' \in [Jobs -> Seq(LedgerRow)]
    BY <1>5, AppendType, ClaimEventType DEF ClaimWithApproval
  <2>2. QED
    BY <1>5, <2>1, Zenon DEF ClaimWithApproval, TypeOK, history, At
<1>6. CASE AutoClaim
  <2>1. /\ records' \in [Jobs -> JobRecord(Reason) \cup {Absent}]
        /\ ledger' \in [Jobs -> Seq(LedgerRow)]
    BY <1>6, AppendType, ClaimEventType, Zenon DEF AutoClaim, TypeOK
  <2>2. QED
    <3>1. listener' \in Listener /\ ThreadJobs'
      BY <1>6 DEF AutoClaim, TypeOK, At
    <3>2. QED
      BY <1>6, <2>1, <3>1, Zenon DEF AutoClaim, TypeOK, history
<1>7. CASE Enqueue
  <2>1. StoreOK
    BY <1>7, <1>0, <1>f, Zenon DEF Enqueue, Reason
  <2>2. queue' \in Seq(Jobs)
    <3>1. listener.job \in Jobs /\ (queue' = queue \/ queue' = Append(queue, listener.job))
      BY <1>7 DEF Enqueue
    <3>2. queue \in Seq(Jobs)
      BY DEF TypeOK
    <3>3. QED
      BY <3>1, <3>2
  <2>3. QED
    BY <1>7, <2>1, <2>2, Zenon DEF Enqueue, TypeOK, history, At
<1>8. CASE Serve
  BY <1>8 DEF Serve, TypeOK, store, history, At
<1>9. ASSUME NEW j \in Jobs, RecoverOrphan(j) PROVE TypeInv'
  <2>1. StoreOK
    BY <1>9, <1>0, <1>f, Zenon DEF RecoverOrphan, RestartEvent, Reason
  <2>2. QED
    <3>1. listener' \in Listener /\ ThreadJobs'
      BY <1>9 DEF RecoverOrphan, TypeOK, At
    <3>2. QED
      BY <1>9, <2>1, <3>1, Zenon DEF RecoverOrphan, TypeOK, history
<1>10. CASE WorkerTake
  <2>1. Head(queue) \in Jobs /\ Tail(queue) \in Seq(Jobs)
    BY <1>10 DEF WorkerTake, TypeOK
  <2>2. records[Head(queue)].revision \in Nat
    BY <2>1, RevisionType
  <2>3. QED
    BY <1>10, <2>1, <2>2, Zenon DEF WorkerTake, TypeOK, store, history, IdleWorker
<1>11. CASE WorkerRun
  <2>1. worker' \in Worker /\ ThreadJobs'
    BY <1>11, Zenon DEF WorkerRun, TypeOK
  <2>2. runs' \in [Jobs -> Nat]
    BY <1>11 DEF WorkerRun, TypeOK
  <2>3. QED
    BY <1>11, <2>1, <2>2, Zenon DEF WorkerRun, TypeOK, store
<1>12. ASSUME NEW outcome \in ExecutedOutcome,
              NEW reason \in FailureReason \cup {"handler_succeeded"},
              WorkerReturn(outcome, reason)
       PROVE  TypeInv'
  BY <1>12, Zenon DEF WorkerReturn, TypeOK, store, Reason
<1>13. CASE WorkerRaise
  BY <1>13, Zenon DEF WorkerRaise, TypeOK, store, history
<1>14. CASE WorkerCommit
  <2>1. StoreOK
    BY <1>14, <1>0, FinalizeType, CompletionEventType
       DEF WorkerCommit, CompletionEvent, Event
  <2>2. faults' \in Nat
    BY <1>14 DEF WorkerCommit, Fault, TypeOK
  <2>3. QED
    <3>1. /\ worker' = IdleWorker \/ worker' = [worker EXCEPT !.pc = "except"]
          /\ worker.job \in Jobs /\ UNCHANGED <<listener, queue, clock, history>>
      BY <1>14 DEF WorkerCommit
    <3>2. worker \in Worker
      BY DEF TypeOK
    <3>3. worker' \in Worker /\ ThreadJobs'
      BY <3>1, <3>2 DEF IdleWorker
    <3>4. QED
      BY <2>1, <2>2, <3>1, <3>3, Zenon DEF TypeOK, history
<1>15. CASE WorkerExcept
  <2>1. StoreOK
    BY <1>15, <1>0, <1>f, Zenon DEF WorkerExcept, Reason, store
  <2>2. faults' \in Nat
    BY <1>15 DEF WorkerExcept, Fault, TypeOK
  <2>3. QED
    BY <1>15, <2>1, <2>2, Zenon DEF WorkerExcept, TypeOK, history, IdleWorker
<1>16. CASE Crash
  BY <1>16 DEF Crash, Fault, TypeOK, store, history, At, IdleWorker
<1>17. CASE Restart
  BY <1>17 DEF Restart, TypeOK, store, history, At
<1>18. ASSUME NEW j \in Jobs, SecondInstanceRecovers(j) PROVE TypeInv'
  <2>1. StoreOK
    BY <1>18, <1>f, Zenon DEF SecondInstanceRecovers, RestartEvent, Reason
  <2>2. QED
    <3>1. listener' \in Listener /\ ThreadJobs'
      BY <1>18 DEF SecondInstanceRecovers, TypeOK, At
    <3>2. faults' \in Nat /\ UNCHANGED <<worker, queue, clock, history>>
      BY <1>18 DEF SecondInstanceRecovers, Fault, TypeOK
    <3>3. QED
      BY <2>1, <3>1, <3>2, Zenon DEF TypeOK, history
<1>19. CASE Tick
  BY <1>19 DEF Tick, TypeOK, store, threads, history
<1>20. CASE ClockStepsBack
  BY <1>20 DEF ClockStepsBack, TypeOK, store, threads, history, Fault
<1>21. CASE UNCHANGED vars
  BY <1>21 DEF vars, store, threads, history, TypeOK
<1>22. QED
  BY <1>1, <1>2, <1>3, <1>4, <1>5, <1>6, <1>7, <1>8, <1>9, <1>10, <1>11, <1>12,
     <1>13, <1>14, <1>15, <1>16, <1>17, <1>18, <1>19, <1>20, <1>21
     DEF Next, Request, ListenerStep, WorkerStep

\* Every reachable state of the broker is well typed.
THEOREM TypeCorrect == Spec => []TypeOK
<1>1. Spec => []TypeInv
  BY TypeInvInit, TypeInvStep, PTL DEF Spec
<1>2. TypeInv => TypeOK
  BY DEF TypeInv
<1>3. QED
  BY <1>1, <1>2, PTL

-------------------------------------------------------------------------------
(* What the store transactions do to a record *)

\* A claim is granted to a pending job and makes it running.
LEMMA ClaimEffect ==
  ASSUME TypeOK, NEW j \in Jobs, CompareAndAppend(j, ClaimEvent)
  PROVE  /\ records[j].state = "pending" /\ records[j].execution_count = 0
         /\ records' = [records EXCEPT ![j] = records'[j]]
         /\ records'[j].state = "running" /\ records'[j].execution_count = 1
         /\ records'[j].terminal_outcome = None
<1>1. records' = [records EXCEPT ![j] = ApplyTransition(records[j], ClaimEvent)]
      /\ KindAllowed(records[j], ClaimEvent)
  BY DEF CompareAndAppend, Admits
<1>2. records'[j] = ApplyTransition(records[j], ClaimEvent)
  BY <1>1 DEF TypeOK
<1>3. records' = [records EXCEPT ![j] = records'[j]]
  BY <1>1, <1>2, Zenon
<1>4. QED
  BY <1>1, <1>2, <1>3 DEF ApplyTransition, NextState, KindAllowed, ClaimEvent, Event

\* Only a running job becomes unknown.
LEMMA UnknownEffect ==
  ASSUME TypeOK, NEW j \in Jobs, NEW reason, Finalize(j, UnknownEvent(j, reason))
  PROVE  /\ records[j].state = "running" /\ records[j].execution_count = 1
         /\ records' = [records EXCEPT ![j] = records'[j]]
         /\ records'[j].state = "unknown" /\ records'[j].execution_count = 1
         /\ records'[j].terminal_outcome = None
<1> DEFINE e == UnknownEvent(j, reason)
<1>1. records' = [records EXCEPT ![j] = ApplyTransition(records[j], e)]
      /\ KindAllowed(records[j], e)
  BY Zenon DEF Finalize, CompareAndAppend, Admits
<1>2. records'[j] = ApplyTransition(records[j], e)
  BY <1>1, SMTT(60) DEF TypeOK
<1>3. records' = [records EXCEPT ![j] = records'[j]]
  BY <1>1, <1>2, ZenonT(40)
<1>4. /\ records[j].state = "running" /\ records[j].execution_count = 1
  BY <1>1, SMTT(60), Zenon DEF KindAllowed, UnknownEvent, Event
<1>5. /\ records'[j].state = "unknown" /\ records'[j].execution_count = 1
      /\ records'[j].terminal_outcome = None
  BY <1>2 DEF ApplyTransition, NextState, UnknownEvent, Event
<1>6. QED
  BY <1>3, <1>4, <1>5, Zenon

\* Only a running job completes, with the outcome the worker holds.
LEMMA CompletionEffect ==
  ASSUME TypeOK, NEW j \in Jobs, Finalize(j, CompletionEvent)
  PROVE  /\ records[j].state = "running" /\ records[j].execution_count = 1
         /\ records' = [records EXCEPT ![j] = records'[j]]
         /\ records'[j].state = "terminal" /\ records'[j].execution_count = 1
         /\ records'[j].terminal_outcome = worker.outcome
         /\ worker.outcome \in ExecutedOutcome
<1>1. records' = [records EXCEPT ![j] = ApplyTransition(records[j], CompletionEvent)]
      /\ KindAllowed(records[j], CompletionEvent)
  BY Zenon DEF Finalize, CompareAndAppend, Admits
<1>2. records'[j] = ApplyTransition(records[j], CompletionEvent)
  BY <1>1 DEF TypeOK
<1>3. records' = [records EXCEPT ![j] = records'[j]]
  BY <1>1, <1>2, Zenon
<1>4. /\ records[j].state = "running" /\ records[j].execution_count = 1
      /\ worker.outcome \in ExecutedOutcome
  BY <1>1, SMTT(60), Zenon DEF KindAllowed, CompletionEvent, Event
<1>5. /\ records'[j].state = "terminal" /\ records'[j].execution_count = 1
      /\ records'[j].terminal_outcome = worker.outcome
  BY <1>2 DEF ApplyTransition, NextState, CompletionEvent, Event
<1>6. QED
  BY <1>3, <1>4, <1>5, Zenon

\* A job that is sealed and closed at once is terminal and was never claimed.
LEMMA ClosedEffect ==
  ASSUME TypeOK, NEW j \in Jobs, NEW outcome, NEW reason, SealClosed(j, outcome, reason)
  PROVE  /\ records' = [records EXCEPT ![j] = records'[j]]
         /\ records'[j].state = "terminal" /\ records'[j].execution_count = 0
         /\ records'[j].terminal_outcome = outcome
<1> DEFINE n == ApplyTransition(InitialRecord(clock), Event("close_pending", 0, outcome, reason))
<1>1. records' = [records EXCEPT ![j] = n]
  BY DEF SealClosed
<1>2. records'[j] = n
  BY <1>1 DEF TypeOK
<1>3. records' = [records EXCEPT ![j] = records'[j]]
  BY <1>1, <1>2, Zenon
<1>4. QED
  BY <1>1, <1>2, <1>3 DEF ApplyTransition, NextState, Event

-------------------------------------------------------------------------------
(* Stored records are valid *)

\* Every stored record passes the validate_record call of _read_record and of
\* apply_transition, so neither ever raises over a record the broker wrote.
RecordInv == \A j \in Jobs : records[j] = Absent \/ ValidRecord(records[j])

LEMMA RecordInvInit == Init => RecordInv
BY DEF Init, RecordInv

LEMMA RecordInvStep == TypeInv /\ RecordInv /\ [Next]_vars => RecordInv'
<1> SUFFICES ASSUME TypeOK, ThreadJobs, RecordInv, [Next]_vars PROVE RecordInv'
  BY DEF TypeInv
<1>0. ASSUME UNCHANGED records PROVE RecordInv'
  BY <1>0 DEF RecordInv
<1>1. ASSUME NEW j \in Jobs, NEW n, ValidRecord(n), records' = [records EXCEPT ![j] = n]
      PROVE  RecordInv'
  BY <1>1, Zenon DEF RecordInv, TypeOK
<1>2. ASSUME NEW j \in Jobs, NEW e \in TransitionEvent(Reason), CompareAndAppend(j, e)
      PROVE  RecordInv'
  <2>1. ValidRecord(ApplyTransition(records[j], e))
    BY <1>2, TransitionSound, RevisionType, AppendType
  <2>2. QED
    BY <1>1, <1>2, <2>1, AppendType
<1>3. ASSUME NEW j \in Jobs, NEW outcome \in ClosedOutcome, NEW reason \in Reason,
             SealClosed(j, outcome, reason)
      PROVE  RecordInv'
  <2> DEFINE e == Event("close_pending", 0, outcome, reason)
             r == InitialRecord(clock)
  <2>1. e \in TransitionEvent(Reason)
    BY EventType, SMTT(60) DEF TransitionKind, TerminalOutcome
  <2>2. Admits(r, e)
    BY BrokerAssumption DEF Admits, ValidRecord, KindAllowed, InitialRecord, Event,
       JobState, ExecutedOutcome, None, Reason, TypeOK
  <2>3. ValidRecord(ApplyTransition(r, e))
    BY <2>1, <2>2, TransitionSound DEF InitialRecord
  <2>4. records' = [records EXCEPT ![j] = ApplyTransition(r, e)]
    BY <1>3 DEF SealClosed
  <2> HIDE DEF r, e
  <2>5. QED
    BY <1>1, <2>3, <2>4, Zenon
<1>4. ASSUME NEW j \in Jobs, SubmitPending(j) PROVE RecordInv'
  <2>1. ValidRecord(InitialRecord(clock))
    BY DEF ValidRecord, InitialRecord, JobState, ExecutedOutcome, None
  <2>2. QED
    BY <1>1, <1>4, <2>1, Zenon DEF SubmitPending
<1>5. ASSUME NEW j \in Jobs, SubmitRejected(j) \/ SubmitCircuitOpen(j) PROVE RecordInv'
  BY <1>3, <1>5 DEF SubmitRejected, SubmitCircuitOpen, ClosedOutcome, Reason
<1>6. ASSUME NEW j \in Jobs, RecoverIdempotent(j) PROVE RecordInv'
  BY <1>0, <1>6 DEF RecoverIdempotent, vars, store
<1>7. ASSUME NEW j \in Jobs, ClaimWithApproval(j) PROVE RecordInv'
  BY <1>2, <1>7, ClaimEventType DEF ClaimWithApproval
<1>8. CASE AutoClaim
  BY <1>0, <1>2, <1>8, ClaimEventType, SMTT(60) DEF AutoClaim, ThreadJobs
<1>9. ASSUME NEW j \in Jobs, NEW reason \in Reason, Finalize(j, UnknownEvent(j, reason))
      PROVE  RecordInv'
  BY <1>2, <1>9, UnknownEventType, Zenon DEF Finalize
<1>10. CASE Enqueue
  BY <1>0, <1>9, <1>10 DEF Enqueue, ThreadJobs, Reason, store
<1>11. CASE Serve \/ WorkerTake \/ WorkerRun \/ WorkerRaise \/ Crash \/ Restart
            \/ Tick \/ ClockStepsBack
  BY <1>0, <1>11 DEF Serve, WorkerTake, WorkerRun, WorkerRaise, Crash, Restart, Tick,
                     ClockStepsBack, store
<1>12. ASSUME NEW j \in Jobs, RecoverOrphan(j) \/ SecondInstanceRecovers(j) PROVE RecordInv'
  BY <1>0, <1>9, <1>12 DEF RecoverOrphan, SecondInstanceRecovers, RestartEvent, Reason, store
<1>13. ASSUME NEW outcome, NEW reason, WorkerReturn(outcome, reason) PROVE RecordInv'
  BY <1>0, <1>13 DEF WorkerReturn, store
<1>14. CASE WorkerCommit
  BY <1>0, <1>2, <1>14, CompletionEventType DEF WorkerCommit, Finalize, ThreadJobs, store
<1>15. CASE WorkerExcept
  BY <1>0, <1>9, <1>15 DEF WorkerExcept, ThreadJobs, Reason, store
<1>16. CASE UNCHANGED vars
  BY <1>0, <1>16, Zenon DEF vars, store
<1>17. QED
  BY <1>4, <1>5, <1>6, <1>7, <1>8, <1>10, <1>11, <1>12, <1>13, <1>14, <1>15, <1>16
     DEF Next, Request, ListenerStep, WorkerStep

-------------------------------------------------------------------------------
(* What a step does to records, ledger and submission times *)

\* _compare_and_append of some event.
Moved(j) == /\ \E e \in TransitionEvent(Reason) : CompareAndAppend(j, e)
            /\ UNCHANGED received

\* A new job that is closed before it could start, or admitted.
ClosedAtOnce(j) ==
  /\ j \notin Sealed /\ WithinLimits(j)
  /\ \/ SealClosed(j, "rejected", "disabled_unverified_authority")
     \/ SealClosed(j, "prestart_failed", "technical_failure_circuit_open")

AdmittedPending(j) ==
  /\ j \notin Sealed /\ WithinLimits(j) /\ ~CircuitOpen(j)
  /\ records' = [records EXCEPT ![j] = InitialRecord(clock)]
  /\ received' = [received EXCEPT ![j] = clock]
  /\ ledger' = [ledger EXCEPT ![j] = <<SealedEntry>>]

LEMMA StoreSteps ==
  ASSUME TypeInv, [Next]_vars
  PROVE  \/ UNCHANGED <<records, received, ledger>>
         \/ \E j \in Jobs : Moved(j) \/ ClosedAtOnce(j) \/ AdmittedPending(j)
<1> DEFINE Goal == \/ UNCHANGED <<records, received, ledger>>
                   \/ \E j \in Jobs : Moved(j) \/ ClosedAtOnce(j) \/ AdmittedPending(j)
<1> SUFFICES Goal
  OBVIOUS
<1> USE DEF TypeInv
<1>0. UNCHANGED <<records, received, ledger>> => Goal
  OBVIOUS
<1>1. ASSUME NEW j \in Jobs, SubmitRejected(j) \/ SubmitCircuitOpen(j) PROVE Goal
  BY <1>1, Zenon DEF SubmitRejected, SubmitCircuitOpen, Submittable, ClosedAtOnce
<1>2. ASSUME NEW j \in Jobs, SubmitPending(j) PROVE Goal
  BY <1>2, Zenon DEF SubmitPending, Submittable, AdmittedPending
<1>3. ASSUME NEW j \in Jobs, RecoverIdempotent(j) PROVE Goal
  BY <1>0, <1>3 DEF RecoverIdempotent, vars, store
<1>4. ASSUME NEW j \in Jobs, CompareAndAppend(j, ClaimEvent), UNCHANGED received PROVE Goal
  BY <1>4, ClaimEventType, Zenon DEF Moved
<1>5. ASSUME NEW j \in Jobs, NEW reason \in Reason, Finalize(j, UnknownEvent(j, reason))
      PROVE  Goal
  BY <1>5, UnknownEventType DEF Moved, Finalize
<1>6. ASSUME NEW j \in Jobs, ClaimWithApproval(j) PROVE Goal
  BY <1>4, <1>6, Zenon DEF ClaimWithApproval
<1>7. CASE AutoClaim
  BY <1>0, <1>4, <1>7, Zenon DEF AutoClaim, ThreadJobs
<1>8. CASE Enqueue
  BY <1>0, <1>5, <1>8 DEF Enqueue, ThreadJobs, Reason, store
<1>9. CASE Serve \/ WorkerTake \/ WorkerRun \/ WorkerRaise \/ Crash \/ Restart
           \/ Tick \/ ClockStepsBack
  BY <1>0, <1>9 DEF Serve, WorkerTake, WorkerRun, WorkerRaise, Crash, Restart, Tick,
                    ClockStepsBack, store
<1>10. ASSUME NEW j \in Jobs, RecoverOrphan(j) \/ SecondInstanceRecovers(j) PROVE Goal
  BY <1>0, <1>5, <1>10 DEF RecoverOrphan, SecondInstanceRecovers, RestartEvent, Reason, store
<1>11. ASSUME NEW outcome, NEW reason, WorkerReturn(outcome, reason) PROVE Goal
  BY <1>0, <1>11 DEF WorkerReturn, store
<1>12. CASE WorkerCommit
  <2>1. CASE Finalize(worker.job, CompletionEvent)
    <3>1. worker.job \in Jobs
      BY <1>12 DEF WorkerCommit, ThreadJobs
    <3>2. QED
      BY <2>1, <3>1, CompletionEventType, Zenon DEF Moved, Finalize
  <2>2. CASE UNCHANGED store
    BY <1>0, <2>2, Zenon DEF store
  <2>3. QED
    BY <1>12, <2>1, <2>2 DEF WorkerCommit
<1>13. CASE WorkerExcept
  BY <1>0, <1>5, <1>13 DEF WorkerExcept, ThreadJobs, Reason, store
<1>14. CASE UNCHANGED vars
  BY <1>0, <1>14 DEF vars, store
<1>15. QED
  BY <1>1, <1>2, <1>3, <1>6, <1>7, <1>8, <1>9, <1>10, <1>11, <1>12, <1>13, <1>14
     DEF Next, Request, ListenerStep, WorkerStep

-------------------------------------------------------------------------------
(* The ledger *)

\* What LedgerExplainsRecord says of one job.
Explains(l, r) ==
  /\ Len(l) = r.revision + 1
  /\ l[Len(l)].next_state = r.state
  /\ \A i \in 1..Len(l) : l[i].record_revision = i - 1
  /\ \A i \in 2..Len(l) : l[i].prior_state = l[i - 1].next_state

\* An entry appended with the transition it records.
LEMMA AppendExplains ==
  ASSUME NEW l \in Seq(LedgerRow), NEW r, r.revision \in Nat, Explains(l, r), NEW e
  PROVE  Explains(Append(l, LedgerEntry(r, e)), ApplyTransition(r, e))
<1> DEFINE n == LedgerEntry(r, e)
           m == Append(l, n)
<1>1. /\ Len(l) \in Nat /\ Len(m) = Len(l) + 1 /\ m[Len(l) + 1] = n
      /\ \A i \in 1..Len(l) : m[i] = l[i]
  OBVIOUS
<1>2. /\ n.prior_state = r.state /\ n.next_state = NextState(e.kind)
      /\ n.record_revision = r.revision + 1
  BY DEF LedgerEntry
<1>3. /\ ApplyTransition(r, e).revision = r.revision + 1
      /\ ApplyTransition(r, e).state = NextState(e.kind)
  BY DEF ApplyTransition
<1> HIDE DEF n, m
<1>4. ASSUME NEW i \in 1..Len(m)
      PROVE  m[i].record_revision = i - 1
  <2>1. CASE i \in 1..Len(l)
    BY <1>1, <2>1 DEF Explains
  <2>2. CASE i = Len(l) + 1
    BY <1>1, <1>2, <2>2 DEF Explains
  <2>3. QED
    BY <1>1, <2>1, <2>2
<1>5. ASSUME NEW i \in 2..Len(m)
      PROVE  m[i].prior_state = m[i - 1].next_state
  <2>1. CASE i \in 2..Len(l)
    <3>1. i \in 1..Len(l) /\ i - 1 \in 1..Len(l)
      BY <1>1, <2>1
    <3>2. m[i] = l[i] /\ m[i - 1] = l[i - 1]
      BY <1>1, <3>1
    <3>3. QED
      BY <2>1, <3>2 DEF Explains
  <2>2. CASE i = Len(l) + 1
    <3>1. i - 1 = Len(l) /\ Len(l) \in 1..Len(l)
      BY <1>1, <2>2 DEF Explains
    <3>2. m[i] = n /\ m[i - 1] = l[Len(l)]
      BY <1>1, <2>2, <3>1
    <3>3. QED
      BY <1>2, <3>2 DEF Explains
  <2>3. QED
    BY <1>1, <2>1, <2>2
<1>6. Explains(m, ApplyTransition(r, e))
  BY <1>1, <1>2, <1>3, <1>4, <1>5 DEF Explains
<1>7. QED
  BY <1>6 DEF m, n

LEMMA SealedExplains ==
  ASSUME NEW at
  PROVE  /\ <<SealedEntry>> \in Seq({SealedEntry})
         /\ Explains(<<SealedEntry>>, InitialRecord(at))
BY DEF Explains, SealedEntry, InitialRecord

\* The ledger explains every sealed job, from any state of the store on.
LEMMA LedgerKept == TypeInv /\ LedgerExplainsRecord /\ [Next]_vars => LedgerExplainsRecord'
<1> SUFFICES ASSUME TypeInv, LedgerExplainsRecord, [Next]_vars
             PROVE  LedgerExplainsRecord'
  OBVIOUS
<1>1. \A k \in Jobs : k \in Sealed => Explains(ledger[k], records[k])
  BY DEF LedgerExplainsRecord, Explains
<1>2. SUFFICES \A k \in Jobs : k \in Sealed' => Explains(ledger'[k], records'[k])
  BY DEF LedgerExplainsRecord, Explains, Sealed
<1>3. CASE UNCHANGED <<records, received, ledger>>
  BY <1>1, <1>3, Zenon DEF Sealed
<1>4. ASSUME NEW j \in Jobs, Moved(j) \/ ClosedAtOnce(j) \/ AdmittedPending(j)
      PROVE  \A k \in Jobs \ {j} : ledger'[k] = ledger[k] /\ records'[k] = records[k]
  BY <1>4, Zenon DEF Moved, ClosedAtOnce, AdmittedPending, CompareAndAppend, SealClosed,
                     TypeInv, TypeOK
<1>5. ASSUME NEW j \in Jobs, Moved(j)
      PROVE  Explains(ledger'[j], records'[j])
  <2>1. PICK e \in TransitionEvent(Reason) : CompareAndAppend(j, e)
    BY <1>5 DEF Moved
  <2>2. /\ ledger'[j] = Append(ledger[j], LedgerEntry(records[j], e))
        /\ records'[j] = ApplyTransition(records[j], e)
        /\ ledger[j] \in Seq(LedgerRow)
    BY <2>1, Zenon DEF CompareAndAppend, TypeInv, TypeOK
  <2>3. j \in Sealed
    BY <2>1, AbsentFields DEF CompareAndAppend, Admits, Sealed
  <2>4. records[j].revision \in Nat
    BY RevisionType DEF TypeInv
  <2>5. QED
    BY <1>1, <2>2, <2>3, <2>4, AppendExplains
<1>6. ASSUME NEW j \in Jobs, AdmittedPending(j)
      PROVE  Explains(ledger'[j], records'[j])
  <2>1. ledger'[j] = <<SealedEntry>> /\ records'[j] = InitialRecord(clock)
    BY <1>6 DEF AdmittedPending, TypeInv, TypeOK
  <2>2. QED
    BY <2>1, SealedExplains
<1>7. ASSUME NEW j \in Jobs, NEW outcome, NEW reason, SealClosed(j, outcome, reason)
      PROVE  Explains(ledger'[j], records'[j])
  <2> DEFINE pending == InitialRecord(clock)
             e == Event("close_pending", 0, outcome, reason)
  <2>1. /\ ledger'[j] = <<SealedEntry, LedgerEntry(pending, e)>>
        /\ records'[j] = ApplyTransition(pending, e)
    BY <1>7, Zenon DEF SealClosed, TypeInv, TypeOK
  <2>2. /\ pending.revision \in Nat /\ SealedEntry \in LedgerRow
        /\ <<SealedEntry>> \in Seq(LedgerRow)
        /\ Explains(<<SealedEntry>>, pending)
    BY SealedExplains DEF InitialRecord, SealedEntry, LedgerRow, JobState
  <2>3. <<SealedEntry, LedgerEntry(pending, e)>> = Append(<<SealedEntry>>, LedgerEntry(pending, e))
    OBVIOUS
  <2> HIDE DEF pending, e
  <2>4. Explains(Append(<<SealedEntry>>, LedgerEntry(pending, e)), ApplyTransition(pending, e))
    BY <2>2, AppendExplains, Zenon
  <2>5. QED
    BY <2>1, <2>3, <2>4, Zenon
<1>8. ASSUME NEW j \in Jobs, Moved(j) \/ ClosedAtOnce(j) \/ AdmittedPending(j)
      PROVE  \A k \in Jobs : k \in Sealed' => Explains(ledger'[k], records'[k])
  <2>1. Explains(ledger'[j], records'[j])
    BY <1>5, <1>6, <1>7, <1>8 DEF ClosedAtOnce
  <2>2. QED
    BY <1>1, <1>4, <1>8, <2>1, Zenon DEF Sealed
<1>9. QED
  BY <1>3, <1>8, StoreSteps

\* The ledger is the history of the record, whatever transactions the threads
\* and processes interleave: what history_projection checks never fails.
THEOREM LedgerIsHistory == Spec => []LedgerExplainsRecord
<1>1. Init => LedgerExplainsRecord
  BY Zenon DEF Init, LedgerExplainsRecord, Sealed
<1>2. QED
  BY <1>1, LedgerKept, TypeInvInit, TypeInvStep, PTL DEF Spec

-------------------------------------------------------------------------------
(* The queue *)

Distinct == \A i, k \in 1..Len(queue) : queue[i] = queue[k] => i = k

LEMMA QueueAppend ==
  ASSUME queue \in Seq(Jobs), NEW j \in Jobs, queue' = Append(queue, j)
  PROVE  /\ \A k \in Jobs : InQueue(k)' <=> InQueue(k) \/ k = j
         /\ Distinct /\ ~InQueue(j) => Distinct'
<1>1. /\ Len(queue') = Len(queue) + 1 /\ queue'[Len(queue) + 1] = j
      /\ Len(queue) \in Nat
      /\ \A i \in 1..Len(queue) : queue'[i] = queue[i]
  OBVIOUS
<1>2. QED
  BY <1>1 DEF InQueue, Distinct

LEMMA QueueTail ==
  ASSUME queue \in Seq(Jobs), queue # <<>>, queue' = Tail(queue), Distinct
  PROVE  /\ \A k \in Jobs : InQueue(k)' => InQueue(k) /\ k # Head(queue)
         /\ InQueue(Head(queue))
         /\ Distinct'
<1>1. /\ Len(queue) \in Nat /\ Len(queue) >= 1 /\ Head(queue) = queue[1]
      /\ Len(queue') = Len(queue) - 1
      /\ \A i \in 1..(Len(queue) - 1) : queue'[i] = queue[i + 1]
  OBVIOUS
<1>2. QED
  BY <1>1 DEF InQueue, Distinct

-------------------------------------------------------------------------------
(* One execution per job *)

\* What is known about the handler of a job from where the job is: before it
\* reaches the worker it has not been entered, and while the worker holds its
\* result that result is the one the handler returned.
HandlerProgress(j) ==
  /\ runs[j] \in {0, 1}
  /\ runs[j] = 1 => records[j].execution_count = 1
  /\ runs[j] = 0 => returned[j] = None
  /\ records[j].terminal_outcome \in ClosedOutcome => records[j].execution_count = 0
  /\ Dispatching(j) \/ InQueue(j) => runs[j] = 0
  /\ InHand(j) =>
       /\ worker.pc = "run" => runs[j] = 0
       /\ worker.pc \in {"running", "commit"} => runs[j] = 1
       /\ worker.pc = "running" => returned[j] = None
       /\ worker.pc = "commit" => returned[j] = worker.outcome

ClaimInv ==
  /\ ClaimHandedOn
  /\ \A j \in Jobs : HandlerProgress(j)
  /\ VerdictTruthful

\* A change of the store that keeps claims and reports no new result.
KeepsClaims ==
  \A k \in Jobs :
    /\ records[k].execution_count = 1 => records'[k].execution_count = 1
    /\ \/ records'[k] = records[k]
       \/ records'[k].terminal_outcome = None
       \/ /\ records'[k].terminal_outcome \in ClosedOutcome
          /\ records[k].execution_count = 0 /\ records'[k].execution_count = 0

LEMMA QuietStep ==
  ASSUME ClaimInv, KeepsClaims, UNCHANGED <<worker, queue, runs, returned>>,
         listener' = listener \/ listener'.pc # "dispatch"
  PROVE  ClaimInv'
<1>1. \A k \in Jobs : /\ InQueue(k)' <=> InQueue(k)
                      /\ InHand(k)' <=> InHand(k)
                      /\ Dispatching(k)' => Dispatching(k)
  BY DEF InQueue, InHand, Dispatching
<1>2. ClaimHandedOn'
  BY <1>1, Zenon DEF ClaimInv, ClaimHandedOn, KeepsClaims
<1>3. ASSUME NEW k \in Jobs PROVE HandlerProgress(k)'
  BY <1>1, Zenon DEF ClaimInv, HandlerProgress, KeepsClaims, ClosedOutcome, None
<1>4. VerdictTruthful'
  BY Zenon DEF ClaimInv, HandlerProgress, VerdictTruthful, KeepsClaims,
         ExecutedOutcome, ClosedOutcome, None
<1>5. QED
  BY <1>2, <1>3, <1>4 DEF ClaimInv

\* The store transactions other than a completion keep claims.
LEMMA StoreKeepsClaims ==
  ASSUME TypeOK
  PROVE  /\ UNCHANGED store => KeepsClaims
         /\ \A j \in Jobs, reason \in Reason :
              Finalize(j, UnknownEvent(j, reason)) => KeepsClaims
         /\ \A j \in Jobs \ Sealed, outcome \in ClosedOutcome, reason \in Reason :
              SealClosed(j, outcome, reason) => KeepsClaims
         /\ \A j \in Jobs : CompareAndAppend(j, ClaimEvent) => KeepsClaims
<1> USE DEF KeepsClaims
<1>1. UNCHANGED store => KeepsClaims
  BY DEF store
<1>2. ASSUME NEW j \in Jobs, NEW reason \in Reason, Finalize(j, UnknownEvent(j, reason))
      PROVE  KeepsClaims
  BY <1>2, UnknownEffect, SMTT(60), Zenon DEF TypeOK
<1>3. ASSUME NEW j \in Jobs \ Sealed, NEW outcome \in ClosedOutcome, NEW reason \in Reason,
             SealClosed(j, outcome, reason)
      PROVE  KeepsClaims
  <2>1. records[j].execution_count = 0
    BY AbsentFields, Zenon DEF Sealed
  <2>2. /\ records' = [records EXCEPT ![j] = records'[j]]
        /\ records'[j].terminal_outcome \in ClosedOutcome
        /\ records'[j].execution_count = 0
    BY <1>3, ClosedEffect
  <2>3. \A k \in Jobs \ {j} : records'[k] = records[k]
    BY <2>2 DEF TypeOK
  <2>4. QED
    BY <2>1, <2>2, <2>3
<1>4. ASSUME NEW j \in Jobs, CompareAndAppend(j, ClaimEvent) PROVE KeepsClaims
  BY <1>4, ClaimEffect, Zenon DEF TypeOK
<1>5. QED
  BY <1>1, <1>2, <1>3, <1>4, Zenon

\* The worker lets go of its job, or gives up on its result.
LEMMA WorkerLetsGo ==
  ASSUME ClaimInv, KeepsClaims, UNCHANGED <<listener, queue, runs, returned>>,
         worker' = IdleWorker \/ worker' = [worker EXCEPT !.pc = "except"],
         worker.pc # "idle", TypeOK
  PROVE  ClaimInv'
<1>1. \A k \in Jobs : /\ InQueue(k)' <=> InQueue(k)
                      /\ Dispatching(k)' <=> Dispatching(k)
  BY DEF InQueue, Dispatching
<1>2. \A k \in Jobs : InHand(k)' => InHand(k) /\ worker'.pc = "except"
  <2>1. IdleWorker.pc = "idle"
    BY DEF IdleWorker
  <2>2. worker' = [worker EXCEPT !.pc = "except"] =>
          worker'.pc = "except" /\ worker'.job = worker.job
    BY DEF TypeOK
  <2>3. QED
    BY <2>1, <2>2, Zenon DEF InHand
<1>3. ClaimHandedOn'
  BY <1>1, <1>2 DEF ClaimInv, ClaimHandedOn, KeepsClaims
<1>4. ASSUME NEW k \in Jobs PROVE HandlerProgress(k)'
  BY <1>1, <1>2 DEF ClaimInv, HandlerProgress, KeepsClaims, ClosedOutcome, None
<1>5. VerdictTruthful'
  BY DEF ClaimInv, HandlerProgress, VerdictTruthful, KeepsClaims,
         ExecutedOutcome, ClosedOutcome, None
<1>6. QED
  BY <1>3, <1>4, <1>5 DEF ClaimInv

\* A granted claim puts the job into the listener's hands and nowhere else.
LEMMA ClaimGranted ==
  ASSUME TypeOK, ClaimInv, NEW j \in Jobs, CompareAndAppend(j, ClaimEvent),
         listener.pc # "dispatch", listener' = At("dispatch", j),
         UNCHANGED <<worker, queue, runs, returned>>
  PROVE  ClaimInv'
<1>1. records[j].execution_count = 0 /\ records'[j].execution_count = 1 /\ KeepsClaims
  BY ClaimEffect, StoreKeepsClaims, Zenon
<1>2. ~InQueue(j) /\ ~InHand(j) /\ runs[j] = 0
  BY <1>1, NoneIsNoOutcome, Zenon DEF ClaimInv, ClaimHandedOn, HandlerProgress
<1>3. \A k \in Jobs : /\ InQueue(k)' <=> InQueue(k)
                      /\ InHand(k)' <=> InHand(k)
                      /\ Dispatching(k)' <=> k = j
  BY SMTT(60) DEF InQueue, InHand, Dispatching, At
<1>4. ClaimHandedOn'
  BY <1>1, <1>2, <1>3, Zenon DEF ClaimInv, ClaimHandedOn, KeepsClaims
<1>5. ASSUME NEW k \in Jobs PROVE HandlerProgress(k)'
  BY <1>1, <1>2, <1>3, Zenon DEF ClaimInv, HandlerProgress, KeepsClaims, ClosedOutcome, None
<1>6. VerdictTruthful'
  BY <1>1, ZenonT(30) DEF ClaimInv, HandlerProgress, VerdictTruthful, KeepsClaims,
              ExecutedOutcome, ClosedOutcome, None
<1>7. QED
  BY <1>4, <1>5, <1>6 DEF ClaimInv

LEMMA ClaimInvInit == Init => ClaimInv
<1> SUFFICES ASSUME Init PROVE ClaimInv
  OBVIOUS
<1>1. \A j \in Jobs : /\ records[j].execution_count = 0 /\ records[j].terminal_outcome = None
                      /\ runs[j] = 0 /\ returned[j] = None
  BY AbsentFields, Zenon DEF Init
<1>2. Len(queue) = 0
  BY DEF Init
<1>3. listener.pc # "dispatch" /\ worker.pc = "idle"
  BY DEF Init, At, IdleWorker
<1>4. \A j \in Jobs : ~Dispatching(j) /\ ~InQueue(j) /\ ~InHand(j)
  BY <1>2, <1>3 DEF Dispatching, InQueue, InHand
<1>5. ClaimHandedOn
  BY <1>2, <1>4 DEF ClaimHandedOn
<1>6. /\ 0 \in {0, 1} /\ 0 # 1
      /\ None \notin ExecutedOutcome /\ None \notin ClosedOutcome
  BY DEF ExecutedOutcome, ClosedOutcome, None
<1>7. (\A j \in Jobs : HandlerProgress(j)) /\ VerdictTruthful
  BY <1>1, <1>4, <1>6, Zenon DEF HandlerProgress, VerdictTruthful
<1>8. QED
  BY <1>5, <1>7 DEF ClaimInv

\* One step per action of Next.
LEMMA ClaimInvStep == TypeInv /\ ClaimInv /\ [Next]_vars => ClaimInv'
<1> SUFFICES ASSUME TypeOK, ThreadJobs, ClaimInv, [Next]_vars PROVE ClaimInv'
  BY DEF TypeInv
<1>1. ASSUME NEW j \in Jobs, SubmitRejected(j) PROVE ClaimInv'
  <2>1. KeepsClaims
    BY <1>1, StoreKeepsClaims DEF SubmitRejected, Submittable, ClosedOutcome, Reason
  <2>2. QED
    BY <1>1, <2>1, QuietStep DEF SubmitRejected, threads, history
<1>2. ASSUME NEW j \in Jobs, SubmitCircuitOpen(j) PROVE ClaimInv'
  <2>1. KeepsClaims
    BY <1>2, StoreKeepsClaims DEF SubmitCircuitOpen, Submittable, ClosedOutcome, Reason
  <2>2. QED
    BY <1>2, <2>1, QuietStep DEF SubmitCircuitOpen, threads, history
<1>3. ASSUME NEW j \in Jobs, SubmitPending(j) PROVE ClaimInv'
  <2>1. records[j].execution_count = 0
    BY <1>3, AbsentFields, Zenon DEF SubmitPending, Submittable, Sealed
  <2>2. \A k \in Jobs : records'[k] = IF k = j THEN InitialRecord(clock) ELSE records[k]
    BY <1>3 DEF SubmitPending, TypeOK
  <2>3. KeepsClaims
    BY <2>1, <2>2, InitialFields, Zenon DEF KeepsClaims
  <2>4. listener' = listener \/ listener'.pc # "dispatch"
    BY <1>3 DEF SubmitPending, At
  <2>5. QED
    BY <1>3, <2>3, <2>4, QuietStep DEF SubmitPending, history
<1>4. ASSUME NEW j \in Jobs, RecoverIdempotent(j) PROVE ClaimInv'
  BY <1>4, QuietStep, StoreKeepsClaims DEF RecoverIdempotent, vars, threads, history
<1>5. ASSUME NEW j \in Jobs, ClaimWithApproval(j) PROVE ClaimInv'
  BY <1>5, ClaimGranted, Zenon DEF ClaimWithApproval, history
<1>6. CASE AutoClaim
  <2>1. CASE Admits(records[listener.job], ClaimEvent)
    BY <1>6, <2>1, ClaimGranted, Zenon DEF AutoClaim, history, ThreadJobs
  <2>2. CASE ~Admits(records[listener.job], ClaimEvent)
    <3>1. KeepsClaims
      BY <1>6, <2>2, Zenon DEF AutoClaim, KeepsClaims
    <3>2. QED
      BY <1>6, <2>2, <3>1, QuietStep DEF AutoClaim, history, At
  <2>3. QED
    BY <2>1, <2>2, Zenon
<1>7. CASE Enqueue
  <2> DEFINE j == listener.job
  <2>1. j \in Jobs /\ listener' = At("idle", NoJob) /\ Dispatching(j)
        /\ UNCHANGED <<worker, runs, returned>>
    BY <1>7 DEF Enqueue, ThreadJobs, history, Dispatching
  <2>2. CASE queue' = Append(queue, j) /\ UNCHANGED store
    <3>0. queue \in Seq(Jobs)
      BY Zenon DEF TypeOK
    <3>1. \A k \in Jobs : /\ InQueue(k)' <=> InQueue(k) \/ k = j
                          /\ InHand(k)' <=> InHand(k)
                          /\ ~Dispatching(k)'
      BY <2>1, <2>2, <3>0, QueueAppend, Zenon DEF InHand, Dispatching, At
    <3>2. ~InQueue(j) /\ ~InHand(j) /\ records[j].execution_count = 1 /\ Distinct /\ runs[j] = 0
      BY <2>1, SMTT(60) DEF ClaimInv, ClaimHandedOn, Distinct, HandlerProgress
    <3>3. Distinct'
      BY <2>1, <2>2, <3>0, <3>2, QueueAppend, Zenon
    <3>4. ClaimHandedOn'
      BY <2>2, <3>1, <3>2, <3>3, Zenon DEF ClaimInv, ClaimHandedOn, Distinct, store
    <3>5. ASSUME NEW k \in Jobs PROVE HandlerProgress(k)'
      BY <2>1, <2>2, <3>1, <3>2, Zenon DEF ClaimInv, HandlerProgress, store
    <3>6. VerdictTruthful'
      BY <2>1, <2>2, Zenon DEF ClaimInv, VerdictTruthful, store
    <3>7. QED
      BY <3>4, <3>5, <3>6 DEF ClaimInv
  <2>3. CASE UNCHANGED queue
    <3>1. KeepsClaims
      BY <1>7, <2>1, <2>3, StoreKeepsClaims DEF Enqueue, store, Reason
    <3>2. QED
      BY <2>1, <2>3, <3>1, QuietStep, Zenon DEF At
  <2>4. QED
    BY <1>7, <2>2, <2>3, Zenon DEF Enqueue
<1>8. CASE Serve
  BY <1>8, QuietStep, StoreKeepsClaims DEF Serve, history, At
<1>9. ASSUME NEW j \in Jobs, RecoverOrphan(j) PROVE ClaimInv'
  <2>1. KeepsClaims
    BY <1>9, StoreKeepsClaims DEF RecoverOrphan, RestartEvent, Reason
  <2>2. QED
    BY <1>9, <2>1, QuietStep DEF RecoverOrphan, history, At
<1>10. CASE WorkerTake
  <2> DEFINE j == Head(queue)
  <2>0. /\ queue \in Seq(Jobs) /\ queue # <<>> /\ queue' = Tail(queue) /\ Distinct
        /\ worker.pc = "idle" /\ UNCHANGED <<store, listener, runs, returned>>
    BY <1>10 DEF WorkerTake, TypeOK, ClaimInv, ClaimHandedOn, Distinct, history
  <2>1. /\ j \in Jobs /\ InQueue(j) /\ Distinct'
        /\ \A k \in Jobs : InQueue(k)' => InQueue(k) /\ k # j
    BY <2>0, QueueTail
  <2>2. worker'.pc \in {"run", "except"} /\ worker'.job = j
    BY <1>10 DEF WorkerTake, IdleWorker
  <2>3. \A k \in Jobs : /\ Dispatching(k)' <=> Dispatching(k)
                        /\ InHand(k)' <=> k = j
    BY <2>0, <2>2 DEF Dispatching, InHand
  <2>4. ClaimHandedOn'
    BY <2>0, <2>1, <2>3, Zenon DEF ClaimInv, ClaimHandedOn, Distinct, store
  <2>5. ASSUME NEW k \in Jobs PROVE HandlerProgress(k)'
    BY <2>0, <2>1, <2>2, <2>3, Zenon DEF ClaimInv, HandlerProgress, store
  <2>6. VerdictTruthful'
    BY <2>0, Zenon DEF ClaimInv, VerdictTruthful, store
  <2>7. QED
    BY <2>4, <2>5, <2>6 DEF ClaimInv
<1>11. ASSUME /\ worker.pc \in {"run", "running"} /\ worker'.job = worker.job
              /\ worker'.pc # "idle" /\ UNCHANGED <<store, listener, queue>>
              /\ \A k \in Jobs \ {worker.job} : runs'[k] = runs[k] /\ returned'[k] = returned[k]
              /\ HandlerProgress(worker.job)'
       PROVE  ClaimInv'
  <2>1. \A k \in Jobs : /\ InQueue(k)' <=> InQueue(k)
                        /\ Dispatching(k)' <=> Dispatching(k)
                        /\ InHand(k)' <=> InHand(k)
    BY <1>11 DEF InQueue, Dispatching, InHand
  <2>2. ClaimHandedOn'
    BY <1>11, <2>1, Zenon DEF ClaimInv, ClaimHandedOn, store
  <2>3. ASSUME NEW k \in Jobs PROVE HandlerProgress(k)'
    <3>1. CASE k = worker.job
      BY <1>11, <3>1, Zenon
    <3>2. CASE k # worker.job
      BY <1>11, <2>1, <3>2, Zenon DEF ClaimInv, HandlerProgress, store, InHand
    <3>3. QED
      BY <3>1, <3>2, Zenon
  <2>4. VerdictTruthful'
    <3>1. InHand(worker.job) /\ worker.job \in Jobs
      BY <1>11, Zenon DEF InHand, ThreadJobs
    <3>2. /\ returned[worker.job] = None /\ records[worker.job].execution_count = 1
          /\ records[worker.job].terminal_outcome \in ClosedOutcome =>
               records[worker.job].execution_count = 0
          /\ records[worker.job].terminal_outcome \in ExecutedOutcome =>
               returned[worker.job] = records[worker.job].terminal_outcome
      BY <1>11, <3>1, Zenon DEF ClaimInv, ClaimHandedOn, HandlerProgress, VerdictTruthful
    <3>3. records[worker.job].terminal_outcome \notin ExecutedOutcome \cup ClosedOutcome
      BY <3>2, NoneIsNoOutcome, Zenon
    <3>4. QED
      BY <1>11, <3>1, <3>3, Zenon DEF ClaimInv, VerdictTruthful, store
  <2>5. QED
    BY <2>2, <2>3, <2>4 DEF ClaimInv
<1>12. CASE WorkerRun
  <2>1. worker.job \in Jobs /\ InHand(worker.job) /\ HandlerProgress(worker.job)
        /\ records[worker.job].execution_count = 1
    BY <1>12 DEF WorkerRun, ThreadJobs, ClaimInv, ClaimHandedOn, InHand
  <2>2. /\ worker'.pc = "running" /\ worker'.job = worker.job
        /\ \A k \in Jobs : runs'[k] = IF k = worker.job THEN runs[k] + 1 ELSE runs[k]
        /\ UNCHANGED <<store, listener, queue, returned>>
    BY <1>12 DEF WorkerRun, TypeOK
  <2>3. ~Dispatching(worker.job)' /\ ~InQueue(worker.job)'
    BY <2>1, <2>2, Zenon DEF ClaimInv, ClaimHandedOn, Dispatching, InQueue
  <2>4. HandlerProgress(worker.job)'
    BY <1>12, <2>1, <2>2, <2>3 DEF HandlerProgress, WorkerRun, store, InHand
  <2>5. QED
    BY <1>11, <1>12, <2>2, <2>4 DEF WorkerRun
<1>13. ASSUME NEW outcome \in ExecutedOutcome,
              NEW reason \in FailureReason \cup {"handler_succeeded"},
              WorkerReturn(outcome, reason)
       PROVE  ClaimInv'
  <2>1. worker.job \in Jobs /\ InHand(worker.job) /\ HandlerProgress(worker.job)
        /\ records[worker.job].execution_count = 1
    BY <1>13 DEF WorkerReturn, ThreadJobs, ClaimInv, ClaimHandedOn, InHand
  <2>2. /\ worker'.pc = "commit" /\ worker'.job = worker.job /\ worker'.outcome = outcome
        /\ \A k \in Jobs : returned'[k] = IF k = worker.job THEN outcome ELSE returned[k]
        /\ UNCHANGED <<store, listener, queue, runs>>
    BY <1>13 DEF WorkerReturn, TypeOK
  <2>3. ~Dispatching(worker.job)' /\ ~InQueue(worker.job)'
    BY <2>1, <2>2, Zenon DEF ClaimInv, ClaimHandedOn, Dispatching, InQueue
  <2>4. HandlerProgress(worker.job)'
    BY <1>13, <2>1, <2>2, <2>3 DEF HandlerProgress, WorkerReturn, store, InHand
  <2>5. QED
    BY <1>11, <1>13, <2>2, <2>4 DEF WorkerReturn
<1>14. CASE WorkerRaise
  <2>1. KeepsClaims
    BY <1>14, StoreKeepsClaims DEF WorkerRaise
  <2>2. QED
    BY <1>14, <2>1, WorkerLetsGo DEF WorkerRaise, history
<1>15. CASE WorkerCommit
  <2>1. CASE UNCHANGED store
    <3>1. KeepsClaims
      BY <2>1, StoreKeepsClaims
    <3>2. QED
      BY <1>15, <3>1, WorkerLetsGo DEF WorkerCommit, history
  <2>2. CASE Finalize(worker.job, CompletionEvent) /\ worker' = IdleWorker
    <3> DEFINE j == worker.job
    <3>1. /\ j \in Jobs /\ InHand(j) /\ UNCHANGED <<listener, queue, runs, returned>>
          /\ runs[j] = 1 /\ returned[j] = worker.outcome
      BY <1>15 DEF WorkerCommit, ThreadJobs, InHand, history, ClaimInv, HandlerProgress
    <3>2. /\ records' = [records EXCEPT ![j] = records'[j]]
          /\ records'[j].execution_count = 1
          /\ records'[j].terminal_outcome = worker.outcome
          /\ worker.outcome \in ExecutedOutcome
      BY <2>2, <3>1, CompletionEffect, Zenon
    <3>3. \A k \in Jobs \ {j} : records'[k] = records[k]
      BY <3>2, SMTT(60), Zenon DEF TypeOK
    <3>4. \A k \in Jobs : /\ InQueue(k)' <=> InQueue(k)
                          /\ Dispatching(k)' <=> Dispatching(k)
                          /\ ~InHand(k)'
      BY <2>2, <3>1, SMTT(60) DEF InQueue, Dispatching, InHand, IdleWorker
    <3>5. ClaimHandedOn'
      BY <3>1, <3>2, <3>3, <3>4, Zenon DEF ClaimInv, ClaimHandedOn
    <3>6. ASSUME NEW k \in Jobs PROVE HandlerProgress(k)'
      <4>1. worker.outcome \notin ClosedOutcome
        BY <3>2 DEF ExecutedOutcome, ClosedOutcome
      <4>2. QED
        BY <3>1, <3>2, <3>3, <3>4, <4>1, Zenon DEF ClaimInv, HandlerProgress
    <3>7. VerdictTruthful'
      BY <3>1, <3>2, <3>3, Zenon DEF ClaimInv, VerdictTruthful, ExecutedOutcome, ClosedOutcome
    <3>8. QED
      BY <3>5, <3>6, <3>7 DEF ClaimInv
  <2>3. QED
    BY <1>15, <2>1, <2>2 DEF WorkerCommit
<1>16. CASE WorkerExcept
  <2>1. KeepsClaims
    BY <1>16, StoreKeepsClaims, SMTT(60) DEF WorkerExcept, Reason, ThreadJobs, store
  <2>2. QED
    BY <1>16, <2>1, WorkerLetsGo, Zenon DEF WorkerExcept, history
<1>17. CASE Crash
  <2>1. /\ listener' = At("down", NoJob) /\ worker' = IdleWorker /\ queue' = <<>>
        /\ UNCHANGED <<store, runs, returned>>
    BY <1>17 DEF Crash, history
  <2>2. Len(queue') = 0 /\ \A k \in Jobs : ~InQueue(k)' /\ ~Dispatching(k)' /\ ~InHand(k)'
    BY <2>1, SMTT(30) DEF InQueue, Dispatching, InHand, At, IdleWorker
  <2>3. ClaimHandedOn'
    BY <2>2 DEF ClaimHandedOn
  <2>4. (\A k \in Jobs : HandlerProgress(k)') /\ VerdictTruthful'
    BY <2>1, <2>2, Zenon DEF ClaimInv, HandlerProgress, VerdictTruthful, store
  <2>5. QED
    BY <2>3, <2>4 DEF ClaimInv
<1>18. CASE Restart
  BY <1>18, QuietStep, StoreKeepsClaims DEF Restart, history, At
<1>19. ASSUME NEW j \in Jobs, SecondInstanceRecovers(j) PROVE ClaimInv'
  <2>1. KeepsClaims
    BY <1>19, StoreKeepsClaims DEF SecondInstanceRecovers, RestartEvent, Reason
  <2>2. QED
    BY <1>19, <2>1, QuietStep DEF SecondInstanceRecovers, history, At
<1>20. CASE Tick \/ ClockStepsBack
  BY <1>20, QuietStep, StoreKeepsClaims DEF Tick, ClockStepsBack, threads, history
<1>21. CASE UNCHANGED vars
  BY <1>21, QuietStep, StoreKeepsClaims DEF vars, threads, history
<1>22. QED
  BY <1>1, <1>2, <1>3, <1>4, <1>5, <1>6, <1>7, <1>8, <1>9, <1>10, <1>12, <1>13,
     <1>14, <1>15, <1>16, <1>17, <1>18, <1>19, <1>20, <1>21
     DEF Next, Request, ListenerStep, WorkerStep

\* A handler is entered at most once per job and only for a claimed job, and
\* what a record reports is what that one execution returned: whatever the
\* jobs, limits and faults.
THEOREM OneShotExecution ==
  Spec => [](ClaimHandedOn /\ HandlerRunsOnce /\ VerdictTruthful)
<1>1. Spec => [](TypeInv /\ ClaimInv)
  BY TypeInvInit, TypeInvStep, ClaimInvInit, ClaimInvStep, PTL DEF Spec
<1>2. ClaimInv => ClaimHandedOn /\ HandlerRunsOnce /\ VerdictTruthful
  BY DEF ClaimInv, HandlerProgress, HandlerRunsOnce
<1>3. QED
  BY <1>1, <1>2, PTL

-------------------------------------------------------------------------------
(* Receipts, and the finality of what is settled *)

Settled(j) == records[j].state \in {"terminal", "unknown"}

\* What the store holds about a job.
RowsUnchanged(j) == /\ records'[j] = records[j] /\ receipt'[j] = receipt[j]
                    /\ raw'[j] = raw[j] /\ ledger'[j] = ledger[j]

\* What ReceiptMatchesRecord says of one job; and before it is settled it has no
\* raw receipt, so the finalizing transaction never meets the conflict its
\* INSERT guards against.
ReceiptFits(r, c, w) ==
  /\ (c # NoReceipt) <=> r.state \in {"terminal", "unknown"}
  /\ r.state = "unknown" => c.kind = "unknown" /\ w = "mark_unknown"
  /\ r.state = "terminal" =>
       /\ c.terminal_outcome = r.terminal_outcome
       /\ IF r.execution_count = 1
          THEN c.kind = "public" /\ w = "complete_execution"
          ELSE c.kind = "terminal_notice" /\ w = None
  /\ w # None => r.state \in {"terminal", "unknown"}

ReceiptInv == \A j \in Jobs : ReceiptFits(records[j], receipt[j], raw[j])

\* The jobs a step does not name keep their rows, and a job it names was not
\* settled before and fits its receipt afterwards.
SettlesOnly(j) ==
  /\ \A k \in Jobs \ {j} : RowsUnchanged(k)
  /\ ~Settled(j)
  /\ ReceiptInv => ReceiptFits(records'[j], receipt'[j], raw'[j])

LEMMA UnknownSettles ==
  ASSUME TypeOK, NEW j \in Jobs, NEW reason \in Reason, Finalize(j, UnknownEvent(j, reason))
  PROVE  SettlesOnly(j)
<1>1. /\ records[j].state = "running" /\ records'[j].state = "unknown"
      /\ \A k \in Jobs \ {j} : records'[k] = records[k]
  BY UnknownEffect DEF TypeOK
<1>2. /\ raw' = [raw EXCEPT ![j] = "mark_unknown"]
      /\ receipt' = [receipt EXCEPT ![j] = [kind |-> "unknown", terminal_outcome |-> None,
                                            reason_code |-> reason]]
      /\ ledger' = [ledger EXCEPT ![j] = ledger'[j]]
  BY Zenon DEF Finalize, UnknownEvent, Event, CompareAndAppend, TypeOK
<1>3. /\ raw'[j] = "mark_unknown" /\ receipt'[j].kind = "unknown"
      /\ \A k \in Jobs \ {j} : /\ raw'[k] = raw[k] /\ receipt'[k] = receipt[k]
                               /\ ledger'[k] = ledger[k]
  BY <1>2 DEF TypeOK
<1>4. receipt'[j] # NoReceipt
  BY <1>3, NoReceiptKind, Zenon
<1>5. QED
  BY <1>1, <1>3, <1>4, Zenon DEF SettlesOnly, Settled, RowsUnchanged, ReceiptFits

LEMMA CompletionSettles ==
  ASSUME TypeOK, NEW j \in Jobs, Finalize(j, CompletionEvent)
  PROVE  SettlesOnly(j)
<1>1. /\ records[j].state = "running" /\ records'[j].state = "terminal"
      /\ records'[j].execution_count = 1
      /\ records'[j].terminal_outcome = worker.outcome
      /\ \A k \in Jobs \ {j} : records'[k] = records[k]
  BY CompletionEffect DEF TypeOK
<1>2. /\ raw' = [raw EXCEPT ![j] = "complete_execution"]
      /\ receipt' = [receipt EXCEPT ![j] = [kind |-> "public", terminal_outcome |-> worker.outcome,
                                            reason_code |-> None]]
      /\ ledger' = [ledger EXCEPT ![j] = ledger'[j]]
  BY Zenon DEF Finalize, CompletionEvent, Event, CompareAndAppend, TypeOK
<1>3. /\ raw'[j] = "complete_execution" /\ receipt'[j].kind = "public"
      /\ receipt'[j].terminal_outcome = worker.outcome
      /\ \A k \in Jobs \ {j} : /\ raw'[k] = raw[k] /\ receipt'[k] = receipt[k]
                               /\ ledger'[k] = ledger[k]
  BY <1>2 DEF TypeOK
<1>4. receipt'[j] # NoReceipt
  BY <1>3, NoReceiptKind, Zenon
<1>5. QED
  BY <1>1, <1>3, <1>4, Zenon DEF SettlesOnly, Settled, RowsUnchanged, ReceiptFits

LEMMA ClosedSettles ==
  ASSUME TypeOK, NEW j \in Jobs \ Sealed, NEW outcome, NEW reason, SealClosed(j, outcome, reason)
  PROVE  SettlesOnly(j)
<1>1. /\ records[j].state = "absent" /\ records'[j].state = "terminal"
      /\ records'[j].execution_count = 0
      /\ records'[j].terminal_outcome = outcome
      /\ \A k \in Jobs \ {j} : records'[k] = records[k]
  BY ClosedEffect, AbsentFields DEF TypeOK, Sealed
<1>2. /\ raw' = raw
      /\ receipt' = [receipt EXCEPT ![j] = [kind |-> "terminal_notice",
                                            terminal_outcome |-> outcome,
                                            reason_code |-> reason]]
      /\ ledger' = [ledger EXCEPT ![j] = ledger'[j]]
  BY DEF SealClosed, TypeOK
<1>3. /\ receipt'[j].kind = "terminal_notice" /\ receipt'[j].terminal_outcome = outcome
      /\ \A k \in Jobs \ {j} : /\ raw'[k] = raw[k] /\ receipt'[k] = receipt[k]
                               /\ ledger'[k] = ledger[k]
  BY <1>2 DEF TypeOK
<1>4. receipt'[j] # NoReceipt
  BY <1>3, NoReceiptKind, Zenon
<1>5. ReceiptInv => raw'[j] = None
  BY <1>1, <1>2, Zenon DEF ReceiptInv, ReceiptFits
<1>6. QED
  BY <1>1, <1>3, <1>4, <1>5, NoneIsNoOutcome, Zenon
  DEF SettlesOnly, Settled, RowsUnchanged, ReceiptFits

LEMMA ClaimSettlesNothing ==
  ASSUME TypeOK, NEW j \in Jobs, CompareAndAppend(j, ClaimEvent), UNCHANGED <<raw, receipt>>
  PROVE  SettlesOnly(j)
<1>1. /\ records[j].state = "pending" /\ records'[j].state = "running"
      /\ \A k \in Jobs \ {j} : records'[k] = records[k]
  BY ClaimEffect DEF TypeOK
<1>2. \A k \in Jobs \ {j} : ledger'[k] = ledger[k]
  BY Zenon DEF CompareAndAppend, TypeOK
<1>3. QED
  BY <1>1, <1>2, Zenon DEF SettlesOnly, Settled, RowsUnchanged, ReceiptInv, ReceiptFits

\* Every step leaves all rows alone, or concerns one job that was not settled.
LEMMA StepSettles ==
  ASSUME TypeInv, [Next]_vars
  PROVE  (\A k \in Jobs : RowsUnchanged(k)) \/ (\E j \in Jobs : SettlesOnly(j))
<1> DEFINE Goal == (\A k \in Jobs : RowsUnchanged(k)) \/ (\E j \in Jobs : SettlesOnly(j))
<1> SUFFICES Goal
  OBVIOUS
<1> USE DEF TypeInv
<1>0. UNCHANGED store => Goal
  BY DEF store, RowsUnchanged
<1>1. ASSUME NEW j \in Jobs, SubmitRejected(j) \/ SubmitCircuitOpen(j) PROVE Goal
  BY <1>1, ClosedSettles DEF SubmitRejected, SubmitCircuitOpen, Submittable
<1>2. ASSUME NEW j \in Jobs, SubmitPending(j) PROVE Goal
  <2>1. records[j].state = "absent"
    BY <1>2, AbsentFields, Zenon DEF SubmitPending, Submittable, Sealed
  <2>2. /\ records'[j] = InitialRecord(clock) /\ UNCHANGED <<raw, receipt>>
        /\ \A k \in Jobs \ {j} : records'[k] = records[k] /\ ledger'[k] = ledger[k]
    BY <1>2 DEF SubmitPending, TypeOK
  <2>3. records'[j].state = "pending"
    BY <2>2, InitialFields, Zenon
  <2>4. SettlesOnly(j)
    BY <2>1, <2>2, <2>3, Zenon DEF SettlesOnly, Settled, RowsUnchanged, ReceiptInv, ReceiptFits
  <2>5. QED
    BY <2>4, Zenon
<1>3. ASSUME NEW j \in Jobs, RecoverIdempotent(j) PROVE Goal
  BY <1>0, <1>3 DEF RecoverIdempotent, vars
<1>4. ASSUME NEW j \in Jobs, ClaimWithApproval(j) PROVE Goal
  BY <1>4, ClaimSettlesNothing, SMTT(60) DEF ClaimWithApproval
<1>5. CASE AutoClaim
  BY <1>0, <1>5, ClaimSettlesNothing, Zenon DEF AutoClaim, ThreadJobs, store
<1>6. CASE Enqueue
  BY <1>0, <1>6, UnknownSettles, Zenon DEF Enqueue, ThreadJobs, Reason, store
<1>7. CASE Serve \/ WorkerTake \/ WorkerRun \/ WorkerRaise \/ Crash \/ Restart
           \/ Tick \/ ClockStepsBack
  BY <1>0, <1>7 DEF Serve, WorkerTake, WorkerRun, WorkerRaise, Crash, Restart, Tick,
                    ClockStepsBack
<1>8. ASSUME NEW j \in Jobs, RecoverOrphan(j) \/ SecondInstanceRecovers(j) PROVE Goal
  BY <1>0, <1>8, UnknownSettles DEF RecoverOrphan, SecondInstanceRecovers, RestartEvent, Reason
<1>9. ASSUME NEW outcome, NEW reason, WorkerReturn(outcome, reason) PROVE Goal
  BY <1>0, <1>9 DEF WorkerReturn
<1>10. CASE WorkerCommit
  BY <1>0, <1>10, CompletionSettles DEF WorkerCommit, ThreadJobs
<1>11. CASE WorkerExcept
  BY <1>0, <1>11, UnknownSettles, Zenon DEF WorkerExcept, ThreadJobs, Reason, store
<1>12. CASE UNCHANGED vars
  BY <1>0, <1>12 DEF vars
<1>13. QED
  BY <1>1, <1>2, <1>3, <1>4, <1>5, <1>6, <1>7, <1>8, <1>9, <1>10, <1>11, <1>12
     DEF Next, Request, ListenerStep, WorkerStep

\* Once a job is terminal or unknown, nothing the store holds about it changes:
\* no late completion, recovery, approval or resubmission gets through.
THEOREM SettledForGood == Spec => FinalStateIsFinal
<1>1. Spec => []TypeInv
  BY TypeInvInit, TypeInvStep, PTL DEF Spec
<1>2. TypeInv /\ [Next]_vars =>
        [\A j \in Jobs : records[j].state \in {"terminal", "unknown"} =>
           /\ records'[j] = records[j] /\ receipt'[j] = receipt[j]
           /\ raw'[j] = raw[j] /\ ledger'[j] = ledger[j]]_vars
  BY StepSettles, Zenon DEF SettlesOnly, Settled, RowsUnchanged
<1>3. QED
  BY <1>1, <1>2, PTL DEF Spec, FinalStateIsFinal

\* The tables agree about every job: a receipt is there exactly when the job is
\* settled, of the kind and with the outcome of its record.
THEOREM ReceiptsAgree == Spec => []ReceiptMatchesRecord
<1>1. Init => ReceiptInv
  BY AbsentFields DEF Init, ReceiptInv, ReceiptFits
<1>2. TypeInv /\ ReceiptInv /\ [Next]_vars => ReceiptInv'
  BY StepSettles, Zenon DEF SettlesOnly, RowsUnchanged, ReceiptInv
<1>3. Spec => [](TypeInv /\ ReceiptInv)
  BY <1>1, <1>2, TypeInvInit, TypeInvStep, PTL DEF Spec
<1>4. ReceiptInv => ReceiptMatchesRecord
  BY DEF ReceiptInv, ReceiptFits, ReceiptMatchesRecord
<1>5. QED
  BY <1>3, <1>4, PTL

-------------------------------------------------------------------------------
(* Refinement *)

\* A step on the record of one job moves its verdict and nothing else.
LEMMA VerdictMoves ==
  ASSUME TypeOK, NEW j \in Jobs, records' = [records EXCEPT ![j] = records'[j]],
         UNCHANGED <<runs, returned>>
  PROVE  OneShot!Verdict(j, VerdictOf(records[j]), VerdictOf(records'[j]))
<1>1. \A k \in Jobs \ {j} : records'[k] = records[k]
  BY DEF TypeOK
<1>2. [k \in Jobs |-> VerdictOf(records[k])]'
        = [[k \in Jobs |-> VerdictOf(records[k])] EXCEPT ![j] = VerdictOf(records'[j])]
  BY <1>1, Zenon
<1>3. [k \in Jobs |-> EffectOf(k)]' = [k \in Jobs |-> EffectOf(k)]
  BY DEF EffectOf
<1>4. QED
  BY <1>2, <1>3 DEF OneShot!Verdict

LEMMA VerdictStays ==
  ASSUME UNCHANGED <<records, runs, returned>>
  PROVE  UNCHANGED OneShot!jobVars
BY DEF OneShot!jobVars, EffectOf

\* Every step of the broker is a step of the one-shot job or stutters on it.
LEMMA RefinementStep ==
  ASSUME TypeInv, RecordInv, ClaimInv, [Next]_vars
  PROVE  [OneShot!Next]_(OneShot!jobVars)
<1> DEFINE Goal == OneShot!Next \/ UNCHANGED OneShot!jobVars
<1> SUFFICES Goal
  OBVIOUS
<1> USE DEF TypeInv
<1>0. UNCHANGED <<records, runs, returned>> => Goal
  BY VerdictStays
<1>1. ASSUME NEW j \in Jobs, SubmitRejected(j) \/ SubmitCircuitOpen(j) PROVE Goal
  <2>1. records[j].state = "absent"
    BY <1>1, AbsentFields, Zenon DEF SubmitRejected, SubmitCircuitOpen, Submittable, Sealed
  <2>2. PICK outcome \in {"rejected", "prestart_failed"}, reason \in Reason :
          SealClosed(j, outcome, reason)
    BY <1>1, Zenon DEF SubmitRejected, SubmitCircuitOpen, Reason
  <2>3. VerdictOf(records[j]) = "none" /\ VerdictOf(records'[j]) = outcome
    BY <2>1, <2>2, ClosedEffect DEF VerdictOf
  <2>4. OneShot!Verdict(j, "none", outcome)
    BY <1>1, <2>2, <2>3, VerdictMoves, ClosedEffect, Zenon
       DEF SubmitRejected, SubmitCircuitOpen, history
  <2>5. QED
    BY <2>2, <2>4 DEF OneShot!Next, OneShot!Refuse, OneShot!Refused
<1>2. ASSUME NEW j \in Jobs, SubmitPending(j) PROVE Goal
  <2>1. records[j].state = "absent"
    BY <1>2, AbsentFields, Zenon DEF SubmitPending, Submittable, Sealed
  <2>2. /\ records' = [records EXCEPT ![j] = InitialRecord(clock)]
        /\ records'[j] = InitialRecord(clock) /\ UNCHANGED <<runs, returned>>
    BY <1>2, Zenon DEF SubmitPending, TypeOK, history
  <2>3. VerdictOf(records[j]) = "none" /\ VerdictOf(records'[j]) = "open"
    BY <2>1, <2>2 DEF VerdictOf, InitialRecord
  <2>4. OneShot!Verdict(j, "none", "open")
    BY <2>2, <2>3, VerdictMoves, Zenon
  <2>5. QED
    BY <2>4, SMTT(60) DEF OneShot!Next, OneShot!Accept
<1>3. ASSUME NEW j \in Jobs, RecoverIdempotent(j) PROVE Goal
  BY <1>0, <1>3 DEF RecoverIdempotent, vars, store, history
<1>4. ASSUME NEW j \in Jobs, CompareAndAppend(j, ClaimEvent), UNCHANGED <<runs, returned>>
      PROVE  Goal
  <2>1. VerdictOf(records[j]) = "open" /\ VerdictOf(records'[j]) = "claimed"
    BY <1>4, ClaimEffect, Zenon DEF VerdictOf
  <2>2. OneShot!Verdict(j, "open", "claimed")
    BY <1>4, <2>1, VerdictMoves, ClaimEffect, Zenon
  <2>3. QED
    BY <2>2 DEF OneShot!Next, OneShot!Claim
<1>5. ASSUME NEW j \in Jobs, NEW reason \in Reason, Finalize(j, UnknownEvent(j, reason)),
             UNCHANGED <<runs, returned>>
      PROVE  Goal
  <2>1. VerdictOf(records[j]) = "claimed" /\ VerdictOf(records'[j]) = "unknown"
    BY <1>5, UnknownEffect, Zenon DEF VerdictOf
  <2>2. OneShot!Verdict(j, "claimed", "unknown")
    BY <1>5, <2>1, VerdictMoves, UnknownEffect
  <2>3. QED
    BY <2>2, Zenon DEF OneShot!Next, OneShot!LoseTrack
<1>6. ASSUME NEW j \in Jobs, ClaimWithApproval(j) PROVE Goal
  BY <1>4, <1>6, SMTT(60), Zenon DEF ClaimWithApproval, history
<1>7. CASE AutoClaim
  BY <1>0, <1>4, <1>7 DEF AutoClaim, ThreadJobs, history
<1>8. CASE Enqueue
  BY <1>0, <1>5, <1>8, Zenon DEF Enqueue, ThreadJobs, Reason, store, history
<1>9. CASE Serve \/ WorkerTake \/ WorkerRaise \/ Crash \/ Restart \/ Tick \/ ClockStepsBack
  BY <1>0, <1>9, Zenon DEF Serve, WorkerTake, WorkerRaise, Crash, Restart, Tick,
                    ClockStepsBack, store, history
<1>10. ASSUME NEW j \in Jobs, RecoverOrphan(j) \/ SecondInstanceRecovers(j) PROVE Goal
  BY <1>0, <1>5, <1>10, Zenon DEF RecoverOrphan, SecondInstanceRecovers, RestartEvent, Reason,
                           store, history
<1>11. CASE WorkerRun
  <2>0. PICK j \in Jobs : j = worker.job
    BY <1>11 DEF WorkerRun, ThreadJobs
  <2>1. /\ runs[j] = 0 /\ returned[j] = None
        /\ records[j].execution_count = 1 /\ UNCHANGED <<records, returned>>
    BY <1>11, <2>0 DEF WorkerRun, ThreadJobs, ClaimInv, ClaimHandedOn, HandlerProgress,
                              InHand, store
  <2>2. \A k \in Jobs : runs'[k] = IF k = j THEN 1 ELSE runs[k]
    BY <1>11, <2>0, <2>1 DEF WorkerRun, TypeOK
  <2>3. VerdictOf(records[j]) \in {"claimed", "unknown"}
    <3>1. ValidRecord(records[j]) /\ records[j].terminal_outcome \notin ExecutedOutcome
      BY <2>1, AbsentFields DEF RecordInv, ClaimInv, VerdictTruthful
    <3>2. records[j].state \in {"running", "unknown"}
      BY <2>1, <3>1 DEF ValidRecord
    <3>3. QED
      BY <3>2, Zenon DEF VerdictOf
  <2>4. /\ EffectOf(j) = "none" /\ EffectOf(j)' = "entered"
        /\ \A k \in Jobs \ {j} : EffectOf(k)' = EffectOf(k)
    BY <2>1, <2>2 DEF EffectOf, None
  <2>5. /\ [k \in Jobs |-> EffectOf(k)]'
             = [[k \in Jobs |-> EffectOf(k)] EXCEPT ![j] = "entered"]
        /\ [k \in Jobs |-> VerdictOf(records[k])]' = [k \in Jobs |-> VerdictOf(records[k])]
    BY <2>1, <2>4, Zenon
  <2>6. OneShot!Enter(j)
    BY <2>1, <2>3, <2>4, <2>5, Zenon DEF OneShot!Enter
  <2>7. QED
    BY <2>1, <2>6 DEF OneShot!Next
<1>12. ASSUME NEW outcome \in ExecutedOutcome, NEW reason, WorkerReturn(outcome, reason)
       PROVE  Goal
  <2>0. PICK j \in Jobs : j = worker.job
    BY <1>12 DEF WorkerReturn, ThreadJobs
  <2>1. runs[j] = 1 /\ returned[j] = None /\ UNCHANGED <<records, runs>>
    BY <1>12, <2>0 DEF WorkerReturn, ThreadJobs, ClaimInv, HandlerProgress, InHand, store
  <2>2. \A k \in Jobs : returned'[k] = IF k = j THEN outcome ELSE returned[k]
    BY <1>12, <2>0, <2>1, Zenon DEF WorkerReturn, TypeOK
  <2>3. /\ EffectOf(j) = "entered" /\ EffectOf(j)' = outcome
        /\ \A k \in Jobs \ {j} : EffectOf(k)' = EffectOf(k)
    BY <2>1, <2>2 DEF EffectOf, None, ExecutedOutcome
  <2>4. /\ [k \in Jobs |-> EffectOf(k)]'
             = [[k \in Jobs |-> EffectOf(k)] EXCEPT ![j] = outcome]
        /\ [k \in Jobs |-> VerdictOf(records[k])]' = [k \in Jobs |-> VerdictOf(records[k])]
    BY <2>1, <2>3, Zenon
  <2>5. OneShot!End(j)
    BY <2>1, <2>3, <2>4, Zenon DEF OneShot!End, OneShot!Executed, ExecutedOutcome
  <2>6. QED
    BY <2>1, <2>5 DEF OneShot!Next
<1>13. CASE WorkerCommit
  <2>1. CASE UNCHANGED store
    BY <1>0, <1>13, <2>1, Zenon DEF WorkerCommit, store, history
  <2>2. CASE Finalize(worker.job, CompletionEvent)
    <3> DEFINE j == worker.job
    <3>1. /\ j \in Jobs /\ UNCHANGED <<runs, returned>>
          /\ returned[j] = worker.outcome
      BY <1>13, Zenon DEF WorkerCommit, ThreadJobs, InHand, history, ClaimInv, HandlerProgress
    <3>2. /\ records' = [records EXCEPT ![j] = records'[j]]
          /\ VerdictOf(records[j]) = "claimed" /\ VerdictOf(records'[j]) = worker.outcome
          /\ worker.outcome \in ExecutedOutcome
      BY <2>2, <3>1, CompletionEffect, Zenon DEF VerdictOf
    <3>3. EffectOf(j) = worker.outcome
      BY <3>1, <3>2, SMTT(60), Zenon DEF EffectOf, ExecutedOutcome, None
    <3>4. OneShot!Verdict(j, "claimed", worker.outcome)
      BY <3>1, <3>2, VerdictMoves, Zenon
    <3>5. OneShot!Report(j)
      BY <3>1, <3>2, <3>3, <3>4, Zenon DEF OneShot!Report, OneShot!Executed, ExecutedOutcome
    <3>6. QED
      BY <3>1, <3>5 DEF OneShot!Next
  <2>3. QED
    BY <1>13, <2>1, <2>2 DEF WorkerCommit
<1>14. CASE WorkerExcept
  BY <1>0, <1>5, <1>14 DEF WorkerExcept, ThreadJobs, Reason, store, history
<1>15. CASE UNCHANGED vars
  BY <1>0, <1>15 DEF vars, store, history
<1>16. QED
  BY <1>1, <1>2, <1>3, <1>6, <1>7, <1>8, <1>9, <1>10, <1>11, <1>12, <1>13, <1>14, <1>15
     DEF Next, Request, ListenerStep, WorkerStep

\* The broker, with its threads, queue, crashes and second processes,
\* implements the one-shot job.
THEOREM BrokerImplementsOneShotJob == Spec => ImplementsOneShotJob
<1>1. Init => OneShot!Init
  BY AbsentFields DEF Init, OneShot!Init, VerdictOf, EffectOf
<1>2. Spec => [](TypeInv /\ RecordInv /\ ClaimInv)
  BY TypeInvInit, TypeInvStep, RecordInvInit, RecordInvStep, ClaimInvInit, ClaimInvStep,
     PTL DEF Spec
<1>3. TypeInv /\ RecordInv /\ ClaimInv /\ [Next]_vars => [OneShot!Next]_(OneShot!jobVars)
  BY RefinementStep
<1>4. QED
  BY <1>1, <1>2, <1>3, PTL DEF Spec, ImplementsOneShotJob, OneShot!Spec
-------------------------------------------------------------------------------
(* Admission *)

INSTANCE FiniteSetTheorems

InWindow(S, w, t) == {k \in S : received[k] >= t - w /\ received[k] <= t}

\* A job that is, or may still become, a technical failure.
Exposed(k) == records[k].state \in OpenState \/ TechnicalFailure(k)

ExposedIn(j, t) == {k \in InWindow(OfLineage(j), LineageWindow, t) : Exposed(k)}

ExposureLimit == MaximumTechnicalFailures - 1 + MaxOpenPerLineage

\* The bounds hold for every window, and not only for one that ends with a
\* submission; and an open job of the lineage counts as the failure that it may
\* turn into.
AdmissionInv ==
  /\ IsFiniteSet(Sealed)
  /\ \A k \in Sealed : received[k] <= clock
  /\ \A j \in Jobs :
       /\ Cardinality(Open(OfLineage(j))) <= MaxOpenPerLineage
       /\ Cardinality(Open(OfPeer(j))) <= MaxOpenPerUid
       /\ \A t \in Int : /\ Cardinality(InWindow(OfPeer(j), RateWindow, t)) <= MaxJobsPerUidWindow
                         /\ Cardinality(ExposedIn(j, t)) <= ExposureLimit

LEMMA Limits ==
  /\ MaximumTechnicalFailures \in Nat /\ MaximumTechnicalFailures >= 1
  /\ LineageWindow \in Nat /\ RateWindow \in Nat
  /\ MaxOpenPerUid \in Nat /\ MaxOpenPerLineage \in Nat /\ MaxJobsPerUidWindow \in Nat
  /\ ExposureLimit \in Nat
<1>1. \A n \in {MaximumTechnicalFailures, LineageWindow, MaxOpenPerUid,
                MaxOpenPerLineage, MaxJobsPerUidWindow, RateWindow} : n \in Nat \ {0}
  BY LimitsAssumption
<1>2. QED
  BY <1>1 DEF ExposureLimit

\* Counting: a subset is no larger, and one more job is one more.
LEMMA CountLess ==
  ASSUME NEW S, IsFiniteSet(S), NEW T \in SUBSET S, NEW n \in Nat, Cardinality(S) <= n
  PROVE  IsFiniteSet(T) /\ Cardinality(T) <= n
<1>1. IsFiniteSet(T) /\ Cardinality(T) <= Cardinality(S)
  BY FS_Subset
<1>2. Cardinality(T) \in Nat /\ Cardinality(S) \in Nat
  BY <1>1, FS_CardinalityType
<1>3. QED
  BY <1>1, <1>2

LEMMA CountOneMore ==
  ASSUME NEW S, IsFiniteSet(S), NEW x, NEW T \in SUBSET (S \cup {x}), NEW n \in Nat,
         Cardinality(S) < n
  PROVE  IsFiniteSet(T) /\ Cardinality(T) <= n
<1>1. /\ IsFiniteSet(S \cup {x})
      /\ Cardinality(S \cup {x}) = IF x \in S THEN Cardinality(S) ELSE Cardinality(S) + 1
  BY FS_AddElement
<1>2. Cardinality(S) \in Nat
  BY FS_CardinalityType
<1>3. Cardinality(S \cup {x}) <= n
  BY <1>1, <1>2
<1>4. QED
  BY <1>1, <1>3, CountLess, Zenon

LEMMA CountBoth ==
  ASSUME NEW S, IsFiniteSet(S), NEW R, IsFiniteSet(R), NEW T \in SUBSET (S \cup R),
         NEW m \in Nat, NEW n \in Nat, Cardinality(S) <= m, Cardinality(R) <= n
  PROVE  IsFiniteSet(T) /\ Cardinality(T) <= m + n
<1>1. /\ IsFiniteSet(S \cup R) /\ IsFiniteSet(S \cap R)
      /\ Cardinality(S \cup R) = Cardinality(S) + Cardinality(R) - Cardinality(S \cap R)
  BY FS_Union, FS_Intersection, Zenon
<1>2. Cardinality(S) \in Nat /\ Cardinality(R) \in Nat /\ Cardinality(S \cap R) \in Nat
  BY <1>1, FS_CardinalityType, Zenon
<1>3. Cardinality(S \cup R) <= m + n /\ m + n \in Nat
  BY <1>1, <1>2
<1>4. QED
  BY <1>1, <1>3, CountLess, Zenon

\* What the run checks.
LEMMA AdmissionInvBounds ==
  ASSUME TypeOK, AdmissionInv
  PROVE  AdmissionBounded
<1> SUFFICES ASSUME NEW j \in Sealed
             PROVE  LET Since(w) == {k \in Sealed : /\ received[k] >= received[j] - w
                                                    /\ received[k] <= received[j]}
                    IN /\ Cardinality(Open(OfLineage(j))) <= MaxOpenPerLineage
                       /\ Cardinality(Open(OfPeer(j))) <= MaxOpenPerUid
                       /\ Cardinality(OfPeer(j) \cap Since(RateWindow)) <= MaxJobsPerUidWindow
                       /\ Cardinality({k \in OfLineage(j) \cap Since(LineageWindow) :
                                          TechnicalFailure(k)})
                            <= MaximumTechnicalFailures - 1 + MaxOpenPerLineage
  BY Zenon DEF AdmissionBounded
<1> DEFINE Since(w) == {k \in Sealed : received[k] >= received[j] - w /\ received[k] <= received[j]}
           failed == {k \in OfLineage(j) \cap Since(LineageWindow) : TechnicalFailure(k)}
<1>1. j \in Jobs /\ received[j] \in Int
  BY DEF Sealed, TypeOK
<1>2. OfPeer(j) \cap Since(RateWindow) = InWindow(OfPeer(j), RateWindow, received[j])
  BY DEF OfPeer, InWindow
<1>3. failed \subseteq ExposedIn(j, received[j])
  BY Zenon DEF OfLineage, InWindow, ExposedIn, Exposed
<1>4. IsFiniteSet(ExposedIn(j, received[j]))
  <2>1. ExposedIn(j, received[j]) \subseteq Sealed
    BY DEF ExposedIn, InWindow, OfLineage
  <2>2. QED
    BY <2>1, FS_Subset, Zenon DEF AdmissionInv
<1>5. Cardinality(ExposedIn(j, received[j])) <= ExposureLimit
  BY <1>1, Zenon DEF AdmissionInv
<1>6. Cardinality(failed) <= ExposureLimit
  BY <1>3, <1>4, <1>5, Limits, CountLess, Zenon
<1>7. Cardinality(OfPeer(j) \cap Since(RateWindow)) <= MaxJobsPerUidWindow
  BY <1>1, <1>2, Zenon DEF AdmissionInv
<1>8. /\ Cardinality(Open(OfLineage(j))) <= MaxOpenPerLineage
      /\ Cardinality(Open(OfPeer(j))) <= MaxOpenPerUid
  BY <1>1, Zenon DEF AdmissionInv
<1>9. QED
  BY <1>6, <1>7, <1>8 DEF ExposureLimit

\* The counted sets are finite.
LEMMA CountedFinite ==
  ASSUME AdmissionInv, NEW j, NEW w, NEW t
  PROVE  /\ IsFiniteSet(OfPeer(j)) /\ IsFiniteSet(OfLineage(j))
         /\ IsFiniteSet(Open(OfPeer(j))) /\ IsFiniteSet(Open(OfLineage(j)))
         /\ IsFiniteSet(InWindow(OfPeer(j), w, t)) /\ IsFiniteSet(ExposedIn(j, t))
<1>1. /\ OfPeer(j) \subseteq Sealed /\ OfLineage(j) \subseteq Sealed
      /\ Open(OfPeer(j)) \subseteq Sealed /\ Open(OfLineage(j)) \subseteq Sealed
      /\ InWindow(OfPeer(j), w, t) \subseteq Sealed /\ ExposedIn(j, t) \subseteq Sealed
  BY DEF OfPeer, OfLineage, Open, InWindow, ExposedIn
<1>2. \A T \in SUBSET Sealed : IsFiniteSet(T)
  BY FS_Subset DEF AdmissionInv
<1>3. QED
  BY <1>1, <1>2, Zenon

\* Only the clock fault sets the clock back.
LEMMA ClockForward ==
  ASSUME TypeOK, [Next]_vars, "clock" \notin Faults
  PROVE  clock' >= clock
<1>1. clock \in Nat
  BY DEF TypeOK
<1>2. ~ClockStepsBack
  BY DEF ClockStepsBack, Fault
<1>3. clock' = clock \/ clock' = clock + 1
  BY <1>2, Zenon DEF Next, Request, ListenerStep, WorkerStep, SubmitRejected, SubmitCircuitOpen,
    SubmitPending, RecoverIdempotent, ClaimWithApproval, AutoClaim, Enqueue, Serve, RecoverOrphan,
    WorkerTake, WorkerRun, WorkerRaise, WorkerCommit, WorkerExcept, WorkerReturn, Crash, Restart,
    SecondInstanceRecovers, Tick, vars
<1>4. QED
  BY <1>1, <1>3

\* A step that seals no job, opens none and adds no failure that was not open.
LEMMA NothingAdmitted ==
  ASSUME TypeOK, AdmissionInv, clock' >= clock, clock' \in Nat, UNCHANGED received,
         Sealed' = Sealed,
         \A k \in Sealed : /\ (records[k].state \in OpenState)' => records[k].state \in OpenState
                           /\ Exposed(k)' => Exposed(k)
  PROVE  AdmissionInv'
<1>1. \A j : OfPeer(j)' = OfPeer(j) /\ OfLineage(j)' = OfLineage(j)
  BY Zenon DEF OfPeer, OfLineage
<1>2. \A j : /\ Open(OfPeer(j))' \subseteq Open(OfPeer(j))
             /\ Open(OfLineage(j))' \subseteq Open(OfLineage(j))
  BY <1>1, Zenon DEF Open, OfPeer, OfLineage
<1>3. \A j, t : /\ InWindow(OfPeer(j), RateWindow, t)' = InWindow(OfPeer(j), RateWindow, t)
                /\ ExposedIn(j, t)' \subseteq ExposedIn(j, t)
  BY <1>1 DEF InWindow, ExposedIn, OfLineage
<1>4. ASSUME NEW j \in Jobs
      PROVE  /\ Cardinality(Open(OfLineage(j))') <= MaxOpenPerLineage
             /\ Cardinality(Open(OfPeer(j))') <= MaxOpenPerUid
  BY <1>2, CountLess, CountedFinite, Limits, Zenon DEF AdmissionInv
<1>5. ASSUME NEW j \in Jobs, NEW t \in Int
      PROVE  /\ Cardinality(InWindow(OfPeer(j), RateWindow, t)') <= MaxJobsPerUidWindow
             /\ Cardinality(ExposedIn(j, t)') <= ExposureLimit
  <2>1. Cardinality(InWindow(OfPeer(j), RateWindow, t)') <= MaxJobsPerUidWindow
    BY <1>3, Zenon DEF AdmissionInv
  <2>2. /\ IsFiniteSet(ExposedIn(j, t)) /\ ExposedIn(j, t)' \in SUBSET ExposedIn(j, t)
        /\ Cardinality(ExposedIn(j, t)) <= ExposureLimit
    BY <1>3, CountedFinite, Zenon DEF AdmissionInv
  <2>3. QED
    BY <2>1, <2>2, CountLess, Limits, Zenon
<1>6. \A k \in Sealed' : received'[k] <= clock'
  <2> SUFFICES ASSUME NEW k \in Sealed PROVE received[k] <= clock'
    BY Zenon
  <2>1. received[k] <= clock /\ received[k] \in Nat /\ clock \in Nat
    BY Zenon DEF AdmissionInv, TypeOK, Sealed
  <2>2. QED
    BY <2>1
<1>7. IsFiniteSet(Sealed')
  BY Zenon DEF AdmissionInv
<1>8. QED
  BY <1>4, <1>5, <1>6, <1>7, Zenon DEF AdmissionInv

\* A transition takes an open job on; it seals none and reopens none.
LEMMA MovedAdmitsNothing ==
  ASSUME TypeOK, NEW j \in Jobs, Moved(j)
  PROVE  /\ Sealed' = Sealed
         /\ \A k \in Sealed : /\ (records[k].state \in OpenState)' => records[k].state \in OpenState
                              /\ Exposed(k)' => Exposed(k)
<1>1. PICK e \in TransitionEvent(Reason) : CompareAndAppend(j, e)
  BY DEF Moved
<1>2. /\ records[j].state \in OpenState /\ records'[j] = ApplyTransition(records[j], e)
      /\ \A k \in Jobs \ {j} : records'[k] = records[k]
  BY <1>1, Zenon DEF CompareAndAppend, Admits, KindAllowed, OpenState, TypeOK
<1>3. records[j] # Absent /\ records'[j] # Absent
  <2>1. records'[j].state \in JobState /\ records[j].state \in JobState
    BY <1>1, AppendedStates, Zenon
  <2>2. QED
    BY <2>1, AbsentFields, Zenon DEF JobState
<1>4. Sealed' = Sealed
  BY <1>2, <1>3, Zenon DEF Sealed
<1>5. ASSUME NEW k \in Sealed
      PROVE  /\ (records[k].state \in OpenState)' => records[k].state \in OpenState
             /\ Exposed(k)' => Exposed(k)
  BY <1>2, ZenonT(30) DEF Exposed, TechnicalFailure, Sealed
<1>6. QED
  BY <1>4, <1>5, Zenon

\* What sealing a job changes: its own row, and the sets that it belongs to.
Seals(n) ==
  /\ n \in Jobs \ Sealed /\ WithinLimits(n)
  /\ \A k \in Jobs \ {n} : records'[k] = records[k] /\ received'[k] = received[k]
  /\ records'[n] # Absent /\ received'[n] = clock

LEMMA SealsSets ==
  ASSUME NEW n, Seals(n), NEW j \in Jobs
  PROVE  /\ Sealed' = Sealed \cup {n} /\ n \notin Sealed
         /\ OfPeer(j)' \subseteq OfPeer(j) \cup {n} /\ OfLineage(j)' \subseteq OfLineage(j) \cup {n}
         /\ n \in OfPeer(j)' => OfPeer(j) = OfPeer(n)
         /\ n \in OfLineage(j)' => OfLineage(j) = OfLineage(n)
BY DEF Seals, Sealed, OfPeer, OfLineage

\* The limits that the submission was checked against hold afterwards, for its
\* own uid and lineage and for all windows that it falls into.
LEMMA SealsWithinLimits ==
  ASSUME TypeOK, AdmissionInv, NEW n, Seals(n), clock' >= clock, clock' \in Nat,
         \A j \in Jobs, t \in Int : Cardinality(ExposedIn(j, t)') <= ExposureLimit
  PROVE  AdmissionInv'
<1>1. /\ Cardinality(Open(OfPeer(n))) < MaxOpenPerUid
      /\ Cardinality(Open(OfLineage(n))) < MaxOpenPerLineage
      /\ Cardinality({k \in OfPeer(n) : received[k] >= clock - RateWindow}) < MaxJobsPerUidWindow
  BY Zenon DEF Seals, WithinLimits
<1>2. n \in Jobs /\ clock \in Nat /\ \A k \in Jobs : received[k] \in Nat
  BY Zenon DEF Seals, TypeOK
<1>3. ASSUME NEW j \in Jobs
      PROVE  Cardinality(Open(OfLineage(j))') <= MaxOpenPerLineage
  <2>1. Open(OfLineage(j))' \subseteq Open(OfLineage(j)) \cup {n}
    BY SealsSets, Zenon DEF Open, OfLineage, Seals, Sealed
  <2>2. CASE n \in OfLineage(j)'
    <3>1. OfLineage(j) = OfLineage(n)
      BY <2>2, SealsSets, Zenon
    <3>2. Open(OfLineage(j))' \subseteq Open(OfLineage(n)) \cup {n}
      BY <2>1, <3>1, Zenon
    <3>3. QED
      BY <1>1, <3>2, CountOneMore, CountedFinite, Limits, Zenon
  <2>3. CASE n \notin OfLineage(j)'
    <3>1. Open(OfLineage(j))' \subseteq Open(OfLineage(j))
      BY <2>1, <2>3, Zenon DEF Open
    <3>2. QED
      BY <3>1, CountLess, CountedFinite, Limits, Zenon DEF AdmissionInv
  <2>4. QED
    BY <2>2, <2>3, Zenon
<1>4. ASSUME NEW j \in Jobs
      PROVE  Cardinality(Open(OfPeer(j))') <= MaxOpenPerUid
  <2>1. Open(OfPeer(j))' \subseteq Open(OfPeer(j)) \cup {n}
    BY SealsSets, Zenon DEF Open, OfPeer, Seals, Sealed
  <2>2. CASE n \in OfPeer(j)'
    <3>1. OfPeer(j) = OfPeer(n)
      BY <2>2, SealsSets, Zenon
    <3>2. Open(OfPeer(j))' \subseteq Open(OfPeer(n)) \cup {n}
      BY <2>1, <3>1, Zenon
    <3>3. QED
      BY <1>1, <3>2, CountOneMore, CountedFinite, Limits, Zenon
  <2>3. CASE n \notin OfPeer(j)'
    <3>1. Open(OfPeer(j))' \subseteq Open(OfPeer(j))
      BY <2>1, <2>3, Zenon DEF Open
    <3>2. QED
      BY <3>1, CountLess, CountedFinite, Limits, Zenon DEF AdmissionInv
  <2>4. QED
    BY <2>2, <2>3, Zenon
<1>5. ASSUME NEW j \in Jobs, NEW t \in Int
      PROVE  Cardinality(InWindow(OfPeer(j), RateWindow, t)') <= MaxJobsPerUidWindow
  <2>1. InWindow(OfPeer(j), RateWindow, t)' \subseteq InWindow(OfPeer(j), RateWindow, t) \cup {n}
    BY SealsSets, Zenon DEF InWindow, OfPeer, Seals, Sealed
  <2>2. CASE n \in InWindow(OfPeer(j), RateWindow, t)'
    <3> DEFINE recent == {k \in OfPeer(n) : received[k] >= clock - RateWindow}
    <3>1. OfPeer(j) = OfPeer(n) /\ clock <= t
      BY <2>2, SealsSets, Zenon DEF InWindow, Seals
    <3>2. ASSUME NEW k \in InWindow(OfPeer(j), RateWindow, t)
          PROVE  k \in recent
      <4>1. k \in OfPeer(n) /\ received[k] >= t - RateWindow /\ received[k] \in Nat
        BY <1>2, <3>1, Zenon DEF InWindow, OfPeer, Sealed
      <4>2. received[k] >= clock - RateWindow
        BY <1>2, <3>1, <4>1, Limits, WindowMoves, Zenon
      <4>3. QED
        BY <4>1, <4>2, Zenon
    <3>3. InWindow(OfPeer(j), RateWindow, t)' \subseteq recent \cup {n}
      BY <2>1, <3>2
    <3>4. IsFiniteSet(recent)
      BY CountedFinite, FS_Subset, Zenon
    <3>5. Cardinality(recent) < MaxJobsPerUidWindow
      BY <1>1, Zenon
    <3> HIDE DEF recent
    <3>6. QED
      BY <3>3, <3>4, <3>5, CountOneMore, Limits, Zenon
  <2>3. CASE n \notin InWindow(OfPeer(j), RateWindow, t)'
    <3>1. InWindow(OfPeer(j), RateWindow, t)' \subseteq InWindow(OfPeer(j), RateWindow, t)
      BY <2>1, <2>3
    <3>2. QED
      BY <3>1, CountLess, CountedFinite, Limits, SMTT(30) DEF AdmissionInv
  <2>4. QED
    BY <2>2, <2>3, Zenon
<1>6. ASSUME NEW k \in Sealed'
      PROVE  received'[k] <= clock'
  <2>1. CASE k = n
    BY <2>1, Zenon DEF Seals
  <2>2. CASE k # n
    <3>1. k \in Sealed /\ received'[k] = received[k] /\ received[k] \in Nat
      BY <1>2, <2>2, SealsSets, Zenon DEF Seals, Sealed
    <3>2. received[k] <= clock
      BY <3>1, Zenon DEF AdmissionInv
    <3>3. QED
      BY <1>2, <3>1, <3>2, TimeGoesOn, Zenon
  <2>3. QED
    BY <2>1, <2>2, Zenon
<1>7. IsFiniteSet(Sealed')
  <2>1. Sealed' = Sealed \cup {n}
    BY <1>2, SealsSets, Zenon
  <2>2. QED
    BY <2>1, FS_AddElement, Zenon DEF AdmissionInv
<1>8. QED
  BY <1>3, <1>4, <1>5, <1>6, <1>7, Zenon DEF AdmissionInv

\* A job that is closed before it starts is neither open nor a failure.
LEMMA ClosedKeepsAdmission ==
  ASSUME TypeOK, AdmissionInv, NEW n \in Jobs, ClosedAtOnce(n), clock' >= clock, clock' \in Nat
  PROVE  AdmissionInv'
<1>1. PICK outcome \in {"rejected", "prestart_failed"}, reason \in Reason :
        /\ SealClosed(n, outcome, reason)
        /\ outcome = "rejected" \/ reason = "technical_failure_circuit_open"
  BY DEF ClosedAtOnce, Reason
<1> DEFINE e == Event("close_pending", 0, outcome, reason)
           r == ApplyTransition(InitialRecord(clock), e)
<1>2. /\ records' = [records EXCEPT ![n] = r] /\ received' = [received EXCEPT ![n] = clock]
  BY <1>1, ZenonT(30) DEF SealClosed
<1>3. r.state = "terminal" /\ r.terminal_outcome = outcome /\ r.reason_code = reason
  BY DEF ApplyTransition, NextState, Event
<1> HIDE DEF r, e
<1>4. /\ records'[n] = r /\ received'[n] = clock
      /\ \A k \in Jobs \ {n} : records'[k] = records[k] /\ received'[k] = received[k]
  BY <1>2, Zenon DEF TypeOK
<1>5. records'[n] # Absent
  BY <1>3, <1>4, AbsentFields, Zenon
<1>6. Seals(n)
  BY <1>4, <1>5, Zenon DEF Seals, ClosedAtOnce
<1>7. ~Exposed(n)'
  BY <1>1, <1>3, <1>4, LimitsAssumption, ZenonT(30) DEF Exposed, OpenState, TechnicalFailure
<1>8. ASSUME NEW j \in Jobs, NEW t \in Int
      PROVE  Cardinality(ExposedIn(j, t)') <= ExposureLimit
  <2>1. ASSUME NEW k \in ExposedIn(j, t)'
        PROVE  k \in ExposedIn(j, t)
    <3>1. k # n /\ k \in OfLineage(j)' /\ k \in Jobs
      BY <1>7, Zenon DEF ExposedIn, InWindow, OfLineage, Sealed
    <3>2. k \in OfLineage(j) /\ records'[k] = records[k] /\ received'[k] = received[k]
      BY <1>4, <1>6, <3>1, SealsSets, Zenon
    <3>3. QED
      BY <3>2, Zenon DEF ExposedIn, InWindow, Exposed, TechnicalFailure
  <2>2. ExposedIn(j, t)' \subseteq ExposedIn(j, t)
    BY <2>1
  <2>3. QED
    BY <2>2, CountLess, CountedFinite, Limits DEF AdmissionInv
<1>9. QED
  BY <1>6, <1>8, SealsWithinLimits, Zenon

\* An admitted job: the breaker has left room for fewer than the maximum of
\* failures in the windows that it falls into, and the limit for open jobs of
\* its lineage for the rest.
LEMMA AdmittedKeepsAdmission ==
  ASSUME TypeOK, AdmissionInv, NEW n \in Jobs, AdmittedPending(n), clock' >= clock, clock' \in Nat
  PROVE  AdmissionInv'
<1>1. /\ records'[n] = InitialRecord(clock) /\ received'[n] = clock
      /\ \A k \in Jobs \ {n} : records'[k] = records[k] /\ received'[k] = received[k]
  BY DEF AdmittedPending, TypeOK
<1>2. records'[n] # Absent
  BY <1>1, InitialFields, Zenon
<1>3. Seals(n)
  BY <1>1, <1>2, Zenon DEF Seals, AdmittedPending
<1> DEFINE failed == {k \in OfLineage(n) : /\ received[k] >= clock - LineageWindow
                                           /\ received[k] <= clock
                                           /\ TechnicalFailure(k)}
           opened == Open(OfLineage(n)) \cup {n}
<1>4. IsFiniteSet(failed) /\ Cardinality(failed) <= MaximumTechnicalFailures - 1
      /\ MaximumTechnicalFailures - 1 \in Nat
  <2>1. IsFiniteSet(failed)
    BY CountedFinite, FS_Subset, Zenon
  <2>2. Cardinality(failed) \in Nat
    BY <2>1, FS_CardinalityType, Zenon
  <2>3. ~(Cardinality(failed) >= MaximumTechnicalFailures)
    BY DEF AdmittedPending, CircuitOpen, TechnicalFailureCount
  <2> HIDE DEF failed
  <2>4. QED
    BY <2>1, <2>2, <2>3, Limits
<1>5. IsFiniteSet(opened) /\ Cardinality(opened) <= MaxOpenPerLineage
  <2>1. Cardinality(Open(OfLineage(n))) < MaxOpenPerLineage
    BY <1>3, Zenon DEF Seals, WithinLimits
  <2>2. QED
    BY <2>1, CountOneMore, CountedFinite, Limits, Zenon
<1>6. ASSUME NEW j \in Jobs, NEW t \in Int
      PROVE  Cardinality(ExposedIn(j, t)') <= ExposureLimit
  <2>1. ASSUME NEW k \in ExposedIn(j, t)', k # n
        PROVE  k \in ExposedIn(j, t)
    <3>1. k \in OfLineage(j)' /\ k \in Jobs
      BY <2>1, Zenon DEF ExposedIn, InWindow, OfLineage, Sealed
    <3>2. k \in OfLineage(j) /\ records'[k] = records[k] /\ received'[k] = received[k]
      BY <1>1, <1>3, <2>1, <3>1, SealsSets, ZenonT(30)
    <3>3. QED
      BY <2>1, <3>2, Zenon DEF ExposedIn, InWindow, Exposed, TechnicalFailure
  <2>2. CASE n \notin ExposedIn(j, t)'
    <3>1. ExposedIn(j, t)' \subseteq ExposedIn(j, t)
      BY <2>1, <2>2, Zenon
    <3>2. QED
      BY <3>1, CountLess, CountedFinite, Limits DEF AdmissionInv
  <2>3. CASE n \in ExposedIn(j, t)'
    <3>1. OfLineage(j) = OfLineage(n) /\ clock <= t
      BY <1>1, <1>3, <2>3, SealsSets, Zenon DEF ExposedIn, InWindow
    <3>2. ASSUME NEW k \in ExposedIn(j, t)
          PROVE  k \in failed \cup opened
      <4>1. /\ k \in OfLineage(n) /\ Exposed(k) /\ received[k] >= t - LineageWindow
            /\ k \in Sealed
        BY <3>1, ZenonT(30) DEF ExposedIn, InWindow, OfLineage
      <4>2. received[k] <= clock /\ received[k] \in Nat /\ clock \in Nat
        BY <4>1 DEF AdmissionInv, TypeOK, Sealed
      <4>3. received[k] >= clock - LineageWindow
        BY <3>1, <4>1, <4>2, Limits, WindowMoves, ZenonT(30)
      <4>4. QED
        BY <4>1, <4>2, <4>3, Zenon DEF Exposed, Open
    <3>3. ExposedIn(j, t)' \subseteq failed \cup opened
      BY <2>1, <3>2
    <3> HIDE DEF failed, opened
    <3>4. Cardinality(ExposedIn(j, t)') <= (MaximumTechnicalFailures - 1) + MaxOpenPerLineage
      BY <1>4, <1>5, <3>3, CountBoth, Limits, Zenon
    <3>5. QED
      BY <3>4 DEF ExposureLimit
  <2>4. QED
    BY <2>2, <2>3, Zenon
<1>7. QED
  BY <1>3, <1>6, SealsWithinLimits, Zenon

LEMMA AdmissionKept ==
  ASSUME TypeInv, TypeInv', AdmissionInv, [Next]_vars, "clock" \notin Faults
  PROVE  AdmissionInv'
<1>1. clock' >= clock /\ clock' \in Nat /\ TypeOK
  BY ClockForward, Zenon DEF TypeInv, TypeOK
<1>2. CASE UNCHANGED <<records, received, ledger>>
  <2>1. Sealed' = Sealed
    BY <1>2 DEF Sealed
  <2>2. \A k \in Sealed : Exposed(k)' => Exposed(k)
    BY <1>2, Zenon DEF Exposed, TechnicalFailure
  <2>3. QED
    BY <1>1, <1>2, <2>1, <2>2, NothingAdmitted, Zenon
<1>3. ASSUME NEW j \in Jobs, Moved(j)
      PROVE  AdmissionInv'
  BY <1>1, <1>3, MovedAdmitsNothing, NothingAdmitted, Zenon DEF Moved
<1>4. QED
  BY <1>1, <1>2, <1>3, ClosedKeepsAdmission, AdmittedKeepsAdmission, StoreSteps, Zenon

\* The limits of admission bound the open jobs, the submissions of a window and
\* the technical failures of a window, at every moment, whatever the limits and
\* however many jobs, so long as the wall clock is not set back
\* (_enforce_submission_limits, _lineage_summary and the breaker in submit).
THEOREM AdmissionIsBounded ==
  ASSUME "clock" \notin Faults
  PROVE  Spec => []AdmissionBounded
<1>1. Init => AdmissionInv
  <2> SUFFICES ASSUME Init PROVE AdmissionInv
    OBVIOUS
  <2>1. Sealed = {}
    BY Zenon DEF Init, Sealed
  <2>2. \A j, t : /\ Open(OfLineage(j)) = {} /\ Open(OfPeer(j)) = {}
                  /\ InWindow(OfPeer(j), RateWindow, t) = {} /\ ExposedIn(j, t) = {}
    BY <2>1 DEF Open, OfLineage, OfPeer, InWindow, ExposedIn
  <2>3. IsFiniteSet({}) /\ Cardinality({}) = 0
    BY FS_EmptySet
  <2>4. QED
    BY <2>1, <2>2, <2>3, Limits DEF AdmissionInv
<1>2. TypeInv /\ TypeInv' /\ AdmissionInv /\ [Next]_vars => AdmissionInv'
  BY AdmissionKept
<1>3. Spec => [](TypeInv /\ AdmissionInv)
  BY <1>1, <1>2, TypeInvInit, TypeInvStep, PTL DEF Spec
<1>4. TypeInv /\ AdmissionInv => AdmissionBounded
  BY AdmissionInvBounds DEF TypeInv
<1>5. QED
  BY <1>3, <1>4, PTL


===============================================================================
