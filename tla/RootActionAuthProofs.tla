------------------------- MODULE RootActionAuthProofs -------------------------
(***************************************************************************)
(* Proofs about RootActionAuth, for every set of jobs, authenticators and  *)
(* requests and for every lifetime.                                        *)
(*                                                                         *)
(* The three invariants hold together or not at all: the counter of an     *)
(* approval is new because the request that wrote it had compared the      *)
(* stored counter, and the approval of a job is the only one because the   *)
(* claim in the same transaction found the job pending.  What is added is  *)
(* what an assertion in transit and a request between its reads and its    *)
(* commit may rely on.                                                     *)
(***************************************************************************)
EXTENDS RootActionAuth, FiniteSetTheorems, TLAPS

\* The challenge of an approval ceremony names a sealed job.
CeremonyInv ==
  \A c \in Ceremonies : ceremonies[c].purpose = "approval" => ceremonies[c].job \in Jobs

\* An assertion answers an approval ceremony, with a counter the authenticator
\* has reached.
SignedInv ==
  \A a \in signed :
    /\ ceremonies[a.ceremony].purpose = "approval"
    /\ a.count <= counters[a.device]
    /\ a.device \in Counting => a.count > 0

\* What a request has verified stays true until it commits.
RequestInv ==
  \A t \in Requests : requests[t] # NoRequest =>
    LET r == requests[t]
    IN /\ r.assertion \in signed
       /\ r.assertion.device \in Active
       /\ Role(credentials[r.assertion.device].label) = "approval"
       /\ CounterAccepted(r.assertion.count, r.sign_count)

ApproverInv == \A a \in approvals : a.device \in Active

IInv ==
  /\ TypeOK /\ CeremonyInv /\ SignedInv /\ RequestInv /\ ApproverInv
  /\ ApprovalsAreSigned /\ OneApprovalPerClaim /\ CountersAdvance

-------------------------------------------------------------------------------
(* Rows that change *)

\* The placeholder of a job that was never sealed.
LEMMA AbsentFields ==
  Absent.state = "absent" /\ Absent.revision = 0 /\ Absent.execution_count = 0
BY DEF Absent, InitialRecord

\* A row of a ceremony after it was answered.
LEMMA ConsumedIs ==
  ASSUME TypeOK, NEW c \in Ceremonies, NEW d \in Devices
  PROVE  /\ Consumed(c, d) \in Ceremony
         /\ Consumed(c, d).state = "consumed" /\ Consumed(c, d).device = d
         /\ Consumed(c, d).purpose = ceremonies[c].purpose
         /\ Consumed(c, d).job = ceremonies[c].job
         /\ Consumed(c, d).bootstrap = ceremonies[c].bootstrap
         /\ Consumed(c, d).label = ceremonies[c].label
         /\ Consumed(c, d).issued_at = ceremonies[c].issued_at
         /\ Consumed(c, d).expires_at = ceremonies[c].expires_at
<1>1. ceremonies[c] \in Ceremony
  BY DEF TypeOK
<1>2. Consumed(c, d) \in Ceremony
  BY <1>1, Zenon DEF Consumed, Ceremony
<1>3. QED
  BY <1>1, <1>2 DEF Consumed, Ceremony

\* A registration that was allowed leaves a well-formed bootstrap.
LEMMA OneLessType ==
  ASSUME TypeOK, NEW b \in Bootstraps, bootstraps[b].remaining >= 1
  PROVE  OneLess(b) \in Session
<1>1. bootstraps[b] \in Session
  BY DEF TypeOK
<1>2. bootstraps[b].remaining - 1 \in 0..3
  BY <1>1 DEF Session
<1>3. (IF bootstraps[b].remaining = 1 THEN "consumed" ELSE "issued") \in
        {"none", "issued", "consumed", "expired"}
  OBVIOUS
<1>4. QED
  BY <1>1, <1>2, <1>3, Zenon DEF OneLess, Session

\* A transition finds the execution counter of its job as its kind demands and
\* leaves it at one; the other records stay as they are.
LEMMA Moves ==
  ASSUME TypeOK, NEW j \in Jobs, NEW n \in Nat,
         NEW kind \in {"claim_execution", "complete_execution", "mark_unknown"},
         NEW outcome \in TerminalOutcome \cup {None}, NEW reason \in Reason \cup {None},
         Transition(j, Event(kind, n, outcome, reason))
  PROVE  /\ records' \in [Jobs -> JobRecord(Reason) \cup {Absent}]
         /\ records[j].execution_count = IF kind = "claim_execution" THEN 0 ELSE 1
         /\ \A i \in Jobs : records'[i].execution_count =
                              IF i = j THEN 1 ELSE records[i].execution_count
<1> DEFINE e == Event(kind, n, outcome, reason)
<1>1. /\ e.kind = kind /\ e.outcome = outcome /\ e.reason_code = reason
      /\ e.occurred_at = clock /\ clock \in Nat
  BY DEF Event, TypeOK
<1>2. Admits(records[j], e) /\ records' = [records EXCEPT ![j] = ApplyTransition(records[j], e)]
  BY DEF Transition
<1> HIDE DEF e
<1>3. records[j].revision \in Nat
  BY AbsentFields DEF TypeOK, JobRecord
<1>4. NextState(e.kind) \in JobState
  BY DEF NextState, JobState
<1>5. /\ ApplyTransition(records[j], e) \in JobRecord(Reason)
      /\ ApplyTransition(records[j], e).execution_count = 1
  BY <1>1, <1>3, <1>4 DEF ApplyTransition, JobRecord
<1>6. records[j].execution_count = IF kind = "claim_execution" THEN 0 ELSE 1
  BY <1>1, <1>2 DEF Admits, KindAllowed
<1>7. QED
  BY <1>2, <1>5, <1>6 DEF TypeOK

-------------------------------------------------------------------------------
(* Enrollment *)

\* Bootstraps alone change.
LEMMA CreateBootstrapKeeps ==
  ASSUME IInv, NEW b \in Bootstraps, CreateBootstrap(b)
  PROVE  IInv'
<1>1. \A x \in Bootstraps : [bootstraps[x] EXCEPT !.state = "expired"] \in Session
  BY DEF IInv, TypeOK, Session
<1>2. [state |-> "issued", issued_at |-> clock, expires_at |-> clock + BootstrapSeconds,
       remaining |-> 3] \in Session
  BY AuthAssumption DEF IInv, TypeOK, Session, BootstrapSeconds
<1>3. bootstraps' \in [Bootstraps -> Session]
  BY <1>1, <1>2 DEF CreateBootstrap, IInv, TypeOK
<1>4. TypeOK'
  BY <1>3 DEF CreateBootstrap, IInv, TypeOK
<1>5. QED
  BY <1>4 DEF CreateBootstrap, IInv, CeremonyInv, SignedInv, RequestInv, ApproverInv, Active,
    ApprovalsAreSigned, OneApprovalPerClaim, CountersAdvance

\* A new row of a registration; no approval or assertion refers to it.
LEMMA BeginRegistrationKeeps ==
  ASSUME IInv, NEW b \in Bootstraps, NEW label \in Labels, NEW c \in Ceremonies,
         BeginRegistration(b, label, c)
  PROVE  IInv'
<1> DEFINE new == [purpose |-> "registration", state |-> "issued", issued_at |-> clock,
                   expires_at |-> clock + RegistrationSeconds, job |-> NoJob, bootstrap |-> b,
                   label |-> label, device |-> NoDevice]
<1>1. new \in Ceremony /\ new.purpose = "registration"
  BY AuthAssumption DEF IInv, TypeOK, Ceremony
<1>2. ceremonies' = [ceremonies EXCEPT ![c] = new] /\ ceremonies[c] = Unused
  BY DEF BeginRegistration, Used
<1> HIDE DEF new
<1>3. TypeOK'
  BY <1>1, <1>2 DEF BeginRegistration, IInv, TypeOK
<1>4. Unused.purpose = "none"
  BY DEF Unused
<1>5. \A x \in Ceremonies : ceremonies[x].purpose = "approval" => ceremonies'[x] = ceremonies[x]
  BY <1>2, <1>4 DEF IInv, TypeOK
<1>6. CeremonyInv'
  BY <1>1, <1>2 DEF IInv, TypeOK, CeremonyInv
<1>7. SignedInv' /\ ApprovalsAreSigned'
  BY <1>5 DEF BeginRegistration, IInv, TypeOK, SignedInv, ApprovalsAreSigned, Assertion
<1>8. QED
  BY <1>3, <1>6, <1>7 DEF BeginRegistration, IInv, RequestInv, ApproverInv, Active,
    OneApprovalPerClaim, CountersAdvance

\* A new credential; the others, and so every approval, keep theirs.
LEMMA FinishRegistrationKeeps ==
  ASSUME IInv, NEW b \in Bootstraps, NEW c \in Ceremonies, NEW d \in Devices,
         FinishRegistration(b, c, d)
  PROVE  IInv'
<1>1. /\ ceremonies' = [ceremonies EXCEPT ![c] = Consumed(c, d)]
      /\ ceremonies[c].purpose = "registration"
      /\ Consumed(c, d) \in Ceremony /\ Consumed(c, d).purpose = "registration"
  BY ConsumedIs DEF FinishRegistration, Registrable, IInv
<1>2. bootstraps' \in [Bootstraps -> Session]
  BY OneLessType DEF FinishRegistration, Registrable, IInv, TypeOK
<1> DEFINE new == [label |-> ceremonies[c].label, sign_count |-> counters[d]]
<1>3. /\ credentials' = [credentials EXCEPT ![d] = new] /\ d \notin Active
      /\ new \in [label : Labels \cup {NoLabel}, sign_count : Nat]
      /\ new.sign_count = counters[d]
  BY DEF FinishRegistration, IInv, TypeOK, Ceremony
<1> HIDE DEF new
<1>4. TypeOK'
  BY <1>1, <1>2, <1>3 DEF FinishRegistration, IInv, TypeOK
<1>5. \A x \in Ceremonies : ceremonies[x].purpose = "approval" => ceremonies'[x] = ceremonies[x]
  BY <1>1 DEF IInv, TypeOK
<1>6. \A e \in Active : credentials'[e] = credentials[e] /\ e \in Active'
  BY <1>3 DEF IInv, TypeOK, Active
<1>7. CeremonyInv'
  BY <1>1 DEF IInv, TypeOK, CeremonyInv
<1>8. SignedInv' /\ ApprovalsAreSigned' /\ ApproverInv'
  BY <1>5, <1>6, SMTT(60)
  DEF FinishRegistration, IInv, TypeOK, SignedInv, ApprovalsAreSigned, ApproverInv, Assertion
<1>9. RequestInv'
  BY <1>6 DEF FinishRegistration, IInv, RequestInv
<1>10. CountersAdvance'
  BY <1>3, <1>6, SMTT(30) DEF FinishRegistration, IInv, TypeOK, CountersAdvance, ApproverInv
<1>11. QED
  BY <1>4, <1>7, <1>8, <1>9, <1>10 DEF FinishRegistration, IInv, OneApprovalPerClaim

-------------------------------------------------------------------------------
(* Jobs *)

\* A job that is sealed has not been claimed yet.
LEMMA SubmitKeeps ==
  ASSUME IInv, NEW j \in Jobs, Submit(j)
  PROVE  IInv'
<1>1. /\ InitialRecord(clock) \in JobRecord(Reason)
      /\ InitialRecord(clock).execution_count = 0
  BY DEF InitialRecord, JobRecord, JobState, IInv, TypeOK
<1>2. \A i \in Jobs : records'[i].execution_count = records[i].execution_count
  BY <1>1, AbsentFields DEF Submit, IInv, TypeOK
<1>3. TypeOK'
  BY <1>1, SMTT(60) DEF Submit, IInv, TypeOK
<1>4. OneApprovalPerClaim'
  BY <1>2, SMTT(60) DEF Submit, IInv, TypeOK, OneApprovalPerClaim
<1>5. QED
  BY <1>3, <1>4 DEF Submit, IInv, CeremonyInv, SignedInv, RequestInv, ApproverInv, Active,
    ApprovalsAreSigned, CountersAdvance

\* An automatic job is claimed without an approval.
LEMMA AutoClaimKeeps ==
  ASSUME IInv, NEW j \in Jobs, AutoClaim(j)
  PROVE  IInv'
<1>1. /\ records' \in [Jobs -> JobRecord(Reason) \cup {Absent}]
      /\ \A i \in Jobs : records'[i].execution_count =
                           IF i = j THEN 1 ELSE records[i].execution_count
  BY Moves, SMTT(60) DEF AutoClaim, ClaimEvent, IInv
<1>2. TypeOK'
  BY <1>1, SMTT(60) DEF AutoClaim, IInv, TypeOK
<1>3. OneApprovalPerClaim'
  BY <1>1, SMTT(30) DEF AutoClaim, IInv, TypeOK, OneApprovalPerClaim
<1>4. QED
  BY <1>2, <1>3 DEF AutoClaim, IInv, CeremonyInv, SignedInv, RequestInv, ApproverInv, Active,
    ApprovalsAreSigned, CountersAdvance

\* Only a claimed job is settled.
LEMMA SettleKeeps ==
  ASSUME IInv, NEW j \in Jobs, Settle(j)
  PROVE  IInv'
<1>1. /\ records' \in [Jobs -> JobRecord(Reason) \cup {Absent}]
      /\ \A i \in Jobs : records'[i].execution_count = records[i].execution_count
  <2>1. CASE \E outcome \in ExecutedOutcome :
               Transition(j, Event("complete_execution", 1, outcome, "handler_ended"))
    BY <2>1, Moves DEF IInv, TerminalOutcome, Reason
  <2>2. CASE Transition(j, Event("mark_unknown", 1, None, "worker_outcome_uncertain"))
    BY <2>2, Moves DEF IInv, Reason
  <2>3. QED
    BY <2>1, <2>2 DEF Settle
<1>2. TypeOK'
  BY <1>1 DEF Settle, IInv, TypeOK
<1>3. OneApprovalPerClaim'
  BY <1>1 DEF Settle, IInv, TypeOK, OneApprovalPerClaim
<1>4. QED
  BY <1>2, <1>3 DEF Settle, IInv, CeremonyInv, SignedInv, RequestInv, ApproverInv, Active,
    ApprovalsAreSigned, CountersAdvance

-------------------------------------------------------------------------------
(* Approval *)

\* A new approval ceremony, and the marking of those that have run out.
LEMMA BeginApprovalKeeps ==
  ASSUME IInv, NEW j \in Jobs, NEW c \in Ceremonies, BeginApproval(j, c)
  PROVE  IInv'
<1> DEFINE new == [purpose |-> "approval", state |-> "issued", issued_at |-> clock,
                   expires_at |-> clock + ApprovalSeconds, job |-> j, bootstrap |-> NoBootstrap,
                   label |-> NoLabel, device |-> NoDevice]
           out(x) == [ceremonies[x] EXCEPT !.state = "expired"]
<1>1. new \in Ceremony /\ new.purpose = "approval" /\ new.job = j
  BY AuthAssumption DEF IInv, TypeOK, Ceremony
<1>2. \A x \in Ceremonies : /\ out(x) \in Ceremony /\ out(x).purpose = ceremonies[x].purpose
                            /\ out(x).job = ceremonies[x].job
  <2> SUFFICES ASSUME NEW x \in Ceremonies
               PROVE  /\ out(x) \in Ceremony /\ out(x).purpose = ceremonies[x].purpose
                      /\ out(x).job = ceremonies[x].job
    OBVIOUS
  <2>1. ceremonies[x] \in Ceremony
    BY DEF IInv, TypeOK
  <2>2. out(x) \in Ceremony
    BY <2>1, Zenon DEF Ceremony
  <2>3. QED
    BY <2>1, <2>2 DEF Ceremony
<1>3. /\ ceremonies[c] = Unused
      /\ ceremonies' = [x \in Ceremonies |->
           IF x = c THEN new
           ELSE IF x \in Overdue THEN out(x) ELSE ceremonies[x]]
  BY DEF BeginApproval, Used
<1> HIDE DEF new, out
<1>4. TypeOK'
  <2>1. ceremonies' \in [Ceremonies -> Ceremony]
    BY <1>1, <1>2, <1>3 DEF IInv, TypeOK
  <2>2. QED
    BY <2>1 DEF BeginApproval, IInv, TypeOK
<1>5. Unused.purpose = "none"
  BY DEF Unused
<1>6. \A x \in Ceremonies : ceremonies[x].purpose = "approval" =>
        /\ ceremonies'[x].purpose = "approval"
        /\ ceremonies[x].state = "consumed" => ceremonies'[x] = ceremonies[x]
  BY <1>2, <1>3, <1>5 DEF IInv, TypeOK, Overdue
<1>7. CeremonyInv'
  BY <1>1, <1>2, <1>3, SMTT(60) DEF IInv, TypeOK, CeremonyInv
<1>8. UNCHANGED <<credentials, approvals, signed, counters>>
  BY SMTT(60) DEF BeginApproval
<1>9. SignedInv' /\ ApprovalsAreSigned'
  BY <1>6, <1>8 DEF IInv, TypeOK, SignedInv, ApprovalsAreSigned, Assertion
<1>10. QED
  BY <1>4, <1>7, <1>9 DEF BeginApproval, IInv, RequestInv, ApproverInv, Active,
    OneApprovalPerClaim, CountersAdvance

\* Authenticators only count up.
LEMMA SignKeeps ==
  ASSUME IInv, NEW d \in Devices, NEW c \in Ceremonies, Sign(d, c)
  PROVE  IInv'
<1> DEFINE new == [device |-> d, ceremony |-> c, count |-> counters'[d]]
<1>1. /\ counters' \in [Devices -> Nat]
      /\ \A e \in Devices : counters'[e] >= counters[e]
      /\ d \in Counting => counters'[d] > 0
  BY DEF Sign, IInv, TypeOK
<1>2. /\ new \in Assertion /\ new.device = d /\ new.ceremony = c /\ new.count = counters'[d]
  BY <1>1 DEF Assertion
<1>3. signed' = signed \cup {new} /\ ceremonies[c].purpose = "approval"
  BY DEF Sign
<1> HIDE DEF new
<1>4. TypeOK'
  BY <1>1, <1>2, <1>3 DEF Sign, store, IInv, TypeOK
<1>5. SignedInv'
  <2>1. \A a \in signed : a.device \in Devices /\ a.count \in Nat
    BY SMTT(60) DEF IInv, TypeOK, Assertion
  <2>2. QED
    BY <1>1, <1>2, <1>3, <2>1 DEF Sign, store, IInv, TypeOK, SignedInv
<1>6. CountersAdvance'
  <2>1. \A e \in Devices : credentials[e].sign_count \in Nat
    BY SMTT(60) DEF IInv, TypeOK
  <2>2. QED
    BY <1>1, <2>1, SMTT(60) DEF Sign, store, IInv, TypeOK, CountersAdvance
<1>7. ApprovalsAreSigned' /\ RequestInv'
  BY <1>3, SMTT(60) DEF Sign, store, IInv, ApprovalsAreSigned, RequestInv, Active
<1>8. QED
  BY <1>4, <1>5, <1>6, <1>7 DEF Sign, store, IInv, CeremonyInv, ApproverInv, Active,
    OneApprovalPerClaim

\* The reads of finish_approval establish what the commit relies on.
LEMMA ReadAndVerifyKeeps ==
  ASSUME IInv, NEW t \in Requests, NEW a \in signed, ReadAndVerify(t, a)
  PROVE  IInv'
<1> DEFINE new == [pc |-> "verified", assertion |-> a, ceremony |-> ceremonies[a.ceremony],
                   sign_count |-> credentials[a.device].sign_count]
<1>1. a \in Assertion /\ a.device \in Devices /\ a.ceremony \in Ceremonies
  BY DEF IInv, TypeOK, Assertion
<1>2. /\ new \in [pc : {"verified"}, assertion : Assertion, ceremony : Ceremony, sign_count : Nat]
      /\ new.assertion = a /\ new.sign_count = credentials[a.device].sign_count
  BY <1>1 DEF IInv, TypeOK
<1>3. requests' = [requests EXCEPT ![t] = new]
  BY SMTT(60) DEF ReadAndVerify
<1> HIDE DEF new
<1>4. TypeOK'
  BY <1>2, <1>3, SMTT(30) DEF ReadAndVerify, store, IInv, TypeOK
<1>5. RequestInv'
  BY <1>2, <1>3 DEF ReadAndVerify, store, IInv, TypeOK, RequestInv, Verifies, Active
<1>6. QED
  BY <1>4, <1>5, ZenonT(40) DEF ReadAndVerify, store, IInv, CeremonyInv, SignedInv, ApproverInv, Active,
    ApprovalsAreSigned, OneApprovalPerClaim, CountersAdvance

\* The commit: all four writes of an approval, or none.
LEMMA ClaimWithApprovalKeeps ==
  ASSUME IInv, NEW t \in Requests, ClaimWithApproval(t)
  PROVE  IInv'
<1> DEFINE r == requests[t]
           a == r.assertion
           j == r.ceremony.job
           new == [ceremony |-> a.ceremony, job |-> j, device |-> a.device,
                   verified_at |-> clock, sign_count |-> a.count]
<1>1. /\ r # NoRequest /\ requests' = [requests EXCEPT ![t] = NoRequest]
      /\ UNCHANGED <<bootstraps, signed, counters, clock, faults>>
  BY DEF ClaimWithApproval
<1>2. /\ r.ceremony \in Ceremony /\ r.sign_count \in Nat /\ a \in Assertion
      /\ a.device \in Devices /\ a.ceremony \in Ceremonies /\ a.count \in Nat
  BY <1>1, SMTT(60) DEF IInv, TypeOK, Assertion
<1>3. /\ a \in signed /\ a.device \in Active
      /\ Role(credentials[a.device].label) = "approval"
      /\ CounterAccepted(a.count, r.sign_count)
      /\ ceremonies[a.ceremony].purpose = "approval" /\ a.count <= counters[a.device]
      /\ a.device \in Counting => a.count > 0
  BY <1>1 DEF IInv, RequestInv, SignedInv
<1>4. \A s \in Requests : requests'[s] # NoRequest => requests'[s] = requests[s]
  BY <1>1 DEF IInv, TypeOK
<1>5. requests' \in [Requests -> {NoRequest} \cup [pc : {"verified"}, assertion : Assertion,
                                                  ceremony : Ceremony, sign_count : Nat]]
  BY <1>1, SMTT(60) DEF IInv, TypeOK
<1>6. CASE ~(StillValid(t) /\ Admits(records[j], ClaimEvent))
  <2>1. UNCHANGED <<records, ceremonies, credentials, approvals>>
    BY <1>6, SMTT(60) DEF ClaimWithApproval
  <2>2. TypeOK'
    BY <1>1, <1>5, <2>1 DEF IInv, TypeOK
  <2>3. RequestInv'
    BY <1>1, <1>4, <2>1 DEF IInv, RequestInv, Active
  <2>4. QED
    BY <1>1, <2>1, <2>2, <2>3 DEF IInv, CeremonyInv, SignedInv, ApproverInv, Active,
      ApprovalsAreSigned, OneApprovalPerClaim, CountersAdvance
<1>7. CASE StillValid(t) /\ Admits(records[j], ClaimEvent)
  <2>1. /\ credentials' = [credentials EXCEPT ![a.device].sign_count = a.count]
        /\ ceremonies' = [ceremonies EXCEPT ![a.ceremony] = Consumed(a.ceremony, a.device)]
        /\ approvals' = approvals \cup {new}
        /\ Transition(j, ClaimEvent)
    BY <1>7, SMTT(60) DEF ClaimWithApproval
  <2>2. /\ ceremonies[a.ceremony] = r.ceremony /\ r.ceremony.state = "issued"
        /\ r.ceremony.expires_at > clock
        /\ credentials[a.device].sign_count = r.sign_count
    BY <1>7 DEF StillValid
  <2>3. j \in Jobs
    BY <1>2, <1>3, <2>2, SMTT(60) DEF IInv, CeremonyInv
  <2>4. /\ records' \in [Jobs -> JobRecord(Reason) \cup {Absent}]
        /\ records[j].execution_count = 0
        /\ \A i \in Jobs : records'[i].execution_count =
                             IF i = j THEN 1 ELSE records[i].execution_count
    BY <2>1, <2>3, Moves, ZenonT(40) DEF ClaimEvent, IInv
  <2>5. /\ new.ceremony = a.ceremony /\ new.job = j /\ new.device = a.device
        /\ new.verified_at = clock /\ new.sign_count = a.count
        /\ new \in [ceremony : Ceremonies, job : Jobs, device : Devices,
                     verified_at : Nat, sign_count : Nat]
    BY <1>2, <2>3, Zenon DEF IInv, TypeOK
  <2>6. a = [device |-> a.device, ceremony |-> a.ceremony, count |-> a.count]
    BY <1>2 DEF Assertion
  <2> HIDE DEF new, j, a, r
  <2>7. /\ credentials' \in [Devices -> [label : Labels \cup {NoLabel}, sign_count : Nat]]
        /\ \A d \in Devices : /\ credentials'[d].label = credentials[d].label
                              /\ credentials'[d].sign_count =
                                   IF d = a.device THEN a.count ELSE credentials[d].sign_count
    BY <1>2, <2>1 DEF IInv, TypeOK
  <2>8. Active' = Active
    BY <2>7 DEF Active
  <2>9. /\ ceremonies' \in [Ceremonies -> Ceremony]
        /\ ceremonies'[a.ceremony].state = "consumed"
        /\ ceremonies'[a.ceremony].device = a.device
        /\ ceremonies'[a.ceremony].job = j
        /\ ceremonies'[a.ceremony].expires_at > clock
        /\ \A c \in Ceremonies : /\ ceremonies'[c].purpose = ceremonies[c].purpose
                                 /\ ceremonies'[c].job = ceremonies[c].job
                                 /\ c # a.ceremony => ceremonies'[c] = ceremonies[c]
    BY <1>2, <2>1, <2>2, ConsumedIs DEF IInv, TypeOK, j
  <2>10. TypeOK'
    BY <1>1, <1>5, <2>1, <2>4, <2>5, <2>7, <2>9 DEF IInv, TypeOK
  <2>11. CeremonyInv'
    BY <2>9, SMTT(60) DEF IInv, CeremonyInv
  <2>12. SignedInv'
    BY <1>1, <2>9, SMTT(60) DEF IInv, TypeOK, SignedInv, Assertion
  <2>13. RequestInv'
    BY <1>1, <1>4, <2>7, <2>8 DEF IInv, TypeOK, RequestInv, Active
  <2>14. ApproverInv'
    BY <1>3, <2>1, <2>5, <2>8 DEF IInv, ApproverInv
  <2>15. ApprovalsAreSigned'
    <3> SUFFICES ASSUME NEW x \in approvals'
                 PROVE  /\ [device |-> x.device, ceremony |-> x.ceremony,
                            count |-> x.sign_count] \in signed'
                        /\ LET c == ceremonies'[x.ceremony]
                           IN /\ c.purpose = "approval" /\ c.job = x.job
                              /\ c.state = "consumed" /\ c.device = x.device
                              /\ x.verified_at < c.expires_at
                        /\ Role(credentials'[x.device].label) = "approval"
      BY ZenonT(40) DEF ApprovalsAreSigned
    <3>1. CASE x = new
      BY <1>1, <1>2, <1>3, <2>5, <2>6, <2>7, <2>9, <3>1, SMTT(60) DEF IInv, TypeOK, Ceremony
    <3>2. CASE x \in approvals
      <4>1. x.ceremony # a.ceremony /\ x.ceremony \in Ceremonies /\ x.device \in Devices
        BY <2>2, <3>2, Zenon DEF IInv, TypeOK, ApprovalsAreSigned
      <4>2. QED
        BY <1>1, <2>7, <2>9, <3>2, <4>1 DEF IInv, ApprovalsAreSigned
    <3>3. QED
      BY <2>1, <3>1, <3>2
  <2>16. OneApprovalPerClaim'
    <3>1. \A x \in approvals : x.job # j /\ x.job \in Jobs
      BY <2>4, SMTT(60) DEF IInv, TypeOK, OneApprovalPerClaim
    <3>2. QED
      BY <2>1, <2>3, <2>4, <2>5, <3>1 DEF IInv, OneApprovalPerClaim
  <2>17. CountersAdvance'
    <3>1. /\ a.count >= credentials[a.device].sign_count
          /\ a.device \in Counting => a.count > credentials[a.device].sign_count
      BY <1>2, <1>3, <2>2 DEF CounterAccepted
    <3>2. \A x \in approvals : x.device \in Devices /\ x.sign_count \in Nat
      BY DEF IInv, TypeOK
    <3>3. \A d \in Devices : credentials[d].sign_count \in Nat
      BY DEF IInv, TypeOK
    <3>4. \A x \in approvals : x.sign_count <= credentials[x.device].sign_count
      BY DEF IInv, CountersAdvance
    <3>5. \A x \in approvals' : x.sign_count <= credentials'[x.device].sign_count
      BY <1>2, <2>1, <2>5, <2>7, <3>1, <3>2, <3>3, <3>4, SMTT(60)
    <3>6. \A x, y \in approvals' : x.device = y.device /\ x.sign_count = y.sign_count
                                   /\ x.device \in Counting => x = y
      BY <1>2, <2>1, <2>5, <3>1, <3>2, <3>3, <3>4, SMTT(30) DEF IInv, CountersAdvance
    <3>7. \A d \in Devices : credentials'[d].sign_count <= counters'[d]
      BY <1>1, <1>3, <2>7 DEF IInv, CountersAdvance
    <3>8. QED
      BY <3>5, <3>6, <3>7, SMTT(60) DEF CountersAdvance
  <2>18. QED
    BY <2>10, <2>11, <2>12, <2>13, <2>14, <2>15, <2>16, <2>17, SMTT(60) DEF IInv
<1>8. QED
  BY <1>6, <1>7

-------------------------------------------------------------------------------
(* The invariant and what follows from it *)

\* Crashes and the clock leave every variable in its type.
LEMMA EnvironmentTypes ==
  ASSUME TypeOK, Crash \/ ClockBack \/ Tick \/ UNCHANGED vars
  PROVE  TypeOK'
<1>1. CASE Crash
  BY <1>1, AuthAssumption, SMTT(60) DEF Crash, TypeOK, store
<1>2. CASE ClockBack
  BY <1>2, AuthAssumption DEF ClockBack, TypeOK, store
<1>3. CASE Tick
  BY <1>3, AuthAssumption DEF Tick, TypeOK, store
<1>4. CASE UNCHANGED vars
  BY <1>4 DEF vars, TypeOK, store
<1>5. QED
  BY <1>1, <1>2, <1>3, <1>4, SMTT(60)

\* Crashes and the clock touch nothing an approval rests on.
LEMMA EnvironmentKeeps ==
  ASSUME IInv, Crash \/ ClockBack \/ Tick \/ UNCHANGED vars
  PROVE  IInv'
<1>1. TypeOK'
  BY EnvironmentTypes DEF IInv
<1> USE DEF IInv, CeremonyInv, SignedInv, RequestInv, ApproverInv, Active, ApprovalsAreSigned,
        OneApprovalPerClaim, CountersAdvance, store
<1>2. CASE Crash
  <2>1. \A t \in Requests : requests'[t] = NoRequest
    BY <1>2, Zenon DEF Crash
  <2>2. QED
    BY <1>1, <1>2, <2>1, ZenonT(40) DEF Crash
<1>3. CASE ClockBack
  BY <1>1, <1>3, ZenonT(40) DEF ClockBack
<1>4. CASE Tick
  BY <1>1, <1>4 DEF Tick
<1>5. CASE UNCHANGED vars
  BY <1>1, <1>5, Zenon DEF vars
<1>6. QED
  BY <1>2, <1>3, <1>4, <1>5, Zenon

LEMMA InvInit ==
  ASSUME Init
  PROVE  IInv
<1>1. Unused \in Ceremony /\ Unused.purpose = "none"
  BY DEF Unused, Ceremony
<1>2. NoSession \in Session
  BY DEF NoSession, Session
<1>3. NotEnrolled \in [label : Labels \cup {NoLabel}, sign_count : Nat]
      /\ NotEnrolled.sign_count = 0
  BY DEF NotEnrolled
<1>4. TypeOK
  BY <1>1, <1>2, <1>3, SMTT(60) DEF Init, TypeOK
<1>5. CeremonyInv
  BY <1>1, AbsentFields, SMTT(60) DEF Init, CeremonyInv
<1>6. SignedInv /\ RequestInv /\ ApproverInv
  BY DEF Init, SignedInv, RequestInv, ApproverInv
<1>7. ApprovalsAreSigned /\ OneApprovalPerClaim
  BY AbsentFields DEF Init, ApprovalsAreSigned, OneApprovalPerClaim
<1>8. CountersAdvance
  BY <1>3 DEF Init, CountersAdvance
<1>9. QED
  BY <1>4, <1>5, <1>6, <1>7, <1>8 DEF IInv

LEMMA InvStep ==
  ASSUME IInv, [Next]_vars
  PROVE  IInv'
<1>1. CASE EnrollmentStep
  BY <1>1, CreateBootstrapKeeps, BeginRegistrationKeeps, FinishRegistrationKeeps, Zenon
    DEF EnrollmentStep
<1>2. CASE JobStep
  BY <1>2, SubmitKeeps, AutoClaimKeeps, SettleKeeps, Zenon DEF JobStep
<1>3. CASE ApprovalStep
  BY <1>3, BeginApprovalKeeps, SignKeeps, ReadAndVerifyKeeps, ClaimWithApprovalKeeps, Zenon
    DEF ApprovalStep
<1>4. CASE Crash \/ ClockBack \/ Tick \/ UNCHANGED vars
  BY <1>4, EnvironmentKeeps
<1>5. QED
  BY <1>1, <1>2, <1>3, <1>4 DEF Next

\* The inductive invariant holds in every behaviour.
THEOREM Invariance == Spec => []IInv
BY InvInit, InvStep, PTL DEF Spec

\* Every stored approval was signed, for this job and this ceremony, by a
\* credential enrolled for approvals, before the ceremony ran out
\* (finish_approval and claim_with_approval).
THEOREM SignedApprovals == Spec => []ApprovalsAreSigned
<1>1. IInv => ApprovalsAreSigned
  BY DEF IInv
<1>2. QED
  BY <1>1, Invariance, PTL

\* Approvals and claims come in pairs, however many requests race and wherever
\* the process dies (claim_with_approval is one transaction).
THEOREM PairedApprovals == Spec => []OneApprovalPerClaim
<1>1. IInv => OneApprovalPerClaim
  BY DEF IInv
<1>2. QED
  BY <1>1, Invariance, PTL

\* The counter of a credential never falls behind an approval, and no count of
\* a counting authenticator is accepted twice (the compare-and-swap of
\* claim_with_approval).
THEOREM AdvancingCounters == Spec => []CountersAdvance
<1>1. IInv => CountersAdvance
  BY DEF IInv
<1>2. QED
  BY <1>1, Invariance, PTL

\* What a step may do to a ceremony that exists.
Spent ==
  \A c \in Used :
    /\ ceremonies[c].state # "issued" => ceremonies'[c] = ceremonies[c]
    /\ Binding(ceremonies'[c]) = Binding(ceremonies[c])

\* A ceremony is answered at most once and never rebound to another job, token
\* or lifetime, by any step of any request (the `state' conditions of the
\* updates in posix_store.py).
THEOREM SpentCeremonies == Spec => CeremonySpentForGood
<1>1. ASSUME IInv, [Next]_vars
      PROVE  [Spent]_vars
  <2> USE DEF IInv
  <2>1. CASE UNCHANGED ceremonies
    BY <2>1 DEF Spent
  <2>2. ASSUME NEW c \in Ceremonies, NEW new, c \notin Used,
               ceremonies' = [ceremonies EXCEPT ![c] = new]
        PROVE  Spent
    BY <2>2, SMTT(60) DEF Spent, Used, TypeOK
  <2>3. ASSUME NEW c \in Ceremonies, NEW d \in Devices, ceremonies[c].state = "issued",
               ceremonies' = [ceremonies EXCEPT ![c] = Consumed(c, d)]
        PROVE  Spent
    BY <1>1, <2>3, ConsumedIs DEF Spent, Used, Binding, TypeOK
  <2>4. ASSUME NEW j \in Jobs, NEW c \in Ceremonies, BeginApproval(j, c)
        PROVE  Spent
    <3> SUFFICES ASSUME NEW x \in Used
                 PROVE  /\ ceremonies[x].state # "issued" => ceremonies'[x] = ceremonies[x]
                        /\ Binding(ceremonies'[x]) = Binding(ceremonies[x])
      BY DEF Spent
    <3>1. x # c /\ x \in Ceremonies /\ ceremonies[x] \in Ceremony
      BY <1>1, <2>4 DEF BeginApproval, Used, TypeOK
    <3>2. \/ ceremonies'[x] = ceremonies[x]
          \/ ceremonies[x].state = "issued"
             /\ ceremonies'[x] = [ceremonies[x] EXCEPT !.state = "expired"]
      BY <2>4, <3>1 DEF BeginApproval, Overdue
    <3>3. QED
      BY <3>1, <3>2 DEF Binding, Ceremony
  <2>5. CASE EnrollmentStep
    <3>1. PICK b \in Bootstraps :
            \/ CreateBootstrap(b)
            \/ \E c \in Ceremonies : \/ \E label \in Labels : BeginRegistration(b, label, c)
                                     \/ \E d \in Devices : FinishRegistration(b, c, d)
      BY <2>5 DEF EnrollmentStep
    <3>2. CASE CreateBootstrap(b)
      BY <2>1, <3>2 DEF CreateBootstrap
    <3>3. CASE \E c \in Ceremonies, label \in Labels : BeginRegistration(b, label, c)
      BY <2>2, <3>3, ZenonT(40) DEF BeginRegistration
    <3>4. CASE \E c \in Ceremonies, d \in Devices : FinishRegistration(b, c, d)
      BY <2>3, <3>4, ZenonT(40) DEF FinishRegistration, Registrable
    <3>5. QED
      BY <3>1, <3>2, <3>3, <3>4
  <2>6. CASE ApprovalStep
    <3>1. CASE \E t \in Requests : ClaimWithApproval(t)
      <4>1. PICK t \in Requests : ClaimWithApproval(t)
        BY <3>1
      <4> DEFINE a == requests[t].assertion
      <4>2. a.device \in Devices /\ a.ceremony \in Ceremonies
        BY <1>1, <4>1 DEF ClaimWithApproval, TypeOK, Assertion
      <4>3. CASE UNCHANGED ceremonies
        BY <2>1, <4>3
      <4>4. CASE /\ StillValid(t)
                 /\ ceremonies' = [ceremonies EXCEPT ![a.ceremony] = Consumed(a.ceremony, a.device)]
        BY <2>3, <4>2, <4>4, Zenon DEF StillValid
      <4>5. QED
        BY <4>1, <4>3, <4>4 DEF ClaimWithApproval
    <3>2. CASE \E c \in Ceremonies, j \in Jobs : BeginApproval(j, c)
      BY <2>4, <3>2
    <3>3. CASE UNCHANGED ceremonies
      BY <2>1, <3>3
    <3>4. QED
      BY <2>6, <3>1, <3>2, <3>3 DEF ApprovalStep, Sign, ReadAndVerify, store
  <2>7. CASE JobStep
    BY <2>1, <2>7, Zenon DEF JobStep, Submit, AutoClaim, Settle
  <2>8. CASE Crash \/ ClockBack \/ Tick
    BY <2>1, <2>8 DEF Crash, ClockBack, Tick, store
  <2>9. QED
    BY <1>1, <2>5, <2>6, <2>7, <2>8 DEF Next
<1>2. QED
  BY <1>1, Invariance, PTL DEF Spec, CeremonySpentForGood, Spent
-------------------------------------------------------------------------------
(* Enrollment under one token *)

Live(b) == bootstraps[b].state \in {"issued", "consumed"}

Enrolled == {c \in Ceremonies : ceremonies[c].purpose = "registration"
                                /\ ceremonies[c].state = "consumed"}

OpenOf(c) == /\ ceremonies[c].purpose = "registration" /\ ceremonies[c].state = "issued"
             /\ ceremonies[c].issued_at >= bootstraps[ceremonies[c].bootstrap].issued_at

\* One token at most is alive; every registration was begun under it and ends
\* before it; and it has spent one registration for every enrolled device.
EnrollmentInv ==
  /\ \A x, y \in Bootstraps : Live(x) /\ Live(y) => x = y
  /\ \A c \in Ceremonies : ceremonies[c].purpose = "registration" =>
       /\ ceremonies[c].bootstrap \in Bootstraps /\ Live(ceremonies[c].bootstrap)
       /\ ceremonies[c].expires_at = ceremonies[c].issued_at + RegistrationSeconds
       /\ ceremonies[c].expires_at <= bootstraps[ceremonies[c].bootstrap].expires_at
  /\ IsFiniteSet(Enrolled)
  /\ \A b \in Bootstraps : Live(b) =>
       /\ bootstraps[b].expires_at = bootstraps[b].issued_at + BootstrapSeconds
       /\ bootstraps[b].remaining = 3 - Cardinality(Enrolled)
  /\ \A c, e \in Ceremonies : OpenOf(c) /\ OpenOf(e) => c = e

\* The claims that the run checks.
LEMMA EnrollmentIsOne ==
  ASSUME IInv, EnrollmentInv
  PROVE  OneEnrollment
<1>1. \A c \in Ceremonies : ceremonies[c] \in Ceremony
  BY DEF IInv, TypeOK
<1>2. \A c \in Ceremonies : ceremonies[c].purpose = "registration" => c \in Used
  BY DEF Used, Unused
<1>3. {e \in Used : ceremonies[e].purpose = "registration"
                    /\ ceremonies[e].state = "consumed"} = Enrolled
  BY <1>2, SMTT(30) DEF Enrolled, Used
<1>4. \A c, e \in OpenRegistrations : c = e
  BY DEF OpenRegistrations, Used, EnrollmentInv, OpenOf
<1>5. ASSUME NEW c \in Used, ceremonies[c].purpose = "registration",
             NEW b \in Bootstraps, b # ceremonies[c].bootstrap
      PROVE  bootstraps[b].state \in {"none", "expired"}
  <2>1. ~Live(b)
    BY <1>5 DEF EnrollmentInv, Used
  <2>2. bootstraps[b].state \in {"none", "issued", "consumed", "expired"}
    BY DEF IInv, TypeOK, Session
  <2>3. QED
    BY <2>1, <2>2, SMTT(30) DEF Live
<1>6. ASSUME NEW c \in Used, ceremonies[c].purpose = "registration"
      PROVE  bootstraps[ceremonies[c].bootstrap].remaining = 3 - Cardinality(Enrolled)
  BY <1>6, SMTT(30) DEF EnrollmentInv, Used
<1>7. QED
  BY <1>3, <1>4, <1>5, <1>6, Zenon DEF OneEnrollment

\* A step that touches no token and no registration.
LEMMA EnrollmentUntouched ==
  ASSUME EnrollmentInv, UNCHANGED bootstraps,
         \A c \in Ceremonies :
           \/ ceremonies'[c] = ceremonies[c]
           \/ /\ ceremonies[c].purpose # "registration"
              /\ ceremonies'[c].purpose # "registration"
  PROVE  EnrollmentInv'
<1>1. \A c \in Ceremonies : ceremonies'[c].purpose = "registration" =>
        ceremonies'[c] = ceremonies[c]
  OBVIOUS
<1>2. Enrolled' = Enrolled
  BY DEF Enrolled
<1>3. \A b \in Bootstraps : Live(b)' <=> Live(b)
  BY DEF Live
<1>4. \A c \in Ceremonies : OpenOf(c)' => OpenOf(c)
  BY <1>1, SMTT(30) DEF OpenOf
<1>5. \A x, y \in Bootstraps : (Live(x) /\ Live(y))' => x = y
  BY <1>3, SMTT(30) DEF EnrollmentInv
<1>6. \A c, e \in Ceremonies : (OpenOf(c) /\ OpenOf(e))' => c = e
  BY <1>4, SMTT(30) DEF EnrollmentInv
<1>7. ASSUME NEW c \in Ceremonies, ceremonies'[c].purpose = "registration"
      PROVE  /\ ceremonies'[c].bootstrap \in Bootstraps /\ Live(ceremonies[c].bootstrap)'
             /\ ceremonies'[c].expires_at = ceremonies'[c].issued_at + RegistrationSeconds
             /\ ceremonies'[c].expires_at <= bootstraps'[ceremonies'[c].bootstrap].expires_at
  BY <1>1, <1>7, SMTT(30) DEF EnrollmentInv, Live
<1>8. \A b \in Bootstraps : Live(b)' =>
        /\ bootstraps'[b].expires_at = bootstraps'[b].issued_at + BootstrapSeconds
        /\ bootstraps'[b].remaining = 3 - Cardinality(Enrolled')
  BY <1>2, <1>3, SMTT(30) DEF EnrollmentInv
<1>9. QED
  BY <1>2, <1>5, <1>6, <1>7, <1>8 DEF EnrollmentInv, Live

\* A token is created before any registration; it puts an end to the others.
LEMMA EnrollmentBegins ==
  ASSUME IInv, EnrollmentInv, NEW b \in Bootstraps, CreateBootstrap(b)
  PROVE  EnrollmentInv'
<1>1. \A c \in Ceremonies : ceremonies[c].purpose # "registration"
  <2>1. CASE Issued = {}
    <3>0. NoSession.state \notin {"issued", "consumed"}
      BY DEF NoSession
    <3>1. \A x \in Bootstraps : ~Live(x)
      BY <2>1, <3>0, Zenon DEF Issued, Live
    <3>2. QED
      BY <3>1 DEF EnrollmentInv
  <2>2. CASE Used = {}
    <3>1. \A c \in Ceremonies : ceremonies[c] = Unused
      BY <2>2 DEF Used
    <3>2. Unused.purpose = "none"
      BY DEF Unused
    <3>3. QED
      BY <3>1, <3>2
  <2>3. QED
    BY <2>1, <2>2, SMTT(30) DEF CreateBootstrap, MayCreateBootstrap
<1>2. Enrolled = {} /\ Enrolled' = {}
  BY <1>1 DEF Enrolled, CreateBootstrap
<1>3. IsFiniteSet(Enrolled') /\ Cardinality(Enrolled') = 0
  BY <1>2, FS_EmptySet
<1>4. \A c \in Ceremonies : ceremonies'[c].purpose # "registration"
  BY <1>1 DEF CreateBootstrap
<1>5. bootstraps'[b] = [state |-> "issued", issued_at |-> clock,
                        expires_at |-> clock + BootstrapSeconds, remaining |-> 3]
  BY DEF CreateBootstrap
<1>6. ASSUME NEW x \in Bootstraps, x # b
      PROVE  ~Live(x)'
  <2>1. CASE x \in Issued
    <3>1. bootstraps'[x] = [bootstraps[x] EXCEPT !.state = "expired"]
      BY <1>6, <2>1 DEF CreateBootstrap
    <3>2. bootstraps[x] \in Session
      BY DEF IInv, TypeOK
    <3>3. QED
      BY <3>1, <3>2 DEF Session, Live
  <2>2. CASE x \notin Issued
    BY <1>6, <2>2 DEF CreateBootstrap, Issued, NoSession, Live
  <2>3. QED
    BY <2>1, <2>2
<1>7. \A x \in Bootstraps : Live(x)' => x = b
  BY <1>6
<1>8. \A c \in Ceremonies : ~OpenOf(c)'
  BY <1>4 DEF OpenOf
<1>9. /\ bootstraps'[b].expires_at = bootstraps'[b].issued_at + BootstrapSeconds
      /\ bootstraps'[b].remaining = 3 - Cardinality(Enrolled')
  BY <1>3, <1>5, SMTT(30)
<1>10. QED
  BY <1>3, <1>4, <1>7, <1>8, <1>9 DEF EnrollmentInv

\* A registration begins under the live token, and only when no other can still
\* be finished: two of them would not fit into the lifetime of the token.
LEMMA EnrollmentGoesOn ==
  ASSUME IInv, EnrollmentInv, NEW b \in Bootstraps, NEW label \in Labels,
         NEW c \in Ceremonies, BeginRegistration(b, label, c)
  PROVE  EnrollmentInv'
<1> DEFINE new == [purpose |-> "registration", state |-> "issued", issued_at |-> clock,
                   expires_at |-> clock + RegistrationSeconds, job |-> NoJob, bootstrap |-> b,
                   label |-> label, device |-> NoDevice]
<1>1. /\ ceremonies' = [ceremonies EXCEPT ![c] = new] /\ ceremonies[c] = Unused
      /\ UNCHANGED <<bootstraps, clock>>
  BY DEF BeginRegistration, Used
<1>2. /\ new.purpose = "registration" /\ new.state = "issued" /\ new.issued_at = clock
      /\ new.expires_at = clock + RegistrationSeconds /\ new.bootstrap = b
  OBVIOUS
<1> HIDE DEF new
<1>3. /\ Live(b) /\ bootstraps[b].state = "issued" /\ Outstanding(b) = {}
      /\ clock + RegistrationSeconds <= bootstraps[b].expires_at
  BY DEF BeginRegistration, AuthorizesRegistration, Live
<1>4. Unused.purpose = "none"
  BY DEF Unused
<1>5. ceremonies'[c] = new /\ \A x \in Ceremonies : x # c => ceremonies'[x] = ceremonies[x]
  BY <1>1 DEF IInv, TypeOK
<1>6. Enrolled' = Enrolled
  BY <1>1, <1>2, <1>4, <1>5 DEF Enrolled
<1>7. \A x \in Bootstraps : Live(x)' <=> Live(x)
  BY <1>1, SMTT(30) DEF Live
<1>8. ASSUME NEW x \in Ceremonies, ceremonies'[x].purpose = "registration"
      PROVE  /\ ceremonies'[x].bootstrap \in Bootstraps /\ Live(ceremonies[x].bootstrap)'
             /\ ceremonies'[x].bootstrap = b
             /\ ceremonies'[x].expires_at = ceremonies'[x].issued_at + RegistrationSeconds
             /\ ceremonies'[x].expires_at <= bootstraps'[ceremonies'[x].bootstrap].expires_at
  <2>1. CASE x = c
    BY <1>1, <1>2, <1>3, <1>5, <2>1, SMTT(30) DEF Live
  <2>2. CASE x # c
    <3>1. ceremonies'[x] = ceremonies[x] /\ bootstraps' = bootstraps
      BY <1>1, <1>5, <2>2, SMTT(30)
    <3>2. ceremonies[x].bootstrap = b
      BY <1>3, <1>8, <3>1, ZenonT(40) DEF EnrollmentInv
    <3>3. QED
      BY <1>3, <1>8, <3>1, <3>2, Zenon DEF EnrollmentInv, Live
  <2>3. QED
    BY <2>1, <2>2, SMTT(30)
<1>9. ASSUME NEW x \in Ceremonies, x # c, OpenOf(x)'
      PROVE  FALSE
  <2>1. /\ ceremonies'[x] = ceremonies[x] /\ bootstraps' = bootstraps
        /\ ceremonies[x].purpose = "registration" /\ ceremonies[x].state = "issued"
    BY <1>1, <1>5, <1>9 DEF OpenOf
  <2>2. /\ ceremonies[x].bootstrap = b
        /\ ceremonies[x].expires_at = ceremonies[x].issued_at + RegistrationSeconds
    BY <1>8, <2>1
  <2>3. ceremonies[x].issued_at >= bootstraps[b].issued_at
    BY <1>9, <2>1, <2>2, SMTT(30) DEF OpenOf
  <2>4. ~(ceremonies[x].expires_at >= clock)
    BY <1>3, <2>1, <2>2, SMTT(30) DEF Outstanding
  <2>5. bootstraps[b].expires_at = bootstraps[b].issued_at + 2 * RegistrationSeconds
    BY <1>3 DEF EnrollmentInv, BootstrapSeconds
  <2>6. /\ ceremonies[x].issued_at \in Nat /\ bootstraps[b].issued_at \in Nat
        /\ clock \in Nat /\ RegistrationSeconds \in Nat
    BY AuthAssumption DEF IInv, TypeOK, Ceremony, Session
  <2>7. QED
    BY <1>3, <2>2, <2>3, <2>4, <2>5, <2>6, SMTT(30)
<1>10. \A x, e \in Ceremonies : (OpenOf(x) /\ OpenOf(e))' => x = e
  BY <1>9, SMTT(30)
<1>11. \A x, y \in Bootstraps : (Live(x) /\ Live(y))' => x = y
  BY <1>7, SMTT(30) DEF EnrollmentInv
<1>12. \A x \in Bootstraps : Live(x)' =>
         /\ bootstraps'[x].expires_at = bootstraps'[x].issued_at + BootstrapSeconds
         /\ bootstraps'[x].remaining = 3 - Cardinality(Enrolled')
  BY <1>1, <1>6, <1>7, Zenon DEF EnrollmentInv
<1>13. QED
  BY <1>6, <1>8, <1>10, <1>11, <1>12, Zenon DEF EnrollmentInv, Live

\* A registration that is finished is taken off the token that began it.
LEMMA EnrollmentCounts ==
  ASSUME IInv, EnrollmentInv, NEW b \in Bootstraps, NEW c \in Ceremonies, NEW d \in Devices,
         FinishRegistration(b, c, d)
  PROVE  EnrollmentInv'
<1>1. /\ ceremonies' = [ceremonies EXCEPT ![c] = Consumed(c, d)]
      /\ bootstraps' = [bootstraps EXCEPT ![b] = OneLess(b)]
      /\ ceremonies[c].purpose = "registration" /\ ceremonies[c].state = "issued"
      /\ ceremonies[c].bootstrap = b
      /\ bootstraps[b].state = "issued" /\ bootstraps[b].remaining >= 1
  BY DEF FinishRegistration, Registrable
<1>2. /\ Consumed(c, d).state = "consumed"
      /\ Consumed(c, d).purpose = "registration" /\ Consumed(c, d).bootstrap = b
      /\ Consumed(c, d).issued_at = ceremonies[c].issued_at
      /\ Consumed(c, d).expires_at = ceremonies[c].expires_at
  BY <1>1, ConsumedIs DEF IInv
<1>3. bootstraps[b] \in Session
  BY DEF IInv, TypeOK
<1>4. /\ OneLess(b).remaining = bootstraps[b].remaining - 1
      /\ OneLess(b).issued_at = bootstraps[b].issued_at
      /\ OneLess(b).expires_at = bootstraps[b].expires_at
      /\ OneLess(b).state \in {"issued", "consumed"}
  BY <1>3 DEF OneLess, Session
<1>5. /\ ceremonies'[c] = Consumed(c, d) /\ bootstraps'[b] = OneLess(b)
      /\ \A x \in Ceremonies : x # c => ceremonies'[x] = ceremonies[x]
      /\ \A x \in Bootstraps : x # b => bootstraps'[x] = bootstraps[x]
  BY <1>1 DEF IInv, TypeOK
<1>6. Live(b) /\ \A x \in Bootstraps : Live(x)' <=> Live(x)
  BY <1>1, <1>4, <1>5 DEF Live
<1>7. /\ IsFiniteSet(Enrolled') /\ IsFiniteSet(Enrolled)
      /\ Cardinality(Enrolled') = Cardinality(Enrolled) + 1
  <2>1. Enrolled' = Enrolled \cup {c} /\ c \notin Enrolled
    BY <1>1, <1>2, <1>5, SMTT(30) DEF Enrolled
  <2>2. IsFiniteSet(Enrolled)
    BY DEF EnrollmentInv
  <2>3. QED
    BY <2>1, <2>2, FS_AddElement
<1>8. \A x \in Ceremonies : /\ ceremonies'[x].purpose = ceremonies[x].purpose
                            /\ ceremonies'[x].bootstrap = ceremonies[x].bootstrap
                            /\ ceremonies'[x].issued_at = ceremonies[x].issued_at
                            /\ ceremonies'[x].expires_at = ceremonies[x].expires_at
                            /\ ceremonies'[x].state = "issued" => ceremonies[x].state = "issued"
  BY <1>1, <1>2, <1>5, SMTT(30)
<1>9. \A x \in Bootstraps : /\ bootstraps'[x].issued_at = bootstraps[x].issued_at
                            /\ bootstraps'[x].expires_at = bootstraps[x].expires_at
  BY <1>4, <1>5, SMTT(30)
<1>10. ASSUME NEW x \in Ceremonies, ceremonies'[x].purpose = "registration"
       PROVE  /\ ceremonies'[x].bootstrap \in Bootstraps /\ Live(ceremonies[x].bootstrap)'
              /\ ceremonies'[x].expires_at = ceremonies'[x].issued_at + RegistrationSeconds
              /\ ceremonies'[x].expires_at <= bootstraps'[ceremonies'[x].bootstrap].expires_at
  <2>1. /\ ceremonies[x].bootstrap \in Bootstraps /\ Live(ceremonies[x].bootstrap)
        /\ ceremonies[x].expires_at = ceremonies[x].issued_at + RegistrationSeconds
        /\ ceremonies[x].expires_at <= bootstraps[ceremonies[x].bootstrap].expires_at
    BY <1>8, <1>10, SMTT(30) DEF EnrollmentInv
  <2>2. Live(ceremonies[x].bootstrap)'
    BY <1>6, <1>8, <2>1, SMTT(30) DEF Live
  <2>3. QED
    BY <1>8, <1>9, <2>1, <2>2, SMTT(30)
<1>11. \A x \in Ceremonies : OpenOf(x)' => OpenOf(x)
  BY <1>8, <1>9, <1>10, SMTT(30) DEF OpenOf
<1>12. \A x, e \in Ceremonies : (OpenOf(x) /\ OpenOf(e))' => x = e
  BY <1>11, SMTT(30) DEF EnrollmentInv
<1>13. \A x, y \in Bootstraps : (Live(x) /\ Live(y))' => x = y
  BY <1>6, SMTT(30) DEF EnrollmentInv
<1>14. ASSUME NEW x \in Bootstraps, Live(x)'
       PROVE  /\ bootstraps'[x].expires_at = bootstraps'[x].issued_at + BootstrapSeconds
              /\ bootstraps'[x].remaining = 3 - Cardinality(Enrolled')
  <2>1. x = b
    BY <1>6, <1>14, ZenonT(40) DEF EnrollmentInv
  <2>2. /\ bootstraps[b].expires_at = bootstraps[b].issued_at + BootstrapSeconds
        /\ bootstraps[b].remaining = 3 - Cardinality(Enrolled)
    BY <1>6, ZenonT(40) DEF EnrollmentInv
  <2>3. Cardinality(Enrolled) \in Nat
    BY <1>7, FS_CardinalityType, SMTT(30)
  <2>4. QED
    BY <1>4, <1>5, <1>7, <2>1, <2>2, <2>3, SMTT(30)
<1>15. QED
  BY <1>7, <1>10, <1>12, <1>13, <1>14, Zenon DEF EnrollmentInv, Live

LEMMA EnrollmentInit ==
  ASSUME Init
  PROVE  EnrollmentInv
<1>1. \A b \in Bootstraps : ~Live(b)
  BY DEF Init, NoSession, Live
<1>2. \A c \in Ceremonies : ceremonies[c].purpose # "registration"
  BY DEF Init, Unused
<1>3. Enrolled = {}
  BY <1>2 DEF Enrolled
<1>4. IsFiniteSet(Enrolled)
  BY <1>3, FS_EmptySet
<1>5. QED
  BY <1>1, <1>2, <1>4 DEF EnrollmentInv, OpenOf

LEMMA EnrollmentKept ==
  ASSUME IInv, EnrollmentInv, [Next]_vars
  PROVE  EnrollmentInv'
<1>1. CASE EnrollmentStep
  BY <1>1, EnrollmentBegins, EnrollmentGoesOn, EnrollmentCounts, Zenon DEF EnrollmentStep
<1>2. CASE UNCHANGED <<bootstraps, ceremonies>>
  BY <1>2, EnrollmentUntouched
<1>3. ASSUME NEW j \in Jobs, NEW c \in Ceremonies, BeginApproval(j, c)
      PROVE  EnrollmentInv'
  <2>1. ASSUME NEW x \in Ceremonies, ceremonies'[x] # ceremonies[x]
        PROVE  ceremonies[x].purpose # "registration" /\ ceremonies'[x].purpose # "registration"
    <3>1. ceremonies[x] \in Ceremony
      BY DEF IInv, TypeOK
    <3>2. CASE x = c
      BY <1>3, <3>2 DEF BeginApproval, Used, Unused
    <3>3. CASE x # c
      <4>1. x \in Overdue /\ ceremonies'[x] = [ceremonies[x] EXCEPT !.state = "expired"]
        BY <1>3, <2>1, <3>3 DEF BeginApproval
      <4>2. QED
        BY <3>1, <4>1 DEF Overdue, Ceremony
    <3>4. QED
      BY <3>2, <3>3
  <2>2. UNCHANGED bootstraps
    BY <1>3 DEF BeginApproval
  <2>3. QED
    BY <2>1, <2>2, EnrollmentUntouched
<1>4. ASSUME NEW t \in Requests, ClaimWithApproval(t), ~UNCHANGED ceremonies
      PROVE  EnrollmentInv'
  <2> DEFINE a == requests[t].assertion
  <2>1. /\ requests[t] # NoRequest /\ UNCHANGED bootstraps
        /\ ceremonies' = [ceremonies EXCEPT ![a.ceremony] = Consumed(a.ceremony, a.device)]
    BY <1>4 DEF ClaimWithApproval
  <2>2. /\ a \in signed /\ a.device \in Devices /\ a.ceremony \in Ceremonies
    BY <2>1 DEF IInv, RequestInv, TypeOK, Assertion
  <2>3. ceremonies[a.ceremony].purpose = "approval"
    BY <2>2, SMTT(30) DEF IInv, SignedInv
  <2>4. Consumed(a.ceremony, a.device).purpose = "approval"
    BY <2>2, <2>3, ConsumedIs, SMTT(30) DEF IInv
  <2>5. \A x \in Ceremonies :
          \/ ceremonies'[x] = ceremonies[x]
          \/ /\ ceremonies[x].purpose # "registration"
             /\ ceremonies'[x].purpose # "registration"
    BY <2>1, <2>2, <2>3, <2>4, SMTT(30) DEF IInv, TypeOK
  <2>6. QED
    BY <2>1, <2>5, EnrollmentUntouched
<1>5. CASE ApprovalStep
  <2>1. CASE \E c \in Ceremonies, j \in Jobs : BeginApproval(j, c)
    BY <1>3, <2>1
  <2>2. CASE \E t \in Requests : ClaimWithApproval(t)
    <3>1. PICK t \in Requests : ClaimWithApproval(t)
      BY <2>2
    <3>2. UNCHANGED bootstraps
      BY <3>1 DEF ClaimWithApproval
    <3>3. QED
      BY <1>2, <1>4, <3>1, <3>2
  <2>3. CASE UNCHANGED <<bootstraps, ceremonies>>
    BY <1>2, <2>3
  <2>4. QED
    BY <1>5, <2>1, <2>2, <2>3, Zenon DEF ApprovalStep, Sign, ReadAndVerify, store
<1>6. CASE JobStep
  BY <1>2, <1>6, Zenon DEF JobStep, Submit, AutoClaim, Settle
<1>7. CASE Crash \/ ClockBack \/ Tick
  BY <1>2, <1>7 DEF Crash, ClockBack, Tick, store
<1>8. CASE UNCHANGED vars
  BY <1>2, <1>8 DEF vars, store
<1>9. QED
  BY <1>1, <1>5, <1>6, <1>7, <1>8 DEF Next

\* Enrollment happens under one token, which counts its registrations, and two
\* registrations are never open under it at once: that its lifetime is twice a
\* registration's, and that a new registration waits for the time of the last
\* (BOOTSTRAP_SECONDS, issue_registration_ceremony), is what rules it out.
THEOREM EnrollmentUnderOneToken == Spec => []OneEnrollment
<1>1. Spec => []EnrollmentInv
  BY EnrollmentInit, EnrollmentKept, Invariance, PTL DEF Spec
<1>2. IInv /\ EnrollmentInv => OneEnrollment
  BY EnrollmentIsOne
<1>3. QED
  BY <1>1, <1>2, Invariance, PTL

==============================================================================
