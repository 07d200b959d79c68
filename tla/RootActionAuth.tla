---------------------------- MODULE RootActionAuth ----------------------------
(***************************************************************************)
(* Who may claim a root action: bootstrap sessions, registration and       *)
(* approval ceremonies and the claim they end in (auth_service.py,         *)
(* authorization.py and the authorization tables of posix_store.py).  The  *)
(* OPS web process only carries messages, so an assertion may arrive late, *)
(* twice, or next to others.  A request of finish_approval reads ceremony  *)
(* and credential, verifies, and commits in a transaction of its own; the  *)
(* store is written for several such requests at once.                     *)
(***************************************************************************)
EXTENDS RootActionState, FiniteSets

CONSTANTS
  Jobs, Devices, Ceremonies, Bootstraps, Requests,
  Labels,           \* the fixed registrations (_LABEL_ROLES) used in this instance
  NoJob, NoDevice, NoBootstrap, NoLabel,
  Policy,           \* [Jobs -> {"auto", "approval"}]
  Kind,             \* built-in ("platform") or separate authenticator; of the
                    \* latter, one whose key is bound to it or a "synced" one
  Counting,         \* devices that keep a signature counter
  RegistrationSeconds, ApprovalSeconds,
  MaxSigned, MaxClock, MaxFaults    \* bounds of the instance

Role(label) == IF label = "recovery_fido2" THEN "recovery" ELSE "approval"

BootstrapSeconds == 2 * RegistrationSeconds   \* 600 and 300 in the code

ASSUME AuthAssumption ==
  /\ Labels \subseteq {"office_windows_hello", "remote_phone_passkey", "recovery_fido2"}
  /\ NoJob \notin Jobs /\ NoDevice \notin Devices
  /\ NoBootstrap \notin Bootstraps /\ NoLabel \notin Labels
  /\ Policy \in [Jobs -> {"auto", "approval"}]
  /\ Kind \in [Devices -> {"platform", "roaming", "synced"}]
  /\ Counting \subseteq Devices
  /\ RegistrationSeconds \in Nat \ {0} /\ ApprovalSeconds \in Nat \ {0}
  /\ MaxSigned \in Nat /\ MaxClock \in Nat /\ MaxFaults \in Nat

VARIABLES
  records,      \* root_action_records
  bootstraps,   \* root_action_auth_bootstrap
  ceremonies,   \* root_action_auth_ceremonies
  credentials,  \* root_action_auth_credentials: label and sign_count per device
  approvals,    \* root_action_auth_approvals
  requests,     \* finish_approval requests between their reads and their commit
  signed,       \* assertions made by authenticators, all still in transit
  counters,     \* the authenticators' own counters
  clock, faults

store == <<records, bootstraps, ceremonies, credentials, approvals>>
vars  == <<store, requests, signed, counters, clock, faults>>

Absent == [InitialRecord(0) EXCEPT !.state = "absent"]

Reason == {"handler_ended", "worker_outcome_uncertain"}

NoSession == [state |-> "none", issued_at |-> 0, expires_at |-> 0, remaining |-> 0]

Unused == [purpose |-> "none", state |-> "none", issued_at |-> 0, expires_at |-> 0,
           job |-> NoJob, bootstrap |-> NoBootstrap, label |-> NoLabel, device |-> NoDevice]

NotEnrolled == [label |-> NoLabel, sign_count |-> 0]

Assertion == [device : Devices, ceremony : Ceremonies, count : Nat]

NoRequest == [pc |-> "idle"]

Session  == [state : {"none", "issued", "consumed", "expired"}, issued_at : Nat,
             expires_at : Nat, remaining : 0..3]
Ceremony == [purpose : {"none", "registration", "approval"},
             state : {"none", "issued", "consumed", "expired"},
             issued_at : Nat, expires_at : Nat, job : Jobs \cup {NoJob},
             bootstrap : Bootstraps \cup {NoBootstrap},
             label : Labels \cup {NoLabel}, device : Devices \cup {NoDevice}]

TypeOK ==
  /\ records \in [Jobs -> JobRecord(Reason) \cup {Absent}]
  /\ bootstraps \in [Bootstraps -> Session]
  /\ ceremonies \in [Ceremonies -> Ceremony]
  /\ credentials \in [Devices -> [label : Labels \cup {NoLabel}, sign_count : Nat]]
  /\ approvals \subseteq [ceremony : Ceremonies, job : Jobs, device : Devices,
                          verified_at : Nat, sign_count : Nat]
  /\ requests \in [Requests ->
       {NoRequest} \cup [pc : {"verified"}, assertion : Assertion,
                         ceremony : Ceremony, sign_count : Nat]]
  /\ signed \subseteq Assertion
  /\ counters \in [Devices -> Nat]
  /\ clock \in Nat /\ faults \in Nat

Init ==
  /\ records = [j \in Jobs |-> Absent]
  /\ bootstraps = [b \in Bootstraps |-> NoSession]
  /\ ceremonies = [c \in Ceremonies |-> Unused]
  /\ credentials = [d \in Devices |-> NotEnrolled]
  /\ approvals = {}
  /\ requests = [t \in Requests |-> NoRequest]
  /\ signed = {}
  /\ counters = [d \in Devices |-> 0]
  /\ clock = 0 /\ faults = 0

-------------------------------------------------------------------------------
(* Enrollment *)

Issued == {b \in Bootstraps : bootstraps[b] # NoSession}
Used   == {c \in Ceremonies : ceremonies[c] # Unused}
Active == {d \in Devices : credentials[d].label # NoLabel}

\* create_auth_bootstrap: the first one, or the one replacement of a token that
\* nobody has used.
MayCreateBootstrap ==
  \/ Issued = {}
  \/ /\ Cardinality(Issued) = 1 /\ Active = {} /\ Used = {}
     /\ \A b \in Issued : bootstraps[b].state # "consumed"

\* create_initial_bootstrap.
CreateBootstrap(b) ==
  /\ b \notin Issued /\ MayCreateBootstrap
  /\ bootstraps' = [x \in Bootstraps |->
       IF x = b THEN [state |-> "issued", issued_at |-> clock,
                      expires_at |-> clock + BootstrapSeconds, remaining |-> 3]
       ELSE IF x \in Issued THEN [bootstraps[x] EXCEPT !.state = "expired"]
       ELSE bootstraps[x]]
  /\ UNCHANGED <<records, ceremonies, credentials, approvals, requests, signed, counters,
                 clock, faults>>

Outstanding(b) ==
  {c \in Ceremonies : /\ ceremonies[c].bootstrap = b /\ ceremonies[c].state = "issued"
                      /\ ceremonies[c].expires_at >= clock}

\* Mutant: a registration may outlive its bootstrap.
AuthorizesRegistrationLonger(b) ==
  /\ bootstraps[b].state = "issued" /\ bootstraps[b].remaining >= 1
  /\ bootstraps[b].expires_at > clock
  /\ Outstanding(b) = {}

\* issue_registration_ceremony: what the bootstrap must allow.
AuthorizesRegistration(b) ==
  /\ bootstraps[b].state = "issued" /\ bootstraps[b].remaining >= 1
  /\ bootstraps[b].expires_at > clock
  /\ clock + RegistrationSeconds <= bootstraps[b].expires_at
  /\ Outstanding(b) = {}

\* begin_registration.
BeginRegistration(b, label, c) ==
  /\ AuthorizesRegistration(b) /\ c \notin Used
  /\ ceremonies' = [ceremonies EXCEPT ![c] =
       [purpose |-> "registration", state |-> "issued", issued_at |-> clock,
        expires_at |-> clock + RegistrationSeconds, job |-> NoJob, bootstrap |-> b,
        label |-> label, device |-> NoDevice]]
  /\ UNCHANGED <<records, bootstraps, credentials, approvals, requests, signed, counters,
                 clock, faults>>

\* verify_registration: the kind of authenticator the role calls for.
FitsRole(d, label) ==
  IF Role(label) = "recovery" THEN Kind[d] = "roaming" ELSE Kind[d] = "platform"

\* The row of a ceremony after device d has answered it.
Consumed(c, d) == [ceremonies[c] EXCEPT !.state = "consumed", !.device = d]

\* The row of a bootstrap after one more registration.
OneLess(b) ==
  [bootstraps[b] EXCEPT !.remaining = @ - 1,
                        !.state = IF bootstraps[b].remaining = 1 THEN "consumed" ELSE "issued"]

\* complete_registration before its writes.
Registrable(b, c) ==
  /\ ceremonies[c].purpose = "registration" /\ ceremonies[c].state = "issued"
  /\ ceremonies[c].expires_at > clock /\ ceremonies[c].bootstrap = b
  /\ bootstraps[b].state = "issued" /\ bootstraps[b].remaining >= 1
  /\ bootstraps[b].expires_at > clock

\* finish_registration.  A credential or an active label that exists already
\* makes the insertion fail and the whole transaction with it.
FinishRegistration(b, c, d) ==
  /\ Registrable(b, c) /\ FitsRole(d, ceremonies[c].label)
  /\ d \notin Active /\ \A e \in Active : credentials[e].label # ceremonies[c].label
  /\ credentials' = [credentials EXCEPT ![d] =
       [label |-> ceremonies[c].label, sign_count |-> counters[d]]]
  /\ ceremonies' = [ceremonies EXCEPT ![c] = Consumed(c, d)]
  /\ bootstraps' = [bootstraps EXCEPT ![b] = OneLess(b)]
  /\ UNCHANGED <<records, approvals, requests, signed, counters, clock, faults>>

EnrollmentStep ==
  \E b \in Bootstraps :
    \/ CreateBootstrap(b)
    \/ \E c \in Ceremonies : \/ \E label \in Labels : BeginRegistration(b, label, c)
                             \/ \E d \in Devices : FinishRegistration(b, c, d)

-------------------------------------------------------------------------------
(* The jobs, as far as approvals can tell: see RootActionBroker *)

Event(kind, revision, outcome, reason) ==
  [kind |-> kind, expected_revision |-> revision, occurred_at |-> clock,
   outcome |-> outcome, reason_code |-> reason]

Transition(j, e) ==
  /\ Admits(records[j], e)
  /\ records' = [records EXCEPT ![j] = ApplyTransition(@, e)]

\* seal_pending.
Submit(j) ==
  /\ records[j] = Absent
  /\ records' = [records EXCEPT ![j] = InitialRecord(clock)]
  /\ UNCHANGED <<bootstraps, ceremonies, credentials, approvals, requests, signed, counters,
                 clock, faults>>

ClaimEvent == Event("claim_execution", 0, None, None)

\* _auto_claim_and_dispatch of an automatic operation.
AutoClaim(j) ==
  /\ Policy[j] = "auto"
  /\ Transition(j, ClaimEvent)
  /\ UNCHANGED <<bootstraps, ceremonies, credentials, approvals, requests, signed, counters,
                 clock, faults>>

\* The worker settles a claimed job.
Settle(j) ==
  /\ \/ \E outcome \in ExecutedOutcome :
          Transition(j, Event("complete_execution", 1, outcome, "handler_ended"))
     \/ Transition(j, Event("mark_unknown", 1, None, "worker_outcome_uncertain"))
  /\ UNCHANGED <<bootstraps, ceremonies, credentials, approvals, requests, signed, counters,
                 clock, faults>>

JobStep == \E j \in Jobs : Submit(j) \/ AutoClaim(j) \/ Settle(j)

-------------------------------------------------------------------------------
(* Approval *)

\* issue_approval_ceremony: only a pending job, and only if somebody can approve.
MayRequestApproval(j) ==
  /\ records[j].state = "pending" /\ records[j].execution_count = 0
  /\ \E d \in Active : Role(credentials[d].label) = "approval"

\* Approval ceremonies that have run out; they are marked on the way.
Overdue == {c \in Ceremonies : /\ ceremonies[c].purpose = "approval"
                               /\ ceremonies[c].state = "issued"
                               /\ ceremonies[c].expires_at <= clock}

\* begin_approval.
BeginApproval(j, c) ==
  /\ c \notin Used /\ MayRequestApproval(j)
  /\ ceremonies' = [x \in Ceremonies |->
       IF x = c
       THEN [purpose |-> "approval", state |-> "issued", issued_at |-> clock,
             expires_at |-> clock + ApprovalSeconds, job |-> j, bootstrap |-> NoBootstrap,
             label |-> NoLabel, device |-> NoDevice]
       ELSE IF x \in Overdue THEN [ceremonies[x] EXCEPT !.state = "expired"]
       ELSE ceremonies[x]]
  /\ UNCHANGED <<records, bootstraps, credentials, approvals, requests, signed, counters,
                 clock, faults>>

\* The owner lets an enrolled authenticator sign the challenge of a ceremony.
Sign(d, c) ==
  /\ d \in Active /\ ceremonies[c].purpose = "approval"
  /\ Cardinality(signed) < MaxSigned
  /\ counters' = [counters EXCEPT ![d] = IF d \in Counting THEN @ + 1 ELSE @]
  /\ signed' = signed \cup {[device |-> d, ceremony |-> c, count |-> counters'[d]]}
  /\ UNCHANGED <<store, requests, clock, faults>>

\* verify_authentication_response on the counters: both zero, or a new one.
CounterAccepted(count, stored) == (count = 0 /\ stored = 0) \/ count > stored

\* Mutant: a recovery credential may approve.
VerifiesAnyRole(a) ==
  /\ a.device \in Active
  /\ CounterAccepted(a.count, credentials[a.device].sign_count)

\* finish_approval up to verify_assertion: an active approval credential, the
\* challenge of the ceremony, and its counter.
Verifies(a) ==
  /\ a.device \in Active /\ Role(credentials[a.device].label) = "approval"
  /\ CounterAccepted(a.count, credentials[a.device].sign_count)

ReadAndVerify(t, a) ==
  /\ requests[t] = NoRequest /\ Verifies(a)
  /\ requests' = [requests EXCEPT ![t] =
       [pc |-> "verified", assertion |-> a, ceremony |-> ceremonies[a.ceremony],
        sign_count |-> credentials[a.device].sign_count]]
  /\ UNCHANGED <<store, signed, counters, clock, faults>>

\* claim_with_approval before its writes: nothing has changed since the reads.
StillValid(t) ==
  LET r == requests[t]
  IN /\ r.ceremony.state = "issued" /\ r.ceremony.expires_at > clock
     /\ ceremonies[r.assertion.ceremony] = r.ceremony
     /\ credentials[r.assertion.device].sign_count = r.sign_count

\* Mutant: the approval is recorded although the claim is refused.
ClaimWithApprovalSplit(t) ==
  LET a == requests[t].assertion
      j == requests[t].ceremony.job
  IN /\ requests[t] # NoRequest
     /\ requests' = [requests EXCEPT ![t] = NoRequest]
     /\ IF StillValid(t)
        THEN /\ credentials' = [credentials EXCEPT ![a.device].sign_count = a.count]
             /\ ceremonies' = [ceremonies EXCEPT ![a.ceremony] = Consumed(a.ceremony, a.device)]
             /\ approvals' = approvals \cup
                  {[ceremony |-> a.ceremony, job |-> j, device |-> a.device,
                    verified_at |-> clock, sign_count |-> a.count]}
             /\ IF Admits(records[j], ClaimEvent) THEN Transition(j, ClaimEvent)
                ELSE UNCHANGED records
        ELSE UNCHANGED <<records, ceremonies, credentials, approvals>>
     /\ UNCHANGED <<bootstraps, signed, counters, clock, faults>>

\* claim_with_approval: counter, ceremony, approval and claim in one
\* transaction, which a refused claim rolls back.
ClaimWithApproval(t) ==
  LET a == requests[t].assertion
      j == requests[t].ceremony.job
  IN /\ requests[t] # NoRequest
     /\ requests' = [requests EXCEPT ![t] = NoRequest]
     /\ IF StillValid(t) /\ Admits(records[j], ClaimEvent)
        THEN /\ credentials' = [credentials EXCEPT ![a.device].sign_count = a.count]
             /\ ceremonies' = [ceremonies EXCEPT ![a.ceremony] = Consumed(a.ceremony, a.device)]
             /\ approvals' = approvals \cup
                  {[ceremony |-> a.ceremony, job |-> j, device |-> a.device,
                    verified_at |-> clock, sign_count |-> a.count]}
             /\ Transition(j, ClaimEvent)
        ELSE UNCHANGED <<records, ceremonies, credentials, approvals>>
     /\ UNCHANGED <<bootstraps, signed, counters, clock, faults>>

ApprovalStep ==
  \/ \E c \in Ceremonies : \/ \E j \in Jobs : BeginApproval(j, c)
                           \/ \E d \in Devices : Sign(d, c)
  \/ \E t \in Requests : \/ \E a \in signed : ReadAndVerify(t, a)
                         \/ ClaimWithApproval(t)

-------------------------------------------------------------------------------
(* The environment *)

\* The process dies: requests in progress are gone, the store stays.
Crash ==
  /\ faults < MaxFaults /\ faults' = faults + 1
  /\ requests' = [t \in Requests |-> NoRequest]
  /\ UNCHANGED <<store, signed, counters, clock>>

ClockBack ==
  /\ faults < MaxFaults /\ faults' = faults + 1
  /\ clock > 0 /\ clock' = clock - 1
  /\ UNCHANGED <<store, requests, signed, counters>>

Tick ==
  /\ clock < MaxClock /\ clock' = clock + 1
  /\ UNCHANGED <<store, requests, signed, counters, faults>>

Next == EnrollmentStep \/ JobStep \/ ApprovalStep \/ Crash \/ ClockBack \/ Tick

Spec == Init /\ [][Next]_vars

-------------------------------------------------------------------------------
(* Properties *)

\* An approval answers for exactly what the owner signed: the ceremony was
\* issued for this job, is consumed by this credential, which is enrolled for
\* approvals, and was verified before the ceremony ran out.  No assertion for
\* another job, ceremony or credential can stand in (ROOT_ACTION_AUTH.md,
\* exact-action binding).
ApprovalsAreSigned ==
  \A a \in approvals :
    /\ [device |-> a.device, ceremony |-> a.ceremony, count |-> a.sign_count] \in signed
    /\ LET c == ceremonies[a.ceremony]
       IN /\ c.purpose = "approval" /\ c.job = a.job
          /\ c.state = "consumed" /\ c.device = a.device
          /\ a.verified_at < c.expires_at
    /\ Role(credentials[a.device].label) = "approval"

\* Approvals and claims come in pairs, across all interleavings of requests,
\* crashes and refused claims: a job that waits for approval was claimed
\* exactly when it has one approval, and no job has two.
OneApprovalPerClaim ==
  /\ \A a, b \in approvals : a.job = b.job => a = b
  /\ \A a \in approvals : records[a.job].execution_count = 1
  /\ \A j \in Jobs : Policy[j] = "approval" /\ records[j].execution_count = 1
       => \E a \in approvals : a.job = j

\* The stored counter of a credential is that of its latest approval, and no
\* two approvals of a counting authenticator carry the same count.
CountersAdvance ==
  /\ \A a \in approvals : a.sign_count <= credentials[a.device].sign_count
  /\ \A a, b \in approvals :
       a.device = b.device /\ a.sign_count = b.sign_count /\ a.device \in Counting => a = b
  /\ \A d \in Devices : credentials[d].sign_count <= counters[d]

OpenRegistrations ==
  {c \in Used : ceremonies[c].purpose = "registration" /\ ceremonies[c].state = "issued"
                /\ ceremonies[c].issued_at >= bootstraps[ceremonies[c].bootstrap].issued_at}

\* Enrollment happens under one token: once a registration has begun, every
\* other bootstrap is dead and has no ceremony of its own.  And that token never
\* has two registrations that were begun and not finished, also long after the
\* first ran out: the lifetimes of a ceremony and of its token rule it out.
\* (Only a clock set back behind the issue of the token itself makes room for a
\* second one.)
OneEnrollment ==
  /\ \A c \in Used : ceremonies[c].purpose = "registration" =>
       /\ \A b \in Bootstraps : b # ceremonies[c].bootstrap
                                => bootstraps[b].state \in {"none", "expired"}
       /\ bootstraps[ceremonies[c].bootstrap].remaining =
            3 - Cardinality({e \in Used : ceremonies[e].purpose = "registration"
                                          /\ ceremonies[e].state = "consumed"})
  /\ \A c, e \in OpenRegistrations : c = e

Binding(c) == <<c.purpose, c.job, c.bootstrap, c.label, c.issued_at, c.expires_at>>

\* A ceremony is used once: what is consumed or expired never changes again,
\* and a ceremony never changes its purpose, job, token, label or lifetime.
CeremonySpentForGood ==
  [][\A c \in Used :
       /\ ceremonies[c].state # "issued" => ceremonies'[c] = ceremonies[c]
       /\ Binding(ceremonies'[c]) = Binding(ceremonies[c])]_vars
==============================================================================
