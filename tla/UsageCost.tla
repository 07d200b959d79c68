------------------------------- MODULE UsageCost -------------------------------
(***************************************************************************)
(* The valuation of the collected calls.  `opsctl usage fx-refresh` keeps  *)
(* a ledger of daily reference rates, built from documents that cover a    *)
(* rolling window of days; `usage cost-estimate` values every stored call  *)
(* with the price catalog and the rate of its day.  Both run from timers   *)
(* and by hand.                                                            *)
(***************************************************************************)
EXTENDS Integers, FiniteSets, FiniteSetsExt

CONSTANTS
    Calls,          \* the calls that the collection will store
    RateDays,       \* the days on which a reference rate is published
    Projectors, NoProc,
    Window,         \* how many days one rate document covers
    MaxCarry,       \* maxCarryDays
    LastDay, MaxFaults

Days == 1 .. LastDay

ASSUME CostAssumption ==
    /\ RateDays \subseteq Days /\ NoProc \notin Projectors
    /\ {Window, MaxCarry, MaxFaults} \subseteq Nat /\ LastDay \in Nat \ {0}

VARIABLES
    today,
    rows,       \* the stored calls: the day each started, and its quantities
    rates,      \* the published ledger: each day's rate and its document
    evidence,   \* the raw documents that are kept
    refresh,    \* the refresh in flight
    catalog,    \* the price catalog: entries for the model, by their days
    estimates,  \* provider_usage_cost_estimate
    revisions,  \* the artifacts that were used, in their revision tables
    projectors, costLock, faults

vars == <<today, rows, rates, evidence, refresh, catalog, estimates, revisions,
          projectors, costLock, faults>>

Row == [call : Calls, day : Days, metered : {"full", "part", "bare"}]
Rate == [day : Days, document : SUBSET Days]
Value == [status : {"complete", "partial", "unavailable"}, rate : 0 .. LastDay]
\* An entry applies from its first day to the day before `until`; one without
\* effectiveUntil outlasts the days of the model.
Entry == {e \in [from : Days, until : 2 .. LastDay + 1] : e.from < e.until}
Artifacts == [catalog : SUBSET Entry, rates : SUBSET Rate]
Estimate == [row : Row, using : Artifacts, value : Value]

NoRefresh == [at |-> "idle", document |-> {}, rates |-> {}]
Nothing == [catalog |-> {}, rates |-> {}]
Unloaded == [at |-> "idle", using |-> Nothing, rows |-> {}, seen |-> {}]

Init ==
    /\ today = 1 /\ rows = {}
    /\ rates = {} /\ evidence = {} /\ refresh = NoRefresh
    /\ catalog = {} /\ estimates = {}
    /\ revisions = [catalogs |-> {}, ledgers |-> {}]
    /\ projectors = [p \in Projectors |-> Unloaded] /\ costLock = NoProc
    /\ faults = 0

Fails == faults < MaxFaults /\ faults' = faults + 1
Costing == <<estimates, revisions, projectors, costLock>>
Fx == <<rates, evidence, refresh>>

--------------------------------------------------------------------------------
NextDay ==
    /\ today < LastDay /\ today' = today + 1
    /\ UNCHANGED <<rows, Fx, catalog, Costing, faults>>

\* The collection stores a call of today or, late, of an earlier day.
StoreCall(c) ==
    /\ \A r \in rows : r.call # c
    /\ \E r \in Row : r.call = c /\ r.day <= today /\ rows' = rows \cup {r}
    /\ UNCHANGED <<today, Fx, catalog, Costing, faults>>

\* The price catalog, kept by hand, gets the entry for the model.
PriceModel ==
    /\ catalog = {}
    /\ \E e \in Entry : catalog' = {e}
    /\ UNCHANGED <<today, rows, Fx, Costing, faults>>

--------------------------------------------------------------------------------
(* fx-refresh *)

\* What the download returns: the rates of a window that ends today or, before
\* today's rate is out, yesterday.
Documents ==
    {{d \in RateDays : last - Window < d /\ d <= last} :
       last \in {today, today - 1}} \ {{}}

\* build_ecb_reference_fx_ledger: one rate per day of the document.
LedgerOf(document) == {[day |-> d, document |-> document] : d \in document}

\* refresh_ecb_reference_fx: the new document replaces the days it covers, and
\* the history stays.
Merged(document) ==
    {r \in rates : r.day \notin document} \cup LedgerOf(document)

Fetch ==
    /\ refresh.at = "idle"
    /\ \E document \in Documents :
         /\ document \notin evidence \/ Merged(document) # rates
         /\ refresh' = [at |-> "evidence", document |-> document,
                        rates |-> Merged(document)]
    /\ UNCHANGED <<today, rows, rates, evidence, catalog, Costing, faults>>

\* The raw document is kept first ...
KeepEvidence ==
    /\ refresh.at = "evidence"
    /\ evidence' = evidence \cup {refresh.document}
    /\ refresh' = [refresh EXCEPT !.at = "publish"]
    /\ UNCHANGED <<today, rows, rates, catalog, Costing, faults>>

\* ... then the ledger is replaced atomically.
PublishRates ==
    /\ refresh.at = "publish"
    /\ rates' = refresh.rates /\ refresh' = NoRefresh
    /\ UNCHANGED <<today, rows, evidence, catalog, Costing, faults>>

KillRefresh ==
    /\ refresh.at # "idle" /\ Fails /\ refresh' = NoRefresh
    /\ UNCHANGED <<today, rows, rates, evidence, catalog, Costing>>

RefreshStep == Fetch \/ KeepEvidence \/ PublishRates

--------------------------------------------------------------------------------
(* cost-estimate *)

\* The rate that project_call_cost takes: the latest on or before the day of the
\* call, if it is at most MaxCarry days old; 0 if there is none.
RateFor(day, ledger) ==
    LET before == {r.day : r \in {x \in ledger : x.day <= day}} IN
    IF before = {} \/ day - Max(before \cup {0}) > MaxCarry THEN 0
    ELSE Max(before)

Unavailable == [status |-> "unavailable", rate |-> 0]

\* The days on which an entry applies.
Covers(entry, day) == entry.from <= day /\ day < entry.until

\* project_call_cost: not exactly one entry for the day, no rate or no
\* quantities: unavailable.
Valuation(row, using) ==
    LET entries == {e \in using.catalog : Covers(e, row.day)}
        rate == RateFor(row.day, using.rates)
    IN
    IF Cardinality(entries) # 1 \/ rate = 0 \/ row.metered = "bare"
      THEN Unavailable
      ELSE [status |-> IF row.metered = "full" THEN "complete"
                       ELSE "partial", rate |-> rate]

\* The identity of an estimate is the call and the digests of both artifacts.
EstimateOf(row, using) ==
    [row |-> row, using |-> using, value |-> Valuation(row, using)]

Settled(e) == e.value.status # "unavailable"

\* validate_pricing_catalog: one entry for a model; validate_fx_ledger: one rate
\* for a day.
ValidCatalog(entries) == Cardinality(entries) <= 1
ValidRates(ledger) == \A r, s \in ledger : r.day = s.day => r = s

\* cmd_usage_cost_estimate reads both artifacts before it connects.
LoadArtifacts(p) ==
    /\ projectors[p].at = "idle"
    /\ rates # {} /\ ValidRates(rates) /\ ValidCatalog(catalog)
    /\ projectors' = [projectors EXCEPT ![p] =
         [Unloaded EXCEPT !.at = "loaded",
                          !.using = [catalog |-> catalog, rates |-> rates]]]
    /\ UNCHANGED <<today, rows, Fx, catalog, estimates, revisions, costLock,
                   faults>>

\* Mutant: no lock.
BeginProjectionUnlocked(p) ==
    /\ projectors[p].at = "loaded"
    /\ projectors' = [projectors EXCEPT ![p].at = "project",
                        ![p].rows = rows, ![p].seen = estimates]
    /\ UNCHANGED <<today, rows, Fx, catalog, estimates, revisions, costLock,
                   faults>>

\* _acquire_cost_projection_lock: a taken lock ends the projection.  Then the
\* transaction reads the calls and what was estimated so far.
BeginProjection(p) ==
    /\ projectors[p].at = "loaded"
    /\ \/ /\ costLock = NoProc /\ costLock' = p
          /\ projectors' = [projectors EXCEPT ![p].at = "project",
                              ![p].rows = rows, ![p].seen = estimates]
       \/ /\ costLock # NoProc /\ UNCHANGED costLock
          /\ projectors' = [projectors EXCEPT ![p] = Unloaded]
    /\ UNCHANGED <<today, rows, Fx, catalog, estimates, revisions, faults>>

\* Mutant: any estimate, an unavailable one too, settles a call.
NewEstimatesOnce(q) ==
    {e \in {EstimateOf(r, q.using) : r \in q.rows} :
       ~\E s \in q.seen : s.row = e.row}

\* project_costs: a call that has this very estimate, or a settled one, is left
\* alone; every other gets a row.
NewEstimates(q) ==
    {e \in {EstimateOf(r, q.using) : r \in q.rows} :
       /\ e \notin q.seen
       /\ ~\E s \in q.seen : s.row = e.row /\ Settled(s)}

\* _store_revision, of both artifacts: their tables only grow.
StoreRevisions(using) ==
    revisions' = [catalogs |-> revisions.catalogs \cup {using.catalog},
                  ledgers |-> revisions.ledgers \cup {using.rates}]

CommitProjection(p) ==
    /\ projectors[p].at = "project"
    /\ StoreRevisions(projectors[p].using)
    /\ estimates' = estimates \cup NewEstimates(projectors[p])
    /\ projectors' = [projectors EXCEPT ![p] = Unloaded]
    /\ costLock' = NoProc
    /\ UNCHANGED <<today, rows, Fx, catalog, faults>>

\* A projection dies, and its connection and transaction with it.
KillProjector(p) ==
    /\ projectors[p].at # "idle" /\ Fails
    /\ projectors' = [projectors EXCEPT ![p] = Unloaded]
    /\ costLock' = IF costLock = p THEN NoProc ELSE costLock
    /\ UNCHANGED <<today, rows, Fx, catalog, estimates, revisions>>

ProjectStep(p) == LoadArtifacts(p) \/ BeginProjection(p) \/ CommitProjection(p)

--------------------------------------------------------------------------------
Next ==
    \/ NextDay \/ PriceModel \/ \E c \in Calls : StoreCall(c)
    \/ RefreshStep \/ KillRefresh
    \/ \E p \in Projectors : ProjectStep(p) \/ KillProjector(p)

\* The timers start a refresh and a projection again after every run.
Spec ==
    /\ Init /\ [][Next]_vars
    /\ WF_vars(NextDay) /\ WF_vars(RefreshStep)
    /\ \A p \in Projectors : WF_vars(ProjectStep(p))

--------------------------------------------------------------------------------
(* Properties *)

\* The state is well formed.
TypeOK ==
    /\ today \in Days /\ rows \subseteq Row
    /\ rates \subseteq Rate /\ evidence \subseteq SUBSET Days
    /\ refresh.at \in {"idle", "evidence", "publish"}
    /\ catalog \subseteq Entry
    /\ \A e \in estimates : e.row \in Row /\ e.value \in Value
    /\ revisions.catalogs \subseteq SUBSET Entry
    /\ revisions.ledgers \subseteq SUBSET Rate
    /\ costLock \in Projectors \cup {NoProc} /\ faults \in 0 .. MaxFaults

\* A call is valued at most once, also when two projections run with different
\* prices and rates: a complete or partial estimate is final.  Its rate is on or
\* before the day of the call, near enough, and still in the ledger with its raw
\* document on disk: through kills of the refresh, and after the document's
\* window has moved on, an estimate can be reproduced from the prices and rates
\* that it was made with.
ValuationReproducible ==
    /\ TypeOK
    /\ \A e \in estimates : Settled(e) =>
         /\ \A d \in estimates : Settled(d) /\ d.row = e.row => d = e
         /\ e.value.rate <= e.row.day /\ e.row.day - e.value.rate <= MaxCarry
         /\ \E r \in rates : r.day = e.value.rate /\ r.document \in evidence
         /\ Valuation(e.row, e.using) = e.value
         /\ e.using.catalog \in revisions.catalogs
         /\ e.using.rates \in revisions.ledgers

\* A stored call with quantities whose day has a rate near enough is valued in
\* the end: an unavailable estimate is tried again with every new artifact, so
\* long as the rate's document was still offered when the refresh ran.
EventuallyValued ==
    \A r \in {x \in Row : /\ x.metered # "bare"
                         /\ \E d \in RateDays : /\ LastDay - Window < d
                                                /\ x.day - d \in 0 .. MaxCarry} :
      r \in rows /\ (\E e \in catalog : Covers(e, r.day))
        ~> (\E e \in estimates : e.row = r /\ Settled(e))
================================================================================
