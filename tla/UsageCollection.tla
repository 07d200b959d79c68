---------------------------- MODULE UsageCollection ----------------------------
(***************************************************************************)
(* `opsctl usage collect`: a product container appends one receipt per     *)
(* model call to its own ledger; a collector, started by a timer or by     *)
(* hand, moves the receipts of a slot, page by page behind a cursor, into  *)
(* the central database.                                                   *)
(***************************************************************************)
EXTENDS Integers, Sequences, FiniteSets

CONSTANTS
    Holder,         \* Holder[d]: who held the slot on day d
    Nulls,          \* Nulls[c]: what the provider did not report of call c
    Succeeded,      \* the calls that succeeded
    Surfaces,       \* Surfaces[k]: the status of each surface of container k
    Collectors, NoProc,
    PageLimit,      \* --limit
    MaxPages,       \* --max-pages
    MaxCalls, MaxContainers, MaxFaults

Days == DOMAIN Holder
Calls == 1 .. MaxCalls      \* call ids, in the order in which they are first used

\* The fields of a receipt that may be null.  Which ones apply depends on how
\* the call ended.
UsageFields == {"outputCandidates", "rawProviderUsage"}
Applicable(c) ==
    UsageFields \cup {"sessionId", "trigger"}
      \cup (IF c \in Succeeded THEN {"finishReason"} ELSE {"errorCategory"})
NullOf(c) == Nulls[c] \cap Applicable(c)
Fields == UNION {Applicable(c) : c \in Calls}

ASSUME CollectionAssumption ==
    /\ Nulls \in [Calls -> SUBSET Fields] /\ Succeeded \subseteq Calls
    /\ DOMAIN Surfaces = 1 .. MaxContainers
    /\ NoProc \notin Collectors /\ 1 \in Days
    /\ PageLimit \in Nat \ {0} /\ MaxPages \in Nat \ {0}
    /\ {MaxCalls, MaxFaults} \subseteq Nat /\ MaxContainers \in Nat \ {0}

VARIABLES
    product,    \* the product's ledger; a position is a ledgerSeq
    container,  \* the gateway container, counted; each has its own manifest
    today,
    rows,       \* provider_usage_call
    manifests,  \* provider_usage_coverage_manifest
    cursor,     \* usage_collection_cursor: last_ledger_seq and last_status
    conflicts,  \* usage_collection_conflict
    collectors, lock, faults

vars == <<product, container, today, rows, manifests, cursor, conflicts,
          collectors, lock, faults>>

world == <<product, container, today>>
stored == <<rows, manifests, conflicts>>

Receipt == [call : Calls, day : Days, cover : 1 .. MaxContainers]
Positions == 0 .. MaxCalls

\* What a receipt says of its own completeness, and a coverage manifest of the
\* product's.
Coverage == {"complete", "partial", "unavailable"}
Claim == [missing : SUBSET Fields, usage : Coverage, receipt : Coverage]
Manifest == [container : 1 .. MaxContainers, status : {"complete", "partial"}]

Row == [receipt : Receipt, seq : 1 .. MaxCalls, container : 1 .. MaxContainers,
        user : {Holder[d] : d \in Days}, claim : Claim,
        producer : {"complete", "partial"}]

\* A page of the product's export, with the manifest of the container that
\* printed it.
NoPage == [after |-> 0, items |-> {}, next |-> 0, high |-> 0, more |-> FALSE,
           claims |-> <<>>, covers |-> {}, own |-> {}]
Resting == [at |-> "idle", after |-> 0, container |-> 0, page |-> NoPage,
            pages |-> 0]

Init ==
    /\ product = <<>> /\ container = 1 /\ today = 1
    /\ rows = {} /\ manifests = {} /\ conflicts = {}
    /\ cursor = [seq |-> 0, status |-> "never"]
    /\ collectors = [p \in Collectors |-> Resting] /\ lock = NoProc
    /\ faults = 0

Fails == faults < MaxFaults /\ faults' = faults + 1
Works == UNCHANGED faults

--------------------------------------------------------------------------------
(* The product and the host *)

\* The product makes a call, under a new id; an id that comes back is a fault.
Call ==
    /\ Len(product) < MaxCalls
    /\ \E c \in Calls :
         /\ \/ c = 1 + Cardinality({product[i].call : i \in DOMAIN product})
               /\ Works
            \/ (\E i \in DOMAIN product : product[i].call = c) /\ Fails
         /\ product' = Append(product, [call |-> c, day |-> today,
                                        cover |-> container])
    /\ UNCHANGED <<container, today, stored, cursor, collectors, lock>>

\* A rollout replaces the gateway container; its ledger is kept.
Replace ==
    /\ container < MaxContainers /\ container' = container + 1
    /\ UNCHANGED <<product, today, stored, cursor, collectors, lock, faults>>

NextDay ==
    /\ today + 1 \in Days /\ today' = today + 1
    /\ UNCHANGED <<product, container, stored, cursor, collectors, lock, faults>>

--------------------------------------------------------------------------------
(* collect_target *)

\* Mutant: the lock outlives the connection.
LeavesLocked(p) ==
    collectors' = [collectors EXCEPT ![p] = Resting] /\ UNCHANGED lock

\* GET_LOCK belongs to the connection, and goes with it.
Leaves(p) ==
    /\ collectors' = [collectors EXCEPT ![p] = Resting]
    /\ lock' = IF lock = p THEN NoProc ELSE lock

\* record_collection_failure: the status, never the position.
RecordFailure == cursor' = [cursor EXCEPT !.status = "failed"]

\* acquire_collection_lock; a collector that finds it taken ends as busy.
Acquire(p) ==
    /\ collectors[p].at = "idle" /\ lock = NoProc
    /\ lock' = p /\ collectors' = [collectors EXCEPT ![p].at = "stamp"]
    /\ UNCHANGED <<world, stored, cursor, faults>>

\* _live_stamp: the container that the page will come from.  It fails when the
\* gateway is down or its truth checks are red.
LiveStamp(p) ==
    /\ collectors[p].at = "stamp"
    /\ \/ /\ collectors' = [collectors EXCEPT ![p].at = "cursor",
                                              ![p].container = container]
          /\ Works /\ UNCHANGED <<cursor, lock>>
       \/ Fails /\ RecordFailure /\ Leaves(p)
    /\ UNCHANGED <<world, stored>>

\* read_cursor: a cursor that stands on a conflict is not moved.
ReadCursor(p) ==
    /\ collectors[p].at = "cursor"
    /\ \/ /\ cursor.status # "conflict"
          /\ collectors' = [collectors EXCEPT ![p].at = "export",
                                              ![p].after = cursor.seq]
          /\ UNCHANGED lock
       \/ cursor.status = "conflict" /\ Leaves(p)
    /\ UNCHANGED <<world, stored, cursor, faults>>

\* _coverage_from_missing
CoverageFrom(missing, fields) ==
    IF missing = {} THEN "complete"
    ELSE IF missing = fields THEN "unavailable" ELSE "partial"

\* validate_call_receipt: the receipt names exactly the applicable fields that
\* are null, and its coverages follow from them.
ValidReceipt(c, claim) ==
    /\ claim.missing = NullOf(c)
    /\ claim.usage = CoverageFrom(claim.missing \cap UsageFields, UsageFields)
    /\ claim.receipt = CoverageFrom(claim.missing, Applicable(c))

\* validate_coverage: a manifest lists some surface, and is complete if every
\* surface is implemented.
ValidCoverage(m) ==
    /\ Surfaces[m.container] # {}
    /\ m.status = IF Surfaces[m.container] \subseteq {"implemented"}
                    THEN "complete" ELSE "partial"

\* What a product says that saw the fields null missing, and one that counts
\* the surfaces gaps as implemented.
ClaimOf(c, null) ==
    [missing |-> null,
     usage |-> CoverageFrom(null \cap UsageFields, UsageFields),
     receipt |-> CoverageFrom(null, Applicable(c))]
ManifestOf(k, gaps) ==
    [container |-> k,
     status |-> IF Surfaces[k] \subseteq {"implemented"} \cup gaps
                  THEN "complete" ELSE "partial"]

\* Where a page ends: at its last receipt, or where it begins if it has none.
EndOf(items, after) ==
    CHOOSE n \in items \cup {after} : \A i \in items : i <= n

\* What the coverage and export commands of a sound product print.
ExportOf(after) ==
    LET high == Len(product)
        items == {i \in 1 .. high : after < i /\ i <= after + PageLimit}
        next == EndOf(items, after)
    IN [after |-> after, items |-> items, next |-> next, high |-> high,
        more |-> next < high,
        claims |-> [i \in items |-> ClaimOf(product[i].call, NullOf(product[i].call))],
        covers |-> {ManifestOf(product[i].cover, {}) : i \in items},
        own |-> {ManifestOf(container, {})}]

\* What a faulty one prints: a cursor or a watermark that does not fit, receipts
\* or manifests that contradict themselves, manifests that are missing.
FaultyExports(after) ==
    LET page == ExportOf(after) IN
    ({[page EXCEPT !.next = w[1], !.high = w[2]] : w \in Positions \X Positions}
     \cup {[page EXCEPT !.claims = [i \in page.items |->
                ClaimOf(product[i].call, NullOf(product[i].call) \ {f})]] :
              f \in Fields}
     \cup {[page EXCEPT !.covers = ms] : ms \in {{}, page.own}}
     \cup {[page EXCEPT !.own = {ManifestOf(container, {"gap"})}]}) \ {page}

\* validate_export: the page starts at the cursor, ends where its last receipt
\* does, says truthfully whether there is more, makes progress if there is, and
\* carries exactly the manifests its receipts name; every receipt and every
\* manifest is valid.  Positions must ascend, and need not be consecutive.
ValidPage(page, after) ==
    /\ page.after = after
    /\ page.high >= after
    /\ \A i \in page.items : i > after /\ i <= page.high
    /\ page.next = EndOf(page.items, after)
    /\ page.more = (page.next < page.high)
    /\ page.more => page.items # {}
    /\ \A i \in page.items : ValidReceipt(product[i].call, page.claims[i])
    /\ \A m \in page.covers \cup page.own : ValidCoverage(m)
    /\ {m.container : m \in page.covers} = {product[i].cover : i \in page.items}

\* coverage and export run in the container of the stamp; a container that is
\* gone, a command that fails or a page that does not validate ends the run.
Receives(p, page) ==
    /\ ValidPage(page, collectors[p].after)
    /\ collectors' = [collectors EXCEPT ![p].at = "recheck", ![p].page = page]
    /\ UNCHANGED <<cursor, lock>>

Export(p) ==
    LET after == collectors[p].after IN
    /\ collectors[p].at = "export"
    /\ \/ /\ collectors[p].container = container /\ Works
          /\ Receives(p, ExportOf(after))
       \/ /\ collectors[p].container = container /\ Fails
          /\ \E page \in FaultyExports(after) :
               Receives(p, page) \/ (~ValidPage(page, after)
                                     /\ RecordFailure /\ Leaves(p))
       \/ /\ collectors[p].container # container /\ Works
          /\ RecordFailure /\ Leaves(p)
    /\ UNCHANGED <<world, stored>>

\* The binding, the container and the images must still be those of the stamp.
Recheck(p) ==
    /\ collectors[p].at = "recheck"
    /\ \/ /\ collectors[p].container = container
          /\ collectors' = [collectors EXCEPT ![p].at = "store"]
          /\ UNCHANGED <<cursor, lock>>
       \/ collectors[p].container # container /\ RecordFailure /\ Leaves(p)
    /\ UNCHANGED <<world, stored, faults>>

--------------------------------------------------------------------------------
(* store_export_page *)

\* _insert_receipt: the receipt is there already, at this position; or a row has
\* its call id or its position but is not it.
SameRow(i) == \E r \in rows : r.receipt = product[i] /\ r.seq = i
Conflicting(i) ==
    \E r \in rows : /\ r.receipt.call = product[i].call \/ r.seq = i
                    /\ ~(r.receipt = product[i] /\ r.seq = i)

\* The rows are inserted in order, so that a page may also conflict with itself.
ConflictsOf(items) ==
    {i \in items : \/ Conflicting(i)
                   \/ \E j \in items : j < i /\ product[j].call = product[i].call}

\* Mutant: the interval that holds the moment of the collection.
HolderOfToday(i) == Holder[today]

\* _assignment_for_call: the interval that holds the start of the call.
HolderOf(i) == Holder[product[i].day]

\* The status of the manifest that the receipt was made under.
ProducerOf(page, i) ==
    (CHOOSE m \in page.covers : m.container = product[i].cover).status

RowOf(p, i) == [receipt |-> product[i], seq |-> i,
                container |-> collectors[p].container, user |-> HolderOf(i),
                claim |-> collectors[p].page.claims[i],
                producer |-> ProducerOf(collectors[p].page, i)]

\* _record_conflict: the row, and a status that stops the cursor.
RecordConflict(i) ==
    /\ conflicts' = conflicts \cup {[seq |-> i, call |-> product[i].call]}
    /\ cursor' = [cursor EXCEPT !.status = "conflict"]

\* _store_coverage_manifest: a digest that is stored stays bound to what it was
\* stored with.
Clashes(page) ==
    \E m \in page.covers \cup page.own, s \in manifests :
      m.container = s.container /\ m # s
StoreManifests(page) == manifests' = manifests \cup page.covers \cup page.own

\* Whether collect_target takes another page after this one.
GoesOn(p) ==
    collectors[p].page.more /\ collectors[p].pages + 1 < MaxPages

\* Mutant: the receipts that do not conflict are stored, and the cursor moves on.
StorePageOverConflict(p) ==
    LET page == collectors[p].page
        bad == ConflictsOf(page.items)
        status == IF page.more /\ ~GoesOn(p) THEN "failed" ELSE "ok"
    IN
    /\ rows' = rows \cup {RowOf(p, i) : i \in {j \in page.items \ bad : ~SameRow(j)}}
    /\ StoreManifests(page)
    /\ cursor' = [seq |-> page.next, status |-> status]
    /\ conflicts' = conflicts \cup {[seq |-> i, call |-> product[i].call] : i \in bad}

\* One transaction: the cursor must still be where the page starts; the
\* manifests; the receipts in order, up to the first conflict; then the cursor
\* or the conflict.  A run that stops at its page limit with more to come then
\* records a failure.
StorePage(p) ==
    LET page == collectors[p].page
        bad == ConflictsOf(page.items)
        good == {i \in page.items : \A j \in bad : i < j}
        status == IF page.more /\ ~GoesOn(p) THEN "failed" ELSE "ok"
    IN
    /\ rows' = rows \cup {RowOf(p, i) : i \in {j \in good : ~SameRow(j)}}
    /\ StoreManifests(page)
    /\ \/ bad = {} /\ cursor' = [seq |-> page.next, status |-> status]
                   /\ UNCHANGED conflicts
       \/ \E i \in bad : (\A j \in bad : i <= j) /\ RecordConflict(i)

\* The next page, or the end of the run.
AfterStore(p) ==
    IF ConflictsOf(collectors[p].page.items) = {} /\ GoesOn(p)
      THEN /\ collectors' = [collectors EXCEPT
                ![p] = [Resting EXCEPT !.at = "stamp",
                                       !.pages = collectors[p].pages + 1]]
           /\ UNCHANGED lock
      ELSE Leaves(p)

Store(p) ==
    /\ collectors[p].at = "store"
    /\ \/ /\ collectors[p].page.after = cursor.seq /\ Works
          /\ ~Clashes(collectors[p].page)
          /\ StorePage(p) /\ AfterStore(p)
       \/ (IF Clashes(collectors[p].page) THEN Works ELSE Fails)
          /\ RecordFailure /\ Leaves(p) /\ UNCHANGED stored
    /\ UNCHANGED world

\* The collector dies and its connection with it.
KillCollector(p) ==
    /\ collectors[p].at # "idle" /\ Fails /\ Leaves(p)
    /\ UNCHANGED <<world, stored, cursor>>

CollectStep(p) ==
    \/ Acquire(p) \/ LiveStamp(p) \/ ReadCursor(p) \/ Export(p) \/ Recheck(p)
    \/ Store(p)

--------------------------------------------------------------------------------
Next ==
    \/ Call \/ Replace \/ NextDay
    \/ \E p \in Collectors : CollectStep(p) \/ KillCollector(p)

\* The timer starts a collector again after every run, and a collector that
\* waits for nobody goes on.
Spec == /\ Init /\ [][Next]_vars
        /\ WF_vars(\E p \in Collectors : CollectStep(p))

--------------------------------------------------------------------------------
(* Properties *)

\* The state is well formed.
TypeOK ==
    /\ product \in Seq(Receipt) /\ Len(product) <= MaxCalls
    /\ container \in 1 .. MaxContainers /\ today \in Days
    /\ rows \subseteq Row /\ manifests \subseteq Manifest
    /\ cursor \in [seq : Positions,
                   status : {"never", "ok", "failed", "conflict"}]
    /\ conflicts \subseteq [seq : 1 .. MaxCalls, call : Calls]
    /\ \A p \in Collectors : collectors[p].page.next \in Positions
    /\ lock \in Collectors \cup {NoProc} /\ faults \in 0 .. MaxFaults

\* The cursor never passes a receipt that is not stored: whatever pages were
\* retried, raced, cut short or wrongly exported, every position up to
\* last_ledger_seq holds the product's receipt, with the manifest that it was
\* made under, and no call and no position has two rows.  Nor does it pass a
\* conflict, also after a later run failed or found another page: it stays
\* before the position where a call id came back with other content.
NothingSkipped ==
    /\ \A i \in 1 .. cursor.seq :
         \E r \in rows : r.receipt = product[i] /\ r.seq = i
    /\ \A r, s \in rows : r.receipt.call = s.receipt.call \/ r.seq = s.seq
         => r = s
    /\ \A r \in rows : \E m \in manifests :
         m.container = r.receipt.cover /\ m.status = r.producer
    /\ \A c \in conflicts : cursor.seq < c.seq

\* A row says no more than was reported, however late, by whichever page and from
\* whichever container it was collected.  The call is charged to whoever held the
\* slot when it started.  It is complete only if nothing was left out, by the
\* provider or by the product's own surfaces, and unavailable only if everything
\* was.
RowsTruthful ==
    /\ TypeOK
    /\ \A r \in rows :
         LET null == NullOf(r.receipt.call) IN
         /\ r.user = Holder[r.receipt.day]
         /\ r.claim.usage = "complete" <=> UsageFields \cap null = {}
         /\ r.claim.usage = "unavailable" <=> UsageFields \subseteq null
         /\ r.claim.receipt = "complete" <=> null = {}
         /\ r.producer = "complete" <=> Surfaces[r.receipt.cover] = {"implemented"}

\* The cursor never moves back, not by a raced page and not by a failure that
\* is recorded.
CursorMonotone == [][cursor'.seq >= cursor.seq]_vars

\* Every receipt is stored in the end, page limits, replaced containers, failed
\* exports and killed collectors notwithstanding, unless a conflict stops the
\* collection.
EventuallyCollected ==
    \A n \in 1 .. MaxCalls :
      (Len(product) >= n) ~> (cursor.seq >= n \/ conflicts # {})
================================================================================
