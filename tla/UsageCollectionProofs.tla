------------------------- MODULE UsageCollectionProofs -------------------------
(***************************************************************************)
(* The cursor of the usage collection skips nothing, for any number of     *)
(* calls, collectors, pages and faults.                                    *)
(***************************************************************************)
EXTENDS UsageCollection, TLAPS

--------------------------------------------------------------------------------
(* Positions *)

\* The last position of an interval, and the end of an empty page.
LEMMA EndOfInterval ==
  ASSUME NEW a \in Nat, NEW b \in Nat, a <= b
  PROVE  EndOf((a + 1) .. b, a) = b
<1> DEFINE S == ((a + 1) .. b) \cup {a}
<1>1. b \in S /\ \A i \in (a + 1) .. b : i <= b
  OBVIOUS
<1>2. ASSUME NEW n \in S, \A i \in (a + 1) .. b : i <= n
      PROVE  n = b
  <2>1. CASE a = b
    BY <1>2, <2>1
  <2>2. CASE a # b
    <3>1. b \in (a + 1) .. b
      BY <2>2
    <3> QED BY <1>2, <3>1
  <2> QED BY <2>1, <2>2
<1> QED BY <1>1, <1>2 DEF EndOf

\* A ledger with one receipt more.
LEMMA Longer ==
  ASSUME NEW S, NEW s \in Seq(S), NEW e \in S
  PROVE  /\ Append(s, e) \in Seq(S) /\ Len(Append(s, e)) = Len(s) + 1
         /\ \A i \in 1 .. Len(s) : Append(s, e)[i] = s[i]
OBVIOUS

--------------------------------------------------------------------------------
(* The inductive invariant *)

\* The records of the collectors have their five fields.
Shaped ==
  /\ DOMAIN collectors = Collectors
  /\ \A p \in Collectors :
       DOMAIN collectors[p] = {"at", "after", "container", "page", "pages"}

WorldOK ==
  /\ product \in Seq([call : Calls, day : Days, cover : Nat])
  /\ container \in Nat /\ today \in Days
  /\ cursor = [seq |-> cursor.seq, status |-> cursor.status]
  /\ cursor.seq \in 0 .. Len(product)
  /\ Shaped

\* A row holds what the product's ledger has at its position.
RowsOfProduct ==
  \A r \in rows : r.seq \in 1 .. Len(product) /\ r.receipt = product[r.seq]

\* A conflict that was recorded is found again by whoever reads its position.
ConflictsStand ==
  \A c \in conflicts : c.seq \in 1 .. Len(product) /\ Conflicting(c.seq)

\* A page that was accepted holds every position from its start to its end,
\* with the manifests of its receipts.
Consecutive(page) ==
  /\ page.after \in Nat /\ page.next \in page.after .. Len(product)
  /\ page.items = (page.after + 1) .. page.next
  /\ \A i \in page.items : \E m \in page.covers : m.container = product[i].cover

PagesConsecutive ==
  \A p \in Collectors :
    /\ collectors[p].at = "export" => collectors[p].after \in 0 .. Len(product)
    /\ collectors[p].at \in {"recheck", "store"} => Consecutive(collectors[p].page)

CollectInv ==
  /\ WorldOK /\ RowsOfProduct /\ NothingSkipped /\ ConflictsStand
  /\ PagesConsecutive

--------------------------------------------------------------------------------
(* The pages *)

ItemsAfter(after) ==
  {i \in 1 .. Len(product) : after < i /\ i <= after + PageLimit}

\* Whatever else a faulty product gets wrong, it lists the receipts it has.
LEMMA ExportedItems ==
  ASSUME NEW after, NEW page \in {ExportOf(after)} \cup FaultyExports(after)
  PROVE  page.items = ItemsAfter(after)
<1>1. ExportOf(after).items = ItemsAfter(after)
  BY DEF ExportOf, ItemsAfter
<1>2. CASE page \in FaultyExports(after)
  <2> DEFINE e == ExportOf(after)
             A == {[e EXCEPT !.next = w[1], !.high = w[2]] : w \in Positions \X Positions}
             B == {[e EXCEPT !.claims = [i \in e.items |->
                      ClaimOf(product[i].call, NullOf(product[i].call) \ {f})]] :
                    f \in Fields}
             C == {[e EXCEPT !.covers = ms] : ms \in {{}, e.own}}
             D == {[e EXCEPT !.own = {ManifestOf(container, {"gap"})}]}
  <2>1. FaultyExports(after) = (A \cup B \cup C \cup D) \ {e}
    BY Zenon DEF FaultyExports
  <2>2. ASSUME page \in A PROVE page.items = e.items
    <3>1. PICK n, h : page = [e EXCEPT !.next = n, !.high = h]
      BY <2>2, Zenon
    <3> QED BY <3>1 DEF ExportOf
  <2>3. ASSUME page \in B PROVE page.items = e.items
    <3>1. PICK c : page = [e EXCEPT !.claims = c]
      BY <2>3
    <3> QED BY <3>1 DEF ExportOf
  <2>4. ASSUME page \in C PROVE page.items = e.items
    <3>1. PICK c : page = [e EXCEPT !.covers = c]
      BY <2>4
    <3> QED BY <3>1 DEF ExportOf
  <2>5. ASSUME page \in D PROVE page.items = e.items
    BY <2>5, Zenon DEF ExportOf
  <2> HIDE DEF e, A, B, C, D
  <2>6. page.items = e.items
    BY <1>2, <2>1, <2>2, <2>3, <2>4, <2>5
  <2> QED BY <1>1, <2>6 DEF e
<1> QED BY <1>1, <1>2

\* So a page that validates is consecutive.
LEMMA ValidIsConsecutive ==
  ASSUME WorldOK, NEW after \in 0 .. Len(product), NEW page,
         page.items = ItemsAfter(after), ValidPage(page, after)
  PROVE  Consecutive(page)
<1> DEFINE n == Len(product)
           last == IF after + PageLimit <= n THEN after + PageLimit ELSE n
<1>1. n \in Nat /\ PageLimit \in Nat \ {0} /\ after \in Nat
  BY CollectionAssumption DEF WorldOK
<1>2. page.after = after
  BY DEF ValidPage
<1>3. last \in after .. n /\ ItemsAfter(after) = (after + 1) .. last
  BY <1>1 DEF ItemsAfter
<1>4. page.next = last
  <2>1. last \in Nat /\ after <= last
    BY <1>1, <1>3
  <2>2. EndOf((after + 1) .. last, after) = last
    BY <1>1, <2>1, EndOfInterval, SMTT(30)
  <2> QED BY <1>3, <2>2 DEF ValidPage
<1>5. \A i \in page.items : \E m \in page.covers : m.container = product[i].cover
  BY DEF ValidPage
<1> QED BY <1>1, <1>2, <1>3, <1>4, <1>5 DEF Consecutive

--------------------------------------------------------------------------------
(* The steps *)

LEMMA Start == Init => CollectInv
<1> SUFFICES ASSUME Init PROVE CollectInv
  OBVIOUS
<1>1. WorldOK
  <2>1. Shaped
    BY DEF Init, Shaped, Resting
  <2>2. product \in Seq([call : Calls, day : Days, cover : Nat]) /\ Len(product) = 0
    BY DEF Init
  <2> QED BY <2>1, <2>2, CollectionAssumption DEF Init, WorldOK
<1>2. RowsOfProduct /\ NothingSkipped /\ ConflictsStand
  BY DEF Init, RowsOfProduct, NothingSkipped, ConflictsStand
<1>3. PagesConsecutive
  BY DEF Init, PagesConsecutive, Resting
<1> QED BY <1>1, <1>2, <1>3 DEF CollectInv

\* The product's ledger only grows.
LEMMA CallKeeps ==
  ASSUME CollectInv, Call
  PROVE  CollectInv'
<1> DEFINE Entry == [call : Calls, day : Days, cover : Nat]
           n == Len(product)
<1>1. PICK e \in Entry : product' = Append(product, e)
  BY DEF Call, CollectInv, WorldOK
<1>2. /\ product \in Seq(Entry) /\ n \in Nat
      /\ product' \in Seq(Entry) /\ Len(product') = n + 1
      /\ \A i \in 1 .. n : product'[i] = product[i]
  BY <1>1, Longer DEF CollectInv, WorldOK
<1>3. UNCHANGED <<container, today, rows, manifests, conflicts, cursor, collectors>>
  BY DEF Call, stored
<1>4. WorldOK'
  BY <1>2, <1>3 DEF CollectInv, WorldOK, Shaped
<1>5. RowsOfProduct'
  BY <1>2, <1>3, SMTT(30) DEF CollectInv, RowsOfProduct
<1>6. NothingSkipped'
  <2>1. cursor.seq \in 0 .. n
    BY DEF CollectInv, WorldOK
  <2>2. \A i \in 1 .. cursor.seq : i \in 1 .. n /\ product'[i] = product[i]
    BY <1>2, <2>1, SMTT(30)
  <2> QED BY <1>3, <2>2 DEF CollectInv, NothingSkipped
<1>7. ConflictsStand'
  <2> SUFFICES ASSUME NEW c \in conflicts
               PROVE  c.seq \in 1 .. (n + 1) /\ Conflicting(c.seq)'
    BY <1>2, <1>3 DEF ConflictsStand
  <2>1. c.seq \in 1 .. n /\ Conflicting(c.seq)
    BY DEF CollectInv, ConflictsStand
  <2>2. product'[c.seq] = product[c.seq]
    BY <1>2, <2>1, SMTT(30)
  <2> QED BY <1>2, <1>3, <2>1, <2>2 DEF Conflicting
<1>8. PagesConsecutive'
  <2>1. ASSUME NEW p \in Collectors, collectors[p].at = "export"
        PROVE  collectors[p].after \in 0 .. (n + 1)
    BY <1>2, <2>1 DEF CollectInv, PagesConsecutive
  <2>2. ASSUME NEW p \in Collectors, collectors[p].at \in {"recheck", "store"}
        PROVE  Consecutive(collectors[p].page)'
    <3>1. Consecutive(collectors[p].page)
      BY <2>2 DEF CollectInv, PagesConsecutive
    <3> DEFINE a == collectors[p].page.after
               b == collectors[p].page.next
    <3>2. a \in Nat /\ b \in a .. n /\ collectors[p].page.items = (a + 1) .. b
      BY <3>1 DEF Consecutive
    <3> HIDE DEF a, b, n
    <3>3. \A i \in (a + 1) .. b : product'[i] = product[i]
      BY <1>2, <3>2
    <3>4. b \in a .. (n + 1)
      BY <1>2, <3>2
    <3> QED BY <1>2, <1>3, <3>1, <3>2, <3>3, <3>4, Zenon DEF Consecutive, a, b, n
  <2> QED BY <1>2, <1>3, <2>1, <2>2 DEF PagesConsecutive
<1> QED BY <1>4, <1>5, <1>6, <1>7, <1>8 DEF CollectInv

\* A step that stores nothing and moves no cursor keeps what is stored in
\* order; what remains to be shown is the page it leaves with a collector.
LEMMA StoredKept ==
  ASSUME CollectInv, UNCHANGED <<product, rows, manifests, conflicts>>,
         container' \in Nat, today' \in Days,
         cursor' \in {cursor, [cursor EXCEPT !.status = "failed"]},
         Shaped', PagesConsecutive'
  PROVE  CollectInv'
<1>1. cursor' = [seq |-> cursor'.seq, status |-> cursor'.status] /\ cursor'.seq = cursor.seq
  BY DEF CollectInv, WorldOK
<1>2. WorldOK'
  BY <1>1 DEF CollectInv, WorldOK
<1>3. RowsOfProduct' /\ ConflictsStand'
  BY DEF CollectInv, RowsOfProduct, ConflictsStand, Conflicting
<1>4. NothingSkipped'
  BY <1>1 DEF CollectInv, NothingSkipped
<1> QED BY <1>2, <1>3, <1>4 DEF CollectInv

\* A collector that ends leaves nothing behind that could be wrong.
LEMMA LeavingKeeps ==
  ASSUME CollectInv, UNCHANGED product, NEW p \in Collectors, Leaves(p)
  PROVE  Shaped' /\ PagesConsecutive'
<1>1. /\ Shaped
      /\ collectors' = [collectors EXCEPT ![p] = Resting]
  BY DEF CollectInv, WorldOK, Leaves
<1>2. \A q \in Collectors : collectors'[q] = IF q = p THEN Resting ELSE collectors[q]
  BY <1>1 DEF Shaped
<1>3. Shaped'
  BY <1>1, <1>2 DEF Shaped, Resting
<1>4. PagesConsecutive'
  <2>1. Resting.at = "idle"
    BY DEF Resting
  <2> QED BY <1>2, <2>1 DEF CollectInv, PagesConsecutive, Consecutive
<1> QED BY <1>3, <1>4

\* The collector's own bookkeeping, up to the page it receives.
LEMMA CollectorKeeps ==
  ASSUME CollectInv, NEW p \in Collectors,
         \/ Acquire(p) \/ LiveStamp(p) \/ ReadCursor(p) \/ Export(p) \/ Recheck(p)
         \/ KillCollector(p)
  PROVE  CollectInv'
<1>1. /\ Shaped /\ PagesConsecutive
      /\ container \in Nat /\ today \in Days
      /\ UNCHANGED <<product, container, today, rows, manifests, conflicts>>
  BY DEF CollectInv, WorldOK, Acquire, LiveStamp, ReadCursor, Export, Recheck, KillCollector,
         world, stored
<1>2. cursor' \in {cursor, [cursor EXCEPT !.status = "failed"]}
  BY DEF Acquire, LiveStamp, ReadCursor, Export, Recheck, KillCollector, Receives, RecordFailure
<1>3. ASSUME Shaped', \A r \in Collectors \ {p} : collectors'[r] = collectors[r],
             collectors'[p].at = "export" => collectors'[p].after \in 0 .. Len(product),
             collectors'[p].at \in {"recheck", "store"} => Consecutive(collectors'[p].page)
      PROVE  CollectInv'
  <2>1. PagesConsecutive'
    BY <1>1, <1>3 DEF PagesConsecutive, Consecutive
  <2> QED BY <1>1, <1>2, <1>3, <2>1, StoredKept
<1>4. ASSUME Leaves(p) PROVE CollectInv'
  BY <1>1, <1>2, <1>4, LeavingKeeps, StoredKept
<1>5. CASE Acquire(p)
  <2>1. collectors' = [collectors EXCEPT ![p].at = "stamp"]
    BY <1>5 DEF Acquire
  <2>2. Shaped' /\ collectors'[p].at = "stamp"
    BY <1>1, <2>1 DEF Shaped
  <2>3. \A r \in Collectors \ {p} : collectors'[r] = collectors[r]
    BY <1>1, <2>1 DEF Shaped
  <2> QED BY <1>3, <2>2, <2>3
<1>6. CASE LiveStamp(p)
  <2>1. CASE collectors' = [collectors EXCEPT ![p].at = "cursor", ![p].container = container]
    <3>1. Shaped' /\ collectors'[p].at = "cursor"
      BY <1>1, <2>1 DEF Shaped
    <3>2. \A r \in Collectors \ {p} : collectors'[r] = collectors[r]
      BY <1>1, <2>1 DEF Shaped
    <3> QED BY <1>3, <3>1, <3>2
  <2> QED BY <1>4, <1>6, <2>1 DEF LiveStamp
<1>7. CASE ReadCursor(p)
  <2>1. CASE collectors' = [collectors EXCEPT ![p].at = "export", ![p].after = cursor.seq]
    <3>1. Shaped' /\ collectors'[p].at = "export" /\ collectors'[p].after = cursor.seq
      BY <1>1, <2>1 DEF Shaped
    <3>2. \A r \in Collectors \ {p} : collectors'[r] = collectors[r]
      BY <1>1, <2>1 DEF Shaped
    <3>3. cursor.seq \in 0 .. Len(product)
      BY DEF CollectInv, WorldOK
    <3> QED BY <1>3, <3>1, <3>2, <3>3
  <2> QED BY <1>4, <1>7, <2>1 DEF ReadCursor
<1>8. CASE Export(p)
  <2>1. collectors[p].at = "export" /\ collectors[p].after \in 0 .. Len(product)
    BY <1>1, <1>8 DEF Export, PagesConsecutive
  <2>2. ASSUME NEW page \in {ExportOf(collectors[p].after)} \cup FaultyExports(collectors[p].after),
               Receives(p, page)
        PROVE  CollectInv'
    <3>1. collectors' = [collectors EXCEPT ![p].at = "recheck", ![p].page = page]
      BY <2>2 DEF Receives
    <3>2. Shaped' /\ collectors'[p].at = "recheck" /\ collectors'[p].page = page
      BY <1>1, <3>1 DEF Shaped
    <3>3. \A r \in Collectors \ {p} : collectors'[r] = collectors[r]
      BY <1>1, <3>1 DEF Shaped
    <3>4. Consecutive(page)
      BY <2>1, <2>2, ExportedItems, ValidIsConsecutive, Zenon DEF CollectInv, Receives
    <3> QED BY <1>3, <3>2, <3>3, <3>4
  <2> QED BY <1>4, <1>8, <2>2 DEF Export
<1>9. CASE Recheck(p)
  <2>1. CASE collectors' = [collectors EXCEPT ![p].at = "store"]
    <3>1. Shaped' /\ collectors'[p].at = "store" /\ collectors'[p].page = collectors[p].page
      BY <1>1, <2>1 DEF Shaped
    <3>2. \A r \in Collectors \ {p} : collectors'[r] = collectors[r]
      BY <1>1, <2>1 DEF Shaped
    <3>3. Consecutive(collectors[p].page)
      BY <1>1, <1>9 DEF Recheck, PagesConsecutive
    <3> QED BY <1>3, <3>1, <3>2, <3>3
  <2> QED BY <1>4, <1>9, <2>1 DEF Recheck
<1>10. CASE KillCollector(p)
  BY <1>4, <1>10 DEF KillCollector
<1> QED BY <1>5, <1>6, <1>7, <1>8, <1>9, <1>10

\* The transaction that stores a page: the receipts before the first conflict
\* become rows that agree with the ledger and with one another, and the cursor
\* moves to the end of the page or, before a conflict, not at all.
LEMMA StoreKeeps ==
  ASSUME CollectInv, NEW p \in Collectors,
         collectors[p].at = "store", collectors[p].page.after = cursor.seq,
         StorePage(p), AfterStore(p), UNCHANGED <<product, container, today>>
  PROVE  CollectInv' /\ cursor'.seq >= cursor.seq
<1> DEFINE page  == collectors[p].page
           items == page.items
           bad   == ConflictsOf(items)
           good  == {i \in items : \A j \in bad : i < j}
           new   == {i \in good : ~SameRow(i)}
           n     == Len(product)
<1>1. /\ Shaped /\ n \in Nat /\ cursor.seq \in 0 .. n
      /\ cursor = [seq |-> cursor.seq, status |-> cursor.status]
  BY DEF CollectInv, WorldOK
<1>2. /\ items = (cursor.seq + 1) .. page.next /\ page.next \in cursor.seq .. n
      /\ \A i \in items : \E m \in page.covers : m.container = product[i].cover
  BY DEF CollectInv, PagesConsecutive, Consecutive
<1>3. /\ rows' = rows \cup {RowOf(p, i) : i \in new}
      /\ manifests' = manifests \cup page.covers \cup page.own
  BY DEF StorePage, StoreManifests
<1>4. /\ items \subseteq 1 .. n /\ good \subseteq items /\ bad \subseteq items
      /\ \A i \in good : i \notin bad
  <2>1. items \subseteq 1 .. n
    BY <1>1, <1>2
  <2>2. good \subseteq items /\ bad \subseteq items
    BY DEF ConflictsOf
  <2>3. \A i \in good : ~(i < i)
    BY <2>1, <2>2
  <2> QED BY <2>1, <2>2, <2>3
<1>5. \A i : RowOf(p, i).receipt = product[i] /\ RowOf(p, i).seq = i
  BY DEF RowOf
<1>6. \A i \in good : \E r \in rows' : r.receipt = product[i] /\ r.seq = i
  BY <1>3, <1>5 DEF SameRow
<1>7. RowsOfProduct'
  BY <1>3, <1>4, <1>5 DEF CollectInv, RowsOfProduct
<1>8. ASSUME NEW r \in rows', NEW s \in rows', r.receipt.call = s.receipt.call \/ r.seq = s.seq
      PROVE  r = s
  <2>1. ASSUME NEW i \in new, NEW t \in rows,
               t.receipt.call = product[i].call \/ t.seq = i
        PROVE  FALSE
    BY <1>4, <2>1 DEF ConflictsOf, Conflicting, SameRow
  <2>2. ASSUME NEW i \in new, NEW j \in new, product[i].call = product[j].call
        PROVE  i = j
    <3>1. i \in 1 .. n /\ j \in 1 .. n /\ i \in items /\ j \in items
          /\ i \notin bad /\ j \notin bad
      BY <1>4
    <3>2. ~(i < j) /\ ~(j < i)
      BY <2>2, <3>1 DEF ConflictsOf
    <3> QED BY <1>1, <3>1, <3>2
  <2>3. CASE r \in rows /\ s \in rows
    BY <1>8, <2>3 DEF CollectInv, NothingSkipped
  <2>4. CASE r \in rows /\ s \notin rows
    BY <1>3, <1>5, <1>8, <2>1, <2>4
  <2>5. CASE r \notin rows /\ s \in rows
    BY <1>3, <1>5, <1>8, <2>1, <2>5
  <2>6. CASE r \notin rows /\ s \notin rows
    <3>1. PICK i \in new : r = RowOf(p, i)
      BY <1>3, <2>6
    <3>2. PICK j \in new : s = RowOf(p, j)
      BY <1>3, <2>6
    <3> QED BY <1>5, <1>8, <2>2, <3>1, <3>2
  <2> QED BY <2>3, <2>4, <2>5, <2>6
<1>9. ASSUME NEW r \in rows'
      PROVE  \E m \in manifests' : m.container = r.receipt.cover /\ m.status = r.producer
  <2>1. CASE r \in rows
    BY <1>3, <2>1 DEF CollectInv, NothingSkipped
  <2>2. CASE r \notin rows
    <3>1. PICK i \in new : r = RowOf(p, i)
      BY <1>3, <2>2
    <3> DEFINE m == CHOOSE m \in page.covers : m.container = product[i].cover
    <3>2. m \in page.covers /\ m.container = product[i].cover
      BY <1>2, <1>4
    <3>3. r.receipt = product[i] /\ r.producer = m.status
      BY <3>1 DEF RowOf, ProducerOf
    <3> QED BY <1>3, <3>2, <3>3, Zenon
  <2> QED BY <2>1, <2>2
<1>10. \A i \in 1 .. n : Conflicting(i) => Conflicting(i)'
  BY <1>3 DEF Conflicting
<1>11. Shaped' /\ PagesConsecutive'
  <2>1. CASE Leaves(p)
    BY <2>1, LeavingKeeps
  <2>2. CASE collectors' = [collectors EXCEPT ![p] =
                              [Resting EXCEPT !.at = "stamp", !.pages = collectors[p].pages + 1]]
    <3>1. Shaped' /\ collectors'[p].at = "stamp"
      BY <1>1, <2>2 DEF Shaped, Resting
    <3>2. \A q \in Collectors \ {p} : collectors'[q] = collectors[q]
      BY <1>1, <2>2 DEF Shaped
    <3> QED BY <3>1, <3>2, SMTT(30) DEF CollectInv, PagesConsecutive, Consecutive
  <2> QED BY <2>1, <2>2 DEF AfterStore
<1>12. CASE bad = {}
  <2>1. cursor'.seq = page.next /\ cursor' = [seq |-> cursor'.seq, status |-> cursor'.status]
        /\ conflicts' = conflicts
    BY <1>12 DEF StorePage, RecordConflict
  <2>2. good = items
    BY <1>12
  <2>3. \A i \in 1 .. page.next : \E r \in rows' : r.receipt = product[i] /\ r.seq = i
    <3>1. \A i \in 1 .. page.next : i \in 1 .. cursor.seq \/ i \in items
      BY <1>1, <1>2
    <3> QED BY <1>3, <1>6, <2>2, <3>1 DEF CollectInv, NothingSkipped
  <2>4. \A c \in conflicts : page.next < c.seq
    <3> SUFFICES ASSUME NEW c \in conflicts PROVE page.next < c.seq
      OBVIOUS
    <3>1. c.seq \in 1 .. n /\ Conflicting(c.seq) /\ cursor.seq < c.seq
      BY DEF CollectInv, ConflictsStand, NothingSkipped
    <3>2. c.seq \notin items
      BY <1>12, <3>1 DEF ConflictsOf
    <3> QED BY <1>1, <1>2, <3>1, <3>2
  <2>5. NothingSkipped'
    BY <1>8, <1>9, <2>1, <2>3, <2>4 DEF NothingSkipped
  <2>6. ConflictsStand'
    BY <1>10, <2>1 DEF CollectInv, ConflictsStand
  <2>7. WorldOK' /\ cursor'.seq >= cursor.seq
    BY <1>1, <1>2, <1>11, <2>1 DEF CollectInv, WorldOK
  <2> QED BY <1>7, <1>11, <2>5, <2>6, <2>7 DEF CollectInv
<1>13. CASE bad # {}
  <2>1. PICK first \in bad : (\A j \in bad : first <= j) /\ RecordConflict(first)
    BY <1>13 DEF StorePage
  <2>2. /\ conflicts' = conflicts \cup {[seq |-> first, call |-> product[first].call]}
        /\ cursor' = [cursor EXCEPT !.status = "conflict"]
    BY <2>1 DEF RecordConflict
  <2>3. cursor'.seq = cursor.seq /\ cursor' = [seq |-> cursor'.seq, status |-> cursor'.status]
    BY <1>1, <2>2
  <2>4. first \in 1 .. n /\ first \in items /\ cursor.seq < first
    BY <1>1, <1>2, <1>4, <2>1
  <2>5. Conflicting(first)'
    <3>1. CASE Conflicting(first)
      BY <1>10, <2>4, <3>1
    <3>2. CASE ~Conflicting(first)
      <4>1. PICK j \in items : j < first /\ product[j].call = product[first].call
        BY <2>1, <3>2 DEF ConflictsOf
      <4>2. j \in 1 .. n
        BY <1>4
      <4>3. \A b \in bad : b \in 1 .. n /\ first <= b
        BY <1>4, <2>1
      <4>4. j \in good
        BY <1>1, <2>4, <4>1, <4>2, <4>3
      <4>5. PICK r \in rows' : r.receipt = product[j] /\ r.seq = j
        BY <1>6, <4>4
      <4>6. j # first
        BY <2>4, <4>1, <4>2
      <4> QED BY <4>1, <4>5, <4>6 DEF Conflicting
    <3> QED BY <3>1, <3>2
  <2>6. NothingSkipped'
    BY <1>1, <1>3, <1>8, <1>9, <2>2, <2>3, <2>4 DEF CollectInv, NothingSkipped
  <2>7. ConflictsStand'
    BY <1>10, <2>2, <2>4, <2>5 DEF CollectInv, ConflictsStand
  <2>8. WorldOK' /\ cursor'.seq >= cursor.seq
    BY <1>1, <1>11, <2>3 DEF CollectInv, WorldOK
  <2> QED BY <1>7, <1>11, <2>6, <2>7, <2>8 DEF CollectInv
<1> QED BY <1>12, <1>13

--------------------------------------------------------------------------------
(* The theorems *)

LEMMA StepKeeps ==
  ASSUME CollectInv, [Next]_vars
  PROVE  CollectInv' /\ cursor'.seq >= cursor.seq
<1>1. /\ Shaped /\ container \in Nat /\ today \in Days /\ cursor.seq \in Nat
      /\ cursor = [seq |-> cursor.seq, status |-> cursor.status]
  BY DEF CollectInv, WorldOK
<1>2. CASE Call
  <2>1. cursor' = cursor
    BY <1>2 DEF Call
  <2> QED BY <1>1, <1>2, <2>1, CallKeeps
<1>3. CASE Replace \/ NextDay
  <2>1. /\ UNCHANGED <<product, rows, manifests, conflicts, cursor, collectors>>
        /\ container' \in Nat /\ today' \in Days
    BY <1>1, <1>3 DEF Replace, NextDay, stored
  <2>2. Shaped' /\ PagesConsecutive'
    BY <1>1, <2>1 DEF CollectInv, Shaped, PagesConsecutive, Consecutive
  <2> QED BY <1>1, <2>1, <2>2, StoredKept
<1>4. ASSUME NEW p \in Collectors, CollectStep(p) \/ KillCollector(p)
      PROVE  CollectInv' /\ cursor'.seq >= cursor.seq
  <2>1. CASE Store(p)
    <3>1. CASE collectors[p].page.after = cursor.seq /\ StorePage(p) /\ AfterStore(p)
      BY <2>1, <3>1, StoreKeeps DEF Store, world
    <3>2. CASE RecordFailure /\ Leaves(p) /\ UNCHANGED stored
      <4>1. /\ UNCHANGED <<product, container, today, rows, manifests, conflicts>>
            /\ cursor' = [cursor EXCEPT !.status = "failed"]
        BY <2>1, <3>2 DEF Store, world, stored, RecordFailure
      <4>2. CollectInv'
        BY <1>1, <3>2, <4>1, LeavingKeeps, StoredKept
      <4> QED BY <1>1, <4>1, <4>2
    <3> QED BY <2>1, <3>1, <3>2 DEF Store
  <2>2. CASE ~Store(p)
    <3>1. \/ Acquire(p) \/ LiveStamp(p) \/ ReadCursor(p) \/ Export(p) \/ Recheck(p)
          \/ KillCollector(p)
      BY <1>4, <2>2 DEF CollectStep
    <3>2. CollectInv'
      BY <3>1, CollectorKeeps
    <3>3. cursor' \in {cursor, [cursor EXCEPT !.status = "failed"]}
      BY <3>1 DEF Acquire, LiveStamp, ReadCursor, Export, Recheck, KillCollector, Receives,
                  RecordFailure
    <3> QED BY <1>1, <3>2, <3>3
  <2> QED BY <2>1, <2>2
<1>5. CASE UNCHANGED vars
  <2>1. Shaped' /\ PagesConsecutive'
    BY <1>1, <1>5 DEF CollectInv, Shaped, PagesConsecutive, Consecutive, vars
  <2> QED BY <1>1, <1>5, <2>1, StoredKept DEF vars
<1> QED BY <1>2, <1>3, <1>4, <1>5 DEF Next

\* The cursor passes neither a receipt that is not stored nor a conflict, however
\* many collectors, pages, replaced containers and faulty exports there are
\* (store_export_page in usage_store.py).
THEOREM CollectedInOrder == Spec => []NothingSkipped
<1>1. CollectInv => NothingSkipped
  BY DEF CollectInv
<1> QED BY <1>1, Start, StepKeeps, PTL DEF Spec

\* last_ledger_seq never moves back, whatever is raced, refused or recorded as
\* failed (record_collection_failure in usage_store.py).
THEOREM CursorNeverBack == Spec => CursorMonotone
<1> QED BY Start, StepKeeps, PTL DEF Spec, CursorMonotone

--------------------------------------------------------------------------------
(* The truth of the rows *)

HostOK ==
  /\ product \in Seq(Receipt) /\ Len(product) <= MaxCalls
  /\ container \in 1 .. MaxContainers /\ today \in Days

StoreOK ==
  /\ rows \subseteq Row /\ manifests \subseteq Manifest
  /\ cursor \in [seq : Positions, status : {"never", "ok", "failed", "conflict"}]
  /\ conflicts \subseteq [seq : 1 .. MaxCalls, call : Calls]

BookOK == lock \in Collectors \cup {NoProc} /\ faults \in 0 .. MaxFaults

TrueRow(r) ==
  LET null == NullOf(r.receipt.call) IN
  /\ r.user = Holder[r.receipt.day]
  /\ r.claim.usage = "complete" <=> UsageFields \cap null = {}
  /\ r.claim.usage = "unavailable" <=> UsageFields \subseteq null
  /\ r.claim.receipt = "complete" <=> null = {}
  /\ r.producer = "complete" <=> Surfaces[r.receipt.cover] = {"implemented"}

\* What was checked of an accepted page still holds when it is stored, though
\* the ledger has grown and the container may have been replaced.
Checked(page) ==
  /\ page.covers \cup page.own \subseteq Manifest
  /\ \A m \in page.covers : ValidCoverage(m)
  /\ \A i \in page.items : /\ page.claims[i] \in Claim
                           /\ ValidReceipt(product[i].call, page.claims[i])

CollectorOK(c) ==
  /\ c.page.next \in Positions
  /\ c.at \in {"cursor", "export", "recheck", "store"} => c.container \in 1 .. MaxContainers
  /\ c.at \in {"recheck", "store"} => Checked(c.page)

TruthInv ==
  /\ CollectInv /\ HostOK /\ StoreOK /\ BookOK
  /\ \A r \in rows : TrueRow(r)
  /\ \A p \in Collectors : CollectorOK(collectors[p])

LEMMA TruthIsRowsTruthful == TruthInv => RowsTruthful
<1> SUFFICES ASSUME TruthInv PROVE RowsTruthful
  OBVIOUS
<1>1. TypeOK
  BY DEF TruthInv, HostOK, StoreOK, BookOK, CollectorOK, TypeOK
<1>2. \A r \in rows : TrueRow(r)
  BY DEF TruthInv
<1> QED BY <1>1, <1>2 DEF RowsTruthful, TrueRow

LEMMA StartTruth == Init => TruthInv
<1> SUFFICES ASSUME Init PROVE TruthInv
  OBVIOUS
<1>1. HostOK
  <2>1. product \in Seq(Receipt) /\ Len(product) = 0
    BY DEF Init
  <2> QED BY <2>1, CollectionAssumption DEF Init, HostOK
<1>2. StoreOK /\ BookOK /\ \A r \in rows : TrueRow(r)
  BY CollectionAssumption DEF Init, StoreOK, BookOK, Positions
<1>3. \A p \in Collectors : CollectorOK(collectors[p])
  BY CollectionAssumption DEF Init, CollectorOK, Resting, NoPage, Positions
<1> QED BY <1>1, <1>2, <1>3, Start DEF TruthInv

\* A call whose receipt names exactly its null fields is valued truthfully.
LEMMA ValidIsTrue ==
  ASSUME NEW c \in Calls, NEW claim \in Claim, ValidReceipt(c, claim)
  PROVE  /\ claim.usage = "complete" <=> UsageFields \cap NullOf(c) = {}
         /\ claim.usage = "unavailable" <=> UsageFields \subseteq NullOf(c)
         /\ claim.receipt = "complete" <=> NullOf(c) = {}
<1> DEFINE null == NullOf(c)
<1>1. /\ claim.usage = CoverageFrom(null \cap UsageFields, UsageFields)
      /\ claim.receipt = CoverageFrom(null, Applicable(c))
  BY DEF ValidReceipt
<1>2. UsageFields # {}
  BY DEF UsageFields
<1> HIDE DEF null
<1>3. /\ claim.usage = "complete" <=> UsageFields \cap null = {}
      /\ claim.usage = "unavailable" <=> UsageFields \subseteq null
  BY <1>1, <1>2 DEF CoverageFrom
<1>4. claim.receipt = "complete" <=> null = {}
  BY <1>1 DEF CoverageFrom
<1> QED BY <1>3, <1>4 DEF null

LEMMA ClaimTypes ==
  ASSUME NEW c \in Calls, NEW null \in SUBSET NullOf(c)
  PROVE  ClaimOf(c, null) \in Claim
<1>1. null \in SUBSET Fields
  BY DEF NullOf, Fields
<1> QED BY <1>1 DEF ClaimOf, Claim, CoverageFrom, Coverage

LEMMA ManifestTypes ==
  ASSUME NEW k \in 1 .. MaxContainers, NEW gaps
  PROVE  ManifestOf(k, gaps) \in Manifest
BY DEF ManifestOf, Manifest

\* Whatever a faulty product gets wrong, its page has the shape of a page.
LEMMA ExportTypes ==
  ASSUME HostOK, NEW after, NEW page \in {ExportOf(after)} \cup FaultyExports(after)
  PROVE  /\ page.covers \cup page.own \subseteq Manifest
         /\ \A i \in page.items : page.claims[i] \in Claim
<1> DEFINE e == ExportOf(after)
           items == ItemsAfter(after)
           Good(pg) == /\ pg.covers \cup pg.own \subseteq Manifest
                       /\ \A i \in items : pg.claims[i] \in Claim
<1>1. \A i \in items : product[i] \in Receipt
  BY DEF HostOK, ItemsAfter
<1>2. /\ e.covers = {ManifestOf(product[i].cover, {}) : i \in items}
      /\ e.own = {ManifestOf(container, {})} /\ e.items = items
      /\ e.claims = [i \in items |-> ClaimOf(product[i].call, NullOf(product[i].call))]
      /\ DOMAIN e = {"after", "items", "next", "high", "more", "claims", "covers", "own"}
  BY Zenon DEF ExportOf, ItemsAfter
<1>3. \A gaps : ManifestOf(container, gaps) \in Manifest
  BY ManifestTypes DEF HostOK
<1>4. Good(e)
  <2>1. \A i \in items : ManifestOf(product[i].cover, {}) \in Manifest
    BY <1>1, ManifestTypes DEF Receipt
  <2>2. \A i \in items : ClaimOf(product[i].call, NullOf(product[i].call)) \in Claim
    BY <1>1, ClaimTypes DEF Receipt
  <2> QED BY <1>2, <1>3, <2>1, <2>2
<1>5. ASSUME page \in FaultyExports(after) PROVE Good(page)
  <2> DEFINE A == {[e EXCEPT !.next = w[1], !.high = w[2]] : w \in Positions \X Positions}
             B == {[e EXCEPT !.claims = [i \in e.items |->
                      ClaimOf(product[i].call, NullOf(product[i].call) \ {f})]] :
                    f \in Fields}
             C == {[e EXCEPT !.covers = ms] : ms \in {{}, e.own}}
             D == {[e EXCEPT !.own = {ManifestOf(container, {"gap"})}]}
  <2>1. FaultyExports(after) = (A \cup B \cup C \cup D) \ {e}
    BY Zenon DEF FaultyExports
  <2>2. ASSUME page \in A PROVE Good(page)
    <3>1. PICK n, h : page = [e EXCEPT !.next = n, !.high = h]
      BY <2>2, Zenon
    <3> HIDE DEF e
    <3>2. page.covers = e.covers /\ page.own = e.own /\ page.claims = e.claims
      BY <1>2, <3>1
    <3> QED BY <1>4, <3>2
  <2>3. ASSUME page \in B PROVE Good(page)
    <3>1. PICK f : page = [e EXCEPT !.claims = [i \in e.items |->
                      ClaimOf(product[i].call, NullOf(product[i].call) \ {f})]]
      BY <2>3, Zenon
    <3> DEFINE cl == [i \in e.items |-> ClaimOf(product[i].call, NullOf(product[i].call) \ {f})]
    <3>2. \A i \in items : cl[i] \in Claim
      <4>1. \A i \in items : ClaimOf(product[i].call, NullOf(product[i].call) \ {f}) \in Claim
        BY <1>1, ClaimTypes DEF Receipt
      <4> QED BY <1>2, <4>1, Zenon
    <3> HIDE DEF e, cl
    <3>3. page.covers = e.covers /\ page.own = e.own /\ page.claims = cl
      BY <1>2, <3>1 DEF cl
    <3> QED BY <1>4, <3>2, <3>3
  <2>4. ASSUME page \in C PROVE Good(page)
    <3>1. PICK ms \in {{}, e.own} : page = [e EXCEPT !.covers = ms]
      BY <2>4
    <3> HIDE DEF e
    <3>2. page.covers = ms /\ page.own = e.own /\ page.claims = e.claims
      BY <1>2, <3>1
    <3> QED BY <1>4, <3>1, <3>2
  <2>5. ASSUME page \in D PROVE Good(page)
    <3>1. page = [e EXCEPT !.own = {ManifestOf(container, {"gap"})}]
      BY <2>5
    <3> HIDE DEF e
    <3>2. page.covers = e.covers /\ page.own = {ManifestOf(container, {"gap"})}
          /\ page.claims = e.claims
      BY <1>2, <3>1
    <3> QED BY <1>3, <1>4, <3>2
  <2> HIDE DEF e, A, B, C, D, Good
  <2> QED BY <1>5, <2>1, <2>2, <2>3, <2>4, <2>5
<1> HIDE DEF e, items, Good
<1>6. Good(page)
  BY <1>4, <1>5 DEF e
<1>7. page.items = items
  BY ExportedItems DEF items
<1> QED BY <1>6, <1>7 DEF Good

\* What was found of the rows and the collectors of the next state holds in it.
LEMMA RowsThen ==
  ASSUME \A r \in rows' : TrueRow(r)
  PROVE  \A r \in rows' : TrueRow(r)'
BY SMTT(30) DEF TrueRow, NullOf, Applicable

LEMMA CollectorsThen ==
  ASSUME UNCHANGED product, \A q \in Collectors : CollectorOK(collectors'[q])
  PROVE  \A q \in Collectors : CollectorOK(collectors[q])'
BY SMTT(30) DEF CollectorOK, Checked, ValidReceipt, ValidCoverage, NullOf, Applicable, CoverageFrom

\* The steps of a collector that store nothing.
LEMMA TruthKept ==
  ASSUME TruthInv, CollectInv', UNCHANGED <<rows, manifests, conflicts>>, HostOK', BookOK',
         cursor' \in {cursor, [cursor EXCEPT !.status = "failed"]},
         \A p \in Collectors : CollectorOK(collectors[p])'
  PROVE  TruthInv'
<1>1. StoreOK'
  BY DEF TruthInv, StoreOK
<1>2. \A r \in rows' : TrueRow(r)'
  BY RowsThen, Zenon DEF TruthInv
<1> QED BY <1>1, <1>2 DEF TruthInv

\* The ledger only grows, so that what was checked of a page stays checked.
LEMMA CheckedKept ==
  ASSUME TruthInv, NEW p \in Collectors, collectors' = collectors,
         \A i \in DOMAIN product : product'[i] = product[i]
  PROVE  CollectorOK(collectors[p])'
<1>1. CollectorOK(collectors[p])
  BY DEF TruthInv
<1>2. CASE collectors[p].at \in {"recheck", "store"}
  <2>1. Consecutive(collectors[p].page) /\ product \in Seq(Receipt)
    BY <1>2 DEF TruthInv, CollectInv, PagesConsecutive, HostOK
  <2> DEFINE items == collectors[p].page.items
  <2>2. \A i \in items : i \in DOMAIN product
    BY <2>1 DEF Consecutive
  <2>3. \A i \in items : product'[i] = product[i]
    BY <2>2
  <2>4. Checked(collectors[p].page)'
    BY <1>1, <1>2, <2>3, Zenon DEF CollectorOK, Checked, ValidReceipt, ValidCoverage, NullOf,
       Applicable, CoverageFrom
  <2> QED BY <1>1, <2>4 DEF CollectorOK
<1>3. CASE collectors[p].at \notin {"recheck", "store"}
  BY <1>1, <1>3 DEF CollectorOK
<1> QED BY <1>2, <1>3

LEMMA CallTruth ==
  ASSUME TruthInv, CollectInv', Call
  PROVE  TruthInv'
<1>1. PICK c \in Calls : product' = Append(product, [call |-> c, day |-> today,
                                                     cover |-> container])
  BY DEF Call
<1>2. /\ UNCHANGED <<container, today, rows, manifests, conflicts, cursor, collectors, lock>>
      /\ faults' \in 0 .. MaxFaults /\ Len(product) < MaxCalls
  BY CollectionAssumption DEF Call, stored, Works, Fails, TruthInv, BookOK
<1> DEFINE e == [call |-> c, day |-> today, cover |-> container]
<1>3. e \in Receipt /\ product \in Seq(Receipt)
  BY DEF TruthInv, HostOK, Receipt
<1> HIDE DEF e
<1>4. /\ product' \in Seq(Receipt) /\ Len(product') = Len(product) + 1
      /\ \A i \in 1 .. Len(product) : product'[i] = product[i]
  BY <1>1, <1>3, Longer DEF e
<1>5. HostOK'
  BY <1>2, <1>3, <1>4, CollectionAssumption DEF TruthInv, HostOK
<1>6. \A i \in DOMAIN product : product'[i] = product[i]
  BY <1>3, <1>4
<1>7. BookOK'
  BY <1>2 DEF TruthInv, BookOK
<1> QED BY <1>2, <1>5, <1>6, <1>7, CheckedKept, TruthKept

\* One collector moves: what it holds then must be in order.
LEMMA CollectorTruth ==
  ASSUME TruthInv, CollectInv', NEW p \in Collectors,
         UNCHANGED <<product, container, today, rows, manifests, conflicts>>, BookOK',
         cursor' \in {cursor, [cursor EXCEPT !.status = "failed"]},
         \A q \in Collectors \ {p} : collectors'[q] = collectors[q],
         CollectorOK(collectors'[p])
  PROVE  TruthInv'
<1>1. HostOK'
  BY DEF TruthInv, HostOK
<1>2. \A q \in Collectors : CollectorOK(collectors'[q])
  BY DEF TruthInv
<1>3. \A q \in Collectors : CollectorOK(collectors[q])'
  BY <1>2, CollectorsThen, Zenon
<1> QED BY <1>1, <1>3, TruthKept

LEMMA LeavingTruth ==
  ASSUME TruthInv, NEW p \in Collectors, Leaves(p)
  PROVE  /\ \A q \in Collectors \ {p} : collectors'[q] = collectors[q]
         /\ CollectorOK(collectors'[p]) /\ lock' \in Collectors \cup {NoProc}
<1>1. Shaped /\ collectors' = [collectors EXCEPT ![p] = Resting]
  BY DEF TruthInv, CollectInv, WorldOK, Leaves
<1>2. collectors'[p] = Resting /\ \A q \in Collectors \ {p} : collectors'[q] = collectors[q]
  BY <1>1 DEF Shaped
<1>3. CollectorOK(Resting)
  BY CollectionAssumption DEF CollectorOK, Resting, NoPage, Positions
<1> QED BY <1>2, <1>3 DEF TruthInv, BookOK, Leaves

\* A page that validates is in order.
LEMMA ReceivedTruth ==
  ASSUME HostOK, WorldOK, NEW after \in 0 .. Len(product),
         NEW page \in {ExportOf(after)} \cup FaultyExports(after), ValidPage(page, after)
  PROVE  page.next \in Positions /\ Checked(page)
<1>1. Consecutive(page)
  BY ExportedItems, ValidIsConsecutive, Zenon
<1>2. page.next \in Positions
  BY <1>1, CollectionAssumption DEF Consecutive, HostOK, Positions
<1>3. /\ page.covers \cup page.own \subseteq Manifest
      /\ \A i \in page.items : page.claims[i] \in Claim
  BY ExportTypes, Zenon
<1>4. /\ \A m \in page.covers : ValidCoverage(m)
      /\ \A i \in page.items : ValidReceipt(product[i].call, page.claims[i])
  BY Zenon DEF ValidPage
<1> QED BY <1>2, <1>3, <1>4, Zenon DEF Checked

LEMMA CollectorStepTruth ==
  ASSUME TruthInv, CollectInv', NEW p \in Collectors,
         \/ Acquire(p) \/ LiveStamp(p) \/ ReadCursor(p) \/ Export(p) \/ Recheck(p)
         \/ KillCollector(p)
  PROVE  TruthInv'
<1>1. /\ Shaped /\ HostOK /\ BookOK /\ CollectorOK(collectors[p])
      /\ UNCHANGED <<product, container, today, rows, manifests, conflicts>>
  BY DEF TruthInv, CollectInv, WorldOK, Acquire, LiveStamp, ReadCursor, Export, Recheck,
         KillCollector, world, stored
<1>2. cursor' \in {cursor, [cursor EXCEPT !.status = "failed"]}
  BY DEF Acquire, LiveStamp, ReadCursor, Export, Recheck, KillCollector, Receives, RecordFailure
<1>3. faults' \in 0 .. MaxFaults
  BY <1>1, CollectionAssumption
     DEF BookOK, Acquire, LiveStamp, ReadCursor, Export, Recheck, KillCollector, Works, Fails
<1>4. ASSUME lock' \in Collectors \cup {NoProc}, NEW c, CollectorOK(c),
             collectors' = [collectors EXCEPT ![p] = c]
      PROVE  TruthInv'
  <2>1. collectors'[p] = c /\ \A q \in Collectors \ {p} : collectors'[q] = collectors[q]
    BY <1>1, <1>4 DEF Shaped
  <2>2. BookOK'
    BY <1>3, <1>4 DEF BookOK
  <2> QED BY <1>1, <1>2, <1>4, <2>1, <2>2, CollectorTruth
<1>5. ASSUME Leaves(p) PROVE TruthInv'
  <2>1. BookOK'
    BY <1>3, <1>5, LeavingTruth, SMTT(30) DEF BookOK
  <2> QED BY <1>1, <1>2, <1>5, <2>1, LeavingTruth, CollectorTruth
<1> DEFINE o == collectors[p]
<1>6. o.page.next \in Positions /\ DOMAIN o = {"at", "after", "container", "page", "pages"}
  BY <1>1 DEF CollectorOK, Shaped
<1>7. CASE Acquire(p)
  <2>1. CollectorOK([o EXCEPT !.at = "stamp"])
    BY <1>6 DEF CollectorOK
  <2>2. collectors' = [collectors EXCEPT ![p] = [o EXCEPT !.at = "stamp"]] /\ lock' = p
    BY <1>7 DEF Acquire
  <2> QED BY <1>4, <2>1, <2>2, Zenon
<1>8. CASE LiveStamp(p)
  <2> DEFINE c == [o EXCEPT !.at = "cursor", !.container = container]
  <2>1. CollectorOK(c)
    BY <1>1, <1>6 DEF CollectorOK, HostOK
  <2>2. CASE collectors' = [collectors EXCEPT ![p].at = "cursor", ![p].container = container]
             /\ UNCHANGED lock
    <3>1. collectors' = [collectors EXCEPT ![p] = c]
      BY <1>1, <2>2, Zenon DEF Shaped
    <3> QED BY <1>1, <1>4, <2>1, <2>2, <3>1, Zenon DEF BookOK
  <2> QED BY <1>5, <1>8, <2>2 DEF LiveStamp
<1>9. CASE ReadCursor(p)
  <2> DEFINE c == [o EXCEPT !.at = "export", !.after = cursor.seq]
  <2>1. CollectorOK(c)
    BY <1>1, <1>6, <1>9 DEF CollectorOK, ReadCursor
  <2>2. CASE collectors' = [collectors EXCEPT ![p].at = "export", ![p].after = cursor.seq]
             /\ UNCHANGED lock
    <3>1. collectors' = [collectors EXCEPT ![p] = c]
      BY <1>1, <2>2, Zenon DEF Shaped
    <3> QED BY <1>1, <1>4, <2>1, <2>2, <3>1, Zenon DEF BookOK
  <2> QED BY <1>5, <1>9, <2>2 DEF ReadCursor
<1>10. CASE Export(p)
  <2>1. o.at = "export" /\ o.after \in 0 .. Len(product) /\ WorldOK
    BY <1>10, Zenon DEF Export, TruthInv, CollectInv, PagesConsecutive
  <2>2. ASSUME NEW page \in {ExportOf(o.after)} \cup FaultyExports(o.after), Receives(p, page)
        PROVE  TruthInv'
    <3> DEFINE c == [o EXCEPT !.at = "recheck", !.page = page]
    <3>1. ValidPage(page, o.after) /\ UNCHANGED lock
      BY <2>2 DEF Receives
    <3>2. page.next \in Positions /\ Checked(page)
      BY <1>1, <2>1, <3>1, ReceivedTruth, Zenon
    <3>3. CollectorOK(c)
      BY <1>1, <1>6, <2>1, <3>2 DEF CollectorOK
    <3>4. collectors' = [collectors EXCEPT ![p] = c]
      BY <1>1, <2>2, Zenon DEF Receives
    <3> HIDE DEF c
    <3> QED BY <1>1, <1>4, <3>1, <3>3, <3>4, Zenon DEF BookOK
  <2> QED BY <1>5, <1>10, <2>2, Zenon DEF Export
<1>11. CASE Recheck(p)
  <2> DEFINE c == [o EXCEPT !.at = "store"]
  <2>1. CollectorOK(c)
    BY <1>1, <1>6, <1>11 DEF CollectorOK, Recheck
  <2>2. CASE collectors' = [collectors EXCEPT ![p].at = "store"] /\ UNCHANGED lock
    <3>1. collectors' = [collectors EXCEPT ![p] = c]
      BY <1>1, <2>2 DEF Shaped
    <3> QED BY <1>1, <1>4, <2>1, <2>2, <3>1, Zenon DEF BookOK
  <2> QED BY <1>5, <1>11, <2>2 DEF Recheck
<1>12. CASE KillCollector(p)
  BY <1>5, <1>12 DEF KillCollector
<1> QED BY <1>7, <1>8, <1>9, <1>10, <1>11, <1>12

\* A receipt that is stored becomes a row that says no more than was reported.
LEMMA NewRowTrue ==
  ASSUME TruthInv, NEW p \in Collectors, collectors[p].at = "store",
         NEW i \in collectors[p].page.items
  PROVE  RowOf(p, i) \in Row /\ TrueRow(RowOf(p, i))
<1> DEFINE page == collectors[p].page
           m == CHOOSE x \in page.covers : x.container = product[i].cover
           r == RowOf(p, i)
<1>1. /\ CollectorOK(collectors[p]) /\ Consecutive(page) /\ HostOK
  BY DEF TruthInv, CollectInv, PagesConsecutive
<1>2. /\ collectors[p].container \in 1 .. MaxContainers
      /\ page.covers \subseteq Manifest /\ (\A x \in page.covers : ValidCoverage(x))
      /\ page.claims[i] \in Claim /\ ValidReceipt(product[i].call, page.claims[i])
  BY <1>1 DEF CollectorOK, Checked
<1>3. i \in 1 .. Len(product) /\ i \in 1 .. MaxCalls
  BY <1>1, CollectionAssumption DEF Consecutive, HostOK
<1>4. product[i] \in Receipt
  BY <1>1, <1>3 DEF HostOK
<1>5. m \in page.covers /\ m.container = product[i].cover
  BY <1>1 DEF Consecutive
<1> HIDE DEF page
<1>6. r = [receipt |-> product[i], seq |-> i, container |-> collectors[p].container,
           user |-> Holder[product[i].day], claim |-> page.claims[i], producer |-> m.status]
  BY Zenon DEF RowOf, ProducerOf, HolderOf, page
<1> HIDE DEF m, r
<1>7. ValidCoverage(m) /\ m.status \in {"complete", "partial"}
  BY <1>2, <1>5 DEF Manifest
<1>8. m.status = "complete" <=> Surfaces[product[i].cover] = {"implemented"}
  BY <1>5, <1>7 DEF ValidCoverage
<1>9. product[i].call \in Calls /\ product[i].day \in Days
  BY <1>4 DEF Receipt
<1>10. r \in Row
  BY <1>2, <1>3, <1>4, <1>6, <1>7, <1>9, SMTT(30) DEF Row
<1>11. TrueRow(r)
  BY <1>2, <1>6, <1>8, <1>9, ValidIsTrue, SMTT(30) DEF TrueRow
<1> QED BY <1>10, <1>11 DEF r

LEMMA StoreTruth ==
  ASSUME TruthInv, CollectInv', NEW p \in Collectors, collectors[p].at = "store",
         StorePage(p), AfterStore(p), UNCHANGED <<product, container, today, faults>>
  PROVE  TruthInv'
<1> DEFINE page == collectors[p].page
           bad  == ConflictsOf(page.items)
           good == {i \in page.items : \A j \in bad : i < j}
           new  == {i \in good : ~SameRow(i)}
<1>1. /\ Shaped /\ HostOK /\ StoreOK /\ BookOK /\ CollectorOK(collectors[p])
      /\ Consecutive(page)
  BY SMTT(30) DEF TruthInv, CollectInv, WorldOK, PagesConsecutive
<1>2. /\ rows' = rows \cup {RowOf(p, i) : i \in new} /\ new \subseteq page.items
      /\ manifests' = manifests \cup page.covers \cup page.own
  BY DEF StorePage, StoreManifests
<1>3. \A r \in rows' : r \in Row /\ TrueRow(r)
  <2>1. \A i \in new : RowOf(p, i) \in Row /\ TrueRow(RowOf(p, i))
    BY <1>2, NewRowTrue
  <2>2. \A r \in rows : r \in Row /\ TrueRow(r)
    BY DEF TruthInv, StoreOK
  <2> HIDE DEF new
  <2> QED BY <1>2, <2>1, <2>2
<1>4. manifests' \subseteq Manifest
  BY <1>1, <1>2, Zenon DEF StoreOK, CollectorOK, Checked
<1>5. /\ cursor' \in [seq : Positions, status : {"never", "ok", "failed", "conflict"}]
      /\ conflicts' \subseteq [seq : 1 .. MaxCalls, call : Calls]
  <2>1. CASE bad = {}
    <3>1. /\ cursor' = [seq |-> page.next,
                        status |-> IF page.more /\ ~GoesOn(p) THEN "failed" ELSE "ok"]
          /\ conflicts' = conflicts
      BY <2>1 DEF StorePage
    <3> QED BY <1>1, <3>1, Zenon DEF StoreOK, CollectorOK
  <2>2. CASE bad # {}
    <3>1. bad \subseteq 1 .. Len(product)
      BY <1>1, SMTT(30) DEF ConflictsOf, Consecutive, HostOK
    <3>2. PICK i \in bad : RecordConflict(i)
      BY <2>2 DEF StorePage
    <3>3. i \in 1 .. MaxCalls /\ product[i] \in Receipt
      BY <1>1, <3>1, CollectionAssumption DEF HostOK
    <3>4. /\ conflicts' = conflicts \cup {[seq |-> i, call |-> product[i].call]}
          /\ cursor' = [cursor EXCEPT !.status = "conflict"]
      BY <3>2 DEF RecordConflict
    <3> HIDE DEF bad
    <3> QED BY <1>1, <3>3, <3>4, SMTT(30) DEF StoreOK, Receipt
  <2> QED BY <2>1, <2>2, Zenon
<1> HIDE DEF page, bad, good, new
<1>6. /\ \A q \in Collectors \ {p} : collectors'[q] = collectors[q]
      /\ CollectorOK(collectors'[p]) /\ lock' \in Collectors \cup {NoProc}
  <2>1. CASE Leaves(p)
    BY <2>1, LeavingTruth
  <2>2. CASE /\ collectors' = [collectors EXCEPT ![p] =
                   [Resting EXCEPT !.at = "stamp", !.pages = collectors[p].pages + 1]]
             /\ UNCHANGED lock
    <3>1. collectors'[p].at = "stamp" /\ collectors'[p].page.next = 0
      <4>1. DOMAIN collectors = Collectors
        BY <1>1 DEF Shaped
      <4> QED BY <2>2, <4>1 DEF Resting, NoPage
    <3>2. CollectorOK(collectors'[p])
      BY <3>1, CollectionAssumption DEF CollectorOK, Positions
    <3> QED BY <1>1, <2>2, <3>2 DEF Shaped, BookOK
  <2> QED BY <2>1, <2>2 DEF AfterStore
<1>7. StoreOK' /\ HostOK' /\ BookOK'
  BY <1>1, <1>3, <1>4, <1>5, <1>6 DEF StoreOK, HostOK, BookOK
<1>8. \A r \in rows' : TrueRow(r)'
  BY <1>3, RowsThen, Zenon
<1>9. \A q \in Collectors : CollectorOK(collectors[q])'
  <2>1. \A q \in Collectors : CollectorOK(collectors'[q])
    BY <1>6 DEF TruthInv
  <2> QED BY <2>1, CollectorsThen, Zenon
<1> QED BY <1>7, <1>8, <1>9 DEF TruthInv

LEMMA StepTruth ==
  ASSUME TruthInv, [Next]_vars
  PROVE  TruthInv'
<1>1. CollectInv'
  BY StepKeeps DEF TruthInv
<1>2. CASE Call
  BY <1>1, <1>2, CallTruth
<1>3. CASE Replace \/ NextDay \/ UNCHANGED vars
  <2>1. UNCHANGED <<product, rows, manifests, conflicts, cursor, collectors, lock, faults>>
    BY <1>3 DEF Replace, NextDay, stored, vars
  <2>2. HostOK' /\ BookOK'
    BY <1>3, <2>1, CollectionAssumption, SMTT(30) DEF TruthInv, HostOK, BookOK, Replace, NextDay, vars
  <2> QED BY <1>1, <2>1, <2>2, CheckedKept, TruthKept
<1>4. ASSUME NEW p \in Collectors, CollectStep(p) \/ KillCollector(p)
      PROVE  TruthInv'
  <2>1. CASE Store(p) /\ StorePage(p) /\ AfterStore(p) /\ Works
    BY <1>1, <2>1, StoreTruth DEF Store, world, Works
  <2>2. CASE Store(p) /\ RecordFailure /\ Leaves(p) /\ UNCHANGED stored
    <3>1. /\ UNCHANGED <<product, container, today, rows, manifests, conflicts>>
          /\ cursor' = [cursor EXCEPT !.status = "failed"] /\ faults' \in 0 .. MaxFaults
      BY <2>2, CollectionAssumption
         DEF Store, world, stored, RecordFailure, Works, Fails, TruthInv, BookOK
    <3>2. BookOK'
      BY <2>2, <3>1, LeavingTruth DEF BookOK
    <3> QED BY <1>1, <2>2, <3>1, <3>2, LeavingTruth, CollectorTruth
  <2>3. CASE \/ Acquire(p) \/ LiveStamp(p) \/ ReadCursor(p) \/ Export(p) \/ Recheck(p)
             \/ KillCollector(p)
    BY <1>1, <2>3, CollectorStepTruth
  <2> QED BY <1>4, <2>1, <2>2, <2>3, SMTT(30) DEF CollectStep, Store
<1> QED BY <1>2, <1>3, <1>4 DEF Next

\* Every row of provider_usage_call says of its call what was reported, no more and
\* no less, and charges it to whoever held the slot when it began, whatever the
\* product claims and however late it is collected (validate_call_receipt,
\* validate_coverage, _assignment_for_call).
THEOREM RowsAreTruthful == Spec => []RowsTruthful
<1> QED BY StartTruth, StepTruth, TruthIsRowsTruthful, PTL DEF Spec
============================================================================
