---------------------- MODULE RootActionPublicationProofs ----------------------
(***************************************************************************)
(* What the broker publishes is consistent, whole and never goes back, for *)
(* any number of jobs, faults and restarts and any limit of the catalog.   *)
(***************************************************************************)
EXTENDS RootActionPublication, TLAPS

--------------------------------------------------------------------------------
(* Sequences of jobs *)

\* A sequence without one of its entries is still one of the same elements.
LEMMA DropType ==
  ASSUME NEW S, NEW s \in Seq(S), NEW I \in SUBSET DOMAIN s
  PROVE  Drop(s, I) \in Seq(S)
<1>1. CASE I = {}
  BY <1>1 DEF Drop
<1>2. CASE I # {}
  <2>1. PICK i \in 1 .. Len(s) : /\ i = CHOOSE k \in I : TRUE
                                /\ Len(s) \in Nat
    BY <1>2
  <2>2. SubSeq(s, 1, i - 1) \in Seq(S) /\ SubSeq(s, i + 1, Len(s)) \in Seq(S)
    OBVIOUS
  <2>3. Drop(s, I) = SubSeq(s, 1, i - 1) \o SubSeq(s, i + 1, Len(s))
    BY <1>2, <2>1, Zenon DEF Drop
  <2> QED BY <2>2, <2>3
<1> QED BY <1>1, <1>2

\* The job that changed is moved to the front of the others.
LEMMA MovedToFront ==
  ASSUME NEW S, NEW s \in Seq(S), NEW j \in S, NEW I \in SUBSET DOMAIN s
  PROVE  <<j>> \o Drop(s, I) \in Seq(S) /\ <<j>> \o Drop(s, I) # <<>>
<1>1. PICK r \in Seq(S) : r = Drop(s, I)
  BY DropType
<1> QED BY <1>1

\* Sequences over a set: over a larger one, and their elements.
LEMMA SeqGrows ==
  ASSUME NEW S, NEW T, S \subseteq T, NEW s \in Seq(S)
  PROVE  s \in Seq(T)
OBVIOUS

LEMMA ElementsOf ==
  ASSUME NEW S, NEW s \in Seq(S)
  PROVE  Elements(s) \subseteq S
BY DEF Elements

\* No entry of a sequence comes twice.
Once(s) == \A i, k \in DOMAIN s : s[i] = s[k] => i = k

\* The entries of a concatenation.
LEMMA ConcatEntries ==
  ASSUME NEW S, NEW p \in Seq(S), NEW q \in Seq(S)
  PROVE  /\ p \o q \in Seq(S) /\ Len(p \o q) = Len(p) + Len(q)
         /\ Len(p) \in Nat /\ Len(q) \in Nat
         /\ \A k \in 1 .. Len(p) : (p \o q)[k] = p[k]
         /\ \A k \in 1 .. Len(q) : (p \o q)[Len(p) + k] = q[k]
OBVIOUS

\* What is left of a sequence without one of its entries.
LEMMA DropEntries ==
  ASSUME NEW S, NEW s \in Seq(S), NEW I \in SUBSET DOMAIN s, I # {}
  PROVE  \E i \in I :
           /\ Len(Drop(s, I)) = Len(s) - 1
           /\ \A k \in 1 .. Len(s) - 1 : Drop(s, I)[k] = IF k < i THEN s[k] ELSE s[k + 1]
<1>1. PICK i \in I : i = CHOOSE k \in I : TRUE
  BY Zenon
<1>2. i \in 1 .. Len(s) /\ Len(s) \in Nat
  OBVIOUS
<1>3. PICK p, q : p = SubSeq(s, 1, i - 1) /\ q = SubSeq(s, i + 1, Len(s))
  BY Zenon
<1>4. Drop(s, I) = p \o q
  BY <1>1, <1>3, Zenon DEF Drop
<1>5. /\ p \in Seq(S) /\ Len(p) = i - 1 /\ \A k \in 1 .. i - 1 : p[k] = s[k]
  BY <1>2, <1>3
<1>6. /\ q \in Seq(S) /\ Len(q) = Len(s) - i /\ \A k \in 1 .. Len(s) - i : q[k] = s[k + i]
  BY <1>2, <1>3
<1>7. Len(p \o q) = Len(s) - 1
  BY <1>2, <1>5, <1>6, ConcatEntries
<1>8. ASSUME NEW k \in 1 .. Len(s) - 1
      PROVE  (p \o q)[k] = IF k < i THEN s[k] ELSE s[k + 1]
  <2>1. CASE k < i
    <3>1. k \in 1 .. Len(p)
      BY <1>2, <1>5, <2>1
    <3> QED BY <1>5, <1>6, <2>1, <3>1, ConcatEntries
  <2>2. CASE k >= i
    <3> DEFINE l == k - (i - 1)
    <3>1. l \in 1 .. Len(s) - i /\ l \in 1 .. Len(q)
      BY <1>2, <1>6, <2>2
    <3>2. Len(p) + l = k /\ l + i = k + 1 /\ ~(k < i)
      BY <1>2, <1>5, <2>2
    <3> HIDE DEF l
    <3>3. (p \o q)[Len(p) + l] = q[l]
      <4>1. p \in Seq(S) /\ q \in Seq(S)
        BY <1>5, <1>6
      <4>2. \A n \in 1 .. Len(q) : (p \o q)[Len(p) + n] = q[n]
        BY <4>1, ConcatEntries
      <4> QED BY <3>1, <4>2, Zenon
    <3>4. q[l] = s[l + i]
      BY <1>6, <3>1, Zenon
    <3> QED BY <3>2, <3>3, <3>4, Zenon
  <2>3. k < i \/ k >= i
    BY <1>2
  <2> QED BY <2>1, <2>2, <2>3, Zenon
<1> QED BY <1>4, <1>7, <1>8, Zenon

\* The job that changed is moved to the front; the others stay, each once.
LEMMA MovedOnce ==
  ASSUME NEW S, NEW s \in Seq(S), Once(s), NEW j \in S,
         NEW I \in SUBSET DOMAIN s, \A i \in DOMAIN s : i \in I <=> s[i] = j
  PROVE  /\ Elements(<<j>> \o Drop(s, I)) = Elements(s) \cup {j}
         /\ Once(<<j>> \o Drop(s, I))
<1>1. PICK r \in Seq(S) : r = Drop(s, I)
  BY DropType, Zenon
<1>0. <<j>> \in Seq(S) /\ Len(<<j>>) = 1 /\ <<j>>[1] = j
  OBVIOUS
<1>2. PICK m \in Seq(S) : m = <<j>> \o r
  BY <1>0, ConcatEntries, Zenon
<1>3. /\ Len(m) = Len(r) + 1 /\ m[1] = j /\ Len(r) \in Nat
      /\ \A k \in 1 .. Len(r) : m[k + 1] = r[k]
  <2>1. PICK h \in Seq(S) : h = <<j>> /\ Len(h) = 1 /\ h[1] = j
    BY <1>0, Zenon
  <2>2. /\ Len(m) = Len(h) + Len(r) /\ Len(r) \in Nat
        /\ \A k \in 1 .. Len(h) : m[k] = h[k]
        /\ \A k \in 1 .. Len(r) : m[Len(h) + k] = r[k]
    BY <1>2, <2>1, ConcatEntries
  <2> QED BY <2>1, <2>2
<1>4. /\ \A k \in DOMAIN r : r[k] # j /\ r[k] \in Elements(s)
      /\ \A x \in Elements(s) : x # j => x \in Elements(r)
      /\ Once(r)
  <2>1. CASE I = {}
    <3>1. r = s
      BY <1>1, <2>1 DEF Drop
    <3>2. \A k \in DOMAIN s : s[k] # j
      BY <2>1, Zenon
    <3> QED BY <3>1, <3>2 DEF Elements
  <2>2. CASE I # {}
    <3>1. PICK i \in I :
            /\ Len(r) = Len(s) - 1
            /\ \A k \in 1 .. Len(s) - 1 : r[k] = IF k < i THEN s[k] ELSE s[k + 1]
      BY <1>1, <2>2, DropEntries, Zenon
    <3>2. i \in 1 .. Len(s) /\ s[i] = j /\ Len(s) \in Nat
      OBVIOUS
    <3>3. \A k \in 1 .. Len(s) : s[k] = j => k = i
      BY <3>2 DEF Once
    <3>4. ASSUME NEW k \in DOMAIN r PROVE r[k] # j /\ r[k] \in Elements(s)
      <4>1. k \in 1 .. Len(s) - 1
        BY <3>1
      <4>2. PICK l \in 1 .. Len(s) : l # i /\ r[k] = s[l]
        <5>1. CASE k < i
          <6>1. k \in 1 .. Len(s) /\ k # i /\ r[k] = s[k]
            BY <3>1, <3>2, <4>1, <5>1
          <6> QED BY <6>1, Zenon
        <5>2. CASE ~(k < i)
          <6>1. k + 1 \in 1 .. Len(s) /\ k + 1 # i /\ r[k] = s[k + 1]
            BY <3>1, <3>2, <4>1, <5>2
          <6> QED BY <6>1, Zenon
        <5> QED BY <5>1, <5>2, Zenon
      <4> QED BY <3>3, <4>2 DEF Elements
    <3>5. ASSUME NEW k \in DOMAIN r, NEW l \in DOMAIN r, r[k] = r[l] PROVE k = l
      <4>1. k \in 1 .. Len(s) - 1 /\ l \in 1 .. Len(s) - 1
        BY <3>1
      <4> DEFINE Place(n) == IF n < i THEN n ELSE n + 1
      <4>2. ASSUME NEW n \in 1 .. Len(s) - 1 PROVE Place(n) \in DOMAIN s /\ r[n] = s[Place(n)]
        <5>1. r[n] = IF n < i THEN s[n] ELSE s[n + 1]
          BY <3>1
        <5> QED BY <3>2, <5>1
      <4>3. Place(k) = Place(l)
        <5> HIDE DEF Place
        <5> QED BY <3>5, <4>1, <4>2, Zenon DEF Once
      <4> QED BY <3>2, <4>1, <4>3
    <3>6. ASSUME NEW n \in 1 .. Len(s), s[n] # j PROVE s[n] \in Elements(r)
      <4>1. n # i
        BY <3>2, <3>6
      <4>2. CASE n < i
        BY <3>1, <3>2, <4>2 DEF Elements
      <4>3. CASE n > i
        <5>1. n - 1 \in 1 .. Len(s) - 1 /\ r[n - 1] = s[n]
          BY <3>1, <3>2, <4>3
        <5> QED BY <3>1, <5>1 DEF Elements
      <4> QED BY <3>2, <4>1, <4>2, <4>3
    <3>7. \A x \in Elements(s) : x # j => x \in Elements(r)
      <4>1. DOMAIN s = 1 .. Len(s)
        OBVIOUS
      <4> QED BY <3>6, <4>1, Zenon DEF Elements
    <3> QED BY <3>4, <3>5, <3>7, Zenon DEF Once
  <2> QED BY <2>1, <2>2
<1>5. Elements(m) = Elements(s) \cup {j}
  <2>1. ASSUME NEW x \in Elements(m) PROVE x \in Elements(s) \cup {j}
    <3>1. PICK k \in 1 .. Len(r) + 1 : x = m[k]
      BY <1>3 DEF Elements
    <3>2. CASE k = 1
      BY <1>3, <3>1, <3>2
    <3>3. CASE k # 1
      <4>1. k - 1 \in 1 .. Len(r) /\ m[k] = r[k - 1]
        BY <1>3, <3>1, <3>3
      <4> QED BY <1>4, <3>1, <4>1
    <3> QED BY <3>2, <3>3
  <2>2. j \in Elements(m)
    BY <1>3 DEF Elements
  <2>3. ASSUME NEW x \in Elements(r) PROVE x \in Elements(m)
    <3>1. PICK k \in 1 .. Len(r) : x = r[k]
      <4>1. DOMAIN r = 1 .. Len(r)
        OBVIOUS
      <4> QED BY <4>1, Zenon DEF Elements
    <3>2. k + 1 \in DOMAIN m /\ m[k + 1] = x
      BY <1>2, <1>3, <3>1
    <3> QED BY <3>2 DEF Elements
  <2> QED BY <1>4, <2>1, <2>2, <2>3
<1>6. Once(m)
  <2>1. SUFFICES ASSUME NEW k \in 1 .. Len(r) + 1, NEW l \in 1 .. Len(r) + 1, m[k] = m[l]
                 PROVE  k = l
    BY <1>2, <1>3 DEF Once
  <2>2. k # 1 => k - 1 \in 1 .. Len(r) /\ m[k] = r[k - 1]
    BY <1>3
  <2>3. l # 1 => l - 1 \in 1 .. Len(r) /\ m[l] = r[l - 1]
    BY <1>3
  <2>4. CASE k = 1 \/ l = 1
    BY <1>1, <1>3, <1>4, <2>1, <2>2, <2>3, <2>4
  <2>5. CASE k # 1 /\ l # 1
    <3>1. k - 1 = l - 1
      BY <1>1, <1>4, <2>1, <2>2, <2>3, <2>5 DEF Once
    <3> QED BY <3>1
  <2> QED BY <2>4, <2>5
<1> QED BY <1>1, <1>2, <1>5, <1>6

--------------------------------------------------------------------------------
(* The invariant *)

Slots == {"at", "job", "draft", "bundle", "listed", "todo", "done", "keep", "next"}
Reads == {"receipt", "record", "ledger"}
Locked == {"publish", "pages", "prune", "reconcile"}

Shaped ==
  DOMAIN threads = Threads /\ \A t \in Threads : DOMAIN threads[t] = Slots

\* projection.json is never ahead of the record.
WorldOK ==
  /\ record \in [Jobs -> Revisions \cup {Absent}]
  /\ recent \in Seq(Submitted)
  /\ DOMAIN file = Jobs
  /\ \A j \in Jobs : file[j] # Absent =>
       /\ file[j] \in Bundle /\ Ordered(file[j])
       /\ j \in Submitted /\ file[j].status <= record[j]
  /\ lock \in Threads \cup {Absent}
  /\ CatalogReadable

\* Where a thread may be with the lock and without it, and that it is at a job
\* wherever it reads one.
Control(t) ==
  /\ threads[t].next \in {"answer", "retrieve", "recover", "serve"}
  /\ threads[t].next = "serve" =>
       /\ t = "listener" /\ lock = t
       /\ \/ threads[t].at \in {"reconcile", "pages", "prune"}
          \/ threads[t].at \in Reads /\ threads[t].todo # <<>>
  /\ threads[t].at \in Locked => lock = t
  /\ lock = t => threads[t].at \in Reads \cup Locked
  /\ threads[t].todo \in Seq(Submitted)
  /\ threads[t].todo # <<>> => lock = t
  /\ \/ threads[t].at \in {"submitted", "lock", "publish"}
     \/ threads[t].at \in Reads /\ threads[t].todo = <<>>
     \/ threads[t].next = "retrieve"
     => threads[t].job \in Submitted

\* What is published is not older than the file it replaces.
Fresh(b) == file[b.job] # Absent => file[b.job].status <= b.status

\* What a thread has read so far.
Drafted(t) ==
  /\ threads[t].at \in {"record", "ledger"} =>
       /\ threads[t].draft \in Bundle /\ threads[t].draft.job = Reading(t)
       /\ threads[t].draft.receipt => record[Reading(t)] = Final
  /\ threads[t].at = "ledger" =>
       /\ threads[t].draft.status <= record[Reading(t)]
       /\ threads[t].draft.receipt => threads[t].draft.status = Final
       /\ lock = t /\ threads[t].todo = <<>> => Fresh(threads[t].draft)

\* The bundle it is about to publish.
Bundled(t) ==
  /\ threads[t].at \in {"idle", "submitted", "recover"} => threads[t].bundle = NoBundle
  /\ threads[t].bundle # NoBundle =>
       /\ threads[t].bundle \in Bundle /\ Ordered(threads[t].bundle)
       /\ threads[t].bundle.job = threads[t].job /\ threads[t].job \in Submitted
       /\ threads[t].bundle.status <= record[threads[t].job]
  /\ threads[t].at = "publish" =>
       threads[t].bundle # NoBundle /\ Fresh(threads[t].bundle)

\* The catalog it has listed, and that it keeps the one that is named.
Cataloged(t) ==
  /\ \A b \in threads[t].listed : Ordered(b)
  /\ threads[t].at = "prune" => catalog \in threads[t].keep

ThreadOK(t) == Control(t) /\ Drafted(t) /\ Bundled(t) /\ Cataloged(t)

PublicInv ==
  /\ Shaped /\ WorldOK
  /\ \A t \in Threads : ThreadOK(t)
  /\ broker = "down" => threads["listener"].at = "idle"

LEMMA BundleStatus ==
  \A b \in Bundle : b.status \in Nat
BY DEF Bundle, Revisions, Pending, Running, Final

--------------------------------------------------------------------------------
(* How a step moves a thread and changes the store *)

LEMMA GoesTo ==
  ASSUME PublicInv, NEW t \in Threads, NEW c, DOMAIN c \subseteq Slots, Goes(t, c)
  PROVE  /\ Shaped'
         /\ \A f \in Slots : threads'[t][f] = IF f \in DOMAIN c THEN c[f] ELSE threads[t][f]
         /\ \A u \in Threads : u # t => threads'[u] = threads[u]
BY DEF PublicInv, Shaped, Goes, With

LEMMA GoesListing ==
  ASSUME PublicInv, NEW t \in Threads, NEW a, NEW l, NEW d, NEW q,
         Goes(t, [at |-> a, listed |-> l, draft |-> d, todo |-> q])
  PROVE  /\ \A u \in Threads : u # t => threads'[u] = threads[u]
         /\ threads'[t].at = a /\ threads'[t].listed = l
         /\ \A f \in {"done", "next", "bundle"} : threads'[t][f] = threads[t][f]
BY GoesTo DEF Slots

LEMMA GoesReady ==
  ASSUME PublicInv, NEW t \in Threads, NEW a, NEW d, NEW b,
         Goes(t, [at |-> a, draft |-> d, bundle |-> b])
  PROVE  /\ \A u \in Threads : u # t => threads'[u] = threads[u]
         /\ threads'[t].at = a
         /\ \A f \in {"done", "listed"} : threads'[t][f] = threads[t][f]
BY GoesTo DEF Slots

LEMMA RestingFields ==
  /\ Resting.listed = {} /\ Resting.done = <<>> /\ Resting.todo = <<>>
  /\ Resting.at \notin {"pages", "prune", "reconcile"}
BY DEF Resting

\* A record is never removed and never goes back.
Grows ==
  /\ record' \in [Jobs -> Revisions \cup {Absent}] /\ recent' \in Seq(Submitted')
  /\ Submitted \subseteq Submitted'
  /\ \A j \in Submitted : record'[j] >= record[j] /\ (record[j] = Final => record'[j] = Final)

LEMMA CommitGrows ==
  ASSUME WorldOK, NEW j \in Jobs, NEW r \in Revisions, Commit(j, r),
         record[j] = Absent \/ (record[j] \in Nat /\ record[j] < r)
  PROVE  Grows /\ j \in Submitted' /\ record'[j] = r
<1>1. record' \in [Jobs -> Revisions \cup {Absent}] /\ record'[j] = r
  BY DEF WorldOK, Commit
<1>2. \A k \in Submitted : record'[k] >= record[k] /\ (record[k] = Final => record'[k] = Final)
  BY <1>1 DEF WorldOK, Commit, Submitted, Revisions, Pending, Running, Final
<1>3. Submitted \subseteq Submitted' /\ j \in Submitted'
  BY <1>1, AbsentIsNothing DEF WorldOK, Commit, Submitted
<1>4. recent \in Seq(Submitted')
  BY <1>3 DEF WorldOK
<1>5. recent' \in Seq(Submitted')
  <2> DEFINE I == {i \in DOMAIN recent : recent[i] = j}
  <2>1. recent' = <<j>> \o Drop(recent, I) /\ I \in SUBSET DOMAIN recent
    BY DEF Commit
  <2> HIDE DEF I
  <2> QED BY <1>3, <1>4, <2>1, MovedToFront
<1> QED BY <1>1, <1>2, <1>3, <1>5 DEF Grows

LEMMA SameStoreGrows ==
  ASSUME WorldOK, UNCHANGED store
  PROVE  Grows /\ Submitted' = Submitted
BY DEF WorldOK, Grows, Submitted, store, Revisions, Pending, Running, Final

LEMMA QuietWorld ==
  ASSUME WorldOK, Grows, UNCHANGED <<file, catalog, pages>>,
         lock' \in Threads \cup {Absent}
  PROVE  WorldOK'
<1>1. \A j \in Jobs : file[j] # Absent => j \in Submitted' /\ file[j].status <= record'[j]
  <2> SUFFICES ASSUME NEW j \in Jobs, file[j] # Absent
               PROVE  j \in Submitted' /\ file[j].status <= record'[j]
    OBVIOUS
  <2>1. /\ j \in Submitted /\ j \in Submitted' /\ file[j].status <= record[j]
        /\ record'[j] >= record[j] /\ file[j] \in Bundle
    BY DEF WorldOK, Grows
  <2>2. record[j] \in Revisions /\ record'[j] \in Revisions /\ file[j].status \in Revisions
    BY <2>1 DEF WorldOK, Grows, Submitted, Bundle
  <2> QED BY <2>1, <2>2 DEF Revisions, Pending, Running, Final
<1> QED BY <1>1 DEF WorldOK, Grows, CatalogReadable, Whole, Ordered

\* A step of one thread leaves what the other relies on: it changes the public
\* files only with the lock, and takes the lock only when it is free.
Alone(t) ==
  /\ \A u \in Threads : u # t => threads'[u] = threads[u]
  /\ Grows
  /\ lock = t \/ (file' = file /\ catalog' = catalog)
  /\ lock' = lock \/ (lock \in {t, Absent} /\ lock' \in {t, Absent})

LEMMA OtherThread ==
  ASSUME PublicInv, NEW t \in Threads, Alone(t), NEW u \in Threads, u # t
  PROVE  ThreadOK(u)'
<1>1. /\ threads'[u] = threads[u] /\ ThreadOK(u) /\ u # Absent
      /\ lock = u <=> lock' = u
      /\ lock = u => file' = file /\ catalog' = catalog
      /\ Reading(u)' = Reading(u)
  BY AbsentIsNothing DEF PublicInv, Alone, Reading
<1>2. \A j \in Submitted :
        /\ j \in Submitted' /\ record[j] \in Nat /\ record'[j] \in Nat
        /\ record'[j] >= record[j] /\ (record[j] = Final => record'[j] = Final)
  BY DEF PublicInv, Alone, Grows, WorldOK, Submitted, Revisions, Pending, Running, Final
<1>3. Control(u)'
  <2>1. threads[u].todo \in Seq(Submitted')
    BY <1>1, <1>2 DEF ThreadOK, Control
  <2> QED BY <1>1, <1>2, <2>1 DEF ThreadOK, Control
<1>4. threads[u].at \in Reads => Reading(u) \in Submitted
  BY <1>1 DEF ThreadOK, Control, Reading
<1>5. \A b \in Bundle : b.status \in Nat
  BY BundleStatus, Zenon
<1>6. Drafted(u)'
  BY <1>1, <1>2, <1>4, <1>5 DEF ThreadOK, Drafted, Reads, Fresh
<1>7. Bundled(u)'
  <2>1. threads[u].at = "publish" => lock = u
    BY <1>1 DEF ThreadOK, Control, Locked
  <2> QED BY <1>1, <1>2, <1>5, <2>1 DEF ThreadOK, Bundled, Fresh, Ordered
<1>8. Cataloged(u)'
  <2>1. threads[u].at = "prune" => lock = u
    BY <1>1 DEF ThreadOK, Control, Locked
  <2> QED BY <1>1, <2>1 DEF ThreadOK, Cataloged, Ordered
<1> QED BY <1>3, <1>6, <1>7, <1>8 DEF ThreadOK

LEMMA OneMoves ==
  ASSUME PublicInv, NEW t \in Threads, Alone(t), Shaped', WorldOK', ThreadOK(t)',
         broker' = "down" => threads'["listener"].at = "idle"
  PROVE  PublicInv'
BY OtherThread DEF PublicInv

LEMMA NothingMoves ==
  ASSUME PublicInv, UNCHANGED <<threads, lock, record, file, catalog>>
  PROVE  \A u \in Threads : ThreadOK(u)'
<1> SUFFICES ASSUME NEW u \in Threads PROVE ThreadOK(u)'
  OBVIOUS
<1>1. ThreadOK(u) /\ Submitted' = Submitted /\ Reading(u)' = Reading(u)
  BY DEF PublicInv, Submitted, Reading
<1>2. Control(u)' /\ Cataloged(u)'
  BY <1>1, Zenon DEF ThreadOK, Control, Cataloged, Ordered
<1>3. Drafted(u)' /\ Bundled(u)'
  BY <1>1 DEF ThreadOK, Drafted, Bundled, Fresh, Ordered
<1> QED BY <1>2, <1>3 DEF ThreadOK

--------------------------------------------------------------------------------
(* Where a thread begins and where it ends *)

\* A thread that is done, or goes on to read a job again, without the lock.
LEMMA FreeOK ==
  ASSUME NEW t \in Threads, lock' # t,
         threads'[t].at \in {"idle", "receipt", "recover"},
         threads'[t].todo = <<>>, threads'[t].bundle = NoBundle,
         threads'[t].listed = {}, threads'[t].next \in {"answer", "recover"},
         threads'[t].at = "receipt" => threads'[t].job \in Submitted'
  PROVE  ThreadOK(t)'
<1>1. Control(t)'
  BY DEF Control, Reads, Locked
<1> QED BY <1>1 DEF ThreadOK, Drafted, Bundled, Cataloged

LEMMA RestsOK ==
  ASSUME PublicInv, NEW t \in Threads, lock' = Absent,
         threads' = [threads EXCEPT ![t] = Resting]
  PROVE  Shaped' /\ ThreadOK(t)' /\ threads'[t].at = "idle"
         /\ \A u \in Threads : u # t => threads'[u] = threads[u]
<1>1. /\ threads'[t] = Resting /\ lock' # t
      /\ \A u \in Threads : u # t => threads'[u] = threads[u]
  BY AbsentIsNothing DEF PublicInv, Shaped
<1>2. Shaped'
  BY <1>1 DEF PublicInv, Shaped, Resting, Slots
<1> QED BY <1>1, <1>2, FreeOK DEF Resting

LEMMA LeavesOK ==
  ASSUME PublicInv, NEW t \in Threads, threads[t].next # "serve", Leaves(t), Grows
  PROVE  Shaped' /\ ThreadOK(t)' /\ lock' = Absent
         /\ \A u \in Threads : u # t => threads'[u] = threads[u]
<1>1. /\ threads'[t] = After(threads[t]) /\ lock' = Absent /\ lock' # t
      /\ \A u \in Threads : u # t => threads'[u] = threads[u]
      /\ DOMAIN threads' = Threads
  BY AbsentIsNothing DEF PublicInv, Shaped, Leaves
<1>2. /\ threads[t].next \in {"answer", "retrieve", "recover"}
      /\ threads[t].next = "retrieve" => threads[t].job \in Submitted'
  BY DEF PublicInv, ThreadOK, Control, Grows
<1>3. CASE threads[t].next = "answer"
  <2>1. threads'[t] = Resting
    BY <1>1, <1>3, Zenon DEF After
  <2>2. Shaped'
    BY <1>1, <2>1 DEF PublicInv, Shaped, Resting, Slots
  <2> QED BY <1>1, <2>1, <2>2, FreeOK DEF Resting
<1>4. CASE threads[t].next = "retrieve"
  <2>1. threads'[t] = [Resting EXCEPT !.at = "receipt", !.job = threads[t].job]
    BY <1>1, <1>4 DEF After
  <2>2. Shaped'
    BY <1>1, <2>1, Zenon DEF PublicInv, Shaped, Resting, Slots
  <2> QED BY <1>1, <1>2, <1>4, <2>1, <2>2, FreeOK, Zenon DEF Resting
<1>5. CASE threads[t].next = "recover"
  <2>1. threads'[t] = [Resting EXCEPT !.at = "recover", !.next = "recover"]
    BY <1>1, <1>5 DEF After
  <2>2. Shaped'
    BY <1>1, <2>1, Zenon DEF PublicInv, Shaped, Resting, Slots
  <2> QED BY <1>1, <2>1, <2>2, FreeOK, Zenon DEF Resting
<1> QED BY <1>2, <1>3, <1>4, <1>5

\* A thread of a process that is down does not hold the lock as the listener.
LEMMA DownIsIdle ==
  ASSUME PublicInv, NEW t \in Threads, threads[t].at # "idle",
         \A u \in Threads : u # t => threads'[u] = threads[u], broker' = broker
  PROVE  broker' = "down" => threads'["listener"].at = "idle"
BY DEF PublicInv, Threads

LEMMA CatalogFailsOK ==
  ASSUME PublicInv, NEW t \in Threads, lock = t, CatalogFails(t), Grows
  PROVE  /\ Shaped' /\ ThreadOK(t)' /\ lock' = Absent
         /\ \A u \in Threads : u # t => threads'[u] = threads[u]
         /\ broker' = "down" => threads'["listener"].at = "idle"
<1>1. threads[t].at # "idle"
  BY DEF PublicInv, ThreadOK, Control, Reads, Locked
<1>2. CASE threads[t].next # "serve"
  <2>1. Leaves(t) /\ broker' = broker
    BY <1>2 DEF CatalogFails
  <2> QED BY <1>1, <1>2, <2>1, LeavesOK, DownIsIdle
<1>3. CASE threads[t].next = "serve"
  <2>1. t = "listener" /\ lock' = Absent /\ threads' = [threads EXCEPT ![t] = Resting]
    BY <1>3 DEF CatalogFails, PublicInv, ThreadOK, Control
  <2> QED BY <2>1, RestsOK, Zenon
<1> QED BY <1>2, <1>3

\* A handler that takes up a job.
LEMMA BeginsOK ==
  ASSUME PublicInv, NEW t \in Threads, NEW j, j \in Submitted', Grows,
         threads[t].at \in {"idle", "recover"},
         Shaped', \A u \in Threads : u # t => threads'[u] = threads[u],
         threads'[t].at \in {"submitted", "lock", "receipt"}, threads'[t].job = j,
         threads'[t].next \in {"answer", "retrieve", "recover"},
         \A f \in {"bundle", "listed", "todo"} : threads'[t][f] = threads[t][f],
         UNCHANGED <<file, catalog, pages, lock, broker>>,
         broker # "down"
  PROVE  PublicInv'
<1>1. Alone(t) /\ WorldOK'
  BY QuietWorld, Zenon DEF Alone, PublicInv, WorldOK
<1>2. lock # t /\ threads[t].todo = <<>> /\ threads[t].bundle = NoBundle
  BY DEF PublicInv, ThreadOK, Control, Bundled, Reads, Locked
<1>3. /\ threads'[t].todo = <<>> /\ threads'[t].bundle = NoBundle
      /\ threads'[t].listed = threads[t].listed
  BY <1>2
<1>4. Control(t)' /\ Drafted(t)' /\ Bundled(t)'
  <2>1. Control(t)'
    BY <1>2, <1>3 DEF Control, Reads, Locked
  <2>2. Drafted(t)' /\ Bundled(t)'
    BY <1>3 DEF Drafted, Bundled
  <2> QED BY <2>1, <2>2
<1>5. Cataloged(t)'
  BY <1>3 DEF PublicInv, ThreadOK, Cataloged, Ordered
<1> QED BY <1>1, <1>4, <1>5, OneMoves, Zenon DEF ThreadOK

--------------------------------------------------------------------------------
(* The handlers *)

LEMMA SubmitKeeps ==
  ASSUME PublicInv, NEW j \in Jobs, Submit(j)
  PROVE  PublicInv'
<1> DEFINE t == "listener"
<1>1. t \in Threads /\ threads[t].at = "idle" /\ broker # "down"
      /\ UNCHANGED <<file, catalog, pages, lock, broker>>
  BY DEF Submit, At, Threads, disk
<1>2. PICK r \in Revisions :
        /\ Commit(j, r)
        /\ Goes(t, [at |-> IF r = Running THEN "submitted" ELSE "lock",
                    job |-> j, next |-> "retrieve"])
  BY DEF Submit, Revisions
<1>3. Grows /\ j \in Submitted'
  BY <1>2, CommitGrows DEF Submit, PublicInv
<1>4. /\ Shaped' /\ \A u \in Threads : u # t => threads'[u] = threads[u]
      /\ threads'[t].at \in {"submitted", "lock"} /\ threads'[t].job = j
      /\ threads'[t].next = "retrieve"
      /\ \A f \in {"bundle", "listed", "todo"} : threads'[t][f] = threads[t][f]
  BY <1>1, <1>2, GoesTo DEF Slots
<1> QED BY <1>1, <1>3, <1>4, BeginsOK

LEMMA SubmittedStatusKeeps ==
  ASSUME PublicInv, SubmittedStatus
  PROVE  PublicInv'
<1> DEFINE t == "listener"
<1>1. /\ t \in Threads /\ threads[t].at = "submitted"
      /\ UNCHANGED <<file, catalog, pages, lock, broker>>
      /\ UNCHANGED store
  BY DEF SubmittedStatus, At, Threads, disk
<1>2. /\ Grows /\ lock # t /\ threads[t].todo = <<>> /\ threads[t].bundle = NoBundle
      /\ threads[t].job \in Submitted' /\ threads[t].next \in {"answer", "retrieve", "recover"}
  BY <1>1, SameStoreGrows DEF PublicInv, ThreadOK, Control, Bundled, Reads, Locked
<1>3. CASE Goes(t, [at |-> "lock"])
  <2>1. /\ Shaped' /\ \A u \in Threads : u # t => threads'[u] = threads[u]
        /\ threads'[t].at = "lock"
        /\ \A f \in Slots \ {"at"} : threads'[t][f] = threads[t][f]
    BY <1>1, <1>3, GoesTo DEF Slots
  <2>2. /\ threads'[t].next = threads[t].next /\ threads'[t].todo = threads[t].todo
        /\ threads'[t].job = threads[t].job /\ threads'[t].bundle = threads[t].bundle
        /\ threads'[t].listed = threads[t].listed
    BY <2>1 DEF Slots
  <2>3. Control(t)'
    BY <1>1, <1>2, <2>1, <2>2 DEF Control, Reads, Locked
  <2>4. Drafted(t)' /\ Bundled(t)'
    BY <1>2, <2>1, <2>2, Zenon DEF Drafted, Bundled
  <2>5. Cataloged(t)'
    BY <1>1, <2>1, <2>2, Zenon DEF PublicInv, ThreadOK, Cataloged, Ordered
  <2>6. Alone(t) /\ WorldOK'
    BY <1>1, <1>2, <2>1, QuietWorld, Zenon DEF Alone, PublicInv, WorldOK
  <2> QED BY <1>1, <2>1, <2>3, <2>4, <2>5, <2>6, OneMoves, DownIsIdle DEF ThreadOK
<1>4. CASE Goes(t, Resting)
  <2>1. /\ Shaped' /\ \A u \in Threads : u # t => threads'[u] = threads[u]
        /\ threads'[t].at = "idle" /\ threads'[t].todo = <<>> /\ threads'[t].bundle = NoBundle
        /\ threads'[t].listed = {} /\ threads'[t].next = "answer"
    BY <1>1, <1>4, GoesTo DEF Slots, Resting
  <2>2. ThreadOK(t)'
    BY <1>1, <1>2, <2>1, FreeOK, Zenon
  <2>3. Alone(t) /\ WorldOK'
    BY <1>1, <1>2, <2>1, QuietWorld, Zenon DEF Alone, PublicInv, WorldOK
  <2> QED BY <1>1, <2>1, <2>2, <2>3, OneMoves, Zenon
<1> QED BY <1>3, <1>4 DEF SubmittedStatus

LEMMA ApproveKeeps ==
  ASSUME PublicInv, NEW j \in Jobs, Approve(j)
  PROVE  PublicInv'
<1> DEFINE t == "listener"
<1>1. t \in Threads /\ threads[t].at = "idle" /\ broker # "down"
      /\ UNCHANGED <<file, catalog, pages, lock, broker>>
  BY Zenon DEF Approve, At, Threads, disk
<1>2. Grows /\ j \in Submitted'
  BY CommitGrows DEF Approve, PublicInv, Revisions, Pending, Running
<1>3. /\ Shaped' /\ \A u \in Threads : u # t => threads'[u] = threads[u]
      /\ threads'[t].at = "receipt" /\ threads'[t].job = j /\ threads'[t].next = "answer"
      /\ \A f \in {"bundle", "listed", "todo"} : threads'[t][f] = threads[t][f]
  <2>1. Goes(t, [at |-> "receipt", job |-> j, next |-> "answer"])
    BY DEF Approve
  <2> QED BY <1>1, <2>1, GoesTo DEF Slots
<1> QED BY <1>1, <1>2, <1>3, BeginsOK, Zenon

LEMMA RetrieveKeeps ==
  ASSUME PublicInv, NEW j \in Jobs, Retrieve(j)
  PROVE  PublicInv'
<1> DEFINE t == "listener"
<1>1. t \in Threads /\ threads[t].at = "idle" /\ broker # "down"
      /\ UNCHANGED <<file, catalog, pages, lock, broker>>
  BY DEF Retrieve, At, Threads, disk
<1>2. Grows /\ j \in Submitted'
  BY SameStoreGrows DEF Retrieve, PublicInv, Submitted
<1>3. /\ Shaped' /\ \A u \in Threads : u # t => threads'[u] = threads[u]
      /\ threads'[t].at = "receipt" /\ threads'[t].job = j /\ threads'[t].next = "answer"
      /\ \A f \in {"bundle", "listed", "todo"} : threads'[t][f] = threads[t][f]
  <2>1. Goes(t, [at |-> "receipt", job |-> j, next |-> "answer"])
    BY DEF Retrieve
  <2> QED BY <1>1, <2>1, GoesTo DEF Slots
<1> QED BY <1>1, <1>2, <1>3, BeginsOK

LEMMA ExecuteKeeps ==
  ASSUME PublicInv, NEW j \in Jobs, Execute(j)
  PROVE  PublicInv'
<1> DEFINE t == "worker"
<1>1. t \in Threads /\ threads[t].at = "idle" /\ broker # "down"
      /\ UNCHANGED <<file, catalog, pages, lock, broker>>
  BY Zenon DEF Execute, At, Threads, disk
<1>2. Grows /\ j \in Submitted'
  BY CommitGrows DEF Execute, PublicInv, Revisions, Running, Final
<1>3. /\ Shaped' /\ \A u \in Threads : u # t => threads'[u] = threads[u]
      /\ threads'[t].at = "receipt" /\ threads'[t].job = j /\ threads'[t].next = "answer"
      /\ \A f \in {"bundle", "listed", "todo"} : threads'[t][f] = threads[t][f]
  <2>1. Goes(t, [at |-> "receipt", job |-> j, next |-> "answer"])
    BY Zenon DEF Execute
  <2> QED BY <1>1, <2>1, GoesTo DEF Slots
<1> QED BY <1>1, <1>2, <1>3, BeginsOK

--------------------------------------------------------------------------------
(* The three reads and the lock *)

LEMMA ReadsSubmitted ==
  ASSUME PublicInv, NEW t \in Threads, threads[t].at \in Reads
  PROVE  Reading(t) \in Submitted /\ Reading(t) \in Jobs
         /\ record[Reading(t)] \in Revisions
<1>1. Reading(t) \in Submitted
  BY DEF PublicInv, ThreadOK, Control, Reading
<1> QED BY <1>1, Zenon DEF PublicInv, WorldOK, Submitted

LEMMA ReadReceiptKeeps ==
  ASSUME PublicInv, NEW t \in Threads, ReadReceipt(t)
  PROVE  PublicInv'
<1> DEFINE d == [NoBundle EXCEPT !.job = Reading(t), !.receipt = HasReceipt(Reading(t))]
<1>1. /\ threads[t].at = "receipt"
      /\ UNCHANGED store /\ UNCHANGED <<file, catalog, pages, lock, broker>>
      /\ Goes(t, [at |-> "record", draft |-> d])
  BY DEF ReadReceipt, At, disk
<1>2. /\ Shaped' /\ \A u \in Threads : u # t => threads'[u] = threads[u]
      /\ threads'[t].at = "record" /\ threads'[t].draft = d
      /\ \A f \in Slots \ {"at", "draft"} : threads'[t][f] = threads[t][f]
  <2> HIDE DEF d
  <2> QED BY <1>1, GoesTo DEF Slots
<1>3. /\ threads'[t].next = threads[t].next /\ threads'[t].todo = threads[t].todo
      /\ threads'[t].job = threads[t].job /\ threads'[t].bundle = threads[t].bundle
      /\ threads'[t].listed = threads[t].listed /\ Reading(t)' = Reading(t)
  BY <1>2 DEF Slots, Reading
<1>4. Grows /\ Submitted' = Submitted /\ record' = record
  BY <1>1, SameStoreGrows DEF PublicInv, store
<1>5. Reading(t) \in Jobs
  BY <1>1, ReadsSubmitted DEF Reads
<1>6. d \in Bundle /\ d.job = Reading(t) /\ (d.receipt => record[Reading(t)] = Final)
  BY <1>5, Zenon DEF NoBundle, Bundle, HasReceipt, Revisions
<1>7. Control(t)'
  BY <1>1, <1>2, <1>3, <1>4, Zenon DEF PublicInv, ThreadOK, Control, Reads, Locked
<1>8. Drafted(t)'
  <2> HIDE DEF d
  <2> QED BY <1>2, <1>3, <1>4, <1>6 DEF Drafted
<1>9. Bundled(t)' /\ Cataloged(t)'
  BY <1>1, <1>2, <1>3, <1>4 DEF PublicInv, ThreadOK, Bundled, Cataloged, Ordered
<1>10. Alone(t) /\ WorldOK'
  BY <1>1, <1>2, <1>4, QuietWorld, Zenon DEF Alone, PublicInv, WorldOK
<1> QED BY <1>1, <1>2, <1>7, <1>8, <1>9, <1>10, OneMoves, DownIsIdle DEF ThreadOK

LEMMA ReadRecordKeeps ==
  ASSUME PublicInv, NEW t \in Threads, ReadRecord(t)
  PROVE  PublicInv'
<1>0. PICK d : d = [threads[t].draft EXCEPT !.status = record[Reading(t)]]
  BY Zenon
<1>1. /\ threads[t].at = "record"
      /\ UNCHANGED store /\ UNCHANGED <<file, catalog, pages, lock, broker>>
      /\ Goes(t, [at |-> "ledger", draft |-> d])
      /\ (threads[t].draft.receipt => record[Reading(t)] = Final)
  BY <1>0, Zenon DEF ReadRecord, At, disk, StatusFits
<1>2. /\ Shaped' /\ \A u \in Threads : u # t => threads'[u] = threads[u]
      /\ threads'[t].at = "ledger" /\ threads'[t].draft = d
      /\ \A f \in Slots \ {"at", "draft"} : threads'[t][f] = threads[t][f]
  BY <1>1, GoesTo DEF Slots
<1>3. /\ threads'[t].next = threads[t].next /\ threads'[t].todo = threads[t].todo
      /\ threads'[t].job = threads[t].job /\ threads'[t].bundle = threads[t].bundle
      /\ threads'[t].listed = threads[t].listed /\ Reading(t)' = Reading(t)
  BY <1>2 DEF Slots, Reading
<1>4. Grows /\ Submitted' = Submitted /\ record' = record
  BY <1>1, SameStoreGrows DEF PublicInv, store
<1>5. Reading(t) \in Jobs /\ record[Reading(t)] \in Revisions
  BY <1>1, ReadsSubmitted, Zenon DEF Reads
<1>6. threads[t].draft \in Bundle /\ threads[t].draft.job = Reading(t)
  BY <1>1 DEF PublicInv, ThreadOK, Drafted
<1>7. d \in Bundle /\ d.job = Reading(t) /\ d.receipt = threads[t].draft.receipt
      /\ d.status = record[Reading(t)]
  BY <1>0, <1>5, <1>6, Zenon DEF Bundle
<1>8. Fresh(d)'
  BY <1>1, <1>5, <1>7, <1>4, Zenon DEF Fresh, PublicInv, WorldOK
<1>9. Control(t)'
  BY <1>1, <1>2, <1>3, <1>4, Zenon DEF PublicInv, ThreadOK, Control, Reads, Locked
<1>10. Drafted(t)'
  <2>1. record[Reading(t)] <= record[Reading(t)]
    BY <1>5 DEF Revisions, Pending, Running, Final
  <2> QED BY <1>1, <1>2, <1>3, <1>4, <1>7, <1>8, <2>1 DEF Drafted, Fresh
<1>11. Bundled(t)' /\ Cataloged(t)'
  BY <1>1, <1>2, <1>3, <1>4, Zenon DEF PublicInv, ThreadOK, Bundled, Cataloged, Ordered
<1>12. Alone(t) /\ WorldOK'
  BY <1>1, <1>2, <1>4, QuietWorld, Zenon DEF Alone, PublicInv, WorldOK
<1> QED BY <1>1, <1>2, <1>9, <1>10, <1>11, <1>12, OneMoves, DownIsIdle DEF ThreadOK

LEMMA ReadLedgerKeeps ==
  ASSUME PublicInv, NEW t \in Threads, ReadLedger(t)
  PROVE  PublicInv'
<1>1. PICK b : b = [threads[t].draft EXCEPT !.history = HistoryOf(Reading(t))]
  BY Zenon
<1>2. /\ threads[t].at = "ledger"
      /\ UNCHANGED store /\ UNCHANGED <<file, catalog, pages, lock, broker>>
  BY Zenon DEF ReadLedger, At, disk
<1>3. Grows /\ Submitted' = Submitted /\ record' = record
  BY <1>2, SameStoreGrows DEF PublicInv, store
<1>4. Reading(t) \in Submitted /\ Reading(t) \in Jobs /\ record[Reading(t)] \in Revisions
  BY <1>2, ReadsSubmitted, Zenon DEF Reads
<1>5. /\ threads[t].draft \in Bundle /\ threads[t].draft.job = Reading(t)
      /\ threads[t].draft.status <= record[Reading(t)]
      /\ threads[t].draft.receipt => threads[t].draft.status = Final
      /\ lock = t /\ threads[t].todo = <<>> => Fresh(threads[t].draft)
  BY <1>2 DEF PublicInv, ThreadOK, Drafted
<1>6. /\ b \in Bundle /\ b.job = Reading(t) /\ b.status = threads[t].draft.status
      /\ b.receipt = threads[t].draft.receipt /\ b.history = record[Reading(t)]
  BY <1>1, <1>4, <1>5, Zenon DEF Bundle, HistoryOf
<1>7. Ordered(b) /\ b # NoBundle /\ (lock = t /\ threads[t].todo = <<>> => Fresh(b))
  BY <1>5, <1>6, PublicationAssumption DEF Ordered, Fresh, NoBundle, Bundle
<1>8. CASE threads[t].todo # <<>>
  <2>0. PICK a, l, q :
          /\ a = IF Len(threads[t].todo) = 1 THEN "pages" ELSE "receipt"
          /\ l = threads[t].listed \cup {b} /\ q = Tail(threads[t].todo)
    BY Zenon
  <2>1. Goes(t, [at |-> a, listed |-> l, draft |-> NoBundle, todo |-> q])
    BY <1>1, <1>8, <2>0, Zenon DEF ReadLedger
  <2>2. /\ Shaped' /\ \A u \in Threads : u # t => threads'[u] = threads[u]
        /\ threads'[t].at = a /\ threads'[t].listed = l /\ threads'[t].todo = q
        /\ \A f \in {"job", "next", "bundle"} : threads'[t][f] = threads[t][f]
    BY <2>1, GoesTo DEF Slots
  <2>3. /\ threads'[t].next = threads[t].next /\ threads'[t].job = threads[t].job
        /\ threads'[t].bundle = threads[t].bundle
    BY <2>2
  <2>4. /\ lock = t /\ q \in Seq(Submitted) /\ a \in {"pages", "receipt"}
        /\ a = "receipt" => q # <<>>
    <3>1. lock = t /\ threads[t].todo \in Seq(Submitted)
      BY <1>8, Zenon DEF PublicInv, ThreadOK, Control
    <3>2. q \in Seq(Submitted) /\ Len(q) = Len(threads[t].todo) - 1 /\ Len(threads[t].todo) \in Nat
      BY <1>8, <2>0, <3>1
    <3>3. Len(threads[t].todo) # 1 => q # <<>>
      <4>1. Len(<<>>) = 0
        OBVIOUS
      <4>2. Len(threads[t].todo) # 1 => Len(q) # 0
        BY <3>2
      <4> QED BY <4>1, <4>2, Zenon
    <3> QED BY <2>0, <3>1, <3>2, <3>3, Zenon
  <2>5. Control(t)'
    BY <1>2, <1>3, <2>2, <2>3, <2>4, Zenon DEF PublicInv, ThreadOK, Control, Reads, Locked
  <2>6. Drafted(t)' /\ Bundled(t)'
    BY <1>2, <1>3, <2>2, <2>4, <2>3, Zenon DEF PublicInv, ThreadOK, Drafted, Bundled, Ordered
  <2>7. Cataloged(t)'
    BY <1>7, <2>0, <2>2, <2>4, Zenon DEF PublicInv, ThreadOK, Cataloged, Ordered
  <2>8. Alone(t) /\ WorldOK'
    BY <1>2, <1>3, <2>2, QuietWorld, Zenon DEF Alone, PublicInv, WorldOK
  <2> QED BY <1>2, <2>2, <2>5, <2>6, <2>7, <2>8, OneMoves, DownIsIdle DEF ThreadOK
<1>9. CASE threads[t].todo = <<>>
  <2>1. Goes(t, [at |-> IF lock = t THEN "publish" ELSE "lock",
                 draft |-> NoBundle, bundle |-> b])
    BY <1>1, <1>9, Zenon DEF ReadLedger
  <2>2. /\ Shaped' /\ \A u \in Threads : u # t => threads'[u] = threads[u]
        /\ threads'[t].at = IF lock = t THEN "publish" ELSE "lock"
        /\ threads'[t].bundle = b
        /\ \A f \in {"job", "next", "todo", "listed"} : threads'[t][f] = threads[t][f]
    BY <2>1, GoesTo DEF Slots
  <2>3. /\ threads'[t].next = threads[t].next /\ threads'[t].job = threads[t].job
        /\ threads'[t].todo = threads[t].todo /\ threads'[t].listed = threads[t].listed
        /\ Reading(t) = threads[t].job
    BY <1>9, <2>2 DEF Reading
  <2>4. threads[t].next # "serve"
    BY <1>2, <1>9, Zenon DEF PublicInv, ThreadOK, Control, Reads
  <2>5. Control(t)'
    BY <1>2, <1>3, <1>4, <1>9, <2>2, <2>3, <2>4, Zenon
       DEF PublicInv, ThreadOK, Control, Reads, Locked
  <2>6. Bundled(t)'
    BY <1>2, <1>3, <1>4, <1>5, <1>6, <1>7, <1>9, <2>2, <2>3, Zenon DEF Bundled, Fresh
  <2>7. Drafted(t)' /\ Cataloged(t)'
    BY <2>2, <2>3 DEF PublicInv, ThreadOK, Drafted, Cataloged, Ordered
  <2>8. Alone(t) /\ WorldOK'
    BY <1>2, <1>3, <2>2, QuietWorld, Zenon DEF Alone, PublicInv, WorldOK
  <2> QED BY <1>2, <2>2, <2>5, <2>6, <2>7, <2>8, OneMoves, DownIsIdle DEF ThreadOK
<1> QED BY <1>8, <1>9

LEMMA TakeLockKeeps ==
  ASSUME PublicInv, NEW t \in Threads, TakeLock(t)
  PROVE  PublicInv'
<1>1. /\ threads[t].at = "lock" /\ lock = Absent /\ lock' = t
      /\ UNCHANGED store /\ UNCHANGED <<file, catalog, pages, broker>>
  BY DEF TakeLock, At, disk
<1>2. PICK a : a = IF /\ threads[t].bundle # NoBundle
                      /\ threads[t].bundle.status = record[threads[t].job]
                   THEN "publish" ELSE "receipt"
  OBVIOUS
<1>3. Goes(t, [at |-> a])
  BY <1>2 DEF TakeLock
<1>4. /\ Shaped' /\ \A u \in Threads : u # t => threads'[u] = threads[u]
      /\ threads'[t].at = a
      /\ \A f \in Slots \ {"at"} : threads'[t][f] = threads[t][f]
  BY <1>3, GoesTo DEF Slots
<1>5. /\ threads'[t].next = threads[t].next /\ threads'[t].todo = threads[t].todo
      /\ threads'[t].job = threads[t].job /\ threads'[t].bundle = threads[t].bundle
      /\ threads'[t].listed = threads[t].listed
  BY <1>4 DEF Slots
<1>6. Grows /\ Submitted' = Submitted /\ record' = record
  BY <1>1, SameStoreGrows DEF PublicInv, store
<1>7. lock # t
  BY <1>1, AbsentIsNothing
<1>8. threads[t].todo = <<>> /\ threads[t].job \in Submitted /\ threads[t].next # "serve"
  BY <1>1, <1>7, Zenon DEF PublicInv, ThreadOK, Control
<1>9. Control(t)'
  BY <1>1, <1>2, <1>4, <1>5, <1>6, <1>8, Zenon DEF PublicInv, ThreadOK, Control, Reads, Locked
<1>10. Bundled(t)'
  <2>1. /\ Bundled(t) /\ threads[t].job \in Jobs
        /\ file[threads[t].job] # Absent => file[threads[t].job].status <= record[threads[t].job]
    BY <1>8, Zenon DEF PublicInv, ThreadOK, WorldOK, Submitted
  <2>2. a \in {"publish", "receipt"}
        /\ (a = "publish" => threads[t].bundle # NoBundle /\ Fresh(threads[t].bundle))
    BY <1>2, <2>1, Zenon DEF Bundled, Fresh
  <2> QED BY <1>1, <1>4, <1>5, <1>6, <2>1, <2>2, Zenon DEF Bundled, Fresh, Ordered
<1>11. Drafted(t)' /\ Cataloged(t)'
  BY <1>2, <1>4, <1>5, Zenon DEF PublicInv, ThreadOK, Drafted, Cataloged, Ordered
<1>12. Alone(t) /\ WorldOK'
  BY <1>1, <1>4, <1>6, QuietWorld, Zenon DEF Alone, PublicInv, WorldOK
<1> QED BY <1>1, <1>4, <1>9, <1>10, <1>11, <1>12, OneMoves, DownIsIdle, Zenon DEF ThreadOK

--------------------------------------------------------------------------------
(* The files and the catalog *)

\* A bundle that is fresh and not ahead of the record may be written.
Writable(b) ==
  /\ b \in Bundle /\ Ordered(b) /\ b.job \in Submitted
  /\ b.status <= record[b.job] /\ Fresh(b)

FilesForward ==
  \A j \in Jobs : file[j] # Absent => file'[j] # Absent /\ file'[j].status >= file[j].status

LEMMA SameFilesForward ==
  ASSUME WorldOK, UNCHANGED file
  PROVE  FilesForward
BY DEF WorldOK, FilesForward, Bundle, Revisions, Pending, Running, Final

LEMMA WriteFileOK ==
  ASSUME PublicInv, NEW b, Writable(b), WriteFile(b), UNCHANGED store,
         UNCHANGED <<catalog, pages>>, lock' \in Threads \cup {Absent}
  PROVE  WorldOK' /\ FilesForward
<1>1. Grows /\ Submitted' = Submitted /\ record' = record
  BY SameStoreGrows DEF PublicInv, store
<1>2. CASE UNCHANGED file
  BY <1>1, <1>2, QuietWorld, SameFilesForward DEF PublicInv
<1>3. CASE file' = [file EXCEPT ![b.job] = b]
  <2>1. b # Absent /\ b.job \in Jobs /\ DOMAIN file' = Jobs
    BY <1>3, AbsentIsNothing, Zenon DEF Writable, Bundle, PublicInv, WorldOK
  <2>2. \A j \in Jobs : file'[j] = IF j = b.job THEN b ELSE file[j]
    BY <1>3, Zenon DEF PublicInv, WorldOK
  <2>3. FilesForward
    <3>1. \A j \in Jobs : file[j] # Absent => file[j].status \in Nat
      BY BundleStatus, Zenon DEF PublicInv, WorldOK
    <3>2. b.status \in Nat
      BY BundleStatus, Zenon DEF Writable
    <3> QED BY <2>1, <2>2, <3>1, <3>2 DEF FilesForward, Writable, Fresh
  <2>4. WorldOK'
    BY <1>1, <2>1, <2>2
       DEF PublicInv, WorldOK, Writable, Ordered, Grows, CatalogReadable, Whole
  <2> QED BY <2>3, <2>4, Zenon
<1> QED BY <1>2, <1>3, Zenon DEF WriteFile

LEMMA ListingOK ==
  ASSUME WorldOK
  PROVE  /\ Listing.todo \in Seq(Submitted) /\ Listing.at = "receipt"
         /\ DOMAIN Listing = {"at", "todo"}
         /\ recent # <<>> => Listing.todo # <<>>
<1>1. recent \in Seq(Submitted) /\ Len(recent) \in Nat
  BY DEF WorldOK
<1>2. PICK n \in Nat : /\ n = IF Len(recent) < CatalogLimit THEN Len(recent) ELSE CatalogLimit
                       /\ n <= Len(recent) /\ (recent # <<>> => n # 0)
  BY <1>1, PublicationAssumption
<1>3. Listing = [at |-> "receipt", todo |-> SubSeq(recent, 1, n)]
  BY <1>2 DEF Listing
<1>4. SubSeq(recent, 1, n) \in Seq(Submitted) /\ Len(SubSeq(recent, 1, n)) = n
  BY <1>1, <1>2
<1> QED BY <1>2, <1>3, <1>4

LEMMA PublishKeeps ==
  ASSUME PublicInv, NEW t \in Threads, Publish(t)
  PROVE  PublicInv' /\ FilesForward
<1>1. PICK b : b = threads[t].bundle
  BY Zenon
<1>2. /\ threads[t].at = "publish" /\ UNCHANGED store /\ UNCHANGED <<catalog, pages, broker>>
  BY Zenon DEF Publish, At
<1>3. Grows /\ Submitted' = Submitted /\ record' = record
  BY <1>2, SameStoreGrows DEF PublicInv, store
<1>4. /\ lock = t /\ threads[t].next # "serve"
      /\ threads[t].job \in Submitted /\ lock \in Threads \cup {Absent}
  BY <1>2, Zenon DEF PublicInv, ThreadOK, Control, Locked, Reads
<1>5. Writable(b)
  BY <1>1, <1>2, <1>4, Zenon DEF PublicInv, ThreadOK, Bundled, Writable
<1>6. CASE Leaves(t) /\ UNCHANGED file
  <2>1. Shaped' /\ ThreadOK(t)' /\ lock' = Absent
        /\ \A u \in Threads : u # t => threads'[u] = threads[u]
    BY <1>3, <1>4, <1>6, LeavesOK
  <2>2. Alone(t) /\ WorldOK'
    BY <1>2, <1>3, <1>4, <1>6, <2>1, QuietWorld, Zenon DEF Alone, PublicInv
  <2> QED BY <1>2, <1>6, <2>1, <2>2, OneMoves, DownIsIdle, SameFilesForward, Zenon DEF PublicInv
<1>7. CASE WriteFile(b) /\ Leaves(t)
  <2>1. Shaped' /\ ThreadOK(t)' /\ lock' = Absent
        /\ \A u \in Threads : u # t => threads'[u] = threads[u]
    BY <1>3, <1>4, <1>7, LeavesOK
  <2>2. WorldOK' /\ FilesForward
    BY <1>2, <1>5, <1>7, <2>1, WriteFileOK
  <2>3. Alone(t)
    BY <1>3, <1>4, <2>1, Zenon DEF Alone
  <2> QED BY <1>2, <2>1, <2>2, <2>3, OneMoves, DownIsIdle, Zenon
<1>8. CASE WriteFile(b) /\ Goes(t, Listing) /\ UNCHANGED lock
  <2>1. /\ Listing.todo \in Seq(Submitted) /\ Listing.at = "receipt"
        /\ DOMAIN Listing = {"at", "todo"}
    BY ListingOK, Zenon DEF PublicInv
  <2>2. /\ Shaped' /\ \A u \in Threads : u # t => threads'[u] = threads[u]
        /\ threads'[t].at = "receipt" /\ threads'[t].todo = Listing.todo
        /\ \A f \in Slots \ {"at", "todo"} : threads'[t][f] = threads[t][f]
    BY <1>8, <2>1, GoesTo DEF Slots
  <2>3. /\ threads'[t].next = threads[t].next /\ threads'[t].job = threads[t].job
        /\ threads'[t].bundle = threads[t].bundle /\ threads'[t].listed = threads[t].listed
    BY <2>2, Zenon DEF Slots
  <2>4. Control(t)'
    BY <1>3, <1>4, <1>8, <2>1, <2>2, <2>3, Zenon DEF PublicInv, ThreadOK, Control, Reads, Locked
  <2>5. Drafted(t)' /\ Bundled(t)' /\ Cataloged(t)'
    BY <1>3, <2>2, <2>3, Zenon DEF PublicInv, ThreadOK, Drafted, Bundled, Cataloged, Ordered
  <2>6. WorldOK' /\ FilesForward
    BY <1>2, <1>4, <1>5, <1>8, WriteFileOK, Zenon
  <2>7. Alone(t)
    BY <1>3, <1>4, <1>8, <2>2 DEF Alone
  <2> QED BY <1>2, <2>2, <2>4, <2>5, <2>6, <2>7, OneMoves, DownIsIdle, Zenon DEF ThreadOK
<1> QED BY <1>1, <1>6, <1>7, <1>8 DEF Publish

\* The step of a thread that fails at the catalog.
LEMMA CatalogFailsKeeps ==
  ASSUME PublicInv, NEW t \in Threads, lock = t, CatalogFails(t),
         UNCHANGED store, WorldOK'
  PROVE  PublicInv'
<1>1. Grows
  BY SameStoreGrows, Zenon DEF PublicInv
<1>2. /\ Shaped' /\ ThreadOK(t)' /\ lock' = Absent
      /\ \A u \in Threads : u # t => threads'[u] = threads[u]
      /\ broker' = "down" => threads'["listener"].at = "idle"
  BY <1>1, CatalogFailsOK
<1>3. Alone(t)
  BY <1>1, <1>2 DEF Alone
<1> QED BY <1>2, <1>3, OneMoves

LEMMA LockIsFreed ==
  ASSUME NEW t, CatalogFails(t)
  PROVE  lock' = Absent
BY Zenon DEF CatalogFails, Leaves

\* Pages that are added do no harm, nor does the loss of those that are not kept.
LEMMA PagesOK ==
  ASSUME WorldOK, UNCHANGED store, UNCHANGED <<file, catalog>>,
         lock' \in Threads \cup {Absent},
         \A p \in pages : p.generation = catalog => p \in pages'
  PROVE  WorldOK'
<1>1. Submitted' = Submitted /\ Grows /\ record' = record /\ recent' = recent
  BY SameStoreGrows, Zenon DEF store
<1>2. CatalogReadable'
  BY Zenon DEF WorldOK, CatalogReadable, Whole, PageOf
<1> QED BY <1>1, <1>2 DEF WorldOK, Ordered

LEMMA WritePageKeeps ==
  ASSUME PublicInv, NEW t \in Threads, WritePage(t)
  PROVE  PublicInv'
<1>1. /\ threads[t].at = "pages" /\ UNCHANGED store /\ UNCHANGED <<file, catalog>>
      /\ \A p \in pages : p \in pages'
  BY DEF WritePage, At
<1>2. lock = t /\ lock \in Threads \cup {Absent}
  BY <1>1, Zenon DEF PublicInv, ThreadOK, Control, Locked
<1>3. CASE CatalogFails(t)
  BY <1>1, <1>2, <1>3, PagesOK, LockIsFreed, CatalogFailsKeeps, Zenon DEF PublicInv
<1>4. CASE UNCHANGED <<threads, lock, broker>>
  <2>1. Grows
    BY <1>1, SameStoreGrows DEF PublicInv
  <2>2. WorldOK'
    BY <1>1, <1>2, <1>4, PagesOK, Zenon DEF PublicInv
  <2>3. Submitted' = Submitted /\ record' = record
    BY <1>1, SameStoreGrows, Zenon DEF PublicInv, store
  <2>4. \A u \in Threads : ThreadOK(u)'
    BY <1>1, <1>4, <2>3, NothingMoves
  <2> QED BY <1>4, <2>2, <2>4 DEF PublicInv, Shaped
<1> QED BY <1>3, <1>4, Zenon DEF WritePage

LEMMA SwitchCatalogKeeps ==
  ASSUME PublicInv, NEW t \in Threads, SwitchCatalog(t)
  PROVE  PublicInv'
<1>1. threads[t].at = "pages" /\ UNCHANGED store /\ UNCHANGED <<file, pages>>
  BY DEF SwitchCatalog, At
<1>2. lock = t /\ lock \in Threads \cup {Absent}
  BY <1>1, Zenon DEF PublicInv, ThreadOK, Control, Locked
<1>3. CASE CatalogFails(t) /\ UNCHANGED catalog
  BY <1>1, <1>2, <1>3, PagesOK, LockIsFreed, CatalogFailsKeeps DEF PublicInv
<1>4. CASE ~(CatalogFails(t) /\ UNCHANGED catalog)
  <2>1. PICK k : /\ threads[t].listed \in k /\ catalog' = threads[t].listed
                 /\ Goes(t, [at |-> "prune", keep |-> k]) /\ UNCHANGED <<lock, broker>>
                 /\ Whole(threads[t].listed)
    BY <1>4 DEF SwitchCatalog
  <2>2. /\ Shaped' /\ \A u \in Threads : u # t => threads'[u] = threads[u]
        /\ threads'[t].at = "prune" /\ threads'[t].keep = k
        /\ \A f \in Slots \ {"at", "keep"} : threads'[t][f] = threads[t][f]
    BY <2>1, GoesTo DEF Slots
  <2>3. /\ threads'[t].next = threads[t].next /\ threads'[t].job = threads[t].job
        /\ threads'[t].todo = threads[t].todo
        /\ threads'[t].bundle = threads[t].bundle /\ threads'[t].listed = threads[t].listed
    BY <2>2, Zenon DEF Slots
  <2>4. Grows /\ Submitted' = Submitted /\ record' = record /\ recent' = recent
    BY <1>1, SameStoreGrows DEF PublicInv, store
  <2>5. Control(t)'
    BY <1>2, <2>1, <2>2, <2>3, <2>4, Zenon DEF PublicInv, ThreadOK, Control, Reads, Locked
  <2>6. Drafted(t)' /\ Bundled(t)' /\ Cataloged(t)'
    BY <2>1, <2>2, <2>3, <2>4, Zenon
       DEF PublicInv, ThreadOK, Drafted, Bundled, Cataloged, Ordered
  <2>7. Alone(t)
    BY <1>2, <2>1, <2>2, <2>4, Zenon DEF Alone
  <2>8. CatalogReadable'
    BY <1>1, <2>1, Zenon DEF CatalogReadable, Whole
  <2>9. WorldOK'
    BY <1>1, <2>1, <2>4, <2>8, Zenon DEF PublicInv, WorldOK, Ordered
  <2> QED BY <1>1, <2>1, <2>2, <2>5, <2>6, <2>7, <2>9, OneMoves, DownIsIdle, Zenon
             DEF ThreadOK
<1> QED BY <1>3, <1>4, Zenon

LEMMA PruneKeeps ==
  ASSUME PublicInv, NEW t \in Threads, Prune(t)
  PROVE  PublicInv'
<1>1. threads[t].at = "prune" /\ UNCHANGED store /\ UNCHANGED <<file, catalog>>
  BY DEF Prune, At
<1>2. lock = t /\ lock \in Threads \cup {Absent} /\ catalog \in threads[t].keep
  BY <1>1, Zenon DEF PublicInv, ThreadOK, Control, Cataloged, Locked
<1>3. \A p \in pages : p.generation = catalog => p \in pages'
  BY <1>2 DEF Prune, Unkept
<1>4. Grows
  BY <1>1, SameStoreGrows DEF PublicInv
<1>5. CASE CatalogFails(t)
  BY <1>1, <1>2, <1>3, <1>5, PagesOK, LockIsFreed, CatalogFailsKeeps, Zenon DEF PublicInv
<1>6. CASE threads[t].next # "serve" /\ Leaves(t) /\ UNCHANGED broker
  <2>1. Shaped' /\ ThreadOK(t)' /\ lock' = Absent
        /\ \A u \in Threads : u # t => threads'[u] = threads[u]
    BY <1>4, <1>6, LeavesOK, Zenon
  <2>2. Alone(t) /\ WorldOK'
    BY <1>1, <1>2, <1>3, <1>4, <2>1, PagesOK DEF Alone, PublicInv
  <2> QED BY <1>1, <1>6, <2>1, <2>2, OneMoves, DownIsIdle, Zenon
<1>7. CASE /\ lock' = Absent /\ threads' = [threads EXCEPT ![t] = Resting]
           /\ broker' = "serving"
  <2>1. Shaped' /\ ThreadOK(t)' /\ \A u \in Threads : u # t => threads'[u] = threads[u]
    BY <1>7, RestsOK, Zenon
  <2>2. Alone(t) /\ WorldOK'
    BY <1>1, <1>2, <1>3, <1>4, <1>7, <2>1, PagesOK DEF Alone, PublicInv
  <2> QED BY <1>7, <2>1, <2>2, OneMoves
<1> QED BY <1>5, <1>6, <1>7 DEF Prune

--------------------------------------------------------------------------------
(* Stop and start *)

LEMMA KillKeeps ==
  ASSUME PublicInv, Kill
  PROVE  PublicInv'
<1>1. /\ threads' = [t \in Threads |-> Resting] /\ lock' = Absent
      /\ UNCHANGED store /\ UNCHANGED <<file, catalog>>
  BY DEF Kill
<1>2. \A p \in pages : p.generation = catalog => p \in pages'
  <2>1. CASE pages \subseteq pages'
    BY <2>1, Zenon
  <2>2. ASSUME NEW t \in Threads, NEW gone \in SUBSET Unkept(t),
               At(t, "prune"), pages' = pages \ gone
        PROVE  \A p \in pages : p.generation = catalog => p \in pages'
    BY <2>2 DEF PublicInv, ThreadOK, Cataloged, At, Unkept
  <2> QED BY <2>1, <2>2, Zenon DEF Kill
<1>3. WorldOK'
  BY <1>1, <1>2, PagesOK, Zenon DEF PublicInv
<1>4. Shaped' /\ \A t \in Threads : threads'[t] = Resting
  BY <1>1 DEF Shaped, Resting, Slots
<1>5. \A t \in Threads : ThreadOK(t)' /\ threads'[t].at = "idle"
  BY <1>1, <1>4, FreeOK, AbsentIsNothing, Zenon DEF Resting
<1> QED BY <1>3, <1>4, <1>5, Zenon DEF PublicInv, Threads

LEMMA StartKeeps ==
  ASSUME PublicInv, Start
  PROVE  PublicInv'
<1> DEFINE t == "listener"
<1>1. /\ t \in Threads /\ threads[t].at = "idle" /\ broker' = "starting"
      /\ UNCHANGED store /\ UNCHANGED <<file, catalog, pages, lock>>
  BY Zenon DEF Start, PublicInv, Threads, disk
<1>2. /\ Shaped' /\ \A u \in Threads : u # t => threads'[u] = threads[u]
      /\ threads'[t].at = "recover" /\ threads'[t].next = "recover"
      /\ \A f \in {"todo", "bundle", "listed"} : threads'[t][f] = threads[t][f]
  <2>1. Goes(t, [at |-> "recover", next |-> "recover"])
    BY DEF Start
  <2> QED BY <1>1, <2>1, GoesTo DEF Slots
<1>3. /\ threads'[t].todo = threads[t].todo
      /\ threads'[t].bundle = threads[t].bundle /\ threads'[t].listed = threads[t].listed
  BY <1>2, Zenon
<1>4. lock # t /\ threads[t].todo = <<>> /\ threads[t].bundle = NoBundle
  BY <1>1, Zenon DEF PublicInv, ThreadOK, Control, Bundled, Reads, Locked
<1>5. Grows
  BY <1>1, SameStoreGrows DEF PublicInv
<1>6. Control(t)' /\ Drafted(t)' /\ Bundled(t)'
  <2>1. Control(t)'
    BY <1>1, <1>2, <1>3, <1>4 DEF Control, Reads, Locked
  <2>2. Drafted(t)' /\ Bundled(t)'
    BY <1>2, <1>3, <1>4, Zenon DEF Drafted, Bundled
  <2> QED BY <2>1, <2>2, Zenon
<1>7. Cataloged(t)'
  BY <1>1, <1>2, <1>3 DEF PublicInv, ThreadOK, Cataloged, Ordered
<1>8. Alone(t) /\ WorldOK'
  BY <1>1, <1>2, <1>5, QuietWorld, Zenon DEF Alone, PublicInv, WorldOK
<1> QED BY <1>1, <1>2, <1>6, <1>7, <1>8, OneMoves, Zenon DEF ThreadOK

LEMMA ReconcileKeeps ==
  ASSUME PublicInv, Reconcile
  PROVE  PublicInv' /\ FilesForward
<1> DEFINE t == "listener"
<1>1. /\ t \in Threads /\ threads[t].at = "reconcile"
      /\ UNCHANGED store /\ UNCHANGED <<catalog, pages>>
  BY Zenon DEF Reconcile, At, Threads
<1>2. /\ lock = t /\ lock \in Threads \cup {Absent}
      /\ threads[t].todo \in Seq(Submitted)
      /\ threads[t].next \in {"answer", "recover", "retrieve", "serve"}
      /\ threads[t].next = "retrieve" => threads[t].job \in Submitted
  BY <1>1, Zenon DEF PublicInv, ThreadOK, Control, Locked
<1>3. Grows /\ Submitted' = Submitted /\ record' = record
  BY <1>1, SameStoreGrows DEF PublicInv, store
<1>4. CASE /\ Goes(t, IF recent = <<>> THEN [at |-> "pages"] ELSE Listing)
           /\ UNCHANGED <<file, lock, broker>>
  <2>1. UNCHANGED <<file, lock, broker>>
    BY <1>4, Zenon
  <2>2. /\ Shaped' /\ \A u \in Threads : u # t => threads'[u] = threads[u]
        /\ \/ threads'[t].at = "pages" /\ threads'[t].todo = threads[t].todo
           \/ threads'[t].at = "receipt" /\ threads'[t].todo = Listing.todo /\ Listing.todo # <<>>
              /\ Listing.todo \in Seq(Submitted)
        /\ \A f \in Slots \ {"at", "todo"} : threads'[t][f] = threads[t][f]
    <3>1. CASE recent = <<>>
      <4>1. Goes(t, [at |-> "pages"])
        BY <1>4, <3>1, Zenon
      <4> QED BY <1>1, <4>1, GoesTo DEF Slots
    <3>2. CASE recent # <<>>
      <4>1. Goes(t, Listing)
        BY <1>4, <3>2
      <4>2. /\ Listing.todo \in Seq(Submitted) /\ Listing.at = "receipt"
            /\ DOMAIN Listing = {"at", "todo"} /\ Listing.todo # <<>>
        BY <3>2, ListingOK, Zenon DEF PublicInv
      <4> QED BY <1>1, <4>1, <4>2, GoesTo DEF Slots
    <3> QED BY <3>1, <3>2, Zenon
  <2>3. /\ threads'[t].next = threads[t].next /\ threads'[t].job = threads[t].job
        /\ threads'[t].bundle = threads[t].bundle /\ threads'[t].listed = threads[t].listed
    BY <2>2 DEF Slots
  <2>4. Control(t)'
    BY <1>2, <1>3, <1>4, <2>1, <2>2, <2>3, Zenon DEF Control, Reads, Locked
  <2>5. Drafted(t)' /\ Bundled(t)' /\ Cataloged(t)'
    BY <1>1, <1>3, <2>2, <2>3, Zenon
       DEF PublicInv, ThreadOK, Drafted, Bundled, Cataloged, Ordered
  <2>6. Alone(t) /\ WorldOK'
    BY <1>1, <1>2, <1>3, <2>1, <2>2, QuietWorld DEF Alone, PublicInv
  <2> QED BY <1>1, <2>1, <2>2, <2>4, <2>5, <2>6, OneMoves, DownIsIdle,
             SameFilesForward, Zenon DEF ThreadOK, PublicInv
<1>5. ASSUME NEW j \in Submitted, WriteFile(BundleOf(j)),
             \/ CatalogFails(t)
             \/ Goes(t, [done |-> Append(threads[t].done, j)]) /\ UNCHANGED <<lock, broker>>
      PROVE  PublicInv' /\ FilesForward
  <2>1. j \in Submitted
    BY <1>5
  <2>2. Writable(BundleOf(j))
    <3>1. j \in Jobs /\ record[j] \in Revisions /\ (file[j] # Absent => file[j].status <= record[j])
      BY <2>1 DEF PublicInv, WorldOK, Submitted
    <3>2. BundleOf(j) \in Bundle /\ BundleOf(j).job = j /\ BundleOf(j).status = record[j]
          /\ BundleOf(j).history = record[j] /\ (BundleOf(j).receipt => record[j] = Final)
      BY <3>1, Zenon DEF BundleOf, HistoryOf, HasReceipt, Bundle
    <3>3. record[j] <= record[j]
      BY <3>1 DEF Revisions, Pending, Running, Final
    <3> QED BY <2>1, <3>1, <3>2, <3>3, Zenon DEF Writable, Ordered, Fresh
  <2>3. WriteFile(BundleOf(j))
    BY <1>5
  <2>4. CASE CatalogFails(t)
    <3>1. WorldOK' /\ FilesForward
      BY <1>1, <2>2, <2>3, <2>4, LockIsFreed, WriteFileOK
    <3> QED BY <1>1, <1>2, <2>4, <3>1, CatalogFailsKeeps
  <2>5. CASE Goes(t, [done |-> Append(threads[t].done, j)]) /\ UNCHANGED <<lock, broker>>
    <3>1. WorldOK' /\ FilesForward
      BY <1>1, <1>2, <2>2, <2>3, <2>5, WriteFileOK, Zenon
    <3>2. /\ Shaped' /\ \A u \in Threads : u # t => threads'[u] = threads[u]
          /\ \A f \in Slots \ {"done"} : threads'[t][f] = threads[t][f]
      BY <1>1, <2>5, GoesTo DEF Slots
    <3>3. /\ threads'[t].next = threads[t].next /\ threads'[t].job = threads[t].job
          /\ threads'[t].at = threads[t].at /\ threads'[t].todo = threads[t].todo
          /\ threads'[t].bundle = threads[t].bundle /\ threads'[t].listed = threads[t].listed
      BY <3>2, Zenon DEF Slots
    <3>5. Control(t)'
      BY <1>1, <1>2, <1>3, <2>5, <3>2, <3>3, Zenon DEF PublicInv, ThreadOK, Control, Reads, Locked
    <3>6. Drafted(t)' /\ Bundled(t)' /\ Cataloged(t)'
      BY <1>1, <1>3, <3>2, <3>3, Zenon
         DEF PublicInv, ThreadOK, Drafted, Bundled, Cataloged, Ordered
    <3>7. Alone(t)
      BY <1>2, <1>3, <2>5, <3>2, Zenon DEF Alone
    <3> QED BY <1>1, <2>5, <3>1, <3>2, <3>5, <3>6, <3>7, OneMoves, DownIsIdle, Zenon
       DEF ThreadOK
  <2> QED BY <1>5, <2>4, <2>5
<1> QED BY <1>4, <1>5, Zenon DEF Reconcile

LEMMA RecoverKeeps ==
  ASSUME PublicInv, Recover
  PROVE  PublicInv'
<1> DEFINE t == "listener"
<1>1. /\ t \in Threads /\ threads[t].at = "recover"
      /\ UNCHANGED <<file, catalog, pages, broker>> /\ broker # "down"
  BY DEF Recover, At, Threads, disk, PublicInv
<1>2. ASSUME NEW j \in Jobs, record[j] = Running, Commit(j, Final),
             Goes(t, [at |-> "receipt", job |-> j]), UNCHANGED lock
      PROVE  PublicInv'
  <2>1. Grows /\ j \in Submitted'
    BY <1>2, CommitGrows, SMTT(30) DEF PublicInv, Revisions, Running, Final
  <2>2. /\ Shaped' /\ \A u \in Threads : u # t => threads'[u] = threads[u]
        /\ threads'[t].at = "receipt" /\ threads'[t].job = j
        /\ threads'[t].next = threads[t].next
        /\ \A f \in {"bundle", "listed", "todo"} : threads'[t][f] = threads[t][f]
    <3>1. Goes(t, [at |-> "receipt", job |-> j])
      BY <1>2, Zenon
    <3> QED BY <1>1, <3>1, GoesTo DEF Slots
  <2>3. threads[t].next \in {"answer", "retrieve", "recover"}
    BY <1>1, Zenon DEF PublicInv, ThreadOK, Control, Reads
  <2> QED BY <1>1, <1>2, <2>1, <2>2, <2>3, BeginsOK, Zenon
<1>3. CASE /\ lock = Absent /\ lock' = t /\ UNCHANGED store
           /\ Goes(t, [at |-> "reconcile", next |-> "serve", done |-> <<>>])
  <2>1. Grows /\ Submitted' = Submitted
    BY <1>3, SameStoreGrows, Zenon DEF PublicInv
  <2>3. /\ Shaped' /\ \A u \in Threads : u # t => threads'[u] = threads[u]
        /\ threads'[t].at = "reconcile" /\ threads'[t].next = "serve"
        /\ \A f \in {"bundle", "listed", "todo"} : threads'[t][f] = threads[t][f]
    BY <1>1, <1>3, GoesTo DEF Slots
  <2>4. /\ threads'[t].bundle = NoBundle /\ threads'[t].listed = threads[t].listed
        /\ threads'[t].todo \in Seq(Submitted)
    <3>1. threads[t].bundle = NoBundle
      BY <1>1, <1>3, Zenon DEF PublicInv, ThreadOK, Bundled
    <3>2. threads[t].todo \in Seq(Submitted)
      BY <1>1, Zenon DEF PublicInv, ThreadOK, Control
    <3> QED BY <2>3, <3>1, <3>2, Zenon
  <2>5. Control(t)'
    BY <1>3, <2>1, <2>3, <2>4, Zenon DEF Control, Reads, Locked
  <2>6. Drafted(t)' /\ Bundled(t)'
    BY <2>3, <2>4 DEF Drafted, Bundled
  <2>7. Cataloged(t)'
    BY <1>1, <2>3, <2>4, Zenon DEF PublicInv, ThreadOK, Cataloged, Ordered
  <2>8. Alone(t) /\ WorldOK'
    BY <1>1, <1>3, <2>1, <2>3, QuietWorld, Zenon DEF Alone, PublicInv, WorldOK
  <2> QED BY <1>1, <2>3, <2>5, <2>6, <2>7, <2>8, OneMoves DEF ThreadOK
<1> QED BY <1>2, <1>3, Zenon DEF Recover

--------------------------------------------------------------------------------
(* Every step *)

LEMMA Begin ==
  ASSUME Init
  PROVE  PublicInv
<1>1. Submitted = {} /\ \A t \in Threads : threads[t] = Resting /\ lock # t
  BY AbsentIsNothing, Zenon DEF Init, Submitted
<1>2. WorldOK
  BY <1>1 DEF Init, WorldOK, CatalogReadable
<1>3. ASSUME NEW t \in Threads PROVE ThreadOK(t)
  <2>1. /\ threads[t].at = "idle" /\ threads[t].todo = <<>> /\ threads[t].next = "answer"
        /\ threads[t].bundle = NoBundle /\ threads[t].listed = {}
        /\ lock # t /\ <<>> \in Seq(Submitted)
    <3>1. threads[t] = Resting /\ lock # t
      BY <1>1
    <3>2. <<>> \in Seq(Submitted)
      OBVIOUS
    <3>3. /\ Resting.at = "idle" /\ Resting.todo = <<>> /\ Resting.next = "answer"
          /\ Resting.bundle = NoBundle /\ Resting.listed = {}
      BY DEF Resting
    <3> HIDE DEF Resting
    <3> QED BY <3>1, <3>2, <3>3, Zenon
  <2>2. Control(t)
    BY <2>1, Zenon DEF Control, Reads, Locked
  <2>3. Drafted(t) /\ Bundled(t) /\ Cataloged(t)
    BY <2>1 DEF Drafted, Bundled, Cataloged
  <2> QED BY <2>2, <2>3 DEF ThreadOK
<1> QED BY <1>1, <1>2, <1>3, Zenon DEF Init, PublicInv, Shaped, Resting, Slots

LEMMA ThreadStepKeeps ==
  ASSUME PublicInv, NEW t \in Threads, ThreadStep(t)
  PROVE  PublicInv' /\ FilesForward
<1>1. CASE Publish(t)
  BY <1>1, PublishKeeps, Zenon
<1>2. CASE ReadReceipt(t) \/ ReadRecord(t) \/ ReadLedger(t) \/ TakeLock(t)
  <2>1. UNCHANGED file
    BY <1>2 DEF ReadReceipt, ReadRecord, ReadLedger, TakeLock, disk
  <2> QED BY <1>2, <2>1, ReadReceiptKeeps, ReadRecordKeeps, ReadLedgerKeeps, TakeLockKeeps,
             SameFilesForward DEF PublicInv
<1>3. CASE WritePage(t) \/ SwitchCatalog(t) \/ Prune(t)
  <2>1. UNCHANGED file
    BY <1>3, Zenon DEF WritePage, SwitchCatalog, Prune
  <2> QED BY <1>3, <2>1, WritePageKeeps, SwitchCatalogKeeps, PruneKeeps,
             SameFilesForward, Zenon
          DEF PublicInv
<1> QED BY <1>1, <1>2, <1>3 DEF ThreadStep

LEMMA StepKeeps ==
  ASSUME PublicInv, [Next]_vars
  PROVE  PublicInv' /\ FilesForward
<1> USE DEF PublicInv
<1>1. ASSUME NEW j \in Jobs, Submit(j) \/ Approve(j) \/ Retrieve(j) \/ Execute(j)
      PROVE  PublicInv' /\ FilesForward
  <2>1. UNCHANGED file
    BY <1>1, Zenon DEF Submit, Approve, Retrieve, Execute, disk
  <2> QED BY <1>1, <2>1, SubmitKeeps, ApproveKeeps, RetrieveKeeps, ExecuteKeeps,
             SameFilesForward
<1>2. CASE SubmittedStatus \/ Start \/ Recover \/ Kill
  <2>1. UNCHANGED file
    BY <1>2, Zenon DEF SubmittedStatus, Start, Recover, Kill, disk
  <2> QED BY <1>2, <2>1, SubmittedStatusKeeps, StartKeeps, RecoverKeeps, KillKeeps,
             SameFilesForward, Zenon
<1>3. CASE Reconcile
  BY <1>3, ReconcileKeeps, Zenon
<1>4. CASE \E t \in Threads : ThreadStep(t)
  BY <1>4, ThreadStepKeeps
<1>5. CASE UNCHANGED vars
  <2>1. UNCHANGED <<threads, lock, broker, record, recent, file, catalog, pages>>
    BY <1>5, Zenon DEF vars
  <2>2. Submitted' = Submitted /\ UNCHANGED store
    BY <2>1 DEF Submitted, store
  <2>3. WorldOK'
    BY <2>1, <2>2, PagesOK, Zenon DEF WorldOK
  <2>4. \A u \in Threads : ThreadOK(u)'
    BY <2>1, NothingMoves
  <2> QED BY <2>1, <2>3, <2>4, SameFilesForward, Zenon DEF Shaped
<1> QED BY <1>1, <1>2, <1>3, <1>4, <1>5, Zenon DEF Next, ListenerStep, WorkerStep, Threads

LEMMA Published ==
  Spec => []PublicInv
<1> QED BY Begin, StepKeeps, PTL DEF Spec

--------------------------------------------------------------------------------
(* The types, which CatalogWhole also states *)

\* The index of the recent jobs has every job that was submitted, once.
StoreTyped == Elements(recent) = Submitted /\ Once(recent)

\* What was written for a job is of that job, and pages are of bundles.
DiskTyped ==
  /\ \A j \in Jobs : file[j] # Absent => file[j].job = j
  /\ catalog = Absent \/ catalog \subseteq Bundle
  /\ \A p \in pages : p.entry \in Bundle /\ p.generation \subseteq Bundle
  /\ missed \subseteq Jobs

\* _remember_publication keeps within the limit of the catalog.
MemoryTyped ==
  /\ published \in Seq(Bundle) /\ Len(published) <= CatalogLimit
  /\ broker \in {"serving", "down", "starting"} /\ faults \in 0 .. MaxFaults

\* A repair that writes the catalog has the bundle that it will remember.
ThreadTyped(t) ==
  /\ threads[t].listed \subseteq Bundle
  /\ threads[t].done \in Seq(Submitted)
  /\ threads[t].at = "reconcile" => threads[t].next = "serve"
  /\ /\ threads[t].next # "serve"
     /\ \/ threads[t].at \in {"pages", "prune"}
        \/ threads[t].at \in Reads /\ threads[t].todo # <<>>
     => threads[t].bundle \in Bundle

TypeInv ==
  /\ StoreTyped /\ DiskTyped /\ MemoryTyped
  /\ \A t \in Threads : ThreadTyped(t)

\* A commit moves its job to the front of the index.
LEMMA CommitTyped ==
  ASSUME WorldOK, StoreTyped, NEW j \in Jobs, NEW r \in Revisions, Commit(j, r)
  PROVE  StoreTyped'
<1> DEFINE I == {i \in DOMAIN recent : recent[i] = j}
<1>1. recent' = <<j>> \o Drop(recent, I) /\ record' = [record EXCEPT ![j] = r]
      /\ I \in SUBSET DOMAIN recent /\ \A i \in DOMAIN recent : i \in I <=> recent[i] = j
  BY Zenon DEF Commit
<1> HIDE DEF I
<1>2. Submitted' = Submitted \cup {j}
  BY <1>1, AbsentIsNothing, Zenon DEF Submitted, WorldOK
<1>3. recent \in Seq(Submitted \cup {j})
  BY DEF WorldOK
<1>4. Elements(recent') = Elements(recent) \cup {j} /\ Once(recent')
  <2>1. PICK S : recent \in Seq(S) /\ j \in S
    BY <1>3
  <2>2. Once(recent)
    BY DEF StoreTyped
  <2>3. /\ Elements(<<j>> \o Drop(recent, I)) = Elements(recent) \cup {j}
        /\ Once(<<j>> \o Drop(recent, I))
    BY <1>1, <2>1, <2>2, MovedOnce
  <2>4. recent' = <<j>> \o Drop(recent, I)
    BY <1>1
  <2> QED BY <2>3, <2>4, Zenon
<1> QED BY <1>2, <1>4 DEF StoreTyped, Elements, Once

LEMMA SameStoreTyped ==
  ASSUME StoreTyped, UNCHANGED store
  PROVE  StoreTyped'
BY DEF StoreTyped, store, Submitted, Elements, Once

LEMMA FaultsTyped ==
  ASSUME MemoryTyped, Works \/ Fails
  PROVE  faults' \in 0 .. MaxFaults
BY PublicationAssumption DEF MemoryTyped, Works, Fails

\* _publish_immutable_file writes the bundle of a job to the place of that job.
LEMMA WriteFileTyped ==
  ASSUME WorldOK, DiskTyped, NEW b, b.job \in Jobs, WriteFile(b), UNCHANGED <<catalog, pages>>
  PROVE  DiskTyped' /\ (Works \/ Fails)
<1>1. missed' \subseteq Jobs
  BY Zenon DEF DiskTyped, WriteFile
<1>2. \A j \in Jobs : file'[j] # Absent => file'[j].job = j
  BY Zenon DEF DiskTyped, WriteFile, WorldOK
<1> QED BY <1>1, <1>2 DEF DiskTyped, WriteFile

\* The pages a thread adds are of the catalog that it has listed.
LEMMA PagesTyped ==
  ASSUME DiskTyped, UNCHANGED <<file, catalog, missed>>,
         NEW l \in SUBSET Bundle, NEW b \in l,
         pages' \subseteq pages \cup {PageOf(l, b), Torn(PageOf(l, b))}
  PROVE  DiskTyped'
<1>1. /\ PageOf(l, b).entry = b /\ PageOf(l, b).generation = l
      /\ Torn(PageOf(l, b)).entry = b /\ Torn(PageOf(l, b)).generation = l
  BY DEF PageOf, Torn
<1> QED BY <1>1 DEF DiskTyped

\* _remember_publication drops the oldest bundle where there are too many.
LEMMA RememberTyped ==
  ASSUME NEW q \in Seq(Bundle), Len(q) <= CatalogLimit, NEW b \in Bundle
  PROVE  Remember(q, b) \in Seq(Bundle) /\ Len(Remember(q, b)) <= CatalogLimit
<1> DEFINE I == {i \in DOMAIN q : q[i].job = b.job}
<1>1. PICK r \in Seq(Bundle) : r = Drop(q, I)
  BY DropType, Zenon
<1>2. Len(r) <= Len(q) /\ Len(q) \in Nat /\ Len(r) \in Nat
  <2>1. CASE I = {}
    BY <1>1, <2>1 DEF Drop
  <2>2. CASE I # {}
    <3>1. I \in SUBSET DOMAIN q
      OBVIOUS
    <3> HIDE DEF I
    <3>2. Len(r) = Len(q) - 1
      BY <1>1, <2>2, <3>1, DropEntries, Zenon
    <3> QED BY <3>2
  <2> QED BY <2>1, <2>2
<1> HIDE DEF I
<1>3. PICK a \in Seq(Bundle) : a = Append(r, b) /\ Len(a) = Len(r) + 1
  <2>1. Append(r, b) \in Seq(Bundle) /\ Len(Append(r, b)) = Len(r) + 1
    OBVIOUS
  <2> QED BY <2>1, Zenon
<1>4. Remember(q, b) = IF Len(a) > CatalogLimit THEN Tail(a) ELSE a
  BY <1>1, <1>3 DEF Remember, I
<1>5. a # <<>> /\ Tail(a) \in Seq(Bundle) /\ Len(Tail(a)) = Len(a) - 1
  BY <1>2, <1>3
<1> QED BY <1>2, <1>3, <1>4, <1>5, PublicationAssumption

\* A start remembers the bundles of the last jobs that it published.
LEMMA LastBundlesTyped ==
  ASSUME WorldOK, NEW q \in Seq(Submitted)
  PROVE  LastBundles(q) \in Seq(Bundle) /\ Len(LastBundles(q)) <= CatalogLimit
<1> DEFINE skip == IF Len(q) > CatalogLimit THEN Len(q) - CatalogLimit ELSE 0
           n == Len(q) - skip
<1>1. n \in Nat /\ n <= CatalogLimit /\ \A i \in 1 .. n : skip + i \in 1 .. Len(q)
  BY PublicationAssumption
<1>2. LastBundles(q) = [i \in 1 .. n |-> BundleOf(q[skip + i])]
  BY Zenon DEF LastBundles
<1> HIDE DEF skip, n
<1>3. \A j \in Submitted : BundleOf(j) \in Bundle
  BY DEF Submitted, WorldOK, BundleOf, HistoryOf, HasReceipt, Bundle
<1>4. \A i \in 1 .. n : BundleOf(q[skip + i]) \in Bundle
  BY <1>1, <1>3
<1> QED BY <1>1, <1>2, <1>4

\* The store changes by commits.
LEMMA StoreStep ==
  ASSUME PublicInv, [Next]_vars
  PROVE  \/ UNCHANGED store
         \/ \E j \in Jobs, r \in Revisions : Commit(j, r)
<1>1. ASSUME NEW j \in Jobs, Submit(j) \/ Approve(j) \/ Retrieve(j) \/ Execute(j)
      PROVE  UNCHANGED store \/ \E r \in Revisions : Commit(j, r)
  <2>1. Pending \in Revisions /\ Running \in Revisions /\ Final \in Revisions
    BY DEF Revisions
  <2> QED BY <1>1, <2>1, Zenon DEF Submit, Approve, Retrieve, Execute
<1>2. CASE Recover
  <2>1. Final \in Revisions
    BY DEF Revisions
  <2> QED BY <1>2, <2>1, Zenon DEF Recover
<1>3. CASE SubmittedStatus \/ Start \/ Kill \/ Reconcile
  BY <1>3, Zenon DEF SubmittedStatus, Start, Kill, Reconcile
<1>4. ASSUME NEW t, ThreadStep(t) PROVE UNCHANGED store
  BY <1>4, Zenon DEF ThreadStep, ReadReceipt, ReadRecord, ReadLedger, TakeLock, Publish,
                     WritePage, SwitchCatalog, Prune
<1>5. CASE UNCHANGED vars
  BY <1>5 DEF vars, store
<1> QED BY <1>1, <1>2, <1>3, <1>4, <1>5, Zenon DEF Next, ListenerStep, WorkerStep

LEMMA StoreKeepsType ==
  ASSUME PublicInv, TypeInv, [Next]_vars
  PROVE  StoreTyped' /\ Submitted \subseteq Submitted'
<1>1. CASE UNCHANGED store
  <2>1. Submitted' = Submitted
    BY <1>1 DEF store, Submitted
  <2> QED BY <1>1, <2>1, SameStoreTyped DEF TypeInv
<1>2. ASSUME NEW j \in Jobs, NEW r \in Revisions, Commit(j, r)
      PROVE  StoreTyped' /\ Submitted \subseteq Submitted'
  <2>1. Submitted \subseteq Submitted'
    BY <1>2, AbsentIsNothing DEF Commit, Submitted, PublicInv, WorldOK
  <2> QED BY <1>2, <2>1, CommitTyped, Zenon DEF PublicInv, TypeInv
<1> QED BY <1>1, <1>2, StoreStep

LEMMA DiskKeepsType ==
  ASSUME PublicInv, TypeInv, [Next]_vars
  PROVE  DiskTyped'
<1>1. ASSUME UNCHANGED <<file, catalog, pages, missed>> PROVE DiskTyped'
  BY <1>1 DEF TypeInv, DiskTyped
<1>2. ASSUME NEW j \in Jobs, Submit(j) \/ Approve(j) \/ Retrieve(j) \/ Execute(j)
      PROVE  DiskTyped'
  BY <1>1, <1>2, Zenon DEF Submit, Approve, Retrieve, Execute, disk
<1>3. CASE SubmittedStatus \/ Start \/ Recover
  BY <1>1, <1>3, Zenon DEF SubmittedStatus, Start, Recover, disk
<1>4. CASE Reconcile
  <2>1. ASSUME NEW j \in Submitted, WriteFile(BundleOf(j)), UNCHANGED <<catalog, pages>>
        PROVE  DiskTyped'
    <3>1. BundleOf(j).job = j /\ j \in Jobs
      BY DEF BundleOf, Submitted
    <3> QED BY <2>1, <3>1, WriteFileTyped DEF PublicInv, TypeInv
  <2> QED BY <1>1, <1>4, <2>1, Zenon DEF Reconcile
<1>5. ASSUME NEW t \in Threads, Publish(t) PROVE DiskTyped'
  <2>1. threads[t].bundle.job \in Jobs
    BY <1>5, Zenon DEF Publish, At, PublicInv, ThreadOK, Bundled, Bundle
  <2>2. CASE WriteFile(threads[t].bundle)
    BY <1>5, <2>1, <2>2, WriteFileTyped, Zenon DEF Publish, PublicInv, TypeInv
  <2> QED BY <1>1, <1>5, <2>2, Zenon DEF Publish
<1>6. ASSUME NEW t \in Threads, UNCHANGED <<file, catalog, missed>>,
             \/ pages' \subseteq pages
             \/ \E b \in threads[t].listed :
                  pages' \subseteq pages \cup {PageOf(threads[t].listed, b),
                                               Torn(PageOf(threads[t].listed, b))}
      PROVE  DiskTyped'
  <2>1. CASE pages' \subseteq pages
    BY <1>6, <2>1 DEF TypeInv, DiskTyped
  <2>2. threads[t].listed \in SUBSET Bundle
    BY DEF TypeInv, ThreadTyped
  <2> QED BY <1>6, <2>1, <2>2, PagesTyped, Zenon DEF TypeInv
<1>7. ASSUME NEW t \in Threads, WritePage(t) PROVE DiskTyped'
  BY <1>6, <1>7, Zenon DEF WritePage
<1>8. ASSUME NEW t \in Threads, SwitchCatalog(t) PROVE DiskTyped'
  <2>1. UNCHANGED <<file, pages, missed>> /\ (catalog' = threads[t].listed \/ catalog' = catalog)
    BY <1>8, Zenon DEF SwitchCatalog
  <2> QED BY <2>1 DEF TypeInv, ThreadTyped, DiskTyped
<1>9. ASSUME NEW t \in Threads, Prune(t) PROVE DiskTyped'
  <2>1. UNCHANGED <<file, catalog, missed>> /\ pages' \subseteq pages
    BY <1>9, Zenon DEF Prune
  <2> QED BY <1>6, <2>1
<1>10. CASE Kill
  <2>1. UNCHANGED <<file, catalog, missed>>
    BY <1>10 DEF Kill
  <2> QED BY <1>6, <1>10, <2>1, Zenon DEF Kill, Threads
<1>11. ASSUME NEW t \in Threads, ThreadStep(t) PROVE DiskTyped'
  <2>1. CASE ReadReceipt(t) \/ ReadRecord(t) \/ ReadLedger(t) \/ TakeLock(t)
    BY <1>1, <2>1, Zenon DEF ReadReceipt, ReadRecord, ReadLedger, TakeLock, disk
  <2> QED BY <1>5, <1>7, <1>8, <1>9, <1>11, <2>1, Zenon DEF ThreadStep
<1>12. CASE UNCHANGED vars
  BY <1>1, <1>12 DEF vars
<1> QED BY <1>2, <1>3, <1>4, <1>10, <1>11, <1>12, Zenon
        DEF Next, ListenerStep, WorkerStep, Threads

LEMMA MemoryKeepsType ==
  ASSUME PublicInv, TypeInv, [Next]_vars
  PROVE  MemoryTyped'
<1>1. ASSUME Works \/ Fails, broker' \in {"serving", "down", "starting"},
             published' = published \/ published' = <<>>
      PROVE  MemoryTyped'
  <2>1. faults' \in 0 .. MaxFaults
    BY <1>1, FaultsTyped DEF TypeInv
  <2>2. <<>> \in Seq(Bundle) /\ Len(<<>>) <= CatalogLimit
    BY PublicationAssumption
  <2> QED BY <1>1, <2>1, <2>2, Zenon DEF TypeInv, MemoryTyped
<1>2. broker \in {"serving", "down", "starting"}
  BY DEF TypeInv, MemoryTyped
<1>3. ASSUME NEW j \in Jobs, Submit(j) \/ Approve(j) \/ Retrieve(j) \/ Execute(j)
      PROVE  MemoryTyped'
  BY <1>1, <1>2, <1>3, Zenon DEF Submit, Approve, Retrieve, Execute, Works
<1>4. CASE SubmittedStatus \/ Start \/ Recover \/ Kill
  BY <1>1, <1>2, <1>4, Zenon DEF SubmittedStatus, Start, Recover, Kill, Works
<1>5. ASSUME NEW t, CatalogFails(t), Works \/ Fails PROVE MemoryTyped'
  BY <1>1, <1>2, <1>5, Zenon DEF CatalogFails
<1>6. CASE Reconcile
  <2>1. ASSUME NEW b, WriteFile(b) PROVE Works \/ Fails
    BY <2>1 DEF WriteFile
  <2> QED BY <1>1, <1>2, <1>5, <1>6, <2>1, Zenon DEF Reconcile, Works
<1>7. ASSUME NEW t \in Threads, Prune(t) PROVE MemoryTyped'
  <2>1. threads[t].at = "prune"
    BY <1>7, Zenon DEF Prune, At
  <2>2. CASE /\ Works /\ UNCHANGED broker /\ threads[t].next # "serve"
             /\ published' = Remember(published, threads[t].bundle)
    <3>1. threads[t].bundle \in Bundle
      BY <2>1, <2>2, Zenon DEF TypeInv, ThreadTyped
    <3>2. published' \in Seq(Bundle) /\ Len(published') <= CatalogLimit
      BY <2>2, <3>1, RememberTyped DEF TypeInv, MemoryTyped
    <3> QED BY <2>2, <3>2, Zenon DEF TypeInv, MemoryTyped, Works
  <2>3. CASE Works /\ broker' = "serving" /\ published' = LastBundles(threads[t].done)
    <3>1. published' \in Seq(Bundle) /\ Len(published') <= CatalogLimit
      BY <2>3, LastBundlesTyped DEF PublicInv, TypeInv, ThreadTyped
    <3> QED BY <2>3, <3>1, Zenon DEF TypeInv, MemoryTyped, Works
  <2> QED BY <1>5, <1>7, <2>2, <2>3, Zenon DEF Prune
<1>8. ASSUME NEW t \in Threads, ThreadStep(t) PROVE MemoryTyped'
  <2>1. CASE ReadReceipt(t) \/ ReadRecord(t) \/ ReadLedger(t) \/ TakeLock(t)
    BY <1>1, <1>2, <2>1, Zenon DEF ReadReceipt, ReadRecord, ReadLedger, TakeLock, Works
  <2>2. CASE Publish(t)
    <3>1. ASSUME NEW b, WriteFile(b) PROVE Works \/ Fails
      BY <3>1 DEF WriteFile
    <3> QED BY <1>1, <1>2, <2>2, <3>1, Zenon DEF Publish, Works
  <2>3. CASE WritePage(t) \/ SwitchCatalog(t)
    BY <1>1, <1>2, <1>5, <2>3, Zenon DEF WritePage, SwitchCatalog
  <2> QED BY <1>7, <1>8, <2>1, <2>2, <2>3, Zenon DEF ThreadStep
<1>9. CASE UNCHANGED vars
  BY <1>1, <1>2, <1>9, Zenon DEF vars, Works
<1> QED BY <1>3, <1>4, <1>6, <1>8, <1>9, Zenon DEF Next, ListenerStep, WorkerStep, Threads

\* A thread that begins again has nothing of a catalog.
LEMMA BlankTyped ==
  ASSUME NEW t, threads'[t].listed = {}, threads'[t].done = <<>>, threads'[t].todo = <<>>,
         threads'[t].at \notin {"pages", "prune", "reconcile"}
  PROVE  ThreadTyped(t)'
BY DEF ThreadTyped

\* A thread that is done with the publication has nothing left of it.
LEMMA LeavesTyped ==
  ASSUME PublicInv, NEW t \in Threads, threads[t].next # "serve", Leaves(t)
  PROVE  ThreadTyped(t)' /\ \A u \in Threads : u # t => threads'[u] = threads[u]
<1>1. /\ threads'[t] = After(threads[t])
      /\ \A u \in Threads : u # t => threads'[u] = threads[u]
  BY Zenon DEF PublicInv, Shaped, Leaves
<1>2. threads[t].next \in {"answer", "retrieve", "recover"}
  BY Zenon DEF PublicInv, ThreadOK, Control
<1>3. /\ Resting.listed = {} /\ Resting.done = <<>> /\ Resting.todo = <<>>
      /\ Resting.at = "idle"
  BY Zenon DEF Resting
<1>4. CASE threads[t].next = "answer"
  <2>1. threads'[t] = Resting
    BY <1>1, <1>4 DEF After
  <2> QED BY <1>1, <1>3, <2>1, BlankTyped
<1>5. CASE threads[t].next = "retrieve"
  <2>1. threads'[t] = [Resting EXCEPT !.at = "receipt", !.job = threads[t].job]
    BY <1>1, <1>5 DEF After
  <2> QED BY <1>1, <2>1, BlankTyped, Zenon DEF Resting
<1>6. CASE threads[t].next = "recover"
  <2>1. threads'[t] = [Resting EXCEPT !.at = "recover", !.next = "recover"]
    BY <1>1, <1>6 DEF After
  <2> QED BY <1>1, <2>1, BlankTyped, Zenon DEF Resting
<1> QED BY <1>2, <1>4, <1>5, <1>6

LEMMA RestsTyped ==
  ASSUME PublicInv, NEW t \in Threads, threads' = [threads EXCEPT ![t] = Resting]
  PROVE  ThreadTyped(t)' /\ \A u \in Threads : u # t => threads'[u] = threads[u]
<1>1. threads'[t] = Resting /\ \A u \in Threads : u # t => threads'[u] = threads[u]
  BY DEF PublicInv, Shaped
<1> QED BY <1>1, RestingFields, BlankTyped, Zenon

LEMMA CatalogFailsTyped ==
  ASSUME PublicInv, NEW t \in Threads, CatalogFails(t)
  PROVE  ThreadTyped(t)' /\ \A u \in Threads : u # t => threads'[u] = threads[u]
BY LeavesTyped, RestsTyped, Zenon DEF CatalogFails

\* A thread that reads, waits or is handed a job, with what it has listed as it was.
LEMMA MovesTyped ==
  ASSUME PublicInv, TypeInv, NEW t \in Threads, NEW c, Goes(t, c),
         DOMAIN c \subseteq {"at", "job", "next", "draft"}, "at" \in DOMAIN c,
         c.at \in {"submitted", "lock", "receipt", "record", "ledger", "publish", "recover"},
         \/ lock # t
         \/ threads[t].at \in Reads /\ "next" \notin DOMAIN c,
         Submitted \subseteq Submitted'
  PROVE  ThreadTyped(t)' /\ \A u \in Threads : u # t => threads'[u] = threads[u]
<1>1. /\ \A f \in Slots : threads'[t][f] = IF f \in DOMAIN c THEN c[f] ELSE threads[t][f]
      /\ \A u \in Threads : u # t => threads'[u] = threads[u]
  BY GoesTo, Zenon DEF Slots
<1>2. /\ threads'[t].at = c.at /\ threads'[t].listed = threads[t].listed
      /\ threads'[t].done = threads[t].done /\ threads'[t].todo = threads[t].todo
      /\ threads'[t].bundle = threads[t].bundle
      /\ "next" \notin DOMAIN c => threads'[t].next = threads[t].next
  BY <1>1, SMTT(30) DEF Slots
<1>3. threads[t].todo = <<>> \/ (threads[t].at \in Reads /\ "next" \notin DOMAIN c)
  BY Zenon DEF PublicInv, ThreadOK, Control
<1>4. ThreadTyped(t)
  BY Zenon DEF TypeInv
<1>5. threads'[t].done \in Seq(Submitted')
  BY <1>2, <1>4, SeqGrows, Zenon DEF ThreadTyped
<1> QED BY <1>1, <1>2, <1>3, <1>4, <1>5, Zenon DEF ThreadTyped

\* Outside the publication no thread has its lock.
LEMMA ListenerUnlocked ==
  ASSUME PublicInv, NEW t \in Threads,
         threads[t].at \in {"idle", "submitted", "lock", "recover"}
  PROVE  lock # t
BY DEF PublicInv, ThreadOK, Control, Reads, Locked

\* A request hands its job to a thread that rests.
LEMMA HandedTyped ==
  ASSUME PublicInv, TypeInv, Submitted \subseteq Submitted', NEW j \in Jobs,
         NEW t \in Threads, t = IF Execute(j) THEN "worker" ELSE "listener",
         Submit(j) \/ Approve(j) \/ Retrieve(j) \/ Execute(j)
  PROVE  ThreadTyped(t)' /\ \A u \in Threads : u # t => threads'[u] = threads[u]
<1>1. ASSUME NEW a \in {"submitted", "lock", "receipt"}, NEW n,
             threads[t].at = "idle", Goes(t, [at |-> a, job |-> j, next |-> n])
      PROVE  ThreadTyped(t)' /\ \A u \in Threads : u # t => threads'[u] = threads[u]
  <2>1. lock # t
    BY <1>1, ListenerUnlocked, Zenon
  <2> QED BY <1>1, <2>1, MovesTyped, Zenon
<1>2. CASE Submit(j) /\ ~ Execute(j)
  <2>1. PICK r : Goes("listener", [at |-> IF r = Running THEN "submitted" ELSE "lock",
                                   job |-> j, next |-> "retrieve"])
    BY <1>2, Zenon DEF Submit
  <2>2. PICK a \in {"submitted", "lock", "receipt"} :
          a = IF r = Running THEN "submitted" ELSE "lock"
    BY Zenon
  <2> QED BY <1>1, <1>2, <2>1, <2>2, Zenon DEF Submit, At
<1>3. CASE (Approve(j) \/ Retrieve(j)) /\ ~ Execute(j)
  BY <1>1, <1>3, Zenon DEF Approve, Retrieve, At
<1>4. CASE Execute(j)
  BY <1>1, <1>4, Zenon DEF Execute, At
<1> QED BY <1>2, <1>3, <1>4, Zenon

LEMMA ReadLedgerTyped ==
  ASSUME PublicInv, TypeInv, Submitted \subseteq Submitted', NEW t \in Threads, ReadLedger(t)
  PROVE  ThreadTyped(t)' /\ \A u \in Threads : u # t => threads'[u] = threads[u]
<1>1. PICK b : b = [threads[t].draft EXCEPT !.history = HistoryOf(Reading(t))]
  BY Zenon
<1>2. threads[t].at = "ledger" /\ threads[t].at \in Reads
  BY DEF ReadLedger, At, Reads
<1>3. b \in Bundle
  <2>1. record[Reading(t)] \in Revisions
    BY <1>2, ReadsSubmitted, Zenon
  <2>2. threads[t].draft \in Bundle
    BY <1>2, Zenon DEF PublicInv, ThreadOK, Drafted
  <2> QED BY <1>1, <2>1, <2>2, Zenon DEF HistoryOf, Bundle
<1>4. ThreadTyped(t)
  BY Zenon DEF TypeInv
<1>5. CASE threads[t].todo # <<>>
  <2>0. PICK a, l, q :
          /\ a = IF Len(threads[t].todo) = 1 THEN "pages" ELSE "receipt"
          /\ l = threads[t].listed \cup {b} /\ q = Tail(threads[t].todo)
    BY Zenon
  <2>1. Goes(t, [at |-> a, listed |-> l, draft |-> NoBundle, todo |-> q])
    BY <1>1, <1>5, <2>0, Zenon DEF ReadLedger
  <2>2. /\ \A u \in Threads : u # t => threads'[u] = threads[u]
        /\ threads'[t].at = a /\ threads'[t].listed = l
        /\ \A f \in {"done", "next", "bundle"} : threads'[t][f] = threads[t][f]
    BY <2>1, GoesListing, Zenon
  <2>3. /\ threads'[t].next = threads[t].next /\ threads'[t].done = threads[t].done
        /\ threads'[t].bundle = threads[t].bundle
    BY <2>2
  <2>4. threads[t].next # "serve" => threads[t].bundle \in Bundle
    BY <1>2, <1>4, <1>5, Zenon DEF ThreadTyped
  <2>5. threads'[t].done \in Seq(Submitted')
    BY <1>4, <2>3 DEF ThreadTyped
  <2>6. l \subseteq Bundle /\ a # "reconcile"
    BY <1>3, <1>4, <2>0, Zenon DEF ThreadTyped
  <2> QED BY <2>2, <2>3, <2>4, <2>5, <2>6, Zenon DEF ThreadTyped
<1>6. CASE threads[t].todo = <<>>
  <2>1. Goes(t, [at |-> IF lock = t THEN "publish" ELSE "lock",
                 draft |-> NoBundle, bundle |-> b])
    BY <1>1, <1>6, Zenon DEF ReadLedger
  <2>2. /\ \A u \in Threads : u # t => threads'[u] = threads[u]
        /\ threads'[t].at = IF lock = t THEN "publish" ELSE "lock"
        /\ \A f \in {"done", "listed"} : threads'[t][f] = threads[t][f]
    BY <2>1, GoesReady, Zenon
  <2>3. threads'[t].done = threads[t].done /\ threads'[t].listed = threads[t].listed
    BY <2>2, Zenon
  <2>4. threads'[t].done \in Seq(Submitted') /\ threads'[t].listed \subseteq Bundle
    BY <1>4, <2>3 DEF ThreadTyped
  <2>5. threads'[t].at \in {"publish", "lock"}
    BY <2>2
  <2> QED BY <2>2, <2>4, <2>5 DEF ThreadTyped, Reads
<1> QED BY <1>5, <1>6

\* A thread that goes on with the catalog, its bundle as it was.
LEMMA ListsTyped ==
  ASSUME PublicInv, TypeInv, NEW t \in Threads, NEW c, Goes(t, c),
         DOMAIN c \subseteq {"at", "todo", "keep"}, "at" \in DOMAIN c, c.at # "reconcile",
         threads[t].next = "serve" \/ threads[t].bundle \in Bundle,
         Submitted \subseteq Submitted'
  PROVE  ThreadTyped(t)' /\ \A u \in Threads : u # t => threads'[u] = threads[u]
<1>1. /\ \A f \in Slots : threads'[t][f] = IF f \in DOMAIN c THEN c[f] ELSE threads[t][f]
      /\ \A u \in Threads : u # t => threads'[u] = threads[u]
  BY GoesTo, Zenon DEF Slots
<1>2. /\ threads'[t].at = c.at /\ threads'[t].listed = threads[t].listed
      /\ threads'[t].done = threads[t].done /\ threads'[t].next = threads[t].next
      /\ threads'[t].bundle = threads[t].bundle
  BY <1>1, Zenon DEF Slots
<1>3. ThreadTyped(t)
  BY Zenon DEF TypeInv
<1>4. threads'[t].done \in Seq(Submitted')
  BY <1>2, <1>3, SeqGrows, Zenon DEF ThreadTyped
<1> QED BY <1>1, <1>2, <1>3, <1>4, Zenon DEF ThreadTyped

\* The file of the bundle, and then the catalog of the last ones.
LEMMA PublishTyped ==
  ASSUME PublicInv, TypeInv, Submitted \subseteq Submitted', NEW t \in Threads, Publish(t)
  PROVE  ThreadTyped(t)' /\ \A u \in Threads : u # t => threads'[u] = threads[u]
<1>1. threads[t].at = "publish"
  BY Zenon DEF Publish, At
<1>2. threads[t].bundle \in Bundle /\ threads[t].next # "serve"
  BY <1>1, Zenon DEF PublicInv, ThreadOK, Bundled, Control, Reads
<1>3. CASE Goes(t, Listing)
  <2>1. DOMAIN Listing \subseteq {"at", "todo", "keep"} /\ "at" \in DOMAIN Listing
        /\ Listing.at # "reconcile"
    BY Zenon DEF Listing
  <2> QED BY <1>2, <1>3, <2>1, ListsTyped, Zenon
<1>4. CASE Leaves(t)
  BY <1>2, <1>4, LeavesTyped, Zenon
<1> QED BY <1>3, <1>4, Zenon DEF Publish

\* The pages, catalog.json and the prune.
LEMMA CatalogTyped ==
  ASSUME PublicInv, TypeInv, Submitted \subseteq Submitted', NEW t \in Threads,
         WritePage(t) \/ SwitchCatalog(t) \/ Prune(t)
  PROVE  /\ ThreadTyped(t)'
         /\ \A u \in Threads : u # t => threads'[u] = threads[u]
<1>1. ThreadTyped(t)
  BY Zenon DEF TypeInv
<1>2. ASSUME UNCHANGED threads PROVE ThreadTyped(t)'
  <2>1. threads'[t].done \in Seq(Submitted')
    BY <1>1, <1>2, SeqGrows, Zenon DEF ThreadTyped
  <2> QED BY <1>1, <1>2, <2>1, Zenon DEF ThreadTyped
<1>3. CASE CatalogFails(t)
  BY <1>3, CatalogFailsTyped
<1>4. CASE WritePage(t)
  <2>1. UNCHANGED threads \/ CatalogFails(t)
    BY <1>4, Zenon DEF WritePage
  <2> QED BY <1>2, <1>3, <2>1
<1>5. ASSUME NEW k, threads[t].at = "pages", Goes(t, [at |-> "prune", keep |-> k])
      PROVE  ThreadTyped(t)' /\ \A u \in Threads : u # t => threads'[u] = threads[u]
  <2>1. threads[t].next = "serve" \/ threads[t].bundle \in Bundle
    BY <1>1, <1>5 DEF ThreadTyped
  <2> QED BY <1>5, <2>1, ListsTyped, Zenon
<1>6. CASE SwitchCatalog(t)
  BY <1>3, <1>5, <1>6, Zenon DEF SwitchCatalog, At
<1>7. CASE Prune(t)
  <2>1. \/ CatalogFails(t)
        \/ threads[t].next # "serve" /\ Leaves(t)
        \/ threads' = [threads EXCEPT ![t] = Resting]
    BY <1>7, Zenon DEF Prune
  <2> QED BY <1>3, <2>1, LeavesTyped, RestsTyped
<1> QED BY <1>4, <1>6, <1>7

\* The repairs at start, job by job.
LEMMA RecoverTyped ==
  ASSUME PublicInv, TypeInv, Submitted \subseteq Submitted', Recover
  PROVE  ThreadTyped("listener")' /\ \A u \in Threads : u # "listener" => threads'[u] = threads[u]
<1>1. "listener" \in Threads /\ threads["listener"].at = "recover" /\ lock # "listener"
  BY ListenerUnlocked, Zenon DEF Threads, Recover, At
<1>2. ASSUME NEW j, Goes("listener", [at |-> "receipt", job |-> j])
      PROVE  /\ ThreadTyped("listener")'
             /\ \A u \in Threads : u # "listener" => threads'[u] = threads[u]
  BY <1>1, <1>2, MovesTyped, Zenon
<1>3. CASE Goes("listener", [at |-> "reconcile", next |-> "serve", done |-> <<>>])
  <2>1. /\ \A u \in Threads : u # "listener" => threads'[u] = threads[u]
        /\ threads'["listener"].at = "reconcile" /\ threads'["listener"].next = "serve"
        /\ threads'["listener"].done = <<>>
        /\ threads'["listener"].listed = threads["listener"].listed
    BY <1>1, <1>3, GoesTo DEF Slots
  <2>2. threads["listener"].listed \subseteq Bundle
    BY <1>1 DEF TypeInv, ThreadTyped
  <2> QED BY <2>1, <2>2 DEF ThreadTyped
<1> QED BY <1>2, <1>3, Zenon DEF Recover

LEMMA ReconcileTyped ==
  ASSUME PublicInv, TypeInv, Submitted \subseteq Submitted', Reconcile
  PROVE  ThreadTyped("listener")' /\ \A u \in Threads : u # "listener" => threads'[u] = threads[u]
<1>1. "listener" \in Threads /\ threads["listener"].at = "reconcile"
  BY Zenon DEF Threads, Reconcile, At
<1>2. threads["listener"].next = "serve" /\ ThreadTyped("listener")
  BY <1>1, Zenon DEF TypeInv, ThreadTyped
<1>3. CASE Goes("listener", IF recent = <<>> THEN [at |-> "pages"] ELSE Listing)
  <2>1. PICK c : c = IF recent = <<>> THEN [at |-> "pages"] ELSE Listing
    BY Zenon
  <2>2. /\ DOMAIN c \subseteq {"at", "todo", "keep"} /\ "at" \in DOMAIN c
        /\ c.at # "reconcile"
    BY <2>1, Zenon DEF Listing
  <2> QED BY <1>1, <1>2, <1>3, <2>1, <2>2, ListsTyped, Zenon
<1>4. ASSUME NEW j \in Submitted,
             Goes("listener", [done |-> Append(threads["listener"].done, j)])
      PROVE  /\ ThreadTyped("listener")'
             /\ \A u \in Threads : u # "listener" => threads'[u] = threads[u]
  <2>1. PICK d : d = Append(threads["listener"].done, j)
    BY Zenon
  <2>2. d \in Seq(Submitted')
    BY <1>2, <2>1 DEF ThreadTyped
  <2>3. /\ \A u \in Threads : u # "listener" => threads'[u] = threads[u]
        /\ threads'["listener"].done = d
        /\ threads'["listener"].next = threads["listener"].next
        /\ threads'["listener"].listed = threads["listener"].listed
    <3>1. Goes("listener", [done |-> d])
      BY <1>4, <2>1, Zenon
    <3> QED BY <1>1, <3>1, GoesTo DEF Slots
  <2> QED BY <1>2, <2>2, <2>3 DEF ThreadTyped
<1>5. CASE CatalogFails("listener")
  BY <1>1, <1>5, CatalogFailsTyped
<1> QED BY <1>3, <1>4, <1>5, Zenon DEF Reconcile

\* Every step moves one thread, if any.
LEMMA ThreadsKeepType ==
  ASSUME PublicInv, TypeInv, [Next]_vars
  PROVE  \A t \in Threads : ThreadTyped(t)'
<1>1. Submitted \subseteq Submitted'
  BY StoreKeepsType, Zenon
<1>2. ASSUME NEW u \in Threads, threads'[u] = threads[u] PROVE ThreadTyped(u)'
  <2>1. ThreadTyped(u)
    BY DEF TypeInv
  <2>2. threads'[u].done \in Seq(Submitted')
    BY <1>1, <1>2, <2>1 DEF ThreadTyped
  <2> QED BY <1>2, <2>1, <2>2 DEF ThreadTyped
<1>3. ASSUME NEW t \in Threads, ThreadTyped(t)',
             \A u \in Threads : u # t => threads'[u] = threads[u]
      PROVE  \A u \in Threads : ThreadTyped(u)'
  BY <1>2, <1>3, Zenon
<1>4. "listener" \in Threads /\ "worker" \in Threads
  BY Zenon DEF Threads
<1>5. ASSUME NEW j \in Jobs, Submit(j) \/ Approve(j) \/ Retrieve(j) \/ Execute(j)
      PROVE  \A u \in Threads : ThreadTyped(u)'
  <2>1. PICK t \in Threads : t = IF Execute(j) THEN "worker" ELSE "listener"
    BY <1>4
  <2> QED BY <1>1, <1>3, <1>5, <2>1, HandedTyped, Zenon
<1>6. CASE SubmittedStatus
  <2>1. CASE Goes("listener", [at |-> "lock"])
    <3>1. lock # "listener"
      BY <1>4, <1>6, ListenerUnlocked, Zenon DEF SubmittedStatus, At
    <3>2. ThreadTyped("listener")' /\ \A u \in Threads : u # "listener" => threads'[u] = threads[u]
      BY <1>1, <1>4, <2>1, <3>1, MovesTyped, Zenon
    <3> QED BY <1>3, <1>4, <3>2, Zenon
  <2>2. CASE Goes("listener", Resting)
    <3>1. DOMAIN Resting = Slots
      BY Zenon DEF Resting, Slots
    <3>2. /\ \A f \in Slots : threads'["listener"][f] = Resting[f]
          /\ \A u \in Threads : u # "listener" => threads'[u] = threads[u]
      BY <1>4, <2>2, <3>1, GoesTo, Zenon
    <3>3. /\ threads'["listener"].listed = {} /\ threads'["listener"].done = <<>>
          /\ threads'["listener"].todo = <<>> /\ threads'["listener"].at = "idle"
      BY <3>2, Zenon DEF Resting, Slots
    <3>4. ThreadTyped("listener")'
      BY <3>3, BlankTyped
    <3> QED BY <1>3, <1>4, <3>2, <3>4, Zenon
  <2> QED BY <1>6, <2>1, <2>2, Zenon DEF SubmittedStatus
<1>7. CASE Start
  <2>1. threads["listener"].at = "idle" /\ Goes("listener", [at |-> "recover", next |-> "recover"])
    BY <1>7, Zenon DEF Start, PublicInv
  <2>2. lock # "listener"
    BY <1>4, <2>1, ListenerUnlocked, Zenon
  <2>3. ThreadTyped("listener")' /\ \A u \in Threads : u # "listener" => threads'[u] = threads[u]
    BY <1>1, <1>4, <2>1, <2>2, MovesTyped, Zenon
  <2> QED BY <1>3, <1>4, <2>3, Zenon
<1>8. CASE Recover \/ Reconcile
  BY <1>1, <1>3, <1>4, <1>8, RecoverTyped, ReconcileTyped
<1>9. ASSUME NEW t \in Threads, ThreadStep(t) PROVE \A u \in Threads : ThreadTyped(u)'
  <2>1. ASSUME NEW a \in {"record", "ledger"}, NEW d, threads[t].at \in Reads,
               Goes(t, [at |-> a, draft |-> d])
        PROVE  \A u \in Threads : ThreadTyped(u)'
    <3>1. ThreadTyped(t)' /\ \A u \in Threads : u # t => threads'[u] = threads[u]
      BY <1>1, <2>1, MovesTyped
    <3> QED BY <1>3, <3>1, Zenon
  <2>2. CASE ReadReceipt(t)
    BY <2>1, <2>2 DEF ReadReceipt, At, Reads
  <2>3. CASE ReadRecord(t)
    BY <2>1, <2>3 DEF ReadRecord, At, Reads
  <2>4. CASE TakeLock(t)
    <3>1. lock # t
      BY <2>4, ListenerUnlocked, Zenon DEF TakeLock, At
    <3>2. PICK a \in {"publish", "receipt"} : Goes(t, [at |-> a])
      BY <2>4, Zenon DEF TakeLock
    <3>3. ThreadTyped(t)' /\ \A u \in Threads : u # t => threads'[u] = threads[u]
      BY <1>1, <3>1, <3>2, MovesTyped, Zenon
    <3> QED BY <1>3, <3>3, Zenon
  <2>5. CASE ReadLedger(t) \/ Publish(t)
    BY <1>1, <1>3, <2>5, ReadLedgerTyped, PublishTyped, Zenon
  <2>6. CASE WritePage(t) \/ SwitchCatalog(t) \/ Prune(t)
    BY <1>1, <1>3, <2>6, CatalogTyped
  <2> QED BY <1>9, <2>2, <2>3, <2>4, <2>5, <2>6, Zenon DEF ThreadStep
<1>10. CASE Kill
  <2>1. ASSUME NEW t \in Threads PROVE ThreadTyped(t)'
    <3>1. threads'[t] = Resting
      BY <1>10, Zenon DEF Kill
    <3> QED BY <3>1, RestingFields, BlankTyped, Zenon
  <2> QED BY <2>1, Zenon
<1>11. CASE UNCHANGED vars
  BY <1>2, <1>11 DEF vars
<1> QED BY <1>5, <1>6, <1>7, <1>8, <1>9, <1>10, <1>11, Zenon
        DEF Next, ListenerStep, WorkerStep, Threads

LEMMA TypesBegin ==
  Init => TypeInv
<1> SUFFICES ASSUME Init PROVE TypeInv
  OBVIOUS
<1>1. StoreTyped
  BY DEF Init, StoreTyped, Submitted, Elements, Once
<1>2. DiskTyped
  BY DEF Init, DiskTyped
<1>3. MemoryTyped
  BY PublicationAssumption DEF Init, MemoryTyped
<1>4. ASSUME NEW t \in Threads PROVE ThreadTyped(t)
  <2>1. threads[t] = Resting
    BY Zenon DEF Init
  <2>2. threads[t].listed = {} /\ threads[t].done = <<>> /\ threads[t].at = "idle"
    BY <2>1 DEF Resting
  <2> QED BY <2>2 DEF ThreadTyped, Reads
<1> QED BY <1>1, <1>2, <1>3, <1>4 DEF TypeInv

LEMMA Typed ==
  Spec => []TypeInv
<1>1. PublicInv /\ TypeInv /\ [Next]_vars => TypeInv'
  BY StoreKeepsType, DiskKeepsType, MemoryKeepsType, ThreadsKeepType DEF TypeInv
<1> QED BY <1>1, TypesBegin, Published, PTL DEF Spec

--------------------------------------------------------------------------------
(* The theorems *)

\* Whatever commits between the three reads of public_projection, a bundle and
\* a file show a receipt only with a final state and a history that holds the
\* state they report.
THEOREM BundlesAreOrdered ==
  Spec => []BundlesOrdered
<1>1. PublicInv => BundlesOrdered
  <2>1. Ordered(NoBundle)
    BY DEF Ordered, NoBundle, Pending
  <2> QED BY <2>1, Zenon DEF PublicInv, WorldOK, ThreadOK, Bundled, Cataloged, BundlesOrdered
<1> QED BY <1>1, Published, PTL

\* _publish_immutable_file, _publish_current_catalog and the prune leave, at
\* every moment and through every crash, a catalog.json whose pages are whole.
THEOREM CatalogIsWhole ==
  Spec => []CatalogWhole
<1>1. ASSUME PublicInv, TypeInv PROVE CatalogWhole
  <2>1. Elements(published) \subseteq Bundle
    BY <1>1, ElementsOf, Zenon DEF TypeInv, MemoryTyped
  <2>2. \A t \in Threads : threads[t].bundle \in Bundle \cup {NoBundle}
    BY <1>1, Zenon DEF PublicInv, ThreadOK, Bundled
  <2>3. TypeOK
    BY <1>1, <2>1, <2>2, Zenon
       DEF PublicInv, WorldOK, TypeInv, StoreTyped, Once, DiskTyped, MemoryTyped, TypeOK
  <2> QED BY <1>1, <2>3, Zenon DEF PublicInv, WorldOK, CatalogWhole
<1>2. PublicInv /\ TypeInv => CatalogWhole
  BY <1>1
<1> QED BY <1>2, Published, Typed, PTL

\* No projection.json goes back to an earlier revision of its job, whatever
\* _remember_publication has forgotten: the lock and the revision that is read
\* again under it suffice.
THEOREM NeverGoesBack ==
  Spec => PublicNeverBack
<1>1. PublicInv /\ [Next]_vars =>
        [\A j \in Jobs : file[j] # Absent => file'[j] # Absent
                                             /\ file'[j].status >= file[j].status]_vars
  BY StepKeeps DEF FilesForward
<1> QED BY <1>1, Published, PTL DEF Spec, PublicNeverBack
================================================================================
