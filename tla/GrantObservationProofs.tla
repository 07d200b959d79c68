------------------------ MODULE GrantObservationProofs ------------------------
(***************************************************************************)
(* Complete grant evidence is a snapshot of the host, and the verdict of   *)
(* the runtime observation is true of the container that it resolved, for  *)
(* every number of grants, changes and faults.  The first rests on this: a *)
(* value that was seen and is gone does not come back (or the history      *)
(* variable `reverted' is set), so what two reads agree on also held at    *)
(* the inventory between them.                                             *)
(***************************************************************************)
EXTENDS GrantObservation, WellFoundedInduction, TLAPS

--------------------------------------------------------------------------------
(* The invariant *)

StatusStages == {"stat", "findmnt", "again", "access", "final", "inventory"}

\* The world is one of those that were, and a container id is not used again.
History ==
  /\ world \in worlds
  /\ obs.op = "runtime" =>
       \A w \in worlds : obs.container <= w.container /\ w.container <= world.container

SeenHost(g, v) == \E w \in worlds : w.host[g] = v
SeenOpen(g, v) == \E w \in worlds : w.open[g] = v

AccessOf(open) == IF open THEN "allow" ELSE "deny"

\* The item that is being put together at the grant g.  What was read first is
\* either still so, or it has been so and will be noticed.
ItemOK(g) ==
  /\ obs.at \in {"findmnt", "again", "access", "final"} => SeenOpen(g, obs.id.open)
  /\ obs.at \in {"again", "access", "final"} =>
       SeenHost(g, obs.item.rows) /\ obs.item.open = obs.id.open
  /\ obs.at \in {"access", "final"} =>
       /\ obs.item.complete /\ obs.id.open = world.open[g] /\ obs.id.shows = "source"
          /\ Shows(obs.item.rows) = "source" => obs.item.match
       /\ obs.item.match => obs.id.shows = "source"
  /\ obs.at = "final" /\ obs.id.open = world.open[g] =>
       obs.item.access = AccessOf(obs.id.open)

\* A complete item described its grant when it was taken.
Described ==
  \A r \in 1 .. 2, g \in Grants : obs.evidence[r][g].complete =>
    \E w \in worlds : Describes(obs.evidence[r][g], w, g)

\* What the first round found at a grant was so at the inventory, in the world
\* w, or is not so any more; what the second round found again was so.
Between(w, g) ==
  LET first == obs.evidence[1][g]
      second == obs.evidence[2][g]
  IN first.complete =>
       /\ w.host[g] = first.rows \/ world.host[g] # first.rows
       /\ w.open[g] = first.open \/ world.open[g] # first.open
       /\ second.complete /\ second = first =>
            w.host[g] = first.rows /\ w.open[g] = first.open

Inventoried ==
  obs.round = 2 =>
    \E w \in worlds :
      /\ obs.targets = {g \in Grants : w.host[g] # "none"} /\ obs.exact = ~w.stray
      /\ \A g \in Grants : Between(w, g)

\* The second round begins after the inventory.
FirstRound ==
  /\ obs.at = "inventory" => obs.round = 1
  /\ obs.round = 1 => \A g \in Grants : ~obs.evidence[2][g].complete

Reported ==
  /\ obs.result = "complete" =>
       /\ obs.at = "report" /\ obs.round = 2 /\ obs.evidence[1] = obs.evidence[2]
       /\ \A g \in obs.paths.effective : obs.evidence[2][g].complete
       /\ obs.exact /\ obs.targets = obs.paths.effective

StatusInv ==
  /\ FirstRound /\ Reported
  /\ ~reverted => ItemOK(obs.grant) /\ Described /\ Inventoried

\* What the runtime observation has read.
HostRead ==
  \A g \in Grants : obs.hostRows[g] # "?" => SeenHost(g, obs.hostRows[g])
InsideRead ==
  \A g \in Grants : obs.insideRows[g] # "?" =>
    \E w \in Resolved : w.inside[g] = obs.insideRows[g]
ProbeRead ==
  \A g \in Grants : obs.reads[g] # "?" =>
    /\ obs.at = "report" /\ world.container = obs.container
    /\ obs.reads[g] = "read" => world.open[g]
    /\ obs.reads[g] = "denied" => ~world.open[g]
Judgement ==
  /\ obs.class # "none" =>
       obs.at = "report" /\ obs.class = Aggregate(obs) /\ obs.result = ResultOf(obs.class)
  /\ obs.class = "none" /\ obs.op = "runtime" => obs.result \in {"none", "unknown"}

RuntimeInv == HostRead /\ InsideRead /\ ProbeRead /\ Judgement

\* Which steps belong to which observer.  Evidence is gathered for paths.
Stages ==
  /\ obs.at \in StatusStages => obs.op = "status" /\ obs.paths.effective # {}
  /\ obs.op = "status" => obs.at \in StatusStages \cup {"master", "report"}

ObservationInv == TypeOK /\ History /\ Stages /\ StatusInv /\ RuntimeInv

LEMMA Rounds ==
  1 \in 1 .. 2 /\ 2 \in 1 .. 2 /\ 1 # 2
OBVIOUS

\* Nothing was read and nothing has changed that can be read.
LEMMA SameSight ==
  ASSUME ObservationInv, UNCHANGED <<world, obs, worlds, reverted>>
  PROVE  History' /\ Stages' /\ StatusInv' /\ RuntimeInv'
<1>1. History' /\ Stages' /\ FirstRound' /\ Reported'
  BY DEF ObservationInv, StatusInv, History, Stages, FirstRound, Reported
<1>2. ItemOK(obs.grant)' <=> ItemOK(obs.grant)
  BY DEF ItemOK, SeenHost, SeenOpen
<1>3. Described' <=> Described
  BY DEF Described
<1>4. Inventoried' <=> Inventoried
  <2>1. \A w \in worlds, g \in Grants : Between(w, g)' <=> Between(w, g)
    BY DEF Between
  <2> QED BY <2>1 DEF Inventoried
<1>5. RuntimeInv'
  BY DEF ObservationInv, RuntimeInv, HostRead, InsideRead, ProbeRead, Judgement, SeenHost,
         Resolved
<1> QED BY <1>1, <1>2, <1>3, <1>4, <1>5, Zenon DEF ObservationInv, StatusInv

--------------------------------------------------------------------------------
(* The model's operators *)

\* The first of the paths is one of them.
LEMMA FirstOK ==
  ASSUME NEW S \in SUBSET Grants, S # {}
  PROVE  First(S) \in S
<1>1. S \subseteq Nat
  BY GrantsAssumption DEF Grants
<1>2. PICK x \in S : \A y \in S : ~(<<y, x>> \in OpToRel(<, Nat))
  BY <1>1, WFMin, NatLessThanWellFounded, Zenon
<1>3. \A y \in S : x <= y
  <2> SUFFICES ASSUME NEW y \in S
               PROVE  x <= y
    OBVIOUS
  <2>1. <<y, x>> \in Nat \X Nat /\ ~(y < x)
    BY <1>1, <1>2 DEF OpToRel
  <2> QED BY <1>1, <2>1
<1> QED BY <1>2, <1>3, Zenon DEF First

LEMMA GapOK == Gap \in Item /\ ~Gap.complete
BY DEF Gap, Item

LEMMA IdleOK == Idle \in Observation
<1>1. 1 \in Grants /\ Grants \subseteq Grants
  BY GrantsAssumption DEF Grants
<1>2. [requested |-> Grants, effective |-> Grants] \in Declaration
  BY DEF Declaration
<1>3. [r \in 1 .. 2 |-> [g \in Grants |-> Gap]] \in [1 .. 2 -> [Grants -> Item]]
  BY GapOK
<1> QED BY <1>1, <1>2, <1>3, GapOK DEF Idle, Observation, NoIdentity, Identity

LEMMA IdentityOK ==
  ASSUME TypeOK, NEW g \in Grants
  PROVE  /\ IdentityOf(g) \in Identity
         /\ IdentityOf(g).shows = Shows(world.host[g]) /\ IdentityOf(g).open = world.open[g]
BY DEF TypeOK, World, IdentityOf, Identity, Shows

\* What the runtime observation has, and what the rounds have brought.
SameRuntime(o, p) ==
  /\ p.op = o.op /\ p.paths = o.paths /\ p.container = o.container /\ p.class = o.class
  /\ p.hostRows = o.hostRows /\ p.insideRows = o.insideRows /\ p.reads = o.reads
SameRounds(o, p) ==
  /\ p.round = o.round /\ p.grant = o.grant /\ p.evidence = o.evidence
  /\ p.targets = o.targets /\ p.exact = o.exact /\ p.result = o.result

\* An item that is taken goes to its round and grant, and nothing else changes but
\* the place to go on from.
LEMMA TakesField ==
  ASSUME obs \in Observation, NEW item \in Item, Takes(item)
  PROVE  /\ SameRuntime(obs, obs') /\ obs'.round = obs.round
         /\ obs'.targets = obs.targets /\ obs'.exact = obs.exact
         /\ obs'.evidence = [obs.evidence EXCEPT ![obs.round][obs.grant] = item]
         /\ obs'.at \in {"stat", "inventory", "report"}
         /\ obs'.at = "inventory" => obs.round = 1
BY DEF Observation, Takes, SameRuntime

\* Going on, or reporting, leaves an observation.
LEMMA GoesOn ==
  ASSUME NEW o \in Observation, NEW g \in Grants,
         NEW r \in {"complete", "incomplete", "unknown"}
  PROVE  /\ [o EXCEPT !.at = "stat", !.grant = g] \in Observation
         /\ [o EXCEPT !.at = "inventory"] \in Observation
         /\ [o EXCEPT !.at = "report", !.result = r] \in Observation
<1>1. [o EXCEPT !.at = "stat", !.grant = g] \in Observation
  BY Zenon DEF Observation
<1>2. [o EXCEPT !.at = "inventory"] \in Observation
  BY Zenon DEF Observation
<1>3. [o EXCEPT !.at = "report", !.result = r] \in Observation
  BY Zenon DEF Observation
<1> QED BY <1>1, <1>2, <1>3, Zenon

LEMMA BeginsAgain ==
  ASSUME NEW o \in Observation, NEW g \in Grants, NEW there \in SUBSET Grants,
         NEW exact \in BOOLEAN
  PROVE  [o EXCEPT !.at = "stat", !.round = 2, !.grant = g, !.targets = there,
                   !.exact = exact] \in Observation
BY Rounds, ZenonT(30) DEF Observation

LEMMA TakesOK ==
  ASSUME obs \in Observation, NEW item \in Item, Takes(item)
  PROVE  /\ obs' \in Observation
         /\ obs'.result = "complete" =>
              \/ obs.result = "complete"
              \/ /\ obs'.at = "report" /\ obs'.round = 2
                 /\ obs'.evidence[1] = obs'.evidence[2]
                 /\ \A g \in obs'.paths.effective : obs'.evidence[2][g].complete
                 /\ obs'.exact /\ obs'.targets = obs'.paths.effective
<1> DEFINE rest  == After(obs.grant, obs.paths.effective)
           taken == [obs EXCEPT !.evidence[obs.round][obs.grant] = item]
           done  == /\ taken.evidence[1] = taken.evidence[2]
                    /\ \A g \in obs.paths.effective : taken.evidence[2][g].complete
                    /\ obs.exact /\ obs.targets = obs.paths.effective
<1>1. /\ obs.round \in 1 .. 2 /\ obs.grant \in Grants /\ obs.paths.effective \subseteq Grants
      /\ obs.evidence \in [1 .. 2 -> [Grants -> Item]]
  BY DEF Observation, Declaration
<1>2. taken \in Observation
  <2>1. [obs.evidence EXCEPT ![obs.round][obs.grant] = item] \in [1 .. 2 -> [Grants -> Item]]
    BY <1>1
  <2>2. taken = [obs EXCEPT !.evidence = [obs.evidence EXCEPT ![obs.round][obs.grant] = item]]
    BY DEF Observation
  <2> QED BY <2>1, <2>2, Zenon DEF Observation
<1>3. rest # {} => First(rest) \in Grants
  <2>1. rest \in SUBSET Grants
    BY <1>1 DEF After
  <2> QED BY <2>1, FirstOK
<1>4. /\ taken.round = obs.round /\ taken.paths = obs.paths /\ taken.exact = obs.exact
      /\ taken.targets = obs.targets /\ taken.result = obs.result
  BY DEF Observation
<1>5. obs' = IF rest # {} THEN [taken EXCEPT !.at = "stat", !.grant = First(rest)]
             ELSE IF obs.round = 1 THEN [taken EXCEPT !.at = "inventory"]
             ELSE [taken EXCEPT !.at = "report",
                                !.result = IF done THEN "complete" ELSE "incomplete"]
  BY DEF Takes
<1> HIDE DEF rest, taken, done
<1>6. CASE rest # {}
  <2>1. obs' = [taken EXCEPT !.at = "stat", !.grant = First(rest)]
    BY <1>5, <1>6, Zenon
  <2>2. obs' \in Observation
    BY <1>2, <1>3, <1>6, <2>1, GoesOn, Zenon
  <2>3. obs'.result = obs.result
    BY <1>2, <1>4, <2>1 DEF Observation
  <2> QED BY <2>2, <2>3
<1>7. CASE rest = {} /\ obs.round = 1
  <2>1. obs' = [taken EXCEPT !.at = "inventory"]
    BY <1>5, <1>7, Zenon
  <2> QED BY <1>2, <1>4, <2>1, ZenonT(30) DEF Observation
<1>8. CASE rest = {} /\ obs.round # 1
  <2>1. obs' = [taken EXCEPT !.at = "report",
                             !.result = IF done THEN "complete" ELSE "incomplete"]
    BY <1>5, <1>8, Zenon
  <2>2. /\ obs'.at = "report" /\ obs'.round = obs.round
        /\ obs'.evidence = taken.evidence /\ obs'.paths = obs.paths
        /\ obs'.exact = obs.exact /\ obs'.targets = obs.targets
        /\ obs'.result = IF done THEN "complete" ELSE "incomplete"
    BY <1>2, <1>4, <2>1 DEF Observation
  <2>5. obs' \in Observation
    <3>1. (IF done THEN "complete" ELSE "incomplete") \in {"complete", "incomplete", "unknown"}
      OBVIOUS
    <3> QED BY <1>1, <1>2, <2>1, <3>1, GoesOn, Zenon
  <2>3. obs.round = 2
    BY <1>1, <1>8
  <2>4. obs'.result = "complete" => done
    BY <2>2
  <2> QED BY <2>2, <2>3, <2>4, <2>5, Zenon DEF done
<1> QED BY <1>6, <1>7, <1>8

\* The count of the faults stays within its bound.
LEMMA FaultOK ==
  ASSUME TypeOK, Works \/ Fails
  PROVE  faults' \in 0 .. MaxFaults
BY GrantsAssumption DEF TypeOK, Works, Fails

--------------------------------------------------------------------------------
(* The steps of status *)

\* They touch neither the world nor what the runtime observation reads.
LEMMA StatusFrame ==
  ASSUME ObservationInv, Unchanged, Works \/ Fails, obs.at \in StatusStages,
         obs' \in Observation, obs'.at \in StatusStages \cup {"report"},
         SameRuntime(obs, obs')
  PROVE  TypeOK' /\ History' /\ Stages' /\ RuntimeInv'
<1>1. UNCHANGED <<world, hung, worlds, reverted, changes, runs>>
  BY DEF Unchanged
<1>2. TypeOK'
  BY <1>1, FaultOK DEF ObservationInv, TypeOK
<1>3. obs.op = "status" /\ obs.paths.effective # {} /\ obs.class = "none"
      /\ \A g \in Grants : obs.reads[g] = "?"
  BY DEF ObservationInv, Stages, RuntimeInv, Judgement, ProbeRead, StatusStages
<1>4. History' /\ Stages'
  BY <1>1, <1>3 DEF ObservationInv, History, Stages, SameRuntime
<1>5. HostRead' /\ InsideRead'
  BY <1>1 DEF ObservationInv, RuntimeInv, HostRead, InsideRead, SeenHost, Resolved,
              SameRuntime
<1>6. ProbeRead' /\ Judgement'
  BY <1>3 DEF ProbeRead, Judgement, SameRuntime
<1> QED BY <1>2, <1>4, <1>5, <1>6 DEF RuntimeInv

\* A step within an item keeps the evidence and the report.
LEMMA ReadKeeps ==
  ASSUME ObservationInv, Unchanged, Works, obs.at \in StatusStages,
         obs' \in Observation, obs'.at \in {"findmnt", "again", "access", "final"},
         SameRuntime(obs, obs'), SameRounds(obs, obs'),
         ~reverted => ItemOK(obs.grant)'
  PROVE  ObservationInv'
<1>1. UNCHANGED <<world, hung, worlds, reverted, changes, runs>>
  BY DEF Unchanged
<1>2. TypeOK' /\ History' /\ Stages' /\ RuntimeInv'
  BY StatusFrame DEF StatusStages
<1>3. FirstRound' /\ Reported'
  BY Zenon DEF ObservationInv, StatusInv, FirstRound, Reported, StatusStages, SameRuntime,
               SameRounds
<1>4. ~reverted => Described' /\ Inventoried'
  BY <1>1 DEF ObservationInv, StatusInv, Described, Inventoried, Between, SameRounds
<1> QED BY <1>1, <1>2, <1>3, <1>4 DEF ObservationInv, StatusInv

LEMMA StatKeeps ==
  ASSUME ObservationInv, Works, Unchanged, obs.at = "stat",
         obs' = [obs EXCEPT !.at = "findmnt", !.id = IdentityOf(obs.grant)]
  PROVE  ObservationInv'
<1>1. obs.grant \in Grants /\ obs \in Observation /\ world \in worlds
  BY DEF ObservationInv, TypeOK, Observation, History
<1>2. /\ IdentityOf(obs.grant) \in Identity
      /\ IdentityOf(obs.grant).open = world.open[obs.grant]
  BY <1>1, IdentityOK DEF ObservationInv
<1>3. /\ obs' \in Observation /\ obs'.at = "findmnt" /\ obs'.id = IdentityOf(obs.grant)
      /\ SameRuntime(obs, obs') /\ SameRounds(obs, obs')
  BY <1>1, <1>2, Zenon DEF Observation, SameRuntime, SameRounds
<1>4. worlds' = worlds
  BY DEF Unchanged
<1>5. ItemOK(obs.grant)'
  BY <1>1, <1>2, <1>3, <1>4 DEF ItemOK, SeenOpen, SameRounds
<1> QED BY <1>3, <1>5, ReadKeeps DEF StatusStages

LEMMA FindmntKeeps ==
  ASSUME ObservationInv, Findmnt
  PROVE  ObservationInv'
<1>1. /\ obs.grant \in Grants /\ obs \in Observation /\ world \in worlds
      /\ world.host[obs.grant] \in Place /\ obs.id.open \in BOOLEAN
  BY DEF ObservationInv, TypeOK, Observation, History, World, Identity
<1> DEFINE item == [Gap EXCEPT !.rows = world.host[obs.grant], !.open = obs.id.open]
<1>2. item \in Item /\ item.rows = world.host[obs.grant] /\ item.open = obs.id.open
  BY <1>1, Zenon DEF Gap, Item
<1>3. obs.at = "findmnt" /\ obs' = [obs EXCEPT !.at = "again", !.item = item]
      /\ Works /\ Unchanged
  BY DEF Findmnt
<1> HIDE DEF item
<1>4. /\ obs' \in Observation /\ obs'.at = "again" /\ obs'.id = obs.id /\ obs'.item = item
      /\ SameRuntime(obs, obs') /\ SameRounds(obs, obs')
  BY <1>1, <1>2, <1>3, Zenon DEF Observation, SameRuntime, SameRounds
<1>5. worlds' = worlds
  BY <1>3 DEF Unchanged
<1>6. ~reverted => SeenOpen(obs.grant, obs.id.open)
  BY <1>3 DEF ObservationInv, StatusInv, ItemOK
<1>7. ~reverted => ItemOK(obs.grant)'
  BY <1>1, <1>2, <1>4, <1>5, <1>6 DEF ItemOK, SeenOpen, SeenHost, SameRounds
<1> QED BY <1>3, <1>4, <1>7, ReadKeeps DEF StatusStages

LEMMA AgainKeeps ==
  ASSUME ObservationInv, Again
  PROVE  ObservationInv'
<1> DEFINE g    == obs.grant
           same == obs.item.rows = world.host[g]
           is   == obs.id = IdentityOf(g) /\ obs.id.shows = "source"
           item == [obs.item EXCEPT !.complete = same, !.match = is]
<1>1. /\ g \in Grants /\ obs \in Observation /\ obs.item \in Item /\ obs.id \in Identity
  BY DEF ObservationInv, TypeOK, Observation
<1>2. /\ item \in Item /\ item.rows = obs.item.rows /\ item.open = obs.item.open
      /\ item.complete = same /\ item.match = is
  BY <1>1, Zenon DEF Item
<1>3. /\ obs.at = "again" /\ Works /\ Unchanged
      /\ obs' = [obs EXCEPT !.at = "access", !.item = item]
  BY <1>1, ZenonT(30) DEF Again, Observation, Item
<1>4. is \/ ~(/\ same /\ obs.id.open = world.open[g] /\ obs.id.shows = "source"
              /\ Shows(obs.item.rows) = "source")
  BY <1>1, IdentityOK DEF Identity, IdentityOf
<1>5. is => obs.id.shows = "source"
  OBVIOUS
<1> HIDE DEF item, same, is
<1>6. /\ obs' \in Observation /\ obs'.at = "access" /\ obs'.id = obs.id /\ obs'.item = item
      /\ SameRuntime(obs, obs') /\ SameRounds(obs, obs')
  BY <1>1, <1>2, <1>3, Zenon DEF Observation, SameRuntime, SameRounds
<1>7. worlds' = worlds /\ world' = world
  BY <1>3 DEF Unchanged
<1>8. ~reverted => /\ SeenOpen(g, obs.id.open) /\ SeenHost(g, obs.item.rows)
                   /\ obs.item.open = obs.id.open
  BY <1>3 DEF ObservationInv, StatusInv, ItemOK
<1>9. ~reverted => ItemOK(obs.grant)'
  BY <1>2, <1>4, <1>5, <1>6, <1>7, <1>8 DEF ItemOK, SeenOpen, SeenHost, SameRounds
<1> QED BY <1>3, <1>6, <1>9, ReadKeeps DEF StatusStages

LEMMA AccessKeeps ==
  ASSUME ObservationInv, Access
  PROVE  ObservationInv'
<1> DEFINE g    == obs.grant
           item == [obs.item EXCEPT !.access = AccessOf(world.open[g])]
<1>1. g \in Grants /\ obs \in Observation /\ obs.item \in Item
  BY DEF ObservationInv, TypeOK, Observation
<1>2. /\ item \in Item /\ item.rows = obs.item.rows /\ item.open = obs.item.open
      /\ item.complete = obs.item.complete /\ item.match = obs.item.match
      /\ item.access = AccessOf(world.open[g])
  BY <1>1 DEF Item, AccessOf
<1>3. /\ obs.at = "access" /\ Works /\ Unchanged
      /\ obs' = [obs EXCEPT !.at = "final", !.item = item]
  BY <1>1 DEF Access, Observation, Item, AccessOf
<1> HIDE DEF item
<1>4. /\ obs' \in Observation /\ obs'.at = "final" /\ obs'.id = obs.id /\ obs'.item = item
      /\ SameRuntime(obs, obs') /\ SameRounds(obs, obs')
  BY <1>1, <1>2, <1>3, Zenon DEF Observation, SameRuntime, SameRounds
<1>5. worlds' = worlds /\ world' = world
  BY <1>3 DEF Unchanged
<1>6. ~reverted =>
        /\ SeenOpen(g, obs.id.open) /\ SeenHost(g, obs.item.rows)
        /\ obs.item.open = obs.id.open
        /\ obs.item.complete /\ obs.id.open = world.open[g] /\ obs.id.shows = "source"
           /\ Shows(obs.item.rows) = "source" => obs.item.match
        /\ obs.item.match => obs.id.shows = "source"
  BY <1>3 DEF ObservationInv, StatusInv, ItemOK
<1>7. ~reverted => ItemOK(obs.grant)'
  BY <1>2, <1>4, <1>5, <1>6 DEF ItemOK, SeenOpen, SeenHost, SameRounds
<1> QED BY <1>3, <1>4, <1>7, ReadKeeps DEF StatusStages

\* An item that is complete describes its grant as it is when the item is taken.
LEMMA TakesKeeps ==
  ASSUME ObservationInv, Unchanged, Works \/ Fails, obs.at \in StatusStages,
         NEW item \in Item, Takes(item),
         item.complete /\ ~reverted => Describes(item, world, obs.grant)
  PROVE  ObservationInv'
<1>1. /\ obs \in Observation /\ obs.round \in 1 .. 2 /\ obs.grant \in Grants
      /\ obs.evidence \in [1 .. 2 -> [Grants -> Item]] /\ world \in worlds
      /\ obs.result # "complete"
  BY DEF ObservationInv, TypeOK, Observation, History, StatusInv, Reported, StatusStages
<1>2. /\ SameRuntime(obs, obs') /\ obs'.round = obs.round
      /\ obs'.targets = obs.targets /\ obs'.exact = obs.exact
      /\ obs'.evidence = [obs.evidence EXCEPT ![obs.round][obs.grant] = item]
      /\ obs'.at \in {"stat", "inventory", "report"}
      /\ obs'.at = "inventory" => obs.round = 1
  BY <1>1, TakesField, Zenon
<1>3. UNCHANGED <<world, hung, worlds, reverted, changes, runs>>
  BY DEF Unchanged
<1>4. TypeOK' /\ History' /\ Stages' /\ RuntimeInv'
  <2>1. obs' \in Observation
    BY <1>1, TakesOK, Zenon
  <2> QED BY <1>2, <2>1, StatusFrame DEF StatusStages
<1>5. \A r \in 1 .. 2, g \in Grants :
        obs'.evidence[r][g] = IF r = obs.round /\ g = obs.grant THEN item
                              ELSE obs.evidence[r][g]
  BY <1>1, <1>2
<1>6. FirstRound'
  BY <1>2, <1>5 DEF ObservationInv, StatusInv, FirstRound
<1>7. Reported'
  BY <1>1, TakesOK, Zenon DEF Reported
<1>8. ItemOK(obs.grant)'
  BY <1>2 DEF ItemOK
<1>9. ~reverted => Described'
  <2> SUFFICES ASSUME ~reverted, NEW r \in 1 .. 2, NEW g \in Grants,
                      obs'.evidence[r][g].complete
               PROVE  \E w \in worlds : Describes(obs'.evidence[r][g], w, g)
    BY <1>3, Zenon DEF Described, Describes
  <2>1. CASE r = obs.round /\ g = obs.grant
    BY <1>1, <1>5, <2>1, Zenon
  <2>2. CASE ~(r = obs.round /\ g = obs.grant)
    BY <1>5, <2>2, Zenon DEF ObservationInv, StatusInv, Described
  <2> QED BY <2>1, <2>2
<1>10. ~reverted => Inventoried'
  <2> SUFFICES ASSUME ~reverted, obs.round = 2
               PROVE  Inventoried'
    BY <1>2 DEF Inventoried
  <2>1. PICK w \in worlds : /\ obs.targets = {g \in Grants : w.host[g] # "none"}
                            /\ obs.exact = ~w.stray /\ \A g \in Grants : Between(w, g)
    BY DEF ObservationInv, StatusInv, Inventoried
  <2>2. ASSUME NEW g \in Grants
        PROVE  Between(w, g)'
    <3>1. obs'.evidence[1][g] = obs.evidence[1][g]
      BY <1>5
    <3>2. CASE g # obs.grant
      <4>1. obs'.evidence[2][g] = obs.evidence[2][g]
        BY <1>5, <3>2
      <4> QED BY <1>3, <2>1, <3>1, <4>1 DEF Between
    <3>3. CASE g = obs.grant
      <4>1. obs'.evidence[2][g] = item
        BY <1>5, <3>3
      <4>2. item.complete => item.rows = world.host[g] /\ item.open = world.open[g]
        BY <3>3 DEF Describes
      <4> QED BY <1>3, <2>1, <3>1, <4>1, <4>2 DEF Between
    <3> QED BY <3>2, <3>3
  <2> QED BY <1>2, <1>3, <2>1, <2>2 DEF Inventoried
<1> QED BY <1>3, <1>4, <1>6, <1>7, <1>8, <1>9, <1>10 DEF ObservationInv, StatusInv

LEMMA FinalKeeps ==
  ASSUME ObservationInv, Final
  PROVE  ObservationInv'
<1> DEFINE g    == obs.grant
           same == obs.id = IdentityOf(g) /\ obs.item.rows = world.host[g]
           item == [obs.item EXCEPT !.complete = @ /\ same,
                      !.match = @ /\ same /\ Shows(world.host[g]) = "source"]
<1>1. g \in Grants /\ obs \in Observation /\ obs.item \in Item /\ obs.id \in Identity
  BY DEF ObservationInv, TypeOK, Observation
<1>2. obs.at = "final" /\ Works /\ Unchanged /\ Takes(item)
  BY DEF Final
<1>3. /\ item \in Item /\ item.rows = obs.item.rows /\ item.open = obs.item.open
      /\ item.access = obs.item.access
      /\ item.complete = (obs.item.complete /\ same)
      /\ item.match = (obs.item.match /\ same /\ Shows(world.host[g]) = "source")
  BY <1>1, Zenon DEF Item
<1>4. same => /\ obs.id.shows = Shows(world.host[g]) /\ obs.id.open = world.open[g]
              /\ obs.item.rows = world.host[g]
  BY <1>1, IdentityOK DEF ObservationInv
<1>5. ~reverted =>
        /\ obs.item.open = obs.id.open
        /\ obs.item.complete /\ obs.id.open = world.open[g] /\ obs.id.shows = "source"
           /\ Shows(obs.item.rows) = "source" => obs.item.match
        /\ obs.id.open = world.open[g] => obs.item.access = AccessOf(obs.id.open)
  BY <1>2 DEF ObservationInv, StatusInv, ItemOK
<1> HIDE DEF item, same
<1>6. ASSUME item.complete, ~reverted
      PROVE  Describes(item, world, g)
  <2>1. same /\ obs.item.complete
    BY <1>3, <1>6, Zenon
  <2>2. item.match = (Shows(world.host[g]) = "source")
    BY <1>3, <1>4, <1>5, <1>6, <2>1
  <2>3. item.access = IF world.open[g] THEN "allow" ELSE "deny"
    BY <1>3, <1>4, <1>5, <1>6, <2>1 DEF AccessOf
  <2> QED BY <1>3, <1>4, <1>5, <1>6, <2>1, <2>2, <2>3 DEF Describes
<1> QED BY <1>2, <1>3, <1>6, TakesKeeps DEF StatusStages

\* The inventory is taken in a world that was: the first round is about it, as far
\* as nothing has changed since.
LEMMA InventoryKeeps ==
  ASSUME ObservationInv, Inventory
  PROVE  ObservationInv'
<1> DEFINE there == {g \in Grants : world.host[g] # "none"}
           paths == obs.paths.effective
<1>1. /\ obs \in Observation /\ world \in worlds /\ world.stray \in BOOLEAN
      /\ paths \subseteq Grants /\ obs.result # "complete" /\ obs.at = "inventory"
  BY DEF ObservationInv, TypeOK, Observation, Declaration, History, StatusInv, Reported, World,
         Inventory
<1>2. First(paths) \in Grants
  BY <1>1, FirstOK DEF ObservationInv, Stages, StatusStages
<1>3. /\ Works /\ Unchanged
      /\ obs' = [obs EXCEPT !.at = "stat", !.round = 2, !.grant = First(paths),
                            !.targets = there, !.exact = ~world.stray]
  BY DEF Inventory
<1>4. there \in SUBSET Grants /\ (~world.stray) \in BOOLEAN
  BY <1>1
<1> HIDE DEF there, paths
<1>0. obs' \in Observation
  BY <1>1, <1>2, <1>3, <1>4, BeginsAgain, Zenon
<1>5. /\ obs' \in Observation /\ obs'.at = "stat" /\ obs'.round = 2
      /\ obs'.targets = there /\ obs'.exact = ~world.stray
      /\ SameRuntime(obs, obs') /\ obs'.evidence = obs.evidence /\ obs'.result = obs.result
  BY <1>0, <1>1, <1>3 DEF Observation, SameRuntime
<1>6. UNCHANGED <<world, hung, worlds, reverted, changes, runs>>
  BY <1>3 DEF Unchanged
<1>7. TypeOK' /\ History' /\ Stages' /\ RuntimeInv'
  BY <1>1, <1>3, <1>5, StatusFrame DEF StatusStages
<1>8. FirstRound' /\ Reported' /\ ItemOK(obs.grant)'
  BY <1>1, <1>5 DEF FirstRound, Reported, ItemOK
<1>9. ~reverted => Described'
  BY <1>5, <1>6 DEF ObservationInv, StatusInv, Described
<1>10. ~reverted => Inventoried'
  <2> SUFFICES ASSUME ~reverted
               PROVE  Inventoried'
    OBVIOUS
  <2>1. \A g \in Grants : ~obs.evidence[2][g].complete
    BY <1>1 DEF ObservationInv, StatusInv, FirstRound
  <2>2. \A g \in Grants : Between(world, g)'
    BY <1>5, <1>6, <2>1 DEF Between
  <2> QED BY <1>1, <1>5, <1>6, <2>2 DEF Inventoried, there
<1> QED BY <1>6, <1>7, <1>8, <1>9, <1>10 DEF ObservationInv, StatusInv

\* The evidence ends without a verdict, or the runtime could not be resolved.
LEMMA ReportsField ==
  ASSUME obs \in Observation, NEW r \in {"complete", "incomplete", "unknown"}, Reports(r)
  PROVE  /\ obs' \in Observation /\ obs'.at = "report" /\ obs'.result = r
         /\ SameRuntime(obs, obs') /\ obs'.round = obs.round /\ obs'.evidence = obs.evidence
         /\ obs'.targets = obs.targets /\ obs'.exact = obs.exact
<1>1. obs' \in Observation
  <2>1. obs.grant \in Grants
    BY DEF Observation
  <2> QED BY <2>1, GoesOn, Zenon DEF Reports
<1> QED BY <1>1 DEF Reports, Observation, SameRuntime

LEMMA TimeOutKeeps ==
  ASSUME ObservationInv, TimeOut
  PROVE  ObservationInv'
<1>1. /\ obs \in Observation /\ obs.at \in StatusStages /\ (Works \/ Fails) /\ Unchanged
  BY DEF ObservationInv, TypeOK, TimeOut, StatusStages
<1>2. CASE Takes(Gap)
  BY <1>1, <1>2, GapOK, TakesKeeps
<1>3. CASE Reports("incomplete")
  <2>1. /\ obs' \in Observation /\ obs'.at = "report" /\ obs'.result = "incomplete"
        /\ SameRuntime(obs, obs') /\ obs'.round = obs.round /\ obs'.evidence = obs.evidence
        /\ obs'.targets = obs.targets /\ obs'.exact = obs.exact
    BY <1>1, <1>3, ReportsField
  <2>2. UNCHANGED <<world, hung, worlds, reverted, changes, runs>>
    BY <1>1 DEF Unchanged
  <2>3. TypeOK' /\ History' /\ Stages' /\ RuntimeInv'
    BY <1>1, <2>1, StatusFrame
  <2>4. FirstRound' /\ Reported' /\ ItemOK(obs.grant)'
    BY <2>1, Zenon DEF ObservationInv, StatusInv, FirstRound, Reported, ItemOK
  <2>5. ~reverted => Described' /\ Inventoried'
    BY <2>1, <2>2 DEF ObservationInv, StatusInv, Described, Inventoried, Between
  <2> QED BY <2>2, <2>3, <2>4, <2>5 DEF ObservationInv, StatusInv
<1> QED BY <1>2, <1>3 DEF TimeOut

--------------------------------------------------------------------------------
(* The runtime observation *)

\* Its steps leave the evidence empty.
LEMMA RuntimeFrame ==
  ASSUME ObservationInv, Unchanged, Works \/ Fails,
         obs.at \in {"principal", "host", "inside", "probe"},
         obs' \in Observation, obs'.at \in {"host", "inside", "probe", "report"},
         obs'.op = obs.op, obs'.container = obs.container,
         obs'.round = obs.round, obs'.evidence = obs.evidence,
         obs'.targets = obs.targets, obs'.exact = obs.exact,
         obs'.result # "complete"
  PROVE  TypeOK' /\ History' /\ Stages' /\ StatusInv'
<1>1. UNCHANGED <<world, hung, worlds, reverted, changes, runs>>
  BY DEF Unchanged
<1>2. TypeOK'
  BY <1>1, FaultOK DEF ObservationInv, TypeOK
<1>3. obs.op # "status"
  BY DEF ObservationInv, Stages, StatusStages
<1>4. History' /\ Stages'
  BY <1>1, <1>3, Zenon DEF ObservationInv, History, Stages, StatusStages
<1>5. FirstRound' /\ Reported' /\ ItemOK(obs.grant)'
  BY Zenon DEF ObservationInv, StatusInv, FirstRound, Reported, ItemOK
<1>6. ~reverted => Described' /\ Inventoried'
  BY <1>1 DEF ObservationInv, StatusInv, Described, Inventoried, Between
<1> QED BY <1>1, <1>2, <1>4, <1>5, <1>6 DEF StatusInv

LEMMA FailureClasses ==
  ASSUME NEW o, NEW g
  PROVE  /\ ProbeClass(o, g) \in {"healthy", "denied", "empty", "contract"}
         /\ MountClass(o, g) \in {"none", "missing", "source", "contract"}
         /\ FailureClass(o, g) \in {"healthy", "missing", "source", "denied", "empty", "contract"}
<1>1. ProbeClass(o, g) \in {"healthy", "denied", "empty", "contract"}
  BY DEF ProbeClass
<1>2. MountClass(o, g) \in {"none", "missing", "source", "contract"}
  BY Zenon DEF MountClass
<1> QED BY <1>1, <1>2 DEF FailureClass

\* The class that the failures have in common is the class of one of them.
LEMMA AggregateOK ==
  ASSUME NEW o
  PROVE  /\ Aggregate(o) \in {"healthy", "missing", "source", "denied", "empty", "contract",
                              "cardinality"}
         /\ Aggregate(o) = "healthy" <=>
              /\ o.paths.requested = o.paths.effective
              /\ \A g \in o.paths.effective : FailureClass(o, g) = "healthy"
         /\ Aggregate(o) \in {"missing", "source", "denied"} =>
              \E g \in o.paths.effective : FailureClass(o, g) = Aggregate(o)
<1> DEFINE failures == {FailureClass(o, g) : g \in o.paths.effective} \ {"healthy"}
           common   == CHOOSE c \in failures : TRUE
<1>1. failures # {} => common \in failures
  OBVIOUS
<1>2. \A c \in failures : /\ c \in {"missing", "source", "denied", "empty", "contract"}
                          /\ \E g \in o.paths.effective : FailureClass(o, g) = c
  BY FailureClasses
<1>3. failures = {} <=> \A g \in o.paths.effective : FailureClass(o, g) = "healthy"
  OBVIOUS
<1>4. Aggregate(o) = IF o.paths.requested # o.paths.effective THEN "cardinality"
                     ELSE IF failures = {} THEN "healthy"
                     ELSE IF Cardinality(failures) = 1 THEN common ELSE "contract"
  BY DEF Aggregate
<1> HIDE DEF failures, common
<1>5. CASE o.paths.requested # o.paths.effective
  BY <1>4, <1>5
<1>6. CASE o.paths.requested = o.paths.effective /\ failures = {}
  BY <1>3, <1>4, <1>6
<1>7. CASE o.paths.requested = o.paths.effective /\ failures # {}
  <2>1. Aggregate(o) \in {common, "contract"} /\ common \in failures
    BY <1>1, <1>4, <1>7, Zenon
  <2> QED BY <1>2, <1>3, <1>7, <2>1
<1> QED BY <1>5, <1>6, <1>7

\* The class of the report is taken from what was read.
LEMMA AggregateSame ==
  ASSUME NEW o, NEW p, p.paths = o.paths, p.hostRows = o.hostRows,
         p.insideRows = o.insideRows, p.reads = o.reads
  PROVE  Aggregate(p) = Aggregate(o)
<1>1. \A g : FailureClass(p, g) = FailureClass(o, g)
  BY Zenon DEF FailureClass, MountClass, ProbeClass
<1>2. {FailureClass(p, g) : g \in p.paths.effective} =
      {FailureClass(o, g) : g \in o.paths.effective}
  BY <1>1
<1> QED BY <1>2, Zenon DEF Aggregate

LEMMA JudgedType ==
  ASSUME NEW o \in Observation,
         NEW c \in {"healthy", "missing", "source", "denied", "empty", "contract", "cardinality"},
         NEW r \in {"healthy", "unhealthy", "unknown"}
  PROVE  [o EXCEPT !.at = "report", !.class = c, !.result = r] \in Observation
BY ZenonT(30) DEF Observation

LEMMA ReadingType ==
  ASSUME NEW o \in Observation, NEW rows \in [Grants -> Place \cup {"?"}],
         NEW found \in [Grants -> {"read", "denied", "empty"}]
  PROVE  /\ [o EXCEPT !.at = "host"] \in Observation
         /\ [o EXCEPT !.at = "inside"] \in Observation
         /\ [o EXCEPT !.at = "inside", !.hostRows = rows] \in Observation
         /\ [o EXCEPT !.at = "probe", !.insideRows = rows] \in Observation
         /\ [o EXCEPT !.reads = found] \in Observation
<1>1. found \in [Grants -> {"read", "denied", "empty", "?"}]
  OBVIOUS
<1> QED BY <1>1, Zenon DEF Observation

\* What holds while the runtime observation has not reported.
LEMMA Reading ==
  ASSUME ObservationInv, obs.at \in {"principal", "host", "inside", "probe"}
  PROVE  /\ obs \in Observation /\ world \in worlds
         /\ world.host \in [Grants -> Place] /\ world.inside \in [Grants -> Place]
         /\ obs.class = "none" /\ obs.result # "complete"
         /\ \A g \in Grants : obs.reads[g] = "?"
         /\ obs.op # "status"
BY DEF ObservationInv, TypeOK, World, History, Stages, StatusStages, StatusInv, Reported,
       RuntimeInv, Judgement, ProbeRead

LEMMA PrincipalKeeps ==
  ASSUME ObservationInv, Principal
  PROVE  ObservationInv'
<1>1. /\ obs.at = "principal" /\ Unchanged /\ (Works \/ Fails)
      /\ obs' = [obs EXCEPT !.at = "host"] \/ Reports("unknown")
  BY DEF Principal, Unresolved
<1>2. /\ obs \in Observation /\ obs.class = "none" /\ obs.result # "complete"
      /\ world.host \in [Grants -> Place] /\ \A g \in Grants : obs.reads[g] = "?"
  BY <1>1, Reading
<1>3. /\ obs' \in Observation /\ obs'.at \in {"host", "report"}
      /\ SameRuntime(obs, obs') /\ obs'.round = obs.round /\ obs'.evidence = obs.evidence
      /\ obs'.targets = obs.targets /\ obs'.exact = obs.exact
      /\ obs'.result \in {obs.result, "unknown"}
  <2>1. CASE Reports("unknown")
    BY <1>2, <2>1, ReportsField
  <2>2. CASE obs' = [obs EXCEPT !.at = "host"]
    <3>1. obs' \in Observation
      BY <1>2, <2>2 DEF Observation
    <3> QED BY <1>2, <2>2, <3>1, SMTT(30) DEF Observation, SameRuntime
  <2> QED BY <1>1, <2>1, <2>2
<1>4. TypeOK' /\ History' /\ Stages' /\ StatusInv'
  BY <1>1, <1>2, <1>3, RuntimeFrame DEF SameRuntime
<1>5. worlds' = worlds /\ world' = world
  BY <1>1 DEF Unchanged
<1>6. HostRead' /\ InsideRead'
  BY <1>3, <1>5 DEF ObservationInv, RuntimeInv, HostRead, InsideRead, SeenHost, Resolved,
                    SameRuntime
<1>7. ProbeRead' /\ Judgement'
  BY <1>2, <1>3 DEF ObservationInv, RuntimeInv, ProbeRead, Judgement, SameRuntime
<1> QED BY <1>4, <1>6, <1>7 DEF ObservationInv, RuntimeInv

LEMMA HostRowsKeeps ==
  ASSUME ObservationInv, HostRows
  PROVE  ObservationInv'
<1>1. /\ obs.at = "host" /\ Unchanged /\ (Works \/ Fails)
      /\ \/ obs' = [obs EXCEPT !.at = "inside", !.hostRows = world.host]
         \/ obs' = [obs EXCEPT !.at = "inside"]
  BY DEF HostRows
<1>2. /\ obs \in Observation /\ obs.class = "none" /\ obs.result # "complete"
      /\ world.host \in [Grants -> Place] /\ \A g \in Grants : obs.reads[g] = "?"
      /\ world \in worlds
  BY <1>1, Reading
<1>3. obs' \in Observation
  <2>1. [g \in Grants |-> "read"] \in [Grants -> {"read", "denied", "empty"}]
    OBVIOUS
  <2>2. world.host \in [Grants -> Place \cup {"?"}]
    BY <1>2
  <2>3. /\ [obs EXCEPT !.at = "inside", !.hostRows = world.host] \in Observation
        /\ [obs EXCEPT !.at = "inside"] \in Observation
    BY <1>2, <2>1, <2>2, ReadingType, Zenon
  <2> QED BY <1>1, <2>3, Zenon
<1>4. /\ obs'.at = "inside" /\ obs'.op = obs.op /\ obs'.paths = obs.paths
      /\ obs'.container = obs.container /\ obs'.class = obs.class /\ obs'.result = obs.result
      /\ obs'.insideRows = obs.insideRows /\ obs'.reads = obs.reads
      /\ obs'.hostRows \in {obs.hostRows, world.host}
      /\ obs'.round = obs.round /\ obs'.evidence = obs.evidence
      /\ obs'.targets = obs.targets /\ obs'.exact = obs.exact
  BY <1>1, <1>2, ZenonT(30) DEF Observation
<1>5. TypeOK' /\ History' /\ Stages' /\ StatusInv'
  BY <1>1, <1>2, <1>3, <1>4, RuntimeFrame
<1>6. worlds' = worlds /\ world' = world
  BY <1>1 DEF Unchanged
<1>7. HostRead' /\ InsideRead'
  BY <1>2, <1>4, <1>6 DEF ObservationInv, RuntimeInv, HostRead, InsideRead, SeenHost, Resolved
<1>8. ProbeRead' /\ Judgement'
  BY <1>2, <1>4 DEF ObservationInv, RuntimeInv, ProbeRead, Judgement
<1> QED BY <1>5, <1>7, <1>8 DEF ObservationInv, RuntimeInv

LEMMA InsideRowsKeeps ==
  ASSUME ObservationInv, InsideRows
  PROVE  ObservationInv'
<1> DEFINE rows == IF Same THEN world.inside ELSE obs.insideRows
<1>1. /\ obs \in Observation /\ obs.class = "none" /\ obs.result # "complete"
      /\ world.inside \in [Grants -> Place] /\ \A g \in Grants : obs.reads[g] = "?"
      /\ world \in worlds
  BY Reading DEF InsideRows
<1>2. /\ obs.at = "inside" /\ Unchanged /\ Works
      /\ obs' = [obs EXCEPT !.at = "probe", !.insideRows = rows]
  BY <1>1 DEF InsideRows, Observation
<1>3. \/ rows = obs.insideRows
      \/ rows = world.inside /\ world.container = obs.container
  BY DEF Same
<1> HIDE DEF rows
<1>4. obs' \in Observation
  <2>1. [g \in Grants |-> "read"] \in [Grants -> {"read", "denied", "empty"}]
    OBVIOUS
  <2>2. rows \in [Grants -> Place \cup {"?"}]
    BY <1>1, <1>3 DEF Observation
  <2> QED BY <1>1, <1>2, <2>1, <2>2, ReadingType, Zenon
<1>5. /\ obs'.at = "probe" /\ obs'.op = obs.op /\ obs'.paths = obs.paths
      /\ obs'.container = obs.container /\ obs'.class = obs.class /\ obs'.result = obs.result
      /\ obs'.insideRows = rows /\ obs'.reads = obs.reads /\ obs'.hostRows = obs.hostRows
      /\ obs'.round = obs.round /\ obs'.evidence = obs.evidence
      /\ obs'.targets = obs.targets /\ obs'.exact = obs.exact
  BY <1>1, <1>2 DEF Observation
<1>6. TypeOK' /\ History' /\ Stages' /\ StatusInv'
  BY <1>1, <1>2, <1>4, <1>5, RuntimeFrame
<1>7. worlds' = worlds /\ world' = world
  BY <1>2 DEF Unchanged
<1>8. HostRead' /\ InsideRead'
  BY <1>1, <1>3, <1>5, <1>7 DEF ObservationInv, RuntimeInv, HostRead, InsideRead, SeenHost,
                                Resolved
<1>9. ProbeRead' /\ Judgement'
  BY <1>1, <1>5 DEF ObservationInv, RuntimeInv, ProbeRead, Judgement
<1> QED BY <1>6, <1>8, <1>9 DEF ObservationInv, RuntimeInv

\* The probe reports of a container that still runs, or has nothing to report.
LEMMA ProbeKeeps ==
  ASSUME ObservationInv, Probe
  PROVE  ObservationInv'
<1>1. /\ obs.at = "probe" /\ Unchanged /\ (Works \/ Fails)
  BY Zenon DEF Probe
<1>2. /\ obs \in Observation /\ obs.class = "none" /\ obs.result # "complete"
      /\ world.host \in [Grants -> Place] /\ \A g \in Grants : obs.reads[g] = "?"
      /\ world \in worlds
  BY <1>1, Reading
<1>3. PICK o \in Observation :
        /\ obs' = [o EXCEPT !.at = "report", !.class = Aggregate(o),
                            !.result = ResultOf(Aggregate(o))]
        /\ \/ o = obs
           \/ /\ Same
              /\ \E found \in [Grants -> {"read", "denied", "empty"}] :
                   /\ \A g \in Grants : found[g] \in ReadOf(g)
                   /\ o = [obs EXCEPT !.reads = found]
  <2>1. \A found \in [Grants -> {"read", "denied", "empty"}] :
          [obs EXCEPT !.reads = found] \in Observation
    <3>1. world.host \in [Grants -> Place \cup {"?"}]
      BY <1>2
    <3> QED BY <1>2, <3>1, ReadingType, Zenon
  <2> QED BY <1>2, <2>1, Zenon DEF Probe
<1>4. /\ o.op = obs.op /\ o.paths = obs.paths /\ o.container = obs.container
      /\ o.hostRows = obs.hostRows /\ o.insideRows = obs.insideRows
      /\ o.round = obs.round /\ o.evidence = obs.evidence
      /\ o.targets = obs.targets /\ o.exact = obs.exact
  BY <1>2, <1>3 DEF Observation
<1>5. /\ Aggregate(o) \in {"healthy", "missing", "source", "denied", "empty", "contract",
                           "cardinality"}
      /\ ResultOf(Aggregate(o)) \in {"healthy", "unhealthy", "unknown"}
  BY AggregateOK DEF ResultOf
<1>6. /\ obs' \in Observation /\ obs'.at = "report" /\ obs'.class = Aggregate(o)
      /\ obs'.result = ResultOf(Aggregate(o))
      /\ obs'.op = obs.op /\ obs'.paths = obs.paths /\ obs'.container = obs.container
      /\ obs'.hostRows = obs.hostRows /\ obs'.insideRows = obs.insideRows
      /\ obs'.reads = o.reads /\ obs'.round = obs.round /\ obs'.evidence = obs.evidence
      /\ obs'.targets = obs.targets /\ obs'.exact = obs.exact
  <2>1. obs' \in Observation
    BY <1>3, <1>5, JudgedType, Zenon
  <2> QED BY <1>3, <1>4, <2>1 DEF Observation
<1>7. TypeOK' /\ History' /\ Stages' /\ StatusInv'
  BY <1>1, <1>5, <1>6, RuntimeFrame
<1>8. worlds' = worlds /\ world' = world
  BY <1>1 DEF Unchanged
<1>9. HostRead' /\ InsideRead'
  BY <1>6, <1>8 DEF ObservationInv, RuntimeInv, HostRead, InsideRead, SeenHost, Resolved
<1>10. ProbeRead'
  <2>1. CASE o = obs
    BY <1>2, <1>6, <2>1 DEF ProbeRead
  <2>2. CASE o # obs
    <3>1. PICK found \in [Grants -> {"read", "denied", "empty"}] :
            /\ Same /\ \A g \in Grants : found[g] \in ReadOf(g)
            /\ o = [obs EXCEPT !.reads = found]
      BY <1>3, <2>2
    <3>2. o.reads = found
      BY <1>2, <3>1 DEF Observation
    <3>3. \A g \in Grants : /\ found[g] = "read" => world.open[g]
                            /\ found[g] = "denied" => ~world.open[g]
      BY <3>1 DEF ReadOf
    <3> QED BY <1>6, <1>8, <3>1, <3>2, <3>3 DEF ProbeRead, Same
  <2> QED BY <2>1, <2>2
<1>11. Judgement'
  <2>1. Aggregate(obs') = Aggregate(o)
    BY <1>4, <1>6, AggregateSame
  <2>2. Aggregate(obs)' = Aggregate(obs')
    BY Zenon DEF Aggregate, FailureClass, MountClass, ProbeClass
  <2>3. obs'.class # "none"
    BY <1>5, <1>6
  <2> QED BY <1>6, <2>1, <2>2, <2>3, Zenon DEF Judgement, ResultOf
<1> QED BY <1>7, <1>9, <1>10, <1>11 DEF ObservationInv, RuntimeInv

LEMMA RuntimeKeeps ==
  ASSUME ObservationInv, RuntimeStep
  PROVE  ObservationInv'
BY PrincipalKeeps, HostRowsKeeps, InsideRowsKeeps, ProbeKeeps DEF RuntimeStep

--------------------------------------------------------------------------------
(* Beginning and ending *)

\* An observation that has read nothing.
Fresh(o) ==
  /\ o.round = 1 /\ o.evidence = [r \in 1 .. 2 |-> [g \in Grants |-> Gap]]
  /\ o.hostRows = [g \in Grants |-> "?"] /\ o.insideRows = [g \in Grants |-> "?"]
  /\ o.reads = [g \in Grants |-> "?"] /\ o.class = "none"
  /\ o.result \in {"none", "incomplete", "unknown"}
  /\ o.op = "runtime" => o.result \in {"none", "unknown"}
  /\ o.at \in {"idle", "master", "stat", "principal", "report"}

LEMMA FreshKeeps ==
  ASSUME ObservationInv, obs' \in Observation, Fresh(obs'), Stages',
         hung' = hung, changes' = changes, runs' \in 0 .. MaxRuns, Works \/ Fails,
         world' = world, worlds' \in {worlds, {world}}, reverted' \in BOOLEAN,
         obs'.op = "runtime" => worlds' = {world} /\ obs'.container = world.container
  PROVE  ObservationInv'
<1>1. /\ world \in World /\ world \in worlds /\ worlds \subseteq World
      /\ world.container \in Nat
  BY DEF ObservationInv, TypeOK, History, World
<1>2. TypeOK'
  BY <1>1, FaultOK DEF ObservationInv, TypeOK
<1>3. History'
  BY <1>1 DEF History
<1>4. \A r \in 1 .. 2, g \in Grants : ~obs'.evidence[r][g].complete
  BY GapOK DEF Fresh
<1>5. StatusInv'
  BY <1>4 DEF StatusInv, FirstRound, Reported, ItemOK, Described, Inventoried, Fresh
<1>6. RuntimeInv'
  BY Zenon DEF RuntimeInv, HostRead, InsideRead, ProbeRead, Judgement, Fresh
<1> QED BY <1>2, <1>3, <1>5, <1>6 DEF ObservationInv

LEMMA IdleFresh ==
  /\ Fresh(Idle) /\ Idle.op = "none" /\ Idle.at = "idle"
BY DEF Fresh, Idle

\* The evidence begins with nothing read.
LEMMA GatheringOK ==
  ASSUME NEW paths \in Declaration
  PROVE  LET o == Gathering(paths) IN
         /\ o \in Observation /\ Fresh(o) /\ o.op = "status" /\ o.paths = paths
         /\ o.at = "report" \/ (o.at = "stat" /\ paths.effective # {})
<1> DEFINE asked == [Idle EXCEPT !.op = "status", !.at = "stat", !.paths = paths,
                                 !.grant = First(paths.effective)]
           none  == [Idle EXCEPT !.op = "status", !.at = "report", !.paths = paths,
                                 !.result = "incomplete"]
<1>1. paths.effective \in SUBSET Grants
  BY DEF Declaration
<1>2. CASE paths.effective = {}
  <2>1. none \in Observation
    BY IdleOK, Zenon DEF Observation
  <2>2. Fresh(none) /\ none.op = "status" /\ none.at = "report" /\ none.paths = paths
    BY <2>1 DEF Idle, Fresh
  <2>3. Gathering(paths) = none
    BY <1>2, Zenon DEF Gathering
  <2> QED BY <2>1, <2>2, <2>3, Zenon
<1>3. CASE paths.effective # {}
  <2>1. asked \in Observation
    <3>1. First(paths.effective) \in Grants
      BY <1>1, <1>3, FirstOK
    <3> QED BY <3>1, IdleOK, Zenon DEF Observation
  <2>2. Fresh(asked) /\ asked.op = "status" /\ asked.at = "stat" /\ asked.paths = paths
    BY <2>1 DEF Idle, Fresh
  <2>3. Gathering(paths) = asked
    BY <1>3, Zenon DEF Gathering
  <2> QED BY <1>3, <2>1, <2>2, <2>3, Zenon
<1> QED BY <1>2, <1>3

LEMMA BeginStatusKeeps ==
  ASSUME ObservationInv, BeginStatus
  PROVE  ObservationInv'
<1> DEFINE paths == world.declared
           asks  == [Idle EXCEPT !.op = "status", !.at = "master", !.paths = paths]
<1>1. paths \in Declaration
  BY DEF ObservationInv, TypeOK, World
<1>2. /\ obs' = Gathering(paths) \/ obs' = asks
      /\ runs' = runs + 1 /\ runs < MaxRuns /\ worlds' = {world} /\ reverted' = FALSE
      /\ UNCHANGED <<world, hung, changes, faults>>
  BY DEF BeginStatus
<1>3. runs' \in 0 .. MaxRuns
  BY <1>2, GrantsAssumption DEF ObservationInv, TypeOK
<1>4. CASE obs' = Gathering(paths)
  <2>1. obs' \in Observation /\ Fresh(obs') /\ obs'.op = "status" /\ Stages'
    BY <1>1, <1>4, GatheringOK, Zenon DEF Stages, StatusStages
  <2> QED BY <1>2, <1>3, <2>1, FreshKeeps, Zenon DEF Works
<1>5. CASE obs' = asks
  <2>1. asks \in Observation /\ Fresh(asks) /\ asks.op = "status" /\ asks.at = "master"
    <3>1. asks \in Observation
      BY <1>1, IdleOK, Zenon DEF Observation
    <3> QED BY <3>1 DEF Idle, Fresh
  <2> HIDE DEF asks
  <2>2. obs' \in Observation /\ Fresh(obs') /\ obs'.op = "status" /\ Stages'
    BY <1>5, <2>1, Zenon DEF Stages, StatusStages
  <2> QED BY <1>2, <1>3, <2>2, FreshKeeps, Zenon DEF Works
<1> QED BY <1>2, <1>4, <1>5

LEMMA MasterKeeps ==
  ASSUME ObservationInv, Master
  PROVE  ObservationInv'
<1>1. /\ obs.paths \in Declaration /\ runs \in 0 .. MaxRuns /\ reverted \in BOOLEAN
  BY DEF ObservationInv, TypeOK, Observation
<1>2. /\ obs' = Gathering(obs.paths) /\ Works
      /\ UNCHANGED <<world, hung, worlds, reverted, changes, runs>>
  BY DEF Master, Unchanged
<1>3. obs' \in Observation /\ Fresh(obs') /\ obs'.op = "status" /\ Stages'
  BY <1>1, <1>2, GatheringOK, Zenon DEF Stages, StatusStages
<1> QED BY <1>1, <1>2, <1>3, FreshKeeps, Zenon

LEMMA StatusKeeps ==
  ASSUME ObservationInv, StatusStep
  PROVE  ObservationInv'
<1>1. CASE Stat
  <2>1. obs.at = "stat" /\ Works /\ Unchanged
    BY <1>1 DEF Stat
  <2>2. CASE obs' = [obs EXCEPT !.at = "findmnt", !.id = IdentityOf(obs.grant)]
    BY <2>1, <2>2, StatKeeps
  <2>3. CASE Takes(Gap)
    BY <2>1, <2>3, GapOK, TakesKeeps DEF StatusStages
  <2> QED BY <1>1, <2>2, <2>3 DEF Stat
<1> QED BY <1>1, MasterKeeps, FindmntKeeps, AgainKeeps, AccessKeeps, FinalKeeps,
           InventoryKeeps, TimeOutKeeps DEF StatusStep

LEMMA BeginRuntimeKeeps ==
  ASSUME ObservationInv, BeginRuntime
  PROVE  ObservationInv'
<1> DEFINE begun   == [Idle EXCEPT !.op = "runtime", !.at = "principal",
                                   !.paths = world.declared, !.container = world.container]
           refused == [begun EXCEPT !.at = "report", !.result = "unknown"]
<1>1. world.declared \in Declaration /\ world.container \in Nat
  BY DEF ObservationInv, TypeOK, World
<1>2. /\ obs' \in {begun, refused} /\ (Works \/ Fails)
      /\ runs' = runs + 1 /\ runs < MaxRuns /\ worlds' = {world} /\ reverted' = FALSE
      /\ UNCHANGED <<world, hung, changes>>
  BY DEF BeginRuntime
<1>3. runs' \in 0 .. MaxRuns
  BY <1>2, GrantsAssumption DEF ObservationInv, TypeOK
<1>4. /\ begun \in Observation /\ Fresh(begun) /\ begun.op = "runtime"
      /\ begun.at = "principal" /\ begun.container = world.container
  <2>1. begun \in Observation
    BY <1>1, IdleOK, Zenon DEF Observation
  <2> QED BY <2>1 DEF Idle, Fresh
<1>5. /\ refused \in Observation /\ Fresh(refused) /\ refused.op = "runtime"
      /\ refused.at = "report" /\ refused.container = world.container
  <2> HIDE DEF begun
  <2>1. refused \in Observation
    <3>1. begun.grant \in Grants
      BY <1>4 DEF Observation
    <3> QED BY <1>4, <3>1, GoesOn, Zenon
  <2> QED BY <1>4, <2>1 DEF Fresh, Observation
<1> HIDE DEF begun, refused
<1>6. /\ obs' \in Observation /\ Fresh(obs') /\ obs'.op = "runtime"
      /\ obs'.at \in {"principal", "report"} /\ obs'.container = world.container
  BY <1>2, <1>4, <1>5, Zenon
<1>7. Stages'
  BY <1>6 DEF Stages, StatusStages
<1> QED BY <1>2, <1>3, <1>6, <1>7, FreshKeeps, Zenon

LEMMA FinishKeeps ==
  ASSUME ObservationInv, Finish
  PROVE  ObservationInv'
<1>1. /\ obs' = Idle /\ Works
      /\ UNCHANGED <<world, hung, worlds, reverted, changes, runs>>
  BY DEF Finish, Unchanged
<1>2. obs' \in Observation /\ Fresh(obs') /\ obs'.op = "none" /\ obs'.at = "idle"
  BY <1>1, IdleOK, IdleFresh, Zenon
<1>3. Stages'
  BY <1>2 DEF Stages, StatusStages
<1>4. runs' \in 0 .. MaxRuns /\ reverted' \in BOOLEAN
  BY <1>1 DEF ObservationInv, TypeOK
<1> QED BY <1>1, <1>2, <1>3, <1>4, FreshKeeps

LEMMA InvBegins ==
  ASSUME Init
  PROVE  ObservationInv
<1>1. /\ obs = Idle /\ hung = FALSE /\ worlds = {world} /\ reverted = FALSE
      /\ changes = 0 /\ faults = 0 /\ runs = 0
  BY DEF Init
<1>2. world \in World
  <2>1. /\ [Grants -> {"none", "right"}] \subseteq [Grants -> Place]
        /\ [g \in Grants |-> "right"] \in [Grants -> Place]
        /\ [g \in Grants |-> TRUE] \in [Grants -> BOOLEAN] /\ 0 \in Nat
    BY DEF Place
  <2>2. world \in [declared : {d \in Declaration : d.requested \in {Grants, {}}},
                   host : [Grants -> {"none", "right"}],
                   inside : {[g \in Grants |-> "right"]},
                   open : {[g \in Grants |-> TRUE]},
                   stray : {FALSE}, container : {0}]
    BY Zenon DEF Init
  <2> QED BY <2>1, <2>2, Zenon DEF World
<1>3. obs \in Observation /\ Fresh(obs) /\ obs.op = "none" /\ obs.at = "idle"
  BY <1>1, IdleOK, IdleFresh, Zenon
<1>4. TypeOK
  <2>1. changes \in 0 .. MaxChanges /\ faults \in 0 .. MaxFaults /\ runs \in 0 .. MaxRuns
    BY <1>1, GrantsAssumption
  <2> QED BY <1>1, <1>2, <1>3, <2>1, Zenon DEF TypeOK
<1>8. History /\ Stages
  BY <1>1, <1>3 DEF History, Stages, StatusStages
<1>5. \A r \in 1 .. 2, g \in Grants : ~obs.evidence[r][g].complete
  BY <1>3, GapOK DEF Fresh
<1>6. StatusInv
  BY <1>3, <1>5, Rounds, Zenon DEF StatusInv, FirstRound, Reported, ItemOK, Described,
                                   Inventoried, Fresh
<1>7. RuntimeInv
  BY <1>3 DEF RuntimeInv, HostRead, InsideRead, ProbeRead, Judgement, Fresh
<1> QED BY <1>4, <1>6, <1>7, <1>8, Zenon DEF ObservationInv

--------------------------------------------------------------------------------
(* The world changes *)

\* A value that was seen before does not come back unnoticed.
LEMMA SeenStays ==
  ASSUME NEW new, Becomes(new), ~reverted', NEW g \in Grants, NEW v
  PROVE  /\ ~reverted
         /\ SeenHost(g, v) /\ new.host[g] = v => world.host[g] = v
         /\ SeenOpen(g, v) /\ new.open[g] = v => world.open[g] = v
BY Zenon DEF Becomes, Back, SeenHost, SeenOpen

LEMMA BecomesKeeps ==
  ASSUME ObservationInv, NEW new \in World, Becomes(new), new.container >= world.container
  PROVE  ObservationInv'
<1>1. /\ obs.at # "report" /\ world' = new /\ worlds' = worlds \cup {new}
      /\ changes < MaxChanges /\ changes' = changes + 1 /\ UNCHANGED <<hung, obs, faults, runs>>
      /\ reverted' \in BOOLEAN
  BY DEF Becomes, Back
<1>2. TypeOK'
  BY <1>1, GrantsAssumption DEF ObservationInv, TypeOK
<1>3. History'
  <2>1. /\ \A w \in worlds : w.container \in Nat
        /\ world.container \in Nat /\ new.container \in Nat /\ world \in worlds
        /\ obs.container \in Nat
    BY ZenonT(30) DEF ObservationInv, TypeOK, History, World, Observation
  <2> QED BY <1>1, <2>1 DEF ObservationInv, History
<1>4. Stages' /\ FirstRound' /\ Reported'
  BY <1>1, Zenon DEF ObservationInv, Stages, StatusInv, FirstRound, Reported
<1>5. HostRead' /\ InsideRead'
  BY <1>1, Zenon DEF ObservationInv, RuntimeInv, HostRead, InsideRead, SeenHost, Resolved
<1>6. ProbeRead' /\ Judgement'
  BY <1>1 DEF ObservationInv, RuntimeInv, ProbeRead, Judgement
<1>7. ASSUME ~reverted'
      PROVE  ItemOK(obs.grant)' /\ Described' /\ Inventoried'
  <2>1. /\ obs.grant \in Grants /\ ~reverted
        /\ ItemOK(obs.grant) /\ Described /\ Inventoried
    <3>1. obs.grant \in Grants
      BY DEF ObservationInv, TypeOK, Observation
    <3>2. ~reverted
      BY <1>7, <3>1, SeenStays, Zenon
    <3> QED BY <3>1, <3>2 DEF ObservationInv, StatusInv
  <2>2. ItemOK(obs.grant)'
    <3>1. SeenOpen(obs.grant, obs.id.open) /\ new.open[obs.grant] = obs.id.open =>
            world.open[obs.grant] = obs.id.open
      BY <1>7, <2>1, SeenStays, Zenon
    <3> QED BY <1>1, <2>1, <3>1, Zenon DEF ItemOK, SeenOpen, SeenHost
  <2>3. Described'
    BY <1>1, <2>1, Zenon DEF Described
  <2>4. Inventoried'
    <3> SUFFICES ASSUME obs.round = 2
                 PROVE  Inventoried'
      BY <1>1 DEF Inventoried
    <3>1. PICK w \in worlds : /\ obs.targets = {g \in Grants : w.host[g] # "none"}
                              /\ obs.exact = ~w.stray /\ \A g \in Grants : Between(w, g)
      BY <2>1, Zenon DEF Inventoried
    <3>2. ASSUME NEW g \in Grants
          PROVE  Between(w, g)'
      <4> DEFINE first == obs.evidence[1][g]
      <4>1. first.complete => SeenHost(g, first.rows) /\ SeenOpen(g, first.open)
        <5>1. first.complete => \E v \in worlds : Describes(first, v, g)
          BY <2>1, Rounds, Zenon DEF Described
        <5> QED BY <5>1, Zenon DEF Describes, SeenHost, SeenOpen
      <4>2. /\ SeenHost(g, first.rows) /\ new.host[g] = first.rows => world.host[g] = first.rows
            /\ SeenOpen(g, first.open) /\ new.open[g] = first.open => world.open[g] = first.open
        BY <1>7, SeenStays
      <4> HIDE DEF first
      <4> QED BY <1>1, <3>1, <4>1, <4>2, Zenon DEF Between, first
    <3> QED BY <1>1, <3>1, <3>2, Zenon DEF Inventoried
  <2> QED BY <2>2, <2>3, <2>4
<1> QED BY <1>2, <1>3, <1>4, <1>5, <1>6, <1>7, Zenon DEF ObservationInv, StatusInv, RuntimeInv

LEMMA EnvironmentKeeps ==
  ASSUME ObservationInv, Environment
  PROVE  ObservationInv'
<1>1. world \in World /\ world.container \in Nat /\ world.container >= world.container
  BY DEF ObservationInv, TypeOK, World
<1>2. CASE HostChanges
  <2>1. PICK g \in Grants, p \in Place :
          \/ Becomes([world EXCEPT !.host[g] = p])
          \/ Becomes([world EXCEPT !.host[g] = p, !.inside[g] = p])
    BY <1>2, Zenon DEF HostChanges
  <2>2. /\ [world EXCEPT !.host[g] = p] \in World
        /\ [world EXCEPT !.host[g] = p].container = world.container
        /\ [world EXCEPT !.host[g] = p, !.inside[g] = p] \in World
        /\ [world EXCEPT !.host[g] = p, !.inside[g] = p].container = world.container
    BY <1>1, Zenon DEF World
  <2> QED BY <1>1, <2>1, <2>2, BecomesKeeps, Zenon
<1>3. CASE AccessChanges
  <2>1. PICK g \in Grants : Becomes([world EXCEPT !.open[g] = ~@])
    BY <1>3, Zenon DEF AccessChanges
  <2>2. /\ [world EXCEPT !.open[g] = ~@] \in World
        /\ [world EXCEPT !.open[g] = ~@].container = world.container
    BY <1>1, Zenon DEF World
  <2> QED BY <1>1, <2>1, <2>2, BecomesKeeps, Zenon
<1>4. CASE StrayChanges
  <2>1. Becomes([world EXCEPT !.stray = ~@])
    BY <1>4 DEF StrayChanges
  <2>2. /\ [world EXCEPT !.stray = ~@] \in World
        /\ [world EXCEPT !.stray = ~@].container = world.container
    BY <1>1, Zenon DEF World
  <2> QED BY <1>1, <2>1, <2>2, BecomesKeeps, Zenon
<1>5. CASE ContainerRestarts
  <2>1. Becomes([world EXCEPT !.container = @ + 1, !.inside = world.host])
    BY <1>5 DEF ContainerRestarts
  <2>2. /\ [world EXCEPT !.container = @ + 1, !.inside = world.host] \in World
        /\ [world EXCEPT !.container = @ + 1, !.inside = world.host].container
             = world.container + 1
    <3>1. world.container + 1 \in Nat /\ world.host \in [Grants -> Place]
      BY <1>1 DEF World
    <3> QED BY <1>1, <3>1, Zenon DEF World
  <2>3. world.container + 1 >= world.container
    BY <1>1
  <2> QED BY <2>1, <2>2, <2>3, BecomesKeeps, Zenon
<1>6. CASE NasHangs \/ NasAnswers
  <2>1. /\ UNCHANGED <<world, obs, worlds, reverted, changes, runs>>
        /\ hung' \in BOOLEAN /\ (Works \/ Fails)
    BY <1>6, Zenon DEF NasHangs, NasAnswers, Works
  <2>2. TypeOK'
    BY <2>1, FaultOK DEF ObservationInv, TypeOK
  <2>3. History' /\ Stages' /\ StatusInv' /\ RuntimeInv'
    BY <2>1, SameSight, Zenon
  <2> QED BY <2>2, <2>3, Zenon DEF ObservationInv
<1> QED BY <1>2, <1>3, <1>4, <1>5, <1>6 DEF Environment

--------------------------------------------------------------------------------
(* The theorems *)

LEMMA ObservationInvariant == Spec => []ObservationInv
<1>1. Init => ObservationInv
  BY InvBegins
<1>2. ObservationInv /\ [Next]_vars => ObservationInv'
  <2> SUFFICES ASSUME ObservationInv, [Next]_vars
               PROVE  ObservationInv'
    OBVIOUS
  <2>1. CASE Next
    BY <2>1, BeginStatusKeeps, StatusKeeps, BeginRuntimeKeeps, RuntimeKeeps, FinishKeeps,
       EnvironmentKeeps DEF Next
  <2>2. CASE UNCHANGED vars
    <3>1. UNCHANGED <<world, hung, obs, worlds, reverted, changes, faults, runs>>
      BY <2>2 DEF vars
    <3>2. TypeOK'
      BY <3>1, Zenon DEF ObservationInv, TypeOK
    <3>3. History' /\ Stages' /\ StatusInv' /\ RuntimeInv'
      BY <3>1, SameSight, Zenon
    <3> QED BY <3>2, <3>3, Zenon DEF ObservationInv
  <2> QED BY <2>1, <2>2
<1> QED BY <1>1, <1>2, PTL DEF Spec

\* What both rounds found was so when the mounts were listed between them.
LEMMA SnapshotHolds ==
  ASSUME ObservationInv
  PROVE  CompleteIsSnapshot
<1> SUFFICES ASSUME obs.result = "complete", ~reverted
             PROVE  \E w \in worlds :
                      /\ \A g \in obs.paths.effective : Describes(obs.evidence[2][g], w, g)
                      /\ ~w.stray
                      /\ {g \in Grants : w.host[g] # "none"} = obs.paths.effective
  BY Zenon DEF CompleteIsSnapshot, ObservationInv
<1>1. /\ obs.round = 2 /\ obs.evidence[1] = obs.evidence[2]
      /\ \A g \in obs.paths.effective : obs.evidence[2][g].complete
      /\ obs.exact /\ obs.targets = obs.paths.effective /\ obs.paths.effective \subseteq Grants
  BY DEF ObservationInv, StatusInv, Reported, TypeOK, Observation, Declaration
<1>2. PICK w \in worlds : /\ obs.targets = {g \in Grants : w.host[g] # "none"}
                          /\ obs.exact = ~w.stray /\ \A g \in Grants : Between(w, g)
  BY <1>1, Zenon DEF ObservationInv, StatusInv, Inventoried
<1>3. ASSUME NEW g \in obs.paths.effective
      PROVE  Describes(obs.evidence[2][g], w, g)
  <2>1. PICK v \in worlds : Describes(obs.evidence[2][g], v, g)
    BY <1>1, <1>3, Rounds, Zenon DEF ObservationInv, StatusInv, Described
  <2>2. w.host[g] = v.host[g] /\ w.open[g] = v.open[g]
    BY <1>1, <1>2, <1>3, <2>1 DEF Between, Describes
  <2> QED BY <2>1, <2>2 DEF Describes
<1>4. ~w.stray
  BY <1>1, <1>2, Zenon
<1> QED BY <1>1, <1>2, <1>3, <1>4

\* Complete evidence of `nas view status' describes the host as it was at one
\* moment of the observation, whatever changed while it was gathered.
THEOREM EvidenceIsSnapshot == Spec => []CompleteIsSnapshot
<1>1. ObservationInv => CompleteIsSnapshot
  BY SnapshotHolds
<1> QED BY <1>1, ObservationInvariant, PTL

\* Where a path was probed, the container still ran that was resolved: what was
\* read on the host was read while it did.
LEMMA ReadWhileItRan ==
  ASSUME ObservationInv, obs.op = "runtime", NEW g \in Grants, obs.reads[g] # "?",
         obs.hostRows[g] # "?"
  PROVE  \E w \in Resolved : w.host[g] = obs.hostRows[g]
<1>1. PICK w \in worlds : w.host[g] = obs.hostRows[g]
  BY DEF ObservationInv, RuntimeInv, HostRead, SeenHost
<1>2. world.container = obs.container
  BY DEF ObservationInv, RuntimeInv, ProbeRead
<1>3. w.container \in Nat /\ obs.container \in Nat
  BY DEF ObservationInv, TypeOK, World, Observation
<1>4. w.container = obs.container
  BY <1>1, <1>2, <1>3 DEF ObservationInv, History
<1> QED BY <1>1, <1>4 DEF Resolved

\* A healthy path was mounted right and read.
LEMMA HealthyPath ==
  ASSUME NEW o \in Observation, NEW g \in Grants
  PROVE  FailureClass(o, g) = "healthy" <=>
           o.hostRows[g] = "right" /\ o.insideRows[g] = "right" /\ o.reads[g] = "read"
<1>1. /\ o.hostRows[g] \in {"none", "right", "rw", "wrong", "?"}
      /\ o.insideRows[g] \in {"none", "right", "rw", "wrong", "?"}
  BY DEF Observation, Place
<1>2. ProbeClass(o, g) = "healthy" <=> o.reads[g] = "read"
  BY Zenon DEF ProbeClass
<1>3. MountClass(o, g) = "none" <=> o.hostRows[g] = "right" /\ o.insideRows[g] = "right"
  BY <1>1 DEF MountClass
<1>4. MountClass(o, g) # "healthy"
  BY FailureClasses, Zenon
<1> QED BY <1>2, <1>3, <1>4 DEF FailureClass

\* A failure that the class names was read where the verdict says.
LEMMA FailedPath ==
  ASSUME NEW o \in Observation, NEW g \in Grants
  PROVE  /\ FailureClass(o, g) = "missing" =>
              o.hostRows[g] = "none" \/ o.insideRows[g] = "none"
         /\ FailureClass(o, g) = "source" =>
              o.hostRows[g] = "wrong" \/ o.insideRows[g] = "wrong"
         /\ FailureClass(o, g) = "denied" => o.reads[g] = "denied"
<1>1. /\ MountClass(o, g) = "missing" => o.hostRows[g] = "none" \/ o.insideRows[g] = "none"
      /\ MountClass(o, g) = "source" => o.hostRows[g] = "wrong" \/ o.insideRows[g] = "wrong"
  BY DEF MountClass
<1>2. ProbeClass(o, g) = "denied" => o.reads[g] = "denied"
  BY DEF ProbeClass
<1> QED BY <1>1, <1>2, FailureClasses, Zenon DEF FailureClass

INSTANCE FiniteSetTheorems

LEMMA GrantsFinite ==
  ASSUME NEW S \in SUBSET Grants
  PROVE  IsFiniteSet(S) /\ Cardinality(S) \in Nat
<1>1. IsFiniteSet(Grants)
  BY FS_Interval, GrantsAssumption DEF Grants
<1> QED BY <1>1, FS_Subset, FS_CardinalityType, Zenon

\* A part that is as large as the whole is the whole.
LEMMA SameSize ==
  ASSUME NEW S \in SUBSET Grants, NEW T \in SUBSET S, Cardinality(T) = Cardinality(S)
  PROVE  T = S
BY GrantsFinite, FS_Subset

\* The public counts agree with the verdict.
LEMMA FactsHold ==
  ASSUME ObservationInv, obs.op = "runtime"
  PROVE  FactsAgree(obs)
<1> DEFINE asked  == obs.paths.requested
           bound  == obs.paths.effective
           onHost == {g \in Probed(obs) : obs.hostRows[g] = "right"}
           inside == {g \in Probed(obs) : obs.insideRows[g] = "right"}
           opened == {g \in Probed(obs) : ProbeClass(obs, g) = "healthy"}
           facts  == PublicFacts(obs)
<1>1. /\ obs \in Observation /\ asked \in SUBSET Grants /\ bound \in SUBSET asked
      /\ bound \in SUBSET Grants
  BY Zenon DEF ObservationInv, TypeOK, Observation, Declaration
<1>2. /\ facts.available = (obs.class # "none")
      /\ facts.requested = Cardinality(asked) /\ facts.effective = Cardinality(bound)
      /\ facts.host_mount_verified = Cardinality(onHost)
      /\ facts.container_mount_verified = Cardinality(inside)
      /\ facts.bounded_probe_open_read = Cardinality(opened)
      /\ \A c \in {"missing", "source", "denied", "empty", "contract"} :
           facts.failure[c] = Cardinality({g \in Probed(obs) : FailureClass(obs, g) = c})
  BY Zenon DEF PublicFacts
<1>3. /\ obs.class # "none" => /\ obs.class = Aggregate(obs) /\ Probed(obs) = bound
                               /\ obs.result = ResultOf(obs.class)
      /\ obs.class = "none" => obs.result \in {"none", "unknown"}
  BY DEF ObservationInv, RuntimeInv, Judgement, Probed
<1>4. obs.result = "healthy" <=> obs.class # "none" /\ Aggregate(obs) = "healthy"
  BY <1>3, AggregateOK, Zenon DEF ResultOf
<1> HIDE DEF facts
<1>5. ASSUME obs.class # "none"
      PROVE  Aggregate(obs) = "healthy" <=>
               bound = asked /\ onHost = asked /\ inside = asked /\ opened = asked
  <2>1. Aggregate(obs) = "healthy" <=>
          asked = bound /\ \A g \in bound : FailureClass(obs, g) = "healthy"
    BY AggregateOK
  <2>2. \A g \in bound : FailureClass(obs, g) = "healthy" <=>
          /\ obs.hostRows[g] = "right" /\ obs.insideRows[g] = "right"
          /\ ProbeClass(obs, g) = "healthy"
    <3>1. \A g \in bound : ProbeClass(obs, g) = "healthy" <=> obs.reads[g] = "read"
      BY DEF ProbeClass
    <3> QED BY <1>1, <3>1, HealthyPath, Zenon
  <2>3. Probed(obs) = bound
    BY <1>3, <1>5
  <2> QED BY <2>1, <2>2, <2>3, Zenon
<1>6. /\ onHost \in SUBSET bound /\ inside \in SUBSET bound /\ opened \in SUBSET bound
  BY Zenon DEF Probed
<1> HIDE DEF asked, bound, onHost, inside, opened
<1>7. obs.result = "healthy" <=>
        /\ facts.available
        /\ \A n \in {facts.effective, facts.host_mount_verified,
                     facts.container_mount_verified,
                     facts.bounded_probe_open_read} : n = facts.requested
  <2>1. /\ bound = asked <=> Cardinality(bound) = Cardinality(asked)
        /\ onHost = asked <=> Cardinality(onHost) = Cardinality(asked)
        /\ inside = asked <=> Cardinality(inside) = Cardinality(asked)
        /\ opened = asked <=> Cardinality(opened) = Cardinality(asked)
    BY <1>1, <1>6, SameSize
  <2> QED BY <1>2, <1>4, <1>5, <2>1, Zenon
<1>8. ASSUME obs.result = "unhealthy", obs.class # "cardinality"
      PROVE  facts.failure[obs.class] > 0
  <2>1. /\ obs.class # "none" /\ obs.class = Aggregate(obs) /\ Probed(obs) = bound
        /\ obs.class \in {"missing", "source", "denied"}
    <3>1. obs.class # "none"
      BY <1>3, <1>8, Zenon
    <3>2. ResultOf(obs.class) = "unhealthy"
      BY <1>3, <1>8, <3>1
    <3>3. obs.class \in {"missing", "source", "denied"}
      BY <1>8, <3>2, Zenon DEF ResultOf
    <3> QED BY <1>3, <3>1, <3>3, Zenon
  <2>2. PICK g \in bound : FailureClass(obs, g) = obs.class
    BY <2>1, AggregateOK DEF bound
  <2> DEFINE failed == {h \in Probed(obs) : FailureClass(obs, h) = obs.class}
  <2>3. failed \in SUBSET Grants /\ failed # {}
    BY <1>1, <2>1, <2>2, Zenon
  <2>4. facts.failure[obs.class] = Cardinality(failed)
    BY <1>2, <2>1
  <2> HIDE DEF failed
  <2>5. Cardinality(failed) \in Nat /\ Cardinality(failed) # 0
    BY <2>3, GrantsFinite, FS_EmptySet, Zenon
  <2> QED BY <2>4, <2>5
<1> QED BY <1>7, <1>8, Zenon DEF FactsAgree, facts

LEMMA VerdictHolds ==
  ASSUME ObservationInv
  PROVE  VerdictIsTrue
<1> SUFFICES ASSUME obs.at = "report", obs.op = "runtime"
             PROVE  VerdictIsTrue
  BY Zenon DEF VerdictIsTrue
<1>1. /\ obs \in Observation /\ obs.paths.effective \in SUBSET Grants /\ world \in worlds
  BY DEF ObservationInv, TypeOK, Observation, Declaration, History
<1>2. /\ obs.class # "none" => obs.class = Aggregate(obs) /\ obs.result = ResultOf(obs.class)
      /\ obs.class = "none" => obs.result \in {"none", "unknown"}
  BY DEF ObservationInv, RuntimeInv, Judgement
<1>3. ASSUME obs.result = "healthy"
      PROVE  /\ obs.paths.requested = obs.paths.effective
             /\ \A g \in obs.paths.effective :
                  /\ \E w \in Resolved : w.host[g] = "right"
                  /\ \E w \in Resolved : w.inside[g] = "right"
                  /\ \E w \in Resolved : w.open[g]
  <2>1. Aggregate(obs) = "healthy"
    BY <1>2, <1>3, AggregateOK, Zenon DEF ResultOf
  <2>2. /\ obs.paths.requested = obs.paths.effective
        /\ \A g \in obs.paths.effective :
             obs.hostRows[g] = "right" /\ obs.insideRows[g] = "right" /\ obs.reads[g] = "read"
    BY <1>1, <2>1, AggregateOK, HealthyPath, Zenon
  <2>3. ASSUME NEW g \in obs.paths.effective
        PROVE  /\ \E w \in Resolved : w.host[g] = "right"
               /\ \E w \in Resolved : w.inside[g] = "right"
               /\ \E w \in Resolved : w.open[g]
    <3>1. /\ g \in Grants /\ obs.hostRows[g] = "right" /\ obs.insideRows[g] = "right"
          /\ obs.reads[g] = "read"
      BY <1>1, <2>2, <2>3, Zenon
    <3>2. \E w \in Resolved : w.host[g] = "right"
      BY <3>1, ReadWhileItRan, Zenon
    <3>3. \E w \in Resolved : w.inside[g] = "right"
      BY <3>1 DEF ObservationInv, RuntimeInv, InsideRead
    <3>4. world \in Resolved /\ world.open[g]
      BY <1>1, <3>1, Zenon DEF ObservationInv, RuntimeInv, ProbeRead, Resolved
    <3> QED BY <3>2, <3>3, <3>4, Zenon
  <2> QED BY <2>2, <2>3
<1>4. ASSUME obs.class \in {"missing", "source", "denied"}
      PROVE  \E g \in obs.paths.effective : FailureClass(obs, g) = obs.class
  BY <1>2, <1>4, AggregateOK
<1>5. ASSUME NEW g \in Grants, NEW v \in {"none", "wrong"},
             obs.hostRows[g] = v \/ obs.insideRows[g] = v
      PROVE  \/ \E w \in worlds : w.host[g] = v
             \/ \E w \in Resolved : w.inside[g] = v
  BY <1>5, Zenon DEF ObservationInv, RuntimeInv, HostRead, InsideRead, SeenHost
<1>6. obs.class = "missing" =>
        \E g \in obs.paths.effective : \/ \E w \in worlds : w.host[g] = "none"
                                       \/ \E w \in Resolved : w.inside[g] = "none"
  BY <1>1, <1>4, <1>5, FailedPath
<1>7. obs.class = "source" =>
        \E g \in obs.paths.effective : \/ \E w \in worlds : w.host[g] = "wrong"
                                       \/ \E w \in Resolved : w.inside[g] = "wrong"
  BY <1>1, <1>4, <1>5, FailedPath, Zenon
<1>8. obs.class = "denied" => \E g \in obs.paths.effective, w \in Resolved : ~w.open[g]
  <2> SUFFICES ASSUME obs.class = "denied"
               PROVE  \E g \in obs.paths.effective, w \in Resolved : ~w.open[g]
    OBVIOUS
  <2>1. PICK g \in obs.paths.effective : FailureClass(obs, g) = "denied"
    BY <1>4
  <2>2. obs.reads[g] = "denied" /\ g \in Grants
    BY <1>1, <2>1, FailedPath, Zenon
  <2>3. world \in Resolved /\ ~world.open[g]
    BY <1>1, <2>2, Zenon DEF ObservationInv, RuntimeInv, ProbeRead, Resolved
  <2> QED BY <2>3, Zenon
<1> QED BY <1>3, <1>6, <1>7, <1>8, FactsHold, Zenon DEF VerdictIsTrue

\* The verdict of nas.observe_groupware_runtime is true of the container that it
\* resolved, and the counts it publishes say the same.
THEOREM VerdictsAreTrue == Spec => []VerdictIsTrue
<1>1. ObservationInv => VerdictIsTrue
  BY VerdictHolds
<1> QED BY <1>1, ObservationInvariant, PTL

================================================================================
