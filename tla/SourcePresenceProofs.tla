------------------------ MODULE SourcePresenceProofs ------------------------
(***************************************************************************)
(* Proofs about SourcePresence, for any set of episodes, any snapshots, any *)
(* confirmation time and any number of publications.                        *)
(*                                                                          *)
(* A row can only be confirmed missing by what the publications really did  *)
(* not see.  The argument follows the evidence down the tree: a suspect row *)
(* remembers a time not before the first absence since its last sighting    *)
(* (SuspectInv), absences are recorded in the order of the publications     *)
(* (OrderInv), and what an episode's absence counts, the absence of each of *)
(* its parts counts too (TreeInv), so that the cascade is covered.          *)
(***************************************************************************)
EXTENDS SourcePresence, TLAPS

KindInv ==
  /\ scans \in Nat
  /\ clock \in Nat
  /\ publishing.now \in Nat
  /\ publishing.now <= clock
  /\ sighted \subseteq Thing
  /\ DOMAIN evidence = Thing
  /\ \A x \in Thing :
       \/ evidence[x] \in {NoRow, Present, Missing}
       \/ \E s \in 1..scans, t \in 0..clock : evidence[x] = Suspect(s, t)
  /\ absence \in [Thing -> [first : Nat, last : Nat, firstBy : Nat, lastBy : Nat]]

\* Absences are numbered and timed like the publications that recorded them.
OrderInv ==
  \A x \in Thing :
    /\ absence[x].firstBy = 0 <=> absence[x] = NoAbsence
    /\ absence[x].firstBy <= scans
    /\ absence[x].first <= absence[x].last
    /\ absence[x].last <= clock
    /\ publishing.open => absence[x].last <= publishing.now

\* A row exists for everything that was ever seen.
RowInv == \A x \in sighted : HasRow(x)

\* A suspect row remembers an absence since its last sighting.
SuspectInv ==
  \A x \in Thing : Is(x, "suspect_missing") =>
    /\ absence[x].firstBy # 0
    /\ absence[x].firstBy <= evidence[x].by
    /\ absence[x].first <= evidence[x].first

\* Where an episode has been absent, so has each of its parts, for as long.
TreeInv ==
  \A e \in Episode, q \in Part : absence[Self(e)].firstBy # 0 =>
    /\ absence[PartOf(e, q)].firstBy # 0
    /\ absence[PartOf(e, q)].firstBy <= absence[Self(e)].firstBy
    /\ absence[PartOf(e, q)].first <= absence[Self(e)].first

IInv ==
  /\ KindInv
  /\ OrderInv
  /\ RowInv
  /\ SuspectInv
  /\ TreeInv
  /\ MissingNeedsTwoAbsences

-----------------------------------------------------------------------------

LEMMA SelfIsThing ==
  ASSUME NEW e \in Episode
  PROVE  Self(e) \in Thing /\ Self(e) # TheList /\ Self(e)[1] = e /\ Self(e)[2] = "self"
BY PresenceAssumption DEF Self, Thing

LEMMA PartIsThing ==
  ASSUME NEW e \in Episode, NEW q \in Part
  PROVE  /\ PartOf(e, q) \in Thing /\ PartOf(e, q) # TheList
         /\ PartOf(e, q)[1] = e /\ PartOf(e, q)[2] = q /\ q # "self"
BY PresenceAssumption DEF PartOf, Thing, Part, Scope, File

LEMMA ThingKinds ==
  ASSUME NEW x \in Thing
  PROVE  \/ x = TheList
         \/ \E e \in Episode : x = Self(e)
         \/ \E e \in Episode, q \in Part : x = PartOf(e, q)
BY DEF Thing, Self, PartOf

\* A part is seen only with its episode.
LEMMA PartSeenWithEpisode ==
  ASSUME NEW v, NEW e \in Episode, NEW q \in Part, Sees(v, PartOf(e, q))
  PROVE  Sees(v, Self(e))
BY SelfIsThing, PartIsThing DEF Sees, Seen

\* What a publication may do to the evidence of one row.
LEMMA EvidenceMoves ==
  ASSUME NEW v, NEW s, NEW t, NEW x \in Thing
  PROVE  LET r == EvidenceAfter(v, s, t)[x] IN
         \/ Sees(v, x) /\ r = Present
         \/ ~Sees(v, x) /\ r = evidence[x]
         \/ ~Sees(v, x) /\ r = Advance(evidence[x], s, t)
         \/ ~Sees(v, x) /\ r = Missing /\ evidence[x] = NoRow
         \/ /\ ~Sees(v, x) /\ r = Missing /\ evidence[x] # NoRow
            /\ \E e \in Episode, q \in Part : x = PartOf(e, q) /\ BecameMissing(v, e, s, t)
<1>1. CASE x = TheList
  BY <1>1 DEF EvidenceAfter, Sees, ListAfter
<1>2. ASSUME NEW e \in Episode, x = Self(e)
      PROVE  EvidenceAfter(v, s, t)[x] = EpisodeAfter(v, e, s, t) /\ (Sees(v, x) <=> Seen(v, e))
  BY <1>2, SelfIsThing DEF EvidenceAfter, Sees
<1>3. CASE \E e \in Episode : x = Self(e)
  BY <1>2, <1>3 DEF EpisodeAfter
<1>4. ASSUME NEW e \in Episode, NEW q \in Part, x = PartOf(e, q)
      PROVE  /\ EvidenceAfter(v, s, t)[x] = PartAfter(v, e, q, s, t)
             /\ Sees(v, x) <=> q \in v[e].parts
  BY <1>4, PartIsThing DEF EvidenceAfter, Sees
<1>5. CASE \E e \in Episode, q \in Part : x = PartOf(e, q)
  <2>. PICK e \in Episode, q \in Part : x = PartOf(e, q)
    BY <1>5
  <2>. QED
    BY <1>4 DEF PartAfter, Cascade
<1>. QED
  BY <1>1, <1>3, <1>5, ThingKinds

-----------------------------------------------------------------------------

LEMMA InitInv == Init => IInv
<1>. SUFFICES ASSUME Init PROVE IInv
  OBVIOUS
<1>. USE DEF Init
<1>1. KindInv
  BY DEF KindInv, NoAbsence, Idle
<1>2. OrderInv
  BY DEF OrderInv, NoAbsence, Idle
<1>3. RowInv /\ SuspectInv /\ MissingNeedsTwoAbsences
  BY DEF RowInv, SuspectInv, MissingNeedsTwoAbsences, Is, NoRow, Thing
<1>4. TreeInv
  BY SelfIsThing DEF TreeInv, NoAbsence
<1>. QED
  BY <1>1, <1>2, <1>3, <1>4 DEF IInv

\* What a publication does to the absences of one thing.
LEMMA AbsenceMoves ==
  ASSUME KindInv, NEW v, NEW s \in Nat, NEW t \in Nat, NEW x \in Thing
  PROVE  LET a == AbsenceAfter(v, s, t)[x] IN
         /\ a \in [first : Nat, last : Nat, firstBy : Nat, lastBy : Nat]
         /\ Sees(v, x) => a = NoAbsence
         /\ ~Sees(v, x) =>
              /\ a.last = t /\ a.lastBy = s
              /\ absence[x] = NoAbsence => a.first = t /\ a.firstBy = s
              /\ absence[x] # NoAbsence =>
                   a.first = absence[x].first /\ a.firstBy = absence[x].firstBy
BY DEF KindInv, AbsenceAfter, NoAbsence

LEMMA PublishInv ==
  ASSUME IInv, NEW v \in Snapshot, PublishList(v)
  PROVE  IInv'
<1>. DEFINE s == scans + 1
            t == publishing.now
<1>. USE PresenceAssumption
<1>1. /\ s \in Nat /\ t \in Nat /\ s # 0 /\ t <= clock
      /\ evidence' = EvidenceAfter(v, s, t)
      /\ absence' = AbsenceAfter(v, s, t)
      /\ sighted' = sighted \cup {x \in Thing : Sees(v, x)}
      /\ scans' = s /\ clock' = clock /\ publishing' = Idle /\ publishing.open
  BY DEF PublishList, IInv, KindInv
<1>. HIDE DEF s, t
<1>2. \A x \in Thing :
        \/ evidence[x] \in {NoRow, Present, Missing}
        \/ \E n \in 1..scans, c \in 0..clock : evidence[x] = Suspect(n, c)
  BY DEF IInv, KindInv
<1>3. KindInv /\ OrderInv /\ scans \in Nat /\ clock \in Nat /\ s = scans + 1
  BY DEF IInv, KindInv, s
\* The facts about one thing that every part of the invariant needs.
<1>4. \A x \in Thing :
        /\ absence'[x] \in [first : Nat, last : Nat, firstBy : Nat, lastBy : Nat]
        /\ Sees(v, x) => absence'[x] = NoAbsence
        /\ ~Sees(v, x) =>
             /\ absence'[x].last = t /\ absence'[x].lastBy = s
             /\ absence[x] = NoAbsence => absence'[x].first = t /\ absence'[x].firstBy = s
             /\ absence[x] # NoAbsence =>
                  /\ absence'[x].first = absence[x].first
                  /\ absence'[x].firstBy = absence[x].firstBy
  BY <1>1, <1>3, AbsenceMoves
<1>5. \A x \in Thing :
        /\ absence[x] \in [first : Nat, last : Nat, firstBy : Nat, lastBy : Nat]
        /\ absence[x].firstBy = 0 <=> absence[x] = NoAbsence
        /\ absence[x].firstBy <= scans
        /\ absence[x].first <= absence[x].last
        /\ absence[x].last <= t
  BY <1>1, <1>3 DEF KindInv, OrderInv, t
<1>6. KindInv'
  <2>1. ASSUME NEW x \in Thing
        PROVE  \/ evidence'[x] \in {NoRow, Present, Missing}
               \/ \E n \in 1..s, c \in 0..clock : evidence'[x] = Suspect(n, c)
    <3>1. Advance(evidence[x], s, t) \in {evidence[x], Missing, Suspect(s, t)}
      BY DEF Advance
    <3>2. evidence'[x] \in {Present, Missing, evidence[x], Suspect(s, t)}
      BY <1>1, <3>1, EvidenceMoves
    <3>3. s \in 1..s /\ t \in 0..clock /\ 1..scans \subseteq 1..s
      BY <1>1, <1>3
    <3>. QED
      BY <1>2, <3>2, <3>3
  <2>2. absence' \in [Thing -> [first : Nat, last : Nat, firstBy : Nat, lastBy : Nat]]
    BY <1>1, <1>4 DEF AbsenceAfter
  <2>3. DOMAIN evidence' = Thing
    BY <1>1 DEF EvidenceAfter
  <2>4. sighted' \subseteq Thing
    BY <1>1, <1>3 DEF KindInv
  <2>. QED
    BY <1>1, <1>3, <2>1, <2>2, <2>3, <2>4 DEF KindInv, Idle
<1>7. OrderInv'
  <2>1. ASSUME NEW x \in Thing
        PROVE  /\ absence'[x].firstBy = 0 <=> absence'[x] = NoAbsence
               /\ absence'[x].firstBy <= s
               /\ absence'[x].first <= absence'[x].last
               /\ absence'[x].last <= clock
    <3>1. CASE Sees(v, x)
      BY <1>1, <1>3, <1>4, <3>1 DEF NoAbsence
    <3>2. CASE ~Sees(v, x)
      BY <1>1, <1>3, <1>4, <1>5, <3>2 DEF NoAbsence
    <3>. QED
      BY <3>1, <3>2
  <2>. QED
    BY <1>1, <2>1 DEF OrderInv, Idle
<1>8. RowInv'
  <2>. SUFFICES ASSUME NEW x \in sighted' PROVE evidence'[x].status # "absent"
    BY DEF RowInv, HasRow
  <2>1. x \in Thing /\ (Sees(v, x) \/ x \in sighted)
    BY <1>1, <1>3 DEF KindInv
  <2>2. Sees(v, x) => evidence'[x] = Present
    BY <1>1, <2>1, EvidenceMoves
  <2>3. ~Sees(v, x) => evidence[x].status # "absent"
    BY <2>1 DEF IInv, RowInv, HasRow
  <2>4. Advance(evidence[x], s, t) \in {evidence[x], Missing, Suspect(s, t)}
    BY DEF Advance
  <2>5. evidence'[x] \in {Present, Missing, evidence[x], Suspect(s, t)}
    BY <1>1, <2>1, <2>4, EvidenceMoves
  <2>. QED
    BY <2>2, <2>3, <2>5 DEF Present, Missing, Suspect
\* A row becomes suspect by this absence, or stays so while unseen.
<1>9. SuspectInv'
  <2>. SUFFICES ASSUME NEW x \in Thing, evidence'[x].status = "suspect_missing"
                PROVE  /\ absence'[x].firstBy # 0
                       /\ absence'[x].firstBy <= evidence'[x].by
                       /\ absence'[x].first <= evidence'[x].first
    BY DEF SuspectInv, Is
  <2>1. ~Sees(v, x)
    BY <1>1, EvidenceMoves DEF Present
  <2>2. \/ evidence'[x] = evidence[x]
        \/ evidence'[x] = Suspect(s, t)
    BY <1>1, EvidenceMoves DEF Present, Missing, Advance
  <2>3. CASE evidence'[x] = evidence[x]
    <3>1. /\ absence[x].firstBy # 0
          /\ absence[x].firstBy <= evidence[x].by
          /\ absence[x].first <= evidence[x].first
      BY <2>3 DEF IInv, SuspectInv, Is
    <3>. QED
      BY <1>4, <1>5, <2>1, <2>3, <3>1
  <2>4. CASE evidence'[x] = Suspect(s, t)
    <3>1. evidence'[x].by = s /\ evidence'[x].first = t
      BY <2>4 DEF Suspect
    <3>2. CASE absence[x] = NoAbsence
      BY <1>1, <1>4, <2>1, <3>1, <3>2
    <3>3. CASE absence[x] # NoAbsence
      BY <1>1, <1>3, <1>4, <1>5, <2>1, <3>1, <3>3
    <3>. QED
      BY <3>2, <3>3
  <2>. QED
    BY <2>2, <2>3, <2>4
<1>10. TreeInv'
  <2>. SUFFICES ASSUME NEW e \in Episode, NEW q \in Part, absence'[Self(e)].firstBy # 0
                PROVE  /\ absence'[PartOf(e, q)].firstBy # 0
                       /\ absence'[PartOf(e, q)].firstBy <= absence'[Self(e)].firstBy
                       /\ absence'[PartOf(e, q)].first <= absence'[Self(e)].first
    BY DEF TreeInv
  <2>1. Self(e) \in Thing /\ PartOf(e, q) \in Thing
    BY SelfIsThing, PartIsThing
  <2>2. ~Sees(v, Self(e)) /\ ~Sees(v, PartOf(e, q))
    BY <1>4, <2>1, PartSeenWithEpisode DEF NoAbsence
  <2>3. absence[Self(e)].firstBy # 0 =>
          /\ absence[PartOf(e, q)].firstBy # 0
          /\ absence[PartOf(e, q)].firstBy <= absence[Self(e)].firstBy
          /\ absence[PartOf(e, q)].first <= absence[Self(e)].first
    BY DEF IInv, TreeInv
  <2>4. CASE absence[Self(e)].firstBy # 0
    BY <1>4, <1>5, <2>1, <2>2, <2>3, <2>4
  <2>5. CASE absence[Self(e)].firstBy = 0
    BY <1>1, <1>3, <1>4, <1>5, <2>1, <2>2, <2>5
  <2>. QED
    BY <2>4, <2>5
<1>11. MissingNeedsTwoAbsences'
  <2>. SUFFICES ASSUME NEW x \in sighted', evidence'[x].status = "missing"
                PROVE  /\ absence'[x].firstBy # 0
                       /\ absence'[x].lastBy # absence'[x].firstBy
                       /\ absence'[x].last - absence'[x].first >= Confirm
    BY DEF MissingNeedsTwoAbsences, Is
  <2>1. x \in Thing /\ ~Sees(v, x)
    BY <1>1, <1>3, EvidenceMoves DEF Present, KindInv
  <2>2. x \in sighted /\ evidence[x] # NoRow
    BY <1>1, <2>1 DEF IInv, RowInv, HasRow, NoRow
  \* It is enough that the first absence is an earlier one, long enough ago.
  <2>3. SUFFICES absence[x].firstBy # 0 /\ t - absence[x].first >= Confirm
    BY <1>1, <1>3, <1>4, <1>5, <2>1, <2>3
  <2>4. CASE evidence[x].status = "missing"
    <3>1. absence[x].firstBy # 0 /\ absence[x].last - absence[x].first >= Confirm
      BY <2>2, <2>4 DEF IInv, MissingNeedsTwoAbsences, Is
    <3>. QED
      BY <1>1, <1>5, <2>1, <3>1
  \* A suspect row whose confirmation time has passed has been absent as long.
  <2>5. ASSUME NEW y \in Thing, evidence[y].status = "suspect_missing",
               Advance(evidence[y], s, t) = Missing
        PROVE  absence[y].firstBy # 0 /\ t - absence[y].first >= Confirm
    <3>1. PICK n \in 1..scans, c \in 0..clock : evidence[y] = Suspect(n, c)
      BY <1>2, <2>5 DEF NoRow, Present, Missing
    <3>2. evidence[y].first = c /\ t - c >= Confirm
      BY <2>5, <3>1 DEF Advance, Suspect, Missing
    <3>3. absence[y].firstBy # 0 /\ absence[y].first <= c
      BY <2>5, <3>2 DEF IInv, SuspectInv, Is
    <3>. QED
      BY <1>1, <1>3, <1>5, <3>2, <3>3
  <2>6. CASE /\ evidence[x].status # "missing"
             /\ evidence'[x] \in {evidence[x], Advance(evidence[x], s, t)}
    <3>1. evidence[x].status = "suspect_missing" /\ Advance(evidence[x], s, t) = Missing
      BY <2>6 DEF Advance, Suspect
    <3>. QED
      BY <2>1, <2>5, <3>1
  <2>7. CASE \E e \in Episode, q \in Part : x = PartOf(e, q) /\ BecameMissing(v, e, s, t)
    <3>. PICK e \in Episode, q \in Part : x = PartOf(e, q) /\ BecameMissing(v, e, s, t)
      BY <2>7
    <3>1. /\ Self(e) \in Thing
          /\ evidence[Self(e)].status = "suspect_missing"
          /\ Advance(evidence[Self(e)], s, t) = Missing
      BY SelfIsThing DEF BecameMissing, Is, EpisodeAfter, Present, Missing
    <3>2. absence[Self(e)].firstBy # 0 /\ t - absence[Self(e)].first >= Confirm
      BY <2>5, <3>1
    <3>3. absence[x].firstBy # 0 /\ absence[x].first <= absence[Self(e)].first
      BY <3>2 DEF IInv, TreeInv
    <3>. QED
      BY <1>1, <1>5, <2>1, <3>1, <3>2, <3>3
  <2>. QED
    BY <1>1, <2>1, <2>2, <2>4, <2>6, <2>7, EvidenceMoves
<1>. QED
  BY <1>6, <1>7, <1>8, <1>9, <1>10, <1>11 DEF IInv

\* The other transactions and the clock touch neither rows nor absences.
LEMMA OthersInv ==
  ASSUME IInv,
         \/ PublishRead
         \/ PublishRolledBack
         \/ \E done \in BOOLEAN : Adjudicate(done)
         \/ ClockTicks
         \/ UNCHANGED vars
  PROVE  IInv'
<1>1. /\ UNCHANGED <<evidence, sighted, absence, scans>>
      /\ clock' \in {clock, clock + 1}
      /\ \/ publishing' = publishing
         \/ publishing' = Idle
         \/ /\ publishing' = [open |-> TRUE, decided |-> batchDecided, now |-> clock]
            /\ clock' = clock
  BY DEF PublishRead, PublishRolledBack, Adjudicate, ClockTicks, vars, rowVars, historyVars
<1>2. KindInv /\ OrderInv
  BY DEF IInv
<1>3. KindInv'
  <2>1. clock' \in Nat /\ clock <= clock'
    BY <1>1, <1>2 DEF KindInv
  <2>2. publishing'.now \in Nat /\ publishing'.now <= clock'
    BY <1>1, <1>2, <2>1 DEF KindInv, Idle
  <2>3. 0..clock \subseteq 0..clock'
    BY <1>2, <2>1 DEF KindInv
  <2>. QED
    BY <1>1, <1>2, <2>1, <2>2, <2>3 DEF KindInv
<1>4. OrderInv'
  BY <1>1, <1>2 DEF OrderInv, KindInv, Idle
<1>5. RowInv' /\ SuspectInv' /\ TreeInv' /\ MissingNeedsTwoAbsences'
  BY <1>1 DEF IInv, RowInv, HasRow, SuspectInv, Is, TreeInv, MissingNeedsTwoAbsences
<1>. QED
  BY <1>3, <1>4, <1>5 DEF IInv

\* The inductive invariant holds of every behaviour.
THEOREM Invariance == Spec => []IInv
<1>1. IInv /\ [Next]_vars => IInv'
  BY PublishInv, OthersInv DEF Next
<1>. QED
  BY <1>1, InitInv, PTL DEF Spec

\* Two-evidence confirmation: whatever the snapshots show and however the clock
\* runs, nothing that was ever seen is confirmed missing unless two different
\* publications the confirmation time apart did not see it, and none saw it
\* between them.  It covers the rows an episode's absence takes down with it.
THEOREM TwoAbsences == Spec => []MissingNeedsTwoAbsences
BY Invariance, PTL DEF IInv

-----------------------------------------------------------------------------
(***************************************************************************)
(* The other direction: what was absent long enough is concluded, the      *)
(* active scope follows, and nothing suspect is forgotten.  The rows of    *)
(* the List and of its episodes keep exactly their first absence           *)
(* (FollowInv), an absence of the List is one of every episode             *)
(* (ListTreeInv), and rows hang under the rows of their episode (ScopeInv).*)
(***************************************************************************)

\* The things that are judged as a whole.
Whole == {TheList} \cup {Self(e) : e \in Episode}

\* The row of a whole that was ever seen tells all of its absence.
FollowInv ==
  \A x \in Whole :
    /\ x \in sighted <=> HasRow(x)
    /\ x \in sighted /\ absence[x].firstBy = 0 => Is(x, "present")
    /\ x \in sighted /\ absence[x].firstBy # 0 =>
         \/ Is(x, "missing")
         \/ /\ evidence[x] = Suspect(absence[x].firstBy, absence[x].first)
            /\ absence[x].last - absence[x].first < Confirm

\* While the List is absent, so are its episodes, for at least as long.
ListTreeInv ==
  \A e \in Episode : absence[TheList].firstBy # 0 =>
    /\ absence[Self(e)].firstBy # 0
    /\ absence[Self(e)].first <= absence[TheList].first
    /\ absence[Self(e)].last = absence[TheList].last

\* Activation and the rows of parts follow the row above them.
ScopeInv ==
  /\ HasRow(TheList) => (listActive <=> ~Is(TheList, "missing"))
  /\ \A e \in Episode :
       /\ HasRow(Self(e)) => (active[e] <=> ~Is(Self(e), "missing"))
       /\ Is(Self(e), "missing") =>
            /\ state[e] = "ingestable"
            /\ \A q \in Part : HasRow(PartOf(e, q)) => Is(PartOf(e, q), "missing")
       /\ \A q \in Part : HasRow(PartOf(e, q)) => HasRow(Self(e))

CatalogInv == IInv /\ FollowInv /\ ListTreeInv /\ ScopeInv /\ SuspectIsFollowedUp

LEMMA WholeIsThing ==
  ASSUME NEW x \in Whole
  PROVE  x \in Thing
BY SelfIsThing DEF Whole, Thing

\* A publication judges a whole by one rule, whichever branch it takes.
LEMMA WholeMoves ==
  ASSUME NEW v, NEW s, NEW t, NEW x \in Whole
  PROVE  EvidenceAfter(v, s, t)[x] =
           IF Sees(v, x) THEN Present ELSE Advance(evidence[x], s, t)
<1>1. CASE x = TheList
  BY <1>1 DEF EvidenceAfter, Thing, Sees, ListAfter
<1>2. CASE \E e \in Episode : x = Self(e)
  BY <1>2, SelfIsThing DEF EvidenceAfter, Sees, EpisodeAfter
<1>. QED
  BY <1>1, <1>2 DEF Whole

LEMMA EpisodeMoves ==
  ASSUME NEW v, NEW s, NEW t, NEW e \in Episode
  PROVE  /\ EvidenceAfter(v, s, t)[Self(e)] = EpisodeAfter(v, e, s, t)
         /\ Sees(v, Self(e)) <=> Seen(v, e)
BY SelfIsThing DEF EvidenceAfter, Sees

LEMMA PartMoves ==
  ASSUME NEW v, NEW s, NEW t, NEW e \in Episode, NEW q \in Part
  PROVE  EvidenceAfter(v, s, t)[PartOf(e, q)] = PartAfter(v, e, q, s, t)
BY PartIsThing DEF EvidenceAfter

\* Every row is as one of the four constructors made it.
LEMMA RowKinds ==
  ASSUME KindInv, NEW x \in Thing
  PROVE  \/ evidence[x] = NoRow
         \/ evidence[x] = Present
         \/ evidence[x] = Missing
         \/ /\ evidence[x].status = "suspect_missing"
            /\ evidence[x].by \in Nat /\ evidence[x].by <= scans
            /\ evidence[x].first \in Nat
            /\ evidence[x] = Suspect(evidence[x].by, evidence[x].first)
<1>1. CASE \E s \in 1..scans, t \in 0..clock : evidence[x] = Suspect(s, t)
  BY <1>1 DEF Suspect, KindInv
<1>. QED
  BY <1>1 DEF KindInv

LEMMA InitCatalog == Init => CatalogInv
<1>. SUFFICES ASSUME Init PROVE CatalogInv
  OBVIOUS
<1>1. \A x \in Thing : evidence[x] = NoRow /\ absence[x] = NoAbsence
  BY DEF Init
<1>2. \A x \in Thing : ~HasRow(x) /\ ~Is(x, "missing") /\ ~Is(x, "suspect_missing")
  BY <1>1 DEF HasRow, Is, NoRow
<1>3. FollowInv
  BY <1>2, WholeIsThing DEF FollowInv, Init
<1>4. ListTreeInv
  BY <1>1 DEF ListTreeInv, NoAbsence, Thing
<1>5. ScopeInv
  BY <1>2, SelfIsThing, PartIsThing DEF ScopeInv, Thing
<1>. QED
  BY <1>2, <1>3, <1>4, <1>5, InitInv DEF CatalogInv, SuspectIsFollowedUp

\* The facts about one publication that the steps below share.
LEMMA Publication ==
  ASSUME IInv, NEW v \in Snapshot, PublishList(v)
  PROVE  LET s == scans + 1  t == publishing.now IN
         /\ s \in Nat /\ t \in Nat /\ scans \in Nat /\ s # 0
         /\ evidence' = EvidenceAfter(v, s, t)
         /\ sighted' = sighted \cup {x \in Thing : Sees(v, x)}
         /\ \A x \in Thing :
              /\ absence[x] \in [first : Nat, last : Nat, firstBy : Nat, lastBy : Nat]
              /\ absence[x].firstBy = 0 <=> absence[x] = NoAbsence
              /\ absence[x].firstBy <= scans
              /\ absence[x].first <= absence[x].last
              /\ absence[x].last <= t
              /\ Sees(v, x) => absence'[x] = NoAbsence
              /\ ~Sees(v, x) =>
                   /\ absence'[x].last = t /\ absence'[x].lastBy = s
                   /\ absence[x] = NoAbsence => absence'[x].first = t /\ absence'[x].firstBy = s
                   /\ absence[x] # NoAbsence =>
                        /\ absence'[x].first = absence[x].first
                        /\ absence'[x].firstBy = absence[x].firstBy
<1>1. KindInv /\ OrderInv
  BY DEF IInv
<1>2. scans + 1 \in Nat /\ publishing.now \in Nat /\ scans \in Nat
  BY <1>1 DEF KindInv
<1>3. absence' = AbsenceAfter(v, scans + 1, publishing.now) /\ publishing.open
  BY DEF PublishList
<1>4. \A x \in Thing :
        /\ absence[x] \in [first : Nat, last : Nat, firstBy : Nat, lastBy : Nat]
        /\ absence[x].firstBy = 0 <=> absence[x] = NoAbsence
        /\ absence[x].firstBy <= scans
        /\ absence[x].first <= absence[x].last
        /\ absence[x].last <= publishing.now
  BY <1>1, <1>3 DEF KindInv, OrderInv
<1>. QED
  BY <1>1, <1>2, <1>3, <1>4, AbsenceMoves DEF PublishList

LEMMA PublishFollow ==
  ASSUME IInv, FollowInv, NEW v \in Snapshot, PublishList(v)
  PROVE  FollowInv'
<1>. DEFINE s == scans + 1
            t == publishing.now
<1>. USE PresenceAssumption
<1>. SUFFICES ASSUME NEW x \in Whole'
              PROVE  /\ x \in sighted' <=> evidence'[x].status # "absent"
                     /\ x \in sighted' /\ absence'[x].firstBy = 0 =>
                          evidence'[x].status = "present"
                     /\ x \in sighted' /\ absence'[x].firstBy # 0 =>
                          \/ evidence'[x].status = "missing"
                          \/ /\ evidence'[x] = Suspect(absence'[x].firstBy, absence'[x].first)
                             /\ absence'[x].last - absence'[x].first < Confirm
  BY DEF FollowInv, HasRow, Is
<1>1. x \in Whole /\ x \in Thing
  BY WholeIsThing DEF Whole, Self
<1>2. evidence'[x] = IF Sees(v, x) THEN Present ELSE Advance(evidence[x], s, t)
  BY <1>1, Publication, WholeMoves
<1>3. CASE Sees(v, x)
  <2>1. x \in sighted' /\ absence'[x].firstBy = 0
    BY <1>1, <1>3, Publication DEF NoAbsence
  <2>. QED
    BY <1>2, <1>3, <2>1 DEF Present
<1>4. CASE ~Sees(v, x) /\ x \notin sighted
  <2>1. x \notin sighted'
    BY <1>1, <1>4, Publication
  <2>2. evidence[x] = NoRow
    BY <1>1, <1>4, RowKinds DEF FollowInv, HasRow, Present, Missing, IInv
  <2>. QED
    BY <1>2, <1>4, <2>1, <2>2 DEF Advance, NoRow
<1>5. CASE ~Sees(v, x) /\ x \in sighted /\ absence[x].firstBy = 0
  <2>1. evidence[x].status = "present"
    BY <1>1, <1>5 DEF FollowInv, Is
  <2>2. evidence'[x] = Suspect(s, t)
    BY <1>2, <1>5, <2>1 DEF Advance
  <2>3. absence'[x].firstBy = s /\ absence'[x].first = t /\ absence'[x].last = t
    BY <1>1, <1>5, Publication
  <2>4. x \in sighted' /\ s # 0 /\ t - t < Confirm
    BY <1>5, Publication
  <2>. QED
    BY <2>2, <2>3, <2>4 DEF Suspect
<1>6. CASE ~Sees(v, x) /\ x \in sighted /\ absence[x].firstBy # 0
  <2>1. /\ absence'[x].firstBy = absence[x].firstBy
        /\ absence'[x].first = absence[x].first
        /\ absence'[x].last = t
        /\ absence[x].firstBy <= scans
        /\ absence[x].firstBy \in Nat /\ absence[x].first \in Nat
        /\ x \in sighted'
    BY <1>1, <1>6, Publication
  <2>2. CASE evidence[x].status = "missing"
    BY <1>2, <1>6, <2>1, <2>2 DEF Advance
  <2>3. CASE evidence[x] = Suspect(absence[x].firstBy, absence[x].first)
    <3>1. /\ evidence[x].status = "suspect_missing"
          /\ evidence[x].by = absence[x].firstBy /\ evidence[x].first = absence[x].first
      BY <2>3 DEF Suspect
    <3>2. evidence[x].by # s /\ t \in Nat
      BY <2>1, <3>1, Publication
    <3>3. evidence'[x] = IF t - absence[x].first >= Confirm THEN Missing ELSE evidence[x]
      BY <1>2, <1>6, <3>1, <3>2 DEF Advance
    <3>4. CASE t - absence[x].first >= Confirm
      BY <1>6, <2>1, <3>3, <3>4 DEF Missing
    <3>5. CASE ~(t - absence[x].first >= Confirm)
      <4>1. evidence'[x] = Suspect(absence'[x].firstBy, absence'[x].first)
        BY <2>1, <2>3, <3>3, <3>5
      <4>2. absence'[x].last - absence'[x].first < Confirm
        BY <2>1, <3>2, <3>5
      <4>. QED
        BY <1>6, <2>1, <4>1, <4>2 DEF Suspect
    <3>. QED
      BY <3>4, <3>5
  <2>. QED
    BY <1>1, <1>6, <2>2, <2>3 DEF FollowInv, Is
<1>. QED
  BY <1>3, <1>4, <1>5, <1>6

LEMMA PublishListTree ==
  ASSUME IInv, ListTreeInv, NEW v \in Snapshot, PublishList(v)
  PROVE  ListTreeInv'
<1>. SUFFICES ASSUME NEW e \in Episode, absence'[TheList].firstBy # 0
              PROVE  /\ absence'[Self(e)].firstBy # 0
                     /\ absence'[Self(e)].first <= absence'[TheList].first
                     /\ absence'[Self(e)].last = absence'[TheList].last
  BY DEF ListTreeInv
<1>1. TheList \in Thing /\ Self(e) \in Thing
  BY SelfIsThing DEF Thing
<1>2. ~Sees(v, TheList)
  BY <1>1, Publication DEF NoAbsence
<1>3. ~Sees(v, Self(e))
  BY <1>2, SelfIsThing DEF Sees, Empty, Seen
<1>4. absence[TheList].firstBy # 0 =>
        /\ absence[Self(e)].firstBy # 0
        /\ absence[Self(e)].first <= absence[TheList].first
  BY DEF ListTreeInv
<1>. QED
  BY <1>1, <1>2, <1>3, <1>4, Publication

LEMMA PublishScope ==
  ASSUME IInv, ScopeInv, NEW v \in Snapshot, PublishList(v)
  PROVE  ScopeInv'
<1>. DEFINE s == scans + 1
            t == publishing.now
<1>1. /\ evidence' = EvidenceAfter(v, s, t)
      /\ ~(Empty(v) /\ ~HasRow(TheList))
      /\ listActive' = IF Empty(v) THEN listActive /\ ListAfter(v, s, t) # Missing ELSE TRUE
      /\ \A e \in Episode :
           /\ active'[e] <=> (Seen(v, e) \/ (active[e] /\ ~BecameMissing(v, e, s, t)))
           /\ state'[e] = StateAfter(v, e, s, t)
  BY DEF PublishList, Refused
<1>. HIDE DEF s, t
<1>2. KindInv /\ TheList \in Thing
  BY DEF IInv, Thing
<1>3. HasRow(TheList)' => (listActive' <=> ~Is(TheList, "missing")')
  <2>1. evidence'[TheList] = ListAfter(v, s, t)
    BY <1>1, <1>2 DEF EvidenceAfter
  <2>2. CASE Empty(v)
    <3>1. evidence'[TheList] = Advance(evidence[TheList], s, t)
      BY <2>1, <2>2 DEF ListAfter
    <3>2. listActive <=> evidence[TheList].status # "missing"
      BY <1>1, <2>2 DEF ScopeInv, Is
    <3>3. listActive' <=> listActive /\ evidence'[TheList] # Missing
      BY <1>1, <2>1, <2>2
    <3>4. evidence[TheList] = Missing <=> evidence[TheList].status = "missing"
      BY <1>2, RowKinds DEF NoRow, Present, Missing
    <3>5. evidence'[TheList] = Missing <=> evidence'[TheList].status = "missing"
      BY <3>1, <3>4 DEF Advance, Missing, Suspect
    <3>6. evidence[TheList].status = "missing" => evidence'[TheList].status = "missing"
      BY <3>1 DEF Advance
    <3>. QED
      BY <3>2, <3>3, <3>5, <3>6 DEF Is
  <2>3. CASE ~Empty(v)
    BY <1>1, <2>1, <2>3 DEF ListAfter, Present, Is
  <2>. QED
    BY <2>2, <2>3
<1>4. ASSUME NEW e \in Episode
      PROVE  /\ HasRow(Self(e))' => (active'[e] <=> ~Is(Self(e), "missing")')
             /\ Is(Self(e), "missing")' =>
                  /\ state'[e] = "ingestable"
                  /\ \A q \in Part : HasRow(PartOf(e, q))' => Is(PartOf(e, q), "missing")'
             /\ \A q \in Part : HasRow(PartOf(e, q))' => HasRow(Self(e))'
  <2>1. /\ Self(e) \in Thing /\ evidence'[Self(e)] = EpisodeAfter(v, e, s, t)
        /\ \A q \in Part : PartOf(e, q) \in Thing /\ evidence'[PartOf(e, q)] = PartAfter(v, e, q, s, t)
    BY <1>1, EpisodeMoves, PartMoves, SelfIsThing, PartIsThing
  <2>2. CASE Seen(v, e)
    <3>1. evidence'[Self(e)] = Present /\ active'[e]
      BY <1>1, <2>1, <2>2 DEF EpisodeAfter
    <3>. QED
      BY <3>1 DEF Present, Is, HasRow
  <2>3. CASE BecameMissing(v, e, s, t)
    <3>1. /\ ~Seen(v, e) /\ evidence'[Self(e)] = Missing /\ ~active'[e]
          /\ state'[e] = "ingestable"
      BY <1>1, <2>1, <2>3 DEF BecameMissing, EpisodeAfter, StateAfter, Is, Present, Missing
    <3>2. \A q \in Part : evidence'[PartOf(e, q)] \in {Missing, NoRow}
      <4>. SUFFICES ASSUME NEW q \in Part PROVE PartAfter(v, e, q, s, t) \in {Missing, NoRow}
        BY <2>1
      <4>1. q \notin v[e].parts
        BY <3>1 DEF Seen
      <4>. QED
        BY <2>3, <3>1, <4>1 DEF PartAfter, Cascade
    <3>. QED
      BY <3>1, <3>2 DEF Missing, NoRow, Is, HasRow
  \* An unseen episode that was not concluded keeps its state, and its parts
  \* gain no row.
  <2>4. CASE ~Seen(v, e) /\ ~BecameMissing(v, e, s, t)
    <3>1. /\ evidence'[Self(e)] = Advance(evidence[Self(e)], s, t)
          /\ active'[e] <=> active[e]
          /\ state'[e] = state[e]
      BY <1>1, <2>1, <2>4 DEF EpisodeAfter, StateAfter
    <3>2. \A q \in Part :
            \/ evidence'[PartOf(e, q)] = evidence[PartOf(e, q)]
            \/ evidence'[PartOf(e, q)] = Advance(evidence[PartOf(e, q)], s, t)
      <4>. SUFFICES ASSUME NEW q \in Part
                    PROVE  PartAfter(v, e, q, s, t) \in
                             {evidence[PartOf(e, q)], Advance(evidence[PartOf(e, q)], s, t)}
        BY <2>1
      <4>1. q \notin v[e].parts
        BY <2>4 DEF Seen
      <4>. QED
        BY <2>4, <4>1 DEF PartAfter
    <3>3. /\ evidence[Self(e)].status = "missing" <=> evidence'[Self(e)].status = "missing"
          /\ evidence[Self(e)].status = "absent" <=> evidence'[Self(e)].status = "absent"
      <4>1. \/ evidence[Self(e)].status # "suspect_missing"
            \/ evidence'[Self(e)] # Missing
        BY <2>1, <2>4 DEF BecameMissing, Is
      <4>. QED
        BY <3>1, <4>1 DEF Advance, Suspect, Missing
    <3>4. \A q \in Part :
            /\ evidence[PartOf(e, q)].status = "missing" => evidence'[PartOf(e, q)].status = "missing"
            /\ evidence[PartOf(e, q)].status = "absent" <=> evidence'[PartOf(e, q)].status = "absent"
      BY <3>2 DEF Advance, Suspect, Missing
    <3>. QED
      BY <3>1, <3>3, <3>4 DEF ScopeInv, HasRow, Is
  <2>. QED
    BY <2>2, <2>3, <2>4
<1>. QED
  BY <1>3, <1>4 DEF ScopeInv

\* A row left suspect makes the publication ask for another look at it: it is
\* the List's in an empty snapshot, an episode's, or a part's of an episode that
\* is seen or suspect itself.
LEMMA PublishFollowedUp ==
  ASSUME IInv, ScopeInv, NEW v \in Snapshot, PublishList(v)
  PROVE  SuspectIsFollowedUp'
<1>. DEFINE s == scans + 1
            t == publishing.now
            E == EvidenceAfter(v, s, t)
<1>. SUFFICES ASSUME NEW x \in Thing, E[x].status = "suspect_missing"
              PROVE  Unsettled(v, s, t)
  BY DEF SuspectIsFollowedUp, Is, PublishList
<1>1. KindInv
  BY DEF IInv
<1>. HIDE DEF s, t
<1>2. CASE x = TheList
  BY <1>2 DEF EvidenceAfter, ListAfter, Present, Unsettled
<1>3. CASE \E e \in Episode : x = Self(e)
  BY <1>3 DEF Unsettled
<1>4. ASSUME NEW e \in Episode, NEW q \in Part, x = PartOf(e, q)
      PROVE  Unsettled(v, s, t)
  <2>1. E[PartOf(e, q)].status = "suspect_missing"
    BY <1>4
  <2>2. CASE Seen(v, e)
    BY <2>1, <2>2 DEF Unsettled
  <2>3. CASE ~Seen(v, e)
    <3>. DEFINE r == evidence[PartOf(e, q)]
    <3>1. PartAfter(v, e, q, s, t).status = "suspect_missing" /\ PartOf(e, q) \in Thing
      BY <2>1, PartMoves, PartIsThing
    <3>2. q \notin v[e].parts
      BY <2>3 DEF Seen
    <3>3. ~BecameMissing(v, e, s, t)
      BY <2>3, <3>1, <3>2 DEF PartAfter, Cascade, NoRow, Missing
    <3>4. r # NoRow /\ r # Missing /\ r.status \notin {"missing", "absent"}
      <4>1. PartAfter(v, e, q, s, t) \in {r, Advance(r, s, t)}
        BY <2>3, <3>2, <3>3 DEF PartAfter
      <4>. QED
        BY <3>1, <4>1 DEF Advance, NoRow, Missing
    <3>5. evidence[Self(e)].status \notin {"missing", "absent"}
      BY <3>4 DEF ScopeInv, HasRow, Is
    <3>6. E[Self(e)] = Advance(evidence[Self(e)], s, t) /\ Self(e) \in Thing
      BY <2>3, EpisodeMoves, SelfIsThing DEF EpisodeAfter
    <3>7. evidence[Self(e)].status \in {"present", "suspect_missing"}
      BY <1>1, <3>5, <3>6, RowKinds DEF NoRow, Present, Missing
    <3>8. E[Self(e)].status = "suspect_missing"
      <4>1. evidence[Self(e)].status = "suspect_missing" => E[Self(e)] # Missing
        BY <3>3, <3>6, EpisodeMoves DEF BecameMissing, Is
      <4>. QED
        BY <3>6, <3>7, <4>1 DEF Advance, Suspect
    <3>. QED
      BY <3>8 DEF Unsettled
  <2>. QED
    BY <2>2, <2>3
<1>. QED
  BY <1>2, <1>3, <1>4, ThingKinds

\* Nothing else writes the catalog.
LEMMA OthersCatalog ==
  ASSUME CatalogInv,
         \/ PublishRead
         \/ PublishRolledBack
         \/ \E done \in BOOLEAN : Adjudicate(done)
         \/ ClockTicks
         \/ UNCHANGED vars
  PROVE  CatalogInv'
<1>1. UNCHANGED <<rowVars, confirming, historyVars>>
  BY DEF PublishRead, PublishRolledBack, Adjudicate, ClockTicks, vars
<1>2. UNCHANGED <<evidence, listActive, active, state, confirming, sighted, absence>>
  BY <1>1 DEF rowVars, historyVars
<1>3. IInv'
  BY OthersInv DEF CatalogInv
<1>4. FollowInv' /\ ListTreeInv'
  BY <1>2 DEF CatalogInv, FollowInv, ListTreeInv, Whole, HasRow, Is
<1>5. ScopeInv' /\ SuspectIsFollowedUp'
  BY <1>2 DEF CatalogInv, ScopeInv, SuspectIsFollowedUp, HasRow, Is
<1>. QED
  BY <1>3, <1>4, <1>5 DEF CatalogInv

THEOREM CatalogInvariance == Spec => []CatalogInv
<1>1. ASSUME CatalogInv, NEW v \in Snapshot, PublishList(v)
      PROVE  CatalogInv'
  BY <1>1, PublishInv, PublishFollow, PublishListTree, PublishScope, PublishFollowedUp
     DEF CatalogInv
<1>2. CatalogInv /\ [Next]_vars => CatalogInv'
  BY <1>1, OthersCatalog DEF Next
<1>. QED
  BY <1>2, InitCatalog, PTL DEF Spec

-----------------------------------------------------------------------------
\* What follows from it.

LEMMA Concluded == CatalogInv => AbsenceIsConcluded
<1>. SUFFICES ASSUME CatalogInv, NEW x \in Whole, x \in sighted,
                     absence[x].last - absence[x].first >= Confirm
              PROVE  Is(x, "missing")
  BY DEF AbsenceIsConcluded, Whole
<1>1. absence[x] # NoAbsence
  BY PresenceAssumption DEF NoAbsence
<1>2. absence[x] \in [first : Nat, last : Nat, firstBy : Nat, lastBy : Nat]
      /\ absence[x].firstBy # 0
  BY <1>1, WholeIsThing DEF CatalogInv, IInv, KindInv, OrderInv
<1>. QED
  BY <1>2, PresenceAssumption DEF CatalogInv, FollowInv

LEMMA ScopeAgrees == CatalogInv => ActiveScopeAgrees
<1>. SUFFICES ASSUME CatalogInv PROVE ActiveScopeAgrees
  OBVIOUS
<1>1. AbsenceIsConcluded
  BY Concluded
\* Under a missing List an episode has been absent at least as long.
<1>2. ASSUME Is(TheList, "missing"), NEW e \in Inventoried
      PROVE  Is(Self(e), "missing")
  <2>1. e \in Episode /\ HasRow(Self(e)) /\ HasRow(TheList)
    BY <1>2 DEF Inventoried, HasRow, Is
  <2>2. Self(e) \in sighted /\ TheList \in sighted
    BY <2>1 DEF CatalogInv, FollowInv, Whole
  <2>3. /\ absence[TheList].firstBy # 0
        /\ absence[TheList].last - absence[TheList].first >= Confirm
    BY <1>2, <2>2 DEF CatalogInv, IInv, MissingNeedsTwoAbsences
  <2>4. /\ absence[Self(e)].first <= absence[TheList].first
        /\ absence[Self(e)].last = absence[TheList].last
    BY <2>1, <2>3 DEF CatalogInv, ListTreeInv
  <2>5. \A x \in Thing : absence[x].first \in Nat /\ absence[x].last \in Nat
    BY DEF CatalogInv, IInv, KindInv
  <2>6. absence[Self(e)].last - absence[Self(e)].first >= Confirm
    BY <2>1, <2>3, <2>4, <2>5, SelfIsThing, PresenceAssumption DEF Thing
  <2>. QED
    BY <1>1, <2>1, <2>2, <2>6 DEF AbsenceIsConcluded
<1>. QED
  BY <1>2 DEF CatalogInv, ScopeInv, ActiveScopeAgrees, Inventoried

\* What two publications the confirmation time apart did not see is missing,
\* for the List and for every episode, whichever branch did not see it.
THEOREM AbsencesConcluded == Spec => []AbsenceIsConcluded
BY CatalogInvariance, Concluded, PTL

\* Activation follows the evidence, and absence goes down the whole tree.
THEOREM ScopeFollowsEvidence == Spec => []ActiveScopeAgrees
BY CatalogInvariance, ScopeAgrees, PTL

\* Nothing suspect is left without a confirmation shard.
THEOREM SuspectsFollowedUp == Spec => []SuspectIsFollowedUp
BY CatalogInvariance, PTL DEF CatalogInv

-----------------------------------------------------------------------------
\* Types, and readiness.

TypeInv == TypeOK /\ (publishing.open => scans < MaxScans)

LEMMA PublishTypes ==
  ASSUME TypeInv, NEW v \in Snapshot, PublishList(v)
  PROVE  TypeInv'
<1>. DEFINE s == scans + 1
            t == publishing.now
<1>. USE PresenceAssumption
<1>1. /\ s \in 1..MaxScans /\ t \in 0..clock /\ t \in 0..MaxClock
      /\ clock \in 0..MaxClock /\ scans \in 0..MaxScans
  BY DEF TypeInv, TypeOK, PublishList
<1>. HIDE DEF s, t
<1>2. \A e \in Episode : v[e] \in EpisodeView
  BY DEF Snapshot
<1>3. evidence' \in [Thing -> Evidence]
  <2>1. evidence' = EvidenceAfter(v, s, t)
    BY DEF PublishList, s, t
  <2>2. ASSUME NEW x \in Thing PROVE EvidenceAfter(v, s, t)[x] \in Evidence
    <3>1. evidence[x] \in Evidence
      BY DEF TypeInv, TypeOK
    <3>2. Suspect(s, t) \in Evidence
      BY <1>1 DEF Suspect, Evidence
    <3>3. Advance(evidence[x], s, t) \in Evidence
      BY <3>1, <3>2 DEF Advance, Evidence
    <3>. QED
      BY <3>1, <3>3, EvidenceMoves DEF Evidence
  <2>. QED
    BY <2>1, <2>2 DEF EvidenceAfter
<1>4. \A e \in Episode : StateAfter(v, e, s, t) \in State
  BY DEF StateAfter, DerivedState, State, TypeInv, TypeOK
<1>5. state' \in [Episode -> State] /\ maxState' \in [Episode -> State]
  BY <1>4 DEF PublishList, Higher, TypeInv, TypeOK, s, t
<1>6. listActive' \in BOOLEAN /\ active' \in [Episode -> BOOLEAN] /\ confirming' \in BOOLEAN
  <2>1. listActive \in BOOLEAN /\ \A e \in Episode : active[e] \in BOOLEAN
    BY DEF TypeInv, TypeOK
  <2>2. listActive' \in BOOLEAN
    BY <2>1 DEF PublishList
  <2>3. active' \in [Episode -> BOOLEAN]
    BY <2>1 DEF PublishList, Seen
  <2>4. confirming' \in BOOLEAN
    BY DEF PublishList, Unsettled
  <2>. QED
    BY <2>2, <2>3, <2>4
<1>7. fingerprint' \in [Episode -> EpisodeView]
  BY <1>2 DEF PublishList, TypeInv, TypeOK
<1>8. absence' \in [Thing -> [first : 0..MaxClock, last : 0..MaxClock,
                              firstBy : 0..MaxScans, lastBy : 0..MaxScans]]
  <2>1. absence' = AbsenceAfter(v, s, t)
    BY DEF PublishList, s, t
  <2>2. \A x \in Thing : absence[x] \in [first : 0..MaxClock, last : 0..MaxClock,
                                         firstBy : 0..MaxScans, lastBy : 0..MaxScans]
    BY DEF TypeInv, TypeOK
  <2>3. s \in 0..MaxScans /\ 0 \in 0..MaxClock /\ 0 \in 0..MaxScans
    BY <1>1
  <2>. QED
    BY <1>1, <2>1, <2>2, <2>3 DEF AbsenceAfter, NoAbsence
<1>9. sighted' \in SUBSET Thing /\ scans' = s /\ clock' = clock /\ publishing' = Idle
      /\ UNCHANGED <<batchDecided, decided>>
  BY DEF PublishList, TypeInv, TypeOK, s
<1>10. publishing' \in [open : BOOLEAN, decided : BOOLEAN, now : 0..clock'] /\ ~publishing'.open
  BY <1>1, <1>9 DEF Idle
<1>. QED
  BY <1>1, <1>3, <1>5, <1>6, <1>7, <1>8, <1>9, <1>10 DEF TypeInv, TypeOK

\* Every variable keeps its type, within the bounds on time and publications.
THEOREM TypeCorrect == Spec => []TypeOK
<1>. USE PresenceAssumption
<1>1. Init => TypeInv
  <2>. SUFFICES ASSUME Init PROVE TypeInv
    OBVIOUS
  <2>1. evidence \in [Thing -> Evidence]
    BY DEF Init, Evidence
  <2>2. fingerprint \in [Episode -> EpisodeView]
    BY DEF Init, EpisodeView, Unseen
  <2>3. absence \in [Thing -> [first : 0..MaxClock, last : 0..MaxClock,
                              firstBy : 0..MaxScans, lastBy : 0..MaxScans]]
    BY DEF Init, NoAbsence
  <2>4. /\ active \in [Episode -> BOOLEAN]
        /\ state \in [Episode -> State] /\ maxState \in [Episode -> State]
    BY DEF Init, State
  <2>5. /\ clock \in 0..MaxClock /\ scans \in 0..MaxScans
        /\ publishing \in [open : BOOLEAN, decided : BOOLEAN, now : 0..clock]
        /\ ~publishing.open
    BY DEF Init, Idle
  <2>6. /\ listActive \in BOOLEAN /\ confirming \in BOOLEAN /\ batchDecided \in BOOLEAN
        /\ decided \in SUBSET Episode /\ sighted \in SUBSET Thing
    BY DEF Init
  <2>. QED
    BY <2>1, <2>2, <2>3, <2>4, <2>5, <2>6 DEF TypeInv, TypeOK
<1>2. ASSUME TypeInv, PublishRead \/ PublishRolledBack \/ ClockTicks \/ UNCHANGED vars
      PROVE  TypeInv'
  <2>1. PublishRead => TypeInv'
    BY <1>2 DEF PublishRead, TypeInv, TypeOK, rowVars, historyVars
  <2>2. PublishRolledBack => TypeInv'
    BY <1>2 DEF PublishRolledBack, TypeInv, TypeOK, rowVars, historyVars, Idle
  <2>3. ClockTicks => TypeInv'
    BY <1>2 DEF ClockTicks, TypeInv, TypeOK, rowVars, historyVars
  <2>4. UNCHANGED vars => TypeInv'
    BY <1>2 DEF vars, TypeInv, TypeOK, rowVars, historyVars
  <2>. QED
    BY <1>2, <2>1, <2>2, <2>3, <2>4
<1>3. ASSUME TypeInv, NEW done \in BOOLEAN, Adjudicate(done)
      PROVE  TypeInv'
  BY <1>3 DEF Adjudicate, TypeInv, TypeOK, rowVars, historyVars, Inventoried
<1>4. TypeInv /\ [Next]_vars => TypeInv'
  BY <1>2, <1>3, PublishTypes DEF Next
<1>. QED
  BY <1>1, <1>4, PTL DEF Spec, TypeInv

\* A publication derives a lower state only from rows that are missing or were
\* never there, or from a manifest it read.
LEMMA DropHasEvidence ==
  ASSUME IInv, NEW v \in Snapshot, PublishList(v), NEW e \in Episode,
         Rank(state'[e]) < Rank(state[e])
  PROVE  \/ \E q \in {"processed", "manifest", "video"} :
              evidence'[PartOf(e, q)] \in {Missing, NoRow}
         \/ fingerprint'[e] # fingerprint[e] /\ ~fingerprint'[e].video
<1>. DEFINE s == scans + 1
            t == publishing.now
<1>1. /\ state'[e] = StateAfter(v, e, s, t)
      /\ fingerprint'[e] = IF Seen(v, e) THEN v[e] ELSE fingerprint[e]
      /\ evidence' = EvidenceAfter(v, s, t)
  BY DEF PublishList
<1>2. \A q \in Part : /\ PartOf(e, q) \in Thing
                      /\ evidence'[PartOf(e, q)] = PartAfter(v, e, q, s, t)
  BY <1>1, PartMoves, PartIsThing
<1>3. {"processed", "manifest", "video"} \subseteq Part
  BY DEF Part, Scope, File
<1>4. ASSUME NEW f \in File, f \notin Roles(v, e, s, t)
      PROVE  evidence'[PartOf(e, f)] \in {Missing, NoRow}
  <2>1. f \in Part
    BY DEF Part
  <2>2. evidence'[PartOf(e, f)].status \notin {"present", "suspect_missing"}
    BY <1>2, <1>4, <2>1 DEF Roles
  <2>3. KindInv'
    BY PublishInv DEF IInv
  <2>4. \/ evidence'[PartOf(e, f)] \in {NoRow, Present, Missing}
        \/ \E n \in 1..scans', c \in 0..clock' : evidence'[PartOf(e, f)] = Suspect(n, c)
    BY <1>2, <2>1, <2>3 DEF KindInv
  <2>5. Present.status = "present" /\ \A n, c : Suspect(n, c).status = "suspect_missing"
    BY DEF Present, Suspect
  <2>. QED
    BY <2>2, <2>4, <2>5
<1>5. CASE Seen(v, e)
  <2>1. state'[e] = DerivedState(v, e, s, t)
    BY <1>1, <1>5 DEF StateAfter
  <2>2. CASE PartAfter(v, e, "processed", s, t) = Missing
    BY <1>2, <1>3, <2>2
  <2>3. CASE "manifest" \notin Roles(v, e, s, t)
    BY <1>4, <2>3 DEF File
  <2>4. CASE ~HasVideo(v, e, s, t)
    <3>1. CASE ManifestRead(v, e)
      BY <1>1, <1>5, <2>4, <3>1 DEF HasVideo, ManifestRead
    <3>2. CASE ~ManifestRead(v, e)
      BY <1>4, <2>4, <3>2 DEF HasVideo, File
    <3>. QED
      BY <3>1, <3>2
  <2>5. DerivedState(v, e, s, t) = "qc_ready" => ~(Rank(state'[e]) < Rank(state[e]))
    BY <2>1 DEF Rank
  <2>. QED
    BY <2>2, <2>3, <2>4, <2>5 DEF DerivedState
<1>6. CASE ~Seen(v, e) /\ BecameMissing(v, e, s, t)
  <2>1. "processed" \in Part /\ "processed" \notin v[e].parts
    BY <1>3, <1>6 DEF Seen
  <2>2. evidence'[PartOf(e, "processed")] = Cascade(evidence[PartOf(e, "processed")])
    BY <1>2, <1>6, <2>1 DEF PartAfter
  <2>. QED
    BY <2>2 DEF Cascade
<1>7. CASE ~Seen(v, e) /\ ~BecameMissing(v, e, s, t)
  BY <1>1, <1>7 DEF StateAfter, Rank
<1>. QED
  BY <1>5, <1>6, <1>7

\* A suspicion never lowers the readiness of an episode: after a drop a part it rests
\* on is confirmed missing or has no row, or a changed manifest names no video
\* (_derive_state).
THEOREM DropsOnEvidence == Spec => ReadinessDropsOnEvidence
<1>. DEFINE Drop ==
       \A e \in Episode : Rank(state'[e]) < Rank(state[e]) =>
         \/ \E q \in {"processed", "manifest", "video"} :
              evidence'[PartOf(e, q)] \in {Missing, NoRow}
         \/ fingerprint'[e] # fingerprint[e] /\ ~fingerprint'[e].video
<1>1. IInv /\ [Next]_vars => [Drop]_vars
  <2>. SUFFICES ASSUME IInv, Next PROVE Drop
    OBVIOUS
  <2>1. ASSUME NEW v \in Snapshot, PublishList(v) PROVE Drop
    BY <2>1, DropHasEvidence
  <2>2. ASSUME \/ PublishRead \/ PublishRolledBack \/ ClockTicks
               \/ \E done \in BOOLEAN : Adjudicate(done)
        PROVE  Drop
    <3>1. state' = state
      BY <2>2 DEF PublishRead, PublishRolledBack, ClockTicks, Adjudicate, rowVars
    <3>. QED
      BY <3>1 DEF Rank
  <2>. QED
    BY <2>1, <2>2 DEF Next
<1>. QED
  BY <1>1, Invariance, PTL DEF Spec, ReadinessDropsOnEvidence

=============================================================================
