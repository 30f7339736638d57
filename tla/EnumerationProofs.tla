-------------------------- MODULE EnumerationProofs --------------------------
(***************************************************************************)
(* Proofs about the enumeration, for any keys that may be there, any depth  *)
(* and number of prefixes, and any uploads meanwhile: types are correct,    *)
(* the walk finds every List that stays, the snapshot of a List is whole,   *)
(* and an episode that looks unchanged has its manifest on record.          *)
(***************************************************************************)
EXTENDS Enumeration, SequenceTheorems, FiniteSetTheorems, TLAPS

USE DEF world

-----------------------------------------------------------------------------
(* Keys and prefixes.                                                       *)

LEMMA KeyTypes ==
  /\ Key \subseteq Path
  /\ \A k \in Key : Len(k) \in Nat
  /\ \A k \in Key : \E i \in 1..Len(Order) : Order[i] = k
  /\ Len(Order) \in Nat
  BY EnumerationAssumption, ElementOfSeq, LenProperties DEF Key, Path

\* The first n segments of a path.
LEMMA Initial ==
  ASSUME NEW k \in Path, NEW n \in 0..Len(k)
  PROVE  /\ SubSeq(k, 1, n) \in Path
         /\ Len(SubSeq(k, 1, n)) = n
         /\ \A i \in 1..n : SubSeq(k, 1, n)[i] = k[i]
  <1>1. Len(k) \in Nat /\ \A i \in 1..n : k[i] \in Segment
    BY ElementOfSeq, LenProperties DEF Path
  <1>2. n - 1 + 1 = n /\ n \in Int /\ 1 \in Int
    BY <1>1
  <1> QED
    BY <1>1, <1>2, SubSeqProperties DEF Path

\* Two paths of the same segments are the same.
LEMMA SamePath ==
  ASSUME NEW s \in Path, NEW t \in Path, Len(s) = Len(t), \A i \in 1..Len(s) : s[i] = t[i]
  PROVE  s = t
  BY SeqEqual DEF Path

\* A path is under another one if it goes on where that ends.
LEMMA UnderMeans ==
  ASSUME NEW p \in Path, NEW k \in Path
  PROVE  Under(p, k) <=> Len(k) > Len(p) /\ \A i \in 1..Len(p) : k[i] = p[i]
  <1>1. Len(p) \in Nat /\ Len(k) \in Nat
    BY LenProperties DEF Path
  <1>2. ASSUME Len(k) > Len(p)
        PROVE  SubSeq(k, 1, Len(p)) = p <=> \A i \in 1..Len(p) : k[i] = p[i]
    <2>1. /\ SubSeq(k, 1, Len(p)) \in Path /\ Len(SubSeq(k, 1, Len(p))) = Len(p)
          /\ \A i \in 1..Len(p) : SubSeq(k, 1, Len(p))[i] = k[i]
      BY <1>1, <1>2, Initial
    <2> QED
      BY <2>1, SamePath
  <1> QED
    BY <1>1, <1>2 DEF Under

\* One segment more.
LEMMA Longer ==
  ASSUME NEW p \in Path, NEW s \in Segment
  PROVE  /\ p \o <<s>> \in Path /\ Len(p \o <<s>>) = Len(p) + 1
         /\ (p \o <<s>>)[Len(p) + 1] = s
         /\ \A i \in 1..Len(p) : (p \o <<s>>)[i] = p[i]
  <1>1. <<s>> \in Seq(Segment) /\ Len(<<s>>) = 1 /\ <<s>>[1] = s /\ Len(p) \in Nat
    BY LenProperties DEF Path
  <1>2. Len(p) + Len(<<s>>) = Len(p) + 1 /\ Len(p) + 1 - Len(p) = 1
    BY <1>1
  <1> QED
    BY <1>1, <1>2, ConcatProperties DEF Path

\* The prefix that a prefix is a child of.
Parent(c) == SubSeq(c, 1, Len(c) - 1)

LEMMA Children ==
  ASSUME NEW p \in Path, NEW c \in DirectPrefixes(p)
  PROVE  c \in Path /\ c # <<>> /\ Parent(c) = p
  <1>1. PICK k \in There : Under(p, k) /\ Len(k) > Len(p) + 1 /\ c = SubSeq(k, 1, Len(p) + 1)
    BY DEF DirectPrefixes
  <1>2. k \in Path /\ Len(k) \in Nat /\ Len(p) \in Nat
    BY KeyTypes, LenProperties DEF There, Path
  <1>3. /\ c \in Path /\ Len(c) = Len(p) + 1
        /\ \A i \in 1..(Len(p) + 1) : c[i] = k[i]
    BY <1>1, <1>2, Initial
  <1>4. c # <<>>
    BY <1>2, <1>3, EmptySeq
  <1>5. /\ Parent(c) \in Path /\ Len(Parent(c)) = Len(p)
        /\ \A i \in 1..Len(p) : Parent(c)[i] = c[i]
    <2>1. Len(c) - 1 = Len(p) /\ Len(p) \in 0..Len(c)
      BY <1>2, <1>3
    <2> QED
      BY <1>3, <2>1, Initial DEF Parent
  <1>6. \A i \in 1..Len(p) : Parent(c)[i] = p[i]
    BY <1>1, <1>2, <1>3, <1>5, UnderMeans
  <1> QED
    BY <1>3, <1>4, <1>5, <1>6, SamePath

\* On the way to a prefix with an object, each prefix shows the next one.
LEMMA NextPrefix ==
  ASSUME NEW l \in Path, NEW k \in There, Under(l, k), NEW m \in 0..Len(l), m # Len(l)
  PROVE  LET c == SubSeq(l, 1, m + 1)
         IN  c \in DirectPrefixes(SubSeq(l, 1, m)) /\ c[Len(c)] = l[m + 1]
  <1> DEFINE p == SubSeq(l, 1, m)
             c == SubSeq(l, 1, m + 1)
  <1>1. k \in Path /\ Len(k) \in Nat /\ Len(l) \in Nat
    BY KeyTypes, LenProperties DEF There, Path
  <1>2. m + 1 \in 0..Len(l) /\ m + 1 \in 0..Len(k) /\ Len(k) > Len(l)
        /\ \A i \in 1..Len(l) : k[i] = l[i]
    BY <1>1, UnderMeans
  <1>3. /\ p \in Path /\ Len(p) = m /\ \A i \in 1..m : p[i] = l[i]
        /\ c \in Path /\ Len(c) = m + 1 /\ \A i \in 1..(m + 1) : c[i] = l[i]
    BY <1>2, Initial
  <1>4. Under(p, k) /\ Len(k) > Len(p) + 1
    <2>1. Len(k) > Len(p) + 1 /\ Len(k) > Len(p) /\ \A i \in 1..Len(p) : k[i] = p[i]
      BY <1>1, <1>2, <1>3
    <2> QED
      BY <1>1, <1>3, <2>1, UnderMeans
  <1>5. SubSeq(k, 1, Len(p) + 1) = c
    <2>1. /\ SubSeq(k, 1, m + 1) \in Path /\ Len(SubSeq(k, 1, m + 1)) = m + 1
          /\ \A i \in 1..(m + 1) : SubSeq(k, 1, m + 1)[i] = k[i]
      BY <1>1, <1>2, Initial
    <2> QED
      BY <1>1, <1>2, <1>3, <2>1, SamePath
  <1>6. c[Len(c)] = l[m + 1]
    BY <1>2, <1>3
  <1> QED
    BY <1>4, <1>5, <1>6 DEF DirectPrefixes

\* An object of an episode shows the scope, and in the scope the episode.
LEMMA ScopeBelow ==
  ASSUME NEW l \in Path, NEW k \in There, InEpisode(l, k)
  PROVE  /\ ScopeOf(l, k) \in Scope
         /\ l \o <<ScopeOf(l, k)>> \in DirectPrefixes(l)
         /\ EpisodePrefixes(l \o <<ScopeOf(l, k)>>) # {}
  <1> DEFINE s == ScopeOf(l, k)
             q == l \o <<s>>
             c == SubSeq(k, 1, Len(l) + 2)
  <1>1. k \in Path /\ Len(k) \in Nat /\ Len(l) \in Nat
    BY KeyTypes, LenProperties DEF There, Path
  <1>2. /\ Under(l, k) /\ Len(k) >= Len(l) + 3 /\ s = k[Len(l) + 1]
        /\ s \in Scope /\ k[Len(l) + 2] \in EpisodeName
    BY DEF InEpisode, ScopeOf
  <1>3. \A i \in 1..Len(l) : k[i] = l[i]
    BY <1>1, <1>2, UnderMeans
  <1>4. /\ q \in Path /\ Len(q) = Len(l) + 1 /\ q[Len(l) + 1] = s
        /\ \A i \in 1..Len(l) : q[i] = l[i]
    BY <1>2, Longer, EnumerationAssumption
  <1>5. \A i \in 1..(Len(l) + 1) : q[i] = k[i]
    BY <1>1, <1>2, <1>3, <1>4
  <1>6. q = SubSeq(k, 1, Len(l) + 1)
    <2>1. Len(l) + 1 \in 0..Len(k)
      BY <1>1, <1>2
    <2> QED
      BY <1>1, <1>4, <1>5, <2>1, Initial, SamePath
  <1>7. q \in DirectPrefixes(l)
    BY <1>1, <1>2, <1>6 DEF DirectPrefixes
  <1>8. Under(q, k) /\ Len(k) > Len(q) + 1 /\ Len(q) + 1 = Len(l) + 2
    <2>1. /\ Len(k) > Len(q) + 1 /\ Len(k) > Len(q) /\ Len(q) + 1 = Len(l) + 2
          /\ \A i \in 1..Len(q) : k[i] = q[i]
      BY <1>1, <1>2, <1>4, <1>5
    <2> QED
      BY <1>1, <1>4, <2>1, UnderMeans
  <1>9. c \in DirectPrefixes(q)
    BY <1>8 DEF DirectPrefixes
  <1>10. c[Len(c)] = k[Len(l) + 2]
    <2>1. Len(l) + 2 \in 0..Len(k) /\ Len(l) + 2 \in 1..(Len(l) + 2)
      BY <1>1, <1>2
    <2> QED
      BY <1>1, <2>1, Initial
  <1>11. c \in EpisodePrefixes(q)
    BY <1>2, <1>9, <1>10 DEF EpisodePrefixes
  <1> QED
    BY <1>2, <1>7, <1>11

\* And what shows an episode in a scope is an object of it.
LEMMA EpisodeBelow ==
  ASSUME NEW p \in Path, NEW s \in Scope, EpisodePrefixes(p \o <<s>>) # {}
  PROVE  \E k \in There : InEpisode(p, k)
  <1> DEFINE q == p \o <<s>>
  <1>1. PICK c \in DirectPrefixes(q) : c[Len(c)] \in EpisodeName
    BY DEF EpisodePrefixes
  <1>2. PICK k \in There : Under(q, k) /\ Len(k) > Len(q) + 1 /\ c = SubSeq(k, 1, Len(q) + 1)
    BY <1>1 DEF DirectPrefixes
  <1>3. k \in Path /\ Len(k) \in Nat /\ Len(p) \in Nat
    BY KeyTypes, LenProperties DEF There, Path
  <1>4. /\ q \in Path /\ Len(q) = Len(p) + 1 /\ q[Len(p) + 1] = s
        /\ \A i \in 1..Len(p) : q[i] = p[i]
    BY Longer, EnumerationAssumption
  <1>5. \A i \in 1..(Len(p) + 1) : k[i] = q[i]
    BY <1>2, <1>3, <1>4, UnderMeans
  <1>6. Len(k) >= Len(p) + 3 /\ Under(p, k) /\ k[Len(p) + 1] = s
    BY <1>2, <1>3, <1>4, <1>5, UnderMeans
  <1>7. c[Len(c)] = k[Len(p) + 2]
    <2>1. Len(p) + 2 \in 0..Len(k) /\ Len(p) + 2 \in 1..(Len(p) + 2) /\ Len(q) + 1 = Len(p) + 2
      BY <1>3, <1>4, <1>6
    <2> QED
      BY <1>2, <1>3, <2>1, Initial
  <1> QED
    BY <1>1, <1>6, <1>7 DEF InEpisode

\* An episode of a List has one key for its manifest.
LEMMA OneManifest ==
  ASSUME NEW l \in Path, NEW j \in Key, NEW k \in Key, IsManifest(l, j), IsManifest(l, k),
         EpisodeOf(l, j) = EpisodeOf(l, k)
  PROVE  j = k
  <1>1. j \in Path /\ k \in Path /\ Len(l) \in Nat /\ Len(j) \in Nat
    BY KeyTypes, LenProperties DEF Path
  <1>2. /\ Len(j) = Len(l) + 3 /\ Len(k) = Len(l) + 3
        /\ j[Len(l) + 1] = k[Len(l) + 1] /\ j[Len(l) + 2] = k[Len(l) + 2]
        /\ j[Len(l) + 3] = k[Len(l) + 3]
    BY DEF IsManifest, EpisodeOf, ScopeOf
  <1>3. \A i \in 1..Len(l) : j[i] = k[i]
    BY <1>1, UnderMeans DEF IsManifest, InEpisode
  <1>4. \A i \in 1..(Len(l) + 3) : i \in 1..Len(l) \/ i = Len(l) + 1 \/ i = Len(l) + 2 \/ i = Len(l) + 3
    BY <1>1
  <1> QED
    BY <1>1, <1>2, <1>3, <1>4, SamePath

\* A List is a path, and its objects lie under it.
LEMMA ListPaths ==
  /\ Lists \subseteq Path
  /\ \A l \in Path, k \in Key : InEpisode(l, k) => l \in Lists
  <1>1. Lists \subseteq Path
    <2> SUFFICES ASSUME NEW l \in Lists
                 PROVE  l \in Path
      OBVIOUS
    <2>1. PICK k \in Key : \E i \in 0..Len(k) : l = SubSeq(k, 1, i)
      BY DEF Lists
    <2> QED
      BY <2>1, KeyTypes, Initial
  <1>2. ASSUME NEW l \in Path, NEW k \in Key, InEpisode(l, k)
        PROVE  l \in Lists
    <2>1. Len(l) \in 0..Len(k) /\ SubSeq(k, 1, Len(l)) = l
      BY <1>2, KeyTypes, LenProperties DEF InEpisode, Under, Path
    <2>2. l \in {SubSeq(k, 1, n) : n \in 0..Len(k)}
      BY <2>1
    <2> QED
      BY <1>2, <2>2 DEF Lists
  <1> QED
    BY <1>1, <1>2

\* The first prefix on the way to a List, and the last one.
LEMMA Ends ==
  ASSUME NEW l \in Path
  PROVE  Len(l) \in Nat /\ SubSeq(l, 1, 0) = <<>> /\ SubSeq(l, 1, Len(l)) = l
  BY LenProperties, SubSeqEmpty, SubSeqFull DEF Path

-----------------------------------------------------------------------------
(* The inductive invariant.                                                 *)

Stamp == Key \X (1..MaxChanges)

WalkType ==
  [on : {TRUE}, queue : SUBSET Path, visited : SUBSET Path, found : SUBSET Path,
   at : [prefix : Path, children : SUBSET Path, left : SUBSET Scope, has : SUBSET Scope]]

ListingType ==
  [on : {TRUE}, list : Lists, next : 1..(Len(Order) + 1), got : SUBSET Stamp, read : SUBSET Stamp]

Record == [raw : SUBSET Stamp, processed : SUBSET Stamp, manifest : 0..MaxChanges]

TypeInv ==
  /\ bucket \in [Key -> 0..MaxChanges] /\ changes \in 0..MaxChanges
  /\ unreadable \in SUBSET (1..MaxChanges) /\ closed \in SUBSET Lists
  /\ walk = NoWalk \/ walk \in WalkType
  /\ listing = NoListing \/ listing \in ListingType
  /\ walk.on => ~listing.on
  /\ listing.on => listing.list \in pending
  /\ pending \in SUBSET Lists
  /\ known \in [Lists -> [EpisodeName -> Record]]

\* Stamps grow; the history variables enclose what is there.
StampInv ==
  /\ kept \subseteq Stamped(bucket) /\ Stamped(bucket) \subseteq since /\ since \subseteq Stamp
  /\ \A k \in Key : bucket[k] <= changes
  /\ \A o \in since : o[2] <= changes
  /\ \A l \in Lists, e \in EpisodeName : \A o \in known[l][e].processed : o[2] <= changes

\* No prefix is queued twice: before its children are, nothing below it was seen.
TreeInv ==
  /\ walk.queue \cap walk.visited = {}
  /\ \A q \in walk.queue \cup walk.visited : q # <<>> =>
       /\ Parent(q) \in walk.visited
       /\ walk.at.left # {} => Parent(q) # walk.at.prefix
  /\ walk.at.left # {} =>
       /\ walk.at.prefix \in walk.visited
       /\ \A c \in walk.at.children : c # <<>> /\ Parent(c) = walk.at.prefix

\* What is found had an episode.
FoundInv ==
  /\ walk.found \subseteq walk.visited
  /\ \A l \in walk.found : \E o \in since : InEpisode(l, o[1])
  /\ walk.at.has # {} => \E o \in since : InEpisode(walk.at.prefix, o[1])

\* The walk is on its way to a List that stays: a prefix of it is queued, or at
\* hand with the next one among its children; or the List itself is at hand.
Ahead(l) ==
  \/ l \in walk.found
  \/ \E m \in 0..Len(l) : SubSeq(l, 1, m) \in walk.queue
  \/ /\ walk.at.left # {}
     /\ \/ \E m \in 0..Len(l) :
             /\ m # Len(l) /\ walk.at.prefix = SubSeq(l, 1, m)
             /\ SubSeq(l, 1, m + 1) \in walk.at.children
        \/ /\ walk.at.prefix = l
           /\ \A o \in kept : InEpisode(l, o[1]) => walk.at.has # {} \/ ScopeOf(l, o[1]) \in walk.at.left

Stays(l) == InReach(l) /\ \E o \in kept : InEpisode(l, o[1])

WalkInv ==
  walk.on =>
    /\ Cardinality(walk.visited) <= MaxPrefixes
    /\ TreeInv /\ FoundInv
    /\ \A l \in Lists : Stays(l) => Ahead(l)

\* The listing has what stayed of the keys it is past, and only what was there; a
\* manifest read is no older than its listed stamp.
ListingInv ==
  listing.on =>
    /\ listing.got \subseteq since
    /\ \A i \in 1..Len(Order) : i < listing.next =>
         \A o \in kept : o[1] = Order[i] /\ InEpisode(listing.list, o[1]) => o \in listing.got
    /\ listing.next <= Len(Order) => listing.read = {}
    /\ \A o \in listing.read :
         /\ IsManifest(listing.list, o[1])
         /\ <<o[1], bucket[o[1]]>> \in listing.got => o[2] = bucket[o[1]]

\* As long as a manifest is the one of the fingerprint on record, it is the one read.
ManifestInv ==
  \A l \in Lists, k \in Key :
    IsManifest(l, k) /\ <<k, bucket[k]>> \in known[l][EpisodeOf(l, k)].processed =>
      known[l][EpisodeOf(l, k)].manifest = bucket[k]

EInv == TypeInv /\ StampInv /\ WalkInv /\ ListingInv /\ ManifestInv

-----------------------------------------------------------------------------
LEMMA InitEInv == Init => EInv
  <1> SUFFICES ASSUME Init PROVE EInv
    OBVIOUS
  <1> USE DEF Init, NoWalk, NoListing
  <1>1. \A l \in Lists, e \in EpisodeName : known[l][e] = Unknown
    OBVIOUS
  <1>2. Unknown \in Record /\ Unknown.processed = {}
    BY EnumerationAssumption DEF Unknown, Record
  <1>3. TypeInv
    BY <1>2, EnumerationAssumption DEF TypeInv
  <1>4. Stamped(bucket) = {}
    BY DEF Stamped
  <1>5. StampInv
    BY <1>1, <1>2, <1>4 DEF StampInv
  <1>6. ManifestInv
    <2>1. \A l \in Lists, k \in Key : IsManifest(l, k) => EpisodeOf(l, k) \in EpisodeName
      BY DEF IsManifest, InEpisode, EpisodeOf
    <2> QED
      BY <1>1, <1>2, <2>1 DEF ManifestInv
  <1> QED
    BY <1>3, <1>5, <1>6 DEF EInv, WalkInv, ListingInv

\* A walk in progress, and a listing.
LEMMA OnTypes ==
  ASSUME EInv
  PROVE  /\ walk.on =>
              /\ walk \in WalkType
              /\ walk.queue \subseteq Path /\ walk.visited \subseteq Path /\ walk.found \subseteq Path
              /\ walk.at.prefix \in Path /\ walk.at.children \subseteq Path
              /\ walk.at.left \subseteq Scope /\ walk.at.has \subseteq Scope
         /\ listing.on =>
              /\ listing \in ListingType
              /\ listing.list \in Lists /\ listing.next \in 1..(Len(Order) + 1)
              /\ listing.got \subseteq Stamp /\ listing.read \subseteq Stamp
  <1>1. ~NoWalk.on /\ ~NoListing.on
    BY DEF NoWalk, NoListing
  <1>2. (walk.on => walk \in WalkType) /\ (listing.on => listing \in ListingType)
    BY <1>1 DEF EInv, TypeInv
  <1> QED
    BY <1>2 DEF WalkType, ListingType

\* A step of something else leaves the walk on its way.
LEMMA WalkKeeps ==
  ASSUME EInv, UNCHANGED walk, kept' \subseteq kept, since \subseteq since'
  PROVE  WalkInv'
  <1> SUFFICES ASSUME walk.on
               PROVE  WalkInv'
    BY DEF WalkInv
  <1>1. TreeInv' /\ FoundInv' /\ Cardinality(walk'.visited) <= MaxPrefixes
    BY DEF EInv, WalkInv, TreeInv, FoundInv
  <1>2. \A l \in Lists : Stays(l)' => Ahead(l)'
    BY DEF EInv, WalkInv, Stays, Ahead
  <1> QED
    BY <1>1, <1>2 DEF WalkInv

\* An upload has a stamp that nothing on record has; a deletion has none.
LEMMA ChangeStep ==
  ASSUME EInv, NEW j \in Key, Put(j) \/ Delete(j)
  PROVE  EInv'
  <1>1. PICK stamp \in 0..MaxChanges :
          /\ bucket' = [bucket EXCEPT ![j] = stamp] /\ changes' = changes + 1
          /\ stamp = 0 \/ stamp = changes + 1
          /\ kept' = kept \cap Stamped(bucket') /\ since' = since \cup Stamped(bucket')
          /\ UNCHANGED <<closed, walk, pending, listing, known>> /\ changes < MaxChanges
          /\ unreadable' = unreadable \/ unreadable' = unreadable \cup {changes + 1}
    BY EnumerationAssumption DEF EInv, TypeInv, Put, Delete, Change
  <1>2. TypeInv'
    <2>1. changes + 1 \in 1..MaxChanges /\ changes' \in 0..MaxChanges
      BY <1>1, EnumerationAssumption DEF EInv, TypeInv
    <2>2. unreadable' \in SUBSET (1..MaxChanges)
      BY <1>1, <2>1 DEF EInv, TypeInv
    <2> QED
      BY <1>1, <2>1, <2>2 DEF EInv, TypeInv
  <1>3. bucket' \in [Key -> 0..MaxChanges] /\ \A k \in Key : bucket'[k] <= changes'
    BY <1>1, EnumerationAssumption DEF EInv, TypeInv, StampInv
  <1>4. StampInv'
    <2>1. Stamped(bucket') \subseteq Stamp /\ \A o \in Stamped(bucket') : o[2] <= changes'
      BY <1>3 DEF Stamped, Stamp
    <2>2. \A o \in since : o[2] <= changes'
      <3> SUFFICES ASSUME NEW o \in since PROVE o[2] <= changes'
        OBVIOUS
      <3>1. o[2] \in Nat /\ o[2] <= changes /\ changes \in Nat
        BY EnumerationAssumption DEF EInv, TypeInv, StampInv, Stamp
      <3> QED
        BY <1>1, <3>1
    <2>3. \A l \in Lists, e \in EpisodeName : \A o \in known[l][e].processed : o[2] <= changes'
      <3> SUFFICES ASSUME NEW l \in Lists, NEW e \in EpisodeName, NEW o \in known[l][e].processed
                   PROVE  o[2] <= changes'
        OBVIOUS
      <3>1. o[2] \in Nat /\ o[2] <= changes /\ changes \in Nat
        BY EnumerationAssumption DEF EInv, TypeInv, StampInv, Stamp, Record
      <3> QED
        BY <1>1, <3>1
    <2>4. kept' \subseteq Stamped(bucket') /\ Stamped(bucket') \subseteq since' /\ since' \subseteq Stamp
      BY <1>1, <2>1 DEF EInv, StampInv
    <2>5. \A o \in since' : o[2] <= changes'
      BY <1>1, <2>1, <2>2
    <2> QED
      BY <1>1, <1>3, <2>3, <2>4, <2>5 DEF StampInv
  <1>5. WalkInv'
    BY <1>1, WalkKeeps
  <1>6. ASSUME NEW S \in SUBSET Stamp, \A o \in S : o[2] <= changes, NEW k \in Key,
               <<k, bucket'[k]>> \in S
        PROVE  bucket'[k] = bucket[k]
    <2>1. bucket'[k] # 0 /\ bucket'[k] <= changes
      BY <1>6 DEF Stamp
    <2>2. changes \in Nat
      BY EnumerationAssumption DEF EInv, TypeInv
    <2> QED
      BY <1>1, <2>1, <2>2 DEF EInv, TypeInv
  <1>7. ListingInv'
    <2> SUFFICES ASSUME listing.on
                 PROVE  ListingInv'
      BY <1>1 DEF ListingInv
    <2>1. listing \in ListingType
      BY DEF EInv, TypeInv, NoListing
    <2>2. \A o \in listing.read : <<o[1], bucket'[o[1]]>> \in listing.got => o[2] = bucket'[o[1]]
      <3> SUFFICES ASSUME NEW o \in listing.read, <<o[1], bucket'[o[1]]>> \in listing.got
                   PROVE  o[2] = bucket'[o[1]]
        OBVIOUS
      <3>1. o[1] \in Key /\ listing.got \in SUBSET Stamp /\ \A q \in listing.got : q[2] <= changes
        BY <2>1 DEF ListingType, Stamp, EInv, StampInv, ListingInv
      <3>2. bucket'[o[1]] = bucket[o[1]]
        BY <1>6, <3>1
      <3> QED
        BY <3>2 DEF EInv, ListingInv
    <2> QED
      BY <1>1, <2>2 DEF EInv, ListingInv
  <1>8. ManifestInv'
    <2> SUFFICES ASSUME NEW l \in Lists, NEW k \in Key, IsManifest(l, k),
                        <<k, bucket'[k]>> \in known[l][EpisodeOf(l, k)].processed
                 PROVE  known[l][EpisodeOf(l, k)].manifest = bucket'[k]
      BY <1>1 DEF ManifestInv
    <2>1. EpisodeOf(l, k) \in EpisodeName
      BY DEF IsManifest, InEpisode, EpisodeOf
    <2>2. known[l][EpisodeOf(l, k)].processed \in SUBSET Stamp
      BY <2>1 DEF EInv, TypeInv, Record
    <2>3. bucket'[k] = bucket[k]
      BY <1>6, <2>1, <2>2 DEF EInv, StampInv
    <2> QED
      BY <2>3 DEF EInv, ManifestInv
  <1> QED
    BY <1>2, <1>4, <1>5, <1>7, <1>8 DEF EInv

\* A verdict leaves the bucket and the record as they are.
LEMMA DecideStep ==
  ASSUME EInv, NEW l \in Lists, Decide(l)
  PROVE  EInv'
  <1>1. /\ UNCHANGED <<bucket, unreadable, walk, pending, listing, known, kept, since>>
        /\ closed' \in SUBSET Lists /\ changes' = changes + 1 /\ changes < MaxChanges
    BY DEF Decide, EInv, TypeInv
  <1>2. changes \in Nat /\ changes' \in 0..MaxChanges /\ \A n \in Nat : n <= changes => n <= changes'
    BY <1>1, EnumerationAssumption DEF EInv, TypeInv
  <1>3. TypeInv'
    BY <1>1, <1>2 DEF EInv, TypeInv
  <1>4. StampInv'
    <2>1. \A k \in Key : bucket[k] \in Nat
      BY EnumerationAssumption DEF EInv, TypeInv
    <2>2. \A o \in Stamp : o[2] \in Nat
      BY EnumerationAssumption DEF Stamp
    <2>3. \A m \in Lists, e \in EpisodeName : known[m][e].processed \subseteq Stamp
      BY DEF EInv, TypeInv, Record
    <2>4. Stamped(bucket)' = Stamped(bucket)
      BY <1>1 DEF Stamped
    <2> QED
      BY <1>1, <1>2, <2>1, <2>2, <2>3, <2>4 DEF EInv, StampInv
  <1>5. WalkInv'
    BY <1>1, WalkKeeps
  <1>6. ListingInv' /\ ManifestInv'
    BY <1>1 DEF EInv, ListingInv, ManifestInv
  <1> QED
    BY <1>3, <1>4, <1>5, <1>6 DEF EInv

-----------------------------------------------------------------------------
(* The walk.                                                                *)

LEMMA NowhereType ==
  /\ Nowhere \in [prefix : Path, children : SUBSET Path, left : SUBSET Scope, has : SUBSET Scope]
  /\ Nowhere.left = {} /\ Nowhere.has = {}
  BY EmptySeq DEF Nowhere, Path

\* What the walk's steps leave alone.
LEMMA WalkOnly ==
  ASSUME EInv, UNCHANGED <<world, listing, known>>,
         walk' = NoWalk \/ walk' \in WalkType, ~listing.on,
         pending' \in SUBSET Lists, WalkInv',
         UNCHANGED <<kept, since>> \/ (kept' = Stamped(bucket) /\ since' = Stamped(bucket))
  PROVE  EInv'
  <1>1. TypeInv'
    BY DEF EInv, TypeInv
  <1>2. kept' \subseteq Stamped(bucket) /\ Stamped(bucket) \subseteq since' /\ since' \subseteq since
    BY DEF EInv, StampInv
  <1>3. StampInv'
    <2>1. Stamped(bucket)' = Stamped(bucket)
      BY DEF Stamped
    <2> QED
      BY <1>2, <2>1 DEF EInv, StampInv
  <1>4. ListingInv' /\ ManifestInv'
    BY DEF EInv, ListingInv, ManifestInv
  <1> QED
    BY <1>1, <1>3, <1>4 DEF EInv

LEMMA StartWalkStep ==
  ASSUME EInv, StartWalk
  PROVE  EInv'
  <1>1. /\ walk' = [on |-> TRUE, queue |-> {<<>>}, visited |-> {}, found |-> {}, at |-> Nowhere]
        /\ ~listing.on /\ pending' = pending /\ UNCHANGED <<world, listing, known>>
        /\ kept' = Stamped(bucket) /\ since' = Stamped(bucket)
    BY DEF StartWalk, Watch
  <1>2. walk' \in WalkType
    BY <1>1, NowhereType, EmptySeq DEF WalkType, Path
  <1>3. Cardinality(walk'.visited) <= MaxPrefixes
    BY <1>1, FS_EmptySet, EnumerationAssumption
  <1>4. TreeInv' /\ FoundInv'
    BY <1>1, NowhereType DEF TreeInv, FoundInv
  <1>5. \A l \in Lists : Ahead(l)'
    <2> SUFFICES ASSUME NEW l \in Lists
                 PROVE  Ahead(l)'
      OBVIOUS
    <2>1. SubSeq(l, 1, 0) = <<>> /\ 0 \in 0..Len(l)
      BY Ends, ListPaths
    <2>2. SubSeq(l, 1, 0) \in walk'.queue
      BY <1>1, <2>1
    <2> QED
      BY <2>1, <2>2 DEF Ahead
  <1>6. WalkInv'
    BY <1>3, <1>4, <1>5 DEF WalkInv
  <1> QED
    BY <1>1, <1>2, <1>6, WalkOnly DEF EInv, TypeInv

LEMMA EndWalkStep ==
  ASSUME EInv, walk.on, WalkFails \/ WalkEnds
  PROVE  EInv'
  <1>1. /\ walk' = NoWalk /\ walk.on /\ UNCHANGED <<world, listing, known, kept, since>>
        /\ pending' = pending \/ pending' = walk.found \cup {l \in Lists : HasEpisodes(l)}
    BY DEF WalkFails, WalkEnds, Unwatched
  <1>2. walk.found \subseteq Lists
    <2> SUFFICES ASSUME NEW l \in walk.found
                 PROVE  l \in Lists
      OBVIOUS
    <2>1. l \in Path
      BY <1>1, OnTypes
    <2>2. \E o \in since : InEpisode(l, o[1]) /\ o[1] \in Key
      BY <1>1 DEF EInv, WalkInv, FoundInv, StampInv, Stamp
    <2> QED
      BY <2>1, <2>2, ListPaths
  <1>3. pending' \in SUBSET Lists
    BY <1>1, <1>2 DEF EInv, TypeInv
  <1>4. WalkInv' /\ ~listing.on
    BY <1>1 DEF WalkInv, NoWalk, EInv, TypeInv
  <1> QED
    BY <1>1, <1>3, <1>4, WalkOnly

\* Where a List that stays is one prefix on: the one at hand leads to it.
LEMMA OnTheWay ==
  ASSUME EInv, walk.on, NEW l \in Lists, Stays(l), NEW m \in 0..Len(l)
  PROVE  LET p == SubSeq(l, 1, m)  c == SubSeq(l, 1, m + 1)
         IN  /\ Len(p) <= MaxDepth
             /\ m # Len(l) => c \in DirectPrefixes(p) /\ c[Len(c)] \notin Scope
             /\ m = Len(l) =>
                  /\ p = l
                  /\ \A o \in kept : InEpisode(l, o[1]) =>
                       /\ ScopeOf(l, o[1]) \in Scope
                       /\ l \o <<ScopeOf(l, o[1])>> \in DirectPrefixes(l)
  <1> DEFINE p == SubSeq(l, 1, m)
             c == SubSeq(l, 1, m + 1)
  <1>1. l \in Path /\ Len(l) \in Nat /\ Len(l) <= MaxDepth /\ \A i \in 1..Len(l) : l[i] \notin Scope
    BY ListPaths, Ends DEF Stays, InReach
  <1>2. Len(p) <= MaxDepth
    BY <1>1, Initial, EnumerationAssumption
  <1>3. \A o \in kept : o[1] \in There
    BY DEF EInv, StampInv, Stamped, There
  <1>4. ASSUME m # Len(l)
        PROVE  c \in DirectPrefixes(p) /\ c[Len(c)] \notin Scope
    <2>1. PICK k \in There : Under(l, k)
      BY <1>3 DEF Stays, InEpisode
    <2>2. m + 1 \in 1..Len(l)
      BY <1>1, <1>4
    <2> QED
      BY <1>1, <1>4, <2>1, <2>2, NextPrefix
  <1>5. ASSUME m = Len(l)
        PROVE  /\ p = l
               /\ \A o \in kept : InEpisode(l, o[1]) =>
                    /\ ScopeOf(l, o[1]) \in Scope
                    /\ l \o <<ScopeOf(l, o[1])>> \in DirectPrefixes(l)
    BY <1>1, <1>3, <1>5, Ends, ScopeBelow
  <1> QED
    BY <1>2, <1>4, <1>5

\* What a visit does: it passes a prefix over, queues its children, or looks into
\* its scopes first.
LEMMA VisitCases ==
  ASSUME EInv, NEW prefix, Visit(prefix)
  PROVE  LET left == {s \in Scope : prefix \o <<s>> \in DirectPrefixes(prefix)}
             beyond == {c \in DirectPrefixes(prefix) : c[Len(c)] \notin Scope}
         IN  /\ walk.on /\ walk.at.left = {} /\ prefix \in walk.queue /\ prefix \in Path
             /\ prefix \notin walk.visited
             /\ walk'.on /\ walk'.found = walk.found /\ walk'.visited = walk.visited \cup {prefix}
             /\ walk' \in WalkType
             /\ \/ /\ Len(prefix) > MaxDepth
                   /\ walk'.queue = walk.queue \ {prefix} /\ walk'.at = walk.at
                \/ /\ left = {} /\ walk'.at = walk.at
                   /\ walk'.queue = (walk.queue \ {prefix}) \cup beyond
                \/ /\ left # {} /\ walk'.queue = walk.queue \ {prefix}
                   /\ walk'.at.prefix = prefix /\ walk'.at.children = DirectPrefixes(prefix)
                   /\ walk'.at.left = left /\ walk'.at.has = {}
  <1> DEFINE left == {s \in Scope : prefix \o <<s>> \in DirectPrefixes(prefix)}
             beyond == {c \in DirectPrefixes(prefix) : c[Len(c)] \notin Scope}
             at == [prefix |-> prefix, children |-> DirectPrefixes(prefix), has |-> {}, left |-> left]
             taken == [walk EXCEPT !.queue = @ \ {prefix}, !.visited = @ \cup {prefix}]
  <1>1. /\ walk.on /\ walk.at.left = {} /\ prefix \in walk.queue
        /\ walk' = IF Len(prefix) > MaxDepth \/ prefix \in walk.visited THEN taken
                   ELSE IF at.left = {} THEN [taken EXCEPT !.queue = @ \cup Beyond(at)]
                   ELSE [taken EXCEPT !.at = at]
    BY DEF Visit
  <1>2. /\ walk \in WalkType /\ prefix \in Path /\ prefix \notin walk.visited
        /\ DirectPrefixes(prefix) \subseteq Path
    BY <1>1, OnTypes, Children DEF EInv, WalkInv, TreeInv
  <1>3. Beyond(at) = beyond /\ at.left = left /\ beyond \subseteq Path
    BY <1>2 DEF Beyond
  <1>4. at \in [prefix : Path, children : SUBSET Path, left : SUBSET Scope, has : SUBSET Scope]
    BY <1>2
  <1>5. /\ taken \in WalkType /\ taken.on /\ taken.queue = walk.queue \ {prefix} /\ taken.at = walk.at
        /\ taken.visited = walk.visited \cup {prefix} /\ taken.found = walk.found
    BY <1>2 DEF WalkType
  <1>6. CASE Len(prefix) > MaxDepth
    BY <1>1, <1>2, <1>5, <1>6
  <1>7. CASE ~(Len(prefix) > MaxDepth) /\ left = {}
    <2>1. walk' = [taken EXCEPT !.queue = @ \cup beyond]
      BY <1>1, <1>2, <1>3, <1>7
    <2>2. /\ walk' \in WalkType /\ walk'.on /\ walk'.queue = (walk.queue \ {prefix}) \cup beyond
          /\ walk'.at = walk.at /\ walk'.visited = walk.visited \cup {prefix}
          /\ walk'.found = walk.found
      <3> HIDE DEF taken, beyond
      <3> QED
        BY <1>3, <1>5, <2>1 DEF WalkType
    <2> QED
      BY <1>1, <1>2, <1>7, <2>2
  <1>8. CASE ~(Len(prefix) > MaxDepth) /\ left # {}
    <2>1. walk' = [taken EXCEPT !.at = at]
      BY <1>1, <1>2, <1>3, <1>8
    <2>2. /\ walk' \in WalkType /\ walk'.on /\ walk'.queue = walk.queue \ {prefix}
          /\ walk'.at = at /\ walk'.visited = walk.visited \cup {prefix}
          /\ walk'.found = walk.found
      <3> HIDE DEF taken, at
      <3>1. /\ walk' = [on |-> taken.on, queue |-> taken.queue, visited |-> taken.visited,
                       found |-> taken.found, at |-> at]
            /\ taken.on = TRUE
        BY <1>5, <2>1 DEF WalkType
      <3>2. /\ taken.queue \in SUBSET Path /\ taken.visited \in SUBSET Path
            /\ taken.found \in SUBSET Path
        BY <1>5 DEF WalkType
      <3>3. walk' \in WalkType
        BY <1>4, <3>1, <3>2 DEF WalkType
      <3> QED
        BY <1>5, <3>1, <3>3
    <2>3. /\ walk'.at.prefix = prefix /\ walk'.at.children = DirectPrefixes(prefix)
          /\ walk'.at.left = left /\ walk'.at.has = {}
      BY <2>2
    <2> QED
      BY <1>1, <1>2, <1>8, <2>2, <2>3
  <1> QED
    BY <1>6, <1>7, <1>8

LEMMA VisitStep ==
  ASSUME EInv, NEW prefix, Visit(prefix)
  PROVE  EInv'
  <1> DEFINE left == {s \in Scope : prefix \o <<s>> \in DirectPrefixes(prefix)}
             beyond == {c \in DirectPrefixes(prefix) : c[Len(c)] \notin Scope}
             Passed == Len(prefix) > MaxDepth /\ walk'.queue = walk.queue \ {prefix} /\ walk'.at = walk.at
             Queued == left = {} /\ walk'.at = walk.at /\ walk'.queue = (walk.queue \ {prefix}) \cup beyond
             Opened == /\ left # {} /\ walk'.queue = walk.queue \ {prefix}
                       /\ walk'.at.prefix = prefix /\ walk'.at.children = DirectPrefixes(prefix)
                       /\ walk'.at.left = left /\ walk'.at.has = {}
  <1>1. /\ walk.on /\ walk.at.left = {} /\ prefix \in walk.queue /\ prefix \in Path
        /\ prefix \notin walk.visited
        /\ walk'.on /\ walk'.found = walk.found /\ walk'.visited = walk.visited \cup {prefix}
        /\ walk' \in WalkType
        /\ Passed \/ Queued \/ Opened
    BY VisitCases
  <1>2. /\ UNCHANGED <<world, pending, listing, known, kept, since>>
        /\ Cardinality(walk.visited \cup {prefix}) <= MaxPrefixes
    BY DEF Visit, Unwatched, Within
  <1>3. TreeInv /\ FoundInv /\ \A l \in Lists : Stays(l) => Ahead(l)
    BY <1>1 DEF EInv, WalkInv
  <1>4. \A c \in DirectPrefixes(prefix) : c # <<>> /\ Parent(c) = prefix
    BY <1>1, Children
  <1>5. \A c \in DirectPrefixes(prefix) : c \notin walk'.visited
    BY <1>1, <1>3, <1>4 DEF TreeInv
  <1> HIDE DEF left, beyond
  <1>6. beyond \subseteq DirectPrefixes(prefix)
    BY DEF beyond
  <1>7. TreeInv'
    <2>1. CASE Passed \/ Queued
      BY <1>1, <1>3, <1>4, <1>5, <1>6, <2>1 DEF TreeInv
    <2>2. CASE Opened
      BY <1>1, <1>3, <1>4, <2>2 DEF TreeInv
    <2> QED
      BY <1>1, <2>1, <2>2
  <1>8. FoundInv'
    BY <1>1, <1>2, <1>3 DEF FoundInv
  <1>9. \A l \in Lists : Stays(l)' => Ahead(l)'
    <2> SUFFICES ASSUME NEW l \in Lists, Stays(l)
                 PROVE  Ahead(l)'
      BY <1>2 DEF Stays
    <2>1. CASE l \in walk.found
      BY <1>1, <2>1 DEF Ahead
    <2>2. ASSUME NEW m \in 0..Len(l), SubSeq(l, 1, m) \in walk.queue, SubSeq(l, 1, m) # prefix
          PROVE  Ahead(l)'
      BY <1>1, <2>2 DEF Ahead
    <2>3. ASSUME NEW m \in 0..Len(l), SubSeq(l, 1, m) = prefix
          PROVE  Ahead(l)'
      <3> DEFINE c == SubSeq(l, 1, m + 1)
      <3>1. /\ Len(prefix) <= MaxDepth
            /\ m # Len(l) => c \in DirectPrefixes(prefix) /\ c[Len(c)] \notin Scope
            /\ m = Len(l) =>
                 /\ prefix = l
                 /\ \A o \in kept : InEpisode(l, o[1]) =>
                      /\ ScopeOf(l, o[1]) \in Scope
                      /\ l \o <<ScopeOf(l, o[1])>> \in DirectPrefixes(l)
        BY <1>1, <2>3, OnTheWay
      <3>2. Queued \/ Opened
        BY <1>1, <3>1, LenProperties, EnumerationAssumption DEF Path
      <3>3. CASE m # Len(l)
        <4>1. m + 1 \in 0..Len(l)
          BY <3>3, Ends, ListPaths
        <4>2. c \in DirectPrefixes(prefix) /\ c[Len(c)] \notin Scope
          BY <3>1, <3>3
        <4>3. c \in beyond
          BY <4>2 DEF beyond
        <4> QED
          BY <1>1, <2>3, <3>2, <3>3, <4>1, <4>2, <4>3 DEF Ahead
      <3>4. CASE m = Len(l)
        <4>1. \A o \in kept : InEpisode(l, o[1]) => ScopeOf(l, o[1]) \in left
          BY <3>1, <3>4 DEF left
        <4>2. left # {}
          BY <4>1 DEF Stays
        <4>3. Opened
          BY <3>2, <4>2
        <4>4. walk'.at.left = left /\ walk'.at.prefix = l /\ kept' = kept
          BY <1>2, <3>1, <3>4, <4>3
        <4>5. \A o \in kept' : InEpisode(l, o[1]) => ScopeOf(l, o[1]) \in walk'.at.left
          BY <4>1, <4>4
        <4> QED
          BY <4>2, <4>4, <4>5 DEF Ahead
      <3> QED
        BY <3>3, <3>4
    <2> QED
      BY <1>1, <1>3, <2>1, <2>2, <2>3 DEF Ahead
  <1>10. WalkInv' /\ ~listing.on
    BY <1>1, <1>2, <1>7, <1>8, <1>9 DEF WalkInv, EInv, TypeInv
  <1> QED
    BY <1>1, <1>2, <1>10, WalkOnly DEF EInv, TypeInv

\* What a look into a scope does: it marks an episode, and with the last scope ends
\* the visit.
LEMMA ListScopeCases ==
  ASSUME EInv, NEW s \in Scope, ListScope(s)
  PROVE  LET at == walk.at
             shows == EpisodePrefixes(at.prefix \o <<s>>) # {}
             has == IF shows THEN at.has \cup {s} ELSE at.has
             left == at.left \ {s}
             beyond == {c \in at.children : c[Len(c)] \notin Scope}
         IN  /\ walk.on /\ s \in at.left
             /\ walk'.on /\ walk'.visited = walk.visited /\ walk' \in WalkType
             /\ \/ /\ left = {} /\ walk'.at = Nowhere
                   /\ walk'.queue = walk.queue \cup beyond
                   /\ walk'.found = IF has # {} THEN walk.found \cup {at.prefix} ELSE walk.found
                \/ /\ left # {} /\ walk'.queue = walk.queue /\ walk'.found = walk.found
                   /\ walk'.at.prefix = at.prefix /\ walk'.at.children = at.children
                   /\ walk'.at.left = left /\ walk'.at.has = has
  <1> DEFINE shows == EpisodePrefixes(walk.at.prefix \o <<s>>) # {}
             has == IF shows THEN walk.at.has \cup {s} ELSE walk.at.has
             left == walk.at.left \ {s}
             beyond == {c \in walk.at.children : c[Len(c)] \notin Scope}
             at == [walk.at EXCEPT !.left = @ \ {s},
                                   !.has = IF EpisodePrefixes(walk.at.prefix \o <<s>>) # {}
                                           THEN @ \cup {s} ELSE @]
             AtType == [prefix : Path, children : SUBSET Path, left : SUBSET Scope, has : SUBSET Scope]
  <1>1. /\ walk.on /\ s \in walk.at.left
        /\ walk' = IF at.left = {} THEN Visited(at) ELSE [walk EXCEPT !.at = at]
    BY DEF ListScope
  <1>2. walk \in WalkType /\ walk.at \in AtType
    BY <1>1, OnTypes DEF WalkType
  <1>3. /\ at \in AtType
        /\ at.prefix = walk.at.prefix /\ at.children = walk.at.children
        /\ at.left = left /\ at.has = has
    <2> HIDE DEF shows
    <2>1. at = [walk.at EXCEPT !.left = @ \ {s}, !.has = IF shows THEN @ \cup {s} ELSE @]
      BY DEF shows
    <2> HIDE DEF at
    <2> QED
      BY <1>2, <2>1
  <1>4. Beyond(at) = beyond
    BY <1>3 DEF Beyond
  <1>5. beyond \subseteq Path
    BY <1>2
  <1>6. /\ walk.on = TRUE /\ walk.queue \in SUBSET Path /\ walk.visited \in SUBSET Path
        /\ walk.found \in SUBSET Path
    BY <1>2 DEF WalkType
  <1> HIDE DEF at, has, left, beyond
  <1>7. CASE left = {}
    <2> DEFINE found == IF has # {} THEN walk.found \cup {walk.at.prefix} ELSE walk.found
    <2>1. walk' = [walk EXCEPT !.at = Nowhere, !.queue = (@ \cup beyond),
                               !.found = IF at.has # {} THEN @ \cup {at.prefix} ELSE @]
      BY <1>1, <1>3, <1>4, <1>7 DEF Visited
    <2>2. walk' = [on |-> walk.on, queue |-> walk.queue \cup beyond, visited |-> walk.visited,
                   found |-> found, at |-> Nowhere]
      BY <1>2, <1>3, <2>1 DEF WalkType
    <2>3. found \in SUBSET Path
      BY <1>2, <1>6
    <2>4. walk' \in WalkType
      BY <1>5, <1>6, <2>2, <2>3, NowhereType DEF WalkType
    <2>5. /\ walk'.on /\ walk'.visited = walk.visited /\ walk'.at = Nowhere
          /\ walk'.queue = walk.queue \cup beyond /\ walk'.found = found
      BY <1>6, <2>2
    <2> HIDE DEF found
    <2>6. walk'.found = IF has # {} THEN walk.found \cup {walk.at.prefix} ELSE walk.found
      BY <2>5 DEF found
    <2> QED
      BY <1>1, <1>7, <2>4, <2>5, <2>6 DEF left, has, beyond
  <1>8. CASE left # {}
    <2>1. walk' = [walk EXCEPT !.at = at]
      BY <1>1, <1>3, <1>8
    <2>2. walk' = [on |-> walk.on, queue |-> walk.queue, visited |-> walk.visited,
                   found |-> walk.found, at |-> at]
      BY <1>2, <2>1 DEF WalkType
    <2>3. walk' \in WalkType
      BY <1>3, <1>6, <2>2 DEF WalkType
    <2>4. /\ walk'.at.prefix = walk.at.prefix /\ walk'.at.children = walk.at.children
          /\ walk'.at.left = left /\ walk'.at.has = has
      BY <1>3, <2>2
    <2> QED
      BY <1>1, <1>6, <1>8, <2>2, <2>3, <2>4 DEF left, has
  <1> QED
    BY <1>7, <1>8

LEMMA ListScopeStep ==
  ASSUME EInv, NEW s \in Scope, ListScope(s)
  PROVE  EInv'
  <1> DEFINE prefix == walk.at.prefix
             shows == EpisodePrefixes(prefix \o <<s>>) # {}
             has == IF shows THEN walk.at.has \cup {s} ELSE walk.at.has
             left == walk.at.left \ {s}
             beyond == {c \in walk.at.children : c[Len(c)] \notin Scope}
             Done == /\ left = {} /\ walk'.at = Nowhere /\ walk'.queue = walk.queue \cup beyond
                     /\ walk'.found = IF has # {} THEN walk.found \cup {prefix} ELSE walk.found
             Goes == /\ left # {} /\ walk'.queue = walk.queue /\ walk'.found = walk.found
                     /\ walk'.at.prefix = prefix /\ walk'.at.children = walk.at.children
                     /\ walk'.at.left = left /\ walk'.at.has = has
  <1>1. /\ walk.on /\ s \in walk.at.left
        /\ walk'.on /\ walk'.visited = walk.visited /\ walk' \in WalkType
        /\ Done \/ Goes
    BY ListScopeCases
  <1>2. UNCHANGED <<world, pending, listing, known, kept, since>>
    BY DEF ListScope, Unwatched
  <1>3. /\ Cardinality(walk.visited) <= MaxPrefixes
        /\ TreeInv /\ FoundInv /\ \A l \in Lists : Stays(l) => Ahead(l)
    BY <1>1 DEF EInv, WalkInv
  <1>4. prefix \in Path /\ walk.at.left # {} /\ prefix \in walk.visited
    BY <1>1, <1>3, OnTypes DEF TreeInv
  <1>5. has # {} => \E o \in since : InEpisode(prefix, o[1])
    <2>1. ASSUME shows
          PROVE  \E o \in since : InEpisode(prefix, o[1])
      <3>1. PICK k \in There : InEpisode(prefix, k)
        BY <1>4, <2>1, EpisodeBelow
      <3>2. <<k, bucket[k]>> \in since
        BY <3>1 DEF There, Stamped, EInv, StampInv
      <3> QED
        BY <3>1, <3>2
    <2>2. ASSUME ~shows
          PROVE  has = walk.at.has
      BY <2>2
    <2> QED
      BY <1>3, <2>1, <2>2 DEF FoundInv
  <1>6. beyond \subseteq walk.at.children
    OBVIOUS
  <1> HIDE DEF has, left, beyond
  <1>7. TreeInv'
    <2>1. CASE Done
      BY <1>1, <1>3, <1>4, <1>6, <2>1, NowhereType DEF TreeInv
    <2>2. CASE Goes
      BY <1>1, <1>3, <1>4, <2>2 DEF TreeInv
    <2> QED
      BY <1>1, <2>1, <2>2
  <1>8. FoundInv'
    <2>1. CASE Done
      BY <1>1, <1>2, <1>3, <1>4, <1>5, <2>1, NowhereType DEF FoundInv
    <2>2. CASE Goes
      BY <1>1, <1>2, <1>3, <1>5, <2>2 DEF FoundInv
    <2> QED
      BY <1>1, <2>1, <2>2
  <1>9. \A l \in Lists : Stays(l)' => Ahead(l)'
    <2> SUFFICES ASSUME NEW l \in Lists, Stays(l)
                 PROVE  Ahead(l)'
      BY <1>2 DEF Stays
    <2>1. CASE l \in walk.found
      <3>1. l \in walk'.found
        BY <1>1, <2>1
      <3> QED
        BY <3>1 DEF Ahead
    <2>2. ASSUME NEW m \in 0..Len(l), SubSeq(l, 1, m) \in walk.queue
          PROVE  Ahead(l)'
      <3>1. SubSeq(l, 1, m) \in walk'.queue
        BY <1>1, <2>2
      <3> QED
        BY <2>2, <3>1 DEF Ahead
    <2>3. ASSUME NEW m \in 0..Len(l), m # Len(l), prefix = SubSeq(l, 1, m),
                 SubSeq(l, 1, m + 1) \in walk.at.children
          PROVE  Ahead(l)'
      <3> DEFINE c == SubSeq(l, 1, m + 1)
      <3>1. CASE Done
        <4>1. m + 1 \in 0..Len(l) /\ m + 1 \in 1..Len(l) /\ l \in Path
          BY <2>3, Ends, ListPaths
        <4>2. c[Len(c)] = l[m + 1] /\ l[m + 1] \notin Scope
          BY <4>1, Initial DEF Stays, InReach
        <4>3. c \in beyond
          BY <2>3, <4>2 DEF beyond
        <4>4. c \in walk'.queue
          BY <3>1, <4>3
        <4> QED
          BY <4>1, <4>4 DEF Ahead
      <3>2. CASE Goes
        <4>1. /\ walk'.at.left # {} /\ walk'.at.prefix = SubSeq(l, 1, m)
              /\ c \in walk'.at.children
          BY <2>3, <3>2
        <4> QED
          BY <2>3, <4>1 DEF Ahead
      <3> QED
        BY <1>1, <3>1, <3>2
    <2>4. ASSUME prefix = l,
                 \A o \in kept : InEpisode(l, o[1]) =>
                   walk.at.has # {} \/ ScopeOf(l, o[1]) \in walk.at.left
          PROVE  Ahead(l)'
      <3>1. \A o \in kept : InEpisode(l, o[1]) => has # {} \/ ScopeOf(l, o[1]) \in left
        <4> SUFFICES ASSUME NEW o \in kept, InEpisode(l, o[1]), ScopeOf(l, o[1]) \notin left,
                            walk.at.has = {}
                     PROVE  has # {}
          BY DEF has
        <4>1. ScopeOf(l, o[1]) = s
          BY <2>4 DEF left
        <4>2. o[1] \in There /\ l \in Path
          BY ListPaths DEF EInv, StampInv, Stamped, There
        <4>3. EpisodePrefixes(l \o <<s>>) # {}
          BY <4>1, <4>2, ScopeBelow
        <4> QED
          BY <2>4, <4>3 DEF has
      <3>2. CASE Done
        <4>1. has # {}
          BY <3>1, <3>2 DEF Stays
        <4>2. l \in walk'.found
          BY <2>4, <3>2, <4>1
        <4> QED
          BY <4>2 DEF Ahead
      <3>3. CASE Goes
        <4>1. /\ walk'.at.left = left /\ walk'.at.left # {} /\ walk'.at.prefix = l
              /\ walk'.at.has = has /\ kept' = kept
          BY <1>2, <2>4, <3>3
        <4>2. \A o \in kept' : InEpisode(l, o[1]) =>
                walk'.at.has # {} \/ ScopeOf(l, o[1]) \in walk'.at.left
          BY <3>1, <4>1
        <4> QED
          BY <4>1, <4>2 DEF Ahead
      <3> QED
        BY <1>1, <3>2, <3>3
    <2> QED
      BY <1>3, <2>1, <2>2, <2>3, <2>4 DEF Ahead
  <1>10. WalkInv' /\ ~listing.on
    BY <1>1, <1>2, <1>3, <1>7, <1>8, <1>9 DEF WalkInv, EInv, TypeInv
  <1> QED
    BY <1>1, <1>2, <1>10, WalkOnly DEF EInv, TypeInv

-----------------------------------------------------------------------------
(* The snapshot of a List.                                                  *)

\* What the listing's steps leave alone.
LEMMA ListOnly ==
  ASSUME EInv, UNCHANGED <<world, walk>>, ~walk.on,
         listing' = NoListing \/ listing' \in ListingType,
         listing'.on => listing'.list \in pending', pending' \in SUBSET Lists,
         known' = known \/
           /\ known' \in [Lists -> [EpisodeName -> Record]]
           /\ \A l \in Lists, e \in EpisodeName : \A o \in known'[l][e].processed : o[2] <= changes,
         ListingInv', ManifestInv',
         UNCHANGED <<kept, since>> \/ (kept' = Stamped(bucket) /\ since' = Stamped(bucket))
  PROVE  EInv'
  <1>1. TypeInv'
    BY DEF EInv, TypeInv
  <1>2. kept' \subseteq Stamped(bucket) /\ Stamped(bucket) \subseteq since' /\ since' \subseteq since
    BY DEF EInv, StampInv
  <1>3. StampInv'
    <2>1. Stamped(bucket') = Stamped(bucket)
      BY DEF Stamped
    <2>2. /\ kept' \subseteq Stamped(bucket') /\ Stamped(bucket') \subseteq since' /\ since' \subseteq Stamp
          /\ \A k \in Key : bucket'[k] <= changes'
          /\ \A o \in since' : o[2] <= changes'
      BY <1>2, <2>1 DEF EInv, StampInv
    <2>3. \A l \in Lists, e \in EpisodeName : \A o \in known'[l][e].processed : o[2] <= changes'
      BY DEF EInv, StampInv
    <2> QED
      BY <2>2, <2>3 DEF StampInv
  <1>4. WalkInv'
    BY DEF WalkInv
  <1> QED
    BY <1>1, <1>3, <1>4 DEF EInv

LEMMA BeginListStep ==
  ASSUME EInv, NEW l \in Lists, BeginList(l)
  PROVE  EInv'
  <1>1. /\ ~walk.on /\ l \in pending /\ UNCHANGED <<world, walk, pending, known>>
        /\ listing' = [on |-> TRUE, list |-> l, next |-> 1, got |-> {}, read |-> {}]
        /\ kept' = Stamped(bucket) /\ since' = Stamped(bucket)
    BY DEF BeginList, Watch
  <1>2. listing' \in ListingType
    <2>1. 1 \in 1..(Len(Order) + 1)
      BY KeyTypes
    <2> QED
      BY <1>1, <2>1 DEF ListingType
  <1>3. ListingInv'
    BY <1>1, KeyTypes DEF ListingInv
  <1>4. ManifestInv'
    BY <1>1 DEF EInv, ManifestInv
  <1> QED
    BY <1>1, <1>2, <1>3, <1>4, ListOnly DEF EInv, TypeInv

\* The listing ends, and what is on record stays.
LEMMA AttemptFailsStep ==
  ASSUME EInv, listing.on, AttemptFails
  PROVE  EInv'
  <1>1. /\ listing.on /\ listing' = NoListing /\ pending' \in {pending, pending \ {listing.list}}
        /\ UNCHANGED <<world, walk, known, kept, since>>
    BY DEF AttemptFails, Unwatched
  <1>2. ~walk.on /\ ~NoListing.on /\ pending' \in SUBSET Lists
    BY <1>1 DEF EInv, TypeInv, NoListing
  <1>3. ListingInv'
    BY <1>1, <1>2 DEF ListingInv
  <1>4. ManifestInv'
    BY <1>1 DEF EInv, ManifestInv
  <1> QED
    BY <1>1, <1>2, <1>3, <1>4, ListOnly

LEMMA ListNextStep ==
  ASSUME EInv, ListNext
  PROVE  EInv'
  <1> DEFINE k == Order[listing.next]
  <1>1. /\ listing.on /\ listing.next <= Len(Order)
        /\ listing' = [listing EXCEPT !.next = @ + 1, !.got = @ \cup Taken(k)]
        /\ UNCHANGED <<world, walk, pending, known, kept, since>>
    BY DEF ListNext, Unwatched
  <1>2. /\ listing \in ListingType /\ listing.list \in Lists /\ listing.got \subseteq Stamp
        /\ listing.next \in 1..Len(Order) /\ ~walk.on
    BY <1>1, OnTypes, KeyTypes DEF EInv, TypeInv
  <1>3. k \in Key
    BY <1>2 DEF Key
  <1>4. Taken(k) \subseteq Stamped(bucket) /\ Taken(k) \subseteq since /\ since \subseteq Stamp
    BY <1>3 DEF Taken, Stamped, EInv, StampInv
  <1> HIDE DEF k
  <1>5. listing' = [on |-> TRUE, list |-> listing.list, next |-> listing.next + 1,
                    got |-> listing.got \cup Taken(k), read |-> listing.read]
    BY <1>1, <1>2 DEF ListingType
  <1>6. listing' \in ListingType
    <2>1. listing.next + 1 \in 1..(Len(Order) + 1) /\ listing.got \cup Taken(k) \in SUBSET Stamp
      BY <1>2, <1>4, KeyTypes
    <2>2. listing.read \in SUBSET Stamp
      BY <1>2 DEF ListingType
    <2> QED
      BY <1>2, <1>5, <2>1, <2>2 DEF ListingType
  <1>7. listing.read = {} /\ listing.got \subseteq since
    BY <1>1 DEF EInv, ListingInv
  <1>8. ASSUME NEW i \in 1..Len(Order), i < listing'.next, NEW o \in kept, o[1] = Order[i],
               InEpisode(listing.list, o[1])
        PROVE  o \in listing'.got
    <2>1. i < listing.next \/ i = listing.next
      BY <1>2, <1>5, <1>8
    <2>2. CASE i < listing.next
      BY <1>1, <1>5, <1>8, <2>2 DEF EInv, ListingInv
    <2>3. CASE i = listing.next
      <3>1. o = <<k, bucket[k]>> /\ bucket[k] # 0
        BY <1>8, <2>3 DEF k, EInv, StampInv, Stamped
      <3> QED
        BY <1>5, <1>8, <3>1 DEF Taken
    <2> QED
      BY <2>1, <2>2, <2>3
  <1>9. ListingInv'
    <2>1. /\ listing'.list = listing.list /\ listing'.read = {}
          /\ listing'.got \subseteq since' /\ kept' = kept
      BY <1>1, <1>4, <1>5, <1>7
    <2> QED
      BY <1>8, <2>1 DEF ListingInv
  <1>10. ManifestInv'
    BY <1>1 DEF EInv, ManifestInv
  <1>11. listing'.list \in pending' /\ pending' \in SUBSET Lists
    BY <1>1, <1>5 DEF EInv, TypeInv
  <1> QED
    BY <1>1, <1>2, <1>6, <1>9, <1>10, <1>11, ListOnly

LEMMA ReadManifestStep ==
  ASSUME EInv, NEW k \in Key, ReadManifest(k)
  PROVE  EInv'
  <1>1. /\ listing.on /\ listing.next > Len(Order) /\ k \in Unread /\ bucket[k] # 0
        /\ listing' = [listing EXCEPT !.read = @ \cup {<<k, bucket[k]>>}]
        /\ UNCHANGED <<world, walk, pending, known, kept, since>>
    BY DEF ReadManifest, Readable, Listed, Unwatched
  <1>2. /\ listing \in ListingType /\ listing.read \subseteq Stamp
        /\ listing.next \in 1..(Len(Order) + 1) /\ ~walk.on /\ Len(Order) \in Nat
    BY <1>1, OnTypes, KeyTypes DEF EInv, TypeInv
  <1>3. IsManifest(listing.list, k)
    BY <1>1 DEF Unread, ToRead
  <1>4. <<k, bucket[k]>> \in Stamp
    BY <1>1, EnumerationAssumption DEF Stamp, EInv, TypeInv
  <1>5. listing' = [on |-> TRUE, list |-> listing.list, next |-> listing.next,
                    got |-> listing.got, read |-> listing.read \cup {<<k, bucket[k]>>}]
    BY <1>1, <1>2 DEF ListingType
  <1>6. listing' \in ListingType
    BY <1>2, <1>4, <1>5 DEF ListingType
  <1>7. ListingInv'
    <2>1. /\ listing'.list = listing.list /\ listing'.got = listing.got
          /\ listing'.next = listing.next /\ ~(listing.next <= Len(Order))
          /\ listing'.read = listing.read \cup {<<k, bucket[k]>>}
      BY <1>1, <1>2, <1>5
    <2>2. \A o \in listing'.read :
            /\ IsManifest(listing.list, o[1])
            /\ <<o[1], bucket[o[1]]>> \in listing.got => o[2] = bucket[o[1]]
      BY <1>1, <1>3, <2>1 DEF EInv, ListingInv
    <2>3. /\ listing.got \subseteq since
          /\ \A i \in 1..Len(Order) : i < listing.next =>
               \A o \in kept : o[1] = Order[i] /\ InEpisode(listing.list, o[1]) => o \in listing.got
      BY <1>1 DEF EInv, ListingInv
    <2> QED
      BY <1>1, <2>1, <2>2, <2>3 DEF ListingInv
  <1>8. ManifestInv'
    BY <1>1 DEF EInv, ManifestInv
  <1>9. listing'.list \in pending' /\ pending' \in SUBSET Lists
    BY <1>1, <1>5 DEF EInv, TypeInv
  <1> QED
    BY <1>1, <1>2, <1>6, <1>7, <1>8, <1>9, ListOnly

\* What is recorded of an episode, and the manifest of it.
LEMMA RecordedIs ==
  ASSUME EInv, Listed, Unread = {}, NEW e \in EpisodeName
  PROVE  /\ Recorded(e) \in Record
         /\ \A o \in Recorded(e).processed : o[2] <= changes
         /\ \A k \in Key :
              /\ IsManifest(listing.list, k) /\ EpisodeOf(listing.list, k) = e
              /\ <<k, bucket[k]>> \in Recorded(e).processed
              => Recorded(e).manifest = bucket[k]
  <1> DEFINE l == listing.list
             old == known[l][e]
             raw == Of(listing.got, l, e, "raw")
             processed == Of(listing.got, l, e, "processed")
             manifest == IF ManifestRead(e) = {} THEN old.manifest
                         ELSE (CHOOSE o \in ManifestRead(e) : TRUE)[2]
  <1>1. /\ listing.on /\ l \in Lists /\ l \in Path
        /\ listing.got \subseteq Stamp /\ listing.read \subseteq Stamp /\ listing.got \subseteq since
    BY OnTypes, ListPaths DEF Listed, EInv, ListingInv
  <1>2. /\ old \in Record /\ old.manifest \in 0..MaxChanges
        /\ \A o \in old.processed : o[2] <= changes
    BY <1>1 DEF EInv, TypeInv, StampInv, Record
  <1>3. raw \subseteq listing.got /\ processed \subseteq listing.got
    BY DEF Of
  <1>4. manifest \in 0..MaxChanges
    <2>1. CASE ManifestRead(e) = {}
      BY <1>2, <2>1
    <2>2. CASE ManifestRead(e) # {}
      <3>1. PICK o \in ManifestRead(e) : manifest = o[2]
        BY <2>2
      <3>2. o \in Stamp
        BY <1>1, <3>1 DEF ManifestRead
      <3> QED
        BY <3>1, <3>2, EnumerationAssumption DEF Stamp
    <2> QED
      BY <2>1, <2>2
  <1>5. CASE ~Seen(e)
    <2>1. Recorded(e) = old
      BY <1>5 DEF Recorded
    <2>2. \A k \in Key :
            IsManifest(l, k) /\ EpisodeOf(l, k) = e /\ <<k, bucket[k]>> \in old.processed
              => old.manifest = bucket[k]
      BY <1>1 DEF EInv, ManifestInv
    <2> QED
      BY <1>2, <2>1, <2>2
  <1>6. CASE Seen(e)
    <2>1. Recorded(e) = [raw |-> raw, processed |-> processed, manifest |-> manifest]
      BY <1>6 DEF Recorded, Fingerprint
    <2>2. Recorded(e) \in Record
      <3> HIDE DEF raw, processed, manifest
      <3> QED
        BY <1>1, <1>3, <1>4, <2>1 DEF Record
    <2>3. \A o \in processed : o[2] <= changes
      BY <1>1, <1>3 DEF EInv, StampInv
    <2>4. ASSUME NEW k \in Key, IsManifest(l, k), EpisodeOf(l, k) = e, <<k, bucket[k]>> \in processed
          PROVE  manifest = bucket[k]
      <3>1. <<k, bucket[k]>> \in listing.got
        BY <1>3, <2>4
      <3>2. \A o \in ManifestRead(e) : o[2] = bucket[k]
        <4> SUFFICES ASSUME NEW o \in ManifestRead(e)
                     PROVE  o[2] = bucket[k]
          OBVIOUS
        <4>1. o \in listing.read /\ EpisodeOf(l, o[1]) = e /\ o[1] \in Key
          BY <1>1 DEF ManifestRead, Stamp
        <4>2. /\ IsManifest(l, o[1])
              /\ <<o[1], bucket[o[1]]>> \in listing.got => o[2] = bucket[o[1]]
          BY <1>1, <4>1 DEF EInv, ListingInv
        <4>3. o[1] = k
          BY <1>1, <2>4, <4>1, <4>2, OneManifest
        <4> QED
          BY <3>1, <4>2, <4>3
      <3>3. CASE ManifestRead(e) # {}
        BY <3>2, <3>3
      <3>4. CASE ManifestRead(e) = {}
        <4>1. ~Changed(e)
          <5> SUFFICES ASSUME Changed(e)
                       PROVE  FALSE
            OBVIOUS
          <5>1. k \in ToRead
            BY <2>4, <3>1 DEF ToRead
          <5>2. PICK o \in listing.read : o[1] = k
            BY <5>1 DEF Unread
          <5>3. o \in ManifestRead(e)
            BY <2>4, <5>2 DEF ManifestRead
          <5> QED
            BY <3>4, <5>3
        <4>2. old["processed"] = processed
          BY <4>1 DEF Changed, Scope, Fingerprint
        <4>3. old.manifest = bucket[k]
          BY <1>1, <2>4, <4>2 DEF EInv, ManifestInv
        <4> QED
          BY <3>4, <4>3
      <3> QED
        BY <3>3, <3>4
    <2> HIDE DEF processed, manifest, raw
    <2>5. Recorded(e).processed = processed /\ Recorded(e).manifest = manifest
      BY <2>1
    <2> QED
      BY <2>2, <2>3, <2>4, <2>5
  <1> QED
    BY <1>5, <1>6

LEMMA PublishStep ==
  ASSUME EInv, Publish
  PROVE  EInv'
  <1>1. /\ Listed /\ Unread = {} /\ listing.on /\ listing' = NoListing
        /\ known' = [known EXCEPT ![listing.list] = [e \in EpisodeName |-> Recorded(e)]]
        /\ pending' = pending \ {listing.list}
        /\ UNCHANGED <<world, walk, kept, since>>
    BY DEF Publish, Listed, Unwatched
  <1>2. ~walk.on /\ ~NoListing.on /\ pending' \in SUBSET Lists /\ listing.list \in Lists
    BY <1>1, OnTypes DEF EInv, TypeInv, NoListing
  <1>3. /\ known \in [Lists -> [EpisodeName -> Record]]
        /\ [e \in EpisodeName |-> Recorded(e)] \in [EpisodeName -> Record]
    BY <1>1, RecordedIs DEF EInv, TypeInv
  <1>4. known' \in [Lists -> [EpisodeName -> Record]]
    BY <1>1, <1>3
  <1>5. \A l \in Lists, e \in EpisodeName :
          known'[l][e] = IF l = listing.list THEN Recorded(e) ELSE known[l][e]
    BY <1>1, <1>3
  <1>6. \A l \in Lists, e \in EpisodeName : \A o \in known'[l][e].processed : o[2] <= changes
    BY <1>1, <1>5, RecordedIs DEF EInv, StampInv
  <1>7. ManifestInv'
    <2> SUFFICES ASSUME NEW l \in Lists, NEW k \in Key, IsManifest(l, k),
                        <<k, bucket[k]>> \in known'[l][EpisodeOf(l, k)].processed
                 PROVE  known'[l][EpisodeOf(l, k)].manifest = bucket[k]
      BY <1>1 DEF ManifestInv
    <2>1. EpisodeOf(l, k) \in EpisodeName
      BY DEF IsManifest, InEpisode, EpisodeOf
    <2>2. CASE l = listing.list
      BY <1>1, <1>5, <2>1, <2>2, RecordedIs
    <2>3. CASE l # listing.list
      <3>1. known'[l][EpisodeOf(l, k)] = known[l][EpisodeOf(l, k)]
        BY <1>5, <2>1, <2>3
      <3> QED
        BY <3>1 DEF EInv, ManifestInv
    <2> QED
      BY <2>2, <2>3
  <1>8. ListingInv'
    BY <1>1, <1>2 DEF ListingInv
  <1> QED
    BY <1>1, <1>2, <1>4, <1>6, <1>7, <1>8, ListOnly

-----------------------------------------------------------------------------
\* The invariant holds throughout (scan_worker.py, list_snapshot.py).
THEOREM Invariance == Spec => []EInv
  <1>1. ASSUME EInv, Next
        PROVE  EInv'
    <2>1. CASE \E k \in Key : Put(k) \/ Delete(k) \/ ReadManifest(k)
      BY <1>1, <2>1, ChangeStep, ReadManifestStep
    <2>2. CASE PublishFails \/ RequestFails \/ \E k \in Key : ReadFails(k)
      <3>1. (listing.on /\ AttemptFails) \/ (walk.on /\ WalkFails)
        BY <2>2 DEF PublishFails, RequestFails, ReadFails, Listed
      <3>2. CASE listing.on /\ AttemptFails
        BY <1>1, <3>2, AttemptFailsStep
      <3>3. CASE walk.on /\ WalkFails
        BY <1>1, <3>3, EndWalkStep
      <3> QED
        BY <3>1, <3>2, <3>3
    <2>3. CASE \E l \in Lists : Decide(l) \/ BeginList(l)
      BY <1>1, <2>3, DecideStep, BeginListStep
    <2>4. CASE StartWalk
      BY <1>1, <2>4, StartWalkStep
    <2>5. CASE WalkOverflows \/ WalkEnds
      <3>1. walk.on /\ (WalkFails \/ WalkEnds)
        BY <2>5 DEF WalkOverflows, Overflows, WalkEnds
      <3> QED
        BY <1>1, <3>1, EndWalkStep
    <2>6. CASE \E prefix \in walk.queue : Visit(prefix)
      BY <1>1, <2>6, VisitStep
    <2>7. CASE \E s \in Scope : ListScope(s)
      BY <1>1, <2>7, ListScopeStep
    <2>8. CASE ListNext
      BY <1>1, <2>8, ListNextStep
    <2>9. CASE Publish
      BY <1>1, <2>9, PublishStep
    <2> QED
      BY <1>1, <2>1, <2>2, <2>3, <2>4, <2>5, <2>6, <2>7, <2>8, <2>9 DEF Next
  <1>2. ASSUME EInv, UNCHANGED vars
        PROVE  EInv'
    <2>1. UNCHANGED <<world, walk, pending, listing, known, kept, since>>
      BY <1>2 DEF vars
    <2>2. WalkInv'
      BY <1>2, <2>1, WalkKeeps
    <2>3. TypeInv' /\ StampInv' /\ ListingInv' /\ ManifestInv'
      BY <1>2, <2>1 DEF EInv, TypeInv, StampInv, Stamped, ListingInv, ManifestInv
    <2> QED
      BY <2>2, <2>3 DEF EInv
  <1> QED
    BY InitEInv, <1>1, <1>2, PTL DEF Spec

\* The bucket, the Lists to be listed and what is on record have their types, a walk
\* counts no more prefixes than it may, and a listing is of a List that is pending
\* (discover_namespaces, build_list_snapshot).
THEOREM TypeCorrect == Spec => []TypeOK
  <1>1. ASSUME EInv
        PROVE  TypeOK
    <2>1. walk.on => walk.found \subseteq walk.visited /\ Cardinality(walk.visited) <= MaxPrefixes
      BY <1>1 DEF EInv, WalkInv, FoundInv
    <2>2. /\ bucket \in [Key -> 0..MaxChanges] /\ changes \in 0..MaxChanges
          /\ unreadable \subseteq 1..MaxChanges /\ closed \subseteq Lists
          /\ pending \subseteq Lists /\ (listing.on => listing.list \in pending)
          /\ known \in [Lists -> [EpisodeName ->
               [raw : SUBSET (Key \X (1..MaxChanges)), processed : SUBSET (Key \X (1..MaxChanges)),
                manifest : 0..MaxChanges]]]
      BY <1>1 DEF EInv, TypeInv, Record, Stamp
    <2> QED
      BY <2>1, <2>2 DEF TypeOK
  <1> QED
    BY Invariance, <1>1, PTL

\* A walk that ends has found every List within reach that had an episode all along,
\* and nothing else but Lists that had one meanwhile: however the bucket changes under
\* it, for every depth and number of prefixes allowed (discover_namespaces).
THEOREM WalkFindsAll == Spec => []FindsWhatStays
  <1>1. ASSUME EInv, WalkDone
        PROVE  /\ \A l \in Lists : Stays(l) => l \in walk.found
               /\ \A l \in walk.found : \E o \in since : InEpisode(l, o[1])
    BY <1>1 DEF EInv, WalkInv, FoundInv, WalkDone, Ahead
  <1>2. EInv => FindsWhatStays
    BY <1>1 DEF FindsWhatStays, Stays
  <1> QED
    BY Invariance, <1>2, PTL

\* The snapshot of a List has all that stayed, and only what was there, whatever is
\* uploaded or deleted while its pages come (build_list_snapshot).
THEOREM SnapshotsAreWhole == Spec => []SnapshotIsWhole
  <1>1. ASSUME EInv, Listed
        PROVE  /\ {o \in kept : InEpisode(listing.list, o[1])} \subseteq listing.got
               /\ listing.got \subseteq since
    <2>1. listing.on /\ listing.next > Len(Order) /\ listing.next \in 1..(Len(Order) + 1)
      BY <1>1, OnTypes DEF Listed
    <2>2. ASSUME NEW o \in kept, InEpisode(listing.list, o[1])
          PROVE  o \in listing.got
      <3>1. o[1] \in Key
        BY <1>1 DEF EInv, StampInv, Stamped
      <3>2. PICK i \in 1..Len(Order) : o[1] = Order[i]
        BY <3>1 DEF Key
      <3>3. i < listing.next
        BY <2>1, <3>2, KeyTypes
      <3> QED
        BY <1>1, <2>1, <2>2, <3>2, <3>3 DEF EInv, ListingInv
    <2> QED
      BY <1>1, <2>1, <2>2 DEF EInv, ListingInv
  <1> QED
    BY Invariance, <1>1, PTL DEF SnapshotIsWhole

\* An episode whose fingerprint on record is that of the bucket has its present manifest
\* on record, although a manifest is only read when a fingerprint changed and some time
\* after it was listed (build_list_snapshot).
THEOREM ManifestOnRecord == Spec => []UnchangedHasItsManifest
  <1>1. ASSUME EInv, NEW l \in Lists, NEW e \in EpisodeName,
               known[l][e].processed = Of(Stamped(bucket), l, e, "processed"),
               NEW k \in There, IsManifest(l, k), EpisodeOf(l, k) = e
        PROVE  known[l][e].manifest = bucket[k]
    <2>1. <<k, bucket[k]>> \in Of(Stamped(bucket), l, e, "processed")
      BY <1>1 DEF There, Stamped, Of, IsManifest
    <2> QED
      BY <1>1, <2>1 DEF EInv, ManifestInv, There
  <1>2. EInv => UnchangedHasItsManifest
    BY <1>1 DEF UnchangedHasItsManifest, ManifestNow
  <1> QED
    BY Invariance, <1>2, PTL
=============================================================================
