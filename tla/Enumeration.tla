------------------------------ MODULE Enumeration ------------------------------
(***************************************************************************)
(* One scan of a bucket after the other: the walk that finds the Lists, and *)
(* the snapshot of each List that is found or known, while uploads change   *)
(* the bucket.  Every request to the object store sees the bucket as it is  *)
(* then, and the recursive listing of a List comes object by object.        *)
(*                                                                          *)
(* A prefix and an object key are sequences of path segments.  An object's  *)
(* stamp stands for etag, size and time of modification, of which no two    *)
(* uploads agree.  The fingerprint of a scope is a digest of the stamped    *)
(* keys in it and is modelled by their set.  A List is listed as a whole, as  *)
(* the shards of an expansion are.  Which worker does it, and what follows   *)
(* from an absence, are ScanQueue's and SourcePresence's subjects; how a     *)
(* batch comes by a verdict is QcReview's.                                  *)
(*                                                                          *)
(* An attempt at a List fails if a manifest it has to read is gone or holds  *)
(* no JSON mapping, if its publication is refused, or if a request fails for *)
(* reasons of its own.  The shard is tried again until its attempts are used *)
(* up; the next scan tries the List anew.                                   *)
(***************************************************************************)
EXTENDS Naturals, FiniteSets, Sequences

CONSTANTS
  Segment,      \* the segments of paths
  Order,        \* the object keys that may be there, in their lexicographic order
  EpisodeName,  \* the names that EPISODE_PATTERN matches
  Manifest,     \* the name of an object of role manifest
  MaxDepth,     \* max_depth
  MaxPrefixes,  \* max_prefixes
  MaxChanges    \* bound: uploads, deletions, verdicts on batches and their resets

Path == Seq(Segment)  \* keys and prefixes, segment by segment
Key == {Order[i] : i \in 1..Len(Order)}
Scope == {"raw", "processed"}

ASSUME EnumerationAssumption ==
  /\ Order \in Seq(Path) /\ \A i, j \in 1..Len(Order) : Order[i] = Order[j] => i = j
  /\ EpisodeName \cup Scope \subseteq Segment /\ Manifest \in Segment
  /\ MaxDepth \in Nat /\ MaxPrefixes \in Nat /\ MaxChanges \in Nat

VARIABLES
  bucket,   \* the stamp of every object, 0 if there is none
  changes,  \* uploads, deletions, verdicts and resets so far
  unreadable, \* the stamps of manifests that hold no JSON mapping
  closed,   \* the Lists whose batch has a verdict: it takes no new episode
  walk,     \* the walk in progress
  pending,  \* the List prefixes this scan has still to list
  listing,  \* the snapshot in progress
  known,    \* what was published of each episode: its fingerprints and its manifest
  kept,     \* the stamped keys that were there all along since the walk or listing began
  since     \* those that were there at some time since then

world == <<bucket, changes, unreadable, closed>>
vars == <<world, walk, pending, listing, known, kept, since>>

Stamped(b) == {<<k, b[k]>> : k \in {k \in Key : b[k] # 0}}
There == {k \in Key : bucket[k] # 0}

Under(prefix, key) == Len(key) > Len(prefix) /\ SubSeq(key, 1, Len(prefix)) = prefix

\* The prefixes one level below, from one non-recursive listing.
DirectPrefixes(prefix) ==
  {SubSeq(k, 1, Len(prefix) + 1) :
     k \in {k \in There : Under(prefix, k) /\ Len(k) > Len(prefix) + 1}}

EpisodePrefixes(prefix) ==
  {c \in DirectPrefixes(prefix) : c[Len(c)] \in EpisodeName}

\* Where an object of a List belongs; the other objects are passed over.
InEpisode(list, key) ==
  /\ Under(list, key) /\ Len(key) >= Len(list) + 3
  /\ key[Len(list) + 1] \in Scope /\ key[Len(list) + 2] \in EpisodeName
EpisodeOf(list, key) == key[Len(list) + 2]
ScopeOf(list, key) == key[Len(list) + 1]
IsManifest(list, key) ==
  /\ InEpisode(list, key) /\ ScopeOf(list, key) = "processed"
  /\ Len(key) = Len(list) + 3 /\ key[Len(key)] = Manifest

Lists == {l \in UNION {{SubSeq(k, 1, n) : n \in 0..Len(k)} : k \in Key} :
            \E k \in Key : InEpisode(l, k)}
Unknown == [raw |-> {}, processed |-> {}, manifest |-> 0]
NoWalk == [on |-> FALSE]
NoListing == [on |-> FALSE]

Init ==
  /\ bucket = [k \in Key |-> 0] /\ changes = 0
  /\ unreadable = {} /\ closed = {}
  /\ walk = NoWalk /\ pending = {} /\ listing = NoListing
  /\ known = [l \in Lists |-> [e \in EpisodeName |-> Unknown]]
  /\ kept = {} /\ since = {}

-----------------------------------------------------------------------------
(* Uploads, and the verdicts on batches.                                    *)

Change(k, stamp) ==
  /\ changes < MaxChanges
  /\ bucket' = [bucket EXCEPT ![k] = stamp]
  /\ changes' = changes + 1
  /\ kept' = kept \cap Stamped(bucket') /\ since' = since \cup Stamped(bucket')
  /\ UNCHANGED <<closed, walk, pending, listing, known>>

\* What is uploaded as a manifest may be no JSON mapping.
Put(k) ==
  /\ Change(k, changes + 1)
  /\ \/ unreadable' = unreadable
     \/ (\E l \in Lists : IsManifest(l, k)) /\ unreadable' = unreadable \cup {changes + 1}
Delete(k) == bucket[k] # 0 /\ Change(k, 0) /\ UNCHANGED unreadable

\* A List is on record once an episode of it is.
HasEpisodes(l) == \E e \in EpisodeName : known[l][e] # Unknown

\* A batch on record gets a verdict, or loses it.
Decide(l) ==
  /\ HasEpisodes(l) /\ changes < MaxChanges
  /\ changes' = changes + 1
  /\ closed' = IF l \in closed THEN closed \ {l} ELSE closed \cup {l}
  /\ UNCHANGED <<bucket, unreadable, walk, pending, listing, known, kept, since>>

\* The history variables start anew with every walk and every listing.
Watch == kept' = Stamped(bucket) /\ since' = Stamped(bucket)
Unwatched == UNCHANGED <<kept, since>>

-----------------------------------------------------------------------------
(* The walk.                                                                *)

Nowhere == [prefix |-> <<>>, children |-> {}, left |-> {}, has |-> {}]

StartWalk ==
  /\ ~walk.on /\ pending = {} /\ ~listing.on
  /\ walk' = [on |-> TRUE, queue |-> {<<>>}, visited |-> {}, found |-> {}, at |-> Nowhere]
  /\ Watch
  /\ UNCHANGED <<world, pending, listing, known>>

\* Seeded defect: the children of a List are not looked at.
BeyondStopping(at) == IF at.has # {} THEN {} ELSE {c \in at.children : c[Len(c)] \notin Scope}

\* What is below raw and processed is no List.
Beyond(at) == {c \in at.children : c[Len(c)] \notin Scope}

\* The prefix is done: it is a candidate if one of its scopes has an episode.
Visited(at) ==
  [walk EXCEPT !.at = Nowhere,
               !.queue = (@ \cup Beyond(at)),
               !.found = IF at.has # {} THEN @ \cup {at.prefix} ELSE @]

\* Seeded defect: the prefix at hand is not counted.
WithinLate(prefix) == Cardinality(walk.visited) <= MaxPrefixes

Within(prefix) == Cardinality(walk.visited \cup {prefix}) <= MaxPrefixes

\* A prefix is taken from the queue, whose order is left open, and listed.
Visit(prefix) ==
  LET children == DirectPrefixes(prefix)
      at == [prefix |-> prefix, children |-> children, has |-> {},
             left |-> {s \in Scope : prefix \o <<s>> \in children}]
      taken == [walk EXCEPT !.queue = @ \ {prefix}, !.visited = @ \cup {prefix}]
  IN
  /\ walk.on /\ walk.at.left = {} /\ prefix \in walk.queue
  /\ Within(prefix)
  /\ walk' = IF Len(prefix) > MaxDepth \/ prefix \in walk.visited THEN taken
             ELSE IF at.left = {} THEN [taken EXCEPT !.queue = @ \cup Beyond(at)]
             ELSE [taken EXCEPT !.at = at]
  /\ Unwatched
  /\ UNCHANGED <<world, pending, listing, known>>

\* raw is listed before processed, each by a request of its own.
ListScope(s) ==
  LET at == [walk.at EXCEPT !.left = @ \ {s},
                            !.has = IF EpisodePrefixes(walk.at.prefix \o <<s>>) # {}
                                    THEN @ \cup {s} ELSE @]
  IN
  /\ walk.on /\ s \in walk.at.left
  /\ s = "processed" => "raw" \notin walk.at.left
  /\ walk' = IF at.left = {} THEN Visited(at) ELSE [walk EXCEPT !.at = at]
  /\ Unwatched
  /\ UNCHANGED <<world, pending, listing, known>>

\* The discovery fails, and nothing is concluded from it.
WalkFails ==
  /\ walk' = NoWalk
  /\ Unwatched
  /\ UNCHANGED <<world, pending, listing, known>>

\* There are too many prefixes.
Overflows ==
  /\ walk.on /\ walk.at.left = {}
  /\ \E prefix \in walk.queue : ~Within(prefix)
WalkOverflows == Overflows /\ WalkFails

\* The Lists that were found and those on record are to be listed.
WalkEnds ==
  /\ walk.on /\ walk.at.left = {} /\ walk.queue = {}
  /\ pending' = walk.found \cup {l \in Lists : HasEpisodes(l)}
  /\ walk' = NoWalk
  /\ Unwatched
  /\ UNCHANGED <<world, listing, known>>

-----------------------------------------------------------------------------
(* The snapshot of a List.                                                  *)

BeginList(l) ==
  /\ ~walk.on /\ ~listing.on /\ l \in pending
  /\ listing' = [on |-> TRUE, list |-> l, next |-> 1, got |-> {}, read |-> {}]
  /\ Watch
  /\ UNCHANGED <<world, walk, pending, known>>

\* Seeded defect: an object of a manifest's name is left to the manifest's reader.
TakenButManifest(k) ==
  IF bucket[k] # 0 /\ InEpisode(listing.list, k) /\ ~IsManifest(listing.list, k)
  THEN {<<k, bucket[k]>>} ELSE {}

\* What the listing takes of a key: its object, if it is there and an episode's.
Taken(k) ==
  IF bucket[k] # 0 /\ InEpisode(listing.list, k) THEN {<<k, bucket[k]>>} ELSE {}

\* The next object of the recursive listing.
ListNext ==
  /\ listing.on /\ listing.next <= Len(Order)
  /\ listing' = [listing EXCEPT !.next = @ + 1, !.got = @ \cup Taken(Order[listing.next])]
  /\ Unwatched
  /\ UNCHANGED <<world, walk, pending, known>>

Of(stamped, l, e, s) ==
  {o \in stamped : InEpisode(l, o[1]) /\ EpisodeOf(l, o[1]) = e /\ ScopeOf(l, o[1]) = s}

Fingerprint(stamped, l, e, s) == Of(stamped, l, e, s)

Seen(e) == \E s \in Scope : Of(listing.got, listing.list, e, s) # {}

\* Seeded defect: only what is new is read again.
ChangedIfRaw(e) ==
  Fingerprint(listing.got, listing.list, e, "raw") # known[listing.list][e].raw

Changed(e) ==
  \E s \in Scope :
    Fingerprint(listing.got, listing.list, e, s) # known[listing.list][e][s]

\* The manifests to read: those of the episodes that changed, read one by one.
ToRead ==
  {o[1] : o \in {o \in listing.got :
     IsManifest(listing.list, o[1]) /\ Changed(EpisodeOf(listing.list, o[1]))}}

Listed == listing.on /\ listing.next > Len(Order)
Unread == ToRead \ {o[1] : o \in listing.read}

Readable(k) == bucket[k] # 0 /\ bucket[k] \notin unreadable

ReadManifest(k) ==
  /\ Listed /\ k \in Unread /\ Readable(k)
  /\ listing' = [listing EXCEPT !.read = @ \cup {<<k, bucket[k]>>}]
  /\ Unwatched
  /\ UNCHANGED <<world, walk, pending, known>>

\* The attempt is over and nothing is published: the shard is tried again, or is
\* given up after its last attempt.
AttemptFails ==
  /\ listing' = NoListing
  /\ pending' \in {pending, pending \ {listing.list}}
  /\ Unwatched
  /\ UNCHANGED <<world, walk, known>>

\* A manifest that is gone, or is no JSON mapping, fails the snapshot of its List.
ReadFails(k) ==
  /\ Listed /\ k \in Unread /\ ~Readable(k)
  /\ AttemptFails

ManifestRead(e) ==
  {o \in listing.read : EpisodeOf(listing.list, o[1]) = e}

\* What the publication records of an episode.
Recorded(e) ==
  IF ~Seen(e) THEN known[listing.list][e]
  ELSE [raw |-> Fingerprint(listing.got, listing.list, e, "raw"),
        processed |-> Fingerprint(listing.got, listing.list, e, "processed"),
        manifest |-> IF ManifestRead(e) = {} THEN known[listing.list][e].manifest
                     ELSE (CHOOSE o \in ManifestRead(e) : TRUE)[2]]

NewEpisode(e) == Seen(e) /\ known[listing.list][e] = Unknown


\* A List that is not on record is not made one by an empty snapshot, and a batch
\* with a verdict takes no new episode.
Refused ==
  \/ ~HasEpisodes(listing.list) /\ \A e \in EpisodeName : ~Seen(e)
  \/ listing.list \in closed /\ \E e \in EpisodeName : NewEpisode(e)

\* An episode that the snapshot does not have keeps what is on record of it.
Publish ==
  /\ Listed /\ Unread = {} /\ ~Refused
  /\ known' = [known EXCEPT ![listing.list] = [e \in EpisodeName |-> Recorded(e)]]
  /\ pending' = pending \ {listing.list}
  /\ listing' = NoListing
  /\ Unwatched
  /\ UNCHANGED <<world, walk>>

\* The publication of the whole List is rolled back.
PublishFails ==
  /\ Listed /\ Unread = {} /\ Refused
  /\ AttemptFails

\* Whatever the requests do, this attempt fails.
Doomed ==
  \/ Overflows
  \/ Listed /\ IF Unread = {} THEN Refused ELSE \E k \in Unread : ~Readable(k)

\* A request to the object store or the database fails, or the worker dies, in an
\* attempt that might have succeeded.
RequestFails ==
  /\ ~Doomed
  /\ \/ listing.on /\ AttemptFails
     \/ walk.on /\ WalkFails

Next ==
  \/ \E k \in Key : Put(k) \/ Delete(k) \/ ReadManifest(k) \/ ReadFails(k)
  \/ \E l \in Lists : Decide(l) \/ BeginList(l)
  \/ StartWalk \/ WalkOverflows \/ WalkEnds
  \/ walk.on /\ \E prefix \in walk.queue : Visit(prefix)
  \/ \E s \in Scope : ListScope(s)
  \/ ListNext \/ Publish \/ PublishFails \/ RequestFails

Spec == Init /\ [][Next]_vars

\* The schedule starts one scan after the other, and a scan that runs goes on.
Scanning ==
  \/ StartWalk \/ WalkOverflows \/ WalkEnds \/ ListNext \/ Publish \/ PublishFails
  \/ walk.on /\ \E prefix \in walk.queue : Visit(prefix)
  \/ \E s \in Scope : ListScope(s)
  \/ \E l \in Lists : BeginList(l)
  \/ \E k \in Key : ReadManifest(k) \/ ReadFails(k)

\* A shard has a number of attempts: one that fails and fails is given up.
GivesUp ==
  /\ PublishFails \/ \E k \in Key : ReadFails(k)
  /\ listing.list \notin pending'

FairSpec == Spec /\ WF_vars(Scanning) /\ SF_vars(GivesUp)

-----------------------------------------------------------------------------
TypeOK ==
  /\ bucket \in [Key -> 0..MaxChanges] /\ changes \in 0..MaxChanges
  /\ unreadable \subseteq 1..MaxChanges /\ closed \subseteq Lists
  /\ pending \subseteq Lists
  /\ known \in [Lists -> [EpisodeName ->
       [raw : SUBSET (Key \X (1..MaxChanges)), processed : SUBSET (Key \X (1..MaxChanges)),
        manifest : 0..MaxChanges]]]
  /\ walk.on => walk.found \subseteq walk.visited /\ Cardinality(walk.visited) <= MaxPrefixes
  /\ listing.on => listing.list \in pending

\* A List is within reach of the walk if it is not too deep and not inside a scope.
InReach(l) == Len(l) <= MaxDepth /\ \A i \in 1..Len(l) : l[i] \notin Scope

WalkDone == walk.on /\ walk.at.left = {} /\ walk.queue = {}

\* A List that had an episode from the beginning of the walk to its end is found,
\* whatever is uploaded or deleted meanwhile, and however deep it is nested in
\* other Lists; and whatever is found had an episode at some time of the walk
\* (discover_namespaces).
FindsWhatStays ==
  WalkDone =>
    /\ \A l \in Lists : InReach(l) /\ (\E o \in kept : InEpisode(l, o[1])) => l \in walk.found
    /\ \A l \in walk.found : \E o \in since : InEpisode(l, o[1])

\* A snapshot has every object that stayed as it was while the List was listed, and
\* only objects that were there (build_list_snapshot).
SnapshotIsWhole ==
  Listed => /\ {o \in kept : InEpisode(listing.list, o[1])} \subseteq listing.got
            /\ listing.got \subseteq since

ManifestNow(l, e) ==
  {bucket[k] : k \in {k \in There : IsManifest(l, k) /\ EpisodeOf(l, k) = e}}

\* A manifest is read after its stamp was listed, and only if a fingerprint changed:
\* still an episode that looks unchanged to the next scan has its present manifest
\* on record, although nothing ever reads it again (build_list_snapshot).
UnchangedHasItsManifest ==
  \A l \in Lists, e \in EpisodeName :
    known[l][e].processed = Of(Stamped(bucket), l, e, "processed")
      => ManifestNow(l, e) \subseteq {known[l][e].manifest}

AllPrefixes ==
  {<<>>} \cup UNION {{SubSeq(k, 1, n) : n \in 1..(Len(k) - 1)} : k \in There}
TooMany ==
  Cardinality({p \in AllPrefixes : Len(p) <= MaxDepth + 1 /\ \A i \in 1..Len(p) : p[i] \notin Scope})
    > MaxPrefixes

\* What keeps a List from the record however often it is scanned.
Spoilt(l) == \E k \in There : IsManifest(l, k) /\ bucket[k] \in unreadable
Barred(l) ==
  l \in closed /\ \E k \in There : InEpisode(l, k) /\ known[l][EpisodeOf(l, k)] = Unknown

InStep(l) ==
  \A e \in EpisodeName :
    (\E k \in There : InEpisode(l, k) /\ EpisodeOf(l, k) = e) =>
      \A s \in Scope : known[l][e][s] = Of(Stamped(bucket), l, e, s)

=============================================================================
