--------------------------- MODULE AssistantProofs ---------------------------
(***************************************************************************)
(* Proofs about the assistant's conversations, for any requests, topics,    *)
(* conversations and number of messages kept: types are correct, and trims  *)
(* that overlap, work on an old cut or see messages appear out of order     *)
(* keep the newest messages and nothing beyond them for long.               *)
(***************************************************************************)
EXTENDS Assistant, Counting, TLAPS

\* A request that has not begun holds no conversation; one that has knows its topic,
\* and past the opening it holds a conversation.
StageInv ==
  \A r \in Request :
    /\ request[r].pc = "idle" => request[r].conv = NoConversation
    /\ request[r].pc # "idle" => request[r].topic \in Topic
    /\ request[r].pc \notin {"idle", "opening", "ended"} => request[r].conv \in Conversation

\* Only finitely many requests have begun and messages been written.
FiniteInv ==
  /\ IsFiniteSet({r \in Request : request[r].pc # "idle"})
  /\ IsFiniteSet(written)

\* Every message has a time of its own, also one whose transaction is still open.
Inserting == {r \in Request : request[r].pc = "inserting"}

TimeInv ==
  /\ \A m \in written : m.at <= clock
  /\ \A m, n \in written : m.at = n.at => m = n
  /\ \A r \in Inserting : request[r].at <= clock
  /\ \A r \in Inserting : \A m \in written : m.at # request[r].at
  /\ \A r, q \in Inserting : request[r].at = request[q].at => r = q

\* The messages of c that a trim with the cut at keeps.
From(c, at, rows) == {m \in In(c, rows) : m.at >= at}

\* The cut of a trim under way leaves at least MaxMessages of all that was written.
CutInv ==
  \A r \in Request : request[r].pc = "trimming" =>
    Cardinality(From(request[r].conv, request[r].at, written)) >= MaxMessages

NewestInv ==
  \A m \in written : Cardinality(Later(m, written)) < MaxMessages => m \in message

\* The requests whose delete on c is next, and what deletes of R together would leave.
Cutting(c) == {r \in Request : request[r].pc = "trimming" /\ request[r].conv = c}

Surviving(c, R) == {m \in In(c, message) : \A r \in R : m.at >= request[r].at}

\* Whichever deletes come first, what they leave exceeds MaxMessages by no more than one
\* message for each of the others.
SizeInv ==
  \A c \in Conversation : \A R \in SUBSET Cutting(c) :
    Cardinality(Surviving(c, R)) <= MaxMessages + Cardinality(Untrimmed(c) \ R)

IInv ==
  /\ TypeOK
  /\ StageInv
  /\ FiniteInv
  /\ TimeInv
  /\ CutInv
  /\ NewestInv
  /\ SizeInv
-----------------------------------------------------------------------------
(***************************************************************************)
(* Counting.                                                               *)
(***************************************************************************)

\* Among finitely many rows one is the oldest.
LEMMA Oldest ==
  ASSUME NEW S, \A m \in S : m.at \in Nat, S # {}
  PROVE  \E m \in S : \A n \in S : m.at <= n.at
<1> DEFINE Times == {m.at : m \in S}
<1>1. Times \subseteq Nat /\ Times # {}
  OBVIOUS
<1>2. PICK x \in Times : \A y \in Times : x <= y
  <2> HIDE DEF Times
  <2> QED BY <1>1, LeastNumber
<1> QED BY <1>2

\* ORDER BY at DESC OFFSET k - 1: among at least k rows with times of their own there is
\* one with exactly k - 1 later ones.
LEMMA RankExists ==
  ASSUME NEW S, IsFiniteSet(S), \A m \in S : m.at \in Nat,
         \A m, n \in S : m.at = n.at => m = n,
         NEW k \in Nat \ {0}, k <= Cardinality(S)
  PROVE  \E m \in S : Cardinality({n \in S : n.at > m.at}) = k - 1
<1> DEFINE After(m) == {n \in S : n.at > m.at}
           Rank(m) == Cardinality(After(m))
           Good == {m \in S : Rank(m) >= k - 1}
           Ranks == {Rank(m) : m \in Good}
<1>1. ASSUME NEW m \in S PROVE IsFiniteSet(After(m)) /\ Rank(m) \in Nat
  <2>1. After(m) \subseteq S
    OBVIOUS
  <2> HIDE DEF After
  <2> QED BY <2>1, PartIsSmaller
<1>2. ASSUME NEW T, T \subseteq S, T # {}
      PROVE  \E m \in T : /\ {n \in T : n.at > m.at} = T \ {m}
                         /\ \A n \in T \ {m} : n.at > m.at
  <2>1. PICK m \in T : \A n \in T : m.at <= n.at
    BY <1>2, Oldest
  <2>2. \A n \in T : n # m => n.at # m.at
    BY <1>2
  <2>3. \A n \in T : n.at \in Nat
    BY <1>2
  <2> QED BY <2>1, <2>2, <2>3
<1>3. Good # {}
  <2>1. S # {}
    BY FS_EmptySet
  <2>2. PICK m \in S : After(m) = S \ {m}
    BY <1>2, <2>1
  <2>3. Rank(m) = Cardinality(S) - 1
    <3> HIDE DEF After
    <3> QED BY <2>2, FS_RemoveElement
  <2>4. Cardinality(S) \in Nat
    BY FS_CardinalityType
  <2> QED BY <2>3, <2>4
<1>4. Ranks \subseteq Nat /\ Ranks # {}
  <2>1. Good \subseteq S
    OBVIOUS
  <2>2. \A m \in Good : Rank(m) \in Nat
    <3> HIDE DEF Rank, Good
    <3> QED BY <1>1, <2>1
  <2> HIDE DEF Rank, Good
  <2> QED BY <1>3, <2>2
<1>5. PICK least \in Ranks : \A x \in Ranks : least <= x
  <2> HIDE DEF Ranks
  <2> QED BY <1>4, LeastNumber
<1>6. PICK m \in Good : least = Rank(m)
  OBVIOUS
<1>7. CASE Rank(m) = k - 1
  BY <1>7
<1>8. CASE Rank(m) # k - 1
  <2>1. Rank(m) \in Nat /\ Rank(m) >= k
    BY <1>1, <1>6, <1>8
  <2>2. After(m) # {}
    <3> HIDE DEF After
    <3> QED BY <2>1, FS_EmptySet
  <2>3. PICK n \in After(m) : {o \in After(m) : o.at > n.at} = After(m) \ {n}
    <3>1. After(m) \subseteq S
      OBVIOUS
    <3> HIDE DEF After
    <3> QED BY <1>2, <2>2, <3>1
  <2>4. After(n) = After(m) \ {n}
    BY <2>3
  <2>5. Rank(n) = Rank(m) - 1
    <3>1. n \in After(m) /\ IsFiniteSet(After(m))
      BY <1>1
    <3> HIDE DEF After
    <3>2. Cardinality(After(m) \ {n}) = Cardinality(After(m)) - 1
      BY <3>1, FS_RemoveElement
    <3> QED BY <2>4, <3>2
  <2>6. n \in Good
    BY <2>1, <2>5
  <2>7. Rank(m) <= Rank(n)
    <3>1. Rank(n) \in Ranks
      BY <2>6
    <3> HIDE DEF Rank, Ranks
    <3> QED BY <1>5, <1>6, <3>1
  <2> QED BY <2>1, <2>5, <2>7
<1> QED BY <1>7, <1>8
-----------------------------------------------------------------------------
(***************************************************************************)
(* Types, stages and times.                                                *)
(***************************************************************************)

Step(r) ==
  \/ \E kind \in {"open", "chat"}, t \in Topic : Look(r, kind, t)
  \/ Resume(r) \/ Create(r)
  \/ Insert(r) \/ CommitMessage(r) \/ Count(r) \/ Cut(r) \/ Trim(r)
  \/ Answer(r)
  \/ Lost(r)

LEMMA NextIsStep == Next => \E r \in Request : Step(r)
  BY DEF Next, Step

\* A request that goes on keeps all it holds.
LEMMA GoesTo ==
  ASSUME request \in [Request -> RequestState], NEW r \in Request,
         NEW pc \in Asking, Goes(r, pc)
  PROVE  /\ request' \in [Request -> RequestState]
         /\ request'[r] = [pc |-> pc, kind |-> request[r].kind, topic |-> request[r].topic,
                           conv |-> request[r].conv, role |-> request[r].role, at |-> request[r].at]
         /\ \A q \in Request \ {r} : request'[q] = request[q]
<1>1. request[r] \in RequestState
  OBVIOUS
<1> DEFINE gone == [request[r] EXCEPT !.pc = pc]
<1>2. gone = [pc |-> pc, kind |-> request[r].kind, topic |-> request[r].topic,
              conv |-> request[r].conv, role |-> request[r].role, at |-> request[r].at]
  BY <1>1 DEF RequestState
<1>3. gone \in RequestState
  BY <1>1, <1>2 DEF RequestState
<1>4. request' = [request EXCEPT ![r] = gone]
  BY DEF Goes
<1> HIDE DEF gone
<1> QED BY <1>2, <1>3, <1>4

\* A step of r leaves the other requests alone, and its kind and topic once it has begun.
LEMMA RequestStep ==
  ASSUME TypeOK, StageInv, NEW r \in Request, Step(r)
  PROVE  /\ request' \in [Request -> RequestState]
         /\ \A q \in Request \ {r} : request'[q] = request[q]
         /\ request'[r].pc # "idle"
         /\ request'[r].topic \in Topic
         /\ request[r].pc # "idle" => request'[r].topic = request[r].topic
         /\ request[r].conv # NoConversation => request'[r].conv = request[r].conv
         /\ request'[r].pc \notin {"opening", "ended"} => request'[r].conv \in Conversation
<1>0. /\ request \in [Request -> RequestState]
      /\ request[r] \in RequestState
      /\ request[r].pc \in Asking
      /\ request[r].pc = "idle" => request[r].conv = NoConversation
      /\ request[r].pc # "idle" => request[r].topic \in Topic
      /\ request[r].pc \notin {"idle", "opening", "ended"} => request[r].conv \in Conversation
      /\ request[r].conv \in Conversation \cup {NoConversation}
  BY DEF TypeOK, StageInv, RequestState
<1>1. ASSUME NEW pc \in Asking, Goes(r, pc), request[r].pc # "idle", pc # "idle",
             pc \notin {"opening", "ended"} => request[r].conv \in Conversation
      PROVE  /\ request' \in [Request -> RequestState]
             /\ \A q \in Request \ {r} : request'[q] = request[q]
             /\ request'[r].pc # "idle"
             /\ request'[r].topic \in Topic
             /\ request'[r].topic = request[r].topic
             /\ request'[r].conv = request[r].conv
             /\ request'[r].pc \notin {"opening", "ended"} => request'[r].conv \in Conversation
  <2> DEFINE gone == [pc |-> pc, kind |-> request[r].kind, topic |-> request[r].topic,
                      conv |-> request[r].conv, role |-> request[r].role, at |-> request[r].at]
  <2>1. /\ request' \in [Request -> RequestState]
        /\ request'[r] = gone
        /\ \A q \in Request \ {r} : request'[q] = request[q]
    BY <1>0, <1>1, GoesTo
  <2>2. gone.pc = pc /\ gone.topic = request[r].topic /\ gone.conv = request[r].conv
    OBVIOUS
  <2> HIDE DEF gone
  <2> QED BY <1>0, <1>1, <2>1, <2>2
<1>2. CASE \E kind \in {"open", "chat"}, t \in Topic : Look(r, kind, t)
  <2>1. PICK kind \in {"open", "chat"}, t \in Topic : Look(r, kind, t)
    BY <1>2
  <2>2. Latest(t) \subseteq Conversation
    BY DEF Latest, Active
  <2>3. PICK c \in Conversation \cup {NoConversation} :
          request' = [request EXCEPT ![r] =
                        [@ EXCEPT !.pc = "opening", !.kind = kind, !.topic = t, !.conv = c]]
    BY <2>1, <2>2 DEF Look
  <2> DEFINE opened == [pc |-> "opening", kind |-> kind, topic |-> t, conv |-> c,
                        role |-> request[r].role, at |-> request[r].at]
  <2>4. opened = [request[r] EXCEPT !.pc = "opening", !.kind = kind, !.topic = t, !.conv = c]
    <3> DEFINE row(pc, k, u) == [pc |-> pc, kind |-> k, topic |-> u, conv |-> request[r].conv,
                                 role |-> request[r].role, at |-> request[r].at]
    <3>1. [request[r] EXCEPT !.pc = "opening"]
            = row("opening", request[r].kind, request[r].topic)
      BY <1>0 DEF RequestState
    <3>2. [row("opening", request[r].kind, request[r].topic) EXCEPT !.kind = kind]
            = row("opening", kind, request[r].topic)
      OBVIOUS
    <3>3. [row("opening", kind, request[r].topic) EXCEPT !.topic = t] = row("opening", kind, t)
      OBVIOUS
    <3>4. [row("opening", kind, t) EXCEPT !.conv = c] = opened
      OBVIOUS
    <3> HIDE DEF opened, row
    <3> QED BY <3>1, <3>2, <3>3, <3>4
  <2>5. request' = [request EXCEPT ![r] = opened]
    BY <2>3, <2>4
  <2>6. opened \in RequestState
    BY <1>0 DEF RequestState, Asking
  <2>7. request[r].pc = "idle"
    BY <2>1 DEF Look
  <2> QED BY <1>0, <2>5, <2>6, <2>7
<1>3. CASE Resume(r)
  BY <1>0, <1>1, <1>3 DEF Resume, AfterOpening, Asking
<1>4. CASE Create(r)
  <2>1. PICK c \in Conversation :
          request' = [request EXCEPT ![r].conv = c, ![r].pc = AfterOpening(r)]
    BY <1>4 DEF Create, Unused
  <2> DEFINE created == [pc |-> AfterOpening(r), kind |-> request[r].kind,
                         topic |-> request[r].topic, conv |-> c,
                         role |-> request[r].role, at |-> request[r].at]
  <2>2. created = [[request[r] EXCEPT !.conv = c] EXCEPT !.pc = AfterOpening(r)]
    <3>1. [request[r] EXCEPT !.conv = c]
            = [pc |-> request[r].pc, kind |-> request[r].kind, topic |-> request[r].topic,
               conv |-> c, role |-> request[r].role, at |-> request[r].at]
      BY <1>0 DEF RequestState
    <3>2. [[pc |-> request[r].pc, kind |-> request[r].kind, topic |-> request[r].topic,
            conv |-> c, role |-> request[r].role, at |-> request[r].at]
            EXCEPT !.pc = AfterOpening(r)] = created
      OBVIOUS
    <3> QED BY <3>1, <3>2
  <2>3. request' = [request EXCEPT ![r] = created]
    BY <1>0, <2>1, <2>2
  <2>4. created \in RequestState
    BY <1>0 DEF RequestState, Asking, AfterOpening
  <2>5. AfterOpening(r) # "idle"
    BY DEF AfterOpening
  <2>6. request[r].pc = "opening" /\ request[r].conv = NoConversation
    BY <1>4 DEF Create
  <2> QED BY <1>0, <2>3, <2>4, <2>5, <2>6
<1>5. CASE Insert(r)
  BY <1>0, <1>5 DEF Insert, TypeOK, RequestState, Asking
<1>6. CASE CommitMessage(r)
  BY <1>0, <1>1, <1>6 DEF CommitMessage, Asking
<1>7. AfterTrim(r) \in Asking \ {"idle", "opening"}
  BY DEF AfterTrim, Asking
<1>8. CASE Count(r)
  <2>1. PICK pc \in {AfterTrim(r), "cutting"} : Goes(r, pc)
    BY <1>8 DEF Count
  <2>2. pc \in Asking /\ pc # "idle"
    BY <1>7 DEF Asking
  <2> QED BY <1>0, <1>1, <1>8, <2>1, <2>2 DEF Count
<1>9. CASE Cut(r)
  <2>1. CASE OldestKept(request[r].conv) = {}
    BY <1>0, <1>1, <1>7, <1>9, <2>1 DEF Cut
  <2>2. CASE OldestKept(request[r].conv) # {}
    <3>1. PICK m \in OldestKept(request[r].conv) :
            request' = [request EXCEPT ![r].at = m.at, ![r].pc = "trimming"]
      BY <1>9, <2>2 DEF Cut
    <3>2. m.at \in Nat
      BY DEF OldestKept, In, Message, TypeOK
    <3> DEFINE cut == [pc |-> "trimming", kind |-> request[r].kind,
                       topic |-> request[r].topic, conv |-> request[r].conv,
                       role |-> request[r].role, at |-> m.at]
    <3>3. cut = [[request[r] EXCEPT !.at = m.at] EXCEPT !.pc = "trimming"]
      <4>1. [request[r] EXCEPT !.at = m.at]
              = [pc |-> request[r].pc, kind |-> request[r].kind, topic |-> request[r].topic,
                 conv |-> request[r].conv, role |-> request[r].role, at |-> m.at]
        BY <1>0 DEF RequestState
      <4>2. [[pc |-> request[r].pc, kind |-> request[r].kind, topic |-> request[r].topic,
              conv |-> request[r].conv, role |-> request[r].role, at |-> m.at]
              EXCEPT !.pc = "trimming"] = cut
        OBVIOUS
      <4> QED BY <4>1, <4>2
    <3>4. request' = [request EXCEPT ![r] = cut]
      BY <1>0, <3>1, <3>3
    <3>5. cut \in RequestState
      BY <1>0, <3>2 DEF RequestState, Asking
    <3> QED BY <1>0, <1>9, <3>4, <3>5 DEF Cut
  <2> QED BY <2>1, <2>2
<1>10. CASE Trim(r)
  BY <1>0, <1>1, <1>7, <1>10 DEF Trim
<1>11. CASE Answer(r)
  BY <1>0, <1>1, <1>11 DEF Answer, Asking
<1>12. CASE Lost(r)
  <2>1. CASE Trimming(r)
    BY <1>0, <1>1, <1>12, <2>1 DEF Lost, Trimming, Asking
  <2>2. CASE ~ Trimming(r)
    BY <1>0, <1>1, <1>12, <2>2 DEF Lost, Running, Asking
  <2> QED BY <2>1, <2>2
<1> QED BY <1>2, <1>3, <1>4, <1>5, <1>6, <1>8, <1>9, <1>10, <1>11, <1>12 DEF Step

\* A conversation keeps its episode and reviewer, and a request opens one of its own.
LEMMA ConversationStep ==
  ASSUME TypeOK, StageInv, TimeInv, NEW r \in Request, Step(r)
  PROVE  /\ clock' \in Nat
         /\ clock <= clock'
         /\ conversation' \in [Conversation -> [topic : Topic \cup {NoTopic}, used : 0 .. clock']]
         /\ \A c \in Conversation : conversation[c].topic # NoTopic =>
              conversation'[c].topic = conversation[c].topic
         /\ request'[r].conv # NoConversation =>
              conversation'[request'[r].conv].topic = request'[r].topic
<1> DEFINE Row == [topic : Topic \cup {NoTopic}, used : 0 .. clock']
           Owned == request'[r].conv # NoConversation =>
                      conversation'[request'[r].conv].topic = request'[r].topic
<1>0. /\ clock \in Nat
      /\ conversation \in [Conversation -> [topic : Topic \cup {NoTopic}, used : 0 .. clock]]
      /\ request \in [Request -> RequestState]
      /\ request[r].conv \in Conversation \cup {NoConversation}
      /\ request[r].at \in Nat
      /\ request[r].conv # NoConversation => conversation[request[r].conv].topic = request[r].topic
      /\ request[r].pc # "idle" => request[r].topic \in Topic
      /\ request[r].pc = "idle" => request[r].conv = NoConversation
  BY DEF TypeOK, StageInv, RequestState
<1>1. /\ request[r].pc # "idle" => request'[r].topic = request[r].topic
      /\ request[r].conv # NoConversation => request'[r].conv = request[r].conv
  BY RequestStep
<1>2. ASSUME conversation' = conversation, clock' \in {clock, clock + 1}
      PROVE  /\ clock' \in Nat /\ clock <= clock'
             /\ conversation' \in [Conversation -> Row]
  <2>1. clock' \in Nat /\ clock <= clock' /\ 0 .. clock \subseteq 0 .. clock'
    BY <1>0, <1>2
  <2>2. \A c \in Conversation : conversation[c] \in Row
    BY <1>0, <2>1
  <2> QED BY <1>0, <1>2, <2>1, <2>2
<1>3. ASSUME conversation' = conversation, request[r].pc # "idle",
             request[r].conv = NoConversation => request'[r].conv = NoConversation
      PROVE  Owned
  BY <1>0, <1>1, <1>3
<1>4. ASSUME NEW c \in Conversation, clock' \in {clock, clock + 1}, NEW used \in 0 .. clock',
             conversation' = [conversation EXCEPT ![c].used = used]
      PROVE  /\ clock' \in Nat /\ clock <= clock'
             /\ conversation' \in [Conversation -> Row]
             /\ \A d \in Conversation : conversation'[d].topic = conversation[d].topic
  <2>1. clock' \in Nat /\ clock <= clock' /\ 0 .. clock \subseteq 0 .. clock'
    BY <1>0, <1>4
  <2>2. \A d \in Conversation : conversation[d] \in Row
    BY <1>0, <2>1
  <2> QED BY <1>0, <1>4, <2>1, <2>2
<1>5. CASE \E kind \in {"open", "chat"}, t \in Topic : Look(r, kind, t)
  <2>1. PICK kind \in {"open", "chat"}, t \in Topic : Look(r, kind, t)
    BY <1>5
  <2>2. Latest(t) \subseteq Active(t)
    BY DEF Latest
  <2>3. PICK c \in Active(t) \cup {NoConversation} :
          request' = [request EXCEPT ![r] =
                        [@ EXCEPT !.pc = "opening", !.kind = kind, !.topic = t, !.conv = c]]
    BY <2>1, <2>2 DEF Look
  <2>4. request[r] \in RequestState
    BY <1>0
  <2>5. request'[r].topic = t /\ request'[r].conv = c
    BY <1>0, <2>3, <2>4 DEF RequestState
  <2>6. Owned
    BY <1>0, <2>1, <2>3, <2>5 DEF Look, Active
  <2>7. conversation' = conversation /\ clock' = clock
    BY <2>1 DEF Look
  <2> QED BY <1>2, <2>6, <2>7
<1>6. CASE Resume(r)
  <2> DEFINE c == request[r].conv
  <2>1. c \in Conversation /\ clock' = clock + 1 /\ request[r].pc # "idle"
    BY <1>0, <1>6 DEF Resume
  <2>2. conversation' = [conversation EXCEPT ![c].used = clock + 1] /\ clock + 1 \in 0 .. clock'
    BY <1>0, <1>6 DEF Resume
  <2>3. request'[r].conv = c /\ request'[r].topic = request[r].topic
    BY <1>1, <1>6, <2>1 DEF Resume
  <2>4. conversation[c].topic = request[r].topic
    BY <1>0, <1>6 DEF Resume
  <2> HIDE DEF c
  <2> QED BY <1>4, <2>1, <2>2, <2>3, <2>4
<1>7. CASE Create(r)
  <2>1. PICK c \in Unused :
          /\ conversation' = [conversation EXCEPT ![c] = [topic |-> request[r].topic, used |-> clock + 1]]
          /\ request' = [request EXCEPT ![r].conv = c, ![r].pc = AfterOpening(r)]
    BY <1>7 DEF Create
  <2>2. clock' = clock + 1 /\ request[r].pc # "idle"
    BY <1>7 DEF Create
  <2>3. c \in Conversation /\ conversation[c].topic = NoTopic
    BY DEF Unused
  <2>4. request'[r].conv = c
    BY <1>0, <2>1 DEF RequestState
  <2>5. 0 .. clock \subseteq 0 .. clock' /\ clock + 1 \in 0 .. clock'
    BY <1>0, <2>2
  <2>6. \A d \in Conversation : conversation[d] \in Row
    BY <1>0, <2>5
  <2>7. [topic |-> request[r].topic, used |-> clock + 1] \in Row
    BY <1>0, <2>2, <2>5
  <2>8. conversation' \in [Conversation -> Row]
    BY <1>0, <2>1, <2>6, <2>7
  <2>9. conversation'[c].topic = request'[r].topic
    BY <1>0, <1>1, <2>1, <2>2, <2>3
  <2> QED BY <1>0, <2>1, <2>2, <2>3, <2>4, <2>8, <2>9
<1>8. CASE Insert(r)
  BY <1>0, <1>1, <1>2, <1>3, <1>8 DEF Insert, StageInv
<1>9. CASE CommitMessage(r)
  <2> DEFINE c == request[r].conv
  <2>1. c \in Conversation /\ clock' = clock /\ request[r].pc # "idle" /\ c # NoConversation
    BY <1>9, NoneAssumption DEF CommitMessage, StageInv
  <2>2. request[r].at <= clock
    BY <1>9 DEF CommitMessage, TimeInv, Inserting
  <2>3. conversation' = [conversation EXCEPT ![c].used = request[r].at] /\ request[r].at \in 0 .. clock'
    BY <1>0, <1>9, <2>1, <2>2 DEF CommitMessage
  <2>4. request'[r].conv = c /\ request'[r].topic = request[r].topic
    BY <1>1, <2>1
  <2>5. conversation[c].topic = request[r].topic
    BY <1>0, <2>1
  <2> HIDE DEF c
  <2> QED BY <1>4, <2>1, <2>3, <2>4, <2>5
<1>10. CASE Count(r) \/ Cut(r) \/ Trim(r) \/ Answer(r)
  <2>1. /\ conversation' = conversation /\ clock' = clock
        /\ request[r].pc \notin {"idle", "opening", "ended"}
    BY <1>10 DEF Count, Cut, Trim, Answer
  <2>2. request[r].conv # NoConversation
    BY <2>1, NoneAssumption DEF StageInv
  <2> QED BY <1>2, <1>3, <2>1, <2>2
<1>11. CASE Lost(r)
  <2>1. conversation' = conversation /\ clock' = clock /\ request[r].pc # "idle"
    BY <1>11 DEF Lost, Running
  <2>2. request'[r].conv = request[r].conv
    <3>1. CASE Trimming(r)
      <4>1. Goes(r, "untrimmed") /\ "untrimmed" \in Asking
        BY <1>11, <3>1 DEF Lost, Trimming, Asking, Goes
      <4> QED BY <4>1 DEF Goes, TypeOK, RequestState
    <3>2. CASE ~ Trimming(r)
      <4>1. Goes(r, "ended") /\ "ended" \in Asking
        BY <1>11, <3>2 DEF Lost, Trimming, Asking, Goes
      <4> QED BY <4>1 DEF Goes, TypeOK, RequestState
    <3> QED BY <3>1, <3>2
  <2> QED BY <1>2, <1>3, <2>1, <2>2
<1> QED BY <1>5, <1>6, <1>7, <1>8, <1>9, <1>10, <1>11 DEF Step
\* What a step of r does to the messages: one more is committed, or some are deleted.
LEMMA MessageStep ==
  ASSUME TypeOK, StageInv, TimeInv, NEW r \in Request, Step(r)
  PROVE  \/ /\ CommitMessage(r)
            /\ request[r].conv \in Conversation
            /\ \E m \in Message :
                 /\ m.conv = request[r].conv /\ m.at = request[r].at /\ m.by = r
                 /\ message' = message \cup {m} /\ written' = written \cup {m}
         \/ Trim(r) /\ message' \subseteq message /\ written' = written
         \/ /\ ~ CommitMessage(r) /\ ~ Trim(r)
            /\ message' = message /\ written' = written
<1>1. CASE CommitMessage(r)
  <2> DEFINE m == [conv |-> request[r].conv, at |-> request[r].at, by |-> r,
                   role |-> request[r].role]
  <2>1. request[r].conv \in Conversation
    BY <1>1 DEF CommitMessage, StageInv
  <2>2. m \in Message
    BY <2>1 DEF TypeOK, RequestState, Message
  <2>3. message' = message \cup {m} /\ written' = written \cup {m}
    BY <1>1 DEF CommitMessage
  <2>4. m.conv = request[r].conv /\ m.at = request[r].at /\ m.by = r
    OBVIOUS
  <2> HIDE DEF m
  <2> QED BY <1>1, <2>1, <2>2, <2>3, <2>4
<1>2. CASE Trim(r)
  BY <1>2 DEF Trim
<1>3. CASE ~ CommitMessage(r) /\ ~ Trim(r)
  BY <1>3 DEF Step, Look, Resume, Create, Insert, Count, Cut, Answer, Lost
<1> QED BY <1>1, <1>2, <1>3

LEMMA TypeStep ==
  ASSUME TypeOK, StageInv, TimeInv, NEW r \in Request, Step(r)
  PROVE  TypeOK' /\ StageInv'
<1>1. /\ request' \in [Request -> RequestState]
      /\ \A q \in Request \ {r} : request'[q] = request[q]
      /\ request'[r].pc # "idle"
      /\ request'[r].topic \in Topic
      /\ request[r].conv # NoConversation => request'[r].conv = request[r].conv
      /\ request'[r].pc \notin {"opening", "ended"} => request'[r].conv \in Conversation
  BY RequestStep
<1>2. /\ clock' \in Nat
      /\ conversation' \in [Conversation -> [topic : Topic \cup {NoTopic}, used : 0 .. clock']]
      /\ \A c \in Conversation : conversation[c].topic # NoTopic =>
           conversation'[c].topic = conversation[c].topic
      /\ request'[r].conv # NoConversation =>
           conversation'[request'[r].conv].topic = request'[r].topic
  BY ConversationStep
<1>3. StageInv'
  BY <1>1 DEF StageInv
<1>4. ASSUME NEW q \in Request \ {r}, request[q].conv # NoConversation
      PROVE  conversation'[request[q].conv].topic = request[q].topic
  <2>1. request[q].conv \in Conversation /\ request[q].topic \in Topic
    BY <1>4 DEF TypeOK, StageInv, RequestState
  <2>2. conversation[request[q].conv].topic = request[q].topic
    BY <1>4 DEF TypeOK
  <2> QED BY <1>2, <2>1, <2>2, NoneAssumption
<1>5. \A q \in Request : request'[q].conv # NoConversation =>
        conversation'[request'[q].conv].topic = request'[q].topic
  BY <1>1, <1>2, <1>4
<1>6. \A m \in written : m.by \in Request /\ request'[m.by].conv = m.conv
  <2>1. ASSUME NEW m \in written
        PROVE  /\ m.by \in Request /\ request[m.by].conv = m.conv
               /\ m.conv # NoConversation
    BY NoneAssumption DEF TypeOK, Message
  <2> QED BY <1>1, <2>1
<1>7. /\ message' \subseteq written' /\ written' \subseteq Message
      /\ \A m \in written' : request'[m.by].conv = m.conv
  <2>1. CASE CommitMessage(r)
    <3>1. PICK m \in Message :
            /\ m.conv = request[r].conv /\ m.by = r
            /\ message' = message \cup {m} /\ written' = written \cup {m}
      BY <2>1, MessageStep DEF CommitMessage, Trim
    <3>2. request[r].conv # NoConversation
      BY <2>1, NoneAssumption DEF CommitMessage, StageInv
    <3> QED BY <1>1, <1>6, <3>1, <3>2 DEF TypeOK
  <2>2. CASE ~ CommitMessage(r)
    <3>1. message' \subseteq message /\ written' = written
      BY <2>2, MessageStep
    <3> QED BY <1>6, <3>1 DEF TypeOK
  <2> QED BY <2>1, <2>2
<1> QED BY <1>1, <1>2, <1>3, <1>5, <1>7 DEF TypeOK
-----------------------------------------------------------------------------
(***************************************************************************)
(* Times, and how much has been written.                                   *)
(***************************************************************************)

LEMMA TimeStep ==
  ASSUME TypeOK, StageInv, TimeInv, NEW r \in Request, Step(r)
  PROVE  TimeInv'
<1> DEFINE Row(q) == request'[q]
<1>0. /\ clock \in Nat /\ clock' \in Nat /\ clock <= clock'
      /\ \A q \in Request \ {r} : request'[q] = request[q]
      /\ \A m \in written : m.at \in Nat
      /\ \A q \in Request : request[q].at \in Nat
  BY ConversationStep, RequestStep DEF TypeOK, Message, RequestState
<1>1. CASE Insert(r)
  <2>1. /\ clock' = clock + 1 /\ request'[r].at = clock + 1 /\ written' = written
        /\ \A q \in Request \ {r} : q \in Inserting' <=> q \in Inserting
    BY <1>0, <1>1 DEF Insert, TypeOK, RequestState, Inserting
  <2>2. \A m \in written' : m.at <= clock /\ m.at <= clock'
    BY <1>0, <2>1 DEF TimeInv
  <2>3. \A q \in Inserting' : q # r => request'[q].at <= clock
    BY <1>0, <2>1 DEF TimeInv, Inserting
  <2>4. \A q \in Inserting' : request'[q].at <= clock'
    BY <1>0, <2>1, <2>3 DEF Inserting
  <2>5. \A q \in Inserting' : \A m \in written' : m.at # request'[q].at
    <3>1. ASSUME NEW m \in written' PROVE m.at # request'[r].at
      BY <1>0, <2>1, <2>2
    <3>2. ASSUME NEW q \in Inserting', q # r, NEW m \in written' PROVE m.at # request'[q].at
      BY <1>0, <2>1, <3>2 DEF TimeInv, Inserting
    <3> QED BY <3>1, <3>2
  <2>6. ASSUME NEW p \in Inserting', NEW q \in Inserting', request'[p].at = request'[q].at
        PROVE  p = q
    <3>1. CASE p # r /\ q # r
      BY <1>0, <2>1, <2>6, <3>1 DEF TimeInv, Inserting
    <3>2. CASE p = r /\ q # r
      BY <1>0, <2>1, <2>3, <2>6, <3>2 DEF Inserting
    <3>3. CASE p # r /\ q = r
      BY <1>0, <2>1, <2>3, <2>6, <3>3 DEF Inserting
    <3> QED BY <3>1, <3>2, <3>3
  <2>7. \A m, o \in written' : m.at = o.at => m = o
    BY <2>1 DEF TimeInv
  <2> QED BY <2>2, <2>4, <2>5, <2>6, <2>7 DEF TimeInv
<1>2. CASE CommitMessage(r)
  <2>1. /\ r \in Inserting /\ clock' = clock
        /\ Inserting' = Inserting \ {r}
    <3>1. /\ request[r].pc = "inserting" /\ clock' = clock
          /\ request'[r].pc = "counting"
      BY <1>2 DEF CommitMessage, Goes, TypeOK, RequestState
    <3> QED BY <1>0, <3>1 DEF Inserting
  <2>2. PICK m \in Message : m.at = request[r].at /\ written' = written \cup {m}
    BY <1>2, MessageStep DEF CommitMessage, Trim
  <2>3. \A q \in Inserting' : q # r /\ q \in Inserting /\ request'[q] = request[q]
    BY <1>0, <2>1 DEF Inserting
  <2>4. \A o \in written' : o.at <= clock'
    BY <2>1, <2>2 DEF TimeInv
  <2>5. \A o, n \in written' : o.at = n.at => o = n
    BY <2>1, <2>2 DEF TimeInv
  <2>6. \A q \in Inserting' : request'[q].at <= clock'
    BY <2>1, <2>3 DEF TimeInv
  <2>7. \A q \in Inserting' : \A o \in written' : o.at # request'[q].at
    BY <2>1, <2>2, <2>3 DEF TimeInv
  <2>8. \A p, q \in Inserting' : request'[p].at = request'[q].at => p = q
    BY <2>3 DEF TimeInv
  <2> QED BY <2>4, <2>5, <2>6, <2>7, <2>8 DEF TimeInv
<1>3. CASE ~ Insert(r) /\ ~ CommitMessage(r)
  <2>1. written' = written
    BY <1>3, MessageStep
  <2>2. request'[r].pc # "inserting"
    <3>1. CASE \E kind \in {"open", "chat"}, t \in Topic : Look(r, kind, t)
      BY <3>1 DEF Look, TypeOK, RequestState
    <3>2. CASE Create(r)
      BY <3>2 DEF Create, AfterOpening, TypeOK, RequestState
    <3>3. CASE Cut(r) /\ OldestKept(request[r].conv) # {}
      BY <3>3 DEF Cut, TypeOK, RequestState
    <3>4. ASSUME NEW pc \in {"asking", "ended", "untrimmed", "answering", "cutting", "thinking"},
                 Goes(r, pc)
          PROVE  request'[r].pc # "inserting"
      BY <3>4 DEF Goes, TypeOK, RequestState
    <3>5. CASE Resume(r) \/ Answer(r)
      BY <3>4, <3>5 DEF Resume, Answer, AfterOpening
    <3>6. AfterTrim(r) \in {"thinking", "ended"}
      BY DEF AfterTrim
    <3>7. CASE Count(r) \/ Trim(r) \/ (Cut(r) /\ OldestKept(request[r].conv) = {})
      BY <3>4, <3>6, <3>7 DEF Count, Trim, Cut
    <3>8. CASE Lost(r)
      BY <3>4, <3>8 DEF Lost
    <3> QED BY <1>3, <3>1, <3>2, <3>3, <3>5, <3>7, <3>8 DEF Step
  <2>3. \A q \in Inserting' : q \in Inserting /\ request'[q] = request[q]
    BY <1>0, <2>2 DEF Inserting
  <2>4. \A q \in Inserting' : request'[q].at <= clock'
    BY <1>0, <2>3 DEF TimeInv, Inserting
  <2>5. \A m \in written' : m.at <= clock'
    BY <1>0, <2>1 DEF TimeInv
  <2>6. \A q \in Inserting' : \A m \in written' : m.at # request'[q].at
    BY <2>1, <2>3 DEF TimeInv
  <2>7. \A p, q \in Inserting' : request'[p].at = request'[q].at => p = q
    BY <2>3 DEF TimeInv
  <2> QED BY <2>1, <2>4, <2>5, <2>6, <2>7 DEF TimeInv
<1> QED BY <1>1, <1>2, <1>3

LEMMA FiniteStep ==
  ASSUME TypeOK, StageInv, TimeInv, FiniteInv, NEW r \in Request, Step(r)
  PROVE  FiniteInv'
<1> DEFINE Begun == {q \in Request : request[q].pc # "idle"}
<1>1. Begun' \subseteq Begun \cup {r}
  BY RequestStep
<1>2. IsFiniteSet(Begun \cup {r})
  BY FS_AddElement DEF FiniteInv
<1>3. IsFiniteSet(Begun')
  <2> HIDE DEF Begun
  <2> QED BY <1>1, <1>2, FS_Subset
<1>4. \/ written' = written
      \/ \E m \in Message : written' = written \cup {m}
  BY MessageStep
<1>5. IsFiniteSet(written')
  BY <1>4, FS_AddElement DEF FiniteInv
<1> QED BY <1>3, <1>5 DEF FiniteInv
-----------------------------------------------------------------------------
(***************************************************************************)
(* What is kept.                                                           *)
(***************************************************************************)

\* A request comes to a delete by choosing a cut only.
LEMMA CutChosen ==
  ASSUME TypeOK, StageInv, NEW r \in Request, Step(r), request'[r].pc = "trimming"
  PROVE  /\ Cut(r) /\ message' = message /\ written' = written
         /\ request'[r].conv = request[r].conv
         /\ \E m \in OldestKept(request[r].conv) : request'[r].at = m.at
<1>1. ~ (\E kind \in {"open", "chat"}, t \in Topic : Look(r, kind, t))
  <2>1. ASSUME NEW kind \in {"open", "chat"}, NEW t \in Topic, Look(r, kind, t)
        PROVE  request'[r].pc = "opening"
    BY <2>1 DEF Look, TypeOK, RequestState
  <2> QED BY <2>1
<1>2. ~ Create(r) /\ ~ Insert(r)
  <2>1. ASSUME Create(r) PROVE FALSE
    <3>1. request'[r].pc = AfterOpening(r)
      BY <2>1 DEF Create, TypeOK
    <3> QED BY <3>1 DEF AfterOpening
  <2>2. ASSUME Insert(r) PROVE FALSE
    <3>1. request'[r].pc = "inserting"
      BY <2>2 DEF Insert, TypeOK
    <3> QED BY <3>1
  <2> QED BY <2>1, <2>2
<1>3. ASSUME NEW pc \in Asking \ {"trimming"}, Goes(r, pc) PROVE FALSE
  BY <1>3 DEF Goes, TypeOK, RequestState
<1>4. AfterOpening(r) \in Asking \ {"trimming"} /\ AfterTrim(r) \in Asking \ {"trimming"}
  BY DEF AfterOpening, AfterTrim, Asking
<1>5. ~ Resume(r) /\ ~ CommitMessage(r) /\ ~ Count(r) /\ ~ Trim(r) /\ ~ Answer(r)
  BY <1>3, <1>4 DEF Resume, CommitMessage, Count, Trim, Answer, Asking
<1>6. ~ Lost(r)
  <2>1. ASSUME Lost(r), Trimming(r) PROVE FALSE
    BY <1>3, <2>1 DEF Lost, Trimming, Asking
  <2>2. ASSUME Lost(r), ~ Trimming(r) PROVE FALSE
    BY <1>3, <2>2 DEF Lost, Asking
  <2> QED BY <2>1, <2>2
<1>7. Cut(r)
  BY <1>1, <1>2, <1>5, <1>6 DEF Step
<1>8. PICK m \in OldestKept(request[r].conv) :
        request' = [request EXCEPT ![r].at = m.at, ![r].pc = "trimming"]
  BY <1>3, <1>4, <1>7 DEF Cut
<1>9. request'[r].at = m.at /\ request'[r].conv = request[r].conv
  BY <1>8 DEF TypeOK, RequestState
<1> QED BY <1>7, <1>9 DEF Cut

\* The cut and what is later are MaxMessages messages.
LEMMA CutKeeps ==
  ASSUME TypeOK, FiniteInv, NEW c \in Conversation, NEW m \in OldestKept(c)
  PROVE  /\ m \in message /\ m.conv = c
         /\ IsFiniteSet(Later(m, message) \cup {m})
         /\ Cardinality(Later(m, message) \cup {m}) = MaxMessages
<1>1. m \in message /\ m.conv = c /\ m.at \in Nat
  BY DEF OldestKept, In, TypeOK, Message
<1>2. Cardinality(Later(m, message)) = MaxMessages - 1
  BY DEF OldestKept
<1>3. Later(m, message) \subseteq written
  BY DEF Later, In, TypeOK
<1>4. IsFiniteSet(Later(m, message))
  BY <1>3, FS_Subset DEF FiniteInv
<1>5. m \notin Later(m, message)
  BY <1>1 DEF Later
<1> QED BY <1>1, <1>2, <1>4, <1>5, FS_AddElement, MaxMessagesAssumption

LEMMA CutStep ==
  ASSUME TypeOK, StageInv, TimeInv, FiniteInv, FiniteInv', CutInv, NEW r \in Request, Step(r)
  PROVE  CutInv'
<1> SUFFICES ASSUME NEW q \in Request, request'[q].pc = "trimming"
             PROVE  Cardinality(From(request'[q].conv, request'[q].at, written')) >= MaxMessages
  BY DEF CutInv, From
<1>1. /\ IsFiniteSet(From(request'[q].conv, request'[q].at, written'))
      /\ Cardinality(From(request'[q].conv, request'[q].at, written')) \in Nat
  <2>1. From(request'[q].conv, request'[q].at, written') \subseteq written'
    BY DEF From, In
  <2>2. IsFiniteSet(written')
    BY DEF FiniteInv
  <2> QED BY <2>1, <2>2, PartIsSmaller
<1>2. CASE q # r
  <2>1. request'[q] = request[q]
    BY <1>2, RequestStep
  <2>2. written \subseteq written'
    BY MessageStep
  <2>3. From(request[q].conv, request[q].at, written)
          \subseteq From(request'[q].conv, request'[q].at, written')
    BY <2>1, <2>2 DEF From, In
  <2>4. Cardinality(From(request[q].conv, request[q].at, written)) >= MaxMessages
    BY <2>1 DEF CutInv
  <2>5. /\ Cardinality(From(request[q].conv, request[q].at, written)) \in Nat
        /\ Cardinality(From(request[q].conv, request[q].at, written))
             <= Cardinality(From(request'[q].conv, request'[q].at, written'))
    BY <1>1, <2>3, PartIsSmaller
  <2> QED BY <1>1, <2>4, <2>5, MaxMessagesAssumption
<1>3. CASE q = r
  <2>1. /\ Cut(r) /\ written' = written /\ request'[r].conv = request[r].conv
    BY <1>3, CutChosen
  <2>2. PICK m \in OldestKept(request[r].conv) : request'[r].at = m.at
    BY <1>3, CutChosen
  <2>3. request[r].conv \in Conversation
    BY <2>1 DEF Cut, StageInv
  <2>4. /\ m \in message /\ m.conv = request[r].conv
        /\ Cardinality(Later(m, message) \cup {m}) = MaxMessages
    BY <2>3, CutKeeps
  <2>5. Later(m, message) \cup {m} \subseteq From(request'[q].conv, request'[q].at, written')
    <3>1. \A n \in message : n \in written /\ n.at \in Nat
      BY DEF TypeOK, Message
    <3> QED BY <1>3, <2>1, <2>2, <2>4, <3>1 DEF Later, From, In
  <2> QED BY <1>1, <2>4, <2>5, PartIsSmaller
<1> QED BY <1>2, <1>3

\* A delete takes messages before a cut only, and those have MaxMessages later ones.
LEMMA NewestStep ==
  ASSUME TypeOK, StageInv, TimeInv, FiniteInv, FiniteInv', CutInv, NewestInv,
         NEW r \in Request, Step(r)
  PROVE  NewestInv'
<1> SUFFICES ASSUME NEW m \in written', Cardinality(Later(m, written')) < MaxMessages
             PROVE  m \in message'
  BY DEF NewestInv, Later, In
<1>1. ASSUME NEW o \in written
      PROVE  /\ IsFiniteSet(Later(o, written')) /\ Cardinality(Later(o, written')) \in Nat
             /\ Cardinality(Later(o, written)) \in Nat
  <2>1. Later(o, written') \subseteq written' /\ Later(o, written) \subseteq written
    BY DEF Later, In
  <2> QED BY <2>1, PartIsSmaller DEF FiniteInv
<1>2. CASE CommitMessage(r)
  <2>1. PICK n \in Message : message' = message \cup {n} /\ written' = written \cup {n}
    BY <1>2, MessageStep DEF CommitMessage, Trim
  <2>2. CASE m = n
    BY <2>1, <2>2
  <2>3. CASE m # n
    <3>1. m \in written /\ Later(m, written) \subseteq Later(m, written')
      BY <2>1, <2>3 DEF Later, In
    <3>2. Cardinality(Later(m, written)) <= Cardinality(Later(m, written'))
      BY <1>1, <3>1, PartIsSmaller
    <3>3. Cardinality(Later(m, written)) < MaxMessages
      BY <1>1, <3>1, <3>2, MaxMessagesAssumption
    <3> QED BY <2>1, <3>1, <3>3 DEF NewestInv
  <2> QED BY <2>2, <2>3
<1>3. CASE Trim(r)
  <2>1. written' = written /\ request[r].pc = "trimming"
    BY <1>3 DEF Trim
  <2>2. m \in message
    BY <2>1 DEF NewestInv
  <2>3. SUFFICES ASSUME m.conv = request[r].conv, ~ (m.at >= request[r].at) PROVE FALSE
    BY <1>3, <2>2 DEF Trim
  <2>4. request[r].at \in Nat /\ \A n \in written : n.at \in Nat
    BY DEF TypeOK, RequestState, Message
  <2>5. From(request[r].conv, request[r].at, written) \subseteq Later(m, written)
    BY <2>1, <2>3, <2>4 DEF From, Later, In
  <2>6. Cardinality(From(request[r].conv, request[r].at, written)) <= Cardinality(Later(m, written))
    BY <1>1, <2>1, <2>5, PartIsSmaller
  <2>7. Cardinality(From(request[r].conv, request[r].at, written)) \in Nat
    BY <1>1, <2>1, <2>5, PartIsSmaller
  <2>8. Cardinality(From(request[r].conv, request[r].at, written)) >= MaxMessages
    BY <2>1 DEF CutInv
  <2> QED BY <1>1, <2>1, <2>6, <2>7, <2>8, MaxMessagesAssumption
<1>4. CASE ~ CommitMessage(r) /\ ~ Trim(r)
  BY <1>4, MessageStep DEF NewestInv
<1> QED BY <1>2, <1>3, <1>4
-----------------------------------------------------------------------------
(***************************************************************************)
(* How much is kept.                                                       *)
(***************************************************************************)

LEMMA Sizes ==
  ASSUME TypeOK, FiniteInv, NEW c \in Conversation
  PROVE  /\ IsFiniteSet(In(c, message)) /\ IsFiniteSet(Untrimmed(c))
         /\ \A R : /\ IsFiniteSet(Surviving(c, R)) /\ Cardinality(Surviving(c, R)) \in Nat
                  /\ IsFiniteSet(Untrimmed(c) \ R) /\ Cardinality(Untrimmed(c) \ R) \in Nat
<1>1. In(c, message) \subseteq written
  BY DEF In, TypeOK
<1>2. Untrimmed(c) \subseteq {r \in Request : request[r].pc # "idle"}
  BY DEF Untrimmed, Trimming
<1>3. IsFiniteSet(In(c, message)) /\ IsFiniteSet(Untrimmed(c))
  BY <1>1, <1>2, FS_Subset DEF FiniteInv
<1>4. ASSUME NEW R
      PROVE  /\ IsFiniteSet(Surviving(c, R)) /\ Cardinality(Surviving(c, R)) \in Nat
             /\ IsFiniteSet(Untrimmed(c) \ R) /\ Cardinality(Untrimmed(c) \ R) \in Nat
  <2>1. Surviving(c, R) \subseteq In(c, message) /\ Untrimmed(c) \ R \subseteq Untrimmed(c)
    BY DEF Surviving
  <2> QED BY <1>3, <2>1, PartIsSmaller
<1> QED BY <1>3, <1>4

\* What a delete set leaves stays within the bound while no message comes and no writer goes.
LEMMA SizeKept ==
  ASSUME TypeOK, FiniteInv, TypeOK', FiniteInv', SizeInv, NEW c \in Conversation,
         In(c, message') \subseteq In(c, message),
         NEW R \in SUBSET Cutting(c), \A q \in R : request'[q].at = request[q].at,
         Untrimmed(c) \subseteq Untrimmed(c)'
  PROVE  Cardinality(Surviving(c, R)') <= MaxMessages + Cardinality(Untrimmed(c)' \ R)
<1>1. Surviving(c, R)' \subseteq Surviving(c, R)
  BY DEF Surviving
<1>2. Untrimmed(c) \ R \subseteq Untrimmed(c)' \ R
  OBVIOUS
<1>3. /\ IsFiniteSet(Surviving(c, R)) /\ Cardinality(Surviving(c, R)) \in Nat
      /\ Cardinality(Untrimmed(c) \ R) \in Nat
  BY Sizes
<1>4. IsFiniteSet(Untrimmed(c)' \ R) /\ Cardinality(Untrimmed(c)' \ R) \in Nat
  <2>1. Untrimmed(c)' \ R \subseteq {r \in Request : request'[r].pc # "idle"}
    BY DEF Untrimmed, Trimming
  <2>2. IsFiniteSet({r \in Request : request'[r].pc # "idle"})
    BY DEF FiniteInv
  <2> QED BY <2>1, <2>2, PartIsSmaller
<1>5. /\ Cardinality(Surviving(c, R)') \in Nat
      /\ Cardinality(Surviving(c, R)') <= Cardinality(Surviving(c, R))
  BY <1>1, <1>3, PartIsSmaller
<1>6. Cardinality(Untrimmed(c) \ R) <= Cardinality(Untrimmed(c)' \ R)
  BY <1>2, <1>4, PartIsSmaller
<1>7. Cardinality(Surviving(c, R)) <= MaxMessages + Cardinality(Untrimmed(c) \ R)
  BY DEF SizeInv
<1> QED BY <1>3, <1>4, <1>5, <1>6, <1>7, MaxMessagesAssumption

\* Without a row at the offset the conversation has fewer than MaxMessages.
LEMMA NothingToCut ==
  ASSUME TypeOK, TimeInv, FiniteInv, NEW c \in Conversation, OldestKept(c) = {}
  PROVE  Cardinality(In(c, message)) <= MaxMessages
<1> DEFINE S == In(c, message)
<1>1. IsFiniteSet(S) /\ Cardinality(S) \in Nat
  BY Sizes, FS_CardinalityType
<1>2. \A m \in S : m.at \in Nat
  BY DEF In, TypeOK, Message
<1>3. \A m, n \in S : m.at = n.at => m = n
  BY DEF In, TypeOK, TimeInv
<1>4. \A m \in S : {n \in S : n.at > m.at} = Later(m, message)
  BY DEF In, Later
<1>5. ASSUME MaxMessages <= Cardinality(S) PROVE FALSE
  <2>1. \E m \in S : Cardinality({n \in S : n.at > m.at}) = MaxMessages - 1
    <3> HIDE DEF S
    <3> QED BY <1>1, <1>2, <1>3, <1>5, MaxMessagesAssumption, RankExists
  <2> QED BY <1>4, <2>1 DEF OldestKept
<1> QED BY <1>1, <1>5, MaxMessagesAssumption
LEMMA SizeStep ==
  ASSUME TypeOK, StageInv, TimeInv, FiniteInv, TypeOK', StageInv', FiniteInv', SizeInv,
         NEW r \in Request, Step(r)
  PROVE  SizeInv'
<1> SUFFICES ASSUME NEW c \in Conversation, NEW R \in SUBSET (Cutting(c)')
             PROVE  Cardinality(Surviving(c, R)') <= MaxMessages + Cardinality(Untrimmed(c)' \ R)
  BY DEF SizeInv
<1>0. /\ \A q \in Request \ {r} : request'[q] = request[q]
      /\ request[r].conv # NoConversation => request'[r].conv = request[r].conv
      /\ request[r].conv \in Conversation \cup {NoConversation}
  BY RequestStep DEF TypeOK, RequestState
<1>1. /\ \A q \in R : q \in Request /\ request'[q].pc = "trimming" /\ request'[q].conv = c
      /\ r \notin R => R \subseteq Cutting(c) /\ \A q \in R : request'[q].at = request[q].at
  <2>1. \A q \in R : q \in Request /\ request'[q].pc = "trimming" /\ request'[q].conv = c
    BY DEF Cutting
  <2>2. ASSUME r \notin R, NEW q \in R PROVE q \in Cutting(c) /\ request'[q].at = request[q].at
    BY <1>0, <2>1, <2>2 DEF Cutting
  <2> QED BY <2>1, <2>2
<1>2. ASSUME request[r].conv # c PROVE r \notin Untrimmed(c) /\ r \notin Cutting(c)
  BY <1>2 DEF Untrimmed, Cutting
<1>3. CASE CommitMessage(r)
  <2>1. request[r].pc = "inserting" /\ request'[r].pc = "counting"
    BY <1>3 DEF CommitMessage, Goes, TypeOK, RequestState
  <2>2. r \notin R /\ R \subseteq Cutting(c) /\ \A q \in R : request'[q].at = request[q].at
    <3>1. r \notin R
      BY <1>1, <2>1
    <3> QED BY <1>1, <3>1
  <2>3. PICK m \in Message : m.conv = request[r].conv /\ message' = message \cup {m}
    BY <1>3, MessageStep DEF CommitMessage, Trim
  <2>4. Untrimmed(c) \subseteq Untrimmed(c)'
    BY <1>0, <2>1 DEF Untrimmed, Trimming
  <2>5. CASE request[r].conv = c
    <3>1. Surviving(c, R)' \subseteq Surviving(c, R) \cup {m}
      BY <2>2, <2>3 DEF Surviving, In
    <3>2. request'[r].conv = c
      BY <1>0, <2>5, NoneAssumption
    <3>3. r \notin Untrimmed(c) \ R /\ Untrimmed(c)' \ R = (Untrimmed(c) \ R) \cup {r}
      BY <1>0, <2>1, <2>2, <3>2 DEF Untrimmed, Trimming
    <3>4. /\ IsFiniteSet(Surviving(c, R)) /\ Cardinality(Surviving(c, R)) \in Nat
          /\ IsFiniteSet(Untrimmed(c) \ R) /\ Cardinality(Untrimmed(c) \ R) \in Nat
      BY Sizes
    <3>5. Cardinality(Untrimmed(c)' \ R) = Cardinality(Untrimmed(c) \ R) + 1
      BY <3>3, <3>4, FS_AddElement
    <3>6. /\ IsFiniteSet(Surviving(c, R) \cup {m})
          /\ Cardinality(Surviving(c, R) \cup {m}) <= Cardinality(Surviving(c, R)) + 1
      <4>1. /\ IsFiniteSet(Surviving(c, R) \cup {m})
            /\ Cardinality(Surviving(c, R) \cup {m})
                 = IF m \in Surviving(c, R) THEN Cardinality(Surviving(c, R))
                                            ELSE Cardinality(Surviving(c, R)) + 1
        BY <3>4, FS_AddElement, Zenon
      <4> QED BY <3>4, <4>1
    <3>7. Cardinality(Surviving(c, R)') \in Nat /\ Cardinality(Surviving(c, R)') <= Cardinality(Surviving(c, R)) + 1
      <4>1. /\ Cardinality(Surviving(c, R)') \in Nat
            /\ Cardinality(Surviving(c, R)') <= Cardinality(Surviving(c, R) \cup {m})
        BY <3>1, <3>6, PartIsSmaller
      <4>2. Cardinality(Surviving(c, R) \cup {m}) \in Nat
        BY <3>6, FS_CardinalityType
      <4> QED BY <3>4, <3>6, <4>1, <4>2
    <3>8. Cardinality(Surviving(c, R)) <= MaxMessages + Cardinality(Untrimmed(c) \ R)
      BY <2>2 DEF SizeInv
    <3> QED BY <3>4, <3>5, <3>7, <3>8, MaxMessagesAssumption
  <2>6. CASE request[r].conv # c
    <3>1. In(c, message') \subseteq In(c, message)
      BY <2>3, <2>6 DEF In
    <3> QED BY <2>2, <2>4, <3>1, SizeKept
  <2> QED BY <2>5, <2>6
<1>4. CASE Trim(r)
  <2>1. request[r].pc = "trimming" /\ request'[r].pc \in {"thinking", "ended"}
    BY <1>4 DEF Trim, Goes, AfterTrim, TypeOK, RequestState
  <2>2. r \notin R /\ R \subseteq Cutting(c) /\ \A q \in R : request'[q].at = request[q].at
    <3>1. r \notin R
      BY <1>1, <2>1
    <3> QED BY <1>1, <3>1
  <2>3. message' = {m \in message : m.conv = request[r].conv => m.at >= request[r].at}
    BY <1>4 DEF Trim
  <2>4. CASE request[r].conv = c
    <3>1. R \cup {r} \in SUBSET Cutting(c)
      BY <2>1, <2>2, <2>4 DEF Cutting
    <3>2. Surviving(c, R)' = Surviving(c, R \cup {r})
      BY <2>2, <2>3, <2>4 DEF Surviving, In
    <3>3. Untrimmed(c)' \ R = Untrimmed(c) \ (R \cup {r})
      BY <1>0, <2>1 DEF Untrimmed, Trimming
    <3> QED BY <3>1, <3>2, <3>3 DEF SizeInv
  <2>5. CASE request[r].conv # c
    <3>1. In(c, message') \subseteq In(c, message)
      BY <2>3 DEF In
    <3>2. Untrimmed(c) \subseteq Untrimmed(c)'
      BY <1>0, <1>2, <2>5 DEF Untrimmed, Trimming
    <3> QED BY <2>2, <3>1, <3>2, SizeKept
  <2> QED BY <2>4, <2>5
<1>5. CASE ~ CommitMessage(r) /\ ~ Trim(r) /\ r \in R
  <2>1. /\ Cut(r) /\ request[r].conv = c
    BY <1>1, <1>5, CutChosen
  <2>2. PICK m \in OldestKept(c) : request'[r].at = m.at
    BY <1>1, <1>5, <2>1, CutChosen
  <2>3. /\ m \in message /\ m.conv = c
        /\ IsFiniteSet(Later(m, message) \cup {m})
        /\ Cardinality(Later(m, message) \cup {m}) = MaxMessages
    BY CutKeeps
  <2>4. message' = message
    BY <1>5, MessageStep
  <2>5. Surviving(c, R)' \subseteq Later(m, message) \cup {m}
    <3> SUFFICES ASSUME NEW n \in message, n.conv = c, n.at >= m.at, n # m PROVE n.at > m.at
      BY <1>5, <2>2, <2>3, <2>4 DEF Surviving, In, Later
    <3>1. n.at \in Nat /\ m.at \in Nat /\ n \in written /\ m \in written
      BY <2>3 DEF TypeOK, Message
    <3>2. n.at # m.at
      BY <3>1 DEF TimeInv
    <3> QED BY <3>1, <3>2
  <2>6. /\ Cardinality(Surviving(c, R)') \in Nat
        /\ Cardinality(Surviving(c, R)') <= MaxMessages
    BY <2>3, <2>5, PartIsSmaller
  <2>7. Cardinality(Untrimmed(c)' \ R) \in Nat
    <3>1. Untrimmed(c)' \ R \subseteq {q \in Request : request'[q].pc # "idle"}
      BY DEF Untrimmed, Trimming
    <3>2. IsFiniteSet({q \in Request : request'[q].pc # "idle"})
      BY DEF FiniteInv
    <3> QED BY <3>1, <3>2, PartIsSmaller
  <2> QED BY <2>6, <2>7, MaxMessagesAssumption
<1>6. CASE ~ CommitMessage(r) /\ ~ Trim(r) /\ r \notin R
  <2>1. message' = message
    BY <1>6, MessageStep
  <2>2. R \subseteq Cutting(c) /\ \A q \in R : request'[q].at = request[q].at
    BY <1>1, <1>6
  <2>3. CASE Untrimmed(c) \subseteq Untrimmed(c)'
    BY <2>1, <2>2, <2>3, SizeKept
  <2>4. CASE ~ (Untrimmed(c) \subseteq Untrimmed(c)')
    <3>1. /\ r \in Untrimmed(c) /\ request[r].conv = c /\ request'[r].conv = c
          /\ request[r].pc \in {"counting", "cutting", "trimming", "untrimmed"}
          /\ request'[r].pc \notin {"counting", "cutting", "trimming", "untrimmed"}
      BY <1>0, <2>4, NoneAssumption DEF Untrimmed, Trimming
    <3>2. \/ Count(r) /\ Cardinality(In(c, message)) <= MaxMessages
          \/ Cut(r) /\ OldestKept(c) = {}
      <4>1. ~ Lost(r)
        BY <3>1 DEF Lost, Running, Trimming, Goes, TypeOK, RequestState
      <4>2. Count(r) \/ Cut(r)
        BY <1>6, <3>1, <4>1 DEF Step, Look, Resume, Create, Insert, Answer
      <4>3. ASSUME Count(r), ~ (Cardinality(In(c, message)) <= MaxMessages) PROVE FALSE
        BY <3>1, <4>3 DEF Count, Goes, TypeOK, RequestState
      <4>4. ASSUME Cut(r), OldestKept(c) # {} PROVE FALSE
        BY <3>1, <4>4 DEF Cut, TypeOK, RequestState
      <4> QED BY <4>2, <4>3, <4>4
    <3>3. Cardinality(In(c, message')) <= MaxMessages
      BY <2>1, <3>2, NothingToCut
    <3>4. \A P : Cardinality(Surviving(c, P)') <= MaxMessages + Cardinality(Untrimmed(c)' \ P)
      <4>1. \A P : Surviving(c, P)' \subseteq In(c, message')
        BY DEF Surviving
      <4>2. IsFiniteSet(In(c, message')) /\ Cardinality(In(c, message')) \in Nat
        BY <2>1, Sizes, FS_CardinalityType
      <4>3. ASSUME NEW P
            PROVE  /\ Cardinality(Surviving(c, P)') \in Nat
                   /\ Cardinality(Surviving(c, P)') <= Cardinality(In(c, message'))
        BY <4>1, <4>2, PartIsSmaller
      <4>4. ASSUME NEW P PROVE Cardinality(Untrimmed(c)' \ P) \in Nat
        <5>1. Untrimmed(c)' \ P \subseteq {q \in Request : request'[q].pc # "idle"}
          BY DEF Untrimmed, Trimming
        <5>2. IsFiniteSet({q \in Request : request'[q].pc # "idle"})
          BY DEF FiniteInv
        <5> QED BY <5>1, <5>2, PartIsSmaller
      <4> QED BY <3>3, <4>2, <4>3, <4>4, MaxMessagesAssumption
    <3> QED BY <3>4
  <2> QED BY <2>3, <2>4
<1> QED BY <1>3, <1>4, <1>5, <1>6
-----------------------------------------------------------------------------
(***************************************************************************)
(* The theorems.                                                           *)
(***************************************************************************)

LEMMA InitIInv == Init => IInv
<1> SUFFICES ASSUME Init PROVE IInv
  OBVIOUS
<1>1. /\ message = {} /\ written = {} /\ clock = 0
      /\ \A r \in Request : request[r].pc = "idle" /\ request[r].conv = NoConversation
  BY DEF Init
<1>2. TypeOK
  BY DEF Init, TypeOK, RequestState, Asking
<1>3. StageInv
  BY <1>1 DEF StageInv
<1>4. FiniteInv
  <2>1. {r \in Request : request[r].pc # "idle"} = {}
    BY <1>1
  <2> QED BY <1>1, <2>1, FS_EmptySet DEF FiniteInv
<1>5. TimeInv
  BY <1>1 DEF TimeInv, Inserting
<1>6. CutInv /\ NewestInv
  BY <1>1 DEF CutInv, NewestInv
<1>7. SizeInv
  <2> SUFFICES ASSUME NEW c \in Conversation, NEW R \in SUBSET Cutting(c)
               PROVE  Cardinality(Surviving(c, R)) <= MaxMessages + Cardinality(Untrimmed(c) \ R)
    BY DEF SizeInv
  <2>1. Surviving(c, R) = {}
    BY <1>1 DEF Surviving, In
  <2>2. Cardinality(Untrimmed(c) \ R) \in Nat
    BY <1>2, <1>4, Sizes
  <2> QED BY <2>1, <2>2, FS_EmptySet, MaxMessagesAssumption
<1> QED BY <1>2, <1>3, <1>4, <1>5, <1>6, <1>7 DEF IInv

LEMMA NextIInv == IInv /\ [Next]_vars => IInv'
<1> SUFFICES ASSUME IInv, [Next]_vars PROVE IInv'
  OBVIOUS
<1> USE DEF IInv
<1>1. CASE Next
  <2>1. PICK r \in Request : Step(r)
    BY <1>1, NextIsStep
  <2>2. TypeOK' /\ StageInv'
    BY <2>1, TypeStep
  <2>3. TimeInv'
    BY <2>1, TimeStep
  <2>4. FiniteInv'
    BY <2>1, FiniteStep
  <2>5. CutInv'
    BY <2>1, <2>4, CutStep
  <2>6. NewestInv'
    BY <2>1, <2>4, NewestStep
  <2>7. SizeInv'
    BY <2>1, <2>2, <2>4, SizeStep
  <2> QED BY <2>2, <2>3, <2>4, <2>5, <2>6, <2>7
<1>2. CASE UNCHANGED vars
  BY <1>2 DEF vars, TypeOK, StageInv, FiniteInv, TimeInv, Inserting, CutInv, From, NewestInv,
              SizeInv, Cutting, Surviving, Untrimmed, Trimming, In, Later
<1> QED BY <1>1, <1>2

THEOREM Invariance == Spec => []IInv
  BY InitIInv, NextIInv, PTL DEF Spec

\* Requests work in a conversation of their own episode and reviewer.
THEOREM TypeCorrect == Spec => []TypeOK
<1>1. IInv => TypeOK
  BY DEF IInv
<1> QED BY <1>1, Invariance, PTL

\* However the trims of a conversation overlap, and whichever of their requests die, the
\* newest messages stay and what exceeds them is bounded by the writers still to trim.
THEOREM NewestStay == Spec => []TrimmedToTheNewest
<1>1. IInv => TrimmedToTheNewest
  <2> SUFFICES ASSUME IInv, NEW c \in Conversation
               PROVE  Cardinality(In(c, message)) <= MaxMessages + Cardinality(Untrimmed(c))
    BY DEF IInv, NewestInv, TrimmedToTheNewest
  <2>1. Surviving(c, {}) = In(c, message) /\ Untrimmed(c) \ {} = Untrimmed(c)
    BY DEF Surviving
  <2>2. {} \in SUBSET Cutting(c)
    OBVIOUS
  <2> QED BY <2>1, <2>2 DEF IInv, SizeInv
<1> QED BY <1>1, Invariance, PTL

=============================================================================
