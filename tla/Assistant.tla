------------------------------ MODULE Assistant ------------------------------
(***************************************************************************)
(* The conversations of the AI assistant (ai_qc/conversation_store.py,     *)
(* ai_qc/chat_service.py and the /ai-assistant routes of routes/qc.py).    *)
(*                                                                         *)
(* A request looks for the active conversation of its reviewer about its   *)
(* episode, opens or creates it, saves the question, asks the model and    *)
(* saves the answer.  Every save is a transaction of its own, followed by  *)
(* a trim of the conversation to MAX_MESSAGES_PER_CONVERSATION in three    *)
(* further statements: a count, the time from which messages are kept, and *)
(* the delete.  Requests of one reviewer (two tabs, an impatient second    *)
(* question, the panel being opened) interleave between any two of them.   *)
(*                                                                         *)
(* A message's time is taken when its row is inserted and the row becomes  *)
(* visible when the transaction commits, so a later message may appear     *)
(* first.  Clocks are taken to give every insert a time of its own.  What  *)
(* is said is left out: the prompt, the history put in it, the facts and   *)
(* the template decide only the text of an answer.                         *)
(***************************************************************************)
EXTENDS Integers, FiniteSets

CONSTANTS
  Request,        \* calls of the conversation and chat routes
  Topic,          \* an episode and a reviewer, the key of a conversation
  Conversation,   \* rows of ai_conversations
  MaxMessages,    \* MAX_MESSAGES_PER_CONVERSATION
  NoTopic, NoConversation

ASSUME MaxMessagesAssumption == MaxMessages \in Nat \ {0}
ASSUME NoneAssumption == NoTopic \notin Topic /\ NoConversation \notin Conversation

VARIABLES
  conversation,   \* the rows of ai_conversations: whose they are, and their updated_at
  message,        \* the rows of ai_messages
  written,        \* history: every message ever committed
  request,        \* where each request stands, and what it holds in memory
  clock           \* the latest time handed out

vars == <<conversation, message, written, request, clock>>

Asking == {"idle", "opening", "asking", "inserting", "counting", "cutting",
           "trimming", "thinking", "answering", "ended", "untrimmed"}

Message == [conv : Conversation, at : Nat, by : Request, role : {"user", "assistant"}]

RequestState ==
  [pc : Asking, kind : {"open", "chat"}, topic : Topic \cup {NoTopic},
   conv : Conversation \cup {NoConversation}, role : {"user", "assistant"}, at : Nat]

Running(r) == request[r].pc \notin {"idle", "ended", "untrimmed"}

Trimming(r) == request[r].pc \in {"counting", "cutting", "trimming"}

Goes(r, pc) == request' = [request EXCEPT ![r].pc = pc]

Init ==
  /\ conversation = [c \in Conversation |-> [topic |-> NoTopic, used |-> 0]]
  /\ message = {}
  /\ written = {}
  /\ request = [r \in Request |->
                  [pc |-> "idle", kind |-> "open", topic |-> NoTopic,
                   conv |-> NoConversation, role |-> "user", at |-> 0]]
  /\ clock = 0

-----------------------------------------------------------------------------
(***************************************************************************)
(* Opening a conversation.                                                 *)
(***************************************************************************)

Unused == {c \in Conversation : conversation[c].topic = NoTopic}

\* Seeded defect: the filter on the episode and the reviewer is missing.
ActiveOfAnyone(t) == {c \in Conversation : conversation[c].topic # NoTopic}

Active(t) == {c \in Conversation : conversation[c].topic = t}

\* The most recently used one; two created at the same time are told apart by nothing.
Latest(t) ==
  {c \in Active(t) : \A d \in Active(t) : conversation[d].used <= conversation[c].used}

\* The first query of get_or_create_conversation.
Look(r, kind, t) ==
  /\ request[r].pc = "idle"
  /\ \E c \in IF Active(t) = {} THEN {NoConversation} ELSE Latest(t) :
       request' = [request EXCEPT ![r] =
                     [@ EXCEPT !.pc = "opening", !.kind = kind, !.topic = t, !.conv = c]]
  /\ UNCHANGED <<conversation, message, written, clock>>

AfterOpening(r) == IF request[r].kind = "open" THEN "ended" ELSE "asking"

Resume(r) ==
  /\ request[r].pc = "opening"
  /\ request[r].conv # NoConversation
  /\ clock' = clock + 1
  /\ conversation' = [conversation EXCEPT ![request[r].conv].used = clock + 1]
  /\ Goes(r, AfterOpening(r))
  /\ UNCHANGED <<message, written>>

Create(r) ==
  /\ request[r].pc = "opening"
  /\ request[r].conv = NoConversation
  /\ clock' = clock + 1
  /\ \E c \in Unused :
       /\ conversation' = [conversation EXCEPT ![c] = [topic |-> request[r].topic, used |-> clock + 1]]
       /\ request' = [request EXCEPT ![r].conv = c, ![r].pc = AfterOpening(r)]
  /\ UNCHANGED <<message, written>>

-----------------------------------------------------------------------------
(***************************************************************************)
(* Saving a message, and trimming the conversation it went to.             *)
(***************************************************************************)

\* db.add and the flush: the row takes its time, the transaction is still open.
Insert(r) ==
  /\ request[r].pc \in {"asking", "answering"}
  /\ clock' = clock + 1
  /\ request' = [request EXCEPT
       ![r].role = IF request[r].pc = "asking" THEN "user" ELSE "assistant",
       ![r].pc = "inserting",
       ![r].at = clock + 1]
  /\ UNCHANGED <<conversation, message, written>>

CommitMessage(r) ==
  /\ request[r].pc = "inserting"
  /\ LET q == request[r]
         m == [conv |-> q.conv, at |-> q.at, by |-> r, role |-> q.role]
     IN /\ message' = message \cup {m}
        /\ written' = written \cup {m}
        /\ conversation' = [conversation EXCEPT ![q.conv].used = q.at]
  /\ Goes(r, "counting")
  /\ UNCHANGED clock

In(c, rows) == {m \in rows : m.conv = c}

Later(m, rows) == {n \in In(m.conv, rows) : n.at > m.at}

AfterTrim(r) == IF request[r].role = "user" THEN "thinking" ELSE "ended"

Count(r) ==
  /\ request[r].pc = "counting"
  /\ Goes(r, IF Cardinality(In(request[r].conv, message)) <= MaxMessages
             THEN AfterTrim(r) ELSE "cutting")
  /\ UNCHANGED <<conversation, message, written, clock>>

\* Seeded defect: one row fewer is skipped.
OldestKeptOneFurther(c) ==
  {m \in In(c, message) : Cardinality(Later(m, message)) = MaxMessages - 2}

\* ORDER BY created_at DESC OFFSET MaxMessages - 1 LIMIT 1: the oldest message to keep.
OldestKept(c) == {m \in In(c, message) : Cardinality(Later(m, message)) = MaxMessages - 1}

Cut(r) ==
  /\ request[r].pc = "cutting"
  /\ IF OldestKept(request[r].conv) = {}
     THEN Goes(r, AfterTrim(r))
     ELSE \E m \in OldestKept(request[r].conv) :
            request' = [request EXCEPT ![r].at = m.at, ![r].pc = "trimming"]
  /\ UNCHANGED <<conversation, message, written, clock>>

Trim(r) ==
  /\ request[r].pc = "trimming"
  /\ message' = {m \in message : m.conv = request[r].conv => m.at >= request[r].at}
  /\ Goes(r, AfterTrim(r))
  /\ UNCHANGED <<conversation, written, clock>>

-----------------------------------------------------------------------------
(***************************************************************************)
(* Answering.                                                              *)
(***************************************************************************)

\* The model answers, or the template stands in for it; the answer is then saved.  A stream
\* has sent all of its text by now.
Answer(r) ==
  /\ request[r].pc = "thinking"
  /\ Goes(r, "answering")
  /\ UNCHANGED <<conversation, message, written, clock>>

\* The process dies, or the reader of a stream leaves and its generator is closed.
Lost(r) ==
  /\ Running(r)
  /\ Goes(r, IF Trimming(r) THEN "untrimmed" ELSE "ended")
  /\ UNCHANGED <<conversation, message, written, clock>>

Next ==
  \E r \in Request :
    \/ \E kind \in {"open", "chat"}, t \in Topic : Look(r, kind, t)
    \/ Resume(r) \/ Create(r)
    \/ Insert(r) \/ CommitMessage(r) \/ Count(r) \/ Cut(r) \/ Trim(r)
    \/ Answer(r)
    \/ Lost(r)

Spec == Init /\ [][Next]_vars

-----------------------------------------------------------------------------
(***************************************************************************)
(* Properties.                                                             *)
(***************************************************************************)

\* A request works in a conversation of its own episode and reviewer, and so does
\* everything it wrote (get_or_create_conversation, add_message).
TypeOK ==
  /\ clock \in Nat
  /\ conversation \in [Conversation -> [topic : Topic \cup {NoTopic}, used : 0 .. clock]]
  /\ message \subseteq written
  /\ written \subseteq Message
  /\ request \in [Request -> RequestState]
  /\ \A r \in Request : request[r].conv # NoConversation =>
       conversation[request[r].conv].topic = request[r].topic
  /\ \A m \in written : m.conv = request[m.by].conv

\* The requests that have written to c and have not finished trimming it, those that died
\* on the way included.
Untrimmed(c) ==
  {r \in Request : request[r].conv = c /\ (Trimming(r) \/ request[r].pc = "untrimmed")}

\* Trims that overlap, work on an old cut or see messages appear out of order never take
\* one of the MaxMessages newest messages, and leave no more than MaxMessages but for the
\* writers still to trim (_trim_old_messages, "keep the latest MAX_MESSAGES").
TrimmedToTheNewest ==
  /\ \A m \in written : Cardinality(Later(m, written)) < MaxMessages => m \in message
  /\ \A c \in Conversation :
       Cardinality(In(c, message)) <= MaxMessages + Cardinality(Untrimmed(c))

=============================================================================
