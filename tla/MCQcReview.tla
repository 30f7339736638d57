------------------------------ MODULE MCQcReview ------------------------------
(***************************************************************************)
(* Small instances of QcReview for TLC.                                     *)
(***************************************************************************)
EXTENDS QcReview, TLC

AllOrNone == SUBSET Episode

Symmetric == Permutations(Episode) \cup Permutations(Request)

\* Two instances in one.  Reviews: one episode, whatever happens to it, up to the
\* point where an adjudication starts.
Reviewing ==
  /\ batch.decision = "PENDING" /\ \A e \in Episode : episode[e].final = "PENDING"
  /\ \A r \in Request : request[r] = NoRequest \/ request[r].stage # "deciding"
  /\ \E e \in Episode : \A f \in Episode \ {e} :
       /\ made[f] = {}
       /\ \A r \in Request :
            request[r] # NoRequest /\ request[r].op = "dispatch" => f \notin request[r].mine

\* Decisions: all episodes under the first plan, reviewed by an admin who loses no lock,
\* with no rows astray.
Deciding ==
  /\ astray = {} /\ rereview = {} /\ batch.generation < 2
  /\ \A e \in Episode : task[e].until # "past" /\ task[e].assignee \in Admin \cup {Nobody}
  /\ \A r \in Request : request[r] = NoRequest \/
       /\ request[r].op \in {"dispatch", "claim", "submit", "decide", "recompute"}
       /\ request[r].op = "dispatch" => request[r].batch.generation = 0

Small == Reviewing \/ Deciding
=============================================================================
