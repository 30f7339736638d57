----------------------------- MODULE LeasedWork -----------------------------
(***************************************************************************)
(* What a leased work queue promises of each piece of work, whoever works   *)
(* and whatever is lost: it is taken a bounded number of times, it is given *)
(* up only when all tries are used, what is done or withdrawn stays so, and *)
(* only an explicit revival of given-up work starts its tries again.        *)
(* Several pieces of work may move in one step.                             *)
(***************************************************************************)
EXTENDS Naturals

CONSTANTS
  Work,     \* the pieces of work
  MaxTries  \* how often one may be taken before it is given up

VARIABLES state, tries

vars == <<state, tries>>

State == {"none", "waiting", "taken", "done", "given_up", "withdrawn"}

Init == /\ state = [x \in Work |-> "none"]
        /\ tries = [x \in Work |-> 0]

Moves(x, from, to) == state[x] = from /\ state'[x] = to

Add(x)      == Moves(x, "none", "waiting") /\ tries'[x] = 0

Take(x)     == Moves(x, "waiting", "taken") /\ tries'[x] = tries[x] + 1

Finish(x)   == Moves(x, "taken", "done") /\ tries'[x] = tries[x]

GiveBack(x) == /\ Moves(x, "taken", "waiting")
               /\ tries[x] < MaxTries
               /\ tries'[x] = tries[x]

GiveUp(x)   == /\ Moves(x, "taken", "given_up")
               /\ tries[x] = MaxTries
               /\ tries'[x] = tries[x]

Withdraw(x) == /\ Moves(x, "waiting", "withdrawn") \/ Moves(x, "taken", "withdrawn")
               /\ tries'[x] = tries[x]

Revive(x)   == Moves(x, "given_up", "waiting") /\ tries'[x] = 0

Keep(x)     == state'[x] = state[x] /\ tries'[x] = tries[x]

Step(x) == \/ Keep(x)
           \/ Add(x)
           \/ Take(x)
           \/ Finish(x)
           \/ GiveBack(x)
           \/ GiveUp(x)
           \/ Withdraw(x)
           \/ Revive(x)

Next == /\ state' \in [Work -> State]
        /\ tries' \in [Work -> 0..MaxTries]
        /\ \A x \in Work : Step(x)

Spec == Init /\ [][Next]_vars
=============================================================================
