---------------------------- MODULE RelayPromise ----------------------------
(***************************************************************************)
(* What the Teams relay promises whoever posts to it (docs/teams-relay.md, *)
(* claude_teams/relay): an activity that was answered 200 is in the queue, *)
(* is done, or was given up for a reason that can be looked up; nothing    *)
(* that is owed is forgotten.                                              *)
(***************************************************************************)
CONSTANTS
    Activities

VARIABLES
    Unusable,   \* too large for the queue, or unreadable once taken from it
    fate,       \* [Activities -> Fates]
    answered,   \* those Teams got a 200 for
    poison      \* those delivered more often than a delivery may fail

Fates == {"new", "owed", "worked", "dropped"}

PromiseInit == /\ fate = [a \in Activities |-> "new"]
               /\ answered = {} /\ poison = {}

Moves(a, from, to) == fate[a] = from /\ fate' = [fate EXCEPT ![a] = to]

\* Stored, once more if Teams posts it again.
Store(a) == Moves(a, "new", "owed") \/ Moves(a, "dropped", "owed")
\* 200 is the answer for what is stored, done, or given up.
Answer(a) == fate'[a] # "new" /\ answered' = answered \cup {a}
Work(a) == Moves(a, "owed", "worked") \/ Moves(a, "dropped", "worked")
GiveUp(a) == (a \in poison \/ a \in Unusable)
             /\ (Moves(a, "owed", "dropped") \/ Moves(a, "new", "dropped"))

PromiseNext ==
    UNCHANGED Unusable /\ \E a \in Activities :
        \/ (Store(a) \/ UNCHANGED fate) /\ Answer(a) /\ UNCHANGED poison
        \/ Store(a) /\ UNCHANGED <<answered, poison>>
        \/ Work(a) /\ UNCHANGED <<answered, poison>>
        \/ GiveUp(a) /\ UNCHANGED poison
                     /\ (Answer(a) \/ UNCHANGED answered)
        \/ /\ fate[a] # "new" /\ UNCHANGED <<fate, answered>>
           /\ \E more \in SUBSET Activities : poison' = poison \cup more

PromiseSpec == PromiseInit /\ [][PromiseNext]_<<Unusable, fate, answered, poison>>
=============================================================================
