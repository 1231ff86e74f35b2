------------------------------ MODULE MCLine ------------------------------
(* Two projects: one with a plan in the line and one a person starts, both checkbox plans,
   the other with a manifest plan in the line. *)
EXTENDS BuildLine

MCPlans == {"queued", "own", "other"}
MCProjectOf == [p \in MCPlans |-> IF p = "other" THEN "beta" ELSE "alpha"]
=============================================================================
