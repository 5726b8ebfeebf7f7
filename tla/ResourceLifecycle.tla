------------------------- MODULE ResourceLifecycle --------------------------
(***************************************************************************)
(* What the portal promises of an application or a schema, without its     *)
(* requests, calls and stores: it is worked on once, and is then whole for *)
(* good, or gone; only what the portal knows nothing of any more, unclean, *)
(* is excepted.  Provisioning implements it.                               *)
(***************************************************************************)
CONSTANT Resources

VARIABLE phase    \* by resource: how far its creation is

Phases == {"new", "working", "whole", "gone", "unclean"}

Init == phase = [i \in Resources |-> "new"]

\* A request takes an id for the resource it will create; no id is taken twice.
Begin(i) == /\ phase[i] = "new"
            /\ phase' = [phase EXCEPT ![i] = "working"]

\* A creation ends: all of the resource is there, or nothing of it, or its
\* clean-up has been missed.  A crash ends all of them.
End == /\ phase' \in [Resources -> Phases]
       /\ \A i \in Resources :
             phase'[i] # phase[i] =>
                phase[i] = "working" /\ phase'[i] \in {"whole", "gone", "unclean"}

\* A request that has read the resource earlier saves it after it has gone.
Reappear(i) == /\ phase[i] = "gone"
               /\ phase' = [phase EXCEPT ![i] = "unclean"]

Next == End \/ \E i \in Resources : Begin(i) \/ Reappear(i)

Spec == Init /\ [][Next]_phase
=============================================================================
