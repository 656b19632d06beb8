---------------------------- MODULE AtomicDeploy ----------------------------
(***************************************************************************)
(* What the executor of install.yaml promises the host, whatever happens:    *)
(* a deployment that commits has replaced every tree in its scope, one that  *)
(* aborts has left every tree that its plan protects as it was, and one that *)
(* breaks off (the process dies, the rollback itself fails) has touched      *)
(* nothing outside its scope.  Nobody asks what is on disk while it runs.    *)
(***************************************************************************)
CONSTANTS Targets, Versions, Trees

VARIABLES
    live,      \* the tree each directory is known to hold
    phase,     \* "new", "deploying", or how the last deployment ended
    scope,     \* directories the current deployment installs
    protected, \* directories it has to leave alone when it aborts
    version    \* what it installs

vars == <<live, phase, scope, protected, version>>
deployment == <<scope, protected, version>>

Ends == {"committed", "aborted", "broken"}

Init ==
    /\ live \in [Targets -> Trees]
    /\ phase = "new"
    /\ scope \in SUBSET Targets
    /\ protected \in SUBSET Targets
    /\ version \in Versions

Begin ==
    /\ phase \in Ends \cup {"new"}
    /\ phase' = "deploying"
    /\ scope' \in SUBSET Targets
    /\ protected' \in SUBSET Targets
    /\ version' \in Versions
    /\ UNCHANGED live

End(how) ==
    /\ phase = "deploying"
    /\ phase' = how
    /\ UNCHANGED deployment

Commit ==
    /\ End("committed")
    /\ live' = [t \in Targets |-> IF t \in scope THEN version ELSE live[t]]

\* The trees outside S are as they were.
OnlyIn(S) ==
    /\ live' \in [Targets -> Trees]
    /\ \A t \in Targets \ S : live'[t] = live[t]

Abort == End("aborted") /\ OnlyIn(scope \ protected)

Break == End("broken") /\ OnlyIn(scope)

Next == Begin \/ Commit \/ Abort \/ Break

Spec == Init /\ [][Next]_vars
=============================================================================
