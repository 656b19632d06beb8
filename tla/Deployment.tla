----------------------------- MODULE Deployment -----------------------------
(***************************************************************************)
(* What a caller of DeploymentRunner.run(), the watcher or an operator, may  *)
(* count on: a run that returns has put the version it was asked for on the  *)
(* host; one that is refused has changed all of the host or nothing; one that *)
(* is rolled back has changed nothing if its plan takes snapshots; else, or   *)
(* when it breaks off (an exception of another kind, the death of the         *)
(* process), the host may be torn.  Module Watcher takes a deployment as one  *)
(* step with these ends.                                                    *)
(***************************************************************************)
CONSTANTS
    Versions,
    Protected, \* those whose plan takes a snapshot in every step that installs
    Torn

VARIABLES
    live,    \* what the host holds between runs
    phase,   \* "deploying", or how the last run ended
    version  \* what the current run was asked for

vars == <<live, phase, version>>

Ends == {"returned", "refused", "rolled_back", "broken"}

Init ==
    /\ live \in Versions
    /\ phase \in Ends
    /\ version \in Versions

Begin(v) ==
    /\ phase \in Ends
    /\ phase' = "deploying"
    /\ version' = v
    /\ UNCHANGED live

End(how, hosts) ==
    /\ phase = "deploying"
    /\ phase' = how
    /\ live' \in hosts
    /\ UNCHANGED version

Next ==
    \/ \E v \in Versions : Begin(v)
    \/ End("returned", {version})
    \/ End("refused", {live, version})
    \/ version \in Protected /\ End("rolled_back", {live})
    \/ version \notin Protected /\ End("rolled_back", {live, version, Torn})
    \/ End("broken", {live, version, Torn})

Spec == Init /\ [][Next]_vars
=============================================================================
