---------------------------- MODULE MCSnapshotGC ----------------------------
(* SnapshotGC on two directories whose ids may share their last part. *)
EXTENDS SnapshotGC, TLC

CONSTANTS demo, auth, v1, v2

Both == << [op |-> "install", on |-> demo, snapshot |-> TRUE],
           [op |-> "install", on |-> auth, snapshot |-> TRUE],
           [op |-> "provision", on |-> demo, snapshot |-> FALSE] >>

BothPlans == {Both}

\* ids "demo" and "auth"; ids "demo-plugin" and "auth-plugin"
DistinctSegments == demo :> "demo" @@ auth :> "auth"
SameSegments == demo :> "plugin" @@ auth :> "plugin"

\* v1 was built before v2; a half-removed directory has just been written to.
BuildTimes == v1 :> 1 @@ v2 :> 2 @@ Torn :> 3
=============================================================================
