------------------------ MODULE MCSupervisedInstall ------------------------
(* SupervisedInstall on two directories, one .env file, two versions and a   *)
(* unit for the first directory's plugin.                                   *)
EXTENDS SupervisedInstall

CONSTANTS demo, auth, demo_env, demo_unit

Install_(t, s) == [op |-> "install", on |-> t, snapshot |-> s]
Env_(f)        == [op |-> "write_env", on |-> f, snapshot |-> FALSE]
Do(op)         == [op |-> op, on |-> demo_unit, snapshot |-> FALSE]

\* An update: its first installation relies on the default of `snapshot`, off.
Update == << Do("prepare"), Env_(demo_env), Install_(auth, FALSE), Install_(demo, TRUE),
             Do("restart"), Do("healthcheck") >>

\* A plan that installs a directory twice, its first time with a snapshot.
Twice == << Do("skip"), Do("stop"), Install_(demo, TRUE), Install_(demo, FALSE), Do("start") >>

AllPlans == {Update, Twice}

LoadsDemo == [u \in Units |-> {demo}]
=============================================================================
