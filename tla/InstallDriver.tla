--------------------------- MODULE InstallDriver ---------------------------
(***************************************************************************)
(* agent/install_driver.py, driven by DeploymentRunner._install            *)
(* (agent/pipeline.py): the steps of install.yaml run one after the other   *)
(* against the host's directories; when one raises, rollback() walks the    *)
(* snapshot records backwards.  Every filesystem call that can fail halfway *)
(* (copytree, rmtree, write_text) is a step of its own, so that an I/O      *)
(* error or the death of the process may fall inside it.                    *)
(*                                                                         *)
(* A directory is abstracted to the version of the tree it holds: Absent,   *)
(* a version, or Torn (a copy or a removal that stopped halfway).           *)
(***************************************************************************)
EXTENDS Integers, Sequences

CONSTANTS
    Targets,     \* plugin and extension directories (Layout.plugin_dir / extension_dir)
    EnvFiles,    \* plugin .env files (Layout.plugin_env_file)
    Units,       \* what a Supervisor starts and stops: plugins, the project
    Versions,    \* versions of the project an artifact may carry
    Absent,      \* the path does not exist
    Torn,        \* a tree of which only a part is there
    Plans,       \* install plans, in execution order
    Faults,      \* which of "crash" and "undo_io" may happen
    MaxDeploys   \* bound: deployments the host sees

\* Steps with an effect outside the directories.
Supervising == {"start", "stop", "restart", "healthcheck"}
Effects == {"prepare", "provision"} \cup Supervising

Ops == {"install", "write_env", "skip"} \cup Effects

Step == [op : Ops, on : Targets \cup EnvFiles \cup Units, snapshot : BOOLEAN]

\* A step that installs names a directory; one that seeds an .env names a file.
WellFormed(p) ==
    /\ p \in Seq(Step)
    /\ \A i \in DOMAIN p : /\ p[i].op = "install" => p[i].on \in Targets
                           /\ p[i].op = "write_env" => p[i].on \in EnvFiles
                           /\ p[i].op \in Supervising => p[i].on \in Units

ASSUME PlansAssumption == \A p \in Plans : WellFormed(p)
ASSUME MarkersAssumption == /\ Absent \notin Versions
                            /\ Torn \notin Versions
                            /\ Absent # Torn
ASSUME BoundAssumption == MaxDeploys \in Nat \ {0}
ASSUME FaultsAssumption == Faults \subseteq {"crash", "undo_io"}

Tree == Versions \cup {Absent, Torn}

\* An .env file: "partial" was opened for writing and not completed;
\* "incomplete" lacks a value that the manifest requires.
EnvState == {"absent", "partial", "incomplete", "complete"}

VARIABLES
    host,       \* what each target directory holds
    env,        \* what each .env file holds
    snapshots,  \* directories under .snapshots/, in the order they were made
    records,    \* InstallDriver._snapshots, in memory only
    plan, version,
    step,       \* index in plan of the step being executed
    undo,       \* number of records rollback() has still to visit
    pc,
    deploys,
    before      \* history: host when this deployment began

vars == <<host, env, snapshots, records, plan, version, step, undo, pc,
          deploys, before>>
disk == <<host, env, snapshots>>
job  == <<plan, version, deploys, before>>

Resting == {"idle", "installed", "rolled_back", "stuck", "down"}
Forward == {"dispatch", "wipe", "copy", "seed", "check"}
Undoing == {"undo", "restore"}
Working == Forward \cup Undoing

\* SnapshotRecord: saved = 0 stands for saved_path None (a fresh install).
Record == [on : Targets, saved : Nat]

Cur == plan[step]

-----------------------------------------------------------------------------
Init ==
    /\ host \in [Targets -> Versions \cup {Absent}]
    /\ env \in [EnvFiles -> {"absent", "complete"}]
    /\ snapshots = <<>>
    /\ records = <<>>
    /\ plan \in Plans
    /\ version \in Versions
    /\ step = 1
    /\ undo = 0
    /\ pc = "idle"
    /\ deploys = 0
    /\ before = host

\* A new runner, with a driver of its own, reaches _install.  It may follow
\* any end of the one before it, the death of its process included.
Begin(p, v) ==
    /\ pc \in Resting
    /\ deploys < MaxDeploys
    /\ plan' = p
    /\ version' = v
    /\ records' = <<>>
    /\ step' = 1
    /\ undo' = 0
    /\ before' = host
    /\ deploys' = deploys + 1
    /\ pc' = "dispatch"
    /\ UNCHANGED disk

\* The step returned: the loop of _install goes on with the next one.
Done ==
    /\ step' = step + 1
    /\ pc' = "dispatch"
    /\ UNCHANGED undo

\* Mutant: rollback() starts one record too far.
RaiseOffByOne ==
    /\ undo' = Len(records) + 1
    /\ pc' = "undo"
    /\ UNCHANGED step

\* The step raised: `except Exception` of _install calls driver.rollback().
Raise ==
    /\ undo' = Len(records)
    /\ pc' = "undo"
    /\ UNCHANGED step

Goto(label) == pc' = label /\ UNCHANGED <<step, undo>>

At(op) == pc = "dispatch" /\ step \in DOMAIN plan /\ Cur.op = op

\* configure_plugin, notify, download, extract, rollback: nothing on the host's
\* directories changes and nothing raises.
Skip ==
    /\ At("skip")
    /\ Done
    /\ UNCHANGED <<disk, records, job>>

\* An effect outside the target directories, which may succeed or raise (module
\* SupervisedInstall).
Effect ==
    /\ pc = "dispatch" /\ step \in DOMAIN plan /\ Cur.op \in Effects
    /\ Done \/ Raise
    /\ UNCHANGED <<disk, records, job>>

\* Copying the old tree to .snapshots/ stops before its record is appended; what
\* was copied stays there.
HalfSnapshot ==
    /\ At("install")
    /\ Cur.snapshot /\ host[Cur.on] # Absent
    /\ snapshots' = Append(snapshots, Torn)

\* install_plugin / install_extension: the source is missing in the extracted
\* artifact, or the snapshot fails.
InstallRefused ==
    /\ At("install")
    /\ HalfSnapshot \/ UNCHANGED snapshots
    /\ UNCHANGED records
    /\ Raise
    /\ UNCHANGED <<host, env, job>>

\* Mutant: a fresh install leaves no record.
SnapshotOnlyExisting(t) ==
    IF host[t] = Absent
    THEN UNCHANGED <<records, snapshots>>
    ELSE /\ snapshots' = Append(snapshots, host[t])
         /\ records' = Append(records, [on |-> t, saved |-> Len(snapshots')])

\* snapshot_before: a missing target is recorded as such, any other is copied.
SnapshotBefore(t) ==
    IF host[t] = Absent
    THEN /\ records' = Append(records, [on |-> t, saved |-> 0])
         /\ UNCHANGED snapshots
    ELSE /\ snapshots' = Append(snapshots, host[t])
         /\ records' = Append(records, [on |-> t, saved |-> Len(snapshots')])

InstallBegin ==
    /\ At("install")
    /\ IF Cur.snapshot THEN SnapshotBefore(Cur.on)
                       ELSE UNCHANGED <<snapshots, records>>
    /\ Goto("wipe")
    /\ UNCHANGED <<host, env, job>>

\* `if target.exists(): shutil.rmtree(target)`
Wipe ==
    /\ pc = "wipe"
    /\ \/ /\ host' = [host EXCEPT ![Cur.on] = Absent]
          /\ Goto("copy")
       \/ /\ host[Cur.on] # Absent
          /\ \E left \in {host[Cur.on], Torn} : host' = [host EXCEPT ![Cur.on] = left]
          /\ Raise
    /\ UNCHANGED <<env, snapshots, records, job>>

\* Mutant: the errors copytree collects are ignored.
CopyIgnoringErrors ==
    /\ pc = "copy"
    /\ \E left \in {Torn, version} : host' = [host EXCEPT ![Cur.on] = left]
    /\ Done
    /\ UNCHANGED <<env, snapshots, records, job>>

\* `shutil.copytree(source, target)`, then the signature of a trusted plugin,
\* which may raise once the tree is complete.
Copy ==
    /\ pc = "copy"
    /\ \/ /\ host' = [host EXCEPT ![Cur.on] = version]
          /\ Done
       \/ /\ \E left \in {Absent, Torn, version} :
               host' = [host EXCEPT ![Cur.on] = left]
          /\ Raise
    /\ UNCHANGED <<env, snapshots, records, job>>

\* Mutant: write_env seeds the file without looking for it first.
WriteEnvAlways ==
    /\ At("write_env")
    /\ env' = [env EXCEPT ![Cur.on] = "partial"]
    /\ Goto("seed")
    /\ UNCHANGED <<host, snapshots, records, job>>

\* write_env: the file exists, or it is created from the template, unless the
\* artifact lacks the template.
WriteEnv ==
    /\ At("write_env")
    /\ \/ /\ env[Cur.on] # "absent"
          /\ Goto("check")
          /\ UNCHANGED env
       \/ /\ env[Cur.on] = "absent"
          /\ env' = [env EXCEPT ![Cur.on] = "partial"]
          /\ Goto("seed")
       \/ /\ env[Cur.on] = "absent"
          /\ Raise
          /\ UNCHANGED env
    /\ UNCHANGED <<host, snapshots, records, job>>

\* `target.write_text(...)`: the values come from the template and from the
\* agent's own environment, which may or may not hold all that is required.
Seed ==
    /\ pc = "seed"
    /\ \/ /\ \E e \in {"complete", "incomplete"} : env' = [env EXCEPT ![Cur.on] = e]
          /\ Goto("check")
       \/ /\ Raise
          /\ UNCHANGED env
    /\ UNCHANGED <<host, snapshots, records, job>>

\* _check_required_env: a partial file may or may not hold what is required.
CheckRequiredEnv ==
    /\ pc = "check"
    /\ \/ env[Cur.on] \in {"complete", "partial"} /\ Done
       \/ env[Cur.on] \in {"incomplete", "partial"} /\ Raise
    /\ UNCHANGED <<disk, records, job>>

\* Every step of the plan has been executed.
Finish ==
    /\ pc = "dispatch"
    /\ step = Len(plan) + 1
    /\ Goto("installed")
    /\ UNCHANGED <<disk, records, job>>

-----------------------------------------------------------------------------
\* rollback(): records in reverse order.  An exception inside it leaves
\* _install before the transition to ROLLED_BACK.
UndoRemove ==
    /\ pc = "undo"
    /\ undo > 0
    /\ LET t == records[undo].on IN
         \/ /\ host' = [host EXCEPT ![t] = Absent]
            /\ Goto("restore")
         \/ /\ "undo_io" \in Faults
            /\ host[t] # Absent
            /\ \E left \in {host[t], Torn} : host' = [host EXCEPT ![t] = left]
            /\ Goto("stuck")
    /\ UNCHANGED <<env, snapshots, records, job>>

\* A snapshot that is gone by now (saved_path.exists() is false) is skipped.
Kept(r) == r.saved # 0 /\ snapshots[r.saved] # Absent

\* Mutant: rollback() retries the record it has just restored.
UndoRestoreAgain ==
    /\ pc = "restore"
    /\ LET r == records[undo] IN
         host' = IF Kept(r) THEN [host EXCEPT ![r.on] = snapshots[r.saved]] ELSE host
    /\ Goto("undo")
    /\ UNCHANGED <<env, snapshots, records, job>>

\* Mutant: rollback() removes what the step installed and restores nothing.
UndoForgetsCopy ==
    /\ pc = "restore"
    /\ pc' = "undo"
    /\ undo' = undo - 1
    /\ UNCHANGED <<disk, records, step, job>>

UndoRestore ==
    /\ pc = "restore"
    /\ LET r == records[undo] IN
         \/ /\ host' = IF Kept(r) THEN [host EXCEPT ![r.on] = snapshots[r.saved]]
                                  ELSE host
            /\ pc' = "undo"
            /\ undo' = undo - 1
            /\ UNCHANGED step
         \/ /\ "undo_io" \in Faults
            /\ Kept(r)
            /\ \E left \in {host[r.on], Torn} : host' = [host EXCEPT ![r.on] = left]
            /\ Goto("stuck")
    /\ UNCHANGED <<env, snapshots, records, job>>

UndoEnd ==
    /\ pc = "undo"
    /\ undo = 0
    /\ Goto("rolled_back")
    /\ UNCHANGED <<disk, records, job>>

-----------------------------------------------------------------------------
\* The directory a call is busy with, which the death of the process tears.
Busy == CASE pc \in {"wipe", "copy"} -> {Cur.on}
          [] pc = "undo" /\ undo > 0 -> {records[undo].on}
          [] pc = "restore"          -> {records[undo].on}
          [] OTHER                   -> {}

Crash ==
    /\ "crash" \in Faults
    /\ pc \in Working
    /\ \/ UNCHANGED <<host, snapshots>>
       \/ HalfSnapshot /\ UNCHANGED host
       \/ /\ \E t \in Busy : host' = [host EXCEPT ![t] = Torn]
          /\ UNCHANGED snapshots
    /\ records' = <<>>
    /\ undo' = 0
    /\ pc' = "down"
    /\ UNCHANGED <<env, step, job>>

\* The operator completes an .env file between two deployments.
OperatorEdits(f) ==
    /\ pc \in Resting
    /\ env[f] # "complete"
    /\ env' = [env EXCEPT ![f] = "complete"]
    /\ UNCHANGED <<host, snapshots, records, step, undo, pc, job>>

Install == InstallRefused \/ InstallBegin \/ Wipe \/ Copy
SeedEnv == WriteEnv \/ Seed \/ CheckRequiredEnv
Rollback == UndoRemove \/ UndoRestore \/ UndoEnd
Run == Skip \/ Effect \/ Install \/ SeedEnv \/ Finish \/ Rollback

Next == \/ \E p \in Plans, v \in Versions : Begin(p, v)
        \/ Run
        \/ Crash
        \/ \E f \in EnvFiles : OperatorEdits(f)

Spec == Init /\ [][Next]_vars

-----------------------------------------------------------------------------
(* Properties *)

\* Type correctness of the driver's memory and of the host's directories.
TypeOK ==
    /\ host \in [Targets -> Tree]
    /\ env \in [EnvFiles -> EnvState]
    /\ snapshots \in Seq(Tree)
    /\ records \in Seq(Record)
    /\ plan \in Plans
    /\ version \in Versions
    /\ step \in 1..(Len(plan) + 1)
    /\ undo \in 0..Len(records)
    /\ pc \in Resting \cup Working
    /\ deploys \in 0..MaxDeploys
    /\ before \in [Targets -> Tree]

Installs(i, t) == plan[i].op = "install" /\ plan[i].on = t

\* The plan's first install onto t takes a snapshot; later ones need none.
Protected(t) ==
    \A i \in DOMAIN plan :
        Installs(i, t) => \E j \in 1..i : Installs(j, t) /\ plan[j].snapshot

\* A rollback that ran to its end leaves every protected directory as the
\* deployment found it, whatever step failed, however often the plan touched
\* the directory, and whether or not it existed before.
RollbackRestores ==
    pc = "rolled_back" => \A t \in Targets : Protected(t) => host[t] = before[t]

\* A deployment that completes leaves no mixture: the directories of its plan
\* hold its version whole, all others what they held before.
InstalledWhole ==
    pc = "installed" =>
        \A t \in Targets :
            host[t] = IF \E i \in DOMAIN plan : Installs(i, t)
                      THEN version ELSE before[t]

\* No step of the agent touches an .env file that was there when the
\* deployment reached it: not the seeding, not the rollback, not a retry.
EnvNeverOverwritten ==
    [][\A f \in EnvFiles :
          env[f] # "absent" /\ env'[f] # env[f] =>
              \/ pc = "seed" /\ Cur.on = f
              \/ pc \in Resting]_vars

\* Whatever fails, and whenever the process dies, the driver implements
\* AtomicDeploy: what it commits is whole, what it rolls back is undone wherever
\* a snapshot was asked for, and nothing outside its plan is ever touched.
AllOrNothing == INSTANCE AtomicDeploy WITH
    Trees     <- Tree,
    live      <- IF pc \in Working THEN before ELSE host,
    phase     <- CASE pc \in Working     -> "deploying"
                   [] pc = "installed"   -> "committed"
                   [] pc = "rolled_back" -> "aborted"
                   [] pc = "idle"        -> "new"
                   [] OTHER              -> "broken",
    scope     <- {t \in Targets : \E i \in DOMAIN plan : Installs(i, t)},
    protected <- {t \in Targets : Protected(t)},
    version   <- version

ImplementsAtomicDeploy == AllOrNothing!Spec
=============================================================================
