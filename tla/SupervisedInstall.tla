------------------------- MODULE SupervisedInstall -------------------------
(***************************************************************************)
(* InstallDriver with the processes its start, stop, restart and healthcheck  *)
(* steps act on: SystemdSupervisor, DockerSupervisor, KubernetesSupervisor    *)
(* and NullSupervisor, which the runners of the command line use.  A unit's   *)
(* process holds the trees that were on the host when it was loaded.  It may  *)
(* die, or be started again by someone else, at any moment.                  *)
(*                                                                         *)
(* systemctl and docker act before they return.  kubectl changes what a       *)
(* Deployment asks for: its pods end, load and become ready later.            *)
(***************************************************************************)
EXTENDS InstallDriver

CONSTANTS
    Supervisors,  \* those an instance looks at
    Loads,        \* the directories each unit loads
    Retries,      \* HealthcheckStep.retries
    NotRunning,
    MaxChanges    \* bound: how often a process dies or is started by someone else

\* Docker is to these steps what systemd is.
ASSUME SupervisorsAssumption ==
    /\ Supervisors \subseteq {"null", "systemd", "kubernetes"}
    /\ Loads \in [Units -> SUBSET Targets]
    /\ Retries \in Nat /\ MaxChanges \in Nat
    /\ \A u \in Units : NotRunning \notin [Loads[u] -> Tree]

VARIABLES
    supervisor,
    loaded,     \* what each unit's last process to load has loaded, or NotRunning
    phase,      \* per unit: see Phases
    attempt,    \* attempts of the health check before this one
    changes

Phases == {"off",       \* stopped; scaled to 0 replicas, its pod may not have ended yet
           "due",       \* a new pod is asked for and has not loaded yet
           "starting",  \* loaded, and not ready yet
           "ready"}     \* `is-active` is "active", the pod is available

units == <<loaded, phase>>
superVars == <<vars, supervisor, units, attempt, changes>>

Running(u) == loaded[u] # NotRunning
OnHost(u) == [t \in Loads[u] |-> host[t]]

SupervisedInit ==
    /\ Init
    /\ supervisor \in Supervisors
    /\ phase \in [Units -> IF supervisor = "null" THEN {"off"} ELSE {"off", "ready"}]
    /\ loaded = [u \in Units |-> IF phase[u] = "off" THEN NotRunning ELSE OnHost(u)]
    /\ attempt = 0 /\ changes = 0

\* The step returns, or it raises; either way it is over.
Succeed == Effect /\ Done /\ attempt' = 0
Fail == Effect /\ Raise /\ attempt' = 0

InPhase(u, p) == phase' = [phase EXCEPT ![u] = p]

\* The unit's process ends / loads what is there and will be ready, or is at once.
Ended(u, p) == loaded' = [loaded EXCEPT ![u] = NotRunning] /\ InPhase(u, p)
Loaded(u) == /\ loaded' = [loaded EXCEPT ![u] = OnHost(u)]
             /\ InPhase(u, "starting") \/ InPhase(u, "ready")

\* Commands of kubectl: a pod that still ends when its Deployment is scaled up again
\* serves nobody and is not followed; `rollout restart` of 0 replicas starts nothing.
ScaleUp(u) == IF phase[u] = "off" THEN Ended(u, "due") ELSE UNCHANGED units
ScaleDown(u) == InPhase(u, "off") /\ UNCHANGED loaded
RollOut(u) == /\ InPhase(u, IF phase[u] = "off" THEN "off" ELSE "due")
              /\ UNCHANGED loaded

Kubernetes == supervisor = "kubernetes"

\* What a command does to the unit.  A unit that is running is not started again.
DoStart(u) == IF Kubernetes THEN ScaleUp(u)
              ELSE IF Running(u) THEN UNCHANGED units ELSE Loaded(u)
DoStop(u) == IF Kubernetes THEN ScaleDown(u) ELSE Ended(u, "off")
DoRestart(u) == IF Kubernetes THEN RollOut(u) ELSE Loaded(u)

Command(op, u) == At(op) /\ Cur.on = u /\ supervisor # "null"

Start(u) ==
    /\ Command("start", u)
    /\ \/ Succeed /\ DoStart(u)
       \/ Fail /\ UNCHANGED units
    /\ UNCHANGED <<supervisor, changes>>

Stop(u) ==
    /\ Command("stop", u)
    /\ \/ Succeed /\ DoStop(u)
       \/ Fail /\ UNCHANGED units
    /\ UNCHANGED <<supervisor, changes>>

\* Mutant: `restart` is a `start`.
RestartStarting(u) ==
    /\ Command("restart", u)
    /\ \/ Succeed /\ DoStart(u)
       \/ Fail /\ UNCHANGED units
    /\ UNCHANGED <<supervisor, changes>>

\* systemctl may have ended the process when it fails to start it again.
Restart(u) ==
    /\ Command("restart", u)
    /\ \/ Succeed /\ DoRestart(u)
       \/ Fail /\ UNCHANGED units
       \/ Fail /\ ~Kubernetes /\ Ended(u, "off")
    /\ UNCHANGED <<supervisor, changes>>

\* `rollout status` succeeds for 0 replicas.
Passes(u) == phase[u] = "ready" \/ (Kubernetes /\ phase[u] = "off")

\* One attempt of the health check: it passes; it does not, and there is a next
\* attempt or there is none; or the command is missing or exceeds the step's
\* timeout, which ends the check without another attempt.
Healthcheck(u) ==
    /\ Command("healthcheck", u)
    /\ \/ Passes(u) /\ Succeed
       \/ /\ phase[u] # "ready" /\ attempt < Retries
          /\ attempt' = attempt + 1
          /\ UNCHANGED vars
       \/ phase[u] # "ready" /\ attempt = Retries /\ Fail
       \/ Fail
    /\ UNCHANGED <<supervisor, units, changes>>

\* NullSupervisor: every step returns, and nothing happens.
DoNothing ==
    /\ supervisor = "null"
    /\ pc = "dispatch" /\ step \in DOMAIN plan /\ Cur.op \in Supervising
    /\ Succeed
    /\ UNCHANGED <<supervisor, units, changes>>

\* prepare; provision: no provisioner, or its command fails or takes too long.
Prepare ==
    /\ At("prepare") \/ At("provision")
    /\ Succeed \/ Fail
    /\ UNCHANGED <<supervisor, units, changes>>

\* A unit that the plan does not name is left out: nothing here asks about it.
Named(u) == supervisor # "null" /\ \E i \in DOMAIN plan : plan[i].on = u

\* The process exits, and a pod is made anew; or whoever looks after the unit
\* starts it.
Change(u) ==
    /\ Named(u)
    /\ changes < MaxChanges
    /\ changes' = changes + 1
    /\ IF Running(u) /\ phase[u] # "off"
       THEN Ended(u, IF Kubernetes THEN "due" ELSE "off")
       ELSE DoStart(u)
    /\ UNCHANGED <<vars, supervisor, attempt>>

\* The new pod loads; the process becomes ready; the pod scaled down ends.
Settle(u) ==
    /\ Named(u)
    /\ \/ phase[u] = "due" /\ Loaded(u)
       \/ phase[u] = "starting" /\ InPhase(u, "ready") /\ UNCHANGED loaded
       \/ phase[u] = "off" /\ Running(u) /\ Ended(u, "off")
    /\ UNCHANGED <<vars, supervisor, attempt, changes>>

\* A deployment begins, runs or dies; in the last case the unit stays as it is.
Deploys ==
    /\ \/ \E p \in Plans, v \in Versions : Begin(p, v)
       \/ Skip \/ Install \/ SeedEnv \/ Finish \/ Rollback
       \/ Crash
       \/ \E f \in EnvFiles : OperatorEdits(f)
    /\ attempt' = 0
    /\ UNCHANGED <<supervisor, units, changes>>

Supervise == \E u \in Units : Start(u) \/ Stop(u) \/ Restart(u) \/ Healthcheck(u)

\* The steps that end in a bounded time.  A start, stop or restart waits for its
\* command without a timeout, and for ever if it hangs.
BoundedRun == (\E u \in Units : Healthcheck(u)) \/ DoNothing \/ Prepare \/ (Deploys /\ Run)

SupervisedNext == Supervise \/ DoNothing \/ Prepare \/ Deploys
                  \/ \E u \in Units : Change(u) \/ Settle(u)

SupervisedSpec == SupervisedInit /\ [][SupervisedNext]_superVars

\* Provisioners and the attempts of a health check are given up after their timeout,
\* and the attempts are counted.
FairSupervisedSpec == SupervisedSpec /\ WF_superVars(BoundedRun)

-----------------------------------------------------------------------------
(* Properties *)

\* Types, those of InstallDriver included; attempts are counted from 0 for each
\* health check, and what does not run is neither ready nor about to be.
SupervisedTypeOK ==
    /\ TypeOK
    /\ supervisor \in Supervisors
    /\ DOMAIN loaded = Units /\ phase \in [Units -> Phases]
    /\ \A u \in Units : IF Running(u) THEN loaded[u] \in [Loads[u] -> Tree]
                                       ELSE phase[u] \in {"off", "due"}
    /\ attempt \in 0..Retries /\ changes \in 0..MaxChanges
    /\ attempt > 0 => At("healthcheck") /\ supervisor # "null"

\* The plan restarts u after its last installation onto t and, where a restart
\* returns before it is done, checks it then.
RestartedWith(u, t) ==
    \E r \in DOMAIN plan :
        /\ plan[r].op = "restart" /\ plan[r].on = u
        /\ \A i \in DOMAIN plan : Installs(i, t) => i < r
        /\ supervisor = "systemd" \/
              \E h \in DOMAIN plan : h > r /\ plan[h].op = "healthcheck" /\ plan[h].on = u

\* When a deployment is installed, the processes it restarted after installing
\* run what it installed, be it that they died and came back meanwhile, were
\* slow, or were rolled out while the plan went on; but for a pod that is ending.
ServesWhatItInstalled ==
    pc = "installed" /\ supervisor # "null" =>
        \A u \in Units : Running(u) /\ phase[u] # "off" =>
            \A t \in Loads[u] :
                (\E i \in DOMAIN plan : Installs(i, t)) /\ RestartedWith(u, t) =>
                    loaded[u][t] = version

\* A deployment that the process survives reaches an end, be it undone or not,
\* unless it waits for ever for a command of its supervisor.
Waiting == pc = "dispatch" /\ step \in DOMAIN plan /\ Cur.op \in {"start", "stop", "restart"}
           /\ supervisor # "null"
EndsOrHangs == <>[]Waiting \/ []<>(pc \in Resting)

\* Whatever happens to the processes, the directories obey InstallDriver: the
\* results for every InstallDriver!Spec hold of a supervised deployment.
DrivesAsInstallDriver == Spec
=============================================================================
