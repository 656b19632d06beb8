--------------------------- MODULE CompositionProofs ---------------------------
(***************************************************************************)
(* Proofs about the two modules that run InstallDriver beside something       *)
(* else: SupervisedInstall, whose processes load what the driver installs,   *)
(* and SnapshotGC, whose collector removes the snapshots the driver takes.    *)
(* The directories obey InstallDriver in the first, so that everything        *)
(* InstallDriverProofs shows holds there too; the second changes snapshots,   *)
(* and what the driver needs of them is shown to survive the collector.       *)
(***************************************************************************)
EXTENDS SupervisedInstall, SnapshotGC, InstallDriverProofs, FiniteSetTheorems

-----------------------------------------------------------------------------
(* SupervisedInstall: the directories *)


\* A step of a supervised deployment is one of InstallDriver or none.
LEMMA StepIsDriverStep ==
    ASSUME [SupervisedNext]_superVars
    PROVE  [Next]_vars
<1>1. Succeed \/ Fail => Next
  BY DEF Succeed, Fail, Next, Run
<1>2. ASSUME NEW u \in Units, Start(u) \/ Stop(u) \/ Restart(u) \/ Healthcheck(u)
      PROVE  [Next]_vars
  BY <1>1, <1>2 DEF Start, Stop, Restart, Healthcheck
<1>3. CASE DoNothing \/ Prepare
  BY <1>1, <1>3 DEF DoNothing, Prepare
<1>4. CASE Deploys
  BY <1>4 DEF Deploys, Next, Run
<1>5. ASSUME NEW u \in Units, Change(u) \/ Settle(u) PROVE UNCHANGED vars
  BY <1>5 DEF Change, Settle
<1>6. CASE UNCHANGED superVars
  BY <1>6 DEF superVars
<1> QED
  BY <1>2, <1>3, <1>4, <1>5, <1>6 DEF SupervisedNext, Supervise

\* Whatever the processes do, the directories obey InstallDriver.
THEOREM DrivesDirectories == SupervisedSpec => DrivesAsInstallDriver
<1>1. SupervisedInit => Init
  BY DEF SupervisedInit
<1>2. [SupervisedNext]_superVars => [Next]_vars
  BY StepIsDriverStep
<1> QED
  BY <1>1, <1>2, PTL DEF SupervisedSpec, DrivesAsInstallDriver, Spec

\* The driver's own invariant, at hand for the proofs below.
LEMMA DriverInvariant == SupervisedSpec => []IInv
BY DrivesDirectories, InductiveInvariant, PTL DEF DrivesAsInstallDriver

\* The results about the directories, for a supervised deployment.  A rollback that
\* ran to its end restores every protected directory, whatever the processes did.
THEOREM SupervisedRollback == SupervisedSpec => []RollbackRestores
BY DrivesDirectories, RollbackCorrect, PTL DEF DrivesAsInstallDriver

\* One that completed leaves its version whole in the directories of its plan.
THEOREM SupervisedCommit == SupervisedSpec => []InstalledWhole
BY DrivesDirectories, InstallCorrect, PTL DEF DrivesAsInstallDriver

\* Deployments with processes commit, are undone or break off, as the executor's.
THEOREM SupervisedRefinement == SupervisedSpec => ImplementsAtomicDeploy
BY DrivesDirectories, Refinement, PTL DEF DrivesAsInstallDriver

-----------------------------------------------------------------------------
(* Types *)

\* What SupervisedTypeOK says of the processes.
UnitsTyped ==
    /\ DOMAIN loaded = Units /\ phase \in [Units -> Phases]
    /\ \A u \in Units : IF Running(u) THEN loaded[u] \in [Loads[u] -> Tree]
                                       ELSE phase[u] \in {"off", "due"}

\* A unit that is loaded holds trees, and runs.
LEMMA OnHostTyped ==
    ASSUME TypeOK, NEW u \in Units
    PROVE  OnHost(u) \in [Loads[u] -> Tree] /\ OnHost(u) # NotRunning
<1>1. Loads[u] \subseteq Targets
  BY SupervisorsAssumption
<1>2. OnHost(u) \in [Loads[u] -> Tree]
  BY <1>1 DEF OnHost, TypeOK
<1> QED
  BY <1>2, SupervisorsAssumption

\* Nothing is loaded, and the phase says so: a pod is asked for or scaled down, or
\* a process is ready at last.
Rephased(u) ==
    /\ UNCHANGED loaded
    /\ \/ InPhase(u, "off") \/ InPhase(u, "due")
       \/ InPhase(u, "ready") /\ phase[u] = "starting"

\* What happens to unit u in a step that is about it.
Touched(u) ==
    Loaded(u) \/ Ended(u, "off") \/ Ended(u, "due") \/ Rephased(u) \/ UNCHANGED units

LEMMA CommandsTouch ==
    ASSUME NEW u \in Units
    PROVE  /\ DoStart(u) => Loaded(u) \/ Ended(u, "due") \/ UNCHANGED units
           /\ DoStop(u) => Ended(u, "off") \/ (InPhase(u, "off") /\ UNCHANGED loaded)
           /\ DoRestart(u) => Loaded(u) \/ RollOut(u)
           /\ RollOut(u) => Rephased(u)
BY DEF DoStart, DoStop, DoRestart, ScaleUp, ScaleDown, RollOut, Rephased

\* Every step about a unit does one of these to it.
LEMMA AboutUnit ==
    ASSUME NEW u \in Units,
           \/ Start(u) \/ Stop(u) \/ Restart(u) \/ Healthcheck(u)
           \/ Change(u) \/ Settle(u)
    PROVE  Touched(u)
<1>1. CASE Start(u) \/ Stop(u) \/ Restart(u) \/ Healthcheck(u)
  BY <1>1, CommandsTouch DEF Start, Stop, Restart, Healthcheck, Touched, Rephased
<1>2. CASE Change(u)
  BY <1>2, CommandsTouch DEF Change, Touched
<1>3. CASE Settle(u)
  BY <1>3 DEF Settle, Touched, Rephased
<1> QED
  BY <1>1, <1>2, <1>3

\* Whatever happens to a unit, it keeps the units' types.
LEMMA TouchedTyped ==
    ASSUME TypeOK, UnitsTyped, NEW u \in Units, Touched(u)
    PROVE  UnitsTyped'
<1> USE DEF UnitsTyped, Running, InPhase, Phases
<1>1. CASE Loaded(u)
  <2> DEFINE h == OnHost(u)
  <2>1. h \in [Loads[u] -> Tree] /\ h # NotRunning
    BY OnHostTyped
  <2>2. /\ loaded' = [loaded EXCEPT ![u] = h]
        /\ \E p \in {"starting", "ready"} : phase' = [phase EXCEPT ![u] = p]
    BY <1>1 DEF Loaded
  <2> HIDE DEF h
  <2> QED
    BY <2>1, <2>2
<1>2. CASE Ended(u, "off") \/ Ended(u, "due")
  BY <1>2 DEF Ended
<1>3. CASE Rephased(u)
  BY <1>3 DEF Rephased
<1>4. CASE UNCHANGED units
  BY <1>4 DEF units
<1> QED
  BY <1>1, <1>2, <1>3, <1>4 DEF Touched

\* Every step keeps the units' types.
LEMMA NextUnitsTyped ==
    ASSUME TypeOK, UnitsTyped, SupervisedNext
    PROVE  UnitsTyped'
<1>1. ASSUME NEW u \in Units, Touched(u) PROVE UnitsTyped'
  BY <1>1, TouchedTyped
<1>2. CASE DoNothing \/ Prepare \/ Deploys
  BY <1>2 DEF DoNothing, Prepare, Deploys, units, UnitsTyped, Running
<1> QED
  BY <1>1, <1>2, AboutUnit DEF SupervisedNext, Supervise

\* The attempts of a health check stay within its retries and are over with it.
Counted ==
    /\ supervisor \in Supervisors
    /\ attempt \in 0..Retries /\ changes \in 0..MaxChanges
    /\ attempt > 0 => At("healthcheck") /\ supervisor # "null"

LEMMA NextCounted ==
    ASSUME Counted, SupervisedNext
    PROVE  Counted'
<1> USE SupervisorsAssumption
<1>1. CASE attempt' = 0 /\ supervisor' = supervisor /\ changes' = changes
  BY <1>1 DEF Counted
<1>2. ASSUME NEW u \in Units, Start(u) \/ Stop(u) \/ Restart(u)
      PROVE  Counted'
  BY <1>1, <1>2 DEF Start, Stop, Restart, Succeed, Fail
<1>3. ASSUME NEW u \in Units, Healthcheck(u) PROVE Counted'
  <2>1. CASE attempt' = attempt + 1 /\ attempt < Retries /\ UNCHANGED vars
    BY <1>3, <2>1 DEF Healthcheck, Command, Counted, At, Cur, vars
  <2> QED
    BY <1>1, <1>3, <2>1 DEF Healthcheck, Succeed, Fail
<1>4. CASE DoNothing \/ Prepare
  BY <1>1, <1>4 DEF DoNothing, Prepare, Succeed, Fail
<1>5. CASE Deploys
  BY <1>1, <1>5 DEF Deploys
<1>6. ASSUME NEW u \in Units, Change(u) PROVE Counted'
  BY <1>6 DEF Change, Counted, At, Cur, vars
<1>7. ASSUME NEW u \in Units, Settle(u) PROVE Counted'
  BY <1>7 DEF Settle, Counted, At, Cur, vars
<1> QED
  BY <1>2, <1>3, <1>4, <1>5, <1>6, <1>7 DEF SupervisedNext, Supervise

LEMMA InitUnits == SupervisedInit => UnitsTyped /\ Counted
<1> SUFFICES ASSUME SupervisedInit PROVE UnitsTyped /\ Counted
  OBVIOUS
<1>1. TypeOK
  BY InitTypeInv DEF SupervisedInit, TypeInv
<1>2. \A u \in Units : OnHost(u) \in [Loads[u] -> Tree] /\ OnHost(u) # NotRunning
  BY <1>1, OnHostTyped
<1>3. Counted
  BY SupervisorsAssumption DEF SupervisedInit, Counted
<1>4. UnitsTyped
  <2> DEFINE h(u) == OnHost(u)
  <2>1. \A u \in Units : h(u) \in [Loads[u] -> Tree] /\ h(u) # NotRunning
    BY <1>2
  <2>2. loaded = [u \in Units |-> IF phase[u] = "off" THEN NotRunning ELSE h(u)]
    BY DEF SupervisedInit
  <2>3. phase \in [Units -> {"off", "ready"}]
    BY DEF SupervisedInit
  <2> HIDE DEF h
  <2> QED
    BY <2>1, <2>2, <2>3 DEF UnitsTyped, Running, Phases
<1> QED
  BY <1>3, <1>4

\* The processes' part of the type invariant is an invariant.
LEMMA UnitsAreTyped == SupervisedSpec => [](UnitsTyped /\ Counted)
<1>1. SupervisedInit => UnitsTyped /\ Counted
  BY InitUnits
<1>2. IInv /\ UnitsTyped /\ Counted /\ [SupervisedNext]_superVars
        => UnitsTyped' /\ Counted'
  <2> SUFFICES ASSUME IInv, UnitsTyped, Counted, [SupervisedNext]_superVars
               PROVE  UnitsTyped' /\ Counted'
    OBVIOUS
  <2>1. CASE SupervisedNext
    BY <2>1, NextUnitsTyped, NextCounted DEF IInv, TypeInv
  <2>2. CASE UNCHANGED superVars
    BY <2>2 DEF superVars, vars, units, UnitsTyped, Counted, Running, At, Cur
  <2> QED
    BY <2>1, <2>2
<1> QED
  BY <1>1, <1>2, DriverInvariant, PTL DEF SupervisedSpec

\* The processes, too, are of the right types: what runs has loaded trees, what
\* does not run is not ready, and a health check stays within its retries.
THEOREM SupervisedTypeCorrect == SupervisedSpec => []SupervisedTypeOK
<1>1. IInv /\ UnitsTyped /\ Counted => SupervisedTypeOK
  BY DEF IInv, TypeInv, UnitsTyped, Counted, SupervisedTypeOK
<1> QED
  BY <1>1, UnitsAreTyped, DriverInvariant, PTL

-----------------------------------------------------------------------------
(* What the processes hold *)

\* Every installation of the plan onto t comes before step r.
InstalledBefore(t, r) == \A i \in DOMAIN plan : Installs(i, t) => i < r

\* Step r, already done, restarts u.
RestartedAt(u, r) ==
    /\ r \in DOMAIN plan /\ r < step
    /\ plan[r].op = "restart" /\ plan[r].on = u

\* A health check of u has succeeded after step r.
CheckedAfter(u, r) ==
    \E h \in DOMAIN plan : /\ r < h /\ h < step
                           /\ plan[h].op = "healthcheck" /\ plan[h].on = u

\* The unit's last process has loaded.
Up(u) == phase[u] \in {"starting", "ready"}

\* The restart of u at step r is over.
RestartOver(u, r) == supervisor = "systemd" \/ Up(u) \/ CheckedAfter(u, r)

\* u runs the version of each directory that was installed before a restart of u
\* that is over.
Serves(u) ==
    Running(u) /\ phase[u] # "off" =>
        \A t \in Loads[u], r \in DOMAIN plan :
            /\ InScope(t) /\ InstalledBefore(t, r)
            /\ RestartedAt(u, r) /\ RestartOver(u, r)
            => loaded[u][t] = version

ServesInv ==
    pc \in Forward \cup {"installed"} /\ supervisor # "null" => \A u \in Units : Serves(u)

\* Once the last installation onto t is done, t holds the deployment's version.
LEMMA InstalledOnHost ==
    ASSUME IInv, pc \in Forward \cup {"installed"},
           NEW t \in Targets, InScope(t),
           NEW r \in DOMAIN plan, InstalledBefore(t, r), r <= step
    PROVE  host[t] = version
<1>1. plan \in Seq(Step) /\ step \in Nat
  BY PlansAssumption DEF IInv, TypeInv, TypeOK, WellFormed
<1>2. \A i \in DOMAIN plan : Installs(i, t) => i < step
  BY <1>1 DEF InstalledBefore
<1>3. \E i \in DOMAIN plan : i < step /\ Installs(i, t)
  BY <1>2 DEF InScope
<1>4. ~ InCopy(t)
  <2> SUFFICES ASSUME InCopy(t) PROVE FALSE
    OBVIOUS
  <2>1. step \in DOMAIN plan /\ Installs(step, t)
    BY DEF InCopy, IInv, TypeInv, AtStep, Installs, Cur
  <2> QED
    BY <1>1, <1>2, <2>1
<1> QED
  BY <1>3, <1>4 DEF IInv, PrefixInstalled

\* A unit that loads what is on the host serves it: when the driver is still at
\* the step, or has gone on from it.
LEMMA FreshServes ==
    ASSUME IInv, pc \in Forward \cup {"installed"}, NEW u \in Units,
           u \in DOMAIN loaded,
           loaded' = [loaded EXCEPT ![u] = OnHost(u)],
           plan' = plan, version' = version,
           step' = step \/ (step' = step + 1 /\ step \in DOMAIN plan)
    PROVE  Serves(u)'
<1>1. plan \in Seq(Step) /\ step \in Nat
  BY PlansAssumption DEF IInv, TypeInv, TypeOK, WellFormed
<1>2. Loads[u] \subseteq Targets
  BY SupervisorsAssumption
<1>3. \A t \in Loads[u] : loaded'[u][t] = host[t]
  BY DEF OnHost
<1> SUFFICES ASSUME NEW t \in Loads[u], NEW r \in DOMAIN plan,
                    InScope(t)', InstalledBefore(t, r)', RestartedAt(u, r)'
             PROVE  loaded'[u][t] = version
  BY DEF Serves
<1>4. InScope(t) /\ InstalledBefore(t, r)
  BY DEF InScope, InstalledBefore, Installs
<1>5. r <= step
  BY <1>1 DEF RestartedAt
<1> QED
  BY <1>2, <1>3, <1>4, <1>5, InstalledOnHost

\* A unit that nothing happens to serves what it served, whether the plan stays
\* where it is or goes on from a step that neither restarts nor checks it.
LEMMA SameServes ==
    ASSUME TypeOK, NEW u \in Units, Serves(u),
           loaded'[u] = loaded[u],
           UNCHANGED <<plan, version, supervisor>>,
           Up(u)' => Up(u), phase'[u] # "off" => phase[u] # "off",
           \/ step' = step
           \/ /\ step' = step + 1
              /\ Cur.on = u => Cur.op \notin {"restart", "healthcheck"}
    PROVE  Serves(u)'
<1>1. plan \in Seq(Step) /\ step \in Nat
  BY PlansAssumption DEF TypeOK, WellFormed
<1> SUFFICES ASSUME Running(u), phase'[u] # "off",
                    NEW t \in Loads[u], NEW r \in DOMAIN plan,
                    InScope(t)', InstalledBefore(t, r)',
                    RestartedAt(u, r)', RestartOver(u, r)'
             PROVE  loaded[u][t] = version
  BY DEF Serves, Running
<1>2. InScope(t) /\ InstalledBefore(t, r)
  BY DEF InScope, InstalledBefore, Installs
<1>3. RestartedAt(u, r)
  BY <1>1 DEF RestartedAt, Cur
<1>4. CheckedAfter(u, r)' => CheckedAfter(u, r)
  BY <1>1 DEF CheckedAfter, Cur
<1>5. RestartOver(u, r)
  BY <1>4 DEF RestartOver
<1> QED
  BY <1>2, <1>3, <1>5 DEF Serves

\* A rolled-out restart is not over: those before it, if they were, still are.
LEMMA RollingServes ==
    ASSUME TypeOK, NEW u \in Units, Serves(u), phase \in [Units -> Phases],
           RollOut(u), At("restart"), supervisor = "kubernetes",
           UNCHANGED <<plan, version, supervisor>>, step' = step + 1
    PROVE  Serves(u)'
<1>1. plan \in Seq(Step) /\ step \in Nat
  BY PlansAssumption DEF TypeOK, WellFormed
<1> SUFFICES ASSUME Running(u), phase'[u] # "off",
                    NEW t \in Loads[u], NEW r \in DOMAIN plan,
                    InScope(t)', InstalledBefore(t, r)',
                    RestartedAt(u, r)', RestartOver(u, r)'
             PROVE  loaded[u][t] = version
  BY DEF Serves, Running, RollOut
<1>2. InScope(t) /\ InstalledBefore(t, r)
  BY DEF InScope, InstalledBefore, Installs
<1>3. CheckedAfter(u, r)'
  BY DEF RestartOver, Up, RollOut, InPhase
<1>4. PICK h \in DOMAIN plan : /\ r < h /\ h < step + 1
                               /\ plan[h].op = "healthcheck" /\ plan[h].on = u
  BY <1>3 DEF CheckedAfter
<1>5. h # step
  BY <1>4 DEF At, Cur
<1>6. h < step /\ r < step
  BY <1>1, <1>4, <1>5
<1>7. RestartedAt(u, r) /\ RestartOver(u, r) /\ phase[u] # "off"
  BY <1>4, <1>6 DEF RestartedAt, RestartOver, CheckedAfter, RollOut, InPhase
<1> QED
  BY <1>2, <1>7 DEF Serves

\* A health check of a ready unit succeeds: a restart of it was over already.
LEMMA CheckedServes ==
    ASSUME TypeOK, NEW u \in Units, Serves(u), Passes(u), At("healthcheck"),
           UNCHANGED <<plan, version, supervisor, units>>, step' = step + 1
    PROVE  Serves(u)'
<1>1. plan \in Seq(Step) /\ step \in Nat
  BY PlansAssumption DEF TypeOK, WellFormed
<1> SUFFICES ASSUME Running(u), phase[u] # "off",
                    NEW t \in Loads[u], NEW r \in DOMAIN plan,
                    InScope(t)', InstalledBefore(t, r)', RestartedAt(u, r)'
             PROVE  loaded[u][t] = version
  BY DEF Serves, Running, units
<1>2. InScope(t) /\ InstalledBefore(t, r)
  BY DEF InScope, InstalledBefore, Installs
<1>3. RestartedAt(u, r) /\ RestartOver(u, r)
  BY <1>1 DEF RestartedAt, RestartOver, Up, Passes, At, Cur
<1> QED
  BY <1>2, <1>3 DEF Serves

\* A unit that has ended, or is to have none, serves nothing wrong.
LEMMA EndedServes ==
    ASSUME NEW u \in Units, u \in DOMAIN loaded, u \in DOMAIN phase,
           Ended(u, "off") \/ Ended(u, "due") \/ InPhase(u, "off")
    PROVE  Serves(u)'
BY DEF Ended, InPhase, Serves, Running

\* The step of a supervisor about unit u, seen from unit w.
LEMMA SuperviseServes ==
    ASSUME IInv, UnitsTyped, supervisor \in Supervisors, NEW w \in Units, Serves(w),
           NEW u \in Units, Start(u) \/ Stop(u) \/ Restart(u) \/ Healthcheck(u),
           pc' \in Forward \cup {"installed"}
    PROVE  Serves(w)'
<1>1. TypeOK /\ w \in DOMAIN loaded /\ w \in DOMAIN phase /\ phase \in [Units -> Phases]
  BY DEF IInv, TypeInv, UnitsTyped
<1>2. CASE UNCHANGED <<vars, units, supervisor>>
  BY <1>1, <1>2, SameServes DEF vars, units, Up
<1>3. CASE ~ UNCHANGED <<vars, units, supervisor>>
  <2>1. /\ pc = "dispatch" /\ step \in DOMAIN plan /\ Cur.on = u
        /\ pc \in Forward \cup {"installed"}
        /\ UNCHANGED supervisor
    BY DEF Start, Stop, Restart, Healthcheck, Command, At, Forward
  <2>2. Succeed
    BY <1>3 DEF Start, Stop, Restart, Healthcheck, Fail, Raise, Forward
  <2>3. step' = step + 1 /\ UNCHANGED <<plan, version>>
    BY <2>2 DEF Succeed, Effect, Done, job
  <2>4. CASE w # u
    <3>1. loaded'[w] = loaded[w] /\ phase'[w] = phase[w]
      BY <1>1, <2>4, AboutUnit DEF Touched, Loaded, Ended, Rephased, InPhase, units
    <3> QED
      BY <1>1, <2>1, <2>3, <2>4, <3>1, SameServes DEF Up
  <2>5. CASE w = u
    <3>1. ~ Fail
      BY DEF Fail, Raise, Forward
    <3>2. CASE Loaded(u)
      BY <1>1, <2>1, <2>3, <2>5, <3>2, FreshServes DEF Loaded
    <3>3. CASE Ended(u, "off") \/ Ended(u, "due") \/ InPhase(u, "off")
      BY <1>1, <2>5, <3>3, EndedServes
    <3>4. CASE Start(u) /\ UNCHANGED units
      <4>1. Cur.op \notin {"restart", "healthcheck"}
        BY <3>4 DEF Start, Command, At
      <4> QED
        BY <1>1, <2>1, <2>3, <2>5, <3>4, <4>1, SameServes DEF units, Up
    <3>5. CASE Restart(u) /\ RollOut(u) /\ supervisor = "kubernetes"
      BY <1>1, <2>1, <2>3, <2>5, <3>5, RollingServes DEF Restart, Command
    <3>6. CASE Healthcheck(u)
      <4>1. Passes(u) /\ At("healthcheck") /\ UNCHANGED units
        BY <1>3, <3>1, <3>6 DEF Healthcheck, Command
      <4> QED
        BY <1>1, <2>1, <2>3, <2>5, <4>1, CheckedServes
    <3>7. CASE Restart(u) /\ DoRestart(u)
      BY <3>2, <3>5, <3>7 DEF DoRestart, Kubernetes
    <3> QED
      BY <3>1, <3>2, <3>3, <3>4, <3>6, <3>7, CommandsTouch DEF Start, Stop, Restart
  <2> QED
    BY <2>4, <2>5
<1> QED
  BY <1>2, <1>3

\* A step of the deployment that no supervisor takes part in.
LEMMA DeploysServes ==
    ASSUME IInv, ServesInv, Deploys \/ Prepare
    PROVE  ServesInv'
<1>1. TypeOK /\ UNCHANGED <<units, supervisor>>
  BY DEF IInv, TypeInv, Deploys, Prepare
<1>2. CASE /\ UNCHANGED <<plan, version>>
           /\ pc \in Forward \cup {"installed"}
           /\ \/ step' = step
              \/ step' = step + 1 /\ Cur.op \notin {"restart", "healthcheck"}
  BY <1>1, <1>2, SameServes DEF ServesInv, units, Up
<1>3. CASE pc' \notin Forward \cup {"installed"}
  BY <1>3 DEF ServesInv
<1>4. ASSUME NEW p \in Plans, NEW v \in Versions, Begin(p, v) PROVE ServesInv'
  <2>1. step' = 1 /\ plan' \in Seq(Step)
    BY <1>4, PlansAssumption DEF Begin, WellFormed
  <2>2. ASSUME NEW u \in Units, NEW r \in DOMAIN plan' PROVE ~ RestartedAt(u, r)'
    <3>1. r >= 1
      BY <2>1
    <3> QED
      BY <2>1, <3>1 DEF RestartedAt
  <2> QED
    BY <2>2 DEF ServesInv, Serves
<1>5. CASE Skip \/ Prepare
  BY <1>2, <1>3, <1>5
  DEF Skip, Prepare, Succeed, Fail, At, Effect, Done, Raise, job, Forward
<1>6. CASE Install
  BY <1>2, <1>3, <1>6
  DEF Install, InstallRefused, InstallBegin, Wipe, Copy, At, Done, Raise, Goto, job,
      Forward, IInv, TypeInv, AtStep
<1>7. CASE SeedEnv
  BY <1>2, <1>3, <1>7
  DEF SeedEnv, WriteEnv, Seed, CheckRequiredEnv, At, Done, Raise, Goto, job,
      Forward, IInv, TypeInv, AtStep
<1>8. CASE Finish
  BY <1>2, <1>8 DEF Finish, Goto, job, Forward
<1>9. CASE Rollback \/ Crash
  BY <1>3, <1>9 DEF Rollback, UndoRemove, UndoRestore, UndoEnd, Crash, Goto, Forward
<1>10. ASSUME NEW f \in EnvFiles, OperatorEdits(f) PROVE ServesInv'
  BY <1>2, <1>3, <1>10 DEF OperatorEdits, job
<1> QED
  BY <1>4, <1>5, <1>6, <1>7, <1>8, <1>9, <1>10 DEF Deploys

LEMMA NextServes ==
    ASSUME IInv, UnitsTyped, Counted, ServesInv, [SupervisedNext]_superVars
    PROVE  ServesInv'
<1>1. TypeOK /\ DOMAIN loaded = Units /\ DOMAIN phase = Units /\ supervisor \in Supervisors
  BY DEF IInv, TypeInv, UnitsTyped, Counted
<1>2. ASSUME NEW u \in Units, Start(u) \/ Stop(u) \/ Restart(u) \/ Healthcheck(u)
      PROVE  ServesInv'
  <2>1. pc \in Forward \cup {"installed"} /\ supervisor # "null"
    BY <1>2 DEF Start, Stop, Restart, Healthcheck, Command, At, Forward
  <2> QED
    BY <1>1, <1>2, <2>1, SuperviseServes DEF ServesInv
<1>3. CASE DoNothing
  BY <1>3 DEF DoNothing, ServesInv
<1>4. CASE Deploys \/ Prepare
  BY <1>4, DeploysServes
<1>5. ASSUME NEW u \in Units, Change(u) \/ Settle(u), NEW w \in Units,
             pc' \in Forward \cup {"installed"}, supervisor' # "null"
      PROVE  Serves(w)'
  <2>1. UNCHANGED <<vars, supervisor>>
    BY <1>5 DEF Change, Settle
  <2>2. pc \in Forward \cup {"installed"} /\ UNCHANGED <<plan, version, step>> /\ Serves(w)
    BY <1>5, <2>1 DEF vars, ServesInv
  <2>3. CASE w # u
    <3>1. loaded'[w] = loaded[w] /\ phase'[w] = phase[w]
      BY <1>1, <1>5, <2>3, AboutUnit DEF Touched, Loaded, Ended, Rephased, InPhase, units
    <3> QED
      BY <1>1, <2>1, <2>2, <3>1, SameServes DEF Up
  <2>4. CASE w = u /\ Loaded(u)
    BY <1>1, <2>2, <2>4, FreshServes DEF Loaded
  <2>5. CASE w = u /\ (Ended(u, "off") \/ Ended(u, "due"))
    BY <1>1, <2>5, EndedServes
  <2>6. CASE w = u /\ UNCHANGED units
    BY <1>1, <2>1, <2>2, <2>6, SameServes DEF units, Up
  <2>7. CASE w = u /\ phase[u] = "starting" /\ InPhase(u, "ready") /\ UNCHANGED loaded
    BY <1>1, <2>1, <2>2, <2>7, SameServes DEF Up, InPhase
  <2>8. Change(u) => Ended(u, "off") \/ Ended(u, "due") \/ Loaded(u) \/ UNCHANGED units
    BY CommandsTouch DEF Change
  <2> QED
    BY <1>5, <2>3, <2>4, <2>5, <2>6, <2>7, <2>8 DEF Settle
<1>6. CASE UNCHANGED superVars
  BY <1>6 DEF superVars, vars, units, ServesInv, Serves, Running, InScope, Installs,
              InstalledBefore, RestartedAt, RestartOver, Up, CheckedAfter
<1> QED
  BY <1>2, <1>3, <1>4, <1>5, <1>6 DEF SupervisedNext, Supervise, ServesInv

\* When a deployment is installed, the processes that its plan restarted after
\* installing run what it installed, for every plan and however the processes
\* die, come back or take their time meanwhile.
THEOREM ServesCorrect == SupervisedSpec => []ServesWhatItInstalled
<1>1. SupervisedInit => UnitsTyped /\ Counted /\ ServesInv
  <2>1. SupervisedInit => ServesInv
    BY DEF SupervisedInit, Init, ServesInv, Forward
  <2> QED
    BY <2>1, InitUnits
<1>2. IInv /\ UnitsTyped /\ Counted /\ ServesInv /\ [SupervisedNext]_superVars
        => ServesInv'
  BY NextServes
<1>3. IInv /\ ServesInv => ServesWhatItInstalled
  <2> SUFFICES ASSUME IInv, ServesInv, pc = "installed", supervisor # "null",
                      NEW u \in Units, Running(u), phase[u] # "off", NEW t \in Loads[u],
                      InScope(t), RestartedWith(u, t)
               PROVE  loaded[u][t] = version
    BY DEF ServesWhatItInstalled, InScope
  <2>1. plan \in Seq(Step) /\ step = Len(plan) + 1
    BY PlansAssumption DEF IInv, TypeInv, TypeOK, WellFormed, AtStep
  <2>2. PICK r \in DOMAIN plan :
          /\ plan[r].op = "restart" /\ plan[r].on = u
          /\ InstalledBefore(t, r)
          /\ supervisor = "systemd" \/
                \E h \in DOMAIN plan :
                    h > r /\ plan[h].op = "healthcheck" /\ plan[h].on = u
    BY DEF RestartedWith, InstalledBefore
  <2>3. RestartedAt(u, r) /\ RestartOver(u, r)
    BY <2>1, <2>2 DEF RestartedAt, RestartOver, CheckedAfter
  <2> QED
    BY <2>2, <2>3 DEF ServesInv, Serves
<1>4. SupervisedSpec => [](UnitsTyped /\ Counted)
  BY UnitsAreTyped
<1> QED
  BY <1>1, <1>2, <1>3, <1>4, DriverInvariant, PTL DEF SupervisedSpec

-----------------------------------------------------------------------------
(* The collector beside the driver: types *)

\* What GCTypeOK says of the collector.
CollectorTyped ==
    /\ collector \in Collectors
    /\ owner \in Seq(Targets) /\ Len(owner) = Len(snapshots)
    /\ stale \subseteq DOMAIN snapshots
    /\ removing \in 0..Len(snapshots)

\* The driver adds at most one snapshot, and changes none; the one it adds is of
\* the directory it installs.
LEMMA DriverAppends ==
    ASSUME TypeInv, [Next]_vars
    PROVE  \/ snapshots' = snapshots
           \/ /\ Cur.on \in Targets
              /\ \E x \in Tree : snapshots' = Append(snapshots, x)
<1> USE DEF disk, job
<1>1. CASE InstallRefused \/ Crash
  <2>1. CASE HalfSnapshot
    <3>1. Cur.on \in Targets
      BY <2>1, PlanElement DEF HalfSnapshot, At, Cur, TypeInv
    <3> QED
      BY <2>1, <3>1, TreeMembers DEF HalfSnapshot
  <2> QED
    BY <1>1, <2>1 DEF InstallRefused, Crash
<1>2. CASE InstallBegin
  <2>1. Cur.on \in Targets
    BY <1>2, PlanElement DEF InstallBegin, At, Cur, TypeInv
  <2>2. host[Cur.on] \in Tree
    BY <2>1 DEF TypeInv, TypeOK
  <2> QED
    BY <1>2, <2>1, <2>2 DEF InstallBegin, SnapshotBefore
<1>3. CASE Wipe \/ Copy \/ Skip \/ Effect \/ SeedEnv \/ Finish \/ Rollback
  BY <1>3 DEF Wipe, Copy, Skip, Effect, SeedEnv, WriteEnv, Seed, CheckRequiredEnv, Finish,
              Rollback, UndoRemove, UndoRestore, UndoEnd
<1>4. CASE UNCHANGED vars \/ (\E p \in Plans, v \in Versions : Begin(p, v))
           \/ (\E f \in EnvFiles : OperatorEdits(f))
  BY <1>4 DEF Begin, OperatorEdits, vars
<1> QED
  BY <1>1, <1>2, <1>3, <1>4 DEF Next, Run, Install

LEMMA DriveTyped == TypeInv /\ CollectorTyped /\ Drive => TypeInv' /\ CollectorTyped'
<1> SUFFICES ASSUME TypeInv, CollectorTyped, Drive PROVE TypeInv' /\ CollectorTyped'
  OBVIOUS
<1>1. TypeInv'
  BY NextTypeInv DEF Drive
<1>2. /\ snapshots \in Seq(Tree) /\ owner \in Seq(Targets) /\ Len(owner) = Len(snapshots)
      /\ UNCHANGED <<collector, stale, removing>>
      /\ owner' = IF Len(snapshots') > Len(snapshots) THEN Append(owner, Cur.on) ELSE owner
  BY DEF Drive, TypeInv, TypeOK, CollectorTyped
<1>3. CASE snapshots' = snapshots
  BY <1>1, <1>2, <1>3 DEF CollectorTyped
<1>4. ASSUME Cur.on \in Targets, NEW x \in Tree, snapshots' = Append(snapshots, x)
      PROVE  CollectorTyped'
  <2>1. /\ Len(snapshots') = Len(snapshots) + 1 /\ Len(snapshots) \in Nat
        /\ DOMAIN snapshots = 1..Len(snapshots)
        /\ DOMAIN snapshots' = 1..(Len(snapshots) + 1)
    BY <1>2, <1>4
  <2>2. PICK t \in Targets : t = Cur.on
    BY <1>4
  <2>3. owner' = Append(owner, t)
    BY <1>2, <2>1, <2>2
  <2>4. owner' \in Seq(Targets) /\ Len(owner') = Len(owner) + 1
    BY <1>2, <2>3
  <2> QED
    BY <1>2, <2>1, <2>4 DEF CollectorTyped
<1> QED
  BY <1>1, <1>3, <1>4, DriverAppends DEF Drive

\* The collector changes what a snapshot holds and nothing else of the driver's.
Collects ==
    /\ UNCHANGED <<host, env, records, plan, version, step, undo, pc, deploys, before>>
    /\ snapshots' \in Seq(Tree) /\ Len(snapshots') = Len(snapshots)

LEMMA CollectorSteps ==
    ASSUME TypeInv, CollectorTyped,
           Scan \/ (\E i \in stale : RemoveBegin(i)) \/ RemoveEnd \/ Abandon
    PROVE  Collects /\ CollectorTyped' /\ Quiet /\ collector' = collector
<1>1. snapshots \in Seq(Tree)
  BY DEF TypeInv, TypeOK
<1>2. CASE Scan
  <2>1. PICK pick \in [{Segment[t] : t \in Targets} -> SUBSET Live] :
            stale' = UNION {pick[seg] : seg \in DOMAIN pick}
    BY <1>2 DEF Scan
  <2>2. stale' \subseteq DOMAIN snapshots
    BY <2>1 DEF Live
  <2> QED
    BY <1>1, <1>2, <2>2 DEF Scan, CollectorTyped, Collects, vars
<1>3. ASSUME NEW i \in stale, RemoveBegin(i)
      PROVE  Collects /\ CollectorTyped' /\ Quiet /\ collector' = collector
  <2>1. snapshots' = [snapshots EXCEPT ![i] = Torn] /\ i \in DOMAIN snapshots
    BY <1>3 DEF RemoveBegin, CollectorTyped
  <2>2. /\ snapshots' \in Seq(Tree) /\ Len(snapshots') = Len(snapshots)
        /\ DOMAIN snapshots' = DOMAIN snapshots /\ i \in 0..Len(snapshots)
    BY <1>1, <2>1, TreeMembers
  <2> QED
    BY <1>3, <2>2 DEF RemoveBegin, CollectorTyped, Collects, job
<1>4. CASE RemoveEnd
  <2>1. /\ snapshots' \in Seq(Tree) /\ Len(snapshots') = Len(snapshots)
        /\ DOMAIN snapshots' = DOMAIN snapshots
    <3>1. removing \in DOMAIN snapshots
      BY <1>1, <1>4 DEF RemoveEnd, CollectorTyped
    <3>2. CASE snapshots' = [snapshots EXCEPT ![removing] = Absent]
      BY <1>1, <3>1, <3>2, TreeMembers
    <3> QED
      BY <1>1, <1>4, <3>2 DEF RemoveEnd
  <2> QED
    BY <1>1, <1>4, <2>1 DEF RemoveEnd, CollectorTyped, Collects, job
<1>5. CASE Abandon
  BY <1>1, <1>5 DEF Abandon, CollectorTyped, Collects, vars
<1> QED
  BY <1>2, <1>3, <1>4, <1>5

LEMMA CollectsTypes == ASSUME TypeInv, Collects PROVE TypeInv'
BY DEF TypeInv, TypeOK, AtStep, OnDisk, Collects, Cur

\* Between deployments, what the snapshots hold matters to nothing the driver
\* has promised.
LEMMA CollectsAtRest ==
    ASSUME IInv, Collects, pc \in Resting
    PROVE  IInv'
<1>1. TypeInv'
  BY CollectsTypes DEF IInv
<1>2. pc' \in Resting /\ pc' \notin Working /\ pc' # "restore" /\ pc' \notin Forward
  BY DEF Collects, Resting, Working, Forward, Undoing
<1>3. WithinScope' /\ RollbackRestores' /\ PrefixInstalled'
  BY DEF IInv, Collects, WithinScope, RecordsInScope, OutsideKept, InScope, Installs,
         RollbackRestores, Protected, PrefixInstalled, InCopy, Cur
<1> QED
  BY <1>1, <1>2, <1>3 DEF IInv, PendingOnly, OldestIsBefore, SnapshotsRecorded, RestoringAbsent

-----------------------------------------------------------------------------
(* The driver beside the collector of its own process *)

\* The watcher deploys or collects, never both.
GCInv ==
    /\ TypeInv /\ CollectorTyped
    /\ collector = "watcher" => IInv

LEMMA GCInvInit == GCInit => GCInv
BY InitTypeInv, InitIInv DEF GCInit, GCInv, CollectorTyped, Init

LEMMA GCInvNext == GCInv /\ [GCNext]_gcVars => GCInv'
<1> SUFFICES ASSUME GCInv, [GCNext]_gcVars PROVE GCInv'
  OBVIOUS
<1>1. CASE Drive
  BY <1>1, DriveTyped, NextIInv DEF GCInv, Drive
<1>2. CASE Scan \/ (\E i \in stale : RemoveBegin(i)) \/ RemoveEnd \/ Abandon
  <2>1. Collects /\ CollectorTyped' /\ Quiet /\ collector' = collector
    BY <1>2, CollectorSteps DEF GCInv
  <2>2. TypeInv'
    BY <2>1, CollectsTypes DEF GCInv
  <2>3. collector = "watcher" => IInv'
    BY <2>1, CollectsAtRest DEF GCInv, Quiet
  <2> QED
    BY <2>1, <2>2, <2>3 DEF GCInv
<1>3. CASE UNCHANGED gcVars
  <2>1. TypeInv' /\ (IInv => IInv')
    BY <1>3, NextTypeInv, NextIInv DEF gcVars, GCInv
  <2> QED
    BY <1>3, <2>1 DEF gcVars, vars, GCInv, CollectorTyped
<1> QED
  BY <1>1, <1>2, <1>3 DEF GCNext

\* Types, whoever collects and whenever.
THEOREM GCTypeCorrect == GCSpec => []GCTypeOK
<1>1. GCInv => GCTypeOK
  BY DEF GCInv, GCTypeOK, TypeInv, CollectorTyped
<1> QED
  BY <1>1, GCInvInit, GCInvNext, PTL DEF GCSpec

\* The watcher's own collector does not disturb rollbacks: they restore every
\* protected directory, as if there were no collector.
THEOREM CollectedRollback == GCSpec => [](collector = "watcher" => RollbackRestores)
<1>1. GCInv => (collector = "watcher" => RollbackRestores)
  BY DEF GCInv, IInv
<1> QED
  BY <1>1, GCInvInit, GCInvNext, PTL DEF GCSpec

\* The only collector is the watcher's.
OwnCollector == collector = "watcher"

\* A host with the watcher's collector keeps the executor's promise: deployments
\* commit, are undone or break off, and no step of the collector shows.
THEOREM CollectedRefinement == GCSpec /\ OwnCollector => ImplementsAtomicDeploy
<1>1. GCInit => AllOrNothing!Init
  BY InitRefines DEF GCInit
<1>2. GCInv /\ OwnCollector /\ [GCNext]_gcVars
        => [AllOrNothing!Next]_(AllOrNothing!vars) /\ OwnCollector'
  <2> SUFFICES ASSUME GCInv, collector = "watcher", [GCNext]_gcVars
               PROVE  /\ [AllOrNothing!Next]_(AllOrNothing!vars)
                      /\ collector' = "watcher"
    BY DEF OwnCollector
  <2>1. CASE Drive
    BY <2>1, NextRefines DEF Drive, GCInv
  <2>2. CASE Scan \/ (\E i \in stale : RemoveBegin(i)) \/ RemoveEnd \/ Abandon
    <3>1. Collects /\ collector' = collector
      BY <2>2, CollectorSteps DEF GCInv
    <3>2. UNCHANGED AllOrNothing!vars
      BY <3>1 DEF Collects, AllOrNothing!vars, Installs, Protected
    <3> QED
      BY <3>1, <3>2
  <2>3. CASE UNCHANGED gcVars
    BY <2>3, NextRefines DEF gcVars, GCInv
  <2> QED
    BY <2>1, <2>2, <2>3 DEF GCNext
<1> QED
  BY <1>1, <1>2, GCInvInit, GCInvNext, PTL
  DEF GCSpec, AllOrNothing!Spec, ImplementsAtomicDeploy

-----------------------------------------------------------------------------
(* The snapshots of a directory *)

\* No two directories' ids end in the same part: what collect_snapshots takes for
\* one plugin's group is one plugin's.
DistinctSegments == \A s, t \in Targets : Segment[s] = Segment[t] => s = t

\* The snapshots of t that are not chosen to go.
Spared(t) == Of(t) \ (stale \cup {removing})

\* The collector takes each of the snapshots it has listed once.
ListInv == stale \subseteq Live /\ removing \notin stale

LEMMA OfFinite ==
    TypeInv => \A t : IsFiniteSet(Of(t)) /\ Cardinality(Of(t)) \in Nat
<1> SUFFICES ASSUME TypeInv, NEW t
             PROVE  IsFiniteSet(Of(t)) /\ Cardinality(Of(t)) \in Nat
  OBVIOUS
<1>1. snapshots \in Seq(Tree)
  BY DEF TypeInv, TypeOK
<1>2. IsFiniteSet(1..Len(snapshots)) /\ Of(t) \in SUBSET (1..Len(snapshots))
  <2>1. Len(snapshots) \in Int /\ DOMAIN snapshots = 1..Len(snapshots)
    BY <1>1
  <2> QED
    BY <2>1, FS_Interval DEF Of, Live
<1> QED
  BY <1>2, FS_Subset, FS_CardinalityType

\* More snapshots spared are not fewer.
LEMMA SparingMore ==
    ASSUME NEW S, NEW T, IsFiniteSet(T), S \subseteq T, Cardinality(S) >= Keep
    PROVE  Cardinality(T) >= Keep
<1>1. Cardinality(S) <= Cardinality(T) /\ IsFiniteSet(S)
  BY FS_Subset
<1>2. Cardinality(S) \in Nat /\ Cardinality(T) \in Nat /\ Keep \in Nat
  BY <1>1, FS_CardinalityType, GCConstants
<1> QED
  BY <1>1, <1>2

LEMMA KeptWhen ==
    ASSUME TypeInv', NEW t \in Targets,
           Cardinality(Spared(t)) >= Keep \/ Spared(t) = Of(t),
           \/ Spared(t) \subseteq Spared(t)' /\ (Spared(t) = Of(t) => Spared(t)' = Of(t)')
           \/ Spared(t)' = Of(t)'
    PROVE  Cardinality(Spared(t)') >= Keep \/ Spared(t)' = Of(t)'
<1>1. IsFiniteSet(Of(t)')
  <2>1. snapshots' \in Seq(Tree)
    BY DEF TypeInv, TypeOK
  <2>2. Len(snapshots') \in Int /\ DOMAIN snapshots' = 1..Len(snapshots')
    BY <2>1
  <2>3. IsFiniteSet(1..Len(snapshots')) /\ Of(t)' \in SUBSET (1..Len(snapshots'))
    BY <2>2, FS_Interval DEF Of, Live
  <2> QED
    BY <2>3, FS_Subset
<1>2. Spared(t)' \in SUBSET (Of(t)')
  BY DEF Spared
<1>3. IsFiniteSet(Spared(t)')
  BY <1>1, <1>2, FS_Subset
<1> QED
  BY <1>3, SparingMore

\* A snapshot the driver adds is nobody's choice.
LEMMA DriveKeeps ==
    ASSUME TypeInv, CollectorTyped, ListInv, Drive
    PROVE  /\ ListInv'
           /\ \A t \in Targets : /\ Spared(t) \subseteq Spared(t)'
                                 /\ Spared(t) = Of(t) => Spared(t)' = Of(t)'
<1>2. /\ snapshots \in Seq(Tree) /\ owner \in Seq(Targets) /\ Len(owner) = Len(snapshots)
      /\ Len(snapshots) \in Nat /\ DOMAIN snapshots = 1..Len(snapshots)
      /\ stale \subseteq DOMAIN snapshots /\ removing \in 0..Len(snapshots)
      /\ UNCHANGED <<stale, removing>>
      /\ owner' = IF Len(snapshots') > Len(snapshots) THEN Append(owner, Cur.on) ELSE owner
  BY DEF Drive, TypeInv, TypeOK, CollectorTyped
<1>3. CASE snapshots' = snapshots
  BY <1>2, <1>3 DEF ListInv, Spared, Of, Live
<1>4. ASSUME Cur.on \in Targets, NEW x \in Tree, snapshots' = Append(snapshots, x)
      PROVE  /\ ListInv'
             /\ \A t \in Targets : /\ Spared(t) \subseteq Spared(t)'
                                   /\ Spared(t) = Of(t) => Spared(t)' = Of(t)'
  <2>1. PICK n : n = Len(snapshots) + 1
    OBVIOUS
  <2>2. /\ DOMAIN snapshots' = 1..n /\ Len(snapshots') = n
        /\ \A i \in 1..Len(snapshots) : snapshots'[i] = snapshots[i]
        /\ n \notin DOMAIN snapshots /\ n \notin stale /\ removing # n
    BY <1>2, <1>4, <2>1
  <2>3. PICK c \in Targets : c = Cur.on
    BY <1>4
  <2>4. owner' = Append(owner, c)
    BY <1>2, <2>1, <2>2, <2>3
  <2>5. owner'[n] = c /\ \A i \in 1..Len(snapshots) : owner'[i] = owner[i]
    BY <1>2, <2>1, <2>3, <2>4
  <2>6. /\ Live \subseteq Live' /\ Live' \subseteq Live \cup {n}
        /\ n \notin Live
    BY <1>2, <2>1, <2>2 DEF Live
  <2>7. ASSUME NEW t \in Targets
        PROVE  /\ Of(t) \subseteq Of(t)' /\ Of(t)' \subseteq Of(t) \cup {n}
    BY <1>2, <2>5, <2>6 DEF Of, Live
  <2>8. ListInv'
    BY <1>2, <2>6 DEF ListInv
  <2>9. ASSUME NEW t \in Targets
        PROVE  /\ Spared(t) \subseteq Spared(t)'
               /\ Spared(t) = Of(t) => Spared(t)' = Of(t)'
    BY <1>2, <2>2, <2>7 DEF Spared
  <2> QED
    BY <2>8, <2>9
<1> QED
  BY <1>3, <1>4, DriverAppends DEF Drive

\* Of each group of snapshots the collector chooses all but Keep, and a group is
\* one directory's.
LEMMA ScanKeeps ==
    ASSUME DistinctSegments, TypeInv, CollectorTyped, Scan
    PROVE  /\ ListInv'
           /\ \A t \in Targets : Cardinality(Spared(t)') >= Keep \/ Spared(t)' = Of(t)'
<1>1. PICK pick \in [{Segment[t] : t \in Targets} -> SUBSET Live] :
        /\ \A seg \in DOMAIN pick : pick[seg] \in OldestOf(Group(seg))
        /\ stale' = UNION {pick[seg] : seg \in DOMAIN pick}
  BY DEF Scan
<1>2. /\ UNCHANGED <<snapshots, owner, removing>> /\ removing = 0
      /\ snapshots \in Seq(Tree) /\ 0 \notin DOMAIN snapshots
      /\ DOMAIN snapshots = 1..Len(snapshots)
      /\ owner \in Seq(Targets) /\ Len(owner) = Len(snapshots)
  BY DEF Scan, vars, TypeInv, TypeOK, CollectorTyped
<1>3. Live' = Live /\ 0 \notin Live /\ \A t : Of(t)' = Of(t)
  BY <1>2 DEF Live, Of
<1>4. ListInv'
  BY <1>1, <1>2, <1>3 DEF ListInv
<1>5. ASSUME NEW t \in Targets
      PROVE  Cardinality(Spared(t)') >= Keep \/ Spared(t)' = Of(t)'
  <2>1. Group(Segment[t]) = Of(t)
    <3>1. \A i \in Live : owner[i] \in Targets
      BY <1>2 DEF Live
    <3> QED
      BY <3>1 DEF Group, Of, DistinctSegments
  <2>2. PICK S \in SUBSET Of(t) :
          /\ S = pick[Segment[t]]
          /\ Cardinality(S) = Max({0, Cardinality(Of(t)) - Keep})
    BY <1>1, <2>1 DEF OldestOf
  <2>3. ASSUME NEW i \in Of(t), i \in stale' PROVE i \in S
    <3>1. PICK s \in Targets : i \in pick[Segment[s]]
      BY <1>1, <2>3
    <3>2. i \in Group(Segment[s])
      BY <1>1, <3>1 DEF OldestOf
    <3>3. Segment[s] = Segment[t]
      BY <2>3, <3>2 DEF Group, Of
    <3> QED
      BY <2>2, <3>1, <3>3
  <2>4. Spared(t)' = Of(t) \ S
    <3>1. S \subseteq stale'
      BY <1>1, <2>2
    <3> QED
      BY <1>2, <1>3, <2>2, <2>3, <3>1 DEF Spared, Of
  <2>5. /\ IsFiniteSet(Of(t)) /\ Cardinality(Of(t)) \in Nat /\ Keep \in Nat
    BY OfFinite, GCConstants
  <2>6. /\ Cardinality(Of(t) \ S) = Cardinality(Of(t)) - Cardinality(S)
        /\ IsFiniteSet(S)
    <3>1. Of(t) \cap S = S
      OBVIOUS
    <3> QED
      BY ZenonT(40), <2>5, <3>1, FS_Difference, FS_Subset
  <2>7. PICK m \in Int : m = Cardinality(Of(t)) - Keep
    BY <2>5
  <2>8. Max({0, m}) = IF m >= 0 THEN m ELSE 0
    BY DEF Max
  <2>9. CASE m >= 0
    BY <2>2, <2>4, <2>5, <2>6, <2>7, <2>8, <2>9
  <2>10. CASE ~ (m >= 0)
    <3>1. S = {}
      BY <2>2, <2>6, <2>7, <2>8, <2>10, FS_EmptySet
    <3> QED
      BY <1>3, <2>4, <3>1
  <2> QED
    BY <2>9, <2>10
<1> QED
  BY <1>4, <1>5

\* What the collector has begun to remove stays chosen until it is gone.
LEMMA RemovalKeeps ==
    ASSUME TypeInv, CollectorTyped, ListInv,
           (\E i \in stale : RemoveBegin(i)) \/ RemoveEnd \/ Abandon
    PROVE  /\ ListInv'
           /\ \A t \in Targets :
                \/ /\ Spared(t) \subseteq Spared(t)'
                   /\ Spared(t) = Of(t) => Spared(t)' = Of(t)'
                \/ Spared(t)' = Of(t)'
<1>1. snapshots \in Seq(Tree) /\ DOMAIN snapshots = 1..Len(snapshots) /\ 0 \notin DOMAIN snapshots
  BY DEF TypeInv, TypeOK
<1>2. ASSUME NEW i \in stale, RemoveBegin(i)
      PROVE  /\ ListInv'
             /\ \A t \in Targets : /\ Spared(t) \subseteq Spared(t)'
                                   /\ Spared(t) = Of(t) => Spared(t)' = Of(t)'
  <2>1. /\ snapshots' = [snapshots EXCEPT ![i] = Torn] /\ i \in Live
        /\ removing = 0 /\ removing' = i /\ stale' = stale \ {i} /\ owner' = owner
    BY <1>2 DEF RemoveBegin, ListInv
  <2>2. Live' = Live
    BY <2>1, MarkersAssumption DEF Live
  <2>3. \A t : Of(t)' = Of(t)
    BY <2>1, <2>2 DEF Of
  <2>4. 0 \notin Live
    BY <1>1 DEF Live
  <2>5. \A t \in Targets : Spared(t)' = Spared(t)
    BY <1>2, <2>1, <2>3, <2>4 DEF Spared, Of
  <2> QED
    BY <2>1, <2>2, <2>3, <2>5 DEF ListInv
<1>3. CASE RemoveEnd
  <2>1. removing # 0 /\ removing' = 0 /\ UNCHANGED <<owner, stale>>
    BY <1>3 DEF RemoveEnd
  <2>2. 0 \notin Live /\ 0 \notin stale
    BY <1>1 DEF Live, ListInv
  <2>3. CASE snapshots' = snapshots
    <3>1. Live' = Live /\ \A t : Of(t)' = Of(t)
      BY <2>1, <2>3 DEF Live, Of
    <3>2. ListInv'
      BY <2>1, <2>2, <3>1 DEF ListInv
    <3>3. \A t \in Targets : Spared(t)' = Of(t) \ stale
      BY <2>1, <2>2, <3>1 DEF Spared, Of
    <3> QED
      BY <3>1, <3>2, <3>3 DEF Spared
  <2>4. CASE snapshots' = [snapshots EXCEPT ![removing] = Absent]
    <3>1. removing \in DOMAIN snapshots
      BY <1>1, <2>1 DEF CollectorTyped
    <3>2. Live' = Live \ {removing}
      BY <1>1, <2>4, <3>1 DEF Live
    <3>3. \A t : Of(t)' = Of(t) \ {removing}
      BY <2>1, <3>2 DEF Of
    <3>4. ListInv'
      BY <2>1, <2>2, <3>2 DEF ListInv
    <3>5. \A t \in Targets : Spared(t)' = Spared(t)
      BY <2>1, <2>2, <3>3 DEF Spared, Of
    <3> QED
      BY <3>3, <3>4, <3>5 DEF Spared
  <2> QED
    BY <1>3, <2>3, <2>4 DEF RemoveEnd
<1>4. CASE Abandon
  <2>1. stale' = {} /\ removing' = 0 /\ UNCHANGED <<snapshots, owner>>
    BY <1>4 DEF Abandon, vars
  <2>2. Live' = Live /\ 0 \notin Live /\ \A t : Of(t)' = Of(t)
    BY <1>1, <2>1 DEF Live, Of
  <2>3. \A t \in Targets : Spared(t)' = Of(t)
    BY <2>1, <2>2 DEF Spared, Of
  <2> QED
    BY <2>1, <2>2, <2>3 DEF ListInv
<1> QED
  BY <1>2, <1>3, <1>4

KeepInv == GCInv /\ ListInv /\ KeepsPerDirectory

LEMMA KeepInvNext ==
    ASSUME DistinctSegments
    PROVE  KeepInv /\ [GCNext]_gcVars => KeepInv'
<1> SUFFICES ASSUME KeepInv, [GCNext]_gcVars PROVE KeepInv'
  OBVIOUS
<1>1. GCInv' /\ TypeInv'
  BY GCInvNext DEF KeepInv, GCInv
<1>2. /\ TypeInv /\ CollectorTyped /\ ListInv
      /\ \A t \in Targets : Cardinality(Spared(t)) >= Keep \/ Spared(t) = Of(t)
  BY DEF KeepInv, GCInv, KeepsPerDirectory, Spared
<1>3. ASSUME \A t \in Targets : Cardinality(Spared(t)') >= Keep \/ Spared(t)' = Of(t)'
      PROVE  KeepsPerDirectory'
  BY <1>3 DEF KeepsPerDirectory, Spared
<1>4. CASE Drive
  BY <1>1, <1>2, <1>3, <1>4, DriveKeeps, KeptWhen DEF KeepInv
<1>5. CASE Scan
  BY <1>1, <1>2, <1>3, <1>5, ScanKeeps DEF KeepInv
<1>6. CASE (\E i \in stale : RemoveBegin(i)) \/ RemoveEnd \/ Abandon
  BY <1>1, <1>2, <1>3, <1>6, RemovalKeeps, KeptWhen DEF KeepInv
<1>7. CASE UNCHANGED gcVars
  BY <1>1, <1>2, <1>7 DEF KeepInv, KeepsPerDirectory, gcVars, vars, ListInv, Of, Live
<1> QED
  BY <1>4, <1>5, <1>6, <1>7 DEF GCNext

\* As long as ids end in different parts, a directory loses a snapshot only when
\* Keep others of its own stay, be it while others are taken, when a removal
\* fails halfway or when the collector dies.
THEOREM KeepsCorrect ==
    ASSUME DistinctSegments
    PROVE  GCSpec => []KeepsPerDirectory
<1>1. GCInit => KeepInv
  <2> SUFFICES ASSUME GCInit PROVE KeepInv
    OBVIOUS
  <2>1. Live = {} /\ stale = {}
    BY DEF GCInit, Init, Live
  <2> QED
    BY <2>1, GCInvInit DEF KeepInv, ListInv, KeepsPerDirectory, Of
<1>2. KeepInv => KeepsPerDirectory
  BY DEF KeepInv
<1> QED
  BY <1>1, <1>2, KeepInvNext, PTL DEF GCSpec
=============================================================================
