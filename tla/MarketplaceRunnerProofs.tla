----------------------- MODULE MarketplaceRunnerProofs -----------------------
(***************************************************************************)
(* Proofs about MarketplaceRunner, for any number of versions and of          *)
(* retries, publications and runs, and any mixture of troubles: what a run    *)
(* reports is what it did to the host, and what the Hub was told is what the  *)
(* host has.                                                                 *)
(***************************************************************************)
EXTENDS MarketplaceRunner, TLAPS

Before == {"running", "failing", "write_report"}
Told == {"report", "record", "write", "collect", "restart", "raised"}

Bounds == setting \in Settings /\ manual_runs \in Nat /\ DOMAIN written = Agents

\* Where a run is determines how it went: it has not reported before it is over,
\* fails in the middle of its stages only, and is recorded when it succeeded.
RunInv(a) ==
    /\ setting.manual = 0 /\ a # "watch" => pc[a] = "idle" /\ written[a] = <<>>
    /\ pc[a] \in Before => written[a] = <<>>
    /\ pc[a] = "running" => state[a] \notin TERMINAL_STATES
    /\ pc[a] = "failing" => state[a] # "SUCCEEDED"
    /\ pc[a] \in {"write_report", "report", "raised"} => state[a] \in TERMINAL_STATES
    /\ pc[a] \in {"record", "write", "collect", "restart"} => state[a] = "SUCCEEDED"
    /\ pc[a] = "raised" => state[a] # "SUCCEEDED"
    /\ pc[a] \in Told => written[a] = <<Status(a)>>

Runs == \A a \in Agents : RunInv(a)

\* The run has put its version on the host.
Installed(a) == state[a] \in {"INSTALLING", "HEALTHCHECKING", "SUCCEEDED"}

Extracted(a) == pc[a] = "running"
                /\ state[a] \in {"EXTRACTING", "LOADING_PLAN", "RESOLVING_SEQUENCE"}

\* Rolled back without snapshots: nothing was restored.
LeftAsItFell(a) == state[a] = "ROLLED_BACK" /\ ~setting.snapshots

\* The working directory holds the run's version once it is extracted, nothing
\* fails once it is installed, and the host has it exactly from then on.
HostAt(a) ==
    /\ Extracted(a) => dir[place[a]] = version[a]
    /\ pc[a] = "failing" => ~Installed(a)
    /\ pc[a] \in Before \cup Told /\ ~LeftAsItFell(a) =>
         host = IF Installed(a) THEN version[a] ELSE before[a]

HostInv == Undisturbed => \A a \in Agents : HostAt(a)

\* No report is lost and no run ends without one, or without restoring it, after
\* changing the host.
Reporting ==
    /\ setting.manual = 0 /\ setting.snapshots
    /\ setting.troubles \cap {"crash", "unreported", "io_error", "rollback_error"} = {}

\* The Hub knows what was there before the run until it is told how the run went.
FleetAt(a) == fleet = IF pc[a] \in Before \cup {"report"} THEN before[a] ELSE host

FleetInv == Reporting => IF "watch" \in Agents THEN FleetAt("watch") ELSE fleet = host

Inv == TypeOK /\ Bounds /\ Runs /\ HostInv /\ FleetInv

-----------------------------------------------------------------------------
(* Lemmas *)

LEMMA StatesListed ==
    States = {"PENDING", "FETCHING", "VERIFYING_SIGNATURE", "EXTRACTING", "LOADING_PLAN",
              "RESOLVING_SEQUENCE", "INSTALLING", "HEALTHCHECKING", "SUCCEEDED", "FAILED",
              "ROLLED_BACK"}
<1>1. DOMAIN Stages = 1..9
  BY DEF Stages
<1>2. {Stages[i] : i \in 1..9} = {"PENDING", "FETCHING", "VERIFYING_SIGNATURE", "EXTRACTING",
        "LOADING_PLAN", "RESOLVING_SEQUENCE", "INSTALLING", "HEALTHCHECKING", "SUCCEEDED"}
  <2>1. \A i \in 1..9 : i = 1 \/ i = 2 \/ i = 3 \/ i = 4 \/ i = 5 \/ i = 6 \/ i = 7 \/ i = 8
                          \/ i = 9
    OBVIOUS
  <2>2. /\ Stages[1] = "PENDING" /\ Stages[2] = "FETCHING"
        /\ Stages[3] = "VERIFYING_SIGNATURE" /\ Stages[4] = "EXTRACTING"
        /\ Stages[5] = "LOADING_PLAN" /\ Stages[6] = "RESOLVING_SEQUENCE"
        /\ Stages[7] = "INSTALLING" /\ Stages[8] = "HEALTHCHECKING"
        /\ Stages[9] = "SUCCEEDED"
    BY DEF Stages
  <2> QED
    BY <2>1, <2>2
<1> QED
  BY <1>1, <1>2 DEF States, TERMINAL_STATES

\* A step that raises leaves the run rolled back.
LEMMA InstallRollsBack == "ROLLED_BACK" \in MARKETPLACE_TRANSITIONS["INSTALLING"]
BY StatesListed DEF MARKETPLACE_TRANSITIONS

LEMMA OneMore == ASSUME NEW n \in 0..3, n < 3 PROVE n + 1 \in 0..3
OBVIOUS

LEMMA TypesNext ==
    ASSUME TypeOK, Bounds, Runs, [Next]_vars
    PROVE  TypeOK' /\ Bounds'
<1> USE DEF TypeOK, Bounds, Ended, shared, task, history, run, limits, bounds, Goto, Goes, Fails, Escapes,
            Trouble, Stage, Transition, RETRY_ATTEMPTS, Version, Latest, Place, NoTree, Torn, Corrupt
<1>1. CASE Publish
  BY <1>1, MarketplaceConstants DEF Publish
<1>2. ASSUME NEW a \in Agents, CheckOnce(a) \/ \E q \in Place : Manual(a, q)
      PROVE  TypeOK' /\ Bounds'
  <2>1. PICK q \in Place : NewRun(a, q)
    BY <1>2 DEF CheckOnce, Manual
  <2>2. TypeOK'
    BY <2>1, StatesListed DEF NewRun
  <2>3. Bounds'
    <3>1. UNCHANGED setting /\ manual_runs' \in Nat
      BY <1>2 DEF CheckOnce, Manual
    <3>2. DOMAIN written' = Agents
      BY <2>1 DEF NewRun
    <3> QED
      BY <3>1, <3>2
  <2> QED
    BY <2>2, <2>3
<1>3. ASSUME NEW a \in Agents, Get(a) PROVE TypeOK' /\ Bounds'
  <2>1. CASE Fetch(a)
    BY <2>1, StatesListed DEF Fetch
  <2>3. CASE VerifySignature(a)
    <3>1. version' \in [Agents -> Version]
      BY <2>3 DEF VerifySignature
    <3> QED
      BY <2>3, <3>1, StatesListed DEF VerifySignature
  <2>2. CASE GetAgain(a)
    <3>1. attempt[a] < 3 /\ attempt' = [attempt EXCEPT ![a] = attempt[a] + 1]
      BY <2>2 DEF GetAgain
    <3>2. attempt[a] + 1 \in 0..3
      BY <3>1, OneMore
    <3> QED
      BY ZenonT(40), <2>2, <3>1, <3>2 DEF GetAgain
  <2> QED
    BY <1>3, <2>1, <2>2, <2>3 DEF Get
<1>4. ASSUME NEW a \in Agents, Prepare(a) PROVE TypeOK' /\ Bounds'
  BY <1>4, StatesListed DEF Prepare, Extract, LoadPlan, ResolveSequence
<1>5. ASSUME NEW a \in Agents, Deploy(a) PROVE TypeOK' /\ Bounds'
  <2>1. CASE Install(a)
    <3>1. dir[place[a]] \in Version \cup {NoTree, Torn}
      OBVIOUS
    <3>2. host' \in Version \cup {NoTree, Torn} /\ UNCHANGED setting
      BY <2>1, <3>1 DEF Install, Leftovers
    <3>3. state' \in [Agents -> States]
      BY ZenonT(40), <2>1, StatesListed DEF Install
    <3>4. pc' \in [Agents -> Ended \cup {"running", "failing", "write_report", "report",
                                         "record", "write", "collect", "restart"}]
      BY ZenonT(40), <2>1 DEF Install
    <3>5. UNCHANGED <<published, record, dir, fleet, task, history, manual_runs>>
      BY <2>1 DEF Install
    <3> QED
      BY <3>2, <3>3, <3>4, <3>5
  <2>2. CASE Healthcheck(a) \/ Succeed(a)
    BY <2>2, StatesListed DEF Healthcheck, Succeed
  <2> QED
    BY <1>5, <2>1, <2>2 DEF Deploy
<1>6. ASSUME NEW a \in Agents, HandleError(a) PROVE TypeOK' /\ Bounds'
  BY <1>6, StatesListed DEF HandleError
<1>7. ASSUME NEW a \in Agents, WriteReport(a) PROVE TypeOK' /\ Bounds'
  <2>1. written[a] = <<>>
    BY <1>7 DEF WriteReport, Runs, RunInv, Before
  <2>2. Status(a) \in {"success", "failed", "rolled_back"}
    BY DEF Status
  <2>3. \A s : Append(written[a], s) = <<s>>
    BY <2>1
  <2>4. written' = written
        \/ \E s \in {"success", "failed", "rolled_back"} : written' = [written EXCEPT ![a] = <<s>>]
    BY <1>7, <2>2, <2>3 DEF WriteReport
  <2>5. /\ DOMAIN written' = Agents
        /\ \A b \in Agents :
             written'[b] \in {<<>>, <<"success">>, <<"failed">>, <<"rolled_back">>}
    BY <2>4
  <2>6. UNCHANGED <<shared, state, task, called, before, setting, manual_runs>>
        /\ pc' \in [Agents -> Ended \cup {"running", "failing", "write_report", "report",
                                         "record", "write", "collect", "restart"}]
    BY <1>7 DEF WriteReport
  <2> QED
    BY <2>5, <2>6
<1>8. ASSUME NEW a \in Agents, ReportToHub(a) PROVE TypeOK' /\ Bounds'
  BY <1>8 DEF ReportToHub, After
<1>9. ASSUME NEW a \in Agents, Conclude(a) PROVE TypeOK' /\ Bounds'
  <2>1. CASE Truncate(a)
    BY <2>1 DEF Truncate
  <2>2. CASE Record(a)
    <3>1. record' \in Version \cup {NoTree, Corrupt}
      BY <2>2 DEF Record
    <3> QED
      BY <2>2, <3>1 DEF Record
  <2>3. CASE Collect(a)
    BY <2>3 DEF Collect
  <2>4. CASE Restart(a)
    BY <2>4 DEF Restart
  <2> QED
    BY <1>9, <2>1, <2>2, <2>3, <2>4 DEF Conclude
<1>10. ASSUME NEW a \in Agents, Crash(a) PROVE TypeOK' /\ Bounds'
  BY <1>10 DEF Crash
<1>11. CASE UNCHANGED vars
  BY <1>11 DEF vars
<1> QED
  BY <1>1, <1>2, <1>3, <1>4, <1>5, <1>6, <1>7, <1>8, <1>9, <1>10, <1>11
  DEF Next, Step, Report

LEMMA RunsNext ==
    ASSUME TypeOK, Bounds, Runs, [Next]_vars
    PROVE  Runs'
<1> USE DEF TypeOK, Bounds, Runs, RunInv, Ended, Before, Told, Goto, Goes, Fails, Escapes,
            Stage, Transition, TERMINAL_STATES, Status, shared, task, history, run, limits, bounds
<1>1. CASE Publish
  BY <1>1 DEF Publish
<1>2. ASSUME NEW a \in Agents, NEW q \in Place, NewRun(a, q),
             setting.manual = 0 => a = "watch", setting' = setting
      PROVE  Runs'
  <2>1. /\ pc'[a] = "running" /\ state'[a] = "PENDING" /\ written'[a] = <<>>
        /\ \A b \in Agents \ {a} : /\ pc'[b] = pc[b] /\ state'[b] = state[b]
                                  /\ written'[b] = written[b]
    BY <1>2, StatesListed DEF NewRun
  <2>2. \A b \in Agents \ {a} : RunInv(b)'
    BY <1>2, <2>1
  <2>3. RunInv(a)'
    BY <1>2, <2>1
  <2> QED
    BY <2>2, <2>3
<1>3. ASSUME NEW a \in Agents, CheckOnce(a) \/ \E q \in Place : Manual(a, q) PROVE Runs'
  <2>1. setting.manual = 0 => a = "watch"
    BY <1>3 DEF CheckOnce, Manual
  <2> QED
    BY <1>2, <1>3, <2>1 DEF CheckOnce, Manual, Place
<1>4. ASSUME NEW a \in Agents, Get(a) PROVE Runs'
  BY <1>4 DEF Get, Fetch, GetAgain, VerifySignature, Trouble
<1>5. ASSUME NEW a \in Agents, Prepare(a) PROVE Runs'
  BY <1>5 DEF Prepare, Extract, LoadPlan, ResolveSequence, Trouble
<1>6. ASSUME NEW a \in Agents, Deploy(a) PROVE Runs'
  BY <1>6, InstallRollsBack DEF Deploy, Install, Healthcheck, Succeed, Trouble
<1>7. ASSUME NEW a \in Agents, HandleError(a) PROVE Runs'
  BY <1>7 DEF HandleError
<1>8. ASSUME NEW a \in Agents, WriteReport(a) PROVE Runs'
  <2>1. written[a] = <<>>
    BY <1>8 DEF WriteReport
  <2>2. \A x : Append(written[a], x) = <<x>>
    BY <2>1
  <2>3. UNCHANGED <<state, setting>>
    BY <1>8 DEF WriteReport
  <2>4. CASE pc' = [pc EXCEPT ![a] = "report"] /\ written' = [written EXCEPT ![a] = <<Status(a)>>]
    <3>1. RunInv(a)'
      BY <1>8, <2>3, <2>4 DEF WriteReport
    <3>2. \A b \in Agents \ {a} : RunInv(b)'
      BY <2>3, <2>4
    <3> QED
      BY <3>1, <3>2
  <2>5. CASE pc' = [pc EXCEPT ![a] = "escaped"] /\ written' = written
    BY <1>8, <2>3, <2>5 DEF WriteReport
  <2> QED
    BY <1>8, <2>2, <2>4, <2>5 DEF WriteReport
<1>9. ASSUME NEW a \in Agents, ReportToHub(a) PROVE Runs'
  BY <1>9 DEF ReportToHub, After, Trouble
<1>10. ASSUME NEW a \in Agents, Conclude(a) PROVE Runs'
  BY <1>10 DEF Conclude, Truncate, Record, Collect, Restart
<1>11. ASSUME NEW a \in Agents, Crash(a) PROVE Runs'
  BY <1>11 DEF Crash, Trouble
<1>12. CASE UNCHANGED vars
  BY <1>12 DEF vars
<1> QED
  BY <1>1, <1>2, <1>3, <1>4, <1>5, <1>6, <1>7, <1>8, <1>9, <1>10, <1>11, <1>12
  DEF Next, Step, Report

LEMMA SettingKept == ASSUME [Next]_vars PROVE UNCHANGED setting
<1>1. ASSUME NEW a \in Agents, Step(a) PROVE UNCHANGED setting
  BY <1>1 DEF Step, CheckOnce, Get, Fetch, GetAgain, VerifySignature, Prepare, Extract,
    LoadPlan, ResolveSequence, Deploy, Install, Healthcheck, Succeed, Report, HandleError,
    WriteReport, ReportToHub, Conclude, Truncate, Record, Collect, Restart, limits, bounds
<1>2. ASSUME NEW a \in Agents, Crash(a) \/ \E q \in Place : Manual(a, q)
      PROVE  UNCHANGED setting
  BY <1>2 DEF Crash, Manual, limits
<1> QED
  BY <1>1, <1>2 DEF Next, Publish, vars, bounds, limits

\* While nobody else deploys, every step but a publication is the watcher's, and
\* leaves the other agents idle.
LEMMA WatcherAlone ==
    ASSUME TypeOK, Bounds, Runs, setting.manual = 0, NEW a \in Agents,
           Step(a) \/ Crash(a) \/ \E q \in Place : Manual(a, q)
    PROVE  /\ a = "watch" /\ (Step(a) \/ Crash(a))
           /\ \A b \in Agents \ {a} : pc'[b] = "idle"
<1>1. \A q \in Place : ~Manual(a, q)
  BY DEF Manual, Bounds
<1>2. a = "watch"
  <2> SUFFICES ASSUME a # "watch" PROVE FALSE
    OBVIOUS
  <2>1. pc[a] = "idle"
    BY DEF Runs, RunInv
  <2> QED
    BY <1>1, <2>1 DEF Step, CheckOnce, Get, Fetch, GetAgain, VerifySignature, Prepare, Extract,
      LoadPlan, ResolveSequence, Deploy, Install, Healthcheck, Succeed, Report, HandleError,
      WriteReport, ReportToHub, Conclude, Truncate, Record, Collect, Restart, Crash, Stage, Ended
<1>3. \E l : pc' = [pc EXCEPT ![a] = l]
  <2>1. CASE CheckOnce(a) \/ Get(a) \/ Prepare(a)
    BY <2>1 DEF CheckOnce, NewRun, Get, Fetch, GetAgain, VerifySignature, Prepare, Extract,
      LoadPlan, ResolveSequence, Goto, Goes, Fails, Escapes, TypeOK
  <2>2. CASE Deploy(a) \/ Report(a) \/ Conclude(a) \/ Crash(a)
    BY <2>2 DEF Deploy, Install, Healthcheck, Succeed, Report, HandleError, WriteReport,
      ReportToHub, Conclude, Truncate, Record, Collect, Restart, Crash, Goto, Goes, Fails, Escapes,
      TypeOK
  <2> QED
    BY <1>1, <2>1, <2>2 DEF Step
<1>4. \A b \in Agents \ {a} : pc'[b] = "idle"
  BY <1>2, <1>3 DEF Runs, RunInv, TypeOK
<1> QED
  BY <1>1, <1>2, <1>3, <1>4

-----------------------------------------------------------------------------
(* The host *)

\* Nobody else's collector is there.
LEMMA NoCollector ==
    ASSUME Runs, setting.manual = 0, NEW a \in Agents, pc[a] = "running"
    PROVE  ~Collected(a)
BY DEF Runs, RunInv, Collected

\* A step of the watcher keeps the host to its run.
LEMMA HostAtNext ==
    ASSUME TypeOK, Bounds, Runs, NEW a \in Agents, HostAt(a), Step(a),
           Undisturbed
    PROVE  HostAt(a)'
<1> USE DEF TypeOK, HostAt, LeftAsItFell, Extracted, Installed, Before, Told, Goto, Goes,
            Fails, Escapes, Stage, Transition, shared, task, history, run, limits, bounds
<1>1. CASE CheckOnce(a)
  BY <1>1, StatesListed DEF CheckOnce, NewRun
<1>2. CASE Get(a)
  BY <1>2 DEF Get, Fetch, GetAgain, VerifySignature
<1>3. CASE Prepare(a)
  BY <1>3, NoCollector DEF Prepare, Extract, LoadPlan, ResolveSequence, Undisturbed
<1>4. CASE Deploy(a)
  BY <1>4, NoCollector, InstallRollsBack
  DEF Deploy, Install, Healthcheck, Succeed, Undisturbed
<1>5. CASE HandleError(a)
  BY <1>5, StatesListed DEF HandleError, TERMINAL_STATES
<1>6. CASE WriteReport(a) \/ ReportToHub(a)
  BY <1>6 DEF WriteReport, ReportToHub, After
<1>7. CASE Conclude(a)
  BY <1>7 DEF Conclude, Truncate, Record, Collect, Restart
<1> QED
  BY <1>1, <1>2, <1>3, <1>4, <1>5, <1>6, <1>7 DEF Step, Report

LEMMA HostNext ==
    ASSUME TypeOK, Bounds, Runs, HostInv, [Next]_vars
    PROVE  HostInv'
<1>1. CASE Publish
  BY <1>1 DEF Publish, HostInv, HostAt, LeftAsItFell, Undisturbed, Extracted, Installed, run,
    task, history
<1>2. ASSUME NEW a \in Agents,
             Step(a) \/ Crash(a) \/ \E q \in Place : Manual(a, q), Undisturbed'
      PROVE  HostInv'
  <2>1. UNCHANGED setting
    BY SettingKept
  <2>2. Undisturbed /\ setting.manual = 0
    BY <1>2, <2>1 DEF Undisturbed
  <2>3. ~Crash(a)
    BY <2>2 DEF Crash, Trouble, Undisturbed
  <2>4. Step(a) /\ \A b \in Agents \ {a} : pc'[b] = "idle"
    BY <1>2, <2>2, <2>3, WatcherAlone
  <2>5. HostAt(a)'
    BY <2>2, <2>4, HostAtNext DEF HostInv
  <2>6. \A b \in Agents \ {a} : HostAt(b)'
    BY <2>4 DEF HostAt, Extracted, Before, Told
  <2> QED
    BY <2>5, <2>6 DEF HostInv
<1>3. CASE UNCHANGED vars
  BY <1>3 DEF vars, shared, task, history, run, limits, bounds, HostInv, HostAt,
    LeftAsItFell, Undisturbed, Extracted, Installed
<1> QED
  BY <1>1, <1>2, <1>3 DEF Next, HostInv

-----------------------------------------------------------------------------
(* The Hub's view *)

LEMMA FleetAtNext ==
    ASSUME TypeOK, Bounds, Runs, NEW a \in Agents, HostAt(a), FleetAt(a), Step(a),
           Reporting
    PROVE  FleetAt(a)'
<1> USE DEF TypeOK, HostAt, LeftAsItFell, FleetAt, Installed, Before, Told, Goto, Goes, Fails, Escapes,
            Stage, Transition, Trouble, Reporting, shared, task, history, run, limits, bounds
<1>1. CASE CheckOnce(a)
  BY <1>1 DEF CheckOnce, NewRun, Ended
<1>2. CASE Get(a)
  BY <1>2 DEF Get, Fetch, GetAgain, VerifySignature
<1>3. CASE Prepare(a)
  BY <1>3 DEF Prepare, Extract, LoadPlan, ResolveSequence
<1>4. CASE Deploy(a)
  BY <1>4 DEF Deploy, Install, Healthcheck, Succeed
<1>5. CASE HandleError(a) \/ WriteReport(a)
  BY <1>5 DEF HandleError, WriteReport
<1>6. CASE ReportToHub(a)
  BY <1>6 DEF ReportToHub, After, Status, Runs, RunInv, TERMINAL_STATES
<1>7. CASE Conclude(a)
  BY <1>7 DEF Conclude, Truncate, Record, Collect, Restart
<1> QED
  BY <1>1, <1>2, <1>3, <1>4, <1>5, <1>6, <1>7 DEF Step, Report

LEMMA FleetNext ==
    ASSUME TypeOK, Bounds, Runs, HostInv, FleetInv, [Next]_vars
    PROVE  FleetInv'
<1>1. CASE Publish
  BY <1>1 DEF Publish, FleetInv, FleetAt, Reporting, run, history
<1>2. ASSUME NEW a \in Agents,
             Step(a) \/ Crash(a) \/ \E q \in Place : Manual(a, q), Reporting'
      PROVE  FleetInv'
  <2>1. UNCHANGED setting
    BY SettingKept
  <2>2. Reporting /\ Undisturbed /\ setting.manual = 0
    BY <1>2, <2>1 DEF Reporting, Undisturbed
  <2>3. ~Crash(a)
    BY <2>2 DEF Crash, Trouble, Undisturbed
  <2>4. Step(a) /\ a = "watch"
    BY <1>2, <2>2, <2>3, WatcherAlone
  <2>5. FleetAt(a)'
    BY <2>2, <2>4, FleetAtNext DEF HostInv, FleetInv
  <2> QED
    BY <2>4, <2>5 DEF FleetInv
<1>3. CASE UNCHANGED vars
  BY <1>3 DEF vars, shared, task, history, run, limits, bounds, FleetInv, FleetAt, Reporting
<1> QED
  BY <1>1, <1>2, <1>3 DEF Next, FleetInv

-----------------------------------------------------------------------------
(* The theorems *)

LEMMA InvInit == Init => Inv
<1> SUFFICES ASSUME Init PROVE Inv
  OBVIOUS
<1>1. TypeOK
  BY StatesListed, MarketplaceConstants
  DEF Init, TypeOK, Version, Latest, Place, NoTree, Torn, Corrupt, Ended, RETRY_ATTEMPTS
<1>2. Bounds /\ Runs
  BY DEF Init, Bounds, Runs, RunInv, Before, Told
<1>3. HostInv /\ FleetInv
  BY DEF Init, HostInv, HostAt, Extracted, FleetInv, FleetAt, Before, Told
<1> QED
  BY <1>1, <1>2, <1>3 DEF Inv

LEMMA InvNext == Inv /\ [Next]_vars => Inv'
BY TypesNext, RunsNext, HostNext, FleetNext DEF Inv

\* The inductive invariant: types, how a run went by where it is, what the host
\* has and what the Hub knows of it.
THEOREM InductiveInvariant == Spec => []Inv
BY InvInit, InvNext, PTL DEF Spec

\* Every variable stays within its type, and a GET is tried RETRY_ATTEMPTS times
\* at most.
THEOREM TypeCorrect == Spec => []TypeOK
<1>1. Inv => TypeOK
  BY DEF Inv
<1> QED
  BY <1>1, InductiveInvariant, PTL

\* While nobody else deploys the slug and the process lives, a run's report is
\* what it did to the host.
THEOREM ReportsCorrect == Spec => []ReportsTellTheHost
<1>1. Inv => ReportsTellTheHost
  <2> SUFFICES ASSUME Inv, Undisturbed, NEW a \in Agents, pc[a] \in Told
               PROVE  CASE written[a] = <<"success">> -> host = version[a]
                        [] written[a] = <<"failed">>  -> host = before[a]
                        [] OTHER -> setting.snapshots => host = before[a]
    BY DEF ReportsTellTheHost, Told
  <2>1. written[a] = <<Status(a)>> /\ Status(a) \in {"success", "failed", "rolled_back"}
    BY DEF Inv, Runs, RunInv, Told, Status
  <2>2. Status(a) = "success" <=> Installed(a)
    BY DEF Inv, Runs, RunInv, Status, Installed, Told, TERMINAL_STATES
  <2>3. Status(a) = "rolled_back" <=> state[a] = "ROLLED_BACK"
    BY DEF Status
  <2>4. ~LeftAsItFell(a) => host = IF Installed(a) THEN version[a] ELSE before[a]
    BY DEF Inv, HostInv, HostAt, Told
  <2>5. CASE Status(a) = "success"
    BY <2>1, <2>2, <2>3, <2>4, <2>5 DEF LeftAsItFell
  <2>6. CASE Status(a) = "failed"
    BY <2>1, <2>2, <2>3, <2>4, <2>6 DEF LeftAsItFell
  <2>7. CASE Status(a) = "rolled_back"
    BY <2>1, <2>2, <2>3, <2>4, <2>7 DEF LeftAsItFell
  <2> QED
    BY <2>1, <2>5, <2>6, <2>7
<1> QED
  BY <1>1, InductiveInvariant, PTL

\* As long as reports arrive and every run that changed the host ends with one,
\* the marketplace shows between runs what the host has.
THEOREM FleetViewCorrect == Spec => []FleetViewTrue
<1>1. Inv => FleetViewTrue
  BY DEF Inv, FleetInv, FleetAt, Reporting, FleetViewTrue, Ended, Before
<1> QED
  BY <1>1, InductiveInvariant, PTL
=============================================================================
