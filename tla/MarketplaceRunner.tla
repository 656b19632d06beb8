------------------------- MODULE MarketplaceRunner -------------------------
(***************************************************************************)
(* agent/marketplace_pipeline.py and agent/marketplace_watcher.py: one slug  *)
(* of the marketplace, fetched, verified, installed and reported by          *)
(* MarketplaceDeploymentRunner.run().  Runs are started by the slug's        *)
(* watcher ("watch") and by an operator's deploy-marketplace ("manual"):     *)
(* two processes that share the host, the record of the slug and the         *)
(* working directories <slug>/<version>, but for <slug>/latest, which is the *)
(* operator's.                                                              *)
(*                                                                         *)
(* The install stage is one step here (module InstallDriver).                *)
(***************************************************************************)
EXTENDS Integers, Sequences

CONSTANTS
    MaxVersion,    \* versions of the slug: 1..MaxVersion
    Agents,        \* which of "watch" and "manual" are there
    Settings       \* kinds of trouble that may happen together; bounds of how
                   \* often, of publications and of the operator's runs; whether
                   \* the plan takes snapshots, whether there is a supervisor

AllTroubles == {"retryable",    \* a GET answered 404, 500, 502, 503 or 504
                "refused",      \* a GET answered with any other error
                "transport",    \* httpx raises
                "forged",       \* the signature does not match
                "unreadable",   \* not a ZIP, or an unsafe member
                "io_error",     \* a file cannot be read, opened or written
                "write_error",  \* the record cannot be written once it is truncated
                "bad_plan",     \* install.yaml is missing or for another slug
                "invalid_plan", \* install.yaml does not validate
                "step_error",   \* a step of the plan raises
                "rollback_error", "unreported", "crash"}

Version == 1..MaxVersion
Latest == 0     \* the version `latest`, whose directory has that name
Place == Version \cup {Latest}
NoTree == 0     \* nothing extracted in a working directory; nothing recorded
Torn == -1      \* a tree of which only a part is there
Corrupt == -1   \* a record that was truncated and not written

ASSUME MarketplaceConstants ==
    /\ MaxVersion \in Nat \ {0}
    /\ Agents \subseteq {"watch", "manual"}
    /\ \A s \in Settings :
         /\ s \in [troubles : SUBSET AllTroubles, often : Nat, publish : Nat, manual : Nat,
                   snapshots : BOOLEAN, supervised : BOOLEAN]
         /\ s.publish < MaxVersion

RETRY_ATTEMPTS == 3

Stages == << "PENDING", "FETCHING", "VERIFYING_SIGNATURE", "EXTRACTING",
             "LOADING_PLAN", "RESOLVING_SEQUENCE", "INSTALLING",
             "HEALTHCHECKING", "SUCCEEDED" >>
TERMINAL_STATES == {"SUCCEEDED", "FAILED", "ROLLED_BACK"}
States == {Stages[i] : i \in DOMAIN Stages} \cup TERMINAL_STATES

\* Mutant: the table forgets that fetching may fail.
TransitionsWithoutFetchFailure ==
    [s \in States |->
        {Stages[i + 1] : i \in {j \in 1..(Len(Stages) - 1) : Stages[j] = s}}
        \cup (IF s \in TERMINAL_STATES \cup {"PENDING", "FETCHING"} THEN {} ELSE {"FAILED"})
        \cup (IF s \in {"INSTALLING", "HEALTHCHECKING"} THEN {"ROLLED_BACK"} ELSE {})]

MARKETPLACE_TRANSITIONS ==
    [s \in States |->
        {Stages[i + 1] : i \in {j \in 1..(Len(Stages) - 1) : Stages[j] = s}}
        \cup (IF s \in TERMINAL_STATES \cup {"PENDING"} THEN {} ELSE {"FAILED"})
        \cup (IF s \in {"INSTALLING", "HEALTHCHECKING"} THEN {"ROLLED_BACK"} ELSE {})]

VARIABLES
    published,  \* the latest version at the marketplace
    host,       \* what the slug's directory under project_root holds
    record,     \* .xcore/state-<slug>.json
    dir,        \* what each working directory holds, extracted
    pc,         \* per agent: how far it is
    state,      \* per agent: MarketplaceDeploymentRunner.state
    version,    \* per agent: the version of its run, once it has answered
    place,      \* per agent: the working directory of its run
    attempt,    \* per agent: GETs of the artifact already answered
    written,    \* per agent, history: statuses in this run's local reports
    called,     \* per agent, history: this run called POST /deployments/report
    before,     \* per agent, history: host when its run began
    fleet,      \* history: the version of the last success the Hub was told of
    setting, publications, manual_runs, trouble

shared == <<published, host, record, dir, fleet>>
task == <<version, place, attempt>>
history == <<written, called, before>>
run == <<state, task, history>>
limits == <<setting, publications, manual_runs>>
bounds == <<limits, trouble>>
vars == <<shared, pc, run, bounds>>

Ended == {"idle", "raised", "escaped", "down"}

Init ==
    /\ published = 1
    /\ host \in {NoTree, 1}
    /\ record = host
    /\ dir = [q \in Place |-> NoTree]
    /\ pc = [a \in Agents |-> "idle"]
    /\ state = [a \in Agents |-> "PENDING"]
    /\ version = [a \in Agents |-> 1]
    /\ place = [a \in Agents |-> 1]
    /\ attempt = [a \in Agents |-> 0]
    /\ written = [a \in Agents |-> <<>>]
    /\ called = [a \in Agents |-> FALSE]
    /\ before = [a \in Agents |-> host]
    /\ fleet = host
    /\ setting \in Settings
    /\ publications = 0 /\ manual_runs = 0 /\ trouble = 0

Trouble(kind) ==
    /\ kind \in setting.troubles
    /\ trouble < setting.often
    /\ trouble' = trouble + 1

Publish ==
    /\ publications < setting.publish
    /\ published < MaxVersion
    /\ published' = published + 1
    /\ publications' = publications + 1
    /\ UNCHANGED <<host, record, dir, fleet, pc, run, setting, manual_runs, trouble>>

Goto(a, label) == pc' = [pc EXCEPT ![a] = label]

\* A run for the version q, or for the latest one.
NewRun(a, q) ==
    /\ pc[a] \in Ended
    /\ Goto(a, "running")
    /\ state' = [state EXCEPT ![a] = "PENDING"]
    /\ version' = [version EXCEPT ![a] = IF q = Latest THEN published ELSE q]
    /\ place' = [place EXCEPT ![a] = q]
    /\ attempt' = [attempt EXCEPT ![a] = 0]
    /\ written' = [written EXCEPT ![a] = <<>>]
    /\ called' = [called EXCEPT ![a] = FALSE]
    /\ before' = [before EXCEPT ![a] = host]
    /\ UNCHANGED shared

\* MarketplaceWatcher.check_once: the version found, if it is not the recorded
\* one, is deployed.  A record that is not JSON makes read() raise.
CheckOnce(a) ==
    /\ a = "watch"
    /\ record \notin {published, Corrupt}
    /\ NewRun(a, published)
    /\ UNCHANGED bounds

\* deploy-marketplace: a version of the operator's choice, or `latest`.
Manual(a, q) ==
    /\ a = "manual"
    /\ manual_runs < setting.manual
    /\ manual_runs' = manual_runs + 1
    /\ q <= published
    /\ NewRun(a, q)
    /\ UNCHANGED <<setting, publications, trouble>>

Transition(a, s) ==
    /\ s \in MARKETPLACE_TRANSITIONS[state[a]]
    /\ state' = [state EXCEPT ![a] = s]

Stage(a, from, to) == pc[a] = "running" /\ state[a] = from /\ Transition(a, to)

\* The next stage; a DeploymentError, which run() handles; another exception.
Goes == UNCHANGED <<pc, trouble>>
Fails(a, kind) == Trouble(kind) /\ Goto(a, "failing")
Escapes(a, kind) == Trouble(kind) /\ Goto(a, "escaped")

Fetch(a) ==
    /\ Stage(a, "PENDING", "FETCHING")
    /\ UNCHANGED <<shared, pc, task, history, bounds>>

\* Mutant: one attempt too many.
GetOnceMore(a) ==
    /\ pc[a] = "running" /\ state[a] = "FETCHING"
    /\ attempt[a] <= RETRY_ATTEMPTS
    /\ attempt' = [attempt EXCEPT ![a] = @ + 1]
    /\ \/ /\ Trouble("retryable")
          /\ IF attempt'[a] > RETRY_ATTEMPTS THEN Goto(a, "failing") ELSE UNCHANGED pc
       \/ Fails(a, "refused")
       \/ Escapes(a, "transport")
    /\ UNCHANGED <<shared, state, version, place, history, limits>>

\* _get_with_retry, an answer that is not the artifact: a retryable status is
\* tried again until the last attempt.
GetAgain(a) ==
    /\ pc[a] = "running" /\ state[a] = "FETCHING"
    /\ attempt[a] < RETRY_ATTEMPTS
    /\ attempt' = [attempt EXCEPT ![a] = @ + 1]
    /\ \/ /\ Trouble("retryable")
          /\ IF attempt'[a] = RETRY_ATTEMPTS THEN Goto(a, "failing") ELSE UNCHANGED pc
       \/ Fails(a, "refused")
       \/ Escapes(a, "transport")
    /\ UNCHANGED <<shared, state, version, place, history, limits>>

\* The artifact has come; its header says which version `latest` is.
VerifySignature(a) ==
    /\ Stage(a, "FETCHING", "VERIFYING_SIGNATURE")
    /\ attempt[a] < RETRY_ATTEMPTS
    /\ \/ /\ version' = [version EXCEPT ![a] = IF place[a] = Latest THEN published ELSE @]
          /\ Goes
       \/ Fails(a, "forged") /\ UNCHANGED version
    /\ UNCHANGED <<shared, place, attempt, history, limits>>

\* Another agent's collect_cache is removing the working directory of this run.
Collected(a) == \E b \in Agents : pc[b] = "collect" /\ version[b] # place[a]

\* Mutant: a directory that is there counts as extracted.
ExtractOnce(a) ==
    /\ Stage(a, "VERIFYING_SIGNATURE", "EXTRACTING")
    /\ \/ /\ IF dir[place[a]] = NoTree
             THEN dir' = [dir EXCEPT ![place[a]] = version[a]]
             ELSE UNCHANGED dir
          /\ Goes
       \/ /\ dir' = [dir EXCEPT ![place[a]] = Torn]
          /\ Fails(a, "unreadable") \/ Escapes(a, "io_error")
    /\ UNCHANGED <<published, host, record, fleet, task, history, limits>>

\* The slug's directory is removed, then the ZIP unpacked and flattened there; a
\* collector that removes it meanwhile takes a part away unnoticed.
Extract(a) ==
    /\ Stage(a, "VERIFYING_SIGNATURE", "EXTRACTING")
    /\ \/ dir' = [dir EXCEPT ![place[a]] = version[a]] /\ Goes
       \/ Collected(a) /\ dir' = [dir EXCEPT ![place[a]] = Torn] /\ Goes
       \/ /\ dir' = [dir EXCEPT ![place[a]] = Torn]
          /\ Fails(a, "unreadable") \/ Escapes(a, "io_error")
    /\ UNCHANGED <<published, host, record, fleet, task, history, limits>>

LoadPlan(a) ==
    /\ Stage(a, "EXTRACTING", "LOADING_PLAN")
    /\ Goes \/ Fails(a, "bad_plan") \/ Escapes(a, "invalid_plan")
    /\ UNCHANGED <<shared, task, history, limits>>

ResolveSequence(a) ==
    /\ Stage(a, "LOADING_PLAN", "RESOLVING_SEQUENCE")
    /\ UNCHANGED <<shared, pc, task, history, bounds>>

\* What a failed installation may leave where nothing undoes it.
Leftovers(a) == {host, Torn} \cup ({dir[place[a]]} \ {NoTree})

\* _install: what is extracted reaches the host; or a step raises, as one that
\* finds nothing extracted does, or whose tree is taken away while it copies, and
\* rollback() restores what has a snapshot; or rollback() raises too.
Install(a) ==
    /\ pc[a] = "running" /\ state[a] = "RESOLVING_SEQUENCE"
    /\ \/ /\ Transition(a, "INSTALLING")
          /\ dir[place[a]] # NoTree
          /\ host' = dir[place[a]]
          /\ Goes
       \/ /\ \/ Trouble("step_error")
             \/ (dir[place[a]] = NoTree \/ Collected(a)) /\ UNCHANGED trouble
          /\ host' \in IF setting.snapshots THEN {host} ELSE Leftovers(a)
          /\ state' = [state EXCEPT ![a] = IF "ROLLED_BACK" \in MARKETPLACE_TRANSITIONS["INSTALLING"]
                                           THEN "ROLLED_BACK" ELSE "INSTALLING"]
          /\ Goto(a, "failing")
       \/ /\ Transition(a, "INSTALLING")
          /\ host' \in Leftovers(a)
          /\ Escapes(a, "rollback_error")
    /\ UNCHANGED <<published, record, dir, fleet, task, history, limits>>

Healthcheck(a) ==
    /\ Stage(a, "INSTALLING", "HEALTHCHECKING")
    /\ UNCHANGED <<shared, pc, task, history, bounds>>

Succeed(a) ==
    /\ Stage(a, "HEALTHCHECKING", "SUCCEEDED")
    /\ Goto(a, "write_report")
    /\ UNCHANGED <<shared, task, history, bounds>>

\* `except DeploymentError` of run().
HandleError(a) ==
    /\ pc[a] = "failing"
    /\ IF state[a] \in TERMINAL_STATES THEN UNCHANGED state ELSE Transition(a, "FAILED")
    /\ Goto(a, "write_report")
    /\ UNCHANGED <<shared, task, history, bounds>>

Status(a) == CASE state[a] = "SUCCEEDED"   -> "success"
               [] state[a] = "ROLLED_BACK" -> "rolled_back"
               [] OTHER                    -> "failed"

\* _write_report: a JSON file under the run's working directory.  When it cannot
\* be written, run() ends there.
WriteReport(a) ==
    /\ pc[a] = "write_report"
    /\ \/ /\ written' = [written EXCEPT ![a] = Append(@, Status(a))]
          /\ Goto(a, "report")
          /\ UNCHANGED trouble
       \/ Escapes(a, "io_error") /\ UNCHANGED written
    /\ UNCHANGED <<shared, state, task, called, before, limits>>

\* What follows the report: run() returns to its caller, or raises.
After(a) == IF state[a] # "SUCCEEDED" THEN "raised"
            ELSE IF a = "watch" THEN "record" ELSE "idle"

\* Mutant: the version is reported as running whatever became of it.
ReportToHubBlindly(a) ==
    /\ pc[a] = "report"
    /\ \/ fleet' = version[a] /\ UNCHANGED trouble
       \/ Trouble("unreported") /\ UNCHANGED fleet
    /\ called' = [called EXCEPT ![a] = TRUE]
    /\ Goto(a, After(a))
    /\ UNCHANGED <<published, host, record, dir, state, task, written, before, limits>>

\* _report_to_hub never raises; the report may be lost.
ReportToHub(a) ==
    /\ pc[a] = "report"
    /\ \/ /\ fleet' = IF Status(a) = "success" THEN version[a] ELSE fleet
          /\ UNCHANGED trouble
       \/ Trouble("unreported") /\ UNCHANGED fleet
    /\ called' = [called EXCEPT ![a] = TRUE]
    /\ Goto(a, After(a))
    /\ UNCHANGED <<published, host, record, dir, state, task, written, before, limits>>

\* StateStore.write(): write_text truncates the file, unless it cannot be opened,
\* then writes it.
Truncate(a) ==
    /\ pc[a] = "record"
    /\ \/ record' = Corrupt /\ Goto(a, "write") /\ UNCHANGED trouble
       \/ Escapes(a, "io_error") /\ UNCHANGED record
    /\ UNCHANGED <<published, host, dir, fleet, run, limits>>

\* Mutant: the version that is the latest by now is recorded.
RecordLatest(a) ==
    /\ pc[a] = "write"
    /\ record' = published
    /\ Goto(a, "collect")
    /\ UNCHANGED <<published, host, dir, fleet, run, bounds>>

\* A full disk leaves the record truncated, as a crash does.
Record(a) ==
    /\ pc[a] = "write"
    /\ \/ record' = version[a] /\ Goto(a, "collect") /\ UNCHANGED trouble
       \/ Escapes(a, "write_error") /\ UNCHANGED record
    /\ UNCHANGED <<published, host, dir, fleet, run, limits>>

\* collect_cache of the slug's working directories, and of whoever uses them;
\* taking their sizes before or after it may raise.
Collect(a) ==
    /\ pc[a] = "collect"
    /\ LET kept == [q \in Place |-> IF q = version[a] THEN dir[q] ELSE NoTree] IN
          \/ dir' = kept /\ Goto(a, "restart") /\ UNCHANGED trouble
          \/ dir' \in {dir, kept} /\ Escapes(a, "io_error")
    /\ UNCHANGED <<published, host, record, fleet, run, limits>>

\* force_restart, which ends the tick also when it raises; of the process, see
\* module Watcher.
Restart(a) ==
    /\ pc[a] = "restart"
    /\ Goto(a, "idle")
    /\ UNCHANGED <<shared, run, bounds>>

\* The process dies; extracting or installing, it leaves a part.
Crash(a) ==
    /\ pc[a] \notin Ended
    /\ Trouble("crash")
    /\ \/ UNCHANGED <<dir, host>>
       \/ /\ state[a] = "VERIFYING_SIGNATURE"
          /\ dir' = [dir EXCEPT ![place[a]] = Torn] /\ UNCHANGED host
       \/ state[a] = "RESOLVING_SEQUENCE" /\ host' = Torn /\ UNCHANGED dir
    /\ Goto(a, "down")
    /\ UNCHANGED <<published, record, fleet, run, limits>>

Get(a) == Fetch(a) \/ GetAgain(a) \/ VerifySignature(a)
Prepare(a) == Extract(a) \/ LoadPlan(a) \/ ResolveSequence(a)
Deploy(a) == Install(a) \/ Healthcheck(a) \/ Succeed(a)
Report(a) == HandleError(a) \/ WriteReport(a) \/ ReportToHub(a)
Conclude(a) == Truncate(a) \/ Record(a) \/ Collect(a) \/ Restart(a)
Step(a) == CheckOnce(a) \/ Get(a) \/ Prepare(a) \/ Deploy(a) \/ Report(a) \/ Conclude(a)

Next == Publish \/ \E a \in Agents :
            Step(a) \/ Crash(a) \/ \E q \in Place : Manual(a, q)

Spec == Init /\ [][Next]_vars

\* The supervisor's command is the one thing in a tick that has no timeout.
MayHang(a) == pc[a] = "restart" /\ setting.supervised

\* Requests and provisioners have a timeout, runs of this flow have no supervisor,
\* and watch_forever polls again after every tick.
FairSpec == Spec /\ \A a \in Agents : WF_vars(~MayHang(a) /\ Step(a))

-----------------------------------------------------------------------------
(* Properties *)

\* Types; a GET is tried RETRY_ATTEMPTS times at most.
TypeOK ==
    /\ published \in Version
    /\ host \in Version \cup {NoTree, Torn}
    /\ record \in Version \cup {NoTree, Corrupt}
    /\ dir \in [Place -> Version \cup {NoTree, Torn}]
    /\ pc \in [Agents -> Ended \cup {"running", "failing", "write_report", "report",
                                     "record", "write", "collect", "restart"}]
    /\ state \in [Agents -> States]
    /\ version \in [Agents -> Version]
    /\ place \in [Agents -> Place]
    /\ attempt \in [Agents -> 0..RETRY_ATTEMPTS]
    /\ \A a \in Agents : written[a] \in {<<>>, <<"success">>, <<"failed">>, <<"rolled_back">>}
    /\ called \in [Agents -> BOOLEAN]
    /\ before \in [Agents -> Version \cup {NoTree, Torn}]
    /\ fleet \in Version \cup {NoTree}

\* The slug's watcher has been the only one to deploy, and its process lives.
Undisturbed == setting.manual = 0 /\ "crash" \notin setting.troubles

\* What a run reports is what it did to the host: after a success its version is
\* there, after a failure the host is as it was, and after a rollback too if the
\* plan takes snapshots.
ReportsTellTheHost ==
    Undisturbed =>
        \A a \in Agents :
            pc[a] \in {"report", "record", "write", "collect", "restart", "raised"} =>
                CASE written[a] = <<"success">> -> host = version[a]
                  [] written[a] = <<"failed">>  -> host = before[a]
                  [] OTHER -> setting.snapshots => host = before[a]

\* Whatever trouble there was, and whether or not plans take snapshots, the host
\* and its record end at the version the marketplace has; unless the record was
\* truncated and could not be written, so that no tick can read it, or the command
\* of a supervisor never ends.
Converges ==
    \/ ~Undisturbed
    \/ <>[](record = Corrupt)
    \/ <>[](\E a \in Agents : MayHang(a))
    \/ <>[](host = published /\ record = published)

\* A run that fails with a DeploymentError ends in a final state, its failure
\* written down and the marketplace called; unless its process dies, or its report
\* cannot be written, and then the state is final at least.
FailuresEndReported ==
    \A a \in Agents :
        pc[a] = "failing" ~>
            \/ /\ pc[a] = "raised" /\ state[a] \in {"FAILED", "ROLLED_BACK"}
               /\ written[a] = <<Status(a)>> /\ called[a]
            \/ pc[a] = "escaped" /\ state[a] \in {"FAILED", "ROLLED_BACK"}
            \/ pc[a] = "down"

\* docs/marketplace.md:70-73: as long as its reports arrive and its runs end
\* with a report, the marketplace shows which version runs on the host, if the
\* plan takes snapshots.
FleetViewTrue ==
    /\ setting.manual = 0 /\ setting.snapshots
    /\ setting.troubles \cap {"crash", "unreported", "io_error", "rollback_error"} = {}
    /\ \A a \in Agents : pc[a] \in Ended
    => fleet = host
=============================================================================
