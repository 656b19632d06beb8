------------------------------- MODULE Watcher -------------------------------
(***************************************************************************)
(* agent/watcher.py with agent/state_store.py and the part of agent/gc.py   *)
(* it calls: poll the Hub for the latest version, deploy it when the record *)
(* in .xcore/state.json says another one, write the record, collect, restart *)
(* the plugins one by one if there is a supervisor.  An exception anywhere  *)
(* ends the tick and the loop goes on with the next one; the process may     *)
(* die between any two steps, and operators deploy by hand at any time.      *)
(*                                                                         *)
(* A deployment is one step here, with the ends DeploymentRunner gives it;   *)
(* what is collected is left to SnapshotGC and MarketplaceRunner.            *)
(***************************************************************************)
EXTENDS Integers, FiniteSets

CONSTANTS
    MaxVersion,  \* the Hub publishes versions 1..MaxVersion
    PluginCount, \* plugins of the manifest, restarted in this order
    Supervisors, \* kinds of supervisor the watcher may be started with
    Troubles,    \* which troubles may happen, out of AllTroubles
    MaxTroubles, \* bound: how often one does
    MaxPublish   \* bound: how often the Hub changes its latest version

\* `--supervisor`: none (the default), systemd or docker, whose restart returns
\* when the new process is there, and kubernetes, whose restart orders one.
SupervisorKinds == {"none", "systemd", "kubernetes"}

AllTroubles == {"poll_error",     \* the Hub cannot be reached
                "deploy_error",   \* the run fails, the host keeps its version
                "notify_error",   \* the run fails after the install stage
                "rollback_error", \* the run fails, its rollback raises or finds no snapshot
                "open_error",     \* the record cannot be opened
                "write_error",    \* the record cannot be written once it is truncated
                "collect_error",  \* the collector cannot read a file or a directory
                "restart_error",  \* the supervisor cannot restart a plugin
                "crash",          \* the agent's process dies
                "manual_deploy",  \* an operator runs `xcore-agent deploy`
                "revert"}         \* the Hub goes back to an older version

ASSUME WatcherConstants ==
    /\ MaxVersion \in Nat \ {0} /\ PluginCount \in Nat
    /\ MaxTroubles \in Nat /\ MaxPublish \in Nat
    /\ Supervisors \subseteq SupervisorKinds
    /\ Troubles \subseteq AllTroubles

Version == 1..MaxVersion
Plugin == 1..PluginCount

Torn == -1    \* host: neither version whole
NoRecord == 0 \* .xcore/state.json does not exist
Corrupt == -1 \* .xcore/state.json was truncated and not written

VARIABLES
    latest_on_hub,
    host,       \* the version project_root holds
    record,     \* what .xcore/state.json holds
    process,    \* the version each plugin's process has loaded
    rolling,    \* plugins whose new process is ordered and not there yet
    supervisor,
    pc,
    latest,     \* check_once's own copy of the latest version
    next,       \* the plugin force_restart is at
    published, trouble,
    seen        \* history: kinds of trouble so far

vars == <<latest_on_hub, host, record, process, rolling, supervisor, pc, latest, next,
          published, trouble, seen>>
disk == <<host, record>>
hub == <<latest_on_hub, published>>
processes == <<process, rolling, supervisor>>
troubles == <<trouble, seen>>

Init ==
    /\ latest_on_hub = 1
    /\ host = 1
    /\ record \in {NoRecord, 1}
    /\ process = [p \in Plugin |-> 1]
    /\ rolling = {}
    /\ supervisor \in Supervisors
    /\ pc = "sleep"
    /\ latest = 1
    /\ next = 1
    /\ published = 0
    /\ trouble = 0
    /\ seen = {}

Trouble(kind) ==
    /\ kind \in Troubles
    /\ trouble < MaxTroubles
    /\ trouble' = trouble + 1
    /\ seen' = seen \cup {kind}

\* The Hub publishes a version, or withdraws the latest one.
Publish(v) ==
    /\ published < MaxPublish
    /\ published' = published + 1
    /\ \/ v > latest_on_hub /\ UNCHANGED troubles
       \/ v < latest_on_hub /\ Trouble("revert")
    /\ latest_on_hub' = v
    /\ UNCHANGED <<disk, processes, pc, latest, next>>

\* authenticate and get_latest_version: an error ends the tick.
Poll ==
    /\ pc = "sleep"
    /\ \/ latest' = latest_on_hub /\ pc' = "compare" /\ UNCHANGED troubles
       \/ Trouble("poll_error") /\ UNCHANGED <<latest, pc>>
    /\ UNCHANGED <<disk, hub, processes, next>>

\* StateStore.read() raises on a file that is not JSON, which ends the tick.
Compare ==
    /\ pc = "compare"
    /\ pc' = IF record \in {latest, Corrupt} THEN "sleep" ELSE "deploy"
    /\ UNCHANGED <<disk, hub, processes, latest, next, troubles>>

Deploy ==
    /\ pc = "deploy"
    /\ \/ host' = latest /\ pc' = "open" /\ UNCHANGED troubles
       \/ Trouble("deploy_error") /\ pc' = "sleep" /\ UNCHANGED host
       \/ Trouble("notify_error") /\ pc' = "sleep" /\ host' = latest
       \/ Trouble("rollback_error") /\ pc' = "sleep" /\ host' \in {host, latest, Torn}
    /\ UNCHANGED <<record, hub, processes, latest, next>>

\* StateStore.write(): write_text truncates the file, unless it cannot be opened,
\* then writes it.
Truncate ==
    /\ pc = "open"
    /\ \/ record' = Corrupt /\ pc' = "write" /\ UNCHANGED troubles
       \/ Trouble("open_error") /\ pc' = "sleep" /\ UNCHANGED record
    /\ UNCHANGED <<host, hub, processes, latest, next>>

\* Mutant: the record names what the Hub says by now.
WriteHubLatest ==
    /\ pc = "write"
    /\ record' = latest_on_hub
    /\ pc' = "collect"
    /\ UNCHANGED <<host, hub, processes, latest, next, troubles>>

\* A full disk leaves the record truncated, as a crash does.
Write ==
    /\ pc = "write"
    /\ \/ record' = latest /\ pc' = "collect" /\ UNCHANGED troubles
       \/ Trouble("write_error") /\ pc' = "sleep" /\ UNCHANGED record
    /\ UNCHANGED <<host, hub, processes, latest, next>>

\* collect() up to force_restart: sizes, snapshots, cache.
Collect ==
    /\ pc = "collect"
    /\ \/ pc' = "restart" /\ next' = 1 /\ UNCHANGED troubles
       \/ Trouble("collect_error") /\ pc' = "sleep" /\ UNCHANGED next
    /\ UNCHANGED <<disk, hub, processes, latest>>

Supervised == supervisor # "none" /\ next <= PluginCount

\* The supervisor restarts the plugin: its process has loaded what is on the host,
\* or, under Kubernetes, is going to.
Restarted ==
    /\ IF supervisor = "kubernetes"
       THEN rolling' = rolling \cup {next} /\ UNCHANGED process
       ELSE process' = [process EXCEPT ![next] = host] /\ UNCHANGED rolling
    /\ next' = next + 1
    /\ UNCHANGED supervisor

\* Mutant: force_restart stops one plugin short.
RestartAllButLast ==
    /\ pc = "restart"
    /\ \/ Supervised /\ next < PluginCount /\ Restarted /\ UNCHANGED pc
       \/ next >= PluginCount /\ pc' = "sleep" /\ UNCHANGED <<processes, next>>
    /\ UNCHANGED <<disk, hub, latest, troubles>>

\* Mutant: force_restart runs one plugin too far.
RestartPastEnd ==
    /\ pc = "restart"
    /\ next' = next + 1
    /\ pc' = IF next > PluginCount THEN "sleep" ELSE pc
    /\ UNCHANGED <<disk, hub, processes, latest, troubles>>

\* force_restart: nothing without a supervisor; a restart that raises leaves the
\* plugins after it alone.
Restart ==
    /\ pc = "restart"
    /\ \/ ~Supervised /\ pc' = "sleep" /\ UNCHANGED <<processes, next, troubles>>
       \/ Supervised /\ Restarted /\ UNCHANGED <<pc, troubles>>
       \/ /\ Supervised
          /\ Trouble("restart_error")
          /\ pc' = "sleep"
          /\ UNCHANGED <<processes, next>>
    /\ UNCHANGED <<disk, hub, latest>>

\* A process comes up by itself, at the end of a rollout or after its death, and
\* loads what is on the host by then.
Load(p) ==
    /\ process' = [process EXCEPT ![p] = host]
    /\ rolling' = rolling \ {p}
    /\ UNCHANGED <<disk, hub, supervisor, pc, latest, next, troubles>>

\* The agent's process dies; in a deployment, it may leave the host torn.
Crash ==
    /\ Trouble("crash")
    /\ pc' = "sleep"
    /\ host' \in IF pc = "deploy" THEN {host, latest, Torn} ELSE {host}
    /\ UNCHANGED <<record, hub, processes, latest, next>>

\* `xcore-agent deploy` installs a version of the operator's choice, or breaks off,
\* wherever the watcher is, and leaves .xcore/state.json alone.
ManualDeploy(v) ==
    /\ Trouble("manual_deploy")
    /\ host' \in {v, Torn}
    /\ UNCHANGED <<record, hub, processes, pc, latest, next>>

Tick == Poll \/ Compare \/ Deploy \/ Truncate \/ Write \/ Collect \/ Restart

Next ==
    \/ Tick
    \/ Crash
    \/ \E v \in Version : Publish(v) \/ ManualDeploy(v)
    \/ \E p \in Plugin : Load(p)

Spec == Init /\ [][Next]_vars

\* What has no timeout: git in a run that resolves sources, and the command of a
\* supervisor.
MayHang == pc = "deploy" \/ (pc = "restart" /\ Supervised)

\* watch_forever polls again after every tick, however it ended; Hub calls have a
\* timeout.  A process need not come up by itself.
FairSpec == Spec /\ WF_vars(~MayHang /\ Tick)

-----------------------------------------------------------------------------
(* Properties *)

\* Types; host, record and processes hold versions or the markers of a crash.
TypeOK ==
    /\ latest_on_hub \in Version /\ latest \in Version
    /\ host \in Version \cup {Torn}
    /\ record \in Version \cup {NoRecord, Corrupt}
    /\ process \in [Plugin -> Version \cup {Torn}]
    /\ rolling \subseteq Plugin
    /\ supervisor \in Supervisors
    /\ pc \in {"sleep", "compare", "deploy", "open", "write", "collect", "restart"}
    /\ next \in 1..(PluginCount + 1)
    /\ published \in 0..MaxPublish
    /\ trouble \in 0..MaxTroubles
    /\ seen \subseteq Troubles

\* While the Hub only goes forward and nobody deploys by hand, a readable
\* record never names a version newer than what is on the host: it may lag
\* behind after a failure, so that the version is deployed again.
RecordNeverAhead ==
    seen \cap {"revert", "manual_deploy"} = {} =>
        (record \in Version /\ host # Torn => record <= host)

\* What a tick has restarted runs the version the record names, or is going to
\* load it once its rollout ends, whatever the Hub published meanwhile, unless
\* somebody deploys by hand.
RestartedOnRecord ==
    pc = "restart" /\ "manual_deploy" \notin seen =>
        /\ record = host
        /\ \A p \in Plugin : p < next => process[p] = record \/ p \in rolling

Settled ==
    /\ host = latest_on_hub
    /\ record = latest_on_hub
    /\ supervisor # "none" =>
          \A p \in Plugin : process[p] = latest_on_hub \/ p \in rolling

\* Troubles after which a tick may never try again what is left to do.
NotRetried == {"write_error", "collect_error", "restart_error", "crash",
               "manual_deploy", "revert"}

\* Once the Hub settles, host and record settle on its version, and every process
\* that is supervised, however often the Hub could not be reached, a run failed
\* before or after its install stage, a rollback raised or the record could not be
\* opened; unless something that has no timeout never ends.
Converges == <>(seen \cap NotRetried # {}) \/ <>[]MayHang \/ <>[]Settled

\* gc.py:11-14: force_restart makes sure that a running plugin process drops
\* what it held in memory.
ProcessesFollow == <>[]MayHang \/ <>[](\A p \in Plugin : process[p] = host)
=============================================================================
