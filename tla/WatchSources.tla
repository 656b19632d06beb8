---------------------------- MODULE WatchSources ----------------------------
(***************************************************************************)
(* watch_sources.py: check_once() compares every marketplace source of       *)
(* install.yaml with what .xcore/watch-sources-state.json records, merges    *)
(* the newer ones into the project and writes the record at the end;         *)
(* watch_forever() repeats it, or exits after an update so that its          *)
(* container is started again.  resolve_sources.py: what such a start may    *)
(* run before, to rebuild the sources from the pins of install.yaml.         *)
(***************************************************************************)
EXTENDS Integers, Sequences

CONSTANTS
    MaxVersion,     \* versions a source may have: 1..MaxVersion
    Plans,          \* source steps of install.yaml, in their order
    Modes,          \* how the container runs: [exit_on_update, boot_resolves]
    Troubles,       \* kinds of trouble that may happen
    MaxTroubles,    \* bound: how often
    MaxPublish      \* bound: publications

AllTroubles == {"check_error", "fetch_error", "io_error", "crash", "revert"}

Version == 1..MaxVersion
None == 0         \* nothing recorded; a pin to "latest"
Torn == -1        \* a tree whose merge stopped halfway

ASSUME WatchSourcesConstants ==
    /\ MaxVersion \in Nat \ {0} /\ MaxTroubles \in Nat /\ MaxPublish \in Nat
    /\ Plans \subseteq Seq([git : BOOLEAN, pin : Version \cup {None}])
    /\ Modes \subseteq [exit_on_update : BOOLEAN, boot_resolves : BOOLEAN]
    /\ Troubles \subseteq AllTroubles

VARIABLES
    plan,       \* install.yaml
    mode,       \* --exit-on-update; whether its start runs `resolve-sources`
    published,  \* latest version of each source at the marketplace
    built,      \* what resolve-sources fetched first, and its cache keeps
    tree,       \* what each source's directory holds
    file,       \* what watch-sources-state.json records
    state,      \* check_once: its copy of the record
    dirty,      \* check_once: state_dirty
    updates,    \* check_once: the sources it updated
    pos,        \* the source being looked at
    latest,     \* check_once: that source's version at the marketplace
    pc, publications, trouble,
    seen        \* history: kinds of trouble so far

vars == <<plan, mode, published, built, tree, file, state, dirty, updates, pos,
          latest, pc, publications, trouble, seen>>
market == <<plan, mode, published, built, publications>>
troubles == <<trouble, seen>>
memory == <<state, dirty, updates>>

Source == DOMAIN plan
Nothing == [s \in Source |-> None]

Init ==
    /\ plan \in Plans
    /\ mode \in Modes
    /\ published \in [Source -> Version]
    /\ built = [s \in Source |-> IF plan[s].pin = None THEN published[s] ELSE plan[s].pin]
    /\ \A s \in Source : published[s] >= built[s]
    /\ tree = built
    /\ file = Nothing
    /\ state = Nothing
    /\ dirty = FALSE
    /\ updates = {}
    /\ pos = 1
    /\ latest = 1
    /\ pc = "sleep"
    /\ publications = 0
    /\ trouble = 0
    /\ seen = {}

Trouble(kind) ==
    /\ kind \in Troubles
    /\ trouble < MaxTroubles
    /\ trouble' = trouble + 1
    /\ seen' = seen \cup {kind}

\* Somebody publishes a version of one source, or withdraws one.
Publish(s, v) ==
    /\ publications < MaxPublish
    /\ publications' = publications + 1
    /\ \/ v > published[s] /\ UNCHANGED troubles
       \/ v < published[s] /\ Trouble("revert")
    /\ published' = [published EXCEPT ![s] = v]
    /\ UNCHANGED <<plan, mode, built, tree, file, memory, pos, latest, pc>>

\* _read_state: a file that is missing or not JSON is an empty record.
TickBegin ==
    /\ pc = "sleep"
    /\ state' = file
    /\ dirty' = FALSE
    /\ updates' = {}
    /\ pos' = 1
    /\ pc' = "check"
    /\ UNCHANGED <<market, tree, file, latest, troubles>>

\* What a record says is applied; without one, the pin of install.yaml.
Current(r, s) == IF r[s] # None THEN r[s] ELSE plan[s].pin

AtSource(label) == pc = label /\ pos \in Source
NextSource == pos' = pos + 1 /\ pc' = "check"

\* An exception check_once does not catch: watch_forever goes on with the next
\* tick, and nothing of this one is recorded.
TickAborted == pc' = "sleep" /\ UNCHANGED pos

\* `assert source is not None and source.marketplace_slug is not None`
GitSource ==
    /\ AtSource("check")
    /\ plan[pos].git
    /\ TickAborted
    /\ UNCHANGED <<market, tree, file, memory, latest, troubles>>

\* The version check: an error skips the source; a source that is up to date is
\* recorded as such; any other is fetched.
CheckVersion ==
    /\ AtSource("check")
    /\ ~plan[pos].git
    /\ \/ Trouble("check_error") /\ NextSource /\ UNCHANGED <<memory, latest>>
       \/ /\ Current(state, pos) = published[pos]
          /\ state' = [state EXCEPT ![pos] = published[pos]]
          /\ dirty' = (dirty \/ state[pos] # published[pos])
          /\ NextSource
          /\ UNCHANGED <<updates, latest, troubles>>
       \/ /\ Current(state, pos) # published[pos]
          /\ latest' = published[pos]
          /\ pc' = "fetch"
          /\ UNCHANGED <<memory, pos, troubles>>
    /\ UNCHANGED <<market, tree, file>>

\* plugin_resolver.resolve() of exactly the version found.
Fetch ==
    /\ AtSource("fetch")
    /\ \/ pc' = "copy" /\ UNCHANGED <<pos, troubles>>
       \/ Trouble("fetch_error") /\ NextSource
    /\ UNCHANGED <<market, tree, file, memory, latest>>

\* Mutant: the update is noted before its copy can fail, and kept.
MergeSwallowingErrors ==
    /\ AtSource("copy")
    /\ \/ tree' = [tree EXCEPT ![pos] = latest] /\ UNCHANGED troubles
       \/ tree' = [tree EXCEPT ![pos] = Torn] /\ Trouble("io_error")
    /\ state' = [state EXCEPT ![pos] = latest]
    /\ dirty' = TRUE
    /\ updates' = updates \cup {pos}
    /\ NextSource
    /\ UNCHANGED <<market, file, latest>>

\* mkdir and copytree onto the target; only then is the update noted.
Merge ==
    /\ AtSource("copy")
    /\ \/ /\ tree' = [tree EXCEPT ![pos] = latest]
          /\ state' = [state EXCEPT ![pos] = latest]
          /\ dirty' = TRUE
          /\ updates' = updates \cup {pos}
          /\ NextSource
          /\ UNCHANGED troubles
       \/ /\ Trouble("io_error")
          /\ \E left \in {tree[pos], Torn} : tree' = [tree EXCEPT ![pos] = left]
          /\ TickAborted
          /\ UNCHANGED memory
    /\ UNCHANGED <<market, file, latest>>

\* The end of a tick, for watch_forever.
Return == pc' = IF updates # {} /\ mode.exit_on_update THEN "exited" ELSE "sleep"

CheckEnd ==
    /\ pc = "check"
    /\ pos > Len(plan)
    /\ IF dirty THEN pc' = "truncate" ELSE Return
    /\ UNCHANGED <<market, tree, file, memory, pos, latest, troubles>>

\* _write_state: write_text truncates the file, then writes it; either may raise.
Truncate ==
    /\ pc = "truncate"
    /\ \/ file' = Nothing /\ pc' = "write" /\ UNCHANGED <<pos, troubles>>
       \/ Trouble("io_error") /\ TickAborted /\ UNCHANGED file
    /\ UNCHANGED <<market, tree, memory, latest>>

\* Mutant: the sources just updated are left out of the record.
WriteWithoutUpdates ==
    /\ pc = "write"
    /\ file' = [s \in Source |-> IF s \in updates THEN None ELSE state[s]]
    /\ Return
    /\ UNCHANGED <<market, tree, memory, pos, latest, troubles>>

\* A write that fails leaves the file empty, and what was updated unreported.
Write ==
    /\ pc = "write"
    /\ \/ file' = state /\ Return /\ UNCHANGED <<pos, troubles>>
       \/ Trouble("io_error") /\ TickAborted /\ UNCHANGED file
    /\ UNCHANGED <<market, tree, memory, latest>>

\* The process dies; a merge it was busy with may have stopped halfway.
Crash ==
    /\ pc \in {"check", "fetch", "copy", "truncate", "write"}
    /\ Trouble("crash")
    /\ \/ UNCHANGED tree
       \/ /\ AtSource("copy")
          /\ \E left \in {Torn, latest} : tree' = [tree EXCEPT ![pos] = left]
    /\ pc' = "exited"
    /\ UNCHANGED <<market, file, memory, pos, latest>>

\* Mutant: the process starts again where its tick stopped.
StartAgainMidway ==
    /\ pc = "exited"
    /\ pos' = pos + 1
    /\ pc' = IF mode.boot_resolves THEN "boot" ELSE "sleep"
    /\ UNCHANGED <<market, tree, file, memory, latest, troubles>>

\* The container is started again.
StartAgain ==
    /\ pc = "exited"
    /\ pos' = 1
    /\ pc' = IF mode.boot_resolves THEN "boot" ELSE "sleep"
    /\ UNCHANGED <<market, tree, file, memory, latest, troubles>>

\* resolve_all_sources: pins (git sources too) are merged one after the other;
\* an error ends the command, and the container with it.
Boot ==
    /\ pc = "boot"
    /\ \/ /\ pos \in Source
          /\ tree' = [tree EXCEPT ![pos] = built[pos]]
          /\ pos' = pos + 1
          /\ UNCHANGED <<pc, troubles>>
       \/ /\ pos \in Source
          /\ Trouble("io_error")
          /\ \E left \in {tree[pos], Torn} : tree' = [tree EXCEPT ![pos] = left]
          /\ pc' = "exited"
          /\ UNCHANGED pos
       \/ /\ pos > Len(plan)
          /\ pc' = "sleep"
          /\ UNCHANGED <<tree, pos, troubles>>
    /\ UNCHANGED <<market, file, memory, latest>>

CheckOnce == TickBegin \/ GitSource \/ CheckVersion \/ Fetch \/ Merge \/ CheckEnd
             \/ Truncate \/ Write
Restart == StartAgain \/ Boot

Next == CheckOnce \/ Restart \/ Crash
        \/ \E s \in Source, v \in Version : Publish(s, v)

Spec == Init /\ [][Next]_vars

\* git runs without a timeout.
MayHang == pc = "boot" /\ pos \in Source /\ plan[pos].git

\* watch_forever sleeps a bounded time between two ticks, every HTTP request has
\* a timeout, and a supervisor starts the container again when it exits.
FairSpec == Spec /\ WF_vars(~MayHang /\ (CheckOnce \/ Restart))

-----------------------------------------------------------------------------
(* Properties *)

\* Types; the loop's position stays within the plan, every tick and restart.
TypeOK ==
    /\ plan \in Plans /\ mode \in Modes
    /\ published \in [Source -> Version]
    /\ built \in [Source -> Version]
    /\ tree \in [Source -> Version \cup {Torn}]
    /\ file \in [Source -> Version \cup {None}]
    /\ state \in [Source -> Version \cup {None}]
    /\ dirty \in BOOLEAN
    /\ updates \subseteq Source
    /\ pos \in 1..(Len(plan) + 1)
    /\ latest \in Version
    /\ pc \in {"sleep", "check", "fetch", "copy", "truncate", "write", "exited", "boot"}
    /\ publications \in 0..MaxPublish
    /\ trouble \in 0..MaxTroubles
    /\ seen \subseteq Troubles

Marketplace == {s \in Source : ~plan[s].git}

\* The record and the trees have one writer, and versions only go up.
Forward == ~mode.boot_resolves /\ "revert" \notin seen

\* A source the next tick would take for up to date, by its record or by its
\* pin, holds the marketplace's version whole: what a failed fetch, a merge that
\* stopped halfway or a crash before the record was written left behind is
\* always found to be out of date.
UpToDateIsReal ==
    Forward =>
        \A s \in Marketplace : Current(file, s) = published[s] => tree[s] = published[s]

\* watch_sources.py:17-18: each source's tree is kept in sync with the latest
\* version published.
Synced == <>[](\A s \in Marketplace : tree[s] = published[s])

\* Once publications and troubles end, the trees of a plan without git sources
\* end in sync, whether or not updates restart the container.
InSync == \/ <>(~Forward)
          \/ Marketplace # Source
          \/ Synced

\* With --exit-on-update the container does not restart for ever: an update is
\* applied once, even when a crash or a failed write loses the record of it.
\* Only a git that never ends can keep it from its loop.
SettlesDown == <>[](pc \notin {"exited", "boot"}) \/ <>[]MayHang
=============================================================================
