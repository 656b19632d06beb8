----------------------------- MODULE SnapshotGC -----------------------------
(***************************************************************************)
(* agent/gc.py, GarbageCollector.collect_snapshots, running beside the       *)
(* deployments of InstallDriver: at the end of a watcher's own tick, or in   *)
(* another process (`xcore-agent gc`, a watcher of another slug on the same  *)
(* project_root) that knows nothing of a deployment in progress.             *)
(*                                                                         *)
(* A snapshot is known by its directory's name and mtime only.  The name is *)
(* split at its last two dashes, so that the snapshots of every directory   *)
(* whose id ends in the same dash-separated part fall into one group; the    *)
(* mtime is the one the copied tree brought along (shutil.copytree).         *)
(***************************************************************************)
EXTENDS InstallDriver, FiniteSets, FiniteSetsExt

CONSTANTS
    Segment,     \* the part of each directory's id that names its group
    Mtime,       \* the mtime a tree brings along
    Keep,        \* keep_snapshots
    Collectors   \* who collects, out of AllCollectors

AllCollectors == {"watcher",   \* the process that deploys, between deployments
                  "process"}   \* another one, at any time

ASSUME GCConstants ==
    /\ Segment \in [Targets -> STRING]
    /\ Mtime \in [Versions \cup {Torn} -> Nat]
    /\ Keep \in Nat
    /\ Collectors \subseteq AllCollectors

VARIABLES
    collector,
    owner,   \* history: the directory each snapshot was taken of
    stale,   \* snapshots the collector has still to remove
    removing \* the snapshot whose removal has begun, or 0

gcVars == <<vars, collector, owner, stale, removing>>

Live == {i \in DOMAIN snapshots : snapshots[i] # Absent}
Of(t) == {i \in Live : owner[i] = t}
Group(seg) == {i \in Live : Segment[owner[i]] = seg}

GCInit ==
    /\ Init
    /\ collector \in Collectors
    /\ owner = <<>> /\ stale = {} /\ removing = 0

\* A step of the driver; a snapshot it takes belongs to its directory.
Drive ==
    /\ Next
    /\ owner' = IF Len(snapshots') > Len(snapshots) THEN Append(owner, Cur.on) ELSE owner
    /\ UNCHANGED <<collector, stale, removing>>

\* A watcher collects when its own deployment is over; another process does not
\* know of any.
Quiet == collector = "process" \/ pc \in Resting

\* Mutant: one snapshot more than allowed is removed.
OldestOfOffByOne(g) ==
    {S \in SUBSET g : /\ Cardinality(S) = Max({0, Cardinality(g) - (Keep - 1)})
                      /\ \A i \in S, j \in g \ S : Mtime[snapshots[i]] <= Mtime[snapshots[j]]}

\* All but the Keep youngest of a group; equal mtimes are in listing order.
OldestOf(g) ==
    {S \in SUBSET g : /\ Cardinality(S) = Max({0, Cardinality(g) - Keep})
                      /\ \A i \in S, j \in g \ S : Mtime[snapshots[i]] <= Mtime[snapshots[j]]}

\* collect_snapshots lists and sorts the directory.
Scan ==
    /\ Quiet
    /\ stale = {} /\ removing = 0
    /\ \E pick \in [{Segment[t] : t \in Targets} -> SUBSET Live] :
         /\ \A seg \in DOMAIN pick : pick[seg] \in OldestOf(Group(seg))
         /\ stale' = UNION {pick[seg] : seg \in DOMAIN pick}
    /\ stale' # {}
    /\ UNCHANGED <<vars, collector, owner, removing>>

\* rmtree(ignore_errors=True): what it cannot remove stays.
RemoveBegin(i) ==
    /\ Quiet
    /\ removing = 0
    /\ i \in stale
    /\ removing' = i
    /\ stale' = stale \ {i}
    /\ snapshots' = [snapshots EXCEPT ![i] = Torn]
    /\ UNCHANGED <<host, env, records, step, undo, pc, job, collector, owner>>

RemoveEnd ==
    /\ Quiet
    /\ removing # 0
    /\ removing' = 0
    /\ \/ snapshots' = [snapshots EXCEPT ![removing] = Absent]
       \/ UNCHANGED snapshots
    /\ UNCHANGED <<host, env, records, step, undo, pc, job, collector, owner, stale>>

\* The collector's process dies.
Abandon ==
    /\ Quiet
    /\ stale # {} \/ removing # 0
    /\ stale' = {}
    /\ removing' = 0
    /\ UNCHANGED <<vars, collector, owner>>

\* The watcher collects in its own process: no deployment starts meanwhile.
Alone == collector = "process" \/ (stale = {} /\ removing = 0)

GCNext == (Alone /\ Drive) \/ Scan \/ (\E i \in stale : RemoveBegin(i)) \/ RemoveEnd
          \/ Abandon

GCSpec == GCInit /\ [][GCNext]_gcVars

-----------------------------------------------------------------------------
(* Properties *)

\* Types; every snapshot has an owner, and only snapshots are collected.
GCTypeOK ==
    /\ TypeOK /\ collector \in Collectors
    /\ owner \in Seq(Targets) /\ Len(owner) = Len(snapshots)
    /\ stale \subseteq DOMAIN snapshots
    /\ removing \in 0..Len(snapshots)

\* gc.py:47 and tests/test_gc.py:50: a plugin loses a snapshot only when Keep
\* others of its own stay; another plugin's never count.
KeepsPerDirectory ==
    \A t \in Targets :
        LET kept == Of(t) \ (stale \cup {removing})
        IN  Cardinality(kept) >= Keep \/ kept = Of(t)
=============================================================================
