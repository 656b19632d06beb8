--------------------------- MODULE PluginResolver ---------------------------
(***************************************************************************)
(* plugin_resolver.py: resolve() returns the cached directory of a source,   *)
(* or fetches it there, the marker file last.  The cache outlives the        *)
(* process, whatever it was doing when it died, and is shared by every       *)
(* process of the host that resolves plugins (`deploy` and `watch`).         *)
(*                                                                         *)
(* A tree has two files, so that a fetch, a removal and a reader can meet    *)
(* in its middle; a file is known by the source and the revision it is of.   *)
(***************************************************************************)
EXTENDS Integers

CONSTANTS
    Processes,    \* processes that share cache_root
    Sources,      \* the `source:` entries they resolve
    Revisions,    \* number of contents a mutable ref goes through
    Faults,       \* which of "crash", "refused", "io_error" may happen
    MaxFaults,    \* bound: how often
    MaxResolves   \* bound: calls of resolve()

\* PluginSource, with the id it is resolved for: ref stands for the directory
\* name _safe_ref_dirname makes of a version or ref ("/" becomes "_"), lacks are
\* the revisions that have no `subdirectory` of that name.
IsSource(s) == /\ DOMAIN s = {"id", "market", "origin", "ref", "mutable", "lacks"}
               /\ s.lacks \subseteq Nat \ {0}

ASSUME ResolverConstants ==
    /\ \A s \in Sources : IsSource(s)
    /\ Revisions \in Nat \ {0} /\ MaxFaults \in Nat /\ MaxResolves \in Nat
    /\ Faults \subseteq {"crash", "refused", "io_error"}

File == {1, 2}
\* No file; whose it is does not matter.
Nothing == [of |-> CHOOSE s \in Sources : TRUE, revision |-> 0]
Content == {[of |-> s, revision |-> r] : s \in Sources, r \in 1..Revisions}
           \cup {Nothing}

\* cache_root / plugin_id / ["mkt-"] ref
Key(s) == <<s.id, s.market, s.ref>>
Keys == {Key(s) : s \in Sources}

VARIABLES
    serves,    \* the revision each source has where it is fetched from
    files,     \* the files of each cache directory
    marker,    \* whether .xcore-resolved is there
    pc, source, got,   \* per process: where it is, its source, what it fetched
    overlapped,        \* history: two calls for one directory have overlapped
    faults, resolves

vars == <<serves, files, marker, pc, source, got, overlapped, faults, resolves>>
cache == <<files, marker>>

Exists(k) == marker[k] \/ \E f \in File : files[k][f] # Nothing

Init ==
    /\ serves = [s \in Sources |-> 1]
    /\ files = [k \in Keys |-> [f \in File |-> Nothing]]
    /\ marker = [k \in Keys |-> FALSE]
    /\ pc = [p \in Processes |-> "idle"]
    /\ source \in [Processes -> Sources]
    /\ got = [p \in Processes |-> Nothing]
    /\ overlapped = FALSE
    /\ faults = 0
    /\ resolves = 0

\* A branch, a tag or "latest" moves on.
Update(s) ==
    /\ s.mutable
    /\ serves[s] < Revisions
    /\ serves' = [serves EXCEPT ![s] = @ + 1]
    /\ UNCHANGED <<cache, pc, source, got, faults, resolves>>

Fault(kind) ==
    /\ kind \in Faults
    /\ faults < MaxFaults
    /\ faults' = faults + 1

Goto(p, label) == pc' = [pc EXCEPT ![p] = label]
K(p) == Key(source[p])

\* The end of resolve(): the subdirectory is returned, or its absence is an error.
Outcome(s) == IF \E f \in File : files[Key(s)][f].revision \notin s.lacks
              THEN "returned" ELSE "idle"

\* Mutant: any directory that is there counts as resolved.
LookUpDirectory(p, s) ==
    /\ pc[p] = "idle"
    /\ resolves < MaxResolves
    /\ resolves' = resolves + 1
    /\ source' = [source EXCEPT ![p] = s]
    /\ Goto(p, IF Exists(Key(s)) THEN Outcome(s) ELSE "fetch")
    /\ UNCHANGED <<serves, cache, got, faults>>

\* resolve(): the marker is there, or what is there without it goes.
LookUp(p, s) ==
    /\ pc[p] = "idle"
    /\ resolves < MaxResolves
    /\ resolves' = resolves + 1
    /\ source' = [source EXCEPT ![p] = s]
    /\ Goto(p, IF marker[Key(s)] THEN Outcome(s)
               ELSE IF Exists(Key(s)) THEN "remove" ELSE "fetch")
    /\ UNCHANGED <<serves, cache, got, faults>>

\* shutil.rmtree, one file after the other, in any order.
Remove(p) ==
    /\ pc[p] \in {"remove", "cleanup"}
    /\ LET k == K(p) IN
         \/ \E f \in File :
              /\ files[k][f] # Nothing
              /\ files' = [files EXCEPT ![k][f] = Nothing]
              /\ UNCHANGED <<marker, pc>>
         \/ /\ marker[k]
            /\ marker' = [marker EXCEPT ![k] = FALSE]
            /\ UNCHANGED <<files, pc>>
         \/ /\ ~Exists(k)
            /\ Goto(p, IF pc[p] = "remove" THEN "fetch" ELSE "idle")
            /\ UNCHANGED cache
    /\ UNCHANGED <<serves, source, got, faults, resolves>>

\* The removal that makes room may raise; the one that cleans up ignores errors.
RemoveFails(p) ==
    /\ pc[p] \in {"remove", "cleanup"}
    /\ Fault("io_error")
    /\ Goto(p, "idle")
    /\ UNCHANGED <<serves, cache, source, got, resolves>>

\* The artifact and its signature, or git fetch: what the source holds by now,
\* or an error, after which git removes the clone it had begun.
Fetch(p) ==
    /\ pc[p] = "fetch"
    /\ \/ /\ got' = [got EXCEPT ![p] = [of |-> source[p], revision |-> serves[source[p]]]]
          /\ Goto(p, "extract")
          /\ UNCHANGED faults
       \/ /\ Fault("refused")
          /\ Goto(p, IF source[p].market THEN "idle" ELSE "cleanup")
          /\ UNCHANGED got
    /\ UNCHANGED <<serves, cache, source, resolves>>

\* Mutant: the marker is written with the first file.
ExtractMarkerFirst(p) ==
    /\ pc[p] = "extract"
    /\ files' = [files EXCEPT ![K(p)][1] = got[p]]
    /\ marker' = [marker EXCEPT ![K(p)] = TRUE]
    /\ Goto(p, "extract_rest")
    /\ UNCHANGED <<serves, source, got, faults, resolves>>

\* extractall and flatten_single_root, or git checkout: the first file.
Extract(p) ==
    /\ pc[p] = "extract"
    /\ files' = [files EXCEPT ![K(p)][1] = got[p]]
    /\ Goto(p, "extract_rest")
    /\ UNCHANGED <<serves, marker, source, got, faults, resolves>>

\* The other one, or an error: a bad archive cleans up, any other error leaves
\* what is there.
ExtractRest(p) ==
    /\ pc[p] = "extract_rest"
    /\ \/ /\ files' = [files EXCEPT ![K(p)][2] = got[p]]
          /\ Goto(p, "mark")
          /\ UNCHANGED faults
       \/ /\ Fault("io_error")
          /\ Goto(p, "cleanup") \/ Goto(p, "idle")
          /\ UNCHANGED files
    /\ UNCHANGED <<serves, marker, source, got, resolves>>

\* Without the directory, the marker cannot be written.  With it, a tree that
\* lacks the subdirectory stays as it is.
Mark(p) ==
    /\ pc[p] = "mark"
    /\ IF Exists(K(p))
       THEN marker' = [marker EXCEPT ![K(p)] = TRUE] /\ Goto(p, Outcome(source[p]))
       ELSE UNCHANGED marker /\ Goto(p, "idle")
    /\ UNCHANGED <<serves, files, source, got, faults, resolves>>

\* The caller has copied the directory.
Copied(p) ==
    /\ pc[p] = "returned"
    /\ Goto(p, "idle")
    /\ UNCHANGED <<serves, cache, source, got, faults, resolves>>

Crash(p) ==
    /\ pc[p] # "idle"
    /\ Fault("crash")
    /\ Goto(p, "idle")
    /\ UNCHANGED <<serves, cache, source, got, resolves>>

Resolve(p) == (\E s \in Sources : LookUp(p, s)) \/ Remove(p) \/ RemoveFails(p) \/ Fetch(p) \/ Extract(p)
              \/ ExtractRest(p) \/ Mark(p) \/ Copied(p)

Overlap == \E p, q \in Processes :
    p # q /\ pc[p] # "idle" /\ pc[q] # "idle" /\ K(p) = K(q)

Next ==
    /\ \/ \E p \in Processes : Resolve(p) \/ Crash(p)
       \/ \E s \in Sources : Update(s)
    /\ overlapped' = (overlapped \/ Overlap')

Spec == Init /\ [][Next]_vars

-----------------------------------------------------------------------------
(* Properties *)

\* plugin_resolver.py:84: the directory returned holds the code of the source
\* that was asked for, all of it and of one revision, whatever an earlier call,
\* of this or of another process, left behind when it failed or died.
ReturnsSource ==
    ~overlapped =>
        \A p \in Processes : pc[p] = "returned" =>
            \E r \in 1..Revisions :
                \A f \in File : files[K(p)][f] = [of |-> source[p], revision |-> r]

\* plugin_resolver.py:88-90: a resolved directory may be reused indefinitely.
ResolvedForGood ==
    [][~overlapped' =>
          \A k \in Keys : marker[k] => marker'[k] /\ files'[k] = files[k]]_vars
=============================================================================
