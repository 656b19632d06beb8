-------------------------- MODULE DeploymentRunner --------------------------
(***************************************************************************)
(* agent/pipeline.py: DeploymentRunner.run() takes one artifact from the    *)
(* Hub to the host through the stages of agent/state.py.  Runs follow one   *)
(* another (the watcher, an operator); runs for the same version share a    *)
(* working directory, whatever state an earlier one left it in.             *)
(*                                                                         *)
(* The install stage is taken as a whole: module InstallDriver shows what   *)
(* its steps and its rollback do.                                           *)
(***************************************************************************)
EXTENDS Integers, Sequences

CONSTANTS
    Versions,   \* versions that can be requested
    Protected,  \* those whose plan takes a snapshot in every step that installs
    Plugins,    \* plugins and extensions the manifest takes from a `source`
    NoTree,     \* the working directory holds no extracted tree
    Torn,       \* the host after an install whose rollback raised
    MaxRuns     \* bound: runs started

ASSUME RunnerConstants ==
    /\ MaxRuns \in Nat
    /\ Torn \notin Versions
    /\ Protected \subseteq Versions

Stages == << "PENDING", "AUTHENTICATING", "REQUESTING_ARTIFACT", "DOWNLOADING",
             "VERIFYING_SIGNATURE", "OBTAINING_KEY", "DECRYPTING", "EXTRACTING",
             "VERIFYING_MANIFEST", "VALIDATING_PROJECT", "RESOLVING_PLUGINS",
             "RESOLVING_SEQUENCE", "INSTALLING", "HEALTHCHECKING", "NOTIFYING",
             "SUCCEEDED" >>

TERMINAL_STATES == {"SUCCEEDED", "FAILED", "ROLLED_BACK"}

States == {Stages[i] : i \in DOMAIN Stages} \cup TERMINAL_STATES

\* Mutant: the table forgets that obtaining the key may fail.
TransitionsWithoutKeyFailure ==
    [s \in States |->
        {Stages[i + 1] : i \in {j \in 1..(Len(Stages) - 1) : Stages[j] = s}}
        \cup (IF s \in TERMINAL_STATES \cup {"PENDING", "OBTAINING_KEY"} THEN {} ELSE {"FAILED"})
        \cup (IF s \in {"INSTALLING", "HEALTHCHECKING"} THEN {"ROLLED_BACK"} ELSE {})]

TRANSITIONS ==
    [s \in States |->
        {Stages[i + 1] : i \in {j \in 1..(Len(Stages) - 1) : Stages[j] = s}}
        \cup (IF s \in TERMINAL_STATES \cup {"PENDING"} THEN {} ELSE {"FAILED"})
        \cup (IF s \in {"INSTALLING", "HEALTHCHECKING"} THEN {"ROLLED_BACK"} ELSE {})]

\* What the Hub may hand out: the right bytes, or bytes with one flaw.
Flaws == {"none", "forged", "undecryptable", "not_zstd", "no_manifest", "invalid_manifest",
          "bad_digest", "no_plan", "invalid_plan", "wrong_project"}
Artifact == [version : Versions, flaw : Flaws]

\* workdir/extracted: the version it was extracted from, whether all of it is
\* there, and the sources merged into it since.
ExtractedTree == [of : Versions, whole : BOOLEAN, merged : SUBSET Plugins]

VARIABLES
    state,      \* DeploymentRunner.state
    session,    \* DeploymentRunner.session is set
    version,    \* the version this run was asked for
    artifact,   \* what was downloaded (from _download on)
    tree,       \* workdir/extracted, of each version's working directory
    host,       \* what project_root holds
    outcome,    \* how far run() is
    told,       \* history: reports the Hub received from this run
    tried,      \* history: run() called hub.notify for a failure
    before,     \* history: host when this run started
    runs

vars == <<state, session, version, artifact, tree, host, outcome, told, tried,
          before, runs>>
history == <<told, tried, before, runs>>

Ended == {"returned", "raised", "escaped", "down"}

Init ==
    /\ state = "PENDING"
    /\ session = FALSE
    /\ version \in Versions
    /\ artifact \in [version : Versions, flaw : {"none"}]
    /\ tree = [v \in Versions |-> NoTree]
    /\ host \in Versions
    /\ outcome = "down"
    /\ told = <<>>
    /\ tried = FALSE
    /\ before = host
    /\ runs = 0

NewRun(v) ==
    /\ outcome \in Ended
    /\ runs < MaxRuns
    /\ runs' = runs + 1
    /\ version' = v
    /\ state' = "PENDING"
    /\ session' = FALSE
    /\ outcome' = "running"
    /\ told' = <<>>
    /\ tried' = FALSE
    /\ before' = host
    /\ UNCHANGED <<artifact, tree, host>>

\* _transition: an illegal one is a DeploymentError like any other.
Transition(s) == s \in TRANSITIONS[state] /\ state' = s

Stage(from, to) == outcome = "running" /\ state = from /\ Transition(to)

Goes == outcome' = "running"

\* A DeploymentError is handled by run(); anything else (httpx, OSError,
\* ValidationError, PluginResolutionError) passes through it.
RaisesDeploymentError == outcome' = "failing"
RaisesOther == outcome' = "escaped"
RaisesAny == RaisesDeploymentError \/ RaisesOther

Authenticate ==
    /\ Stage("PENDING", "AUTHENTICATING")
    /\ \/ session' = TRUE /\ Goes
       \/ RaisesAny /\ UNCHANGED session
    /\ UNCHANGED <<version, artifact, tree, host, history>>

RequestArtifact ==
    /\ Stage("AUTHENTICATING", "REQUESTING_ARTIFACT")
    /\ Goes \/ RaisesAny
    /\ UNCHANGED <<session, version, artifact, tree, host, history>>

Download ==
    /\ Stage("REQUESTING_ARTIFACT", "DOWNLOADING")
    /\ \/ artifact' \in Artifact /\ Goes
       \/ RaisesAny /\ UNCHANGED artifact
    /\ UNCHANGED <<session, version, tree, host, history>>

VerifySignature ==
    /\ Stage("DOWNLOADING", "VERIFYING_SIGNATURE")
    /\ IF artifact.flaw = "forged" THEN RaisesDeploymentError ELSE Goes
    /\ UNCHANGED <<session, version, artifact, tree, host, history>>

ObtainKey ==
    /\ Stage("VERIFYING_SIGNATURE", "OBTAINING_KEY")
    /\ Goes \/ RaisesAny
    /\ UNCHANGED <<session, version, artifact, tree, host, history>>

Decrypt ==
    /\ Stage("OBTAINING_KEY", "DECRYPTING")
    /\ IF artifact.flaw = "undecryptable" THEN RaisesDeploymentError ELSE Goes
    /\ UNCHANGED <<session, version, artifact, tree, host, history>>

\* Mutant: _extract before the leftovers of an earlier attempt were wiped.
ExtractOnTop ==
    /\ Stage("DECRYPTING", "EXTRACTING")
    /\ tree' = [tree EXCEPT ![version] =
                  [of |-> artifact.version, whole |-> TRUE,
                   merged |-> IF @ = NoTree THEN {} ELSE @.merged]]
    /\ Goes
    /\ UNCHANGED <<session, version, artifact, host, history>>

\* What cannot be decompressed is refused before anything is written.  Then
\* extracted_root is wiped and the archive unpacked into it; it may stop halfway
\* (an unsafe member, an I/O error).
Extract ==
    /\ Stage("DECRYPTING", "EXTRACTING")
    /\ \/ artifact.flaw = "not_zstd" /\ RaisesDeploymentError /\ UNCHANGED tree
       \/ /\ artifact.flaw # "not_zstd"
          /\ \E whole \in BOOLEAN :
               /\ tree' = [tree EXCEPT ![version] =
                             [of |-> artifact.version, whole |-> whole, merged |-> {}]]
               /\ IF whole THEN Goes ELSE RaisesAny
    /\ UNCHANGED <<session, version, artifact, host, history>>

\* compute_tree_digest(extracted_root) = manifest.content_sha256
Pristine(t) ==
    t.whole /\ t.merged = {} /\ t.of = artifact.version /\ artifact.flaw # "bad_digest"

\* Mutant: the digest of the extracted tree is not compared.
VerifyManifestTrusting ==
    /\ Stage("EXTRACTING", "VERIFYING_MANIFEST")
    /\ Goes \/ RaisesOther
    /\ UNCHANGED <<session, version, artifact, tree, host, history>>

\* manifest.json is there and validates, the digest of the tree is the one it
\* declares, install.yaml is there and validates, in this order; what does not
\* validate or cannot be read is no DeploymentError.
VerifyManifest ==
    /\ Stage("EXTRACTING", "VERIFYING_MANIFEST")
    /\ \/ RaisesOther
       \/ /\ artifact.flaw # "invalid_manifest"
          /\ artifact.flaw \in {"no_manifest", "no_plan"} \/ ~Pristine(tree[version])
          /\ RaisesDeploymentError
       \/ /\ artifact.flaw \notin {"no_manifest", "invalid_manifest", "no_plan", "invalid_plan"}
          /\ Pristine(tree[version])
          /\ Goes
    /\ UNCHANGED <<session, version, artifact, tree, host, history>>

ValidateProject ==
    /\ Stage("VERIFYING_MANIFEST", "VALIDATING_PROJECT")
    /\ IF artifact.flaw = "wrong_project" \/ artifact.version # version
       THEN RaisesDeploymentError ELSE Goes
    /\ UNCHANGED <<session, version, artifact, tree, host, history>>

Merged(t, done) == [of |-> t.of, whole |-> t.whole, merged |-> done]

\* The sources resolved so far are merged into the tree even when a later one
\* fails (a hash mismatch, or an error of the resolver).
ResolvePlugins ==
    /\ Stage("VALIDATING_PROJECT", "RESOLVING_PLUGINS")
    /\ \E done \in SUBSET Plugins :
         /\ tree' = [tree EXCEPT ![version] = Merged(@, done)]
         /\ IF done = Plugins THEN Goes ELSE RaisesAny
    /\ UNCHANGED <<session, version, artifact, host, history>>

ResolveSequence ==
    /\ Stage("RESOLVING_PLUGINS", "RESOLVING_SEQUENCE")
    /\ Goes
    /\ UNCHANGED <<session, version, artifact, tree, host, history>>

\* What a failed installation may leave where nothing undoes it.
Leftovers == {host, tree[version].of, Torn}

\* Mutant: what rollback() raises is swallowed.
InstallSwallowingRollback ==
    /\ outcome = "running"
    /\ state = "RESOLVING_SEQUENCE"
    /\ "INSTALLING" \in TRANSITIONS[state]
    /\ \/ state' = "INSTALLING" /\ host' = tree[version].of /\ Goes
       \/ state' = "ROLLED_BACK" /\ host' \in Leftovers /\ RaisesDeploymentError
    /\ UNCHANGED <<session, version, artifact, tree, history>>

\* _install: every step succeeds; or one raises and rollback() restores what has
\* a snapshot (InstallDriver!ImplementsAtomicDeploy), which is nothing in a plan
\* that keeps the default `snapshot: false`; or rollback() raises too.
Install ==
    /\ outcome = "running"
    /\ state = "RESOLVING_SEQUENCE"
    /\ "INSTALLING" \in TRANSITIONS[state]
    /\ \/ state' = "INSTALLING" /\ host' = tree[version].of /\ Goes
       \/ /\ "ROLLED_BACK" \in TRANSITIONS["INSTALLING"]
          /\ state' = "ROLLED_BACK"
          /\ host' \in IF version \in Protected THEN {host} ELSE Leftovers
          /\ RaisesDeploymentError
       \/ state' = "INSTALLING" /\ host' \in Leftovers /\ RaisesOther
    /\ UNCHANGED <<session, version, artifact, tree, history>>

Healthcheck ==
    /\ Stage("INSTALLING", "HEALTHCHECKING")
    /\ Goes
    /\ UNCHANGED <<session, version, artifact, tree, host, history>>

\* _notify: the Hub may have taken the report although the call raised.
Notify ==
    /\ Stage("HEALTHCHECKING", "NOTIFYING")
    /\ \/ told' = Append(told, "success") /\ (Goes \/ RaisesAny)
       \/ UNCHANGED told /\ RaisesAny
    /\ UNCHANGED <<session, version, artifact, tree, host, tried, before, runs>>

Succeed ==
    /\ Stage("NOTIFYING", "SUCCEEDED")
    /\ outcome' = "returned"
    /\ UNCHANGED <<session, version, artifact, tree, host, history>>

\* Mutant: the failure branch reports before it knows of a session.
HandleErrorAlwaysReporting ==
    /\ outcome = "failing"
    /\ state' = IF state \in TERMINAL_STATES THEN state ELSE "FAILED"
    /\ told' = Append(told, "failed")
    /\ tried' = TRUE
    /\ outcome' = "raised"
    /\ UNCHANGED <<session, version, artifact, tree, host, before, runs>>

\* Mutant: the failure report is sent a second time when in doubt.
HandleErrorTwice ==
    /\ outcome = "failing"
    /\ state' = IF state \in TERMINAL_STATES THEN state ELSE "FAILED"
    /\ IF session
       THEN tried' = TRUE /\ told' = told \o <<"failed", "failed">>
       ELSE UNCHANGED <<tried, told>>
    /\ outcome' = "raised"
    /\ UNCHANGED <<session, version, artifact, tree, host, before, runs>>

\* `except DeploymentError` of run(): FAILED unless a terminal state was
\* reached, then one attempt to tell the Hub, then the error goes on.
HandleError ==
    /\ outcome = "failing"
    /\ IF state \in TERMINAL_STATES THEN UNCHANGED state ELSE Transition("FAILED")
    /\ IF session
       THEN tried' = TRUE /\ told' \in {told, Append(told, "failed")}
       ELSE UNCHANGED <<tried, told>>
    /\ outcome' = "raised"
    /\ UNCHANGED <<session, version, artifact, tree, host, before, runs>>

\* The process dies: in the middle of a stage that writes, it leaves a part.
Crash ==
    /\ outcome \in {"running", "failing"}
    /\ \/ UNCHANGED <<tree, host>>
       \/ /\ state = "DECRYPTING"
          /\ tree' = [tree EXCEPT ![version] =
                        [of |-> artifact.version, whole |-> FALSE, merged |-> {}]]
          /\ UNCHANGED host
       \/ /\ state = "VALIDATING_PROJECT"
          /\ \E done \in SUBSET Plugins : tree' = [tree EXCEPT ![version] = Merged(@, done)]
          /\ UNCHANGED host
       \/ state = "RESOLVING_SEQUENCE" /\ host' = Torn /\ UNCHANGED tree
    /\ outcome' = "down"
    /\ UNCHANGED <<state, session, version, artifact, history>>

Acquire == Authenticate \/ RequestArtifact \/ Download
Verify == VerifySignature \/ ObtainKey \/ Decrypt \/ Extract \/ VerifyManifest
Prepare == ValidateProject \/ ResolvePlugins \/ ResolveSequence
Deliver == Install \/ Healthcheck \/ Notify \/ Succeed
Run == Acquire \/ Verify \/ Prepare \/ Deliver \/ HandleError

Next == (\E v \in Versions : NewRun(v)) \/ Run \/ Crash

Spec == Init /\ [][Next]_vars

\* The report of a failure is one Hub call, which has a timeout.  Nothing else is
\* fair: a fetch from git or a step of the plan may hang.
FairSpec == Spec /\ WF_vars(HandleError)

-----------------------------------------------------------------------------
(* Properties *)

\* Type correctness of the runner and of what it leaves on disk; the Hub hears of
\* a run at most once as a success, and then as a failure.
TypeOK ==
    /\ state \in States
    /\ session \in BOOLEAN /\ tried \in BOOLEAN
    /\ version \in Versions
    /\ artifact \in Artifact
    /\ tree \in [Versions -> ExtractedTree \cup {NoTree}]
    /\ host \in Versions \cup {Torn}
    /\ before \in Versions \cup {Torn}
    /\ outcome \in Ended \cup {"running", "failing"}
    /\ told \in {<<>>, <<"success">>, <<"failed">>, <<"success", "failed">>}
    /\ runs \in 0..MaxRuns

\* Whatever an earlier attempt left behind, what reaches the install stage is
\* the requested version, genuine and whole, with every source merged.
InstallsOnlyVerified ==
    outcome = "running" /\ state \in {"RESOLVING_SEQUENCE", "INSTALLING",
                                      "HEALTHCHECKING", "NOTIFYING"} =>
        /\ artifact = [version |-> version, flaw |-> "none"]
        /\ tree[version] = [of |-> version, whole |-> TRUE, merged |-> Plugins]

\* A retry never refuses a good artifact because of its own leftovers (the
\* production bug pipeline.py:220-229 tells of).
RefusesOnlyFlawed ==
    [][state = "EXTRACTING" /\ state' = "VERIFYING_MANIFEST" /\ outcome' = "failing"
          => artifact.flaw \in {"no_manifest", "bad_digest", "no_plan"}]_vars

\* The Hub hears of a success only from a run whose version is on the host, and
\* of one failure at most, and a rolled back run never claims success; one whose
\* plan takes snapshots has left the host as it was.
HubNotMisled ==
    /\ \A i \in DOMAIN told : told[i] = "success" => host = version /\ i = 1
    /\ state = "ROLLED_BACK" =>
          told \in {<<>>, <<"failed">>} /\ (version \in Protected => host = before)
    /\ told # <<>> => session

\* A run is one step of a deployment to its caller: what the host holds while it
\* runs shows only when it ends, and then it is what module Deployment allows.
PhaseOf ==
    [returned |-> "returned", raised |-> "refused",
     escaped |-> "broken", down |-> "broken",
     running |-> "deploying", failing |-> "deploying"]

Abstract == INSTANCE Deployment
    WITH live <- IF outcome \in Ended THEN host ELSE before,
         phase <- IF outcome = "raised" /\ state = "ROLLED_BACK" THEN "rolled_back"
                                                               ELSE PhaseOf[outcome]

\* Runs end as their callers take them to: a returned run has installed the
\* version it was asked for, one that fails outside the install stage has changed
\* all of the host or nothing, and one that rolls back has undone everything if
\* its plan takes snapshots.
ImplementsDeployment == Abstract!Spec

\* The process alive, an accepted DeploymentError always leads to an end in a
\* terminal state that the fleet view knows.
ErrorsBecomeFailures ==
    outcome = "failing" ~> outcome = "down" \/ (outcome = "raised" /\ state \in TERMINAL_STATES)

\* pipeline.py:133-137: a failed deployment that has a session is reported, so
\* that a host that keeps failing does not look like one never deployed to.
FailuresAreReported == outcome \in {"raised", "escaped"} /\ session => tried
=============================================================================
