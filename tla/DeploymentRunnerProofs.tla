----------------------- MODULE DeploymentRunnerProofs -----------------------
(***************************************************************************)
(* Proofs about DeploymentRunner, for any versions, sources and number of    *)
(* runs.  What a stage may rely on is written once, in IInv: how far the      *)
(* checks have come (Checked), what the host holds (HostFollows) and what    *)
(* the Hub was told (HubHears) at each stage of a run.                       *)
(***************************************************************************)
EXTENDS DeploymentRunner, SequenceTheorems, TLAPS

BeforeInstall == {"PENDING", "AUTHENTICATING", "REQUESTING_ARTIFACT", "DOWNLOADING",
                  "VERIFYING_SIGNATURE", "OBTAINING_KEY", "DECRYPTING", "EXTRACTING",
                  "VERIFYING_MANIFEST", "VALIDATING_PROJECT", "RESOLVING_PLUGINS",
                  "RESOLVING_SEQUENCE"}

\* How much of the artifact and of the tree has been checked in a run that goes on.
Checked ==
    outcome = "running" =>
        /\ state \in {"VERIFYING_SIGNATURE", "OBTAINING_KEY"} => artifact.flaw # "forged"
        /\ state \in {"DECRYPTING", "EXTRACTING"} => artifact.flaw \notin {"forged", "undecryptable"}
        /\ state = "EXTRACTING" =>
              /\ artifact.flaw # "not_zstd"
              /\ tree[version] = [of |-> artifact.version, whole |-> TRUE, merged |-> {}]
        /\ state \in {"VERIFYING_MANIFEST", "VALIDATING_PROJECT"} =>
              /\ artifact.flaw \in {"none", "wrong_project"}
              /\ tree[version] = [of |-> artifact.version, whole |-> TRUE, merged |-> {}]
        /\ state = "VALIDATING_PROJECT" => artifact = [version |-> version, flaw |-> "none"]
        /\ state \in {"RESOLVING_PLUGINS", "RESOLVING_SEQUENCE", "INSTALLING",
                      "HEALTHCHECKING", "NOTIFYING"} =>
              /\ artifact = [version |-> version, flaw |-> "none"]
              /\ tree[version] = [of |-> version, whole |-> TRUE, merged |-> Plugins]

\* A run that failed in _validate_project, too, has a tree to merge into.
HasTree ==
    outcome \in {"running", "failing"} /\ state = "VALIDATING_PROJECT" =>
        tree[version] \in ExtractedTree

\* The host changes in the install stage only, and then to the version.
HostFollows ==
    /\ outcome = "running" /\ state \in BeforeInstall => host = before
    /\ outcome = "running" /\ state \in {"INSTALLING", "HEALTHCHECKING", "NOTIFYING"} =>
          host = version
    /\ outcome \in {"running", "failing", "raised"} =>
          host \in {before, version} \/ (state = "ROLLED_BACK" /\ host = Torn)
    /\ outcome = "running" => state # "SUCCEEDED" /\ state # "FAILED" /\ state # "ROLLED_BACK"
    /\ outcome = "returned" => host = version
    /\ state = "ROLLED_BACK" /\ version \in Protected => host = before

\* What the Hub was told: of a success only from a host that holds the version,
\* and once.
HubHears ==
    /\ outcome = "running" /\ state # "NOTIFYING" => told = <<>>
    /\ outcome = "failing" => told \in {<<>>, <<"success">>}
    /\ outcome \in {"running", "failing"} /\ told # <<>> => state = "NOTIFYING"
    /\ told \in {<<"success">>, <<"success", "failed">>} => host = version
    /\ state = "ROLLED_BACK" => told \in {<<>>, <<"failed">>}
    /\ outcome = "running" /\ state # "PENDING" => session
    /\ told # <<>> => session

IInv == TypeOK /\ Checked /\ HasTree /\ HostFollows /\ HubHears

-----------------------------------------------------------------------------
\* The states, written out.
LEMMA StatesAre ==
    States = BeforeInstall \cup {"INSTALLING", "HEALTHCHECKING", "NOTIFYING",
                                 "SUCCEEDED", "FAILED", "ROLLED_BACK"}
BY DEF States, Stages, BeforeInstall, TERMINAL_STATES

\* The reports a run can make, and how they follow one another.
LEMMA Reports ==
    /\ Append(<<>>, "success") = <<"success">>
    /\ Append(<<>>, "failed") = <<"failed">>
    /\ Append(<<"success">>, "failed") = <<"success", "failed">>
    /\ <<>> \notin {<<"success">>, <<"failed">>, <<"success", "failed">>}
    /\ <<"success">> \notin {<<"failed">>, <<"success", "failed">>}
    /\ <<"failed">> # <<"success", "failed">>
<1>1. Append(<<>>, "success") = <<"success">>
  OBVIOUS
<1>2. Append(<<>>, "failed") = <<"failed">>
  OBVIOUS
<1>3. Append(<<"success">>, "failed") = <<"success", "failed">>
  <2> DEFINE R == {"success", "failed"}
             s == <<"success">>
             t == <<"success", "failed">>
  <2>1. s \in Seq(R) /\ Len(s) = 1 /\ s[1] = "success"
    OBVIOUS
  <2>2. t \in Seq(R) /\ Len(t) = 2 /\ t[1] = "success" /\ t[2] = "failed"
    OBVIOUS
  <2> HIDE DEF s, t
  <2>3. Append(s, "failed") \in Seq(R) /\ Len(Append(s, "failed")) = 2
        /\ Append(s, "failed")[1] = "success" /\ Append(s, "failed")[2] = "failed"
    <3>1. \A q \in Seq(R) : \A x \in R :
              /\ Append(q, x) \in Seq(R)
              /\ Len(Append(q, x)) = Len(q) + 1
              /\ \A i \in 1..Len(q) : Append(q, x)[i] = q[i]
              /\ Append(q, x)[Len(q) + 1] = x
      BY AppendProperties
    <3>2. 1 \in 1..Len(s) /\ Len(s) + 1 = 2 /\ "failed" \in R
      BY <2>1
    <3> HIDE DEF R
    <3>3. /\ Append(s, "failed") \in Seq(R)
          /\ Len(Append(s, "failed")) = Len(s) + 1
          /\ \A i \in 1..Len(s) : Append(s, "failed")[i] = s[i]
          /\ Append(s, "failed")[Len(s) + 1] = "failed"
      BY <2>1, <3>1, <3>2, Zenon
    <3> QED BY <2>1, <3>2, <3>3
  <2>4. \A i \in 1..Len(Append(s, "failed")) : Append(s, "failed")[i] = t[i]
    BY <2>2, <2>3
  <2>5. Append(s, "failed") = t
    BY <2>2, <2>3, <2>4, SeqEqual
  <2> QED BY <2>5 DEF s, t
<1>4. /\ <<>> \notin {<<"success">>, <<"failed">>, <<"success", "failed">>}
      /\ <<"success">> \notin {<<"failed">>, <<"success", "failed">>}
      /\ <<"failed">> # <<"success", "failed">>
  OBVIOUS
<1> QED BY <1>1, <1>2, <1>3, <1>4

\* What every run starts from.
LEMMA InitInvariant == Init => IInv
<1> SUFFICES ASSUME Init PROVE IInv OBVIOUS
<1> USE StatesAre, RunnerConstants DEF Init
<1>1. TypeOK
  <2>1. artifact \in Artifact
    BY DEF Artifact, Flaws
  <2>2. tree \in [Versions -> ExtractedTree \cup {NoTree}]
    OBVIOUS
  <2>3. runs \in 0..MaxRuns
    OBVIOUS
  <2> QED
    BY <2>1, <2>2, <2>3 DEF TypeOK, Ended, BeforeInstall
<1>2. Checked /\ HasTree
  BY DEF Checked, HasTree
<1>3. HostFollows /\ HubHears
  BY DEF HostFollows, HubHears
<1> QED BY <1>1, <1>2, <1>3 DEF IInv

\* No stage may undo what the stages before it have established.
LEMMA RunInvariant == IInv /\ Run => IInv'
<1> SUFFICES ASSUME IInv, Run PROVE IInv' OBVIOUS
<1> USE StatesAre, RunnerConstants
    DEF IInv, TypeOK, Checked, HasTree, HostFollows, HubHears, BeforeInstall, Artifact,
        Flaws, Ended, Stage, Transition, Goes, RaisesAny, RaisesDeploymentError, RaisesOther,
        history
<1>1. CASE Authenticate BY ZenonT(40), <1>1 DEF Authenticate
<1>2. CASE RequestArtifact BY <1>2 DEF RequestArtifact
<1>3. CASE Download BY <1>3 DEF Download
<1>4. CASE VerifySignature BY <1>4 DEF VerifySignature
<1>5. CASE ObtainKey BY <1>5 DEF ObtainKey
<1>6. CASE Decrypt BY <1>6 DEF Decrypt
<1>7. CASE Extract
  <2>1. \A whole \in BOOLEAN :
           [of |-> artifact.version, whole |-> whole, merged |-> {}] \in ExtractedTree
    BY DEF ExtractedTree
  <2>2. /\ outcome = "running" /\ state = "DECRYPTING" /\ state' = "EXTRACTING"
        /\ UNCHANGED <<session, version, artifact, host, told, tried, before, runs>>
    BY <1>7 DEF Extract
  <2>3. CASE RaisesDeploymentError /\ UNCHANGED tree
    BY <2>2, <2>3
  <2>4. ASSUME NEW whole \in BOOLEAN, artifact.flaw # "not_zstd",
               tree' = [tree EXCEPT ![version] =
                          [of |-> artifact.version, whole |-> whole, merged |-> {}]],
               IF whole THEN Goes ELSE RaisesAny
        PROVE  IInv'
    <3>1. /\ tree' \in [Versions -> ExtractedTree \cup {NoTree}]
          /\ tree'[version] = [of |-> artifact.version, whole |-> whole, merged |-> {}]
      BY <2>1, <2>4
    <3> QED BY <2>2, <2>4, <3>1
  <2> QED BY <1>7, <2>3, <2>4 DEF Extract
<1>8. CASE VerifyManifest BY <1>8 DEF VerifyManifest, Pristine
<1>9. CASE ValidateProject
  <2>1. tree[version] \in ExtractedTree
    <3>1. tree[version] = [of |-> artifact.version, whole |-> TRUE, merged |-> {}]
      BY <1>9 DEF ValidateProject
    <3> QED BY <3>1 DEF ExtractedTree
  <2>2. outcome' = "running" => artifact = [version |-> version, flaw |-> "none"]
    BY <1>9 DEF ValidateProject
  <2> QED
    BY <1>9, <2>1, <2>2 DEF ValidateProject
<1>10. CASE ResolvePlugins
  <2>1. PICK done \in SUBSET Plugins :
           /\ tree' = [tree EXCEPT ![version] = Merged(@, done)]
           /\ IF done = Plugins THEN Goes ELSE RaisesAny
    BY <1>10 DEF ResolvePlugins
  <2>2. tree[version] = [of |-> version, whole |-> TRUE, merged |-> {}]
    BY <1>10 DEF ResolvePlugins
  <2>3. tree' = [tree EXCEPT ![version] = [of |-> version, whole |-> TRUE, merged |-> done]]
    BY <2>1, <2>2 DEF Merged
  <2>4. [of |-> version, whole |-> TRUE, merged |-> done] \in ExtractedTree
    BY DEF ExtractedTree
  <2>5. /\ tree' \in [Versions -> ExtractedTree \cup {NoTree}]
        /\ tree'[version] = [of |-> version, whole |-> TRUE, merged |-> done]
    BY <2>3, <2>4
  <2> QED
    BY <1>10, <2>1, <2>5 DEF ResolvePlugins
<1>11. CASE ResolveSequence BY <1>11 DEF ResolveSequence
<1>12. CASE Install
  <2>1. /\ outcome = "running" /\ state = "RESOLVING_SEQUENCE" /\ host = before
        /\ tree[version].of = version /\ told = <<>> /\ session
        /\ UNCHANGED <<session, version, artifact, tree, told, tried, before, runs>>
    BY <1>12 DEF Install
  <2>2. \/ state' = "INSTALLING" /\ host' = version /\ outcome' = "running"
        \/ /\ state' = "ROLLED_BACK" /\ outcome' = "failing"
           /\ host' \in {before, version, Torn}
           /\ version \in Protected => host' = before
        \/ state' = "INSTALLING" /\ host' \in {before, version, Torn} /\ outcome' = "escaped"
    BY <1>12, <2>1 DEF Install, Leftovers
  <2> QED BY <2>1, <2>2
<1>13. CASE Healthcheck BY <1>13 DEF Healthcheck
<1>14. CASE Notify BY <1>14 DEF Notify
<1>15. CASE Succeed BY <1>15 DEF Succeed
<1>16. CASE HandleError
  <2>1. told' \in {told, Append(told, "failed")} /\ (told' # told => session)
    BY <1>16 DEF HandleError
  <2>2. told' \in {<<>>, <<"success">>, <<"failed">>, <<"success", "failed">>}
    BY <1>16, <2>1, Reports DEF HandleError
  <2>3. told' \in {<<"success">>, <<"success", "failed">>} => told = <<"success">>
    BY <1>16, <2>1, Reports DEF HandleError
  <2>4. state' = "ROLLED_BACK" => state = "ROLLED_BACK"
    BY <1>16 DEF HandleError, TERMINAL_STATES
  <2>5. state' \in {state, "FAILED"} /\ outcome = "failing" /\ outcome' = "raised"
        /\ UNCHANGED <<session, version, artifact, tree, host, before, runs>>
        /\ tried' \in {tried, TRUE}
    BY <1>16 DEF HandleError
  <2>6. TypeOK' /\ Checked' /\ HasTree'
    BY ZenonT(40), <2>2, <2>4, <2>5
  <2>8. state = "ROLLED_BACK" => state' = "ROLLED_BACK"
    BY <1>16 DEF HandleError, TERMINAL_STATES
  <2>9. HostFollows'
    BY <2>4, <2>5, <2>8
  <2>7. HubHears'
    BY <2>1, <2>2, <2>3, <2>4, <2>5, Reports
  <2> QED BY <2>6, <2>7, <2>9
<1> QED
  BY <1>1, <1>2, <1>3, <1>4, <1>5, <1>6, <1>7, <1>8, <1>9, <1>10, <1>11, <1>12, <1>13,
     <1>14, <1>15, <1>16
  DEF Run, Acquire, Verify, Prepare, Deliver

\* A crash tears the host in the install stage only.
LEMMA CrashedHost ==
    ASSUME Crash
    PROVE  host' = host \/ (host' = Torn /\ state = "RESOLVING_SEQUENCE")
BY DEF Crash

\* Nor may a new run, or the death of the process.
LEMMA NextInvariant == IInv /\ [Next]_vars => IInv'
<1> SUFFICES ASSUME IInv, [Next]_vars PROVE IInv' OBVIOUS
<1>1. CASE Run BY <1>1, RunInvariant
<1> USE StatesAre, RunnerConstants
    DEF IInv, TypeOK, Checked, HasTree, HostFollows, HubHears, BeforeInstall, Artifact,
        Flaws, Ended, history
<1>2. ASSUME NEW v \in Versions, NewRun(v) PROVE IInv'
  <2>1. runs' \in 0..MaxRuns
    BY <1>2 DEF NewRun
  <2> QED
    BY <1>2, <2>1, Reports DEF NewRun
<1>3. CASE Crash
  <2>1. /\ outcome \in {"running", "failing"} /\ outcome' = "down"
        /\ UNCHANGED <<state, session, version, artifact, told, tried, before, runs>>
    BY <1>3 DEF Crash
  <2>2. tree' \in [Versions -> ExtractedTree \cup {NoTree}]
    <3>1. [of |-> artifact.version, whole |-> FALSE, merged |-> {}] \in ExtractedTree
      BY DEF ExtractedTree
    <3>2. ASSUME NEW done \in SUBSET Plugins, state = "VALIDATING_PROJECT",
                 tree' = [tree EXCEPT ![version] = Merged(@, done)]
          PROVE  tree' \in [Versions -> ExtractedTree \cup {NoTree}]
      <4>1. tree[version] \in ExtractedTree
        BY <2>1, <3>2
      <4>2. Merged(tree[version], done) \in ExtractedTree
        BY <4>1 DEF ExtractedTree, Merged
      <4> QED BY <3>2, <4>2
    <3> QED BY <1>3, <3>1, <3>2 DEF Crash
  <2>3. host' = host \/ (host' = Torn /\ state = "RESOLVING_SEQUENCE")
    BY <1>3, CrashedHost
  <2> QED
    BY ZenonT(40), <2>1, <2>2, <2>3, Reports
<1>4. CASE UNCHANGED vars
  BY <1>4 DEF vars
<1> QED BY <1>1, <1>2, <1>3, <1>4 DEF Next

-----------------------------------------------------------------------------
\* IInv holds in every reachable state.
THEOREM InductiveInvariant == Spec => []IInv
BY InitInvariant, NextInvariant, PTL DEF Spec

\* Types, for any versions, sources and number of runs, whatever fails in a run
\* and wherever the process dies.
THEOREM TypeCorrect == Spec => []TypeOK
<1>1. IInv => TypeOK
  BY DEF IInv
<1> QED BY <1>1, InductiveInvariant, PTL

\* However many earlier runs left a working directory torn or merged into, what
\* is installed is the requested version, genuine, whole and complete.
THEOREM InstallCorrect == Spec => []InstallsOnlyVerified
<1>1. IInv => InstallsOnlyVerified
  BY DEF IInv, Checked, InstallsOnlyVerified
<1> QED BY <1>1, InductiveInvariant, PTL

\* No run tells the Hub of a success that the host does not have.
THEOREM ReportsCorrect == Spec => []HubNotMisled
<1>1. IInv => HubNotMisled
  <2> SUFFICES ASSUME IInv PROVE HubNotMisled OBVIOUS
  <2>1. \A i \in DOMAIN told : told[i] = "success" => host = version /\ i = 1
    BY DEF IInv, TypeOK, HubHears
  <2>2. state = "ROLLED_BACK" =>
           told \in {<<>>, <<"failed">>} /\ (version \in Protected => host = before)
    BY DEF IInv, HostFollows, HubHears
  <2>3. told # <<>> => session
    BY DEF IInv, HubHears
  <2> QED BY <2>1, <2>2, <2>3 DEF HubNotMisled
<1> QED BY <1>1, InductiveInvariant, PTL

\* A retry refuses a good artifact at no time: no reachable step compares the
\* digest with anything else than what was extracted in this run.
THEOREM RetryCorrect == Spec => RefusesOnlyFlawed
<1> DEFINE A == state = "EXTRACTING" /\ state' = "VERIFYING_MANIFEST" /\ outcome' = "failing"
                   => artifact.flaw \in {"no_manifest", "bad_digest", "no_plan"}
<1>1. IInv /\ [Next]_vars => [A]_vars
  <2> SUFFICES ASSUME IInv, Next, state = "EXTRACTING", state' = "VERIFYING_MANIFEST",
                      outcome' = "failing"
               PROVE  artifact.flaw \in {"no_manifest", "bad_digest", "no_plan"}
    OBVIOUS
  <2>1. VerifyManifest
    BY DEF Next, NewRun, Run, Acquire, Verify, Prepare, Deliver, Authenticate,
           RequestArtifact, Download, VerifySignature, ObtainKey, Decrypt, Extract,
           ValidateProject, ResolvePlugins, ResolveSequence, Install, Healthcheck, Notify,
           Succeed, HandleError, Crash, Stage, Transition
  <2>2. outcome = "running"
        /\ (artifact.flaw \in {"no_manifest", "no_plan"} \/ ~Pristine(tree[version]))
    BY <2>1 DEF VerifyManifest, Stage, Goes, RaisesOther
  <2>3. tree[version] = [of |-> artifact.version, whole |-> TRUE, merged |-> {}]
    BY <2>2 DEF IInv, Checked
  <2> QED BY <2>2, <2>3 DEF Pristine
<1> QED BY <1>1, InductiveInvariant, PTL DEF Spec, RefusesOnlyFlawed

-----------------------------------------------------------------------------
\* Before the first run, the host is what a broken run may have left.
LEMMA InitRefines == Init => Abstract!Init
BY DEF Init, Ended, PhaseOf, Abstract!Init, Abstract!Ends

\* A run begins, ends as its caller may expect, or does nothing its caller sees.
LEMMA NextRefines == IInv /\ [Next]_vars => [Abstract!Next]_(Abstract!vars)
<1> SUFFICES ASSUME IInv, [Next]_vars
             PROVE  Abstract!Next \/ UNCHANGED Abstract!vars
  OBVIOUS
<1> USE DEF Ended, PhaseOf
<1>1. ASSUME NEW v \in Versions, NewRun(v) PROVE Abstract!Begin(v)
  BY <1>1 DEF NewRun, Abstract!Begin, Abstract!Ends
<1>2. ASSUME outcome \in {"running", "failing"}, outcome' \in {"running", "failing"},
             UNCHANGED <<version, before>>
      PROVE  UNCHANGED Abstract!vars
  BY <1>2 DEF Abstract!vars
<1>3. ASSUME outcome \in {"running", "failing"}, outcome' \in {"escaped", "down"},
             UNCHANGED <<version, before>>, host' \in {before, version, Torn}
      PROVE  Abstract!Next
  <2>1. Abstract!End("broken", {before, version, Torn})
    BY <1>3 DEF Abstract!End
  <2> QED BY <1>3, <2>1 DEF Abstract!Next
<1>4. CASE HandleError
  <2>1. /\ outcome = "failing" /\ outcome' = "raised" /\ UNCHANGED <<version, before, host>>
        /\ state' = "ROLLED_BACK" <=> state = "ROLLED_BACK"
    BY <1>4 DEF HandleError, Transition, TERMINAL_STATES
  <2>2. CASE state' = "ROLLED_BACK"
    <3>1. host' \in {before, version, Torn} /\ (version \in Protected => host' = before)
      BY <2>1, <2>2 DEF IInv, HostFollows
    <3>2. \/ version \in Protected /\ Abstract!End("rolled_back", {before})
          \/ version \notin Protected /\ Abstract!End("rolled_back", {before, version, Torn})
      BY <2>1, <2>2, <3>1 DEF Abstract!End
    <3> QED BY <2>1, <3>2 DEF Abstract!Next
  <2>3. CASE state' # "ROLLED_BACK"
    <3>1. host' \in {before, version}
      BY <2>1, <2>3 DEF IInv, HostFollows
    <3>2. Abstract!End("refused", {before, version})
      BY <2>1, <2>3, <3>1 DEF Abstract!End
    <3> QED BY <2>1, <3>2 DEF Abstract!Next
  <2> QED BY <2>2, <2>3
<1>5. CASE Succeed
  <2>1. host' = version /\ outcome = "running" /\ outcome' = "returned"
        /\ UNCHANGED <<version, before>>
    BY <1>5 DEF Succeed, Stage, history, IInv, HostFollows
  <2>2. Abstract!End("returned", {version})
    BY <2>1 DEF Abstract!End
  <2> QED BY <2>1, <2>2 DEF Abstract!Next
<1>6. CASE Crash
  <2>1. outcome \in {"running", "failing"} /\ outcome' = "down" /\ UNCHANGED <<version, before>>
    BY <1>6 DEF Crash, history
  <2>2. host' \in {before, version, Torn}
    BY <1>6, <2>1, CrashedHost DEF IInv, HostFollows
  <2> QED BY <1>3, <2>1, <2>2
<1>7. CASE Install
  <2>1. /\ outcome = "running" /\ UNCHANGED <<version, before>>
        /\ \/ outcome' \in {"running", "failing"}
           \/ outcome' = "escaped" /\ host' \in {before, version, Torn}
    <3>1. outcome = "running" /\ state = "RESOLVING_SEQUENCE"
      BY <1>7 DEF Install
    <3>2. Leftovers = {before, version, Torn}
      BY <3>1 DEF IInv, Checked, HostFollows, BeforeInstall, Leftovers
    <3> QED BY <1>7, <3>2 DEF Install, Goes, RaisesDeploymentError, RaisesOther, history
  <2> QED BY <1>2, <1>3, <2>1
<1>8. CASE Acquire \/ Verify \/ Prepare \/ Healthcheck \/ Notify
  <2>1. /\ outcome = "running" /\ UNCHANGED <<version, before, host>>
        /\ outcome' \in {"running", "failing", "escaped"}
    BY <1>8 DEF Acquire, Verify, Prepare, Authenticate, RequestArtifact, Download,
                VerifySignature, ObtainKey, Decrypt, Extract, VerifyManifest,
                ValidateProject, ResolvePlugins, ResolveSequence, Healthcheck, Notify,
                Stage, Goes, RaisesAny, RaisesDeploymentError, RaisesOther, history
  <2>2. host \in {before, version, Torn}
    BY <2>1 DEF IInv, HostFollows
  <2> QED BY <1>2, <1>3, <2>1, <2>2
<1>9. CASE UNCHANGED vars
  BY <1>9 DEF vars, Abstract!vars
<1> QED
  BY <1>1, <1>4, <1>5, <1>6, <1>7, <1>8, <1>9 DEF Next, Run, Deliver, Abstract!Next

\* A run is one step to its caller: it returns with the version on the host, is
\* refused with all of it or none, is rolled back to what was there before if its
\* plan takes snapshots, or ends with a host that may be torn.
THEOREM Refinement == Spec => ImplementsDeployment
<1>1. Init => Abstract!Init
  BY InitRefines
<1>2. IInv /\ [Next]_vars => [Abstract!Next]_(Abstract!vars)
  BY NextRefines
<1> QED
  BY <1>1, <1>2, InductiveInvariant, PTL DEF Spec, Abstract!Spec, ImplementsDeployment
=============================================================================
