------------------------------- MODULE Packer -------------------------------
(***************************************************************************)
(* packer/builder.py, build_artifact(), as `xcore-agent build` and `publish`  *)
(* call it on a developer's working tree, which goes on being edited.        *)
(* The install plan is loaded (module InstallPlan), the tree is inspected and *)
(* hashed file by file, manifest.json is written into it, then it is copied   *)
(* file by file, pruned and sealed.  What an agent does first with the        *)
(* outcome is Verifies.                                                     *)
(*                                                                         *)
(* A file is known by the plugin or extension it is in and by how the packer  *)
(* treats its name; its content is a number, 0 where there is none.          *)
(***************************************************************************)
EXTENDS InstallPlan

CONSTANTS
    Plugins, Extensions,  \* directories under plugins/ and extensions/
    Root,                 \* everything outside of them
    Files,                \* the files that may be there
    Projects,             \* working trees, with the install.yaml in them
    NoManifest, NoArtifact,
    MaxActs               \* bound: builds and edits

Items == Plugins \cup Extensions \cup {Root}

Kinds == {"manifest",         \* plugin.yaml, service.yaml; integration.yaml
          "template",         \* <name>.template, directly in a directory
          "in_template_dir",  \* in a directory so named
          "code",
          "linked",           \* behind a symbolic link to a directory
          "excluded"}         \* matches _PACKAGING_EXCLUDE_PATTERNS

Integration == [item |-> Root, kind |-> "manifest"]

\* files: those there at first; others: those that may be added.
\* sourced: the items with a `source:` in install.yaml, their manifest or the
\* registry.  inject: the plugins whose plugin.yaml wants an .env injected.
\* uses: what the steps name.  matches: project_id and version are those asked for.
\* scaffolded: install.yaml is what `init-plan` wrote (module Scaffold).
IsProject(p) ==
    /\ IsPlan(p.steps)
    /\ p.files \subseteq Files /\ p.others \subseteq Files
    /\ p.sourced \subseteq Plugins \cup Extensions
    /\ p.inject \subseteq Plugins
    /\ p.uses \subseteq Plugins \cup Extensions
    /\ p.matches \in BOOLEAN /\ p.scaffolded \in BOOLEAN

ASSUME PackerConstants ==
    /\ Files \subseteq [item : Items, kind : Kinds]
    /\ Integration \in Files
    /\ \A p \in Projects : IsProject(p)
    /\ NoManifest \notin [Files -> Nat]
    /\ MaxActs \in Nat

VARIABLES
    project,
    tree,        \* source_root, but for manifest.json
    manifest,    \* source_root/manifest.json
    pc,
    todo,        \* files still to be read or copied
    hashed,      \* what content_sha256 is computed of
    package,     \* the packaging view
    artifact,    \* the .xdeploy file
    hub,         \* what the Hub stores
    moment,      \* history: source_root when manifest.json was written
    edited,      \* history: source_root was edited during this build
    acts         \* builds and edits so far

planVars == <<phase, marks, stack, next, order>>
view == <<todo, hashed, package>>
history == <<moment, edited>>
packVars == <<vars, project, tree, manifest, pc, view, artifact, hub,
              history, acts>>
fixed == <<steps, project, acts>>

Content == [Files -> Nat]
Empty == [f \in Files |-> 0]
Only(t, S) == [f \in Files |-> IF f \in S THEN t[f] ELSE 0]
In(i) == {f \in Files : f.item = i}
There(t) == {f \in Files : t[f] # 0}
Workfiles == project.files \cup project.others
IsThere(i) == In(i) \cap There(tree) # {}
Sourced(f) == f.item \in project.sourced

PackInit ==
    /\ project \in Projects
    /\ steps = project.steps /\ Fresh
    /\ tree = [f \in Files |-> IF f \in project.files THEN 1 ELSE 0]
    /\ manifest = NoManifest
    /\ pc = "idle"
    /\ todo = {} /\ hashed = Empty /\ package = Empty
    /\ artifact = NoArtifact /\ hub = NoArtifact
    /\ moment = Empty /\ edited = FALSE
    /\ acts = 0

\* The command is given; build_artifact parses install.yaml first.
Build ==
    /\ pc = "idle"
    /\ acts < MaxActs
    /\ acts' = acts + 1
    /\ pc' = "plan"
    /\ phase' = "new" /\ marks' = [progress |-> {}, done |-> {}]
    /\ stack' = <<>> /\ next' = 1 /\ order' = <<>>
    /\ todo' = {} /\ hashed' = Empty /\ package' = Empty
    /\ edited' = FALSE
    /\ UNCHANGED <<steps, project, tree, manifest, artifact, hub, moment>>

LoadPlan ==
    /\ pc = "plan"
    /\ Next
    /\ UNCHANGED <<project, tree, manifest, pc, view, artifact, hub,
                   history, acts>>

\* BuildError, or any other exception: the command ends, and nothing is undone.
Fail == pc' = "idle"

\* _load_install_plan and _validate_source_tree.
ValidateSourceTree ==
    /\ pc = "plan"
    /\ phase \in {"ordered", "rejected"}
    /\ IF /\ phase = "ordered" /\ project.matches
          /\ tree[Integration] # 0
          /\ \E p \in Plugins : IsThere(p)
          /\ \A i \in project.uses : IsThere(i)
       THEN pc' = "inspect" ELSE Fail
    /\ UNCHANGED <<fixed, planVars, tree, manifest, view, artifact, hub, history>>

\* Files that survive _prune_to_manifest_only: the names at the top of the
\* directory decide.
Survives(f) == f.kind \in {"manifest", "template", "in_template_dir"}

\* Files content_sha256 covers: rglob does not follow links to directories, and
\* _non_manifest_relpaths lists whatever is not directly in a sourced directory.
Counted(f) ==
    /\ f.kind \notin {"linked", "excluded"}
    /\ Sourced(f) => f.kind \in {"manifest", "template"}

Complete(p) ==
    IsThere(p) =>
        /\ \E f \in In(p) : f.kind = "manifest" /\ tree[f] # 0
        /\ p \in project.inject \ project.sourced =>
              \E f \in In(p) : f.kind = "template" /\ tree[f] # 0

\* Mutant: a manifest.json that is there already is used again.
InspectReusing ==
    /\ pc = "inspect"
    /\ IF \A p \in Plugins : Complete(p)
       THEN /\ pc' = IF manifest = NoManifest THEN "hash" ELSE "copy"
            /\ todo' = IF manifest = NoManifest
                       THEN {f \in There(tree) : Counted(f)}
                       ELSE {f \in Workfiles : f.kind # "excluded"}
       ELSE Fail /\ UNCHANGED todo
    /\ UNCHANGED <<fixed, planVars, tree, manifest, hashed, package, artifact,
                   hub, history>>

\* write_manifest up to the listing of the tree.  The sums of the embedded
\* plugins and extensions are left out: nothing compares them with anything.
Inspect ==
    /\ pc = "inspect"
    /\ IF manifest = NoManifest /\ \A p \in Plugins : Complete(p)
       THEN /\ pc' = "hash"
            /\ todo' = {f \in There(tree) : Counted(f)}
       ELSE Fail /\ UNCHANGED todo
    /\ UNCHANGED <<fixed, planVars, tree, manifest, hashed, package, artifact,
                   hub, history>>

\* compute_tree_digest reads one of the files it has listed.
Read(f) ==
    /\ pc = "hash"
    /\ f \in todo
    /\ IF tree[f] # 0
       THEN /\ hashed' = [hashed EXCEPT ![f] = tree[f]]
            /\ todo' = todo \ {f}
            /\ UNCHANGED pc
       ELSE Fail /\ UNCHANGED <<hashed, todo>>
    /\ UNCHANGED <<fixed, planVars, tree, manifest, package, artifact,
                   hub, history>>

\* Mutant: the packaging view takes everything along.
CopyAll ==
    /\ pc = "hash" /\ todo = {}
    /\ manifest' = hashed
    /\ moment' = tree
    /\ todo' = Workfiles
    /\ pc' = "copy"
    /\ UNCHANGED <<fixed, planVars, tree, hashed, package, artifact, hub,
                   edited>>

\* manifest.json is written; copytree begins.
WriteManifest ==
    /\ pc = "hash" /\ todo = {}
    /\ manifest' = hashed
    /\ moment' = tree
    /\ todo' = {f \in Workfiles : f.kind # "excluded"}
    /\ pc' = "copy"
    /\ UNCHANGED <<fixed, planVars, tree, hashed, package, artifact, hub,
                   edited>>

Copy(f) ==
    /\ pc = "copy"
    /\ f \in todo
    /\ package' = [package EXCEPT ![f] = tree[f]]
    /\ todo' = todo \ {f}
    /\ UNCHANGED <<fixed, planVars, tree, manifest, pc, hashed, artifact,
                   hub, history>>

\* _prepare_packaging_view ends: sourced items are pruned.
Prune ==
    /\ pc = "copy" /\ todo = {}
    /\ package' = Only(package, {f \in Files : Sourced(f) => Survives(f)})
    /\ pc' = "seal"
    /\ UNCHANGED <<fixed, planVars, tree, manifest, todo, hashed, artifact,
                   hub, history>>

\* seal_directory, and the output file, with which `build` ends.
Seal ==
    /\ pc = "seal"
    /\ artifact' = [content |-> package, manifest |-> manifest, of |-> moment,
                    quiet |-> ~edited]
    /\ pc' \in {"publish", "idle"}
    /\ UNCHANGED <<fixed, planVars, tree, manifest, view, hub, history>>

\* hub.publish: the Hub refuses it or stores it, whether or not its answer
\* comes through.
Publish ==
    /\ pc = "publish"
    /\ hub' \in {hub, artifact}
    /\ pc' = "idle"
    /\ UNCHANGED <<fixed, planVars, tree, manifest, view, artifact, history>>

\* The disk is full, a file is unreadable, the process is killed: manifest.json
\* stays, be it written in part.
Break ==
    /\ pc # "idle"
    /\ Fail
    /\ \/ UNCHANGED manifest
       \/ /\ pc = "hash" /\ todo = {}
          /\ manifest' = Empty
    /\ UNCHANGED <<fixed, planVars, tree, view, artifact, hub, history>>

\* The developer, told to do so, removes manifest.json.
RemoveManifest ==
    /\ pc = "idle"
    /\ manifest # NoManifest
    /\ manifest' = NoManifest
    /\ UNCHANGED <<fixed, planVars, tree, pc, view, artifact, hub, history>>

\* The developer writes a file or, if it is as it was checked out, removes it:
\* no edit brings back a content of before, which no digest could tell.  An edit
\* at another moment is another tree to begin with.
Edit(f) ==
    /\ pc \in {"inspect", "hash", "copy"}
    /\ acts < MaxActs
    /\ acts' = acts + 1
    /\ \/ tree' = [tree EXCEPT ![f] = acts + 2]
       \/ tree[f] = 1 /\ tree' = [tree EXCEPT ![f] = 0]
    /\ edited' = TRUE
    /\ UNCHANGED <<vars, project, manifest, pc, view, artifact, hub, moment>>

Hash == Inspect \/ (\E f \in todo : Read(f)) \/ WriteManifest
Package == (\E f \in todo : Copy(f)) \/ Prune \/ Seal \/ Publish
Packing == LoadPlan \/ ValidateSourceTree \/ Hash \/ Package

PackNext == Build \/ Packing \/ Break \/ RemoveManifest \/ \E f \in Workfiles : Edit(f)

PackSpec == PackInit /\ [][PackNext]_packVars

\* build_artifact runs to its end.
FairPackSpec == PackSpec /\ WF_packVars(Packing)

\* Mutant: the digest is of the names.
VerifiesNames(a) == There(a.content) = There(a.manifest)

\* The agent's _verify_manifest: the digest of all that was extracted.
Verifies(a) == a.content = a.manifest

-----------------------------------------------------------------------------
(* Properties *)

Artifacts == {artifact, hub} \ {NoArtifact}

\* Types; files are read or copied in the build's own stages only, and what is
\* hashed or packed before its time is nothing.
PackTypeOK ==
    /\ TypeOK
    /\ steps = project.steps
    /\ tree \in Content /\ hashed \in Content /\ package \in Content
    /\ manifest # NoManifest => manifest \in Content
    /\ pc \in {"idle", "plan", "inspect", "hash", "copy", "seal", "publish"}
    /\ todo \subseteq Files
    /\ pc \in {"copy", "seal", "publish"} => manifest # NoManifest
    /\ \A a \in Artifacts : a.content \in Content /\ a.of \in Content

\* Although files are edited, created and removed while the tree is hashed and
\* copied, an artifact that an agent accepts holds what the tree was at one
\* moment, without what is excluded or pruned: never a mixture of two states.
AcceptedIsOneMoment ==
    \A a \in Artifacts : Verifies(a) =>
        a.content = Only(a.of, {f \in Files : Counted(f)})

\* An agent accepts what is built of a tree that nobody edits meanwhile, unless
\* it holds a directory named *.template in a sourced item or a link to a
\* directory in an embedded one.
AcceptsOwnBuild ==
    \A a \in Artifacts :
        a.quiet /\ (\A f \in There(a.of) :
                       IF Sourced(f) THEN f.kind # "in_template_dir" ELSE f.kind # "linked")
            => Verifies(a)

\* builder.py:52-59: whatever is edited meanwhile and whether or not an agent
\* would accept it, no secret-shaped or cache file is sealed, and no code of an
\* item that is resolved at deploy time.
NothingElseSealed ==
    \A a \in Artifacts : \A f \in There(a.content) :
        f.kind # "excluded" /\ (Sourced(f) => f.kind \notin {"code", "linked"})

\* A build that is neither retried nor left alone by the system comes to its
\* end, be the plan cyclic or the tree edited without pause.
BuildEnds == pc # "idle" ~> pc = "idle"

\* A plan that init-plan wrote is refused only when the names of an extension
\* and a plugin make one step id, and is executed in the order it was written.
ScaffoldRuns ==
    project.scaffolded =>
        /\ phase = "rejected" => ~IsInjective([i \in DOMAIN steps |-> steps[i].id])
        /\ phase = "ordered" => order = [i \in DOMAIN steps |-> steps[i].id]
=============================================================================
