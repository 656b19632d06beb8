------------------------------ MODULE MCPacker ------------------------------
(* Packer on every small plan, on scaffolded ones, and on trees of one plugin *)
(* and one extension with every kind of file.                                *)
EXTENDS Packer

CONSTANTS auth, bus

InitPlan == INSTANCE Scaffold

A == <<"a">>
B == <<"b">>
C == <<"c">>
D == <<"d">>
Unknown == <<"unknown">>

StepsWith(ids, lists) == [id : ids, depends_on : lists]
Lists(ids) == {<<>>} \cup {<<x>> : x \in ids} \cup {<<x, y>> : x, y \in ids}

\* Ids may repeat, be unknown or depend on themselves.
Pairs == { <<s, t>> : s, t \in StepsWith({A, B}, Lists({A, B, Unknown})) }

\* Three steps, with dependency lists in every order.
Triples == { << [id |-> A, depends_on |-> x], [id |-> B, depends_on |-> y],
                [id |-> C, depends_on |-> z] >> :
             x \in Lists({B, C}), y \in Lists({A, C}), z \in Lists({A, B}) }

\* Four steps: all graphs on them.
Graph(n, sets) == [id |-> n, depends_on |-> SetToSeq(sets[n])]
Quads == LET N == {A, B, C, D}
         IN  { << Graph(A, g), Graph(B, g), Graph(C, g), Graph(D, g) >> :
               g \in {h \in [N -> SUBSET N] : \A n \in N : n \notin h[n]} }

\* Up to three plugins, with and without an .env, and two extensions; one
\* plugin is called "ext_bus".
PluginLists ==
    LET P == [name : {<<"auth">>, <<"ext", "bus">>}, env : BOOLEAN]
    IN  { <<p>> : p \in P } \cup { <<p, q>> : p, q \in P }
Scaffolds == { InitPlan!InstallSteps(ps, xs, h) :
                 ps \in PluginLists, xs \in {<<>>, << <<"bus">> >>, << <<"bus">>, <<"mail">> >>},
                 h \in BOOLEAN }

Written == Pairs \cup Triples \cup Quads
AllPlans == Written \cup Scaffolds
AllIds == {A, B, C, D, Unknown, <<"prepare">>, <<"start">>, <<"healthcheck">>}
          \cup { p \o n : p \in {<<"install">>, <<"write", "env">>, <<"install", "ext">>},
                          n \in {<<"auth">>, <<"ext", "bus">>, <<"bus">>, <<"mail">>} }

File(i, k) == [item |-> i, kind |-> k]
AllFiles == {File(Root, "manifest"), File(bus, "code")} \cup {File(auth, k) : k \in Kinds}

Project(p, scaffolded, matches, files, others, sourced, inject) ==
    [steps |-> p, scaffolded |-> scaffolded, matches |-> matches, files |-> files,
     others |-> others, sourced |-> sourced, inject |-> inject, uses |-> {auth}]

\* Plans on their own: the version asked for is another one.
OnlyPlan(p, scaffolded) == Project(p, scaffolded, FALSE, {}, {}, {}, {})
OnlyPlans == { OnlyPlan(p, FALSE) : p \in Written } \cup { OnlyPlan(p, TRUE) : p \in Scaffolds }

\* Trees on their own, each with a few kinds of files.
Plain == InitPlan!InstallSteps(<<InitPlan!Plugin(<<"auth">>, FALSE)>>, << <<"bus">> >>, FALSE)
Minimal == {File(Root, "manifest"), File(auth, "manifest")}
Tree(files, others, sourced, inject) ==
    Project(Plain, TRUE, TRUE, files, others, sourced, inject)
OnlyTrees ==
    { Tree(Minimal \cup {x}, {File(auth, "code")}, sourced, {}) :
        x \in {File(auth, k) : k \in {"template", "in_template_dir", "linked", "excluded"}},
        sourced \in SUBSET {auth} }
    \cup { Tree(Minimal \cup {File(bus, "code")}, {}, sourced, {auth}) : sourced \in SUBSET {auth, bus} }
    \cup { Tree(Minimal \ {f}, {f}, {}, {}) : f \in Minimal }

AllProjects == OnlyPlans \cup OnlyTrees
=============================================================================
