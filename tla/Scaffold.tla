------------------------------ MODULE Scaffold ------------------------------
(***************************************************************************)
(* scaffold.py: the steps `init-plan` writes for a list of plugins and a     *)
(* list of extensions.  A name is the sequence of its parts around "_", so    *)
(* that step ids made of a prefix and a name collide where the program's do. *)
(***************************************************************************)
EXTENDS Sequences, SequencesExt

\* PluginSpec: `env` stands for an env_template.
Plugin(name, env) == [name |-> name, env |-> env]

Id(prefix, name) == prefix \o name

Prepare == [id |-> <<"prepare">>, depends_on |-> <<>>]

InstallId(p) == Id(<<"install">>, p.name)
EnvId(p) == Id(<<"write", "env">>, p.name)
ExtensionId(x) == Id(<<"install", "ext">>, x)

PluginSteps(p) ==
    <<[id |-> InstallId(p), depends_on |-> <<>>]>>
    \o (IF p.env THEN <<[id |-> EnvId(p), depends_on |-> <<InstallId(p)>>]>> ELSE <<>>)

LastStepOf(p) == IF p.env THEN EnvId(p) ELSE InstallId(p)

ExtensionStep(x) == [id |-> ExtensionId(x), depends_on |-> <<>>]

\* Mutant: `start` is written ahead of what it depends on.
StartFirst(plugins, extensions, healthcheck) ==
    <<[id |-> <<"start">>, depends_on |-> [i \in DOMAIN plugins |-> LastStepOf(plugins[i])]]>>
    \o FlattenSeq([i \in DOMAIN plugins |-> PluginSteps(plugins[i])])

\* prepare, then each plugin's steps, each extension's, start, healthcheck.
InstallSteps(plugins, extensions, healthcheck) ==
    <<Prepare>>
    \o FlattenSeq([i \in DOMAIN plugins |-> PluginSteps(plugins[i])])
    \o [i \in DOMAIN extensions |-> ExtensionStep(extensions[i])]
    \o <<[id |-> <<"start">>,
          depends_on |-> [i \in DOMAIN plugins |-> LastStepOf(plugins[i])]
                         \o [i \in DOMAIN extensions |-> ExtensionId(extensions[i])]]>>
    \o (IF healthcheck THEN <<[id |-> <<"healthcheck">>, depends_on |-> <<<<"start">>>>]>>
                       ELSE <<>>)
=============================================================================
