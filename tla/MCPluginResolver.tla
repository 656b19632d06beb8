-------------------------- MODULE MCPluginResolver --------------------------
(* PluginResolver on a few sources of one plugin. *)
EXTENDS PluginResolver

Git(origin, ref, mutable) ==
    [id |-> "auth", market |-> FALSE, origin |-> origin, ref |-> ref, mutable |-> mutable,
     lacks |-> {}]
Market(slug, version, mutable, lacks) ==
    [id |-> "auth", market |-> TRUE, origin |-> slug, ref |-> version, mutable |-> mutable,
     lacks |-> lacks]

\* A git tag and a marketplace version of the same name, and "latest", whose
\* second revision no longer has the subdirectory.
DistinctSources == { Git("upstream", "1.0", FALSE), Market("xauth", "1.0", FALSE, {}),
                     Market("xauth", "latest", TRUE, {2}) }
=============================================================================
