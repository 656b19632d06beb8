--------------------------- MODULE MCWatchSources ---------------------------
(* WatchSources on plans with two sources, in three kinds of container. *)
EXTENDS WatchSources

Pinned == [git |-> FALSE, pin |-> 1]
Latest == [git |-> FALSE, pin |-> None]
Git    == [git |-> TRUE, pin |-> 1]

AllPlans == { <<Pinned, Latest>>, <<Git, Pinned>>, <<Pinned, Git>> }
GitPlans == { <<Git, Pinned>>, <<Pinned, Git>> }

Stays    == [exit_on_update |-> FALSE, boot_resolves |-> FALSE]
Restarts == [exit_on_update |-> TRUE, boot_resolves |-> FALSE]
Rebuilds == [exit_on_update |-> TRUE, boot_resolves |-> TRUE]

AllModes == {Stays, Restarts, Rebuilds}
StayModes == {Stays}
=============================================================================
