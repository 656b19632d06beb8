------------------------ MODULE MCMarketplaceRunner ------------------------
(* MarketplaceRunner with three versions of one slug. *)
EXTENDS MarketplaceRunner

\* The watcher alone, anything but its death.
Watched == [troubles |-> AllTroubles \ {"crash"}, often |-> 2, publish |-> 2, manual |-> 0,
            snapshots |-> TRUE, supervised |-> TRUE]

\* The same with the default of install.yaml, and with the default supervisor.
Unprotected == [troubles |-> {"io_error", "write_error", "step_error", "rollback_error"},
                often |-> 2, publish |-> 2, manual |-> 0,
                snapshots |-> FALSE, supervised |-> FALSE]

\* The watcher alone, in runs that end with a report that arrives.
Reported == [troubles |-> {"retryable", "refused", "forged", "bad_plan", "step_error"},
             often |-> 4, publish |-> 1, manual |-> 0,
             snapshots |-> TRUE, supervised |-> FALSE]

\* A deploy-marketplace of the same slug beside it, either process may die.
Beside == [troubles |-> {"step_error", "crash"},
           often |-> 2, publish |-> 1, manual |-> 1,
           snapshots |-> FALSE, supervised |-> FALSE]

AllSettings == {Watched, Unprotected, Reported, Beside}
=============================================================================
