------------------------------ MODULE MCService ------------------------------
(***************************************************************************)
(* Values for the constants of ServiceLifecycle that a .cfg cannot write.  *)
(***************************************************************************)
EXTENDS ServiceLifecycle

CONSTANTS daily, languages, cleanup

\* One job that is started both ways, one of the cold start, one of cron.
SomeColdJobs == {daily, languages}
SomeCronJobs == {daily, cleanup}

\* "7 * * * *" and the others.
FiveFields == [j \in SomeCronJobs |-> 5]
============================================================================
