-------------------------- MODULE MCChangePipeline --------------------------
(***************************************************************************)
(* Instances of ChangePipeline for TLC.                                    *)
(***************************************************************************)
EXTENDS ChangePipeline, TLC

AllFaults ==
    {"RUNNER_UNAVAILABLE", "STORAGE_FAILURE", "REPOSITORY_UNAVAILABLE",
     "WORKER_UNAVAILABLE", "LIMIT_EXCEEDED", "INSUFFICIENT_RESOURCE",
     "OUTAGE"}
\* Everything an operator may do to a development without crashes.
DailyCommands ==
    {"resume", "retry", "pause", "abort", "ci", "interrupt", "resolve",
     "suspend", "close", "giveUp", "signal"}

\* Schedulers only differ in their name.
SchedSymmetry == Permutations(Scheds)

=============================================================================
