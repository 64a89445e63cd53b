----------------------------- MODULE MCFunding ------------------------------
(***************************************************************************)
(* Instances of Funding for TLC.                                           *)
(***************************************************************************)
EXTENDS Funding

\* Everything but the proposal of Options, which the exploration makes too:
\* what moves time, what closes and cancels, and what goes wrong meanwhile.
TreeCommands ==
    {"extend", "split", "refine", "merge", "allocate", "close", "closeTask",
     "claim", "suspend", "pause", "giveUp", "crash", "faults"}

=============================================================================
