------------------------------- MODULE MCRuns -------------------------------
(* Small instances of Runs for TLC.                                         *)
EXTENDS RunsRefinement, TLC

CONSTANTS discord, cron   \* a conversation and a scheduled job

MCChats == {discord}
MCJobs == {cron}
=============================================================================
