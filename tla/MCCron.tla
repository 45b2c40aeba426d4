------------------------------- MODULE MCCron -------------------------------
(* Small instances of Cron for TLC.                                         *)
EXTENDS Cron

MCCasts == {<<"agent", "agent">>, <<"agent", "reminder">>, <<"reminder", "watch">>}
MCOneAgent == {<<"agent">>}
=============================================================================
