------------------------------ MODULE MCScheduler ------------------------------
(* Instances of Scheduler for TLC: one job of each trigger.                *)
EXTENDS Scheduler
CONSTANTS once, interval, cron
=============================================================================
