----------------------------- MODULE MCCronJobs -----------------------------
(* TLC instance of CronJobs: one job that repeats and one that is created to  *)
(* run once.                                                                  *)
EXTENDS CronJobs
=============================================================================
