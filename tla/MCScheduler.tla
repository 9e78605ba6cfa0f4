----------------------------- MODULE MCScheduler -----------------------------
(* Instances of Scheduler for TLC. *)
EXTENDS Scheduler

CONSTANTS o1, o2

\* Every recap is due at 1, where the stale reminders are due too; o1's cron
\* matches 2 as well.
MCRecapDue == [m \in Minutes |-> IF m = 1 THEN RecapOrgs ELSE {o1}]
=============================================================================
