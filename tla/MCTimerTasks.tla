----------------------------- MODULE MCTimerTasks -----------------------------
\* Three tasks: one repeated, one that runs once, one that is due at every tick.
EXTENDS TimerTasks
CONSTANTS t1, t2, t3
MCInterval == [x \in Tasks |-> IF x = t1 THEN 2 ELSE IF x = t2 THEN 3 ELSE 1]
=============================================================================
