----------------------------- MODULE MCSchedules -----------------------------
EXTENDS Schedules

CONSTANTS c1, c2, w1, s1, nightly, hourly

\* Both clients talk to one server and so share its object.
MCServerOf == [c \in Client |-> s1]

\* Bound: the second client sends GETs and one kind of PUT.
MCPatches == [c \in Client |-> IF c = c1 THEN Patch \ {Nothing}
                               ELSE {[cron |-> hourly, enabled |-> FALSE]}]
=============================================================================
