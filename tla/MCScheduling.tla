---------------------------- MODULE MCScheduling ----------------------------
(***************************************************************************)
(* The scheduler and the decision when a cron entry fires, for TLC.  They  *)
(* keep their state apart and are not composed here: in FlowScheduler an   *)
(* entry is due or not, CronSchedule says when.  The run chooses one of    *)
(* them, its focus, and lets that one take its steps.                      *)
(***************************************************************************)
EXTENDS MCFlowScheduler, CronSchedule

VARIABLE focus                           \* the component that runs

\* "0,30 9-17/4 * */1 0,2,4-6", from Monday 29 April 2024.
MCCron == [minute |-> {Value(0), Value(30)}, hour |-> {SpanBy(9, 17, 4)}, day |-> {Wildcard},
           month |-> {Every(1)}, weekday |-> {Value(0), Value(2), Span(4, 6)}]
MCStart == [year |-> 2024, month |-> 4, day |-> 29, hour |-> 0, minute |-> 0, weekday |-> 0]

\* "0 0,10 * * *", from 9:00 on Wednesday 31 January 2024.
MCTwiceDaily == [minute |-> {Value(0)}, hour |-> {Value(0), Value(10)}, day |-> {Wildcard},
                 month |-> {Wildcard}, weekday |-> {Wildcard}]
MCMonthEnd == [year |-> 2024, month |-> 1, day |-> 31, hour |-> 9, minute |-> 0, weekday |-> 2]

SchedulingInit ==
    /\ focus \in {"scheduler", "cron"}
    /\ Init /\ CronInit

SchedulingNext ==
    \/ focus = "scheduler" /\ Next /\ UNCHANGED <<focus, cronVars>>
    \/ focus = "cron" /\ CronNext /\ UNCHANGED <<focus, vars>>

SchedulingSpec == SchedulingInit /\ [][SchedulingNext]_<<focus, vars, cronVars>>

\* The scheduler's state has its types, and so has that of a cron entry, whose parsed
\* expression can match on all its values.
SchedulingTypeOK == TypeOK /\ CronTypeOK
=============================================================================
