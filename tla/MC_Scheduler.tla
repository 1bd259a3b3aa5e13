---------------------------- MODULE MC_Scheduler ----------------------------
(* Small instances of Scheduler: an hour of ten minutes or fewer, schedules *)
(* that tick at different minutes of it.                                    *)
EXTENDS Scheduler

At10(minute) == [minute |-> minute, hour |-> 0, day |-> 1, month |-> 1, weekday |-> 4]

MCCalendar == [m \in 0..Minute(MaxClock) |-> At10(m)]

MinuteOnly(part) ==
    [field \in Fields |-> IF field = "minute" THEN <<part>> ELSE <<AnyValue>>]

Once(n)  == [form |-> "one", low |-> n, stepped |-> Plain]

EveryMinute == [cron |-> Compile(MinuteOnly(AnyValue)), writes |-> 1]
OnTheFirst  == [cron |-> Compile(MinuteOnly(Once(1))), writes |-> 1]

TwoPlans == <<EveryMinute, OnTheFirst>>
=============================================================================
