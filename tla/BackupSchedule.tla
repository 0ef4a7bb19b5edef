--------------------------- MODULE BackupSchedule ---------------------------
(***************************************************************************)
(* When a backup policy is due: the slots of its schedule, in UTC minutes  *)
(* from the midnight that began some Sunday.  The tick compares the last   *)
(* successful backup with LastSlot, the dashboard shows NextSlot.          *)
(***************************************************************************)
EXTENDS Integers

CONSTANTS
    Hour,           \* minutes in an hour (60 in the world)
    Day,            \* minutes in a day (a multiple of Hour)
    MaxMinute       \* bound: the last minute

ASSUME ScheduleAssumption ==
    /\ Hour \in Nat \ {0} /\ Day \in Nat \ {0} /\ Day % Hour = 0
    /\ MaxMinute \in Nat

VARIABLES
    now,            \* the clock
    schedule        \* schedule_mode and schedule_expr of a policy

scheduleVars == <<now, schedule>>

Week == 7 * Day
Midnight(t) == t - (t % Day)
WeekDay(t) == (t \div Day) % 7

Hourly == [mode : {"hourly"}]
Daily == [mode : {"daily"}, at : 0..(Day - 1)]
Weekly == [mode : {"weekly"}, dow : 0..6, at : 0..(Day - 1)]
Schedules == Hourly \cup Daily \cup Weekly

-----------------------------------------------------------------------------
LastHourly(t) == t - (t % Hour)

(* Mutant: the slot of the day counts before its hour has come.            *)
LastDailyEarly(t, at) == Midnight(t) + at

LastDaily(t, at) ==
    LET s == Midnight(t) + at IN IF t < s THEN s - Day ELSE s

LastWeekly(t, dow, at) ==
    LET diff == (WeekDay(t) - dow + 7) % 7
        s == Midnight(t) - diff * Day + at
    IN IF t < s THEN s - Week ELSE s

LastSlot(t, c) ==
    CASE c.mode = "hourly" -> LastHourly(t)
      [] c.mode = "daily"  -> LastDaily(t, c.at)
      [] c.mode = "weekly" -> LastWeekly(t, c.dow, c.at)

NextHourly(t) == LastHourly(t) + Hour

NextDaily(t, at) ==
    LET s == Midnight(t) + at IN IF s <= t THEN s + Day ELSE s

(* Mutant: the slot that begins now is the next one.                       *)
NextWeeklyNow(t, dow, at) ==
    LET slot(k) == Midnight(t) + k * Day + at
        fits == {k \in 0..13 : WeekDay(slot(k)) = dow /\ slot(k) >= t}
    IN slot(CHOOSE k \in fits : \A j \in fits : k <= j)

(* The first of the next 14 days that is the right one and not over.       *)
NextWeekly(t, dow, at) ==
    LET slot(k) == Midnight(t) + k * Day + at
        fits == {k \in 0..13 : WeekDay(slot(k)) = dow /\ slot(k) > t}
    IN IF fits = {} THEN t + Week
       ELSE slot(CHOOSE k \in fits : \A j \in fits : k <= j)

NextSlot(t, c) ==
    CASE c.mode = "hourly" -> NextHourly(t)
      [] c.mode = "daily"  -> NextDaily(t, c.at)
      [] c.mode = "weekly" -> NextWeekly(t, c.dow, c.at)

-----------------------------------------------------------------------------
ScheduleInit == now = Week /\ schedule \in Schedules

(* The agent polls once a minute.                                          *)
Minute == now < MaxMinute /\ now' = now + 1 /\ UNCHANGED schedule

ScheduleSpec == ScheduleInit /\ [][Minute]_scheduleVars

-----------------------------------------------------------------------------
(* The instants a schedule means.                                          *)
IsSlot(t, c) ==
    CASE c.mode = "hourly" -> t % Hour = 0
      [] c.mode = "daily"  -> t % Day = c.at
      [] c.mode = "weekly" -> t % Day = c.at /\ WeekDay(t) = c.dow

(* The slot the tick measures a backup against is the latest instant of    *)
(* the schedule that has come, so a backup counts for the whole slot and   *)
(* for no other one; and the dashboard's "next run" is the instant at      *)
(* which the tick will see a new slot, not a minute sooner.                *)
SlotsMatchSchedule ==
    LET last == LastSlot(now, schedule)
        next == NextSlot(now, schedule)
    IN /\ last <= now /\ IsSlot(last, schedule)
       /\ \A t \in (last + 1)..now : ~IsSlot(t, schedule)
       /\ next > now /\ LastSlot(next, schedule) = next
       /\ LastSlot(next - 1, schedule) = last
=============================================================================
