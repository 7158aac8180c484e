------------------------------ MODULE TimeSync ------------------------------
(***************************************************************************)
(* The wall clock of main/timesync.c.  timesync_task starts the SNTP       *)
(* client once there is a route, and seeds the clock from a recent GNSS    *)
(* fix while no source has set it; the SNTP client calls back from its own *)
(* task whenever it has set the clock.                                     *)
(*                                                                         *)
(* Time is counted in days, which is what the telemetry files tell apart.  *)
(***************************************************************************)
EXTENDS Naturals

CONSTANT MaxDay     \* bound: the last day that is looked at

ASSUME DayAssumption == MaxDay \in Nat \ {0}

VARIABLES
    source,         \* s_status.source
    sntpStarted,    \* s_sntp_started
    seeding,        \* timesync_task: about to look, to seed, or to record the seed
    sntp,           \* the SNTP client: "idle", or "call" once it has set the clock
    clock,          \* the day time(NULL) tells, 0 while nothing has set it
    day,            \* the day it is
    fix,            \* the day told by a GNSS fix of the last 30 s, 0 when there is none
    crossed         \* history: SNTP synchronised while timesync_task was about to seed

timeVars == <<source, sntpStarted, seeding, sntp, clock, day, fix, crossed>>

Sources == {"none", "gnss", "sntp"}

\* timesync_valid
ClockValid == source # "none"

\* What a row is stamped with, and what a file is named after: 0 before the
\* first synchronisation.
Today == IF ClockValid THEN clock ELSE 0

-----------------------------------------------------------------------------
(* timesync_task, every 10 s *)

\* The top of the loop: SNTP is started at most once, when a route exists and
\* esp_netif_sntp_init succeeds; then the clock is seeded if no source is known.
SeededAlways == seeding' = "seed" \* mutant: the clock is seeded whatever its source
Seeded == seeding' = IF ClockValid THEN "look" ELSE "seed"
Look ==
    /\ seeding = "look"
    /\ sntpStarted' \in {sntpStarted, TRUE}
    /\ Seeded
    /\ UNCHANGED <<source, sntp, clock, day, fix, crossed>>

\* try_gnss_seed without a recent fix.
NoFix ==
    /\ seeding = "seed"
    /\ fix = 0
    /\ seeding' = "look"
    /\ UNCHANGED <<source, sntpStarted, sntp, clock, day, fix, crossed>>

\* try_gnss_seed with one: settimeofday ...
SeedClock ==
    /\ seeding = "seed"
    /\ fix # 0
    /\ clock' = fix
    /\ seeding' = "record"
    /\ UNCHANGED <<source, sntpStarted, sntp, day, fix, crossed>>

\* ... and then set_synced.
RecordSeed ==
    /\ seeding = "record"
    /\ source' = "gnss"
    /\ seeding' = "look"
    /\ UNCHANGED <<sntpStarted, sntp, clock, day, fix, crossed>>

-----------------------------------------------------------------------------
(* The SNTP client: it sets the clock, then calls on_sntp_sync. *)

SntpSetsClock ==
    /\ sntpStarted
    /\ sntp = "idle"
    /\ clock' = day
    /\ sntp' = "call"
    /\ UNCHANGED <<source, sntpStarted, seeding, day, fix, crossed>>

OnSntpSync ==
    /\ sntp = "call"
    /\ source' = "sntp"
    /\ sntp' = "idle"
    /\ crossed' = (crossed \/ seeding = "seed")
    /\ UNCHANGED <<sntpStarted, seeding, clock, day, fix>>

-----------------------------------------------------------------------------
(* The world *)

\* A clock that was set follows the day, unless it still lags by the age of
\* the fix it was set from.
ClockCatchesUp ==
    /\ clock \in 1..(day - 1)
    /\ clock' = day
    /\ UNCHANGED <<source, sntpStarted, seeding, sntp, day, fix, crossed>>

\* A fix taken just before midnight is still recent just after it.
Midnight ==
    /\ day < MaxDay
    /\ clock \in {0, day}
    /\ day' = day + 1
    /\ clock' = IF clock = 0 THEN 0 ELSE day + 1
    /\ fix' \in {fix, 0}
    /\ UNCHANGED <<source, sntpStarted, seeding, sntp, crossed>>

GnssFix ==
    /\ fix # day
    /\ fix' = day
    /\ UNCHANGED <<source, sntpStarted, seeding, sntp, clock, day, crossed>>

FixAges ==
    /\ fix # 0
    /\ fix' = 0
    /\ UNCHANGED <<source, sntpStarted, seeding, sntp, clock, day, crossed>>

-----------------------------------------------------------------------------

TimeInit ==
    /\ source = "none" /\ sntpStarted = FALSE
    /\ seeding = "look" /\ sntp = "idle"
    /\ clock = 0 /\ day = 1 /\ fix = 0
    /\ crossed = FALSE

TimesyncTask == Look \/ NoFix \/ SeedClock \/ RecordSeed

\* Every variable has its type, no clock is ahead of the day, and a known source has
\* set the clock.
TimeTypeOK ==
    /\ source \in Sources
    /\ sntpStarted \in BOOLEAN /\ crossed \in BOOLEAN
    /\ seeding \in {"look", "seed", "record"}
    /\ sntp \in {"idle", "call"}
    /\ day \in 1..MaxDay
    /\ clock \in 0..day /\ fix \in 0..day
    /\ source # "none" => clock # 0
=============================================================================
