---------------------------- MODULE ModemSupervisor ----------------------------
(***************************************************************************)
(* The modem supervisor, main/modem.c: one task polls the SIM7670G over a  *)
(* UART that carries either AT commands or PPP data, dials, notices a dead *)
(* link, restarts the modem on request and applies a new APN, while lwIP   *)
(* reports the PPP session through events, the web console borrows the AT  *)
(* channel and OTA suspends the polls.                                     *)
(*                                                                         *)
(* One action is one critical section of s_status_mutex, or one exchange   *)
(* with the modem under s_at_mutex, of modem_task; the events and the      *)
(* requests of the web server fall between any two of them.  task holds    *)
(* the task's own variables, st included.                                  *)
(*                                                                         *)
(* The modem and esp_modem with its lwIP interface are external.  line is  *)
(* what the modem does with the bytes it understands: it answers           *)
(* ("command"), carries PPP ("data"), answers with the call on hold after  *)
(* "+++" ("held"), or is booting ("silent").  It understands the host only *)
(* while both UARTs are at one rate: the modem's power-on default, "safe", *)
(* or the one the host raises it to, "target".                             *)
(* Every end of the host's PPP session is reported once, in order; that    *)
(* the modem has rebooted is never reported (no LCP echo, line 1475).      *)
(***************************************************************************)
EXTENDS Integers, Sequences

CONSTANTS
    Apns,          \* the APNs a user may save
    DefaultApn,    \* the one the board starts with
    None,          \* nobody holds s_at_mutex
    MaxDisturbances,  \* bound: APNs saved, restarts, console commands, downloads, modem
                      \* reboots and calls dropped, all together
    MaxEvents      \* bound: events lwIP has posted and nobody has handled yet

ASSUME ApnsAssumption == DefaultApn \in Apns
ASSUME BoundsAssumption == MaxDisturbances \in Nat /\ MaxEvents \in Nat \ {0}

Timers == {"poll", "restart"}  \* 30 s and 90 s; the 20 s between dials are left open
Bauds == {"safe", "target"}    \* MODEM_BAUD_SAFE and MODEM_BAUD_TARGET
RestartStates == {"idle", "requested", "resetting", "waiting_at", "complete", "error"}

VARIABLES
    \* shared under s_status_mutex
    pppUp,      \* s_ppp_up
    apn,        \* s_apn
    apnDirty,   \* s_apn_dirty
    requested,  \* s_restart_requested
    shown,      \* s_status.restart_state
    \* the AT channel
    holder,     \* who holds s_at_mutex
    paused,     \* s_net_paused
    suspended,  \* s_polls_suspended
    \* modem_task
    pc,         \* where the task is in its loop
    task,       \* its variables, st included
    timers,     \* the intervals that have elapsed
    \* external: the modem and esp_modem
    line,       \* what the modem does with the bytes it is sent
    lwip,       \* the host's PPP session: closed, opening, open
    events,     \* posted to the event loop and not yet handled
    engine,     \* the modem's GNSS engine is powered
    dceApn,     \* the APN the next dial uses
    \* the rates of the two UARTs
    hostBaud,   \* the host's
    modemBaud,  \* the modem's
    \* history
    used,       \* disturbances so far
    unsettled,  \* a restart is accepted whose result is not published
    overtaken   \* an APN was saved while the task was applying another

shared == <<pppUp, apn, apnDirty, requested, shown, suspended>>
channel == <<holder, paused>>
modem == <<line, lwip, events, engine, dceApn>>
bauds == <<hostBaud, modemBaud>>
history == <<used, unsettled, overtaken>>
vars == <<shared, channel, pc, task, timers, modem, bauds, history>>

Steps == {"top", "reset", "unlink", "creset", "link", "probe", "negotiate",
          "poll", "polling", "apn", "dial", "query", "connect", "publish"}

Task == [up : BOOLEAN, wasUp : BOOLEAN, atOk : BOOLEAN, gnss : BOOLEAN,
         registered : BOOLEAN, restart : RestartStates, issued : BOOLEAN,
         healthy : 0..2, dead : 0..1, fails : 0..1, apn : Apns,
         dirty : BOOLEAN]

TypeOK ==
    /\ pppUp \in BOOLEAN /\ apn \in Apns /\ apnDirty \in BOOLEAN
    /\ requested \in BOOLEAN /\ shown \in RestartStates /\ suspended \in BOOLEAN
    /\ holder \in {None, "task", "console"} /\ paused \in BOOLEAN
    /\ pc \in Steps /\ task \in Task /\ timers \subseteq Timers
    /\ line \in {"command", "data", "held", "silent"}
    /\ hostBaud \in Bauds /\ modemBaud \in Bauds
    /\ lwip \in {"closed", "opening", "open"}
    /\ events \in Seq({"got_ip", "down"})
    /\ engine \in BOOLEAN /\ dceApn \in Apns
    /\ used \in Nat
    /\ unsettled \in BOOLEAN /\ overtaken \in BOOLEAN

\* The modem stays powered when the host reboots, so it may be in any state.
Init ==
    /\ pppUp = FALSE /\ apn = DefaultApn /\ apnDirty = FALSE
    /\ requested = FALSE /\ shown = "idle" /\ suspended = FALSE
    /\ holder = None /\ paused = FALSE
    /\ pc = "top" /\ timers = Timers
    /\ task = [up |-> FALSE, wasUp |-> FALSE, atOk |-> FALSE, gnss |-> FALSE,
               registered |-> FALSE, restart |-> "idle", issued |-> FALSE,
               healthy |-> 0, dead |-> 0, fails |-> 0, apn |-> DefaultApn,
               dirty |-> FALSE]
    /\ line \in {"command", "data", "silent"} /\ engine \in BOOLEAN
    /\ hostBaud = "target" /\ modemBaud \in Bauds
    /\ line = "silent" => ~engine /\ modemBaud = "safe"
    /\ lwip = "closed" /\ events = <<>> /\ dceApn = DefaultApn
    /\ used = 0
    /\ unsettled = FALSE /\ overtaken = FALSE

Disturb == used < MaxDisturbances /\ used' = used + 1

(***************************************************************************)
(* esp_modem: the mode of the UART.                                        *)
(***************************************************************************)
\* The modem understands what it is sent, and answers AT commands.
Heard == line # "silent" /\ hostBaud = modemBaud
Answers == Heard /\ line \in {"command", "held"}

\* The host closes its PPP session, whatever the modem answers.
CloseSession ==
    /\ lwip' = "closed"
    /\ events' = IF lwip = "closed" THEN events ELSE Append(events, "down")

\* data_disconnect: the modem may refuse to leave data mode.
HangUp ==
    /\ holder = None
    /\ CloseSession
    /\ line' \in IF Heard THEN {line, "command"} ELSE {line}

\* at_channel_acquire, the two ways it ends.  It asks s_ppp_up, not the modem,
\* whether the UART carries PPP.
Grant(who) ==
    /\ holder = None
    /\ holder' = who
    /\ \/ ~pppUp /\ UNCHANGED <<line, paused>>
       \/ /\ pppUp /\ Heard
          /\ paused' = TRUE
          /\ line' = IF line = "data" THEN "held" ELSE line

Refuse == holder = None /\ pppUp /\ UNCHANGED <<holder, paused, line>>

\* at_channel_release, of a line left at l: a session that does not resume is
\* marked down.
Release(who, l) ==
    /\ holder = who
    /\ holder' = None
    /\ paused' = FALSE
    /\ \/ ~paused /\ line' = l /\ UNCHANGED pppUp
       \/ /\ paused /\ l = "held" /\ hostBaud' = modemBaud'
          /\ line' = "data" /\ UNCHANGED pppUp
       \/ paused /\ line' = l /\ pppUp' = FALSE

(***************************************************************************)
(* Requests of the web server, and OTA.                                    *)
(***************************************************************************)
RestartActive(state) == state \in {"requested", "resetting", "waiting_at"}

\* Mutant: only a request that is still waiting keeps another off.
MayRestartWhileAtIt == ~requested

MayRestart == ~requested /\ ~RestartActive(shown)

RequestRestart ==
    /\ MayRestart
    /\ Disturb
    /\ requested' = TRUE
    /\ shown' = "requested"
    /\ unsettled' = TRUE
    /\ UNCHANGED <<pppUp, apn, apnDirty, suspended, channel, pc, task, timers,
                   modem, bauds, overtaken>>

SaveApn(a) ==
    /\ Disturb
    /\ apn' = a
    /\ apnDirty' = TRUE
    /\ overtaken' = (overtaken \/ task.dirty)
    /\ UNCHANGED <<pppUp, requested, shown, suspended, channel, pc, task, timers,
                   modem, bauds, unsettled>>

\* modem_send_at on behalf of the console, which is told when it is refused.
ConsoleBorrows ==
    /\ Disturb
    /\ Grant("console")
    /\ UNCHANGED <<shared, pc, task, timers, lwip, events, engine, dceApn,
                   bauds, unsettled, overtaken>>

ConsoleReturns ==
    /\ UNCHANGED bauds
    /\ Release("console", line)
    /\ UNCHANGED <<apn, apnDirty, requested, shown, suspended, pc, task, timers,
                   lwip, events, engine, dceApn, history>>

SuspendPolls ==
    /\ ~suspended
    /\ Disturb
    /\ suspended' = TRUE
    /\ UNCHANGED <<pppUp, apn, apnDirty, requested, shown, channel, pc, task,
                   timers, modem, bauds, unsettled, overtaken>>

ResumePolls ==
    /\ suspended
    /\ suspended' = FALSE
    /\ UNCHANGED <<pppUp, apn, apnDirty, requested, shown, channel, pc, task,
                   timers, modem, bauds, history>>

(***************************************************************************)
(* The modem, lwIP and the event loop.                                     *)
(***************************************************************************)
SessionOpens ==
    /\ lwip = "opening" /\ line = "data" /\ Heard
    /\ lwip' = "open"
    /\ events' = Append(events, "got_ip")
    /\ UNCHANGED <<shared, channel, pc, task, timers, line, engine, dceApn, bauds,
                   history>>

SessionFails ==
    /\ lwip = "opening"
    /\ CloseSession
    /\ UNCHANGED <<shared, channel, pc, task, timers, line, engine, dceApn, bauds,
                   history>>

\* The network ends the call.  lwIP hears of it unless it is paused.
CallDropped ==
    /\ line \in {"data", "held"}
    /\ Disturb
    /\ line' = "command"
    /\ IF line = "data" /\ Heard THEN CloseSession ELSE UNCHANGED <<lwip, events>>
    /\ UNCHANGED <<shared, channel, pc, task, timers, engine, dceApn,
                   bauds, unsettled, overtaken>>

\* A modem that reboots comes back at its power-on baud, GNSS off.
Reboots == line' = "silent" /\ engine' = FALSE /\ modemBaud' = "safe"

\* The modem reboots by itself.
ModemReboots ==
    /\ line # "silent"
    /\ Disturb
    /\ Reboots
    /\ UNCHANGED hostBaud
    /\ UNCHANGED <<shared, channel, pc, task, timers, lwip, events, dceApn,
                   unsettled, overtaken>>

ModemBooted ==
    /\ line = "silent"
    /\ line' = "command"
    /\ UNCHANGED <<shared, channel, pc, task, timers, lwip, events, engine, dceApn,
                   bauds, history>>

\* on_ip_event and on_ppp_status.
HandleEvent ==
    /\ events # <<>>
    /\ events' = Tail(events)
    /\ pppUp' = (Head(events) = "got_ip")
    /\ UNCHANGED <<apn, apnDirty, requested, shown, suspended, channel, pc, task,
                   timers, line, lwip, engine, dceApn, bauds, history>>

(***************************************************************************)
(* modem_task: the top of the loop and the restart.                        *)
(***************************************************************************)
Snapshot ==
    /\ pc = "top"
    /\ task' = [task EXCEPT !.up = pppUp, !.apn = apn, !.dirty = apnDirty]
    /\ requested' = FALSE
    /\ pc' = IF requested THEN "reset" ELSE "link"
    /\ UNCHANGED <<pppUp, apn, apnDirty, shown, suspended, channel, timers, modem,
                   bauds, history>>

BeginRestart ==
    /\ pc = "reset"
    /\ task' = [task EXCEPT !.restart = "resetting"]
    /\ shown' = "resetting"
    /\ timers' = timers \ {"restart"}
    /\ pc' = "unlink"
    /\ UNCHANGED <<pppUp, apn, apnDirty, requested, suspended, channel, modem,
                   bauds, history>>

MarkLinkDown ==
    /\ pc = "unlink"
    /\ IF task.up THEN HangUp ELSE UNCHANGED <<line, lwip, events>>
    /\ pppUp' = FALSE
    /\ task' = [task EXCEPT !.up = FALSE, !.wasUp = FALSE, !.healthy = 0]
    /\ pc' = "creset"
    /\ UNCHANGED <<apn, apnDirty, requested, shown, suspended, channel, timers,
                   engine, dceApn, bauds, history>>

\* AT+CRESET, whose answer may be lost.
Reset ==
    /\ pc = "creset" /\ holder = None
    /\ pc' = "link"
    /\ \/ /\ Answers
          /\ Reboots
          /\ task' = [task EXCEPT !.restart = "waiting_at", !.issued = TRUE,
                          !.atOk = FALSE, !.registered = FALSE, !.gnss = FALSE]
       \/ /\ task' = [task EXCEPT !.restart = "error"]
          /\ \/ Answers /\ Reboots
             \/ UNCHANGED <<line, engine, modemBaud>>
    /\ UNCHANGED <<shared, channel, timers, lwip, events, dceApn, hostBaud, history>>

\* The link dropped since the last loop: back to command mode.
NoteLink ==
    /\ pc = "link"
    /\ pc' = "probe"
    /\ IF task.wasUp /\ ~task.up
       THEN HangUp /\ task' = [task EXCEPT !.healthy = 0, !.wasUp = FALSE]
       ELSE /\ task' = [task EXCEPT !.wasUp = task.up]
            /\ UNCHANGED <<line, lwip, events>>
    /\ UNCHANGED <<shared, channel, timers, engine, dceApn, bauds, history>>

(***************************************************************************)
(* modem_task: finding the modem again.                                    *)
(***************************************************************************)
MustProbe == ~task.issued /\ ~task.atOk /\ ~task.up

Probe ==
    /\ pc = "probe"
    /\ \/ ~MustProbe /\ pc' = "poll" /\ UNCHANGED <<line, holder, paused>>
       \/ MustProbe /\ Grant("task") /\ pc' = "negotiate"
       \/ MustProbe /\ Refuse /\ pc' = "poll"
    /\ UNCHANGED <<shared, task, timers, lwip, events, engine, dceApn, bauds, history>>

\* baud_negotiate finds the modem at the target rate, or at its power-on rate and
\* raises it.  It is content with the power-on rate when AT+IPR is refused, or when
\* only its OK is lost.
Found ==
    /\ line # "silent"
    /\ hostBaud' \in IF modemBaud = "target" THEN {"target"} ELSE Bauds
    /\ modemBaud' \in IF hostBaud' = "safe" THEN Bauds ELSE {"target"}

\* It does not find it: nothing answered at the last rate it tried, or the modem
\* went quiet once it was raised.
NotFound ==
    \/ hostBaud' = "safe" /\ UNCHANGED modemBaud
    \/ /\ line # "silent" /\ modemBaud = "safe"
       /\ hostBaud' = "target" /\ modemBaud' = "target"

\* baud_negotiate, and the release of the channel: a session left over is found
\* by the mode detection and closed.
Negotiate ==
    /\ pc = "negotiate"
    /\ pc' = "poll"
    /\ IF line = "data" THEN CloseSession ELSE UNCHANGED <<lwip, events>>
    /\ \/ /\ Found
          /\ Release("task", IF line = "held" THEN "held" ELSE "command")
          /\ task' = [task EXCEPT !.atOk = TRUE,
                          !.restart = IF @ = "waiting_at" THEN "complete" ELSE @]
       \/ NotFound /\ Release("task", line) /\ UNCHANGED task
    /\ UNCHANGED <<apn, apnDirty, requested, shown, suspended, timers, engine, dceApn,
                   history>>

(***************************************************************************)
(* modem_task: the status poll.                                            *)
(***************************************************************************)
\* Mutant: no deadline.
WaitForRestart(state) == FALSE
\* 90 s without an answer end the wait for the modem; the supervisor goes on.
GiveUpRestart(state) == state = "waiting_at" /\ "restart" \in timers

Overdue(t) == [t EXCEPT !.restart = IF GiveUpRestart(@) THEN "error" ELSE @]

PollDue == (~task.up \/ "poll" \in timers) /\ ~(suspended /\ task.up)

\* Mutant: the failing windows are only counted.
KeepCounting == /\ task' = [Overdue(task) EXCEPT !.fails = 0]
                /\ UNCHANGED pppUp
\* The AT windows keep failing under a session that looks up.
TearDown ==
    /\ task' = [Overdue(task) EXCEPT !.fails = 0, !.atOk = FALSE, !.gnss = FALSE,
                                     !.healthy = 0]
    /\ pppUp' = FALSE

Poll ==
    /\ pc = "poll"
    /\ \/ /\ ~(task.atOk /\ PollDue)
          /\ pc' = "apn"
          /\ task' = Overdue(task)
          /\ UNCHANGED <<timers, line, holder, paused, pppUp>>
       \/ /\ task.atOk /\ PollDue
          /\ Grant("task")
          /\ task' = [Overdue(task) EXCEPT !.fails = 0]
          /\ timers' = timers \ {"poll"}
          /\ pc' = "polling"
          /\ UNCHANGED pppUp
       \/ /\ task.atOk /\ PollDue
          /\ Refuse
          /\ pc' = "apn"
          /\ IF task.fails = 1 THEN TearDown
                ELSE task' = [Overdue(task) EXCEPT !.fails = 1] /\ UNCHANGED pppUp
          /\ UNCHANGED timers
    /\ UNCHANGED <<apn, apnDirty, requested, shown, suspended, lwip, events, engine,
                   dceApn, bauds, history>>

\* Mutant: the channel is declared dead, its GNSS engine still thought powered.
AfterDeadPollGnssOn(t) ==
    IF t.dead = 1
    THEN [t EXCEPT !.healthy = 0, !.registered = FALSE, !.dead = 0, !.atOk = FALSE]
    ELSE [t EXCEPT !.healthy = 0, !.registered = FALSE, !.dead = 1]
\* Mutant: only an answer resets the count, and the channel is never dead.
AfterDeadPollIgnored(t) == [t EXCEPT !.healthy = 0, !.registered = FALSE, !.dead = 1]
\* No command of poll_once was answered; the second time the channel is dead.
AfterDeadPoll(t) ==
    IF t.dead = 1
    THEN [t EXCEPT !.healthy = 0, !.registered = FALSE, !.dead = 0, !.atOk = FALSE,
                   !.gnss = FALSE]
    ELSE [t EXCEPT !.healthy = 0, !.registered = FALSE, !.dead = 1]

\* Mutant: the count of healthy polls is not capped.
AfterPollUncapped(t, reg) ==
    [t EXCEPT !.dead = 0, !.registered = reg, !.healthy = @ + 1]
AfterPoll(t, reg) ==
    [t EXCEPT !.dead = 0, !.registered = reg, !.healthy = IF @ = 2 THEN 2 ELSE @ + 1]

\* The poll, the GNSS engine switched on if it is not, and the release of the
\* channel.
PollOnce ==
    /\ pc = "polling"
    /\ pc' = "apn"
    /\ \E registered, on \in BOOLEAN :
          LET t == IF Answers THEN AfterPoll(task, registered) ELSE AfterDeadPoll(task)
          IN  /\ on => Answers
              /\ IF t.atOk /\ ~t.gnss
                    THEN task' = [t EXCEPT !.gnss = on] /\ engine' = (engine \/ on)
                    ELSE task' = t /\ UNCHANGED engine
    /\ UNCHANGED bauds
    /\ Release("task", line)
    /\ UNCHANGED <<apn, apnDirty, requested, shown, suspended, timers, lwip, events,
                   dceApn, history>>

(***************************************************************************)
(* modem_task: a changed APN, the dial, and the end of the loop.           *)
(***************************************************************************)
\* Mutant: the flag is cleared although no modem is there to take the APN.
ApplyApnUnheard ==
    /\ pc = "apn"
    /\ pc' = "dial"
    /\ apnDirty' = (apnDirty /\ ~task.dirty)
    /\ dceApn' = IF task.dirty /\ task.atOk THEN task.apn ELSE dceApn
    /\ task' = [task EXCEPT !.dirty = FALSE, !.up = @ /\ ~(task.dirty /\ task.atOk)]
    /\ IF task.dirty /\ task.atOk /\ task.up THEN HangUp
          ELSE UNCHANGED <<line, lwip, events>>
    /\ UNCHANGED <<pppUp, apn, requested, shown, suspended, channel, timers, engine,
                   bauds, history>>
ApplyApn ==
    /\ pc = "apn"
    /\ pc' = "dial"
    /\ IF task.dirty /\ task.atOk
       THEN /\ apnDirty' = FALSE
            /\ dceApn' = task.apn
            /\ task' = [task EXCEPT !.dirty = FALSE, !.up = FALSE]
            /\ IF task.up THEN HangUp ELSE UNCHANGED <<line, lwip, events>>
       ELSE UNCHANGED <<apnDirty, dceApn, task, line, lwip, events>>
    /\ UNCHANGED <<pppUp, apn, requested, shown, suspended, channel, timers, engine,
                   bauds, history>>

ReadyToDial == task.atOk /\ task.registered /\ ~task.up /\ task.healthy = 2

\* Not yet time to dial again, the channel granted, or refused.
Dial ==
    /\ pc = "dial"
    /\ \/ pc' = "publish" /\ UNCHANGED <<line, holder, paused>>
       \/ ReadyToDial /\ Grant("task") /\ pc' = "query"
       \/ ReadyToDial /\ Refuse /\ pc' = "publish"
    /\ UNCHANGED <<shared, task, timers, lwip, events, engine, dceApn, bauds, history>>

\* ps_attached
QueryAttach ==
    /\ pc = "query"
    /\ \E attached \in BOOLEAN :
          /\ attached => Answers
          /\ pc' = IF attached THEN "connect" ELSE "publish"
    /\ UNCHANGED bauds
    /\ Release("task", line)
    /\ UNCHANGED <<apn, apnDirty, requested, shown, suspended, task, timers, lwip,
                   events, engine, dceApn, history>>

\* data_connect, and restore_command_mode when data mode is refused.
Connect ==
    /\ pc = "connect" /\ holder = None
    /\ Len(events) < MaxEvents
    /\ pc' = "publish"
    /\ \/ /\ line = "command" /\ Heard /\ lwip = "closed"
          /\ line' = "data" /\ lwip' = "opening"
          /\ UNCHANGED events
       \/ HangUp
    /\ UNCHANGED <<shared, channel, task, timers, engine, dceApn, bauds, history>>

\* The whole of st is published, its restart state included; then the task waits,
\* and some intervals elapse.
Publish ==
    /\ pc = "publish"
    /\ shown' = task.restart
    /\ unsettled' = (unsettled /\ (requested \/ task.restart \notin {"complete", "error"}))
    /\ task' = [task EXCEPT !.apn = DefaultApn, !.dirty = FALSE, !.issued = FALSE]
    /\ \E elapsed \in SUBSET Timers : timers' = timers \union elapsed
    /\ pc' = "top"
    /\ UNCHANGED <<pppUp, apn, apnDirty, requested, suspended, channel, modem, bauds,
                   used, overtaken>>

TaskStep ==
    \/ Snapshot \/ BeginRestart \/ MarkLinkDown \/ Reset \/ NoteLink
    \/ Probe \/ Negotiate \/ Poll \/ PollOnce \/ ApplyApn
    \/ Dial \/ QueryAttach \/ Connect \/ Publish

Next ==
    \/ TaskStep \/ HandleEvent \/ ConsoleReturns \/ ResumePolls
    \/ RequestRestart \/ ConsoleBorrows \/ SuspendPolls
    \/ \E a \in Apns : SaveApn(a)
    \/ SessionOpens \/ SessionFails \/ CallDropped \/ ModemReboots \/ ModemBooted

Spec == Init /\ [][Next]_vars

\* Time passes: an interval that is not started over elapses.  Polls start theirs
\* over in every loop while the link is down, where nothing asks for it.
TimePasses == []<>("restart" \in timers) /\ []<>("poll" \in timers \/ ~task.up)

\* Tasks are scheduled, every command has a timeout, the event loop runs and OTA
\* resumes the polls on every path; of the modem, the network and the user nothing
\* is assumed.
FairSpec ==
    /\ Spec
    /\ WF_vars(TaskStep) /\ WF_vars(HandleEvent)
    /\ WF_vars(ConsoleReturns) /\ WF_vars(ResumePolls)
    /\ TimePasses

(***************************************************************************)
(* Properties.                                                             *)
(***************************************************************************)
\* A GNSS engine that the task believes powered is powered, in a modem that
\* answers at the target rate: no path by which the modem is lost and found again
\* forgets that its GNSS must be switched on again.  Where the host had to settle
\* for the power-on rate, "usable, just slow" (modem.c:1179), this is not so: a modem
\* that reboots by itself answers the next poll, no AT channel dies, and gnss_on
\* stays set over an engine that is off.
GnssKept == task.atOk /\ task.gnss /\ Answers /\ hostBaud = "target" => engine

\* Between loops the APN that the next dial uses is the saved one, unless a
\* change is still flagged or a save overtook the one being applied.
ApnApplied == pc = "top" /\ ~apnDirty /\ ~overtaken => dceApn = apn

\* An accepted restart ends in a published result.
RestartSettles == unsettled ~> ~unsettled

\* Until then another is refused; only between the task taking a request and publishing
\* that it resets the modem may the state still be that of an earlier loop.
OneRestart == [][~requested /\ requested' => ~unsettled \/ pc = "reset"]_vars

\* A modem that does not hear the host, having rebooted under a session that looks up,
\* is noticed although lwIP reports nothing: the link is marked down, or at least the
\* AT channel dead.  More than that is not so: a channel declared dead while, or just
\* before, PPP comes up is not probed again, although the probe "re-runs whenever the
\* AT channel dies" (modem.c:1350): the poll needs at_ok (1412, 1472) and the probe
\* needs PPP down (1352).
DeadLinkNoticed == (~Heard /\ pppUp /\ task.atOk) ~> ~(pppUp /\ task.atOk)

\* A session that runs while the host believes the link down does not go on
\* unnoticed with AT commands sent into it.
SessionReclaimed ==
    LET behindItsBack == line = "data" /\ lwip = "open" /\ ~pppUp
    IN  behindItsBack ~> ~behindItsBack
===============================================================================
