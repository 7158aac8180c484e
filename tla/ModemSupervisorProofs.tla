------------------------ MODULE ModemSupervisorProofs ------------------------
(***************************************************************************)
(* For any APNs and any number of disturbances and of events still to be   *)
(* handled, main/modem.c never believes an unpowered GNSS engine powered   *)
(* at the target rate, dials with the APN that was saved, and takes one    *)
(* restart at a time.                                                      *)
(***************************************************************************)
EXTENDS ModemSupervisor, TLAPS, SequenceTheorems

\* A channel that is given up takes the belief in its GNSS engine along, and is only
\* negotiated while it is given up.  A modem at the target rate has not rebooted since
\* it was raised to it, so its engine is still on.
GnssInv ==
    /\ ~task.atOk => ~task.gnss
    /\ pc = "negotiate" => ~task.atOk
    /\ task.gnss /\ modemBaud = "target" => engine

\* An APN is flagged or applied, unless a save overtook one that was being applied;
\* what the task has in hand is what was saved.
ApnInv ==
    ~overtaken =>
        /\ ~apnDirty => dceApn = apn
        /\ task.dirty => task.apn = apn

\* A restart that is neither waiting to be taken nor just taken shows as under way, and
\* the task is at it.
RestartInv ==
    unsettled /\ ~requested /\ pc # "reset" =>
        /\ RestartActive(shown)
        /\ task.restart \in {"resetting", "waiting_at", "complete", "error"}

\* The inductive invariant.
IInv == TypeOK /\ GnssInv /\ ApnInv /\ RestartInv

-----------------------------------------------------------------------------
(* Types *)

Events == {"got_ip", "down"}
Lines == {"command", "data", "held", "silent"}

\* What a step does to the UART and to lwIP keeps their types.
LEMMA LinkType ==
    ASSUME TypeOK
    PROVE  /\ CloseSession => lwip' \in {"closed", "opening", "open"} /\ events' \in Seq(Events)
           /\ HangUp => /\ line' \in Lines
                        /\ lwip' \in {"closed", "opening", "open"} /\ events' \in Seq(Events)
           /\ \A who \in {"task", "console"} :
                 Grant(who) => /\ holder' \in {None, "task", "console"} /\ paused' \in BOOLEAN
                               /\ line' \in Lines
           /\ Refuse => /\ holder' \in {None, "task", "console"} /\ paused' \in BOOLEAN
                        /\ line' \in Lines
           /\ \A who \in {"task", "console"}, l \in Lines :
                 Release(who, l) => /\ holder' \in {None, "task", "console"} /\ paused' \in BOOLEAN
                                    /\ line' \in Lines /\ pppUp' \in BOOLEAN
  <1> USE DEF TypeOK, Lines, Events
  <1>1. CloseSession => lwip' \in {"closed", "opening", "open"} /\ events' \in Seq(Events)
    BY AppendProperties DEF CloseSession
  <1>2. HangUp => line' \in Lines
    BY DEF HangUp
  <1>3. HangUp => CloseSession
    BY DEF HangUp
  <1>4. ASSUME NEW who \in {"task", "console"}, Grant(who)
        PROVE  holder' \in {None, "task", "console"} /\ paused' \in BOOLEAN /\ line' \in Lines
    BY <1>4 DEF Grant
  <1>5. Refuse => holder' \in {None, "task", "console"} /\ paused' \in BOOLEAN /\ line' \in Lines
    BY DEF Refuse
  <1>6. ASSUME NEW who \in {"task", "console"}, NEW l \in Lines, Release(who, l)
        PROVE  /\ holder' \in {None, "task", "console"} /\ paused' \in BOOLEAN
               /\ line' \in Lines /\ pppUp' \in BOOLEAN
    BY <1>6 DEF Release
  <1> QED
    BY <1>1, <1>2, <1>3, <1>4, <1>5, <1>6

\* What other tasks, lwIP and the modem do keeps the types.
LEMMA OthersType ==
    ASSUME TypeOK,
           \/ HandleEvent \/ ConsoleReturns \/ ResumePolls
           \/ RequestRestart \/ ConsoleBorrows \/ SuspendPolls
           \/ \E a \in Apns : SaveApn(a)
           \/ SessionOpens \/ SessionFails \/ CallDropped \/ ModemReboots \/ ModemBooted
    PROVE  TypeOK'
  <1> USE DEF TypeOK, channel, modem, bauds, history, shared, Disturb
  <1>1. CASE HandleEvent
    <2>1. pppUp' \in BOOLEAN
      BY <1>1, Zenon DEF HandleEvent
    <2>2. events' \in Seq(Events)
      BY <1>1, HeadTailProperties DEF HandleEvent, Events
    <2> QED
      BY <1>1, <2>1, <2>2 DEF HandleEvent, Events
  <1>2. CASE ConsoleReturns
    <2>1. Release("console", line) /\ line \in Lines
      BY <1>2 DEF ConsoleReturns, Lines
    <2>2. /\ holder' \in {None, "task", "console"} /\ paused' \in BOOLEAN
          /\ line' \in Lines /\ pppUp' \in BOOLEAN
      BY <2>1, LinkType
    <2> QED
      BY <1>2, <2>2 DEF ConsoleReturns, Lines
  <1>3. CASE ResumePolls
    <2>1. /\ suspended' = FALSE
          /\ UNCHANGED <<pppUp, apn, apnDirty, requested, shown, holder, paused, pc, task, timers>>
          /\ UNCHANGED <<line, lwip, events, engine, dceApn, used, unsettled, overtaken>>
          /\ UNCHANGED <<hostBaud, modemBaud>>
      BY <1>3 DEF ResumePolls
    <2>2. /\ suspended' \in BOOLEAN /\ pppUp' \in BOOLEAN /\ apnDirty' \in BOOLEAN
          /\ requested' \in BOOLEAN /\ paused' \in BOOLEAN /\ engine' \in BOOLEAN
          /\ unsettled' \in BOOLEAN /\ overtaken' \in BOOLEAN
      BY <2>1
    <2>3. /\ apn' \in Apns /\ shown' \in RestartStates /\ holder' \in {None, "task", "console"}
          /\ pc' \in Steps /\ task' \in Task /\ timers' \subseteq Timers
          /\ line' \in {"command", "data", "held", "silent"} /\ lwip' \in {"closed", "opening", "open"}
          /\ events' \in Seq({"got_ip", "down"}) /\ dceApn' \in Apns /\ used' \in Nat
          /\ hostBaud' \in Bauds /\ modemBaud' \in Bauds
      BY <2>1
    <2> QED
      BY <2>2, <2>3, Zenon
  <1>4. CASE RequestRestart
    BY <1>4 DEF RequestRestart, RestartStates
  <1>5. CASE ConsoleBorrows
    BY <1>5, LinkType DEF ConsoleBorrows, Lines
  <1>6. CASE SuspendPolls
    BY <1>6 DEF SuspendPolls
  <1>7. ASSUME NEW a \in Apns, SaveApn(a) PROVE TypeOK'
    <2>1. overtaken' \in BOOLEAN
      BY <1>7, Zenon DEF SaveApn
    <2> QED
      BY <1>7, <2>1 DEF SaveApn
  <1>8. CASE SessionOpens
    BY <1>8, AppendProperties DEF SessionOpens
  <1>9. CASE SessionFails
    BY <1>9, LinkType DEF SessionFails, Events
  <1>10. CASE CallDropped
    BY <1>10, LinkType DEF CallDropped, Events
  <1>11. CASE ModemReboots
    <2>1. /\ line' = "silent" /\ engine' = FALSE /\ used' = used + 1
          /\ modemBaud' = "safe" /\ hostBaud' = hostBaud
          /\ UNCHANGED <<pppUp, apn, apnDirty, requested, shown, suspended, holder, paused>>
          /\ UNCHANGED <<pc, task, timers, lwip, events, dceApn, unsettled, overtaken>>
      BY <1>11 DEF ModemReboots, Reboots
    <2>2. used' \in Nat /\ line' \in Lines /\ modemBaud' \in Bauds
      BY <2>1 DEF Lines, Bauds
    <2> QED
      BY <2>1, <2>2 DEF Lines
  <1>12. CASE ModemBooted
    BY <1>12 DEF ModemBooted
  <1> QED
    BY <1>1, <1>2, <1>3, <1>4, <1>5, <1>6, <1>7, <1>8, <1>9, <1>10, <1>11, <1>12

\* The updates of several of the task's variables, with values of their types.
LEMMA TaskUpdates ==
    ASSUME NEW t \in Task
    PROVE  /\ \A h \in 0..2, p \in BOOLEAN, d \in 0..1 :
                 [t EXCEPT !.healthy = h, !.registered = p, !.dead = d] \in Task
           /\ \A h \in 0..2, p, q, r \in BOOLEAN, d \in 0..1 :
                 [t EXCEPT !.healthy = h, !.registered = p, !.dead = d,
                           !.atOk = q, !.gnss = r] \in Task
           /\ \A h \in 0..2, p \in BOOLEAN, d \in 0..1 :
                 [t EXCEPT !.dead = d, !.registered = p, !.healthy = h] \in Task
           /\ \A h \in 0..2, p, q \in BOOLEAN :
                 [t EXCEPT !.up = p, !.wasUp = q, !.healthy = h] \in Task
           /\ \A h \in 0..2, p \in BOOLEAN :
                 [t EXCEPT !.healthy = h, !.wasUp = p] \in Task
           /\ \A p \in BOOLEAN : [t EXCEPT !.wasUp = p] \in Task
           /\ \A f \in 0..1 : [t EXCEPT !.fails = f] \in Task
           /\ \A h \in 0..2, p, q \in BOOLEAN, f \in 0..1 :
                 [t EXCEPT !.fails = f, !.atOk = p, !.gnss = q, !.healthy = h] \in Task
  <1>1. \A h \in 0..2, p \in BOOLEAN, d \in 0..1 :
           /\ [t EXCEPT !.healthy = h, !.registered = p, !.dead = d] \in Task
           /\ [t EXCEPT !.dead = d, !.registered = p, !.healthy = h] \in Task
    BY DEF Task
  <1>2. \A h \in 0..2, p, q, r \in BOOLEAN, d \in 0..1 :
           [t EXCEPT !.healthy = h, !.registered = p, !.dead = d, !.atOk = q, !.gnss = r] \in Task
    BY DEF Task
  <1>3. \A h \in 0..2, p, q \in BOOLEAN :
           /\ [t EXCEPT !.up = p, !.wasUp = q, !.healthy = h] \in Task
           /\ [t EXCEPT !.healthy = h, !.wasUp = p] \in Task
    BY DEF Task
  <1>4. /\ \A p \in BOOLEAN : [t EXCEPT !.wasUp = p] \in Task
        /\ \A f \in 0..1 : [t EXCEPT !.fails = f] \in Task
    BY DEF Task
  <1>5. \A h \in 0..2, p, q \in BOOLEAN, f \in 0..1 :
           [t EXCEPT !.fails = f, !.atOk = p, !.gnss = q, !.healthy = h] \in Task
    BY DEF Task
  <1> QED
    BY <1>1, <1>2, <1>3, <1>4, <1>5

\* The values that the counts of polls are reset to.
LEMMA Counts == /\ 0 \in 0..2 /\ 0 \in 0..1 /\ 1 \in 0..1
                /\ TRUE \in BOOLEAN /\ FALSE \in BOOLEAN
  OBVIOUS

\* What the polls make of the task's variables keeps their types.
LEMMA TaskTypes ==
    ASSUME NEW t \in Task
    PROVE  /\ Overdue(t) \in Task /\ AfterDeadPoll(t) \in Task
           /\ \A registered \in BOOLEAN : AfterPoll(t, registered) \in Task
  <1>1. Overdue(t) \in Task
    BY DEF Overdue, Task, RestartStates
  <1>2. AfterDeadPoll(t) \in Task
    <2>1. CASE t.dead = 1
      <3>1. AfterDeadPoll(t) = [t EXCEPT !.healthy = 0, !.registered = FALSE, !.dead = 0,
                                         !.atOk = FALSE, !.gnss = FALSE]
        BY <2>1 DEF AfterDeadPoll
      <3>2. [t EXCEPT !.healthy = 0, !.registered = FALSE, !.dead = 0,
                      !.atOk = FALSE, !.gnss = FALSE] \in Task
        BY Counts, TaskUpdates, Zenon
      <3> QED
        BY <3>1, <3>2, Zenon
    <2>2. CASE t.dead # 1
      <3>1. AfterDeadPoll(t) = [t EXCEPT !.healthy = 0, !.registered = FALSE, !.dead = 1]
        BY <2>2 DEF AfterDeadPoll
      <3>2. [t EXCEPT !.healthy = 0, !.registered = FALSE, !.dead = 1] \in Task
        BY Counts, TaskUpdates, Zenon
      <3> QED
        BY <3>1, <3>2, Zenon
    <2> QED
      BY <2>1, <2>2
  <1>3. ASSUME NEW registered \in BOOLEAN PROVE AfterPoll(t, registered) \in Task
    <2>1. t.healthy \in 0..2
      BY DEF Task
    <2>2. (IF t.healthy = 2 THEN 2 ELSE t.healthy + 1) \in 0..2
      BY <2>1
    <2>3. [t EXCEPT !.dead = 0, !.registered = registered,
                    !.healthy = IF t.healthy = 2 THEN 2 ELSE t.healthy + 1] \in Task
      BY <1>3, <2>2, Counts, TaskUpdates
    <2> QED
      BY <2>3 DEF AfterPoll
  <1> QED
    BY <1>1, <1>2, <1>3

\* The rest of the task's steps: the restart.
LEMMA RestartType ==
    ASSUME TypeOK, Snapshot \/ BeginRestart \/ MarkLinkDown \/ Reset \/ NoteLink \/ Publish
    PROVE  TypeOK'
  <1> USE DEF TypeOK, channel, modem, bauds, history, shared, Steps
  <1>1. CASE Snapshot
    <2>1. task' \in Task
      BY <1>1 DEF Snapshot, Task
    <2>2. pc' \in Steps /\ requested' = FALSE
      BY <1>1 DEF Snapshot
    <2>3. /\ UNCHANGED <<pppUp, apn, apnDirty, shown, suspended, holder, paused, timers>>
          /\ UNCHANGED <<line, lwip, events, engine, dceApn, used, unsettled, overtaken>>
          /\ UNCHANGED <<hostBaud, modemBaud>>
      BY <1>1 DEF Snapshot
    <2>4. /\ suspended' \in BOOLEAN /\ pppUp' \in BOOLEAN /\ apnDirty' \in BOOLEAN
          /\ requested' \in BOOLEAN /\ paused' \in BOOLEAN /\ engine' \in BOOLEAN
          /\ unsettled' \in BOOLEAN /\ overtaken' \in BOOLEAN
      BY <2>2, <2>3
    <2>5. /\ apn' \in Apns /\ shown' \in RestartStates /\ holder' \in {None, "task", "console"}
          /\ timers' \subseteq Timers /\ line' \in {"command", "data", "held", "silent"}
          /\ lwip' \in {"closed", "opening", "open"} /\ events' \in Seq({"got_ip", "down"})
          /\ dceApn' \in Apns /\ used' \in Nat
          /\ hostBaud' \in Bauds /\ modemBaud' \in Bauds
      BY <2>3
    <2> QED
      BY <2>1, <2>2, <2>4, <2>5, Zenon
  <1>2. CASE BeginRestart
    <2>1. task' \in Task
      BY <1>2 DEF BeginRestart, Task, RestartStates
    <2> QED
      BY <1>2, <2>1 DEF BeginRestart, RestartStates
  <1>3. CASE MarkLinkDown
    <2>1. task' \in Task
      <3>1. task' = [task EXCEPT !.up = FALSE, !.wasUp = FALSE, !.healthy = 0]
        BY <1>3 DEF MarkLinkDown
      <3> QED
        BY <3>1, Counts, TaskUpdates, Zenon
    <2>2. line' \in Lines /\ lwip' \in {"closed", "opening", "open"} /\ events' \in Seq(Events)
      BY <1>3, LinkType DEF MarkLinkDown, Lines, Events
    <2> QED
      BY <1>3, <2>1, <2>2 DEF MarkLinkDown, Lines, Events
  <1>4. CASE Reset
    <2>1. task' \in Task
      <3>1. \/ task' = [task EXCEPT !.restart = "waiting_at", !.issued = TRUE,
                                    !.atOk = FALSE, !.registered = FALSE, !.gnss = FALSE]
            \/ task' = [task EXCEPT !.restart = "error"]
        BY <1>4, Zenon DEF Reset
      <3> HIDE DEF TypeOK
      <3>2. task \in Task
        BY DEF TypeOK
      <3> QED
        BY <3>1, <3>2 DEF Task, RestartStates
    <2>2. line' \in Lines /\ engine' \in BOOLEAN /\ hostBaud' \in Bauds /\ modemBaud' \in Bauds
      BY <1>4 DEF Reset, Reboots, Lines, Bauds
    <2> QED
      BY <1>4, <2>1, <2>2 DEF Reset, Lines
  <1>5. CASE NoteLink
    <2>1. task' \in Task
      <3>0. task.up \in BOOLEAN
        BY DEF Task
      <3>1. \/ task' = [task EXCEPT !.healthy = 0, !.wasUp = FALSE]
            \/ task' = [task EXCEPT !.wasUp = task.up]
        BY <1>5 DEF NoteLink
      <3> HIDE DEF TypeOK
      <3>2. task \in Task
        BY DEF TypeOK
      <3>3. /\ [task EXCEPT !.healthy = 0, !.wasUp = FALSE] \in Task
            /\ [task EXCEPT !.wasUp = task.up] \in Task
        BY <3>0, <3>2, Counts, TaskUpdates, Zenon
      <3> QED
        BY <3>1, <3>3, Zenon
    <2>2. line' \in Lines /\ lwip' \in {"closed", "opening", "open"} /\ events' \in Seq(Events)
      BY <1>5, LinkType DEF NoteLink, Lines, Events
    <2> QED
      BY <1>5, <2>1, <2>2 DEF NoteLink, Lines, Events
  <1>6. CASE Publish
    <2>1. task' \in Task
      BY <1>6, ApnsAssumption DEF Publish, Task
    <2>2. unsettled' \in BOOLEAN
      BY <1>6, Zenon DEF Publish
    <2>3. timers' \subseteq Timers
      BY <1>6 DEF Publish
    <2>4. shown' \in RestartStates
      BY <1>6 DEF Publish, Task
    <2> QED
      BY <1>6, <2>1, <2>2, <2>3, <2>4 DEF Publish
  <1> QED
    BY <1>1, <1>2, <1>3, <1>4, <1>5, <1>6

\* The polls and the dial.
LEMMA WorkType ==
    ASSUME TypeOK,
           Probe \/ Negotiate \/ Poll \/ PollOnce \/ ApplyApn \/ Dial \/ QueryAttach \/ Connect
    PROVE  TypeOK'
  <1> USE DEF TypeOK, channel, modem, bauds, history, shared, Steps
  <1>0. line \in Lines
    BY DEF Lines
  <1>1. CASE Probe
    <2>1. holder' \in {None, "task", "console"} /\ paused' \in BOOLEAN /\ line' \in Lines
      BY <1>0, <1>1, LinkType DEF Probe
    <2> QED
      BY <1>1, <2>1 DEF Probe, Lines
  <1>2. CASE Negotiate
    <2>1. task' \in Task
      BY <1>2 DEF Negotiate, Task, RestartStates
    <2>2. lwip' \in {"closed", "opening", "open"} /\ events' \in Seq(Events)
      BY <1>2, LinkType DEF Negotiate, Events
    <2>3. \E l \in Lines : Release("task", l)
      BY <1>0, <1>2 DEF Negotiate, Lines
    <2>4. /\ holder' \in {None, "task", "console"} /\ paused' \in BOOLEAN
          /\ line' \in Lines /\ pppUp' \in BOOLEAN
      BY <2>3, LinkType
    <2>5. hostBaud' \in Bauds /\ modemBaud' \in Bauds
      <3>1. Found => hostBaud' \in Bauds /\ modemBaud' \in Bauds
        BY DEF Found, Bauds
      <3>2. NotFound => hostBaud' \in Bauds /\ modemBaud' \in Bauds
        BY DEF NotFound, Bauds
      <3> QED
        BY <1>2, <3>1, <3>2 DEF Negotiate
    <2> QED
      BY <1>2, <2>1, <2>2, <2>4, <2>5 DEF Negotiate, Lines, Events
  <1>3. CASE Poll
    <2>1. task' \in Task
      <3>1. PICK t \in Task :
               \/ task' = t
               \/ task' = [t EXCEPT !.fails = 0]
               \/ task' = [t EXCEPT !.fails = 1]
               \/ task' = [t EXCEPT !.fails = 0, !.atOk = FALSE, !.gnss = FALSE, !.healthy = 0]
        <4>1. Overdue(task) \in Task
          BY TaskTypes
        <4>2. \/ task' = Overdue(task)
              \/ task' = [Overdue(task) EXCEPT !.fails = 0]
              \/ task' = [Overdue(task) EXCEPT !.fails = 1]
              \/ task' = [Overdue(task) EXCEPT !.fails = 0, !.atOk = FALSE, !.gnss = FALSE,
                                               !.healthy = 0]
          BY <1>3 DEF Poll, TearDown
        <4> QED
          BY <4>1, <4>2, Zenon
      <3>2. /\ [t EXCEPT !.fails = 0] \in Task /\ [t EXCEPT !.fails = 1] \in Task
            /\ [t EXCEPT !.fails = 0, !.atOk = FALSE, !.gnss = FALSE, !.healthy = 0] \in Task
        BY Counts, TaskUpdates, Zenon
      <3> QED
        BY <3>1, <3>2, Zenon
    <2>2. holder' \in {None, "task", "console"} /\ paused' \in BOOLEAN /\ line' \in Lines
      BY <1>0, <1>3, LinkType DEF Poll
    <2>3. pppUp' \in BOOLEAN /\ timers' \subseteq Timers
      BY <1>3 DEF Poll, TearDown
    <2> QED
      BY <1>3, <2>1, <2>2, <2>3 DEF Poll, Lines
  <1>4. CASE PollOnce
    <2>1. task' \in Task /\ engine' \in BOOLEAN
      <3>1. PICK registered \in BOOLEAN, on \in BOOLEAN :
               LET t == IF Answers THEN AfterPoll(task, registered) ELSE AfterDeadPoll(task)
               IN  IF t.atOk /\ ~t.gnss
                   THEN task' = [t EXCEPT !.gnss = on] /\ engine' = (engine \/ on)
                   ELSE task' = t /\ UNCHANGED engine
        BY <1>4 DEF PollOnce
      <3>2. PICK t \in Task :
               \/ task' = [t EXCEPT !.gnss = on] /\ engine' = (engine \/ on)
               \/ task' = t /\ UNCHANGED engine
        BY <3>1, TaskTypes
      <3>3. (engine \/ on) \in BOOLEAN
        OBVIOUS
      <3> QED
        BY <3>2, <3>3 DEF Task
    <2>2. /\ holder' \in {None, "task", "console"} /\ paused' \in BOOLEAN
          /\ line' \in Lines /\ pppUp' \in BOOLEAN
      BY <1>0, <1>4, LinkType DEF PollOnce
    <2> QED
      BY <1>4, <2>1, <2>2 DEF PollOnce, Lines
  <1>5. CASE ApplyApn
    <2>1. task' \in Task /\ dceApn' \in Apns /\ apnDirty' \in BOOLEAN
      BY <1>5 DEF ApplyApn, Task
    <2>2. line' \in Lines /\ lwip' \in {"closed", "opening", "open"} /\ events' \in Seq(Events)
      BY <1>5, LinkType DEF ApplyApn, Lines, Events
    <2> QED
      BY <1>5, <2>1, <2>2 DEF ApplyApn, Lines, Events
  <1>6. CASE Dial
    <2>1. holder' \in {None, "task", "console"} /\ paused' \in BOOLEAN /\ line' \in Lines
      BY <1>0, <1>6, LinkType DEF Dial
    <2> QED
      BY <1>6, <2>1 DEF Dial, Lines
  <1>7. CASE QueryAttach
    <2>1. /\ holder' \in {None, "task", "console"} /\ paused' \in BOOLEAN
          /\ line' \in Lines /\ pppUp' \in BOOLEAN
      BY <1>0, <1>7, LinkType DEF QueryAttach
    <2> QED
      BY <1>7, <2>1 DEF QueryAttach, Lines
  <1>8. CASE Connect
    <2>1. line' \in Lines /\ lwip' \in {"closed", "opening", "open"} /\ events' \in Seq(Events)
      BY <1>8, LinkType DEF Connect, Lines, Events
    <2> QED
      BY <1>8, <2>1 DEF Connect, Lines, Events
  <1> QED
    BY <1>1, <1>2, <1>3, <1>4, <1>5, <1>6, <1>7, <1>8

\* Every step keeps the type invariant.
LEMMA TypeStep ==
    ASSUME TypeOK, [Next]_vars
    PROVE  TypeOK'
  <1>1. CASE UNCHANGED vars
    BY <1>1 DEF TypeOK, vars, shared, channel, modem, bauds, history
  <1> QED
    BY <1>1, OthersType, RestartType, WorkType DEF Next, TaskStep

-----------------------------------------------------------------------------
(* GNSS *)

\* Every step keeps what the task believes of the GNSS engine true.
LEMMA GnssStep ==
    ASSUME TypeOK, GnssInv, [Next]_vars
    PROVE  GnssInv'
  <1> USE DEF TypeOK, GnssInv, shared, channel, modem, bauds, history
  <1>1. CASE Snapshot
    BY <1>1 DEF Snapshot, Task
  <1>2. CASE BeginRestart
    BY <1>2 DEF BeginRestart, Task
  <1>3. CASE MarkLinkDown
    BY <1>3 DEF MarkLinkDown, Task
  <1>4. CASE Reset
    BY <1>4 DEF Reset, Reboots, Task
  <1>5. CASE NoteLink
    BY <1>5 DEF NoteLink, Task
  <1>6. CASE Probe
    BY <1>6 DEF Probe, MustProbe
  <1>7. CASE Negotiate
    BY <1>7 DEF Negotiate, Task
  <1>8. CASE Poll
    BY <1>8 DEF Poll, TearDown, Overdue, Task
  <1>9. CASE PollOnce
    <2> DEFINE T(r) == IF Answers THEN AfterPoll(task, r) ELSE AfterDeadPoll(task)
    <2>1. PICK r \in BOOLEAN, on \in BOOLEAN :
             /\ on => Answers
             /\ IF T(r).atOk /\ ~T(r).gnss
                   THEN task' = [T(r) EXCEPT !.gnss = on] /\ engine' = (engine \/ on)
                   ELSE task' = T(r) /\ engine' = engine
      BY <1>9, Zenon DEF PollOnce
    <2>2. T(r) \in Task
      BY TaskTypes
    <2>3. (T(r).gnss => task.gnss) /\ (~T(r).atOk => ~T(r).gnss)
      BY DEF AfterPoll, AfterDeadPoll, Task
    <2>4. pc' = "apn" /\ UNCHANGED modemBaud
      BY <1>9 DEF PollOnce
    <2> HIDE DEF T
    <2>5. CASE T(r).atOk /\ ~T(r).gnss
      <3>1. task'.atOk /\ task'.gnss = on /\ engine' = (engine \/ on)
        BY <2>1, <2>2, <2>5 DEF Task
      <3> QED
        BY <2>4, <3>1
    <2>6. CASE ~(T(r).atOk /\ ~T(r).gnss)
      BY <2>1, <2>3, <2>4, <2>6
    <2> QED
      BY <2>5, <2>6
  <1>10. CASE ApplyApn
    BY <1>10 DEF ApplyApn, Task
  <1>11. CASE Dial \/ QueryAttach
    BY <1>11 DEF Dial, QueryAttach
  <1>12. CASE Connect
    BY <1>12 DEF Connect
  <1>13. CASE Publish
    BY <1>13 DEF Publish, Task
  <1>14. CASE ModemReboots
    BY <1>14 DEF ModemReboots, Reboots
  <1>15. CASE UNCHANGED vars
    BY <1>15 DEF vars
  <1>16. CASE \/ HandleEvent \/ ConsoleReturns \/ ResumePolls
              \/ RequestRestart \/ ConsoleBorrows \/ SuspendPolls
              \/ \E a \in Apns : SaveApn(a)
              \/ SessionOpens \/ SessionFails \/ CallDropped \/ ModemBooted
    BY <1>16
       DEF HandleEvent, ConsoleReturns, ResumePolls, RequestRestart, ConsoleBorrows,
           SuspendPolls, SaveApn, SessionOpens, SessionFails, CallDropped, ModemBooted
  <1> QED
    BY <1>1, <1>2, <1>3, <1>4, <1>5, <1>6, <1>7, <1>8, <1>9, <1>10, <1>11, <1>12,
       <1>13, <1>14, <1>15, <1>16 DEF Next, TaskStep

-----------------------------------------------------------------------------
(* The APN *)

\* Every step keeps the APN flagged or applied.
LEMMA ApnStep ==
    ASSUME TypeOK, ApnInv, [Next]_vars
    PROVE  ApnInv'
  <1> USE DEF TypeOK, ApnInv, shared, channel, modem, bauds, history
  <1>1. CASE Snapshot
    BY <1>1 DEF Snapshot, Task
  <1>2. CASE ApplyApn
    <2>1. CASE task.dirty /\ task.atOk
      <3>1. dceApn' = task.apn /\ apn' = apn /\ overtaken' = overtaken
        BY <1>2, <2>1 DEF ApplyApn
      <3>2. ~task'.dirty
        BY <1>2, <2>1 DEF ApplyApn, Task
      <3> QED
        BY <2>1, <3>1, <3>2
    <2>2. CASE ~(task.dirty /\ task.atOk)
      BY <1>2, <2>2 DEF ApplyApn
    <2> QED
      BY <2>1, <2>2
  <1>3. ASSUME NEW a \in Apns, SaveApn(a) PROVE ApnInv'
    <2>1. overtaken' <=> overtaken \/ task.dirty
      BY <1>3, Zenon DEF SaveApn
    <2> QED
      BY <1>3, <2>1 DEF SaveApn
  <1>4. CASE Publish
    BY <1>4 DEF Publish, Task
  <1>5. CASE BeginRestart \/ MarkLinkDown \/ Reset \/ NoteLink \/ Negotiate
    BY <1>5 DEF BeginRestart, MarkLinkDown, Reset, NoteLink, Negotiate, Task
  <1>6. CASE Poll \/ PollOnce
    <2>1. task'.dirty = task.dirty /\ task'.apn = task.apn
      BY <1>6 DEF Poll, PollOnce, TearDown, Overdue, AfterPoll, AfterDeadPoll, Task
    <2> QED
      BY <1>6, <2>1 DEF Poll, PollOnce
  <1>7. CASE Probe \/ Dial \/ QueryAttach \/ Connect
    BY <1>7 DEF Probe, Dial, QueryAttach, Connect
  <1>8. CASE \/ HandleEvent \/ ConsoleReturns \/ ResumePolls
             \/ RequestRestart \/ ConsoleBorrows \/ SuspendPolls
             \/ SessionOpens \/ SessionFails \/ CallDropped \/ ModemReboots \/ ModemBooted
    BY <1>8 DEF HandleEvent, ConsoleReturns, ResumePolls, RequestRestart, ConsoleBorrows,
                SuspendPolls, SessionOpens, SessionFails, CallDropped, ModemReboots, ModemBooted
  <1>9. CASE UNCHANGED vars
    BY <1>9 DEF vars
  <1> QED
    BY <1>1, <1>2, <1>3, <1>4, <1>5, <1>6, <1>7, <1>8, <1>9 DEF Next, TaskStep

-----------------------------------------------------------------------------
(* The restart *)

\* Every step keeps an accepted restart visible until it has settled.
LEMMA RestartStep ==
    ASSUME TypeOK, RestartInv, [Next]_vars
    PROVE  RestartInv'
  <1> USE DEF TypeOK, RestartInv, RestartActive, shared, channel, modem, bauds, history
  <1>1. CASE Snapshot
    BY <1>1 DEF Snapshot, Task
  <1>2. CASE BeginRestart
    BY <1>2 DEF BeginRestart, Task
  <1>3. CASE RequestRestart
    BY <1>3 DEF RequestRestart
  <1>4. CASE Publish
    <2>1. unsettled' <=> unsettled /\ (requested \/ task.restart \notin {"complete", "error"})
      BY <1>4, Zenon DEF Publish
    <2>2. shown' = task.restart /\ requested' = requested /\ task'.restart = task.restart
      BY <1>4 DEF Publish, Task
    <2>3. pc = "publish" /\ pc' = "top"
      BY <1>4 DEF Publish
    <2> QED
      BY <2>1, <2>2, <2>3
  <1>5. CASE MarkLinkDown \/ NoteLink \/ ApplyApn
    BY <1>5 DEF MarkLinkDown, NoteLink, ApplyApn, Task
  <1>6. CASE Reset \/ Negotiate
    BY <1>6 DEF Reset, Negotiate, Task
  <1>7. CASE Poll \/ PollOnce
    <2>1. task'.restart \in {task.restart, "error"}
      BY <1>7 DEF Poll, PollOnce, TearDown, Overdue, AfterPoll, AfterDeadPoll, Task
    <2> QED
      BY <1>7, <2>1 DEF Poll, PollOnce
  <1>8. CASE Probe \/ Dial \/ QueryAttach \/ Connect
    BY <1>8 DEF Probe, Dial, QueryAttach, Connect
  <1>9. CASE \/ HandleEvent \/ ConsoleReturns \/ ResumePolls \/ ConsoleBorrows \/ SuspendPolls
             \/ \E a \in Apns : SaveApn(a)
             \/ SessionOpens \/ SessionFails \/ CallDropped \/ ModemReboots \/ ModemBooted
    BY <1>9 DEF HandleEvent, ConsoleReturns, ResumePolls, ConsoleBorrows, SuspendPolls,
                SaveApn, SessionOpens, SessionFails, CallDropped, ModemReboots, ModemBooted
  <1>10. CASE UNCHANGED vars
    BY <1>10 DEF vars
  <1> QED
    BY <1>1, <1>2, <1>3, <1>4, <1>5, <1>6, <1>7, <1>8, <1>9, <1>10 DEF Next, TaskStep

-----------------------------------------------------------------------------
(* The theorems *)

\* The invariant holds at first.
LEMMA InitInv == Init => IInv
  <1> SUFFICES ASSUME Init PROVE IInv
    OBVIOUS
  <1>1. task \in Task /\ ~task.gnss /\ ~task.dirty
    BY Counts, ApnsAssumption DEF Init, Task, RestartStates
  <1>2. TypeOK
    BY <1>1, EmptySeq, ApnsAssumption DEF Init, TypeOK, RestartStates, Steps, Bauds
  <1>3. GnssInv /\ ApnInv /\ RestartInv
    BY <1>1 DEF Init, GnssInv, ApnInv, RestartInv
  <1> QED
    BY <1>2, <1>3 DEF IInv

\* The inductive invariant holds in every reachable state.
THEOREM Invariance == Spec => []IInv
  <1>1. IInv /\ [Next]_vars => IInv'
    BY TypeStep, GnssStep, ApnStep, RestartStep DEF IInv
  <1> QED
    BY <1>1, InitInv, PTL DEF Spec

\* Every variable always has its type: in particular the counts of healthy, dead and
\* failed polls stay within their limits.
THEOREM TypeCorrect == Spec => []TypeOK
  <1>1. IInv => TypeOK
    BY DEF IInv
  <1> QED
    BY <1>1, Invariance, PTL

\* However often the modem reboots, is reset, falls silent and is found again, a GNSS
\* engine that modem_task takes for powered is powered, as long as the modem is spoken
\* to at the target rate.
THEOREM GnssRemembered == Spec => []GnssKept
  <1>1. IInv => GnssKept
    BY DEF IInv, GnssInv, GnssKept, Answers, Heard
  <1> QED
    BY <1>1, Invariance, PTL

\* Whatever APNs are saved and whenever, none is lost on its way to the next dial,
\* except one that overtakes another.
THEOREM ApnReachesDial == Spec => []ApnApplied
  <1>1. IInv => ApnApplied
    BY DEF IInv, ApnInv, ApnApplied
  <1> QED
    BY <1>1, Invariance, PTL

\* A restart that is requested is the only one until its result is published, although
\* the task publishes the whole of its status in between.
THEOREM RestartsOneByOne == Spec => OneRestart
  <1>1. IInv /\ [Next]_vars => [~requested /\ requested' => ~unsettled \/ pc = "reset"]_vars
    <2> SUFFICES ASSUME IInv, [Next]_vars, ~requested, requested', unsettled, pc # "reset"
                 PROVE  FALSE
      BY Zenon
    <2>1. CASE RequestRestart
      BY <2>1 DEF IInv, RestartInv, RequestRestart, MayRestart
    <2>2. CASE UNCHANGED requested
      BY <2>2
    <2>3. CASE Snapshot
      BY <2>3 DEF Snapshot
    <2> QED
      BY <2>1, <2>2, <2>3
         DEF Next, TaskStep, HandleEvent, ConsoleReturns, ResumePolls, ConsoleBorrows,
             SuspendPolls, SaveApn, SessionOpens, SessionFails, CallDropped, ModemReboots,
             ModemBooted, BeginRestart, MarkLinkDown, Reset, NoteLink, Probe, Negotiate,
             Poll, PollOnce, ApplyApn, Dial, QueryAttach, Connect, Publish, shared, channel,
             modem, bauds, history, vars
  <1> QED
    BY <1>1, Invariance, PTL DEF Spec, OneRestart
=============================================================================
