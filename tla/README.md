# Verification of the esp32-sim7670g gateway firmware

TLA+ specifications of the firmware in `src/main/`: an ESP32-S3 gateway that
reads a battery management system over UART, publishes telemetry over WiFi or
a SIM7670G LTE modem to an MQTT broker, keeps what it cannot publish on an SD
card, and updates itself over the air. The modules describe the parts of the
code where tasks, callbacks, power cuts and time-outs meet; TLC checks them on
small instances, and TLAPS proves the safety of all of them but the web server's
watchdog for every instance, and that the telemetry spool implements its abstract
specification.

Contents: [1 the system](#1-the-system) - [2 plan](#2-plan) -
[3 modules](#3-the-modules-and-the-code) - [4 runs](#4-what-each-run-shows) -
[5 findings](#5-findings) - [6 proofs](#6-what-is-proved) -
[7 limits](#7-what-is-only-model-checked-and-what-is-not-modelled)

## 1 The system

The firmware is a set of FreeRTOS tasks, started in order by `app_main.c`, that
share statics behind mutexes, event groups and queues of depth one or more.
Four of them are supervisors that loop for ever; the rest is called from them
or from ESP-IDF's own tasks (the default event loop, esp-mqtt, esp_http_server,
the SNTP callback).

| component | state it keeps | operations | talks to |
|---|---|---|---|
| **Telemetry spool** `datalog.c` 305-509 | `bms.csv` and `bms.cursor` on the card, `s_spool_size`, `s_spool_cursor` | append a row, replay a few rows per tick, reset when drained or over the cap, save the cursor | publishes through `mqtt_publish_telemetry`; card may fail or lose power |
| **Datalog pipeline** `datalog.c` | submit queue, SD buffer, row counters, `s_sd_full` | submit, take a snapshot, write the daily CSV, flush | BMS poller feeds it; it drives the spool and `mqtt_maintenance_tick` |
| **MQTT client** `mqtt.c` | client handle, `s_connected`, `EV_PUBACK`, `s_pending_msg_id`, availability and time-status flags, `s_rollback_msg_id` | event handler, QoS 1 publish and wait, availability, status events, reconfiguration | esp-mqtt task, datalog task, web server, `status_task`; evidence from OTA |
| **OTA lifecycle** `ota.c` | two slots and otadata, NVS `otaattempt` and `otares`, `s_st`, `s_busy`, `s_trigger` | check, resumable download, hash read-back, boot selection, self test, rollback evidence | web server asks, MQTT carries the evidence, modem polls are suspended |
| **OTA policy** `ota_policy_core.c`, the loop of `ota_task` | the wait, `s_trigger`; reads the AP's client counter and timestamps and the last request | decide whether a routine check goes on or is deferred | WiFi's event handler, web server |
| **Modem supervisor** `modem.c` | `s_ppp_up`, `s_apn`, `s_apn_dirty`, `s_restart_requested`, the loop's locals, `s_at_mutex` | poll, probe, negotiate the baud, dial, tear down, restart, apply an APN | lwIP's PPP events, web server, AT console, OTA |
| **WiFi supervisor** `wifi.c` | NVS `ssid` and `pass`, `s_events` bits, `s_status` | join with a bounded number of attempts, SoftAP fallback, steady watch, save credentials | driver events, web server |
| **Event journal** `event_journal*.c` | RAM ring, queue, sequence number, generations on the card | record, evict, write, rotate, repair the tail | every component records; the host report reads it |
| **Web server** `webui*.c` | sessions, heartbeat and stall flags, time of the last request, JSON stream | handlers that call the others, watchdog | all |
| **BMS poller** `bms.c` | enabled, simulation and pins, `s_reconfig`, last reading, `comm_ok` and `ever_ok` | poll, publish, reconfigure | datalog, web server, wall clock |
| **Wall clock** `timesync.c` | source and validity of the time | SNTP callback, GNSS seed | MQTT's first status, datalog's file names |
| **Board battery** `board_battery.c` | voltage samples, state | classify with hysteresis | status page, MQTT |
| **SD card** `sdcard.c` | mounted or not | mount at boot | datalog, journal |
| others | `led.c`, `app_main.c`, host tools (`tools/`), tests | | |

### What is hard, and what makes each part correct

* **Spool.** Two files that must agree, written by separate calls, with power
  going away between any two of them. Correct: a row it accepted is with the
  broker, or still ahead of the cursor, or was given up at the cap; the cursor
  passes only acknowledged rows; lines are sent as they were written; a broker
  that stays reachable eventually has everything.
* **MQTT.** A publisher learns of its PUBACK through an event bit that another
  task sets after comparing an id outside any lock; the client can be replaced
  under it; a retained last will must not outlive the session that caused it.
  Correct: what is counted as published was received; a settled device shows as
  online; evidence of a rollback is cleared only after the broker has it.
* **OTA.** Several writes to flash and NVS between "check" and "the new image has
  proved itself", with a reset possible between any two, and the bootloader
  acting on its own. Correct: only announced bytes run; rollbacks are reported
  truthfully and not lost; a broken image leaves by itself; accepted checks run.
* **Modem.** One UART carries either AT commands or PPP; the task's picture of
  it is a copy that events and requests overtake; a modem that reboots says
  nothing and comes back at another rate. Correct: no link stays dead or hidden,
  restarts end, GNSS and the APN are restored on every path.
* **WiFi.** Event bits that are cleared by the reader, a bounded number of
  attempts, and two NVS keys that are written one by one. Correct: the owner
  can always reach the gateway again, what is shown is so, saves are applied.
* **Journal.** Events are numbered under a mutex and queued after it, evicted
  under pressure, and written to files that are rotated by unlink and rename,
  with power going away between any two calls. Correct: the files stay
  parseable and in order, the oldest records go first, critical events are not
  evicted for others, and what is missing is counted.
* **Pipeline.** A snapshot is stamped by one task, waits in a queue, and is filed
  by another under the name of the day on which a buffer is flushed; the clock is
  set by a third task and by the SNTP client. The daily file and the broker may
  fail independently. Correct: a row is not filed before the day it is stamped
  with, and one that reaches neither sink has left a trace in the status.
* **BMS.** A poll runs while the web server changes the pins it runs on. Correct:
  what is shown as detected was read on the pins that are configured.
* **Routine checks.** The policy looks at what an event handler has counted, which
  nothing corrects, and at a moment up to three minutes before the check.
  Correct: at the decision no one uses the local control plane, and checks go on
  for ever once no one does.
* **Web server.** One task for all sessions, and a watchdog that may fail to ask.
  Correct: a wedged server is reported, a busy one is not, a recovered one is
  taken back.

## 2 Plan

Ordered by how much depends on the behaviour: first what may lose data, then
what may lose the device.

| stage | module | composes or refines | state |
|---|---|---|---|
| 1 | `StoreForward` | abstract promise of the spool | done |
| 1 | `DatalogSpool` | refines `StoreForward`; broker and card as environment | done |
| 1 | `DatalogSpoolProofs` | theorems of `DatalogSpool`: safety, the replay window, the refinement of `StoreForward` | done |
| 1 | `MqttSession` | handler, publishers, reconfiguration, `status_task`; library and broker as environment | done but for the library's API lock |
| 1 | `OtaLifecycle` | ota.c; bootloader, broker and update server as environment | done |
| 1 | `ModemSupervisor` | modem.c; modem and lwIP as environment | done |
| 1 | `WifiSupervisor` | wifi.c; driver as environment | done |
| 1 | `EventJournal` | producers, queue, writer, rotation and repair; card and power as environment | done but for the RAM ring and the rate limiter |
| 2 | `BmsPoller`, `TimeSync` | the producer of snapshots; the wall clock with the SNTP client and GNSS fixes as environment | done |
| 2 | `Datalog` | queue, row accounting, SD buffer, the sticky full flag; the spool by the promise of `StoreForward` | done |
| 2 | `Telemetry` | composes `BmsPoller`, `TimeSync` and `Datalog` | done |
| 2 | `RoutineChecks` | composes the policy, `ota_task`'s loop, the AP's client counter and the web server's last request; driver and phones as environment | done |
| 2 | `HttpServer` | the watchdog and the server task; the HTTP library as environment | done |
| 3 | `TelemetryProofs`, `OtaLifecycleProofs`, `MqttSessionProofs`, `ModemSupervisorProofs`, `WifiSupervisorProofs`, `EventJournalProofs`, `RoutineChecksProofs` | types, safety invariants and action properties of the modules they are named after | done |
| 4 | `EventLog` | abstract specification of the journal: an append-only log of which a suffix survives | open |
| 4 | `MqttSession` extended | esp-mqtt's API lock, outbox expiry, a disabled configuration | open |

Abstract specifications worth stating: `StoreForward` (done); "at most one
image under trial, with its evidence" for OTA; the append-only log for the
journal, of which `LatestStay` and `ReportReads` are the two halves. Theorems worth
proving: every safety invariant and action property of the runs (done but for the
watchdog's), the refinement of the spool (done), the refinement of `EventLog` once it
is stated.

The modules are written to be proved about: parameters are CONSTANTS with named
assumptions, one action per step of the code, invariants are conjunctions of
named parts, and there is no recursive operator.

## 3 The modules and the code

`PROJECT.json` maps every definition to its source lines. The conventions:

* An action is one step between two points at which something else can happen:
  a file, flash or NVS write, a network call, a critical section, an event bit.
* Names of statics, functions and enum members are kept where TLA+ allows it.
* History variables are named as such where they are declared. Properties read
  them, and so do the bounds on what the environment may do; no guard that
  stands for a condition of the code does.
* Operators marked `mutant` are not used by the specification. Each is a
  plausible bug of the definition that follows it, and exists to show that the
  property it belongs to can fail.

### DatalogSpool (datalog.c 305-546)

The file is a sequence of cells, two per row, the second ending in the newline,
so that a write can be torn in the middle; offsets count cells. `file` and
`diskCursor` are what is on the card, `size` and `cursor` the statics
(`Unloaded` before the lazy `spool_load_state`).

| code | actions |
|---|---|
| `datalog_task` queue receive, `handle_snapshot` | `ReceiveRow`, `ReceiveTimeout`, `PublishLive` |
| `spool_load_state` | `Load`, a part of the first append or replay, with the clamp of the cursor; `OrZero`: a file that `stat` cannot look at is taken to be empty, a cursor that cannot be read to be 0 |
| `spool_append` | `AppendBegin` (with the cap, which drops the backlog), `AppendWrite`, `AppendFails` |
| `spool_replay_tick` | `ReplayBegin`, `ReplayAcked`, `ReplayFailed`, `ReplayEndOfFile`, `ReplayClose` |
| `spool_reset`, `spool_save_cursor` | `ResetUnlink`, `SaveOpen` (truncates), `SaveWrite` |
| environment | `LinkChange`; `Reboot` (power cut at any step; what was being written is torn) |

`damage` records what has gone wrong with the spool until it is next unlinked.
`FileDamage` *spoils* it (`Spoilt`): a torn append, to which the next row is glued,
and a cursor that outlived its file and is applied to the next one. `SizeDamage`
leaves the files as they should be and only makes `s_spool_size` too small: an
unlink that failed (its result is ignored) and a `stat` that failed
(`datalog.c:319`); a boot takes it back. An unlink ends all damage, at the price
`LostInDamage` names: what the broker has not got goes with the file. The safety
properties hold while the spool is not spoilt, and again afterwards; section 5 says
where that parts from what the repository says. `Faults` selects which faults a run
allows.

### StoreForward

What the spool promises with no files or offsets: an accepted row is owed until
the broker has it; only a whole backlog over its cap is ever given up; a
restart may send again what was already delivered, never forget what was not.
`DatalogSpool` implements it with `owed` the accepted rows at or after the
effective cursor, and `Capacity` the cap in rows.

### MqttSession (mqtt.c)

Four tasks: `handler` (the esp-mqtt task in `mqtt_event_handler`), the
publishers `datalog` and `web` (`mqtt_publish_telemetry`,
`mqtt_maintenance_tick`, `mqtt_set_config`), and `statusTask`. A section under
`s_mutex` is one step, enabled while the mutex is free; only
`restart_client_locked`, which blocks inside, holds it over several.

| code | actions |
|---|---|
| `mqtt_publish_telemetry`, `publish_availability` and their callers | `TelemetryBegin`, `MaintenanceTick`, `SetConfig`, `PublishLock`, `Refused`, `SendTelemetry`, `MarkPending`, `SendAvailability`, `PublishDone`, `Settle` |
| `restart_client_locked` | `SwapBegin`, `SwapEnd` |
| `MQTT_EVENT_CONNECTED` | `OnConnected`, `RequestAvailability`, `ReserveTimeStatus`, `ConnectedStatus`, `UndoReservation` |
| `MQTT_EVENT_DISCONNECTED` | `OnDisconnected`, `Unconfirm` |
| `MQTT_EVENT_PUBLISHED` | `OnPublished`, `ComparePending`, `SetPuback`, `CompareRollback` |
| `status_task` | `StatusTaskLooks`, `StatusTaskPublishes`, `StatusTaskEnds` |
| library, broker, clock (external) | `LibConnects`, `SessionBreaks`, `LibNoticesBreak`, `LibReceivesPuback`, `BrokerReceives`, `TimeBecomesValid` |

Assumptions about the library, all visible in how the code uses it: QoS 1
messages wait in a limited outbox and are sent again after a reconnect; PUBACKs
arrive in order; stopping the client waits for a running handler and sends no
last will; message ids are unique (the library draws them from 2^16). One
assumption is about time: `ConnectTakesTime`, a publisher that has been woken
records its result before a new connection is complete. The reconnect back-off
of about 10 s (mqtt.c:286) is longer than the 8 s a publisher waits at all.

### OtaLifecycle (ota.c)

Two slots with image, otadata entry and preferred slot; NVS `attempt` and
`resume`; `ota_task` with its place and locals. An image is `Chunks` range
requests, each labelled with the version whose bytes it holds, so that a
resumed download can mix builds.

| code | actions |
|---|---|
| boot, `ota_init`, evidence classification | `Boot` with `OtaInit`, `AttemptClear` |
| self test, `rollback_selftest` | `SelfTestPasses`, `SelfTestExpires` |
| `ota_check_now` | `AskForCheck`, then `QueueCheck`: two steps, as in the code |
| the task's wait and `run_check` | `TakeRequest`, `Defer`, `Proceed`, `CheckFails`, `UpToDate`, `Refuse`, `StartUpdate` |
| download attempts | `BeginDownload`, `BeginFails`, `SizeMismatch`, `ReceiveChunk`, `RecordProgress`, `DownloadFails`, `Retry`, `GiveUp` |
| finish, hash read-back, record, restart | `RejectImage`, `VerifyFails`, `Finish`, `ResumeClear`, `AttemptSave`, `AttemptSaveFails`, `Restart` |
| evidence over MQTT | `SendEvidence`, `LoseSession`, `Acknowledge`, `AcknowledgeFails` |
| environment | `PowerCut`, `Release` |

The bootloader and `esp_ota_ops` are external: selecting a slot marks it new;
booting a new one makes it pending; a pending one found at reset becomes
aborted; an image that marks itself invalid is invalid; neither is booted
again; writing an image leaves its entry alone; a slot flashed over serial is
undefined. `attempt_save` and `attempt_clear` are one NVS commit each. Whether
a routine check is due is a free choice here (`Defer`).

### ModemSupervisor (modem.c)

`task` holds `modem_task`'s own variables, the status snapshot `st` included;
`shown`, `requested`, `apn`, `apnDirty` and `pppUp` are what other tasks share
with it under `s_status_mutex`. One action is one critical section of that
mutex or one window on the AT channel.

| code | actions |
|---|---|
| `at_channel_acquire`, `at_channel_release` | `Grant`, `Refuse`, `Release`, parts of the actions that use the channel |
| top of the loop, restart | `Snapshot`, `BeginRestart`, `MarkLinkDown`, `Reset`, `Overdue` |
| link watch, probe, `baud_negotiate` | `NoteLink`, `Probe`, `Negotiate` with `Found` and `NotFound` |
| poll and its failures | `Poll`, `PollOnce` with `AfterPoll` and `AfterDeadPoll`, `TearDown` |
| APN, dial | `ApplyApn`, `Dial`, `QueryAttach`, `Connect` |
| end of the loop | `Publish` |
| other tasks | `RequestRestart`, `SaveApn`, `ConsoleBorrows`/`ConsoleReturns`, `SuspendPolls`/`ResumePolls` |
| `on_ip_event`, `on_ppp_status` | `HandleEvent` |
| modem, network, lwIP (external) | `SessionOpens`, `SessionFails`, `CallDropped`, `ModemReboots`, `ModemBooted` |

External: `line` is what the modem does with the bytes it understands; `lwip` is the
host's end of PPP; events are handled in order; a reboot of the modem is never
reported, since no LCP echo is configured. `hostBaud` and `modemBaud` are the rates
of the two UARTs, and bytes are understood only while they agree (`Heard`). A modem
that reboots is silent until `ModemBooted` and comes back at its power-on rate.
`baud_negotiate` ends in every way the code allows: at the target rate, at the
power-on rate because `AT+IPR` was refused or its OK was lost ("usable, just slow",
`modem.c:1179`), or without finding the modem. A poll is dead exactly when the modem
does not answer. The 20 s between two dials are left open; a dial happens only with
fewer than `MaxEvents` unhandled events of lwIP.

### WifiSupervisor (wifi.c)

| code | actions |
|---|---|
| `nvs_load_creds`, top of `wifi_task` | `LoadSsid`, `LoadPass`, `ClearReconfig`, `Decide` |
| `start_sta`, `start_ap`, `wifi_stop_if_running` | `StartSta`, `StartAp`, `StopRadio` |
| `sta_connect_loop` | `JoinWait`, `JoinInterrupted`, `Joined`, `JoinFailed`, `BackoffInterrupted`, `Retry` |
| steady state and the SoftAP's wait | `Steady`, `ApWait` |
| `event_handler` | `HandleEvent` |
| `wifi_set_credentials` | `SaveSsid`, `SavePass`, `SaveFails`, `SaveWakes`: the two keys are written one by one |
| driver (external) | `Associates`, `JoinFails`, `AcquiresAddress`, `LinkDrops`, `LeaseLost` |

The driver joins, fails, drops and leases at will and posts its events in order;
a password opens only its own network; nothing is assumed about a network ever
answering. `esp_wifi_start` and the time-outs, which take seconds, happen with
no event waiting (`Settled`). Credentials are saved while the web server is
reachable. A lease that runs out raises `IP_EVENT_STA_LOST_IP`, for which the
firmware registers no handler (`wifi.c:392-395`); the link is then `leaseless`, and
for as long as it holds there is neither an address nor a SoftAP. The properties say
where they except it.

### EventJournal (event_journal.c, event_journal_core.c)

Each producer is a task inside `event_journal_emit`, with its record; `writer` is
`journal_task`. A file is a sequence of items, one record with its newline or a
torn part of one; `files[0]` is `events.jsonl`, `files[n]` is `events.n.jsonl`.
Producers run between any two calls of the writer on the card, and between the
release of `s_mutex` and the send.

| code | actions |
|---|---|
| `event_journal_emit` | `EmitContended` (the mutex is taken: counted and gone), `EmitNumbered`, `Send`, `Evict`, `Resend` |
| `journal_task` | `Take`, `Encode`, `Count` |
| `event_core_append`, `rotate_files` | `Full`, then `Unlink` and `Rename` for each generation, `Write` |
| `event_journal_init`, `event_core_repair_tail` | `JournalInit` with `Repaired` |
| environment | `PowerCut` at any step, which keeps any part of the line being written; a `Fault` of one call |

`overtaken` records that a record was queued after one with a higher number,
`torn` that a failed call left a part of a record in a file, to which the next
record is then appended: only the tail of the active file is repaired, and only
at boot.

### Datalog, BmsPoller, TimeSync, Telemetry (datalog.c, bms.c, timesync.c)

`BmsPoller` is `bms_task` and `bms_set_options`, one action per critical section. A
reading is known by the wiring it was taken on, or `Sim`. `wired` is where the
battery really is; a poll on it is answered or not, a poll elsewhere is not.

`TimeSync` counts time in days. `clock` is `time(NULL)`, `source` is what
`timesync_valid` looks at, and the two are set apart: `settimeofday`, then
`set_synced`; the SNTP client likewise sets the clock before it calls back. `Today`
is both a row's stamp and the name of a file, 0 before the first synchronisation
(`unsynced.csv`).

`Datalog` is `datalog_submit` and `datalog_task`. The spool inside it is
`StoreForward`, whose actions the steps that touch it use (`SF!Accept`,
`SF!Deliver`, `SF!Sacrifice`); `DatalogSpool` is shown to implement that in another
run. Counters that follow a row are the set of rows they count.

| code | actions |
|---|---|
| top of `bms_task` | `TakeOptions` with `Taken` (drops the UART on a change of pins) |
| `jbd_bms_create_ex`, `readMeasurements` | `UartFails`, `PollAnswered`, `PollUnanswered` |
| `publish_reading`, `datalog_submit` | `PublishReading`, then `SubmitEnds` with `SubmitFits` or `SubmitFull` |
| `bms_set_options` | `SetOptions` with `Forgotten` |
| `timesync_task`, `try_gnss_seed` | `Look`, `NoFix`, `SeedClock`, `RecordSeed` |
| `on_sntp_sync` | `OnSntpSync`, after `SntpSetsClock` |
| `xQueueReceive` and `sd_append` | `TakeUnbuffered`, `TakeBuffered`, `OverflowFlush`, `OverflowFlushFails`, `ReceiveTimesOut` |
| `handle_snapshot`, `spool_append` | `PublishAcked`, `PublishFails`, `SpoolAbsent`, `SpoolOverCap`, `SpoolAppends`, `SpoolFails` |
| 30 s flush, `spool_replay_tick` | `TimedFlush`, `TimedFlushFails`, `NotDue`, `Replay`, `TickEnds` |
| world | `ClockCatchesUp`, `Midnight`, `GnssFix`, `FixAges` |

`Telemetry` composes the three: a step of one leaves the variables of the others
alone, but for `SubmitEnds`, which is a step of the poller and of the pipeline at
once, and for the clock, which is an input of `PublishReading` and of the flushes.

### RoutineChecks (ota.c 996-1100, ota_policy_core.c, wifi.c, webui.c)

Time is counted in ticks; ages stop at the period they are compared with. `ota` is
where `ota_task` is and how long it still waits there; the decision takes no time,
so that the policy's five inputs are of one moment, as in the code to within the
time of five loads. `ap` is the counter with its two timestamps, of which the
policy only asks which is later and how old the departure is.

| code | actions |
|---|---|
| `xQueueReceive` with the time-out | `TakeRequest`, `TimerFires` |
| `ota_policy_evaluate` | `HttpInUse`, `ApInUse`, `Deferred` |
| the two ways on | `Proceed`, `Defer` |
| `wait_for_transport`, `run_check` | `TransportReadied`, `TransportTimesOut`, `CheckEnds` |
| `event_handler`, AP events | `HandleJoined` with `Counted`, `HandleLeft` with `Uncounted` |
| `start_ap`, leaving the AP | `StartAp`, `ShowAp`, `LeaveAp`, `StopAp`, `RestartAp` |
| `observed_handler`, `ota_check_now` | `NoteRequest`, `OtaCheckNow` |
| phones, driver (external) | `PhoneJoins`, `PhoneLeaves`; `PhonesGone` reports the departures or does not |

### HttpServer (webui.c 1219-1300)

The library is external: one task waits in `select()`, runs the queued work first
and then one handler for each ready session. Time is counted in passes of the
watchdog. A handler that is not wedged holds the task for at most `SlowPasses`.

| code | actions |
|---|---|
| `watchdog_task` | `WatchdogPass` with `StillPending` and `Requeued`, then `QueueHeartbeat` or `QueueFails` |
| `heartbeat_work` | `HeartbeatWork` |
| server task (external) | `RequestArrives`, `NextSession`, `HandlerReturns`, `HandlerWedges`, `WedgedReturns` |

## 4 What each run shows

`tlc -config <cfg> <module>`; times are with two workers.

| run | configuration | what it checks |
|---|---|---|
| `spool` | `MC_Spool.cfg`: 3 rows (symmetric), 2 rows per tick, cap of one row, 2 power cuts, every fault | `TypeOK`; **`NothingLost`**: an accepted row is delivered, owed or forfeited; **`CursorBehindAcks`**: neither cursor passes an unacknowledged row; **`RowsIntact`**: no line but a whole row is published; each while the spool is not spoilt |
| `spool_fair` | `MC_SpoolFair.cfg`: 3 rows, 1 row per tick, 2 power cuts between steps, no I/O error | **`ReplayWindow`**: a cut re-sends at most one tick's rows; **`KeepsPromise`**: refinement of `StoreForward`; **`EventuallyDelivered`** once the broker stays reachable |
| `mqtt` | `MC_Mqtt.cfg`: 3 messages, outbox of 2, one lost session, one swap; 6.0 million states, 80 s | **`SuccessMeansReceived`**, **`SettledOnline`** (no stale last will), **`OwedStatusOnce`** (the first time report is not repeated, rollback evidence not cleared early) |
| `ota` | `MC_Ota.cfg`: 3 versions, one broken, images of 2 chunks, 2 attempts, one cut or reboot, one new release, one fault; 70 s | **`OnlyAnnouncedRuns`**: one whole build, of an announced version unless an attempt could not be recorded; **`RollbacksToldTruly`** (`RollbackReported`, `NoFalseRollback`, `RefusedWasRolledBack`), **`BrokenImageLeaves`**, **`AcceptedCheckRuns`** |
| `modem` | `MC_Modem.cfg`: 2 APNs, 2 disturbances of any kind, 1 pending event; 1.8 million states, 180 s | **`GnssKept`**: an engine believed powered is, at the target rate; **`ApnApplied`**; **`OneRestart`**: no second restart is accepted until the first has settled; **`RestartSettles`**; **`DeadLinkNoticed`**: a modem that no longer hears the host is noticed; **`SessionReclaimed`** |
| `wifi` | `MC_Wifi.cfg`: 2 networks, 2 and 3 attempts, 2 saves, 2 disturbances, 2 pending events; 55 s | **`ShownIsTrue`**, **`LinkNotAbandoned`**, **`ControlPlaneReturns`**: a link that is down or not up ends in an address or a SoftAP, and a drop is noticed;, **`SavedIsApplied`** |
| `journal` | `MC_Journal.cfg`: 2 producers (symmetric), queue of 2, 3 files of 2 records, one power cut, one failing call; 25 s | **`ReportAccepts`** (`FilesParse`, `OrderKept`) and **`OldestGoFirst`** after a cut at any step, **`CriticalKept`**; `TypeOK` includes that every event is queued, in hand or counted exactly once |
| `telemetry` | `MC_Telemetry.cfg`: 2 rows, queue of 1, buffer of 1 row, 2 days, 2 pin pairs (symmetric), 3 disturbances; 3.4 million states, 90 s | **`FiledInTime`**: no row is filed under an earlier day than its stamp; **`RowsLeaveATrace`**: a row in no sink shows in the counters; **`OnlineMeansTalks`**: a detected battery was read on the configured pins |
| `routine_checks` | `MC_Routine.cfg`: 3 phones, 3 pending events, periods of 1 to 6 ticks; 531,000 states, 25 s | **`ClientsUndisturbed`**: at the decision no one uses the local control plane; **`RoutineChecksResume`**: checks go on for ever once no one does |
| `http_watchdog` | `MC_HttpServer.cfg`: the real 60 s and 40 s in passes of 10 s; 127 states | **`WatchdogTells`**: a stall is told of a wedged server only, of every one, and is taken back |
| `mqtt_swap`, `ota_retried` | one property each | a statement of the repository that the code does not keep: section 5 |

Each property of a passing run is paired in `PROJECT.json` with a mutant: a
plausible bug of one mapped definition with which TLC finds it violated under the
same configuration.

### Bounds

* **Spool.** Three rows are the fewest with one row published live, one in the
  file and one that arrives while a replay is under way. With two rows per tick
  a tick can be partial, full or stopped by a failure in the middle. A cap of
  one row (two cells) lets the second spooled row exceed it. Two power cuts
  allow a cut during the recovery from the first.
* **MQTT.** Three messages: one that times out, one whose wait the late bit
  would end, one by another task. One lost session and one swap suffice for the
  last will, the stale id and the retained state, and can be combined.
* **OTA.** Three versions: the running one, the broken one, and one to follow
  it. Two chunks per image allow an interruption inside it; a foreign chunk can
  be first, last or both. One cut and one NVS fault can fall at any step of any
  of the updates that the versions allow.
* **Modem, WiFi.** Two disturbances are every pair of request, reboot, dropped
  call or link, console command and save, in every order and at every step of
  the loop. The modem starts at either rate, so that one reboot is one of a modem that
  was raised or refused to be. `MaxEvents` bounds what the event loop has not yet
  handled.
* **Journal.** Five events in the first boot fill the active file twice, with the
  boot event, and two more in the second boot make a seventh record, the first
  that drops the oldest generation. A queue of two has a newest and an oldest
  entry; the eviction race needs two producers. The power cut and the failing
  call can fall at any step, also both in one rotation.
* **Telemetry.** Two rows are the fewest of which one overflows a queue or a buffer
  of one, or exceeds the cap of the spool (0: a backlog of one row is over it).
  Two days have one midnight. Three disturbances (a change of options, an SNTP
  synchronisation, a fix, midnight, a failure of a sink) are every triple of them at
  every step: a lost row needs two failures, the crossed clock two and a midnight.
  With three rows the state space is four times as large and shows nothing more.
* **Routine checks.** The periods keep the order of the real ones (1 minute < 5
  minutes = retry < 1 hour, 3 minutes between) and stop at the first value at which
  they differ. Three phones saturate a counter that a missed departure left raised.
* **Watchdog.** The real limits: there is nothing to scale down.
* `telemetry` runs with deadlock checking off as well: rows and disturbances run out.
* `mqtt`, `wifi` and `journal` run with deadlock checking off: message ids run out
  in the first, a SoftAP with no saves left rests as it should in the second,
  and the calls run out in the third.

### Fairness

`WF(TaskStep)` for each supervisor task, `WF(HandleEvent)` for the event loop,
and weak fairness of a caller finishing a call it has begun (`ConsoleReturns`,
`ResumePolls`, `SaverStep`): FreeRTOS schedules these tasks, every call they
block in has a time-out, and those callers release what they borrowed on every
path. `ModemSupervisor` adds `TimePasses`: the 90 s of a restart and, while the link
is up, the 30 s between polls elapse again and again. Nothing is assumed of the network, the
broker, the modem, the update server, the card or the user; `EventuallyDelivered`
says explicitly that the broker must stay reachable and the card be mounted.

`RoutineChecks`: weak fairness of the OTA task, of the event loop and of time
(`Tick`), and none of phones, requests or the WiFi task. `HttpServer`: weak fairness
of a handler that is not wedged, of queued work and of the watchdog's passes, and
strong fairness of queueing the heartbeat, which does not fail for ever; that a
wedged handler returns is not assumed. `Telemetry` has safety properties only.

## 5 Findings

Each is a run that TLC finds violated by a model of the code as it is; the run's
property is what the quoted text says.

| run | at | what |
|---|---|---|
| `mqtt_swap` | `mqtt.c:291` | The comment at `mqtt.c:328-330` avoids one deadlock of the client swap; another stays: `esp_mqtt_client_stop` waits, with `s_mutex` held, for a handler that waits for `s_mutex`. |
| `ota_retried` | `ota.c:921` | "a rolled-back version is never auto-retried" (README.md:182-183). Only an aborted entry is refused; an image whose self-test fails marks itself invalid, and is downloaded again at the next routine check. |

The passing runs state what the code keeps, with each exception as narrow as the
defect, so that everything around it is still checked. The exceptions are the
other places where the code and what is said of it part:

* `Spoilt` in `NothingLost`, `CursorBehindAcks` and `RowsIntact`: README.md:87-88 has
  rows "replay in order" and "resumable across reboots". Two things break that until
  the file is next unlinked.
  `stale_cursor`: `spool_reset` unlinks the spool (`datalog.c:370`) and then rewrites
  the cursor (373). A power cut between the two leaves the old offset, which the next
  boot clamps (329) and applies to the next file: rows before it are never replayed.
  `torn_append`: of a row whose write fails or is cut (401) a part may stay; the next
  row is glued to it, and what replay sends there is neither.
* `size_unread` and `unlink_failed`, with what `LostInDamage` lets `NothingLost` count as
  given up: a `stat` that fails (`datalog.c:319`), like an unlink that fails (370),
  makes a spool with rows in it look empty. Rows are then owed that lie beyond
  `s_spool_size`; a boot finds them again, but a spool that looks drained (493) or
  over its cap (388) before that is unlinked with them, against the same sentence.
* `io_error` and `damage = {}` in `ReplayWindow`: a checkpoint that could not be
  written leaves the cursor on the card behind by more than a tick.
* `task.atOk` in `DeadLinkNoticed`: the probe "re-runs whenever the AT channel dies"
  (`modem.c:1350`). It needs PPP down (1352), and everything that could notice a dead
  link needs `at_ok` (1412, 1472). Polls that PPP swallows between the dial and
  `GOT_IP` clear `at_ok` just as PPP comes up, and status and GNSS then stay frozen
  for as long as PPP looks up.
* `hostBaud = "target"` in `GnssKept`: "modem may have rebooted; re-enable"
  (`modem.c:1427`) relies on the dead polls that a change of rate causes. Where
  `AT+IPR` was refused (1176-1179) host and modem stay at the power-on rate, a modem
  that reboots answers the next poll, and `gnss_on` stays set over an engine that is
  off.
* `overtaken` in `ApnApplied`: `modem_set_apn` is to "re-run PDP context setup"
  (`modem.h:114`). The flag is cleared (`modem.c:1499`) with the APN that was copied at
  the top of the loop (1250): one saved in between is applied at the next save or
  boot only. The exception is wider than that in time, since it stays once set.
* `lateIp` in `LinkNotAbandoned`: "back off and retry the association" (`wifi.c:293`)
  ends in an `esp_wifi_connect` (304) that nothing waits for. An address that comes in
  the last backoff is thrown away for the SoftAP.
* `leaseless` in `ControlPlaneReturns` and `ShownIsTrue`: of the IP events only
  `STA_GOT_IP` is registered (`wifi.c:394`). A lease that is lost with the link kept
  leaves the gateway out of reach, shown as connected, until the link itself drops.
* `damage` in `RollbackReported`: README.md:227-234 has every rollback reported until
  acknowledged. `esp_https_ota_finish` selects the new image (`ota.c:771`) before
  `attempt_save` records it (824): a cut in between leaves a rollback without
  evidence. The acknowledgement of an earlier rollback clears the record without
  looking whose it is (1151), also that of an attempt made meanwhile. And where NVS
  fails there is no record, or one too many; `NoFalseRollback` and
  `RefusedWasRolledBack` name the combinations they except.
* `save_failed` in `OnlyAnnouncedRuns` and `BrokenImageLeaves`: a board that cannot
  record an attempt selects its own image again (`ota.c:824-829`), which the bootloader
  then takes for one that has yet to prove itself.
* `overtaken` in `OrderKept`: `event_report.py` "verifies boot-scoped sequence order"
  (README.md:319-320) and refuses a journal that has it wrong. The number is drawn
  under `s_mutex` (`event_journal.c:262`) and the record queued after it (271): a
  task preempted in between is overtaken by a later number. `OldestGoFirst` has the
  same exception.
* `torn` in `FilesParse` and `OldestGoFirst`: a write to the journal that fails half way
  leaves a part of a record that is not repaired before the next boot, and the next
  record is glued to it. `event_report.py` refuses the whole journal then ("invalid
  JSONL record", `event_report.py:62-66`).
* Both disjuncts on `resend` and `evict` in `CriticalKept`: the code is to "preserve the
  newest critical transition under pressure" (`event_journal.c:273`). The entry it
  evicts is the oldest (276), which may be critical itself, and another producer may
  take the freed place before the second send (280). The property says that there
  is no other way to lose one.
* `crossed` in `FiledInTime`: "two sources, best wins" (`timesync.h:8`). SNTP may
  synchronise between `timesync_task`'s look at the source (`timesync.c:131`) and its
  `settimeofday` (112): the GNSS seed then sets the clock back to the age of the fix
  and replaces the source.
* `overtaken` in `OnlineMeansTalks`: the UI "flips to online only if the new wiring
  actually talks" (`bms.c:76-78`). A reading under way when `bms_set_options` forgets
  the old wiring is published after it, and the battery is detected on pins that
  may not be wired. A simulated reading likewise sets `ever_ok`, and leaving the
  simulation with the pins unchanged does not take it back.
* The `Lost` rows of `RowsLeaveATrace`: a backlog over the cap is given up because
  "everything is already in the daily CSVs" (`datalog.c:382-384`), and offline rows
  without a spool "survive only in the daily CSV" (380). Both need the same card: a
  row whose buffer could not be flushed, or that came after the card was full or
  without a card, is in no file. `sd_rows` counts rows as they are buffered, so only
  `sd_write_failures` and `sd_ok` tell.
* `unreported` in `RoutineChecksResume`: `ap_client_count` is corrected by events
  alone. If the driver does not report its clients when the AP is stopped, the
  count stays raised, and routine checks are deferred for as long as the AP is up.
* `ClientsUndisturbed` is stated of the decision, as README.md:191-194 is; the task
  then waits up to three minutes for a transport (`ota.c:1075`) and does not ask
  again. It speaks of phones only while the AP is up: the policy does not look at
  them otherwise (`ota_policy_core.c:22`, as its test has it), so that the "five
  minutes after the last disassociation" are not kept after an AP that was stopped.
* `crowded` in `WatchdogTells`: "only a genuinely wedged server task trips it"
  (`webui.c:105-108`) counts one slow handler. Two of 40 s in one round, before the
  server is back in `select()`, trip it as well.

Two more are a few instructions wide:

* `strays` in `SuccessMeansReceived` and `SettledOnline`: the handler compares the
  message id (`mqtt.c:245`) and sets `EV_PUBACK` (246) under no lock. A publisher
  that times out in between leaves the bit to its next publish, which then
  reports success without a PUBACK of its own.
* `save.overtaken` in `SavedIsApplied`: `wifi_task` reads the keys (`wifi.c:313`) and
  then clears `BIT_RECONFIG` (314). A save that returns in between is wiped out.

## 6 What is proved

Eight modules hold theorems, each about the module it is named after. Every
theorem is about every instance: any sets of rows, networks, versions, producers
or phones, any sizes and periods, any number of power cuts, reboots and
disturbances, any set of faults. Where a run checks the same property, TLC found
the formula true on a small instance before it was proved, the inductive
invariants included.

The assumptions are the ones named in the specifications, which TLC evaluates on
each run: numbers are naturals, and positive where a queue, a budget or a period
of zero would be another program; placeholders such as `None`, `NoRow` and `Garbage`
are not values; `Producers` is finite, since a set of tasks is and `TypeOK` counts
it; a journal has at least two files. Of the environment nothing is assumed that
the specification does not state.

| module | theorem | statement |
|---|---|---|
| `DatalogSpoolProofs` | `TypeCorrect` | `Spec => []TypeOK` |
| | `SpoolLosesNothing` | `Spec => []NothingLost` |
| | `CursorsBehindAcks` | `Spec => []CursorBehindAcks` |
| | `LinesUnaltered` | `Spec => []RowsIntact` |
| | `WindowBounded` | `Spec => []ReplayWindow` |
| | `SpoolImplementsStore` | `"io_error" \notin Faults` implies `Spec => [][damage = {} /\ damage' = {} => [Promise!Next]_(Promise!vars)]_vars` |
| | `PromiseKept` | `Faults = {}` implies `Spec => KeepsPromise` |
| `TelemetryProofs` | `TypeCorrect`, `NoRowFiledEarly`, `LostRowsShow`, `DetectedMeansRead` | `TypeOK`, `FiledInTime`, `RowsLeaveATrace`, `OnlineMeansTalks` |
| `OtaLifecycleProofs` | `TypeCorrect`, `OnlyAnnounced`, `RollbacksTold` | `TypeOK`, `OnlyAnnouncedRuns`, `RollbacksToldTruly` |
| | `WayBack` | one of the two slots always holds an image that has proved itself |
| `MqttSessionProofs` | `TypeCorrect`, `CountedTruly`, `ShownOnline`, `OwedOnce` | `TypeOK`, `SuccessMeansReceived`, `SettledOnline`, `OwedStatusOnce` |
| `ModemSupervisorProofs` | `TypeCorrect`, `GnssRemembered`, `ApnReachesDial`, `RestartsOneByOne` | `TypeOK`, `GnssKept`, `ApnApplied`, `OneRestart` |
| `WifiSupervisorProofs` | `TypeCorrect`, `ShownTruly`, `LinkKept` | `TypeOK`, `ShownIsTrue`, `LinkNotAbandoned` |
| `EventJournalProofs` | `TypeCorrect`, `ReportReads`, `LatestStay`, `CriticalStay` | `TypeOK`, `ReportAccepts`, `OldestGoFirst`, `CriticalKept` |
| `RoutineChecksProofs` | `TypeCorrect`, `PhonesUndisturbed` | `TypeOK`, `ClientsUndisturbed` |

Each module proves `Invariance`, `Spec => []IInv`, by one lemma per conjunct of
`IInv` and, in it, one step per action that can disturb the conjunct; the theorems
follow from it. None of the properties is inductive alone. What has to be known
besides is what follows.

### The spool

Whether a cursor may move past a row depends on the row being whole in the file,
on the cursor standing at a line boundary, and on what a boot would recover from a
file that is being rewritten:

    IInv == TypeOK /\ LoopInv /\ KeptInv /\ (~Spoilt => Unspoilt)
    Unspoilt == Whole(file) /\ RamInv /\ DiskInv

* `LoopInv`: what the task has in hand at each place (a row to append, a budget
  to replay with, a loaded size).
* `KeptInv`: every accepted row is in the file, delivered or forfeited, spoilt or not.
* `Whole`: the file is made of whole rows, each followed by its newline.
* `RamInv`: once loaded, the cursor is *sound*, that is, at a line boundary with every
  row before it acknowledged; the size is the file's as long as nothing is damaged, and
  may be anything a failed `stat` or unlink left otherwise.
* `DiskInv`: the cursor file is sound too, unless it belongs to an unlinked file,
  in which case there is no new file yet.

The lemmas are about appending to, cutting and reading lines from a sequence of
cells (`AppendRow`, `AppendPart`, `CutPart`, `NextLine`, `WholeAppend`), and
`RecoveredSound`: the offset a boot recovers is sound. `DamageStays` says that damage
goes away only with the file, or, if it is of the size, at a boot. A spool that is
not spoilt after a step was therefore not spoilt before it, or is empty.

The refinement and the replay window need more (`RInv`). A row is appended once and
accepted when it is (`HandInv`); a backlog that is about to be given up is over its
cap (`CapInv`); the rows from a boundary on are accepted, distinct and half as many
as the cells (`BacklogInv`), so that the cap in cells is the cap in rows; without I/O
errors the cursor on the card never overtakes the one in RAM and agrees with it
between ticks (`FollowInv`); and the lines between the two, with what is left of the
tick's budget, are at most a tick's (`WindowInv`). `SpoolImplementsStore` goes through
the actions: each is one of `StoreForward`'s under the mapping, or changes none of
its variables. It holds of every step that neither starts from nor leaves a damaged
spool; with no faults there is none (`FaultInv`), and `PromiseKept` is the refinement
outright.

### The telemetry pipeline

`StampInv`: no row on its way is stamped later than the clock, unless SNTP crossed
the seed; it needs `ClockInv`, that the seed is only set while there is no source.
`OrderInv`: the rows in poller, queue and hand have distinct, increasing numbers; so
a row is counted once (`CountInv`). `CardInv`: until a flush fails, every row that
was taken from the queue is on the card or in the buffer; `SpoolInv` is the promise of
`StoreForward`. A row in neither sink is then one a counter tells of. `PollerInv`: the
UART is on the configured pins or about to be dropped, so that a reading that was
not overtaken is of those pins.

### OTA

`TaskInv` says what the task has established at each place of its cycle, `SlotInv`
which slot the bootloader would take at any moment. `ProvenInv`: what runs has proved
itself, or is on trial with a proven image in the other slot, to which the
bootloader returns; `OnlyAnnounced` and `WayBack` are read off it. `AttemptInv` and
`EvidenceInv` relate the NVS record, written before the restart, to the slot that is
on trial, through every power cut between the write, the restart, the self test and
the acknowledgement; `AbortedInv`: an entry that says aborted is of a version that
was given up. The hypotheses about `damage` in them are those of the properties.

### MQTT

Ids in the outbox increase, the acknowledged messages first (`OutboxInv`), and what a
publisher waits for is the message in the outbox with its id (`HeldInv`). What is
acknowledged was received (`AckedInv`); the handler is only told of a message that
was received and is out of the outbox (`ToldInv`); a pending id is one somebody waits
for (`PendingInv`). So `EV_PUBACK` belongs to the publisher that waits, and is set at
most once for it, as long as no publisher gave up between the comparison and the
bit (`BitInv`). `RetainedInv`: the retained state is wrong only while an "online" is
requested or under way, an "offline" being in the outbox only while the client is
replaced (`OfflineInv`). `RollbackInv`: the id that the evidence waits for is one of a
rollback event. `TimeInv`: one of the handler and `status_task` holds the reservation of
the first time report.

### Modem, WiFi, routine checks

* **Modem.** `GnssInv`: the task forgets GNSS with the AT channel and only negotiates
  without one, so that an engine it believes powered is, in a modem at the target
  rate: a reboot ends that rate. `ApnInv`: the APN is flagged or applied. `RestartInv`: a
  restart that is neither waiting to be taken nor just taken shows as under way,
  although each loop publishes the whole status over it.
* **WiFi.** `ReportInv` is the heart: the newest event on its way, or once there is
  none what is shown and `BIT_GOT_IP`, says whether the link has its address.
  `JoinedInv` and `LateInv` follow it into the task, which has looked at the bits
  some time ago. `LinkKept` is an action property of the step that stops the station.
* **Routine checks.** `CountInv`: take the phones there are, add those whose
  departure is still to be handled after the first `k` events and take away those
  whose arrival is; whatever `k`, that is at most `AP_MAX_CONN`, and for `k = 0` at
  most the counter. That every suffix is bounded keeps the saturating counter from
  falling behind. `AgeInv`: the age of the last departure does not exceed the time
  nobody was there.

### The journal

The numbers that producers hold are their own, drawn, and not queued yet
(`NumberInv`); what is queued or written was queued in this boot, what is on the card
in this one or before (`PastInv`). While nobody was overtaken, card, the writer's
hand and the queue are one line in increasing order (`LineInv`), and the files are
ordered, older generations first (`Ordered`). In a rotation the next generation to be
filled is empty (`GapInv`), so that a rename overwrites nothing; the only partial
record is the last one of the active file until the next boot (`TornInv`). `LostInv`:
a record that is no longer on the card is older than all that are. `TypeCorrect` is
the conservation law that every event of a boot is queued, in hand or counted
exactly once, and rests on lemmas about the number of busy producers (`BusyStarts`,
`BusyEnds`).

## 7 What is only model-checked, and what is not modelled

**Only model-checked.** All liveness (`EventuallyDelivered`, `BrokenImageLeaves`,
`AcceptedCheckRuns`, `RestartSettles`, `DeadLinkNoticed`, `SessionReclaimed`,
`ControlPlaneReturns`, `SavedIsApplied`, `RoutineChecksResume`), which is out of the
prover's reach; `WatchdogTells` of the web server, most of which is liveness and whose
instance is the real one; the refinement of `StoreForward` with faults, beyond what
`SpoolImplementsStore` says of the steps of an undamaged spool; and the two properties of
section 5 that the code does not keep.

**Abstracted.** Message contents, CSV and JSON formatting, signal and
registration values, hashes (a version stands for its bytes), file sizes in
bytes (cells), clock values (elapsed or not), counters and logging.

**Not modelled.** Of the pipeline: the energy integral, peaks and simulated values
of the poller, the storage of its options in NVS, CSV formatting with the row that
is too long for its line, and `datalog_get_status`, which reads the spool's size and
cursor without a lock. Of MQTT: esp-mqtt's own API lock, `MQTT_EVENT_ERROR`, outbox
expiry and the disabled configuration. Of the journal: the RAM ring with its
visitor, and the rate-limit slots. Of the web server: sessions and their purge, the
counters of `observed_handler`, the chunked JSON stream and the reboot handler. A
handler that calls into another component is an action of that component's module.
The board battery's hysteresis is sequential code in one task whose result only the
status page reads; a unit test reaches all of it.

**Not to be modelled.** `led.c` and `app_main.c` (a display and a sequence of
calls), `sdcard.c` (mounts once; its failures are in the modules that use the
card), the JBD driver (a submodule whose sources are not in the repository),
the web pages, and the host tools, which are read as statements about the
firmware. `tools/recovery_policy.py` is a design model of something the firmware
does not do: there is no code for a module to be faithful to.
