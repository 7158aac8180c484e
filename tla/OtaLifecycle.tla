---------------------------- MODULE OtaLifecycle ----------------------------
(***************************************************************************)
(* Over-the-air updates, main/ota.c: the manifest check, the resumable     *)
(* download into the passive slot, the hash read-back, the reboot into an  *)
(* image that has yet to prove itself, its self-test, and the rollback     *)
(* evidence kept in NVS until the broker has acknowledged it.              *)
(*                                                                         *)
(* One action is one step between two writes to flash or NVS, or two       *)
(* network operations, of ota_task, so that power can be cut between any   *)
(* two of them.  An image is a sequence of Chunks range requests, each     *)
(* labelled with the version whose bytes it holds; a version stands for    *)
(* its hash and URL too.                                                   *)
(*                                                                         *)
(* The bootloader and esp_ota_ops are external, modelled by what this code *)
(* relies on: selecting a slot for boot marks its entry "new"; the         *)
(* bootloader turns "new" into "pending" when it boots it, and a "pending" *)
(* it finds at reset into "aborted"; an image that marks itself invalid is *)
(* left "invalid"; neither of these two is booted again, nor is an         *)
(* incomplete image.  Writing an image does not touch the slot's entry.    *)
(***************************************************************************)
EXTENDS Integers, Sequences, FiniteSets

CONSTANTS
    Versions,     \* the versions that are ever announced
    First,        \* the version the board is flashed with
    Broken,       \* versions that never pass their self-test
    Foreign,      \* bytes of a build that is not the announced one
    None,         \* no version
    Chunks,       \* the size of an image, in range requests
    Attempts,     \* DOWNLOAD_ATTEMPTS
    MaxReboots,   \* bound: power is cut or the web reboot used at most this often
    MaxReleases,  \* bound: the manifest changes at most this often
    MaxFaults     \* bound: at most this many of FaultKinds happen

\* "cut_unmarked": power is lost after the new slot is selected for boot and
\* before the attempt is recorded.  "late_ack": an acknowledgement of earlier
\* evidence is handled after the next attempt is recorded.  "save_failed" and
\* "clear_failed": NVS refuses to write, or to erase, the attempt.
FaultKinds == {"cut_unmarked", "late_ack", "save_failed", "clear_failed"}

ASSUME VersionsAssumption ==
    /\ First \in Versions /\ Broken \subseteq Versions
    /\ Foreign \notin Versions /\ None \notin Versions /\ Foreign # None
ASSUME SizesAssumption == Chunks \in Nat \ {0} /\ Attempts \in Nat \ {0}
ASSUME BoundsAssumption == MaxReboots \in Nat /\ MaxReleases \in Nat
                            /\ MaxFaults \in Nat

VARIABLES
    \* flash and NVS
    image,       \* what each slot holds
    entry,       \* what otadata says of each slot
    bootSlot,    \* the slot otadata prefers
    attempt,     \* the "otaattempt" namespace: source and target versions
    resume,      \* the "otares" namespace: version and chunks already valid
    \* ota.c statics
    running,     \* esp_ota_get_running_partition()
    pending,     \* s_st.pending_verify
    rollback,    \* s_st.rollback_detected with its two versions, or NoAttempt
    busy,        \* s_busy
    trigger,     \* s_trigger, of depth one, holds a request
    \* ota_task: where it is, and its locals
    pc, manual, target, got, tries,
    refused,     \* the version s_st.error says was rolled back
    \* the web server, the broker and the update server
    asking,      \* ota_check_now has read s_busy and found it clear
    sent,        \* the event that carries the evidence awaits its PUBACK
    manifest,    \* the version the manifest announces
    reboots, releases,
    \* history, for the properties only
    gaveUp,      \* versions the board has rolled back from
    unreported,  \* the last such version, until acknowledged or superseded
    damage       \* faults so far, and "reused" for an aborted slot rewritten

flash == <<image, entry, bootSlot>>
nvs == <<attempt, resume>>
ram == <<running, pending>>
task == <<pc, manual, target, got, tries, refused>>
requests == <<busy, trigger, asking>>
reports == <<rollback, sent>>
world == <<manifest, reboots, releases>>
history == <<gaveUp, unreported, damage>>
vars == <<flash, nvs, ram, task, requests, reports, world, history>>

Slots == {0, 1}
Other(s) == 1 - s
passive == Other(running)
EntryStates == {"undefined", "new", "pending", "valid", "invalid", "aborted"}
NoAttempt == [source |-> None, target |-> None]
NoResume == [version |-> None, len |-> 0]
DamageKinds == FaultKinds \cup {"reused"}

Whole(v) == [i \in 1..Chunks |-> v]

\* esp_ota_get_partition_description: the header of what was last written.
Described(s) == IF image[s] = <<>> THEN None ELSE image[s][1]
Running == Described(running)

\* An image passes its own checksum when it is all of one build.
Intact(s) == \E v \in Versions \cup {Foreign} : image[s] = Whole(v)
Selectable(e, s) == e[s] \notin {"undefined", "invalid", "aborted"} /\ Intact(s)

Fault(kind) ==
    /\ Cardinality(damage \cap FaultKinds) < MaxFaults
    /\ damage' = damage \cup {kind}

-----------------------------------------------------------------------------
\* A reset or a restart: memory is lost.
Off ==
    /\ pc' = "off"
    /\ pending' = FALSE /\ rollback' = NoAttempt /\ refused' = None
    /\ busy' = FALSE /\ trigger' = FALSE /\ asking' = FALSE /\ sent' = FALSE
    /\ manual' = FALSE /\ target' = None /\ got' = 0 /\ tries' = 0
    /\ UNCHANGED running

-----------------------------------------------------------------------------
(* Boot: the bootloader (external), then ota_init. *)

\* A pending image that is found at reset did not confirm itself.
AfterReset == [s \in Slots |-> IF entry[s] = "pending" THEN "aborted" ELSE entry[s]]

\* The preferred slot, else the other one, else the first intact image.
Choice(e) ==
    IF Selectable(e, bootSlot) THEN bootSlot
    ELSE IF Selectable(e, Other(bootSlot)) THEN Other(bootSlot)
    ELSE IF Intact(0) THEN 0 ELSE 1

Booted(e, s) == [e EXCEPT ![s] = IF @ = "new" THEN "pending" ELSE @]
Reverted == {Described(s) : s \in {t \in Slots : entry[t] = "pending"}}

\* What ota_init makes of the attempt it finds: kept while the target is
\* pending, evidence of a rollback when the source is back, otherwise stale.
Awaited(v, p) == p /\ attempt.target = v
RolledBack(v, p) == ~p /\ attempt.source = v /\ attempt.target # v
Stale(v, p) == attempt # NoAttempt /\ ~Awaited(v, p) /\ ~RolledBack(v, p)

AttemptClear ==
    \/ attempt' = NoAttempt /\ UNCHANGED damage
    \/ Fault("clear_failed") /\ UNCHANGED attempt

OtaInit(v, p) ==
    /\ pending' = p
    /\ rollback' = IF RolledBack(v, p) THEN attempt ELSE NoAttempt
    /\ IF Stale(v, p) THEN AttemptClear ELSE UNCHANGED <<attempt, damage>>

Boot ==
    /\ pc = "off"
    /\ running' = Choice(AfterReset)
    /\ entry' = Booted(AfterReset, running')
    /\ OtaInit(Described(running'), entry'[running'] = "pending")
    /\ pc' = IF pending' THEN "selftest" ELSE "wait"
    /\ gaveUp' = gaveUp \cup Reverted
    /\ unreported' = IF Reverted = {} THEN unreported
                     ELSE CHOOSE v \in Reverted : TRUE
    /\ UNCHANGED <<image, bootSlot, resume, manual, target, got, tries, refused,
                   requests, sent, world>>

-----------------------------------------------------------------------------
(* rollback_selftest *)

\* The server was reached; the image is marked valid and the attempt cleared.
\* A failure to clear it is only logged.
SelfTestPasses ==
    /\ pc = "selftest"
    /\ Running \notin Broken
    /\ entry' = [entry EXCEPT ![running] = "valid"]
    /\ AttemptClear
    /\ pending' = FALSE
    /\ pc' = "wait"
    /\ UNCHANGED <<image, bootSlot, resume, running, manual, target, got, tries,
                   refused, requests, reports, world, gaveUp, unreported>>

\* Mutant: the self-test only gives up waiting.
SelfTestGivesUp ==
    /\ pc = "selftest"
    /\ pc' = "wait"
    /\ UNCHANGED <<flash, nvs, ram, manual, target, got, tries, refused, requests,
                   reports, world, history>>

\* SELFTEST_WINDOW_MS went by: the image marks itself invalid and restarts.
\* Without another image to go back to the marking fails, and it only restarts.
SelfTestExpires ==
    /\ pc = "selftest"
    /\ Off
    /\ IF Selectable(entry, passive)
       THEN /\ entry' = [entry EXCEPT ![running] = "invalid"]
            /\ gaveUp' = gaveUp \cup {Running}
            /\ unreported' = Running
       ELSE UNCHANGED <<entry, gaveUp, unreported>>
    /\ UNCHANGED <<image, bootSlot, nvs, world, damage>>

-----------------------------------------------------------------------------
(* ota_check_now, called by the web server: s_busy is read under the lock,  *)
(* the request is queued after it was released.                             *)

AskForCheck ==
    /\ pc # "off"
    /\ ~busy /\ ~asking
    /\ asking' = TRUE
    /\ UNCHANGED <<flash, nvs, ram, task, busy, trigger, reports, world, history>>

QueueCheck ==
    /\ pc # "off"
    /\ asking
    /\ asking' = FALSE
    /\ trigger' = TRUE
    /\ UNCHANGED <<flash, nvs, ram, task, busy, reports, world, history>>

-----------------------------------------------------------------------------
(* ota_task: one cycle *)

ToTask(at) ==
    /\ pc' = at
    /\ UNCHANGED <<manual, target, got, tries, refused>>

\* The locals of a cycle end with it.
Idle(at) ==
    /\ pc' = at
    /\ manual' = FALSE /\ target' = None /\ got' = 0 /\ tries' = 0

\* s_busy is cleared and the task waits for a request or its timer.
EndCycle == busy' = FALSE /\ Idle("wait") /\ UNCHANGED refused

TakeRequest ==
    /\ pc = "wait"
    /\ manual' = trigger
    /\ trigger' = FALSE
    /\ pc' = "policy"
    /\ UNCHANGED <<flash, nvs, ram, target, got, tries, refused, busy, asking,
                   reports, world, history>>

\* Mutant: the policy is applied to requested checks as well.
DeferAny == TRUE
\* ota_policy_evaluate may defer a routine check, never a requested one.
MayDefer == ~manual
Defer ==
    /\ pc = "policy"
    /\ MayDefer
    /\ Idle("wait")
    /\ UNCHANGED <<flash, nvs, ram, refused, requests, reports, world, history>>

\* begin_cycle forgets the error of the cycle before.
Proceed ==
    /\ pc = "policy"
    /\ busy' = TRUE
    /\ refused' = None
    /\ pc' = "manifest"
    /\ UNCHANGED <<flash, nvs, ram, manual, target, got, tries, trigger, asking,
                   reports, world, history>>

\* No transport came up, or the manifest could not be read in its attempts.
CheckFails ==
    /\ pc = "manifest"
    /\ EndCycle
    /\ UNCHANGED <<flash, nvs, ram, trigger, asking, reports, world, history>>

\* run_check: not again what the bootloader has rolled back.
FailedBefore(v) == entry[passive] = "aborted" /\ Described(passive) = v

UpToDate ==
    /\ pc = "manifest"
    /\ manifest = Running \/ (pending /\ ~FailedBefore(manifest))
    /\ EndCycle
    /\ UNCHANGED <<flash, nvs, ram, trigger, asking, reports, world, history>>

Refuse ==
    /\ pc = "manifest"
    /\ manifest # Running
    /\ FailedBefore(manifest)
    /\ refused' = manifest
    /\ busy' = FALSE
    /\ Idle("wait")
    /\ UNCHANGED <<flash, nvs, ram, trigger, asking, reports, world, history>>

StartUpdate ==
    /\ pc = "manifest"
    /\ manifest # Running /\ ~FailedBefore(manifest) /\ ~pending
    /\ target' = manifest
    /\ tries' = 1
    /\ pc' = "begin"
    /\ UNCHANGED <<flash, nvs, ram, manual, got, refused, requests, reports, world,
                   history>>

-----------------------------------------------------------------------------
(* attempt_update *)

\* After a failed attempt: another one, once a transport is there again.
AttemptFails == ToTask("retry")

\* Mutant: one attempt too many.
RetryOnceMore ==
    /\ pc = "retry"
    /\ tries <= Attempts
    /\ tries' = tries + 1
    /\ pc' = "begin"
    /\ UNCHANGED <<flash, nvs, ram, manual, target, got, refused, requests, reports,
                   world, history>>

Retry ==
    /\ pc = "retry"
    /\ tries < Attempts
    /\ tries' = tries + 1
    /\ pc' = "begin"
    /\ UNCHANGED <<flash, nvs, ram, manual, target, got, refused, requests, reports,
                   world, history>>

\* The attempts are used up, or no transport came back.
GiveUp ==
    /\ pc = "retry"
    /\ EndCycle
    /\ UNCHANGED <<flash, nvs, ram, trigger, asking, reports, world, history>>

ResumeLoad ==
    IF resume.version = target /\ resume.len < Chunks THEN resume.len ELSE 0

\* The first n chunks of slot s, blank where it holds less.
Kept(s, n) == [i \in 1..n |-> IF i <= Len(image[s]) THEN image[s][i] ELSE None]

\* esp_https_ota_begin: the download goes on from the recorded offset.
BeginDownload ==
    /\ pc = "begin"
    /\ got' = ResumeLoad
    /\ image' = [image EXCEPT ![passive] = Kept(passive, ResumeLoad)]
    /\ pc' = "download"
    /\ damage' = IF entry[passive] = "aborted" THEN damage \cup {"reused"} ELSE damage
    /\ UNCHANGED <<entry, bootSlot, nvs, ram, manual, target, tries, refused, requests,
                   reports, world, gaveUp, unreported>>

BeginFails ==
    /\ pc = "begin"
    /\ AttemptFails
    /\ UNCHANGED <<flash, nvs, ram, requests, reports, world, history>>

\* The server offers an image of another size: what was kept is of no use.
SizeMismatch ==
    /\ pc = "begin"
    /\ resume' = NoResume
    /\ AttemptFails
    /\ UNCHANGED <<flash, attempt, ram, requests, reports, world, history>>

\* A range request is written to flash.  An edge cache may hold other bytes
\* under the same URL.
ReceiveChunk(bytes) ==
    /\ pc = "download"
    /\ got < Chunks
    /\ image' = [image EXCEPT ![passive] = Append(@, bytes)]
    /\ got' = got + 1
    /\ pc' = "record"
    /\ UNCHANGED <<entry, bootSlot, nvs, ram, manual, target, tries, refused, requests,
                   reports, world, history>>

RecordProgress ==
    /\ pc = "record"
    /\ resume' = [version |-> target, len |-> got]
    /\ ToTask("download")
    /\ UNCHANGED <<flash, attempt, ram, requests, reports, world, history>>

DownloadFails ==
    /\ pc = "download"
    /\ resume' = IF got > 0 THEN [version |-> target, len |-> got] ELSE resume
    /\ AttemptFails
    /\ UNCHANGED <<flash, attempt, ram, requests, reports, world, history>>

\* Mutant: the image only has to pass its own checksum.
HashOfAnyBuild == Intact(passive)
\* The hash of what is in flash against the manifest's.
HashMatches == image[passive] = Whole(target)

RejectImage ==
    /\ pc = "download"
    /\ got = Chunks
    /\ ~HashMatches
    /\ resume' = NoResume
    /\ AttemptFails
    /\ UNCHANGED <<flash, attempt, ram, requests, reports, world, history>>

\* The slot could not be read back, or esp_https_ota_finish failed.
VerifyFails ==
    /\ pc = "download"
    /\ got = Chunks
    /\ AttemptFails
    /\ UNCHANGED <<flash, nvs, ram, requests, reports, world, history>>

\* esp_https_ota_finish selects the slot for boot.
Finish ==
    /\ pc = "download"
    /\ got = Chunks
    /\ HashMatches /\ Intact(passive)
    /\ entry' = [entry EXCEPT ![passive] = "new"]
    /\ bootSlot' = passive
    /\ ToTask("finished")
    /\ UNCHANGED <<image, nvs, ram, requests, reports, world, history>>

ResumeClear ==
    /\ pc = "finished"
    /\ resume' = NoResume
    /\ ToTask("persist")
    /\ UNCHANGED <<flash, attempt, ram, requests, reports, world, history>>

-----------------------------------------------------------------------------
(* run_update, once the image is bootable *)

\* Mutant: source and target change places.
AttemptSaveSwapped ==
    /\ pc = "persist"
    /\ attempt' = [source |-> target, target |-> Running]
    /\ unreported' = None
    /\ ToTask("restart")
    /\ UNCHANGED <<flash, resume, ram, requests, reports, world, gaveUp, damage>>

\* The attempt replaces whatever was recorded before.
AttemptSave ==
    /\ pc = "persist"
    /\ attempt' = [source |-> Running, target |-> target]
    /\ unreported' = None
    /\ ToTask("restart")
    /\ UNCHANGED <<flash, resume, ram, requests, reports, world, gaveUp, damage>>

\* Without the record the running image is selected again.
AttemptSaveFails ==
    /\ pc = "persist"
    /\ Fault("save_failed")
    /\ bootSlot' = running
    /\ entry' = [entry EXCEPT ![running] = "new"]
    /\ EndCycle
    /\ UNCHANGED <<image, nvs, ram, trigger, asking, reports, world, gaveUp, unreported>>

Restart ==
    /\ pc = "restart"
    /\ Off
    /\ UNCHANGED <<flash, nvs, world, history>>

-----------------------------------------------------------------------------
(* The status event of mqtt.c that carries the evidence *)

SendEvidence ==
    /\ pc # "off"
    /\ rollback # NoAttempt /\ ~sent
    /\ sent' = TRUE
    /\ UNCHANGED <<flash, nvs, ram, task, requests, rollback, world, history>>

LoseSession ==
    /\ sent
    /\ sent' = FALSE
    /\ UNCHANGED <<flash, nvs, ram, task, requests, rollback, world, history>>

\* ota_acknowledge_rollback_evidence, from the PUBACK.
Acknowledge ==
    /\ pc # "off"
    /\ sent
    /\ sent' = FALSE
    /\ attempt' = NoAttempt
    /\ rollback' = NoAttempt
    /\ unreported' = None
    /\ IF pc = "restart" THEN Fault("late_ack") ELSE UNCHANGED damage
    /\ UNCHANGED <<flash, resume, ram, task, requests, world, gaveUp>>

AcknowledgeFails ==
    /\ pc # "off"
    /\ sent
    /\ Fault("clear_failed")
    /\ sent' = FALSE
    /\ UNCHANGED <<flash, nvs, ram, task, requests, rollback, world, gaveUp, unreported>>

-----------------------------------------------------------------------------
(* The world *)

\* Power is lost, or the board is restarted from the web page.  resume_save
\* writes its length last, so it may be cut with the length of another image.
PowerCut ==
    /\ pc # "off"
    /\ reboots < MaxReboots
    /\ reboots' = reboots + 1
    /\ \/ UNCHANGED resume
       \/ pc = "record" /\ resume' = [resume EXCEPT !.version = target]
    /\ IF pc \in {"finished", "persist"} THEN Fault("cut_unmarked") ELSE UNCHANGED damage
    /\ Off
    /\ UNCHANGED <<flash, attempt, manifest, releases, gaveUp, unreported>>

Release(v) ==
    /\ releases < MaxReleases
    /\ v # manifest
    /\ manifest' = v
    /\ releases' = releases + 1
    /\ UNCHANGED <<flash, nvs, ram, task, requests, reports, reboots, history>>

-----------------------------------------------------------------------------
SelfTest == SelfTestPasses \/ SelfTestExpires
Check == TakeRequest \/ Defer \/ Proceed \/ CheckFails \/ UpToDate \/ Refuse
         \/ StartUpdate
Download ==
    \/ BeginDownload \/ BeginFails \/ SizeMismatch
    \/ \E bytes \in {target, Foreign} : ReceiveChunk(bytes)
    \/ RecordProgress \/ DownloadFails \/ RejectImage \/ VerifyFails
    \/ Finish \/ ResumeClear \/ Retry \/ GiveUp
Install == AttemptSave \/ AttemptSaveFails \/ Restart
TaskStep == Boot \/ SelfTest \/ Check \/ Download \/ Install
Web == AskForCheck \/ QueueCheck
Mqtt == SendEvidence \/ LoseSession \/ Acknowledge \/ AcknowledgeFails
World == PowerCut \/ \E v \in Versions : Release(v)

Init ==
    /\ image = [s \in Slots |-> IF s = 0 THEN Whole(First) ELSE <<>>]
    /\ entry = [s \in Slots |-> "undefined"]
    /\ bootSlot = 0
    /\ attempt = NoAttempt /\ resume = NoResume
    /\ running = 0 /\ pending = FALSE
    /\ pc = "off" /\ manual = FALSE /\ target = None /\ got = 0 /\ tries = 0
    /\ refused = None
    /\ busy = FALSE /\ trigger = FALSE /\ asking = FALSE
    /\ rollback = NoAttempt /\ sent = FALSE
    /\ manifest \in Versions /\ reboots = 0 /\ releases = 0
    /\ gaveUp = {} /\ unreported = None /\ damage = {}

Next == TaskStep \/ Web \/ Mqtt \/ World
Spec == Init /\ [][Next]_vars

\* ota_task is scheduled and every network operation in it has a timeout, so
\* it never stays where it is.  Nothing is assumed of the network, the broker,
\* the user or the manifest.
FairSpec == Spec /\ WF_vars(TaskStep)

-----------------------------------------------------------------------------
(* Properties *)

Locations == {"off", "selftest", "wait", "policy", "manifest", "begin", "download",
              "record", "retry", "finished", "persist", "restart"}
Builds == Versions \cup {Foreign}
Attempt == [source : Builds \cup {None}, target : Versions \cup {None}]

TypeOK ==
    /\ image \in [Slots -> UNION {[1..n -> Builds \cup {None}] : n \in 0..Chunks}]
    /\ entry \in [Slots -> EntryStates]
    /\ bootSlot \in Slots /\ running \in Slots
    /\ attempt \in Attempt /\ rollback \in Attempt
    /\ resume \in [version : Versions \cup {None}, len : 0..Chunks]
    /\ pending \in BOOLEAN /\ busy \in BOOLEAN /\ trigger \in BOOLEAN
    /\ asking \in BOOLEAN /\ sent \in BOOLEAN /\ manual \in BOOLEAN
    /\ pc \in Locations
    /\ target \in Versions \cup {None} /\ refused \in Versions \cup {None}
    /\ got \in 0..Chunks /\ tries \in 0..Attempts
    /\ manifest \in Versions
    /\ reboots \in 0..MaxReboots /\ releases \in 0..MaxReleases
    /\ gaveUp \subseteq Builds /\ unreported \in Builds \cup {None}
    /\ damage \subseteq DamageKinds

\* What runs is always one build from its first byte to its last, and one of the
\* versions that were announced, whatever an edge cache served, wherever a download
\* was interrupted and resumed (ota.c:710-776).  It may be another build once the
\* board was unable to record an attempt: it then selects its own image again, as
\* one that has yet to prove itself (ota.c:824-829).
OnlyAnnouncedRuns ==
    /\ Intact(running)
    /\ "save_failed" \notin damage => \E v \in Versions : image[running] = Whole(v)

\* A rollback that the broker has not yet acknowledged, and that no later
\* attempt has replaced, is reported with the right versions after every boot
\* (ota.c:1116-1135, README.md:227-234), unless one of the faults happened.
RollbackReported ==
    pc # "off" /\ unreported # None /\ damage \subseteq {"reused"}
        => rollback = [source |-> Running, target |-> unreported]

\* A rollback is never reported of a version that was not given up, nor as
\* leading to a version that does not run, unless the attempt of an image that
\* proved itself could not be erased (ota.c:970-974) and the next one, back to
\* the first version, was cut before it replaced that record.
NoFalseRollback ==
    pc # "off" /\ rollback # NoAttempt /\ ~({"clear_failed", "cut_unmarked"} \subseteq damage)
        => rollback.target \in gaveUp /\ rollback.source = Running

\* Only a version that was rolled back is refused as such (ota.c:912-926),
\* as long as no other image was written over the one that was aborted.
RefusedWasRolledBack == refused # None => refused \in gaveUp \/ "reused" \in damage

\* What the board says of rollbacks, in status events and as the error of a check, is
\* so: each is reported until acknowledged, none is invented, no other is refused.
RollbacksToldTruly == RollbackReported /\ NoFalseRollback /\ RefusedWasRolledBack

\* README.md:182: a rolled-back version is never auto-retried.
NeverRetried == pc = "begin" /\ ~manual => target \notin gaveUp

\* The board does not stay on an image that cannot pass its self-test, unless
\* it was once unable to record an attempt (ota.c:946-992).
BrokenImageLeaves ==
    Running \in Broken ~> (Running \notin Broken \/ "save_failed" \in damage)

\* A check that was accepted is carried out, however busy the local control
\* plane is, unless the board restarts (ota.c:276-292, 1012-1073).
AcceptedCheckRuns == trigger ~> (manual /\ busy) \/ pc = "off"
=============================================================================
