------------------------- MODULE OtaLifecycleProofs -------------------------
(***************************************************************************)
(* For any versions, image size, number of attempts, power cuts, releases  *)
(* and faults, main/ota.c only ever runs images that were announced, and   *)
(* tells the truth about the rollbacks: each is reported until the broker  *)
(* has acknowledged it, and none is invented.                              *)
(***************************************************************************)
EXTENDS OtaLifecycle, TLAPS, SequenceTheorems

\* An image the manifest announced, all of it.
Trusted(s) == \E v \in Versions : image[s] = Whole(v)

\* The factory image, or one that passed its self-test.
Proven(s) == Trusted(s) /\ (entry[s] = "valid" \/ (s = 0 /\ entry[s] = "undefined"))

\* Never booted again, unless there is no other image.
Discarded(s) == entry[s] \in {"invalid", "aborted"}

\* Selected for boot, and still to prove itself.
Candidate(s) == entry[s] = "new" /\ Trusted(s)
Selected == bootSlot = passive /\ Candidate(passive)

Sealed == {"finished", "persist", "restart"}
Undamaged == damage \subseteq {"reused"}
Clean == ~({"clear_failed", "cut_unmarked"} \subseteq damage)

\* What the task has established at each place of its cycle.
TaskInv ==
    /\ pc # "off" => (pending <=> pc = "selftest")
    /\ pc \in {"begin", "download", "record", "retry"} \cup Sealed
          => target \in Versions /\ target # Running
    /\ pc \in {"download", "record"} => Len(image[passive]) = got
    /\ pc \in Sealed => /\ image[passive] = Whole(target)
                        /\ entry[passive] = "new" /\ bootSlot = passive
    /\ pc = "restart" => attempt \in {NoAttempt, [source |-> Running, target |-> target]}
    /\ pc \in {"off", "selftest"} => rollback = NoAttempt /\ ~sent
    /\ pc = "off" => refused = None

\* The slot that runs, or ran last, is intact; only it can be on trial; and the
\* other one is preferred only while it is discarded or was just selected; until
\* the first update otadata is empty.
SlotInv ==
    /\ Intact(running)
    /\ \A s \in Slots : entry[s] = "pending" => s = running /\ pc \in {"selftest", "off"}
    /\ pc = "selftest" => entry[running] = "pending"
    /\ bootSlot = passive =>
          Discarded(passive) \/ (Candidate(passive) /\ pc \in Sealed \cup {"off"})
    /\ entry[bootSlot] = "undefined" => bootSlot = 0 /\ entry[1] = "undefined"

\* Unless an attempt could not be recorded, what runs has proved itself, or is on
\* trial with a proven image to go back to.
OnTrial ==
    \/ entry[running] = "pending" /\ pc \in {"selftest", "off"}
    \/ entry[running] = "invalid" /\ pc = "off" /\ entry[passive] = "valid"
ProvenInv ==
    /\ Trusted(running)
    /\ \/ Proven(running)
       \/ Proven(passive) /\ bootSlot = running /\ OnTrial

\* An aborted image was given up, unless another was written over it.
AbortedInv ==
    \A s \in Slots : entry[s] = "aborted" =>
        /\ Described(s) \in gaveUp \/ "reused" \in damage
        /\ s = passive /\ pc \in {"download", "record"} => "reused" \in damage

\* An attempt whose target was not given up is about to boot, on trial, or left
\* over because it could not be erased.
Leftover ==
    /\ image[running] = Whole(attempt.target)
    /\ entry[running] \in {"new", "pending", "valid"}
    /\ pc = "off" => bootSlot = running \/ Discarded(passive)
    /\ pc \notin {"off", "selftest"} => "clear_failed" \in damage
Ahead ==
    /\ pc \in {"restart", "off"}
    /\ bootSlot = passive /\ entry[passive] = "new"
    /\ image[passive] = Whole(attempt.target)
AttemptInv ==
    attempt # NoAttempt =>
        /\ attempt.source # attempt.target
        /\ attempt.target \in Versions
        /\ attempt.target \in gaveUp \/ Leftover \/ Ahead

\* Without damage, the attempt names what is about to boot or on trial, and what
\* was given up since the last acknowledgement.
Recorded(s, v) == attempt = [source |-> Described(s), target |-> v]
EvidenceInv ==
    /\ pc = "restart" => unreported = None /\ Recorded(running, target)
    /\ pc = "off" /\ Selected =>
          unreported = None /\ Recorded(running, Described(passive))
    /\ entry[running] = "pending" =>
          unreported = None /\ Recorded(passive, Described(running))
    /\ entry[running] = "invalid" /\ pc = "off" =>
          unreported = Described(running) /\ Recorded(passive, Described(running))
    /\ Proven(running) /\ unreported # None => Recorded(running, unreported)
    /\ attempt # NoAttempt => attempt.source # attempt.target

\* A rollback is reported as one back to what runs.
SourceRuns == rollback # NoAttempt => rollback.source = Running

\* The inductive invariant.
IInv ==
    /\ TypeOK /\ TaskInv /\ SlotInv /\ AbortedInv
    /\ "save_failed" \notin damage => ProvenInv
    /\ Clean => AttemptInv
    /\ SourceRuns
    /\ NoFalseRollback
    /\ Undamaged => EvidenceInv
    /\ RollbackReported
    /\ RefusedWasRolledBack

-----------------------------------------------------------------------------
(* Images *)

Cells == Builds \cup {None}

\* What a slot holds is a sequence of at most Chunks labelled chunks.
LEMMA ImageType ==
    ASSUME NEW f
    PROVE  f \in UNION {[1..n -> Cells] : n \in 0..Chunks}
              <=> f \in Seq(Cells) /\ Len(f) <= Chunks
  <1> USE SizesAssumption
  <1>1. ASSUME NEW n \in 0..Chunks, f \in [1..n -> Cells]
        PROVE  f \in Seq(Cells) /\ Len(f) = n
    <2>1. n \in Nat
      OBVIOUS
    <2> QED
      BY <1>1, <2>1
  <1>2. ASSUME f \in Seq(Cells), Len(f) <= Chunks
        PROVE  Len(f) \in 0..Chunks /\ f \in [1..Len(f) -> Cells]
    BY <1>2, LenProperties
  <1> QED
    BY <1>1, <1>2

\* A whole image is described by its version, and differs from that of any other.
LEMMA WholeImage ==
    ASSUME NEW v
    PROVE  /\ Whole(v) # <<>> /\ Whole(v)[1] = v
           /\ \A w : Whole(w) = Whole(v) => w = v
           /\ v \in Cells => Whole(v) \in Seq(Cells) /\ Len(Whole(v)) = Chunks
  <1> USE SizesAssumption
  <1>1. 1 \in 1..Chunks /\ Chunks \in Nat
    OBVIOUS
  <1>2. \A w : Whole(w)[1] = w
    BY <1>1 DEF Whole
  <1>3. Whole(v) # <<>>
    <2>1. DOMAIN Whole(v) = 1..Chunks
      BY DEF Whole
    <2>2. DOMAIN <<>> = {}
      OBVIOUS
    <2> QED
      BY <1>1, <2>1, <2>2
  <1>4. v \in Cells => Whole(v) \in Seq(Cells) /\ Len(Whole(v)) = Chunks
    <2>1. v \in Cells => Whole(v) \in [1..Chunks -> Cells]
      BY DEF Whole
    <2> QED
      BY <1>1, <2>1
  <1> QED
    BY <1>2, <1>3, <1>4

\* An intact image is described by the build it is made of.
LEMMA IntactDescribed ==
    ASSUME NEW s
    PROVE  /\ Intact(s) => Described(s) \in Builds /\ image[s] = Whole(Described(s))
           /\ Trusted(s) => Described(s) \in Versions /\ image[s] = Whole(Described(s)) /\ Intact(s)
           /\ \A v : image[s] = Whole(v) => Described(s) = v
  BY WholeImage DEF Intact, Trusted, Described, Builds

\* Whatever a slot holds, its description is a build or nothing.
LEMMA DescribedType ==
    ASSUME TypeOK, NEW s \in Slots
    PROVE  Described(s) \in Cells
  <1>1. image[s] \in Seq(Cells)
    <2>1. image[s] \in UNION {[1..n -> Cells] : n \in 0..Chunks}
      BY DEF TypeOK, Cells
    <2> QED
      BY <2>1, ImageType
  <1>2. image[s] # <<>> => 1 \in 1..Len(image[s])
    BY <1>1, EmptySeq, LenProperties
  <1> QED
    BY <1>1, <1>2, ElementOfSeq DEF Described, Cells

\* The two slots.
LEMMA TwoSlots ==
    ASSUME NEW s \in Slots
    PROVE  /\ Other(s) \in Slots /\ Other(s) # s /\ Other(Other(s)) = s
           /\ \A t \in Slots : t = s \/ t = Other(s)
  BY DEF Slots, Other

-----------------------------------------------------------------------------
(* Steps that leave the flash, the attempt and the evidence as they are. *)

Quiet ==
    /\ UNCHANGED <<flash, attempt, ram, rollback, history>>
    /\ \/ UNCHANGED <<pc, target, got>>
       \/ pc \notin {"off", "selftest"} \cup Sealed /\ pc' \notin {"off", "selftest"} \cup Sealed
    /\ pc' \in {"download", "record"} => pc \in {"download", "record"} /\ UNCHANGED got
    /\ sent' => sent \/ rollback # NoAttempt
    /\ refused' \in {None, refused}
          \/ (refused' = Described(passive) /\ entry[passive] = "aborted" /\ pc # "off")
    /\ pc' \in {"begin", "download", "record", "retry"} =>
          \/ target' = target /\ pc \in {"begin", "download", "record", "retry"}
          \/ target' \in Versions /\ target' # Running

QuietStep ==
    \/ AskForCheck \/ QueueCheck
    \/ TakeRequest \/ Defer \/ Proceed \/ CheckFails \/ UpToDate \/ Refuse \/ StartUpdate
    \/ BeginFails \/ SizeMismatch \/ RecordProgress \/ DownloadFails \/ RejectImage
    \/ VerifyFails \/ Retry \/ GiveUp
    \/ SendEvidence \/ LoseSession \/ (\E v \in Versions : Release(v))
    \/ UNCHANGED vars

\* Everything the web server, the broker's answers and the cycle up to the
\* download do is such a step.
LEMMA QuietSteps ==
    ASSUME TypeOK, QuietStep
    PROVE  Quiet
  <1> USE DEF Quiet, Sealed
  <1>1. CASE AskForCheck \/ QueueCheck
    BY <1>1 DEF AskForCheck, QueueCheck, nvs, task, reports
  <1>2. CASE TakeRequest \/ Defer \/ Proceed
    BY <1>2 DEF TakeRequest, Defer, Proceed, Idle, nvs, requests, reports
  <1>3. CASE CheckFails \/ UpToDate
    BY <1>3 DEF CheckFails, UpToDate, EndCycle, Idle, nvs, reports
  <1>4. CASE Refuse
    BY <1>4 DEF Refuse, FailedBefore, Idle, nvs, reports
  <1>5. CASE StartUpdate
    BY <1>5 DEF StartUpdate, nvs, reports, TypeOK
  <1>6. CASE BeginFails \/ SizeMismatch \/ Retry \/ GiveUp
    BY <1>6 DEF BeginFails, SizeMismatch, Retry, GiveUp, AttemptFails, ToTask, EndCycle, Idle,
       nvs, reports
  <1>7. CASE RecordProgress \/ DownloadFails \/ RejectImage \/ VerifyFails
    BY <1>7 DEF RecordProgress, DownloadFails, RejectImage, VerifyFails, AttemptFails, ToTask,
       nvs, reports
  <1>8. CASE SendEvidence \/ LoseSession
    BY <1>8 DEF SendEvidence, LoseSession, nvs, task
  <1>9. CASE \E v \in Versions : Release(v)
    BY <1>9 DEF Release, nvs, task, reports
  <1>10. CASE UNCHANGED vars
    BY <1>10 DEF vars, nvs, task, reports
  <1> QED
    BY <1>1, <1>2, <1>3, <1>4, <1>5, <1>6, <1>7, <1>8, <1>9, <1>10 DEF QuietStep

\* The steps there are.
LEMMA NextCases ==
    ASSUME [Next]_vars
    PROVE  \/ QuietStep \/ Boot \/ SelfTestPasses \/ SelfTestExpires
           \/ BeginDownload \/ (\E bytes \in {target, Foreign} : ReceiveChunk(bytes))
           \/ Finish \/ ResumeClear \/ AttemptSave \/ AttemptSaveFails \/ Restart
           \/ Acknowledge \/ AcknowledgeFails \/ PowerCut
  BY Zenon DEF Next, TaskStep, SelfTest, Check, Download, Install, Web, Mqtt, World, QuietStep

-----------------------------------------------------------------------------
(* Types *)

\* Nothing the bootloader finds makes it prefer a slot that is not there.
LEMMA ChoiceType ==
    ASSUME TypeOK, NEW e
    PROVE  Choice(e) \in Slots
  BY TwoSlots DEF Choice, TypeOK, Slots

\* Every step keeps every variable in its type.
LEMMA TypeStep ==
    ASSUME TypeOK, TaskInv, SlotInv, [Next]_vars
    PROVE  TypeOK'
  <1> USE VersionsAssumption, SizesAssumption, BoundsAssumption
  <1>0. /\ NoAttempt \in Attempt /\ NoResume \in [version : Versions \cup {None}, len : 0..Chunks]
        /\ 0 \in 0..Chunks /\ 0 \in 0..Attempts
    BY DEF NoAttempt, NoResume, Attempt
  <1>a. Running \in Cells
    BY DescribedType DEF Running, TypeOK
  <1>b. passive \in Slots
    BY TwoSlots DEF passive, TypeOK
  <1>1. CASE QuietStep
    <2>1. Quiet
      BY <1>1, QuietSteps
    <2>2. /\ image' \in [Slots -> UNION {[1..n -> Builds \cup {None}] : n \in 0..Chunks}]
          /\ entry' \in [Slots -> EntryStates] /\ bootSlot' \in Slots /\ running' \in Slots
          /\ attempt' \in Attempt /\ rollback' \in Attempt /\ pending' \in BOOLEAN
          /\ gaveUp' \subseteq Builds /\ unreported' \in Builds \cup {None}
          /\ damage' \subseteq DamageKinds
      BY <2>1 DEF Quiet, TypeOK, flash, ram, history
    <2>3. /\ pc' \in Locations /\ resume' \in [version : Versions \cup {None}, len : 0..Chunks]
          /\ target' \in Versions \cup {None} /\ refused' \in Versions \cup {None}
          /\ got' \in 0..Chunks /\ tries' \in 0..Attempts /\ manual' \in BOOLEAN
      <3>1. CASE AskForCheck \/ QueueCheck \/ SendEvidence \/ LoseSession
                 \/ (\E v \in Versions : Release(v)) \/ UNCHANGED vars
        BY <3>1 DEF TypeOK, AskForCheck, QueueCheck, SendEvidence, LoseSession, Release, vars,
           nvs, task, Locations
      <3>2. CASE TakeRequest \/ Defer
        BY <1>0, <3>2 DEF TypeOK, TakeRequest, Defer, Idle, nvs, requests, Locations
      <3>6. CASE Proceed
        BY <3>6 DEF TypeOK, Proceed, nvs, Locations
      <3>3. CASE CheckFails \/ UpToDate
        BY <1>0, <3>3 DEF TypeOK, CheckFails, UpToDate, EndCycle, Idle, nvs, Locations
      <3>7. CASE Refuse
        BY <1>0, <3>7 DEF TypeOK, Refuse, Idle, nvs, Locations
      <3>8. CASE StartUpdate
        BY <3>8 DEF TypeOK, StartUpdate, nvs, Locations
      <3>4. CASE BeginFails \/ SizeMismatch
        BY <1>0, <3>4 DEF TypeOK, BeginFails, SizeMismatch, AttemptFails, ToTask, nvs, Locations
      <3>9. CASE Retry
        BY <3>9 DEF TypeOK, Retry, nvs, Locations
      <3>10. CASE GiveUp
        BY <1>0, <3>10 DEF TypeOK, GiveUp, EndCycle, Idle, nvs, Locations
      <3>5. CASE RecordProgress \/ DownloadFails \/ RejectImage \/ VerifyFails
        BY <1>0, <3>5 DEF TypeOK, RecordProgress, DownloadFails, RejectImage, VerifyFails,
           AttemptFails, ToTask, nvs, Locations
      <3> QED
        BY <1>1, <3>1, <3>2, <3>3, <3>4, <3>5, <3>6, <3>7, <3>8, <3>9,
           <3>10 DEF QuietStep
    <2>4. /\ busy' \in BOOLEAN /\ trigger' \in BOOLEAN /\ asking' \in BOOLEAN /\ sent' \in BOOLEAN
          /\ manifest' \in Versions /\ reboots' \in 0..MaxReboots
          /\ releases' \in 0..MaxReleases
      <3>1. CASE AskForCheck \/ QueueCheck
        BY <3>1 DEF TypeOK, AskForCheck, QueueCheck, reports, world
      <3>8. CASE SendEvidence \/ LoseSession
        BY <3>8 DEF TypeOK, SendEvidence, LoseSession, requests, world
      <3>9. CASE \E v \in Versions : Release(v)
        BY <3>9 DEF TypeOK, Release, requests, reports
      <3>10. CASE UNCHANGED vars
        BY <3>10 DEF TypeOK, vars, requests, reports, world
      <3>2. CASE TakeRequest
        BY <3>2 DEF TypeOK, TakeRequest, requests, reports, world
      <3>6. CASE Defer
        BY <3>6 DEF TypeOK, Defer, requests, reports, world
      <3>7. CASE Proceed
        BY <3>7 DEF TypeOK, Proceed, requests, reports, world
      <3>3. CASE CheckFails \/ UpToDate \/ Refuse \/ StartUpdate
        BY <3>3 DEF TypeOK, CheckFails, UpToDate, Refuse, StartUpdate, EndCycle, requests,
           reports, world
      <3>4. CASE BeginFails \/ SizeMismatch \/ Retry \/ GiveUp
        BY <3>4 DEF TypeOK, BeginFails, SizeMismatch, Retry, GiveUp, EndCycle, requests, reports,
           world
      <3>5. CASE RecordProgress \/ DownloadFails \/ RejectImage \/ VerifyFails
        BY <3>5 DEF TypeOK, RecordProgress, DownloadFails, RejectImage, VerifyFails, requests,
           reports, world
      <3> QED
        BY <1>1, <3>1, <3>2, <3>3, <3>4, <3>5, <3>6, <3>7, <3>8, <3>9,
           <3>10 DEF QuietStep
    <2> QED
      BY <2>2, <2>3, <2>4 DEF TypeOK
  <1>2. CASE Boot
    <2>1. running' \in Slots /\ pc = "off"
      BY <1>2, ChoiceType DEF Boot
    <2>2. AfterReset \in [Slots -> EntryStates]
      BY DEF AfterReset, TypeOK, EntryStates
    <2>3. entry' \in [Slots -> EntryStates]
      BY <1>2, <2>1, <2>2 DEF Boot, Booted, EntryStates
    <2>4. Reverted \subseteq Builds
      <3>1. \A s \in Slots : entry[s] = "pending" => Described(s) \in Builds
        BY IntactDescribed DEF SlotInv
      <3> QED
        BY <3>1 DEF Reverted
    <2>5. gaveUp' \subseteq Builds /\ unreported' \in Builds \cup {None}
      <3>1. Reverted # {} => (CHOOSE v \in Reverted : TRUE) \in Reverted
        OBVIOUS
      <3> QED
        BY <1>2, <2>4, <3>1 DEF Boot, TypeOK
    <2>6. pending' \in BOOLEAN /\ rollback' \in Attempt
      <3>1. pending' = (entry'[running'] = "pending")
        BY <1>2, Zenon DEF Boot, OtaInit
      <3>2. rollback' \in {attempt, NoAttempt}
        BY <1>2, Zenon DEF Boot, OtaInit
      <3> QED
        BY <1>0, <3>1, <3>2 DEF TypeOK
    <2>7. attempt' \in Attempt /\ damage' \subseteq DamageKinds
      <3>1. attempt' \in {attempt, NoAttempt} /\ damage' \in {damage, damage \cup {"clear_failed"}}
        BY <1>2, Zenon DEF Boot, OtaInit, AttemptClear, Fault
      <3> QED
        BY <1>0, <3>1 DEF TypeOK, DamageKinds, FaultKinds
    <2>8. pc' \in Locations
      BY <1>2 DEF Boot, Locations
    <2>9. UNCHANGED <<image, bootSlot, resume, manual, target, got, tries, refused, requests, sent,
                      world>>
      BY <1>2 DEF Boot
    <2> QED
      BY <2>1, <2>3, <2>5, <2>6, <2>7, <2>8, <2>9 DEF TypeOK, requests, world
  <1>3. CASE SelfTestPasses
    <2>1. /\ attempt' \in {attempt, NoAttempt} /\ damage' \in {damage, damage \cup {"clear_failed"}}
          /\ entry' = [entry EXCEPT ![running] = "valid"] /\ pc' = "wait" /\ pending' = FALSE
          /\ UNCHANGED <<image, bootSlot, resume, running, manual, target, got, tries, refused,
                         requests, reports, world, gaveUp, unreported>>
      BY <1>3, Zenon DEF SelfTestPasses, AttemptClear, Fault
    <2>2. attempt' \in Attempt /\ damage' \subseteq DamageKinds
      BY <1>0, <2>1 DEF TypeOK, DamageKinds, FaultKinds
    <2>3. entry' \in [Slots -> EntryStates] /\ pc' \in Locations /\ pending' \in BOOLEAN
      BY <2>1 DEF TypeOK, EntryStates, Locations
    <2> QED
      BY <2>1, <2>2, <2>3 DEF TypeOK, requests, reports, world
  \* A reset leaves only what is in flash.
  <1>a1. ASSUME Off
         PROVE  /\ pc' \in Locations /\ pending' \in BOOLEAN /\ rollback' \in Attempt
                /\ refused' \in Versions \cup {None} /\ busy' \in BOOLEAN /\ trigger' \in BOOLEAN
                /\ asking' \in BOOLEAN /\ sent' \in BOOLEAN /\ manual' \in BOOLEAN
                /\ target' \in Versions \cup {None} /\ got' \in 0..Chunks /\ tries' \in 0..Attempts
                /\ running' \in Slots
    BY <1>0, <1>a1 DEF Off, Locations, TypeOK
  <1>4. CASE SelfTestExpires
    <2>1. Running \in Builds
      BY IntactDescribed DEF SlotInv, Running
    <2>2. /\ entry' \in [Slots -> EntryStates] /\ gaveUp' \subseteq Builds
          /\ unreported' \in Builds \cup {None}
      BY <1>4, <2>1 DEF SelfTestExpires, TypeOK, EntryStates
    <2>3. Off /\ UNCHANGED <<image, bootSlot, nvs, world, damage>>
      BY <1>4 DEF SelfTestExpires
    <2>4. /\ UNCHANGED <<image, bootSlot, attempt, resume, manifest, reboots, releases, damage>>
      BY <2>3 DEF nvs, world
    <2> QED
      BY <1>a1, <2>2, <2>3, <2>4 DEF TypeOK
  <1>5. CASE BeginDownload
    <2>1. ResumeLoad \in 0..Chunks
      BY DEF ResumeLoad, TypeOK
    <2>2. Kept(passive, ResumeLoad) \in [1..ResumeLoad -> Cells]
      <3>1. image[passive] \in Seq(Cells)
        BY <1>b, ImageType DEF TypeOK, Cells
      <3>2. \A i \in 1..ResumeLoad : i <= Len(image[passive]) => image[passive][i] \in Cells
        BY <2>1, <3>1, ElementOfSeq, LenProperties
      <3> QED
        BY <3>2 DEF Kept, Cells
    <2>3. image' \in [Slots -> UNION {[1..n -> Cells] : n \in 0..Chunks}]
      <3>1. Kept(passive, ResumeLoad) \in UNION {[1..n -> Cells] : n \in 0..Chunks}
        BY <2>1, <2>2
      <3>2. image \in [Slots -> UNION {[1..n -> Cells] : n \in 0..Chunks}]
        BY DEF TypeOK, Cells
      <3>3. image' = [image EXCEPT ![passive] = Kept(passive, ResumeLoad)]
        BY <1>5 DEF BeginDownload
      <3> QED
        BY <3>1, <3>2, <3>3, Zenon
    <2>4. /\ got' = ResumeLoad /\ pc' = "download"
          /\ damage' \in {damage, damage \cup {"reused"}}
          /\ UNCHANGED <<entry, bootSlot, nvs, ram, manual, target, tries, refused, requests,
                         reports, world, gaveUp, unreported>>
      BY <1>5, Zenon DEF BeginDownload
    <2> QED
      BY <2>1, <2>3, <2>4 DEF TypeOK, Cells, DamageKinds, Locations, nvs, ram, requests, reports,
         world
  <1>6. CASE \E bytes \in {target, Foreign} : ReceiveChunk(bytes)
    <2>1. PICK bytes \in {target, Foreign} : ReceiveChunk(bytes)
      BY <1>6
    <2>2. bytes \in Cells
      BY <2>1 DEF TypeOK, Cells, Builds
    <2>3. /\ image[passive] \in Seq(Cells) /\ Len(image[passive]) < Chunks /\ got + 1 \in 0..Chunks
      <3>1. image[passive] \in Seq(Cells)
        BY <1>b, ImageType DEF TypeOK, Cells
      <3>2. pc = "download" /\ got < Chunks
        BY <2>1 DEF ReceiveChunk
      <3> QED
        BY <3>1, <3>2 DEF TaskInv, TypeOK
    <2>4. Append(image[passive], bytes) \in UNION {[1..n -> Cells] : n \in 0..Chunks}
      <3>1. /\ Append(image[passive], bytes) \in Seq(Cells)
            /\ Len(Append(image[passive], bytes)) = Len(image[passive]) + 1
        BY <2>2, <2>3, AppendProperties
      <3>2. Len(image[passive]) + 1 <= Chunks
        BY <2>3, LenProperties
      <3> QED
        BY <3>1, <3>2, ImageType
    <2>5. image' \in [Slots -> UNION {[1..n -> Cells] : n \in 0..Chunks}]
      <3>1. image \in [Slots -> UNION {[1..n -> Cells] : n \in 0..Chunks}]
        BY DEF TypeOK, Cells
      <3>2. image' = [image EXCEPT ![passive] = Append(image[passive], bytes)]
        BY <2>1 DEF ReceiveChunk
      <3> QED
        BY <2>4, <3>1, <3>2, Zenon
    <2>6. /\ got' = got + 1 /\ pc' = "record"
          /\ UNCHANGED <<entry, bootSlot, nvs, ram, manual, target, tries, refused, requests,
                         reports, world, history>>
      BY <2>1, Zenon DEF ReceiveChunk
    <2> QED
      BY <2>3, <2>5, <2>6 DEF TypeOK, Cells, Locations, nvs, ram, requests, reports, world, history
  <1>7. CASE Finish
    BY <1>7, <1>b DEF Finish, ToTask, TypeOK, EntryStates, Locations, nvs, ram, requests, reports,
       world, history
  <1>8. CASE ResumeClear
    BY <1>0, <1>8 DEF ResumeClear, ToTask, TypeOK, Locations, flash, ram, requests, reports, world,
       history
  <1>9. CASE AttemptSave
    <2>1. [source |-> Running, target |-> target] \in Attempt
      BY <1>a DEF Attempt, TypeOK, Cells
    <2> QED
      BY <1>9, <2>1 DEF AttemptSave, ToTask, TypeOK, Locations, flash, ram, requests, reports, world
  <1>10. CASE AttemptSaveFails
    BY <1>0, <1>10 DEF AttemptSaveFails, Fault, EndCycle, Idle, TypeOK, EntryStates, Locations,
       DamageKinds, FaultKinds, nvs, ram, reports, world
  <1>11. CASE Restart
    BY <1>a1, <1>11 DEF Restart, TypeOK, flash, nvs, world, history
  <1>12. CASE Acknowledge
    BY <1>0, <1>12 DEF Acknowledge, Fault, TypeOK, DamageKinds, FaultKinds, flash, ram, task,
       requests, world
  <1>13. CASE AcknowledgeFails
    BY <1>13 DEF AcknowledgeFails, Fault, TypeOK, DamageKinds, FaultKinds, flash, nvs, ram, task,
       requests, world
  <1>14. CASE PowerCut
    <2>1. /\ Off /\ reboots < MaxReboots /\ reboots' = reboots + 1
          /\ resume' = resume \/ resume' = [resume EXCEPT !.version = target]
          /\ damage' \in {damage, damage \cup {"cut_unmarked"}}
          /\ UNCHANGED <<flash, attempt, manifest, releases, gaveUp, unreported>>
      BY <1>14, Zenon DEF PowerCut, Fault
    <2>2. resume' \in [version : Versions \cup {None}, len : 0..Chunks]
      BY <2>1 DEF TypeOK
    <2>3. reboots' \in 0..MaxReboots /\ damage' \subseteq DamageKinds
      BY <2>1 DEF TypeOK, DamageKinds, FaultKinds
    <2>4. UNCHANGED <<image, entry, bootSlot, attempt, manifest, releases, gaveUp, unreported>>
      BY <2>1 DEF flash
    <2> QED
      BY <1>a1, <2>1, <2>2, <2>3, <2>4 DEF TypeOK
  <1> QED
    BY <1>1, <1>2, <1>3, <1>4, <1>5, <1>6, <1>7, <1>8, <1>9, <1>10, <1>11, <1>12, <1>13, <1>14,
       NextCases

-----------------------------------------------------------------------------
(* What the bootloader makes of the slots. *)

\* The bootloader selects an intact image that is new or valid.
LEMMA SelectableAfterReset ==
    ASSUME TypeOK, NEW s \in Slots
    PROVE  Selectable(AfterReset, s) <=> entry[s] \in {"new", "valid"} /\ Intact(s)
  <1>1. AfterReset[s] = IF entry[s] = "pending" THEN "aborted" ELSE entry[s]
    BY DEF AfterReset
  <1>2. entry[s] \in EntryStates
    BY DEF TypeOK
  <1> QED
    BY <1>1, <1>2 DEF Selectable, EntryStates

\* Which slot boots: the one last run while it is still good, the candidate once
\* it was selected, and the proven other one when the one last run has failed.
LEMMA BootChoice ==
    ASSUME TypeOK, SlotInv, NEW s, s = Choice(AfterReset)
    PROVE  /\ s \in Slots /\ Intact(s) /\ s \in {running, passive}
           /\ entry[running] \in {"new", "valid"} /\ (bootSlot = running \/ Discarded(passive))
              => s = running
           /\ bootSlot = passive /\ Candidate(passive)
              => s = passive
           /\ /\ bootSlot = running /\ Proven(passive)
              /\ entry[running] \in {"pending", "invalid", "aborted"}
              => s = passive
           /\ /\ Proven(running) /\ entry[running] = "undefined"
              => s = running \/ Selected
           /\ s # bootSlot => entry[bootSlot] \in {"pending", "invalid", "aborted"}
  <1>1. /\ running \in Slots /\ passive \in Slots /\ running # passive /\ Other(passive) = running
        /\ bootSlot \in {running, passive} /\ \A t \in Slots : t \in {running, passive}
    BY TwoSlots DEF TypeOK, passive
  <1>2. \A t \in Slots : Selectable(AfterReset, t) <=> entry[t] \in {"new", "valid"} /\ Intact(t)
    BY SelectableAfterReset
  <1>3. Intact(running)
    BY DEF SlotInv
  <1>4. \A t \in Slots : Proven(t) => Intact(t) /\ entry[t] \in {"valid", "undefined"}
                                     /\ (entry[t] = "undefined" => t = 0)
    BY IntactDescribed DEF Proven
  <1>5. Candidate(passive) => Intact(passive) /\ entry[passive] = "new"
    BY IntactDescribed DEF Candidate
  <1>6. Discarded(passive) => ~Selectable(AfterReset, passive)
    BY <1>1, <1>2 DEF Discarded
  <1> DEFINE rest == IF Intact(0) THEN 0 ELSE 1
  <1>7. /\ Selectable(AfterReset, bootSlot) => s = bootSlot
        /\ ~Selectable(AfterReset, bootSlot) /\ Selectable(AfterReset, Other(bootSlot))
              => s = Other(bootSlot)
        /\ ~Selectable(AfterReset, bootSlot) /\ ~Selectable(AfterReset, Other(bootSlot))
              => s = rest
    <2>1. ASSUME Selectable(AfterReset, bootSlot) PROVE s = bootSlot
      BY <1>1, <1>2, <2>1 DEF Choice
    <2>2. ASSUME ~Selectable(AfterReset, bootSlot), Selectable(AfterReset, Other(bootSlot))
          PROVE  s = Other(bootSlot)
      BY <2>2 DEF Choice
    <2>3. ASSUME ~Selectable(AfterReset, bootSlot), ~Selectable(AfterReset, Other(bootSlot))
          PROVE  s = rest
      BY <2>3 DEF Choice
    <2> QED
      BY <2>1, <2>2, <2>3
  <1>8. rest \in Slots /\ Intact(rest) /\ (Intact(0) => rest = 0)
    BY <1>1, <1>3 DEF Slots
  <1>9. Other(bootSlot) \in Slots /\ Other(running) = passive
    BY <1>1, TwoSlots DEF passive
  <1> HIDE DEF rest
  <1>10. s \in Slots /\ Intact(s) /\ s \in {running, passive}
    BY <1>1, <1>2, <1>7, <1>8, <1>9
  <1>11. entry[running] \in {"new", "valid"} /\ (bootSlot = running \/ Discarded(passive))
            => s = running
    BY <1>1, <1>2, <1>3, <1>6, <1>7
  <1>12. bootSlot = passive /\ Candidate(passive) => s = passive
    BY <1>1, <1>2, <1>5, <1>7
  <1>13. bootSlot = running /\ Proven(passive) /\ entry[running] \in {"pending", "invalid", "aborted"}
            => s = passive
    BY <1>1, <1>2, <1>4, <1>7, <1>8, <1>9
  <1>14. ASSUME entry[bootSlot] = "undefined"
         PROVE  s = bootSlot
    <2>1. bootSlot = running /\ running = 0 /\ entry[passive] = "undefined"
      <3>1. bootSlot = 0 /\ entry[1] = "undefined"
        BY <1>14 DEF SlotInv
      <3>2. bootSlot # passive
        BY <1>14 DEF SlotInv, Discarded, Candidate
      <3>3. bootSlot = running
        BY <1>1, <3>2
      <3>4. passive = 1
        BY <3>1, <3>3, <1>1 DEF Slots
      <3> QED
        BY <3>1, <3>3, <3>4
    <2>2. ~Selectable(AfterReset, running) /\ ~Selectable(AfterReset, passive)
      BY <1>1, <1>2, <1>14, <2>1
    <2>3. rest = 0
      BY <1>3, <1>8, <2>1
    <2> QED
      BY <1>7, <1>9, <2>1, <2>2, <2>3
  <1>15. s # bootSlot => entry[bootSlot] \in {"pending", "invalid", "aborted"}
    <2>1. ~Selectable(AfterReset, bootSlot) => entry[bootSlot] \notin {"new", "valid"}
      <3>1. CASE bootSlot = running
        BY <1>1, <1>2, <1>3, <3>1
      <3>2. CASE bootSlot = passive
        <4>1. Discarded(passive) \/ Candidate(passive)
          BY <3>2 DEF SlotInv
        <4> QED
          BY <1>1, <1>2, <1>5, <3>2, <4>1 DEF Discarded
      <3> QED
        BY <1>1, <3>1, <3>2
    <2>2. entry[bootSlot] \in EntryStates
      BY DEF TypeOK
    <2> QED
      BY <1>7, <1>14, <2>1, <2>2 DEF EntryStates
  <1>16. ASSUME Proven(running), entry[running] = "undefined"
         PROVE  s = running \/ Selected
    <2>1. CASE bootSlot = running
      BY <1>14, <1>16, <2>1
    <2>2. CASE bootSlot = passive
      <3>1. CASE Discarded(passive)
        <4>1. ~Selectable(AfterReset, running) /\ ~Selectable(AfterReset, passive)
          BY <1>1, <1>2, <1>6, <1>16, <3>1
        <4>2. running = 0 /\ rest = 0
          BY <1>1, <1>4, <1>8, <1>16
        <4> QED
          BY <1>7, <1>1, <2>2, <4>1, <4>2
      <3>2. CASE Candidate(passive)
        BY <2>2, <3>2 DEF Selected
      <3> QED
        BY <2>2, <3>1, <3>2 DEF SlotInv
    <2> QED
      BY <1>1, <2>1, <2>2
  <1> QED
    BY <1>10, <1>11, <1>12, <1>13, <1>15, <1>16

\* What a boot does to the slots: a trial that is found is over, the image that
\* is new goes on trial, and nothing else changes.
LEMMA BootFacts ==
    ASSUME TypeOK, SlotInv, Boot
    PROVE  /\ pc = "off" /\ running' = Choice(AfterReset) /\ running' \in Slots
           /\ UNCHANGED <<image, bootSlot>>
           /\ \A t \in Slots : entry'[t] =
                 IF t = running' /\ entry[t] = "new" THEN "pending"
                 ELSE IF entry[t] = "pending" THEN "aborted" ELSE entry[t]
           /\ pending' <=> entry[running'] = "new"
           /\ pc' = IF entry[running'] = "new" THEN "selftest" ELSE "wait"
           /\ Reverted = IF entry[running] = "pending" THEN {Described(running)} ELSE {}
           /\ gaveUp' = gaveUp \cup Reverted
  <1>1. /\ pc = "off" /\ running' = Choice(AfterReset) /\ UNCHANGED <<image, bootSlot>>
        /\ entry' = Booted(AfterReset, running') /\ gaveUp' = gaveUp \cup Reverted
        /\ pending' = (entry'[running'] = "pending")
        /\ pc' = IF pending' THEN "selftest" ELSE "wait"
    BY Zenon DEF Boot, OtaInit
  <1>2. running' \in Slots
    BY <1>1, ChoiceType
  <1>3. \A t \in Slots : AfterReset[t] = IF entry[t] = "pending" THEN "aborted" ELSE entry[t]
    BY DEF AfterReset
  <1>4. \A t \in Slots : entry'[t] =
           IF t = running' /\ AfterReset[t] = "new" THEN "pending" ELSE AfterReset[t]
    BY <1>1, <1>2 DEF Booted, AfterReset
  <1>5. \A t \in Slots : entry'[t] =
           IF t = running' /\ entry[t] = "new" THEN "pending"
           ELSE IF entry[t] = "pending" THEN "aborted" ELSE entry[t]
    BY <1>3, <1>4
  <1>6. entry'[running'] = "pending" <=> entry[running'] = "new"
    BY <1>2, <1>5
  <1>7. pending' <=> entry[running'] = "new"
    BY <1>1, <1>6, Zenon
  <1>8. pc' = IF entry[running'] = "new" THEN "selftest" ELSE "wait"
    BY <1>1, <1>7, Zenon
  <1>9. Reverted = IF entry[running] = "pending" THEN {Described(running)} ELSE {}
    <2>1. \A s \in Slots : entry[s] = "pending" => s = running
      BY DEF SlotInv
    <2>2. running \in Slots
      BY DEF TypeOK
    <2> QED
      BY <2>1, <2>2 DEF Reverted
  <1> QED
    BY <1>1, <1>2, <1>5, <1>7, <1>8, <1>9

-----------------------------------------------------------------------------
(* The invariant is inductive, one of its parts at a time. *)

\* The slot that runs and the one that does not.
LEMMA RunningPassive ==
    ASSUME TypeOK
    PROVE  /\ running \in Slots /\ passive \in Slots /\ running # passive
           /\ Other(running) = passive /\ Other(passive) = running
           /\ \A t \in Slots : t = running \/ t = passive
           /\ bootSlot \in Slots
  BY TwoSlots DEF TypeOK, passive

\* A chunk that is received, and what a download starts from, go to the slot that
\* does not run, behind what is counted.
LEMMA DownloadFacts ==
    ASSUME TypeOK, TaskInv,
           BeginDownload \/ \E bytes \in {target, Foreign} : ReceiveChunk(bytes)
    PROVE  /\ pc \in {"begin", "download"} /\ pc' \in {"download", "record"}
           /\ image'[running] = image[running] /\ Len(image'[passive]) = got'
           /\ damage' = damage \/ (damage' = damage \cup {"reused"})
           /\ (entry[passive] = "aborted" /\ pc = "begin") => "reused" \in damage'
           /\ UNCHANGED <<entry, bootSlot, attempt, running, pending, target, refused, rollback,
                          sent, gaveUp, unreported>>
  <1>1. /\ running \in Slots /\ passive \in Slots /\ running # passive
        /\ image \in [Slots -> UNION {[1..n -> Cells] : n \in 0..Chunks}]
    BY RunningPassive DEF TypeOK, Cells
  <1>2. CASE BeginDownload
    <2>1. image' = [image EXCEPT ![passive] = Kept(passive, ResumeLoad)] /\ got' = ResumeLoad
      BY <1>2 DEF BeginDownload
    <2>2. ResumeLoad \in Nat
      BY SizesAssumption DEF ResumeLoad, TypeOK
    <2>3. Len(Kept(passive, ResumeLoad)) = ResumeLoad
      BY <2>2 DEF Kept
    <2>4. image'[running] = image[running] /\ image'[passive] = Kept(passive, ResumeLoad)
      BY <1>1, <2>1
    <2>5. /\ pc = "begin" /\ pc' = "download"
          /\ damage' = IF entry[passive] = "aborted" THEN damage \cup {"reused"} ELSE damage
          /\ UNCHANGED <<entry, bootSlot, attempt, running, pending, target, refused, rollback,
                         sent, gaveUp, unreported>>
      BY <1>2 DEF BeginDownload, nvs, ram, reports
    <2> QED
      BY <2>1, <2>3, <2>4, <2>5
  <1>3. CASE \E bytes \in {target, Foreign} : ReceiveChunk(bytes)
    <2>1. PICK bytes \in {target, Foreign} : ReceiveChunk(bytes)
      BY <1>3
    <2>2. bytes \in Cells
      BY <2>1 DEF TypeOK, Cells, Builds
    <2>3. image[passive] \in Seq(Cells)
      BY <1>1, ImageType
    <2>4. image' = [image EXCEPT ![passive] = Append(image[passive], bytes)] /\ got' = got + 1
      BY <2>1 DEF ReceiveChunk
    <2>5. image'[running] = image[running] /\ image'[passive] = Append(image[passive], bytes)
      BY <1>1, <2>4
    <2>6. /\ pc = "download" /\ pc' = "record"
          /\ UNCHANGED <<entry, bootSlot, attempt, running, pending, target, refused, rollback,
                         sent, gaveUp, unreported, damage>>
      BY <2>1 DEF ReceiveChunk, nvs, ram, reports, history
    <2>7. Len(Append(image[passive], bytes)) = got + 1
      BY <2>2, <2>3, <2>6, AppendProperties DEF TaskInv
    <2> QED
      BY <2>4, <2>5, <2>6, <2>7
  <1> QED
    BY <1>2, <1>3

\* The task knows what it is doing.
LEMMA TaskInvStep ==
    ASSUME TypeOK, TaskInv, SlotInv, [Next]_vars
    PROVE  TaskInv'
  <1> USE DEF Sealed
  <1>1. CASE QuietStep
    <2>1. Quiet
      BY <1>1, QuietSteps
    <2>2. /\ passive' = passive /\ Running' = Running /\ image' = image /\ entry' = entry
          /\ bootSlot' = bootSlot /\ pending' = pending /\ attempt' = attempt
          /\ rollback' = rollback
      BY <2>1 DEF Quiet, flash, ram, passive, Running, Described
    <2>3. CASE UNCHANGED <<pc, target, got>>
      BY <2>1, <2>2, <2>3 DEF TaskInv, Quiet
    <2>4. CASE pc \notin {"off", "selftest"} \cup Sealed /\ pc' \notin {"off", "selftest"} \cup Sealed
      BY <2>1, <2>2, <2>4 DEF TaskInv, Quiet
    <2> QED
      BY <2>1, <2>3, <2>4 DEF Quiet
  <1>2. CASE Boot
    <2>1. pc = "off" /\ pc' \in {"selftest", "wait"} /\ (pending' <=> pc' = "selftest")
      BY <1>2, BootFacts
    <2>2. pending' => rollback' = NoAttempt
      BY <1>2, Zenon DEF Boot, OtaInit, RolledBack
    <2>3. ~sent'
      BY <1>2, <2>1 DEF Boot, TaskInv
    <2> QED
      BY <2>1, <2>2, <2>3 DEF TaskInv
  <1>3. CASE SelfTestPasses
    BY <1>3 DEF SelfTestPasses, TaskInv
  <1>4. CASE SelfTestExpires \/ Restart \/ PowerCut
    <2>1. Off
      BY <1>4 DEF SelfTestExpires, Restart, PowerCut
    <2> QED
      BY <2>1 DEF Off, TaskInv
  <1>5. CASE BeginDownload \/ \E bytes \in {target, Foreign} : ReceiveChunk(bytes)
    <2>1. passive' = passive /\ Running' = Running
      BY <1>5, DownloadFacts DEF passive, Running, Described
    <2> QED
      BY <1>5, <2>1, DownloadFacts DEF TaskInv
  <1>6. CASE Finish
    <2>1. /\ passive' = passive /\ Running' = Running /\ entry'[passive] = "new"
          /\ image'[passive] = Whole(target) /\ bootSlot' = passive
      BY <1>6, RunningPassive DEF Finish, HashMatches, ram, passive, Running, Described, TypeOK
    <2> QED
      BY <1>6, <2>1 DEF Finish, ToTask, ram, reports, TaskInv
  <1>7. CASE ResumeClear
    BY <1>7 DEF ResumeClear, ToTask, flash, ram, reports, TaskInv, passive, Running, Described
  <1>8. CASE AttemptSave
    BY <1>8 DEF AttemptSave, ToTask, flash, ram, reports, TaskInv, passive, Running, Described
  <1>9. CASE AttemptSaveFails
    BY <1>9 DEF AttemptSaveFails, EndCycle, Idle, ram, reports, TaskInv
  <1>10. CASE Acknowledge \/ AcknowledgeFails
    BY <1>10 DEF Acknowledge, AcknowledgeFails, flash, nvs, ram, task, TaskInv, passive, Running,
       Described
  <1> QED
    BY <1>1, <1>2, <1>3, <1>4, <1>5, <1>6, <1>7, <1>8, <1>9, <1>10, NextCases

\* The slots stay in a state the bootloader can boot from.
LEMMA SlotInvStep ==
    ASSUME TypeOK, TaskInv, SlotInv, [Next]_vars
    PROVE  SlotInv'
  <1> USE DEF Sealed
  <1>r. /\ running \in Slots /\ passive \in Slots /\ running # passive
        /\ Other(running) = passive /\ Other(passive) = running
        /\ \A t \in Slots : t = running \/ t = passive
        /\ bootSlot \in Slots /\ entry \in [Slots -> EntryStates]
    BY RunningPassive DEF TypeOK
  <1>1. CASE QuietStep
    <2>1. Quiet
      BY <1>1, QuietSteps
    <2>2. UNCHANGED <<image, entry, bootSlot, running>> /\ passive' = passive
      BY <2>1 DEF Quiet, flash, ram, passive
    <2>3. CASE UNCHANGED <<pc, target, got>>
      BY <2>2, <2>3 DEF SlotInv, Intact, Discarded, Candidate, Trusted
    <2>4. CASE pc \notin {"off", "selftest"} \cup Sealed /\ pc' \notin {"off", "selftest"} \cup Sealed
      BY <2>2, <2>4 DEF SlotInv, Intact, Discarded, Candidate, Trusted
    <2> QED
      BY <2>1, <2>3, <2>4 DEF Quiet
  <1>2. CASE Boot
    <2>1. /\ running' \in Slots /\ running' = Choice(AfterReset) /\ UNCHANGED <<image, bootSlot>>
          /\ \A t \in Slots : entry'[t] =
                IF t = running' /\ entry[t] = "new" THEN "pending"
                ELSE IF entry[t] = "pending" THEN "aborted" ELSE entry[t]
          /\ pc' = IF entry[running'] = "new" THEN "selftest" ELSE "wait"
      BY <1>2, BootFacts
    <2>2. /\ Intact(running')
          /\ running' # bootSlot => entry[bootSlot] \in {"pending", "invalid", "aborted"}
      BY <2>1, BootChoice
    <2>3. Intact(running)'
      BY <2>1, <2>2 DEF Intact
    <2>4. \A t \in Slots : entry'[t] = "pending" => t = running' /\ pc' = "selftest"
      BY <2>1
    <2>5. pc' = "selftest" => entry'[running'] = "pending"
      BY <2>1
    <2>6. running' # bootSlot => entry'[bootSlot] \in {"invalid", "aborted"}
      BY <1>r, <2>1, <2>2
    <2>7. bootSlot' = passive' => Discarded(passive)'
      <3>1. passive' # running'
        BY <2>1, TwoSlots DEF passive
      <3> QED
        BY <2>1, <2>6, <3>1 DEF Discarded
    <2>8. entry'[bootSlot'] = "undefined" => bootSlot' = 0 /\ entry'[1] = "undefined"
      BY <1>r, <2>1 DEF SlotInv, Slots
    <2> QED
      BY <2>3, <2>4, <2>5, <2>7, <2>8 DEF SlotInv
  <1>3. CASE SelfTestPasses
    <2>1. /\ pc = "selftest" /\ pc' = "wait" /\ entry' = [entry EXCEPT ![running] = "valid"]
          /\ UNCHANGED <<image, bootSlot, running>> /\ passive' = passive
      BY <1>3 DEF SelfTestPasses, passive
    <2>2. bootSlot = passive => Discarded(passive)
      BY <2>1 DEF SlotInv
    <2> QED
      BY <1>r, <2>1, <2>2 DEF SlotInv, Intact, Discarded
  <1>4. CASE SelfTestExpires
    <2>1. /\ pc = "selftest" /\ pc' = "off"
          /\ entry' = [entry EXCEPT ![running] = "invalid"] \/ entry' = entry
          /\ UNCHANGED <<image, bootSlot, running>> /\ passive' = passive
      BY <1>4 DEF SelfTestExpires, Off, passive
    <2>2. bootSlot = passive => Discarded(passive)
      BY <2>1 DEF SlotInv
    <2> QED
      BY <1>r, <2>1, <2>2 DEF SlotInv, Intact, Discarded
  <1>5. CASE BeginDownload \/ \E bytes \in {target, Foreign} : ReceiveChunk(bytes)
    <2>1. /\ pc \in {"begin", "download"} /\ pc' \in {"download", "record"}
          /\ image'[running] = image[running] /\ UNCHANGED <<entry, bootSlot, running>>
          /\ passive' = passive
      BY <1>5, DownloadFacts DEF passive
    <2> QED
      BY <2>1 DEF SlotInv, Intact, Discarded
  <1>6. CASE Finish
    <2>1. /\ pc = "download" /\ pc' = "finished" /\ entry' = [entry EXCEPT ![passive] = "new"]
          /\ bootSlot' = passive /\ image[passive] = Whole(target)
          /\ UNCHANGED <<image, running>> /\ passive' = passive
      BY <1>6 DEF Finish, HashMatches, ToTask, ram, passive
    <2>2. Trusted(passive)
      BY <2>1 DEF Trusted, TaskInv
    <2> QED
      BY <1>r, <2>1, <2>2 DEF SlotInv, Intact, Candidate, Trusted
  <1>7. CASE ResumeClear \/ AttemptSave
    <2>1. /\ pc \in Sealed /\ pc' \in Sealed /\ UNCHANGED <<image, entry, bootSlot, running>>
          /\ passive' = passive
      BY <1>7 DEF ResumeClear, AttemptSave, ToTask, flash, ram, passive
    <2> QED
      BY <2>1 DEF SlotInv, Intact, Discarded, Candidate, Trusted
  <1>8. CASE AttemptSaveFails
    <2>1. /\ pc = "persist" /\ pc' = "wait" /\ entry' = [entry EXCEPT ![running] = "new"]
          /\ bootSlot' = running /\ UNCHANGED <<image, running>> /\ passive' = passive
      BY <1>8 DEF AttemptSaveFails, EndCycle, Idle, ram, passive
    <2> QED
      BY <1>r, <2>1 DEF SlotInv, Intact
  <1>9. CASE Restart \/ PowerCut
    <2>1. pc # "off" /\ pc' = "off" /\ UNCHANGED <<image, entry, bootSlot, running>> /\ passive' = passive
      BY <1>9 DEF Restart, PowerCut, Off, flash, passive
    <2> QED
      BY <2>1 DEF SlotInv, Intact, Discarded, Candidate, Trusted
  <1>10. CASE Acknowledge \/ AcknowledgeFails
    BY <1>10 DEF Acknowledge, AcknowledgeFails, flash, ram, task, passive, SlotInv, Intact, Discarded,
       Candidate, Trusted
  <1> QED
    BY <1>1, <1>2, <1>3, <1>4, <1>5, <1>6, <1>7, <1>8, <1>9, <1>10, NextCases

\* No step undoes damage or forgets what was given up.
LEMMA HistoryGrows ==
    ASSUME [Next]_vars
    PROVE  damage \subseteq damage' /\ gaveUp \subseteq gaveUp'
  <1>1. CASE QuietStep \/ Finish \/ ResumeClear \/ Restart
    <2>1. CASE Finish \/ ResumeClear \/ Restart
      BY <2>1 DEF Finish, ResumeClear, Restart, history
    <2>2. CASE QuietStep
      BY <2>2 DEF QuietStep, AskForCheck, QueueCheck, TakeRequest, Defer, Proceed, CheckFails, UpToDate,
         Refuse, StartUpdate, BeginFails, SizeMismatch, RecordProgress, DownloadFails, RejectImage,
         VerifyFails, Retry, GiveUp, SendEvidence, LoseSession, Release, vars, history
    <2> QED
      BY <1>1, <2>1, <2>2
  <1>2. CASE Boot \/ SelfTestPasses \/ SelfTestExpires
    BY <1>2 DEF Boot, OtaInit, SelfTestPasses, SelfTestExpires, AttemptClear, Fault
  <1>3. CASE BeginDownload \/ \E bytes \in {target, Foreign} : ReceiveChunk(bytes)
    BY <1>3 DEF BeginDownload, ReceiveChunk, history
  <1>4. CASE AttemptSave \/ AttemptSaveFails \/ Acknowledge \/ AcknowledgeFails \/ PowerCut
    BY <1>4 DEF AttemptSave, AttemptSaveFails, Acknowledge, AcknowledgeFails, PowerCut, Fault, history
  <1> QED
    BY <1>1, <1>2, <1>3, <1>4, NextCases

\* There is always a proven image to run or to go back to.
LEMMA ProvenStep ==
    ASSUME TypeOK, TaskInv, SlotInv, ProvenInv, [Next]_vars, "save_failed" \notin damage'
    PROVE  ProvenInv'
  <1> USE DEF Sealed
  <1>r. /\ running \in Slots /\ passive \in Slots /\ running # passive
        /\ Other(running) = passive /\ Other(passive) = running
        /\ \A t \in Slots : t = running \/ t = passive
        /\ bootSlot \in Slots /\ entry \in [Slots -> EntryStates]
    BY RunningPassive DEF TypeOK
  <1>p. pc \notin {"off", "selftest"} => Proven(running)
    BY DEF ProvenInv, OnTrial
  <1>1. CASE QuietStep
    <2>1. Quiet
      BY <1>1, QuietSteps
    <2>2. UNCHANGED <<image, entry, bootSlot, running>> /\ passive' = passive
      BY <2>1 DEF Quiet, flash, ram, passive
    <2>3. CASE UNCHANGED <<pc, target, got>>
      BY <2>2, <2>3 DEF ProvenInv, OnTrial, Proven, Trusted
    <2>4. CASE pc \notin {"off", "selftest"} \cup Sealed /\ pc' \notin {"off", "selftest"} \cup Sealed
      BY <1>p, <2>2, <2>4 DEF ProvenInv, Proven, Trusted
    <2> QED
      BY <2>1, <2>3, <2>4 DEF Quiet
  <1>2. CASE Boot
    <2>1. /\ running' \in Slots /\ running' = Choice(AfterReset) /\ UNCHANGED <<image, bootSlot>>
          /\ \A t \in Slots : entry'[t] =
                IF t = running' /\ entry[t] = "new" THEN "pending"
                ELSE IF entry[t] = "pending" THEN "aborted" ELSE entry[t]
          /\ pc' = IF entry[running'] = "new" THEN "selftest" ELSE "wait"
          /\ pc = "off"
      BY <1>2, BootFacts
    <2>2. \A s \in Slots : Trusted(s) => \E v \in Versions : image'[s] = Whole(v)
      BY <2>1 DEF Trusted
    <2>3. \A s \in Slots : Proven(s) =>
             /\ entry'[s] = "valid" \/ (s = 0 /\ entry'[s] = "undefined")
             /\ \E v \in Versions : image'[s] = Whole(v)
      BY <2>1, <2>2 DEF Proven
    <2>4. CASE Proven(running') \* the image that boots is proven
      BY <2>1, <2>3, <2>4 DEF ProvenInv, Proven, Trusted
    <2>5. CASE Selected /\ Proven(running) \* the candidate boots
      <3>1. running' = passive /\ bootSlot' = running' /\ entry[passive] = "new" /\ Trusted(passive)
        BY <2>1, <2>5, BootChoice DEF Selected, Candidate
      <3>2. passive' = running
        BY <1>r, <3>1 DEF passive
      <3>3. entry'[running'] = "pending" /\ pc' = "selftest"
        BY <1>r, <2>1, <3>1
      <3>4. Trusted(running)'
        BY <1>r, <2>2, <3>1 DEF Trusted
      <3>5. Proven(passive)'
        BY <1>r, <2>3, <2>5, <3>2 DEF Proven, Trusted
      <3> QED
        BY <3>1, <3>3, <3>4, <3>5 DEF ProvenInv, OnTrial
    <2>6. Proven(running) => Proven(running') \/ Selected
      <3>1. CASE entry[running] = "valid"
        BY <1>r, <2>1, <3>1, BootChoice DEF SlotInv, Selected
      <3>2. CASE entry[running] = "undefined"
        BY <2>1, <3>2, BootChoice
      <3> QED
        BY <3>1, <3>2 DEF Proven
    <2>7. ~Proven(running) => Proven(running')
      BY <2>1, BootChoice DEF ProvenInv, OnTrial
    <2> QED
      BY <2>4, <2>5, <2>6, <2>7
  <1>3. CASE SelfTestPasses
    <2>1. /\ pc' = "wait" /\ entry' = [entry EXCEPT ![running] = "valid"] /\ UNCHANGED <<image, running>>
      BY <1>3 DEF SelfTestPasses
    <2> QED
      BY <1>r, <2>1 DEF ProvenInv, Proven, Trusted
  <1>4. CASE SelfTestExpires
    <2>1. /\ pc = "selftest" /\ pc' = "off" /\ UNCHANGED <<image, bootSlot, running>> /\ passive' = passive
          /\ IF Selectable(entry, passive) THEN entry' = [entry EXCEPT ![running] = "invalid"]
             ELSE entry' = entry
      BY <1>4 DEF SelfTestExpires, Off, passive
    <2>2. entry[running] = "pending" /\ Proven(passive) /\ bootSlot = running /\ Trusted(running)
      BY <2>1 DEF SlotInv, ProvenInv, Proven
    <2>3. CASE Selectable(entry, passive)
      BY <1>r, <2>1, <2>2, <2>3 DEF ProvenInv, OnTrial, Proven, Trusted, Selectable
    <2>4. CASE ~Selectable(entry, passive)
      BY <1>r, <2>1, <2>2, <2>4 DEF ProvenInv, OnTrial, Proven, Trusted
    <2> QED
      BY <2>3, <2>4
  <1>5. CASE BeginDownload \/ \E bytes \in {target, Foreign} : ReceiveChunk(bytes)
    <2>1. pc \in {"begin", "download"} /\ image'[running] = image[running] /\ UNCHANGED <<entry, running>>
      BY <1>5, DownloadFacts
    <2> QED
      BY <1>p, <2>1 DEF ProvenInv, Proven, Trusted
  <1>6. CASE Finish
    <2>1. pc = "download" /\ UNCHANGED <<image, running>> /\ entry'[running] = entry[running]
      BY <1>6, <1>r DEF Finish, ram
    <2> QED
      BY <1>p, <2>1 DEF ProvenInv, Proven, Trusted
  <1>7. CASE ResumeClear \/ AttemptSave \/ Restart
    <2>1. pc \in Sealed /\ UNCHANGED <<image, entry, running>>
      BY <1>7 DEF ResumeClear, AttemptSave, Restart, Off, flash, ram
    <2> QED
      BY <1>p, <2>1 DEF ProvenInv, Proven, Trusted
  <1>8. CASE AttemptSaveFails
    BY <1>8 DEF AttemptSaveFails, Fault
  <1>9. CASE PowerCut
    <2>1. pc # "off" /\ pc' = "off" /\ UNCHANGED <<image, entry, bootSlot, running>> /\ passive' = passive
      BY <1>9 DEF PowerCut, Off, flash, passive
    <2> QED
      BY <2>1 DEF ProvenInv, OnTrial, Proven, Trusted
  <1>10. CASE Acknowledge \/ AcknowledgeFails
    BY <1>10 DEF Acknowledge, AcknowledgeFails, flash, ram, task, passive, ProvenInv, OnTrial, Proven, Trusted
  <1> QED
    BY <1>1, <1>2, <1>3, <1>4, <1>5, <1>6, <1>7, <1>8, <1>9, <1>10, NextCases

\* An image is aborted only by being given up.
LEMMA AbortedStep ==
    ASSUME TypeOK, TaskInv, SlotInv, AbortedInv, [Next]_vars
    PROVE  AbortedInv'
  <1> USE DEF Sealed
  <1>r. /\ running \in Slots /\ passive \in Slots /\ running # passive
        /\ \A t \in Slots : t = running \/ t = passive
        /\ entry \in [Slots -> EntryStates]
    BY RunningPassive DEF TypeOK
  <1>h. damage \subseteq damage' /\ gaveUp \subseteq gaveUp'
    BY HistoryGrows
  <1>1. CASE QuietStep
    <2>1. Quiet
      BY <1>1, QuietSteps
    <2>2. UNCHANGED <<image, entry, gaveUp, damage>> /\ passive' = passive
          /\ (pc' \in {"download", "record"} => pc \in {"download", "record"})
      BY <2>1 DEF Quiet, flash, ram, passive, history
    <2> QED
      BY <2>2 DEF AbortedInv, Described
  <1>2. CASE Boot
    <2>1. /\ UNCHANGED image /\ gaveUp' = gaveUp \cup Reverted
          /\ \A t \in Slots : entry'[t] =
                IF t = running' /\ entry[t] = "new" THEN "pending"
                ELSE IF entry[t] = "pending" THEN "aborted" ELSE entry[t]
          /\ pc' = IF entry[running'] = "new" THEN "selftest" ELSE "wait"
          /\ Reverted = IF entry[running] = "pending" THEN {Described(running)} ELSE {}
      BY <1>2, BootFacts
    <2>2. ASSUME NEW t \in Slots, entry'[t] = "aborted"
          PROVE  Described(t)' \in gaveUp' \/ "reused" \in damage'
      <3>1. Described(t)' = Described(t)
        BY <2>1 DEF Described
      <3>2. CASE entry[t] = "aborted"
        BY <1>h, <3>1, <3>2 DEF AbortedInv
      <3>3. CASE entry[t] = "pending"
        <4>1. t = running
          BY <3>3 DEF SlotInv
        <4> QED
          BY <2>1, <3>1, <3>3, <4>1
      <3> QED
        BY <2>1, <2>2, <3>2, <3>3
    <2>3. pc' \notin {"download", "record"}
      BY <2>1
    <2> QED
      BY <2>2, <2>3 DEF AbortedInv
  <1>3. CASE SelfTestPasses \/ SelfTestExpires
    <2>1. /\ UNCHANGED image /\ pc' \in {"wait", "off"}
          /\ \A t \in Slots : entry'[t] = "aborted" => entry[t] = "aborted"
      BY <1>3, <1>r DEF SelfTestPasses, SelfTestExpires, Off
    <2> QED
      BY <1>h, <2>1 DEF AbortedInv, Described
  <1>5. CASE BeginDownload \/ \E bytes \in {target, Foreign} : ReceiveChunk(bytes)
    <2>1. /\ pc \in {"begin", "download"} /\ image'[running] = image[running] /\ UNCHANGED <<entry, running>>
          /\ passive' = passive /\ (entry[passive] = "aborted" /\ pc = "begin" => "reused" \in damage')
      BY <1>5, DownloadFacts DEF passive
    <2>2. entry[passive] = "aborted" => "reused" \in damage'
      BY <1>h, <1>r, <2>1 DEF AbortedInv
    <2>3. entry[running] = "aborted" => Described(running)' \in gaveUp' \/ "reused" \in damage'
      BY <1>h, <1>r, <2>1 DEF AbortedInv, Described
    <2>4. \A t \in Slots : entry'[t] = "aborted" =>
             /\ Described(t)' \in gaveUp' \/ "reused" \in damage'
             /\ t = passive' => "reused" \in damage'
      BY <1>r, <2>1, <2>2, <2>3 DEF Described
    <2> QED
      BY <2>4 DEF AbortedInv
  <1>6. CASE Finish \/ ResumeClear \/ AttemptSave \/ AttemptSaveFails \/ Restart \/ PowerCut
    <2>1. /\ UNCHANGED image /\ pc' \in {"finished", "persist", "restart", "wait", "off"}
          /\ \A t \in Slots : entry'[t] = "aborted" => entry[t] = "aborted"
      <3>1. CASE Finish
        BY <1>r, <3>1 DEF Finish, ToTask
      <3>2. CASE AttemptSaveFails
        BY <1>r, <3>2 DEF AttemptSaveFails, EndCycle, Idle
      <3>3. CASE ResumeClear \/ AttemptSave \/ Restart \/ PowerCut
        BY <3>3 DEF ResumeClear, AttemptSave, Restart, PowerCut, ToTask, Off, flash
      <3> QED
        BY <1>6, <3>1, <3>2, <3>3
    <2> QED
      BY <1>h, <2>1 DEF AbortedInv, Described
  <1>10. CASE Acknowledge \/ AcknowledgeFails
    <2>1. UNCHANGED <<image, entry, running, pc>> /\ passive' = passive
      BY <1>10 DEF Acknowledge, AcknowledgeFails, flash, ram, task, passive
    <2> QED
      BY <1>h, <2>1 DEF AbortedInv, Described
  <1> QED
    BY <1>1, <1>2, <1>3, <1>5, <1>6, <1>10, NextCases

\* What a boot makes of the attempt it finds.
LEMMA BootReport ==
    ASSUME TypeOK, SlotInv, Boot, NEW v, v = Described(running')
    PROVE  /\ rollback' = IF entry[running'] # "new" /\ attempt.source = v /\ attempt.target # v
                          THEN attempt ELSE NoAttempt
           /\ attempt' = attempt \/ attempt' = NoAttempt
           /\ entry[running'] = "new" /\ attempt.target = v => attempt' = attempt
           /\ entry[running'] # "new" /\ attempt.source = v /\ attempt.target # v => attempt' = attempt
           /\ entry[running'] # "new" /\ attempt.target = v =>
                 attempt' = NoAttempt \/ "clear_failed" \in damage'
  <1> DEFINE p == entry[running'] = "new"
  <1>1. OtaInit(v, entry'[running'] = "pending")
    BY Zenon DEF Boot
  <1>2. p <=> entry'[running'] = "pending"
    BY BootFacts
  <1>3. rollback' = IF RolledBack(v, p) THEN attempt ELSE NoAttempt
    BY <1>1, <1>2, Zenon DEF OtaInit
  <1>4. IF Stale(v, p) THEN AttemptClear ELSE UNCHANGED <<attempt, damage>>
    BY <1>1, <1>2, Zenon DEF OtaInit
  <1>5. AttemptClear => attempt' = NoAttempt \/ (attempt' = attempt /\ "clear_failed" \in damage')
    BY DEF AttemptClear, Fault
  <1> QED
    BY <1>3, <1>4, <1>5 DEF RolledBack, Stale, Awaited

\* What an attempt that was not given up says of a boot: its target is the candidate,
\* or what ran last.
LEMMA AttemptAtBoot ==
    ASSUME TypeOK, SlotInv, AttemptInv, Boot, attempt # NoAttempt
    PROVE  \/ attempt.target \in gaveUp'
           \/ /\ image[running'] = Whole(attempt.target) /\ attempt.target = Described(running')
              /\ entry[running'] \in {"new", "valid"}
  <1>1. /\ running' = Choice(AfterReset) /\ pc = "off" /\ gaveUp' = gaveUp \cup Reverted
        /\ Reverted = IF entry[running] = "pending" THEN {Described(running)} ELSE {}
    BY BootFacts
  <1>2. CASE attempt.target \in gaveUp
    BY <1>1, <1>2
  <1>3. CASE Leftover
    <2>1. Described(running) = attempt.target
      BY <1>3, IntactDescribed DEF Leftover
    <2>2. CASE entry[running] = "pending"
      BY <1>1, <2>1, <2>2
    <2>3. CASE entry[running] \in {"new", "valid"}
      <3>1. running' = running
        BY <1>1, <1>3, <2>3, BootChoice DEF Leftover
      <3> QED
        BY <1>3, <2>1, <2>3, <3>1 DEF Leftover
    <2> QED
      BY <1>3, <2>2, <2>3 DEF Leftover
  <1>4. CASE Ahead
    <2>1. Trusted(passive)
      BY <1>4 DEF Ahead, AttemptInv, Trusted
    <2>2. running' = passive
      BY <1>1, <1>4, <2>1, BootChoice DEF Ahead, Candidate
    <2>3. Described(passive) = attempt.target
      BY <1>4, IntactDescribed DEF Ahead
    <2> QED
      BY <1>4, <2>2, <2>3 DEF Ahead
  <1> QED
    BY <1>2, <1>3, <1>4 DEF AttemptInv

\* The attempt on record is explained by what is in flash.
LEMMA AttemptStep ==
    ASSUME TypeOK, TaskInv, SlotInv, AttemptInv, [Next]_vars, Clean'
    PROVE  AttemptInv'
  <1> USE DEF Sealed
  <1>r. /\ running \in Slots /\ passive \in Slots /\ running # passive
        /\ Other(running) = passive /\ Other(passive) = running
        /\ entry \in [Slots -> EntryStates] /\ bootSlot \in Slots
        /\ \A t \in Slots : t = running \/ t = passive
    BY RunningPassive DEF TypeOK
  <1>h. damage \subseteq damage' /\ gaveUp \subseteq gaveUp'
    BY HistoryGrows
  <1>1. CASE QuietStep
    <2>1. Quiet
      BY <1>1, QuietSteps
    <2>2. UNCHANGED <<image, entry, bootSlot, running, attempt, gaveUp, damage>> /\ passive' = passive
      BY <2>1 DEF Quiet, flash, ram, passive, history
    <2>3. CASE UNCHANGED <<pc, target, got>>
      BY <2>2, <2>3 DEF AttemptInv, Leftover, Ahead, Discarded
    <2>4. CASE pc \notin {"off", "selftest"} \cup Sealed /\ pc' \notin {"off", "selftest"} \cup Sealed
      BY <2>2, <2>4 DEF AttemptInv, Leftover, Ahead, Discarded
    <2> QED
      BY <2>1, <2>3, <2>4 DEF Quiet
  <1>2. CASE Boot
    <2>1. /\ running' \in Slots /\ UNCHANGED image
          /\ \A t \in Slots : entry'[t] =
                IF t = running' /\ entry[t] = "new" THEN "pending"
                ELSE IF entry[t] = "pending" THEN "aborted" ELSE entry[t]
          /\ pc' = IF entry[running'] = "new" THEN "selftest" ELSE "wait"
      BY <1>2, BootFacts
    <2>2. CASE attempt' = NoAttempt
      BY <2>2 DEF AttemptInv
    <2>3. CASE attempt' = attempt /\ attempt # NoAttempt
      <3>1. attempt.source # attempt.target /\ attempt.target \in Versions
        BY <2>3 DEF AttemptInv
      <3>2. CASE attempt.target \in gaveUp'
        BY <2>3, <3>1, <3>2 DEF AttemptInv
      <3>3. CASE image[running'] = Whole(attempt.target) /\ attempt.target = Described(running')
                 /\ entry[running'] \in {"new", "valid"}
        <4>1. entry'[running'] \in {"pending", "valid"} /\ pc' # "off"
          BY <2>1, <3>3
        <4>2. pc' # "selftest" => "clear_failed" \in damage'
          BY <1>2, <2>1, <2>3, <3>3, BootReport
        <4>3. Leftover'
          BY <2>1, <2>3, <3>3, <4>1, <4>2 DEF Leftover
        <4> QED
          BY <2>3, <3>1, <4>3 DEF AttemptInv
      <3> QED
        BY <1>2, <2>3, <3>2, <3>3, AttemptAtBoot
    <2> QED
      BY <1>2, <2>2, <2>3, BootReport
  <1>3. CASE SelfTestPasses
    <2>1. /\ pc = "selftest" /\ pc' = "wait" /\ entry' = [entry EXCEPT ![running] = "valid"]
          /\ UNCHANGED <<image, running, gaveUp>>
          /\ attempt' = NoAttempt \/ (attempt' = attempt /\ "clear_failed" \in damage')
      BY <1>3 DEF SelfTestPasses, AttemptClear, Fault
    <2> QED
      BY <1>r, <2>1 DEF AttemptInv, Leftover, Ahead
  <1>4. CASE SelfTestExpires
    <2>1. /\ pc = "selftest" /\ pc' = "off" /\ UNCHANGED <<image, bootSlot, running, attempt>>
          /\ passive' = passive
          /\ IF Selectable(entry, passive) THEN gaveUp' = gaveUp \cup {Running}
             ELSE entry' = entry
      BY <1>4 DEF SelfTestExpires, Off, passive, nvs
    <2>2. bootSlot = running \/ Discarded(passive)
      BY <1>r, <2>1 DEF SlotInv
    <2>3. Leftover => Running = attempt.target
      BY IntactDescribed DEF Leftover, Running
    <2> QED
      BY <1>h, <2>1, <2>2, <2>3 DEF AttemptInv, Leftover, Ahead, Discarded
  <1>5. CASE BeginDownload \/ \E bytes \in {target, Foreign} : ReceiveChunk(bytes)
    <2>1. /\ pc \in {"begin", "download"} /\ pc' \in {"download", "record"}
          /\ image'[running] = image[running] /\ UNCHANGED <<entry, running, attempt>>
      BY <1>5, DownloadFacts
    <2> QED
      BY <1>h, <2>1 DEF AttemptInv, Leftover, Ahead
  <1>6. CASE Finish
    <2>1. /\ pc = "download" /\ pc' = "finished" /\ entry'[running] = entry[running]
          /\ UNCHANGED <<image, running, attempt>>
      BY <1>6, <1>r DEF Finish, ToTask, nvs, ram
    <2> QED
      BY <1>h, <2>1 DEF AttemptInv, Leftover, Ahead
  <1>7. CASE ResumeClear
    <2>1. pc = "finished" /\ pc' = "persist" /\ UNCHANGED <<image, entry, running, attempt>>
      BY <1>7 DEF ResumeClear, ToTask, flash, ram
    <2> QED
      BY <1>h, <2>1 DEF AttemptInv, Leftover, Ahead
  <1>8. CASE AttemptSave
    <2>1. /\ pc = "persist" /\ pc' = "restart" /\ UNCHANGED <<image, entry, bootSlot, running>>
          /\ attempt' = [source |-> Running, target |-> target] /\ passive' = passive
      BY <1>8 DEF AttemptSave, ToTask, flash, ram, passive
    <2>2. /\ target \in Versions /\ target # Running /\ image[passive] = Whole(target)
          /\ entry[passive] = "new" /\ bootSlot = passive
      BY <2>1 DEF TaskInv
    <2>3. Ahead'
      BY <2>1, <2>2 DEF Ahead
    <2> QED
      BY <2>1, <2>2, <2>3 DEF AttemptInv
  <1>9. CASE AttemptSaveFails
    <2>1. /\ pc = "persist" /\ pc' = "wait" /\ entry' = [entry EXCEPT ![running] = "new"]
          /\ UNCHANGED <<image, running, attempt>>
      BY <1>9 DEF AttemptSaveFails, EndCycle, Idle, ram, nvs
    <2> QED
      BY <1>h, <1>r, <2>1 DEF AttemptInv, Leftover, Ahead
  <1>10. CASE Restart \/ PowerCut
    <2>1. /\ pc # "off" /\ pc' = "off" /\ UNCHANGED <<image, entry, bootSlot, running, attempt>>
          /\ passive' = passive
          /\ pc \in {"finished", "persist"} => "cut_unmarked" \in damage'
      BY <1>10 DEF Restart, PowerCut, Off, Fault, flash, nvs, passive
    <2>2. pc = "restart" /\ attempt # NoAttempt => ~Leftover
      <3>1. Leftover => Running = attempt.target
        BY IntactDescribed DEF Leftover, Running
      <3> QED
        BY <3>1 DEF TaskInv
    <2>3. Leftover => pc \notin {"finished", "persist"}
      BY <1>h, <2>1 DEF Leftover, Clean
    <2>4. bootSlot = running \/ Discarded(passive) \/ pc \in Sealed
      BY <1>r, <2>1 DEF SlotInv
    <2> QED
      BY <1>h, <2>1, <2>2, <2>3, <2>4 DEF AttemptInv, Leftover, Ahead, Discarded
  <1>11. CASE Acknowledge
    BY <1>11 DEF Acknowledge, AttemptInv
  <1>12. CASE AcknowledgeFails
    <2>1. UNCHANGED <<image, entry, bootSlot, running, attempt, pc>> /\ passive' = passive
      BY <1>12 DEF AcknowledgeFails, flash, nvs, ram, task, passive
    <2> QED
      BY <1>h, <2>1 DEF AttemptInv, Leftover, Ahead, Discarded
  <1> QED
    BY <1>1, <1>2, <1>3, <1>4, <1>5, <1>6, <1>7, <1>8, <1>9, <1>10, <1>11, <1>12, NextCases

\* Between boots the same image runs, and what is reported and refused only goes away;
\* what a check refuses is what it found aborted.
LEMMA BetweenBoots ==
    ASSUME TypeOK, TaskInv, [Next]_vars, ~Boot
    PROVE  /\ running' = running /\ Running' = Running /\ (pc' # "off" => pc # "off")
           /\ rollback' = rollback \/ rollback' = NoAttempt
           /\ \/ refused' = None \/ refused' = refused
              \/ refused' = Described(passive) /\ entry[passive] = "aborted"
  <1>1. CASE QuietStep
    <2>1. Quiet
      BY <1>1, QuietSteps
    <2> QED
      BY <2>1 DEF Quiet, flash, ram, Running, Described
  <1>2. CASE SelfTestPasses
    BY <1>2 DEF SelfTestPasses, reports, Running, Described
  <1>3. CASE SelfTestExpires \/ Restart \/ PowerCut
    BY <1>3 DEF SelfTestExpires, Restart, PowerCut, Off, flash, Running, Described
  <1>4. CASE BeginDownload \/ \E bytes \in {target, Foreign} : ReceiveChunk(bytes)
    BY <1>4, DownloadFacts DEF Running, Described
  <1>5. CASE Finish \/ ResumeClear \/ AttemptSave
    BY <1>5 DEF Finish, ResumeClear, AttemptSave, ToTask, flash, ram, reports, Running, Described
  <1>6. CASE AttemptSaveFails
    BY <1>6 DEF AttemptSaveFails, EndCycle, Idle, ram, reports, Running, Described
  <1>7. CASE Acknowledge \/ AcknowledgeFails
    BY <1>7 DEF Acknowledge, AcknowledgeFails, flash, ram, task, Running, Described
  <1> QED
    BY <1>1, <1>2, <1>3, <1>4, <1>5, <1>6, <1>7, NextCases

\* No rollback is invented.
LEMMA NoFalseStep ==
    ASSUME TypeOK, TaskInv, SlotInv, Clean => AttemptInv, SourceRuns, NoFalseRollback, [Next]_vars
    PROVE  SourceRuns' /\ NoFalseRollback'
  <1>h. damage \subseteq damage' /\ gaveUp \subseteq gaveUp'
    BY HistoryGrows
  <1>1. CASE ~Boot
    BY <1>1, <1>h, BetweenBoots DEF SourceRuns, NoFalseRollback
  <1>2. CASE Boot
    <2> DEFINE v == Described(running')
    <2>1. Running' = v
      BY <1>2, BootFacts DEF Running, Described
    <2> HIDE DEF v
    <2>2. rollback' = IF entry[running'] # "new" /\ attempt.source = v /\ attempt.target # v
                      THEN attempt ELSE NoAttempt
      BY <1>2, BootReport DEF v
    <2>3. SourceRuns'
      BY <2>1, <2>2 DEF SourceRuns
    <2>4. ASSUME rollback' # NoAttempt, Clean'
          PROVE  rollback'.target \in gaveUp'
      <3>1. attempt # NoAttempt /\ rollback' = attempt /\ attempt.target # v
        BY <2>2, <2>4
      <3>2. AttemptInv
        BY <1>h, <2>4 DEF Clean
      <3> QED
        BY <1>2, <3>1, <3>2, AttemptAtBoot DEF v
    <2> QED
      BY <2>3, <2>4 DEF SourceRuns, NoFalseRollback, Clean
  <1> QED
    BY <1>1, <1>2

\* Only what was given up is refused.
LEMMA RefusedStep ==
    ASSUME TypeOK, TaskInv, SlotInv, AbortedInv, RefusedWasRolledBack, [Next]_vars
    PROVE  RefusedWasRolledBack'
  <1>h. damage \subseteq damage' /\ gaveUp \subseteq gaveUp'
    BY HistoryGrows
  <1>1. CASE ~Boot
    <2>1. entry[passive] = "aborted" => Described(passive) \in gaveUp \/ "reused" \in damage
      BY RunningPassive DEF AbortedInv
    <2> QED
      BY <1>1, <1>h, <2>1, BetweenBoots DEF RefusedWasRolledBack
  <1>2. CASE Boot
    BY <1>2 DEF Boot, TaskInv, RefusedWasRolledBack
  <1> QED
    BY <1>1, <1>2

\* What a boot makes of the evidence, when no fault ever happened.
LEMMA EvidenceBoot ==
    ASSUME TypeOK, TaskInv, SlotInv, ProvenInv, EvidenceInv, Boot, Undamaged'
    PROVE  EvidenceInv' /\ RollbackReported'
  <1>r. /\ running \in Slots /\ passive \in Slots /\ running # passive
        /\ Other(running) = passive /\ Other(passive) = running
        /\ \A t \in Slots : t = running \/ t = passive
        /\ bootSlot \in Slots
    BY RunningPassive
  <1>1. /\ running' \in Slots /\ running' = Choice(AfterReset) /\ UNCHANGED <<image, bootSlot>>
        /\ \A t \in Slots : entry'[t] =
              IF t = running' /\ entry[t] = "new" THEN "pending"
              ELSE IF entry[t] = "pending" THEN "aborted" ELSE entry[t]
        /\ pc' = IF entry[running'] = "new" THEN "selftest" ELSE "wait"
        /\ pc = "off"
        /\ Reverted = IF entry[running] = "pending" THEN {Described(running)} ELSE {}
    BY BootFacts
  <1>2. unreported' = IF entry[running] = "pending" THEN Described(running) ELSE unreported
    <2>1. \A x : (CHOOSE w \in {x} : TRUE) = x
      OBVIOUS
    <2>2. unreported' = IF Reverted = {} THEN unreported ELSE CHOOSE w \in Reverted : TRUE
      BY DEF Boot
    <2> QED
      BY <1>1, <2>1, <2>2
  <1> DEFINE v == Described(running')
  <1>3. \A s \in Slots : Described(s)' = Described(s)
    BY <1>1 DEF Described
  <1>4. Running' = v
    BY <1>1 DEF Running, Described
  <1>5. /\ rollback' = IF entry[running'] # "new" /\ attempt.source = v /\ attempt.target # v
                       THEN attempt ELSE NoAttempt
        /\ attempt' = attempt \/ attempt' = NoAttempt
        /\ entry[running'] = "new" /\ attempt.target = v => attempt' = attempt
        /\ entry[running'] # "new" /\ attempt.source = v /\ attempt.target # v => attempt' = attempt
    BY BootReport
  <1> HIDE DEF v
  <1>6. attempt' # NoAttempt => attempt'.source # attempt'.target
    BY <1>5 DEF EvidenceInv
  \* Once a proven image runs, what was given up is on record, and reported.
  <1>7. ASSUME Proven(running'), entry[running'] \in {"valid", "undefined"},
               unreported' # None => attempt = [source |-> v, target |-> unreported']
        PROVE  EvidenceInv' /\ RollbackReported'
    <2>1. entry'[running'] \in {"valid", "undefined"} /\ pc' = "wait"
      BY <1>1, <1>7
    <2>2. unreported' # None => rollback' = attempt /\ attempt' = attempt
      <3>1. unreported' # None => attempt # NoAttempt
        BY <1>7 DEF NoAttempt
      <3>2. unreported' # None => attempt.source = v /\ attempt.target # v
        BY <1>7, <3>1 DEF EvidenceInv
      <3> QED
        BY <1>5, <1>7, <3>2
    <2>3. RollbackReported'
      BY <1>4, <1>7, <2>2 DEF RollbackReported
    <2>4. unreported' # None => attempt' = [source |-> Running', target |-> unreported']
      BY <1>4, <1>7, <2>2
    <2>5. EvidenceInv'
      BY <1>6, <2>1, <2>4 DEF EvidenceInv, Recorded, Running
    <2> QED
      BY <2>3, <2>5
  <1>8. CASE Proven(running) /\ ~(bootSlot = passive /\ Candidate(passive))
    <2>1. running' = running
      <3>1. CASE entry[running] = "valid"
        BY <1>r, <1>1, <1>8, <3>1, BootChoice DEF SlotInv
      <3>2. CASE entry[running] = "undefined"
        BY <1>1, <1>8, <3>2, BootChoice DEF Selected
      <3> QED
        BY <1>8, <3>1, <3>2 DEF Proven
    <2>2. entry[running] \in {"valid", "undefined"}
      BY <1>8 DEF Proven
    <2>3. unreported # None => attempt = [source |-> Described(running), target |-> unreported]
      BY <1>8 DEF EvidenceInv, Recorded
    <2> QED
      BY <1>2, <1>7, <1>8, <2>1, <2>2, <2>3 DEF v
  <1>9. CASE Proven(running) /\ bootSlot = passive /\ Candidate(passive)
    <2>1. running' = passive /\ entry[passive] = "new" /\ entry[running] \in {"valid", "undefined"}
      BY <1>1, <1>9, BootChoice DEF Candidate, Proven
    <2>2. unreported = None /\ attempt = [source |-> Described(running), target |-> Described(passive)]
      BY <1>1, <1>9 DEF EvidenceInv, Selected, Recorded
    <2>3. entry'[running'] = "pending" /\ pc' = "selftest" /\ passive' = running
      BY <1>r, <1>1, <2>1 DEF passive
    <2>4. unreported' = None /\ attempt' = attempt
      BY <1>2, <1>5, <2>1, <2>2 DEF v
    <2>5. Recorded(passive, Described(running))'
      <3>1. Described(running)' = Described(passive) /\ Described(passive)' = Described(running)
        BY <1>1, <2>1, <2>3 DEF Described
      <3> QED
        BY <2>2, <2>4, <3>1 DEF Recorded
    <2>6. EvidenceInv'
      BY <1>6, <2>3, <2>4, <2>5 DEF EvidenceInv, Proven
    <2> QED
      BY <2>4, <2>6 DEF RollbackReported
  <1>10. CASE ~Proven(running)
    <2>1. /\ Proven(passive) /\ bootSlot = running /\ entry[running] \in {"pending", "invalid"}
      BY <1>10 DEF ProvenInv, OnTrial
    <2>2. running' = passive
      BY <1>1, <2>1, BootChoice
    <2>3. entry[passive] \in {"valid", "undefined"}
      BY <2>1 DEF Proven
    <2>4. attempt = [source |-> Described(passive), target |-> Described(running)]
      BY <1>1, <2>1 DEF EvidenceInv, Recorded
    <2>5. unreported' = Described(running)
      BY <1>1, <1>2, <2>1 DEF EvidenceInv
    <2> QED
      BY <1>7, <2>1, <2>2, <2>3, <2>4, <2>5 DEF v
  <1> QED
    BY <1>8, <1>9, <1>10

\* Without faults the evidence of a rollback is on record until it is acknowledged,
\* and the record of the attempt comes before it.
LEMMA EvidenceStep ==
    ASSUME TypeOK, TaskInv, SlotInv, ProvenInv, EvidenceInv, RollbackReported, [Next]_vars, Undamaged'
    PROVE  EvidenceInv' /\ RollbackReported'
  <1> USE DEF Sealed
  <1>r. /\ running \in Slots /\ passive \in Slots /\ running # passive
        /\ Other(running) = passive /\ Other(passive) = running
        /\ entry \in [Slots -> EntryStates] /\ bootSlot \in Slots
        /\ \A t \in Slots : t = running \/ t = passive
    BY RunningPassive DEF TypeOK
  <1>h. Undamaged
    BY HistoryGrows DEF Undamaged
  <1>p. pc \notin {"off", "selftest"} => Proven(running) /\ entry[running] \in {"valid", "undefined"}
    BY DEF ProvenInv, OnTrial, Proven
  <1>1. CASE QuietStep
    <2>1. Quiet
      BY <1>1, QuietSteps
    <2>2. /\ UNCHANGED <<image, entry, bootSlot, running, attempt, rollback, unreported, damage>>
          /\ passive' = passive
      BY <2>1 DEF Quiet, flash, ram, passive, history
    <2>3. CASE UNCHANGED <<pc, target, got>>
      BY <2>2, <2>3 DEF EvidenceInv, RollbackReported, Selected, Candidate, Trusted, Proven, Recorded,
         Described, Running
    <2>4. CASE pc \notin {"off", "selftest"} \cup Sealed /\ pc' \notin {"off", "selftest"} \cup Sealed
      BY <2>2, <2>4 DEF EvidenceInv, RollbackReported, Selected, Candidate, Trusted, Proven, Recorded,
         Described, Running
    <2> QED
      BY <2>1, <2>3, <2>4 DEF Quiet
  <1>2. CASE Boot
    BY <1>2, EvidenceBoot
  <1>3. CASE SelfTestPasses
    <2>1. /\ pc = "selftest" /\ pc' = "wait" /\ entry' = [entry EXCEPT ![running] = "valid"]
          /\ UNCHANGED <<running, unreported>>
          /\ attempt' = NoAttempt \/ "clear_failed" \in damage'
      BY <1>3 DEF SelfTestPasses, AttemptClear, Fault
    <2>2. unreported = None
      BY <2>1 DEF SlotInv, EvidenceInv
    <2>3. attempt' = NoAttempt
      BY <2>1 DEF Undamaged
    <2>4. entry'[running'] = "valid"
      BY <1>r, <2>1
    <2> QED
      BY <2>1, <2>2, <2>3, <2>4 DEF EvidenceInv, RollbackReported
  <1>4. CASE SelfTestExpires
    <2>1. /\ pc = "selftest" /\ pc' = "off" /\ UNCHANGED <<image, bootSlot, running, attempt>>
          /\ passive' = passive
          /\ IF Selectable(entry, passive)
             THEN entry' = [entry EXCEPT ![running] = "invalid"] /\ unreported' = Running
             ELSE entry' = entry /\ unreported' = unreported
      BY <1>4 DEF SelfTestExpires, Off, passive, nvs
    <2>2. /\ entry[running] = "pending" /\ ~Proven(running)
          /\ unreported = None /\ attempt = [source |-> Described(passive), target |-> Described(running)]
      BY <2>1 DEF SlotInv, EvidenceInv, Recorded, Proven
    <2>3. bootSlot # passive
      BY <1>r, <2>2 DEF ProvenInv
    <2>4. entry'[running'] \in {"pending", "invalid"} /\ (entry'[running'] = "pending" => unreported' = None)
          /\ (entry'[running'] = "invalid" => unreported' = Running)
      BY <1>r, <2>1, <2>2
    <2>5. Described(passive)' = Described(passive) /\ Described(running)' = Described(running)
      BY <2>1 DEF Described
    <2> QED
      BY <2>1, <2>2, <2>3, <2>4, <2>5 DEF EvidenceInv, RollbackReported, Selected, Proven, Recorded, Running
  <1>5. CASE BeginDownload \/ \E bytes \in {target, Foreign} : ReceiveChunk(bytes)
    <2>1. /\ pc \in {"begin", "download"} /\ pc' \in {"download", "record"}
          /\ image'[running] = image[running] /\ UNCHANGED <<entry, running, attempt, rollback, unreported>>
      BY <1>5, DownloadFacts
    <2>2. Described(running)' = Described(running) /\ Running' = Running
      BY <2>1 DEF Described, Running
    <2> QED
      BY <1>h, <1>p, <2>1, <2>2 DEF EvidenceInv, RollbackReported, Recorded, Undamaged
  <1>6. CASE Finish \/ ResumeClear
    <2>1. /\ pc \in {"download", "finished"} /\ pc' \in {"finished", "persist"}
          /\ entry'[running] = entry[running]
          /\ UNCHANGED <<image, running, attempt, rollback, unreported, damage>>
      <3>1. CASE Finish
        BY <1>r, <3>1 DEF Finish, ToTask, nvs, ram, reports, history
      <3>2. CASE ResumeClear
        BY <3>2 DEF ResumeClear, ToTask, flash, ram, reports, history
      <3> QED
        BY <1>6, <3>1, <3>2
    <2>2. Described(running)' = Described(running) /\ Running' = Running
      BY <2>1 DEF Described, Running
    <2> QED
      BY <1>p, <2>1, <2>2 DEF EvidenceInv, RollbackReported, Recorded
  <1>7. CASE AttemptSave
    <2>1. /\ pc = "persist" /\ pc' = "restart" /\ UNCHANGED <<image, entry, running, target>>
          /\ attempt' = [source |-> Running, target |-> target] /\ unreported' = None
      BY <1>7 DEF AttemptSave, ToTask, flash, ram
    <2>2. target # Running
      BY <2>1 DEF TaskInv
    <2>3. Running' = Running /\ Described(running)' = Running
      BY <2>1 DEF Described, Running
    <2> QED
      BY <1>p, <2>1, <2>2, <2>3 DEF EvidenceInv, RollbackReported, Recorded
  <1>8. CASE AttemptSaveFails \/ AcknowledgeFails
    BY <1>8 DEF AttemptSaveFails, AcknowledgeFails, Fault, Undamaged
  <1>9. CASE Restart \/ PowerCut
    <2>1. /\ pc # "off" /\ pc' = "off" /\ UNCHANGED <<image, entry, bootSlot, running, attempt, unreported>>
          /\ passive' = passive
          /\ pc \in {"finished", "persist"} => "cut_unmarked" \in damage'
      BY <1>9 DEF Restart, PowerCut, Off, Fault, flash, nvs, passive, history
    <2>2. pc \notin {"finished", "persist"}
      BY <2>1 DEF Undamaged
    <2>3. entry[running] # "invalid"
      BY <2>1 DEF ProvenInv, OnTrial, Proven
    <2>4. Selected => unreported = None /\ attempt = [source |-> Described(running), target |-> Described(passive)]
      <3>1. Selected => pc = "restart"
        BY <2>1, <2>2 DEF SlotInv, Selected, Candidate, Discarded
      <3>2. pc = "restart" => Described(passive) = target
        BY IntactDescribed DEF TaskInv
      <3> QED
        BY <3>1, <3>2 DEF EvidenceInv, Recorded
    <2>5. /\ Described(passive)' = Described(passive) /\ Described(running)' = Described(running)
          /\ (Selected' <=> Selected) /\ (Proven(running)' <=> Proven(running))
      BY <2>1 DEF Described, Selected, Candidate, Proven, Trusted
    <2> QED
      BY <2>1, <2>3, <2>4, <2>5 DEF EvidenceInv, RollbackReported, Recorded
  <1>10. CASE Acknowledge
    <2>1. /\ pc # "off" /\ sent /\ attempt' = NoAttempt /\ unreported' = None
          /\ UNCHANGED <<entry, running, pc>> /\ (pc = "restart" => "late_ack" \in damage')
      BY <1>10 DEF Acknowledge, Fault, flash, ram, task
    <2>2. pc \notin {"restart", "selftest"}
      BY <2>1 DEF TaskInv, Undamaged
    <2> QED
      BY <1>p, <2>1, <2>2 DEF EvidenceInv, RollbackReported
  <1> QED
    BY <1>1, <1>2, <1>3, <1>4, <1>5, <1>6, <1>7, <1>8, <1>9, <1>10, NextCases

-----------------------------------------------------------------------------
(* The theorems *)

\* The invariant holds on a board as it leaves the factory.
LEMMA InitInv ==
    ASSUME Init
    PROVE  IInv
  <1> USE VersionsAssumption, SizesAssumption, BoundsAssumption
  <1>1. /\ running = 0 /\ passive = 1 /\ pc = "off" /\ bootSlot = 0
        /\ entry[0] = "undefined" /\ entry[1] = "undefined"
        /\ image[0] = Whole(First) /\ image[1] = <<>>
    BY DEF Init, passive, Other, Slots
  <1>2. Trusted(0) /\ Intact(0)
    BY <1>1 DEF Trusted, Intact
  <1>3. TypeOK
    <2>1. Whole(First) \in Seq(Cells) /\ Len(Whole(First)) <= Chunks
      BY WholeImage DEF Cells, Builds
    <2>2. <<>> \in Seq(Cells) /\ Len(<<>>) <= Chunks
      OBVIOUS
    <2>3. image \in [Slots -> UNION {[1..n -> Cells] : n \in 0..Chunks}]
      <3>1. /\ Whole(First) \in UNION {[1..n -> Cells] : n \in 0..Chunks}
            /\ <<>> \in UNION {[1..n -> Cells] : n \in 0..Chunks}
        BY <2>1, <2>2, ImageType
      <3>2. image = [s \in Slots |-> IF s = 0 THEN Whole(First) ELSE <<>>]
        BY DEF Init
      <3> QED
        BY <3>1, <3>2, Zenon
    <2>4. NoAttempt \in Attempt /\ NoResume \in [version : Versions \cup {None}, len : 0..Chunks]
      BY DEF NoAttempt, NoResume, Attempt
    <2>5. entry \in [Slots -> EntryStates] /\ pc \in Locations /\ {bootSlot, running} \subseteq Slots
      BY DEF Init, Slots, EntryStates, Locations
    <2>6. /\ got \in 0..Chunks /\ tries \in 0..Attempts
          /\ reboots \in 0..MaxReboots /\ releases \in 0..MaxReleases
      BY DEF Init
    <2>7. /\ {target, refused} \subseteq Versions \cup {None} /\ manifest \in Versions
          /\ gaveUp \subseteq Builds /\ unreported \in Builds \cup {None} /\ damage \subseteq DamageKinds
      BY DEF Init
    <2>8. /\ {pending, busy, trigger, asking, sent, manual} \subseteq BOOLEAN
          /\ attempt = NoAttempt /\ rollback = NoAttempt /\ resume = NoResume
      BY DEF Init
    <2> QED
      BY <2>3, <2>4, <2>5, <2>6, <2>7, <2>8 DEF TypeOK, Cells
  <1>4. TaskInv
    BY DEF Init, TaskInv, Sealed
  <1>5. SlotInv
    BY <1>1, <1>2, RunningPassive, <1>3 DEF Init, SlotInv
  <1>6. AbortedInv
    BY DEF Init, AbortedInv
  <1>7. ProvenInv
    BY <1>1, <1>2 DEF ProvenInv, Proven
  <1>8. AttemptInv /\ SourceRuns /\ NoFalseRollback
    BY DEF Init, AttemptInv, SourceRuns, NoFalseRollback
  <1>9. EvidenceInv /\ RollbackReported /\ RefusedWasRolledBack
    BY <1>1 DEF Init, EvidenceInv, Selected, RollbackReported, RefusedWasRolledBack
  <1> QED
    BY <1>3, <1>4, <1>5, <1>6, <1>7, <1>8, <1>9 DEF IInv

\* Every step keeps the invariant, a power cut at any point included.
LEMMA NextInv ==
    ASSUME IInv, [Next]_vars
    PROVE  IInv'
  <1>1. /\ TypeOK /\ TaskInv /\ SlotInv /\ AbortedInv /\ SourceRuns /\ NoFalseRollback
        /\ RollbackReported /\ RefusedWasRolledBack
    BY DEF IInv
  <1>2. damage \subseteq damage'
    BY HistoryGrows
  <1>3. TypeOK' /\ TaskInv' /\ SlotInv' /\ AbortedInv' /\ RefusedWasRolledBack'
    BY <1>1, TypeStep, TaskInvStep, SlotInvStep, AbortedStep, RefusedStep
  <1>4. "save_failed" \notin damage' => ProvenInv'
    BY <1>1, <1>2, ProvenStep DEF IInv
  <1>5. Clean => AttemptInv
    BY DEF IInv
  <1>6. Clean' => AttemptInv'
    <2>1. Clean' => Clean
      BY <1>2 DEF Clean
    <2> QED
      BY <1>1, <1>5, <2>1, AttemptStep
  <1>7. SourceRuns' /\ NoFalseRollback'
    BY <1>1, <1>5, NoFalseStep
  <1>8. Undamaged' => EvidenceInv' /\ RollbackReported'
    <2>1. Undamaged' => Undamaged /\ "save_failed" \notin damage
      BY <1>2 DEF Undamaged
    <2> QED
      BY <1>1, <2>1, EvidenceStep DEF IInv
  <1>9. RollbackReported'
    BY <1>8 DEF RollbackReported, Undamaged
  <1> QED
    BY <1>3, <1>4, <1>6, <1>7, <1>8, <1>9 DEF IInv

\* The invariant holds throughout.
THEOREM Invariance == Spec => []IInv
  <1>1. Init => IInv
    BY InitInv
  <1>2. IInv /\ [Next]_vars => IInv'
    BY NextInv
  <1> QED
    BY <1>1, <1>2, PTL DEF Spec

\* Every variable keeps its type: in particular a slot never holds more than an
\* image, and the attempts of a download stay within DOWNLOAD_ATTEMPTS.
THEOREM TypeCorrect == Spec => []TypeOK
  <1>1. IInv => TypeOK
    BY DEF IInv
  <1> QED
    BY <1>1, Invariance, PTL

\* What runs is always a whole build, and a whole build of a version that was announced
\* unless the board was once unable to record an attempt, whatever an edge cache served
\* and wherever a download was interrupted and resumed (ota.c:710-776).
THEOREM OnlyAnnounced == Spec => []OnlyAnnouncedRuns
  <1>1. IInv => OnlyAnnouncedRuns
    BY DEF IInv, SlotInv, ProvenInv, Trusted, OnlyAnnouncedRuns
  <1> QED
    BY <1>1, Invariance, PTL

\* Unless the board was once unable to record an attempt, there is always an image that
\* has proved itself, running or kept to go back to, wherever power is lost (ota.c:946-992).
THEOREM WayBack == Spec => []("save_failed" \notin damage => Proven(running) \/ Proven(passive))
  <1>1. IInv => ("save_failed" \notin damage => Proven(running) \/ Proven(passive))
    BY DEF IInv, ProvenInv
  <1> QED
    BY <1>1, Invariance, PTL

\* What the board says of rollbacks is so (ota.c:912-926, 1116-1135): each is reported
\* until it is acknowledged, none is invented, and nothing else is refused as one.
THEOREM RollbacksTold == Spec => []RollbacksToldTruly
  <1>1. IInv => RollbacksToldTruly
    BY DEF IInv, RollbacksToldTruly
  <1> QED
    BY <1>1, Invariance, PTL
=============================================================================
