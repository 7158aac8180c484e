------------------------ MODULE WifiSupervisorProofs ------------------------
(***************************************************************************)
(* For any networks, numbers of attempts, saves and disturbances and any   *)
(* number of events that are still to be handled, what main/wifi.c shows   *)
(* of the link is so once the driver's reports are handled, and a station  *)
(* that has its address is not given up.                                   *)
(***************************************************************************)
EXTENDS WifiSupervisor, TLAPS, SequenceTheorems

Kinds == {"sta_start", "disconnected", "got_ip"}

\* The station has an address, or keeps one whose lease ran out.
HasAddress == radio.link \in {"ip", "leaseless"}

\* The newest event that is not handled.
Newest(f, e) == f # <<>> /\ f[Len(f)] = e

\* The radio is off while the supervisor is about to start it, and the access point
\* is left alone.
RadioInv ==
    /\ At("start_sta") \/ At("start_ap") => radio = Off
    /\ At("ap") => /\ radio.mode = "ap" /\ events = <<>>
                   /\ shown = [state |-> "ap", ip |-> "ap"]

\* The station's start is reported before anything else.
StartInv ==
    /\ \A n \in 1..Len(events) : events[n] = "sta_start" => n = 1
    /\ events # <<>> /\ Head(events) = "sta_start" => shown.ip # "sta"

\* The newest report, or once all are handled the address that is shown and
\* BIT_GOT_IP, are those of the link.
ReportInv ==
    /\ events # <<>> => (Newest(events, "got_ip") <=> HasAddress)
    /\ events = <<>> => /\ shown.ip = "sta" <=> HasAddress
                        /\ "got_ip" \in bits <=> HasAddress
    /\ "got_ip" \in bits => HasAddress \/ Newest(events, "disconnected")

\* A station the supervisor takes for joined is, or it has been told or will be.
JoinedInv ==
    /\ At("steady") => shown.state = "connected"
    /\ At("steady") \/ (At("joined") /\ "got_ip" \in task.woken) =>
          HasAddress \/ "disconnected" \in bits \/ Newest(events, "disconnected")

\* An address the supervisor does not wait for any more came after its last wait.
LateInv ==
    \/ At("joined") /\ "got_ip" \notin task.woken /\ task.attempt = task.limit
    \/ At("backoff") /\ task.attempt = task.limit
    \/ At("stop_ap") /\ creds.ssid # None
    => (HasAddress => lateIp \/ Newest(events, "got_ip"))

\* The inductive invariant.
IInv == TypeOK /\ RadioInv /\ StartInv /\ ReportInv /\ JoinedInv /\ LateInv

-----------------------------------------------------------------------------
(* The queue of events *)

\* What is posted becomes the newest event and leaves the others where they are.
LEMMA Posted ==
    ASSUME NEW f \in Seq(Kinds), NEW e \in Kinds
    PROVE  /\ Append(f, e) \in Seq(Kinds)
           /\ Append(f, e) # <<>>
           /\ Len(Append(f, e)) = Len(f) + 1
           /\ \A x : Newest(Append(f, e), x) <=> x = e
           /\ \A n \in 1..Len(f) : Append(f, e)[n] = f[n]
           /\ Append(f, e)[Len(f) + 1] = e
           /\ f # <<>> => Head(Append(f, e)) = Head(f)
           /\ f = <<>> => Head(Append(f, e)) = e
  <1>1. /\ Append(f, e) \in Seq(Kinds) /\ Append(f, e) # <<>>
        /\ Len(Append(f, e)) = Len(f) + 1 /\ Len(f) \in Nat
        /\ \A n \in 1..Len(f) : Append(f, e)[n] = f[n]
        /\ Append(f, e)[Len(f) + 1] = e
    BY AppendProperties, LenProperties
  <1>2. \A x : Newest(Append(f, e), x) <=> x = e
    BY <1>1 DEF Newest
  <1>3. Head(Append(f, e)) = Append(f, e)[1]
    BY <1>1, HeadTailProperties
  <1>4. f # <<>> => Head(f) = f[1] /\ 1 \in 1..Len(f)
    BY EmptySeq, <1>1, HeadTailProperties
  <1>5. f = <<>> => Len(f) = 0
    BY EmptySeq
  <1> QED
    BY <1>1, <1>2, <1>3, <1>4, <1>5

\* When the first event is handled the newest one stays, unless it was the only one.
LEMMA Handled ==
    ASSUME NEW f \in Seq(Kinds), f # <<>>
    PROVE  /\ Tail(f) \in Seq(Kinds)
           /\ Len(Tail(f)) = Len(f) - 1
           /\ Head(f) \in Kinds
           /\ Tail(f) = <<>> => \A x : Newest(f, x) <=> x = Head(f)
           /\ Tail(f) # <<>> => \A x : Newest(Tail(f), x) <=> Newest(f, x)
           /\ \A n \in 1..Len(Tail(f)) : Tail(f)[n] = f[n + 1] /\ n + 1 \in 1..Len(f)
           /\ Tail(f) # <<>> => Head(Tail(f)) = f[2] /\ 2 \in 1..Len(f)
  <1>1. /\ Tail(f) \in Seq(Kinds) /\ Len(Tail(f)) = Len(f) - 1
        /\ Head(f) = f[1] /\ Len(f) \in Nat \ {0}
        /\ \A n \in 1..Len(Tail(f)) : Tail(f)[n] = f[n + 1]
    BY HeadTailProperties, LenProperties, EmptySeq
  <1>2. Head(f) \in Kinds
    BY <1>1, ElementOfSeq
  <1>3. Tail(f) = <<>> <=> Len(f) = 1
    BY <1>1, EmptySeq
  <1>4. Tail(f) # <<>> => Head(Tail(f)) = Tail(f)[1] /\ 1 \in 1..Len(Tail(f))
    BY <1>1, <1>3, HeadTailProperties
  <1> QED
    BY <1>1, <1>2, <1>3, <1>4 DEF Newest

-----------------------------------------------------------------------------
(* Types *)

\* A connect starts a join, of a station only.
LEMMA ConnectType ==
    ASSUME TypeOK
    PROVE  /\ WithConnect(radio) \in [mode : {"off", "sta", "ap"}, link : Links, opens : BOOLEAN]
           /\ WithConnect(radio).mode = radio.mode
           /\ radio.mode # "sta" => WithConnect(radio).link = "idle"
           /\ WithConnect(radio).link \in {"ip", "leaseless"} <=> HasAddress
  BY DEF TypeOK, WithConnect, Links, HasAddress

\* Every step of the event handler keeps the types.
LEMMA HandleEventType ==
    ASSUME TypeOK, HandleEvent
    PROVE  TypeOK'
  <1> USE DEF TypeOK, HandleEvent, Bits, Addresses, Links
  <1>1. events' \in Seq(Kinds) /\ Len(events') <= MaxEvents
    <2>1. Len(events) \in Nat
      BY LenProperties
    <2> QED
      BY <2>1, Handled, BoundsAssumption DEF Kinds
  <1>2. Head(events) \in Kinds
    BY Handled DEF Kinds
  <1>3. CASE Head(events) = "sta_start"
    <2>1. radio' = WithConnect(radio) /\ UNCHANGED <<bits, shown, lateIp, nvs, creds, task, save, budget>>
      BY <1>3
    <2>2. /\ radio' \in [mode : {"off", "sta", "ap"}, link : Links, opens : BOOLEAN]
          /\ radio'.mode # "sta" => radio'.link = "idle"
      BY <2>1, ConnectType
    <2> QED
      BY <1>1, <2>1, <2>2 DEF Kinds
  <1>4. CASE Head(events) = "disconnected"
    <2>1. /\ shown' = [shown EXCEPT !.ip = "none"] /\ bits' = AfterDisconnect(bits)
          /\ UNCHANGED <<radio, lateIp, nvs, creds, task, save, budget>>
      BY <1>4
    <2>2. shown' \in [state : States, ip : Addresses] /\ bits' \subseteq Bits
      BY <2>1 DEF AfterDisconnect
    <2> QED
      BY <1>1, <2>1, <2>2 DEF Kinds
  <1>5. CASE Head(events) = "got_ip"
    <2>1. lateIp' = PastLastWait
      BY <1>5
    <2>2. lateIp' \in BOOLEAN
      BY <2>1, Zenon DEF PastLastWait
    <2>3. /\ shown' = [shown EXCEPT !.ip = "sta"] /\ bits' = (bits \ {"disconnected"}) \cup {"got_ip"}
          /\ UNCHANGED <<radio, nvs, creds, task, save, budget>>
      BY <1>5
    <2>4. shown' \in [state : States, ip : Addresses] /\ bits' \subseteq Bits
      BY <2>3
    <2> QED
      BY <1>1, <2>2, <2>3, <2>4 DEF Kinds
  <1> QED
    BY <1>2, <1>3, <1>4, <1>5 DEF Kinds

\* So does every step of the driver.
LEMMA DriverType ==
    ASSUME TypeOK, Driver
    PROVE  TypeOK'
  <1> USE DEF TypeOK, Links
  <1>1. \A e \in Kinds : Post(e) => events' \in Seq(Kinds) /\ Len(events') <= MaxEvents
    <2>1. Len(events) \in Nat
      BY LenProperties
    <2> QED
      BY <2>1, Posted, BoundsAssumption DEF Post, Kinds
  <1>2. CASE Associates
    BY <1>2 DEF Associates
  <1>3. CASE JoinFails
    BY <1>1, <1>3 DEF JoinFails, Kinds
  <1>4. CASE AcquiresAddress
    BY <1>1, <1>4 DEF AcquiresAddress, Kinds
  <1>5. Disturb => budget' \in [saves : 0..MaxSaves, disturbances : 0..MaxDisturbances]
    BY BoundsAssumption DEF Disturb
  <1>6. CASE LinkDrops
    BY <1>1, <1>5, <1>6 DEF LinkDrops, Kinds
  <1>7. CASE LeaseLost
    BY <1>5, <1>7 DEF LeaseLost
  <1> QED
    BY <1>2, <1>3, <1>4, <1>6, <1>7 DEF Driver

\* So does every step of wifi_set_credentials.
LEMMA SaveType ==
    ASSUME TypeOK, SaverStep \/ \E s \in Ssids : SaveSsid(s)
    PROVE  TypeOK'
  <1> USE DEF TypeOK, Credentials, Bits
  <1>1. ASSUME NEW s \in Ssids, SaveSsid(s) PROVE TypeOK'
    <2>1. budget' \in [saves : 0..MaxSaves, disturbances : 0..MaxDisturbances]
      <3>1. budget.saves \in 0..MaxSaves /\ budget.saves > 0
        BY <1>1 DEF SaveSsid
      <3>2. budget.saves - 1 \in 0..MaxSaves
        BY <3>1, BoundsAssumption
      <3> QED
        BY <1>1, <3>2 DEF SaveSsid
    <2>2. nvs' \in Credentials
      BY <1>1 DEF SaveSsid
    <2>3. save' \in [pc : {"idle", "pass", "wake"}, ssid : Ssids,
                     ok : BOOLEAN, overtaken : BOOLEAN]
      BY <1>1 DEF SaveSsid
    <2> QED
      BY <1>1, <2>1, <2>2, <2>3 DEF SaveSsid
  <1>2. CASE SavePass
    BY <1>2 DEF SavePass
  <1>3. CASE SaveFails
    BY <1>3 DEF SaveFails
  <1>4. CASE SaveWakes
    <2>1. (task.pc \in {"load_pass", "clear"}) \in BOOLEAN
      OBVIOUS
    <2>2. save' \in [pc : {"idle", "pass", "wake"}, ssid : Ssids,
                     ok : BOOLEAN, overtaken : BOOLEAN]
      BY <1>4, <2>1 DEF SaveWakes
    <2> QED
      BY <1>4, <2>2 DEF SaveWakes
  <1> QED
    BY <1>1, <1>2, <1>3, <1>4 DEF SaverStep

\* The attempts stay within their limit.
Tasks == [pc : Steps, attempt : 1..BOOT_MAX_ATTEMPTS + STEADY_MAX_ATTEMPTS,
          limit : {BOOT_MAX_ATTEMPTS, STEADY_MAX_ATTEMPTS}, woken : SUBSET Bits]

\* Counting an attempt, and starting over, keep the attempts within their limit.
LEMMA AttemptsType ==
    ASSUME NEW t \in Tasks, t.attempt <= t.limit
    PROVE  /\ NextAttempt(t) \in Tasks /\ NextAttempt(t).attempt <= NextAttempt(t).limit
           /\ \A l \in {BOOT_MAX_ATTEMPTS, STEADY_MAX_ATTEMPTS} :
                 LET u == [t EXCEPT !.pc = "join", !.attempt = 1, !.limit = l]
                 IN  u \in Tasks /\ u.attempt <= u.limit
  <1>1. /\ BOOT_MAX_ATTEMPTS \in Nat /\ BOOT_MAX_ATTEMPTS >= 1
        /\ STEADY_MAX_ATTEMPTS \in Nat /\ STEADY_MAX_ATTEMPTS >= 1
    BY AttemptsAssumption
  <1>2. /\ t.limit \in Nat /\ t.attempt \in Nat /\ t.attempt >= 1
        /\ t.limit <= BOOT_MAX_ATTEMPTS + STEADY_MAX_ATTEMPTS
    BY <1>1 DEF Tasks
  <1>3. ASSUME t.attempt < t.limit
        PROVE  NextAttempt(t) \in Tasks /\ NextAttempt(t).attempt <= NextAttempt(t).limit
    <2>1. NextAttempt(t) = [t EXCEPT !.pc = "join", !.attempt = t.attempt + 1]
      BY <1>3 DEF NextAttempt
    <2>2. t.attempt + 1 \in 1..BOOT_MAX_ATTEMPTS + STEADY_MAX_ATTEMPTS
      BY <1>1, <1>2, <1>3
    <2>3. NextAttempt(t) \in Tasks /\ NextAttempt(t).attempt = t.attempt + 1
          /\ NextAttempt(t).limit = t.limit
      BY <2>1, <2>2 DEF Tasks, Steps
    <2>4. t.attempt + 1 <= t.limit
      BY <1>2, <1>3
    <2> QED
      BY <2>3, <2>4
  <1>4. ASSUME ~(t.attempt < t.limit)
        PROVE  NextAttempt(t) \in Tasks /\ NextAttempt(t).attempt <= NextAttempt(t).limit
    <2>1. NextAttempt(t) = [t EXCEPT !.pc = "stop_ap"]
      BY <1>4 DEF NextAttempt
    <2>2. NextAttempt(t) \in Tasks /\ NextAttempt(t).attempt = t.attempt
          /\ NextAttempt(t).limit = t.limit
      BY <2>1 DEF Tasks, Steps
    <2> QED
      BY <1>2, <2>2
  <1>5. ASSUME NEW l \in {BOOT_MAX_ATTEMPTS, STEADY_MAX_ATTEMPTS},
               NEW u, u = [t EXCEPT !.pc = "join", !.attempt = 1, !.limit = l]
        PROVE  u \in Tasks /\ u.attempt <= u.limit
    <2>1. 1 \in 1..BOOT_MAX_ATTEMPTS + STEADY_MAX_ATTEMPTS /\ 1 <= l
      BY <1>1
    <2>2. u \in Tasks
      BY <1>5, <2>1 DEF Tasks, Steps
    <2>3. u.attempt = 1 /\ u.limit = l
      BY <1>5 DEF Tasks
    <2> QED
      BY <2>1, <2>2, <2>3
  <1>6. NextAttempt(t) \in Tasks /\ NextAttempt(t).attempt <= NextAttempt(t).limit
    BY <1>3, <1>4
  <1> QED
    BY <1>5, <1>6

\* So does every step of the supervisor, which never counts more attempts than it may
\* make, while the radio is off where it is about to be started.
LEMMA TaskType ==
    ASSUME TypeOK, RadioInv, TaskStep
    PROVE  TypeOK'
  <1> USE AttemptsAssumption DEF TypeOK, Steps, At, Goto
  <1>1. CASE LoadSsid
    BY <1>1 DEF LoadSsid, Credentials
  <1>2. CASE LoadPass
    BY <1>2 DEF LoadPass, Credentials
  <1>3. CASE ClearReconfig
    BY <1>3 DEF ClearReconfig
  <1>4. CASE Decide
    <2>1. \/ task' = [task EXCEPT !.pc = "stop_ap"] /\ shown' = shown
          \/ /\ task' = [task EXCEPT !.pc = "stop_sta"]
             /\ shown' = [shown EXCEPT !.state = "connecting"]
      BY <1>4, Zenon DEF Decide
    <2>2. shown' \in [state : States, ip : Addresses]
      BY <2>1 DEF States
    <2>3. UNCHANGED <<nvs, creds, bits, radio, events, save, lateIp, budget>>
      BY <1>4 DEF Decide
    <2> QED
      BY <2>1, <2>2, <2>3
  <1>5. CASE StopRadio
    <2>1. StopEvents \in Seq(Kinds)
      <3>1. <<>> \in Seq(Kinds) /\ <<"disconnected">> \in Seq(Kinds)
        BY DEF Kinds
      <3> QED
        BY <3>1 DEF StopEvents
    <2>2. Len(events) \in Nat /\ Len(StopEvents) \in Nat
      BY <2>1, LenProperties
    <2>3. events' \in Seq(Kinds) /\ Len(events') <= MaxEvents
      BY <1>5, <2>1, <2>2, ConcatProperties DEF StopRadio, Kinds
    <2>4. /\ radio' = Off /\ task' \in {[task EXCEPT !.pc = "start_sta"], [task EXCEPT !.pc = "start_ap"]}
          /\ UNCHANGED <<nvs, creds, bits, shown, save, lateIp, budget>>
      BY <1>5, Zenon DEF StopRadio
    <2>5. radio' \in [mode : {"off", "sta", "ap"}, link : Links, opens : BOOLEAN] /\ radio'.link = "idle"
      BY <2>4 DEF Off, Links
    <2> QED
      BY <2>3, <2>4, <2>5 DEF Kinds
  <1>6. CASE StartSta
    <2>1. Len(events) \in Nat
      BY LenProperties
    <2>2. events' \in Seq(Kinds) /\ Len(events') <= MaxEvents
      BY <1>6, <2>1, Posted, BoundsAssumption DEF StartSta, Post, Kinds
    <2>3. Opens(creds) \in BOOLEAN
      BY DEF Opens
    <2>4. radio' \in [mode : {"off", "sta", "ap"}, link : Links, opens : BOOLEAN]
      BY <1>6, <2>3 DEF StartSta
    <2>5. radio'.mode = "sta"
      BY <1>6 DEF StartSta
    <2>6. /\ task' = [task EXCEPT !.pc = "join", !.attempt = 1, !.limit = BOOT_MAX_ATTEMPTS]
          /\ bits' \subseteq Bits
          /\ UNCHANGED <<nvs, creds, shown, save, lateIp, budget>>
      BY <1>6 DEF StartSta
    <2>7. task' \in Tasks /\ task'.attempt <= task'.limit
      BY <2>6, AttemptsType DEF Tasks
    <2> QED
      BY <2>2, <2>4, <2>5, <2>6, <2>7 DEF Kinds, Tasks
  <1>7. CASE StartAp
    <2>1. /\ radio' = [radio EXCEPT !.mode = "ap"] /\ shown' = [state |-> "ap", ip |-> "ap"]
          /\ task' = [task EXCEPT !.pc = "ap"]
          /\ UNCHANGED <<nvs, creds, bits, events, save, lateIp, budget>>
      BY <1>7 DEF StartAp
    <2>2. radio = Off
      BY <1>7 DEF StartAp, RadioInv
    <2>3. radio' \in [mode : {"off", "sta", "ap"}, link : Links, opens : BOOLEAN] /\ radio'.link = "idle"
      BY <2>1, <2>2 DEF Off
    <2>4. shown' \in [state : States, ip : Addresses]
      BY <2>1 DEF States, Addresses
    <2> QED
      BY <2>1, <2>3, <2>4
  <1>8. CASE ApWait
    BY <1>8 DEF ApWait
  <1>9. CASE JoinWait
    BY <1>9 DEF JoinWait
  <1>10. CASE JoinInterrupted
    BY <1>10 DEF JoinInterrupted
  <1>11. CASE Joined
    BY <1>11 DEF Joined, States
  <1>12. CASE JoinFailed
    BY <1>12 DEF JoinFailed, AfterFailure
  <1>13. CASE BackoffInterrupted
    BY <1>13 DEF BackoffInterrupted
  <1>14. CASE Retry
    <2>1. task' \in Tasks /\ task'.attempt <= task'.limit
      BY <1>14, AttemptsType DEF Retry, Tasks
    <2> QED
      BY <1>14, <2>1, ConnectType DEF Retry, Tasks
  <1>15. CASE Steady
    <2>1. CASE ~DropNoticed(bits)
      BY <1>15, <2>1 DEF Steady
    <2>2. CASE DropNoticed(bits)
      <3>1. /\ radio' = WithConnect(radio) /\ bits' = bits \ {"disconnected", "reconfig"}
            /\ shown' = [shown EXCEPT !.state = "connecting"]
            /\ task' = [task EXCEPT !.pc = "join", !.attempt = 1,
                                    !.limit = STEADY_MAX_ATTEMPTS]
            /\ UNCHANGED <<nvs, creds, events, save, lateIp, budget>>
        BY <1>15, <2>2 DEF Steady
      <3>2. shown' \in [state : States, ip : Addresses]
        BY <3>1 DEF States
      <3>3. task' \in Tasks /\ task'.attempt <= task'.limit
        BY <3>1, AttemptsType DEF Tasks
      <3> QED
        BY <3>1, <3>2, <3>3, ConnectType DEF Tasks
    <2> QED
      BY <2>1, <2>2
  <1> QED
    BY <1>1, <1>2, <1>3, <1>4, <1>5, <1>6, <1>7, <1>8, <1>9, <1>10, <1>11, <1>12,
       <1>13, <1>14, <1>15 DEF TaskStep

\* Every step keeps the type invariant.
LEMMA TypeStep ==
    ASSUME TypeOK, RadioInv, [Next]_vars
    PROVE  TypeOK'
  <1>1. CASE UNCHANGED vars
    BY <1>1 DEF TypeOK, vars
  <1> QED
    BY <1>1, HandleEventType, DriverType, SaveType, TaskType DEF Next

-----------------------------------------------------------------------------
(* What the driver reports *)

LinkInv == RadioInv /\ StartInv /\ ReportInv /\ JoinedInv /\ LateInv

\* The driver changes the link and reports it at once.
LEMMA DriverStep ==
    ASSUME IInv, Driver
    PROVE  LinkInv'
  <1> USE DEF At
  <1>1. /\ events \in Seq(Kinds) /\ Len(events) \in Nat
        /\ "got_ip" \in Kinds /\ "disconnected" \in Kinds
    BY LenProperties DEF IInv, TypeOK, Kinds
  <1>2. ASSUME NEW e \in {"got_ip", "disconnected"},
               events' = Append(events, e),
               HasAddress' <=> e = "got_ip",
               radio' = [radio EXCEPT !.link = radio'.link],
               UNCHANGED <<bits, shown, task, creds, lateIp>>,
               ~At("ap"), ~At("start_sta"), ~At("start_ap")
        PROVE  LinkInv'
    <2>1. events' # <<>> /\ (\A x : Newest(events', x) <=> x = e)
      BY <1>1, <1>2, Posted
    <2>2. RadioInv'
      BY <1>2 DEF RadioInv
    <2>3. StartInv'
      <3>1. \A n \in 1..Len(events') : events'[n] = "sta_start" => n = 1
        BY <1>1, <1>2, Posted DEF IInv, StartInv
      <3>2. Head(events') = "sta_start" => shown'.ip # "sta"
        BY <1>1, <1>2, Posted DEF IInv, StartInv
      <3> QED
        BY <3>1, <3>2 DEF StartInv
    <2>4. ReportInv'
      BY <1>2, <2>1 DEF ReportInv
    <2>5. JoinedInv'
      BY <1>2, <2>1 DEF IInv, JoinedInv
    <2>6. LateInv'
      BY <1>2, <2>1 DEF LateInv
    <2> QED
      BY <2>2, <2>3, <2>4, <2>5, <2>6 DEF LinkInv
  <1>3. radio.link # "idle" => ~At("ap") /\ ~At("start_sta") /\ ~At("start_ap")
    BY DEF IInv, TypeOK, RadioInv, Off
  <1>4. radio \in [mode : {"off", "sta", "ap"}, link : Links, opens : BOOLEAN]
    BY DEF IInv, TypeOK
  <1>5. ASSUME Associates \/ LeaseLost PROVE LinkInv'
    <2>1. /\ HasAddress' <=> HasAddress
          /\ UNCHANGED <<bits, shown, task, creds, lateIp, events>>
          /\ radio' = [radio EXCEPT !.link = radio'.link]
          /\ radio.link # "idle"
      BY <1>4, <1>5 DEF Associates, LeaseLost, HasAddress
    <2> QED
      BY <1>3, <2>1 DEF IInv, LinkInv, RadioInv, StartInv, ReportInv, JoinedInv, LateInv
  <1>6. CASE JoinFails
    BY <1>2, <1>3, <1>4, <1>6 DEF JoinFails, Post, HasAddress
  <1>7. CASE AcquiresAddress
    BY <1>2, <1>3, <1>4, <1>7 DEF AcquiresAddress, Post, HasAddress
  <1>8. CASE LinkDrops
    BY <1>2, <1>3, <1>4, <1>8 DEF LinkDrops, Post, HasAddress
  <1> QED
    BY <1>5, <1>6, <1>7, <1>8 DEF Driver

\* The handler passes a report on, by the bits and the address that is shown.
LEMMA HandleEventStep ==
    ASSUME IInv, HandleEvent
    PROVE  LinkInv'
  <1> USE DEF At
  <1>1. events \in Seq(Kinds) /\ events # <<>> /\ events' = Tail(events)
    BY DEF IInv, TypeOK, Kinds, HandleEvent
  <1>2. UNCHANGED <<task, creds>>
    BY DEF HandleEvent
  <1>3. ~At("ap")
    BY <1>1 DEF IInv, RadioInv
  <1>4. HasAddress' <=> HasAddress
    <2>1. radio' = radio \/ radio' = WithConnect(radio)
      BY <1>1, Handled DEF HandleEvent, Kinds
    <2> QED
      BY <2>1, ConnectType DEF IInv, HasAddress
  <1>5. RadioInv'
    <2>1. radio = Off => WithConnect(radio) = Off
      BY DEF WithConnect, Off
    <2>2. radio' = radio \/ radio' = WithConnect(radio)
      BY <1>1, Handled DEF HandleEvent, Kinds
    <2> QED
      BY <1>2, <1>3, <2>1, <2>2 DEF IInv, RadioInv
  <1>6. StartInv'
    <2>1. \A n \in 1..Len(events') : events'[n] # "sta_start"
      <3> TAKE n \in 1..Len(events')
      <3>1. events'[n] = events[n + 1] /\ n + 1 \in 1..Len(events) /\ n + 1 # 1
        BY <1>1, Handled
      <3> QED
        BY <3>1 DEF IInv, StartInv
    <2>2. events' # <<>> => Head(events') = events'[1] /\ 1 \in 1..Len(events')
      BY <1>1, Handled, EmptySeq, HeadTailProperties, LenProperties
    <2> QED
      BY <2>1, <2>2 DEF StartInv
  <1>7. ReportInv' /\ JoinedInv' /\ LateInv'
    <2>1. Head(events) \in Kinds
      BY <1>1, Handled
    <2>2. /\ events' # <<>> => \A x : Newest(events', x) <=> Newest(events, x)
          /\ events' = <<>> => \A x : Newest(events, x) <=> x = Head(events)
      BY <1>1, Handled
    <2>3. events' # <<>> => Newest(events, "got_ip") \/ Newest(events, "disconnected")
      <3>1. ASSUME events' # <<>> PROVE events[Len(events)] # "sta_start"
        <4>1. Len(events) # 1 /\ Len(events) \in 1..Len(events)
          BY <1>1, <3>1, Handled, EmptySeq, LenProperties
        <4> QED
          BY <4>1 DEF IInv, StartInv
      <3>2. events[Len(events)] \in Kinds
        BY <1>1, EmptySeq, LenProperties, ElementOfSeq
      <3> QED
        BY <1>1, <3>1, <3>2 DEF Newest, Kinds
    <2>4. CASE Head(events) = "sta_start"
      <3>1. UNCHANGED <<bits, shown, lateIp>>
        BY <2>4 DEF HandleEvent
      <3>2. shown.ip # "sta"
        BY <1>1, <2>4 DEF IInv, StartInv
      <3> QED
        BY <1>1, <1>2, <1>4, <2>2, <2>4, <3>1, <3>2 DEF IInv, ReportInv, JoinedInv, LateInv
    <2>5. CASE Head(events) = "disconnected"
      <3>1. /\ shown'.ip = "none" /\ shown'.state = shown.state
            /\ "got_ip" \notin bits' /\ "disconnected" \in bits' /\ lateIp' = lateIp
        <4>1. /\ shown' = [shown EXCEPT !.ip = "none"]
              /\ bits' = AfterDisconnect(bits) /\ lateIp' = lateIp
          BY <2>5 DEF HandleEvent
        <4> QED
          BY <4>1 DEF AfterDisconnect, IInv, TypeOK
      <3> QED
        BY <1>1, <1>2, <1>4, <2>2, <2>5, <3>1 DEF IInv, ReportInv, JoinedInv, LateInv
    <2>6. CASE Head(events) = "got_ip"
      <3>1. /\ shown'.ip = "sta" /\ shown'.state = shown.state
            /\ bits' = (bits \ {"disconnected"}) \cup {"got_ip"}
            /\ lateIp' <=> PastLastWait
        BY <2>6, Zenon DEF HandleEvent, IInv, TypeOK
      <3>2. ReportInv'
        BY <1>1, <1>4, <2>2, <2>3, <2>6, <3>1 DEF IInv, ReportInv
      <3>3. JoinedInv'
        BY <1>1, <1>2, <1>4, <2>2, <2>3, <2>6, <3>1 DEF IInv, ReportInv, JoinedInv
      <3>4. LateInv'
        BY <1>1, <1>2, <1>4, <3>1 DEF LateInv, PastLastWait
      <3> QED
        BY <3>2, <3>3, <3>4
    <2> QED
      BY <2>1, <2>4, <2>5, <2>6 DEF Kinds
  <1> QED
    BY <1>5, <1>6, <1>7 DEF LinkInv

\* A save only raises BIT_RECONFIG.
LEMMA SaveStep ==
    ASSUME IInv, SaverStep \/ \E s \in Ssids : SaveSsid(s)
    PROVE  LinkInv'
  <1>1. /\ UNCHANGED <<creds, shown, task, radio, events, lateIp>>
        /\ bits' = bits \/ bits' = bits \cup {"reconfig"}
    BY DEF SaverStep, SavePass, SaveFails, SaveWakes, SaveSsid
  <1> QED
    BY <1>1 DEF IInv, LinkInv, RadioInv, StartInv, ReportInv, JoinedInv, LateInv, HasAddress,
                Newest, At

-----------------------------------------------------------------------------
(* The supervisor *)

\* Every step of the supervisor keeps what is known of the link.
LEMMA TaskInvStep ==
    ASSUME IInv, TaskStep
    PROVE  LinkInv'
  <1> USE DEF At, Goto, LinkInv, IInv, RadioInv, StartInv, ReportInv, JoinedInv, LateInv,
              HasAddress, Newest, TypeOK
  <1>1. CASE LoadSsid
    BY <1>1 DEF LoadSsid
  <1>2. CASE LoadPass
    BY <1>2 DEF LoadPass
  <1>3. CASE ClearReconfig
    BY <1>3 DEF ClearReconfig
  <1>4. CASE Decide
    BY <1>4 DEF Decide
  <1>5. CASE StopRadio
    <2>1. /\ task'.pc \in {"start_sta", "start_ap"} /\ radio' = Off /\ ~HasAddress'
          /\ UNCHANGED <<bits, shown>> /\ events' = events \o StopEvents
      BY <1>5 DEF StopRadio, Off
    <2>2. events \in Seq(Kinds) /\ "disconnected" \in Kinds
      BY DEF Kinds
    <2>3. RadioInv' /\ JoinedInv' /\ LateInv'
      BY <2>1
    <2>4. CASE radio.link \in {"associated", "ip", "leaseless"}
      <3>1. events' = Append(events, "disconnected")
        BY <2>1, <2>2, <2>4, AppendIsConcat DEF StopEvents
      <3>2. StartInv'
        BY <2>1, <2>2, <3>1, Posted
      <3>3. ReportInv'
        <4>1. events' # <<>> /\ \A x : Newest(events', x) <=> x = "disconnected"
          BY <2>2, <3>1, Posted
        <4> QED
          BY <2>1, <4>1, Zenon DEF ReportInv
      <3> QED
        BY <2>3, <3>2, <3>3
    <2>5. CASE radio.link \notin {"associated", "ip", "leaseless"}
      <3>1. events' = events /\ ~HasAddress
        BY <2>1, <2>2, <2>5, ConcatEmptySeq DEF StopEvents
      <3>2. StartInv' /\ ReportInv'
        BY <2>1, <3>1
      <3> QED
        BY <2>3, <3>2
    <2> QED
      BY <2>4, <2>5
  <1>6. CASE StartSta
    <2>1. /\ radio = Off /\ events = <<>> /\ events' = Append(<<>>, "sta_start")
          /\ task'.pc = "join" /\ shown' = shown
          /\ bits' = bits \ {"got_ip", "disconnected"}
          /\ radio' = [radio EXCEPT !.mode = "sta", !.opens = Opens(creds)]
      BY <1>6 DEF StartSta, Settled, Post
    <2>2. ~HasAddress /\ ~HasAddress'
      BY <2>1 DEF Off
    <2>3. <<>> \in Seq(Kinds) /\ "sta_start" \in Kinds /\ Len(<<>>) = 0
      BY EmptySeq DEF Kinds
    <2>4. /\ Len(events') = 1 /\ events' # <<>> /\ Head(events') = "sta_start"
          /\ \A x : Newest(events', x) <=> x = "sta_start"
      BY <2>1, <2>3, Posted
    <2>5. RadioInv' /\ JoinedInv' /\ LateInv'
      BY <2>1
    <2>6. StartInv'
      BY <2>1, <2>2, <2>4
    <2>7. ReportInv'
      <3>1. "got_ip" \notin bits'
        BY <2>1
      <3> QED
        BY <2>2, <2>4, <3>1, Zenon DEF ReportInv
    <2> QED
      BY <2>5, <2>6, <2>7
  <1>7. CASE StartAp
    <2>1. /\ radio = Off /\ events = <<>> /\ events' = <<>> /\ bits' = bits
          /\ task'.pc = "ap" /\ shown' = [state |-> "ap", ip |-> "ap"]
          /\ radio' = [radio EXCEPT !.mode = "ap"]
      BY <1>7 DEF StartAp, Settled
    <2>2. ~HasAddress /\ ~HasAddress' /\ radio'.mode = "ap"
      BY <2>1 DEF Off
    <2>3. RadioInv' /\ StartInv' /\ JoinedInv' /\ LateInv'
      <3>1. Len(<<>>) = 0
        BY EmptySeq
      <3> QED
        BY <2>1, <2>2, <3>1
    <2>4. ReportInv'
      BY <2>1, <2>2
    <2> QED
      BY <2>3, <2>4
  <1>8. CASE ApWait
    BY <1>8 DEF ApWait
  <1>9. CASE JoinWait
    BY <1>9 DEF JoinWait
  <1>10. CASE JoinInterrupted
    BY <1>10 DEF JoinInterrupted
  <1>11. CASE Joined
    BY <1>11 DEF Joined
  <1>12. CASE JoinFailed
    BY <1>12 DEF JoinFailed, AfterFailure
  <1>13. CASE BackoffInterrupted
    BY <1>13 DEF BackoffInterrupted
  <1>14. CASE Retry
    <2>1. /\ events = <<>> /\ UNCHANGED <<bits, shown, events, creds, lateIp>>
          /\ At("backoff") /\ radio' = WithConnect(radio) /\ task' = NextAttempt(task)
      BY <1>14 DEF Retry, Settled
    <2>2. HasAddress' <=> HasAddress
      BY <2>1, ConnectType
    <2>3. /\ task'.pc \in {"join", "stop_ap"}
          /\ task'.pc = "stop_ap" => task.attempt = task.limit
      <3>1. task.attempt \in Nat /\ task.limit \in Nat /\ task.attempt <= task.limit
        BY AttemptsAssumption
      <3>2. task.attempt < task.limit => task'.pc = "join"
        BY <2>1 DEF NextAttempt
      <3>3. ~(task.attempt < task.limit) => task'.pc = "stop_ap"
        BY <2>1 DEF NextAttempt
      <3> QED
        BY <3>1, <3>2, <3>3
    <2>4. RadioInv' /\ StartInv' /\ ReportInv' /\ JoinedInv'
      BY <2>1, <2>2, <2>3
    <2>5. LateInv'
      BY <2>1, <2>2, <2>3
    <2> QED
      BY <2>4, <2>5
  <1>15. CASE Steady
    <2>1. /\ At("steady") /\ UNCHANGED <<events, creds, lateIp>>
          /\ bits' = bits \ {"disconnected", "reconfig"} /\ radio' \in {radio, WithConnect(radio)}
      BY <1>15, Zenon DEF Steady
    <2>2. task'.pc \in {"load_ssid", "join"} /\ shown'.ip = shown.ip
      BY <1>15 DEF Steady
    <2>3. HasAddress' <=> HasAddress
      BY <2>1, ConnectType
    <2>4. RadioInv' /\ JoinedInv' /\ LateInv'
      BY <2>1, <2>2, <2>3
    <2>5. StartInv' /\ ReportInv'
      BY <2>1, <2>2, <2>3
    <2> QED
      BY <2>4, <2>5
  <1> QED
    BY <1>1, <1>2, <1>3, <1>4, <1>5, <1>6, <1>7, <1>8, <1>9, <1>10, <1>11, <1>12,
       <1>13, <1>14, <1>15 DEF TaskStep

-----------------------------------------------------------------------------
(* The theorems *)

\* The invariant holds at first.
LEMMA InitInv == Init => IInv
  <1> SUFFICES ASSUME Init PROVE IInv
    OBVIOUS
  <1> USE DEF Init
  <1>1. events \in Seq(Kinds) /\ Len(events) = 0 /\ Len(events) <= MaxEvents
    BY EmptySeq, BoundsAssumption
  <1>2. budget \in [saves : 0..MaxSaves, disturbances : 0..MaxDisturbances]
    BY BoundsAssumption
  <1>3. task \in Tasks /\ task.attempt <= task.limit
    BY AttemptsAssumption DEF Tasks, Steps
  <1>4. nvs \in Credentials /\ creds \in Credentials
    BY DEF Credentials, Ssids
  <1>5. TypeOK
    BY <1>1, <1>2, <1>3, <1>4
       DEF TypeOK, Tasks, Kinds, Ssids, States, Addresses, Links, Off
  <1>6. RadioInv /\ StartInv /\ ReportInv /\ JoinedInv /\ LateInv
    BY <1>1 DEF RadioInv, StartInv, ReportInv, JoinedInv, LateInv, HasAddress, Newest, At, Off
  <1> QED
    BY <1>5, <1>6 DEF IInv

\* The inductive invariant holds in every reachable state.
THEOREM Invariance == Spec => []IInv
  <1>1. IInv /\ [Next]_vars => IInv'
    <2> SUFFICES ASSUME IInv, [Next]_vars PROVE IInv'
      OBVIOUS
    <2>1. TypeOK'
      BY TypeStep DEF IInv
    <2>2. CASE UNCHANGED vars
      BY <2>1, <2>2 DEF IInv, RadioInv, StartInv, ReportInv, JoinedInv, LateInv, HasAddress,
                        Newest, At, vars
    <2>3. CASE Next
      <3>1. LinkInv'
        BY <2>3, DriverStep, HandleEventStep, SaveStep, TaskInvStep DEF Next
      <3> QED
        BY <2>1, <3>1 DEF IInv, LinkInv
    <2> QED
      BY <2>2, <2>3
  <1> QED
    BY <1>1, InitInv, PTL DEF Spec

\* Every variable always has its type: in particular sta_connect_loop never makes more
\* attempts than it is given, and only a station has a link.
THEOREM TypeCorrect == Spec => []TypeOK
  <1>1. IInv => TypeOK
    BY DEF IInv
  <1> QED
    BY <1>1, Invariance, PTL

\* However reports, saves and steps of the supervisor are interleaved, what the web UI
\* shows of the link is so once the reports are handled (wifi.c:103-169, 310-374).
THEOREM ShownTruly == Spec => []ShownIsTrue
  <1>1. IInv => ShownIsTrue
    BY DEF IInv, TypeOK, RadioInv, ReportInv, JoinedInv, ShownIsTrue, HasAddress, Newest, At
  <1> QED
    BY <1>1, Invariance, PTL

\* With any number of attempts, a station that has its address is left for the access
\* point only if no network is saved, or the address came after the last wait
\* (wifi.c:272-308).
THEOREM LinkKept == Spec => LinkNotAbandoned
  <1>1. IInv /\ [Next]_vars
           => [At("stop_ap") /\ StopRadio /\ radio.link = "ip" /\ events = <<>>
                 => lateIp \/ creds.ssid = None]_vars
    BY DEF IInv, LateInv, HasAddress, Newest, At
  <1> QED
    BY <1>1, Invariance, PTL DEF Spec, LinkNotAbandoned
=============================================================================
