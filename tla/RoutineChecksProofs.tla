------------------------- MODULE RoutineChecksProofs -------------------------
(***************************************************************************)
(* For any number of phones, any quiet periods and any number of events    *)
(* that are still to be handled, the counter of wifi.c never falls behind  *)
(* the phones it was told of, and ota_task makes no routine check while    *)
(* the local control plane is in use.                                      *)
(***************************************************************************)
EXTENDS RoutineChecks, TLAPS, SequenceTheorems, FunctionTheorems, FiniteSetTheorems

Kinds == {"joined", "left"}

\* How many events of a kind come after the first k.
After(f, k, kind) == {n \in DOMAIN f : n > k /\ f[n] = kind}
Count(f, k, kind) == Cardinality(After(f, k, kind))

\* With p phones now, how many there were when the first k events had happened.
Net(p, f, k) == (p + Count(f, k, "left")) - Count(f, k, "joined")

\* The AP never had more phones than it admits, and the counter is never behind.
CountInv ==
    /\ \A k \in Nat : Net(phones, events, k) <= AP_MAX_CONN
    /\ Net(phones, events, 0) <= ap.clients
    /\ \A n \in DOMAIN events : events[n] = "joined" => AP_MAX_CONN > 0

\* The age of the last departure is no more than the time there was no phone.
AgeInv ==
    /\ ap.last = "left" /\ ap.clients = 0 => alone >= ap.age
    /\ ap.last = "never" => ap.clients = 0 /\ alone = ApQuiet

\* The inductive invariant.
IInv == TypeOK /\ CountInv /\ AgeInv

-----------------------------------------------------------------------------
(* Counting events *)

\* The events of a kind are finitely many.
LEMMA CountType ==
    ASSUME NEW f \in Seq(Kinds), NEW k \in Nat, NEW kind
    PROVE  /\ DOMAIN f = 1..Len(f) /\ Len(f) \in Nat
           /\ IsFiniteSet(After(f, k, kind)) /\ Count(f, k, kind) \in Nat
  <1>1. DOMAIN f = 1..Len(f) /\ Len(f) \in Nat
    BY LenProperties
  <1>2. IsFiniteSet(1..Len(f))
    BY <1>1, FS_Interval
  <1>3. After(f, k, kind) \subseteq 1..Len(f)
    BY <1>1 DEF After
  <1>4. IsFiniteSet(After(f, k, kind))
    BY <1>2, <1>3, FS_Subset
  <1> QED
    BY <1>1, <1>4, FS_CardinalityType DEF Count

\* An event that is posted adds one to every count of its kind.
LEMMA AppendCount ==
    ASSUME NEW f \in Seq(Kinds), NEW e \in Kinds, NEW k \in Nat, NEW kind
    PROVE  Count(Append(f, e), k, kind) =
              IF e = kind /\ k <= Len(f) THEN Count(f, k, kind) + 1 ELSE Count(f, k, kind)
  <1>1. /\ Append(f, e) \in Seq(Kinds) /\ Len(Append(f, e)) = Len(f) + 1
        /\ \A i \in 1..Len(f) : Append(f, e)[i] = f[i]
        /\ Append(f, e)[Len(f) + 1] = e
    BY AppendProperties
  <1>2. /\ DOMAIN f = 1..Len(f) /\ Len(f) \in Nat /\ DOMAIN Append(f, e) = 1..(Len(f) + 1)
        /\ IsFiniteSet(After(f, k, kind))
    BY <1>1, CountType
  <1>3. Len(f) + 1 \notin After(f, k, kind)
    BY <1>2 DEF After
  <1>4. CASE e = kind /\ k <= Len(f)
    <2>1. After(Append(f, e), k, kind) = After(f, k, kind) \cup {Len(f) + 1}
      BY <1>1, <1>2, <1>4 DEF After
    <2> QED
      BY <1>2, <1>3, <1>4, <2>1, FS_AddElement DEF Count
  <1>5. CASE ~(e = kind /\ k <= Len(f))
    <2>1. After(Append(f, e), k, kind) = After(f, k, kind)
      BY <1>1, <1>2, <1>5 DEF After
    <2> QED
      BY <1>5, <2>1 DEF Count
  <1> QED
    BY <1>4, <1>5

\* When the first event is handled the others move up.
LEMMA TailCount ==
    ASSUME NEW f \in Seq(Kinds), f # <<>>, NEW k \in Nat, NEW kind
    PROVE  Count(Tail(f), k, kind) = Count(f, k + 1, kind)
  <1>1. /\ Tail(f) \in Seq(Kinds) /\ Len(Tail(f)) = Len(f) - 1
        /\ \A i \in 1..Len(Tail(f)) : Tail(f)[i] = f[i + 1]
    BY HeadTailProperties
  <1>2. /\ DOMAIN f = 1..Len(f) /\ Len(f) \in Nat /\ DOMAIN Tail(f) = 1..(Len(f) - 1)
        /\ IsFiniteSet(After(Tail(f), k, kind))
    BY <1>1, CountType
  <1> DEFINE S == After(Tail(f), k, kind)
             T == After(f, k + 1, kind)
             b == [n \in S |-> n + 1]
  <1>3. /\ \A n \in S : n \in Nat /\ n + 1 \in T
        /\ \A m \in T : m - 1 \in S /\ m \in Nat
    BY <1>1, <1>2 DEF After
  <1>4. b \in Bijection(S, T)
    <2> HIDE DEF S, T
    <2>1. b \in [S -> T]
      BY <1>3
    <2>2. \A n, m \in S : b[n] = b[m] => n = m
      BY <1>3
    <2>3. \A t \in T : \E n \in S : b[n] = t
      <3> TAKE t \in T
      <3>1. t - 1 \in S /\ b[t - 1] = t
        BY <1>3
      <3> QED
        BY <3>1
    <2> QED
      BY <2>1, <2>2, <2>3, Fun_IsBij
  <1> QED
    BY <1>2, <1>4, FS_Bijection DEF Count, ExistsBijection

\* The first event counts among those of its kind.
LEMMA HeadCount ==
    ASSUME NEW f \in Seq(Kinds), f # <<>>, NEW kind
    PROVE  Count(f, 0, kind) = IF Head(f) = kind THEN Count(f, 1, kind) + 1 ELSE Count(f, 1, kind)
  <1>1. DOMAIN f = 1..Len(f) /\ Len(f) \in Nat /\ IsFiniteSet(After(f, 1, kind))
    BY CountType
  <1>2. Len(f) > 0 /\ Head(f) = f[1]
    BY <1>1, EmptySeq
  <1>3. 1 \notin After(f, 1, kind)
    BY DEF After
  <1>4. CASE Head(f) = kind
    <2>1. After(f, 0, kind) = After(f, 1, kind) \cup {1}
      BY <1>1, <1>2, <1>4 DEF After
    <2> QED
      BY <1>1, <1>3, <1>4, <2>1, FS_AddElement DEF Count
  <1>5. CASE Head(f) # kind
    <2>1. After(f, 0, kind) = After(f, 1, kind)
      BY <1>1, <1>2, <1>5 DEF After
    <2> QED
      BY <1>5, <2>1 DEF Count
  <1> QED
    BY <1>4, <1>5

\* The phones that go with the AP are so many departures.
Gone(f, m) == f \o [n \in 1..m |-> "left"]
\* Departures that are reported all at once add no association, and no more than themselves.
LEMMA GoneCount ==
    ASSUME NEW f \in Seq(Kinds), NEW m \in Nat, NEW k \in Nat
    PROVE  /\ Gone(f, m) \in Seq(Kinds) /\ Len(Gone(f, m)) = Len(f) + m
           /\ \A i \in DOMAIN Gone(f, m) :
                 Gone(f, m)[i] = "joined" => i \in DOMAIN f /\ f[i] = "joined"
           /\ Count(Gone(f, m), k, "joined") = Count(f, k, "joined")
           /\ Count(Gone(f, m), k, "left") <= Count(f, k, "left") + m
  <1> DEFINE g == Gone(f, m)
             h == [n \in 1..m |-> "left"]
  <1>1. h \in Seq(Kinds) /\ Len(h) = m
    BY DEF Kinds
  <1>a. \A i \in 1..m : h[i] = "left"
    OBVIOUS
  <1>b. g = f \o h
    BY DEF Gone
  <1> HIDE DEF g, h
  <1>2. /\ g \in Seq(Kinds) /\ Len(g) = Len(f) + m
        /\ \A i \in 1..(Len(f) + m) : g[i] = IF i <= Len(f) THEN f[i] ELSE h[i - Len(f)]
    <2>1. /\ f \o h \in Seq(Kinds) /\ Len(f \o h) = Len(f) + Len(h)
          /\ \A i \in 1..(Len(f) + Len(h)) : (f \o h)[i] = IF i <= Len(f) THEN f[i] ELSE h[i - Len(f)]
      BY <1>1, ConcatProperties
    <2> QED
      BY <1>1, <1>b, <2>1
  <1>3. /\ DOMAIN f = 1..Len(f) /\ Len(f) \in Nat /\ DOMAIN g = 1..(Len(f) + m)
        /\ IsFiniteSet(After(f, k, "left")) /\ Count(f, k, "left") \in Nat
    BY <1>2, CountType
  <1>4. \A i \in 1..(Len(f) + m) : g[i] = IF i <= Len(f) THEN f[i] ELSE "left"
    BY <1>2, <1>3, <1>a
  <1>5. After(g, k, "joined") = After(f, k, "joined")
    BY <1>3, <1>4 DEF After
  <1>6. Count(g, k, "left") <= Count(f, k, "left") + m
    <2> DEFINE new == (Len(f) + 1)..(Len(f) + m)
    <2>1. IsFiniteSet(new) /\ Cardinality(new) = m
      BY <1>3, FS_Interval
    <2>2. After(g, k, "left") \subseteq After(f, k, "left") \cup new
      BY <1>3, <1>4 DEF After
    <2> HIDE DEF new
    <2>3. /\ IsFiniteSet(After(f, k, "left") \cup new)
          /\ Cardinality(After(f, k, "left") \cup new) =
                Count(f, k, "left") + m - Cardinality(After(f, k, "left") \cap new)
      <3>1. /\ IsFiniteSet(After(f, k, "left") \cup new)
            /\ Cardinality(After(f, k, "left") \cup new) =
                  Cardinality(After(f, k, "left")) + Cardinality(new)
                     - Cardinality(After(f, k, "left") \cap new)
        BY <1>3, <2>1, FS_Union
      <3> QED
        BY <2>1, <3>1 DEF Count
    <2>4. Cardinality(After(f, k, "left") \cap new) \in Nat
      BY <1>3, FS_Intersection, FS_CardinalityType
    <2>5. /\ Count(g, k, "left") <= Cardinality(After(f, k, "left") \cup new)
      BY <2>2, <2>3, FS_Subset DEF Count
    <2>6. Count(g, k, "left") \in Nat
      BY <1>2, CountType
    <2> QED
      BY <1>3, <2>3, <2>4, <2>5, <2>6
  <1> QED
    BY <1>2, <1>3, <1>4, <1>5, <1>6 DEF Count, g

\* The phones the handler knows of are those before every event that is pending.
LEMMA KnownNet ==
    ASSUME TypeOK
    PROVE  /\ events \in Seq(Kinds) /\ DOMAIN events = 1..Len(events) /\ Len(events) \in Nat
           /\ Known = Net(phones, events, 0)
  <1>1. events \in Seq(Kinds)
    BY DEF TypeOK, Kinds
  <1>2. DOMAIN events = 1..Len(events) /\ Len(events) \in Nat
    BY <1>1, LenProperties
  <1>3. \A kind : Pending(kind) = Count(events, 0, kind)
    <2>1. \A kind : {n \in DOMAIN events : events[n] = kind} = After(events, 0, kind)
      BY <1>2 DEF After
    <2> QED
      BY <2>1 DEF Pending, Count
  <1> QED
    BY <1>1, <1>2, <1>3 DEF Known, Net

\* The number of phones after some events is an integer.
LEMMA NetInt ==
    ASSUME NEW f \in Seq(Kinds), NEW k \in Nat, NEW p \in Nat
    PROVE  Net(p, f, k) \in Int
  <1>1. Count(f, k, "left") \in Nat /\ Count(f, k, "joined") \in Nat
    BY CountType
  <1> QED
    BY <1>1 DEF Net

-----------------------------------------------------------------------------
(* The invariant is inductive. *)

\* The limits and periods are naturals.
LEMMA Periods ==
    /\ AP_MAX_CONN \in Nat /\ MaxEvents \in Nat /\ HttpQuiet \in Nat /\ ApQuiet \in Nat
    /\ FirstCheck \in Nat /\ CheckRetry \in Nat /\ CheckInterval \in Nat /\ TransportReady \in Nat
  BY QuietAssumption

\* Every step keeps every variable in its type.
LEMMA TypeStep ==
    ASSUME TypeOK, CountInv, [Next]_vars
    PROVE  TypeOK'
  <1> USE Periods DEF TypeOK
  <1>0. events \in Seq(Kinds) /\ DOMAIN events = 1..Len(events) /\ Len(events) \in Nat
    BY KnownNet
  <1>1. CASE TakeRequest \/ TimerFires \/ Proceed \/ Defer \/ TransportReadied
             \/ TransportTimesOut \/ CheckEnds
    <2>1. UNCHANGED <<wifi, phones, events, ap, sinceRequest, alone, unreported>> /\ trigger' \in BOOLEAN
      BY <1>1 DEF TakeRequest, TimerFires, Proceed, Defer, TransportReadied, TransportTimesOut,
         CheckEnds, Goes
    <2>2. /\ ota' \in [at : {"wait", "decide", "transport", "check"}, left : Nat, routine : BOOLEAN]
          /\ ota'.at \notin {"wait", "transport"} => ota'.left = 0
      <3>1. CASE TakeRequest \/ TimerFires
        <4>1. ota' \in {[at |-> "decide", left |-> 0, routine |-> r] : r \in BOOLEAN}
          BY <3>1, Zenon DEF TakeRequest, TimerFires, Goes
        <4> QED
          BY <4>1
      <3>2. CASE Defer \/ TransportTimesOut \/ CheckEnds
        <4>1. \E n \in Nat : ota' = [at |-> "wait", left |-> n, routine |-> FALSE]
          BY <3>2, Zenon DEF Defer, TransportTimesOut, CheckEnds, Goes, Waits
        <4> QED
          BY <4>1
      <3>3. CASE Proceed
        BY <3>3 DEF Proceed, Goes
      <3>4. CASE TransportReadied
        BY <3>4 DEF TransportReadied, Goes
      <3> QED
        BY <1>1, <3>1, <3>2, <3>3, <3>4
    <2> QED
      BY <2>1, <2>2
  <1>2. CASE HandleJoined
    <2>1. events # <<>> /\ Head(events) = "joined" /\ events' = Tail(events)
      BY <1>2 DEF HandleJoined
    <2>2. events' \in Seq(Kinds) /\ Len(events') = Len(events) - 1
      BY <1>0, <2>1, HeadTailProperties
    <2>3. AP_MAX_CONN > 0
      <3>1. 1 \in DOMAIN events /\ events[1] = "joined"
        BY <1>0, <2>1, EmptySeq
      <3> QED
        BY <3>1 DEF CountInv
    <2>4. Counted \in 0..AP_MAX_CONN /\ Counted > 0
      BY <2>3 DEF Counted, AtMost
    <2>5. /\ ap' = [ap EXCEPT !.clients = Counted, !.last = "joined"] /\ alone' = 0
          /\ UNCHANGED <<wifi, phones, sinceRequest, ota, trigger, unreported>>
      BY <1>2 DEF HandleJoined
    <2>6. /\ ap' \in [clients : 0..AP_MAX_CONN, last : {"never", "joined", "left"}, age : 0..ApQuiet]
          /\ ap'.clients > 0
      BY <2>4, <2>5
    <2>7. Len(events') <= MaxEvents
      BY <1>0, <2>2
    <2> QED
      BY <2>2, <2>5, <2>6, <2>7 DEF Kinds
  <1>3. CASE HandleLeft
    <2>1. events' \in Seq(Kinds) /\ Len(events') = Len(events) - 1
      BY <1>0, <1>3, HeadTailProperties DEF HandleLeft
    <2>2. Uncounted \in 0..AP_MAX_CONN
      BY DEF Uncounted
    <2> QED
      BY <1>3, <1>0, <2>1, <2>2 DEF HandleLeft, Kinds
  <1>4. CASE StartAp \/ ShowAp \/ LeaveAp \/ NoteRequest \/ OtaCheckNow
    <2>1. trigger' \in BOOLEAN
      BY <1>4, Zenon DEF StartAp, ShowAp, LeaveAp, NoteRequest, OtaCheckNow
    <2>2. CASE StartAp \/ ShowAp \/ LeaveAp
      BY <2>1, <2>2 DEF StartAp, ShowAp, LeaveAp
    <2>3. CASE NoteRequest \/ OtaCheckNow
      BY <2>1, <2>3 DEF NoteRequest, OtaCheckNow
    <2> QED
      BY <1>4, <2>2, <2>3
  <1>5. CASE StopAp \/ RestartAp
    <2>1. /\ phones' = 0 /\ unreported' \in BOOLEAN /\ wifi' \in {"sta", "ap"}
          /\ UNCHANGED <<ap, sinceRequest, ota, trigger, alone>>
      BY <1>5 DEF StopAp, RestartAp, PhonesGone
    <2>2. \/ events' = events
          \/ Len(events) + phones <= MaxEvents /\ events' = Gone(events, phones)
      BY <1>5 DEF StopAp, RestartAp, PhonesGone, Gone
    <2>3. events' \in Seq(Kinds) /\ Len(events') <= MaxEvents
      <3>1. 0 \in Nat /\ phones \in Nat
        OBVIOUS
      <3> HIDE DEF TypeOK
      <3>2. Gone(events, phones) \in Seq(Kinds) /\ Len(Gone(events, phones)) = Len(events) + phones
        BY <1>0, <3>1, GoneCount
      <3>3. Len(events) <= MaxEvents
        BY DEF TypeOK
      <3> QED
        BY <1>0, <2>2, <3>2, <3>3
    <2> QED
      BY <2>1, <2>3 DEF Kinds
  <1>6. CASE PhoneJoins \/ PhoneLeaves
    <2>1. \E e \in Kinds : Len(events) < MaxEvents /\ events' = Append(events, e)
      BY <1>6 DEF PhoneJoins, PhoneLeaves, Post, Kinds
    <2>2. events' \in Seq(Kinds) /\ Len(events') <= MaxEvents
      BY <1>0, <2>1, AppendProperties
    <2> QED
      BY <1>6, <2>2 DEF PhoneJoins, PhoneLeaves, Kinds
  <1>7. CASE Tick
    <2>1. sinceRequest' \in 0..HttpQuiet /\ alone' \in 0..ApQuiet /\ ap'.age \in 0..ApQuiet
      <3>1. \A n, limit \in Nat : AtMost(n, limit) \in 0..limit
        BY DEF AtMost
      <3> HIDE DEF TypeOK
      <3>2. /\ sinceRequest' = AtMost(sinceRequest + 1, HttpQuiet)
            /\ alone' = 0 \/ alone' = AtMost(alone + 1, ApQuiet)
            /\ ap'.age = AtMost(ap.age + 1, ApQuiet)
        BY <1>7 DEF Tick, TypeOK
      <3>3. sinceRequest + 1 \in Nat /\ alone + 1 \in Nat /\ ap.age + 1 \in Nat
        BY DEF TypeOK
      <3>4. /\ AtMost(sinceRequest + 1, HttpQuiet) \in 0..HttpQuiet
            /\ AtMost(alone + 1, ApQuiet) \in 0..ApQuiet
            /\ AtMost(ap.age + 1, ApQuiet) \in 0..ApQuiet
        BY <3>1, <3>3
      <3>5. 0 \in 0..ApQuiet
        OBVIOUS
      <3> QED
        BY <3>2, <3>4, <3>5, Zenon
    <2>2. ap' \in [clients : 0..AP_MAX_CONN, last : {"never", "joined", "left"}, age : 0..ApQuiet]
          /\ ap'.last = ap.last /\ ap'.clients = ap.clients
      BY <1>7, <2>1 DEF Tick
    <2>3. /\ ota' \in [at : {"wait", "decide", "transport", "check"}, left : Nat, routine : BOOLEAN]
          /\ ota'.at \notin {"wait", "transport"} => ota'.left = 0
      <3>1. CASE ota.at = "check"
        BY <1>7, <3>1 DEF Tick
      <3>2. CASE ota.at # "check"
        <4>1. ota' = [ota EXCEPT !.left = ota.left - 1] /\ ota.at \in {"wait", "transport"} /\ ota.left > 0
          BY <1>7, <3>2 DEF Tick, TickDue, Deciding
        <4>2. ota \in [at : {"wait", "decide", "transport", "check"}, left : Nat, routine : BOOLEAN]
          OBVIOUS
        <4> HIDE DEF TypeOK
        <4> QED
          BY <4>1, <4>2
      <3> QED
        BY <3>1, <3>2
    <2> QED
      BY <1>7, <2>1, <2>2, <2>3 DEF Tick
  <1>8. CASE UNCHANGED vars
    BY <1>8 DEF vars
  <1> QED
    BY <1>1, <1>2, <1>3, <1>4, <1>5, <1>6, <1>7, <1>8 DEF Next, OtaTask, EventHandler, WifiTask, WebServer

\* The counter is never behind what the handler was told.
LEMMA CountStep ==
    ASSUME TypeOK, CountInv, [Next]_vars
    PROVE  CountInv'
  <1> USE Periods
  <1>0. /\ events \in Seq(Kinds) /\ DOMAIN events = 1..Len(events) /\ Len(events) \in Nat
        /\ phones \in Nat /\ ap.clients \in 0..AP_MAX_CONN
    BY KnownNet DEF TypeOK
  <1>c. \A k \in Nat : Count(events, k, "left") \in Nat /\ Count(events, k, "joined") \in Nat
    BY <1>0, CountType
  <1>1. CASE UNCHANGED <<phones, events, ap.clients>>
    BY <1>1 DEF CountInv
  <1>2. CASE HandleJoined \/ HandleLeft
    <2>1. events # <<>> /\ events' = Tail(events) /\ UNCHANGED phones
      BY <1>2 DEF HandleJoined, HandleLeft
    <2>2. \A k \in Nat : Net(phones', events', k) = Net(phones, events, k + 1)
      BY <1>0, <2>1, TailCount DEF Net
    <2>3. \A k \in Nat : Net(phones', events', k) <= AP_MAX_CONN
      BY <2>2 DEF CountInv
    <2>4. Net(phones, events, 1) \in Int /\ Net(phones, events, 1) <= AP_MAX_CONN
      BY <1>0, NetInt DEF CountInv
    <2>5. Net(phones', events', 0) <= ap'.clients
      <3>1. CASE HandleJoined
        <4>1. Head(events) = "joined" /\ ap'.clients = Counted
          BY <3>1 DEF HandleJoined, TypeOK
        <4>2. Net(phones, events, 0) = Net(phones, events, 1) - 1
          <5>1. /\ Count(events, 0, "joined") = Count(events, 1, "joined") + 1
                /\ Count(events, 0, "left") = Count(events, 1, "left")
            BY <1>0, <2>1, <4>1, HeadCount
          <5> QED
            BY <1>0, <1>c, <5>1 DEF Net
        <4>3. Net(phones', events', 0) = Net(phones, events, 1)
          BY <2>2
        <4> QED
          BY <1>0, <2>4, <4>1, <4>2, <4>3 DEF CountInv, Counted, AtMost
      <3>2. CASE HandleLeft
        <4>1. Head(events) = "left" /\ ap'.clients = Uncounted
          BY <3>2 DEF HandleLeft
        <4>2. Net(phones, events, 0) = Net(phones, events, 1) + 1
          <5>1. /\ Count(events, 0, "left") = Count(events, 1, "left") + 1
                /\ Count(events, 0, "joined") = Count(events, 1, "joined")
            BY <1>0, <2>1, <4>1, HeadCount
          <5> QED
            BY <1>0, <1>c, <5>1 DEF Net
        <4>3. Net(phones', events', 0) = Net(phones, events, 1)
          BY <2>2
        <4> QED
          BY <1>0, <2>4, <4>1, <4>2, <4>3 DEF CountInv, Uncounted
      <3> QED
        BY <1>2, <3>1, <3>2
    <2>6. \A n \in DOMAIN events' : events'[n] = "joined" => AP_MAX_CONN > 0
      <3>1. /\ events' \in Seq(Kinds) /\ Len(events') = Len(events) - 1
            /\ \A i \in 1..Len(events') : events'[i] = events[i + 1]
        BY <1>0, <2>1, HeadTailProperties
      <3>2. DOMAIN events' = 1..Len(events')
        BY <3>1, LenProperties
      <3> QED
        BY <1>0, <3>1, <3>2 DEF CountInv
    <2> QED
      BY <2>3, <2>5, <2>6 DEF CountInv
  <1>3. CASE PhoneJoins \/ PhoneLeaves
    <2>1. PICK e \in Kinds : /\ events' = Append(events, e) /\ ap' = ap
                             /\ \/ e = "joined" /\ phones < AP_MAX_CONN /\ phones' = phones + 1
                                \/ e = "left" /\ phones > 0 /\ phones' = phones - 1
      BY <1>3 DEF PhoneJoins, PhoneLeaves, Post, Kinds
    <2>2. ASSUME NEW k \in Nat, k <= Len(events)
          PROVE  Net(phones', events', k) = Net(phones, events, k)
      <3>1. /\ e = "left" => /\ Count(events', k, "left") = Count(events, k, "left") + 1
                             /\ Count(events', k, "joined") = Count(events, k, "joined")
            /\ e = "joined" => /\ Count(events', k, "joined") = Count(events, k, "joined") + 1
                               /\ Count(events', k, "left") = Count(events, k, "left")
        BY <1>0, <2>1, <2>2, AppendCount
      <3> QED
        <4>1. /\ Count(events, k, "left") \in Nat /\ Count(events, k, "joined") \in Nat
          BY <1>c
        <4>2. CASE e = "left"
          BY <1>0, <2>1, <3>1, <4>1, <4>2 DEF Net
        <4>3. CASE e = "joined"
          BY <1>0, <2>1, <3>1, <4>1, <4>3 DEF Net
        <4> QED
          BY <4>2, <4>3 DEF Kinds
    <2>3. ASSUME NEW k \in Nat, k > Len(events)
          PROVE  Net(phones', events', k) <= AP_MAX_CONN
      <3>1. \A kind : Count(events, k, kind) = 0
        <4>1. \A kind : After(events, k, kind) = {}
          BY <1>0, <2>3 DEF After
        <4> QED
          BY <4>1, FS_EmptySet DEF Count
      <3>2. \A kind : Count(events', k, kind) = 0
        BY <1>0, <2>1, <2>3, <3>1, AppendCount
      <3> QED
        BY <1>0, <2>1, <3>2 DEF Net, TypeOK
    <2>4. \A k \in Nat : Net(phones', events', k) <= AP_MAX_CONN
      BY <1>0, <2>2, <2>3 DEF CountInv
    <2>5. Net(phones', events', 0) <= ap'.clients
      BY <1>0, <2>1, <2>2 DEF CountInv
    <2>6. \A n \in DOMAIN events' : events'[n] = "joined" => AP_MAX_CONN > 0
      <3>1. /\ events' \in Seq(Kinds) /\ Len(events') = Len(events) + 1
            /\ \A i \in 1..Len(events) : events'[i] = events[i]
            /\ events'[Len(events) + 1] = e
        BY <1>0, <2>1, AppendProperties
      <3>2. DOMAIN events' = 1..Len(events')
        BY <3>1, LenProperties
      <3> QED
        BY <1>0, <2>1, <3>1, <3>2 DEF CountInv
    <2> QED
      BY <2>4, <2>5, <2>6 DEF CountInv
  <1>4. CASE StopAp \/ RestartAp
    <2>1. /\ phones' = 0 /\ ap' = ap
          /\ events' = events \/ events' = Gone(events, phones)
      BY <1>4 DEF StopAp, RestartAp, PhonesGone, Gone
    <2>2. /\ events' \in Seq(Kinds)
          /\ \A n \in DOMAIN events' : events'[n] = "joined" => n \in DOMAIN events /\ events[n] = "joined"
          /\ \A k \in Nat : /\ Count(events', k, "joined") = Count(events, k, "joined")
                            /\ Count(events', k, "left") <= Count(events, k, "left") + phones
      <3>1. CASE events' = events
        BY <1>0, <1>c, <3>1
      <3>2. CASE events' = Gone(events, phones)
        BY <1>0, <3>2, GoneCount
      <3> QED
        BY <2>1, <3>1, <3>2
    <2>3. ASSUME NEW k \in Nat
          PROVE  Net(phones', events', k) <= Net(phones, events, k) /\ Net(phones', events', k) \in Int
                 /\ Net(phones, events, k) \in Int
      <3>1. Count(events', k, "left") \in Nat
        BY <2>2, CountType
      <3>2. /\ Count(events, k, "left") \in Nat /\ Count(events, k, "joined") \in Nat
            /\ Count(events', k, "joined") = Count(events, k, "joined")
            /\ Count(events', k, "left") <= Count(events, k, "left") + phones
        BY <1>c, <2>2
      <3>3. /\ Net(phones', events', k) = Count(events', k, "left") - Count(events, k, "joined")
            /\ Net(phones, events, k) = (phones + Count(events, k, "left")) - Count(events, k, "joined")
        BY <2>1, <3>1, <3>2 DEF Net
      <3> QED
        BY <1>0, <3>1, <3>2, <3>3
    <2>4. \A k \in Nat : Net(phones', events', k) <= AP_MAX_CONN
      <3> TAKE k \in Nat
      <3>1. Net(phones, events, k) <= AP_MAX_CONN
        BY DEF CountInv
      <3> QED
        BY <2>3, <3>1
    <2>5. Net(phones', events', 0) <= ap'.clients
      <3>1. Net(phones, events, 0) <= ap.clients
        BY DEF CountInv
      <3> QED
        BY <1>0, <2>1, <2>3, <3>1
    <2> QED
      BY <2>2, <2>4, <2>5 DEF CountInv
  <1>5. CASE \/ TakeRequest \/ TimerFires \/ Proceed \/ Defer \/ TransportReadied
             \/ TransportTimesOut \/ CheckEnds \/ StartAp \/ ShowAp \/ LeaveAp \/ NoteRequest
             \/ OtaCheckNow \/ Tick \/ UNCHANGED vars
    <2>1. UNCHANGED <<phones, events, ap.clients>>
      <3>1. CASE TakeRequest \/ TimerFires \/ Proceed \/ Defer \/ TransportReadied \/ TransportTimesOut
                 \/ CheckEnds
        BY <3>1 DEF TakeRequest, TimerFires, Proceed, Defer, TransportReadied, TransportTimesOut,
           CheckEnds, Goes
      <3>2. CASE StartAp \/ ShowAp \/ LeaveAp \/ NoteRequest \/ OtaCheckNow \/ UNCHANGED vars
        BY <3>2 DEF StartAp, ShowAp, LeaveAp, NoteRequest, OtaCheckNow, vars
      <3>3. CASE Tick
        BY <3>3 DEF Tick, TypeOK
      <3> QED
        BY <1>5, <3>1, <3>2, <3>3
    <2> QED
      BY <1>1, <2>1
  <1> QED
    BY <1>2, <1>3, <1>4, <1>5 DEF Next, OtaTask, EventHandler, WifiTask, WebServer

\* The policy never takes a departure for older than it is.
LEMMA AgeStep ==
    ASSUME TypeOK, CountInv, AgeInv, [Next]_vars
    PROVE  AgeInv'
  <1>0. /\ ap \in [clients : 0..AP_MAX_CONN, last : {"never", "joined", "left"}, age : 0..ApQuiet]
        /\ alone \in 0..ApQuiet /\ ApQuiet \in Nat /\ AP_MAX_CONN \in Nat
    BY Periods DEF TypeOK
  <1>1. CASE UNCHANGED <<ap, alone>>
    BY <1>1 DEF AgeInv
  <1>2. CASE HandleJoined
    <2>1. ap'.last = "joined"
      BY <1>0, <1>2 DEF HandleJoined
    <2> QED
      BY <2>1 DEF AgeInv
  <1>3. CASE HandleLeft
    <2>1. ap'.last = "left" /\ ap'.age = 0 /\ alone' = alone
      BY <1>3 DEF HandleLeft
    <2> QED
      BY <1>0, <2>1 DEF AgeInv
  <1>4. CASE Tick
    <2>1. /\ ap'.clients = ap.clients /\ ap'.last = ap.last /\ ap'.age = AtMost(ap.age + 1, ApQuiet)
          /\ alone' = IF Known > 0 THEN 0 ELSE AtMost(alone + 1, ApQuiet)
      BY <1>0, <1>4 DEF Tick
    <2>2. ap.clients = 0 => ~(Known > 0)
      <3>1. Known <= ap.clients /\ Known \in Int
        <4>1. 0 \in Nat /\ phones \in Nat
          BY Periods DEF TypeOK
        <4> QED
          BY <4>1, KnownNet, NetInt DEF CountInv
      <3> QED
        BY <3>1
    <2>3. ap.clients = 0 => alone' = AtMost(alone + 1, ApQuiet)
      BY <2>1, <2>2
    <2> QED
      BY <1>0, <2>1, <2>3 DEF AgeInv, AtMost
  <1>5. CASE \/ TakeRequest \/ TimerFires \/ Proceed \/ Defer \/ TransportReadied
             \/ TransportTimesOut \/ CheckEnds
    BY <1>1, <1>5 DEF TakeRequest, TimerFires, Proceed, Defer, TransportReadied, TransportTimesOut,
       CheckEnds, Goes
  <1>6. CASE \/ StartAp \/ ShowAp \/ LeaveAp \/ StopAp \/ RestartAp \/ NoteRequest \/ OtaCheckNow
             \/ PhoneJoins \/ PhoneLeaves \/ UNCHANGED vars
    BY <1>1, <1>6 DEF StartAp, ShowAp, LeaveAp, StopAp, RestartAp, NoteRequest, OtaCheckNow,
       PhoneJoins, PhoneLeaves, vars
  <1> QED
    BY <1>2, <1>3, <1>4, <1>5, <1>6 DEF Next, OtaTask, EventHandler, WifiTask, WebServer

\* The invariant holds at first.
LEMMA InitInv == Init => IInv
  <1> SUFFICES ASSUME Init PROVE IInv
    OBVIOUS
  <1>1. events = <<>> /\ phones = 0 /\ ap.clients = 0 /\ ap.last = "never" /\ alone = ApQuiet
    BY DEF Init
  <1>2. <<>> \in Seq(Kinds) /\ Len(<<>>) = 0 /\ DOMAIN <<>> = {}
    OBVIOUS
  <1>3. TypeOK
    <2>1. events \in Seq({"joined", "left"}) /\ Len(events) <= MaxEvents
      BY <1>1, <1>2, Periods DEF Kinds
    <2>2. Waits(FirstCheck) \in [at : {"wait", "decide", "transport", "check"}, left : Nat, routine : BOOLEAN]
          /\ Waits(FirstCheck).at = "wait"
      BY Periods DEF Waits
    <2>3. trigger \in BOOLEAN /\ unreported \in BOOLEAN
      BY Zenon DEF Init
    <2> QED
      BY <2>1, <2>2, <2>3, Periods DEF Init, TypeOK
  <1>4. CountInv
    <2>1. \A k \in Nat : \A kind : Count(events, k, kind) = 0
      <3>1. \A k \in Nat : \A kind : After(events, k, kind) = {}
        BY <1>1, <1>2 DEF After
      <3> QED
        BY <3>1, FS_EmptySet DEF Count
    <2>2. \A k \in Nat : Net(phones, events, k) = 0
      BY <1>1, <2>1 DEF Net
    <2> QED
      BY <1>1, <1>2, <2>2, Periods DEF CountInv
  <1>5. AgeInv
    BY <1>1 DEF AgeInv
  <1> QED
    BY <1>3, <1>4, <1>5 DEF IInv

-----------------------------------------------------------------------------
(* The theorems *)

\* The invariant holds throughout.
THEOREM Invariance == Spec => []IInv
  <1>1. IInv /\ [Next]_vars => IInv'
    BY TypeStep, CountStep, AgeStep DEF IInv
  <1> QED
    BY <1>1, InitInv, PTL DEF Spec

\* The client counter stays within AP_MAX_CONN although departures are missed, and it
\* is positive while an association is the last event (wifi.c:144-182).
THEOREM TypeCorrect == Spec => []TypeOK
  <1>1. IInv => TypeOK
    BY DEF IInv
  <1> QED
    BY <1>1, Invariance, PTL

\* No routine check begins while a phone is known of, within the quiet period after the
\* last one left, or soon after an HTTP request (ota_policy_core.c, README.md:192-194).
THEOREM PhonesUndisturbed == Spec => ClientsUndisturbed
  <1>1. ASSUME IInv, Deciding, ota.routine, Proceed
        PROVE  sinceRequest >= HttpQuiet /\ (wifi = "ap" => Known <= 0 /\ alone >= ApQuiet)
    <2>1. ~HttpInUse /\ ~ApInUse
      BY <1>1 DEF Proceed, Deferred
    <2>2. sinceRequest >= HttpQuiet
      BY <1>1, <2>1, Periods DEF HttpInUse, IInv, TypeOK
    <2>3. ASSUME wifi = "ap"
          PROVE  Known <= 0 /\ alone >= ApQuiet
      <3>1. /\ ap \in [clients : 0..AP_MAX_CONN, last : {"never", "joined", "left"}, age : 0..ApQuiet]
            /\ ApQuiet \in Nat /\ alone \in 0..ApQuiet
        BY <1>1, Periods DEF IInv, TypeOK
      <3>2. ap.clients = 0 /\ ap.last # "joined" /\ (ap.last = "left" => ap.age >= ApQuiet)
        BY <2>1, <2>3, <3>1, Periods DEF ApInUse
      <3>3. Known <= ap.clients
        BY <1>1, KnownNet DEF IInv, CountInv
      <3>4. alone >= ApQuiet
        BY <1>1, <3>1, <3>2 DEF IInv, AgeInv
      <3> QED
        BY <3>2, <3>3, <3>4
    <2> QED
      BY <2>2, <2>3
  <1>2. IInv /\ [Next]_vars =>
          [Deciding /\ ota.routine /\ Proceed =>
             /\ sinceRequest >= HttpQuiet
             /\ wifi = "ap" => Known <= 0 /\ alone >= ApQuiet]_vars
    BY <1>1
  <1> QED
    BY <1>2, Invariance, PTL DEF Spec, ClientsUndisturbed
=============================================================================
