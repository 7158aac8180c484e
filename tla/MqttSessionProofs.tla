------------------------- MODULE MqttSessionProofs -------------------------
(***************************************************************************)
(* For any outbox, any number of messages, lost sessions and replaced      *)
(* clients, main/mqtt.c counts only what the broker received, shows as     *)
(* online once it is settled, reports the first time at most once and      *)
(* clears the rollback evidence only once the broker has been told.        *)
(***************************************************************************)
EXTENDS MqttSession, TLAPS, SequenceTheorems

Ids == 1..nextId - 1

\* The library is done with a message: the handler is told, and has yet to finish.
PublishedSteps == {"published", "published_pending", "published_set", "published_rollback"}
Telling == handler.at \in PublishedSteps
Deciding == handler.at \in {"published", "published_pending", "published_set"}

\* Messages wait in the outbox in the order of their ids, acknowledged ones first.
OutboxInv ==
    /\ \A i \in DOMAIN outbox : outbox[i].id \in Ids
    /\ \A i, j \in DOMAIN outbox : i < j => outbox[i].id < outbox[j].id
    /\ session = "up" =>
          /\ Len(outbox) = Len(acks) + Len(wire)
          /\ \A i \in DOMAIN acks : acks[i] = outbox[i].id
          /\ \A i \in DOMAIN wire : wire[i] = outbox[Len(acks) + i]
    /\ session # "up" => wire = <<>> /\ acks = <<>>

\* What a publisher has in hand is as its step says.
PubInv ==
    \A p \in Publishers :
        /\ pub[p].at = "idle" => pub[p] = IdlePublisher
        /\ pub[p].at = "stop" => p = "web"
        /\ pub[p].at = "mark" => p = "datalog"
        /\ pub[p].job = "offline" => p = "web"
        /\ p = "web" => pub[p].job \in {"none", "offline"}
        /\ pub[p].ok => pub[p].at = "settle" /\ pub[p].msg.kind = pub[p].job

\* A message that is in hand is the one in the outbox with its id.
HeldInv ==
    \A p \in Publishers :
        pub[p].at \in {"mark", "wait"} =>
            /\ pub[p].msg.id \in Ids
            /\ pub[p].msg.kind = pub[p].job
            /\ \A i \in DOMAIN outbox : outbox[i].id = pub[p].msg.id => outbox[i] = pub[p].msg

\* The web server has announced, or is about to replace the client.
WebOff == pub["web"].at \in {"wait", "settle", "stop"}

\* An "offline" document is under way only then.
OfflineInv ==
    \A i \in DOMAIN outbox : outbox[i].kind = "offline" => WebOff

\* What the broker has acknowledged it has received.
AckedInv ==
    \A i \in DOMAIN acks :
        /\ outbox[i].kind \in {"telemetry", "rollback"} => outbox[i] \in received
        /\ outbox[i].kind = "online" /\ ~WebOff => retained = "online"

\* The broker has m, and no later message or last will undid it.
Delivered(m) ==
    /\ m.kind = "telemetry" => m \in received
    /\ m.kind = "online" /\ session = "up" /\ ~WebOff => retained = "online"

\* The handler is told of messages that are sent and no longer in the outbox.
ToldInv ==
    Telling =>
        /\ handler.id \in Ids
        /\ \A i \in DOMAIN outbox : outbox[i].id # handler.id
        /\ \A p \in Publishers :
              pub[p].at \in {"mark", "wait"} /\ pub[p].msg.id = handler.id => Delivered(pub[p].msg)

\* Somebody waits for the message with this id.
Awaited(id) == \E p \in Publishers : pub[p].at = "wait" /\ pub[p].msg.id = id
PendingInv == pendingId # -1 => Awaited(pendingId)

\* While no publisher gave up just before its EV_PUBACK was set, the bit belongs to the
\* one that waits, and is set at most once for it.
BitInv ==
    ~strays =>
        /\ handler.at = "published_set" => ~evPuback /\ Awaited(handler.id)
        /\ evPuback => \E p \in Publishers :
              /\ pub[p].at = "wait" /\ Delivered(pub[p].msg)
              /\ \A i \in DOMAIN outbox : outbox[i].id # pub[p].msg.id
              /\ Deciding => handler.id # pub[p].msg.id
        /\ \A p \in Publishers : pub[p].ok => Delivered(pub[p].msg)

\* The retained state is wrong only while an "online" is still going to be published.
RetainedInv ==
    ~strays /\ session = "up" /\ handler.at \notin {"connected", "connected_request"}
            /\ ~requested /\ ~WebOff
        => retained = "online"

\* The id that the rollback evidence waits for is one of a rollback message.
RollbackInv ==
    /\ rollbackId \in Ids \union {-1}
    /\ \A i \in DOMAIN outbox : outbox[i].id = rollbackId => outbox[i].kind = "rollback"
    /\ Telling /\ handler.id = rollbackId => \E m \in received : m.kind = "rollback"

\* The handler has reserved the first report of the time, and not made it yet.
Reserving ==
    \/ handler.at = "connected_undo"
    \/ handler.at = "connected_status" /\ handler.first /\ handler.timeKnown

TimeInv ==
    /\ timeEvents \in {0, 1}
    /\ ~everConnected => timeEvents = 0 /\ statusTask = "look"
    /\ Reserving => timeEvents = 0 /\ statusTask = "look" /\ timePublished /\ everConnected
    /\ statusTask = "publish" => timeEvents = 0
    /\ timeEvents = 0 \/ timePublished \/ statusTask \in {"record", "deleted"}

\* The inductive invariant.
IInv ==
    /\ TypeOK /\ OutboxInv /\ PubInv /\ HeldInv /\ OfflineInv /\ AckedInv /\ ToldInv /\ PendingInv
    /\ BitInv /\ RetainedInv /\ SuccessMeansReceived /\ RollbackInv /\ TimeInv

-----------------------------------------------------------------------------
(* Types *)

PubRecord == [at : PublisherSteps, job : Jobs, msg : Messages, ok : BOOLEAN]

\* The publishers are two, and one of them has moved.
LEMMA PubUpdate ==
    ASSUME TypeOK, NEW p \in Publishers, NEW r \in PubRecord,
           pub' = [pub EXCEPT ![p] = r]
    PROVE  /\ pub' \in [Publishers -> PubRecord]
           /\ pub'[p] = r
           /\ \A q \in Publishers : q # p => pub'[q] = pub[q]
  BY DEF TypeOK, PubRecord

\* A message that is queued has its type and the library's variables keep theirs.
LEMMA QueueType ==
    ASSUME TypeOK, CanQueue,
           NEW k \in Jobs \union {"rollback", "boot", "reconnected", "time"},
           Queue(Numbered(k))
    PROVE  /\ Numbered(k) \in Messages
           /\ outbox' \in Seq(Messages) /\ wire' \in Seq(Messages)
           /\ Len(outbox') <= OutboxMax
           /\ nextId' \in 1..MaxId + 1
           /\ nextId \in 1..MaxId
  <1>1. nextId \in 1..MaxId
    BY LimitsAssumption DEF TypeOK, CanQueue
  <1>2. Numbered(k) \in Messages
    BY <1>1, LimitsAssumption DEF Numbered, Messages
  <1>3. outbox' \in Seq(Messages) /\ wire' \in Seq(Messages)
    BY <1>2, AppendProperties DEF TypeOK, Queue
  <1>4. Len(outbox') = Len(outbox) + 1
    BY <1>2, AppendProperties DEF TypeOK, Queue
  <1>5. Len(outbox) \in Nat
    BY LenProperties DEF TypeOK
  <1> QED
    BY <1>1, <1>2, <1>3, <1>4, <1>5, LimitsAssumption DEF CanQueue, Queue

\* What a publisher starts with is well typed.
LEMMA MessageTypes ==
    /\ NoMsg \in Messages /\ IdlePublisher \in PubRecord
  BY LimitsAssumption DEF NoMsg, Messages, Jobs, IdlePublisher, PubRecord, PublisherSteps

\* The publishers and the mutexes.
PubType ==
    /\ pub \in [Publishers -> PubRecord]
    /\ mutex \in BOOLEAN /\ mutex = (pub["web"].at = "stop")
    /\ pubMutex \in Publishers \union {"none"}
    /\ \A p \in Publishers : pubMutex = p <=> pub[p].at \in {"send", "mark", "wait"}

\* The rest of the types that a publisher's step may concern, but for the library's.
FlagType ==
    /\ evPuback \in BOOLEAN /\ connected \in BOOLEAN
    /\ requested \in BOOLEAN /\ confirmed \in BOOLEAN
    /\ strays \in BOOLEAN
    /\ pendingId \in -1..MaxId
    /\ counted \subseteq Messages

LibraryType ==
    /\ session \in {"up", "down", "lost"} /\ swaps \in Nat
    /\ nextId \in 1..MaxId + 1
    /\ outbox \in Seq(Messages) /\ wire \in Seq(Messages) /\ acks \in Seq(1..MaxId)
    /\ Len(outbox) <= OutboxMax

OtherType ==
    /\ everConnected \in BOOLEAN /\ timePublished \in BOOLEAN
    /\ evidence \in BOOLEAN /\ timeValid \in BOOLEAN
    /\ rollbackId \in -1..MaxId
    /\ handler \in [at : HandlerSteps, id : -1..MaxId, first : BOOLEAN, timeKnown : BOOLEAN]
    /\ statusTask \in {"look", "publish", "record", "deleted"}
    /\ retained \in {"online", "offline"}
    /\ drops \in 0..MaxDrops /\ timeEvents \in Nat
    /\ received \subseteq Watched

\* The type invariant is the conjunction of the parts that a step may concern.
LEMMA TypeParts ==
    /\ TypeOK <=> PubType /\ FlagType /\ LibraryType /\ OtherType
    /\ TypeOK' <=> PubType' /\ FlagType' /\ LibraryType' /\ OtherType'
  BY DEF TypeOK, PubType, FlagType, LibraryType, OtherType, PubRecord

\* A publisher p goes to r.
LEMMA PubMoves ==
    ASSUME TypeOK, NEW p \in Publishers, NEW r \in PubRecord,
           pub' = [pub EXCEPT ![p] = r],
           pubMutex' = IF r.at \in {"send", "mark", "wait"} THEN p
                       ELSE IF pubMutex = p THEN "none" ELSE pubMutex,
           r.at \in {"send", "mark", "wait"} => pubMutex \in {p, "none"},
           mutex' \in BOOLEAN,
           p = "web" => mutex' = (r.at = "stop"),
           p # "web" => mutex' = mutex
    PROVE  PubType'
  <1>1. /\ pub' \in [Publishers -> PubRecord]
        /\ pub'[p] = r
        /\ \A q \in Publishers : q # p => pub'[q] = pub[q]
    BY PubUpdate
  <1>2. PubType
    BY TypeParts
  <1>3. p # "none" /\ "web" \in Publishers
    BY DEF Publishers
  <1>4. pubMutex' \in Publishers \union {"none"}
    BY <1>2 DEF PubType
  <1>6. pubMutex' = p <=> r.at \in {"send", "mark", "wait"}
    BY <1>2, <1>3 DEF PubType
  <1>7. ASSUME NEW q \in Publishers, q # p
        PROVE  pubMutex' = q <=> pub[q].at \in {"send", "mark", "wait"}
    <2>1. q # "none" /\ (pubMutex = q <=> pub[q].at \in {"send", "mark", "wait"})
      BY <1>2 DEF PubType, Publishers
    <2>2. CASE r.at \in {"send", "mark", "wait"}
      BY <1>7, <2>1, <2>2
    <2>3. CASE r.at \notin {"send", "mark", "wait"}
      BY <1>7, <2>1, <2>3
    <2> QED
      BY <2>2, <2>3
  <1>8. \A q \in Publishers : pubMutex' = q <=> pub'[q].at \in {"send", "mark", "wait"}
    BY <1>1, <1>6, <1>7
  <1>5. mutex' = (pub'["web"].at = "stop")
    BY <1>1, <1>2, <1>3 DEF PubType
  <1> QED
    BY <1>1, <1>4, <1>5, <1>8 DEF PubType

\* A part whose variables do not change keeps its type.
LEMMA Unmoved ==
    /\ LibraryType /\ UNCHANGED library => LibraryType'
    /\ /\ OtherType
       /\ UNCHANGED status /\ UNCHANGED world /\ UNCHANGED handler
       /\ UNCHANGED rollbackId /\ UNCHANGED broker /\ UNCHANGED timeEvents
       => OtherType'
    /\ PubType /\ UNCHANGED locks /\ UNCHANGED pub => PubType'
    /\ /\ FlagType
       /\ UNCHANGED ack /\ UNCHANGED connected /\ UNCHANGED availability
       /\ UNCHANGED strays /\ UNCHANGED counted
       => FlagType'
  <1>1. LibraryType /\ UNCHANGED library => LibraryType'
    BY DEF LibraryType, library
  <1>2. /\ OtherType
        /\ UNCHANGED status /\ UNCHANGED world /\ UNCHANGED handler
        /\ UNCHANGED rollbackId /\ UNCHANGED broker /\ UNCHANGED timeEvents
        => OtherType'
    BY DEF OtherType, status, world, broker
  <1>3. PubType /\ UNCHANGED locks /\ UNCHANGED pub => PubType'
    BY DEF PubType, locks
  <1>4. /\ FlagType
        /\ UNCHANGED ack /\ UNCHANGED connected /\ UNCHANGED availability
        /\ UNCHANGED strays /\ UNCHANGED counted
        => FlagType'
    BY DEF FlagType, ack, availability
  <1> QED
    BY <1>1, <1>2, <1>3, <1>4

\* How the steps move the publishers, written with the whole record.
LEMMA Moves ==
    ASSUME TypeOK
    PROVE  /\ \A p \in Publishers, j \in Jobs : Begin(p, j) =>
                 pub' = [pub EXCEPT ![p] = [pub[p] EXCEPT !.at = "lock", !.job = j]]
           /\ \A p \in Publishers : PublishLock(p) =>
                 pub' = [pub EXCEPT ![p] = [pub[p] EXCEPT !.at = "send"]]
           /\ \A p \in Publishers : Refused(p) =>
                 pub' = [pub EXCEPT ![p] = [pub[p] EXCEPT !.at = "settle"]]
           /\ \A p \in Publishers : PublishDone(p) =>
                 pub' = [pub EXCEPT ![p] = [pub[p] EXCEPT !.at = "settle", !.ok = evPuback]]
           /\ MarkPending =>
                 pub' = [pub EXCEPT !["datalog"] = [pub["datalog"] EXCEPT !.at = "wait"]]
           /\ \A p \in Publishers, m \in Messages, s \in {"mark", "wait"} :
                 pub' = [pub EXCEPT ![p].at = s, ![p].msg = m] =>
                 pub' = [pub EXCEPT ![p] = [pub[p] EXCEPT !.at = s, !.msg = m]]
  <1>0. pub \in [Publishers -> PubRecord] /\ "datalog" \in Publishers
    BY DEF TypeOK, PubRecord, Publishers
  <1>1. ASSUME NEW p \in Publishers, NEW j \in Jobs, Begin(p, j)
        PROVE  pub' = [pub EXCEPT ![p] = [pub[p] EXCEPT !.at = "lock", !.job = j]]
    BY <1>0, <1>1 DEF Begin, PubRecord
  <1>2. ASSUME NEW p \in Publishers, PublishLock(p)
        PROVE  pub' = [pub EXCEPT ![p] = [pub[p] EXCEPT !.at = "send"]]
    BY <1>0, <1>2 DEF PublishLock, PubRecord
  <1>3. ASSUME NEW p \in Publishers, Refused(p)
        PROVE  pub' = [pub EXCEPT ![p] = [pub[p] EXCEPT !.at = "settle"]]
    BY <1>0, <1>3 DEF Refused, PubRecord
  <1>4. ASSUME NEW p \in Publishers, PublishDone(p)
        PROVE  pub' = [pub EXCEPT ![p] = [pub[p] EXCEPT !.at = "settle", !.ok = evPuback]]
    BY <1>0, <1>4 DEF PublishDone, PubRecord
  <1>5. MarkPending => pub' = [pub EXCEPT !["datalog"] = [pub["datalog"] EXCEPT !.at = "wait"]]
    BY <1>0 DEF MarkPending, PubRecord
  <1>6. ASSUME NEW p \in Publishers, NEW m \in Messages, NEW s \in {"mark", "wait"},
               pub' = [pub EXCEPT ![p].at = s, ![p].msg = m]
        PROVE  pub' = [pub EXCEPT ![p] = [pub[p] EXCEPT !.at = s, !.msg = m]]
    BY <1>0, <1>6 DEF PubRecord
  <1> QED
    BY <1>1, <1>2, <1>3, <1>4, <1>5, <1>6

\* The updated records have their type.
LEMMA RecordType ==
    ASSUME NEW r \in PubRecord
    PROVE  /\ \A j \in Jobs : [r EXCEPT !.at = "lock", !.job = j] \in PubRecord
           /\ [r EXCEPT !.at = "send"] \in PubRecord
           /\ [r EXCEPT !.at = "settle"] \in PubRecord
           /\ [r EXCEPT !.at = "wait"] \in PubRecord
           /\ \A b \in BOOLEAN : [r EXCEPT !.at = "settle", !.ok = b] \in PubRecord
           /\ \A m \in Messages, s \in {"mark", "wait"} :
                 [r EXCEPT !.at = s, !.msg = m] \in PubRecord
           /\ [IdlePublisher EXCEPT !.at = "stop"] \in PubRecord
  <1> USE DEF PubRecord, PublisherSteps
  <1>1. [IdlePublisher EXCEPT !.at = "stop"] \in PubRecord
    BY MessageTypes DEF IdlePublisher
  <1> QED
    BY <1>1

\* A publisher's own steps, without those that send.
LEMMA PublisherType ==
    ASSUME TypeOK
    PROVE  /\ \A p \in Publishers, j \in Jobs : Begin(p, j) => TypeOK'
           /\ \A p \in Publishers : PublishLock(p) \/ PublishDone(p) => TypeOK'
           /\ MarkPending \/ Settle \/ SwapBegin \/ SwapEnd => TypeOK'
  <1>0. /\ PubType /\ FlagType /\ LibraryType /\ OtherType
        /\ \A p \in Publishers : p = "datalog" \/ p = "web"
        /\ "datalog" \in Publishers /\ "web" \in Publishers
        /\ "none" \notin Publishers
    BY TypeParts DEF Publishers
  <1> DEFINE Inside == {"send", "mark", "wait"}
  <1>a. /\ pub \in [Publishers -> PubRecord]
        /\ mutex \in BOOLEAN /\ mutex = (pub["web"].at = "stop")
        /\ pubMutex \in Publishers \union {"none"}
        /\ \A p \in Publishers : pubMutex = p <=> pub[p].at \in Inside
    BY <1>0 DEF PubType
  <1>1. ASSUME NEW p \in Publishers, NEW j \in Jobs, Begin(p, j)
        PROVE  TypeOK'
    <2> DEFINE r == [pub[p] EXCEPT !.at = "lock", !.job = j]
    <2>1. r \in PubRecord /\ pub' = [pub EXCEPT ![p] = r]
      BY <1>a, <1>1, Moves, RecordType
    <2>2. r.at = "lock" /\ pub[p].at = "idle"
      BY <1>a, <1>1 DEF Begin, IdlePublisher, PubRecord
    <2> HIDE DEF r
    <2>3. UNCHANGED <<locks, ack, flags, handler, net, history>>
      BY <1>1 DEF Begin
    <2>4. PubType'
      <3>1. pubMutex' = pubMutex /\ mutex' = mutex
        BY <2>3 DEF locks
      <3>2. pubMutex # p
        BY <1>a, <2>2
      <3>3. p = "web" => mutex' = (r.at = "stop")
        BY <1>a, <2>2, <3>1
      <3> QED
        BY <1>a, <2>1, <2>2, <3>1, <3>2, <3>3, PubMoves
    <2> QED
      BY <1>0, <2>3, <2>4, Unmoved, TypeParts DEF flags, net, history, locks
  <1>2. ASSUME NEW p \in Publishers, PublishLock(p)
        PROVE  TypeOK'
    <2> DEFINE r == [pub[p] EXCEPT !.at = "send"]
    <2>1. r \in PubRecord /\ pub' = [pub EXCEPT ![p] = r]
      BY <1>a, <1>2, Moves, RecordType
    <2>2. r.at = "send" /\ pub[p].at = "lock" /\ pubMutex = "none" /\ pubMutex' = p
      BY <1>a, <1>2 DEF PublishLock, PubRecord
    <2> HIDE DEF r
    <2>3. UNCHANGED <<mutex, pendingId, flags, handler, net, history>> /\ evPuback' = FALSE
      BY <1>2 DEF PublishLock
    <2>4. PubType'
      <3>1. p = "web" => mutex' = (r.at = "stop")
        BY <1>a, <2>2, <2>3
      <3> QED
        BY <1>a, <2>1, <2>2, <2>3, <3>1, PubMoves
    <2>5. FlagType'
      BY <1>0, <2>3 DEF FlagType, flags, availability, history
    <2> QED
      BY <1>0, <2>3, <2>4, <2>5, Unmoved, TypeParts DEF flags, net, history
  <1>3. ASSUME NEW p \in Publishers, PublishDone(p)
        PROVE  TypeOK'
    <2> DEFINE r == [pub[p] EXCEPT !.at = "settle", !.ok = evPuback]
    <2>1. r \in PubRecord /\ pub' = [pub EXCEPT ![p] = r]
      BY <1>0, <1>a, <1>3, Moves, RecordType DEF FlagType
    <2>2. r.at = "settle" /\ pub[p].at = "wait" /\ pubMutex = p /\ pubMutex' = "none"
      BY <1>a, <1>3 DEF PublishDone, PubRecord
    <2> HIDE DEF r
    <2>3. /\ UNCHANGED <<mutex, flags, handler, net, counted, timeEvents>>
          /\ evPuback' = FALSE /\ pendingId' = -1
      BY <1>3 DEF PublishDone
    <2>4. PubType'
      <3>1. p = "web" => mutex' = (r.at = "stop")
        BY <1>a, <2>2, <2>3
      <3> QED
        BY <1>a, <2>1, <2>2, <2>3, <3>1, PubMoves
    <2>5. strays' \in BOOLEAN
      BY <1>3, Zenon DEF PublishDone
    <2>6. FlagType'
      <3>1. pendingId' \in -1..MaxId
        BY <2>3, LimitsAssumption
      <3>2. evPuback' \in BOOLEAN
        BY <2>3
      <3>3. UNCHANGED <<connected, requested, confirmed, counted>>
        BY <2>3 DEF flags, availability
      <3> QED
        BY <1>0, <2>5, <3>1, <3>2, <3>3 DEF FlagType
    <2> QED
      BY <1>0, <2>3, <2>4, <2>6, Unmoved, TypeParts DEF flags, net
  <1>4. ASSUME MarkPending PROVE TypeOK'
    <2> DEFINE p == "datalog"
    <2> DEFINE r == [pub[p] EXCEPT !.at = "wait"]
    <2>1. r \in PubRecord /\ pub' = [pub EXCEPT ![p] = r]
      BY <1>0, <1>a, <1>4, Moves, RecordType
    <2>2. r.at = "wait" /\ pub[p].at = "mark" /\ pubMutex = p /\ pub[p].msg.id \in -1..MaxId
      BY <1>0, <1>a, <1>4 DEF MarkPending, PubRecord, Messages
    <2> HIDE DEF r
    <2>3. /\ UNCHANGED <<locks, evPuback, flags, handler, net, history>>
          /\ pendingId' = pub[p].msg.id
      BY <1>4 DEF MarkPending
    <2>4. PubType'
      BY <1>0, <1>a, <2>1, <2>2, <2>3, PubMoves DEF locks
    <2>5. FlagType'
      BY <1>0, <2>2, <2>3 DEF FlagType, flags, availability, history
    <2> QED
      BY <1>0, <2>3, <2>4, <2>5, Unmoved, TypeParts DEF flags, net, history
  <1>5. ASSUME Settle PROVE TypeOK'
    <2>1. IdlePublisher \in PubRecord /\ IdlePublisher.at = "idle"
      BY MessageTypes DEF IdlePublisher
    <2>2. pub["datalog"].at = "settle" /\ pub' = [pub EXCEPT !["datalog"] = IdlePublisher]
      BY <1>5 DEF Settle
    <2>3. UNCHANGED <<locks, ack, connected, rollbackId, status, handler, world, net, strays,
                      timeEvents>>
      BY <1>5 DEF Settle
    <2>4. PubType'
      BY <1>0, <1>a, <2>1, <2>2, <2>3, PubMoves DEF locks
    <2>5. counted' \subseteq Messages
      BY <1>0, <1>a, <1>5 DEF Settle, FlagType, PubRecord
    <2>6. requested' \in BOOLEAN /\ confirmed' \in BOOLEAN
      BY <1>5, Zenon DEF Settle
    <2>7. FlagType'
      BY <1>0, <2>3, <2>5, <2>6 DEF FlagType, ack
    <2> QED
      BY <1>0, <2>3, <2>4, <2>7, Unmoved, TypeParts DEF net
  <1>6. ASSUME SwapBegin PROVE TypeOK'
    <2> DEFINE r == [IdlePublisher EXCEPT !.at = "stop"]
    <2>1. r \in PubRecord
      BY <1>0, <1>a, RecordType
    <2>2. /\ pub["web"].at = "settle" /\ pub' = [pub EXCEPT !["web"] = r]
          /\ mutex' = TRUE /\ r.at = "stop"
      BY <1>6 DEF SwapBegin, IdlePublisher
    <2> HIDE DEF r
    <2>3. UNCHANGED <<pubMutex, ack, flags, handler, net, history>>
      BY <1>6 DEF SwapBegin
    <2>4. PubType'
      BY <1>0, <1>a, <2>1, <2>2, <2>3, PubMoves
    <2> QED
      BY <1>0, <2>3, <2>4, Unmoved, TypeParts DEF flags, net, history
  <1>7. ASSUME SwapEnd PROVE TypeOK'
    <2>1. IdlePublisher \in PubRecord /\ IdlePublisher.at = "idle"
      BY MessageTypes DEF IdlePublisher
    <2>2. /\ pub["web"].at = "stop" /\ pub' = [pub EXCEPT !["web"] = IdlePublisher]
          /\ mutex' = FALSE /\ connected' = FALSE
      BY <1>7 DEF SwapEnd
    <2>3. UNCHANGED <<pubMutex, ack, rollbackId, availability, status, handler, world, nextId,
                      broker, history>>
      BY <1>7 DEF SwapEnd
    <2>4. PubType'
      BY <1>0, <1>a, <2>1, <2>2, <2>3, PubMoves
    <2>5. FlagType'
      BY <1>0, <2>2, <2>3 DEF FlagType, ack, availability, history
    <2>6. /\ swaps' = swaps + 1 /\ session' = "down"
          /\ outbox' = <<>> /\ wire' = <<>> /\ acks' = <<>>
      BY <1>7 DEF SwapEnd
    <2>7. LibraryType'
      BY <1>0, <2>3, <2>6, LimitsAssumption, EmptySeq DEF LibraryType
    <2> QED
      BY <1>0, <2>3, <2>4, <2>5, <2>7, Unmoved, TypeParts DEF history
  <1> QED
    BY <1>1, <1>2, <1>3, <1>4, <1>5, <1>6, <1>7

\* p is refused: it settles, and gives the lock of the round trips back.
LEMMA RefusedType ==
    ASSUME TypeOK, NEW p \in Publishers, pub[p].at = "send", Refused(p), UNCHANGED mutex
    PROVE  PubType' /\ pendingId' = -1 /\ pendingId' \in -1..MaxId
  <1> DEFINE r == [pub[p] EXCEPT !.at = "settle"]
  <1>1. /\ pub \in [Publishers -> PubRecord]
        /\ mutex \in BOOLEAN /\ mutex = (pub["web"].at = "stop")
        /\ \A q \in Publishers : pubMutex = q <=> pub[q].at \in {"send", "mark", "wait"}
    BY TypeParts DEF PubType
  <1>2. r \in PubRecord /\ pub' = [pub EXCEPT ![p] = r]
    BY <1>1, Moves, RecordType
  <1>3. r.at = "settle" /\ pubMutex = p /\ pubMutex' = "none" /\ pendingId' = -1
    BY <1>1 DEF Refused, PubRecord
  <1> HIDE DEF r
  <1>4. p = "web" => mutex' = (r.at = "stop")
    BY <1>1, <1>3
  <1>5. PubType'
    BY <1>1, <1>2, <1>3, <1>4, PubMoves
  <1> QED
    BY <1>3, <1>5, LimitsAssumption

\* p has sent its message, and goes to s with it.
LEMMA SentType ==
    ASSUME TypeOK, NEW p \in Publishers, pub[p].at = "send",
           NEW m \in Messages, NEW s \in {"mark", "wait"},
           pub' = [pub EXCEPT ![p].at = s, ![p].msg = m], UNCHANGED <<mutex, pubMutex>>
    PROVE  PubType'
  <1> DEFINE r == [pub[p] EXCEPT !.at = s, !.msg = m]
  <1>1. /\ pub \in [Publishers -> PubRecord]
        /\ mutex \in BOOLEAN /\ mutex = (pub["web"].at = "stop")
        /\ \A q \in Publishers : pubMutex = q <=> pub[q].at \in {"send", "mark", "wait"}
    BY TypeParts DEF PubType
  <1>2. r \in PubRecord /\ pub' = [pub EXCEPT ![p] = r]
    BY <1>1, Moves, RecordType
  <1>3. r.at = s /\ pubMutex = p
    BY <1>1 DEF PubRecord
  <1> HIDE DEF r
  <1>4. p = "web" => mutex' = (r.at = "stop")
    BY <1>1, <1>3
  <1>5. /\ r.at \in {"send", "mark", "wait"} /\ pubMutex' = p /\ pubMutex \in {p, "none"}
        /\ mutex' \in BOOLEAN /\ mutex' = mutex
    BY <1>1, <1>3
  <1>6. pubMutex' = IF r.at \in {"send", "mark", "wait"} THEN p
                    ELSE IF pubMutex = p THEN "none" ELSE pubMutex
    BY <1>5, Zenon
  <1> QED
    BY <1>2, <1>4, <1>5, <1>6, PubMoves

\* Queueing a message keeps the types of the library.
LEMMA LibraryQueues ==
    ASSUME TypeOK, CanQueue,
           NEW k \in Jobs \union {"rollback", "boot", "reconnected", "time"},
           Queue(Numbered(k))
    PROVE  LibraryType'
  <1>1. /\ outbox' \in Seq(Messages) /\ wire' \in Seq(Messages)
        /\ Len(outbox') <= OutboxMax /\ nextId' \in 1..MaxId + 1
    BY QueueType
  <1>2. UNCHANGED <<swaps, session, acks>>
    BY DEF Queue
  <1> QED
    BY <1>1, <1>2, TypeParts DEF LibraryType

\* A publisher's send keeps the type invariant, accepted or refused.
LEMMA SendType ==
    ASSUME TypeOK,
           SendTelemetry \/ \E p \in Publishers : SendAvailability(p)
    PROVE  TypeOK'
  <1>0. /\ PubType /\ FlagType /\ LibraryType /\ OtherType
        /\ "datalog" \in Publishers /\ pub \in [Publishers -> PubRecord]
    BY TypeParts DEF Publishers, PubType
  <1>1. CASE SendTelemetry
    <2>1. /\ pub["datalog"].at = "send"
          /\ UNCHANGED <<mutex, evPuback, flags, handler, broker, history>>
      BY <1>1 DEF SendTelemetry
    <2>2. CASE /\ CanQueue
               /\ Queue(Numbered("telemetry"))
               /\ pub' = [pub EXCEPT !["datalog"].at = "mark",
                                     !["datalog"].msg = Numbered("telemetry")]
               /\ UNCHANGED <<pendingId, pubMutex>>
      <3>1. Numbered("telemetry") \in Messages /\ LibraryType'
        BY <2>2, QueueType, LibraryQueues DEF Jobs
      <3>2. PubType'
        BY <1>0, <2>1, <2>2, <3>1, SentType
      <3> QED
        BY <1>0, <2>1, <2>2, <3>1, <3>2, Unmoved, TypeParts DEF flags, ack, history
    <2>3. CASE ~CanQueue /\ Refused("datalog")
      <3>1. PubType' /\ pendingId' \in -1..MaxId /\ UNCHANGED library
        BY <1>0, <2>1, <2>3, RefusedType DEF Refused
      <3>2. FlagType'
        BY <1>0, <2>1, <3>1 DEF FlagType, flags, availability, history
      <3> QED
        BY <1>0, <2>1, <3>1, <3>2, Unmoved, TypeParts DEF flags, history
    <2> QED
      BY <1>1, <2>2, <2>3 DEF SendTelemetry
  <1>2. ASSUME NEW p \in Publishers, SendAvailability(p) PROVE TypeOK'
    <2>1. /\ pub[p].at = "send"
          /\ UNCHANGED <<mutex, evPuback, flags, handler, broker, history>>
      BY <1>2 DEF SendAvailability
    <2>2. CASE /\ connected /\ CanQueue
               /\ Queue(Numbered(pub[p].job))
               /\ pub' = [pub EXCEPT ![p].at = "wait", ![p].msg = Numbered(pub[p].job)]
               /\ pendingId' = nextId
               /\ UNCHANGED pubMutex
      <3>1. /\ Numbered(pub[p].job) \in Messages /\ LibraryType'
            /\ nextId \in 1..MaxId /\ nextId \in -1..MaxId
        BY <1>0, <2>2, QueueType, LibraryQueues, LimitsAssumption DEF PubRecord
      <3>2. PubType'
        BY <2>1, <2>2, <3>1, SentType
      <3>3. FlagType'
        BY <1>0, <2>1, <2>2, <3>1 DEF FlagType, flags, availability, history
      <3> QED
        BY <1>0, <2>1, <3>1, <3>2, <3>3, Unmoved, TypeParts DEF flags, history
    <2>3. CASE ~(connected /\ CanQueue) /\ Refused(p)
      <3>1. PubType' /\ pendingId' \in -1..MaxId /\ UNCHANGED library
        BY <1>0, <2>1, <2>3, RefusedType DEF Refused
      <3>2. FlagType'
        BY <1>0, <2>1, <3>1 DEF FlagType, flags, availability, history
      <3> QED
        BY <1>0, <2>1, <3>1, <3>2, Unmoved, TypeParts DEF flags, history
    <2> QED
      BY <1>2, <2>2, <2>3 DEF SendAvailability
  <1> QED
    BY <1>1, <1>2

HandlerRecord == [at : HandlerSteps, id : -1..MaxId, first : BOOLEAN, timeKnown : BOOLEAN]

\* The records of the handler: where it is, and what it has read so far.
LEMMA HandlerType ==
    /\ IdleHandler \in HandlerRecord
    /\ \A h \in HandlerRecord, s \in HandlerSteps :
          /\ [h EXCEPT !.at = s] \in HandlerRecord
          /\ \A i \in 1..MaxId : [h EXCEPT !.at = s, !.id = i] \in HandlerRecord
          /\ \A b \in BOOLEAN : [h EXCEPT !.at = s, !.timeKnown = b] \in HandlerRecord
          /\ \A b \in BOOLEAN : [h EXCEPT !.at = s, !.first = b] \in HandlerRecord
  <1>1. IdleHandler \in HandlerRecord
    BY LimitsAssumption DEF IdleHandler, HandlerRecord, HandlerSteps, NeedsMutex
  <1>2. ASSUME NEW h \in HandlerRecord, NEW s \in HandlerSteps
        PROVE  /\ [h EXCEPT !.at = s] \in HandlerRecord
               /\ \A b \in BOOLEAN : [h EXCEPT !.at = s, !.timeKnown = b] \in HandlerRecord
               /\ \A b \in BOOLEAN : [h EXCEPT !.at = s, !.first = b] \in HandlerRecord
    BY DEF HandlerRecord
  <1>3. ASSUME NEW h \in HandlerRecord, NEW s \in HandlerSteps, NEW i \in 1..MaxId
        PROVE  [h EXCEPT !.at = s, !.id = i] \in HandlerRecord
    <2>1. i \in -1..MaxId
      BY LimitsAssumption
    <2> QED
      BY <2>1 DEF HandlerRecord
  <1> QED
    BY <1>1, <1>2, <1>3

\* The handler's jumps keep its type.
LEMMA GotoType ==
    ASSUME TypeOK, NEW from, NEW to
    PROVE  /\ to \in HandlerSteps /\ Goto(from, to) => handler' \in HandlerRecord
           /\ Return(from) => handler' \in HandlerRecord
  <1>1. handler \in HandlerRecord
    BY DEF TypeOK, HandlerRecord
  <1> QED
    BY <1>1, HandlerType DEF Goto, Return

\* A status event that is queued, or not.
LEMMA StatusType ==
    ASSUME TypeOK, NEW k \in {"rollback", "boot", "reconnected", "time"}, NEW b \in BOOLEAN,
           StatusEvent(k, b) \/ NoStatusEvent
    PROVE  LibraryType' /\ rollbackId' \in -1..MaxId /\ timeEvents' \in Nat
  <1>1. rollbackId \in -1..MaxId /\ timeEvents \in Nat
    BY DEF TypeOK
  <1>2. CASE StatusEvent(k, b)
    <2>1. CanQueue /\ Queue(Numbered(k))
      BY <1>2 DEF StatusEvent
    <2>2. LibraryType' /\ nextId \in 1..MaxId
      BY <2>1, QueueType, LibraryQueues
    <2> QED
      BY <1>1, <1>2, <2>2, LimitsAssumption DEF StatusEvent
  <1>3. CASE NoStatusEvent
    BY <1>1, <1>3, TypeParts, Unmoved DEF NoStatusEvent
  <1> QED
    BY <1>2, <1>3

\* Every step of mqtt_event_handler keeps the type invariant.
LEMMA HandlerStepsType ==
    ASSUME TypeOK, HandlerNext
    PROVE  TypeOK'
  <1>0. /\ PubType /\ FlagType /\ LibraryType /\ OtherType
        /\ HandlerSteps = NeedsMutex \union {"idle", "connected", "disconnected",
              "published_pending", "published_set", "published_rollback"}
        /\ handler \in HandlerRecord
    BY TypeParts DEF HandlerSteps, OtherType, HandlerRecord
  <1> USE DEF publishing, locks, ack, availability, status, world, net, history
  <1>1. CASE OnConnected
    <2>1. handler' \in HandlerRecord
      BY <1>0, <1>1, GotoType DEF OnConnected, NeedsMutex
    <2>2. FlagType'
      BY <1>0, <1>1 DEF OnConnected, FlagType
    <2>3. OtherType'
      BY <1>0, <1>1, <2>1 DEF OnConnected, OtherType, HandlerRecord, broker
    <2> QED
      BY <1>0, <1>1, <2>2, <2>3, Unmoved, TypeParts DEF OnConnected
  <1>2. CASE RequestAvailability
    <2>1. handler' \in HandlerRecord
      BY <1>0, <1>2, HandlerType DEF RequestAvailability, NeedsMutex, OtherType
    <2>2. FlagType'
      BY <1>0, <1>2 DEF RequestAvailability, FlagType
    <2>3. OtherType'
      BY <1>0, <1>2, <2>1 DEF RequestAvailability, OtherType, HandlerRecord, broker
    <2> QED
      BY <1>0, <1>2, <2>2, <2>3, Unmoved, TypeParts DEF RequestAvailability
  <1>3. CASE ReserveTimeStatus
    <2>1. handler' = [handler EXCEPT !.at = "connected_status", !.first = ~everConnected]
      BY <1>3 DEF ReserveTimeStatus
    <2>2. (~everConnected) \in BOOLEAN /\ "connected_status" \in HandlerSteps
      BY <1>0 DEF NeedsMutex
    <2>3. handler' \in HandlerRecord
      BY <1>0, <2>1, <2>2, HandlerType
    <2>4. timePublished' \in BOOLEAN
      BY <1>3, Zenon DEF ReserveTimeStatus
    <2>5. OtherType'
      BY <1>0, <1>3, <2>3, <2>4 DEF ReserveTimeStatus, OtherType, HandlerRecord, broker
    <2> QED
      BY <1>0, <1>3, <2>5, Unmoved, TypeParts DEF ReserveTimeStatus
  <1>4. CASE ConnectedStatus
    <2> DEFINE first == handler.first /\ handler.timeKnown
    <2>1. first \in BOOLEAN /\ ConnectReason \in {"rollback", "boot", "reconnected", "time"}
      BY DEF ConnectReason
    <2>2. /\ StatusEvent(ConnectReason, first) \/ NoStatusEvent
          /\ Return("connected_status") \/ Goto("connected_status", "connected_undo")
      BY <1>4 DEF ConnectedStatus
    <2>3. UNCHANGED <<publishing, connected, availability, status, world, broker, counted,
                      strays>>
      BY <1>4 DEF ConnectedStatus
    <2> HIDE DEF first
    <2>4. LibraryType' /\ rollbackId' \in -1..MaxId /\ timeEvents' \in Nat
      BY <2>1, <2>2, StatusType
    <2>5. handler' \in HandlerRecord
      BY <1>0, <2>2, GotoType DEF NeedsMutex
    <2>6. OtherType'
      BY <1>0, <2>3, <2>4, <2>5 DEF OtherType, HandlerRecord, broker
    <2> QED
      BY <1>0, <2>3, <2>4, <2>6, Unmoved, TypeParts
  <1>5. CASE UndoReservation
    <2>1. handler' \in HandlerRecord
      BY <1>5, GotoType DEF UndoReservation
    <2>2. OtherType'
      BY <1>0, <1>5, <2>1 DEF UndoReservation, OtherType, HandlerRecord, broker
    <2> QED
      BY <1>0, <1>5, <2>2, Unmoved, TypeParts DEF UndoReservation
  <1>6. CASE OnDisconnected
    <2>1. handler' \in HandlerRecord
      BY <1>0, <1>6, GotoType DEF OnDisconnected, NeedsMutex
    <2>2. rollbackId' \in -1..MaxId
      BY <1>6, LimitsAssumption DEF OnDisconnected
    <2>3. FlagType'
      BY <1>0, <1>6 DEF OnDisconnected, FlagType
    <2>4. OtherType'
      BY <1>0, <1>6, <2>1, <2>2 DEF OnDisconnected, OtherType, HandlerRecord, broker
    <2> QED
      BY <1>0, <1>6, <2>3, <2>4, Unmoved, TypeParts DEF OnDisconnected
  <1>7. CASE Unconfirm
    <2>1. handler' \in HandlerRecord
      BY <1>7, GotoType DEF Unconfirm
    <2>2. FlagType'
      BY <1>0, <1>7 DEF Unconfirm, FlagType
    <2>3. OtherType'
      BY <1>0, <1>7, <2>1 DEF Unconfirm, OtherType, HandlerRecord, broker
    <2> QED
      BY <1>0, <1>7, <2>2, <2>3, Unmoved, TypeParts DEF Unconfirm
  <1>8. CASE OnPublished \/ ComparePending
    <2>1. handler' \in HandlerRecord
      BY <1>0, <1>8, GotoType DEF OnPublished, ComparePending
    <2>2. UNCHANGED <<publishing, flags, net, history>>
      BY <1>8 DEF OnPublished, ComparePending
    <2>3. OtherType'
      BY <1>0, <2>1, <2>2 DEF OtherType, HandlerRecord, broker, flags
    <2> QED
      BY <1>0, <2>2, <2>3, Unmoved, TypeParts DEF flags
  <1>9. CASE SetPuback
    <2>1. handler' \in HandlerRecord
      BY <1>0, <1>9, GotoType DEF SetPuback
    <2>2. FlagType'
      BY <1>0, <1>9 DEF SetPuback, FlagType, flags
    <2>3. OtherType'
      BY <1>0, <1>9, <2>1 DEF SetPuback, OtherType, HandlerRecord, broker, flags
    <2> QED
      BY <1>0, <1>9, <2>2, <2>3, Unmoved, TypeParts DEF SetPuback, flags
  <1>10. CASE CompareRollback
    <2>1. handler' \in HandlerRecord
      BY <1>10, GotoType DEF CompareRollback
    <2>4. rollbackId' \in -1..MaxId
      <3>1. rollbackId' = -1 \/ rollbackId' = rollbackId
        BY <1>10 DEF CompareRollback
      <3> QED
        BY <1>0, <3>1, LimitsAssumption DEF OtherType
    <2>5. evidence' \in {FALSE, evidence}
      BY <1>10 DEF CompareRollback
    <2>2. rollbackId' \in -1..MaxId /\ evidence' \in BOOLEAN
      BY <1>0, <2>4, <2>5 DEF OtherType
    <2>3. OtherType'
      BY <1>0, <1>10, <2>1, <2>2 DEF CompareRollback, OtherType, HandlerRecord, broker
    <2> QED
      BY <1>0, <1>10, <2>3, Unmoved, TypeParts DEF CompareRollback
  <1> QED
    BY <1>1, <1>2, <1>3, <1>4, <1>5, <1>6, <1>7, <1>8, <1>9, <1>10 DEF HandlerNext

\* A message leaves the outbox.
LEMMA Removed ==
    ASSUME NEW S, NEW s \in Seq(S), NEW i \in 1..Len(s)
    PROVE  /\ RemoveAt(s, i) \in Seq(S)
           /\ Len(RemoveAt(s, i)) = Len(s) - 1
           /\ \A j \in 1..Len(s) - 1 :
                 RemoveAt(s, i)[j] = IF j < i THEN s[j] ELSE s[j + 1]
  <1> DEFINE a == SubSeq(s, 1, i - 1)
             b == SubSeq(s, i + 1, Len(s))
  <1>0. Len(s) \in Nat
    BY LenProperties
  <1>1. a \in Seq(S) /\ Len(a) = i - 1 /\ \A j \in 1..i - 1 : a[j] = s[j]
    BY <1>0, SubSeqProperties
  <1>2. b \in Seq(S) /\ Len(b) = Len(s) - i /\ \A j \in 1..Len(s) - i : b[j] = s[i + j]
    BY <1>0, SubSeqProperties
  <1>3. RemoveAt(s, i) = a \o b
    BY DEF RemoveAt
  <1> HIDE DEF a, b
  <1>4. /\ a \o b \in Seq(S)
        /\ Len(a \o b) = Len(a) + Len(b)
        /\ \A j \in 1..Len(a) + Len(b) :
              (a \o b)[j] = IF j <= Len(a) THEN a[j] ELSE b[j - Len(a)]
    BY <1>1, <1>2, ConcatProperties
  <1>5. ASSUME NEW j \in 1..Len(s) - 1
        PROVE  (a \o b)[j] = IF j < i THEN s[j] ELSE s[j + 1]
    <2>1. CASE j < i
      BY <1>0, <1>1, <1>2, <1>4, <2>1
    <2>2. CASE ~(j < i)
      <3>1. (a \o b)[j] = b[j - (i - 1)] /\ j - (i - 1) \in 1..Len(s) - i
        BY <1>0, <1>1, <1>2, <1>4, <2>2
      <3>2. i + (j - (i - 1)) = j + 1
        OBVIOUS
      <3> QED
        BY <1>2, <2>2, <3>1, <3>2
    <2> QED
      BY <2>1, <2>2
  <1> QED
    BY <1>0, <1>1, <1>2, <1>3, <1>4, <1>5

\* Every step of status_task keeps the type invariant.
LEMMA StatusTaskType ==
    ASSUME TypeOK, StatusTaskNext
    PROVE  TypeOK'
  <1>0. PubType /\ FlagType /\ LibraryType /\ OtherType
    BY TypeParts
  <1> USE DEF publishing, locks, ack, availability, world, net, history
  <1>1. CASE StatusTaskLooks
    <2>1. OtherType'
      BY <1>0, <1>1 DEF StatusTaskLooks, OtherType, broker
    <2> QED
      BY <1>0, <1>1, <2>1, Unmoved, TypeParts DEF StatusTaskLooks
  <1>2. CASE StatusTaskPublishes
    <2>1. LibraryType' /\ rollbackId' \in -1..MaxId /\ timeEvents' \in Nat
      BY <1>2, StatusType DEF StatusTaskPublishes
    <2>2. /\ UNCHANGED <<publishing, connected, availability, everConnected, timePublished,
                         handler, world, broker, counted, strays>>
          /\ statusTask' \in {"record", "look"}
      BY <1>2 DEF StatusTaskPublishes
    <2>3. OtherType'
      BY <1>0, <2>1, <2>2 DEF OtherType, broker
    <2> QED
      BY <1>0, <2>1, <2>2, <2>3, Unmoved, TypeParts
  <1>3. CASE StatusTaskEnds
    <2>1. OtherType'
      BY <1>0, <1>3 DEF StatusTaskEnds, OtherType, broker
    <2> QED
      BY <1>0, <1>3, <2>1, Unmoved, TypeParts DEF StatusTaskEnds
  <1> QED
    BY <1>1, <1>2, <1>3 DEF StatusTaskNext

\* The message that the broker receives next, and the acknowledgement the library does.
LEMMA HeadType ==
    ASSUME LibraryType
    PROVE  /\ wire # <<>> => Head(wire) \in Messages /\ Tail(wire) \in Seq(Messages)
           /\ acks # <<>> => Head(acks) \in 1..MaxId /\ Tail(acks) \in Seq(1..MaxId)
  BY HeadTailProperties DEF LibraryType

\* Every step of the library, the broker and the clock keeps the type invariant.
LEMMA WorldType ==
    ASSUME TypeOK, WorldNext, OutboxInv
    PROVE  TypeOK'
  <1>0. /\ PubType /\ FlagType /\ LibraryType /\ OtherType
        /\ {"idle", "connected", "disconnected", "published"} \subseteq HandlerSteps
    BY TypeParts DEF HandlerSteps, NeedsMutex
  <1> USE DEF publishing, flags, locks, ack, availability, status, world, history
  <1>1. CASE LibConnects
    <2>1. handler' \in HandlerRecord
      BY <1>0, <1>1, HandlerType DEF LibConnects
    <2>2. OtherType'
      BY <1>0, <1>1, <2>1 DEF LibConnects, OtherType, HandlerRecord, broker
    <2>3. LibraryType'
      BY <1>0, <1>1, EmptySeq DEF LibConnects, LibraryType
    <2> QED
      BY <1>0, <1>1, <2>2, <2>3, Unmoved, TypeParts DEF LibConnects
  <1>2. CASE SessionBreaks
    <2>1. drops' \in 0..MaxDrops
      BY <1>0, <1>2, LimitsAssumption DEF SessionBreaks, OtherType
    <2>2. OtherType'
      BY <1>0, <1>2, <2>1 DEF SessionBreaks, OtherType
    <2>3. LibraryType'
      BY <1>0, <1>2, EmptySeq DEF SessionBreaks, LibraryType
    <2> QED
      BY <1>0, <1>2, <2>2, <2>3, Unmoved, TypeParts DEF SessionBreaks
  <1>3. CASE LibNoticesBreak
    <2>1. handler' \in HandlerRecord
      BY <1>0, <1>3, HandlerType DEF LibNoticesBreak
    <2>2. OtherType'
      BY <1>0, <1>3, <2>1 DEF LibNoticesBreak, OtherType, HandlerRecord, broker
    <2>3. LibraryType'
      BY <1>0, <1>3 DEF LibNoticesBreak, LibraryType
    <2> QED
      BY <1>0, <1>3, <2>2, <2>3, Unmoved, TypeParts DEF LibNoticesBreak
  <1>4. CASE LibReceivesPuback
    <2>1. Head(acks) \in 1..MaxId /\ Tail(acks) \in Seq(1..MaxId)
      BY <1>0, <1>4, HeadType DEF LibReceivesPuback
    <2>2. handler' \in HandlerRecord
      BY <1>0, <1>4, <2>1, HandlerType DEF LibReceivesPuback
    <2>3. outbox' \in Seq(Messages) /\ Len(outbox') <= OutboxMax
      <3>1. PICK i \in 1..Len(outbox) : outbox' = RemoveAt(outbox, i)
        BY <1>0, <1>4, LenProperties DEF LibReceivesPuback, LibraryType
      <3>2. outbox \in Seq(Messages) /\ Len(outbox) \in Nat /\ Len(outbox) <= OutboxMax
        BY <1>0, LenProperties DEF LibraryType
      <3>3. outbox' \in Seq(Messages) /\ Len(outbox') = Len(outbox) - 1
        BY <3>1, <3>2, Removed
      <3> QED
        BY <3>2, <3>3, LimitsAssumption
    <2>4. OtherType'
      BY <1>0, <1>4, <2>2 DEF LibReceivesPuback, OtherType, HandlerRecord, broker
    <2>5. LibraryType'
      BY <1>0, <1>4, <2>1, <2>3 DEF LibReceivesPuback, LibraryType
    <2> QED
      BY <1>0, <1>4, <2>4, <2>5, Unmoved, TypeParts DEF LibReceivesPuback
  <1>5. CASE BrokerReceives
    <2>0. session = "up" /\ wire # <<>>
      BY <1>5 DEF BrokerReceives
    <2>1. Head(wire) \in Messages /\ Tail(wire) \in Seq(Messages)
      BY <1>0, <2>0, HeadType
    <2>2. Head(wire).id \in 1..MaxId
      <3>1. /\ Len(wire) \in Nat /\ Len(acks) \in Nat /\ Len(outbox) \in Nat
            /\ DOMAIN wire = 1..Len(wire) /\ DOMAIN outbox = 1..Len(outbox)
            /\ nextId \in 1..MaxId + 1
        BY <1>0, LenProperties DEF LibraryType
      <3>2. Len(wire) > 0 /\ Head(wire) = wire[1]
        BY <1>0, <2>0, <3>1, EmptySeq DEF LibraryType
      <3>3. wire[1] = outbox[Len(acks) + 1] /\ Len(acks) + 1 \in DOMAIN outbox
        BY <2>0, <3>1, <3>2 DEF OutboxInv
      <3>4. outbox[Len(acks) + 1].id \in 1..nextId - 1
        BY <3>3 DEF OutboxInv, Ids
      <3> QED
        BY <3>1, <3>2, <3>3, <3>4, LimitsAssumption
    <2>3. acks' \in Seq(1..MaxId)
      BY <1>0, <1>5, <2>2, AppendProperties DEF BrokerReceives, LibraryType
    <2>4. LibraryType'
      BY <1>0, <1>5, <2>1, <2>3 DEF BrokerReceives, LibraryType
    <2>5. received' \subseteq Watched
      BY <1>0, <1>5 DEF BrokerReceives, OtherType
    <2>6. retained' \in {"online", "offline"}
      BY <1>0, <1>5 DEF BrokerReceives, OtherType
    <2>7. OtherType'
      BY <1>0, <1>5, <2>5, <2>6 DEF BrokerReceives, OtherType
    <2> QED
      BY <1>0, <1>5, <2>4, <2>7, Unmoved, TypeParts DEF BrokerReceives
  <1>6. CASE TimeBecomesValid
    <2>1. OtherType'
      BY <1>0, <1>6 DEF TimeBecomesValid, OtherType, net, broker
    <2> QED
      BY <1>0, <1>6, <2>1, Unmoved, TypeParts DEF TimeBecomesValid, net
  <1> QED
    BY <1>1, <1>2, <1>3, <1>4, <1>5, <1>6 DEF WorldNext

\* Every step keeps the type invariant.
LEMMA TypeStep ==
    ASSUME TypeOK, OutboxInv, Next
    PROVE  TypeOK'
  <1>1. "datalog" \in Publishers /\ "web" \in Publishers
        /\ {"telemetry", "online", "offline"} \subseteq Jobs
    BY DEF Publishers, Jobs
  <1>2. CASE PublisherNext
    BY <1>1, <1>2, PublisherType, SendType
       DEF PublisherNext, TelemetryBegin, MaintenanceTick, SetConfig
  <1> QED
    BY <1>2, HandlerStepsType, StatusTaskType, WorldType DEF Next

-----------------------------------------------------------------------------
(* The library and the broker *)

Kinds == Jobs \union {"rollback", "boot", "reconnected", "time"}

\* A step queues one message.
Queues(k) ==
    /\ CanQueue /\ Queue(Numbered(k)) /\ UNCHANGED broker
    /\ k = "offline" => pub'["web"].at = "wait"

\* What a step may do to the library and the broker.
LEMMA LibSteps ==
    ASSUME TypeOK, PubInv, Next
    PROVE  \/ UNCHANGED <<session, nextId, outbox, wire, acks, retained, received>>
           \/ \E k \in Kinds : Queues(k)
           \/ SwapEnd \/ LibConnects \/ SessionBreaks \/ LibNoticesBreak
           \/ LibReceivesPuback \/ BrokerReceives
  <1> DEFINE Calm == UNCHANGED <<session, nextId, outbox, wire, acks, retained, received>>
             Sends == \E k \in Kinds : Queues(k)
  <1> USE DEF library, broker, net
  <1>0. pub \in [Publishers -> PubRecord]
    BY DEF TypeOK, PubRecord
  <1>1. CASE TelemetryBegin \/ MaintenanceTick \/ SetConfig
    BY <1>1 DEF TelemetryBegin, MaintenanceTick, SetConfig, Begin
  <1>2. ASSUME NEW p \in Publishers, PublishLock(p) \/ PublishDone(p) PROVE Calm
    BY <1>2 DEF PublishLock, PublishDone
  <1>3. CASE MarkPending \/ Settle \/ SwapBegin
    BY <1>3 DEF MarkPending, Settle, SwapBegin
  <1>4. CASE SendTelemetry
    <2>1. Calm \/ (CanQueue /\ Queue(Numbered("telemetry")) /\ UNCHANGED broker)
      BY <1>4 DEF SendTelemetry, Refused
    <2> QED
      BY <2>1 DEF Kinds, Jobs, Queues
  <1>5. ASSUME NEW p \in Publishers, SendAvailability(p) PROVE Calm \/ Sends
    <2>1. CASE Refused(p)
      BY <1>5, <2>1 DEF SendAvailability, Refused
    <2>2. CASE /\ connected /\ CanQueue
               /\ Queue(Numbered(pub[p].job))
               /\ pub' = [pub EXCEPT ![p].at = "wait", ![p].msg = Numbered(pub[p].job)]
      <3>1. pub[p].job \in Kinds /\ UNCHANGED broker
        BY <1>0, <1>5 DEF SendAvailability, Kinds, PubRecord
      <3>2. pub[p].job = "offline" => pub'["web"].at = "wait"
        BY <1>0, <2>2 DEF PubInv, PubRecord
      <3> QED
        BY <2>2, <3>1, <3>2 DEF Queues
    <2> QED
      BY <1>5, <2>1, <2>2 DEF SendAvailability
  <1>6. CASE ConnectedStatus
    <2>1. ConnectReason \in {"rollback", "boot", "reconnected"}
      BY DEF ConnectReason
    <2>2. Calm \/ (CanQueue /\ Queue(Numbered(ConnectReason)) /\ UNCHANGED broker)
      BY <1>6 DEF ConnectedStatus, StatusEvent, NoStatusEvent
    <2> QED
      BY <2>1, <2>2 DEF Kinds, Queues
  <1>7. CASE StatusTaskPublishes
    <2>1. Calm \/ (CanQueue /\ Queue(Numbered("time")) /\ UNCHANGED broker)
      BY <1>7 DEF StatusTaskPublishes, StatusEvent, NoStatusEvent
    <2> QED
      BY <2>1 DEF Kinds, Queues
  <1>8. HandlerNext => Calm \/ ConnectedStatus
    BY DEF HandlerNext, OnConnected, RequestAvailability, ReserveTimeStatus, UndoReservation,
           OnDisconnected, Unconfirm, OnPublished, ComparePending, SetPuback, CompareRollback
  <1>9. StatusTaskNext => Calm \/ StatusTaskPublishes
    BY DEF StatusTaskNext, StatusTaskLooks, StatusTaskEnds
  <1>10. TimeBecomesValid => Calm
    BY DEF TimeBecomesValid
  <1> QED
    BY <1>1, <1>2, <1>3, <1>4, <1>5, <1>6, <1>7, <1>8, <1>9, <1>10
       DEF Next, PublisherNext, WorldNext

\* The sequences of the library, as the proofs use them.
LEMMA Lengths ==
    ASSUME TypeOK
    PROVE  /\ Len(outbox) \in Nat /\ DOMAIN outbox = 1..Len(outbox)
           /\ Len(wire) \in Nat /\ DOMAIN wire = 1..Len(wire)
           /\ Len(acks) \in Nat /\ DOMAIN acks = 1..Len(acks)
           /\ nextId \in Nat \ {0}
           /\ wire # <<>> => /\ Len(wire) > 0 /\ Head(wire) = wire[1]
                             /\ Len(Tail(wire)) = Len(wire) - 1
                             /\ DOMAIN Tail(wire) = 1..Len(wire) - 1
                             /\ \A i \in 1..Len(wire) - 1 : Tail(wire)[i] = wire[i + 1]
           /\ acks # <<>> => /\ Len(acks) > 0 /\ Head(acks) = acks[1]
                             /\ Len(Tail(acks)) = Len(acks) - 1
                             /\ DOMAIN Tail(acks) = 1..Len(acks) - 1
                             /\ \A i \in 1..Len(acks) - 1 : Tail(acks)[i] = acks[i + 1]
  <1>0. outbox \in Seq(Messages) /\ wire \in Seq(Messages) /\ acks \in Seq(1..MaxId)
        /\ nextId \in Nat \ {0}
    BY LimitsAssumption DEF TypeOK
  <1>1. /\ Len(outbox) \in Nat /\ DOMAIN outbox = 1..Len(outbox)
        /\ Len(wire) \in Nat /\ DOMAIN wire = 1..Len(wire)
        /\ Len(acks) \in Nat /\ DOMAIN acks = 1..Len(acks)
    BY <1>0, LenProperties
  <1>2. ASSUME wire # <<>>
        PROVE  /\ Len(wire) > 0 /\ Head(wire) = wire[1]
               /\ Len(Tail(wire)) = Len(wire) - 1
               /\ DOMAIN Tail(wire) = 1..Len(wire) - 1
               /\ \A i \in 1..Len(wire) - 1 : Tail(wire)[i] = wire[i + 1]
    <2>1. Tail(wire) \in Seq(Messages) /\ Len(Tail(wire)) = Len(wire) - 1
          /\ \A i \in 1 .. Len(Tail(wire)) : Tail(wire)[i] = wire[i + 1]
      BY <1>0, <1>2, HeadTailProperties
    <2>2. Len(wire) > 0
      BY <1>0, <1>1, <1>2, EmptySeq
    <2> QED
      BY <1>0, <2>1, <2>2, LenProperties
  <1>3. ASSUME acks # <<>>
        PROVE  /\ Len(acks) > 0 /\ Head(acks) = acks[1]
               /\ Len(Tail(acks)) = Len(acks) - 1
               /\ DOMAIN Tail(acks) = 1..Len(acks) - 1
               /\ \A i \in 1..Len(acks) - 1 : Tail(acks)[i] = acks[i + 1]
    <2>1. Tail(acks) \in Seq(1..MaxId) /\ Len(Tail(acks)) = Len(acks) - 1
          /\ \A i \in 1 .. Len(Tail(acks)) : Tail(acks)[i] = acks[i + 1]
      BY <1>0, <1>3, HeadTailProperties
    <2>2. Len(acks) > 0
      BY <1>0, <1>1, <1>3, EmptySeq
    <2> QED
      BY <1>0, <2>1, <2>2, LenProperties
  <1> QED
    BY <1>0, <1>1, <1>2, <1>3

\* A message that is queued is the last of the outbox, and of what is on the wire.
LEMMA QueueFacts ==
    ASSUME TypeOK, NEW k \in Kinds, Queues(k)
    PROVE  /\ DOMAIN outbox' = 1..Len(outbox) + 1 /\ Len(outbox') = Len(outbox) + 1
           /\ \A i \in 1..Len(outbox) : outbox'[i] = outbox[i]
           /\ outbox'[Len(outbox) + 1] = Numbered(k)
           /\ nextId' = nextId + 1 /\ session' = session /\ acks' = acks
           /\ session # "up" => wire' = wire
           /\ session = "up" => /\ DOMAIN wire' = 1..Len(wire) + 1
                                /\ Len(wire') = Len(wire) + 1
                                /\ \A i \in 1..Len(wire) : wire'[i] = wire[i]
                                /\ wire'[Len(wire) + 1] = Numbered(k)
           /\ UNCHANGED broker
  <1>1. Numbered(k) \in Messages
    BY QueueType DEF Queues, Kinds
  <1>2. /\ outbox' = Append(outbox, Numbered(k))
        /\ session = "up" => wire' = Append(wire, Numbered(k))
        /\ session # "up" => wire' = wire
        /\ nextId' = nextId + 1 /\ session' = session /\ acks' = acks
        /\ UNCHANGED broker
    BY DEF Queues, Queue
  <1>3. outbox \in Seq(Messages) /\ wire \in Seq(Messages)
    BY DEF TypeOK
  <1>4. \A s \in Seq(Messages) :
           LET t == Append(s, Numbered(k))
           IN  /\ DOMAIN t = 1..Len(s) + 1 /\ Len(t) = Len(s) + 1
               /\ \A i \in 1..Len(s) : t[i] = s[i]
               /\ t[Len(s) + 1] = Numbered(k)
    BY <1>1, AppendProperties, LenProperties
  <1> QED
    BY <1>2, <1>3, <1>4

\* An acknowledgement is of the first message of the outbox.
LEMMA AckFacts ==
    ASSUME TypeOK, OutboxInv, LibReceivesPuback
    PROVE  /\ session = "up" /\ session' = "up" /\ nextId' = nextId /\ wire' = wire
           /\ Len(outbox) > 0 /\ Len(acks) > 0
           /\ outbox[1].id = acks[1] /\ acks[1] \in Ids
           /\ DOMAIN outbox' = 1..Len(outbox) - 1 /\ Len(outbox') = Len(outbox) - 1
           /\ \A i \in 1..Len(outbox) - 1 : outbox'[i] = outbox[i + 1]
           /\ DOMAIN acks' = 1..Len(acks) - 1 /\ Len(acks') = Len(acks) - 1
           /\ \A i \in 1..Len(acks) - 1 : acks'[i] = acks[i + 1]
           /\ handler' = [IdleHandler EXCEPT !.at = "published", !.id = acks[1]]
           /\ UNCHANGED <<publishing, flags, broker, history>>
  <1>0. /\ session = "up" /\ acks # <<>> /\ acks' = Tail(acks)
        /\ handler' = [IdleHandler EXCEPT !.at = "published", !.id = Head(acks)]
        /\ UNCHANGED <<session, nextId, wire>>
        /\ UNCHANGED <<publishing, flags, broker, history>>
    BY DEF LibReceivesPuback
  <1>1. Head(acks) = acks[1] /\ Len(acks) > 0
    BY <1>0, Lengths
  <1>2. /\ DOMAIN acks' = 1..Len(acks) - 1 /\ Len(acks') = Len(acks) - 1
        /\ \A i \in 1..Len(acks) - 1 : acks'[i] = acks[i + 1]
    BY <1>0, Lengths
  <1>3. Len(outbox) > 0 /\ acks[1] = outbox[1].id /\ 1 \in DOMAIN outbox
    BY <1>0, <1>1, Lengths DEF OutboxInv
  <1>4. PICK i \in DOMAIN outbox : outbox[i].id = acks[1] /\ outbox' = RemoveAt(outbox, i)
    BY <1>0, <1>1 DEF LibReceivesPuback
  <1>5. i = 1
    <2>1. i \in Nat /\ i >= 1
      BY <1>4, Lengths
    <2>2. 1 < i => outbox[1].id < outbox[i].id
      BY <1>3, <1>4 DEF OutboxInv
    <2>3. outbox[1].id \in 1..nextId - 1 /\ nextId \in Nat
      BY <1>3, Lengths DEF OutboxInv, Ids
    <2> QED
      BY <1>3, <1>4, <2>1, <2>2, <2>3
  <1>6. outbox \in Seq(Messages) /\ 1 \in 1..Len(outbox)
    BY <1>3, Lengths DEF TypeOK
  <1>7. /\ outbox' \in Seq(Messages) /\ Len(outbox') = Len(outbox) - 1
        /\ \A j \in 1..Len(outbox) - 1 : outbox'[j] = IF j < 1 THEN outbox[j] ELSE outbox[j + 1]
    BY <1>4, <1>5, <1>6, Removed
  <1>8. DOMAIN outbox' = 1..Len(outbox) - 1
    BY <1>7, LenProperties
  <1>9. \A j \in 1..Len(outbox) - 1 : outbox'[j] = outbox[j + 1]
    BY <1>7, Lengths
  <1>10. acks[1] \in Ids
    BY <1>3 DEF OutboxInv
  <1> QED
    BY <1>0, <1>1, <1>2, <1>3, <1>7, <1>8, <1>9, <1>10

\* Every step keeps the outbox in the order of its ids, and wire and acks a split of it.
LEMMA OutboxSteps ==
    ASSUME TypeOK, OutboxInv, PubInv, Next
    PROVE  OutboxInv'
  <1>0. /\ \A i \in 1..Len(outbox) : outbox[i].id \in 1..nextId - 1
        /\ \A i, j \in 1..Len(outbox) : i < j => outbox[i].id < outbox[j].id
        /\ session = "up" =>
              /\ Len(outbox) = Len(acks) + Len(wire)
              /\ \A i \in 1..Len(acks) : acks[i] = outbox[i].id
              /\ \A i \in 1..Len(wire) : wire[i] = outbox[Len(acks) + i]
        /\ session # "up" => wire = <<>> /\ acks = <<>>
    BY Lengths DEF OutboxInv, Ids
  <1>1. CASE UNCHANGED <<session, nextId, outbox, wire, acks, retained, received>>
    BY <1>1 DEF OutboxInv, Ids
  <1> DEFINE n == Len(outbox)
             a == Len(acks)
             w == Len(wire)
  <1>n. n \in Nat /\ a \in Nat /\ w \in Nat /\ nextId \in Nat \ {0}
    BY Lengths
  <1>2. ASSUME NEW k \in Kinds, Queues(k) PROVE OutboxInv'
    <2>0. /\ DOMAIN outbox' = 1..n + 1 /\ Len(outbox') = n + 1
          /\ \A i \in 1..n : outbox'[i] = outbox[i]
          /\ outbox'[n + 1].id = nextId /\ outbox'[n + 1] = Numbered(k)
          /\ nextId' = nextId + 1 /\ session' = session /\ acks' = acks
          /\ DOMAIN acks = 1..a /\ Len(acks') = a
          /\ session = "up" => /\ DOMAIN wire' = 1..w + 1
                               /\ Len(wire') = w + 1
                               /\ \A i \in 1..w : wire'[i] = wire[i]
                               /\ wire'[w + 1] = Numbered(k)
      BY <1>2, QueueFacts, Lengths DEF Numbered
    <2>k. \A i \in 1..n + 1 : i \in 1..n \/ i = n + 1
      BY <1>n
    <2> HIDE DEF n, a, w
    <2>1. ASSUME NEW i \in 1..n + 1 PROVE outbox'[i].id \in 1..nextId' - 1
      <3>1. CASE i \in 1..n
        <4>1. outbox'[i] = outbox[i] /\ outbox[i].id \in 1..nextId - 1
          BY <1>0, <2>0, <3>1 DEF n
        <4> QED
          BY <1>n, <2>0, <4>1
      <3>2. CASE i = n + 1
        BY <1>n, <2>0, <3>2
      <3> QED
        BY <2>1, <2>k, <3>1, <3>2
    <2>2. ASSUME NEW i \in 1..n + 1, NEW j \in 1..n + 1, i < j
          PROVE  outbox'[i].id < outbox'[j].id
      <3>1. i \in 1..n /\ outbox'[i] = outbox[i]
        BY <1>n, <2>0, <2>2
      <3>2. outbox[i].id \in 1..nextId - 1
        BY <1>0, <3>1 DEF n
      <3>3. CASE j \in 1..n
        <4>1. outbox'[j] = outbox[j]
          BY <2>0, <3>3
        <4> QED
          BY <1>0, <2>2, <3>1, <3>3, <4>1 DEF n
      <3>4. CASE j = n + 1
        BY <1>n, <2>0, <3>1, <3>2, <3>4
      <3> QED
        BY <2>2, <2>k, <3>3, <3>4
    <2>3. session' = "up" =>
              /\ Len(outbox') = Len(acks') + Len(wire')
              /\ \A i \in DOMAIN acks' : acks'[i] = outbox'[i].id
              /\ \A i \in DOMAIN wire' : wire'[i] = outbox'[Len(acks') + i]
      <3> SUFFICES ASSUME session' = "up"
                   PROVE  /\ Len(outbox') = Len(acks') + Len(wire')
                          /\ \A i \in DOMAIN acks' : acks'[i] = outbox'[i].id
                          /\ \A i \in DOMAIN wire' : wire'[i] = outbox'[Len(acks') + i]
        OBVIOUS
      <3>0. session = "up" /\ n = a + w
        BY <1>0, <2>0 DEF n, a, w
      <3>1. Len(outbox') = n + 1 /\ Len(acks') = a /\ Len(wire') = w + 1
        BY <2>0, <3>0
      <3>2. Len(outbox') = Len(acks') + Len(wire')
        BY <1>n, <3>0, <3>1
      <3>3. ASSUME NEW i \in 1..a PROVE acks'[i] = outbox'[i].id
        <4>1. i \in 1..n
          BY <1>n, <3>0
        <4> QED
          BY <1>0, <2>0, <3>0, <3>3, <4>1 DEF a
      <3>4. ASSUME NEW i \in 1..w + 1 PROVE wire'[i] = outbox'[a + i]
        <4>1. CASE i \in 1..w
          <5>1. a + i \in 1..n
            BY <1>n, <3>0, <4>1
          <5>2. wire[i] = outbox[a + i]
            BY <1>0, <3>0, <4>1 DEF a, w
          <5> QED
            BY <2>0, <3>0, <4>1, <5>1, <5>2
        <4>2. CASE i = w + 1
          <5>1. a + i = n + 1
            BY <1>n, <3>0, <4>2
          <5> QED
            BY <2>0, <3>0, <4>2, <5>1
        <4>3. i \in 1..w \/ i = w + 1
          BY <1>n
        <4> QED
          BY <4>1, <4>2, <4>3
      <3> QED
        BY <2>0, <3>0, <3>1, <3>2, <3>3, <3>4
    <2>4. session' # "up" => wire' = <<>> /\ acks' = <<>>
      BY <1>0, <1>2, QueueFacts
    <2> QED
      BY <2>0, <2>1, <2>2, <2>3, <2>4 DEF OutboxInv, Ids
  <1>3. CASE SwapEnd
    BY <1>3 DEF SwapEnd, OutboxInv
  <1>4. CASE LibConnects
    BY <1>0, <1>4, Lengths, EmptySeq DEF LibConnects, OutboxInv, Ids
  <1>5. CASE SessionBreaks \/ LibNoticesBreak
    BY <1>0, <1>5 DEF SessionBreaks, LibNoticesBreak, OutboxInv, Ids
  <1>6. CASE LibReceivesPuback
    <2>0. /\ session = "up" /\ session' = "up" /\ nextId' = nextId /\ wire' = wire
          /\ n > 0 /\ a > 0 /\ n = a + w
          /\ DOMAIN outbox' = 1..n - 1 /\ Len(outbox') = n - 1
          /\ \A i \in 1..n - 1 : outbox'[i] = outbox[i + 1]
          /\ DOMAIN acks' = 1..a - 1 /\ Len(acks') = a - 1
          /\ \A i \in 1..a - 1 : acks'[i] = acks[i + 1]
          /\ DOMAIN wire' = 1..w /\ Len(wire') = w
      BY <1>0, <1>6, AckFacts, Lengths
    <2> HIDE DEF n, a, w
    <2>k. \A i \in 1..n - 1 : i + 1 \in 1..n
      BY <1>n
    <2>1. \A i \in 1..n - 1 : outbox'[i].id \in 1..nextId' - 1
      BY <1>0, <2>0, <2>k DEF n
    <2>2. ASSUME NEW i \in 1..n - 1, NEW j \in 1..n - 1, i < j
          PROVE  outbox'[i].id < outbox'[j].id
      <3>1. i + 1 \in 1..n /\ j + 1 \in 1..n /\ i + 1 < j + 1
        BY <1>n, <2>2
      <3>2. outbox[i + 1].id < outbox[j + 1].id
        BY <1>0, <3>1 DEF n
      <3> QED
        BY <2>0, <2>2, <3>2
    <2>3. Len(outbox') = Len(acks') + Len(wire')
      BY <1>n, <2>0
    <2>4. ASSUME NEW i \in 1..a - 1 PROVE acks'[i] = outbox'[i].id
      <3>1. i + 1 \in 1..a /\ i \in 1..n - 1
        BY <1>n, <2>0
      <3>2. acks[i + 1] = outbox[i + 1].id
        BY <1>0, <2>0, <3>1 DEF a
      <3> QED
        BY <2>0, <2>4, <3>1, <3>2
    <2>5. ASSUME NEW i \in 1..w PROVE wire'[i] = outbox'[Len(acks') + i]
      <3>1. a - 1 + i \in 1..n - 1 /\ (a - 1 + i) + 1 = a + i
        BY <1>n, <2>0
      <3>2. wire[i] = outbox[a + i]
        BY <1>0, <2>0, <2>5 DEF a, w
      <3> QED
        BY <2>0, <3>1, <3>2
    <2> QED
      BY <2>0, <2>1, <2>2, <2>3, <2>4, <2>5 DEF OutboxInv, Ids
  <1>7. CASE BrokerReceives
    <2>1. /\ session = "up" /\ session' = "up" /\ wire # <<>> /\ wire' = Tail(wire)
          /\ acks' = Append(acks, Head(wire).id) /\ UNCHANGED <<nextId, outbox>>
      BY <1>7 DEF BrokerReceives
    <2>2. /\ Head(wire) = wire[1] /\ w > 0 /\ n = a + w
          /\ Len(wire') = w - 1 /\ DOMAIN wire' = 1..w - 1
          /\ \A i \in 1..w - 1 : wire'[i] = wire[i + 1]
          /\ DOMAIN outbox' = 1..n /\ Len(outbox') = n
      BY <1>0, <2>1, Lengths
    <2>3. wire[1] = outbox[a + 1] /\ a + 1 \in 1..n
      <3>1. 1 \in 1..w /\ a + 1 \in 1..n
        BY <1>n, <2>2
      <3> QED
        BY <1>0, <2>1, <3>1
    <2>4. acks \in Seq(Int) /\ Head(wire).id \in Int
      <3>1. \A i \in DOMAIN acks : acks[i] \in Int
        BY LimitsAssumption DEF TypeOK
      <3>2. acks \in Seq(Int)
        BY <3>1, SeqDef, Lengths DEF TypeOK
      <3>3. Head(wire).id \in 1..nextId - 1
        BY <1>0, <2>2, <2>3
      <3> QED
        BY <1>n, <3>2, <3>3
    <2>5. /\ DOMAIN acks' = 1..a + 1 /\ Len(acks') = a + 1
          /\ \A i \in 1..a : acks'[i] = acks[i]
          /\ acks'[a + 1] = Head(wire).id
      BY <2>1, <2>4, AppendProperties, LenProperties
    <2> HIDE DEF n, a, w
    <2>6. ASSUME NEW i \in 1..a + 1 PROVE acks'[i] = outbox'[i].id
      <3>1. i \in 1..a \/ i = a + 1
        BY <1>n
      <3>2. i \in 1..a => acks[i] = outbox[i].id
        BY <1>0, <2>1 DEF a
      <3> QED
        BY <2>1, <2>2, <2>3, <2>5, <3>1, <3>2
    <2>7. Len(outbox') = Len(acks') + Len(wire')
      BY <1>n, <2>2, <2>5
    <2>8. ASSUME NEW i \in 1..w - 1 PROVE wire'[i] = outbox'[Len(acks') + i]
      <3>1. i + 1 \in 1..w /\ a + (i + 1) = (a + 1) + i
        BY <1>n
      <3>2. wire[i + 1] = outbox[a + (i + 1)]
        BY <1>0, <2>1, <3>1 DEF a, w
      <3> QED
        BY <2>1, <2>2, <2>5, <3>1, <3>2
    <2>9. /\ \A i \in DOMAIN outbox' : outbox'[i].id \in Ids'
          /\ \A i, j \in DOMAIN outbox' : i < j => outbox'[i].id < outbox'[j].id
      BY <1>0, <2>1, <2>2 DEF n, Ids
    <2> QED
      BY <2>1, <2>2, <2>5, <2>6, <2>7, <2>8, <2>9 DEF OutboxInv
  <1> QED
    BY <1>1, <1>2, <1>3, <1>4, <1>5, <1>6, <1>7, LibSteps

-----------------------------------------------------------------------------
(* The publishers *)

\* p was at from and is now r; the other publisher has not moved.
Moved(p, from, r) ==
    /\ pub[p].at = from /\ pub'[p] = r
    /\ \A q \in Publishers : q # p => pub'[q] = pub[q]

\* The steps of a publisher.
Begins(p) ==
    \E j \in Jobs : /\ pub[p] = IdlePublisher /\ (j = "offline" <=> p = "web")
                    /\ Moved(p, "idle", [IdlePublisher EXCEPT !.at = "lock", !.job = j])
Locks(p) == Moved(p, "lock", [pub[p] EXCEPT !.at = "send"])
GivesUp(p) == Moved(p, "send", [pub[p] EXCEPT !.at = "settle"])
Sends(p) ==
    \E s \in {"mark", "wait"} :
        /\ Moved(p, "send", [pub[p] EXCEPT !.at = s, !.msg = Numbered(pub[p].job)])
        /\ Queues(pub[p].job)
        /\ s = "mark" => p = "datalog"
Marks == Moved("datalog", "mark", [pub["datalog"] EXCEPT !.at = "wait"])
Finishes(p) == Moved(p, "wait", [pub[p] EXCEPT !.at = "settle", !.ok = evPuback])

\* The things a step may do to the publishers, one at a time.
LEMMA PubSteps ==
    ASSUME TypeOK, PubInv, Next
    PROVE  \/ pub' = pub /\ (UNCHANGED ack \/ SetPuback)
           \/ \E p \in Publishers : Begins(p) /\ UNCHANGED ack
           \/ \E p \in Publishers : PublishLock(p) /\ Locks(p)
           \/ \E p \in Publishers : Refused(p) /\ GivesUp(p) /\ evPuback' = evPuback
           \/ \E p \in Publishers : Sends(p) /\ (SendTelemetry \/ SendAvailability(p))
           \/ MarkPending /\ Marks
           \/ \E p \in Publishers : PublishDone(p) /\ Finishes(p)
           \/ Settle /\ Moved("datalog", "settle", IdlePublisher)
           \/ SwapBegin /\ Moved("web", "settle", [IdlePublisher EXCEPT !.at = "stop"])
           \/ SwapEnd /\ Moved("web", "stop", IdlePublisher)
  <1>0. /\ pub \in [Publishers -> PubRecord]
        /\ "datalog" \in Publishers /\ "web" \in Publishers /\ "datalog" # "web"
    BY DEF TypeOK, PubRecord, Publishers
  <1>r. ASSUME NEW p \in Publishers, NEW r, pub' = [pub EXCEPT ![p] = r]
        PROVE  pub'[p] = r /\ \A q \in Publishers : q # p => pub'[q] = pub[q]
    BY <1>0, <1>r
  <1>1. ASSUME NEW p \in Publishers, NEW j \in Jobs, Begin(p, j), j = "offline" <=> p = "web"
        PROVE  Begins(p) /\ UNCHANGED ack
    <2>0. UNCHANGED ack
      BY <1>1 DEF Begin
    <2>1. pub' = [pub EXCEPT ![p] = [pub[p] EXCEPT !.at = "lock", !.job = j]]
      <3>1. \A q \in Publishers, k \in Jobs : Begin(q, k) =>
                 pub' = [pub EXCEPT ![q] = [pub[q] EXCEPT !.at = "lock", !.job = k]]
        BY Moves
      <3>2. Begin(p, j)
        BY <1>1
      <3> QED
        BY <3>1, <3>2
    <2>2. pub[p] = IdlePublisher /\ pub[p].at = "idle"
      BY <1>1 DEF Begin, IdlePublisher
    <2> QED
      BY <1>1, <1>r, <2>0, <2>1, <2>2 DEF Begins, Moved
  <1>2. ASSUME NEW p \in Publishers, PublishLock(p) PROVE Locks(p)
    <2>1. pub' = [pub EXCEPT ![p] = [pub[p] EXCEPT !.at = "send"]] /\ pub[p].at = "lock"
      BY <1>2, Moves DEF PublishLock
    <2> QED
      BY <1>r, <2>1 DEF Locks, Moved
  <1>3. ASSUME NEW p \in Publishers, Refused(p), pub[p].at = "send" PROVE GivesUp(p)
    <2>1. pub' = [pub EXCEPT ![p] = [pub[p] EXCEPT !.at = "settle"]]
      BY <1>3, Moves
    <2> QED
      BY <1>3, <1>r, <2>1 DEF GivesUp, Moved
  <1>4. CASE SendTelemetry
    <2>1. pub["datalog"].at = "send" /\ pub["datalog"].job = "telemetry"
      BY <1>4 DEF SendTelemetry
    <2>2. CASE Refused("datalog")
      BY <1>0, <1>3, <1>4, <2>1, <2>2 DEF SendTelemetry
    <2>3. CASE /\ CanQueue
               /\ Queue(Numbered("telemetry"))
               /\ pub' = [pub EXCEPT !["datalog"].at = "mark",
                                     !["datalog"].msg = Numbered("telemetry")]
      <3>1. Numbered("telemetry") \in Messages
        BY <2>3, QueueType DEF Jobs
      <3>2. pub' = [pub EXCEPT !["datalog"] =
                      [pub["datalog"] EXCEPT !.at = "mark", !.msg = Numbered("telemetry")]]
        BY <1>0, <2>3, <3>1, Moves
      <3>3. Moved("datalog", "send",
                  [pub["datalog"] EXCEPT !.at = "mark", !.msg = Numbered("telemetry")])
        BY <1>0, <1>r, <2>1, <3>2 DEF Moved
      <3>4. Queues("telemetry")
        BY <1>4, <2>3 DEF SendTelemetry, Queues
      <3>5. Sends("datalog")
        BY <2>1, <3>3, <3>4 DEF Sends
      <3> QED
        BY <1>0, <1>4, <3>5
    <2> QED
      BY <1>4, <2>2, <2>3 DEF SendTelemetry
  <1>5. ASSUME NEW p \in Publishers, SendAvailability(p)
        PROVE  \/ Refused(p) /\ GivesUp(p) /\ evPuback' = evPuback
               \/ Sends(p)
    <2>1. pub[p].at = "send"
      BY <1>5 DEF SendAvailability
    <2>2. CASE Refused(p)
      BY <1>3, <1>5, <2>1, <2>2 DEF SendAvailability
    <2>3. CASE /\ CanQueue
               /\ Queue(Numbered(pub[p].job))
               /\ pub' = [pub EXCEPT ![p].at = "wait", ![p].msg = Numbered(pub[p].job)]
      <3>0. pub[p].job \in Jobs
        BY <1>0 DEF PubRecord
      <3>1. Numbered(pub[p].job) \in Messages
        BY <2>3, <3>0, QueueType
      <3>2. pub' = [pub EXCEPT ![p] =
                      [pub[p] EXCEPT !.at = "wait", !.msg = Numbered(pub[p].job)]]
        BY <1>0, <2>3, <3>1, Moves
      <3>3. Moved(p, "send", [pub[p] EXCEPT !.at = "wait", !.msg = Numbered(pub[p].job)])
        BY <1>r, <2>1, <3>2 DEF Moved
      <3>4. pub[p].job = "offline" => pub'["web"].at = "wait"
        <4>1. pub[p].job = "offline" => p = "web"
          BY DEF PubInv
        <4>2. pub'[p].at = "wait"
          BY <1>0, <3>3 DEF Moved, PubRecord
        <4> QED
          BY <4>1, <4>2
      <3>5. Queues(pub[p].job)
        BY <1>5, <2>3, <3>4 DEF SendAvailability, Queues
      <3> QED
        BY <3>3, <3>5 DEF Sends
    <2> QED
      BY <1>5, <2>2, <2>3 DEF SendAvailability
  <1>6. MarkPending => Marks
    <2> SUFFICES ASSUME MarkPending PROVE Marks
      OBVIOUS
    <2>1. /\ pub' = [pub EXCEPT !["datalog"] = [pub["datalog"] EXCEPT !.at = "wait"]]
          /\ pub["datalog"].at = "mark"
      BY Moves DEF MarkPending
    <2> QED
      BY <1>0, <1>r, <2>1 DEF Marks, Moved
  <1>7. ASSUME NEW p \in Publishers, PublishDone(p) PROVE Finishes(p)
    <2>1. /\ pub' = [pub EXCEPT ![p] = [pub[p] EXCEPT !.at = "settle", !.ok = evPuback]]
          /\ pub[p].at = "wait"
      BY <1>7, Moves DEF PublishDone
    <2> QED
      BY <1>r, <2>1 DEF Finishes, Moved
  <1>8. Settle => Moved("datalog", "settle", IdlePublisher)
    BY <1>0, <1>r DEF Settle, Moved
  <1>9. SwapBegin => Moved("web", "settle", [IdlePublisher EXCEPT !.at = "stop"])
    BY <1>0, <1>r DEF SwapBegin, Moved
  <1>10. SwapEnd => Moved("web", "stop", IdlePublisher)
    BY <1>0, <1>r DEF SwapEnd, Moved
  <1>11. TelemetryBegin \/ MaintenanceTick \/ SetConfig 
            => \E p \in Publishers : Begins(p) /\ UNCHANGED ack
    BY <1>0, <1>1 DEF TelemetryBegin, MaintenanceTick, SetConfig, Jobs
  <1>12. HandlerNext \/ StatusTaskNext \/ WorldNext
            => pub' = pub /\ (UNCHANGED ack \/ SetPuback)
    BY DEF HandlerNext, StatusTaskNext, WorldNext, publishing,
           OnConnected, RequestAvailability, ReserveTimeStatus, ConnectedStatus, UndoReservation,
           OnDisconnected, Unconfirm, OnPublished, ComparePending, SetPuback, CompareRollback,
           StatusTaskLooks, StatusTaskPublishes, StatusTaskEnds,
           LibConnects, SessionBreaks, LibNoticesBreak, LibReceivesPuback,
           BrokerReceives, TimeBecomesValid
  <1> QED
    BY <1>2, <1>4, <1>5, <1>6, <1>7, <1>8, <1>9, <1>10, <1>11, <1>12, SMTT(30)
       DEF Next, PublisherNext

\* The fields of a record that has moved.
LEMMA MovedFields ==
    ASSUME TypeOK, NEW p \in Publishers
    PROVE  /\ pub[p] \in PubRecord
           /\ Begins(p) => /\ pub'[p].at = "lock" /\ pub'[p].msg = NoMsg /\ pub'[p].ok = FALSE
                           /\ pub'[p].job = "offline" <=> p = "web"
           /\ Locks(p) => /\ pub'[p].at = "send" /\ pub'[p].job = pub[p].job
                          /\ pub'[p].msg = pub[p].msg /\ pub'[p].ok = pub[p].ok
           /\ GivesUp(p) => /\ pub'[p].at = "settle" /\ pub'[p].job = pub[p].job
                            /\ pub'[p].msg = pub[p].msg /\ pub'[p].ok = pub[p].ok
           /\ Sends(p) => /\ pub'[p].at \in {"mark", "wait"} /\ pub'[p].job = pub[p].job
                          /\ pub'[p].msg = Numbered(pub[p].job) /\ pub'[p].ok = pub[p].ok
                          /\ pub'[p].at = "mark" => p = "datalog"
           /\ Marks => /\ pub'["datalog"].at = "wait"
                       /\ pub'["datalog"].job = pub["datalog"].job
                       /\ pub'["datalog"].msg = pub["datalog"].msg
                       /\ pub'["datalog"].ok = pub["datalog"].ok
           /\ Finishes(p) => /\ pub'[p].at = "settle" /\ pub'[p].job = pub[p].job
                             /\ pub'[p].msg = pub[p].msg /\ pub'[p].ok = evPuback
  <1>0. /\ pub[p] \in PubRecord /\ pub["datalog"] \in PubRecord
    BY DEF TypeOK, PubRecord, Publishers
  <1>1. Begins(p) => /\ pub'[p].at = "lock" /\ pub'[p].msg = NoMsg /\ pub'[p].ok = FALSE
                     /\ pub'[p].job = "offline" <=> p = "web"
    BY DEF Begins, Moved, IdlePublisher
  <1>2. Locks(p) => /\ pub'[p].at = "send" /\ pub'[p].job = pub[p].job
                    /\ pub'[p].msg = pub[p].msg /\ pub'[p].ok = pub[p].ok
    BY <1>0 DEF Locks, Moved, PubRecord
  <1>3. GivesUp(p) => /\ pub'[p].at = "settle" /\ pub'[p].job = pub[p].job
                      /\ pub'[p].msg = pub[p].msg /\ pub'[p].ok = pub[p].ok
    BY <1>0 DEF GivesUp, Moved, PubRecord
  <1>4. Sends(p) => /\ pub'[p].at \in {"mark", "wait"} /\ pub'[p].job = pub[p].job
                    /\ pub'[p].msg = Numbered(pub[p].job) /\ pub'[p].ok = pub[p].ok
                    /\ pub'[p].at = "mark" => p = "datalog"
    BY <1>0 DEF Sends, Moved, PubRecord
  <1>5. Marks => /\ pub'["datalog"].at = "wait"
                 /\ pub'["datalog"].job = pub["datalog"].job
                 /\ pub'["datalog"].msg = pub["datalog"].msg
                 /\ pub'["datalog"].ok = pub["datalog"].ok
    BY <1>0 DEF Marks, Moved, PubRecord
  <1>6. Finishes(p) => /\ pub'[p].at = "settle" /\ pub'[p].job = pub[p].job
                       /\ pub'[p].msg = pub[p].msg /\ pub'[p].ok = evPuback
    BY <1>0 DEF Finishes, Moved, PubRecord
  <1> QED
    BY <1>0, <1>1, <1>2, <1>3, <1>4, <1>5, <1>6

\* What PubInv says of one publisher.
PubShape(p, r) ==
    /\ r.at = "idle" => r = IdlePublisher
    /\ r.at = "stop" => p = "web"
    /\ r.at = "mark" => p = "datalog"
    /\ r.job = "offline" => p = "web"
    /\ p = "web" => r.job \in {"none", "offline"}
    /\ r.ok => r.at = "settle" /\ r.msg.kind = r.job

\* Every step leaves a publisher with what its place says.
LEMMA PubInvStep ==
    ASSUME TypeOK, PubInv, HeldInv, Next
    PROVE  PubInv'
  <1>0. \A p \in Publishers : PubShape(p, pub[p])
    BY DEF PubInv, PubShape
  <1>s. (\A p \in Publishers : PubShape(p, pub'[p])) => PubInv'
    BY DEF PubInv, PubShape
  <1>d. "datalog" \in Publishers /\ "web" \in Publishers /\ "datalog" # "web"
    BY DEF Publishers
  <1>i. \A p \in Publishers : PubShape(p, IdlePublisher)
    BY DEF PubShape, IdlePublisher
  <1>1. ASSUME pub' = pub PROVE PubInv'
    BY <1>0, <1>1, <1>s
  <1>2. ASSUME NEW p \in Publishers, Begins(p) PROVE PubInv'
    <2>1. PubShape(p, pub'[p])
      BY <1>2, MovedFields DEF PubShape
    <2> QED
      BY <1>0, <1>2, <1>s, <2>1 DEF Begins, Moved
  <1>3. ASSUME NEW p \in Publishers, Locks(p) \/ GivesUp(p) PROVE PubInv'
    <2>5. ASSUME Locks(p)
          PROVE  /\ pub'[p].at \in {"send", "settle"} /\ pub'[p].job = pub[p].job
                 /\ pub'[p].ok = pub[p].ok /\ pub[p].at \in {"lock", "send"}
      <3>1. pub'[p].at = "send" /\ pub'[p].job = pub[p].job /\ pub'[p].ok = pub[p].ok
        BY <2>5, MovedFields, Zenon
      <3>2. pub[p].at = "lock"
        BY <2>5 DEF Locks, Moved
      <3> QED
        BY <3>1, <3>2
    <2>6. ASSUME GivesUp(p)
          PROVE  /\ pub'[p].at \in {"send", "settle"} /\ pub'[p].job = pub[p].job
                 /\ pub'[p].ok = pub[p].ok /\ pub[p].at \in {"lock", "send"}
      <3>1. pub'[p].at = "settle" /\ pub'[p].job = pub[p].job /\ pub'[p].ok = pub[p].ok
        BY <2>6, MovedFields, Zenon
      <3>2. pub[p].at = "send"
        BY <2>6 DEF GivesUp, Moved
      <3> QED
        BY <3>1, <3>2
    <2>2. /\ pub'[p].at \in {"send", "settle"} /\ pub'[p].job = pub[p].job
          /\ pub'[p].ok = pub[p].ok /\ pub[p].at \in {"lock", "send"}
      BY <1>3, <2>5, <2>6
    <2>3. ~pub[p].ok
      BY <1>0, <2>2 DEF PubShape
    <2>4. ~pub'[p].ok
      BY <2>2, <2>3, Zenon
    <2>1. PubShape(p, pub'[p])
      BY <1>0, <2>2, <2>4 DEF PubShape
    <2> QED
      BY <1>0, <1>3, <1>s, <2>1 DEF Locks, GivesUp, Moved
  <1>4. ASSUME NEW p \in Publishers, Sends(p) PROVE PubInv'
    <2>2. /\ pub'[p].at \in {"mark", "wait"} /\ pub'[p].job = pub[p].job
          /\ pub'[p].ok = pub[p].ok /\ pub[p].at = "send"
          /\ pub'[p].at = "mark" => p = "datalog"
      BY <1>4, MovedFields DEF Sends, Moved
    <2>3. ~pub[p].ok
      BY <1>0, <2>2 DEF PubShape
    <2>4. ~pub'[p].ok
      BY <2>2, <2>3, Zenon
    <2>1. PubShape(p, pub'[p])
      BY <1>0, <2>2, <2>4 DEF PubShape
    <2> QED
      BY <1>0, <1>4, <1>s, <2>1 DEF Sends, Moved
  <1>5. ASSUME Marks PROVE PubInv'
    <2>1. PubShape("datalog", pub'["datalog"])
      BY <1>0, <1>5, <1>d, MovedFields DEF PubShape, Marks, Moved
    <2> QED
      BY <1>0, <1>5, <1>s, <2>1 DEF Marks, Moved
  <1>6. ASSUME NEW p \in Publishers, Finishes(p) PROVE PubInv'
    <2>1. pub[p].msg.kind = pub[p].job
      BY <1>6 DEF HeldInv, Finishes, Moved
    <2>3. /\ pub'[p].at = "settle" /\ pub'[p].job = pub[p].job
          /\ pub'[p].msg = pub[p].msg
      BY <1>6, MovedFields
    <2>2. PubShape(p, pub'[p])
      BY <1>0, <2>1, <2>3 DEF PubShape
    <2> QED
      BY <1>0, <1>6, <1>s, <2>2 DEF Finishes, Moved
  <1>7. ASSUME Moved("datalog", "settle", IdlePublisher) PROVE PubInv'
    BY <1>0, <1>7, <1>d, <1>i, <1>s DEF Moved
  <1>8. ASSUME Moved("web", "stop", IdlePublisher) PROVE PubInv'
    BY <1>0, <1>8, <1>d, <1>i, <1>s DEF Moved
  <1>9. ASSUME Moved("web", "settle", [IdlePublisher EXCEPT !.at = "stop"]) PROVE PubInv'
    <2>1. PubShape("web", [IdlePublisher EXCEPT !.at = "stop"])
      BY DEF PubShape, IdlePublisher
    <2> QED
      BY <1>0, <1>9, <1>d, <1>s, <2>1 DEF Moved
  <1> QED
    BY <1>1, <1>2, <1>3, <1>4, <1>5, <1>6, <1>7, <1>8, <1>9, PubSteps

\* The message m is sent, and is the one in the outbox with its id.
Held(m) ==
    /\ m.id \in Ids
    /\ \A i \in DOMAIN outbox : outbox[i].id = m.id => outbox[i] = m

\* No step queues a message with an id that is taken, or exchanges one in the outbox.
LEMMA OutboxMoves ==
    ASSUME TypeOK, OutboxInv, PubInv, Next
    PROVE  /\ nextId' >= nextId /\ nextId \in Nat /\ nextId' \in Nat
           /\ \A i \in DOMAIN outbox' :
                 \/ \E j \in DOMAIN outbox : outbox'[i] = outbox[j]
                 \/ \E k \in Kinds : /\ Queues(k) /\ nextId' = nextId + 1
                                     /\ outbox'[i] = Numbered(k) /\ outbox'[i].id = nextId
  <1>0. nextId \in Nat /\ DOMAIN outbox = 1..Len(outbox) /\ Len(outbox) \in Nat
    BY Lengths
  <1>1. CASE UNCHANGED <<session, nextId, outbox, wire, acks, retained, received>>
    BY <1>0, <1>1
  <1>2. ASSUME NEW k \in Kinds, Queues(k)
        PROVE  /\ nextId' = nextId + 1
               /\ \A i \in DOMAIN outbox' :
                     \/ \E j \in DOMAIN outbox : outbox'[i] = outbox[j]
                     \/ outbox'[i] = Numbered(k) /\ outbox'[i].id = nextId
    <2>1. /\ DOMAIN outbox' = 1..Len(outbox) + 1
          /\ \A i \in 1..Len(outbox) : outbox'[i] = outbox[i]
          /\ outbox'[Len(outbox) + 1] = Numbered(k) /\ Numbered(k).id = nextId
          /\ nextId' = nextId + 1
      BY <1>2, QueueFacts DEF Numbered
    <2>2. \A i \in 1..Len(outbox) + 1 : i \in 1..Len(outbox) \/ i = Len(outbox) + 1
      BY <1>0
    <2> QED
      BY <1>0, <2>1, <2>2
  <1>3. CASE SwapEnd
    BY <1>0, <1>3 DEF SwapEnd
  <1>4. CASE LibConnects \/ SessionBreaks \/ LibNoticesBreak
    <2>1. nextId' = nextId /\ outbox' = outbox
      BY <1>4 DEF LibConnects, SessionBreaks, LibNoticesBreak
    <2> QED
      BY <1>0, <2>1
  <1>5. CASE LibReceivesPuback
    <2>1. /\ DOMAIN outbox' = 1..Len(outbox) - 1 /\ nextId' = nextId
          /\ \A i \in 1..Len(outbox) - 1 : outbox'[i] = outbox[i + 1]
      BY <1>5, AckFacts
    <2>2. \A i \in 1..Len(outbox) - 1 : i + 1 \in 1..Len(outbox)
      BY <1>0
    <2> QED
      BY <1>0, <2>1, <2>2
  <1>6. CASE BrokerReceives
    BY <1>0, <1>6 DEF BrokerReceives
  <1> QED
    BY <1>0, <1>1, <1>2, <1>3, <1>4, <1>5, <1>6, LibSteps

\* A message that is in hand stays the one in the outbox with its id.
LEMMA HeldStays ==
    ASSUME TypeOK, OutboxInv, PubInv, Next, NEW m, Held(m)
    PROVE  /\ m.id \in Ids'
           /\ \A i \in DOMAIN outbox' : outbox'[i].id = m.id => outbox'[i] = m
  <1>1. m.id \in 1..nextId - 1 /\ \A i \in DOMAIN outbox : outbox[i].id = m.id => outbox[i] = m
    BY DEF Held, Ids
  <1>2. m.id \in Ids'
    BY <1>1, OutboxMoves DEF Ids
  <1>3. ASSUME NEW i \in DOMAIN outbox', outbox'[i].id = m.id PROVE outbox'[i] = m
    <2>1. m.id # nextId
      BY <1>1, OutboxMoves
    <2> QED
      BY <1>1, <1>3, <2>1, OutboxMoves
  <1> QED
    BY <1>2, <1>3

\* Every step keeps the messages in hand those of the outbox.
LEMMA HeldInvStep ==
    ASSUME TypeOK, OutboxInv, PubInv, HeldInv, Next
    PROVE  HeldInv'
  <1> DEFINE Kept(r) == r.at \in {"mark", "wait"} =>
                          /\ r.msg.id \in Ids' /\ r.msg.kind = r.job
                          /\ \A i \in DOMAIN outbox' : outbox'[i].id = r.msg.id
                                                        => outbox'[i] = r.msg
  <1>s. (\A p \in Publishers : Kept(pub'[p])) => HeldInv'
    BY DEF HeldInv
  <1>0. \A p \in Publishers : Kept(pub[p])
    <2>1. ASSUME NEW p \in Publishers, pub[p].at \in {"mark", "wait"}
          PROVE  Held(pub[p].msg) /\ pub[p].msg.kind = pub[p].job
      BY <2>1 DEF HeldInv, Held
    <2>2. \A m : Held(m) => /\ m.id \in Ids'
                            /\ \A i \in DOMAIN outbox' : outbox'[i].id = m.id => outbox'[i] = m
      BY HeldStays
    <2> QED
      BY <2>1, <2>2
  <1>d. "datalog" \in Publishers /\ "web" \in Publishers /\ "datalog" # "web"
    BY DEF Publishers
  <1>i. Kept(IdlePublisher) /\ Kept([IdlePublisher EXCEPT !.at = "stop"])
    BY DEF IdlePublisher
  <1>m. Marks => Kept(pub'["datalog"])
    BY <1>0, <1>d, MovedFields DEF Marks, Moved
  <1>q. ASSUME NEW p \in Publishers, Sends(p) PROVE Kept(pub'[p])
    <2>1. pub'[p].msg = Numbered(pub[p].job) /\ pub'[p].job = pub[p].job
      BY <1>q, MovedFields
    <2>2. Numbered(pub[p].job).id = nextId /\ Numbered(pub[p].job).kind = pub[p].job
      BY DEF Numbered
    <2>3. /\ pub[p].job \in Kinds /\ Queues(pub[p].job)
      BY <1>q, MovedFields DEF Sends, PubRecord, Kinds
    <2>4. nextId' = nextId + 1 /\ nextId \in 1..nextId' - 1
      BY <2>3, QueueFacts, Lengths
    <2>5. ASSUME NEW i \in DOMAIN outbox', outbox'[i].id = nextId
          PROVE  outbox'[i] = Numbered(pub[p].job)
      <3> DEFINE n == Len(outbox)
      <3>1. /\ DOMAIN outbox' = 1..n + 1
            /\ \A j \in 1..n : outbox'[j] = outbox[j]
            /\ outbox'[n + 1] = Numbered(pub[p].job)
        BY <2>3, QueueFacts
      <3>2. n \in Nat /\ DOMAIN outbox = 1..n /\ nextId \in Nat
        BY Lengths
      <3> HIDE DEF n
      <3>3. CASE i \in 1..n
        <4>1. outbox[i].id \in 1..nextId - 1
          BY <3>2, <3>3 DEF OutboxInv, Ids
        <4> QED
          BY <2>5, <3>1, <3>2, <3>3, <4>1
      <3>4. i \in 1..n \/ i = n + 1
        BY <3>1, <3>2
      <3> QED
        BY <3>1, <3>3, <3>4
    <2> QED
      BY <2>1, <2>2, <2>4, <2>5 DEF Ids
  <1> HIDE DEF Kept
  <1>1. ASSUME pub' = pub PROVE HeldInv'
    BY <1>0, <1>1, <1>s
  <1>2. ASSUME NEW p \in Publishers, Begins(p) \/ Locks(p) \/ GivesUp(p) \/ Finishes(p)
        PROVE  HeldInv'
    <2>1. Kept(pub'[p])
      <3>1. pub'[p].at \in {"lock", "send", "settle"}
        BY <1>2, MovedFields
      <3> QED
        BY <3>1 DEF Kept
    <2> QED
      BY <1>0, <1>2, <1>s, <2>1 DEF Begins, Locks, GivesUp, Finishes, Moved
  <1>3. ASSUME NEW p \in Publishers, Sends(p) PROVE HeldInv'
    BY <1>0, <1>3, <1>q, <1>s DEF Sends, Moved
  <1>4. ASSUME Marks PROVE HeldInv'
    BY <1>0, <1>4, <1>d, <1>m, <1>s DEF Marks, Moved
  <1>5. ASSUME \/ Moved("datalog", "settle", IdlePublisher)
               \/ Moved("web", "stop", IdlePublisher)
               \/ Moved("web", "settle", [IdlePublisher EXCEPT !.at = "stop"])
        PROVE  HeldInv'
    BY <1>0, <1>5, <1>d, <1>i, <1>s DEF Moved
  <1> QED
    BY <1>1, <1>2, <1>3, <1>4, <1>5, PubSteps

\* The web server's announcement stands until the client is replaced.
LEMMA WebStays ==
    ASSUME TypeOK, PubInv, Next, WebOff
    PROVE  WebOff' \/ SwapEnd
  <1>d. "datalog" \in Publishers /\ "web" \in Publishers /\ "datalog" # "web"
    BY DEF Publishers
  <1>0. pub["web"].at \in {"wait", "settle", "stop"}
    BY DEF WebOff
  <1>s. pub'["web"].at \in {"wait", "settle", "stop"} => WebOff'
    BY DEF WebOff
  <1>1. ASSUME NEW p \in Publishers, Begins(p) \/ Locks(p) \/ GivesUp(p) \/ Sends(p)
        PROVE  WebOff'
    <2>1. p # "web" /\ pub'["web"] = pub["web"]
      BY <1>0, <1>1, <1>d DEF Begins, Locks, GivesUp, Sends, Moved
    <2> QED
      BY <1>0, <1>s, <2>1
  <1>2. ASSUME NEW p \in Publishers, Finishes(p) PROVE WebOff'
    <2>1. pub'[p].at = "settle"
      BY <1>2, MovedFields
    <2> QED
      BY <1>0, <1>2, <1>d, <1>s, <2>1 DEF Finishes, Moved
  <1>3. Marks \/ Moved("datalog", "settle", IdlePublisher) => WebOff'
    BY <1>0, <1>d, <1>s DEF Marks, Moved
  <1>4. Moved("web", "settle", [IdlePublisher EXCEPT !.at = "stop"]) => WebOff'
    BY <1>s DEF Moved, IdlePublisher
  <1>5. pub' = pub => WebOff'
    BY <1>0, <1>s
  <1> QED
    BY <1>1, <1>2, <1>3, <1>4, <1>5, PubSteps

\* An "offline" document is under way only while the web server replaces the client.
LEMMA OfflineStep ==
    ASSUME TypeOK, OutboxInv, PubInv, OfflineInv, Next
    PROVE  OfflineInv'
  <1> SUFFICES ASSUME NEW i \in DOMAIN outbox', outbox'[i].kind = "offline"
               PROVE  WebOff'
    BY DEF OfflineInv
  <1>1. CASE SwapEnd
    <2>1. outbox' = <<>>
      BY <1>1 DEF SwapEnd
    <2> QED
      BY <2>1
  <1>2. ASSUME NEW j \in DOMAIN outbox, outbox'[i] = outbox[j] PROVE WebOff' \/ SwapEnd
    BY <1>2, WebStays DEF OfflineInv
  <1>3. ASSUME NEW k \in Kinds, Queues(k), outbox'[i] = Numbered(k) PROVE WebOff'
    BY <1>3 DEF Queues, WebOff, Numbered
  <1> QED
    BY <1>1, <1>2, <1>3, OutboxMoves

\* Whatever the broker acknowledges it has received first.
LEMMA AckedStep ==
    ASSUME TypeOK, OutboxInv, PubInv, OfflineInv, AckedInv, Next
    PROVE  AckedInv'
  <1> DEFINE n == Len(outbox)
             a == Len(acks)
  <1>0. /\ n \in Nat /\ a \in Nat /\ DOMAIN outbox = 1..n /\ DOMAIN acks = 1..a
        /\ a <= n
        /\ \A i \in 1..a : i \in 1..n
    <2>1. /\ n \in Nat /\ a \in Nat /\ DOMAIN outbox = 1..n /\ DOMAIN acks = 1..a
          /\ Len(wire) \in Nat
      BY Lengths
    <2>2. session = "up" => n = a + Len(wire)
      BY DEF OutboxInv
    <2>3. session # "up" => a = 0
      BY EmptySeq DEF OutboxInv
    <2> HIDE DEF n, a
    <2>4. a <= n
      BY <2>1, <2>2, <2>3
    <2> QED
      BY <2>1, <2>4
  <1> HIDE DEF n, a
  <1>a. \A i \in 1..a : /\ outbox[i].kind \in {"telemetry", "rollback"} => outbox[i] \in received
                        /\ outbox[i].kind = "online" /\ ~WebOff => retained = "online"
    BY <1>0 DEF AckedInv
  <1>w. ~WebOff' => ~WebOff \/ SwapEnd
    BY WebStays
  <1>1. CASE UNCHANGED <<session, nextId, outbox, wire, acks, retained, received>>
    <2>1. ~SwapEnd \/ acks' = <<>>
      BY DEF SwapEnd
    <2> QED
      BY <1>0, <1>1, <1>a, <1>w, <2>1 DEF AckedInv
  <1>2. ASSUME NEW k \in Kinds, Queues(k) PROVE AckedInv'
    <2>1. /\ acks' = acks /\ retained' = retained /\ received' = received
          /\ \A i \in 1..n : outbox'[i] = outbox[i]
      BY <1>2, QueueFacts DEF broker, n
    <2>2. ~SwapEnd
      BY <1>2, QueueFacts, Lengths DEF SwapEnd
    <2> QED
      BY <1>0, <1>a, <1>w, <2>1, <2>2 DEF AckedInv
  <1>3. CASE SwapEnd \/ LibConnects \/ SessionBreaks
    <2>1. acks' = <<>>
      BY <1>3 DEF SwapEnd, LibConnects, SessionBreaks
    <2> QED
      BY <2>1 DEF AckedInv
  <1>4. CASE LibNoticesBreak
    <2>1. acks' = <<>>
      BY <1>4 DEF LibNoticesBreak, OutboxInv
    <2> QED
      BY <2>1 DEF AckedInv
  <1>5. CASE LibReceivesPuback
    <2>1. /\ n > 0 /\ a > 0 /\ session' = "up" /\ DOMAIN acks' = 1..a - 1
          /\ \A i \in 1..n - 1 : outbox'[i] = outbox[i + 1]
          /\ pub' = pub /\ retained' = retained /\ received' = received
      BY <1>5, AckFacts DEF n, a, broker, publishing
    <2>2. WebOff' <=> WebOff
      BY <2>1 DEF WebOff
    <2>3. \A i \in 1..a - 1 : i \in 1..n - 1 /\ i + 1 \in 1..a
      BY <1>0
    <2> QED
      BY <1>a, <2>1, <2>2, <2>3 DEF AckedInv
  <1>6. CASE BrokerReceives
    <2> DEFINE m == Head(wire)
    <2>1. /\ session = "up" /\ wire # <<>> /\ outbox' = outbox
          /\ acks' = Append(acks, m.id)
          /\ received' = received \union ({m} \intersect Watched)
          /\ retained' = IF m.kind \in {"online", "offline"} THEN m.kind ELSE retained
          /\ pub' = pub
      BY <1>6 DEF BrokerReceives, publishing
    <2>2. WebOff' <=> WebOff
      BY <2>1 DEF WebOff
    <2>3. m = outbox[a + 1] /\ a + 1 \in 1..n
      <3>1. /\ Len(wire) \in Nat /\ Len(wire) > 0 /\ m = wire[1] /\ DOMAIN wire = 1..Len(wire)
        BY <2>1, Lengths
      <3>2. n = a + Len(wire) /\ 1 \in DOMAIN wire
        BY <2>1, <3>1 DEF OutboxInv, n, a
      <3>3. wire[1] = outbox[a + 1]
        BY <2>1, <3>2 DEF OutboxInv, a
      <3> QED
        BY <1>0, <3>1, <3>2, <3>3
    <2>4. DOMAIN acks' = 1..a + 1
      <3>1. Len(acks') = a + 1 /\ acks' \in Seq(1..MaxId)
        <4>1. acks \in Seq(1..MaxId) /\ m.id \in 1..MaxId
          <5>1. m.id \in 1..nextId - 1 /\ nextId \in 1..MaxId + 1
            BY <1>0, <2>3 DEF OutboxInv, Ids, TypeOK
          <5> QED
            BY <5>1, LimitsAssumption DEF TypeOK
        <4> QED
          BY <2>1, <4>1, AppendProperties DEF a
      <3> QED
        BY <3>1, LenProperties
    <2>5. m \in Messages /\ m.id \in 1..MaxId
      <3>1. m.id \in 1..nextId - 1 /\ nextId \in 1..MaxId + 1
        BY <1>0, <2>3 DEF OutboxInv, Ids, TypeOK
      <3>2. m \in Messages
        BY <2>1, HeadType, TypeParts
      <3> QED
        BY <3>1, <3>2, LimitsAssumption
    <2>6. m.kind \in {"telemetry", "rollback"} => m \in received'
      BY <2>1, <2>5 DEF Watched, Messages
    <2>7. ~WebOff => m.kind # "offline"
      BY <1>0, <2>3 DEF OfflineInv
    <2> HIDE DEF m
    <2>8. ASSUME NEW i \in 1..a + 1
          PROVE  /\ outbox[i].kind \in {"telemetry", "rollback"} => outbox[i] \in received'
                 /\ outbox[i].kind = "online" /\ ~WebOff => retained' = "online"
      <3>1. CASE i \in 1..a
        BY <1>a, <2>1, <2>7, <3>1
      <3>2. CASE i = a + 1
        BY <2>1, <2>3, <2>6, <3>2
      <3> QED
        BY <1>0, <3>1, <3>2
    <2> QED
      BY <2>1, <2>2, <2>4, <2>8 DEF AckedInv
  <1> QED
    BY <1>1, <1>2, <1>3, <1>4, <1>5, <1>6, LibSteps

-----------------------------------------------------------------------------
(* The handler is told of what was received *)

\* Only a new session, and the web server, undo that the device shows as online.
LEMMA RetainedMoves ==
    ASSUME TypeOK, OutboxInv, PubInv, OfflineInv, Next
    PROVE  /\ received \subseteq received'
           /\ session' = "up" /\ ~WebOff' /\ ~LibConnects
                => /\ session = "up" /\ ~WebOff
                   /\ retained' = retained \/ retained' = "online"
  <1>w. ~WebOff' => ~WebOff \/ SwapEnd
    BY WebStays
  <1>1. CASE UNCHANGED <<session, nextId, outbox, wire, acks, retained, received>>
    <2>1. session' = "up" => ~SwapEnd
      BY DEF SwapEnd
    <2> QED
      BY <1>1, <1>w, <2>1
  <1>2. ASSUME NEW k \in Kinds, Queues(k)
        PROVE  /\ session' = session /\ retained' = retained /\ received' = received
               /\ ~SwapEnd
    <2>1. nextId' # nextId
      BY <1>2, QueueFacts, Lengths
    <2> QED
      BY <1>2, <2>1, QueueFacts DEF broker, SwapEnd
  <1>3. CASE SwapEnd \/ SessionBreaks \/ LibNoticesBreak
    BY <1>3 DEF SwapEnd, SessionBreaks, LibNoticesBreak, broker
  <1>4. CASE LibConnects
    BY <1>4 DEF LibConnects, broker
  <1>5. CASE LibReceivesPuback
    <2>1. session = "up" /\ retained' = retained /\ received' = received /\ ~SwapEnd
      BY <1>5, AckFacts DEF broker, SwapEnd
    <2> QED
      BY <1>w, <2>1
  <1>6. CASE BrokerReceives
    <2>1. /\ session = "up" /\ wire # <<>> /\ session' = session
          /\ received \subseteq received'
          /\ retained' = IF Head(wire).kind \in {"online", "offline"}
                         THEN Head(wire).kind ELSE retained
      BY <1>6 DEF BrokerReceives
    <2>2. ~SwapEnd
      BY <2>1 DEF SwapEnd
    <2>3. ~WebOff => Head(wire).kind # "offline"
      <3>1. Len(wire) > 0 /\ Len(wire) \in Nat /\ Head(wire) = wire[1]
            /\ DOMAIN wire = 1..Len(wire) /\ DOMAIN outbox = 1..Len(outbox)
            /\ Len(acks) \in Nat
        BY <2>1, Lengths
      <3>2. Len(outbox) = Len(acks) + Len(wire)
        BY <2>1 DEF OutboxInv
      <3>3. Len(acks) + 1 \in DOMAIN outbox /\ 1 \in DOMAIN wire
        BY <3>1, <3>2
      <3>4. Head(wire) = outbox[Len(acks) + 1]
        BY <2>1, <3>1, <3>3 DEF OutboxInv
      <3> QED
        BY <3>3, <3>4 DEF OfflineInv
    <2> QED
      BY <1>w, <2>1, <2>2, <2>3
  <1> QED
    BY <1>1, <1>2, <1>3, <1>4, <1>5, <1>6, <1>w, LibSteps

\* What is delivered stays so, but for a connection that brings an earlier last will.
LEMMA DeliveredStays ==
    ASSUME TypeOK, OutboxInv, PubInv, OfflineInv, Next, ~LibConnects, NEW m, Delivered(m)
    PROVE  Delivered(m)'
  BY RetainedMoves DEF Delivered

\* A message in hand was there before, or was just sent.
LEMMA InHand ==
    ASSUME TypeOK, PubInv, Next, NEW p \in Publishers, pub'[p].at \in {"mark", "wait"}
    PROVE  \/ /\ pub[p].at \in {"mark", "wait"} /\ pub'[p].msg = pub[p].msg
              /\ pub'[p] = pub[p] \/ MarkPending
           \/ /\ Sends(p) /\ pub'[p].msg.id = nextId /\ nextId' = nextId + 1
              /\ SendTelemetry \/ SendAvailability(p)
              /\ pub[p].at = "send"
  <1>d. "datalog" \in Publishers /\ "web" \in Publishers /\ "datalog" # "web"
    BY DEF Publishers
  <1>1. ASSUME NEW q \in Publishers, Begins(q) \/ Locks(q) \/ GivesUp(q) \/ Finishes(q)
        PROVE  pub'[p] = pub[p]
    <2>1. pub'[q].at \in {"lock", "send", "settle"}
      BY <1>1, MovedFields
    <2> QED
      BY <1>1, <2>1 DEF Begins, Locks, GivesUp, Finishes, Moved
  <1>2. ASSUME NEW q \in Publishers, Sends(q) /\ (SendTelemetry \/ SendAvailability(q))
        PROVE  \/ pub'[p] = pub[p]
               \/ /\ Sends(p) /\ pub'[p].msg.id = nextId /\ nextId' = nextId + 1
                  /\ SendTelemetry \/ SendAvailability(p)
                  /\ pub[p].at = "send"
    <2>1. CASE p # q
      BY <1>2, <2>1 DEF Sends, Moved
    <2>2. CASE p = q
      <3>0. pub'[p].msg = Numbered(pub[p].job)
        BY <1>2, <2>2, MovedFields
      <3>1. pub'[p].msg.id = nextId
        BY <3>0 DEF Numbered
      <3>2. nextId' = nextId + 1 /\ pub[p].at = "send"
        BY <1>2, <2>2 DEF Sends, Moved, Queues, Queue
      <3> QED
        BY <1>2, <2>2, <3>1, <3>2
    <2> QED
      BY <2>1, <2>2
  <1>3. ASSUME Marks
        PROVE  pub[p].at \in {"mark", "wait"} /\ pub'[p].msg = pub[p].msg
    BY <1>3, <1>d, MovedFields DEF Marks, Moved
  <1>4. ASSUME \/ Moved("datalog", "settle", IdlePublisher)
               \/ Moved("web", "stop", IdlePublisher)
               \/ Moved("web", "settle", [IdlePublisher EXCEPT !.at = "stop"])
        PROVE  pub'[p] = pub[p]
    BY <1>4, <1>d DEF Moved, IdlePublisher
  <1> QED
    BY <1>1, <1>2, <1>3, <1>4, PubSteps

\* The handler is told of one message at a time.
LEMMA TellingMoves ==
    ASSUME TypeOK, Next, Telling'
    PROVE  \/ handler' = handler
           \/ LibReceivesPuback
           \/ /\ Telling /\ handler'.id = handler.id
              /\ OnPublished \/ ComparePending \/ SetPuback
  <1>0. handler \in HandlerRecord /\ handler'.at \in PublishedSteps
    BY DEF TypeOK, HandlerRecord, Telling
  <1> USE DEF PublishedSteps, HandlerRecord
  <1>1. CASE PublisherNext \/ StatusTaskNext
    BY <1>1 DEF PublisherNext, StatusTaskNext, TelemetryBegin, MaintenanceTick, SetConfig,
                Begin, PublishLock, SendTelemetry, MarkPending, SendAvailability, PublishDone,
                Settle, SwapBegin, SwapEnd,
                StatusTaskLooks, StatusTaskPublishes, StatusTaskEnds
  <1>2. CASE OnConnected \/ OnDisconnected
    BY <1>0, <1>2 DEF OnConnected, OnDisconnected, Goto
  <1>3. CASE RequestAvailability \/ ReserveTimeStatus
    BY <1>0, <1>3 DEF RequestAvailability, ReserveTimeStatus
  <1>4. CASE ConnectedStatus
    BY <1>0, <1>4 DEF ConnectedStatus, Goto, Return, IdleHandler
  <1>5. CASE UndoReservation \/ Unconfirm \/ CompareRollback
    <2>1. handler' = IdleHandler
      BY <1>5 DEF UndoReservation, Unconfirm, CompareRollback, Return
    <2> QED
      BY <1>0, <2>1 DEF IdleHandler
  <1>6. CASE OnPublished \/ ComparePending \/ SetPuback
    BY <1>0, <1>6 DEF OnPublished, ComparePending, SetPuback, Goto, Telling
  <1>7. CASE LibConnects \/ LibNoticesBreak
    BY <1>0, <1>7 DEF LibConnects, LibNoticesBreak, IdleHandler
  <1>8. CASE SessionBreaks \/ BrokerReceives \/ TimeBecomesValid
    BY <1>8 DEF SessionBreaks, BrokerReceives, TimeBecomesValid
  <1> QED
    BY <1>1, <1>2, <1>3, <1>4, <1>5, <1>6, <1>7, <1>8 DEF Next, HandlerNext, WorldNext

\* The handler is only told of messages that are delivered and out of the outbox.
LEMMA ToldStep ==
    ASSUME TypeOK, OutboxInv, PubInv, HeldInv, OfflineInv, AckedInv, ToldInv, Next
    PROVE  ToldInv'
  <1> SUFFICES ASSUME Telling'
               PROVE  /\ handler'.id \in Ids'
                      /\ \A i \in DOMAIN outbox' : outbox'[i].id # handler'.id
                      /\ \A p \in Publishers :
                            pub'[p].at \in {"mark", "wait"} /\ pub'[p].msg.id = handler'.id
                                => \A m : m = pub'[p].msg => Delivered(m)'
    BY DEF ToldInv, Delivered
  <1>n. nextId \in Nat /\ nextId' \in Nat /\ nextId' >= nextId
    BY OutboxMoves
  <1>1. ASSUME Telling, handler'.id = handler.id, ~LibConnects
        PROVE  /\ handler'.id \in Ids'
               /\ \A i \in DOMAIN outbox' : outbox'[i].id # handler'.id
               /\ \A p \in Publishers :
                     pub'[p].at \in {"mark", "wait"} /\ pub'[p].msg.id = handler'.id
                         => \A m : m = pub'[p].msg => Delivered(m)'
    <2>0. handler.id \in 1..nextId - 1 /\ \A i \in DOMAIN outbox : outbox[i].id # handler.id
      BY <1>1 DEF ToldInv, Ids
    <2>1. handler'.id \in Ids' /\ handler.id # nextId
      BY <1>1, <1>n, <2>0 DEF Ids
    <2>2. \A i \in DOMAIN outbox' : outbox'[i].id # handler'.id
      BY <1>1, <2>0, <2>1, OutboxMoves
    <2>3. ASSUME NEW p \in Publishers, pub'[p].at \in {"mark", "wait"},
                 pub'[p].msg.id = handler'.id
          PROVE  \A m : m = pub'[p].msg => Delivered(m)'
      <3>1. pub[p].at \in {"mark", "wait"} /\ pub'[p].msg = pub[p].msg
        BY <1>1, <2>1, <2>3, InHand
      <3>2. Delivered(pub[p].msg)
        BY <1>1, <2>3, <3>1 DEF ToldInv
      <3>3. \A m : m = pub[p].msg => Delivered(m)'
        BY <1>1, <3>2, DeliveredStays
      <3> QED
        BY <3>1, <3>3
    <2> QED
      BY <2>1, <2>2, <2>3
  <1>2. CASE LibReceivesPuback
    <2>1. /\ handler'.id = outbox[1].id /\ nextId' = nextId /\ 1 \in DOMAIN outbox
          /\ outbox[1].id \in Ids /\ Len(acks) > 0 /\ session' = "up" /\ session = "up"
          /\ DOMAIN outbox' = 1..Len(outbox) - 1
          /\ \A i \in 1..Len(outbox) - 1 : outbox'[i] = outbox[i + 1]
          /\ pub' = pub /\ UNCHANGED broker
      <3>1. handler'.id = acks[1]
        BY <1>2, AckFacts DEF IdleHandler
      <3>2. 1 \in DOMAIN outbox
        BY <1>2, AckFacts, Lengths
      <3> QED
        BY <1>2, <3>1, <3>2, AckFacts DEF publishing
    <2>2. handler'.id \in Ids'
      BY <2>1 DEF Ids
    <2>3. ASSUME NEW i \in DOMAIN outbox' PROVE outbox'[i].id # handler'.id
      <3>1. /\ i + 1 \in DOMAIN outbox /\ 1 < i + 1 /\ outbox'[i] = outbox[i + 1]
        BY <2>1, Lengths
      <3>2. outbox[1].id < outbox[i + 1].id
        BY <2>1, <3>1 DEF OutboxInv
      <3>3. outbox[1].id \in 1..nextId - 1
        BY <2>1 DEF Ids
      <3> QED
        BY <1>n, <2>1, <3>1, <3>2, <3>3
    <2>4. ASSUME NEW p \in Publishers, pub'[p].at \in {"mark", "wait"},
                 pub'[p].msg.id = handler'.id
          PROVE  \A m : m = pub'[p].msg => Delivered(m)'
      <3>1. pub[p].at \in {"mark", "wait"} /\ outbox[1] = pub[p].msg
        BY <2>1, <2>4 DEF HeldInv
      <3>2. 1 \in DOMAIN acks
        BY <2>1, Lengths
      <3>3. Delivered(outbox[1])
        BY <2>1, <3>2 DEF AckedInv, Delivered
      <3>4. ~LibConnects
        BY <2>1 DEF LibConnects
      <3>5. \A m : m = outbox[1] => Delivered(m)'
        BY <3>3, <3>4, DeliveredStays
      <3> QED
        BY <2>1, <3>1, <3>5
    <2> QED
      BY <2>2, <2>3, <2>4
  <1>3. CASE handler' = handler
    <2>1. Telling
      BY <1>3 DEF Telling
    <2>2. ~LibConnects
      BY <1>3, <2>1 DEF LibConnects, Telling, PublishedSteps
    <2> QED
      BY <1>1, <1>3, <2>1, <2>2
  <1>4. CASE Telling /\ handler'.id = handler.id /\ (OnPublished \/ ComparePending \/ SetPuback)
    <2>1. ~LibConnects
      BY <1>4 DEF LibConnects, Telling, PublishedSteps
    <2> QED
      BY <1>1, <1>4, <2>1
  <1> QED
    BY <1>2, <1>3, <1>4, TellingMoves

\* Whoever waits goes on waiting for the same message until it is done.
LEMMA Waits ==
    ASSUME TypeOK, PubInv, Next, NEW p \in Publishers, pub[p].at = "wait"
    PROVE  PublishDone(p) \/ pub'[p] = pub[p]
  <1>d. "datalog" \in Publishers /\ "web" \in Publishers /\ "datalog" # "web"
    BY DEF Publishers
  <1>1. ASSUME NEW q \in Publishers, Begins(q) \/ Locks(q) \/ GivesUp(q) \/ Sends(q)
        PROVE  pub'[p] = pub[p]
    BY <1>1 DEF Begins, Locks, GivesUp, Sends, Moved
  <1>2. ASSUME NEW q \in Publishers, PublishDone(q) /\ Finishes(q)
        PROVE  PublishDone(p) \/ pub'[p] = pub[p]
    BY <1>2 DEF Finishes, Moved
  <1>3. ASSUME \/ Marks
               \/ Moved("datalog", "settle", IdlePublisher)
               \/ Moved("web", "stop", IdlePublisher)
               \/ Moved("web", "settle", [IdlePublisher EXCEPT !.at = "stop"])
        PROVE  pub'[p] = pub[p]
    BY <1>3, <1>d DEF Marks, Moved
  <1> QED
    BY <1>1, <1>2, <1>3, PubSteps

\* What the steps do to EV_PUBACK and the pending id.
LEMMA AckMoves ==
    ASSUME TypeOK, PubInv, Next
    PROVE  \/ /\ evPuback' = evPuback /\ pendingId' = pendingId
              /\ \A p \in Publishers : pub[p].at = "wait" => pub'[p] = pub[p]
           \/ SetPuback /\ evPuback' = TRUE /\ pendingId' = pendingId /\ pub' = pub
           \/ /\ \E p \in Publishers : PublishLock(p) /\ Locks(p)
              /\ evPuback' = FALSE /\ pendingId' = pendingId
           \/ /\ \E p \in Publishers : GivesUp(p)
              /\ evPuback' = evPuback /\ pendingId' = -1
           \/ /\ \E p \in Publishers : Sends(p) /\ pub'[p].at = "wait"
                                       /\ pub'[p].msg.id = nextId
              /\ evPuback' = evPuback /\ pendingId' = nextId
           \/ /\ Marks
              /\ evPuback' = evPuback /\ pendingId' = pub["datalog"].msg.id
           \/ /\ \E p \in Publishers : PublishDone(p) /\ Finishes(p)
              /\ evPuback' = FALSE /\ pendingId' = -1
  <1>d. "datalog" \in Publishers /\ "web" \in Publishers /\ "datalog" # "web"
    BY DEF Publishers
  <1> USE DEF ack, locks
  <1>1. CASE pub' = pub /\ (UNCHANGED ack \/ SetPuback)
    <2>1. SetPuback => evPuback' = TRUE /\ pendingId' = pendingId
      BY DEF SetPuback
    <2> QED
      BY <1>1, <2>1
  <1>2. ASSUME NEW q \in Publishers, Begins(q) /\ UNCHANGED ack
        PROVE  /\ evPuback' = evPuback /\ pendingId' = pendingId
               /\ \A p \in Publishers : pub[p].at = "wait" => pub'[p] = pub[p]
    BY <1>2 DEF Begins, Moved
  <1>3. ASSUME NEW p \in Publishers, PublishLock(p) /\ Locks(p)
        PROVE  evPuback' = FALSE /\ pendingId' = pendingId
    BY <1>3 DEF PublishLock
  <1>5. ASSUME NEW p \in Publishers, Sends(p), SendTelemetry \/ SendAvailability(p)
        PROVE  \/ /\ evPuback' = evPuback /\ pendingId' = pendingId
                  /\ \A q \in Publishers : pub[q].at = "wait" => pub'[q] = pub[q]
               \/ /\ pub'[p].at = "wait" /\ pub'[p].msg.id = nextId
                  /\ evPuback' = evPuback /\ pendingId' = nextId
    <2>1. /\ pub'[p].at \in {"mark", "wait"} /\ pub'[p].msg = Numbered(pub[p].job)
          /\ nextId' = nextId + 1
      BY <1>5, MovedFields DEF Sends, Queues, Queue
    <2>2. Numbered(pub[p].job).id = nextId
      BY DEF Numbered
    <2>3. \A q \in Publishers : pub[q].at = "wait" => pub'[q] = pub[q]
      BY <1>5 DEF Sends, Moved
    <2>4. nextId' # nextId
      BY <2>1, Lengths
    <2>5. CASE SendTelemetry
      BY <2>3, <2>4, <2>5 DEF SendTelemetry, Refused, library
    <2>6. CASE SendAvailability(p)
      <3>1. ~Refused(p)
        BY <2>4 DEF Refused, library
      <3>2. /\ pub' = [pub EXCEPT ![p].at = "wait", ![p].msg = Numbered(pub[p].job)]
            /\ pendingId' = nextId /\ evPuback' = evPuback
        BY <2>6, <3>1 DEF SendAvailability
      <3>3. pub'[p].at = "wait"
        BY <3>2 DEF TypeOK
      <3> QED
        BY <2>1, <2>2, <3>2, <3>3
    <2> QED
      BY <1>5, <2>5, <2>6
  <1>4. ASSUME NEW p \in Publishers, Refused(p)
        PROVE  pendingId' = -1
    BY <1>4 DEF Refused
  <1>6. MarkPending => evPuback' = evPuback /\ pendingId' = pub["datalog"].msg.id
    BY DEF MarkPending
  <1>7. ASSUME NEW p \in Publishers, PublishDone(p)
        PROVE  evPuback' = FALSE /\ pendingId' = -1
    BY <1>7 DEF PublishDone
  <1>8. ASSUME \/ Settle /\ Moved("datalog", "settle", IdlePublisher)
               \/ SwapBegin /\ Moved("web", "settle", [IdlePublisher EXCEPT !.at = "stop"])
               \/ SwapEnd /\ Moved("web", "stop", IdlePublisher)
        PROVE  /\ evPuback' = evPuback /\ pendingId' = pendingId
               /\ \A p \in Publishers : pub[p].at = "wait" => pub'[p] = pub[p]
    BY <1>8 DEF Settle, SwapBegin, SwapEnd, Moved
  <1> QED
    BY <1>1, <1>2, <1>3, <1>4, <1>5, <1>6, <1>7, <1>8, PubSteps

\* The pending id stays that of a publisher that waits.
LEMMA PendingStep ==
    ASSUME TypeOK, PubInv, PendingInv, Next
    PROVE  PendingInv'
  <1>1. CASE pendingId' = -1
    BY <1>1 DEF PendingInv
  <1>2. ASSUME pendingId' = pendingId, pendingId # -1,
               \A p \in Publishers : pub[p].at = "wait" => pub'[p] = pub[p]
        PROVE  PendingInv'
    <2>1. PICK p \in Publishers : pub[p].at = "wait" /\ pub[p].msg.id = pendingId
      BY <1>2 DEF PendingInv, Awaited
    <2> QED
      BY <1>2, <2>1 DEF PendingInv, Awaited
  <1>3. ASSUME NEW p \in Publishers, Locks(p)
        PROVE  \A q \in Publishers : pub[q].at = "wait" => pub'[q] = pub[q]
    BY <1>3 DEF Locks, Moved
  <1>4. ASSUME NEW p \in Publishers, pub'[p].at = "wait", pub'[p].msg.id = pendingId'
        PROVE  PendingInv'
    BY <1>4 DEF PendingInv, Awaited
  <1>5. ASSUME Marks, pendingId' = pub["datalog"].msg.id PROVE PendingInv'
    <2>1. /\ "datalog" \in Publishers
          /\ pub'["datalog"].at = "wait" /\ pub'["datalog"].msg = pub["datalog"].msg
      BY <1>5, MovedFields DEF Publishers
    <2> QED
      BY <1>4, <1>5, <2>1
  <1>6. pub' = pub => \A q \in Publishers : pub[q].at = "wait" => pub'[q] = pub[q]
    OBVIOUS
  <1> QED
    BY <1>1, <1>2, <1>3, <1>4, <1>5, <1>6, AckMoves

-----------------------------------------------------------------------------
(* The bit belongs to the one that waits *)

\* Only a publisher that gives up is a stray.
LEMMA StraysStay ==
    ASSUME Next, ~strays'
    PROVE  /\ ~strays
           /\ \A p \in Publishers : PublishDone(p) => evPuback \/ handler.at # "published_set"
  <1>1. ASSUME NEW p \in Publishers, PublishDone(p)
        PROVE  ~strays /\ (evPuback \/ handler.at # "published_set")
    BY <1>1, Zenon DEF PublishDone
  <1>2. (\A p \in Publishers : ~PublishDone(p)) => strays' = strays
    BY DEF Next, PublisherNext, HandlerNext, StatusTaskNext, WorldNext, history,
           TelemetryBegin, MaintenanceTick, SetConfig, Begin, PublishLock, SendTelemetry,
           MarkPending, SendAvailability, Settle, SwapBegin, SwapEnd,
           OnConnected, RequestAvailability, ReserveTimeStatus, ConnectedStatus, UndoReservation,
           OnDisconnected, Unconfirm, OnPublished, ComparePending, SetPuback, CompareRollback,
           StatusTaskLooks, StatusTaskPublishes, StatusTaskEnds,
           LibConnects, SessionBreaks, LibNoticesBreak, LibReceivesPuback,
           BrokerReceives, TimeBecomesValid
  <1>3. (\A p \in Publishers : ~PublishDone(p)) => ~strays
    BY <1>2, Zenon
  <1> QED
    BY <1>1, <1>3

\* There is one round trip at a time.
LEMMA OneWaits ==
    ASSUME TypeOK, NEW p \in Publishers, NEW q \in Publishers,
           pub[p].at = "wait", pub[q].at = "wait"
    PROVE  p = q
  BY DEF TypeOK

\* A result is new only when a wait has ended.
LEMMA OkMoves ==
    ASSUME TypeOK, PubInv, Next, NEW p \in Publishers, pub'[p].ok
    PROVE  pub'[p] = pub[p] \/ (PublishDone(p) /\ Finishes(p))
  <1>d. "datalog" \in Publishers /\ "web" \in Publishers /\ "datalog" # "web"
    BY DEF Publishers
  <1>0. \A q \in Publishers : pub[q].at # "settle" => ~pub[q].ok
    BY DEF PubInv
  <1>1. ASSUME NEW q \in Publishers, Begins(q) PROVE pub'[p] = pub[p]
    <2>1. pub'[q].ok = FALSE
      BY <1>1, MovedFields
    <2>2. p # q
      BY <2>1, Zenon
    <2> QED
      BY <1>1, <2>2 DEF Begins, Moved
  <1>2. ASSUME NEW q \in Publishers, Locks(q) \/ GivesUp(q) \/ Sends(q)
        PROVE  pub'[p] = pub[p]
    <2>1. pub'[q].ok = pub[q].ok /\ pub[q].at \in {"lock", "send"}
      <3>1. pub[q].at \in {"lock", "send"}
        BY <1>2 DEF Locks, GivesUp, Sends, Moved
      <3>2. pub'[q].ok = pub[q].ok
        BY <1>2, MovedFields, Zenon
      <3> QED
        BY <3>1, <3>2
    <2>2. ~pub[q].ok
      BY <1>0, <2>1
    <2>3. p # q
      BY <2>1, <2>2, Zenon
    <2> QED
      BY <1>2, <2>3 DEF Locks, GivesUp, Sends, Moved
  <1>3. ASSUME Marks PROVE pub'[p] = pub[p]
    <2>1. pub'["datalog"].ok = pub["datalog"].ok /\ pub["datalog"].at = "mark"
      BY <1>3, <1>d, MovedFields DEF Marks, Moved
    <2>2. ~pub["datalog"].ok
      BY <1>0, <1>d, <2>1
    <2>3. p # "datalog"
      BY <2>1, <2>2, Zenon
    <2> QED
      BY <1>3, <2>3 DEF Marks, Moved
  <1>4. ASSUME NEW q \in Publishers, PublishDone(q) /\ Finishes(q)
        PROVE  pub'[p] = pub[p] \/ (PublishDone(p) /\ Finishes(p))
    BY <1>4 DEF Finishes, Moved
  <1>5. ASSUME NEW q \in Publishers,
               NEW r \in {IdlePublisher, [IdlePublisher EXCEPT !.at = "stop"]},
               pub'[q] = r, \A s \in Publishers : s # q => pub'[s] = pub[s]
        PROVE  pub'[p] = pub[p]
    <2>1. ~r.ok
      BY DEF IdlePublisher
    <2>2. p # q
      BY <1>5, <2>1, Zenon
    <2> QED
      BY <1>5, <2>2
  <1> QED
    BY <1>1, <1>2, <1>3, <1>4, <1>5, <1>d, PubSteps DEF Moved

\* Delivered stays for the publishers whose result it decides.
LEMMA ResultStays ==
    ASSUME TypeOK, OutboxInv, PubInv, OfflineInv, Next, NEW p \in Publishers,
           Delivered(pub[p].msg),
           pub[p].at = "settle" \/ (pub[p].at = "wait" /\ evPuback)
    PROVE  \A m : m = pub[p].msg => Delivered(m)'
  <1>1. ~LibConnects
    BY DEF LibConnects, ConnectTakesTime
  <1> QED
    BY <1>1, DeliveredStays

\* What BitInv says, one part each.
SetInv == handler.at = "published_set" => ~evPuback /\ Awaited(handler.id)
ForInv ==
    evPuback => \E p \in Publishers :
        /\ pub[p].at = "wait" /\ Delivered(pub[p].msg)
        /\ \A i \in DOMAIN outbox : outbox[i].id # pub[p].msg.id
        /\ Deciding => handler.id # pub[p].msg.id
OkInv == \A p \in Publishers : pub[p].ok => Delivered(pub[p].msg)

\* The handler sets EV_PUBACK only for a publisher that waits for that message.
LEMMA SetStep ==
    ASSUME TypeOK, PubInv, HeldInv, ToldInv, PendingInv, BitInv, Next, ~strays'
    PROVE  SetInv'
  <1> SUFFICES ASSUME handler'.at = "published_set"
               PROVE  /\ ~evPuback'
                      /\ \E p \in Publishers : pub'[p].at = "wait" /\ pub'[p].msg.id = handler'.id
    BY DEF SetInv, Awaited
  <1>0. ~strays /\ \A p \in Publishers : PublishDone(p) => evPuback \/ handler.at # "published_set"
    BY StraysStay
  <1>1. SetInv /\ ForInv
    BY <1>0 DEF BitInv, SetInv, ForInv
  <1>2. ~SetPuback
    BY DEF SetPuback, Goto, TypeOK
  <1>3. evPuback' => evPuback
    BY <1>2, AckMoves, Zenon
  <1>4. CASE handler' = handler
    <2>1. ~evPuback /\ Awaited(handler.id)
      BY <1>1, <1>4 DEF SetInv
    <2>2. PICK p \in Publishers : pub[p].at = "wait" /\ pub[p].msg.id = handler.id
      BY <2>1 DEF Awaited
    <2>3. pub'[p] = pub[p]
      BY <1>0, <1>4, <2>1, <2>2, Waits
    <2> QED
      BY <1>3, <1>4, <2>1, <2>2, <2>3
  <1>5. CASE ComparePending
    <2>1. /\ handler.id = pendingId /\ handler'.id = handler.id /\ pub' = pub
          /\ handler.at = "published_pending"
      BY <1>5 DEF ComparePending, ForPending, Goto, TypeOK, publishing
    <2>2. Telling /\ Deciding
      BY <2>1 DEF Telling, Deciding, PublishedSteps
    <2>3. pendingId # -1
      BY <2>1, <2>2, Lengths DEF ToldInv, Ids
    <2>4. PICK p \in Publishers : pub[p].at = "wait" /\ pub[p].msg.id = handler.id
      BY <2>1, <2>3 DEF PendingInv, Awaited
    <2>5. ~evPuback
      BY <1>1, <2>2, <2>4, OneWaits DEF ForInv
    <2> QED
      BY <1>3, <2>1, <2>4, <2>5
  <1>6. ~LibReceivesPuback /\ ~OnPublished
    <2>1. ~OnPublished
      BY DEF OnPublished, Goto, TypeOK
    <2>2. LibReceivesPuback => handler'.at = "published"
      BY DEF LibReceivesPuback, IdleHandler
    <2> QED
      BY <2>1, <2>2
  <1>7. Telling'
    BY DEF Telling, PublishedSteps
  <1> QED
    BY <1>2, <1>4, <1>5, <1>6, <1>7, TellingMoves

\* A bit that is set stays that of the publisher that waits for it.
LEMMA ForStep ==
    ASSUME TypeOK, OutboxInv, PubInv, HeldInv, OfflineInv, ToldInv, BitInv, Next, ~strays'
    PROVE  ForInv'
  <1> SUFFICES ASSUME evPuback'
               PROVE  \E p \in Publishers :
                         /\ pub'[p].at = "wait" /\ \A m : m = pub'[p].msg => Delivered(m)'
                         /\ \A i \in DOMAIN outbox' : outbox'[i].id # pub'[p].msg.id
                         /\ Deciding' => handler'.id # pub'[p].msg.id
    BY DEF ForInv, Delivered
  <1>0. ~strays
    BY StraysStay
  <1>1. SetInv /\ ForInv
    BY <1>0 DEF BitInv, SetInv, ForInv
  <1>2. evPuback \/ SetPuback
    BY AckMoves, Zenon
  <1>3. \A p \in Publishers : ~PublishDone(p)
    BY DEF PublishDone
  <1>o. ASSUME NEW id \in Ids, \A i \in DOMAIN outbox : outbox[i].id # id
        PROVE  \A i \in DOMAIN outbox' : outbox'[i].id # id
    <2>1. id # nextId
      BY Lengths DEF Ids
    <2> QED
      BY <1>o, <2>1, OutboxMoves
  <1>4. CASE SetPuback
    <2>1. /\ handler.at = "published_set" /\ handler'.at = "published_rollback"
          /\ pub' = pub /\ UNCHANGED net
      BY <1>4 DEF SetPuback, Goto, TypeOK
    <2>2. PICK p \in Publishers : pub[p].at = "wait" /\ pub[p].msg.id = handler.id
      BY <1>1, <2>1 DEF SetInv, Awaited
    <2>3. /\ \A i \in DOMAIN outbox : outbox[i].id # handler.id
          /\ Delivered(pub[p].msg)
      BY <2>1, <2>2 DEF ToldInv, Telling, PublishedSteps
    <2>4. ~LibConnects
      BY <2>1 DEF LibConnects
    <2>5. \A m : m = pub[p].msg => Delivered(m)'
      BY <2>3, <2>4, DeliveredStays
    <2>6. outbox' = outbox /\ ~Deciding'
      BY <2>1 DEF net, library, Deciding
    <2> QED
      BY <2>1, <2>2, <2>3, <2>5, <2>6
  <1>5. CASE evPuback /\ ~SetPuback
    <2>1. PICK p \in Publishers :
              /\ pub[p].at = "wait" /\ Delivered(pub[p].msg)
              /\ \A i \in DOMAIN outbox : outbox[i].id # pub[p].msg.id
              /\ Deciding => handler.id # pub[p].msg.id
      BY <1>1, <1>5 DEF ForInv
    <2>2. pub'[p] = pub[p]
      BY <1>3, <2>1, Waits
    <2>3. \A m : m = pub[p].msg => Delivered(m)'
      BY <1>5, <2>1, ResultStays
    <2>4. pub[p].msg.id \in Ids
      BY <2>1 DEF HeldInv
    <2>5. \A i \in DOMAIN outbox' : outbox'[i].id # pub[p].msg.id
      BY <1>o, <2>1, <2>4
    <2>6. ASSUME Deciding' PROVE handler'.id # pub[p].msg.id
      <3>1. Telling'
        BY <2>6 DEF Telling, Deciding, PublishedSteps
      <3>2. CASE handler' = handler
        BY <2>1, <2>6, <3>2 DEF Deciding
      <3>3. CASE LibReceivesPuback
        <4>1. handler'.id = outbox[1].id /\ 1 \in DOMAIN outbox
          <5>1. handler'.id = acks[1]
            BY <3>3, AckFacts DEF IdleHandler
          <5>2. acks[1] = outbox[1].id /\ 1 \in DOMAIN outbox
            BY <3>3, AckFacts, Lengths
          <5> QED
            BY <5>1, <5>2
        <4> QED
          BY <2>1, <4>1
      <3>4. CASE handler'.id = handler.id /\ (OnPublished \/ ComparePending)
        <4>1. Deciding
          BY <3>4 DEF OnPublished, ComparePending, Goto, Deciding
        <4> QED
          BY <2>1, <3>4, <4>1
      <3> QED
        BY <1>5, <3>1, <3>2, <3>3, <3>4, TellingMoves
    <2> QED
      BY <2>1, <2>2, <2>3, <2>5, <2>6
  <1> QED
    BY <1>2, <1>4, <1>5

\* A publisher that takes the bit takes its own.
LEMMA OkStep ==
    ASSUME TypeOK, OutboxInv, PubInv, HeldInv, OfflineInv, BitInv, Next, ~strays'
    PROVE  OkInv'
  <1> SUFFICES ASSUME NEW p \in Publishers, pub'[p].ok
               PROVE  \A m : m = pub'[p].msg => Delivered(m)'
    BY DEF OkInv, Delivered
  <1>0. ~strays
    BY StraysStay
  <1>1. OkInv /\ ForInv
    BY <1>0 DEF BitInv, OkInv, ForInv
  <1>2. CASE pub'[p] = pub[p]
    <2>1. pub[p].at = "settle" /\ Delivered(pub[p].msg)
      BY <1>1, <1>2 DEF PubInv, OkInv
    <2> QED
      BY <1>2, <2>1, ResultStays
  <1>3. CASE PublishDone(p) /\ Finishes(p)
    <2>1. pub'[p].msg = pub[p].msg /\ pub'[p].ok = evPuback /\ pub[p].at = "wait"
      BY <1>3, MovedFields DEF Finishes, Moved
    <2>2. evPuback
      BY <2>1, Zenon
    <2>3. Delivered(pub[p].msg)
      BY <1>1, <2>1, <2>2, OneWaits DEF ForInv
    <2> QED
      BY <2>1, <2>2, <2>3, ResultStays
  <1> QED
    BY <1>2, <1>3, OkMoves

\* While nobody gave up just before it, EV_PUBACK belongs to the one that waits.
LEMMA BitStep ==
    ASSUME TypeOK, OutboxInv, PubInv, HeldInv, OfflineInv, ToldInv, PendingInv, BitInv, Next
    PROVE  BitInv'
  <1>1. ASSUME ~strays' PROVE SetInv' /\ ForInv' /\ OkInv'
    BY <1>1, SetStep, ForStep, OkStep
  <1> QED
    BY <1>1 DEF BitInv, SetInv, ForInv, OkInv

\* Who changes that an online state is requested.
LEMMA RequestMoves ==
    ASSUME Next
    PROVE  requested' = requested \/ RequestAvailability \/ Settle
  <1> USE DEF flags, availability
  <1>1. CASE PublisherNext
    BY <1>1 DEF PublisherNext, TelemetryBegin, MaintenanceTick, SetConfig, Begin, PublishLock,
                SendTelemetry, MarkPending, SendAvailability, PublishDone, SwapBegin, SwapEnd
  <1>2. CASE HandlerNext
    BY <1>2 DEF HandlerNext, OnConnected, ReserveTimeStatus, ConnectedStatus, UndoReservation,
                OnDisconnected, Unconfirm, OnPublished, ComparePending, SetPuback, CompareRollback
  <1>3. CASE StatusTaskNext
    BY <1>3 DEF StatusTaskNext, StatusTaskLooks, StatusTaskPublishes, StatusTaskEnds
  <1>4. CASE WorldNext
    BY <1>4 DEF WorldNext, LibConnects, SessionBreaks, LibNoticesBreak, LibReceivesPuback,
                BrokerReceives, TimeBecomesValid
  <1> QED
    BY <1>1, <1>2, <1>3, <1>4 DEF Next

\* A handler that has just been told of a connection requests the online state.
LEMMA RequestsFirst ==
    ASSUME TypeOK, Next, handler.at \in {"connected", "connected_request"}
    PROVE  handler'.at \in {"connected", "connected_request"} \/ RequestAvailability
  <1>0. handler \in HandlerRecord
    BY DEF TypeOK, HandlerRecord
  <1>1. CASE PublisherNext \/ StatusTaskNext
    BY <1>1 DEF PublisherNext, StatusTaskNext, TelemetryBegin, MaintenanceTick, SetConfig,
                Begin, PublishLock, SendTelemetry, MarkPending, SendAvailability, PublishDone,
                Settle, SwapBegin, SwapEnd,
                StatusTaskLooks, StatusTaskPublishes, StatusTaskEnds
  <1>2. HandlerNext => OnConnected \/ RequestAvailability
    BY DEF HandlerNext, ReserveTimeStatus, ConnectedStatus, UndoReservation, OnDisconnected,
           Unconfirm, OnPublished, ComparePending, SetPuback, CompareRollback, Goto, Return
  <1>3. OnConnected => handler'.at = "connected_request"
    BY <1>0 DEF OnConnected, Goto, HandlerRecord
  <1>4. CASE WorldNext
    BY <1>4 DEF WorldNext, LibConnects, SessionBreaks, LibNoticesBreak, LibReceivesPuback,
                BrokerReceives, TimeBecomesValid
  <1> QED
    BY <1>1, <1>2, <1>3, <1>4 DEF Next

\* The retained state is wrong only while an "online" is still to be published.
LEMMA RetainedStep ==
    ASSUME TypeOK, OutboxInv, PubInv, OfflineInv, BitInv, RetainedInv, Next
    PROVE  RetainedInv'
  <1> SUFFICES ASSUME ~strays', session' = "up",
                      handler'.at \notin {"connected", "connected_request"},
                      ~requested', ~WebOff'
               PROVE  retained' = "online"
    BY DEF RetainedInv
  <1>0. ~strays
    BY StraysStay
  <1>1. ~LibConnects
    BY DEF LibConnects, IdleHandler
  <1>2. session = "up" /\ ~WebOff /\ (retained' = retained \/ retained' = "online")
    BY <1>1, RetainedMoves
  <1>3. ~RequestAvailability
    BY DEF RequestAvailability
  <1>4. handler.at \notin {"connected", "connected_request"}
    BY <1>3, RequestsFirst
  <1>5. CASE requested' = requested
    <2>1. ~requested
      BY <1>5, Zenon
    <2>2. retained = "online"
      BY <1>0, <1>2, <1>4, <2>1 DEF RetainedInv
    <2> QED
      BY <1>2, <2>2
  <1>6. CASE Settle
    <2>1. CASE ~requested
      <3>1. retained = "online"
        BY <1>0, <1>2, <1>4, <2>1 DEF RetainedInv
      <3> QED
        BY <1>2, <3>1
    <2>2. CASE requested
      <3>1. OnlineDone(pub["datalog"])
        BY <1>6, <2>2, Zenon DEF Settle
      <3>2. pub["datalog"].job = "online" /\ pub["datalog"].ok
        BY <3>1 DEF OnlineDone
      <3>3. Delivered(pub["datalog"].msg) /\ pub["datalog"].msg.kind = "online"
        BY <1>0, <3>2 DEF BitInv, PubInv, Publishers
      <3> QED
        BY <1>2, <3>3 DEF Delivered
    <2> QED
      BY <2>1, <2>2
  <1> QED
    BY <1>3, <1>5, <1>6, RequestMoves

-----------------------------------------------------------------------------
(* The rollback evidence and the first report of the time *)

\* What the steps do to the message that the rollback evidence waits for.
LEMMA RollbackMoves ==
    ASSUME TypeOK, PubInv, Next
    PROVE  \/ rollbackId' = rollbackId
           \/ rollbackId' = -1
           \/ Queues("rollback") /\ rollbackId' = nextId /\ handler'.at \notin PublishedSteps
  <1> USE DEF flags
  <1>1. CASE PublisherNext
    BY <1>1 DEF PublisherNext, TelemetryBegin, MaintenanceTick, SetConfig, Begin, PublishLock,
                SendTelemetry, MarkPending, SendAvailability, PublishDone, Settle, SwapBegin,
                SwapEnd
  <1>2. CASE ConnectedStatus
    <2>1. CASE NoStatusEvent
      BY <2>1 DEF NoStatusEvent
    <2>2. CASE StatusEvent(ConnectReason, handler.first /\ handler.timeKnown)
                /\ Return("connected_status")
      <3>1. handler'.at \notin PublishedSteps
        BY <2>2 DEF Return, IdleHandler, PublishedSteps
      <3>2. CASE ConnectReason = "rollback"
        <4>1. rollbackId' = nextId /\ CanQueue /\ Queue(Numbered("rollback")) /\ UNCHANGED broker
          BY <1>2, <2>2, <3>2 DEF StatusEvent, ConnectedStatus
        <4> QED
          BY <3>1, <4>1 DEF Queues
      <3>3. CASE ConnectReason # "rollback"
        BY <2>2, <3>3 DEF StatusEvent
      <3> QED
        BY <3>2, <3>3
    <2> QED
      BY <1>2, <2>1, <2>2 DEF ConnectedStatus
  <1>3. HandlerNext => rollbackId' = rollbackId \/ rollbackId' = -1 \/ ConnectedStatus
    BY DEF HandlerNext, OnConnected, RequestAvailability, ReserveTimeStatus, UndoReservation,
           OnDisconnected, Unconfirm, OnPublished, ComparePending, SetPuback, CompareRollback
  <1>4. CASE StatusTaskNext
    BY <1>4 DEF StatusTaskNext, StatusTaskLooks, StatusTaskPublishes, StatusTaskEnds,
                StatusEvent, NoStatusEvent
  <1>5. CASE WorldNext
    BY <1>5 DEF WorldNext, LibConnects, SessionBreaks, LibNoticesBreak, LibReceivesPuback,
                BrokerReceives, TimeBecomesValid
  <1> QED
    BY <1>1, <1>2, <1>3, <1>4, <1>5 DEF Next

\* The id that the evidence waits for stays one of a rollback event.
LEMMA RollbackStep ==
    ASSUME TypeOK, OutboxInv, PubInv, HeldInv, OfflineInv, AckedInv, ToldInv, RollbackInv, Next
    PROVE  RollbackInv'
  <1>n. nextId \in Nat \ {0} /\ nextId' \in Nat /\ nextId' >= nextId
    BY OutboxMoves, Lengths
  <1>0. rollbackId \in (1..nextId - 1) \union {-1}
    BY DEF RollbackInv, Ids
  <1>o. OutboxInv' /\ ToldInv'
    BY OutboxSteps, ToldStep
  <1>r. received \subseteq received'
    BY RetainedMoves
  <1>1. CASE rollbackId' = -1
    <2>1. \A i \in DOMAIN outbox' : outbox'[i].id # -1
      BY <1>n, <1>o DEF OutboxInv, Ids
    <2>2. Telling' => handler'.id # -1
      BY <1>n, <1>o DEF ToldInv, Ids
    <2> QED
      BY <1>1, <2>1, <2>2 DEF RollbackInv
  <1>2. CASE rollbackId' = rollbackId /\ rollbackId # -1
    <2>0. rollbackId \in Ids' /\ rollbackId # nextId
      <3>1. rollbackId \in 1..nextId - 1
        BY <1>0, <1>2
      <3>2. rollbackId # nextId
        BY <1>n, <3>1
      <3>3. rollbackId \in 1..nextId' - 1
        <4>1. \A a, b \in Nat : \A r \in 1..a - 1 : b >= a => r \in 1..b - 1
          OBVIOUS
        <4> QED
          BY <1>n, <3>1, <4>1
      <3> QED
        BY <3>2, <3>3 DEF Ids
    <2>1. \A i \in DOMAIN outbox' : outbox'[i].id = rollbackId => outbox'[i].kind = "rollback"
      BY <2>0, OutboxMoves DEF RollbackInv
    <2>2. ASSUME Telling', handler'.id = rollbackId
          PROVE  \E m \in received' : m.kind = "rollback"
      <3>1. CASE LibReceivesPuback
        <4>1. /\ handler'.id = acks[1] /\ acks[1] = outbox[1].id
              /\ 1 \in DOMAIN outbox /\ 1 \in DOMAIN acks
          <5>1. handler'.id = acks[1]
            BY <3>1, AckFacts DEF IdleHandler
          <5>2. acks[1] = outbox[1].id /\ 1 \in DOMAIN outbox /\ 1 \in DOMAIN acks
            BY <3>1, AckFacts, Lengths
          <5> QED
            BY <5>1, <5>2
        <4>2. outbox[1].kind = "rollback"
          BY <2>2, <4>1 DEF RollbackInv
        <4>3. outbox[1] \in received
          BY <4>1, <4>2 DEF AckedInv
        <4> QED
          BY <1>r, <4>2, <4>3
      <3>2. CASE handler' = handler \/ (Telling /\ handler'.id = handler.id)
        <4>1. Telling /\ handler.id = rollbackId
          BY <2>2, <3>2 DEF Telling
        <4> QED
          BY <1>r, <4>1 DEF RollbackInv
      <3> QED
        BY <2>2, <3>1, <3>2, TellingMoves
    <2> QED
      BY <1>2, <2>0, <2>1, <2>2 DEF RollbackInv
  <1>3. CASE Queues("rollback") /\ rollbackId' = nextId /\ handler'.at \notin PublishedSteps
    <2>0. "rollback" \in Kinds /\ Numbered("rollback").kind = "rollback"
      BY DEF Kinds, Numbered
    <2>1. /\ DOMAIN outbox' = 1..Len(outbox) + 1
          /\ \A i \in 1..Len(outbox) : outbox'[i] = outbox[i]
          /\ outbox'[Len(outbox) + 1] = Numbered("rollback")
          /\ nextId' = nextId + 1
      BY <1>3, <2>0, QueueFacts
    <2>2. ASSUME NEW i \in DOMAIN outbox', outbox'[i].id = nextId
          PROVE  outbox'[i].kind = "rollback"
      <3>1. i \in 1..Len(outbox) \/ i = Len(outbox) + 1
        BY <2>1, Lengths
      <3>2. CASE i \in 1..Len(outbox)
        <4>1. outbox[i].id \in 1..nextId - 1
          BY <3>2, Lengths DEF OutboxInv, Ids
        <4> QED
          BY <1>n, <2>1, <2>2, <3>2, <4>1
      <3> QED
        BY <2>0, <2>1, <3>1, <3>2
    <2>3. nextId \in Ids'
      BY <1>n, <2>1 DEF Ids
    <2>4. ~Telling'
      BY <1>3 DEF Telling
    <2> QED
      BY <1>3, <2>2, <2>3, <2>4 DEF RollbackInv
  <1> QED
    BY <1>0, <1>1, <1>2, <1>3, RollbackMoves

\* What the steps do to the reports of the time.
LEMMA TimeMoves ==
    ASSUME TypeOK, Next
    PROVE  \/ /\ UNCHANGED <<timeEvents, everConnected, timePublished, statusTask>>
              /\ Reserving' => Reserving
           \/ ReserveTimeStatus
           \/ /\ UNCHANGED <<everConnected, timePublished, statusTask>>
              /\ handler.first /\ handler.timeKnown /\ handler.at = "connected_status"
              /\ \/ timeEvents' = timeEvents + 1 /\ ~Reserving'
                 \/ timeEvents' = timeEvents
           \/ UndoReservation
           \/ StatusTaskLooks \/ StatusTaskPublishes \/ StatusTaskEnds
  <1> DEFINE Same == /\ UNCHANGED <<timeEvents, everConnected, timePublished, statusTask>>
                     /\ Reserving' => Reserving
             Calm == UNCHANGED <<timeEvents, everConnected, timePublished, statusTask>>
  <1>0. handler \in HandlerRecord
    BY DEF TypeOK, HandlerRecord
  <1>h. handler' = handler => (Reserving' => Reserving)
    BY DEF Reserving
  <1>a. handler'.at \notin {"connected_undo", "connected_status"} => ~Reserving'
    BY DEF Reserving
  <1> USE DEF flags, status, history
  <1>1. CASE PublisherNext
    <2>1. Calm /\ handler' = handler
      BY <1>1 DEF PublisherNext, TelemetryBegin, MaintenanceTick, SetConfig, Begin, PublishLock,
                  SendTelemetry, MarkPending, SendAvailability, PublishDone, Settle, SwapBegin,
                  SwapEnd
    <2> QED
      BY <1>h, <2>1
  <1>2. CASE WorldNext
    <2>1. Calm
      BY <1>2 DEF WorldNext, LibConnects, SessionBreaks, LibNoticesBreak, LibReceivesPuback,
                  BrokerReceives, TimeBecomesValid
    <2>2. handler' = handler \/ handler'.at \in {"connected", "disconnected", "published"}
      BY <1>2 DEF WorldNext, LibConnects, SessionBreaks, LibNoticesBreak, LibReceivesPuback,
                  BrokerReceives, TimeBecomesValid, IdleHandler
    <2> QED
      BY <1>a, <1>h, <2>1, <2>2
  <1>3. CASE OnConnected \/ OnDisconnected \/ OnPublished \/ ComparePending \/ SetPuback
    <2>1. Calm
      BY <1>3 DEF OnConnected, OnDisconnected, OnPublished, ComparePending, SetPuback
    <2>2. handler'.at \notin {"connected_undo", "connected_status"}
      BY <1>0, <1>3 DEF OnConnected, OnDisconnected, OnPublished, ComparePending, SetPuback,
                        Goto, HandlerRecord
    <2> QED
      BY <1>a, <2>1, <2>2
  <1>4. CASE RequestAvailability
    <2>1. Calm /\ handler' = [handler EXCEPT !.at = "connected_first", !.timeKnown = timeValid]
      BY <1>4 DEF RequestAvailability
    <2>2. handler'.at = "connected_first"
      BY <1>0, <2>1 DEF HandlerRecord
    <2> QED
      BY <1>a, <2>1, <2>2
  <1>5. CASE Unconfirm \/ CompareRollback
    <2>1. Calm /\ handler' = IdleHandler
      BY <1>5 DEF Unconfirm, CompareRollback, Return
    <2> QED
      BY <1>a, <2>1 DEF IdleHandler
  <1>6. CASE ConnectedStatus
    <2> DEFINE first == handler.first /\ handler.timeKnown
    <2>1. /\ \/ StatusEvent(ConnectReason, first) /\ Return("connected_status")
             \/ NoStatusEvent /\ first /\ Goto("connected_status", "connected_undo")
             \/ NoStatusEvent /\ ~first /\ Return("connected_status")
          /\ UNCHANGED <<everConnected, timePublished, statusTask>>
      BY <1>6 DEF ConnectedStatus
    <2>2. CASE Return("connected_status")
      <3>1. ~Reserving' /\ handler.at = "connected_status"
        BY <1>a, <2>2 DEF Return, IdleHandler
      <3>2. \/ timeEvents' = timeEvents
            \/ timeEvents' = timeEvents + 1 /\ first
        BY <2>1 DEF StatusEvent, NoStatusEvent
      <3>3. CASE timeEvents' = timeEvents
        BY <2>1, <3>1, <3>3
      <3>4. CASE timeEvents' = timeEvents + 1 /\ first
        BY <2>1, <3>1, <3>4
      <3> QED
        BY <3>2, <3>3, <3>4
    <2>3. CASE NoStatusEvent /\ first /\ Goto("connected_status", "connected_undo")
      <3>1. timeEvents' = timeEvents
        BY <2>3 DEF NoStatusEvent
      <3> QED
        BY <2>1, <2>3, <3>1 DEF Goto
    <2> QED
      BY <2>1, <2>2, <2>3
  <1> QED
    BY <1>1, <1>2, <1>3, <1>4, <1>5, <1>6 DEF Next, HandlerNext, StatusTaskNext

\* The reservation of the first report of the time stays exclusive.
LEMMA TimeStep ==
    ASSUME TypeOK, TimeInv, Next
    PROVE  TimeInv'
  <1>0. handler \in HandlerRecord
    BY DEF TypeOK, HandlerRecord
  <1>h. handler' = handler => (Reserving' <=> Reserving)
    BY DEF Reserving
  <1>1. CASE /\ UNCHANGED <<timeEvents, everConnected, timePublished, statusTask>>
             /\ Reserving' => Reserving
    BY <1>1 DEF TimeInv
  <1>2. CASE ReserveTimeStatus
    <2>1. /\ handler' = [handler EXCEPT !.at = "connected_status", !.first = ~everConnected]
          /\ timePublished' = (timePublished \/ Reserved) /\ everConnected' = TRUE
          /\ UNCHANGED <<timeEvents, statusTask>>
      BY <1>2 DEF ReserveTimeStatus, history
    <2>2. Reserving' => ~everConnected /\ handler.timeKnown
      <3>1. /\ handler'.at = "connected_status" /\ handler'.first = ~everConnected
            /\ handler'.timeKnown = handler.timeKnown
        BY <1>0, <2>1 DEF HandlerRecord
      <3> QED
        BY <3>1, Zenon DEF Reserving
    <2>3. timePublished => timePublished'
      BY <2>1, Zenon
    <2>4. ~everConnected /\ handler.timeKnown => timePublished'
      BY <2>1, Zenon DEF Reserved
    <2> QED
      BY <2>1, <2>2, <2>3, <2>4 DEF TimeInv
  <1>3. CASE /\ UNCHANGED <<everConnected, timePublished, statusTask>>
             /\ handler.first /\ handler.timeKnown /\ handler.at = "connected_status"
             /\ \/ timeEvents' = timeEvents + 1 /\ ~Reserving'
                \/ timeEvents' = timeEvents
    <2>1. Reserving
      BY <1>3 DEF Reserving
    <2> QED
      BY <1>3, <2>1 DEF TimeInv
  <1>4. CASE UndoReservation
    <2>1. /\ Reserving /\ ~Reserving' /\ timePublished' = FALSE
          /\ UNCHANGED <<timeEvents, everConnected, statusTask>>
      BY <1>4 DEF UndoReservation, Reserving, Return, IdleHandler, history
    <2> QED
      BY <2>1 DEF TimeInv
  <1>5. CASE StatusTaskLooks
    <2>1. /\ statusTask = "look" /\ everConnected /\ ~timePublished /\ statusTask' = "publish"
          /\ handler' = handler
          /\ UNCHANGED <<timeEvents, everConnected, timePublished>>
      BY <1>5 DEF StatusTaskLooks, history
    <2> QED
      BY <1>h, <2>1 DEF TimeInv
  <1>6. CASE StatusTaskPublishes
    <2>1. /\ statusTask = "publish" /\ handler' = handler
          /\ UNCHANGED <<everConnected, timePublished>>
          /\ \/ timeEvents' = timeEvents + 1 /\ statusTask' = "record"
             \/ timeEvents' = timeEvents /\ statusTask' = "look"
      BY <1>6 DEF StatusTaskPublishes, StatusEvent, NoStatusEvent
    <2> QED
      BY <1>h, <2>1 DEF TimeInv
  <1>7. CASE StatusTaskEnds
    <2>1. /\ statusTask = "record" /\ handler' = handler /\ timePublished' = TRUE
          /\ statusTask' = "deleted" /\ UNCHANGED <<timeEvents, everConnected>>
      BY <1>7 DEF StatusTaskEnds, history
    <2> QED
      BY <1>h, <2>1 DEF TimeInv
  <1> QED
    BY <1>1, <1>2, <1>3, <1>4, <1>5, <1>6, <1>7, TimeMoves

-----------------------------------------------------------------------------
(* Theorems *)

\* Only what the broker received is counted.
LEMMA SuccessStep ==
    ASSUME TypeOK, OutboxInv, PubInv, OfflineInv, BitInv, SuccessMeansReceived, Next
    PROVE  SuccessMeansReceived'
  <1> SUFFICES ASSUME ~strays' PROVE counted' \subseteq received'
    BY DEF SuccessMeansReceived
  <1>0. ~strays
    BY StraysStay
  <1>1. counted \subseteq received /\ received \subseteq received'
    BY <1>0, RetainedMoves DEF SuccessMeansReceived
  <1>2. CASE counted' = counted
    BY <1>1, <1>2
  <1>3. CASE Settle
    <2> DEFINE d == pub["datalog"]
    <2>1. counted' = IF d.ok /\ d.job = "telemetry" THEN counted \union {d.msg} ELSE counted
      BY <1>3 DEF Settle
    <2>2. d.ok /\ d.job = "telemetry" => d.msg \in received
      BY <1>0 DEF BitInv, Delivered, PubInv, Publishers
    <2> QED
      BY <1>1, <2>1, <2>2
  <1>4. counted' = counted \/ Settle
    <2> USE DEF history
    <2>1. CASE PublisherNext
      BY <2>1 DEF PublisherNext, TelemetryBegin, MaintenanceTick, SetConfig, Begin, PublishLock,
                  SendTelemetry, MarkPending, SendAvailability, PublishDone, SwapBegin, SwapEnd
    <2>2. CASE HandlerNext
      BY <2>2 DEF HandlerNext, OnConnected, RequestAvailability, ReserveTimeStatus,
                  ConnectedStatus, UndoReservation, OnDisconnected, Unconfirm, OnPublished,
                  ComparePending, SetPuback, CompareRollback
    <2>3. CASE StatusTaskNext
      BY <2>3 DEF StatusTaskNext, StatusTaskLooks, StatusTaskPublishes, StatusTaskEnds
    <2>4. CASE WorldNext
      BY <2>4 DEF WorldNext, LibConnects, SessionBreaks, LibNoticesBreak, LibReceivesPuback,
                  BrokerReceives, TimeBecomesValid
    <2> QED
      BY <2>1, <2>2, <2>3, <2>4 DEF Next
  <1> QED
    BY <1>2, <1>3, <1>4

\* The invariant holds at first.
LEMMA InitInv ==
    ASSUME Init
    PROVE  IInv
  <1>1. /\ mutex = FALSE /\ pubMutex = "none" /\ evPuback = FALSE /\ pendingId = -1
        /\ connected = FALSE /\ rollbackId = -1 /\ requested = FALSE /\ confirmed = FALSE
        /\ everConnected = FALSE /\ timePublished = FALSE /\ statusTask = "look"
        /\ pub = [p \in Publishers |-> IdlePublisher] /\ handler = IdleHandler
        /\ evidence \in BOOLEAN /\ timeValid = FALSE
        /\ swaps = 0 /\ session = "down" /\ nextId = 1
        /\ outbox = <<>> /\ wire = <<>> /\ acks = <<>>
        /\ retained = "offline" /\ received = {} /\ drops = 0
        /\ counted = {} /\ strays = FALSE /\ timeEvents = 0
    BY DEF Init
  <1>2. IdleHandler \in HandlerRecord /\ IdlePublisher \in PubRecord
        /\ IdlePublisher.at = "idle" /\ IdlePublisher.ok = FALSE /\ IdlePublisher.job = "none"
        /\ IdleHandler.at = "idle"
    BY HandlerType, MessageTypes DEF IdlePublisher, IdleHandler
  <1>3. \A p \in Publishers : pub[p] = IdlePublisher
    BY <1>1
  <1>w. "web" \in Publishers /\ "none" \notin Publishers
    BY DEF Publishers
  <1>4. PubType
    BY <1>1, <1>2, <1>3, <1>w DEF PubType
  <1>r. -1 \in -1..MaxId /\ 0 \in 0..MaxDrops
    BY LimitsAssumption
  <1>5. FlagType
    BY <1>1, <1>r DEF FlagType
  <1>6. LibraryType
    BY <1>1, EmptySeq, LimitsAssumption DEF LibraryType
  <1>7. OtherType
    <2>1. handler \in [at : HandlerSteps, id : -1..MaxId, first : BOOLEAN, timeKnown : BOOLEAN]
      BY <1>1, <1>2 DEF HandlerRecord
    <2> QED
      BY <1>1, <1>r, <2>1 DEF OtherType
  <1>8. TypeOK
    BY <1>4, <1>5, <1>6, <1>7, TypeParts
  <1>9. OutboxInv /\ OfflineInv /\ AckedInv
    BY <1>1 DEF OutboxInv, OfflineInv, AckedInv
  <1>10. PubInv /\ HeldInv /\ PendingInv
    BY <1>1, <1>2, <1>3 DEF PubInv, HeldInv, PendingInv
  <1>11. ToldInv /\ BitInv /\ RetainedInv
    BY <1>1, <1>2, <1>3 DEF ToldInv, BitInv, RetainedInv, Telling, PublishedSteps
  <1>12. SuccessMeansReceived /\ RollbackInv
    BY <1>1, <1>2 DEF SuccessMeansReceived, RollbackInv, Telling, PublishedSteps
  <1>13. TimeInv
    BY <1>1, <1>2 DEF TimeInv, Reserving
  <1> QED
    BY <1>8, <1>9, <1>10, <1>11, <1>12, <1>13 DEF IInv

\* Every step keeps the invariant.
LEMMA NextInv ==
    ASSUME IInv, Next
    PROVE  IInv'
  <1> USE DEF IInv
  <1>1. TypeOK'
    BY TypeStep
  <1>2. OutboxInv' /\ PubInv' /\ HeldInv'
    BY OutboxSteps, PubInvStep, HeldInvStep
  <1>3. OfflineInv' /\ AckedInv' /\ ToldInv'
    BY OfflineStep, AckedStep, ToldStep
  <1>4. PendingInv' /\ BitInv' /\ RetainedInv'
    BY PendingStep, BitStep, RetainedStep
  <1>5. SuccessMeansReceived' /\ RollbackInv' /\ TimeInv'
    BY SuccessStep, RollbackStep, TimeStep
  <1> QED
    BY <1>1, <1>2, <1>3, <1>4, <1>5

\* So does a step in which nothing happens.
LEMMA StutterInv ==
    ASSUME IInv, UNCHANGED vars
    PROVE  IInv'
  BY DEF IInv, vars, publishing, locks, ack, availability, status, world, library, broker,
         history, flags, net, TypeOK, OutboxInv, PubInv, HeldInv, OfflineInv, AckedInv, ToldInv,
         PendingInv, BitInv, RetainedInv, SuccessMeansReceived, RollbackInv, TimeInv,
         Ids, Telling, Deciding, WebOff, Delivered, Awaited, Reserving

\* Nothing that the four tasks, the library and the broker do breaks the invariant.
THEOREM Invariance == Spec => []IInv
  <1>1. IInv /\ [Next]_vars => IInv'
    BY NextInv, StutterInv
  <1> QED
    BY <1>1, InitInv, PTL DEF Spec

\* Every variable of mqtt.c's session keeps its type, and the mutexes agree with the tasks.
THEOREM TypeCorrect == Spec => []TypeOK
  <1>1. IInv => TypeOK
    BY DEF IInv
  <1> QED
    BY <1>1, Invariance, PTL

\* mqtt_publish_telemetry reports success only for what the broker has received, for any
\* outbox and any number of lost sessions, unless a publisher gave up just before its bit.
THEOREM CountedTruly == Spec => []SuccessMeansReceived
  <1>1. IInv => SuccessMeansReceived
    BY DEF IInv
  <1> QED
    BY <1>1, Invariance, PTL

\* A device that has settled shows as online, whatever was published or lost before.
THEOREM ShownOnline == Spec => []SettledOnline
  <1>1. IInv => SettledOnline
    BY DEF IInv, RetainedInv, SettledOnline, WebOff, Publishers
  <1> QED
    BY <1>1, Invariance, PTL

\* Rollback evidence is cleared by the handler alone, for the message that told of it.
LEMMA EvidenceStep ==
    ASSUME IInv, [Next]_vars, evidence, ~evidence'
    PROVE  \E m \in received : m.kind = "rollback"
  <1>1. evidence' # evidence
    BY Zenon
  <1>2. Next
    BY <1>1 DEF vars, flags, world
  <1>3. CompareRollback
    <2> USE DEF flags, world
    <2>1. ~PublisherNext
      BY <1>1 DEF PublisherNext, TelemetryBegin, MaintenanceTick, SetConfig, Begin, PublishLock,
                  SendTelemetry, MarkPending, SendAvailability, PublishDone, Settle, SwapBegin,
                  SwapEnd
    <2>2. HandlerNext => CompareRollback
      BY <1>1 DEF HandlerNext, OnConnected, RequestAvailability, ReserveTimeStatus,
                  ConnectedStatus, UndoReservation, OnDisconnected, Unconfirm, OnPublished,
                  ComparePending, SetPuback
    <2>3. ~StatusTaskNext
      BY <1>1 DEF StatusTaskNext, StatusTaskLooks, StatusTaskPublishes, StatusTaskEnds
    <2>4. ~WorldNext
      BY <1>1 DEF WorldNext, LibConnects, SessionBreaks, LibNoticesBreak, LibReceivesPuback,
                  BrokerReceives, TimeBecomesValid
    <2> QED
      BY <1>2, <2>1, <2>2, <2>3, <2>4 DEF Next
  <1>4. handler.at = "published_rollback" /\ handler.id = rollbackId
    BY <1>1, <1>3 DEF CompareRollback, Return, ForRollback
  <1> QED
    BY <1>4 DEF IInv, RollbackInv, Telling, PublishedSteps

\* The first report of the time is queued at most once, and rollback evidence goes only
\* once the broker has a status event with it, for any number of connections.
THEOREM OwedOnce == Spec => OwedStatusOnce
  <1>1. IInv => timeEvents <= 1
    BY DEF IInv, TimeInv
  <1>2. IInv /\ [Next]_vars
          => [evidence /\ ~evidence' => \E m \in received : m.kind = "rollback"]_vars
    BY EvidenceStep
  <1> QED
    BY <1>1, <1>2, Invariance, PTL DEF Spec, OwedStatusOnce
=============================================================================
