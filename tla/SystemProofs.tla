---------------------------- MODULE SystemProofs ----------------------------
(***************************************************************************)
(* Theorems about the family of module System.                             *)
(*                                                                         *)
(* FamilyInv says that hub, clients and wire fit together: the hub's own   *)
(* invariants, the types of what the clients hold and of the frames under  *)
(* way, that all names on one connection are one name (OneSpeaker), that a *)
(* socket the hub reads no more has nothing left to read (Drained), and    *)
(* that a client acks only what it has taken and sends only what is its    *)
(* own (Honest).  On top of it, Roster and Feed follow a sender from the   *)
(* hub's member list to the client's.                                      *)
(***************************************************************************)
EXTENDS System, HubProofs

-----------------------------------------------------------------------------
(* Part 1.  The wire. *)

\* Some indices of a sequence, in ascending order.
LEMMA Places ==
    ASSUME NEW n \in Nat, NEW S \in SUBSET (1..n)
    PROVE  /\ Cardinality(S) \in Nat
           /\ DOMAIN InOrder(S, Less) = 1..Cardinality(S)
           /\ \A k \in 1..Cardinality(S) : InOrder(S, Less)[k] \in S
           /\ \A j, k \in 1..Cardinality(S) : j < k => InOrder(S, Less)[j] < InOrder(S, Less)[k]
           /\ \A i \in S : \E k \in 1..Cardinality(S) : InOrder(S, Less)[k] = i
  <1> DEFINE below == [i \in S |-> {j \in S : Less(j, i)}]
             rank(i) == Cardinality({j \in S : Less(j, i)})
             m == Cardinality(S)
             place == InOrder(S, Less)
  <1>1. IsFiniteSet(S) /\ m \in Nat
    <2>1. IsFiniteSet(1..n)
      BY FS_Interval
    <2> QED
      BY <2>1, FS_Subset, FS_CardinalityType
  <1>2. /\ below \in [S -> SUBSET S]
        /\ \A i \in S : i \notin below[i]
        /\ \A i, j \in S : i # j => i \in below[j] \/ j \in below[i]
        /\ \A i, j, k \in S : i \in below[j] /\ j \in below[k] => i \in below[k]
        /\ \A i, j \in S : i \in below[j] <=> i < j
    BY DEF Less
  <1>3. \A i \in S : rank(i) = Cardinality(below[i])
    OBVIOUS
  <1> HIDE DEF below
  <1>4. /\ \A i \in S : Cardinality(below[i]) \in 0..(m - 1)
        /\ \A i, j \in S : i \in below[j] <=> Cardinality(below[i]) < Cardinality(below[j])
        /\ \A k \in 1..m : \E i \in S : Cardinality(below[i]) = k - 1
    BY <1>1, <1>2, Ranks
  <1> HIDE DEF rank, m
  <1>5. DOMAIN place = 1..m /\ \A k \in 1..m : place[k] = CHOOSE i \in S : rank(i) = k - 1
    BY DEF InOrder, m, rank
  <1> HIDE DEF place
  <1>6. \A k \in 1..m : \E i \in S : rank(i) = k - 1
    BY <1>3, <1>4
  <1>7. \A k \in 1..m : place[k] \in S /\ rank(place[k]) = k - 1
    BY <1>5, <1>6
  <1>8. \A i, j \in S : rank(i) < rank(j) <=> i < j
    BY <1>2, <1>3, <1>4
  <1>9. \A i \in S : rank(i) \in 0..(m - 1)
    BY <1>3, <1>4
  <1>10. \A j, k \in 1..m : j < k => place[j] < place[k]
    <2> SUFFICES ASSUME NEW j \in 1..m, NEW k \in 1..m, j < k PROVE place[j] < place[k]
      OBVIOUS
    <2>1. rank(place[j]) < rank(place[k])
      BY <1>1, <1>7
    <2> QED
      BY <1>7, <1>8, <2>1
  <1>11. ASSUME NEW i \in S PROVE \E k \in 1..m : place[k] = i
    <2>1. rank(i) + 1 \in 1..m /\ (rank(i) + 1) - 1 = rank(i)
      BY <1>1, <1>9
    <2>2. place[rank(i) + 1] \in S /\ rank(place[rank(i) + 1]) = rank(i)
      BY <1>7, <2>1
    <2>3. place[rank(i) + 1] = i
      <3>1. \A j, k \in S : rank(j) = rank(k) => j = k
        BY <1>1, <1>2, <1>3, <1>4
      <3> QED
        BY <2>2, <3>1
    <2> QED
      BY <2>1, <2>3
  <1> QED
    BY <1>1, <1>5, <1>7, <1>10, <1>11 DEF m, place

\* On the wire are the heeded frames of the step, in their order.
LEMMA WireFrames ==
    ASSUME NEW frames, Listing(frames)
    PROVE  /\ Listing(OnWire(frames))
           /\ \A k \in DOMAIN OnWire(frames) : \E i \in DOMAIN frames :
                 Heeded(frames[i]) /\ OnWire(frames)[k] = Wired(frames[i])
           /\ 1 \in DOMAIN frames /\ Heeded(frames[1]) =>
                 /\ 1 \in DOMAIN OnWire(frames) /\ OnWire(frames)[1] = Wired(frames[1])
                 /\ \A k \in DOMAIN OnWire(frames) \ {1} : \E i \in DOMAIN frames \ {1} :
                       Heeded(frames[i]) /\ OnWire(frames)[k] = Wired(frames[i])
  <1> DEFINE S == {i \in DOMAIN frames : Heeded(frames[i])}
             m == Cardinality(S)
             place == InOrder(S, Less)
             wire1 == OnWire(frames)
             heeded == KeptAt(frames, S)
  <1>1. Len(frames) \in Nat /\ DOMAIN frames = 1..Len(frames)
    BY DEF Listing
  <1>2. S \in SUBSET (1..Len(frames))
    BY <1>1
  <1>3. S \in SUBSET DOMAIN frames /\ \A i \in S : Heeded(frames[i])
    OBVIOUS
  <1>4. \A i \in DOMAIN frames : Heeded(frames[i]) => i \in S
    OBVIOUS
  <1>5. wire1 = [k \in DOMAIN heeded |-> Wired(heeded[k])]
    BY DEF OnWire
  <1>6. heeded = [k \in DOMAIN place |-> frames[place[k]]]
    BY DEF KeptAt
  <1> HIDE DEF S, wire1, heeded, place, m
  <1>7. /\ m \in Nat /\ DOMAIN place = 1..m
        /\ \A k \in 1..m : place[k] \in S
        /\ \A j, k \in 1..m : j < k => place[j] < place[k]
        /\ \A i \in S : \E k \in 1..m : place[k] = i
    BY <1>1, <1>2, Places DEF place, m
  <1>8. DOMAIN heeded = 1..m /\ \A k \in 1..m : heeded[k] = frames[place[k]]
    BY <1>6, <1>7
  <1>9. wire1 = [k \in 1..m |-> Wired(heeded[k])]
    BY <1>5, <1>8
  <1>10. DOMAIN wire1 = 1..m /\ \A k \in 1..m : wire1[k] = Wired(frames[place[k]])
    BY <1>8, <1>9
  <1>11. Listing(wire1)
    <2>1. wire1 = [k \in 1..m |-> wire1[k]]
      BY <1>9
    <2> QED
      BY <1>7, <1>10, <2>1, ListingOf
  <1>12. ASSUME 1 \in DOMAIN frames, Heeded(frames[1])
         PROVE  m >= 1 /\ place[1] = 1 /\ \A k \in 1..m : k # 1 => place[k] # 1
    <2>1. PICK k \in 1..m : place[k] = 1
      BY <1>4, <1>7, <1>12
    <2>2. \A j \in 1..m : place[j] \in Nat /\ place[j] >= 1
      <3>1. \A i \in S : i \in 1..Len(frames)
        BY <1>2
      <3>2. \A i \in S : i \in Nat /\ i >= 1
        BY <1>1, <3>1
      <3> QED
        BY <1>7, <3>2
    <2>3. m >= 1 /\ 1 \in 1..m
      BY <1>7
    <2>4. k = 1
      BY <1>7, <2>1, <2>2, <2>3
    <2> QED
      BY <1>7, <2>1, <2>2, <2>3, <2>4
  <1>13. \A k \in 1..m : \E i \in DOMAIN frames : Heeded(frames[i]) /\ wire1[k] = Wired(frames[i])
    BY <1>3, <1>7, <1>10
  <1>14. ASSUME 1 \in DOMAIN frames, Heeded(frames[1])
         PROVE  /\ 1 \in 1..m /\ wire1[1] = Wired(frames[1])
                /\ \A k \in 1..m \ {1} : \E i \in DOMAIN frames \ {1} :
                      Heeded(frames[i]) /\ wire1[k] = Wired(frames[i])
    <2>1. 1 \in 1..m
      BY <1>7, <1>12, <1>14
    <2>2. \A k \in (1..m) \ {1} : place[k] \in DOMAIN frames \ {1} /\ Heeded(frames[place[k]])
      BY <1>3, <1>7, <1>12, <1>14
    <2> QED
      BY <1>10, <1>12, <1>14, <2>1, <2>2
  <1> QED
    BY <1>10, <1>11, <1>13, <1>14 DEF wire1

-----------------------------------------------------------------------------
(* Part 2.  What the hub writes to a client. *)

Code == {"UNSUPPORTED_VERSION", "BAD_REQUEST", "UNKNOWN_DEVICE", "AUTH_FAILED", "RATE_LIMITED"}

\* The frames of toPeer.
PeerFrame ==
    [t : {"challenge"}] \cup [t : {"error"}, code : Code] \cup
    [t : {"welcome"}, members : SUBSET Device] \cup
    [t : {"sent"}, msgId : Msg, recvAt : 0..MaxClock] \cup
    [t : {"deliver"}, msgId : Msg, from : Device, recvAt : 0..MaxClock]

\* A frame that neither lists members nor delivers or confirms a message.
Notice(f) == IF Heeded(f) THEN f \in PeerFrame /\ f.t \notin {"welcome", "deliver", "sent"}
             ELSE f.t # "welcome" /\ f.t # "deliver"

\* A row of the queue on its way to the device that is registered on t.
Letter(t, f) == \E r \in outbox' : conns'[r.to] = t /\ f = DeliverFrame(r)

\* What one step writes on t ...
Ordinary(t) ==
    /\ Listing(out'[t])
    /\ \A i \in DOMAIN out'[t] : Notice(out'[t][i]) \/ Letter(t, out'[t][i])

\* ... or in answer to a message ...
Answered(t) == \E m \in Msg, at \in 0..MaxClock : out'[t] = <<SentFrame(m, at)>>

\* ... or after a welcome that lists what the connection's fingerprint covers.
Headed(t) ==
    /\ Listing(out'[t]) /\ 1 \in DOMAIN out'[t]
    /\ \E d \in Device : conns'[d] = t /\ out'[t][1] = WelcomeFrame(d, conns')
    /\ conn'[t].fp = devices /\ devices' = devices
    /\ \A i \in DOMAIN out'[t] \ {1} : Notice(out'[t][i]) \/ Letter(t, out'[t][i])

\* Whoever is registered on t was so before, with the same list.
SameList(t) == \A d \in Device : conns'[d] = t => conns[d] = t /\ conn'[t].fp = conn[t].fp

\* What is written to somebody who did not send a message, and to anybody.
Unasked(t) == \/ Headed(t)
              \/ Ordinary(t) /\ (ready[t] = "open" => SameList(t))

News(t) == \/ Unasked(t)
           \/ Answered(t) /\ (ready[t] = "open" => SameList(t))

\* The one is a case of the other.
LEMMA UnaskedNews == \A t \in Sock : Unasked(t) => News(t)
  BY DEF News

\* Replies of a frame or two.
LEMMA NoticeOf ==
    /\ \A c \in Code : Notice(Error(c))
    /\ Notice([t |-> "challenge"])
    /\ Notice([t |-> "pong"])
    /\ \A d, b : Notice(PresenceFrame(d, b))
    /\ \A m, d : Notice(ReceiptFrame(m, d))
  <1>1. \A c \in Code : Notice(Error(c))
    BY DEF Notice, Error, Heeded, PeerFrame
  <1>2. Notice([t |-> "challenge"]) /\ Notice([t |-> "pong"])
    BY DEF Notice, Heeded, PeerFrame
  <1>3. \A d, b : Notice(PresenceFrame(d, b))
    BY DEF Notice, PresenceFrame, Heeded
  <1>4. \A m, d : Notice(ReceiptFrame(m, d))
    BY DEF Notice, ReceiptFrame, Heeded
  <1> QED
    BY <1>1, <1>2, <1>3, <1>4

\* A handler that writes nothing, or a notice or two, writes nothing out of the
\* ordinary ...
LEMMA ShortOrdinary ==
    ASSUME NEW t \in Sock
    PROVE  /\ out'[t] = <<>> => Ordinary(t)
           /\ \A x : Notice(x) /\ out'[t] = <<x>> => Ordinary(t)
           /\ \A x, y : Notice(x) /\ Notice(y) /\ out'[t] = <<x, y>> => Ordinary(t)
  <1>1. \A x : DOMAIN <<x>> = {1}
    OBVIOUS
  <1>2. \A x, y : DOMAIN <<x, y>> = {1, 2}
    OBVIOUS
  <1>3. DOMAIN <<>> = {}
    OBVIOUS
  <1>4. out'[t] = <<>> => Ordinary(t)
    BY <1>3, ShortListings DEF Ordinary
  <1>5. \A x : Notice(x) /\ out'[t] = <<x>> => Ordinary(t)
    BY <1>1, ShortListings DEF Ordinary
  <1>6. \A x, y : Notice(x) /\ Notice(y) /\ out'[t] = <<x, y>> => Ordinary(t)
    BY <1>2, ShortListings DEF Ordinary
  <1> QED
    BY <1>4, <1>5, <1>6

\* ... neither on the socket it answers nor on the others.
LEMMA ReplyOrdinary ==
    ASSUME NEW s \in Sock, NEW t \in Sock
    PROVE  /\ \A x : Notice(x) /\ Reply(s, <<x>>) => Ordinary(t)
           /\ \A x, y : Notice(x) /\ Notice(y) /\ Reply(s, <<x, y>>) => Ordinary(t)
           /\ Quiet => Ordinary(t)
  <1>1. \A x : Reply(s, <<x>>) => out'[t] = <<x>> \/ out'[t] = <<>>
    BY DEF Reply, Emit
  <1>2. \A x, y : Reply(s, <<x, y>>) => out'[t] = <<x, y>> \/ out'[t] = <<>>
    BY DEF Reply, Emit
  <1>3. Quiet => out'[t] = <<>>
    BY DEF Quiet
  <1> QED
    BY <1>1, <1>2, <1>3, ShortOrdinary

\* The codes of a refused handshake.
LEMMA Verdicts ==
    /\ \A f : HelloVerdict(f) # "OK" => HelloVerdict(f) \in Code
    /\ \A d, f, n : AuthVerdict(d, f, n) # "OK" => AuthVerdict(d, f, n) \in Code
  <1>1. \A f : HelloVerdict(f) # "OK" => HelloVerdict(f) \in Code
    BY DEF HelloVerdict, Code
  <1>2. \A d, f, n : AuthVerdict(d, f, n) # "OK" => AuthVerdict(d, f, n) \in Code
    BY DEF AuthVerdict, Code
  <1> QED
    BY <1>1, <1>2

\* One frame of a handshake.
LEMMA HandshakeNews ==
    ASSUME Inv, NEW s \in Sock, NEW t \in Sock,
           \/ OnUnexpected(s) \/ AuthWithoutHello(s)
           \/ \E f \in HelloFrames : HelloRefused(s, f) \/ HelloAccepted(s, f)
           \/ \E f \in AuthFrames : AuthRefused(s, f)
    PROVE  Ordinary(t)
  <1>1. "BAD_REQUEST" \in Code /\ "AUTH_FAILED" \in Code
    BY DEF Code
  <1>2. CASE OnUnexpected(s) \/ AuthWithoutHello(s)
    BY <1>1, <1>2, NoticeOf, ReplyOrdinary DEF OnUnexpected, AuthWithoutHello
  <1>3. ASSUME NEW f \in HelloFrames, HelloRefused(s, f)
        PROVE  Ordinary(t)
    <2>1. HelloVerdict(f) \in Code
      BY <1>3, Verdicts DEF HelloRefused
    <2>2. \/ Reply(s, <<Error(HelloVerdict(f)), Error("BAD_REQUEST")>>)
          \/ Reply(s, <<Error(HelloVerdict(f))>>)
      BY <1>3 DEF HelloRefused
    <2>3. Notice(Error(HelloVerdict(f))) /\ Notice(Error("BAD_REQUEST"))
      BY <1>1, <2>1, NoticeOf
    <2> QED
      BY <2>2, <2>3, ReplyOrdinary
  <1>4. ASSUME NEW f \in HelloFrames, HelloAccepted(s, f)
        PROVE  Ordinary(t)
    BY <1>4, NoticeOf, ReplyOrdinary DEF HelloAccepted
  <1>5. ASSUME NEW f \in AuthFrames, AuthRefused(s, f)
        PROVE  Ordinary(t)
    <2> DEFINE v == AuthVerdict(conn[s].pending, f, conn[s].nonce)
    <2>1. v \in Code /\ Reply(s, <<Error(v)>>)
      BY <1>5, Verdicts DEF AuthRefused
    <2> HIDE DEF v
    <2>2. Notice(Error(v))
      BY <2>1, NoticeOf
    <2> QED
      BY <2>1, <2>2, ReplyOrdinary
  <1> QED
    BY <1>2, <1>3, <1>4, <1>5

\* The receipts of an ack.
LEMMA AckNews ==
    ASSUME TableInv, NEW s \in Sock, NEW ids, HandleAck(s, ids), NEW t \in Sock
    PROVE  Ordinary(t)
  <1> DEFINE d == conn[s].deviceId
             rows == {r \in Acked(d, ids) : conns[r.from] = t}
             list == InOrder(rows, Before)
             receipts == [i \in DOMAIN list |-> ReceiptFrame(list[i].msg, d)]
  <1>1. out'[t] = IF ready[t] = "open" THEN receipts ELSE <<>>
    BY DEF HandleAck, Emit
  <1>2. IsFiniteSet(rows)
    BY FS_Subset DEF TableInv, Table, Acked, Queue
  <1>3. Cardinality(rows) \in Nat
    BY <1>2, FS_CardinalityType
  <1>4. DOMAIN list = 1..Cardinality(rows)
    BY DEF InOrder
  <1> HIDE DEF rows, list
  <1>5. \A i \in DOMAIN receipts : Notice(receipts[i])
    BY NoticeOf
  <1>6. DOMAIN receipts = 1..Cardinality(rows)
        /\ receipts = [i \in 1..Cardinality(rows) |-> receipts[i]]
    BY <1>4
  <1> HIDE DEF receipts
  <1>7. Listing(receipts)
    BY <1>3, <1>6, ListingOf
  <1>8. CASE ready[t] = "open"
    <2>1. out'[t] = receipts
      BY <1>1, <1>8
    <2> QED
      BY <1>5, <1>7, <2>1 DEF Ordinary
  <1>9. CASE ready[t] # "open"
    BY <1>1, <1>9, ShortOrdinary
  <1> QED
    BY <1>8, <1>9

\* handleSend confirms, and pushes to each target the rows that wait for it.
LEMMA SendNews ==
    ASSUME Inv, TableInv, NEW s \in Sock, conn[s].authed, NEW m \in Msg,
           NEW to \in SUBSET Device, NEW now \in 0..MaxClock, HandleSend(s, m, to, now),
           NEW t \in Sock
    PROVE  Ordinary(t) \/ (t = s /\ out'[t] = <<SentFrame(m, now)>>)
  <1> DEFINE d        == conn[s].deviceId
             accepted == Accepted(d, to)
             targets  == PushTargets(accepted)
             queued   == outbox \cup Inserted(d, m, accepted, now)
             pushed(e) == Pending(queued, e, TRUE)
             marked   == UNION {pushed(e) : e \in targets}
             rows     == pushed(conn[t].deviceId)
  <1>1. d \in Device
    BY DEF Inv, RegistryConsistent, TypeOK, ConnObject
  <1>2. outbox' = MarkDelivered(queued, marked) /\ conns' = conns
    BY DEF HandleSend
  <1>3. out'[t] = IF ready[t] = "open"
                  THEN IF t = s THEN <<SentFrame(m, now)>>
                       ELSE IF \E e \in targets : conns[e] = t THEN DeliverFrames(rows)
                       ELSE <<>>
                  ELSE <<>>
    BY DEF HandleSend, Emit
  <1>4. Table(queued) /\ queued \in SUBSET Row
    <2>1. accepted \in SUBSET Device
      BY DEF Accepted
    <2> HIDE DEF accepted, d
    <2>2. Table(queued)
      BY <1>1, <2>1, InsertedTable
    <2> QED
      BY <2>2 DEF Table
  <1>5. \A e \in targets : e \in Device /\ (conns[e] = t => conn[t].deviceId = e)
    BY DEF PushTargets, Accepted, Inv, RegistryConsistent, Online, TypeOK
  <1>6. \A e : pushed(e) \in SUBSET {r \in queued : r.to = e}
    BY DEF Pending
  <1> HIDE DEF queued, pushed, targets, marked
  <1>7. CASE ready[t] = "open" /\ t # s /\ \E e \in targets : conns[e] = t
    <2>1. out'[t] = DeliverFrames(rows)
      BY <1>3, <1>7
    <2>2. PICK e \in targets : conns[e] = t
      BY <1>7
    <2>3. conn[t].deviceId = e /\ rows \in SUBSET {r \in queued : r.to = e}
      BY <1>5, <1>6, <2>2
    <2> HIDE DEF rows
    <2>4. OneQueue(rows)
      BY <1>4, <2>3, QueueIsOne
    <2>5. Carries(out'[t], rows) /\ OnlyDeliver(out'[t])
      BY <2>1, <2>4, DeliverCarries
    <2>6. ASSUME NEW i \in DOMAIN out'[t] PROVE Letter(t, out'[t][i])
      <3>1. PICK q \in rows : out'[t][i] = DeliverFrame(q)
        BY <2>5 DEF Carries, OnlyDeliver
      <3>2. q \in queued /\ q.to = e
        BY <2>3
      <3>3. PICK r \in outbox' : r.to = q.to /\ DeliverFrame(r) = DeliverFrame(q)
        BY <1>2, <1>4, <3>2, MarkedLetter
      <3> QED
        BY <1>2, <2>2, <3>1, <3>2, <3>3 DEF Letter
    <2> QED
      BY <2>5, <2>6 DEF Ordinary, Carries
  <1>8. CASE ~ (ready[t] = "open" /\ t # s /\ \E e \in targets : conns[e] = t)
    <2>1. (t = s /\ out'[t] = <<SentFrame(m, now)>>) \/ out'[t] = <<>>
      BY <1>3, <1>8
    <2> QED
      BY <2>1, ShortOrdinary
  <1> QED
    BY <1>7, <1>8

\* onAuth, accepted: a welcome and the whole queue to the device that comes, to
\* the others its arrival, after a welcome where the list is old.
LEMMA AuthNews ==
    ASSUME Inv, TableInv, NEW s \in Sock, ready[s] \in {"open", "closing"},
           ~conn[s].authed, NEW f \in AuthFrames, AuthAccepted(s, f), NEW t \in Sock
    PROVE  Unasked(t)
  <1> DEFINE d        == conn[s].pending
             rows     == Pending(outbox, d, FALSE)
             registry == [conns EXCEPT ![d] = s]
             others   == {registry[e] : e \in Device \ {d}} \ {Null}
             outdated == {u \in others : Outdated(u)}
             told     == PresenceTo(t, d, TRUE, registry)
             flush    == DeliverFrames(rows)
             welcome  == WelcomeFrame(d, registry)
             refresh  == WelcomeFrame(conn[t].deviceId, registry)
  <1>1. TakesPlace(s, d)
    BY AuthEffect
  <1>2. d \in Device /\ conns' = registry /\ devices' = devices
        /\ outbox' = MarkDelivered(outbox, rows)
    BY <1>1 DEF TakesPlace, Registers, AuthAccepted
  <1>3. out'[t] = IF ready[t] = "open"
                  THEN IF t = s THEN <<welcome>> \o flush
                       ELSE (IF t \in outdated THEN <<refresh>> ELSE <<>>) \o told
                  ELSE <<>>
    BY DEF AuthAccepted, Admit, Emit
  <1>4. \A e \in Device \ {d} : registry[e] = conns[e]
    BY <1>2 DEF Inv, TypeOK
  <1>5. registry[d] = s
    BY <1>2 DEF Inv, TypeOK
  <1>6. told = <<PresenceFrame(d, TRUE)>> \/ told = <<>>
    BY DEF PresenceTo
  <1> HIDE DEF registry, told
  <1>7. t \in others => \E e \in Device \ {d} : conns[e] = t
    BY <1>4
  <1>8. \A e \in Device \ {d} : conns[e] = t => t \in others
    BY <1>4, SockAssumption
  <1>9. t \in outdated <=> t \in others /\ conn[t].fp # devices
    BY DEF Outdated, MembersFingerprint
  <1> HIDE DEF others, outdated
  <1>10. SUFFICES ASSUME ready[t] = "open" PROVE Unasked(t)
    <2>1. ready[t] # "open" => Ordinary(t)
      BY <1>3, ShortOrdinary
    <2> QED
      BY <1>10, <2>1 DEF Unasked
  <1>11. CASE t = s
    <2>1. rows \in SUBSET {r \in outbox : r.to = d}
      BY DEF Pending
    <2>2. OneQueue(rows)
      BY <2>1, QueueIsOne DEF TableInv
    <2>3. out'[t] = <<welcome>> \o flush
      BY <1>3, <1>10, <1>11
    <2>4. Carries(flush, rows) /\ OnlyDeliver(flush)
      BY <2>2, DeliverCarries
    <2> HIDE DEF rows, flush, welcome
    <2>5. Listing(<<welcome>>) /\ Len(<<welcome>>) = 1 /\ <<welcome>>[1] = welcome
      BY ShortListings
    <2>6. Listing(flush)
      BY <2>4 DEF Carries
    <2>7. /\ Listing(out'[t])
          /\ Len(flush) \in Nat /\ DOMAIN flush = 1..Len(flush)
          /\ DOMAIN out'[t] = 1..(1 + Len(flush))
          /\ \A i \in 1..1 : out'[t][i] = <<welcome>>[i]
          /\ \A i \in 1..Len(flush) : out'[t][1 + i] = flush[i]
      BY <2>3, <2>5, <2>6, Glued
    <2>8. 1 \in DOMAIN out'[t] /\ out'[t][1] = welcome
      BY <2>5, <2>7
    <2>9. ASSUME NEW i \in DOMAIN out'[t] \ {1} PROVE Letter(t, out'[t][i])
      <3>1. i - 1 \in 1..Len(flush) /\ 1 + (i - 1) = i
        BY <2>7
      <3>2. out'[t][i] = flush[i - 1] /\ i - 1 \in DOMAIN flush
        BY <2>7, <3>1
      <3>3. PICK q \in rows : out'[t][i] = DeliverFrame(q)
        BY <2>4, <3>2 DEF Carries, OnlyDeliver
      <3>4. q \in outbox /\ q.to = d /\ outbox \in SUBSET Row
        BY <2>1 DEF Inv, TypeOK
      <3>5. PICK r \in outbox' : r.to = q.to /\ DeliverFrame(r) = DeliverFrame(q)
        BY <1>2, <3>4, MarkedLetter
      <3> QED
        BY <1>2, <1>5, <1>11, <3>3, <3>4, <3>5 DEF Letter
    <2>10. conn'[t].fp = devices
      BY <1>1, <1>11 DEF TakesPlace
    <2>11. \E e \in Device : conns'[e] = t /\ out'[t][1] = WelcomeFrame(e, conns')
      BY <1>2, <1>5, <1>11, <2>8 DEF welcome
    <2> HIDE DEF d
    <2>12. Headed(t)
      BY <1>2, <2>7, <2>8, <2>9, <2>10, <2>11 DEF Headed
    <2> QED
      BY <2>12 DEF Unasked
  <1>12. CASE t # s /\ t \in outdated
    <2>1. PICK e \in Device \ {d} : conns[e] = t
      BY <1>7, <1>9, <1>12
    <2>2. conn[t].deviceId = e
      BY <2>1, SockAssumption DEF Inv, RegistryConsistent, Online
    <2>3. conn'[t].fp = devices
      BY <1>1, <2>1, SockAssumption DEF TakesPlace, Online
    <2>4. out'[t] = <<refresh>> \o told
      BY <1>3, <1>10, <1>12
    <2>5. refresh = WelcomeFrame(e, conns') /\ conns'[e] = t
      BY <1>2, <1>4, <2>1, <2>2
    <2> HIDE DEF refresh
    <2>6. Listing(<<refresh>>) /\ Len(<<refresh>>) = 1 /\ <<refresh>>[1] = refresh
      BY ShortListings
    <2>7. Listing(told) /\ \A i \in DOMAIN told : Notice(told[i])
      <3>1. \A x : DOMAIN <<x>> = {1}
        OBVIOUS
      <3> DEFINE p == PresenceFrame(d, TRUE)
      <3>2. Notice(p) /\ (told = <<p>> \/ told = <<>>)
        BY <1>6, NoticeOf
      <3> HIDE DEF p
      <3>3. CASE told = <<p>>
        BY <3>1, <3>2, <3>3, ShortListings
      <3>4. CASE told = <<>>
        BY <3>4, ShortListings
      <3> QED
        BY <3>2, <3>3, <3>4
    <2>8. /\ Listing(out'[t])
          /\ Len(told) \in Nat /\ DOMAIN told = 1..Len(told)
          /\ DOMAIN out'[t] = 1..(1 + Len(told))
          /\ \A i \in 1..1 : out'[t][i] = <<refresh>>[i]
          /\ \A i \in 1..Len(told) : out'[t][1 + i] = told[i]
      BY <2>4, <2>6, <2>7, Glued
    <2>9. 1 \in DOMAIN out'[t] /\ out'[t][1] = refresh
      BY <2>6, <2>8
    <2>10. ASSUME NEW i \in DOMAIN out'[t] \ {1} PROVE Notice(out'[t][i])
      <3>1. i - 1 \in 1..Len(told) /\ 1 + (i - 1) = i
        BY <2>8
      <3>2. out'[t][i] = told[i - 1] /\ i - 1 \in DOMAIN told
        BY <2>8, <3>1
      <3> QED
        BY <2>7, <3>2
    <2>11. \E u \in Device : conns'[u] = t /\ out'[t][1] = WelcomeFrame(u, conns')
      BY <2>5, <2>9
    <2> HIDE DEF d
    <2>12. Headed(t)
      BY <1>2, <2>3, <2>8, <2>9, <2>10, <2>11 DEF Headed
    <2> QED
      BY <2>12 DEF Unasked
  <1>13. CASE t # s /\ t \notin outdated
    <2>1. out'[t] = <<>> \o told
      BY <1>3, <1>10, <1>13
    <2>2. out'[t] = told
      <3> DEFINE p == PresenceFrame(d, TRUE)
      <3>1. told = <<p>> \/ told = <<>>
        BY <1>6
      <3> HIDE DEF p
      <3>2. <<p>> \in Seq({p}) /\ <<>> \in Seq({p})
        OBVIOUS
      <3>3. told \in Seq({p})
        BY <3>1, <3>2
      <3> QED
        BY <2>1, <3>3, ConcatEmptySeq
    <2>3. Ordinary(t)
      BY <1>6, <2>2, NoticeOf, ShortOrdinary
    <2>4. ASSUME NEW e \in Device, conns'[e] = t
          PROVE  conns[e] = t /\ conn'[t].fp = conn[t].fp
      <3>1. e # d
        BY <1>2, <1>5, <1>13, <2>4
      <3>2. conns[e] = t
        BY <1>2, <1>4, <2>4, <3>1
      <3>3. conn[t].fp = devices
        BY <1>8, <1>9, <1>13, <3>1, <3>2
      <3> QED
        BY <1>1, <3>1, <3>2, <3>3, SockAssumption DEF TakesPlace, Online
    <2> QED
      BY <2>3, <2>4 DEF Unasked, SameList
  <1> QED
    BY <1>11, <1>12, <1>13

\* A handshake that ends in no registration refreshes no member list.
LEMMA HandshakeLists ==
    ASSUME Inv, NEW s \in Sock, NEW t \in Sock,
           \/ OnUnexpected(s) \/ AuthWithoutHello(s)
           \/ \E f \in HelloFrames : HelloRefused(s, f) \/ HelloAccepted(s, f)
           \/ \E f \in AuthFrames : AuthRefused(s, f)
    PROVE  conn'[t].fp = conn[t].fp
  <1>1. conn[s] \in ConnObject /\ conn[t] \in ConnObject /\ DOMAIN conn = Sock
    BY DEF Inv, TypeOK
  <1>2. ASSUME NEW f \in HelloFrames, HelloAccepted(s, f)
        PROVE  conn'[t].fp = conn[t].fp
    <2> DEFINE n == IF ready[s] = "open" THEN "shown" ELSE "sealed"
    <2>1. conn' = [conn EXCEPT ![s] = [conn[s] EXCEPT !.pending = f.deviceId,
                                                      !.nonce = n]]
      BY <1>2 DEF HelloAccepted, Inv, TypeOK
    <2> HIDE DEF n
    <2> QED
      BY <1>1, <2>1 DEF ConnObject
  <1>3. ASSUME NEW f \in AuthFrames, AuthRefused(s, f)
        PROVE  conn'[t].fp = conn[t].fp
    <2>1. conn' = [conn EXCEPT ![s] = [conn[s] EXCEPT !.nonce = "none"]]
      BY <1>3 DEF AuthRefused, Spent, Inv, TypeOK
    <2> QED
      BY <1>1, <2>1 DEF ConnObject
  <1>4. \/ OnUnexpected(s) \/ AuthWithoutHello(s)
        \/ \E f \in HelloFrames : HelloRefused(s, f)
        => conn' = conn
    BY DEF OnUnexpected, AuthWithoutHello, HelloRefused
  <1> QED
    BY <1>2, <1>3, <1>4

\* What one received frame has the hub write on any socket.
LEMMA MessageNews ==
    ASSUME Inv, TableInv, NEW s \in Sock, OnMessage(s), NEW t \in Sock
    PROVE  News(t)
  <1>1. CASE \E f \in AuthFrames : ~conn[s].authed /\ AuthAccepted(s, f)
    BY <1>1, AuthNews, UnaskedNews DEF OnMessage
  <1>2. ASSUME Ordinary(t) \/ Answered(t), conns' = conns, conn'[t].fp = conn[t].fp
        PROVE  News(t)
    BY <1>2 DEF News, Unasked, SameList
  <1>3. CASE OnGarbage(s)
    <2>1. Notice(Error("BAD_REQUEST"))
      BY NoticeOf DEF Code
    <2> QED
      BY <1>2, <1>3, <2>1, ReplyOrdinary DEF OnGarbage
  <1>4. CASE \/ OnUnexpected(s) \/ AuthWithoutHello(s)
             \/ \E f \in HelloFrames : HelloRefused(s, f) \/ HelloAccepted(s, f)
             \/ \E f \in AuthFrames : AuthRefused(s, f)
    <2>1. Ordinary(t)
      BY <1>4, HandshakeNews
    <2>2. conns' = conns
      BY <1>4 DEF OnUnexpected, AuthWithoutHello, HelloRefused, HelloAccepted, AuthRefused
    <2>3. conn'[t].fp = conn[t].fp
      BY <1>4, HandshakeLists
    <2> QED
      BY <1>2, <2>1, <2>2, <2>3
  <1>5. CASE conn[s].authed /\ Handle(s)
    <2>1. conns' = conns /\ conn' = conn
      BY <1>5 DEF Handle, HandlePing, RefuseFrame, RefuseRate, HandleSend, HandleAck
    <2>2. Ordinary(t) \/ Answered(t)
      <3>1. Notice(Error("BAD_REQUEST")) /\ Notice(Error("RATE_LIMITED"))
            /\ Notice([t |-> "pong"])
        BY NoticeOf DEF Code
      <3>2. CASE HandlePing(s) \/ RefuseFrame(s) \/ RefuseRate(s)
        BY <3>1, <3>2, ReplyOrdinary DEF HandlePing, RefuseFrame, RefuseRate
      <3>3. ASSUME NEW m \in Msg, NEW to \in SUBSET Device, NEW now \in 0..MaxClock,
                   HandleSend(s, m, to, now)
            PROVE  Ordinary(t) \/ Answered(t)
        <4>1. Ordinary(t) \/ (t = s /\ out'[t] = <<SentFrame(m, now)>>)
          BY <1>5, <3>3, SendNews
        <4> QED
          BY <4>1 DEF Answered
      <3> QED
        BY <1>5, <3>2, <3>3, AckNews DEF Handle
    <2> QED
      BY <1>2, <2>1, <2>2
  <1> QED
    BY <1>1, <1>3, <1>4, <1>5 DEF OnMessage, OnUnauthenticatedFrame

\* The 'close' handler tells who is left that the device has gone.
LEMMA CloseNews ==
    ASSUME Inv, NEW s \in Sock, OnClose(s), NEW t \in Sock
    PROVE  Unasked(t)
  <1> DEFINE d == conn[s].deviceId
             registry == IF HoldsPlace(s) THEN [conns EXCEPT ![d] = Null] ELSE conns
  <1>1. out'[t] = <<>> \/ out'[t] = <<PresenceFrame(d, FALSE)>>
    BY DEF OnClose, Emit, PresenceTo
  <1>2. Ordinary(t)
    BY <1>1, NoticeOf, ShortOrdinary
  <1>3. ready[s] = "ending" /\ conn' = [conn EXCEPT ![s] = NewConn] /\ conns' = registry
    BY DEF OnClose
  <1>4. \A e \in Device : conns'[e] \in {conns[e], Null}
    BY <1>3 DEF Inv, TypeOK
  <1>5. ready[t] = "open" => conn'[t] = conn[t]
    BY <1>3 DEF Inv, TypeOK
  <1>6. ready[t] = "open" => SameList(t)
    BY <1>4, <1>5, SockAssumption DEF SameList
  <1> QED
    BY <1>2, <1>6 DEF Unasked

-----------------------------------------------------------------------------
(* Part 3.  The family's invariant. *)

\* The frames of toHub.
HubFrame ==
    [t : {"hello"}, deviceId : Device] \cup [t : {"auth"}] \cup
    [t : {"send"}, msg : Msg, to : (SUBSET Device) \ {{}}] \cup
    [t : {"ack"}, ids : (SUBSET Msg) \ {{}}]

\* What the clients and the wire hold.
ClientTypes ==
    /\ link \in [Device -> Sock \cup {Null}]
    /\ welcomed \in [Device -> BOOLEAN]
    /\ known \in [Device -> SUBSET Device]
    /\ seen \in [Device -> SUBSET Msg]
    /\ tried \in [Device -> SUBSET Transmission]
    /\ confirmed \subseteq Transmission
    /\ toHub \in [Sock -> Seq(HubFrame)]
    /\ toPeer \in [Sock -> Seq(PeerFrame)]
    /\ upsets \in 0..MaxUpsets
    /\ gone \subseteq Device
    /\ \A d \in Device : welcomed[d] => link[d] # Null

\* All that bears d's name on a socket, at either end and in between.
Speaks(s, d) ==
    \/ link[d] = s
    \/ conn[s].deviceId = d \/ conn[s].pending = d
    \/ \E i \in DOMAIN toHub[s] : toHub[s][i].t = "hello" /\ toHub[s][i].deviceId = d

OneSpeaker == \A s \in Sock : \A d, e \in Device : Speaks(s, d) /\ Speaks(s, e) => d = e

\* A socket the hub reads no more has nothing left to read.
Drained == \A s \in Sock : ~Readable(s) => toHub[s] = <<>>

\* A client sends what is its own and acks what it has taken.
Truthful(f, d) == /\ f.t = "send" => Author[f.msg] = d
                  /\ f.t = "ack"  => f.ids \subseteq seen[d]

Honest == \A s \in Sock : \A d \in Device : Speaks(s, d) =>
              \A i \in DOMAIN toHub[s] : Truthful(toHub[s][i], d)

HubInv == Inv /\ CliInv /\ TableInv

FamilyInv == HubInv /\ ClientTypes /\ OneSpeaker /\ Drained /\ Honest

\* What is written after what was under way.
LEMMA Joined ==
    ASSUME NEW S, NEW q \in Seq(S), NEW p \in Seq(S)
    PROVE  /\ q \o p \in Seq(S) /\ Len(q \o p) = Len(q) + Len(p)
           /\ Len(q) \in Nat /\ Len(p) \in Nat
           /\ \A i \in 1..Len(q) : (q \o p)[i] = q[i]
           /\ \A i \in 1..Len(p) : (q \o p)[Len(q) + i] = p[i]
           /\ \A i \in DOMAIN (q \o p) : \/ i \in 1..Len(q)
                                         \/ i - Len(q) \in 1..Len(p) /\ Len(q) + (i - Len(q)) = i
  <1> DEFINE c == q \o p
  <1>1. /\ c \in Seq(S) /\ Len(c) = Len(q) + Len(p)
        /\ \A i \in 1..(Len(q) + Len(p)) :
              c[i] = IF i <= Len(q) THEN q[i] ELSE p[i - Len(q)]
    BY ConcatProperties
  <1> HIDE DEF c
  <1>2. Len(q) \in Nat /\ Len(p) \in Nat /\ DOMAIN c = 1..(Len(q) + Len(p))
    BY <1>1
  <1>3. \A i \in 1..Len(q) : c[i] = q[i]
    BY <1>1, <1>2
  <1>4. ASSUME NEW i \in 1..Len(p) PROVE c[Len(q) + i] = p[i]
    <2>1. Len(q) + i \in 1..(Len(q) + Len(p)) /\ ~ (Len(q) + i <= Len(q))
          /\ (Len(q) + i) - Len(q) = i
      BY <1>2
    <2> QED
      BY <1>1, <2>1
  <1>5. \A i \in DOMAIN c : \/ i \in 1..Len(q)
                            \/ i - Len(q) \in 1..Len(p) /\ Len(q) + (i - Len(q)) = i
    BY <1>2
  <1> QED
    BY <1>1, <1>2, <1>3, <1>4, <1>5 DEF c

\* One frame, or none, is a sequence of frames.
LEMMA ShortSeq ==
    ASSUME NEW S
    PROVE  <<>> \in Seq(S) /\ \A x \in S : <<x>> \in Seq(S) /\ Len(<<x>>) = 1 /\ <<x>>[1] = x
  OBVIOUS

\* The first frame of a queue, and the others.
LEMMA FirstAndRest ==
    ASSUME NEW S, NEW q \in Seq(S), q # <<>>
    PROVE  /\ Head(q) = q[1] /\ q[1] \in S /\ 1 \in DOMAIN q
           /\ Tail(q) \in Seq(S) /\ Len(q) \in Nat /\ Len(q) >= 1
           /\ Len(Tail(q)) = Len(q) - 1
           /\ \A i \in DOMAIN Tail(q) : i + 1 \in DOMAIN q /\ Tail(q)[i] = q[i + 1]
  <1>1. /\ Head(q) = q[1] /\ q[1] \in S /\ 1 \in DOMAIN q
        /\ Tail(q) \in Seq(S) /\ Len(q) \in Nat /\ Len(q) >= 1
        /\ Len(Tail(q)) = Len(q) - 1
    OBVIOUS
  <1>2. \A i \in DOMAIN Tail(q) : i + 1 \in DOMAIN q /\ Tail(q)[i] = q[i + 1]
    <2> SUFFICES ASSUME NEW i \in DOMAIN Tail(q)
                 PROVE  i + 1 \in DOMAIN q /\ Tail(q)[i] = q[i + 1]
      OBVIOUS
    <2> QED
      BY <1>1
  <1> QED
    BY <1>1, <1>2

\* What the hub's frames become on the wire.
LEMMA WiredTypes ==
    /\ \A f : Notice(f) /\ Heeded(f) => Wired(f) = f /\ f \in PeerFrame
                                         /\ f.t \notin {"welcome", "deliver", "sent"}
    /\ \A m \in Msg, at \in 0..MaxClock :
          /\ Heeded(SentFrame(m, at)) /\ Wired(SentFrame(m, at)) = SentFrame(m, at)
          /\ SentFrame(m, at) \in PeerFrame
    /\ \A r \in Row : /\ Heeded(DeliverFrame(r)) /\ Wired(DeliverFrame(r)) = DeliverFrame(r)
                      /\ DeliverFrame(r) \in PeerFrame
    /\ \A d \in Device : \A reg :
          /\ Heeded(WelcomeFrame(d, reg)) /\ Wired(WelcomeFrame(d, reg)) \in PeerFrame
          /\ Wired(WelcomeFrame(d, reg)) = [t |-> "welcome", members |-> Members(d)]
  <1>1. \A f : Notice(f) /\ Heeded(f) => Wired(f) = f /\ f \in PeerFrame
                                         /\ f.t \notin {"welcome", "deliver", "sent"}
    BY DEF Notice, Wired
  <1>2. \A r \in Row : /\ Heeded(DeliverFrame(r)) /\ Wired(DeliverFrame(r)) = DeliverFrame(r)
                       /\ DeliverFrame(r) \in PeerFrame
    BY DEF Row, DeliverFrame, Heeded, Wired, PeerFrame
  <1>3. ASSUME NEW d \in Device, NEW reg
        PROVE  /\ Heeded(WelcomeFrame(d, reg)) /\ Wired(WelcomeFrame(d, reg)) \in PeerFrame
               /\ Wired(WelcomeFrame(d, reg)) = [t |-> "welcome", members |-> Members(d)]
    <2> DEFINE f == WelcomeFrame(d, reg)
    <2>1. f.t = "welcome" /\ DOMAIN f.members = Members(d)
      BY DEF WelcomeFrame
    <2> HIDE DEF f
    <2>2. Wired(f) = [t |-> "welcome", members |-> Members(d)] /\ Heeded(f)
      BY <2>1 DEF Wired, Heeded
    <2>3. Members(d) \in SUBSET Device
      BY DEF Members, Enrolled
    <2>4. Wired(f) \in PeerFrame
      BY <2>2, <2>3 DEF PeerFrame
    <2> QED
      BY <2>2, <2>4 DEF f
  <1>4. \A m \in Msg, at \in 0..MaxClock :
           /\ Heeded(SentFrame(m, at)) /\ Wired(SentFrame(m, at)) = SentFrame(m, at)
           /\ SentFrame(m, at) \in PeerFrame
    BY DEF SentFrame, Heeded, Wired, PeerFrame
  <1> QED
    BY <1>1, <1>2, <1>3, <1>4

\* The frames of a step are a sequence.
LEMMA NewsListing ==
    ASSUME NEW t \in Sock, News(t)
    PROVE  Listing(out'[t])
  <1>1. Answered(t) => Listing(out'[t])
    BY ShortListings DEF Answered
  <1> QED
    BY <1>1 DEF News, Unasked, Headed, Ordinary

\* So what a step writes is legible to the client.
LEMMA WireTypes ==
    ASSUME NEW t \in Sock, News(t), outbox' \subseteq Row
    PROVE  OnWire(out'[t]) \in Seq(PeerFrame)
  <1> DEFINE fs == out'[t]
             w  == OnWire(fs)
  <1>1. Listing(fs)
    BY NewsListing
  <1>2. \A i \in DOMAIN fs : \/ Notice(fs[i]) \/ Letter(t, fs[i])
                             \/ \E m \in Msg, at \in 0..MaxClock : fs[i] = SentFrame(m, at)
                             \/ \E d \in Device : \E reg : fs[i] = WelcomeFrame(d, reg)
    <2>1. CASE Answered(t)
      <3> PICK m \in Msg, at \in 0..MaxClock : fs = <<SentFrame(m, at)>>
        BY <2>1 DEF Answered
      <3> DEFINE x == SentFrame(m, at)
      <3>1. fs = <<x>>
        OBVIOUS
      <3> HIDE DEF x, fs
      <3>2. \A i \in DOMAIN fs : fs[i] = x
        BY <3>1
      <3> QED
        BY <3>2 DEF x
    <2> QED
      BY <2>1 DEF News, Unasked, Headed, Ordinary
  <1>3. \A i \in DOMAIN fs : Heeded(fs[i]) => Wired(fs[i]) \in PeerFrame
    <2> SUFFICES ASSUME NEW i \in DOMAIN fs, Heeded(fs[i]) PROVE Wired(fs[i]) \in PeerFrame
      OBVIOUS
    <2>1. CASE Notice(fs[i])
      BY <2>1, WiredTypes
    <2>2. CASE Letter(t, fs[i])
      BY <2>2, WiredTypes DEF Letter
    <2>3. CASE \E d \in Device : \E reg : fs[i] = WelcomeFrame(d, reg)
      BY <2>3, WiredTypes
    <2>4. CASE \E m \in Msg, at \in 0..MaxClock : fs[i] = SentFrame(m, at)
      BY <2>4, WiredTypes
    <2> QED
      BY <1>2, <2>1, <2>2, <2>3, <2>4
  <1> HIDE DEF fs
  <1>4. Listing(w) /\ \A k \in DOMAIN w : \E i \in DOMAIN fs :
                         Heeded(fs[i]) /\ w[k] = Wired(fs[i])
    BY <1>1, WireFrames
  <1> HIDE DEF w
  <1>5. \A k \in DOMAIN w : w[k] \in PeerFrame
    BY <1>3, <1>4
  <1>6. w \in Seq(PeerFrame)
    <2>1. \A k \in DOMAIN w : w[k] \in {w[i] : i \in DOMAIN w}
      OBVIOUS
    <2>2. w \in Seq({w[i] : i \in DOMAIN w})
      BY <1>4 DEF Listing
    <2>3. {w[i] : i \in DOMAIN w} \subseteq PeerFrame
      BY <1>5
    <2> DEFINE S == {w[i] : i \in DOMAIN w}
    <2>4. w \in Seq(S) /\ S \subseteq PeerFrame
      BY <2>2, <2>3
    <2> HIDE DEF S
    <2> QED
      BY <2>4
  <1> QED
    BY <1>6 DEF w, fs

-----------------------------------------------------------------------------
(* Part 4.  What each step does to the wire and to the clients. *)

\* _send puts its frames behind the others, if the hub still reads them.
LEMMA SendTypes ==
    ASSUME ClientTypes, NEW d \in Device, link[d] # Null,
           NEW rest \in Seq(PeerFrame), NEW frames \in Seq(HubFrame), Send(d, rest, frames)
    PROVE  /\ link[d] \in Sock
           /\ toHub' \in [Sock -> Seq(HubFrame)] /\ toPeer' \in [Sock -> Seq(PeerFrame)]
           /\ toPeer'[link[d]] = rest
           /\ \A s \in Sock \ {link[d]} : toHub'[s] = toHub[s] /\ toPeer'[s] = toPeer[s]
           /\ toHub'[link[d]] = IF Readable(link[d]) THEN toHub[link[d]] \o frames
                                ELSE toHub[link[d]]
  <1> DEFINE s == link[d]
             q == IF Readable(s) THEN toHub[s] \o frames ELSE toHub[s]
  <1>1. s \in Sock /\ toHub[s] \in Seq(HubFrame)
    BY DEF ClientTypes
  <1>2. toHub[s] \o frames \in Seq(HubFrame)
    BY <1>1, Joined
  <1>3. q \in Seq(HubFrame)
    BY <1>1, <1>2
  <1>4. toHub' = [toHub EXCEPT ![s] = q] /\ toPeer' = [toPeer EXCEPT ![s] = rest]
    BY DEF Send
  <1> HIDE DEF q
  <1>5. /\ toHub' \in [Sock -> Seq(HubFrame)] /\ toPeer' \in [Sock -> Seq(PeerFrame)]
        /\ toPeer'[s] = rest
        /\ \A u \in Sock \ {s} : toHub'[u] = toHub[u] /\ toPeer'[u] = toPeer[u]
        /\ toHub'[s] = q
    BY <1>1, <1>3, <1>4 DEF ClientTypes
  <1> QED
    BY <1>1, <1>5 DEF q

\* The next frame of a client.
LEMMA IncomingType ==
    ASSUME ClientTypes, NEW d \in Device, link[d] # Null, toPeer[link[d]] # <<>>
    PROVE  /\ Incoming(d) \in PeerFrame /\ Incoming(d) = toPeer[link[d]][1]
           /\ Tail(toPeer[link[d]]) \in Seq(PeerFrame)
  <1>1. toPeer[link[d]] \in Seq(PeerFrame)
    BY DEF ClientTypes
  <1> QED
    BY <1>1, FirstAndRest DEF Incoming

\* A client that reads a frame answers a challenge, acks a message it has taken,
\* or answers nothing.
Answer(d, frames) ==
    \/ frames = <<>>
    \/ frames = <<[t |-> "auth"]>>
    \/ \E m \in Msg : m \in seen'[d] /\ frames = <<[t |-> "ack", ids |-> {m}]>>

\* Every frame is answered in this way, and what is taken stays taken.
LEMMA ReadEffect ==
    ASSUME ClientTypes, NEW d \in Device, ClientRead(d)
    PROVE  /\ \E frames : Answer(d, frames) /\ Send(d, Tail(toPeer[link[d]]), frames)
           /\ link' = link
           /\ welcomed' \in [Device -> BOOLEAN]
           /\ \A e \in Device : welcomed'[e] => welcomed[e] \/ e = d
           /\ known' \in [Device -> SUBSET Device]
           /\ seen' \in [Device -> SUBSET Msg]
           /\ \A e \in Device : seen[e] \subseteq seen'[e]
           /\ tried' \in [Device -> SUBSET Transmission] /\ confirmed' \subseteq Transmission
           /\ IF Incoming(d).t = "welcome" THEN known' = [known EXCEPT ![d] = Incoming(d).members]
              ELSE known' = known
  <1> DEFINE f == Incoming(d)
             rest == Tail(toPeer[link[d]])
  <1>1. f \in PeerFrame
    BY IncomingType DEF ClientRead
  <1>2. /\ f.t = "welcome" => f.members \in SUBSET Device
        /\ f.t = "deliver" => f.msgId \in Msg /\ f.recvAt \in 0..MaxClock
        /\ f.t = "sent" => f.msgId \in Msg
    BY <1>1 DEF PeerFrame
  <1>3. CASE OnChallenge(d)
    BY <1>3 DEF OnChallenge, Consume, Answer, ClientTypes
  <1>4. CASE OnWelcome(d)
    <2>1. /\ known' = [known EXCEPT ![d] = f.members] /\ f.t = "welcome"
          /\ welcomed' = [welcomed EXCEPT ![d] = TRUE]
          /\ tried' = IF welcomed[d] THEN tried ELSE [tried EXCEPT ![d] = {}]
          /\ Send(d, rest, <<>>) /\ UNCHANGED <<link, seen, confirmed>>
      BY <1>4 DEF OnWelcome, Consume
    <2> HIDE DEF f, rest
    <2>2. tried' \in [Device -> SUBSET Transmission]
      BY <2>1 DEF ClientTypes
    <2>3. known' \in [Device -> SUBSET Device] /\ welcomed' \in [Device -> BOOLEAN]
          /\ \A e \in Device : welcomed'[e] => welcomed[e] \/ e = d
      BY <1>2, <2>1 DEF ClientTypes
    <2>4. \E frames : Answer(d, frames) /\ Send(d, rest, frames)
      BY <2>1 DEF Answer
    <2> QED
      BY <2>1, <2>2, <2>3, <2>4 DEF ClientTypes, f, rest
  <1>5. CASE OnDeliver(d)
    <2> DEFINE frames == IF Acks(d, f) THEN <<[t |-> "ack", ids |-> {f.msgId}]>> ELSE <<>>
    <2>1. /\ seen' = IF New(d, f) /\ Opens(d, f) THEN [seen EXCEPT ![d] = @ \cup {f.msgId}] ELSE seen
          /\ Send(d, rest, frames) /\ UNCHANGED <<link, welcomed, known, tried, confirmed>>
          /\ f.t = "deliver"
      BY <1>5 DEF OnDeliver, Consume
    <2> HIDE DEF f, rest
    <2>2. f.msgId \in Msg
      BY <1>2, <2>1
    <2>3. Acks(d, f) => f.msgId \in seen'[d]
      <3>1. CASE New(d, f) /\ Opens(d, f)
        <4>1. seen'[d] = seen[d] \cup {f.msgId}
          BY <2>1, <3>1 DEF ClientTypes
        <4> QED
          BY <2>2, <4>1
      <3>2. CASE ~New(d, f)
        <4>1. seen' = seen
          BY <2>1, <3>2
        <4> QED
          BY <3>2, <4>1 DEF New
      <3> QED
        BY <3>1, <3>2 DEF Acks
    <2>4. Answer(d, frames)
      BY <1>2, <2>1, <2>3 DEF Answer
    <2> HIDE DEF frames
    <2>5. /\ seen' \in [Device -> SUBSET Msg]
          /\ \A e \in Device : seen[e] \subseteq seen'[e]
      BY <2>1, <2>2 DEF ClientTypes
    <2>6. \E fs : Answer(d, fs) /\ Send(d, rest, fs)
      BY <2>1, <2>4
    <2> QED
      BY <2>1, <2>5, <2>6 DEF ClientTypes, f, rest
  <1>6. CASE OnSent(d)
    <2>1. confirmed' = confirmed \cup {x \in tried[d] : x.msg = f.msgId} /\ f.t = "sent"
          /\ Send(d, rest, <<>>) /\ UNCHANGED <<link, welcomed, known, seen, tried>>
      BY <1>6 DEF OnSent, Consume
    <2> HIDE DEF f, rest
    <2>2. \E frames : Answer(d, frames) /\ Send(d, rest, frames)
      BY <2>1 DEF Answer
    <2> QED
      BY <1>2, <2>1, <2>2 DEF ClientTypes, f, rest
  <1>7. CASE OnError(d)
    BY <1>7 DEF OnError, Consume, Answer, ClientTypes
  <1> QED
    BY <1>3, <1>4, <1>5, <1>6, <1>7 DEF ClientRead

-----------------------------------------------------------------------------
(* Part 5.  Who says what. *)

\* The hub's message handler gets what a peer may send.
LEMMA Received ==
    ASSUME FamilyInv, NEW s \in Sock, HubReceive(s)
    PROVE  OnMessage(s)
  <1> DEFINE f     == Head(toHub[s])
             hello == [version |-> "spoken", deviceId |-> f.deviceId, name |-> Null]
             auth  == [sig |-> CHOOSE k \in Key : TRUE]
  <1>1. /\ ready[s] \in {"open", "closing"} /\ f \in HubFrame
        /\ f = toHub[s][1] /\ 1 \in DOMAIN toHub[s]
    BY FirstAndRest DEF HubReceive, Readable, FamilyInv, ClientTypes
  <1>2. /\ f.t = "hello" => f.deviceId \in Device
        /\ f.t = "send" => f.msg \in Msg /\ f.to \in (SUBSET Device) \ {{}}
        /\ f.t = "ack" => f.ids \in (SUBSET Msg) \ {{}}
    BY <1>1 DEF HubFrame
  <1>3. \/ /\ ~conn[s].authed
           /\ \/ f.t = "hello" /\ (HelloRefused(s, hello) \/ HelloAccepted(s, hello))
              \/ f.t = "auth"  /\ (AuthRefused(s, auth) \/ AuthAccepted(s, auth))
              \/ f.t \in {"send", "ack"} /\ OnUnexpected(s)
        \/ /\ conn[s].authed
           /\ \/ f.t = "send" /\ \E now \in {n \in 0..MaxClock : n \in {clock, clock + 1}} :
                    HandleSend(s, f.msg, f.to, now)
              \/ f.t = "ack"  /\ HandleAck(s, f.ids)
    BY DEF HubReceive
  <1>4. conn[s].authed /\ f.t = "send" => Author[f.msg] = conn[s].deviceId
    <2> SUFFICES ASSUME conn[s].authed, f.t = "send"
                 PROVE  Author[f.msg] = conn[s].deviceId
      OBVIOUS
    <2> DEFINE d == conn[s].deviceId
    <2>1. d \in Device /\ Speaks(s, d)
      BY DEF FamilyInv, HubInv, Inv, RegistryConsistent, TypeOK, ConnObject, Speaks
    <2>2. Truthful(f, d)
      BY <1>1, <2>1 DEF FamilyInv, Honest
    <2> QED
      BY <2>2 DEF Truthful
  <1>5. f.t = "hello" => hello \in HelloFrames
    BY <1>2 DEF HelloFrames
  <1>6. auth \in AuthFrames
    BY KeyAssumption DEF AuthFrames
  <1> HIDE DEF f, hello, auth
  <1>7. CASE ~conn[s].authed
    BY <1>1, <1>3, <1>5, <1>6, <1>7 DEF OnMessage, OnUnauthenticatedFrame
  <1>8. CASE conn[s].authed
    BY <1>1, <1>2, <1>3, <1>4, <1>8 DEF OnMessage, Handle
  <1> QED
    BY <1>7, <1>8

\* The family's steps, one by one, are steps of the hub or leave it alone.
LEMMA FamilyStep ==
    ASSUME FamilyInv, [SystemNext]_sysVars
    PROVE  [Next]_vars
  <1>1. ASSUME NEW s \in Sock, HubReceive(s) \/ HubEnds(s) \/ Close(s)
        PROVE  Next
    BY <1>1, Received DEF HubEnds, Close, Next, ServerNext
  <1>2. ASSUME NEW d \in Device, Open(d)
        PROVE  Next
    BY <1>2 DEF Open, Next, ServerNext
  <1>3. ASSUME NEW d \in Device, \/ Read(d) \/ ClientEnds(d)
                                 \/ \E m \in Msg : Write(d, m)
        PROVE  UNCHANGED vars
    BY <1>3 DEF Read, ClientEnds, Write
  <1>4. CASE Resume
    BY <1>4 DEF Resume, Next, ServerNext
  <1>5. CASE Break
    BY <1>5 DEF Break, Next, ServerNext
  <1>6. CASE Administer
    BY <1>6 DEF Administer, Next, EnrollNext
  <1>7. CASE Purge
    BY <1>7 DEF Purge, Next, EnrollNext
  <1>8. CASE UNCHANGED sysVars
    BY <1>8 DEF sysVars
  <1> QED
    BY <1>1, <1>2, <1>3, <1>4, <1>5, <1>6, <1>7, <1>8 DEF SystemNext

\* The steps that only take away from what the hub has still to read.
Consumes == \A s \in Sock :
    \/ toHub'[s] = toHub[s]
    \/ toHub'[s] = <<>>
    \/ toHub[s] # <<>> /\ toHub'[s] = Tail(toHub[s])

\* What the hub takes a connection to be comes from what its peer has said.
SameSpeakers == \A s \in Sock : \A d \in Device : Speaks(s, d)' => Speaks(s, d)

SpeechInv == OneSpeaker /\ Drained /\ Honest

\* What is left to read was there before.
LEMMA ConsumesLess ==
    ASSUME ClientTypes, Consumes, NEW s \in Sock, NEW i \in DOMAIN toHub'[s]
    PROVE  \E j \in DOMAIN toHub[s] : toHub'[s][i] = toHub[s][j]
  <1>1. toHub[s] \in Seq(HubFrame)
    BY DEF ClientTypes
  <1>2. CASE toHub'[s] = toHub[s]
    BY <1>2
  <1>3. CASE toHub'[s] = <<>>
    BY <1>3
  <1>4. CASE toHub[s] # <<>> /\ toHub'[s] = Tail(toHub[s])
    BY <1>1, <1>4, FirstAndRest
  <1> QED
    BY <1>2, <1>3, <1>4 DEF Consumes

\* Reading, in whole or in part, keeps everybody truthful.
LEMMA ConsumesSpeech ==
    ASSUME ClientTypes, SpeechInv, Consumes, SameSpeakers, seen' = seen,
           \A s \in Sock : Readable(s)' \/ toHub'[s] = <<>> \/ ~Readable(s)
    PROVE  SpeechInv'
  <1>1. OneSpeaker'
    BY DEF SpeechInv, OneSpeaker, SameSpeakers
  <1>2. Drained'
    <2> SUFFICES ASSUME NEW s \in Sock, ~Readable(s)' PROVE toHub'[s] = <<>>
      BY DEF Drained
    <2>1. CASE ~Readable(s)
      <3>1. toHub[s] = <<>>
        BY <2>1 DEF SpeechInv, Drained
      <3> QED
        BY <3>1 DEF Consumes
    <2> QED
      BY <2>1
  <1>3. Honest'
    <2> SUFFICES ASSUME NEW s \in Sock, NEW d \in Device, Speaks(s, d)',
                        NEW i \in DOMAIN toHub'[s]
                 PROVE  Truthful(toHub[s][i], d)'
      BY DEF Honest
    <2>1. PICK j \in DOMAIN toHub[s] : toHub'[s][i] = toHub[s][j]
      BY ConsumesLess
    <2>2. Truthful(toHub[s][j], d)
      BY DEF SpeechInv, Honest, SameSpeakers
    <2> QED
      BY <2>1, <2>2 DEF Truthful
  <1> QED
    BY <1>1, <1>2, <1>3 DEF SpeechInv

\* hello in the queue, pending and deviceId: the hub learns the name in this order.
LEMMA SpeakersKept ==
    ASSUME Inv, ClientTypes, Consumes, link' = link,
           \A s \in Sock :
              /\ conn'[s].deviceId \in {conn[s].deviceId, conn[s].pending, Null}
              /\ \/ conn'[s].pending \in {conn[s].pending, Null}
                 \/ \E j \in DOMAIN toHub[s] : /\ toHub[s][j].t = "hello"
                                               /\ conn'[s].pending = toHub[s][j].deviceId
    PROVE  SameSpeakers
  <1> SUFFICES ASSUME NEW s \in Sock, NEW d \in Device, Speaks(s, d)' PROVE Speaks(s, d)
    BY DEF SameSpeakers
  <1>1. CASE \E i \in DOMAIN toHub'[s] : toHub'[s][i].t = "hello" /\ toHub'[s][i].deviceId = d
    <2>1. PICK i \in DOMAIN toHub'[s] : toHub'[s][i].t = "hello" /\ toHub'[s][i].deviceId = d
      BY <1>1
    <2>2. PICK j \in DOMAIN toHub[s] : toHub'[s][i] = toHub[s][j]
      BY ConsumesLess
    <2> QED
      BY <2>1, <2>2 DEF Speaks
  <1>2. CASE conn'[s].deviceId = d \/ conn'[s].pending = d
    BY <1>2, DeviceAssumption DEF Speaks
  <1>3. CASE link'[d] = s
    BY <1>3 DEF Speaks
  <1> QED
    BY <1>1, <1>2, <1>3 DEF Speaks

\* What a received frame makes of the connections' names.
LEMMA ReceivedNames ==
    ASSUME FamilyInv, NEW s \in Sock, HubReceive(s), NEW t \in Sock
    PROVE  /\ conn'[t].deviceId \in {conn[t].deviceId, conn[t].pending, Null}
           /\ \/ conn'[t].pending \in {conn[t].pending, Null}
              \/ \E j \in DOMAIN toHub[t] : /\ toHub[t][j].t = "hello"
                                            /\ conn'[t].pending = toHub[t][j].deviceId
  <1> DEFINE f     == Head(toHub[s])
             hello == [version |-> "spoken", deviceId |-> f.deviceId, name |-> Null]
             auth  == [sig |-> CHOOSE k \in Key : TRUE]
  <1>1. f = toHub[s][1] /\ 1 \in DOMAIN toHub[s]
    BY FirstAndRest DEF HubReceive, FamilyInv, ClientTypes
  <1>2. conn \in [Sock -> ConnObject]
    BY DEF FamilyInv, HubInv, Inv, TypeOK
  <1>3. \/ /\ ~conn[s].authed
           /\ \/ f.t = "hello" /\ (HelloRefused(s, hello) \/ HelloAccepted(s, hello))
              \/ f.t = "auth"  /\ (AuthRefused(s, auth) \/ AuthAccepted(s, auth))
              \/ f.t \in {"send", "ack"} /\ OnUnexpected(s)
        \/ /\ conn[s].authed
           /\ \/ f.t = "send" /\ \E now \in {n \in 0..MaxClock : n \in {clock, clock + 1}} :
                    HandleSend(s, f.msg, f.to, now)
              \/ f.t = "ack"  /\ HandleAck(s, f.ids)
    BY DEF HubReceive
  <1>4. hello.deviceId = f.deviceId
    OBVIOUS
  <1> HIDE DEF f, hello, auth
  <1>5. CASE f.t = "hello" /\ HelloAccepted(s, hello)
    <2> DEFINE n == IF ready[s] = "open" THEN "shown" ELSE "sealed"
    <2>1. conn' = [conn EXCEPT ![s] = [conn[s] EXCEPT !.pending = f.deviceId, !.nonce = n]]
      BY <1>2, <1>4, <1>5 DEF HelloAccepted
    <2> HIDE DEF n
    <2>2. CASE t = s
      <3>1. conn'[t] = [conn[s] EXCEPT !.pending = f.deviceId, !.nonce = n]
        BY <1>2, <2>1, <2>2
      <3>2. conn'[t].deviceId = conn[t].deviceId /\ conn'[t].pending = f.deviceId
        BY <1>2, <2>2, <3>1 DEF ConnObject
      <3> QED
        BY <1>1, <1>5, <2>2, <3>2
    <2>3. CASE t # s
      BY <1>2, <2>1, <2>3
    <2> QED
      BY <2>2, <2>3
  <1>6. CASE AuthRefused(s, auth)
    <2>1. conn' = [conn EXCEPT ![s] = [conn[s] EXCEPT !.nonce = "none"]]
      BY <1>2, <1>6 DEF AuthRefused, Spent
    <2>2. conn'[t].deviceId = conn[t].deviceId /\ conn'[t].pending = conn[t].pending
      BY <1>2, <2>1 DEF ConnObject
    <2> QED
      BY <2>2
  <1>7. CASE AuthAccepted(s, auth)
    <2> DEFINE d == conn[s].pending
               evicted == {conns[d]} \ {Null, s}
               outdated == {u \in {[conns EXCEPT ![d] = s][e] : e \in Device \ {d}} \ {Null} :
                              Outdated(u)}
    <2>1. conn' = [u \in Sock |->
              IF u = s THEN [conn[s] EXCEPT !.authed = TRUE, !.deviceId = d,
                                            !.nonce = "none", !.fp = devices]
              ELSE IF u \in evicted THEN [conn[u] EXCEPT !.authed = FALSE]
              ELSE IF u \in outdated THEN [conn[u] EXCEPT !.fp = devices]
              ELSE conn[u]]
      BY <1>7 DEF AuthAccepted, Admit, Spent, Evict, MembersFingerprint
    <2> HIDE DEF d, evicted, outdated
    <2>2. conn[t] \in ConnObject /\ conn[s] \in ConnObject
      BY <1>2
    <2>3. /\ conn'[t].pending = conn[t].pending
          /\ conn'[t].deviceId = IF t = s THEN d ELSE conn[t].deviceId
      BY <2>1, <2>2 DEF ConnObject
    <2> QED
      BY <2>3 DEF d
  <1>8. CASE conn' = conn
    BY <1>8
  <1> QED
    BY <1>3, <1>5, <1>6, <1>7, <1>8
    DEF HelloRefused, OnUnexpected, HandleSend, HandleAck

\* A received frame leaves every socket readable that was, or drains it.
LEMMA ReceiveReadable ==
    ASSUME Inv, NEW s \in Sock, OnMessage(s), NEW t \in Sock
    PROVE  Readable(t)' = Readable(t)
  <1>1. ready'[t] = ready[t] \/ ready'[t] = Closing(t)
    <2>1. ASSUME NEW f \in AuthFrames, AuthAccepted(s, f)
          PROVE  ready'[t] = ready[t] \/ ready'[t] = Closing(t)
      BY <2>1 DEF AuthAccepted, Admit
    <2>2. ready' = Dismissed(s) => ready'[t] = ready[t] \/ ready'[t] = Closing(t)
      BY DEF Dismissed, Inv, TypeOK
    <2> QED
      BY <2>1, <2>2
      DEF OnMessage, OnGarbage, OnUnauthenticatedFrame, OnUnexpected, HelloRefused,
          HelloAccepted, AuthWithoutHello, AuthRefused, Handle, HandlePing, RefuseFrame,
          RefuseRate, HandleSend, HandleAck
  <1> QED
    BY <1>1 DEF Closing, Readable

\* The hub's own steps.
LEMMA HubSpeech ==
    ASSUME FamilyInv,
           \/ \E s \in Sock : HubReceive(s) \/ HubEnds(s) \/ Close(s)
           \/ Resume \/ Administer \/ Purge
           \/ Break /\ link' = link
    PROVE  SpeechInv'
  <1>1. /\ ClientTypes /\ SpeechInv /\ Inv
        /\ toHub \in [Sock -> Seq(HubFrame)] /\ conn \in [Sock -> ConnObject]
    BY DEF FamilyInv, HubInv, SpeechInv, ClientTypes, Inv, TypeOK
  <1>2. ASSUME Consumes, seen' = seen, link' = link,
               \A s \in Sock : Readable(s)' \/ toHub'[s] = <<>> \/ ~Readable(s),
               \A s \in Sock : conn'[s].deviceId \in {conn[s].deviceId, Null}
                               /\ conn'[s].pending \in {conn[s].pending, Null}
        PROVE  SpeechInv'
    BY <1>1, <1>2, SpeakersKept, ConsumesSpeech
  <1>3. ASSUME NEW s \in Sock, HubReceive(s) PROVE SpeechInv'
    <2>1. /\ toHub[s] # <<>> /\ toHub' = [toHub EXCEPT ![s] = Tail(@)]
          /\ link' = link /\ seen' = seen
      BY <1>3 DEF HubReceive
    <2>2. Consumes
      BY <1>1, <2>1 DEF Consumes
    <2>3. SameSpeakers
      BY <1>1, <1>3, <2>1, <2>2, ReceivedNames, SpeakersKept
    <2>4. \A t \in Sock : Readable(t)' = Readable(t)
      BY <1>1, <1>3, Received, ReceiveReadable
    <2> QED
      BY <1>1, <2>1, <2>2, <2>3, <2>4, ConsumesSpeech
  <1>4. NewConn.deviceId = Null /\ NewConn.pending = Null
    BY DEF NewConn
  <1>5. ASSUME NEW s \in Sock, HubEnds(s) PROVE SpeechInv'
    <2>1. /\ toHub' = [toHub EXCEPT ![s] = <<>>] /\ ready' = [ready EXCEPT ![s] = "ending"]
          /\ conn' = conn /\ link' = link /\ seen' = seen
      BY <1>5 DEF HubEnds, SocketDown
    <2>2. Consumes
      BY <1>1, <2>1 DEF Consumes
    <2>3. \A t \in Sock : Readable(t)' \/ toHub'[t] = <<>> \/ ~Readable(t)
      BY <1>1, <2>1 DEF Readable, Inv, TypeOK
    <2> QED
      BY <1>2, <2>1, <2>2, <2>3
  <1>6. ASSUME NEW s \in Sock, Close(s) PROVE SpeechInv'
    <2>1. /\ toHub' = toHub /\ link' = link /\ seen' = seen
          /\ ready[s] = "ending" /\ ready' = [ready EXCEPT ![s] = "free"]
          /\ conn' = [conn EXCEPT ![s] = NewConn]
      BY <1>6 DEF Close, OnClose
    <2>2. Consumes
      BY <2>1 DEF Consumes
    <2>3. \A t \in Sock : Readable(t)' \/ toHub'[t] = <<>> \/ ~Readable(t)
      BY <1>1, <2>1 DEF Readable, Inv, TypeOK
    <2>4. \A t \in Sock : conn'[t] = conn[t] \/ conn'[t] = NewConn
      BY <1>1, <2>1
    <2> QED
      BY <1>2, <1>4, <2>1, <2>2, <2>3, <2>4
  <1>7. ASSUME Restart, toHub' = [s \in Sock |-> <<>>], link' = link, seen' = seen
        PROVE  SpeechInv'
    <2>1. Consumes /\ \A s \in Sock : toHub'[s] = <<>>
      BY <1>7 DEF Consumes
    <2>2. \A s \in Sock : conn'[s] = NewConn
      BY <1>7 DEF Restart
    <2> QED
      BY <1>2, <1>4, <1>7, <2>1, <2>2
  <1>8. ASSUME toHub' = toHub, link' = link, seen' = seen, conn' = conn,
               \A s \in Sock : ready'[s] = ready[s] \/ ready'[s] = Closing(s)
        PROVE  SpeechInv'
    <2>1. Consumes
      BY <1>8 DEF Consumes
    <2>2. \A s \in Sock : Readable(s)' \/ ~Readable(s)
      BY <1>8 DEF Readable, Closing
    <2> QED
      BY <1>2, <1>8, <2>1, <2>2
  <1>9. CASE Resume
    BY <1>7, <1>9 DEF Resume
  <1>10. CASE Administer \/ Purge
    BY <1>8, <1>10 DEF Administer, RemoveDevice, EnrollDevice, Purge, PurgeQueue, clientVars
  <1>11. CASE Break /\ link' = link
    <2>1. ASSUME NEW d \in Device, ClientDown(d) PROVE FALSE
      BY <1>1, <1>11, <2>1 DEF ClientDown, ClientTypes
    <2>2. ASSUME NEW s \in Sock, SocketDown(s), toHub' = [toHub EXCEPT ![s] = <<>>],
                 seen' = seen
          PROVE  SpeechInv'
      <3>1. ready' = [ready EXCEPT ![s] = "ending"] /\ conn' = conn
        BY <2>2 DEF SocketDown
      <3>2. Consumes
        BY <1>1, <2>2 DEF Consumes
      <3>3. \A t \in Sock : Readable(t)' \/ toHub'[t] = <<>> \/ ~Readable(t)
        BY <1>1, <2>2, <3>1 DEF Readable, Inv, TypeOK
      <3> QED
        BY <1>2, <1>11, <2>2, <3>1, <3>2, <3>3
    <2>3. ASSUME NEW s \in Sock, NonceExpires(s), toHub' = toHub, seen' = seen
          PROVE  SpeechInv'
      <3>1. conn' = [conn EXCEPT ![s] = [conn[s] EXCEPT !.nonce = "stale"]] /\ ready' = ready
        BY <1>1, <2>3 DEF NonceExpires
      <3>2. \A t \in Sock : conn'[t].deviceId = conn[t].deviceId
                            /\ conn'[t].pending = conn[t].pending
        BY <1>1, <3>1 DEF ConnObject
      <3>3. Consumes
        BY <2>3 DEF Consumes
      <3>4. \A t \in Sock : Readable(t)' \/ ~Readable(t)
        BY <3>1 DEF Readable
      <3> QED
        BY <1>2, <1>11, <2>3, <3>2, <3>3, <3>4
    <2>4. ASSUME Shutdown, toHub' = toHub, seen' = seen
          PROVE  SpeechInv'
      BY <1>8, <1>11, <2>4 DEF Shutdown
    <2> QED
      BY <1>7, <1>11, <2>1, <2>2, <2>3, <2>4 DEF Break, clientVars
  <1> QED
    BY <1>3, <1>5, <1>6, <1>9, <1>10, <1>11

\* A client that speaks its own mind leaves everybody truthful.
LEMMA SpokenSpeech ==
    ASSUME FamilyInv, NEW d \in Device, link[d] # Null,
           conn' = conn, ready' = ready, link' = link,
           \A e \in Device : seen[e] \subseteq seen'[e],
           NEW frames \in Seq(HubFrame),
           \A i \in 1..Len(frames) : frames[i].t # "hello" /\ Truthful(frames[i], d)',
           \A s \in Sock \ {link[d]} : toHub'[s] = toHub[s],
           toHub'[link[d]] = IF Readable(link[d]) THEN toHub[link[d]] \o frames
                             ELSE toHub[link[d]]
    PROVE  SpeechInv'
  <1>1. ClientTypes /\ OneSpeaker /\ Drained /\ Honest
    BY DEF FamilyInv
  <1>2. \A s \in Sock : \A i \in DOMAIN toHub'[s] :
           \/ i \in DOMAIN toHub[s] /\ toHub'[s][i] = toHub[s][i]
           \/ s = link[d] /\ \E j \in 1..Len(frames) : toHub'[s][i] = frames[j]
    <2> SUFFICES ASSUME NEW s \in Sock, NEW i \in DOMAIN toHub'[s]
                 PROVE  \/ i \in DOMAIN toHub[s] /\ toHub'[s][i] = toHub[s][i]
                        \/ s = link[d] /\ \E j \in 1..Len(frames) : toHub'[s][i] = frames[j]
      OBVIOUS
    <2>1. CASE s # link[d] \/ ~Readable(s)
      BY <2>1
    <2>2. CASE s = link[d] /\ Readable(s)
      <3>1. toHub[s] \in Seq(HubFrame)
        BY <1>1 DEF ClientTypes
      <3> DEFINE q == toHub[s]
                 c == q \o frames
      <3>2. toHub'[s] = c
        BY <2>2
      <3>3. /\ \A k \in 1..Len(q) : c[k] = q[k]
            /\ \A k \in 1..Len(frames) : c[Len(q) + k] = frames[k]
            /\ \A k \in DOMAIN c : \/ k \in 1..Len(q)
                                   \/ k - Len(q) \in 1..Len(frames) /\ Len(q) + (k - Len(q)) = k
        BY <3>1, Joined
      <3>4. DOMAIN q = 1..Len(q)
        BY <3>1
      <3> HIDE DEF c, q
      <3>5. CASE i \in 1..Len(q)
        BY <3>2, <3>3, <3>4, <3>5 DEF q
      <3>6. CASE i - Len(q) \in 1..Len(frames) /\ Len(q) + (i - Len(q)) = i
        <4>1. c[Len(q) + (i - Len(q))] = frames[i - Len(q)]
          BY <3>3, <3>6
        <4> QED
          BY <2>2, <3>2, <3>6, <4>1
      <3> QED
        BY <3>2, <3>3, <3>5, <3>6
    <2> QED
      BY <2>1, <2>2
  <1>3. \A s \in Sock : \A e \in Device : Speaks(s, e)' => Speaks(s, e)
    BY <1>2 DEF Speaks
  <1>4. OneSpeaker'
    BY <1>1, <1>3 DEF OneSpeaker
  <1>5. Drained'
    <2> SUFFICES ASSUME NEW s \in Sock, ~Readable(s)' PROVE toHub'[s] = <<>>
      BY DEF Drained
    <2>1. ~Readable(s)
      BY DEF Readable
    <2>2. toHub'[s] = toHub[s]
      BY <2>1
    <2> QED
      BY <1>1, <2>1, <2>2 DEF Drained
  <1>6. Honest'
    <2> SUFFICES ASSUME NEW s \in Sock, NEW e \in Device, Speaks(s, e)',
                        NEW i \in DOMAIN toHub'[s]
                 PROVE  Truthful(toHub[s][i], e)'
      BY DEF Honest
    <2>1. Speaks(s, e)
      BY <1>3
    <2>2. CASE i \in DOMAIN toHub[s] /\ toHub'[s][i] = toHub[s][i]
      <3>1. Truthful(toHub[s][i], e)
        BY <1>1, <2>1, <2>2 DEF Honest
      <3> QED
        BY <2>2, <3>1 DEF Truthful
    <2>3. CASE s = link[d] /\ \E j \in 1..Len(frames) : toHub'[s][i] = frames[j]
      <3>1. e = d
        BY <1>1, <2>1, <2>3 DEF OneSpeaker, Speaks
      <3>2. PICK j \in 1..Len(frames) : toHub'[s][i] = frames[j]
        BY <2>3
      <3>3. Truthful(frames[j], d)'
        OBVIOUS
      <3> QED
        BY <3>1, <3>2, <3>3 DEF Truthful
    <2> QED
      BY <1>2, <2>2, <2>3
  <1> QED
    BY <1>4, <1>5, <1>6 DEF SpeechInv

\* What a client may send.
LEMMA AnswerTypes ==
    ASSUME NEW d \in Device, NEW frames, Answer(d, frames)
    PROVE  /\ frames \in Seq(HubFrame)
           /\ \A i \in 1..Len(frames) : frames[i].t # "hello" /\ Truthful(frames[i], d)'
  <1>1. CASE frames = <<>>
    BY <1>1
  <1>2. CASE frames = <<[t |-> "auth"]>>
    <2> DEFINE x == [t |-> "auth"]
    <2>1. x \in HubFrame /\ x.t = "auth"
      BY DEF HubFrame
    <2>2. frames = <<x>>
      BY <1>2
    <2> HIDE DEF x
    <2>3. x.t # "hello" /\ Truthful(x, d)'
      BY <2>1 DEF Truthful
    <2> QED
      BY <2>1, <2>2, <2>3, ShortSeq
  <1>3. CASE \E m \in Msg : m \in seen'[d] /\ frames = <<[t |-> "ack", ids |-> {m}]>>
    <2> PICK m \in Msg : m \in seen'[d] /\ frames = <<[t |-> "ack", ids |-> {m}]>>
      BY <1>3
    <2> DEFINE x == [t |-> "ack", ids |-> {m}]
    <2>1. {m} \in (SUBSET Msg) \ {{}}
      <3>1. {m} \in SUBSET Msg
        OBVIOUS
      <3>2. {m} # {}
        OBVIOUS
      <3> QED
        BY <3>1, <3>2, Zenon
    <2>2. x \in HubFrame /\ x.t = "ack" /\ x.ids = {m}
      BY <2>1 DEF HubFrame
    <2>3. frames = <<x>>
      OBVIOUS
    <2> HIDE DEF x
    <2>4. x.t # "hello" /\ Truthful(x, d)'
      BY <2>2 DEF Truthful
    <2> QED
      BY <2>2, <2>3, <2>4, ShortSeq
  <1> QED
    BY <1>1, <1>2, <1>3 DEF Answer

\* A message goes out in its author's name, to somebody.
LEMMA RequestTypes ==
    ASSUME ClientTypes, NEW d \in Device, NEW m \in Msg, ClientSend(d, m)
    PROVE  LET x == [t |-> "send", msg |-> m, to |-> known[d]]
           IN  /\ <<x>> \in Seq(HubFrame)
               /\ \A i \in 1..Len(<<x>>) : <<x>>[i].t # "hello" /\ Truthful(<<x>>[i], d)'
  <1> DEFINE x == [t |-> "send", msg |-> m, to |-> known[d]]
  <1>1. known[d] \in SUBSET Device /\ known[d] # {} /\ Author[m] = d /\ known' = known
    BY DEF ClientSend, ClientTypes
  <1>2. known[d] \in (SUBSET Device) \ {{}} /\ Author[m] = d /\ known' = known
    BY <1>1, Zenon
  <1>3. x \in HubFrame /\ x.t = "send" /\ x.msg = m
    BY <1>2 DEF HubFrame
  <1>4. x' = x
    BY <1>2
  <1> HIDE DEF x
  <1>5. x.t # "hello" /\ Truthful(x, d)'
    BY <1>2, <1>3, <1>4 DEF Truthful
  <1>6. <<x>> \in Seq(HubFrame) /\ \A i \in 1..Len(<<x>>) : <<x>>[i] = x
    BY <1>3, ShortSeq
  <1>7. \A i \in 1..Len(<<x>>) : <<x>>[i].t # "hello" /\ Truthful(<<x>>[i], d)'
    BY <1>4, <1>5, <1>6
  <1> QED
    BY <1>6, <1>7 DEF x

\* The clients' steps.
LEMMA ClientSpeech ==
    ASSUME FamilyInv, NEW d \in Device,
           \/ Open(d) \/ Read(d) \/ ClientEnds(d)
           \/ \E m \in Msg : Write(d, m)
           \/ Break /\ ClientDown(d) /\ UNCHANGED vars
    PROVE  SpeechInv'
  <1>1. /\ ClientTypes /\ OneSpeaker /\ Drained /\ Honest
        /\ toHub \in [Sock -> Seq(HubFrame)] /\ conn \in [Sock -> ConnObject]
    BY DEF FamilyInv, HubInv, Inv, TypeOK, ClientTypes
  <1>2. CASE Read(d)
    <2>1. ClientRead(d) /\ conn' = conn /\ ready' = ready
      BY <1>2 DEF Read, vars
    <2>2. PICK frames : Answer(d, frames) /\ Send(d, Tail(toPeer[link[d]]), frames)
      BY <1>1, <2>1, ReadEffect
    <2>3. link' = link /\ \A e \in Device : seen[e] \subseteq seen'[e]
      BY <1>1, <2>1, ReadEffect
    <2>4. link[d] # Null /\ Tail(toPeer[link[d]]) \in Seq(PeerFrame)
      BY <1>1, <2>1, IncomingType DEF ClientRead
    <2>5. /\ frames \in Seq(HubFrame)
          /\ \A i \in 1..Len(frames) : frames[i].t # "hello" /\ Truthful(frames[i], d)'
      BY <2>2, AnswerTypes
    <2>6. /\ \A s \in Sock \ {link[d]} : toHub'[s] = toHub[s]
          /\ toHub'[link[d]] = IF Readable(link[d]) THEN toHub[link[d]] \o frames
                               ELSE toHub[link[d]]
      BY <1>1, <2>2, <2>4, <2>5, SendTypes
    <2> QED
      BY <2>1, <2>3, <2>4, <2>5, <2>6, SpokenSpeech
  <1>3. ASSUME NEW m \in Msg, Write(d, m) PROVE SpeechInv'
    <2> DEFINE frames == <<[t |-> "send", msg |-> m, to |-> known[d]]>>
    <2>1. /\ ClientSend(d, m) /\ conn' = conn /\ ready' = ready /\ link' = link
          /\ seen' = seen /\ known' = known /\ link[d] # Null
          /\ Send(d, toPeer[link[d]], frames) /\ toPeer[link[d]] \in Seq(PeerFrame)
      BY <1>1, <1>3 DEF Write, vars, ClientSend, ClientTypes
    <2>2. /\ frames \in Seq(HubFrame)
          /\ \A i \in 1..Len(frames) : frames[i].t # "hello" /\ Truthful(frames[i], d)'
      BY <1>1, <2>1, RequestTypes
    <2>3. /\ \A s \in Sock \ {link[d]} : toHub'[s] = toHub[s]
          /\ toHub'[link[d]] = IF Readable(link[d]) THEN toHub[link[d]] \o frames
                               ELSE toHub[link[d]]
      BY <1>1, <2>1, <2>2, SendTypes
    <2>4. PICK fs : fs = frames
      OBVIOUS
    <2>5. fs \in Seq(HubFrame) /\ \A i \in 1..Len(fs) : fs[i].t # "hello" /\ Truthful(fs[i], d)'
      BY <2>1, <2>2, <2>4
    <2>6. toHub'[link[d]] = IF Readable(link[d]) THEN toHub[link[d]] \o fs ELSE toHub[link[d]]
      BY <2>3, <2>4
    <2> QED
      BY <2>1, <2>3, <2>5, <2>6, SpokenSpeech
  <1>4. CASE Open(d)
    <2> PICK s \in Sock : Connect(s) /\ ClientConnect(d, s)
      BY <1>4 DEF Open
    <2> DEFINE x == [t |-> "hello", deviceId |-> d]
    <2>1. /\ ready[s] = "free" /\ ready' = [ready EXCEPT ![s] = "open"]
          /\ conn' = [conn EXCEPT ![s] = NewConn] /\ link[d] = Null
          /\ \A e \in Device : link[e] # s
          /\ link' = [link EXCEPT ![d] = s] /\ toHub' = [toHub EXCEPT ![s] = <<x>>]
          /\ seen' = seen
      BY DEF Connect, ClientConnect
    <2>2. x.t = "hello" /\ x.deviceId = d
      OBVIOUS
    <2> HIDE DEF x
    <2>3. /\ toHub'[s] = <<x>> /\ conn'[s] = NewConn /\ Readable(s)'
          /\ \A t \in Sock \ {s} : /\ toHub'[t] = toHub[t] /\ conn'[t] = conn[t]
                                   /\ ready'[t] = ready[t]
      BY <1>1, <2>1 DEF FamilyInv, HubInv, Inv, TypeOK, Readable
    <2>4. \A e \in Device : link'[e] = IF e = d THEN s ELSE link[e]
      BY <1>1, <2>1 DEF ClientTypes
    <2>5. \A i \in DOMAIN <<x>> : <<x>>[i] = x
      OBVIOUS
    <2>6. \A e \in Device : Speaks(s, e)' => e = d
      BY <2>1, <2>2, <2>3, <2>4, <2>5, DeviceAssumption DEF Speaks, NewConn
    <2>7. \A t \in Sock \ {s} : \A e \in Device : Speaks(t, e)' => Speaks(t, e)
      BY <2>3, <2>4 DEF Speaks
    <2>8. OneSpeaker'
      BY <1>1, <2>6, <2>7 DEF OneSpeaker
    <2>9. Drained'
      BY <1>1, <2>3 DEF Drained, Readable
    <2>10. Honest'
      <3> SUFFICES ASSUME NEW t \in Sock, NEW e \in Device, Speaks(t, e)',
                          NEW i \in DOMAIN toHub'[t]
                   PROVE  Truthful(toHub[t][i], e)'
        BY DEF Honest
      <3>1. CASE t = s
        BY <2>2, <2>3, <2>5, <3>1 DEF Truthful
      <3>2. CASE t # s
        <4>1. Truthful(toHub[t][i], e)
          BY <1>1, <2>3, <2>7, <3>2 DEF Honest
        <4> QED
          BY <2>1, <2>3, <3>2, <4>1 DEF Truthful
      <3> QED
        BY <3>1, <3>2
    <2> QED
      BY <2>8, <2>9, <2>10 DEF SpeechInv
  <1>5. ASSUME ClientDown(d), conn' = conn, ready' = ready
        PROVE  SpeechInv'
    <2>1. link' = [link EXCEPT ![d] = Null] /\ toHub' = toHub /\ seen' = seen
      BY <1>5 DEF ClientDown
    <2>2. \A e \in Device : link'[e] = link[e] \/ link'[e] = Null
      BY <1>1, <2>1 DEF ClientTypes
    <2>3. \A t \in Sock : \A e \in Device : Speaks(t, e)' => Speaks(t, e)
      BY <1>5, <2>1, <2>2, SockAssumption DEF Speaks
    <2>4. \A t \in Sock : \A i \in DOMAIN toHub[t] : \A e \in Device :
             Truthful(toHub[t][i], e) => Truthful(toHub[t][i], e)'
      BY <2>1 DEF Truthful
    <2>5. Honest'
      BY <1>1, <2>1, <2>3, <2>4 DEF Honest
    <2> QED
      BY <1>1, <1>5, <2>1, <2>3, <2>5 DEF SpeechInv, OneSpeaker, Drained, Readable
  <1> QED
    BY <1>2, <1>3, <1>4, <1>5 DEF ClientEnds, vars

-----------------------------------------------------------------------------
(* Part 6.  The family's invariant is inductive. *)

\* What is written this step is legible.
LEMMA TransmitTypes ==
    ASSUME ClientTypes, Transmit, \A t \in Sock : News(t), outbox' \subseteq Row
    PROVE  toPeer' \in [Sock -> Seq(PeerFrame)]
  <1>1. \A t \in Sock : OnWire(out'[t]) \in Seq(PeerFrame) /\ toPeer[t] \in Seq(PeerFrame)
    BY WireTypes DEF ClientTypes
  <1>2. \A t \in Sock : toPeer[t] \o OnWire(out'[t]) \in Seq(PeerFrame)
    BY <1>1, Joined
  <1>3. <<>> \in Seq(PeerFrame)
    BY ShortSeq
  <1>4. \A t \in Sock : (IF Linked(t) THEN toPeer[t] \o OnWire(out'[t]) ELSE <<>>)
                        \in Seq(PeerFrame)
    BY <1>2, <1>3
  <1> QED
    BY <1>4 DEF Transmit

\* The clients and the wire keep their types.
LEMMA FamilyTypes ==
    ASSUME FamilyInv, [SystemNext]_sysVars, outbox' \subseteq Row
    PROVE  ClientTypes'
  <1>1. /\ ClientTypes /\ Inv /\ TableInv /\ toHub \in [Sock -> Seq(HubFrame)]
        /\ toPeer \in [Sock -> Seq(PeerFrame)] /\ link \in [Device -> Sock \cup {Null}]
        /\ upsets \in 0..MaxUpsets /\ gone \subseteq Device
    BY DEF FamilyInv, HubInv, ClientTypes
  <1>2. \A q \in Seq(HubFrame) : q # <<>> => Tail(q) \in Seq(HubFrame)
    BY FirstAndRest
  <1>3. <<>> \in Seq(HubFrame) /\ <<>> \in Seq(PeerFrame)
    BY ShortSeq
  <1>4. ASSUME toHub' \in [Sock -> Seq(HubFrame)], toPeer' \in [Sock -> Seq(PeerFrame)],
               UNCHANGED <<link, welcomed, known, seen, tried, confirmed>>,
               upsets' \in 0..MaxUpsets, gone' \subseteq Device
        PROVE  ClientTypes'
    BY <1>1, <1>4 DEF ClientTypes
  <1>5. ASSUME NEW s \in Sock, HubReceive(s) PROVE ClientTypes'
    <2>1. \A t \in Sock : News(t)
      BY <1>1, <1>5, Received, MessageNews
    <2>2. /\ Transmit /\ toHub' = [toHub EXCEPT ![s] = Tail(@)] /\ toHub[s] # <<>>
          /\ UNCHANGED <<link, welcomed, known, seen, tried, confirmed, upsets, gone>>
      BY <1>5 DEF HubReceive
    <2>3. toPeer' \in [Sock -> Seq(PeerFrame)]
      BY <1>1, <2>1, <2>2, TransmitTypes
    <2>4. toHub' \in [Sock -> Seq(HubFrame)]
      BY <1>1, <1>2, <2>2
    <2> QED
      BY <1>1, <1>4, <2>2, <2>3, <2>4
  <1>6. ASSUME NEW s \in Sock, Close(s) PROVE ClientTypes'
    <2>1. \A t \in Sock : News(t)
      BY <1>1, <1>6, CloseNews, UnaskedNews DEF Close
    <2>2. /\ Transmit
          /\ UNCHANGED <<link, welcomed, known, seen, tried, confirmed, toHub, upsets, gone>>
      BY <1>6 DEF Close
    <2>3. toPeer' \in [Sock -> Seq(PeerFrame)]
      BY <1>1, <2>1, <2>2, TransmitTypes
    <2> QED
      BY <1>1, <1>4, <2>2, <2>3
  <1>7. ASSUME NEW s \in Sock, HubEnds(s) PROVE ClientTypes'
    <2>1. /\ toHub' = [toHub EXCEPT ![s] = <<>>]
          /\ UNCHANGED <<link, welcomed, known, seen, tried, confirmed, toPeer, upsets, gone>>
      BY <1>7 DEF HubEnds
    <2> QED
      BY <1>1, <1>3, <1>4, <2>1
  <1>8. ASSUME NEW d \in Device, ClientDown(d), upsets' \in 0..MaxUpsets, gone' = gone
        PROVE  ClientTypes'
    <2>1. link[d] \in Sock /\ toHub' = toHub /\ toPeer' = [toPeer EXCEPT ![link[d]] = <<>>]
      BY <1>1, <1>8 DEF ClientDown
    <2>2. toPeer' \in [Sock -> Seq(PeerFrame)]
      BY <1>1, <1>3, <2>1
    <2>3. /\ link' = [link EXCEPT ![d] = Null] /\ welcomed' = [welcomed EXCEPT ![d] = FALSE]
          /\ UNCHANGED <<known, seen, tried, confirmed>>
      BY <1>8 DEF ClientDown
    <2> QED
      BY <1>1, <1>8, <2>1, <2>2, <2>3 DEF ClientTypes
  <1>9. ASSUME NEW d \in Device, Open(d) PROVE ClientTypes'
    <2>1. PICK s \in Sock : ClientConnect(d, s)
      BY <1>9 DEF Open
    <2> DEFINE x == [t |-> "hello", deviceId |-> d]
    <2>2. x \in HubFrame
      BY DEF HubFrame
    <2>3. /\ toHub' = [toHub EXCEPT ![s] = <<x>>] /\ toPeer' = [toPeer EXCEPT ![s] = <<>>]
          /\ link' = [link EXCEPT ![d] = s] /\ link[d] = Null
          /\ UNCHANGED <<welcomed, known, seen, tried, confirmed, upsets, gone>>
      BY <1>9, <2>1 DEF ClientConnect, Open
    <2> HIDE DEF x
    <2>4. <<x>> \in Seq(HubFrame)
      BY <2>2, ShortSeq
    <2>5. toHub' \in [Sock -> Seq(HubFrame)] /\ toPeer' \in [Sock -> Seq(PeerFrame)]
      BY <1>1, <1>3, <2>3, <2>4
    <2>6. link' \in [Device -> Sock \cup {Null}]
          /\ \A e \in Device : link[e] # Null => link'[e] # Null
      BY <1>1, <2>3
    <2> QED
      BY <1>1, <2>3, <2>5, <2>6 DEF ClientTypes
  <1>10. ASSUME NEW d \in Device, Read(d) PROVE ClientTypes'
    <2>1. ClientRead(d) /\ upsets' = upsets /\ gone' = gone /\ link[d] # Null
      BY <1>10 DEF Read, ClientRead
    <2>2. PICK frames : Answer(d, frames) /\ Send(d, Tail(toPeer[link[d]]), frames)
      BY <1>1, <2>1, ReadEffect
    <2>3. frames \in Seq(HubFrame)
      BY <2>2, AnswerTypes
    <2>4. Tail(toPeer[link[d]]) \in Seq(PeerFrame)
      BY <1>1, <2>1, IncomingType DEF ClientRead
    <2>5. toHub' \in [Sock -> Seq(HubFrame)] /\ toPeer' \in [Sock -> Seq(PeerFrame)]
      BY <1>1, <2>1, <2>2, <2>3, <2>4, SendTypes
    <2>6. /\ link' = link
          /\ welcomed' \in [Device -> BOOLEAN]
          /\ \A e \in Device : welcomed'[e] => welcomed[e] \/ e = d
          /\ known' \in [Device -> SUBSET Device]
          /\ seen' \in [Device -> SUBSET Msg]
          /\ tried' \in [Device -> SUBSET Transmission] /\ confirmed' \subseteq Transmission
      BY <1>1, <2>1, ReadEffect
    <2> QED
      BY <1>1, <2>1, <2>5, <2>6 DEF ClientTypes
  <1>11. ASSUME NEW d \in Device, NEW m \in Msg, Write(d, m) PROVE ClientTypes'
    <2> DEFINE frames == <<[t |-> "send", msg |-> m, to |-> known[d]]>>
    <2>1. /\ ClientSend(d, m) /\ UNCHANGED <<link, welcomed, known, seen, confirmed, upsets, gone>>
          /\ tried' = [tried EXCEPT ![d] = @ \cup {[msg |-> m, to |-> known[d]]}]
          /\ Send(d, toPeer[link[d]], frames) /\ link[d] # Null
      BY <1>1, <1>11 DEF Write, ClientSend, ClientTypes
    <2>2. frames \in Seq(HubFrame)
      BY <1>1, <2>1, RequestTypes
    <2>3. toPeer[link[d]] \in Seq(PeerFrame)
      BY <1>1, <2>1
    <2>4. toHub' \in [Sock -> Seq(HubFrame)] /\ toPeer' \in [Sock -> Seq(PeerFrame)]
      BY <1>1, <2>1, <2>2, <2>3, SendTypes
    <2>5. known[d] \in SUBSET Device
      BY <1>1 DEF ClientTypes
    <2>6. [msg |-> m, to |-> known[d]] \in Transmission
      BY <2>5 DEF Transmission
    <2>7. tried' \in [Device -> SUBSET Transmission]
      BY <1>1, <2>1, <2>6 DEF ClientTypes
    <2> QED
      BY <1>1, <2>1, <2>4, <2>7 DEF ClientTypes
  <1>12. CASE Resume
    BY <1>1, <1>3, <1>4, <1>12 DEF Resume
  <1>13. CASE Purge
    BY <1>1, <1>4, <1>13 DEF Purge, clientVars
  <1>14. Upset => upsets' \in 0..MaxUpsets
    BY <1>1, UpsetsAssumption DEF Upset
  <1>15. CASE Break
    <2>1. gone' = gone /\ upsets' \in 0..MaxUpsets
      BY <1>14, <1>15 DEF Break
    <2>2. ASSUME NEW d \in Device, ClientDown(d) PROVE ClientTypes'
      BY <1>8, <2>1, <2>2
    <2>3. ASSUME NEW s \in Sock, toHub' = [toHub EXCEPT ![s] = <<>>],
                 UNCHANGED <<link, welcomed, known, seen, tried, confirmed, toPeer>>
          PROVE  ClientTypes'
      BY <1>1, <1>3, <1>4, <2>1, <2>3
    <2>4. ASSUME UNCHANGED clientVars PROVE ClientTypes'
      BY <1>1, <1>4, <2>1, <2>4 DEF clientVars
    <2>5. ASSUME toHub' = [s \in Sock |-> <<>>],
                 UNCHANGED <<link, welcomed, known, seen, tried, confirmed, toPeer>>
          PROVE  ClientTypes'
      BY <1>1, <1>3, <1>4, <2>1, <2>5
    <2> QED
      BY <1>15, <2>2, <2>3, <2>4, <2>5 DEF Break
  <1>16. CASE Administer
    BY <1>1, <1>4, <1>14, <1>16, ManagedAssumption DEF Administer, clientVars
  <1>17. CASE UNCHANGED sysVars
    BY <1>1, <1>4, <1>17 DEF sysVars, clientVars
  <1> QED
    BY <1>1, <1>5, <1>6, <1>7, <1>8, <1>9, <1>10, <1>11, <1>12, <1>13, <1>15, <1>16, <1>17
    DEF SystemNext, ClientEnds

\* Where the family starts.
LEMMA FamilyInit == SystemInit => FamilyInv
  <1> SUFFICES ASSUME SystemInit PROVE FamilyInv
    OBVIOUS
  <1>1. Init /\ ClientInit /\ upsets = MaxUpsets /\ gone = {}
    BY DEF SystemInit
  <1>2. <<>> \in Seq(HubFrame) /\ <<>> \in Seq(PeerFrame) /\ DOMAIN <<>> = {}
    BY ShortSeq
  <1>3. HubInv
    <2>1. outbox = {} /\ cli = Null
      BY <1>1 DEF Init
    <2>2. TableInv
      BY <2>1, FS_EmptySet DEF TableInv, Table
    <2> QED
      BY <1>1, <2>1, <2>2, InvInit DEF HubInv, CliInv
  <1>4. ClientTypes
    BY <1>1, <1>2, UpsetsAssumption DEF ClientInit, ClientTypes
  <1>5. \A s \in Sock : \A d \in Device : ~Speaks(s, d)
    BY <1>1, <1>2, SockAssumption, DeviceAssumption
    DEF ClientInit, Init, ServerInit, NewConn, Speaks
  <1>6. Drained
    BY <1>1 DEF ClientInit, Drained
  <1> QED
    BY <1>3, <1>4, <1>5, <1>6 DEF FamilyInv, OneSpeaker, Honest

\* No step of the hub, of a client, of the network or of the administrator breaks it.
LEMMA FamilyNext ==
    ASSUME FamilyInv, [SystemNext]_sysVars
    PROVE  FamilyInv'
  <1>1. [Next]_vars
    BY FamilyStep
  <1>2. HubInv'
    BY <1>1, InvNext, CliStep, TableStep DEF FamilyInv, HubInv
  <1>3. outbox' \subseteq Row
    BY <1>2 DEF HubInv, TableInv, Table
  <1>4. ClientTypes'
    BY <1>3, FamilyTypes
  <1>5. SpeechInv'
    <2>1. CASE \E s \in Sock : HubReceive(s) \/ HubEnds(s) \/ Close(s)
      BY <2>1, HubSpeech
    <2>2. CASE Resume \/ Administer \/ Purge
      BY <2>2, HubSpeech
    <2>3. CASE Break
      <3>1. \/ link' = link
            \/ \E d \in Device : ClientDown(d) /\ UNCHANGED vars
        BY <2>3 DEF Break, clientVars
      <3> QED
        BY <2>3, <3>1, HubSpeech, ClientSpeech
    <2>4. CASE \E d \in Device : \/ Open(d) \/ Read(d) \/ ClientEnds(d)
                                 \/ \E m \in Msg : Write(d, m)
      BY <2>4, ClientSpeech
    <2>5. CASE UNCHANGED sysVars
      BY <2>5 DEF sysVars, vars, clientVars, FamilyInv, SpeechInv, OneSpeaker, Drained, Honest,
                  Speaks, Readable, Truthful
    <2> QED
      BY <2>1, <2>2, <2>3, <2>4, <2>5 DEF SystemNext
  <1> QED
    BY <1>2, <1>4, <1>5 DEF FamilyInv, SpeechInv

\* The invariant that the theorems of this module rest on.
LEMMA FamilyAlways == SystemSpec => []FamilyInv
  <1>1. FamilyInv /\ [SystemNext]_sysVars => FamilyInv'
    BY FamilyNext
  <1> QED
    BY <1>1, FamilyInit, PTL DEF SystemSpec

\* The family runs the hub: whatever its clients send and whenever connections
\* break, the hub's part of every behaviour is one of module Hub (server.js and
\* router.js handle what a peer sends, and what a client sends is among it), so
\* that all theorems about Spec are theorems about the family.
THEOREM FamilyRunsTheHub == SystemSpec => Spec
  <1>1. SystemInit => Init
    BY DEF SystemInit
  <1>2. FamilyInv /\ [SystemNext]_sysVars => [Next]_vars
    BY FamilyStep
  <1> QED
    BY <1>1, <1>2, FamilyAlways, PTL DEF SystemSpec, Spec

\* Only HandleAck and PurgeQueue take rows away: an ack on a connection is that
\* of its device (OneSpeaker), whose client acks what it has taken (Honest), and
\* the purge follows the removal (CliInv).
LEMMA RowLeaves ==
    ASSUME FamilyInv, [SystemNext]_sysVars, NEW r \in outbox,
           \A x \in outbox' : x.msg # r.msg \/ x.to # r.to
    PROVE  r.msg \in seen[r.to] \/ ~Registered(r.to)
  <1>1. /\ Inv /\ CliInv /\ TableInv /\ ClientTypes /\ Honest
        /\ r \notin outbox' /\ outbox \in SUBSET Row
    BY DEF FamilyInv, HubInv, TableInv, Table
  <1>2. ASSUME NEW table \in SUBSET Row, r \in table, NEW rows,
               outbox' = MarkDelivered(table, rows)
        PROVE  FALSE
    BY <1>2, MarkedLetter
  <1>3. ASSUME NEW s \in Sock, conn[s].authed, HubReceive(s),
               \E ids : HandleAck(s, ids) /\ ids = Head(toHub[s]).ids /\ Head(toHub[s]).t = "ack"
        PROVE  r.msg \in seen[r.to]
    <2> PICK ids : HandleAck(s, ids) /\ ids = Head(toHub[s]).ids /\ Head(toHub[s]).t = "ack"
      BY <1>3
    <2> DEFINE d == conn[s].deviceId
               f == Head(toHub[s])
    <2>1. r.to = d /\ r.msg \in ids
      BY <1>1 DEF HandleAck, Acked, Queue
    <2>2. d \in Device /\ Speaks(s, d)
      BY <1>1, <1>3 DEF Inv, RegistryConsistent, TypeOK, ConnObject, Speaks
    <2>3. f = toHub[s][1] /\ 1 \in DOMAIN toHub[s]
      BY <1>1, <1>3, FirstAndRest DEF HubReceive, ClientTypes
    <2>4. Truthful(f, d)
      BY <1>1, <2>2, <2>3 DEF Honest
    <2> QED
      BY <2>1, <2>4 DEF Truthful
  <1>4. ASSUME NEW s \in Sock, HubReceive(s)
        PROVE  r.msg \in seen[r.to]
    <2> DEFINE f     == Head(toHub[s])
               hello == [version |-> "spoken", deviceId |-> f.deviceId, name |-> Null]
               auth  == [sig |-> CHOOSE k \in Key : TRUE]
    <2>1. \/ /\ ~conn[s].authed
             /\ \/ f.t = "hello" /\ (HelloRefused(s, hello) \/ HelloAccepted(s, hello))
                \/ f.t = "auth"  /\ (AuthRefused(s, auth) \/ AuthAccepted(s, auth))
                \/ f.t \in {"send", "ack"} /\ OnUnexpected(s)
          \/ /\ conn[s].authed
             /\ \/ f.t = "send" /\ \E now \in {n \in 0..MaxClock : n \in {clock, clock + 1}} :
                      HandleSend(s, f.msg, f.to, now)
                \/ f.t = "ack"  /\ HandleAck(s, f.ids)
      BY <1>4 DEF HubReceive
    <2>2. CASE f.t = "ack" /\ conn[s].authed /\ HandleAck(s, f.ids)
      BY <1>3, <1>4, <2>2
    <2>3. AuthAccepted(s, auth) => FALSE
      <3> DEFINE rows == Pending(outbox, conn[s].pending, FALSE)
      <3>1. AuthAccepted(s, auth) => outbox' = MarkDelivered(outbox, rows)
        BY DEF AuthAccepted
      <3> HIDE DEF rows
      <3> QED
        BY <1>1, <1>2, <3>1
    <2>4. ASSUME NEW now \in 0..MaxClock, conn[s].authed, f.t = "send",
                 HandleSend(s, f.msg, f.to, now)
          PROVE  FALSE
      <3> DEFINE d        == conn[s].deviceId
                 accepted == Accepted(d, f.to)
                 queued   == outbox \cup Inserted(d, f.msg, accepted, now)
                 marked   == UNION {Pending(queued, e, TRUE) : e \in PushTargets(accepted)}
      <3>1. outbox' = MarkDelivered(queued, marked) /\ r \in queued
        BY <2>4 DEF HandleSend
      <3>2. f \in HubFrame
        BY <1>1, <1>4, FirstAndRest DEF HubReceive, ClientTypes
      <3>3. f.msg \in Msg /\ f.to \in SUBSET Device
        BY <2>4, <3>2 DEF HubFrame
      <3>4. d \in Device
        BY <1>1, <2>4 DEF Inv, RegistryConsistent, TypeOK, ConnObject
      <3> HIDE DEF d, f
      <3>5. Inserted(d, f.msg, accepted, now) \in SUBSET Row
        BY <3>3, <3>4, InsertedType
      <3>6. queued \in SUBSET Row
        BY <1>1, <3>5
      <3> HIDE DEF queued, marked
      <3> QED
        BY <1>2, <3>1, <3>6
    <2>5. CASE outbox' = outbox
      BY <1>1, <2>5
    <2> QED
      BY <2>1, <2>2, <2>3, <2>4, <2>5
      DEF HelloRefused, HelloAccepted, AuthRefused, OnUnexpected
  <1>5. CASE Purge
    <2>1. outbox' = outbox \ Queue(cli) /\ cli # Null
      BY <1>5 DEF Purge, PurgeQueue
    <2>2. r.to = cli
      BY <1>1, <2>1 DEF Queue
    <2> QED
      BY <1>1, <2>1, <2>2 DEF CliInv, Registered
  <1>6. CASE outbox' = outbox
    BY <1>1, <1>6
  <1> QED
    BY <1>4, <1>5, <1>6
    DEF SystemNext, HubEnds, SocketDown, Close, OnClose, Open, Connect, Read, ClientEnds, Write,
        vars, sysVars, Resume, Restart, Break, NonceExpires, Shutdown, Administer,
        RemoveDevice, EnrollDevice

\* A row leaves the queue only when its recipient's client has taken the message,
\* or when the recipient is no longer enrolled (PROTOCOL.md section 6, rule 1;
\* router.js, handleAck; enroll.js, remove).
THEOREM AckedOrRemoved == SystemSpec => LeavesOnlyShown
  <1> DEFINE Step == \A r \in outbox : (\A x \in outbox' : x.msg # r.msg \/ x.to # r.to)
                        => r.msg \in seen[r.to] \/ ~Registered(r.to)
  <1>1. FamilyInv /\ [SystemNext]_sysVars => [Step]_sysVars
    BY RowLeaves
  <1>2. SystemSpec => [][Step]_sysVars
    BY <1>1, FamilyAlways, PTL DEF SystemSpec
  <1> QED
    BY <1>2 DEF LeavesOnlyShown

-----------------------------------------------------------------------------
(* Part 7.  Who is on the member lists. *)

\* Who may be the sender of a delivery, now or later.
Active(x) == Online(x) \/ \E r \in outbox : r.from = x

\* A device that is enrolled, or was.
Named(x) == Registered(x) \/ x \in gone

\* Nobody queues a message for himself, and the senders are on every list that
\* was sent to somebody who is online.
Roster ==
    /\ \A r \in outbox : r.from # r.to
    /\ \A x \in Device : Active(x) => Named(x)
    /\ \A d, x \in Device : Online(d) /\ Active(x) => x \in gone \/ conn[conns[d]].fp[x] # Null

\* Marking keeps both ends of a row.
LEMMA MarkedEnds ==
    ASSUME NEW table \in SUBSET Row, NEW rows, rows \subseteq table,
           NEW r \in MarkDelivered(table, rows)
    PROVE  \E q \in table : r.from = q.from /\ r.to = q.to
  <1>1. CASE r \in table
    BY <1>1
  <1>2. CASE \E q \in rows : r = [q EXCEPT !.delivered = TRUE]
    <2> PICK q \in rows : r = [q EXCEPT !.delivered = TRUE]
      BY <1>2
    <2> QED
      BY DEF Row
  <1> QED
    BY <1>1, <1>2 DEF MarkDelivered

\* A row is new only if its sender is online and sent it to another member.
LEMMA RowOrigin ==
    ASSUME Inv, [Next]_vars, NEW r \in outbox'
    PROVE  \/ \E q \in outbox : r.from = q.from /\ r.to = q.to
           \/ r.from \in Device /\ Online(r.from) /\ r.from # r.to /\ Registered(r.to)
  <1>1. outbox \in SUBSET Row
    BY DEF Inv, TypeOK
  <1>2. CASE outbox' \subseteq outbox
    BY <1>2
  <1>3. ASSUME NEW s \in Sock, NEW f, AuthAccepted(s, f)
        PROVE  \E q \in outbox : r.from = q.from /\ r.to = q.to
    <2> DEFINE rows == Pending(outbox, conn[s].pending, FALSE)
    <2>1. rows \subseteq outbox /\ outbox' = MarkDelivered(outbox, rows)
      BY <1>3 DEF AuthAccepted, Pending
    <2> HIDE DEF rows
    <2> QED
      BY <1>1, <2>1, MarkedEnds
  <1>4. ASSUME NEW s \in Sock, conn[s].authed, NEW m \in Msg, NEW to \in SUBSET Device,
               NEW now \in 0..MaxClock, HandleSend(s, m, to, now)
        PROVE  \/ \E q \in outbox : r.from = q.from /\ r.to = q.to
               \/ r.from \in Device /\ Online(r.from) /\ r.from # r.to /\ Registered(r.to)
    <2> DEFINE d        == conn[s].deviceId
               accepted == Accepted(d, to)
               new      == Inserted(d, m, accepted, now)
               queued   == outbox \cup new
               pushed   == UNION {Pending(queued, e, TRUE) : e \in PushTargets(accepted)}
    <2>1. outbox' = MarkDelivered(queued, pushed)
      BY <1>4 DEF HandleSend
    <2>2. d \in Device /\ Online(d)
      BY <1>4, SockAssumption DEF Inv, TypeOK, ConnObject, RegistryConsistent, Online
    <2>3. d \notin accepted /\ \A e \in accepted : Registered(e)
      BY DEF Accepted
    <2>4. new \in SUBSET Row /\ \A q \in new : q.to \in accepted
      BY <2>2, InsertedType
    <2>5. \A q \in new : q.from = d
      BY DEF Inserted
    <2>6. pushed \subseteq queued
      BY DEF Pending
    <2> HIDE DEF new, accepted, pushed, d
    <2>7. queued \in SUBSET Row
      BY <1>1, <2>4
    <2>8. PICK q \in queued : r.from = q.from /\ r.to = q.to
      BY <2>1, <2>6, <2>7, MarkedEnds
    <2> QED
      BY <2>2, <2>3, <2>4, <2>5, <2>8
  <1>5. ASSUME NEW s \in Sock, OnMessage(s)
        PROVE  \/ \E q \in outbox : r.from = q.from /\ r.to = q.to
               \/ r.from \in Device /\ Online(r.from) /\ r.from # r.to /\ Registered(r.to)
    <2>1. CASE conn[s].authed /\ Handle(s)
      <3>1. CASE HandlePing(s) \/ RefuseFrame(s) \/ RefuseRate(s)
        BY <3>1 DEF HandlePing, RefuseFrame, RefuseRate
      <3>2. ASSUME NEW ids, HandleAck(s, ids) PROVE outbox' \subseteq outbox
        BY <3>2 DEF HandleAck
      <3> QED
        BY <1>2, <1>4, <2>1, <3>1, <3>2 DEF Handle
    <2>2. CASE ~conn[s].authed /\ OnUnauthenticatedFrame(s)
      BY <1>2, <1>3, <2>2
      DEF OnUnauthenticatedFrame, OnUnexpected, HelloRefused, HelloAccepted, AuthWithoutHello,
          AuthRefused
    <2> QED
      BY <1>2, <1>5, <2>1, <2>2 DEF OnMessage, OnGarbage
  <1>6. ASSUME NEW s \in Sock, \/ Connect(s) \/ RejectPeer(s) \/ NonceExpires(s)
                               \/ SocketDown(s) \/ OnClose(s)
        PROVE  outbox' = outbox
    BY <1>6 DEF Connect, RejectPeer, NonceExpires, SocketDown, OnClose
  <1>7. Shutdown \/ Restart \/ UNCHANGED vars => outbox' = outbox
    BY DEF Shutdown, Restart, vars
  <1>8. EnrollNext => outbox' \subseteq outbox
    BY DEF EnrollNext, EnrollDevice, RemoveDevice, PurgeQueue, RemoveAborts
  <1> QED
    BY <1>2, <1>5, <1>6, <1>7, <1>8 DEF Next, ServerNext

\* Who comes online is enrolled.
LEMMA NewcomerEnrolled ==
    ASSUME Inv, [Next]_vars, NEW x \in Device, Online(x)', ~Online(x)
    PROVE  Registered(x)
  <1>1. ASSUME NEW s \in Sock, NEW f \in AuthFrames, AuthAccepted(s, f)
        PROVE  Registered(x)
    <2> DEFINE d == conn[s].pending
    <2>1. AuthVerdict(d, f, conn[s].nonce) = "OK"
      BY <1>1 DEF AuthAccepted, Verified
    <2>2. Registered(d)
      BY <2>1 DEF AuthVerdict
    <2>3. conns' = [conns EXCEPT ![d] = s]
      BY <1>1 DEF AuthAccepted, Admit
    <2>4. x = d
      BY <2>3 DEF Inv, TypeOK, Online
    <2> QED
      BY <2>2, <2>4
  <1>2. ASSUME NEW s \in Sock, OnMessage(s), ~ \E f \in AuthFrames : AuthAccepted(s, f)
        PROVE  conns' = conns
    BY <1>2
    DEF OnMessage, OnGarbage, OnUnauthenticatedFrame, OnUnexpected, HelloRefused,
        HelloAccepted, AuthWithoutHello, AuthRefused, Handle, HandlePing, RefuseFrame,
        RefuseRate, HandleSend, HandleAck
  <1>3. ASSUME NEW s \in Sock, OnClose(s) PROVE conns'[x] \in {conns[x], Null}
    BY <1>3 DEF OnClose, Inv, TypeOK
  <1>4. Restart => conns'[x] = Null
    BY DEF Restart
  <1>5. ASSUME NEW s \in Sock, Connect(s) \/ RejectPeer(s) \/ NonceExpires(s) \/ SocketDown(s)
        PROVE  conns' = conns
    BY <1>5 DEF Connect, RejectPeer, NonceExpires, SocketDown
  <1>6. Shutdown \/ EnrollNext \/ UNCHANGED vars => conns' = conns
    BY DEF Shutdown, EnrollNext, EnrollDevice, RemoveDevice, PurgeQueue, RemoveAborts, vars
  <1>7. conns' # conns
    BY DEF Online
  <1> QED
    BY <1>1, <1>2, <1>3, <1>4, <1>5, <1>6, <1>7 DEF Next, ServerNext, Online

\* gone remembers every removal.
LEMMA NamedStays ==
    ASSUME FamilyInv, [SystemNext]_sysVars, NEW x \in Device, Named(x)
    PROVE  Named(x)' /\ gone \subseteq gone'
  <1>1. devices \in [Device -> Profile \cup {Null}] /\ TypeOK
    BY DEF FamilyInv, HubInv, Inv, TypeOK
  <1>2. CASE devices' = devices /\ gone' = gone
    BY <1>2 DEF Named, Registered
  <1>3. ASSUME NEW s \in Sock, HubReceive(s)
        PROVE  Named(x)' /\ gone \subseteq gone'
    <2>1. gone' = gone
      BY <1>3 DEF HubReceive
    <2>2. CASE \E f \in HelloFrames : HelloAccepted(s, f)
      <3>1. PICK f \in HelloFrames : HelloAccepted(s, f)
        BY <2>2
      <3>2. (devices'[x] = Null) <=> (devices[x] = Null)
        BY <1>1, <3>1, RenamedType DEF HelloAccepted
      <3> QED
        BY <2>1, <3>2 DEF Named, Registered
    <2>3. CASE ~ \E f \in HelloFrames : HelloAccepted(s, f)
      <3>1. OnMessage(s)
        BY <1>3, Received
      <3>2. devices' = devices
        BY <2>3, <3>1
        DEF OnMessage, OnGarbage, OnUnauthenticatedFrame, OnUnexpected, HelloRefused,
            AuthWithoutHello, AuthRefused, AuthAccepted, Handle, HandlePing, RefuseFrame,
            RefuseRate, HandleSend, HandleAck
      <3> QED
        BY <1>2, <2>1, <3>2
    <2> QED
      BY <2>2, <2>3
  <1>4. CASE Administer
    <2>1. ASSUME NEW d \in Managed, RemoveDevice(d), gone' = gone \cup {d}
          PROVE  Named(x)' /\ gone \subseteq gone'
      <3>1. devices' = [devices EXCEPT ![d] = Null]
        BY <2>1 DEF RemoveDevice
      <3> QED
        BY <1>1, <2>1, <3>1 DEF Named, Registered
    <2>2. ASSUME NEW d \in Managed, NEW p \in Profile, EnrollDevice(d, p), gone' = gone
          PROVE  Named(x)' /\ gone \subseteq gone'
      <3>1. devices' = [devices EXCEPT ![d] = p]
        BY <2>2 DEF EnrollDevice
      <3> QED
        BY <1>1, <2>2, <3>1, ProfileAssumption DEF Named, Registered
    <2> QED
      BY <1>4, <2>1, <2>2 DEF Administer
  <1>5. CASE \E s \in Sock : HubEnds(s) \/ Close(s)
    BY <1>2, <1>5 DEF HubEnds, SocketDown, Close, OnClose
  <1>6. CASE \E d \in Device : \/ Open(d) \/ Read(d) \/ ClientEnds(d)
                               \/ \E m \in Msg : Write(d, m)
    BY <1>2, <1>6 DEF Open, Connect, Read, ClientEnds, Write, vars
  <1>7. CASE Resume \/ Break \/ Purge \/ UNCHANGED sysVars
    BY <1>2, <1>7 DEF Resume, Restart, Break, SocketDown, NonceExpires, Shutdown, Purge,
                      PurgeQueue, vars, sysVars
  <1> QED
    BY <1>3, <1>4, <1>5, <1>6, <1>7 DEF SystemNext

\* gone forgets nobody.
LEMMA GoneGrows ==
    ASSUME [SystemNext]_sysVars
    PROVE  gone \subseteq gone'
  BY DEF SystemNext, HubReceive, HubEnds, Close, Open, Read, ClientEnds, Write, Resume, Break,
         Administer, Purge, sysVars

\* A newcomer gets, and brings to the others, the list as it is now; nobody
\* becomes a sender without having come online before.
LEMMA RosterStep ==
    ASSUME FamilyInv, Roster, [SystemNext]_sysVars
    PROVE  Roster'
  <1>1. Inv /\ [Next]_vars /\ gone \subseteq gone' /\ Inv'
    BY FamilyStep, GoneGrows, InvNext DEF FamilyInv, HubInv
  <1>2. \A r \in outbox' : \/ \E q \in outbox : r.from = q.from /\ r.to = q.to
                           \/ r.from \in Device /\ Online(r.from) /\ r.from # r.to
                              /\ Registered(r.to)
    BY <1>1, RowOrigin
  <1>3. \A r \in outbox' : r.from # r.to /\ Active(r.from)
    BY <1>2 DEF Roster, Active
  <1>4. ASSUME NEW x \in Device, Active(x)'
        PROVE  \/ Active(x)
               \/ ~Online(x) /\ Online(x)' /\ Registered(x)
    <2>1. Online(x)' \/ \E r \in outbox' : r.from = x
      BY <1>4 DEF Active
    <2>2. CASE Online(x)
      BY <2>2 DEF Active
    <2>3. CASE Online(x)' /\ ~Online(x)
      BY <1>1, <2>3, NewcomerEnrolled
    <2>4. CASE \E r \in outbox' : r.from = x
      BY <1>3, <2>4
    <2> QED
      BY <2>1, <2>2, <2>3, <2>4
  <1>5. ASSUME NEW x \in Device, Active(x)' PROVE Named(x) /\ Named(x)'
    <2>1. Named(x)
      BY <1>4, <1>5 DEF Roster, Named
    <2> QED
      BY <2>1, NamedStays
  <1>6. ASSUME NEW d \in Device, NEW x \in Device, Online(d)', Active(x)'
        PROVE  x \in gone' \/ conn'[conns'[d]].fp[x] # Null
    <2>1. CASE ListsKept
      <3>1. /\ Online(d) /\ conns'[d] = conns[d] /\ conn'[conns'[d]].fp = conn[conns[d]].fp
            /\ (Online(x)' => Online(x))
        BY <1>6, <2>1 DEF ListsKept, Online
      <3>2. Active(x)
        BY <1>4, <1>6, <3>1
      <3>3. x \in gone \/ conn[conns[d]].fp[x] # Null
        BY <3>1, <3>2 DEF Roster
      <3> QED
        BY <1>1, <3>1, <3>3
    <2>2. CASE \E s \in Sock : ~conn[s].authed /\ TakesPlace(s, conn[s].pending)
      <3> PICK s \in Sock : TakesPlace(s, conn[s].pending)
        BY <2>2
      <3> DEFINE c == conn[s].pending
      <3>1. conns' = [conns EXCEPT ![c] = s] /\ c \in Device /\ conn'[s].fp = devices
            /\ \A e \in Device \ {c} : Online(e) => conn'[conns[e]].fp = devices
        BY DEF TakesPlace, Registers
      <3> HIDE DEF c
      <3>2. conns'[c] = s /\ \A e \in Device \ {c} : conns'[e] = conns[e]
        BY <1>1, <3>1 DEF Inv, TypeOK
      <3>3. conn'[conns'[d]].fp = devices
        BY <1>6, <3>1, <3>2 DEF Online
      <3>4. Named(x)
        BY <1>5, <1>6
      <3> QED
        BY <1>1, <3>3, <3>4 DEF Named, Registered
    <2> QED
      BY <1>1, <2>1, <2>2, ListsStep DEF ListsEffect
  <1> QED
    BY <1>3, <1>5, <1>6 DEF Roster, Online

-----------------------------------------------------------------------------
(* Part 8.  Whom a client will know when it reads a frame. *)

\* When the client that knows base has read the first k - 1 frames of q, it knows x:
\* the last welcome among them lists x, or there is none and x was known.
Covered(q, base, k, x) ==
    \/ x \in base /\ \A j \in 1..(k - 1) : q[j].t # "welcome"
    \/ \E i \in 1..(k - 1) : /\ q[i].t = "welcome" /\ x \in q[i].members
                             /\ \A j \in (i + 1)..(k - 1) : q[j].t # "welcome"

\* What is written behind a frame does not matter to its reader.
LEMMA CoveredThere ==
    ASSUME NEW q, NEW c, NEW base, NEW k \in Nat, NEW x,
           \A j \in 1..(k - 1) : c[j] = q[j], Covered(q, base, k, x)
    PROVE  Covered(c, base, k, x)
  <1>1. CASE x \in base /\ \A j \in 1..(k - 1) : q[j].t # "welcome"
    BY <1>1 DEF Covered
  <1>2. ASSUME NEW i \in 1..(k - 1), q[i].t = "welcome", x \in q[i].members,
               \A j \in (i + 1)..(k - 1) : q[j].t # "welcome"
        PROVE  Covered(c, base, k, x)
    <2>1. c[i].t = "welcome" /\ x \in c[i].members
      BY <1>2
    <2>2. \A j \in (i + 1)..(k - 1) : j \in 1..(k - 1)
      OBVIOUS
    <2>3. \A j \in (i + 1)..(k - 1) : c[j].t # "welcome"
      BY <1>2, <2>2
    <2> QED
      BY <2>1, <2>3 DEF Covered
  <1> QED
    BY <1>1, <1>2 DEF Covered

\* Frames that are no welcome change nothing.
LEMMA CoveredOn ==
    ASSUME NEW c, NEW base, NEW k \in Nat \ {0}, NEW n \in Nat, k <= n, NEW x,
           \A j \in k..(n - 1) : c[j].t # "welcome", Covered(c, base, k, x)
    PROVE  Covered(c, base, n, x)
  <1>1. CASE x \in base /\ \A j \in 1..(k - 1) : c[j].t # "welcome"
    <2>1. \A j \in 1..(n - 1) : j \in 1..(k - 1) \/ j \in k..(n - 1)
      OBVIOUS
    <2> QED
      BY <1>1, <2>1 DEF Covered
  <1>2. ASSUME NEW i \in 1..(k - 1), c[i].t = "welcome", x \in c[i].members,
               \A j \in (i + 1)..(k - 1) : c[j].t # "welcome"
        PROVE  Covered(c, base, n, x)
    <2>1. i \in 1..(n - 1)
          /\ \A j \in (i + 1)..(n - 1) : j \in (i + 1)..(k - 1) \/ j \in k..(n - 1)
      OBVIOUS
    <2> QED
      BY <1>2, <2>1 DEF Covered
  <1> QED
    BY <1>1, <1>2 DEF Covered

\* A welcome that lists x covers it until the next one.
LEMMA CoveredSince ==
    ASSUME NEW c, NEW base, NEW i \in Nat \ {0}, NEW n \in Nat, i < n, NEW x,
           c[i].t = "welcome", x \in c[i].members,
           \A j \in (i + 1)..(n - 1) : c[j].t # "welcome"
    PROVE  Covered(c, base, n, x)
  <1>1. i \in 1..(n - 1)
    OBVIOUS
  <1> QED
    BY <1>1 DEF Covered

\* Reading the first frame changes what is known as the frame says.
LEMMA CoveredTail ==
    ASSUME NEW S, NEW q \in Seq(S), q # <<>>, NEW base, NEW next, NEW k \in Nat \ {0},
           k <= Len(q), NEW x, Covered(q, base, k + 1, x),
           next = IF q[1].t = "welcome" THEN q[1].members ELSE base
    PROVE  Covered(Tail(q), next, k, x)
  <1> DEFINE r == Tail(q)
  <1>1. /\ Len(q) \in Nat /\ Len(r) = Len(q) - 1 /\ r \in Seq(S)
        /\ \A i \in DOMAIN r : i + 1 \in DOMAIN q /\ r[i] = q[i + 1]
    BY FirstAndRest
  <1> HIDE DEF r
  <1>2. \A i \in 1..(k - 1) : r[i] = q[i + 1]
    <2>1. DOMAIN r = 1..(Len(q) - 1)
      BY <1>1
    <2>2. \A i \in 1..(k - 1) : i \in DOMAIN r
      BY <1>1, <2>1
    <2> QED
      BY <1>1, <2>2
  <1>3. (k + 1) - 1 = k
    OBVIOUS
  <1>4. CASE x \in base /\ \A j \in 1..k : q[j].t # "welcome"
    <2>1. next = base
      BY <1>4
    <2>2. \A j \in 1..(k - 1) : j + 1 \in 1..k
      OBVIOUS
    <2>3. \A j \in 1..(k - 1) : r[j].t # "welcome"
      BY <1>2, <1>4, <2>2
    <2> QED
      BY <1>4, <2>1, <2>3 DEF Covered, r
  <1>5. ASSUME NEW i \in 1..k, q[i].t = "welcome", x \in q[i].members,
               \A j \in (i + 1)..k : q[j].t # "welcome"
        PROVE  Covered(r, next, k, x)
    <2>1. \A j \in i..(k - 1) : j + 1 \in (i + 1)..k /\ j \in 1..(k - 1)
      OBVIOUS
    <2>2. \A j \in i..(k - 1) : r[j].t # "welcome"
      BY <1>2, <1>5, <2>1
    <2>3. CASE i = 1
      BY <1>5, <2>2, <2>3 DEF Covered
    <2>4. CASE i # 1
      <3>1. i - 1 \in 1..(k - 1) /\ (i - 1) + 1 = i
        BY <2>4
      <3>2. r[i - 1].t = "welcome" /\ x \in r[i - 1].members
        BY <1>2, <1>5, <3>1
      <3>3. \A j \in ((i - 1) + 1)..(k - 1) : r[j].t # "welcome"
        BY <2>2, <3>1
      <3> QED
        BY <3>1, <3>2, <3>3 DEF Covered
    <2> QED
      BY <2>3, <2>4
  <1> QED
    BY <1>3, <1>4, <1>5 DEF Covered, r

\* The deliveries under way to d on s come from devices its client will know
\* when it reads them, or that were removed; and when all is read, the client
\* knows at least whom the hub's fingerprint of the list says it was told of.
Fed(d, s) ==
    /\ \A k \in DOMAIN toPeer[s] : toPeer[s][k].t = "deliver" =>
          \/ toPeer[s][k].from \in gone
          \/ Covered(toPeer[s], known[d], k, toPeer[s][k].from)
    /\ conns[d] = s /\ ready[s] = "open" =>
          \A x \in Device \ {d} : conn[s].fp[x] # Null =>
              Covered(toPeer[s], known[d], Len(toPeer[s]) + 1, x)

Feed == \A d \in Device : \A s \in Sock : link[d] = s => Fed(d, s)

\* A step that writes nothing on s, and promises nothing more there.
LEMMA FedKept ==
    ASSUME NEW d \in Device, NEW s \in Sock, Fed(d, s), toPeer'[s] = toPeer[s],
           known'[d] = known[d], gone \subseteq gone',
           conns'[d] = s /\ ready'[s] = "open" =>
               conns[d] = s /\ ready[s] = "open" /\ conn'[s].fp = conn[s].fp
    PROVE  Fed(d, s)'
  BY DEF Fed

\* Who is no longer listened to is told nothing, and does not come back.
LEMMA SilentDead ==
    ASSUME Inv, NEW s \in Sock, OnMessage(s) \/ OnClose(s), NEW t \in Sock
    PROVE  /\ ready[t] # "open" => out'[t] = <<>>
           /\ ready'[t] = "open" => ready[t] = "open"
  <1>1. \A frames : Emit(frames) /\ ready[t] # "open" => out'[t] = <<>>
    BY DEF Emit
  <1>2. \A u, frames : Reply(u, frames) /\ ready[t] # "open" => out'[t] = <<>>
    BY DEF Reply, Emit
  <1>3. Closing(t) = "open" => ready[t] = "open"
    BY DEF Closing
  <1>4. ready \in [Sock -> SockState]
    BY DEF Inv, TypeOK
  <1>5. ready' = Dismissed(s) /\ ready'[t] = "open" => ready[t] = "open"
    BY <1>4 DEF Dismissed, Closing
  <1>6. ASSUME NEW f \in AuthFrames, AuthAccepted(s, f)
        PROVE  /\ ready[t] # "open" => out'[t] = <<>>
               /\ ready'[t] = "open" => ready[t] = "open"
    <2>1. \E frames : Emit(frames)
      BY <1>6 DEF AuthAccepted, Admit
    <2>2. ready'[t] = ready[t] \/ ready'[t] = Closing(t)
      BY <1>6 DEF AuthAccepted, Admit
    <2> QED
      BY <1>1, <1>3, <2>1, <2>2
  <1>7. ASSUME NEW m, NEW to, NEW now, HandleSend(s, m, to, now)
        PROVE  /\ ready[t] # "open" => out'[t] = <<>>
               /\ ready'[t] = "open" => ready[t] = "open"
    <2>1. (\E frames : Emit(frames)) /\ ready' = ready
      BY <1>7 DEF HandleSend
    <2> QED
      BY <1>1, <2>1
  <1>8. ASSUME NEW ids, HandleAck(s, ids)
        PROVE  /\ ready[t] # "open" => out'[t] = <<>>
               /\ ready'[t] = "open" => ready[t] = "open"
    <2>1. (\E frames : Emit(frames)) /\ ready' = ready
      BY <1>8 DEF HandleAck
    <2> QED
      BY <1>1, <2>1
  <1>9. ASSUME OnClose(s)
        PROVE  /\ ready[t] # "open" => out'[t] = <<>>
               /\ ready'[t] = "open" => ready[t] = "open"
    <2>1. (\E frames : Emit(frames)) /\ ready' = [ready EXCEPT ![s] = "free"]
      BY <1>9 DEF OnClose
    <2>2. ready'[t] = "open" => ready[t] = "open"
      BY <1>4, <2>1
    <2> QED
      BY <1>1, <2>1, <2>2
  <1>10. ASSUME \/ HandlePing(s) \/ RefuseFrame(s) \/ RefuseRate(s) \/ OnGarbage(s)
                \/ OnUnexpected(s) \/ AuthWithoutHello(s)
                \/ \E f \in HelloFrames : HelloRefused(s, f) \/ HelloAccepted(s, f)
                \/ \E f \in AuthFrames : AuthRefused(s, f)
         PROVE  /\ ready[t] # "open" => out'[t] = <<>>
                /\ ready'[t] = "open" => ready[t] = "open"
    <2>1. \E frames : Reply(s, frames)
      BY <1>10
      DEF HandlePing, RefuseFrame, RefuseRate, OnGarbage, OnUnexpected, AuthWithoutHello,
          HelloRefused, HelloAccepted, AuthRefused
    <2>2. ready' = ready \/ ready' = Dismissed(s)
      BY <1>10
      DEF HandlePing, RefuseFrame, RefuseRate, OnGarbage, OnUnexpected, AuthWithoutHello,
          HelloRefused, HelloAccepted, AuthRefused
    <2> QED
      BY <1>2, <1>5, <2>1, <2>2
  <1> QED
    BY <1>6, <1>7, <1>8, <1>9, <1>10 DEF OnMessage, OnUnauthenticatedFrame, Handle

\* A row on its way to d comes from somebody on the list of its connection.
LEMMA LetterSender ==
    ASSUME FamilyInv', Roster', NEW d \in Device, NEW t \in Sock, link'[d] = t,
           NEW f, Letter(t, f)
    PROVE  /\ conns'[d] = t /\ f.t = "deliver" /\ f.from \in Device \ {d}
           /\ f.from \in gone' \/ conn'[t].fp[f.from] # Null
  <1>1. PICK r \in outbox' : conns'[r.to] = t /\ f = DeliverFrame(r)
    BY DEF Letter
  <1>2. Inv' /\ outbox' \subseteq Row /\ OneSpeaker'
    BY DEF FamilyInv, HubInv, TableInv, Table
  <1>3. r.to \in Device /\ r.from \in Device /\ f.t = "deliver" /\ f.from = r.from
    BY <1>1, <1>2 DEF Row, DeliverFrame
  <1>4. conn'[t].deviceId = r.to
    BY <1>1, <1>2, <1>3, SockAssumption DEF Inv, RegistryConsistent, Online
  <1>5. Speaks(t, r.to)' /\ Speaks(t, d)'
    BY <1>4 DEF Speaks
  <1>6. r.to = d
    BY <1>2, <1>3, <1>5 DEF OneSpeaker
  <1>7. conns'[d] = t /\ Online(d)'
    BY <1>1, <1>6, SockAssumption DEF Online
  <1>8. Active(r.from)'
    BY <1>1 DEF Active
  <1> QED
    BY <1>1, <1>3, <1>6, <1>7, <1>8 DEF Roster

\* What a step writes to a client keeps it fed.
LEMMA FedNews ==
    ASSUME FamilyInv, FamilyInv', Roster', NEW d \in Device, NEW t \in Sock, link[d] = t,
           link' = link, known' = known, gone \subseteq gone', Fed(d, t), Transmit, News(t),
           ready[t] # "open" => out'[t] = <<>>, ready'[t] = "open" => ready[t] = "open"
    PROVE  Fed(d, t)'
  <1> DEFINE q == toPeer[t]
             fs == out'[t]
             w == OnWire(fs)
             c == q \o w
             n == Len(q) + Len(w)
             b == known[d]
  <1>1. q \in Seq(PeerFrame) /\ outbox' \subseteq Row
    BY DEF FamilyInv, ClientTypes, HubInv, TableInv, Table
  <1>2. w \in Seq(PeerFrame)
    BY <1>1, WireTypes
  <1>3. toPeer'[t] = c /\ known'[d] = b
    BY DEF Transmit, Linked
  <1>4. Listing(fs) /\ link'[d] = t
    BY NewsListing
  <1>5. \A i \in DOMAIN fs : Letter(t, fs[i]) =>
           /\ conns'[d] = t /\ fs[i].t = "deliver" /\ fs[i].from \in Device \ {d}
           /\ fs[i].from \in gone' \/ conn'[t].fp[fs[i].from] # Null
           /\ Wired(fs[i]) = fs[i]
    <2> SUFFICES ASSUME NEW i \in DOMAIN fs, Letter(t, fs[i])
                 PROVE  /\ conns'[d] = t /\ fs[i].t = "deliver" /\ fs[i].from \in Device \ {d}
                        /\ fs[i].from \in gone' \/ conn'[t].fp[fs[i].from] # Null
                        /\ Wired(fs[i]) = fs[i]
      OBVIOUS
    <2>1. Wired(fs[i]) = fs[i]
      BY <1>1, WiredTypes DEF Letter
    <2> QED
      BY <1>4, <2>1, LetterSender
  <1>6. \A i \in DOMAIN fs : Notice(fs[i]) /\ Heeded(fs[i]) =>
           Wired(fs[i]).t \notin {"welcome", "deliver"}
    BY WiredTypes
  <1>7. /\ \A k \in DOMAIN w : \E i \in DOMAIN fs : Heeded(fs[i]) /\ w[k] = Wired(fs[i])
        /\ 1 \in DOMAIN fs /\ Heeded(fs[1]) =>
              /\ 1 \in DOMAIN w /\ w[1] = Wired(fs[1])
              /\ \A k \in DOMAIN w \ {1} : \E i \in DOMAIN fs \ {1} :
                    Heeded(fs[i]) /\ w[k] = Wired(fs[i])
    BY <1>4, WireFrames
  <1> HIDE DEF q, w
  <1>8. /\ c \in Seq(PeerFrame) /\ Len(c) = n /\ Len(q) \in Nat /\ Len(w) \in Nat
        /\ DOMAIN q = 1..Len(q) /\ DOMAIN w = 1..Len(w) /\ DOMAIN c = 1..n
        /\ \A i \in 1..Len(q) : c[i] = q[i]
        /\ \A i \in 1..Len(w) : c[Len(q) + i] = w[i]
    <2>1. DOMAIN q = 1..Len(q) /\ DOMAIN w = 1..Len(w)
      BY <1>1, <1>2
    <2>2. /\ c \in Seq(PeerFrame) /\ Len(c) = n /\ Len(q) \in Nat /\ Len(w) \in Nat
          /\ \A i \in 1..Len(q) : c[i] = q[i]
          /\ \A i \in 1..Len(w) : c[Len(q) + i] = w[i]
      BY <1>1, <1>2, Joined
    <2> HIDE DEF c, n
    <2>3. DOMAIN c = 1..n
      BY <2>2
    <2> QED
      BY <2>1, <2>2, <2>3
  <1>9. /\ \A k \in DOMAIN q : q[k].t = "deliver" =>
              q[k].from \in gone \/ Covered(q, b, k, q[k].from)
        /\ conns[d] = t /\ ready[t] = "open" =>
              \A x \in Device \ {d} : conn[t].fp[x] # Null => Covered(q, b, Len(q) + 1, x)
    BY DEF Fed, q
  <1>10. SUFFICES /\ \A k \in DOMAIN c : c[k].t = "deliver" =>
                        c[k].from \in gone' \/ Covered(c, b, k, c[k].from)
                  /\ conns'[d] = t /\ ready'[t] = "open" =>
                        \A x \in Device \ {d} : conn'[t].fp[x] # Null => Covered(c, b, n + 1, x)
    <2> HIDE DEF c, n, b
    <2> QED
      BY <1>3, <1>8, <1>10 DEF Fed
  <1> HIDE DEF fs, c, n, b
  <1>11. ASSUME NEW k \in 1..Len(q), c[k].t = "deliver"
         PROVE  c[k].from \in gone' \/ Covered(c, b, k, c[k].from)
    <2>1. c[k] = q[k] /\ \A j \in 1..(k - 1) : c[j] = q[j]
      BY <1>8
    <2>2. CASE Covered(q, b, k, q[k].from)
      <3>1. Covered(c, b, k, q[k].from)
        BY <2>1, <2>2, CoveredThere
      <3> QED
        BY <2>1, <3>1
    <2> QED
      BY <1>8, <1>9, <1>11, <2>1, <2>2
  <1>12. \A k \in 1..n :
           \/ k \in 1..Len(q)
           \/ k - Len(q) \in 1..Len(w) /\ Len(q) + (k - Len(q)) = k
    BY <1>8 DEF n
  <1>13. ASSUME NEW k \in 1..n, k \notin 1..Len(q)
         PROVE  k - Len(q) \in DOMAIN w /\ c[k] = w[k - Len(q)]
    BY <1>8, <1>12, <1>13
  <1>14. ASSUME \A k \in DOMAIN w : w[k].t = "deliver" =>
                   w[k].from \in gone' \/ Covered(c, b, Len(q) + k, w[k].from)
         PROVE  \A k \in DOMAIN c : c[k].t = "deliver" =>
                   c[k].from \in gone' \/ Covered(c, b, k, c[k].from)
    <2> SUFFICES ASSUME NEW k \in 1..n, c[k].t = "deliver", k \notin 1..Len(q)
                 PROVE  c[k].from \in gone' \/ Covered(c, b, k, c[k].from)
      BY <1>8, <1>11
    <2>1. k - Len(q) \in DOMAIN w /\ c[k] = w[k - Len(q)] /\ Len(q) + (k - Len(q)) = k
      BY <1>12, <1>13
    <2> QED
      BY <1>14, <2>1
  <1>15. Answered(t) => \A i \in DOMAIN fs : Wired(fs[i]).t \notin {"welcome", "deliver"}
    <2> SUFFICES ASSUME Answered(t), NEW i \in DOMAIN fs
                 PROVE  Wired(fs[i]).t \notin {"welcome", "deliver"}
      OBVIOUS
    <2> PICK m \in Msg, at \in 0..MaxClock : fs = <<SentFrame(m, at)>>
      BY DEF Answered, fs
    <2> DEFINE x == SentFrame(m, at)
    <2>1. fs = <<x>> /\ Wired(x) = x /\ x.t = "sent"
      BY WiredTypes DEF SentFrame
    <2> HIDE DEF x, fs
    <2>2. fs[i] = x
      BY <2>1
    <2> QED
      BY <2>1, <2>2
  <1>16. CASE Headed(t)
    <2>1. /\ 1 \in DOMAIN fs /\ conn'[t].fp = devices
          /\ \A i \in DOMAIN fs \ {1} : Notice(fs[i]) \/ Letter(t, fs[i])
      BY <1>16 DEF Headed, fs
    <2>2. PICK e \in Device : conns'[e] = t /\ fs[1] = WelcomeFrame(e, conns')
      BY <1>16 DEF Headed, fs
    <2>3. e = d
      <3>1. conn'[t].deviceId = e
        BY <2>2, SockAssumption DEF FamilyInv, HubInv, Inv, RegistryConsistent, Online
      <3>2. Speaks(t, e)' /\ Speaks(t, d)'
        BY <1>4, <3>1 DEF Speaks
      <3> QED
        BY <3>2 DEF FamilyInv, OneSpeaker
    <2>4. Heeded(fs[1]) /\ Wired(fs[1]) = [t |-> "welcome", members |-> Members(d)]
      BY <2>2, <2>3, WiredTypes
    <2>5. 1 \in DOMAIN w /\ w[1].t = "welcome" /\ w[1].members = Members(d)
      BY <1>7, <2>1, <2>4
    <2>6. ASSUME NEW k \in DOMAIN w \ {1}
          PROVE  /\ w[k].t # "welcome"
                 /\ w[k].t = "deliver" => /\ w[k].from \in Device \ {d}
                                          /\ w[k].from \in gone' \/ conn'[t].fp[w[k].from] # Null
      <3>1. PICK i \in DOMAIN fs \ {1} : Heeded(fs[i]) /\ w[k] = Wired(fs[i])
        BY <1>7, <2>1, <2>4
      <3>2. CASE Notice(fs[i])
        BY <1>6, <3>1, <3>2
      <3>3. CASE Letter(t, fs[i])
        BY <1>5, <3>1, <3>3
      <3> QED
        BY <2>1, <3>2, <3>3
    <2>7. ASSUME NEW x \in Device \ {d}, conn'[t].fp[x] # Null, NEW k \in 2..(Len(w) + 1)
          PROVE  Covered(c, b, Len(q) + k, x)
      <3>1. x \in Members(d)
        BY <2>1, <2>7 DEF Members, Enrolled, Registered
      <3>2. c[Len(q) + 1].t = "welcome" /\ x \in c[Len(q) + 1].members
        BY <1>8, <2>5, <3>1
      <3>3. ASSUME NEW j \in ((Len(q) + 1) + 1)..((Len(q) + k) - 1)
            PROVE  c[j].t # "welcome"
        <4>1. j - Len(q) \in 1..Len(w) /\ j - Len(q) # 1 /\ Len(q) + (j - Len(q)) = j
          BY <1>8
        <4>2. j - Len(q) \in DOMAIN w \ {1}
          BY <1>8, <4>1
        <4>3. w[j - Len(q)].t # "welcome"
          BY <2>6, <4>2
        <4> QED
          BY <1>8, <4>1, <4>3
      <3>4. Len(q) + 1 \in Nat \ {0} /\ Len(q) + k \in Nat /\ Len(q) + 1 < Len(q) + k
        BY <1>8
      <3> QED
        BY <3>2, <3>3, <3>4, CoveredSince
    <2>8. ASSUME NEW k \in DOMAIN w, w[k].t = "deliver"
          PROVE  w[k].from \in gone' \/ Covered(c, b, Len(q) + k, w[k].from)
      <3>1. k # 1
        BY <2>5, <2>8
      <3>2. k \in 2..(Len(w) + 1)
        BY <1>8, <3>1
      <3> QED
        BY <2>6, <2>7, <2>8, <3>1, <3>2
    <2>9. Len(w) + 1 \in 2..(Len(w) + 1) /\ Len(q) + (Len(w) + 1) = n + 1
      BY <1>8, <2>5 DEF n
    <2>10. \A x \in Device \ {d} : conn'[t].fp[x] # Null => Covered(c, b, n + 1, x)
      BY <2>7, <2>9
    <2> QED
      BY <1>14, <2>8, <2>10
  <1>17. CASE (Ordinary(t) \/ Answered(t)) /\ (ready[t] = "open" => SameList(t))
    <2>1. ASSUME NEW k \in DOMAIN w
          PROVE  /\ ready[t] = "open" /\ w[k].t # "welcome"
                 /\ w[k].t = "deliver" => /\ w[k].from \in Device \ {d} /\ conns'[d] = t
                                          /\ w[k].from \in gone' \/ conn'[t].fp[w[k].from] # Null
      <3>1. PICK i \in DOMAIN fs : Heeded(fs[i]) /\ w[k] = Wired(fs[i])
        BY <1>7
      <3>2. ready[t] = "open"
        BY <3>1 DEF fs
      <3>3. Notice(fs[i]) \/ Letter(t, fs[i]) \/ Answered(t)
        BY <1>17 DEF Ordinary, fs
      <3>4. CASE Notice(fs[i])
        BY <1>6, <3>1, <3>2, <3>4
      <3>5. CASE Letter(t, fs[i])
        BY <1>5, <3>1, <3>2, <3>5
      <3>6. CASE Answered(t)
        BY <1>15, <3>1, <3>2, <3>6
      <3> QED
        BY <3>3, <3>4, <3>5, <3>6
    <2>2. ASSUME NEW x \in Device \ {d}, conns'[d] = t, ready[t] = "open",
                 conn'[t].fp[x] # Null, NEW k \in 1..(Len(w) + 1)
          PROVE  Covered(c, b, Len(q) + k, x)
      <3>1. conns[d] = t /\ conn[t].fp[x] # Null
        BY <1>17, <2>2 DEF SameList
      <3>2. Covered(q, b, Len(q) + 1, x)
        BY <1>9, <2>2, <3>1
      <3>3. Len(q) + 1 \in Nat /\ (Len(q) + 1) - 1 = Len(q)
        BY <1>8
      <3>4. Covered(c, b, Len(q) + 1, x)
        BY <1>8, <3>2, <3>3, CoveredThere
      <3>5. ASSUME NEW j \in (Len(q) + 1)..((Len(q) + k) - 1)
            PROVE  c[j].t # "welcome"
        <4>1. j - Len(q) \in 1..Len(w) /\ Len(q) + (j - Len(q)) = j
          BY <1>8
        <4> QED
          BY <1>8, <2>1, <4>1
      <3>6. Len(q) + 1 \in Nat \ {0} /\ Len(q) + k \in Nat /\ Len(q) + 1 <= Len(q) + k
        BY <1>8
      <3> QED
        BY <3>4, <3>5, <3>6, CoveredOn
    <2>3. ASSUME NEW k \in DOMAIN w, w[k].t = "deliver"
          PROVE  w[k].from \in gone' \/ Covered(c, b, Len(q) + k, w[k].from)
      <3>1. k \in 1..(Len(w) + 1)
        BY <1>8
      <3> QED
        BY <2>1, <2>2, <2>3, <3>1
    <2>4. Len(w) + 1 \in 1..(Len(w) + 1) /\ Len(q) + (Len(w) + 1) = n + 1
      BY <1>8 DEF n
    <2>5. conns'[d] = t /\ ready'[t] = "open" =>
             \A x \in Device \ {d} : conn'[t].fp[x] # Null => Covered(c, b, n + 1, x)
      BY <2>2, <2>4
    <2> QED
      BY <1>14, <2>3, <2>5
  <1> QED
    BY <1>16, <1>17 DEF News, Unasked

\* A client that reads knows what the frame told it.
LEMMA FedRead ==
    ASSUME FamilyInv, NEW d \in Device, ClientRead(d), Fed(d, link[d]), gone' = gone,
           conns' = conns, conn' = conn, ready' = ready
    PROVE  Fed(d, link[d])'
  <1> DEFINE s == link[d]
             q == toPeer[s]
             f == Incoming(d)
             b == known[d]
             next == IF q[1].t = "welcome" THEN q[1].members ELSE b
  <1>1. ClientTypes /\ s # Null /\ q # <<>>
    BY DEF ClientRead, FamilyInv
  <1>2. s \in Sock /\ q \in Seq(PeerFrame)
    BY <1>1 DEF ClientTypes
  <1>3. f = q[1]
    BY <1>1, IncomingType
  <1>4. link' = link /\ IF f.t = "welcome" THEN known' = [known EXCEPT ![d] = f.members]
                        ELSE known' = known
    BY <1>1, ReadEffect
  <1>5. known'[d] = next
    BY <1>1, <1>3, <1>4 DEF ClientTypes
  <1>6. toPeer'[s] = Tail(q)
    <2>1. PICK frames : Answer(d, frames) /\ Send(d, Tail(q), frames)
      BY <1>1, ReadEffect
    <2> QED
      BY <1>1, <2>1 DEF Send, ClientTypes
  <1>7. /\ Len(q) \in Nat /\ Len(q) >= 1 /\ Len(Tail(q)) = Len(q) - 1
        /\ \A i \in DOMAIN Tail(q) : i + 1 \in DOMAIN q /\ Tail(q)[i] = q[i + 1]
        /\ Tail(q) \in Seq(PeerFrame)
    BY <1>1, <1>2, FirstAndRest
  <1>8. /\ \A k \in DOMAIN q : q[k].t = "deliver" =>
              q[k].from \in gone \/ Covered(q, b, k, q[k].from)
        /\ conns[d] = s /\ ready[s] = "open" =>
              \A x \in Device \ {d} : conn[s].fp[x] # Null => Covered(q, b, Len(q) + 1, x)
    BY DEF Fed
  <1> DEFINE r == Tail(q)
  <1>9. \A k \in Nat \ {0} : \A x : k <= Len(q) /\ Covered(q, b, k + 1, x) => Covered(r, next, k, x)
    <2> SUFFICES ASSUME NEW k \in Nat \ {0}, NEW x, k <= Len(q), Covered(q, b, k + 1, x)
                 PROVE  Covered(r, next, k, x)
      OBVIOUS
    <2> HIDE DEF q, b
    <2> QED
      BY <1>1, <1>2, CoveredTail
  <1> HIDE DEF q, r, b, next
  <1>10. DOMAIN r = 1..(Len(q) - 1) /\ Len(r) + 1 = Len(q)
    BY <1>7 DEF r
  <1>11. ASSUME NEW k \in DOMAIN r, r[k].t = "deliver"
         PROVE  r[k].from \in gone \/ Covered(r, next, k, r[k].from)
    <2>1. k + 1 \in DOMAIN q /\ r[k] = q[k + 1]
      BY <1>7 DEF r
    <2>2. k \in Nat \ {0} /\ k <= Len(q)
      BY <1>7, <1>10
    <2> QED
      BY <1>8, <1>9, <1>11, <2>1, <2>2
  <1>12. ASSUME conns[d] = s, ready[s] = "open", NEW x \in Device \ {d}, conn[s].fp[x] # Null
         PROVE  Covered(r, next, Len(r) + 1, x)
    <2>1. Covered(q, b, Len(q) + 1, x)
      BY <1>8, <1>12
    <2>2. Len(q) \in Nat \ {0} /\ Len(q) <= Len(q)
      BY <1>7
    <2>3. Covered(r, next, Len(q), x)
      BY <1>9, <2>1, <2>2
    <2> QED
      BY <1>10, <2>3
  <1>13. toPeer'[s] = r /\ link'[d] = s /\ s' = s
    BY <1>4, <1>6 DEF r
  <1> HIDE DEF s
  <1>14. Fed(d, s)'
    BY <1>5, <1>11, <1>12, <1>13 DEF Fed
  <1> QED
    BY <1>14 DEF s

\* Steps that put no frame on the wire to d and take nothing from its list.
LEMMA FeedKept ==
    ASSUME FamilyInv, Feed, gone \subseteq gone', link' = link, known' = known, toPeer' = toPeer,
           \A d \in Device : \A s \in Sock : link[d] = s /\ conns'[d] = s /\ ready'[s] = "open" =>
               conns[d] = s /\ ready[s] = "open" /\ conn'[s].fp = conn[s].fp
    PROVE  Feed'
  <1> SUFFICES ASSUME NEW d \in Device, NEW s \in Sock, link[d] = s PROVE Fed(d, s)'
    BY DEF Feed
  <1>1. Fed(d, s)
    BY DEF Feed
  <1> QED
    BY <1>1, FedKept

\* No step leaves a client with a delivery whose sender it will not know.
LEMMA FeedStep ==
    ASSUME FamilyInv, FamilyInv', Roster', Feed, [SystemNext]_sysVars
    PROVE  Feed'
  <1>1. ClientTypes /\ Inv /\ TableInv /\ OneSpeaker /\ gone \subseteq gone'
    BY GoneGrows DEF FamilyInv, HubInv
  <1>2. \A d, e \in Device : link[d] # Null /\ link[d] = link[e] => d = e
    BY <1>1 DEF ClientTypes, OneSpeaker, Speaks
  <1>3. ASSUME conns' = conns, ready' = ready, conn' = conn,
               link' = link, known' = known, toPeer' = toPeer
        PROVE  Feed'
    BY <1>1, <1>3, FeedKept
  <1>4. ASSUME NEW s \in Sock, OnMessage(s) \/ OnClose(s), Transmit, link' = link, known' = known
        PROVE  Feed'
    <2> SUFFICES ASSUME NEW d \in Device, NEW t \in Sock, link[d] = t PROVE Fed(d, t)'
      BY <1>4 DEF Feed
    <2>1. Fed(d, t)
      BY DEF Feed
    <2>2. News(t)
      BY <1>1, <1>4, MessageNews, CloseNews, UnaskedNews
    <2>3. /\ ready[t] # "open" => out'[t] = <<>>
          /\ ready'[t] = "open" => ready[t] = "open"
      BY <1>1, <1>4, SilentDead
    <2> QED
      BY <1>1, <1>4, <2>1, <2>2, <2>3, FedNews
  <1>5. CASE \E s \in Sock : HubReceive(s)
    BY <1>4, <1>5, Received DEF HubReceive
  <1>6. CASE \E s \in Sock : Close(s)
    BY <1>4, <1>6 DEF Close
  <1>7. ASSUME NEW u \in Sock, SocketDown(u), link' = link, known' = known, toPeer' = toPeer
        PROVE  Feed'
    <2>1. /\ conns' = conns /\ conn' = conn /\ ready' = [ready EXCEPT ![u] = "ending"]
          /\ ready \in [Sock -> SockState]
      BY <1>1, <1>7 DEF SocketDown, Inv, TypeOK
    <2>2. \A s \in Sock : ready'[s] = "open" => ready[s] = "open"
      BY <2>1
    <2> QED
      BY <1>1, <1>7, <2>1, <2>2, FeedKept
  <1>8. ASSUME Restart, link' = link, known' = known, toPeer' = toPeer
        PROVE  Feed'
    <2>1. \A d \in Device : conns'[d] = Null
      BY <1>8 DEF Restart
    <2> QED
      BY <1>1, <1>8, <2>1, SockAssumption, FeedKept
  <1>9. ASSUME NEW u \in Sock, NonceExpires(u), link' = link, known' = known, toPeer' = toPeer
        PROVE  Feed'
    <2>1. /\ conn' = [conn EXCEPT ![u] = [conn[u] EXCEPT !.nonce = "stale"]]
          /\ conn \in [Sock -> ConnObject] /\ conns' = conns /\ ready' = ready
      BY <1>1, <1>9 DEF NonceExpires, Inv, TypeOK
    <2>2. \A s \in Sock : conn'[s].fp = conn[s].fp
      BY <2>1 DEF ConnObject
    <2> QED
      BY <1>1, <1>9, <2>1, <2>2, FeedKept
  <1>10. ASSUME Shutdown, link' = link, known' = known, toPeer' = toPeer
         PROVE  Feed'
    <2>1. /\ conns' = conns /\ conn' = conn
          /\ \A s \in Sock : ready'[s] = "open" => ready[s] = "open"
      BY <1>10 DEF Shutdown, Closing
    <2> QED
      BY <1>1, <1>10, <2>1, FeedKept
  <1>11. ASSUME NEW d \in Device, ClientDown(d), conns' = conns, ready' = ready, conn' = conn
         PROVE  Feed'
    <2>1. /\ link' = [link EXCEPT ![d] = Null] /\ known' = known
          /\ toPeer' = [toPeer EXCEPT ![link[d]] = <<>>] /\ link[d] # Null
      BY <1>11 DEF ClientDown
    <2> SUFFICES ASSUME NEW e \in Device, NEW s \in Sock, link'[e] = s PROVE Fed(e, s)'
      BY DEF Feed
    <2>2. e # d /\ link[e] = s
      BY <1>1, <2>1, SockAssumption DEF ClientTypes
    <2>3. s # link[d]
      BY <1>2, <2>1, <2>2
    <2>4. toPeer'[s] = toPeer[s]
      BY <1>1, <2>1, <2>3 DEF ClientTypes
    <2>5. Fed(e, s)
      BY <2>2 DEF Feed
    <2> QED
      BY <1>1, <1>11, <2>1, <2>4, <2>5, FedKept
  <1>12. ASSUME NEW d \in Device, Open(d)
         PROVE  Feed'
    <2> PICK u \in Sock : Connect(u) /\ ClientConnect(d, u)
      BY <1>12 DEF Open
    <2>1. /\ ready[u] = "free" /\ ready' = [ready EXCEPT ![u] = "open"]
          /\ conn' = [conn EXCEPT ![u] = NewConn] /\ conns' = conns
          /\ link' = [link EXCEPT ![d] = u] /\ known' = known
          /\ toPeer' = [toPeer EXCEPT ![u] = <<>>] /\ \A e \in Device : link[e] # u
      BY DEF Connect, ClientConnect
    <2> SUFFICES ASSUME NEW e \in Device, NEW s \in Sock, link'[e] = s PROVE Fed(e, s)'
      BY DEF Feed
    <2>2. CASE s = u
      <3>1. conns'[e] # s
        BY <1>1, <2>1, <2>2, SockAssumption DEF Inv, RegistryConsistent, Online
      <3>2. toPeer'[s] = <<>>
        BY <1>1, <2>1, <2>2 DEF ClientTypes
      <3> QED
        BY <3>1, <3>2 DEF Fed
    <2>3. CASE s # u
      <3>1. link[e] = s /\ toPeer'[s] = toPeer[s] /\ ready'[s] = ready[s] /\ conn'[s] = conn[s]
        BY <1>1, <2>1, <2>3 DEF ClientTypes, Inv, TypeOK
      <3>2. Fed(e, s)
        BY <3>1 DEF Feed
      <3> QED
        BY <1>1, <2>1, <3>1, <3>2, FedKept
    <2> QED
      BY <2>2, <2>3
  <1>13. ASSUME NEW d \in Device, Read(d)
         PROVE  Feed'
    <2>1. /\ ClientRead(d) /\ gone' = gone /\ conns' = conns /\ conn' = conn /\ ready' = ready
          /\ link[d] # Null
      BY <1>13 DEF Read, vars, ClientRead
    <2>2. link' = link /\ \A e \in Device \ {d} : known'[e] = known[e]
      BY <1>1, <2>1, ReadEffect DEF ClientTypes
    <2>3. PICK frames : Answer(d, frames) /\ Send(d, Tail(toPeer[link[d]]), frames)
      BY <1>1, <2>1, ReadEffect
    <2> SUFFICES ASSUME NEW e \in Device, NEW s \in Sock, link[e] = s PROVE Fed(e, s)'
      BY <2>2 DEF Feed
    <2>4. Fed(e, s)
      BY DEF Feed
    <2>5. CASE e = d
      <3>1. Fed(d, link[d])'
        BY <2>1, <2>4, <2>5, FedRead
      <3> QED
        BY <2>2, <2>5, <3>1
    <2>6. CASE e # d
      <3>1. s # link[d]
        BY <1>2, <2>1, <2>6
      <3>2. toPeer'[s] = toPeer[s]
        BY <1>1, <2>3, <3>1 DEF Send, ClientTypes
      <3> QED
        BY <1>1, <2>1, <2>2, <2>4, <2>6, <3>2, FedKept
    <2> QED
      BY <2>5, <2>6
  <1>14. ASSUME NEW d \in Device, NEW m \in Msg, Write(d, m)
         PROVE  Feed'
    <2>1. /\ conns' = conns /\ conn' = conn /\ ready' = ready /\ link' = link /\ known' = known
          /\ toPeer' = [toPeer EXCEPT ![link[d]] = toPeer[link[d]]]
      BY <1>14 DEF Write, vars, ClientSend, Send
    <2>2. toPeer' = toPeer
      BY <1>1, <2>1 DEF ClientTypes
    <2> QED
      BY <1>3, <2>1, <2>2
  <1>15. CASE \E s \in Sock : HubEnds(s)
    BY <1>7, <1>15 DEF HubEnds
  <1>16. CASE Resume
    BY <1>8, <1>16 DEF Resume
  <1>17. CASE Break
    BY <1>7, <1>8, <1>9, <1>10, <1>11, <1>17 DEF Break, clientVars, vars
  <1>18. CASE Administer \/ Purge
    BY <1>3, <1>18 DEF Administer, RemoveDevice, EnrollDevice, Purge, PurgeQueue, clientVars
  <1>19. CASE UNCHANGED sysVars
    BY <1>3, <1>19 DEF sysVars, vars, clientVars
  <1>20. CASE \E d \in Device : ClientEnds(d)
    BY <1>11, <1>20 DEF ClientEnds, vars
  <1> QED
    BY <1>5, <1>6, <1>12, <1>13, <1>14, <1>15, <1>16, <1>17, <1>18, <1>19, <1>20 DEF SystemNext

\* The sender of a delivery that a client is about to read is known to it, unless it
\* was removed at some time (server.js lines 271-281).
THEOREM SendersKnown == SystemSpec => []KnownSender
  <1>1. SystemInit => Roster /\ Feed
    <2> SUFFICES ASSUME SystemInit PROVE Roster /\ Feed
      OBVIOUS
    <2>1. Roster
      BY DEF SystemInit, Init, ServerInit, Roster, Active, Online
    <2>2. Feed
      BY SockAssumption DEF SystemInit, ClientInit, Feed
    <2> QED
      BY <2>1, <2>2
  <1>2. FamilyInv /\ FamilyInv' /\ Roster /\ Feed /\ [SystemNext]_sysVars => Roster' /\ Feed'
    BY RosterStep, FeedStep
  <1>3. FamilyInv /\ Feed => KnownSender
    <2> SUFFICES ASSUME FamilyInv, Feed, NEW d \in Device, link[d] # Null, toPeer[link[d]] # <<>>,
                        Incoming(d).t = "deliver"
                 PROVE  Incoming(d).from \in known[d] \cup gone
      BY DEF KnownSender
    <2> DEFINE q == toPeer[link[d]]
               x == q[1].from
    <2>1. link[d] \in Sock /\ Fed(d, link[d])
      BY DEF FamilyInv, ClientTypes, Feed
    <2>2. q \in Seq(PeerFrame) /\ Incoming(d) = q[1] /\ 1 \in DOMAIN q
      BY <2>1, FirstAndRest, IncomingType DEF FamilyInv, ClientTypes
    <2>3. x \in gone \/ Covered(q, known[d], 1, x)
      BY <2>1, <2>2 DEF Fed
    <2> HIDE DEF q, x
    <2>4. Covered(q, known[d], 1, x) => x \in known[d]
      BY DEF Covered
    <2> QED
      BY <2>2, <2>3, <2>4 DEF x
  <1> QED
    BY <1>1, <1>2, <1>3, FamilyAlways, PTL DEF SystemSpec
=============================================================================
