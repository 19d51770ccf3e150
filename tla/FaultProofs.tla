---------------------------- MODULE FaultProofs ----------------------------
(***************************************************************************)
(* What the hub keeps when writes to the database fail, for any family and *)
(* any number of failures: the registry, the finality of an eviction, the  *)
(* member list of whoever was welcomed, and in every session the order of  *)
(* the deliveries, whatever a failure in it did not take away, and a       *)
(* presence that is never wrong about who is there.                        *)
(***************************************************************************)
EXTENDS HubFaults, SessionProofs

\* A connection that nobody authenticated on was never sent a member list.
NeverWelcomed == \A s \in Sock : conn[s].deviceId = Null => conn[s].fp = Null

FaultInv == Inv /\ NeverWelcomed /\ WelcomedShareMembers

\* A broken-off flush marks rows of the queue, and nothing else.
LEMMA ShownRows == \A rows, k : First(rows, k) \subseteq rows /\ Shown(rows, k) \subseteq rows
  BY DEF First, Shown

\* The frame failed after the nonce was spent; the socket is left as it is.
LEMMA SpentSteps ==
    ASSUME Inv, NEW s \in Sock, ready[s] \in {"open", "closing"}, ~conn[s].authed,
           \E f \in AuthFrames : AuthLogFails(s, f) \/ AuthTouchFails(s, f)
    PROVE  /\ conn' = [conn EXCEPT ![s] = [conn[s] EXCEPT !.nonce = "none"]]
           /\ UNCHANGED <<devices, outbox, clock, cli, up, ready, conns>>
           /\ Inv'
  <1>1. /\ conn' = [conn EXCEPT ![s] = [conn[s] EXCEPT !.nonce = "none"]]
        /\ UNCHANGED <<devices, outbox, clock, cli, up, ready, conns>>
        /\ DOMAIN out' = Sock
    BY OutDomain DEF AuthLogFails, AuthTouchFails, Spent, Inv, TypeOK
  <1>2. conn'[s] \in ConnObject
    BY <1>1 DEF Inv, TypeOK, ConnObject, NonceState
  <1>3. TypeOK'
    BY <1>1, <1>2 DEF Inv, TypeOK
  <1>4. /\ conn'[s].authed = conn[s].authed
        /\ conn'[s].deviceId = conn[s].deviceId
        /\ conn'[s].nonce = "none"
        /\ \A t \in Sock \ {s} : conn'[t] = conn[t]
    BY <1>1 DEF Inv, TypeOK, ConnObject
  <1>5. RegistryConsistent'
    BY <1>1, <1>4 DEF Inv, TypeOK, RegistryConsistent, Online
  <1>6. HandshakeInv'
    BY <1>1, <1>4 DEF Inv, TypeOK, HandshakeInv, Replaced
  <1> QED
    BY <1>1, <1>3, <1>5, <1>6 DEF Inv

\* The log throws after the registration: the connections change as in an
\* accepted auth, but no member list goes out.
LEMMA RegisterEffect ==
    ASSUME Inv, NEW s \in Sock, ready[s] \in {"open", "closing"}, ~conn[s].authed,
           NEW f \in AuthFrames, RegisterLogFails(s, f)
    PROVE  /\ Registers(s, conn[s].pending)
           /\ \A t \in Sock : conn'[t].fp = conn[t].fp
  <1> DEFINE d       == conn[s].pending
             evicted == {conns[d]} \ {Null, s}
  <1>1. d \in Device /\ conn[s].nonce = "shown"
    BY DEF RegisterLogFails, Verified, AuthVerdict, Inv, TypeOK, ConnObject
  <1>2. /\ conns' = [conns EXCEPT ![d] = s]
        /\ ready' = [t \in Sock |-> IF t \in evicted THEN Closing(t) ELSE ready[t]]
        /\ conn' = [t \in Sock |->
             IF t = s THEN [conn[s] EXCEPT !.authed = TRUE, !.deviceId = d,
                                           !.nonce = "none"]
             ELSE IF t \in evicted THEN Evict(conn[t]) ELSE conn[t]]
    BY DEF RegisterLogFails, Spent
  <1> HIDE DEF evicted
  <1>3. \A t \in Sock : conn[t] \in ConnObject
    BY DEF Inv, TypeOK
  <1>4. /\ conn'[s] \in ConnObject
        /\ conn'[s].authed /\ conn'[s].deviceId = d
        /\ conn'[s].nonce = "none" /\ conn'[s].fp = conn[s].fp
    BY <1>1, <1>2, <1>3 DEF ConnObject, NonceState
  <1>5. \A t \in evicted : t \in Sock /\ t # s /\ t = conns[d]
    BY <1>1 DEF evicted, Inv, TypeOK
  <1>6. \A t \in Sock : t # s /\ t = conns[d] => t \in evicted
    BY <1>1, SockAssumption DEF evicted
  <1>7. ASSUME NEW t \in Sock \ {s}
        PROVE  /\ conn'[t] \in ConnObject
               /\ conn'[t].deviceId = conn[t].deviceId
               /\ conn'[t].nonce = conn[t].nonce
               /\ conn'[t].fp = conn[t].fp
               /\ conn'[t].authed = (conn[t].authed /\ t # conns[d])
               /\ ~conn[t].authed => conn'[t] = conn[t]
    <2>1. CASE t \in evicted
      <3>1. conn[t].authed
        BY <1>1, <1>5, <2>1, SockAssumption DEF Inv, RegistryConsistent, Online
      <3>2. QED
        BY <1>2, <1>3, <1>5, <2>1, <3>1 DEF Evict, ConnObject
    <2>2. CASE t \notin evicted
      BY <1>2, <1>3, <1>6, <2>2 DEF ConnObject
    <2>3. QED
      BY <2>1, <2>2
  <1>8. /\ ready' \in [Sock -> SockState]
        /\ ready'[s] = ready[s]
        /\ \A t \in Sock \ {s} : /\ t # conns[d] => ready'[t] = ready[t]
                                 /\ t = conns[d] => ready'[t] = Closing(t)
    BY <1>2, <1>5, <1>6, ClosingType DEF Inv, TypeOK
  <1>9. conn' \in [Sock -> ConnObject]
    BY <1>2, <1>4, <1>7
  <1>10. Registers(s, d)
    BY <1>1, <1>2, <1>4, <1>7, <1>8, <1>9 DEF Registers
  <1> QED
    BY <1>4, <1>7, <1>10

LEMMA InvRegisterLogFails ==
    ASSUME Inv, NEW s \in Sock, ready[s] \in {"open", "closing"}, ~conn[s].authed,
           NEW f \in AuthFrames, RegisterLogFails(s, f)
    PROVE  Inv'
  <1>1. Registers(s, conn[s].pending)
    BY RegisterEffect
  <1>2. DOMAIN out' = Sock /\ UNCHANGED <<devices, outbox, clock, cli, up>>
    BY OutDomain DEF RegisterLogFails
  <1>3. conns' \in [Device -> Sock \cup {Null}]
    BY <1>1 DEF Registers, Inv, TypeOK
  <1>4. TypeOK'
    BY <1>1, <1>2, <1>3 DEF Registers, Inv, TypeOK
  <1> QED
    BY <1>1, <1>4, InvRegisters

\* The flush stops half-way: the device was admitted all the same.
LEMMA FlushEffect ==
    ASSUME Inv, NEW s \in Sock, ready[s] \in {"open", "closing"}, ~conn[s].authed,
           NEW f \in AuthFrames, FlushFails(s, f)
    PROVE  TakesPlace(s, conn[s].pending) /\ Inv'
  <1> DEFINE rows == Pending(outbox, conn[s].pending, FALSE)
  <1>1. PICK k \in 1..Cardinality(rows) :
          /\ Admit(s, Append(DeliverFrames(First(rows, k)), Failure))
          /\ outbox' = MarkDelivered(outbox, Shown(rows, k))
    BY DEF FlushFails
  <1>2. Verified(s, f) /\ UNCHANGED <<devices, clock, cli, up>>
    BY DEF FlushFails
  <1>3. TakesPlace(s, conn[s].pending)
    BY <1>1, <1>2, AdmitEffect
  <1>4. outbox' \in SUBSET Row
    <2>1. Shown(rows, k) \in SUBSET Row /\ outbox \in SUBSET Row
      BY ShownRows DEF Pending, Inv, TypeOK
    <2> QED
      BY <1>1, <2>1, MarkDeliveredType
  <1>5. DOMAIN out' = Sock
    BY <1>1, OutDomain DEF Admit
  <1>6. conns' \in [Device -> Sock \cup {Null}]
    BY <1>3 DEF TakesPlace, Registers, Inv, TypeOK
  <1>7. TypeOK'
    BY <1>2, <1>3, <1>4, <1>5, <1>6 DEF TakesPlace, Registers, Inv, TypeOK
  <1> QED
    BY <1>3, <1>7, InvRegisters DEF TakesPlace

\* A send or an ack that stops half-way writes the tables only.
LEMMA InvHandleFails ==
    ASSUME Inv, NEW s \in Sock, conn[s].authed, HandleFails(s)
    PROVE  Inv' /\ UNCHANGED <<ready, conn, conns>>
  <1>1. conn[s].deviceId \in Device
    BY DEF Inv, TypeOK, ConnObject, RegistryConsistent
  <1>2. ASSUME NEW m \in Msg, NEW to \in SUBSET Device, NEW now \in 0..MaxClock,
               SendLogFails(s, m, to, now)
        PROVE  TypeOK' /\ UNCHANGED <<up, ready, conn, conns>>
    <2>1. outbox' \in SUBSET Row
      BY <1>1, <1>2, InsertedType DEF SendLogFails, Inv, TypeOK
    <2>2. DOMAIN out' = Sock
      BY <1>2, OutDomain DEF SendLogFails
    <2> QED
      BY <1>2, <2>1, <2>2 DEF SendLogFails, Inv, TypeOK
  <1>3. ASSUME NEW m \in Msg, NEW to \in SUBSET Device, NEW now \in 0..MaxClock,
               PushFails(s, m, to, now)
        PROVE  TypeOK' /\ UNCHANGED <<up, ready, conn, conns>>
    <2> DEFINE d        == conn[s].deviceId
               accepted == Accepted(d, to)
               targets  == PushTargets(accepted)
               queued   == outbox \cup Inserted(d, m, accepted, now)
               fresh(e) == Pending(queued, e, TRUE)
    <2>1. PICK e \in targets : \E done \in SUBSET (targets \ {e}) :
            \E k \in 1..Cardinality(fresh(e)) :
              outbox' = MarkDelivered(queued, Shown(fresh(e), k) \cup
                                              UNION {fresh(x) : x \in done})
      BY <1>3 DEF PushFails
    <2>2. PICK done \in SUBSET (targets \ {e}), k \in 1..Cardinality(fresh(e)) :
              outbox' = MarkDelivered(queued, Shown(fresh(e), k) \cup
                                              UNION {fresh(x) : x \in done})
      BY <2>1
    <2>3. queued \in SUBSET Row
      BY <1>1, InsertedType DEF Inv, TypeOK
    <2> HIDE DEF queued, targets
    <2>4. (Shown(fresh(e), k) \cup UNION {fresh(x) : x \in done}) \in SUBSET Row
      <3>1. \A x : fresh(x) \subseteq queued
        BY DEF Pending
      <3>2. Shown(fresh(e), k) \subseteq fresh(e)
        BY ShownRows
      <3> QED
        BY <2>3, <3>1, <3>2
    <2>5. outbox' \in SUBSET Row
      BY <2>2, <2>3, <2>4, MarkDeliveredType
    <2>6. DOMAIN out' = Sock /\ clock' = now /\ UNCHANGED <<devices, cli, up, ready, conn, conns>>
      BY <1>3, OutDomain DEF PushFails
    <2> QED
      BY <2>5, <2>6 DEF Inv, TypeOK
  <1>4. ASSUME NEW ids \in SUBSET Msg, AckLogFails(s, ids)
        PROVE  TypeOK' /\ UNCHANGED <<up, ready, conn, conns>>
    BY <1>4, OutDomain DEF AckLogFails, Inv, TypeOK
  <1>5. TypeOK' /\ UNCHANGED <<up, ready, conn, conns>>
    BY <1>2, <1>3, <1>4 DEF HandleFails
  <1> QED
    BY <1>5, TableSteps

-----------------------------------------------------------------------------
\* What a failing frame may do to the connections.
FailureEffect(s) ==
    \/ UNCHANGED <<ready, conn, conns>>
    \/ /\ conn' = [conn EXCEPT ![s] = [conn[s] EXCEPT !.nonce = "none"]]
       /\ UNCHANGED <<ready, conns>>
    \/ /\ Registers(s, conn[s].pending)
       /\ \A t \in Sock : conn'[t].fp = conn[t].fp
       /\ ~conn[s].authed
       /\ conn[s].nonce = "shown"
    \/ TakesPlace(s, conn[s].pending)

LEMMA InvWriteFails ==
    ASSUME Inv, NEW s \in Sock, WriteFails(s)
    PROVE  Inv' /\ FailureEffect(s)
  <1>1. ready[s] \in {"open", "closing"}
    BY DEF WriteFails
  <1>2. CASE conn[s].authed /\ HandleFails(s)
    BY <1>2, InvHandleFails DEF FailureEffect
  <1>3. ASSUME ~conn[s].authed, NEW f \in HelloFrames, HelloLogFails(s, f)
        PROVE  Inv' /\ FailureEffect(s)
    BY <1>3, QuietSteps, OutDomain DEF HelloLogFails, FailureEffect
  <1>4. ASSUME ~conn[s].authed, NEW f \in AuthFrames, AuthLogFails(s, f) \/ AuthTouchFails(s, f)
        PROVE  Inv' /\ FailureEffect(s)
    BY <1>1, <1>4, SpentSteps DEF FailureEffect
  <1>5. ASSUME ~conn[s].authed, NEW f \in AuthFrames, RegisterLogFails(s, f)
        PROVE  Inv' /\ FailureEffect(s)
    BY <1>1, <1>5, InvRegisterLogFails, RegisterEffect DEF FailureEffect, Registers
  <1>6. ASSUME ~conn[s].authed, NEW f \in AuthFrames, FlushFails(s, f)
        PROVE  Inv' /\ FailureEffect(s)
    BY <1>1, <1>6, FlushEffect DEF FailureEffect
  <1> QED
    BY <1>2, <1>3, <1>4, <1>5, <1>6 DEF WriteFails, HandshakeFails

LEMMA FaultStep ==
    ASSUME Inv, [FaultNext]_faultVars
    PROVE  Inv' /\ ([Next]_vars \/ \E s \in Sock : FailureEffect(s))
  <1>1. [Next]_vars \/ \E s \in Sock : WriteFails(s)
    BY DEF FaultNext, faultVars
  <1>2. CASE [Next]_vars
    BY <1>2, InvNext
  <1>3. CASE \E s \in Sock : WriteFails(s)
    BY <1>3, InvWriteFails
  <1> QED
    BY <1>1, <1>2, <1>3

LEMMA FaultInvAlways == FaultSpec => []Inv
  <1>1. FaultInit => Inv
    BY InvInit DEF FaultInit, SessionsInit
  <1>2. Inv /\ [FaultNext]_faultVars => Inv'
    BY FaultStep
  <1> QED
    BY <1>1, <1>2, PTL DEF FaultSpec

\* The registry survives every failure (server.js, onAuth and the catch block):
\* RegistryConsistent, although a registration may stop before its welcome.
THEOREM RegistrySurvives == FaultSpec => []RegistryConsistent
  <1>1. Inv => RegistryConsistent
    BY DEF Inv
  <1> QED
    BY <1>1, FaultInvAlways, PTL

\* ReplacedNeverReturns: a failure between two statements of onAuth gives no
\* evicted connection its place back.
THEOREM EvictionStaysFinal == FaultSpec => ReplacedNeverReturns
  <1>1. Inv /\ [FaultNext]_faultVars => [\A s \in Sock : Replaced(s) => ~conn'[s].authed]_vars
    <2> SUFFICES ASSUME Inv, [FaultNext]_faultVars, NEW s \in Sock, Replaced(s)
                 PROVE  ~conn'[s].authed
      OBVIOUS
    <2>1. ~conn[s].authed /\ conn[s].nonce # "shown"
      BY DEF Inv, HandshakeInv, Replaced
    <2>2. CASE [Next]_vars
      BY <2>2, ReplacedStep
    <2>3. ASSUME NEW t \in Sock, FailureEffect(t)
          PROVE  ~conn'[s].authed
      <3>1. CASE conn' = conn
        BY <2>1, <3>1
      <3>2. CASE conn' = [conn EXCEPT ![t] = [conn[t] EXCEPT !.nonce = "none"]]
        BY <2>1, <3>2 DEF Inv, TypeOK, ConnObject
      <3>3. CASE Registers(t, conn[t].pending)
        <4>1. t # s
          BY <2>1, <3>3 DEF Registers
        <4> QED
          BY <2>1, <3>3, <4>1 DEF Registers
      <3> QED
        BY <2>3, <3>1, <3>2, <3>3 DEF FailureEffect, TakesPlace
    <2> QED
      BY <2>2, <2>3, FaultStep
  <1> QED
    BY <1>1, FaultInvAlways, PTL DEF FaultSpec, ReplacedNeverReturns

-----------------------------------------------------------------------------
\* A step that sends nobody a list, but may register a connection without one.
LEMMA WelcomedSteps ==
    ASSUME Inv, WelcomedShareMembers,
           \A e \in Device : Online(e)' =>
               \/ conns'[e] = conns[e] /\ conn'[conns[e]].fp = conn[conns[e]].fp
               \/ conn'[conns'[e]].fp = Null
    PROVE  WelcomedShareMembers'
  BY DEF WelcomedShareMembers, Online

\* An admission sends it to everybody.
LEMMA WelcomedAdmit ==
    ASSUME Inv, NEW s \in Sock, NEW d, TakesPlace(s, d)
    PROVE  WelcomedShareMembers'
  <1>1. \A e \in Device : Online(e)' => conn'[conns'[e]].fp = devices
    BY AdmitShares
  <1> QED
    BY <1>1 DEF WelcomedShareMembers, Online

\* A registration leaves whoever was never welcomed without a list.
LEMMA RegisteredKeeps ==
    ASSUME Inv, NeverWelcomed, NEW s \in Sock, NEW d, Registers(s, d)
    PROVE  NeverWelcomed'
  <1> SUFFICES ASSUME NEW t \in Sock, conn'[t].deviceId = Null
               PROVE  conn'[t].fp = Null
    BY DEF NeverWelcomed
  <1>1. t # s
    BY DeviceAssumption DEF Registers
  <1>2. conn[t].deviceId = Null /\ ~conn[t].authed
    BY <1>1 DEF Registers, Inv, RegistryConsistent
  <1> QED
    BY <1>1, <1>2 DEF Registers, NeverWelcomed

LEMMA FaultInvStep == FaultInv /\ [FaultNext]_faultVars => FaultInv'
  <1> SUFFICES ASSUME FaultInv, [FaultNext]_faultVars
               PROVE  NeverWelcomed' /\ WelcomedShareMembers'
    BY FaultStep DEF FaultInv
  <1> USE DEF FaultInv
  <1>1. CASE [Next]_vars
    <2>1. ListsEffect
      BY <1>1, ListsStep
    <2>2. CASE \E s \in Sock : ~conn[s].authed /\ TakesPlace(s, conn[s].pending)
      <3>1. PICK s \in Sock : ~conn[s].authed /\ TakesPlace(s, conn[s].pending)
        BY <2>2
      <3>2. NeverWelcomed'
        BY <3>1, DeviceAssumption, RegisteredKeeps DEF TakesPlace
      <3> QED
        BY <3>1, <3>2, WelcomedAdmit
    <2>3. CASE ListsKept
      <3>1. NeverWelcomed'
        BY <2>3 DEF NeverWelcomed, ListsKept, NewConn
      <3>2. WelcomedShareMembers'
        BY <2>3, WelcomedSteps DEF ListsKept
      <3> QED
        BY <3>1, <3>2
    <2> QED
      BY <2>1, <2>2, <2>3 DEF ListsEffect
  <1>2. ASSUME NEW s \in Sock, FailureEffect(s)
        PROVE  NeverWelcomed' /\ WelcomedShareMembers'
    <2>1. \A t \in Sock : conn[t] \in ConnObject
      BY DEF Inv, TypeOK
    <2>2. CASE UNCHANGED <<ready, conn, conns>>
      BY <2>2, WelcomedSteps DEF NeverWelcomed, Online
    <2>3. CASE /\ conn' = [conn EXCEPT ![s] = [conn[s] EXCEPT !.nonce = "none"]]
               /\ UNCHANGED <<ready, conns>>
      <3>1. \A t \in Sock : conn'[t].deviceId = conn[t].deviceId /\ conn'[t].fp = conn[t].fp
        BY <2>1, <2>3 DEF Inv, TypeOK, ConnObject
      <3>2. \A e \in Device : Online(e) => conns[e] \in Sock
        BY DEF Inv, TypeOK, Online
      <3> QED
        BY <2>3, <3>1, <3>2, WelcomedSteps DEF NeverWelcomed, Online
    <2>4. CASE /\ Registers(s, conn[s].pending)
               /\ \A t \in Sock : conn'[t].fp = conn[t].fp
               /\ ~conn[s].authed
               /\ conn[s].nonce = "shown"
      <3>1. conn[s].deviceId = Null
        BY <2>4 DEF Inv, HandshakeInv, Replaced
      <3>2. conn'[s].fp = Null
        BY <2>4, <3>1 DEF NeverWelcomed
      <3>3. NeverWelcomed'
        BY <2>4, <3>2 DEF NeverWelcomed, Registers
      <3>4. ASSUME NEW e \in Device, Online(e)'
            PROVE  \/ conns'[e] = conns[e] /\ conn'[conns[e]].fp = conn[conns[e]].fp
                   \/ conn'[conns'[e]].fp = Null
        <4>1. CASE e = conn[s].pending
          BY <2>4, <3>2, <4>1 DEF Registers, Inv, TypeOK
        <4>2. CASE e # conn[s].pending
          <5>1. conns'[e] = conns[e] /\ conns[e] \in Sock
            BY <2>4, <3>4, <4>2 DEF Registers, Inv, TypeOK, Online
          <5> QED
            BY <2>4, <5>1
        <4> QED
          BY <4>1, <4>2
      <3> QED
        BY <3>3, <3>4, WelcomedSteps
    <2>5. CASE TakesPlace(s, conn[s].pending)
      <3>1. NeverWelcomed'
        BY <2>5, DeviceAssumption, RegisteredKeeps DEF TakesPlace
      <3> QED
        BY <2>5, <3>1, WelcomedAdmit
    <2> QED
      BY <1>2, <2>2, <2>3, <2>4, <2>5 DEF FailureEffect
  <1> QED
    BY <1>1, <1>2, FaultStep

\* WelcomedShareMembers: whoever was welcomed knows the same members, for no
\* failure falls between a welcome and the refresh of the others (server.js,
\* lines 268-281).
THEOREM WelcomedAgree == FaultSpec => []WelcomedShareMembers
  <1>1. FaultInit => FaultInv
    <2> SUFFICES ASSUME FaultInit PROVE FaultInv
      OBVIOUS
    <2>1. Inv
      BY InvInit DEF FaultInit, SessionsInit
    <2>2. NeverWelcomed /\ WelcomedShareMembers
      BY DEF FaultInit, SessionsInit, Init, ServerInit, NewConn, NeverWelcomed,
             WelcomedShareMembers, Online
    <2> QED
      BY <2>1, <2>2 DEF FaultInv
  <1>2. FaultInv => WelcomedShareMembers
    BY DEF FaultInv
  <1> QED
    BY <1>1, <1>2, FaultInvStep, PTL DEF FaultSpec

-----------------------------------------------------------------------------
\* What a broken flush wrote is the front of the queue, and only the last of
\* it is not marked.
LEMMA FrontRows ==
    ASSUME NEW rows, OneQueue(rows), NEW k \in 1..Cardinality(rows)
    PROVE  /\ Shown(rows, k) \subseteq First(rows, k)
           /\ First(rows, k) \subseteq rows /\ OneQueue(First(rows, k))
           /\ \A r \in rows, q \in First(rows, k) :
                 r \notin Shown(rows, k) => q.recvAt <= r.recvAt
  <1>1. /\ Cardinality(rows) \in Nat
        /\ \A r \in rows : Rank(rows, r) \in 0..(Cardinality(rows) - 1)
        /\ \A r, q \in rows : Rank(rows, r) <= Rank(rows, q) => r.recvAt <= q.recvAt
    BY RowRanks
  <1>2. k \in Nat /\ \A r \in rows : Rank(rows, r) \in Nat
    BY <1>1
  <1>3. /\ First(rows, k) = {r \in rows : Rank(rows, r) < k}
        /\ Shown(rows, k) = {r \in rows : Rank(rows, r) < k - 1}
    BY DEF First, Shown, Rank
  <1>4. Shown(rows, k) \subseteq First(rows, k) /\ First(rows, k) \subseteq rows
    BY <1>2, <1>3
  <1>5. OneQueue(First(rows, k))
    BY <1>4, FS_Subset DEF OneQueue
  <1>6. ASSUME NEW r \in rows, NEW q \in First(rows, k), r \notin Shown(rows, k)
        PROVE  q.recvAt <= r.recvAt
    <2>1. q \in rows /\ Rank(rows, q) < k /\ ~ (Rank(rows, r) < k - 1)
      BY <1>3, <1>6
    <2>2. Rank(rows, q) <= Rank(rows, r)
      BY <1>2, <2>1
    <2> QED
      BY <1>1, <2>1, <2>2
  <1> QED
    BY <1>4, <1>5, <1>6

\* What the sessions keep when writes fail: a session whose own flush was
\* completed lacks nothing that is marked.
FaultSafe == QueueInv /\ OnlyOnline /\ DamageConfined

\* A step that breaks off the sessions of ds, and no other.
LEMMA ConfinedStep ==
    ASSUME FaultSafe, Inv', Listen, NEW ds, Broken(ds), QueueEffect(ds), Strangers', OnlyOnline'
    PROVE  FaultSafe'
  <1>1. QueueInv /\ \A d \in Device \ cut : Listening(d) => AllShown(d)
    BY DEF FaultSafe, DamageConfined, AllShown
  <1>2. QueueInv'
    BY <1>1, QueueInvStep
  <1>3. ASSUME NEW d \in Device \ cut', Listening(d)' PROVE AllShown(d)'
    <2>1. d \notin ds /\ (conns'[d] = conns[d] => d \notin cut)
      BY <1>3 DEF Broken
    <2>2. Listening(d) /\ conns'[d] = conns[d] => AllShown(d)
      BY <1>1, <1>3, <2>1
    <2> QED
      BY <1>1, <1>3, <2>1, <2>2, QueueStep
  <1>4. DamageConfined'
    BY <1>3 DEF DamageConfined, AllShown
  <1> QED
    BY <1>2, <1>4 DEF FaultSafe

\* The steps of the hub treat queue and peers so.
LEMMA HubTells ==
    ASSUME QueueInv, OnlyOnline, Inv', Listen, Next
    PROVE  QueueEffect({}) /\ Strangers' /\ OnlyOnline'
  <1>1. CASE Uneventful \/ SendStep
    BY <1>1, UneventfulEffect, SendEffect, NoNewsStep
  <1>2. CASE Wiped
    <2>1. Strangers' /\ \A d \in Device : ~Listening(d)'
      BY <1>2, WipedStep
    <2> QED
      BY <1>2, <2>1, WipedEffect DEF OnlyOnline
  <1>3. CASE AuthStep
    BY <1>3, AuthStepEffect, Admitted
  <1>4. CASE CloseStep
    BY <1>4, CloseEffect
  <1> QED
    BY <1>1, <1>2, <1>3, <1>4, NextKinds

\* A handshake or an ack that stops before it told anybody anything.
LEMMA FailsSilently ==
    ASSUME QueueInv, NEW s \in Sock, ready[s] \in {"open", "closing"},
           \/ \E f \in HelloFrames : HelloLogFails(s, f)
           \/ ~conn[s].authed /\ \E f \in AuthFrames : AuthLogFails(s, f) \/ AuthTouchFails(s, f)
           \/ \E ids \in SUBSET Msg : AckLogFails(s, ids)
    PROVE  Uneventful
  <1>1. ASSUME NEW frames, Plain(s, frames), Reply(s, frames), UNCHANGED <<clock, ready, conns>>,
               outbox' \subseteq outbox, \A t \in Sock : conn'[t].deviceId = conn[t].deviceId
        PROVE  Uneventful
    BY <1>1, ReplyPlain DEF Uneventful
  <1>2. \A a : Plain(s, <<Error(a)>>) /\ \A b : Plain(s, <<Error(a), Error(b)>>)
    BY ShortPlain
  <1>3. Plain(s, <<Failure>>) /\ \A a : Plain(s, <<Error(a), Failure>>)
    BY <1>2 DEF Failure
  <1>4. ASSUME NEW f \in HelloFrames, HelloLogFails(s, f)
        PROVE  Uneventful
    BY <1>1, <1>3, <1>4 DEF HelloLogFails
  <1>5. ASSUME ~conn[s].authed, NEW f \in AuthFrames, AuthLogFails(s, f) \/ AuthTouchFails(s, f)
        PROVE  Uneventful
    <2>1. /\ conn' = [conn EXCEPT ![s] = [conn[s] EXCEPT !.nonce = "none"]]
          /\ UNCHANGED <<devices, outbox, clock, cli, up, ready, conns>>
      BY <1>5, SpentSteps DEF QueueInv
    <2>2. \A t \in Sock : conn'[t].deviceId = conn[t].deviceId
      BY <2>1 DEF QueueInv, Inv, TypeOK, ConnObject
    <2>3. \E frames : Plain(s, frames) /\ Reply(s, frames)
      BY <1>3, <1>5 DEF AuthLogFails, AuthTouchFails
    <2> QED
      BY <1>1, <2>1, <2>2, <2>3
  <1>6. ASSUME NEW ids \in SUBSET Msg, AckLogFails(s, ids)
        PROVE  Uneventful
    <2>1. outbox' \subseteq outbox /\ UNCHANGED <<clock, ready, conn, conns>> /\ Reply(s, <<Failure>>)
      BY <1>6 DEF AckLogFails
    <2> QED
      BY <1>1, <1>3, <2>1
  <1> QED
    BY <1>4, <1>5, <1>6

\* The device is registered, told of the error only, and shown nothing.
LEMMA RegisterTells ==
    ASSUME QueueInv, OnlyOnline, Inv', Listen, NEW s \in Sock,
           ready[s] \in {"open", "closing"}, ~conn[s].authed,
           NEW f \in AuthFrames, RegisterLogFails(s, f)
    PROVE  QueueEffect({conn[s].pending}) /\ Strangers' /\ OnlyOnline'
  <1> DEFINE d == conn[s].pending
  <1>1. Registers(s, d)
    BY RegisterEffect DEF QueueInv
  <1>2. UNCHANGED <<devices, outbox, clock>> /\ Reply(s, <<Failure>>)
    BY DEF RegisterLogFails
  <1> HIDE DEF d
  <1>3. /\ d \in Device /\ \A e \in Device : conns'[e] = IF e = d THEN s ELSE conns[e]
        /\ conn'[s].deviceId = d /\ ready'[s] = ready[s]
        /\ \A t \in Sock \ {s} : conn'[t].deviceId = conn[t].deviceId
        /\ \A t \in Sock \ {s} : ready'[t] = "open" => ready[t] = "open"
    BY <1>1 DEF Registers, Closing, QueueInv, Inv, TypeOK
  <1>4. \A t \in Sock : Listing(out'[t]) /\
           \A i \in DOMAIN out'[t] : out'[t][i].t \in {"error", "challenge"}
    <2> SUFFICES ASSUME NEW t \in Sock
                 PROVE  Listing(out'[t]) /\
                        \A i \in DOMAIN out'[t] : out'[t][i].t \in {"error", "challenge"}
      OBVIOUS
    <2>1. out'[t] \in {<<>>, <<Failure>>}
      BY <1>2 DEF Reply, Emit
    <2>2. Failure.t = "error"
      BY DEF Failure, Error
    <2>3. Listing(<<>>) /\ DOMAIN <<>> = {}
      BY ShortListings
    <2>4. Listing(<<Failure>>) /\ DOMAIN <<Failure>> = {1} /\ <<Failure>>[1] = Failure
      BY ShortListings
    <2> QED
      BY <2>1, <2>2, <2>3, <2>4
  <1>5. \A t \in Sock \ {s} : out'[t] = <<>>
    BY <1>2 DEF Reply, Emit
  <1>6. ready'[s] = "open" => heard[s] = SilentPeer
    BY <1>3, Unregistered DEF QueueInv, PeerInv
  <1>7. QueueEffect({d})
    <2>1. \A t \in Sock : Carries(out'[t], {})
      <3>1. \A t \in Sock : Listing(out'[t]) /\ \A i \in DOMAIN out'[t] : out'[t][i].t # "deliver"
        BY <1>4
      <3> QED
        BY <3>1, IdleCarries
    <2>2. \A t \in Sock \ {s} : \A e \in Device : conns'[e] = t => conns[e] = t
      BY <1>3
    <2>3. \A r \in Waiting(outbox', s) : r.to \in {d}
      <3>1. \A r \in outbox' : r.to \in Device
        BY DEF Inv, TypeOK, Row
      <3>2. \A e \in Device : conns'[e] = s => e = d
        <4>1. conn'[s].deviceId = d /\ \A e \in Device : Online(e)' => conn'[conns'[e]].deviceId = e
          BY <1>3 DEF Inv, RegistryConsistent
        <4> QED
          BY <4>1, SockAssumption DEF Online
      <3> QED
        BY <3>1, <3>2 DEF Waiting
    <2>4. outbox' \subseteq outbox /\ clock' = clock
      BY <1>2
    <2>5. \A t \in Sock : ready'[t] = "open" =>
            /\ Carries(out'[t], {})
            /\ \/ /\ ready[t] \in {"open", "free"}
                  /\ \A e \in Device : conns'[e] = t => conns[e] = t
               \/ /\ heard[t] = SilentPeer
                  /\ \A r \in Waiting(outbox', t) : r.to \in {d}
      <3> SUFFICES ASSUME NEW t \in Sock, ready'[t] = "open"
                   PROVE  \/ /\ ready[t] \in {"open", "free"}
                             /\ \A e \in Device : conns'[e] = t => conns[e] = t
                          \/ /\ heard[t] = SilentPeer
                             /\ \A r \in Waiting(outbox', t) : r.to \in {d}
        BY <2>1
      <3>1. CASE t = s
        BY <1>6, <2>3, <3>1
      <3>2. CASE t # s
        BY <1>3, <2>2, <3>2
      <3> QED
        BY <3>1, <3>2
    <2> QED
      BY <2>4, <2>5, UnmarkedQueue
  <1>8. Strangers'
    <2>1. \A t \in Sock : ready'[t] = "open" /\ conn'[t].deviceId = Null =>
             /\ conn[t].deviceId = Null
             /\ \A i \in DOMAIN out'[t] : out'[t][i].t \in {"error", "challenge"}
      BY <1>3, <1>4, DeviceAssumption
    <2> QED
      BY <2>1, StrangersStep
  <1>9. OnlyOnline'
    <2> SUFFICES ASSUME NEW e \in Device, Listening(e)', NEW x \in Told(e)'.online
                 PROVE  conns'[x] # Null
      BY DEF OnlyOnline, Online
    <2> DEFINE t == conns'[e]
    <2>1. t \in Sock /\ ready'[t] = "open"
      BY DEF Listening, Online, Inv, TypeOK
    <2>2. heard'[t] = Heard(heard[t], out'[t]) /\ heard[t].online \subseteq Device
      BY <2>1, Hears DEF QueueInv, PeerInv
    <2>3. heard'[t].online = heard[t].online
      <3>1. \A i \in DOMAIN out'[t] : out'[t][i].t \notin {"welcome", "presence"}
        BY <1>4, <2>1
      <3> QED
        BY <2>2, <3>1, HeardNoNews
    <2>4. x \in heard[t].online /\ x \in Device
      BY <2>2, <2>3 DEF Told
    <2>5. CASE e = d
      <3>1. t = s
        BY <1>3, <2>5
      <3> QED
        BY <1>6, <2>1, <2>4, <3>1 DEF SilentPeer
    <2>6. CASE e # d
      <3>1. t = conns[e] /\ t # s
        <4>1. t = conns[e]
          BY <1>3, <2>6
        <4>2. conn'[s].deviceId = d /\ conn'[t].deviceId = e
          BY <1>3 DEF Inv, RegistryConsistent, Listening
        <4> QED
          BY <2>6, <4>1, <4>2
      <3>2. Listening(e)
        BY <1>3, <2>1, <3>1, SockAssumption DEF Listening, Online
      <3>3. conns[x] # Null
        BY <2>4, <3>1, <3>2 DEF OnlyOnline, Told, Online
      <3> QED
        BY <1>3, <2>4, <3>3, SockAssumption
    <2> QED
      BY <2>5, <2>6
  <1> QED
    BY <1>7, <1>8, <1>9 DEF d

\* The device is welcomed and shown the front of its queue.
LEMMA FlushTells ==
    ASSUME QueueInv, OnlyOnline, Inv', Listen, NEW s \in Sock,
           ready[s] \in {"open", "closing"}, ~conn[s].authed,
           NEW f \in AuthFrames, FlushFails(s, f)
    PROVE  QueueEffect({conn[s].pending}) /\ Strangers' /\ OnlyOnline'
  <1> DEFINE d    == conn[s].pending
             rows == Pending(outbox, d, FALSE)
  <1>1. Verified(s, f) /\ clock' = clock
    BY DEF FlushFails
  <1>2. PICK k \in 1..Cardinality(rows) :
          /\ Admit(s, Append(DeliverFrames(First(rows, k)), Failure))
          /\ outbox' = MarkDelivered(outbox, Shown(rows, k))
    BY DEF FlushFails
  <1> DEFINE front == First(rows, k)
             flush == Append(DeliverFrames(front), Failure)
  <1>3. Inv
    BY DEF QueueInv
  <1>4. TakesPlace(s, d) /\ Announces(s, d, flush)
    BY <1>1, <1>2, <1>3, AdmitFrames
  <1>5. d \in Device /\ Registers(s, d)
    BY <1>4 DEF TakesPlace, Registers
  <1>6. rows = Queue(d)
    BY DEF Pending, Queue
  <1>7. OneQueue(rows)
    <2>1. rows \in SUBSET {r \in outbox : r.to = d}
      BY <1>6 DEF Queue
    <2> QED
      BY <2>1, QueueIsOne DEF QueueInv, TableInv
  <1> HIDE DEF rows, d
  <1>8. /\ Shown(rows, k) \subseteq front /\ front \subseteq rows /\ OneQueue(front)
        /\ \A r \in rows, q \in front : r \notin Shown(rows, k) => q.recvAt <= r.recvAt
    BY <1>7, FrontRows
  <1> HIDE DEF front
  <1>9. Carries(DeliverFrames(front), front) /\ OnlyDeliver(DeliverFrames(front))
    BY <1>8, DeliverCarries
  <1>10. Failure.t = "error"
    BY DEF Failure, Error
  <1>11. /\ Carries(flush, front)
         /\ \A i \in DOMAIN flush : flush[i].t \notin {"welcome", "presence"}
    <2> DEFINE g == DeliverFrames(front)
               x == Failure
    <2>1. x.t # "deliver" /\ x.t \notin {"welcome", "presence"} /\ Carries(g, front)
      BY <1>9, <1>10
    <2>2. \A i \in DOMAIN g : g[i].t = "deliver"
      BY <1>9 DEF OnlyDeliver
    <2> HIDE DEF g, x
    <2>3. /\ Carries(Append(g, x), front)
          /\ \A i \in DOMAIN Append(g, x) : Append(g, x)[i] = x \/
                (i \in DOMAIN g /\ Append(g, x)[i] = g[i])
      BY <2>1, AppendCarries
    <2>4. \A i \in DOMAIN Append(g, x) : Append(g, x)[i].t \notin {"welcome", "presence"}
      BY <2>1, <2>2, <2>3
    <2> QED
      BY <2>3, <2>4 DEF g, x
  <1> HIDE DEF flush
  <1>12. QueueEffect({d})
    <2> DEFINE marked == Shown(rows, k)
    <2>1. front \in SUBSET Queue(d) /\ marked \in SUBSET front
      BY <1>6, <1>8
    <2>2. \A r \in Queue(d), q \in front : ~r.delivered /\ r \notin marked => q.recvAt <= r.recvAt
      BY <1>6, <1>8
    <2>3. outbox' = MarkDelivered(outbox, marked) /\ d \in {d}
      BY <1>2
    <2> HIDE DEF marked
    <2> QED
      BY <1>1, <1>4, <1>5, <1>11, <2>1, <2>2, <2>3, AdmitQueue
  <1>13. Strangers' /\ OnlyOnline'
    <2>1. Listing(flush)
      BY <1>11 DEF Carries
    <2> QED
      BY <1>4, <1>11, <2>1, Admitted
  <1> QED
    BY <1>12, <1>13 DEF d

\* A send whose log fails: the rows are queued, and nobody is pushed to.
LEMMA SendFailsTells ==
    ASSUME QueueInv, Inv', NEW s \in Sock, conn[s].authed,
           NEW m \in Msg, NEW to \in SUBSET Device, NEW now \in 0..MaxClock,
           now \in {clock, clock + 1}, SendLogFails(s, m, to, now)
    PROVE  NoNews /\ QueueEffect({})
  <1> DEFINE d      == conn[s].deviceId
             queued == outbox \cup Inserted(d, m, Accepted(d, to), now)
             given  == [t \in Sock |-> {}]
  <1>1. d \in Device
    BY DEF QueueInv, Inv, TypeOK, ConnObject, RegistryConsistent
  <1>2. /\ clock' = now /\ outbox' = queued /\ Reply(s, <<Failure>>)
        /\ UNCHANGED <<ready, conn, conns>>
    BY DEF SendLogFails
  <1>3. clock <= clock' /\ clock' \in 0..MaxClock /\ Extends(queued)
    BY <1>1, <1>2, SendExtends
  <1>4. Plain(s, <<Failure>>)
    BY ShortPlain DEF Failure
  <1>5. \A t \in Sock : Plain(t, out'[t])
    BY <1>2, <1>4, ReplyPlain
  <1>6. NoNews
    BY <1>2, <1>5 DEF NoNews, Plain
  <1>7. \A t \in Sock : Carries(out'[t], {})
    BY <1>5, IdleCarries DEF Plain
  <1> HIDE DEF queued
  <1>8. outbox' = MarkDelivered(queued, {})
    BY <1>2 DEF MarkDelivered
  <1>9. given \in [Sock -> SUBSET queued] /\ \A t \in Sock : given[t] = {}
    OBVIOUS
  <1> HIDE DEF given
  <1>10. \A t \in Sock : /\ Delivers(t, queued, given[t], {})
                         /\ \A r \in given[t] : ~r.delivered
    BY <1>7, <1>9 DEF Delivers
  <1>11. QueueEffect({})
    <2>1. {} \in SUBSET queued
      OBVIOUS
    <2> QED
      BY <1>2, <1>3, <1>8, <1>9, <1>10, <2>1, PushQueue
  <1> QED
    BY <1>6, <1>11

\* A send whose push to one target breaks off: that target was shown the front
\* of what waits for it, and some of the others all of it.
LEMMA PushFailsTells ==
    ASSUME QueueInv, Inv', NEW s \in Sock, conn[s].authed,
           NEW m \in Msg, NEW to \in SUBSET Device, NEW now \in 0..MaxClock,
           now \in {clock, clock + 1}, PushFails(s, m, to, now)
    PROVE  NoNews /\ QueueEffect({})
  <1> DEFINE d        == conn[s].deviceId
             accepted == Accepted(d, to)
             targets  == PushTargets(accepted)
             queued   == outbox \cup Inserted(d, m, accepted, now)
             fresh(x) == Pending(queued, x, TRUE)
  <1>1. PICK e \in targets : \E done \in SUBSET (targets \ {e}) :
        \E k \in 1..Cardinality(fresh(e)) :
          /\ clock' = now
          /\ outbox' = MarkDelivered(queued, Shown(fresh(e), k) \cup
                                             UNION {fresh(x) : x \in done})
          /\ Emit([t \in Sock |->
                CASE t = s                         -> <<SentFrame(m, now), Failure>>
                  [] t = conns[e]                  -> DeliverFrames(First(fresh(e), k))
                  [] \E x \in done : conns[x] = t  -> DeliverFrames(fresh(conn[t].deviceId))
                  [] OTHER                         -> <<>>])
          /\ UNCHANGED <<devices, cli, up, ready, conn, conns>>
    BY DEF PushFails
  <1>2. PICK done \in SUBSET (targets \ {e}), k \in 1..Cardinality(fresh(e)) :
          /\ clock' = now
          /\ outbox' = MarkDelivered(queued, Shown(fresh(e), k) \cup
                                             UNION {fresh(x) : x \in done})
          /\ Emit([t \in Sock |->
                CASE t = s                         -> <<SentFrame(m, now), Failure>>
                  [] t = conns[e]                  -> DeliverFrames(First(fresh(e), k))
                  [] \E x \in done : conns[x] = t  -> DeliverFrames(fresh(conn[t].deviceId))
                  [] OTHER                         -> <<>>])
          /\ UNCHANGED <<devices, cli, up, ready, conn, conns>>
    BY <1>1
  <1> DEFINE front  == First(fresh(e), k)
             marked == Shown(fresh(e), k) \cup UNION {fresh(x) : x \in done}
             given  == [t \in Sock |->
                          IF t = conns[e] THEN front
                          ELSE IF \E x \in done : conns[x] = t
                               THEN fresh(conn[t].deviceId) ELSE {}]
  <1>3. d \in Device /\ conns[d] = s
    BY DEF QueueInv, Inv, RegistryConsistent, TypeOK, ConnObject
  <1>4. \A x \in targets : /\ x \in Device /\ x # d /\ conns[x] \in Sock
                           /\ conn[conns[x]].deviceId = x /\ conns[x] # s
    <2>1. \A x \in targets : x \in Device /\ x # d /\ conns[x] # Null
      BY DEF PushTargets, Accepted, Online
    <2> HIDE DEF targets
    <2>2. \A x \in targets : conns[x] \in Sock /\ conn[conns[x]].deviceId = x
      BY <2>1 DEF QueueInv, Inv, RegistryConsistent, Online, TypeOK
    <2>3. conn[s].deviceId = d
      OBVIOUS
    <2> QED
      BY <2>1, <2>2, <2>3
  <1>5. clock <= clock' /\ clock' \in 0..MaxClock /\ Extends(queued)
    BY <1>2, <1>3, SendExtends
  <1>6. Table(queued)
    BY <1>5 DEF Extends
  <1>7. \A x : /\ OneQueue(fresh(x))
               /\ \A r \in fresh(x) : r.to = x /\ ~r.delivered /\ r \in queued
               /\ \A r \in queued : r.to = x /\ ~r.delivered => r \in fresh(x)
    BY <1>6, PushedRows
  <1> HIDE DEF targets, queued, fresh
  <1>8. /\ Shown(fresh(e), k) \subseteq front
        /\ front \subseteq fresh(e) /\ OneQueue(front)
        /\ \A r \in fresh(e), q \in front :
              r \notin Shown(fresh(e), k) => q.recvAt <= r.recvAt
    BY <1>7, FrontRows
  <1> HIDE DEF front
  <1>9. /\ out'[s] = IF ready[s] = "open" THEN <<SentFrame(m, now), Failure>> ELSE <<>>
        /\ out'[conns[e]] = IF ready[conns[e]] = "open" THEN DeliverFrames(front) ELSE <<>>
        /\ \A x \in done : out'[conns[x]] = IF ready[conns[x]] = "open"
                                            THEN DeliverFrames(fresh(x)) ELSE <<>>
        /\ \A t \in Sock : t # s /\ t # conns[e] /\ (\A x \in done : conns[x] # t)
              => out'[t] = <<>>
    <2> DEFINE frames(t) ==
                 CASE t = s                         -> <<SentFrame(m, now), Failure>>
                   [] t = conns[e]                  -> DeliverFrames(front)
                   [] \E x \in done : conns[x] = t  -> DeliverFrames(fresh(conn[t].deviceId))
                   [] OTHER                         -> <<>>
    <2>1. \A t \in Sock : out'[t] = IF ready[t] = "open" THEN frames(t) ELSE <<>>
      BY <1>2 DEF Emit, front
    <2>2. \A x \in done : conns[x] # conns[e]
      BY <1>4
    <2>3. frames(s) = <<SentFrame(m, now), Failure>>
      BY <1>4
    <2>4. frames(conns[e]) = DeliverFrames(front)
      BY <1>4
    <2>5. \A x \in done : frames(conns[x]) = DeliverFrames(fresh(x))
      BY <1>4, <2>2
    <2>6. \A t \in Sock : t # s /\ t # conns[e] /\ (\A x \in done : conns[x] # t)
             => frames(t) = <<>>
      OBVIOUS
    <2> HIDE DEF frames
    <2> QED
      BY <1>4, <2>1, <2>3, <2>4, <2>5, <2>6
  <1>10. /\ given[s] = {} /\ given[conns[e]] = front
         /\ \A x \in done : given[conns[x]] = fresh(x)
         /\ \A t \in Sock : t # conns[e] /\ (\A x \in done : conns[x] # t) => given[t] = {}
    <2>1. \A x \in done : conns[x] # conns[e] /\ conns[x] # s
      BY <1>4
    <2>2. s # conns[e]
      BY <1>4
    <2> QED
      BY <1>4, <2>1, <2>2
  <1>11. marked \in SUBSET queued /\ \A r \in marked : ~r.delivered /\
             ((r \in Shown(fresh(e), k) /\ r.to = e) \/ r.to \in done)
    BY <1>7, <1>8
  <1>12. Shown(fresh(e), k) \subseteq marked /\ \A x \in done : fresh(x) \subseteq marked
    OBVIOUS
  <1>13. given \in [Sock -> SUBSET queued]
    BY <1>7, <1>8
  <1> HIDE DEF given, marked
  <1>14. \A r \in queued, x \in targets : conns[r.to] = conns[x] => r.to = x
    <2> SUFFICES ASSUME NEW r \in queued, NEW x \in targets, conns[r.to] = conns[x]
                 PROVE  r.to = x
      OBVIOUS
    <2>1. r.to \in Device /\ conns[r.to] # Null
      BY <1>4, <1>6, SockAssumption DEF Table, Row
    <2>2. conn[conns[r.to]].deviceId = r.to
      BY <2>1 DEF QueueInv, Inv, RegistryConsistent, Online
    <2> QED
      BY <1>4, <2>2
  <1>15. ASSUME NEW t \in Sock, ready[t] = "open"
         PROVE  /\ Delivers(t, queued, given[t], marked)
                /\ \A r \in given[t] : ~r.delivered
                /\ \A i \in DOMAIN out'[t] :
                      /\ out'[t][i].t \notin {"welcome", "presence"}
                      /\ conn[t].deviceId = Null => out'[t][i].t \in {"error", "challenge"}
    <2>1. \A r \in Waiting(queued, t) : r \in queued /\ conns[r.to] = t
      BY <1>2 DEF Waiting
    <2>2. CASE t = conns[e]
      <3>1. Carries(out'[t], front) /\ OnlyDeliver(out'[t])
        BY <1>8, <1>9, <1>15, <2>2, DeliverCarries
      <3>2. front \subseteq Waiting(queued, t)
        BY <1>2, <1>7, <1>8, <2>2 DEF Waiting
      <3>3. \A r \in Waiting(queued, t) : r \in marked => r \in front
        BY <1>8, <1>11, <1>14, <2>1, <2>2
      <3>4. \A r \in Waiting(queued, t), q \in front :
               ~r.delivered /\ r \notin marked => q.recvAt <= r.recvAt
        BY <1>7, <1>8, <1>12, <1>14, <2>1, <2>2
      <3>5. Delivers(t, queued, front, marked)
        BY <3>1, <3>2, <3>3, <3>4 DEF Delivers
      <3>6. \A r \in front : ~r.delivered
        BY <1>7, <1>8
      <3>7. conn[t].deviceId # Null
        BY <1>4, <2>2, DeviceAssumption
      <3> QED
        BY <1>10, <2>2, <3>1, <3>5, <3>6, <3>7 DEF OnlyDeliver
    <2>3. ASSUME NEW x \in done, conns[x] = t
          PROVE  /\ Delivers(t, queued, given[t], marked)
                 /\ \A r \in given[t] : ~r.delivered
                 /\ \A i \in DOMAIN out'[t] :
                       /\ out'[t][i].t \notin {"welcome", "presence"}
                       /\ conn[t].deviceId = Null => out'[t][i].t \in {"error", "challenge"}
      <3>1. Carries(out'[t], fresh(x)) /\ OnlyDeliver(out'[t])
        BY <1>7, <1>9, <1>15, <2>3, DeliverCarries
      <3>2. fresh(x) \subseteq Waiting(queued, t)
        BY <1>2, <1>7, <2>3 DEF Waiting
      <3>3. \A r \in Waiting(queued, t) : ~r.delivered => r \in fresh(x)
        BY <1>7, <1>14, <2>1, <2>3
      <3>4. \A r \in Waiting(queued, t) : r \in marked => r \in fresh(x)
        BY <1>11, <3>3
      <3>5. \A r \in Waiting(queued, t) : ~r.delivered => r \in marked
        BY <1>12, <3>3
      <3>6. Delivers(t, queued, fresh(x), marked)
        BY <3>1, <3>2, <3>4, <3>5 DEF Delivers
      <3>7. \A r \in fresh(x) : ~r.delivered
        BY <1>7
      <3>8. conn[t].deviceId # Null
        BY <1>4, <2>3, DeviceAssumption
      <3> QED
        BY <1>10, <2>3, <3>1, <3>6, <3>7, <3>8 DEF OnlyDeliver
    <2>4. CASE t # conns[e] /\ \A x \in done : conns[x] # t
      <3>1. given[t] = {}
        BY <1>10, <2>4
      <3>2. /\ Listing(out'[t])
            /\ \A i \in DOMAIN out'[t] :
                  /\ out'[t][i].t \notin {"welcome", "presence", "deliver"}
                  /\ conn[t].deviceId = Null => out'[t][i].t \in {"error", "challenge"}
        <4>1. CASE t = s
          <5> DEFINE a == SentFrame(m, now)
                     b == Failure
          <5>1. a.t = "sent" /\ b.t = "error" /\ conn[t].deviceId # Null
            BY <1>3, <4>1, DeviceAssumption DEF SentFrame, Failure, Error
          <5>2. out'[t] = <<a, b>>
            BY <1>9, <1>15, <4>1
          <5> HIDE DEF a, b
          <5>3. Listing(<<a, b>>) /\ <<a, b>>[1] = a /\ <<a, b>>[2] = b
            BY ShortListings
          <5>4. DOMAIN <<a, b>> = {1, 2}
            OBVIOUS
          <5> QED
            BY <5>1, <5>2, <5>3, <5>4
        <4>2. CASE t # s
          <5>1. out'[t] = <<>>
            BY <1>9, <2>4, <4>2
          <5>2. Listing(<<>>) /\ DOMAIN <<>> = {}
            BY ShortListings
          <5> QED
            BY <5>1, <5>2
        <4> QED
          BY <4>1, <4>2
      <3>3. Carries(out'[t], {})
        BY <3>2, IdleCarries
      <3>4. \A r \in Waiting(queued, t) : r \notin marked
        BY <1>11, <2>1, <2>4
      <3>5. Delivers(t, queued, {}, marked)
        BY <3>3, <3>4 DEF Delivers
      <3> QED
        BY <3>1, <3>2, <3>5
    <2> QED
      BY <2>2, <2>3, <2>4
  <1>16. QueueEffect({})
    <2>1. outbox' = MarkDelivered(queued, marked) /\ UNCHANGED <<ready, conns>>
      BY <1>2 DEF marked
    <2>2. \A t \in Sock : ready[t] = "open" =>
             Delivers(t, queued, given[t], marked) /\ \A r \in given[t] : ~r.delivered
      BY <1>15
    <2> QED
      BY <1>5, <1>11, <1>13, <2>1, <2>2, PushQueue
  <1>17. NoNews
    <2>1. UNCHANGED <<ready, conn, conns>>
      BY <1>2
    <2>2. \A t \in Sock : ready[t] = "open" => Listing(out'[t])
      BY <1>15 DEF Delivers, Carries
    <2> QED
      BY <1>15, <2>1, <2>2 DEF NoNews
  <1> QED
    BY <1>16, <1>17

\* Every step, failed or not, keeps what FaultSafe promises.
LEMMA FaultSafeStep ==
    ASSUME FaultSafe, FaultNext
    PROVE  FaultSafe'
  <1>1. QueueInv /\ OnlyOnline /\ Inv /\ Listen
    BY DEF FaultSafe, QueueInv, FaultNext
  <1>2. Inv'
    BY <1>1, FaultStep DEF FaultNext
  <1>3. CASE Next /\ Broken({})
    BY <1>1, <1>2, <1>3, HubTells, ConfinedStep
  <1>4. ASSUME NEW s \in Sock, WriteFails(s)
        PROVE  \E ds : Broken(ds) /\ QueueEffect(ds) /\ Strangers' /\ OnlyOnline'
    <2>1. ready[s] \in {"open", "closing"}
      BY <1>4 DEF WriteFails
    <2>2. CASE \/ \E f \in HelloFrames : HelloLogFails(s, f)
               \/ ~conn[s].authed /\ \E f \in AuthFrames : AuthLogFails(s, f) \/ AuthTouchFails(s, f)
               \/ \E ids \in SUBSET Msg : AckLogFails(s, ids)
      <3>1. Broken({})
        BY <2>2 DEF HelloLogFails, AuthLogFails, AuthTouchFails, AckLogFails
      <3>2. Uneventful
        BY <1>1, <2>1, <2>2, FailsSilently
      <3>3. QueueEffect({}) /\ Strangers' /\ OnlyOnline'
        BY <1>1, <1>2, <3>2, UneventfulEffect, NoNewsStep
      <3> QED
        BY <3>1, <3>3
    <2>3. ASSUME ~conn[s].authed, NEW f \in AuthFrames, RegisterLogFails(s, f)
          PROVE  \E ds : Broken(ds) /\ QueueEffect(ds) /\ Strangers' /\ OnlyOnline'
      <3>1. Broken({conn[s].pending})
        BY <2>3 DEF RegisterLogFails
      <3> QED
        BY <1>1, <1>2, <2>1, <2>3, <3>1, RegisterTells
    <2>4. ASSUME ~conn[s].authed, NEW f \in AuthFrames, FlushFails(s, f)
          PROVE  \E ds : Broken(ds) /\ QueueEffect(ds) /\ Strangers' /\ OnlyOnline'
      <3>1. Broken({conn[s].pending})
        BY <2>4 DEF FlushFails
      <3> QED
        BY <1>1, <1>2, <2>1, <2>4, <3>1, FlushTells
    <2>5. ASSUME conn[s].authed, NEW m \in Msg, NEW to \in SUBSET Device, NEW now \in 0..MaxClock,
                 now \in {clock, clock + 1}, SendLogFails(s, m, to, now) \/ PushFails(s, m, to, now)
          PROVE  \E ds : Broken(ds) /\ QueueEffect(ds) /\ Strangers' /\ OnlyOnline'
      <3>1. Broken({})
        BY <2>5 DEF SendLogFails, PushFails
      <3>2. NoNews /\ QueueEffect({})
        BY <1>1, <1>2, <2>5, SendFailsTells, PushFailsTells
      <3>3. Strangers' /\ OnlyOnline'
        BY <1>1, <1>2, <3>2, NoNewsStep
      <3> QED
        BY <3>1, <3>2, <3>3
    <2> QED
      BY <1>4, <2>2, <2>3, <2>4, <2>5 DEF WriteFails, HandshakeFails, HandleFails
  <1>5. CASE \E s \in Sock : WriteFails(s)
    BY <1>1, <1>2, <1>4, <1>5, ConfinedStep
  <1> QED
    BY <1>3, <1>5 DEF FaultNext

\* Before the first connection no session was broken off.
LEMMA FaultSafeInit == FaultInit => FaultSafe
  <1> SUFFICES ASSUME FaultInit PROVE FaultSafe
    OBVIOUS
  <1>1. SessionInv
    BY SessionInit DEF FaultInit
  <1>2. QueueInv /\ OnlyOnline /\ \A d \in Device : Listening(d) => AllShown(d)
    BY <1>1 DEF SessionInv, NewsInv, EveryoneShown
  <1> QED
    BY <1>2 DEF FaultSafe, DamageConfined, AllShown

\* In all behaviours of the hub on a failing database.
LEMMA FaultSafeAlways == FaultSpec => []FaultSafe
  <1>1. FaultSafe /\ [FaultNext]_faultVars => FaultSafe'
    <2>1. ASSUME FaultSafe, UNCHANGED faultVars PROVE FaultSafe'
      <3>1. Inv'
        BY <2>1, InvNext DEF FaultSafe, QueueInv, faultVars
      <3>2. TableInv' /\ PeerInv' /\ NewestLast'
        BY <2>1 DEF FaultSafe, QueueInv, TableInv, PeerInv, NewestLast, Listening, Online,
                    Told, Queue, vars, faultVars
      <3>3. OnlyOnline' /\ DamageConfined'
        BY <2>1 DEF FaultSafe, OnlyOnline, DamageConfined, Listening, Online,
                    Told, Queue, vars, faultVars
      <3> QED
        BY <3>1, <3>2, <3>3 DEF FaultSafe, QueueInv
    <2> QED
      BY <2>1, FaultSafeStep
  <1> QED
    BY <1>1, FaultSafeInit, PTL DEF FaultSpec

\* DamageConfined: for any family, any backlog and any number of failures, a
\* failed delivery costs the session whose own flush it broke, and no other
\* (router.js, deliverPending; server.js, catch block of the message handler).
THEOREM FailureConfined == FaultSpec => []DamageConfined
  <1>1. FaultSafe => DamageConfined
    BY DEF FaultSafe
  <1> QED
    BY <1>1, FaultSafeAlways, PTL

\* DeliveryOrder: what a broken flush or push did write is the front of the
\* queue, so recv_at never decreases on a socket, failures or not (router.js,
\* deliverPending).
THEOREM OrderSurvives == FaultSpec => []DeliveryOrder
  <1>1. FaultSafe => DeliveryOrder
    BY DEF FaultSafe, QueueInv, PeerInv, DeliveryOrder
  <1> QED
    BY <1>1, FaultSafeAlways, PTL

\* PresenceSound: an arrival may go unannounced, but nobody is believed online
\* who is not (server.js, onAuth; router.js, broadcastPresence).
THEOREM NoGhosts == FaultSpec => []PresenceSound
  <1>1. FaultSafe => PresenceSound
    BY DEF FaultSafe, OnlyOnline, PresenceSound
  <1> QED
    BY <1>1, FaultSafeAlways, PTL
=============================================================================
