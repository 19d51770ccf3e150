----------------------------- MODULE HubProofs -----------------------------
(***************************************************************************)
(* Theorems about the hub, for any number of devices, sockets, messages,   *)
(* names and keys.  out is only written, so it appears in no invariant but *)
(* the type of its domain.                                                 *)
(***************************************************************************)
EXTENDS Hub, SequenceTheorems, FiniteSetTheorems, WellFoundedInduction, TLAPS

\* deliverPending turns rows into rows: only delivered_at changes.
LEMMA MarkDeliveredType ==
    ASSUME NEW table \in SUBSET Row, NEW rows \in SUBSET Row
    PROVE  MarkDelivered(table, rows) \in SUBSET Row
  BY DEF MarkDelivered, Row

\* ... and every row it returns is one of the table's, shown or not.
LEMMA MarkDeliveredOrigin ==
    ASSUME NEW table \in SUBSET Row, NEW rows \in SUBSET table,
           NEW r \in MarkDelivered(table, rows)
    PROVE  \E q \in table : r.to = q.to
  BY DEF MarkDelivered, Row

\* Marking a recipient's rows leaves no unshown row among them.
LEMMA MarkDeliveredShown ==
    ASSUME NEW table \in SUBSET Row, NEW rows \in SUBSET Row,
           NEW r \in MarkDelivered(table, rows), ~r.delivered
    PROVE  r \in table /\ r \notin rows
  BY DEF MarkDelivered, Row

\* handleSend inserts rows of the table, addressed to accepted devices.
LEMMA InsertedType ==
    ASSUME NEW d \in Device, NEW m \in Msg, NEW to \in SUBSET Device,
           NEW now \in 0..MaxClock
    PROVE  /\ Inserted(d, m, Accepted(d, to), now) \in SUBSET Row
           /\ \A r \in Inserted(d, m, Accepted(d, to), now) : r.to \in Accepted(d, to)
  <1>1. \A e \in Accepted(d, to) :
          [msg |-> m, to |-> e, from |-> d, recvAt |-> now, delivered |-> FALSE] \in Row
    BY DEF Row, Accepted
  <1>2. QED
    BY <1>1 DEF Inserted

\* Every way out is written leaves one sequence of frames per socket.
LEMMA OutDomain ==
    /\ Quiet => DOMAIN out' = Sock
    /\ \A frames : Emit(frames) => DOMAIN out' = Sock
    /\ \A s, fs : Reply(s, fs) => DOMAIN out' = Sock
  BY DEF Quiet, Emit, Reply

\* close() leaves a socket in one of the states of its life.
LEMMA ClosingType ==
    ASSUME TypeOK, NEW s \in Sock
    PROVE  Closing(s) \in SockState
  BY DEF TypeOK, Closing, SockState

\* The frames of an authenticated connection preserve the types.
LEMMA HandleType ==
    ASSUME TypeOK, NEW s \in Sock, conn[s].authed, conn[s].deviceId \in Device, Handle(s)
    PROVE  TypeOK'
  <1>1. CASE HandlePing(s) \/ RefuseFrame(s) \/ RefuseRate(s)
    BY <1>1, OutDomain DEF HandlePing, RefuseFrame, RefuseRate, TypeOK
  <1>2. ASSUME NEW m \in Msg, NEW to \in SUBSET Device,
               NEW now \in 0..MaxClock, HandleSend(s, m, to, now)
        PROVE  TypeOK'
    <2> DEFINE d      == conn[s].deviceId
               queued == outbox \cup Inserted(d, m, Accepted(d, to), now)
               pushed == UNION {Pending(queued, e, TRUE) :
                                  e \in PushTargets(Accepted(d, to))}
    <2>1. queued \in SUBSET Row
      BY InsertedType DEF TypeOK
    <2> HIDE DEF queued
    <2>2. pushed \in SUBSET queued
      BY DEF Pending
    <2>3. MarkDelivered(queued, pushed) \in SUBSET Row
      BY <2>1, <2>2, MarkDeliveredType
    <2>4. outbox' \subseteq Row
      BY <1>2, <2>3 DEF HandleSend, queued
    <2>5. DOMAIN out' = Sock
      BY <1>2, OutDomain DEF HandleSend
    <2>6. QED
      BY <1>2, <2>4, <2>5 DEF HandleSend, TypeOK
  <1>3. ASSUME NEW ids \in SUBSET Msg, HandleAck(s, ids)
        PROVE  TypeOK'
    BY <1>3, OutDomain DEF HandleAck, TypeOK
  <1>4. QED
    BY <1>1, <1>2, <1>3 DEF Handle

-----------------------------------------------------------------------------
\* What a connection's past allows: a dead socket has no conn object left, the
\* challenge is spent by the time a connection is authenticated, and an evicted
\* connection can neither be written to nor hold a nonce that was shown.
HandshakeInv ==
    \A s \in Sock :
        /\ ready[s] = "free" => conn[s] = NewConn
        /\ conn[s].authed => conn[s].nonce = "none"
        /\ Replaced(s) => ready[s] # "open" /\ conn[s].nonce # "shown"

Inv == TypeOK /\ RegistryConsistent /\ HandshakeInv

\* The frames that leave every table, socket and connection as it is.
LEMMA QuietSteps ==
    ASSUME Inv, UNCHANGED <<devices, outbox, clock, cli, up, ready, conn, conns>>,
           DOMAIN out' = Sock
    PROVE  Inv'
  BY DEF Inv, TypeOK, RegistryConsistent, HandshakeInv, Online, Replaced

\* Steps that only end sockets: their connections stay what they are.
LEMMA SocketSteps ==
    ASSUME Inv, UNCHANGED <<devices, outbox, clock, cli, conn, conns>>,
           up' \in BOOLEAN, DOMAIN out' = Sock,
           ready' \in [Sock -> SockState],
           \A s \in Sock : /\ ready'[s] = "free" <=> ready[s] = "free"
                           /\ ready'[s] = "open" => ready[s] = "open"
    PROVE  Inv'
  BY DEF Inv, TypeOK, RegistryConsistent, HandshakeInv, Online, Replaced

\* Steps that only write the tables: nobody's session is touched.
LEMMA TableSteps ==
    ASSUME Inv, TypeOK', UNCHANGED <<up, ready, conn, conns>>
    PROVE  Inv'
  BY DEF Inv, RegistryConsistent, HandshakeInv, Online, Replaced

\* The conn object of a new socket is well typed.
LEMMA NewConnType == NewConn \in ConnObject
  BY DEF NewConn, ConnObject, NonceState

LEMMA InvInit == Init => Inv
  <1> SUFFICES ASSUME Init PROVE Inv
    OBVIOUS
  <1>1. TypeOK
    BY NewConnType, ClockAssumption DEF Init, ServerInit, TypeOK, SockState, Fingerprint
  <1>2. RegistryConsistent /\ HandshakeInv
    BY DEF Init, ServerInit, RegistryConsistent, HandshakeInv, Online, Replaced, NewConn
  <1>3. QED
    BY <1>1, <1>2 DEF Inv

\* A socket appears: it was free, so nothing referred to it.
LEMMA InvConnect ==
    ASSUME Inv, NEW s \in Sock, Connect(s) \/ RejectPeer(s)
    PROVE  Inv'
  <1>1. ready[s] = "free" /\ conn[s] = NewConn
    BY DEF Connect, RejectPeer, Inv, HandshakeInv
  <1>2. conn' = conn /\ ready' = [ready EXCEPT ![s] = ready'[s]]
        /\ ready'[s] \in {"open", "ending"}
    BY <1>1 DEF Connect, RejectPeer, Inv, TypeOK
  <1>3. DOMAIN out' = Sock
    BY OutDomain DEF Connect, RejectPeer
  <1>4. TypeOK'
    BY <1>2, <1>3 DEF Connect, RejectPeer, Inv, TypeOK, SockState
  <1>5. RegistryConsistent'
    BY <1>1, <1>2 DEF Connect, RejectPeer, Inv, TypeOK, RegistryConsistent, Online
  <1>6. HandshakeInv'
    BY <1>1, <1>2 DEF Connect, RejectPeer, Inv, TypeOK, HandshakeInv, Replaced, NewConn
  <1>7. QED
    BY <1>4, <1>5, <1>6 DEF Inv

\* The frames of an authenticated connection change the tables only.
LEMMA InvHandle ==
    ASSUME Inv, NEW s \in Sock, conn[s].authed, Handle(s)
    PROVE  Inv'
  <1>1. conn[s].deviceId \in Device
    BY DEF Inv, TypeOK, ConnObject, RegistryConsistent
  <1>2. TypeOK'
    BY <1>1, HandleType DEF Inv
  <1>3. UNCHANGED <<up, ready, conn, conns>>
    BY DEF Handle, HandlePing, RefuseFrame, RefuseRate, HandleSend, HandleAck
  <1>4. QED
    BY <1>2, <1>3, TableSteps

\* A frame of an unauthenticated connection that changes no table and no conn
\* object ends the socket or leaves it.
LEMMA InvUnexpected ==
    ASSUME Inv, NEW s \in Sock, ready[s] \in {"open", "closing"},
           \/ OnUnexpected(s)
           \/ AuthWithoutHello(s)
           \/ \E f \in HelloFrames : HelloRefused(s, f)
    PROVE  Inv'
  <1>1. UNCHANGED <<devices, outbox, clock, cli, up, conn, conns>>
    BY DEF OnUnexpected, AuthWithoutHello, HelloRefused, Dismissed
  <1>2. DOMAIN out' = Sock
    BY OutDomain DEF OnUnexpected, AuthWithoutHello, HelloRefused, Dismissed
  <1>3. ready' = ready \/ ready' = [ready EXCEPT ![s] = Closing(s)]
    BY DEF OnUnexpected, AuthWithoutHello, HelloRefused, Dismissed
  <1>4. /\ ready' \in [Sock -> SockState]
        /\ \A t \in Sock : /\ ready'[t] = "free" <=> ready[t] = "free"
                           /\ ready'[t] = "open" => ready[t] = "open"
    BY <1>3 DEF Inv, TypeOK, Closing, SockState
  <1>5. up' \in BOOLEAN
    BY <1>1 DEF Inv, TypeOK
  <1>6. QED
    BY <1>1, <1>2, <1>4, <1>5, SocketSteps

\* A renamed device keeps its row and its keys.
LEMMA RenamedType ==
    ASSUME TypeOK, NEW f \in HelloFrames, HelloVerdict(f) = "OK"
    PROVE  /\ f.deviceId \in Device
           /\ Renamed(f) \in [Device -> Profile \cup {Null}]
           /\ \A d \in Device : (Renamed(f)[d] = Null) <=> (devices[d] = Null)
  <1>1. f.deviceId \in Device /\ Registered(f.deviceId) /\ f.name \in Name \cup {Null}
    BY DEF HelloVerdict, HelloFrames
  <1>2. devices[f.deviceId] \in Profile
    BY <1>1 DEF TypeOK, Registered
  <1>3. [devices[f.deviceId] EXCEPT !.name = f.name] \in Profile \/ f.name = Null
    BY <1>1, <1>2 DEF Profile
  <1>4. CASE f.name = Null
    BY <1>1, <1>4 DEF Renamed, TypeOK
  <1>5. CASE f.name # Null
    BY <1>1, <1>2, <1>3, <1>5, ProfileAssumption DEF Renamed, TypeOK, Registered
  <1>6. QED
    BY <1>4, <1>5

\* A hello that is answered with a challenge.  An evicted connection's socket is
\* not open, so the new nonce is sealed.
LEMMA InvHello ==
    ASSUME Inv, NEW s \in Sock, ready[s] \in {"open", "closing"}, ~conn[s].authed,
           NEW f \in HelloFrames, HelloAccepted(s, f)
    PROVE  Inv'
  <1> DEFINE nonce == IF ready[s] = "open" THEN "shown" ELSE "sealed"
  <1>1. f.deviceId \in Device /\ devices' \in [Device -> Profile \cup {Null}]
    BY RenamedType DEF HelloAccepted, Inv
  <1>2. /\ conn' = [conn EXCEPT ![s] = [conn[s] EXCEPT !.pending = f.deviceId,
                                                       !.nonce = nonce]]
        /\ UNCHANGED <<outbox, clock, cli, up, ready, conns>>
    BY DEF HelloAccepted, Inv, TypeOK
  <1>3. conn'[s] \in ConnObject
    BY <1>1, <1>2 DEF Inv, TypeOK, ConnObject, NonceState
  <1>4. TypeOK'
    <2>1. DOMAIN out' = Sock
      BY OutDomain DEF HelloAccepted
    <2>2. QED
      BY <1>1, <1>2, <1>3, <2>1 DEF Inv, TypeOK
  <1>5. /\ conn'[s].authed = conn[s].authed
        /\ conn'[s].deviceId = conn[s].deviceId
        /\ conn'[s].nonce = nonce
        /\ \A t \in Sock \ {s} : conn'[t] = conn[t]
    BY <1>2 DEF Inv, TypeOK, ConnObject
  <1>6. RegistryConsistent'
    BY <1>2, <1>5 DEF Inv, TypeOK, RegistryConsistent, Online
  <1>7. HandshakeInv'
    BY <1>2, <1>5 DEF Inv, TypeOK, HandshakeInv, Replaced
  <1>8. QED
    BY <1>4, <1>6, <1>7 DEF Inv

\* A refused auth spends the nonce and ends the socket.
LEMMA InvAuthRefused ==
    ASSUME Inv, NEW s \in Sock, ready[s] \in {"open", "closing"}, ~conn[s].authed,
           NEW f \in AuthFrames, AuthRefused(s, f)
    PROVE  Inv'
  <1>1. /\ conn' = [conn EXCEPT ![s] = [conn[s] EXCEPT !.nonce = "none"]]
        /\ ready' = [ready EXCEPT ![s] = "closing"]
        /\ UNCHANGED <<devices, outbox, clock, cli, up, conns>>
    BY DEF AuthRefused, Inv, TypeOK, Spent, Closing, Dismissed
  <1>2. conn'[s] \in ConnObject
    BY <1>1 DEF Inv, TypeOK, ConnObject, NonceState
  <1>3. TypeOK'
    <2>1. DOMAIN out' = Sock
      BY OutDomain DEF AuthRefused, Dismissed
    <2>2. QED
      BY <1>1, <1>2, <2>1 DEF Inv, TypeOK, SockState
  <1>4. /\ conn'[s].authed = conn[s].authed
        /\ conn'[s].deviceId = conn[s].deviceId
        /\ conn'[s].nonce = "none"
        /\ \A t \in Sock \ {s} : conn'[t] = conn[t]
    BY <1>1 DEF Inv, TypeOK, ConnObject
  <1>5. RegistryConsistent'
    BY <1>1, <1>4 DEF Inv, TypeOK, RegistryConsistent, Online
  <1>6. HandshakeInv'
    BY <1>1, <1>4 DEF Inv, TypeOK, HandshakeInv, Replaced
  <1>7. QED
    BY <1>3, <1>5, <1>6 DEF Inv

\* NONCE_TTL_MS passes: the challenge of one connection becomes worthless.
LEMMA InvNonceExpires ==
    ASSUME Inv, NEW s \in Sock, NonceExpires(s)
    PROVE  Inv'
  <1>1. /\ conn' = [conn EXCEPT ![s] = [conn[s] EXCEPT !.nonce = "stale"]]
        /\ UNCHANGED <<devices, outbox, clock, cli, up, ready, conns>>
        /\ ready[s] # "free"
        /\ conn[s].nonce # "none"
    BY DEF NonceExpires, Inv, TypeOK
  <1>2. conn'[s] \in ConnObject
    BY <1>1 DEF Inv, TypeOK, ConnObject, NonceState
  <1>3. TypeOK'
    <2>1. DOMAIN out' = Sock
      BY OutDomain DEF NonceExpires
    <2>2. QED
      BY <1>1, <1>2, <2>1 DEF Inv, TypeOK
  <1>4. /\ conn'[s].authed = conn[s].authed
        /\ conn'[s].deviceId = conn[s].deviceId
        /\ conn'[s].nonce = "stale"
        /\ \A t \in Sock \ {s} : conn'[t] = conn[t]
    BY <1>1 DEF Inv, TypeOK, ConnObject
  <1>5. RegistryConsistent'
    BY <1>1, <1>4 DEF Inv, TypeOK, RegistryConsistent, Online
  <1>6. HandshakeInv'
    BY <1>1, <1>4 DEF Inv, TypeOK, HandshakeInv, Replaced
  <1>7. QED
    BY <1>3, <1>5, <1>6 DEF Inv

\* What the registration of device d on s does to the connections: s is
\* registered for d, the connection d had before is evicted, the others keep
\* everything but the fingerprint of the member list they were sent.
Registers(s, d) ==
    /\ d \in Device
    /\ conn[s].nonce = "shown"
    /\ conns' = [conns EXCEPT ![d] = s]
    /\ conn'[s].authed
    /\ conn'[s].deviceId = d
    /\ conn'[s].nonce = "none"
    /\ \A t \in Sock \ {s} :
         /\ conn'[t] \in ConnObject
         /\ conn'[t].deviceId = conn[t].deviceId
         /\ conn'[t].nonce = conn[t].nonce
         /\ conn'[t].authed = (conn[t].authed /\ t # conns[d])
         /\ ~conn[t].authed => conn'[t] = conn[t]
         /\ t # conns[d] => ready'[t] = ready[t]
         /\ t = conns[d] => ready'[t] = Closing(t)
    /\ ready'[s] = ready[s]
    /\ conn' \in [Sock -> ConnObject]
    /\ ready' \in [Sock -> SockState]

\* An accepted auth also brings every connection to the current member list.
TakesPlace(s, d) ==
    /\ Registers(s, d)
    /\ conn'[s].fp = devices
    /\ \A e \in Device \ {d} : Online(e) => conn'[conns[e]].fp = devices

\* Admission does just that, however much of the flush it writes.
LEMMA AdmitEffect ==
    ASSUME Inv, NEW s \in Sock, ready[s] \in {"open", "closing"}, ~conn[s].authed,
           NEW f \in AuthFrames, Verified(s, f), NEW flush, Admit(s, flush)
    PROVE  TakesPlace(s, conn[s].pending)
  <1> DEFINE d        == conn[s].pending
             evicted  == {conns[d]} \ {Null, s}
             registry == [conns EXCEPT ![d] = s]
             others   == {registry[e] : e \in Device \ {d}} \ {Null}
             outdated == {t \in others : Outdated(t)}
  <1>1. d \in Device /\ conn[s].nonce = "shown"
    BY DEF Verified, AuthVerdict, Inv, TypeOK, ConnObject
  <1>2. /\ conns' = registry
        /\ ready' = [t \in Sock |-> IF t \in evicted THEN Closing(t) ELSE ready[t]]
        /\ conn' = [t \in Sock |->
             IF t = s THEN [conn[s] EXCEPT !.authed = TRUE, !.deviceId = d,
                                           !.nonce = "none", !.fp = devices]
             ELSE IF t \in evicted THEN Evict(conn[t])
             ELSE IF t \in outdated THEN [conn[t] EXCEPT !.fp = devices]
             ELSE conn[t]]
    BY DEF Admit, Spent, MembersFingerprint
  <1> HIDE DEF registry, others, outdated, evicted
  <1>3. devices \in Fingerprint /\ \A t \in Sock : conn[t] \in ConnObject
    BY DEF Inv, TypeOK, Fingerprint
  <1>4. /\ conn'[s] \in ConnObject
        /\ conn'[s].authed /\ conn'[s].deviceId = d
        /\ conn'[s].nonce = "none" /\ conn'[s].fp = devices
    BY <1>1, <1>2, <1>3 DEF ConnObject, NonceState
  <1>5. \A t \in evicted : t \in Sock /\ t # s /\ t = conns[d]
    BY <1>1 DEF evicted, Inv, TypeOK
  <1>6. \A t \in Sock : t # s /\ t = conns[d] => t \in evicted
    BY <1>1, SockAssumption DEF evicted
  <1>7. ASSUME NEW t \in Sock \ {s}
        PROVE  /\ conn'[t] \in ConnObject
               /\ conn'[t].deviceId = conn[t].deviceId
               /\ conn'[t].nonce = conn[t].nonce
               /\ conn'[t].authed = (conn[t].authed /\ t # conns[d])
               /\ ~conn[t].authed => conn'[t] = conn[t]
    <2>1. CASE t \in evicted
      <3>1. conn[t].authed
        BY <1>1, <1>5, <2>1, SockAssumption DEF Inv, RegistryConsistent, Online
      <3>2. QED
        BY <1>2, <1>3, <1>5, <2>1, <3>1 DEF Evict, ConnObject
    <2>2. CASE t \notin evicted /\ t \in outdated
      <3>1. conn[t].authed
        BY <1>1, <2>2, SockAssumption
        DEF outdated, others, registry, Inv, TypeOK, RegistryConsistent, Online
      <3>2. QED
        BY <1>2, <1>3, <1>6, <2>2, <3>1 DEF ConnObject
    <2>3. CASE t \notin evicted /\ t \notin outdated
      BY <1>2, <1>3, <1>6, <2>3 DEF ConnObject
    <2>4. QED
      BY <2>1, <2>2, <2>3
  <1>8. /\ ready' \in [Sock -> SockState]
        /\ ready'[s] = ready[s]
        /\ \A t \in Sock \ {s} : /\ t # conns[d] => ready'[t] = ready[t]
                                 /\ t = conns[d] => ready'[t] = Closing(t)
    BY <1>2, <1>5, <1>6, ClosingType DEF Inv, TypeOK
  <1>9. conn' \in [Sock -> ConnObject]
    BY <1>2, <1>4, <1>7
  <1>10. ASSUME NEW e \in Device \ {d}, Online(e)
         PROVE  conn'[conns[e]].fp = devices
    <2> DEFINE t == conns[e]
    <2>1. t \in Sock /\ conn[t].authed /\ conn[t].deviceId = e
      BY <1>10 DEF Inv, TypeOK, RegistryConsistent, Online
    <2>2. t # s /\ t # conns[d]
      BY <1>1, <2>1, SockAssumption DEF Inv, TypeOK, RegistryConsistent, Online
    <2>3. t \notin evicted
      BY <1>5, <2>2
    <2>4. t \in others
      BY <1>1, <1>10, <2>1, SockAssumption DEF others, registry, Inv, TypeOK
    <2>5. CASE t \in outdated
      BY <1>2, <1>3, <2>1, <2>2, <2>3, <2>5 DEF ConnObject
    <2>6. CASE t \notin outdated
      BY <1>2, <2>1, <2>2, <2>3, <2>4, <2>6 DEF outdated, Outdated, MembersFingerprint
    <2>7. QED
      BY <2>5, <2>6
  <1>11. Registers(s, d)
    BY <1>1, <1>2, <1>4, <1>7, <1>8, <1>9 DEF registry, Registers
  <1>12. QED
    BY <1>4, <1>10, <1>11 DEF TakesPlace

LEMMA AuthEffect ==
    ASSUME Inv, NEW s \in Sock, ready[s] \in {"open", "closing"}, ~conn[s].authed,
           NEW f \in AuthFrames, AuthAccepted(s, f)
    PROVE  TakesPlace(s, conn[s].pending)
  <1>1. Verified(s, f) /\ Admit(s, DeliverFrames(Pending(outbox, conn[s].pending, FALSE)))
    BY DEF AuthAccepted
  <1> QED
    BY <1>1, AdmitEffect

\* A registration: the new connection takes the place of the old one.
LEMMA InvRegisters ==
    ASSUME Inv, NEW s \in Sock, ready[s] \in {"open", "closing"}, ~conn[s].authed,
           NEW d, Registers(s, d), TypeOK'
    PROVE  Inv'
  <1>1. d \in Device /\ conns' = [conns EXCEPT ![d] = s]
    BY DEF Registers
  <1>2. /\ conn'[s].authed /\ conn'[s].deviceId = d /\ conn'[s].nonce = "none"
        /\ ready'[s] = ready[s]
    BY DEF Registers
  <1>3. \A t \in Sock \ {s} :
          /\ conn'[t].deviceId = conn[t].deviceId
          /\ conn'[t].nonce = conn[t].nonce
          /\ conn'[t].authed = (conn[t].authed /\ t # conns[d])
          /\ ~conn[t].authed => conn'[t] = conn[t]
          /\ t # conns[d] => ready'[t] = ready[t]
          /\ t = conns[d] => ready'[t] = Closing(t)
    BY DEF Registers
  <1>4. RegistryConsistent'
    <2>1. ASSUME NEW e \in Device, Online(e)'
          PROVE  /\ ready'[conns'[e]] # "free"
                 /\ conn'[conns'[e]].authed
                 /\ conn'[conns'[e]].deviceId = e
      <3>1. CASE e = d
        BY <1>1, <1>2, <3>1 DEF Inv, TypeOK
      <3>2. CASE e # d
        <4>1. conns'[e] = conns[e] /\ Online(e)
          BY <1>1, <2>1, <3>2 DEF Inv, TypeOK, Online
        <4>2. conns[e] \in Sock \ {s} /\ conns[e] # conns[d]
          BY <1>1, <3>2, <4>1 DEF Inv, TypeOK, RegistryConsistent, Online
        <4>3. /\ ready[conns[e]] # "free"
              /\ conn[conns[e]].authed
              /\ conn[conns[e]].deviceId = e
          BY <4>1 DEF Inv, RegistryConsistent
        <4>4. QED
          BY <1>3, <4>1, <4>2, <4>3
      <3>3. QED
        BY <3>1, <3>2
    <2>2. ASSUME NEW t \in Sock, conn'[t].authed
          PROVE  conn'[t].deviceId # Null /\ conns'[conn'[t].deviceId] = t
      <3>1. CASE t = s
        BY <1>1, <1>2, <3>1, DeviceAssumption DEF Inv, TypeOK
      <3>2. CASE t # s
        <4>1. conn[t].authed /\ t # conns[d] /\ conn'[t].deviceId = conn[t].deviceId
          BY <1>3, <2>2, <3>2
        <4>2. conn[t].deviceId \in Device /\ conns[conn[t].deviceId] = t
          BY <4>1 DEF Inv, TypeOK, ConnObject, RegistryConsistent
        <4>3. conn[t].deviceId # d
          BY <4>1, <4>2
        <4>4. QED
          BY <1>1, <4>1, <4>2, <4>3, DeviceAssumption DEF Inv, TypeOK
      <3>3. QED
        BY <3>1, <3>2
    <2>3. QED
      BY <2>1, <2>2 DEF RegistryConsistent, Online
  <1>5. HandshakeInv'
    <2>1. ASSUME NEW t \in Sock
          PROVE  /\ ready'[t] = "free" => conn'[t] = NewConn
                 /\ conn'[t].authed => conn'[t].nonce = "none"
                 /\ Replaced(t)' => ready'[t] # "open" /\ conn'[t].nonce # "shown"
      <3>1. CASE t = s
        BY <1>2, <3>1 DEF Replaced
      <3>2. CASE t # s /\ t = conns[d]
        <4>1. conn[t].authed /\ ready[t] # "free"
          BY <1>1, <3>2, SockAssumption DEF Inv, RegistryConsistent, Online
        <4>2. ready'[t] = Closing(t) /\ conn'[t].nonce = conn[t].nonce /\ ~conn'[t].authed
          BY <1>3, <3>2
        <4>3. conn[t].nonce = "none" /\ Closing(t) \in {"closing", "ending"}
          BY <4>1 DEF Inv, TypeOK, HandshakeInv, Closing, SockState
        <4>4. QED
          BY <4>2, <4>3
      <3>3. CASE t # s /\ t # conns[d]
        <4>1. ready'[t] = ready[t] /\ conn'[t].nonce = conn[t].nonce
              /\ conn'[t].authed = conn[t].authed /\ conn'[t].deviceId = conn[t].deviceId
          BY <1>3, <3>3 DEF Inv, TypeOK, ConnObject
        <4>2. ready[t] = "free" => conn'[t] = NewConn
          <5>1. ready[t] = "free" => conn[t] = NewConn
            BY DEF Inv, HandshakeInv
          <5>2. ~NewConn.authed
            BY DEF NewConn
          <5>3. QED
            BY <1>3, <3>3, <5>1, <5>2
        <4>3. QED
          BY <4>1, <4>2 DEF Inv, HandshakeInv, Replaced
      <3>4. QED
        BY <3>1, <3>2, <3>3
    <2>2. QED
      BY <2>1 DEF HandshakeInv
  <1>6. QED
    BY <1>4, <1>5 DEF Inv

LEMMA InvAuthAccepted ==
    ASSUME Inv, NEW s \in Sock, ready[s] \in {"open", "closing"}, ~conn[s].authed,
           NEW f \in AuthFrames, AuthAccepted(s, f)
    PROVE  Inv'
  <1> DEFINE d == conn[s].pending
  <1>1. Registers(s, d)
    BY AuthEffect DEF TakesPlace
  <1>2. TypeOK'
    <2>1. outbox' \in SUBSET Row
      BY MarkDeliveredType DEF AuthAccepted, Admit, Verified, Pending, Inv, TypeOK
    <2>2. DOMAIN out' = Sock
      BY OutDomain DEF AuthAccepted, Admit, Verified
    <2>3. UNCHANGED <<devices, clock, cli, up>>
      BY DEF AuthAccepted, Admit, Verified
    <2>4. conns' \in [Device -> Sock \cup {Null}]
      BY <1>1 DEF Registers, Inv, TypeOK
    <2>5. QED
      BY <1>1, <2>1, <2>2, <2>3, <2>4 DEF Inv, TypeOK, Registers
  <1>3. QED
    BY <1>1, <1>2, InvRegisters

\* A socket closes: its conn object goes, and with it the registration if the
\* connection still held its device's place.
LEMMA InvOnClose ==
    ASSUME Inv, NEW s \in Sock, OnClose(s)
    PROVE  Inv'
  <1> DEFINE d == conn[s].deviceId
  <1>1. /\ ready' = [ready EXCEPT ![s] = "free"]
        /\ conn' = [conn EXCEPT ![s] = NewConn]
        /\ conns' = IF HoldsPlace(s) THEN [conns EXCEPT ![d] = Null] ELSE conns
        /\ UNCHANGED <<devices, outbox, clock, cli, up>>
    BY DEF OnClose
  <1>2. HoldsPlace(s) <=> conn[s].authed
    BY DEF HoldsPlace, Inv, RegistryConsistent
  <1>3. conn[s].authed => d \in Device /\ conns[d] = s
    BY DEF Inv, TypeOK, ConnObject, RegistryConsistent
  <1> HIDE DEF d
  <1>4. \A e \in Device : conns'[e] = IF conns[e] = s THEN Null ELSE conns[e]
    <2> SUFFICES ASSUME NEW e \in Device
                 PROVE  conns'[e] = IF conns[e] = s THEN Null ELSE conns[e]
      OBVIOUS
    <2>1. conns[e] = s => conn[s].authed /\ conn[s].deviceId = e
      BY SockAssumption DEF Inv, TypeOK, RegistryConsistent, Online
    <2>2. QED
      BY <1>1, <1>2, <1>3, <2>1 DEF Inv, TypeOK, d
  <1>5. conns' \in [Device -> Sock \cup {Null}]
    BY <1>1 DEF Inv, TypeOK
  <1>6. TypeOK'
    <2>1. DOMAIN out' = Sock
      BY OutDomain DEF OnClose
    <2>2. QED
      BY <1>1, <1>5, <2>1, NewConnType DEF Inv, TypeOK, SockState
  <1>7. RegistryConsistent'
    <2>1. ASSUME NEW e \in Device, Online(e)'
          PROVE  /\ ready'[conns'[e]] # "free"
                 /\ conn'[conns'[e]].authed
                 /\ conn'[conns'[e]].deviceId = e
      <3>1. conns'[e] = conns[e] /\ conns[e] # s /\ Online(e)
        BY <1>4, <2>1 DEF Online
      <3>2. QED
        BY <1>1, <3>1 DEF Inv, TypeOK, RegistryConsistent, Online
    <2>2. ASSUME NEW t \in Sock, conn'[t].authed
          PROVE  conn'[t].deviceId # Null /\ conns'[conn'[t].deviceId] = t
      <3>1. t # s /\ conn'[t] = conn[t]
        BY <1>1, <2>2 DEF Inv, TypeOK, NewConn
      <3>2. conn[t].deviceId \in Device /\ conns[conn[t].deviceId] = t
        BY <2>2, <3>1 DEF Inv, TypeOK, ConnObject, RegistryConsistent
      <3>3. QED
        BY <1>4, <3>1, <3>2, DeviceAssumption
    <2>3. QED
      BY <2>1, <2>2 DEF RegistryConsistent, Online
  <1>8. HandshakeInv'
    BY <1>1 DEF Inv, TypeOK, HandshakeInv, Replaced, NewConn
  <1>9. QED
    BY <1>6, <1>7, <1>8 DEF Inv

\* The steps of the process and of the sockets that no frame causes.
LEMMA InvDownAndUp ==
    ASSUME Inv, (\E s \in Sock : SocketDown(s)) \/ Shutdown \/ Restart
    PROVE  Inv'
  <1>1. ASSUME NEW s \in Sock, SocketDown(s)
        PROVE  Inv'
    <2>1. /\ UNCHANGED <<devices, outbox, clock, cli, up, conn, conns>>
          /\ DOMAIN out' = Sock
      BY <1>1, OutDomain DEF SocketDown
    <2>2. /\ ready' \in [Sock -> SockState]
          /\ \A t \in Sock : /\ ready'[t] = "free" <=> ready[t] = "free"
                             /\ ready'[t] = "open" => ready[t] = "open"
      BY <1>1 DEF SocketDown, Inv, TypeOK, SockState
    <2>3. QED
      BY <2>1, <2>2, SocketSteps DEF Inv, TypeOK
  <1>2. CASE Shutdown
    <2>1. /\ UNCHANGED <<devices, outbox, clock, cli, conn, conns>>
          /\ DOMAIN out' = Sock /\ up' \in BOOLEAN
      BY <1>2, OutDomain DEF Shutdown
    <2>2. /\ ready' \in [Sock -> SockState]
          /\ \A t \in Sock : /\ ready'[t] = "free" <=> ready[t] = "free"
                             /\ ready'[t] = "open" => ready[t] = "open"
      BY <1>2 DEF Shutdown, Closing, Inv, TypeOK, SockState
    <2>3. QED
      BY <2>1, <2>2, SocketSteps
  <1>3. CASE Restart
    <2>1. DOMAIN out' = Sock
      BY <1>3, OutDomain DEF Restart
    <2>2. TypeOK'
      BY <1>3, <2>1, NewConnType DEF Restart, Inv, TypeOK, SockState
    <2>3. RegistryConsistent' /\ HandshakeInv'
      BY <1>3 DEF Restart, RegistryConsistent, HandshakeInv, Online, Replaced, NewConn
    <2>4. QED
      BY <2>2, <2>3 DEF Inv
  <1>4. QED
    BY <1>1, <1>2, <1>3

\* The administrator's commands write the tables only.
LEMMA InvEnroll ==
    ASSUME Inv, EnrollNext
    PROVE  Inv'
  <1>1. UNCHANGED <<up, ready, conn, conns>> /\ DOMAIN out' = Sock
    BY OutDomain DEF EnrollNext, RemoveDevice, EnrollDevice, PurgeQueue, RemoveAborts
  <1>2. TypeOK'
    BY <1>1, ManagedAssumption
    DEF EnrollNext, RemoveDevice, EnrollDevice, PurgeQueue, RemoveAborts, Inv, TypeOK
  <1>3. QED
    BY <1>1, <1>2, TableSteps

\* One frame of any connection.
LEMMA InvMessage ==
    ASSUME Inv, NEW s \in Sock, OnMessage(s)
    PROVE  Inv'
  <1>1. ready[s] \in {"open", "closing"}
    BY DEF OnMessage
  <1>2. CASE OnGarbage(s)
    BY <1>2, QuietSteps, OutDomain DEF OnGarbage
  <1>3. CASE ~conn[s].authed /\ OnUnauthenticatedFrame(s)
    BY <1>1, <1>3, InvUnexpected, InvHello, InvAuthRefused, InvAuthAccepted
    DEF OnUnauthenticatedFrame
  <1>4. CASE conn[s].authed /\ Handle(s)
    BY <1>4, InvHandle
  <1>5. QED
    BY <1>2, <1>3, <1>4 DEF OnMessage

\* Inv is inductive.
LEMMA InvNext == Inv /\ [Next]_vars => Inv'
  <1> SUFFICES ASSUME Inv, [Next]_vars PROVE Inv'
    OBVIOUS
  <1>1. CASE UNCHANGED vars
    BY <1>1, QuietSteps DEF vars, Inv, TypeOK
  <1>2. CASE ServerNext
    BY <1>2, InvConnect, InvMessage, InvNonceExpires, InvOnClose, InvDownAndUp
    DEF ServerNext
  <1>3. CASE EnrollNext
    BY <1>3, InvEnroll
  <1>4. QED
    BY <1>1, <1>2, <1>3 DEF Next

\* Inv holds in every behaviour of the hub.
LEMMA InvAlways == Spec => []Inv
  BY InvInit, InvNext, PTL DEF Spec

-----------------------------------------------------------------------------
\* Every table, socket and connection keeps its type.
THEOREM TypeCorrect == Spec => []TypeOK
  <1>1. Inv => TypeOK
    BY DEF Inv
  <1>2. QED
    BY <1>1, InvAlways, PTL

\* The registry and the connections agree (server.js, onAuth and 'close'): one
\* live authenticated socket per device that is online, and none besides.
THEOREM RegistryCorrect == Spec => []RegistryConsistent
  <1>1. Inv => RegistryConsistent
    BY DEF Inv
  <1>2. QED
    BY <1>1, InvAlways, PTL

\* Eviction is final (server.js, onAuth): the evicted connection's nonce was
\* never shown to its peer, so no auth frame of the peer can be accepted.
LEMMA ReplacedStep ==
    ASSUME Inv, [Next]_vars, NEW s \in Sock, Replaced(s)
    PROVE  ~conn'[s].authed
  <1>1. ~conn[s].authed /\ conn[s].nonce # "shown"
    BY DEF Inv, HandshakeInv, Replaced
  <1>2. ASSUME NEW t \in Sock, OnMessage(t)
        PROVE  ~conn'[s].authed
    <2>1. CASE ~conn[t].authed /\ \E f \in AuthFrames : AuthAccepted(t, f)
      <3>1. PICK f \in AuthFrames : AuthAccepted(t, f)
        BY <2>1
      <3>2. TakesPlace(t, conn[t].pending)
        BY <1>2, <2>1, <3>1, AuthEffect DEF OnMessage
      <3>3. t # s
        BY <1>1, <3>2 DEF TakesPlace, Registers
      <3>4. QED
        BY <1>1, <3>2, <3>3 DEF TakesPlace, Registers
    <2>2. CASE \E f \in HelloFrames : HelloAccepted(t, f)
      BY <1>1, <2>2 DEF HelloAccepted, Inv, TypeOK
    <2>3. CASE \E f \in AuthFrames : AuthRefused(t, f)
      BY <1>1, <2>3 DEF AuthRefused, Dismissed, Inv, TypeOK
    <2>4. CASE conn' = conn
      BY <1>1, <2>4
    <2>5. QED
      BY <1>2, <2>1, <2>2, <2>3, <2>4
      DEF OnMessage, OnGarbage, OnUnauthenticatedFrame, OnUnexpected, HelloRefused, Dismissed,
          AuthWithoutHello, Handle, HandlePing, RefuseFrame, RefuseRate, HandleSend,
          HandleAck
  <1>3. ASSUME NEW t \in Sock, Connect(t) \/ RejectPeer(t) \/ OnClose(t)
        PROVE  ~conn'[s].authed
    BY <1>1, <1>3 DEF Connect, RejectPeer, OnClose, NewConn, Inv, TypeOK
  <1>4. ASSUME NEW t \in Sock, NonceExpires(t)
        PROVE  ~conn'[s].authed
    BY <1>1, <1>4 DEF NonceExpires, Inv, TypeOK
  <1>5. CASE Restart
    BY <1>5 DEF Restart, NewConn
  <1>6. CASE conn' = conn
    BY <1>1, <1>6
  <1>7. QED
    BY <1>2, <1>3, <1>4, <1>5, <1>6
    DEF Next, ServerNext, EnrollNext, SocketDown, Shutdown, RemoveDevice, EnrollDevice,
        PurgeQueue, RemoveAborts, vars

\* No evicted connection ever takes the registry back.
THEOREM EvictionIsFinal == Spec => ReplacedNeverReturns
  <1>1. Inv /\ [Next]_vars => [\A s \in Sock : Replaced(s) => ~conn'[s].authed]_vars
    BY ReplacedStep
  <1>2. QED
    BY <1>1, InvAlways, PTL DEF Spec, ReplacedNeverReturns

-----------------------------------------------------------------------------
\* The registry grows by an accepted auth only.
LEMMA StrandedStep == Inv /\ NoStrandedRow /\ [Next]_vars => NoStrandedRow'
  <1> SUFFICES ASSUME Inv, NoStrandedRow, [Next]_vars,
                      NEW r \in outbox', ~r.delivered
               PROVE  conns'[r.to] = Null
    BY DEF NoStrandedRow, Online
  <1> USE DEF NoStrandedRow, Online
  <1>1. CASE \E s \in Sock : Handle(s) /\ conn[s].authed
    <2>1. PICK s \in Sock : Handle(s) /\ conn[s].authed
      BY <1>1
    <2>2. conn[s].deviceId \in Device
      BY <2>1 DEF Inv, TypeOK, ConnObject, RegistryConsistent
    <2>3. conns' = conns
      BY <2>1 DEF Handle, HandlePing, RefuseFrame, RefuseRate, HandleSend, HandleAck
    <2>4. ASSUME NEW m \in Msg, NEW to \in SUBSET Device,
                 NEW now \in 0..MaxClock, HandleSend(s, m, to, now)
          PROVE  conns[r.to] = Null
      <3> DEFINE d        == conn[s].deviceId
                 accepted == Accepted(d, to)
                 queued   == outbox \cup Inserted(d, m, accepted, now)
                 pushed   == UNION {Pending(queued, e, TRUE) : e \in PushTargets(accepted)}
      <3>1. outbox' = MarkDelivered(queued, pushed)
        BY <2>4 DEF HandleSend
      <3>2. queued \in SUBSET Row
        BY <2>2, InsertedType DEF Inv, TypeOK
      <3>3. \A q \in Inserted(d, m, accepted, now) : q.to \in accepted
        BY <2>2, InsertedType
      <3> HIDE DEF d, accepted, queued
      <3>4. pushed \in SUBSET Row
        BY <3>2 DEF Pending
      <3> HIDE DEF pushed
      <3>5. r \in queued /\ r \notin pushed
        BY <3>1, <3>2, <3>4, MarkDeliveredShown
      <3>6. CASE r \in outbox
        BY <3>6
      <3>7. CASE r \in Inserted(d, m, accepted, now)
        <4>1. r.to \in accepted
          BY <3>3, <3>7
        <4>2. r.to \notin PushTargets(accepted)
          BY <3>5 DEF pushed, Pending
        <4>3. QED
          BY <4>1, <4>2 DEF PushTargets
      <3>8. QED
        BY <3>5, <3>6, <3>7 DEF queued
    <2>5. CASE outbox' \subseteq outbox
      BY <2>3, <2>5
    <2>6. QED
      BY <2>1, <2>3, <2>4, <2>5
      DEF Handle, HandlePing, RefuseFrame, RefuseRate, HandleAck
  <1>2. ASSUME NEW s \in Sock, NEW f \in AuthFrames, ~conn[s].authed,
               ready[s] \in {"open", "closing"}, AuthAccepted(s, f)
        PROVE  conns'[r.to] = Null
    <2> DEFINE d == conn[s].pending
    <2>1. d \in Device /\ conns' = [conns EXCEPT ![d] = s]
      BY <1>2, AuthEffect DEF TakesPlace, Registers
    <2>2. outbox' = MarkDelivered(outbox, Pending(outbox, d, FALSE))
      BY <1>2 DEF AuthAccepted, Admit, Verified
    <2> HIDE DEF d
    <2>3. r \in outbox /\ r \notin Pending(outbox, d, FALSE)
      BY <2>2, MarkDeliveredShown DEF Pending, Inv, TypeOK
    <2>4. r.to # d /\ r.to \in Device
      BY <2>3 DEF Pending, Inv, TypeOK, Row
    <2>5. QED
      BY <2>1, <2>3, <2>4 DEF Inv, TypeOK
  <1>3. CASE /\ outbox' \subseteq outbox
             /\ \A e \in Device : conns[e] = Null => conns'[e] = Null
    BY <1>3 DEF Inv, TypeOK, Row
  <1>4. ASSUME NEW s \in Sock, OnClose(s)
        PROVE  /\ outbox' \subseteq outbox
               /\ \A e \in Device : conns[e] = Null => conns'[e] = Null
    BY <1>4 DEF OnClose, Inv, TypeOK
  <1>5. CASE Restart
    BY <1>3, <1>5 DEF Restart
  <1>6. CASE outbox' \subseteq outbox /\ conns' = conns
    BY <1>3, <1>6
  <1>7. ASSUME NEW s \in Sock, OnMessage(s)
        PROVE  conns'[r.to] = Null
    BY <1>1, <1>2, <1>6, <1>7
    DEF OnMessage, OnGarbage, OnUnauthenticatedFrame, OnUnexpected, HelloRefused, Dismissed,
        HelloAccepted, AuthWithoutHello, AuthRefused
  <1>8. QED
    BY <1>3, <1>4, <1>5, <1>6, <1>7
    DEF Next, ServerNext, EnrollNext, Connect, RejectPeer, NonceExpires, SocketDown,
        Shutdown, RemoveDevice, EnrollDevice, PurgeQueue, RemoveAborts, vars

\* A message that was never shown waits for a device that is away (router.js):
\* no order of sends, authentications and closes leaves one behind.
THEOREM NothingStranded == Spec => []NoStrandedRow
  <1>1. Init => NoStrandedRow
    BY DEF Init, NoStrandedRow
  <1>2. QED
    BY <1>1, StrandedStep, InvAlways, PTL DEF Spec

-----------------------------------------------------------------------------
\* A step that registers nobody new and leaves the fingerprints of whoever
\* stays registered.
LEMMA SharedSteps ==
    ASSUME Inv, MembershipShared,
           \A e \in Device : Online(e)' =>
               /\ conns'[e] = conns[e]
               /\ conn'[conns[e]].fp = conn[conns[e]].fp
    PROVE  MembershipShared'
  BY DEF MembershipShared, Online

\* An accepted auth brings every registered connection to the current list.
LEMMA AdmitShares ==
    ASSUME Inv, NEW s \in Sock, NEW d, TakesPlace(s, d)
    PROVE  \A e \in Device : Online(e)' => conn'[conns'[e]].fp = devices
  <1> SUFFICES ASSUME NEW e \in Device, Online(e)'
               PROVE  conn'[conns'[e]].fp = devices
    OBVIOUS
  <1>1. CASE e = d
    BY <1>1 DEF TakesPlace, Registers, Inv, TypeOK
  <1>2. CASE e # d
    <2>1. conns'[e] = conns[e]
      BY <1>2 DEF TakesPlace, Registers, Inv, TypeOK
    <2>2. QED
      BY <1>2, <2>1 DEF TakesPlace, Registers, Online
  <1>3. QED
    BY <1>1, <1>2

\* Every other step leaves the lists of whoever stays registered as they are,
\* and what a connection is, unless its socket is gone.
ListsKept ==
    /\ \A e \in Device : Online(e)' =>
         /\ conns'[e] = conns[e]
         /\ conn'[conns[e]].fp = conn[conns[e]].fp
    /\ \A t \in Sock : \/ conn'[t] = NewConn
                       \/ /\ conn'[t].deviceId = conn[t].deviceId
                          /\ conn'[t].fp = conn[t].fp

ListsEffect ==
    \/ \E s \in Sock : ~conn[s].authed /\ TakesPlace(s, conn[s].pending)
    \/ ListsKept

LEMMA ListsStep ==
    ASSUME Inv, [Next]_vars
    PROVE  ListsEffect
  <1>1. CASE conn' = conn /\ conns' = conns
    BY <1>1 DEF ListsEffect, ListsKept, Online
  <1>2. ASSUME NEW s \in Sock, conns' = conns,
               \/ \E f \in HelloFrames : HelloAccepted(s, f)
               \/ \E f \in AuthFrames : AuthRefused(s, f)
               \/ NonceExpires(s)
        PROVE  ListsEffect
    <2>1. \A t \in Sock : conn'[t].deviceId = conn[t].deviceId /\ conn'[t].fp = conn[t].fp
      <3>1. \A t \in Sock : conn[t] \in ConnObject
        BY DEF Inv, TypeOK
      <3>2. ASSUME NEW f \in HelloFrames, HelloAccepted(s, f)
            PROVE  \A t \in Sock : conn'[t].deviceId = conn[t].deviceId /\ conn'[t].fp = conn[t].fp
        <4> DEFINE n == IF ready[s] = "open" THEN "shown" ELSE "sealed"
        <4>1. conn' = [conn EXCEPT ![s] = [conn[s] EXCEPT !.pending = f.deviceId,
                                                          !.nonce = n]]
          BY <3>2 DEF HelloAccepted, Inv, TypeOK
        <4> HIDE DEF n
        <4>2. QED
          BY <3>1, <4>1 DEF Inv, TypeOK, ConnObject
      <3>3. ASSUME NEW n, conn' = [conn EXCEPT ![s].nonce = n]
            PROVE  \A t \in Sock : conn'[t].deviceId = conn[t].deviceId /\ conn'[t].fp = conn[t].fp
        BY <3>1, <3>3 DEF Inv, TypeOK, ConnObject
      <3>4. ASSUME NEW f \in AuthFrames, AuthRefused(s, f)
            PROVE  \E n : conn' = [conn EXCEPT ![s].nonce = n]
        BY <3>4 DEF AuthRefused, Dismissed, Spent
      <3>5. NonceExpires(s) => \E n : conn' = [conn EXCEPT ![s].nonce = n]
        BY DEF NonceExpires
      <3>6. QED
        BY <1>2, <3>2, <3>3, <3>4, <3>5
    <2>2. \A e \in Device : Online(e) => conns[e] \in Sock
      BY DEF Inv, TypeOK, Online
    <2>3. QED
      BY <1>2, <2>1, <2>2 DEF ListsEffect, ListsKept, Online
  <1>3. ASSUME NEW s \in Sock, ~conn[s].authed, ready[s] \in {"open", "closing"},
               NEW f \in AuthFrames, AuthAccepted(s, f)
        PROVE  ListsEffect
    <2>1. TakesPlace(s, conn[s].pending)
      BY <1>3, AuthEffect
    <2>2. QED
      BY <1>3, <2>1 DEF ListsEffect
  <1>4. ASSUME NEW s \in Sock, OnClose(s)
        PROVE  ListsEffect
    <2>1. Inv'
      BY InvNext
    <2>2. /\ conn' = [conn EXCEPT ![s] = NewConn]
          /\ \A e \in Device : conns'[e] \in {conns[e], Null}
      BY <1>4 DEF OnClose, Inv, TypeOK
    <2>3. \A e \in Device : Online(e)' => conns'[e] # s
      BY <2>1, <2>2 DEF Inv, TypeOK, RegistryConsistent, Online, NewConn
    <2>4. \A e \in Device : Online(e)' =>
             /\ conns'[e] = conns[e]
             /\ conn'[conns[e]].fp = conn[conns[e]].fp
      BY <2>2, <2>3 DEF Inv, TypeOK, Online
    <2>5. \A t \in Sock : conn'[t] = NewConn \/ conn'[t] = conn[t]
      BY <2>2 DEF Inv, TypeOK
    <2>6. QED
      BY <2>4, <2>5 DEF ListsEffect, ListsKept
  <1>5. ASSUME NEW s \in Sock, Connect(s) \/ RejectPeer(s)
        PROVE  ListsEffect
    <2>1. conn' = conn /\ conns' = conns
      BY <1>5 DEF Connect, RejectPeer, Inv, TypeOK, HandshakeInv
    <2>2. QED
      BY <1>1, <2>1
  <1>6. CASE Restart
    BY <1>6 DEF Restart, ListsEffect, ListsKept, Online
  <1>7. ASSUME NEW s \in Sock, OnMessage(s)
        PROVE  ListsEffect
    BY <1>1, <1>2, <1>3, <1>7
    DEF OnMessage, OnGarbage, OnUnauthenticatedFrame, OnUnexpected, HelloRefused, Dismissed,
        HelloAccepted, AuthWithoutHello, AuthRefused, Handle, HandlePing, RefuseFrame,
        RefuseRate, HandleSend, HandleAck
  <1>8. QED
    BY <1>1, <1>2, <1>4, <1>5, <1>6, <1>7
    DEF Next, ServerNext, EnrollNext, NonceExpires, SocketDown, Shutdown, RemoveDevice,
        EnrollDevice, PurgeQueue, RemoveAborts, vars

\* Every step keeps the member lists of the connected devices equal.
LEMMA SharedStep == Inv /\ MembershipShared /\ [Next]_vars => MembershipShared'
  <1> SUFFICES ASSUME Inv, MembershipShared, [Next]_vars PROVE MembershipShared'
    OBVIOUS
  <1>1. ASSUME NEW s \in Sock, TakesPlace(s, conn[s].pending)
        PROVE  MembershipShared'
    BY <1>1, AdmitShares DEF MembershipShared, Online
  <1>2. CASE ListsKept
    BY <1>2, SharedSteps DEF ListsKept
  <1>3. QED
    BY <1>1, <1>2, ListsStep DEF ListsEffect

\* All connected devices were last sent the same member list (server.js, onAuth
\* lines 271-281), however enrollments, renames and connections interleave.
THEOREM MembersAgree == Spec => []MembershipShared
  <1>1. Init => MembershipShared
    BY DEF Init, ServerInit, MembershipShared, Online
  <1>2. QED
    BY <1>1, SharedStep, InvAlways, PTL DEF Spec

-----------------------------------------------------------------------------
\* A device that has a row in devices keeps it through a rename; only the
\* removal takes it away, and then the purge follows.
LEMMA OrphanStep ==
    ASSUME ~CliAborts
    PROVE  Inv /\ NoOrphanRows /\ [Next]_vars => NoOrphanRows'
  <1> SUFFICES ASSUME Inv, NoOrphanRows, [Next]_vars, NEW r \in outbox'
               PROVE  devices'[r.to] # Null \/ cli' = r.to
    BY DEF NoOrphanRows, Registered
  <1> USE DEF NoOrphanRows, Registered
  <1>1. CASE outbox' \subseteq outbox /\ UNCHANGED <<devices, cli>>
    BY <1>1
  <1>2. ASSUME NEW s \in Sock, conn[s].authed, NEW m \in Msg, NEW to \in SUBSET Device,
               NEW now \in 0..MaxClock, HandleSend(s, m, to, now)
        PROVE  devices'[r.to] # Null \/ cli' = r.to
    <2> DEFINE d        == conn[s].deviceId
               accepted == Accepted(d, to)
               queued   == outbox \cup Inserted(d, m, accepted, now)
               pushed   == UNION {Pending(queued, e, TRUE) : e \in PushTargets(accepted)}
    <2>1. outbox' = MarkDelivered(queued, pushed) /\ UNCHANGED <<devices, cli>>
      BY <1>2 DEF HandleSend
    <2>2. d \in Device
      BY <1>2 DEF Inv, TypeOK, ConnObject, RegistryConsistent
    <2> HIDE DEF d
    <2>3. accepted \in SUBSET Device /\ \A e \in accepted : devices[e] # Null
      BY DEF Accepted
    <2>4. /\ Inserted(d, m, accepted, now) \in SUBSET Row
          /\ \A q \in Inserted(d, m, accepted, now) : q.to \in accepted
      BY <2>2, InsertedType
    <2> HIDE DEF accepted
    <2>5. queued \in SUBSET Row /\ \A q \in queued : devices[q.to] # Null \/ cli = q.to
      BY <2>3, <2>4 DEF Inv, TypeOK
    <2> HIDE DEF queued
    <2>6. pushed \in SUBSET queued
      BY DEF Pending
    <2> HIDE DEF pushed
    <2>7. \E q \in queued : r.to = q.to
      BY <2>1, <2>5, <2>6, MarkDeliveredOrigin
    <2>8. QED
      BY <2>1, <2>5, <2>7
  <1>3. ASSUME NEW s \in Sock, NEW f \in AuthFrames, AuthAccepted(s, f)
        PROVE  devices'[r.to] # Null \/ cli' = r.to
    <2> DEFINE rows == Pending(outbox, conn[s].pending, FALSE)
    <2>1. outbox' = MarkDelivered(outbox, rows) /\ UNCHANGED <<devices, cli>>
      BY <1>3 DEF AuthAccepted, Admit, Verified
    <2>2. rows \in SUBSET outbox /\ outbox \in SUBSET Row
      BY DEF Pending, Inv, TypeOK
    <2> HIDE DEF rows
    <2>3. \E q \in outbox : r.to = q.to
      BY <2>1, <2>2, MarkDeliveredOrigin
    <2>4. QED
      BY <2>1, <2>3
  <1>4. ASSUME NEW s \in Sock, NEW f \in HelloFrames, HelloAccepted(s, f)
        PROVE  devices'[r.to] # Null \/ cli' = r.to
    <2>1. r \in outbox /\ r.to \in Device /\ cli' = cli /\ devices' = Renamed(f)
      BY <1>4 DEF HelloAccepted, Inv, TypeOK, Row
    <2>2. HelloVerdict(f) = "OK"
      BY <1>4 DEF HelloAccepted
    <2>3. (Renamed(f)[r.to] = Null) <=> (devices[r.to] = Null)
      BY <2>1, <2>2, RenamedType DEF Inv
    <2>4. QED
      BY <2>1, <2>3
  <1>5. ASSUME NEW d \in Managed, RemoveDevice(d) \/ \E p \in Profile : EnrollDevice(d, p)
        PROVE  devices'[r.to] # Null \/ cli' = r.to
    <2>1. r \in outbox /\ r.to \in Device
      BY <1>5 DEF RemoveDevice, EnrollDevice, Inv, TypeOK, Row
    <2>2. devices[r.to] # Null
      BY <1>5, <2>1, DeviceAssumption DEF RemoveDevice, EnrollDevice
    <2>3. QED
      BY <1>5, <2>1, <2>2, ProfileAssumption, ManagedAssumption
      DEF RemoveDevice, EnrollDevice, Inv, TypeOK
  <1>6. CASE PurgeQueue
    BY <1>6 DEF PurgeQueue, Queue
  <1>7. ASSUME NEW s \in Sock, OnMessage(s)
        PROVE  devices'[r.to] # Null \/ cli' = r.to
    BY <1>1, <1>2, <1>3, <1>4, <1>7
    DEF OnMessage, OnGarbage, OnUnauthenticatedFrame, OnUnexpected, HelloRefused, Dismissed,
        AuthWithoutHello, AuthRefused, Handle, HandlePing, RefuseFrame, RefuseRate,
        HandleAck
  <1>8. QED
    BY <1>1, <1>5, <1>6, <1>7
    DEF Next, ServerNext, EnrollNext, Connect, RejectPeer, NonceExpires, SocketDown,
        OnClose, Shutdown, Restart, RemoveAborts, vars

\* If enroll.js --remove always reaches its second statement, no message waits
\* for a device that is not enrolled (PROTOCOL.md lines 92-93).
THEOREM NoOrphans == ~CliAborts => (Spec => []NoOrphanRows)
  <1> SUFFICES ASSUME ~CliAborts PROVE Spec => []NoOrphanRows
    OBVIOUS
  <1>1. Init => NoOrphanRows
    BY DEF Init, NoOrphanRows
  <1>2. Inv /\ NoOrphanRows /\ [Next]_vars => NoOrphanRows'
    BY OrphanStep
  <1>3. QED
    BY <1>1, <1>2, InvAlways, PTL DEF Spec

-----------------------------------------------------------------------------
(* What the handlers write: sequences of frames. *)

\* A sequence, of whatever frames.
Listing(f) == f \in Seq({f[i] : i \in DOMAIN f})

\* A function on 1..n is a sequence.
LEMMA ListingOf ==
    ASSUME NEW n \in Nat, NEW f, DOMAIN f = 1..n, f = [i \in 1..n |-> f[i]]
    PROVE  Listing(f) /\ Len(f) = n
  BY DEF Listing

\* The replies of none, one or two frames.
LEMMA ShortListings ==
    /\ Listing(<<>>) /\ Len(<<>>) = 0
    /\ \A x : Listing(<<x>>) /\ Len(<<x>>) = 1 /\ <<x>>[1] = x
    /\ \A x, y : Listing(<<x, y>>) /\ Len(<<x, y>>) = 2
                 /\ <<x, y>>[1] = x /\ <<x, y>>[2] = y
  BY DEF Listing

\* One run of frames after another (onAuth: the welcome, then the flush).
LEMMA Glued ==
    ASSUME NEW f, NEW g, Listing(f), Listing(g)
    PROVE  /\ Listing(f \o g)
           /\ Len(f) \in Nat /\ Len(g) \in Nat
           /\ DOMAIN f = 1..Len(f) /\ DOMAIN g = 1..Len(g)
           /\ DOMAIN (f \o g) = 1..(Len(f) + Len(g))
           /\ \A i \in 1..Len(f) : (f \o g)[i] = f[i]
           /\ \A i \in 1..Len(g) : (f \o g)[Len(f) + i] = g[i]
  <1> DEFINE S == {f[i] : i \in DOMAIN f} \cup {g[i] : i \in DOMAIN g}
  <1>1. f \in Seq(S) /\ g \in Seq(S)
    BY DEF Listing
  <1>2. /\ Len(f) \in Nat /\ Len(g) \in Nat
        /\ DOMAIN f = 1..Len(f) /\ DOMAIN g = 1..Len(g)
    BY <1>1
  <1> HIDE DEF S
  <1> DEFINE c == f \o g
  <1>3. /\ c \in Seq(S) /\ Len(c) = Len(f) + Len(g)
        /\ \A i \in 1..(Len(f) + Len(g)) :
              c[i] = IF i <= Len(f) THEN f[i] ELSE g[i - Len(f)]
    BY <1>1, ConcatProperties
  <1> HIDE DEF c
  <1>4. Listing(c)
    <2>1. DOMAIN c = 1..Len(c) /\ Len(c) \in Nat /\ c = [i \in 1..Len(c) |-> c[i]]
      BY <1>3
    <2> QED
      BY <2>1, ListingOf
  <1>5. \A i \in 1..Len(f) : c[i] = f[i]
    BY <1>2, <1>3
  <1>6. \A i \in 1..Len(g) : c[Len(f) + i] = g[i]
    <2> SUFFICES ASSUME NEW i \in 1..Len(g) PROVE c[Len(f) + i] = g[i]
      OBVIOUS
    <2>1. Len(f) + i \in 1..(Len(f) + Len(g)) /\ ~ (Len(f) + i <= Len(f))
          /\ (Len(f) + i) - Len(f) = i
      BY <1>2
    <2> QED
      BY <1>3, <2>1
  <1> QED
    BY <1>2, <1>3, <1>4, <1>5, <1>6 DEF c

\* In a finite set with a total order, ranks are different, and all ranks occur.
LEMMA Ranks ==
    ASSUME NEW S, IsFiniteSet(S), NEW below \in [S -> SUBSET S],
           \A x \in S : x \notin below[x],
           \A x, y \in S : x # y => x \in below[y] \/ y \in below[x],
           \A x, y, z \in S : x \in below[y] /\ y \in below[z] => x \in below[z]
    PROVE  /\ \A x \in S : Cardinality(below[x]) \in 0..(Cardinality(S) - 1)
           /\ \A x, y \in S : x \in below[y] <=> Cardinality(below[x]) < Cardinality(below[y])
           /\ \A i \in 1..Cardinality(S) : \E x \in S : Cardinality(below[x]) = i - 1
  <1> DEFINE n == Cardinality(S)
             rank == [x \in S |-> Cardinality(below[x])]
             Ranking == 0..(n - 1)
  <1>1. n \in Nat
    BY FS_CardinalityType
  <1>2. ASSUME NEW x \in S PROVE rank[x] \in Ranking /\ IsFiniteSet(below[x])
    <2>1. IsFiniteSet(below[x]) /\ Cardinality(below[x]) <= n /\ Cardinality(below[x]) # n
      BY FS_Subset
    <2> QED BY <1>1, <2>1, FS_CardinalityType
  <1>3. ASSUME NEW x \in S, NEW y \in S, x \in below[y] PROVE rank[x] < rank[y]
    <2>1. below[x] \subseteq below[y] /\ below[x] # below[y]
      BY <1>3
    <2>2. Cardinality(below[x]) <= Cardinality(below[y])
          /\ Cardinality(below[x]) # Cardinality(below[y])
      BY <1>2, <2>1, FS_Subset
    <2> QED BY <1>2, <2>2
  <1>4. ASSUME NEW x \in S, NEW y \in S PROVE x \in below[y] <=> rank[x] < rank[y]
    <2>1. x = y => ~(rank[x] < rank[y])
      BY <1>2
    <2>2. y \in below[x] => ~(rank[x] < rank[y])
      BY <1>2, <1>3
    <2> QED BY <1>3, <2>1, <2>2
  <1>5. rank \in Injection(S, Ranking)
    <2>1. \A x, y \in S : rank[x] = rank[y] => x = y
      BY <1>2, <1>3
    <2> HIDE DEF Ranking
    <2> QED BY <1>2, <2>1 DEF Injection, IsInjective
  <1>6. rank \in Surjection(S, Ranking)
    <2>1. IsFiniteSet(Ranking) /\ Cardinality(Ranking) = n
      BY <1>1, FS_Interval
    <2> QED BY <1>5, <2>1, FS_Injection
  <1>7. ASSUME NEW i \in 1..n PROVE \E x \in S : Cardinality(below[x]) = i - 1
    <2>1. i - 1 \in Ranking
      BY <1>1
    <2> HIDE DEF Ranking
    <2> QED BY <1>6, <2>1 DEF Surjection
  <1> QED BY <1>2, <1>4, <1>7

\* One recipient's rows: the primary key tells them apart by msg_id.
OneQueue(rows) ==
    /\ rows \subseteq Row /\ IsFiniteSet(rows)
    /\ \A r, q \in rows : r.msg = q.msg => r = q

\* How many rows go before r.
Rank(rows, r) == Cardinality({q \in rows : Before(q, r)})

\* ORDER BY recv_at, msg_id is a total order on a recipient's rows.
LEMMA RowRanks ==
    ASSUME NEW rows, OneQueue(rows)
    PROVE  /\ Cardinality(rows) \in Nat
           /\ \A r \in rows : Rank(rows, r) \in 0..(Cardinality(rows) - 1)
           /\ \A r, q \in rows : Rank(rows, r) = Rank(rows, q) => r = q
           /\ \A r, q \in rows : Rank(rows, r) <= Rank(rows, q) => r.recvAt <= q.recvAt
           /\ \A i \in 1..Cardinality(rows) : \E r \in rows : Rank(rows, r) = i - 1
  <1> DEFINE below == [r \in rows |-> {q \in rows : Before(q, r)}]
  <1>1. \A r \in rows : r.msg \in Nat /\ r.recvAt \in Nat
    <2>1. \A r \in rows : r.msg \in Msg /\ r.recvAt \in 0..MaxClock
      BY DEF OneQueue, Row
    <2>2. \A r \in rows : r.msg \in Nat
      BY <2>1, MsgAssumption
    <2>3. \A r \in rows : r.recvAt \in Nat
      BY <2>1, ClockAssumption
    <2> QED
      BY <2>2, <2>3
  <1>2. \A r \in rows : r \notin below[r]
    BY <1>1 DEF Before
  <1>3. \A r, q \in rows : r # q => r \in below[q] \/ q \in below[r]
    BY <1>1 DEF Before, OneQueue
  <1>4. \A x, y, z \in rows : x \in below[y] /\ y \in below[z] => x \in below[z]
    BY <1>1 DEF Before
  <1>5. below \in [rows -> SUBSET rows]
    OBVIOUS
  <1>6. IsFiniteSet(rows)
    BY DEF OneQueue
  <1>7. \A r, q \in rows : r \in below[q] => r.recvAt <= q.recvAt
    BY <1>1 DEF Before
  <1>8. \A r \in rows : Rank(rows, r) = Cardinality(below[r])
    BY DEF Rank
  <1> HIDE DEF below
  <1>9. /\ \A x \in rows : Cardinality(below[x]) \in 0..(Cardinality(rows) - 1)
        /\ \A x, y \in rows : x \in below[y] <=> Cardinality(below[x]) < Cardinality(below[y])
        /\ \A i \in 1..Cardinality(rows) : \E x \in rows : Cardinality(below[x]) = i - 1
    BY <1>2, <1>3, <1>4, <1>5, <1>6, Ranks
  <1>10. Cardinality(rows) \in Nat
    BY <1>6, FS_CardinalityType
  <1>11. \A r, q \in rows : Rank(rows, r) = Rank(rows, q) => r = q
    BY <1>3, <1>8, <1>9, <1>10
  <1>12. \A r, q \in rows : Rank(rows, r) <= Rank(rows, q) => r.recvAt <= q.recvAt
    <2> SUFFICES ASSUME NEW r \in rows, NEW q \in rows, Rank(rows, r) <= Rank(rows, q)
                 PROVE  r.recvAt <= q.recvAt
      OBVIOUS
    <2>1. CASE r = q
      BY <1>1, <2>1
    <2>2. CASE r # q
      <3>1. q \notin below[r]
        BY <1>8, <1>9, <1>10
      <3> QED
        BY <1>3, <1>7, <2>2, <3>1
    <2> QED
      BY <2>1, <2>2
  <1> QED
    BY <1>8, <1>9, <1>10, <1>11, <1>12

\* What a sequence of frames delivers: these rows, all of them, in order.
Carries(frames, rows) ==
    LET delivers == {i \in DOMAIN frames : frames[i].t = "deliver"}
    IN  /\ Listing(frames)
        /\ \A i \in delivers : \E r \in rows : frames[i] = DeliverFrame(r)
        /\ \A r \in rows : \E i \in delivers : frames[i] = DeliverFrame(r)
        /\ \A i, j \in delivers : i < j => frames[i].recvAt <= frames[j].recvAt

\* A flush or a push: deliver frames and nothing else.
OnlyDeliver(frames) == \A i \in DOMAIN frames : frames[i].t = "deliver"

\* deliverPending writes each row it selected, in the order of the SELECT.
LEMMA DeliverCarries ==
    ASSUME NEW rows, OneQueue(rows)
    PROVE  Carries(DeliverFrames(rows), rows) /\ OnlyDeliver(DeliverFrames(rows))
  <1> DEFINE n      == Cardinality(rows)
             sorted == InOrder(rows, Before)
             frames == DeliverFrames(rows)
  <1>1. n \in Nat
    BY RowRanks
  <1>2. ASSUME NEW i \in 1..n
        PROVE  sorted[i] \in rows /\ Rank(rows, sorted[i]) = i - 1
    <2>1. \E r \in rows : Rank(rows, r) = i - 1
      BY RowRanks
    <2>2. sorted[i] = CHOOSE r \in rows : Rank(rows, r) = i - 1
      BY DEF InOrder, Rank
    <2> HIDE DEF sorted
    <2> QED
      BY <2>1, <2>2
  <1>3. DOMAIN sorted = 1..n
    BY DEF InOrder
  <1> HIDE DEF sorted
  <1>4. frames = [i \in 1..n |-> DeliverFrame(sorted[i])]
    BY <1>3 DEF DeliverFrames, sorted
  <1>5. \A r \in rows : \E i \in 1..n : sorted[i] = r
    <2> SUFFICES ASSUME NEW r \in rows PROVE \E i \in 1..n : sorted[i] = r
      OBVIOUS
    <2>1. Rank(rows, r) \in 0..(n - 1)
      BY RowRanks
    <2>2. Rank(rows, r) + 1 \in 1..n /\ (Rank(rows, r) + 1) - 1 = Rank(rows, r)
      BY <1>1, <2>1
    <2>3. sorted[Rank(rows, r) + 1] \in rows
          /\ Rank(rows, sorted[Rank(rows, r) + 1]) = Rank(rows, r)
      BY <1>2, <2>2
    <2> HIDE DEF n
    <2>4. sorted[Rank(rows, r) + 1] = r
      BY <2>3, RowRanks
    <2> QED
      BY <2>2, <2>4
  <1>6. \A i, j \in 1..n : i < j => sorted[i].recvAt <= sorted[j].recvAt
    <2> SUFFICES ASSUME NEW i \in 1..n, NEW j \in 1..n, i < j
                 PROVE  sorted[i].recvAt <= sorted[j].recvAt
      OBVIOUS
    <2>1. Rank(rows, sorted[i]) <= Rank(rows, sorted[j])
      BY <1>1, <1>2
    <2> QED
      BY <1>2, <2>1, RowRanks
  <1> HIDE DEF n, frames
  <1>7. Listing(frames) /\ DOMAIN frames = 1..n
    BY <1>1, <1>4, ListingOf
  <1>8. \A i \in 1..n : frames[i] = DeliverFrame(sorted[i])
    BY <1>4
  <1>9. \A r : DeliverFrame(r).t = "deliver" /\ DeliverFrame(r).recvAt = r.recvAt
    BY DEF DeliverFrame
  <1>10. {i \in DOMAIN frames : frames[i].t = "deliver"} = 1..n
    BY <1>7, <1>8, <1>9
  <1>11. \A i, j \in 1..n : i < j => frames[i].recvAt <= frames[j].recvAt
    BY <1>6, <1>8, <1>9
  <1> QED
    BY <1>2, <1>5, <1>7, <1>8, <1>9, <1>10, <1>11 DEF Carries, OnlyDeliver, frames

\* Without a deliver frame, nothing is delivered.
LEMMA IdleCarries ==
    ASSUME NEW frames, Listing(frames), \A i \in DOMAIN frames : frames[i].t # "deliver"
    PROVE  Carries(frames, {})
  BY DEF Carries

\* A frame before the deliveries, and one after them, deliver nothing.
LEMMA GluedCarries ==
    ASSUME NEW f, NEW g, NEW rows, Carries(f, {}), Carries(g, rows)
    PROVE  Carries(f \o g, rows)
  <1> DEFINE c == f \o g
             n == Len(f)
             m == Len(g)
             late(x) == {i \in DOMAIN x : x[i].t = "deliver"}
  <1>1. Listing(f) /\ Listing(g)
    BY DEF Carries
  <1>2. /\ Listing(c)
        /\ n \in Nat /\ m \in Nat
        /\ DOMAIN f = 1..n /\ DOMAIN g = 1..m /\ DOMAIN c = 1..(n + m)
        /\ \A i \in 1..n : c[i] = f[i]
        /\ \A i \in 1..m : c[n + i] = g[i]
    BY <1>1, Glued
  <1>3. \A i \in 1..n : f[i].t # "deliver"
    BY <1>2 DEF Carries
  <1> HIDE DEF c, n, m
  <1>4. \A i \in late(c) : i - n \in late(g) /\ n + (i - n) = i /\ c[i] = g[i - n]
    <2> SUFFICES ASSUME NEW i \in late(c)
                 PROVE  i - n \in late(g) /\ n + (i - n) = i /\ c[i] = g[i - n]
      OBVIOUS
    <2>1. i \in 1..(n + m) /\ c[i].t = "deliver"
      BY <1>2
    <2>2. i \notin 1..n
      BY <1>2, <1>3, <2>1
    <2>3. i - n \in 1..m /\ n + (i - n) = i
      BY <1>2, <2>1, <2>2
    <2>4. c[n + (i - n)] = g[i - n]
      BY <1>2, <2>3
    <2> QED
      BY <1>2, <2>1, <2>3, <2>4
  <1>5. \A i \in late(g) : n + i \in late(c) /\ c[n + i] = g[i]
    <2>1. \A i \in 1..m : n + i \in 1..(n + m)
      BY <1>2
    <2> QED
      BY <1>2, <2>1
  <1>6. \A i \in late(g) : \E r \in rows : g[i] = DeliverFrame(r)
    BY DEF Carries
  <1>7. \A r \in rows : \E i \in late(g) : g[i] = DeliverFrame(r)
    BY DEF Carries
  <1>8. \A i, j \in late(g) : i < j => g[i].recvAt <= g[j].recvAt
    BY DEF Carries
  <1>9. \A i \in late(c) : \E r \in rows : c[i] = DeliverFrame(r)
    BY <1>4, <1>6
  <1>10. \A r \in rows : \E i \in late(c) : c[i] = DeliverFrame(r)
    BY <1>5, <1>7
  <1>11. ASSUME NEW i \in late(c), NEW j \in late(c), i < j
         PROVE  c[i].recvAt <= c[j].recvAt
    <2>1. i \in 1..(n + m) /\ j \in 1..(n + m)
      BY <1>2
    <2>2. i - n < j - n
      BY <1>2, <1>11, <2>1
    <2> QED
      BY <1>4, <1>8, <2>2
  <1> QED
    BY <1>2, <1>9, <1>10, <1>11 DEF Carries, c

\* The BAD_REQUEST that ends a broken flush delivers nothing more.
LEMMA AppendCarries ==
    ASSUME NEW g, NEW rows, NEW x, x.t # "deliver", Carries(g, rows)
    PROVE  /\ Carries(Append(g, x), rows)
           /\ \A i \in DOMAIN Append(g, x) : Append(g, x)[i] = x \/
                 (i \in DOMAIN g /\ Append(g, x)[i] = g[i])
  <1> DEFINE c == Append(g, x)
             m == Len(g)
             late(s) == {i \in DOMAIN s : s[i].t = "deliver"}
  <1>1. Listing(g)
    BY DEF Carries
  <1> DEFINE S == {g[i] : i \in DOMAIN g} \cup {x}
  <1>2. m \in Nat /\ DOMAIN g = 1..m /\ g \in Seq(S) /\ x \in S
    BY <1>1 DEF Listing
  <1> HIDE DEF S
  <1>3. c \in Seq(S) /\ Len(c) = m + 1
    BY <1>2
  <1>4. /\ \A i \in 1..m : c[i] = g[i]
        /\ c[m + 1] = x
    BY <1>2
  <1> HIDE DEF c, m
  <1>5. DOMAIN c = 1..(m + 1) /\ c = [i \in 1..(m + 1) |-> c[i]]
    BY <1>3
  <1>6. Listing(c)
    BY <1>2, <1>5, ListingOf
  <1>7. DOMAIN c = 1..(m + 1)
    BY <1>5
  <1>8. \A i \in 1..(m + 1) : i \in 1..m \/ i = m + 1
    BY <1>2
  <1>9. \A i \in 1..m : i \in 1..(m + 1)
    BY <1>2
  <1>10. DOMAIN g = 1..m
    BY <1>2
  <1>11. \A i \in DOMAIN c : c[i] = x \/ (i \in DOMAIN g /\ c[i] = g[i])
    <2> SUFFICES ASSUME NEW i \in DOMAIN c
                 PROVE  c[i] = x \/ (i \in DOMAIN g /\ c[i] = g[i])
      OBVIOUS
    <2>1. i \in 1..m \/ i = m + 1
      BY <1>8, <1>7
    <2>2. CASE i \in 1..m
      BY <1>10, <1>4, <2>2
    <2>3. CASE i = m + 1
      BY <1>4, <2>3
    <2> QED
      BY <2>1, <2>2, <2>3
  <1>12. late(c) = late(g) /\ \A i \in late(g) : c[i] = g[i]
    <2>1. \A i \in late(c) : i \in late(g)
      BY <1>11
    <2>2. \A i \in DOMAIN g : i \in DOMAIN c /\ c[i] = g[i]
      BY <1>4, <1>7, <1>9, <1>10
    <2>3. \A i \in late(g) : i \in late(c) /\ c[i] = g[i]
      BY <2>2
    <2> QED
      BY <2>1, <2>3
  <1>13. Carries(c, rows)
    BY <1>6, <1>12 DEF Carries
  <1> QED
    BY <1>11, <1>13 DEF c

-----------------------------------------------------------------------------
(* The queue as a table. *)

\* Rows as the primary key (msg_id, recipient_id) of the table allows them.
Table(rows) ==
    /\ rows \subseteq Row /\ IsFiniteSet(rows)
    /\ \A r, q \in rows : r.to = q.to /\ r.msg = q.msg => r = q

\* The queue is a table, and no row is ahead of the clock.
TableInv == Table(outbox) /\ \A r \in outbox : r.recvAt <= clock

\* Within the rows of one recipient, the primary key is the msg_id.
LEMMA QueueIsOne ==
    ASSUME NEW table, Table(table), NEW d, NEW rows \in SUBSET {r \in table : r.to = d}
    PROVE  OneQueue(rows)
  <1>1. IsFiniteSet(rows)
    <2>1. rows \in SUBSET table
      OBVIOUS
    <2> QED
      BY <2>1, FS_Subset DEF Table
  <1> QED
    BY <1>1 DEF OneQueue, Table

\* DELETE leaves a table.
LEMMA SmallerTable ==
    ASSUME NEW table, Table(table), NEW rows \in SUBSET table
    PROVE  Table(rows)
  BY FS_Subset DEF Table

\* A function takes finitely many values on a finite set.
LEMMA FiniteImage ==
    ASSUME NEW S, IsFiniteSet(S), NEW f, DOMAIN f = S, f = [x \in S |-> f[x]]
    PROVE  IsFiniteSet({f[x] : x \in S})
  <1> DEFINE T == {f[x] : x \in S}
  <1>1. f \in Surjection(S, T)
    BY DEF Surjection
  <1> HIDE DEF T
  <1>2. IsFiniteSet(T)
    BY <1>1, FS_Surjection
  <1> QED
    BY <1>2 DEF T

\* UPDATE of delivered_at leaves the primary keys as they are.
LEMMA MarkedTable ==
    ASSUME NEW table, Table(table), NEW rows \in SUBSET table
    PROVE  Table(MarkDelivered(table, rows))
  <1> DEFINE mark == [r \in rows |-> [r EXCEPT !.delivered = TRUE]]
             marked == {mark[r] : r \in rows}
  <1>1. IsFiniteSet(rows) /\ IsFiniteSet(table \ rows)
    BY FS_Subset DEF Table
  <1>2. IsFiniteSet(marked)
    <2>1. DOMAIN mark = rows /\ mark = [r \in rows |-> mark[r]]
      OBVIOUS
    <2> HIDE DEF mark
    <2> QED
      BY <1>1, <2>1, FiniteImage
  <1>3. MarkDelivered(table, rows) = (table \ rows) \cup marked
    BY DEF MarkDelivered
  <1>4. \A r \in rows : mark[r] \in Row /\ mark[r].to = r.to /\ mark[r].msg = r.msg
    BY DEF Table, Row
  <1>5. IsFiniteSet((table \ rows) \cup marked)
    <2> HIDE DEF marked
    <2> QED
      BY <1>1, <1>2, FS_Union
  <1>6. \A r \in (table \ rows) \cup marked : \E q \in table :
           /\ r.to = q.to /\ r.msg = q.msg
           /\ IF r \in marked THEN q \in rows /\ r = mark[q] ELSE q \notin rows /\ r = q
    <2> HIDE DEF mark
    <2> QED
      BY <1>4
  <1>7. \A r, q \in (table \ rows) \cup marked : r.to = q.to /\ r.msg = q.msg => r = q
    <2> SUFFICES ASSUME NEW r \in (table \ rows) \cup marked,
                        NEW q \in (table \ rows) \cup marked, r.to = q.to, r.msg = q.msg
                 PROVE  r = q
      OBVIOUS
    <2> HIDE DEF marked, mark
    <2>1. PICK a \in table :
             /\ r.to = a.to /\ r.msg = a.msg
             /\ IF r \in marked THEN a \in rows /\ r = mark[a] ELSE a \notin rows /\ r = a
      BY <1>6
    <2>2. PICK b \in table :
             /\ q.to = b.to /\ q.msg = b.msg
             /\ IF q \in marked THEN b \in rows /\ q = mark[b] ELSE b \notin rows /\ q = b
      BY <1>6
    <2>3. a = b
      BY <2>1, <2>2 DEF Table
    <2> QED
      BY <2>1, <2>2, <2>3
  <1>8. (table \ rows) \cup marked \subseteq Row
    BY <1>4 DEF Table
  <1> QED
    BY <1>3, <1>5, <1>7, <1>8 DEF Table

\* INSERT OR IGNORE adds no second row under a primary key.
LEMMA InsertedTable ==
    ASSUME TableInv, NEW d \in Device, NEW m \in Msg, NEW accepted \in SUBSET Device,
           NEW now \in 0..MaxClock
    PROVE  /\ Table(outbox \cup Inserted(d, m, accepted, now))
           /\ \A r \in Inserted(d, m, accepted, now) :
                 /\ r \notin outbox /\ r.to \in accepted /\ r.msg = m
                 /\ r.recvAt = now /\ r.delivered = FALSE
  <1> DEFINE fresh == {e \in accepted : \A r \in Queue(e) : r.msg # m}
             row == [e \in fresh |-> [msg |-> m, to |-> e, from |-> d, recvAt |-> now,
                                      delivered |-> FALSE]]
             added == {row[e] : e \in fresh}
  <1>1. Inserted(d, m, accepted, now) = added
    BY DEF Inserted
  <1>2. IsFiniteSet(fresh)
    BY FamilyAssumption, FS_Subset
  <1>3. IsFiniteSet(added)
    BY <1>2, FiniteImage
  <1>4. \A e \in fresh : /\ row[e] \in Row /\ row[e].to = e /\ row[e].msg = m
                         /\ row[e].recvAt = now /\ row[e].delivered = FALSE
                         /\ e \in accepted
                         /\ \A r \in outbox : r.to = e => r.msg # m
    BY DEF Row, Queue
  <1>5. IsFiniteSet(outbox \cup added)
    <2> HIDE DEF added
    <2> QED
      BY <1>3, FS_Union DEF TableInv, Table
  <1> HIDE DEF fresh, row
  <1>6. outbox \cup added \subseteq Row
    BY <1>4 DEF TableInv, Table
  <1>7. \A r \in added : \E e \in fresh : r = row[e]
    OBVIOUS
  <1> HIDE DEF added
  <1>8. \A r, q \in outbox \cup added : r.to = q.to /\ r.msg = q.msg => r = q
    <2>1. \A r, q \in added : r.to = q.to => r = q
      BY <1>4, <1>7
    <2>2. \A r \in added, q \in outbox : ~ (r.to = q.to /\ r.msg = q.msg)
      BY <1>4, <1>7
    <2>3. \A r, q \in outbox : r.to = q.to /\ r.msg = q.msg => r = q
      BY DEF TableInv, Table
    <2> QED
      BY <2>1, <2>2, <2>3
  <1> QED
    BY <1>1, <1>4, <1>5, <1>6, <1>7, <1>8 DEF Table

\* Marking a row leaves its key and what is written of it.
LEMMA MarkedLetter ==
    ASSUME NEW table \in SUBSET Row, NEW rows, NEW q \in table
    PROVE  \E r \in MarkDelivered(table, rows) :
              r.to = q.to /\ r.msg = q.msg /\ DeliverFrame(r) = DeliverFrame(q)
  <1>1. CASE q \notin rows
    BY <1>1 DEF MarkDelivered
  <1>2. CASE q \in rows
    <2> DEFINE r == [q EXCEPT !.delivered = TRUE]
    <2>1. r \in MarkDelivered(table, rows)
      BY <1>2 DEF MarkDelivered
    <2>2. r.to = q.to /\ r.from = q.from /\ r.msg = q.msg /\ r.recvAt = q.recvAt
      BY DEF Row
    <2> QED
      BY <2>1, <2>2 DEF DeliverFrame
  <1> QED
    BY <1>1, <1>2

\* handleSend inserts into a table, and marks what it pushes.
LEMMA SentRows ==
    ASSUME Inv, TableInv, NEW s \in Sock, conn[s].authed, NEW m \in Msg,
           NEW to \in SUBSET Device, NEW now \in 0..MaxClock, now \in {clock, clock + 1},
           HandleSend(s, m, to, now)
    PROVE  \E table : \E rows \in SUBSET table :
              /\ Table(table) /\ outbox' = MarkDelivered(table, rows)
              /\ \A r \in table : r.recvAt <= clock'
  <1> DEFINE d        == conn[s].deviceId
             accepted == Accepted(d, to)
             queued   == outbox \cup Inserted(d, m, accepted, now)
             marked   == UNION {Pending(queued, e, TRUE) : e \in PushTargets(accepted)}
  <1>1. d \in Device /\ accepted \in SUBSET Device
    BY DEF Inv, RegistryConsistent, TypeOK, ConnObject, Accepted
  <1>2. outbox' = MarkDelivered(queued, marked) /\ clock' = now
    BY DEF HandleSend
  <1> HIDE DEF d, accepted
  <1>3. Table(queued)
    BY <1>1, InsertedTable
  <1>4. \A r \in Inserted(d, m, accepted, now) : r.recvAt = now
    BY DEF Inserted
  <1>5. \A r \in queued : r.recvAt <= clock'
    <2>1. clock \in Nat /\ now \in Nat /\ clock <= now
      BY ClockAssumption DEF Inv, TypeOK
    <2>2. \A r \in outbox : r.recvAt <= clock /\ r.recvAt \in Nat
      BY ClockAssumption DEF TableInv, Table, Row
    <2> QED
      BY <1>2, <1>4, <2>1, <2>2
  <1>6. marked \in SUBSET queued
    BY DEF Pending
  <1> HIDE DEF queued, marked
  <1> QED
    BY <1>2, <1>3, <1>5, <1>6

\* Every handler leaves the queue a table, with no row ahead of the clock.
LEMMA TableStep ==
    ASSUME Inv, TableInv, [Next]_vars
    PROVE  TableInv'
  <1>1. ASSUME NEW rows \in SUBSET outbox, outbox' = rows, clock' = clock
        PROVE  TableInv'
    <2>1. Table(rows)
      BY SmallerTable DEF TableInv
    <2> QED
      BY <1>1, <2>1 DEF TableInv, Table
  <1>2. ASSUME NEW table, Table(table), \A r \in table : r.recvAt <= clock',
               NEW rows \in SUBSET table, outbox' = MarkDelivered(table, rows)
        PROVE  TableInv'
    <2>1. Table(MarkDelivered(table, rows))
      BY <1>2, MarkedTable
    <2>2. \A r \in MarkDelivered(table, rows) : \E q \in table : r.recvAt = q.recvAt
      BY <1>2 DEF MarkDelivered, Table, Row
    <2>3. \A r \in outbox' : r.recvAt <= clock'
      BY <1>2, <2>2
    <2> QED
      BY <1>2, <2>1, <2>3 DEF TableInv, Table
  <1>3. ASSUME NEW s \in Sock, conn[s].authed, NEW m \in Msg, NEW to \in SUBSET Device,
               NEW now \in 0..MaxClock, now \in {clock, clock + 1}, HandleSend(s, m, to, now)
        PROVE  TableInv'
    BY <1>2, <1>3, SentRows
  <1>4. ASSUME NEW s \in Sock, NEW f, AuthAccepted(s, f)
        PROVE  TableInv'
    <2> DEFINE rows == Pending(outbox, conn[s].pending, FALSE)
    <2>1. rows \in SUBSET outbox /\ outbox' = MarkDelivered(outbox, rows) /\ clock' = clock
      BY <1>4 DEF AuthAccepted, Pending
    <2> HIDE DEF rows
    <2> QED
      BY <1>2, <2>1 DEF TableInv
  <1>5. ASSUME NEW s \in Sock, OnMessage(s)
        PROVE  TableInv'
    <2>1. CASE conn[s].authed /\ Handle(s)
      <3>1. CASE HandlePing(s) \/ RefuseFrame(s) \/ RefuseRate(s)
        BY <1>1, <3>1 DEF HandlePing, RefuseFrame, RefuseRate
      <3>2. ASSUME NEW ids, HandleAck(s, ids) PROVE TableInv'
        BY <1>1, <3>2 DEF HandleAck
      <3> QED
        BY <1>3, <2>1, <3>1, <3>2 DEF Handle
    <2>2. CASE ~conn[s].authed /\ OnUnauthenticatedFrame(s)
      BY <1>1, <1>4, <2>2
      DEF OnUnauthenticatedFrame, OnUnexpected, HelloRefused, HelloAccepted, AuthWithoutHello,
          AuthRefused
    <2> QED
      BY <1>1, <1>5, <2>1, <2>2 DEF OnMessage, OnGarbage
  <1>6. ASSUME NEW s \in Sock, \/ Connect(s) \/ RejectPeer(s) \/ NonceExpires(s)
                               \/ SocketDown(s) \/ OnClose(s)
        PROVE  TableInv'
    BY <1>1, <1>6 DEF Connect, RejectPeer, NonceExpires, SocketDown, OnClose
  <1>7. CASE Shutdown \/ Restart \/ UNCHANGED vars
    BY <1>1, <1>7 DEF Shutdown, Restart, vars
  <1>8. CASE EnrollNext
    BY <1>1, <1>8 DEF EnrollNext, EnrollDevice, RemoveDevice, PurgeQueue, RemoveAborts
  <1> QED
    BY <1>5, <1>6, <1>7, <1>8 DEF Next, ServerNext

\* A row leaves for nobody but its recipient (TakenByOwner).
LEMMA OwnerStep ==
    ASSUME Inv, TableInv, [Next]_vars, NEW r \in outbox,
           \A x \in outbox' : x.msg # r.msg \/ x.to # r.to
    PROVE  \/ r.to = cli
           \/ /\ Online(r.to)
              /\ (Online(r.from) /\ ready[conns[r.from]] = "open")
                    => \E i \in DOMAIN out'[conns[r.from]] :
                          out'[conns[r.from]][i] = ReceiptFrame(r.msg, r.to)
  <1> DEFINE Goal == \/ r.to = cli
                     \/ /\ Online(r.to)
                        /\ (Online(r.from) /\ ready[conns[r.from]] = "open")
                              => \E i \in DOMAIN out'[conns[r.from]] :
                                    out'[conns[r.from]][i] = ReceiptFrame(r.msg, r.to)
  <1>1. outbox' # outbox /\ outbox \in SUBSET Row
    BY DEF TableInv, Table
  <1>2. ASSUME NEW table \in SUBSET Row, r \in table, NEW rows,
               outbox' = MarkDelivered(table, rows)
        PROVE  FALSE
    BY <1>2, MarkedLetter
  <1>3. ASSUME NEW s \in Sock, conn[s].authed, NEW ids, HandleAck(s, ids)
        PROVE  Goal
    <2> DEFINE d == conn[s].deviceId
               t == conns[r.from]
               rows == {q \in Acked(d, ids) : conns[q.from] = t}
               list == InOrder(rows, Before)
               receipts == [i \in DOMAIN list |-> ReceiptFrame(list[i].msg, d)]
    <2>1. d \in Device /\ Online(d)
      BY <1>3, SockAssumption DEF Inv, RegistryConsistent, TypeOK, ConnObject, Online
    <2>2. r \in Acked(d, ids) /\ r.to = d
      BY <1>3 DEF HandleAck, Acked, Queue
    <2>3. ASSUME Online(r.from), ready[t] = "open"
          PROVE  \E i \in DOMAIN out'[t] : out'[t][i] = ReceiptFrame(r.msg, d)
      <3>1. r.from \in Device /\ t \in Sock
        BY <1>1, <2>3 DEF Row, Online, Inv, TypeOK
      <3>2. out'[t] = receipts
        BY <1>3, <2>3, <3>1 DEF HandleAck, Emit
      <3>3. rows \in SUBSET {q \in outbox : q.to = d} /\ r \in rows
        BY <2>2 DEF Acked, Queue
      <3> HIDE DEF rows
      <3>4. OneQueue(rows)
        BY <3>3, QueueIsOne DEF TableInv
      <3>5. /\ Cardinality(rows) \in Nat
            /\ Rank(rows, r) \in 0..(Cardinality(rows) - 1)
            /\ \A q \in rows : Rank(rows, q) = Rank(rows, r) => q = r
        BY <3>3, <3>4, RowRanks
      <3> DEFINE i == Rank(rows, r) + 1
      <3>6. i \in 1..Cardinality(rows) /\ i - 1 = Rank(rows, r)
        BY <3>5
      <3>7. DOMAIN list = 1..Cardinality(rows)
            /\ \A k \in 1..Cardinality(rows) :
                  list[k] = CHOOSE x \in rows : Rank(rows, x) = k - 1
        BY DEF InOrder, Rank
      <3> HIDE DEF i, list
      <3>8. list[i] = CHOOSE x \in rows : Rank(rows, x) = Rank(rows, r)
        BY <3>6, <3>7
      <3>9. list[i] = r
        BY <3>3, <3>5, <3>8
      <3> QED
        BY <3>2, <3>6, <3>7, <3>9
    <2> QED
      BY <2>1, <2>2, <2>3
  <1>4. ASSUME NEW s \in Sock, conn[s].authed, NEW m \in Msg, NEW to \in SUBSET Device,
               NEW now \in 0..MaxClock, HandleSend(s, m, to, now)
        PROVE  FALSE
    <2> DEFINE d        == conn[s].deviceId
               accepted == Accepted(d, to)
               queued   == outbox \cup Inserted(d, m, accepted, now)
               marked   == UNION {Pending(queued, e, TRUE) : e \in PushTargets(accepted)}
    <2>1. outbox' = MarkDelivered(queued, marked) /\ r \in queued
      BY <1>4 DEF HandleSend
    <2>2. d \in Device
      BY <1>4 DEF Inv, RegistryConsistent, TypeOK, ConnObject
    <2> HIDE DEF d
    <2>3. queued \in SUBSET Row
      BY <1>1, <2>2, InsertedType
    <2> HIDE DEF queued, marked
    <2> QED
      BY <1>2, <2>1, <2>3
  <1>5. ASSUME NEW s \in Sock, NEW f, AuthAccepted(s, f)
        PROVE  FALSE
    <2> DEFINE rows == Pending(outbox, conn[s].pending, FALSE)
    <2>1. outbox' = MarkDelivered(outbox, rows)
      BY <1>5 DEF AuthAccepted
    <2> HIDE DEF rows
    <2> QED
      BY <1>1, <1>2, <2>1
  <1> HIDE DEF Goal
  <1>6. ASSUME NEW s \in Sock, OnMessage(s)
        PROVE  Goal
    <2>1. CASE conn[s].authed /\ Handle(s)
      BY <1>1, <1>3, <1>4, <2>1 DEF Handle, HandlePing, RefuseFrame, RefuseRate
    <2>2. CASE ~conn[s].authed /\ OnUnauthenticatedFrame(s)
      BY <1>1, <1>5, <2>2
      DEF OnUnauthenticatedFrame, OnUnexpected, HelloRefused, HelloAccepted, AuthWithoutHello,
          AuthRefused
    <2> QED
      BY <1>1, <1>6, <2>1, <2>2 DEF OnMessage, OnGarbage
  <1>7. ASSUME NEW s \in Sock, \/ Connect(s) \/ RejectPeer(s) \/ NonceExpires(s)
                               \/ SocketDown(s) \/ OnClose(s)
        PROVE  FALSE
    BY <1>1, <1>7 DEF Connect, RejectPeer, NonceExpires, SocketDown, OnClose
  <1>8. ASSUME Shutdown \/ Restart \/ UNCHANGED vars
        PROVE  FALSE
    BY <1>1, <1>8 DEF Shutdown, Restart, vars
  <1>9. ASSUME EnrollNext
        PROVE  Goal
    <2>1. outbox' = outbox \ Queue(cli)
      BY <1>1, <1>9 DEF EnrollNext, EnrollDevice, RemoveDevice, PurgeQueue, RemoveAborts
    <2>2. r.to = cli
      BY <2>1 DEF Queue
    <2> QED
      BY <2>2 DEF Goal
  <1>10. ASSUME ServerNext PROVE Goal
    BY <1>6, <1>7, <1>8, <1>10 DEF ServerNext
  <1>11. Goal
    BY <1>8, <1>9, <1>10 DEF Next
  <1> QED
    BY <1>11 DEF Goal

\* The queue is a table in every reachable state.
LEMMA TableAlways == Spec => []TableInv
  <1>1. Init => TableInv
    BY FS_EmptySet DEF Init, TableInv, Table
  <1>2. Inv /\ TableInv /\ [Next]_vars => TableInv'
    BY TableStep
  <1> QED
    BY <1>1, <1>2, InvAlways, PTL DEF Spec

\* Only the recipient's own ack, or enroll.js, takes a row out of the queue, and
\* an ack tells the sender whose it is (router.js, handleAck): in HandleAck both
\* come from the deviceId of the connection, which is registered (Inv), and no
\* other step of the hub loses a row.
THEOREM OwnersTake == Spec => TakenByOwner
  <1> DEFINE Step == \A r \in outbox :
                        (\A x \in outbox' : x.msg # r.msg \/ x.to # r.to)
                        => \/ r.to = cli
                           \/ /\ Online(r.to)
                              /\ (Online(r.from) /\ ready[conns[r.from]] = "open")
                                    => \E i \in DOMAIN out'[conns[r.from]] :
                                          out'[conns[r.from]][i] = ReceiptFrame(r.msg, r.to)
  <1>1. ASSUME Inv, TableInv, [Next]_vars PROVE Step
    BY <1>1, OwnerStep
  <1>2. Inv /\ TableInv /\ [Next]_vars => [Step]_vars
    BY <1>1
  <1>3. Spec => [][Step]_vars
    BY <1>2, InvAlways, TableAlways, PTL DEF Spec
  <1> QED
    BY <1>3 DEF TakenByOwner

-----------------------------------------------------------------------------
(* The administrator's command. *)

\* enroll.js --remove, between its statements, has no row for its device left.
CliInv == cli # Null => devices[cli] = Null

\* The administrator runs one command at a time.
LEMMA CliStep ==
    ASSUME Inv, CliInv, [Next]_vars
    PROVE  CliInv'
  <1>1. CASE UNCHANGED <<devices, cli>>
    BY <1>1 DEF CliInv
  <1>2. ASSUME NEW s \in Sock, ~conn[s].authed, OnUnauthenticatedFrame(s)
        PROVE  CliInv'
    <2>1. ASSUME NEW f \in HelloFrames, HelloAccepted(s, f) PROVE CliInv'
      <3>1. /\ \A d \in Device : (Renamed(f)[d] = Null) <=> (devices[d] = Null)
            /\ devices' = Renamed(f) /\ cli' = cli
        BY <2>1, RenamedType DEF HelloAccepted, Inv
      <3> QED
        BY <3>1 DEF CliInv, Inv, TypeOK
    <2>2. ASSUME \/ OnUnexpected(s) \/ AuthWithoutHello(s)
                 \/ \E f \in HelloFrames : HelloRefused(s, f)
                 \/ \E f \in AuthFrames : AuthRefused(s, f) \/ AuthAccepted(s, f)
          PROVE  UNCHANGED <<devices, cli>>
      BY <2>2 DEF OnUnexpected, AuthWithoutHello, HelloRefused, AuthRefused, AuthAccepted
    <2> QED
      BY <1>1, <1>2, <2>1, <2>2 DEF OnUnauthenticatedFrame
  <1>3. ASSUME NEW s \in Sock, OnGarbage(s) \/ Handle(s)
        PROVE  UNCHANGED <<devices, cli>>
    BY <1>3 DEF OnGarbage, Handle, HandlePing, RefuseFrame, RefuseRate, HandleSend, HandleAck
  <1>4. ASSUME NEW s \in Sock, OnMessage(s) PROVE CliInv'
    BY <1>1, <1>2, <1>3, <1>4 DEF OnMessage
  <1>5. ASSUME NEW s \in Sock, \/ Connect(s) \/ RejectPeer(s) \/ NonceExpires(s)
                               \/ SocketDown(s) \/ OnClose(s)
        PROVE  UNCHANGED <<devices, cli>>
    BY <1>5 DEF Connect, RejectPeer, NonceExpires, SocketDown, OnClose
  <1>6. Shutdown \/ Restart => UNCHANGED <<devices, cli>>
    BY DEF Shutdown, Restart
  <1>7. CASE EnrollNext
    <2>1. ASSUME NEW d \in Device, RemoveDevice(d) PROVE CliInv'
      BY <2>1 DEF RemoveDevice, CliInv, Inv, TypeOK
    <2>2. ASSUME cli' = Null PROVE CliInv'
      BY <2>2 DEF CliInv
    <2> QED
      BY <1>7, <2>1, <2>2, ManagedAssumption
      DEF EnrollNext, EnrollDevice, PurgeQueue, RemoveAborts
  <1>8. UNCHANGED vars => UNCHANGED <<devices, cli>>
    BY DEF vars
  <1> QED
    BY <1>1, <1>4, <1>5, <1>6, <1>7, <1>8 DEF Next, ServerNext
=============================================================================
