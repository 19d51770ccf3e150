---------------------------- MODULE LedgerProofs ----------------------------
(***************************************************************************)
(* ConfirmedIsKept of module System, proved: what a sender was told is     *)
(* done is done.  Ledger follows a message from the list of its sender's   *)
(* client over the wire to the hub's table and the confirmation back.      *)
(***************************************************************************)
EXTENDS SystemProofs

-----------------------------------------------------------------------------
(* Part 1.  What is followed. *)

\* The hub's promise for one transmission: each member it was encrypted for has
\* taken the message, or it is queued for him, or he was removed.
Kept(x) == \A e \in x.to : x.msg \in seen[e] \/ Queued(x.msg, e) \/ e \in gone

\* A device writes to others, who are members or were.
Targets(S, d) == \A e \in S : e # d /\ Named(e)

\* A frame on its way to d: a welcome lists members, a confirmation is of a
\* transmission of this session that the hub keeps.
GoodNews(f, d) ==
    /\ f.t = "welcome" => Targets(f.members, d)
    /\ f.t = "sent" => welcomed[d] /\ \E x \in tried[d] : x.msg = f.msgId /\ Kept(x)

\* A frame on its way from d: a send is one of this session's transmissions.
GoodRequest(f, d) ==
    f.t = "send" => welcomed[d] /\ [msg |-> f.msg, to |-> f.to] \in tried[d]

Among(q, f) == \E i \in DOMAIN q : q[i] = f

Ledger ==
    /\ \A r \in outbox : Named(r.to)
    /\ \A d \in Device : Targets(known[d], d)
    /\ \A d \in Device : \A x \in tried[d] : Targets(x.to, d)
    /\ \A d \in Device : \A x, y \in tried[d] : x.msg = y.msg => x = y
    /\ \A d \in Device : \A s \in Sock : link[d] = s =>
          /\ \A f \in PeerFrame : Among(toPeer[s], f) => GoodNews(f, d)
          /\ \A f \in HubFrame : Among(toHub[s], f) => GoodRequest(f, d)
    /\ \A x \in confirmed : Kept(x)

-----------------------------------------------------------------------------
(* Part 2.  What no step takes back. *)

\* A client forgets nothing it has taken.
LEMMA SeenGrows ==
    ASSUME FamilyInv, [SystemNext]_sysVars, NEW e \in Device
    PROVE  seen[e] \subseteq seen'[e]
  <1>1. ASSUME NEW d \in Device, Read(d)
        PROVE  seen[e] \subseteq seen'[e]
    BY <1>1, ReadEffect DEF Read, FamilyInv
  <1>2. CASE ~ \E d \in Device : Read(d)
    <2>1. seen' = seen
      BY <1>2 DEF SystemNext, HubReceive, HubEnds, Close, Open, ClientConnect, ClientEnds,
                  ClientDown, Write, ClientSend, Resume, Break, Administer, Purge, clientVars,
                  sysVars
    <2> QED
      BY <2>1
  <1> QED
    BY <1>1, <1>2

\* A row that leaves was taken, or its recipient was removed: RowLeaves.
LEMMA KeptStays ==
    ASSUME FamilyInv, Ledger, [SystemNext]_sysVars, NEW x \in Transmission, Kept(x)
    PROVE  Kept(x)'
  <1> SUFFICES ASSUME NEW e \in Device, e \in x.to
               PROVE  x.msg \in seen'[e] \/ Queued(x.msg, e)' \/ e \in gone'
    BY DEF Kept, Transmission
  <1>1. seen[e] \subseteq seen'[e] /\ gone \subseteq gone'
    BY SeenGrows, GoneGrows
  <1>2. CASE Queued(x.msg, e)
    <2>1. PICK r \in outbox : r.to = e /\ r.msg = x.msg
      BY <1>2 DEF Queued, Queue
    <2>2. CASE \E q \in outbox' : q.msg = r.msg /\ q.to = r.to
      BY <2>1, <2>2 DEF Queued, Queue
    <2>3. CASE \A q \in outbox' : q.msg # r.msg \/ q.to # r.to
      <3>1. r.msg \in seen[r.to] \/ ~Registered(r.to)
        BY <2>3, RowLeaves
      <3>2. Named(r.to)
        BY DEF Ledger
      <3> QED
        BY <1>1, <2>1, <3>1, <3>2 DEF Named
    <2> QED
      BY <2>2, <2>3
  <1> QED
    BY <1>1, <1>2 DEF Kept

\* Rows are added for members only.
LEMMA RowsNamed ==
    ASSUME FamilyInv, FamilyInv', Ledger, [SystemNext]_sysVars, NEW r \in outbox'
    PROVE  Named(r.to)'
  <1>1. Inv /\ [Next]_vars /\ r.to \in Device
    BY FamilyStep DEF FamilyInv, HubInv, TableInv, Table, Row
  <1>2. Named(r.to)
    <2>1. \/ \E q \in outbox : r.from = q.from /\ r.to = q.to
          \/ Registered(r.to)
      BY <1>1, RowOrigin
    <2> QED
      BY <2>1 DEF Ledger, Named
  <1> QED
    BY <1>1, <1>2, NamedStays

\* The ledger is kept by a step under which a client learns only of members, adds
\* to what it tried no message twice, and gets and sends good frames only.
LEMMA LedgerKept ==
    ASSUME FamilyInv, FamilyInv', Ledger, [SystemNext]_sysVars,
           \A d \in Device : \A e \in known'[d] : e \in known[d] \/ (e # d /\ Named(e)),
           \A d \in Device :
              \/ tried'[d] \subseteq tried[d]
              \/ \E m \in Msg \ Messages(tried[d]) :
                    tried'[d] = tried[d] \cup {[msg |-> m, to |-> known[d]]},
           \A d \in Device : welcomed[d] /\ link'[d] # Null =>
              welcomed'[d] /\ tried[d] \subseteq tried'[d],
           \A d \in Device : \A s \in Sock : link'[d] = s =>
              /\ \A f \in PeerFrame : Among(toPeer'[s], f) =>
                    (link[d] = s /\ Among(toPeer[s], f)) \/ GoodNews(f, d)'
              /\ \A f \in HubFrame : Among(toHub'[s], f) =>
                    (link[d] = s /\ Among(toHub[s], f)) \/ GoodRequest(f, d)',
           \A x \in confirmed' : x \in confirmed \/ Kept(x)
    PROVE  Ledger'
  <1>1. /\ ClientTypes /\ confirmed' \in SUBSET Transmission
        /\ \A d \in Device : /\ tried[d] \in SUBSET Transmission
                             /\ known[d] \in SUBSET Device /\ known'[d] \in SUBSET Device
    BY DEF FamilyInv, ClientTypes
  <1>2. \A e \in Device : Named(e) => Named(e)'
    BY NamedStays
  <1>3. \A x \in Transmission : Kept(x) => Kept(x)'
    BY KeptStays
  <1>4. \A r \in outbox' : Named(r.to)'
    BY RowsNamed
  <1>5. ASSUME NEW d \in Device PROVE Targets(known[d], d)'
    BY <1>1, <1>2 DEF Ledger, Targets
  <1>6. ASSUME NEW d \in Device, NEW x \in tried'[d] PROVE Targets(x.to, d)'
    <2>1. CASE x \in tried[d]
      <3>1. Targets(x.to, d) /\ x.to \in SUBSET Device
        BY <1>1, <2>1 DEF Ledger, Transmission
      <3> QED
        BY <1>2, <3>1 DEF Targets
    <2>2. CASE \E m \in Msg : x = [msg |-> m, to |-> known[d]]
      <3>1. x.to = known[d] /\ Targets(known[d], d)
        BY <2>2 DEF Ledger
      <3> QED
        BY <1>1, <1>2, <3>1 DEF Targets
    <2> QED
      BY <2>1, <2>2
  <1>7. ASSUME NEW d \in Device, NEW x \in tried'[d], NEW y \in tried'[d], x.msg = y.msg
        PROVE  x = y
    <2>1. \A u, v \in tried[d] : u.msg = v.msg => u = v
      BY DEF Ledger
    <2>2. CASE tried'[d] \subseteq tried[d]
      BY <1>7, <2>1, <2>2
    <2>3. ASSUME NEW m \in Msg \ Messages(tried[d]),
                 tried'[d] = tried[d] \cup {[msg |-> m, to |-> known[d]]}
          PROVE  x = y
      <3> DEFINE z == [msg |-> m, to |-> known[d]]
      <3>1. z.msg = m /\ \A u \in tried[d] : u.msg # m
        BY DEF Messages
      <3>2. x \in tried[d] \/ x = z
        BY <2>3
      <3>3. y \in tried[d] \/ y = z
        BY <2>3
      <3> HIDE DEF z
      <3> QED
        BY <1>7, <2>1, <3>1, <3>2, <3>3
    <2> QED
      BY <2>2, <2>3
  <1>8. ASSUME NEW d \in Device, NEW s \in Sock, link'[d] = s, NEW f \in PeerFrame,
               Among(toPeer'[s], f)
        PROVE  GoodNews(f, d)'
    <2> SUFFICES ASSUME link[d] = s, Among(toPeer[s], f) PROVE GoodNews(f, d)'
      BY <1>8
    <2>1. GoodNews(f, d) /\ link'[d] # Null
      BY <1>8, SockAssumption DEF Ledger
    <2>2. f.t = "welcome" => Targets(f.members, d)'
      <3>1. f.t = "welcome" => f.members \in SUBSET Device
        BY DEF PeerFrame
      <3> QED
        BY <1>2, <2>1, <3>1 DEF GoodNews, Targets
    <2>3. ASSUME f.t = "sent"
          PROVE  welcomed'[d] /\ \E x \in tried'[d] : x.msg = f.msgId /\ Kept(x)'
      <3>1. PICK x \in tried[d] : x.msg = f.msgId /\ Kept(x)
        BY <2>1, <2>3 DEF GoodNews
      <3>2. welcomed[d]
        BY <2>1, <2>3 DEF GoodNews
      <3>3. x \in Transmission /\ x \in tried'[d] /\ welcomed'[d]
        BY <1>1, <2>1, <3>2
      <3> QED
        BY <1>3, <3>1, <3>3
    <2> QED
      BY <2>2, <2>3 DEF GoodNews
  <1>9. ASSUME NEW d \in Device, NEW s \in Sock, link'[d] = s, NEW f \in HubFrame,
               Among(toHub'[s], f)
        PROVE  GoodRequest(f, d)'
    <2> SUFFICES ASSUME link[d] = s, Among(toHub[s], f) PROVE GoodRequest(f, d)'
      BY <1>9
    <2>1. GoodRequest(f, d) /\ link'[d] # Null
      BY <1>9, SockAssumption DEF Ledger
    <2> QED
      BY <2>1 DEF GoodRequest
  <1>10. ASSUME NEW x \in confirmed' PROVE Kept(x)'
    <2>1. x \in Transmission /\ Kept(x)
      BY <1>1 DEF Ledger
    <2> QED
      BY <1>3, <2>1
  <1> QED
    BY <1>4, <1>5, <1>6, <1>7, <1>8, <1>9, <1>10 DEF Ledger, Among

-----------------------------------------------------------------------------
(* Part 3.  What the hub writes. *)

\* What is in a queue that grows or shrinks.
LEMMA AmongThem ==
    ASSUME NEW S, NEW q \in Seq(S), NEW f
    PROVE  /\ q # <<>> /\ Among(Tail(q), f) => Among(q, f)
           /\ \A p \in Seq(S) : Among(q \o p, f) => Among(q, f) \/ Among(p, f)
           /\ ~Among(<<>>, f)
           /\ \A x : Among(<<x>>, f) => f = x
  <1>1. q # <<>> /\ Among(Tail(q), f) => Among(q, f)
    BY FirstAndRest DEF Among
  <1>2. ASSUME NEW p \in Seq(S), Among(q \o p, f) PROVE Among(q, f) \/ Among(p, f)
    <2>1. PICK i \in DOMAIN (q \o p) : (q \o p)[i] = f
      BY <1>2 DEF Among
    <2>2. /\ Len(q) \in Nat /\ Len(p) \in Nat
          /\ \A j \in 1..Len(q) : (q \o p)[j] = q[j]
          /\ \A j \in 1..Len(p) : (q \o p)[Len(q) + j] = p[j]
          /\ \/ i \in 1..Len(q)
             \/ i - Len(q) \in 1..Len(p) /\ Len(q) + (i - Len(q)) = i
      BY <2>1, Joined
    <2>3. CASE i \in 1..Len(q)
      BY <2>1, <2>2, <2>3 DEF Among
    <2>4. CASE i - Len(q) \in 1..Len(p) /\ Len(q) + (i - Len(q)) = i
      <3>1. p[i - Len(q)] = f /\ i - Len(q) \in DOMAIN p
        BY <2>1, <2>2, <2>4
      <3> QED
        BY <3>1 DEF Among
    <2> QED
      BY <2>2, <2>3, <2>4
  <1>3. ~Among(<<>>, f) /\ \A x : Among(<<x>>, f) => f = x
    BY DEF Among
  <1> QED
    BY <1>1, <1>2, <1>3

\* A message is confirmed to the device that sent it, on the connection it came by,
\* and every member it was encrypted for has a row from then on.
LEMMA SentIsQueued ==
    ASSUME Inv, TableInv, NEW s \in Sock, conn[s].authed, NEW m \in Msg,
           NEW to \in SUBSET Device, NEW now \in 0..MaxClock, HandleSend(s, m, to, now),
           NEW e \in to, e # conn[s].deviceId, Registered(e)
    PROVE  Queued(m, e)'
  <1> DEFINE d        == conn[s].deviceId
             accepted == Accepted(d, to)
             new      == Inserted(d, m, accepted, now)
             queued   == outbox \cup new
             pushed   == UNION {Pending(queued, x, TRUE) : x \in PushTargets(accepted)}
             row      == [msg |-> m, to |-> e, from |-> d, recvAt |-> now,
                          delivered |-> FALSE]
  <1>1. outbox' = MarkDelivered(queued, pushed)
    BY DEF HandleSend
  <1>2. d \in Device /\ outbox \in SUBSET Row
    BY DEF Inv, RegistryConsistent, TypeOK, ConnObject
  <1>3. e \in accepted
    BY DEF Accepted
  <1>4. new \in SUBSET Row
    BY <1>2, InsertedType
  <1>5. \E q \in queued : q.msg = m /\ q.to = e
    <2>1. CASE \E r \in Queue(e) : r.msg = m
      BY <2>1 DEF Queue
    <2>2. CASE \A r \in Queue(e) : r.msg # m
      <3>1. row \in new
        BY <1>3, <2>2 DEF Inserted
      <3>2. row.msg = m /\ row.to = e
        OBVIOUS
      <3> QED
        BY <3>1, <3>2
    <2> QED
      BY <2>1, <2>2
  <1> HIDE DEF new, accepted, pushed
  <1>6. queued \in SUBSET Row
    BY <1>2, <1>4
  <1> HIDE DEF queued
  <1>7. PICK q \in queued : q.msg = m /\ q.to = e
    BY <1>5
  <1>8. PICK r \in outbox' : r.to = q.to /\ r.msg = q.msg
    BY <1>1, <1>6, <1>7, MarkedLetter
  <1> QED
    BY <1>7, <1>8 DEF Queued, Queue

\* Only a send is answered with a confirmation.
LEMMA WhoIsAnswered ==
    ASSUME FamilyInv, NEW s \in Sock, HubReceive(s), NEW t \in Sock
    PROVE  \/ Unasked(t)
           \/ /\ t = s /\ conn[s].authed /\ Head(toHub[s]).t = "send"
              /\ \E now \in 0..MaxClock :
                    /\ HandleSend(s, Head(toHub[s]).msg, Head(toHub[s]).to, now)
                    /\ out'[t] = <<SentFrame(Head(toHub[s]).msg, now)>>
  <1> DEFINE f     == Head(toHub[s])
             hello == [version |-> "spoken", deviceId |-> f.deviceId, name |-> Null]
             auth  == [sig |-> CHOOSE k \in Key : TRUE]
  <1>1. Inv /\ TableInv /\ OnMessage(s) /\ f \in HubFrame
    <2>1. toHub[s] \in Seq(HubFrame) /\ toHub[s] # <<>>
      BY DEF FamilyInv, HubReceive, ClientTypes
    <2> QED
      BY <2>1, Received, FirstAndRest DEF FamilyInv, HubInv
  <1>2. \/ /\ ~conn[s].authed
           /\ \/ f.t = "hello" /\ (HelloRefused(s, hello) \/ HelloAccepted(s, hello))
              \/ f.t = "auth"  /\ (AuthRefused(s, auth) \/ AuthAccepted(s, auth))
              \/ f.t \in {"send", "ack"} /\ OnUnexpected(s)
        \/ /\ conn[s].authed
           /\ \/ f.t = "send" /\ \E now \in {n \in 0..MaxClock : n \in {clock, clock + 1}} :
                    HandleSend(s, f.msg, f.to, now)
              \/ f.t = "ack"  /\ HandleAck(s, f.ids)
    BY DEF HubReceive
  <1>3. /\ f.t = "hello" => hello \in HelloFrames
        /\ f.t = "send" => f.msg \in Msg /\ f.to \in SUBSET Device
        /\ auth \in AuthFrames
    BY <1>1, KeyAssumption DEF HubFrame, HelloFrames, AuthFrames
  <1>4. ready[s] \in {"open", "closing"}
    BY DEF HubReceive, Readable
  <1> HIDE DEF f, hello, auth
  <1>5. ASSUME Ordinary(t), conns' = conns, conn'[t].fp = conn[t].fp
        PROVE  Unasked(t)
    BY <1>5 DEF Unasked, SameList
  <1>6. CASE ~conn[s].authed
    <2>1. CASE AuthAccepted(s, auth)
      BY <1>1, <1>3, <1>4, <1>6, <2>1, AuthNews
    <2>2. CASE \/ OnUnexpected(s)
               \/ \E h \in HelloFrames : HelloRefused(s, h) \/ HelloAccepted(s, h)
               \/ \E a \in AuthFrames : AuthRefused(s, a)
      <3>1. Ordinary(t)
        BY <1>1, <2>2, HandshakeNews
      <3>2. conns' = conns
        BY <2>2 DEF OnUnexpected, HelloRefused, HelloAccepted, AuthRefused
      <3>3. conn'[t].fp = conn[t].fp
        BY <1>1, <2>2, HandshakeLists
      <3> QED
        BY <1>5, <3>1, <3>2, <3>3
    <2> QED
      BY <1>2, <1>3, <1>6, <2>1, <2>2
  <1>7. CASE conn[s].authed
    <2>1. conns' = conns /\ conn' = conn
      BY <1>2, <1>7 DEF HandleSend, HandleAck
    <2>2. CASE f.t = "ack" /\ HandleAck(s, f.ids)
      BY <1>1, <1>5, <2>1, <2>2, AckNews
    <2>3. ASSUME f.t = "send", NEW now \in 0..MaxClock, HandleSend(s, f.msg, f.to, now)
          PROVE  Unasked(t) \/ (t = s /\ out'[t] = <<SentFrame(f.msg, now)>>)
      <3>1. Ordinary(t) \/ (t = s /\ out'[t] = <<SentFrame(f.msg, now)>>)
        BY <1>1, <1>3, <1>7, <2>3, SendNews
      <3> QED
        BY <1>5, <2>1, <3>1
    <2> QED
      BY <1>2, <1>7, <2>2, <2>3 DEF f
  <1> QED
    BY <1>6, <1>7

\* What a step of the hub puts on the wire to a client is good news: the list of
\* a welcome is of members, and a confirmation is of the transmission it answers.
LEMMA TransmitGood ==
    ASSUME FamilyInv, FamilyInv', Ledger, [SystemNext]_sysVars, NEW s \in Sock,
           HubReceive(s) \/ Close(s), NEW d \in Device, NEW t \in Sock, link[d] = t,
           NEW f \in PeerFrame, Among(OnWire(out'[t]), f)
    PROVE  GoodNews(f, d)'
  <1> DEFINE fs == out'[t]
             w  == OnWire(fs)
  <1>1. /\ Inv /\ TableInv /\ ClientTypes /\ OneSpeaker
        /\ Inv' /\ outbox' \subseteq Row /\ OneSpeaker'
        /\ link' = link /\ welcomed' = welcomed /\ tried' = tried /\ gone' = gone
        /\ seen' = seen
    BY DEF FamilyInv, HubInv, TableInv, Table, HubReceive, Close
  <1>2. f.t \notin {"welcome", "sent"} => GoodNews(f, d)'
    BY DEF GoodNews
  <1>3. \/ Unasked(t)
        \/ /\ t = s /\ HubReceive(s) /\ conn[s].authed /\ Head(toHub[s]).t = "send"
           /\ \E now \in 0..MaxClock :
                 /\ HandleSend(s, Head(toHub[s]).msg, Head(toHub[s]).to, now)
                 /\ fs = <<SentFrame(Head(toHub[s]).msg, now)>>
    <2>1. CASE HubReceive(s)
      BY <2>1, WhoIsAnswered
    <2>2. CASE Close(s)
      BY <1>1, <2>2, CloseNews DEF Close
    <2> QED
      BY <2>1, <2>2
  <1>4. Listing(fs)
    <2>1. Unasked(t) => Listing(fs)
      BY DEF Unasked, Headed, Ordinary
    <2>2. \A x : Listing(<<x>>)
      BY ShortListings
    <2> QED
      BY <1>3, <2>1, <2>2
  <1>5. PICK i \in DOMAIN fs : Heeded(fs[i]) /\ f = Wired(fs[i])
    <2> HIDE DEF fs
    <2>1. \A k \in DOMAIN w : \E i \in DOMAIN fs : Heeded(fs[i]) /\ w[k] = Wired(fs[i])
      BY <1>4, WireFrames
    <2>2. Among(w, f)
      BY DEF fs
    <2> HIDE DEF w
    <2> QED
      BY <2>1, <2>2 DEF Among
  <1>6. CASE Notice(fs[i]) \/ Letter(t, fs[i])
    <2>1. Notice(fs[i]) => f.t \notin {"welcome", "sent"}
      BY <1>5, WiredTypes
    <2>2. Letter(t, fs[i]) => f.t = "deliver"
      <3> SUFFICES ASSUME NEW r \in outbox', fs[i] = DeliverFrame(r) PROVE f.t = "deliver"
        BY DEF Letter
      <3>1. f = DeliverFrame(r)
        BY <1>1, <1>5, WiredTypes
      <3> QED
        BY <3>1 DEF DeliverFrame
    <2> QED
      BY <1>2, <1>6, <2>1, <2>2
  <1>7. ASSUME NEW e \in Device, conns'[e] = t, fs[i] = WelcomeFrame(e, conns'),
               devices' = devices
        PROVE  GoodNews(f, d)'
    <2>1. f = [t |-> "welcome", members |-> Members(e)]
      BY <1>5, <1>7, WiredTypes
    <2>2. conn'[t].deviceId = e
      BY <1>1, <1>7, SockAssumption DEF Inv, RegistryConsistent, Online
    <2>3. Speaks(t, e)' /\ Speaks(t, d)'
      BY <1>1, <2>2 DEF Speaks
    <2>4. e = d
      BY <1>1, <2>3 DEF OneSpeaker
    <2>5. f.t = "welcome" /\ f.members = Members(d)
      BY <2>1, <2>4
    <2>6. \A x \in f.members : x # d /\ Named(x)'
      BY <1>7, <2>5 DEF Members, Enrolled, Registered, Named
    <2> QED
      BY <2>5, <2>6 DEF GoodNews, Targets
  <1>8. CASE Unasked(t)
    <2>1. CASE Headed(t)
      BY <1>6, <1>7, <2>1 DEF Headed
    <2>2. CASE Ordinary(t)
      BY <1>6, <2>2 DEF Ordinary
    <2> QED
      BY <1>8, <2>1, <2>2 DEF Unasked
  <1>9. ASSUME t = s, HubReceive(s), conn[s].authed, Head(toHub[s]).t = "send",
               NEW now \in 0..MaxClock,
               HandleSend(s, Head(toHub[s]).msg, Head(toHub[s]).to, now),
               fs = <<SentFrame(Head(toHub[s]).msg, now)>>
        PROVE  GoodNews(f, d)'
    <2>1. toHub[s] \in Seq(HubFrame) /\ toHub[s] # <<>>
      BY <1>1, <1>9 DEF ClientTypes, HubReceive
    <2>2. PICK g \in HubFrame : g = Head(toHub[s]) /\ Among(toHub[s], g)
      BY <2>1, FirstAndRest DEF Among
    <2>3. g.t = "send" /\ g.msg \in Msg /\ g.to \in SUBSET Device
      BY <1>9, <2>2 DEF HubFrame
    <2>4. PICK x \in tried[d] : x.msg = g.msg /\ x.to = g.to
      <3>1. GoodRequest(g, d)
        BY <1>9, <2>2 DEF Ledger
      <3>2. [msg |-> g.msg, to |-> g.to] \in tried[d]
        BY <2>3, <3>1 DEF GoodRequest
      <3> QED
        BY <3>2
    <2>5. conn[s].deviceId = d
      <3>1. conn[s].deviceId \in Device /\ Speaks(s, conn[s].deviceId) /\ Speaks(s, d)
        BY <1>1, <1>9 DEF Inv, RegistryConsistent, TypeOK, ConnObject, Speaks
      <3> QED
        BY <1>1, <3>1 DEF OneSpeaker
    <2>6. f.t = "sent" /\ f.msgId = g.msg
      <3>1. fs[i] = SentFrame(g.msg, now)
        <4> DEFINE y == SentFrame(g.msg, now)
        <4>1. fs = <<y>> /\ i \in DOMAIN fs
          BY <1>5, <1>9, <2>2
        <4> HIDE DEF y, fs
        <4>2. fs[i] = y
          BY <4>1
        <4> QED
          BY <4>2 DEF y
      <3>2. f = SentFrame(g.msg, now)
        BY <1>5, <2>3, <3>1, WiredTypes
      <3> QED
        BY <3>2 DEF SentFrame
    <2>7. welcomed[d] /\ Targets(x.to, d)
      <3>1. GoodRequest(g, d)
        BY <1>9, <2>2 DEF Ledger
      <3> QED
        BY <2>3, <3>1 DEF GoodRequest, Ledger
    <2>8. Kept(x)'
      <3> SUFFICES ASSUME NEW e \in g.to PROVE Queued(g.msg, e)' \/ e \in gone'
        BY <2>4 DEF Kept
      <3>1. e # d /\ Named(e)
        BY <2>4, <2>7 DEF Targets
      <3>2. CASE Registered(e)
        <4>1. HandleSend(s, g.msg, g.to, now)
          BY <1>9, <2>2
        <4>2. e # conn[s].deviceId
          BY <2>5, <3>1
        <4> QED
          BY <1>1, <1>9, <2>3, <3>2, <4>1, <4>2, SentIsQueued
      <3> QED
        BY <1>1, <3>1, <3>2 DEF Named
    <2> QED
      BY <1>1, <2>4, <2>6, <2>7, <2>8 DEF GoodNews
  <1> QED
    BY <1>3, <1>8, <1>9

-----------------------------------------------------------------------------
(* Part 4.  The ledger is kept. *)

\* Steps of the hub, of the network and of the administrator: the clients hold
\* what they held, and read what they had to read or good news.
LEMMA LedgerElsewhere ==
    ASSUME FamilyInv, FamilyInv', Ledger, [SystemNext]_sysVars,
           UNCHANGED <<link, welcomed, known, tried, confirmed>>, Consumes,
           \A d \in Device : \A s \in Sock : link[d] = s =>
              \A f \in PeerFrame : Among(toPeer'[s], f) => Among(toPeer[s], f) \/ GoodNews(f, d)'
    PROVE  Ledger'
  <1>1. ClientTypes
    BY DEF FamilyInv
  <1>2. ASSUME NEW s \in Sock, NEW f, Among(toHub'[s], f)
        PROVE  Among(toHub[s], f)
    <2>1. PICK i \in DOMAIN toHub'[s] : toHub'[s][i] = f
      BY <1>2 DEF Among
    <2>2. \E j \in DOMAIN toHub[s] : toHub'[s][i] = toHub[s][j]
      BY <1>1, ConsumesLess
    <2> QED
      BY <2>1, <2>2 DEF Among
  <1>3. \A x \in confirmed : Kept(x)
    BY DEF Ledger
  <1> QED
    BY <1>2, <1>3, LedgerKept

\* A client that reads: it learns of members only, and counts as confirmed what
\* the hub keeps.
LEMMA LedgerRead ==
    ASSUME FamilyInv, FamilyInv', Ledger, [SystemNext]_sysVars, NEW d \in Device, Read(d)
    PROVE  Ledger'
  <1> DEFINE s == link[d]
             q == toPeer[s]
  <1>1. /\ ClientTypes /\ ClientRead(d) /\ s \in Sock /\ q \in Seq(PeerFrame) /\ q # <<>>
    BY DEF FamilyInv, Read, ClientRead, ClientTypes
  <1>2. PICK f \in PeerFrame : f = Incoming(d) /\ Among(q, f)
    BY <1>1, FirstAndRest, IncomingType DEF Among, ClientRead
  <1>3. GoodNews(f, d)
    BY <1>1, <1>2 DEF Ledger
  <1>4. PICK frames : Answer(d, frames) /\ Send(d, Tail(q), frames)
    BY <1>1, ReadEffect
  <1>5. /\ link' = link /\ \A e \in Device : seen[e] \subseteq seen'[e]
        /\ IF f.t = "welcome" THEN known' = [known EXCEPT ![d] = f.members] ELSE known' = known
    BY <1>1, <1>2, ReadEffect
  <1>6. frames \in Seq(HubFrame) /\ Tail(q) \in Seq(PeerFrame)
    <2>1. ClientTypes'
      BY DEF FamilyInv
    <2> QED
      BY <1>1, <1>4, <2>1, AnswerTypes, FirstAndRest
  <1>7. /\ toPeer'[s] = Tail(q)
        /\ \A t \in Sock \ {s} : toHub'[t] = toHub[t] /\ toPeer'[t] = toPeer[t]
        /\ toHub'[s] = IF Readable(s) THEN toHub[s] \o frames ELSE toHub[s]
    BY <1>1, <1>4, <1>6, SendTypes DEF ClientRead
  <1>8. ASSUME NEW x, Among(frames, x) PROVE x.t # "send"
    <2>1. frames # <<>>
      BY <1>8 DEF Among
    <2>2. CASE frames = <<[t |-> "auth"]>>
      <3>1. x = [t |-> "auth"]
        BY <1>8, <2>2 DEF Among
      <3> QED
        BY <3>1
    <2>3. ASSUME NEW m \in Msg, frames = <<[t |-> "ack", ids |-> {m}]>> PROVE x.t # "send"
      <3>1. x = [t |-> "ack", ids |-> {m}]
        BY <1>8, <2>3 DEF Among
      <3> QED
        BY <3>1
    <2> QED
      BY <1>4, <2>1, <2>2, <2>3 DEF Answer
  <1>9. /\ \/ f.t = "welcome" /\ welcomed' = [welcomed EXCEPT ![d] = TRUE]
              /\ tried' = (IF welcomed[d] THEN tried ELSE [tried EXCEPT ![d] = {}])
           \/ welcomed' = welcomed /\ tried' = tried
        /\ \/ confirmed' = confirmed
           \/ /\ f.t = "sent"
              /\ confirmed' = confirmed \cup {x \in tried[d] : x.msg = f.msgId}
    BY <1>1, <1>2 DEF ClientRead, OnChallenge, OnWelcome, OnDeliver, OnSent, OnError
  <1>10. ASSUME NEW e \in Device, NEW x \in known'[e]
         PROVE  x \in known[e] \/ (x # e /\ Named(x))
    <2>1. x \in known[e] \/ (e = d /\ f.t = "welcome" /\ x \in f.members)
      BY <1>1, <1>5, <1>10 DEF ClientTypes
    <2> QED
      BY <1>3, <2>1 DEF GoodNews, Targets
  <1>11. ASSUME NEW e \in Device PROVE tried'[e] \subseteq tried[e]
    BY <1>1, <1>9 DEF ClientTypes
  <1>12. ASSUME NEW e \in Device, welcomed[e]
         PROVE  welcomed'[e] /\ tried[e] \subseteq tried'[e]
    <2>1. CASE welcomed' = welcomed /\ tried' = tried
      BY <1>12, <2>1
    <2>2. CASE /\ welcomed' = [welcomed EXCEPT ![d] = TRUE]
               /\ tried' = (IF welcomed[d] THEN tried ELSE [tried EXCEPT ![d] = {}])
      <3>1. welcomed'[e] = TRUE
        BY <1>1, <1>12, <2>2 DEF ClientTypes
      <3>2. tried'[e] = tried[e]
        BY <1>1, <1>12, <2>2 DEF ClientTypes
      <3> QED
        BY <3>1, <3>2
    <2> QED
      BY <1>9, <2>1, <2>2
  <1>13. ASSUME NEW e \in Device, NEW t \in Sock, link'[e] = t
         PROVE  /\ \A x \in PeerFrame : Among(toPeer'[t], x) =>
                      (link[e] = t /\ Among(toPeer[t], x)) \/ GoodNews(x, e)'
                /\ \A x \in HubFrame : Among(toHub'[t], x) =>
                      (link[e] = t /\ Among(toHub[t], x)) \/ GoodRequest(x, e)'
    <2>1. link[e] = t
      BY <1>5, <1>13
    <2>2. \A x : Among(toPeer'[t], x) => Among(toPeer[t], x)
      BY <1>1, <1>7, AmongThem
    <2>3. ASSUME NEW x \in HubFrame, Among(toHub'[t], x), ~Among(toHub[t], x)
          PROVE  x.t # "send"
      <3>1. t = s /\ toHub'[s] = toHub[s] \o frames
        BY <1>7, <2>3
      <3>2. toHub[s] \in Seq(HubFrame)
        BY <1>1 DEF ClientTypes
      <3>3. Among(frames, x)
        BY <1>6, <2>3, <3>1, <3>2, AmongThem
      <3> QED
        BY <1>8, <3>3
    <2> QED
      BY <2>1, <2>2, <2>3 DEF GoodRequest
  <1>14. ASSUME NEW x \in confirmed' PROVE x \in confirmed \/ Kept(x)
    <2> SUFFICES ASSUME f.t = "sent", x \in tried[d], x.msg = f.msgId PROVE Kept(x)
      BY <1>9, <1>14
    <2>1. PICK y \in tried[d] : y.msg = f.msgId /\ Kept(y)
      BY <1>3 DEF GoodNews
    <2>2. x = y
      BY <2>1 DEF Ledger
    <2> QED
      BY <2>1, <2>2
  <1> QED
    BY <1>10, <1>11, <1>12, <1>13, <1>14, LedgerKept

\* A client that sends tries the message, for the members it knows.
LEMMA LedgerWrite ==
    ASSUME FamilyInv, FamilyInv', Ledger, [SystemNext]_sysVars, NEW d \in Device,
           NEW m \in Msg, Write(d, m)
    PROVE  Ledger'
  <1> DEFINE s == link[d]
             x == [msg |-> m, to |-> known[d]]
             g == [t |-> "send", msg |-> m, to |-> known[d]]
  <1>1. /\ ClientTypes /\ ClientSend(d, m) /\ s \in Sock /\ s # Null
        /\ toPeer[s] \in Seq(PeerFrame) /\ toHub[s] \in Seq(HubFrame)
    BY DEF FamilyInv, Write, ClientSend, ClientTypes
  <1>2. <<g>> \in Seq(HubFrame)
    BY <1>1, RequestTypes
  <1>3. /\ UNCHANGED <<link, welcomed, known, seen, confirmed>> /\ welcomed[d]
        /\ tried' = [tried EXCEPT ![d] = @ \cup {x}]
        /\ m \notin Messages(tried[d])
        /\ Send(d, toPeer[s], <<g>>)
    BY <1>1 DEF ClientSend, Messages
  <1>4. /\ \A t \in Sock : toPeer'[t] = toPeer[t]
        /\ \A t \in Sock \ {s} : toHub'[t] = toHub[t]
        /\ toHub'[s] = IF Readable(s) THEN toHub[s] \o <<g>> ELSE toHub[s]
    <2> DEFINE frames == <<g>>
    <2>1. frames \in Seq(HubFrame) /\ Send(d, toPeer[s], frames)
      BY <1>2, <1>3
    <2> HIDE DEF frames
    <2>2. /\ toPeer'[s] = toPeer[s]
          /\ \A t \in Sock \ {s} : toHub'[t] = toHub[t] /\ toPeer'[t] = toPeer[t]
          /\ toHub'[s] = IF Readable(s) THEN toHub[s] \o frames ELSE toHub[s]
      BY <1>1, <2>1, SendTypes
    <2> QED
      BY <2>2 DEF frames
  <1>5. \A e \in Device : tried'[e] = IF e = d THEN tried[d] \cup {x} ELSE tried[e]
    BY <1>1, <1>3 DEF ClientTypes
  <1>6. ASSUME NEW e \in Device
        PROVE  \/ tried'[e] \subseteq tried[e]
               \/ \E n \in Msg \ Messages(tried[e]) :
                     tried'[e] = tried[e] \cup {[msg |-> n, to |-> known[e]]}
    BY <1>3, <1>5
  <1>7. \A e, f \in Device : link[e] # Null /\ link[e] = link[f] => e = f
    BY <1>1 DEF FamilyInv, ClientTypes, OneSpeaker, Speaks
  <1>8. ASSUME NEW e \in Device, NEW t \in Sock, link[e] = t, NEW f \in HubFrame,
               Among(toHub'[t], f), ~Among(toHub[t], f)
        PROVE  GoodRequest(f, e)'
    <2>1. t = s /\ toHub'[s] = toHub[s] \o <<g>>
      BY <1>4, <1>8
    <2>2. f = g
      <3> DEFINE p == <<g>>
      <3>1. p \in Seq(HubFrame) /\ toHub'[t] = toHub[t] \o p /\ toHub[t] \in Seq(HubFrame)
        BY <1>1, <1>2, <2>1
      <3> HIDE DEF p
      <3>2. Among(p, f)
        BY <1>8, <3>1, AmongThem
      <3> QED
        BY <1>1, <3>2, AmongThem DEF p
    <2>3. e = d
      BY <1>1, <1>7, <1>8, <2>1
    <2>4. f.t = "send" /\ f.msg = m /\ f.to = known[d]
      BY <2>2
    <2>5. [msg |-> f.msg, to |-> f.to] \in tried'[d] /\ welcomed'[d]
      BY <1>3, <1>5, <2>4
    <2> QED
      BY <2>3, <2>5 DEF GoodRequest
  <1>9. \A y \in confirmed : Kept(y)
    BY DEF Ledger
  <1> HIDE DEF x, g, s
  <1> QED
    BY <1>3, <1>4, <1>5, <1>6, <1>8, <1>9, LedgerKept

\* A new connection: nothing is under way but the hello.
LEMMA LedgerOpen ==
    ASSUME FamilyInv, FamilyInv', Ledger, [SystemNext]_sysVars, NEW d \in Device, Open(d)
    PROVE  Ledger'
  <1>1. ClientTypes
    BY DEF FamilyInv
  <1>2. PICK s \in Sock : ClientConnect(d, s)
    BY DEF Open
  <1> DEFINE h == [t |-> "hello", deviceId |-> d]
  <1>3. /\ UNCHANGED <<welcomed, known, tried, confirmed>>
        /\ link' = [link EXCEPT ![d] = s] /\ \A e \in Device : link[e] # s
        /\ toHub' = [toHub EXCEPT ![s] = <<h>>] /\ toPeer' = [toPeer EXCEPT ![s] = <<>>]
    BY <1>2 DEF ClientConnect
  <1>4. h.t # "send"
    OBVIOUS
  <1> HIDE DEF h
  <1>5. /\ toHub'[s] = <<h>> /\ toPeer'[s] = <<>>
        /\ \A t \in Sock \ {s} : toHub'[t] = toHub[t] /\ toPeer'[t] = toPeer[t]
        /\ \A e \in Device \ {d} : link'[e] = link[e]
        /\ link'[d] = s
    BY <1>1, <1>3 DEF ClientTypes
  <1>6. ASSUME NEW e \in Device, NEW t \in Sock, link'[e] = t
        PROVE  /\ \A f \in PeerFrame : Among(toPeer'[t], f) =>
                     (link[e] = t /\ Among(toPeer[t], f)) \/ GoodNews(f, e)'
               /\ \A f \in HubFrame : Among(toHub'[t], f) =>
                     (link[e] = t /\ Among(toHub[t], f)) \/ GoodRequest(f, e)'
    <2>1. CASE t = s
      <3>1. \A f : ~Among(toPeer'[t], f)
        BY <1>5, <2>1 DEF Among
      <3>2. \A f : Among(toHub'[t], f) => f = h
        BY <1>5, <2>1 DEF Among
      <3> QED
        BY <1>4, <3>1, <3>2 DEF GoodRequest
    <2>2. CASE t # s
      BY <1>5, <1>6, <2>2
    <2> QED
      BY <2>1, <2>2
  <1>7. \A y \in confirmed : Kept(y)
    BY DEF Ledger
  <1>8. /\ \A e \in Device : \A x \in known'[e] : x \in known[e] \/ (x # e /\ Named(x))
        /\ \A e \in Device : tried'[e] \subseteq tried[e]
        /\ \A e \in Device : welcomed[e] => welcomed'[e] /\ tried[e] \subseteq tried'[e]
    BY <1>3
  <1> QED
    BY <1>3, <1>6, <1>7, <1>8, LedgerKept

\* A connection is gone for the client, with all that was on its way to it.
LEMMA LedgerDown ==
    ASSUME FamilyInv, FamilyInv', Ledger, [SystemNext]_sysVars, NEW d \in Device, ClientDown(d)
    PROVE  Ledger'
  <1>1. ClientTypes
    BY DEF FamilyInv
  <1>2. /\ link' = [link EXCEPT ![d] = Null] /\ welcomed' = [welcomed EXCEPT ![d] = FALSE]
        /\ toPeer' = [toPeer EXCEPT ![link[d]] = <<>>]
        /\ UNCHANGED <<known, tried, confirmed, toHub>>
    BY DEF ClientDown
  <1>3. \A t \in Sock : toPeer'[t] = toPeer[t] \/ toPeer'[t] = <<>>
    BY <1>1, <1>2 DEF ClientTypes
  <1>4. /\ link'[d] = Null
        /\ \A e \in Device \ {d} : link'[e] = link[e] /\ welcomed'[e] = welcomed[e]
    BY <1>1, <1>2 DEF ClientTypes
  <1>5. ASSUME NEW e \in Device, NEW t \in Sock, link'[e] = t
        PROVE  /\ \A f \in PeerFrame : Among(toPeer'[t], f) =>
                     (link[e] = t /\ Among(toPeer[t], f)) \/ GoodNews(f, e)'
               /\ \A f \in HubFrame : Among(toHub'[t], f) =>
                     (link[e] = t /\ Among(toHub[t], f)) \/ GoodRequest(f, e)'
    <2>1. link[e] = t
      BY <1>4, <1>5, SockAssumption
    <2>2. \A f : Among(toPeer'[t], f) => Among(toPeer[t], f)
      BY <1>3 DEF Among
    <2> QED
      BY <1>2, <2>1, <2>2
  <1>6. \A y \in confirmed : Kept(y)
    BY DEF Ledger
  <1>7. /\ \A e \in Device : \A x \in known'[e] : x \in known[e] \/ (x # e /\ Named(x))
        /\ \A e \in Device : tried'[e] \subseteq tried[e]
        /\ \A e \in Device : welcomed[e] /\ link'[e] # Null =>
              welcomed'[e] /\ tried[e] \subseteq tried'[e]
    BY <1>2, <1>4
  <1> QED
    BY <1>2, <1>5, <1>6, <1>7, LedgerKept

\* No step of the family loses a confirmed message.
LEMMA LedgerStep ==
    ASSUME FamilyInv, FamilyInv', Ledger, [SystemNext]_sysVars
    PROVE  Ledger'
  <1>1. ClientTypes /\ Inv /\ TableInv
    BY DEF FamilyInv, HubInv
  <1>2. ASSUME UNCHANGED <<link, welcomed, known, tried, confirmed, toPeer>>, Consumes
        PROVE  Ledger'
    BY <1>2, LedgerElsewhere
  <1>3. ASSUME NEW s \in Sock, HubReceive(s) \/ Close(s)
        PROVE  Ledger'
    <2>1. /\ UNCHANGED <<link, welcomed, known, tried, confirmed>> /\ Transmit
          /\ toHub' = toHub \/ (toHub[s] # <<>> /\ toHub' = [toHub EXCEPT ![s] = Tail(@)])
      BY <1>3 DEF HubReceive, Close
    <2>2. Consumes
      BY <1>1, <2>1 DEF Consumes, ClientTypes
    <2>3. ASSUME NEW d \in Device, NEW t \in Sock, link[d] = t, NEW f \in PeerFrame,
                 Among(toPeer'[t], f)
          PROVE  Among(toPeer[t], f) \/ GoodNews(f, d)'
      <3>1. toPeer'[t] = toPeer[t] \o OnWire(out'[t])
        BY <2>1, <2>3 DEF Transmit, Linked
      <3>2. News(t)
        BY <1>1, <1>3, Received, MessageNews, CloseNews, UnaskedNews DEF Close
      <3>3. OnWire(out'[t]) \in Seq(PeerFrame) /\ toPeer[t] \in Seq(PeerFrame)
        <4>1. outbox' \subseteq Row
          BY DEF FamilyInv, HubInv, TableInv, Table
        <4> QED
          BY <1>1, <3>2, <4>1, WireTypes DEF ClientTypes
      <3>4. Among(toPeer[t], f) \/ Among(OnWire(out'[t]), f)
        BY <2>3, <3>1, <3>3, AmongThem
      <3> QED
        BY <1>3, <2>3, <3>4, TransmitGood
    <2> QED
      BY <2>1, <2>2, <2>3, LedgerElsewhere
  <1>4. ASSUME NEW s \in Sock, toHub' = [toHub EXCEPT ![s] = <<>>],
               UNCHANGED <<link, welcomed, known, tried, confirmed, toPeer>>
        PROVE  Ledger'
    BY <1>1, <1>2, <1>4 DEF Consumes, ClientTypes
  <1>5. ASSUME toHub' = [s \in Sock |-> <<>>],
               UNCHANGED <<link, welcomed, known, tried, confirmed, toPeer>>
        PROVE  Ledger'
    BY <1>2, <1>5 DEF Consumes
  <1>6. ASSUME UNCHANGED clientVars
        PROVE  Ledger'
    BY <1>2, <1>6 DEF Consumes, clientVars
  <1>7. CASE \E s \in Sock : HubEnds(s)
    BY <1>4, <1>7 DEF HubEnds
  <1>8. CASE Resume
    BY <1>5, <1>8 DEF Resume
  <1>9. CASE Break
    BY <1>4, <1>5, <1>6, <1>9, LedgerDown DEF Break
  <1>10. CASE Administer \/ Purge \/ UNCHANGED sysVars
    BY <1>6, <1>10 DEF Administer, Purge, clientVars, sysVars
  <1>11. CASE \E d \in Device : \/ Open(d) \/ Read(d) \/ ClientEnds(d)
                                \/ \E m \in Msg : Write(d, m)
    BY <1>11, LedgerOpen, LedgerRead, LedgerDown, LedgerWrite DEF ClientEnds
  <1> QED
    BY <1>3, <1>7, <1>8, <1>9, <1>10, <1>11 DEF SystemNext

\* What the hub has confirmed to a sender is done (router.js handleSend, `sent' after
\* COMMIT): each member the message was encrypted for has taken it, or the hub still
\* holds it for him, unless he was removed.
THEOREM ConfirmedAreKept == SystemSpec => []ConfirmedIsKept
  <1>1. SystemInit => Ledger
    BY SockAssumption DEF SystemInit, Init, ClientInit, Ledger, Targets
  <1>2. FamilyInv /\ FamilyInv' /\ Ledger /\ [SystemNext]_sysVars => Ledger'
    BY LedgerStep
  <1>3. Ledger => ConfirmedIsKept
    BY DEF Ledger, Kept, ConfirmedIsKept
  <1> QED
    BY <1>1, <1>2, <1>3, FamilyAlways, PTL DEF SystemSpec
=============================================================================
