--------------------------- MODULE ProcessProofs ---------------------------
(***************************************************************************)
(* What module Process says of time and addresses holds for any number of  *)
(* connections and any intervals, as long as a pong is faster than a beat. *)
(***************************************************************************)
EXTENDS Process, TLAPS, SequenceTheorems, WellFoundedInduction

\* A vanished peer has been silent for no longer than the beats it survived.
Overdue(k) ==
    k.silent # None => k.silent + beat <= IF k.alive THEN Interval ELSE 2 * Interval

\* A pong is under way for whoever is not marked alive, and will be in time.
Expected(k) ==
    (k.silent = None /\ k.open /\ ~k.alive)
        => k.answer # None /\ k.answer + Interval <= beat + RoundTrip

Sound(k) ==
    /\ k.served <=> (setting.requireTailscale => InTailnet(k.ip))
    /\ k.open => k.served
    /\ k.answer # None => k.silent = None
    /\ phase = "listening" => Overdue(k) /\ Expected(k)
    /\ phase = "closing" => ~k.open /\ closing + k.closeIn <= CloseTimeout

ConnectionsSound == \A c \in Live : Sound(client[c])

Phases ==
    /\ phase \in {"starting", "bound", "draining", "sleeping"} => Live = {}
    /\ phase # "closing" => closing = 0
    /\ closing <= CloseTimeout

Inv == TypeOK /\ NeverWider /\ ConnectionsSound /\ Phases

-----------------------------------------------------------------------------
\* isTailscaleIp and the first ten bits agree, in either notation.
LEMMA TailnetRange ==
    ASSUME NEW ip \in Address
    PROVE  IsTailscaleIp(ip) <=> InTailnet(ip)
<1> DEFINE o == ip.dotted
<1>1. ip.prefix \in {"none", "mapped", "other"} /\ o \in Seq(Nat) /\ ip # None
  BY AddressAssumption DEF Address
<1>2. TenBits(<<100, 64, 0, 0>>) = 401
  BY SMT DEF TenBits
<1>3. CASE ip.prefix = "other"
  BY <1>3 DEF IsTailscaleIp, InTailnet, Parts
<1>4. CASE ip.prefix # "other"
  <2>1. Parts(ip) = o
    BY <1>4 DEF Parts
  <2>2. ASSUME NEW a \in 0..255, NEW b \in 0..255
        PROVE  (a * 256 + b) \div 64 = 401 <=> a = 100 /\ b \in 64..127
    BY SMT
  <2>3. ASSUME IsTailscaleIp(ip) PROVE InTailnet(ip)
    <3>1. Len(o) = 4 /\ (\A i \in 1..4 : o[i] \in 0..255) /\ o[1] = 100 /\ o[2] \in 64..127
      BY <2>1, <2>3 DEF IsTailscaleIp
    <3>2. o \in Octets
      BY <1>1, <3>1 DEF Octets
    <3>3. TenBits(o) = 401
      BY <2>2, <3>1 DEF TenBits
    <3> QED BY <1>1, <1>2, <1>4, <3>2, <3>3 DEF InTailnet
  <2>4. ASSUME InTailnet(ip) PROVE IsTailscaleIp(ip)
    <3>1. o \in Octets /\ TenBits(o) = 401
      BY <1>2, <2>4 DEF InTailnet
    <3>2. DOMAIN o = 1..4 /\ \A i \in 1..4 : o[i] \in 0..255
      BY <3>1 DEF Octets
    <3>3. Len(o) = 4
      <4> DEFINE n == Len(o)
      <4>1. n \in Nat /\ 1..n = 1..4
        BY <1>1, <3>2, LenProperties
      <4> HIDE DEF n
      <4>2. 4 \in 1..n /\ 5 \notin 1..n
        BY <4>1, 4 \in 1..4, 5 \notin 1..4
      <4>3. n = 4
        BY <4>1, <4>2
      <4> QED BY <4>3 DEF n
    <3>4. (o[1] * 256 + o[2]) \div 64 = 401
      BY <3>1 DEF TenBits
    <3>5. o[1] \in 0..255 /\ o[2] \in 0..255
      BY <3>2
    <3>6. o[1] = 100 /\ o[2] \in 64..127
      <4> DEFINE a == o[1]
                 b == o[2]
      <4>1. a \in 0..255 /\ b \in 0..255 /\ (a * 256 + b) \div 64 = 401
        BY <3>4, <3>5
      <4> HIDE DEF a, b
      <4>2. a = 100 /\ b \in 64..127
        BY <2>2, <4>1
      <4> QED BY <4>2 DEF a, b
    <3> QED BY <1>1, <2>1, <3>2, <3>3, <3>6 DEF IsTailscaleIp
  <2> QED BY <2>3, <2>4
<1> QED BY <1>3, <1>4

\* findTailscaleAddress finds an address of the tailnet or none.
LEMMA FoundInTailnet ==
    ASSUME NEW net \in Network, FindTailscaleAddress(net) # None
    PROVE  /\ FindTailscaleAddress(net) \in Address
           /\ InTailnet(FindTailscaleAddress(net))
<1> DEFINE found == {i \in DOMAIN net : /\ net[i].family = "IPv4"
                                        /\ IsTailscaleIp(net[i].address)}
           first == CHOOSE i \in found : \A j \in found : i <= j
<1>1. net \in Seq(Interface)
  BY AddressAssumption
<1>2. DOMAIN net \subseteq Nat /\ \A i \in DOMAIN net : net[i] \in Interface
  BY <1>1, LenProperties
<1>3. found # {} /\ FindTailscaleAddress(net) = net[first].address
  BY DEF FindTailscaleAddress
<1>4. found \in SUBSET Nat
  BY <1>2
<1>5. \E i \in found : \A j \in found : i <= j
  <2> HIDE DEF found
  <2>1. IsWellFoundedOn(OpToRel(<, Nat), Nat)
    BY NatLessThanWellFounded
  <2>2. PICK i \in found : \A j \in found : <<j, i>> \notin OpToRel(<, Nat)
    BY <1>3, <1>4, <2>1, WFMin
  <2>3. \A j \in found : ~ (j < i)
    BY <1>4, <2>2 DEF OpToRel
  <2> QED BY <1>4, <2>3
<1>6. first \in found
  <2> HIDE DEF found
  <2> QED BY <1>5
<1>7. net[first].address \in Address /\ IsTailscaleIp(net[first].address)
  <2> HIDE DEF first
  <2> QED BY <1>2, <1>6 DEF Interface
<1> QED BY <1>3, <1>7, TailnetRange

LEMMA ResolvedHost ==
    ASSUME TypeOK, ResolveBindHost(setting, ifaces) # None
    PROVE  /\ ResolveBindHost(setting, ifaces) \in Address
           /\ setting.tailscaleOnly => InTailnet(ResolveBindHost(setting, ifaces))
<1>1. setting \in Settings /\ ifaces \in Network
  BY AddressAssumption DEF TypeOK
<1> QED BY <1>1, FoundInTailnet DEF ResolveBindHost, Settings

-----------------------------------------------------------------------------
USE TimeAssumption, AddressAssumption, ConnectionAssumption, NoneAssumption

LEMMA InvInit == ProcessInit => Inv
<1> SUFFICES ASSUME ProcessInit PROVE Inv
  OBVIOUS
<1>1. TypeOK /\ NeverWider
  BY DEF ProcessInit, TypeOK, NeverWider
<1>2. Live = {}
  BY DEF ProcessInit, Live
<1> QED BY <1>1, <1>2 DEF ProcessInit, Inv, ConnectionsSound, Phases

\* However the process ends, nothing of it is left.
LEMMA InvExit ==
    ASSUME Inv, NEW code \in {0, 1, 78}, Exit(code),
           ifaces' \in Network, upsets' \in 0..MaxUpsets
    PROVE  Inv'
<1>1. phase' = "sleeping" /\ sleep' \in Nat
  BY DEF Exit, Supervised
<1>2. TypeOK'
  BY <1>1 DEF Inv, TypeOK, Exit
<1>3. Live' = {}
  BY DEF Exit, Live
<1>4. NeverWider'
  BY DEF Exit, NeverWider
<1> QED BY <1>1, <1>2, <1>3, <1>4 DEF Inv, ConnectionsSound, Phases, Exit

\* An event of one connection: what is left of it has to be sound.
LEMMA InvClientStep ==
    ASSUME Inv, NEW c \in Client, NEW k \in Connection \cup {None},
           c \in Live \/ phase = "listening",
           k # None => Sound(k), ClientStep(c, k), raw' \subseteq Tcp
    PROVE  Inv'
<1>1. TypeOK'
  BY DEF Inv, TypeOK, ClientStep
<1>2. NeverWider'
  BY DEF Inv, NeverWider, ClientStep
<1>3. ConnectionsSound'
  <2> SUFFICES ASSUME NEW d \in Live' PROVE Sound(client[d])'
    BY DEF ConnectionsSound
  <2>1. client' = [client EXCEPT ![c] = k] /\ client \in [Client -> Connection \cup {None}]
    BY DEF Inv, TypeOK, ClientStep
  <2>2. \/ client'[d] = k /\ k # None
        \/ d \in Live /\ client'[d] = client[d]
    BY <2>1 DEF Live
  <2>3. Sound(client'[d])
    BY <2>2 DEF Inv, ConnectionsSound
  <2>4. UNCHANGED <<setting, phase, beat, closing>>
    BY DEF ClientStep
  <2> QED BY <2>3, <2>4 DEF Sound, Overdue, Expected
<1>4. Phases'
  BY DEF Inv, Phases, ClientStep, Live
<1> QED BY <1>1, <1>2, <1>3, <1>4 DEF Inv

\* What the invariant says of one connection.
LEMMA LiveConnection ==
    ASSUME Inv, NEW c \in Live
    PROVE  c \in Client /\ client[c] \in Connection /\ client[c] # None /\ Sound(client[c])
BY DEF Inv, TypeOK, ConnectionsSound, Live

-----------------------------------------------------------------------------
LEMMA InvStart ==
    ASSUME Inv, Resolve \/ Listen \/ Wake
    PROVE  Inv'
<1>1. ASSUME Resolve PROVE Inv'
  <2> DEFINE found == ResolveBindHost(setting, ifaces)
  <2>1. UNCHANGED <<ifaces, upsets>> /\ phase = "starting"
    BY <1>1 DEF Resolve
  <2>2. CASE found = None
    BY <1>1, <2>1, <2>2, InvExit DEF Resolve, Inv, TypeOK
  <2>3. CASE found # None
    <3>1. /\ phase' = "bound"
          /\ host' = found
          /\ UNCHANGED <<setting, ifaces, client, raw, beat, sleep, closing, upsets>>
      BY <1>1, <2>3 DEF Resolve
    <3>2. found \in Address /\ (setting.tailscaleOnly => InTailnet(found))
      BY <2>3, ResolvedHost DEF Inv
    <3> HIDE DEF found
    <3>3. TypeOK' /\ NeverWider'
      BY <3>1, <3>2 DEF Inv, TypeOK, NeverWider
    <3>4. Live = {} /\ Live' = Live
      BY <2>1, <3>1 DEF Inv, Phases, Live
    <3> QED BY <2>1, <3>1, <3>3, <3>4 DEF Inv, Phases, ConnectionsSound
  <2> QED BY <2>2, <2>3
<1>2. ASSUME Listen PROVE Inv'
  <2>1. CASE Exit(1)
    BY <1>2, <2>1, InvExit DEF Listen, Inv, TypeOK
  <2>2. CASE phase' = "listening"
    <3>1. /\ phase = "bound" /\ beat' = Interval
          /\ UNCHANGED <<setting, ifaces, host, client, raw, sleep, closing, upsets>>
      BY <1>2, <2>2 DEF Listen, Exit, Supervised
    <3>2. TypeOK' /\ NeverWider'
      BY <2>2, <3>1 DEF Inv, TypeOK, NeverWider
    <3>3. Live = {} /\ Live' = Live
      BY <3>1 DEF Inv, Phases, Live
    <3> QED BY <2>2, <3>1, <3>2, <3>3 DEF Inv, Phases, ConnectionsSound
  <2> QED BY <1>2, <2>1, <2>2 DEF Listen
<1>3. ASSUME Wake PROVE Inv'
  <2>1. TypeOK' /\ NeverWider'
    BY <1>3 DEF Wake, Inv, TypeOK, NeverWider
  <2>2. Live = {} /\ Live' = Live
    BY <1>3 DEF Wake, Inv, Phases, Live
  <2> QED BY <1>3, <2>1, <2>2 DEF Wake, Inv, Phases, ConnectionsSound
<1> QED BY <1>1, <1>2, <1>3

LEMMA ClosedFields ==
    ASSUME NEW k \in Connection
    PROVE  /\ Closed(k) \in Connection
           /\ ~Closed(k).open
           /\ Closed(k).ip = k.ip /\ Closed(k).served = k.served
           /\ Closed(k).alive = k.alive /\ Closed(k).answer = k.answer
           /\ Closed(k).closeIn = k.closeIn /\ Closed(k).silent = k.silent
BY DEF Closed, Connection

LEMMA NewFields ==
    ASSUME NEW ip \in PeerAddress, NEW served \in BOOLEAN
    PROVE  LET k == NewClient(ip, served)
           IN  /\ k \in Connection
               /\ k.ip = ip /\ k.served = served /\ k.open /\ k.alive
               /\ k.answer = None /\ k.silent = None
BY DEF NewClient, Connection

LEMMA InvAccept ==
    ASSUME Inv, NEW c \in Client, NEW ip \in PeerAddress, NEW t \in Tcp, Accept(c, ip, t)
    PROVE  Inv'
<1>1. phase = "listening" /\ raw' \subseteq Tcp
  BY DEF Accept, Inv, TypeOK
<1>2. Served(ip) <=> (setting.requireTailscale => InTailnet(ip))
  BY TailnetRange DEF Served
<1>3. CASE Served(ip)
  <2> DEFINE k == NewClient(ip, TRUE)
  <2>1. ClientStep(c, k)
    BY <1>3 DEF Accept
  <2>2. /\ k \in Connection
        /\ k.ip = ip /\ k.served = TRUE /\ k.open /\ k.alive
        /\ k.answer = None /\ k.silent = None
    BY NewFields
  <2> HIDE DEF k
  <2>3. Sound(k)
    BY <1>1, <1>2, <1>3, <2>2 DEF Sound, Overdue, Expected
  <2> QED BY <1>1, <2>1, <2>2, <2>3, InvClientStep
<1>4. CASE ~Served(ip)
  <2> DEFINE n == NewClient(ip, FALSE)
             k == Closed(n)
  <2>1. ClientStep(c, k)
    BY <1>4 DEF Accept
  <2>2. /\ n \in Connection
        /\ n.ip = ip /\ n.served = FALSE
        /\ n.answer = None /\ n.silent = None
    BY NewFields
  <2> HIDE DEF n
  <2>3. /\ k \in Connection
        /\ k.ip = ip /\ k.served = FALSE /\ ~k.open
        /\ k.answer = None /\ k.silent = None
    BY <2>2, ClosedFields
  <2> HIDE DEF k
  <2>4. Sound(k)
    BY <1>1, <1>2, <1>4, <2>3 DEF Sound, Overdue, Expected
  <2> QED BY <1>1, <2>1, <2>3, <2>4, InvClientStep
<1> QED BY <1>3, <1>4

\* The events of one connection that is there already.
LEMMA InvClient ==
    ASSUME Inv, NEW c \in Client,
           HubCloses(c) \/ PeerEnds(c) \/ Vanish(c) \/ OnPong(c) \/ CloseTimer(c)
    PROVE  Inv'
<1>1. c \in Live /\ raw' \subseteq Tcp
  BY DEF HubCloses, PeerEnds, Vanish, OnPong, CloseTimer, Inv, TypeOK
<1> DEFINE k == client[c]
<1>2. k \in Connection /\ k # None /\ Sound(k)
  BY <1>1, LiveConnection
<1>3. CASE PeerEnds(c) \/ CloseTimer(c)
  BY <1>1, <1>3, InvClientStep DEF PeerEnds, CloseTimer
<1>4. CASE HubCloses(c)
  <2>1. ClientStep(c, Closed(k)) /\ k.open
    BY <1>4 DEF HubCloses
  <2> HIDE DEF k
  <2>2. phase # "closing"
    BY <1>2, <2>1 DEF Sound
  <2>3. Closed(k) \in Connection /\ Sound(Closed(k))
    BY <1>2, <2>2, ClosedFields DEF Sound, Overdue, Expected
  <2> QED BY <1>1, <2>1, <2>3, InvClientStep
<1>5. CASE Vanish(c)
  <2> DEFINE v == [k EXCEPT !.silent = 0, !.answer = None]
  <2>1. ClientStep(c, v)
    BY <1>5 DEF Vanish
  <2> HIDE DEF k
  <2>2. /\ v \in Connection
        /\ v.ip = k.ip /\ v.served = k.served /\ v.open = k.open
        /\ v.alive = k.alive /\ v.closeIn = k.closeIn
        /\ v.silent = 0 /\ v.answer = None
    BY <1>2 DEF Connection
  <2> HIDE DEF v
  <2>3. beat \in 0..Interval /\ 0 # None
    BY DEF Inv, TypeOK
  <2>4. Sound(v)
    BY <1>2, <2>2, <2>3 DEF Sound, Overdue, Expected
  <2> QED BY <1>1, <2>1, <2>2, <2>4, InvClientStep
<1>6. CASE OnPong(c)
  <2>1. ClientStep(c, Answered(k)) /\ k.answer # None
    BY <1>6 DEF OnPong
  <2> HIDE DEF k
  <2> DEFINE a == Answered(k)
  <2>2. /\ a \in Connection
        /\ a.ip = k.ip /\ a.served = k.served /\ a.open = k.open
        /\ a.alive = (k.alive \/ k.served) /\ a.closeIn = k.closeIn
        /\ a.silent = k.silent /\ a.answer = None
    BY <1>2 DEF Answered, Connection
  <2> HIDE DEF a
  <2>3. Sound(a)
    BY <1>2, <2>1, <2>2 DEF Sound, Overdue, Expected
  <2> QED BY <1>1, <2>1, <2>2, <2>3, InvClientStep DEF a
<1> QED BY <1>3, <1>4, <1>5, <1>6

LEMMA BeatenFields ==
    ASSUME NEW k \in Connection, k.alive
    PROVE  LET b == Beaten(k)
           IN  /\ b \in Connection
               /\ b.ip = k.ip /\ b.served = k.served /\ b.open = k.open
               /\ b.alive = FALSE /\ b.closeIn = k.closeIn /\ b.silent = k.silent
               /\ b.answer = IF k.open /\ k.silent = None THEN RoundTrip ELSE k.answer
<1> DEFINE a == IF k.open /\ k.silent = None THEN RoundTrip ELSE k.answer
<1>1. a \in (0..RoundTrip) \cup {None}
  BY DEF Connection
<1>2. Beaten(k) = [k EXCEPT !.alive = FALSE, !.answer = a]
  BY DEF Beaten
<1> HIDE DEF a
<1>3. LET b == Beaten(k)
      IN  /\ b \in Connection
          /\ b.ip = k.ip /\ b.served = k.served /\ b.open = k.open
          /\ b.alive = FALSE /\ b.closeIn = k.closeIn /\ b.silent = k.silent
          /\ b.answer = a
  BY <1>1, <1>2 DEF Connection
<1> QED BY <1>3 DEF a

\* The heartbeat: the next one is an interval away for all that are left.
LEMMA InvHeartbeat ==
    ASSUME Inv, Heartbeat
    PROVE  Inv'
<1>1. /\ phase = "listening" /\ phase' = phase /\ beat = 0 /\ beat' = Interval
      /\ UNCHANGED <<setting, ifaces, host, raw, sleep, closing, upsets>>
  BY DEF Heartbeat
<1>2. client' = [c \in Client |-> IF c \in Live THEN Beaten(client[c]) ELSE None]
  BY DEF Heartbeat
<1>3. ASSUME NEW c \in Live, client'[c] # None
      PROVE  client'[c] \in Connection /\ Sound(client[c])'
  <2> DEFINE k == client[c]
             b == client'[c]
  <2>1. k \in Connection /\ Sound(k) /\ b = Beaten(k)
    BY <1>2, LiveConnection
  <2>2. k.alive
    BY <1>3, <2>1 DEF Beaten
  <2> HIDE DEF k
  <2>3. /\ b \in Connection
        /\ b.ip = k.ip /\ b.served = k.served /\ b.open = k.open
        /\ b.alive = FALSE /\ b.closeIn = k.closeIn /\ b.silent = k.silent
        /\ b.answer = IF k.open /\ k.silent = None THEN RoundTrip ELSE k.answer
    <3> HIDE DEF b
    <3> QED BY <2>1, <2>2, BeatenFields
  <2>4. Sound(client[c])'
    <3> HIDE DEF b
    <3>1. k.silent # None => k.silent \in Nat /\ k.silent <= Interval
      BY <1>1, <2>1, <2>2 DEF Sound, Overdue, Connection
    <3>2. RoundTrip # None
      OBVIOUS
    <3>3. \A x : x = b => (x.served <=> (setting'.requireTailscale => InTailnet(x.ip)))
      BY <1>1, <2>1, <2>3 DEF Sound
    <3>4. b.open => b.served
      BY <2>1, <2>3 DEF Sound
    <3>5. b.answer # None => b.silent = None
      BY <2>1, <2>3 DEF Sound
    <3>6. b.silent # None => b.silent + Interval <= 2 * Interval
      BY <2>3, <3>1
    <3>7. (b.silent = None /\ b.open) => b.answer # None /\ b.answer + Interval <= Interval + RoundTrip
      BY <2>3, <3>2
    <3> QED BY <1>1, <2>3, <3>3, <3>4, <3>5, <3>6, <3>7 DEF Sound, Overdue, Expected, b
  <2> QED BY <2>3, <2>4
<1>4. TypeOK'
  <2>1. client' \in [Client -> Connection \cup {None}]
    BY <1>2, <1>3
  <2> QED BY <1>1, <2>1 DEF Inv, TypeOK
<1>5. ConnectionsSound'
  BY <1>2, <1>3 DEF ConnectionsSound, Live
<1> QED BY <1>1, <1>4, <1>5 DEF Inv, NeverWider, Phases

\* close(): every connection is closing now, and its timer runs.
LEMMA InvSignal ==
    ASSUME Inv, Signal
    PROVE  Inv'
<1>1. /\ phase = "listening" /\ phase' = "closing" /\ upsets' = upsets - 1 /\ upsets > 0
      /\ UNCHANGED <<setting, ifaces, host, raw, beat, sleep, closing>>
      /\ client' = [c \in Client |-> IF c \in Live THEN Closed(client[c]) ELSE None]
  BY DEF Signal, Upset, ClientsClosed
<1>2. closing = 0
  BY <1>1 DEF Inv, Phases
<1>3. ASSUME NEW c \in Live
      PROVE  client'[c] \in Connection /\ Sound(client[c])'
  <2> DEFINE k == client[c]
             b == client'[c]
  <2>1. k \in Connection /\ Sound(k) /\ b = Closed(k)
    BY <1>1, LiveConnection
  <2>2. /\ b \in Connection /\ ~b.open
        /\ b.ip = k.ip /\ b.served = k.served
        /\ b.answer = k.answer /\ b.closeIn = k.closeIn /\ b.silent = k.silent
    <3> HIDE DEF k, b
    <3> QED BY <2>1, ClosedFields
  <2>3. b.closeIn \in 0..CloseTimeout
    BY <2>2 DEF Connection
  <2> QED BY <1>1, <1>2, <2>1, <2>2, <2>3 DEF Sound
<1>4. TypeOK'
  <2>1. client' \in [Client -> Connection \cup {None}]
    BY <1>1, <1>3
  <2>2. upsets' \in 0..MaxUpsets
    BY <1>1 DEF Inv, TypeOK
  <2> QED BY <1>1, <2>1, <2>2 DEF Inv, TypeOK
<1>5. ConnectionsSound'
  BY <1>1, <1>3 DEF ConnectionsSound, Live
<1> QED BY <1>1, <1>2, <1>4, <1>5 DEF Inv, NeverWider, Phases

LEMMA InvEnd ==
    ASSUME Inv, Drain \/ Stopped \/ Crash \/ NetworkChange
    PROVE  Inv'
<1>1. CASE Stopped
  BY <1>1, InvExit DEF Stopped, Inv, TypeOK
<1>2. CASE Crash
  <2>1. upsets' \in 0..MaxUpsets
    BY <1>2 DEF Crash, Upset, Inv, TypeOK
  <2> QED BY <1>2, <2>1, InvExit DEF Crash, Inv, TypeOK
<1>3. CASE Drain
  <2>1. /\ phase' = "draining" /\ closing' = 0 /\ Live = {}
        /\ UNCHANGED <<setting, ifaces, host, client, raw, beat, sleep, upsets>>
    BY <1>3 DEF Drain
  <2>2. TypeOK' /\ NeverWider' /\ Live' = {}
    BY <2>1 DEF Inv, TypeOK, NeverWider, Live
  <2> QED BY <2>1, <2>2 DEF Inv, ConnectionsSound, Phases
<1>4. CASE NetworkChange
  <2>1. /\ ifaces' \in Network /\ upsets' \in 0..MaxUpsets
        /\ UNCHANGED <<setting, phase, host, client, raw, beat, sleep, closing>>
    BY <1>4 DEF NetworkChange, Upset, Inv, TypeOK
  <2>2. TypeOK' /\ NeverWider' /\ Phases'
    BY <2>1 DEF Inv, TypeOK, NeverWider, Phases, Live
  <2>3. ConnectionsSound'
    BY <2>1 DEF Inv, ConnectionsSound, Live, Sound, Overdue, Expected
  <2> QED BY <2>2, <2>3 DEF Inv
<1> QED BY <1>1, <1>2, <1>3, <1>4

\* A TCP connection that is no client's comes or goes.
LEMMA InvHttp ==
    ASSUME Inv, NEW t \in Tcp, Connect(t) \/ HttpEnds(t)
    PROVE  Inv'
<1>1. /\ raw' \subseteq Tcp
      /\ UNCHANGED <<setting, ifaces, phase, host, client, beat, sleep, closing, upsets>>
  BY DEF Connect, HttpEnds, Inv, TypeOK
<1>2. TypeOK' /\ NeverWider' /\ Phases'
  BY <1>1 DEF Inv, TypeOK, NeverWider, Phases, Live
<1>3. ConnectionsSound'
  BY <1>1 DEF Inv, ConnectionsSound, Live, Sound, Overdue, Expected
<1> QED BY <1>2, <1>3 DEF Inv

LEMMA AgedFields ==
    ASSUME NEW k \in Connection,
           k.answer # 0, k.open \/ k.closeIn # 0
    PROVE  LET a == Aged(k)
           IN  /\ a \in Connection
               /\ a.ip = k.ip /\ a.served = k.served /\ a.open = k.open
               /\ a.alive = k.alive
               /\ a.answer = IF k.answer = None THEN None ELSE k.answer - 1
               /\ a.closeIn = IF k.open THEN k.closeIn ELSE k.closeIn - 1
               /\ a.silent = IF k.silent = None THEN None ELSE k.silent + 1
<1> DEFINE x == IF k.answer = None THEN None ELSE k.answer - 1
           y == IF k.open THEN k.closeIn ELSE k.closeIn - 1
           z == IF k.silent = None THEN None ELSE k.silent + 1
<1>1. x \in (0..RoundTrip) \cup {None} /\ y \in 0..CloseTimeout /\ z \in Nat \cup {None}
  BY DEF Connection
<1>2. Aged(k) = [k EXCEPT !.answer = x, !.closeIn = y, !.silent = z]
  BY DEF Aged
<1> HIDE DEF x, y, z
<1>3. LET a == Aged(k)
      IN  /\ a \in Connection
          /\ a.ip = k.ip /\ a.served = k.served /\ a.open = k.open
          /\ a.alive = k.alive /\ a.answer = x /\ a.closeIn = y /\ a.silent = z
  BY <1>1, <1>2 DEF Connection
<1> QED BY <1>3 DEF x, y, z

\* Time goes on, and nothing was due.
LEMMA InvTick ==
    ASSUME Inv, Tick
    PROVE  Inv'
<1>1. UNCHANGED <<setting, ifaces, phase, host, raw, upsets>> /\ ~Due
  BY DEF Tick
<1>2. /\ client' = [c \in Client |-> IF c \in Live THEN Aged(client[c]) ELSE None]
      /\ beat' = IF phase = "listening" THEN beat - 1 ELSE beat
      /\ sleep' = IF phase = "sleeping" THEN sleep - 1 ELSE sleep
      /\ closing' = IF phase = "closing" THEN closing + 1 ELSE closing
  BY DEF Tick
<1>3. /\ phase \notin {"starting", "bound"}
      /\ phase = "sleeping" => sleep # 0
      /\ phase = "listening" => beat # 0
      /\ phase = "closing" => Live # {}
      /\ \A c \in Live : client[c].answer # 0 /\ (client[c].open \/ client[c].closeIn # 0)
  BY <1>1 DEF Due
<1>4. beat \in 0..Interval /\ sleep \in Nat /\ closing \in Nat
  BY DEF Inv, TypeOK
<1>5. beat' \in 0..Interval /\ sleep' \in Nat /\ closing' \in Nat
  BY <1>2, <1>3, <1>4
<1>6. ASSUME NEW c \in Live
      PROVE  client'[c] \in Connection /\ Sound(client[c])'
  <2> DEFINE k == client[c]
             a == client'[c]
  <2>1. k \in Connection /\ Sound(k) /\ a = Aged(k) /\ c \in Client
    BY <1>2, LiveConnection
  <2>2. k.answer # 0 /\ (k.open \/ k.closeIn # 0)
    BY <1>3
  <2> HIDE DEF k, a
  <2>3. /\ a \in Connection
        /\ a.ip = k.ip /\ a.served = k.served /\ a.open = k.open
        /\ a.alive = k.alive
        /\ a.answer = IF k.answer = None THEN None ELSE k.answer - 1
        /\ a.closeIn = IF k.open THEN k.closeIn ELSE k.closeIn - 1
        /\ a.silent = IF k.silent = None THEN None ELSE k.silent + 1
    BY <2>1, <2>2, AgedFields
  <2>4. /\ k.answer # None => k.answer \in 0..RoundTrip
        /\ k.silent # None => k.silent \in Nat
        /\ k.closeIn \in 0..CloseTimeout
        /\ k.alive \in BOOLEAN
    BY <2>1 DEF Connection
  <2>5. a.served <=> (setting.requireTailscale => InTailnet(a.ip))
    BY <2>1, <2>3 DEF Sound
  <2>6. (a.open => a.served) /\ (a.answer # None => a.silent = None)
    BY <2>1, <2>3, <2>4 DEF Sound
  <2>7. phase = "listening" => /\ a.silent # None =>
                                   a.silent + beat' <= IF a.alive THEN Interval ELSE 2 * Interval
                               /\ (a.silent = None /\ a.open /\ ~a.alive) =>
                                   a.answer # None /\ a.answer + Interval <= beat' + RoundTrip
    <3> SUFFICES ASSUME phase = "listening"
                 PROVE  /\ a.silent # None =>
                               a.silent + beat' <= IF a.alive THEN Interval ELSE 2 * Interval
                        /\ (a.silent = None /\ a.open /\ ~a.alive) =>
                               a.answer # None /\ a.answer + Interval <= beat' + RoundTrip
      OBVIOUS
    <3>1. beat' = beat - 1 /\ Overdue(k) /\ Expected(k)
      BY <1>2, <2>1 DEF Sound
    <3>2. a.silent # None =>
             a.silent + beat' <= IF a.alive THEN Interval ELSE 2 * Interval
      <4> SUFFICES ASSUME a.silent # None
                   PROVE  a.silent + beat' <= IF a.alive THEN Interval ELSE 2 * Interval
        OBVIOUS
      <4>1. k.silent # None /\ a.silent = k.silent + 1 /\ k.silent \in Nat
        BY <2>3, <2>4
      <4>2. k.silent + beat <= IF a.alive THEN Interval ELSE 2 * Interval
        BY <2>3, <3>1, <4>1 DEF Overdue
      <4>3. a.silent + beat' = k.silent + beat
        BY <1>4, <3>1, <4>1
      <4> QED BY <4>2, <4>3
    <3>3. (a.silent = None /\ a.open /\ ~a.alive) =>
             a.answer # None /\ a.answer + Interval <= beat' + RoundTrip
      <4> SUFFICES ASSUME a.silent = None, a.open, ~a.alive
                   PROVE  a.answer # None /\ a.answer + Interval <= beat' + RoundTrip
        OBVIOUS
      <4>1. k.silent = None /\ k.open /\ ~k.alive
        BY <2>3, <2>4
      <4>2. k.answer \in 0..RoundTrip /\ k.answer # 0 /\ k.answer + Interval <= beat + RoundTrip
        BY <2>2, <2>4, <3>1, <4>1 DEF Expected
      <4>3. a.answer = k.answer - 1 /\ k.answer - 1 \in Nat
        BY <2>2, <2>3, <4>2
      <4> QED BY <1>4, <3>1, <4>2, <4>3
    <3> QED BY <3>2, <3>3
  <2>8. ASSUME phase = "closing" PROVE ~a.open /\ closing' + a.closeIn <= CloseTimeout
    <3>1. ~k.open /\ closing + k.closeIn <= CloseTimeout /\ closing' = closing + 1
      BY <1>2, <2>1, <2>8 DEF Sound
    <3>2. ~a.open /\ a.closeIn = k.closeIn - 1
      BY <2>3, <3>1
    <3> QED BY <1>4, <2>4, <3>1, <3>2
  <2> QED BY <1>1, <2>3, <2>5, <2>6, <2>7, <2>8 DEF Sound, Overdue, Expected, a
<1>7. TypeOK'
  <2>1. client' \in [Client -> Connection \cup {None}]
    BY <1>2, <1>6
  <2> QED BY <1>1, <1>5, <2>1 DEF Inv, TypeOK
<1>8. ConnectionsSound'
  BY <1>2, <1>6 DEF ConnectionsSound, Live
<1>9. closing' <= CloseTimeout
  <2>1. CASE phase = "closing"
    <3>1. PICK c \in Live : TRUE
      BY <1>3, <2>1
    <3>2. client[c] \in Connection /\ ~client[c].open /\ closing + client[c].closeIn <= CloseTimeout
      BY <2>1, LiveConnection DEF Sound
    <3>3. client[c].closeIn \in 0..CloseTimeout /\ client[c].closeIn # 0
      BY <1>3, <3>2 DEF Connection
    <3> QED BY <1>2, <1>4, <2>1, <3>2, <3>3
  <2> QED BY <1>2, <2>1 DEF Inv, Phases
<1>10. Live' \subseteq Live
  BY <1>2 DEF Live
<1>11. NeverWider'
  BY <1>1 DEF Inv, NeverWider
<1>12. Phases'
  BY <1>1, <1>2, <1>3, <1>9, <1>10 DEF Inv, Phases
<1> QED BY <1>7, <1>8, <1>11, <1>12 DEF Inv

LEMMA InvNext == Inv /\ [ProcessNext]_processVars => Inv'
<1> SUFFICES ASSUME Inv, [ProcessNext]_processVars PROVE Inv'
  OBVIOUS
<1>1. CASE UNCHANGED processVars
  BY <1>1 DEF processVars, Inv, TypeOK, NeverWider, ConnectionsSound, Live, Sound,
              Overdue, Expected, Phases
<1>2. CASE Resolve \/ Listen \/ Wake
  BY <1>2, InvStart
<1>3. CASE Heartbeat
  BY <1>3, InvHeartbeat
<1>4. CASE Drain \/ Stopped \/ Crash \/ NetworkChange
  BY <1>4, InvEnd
<1>5. CASE Tick
  BY <1>5, InvTick
<1>6. CASE Signal
  BY <1>6, InvSignal
<1>7. ASSUME NEW c \in Client,
             HubCloses(c) \/ PeerEnds(c) \/ Vanish(c) \/ OnPong(c) \/ CloseTimer(c)
      PROVE  Inv'
  BY <1>7, InvClient
<1>8. ASSUME NEW c \in Client, NEW ip \in PeerAddress, NEW t \in Tcp, Accept(c, ip, t)
      PROVE  Inv'
  BY <1>8, InvAccept
<1>9. ASSUME NEW t \in Tcp, Connect(t) \/ HttpEnds(t) PROVE Inv'
  BY <1>9, InvHttp
<1> QED BY <1>1, <1>2, <1>3, <1>4, <1>5, <1>6, <1>7, <1>8, <1>9 DEF ProcessNext

LEMMA InvAlways == ProcessSpec => []Inv
BY InvInit, InvNext, PTL DEF ProcessSpec

-----------------------------------------------------------------------------
\* A hub that was told HUB_HOST=tailscale is never bound to another address,
\* on whatever networks the phone is (resolveBindHost).
THEOREM BoundToTailnet == ProcessSpec => []NeverWider
<1>1. Inv => NeverWider
  BY DEF Inv
<1> QED BY <1>1, InvAlways, PTL

\* With HUB_REQUIRE_TAILSCALE, exactly the peers of the tailnet are served.
THEOREM PeersAreScreened == ProcessSpec => []PeersScreened
<1>1. Inv => PeersScreened
  BY DEF Inv, ConnectionsSound, Sound, PeersScreened
<1> QED BY <1>1, InvAlways, PTL

\* The heartbeat finds a vanished peer within two intervals.
THEOREM VanishedAreFound == ProcessSpec => []GoneInTime
<1>1. Inv => GoneInTime
  <2> SUFFICES ASSUME Inv, phase = "listening", NEW c \in Live, client[c].silent # None
               PROVE  client[c].silent <= 2 * Interval
    BY DEF GoneInTime
  <2>1. client[c] \in Connection /\ Overdue(client[c])
    BY LiveConnection DEF Sound
  <2>2. client[c].silent \in Nat /\ beat \in 0..Interval
    BY <2>1 DEF Connection, Inv, TypeOK
  <2> QED BY <2>1, <2>2 DEF Overdue
<1> QED BY <1>1, InvAlways, PTL

\* close() waits for wss.close() no longer than the close timeout of the
\* library, whoever of its clients vanished (server.js lines 195-198).
THEOREM ClientsAreGone == ProcessSpec => []ClientsGoneInTime
<1>1. Inv => ClientsGoneInTime
  BY DEF Inv, Phases, ClientsGoneInTime
<1> QED BY <1>1, InvAlways, PTL

\* The heartbeat cuts nobody whose pongs are faster than its beats.
THEOREM LiveAreKept == ProcessSpec => LiveNeverCut
<1> DEFINE Kept == \A c \in Live :
                      (beat' > beat /\ phase' = phase /\ client'[c] = None)
                      => client[c].silent # None \/ ~client[c].open
<1>1. ASSUME Inv, [ProcessNext]_processVars PROVE [Kept]_processVars
  <2> SUFFICES ASSUME NEW c \in Live, beat' > beat, phase' = phase, client'[c] = None,
                      client[c].silent = None, client[c].open
               PROVE  FALSE
    OBVIOUS
  <2>1. beat \in 0..Interval /\ ~(beat > beat) /\ ~(beat - 1 > beat)
    BY <1>1 DEF Inv, TypeOK
  <2>2. Heartbeat
    <3>1. beat' # beat /\ beat' # beat - 1
      BY <2>1
    <3>2. ~Tick
      BY <3>1 DEF Tick
    <3>3. ~Listen
      BY DEF Listen, Exit, Supervised
    <3> QED BY <1>1, <3>1, <3>2, <3>3 DEF ProcessNext, processVars, Resolve, Wake, Drain, Stopped,
            Signal, Crash, NetworkChange, Exit, HubCloses, PeerEnds, Vanish, OnPong,
            CloseTimer, Accept, ClientStep, Connect, HttpEnds
  <2>3. client[c] \in Connection /\ Sound(client[c]) /\ c \in Client
    BY <1>1, LiveConnection
  <2>4. beat = 0 /\ phase = "listening" /\ client'[c] = Beaten(client[c])
    BY <2>2, <2>3 DEF Heartbeat
  <2>5. CASE client[c].alive
    <3>1. Beaten(client[c]) \in Connection
      BY <2>3, <2>5, BeatenFields
    <3> QED BY <1>1, <2>4, <3>1
  <2>6. CASE ~client[c].alive
    <3>1. client[c].answer # None /\ client[c].answer + Interval <= beat + RoundTrip
      BY <2>3, <2>4, <2>6 DEF Sound, Expected
    <3>2. client[c].answer \in 0..RoundTrip
      BY <2>3, <3>1 DEF Connection
    <3> QED BY <2>4, <3>1, <3>2
  <2> QED BY <2>5, <2>6
<1>2. ProcessSpec => [][Kept]_processVars
  BY <1>1, InvAlways, PTL DEF ProcessSpec
<1> QED BY <1>2 DEF LiveNeverCut
=============================================================================
