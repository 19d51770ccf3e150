------------------------------ MODULE Process ------------------------------
(***************************************************************************)
(* The life of the hub's process: start-hub.sh, which starts it again and  *)
(* again, src/src/index.js, and the parts of src/src/server.js that depend *)
(* on time: start(), the heartbeat, close().  What the connections say to  *)
(* the hub is module Server; here they are alive, or vanish.  A connection *)
(* begins as one of TCP, which Node's http server keeps until a complete   *)
(* request has come: an upgrade makes it a WebSocket client.               *)
(*                                                                         *)
(* Time is discrete.  A timer that is due fires before time goes on.       *)
(***************************************************************************)
EXTENDS Tailnet

CONSTANTS
    Client,             \* WebSocket objects alive at the same time
    Tcp,                \* TCP connections without a request at the same time
    Setting,            \* how the administrator may configure the hub
    Network,            \* what os.networkInterfaces() may return
    PeerAddress,        \* where connections may come from
    Interval,           \* config.heartbeatIntervalMs, 30 s
    CloseTimeout,       \* closeTimeout of the ws library, 30 s
    RestartDelay,       \* start-hub.sh, 5 s
    ConfigRetryDelay,   \* start-hub.sh, 30 s
    RoundTrip,          \* bound on the answer to a ping, of a peer that lives
    MaxUpsets           \* bound on crashes, signals and network changes

ASSUME TimeAssumption ==
    /\ {Interval, CloseTimeout, RestartDelay, ConfigRetryDelay, RoundTrip} \subseteq Nat
    /\ RoundTrip < Interval
    /\ MaxUpsets \in Nat

ASSUME AddressAssumption ==
    /\ None \notin Address
    /\ PeerAddress \subseteq Address
    /\ Network \subseteq Seq(Interface)
    /\ Setting \subseteq Settings

VARIABLES
    setting,    \* the environment variables, fixed by start-hub.sh
    ifaces,     \* the phone's network interfaces now
    phase,      \* "starting", "bound", "listening", "closing",
                \* "draining", "sleeping"
    host,       \* the address resolveBindHost gave, or None
    client,     \* wss.clients
    raw,        \* TCP connections whose request is not complete
    beat,       \* time to the next heartbeat
    sleep,      \* time the supervisor still sleeps
    closing,    \* history: how long close() has been waiting for wss
    upsets      \* those still to come

processVars ==
    <<setting, ifaces, phase, host, client, raw, beat, sleep, closing, upsets>>

\* open: close() was not called on it.  answer: the time left for the pong
\* that is under way, or None.  closeIn: the close timer.  silent, a history:
\* None, or how long the peer has been gone without a word.
Connection ==
    [ip : PeerAddress, served : BOOLEAN, alive : BOOLEAN, open : BOOLEAN,
     answer : (0..RoundTrip) \cup {None}, closeIn : 0..CloseTimeout,
     silent : Nat \cup {None}]

ASSUME ConnectionAssumption == None \notin Connection

NewClient(ip, served) ==
    [ip |-> ip, served |-> served, alive |-> TRUE, open |-> TRUE,
     answer |-> None, closeIn |-> CloseTimeout, silent |-> None]

Live == {c \in Client : client[c] # None}

\* ws.close(): the close frame is sent, the timer runs.
Closed(k) == [k EXCEPT !.open = FALSE]

\* Mutant of ClientsClosed: wss.close() alone, which closes nobody.
ClientsLeft == client

\* close(): for every client of wss.clients.
ClientsClosed == [c \in Client |-> IF c \in Live THEN Closed(client[c]) ELSE None]

\* Mutant of Beaten: isAlive is not reset.
BeatenOnce(k) ==
    IF ~k.alive THEN None
    ELSE [k EXCEPT !.answer = IF k.open /\ k.silent = None THEN RoundTrip ELSE @]

\* The heartbeat, on one client.  A ping to a socket that is closing is not
\* sent; a peer that has vanished does not answer.
Beaten(k) ==
    IF ~k.alive THEN None
    ELSE [k EXCEPT !.alive = FALSE,
                   !.answer = IF k.open /\ k.silent = None THEN RoundTrip ELSE @]

\* Mutant of Answered: nobody listens to pong.
AnsweredUnheard(k) == [k EXCEPT !.answer = None]

\* 'pong'; a refused peer has no handler.
Answered(k) == [k EXCEPT !.answer = None, !.alive = @ \/ k.served]

\* Mutant of Served: the second line of defence is off.
ServedAll(ip) == TRUE

\* wss 'connection': whether the handlers are attached.
Served(ip) == setting.requireTailscale => IsTailscaleIp(ip)

\* Mutant of Supervised: a configuration error ends the supervisor.
SupervisedOnce(code) ==
    IF code = 78 THEN phase' = "ended" /\ UNCHANGED sleep
    ELSE phase' = "sleeping" /\ sleep' = RestartDelay

\* start-hub.sh, on the exit code.
Supervised(code) ==
    /\ phase' = "sleeping"
    /\ sleep' = IF code = 78 THEN ConfigRetryDelay ELSE RestartDelay

\* The process ends: the kernel closes its sockets.
Exit(code) ==
    /\ Supervised(code)
    /\ host' = None
    /\ client' = [c \in Client |-> None]
    /\ raw' = {}
    /\ closing' = 0
    /\ UNCHANGED <<setting, beat>>

-----------------------------------------------------------------------------
ProcessInit ==
    /\ setting \in Setting
    /\ ifaces \in Network
    /\ phase = "starting"
    /\ host = None
    /\ client = [c \in Client |-> None]
    /\ raw = {}
    /\ beat = Interval
    /\ sleep = 0
    /\ closing = 0
    /\ upsets = MaxUpsets

\* start(): resolveBindHost; main() turns NO_TAILSCALE into exit code 78.
Resolve ==
    LET found == ResolveBindHost(setting, ifaces)
    IN  /\ phase = "starting"
        /\ IF found = None THEN Exit(78)
           ELSE /\ phase' = "bound"
                /\ host' = found
                /\ UNCHANGED <<setting, client, raw, beat, sleep, closing>>
        /\ UNCHANGED <<ifaces, upsets>>

\* listen fails with EADDRNOTAVAIL when the address has gone in between.
Listen ==
    /\ phase = "bound"
    /\ IF host = Any \/ \E i \in DOMAIN ifaces : ifaces[i].address = host
       THEN /\ phase' = "listening"
            /\ beat' = Interval
            /\ UNCHANGED <<setting, host, client, raw, sleep, closing>>
       ELSE Exit(1)
    /\ UNCHANGED <<ifaces, upsets>>

\* The supervisor's loop.
Wake ==
    /\ phase = "sleeping"
    /\ sleep = 0
    /\ phase' = "starting"
    /\ UNCHANGED <<setting, ifaces, host, client, raw, beat, sleep, closing, upsets>>

\* The http server listens until httpServer.close().
Connect(t) ==
    /\ phase \in {"listening", "closing"}
    /\ t \notin raw
    /\ raw' = raw \cup {t}
    /\ UNCHANGED <<setting, ifaces, phase, host, client, beat, sleep, closing, upsets>>

\* A TCP connection ends before it is a client's: the peer closes it, /health
\* or 404 was the answer, or Node's own limits on a request cut it.  Those are
\* checked by an interval that httpServer.close() clears, so nothing is owed.
HttpEnds(t) ==
    /\ t \in raw
    /\ raw' = raw \ {t}
    /\ UNCHANGED <<setting, ifaces, phase, host, client, beat, sleep, closing, upsets>>

ClientStep(c, k) ==
    /\ client' = [client EXCEPT ![c] = k]
    /\ UNCHANGED <<setting, ifaces, phase, host, beat, sleep, closing, upsets>>

\* The upgrade of t and wss 'connection'; wss.close() stops it.  A peer from
\* outside the tailnet is closed at once.
Accept(c, ip, t) ==
    /\ phase = "listening"
    /\ client[c] = None
    /\ t \in raw
    /\ raw' = raw \ {t}
    /\ ClientStep(c, IF Served(ip) THEN NewClient(ip, TRUE)
                     ELSE Closed(NewClient(ip, FALSE)))

\* A protocol error, an eviction.
HubCloses(c) ==
    /\ c \in Live
    /\ client[c].open
    /\ ClientStep(c, Closed(client[c]))
    /\ UNCHANGED raw

\* The peer closes, or answers the close, or its connection is reset.
PeerEnds(c) ==
    /\ c \in Live
    /\ client[c].silent = None
    /\ ClientStep(c, None)
    /\ UNCHANGED raw

\* The peer is gone and nobody says so: no network, no battery.
Vanish(c) ==
    /\ c \in Live
    /\ client[c].silent = None
    /\ ClientStep(c, [client[c] EXCEPT !.silent = 0, !.answer = None])
    /\ UNCHANGED raw

OnPong(c) ==
    /\ c \in Live
    /\ client[c].answer # None
    /\ ClientStep(c, Answered(client[c]))
    /\ UNCHANGED raw

\* The close timer of the ws library destroys the connection.
CloseTimer(c) ==
    /\ c \in Live
    /\ ~client[c].open
    /\ client[c].closeIn = 0
    /\ ClientStep(c, None)
    /\ UNCHANGED raw

Heartbeat ==
    /\ phase = "listening"
    /\ beat = 0
    /\ beat' = Interval
    /\ client' = [c \in Client |-> IF c \in Live THEN Beaten(client[c]) ELSE None]
    /\ UNCHANGED <<setting, ifaces, phase, host, raw, sleep, closing, upsets>>

Upset == upsets > 0 /\ upsets' = upsets - 1

\* SIGINT or SIGTERM: shutdown() calls close(), which ends the heartbeat and
\* closes the clients.  A second signal is ignored.
Signal ==
    /\ Upset
    /\ phase = "listening"
    /\ phase' = "closing"
    /\ client' = ClientsClosed
    /\ UNCHANGED <<setting, ifaces, host, raw, beat, sleep, closing>>

\* wss.close() calls back when the last client has gone: httpServer.close()
\* ends the idle connections and listens no more.
Drain ==
    /\ phase = "closing"
    /\ Live = {}
    /\ phase' = "draining"
    /\ closing' = 0
    /\ UNCHANGED <<setting, ifaces, host, client, raw, beat, sleep, upsets>>

\* httpServer.close() calls back when no connection is left: database.close(),
\* exit.
Stopped ==
    /\ phase = "draining"
    /\ raw = {}
    /\ Exit(0)
    /\ UNCHANGED <<ifaces, upsets>>

\* uncaughtException, unhandledRejection, a kill.
Crash ==
    /\ Upset
    /\ phase \in {"bound", "listening", "closing", "draining"}
    /\ Exit(1)
    /\ UNCHANGED ifaces

NetworkChange ==
    /\ Upset
    /\ ifaces' \in Network \ {ifaces}
    /\ UNCHANGED <<setting, phase, host, client, raw, beat, sleep, closing>>

\* What must happen before time goes on.
Due ==
    \/ phase \in {"starting", "bound"}
    \/ phase = "sleeping" /\ sleep = 0
    \/ phase = "listening" /\ beat = 0
    \/ phase = "closing" /\ Live = {}
    \/ phase = "draining" /\ raw = {}
    \/ \E c \in Live : client[c].answer = 0 \/ (~client[c].open /\ client[c].closeIn = 0)

Aged(k) ==
    [k EXCEPT !.answer  = IF @ = None THEN None ELSE @ - 1,
              !.closeIn = IF k.open THEN @ ELSE @ - 1,
              !.silent  = IF @ = None THEN None ELSE @ + 1]

Tick ==
    /\ ~Due
    /\ sleep' = IF phase = "sleeping" THEN sleep - 1 ELSE sleep
    /\ beat' = IF phase = "listening" THEN beat - 1 ELSE beat
    /\ closing' = IF phase = "closing" THEN closing + 1 ELSE closing
    /\ client' = [c \in Client |-> IF c \in Live THEN Aged(client[c]) ELSE None]
    /\ UNCHANGED <<setting, ifaces, phase, host, raw, upsets>>

ProcessNext ==
    \/ Resolve \/ Listen \/ Wake \/ Heartbeat \/ Drain \/ Stopped \/ Tick
    \/ Signal \/ Crash \/ NetworkChange
    \/ \E t \in Tcp : Connect(t) \/ HttpEnds(t)
    \/ \E c \in Client : \/ HubCloses(c) \/ PeerEnds(c) \/ Vanish(c)
                         \/ OnPong(c) \/ CloseTimer(c)
                         \/ \E ip \in PeerAddress, t \in Tcp : Accept(c, ip, t)

\* Time passes, timers fire, the supervisor loops; peers, signals, crashes
\* and the network owe nothing.
ProcessFairness ==
    /\ WF_processVars(Resolve) /\ WF_processVars(Listen) /\ WF_processVars(Wake)
    /\ WF_processVars(Heartbeat) /\ WF_processVars(Drain)
    /\ WF_processVars(Stopped) /\ WF_processVars(Tick)
    /\ \A c \in Client : WF_processVars(OnPong(c)) /\ WF_processVars(CloseTimer(c))

ProcessSpec == ProcessInit /\ [][ProcessNext]_processVars /\ ProcessFairness

-----------------------------------------------------------------------------
TypeOK ==
    /\ setting \in Setting
    /\ ifaces \in Network
    /\ phase \in {"starting", "bound", "listening", "closing", "draining", "sleeping"}
    /\ host \in Address \cup {None}
    /\ client \in [Client -> Connection \cup {None}]
    /\ raw \subseteq Tcp
    /\ beat \in 0..Interval
    /\ sleep \in Nat
    /\ closing \in Nat
    /\ upsets \in 0..MaxUpsets

\* Locked to the tailnet means locked to the tailnet (tailscale.js lines
\* 52-54): whatever the interfaces do between two starts, a hub that was told
\* HUB_HOST=tailscale never has any other address.
NeverWider == setting.tailscaleOnly /\ host # None => InTailnet(host)

\* HUB_REQUIRE_TAILSCALE (server.js lines 87-94): on a hub that listens
\* everywhere, exactly the peers of the tailnet are served, also those whose
\* address a dual-stack socket writes as ::ffff:100.x.
PeersScreened ==
    \A c \in Live : client[c].served
        <=> (setting.requireTailscale => InTailnet(client[c].ip))

\* A peer that vanished leaves the registry, and goes offline for everybody,
\* within two heartbeats (HANDOVER.md line 333, about 60 s), although it may
\* have answered the last ping just before.
GoneInTime ==
    phase = "listening" =>
        \A c \in Live : client[c].silent # None => client[c].silent <= 2 * Interval

\* The heartbeat cuts nobody who answers (server.js lines 167-179): between
\* two beats there is always time for a pong.
LiveNeverCut ==
    [][\A c \in Live :
          (beat' > beat /\ phase' = phase /\ client'[c] = None)
          => client[c].silent # None \/ ~client[c].open]_processVars

\* wss.close() does not hang on a client that vanished (server.js lines
\* 195-198), although the heartbeat that would have cut it was stopped just
\* before: the close timer of every client runs.
ClientsGoneInTime == closing <= CloseTimeout

\* The hub comes back (start-hub.sh lines 52-68): after a crash, a shutdown, or
\* a start that came before the tailnet or lost it again, it listens, unless
\* there is no tailnet to listen on, or a connection that never became a
\* client's holds the old process in httpServer.close() (server.js line 199).
ComesBack ==
    (phase # "listening")
        ~> \/ phase = "listening"
           \/ ResolveBindHost(setting, ifaces) = None
           \/ phase = "draining" /\ raw # {}
=============================================================================
