------------------------------- MODULE Server -------------------------------
(***************************************************************************)
(* src/src/server.js: connections, the handshake, the registry of the      *)
(* devices that are online, and the process that holds all of them.        *)
(***************************************************************************)
EXTENDS Router, Auth

CONSTANT RequireTailscale   \* config.requireTailscale

ASSUME TailscaleAssumption == RequireTailscale \in BOOLEAN

\* Mutant of Spent: the nonce survives the auth frame.
SpentNever(nonce) == nonce

\* onAuth clears conn.nonce before it verifies anything.
Spent(nonce) == "none"

\* Mutant of Outdated: refresh only connections that were never welcomed.
OutdatedIfNew(s) == conn[s].fp = Null

\* onAuth: the member list last sent on this connection is not the current one.
Outdated(s) == conn[s].fp # MembersFingerprint

\* 'close' handler: this connection is still the one of its device.
HoldsPlace(s) == conn[s].authed /\ conns[conn[s].deviceId] = s

\* Mutant of Evict: the old connection keeps its rights.
EvictSocketOnly(c) == c

\* onAuth, to the conn object of the connection it replaces.
Evict(c) == [c EXCEPT !.authed = FALSE]

-----------------------------------------------------------------------------
\* wss 'connection': a fresh conn object, not authenticated.
Connect(s) ==
    /\ up
    /\ ready[s] = "free"
    /\ ready' = [ready EXCEPT ![s] = "open"]
    /\ conn' = [conn EXCEPT ![s] = NewConn]
    /\ Quiet
    /\ UNCHANGED <<devices, outbox, clock, cli, up, conns>>

\* wss 'connection' from outside the tailnet: an error, a close, and no
\* handler is attached, so whatever the peer sends is ignored.
RejectPeer(s) ==
    /\ up
    /\ RequireTailscale
    /\ ready[s] = "free"
    /\ ready' = [ready EXCEPT ![s] = "ending"]
    /\ conn' = [conn EXCEPT ![s] = NewConn]
    /\ out' = [t \in Sock |-> IF t = s THEN <<Error("AUTH_FAILED")>> ELSE <<>>]
    /\ UNCHANGED <<devices, outbox, clock, cli, up, conns>>

\* ws 'message': binary, not JSON, not an object.  The socket stays as it is.
OnGarbage(s) ==
    /\ Reply(s, <<Error("BAD_REQUEST")>>)
    /\ UNCHANGED <<devices, outbox, clock, cli, up, ready, conn, conns>>

-----------------------------------------------------------------------------
\* Mutant of Dismissed: the error is sent, the socket stays.
DismissedLeftOpen(s) == ready

\* conn.ws.close(CLOSE_PROTOCOL), after a failed handshake.
Dismissed(s) == [ready EXCEPT ![s] = Closing(s)]

\* onUnauthenticatedFrame: anything but hello and auth ends the socket.
OnUnexpected(s) ==
    /\ Reply(s, <<Error("BAD_REQUEST")>>)
    /\ ready' = Dismissed(s)
    /\ UNCHANGED <<devices, outbox, clock, cli, up, conn, conns>>

\* onHello, refused: error, log, close.  SQLite cannot bind an object or a
\* boolean as the device id of the log row, so the log throws before the
\* close; the catch block answers once more and the socket stays open.
HelloRefused(s, f) ==
    /\ HelloVerdict(f) # "OK"
    /\ IF f.deviceId = "unbindable"
       THEN /\ Reply(s, <<Error(HelloVerdict(f)), Error("BAD_REQUEST")>>)
            /\ UNCHANGED ready
       ELSE /\ Reply(s, <<Error(HelloVerdict(f))>>)
            /\ ready' = Dismissed(s)
    /\ UNCHANGED <<devices, outbox, clock, cli, up, conn, conns>>

\* onHello, accepted: a new nonce replaces whatever was outstanding.
HelloAccepted(s, f) ==
    /\ HelloVerdict(f) = "OK"
    /\ devices' = Renamed(f)
    /\ conn' = [conn EXCEPT
                  ![s].pending = f.deviceId,
                  ![s].nonce = IF ready[s] = "open" THEN "shown" ELSE "sealed"]
    /\ Reply(s, <<[t |-> "challenge"]>>)
    /\ UNCHANGED <<outbox, clock, cli, up, ready, conns>>

\* onAuth before any accepted hello on this connection.
AuthWithoutHello(s) ==
    /\ conn[s].pending = Null
    /\ Reply(s, <<Error("AUTH_FAILED")>>)
    /\ ready' = Dismissed(s)
    /\ UNCHANGED <<devices, outbox, clock, cli, up, conn, conns>>

\* onAuth, refused: the nonce is spent all the same.
AuthRefused(s, f) ==
    LET verdict == AuthVerdict(conn[s].pending, f, conn[s].nonce)
    IN  /\ conn[s].pending # Null
        /\ verdict # "OK"
        /\ conn' = [conn EXCEPT ![s].nonce = Spent(@)]
        /\ Reply(s, <<Error(verdict)>>)
        /\ ready' = Dismissed(s)
        /\ UNCHANGED <<devices, outbox, clock, cli, up, conns>>

\* onAuth, to registry and peers: evict the device's previous connection,
\* register this one, welcome it, refresh every connection whose member list
\* is outdated, announce the device, and write the frames of its flush.
Admit(s, flush) ==
    LET d        == conn[s].pending
        previous == conns[d]
        evicted  == {previous} \ {Null, s}
        registry == [conns EXCEPT ![d] = s]
        others   == {registry[e] : e \in Device \ {d}} \ {Null}
        outdated == {t \in others : Outdated(t)}
    IN  /\ conns' = registry
        /\ ready' = [t \in Sock |-> IF t \in evicted THEN Closing(t) ELSE ready[t]]
        /\ conn' = [t \in Sock |->
              IF t = s THEN [conn[s] EXCEPT !.authed = TRUE, !.deviceId = d,
                                            !.nonce = Spent(@),
                                            !.fp = MembersFingerprint]
              ELSE IF t \in evicted THEN Evict(conn[t])
              ELSE IF t \in outdated THEN [conn[t] EXCEPT !.fp = MembersFingerprint]
              ELSE conn[t]]
        /\ Emit([t \in Sock |->
              IF t = s
              THEN <<WelcomeFrame(d, registry)>> \o flush
              ELSE (IF t \in outdated
                    THEN <<WelcomeFrame(conn[t].deviceId, registry)>> ELSE <<>>)
                   \o PresenceTo(t, d, TRUE, registry)])

\* onAuth: the signature is that of the device that said hello.
Verified(s, f) ==
    /\ conn[s].pending # Null
    /\ AuthVerdict(conn[s].pending, f, conn[s].nonce) = "OK"

\* onAuth, accepted: the device is admitted and its whole queue is flushed,
\* shown before or not: whatever is still queued was not acked.
AuthAccepted(s, f) ==
    LET rows == Pending(outbox, conn[s].pending, FALSE)
    IN  /\ Verified(s, f)
        /\ Admit(s, DeliverFrames(rows))
        /\ outbox' = MarkDelivered(outbox, rows)
        /\ UNCHANGED <<devices, clock, cli, up>>

\* NONCE_TTL_MS passes while a challenge is outstanding.
NonceExpires(s) ==
    /\ ready[s] \in {"open", "closing"}
    /\ conn[s].nonce \in {"shown", "sealed"}
    /\ conn' = [conn EXCEPT ![s].nonce = "stale"]
    /\ Quiet
    /\ UNCHANGED <<devices, outbox, clock, cli, up, ready, conns>>

-----------------------------------------------------------------------------
OnUnauthenticatedFrame(s) ==
    \/ OnUnexpected(s)
    \/ \E f \in HelloFrames : HelloRefused(s, f) \/ HelloAccepted(s, f)
    \/ AuthWithoutHello(s)
    \/ \E f \in AuthFrames : AuthRefused(s, f) \/ AuthAccepted(s, f)

\* ws 'message'.  After the hub's own close() frames of the peer still come in.
OnMessage(s) ==
    /\ ready[s] \in {"open", "closing"}
    /\ \/ OnGarbage(s)
       \/ ~conn[s].authed /\ OnUnauthenticatedFrame(s)
       \/ conn[s].authed /\ Handle(s)

\* The peer's close frame, a broken TCP connection, the heartbeat's
\* terminate(), or the 30 s the ws library waits after close().
SocketDown(s) ==
    /\ ready[s] \in {"open", "closing"}
    /\ ready' = [ready EXCEPT ![s] = "ending"]
    /\ Quiet
    /\ UNCHANGED <<devices, outbox, clock, cli, up, conn, conns>>

\* ws 'close'.  A connection that has lost its place to a newer one leaves
\* the registry alone.
OnClose(s) ==
    LET d        == conn[s].deviceId
        registry == IF HoldsPlace(s) THEN [conns EXCEPT ![d] = Null] ELSE conns
    IN  /\ ready[s] = "ending"
        /\ ready' = [ready EXCEPT ![s] = "free"]
        /\ conn' = [conn EXCEPT ![s] = NewConn]
        /\ conns' = registry
        /\ Emit([t \in Sock |-> IF HoldsPlace(s) THEN PresenceTo(t, d, FALSE, registry)
                                ELSE <<>>])
        /\ UNCHANGED <<devices, outbox, clock, cli, up>>

-----------------------------------------------------------------------------
\* close(), on SIGINT or SIGTERM: every socket is closed, none is accepted.
Shutdown ==
    /\ up
    /\ up' = FALSE
    /\ ready' = [s \in Sock |-> Closing(s)]
    /\ Quiet
    /\ UNCHANGED <<devices, outbox, clock, cli, conn, conns>>

\* The process ends, by exit after close() or by a crash at any time, and
\* start-hub.sh starts it again: everything in memory is gone, the database
\* is as the last handler left it.
Restart ==
    /\ up' = TRUE
    /\ ready' = [s \in Sock |-> "free"]
    /\ conn' = [s \in Sock |-> NewConn]
    /\ conns' = [d \in Device |-> Null]
    /\ Quiet
    /\ UNCHANGED <<devices, outbox, clock, cli>>

ServerInit ==
    /\ up = TRUE
    /\ ready = [s \in Sock |-> "free"]
    /\ conn = [s \in Sock |-> NewConn]
    /\ conns = [d \in Device |-> Null]
    /\ out = [s \in Sock |-> <<>>]

ServerNext ==
    \/ \E s \in Sock : \/ Connect(s) \/ RejectPeer(s)
                       \/ OnMessage(s) \/ NonceExpires(s)
                       \/ SocketDown(s) \/ OnClose(s)
    \/ Shutdown
    \/ Restart
=============================================================================
