-------------------------------- MODULE Hub --------------------------------
(***************************************************************************)
(* The hub: the server process (Server, with Router and Auth) and the      *)
(* administrator's command (Enroll) on one database.                       *)
(***************************************************************************)
EXTENDS Server, Enroll

\* The hub may be started on a database that earlier enrollments filled.
Init ==
    /\ devices \in Fingerprint
    /\ outbox = {}
    /\ clock = 0
    /\ cli = Null
    /\ ServerInit

Next == ServerNext \/ EnrollNext

Spec == Init /\ [][Next]_vars

-----------------------------------------------------------------------------
(***************************************************************************)
(* Safety.                                                                 *)
(***************************************************************************)

\* The registry and the connections tell one story (server.js, onAuth and the
\* 'close' handler): conns maps a device to a live socket that authenticated
\* as that device, and an authenticated connection is the registered one of
\* its device.  So a device never has two authenticated sockets, and no handler
\* finds a dead connection in the registry.
RegistryConsistent ==
    /\ \A d \in Device : Online(d) =>
          /\ ready[conns[d]] # "free"
          /\ conn[conns[d]].authed
          /\ conn[conns[d]].deviceId = d
    /\ \A s \in Sock : conn[s].authed =>
          /\ conn[s].deviceId # Null
          /\ conns[conn[s].deviceId] = s

\* Nothing waits for a device that is online (router.js, handleSend and
\* deliverPending): a row not yet written to a socket belongs to a device that
\* is away.  A row that slipped through would wait for the next reconnection,
\* because a push takes place only when something is sent to the device.
NoStrandedRow == \A r \in outbox : ~r.delivered => ~Online(r.to)

\* All connections know the same member list (server.js, onAuth lines 271-281):
\* whatever the administrator and the renaming hellos did in between, the list
\* last sent to one online device is the list last sent to any other.
MembershipShared ==
    \A d, e \in Device : Online(d) /\ Online(e) =>
        conn[conns[d]].fp = conn[conns[e]].fp

\* A row is its recipient's to take (router.js, handleAck): when it leaves the
\* queue, whatever acks of the same message come from others and however
\* connections change, its recipient is online, and its sender, if it is online
\* too, reads a receipt in that recipient's name; or enroll.js removes it.
TakenByOwner ==
    [][\A r \in outbox :
          (\A x \in outbox' : x.msg # r.msg \/ x.to # r.to)
          => \/ r.to = cli
             \/ /\ Online(r.to)
                /\ (Online(r.from) /\ ready[conns[r.from]] = "open")
                      => \E i \in DOMAIN out'[conns[r.from]] :
                            out'[conns[r.from]][i] = ReceiptFrame(r.msg, r.to)]_vars

\* A connection that was evicted by a newer one of its device.
Replaced(s) == conn[s].deviceId # Null /\ ~conn[s].authed

\* Eviction is final (server.js, onAuth): frames of the evicted peer go on
\* arriving while its socket closes, and it may even say hello again, but it
\* never takes the registry back from the connection that replaced it.
ReplacedNeverReturns == [][\A s \in Sock : Replaced(s) => ~conn'[s].authed]_vars

\* PROTOCOL.md line 47: a failed handshake is answered with an error and the
\* socket is ended.  Read here for the codes only a failed handshake has.
FailedHelloCloses ==
    [][\A s \in Sock :
          (\E i \in DOMAIN out'[s] :
              out'[s][i] \in {Error("UNSUPPORTED_VERSION"),
                             Error("UNKNOWN_DEVICE"), Error("AUTH_FAILED")})
          => ready'[s] # "open"]_vars

\* PROTOCOL.md lines 225-233: one hub clock, one order for the whole family.
\* The recvAt a sender is told must then be the recv_at of the rows, which is
\* what the recipients sort by.
SentAgrees ==
    [][\A s \in Sock : \A i \in DOMAIN out'[s] :
          LET f == out'[s][i]
          IN  f.t = "sent" =>
                 \A r \in outbox' : r.msg = f.msgId => r.recvAt = f.recvAt]_vars

\* The queue holds no message for a device that is not enrolled, except while
\* enroll.js --remove is between its two statements (PROTOCOL.md lines 92-93:
\* such a row would never leave).
NoOrphanRows == \A r \in outbox : Registered(r.to) \/ cli = r.to
=============================================================================
