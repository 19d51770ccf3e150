------------------------------ MODULE HubState ------------------------------
(***************************************************************************)
(* The state the hub's source files share: the two tables of the SQLite    *)
(* database (src/src/db.js), the conn object of every WebSocket and the    *)
(* deviceId -> conn registry (src/src/server.js).  Router, Auth, Server    *)
(* and Enroll, one module per source file, hold the operations on it.      *)
(*                                                                         *)
(* Node runs one event handler at a time and node:sqlite is synchronous,   *)
(* so a handler is one step.  The frames it writes are the output of the   *)
(* step: out[s] is what left on socket s in the last step, in order.  No   *)
(* handler reads it; the modules that compose the hub with its peers do.   *)
(***************************************************************************)
EXTENDS Naturals, SequencesExt, Ordered

CONSTANTS
    Device,     \* the deviceIds that may be enrolled
    Sock,       \* WebSocket objects that may be alive at the same time
    Msg,        \* msgIds; ULIDs are ordered as strings, these as numbers
    Author,     \* the device that drew each msgId: a ULID is drawn once
    Name,       \* display names
    Key,        \* enrolled key pairs (signing key and box key go together)
    MaxClock,   \* bound on the distinct recv_at readings of a behaviour
    Null        \* JavaScript's null and undefined, SQLite's missing row

ASSUME SockAssumption   == Null \notin Sock
ASSUME DeviceAssumption == Null \notin Device
ASSUME FamilyAssumption == IsFiniteSet(Device)
ASSUME MsgAssumption    == Msg \subseteq Nat /\ Author \in [Msg -> Device]
ASSUME ClockAssumption  == MaxClock \in Nat

VARIABLES
    devices,    \* table devices: deviceId -> profile, or Null where no row is
    outbox,     \* table outbox: a set of rows
    clock,      \* the last reading of Date.now() used as a recv_at
    cli,        \* the device enroll.js --remove is half-way through, or Null
    up,         \* FALSE from close() until the restarted process listens
    ready,      \* the life of each socket, see SockState
    conn,       \* the conn object of each socket
    conns,      \* hub.conns: deviceId -> socket of its conn, or Null
    out         \* socket -> frames written on it by the last step

vars == <<devices, outbox, clock, cli, up, ready, conn, conns, out>>

-----------------------------------------------------------------------------
\* A devices row with what the properties tell apart; created_at orders a
\* list and last_seen_at is only printed by enroll.js --list.
Profile == [name : Name, key : Key]

ASSUME ProfileAssumption == Null \notin Profile

Registered(d) == devices[d] # Null
Enrolled      == {d \in Device : Registered(d)}

\* An outbox row.  delivered stands for delivered_at IS NOT NULL.
Row == [msg : Msg, to : Device, from : Device, recvAt : 0..MaxClock,
        delivered : BOOLEAN]

Queue(d) == {r \in outbox : r.to = d}

\* "free": no such socket; "open": readyState OPEN; "closing": the hub called
\* close(), the peer's frames still arrive; "ending": the peer's close frame
\* came, the TCP connection broke or it was terminated: only 'close' is left.
SockState == {"free", "open", "closing", "ending"}

\* The challenge of a connection: "shown" once it was written to an open
\* socket, "sealed" when the socket was closing and sendJson dropped it,
\* "stale" when NONCE_TTL_MS has passed.  Only a shown nonce can be signed.
NonceState == {"none", "shown", "sealed", "stale"}

Fingerprint == [Device -> Profile \cup {Null}]

ConnObject == [authed : BOOLEAN, deviceId : Device \cup {Null},
               pending : Device \cup {Null}, nonce : NonceState,
               fp : Fingerprint \cup {Null}]

NewConn == [authed |-> FALSE, deviceId |-> Null, pending |-> Null,
            nonce |-> "none", fp |-> Null]

Online(d) == conns[d] # Null

-----------------------------------------------------------------------------
\* hub.send: sendJson drops the frames of a socket that is not OPEN.  ready is
\* read before the step: every handler writes to a socket before closing it.
Emit(frames) ==
    out' = [s \in Sock |-> IF ready[s] = "open" THEN frames[s] ELSE <<>>]

Reply(s, frames) == Emit([t \in Sock |-> IF t = s THEN frames ELSE <<>>])

Quiet == out' = [s \in Sock |-> <<>>]

Error(code) == [t |-> "error", code |-> code]

\* ws.close(): no more writes, but the peer's frames go on arriving.
Closing(s) == IF ready[s] = "open" THEN "closing" ELSE ready[s]

-----------------------------------------------------------------------------
TypeOK ==
    /\ devices \in [Device -> Profile \cup {Null}]
    /\ outbox \subseteq Row
    /\ clock \in 0..MaxClock
    /\ cli \in Device \cup {Null}
    /\ up \in BOOLEAN
    /\ ready \in [Sock -> SockState]
    /\ conn \in [Sock -> ConnObject]
    /\ conns \in [Device -> Sock \cup {Null}]
    /\ DOMAIN out = Sock
=============================================================================
