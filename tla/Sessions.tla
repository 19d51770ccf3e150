------------------------------ MODULE Sessions ------------------------------
(***************************************************************************)
(* The hub seen from the other end of each socket: a history variable that *)
(* reads every frame written on a socket, in order, the way a client does. *)
(* It is computed from the hub's output alone and changes nothing in it.   *)
(***************************************************************************)
EXTENDS Hub

VARIABLE heard      \* open socket -> what its peer has been told on it

SilentPeer == [members |-> Null, online |-> {}, msgs |-> {}, lastAt |-> 0,
               inOrder |-> TRUE, greeted |-> TRUE]

\* Null is neither a member list nor a set of messages.
ASSUME SilenceAssumption ==
    /\ \A S \in SUBSET Device : \A list \in [S -> Profile] : list # Null
    /\ \A msgs \in SUBSET Msg : msgs # Null

\* Everything but errors and challenges belongs after the first welcome
\* (PROTOCOL.md section 9).
AfterWelcome == {"presence", "deliver", "sent", "receipt", "pong"}

Latest(indices) == CHOOSE i \in indices : \A j \in indices : j <= i

\* Whether e is online, by a welcome or by a presence frame about e.
SaysOnline(f, e) == IF f.t = "welcome" THEN e \in f.online ELSE f.online

\* What a peer that knew h knows after some more frames: the last word counts
\* on the members, and on each device; messages add up.
Heard(h, frames) ==
    LET welcomes == {i \in DOMAIN frames : frames[i].t = "welcome"}
        delivers == {i \in DOMAIN frames : frames[i].t = "deliver"}
        about(e) == welcomes \cup {i \in DOMAIN frames :
                          frames[i].t = "presence" /\ frames[i].deviceId = e}
    IN  [members |-> IF welcomes = {} THEN h.members
                     ELSE frames[Latest(welcomes)].members,
         online  |-> {e \in Device : IF about(e) = {} THEN e \in h.online
                                     ELSE SaysOnline(frames[Latest(about(e))], e)},
         msgs    |-> h.msgs \cup {frames[i].msgId : i \in delivers},
         lastAt  |-> IF delivers = {} THEN h.lastAt
                     ELSE frames[Latest(delivers)].recvAt,
         inOrder |-> /\ h.inOrder
                     /\ \A i \in delivers :
                           /\ h.lastAt <= frames[i].recvAt
                           /\ \A j \in delivers :
                                 i < j => frames[i].recvAt <= frames[j].recvAt,
         greeted |-> /\ h.greeted
                     /\ \A i \in DOMAIN frames : frames[i].t \in AfterWelcome =>
                           h.members # Null \/ \E j \in welcomes : j < i]

Listen ==
    heard' = [s \in Sock |-> IF ready'[s] = "open" THEN Heard(heard[s], out'[s])
                             ELSE SilentPeer]

SessionsInit == Init /\ heard = [s \in Sock |-> SilentPeer]
SessionsNext == Next /\ Listen
SessionsSpec == SessionsInit /\ [][SessionsNext]_<<vars, heard>>

\* The connections whose peer can read what is written.
Listening(d) == Online(d) /\ ready[conns[d]] = "open"
Told(d)      == heard[conns[d]]

-----------------------------------------------------------------------------
\* At-least-once delivery, one session at a time (router.js, deliverPending):
\* whatever is queued for a device that is online has been written to the very
\* socket it is online with, whether it was flushed at authentication or pushed
\* since, and whatever happened to it on earlier sockets.
OnlineHasEverything ==
    \A d \in Device : Listening(d) =>
        \A r \in Queue(d) : r.msg \in Told(d).msgs

\* Presence is exact (auth.js listMembers, router.js broadcastPresence): of the
\* devices on its member list, a peer believes online exactly those in the
\* registry, through evictions, late closes and refreshed welcomes; and it
\* never believes in a device that is offline.
PresenceAccurate ==
    \A d \in Device : Listening(d) =>
        /\ \A e \in Told(d).online : Online(e)
        /\ \A e \in DOMAIN Told(d).members : Online(e) => e \in Told(d).online

\* What one peer was told is what the fingerprint of every other connection
\* stands for (server.js, sendWelcome and lines 274-281): nobody online is on
\* an older or a newer member list than anybody else.
MembersTold ==
    \A d, e \in Device : Listening(d) /\ Online(e) =>
        LET table == conn[conns[e]].fp
            rest  == {x \in Device \ {d} : table[x] # Null}
        IN  Told(d).members = [x \in rest |-> table[x]]

\* Deliveries on one socket come in the order of their recv_at, backlog and
\* live pushes together (router.js, deliverPending: ORDER BY recv_at, msg_id).
DeliveryOrder == \A s \in Sock : heard[s].inOrder

\* The order PROTOCOL.md section 9 promises on a socket: the welcome before
\* everything else, and the deliveries in their order.
SocketOrder == \A s \in Sock : heard[s].greeted /\ heard[s].inOrder

-----------------------------------------------------------------------------
\* The mailboxes the hub's tables and sockets stand for: a device is in a
\* session while its registered socket can be written to.
Mailboxes == INSTANCE Mailbox WITH
    Away    <- Null,
    mailbox <- [d \in Device |-> {r.msg : r \in Queue(d)}],
    session <- [d \in Device |-> IF Listening(d) THEN Told(d).msgs ELSE Null],
    members <- Enrolled

\* The hub keeps the promise of module Mailbox (PROTOCOL.md section 6): no
\* handler, close, crash or command makes a message leave a mailbox otherwise
\* than by its recipient's ack or its recipient's removal, or leaves a session
\* without a message of its mailbox.
KeepsMailboxes == Mailboxes!Spec
=============================================================================
