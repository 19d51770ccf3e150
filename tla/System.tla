------------------------------- MODULE System -------------------------------
(***************************************************************************)
(* The family: the hub, the administrator's command, and one client per    *)
(* device, joined by TCP connections that keep the order of frames until   *)
(* they break.  Each side of a connection learns of its end by itself.     *)
(***************************************************************************)
EXTENDS Hub, Client

CONSTANT MaxUpsets      \* bound on broken connections, restarts, expired
                        \* challenges and administrator's commands together

ASSUME UpsetsAssumption == MaxUpsets \in Nat
ASSUME KeyAssumption    == Key # {}

VARIABLES
    upsets,     \* those still to come
    gone        \* history: devices that were removed at some time

sysVars == <<vars, clientVars, upsets, gone>>

\* The frames that change what a client does; of a welcome, it uses the ids.
Heeded(f) == f.t \notin {"presence", "receipt", "pong"}

Wired(f) == IF f.t = "welcome" THEN [t |-> "welcome", members |-> DOMAIN f.members]
            ELSE f

OnWire(frames) ==
    LET heeded == KeptAt(frames, {i \in DOMAIN frames : Heeded(frames[i])})
    IN  [k \in DOMAIN heeded |-> Wired(heeded[k])]

Linked(s) == \E d \in Device : link[d] = s

\* What the hub wrote in this step is under way to those who still listen.
Transmit ==
    toPeer' = [s \in Sock |-> IF Linked(s) THEN toPeer[s] \o OnWire(out'[s])
                              ELSE <<>>]

SystemInit ==
    /\ Init
    /\ ClientInit
    /\ upsets = MaxUpsets
    /\ gone = {}

-----------------------------------------------------------------------------
\* The message handler, on the next frame of a socket.
HubReceive(s) ==
    LET f == Head(toHub[s])
        hello == [version |-> "spoken", deviceId |-> f.deviceId, name |-> Null]
        auth  == [sig |-> CHOOSE k \in Key : TRUE]
    IN  /\ Readable(s)
        /\ toHub[s] # <<>>
        /\ \/ /\ ~conn[s].authed
              /\ \/ f.t = "hello" /\ (HelloRefused(s, hello) \/ HelloAccepted(s, hello))
                 \/ f.t = "auth"  /\ (AuthRefused(s, auth) \/ AuthAccepted(s, auth))
                 \/ f.t \in {"send", "ack"} /\ OnUnexpected(s)
           \/ /\ conn[s].authed
              /\ \/ f.t = "send" /\ \E now \in {n \in 0..MaxClock : n \in {clock, clock + 1}} :
                       HandleSend(s, f.msg, f.to, now)
                 \/ f.t = "ack"  /\ HandleAck(s, f.ids)
        /\ toHub' = [toHub EXCEPT ![s] = Tail(@)]
        /\ Transmit
        /\ UNCHANGED <<link, welcomed, known, seen, tried, confirmed, upsets, gone>>

\* A new connection: the hub's and the client's end.
Open(d) ==
    /\ \E s \in Sock : Connect(s) /\ ClientConnect(d, s)
    /\ UNCHANGED <<upsets, gone>>

Read(d) == ClientRead(d) /\ UNCHANGED <<vars, upsets, gone>>

Write(d, m) == ClientSend(d, m) /\ UNCHANGED <<vars, upsets, gone>>

\* One side learns that the other has ended the connection.
ClientEnds(d) ==
    /\ link[d] # Null
    /\ Ended(link[d])
    /\ ClientDown(d)
    /\ UNCHANGED <<vars, upsets, gone>>

HubEnds(s) ==
    /\ ~Linked(s)
    /\ SocketDown(s)
    /\ toHub' = [toHub EXCEPT ![s] = <<>>]
    /\ UNCHANGED <<link, welcomed, known, seen, tried, confirmed, toPeer,
                   upsets, gone>>

Close(s) ==
    /\ OnClose(s)
    /\ Transmit
    /\ UNCHANGED <<link, welcomed, known, seen, tried, confirmed, toHub,
                   upsets, gone>>

\* start-hub.sh, after close().
Resume ==
    /\ ~up
    /\ Restart
    /\ toHub' = [s \in Sock |-> <<>>]
    /\ UNCHANGED <<link, welcomed, known, seen, tried, confirmed, toPeer,
                   upsets, gone>>

Upset == upsets > 0 /\ upsets' = upsets - 1

\* The network, the operator and the clock.
Break ==
    /\ Upset
    /\ \/ \E d \in Device : ClientDown(d) /\ UNCHANGED vars
       \/ \E s \in Sock : /\ Linked(s)
                          /\ SocketDown(s)
                          /\ toHub' = [toHub EXCEPT ![s] = <<>>]
                          /\ UNCHANGED <<link, welcomed, known, seen, tried,
                                         confirmed, toPeer>>
       \/ \E s \in Sock : NonceExpires(s) /\ UNCHANGED clientVars
       \/ Shutdown /\ UNCHANGED clientVars
       \/ /\ up
          /\ Restart
          /\ toHub' = [s \in Sock |-> <<>>]
          /\ UNCHANGED <<link, welcomed, known, seen, tried, confirmed, toPeer>>
    /\ UNCHANGED gone

\* enroll.js.  A device keeps its keys and its name.
Administer ==
    /\ Upset
    /\ \E d \in Managed :
          \/ RemoveDevice(d) /\ gone' = gone \cup {d}
          \/ /\ ~Registered(d)
             /\ \E p \in Profile : EnrollDevice(d, p)
             /\ UNCHANGED gone
    /\ UNCHANGED clientVars

Purge == PurgeQueue /\ UNCHANGED <<clientVars, upsets, gone>>

SystemNext ==
    \/ \E s \in Sock : HubReceive(s) \/ HubEnds(s) \/ Close(s)
    \/ \E d \in Device : \/ Open(d) \/ Read(d) \/ ClientEnds(d)
                         \/ \E m \in Msg : Write(d, m)
    \/ Resume \/ Break \/ Administer \/ Purge

\* Sockets deliver, event loops turn, both sides notice a dead connection
\* (the hub by its heartbeat), clients reconnect and send again, start-hub.sh
\* restarts the hub and a command that was begun ends.  Breaks and commands
\* owe nothing.  A client that connects again and again must not take every
\* socket from another: SF, because the bound on Sock is the model's alone.
Fairness ==
    /\ \A s \in Sock : /\ WF_sysVars(HubReceive(s))
                       /\ WF_sysVars(HubEnds(s))
                       /\ WF_sysVars(Close(s))
    /\ \A d \in Device : /\ SF_sysVars(Open(d))
                         /\ WF_sysVars(Read(d))
                         /\ WF_sysVars(ClientEnds(d))
                         /\ \A m \in Msg : WF_sysVars(Write(d, m))
    /\ WF_sysVars(Resume)
    /\ WF_sysVars(Purge)

SystemSpec == SystemInit /\ [][SystemNext]_sysVars /\ Fairness

-----------------------------------------------------------------------------
\* From end to end (PROTOCOL.md section 6, rule 1): a row leaves the hub's
\* queue only when its recipient's client has taken the message, as a text or
\* as the placeholder of what will never decrypt, or when the recipient is no
\* longer enrolled.
LeavesOnlyShown ==
    [][\A r \in outbox :
          (\A x \in outbox' : x.msg # r.msg \/ x.to # r.to)
          => r.msg \in seen[r.to] \/ ~Registered(r.to)]_sysVars

Queued(m, d) == \E r \in Queue(d) : r.msg = m

\* What a sender was told is done is done (router.js, handleSend, `sent' after
\* COMMIT): each member a confirmed message was encrypted for has taken it, or
\* the hub still holds it for him, through breaks, evictions and restarts,
\* retransmissions and acks, unless the member was removed.
ConfirmedIsKept ==
    \A x \in confirmed : \A d \in x.to :
        x.msg \in seen[d] \/ Queued(x.msg, d) \/ d \in gone

\* The refresh of the member lists precedes the messages (server.js lines
\* 271-281): the sender of a delivery that a client is about to read is one
\* the client knows, unless it has been removed at some time.
KnownSender ==
    \A d \in Device :
        (link[d] # Null /\ toPeer[link[d]] # <<>>) =>
            LET f == Incoming(d)
            IN  f.t = "deliver" => f.from \in known[d] \cup gone

\* At-least-once delivery (PROTOCOL.md section 6, rules 1 and 2): what is
\* queued for a device is eventually taken by its client, through broken
\* connections, evictions and restarts, unless the device or the sender is
\* removed.
Delivered ==
    \A m \in Msg : \A d \in Device :
        Queued(m, d) ~> (m \in seen[d] \/ d \in gone \/ Author[m] \in gone)

\* The queue empties (dummy-client.js, 'deliver'): although an ack may be lost
\* with its connection, and a retransmission may queue a message again after
\* the ack, no row is delivered for ever.
QueueEmpties ==
    \A m \in Msg : \A d \in Device :
        Queued(m, d) ~> (~Queued(m, d) \/ Author[m] \in gone)

\* Retransmission (PROTOCOL.md section 6, rule 4): a message whose author knows
\* somebody to send it to is eventually confirmed, unless the author is removed
\* or all the others are.
Confirmed ==
    \A m \in Msg : known[Author[m]] # {}
        ~> (m \in Messages(confirmed) \/ Author[m] \in gone \/ known[Author[m]] = {})
=============================================================================
