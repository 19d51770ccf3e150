------------------------------- MODULE Router -------------------------------
(***************************************************************************)
(* src/src/router.js: what an authenticated connection may ask for, the    *)
(* per-recipient queue and its delivery.                                   *)
(***************************************************************************)
EXTENDS HubState

SentFrame(m, at) == [t |-> "sent", msgId |-> m, recvAt |-> at]

DeliverFrame(r) ==
    [t |-> "deliver", msgId |-> r.msg, from |-> r.from, recvAt |-> r.recvAt]

ReceiptFrame(m, d) == [t |-> "receipt", msgId |-> m, by |-> d]

PresenceFrame(d, b) == [t |-> "presence", deviceId |-> d, online |-> b]

\* Mutant of Before: ORDER BY msg_id alone.
BeforeById(r1, r2) == r1.msg < r2.msg

\* ORDER BY recv_at, msg_id
Before(r1, r2) == \/ r1.recvAt < r2.recvAt
                  \/ r1.recvAt = r2.recvAt /\ r1.msg < r2.msg

\* Mutant of Pending: a flush that skips what an earlier session was shown.
PendingUnshown(table, d, onlyNew) == {r \in table : r.to = d /\ ~r.delivered}

\* The rows deliverPending selects: all of the recipient's, or with onlyNew
\* those that were never shown.
Pending(table, d, onlyNew) ==
    {r \in table : r.to = d /\ (onlyNew => ~r.delivered)}

\* What deliverPending writes for a set of one recipient's rows.
DeliverFrames(rows) ==
    LET sorted == InOrder(rows, Before)
    IN  [i \in DOMAIN sorted |-> DeliverFrame(sorted[i])]

\* deliverPending sets delivered_at on every row it selected, whether or not
\* the socket took the frame.
MarkDelivered(table, rows) ==
    (table \ rows) \cup {[r EXCEPT !.delivered = TRUE] : r \in rows}

\* Mutant of PresenceTo: only arrivals are announced.
PresenceArrivals(s, d, b, reg) ==
    IF b /\ \E e \in Device \ {d} : reg[e] = s THEN <<PresenceFrame(d, b)>> ELSE <<>>

\* Mutant of PresenceTo: all clients are told, welcomed or not.
PresenceToClients(s, d, b, reg) ==
    IF reg[d] # s THEN <<PresenceFrame(d, b)>> ELSE <<>>

\* The frame each connection but d's own gets from broadcastPresence, given
\* the registry reg at the time of the call.
PresenceTo(s, d, b, reg) ==
    IF \E e \in Device \ {d} : reg[e] = s THEN <<PresenceFrame(d, b)>> ELSE <<>>

\* Mutant of Accepted: payloads for unknown devices are queued as well.
AcceptedUnchecked(d, to) == to \ {d}

\* Mutant of Accepted: there is a queue for those who are online only.
AcceptedOnline(d, to) == {e \in to \ {d} : Registered(e) /\ Online(e)}

\* handleSend skips the sender and drops the payloads of unknown devices.
Accepted(d, to) == {e \in to \ {d} : Registered(e)}

\* INSERT OR IGNORE, one row per accepted recipient: the primary key is
\* (msg_id, recipient_id), so a retransmission finds its rows and adds none.
Inserted(d, m, accepted, now) ==
    {[msg |-> m, to |-> e, from |-> d, recvAt |-> now, delivered |-> FALSE] :
       e \in {e \in accepted : \A r \in Queue(e) : r.msg # m}}

\* Mutant of PushTargets: queued, but pushed to nobody.
PushTargetsNone(accepted) == {}

\* Whom handleSend pushes to at once.
PushTargets(accepted) == {e \in accepted : Online(e)}

\* Mutant of Acked: the recipient is left out of the WHERE clause.
AckedByAnyone(d, ids) == {r \in outbox : r.msg \in ids}

\* The rows an ack of device d deletes.
Acked(d, ids) == {r \in Queue(d) : r.msg \in ids}

-----------------------------------------------------------------------------
\* handle: the frames that change nothing.
HandlePing(s) ==
    /\ Reply(s, <<[t |-> "pong"]>>)
    /\ UNCHANGED <<devices, outbox, clock, cli, up, ready, conn, conns>>

\* 'already authenticated', an unknown type, a send or an ack that does not
\* pass validation, an exception in the handler.
RefuseFrame(s) ==
    /\ Reply(s, <<Error("BAD_REQUEST")>>)
    /\ UNCHANGED <<devices, outbox, clock, cli, up, ready, conn, conns>>

\* withinRateLimit said no.  The window itself is module RateLimit; here a
\* send may be refused at any time.
RefuseRate(s) ==
    /\ Reply(s, <<Error("RATE_LIMITED")>>)
    /\ UNCHANGED <<devices, outbox, clock, cli, up, ready, conn, conns>>

\* handleSend: queue one row per recipient, confirm, push to who is online.
HandleSend(s, m, to, now) ==
    LET d        == conn[s].deviceId
        accepted == Accepted(d, to)
        targets  == PushTargets(accepted)
        queued   == outbox \cup Inserted(d, m, accepted, now)
        pushed(e) == Pending(queued, e, TRUE)
    IN  /\ clock' = now
        /\ outbox' = MarkDelivered(queued, UNION {pushed(e) : e \in targets})
        /\ Emit([t \in Sock |->
                   IF t = s THEN <<SentFrame(m, now)>>
                   ELSE IF \E e \in targets : conns[e] = t
                        THEN DeliverFrames(pushed(conn[t].deviceId))
                        ELSE <<>>])
        /\ UNCHANGED <<devices, cli, up, ready, conn, conns>>

\* handleAck: delete the rows of this recipient only, then tell the senders
\* that are online.  A second ack finds no row and is harmless.  Receipts go
\* out in the order of the ack, which is abstracted to that of the rows.
HandleAck(s, ids) ==
    LET d         == conn[s].deviceId
        removed   == Acked(d, ids)
        toSend(t) == {r \in removed : conns[r.from] = t}
        receipts(t) == LET rows == InOrder(toSend(t), Before)
                       IN  [i \in DOMAIN rows |-> ReceiptFrame(rows[i].msg, d)]
    IN  /\ outbox' = outbox \ removed
        /\ Emit([t \in Sock |-> receipts(t)])
        /\ UNCHANGED <<devices, clock, cli, up, ready, conn, conns>>

\* handle: one frame of an authenticated connection.
Handle(s) ==
    \/ HandlePing(s)
    \/ RefuseFrame(s)
    \/ RefuseRate(s)
    \/ \E m \in {m \in Msg : Author[m] = conn[s].deviceId},
          to \in (SUBSET Device) \ {{}},
          now \in {n \in 0..MaxClock : n \in {clock, clock + 1}} :
          HandleSend(s, m, to, now)
    \/ \E ids \in (SUBSET Msg) \ {{}} : HandleAck(s, ids)
=============================================================================
