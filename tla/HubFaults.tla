----------------------------- MODULE HubFaults -----------------------------
(***************************************************************************)
(* The hub when SQLite refuses a write: the administrator's command holds  *)
(* the write lock and no busy timeout is set, or the disk is full.  The    *)
(* statement throws in the middle of a handler, what was done before it    *)
(* stays done, and the catch block of the message handler (server.js lines *)
(* 141-146) answers BAD_REQUEST and leaves the socket as it is.            *)
(*                                                                         *)
(* Three outcomes need no action of their own.  A handler whose first      *)
(* write fails, or whose transaction is rolled back, has the effect of     *)
(* OnGarbage or RefuseFrame.  When the log write of the catch block throws *)
(* too, or a write of the 'close' and 'connection' handlers, the process   *)
(* ends (index.js line 42): that is the action below, if any, followed by  *)
(* Restart.  Reads do not wait for a writer in WAL mode.                   *)
(***************************************************************************)
EXTENDS Sessions

VARIABLE cut        \* history: devices whose flush was broken off

faultVars == <<vars, heard, cut>>

Failure == Error("BAD_REQUEST")

\* The first k of a recipient's rows, in the order of deliverPending.
First(rows, k) == {r \in rows : Cardinality({q \in rows : Before(q, r)}) < k}

\* The rows deliverPending has marked when the UPDATE of the k-th throws,
\* after its frame was written.
Shown(rows, k) == First(rows, k - 1)

\* The sessions that go on keep their history; ds are broken off now.
Broken(ds) == cut' = {d \in cut : conns'[d] = conns[d]} \cup ds

-----------------------------------------------------------------------------
\* onHello, refused: the log throws before the close, whatever the device id.
HelloLogFails(s, f) ==
    /\ HelloVerdict(f) # "OK"
    /\ Reply(s, <<Error(HelloVerdict(f)), Failure>>)
    /\ UNCHANGED <<devices, outbox, clock, cli, up, ready, conn, conns>>
    /\ Broken({})

\* onAuth, refused: the log throws before the close; the nonce is spent.
AuthLogFails(s, f) ==
    LET verdict == AuthVerdict(conn[s].pending, f, conn[s].nonce)
    IN  /\ conn[s].pending # Null
        /\ verdict # "OK"
        /\ conn' = [conn EXCEPT ![s].nonce = Spent(@)]
        /\ Reply(s, <<Error(verdict), Failure>>)
        /\ UNCHANGED <<devices, outbox, clock, cli, up, ready, conns>>
        /\ Broken({})

\* onAuth: the signature is right and last_seen_at cannot be written.
AuthTouchFails(s, f) ==
    /\ Verified(s, f)
    /\ conn' = [conn EXCEPT ![s].nonce = Spent(@)]
    /\ Reply(s, <<Failure>>)
    /\ UNCHANGED <<devices, outbox, clock, cli, up, ready, conns>>
    /\ Broken({})

\* onAuth: the log throws between the registration and the welcome.  The
\* device is online, and neither it nor anybody else is told.
RegisterLogFails(s, f) ==
    LET d       == conn[s].pending
        evicted == {conns[d]} \ {Null, s}
    IN  /\ Verified(s, f)
        /\ conns' = [conns EXCEPT ![d] = s]
        /\ ready' = [t \in Sock |-> IF t \in evicted THEN Closing(t) ELSE ready[t]]
        /\ conn' = [t \in Sock |->
              IF t = s THEN [conn[s] EXCEPT !.authed = TRUE, !.deviceId = d,
                                            !.nonce = Spent(@)]
              ELSE IF t \in evicted THEN Evict(conn[t]) ELSE conn[t]]
        /\ Reply(s, <<Failure>>)
        /\ UNCHANGED <<devices, outbox, clock, cli, up>>
        /\ Broken({d})

\* onAuth: the flush stops after its k-th frame.
FlushFails(s, f) ==
    LET rows == Pending(outbox, conn[s].pending, FALSE)
    IN  /\ Verified(s, f)
        /\ \E k \in 1..Cardinality(rows) :
              /\ Admit(s, Append(DeliverFrames(First(rows, k)), Failure))
              /\ outbox' = MarkDelivered(outbox, Shown(rows, k))
        /\ UNCHANGED <<devices, clock, cli, up>>
        /\ Broken({conn[s].pending})

\* handleSend: the log throws after the COMMIT.  The rows are queued; the
\* sender is not told, and nobody is pushed to.
SendLogFails(s, m, to, now) ==
    LET d == conn[s].deviceId
    IN  /\ clock' = now
        /\ outbox' = outbox \cup Inserted(d, m, Accepted(d, to), now)
        /\ Reply(s, <<Failure>>)
        /\ UNCHANGED <<devices, cli, up, ready, conn, conns>>
        /\ Broken({})

\* handleSend: the push to one target stops after its k-th frame.  Some of
\* the other targets (done) had their turn before it.
PushFails(s, m, to, now) ==
    LET d        == conn[s].deviceId
        accepted == Accepted(d, to)
        targets  == PushTargets(accepted)
        queued   == outbox \cup Inserted(d, m, accepted, now)
        fresh(e) == Pending(queued, e, TRUE)
    IN  \E e \in targets : \E done \in SUBSET (targets \ {e}) :
        \E k \in 1..Cardinality(fresh(e)) :
          /\ clock' = now
          /\ outbox' = MarkDelivered(queued, Shown(fresh(e), k) \cup
                                             UNION {fresh(x) : x \in done})
          /\ Emit([t \in Sock |->
                CASE t = s                         -> <<SentFrame(m, now), Failure>>
                  [] t = conns[e]                  -> DeliverFrames(First(fresh(e), k))
                  [] \E x \in done : conns[x] = t  -> DeliverFrames(fresh(conn[t].deviceId))
                  [] OTHER                         -> <<>>])
          /\ UNCHANGED <<devices, cli, up, ready, conn, conns>>
          /\ Broken({})

\* handleAck: the log throws after the COMMIT; no receipt goes out.
AckLogFails(s, ids) ==
    /\ outbox' = outbox \ Acked(conn[s].deviceId, ids)
    /\ Reply(s, <<Failure>>)
    /\ UNCHANGED <<devices, clock, cli, up, ready, conn, conns>>
    /\ Broken({})

-----------------------------------------------------------------------------
HandshakeFails(s) ==
    \/ \E f \in HelloFrames : HelloLogFails(s, f)
    \/ \E f \in AuthFrames : \/ AuthLogFails(s, f)
                             \/ AuthTouchFails(s, f)
                             \/ RegisterLogFails(s, f)
                             \/ FlushFails(s, f)

HandleFails(s) ==
    \/ \E m \in {m \in Msg : Author[m] = conn[s].deviceId},
          to \in (SUBSET Device) \ {{}},
          now \in {n \in 0..MaxClock : n \in {clock, clock + 1}} :
          SendLogFails(s, m, to, now) \/ PushFails(s, m, to, now)
    \/ \E ids \in (SUBSET Msg) \ {{}} : AckLogFails(s, ids)

WriteFails(s) ==
    /\ ready[s] \in {"open", "closing"}
    /\ \/ ~conn[s].authed /\ HandshakeFails(s)
       \/ conn[s].authed /\ HandleFails(s)

FaultInit == SessionsInit /\ cut = {}

FaultNext ==
    /\ \/ Next /\ Broken({})
       \/ \E s \in Sock : WriteFails(s)
    /\ Listen

FaultSpec == FaultInit /\ [][FaultNext]_faultVars

-----------------------------------------------------------------------------
\* A failed delivery costs the session it happened in and no more (router.js,
\* deliverPending): in any session whose own flush was completed, a queued row
\* was written on this very socket or is still marked as new, so that the
\* next push carries it; and a reconnection makes up for a flush that was not.
DamageConfined ==
    \A d \in Device \ cut : Listening(d) =>
        \A r \in Queue(d) : r.delivered => r.msg \in Told(d).msgs

\* Nobody is believed online who is not (router.js broadcastPresence, server.js
\* 'close' handler), although an arrival may now go unannounced.
PresenceSound ==
    \A d \in Device : Listening(d) => \A e \in Told(d).online : Online(e)

\* Whoever was welcomed at all shares one member list (server.js, onAuth): the
\* welcome and the refresh of the others are not separated by a write.
WelcomedShareMembers ==
    LET welcomed == {d \in Device : Online(d) /\ conn[conns[d]].fp # Null}
    IN  \A d, e \in welcomed : conn[conns[d]].fp = conn[conns[e]].fp
=============================================================================
