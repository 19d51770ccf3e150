------------------------------- MODULE Client -------------------------------
(***************************************************************************)
(* src/scripts/dummy-client.js, the reference client, one per device, and  *)
(* the TCP connection it shares with the hub: a queue of frames in either  *)
(* direction.  A client lives on while its connections come and go.  Its   *)
(* user sends the messages of its own (Author); the app around it sends a  *)
(* message again after a reconnection until the hub confirmed it           *)
(* (PROTOCOL.md section 6, rule 4), with the same msgId.                   *)
(*                                                                         *)
(* presence, receipt and pong only change what is displayed: module        *)
(* Sessions reads them, here they are not put on the wire.  this.messages  *)
(* is displayed too: it gets an entry whenever this.seen does.             *)
(***************************************************************************)
EXTENDS HubState

VARIABLES
    link,       \* this.ws of each device's client, or Null
    welcomed,   \* this.ready
    known,      \* the deviceIds in this.members
    seen,       \* this.seen, a set of msgIds
    tried,      \* what was sent since the last welcome of a new connection
    confirmed,  \* what of it was confirmed by a `sent' frame
    toHub,      \* socket -> frames the hub has not read yet
    toPeer      \* socket -> frames the client has not read yet

wire == <<toHub, toPeer>>
clientVars == <<link, welcomed, known, seen, tried, confirmed, toHub, toPeer>>

\* A message and the members it was encrypted for.
Transmission == [msg : Msg, to : SUBSET Device]

Messages(transmissions) == {x.msg : x \in transmissions}

ClientInit ==
    /\ link = [d \in Device |-> Null]
    /\ welcomed = [d \in Device |-> FALSE]
    /\ known = [d \in Device |-> {}]
    /\ seen = [d \in Device |-> {}]
    /\ tried = [d \in Device |-> {}]
    /\ confirmed = {}
    /\ toHub = [s \in Sock |-> <<>>]
    /\ toPeer = [s \in Sock |-> <<>>]

-----------------------------------------------------------------------------
\* The hub still reads what arrives on s.
Readable(s) == ready[s] \in {"open", "closing"}

\* _send, with the frames of toPeer[link[d]] that stay unread.
Send(d, rest, frames) ==
    /\ toPeer' = [toPeer EXCEPT ![link[d]] = rest]
    /\ toHub' = [toHub EXCEPT ![link[d]] =
                   IF Readable(link[d]) THEN @ \o frames ELSE @]

\* The next frame for d's client.
Incoming(d) == Head(toPeer[link[d]])

Consume(d, frames) == Send(d, Tail(toPeer[link[d]]), frames)

\* _onFrame 'challenge': sign the nonce with the device's own key.
OnChallenge(d) ==
    /\ Incoming(d).t = "challenge"
    /\ Consume(d, <<[t |-> "auth"]>>)
    /\ UNCHANGED <<link, welcomed, known, seen, tried, confirmed>>

\* _onFrame 'welcome', the first of a connection or a refresh.
OnWelcome(d) ==
    /\ Incoming(d).t = "welcome"
    /\ welcomed' = [welcomed EXCEPT ![d] = TRUE]
    /\ known' = [known EXCEPT ![d] = Incoming(d).members]
    /\ tried' = IF welcomed[d] THEN tried ELSE [tried EXCEPT ![d] = {}]
    /\ Consume(d, <<>>)
    /\ UNCHANGED <<link, seen, confirmed>>

\* this.seen does not hold the message yet.
New(d, f) == f.msgId \notin seen[d]

\* _open is null only while the sender's key is not known.  With the key there
\* is a text, or the placeholder of a message that does not decrypt: either is
\* put among the messages and confirmed (PROTOCOL.md lines 322-325).
Opens(d, f) == f.from \in known[d]

\* Mutant of Acks: every delivery is confirmed.
AcksAll(d, f) == TRUE

\* Mutant of Acks: a duplicate is skipped altogether.
AcksNew(d, f) == New(d, f) /\ Opens(d, f)

\* _onFrame 'deliver': a duplicate is confirmed again, the message of a
\* sender who is not known yet is not.
Acks(d, f) == ~New(d, f) \/ Opens(d, f)

\* _onFrame 'deliver': take what is new and can be opened, as a text or a
\* placeholder.
OnDeliver(d) ==
    LET f == Incoming(d)
    IN  /\ f.t = "deliver"
        /\ seen' = IF New(d, f) /\ Opens(d, f)
                    THEN [seen EXCEPT ![d] = @ \cup {f.msgId}]
                    ELSE seen
        /\ Consume(d, IF Acks(d, f) THEN <<[t |-> "ack", ids |-> {f.msgId}]>> ELSE <<>>)
        /\ UNCHANGED <<link, welcomed, known, tried, confirmed>>

\* The app takes a confirmed message out of its own outbox.
OnSent(d) ==
    /\ Incoming(d).t = "sent"
    /\ confirmed' = confirmed \cup {x \in tried[d] : x.msg = Incoming(d).msgId}
    /\ Consume(d, <<>>)
    /\ UNCHANGED <<link, welcomed, known, seen, tried>>

\* An error is reported to the app, which waits for the close.
OnError(d) ==
    /\ Incoming(d).t = "error"
    /\ Consume(d, <<>>)
    /\ UNCHANGED <<link, welcomed, known, seen, tried, confirmed>>

ClientRead(d) ==
    /\ link[d] # Null
    /\ toPeer[link[d]] # <<>>
    /\ OnChallenge(d) \/ OnWelcome(d) \/ OnDeliver(d) \/ OnSent(d) \/ OnError(d)

-----------------------------------------------------------------------------
\* sendText, on a connection that was welcomed: one payload per known member.
ClientSend(d, m) ==
    /\ welcomed[d]
    /\ Author[m] = d
    /\ m \notin Messages(confirmed \cup tried[d])
    /\ known[d] # {}
    /\ tried' = [tried EXCEPT ![d] = @ \cup {[msg |-> m, to |-> known[d]]}]
    /\ Send(d, toPeer[link[d]], <<[t |-> "send", msg |-> m, to |-> known[d]]>>)
    /\ UNCHANGED <<link, welcomed, known, seen, confirmed>>

\* connect, once the former connection is closed: hello as soon as it is open.
ClientConnect(d, s) ==
    /\ link[d] = Null
    /\ \A e \in Device : link[e] # s
    /\ link' = [link EXCEPT ![d] = s]
    /\ toHub' = [toHub EXCEPT ![s] = <<[t |-> "hello", deviceId |-> d]>>]
    /\ toPeer' = [toPeer EXCEPT ![s] = <<>>]
    /\ UNCHANGED <<welcomed, known, seen, tried, confirmed>>

\* The hub's side of the connection has ended, or the hub has closed it and
\* all its frames have been read: the next event is the close.
Ended(s) == \/ ~Readable(s)
            \/ ready[s] = "closing" /\ toPeer[s] = <<>>

\* ws 'close' at the client: what it had not read is lost, what it has
\* written may still reach the hub.
ClientDown(d) ==
    /\ link[d] # Null
    /\ link' = [link EXCEPT ![d] = Null]
    /\ welcomed' = [welcomed EXCEPT ![d] = FALSE]
    /\ toPeer' = [toPeer EXCEPT ![link[d]] = <<>>]
    /\ UNCHANGED <<known, seen, tried, confirmed, toHub>>
=============================================================================
