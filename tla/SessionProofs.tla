--------------------------- MODULE SessionProofs ---------------------------
(***************************************************************************)
(* What the hub tells its peers, for any family, any number of sockets and *)
(* any length of a session: deliveries are complete and in order, presence *)
(* is exact, all hold the same member list, and the hub implements the     *)
(* mailboxes of module Mailbox.                                            *)
(*                                                                         *)
(* Part 1 is about what a peer makes of the frames it reads; 2 and 3 about *)
(* the queue and how any step, of the hub or of its failures, may treat    *)
(* it; 4 to 6 show that the steps of the hub treat it so; 7 to 9 add what  *)
(* is said of members and presence.  The theorems are in parts 10 and 11.  *)
(***************************************************************************)
EXTENDS Sessions, HubProofs

-----------------------------------------------------------------------------
(* Part 1.  What a peer makes of a sequence of frames. *)

\* Of some places in a sequence, one is the last.
LEMMA LatestOf ==
    ASSUME NEW n \in Nat, NEW S \in SUBSET (1..n), S # {}
    PROVE  Latest(S) \in S /\ \A j \in S : j <= Latest(S)
  <1> DEFINE rest == {n - i : i \in S}
  <1>1. rest \in SUBSET Nat /\ rest # {}
    <2>1. \A i \in S : n - i \in Nat
      OBVIOUS
    <2> QED
      BY <2>1
  <1>2. IsWellFoundedOn(OpToRel(<, Nat), Nat)
    BY NatLessThanWellFounded
  <1>3. \E k \in rest : \A j \in rest : k <= j
    <2> HIDE DEF rest
    <2>1. PICK k \in rest : \A j \in rest : <<j, k>> \notin OpToRel(<, Nat)
      BY <1>1, <1>2, WFMin
    <2>2. k \in rest /\ \A j \in rest : ~ (j < k)
      BY <1>1, <2>1 DEF OpToRel
    <2> QED
      BY <1>1, <2>2
  <1>4. PICK i \in S : \A j \in S : n - i <= n - j
    BY <1>3
  <1>5. \A j \in S : j <= i
    BY <1>4
  <1> QED
    BY <1>5 DEF Latest

-----------------------------------------------------------------------------
\* What a peer makes of the messages it is delivered.
LEMMA HeardMessages ==
    ASSUME NEW h, NEW frames, NEW rows, OneQueue(rows), Carries(frames, rows)
    PROVE  LET g == Heard(h, frames) IN
           /\ g.msgs = h.msgs \cup {r.msg : r \in rows}
           /\ rows = {} => g.lastAt = h.lastAt
           /\ rows # {} => \E r \in rows : g.lastAt = r.recvAt
           /\ (h.inOrder /\ \A r \in rows : h.lastAt <= r.recvAt) => g.inOrder
  <1> DEFINE late == {i \in DOMAIN frames : frames[i].t = "deliver"}
             g == Heard(h, frames)
  <1>1. \A r : DeliverFrame(r).msgId = r.msg /\ DeliverFrame(r).recvAt = r.recvAt
    BY DEF DeliverFrame
  <1>2. /\ \A i \in late : \E r \in rows : frames[i] = DeliverFrame(r)
        /\ \A r \in rows : \E i \in late : frames[i] = DeliverFrame(r)
        /\ \A i, j \in late : i < j => frames[i].recvAt <= frames[j].recvAt
        /\ Listing(frames)
    BY DEF Carries
  <1>3. /\ g.msgs = h.msgs \cup {frames[i].msgId : i \in late}
        /\ g.lastAt = IF late = {} THEN h.lastAt ELSE frames[Latest(late)].recvAt
        /\ g.inOrder = (/\ h.inOrder
                        /\ \A i \in late :
                             /\ h.lastAt <= frames[i].recvAt
                             /\ \A j \in late :
                                   i < j => frames[i].recvAt <= frames[j].recvAt)
    BY DEF Heard
  <1>4. Len(frames) \in Nat /\ DOMAIN frames = 1..Len(frames)
    BY <1>2 DEF Listing
  <1>5. late \in SUBSET (1..Len(frames))
    BY <1>4
  <1> HIDE DEF late, g
  <1>6. {frames[i].msgId : i \in late} = {r.msg : r \in rows}
    BY <1>1, <1>2
  <1>7. rows = {} => late = {}
    BY <1>2
  <1>8. rows # {} => late # {} /\ Latest(late) \in late
    BY <1>2, <1>4, <1>5, LatestOf
  <1>9. rows # {} => \E r \in rows : frames[Latest(late)] = DeliverFrame(r)
    BY <1>2, <1>8
  <1>10. (h.inOrder /\ \A r \in rows : h.lastAt <= r.recvAt) => g.inOrder
    BY <1>1, <1>2, <1>3
  <1> QED
    BY <1>1, <1>3, <1>6, <1>7, <1>8, <1>9, <1>10 DEF g

\* What a peer makes of frames that are no welcome and no presence.
LEMMA HeardNoNews ==
    ASSUME NEW h, h.online \subseteq Device, NEW frames,
           \A i \in DOMAIN frames : frames[i].t \notin {"welcome", "presence"}
    PROVE  /\ Heard(h, frames).members = h.members
           /\ Heard(h, frames).online = h.online
  BY DEF Heard

\* ... of a presence frame,
LEMMA HeardPresence ==
    ASSUME NEW h, h.online \subseteq Device, NEW d \in Device, NEW b \in BOOLEAN
    PROVE  /\ Heard(h, <<PresenceFrame(d, b)>>).members = h.members
           /\ Heard(h, <<PresenceFrame(d, b)>>).online =
                 IF b THEN h.online \cup {d} ELSE h.online \ {d}
  <1> DEFINE frames == <<PresenceFrame(d, b)>>
             welcomes == {i \in DOMAIN frames : frames[i].t = "welcome"}
             about(e) == welcomes \cup {i \in DOMAIN frames :
                          frames[i].t = "presence" /\ frames[i].deviceId = e}
  <1>1. DOMAIN frames = {1} /\ frames[1] = PresenceFrame(d, b)
    OBVIOUS
  <1>2. frames[1].t = "presence" /\ frames[1].deviceId = d /\ frames[1].online = b
    BY <1>1 DEF PresenceFrame
  <1> HIDE DEF frames
  <1>3. welcomes = {} /\ about(d) = {1} /\ \A e \in Device \ {d} : about(e) = {}
    BY <1>1, <1>2
  <1>4. Latest({1}) = 1
    BY DEF Latest
  <1>5. SaysOnline(frames[1], d) = b
    BY <1>2 DEF SaysOnline
  <1>6. Heard(h, frames).members = h.members
    BY <1>3 DEF Heard
  <1>7. Heard(h, frames).online =
          {e \in Device : IF about(e) = {} THEN e \in h.online
                          ELSE SaysOnline(frames[Latest(about(e))], e)}
    BY DEF Heard
  <1> HIDE DEF welcomes, about
  <1>8. \A e \in Device : e \in Heard(h, frames).online <=>
                             IF e = d THEN b ELSE e \in h.online
    BY <1>3, <1>4, <1>5, <1>7
  <1>9. Heard(h, frames).online \subseteq Device
    BY <1>7
  <1> QED
    BY <1>6, <1>8, <1>9 DEF frames

\* ... of a welcome followed by none,
LEMMA HeardWelcome ==
    ASSUME NEW h, NEW frames, Listing(frames), Len(frames) >= 1,
           frames[1].t = "welcome", frames[1].online \subseteq Device,
           \A i \in DOMAIN frames : i > 1 => frames[i].t \notin {"welcome", "presence"}
    PROVE  /\ Heard(h, frames).members = frames[1].members
           /\ Heard(h, frames).online = frames[1].online
  <1> DEFINE welcomes == {i \in DOMAIN frames : frames[i].t = "welcome"}
             about(e) == welcomes \cup {i \in DOMAIN frames :
                          frames[i].t = "presence" /\ frames[i].deviceId = e}
  <1>1. DOMAIN frames = 1..Len(frames) /\ Len(frames) \in Nat
    BY DEF Listing
  <1>2. \A i \in DOMAIN frames : i = 1 \/ i > 1
    BY <1>1
  <1>3. welcomes = {1} /\ \A e : about(e) = {1}
    BY <1>1, <1>2
  <1>4. Latest({1}) = 1
    BY DEF Latest
  <1>5. Heard(h, frames).members = frames[1].members
    BY <1>3, <1>4 DEF Heard
  <1>6. Heard(h, frames).online =
          {e \in Device : IF about(e) = {} THEN e \in h.online
                          ELSE SaysOnline(frames[Latest(about(e))], e)}
    BY DEF Heard
  <1> HIDE DEF welcomes, about
  <1> QED
    BY <1>3, <1>4, <1>5, <1>6 DEF SaysOnline

\* ... and of a welcome followed by the arrival of a device.
Refresh(frames, w, d) ==
    Listing(frames) /\ Len(frames) = 2 /\ frames[1] = w /\ frames[2] = PresenceFrame(d, TRUE)

\* ... which leaves the welcome's members, and that device online.
LEMMA HeardRefresh ==
    ASSUME NEW h, NEW w, w.t = "welcome", w.online \subseteq Device,
           NEW d \in Device, NEW frames, Refresh(frames, w, d)
    PROVE  /\ Heard(h, frames).members = w.members
           /\ Heard(h, frames).online = w.online \cup {d}
  <1> DEFINE welcomes == {i \in DOMAIN frames : frames[i].t = "welcome"}
             about(e) == welcomes \cup {i \in DOMAIN frames :
                          frames[i].t = "presence" /\ frames[i].deviceId = e}
  <1>1. DOMAIN frames = {1, 2}
    BY DEF Refresh, Listing
  <1>2. /\ frames[1] = w
        /\ frames[2].t = "presence" /\ frames[2].deviceId = d /\ frames[2].online = TRUE
    BY DEF Refresh, PresenceFrame
  <1>3. welcomes = {1} /\ about(d) = {1, 2} /\ \A e \in Device \ {d} : about(e) = {1}
    BY <1>1, <1>2
  <1>4. Latest({1}) = 1 /\ Latest({1, 2}) = 2
    BY DEF Latest
  <1>5. Heard(h, frames).members = w.members
    BY <1>2, <1>3, <1>4 DEF Heard
  <1>6. Heard(h, frames).online =
          {e \in Device : IF about(e) = {} THEN e \in h.online
                          ELSE SaysOnline(frames[Latest(about(e))], e)}
    BY DEF Heard
  <1>7. SaysOnline(frames[2], d) /\ \A e : SaysOnline(frames[1], e) <=> e \in w.online
    BY <1>2 DEF SaysOnline
  <1> HIDE DEF welcomes, about
  <1>8. \A e \in Device : e \in Heard(h, frames).online <=> e = d \/ e \in w.online
    BY <1>2, <1>3, <1>4, <1>6, <1>7
  <1> QED
    BY <1>5, <1>6, <1>8

-----------------------------------------------------------------------------
(* Part 2.  What holds of the queue and of the peers. *)

\* A peer knows nothing before its device is registered, and never more than
\* the hub has told.
PeerInv ==
    \A s \in Sock :
        /\ (ready[s] # "open" \/ conn[s].deviceId = Null) => heard[s] = SilentPeer
        /\ heard[s].online \subseteq Device
        /\ heard[s].msgs \subseteq Msg
        /\ heard[s].lastAt \in 0..clock
        /\ heard[s].inOrder

\* What was not shown yet is no older than what was shown last.
NewestLast ==
    \A d \in Device : Listening(d) =>
        \A r \in Queue(d) : ~r.delivered => Told(d).lastAt <= r.recvAt

\* The inductive invariant of the queue and its deliveries.
QueueInv == Inv /\ TableInv /\ PeerInv /\ NewestLast

\* Of the rows marked as delivered, all were written on the current socket.
AllShown(d) == \A r \in Queue(d) : r.delivered => r.msg \in Told(d).msgs

-----------------------------------------------------------------------------
\* The sockets' peers hear what the step writes, or are gone.
LEMMA Hears ==
    ASSUME Listen, NEW s \in Sock
    PROVE  heard'[s] = IF ready'[s] = "open" THEN Heard(heard[s], out'[s]) ELSE SilentPeer
  BY DEF Listen

-----------------------------------------------------------------------------
(* Part 3.  How a step may treat the queue. *)

\* The queue before its rows are marked: what is new in it has a key of its
\* own and was not shown yet.
Extends(queued) ==
    /\ Table(queued)
    /\ \A r \in queued :
          /\ r.recvAt <= clock'
          /\ r \notin outbox => /\ ~r.delivered /\ r.recvAt = clock'
                               /\ \A q \in outbox : q.to = r.to => q.msg # r.msg

\* The rows of the device that is registered on s after the step.
Waiting(queued, s) == {r \in queued : conns'[r.to] = s}

\* What an open socket is given of the rows that wait for its device: all that
\* are marked in this step, and none before an older one that stays unshown.
Delivers(s, queued, given, marked) ==
    /\ given \subseteq Waiting(queued, s)
    /\ Carries(out'[s], given)
    /\ \A r \in Waiting(queued, s) : r \in marked => r \in given
    /\ \A r \in Waiting(queued, s), q \in given :
          ~r.delivered /\ r \notin marked => q.recvAt <= r.recvAt

\* A device keeps its session and gets what it was not shown, or it starts one
\* and is shown everything, unless its flush is broken off.
Session(s, queued, given, broken) ==
    \/ /\ ready[s] = "open" /\ \A d \in Device : conns'[d] = s => conns[d] = s
       /\ \A r \in given : ~r.delivered
    \/ /\ heard[s] = SilentPeer
       /\ \A r \in Waiting(queued, s) : r.delivered => r \in given \/ r.to \in broken

\* How every step, of the hub and of its failures, treats the queue.
QueueEffect(broken) ==
    /\ clock <= clock' /\ clock' \in 0..MaxClock
    /\ \E queued \in SUBSET Row :
       \E marked \in SUBSET queued, given \in [Sock -> SUBSET queued] :
          /\ Extends(queued)
          /\ outbox' = MarkDelivered(queued, marked)
          /\ \A s \in Sock : ready'[s] = "open" =>
                /\ Delivers(s, queued, given[s], marked)
                /\ Session(s, queued, given[s], broken)

-----------------------------------------------------------------------------
\* One device at most waits on a socket.
LEMMA WaitingIsOne ==
    ASSUME Inv', NEW queued \in SUBSET Row, Table(queued), NEW s \in Sock,
           NEW given \in SUBSET Waiting(queued, s)
    PROVE  OneQueue(given)
  <1>1. \A r \in given : r.to \in Device /\ conns'[r.to] = s
    BY DEF Waiting, Row
  <1>2. \A r \in given : r.to = conn'[s].deviceId
    BY <1>1, SockAssumption DEF Inv, RegistryConsistent, Online
  <1>3. given \subseteq {r \in queued : r.to = conn'[s].deviceId}
    BY <1>2 DEF Waiting
  <1> QED
    BY <1>3, QueueIsOne

\* What was shown last on a socket is no newer than what waits there unshown.
LEMMA NothingNewer ==
    ASSUME QueueInv, clock <= clock', clock' \in 0..MaxClock,
           NEW queued \in SUBSET Row, Extends(queued),
           NEW s \in Sock, NEW r \in Waiting(queued, s), ~r.delivered,
           \/ ready[s] = "open" /\ \A d \in Device : conns'[d] = s => conns[d] = s
           \/ heard[s] = SilentPeer
    PROVE  heard[s].lastAt <= r.recvAt
  <1>1. r \in Row /\ r.to \in Device /\ r.recvAt \in Nat /\ conns'[r.to] = s
    <2>1. r \in Row /\ conns'[r.to] = s
      BY DEF Waiting
    <2>2. r.to \in Device /\ r.recvAt \in 0..MaxClock
      BY <2>1 DEF Row
    <2> QED
      BY <2>1, <2>2, ClockAssumption
  <1>2. CASE heard[s] = SilentPeer
    BY <1>1, <1>2 DEF SilentPeer
  <1>3. CASE ready[s] = "open" /\ \A d \in Device : conns'[d] = s => conns[d] = s
    <2>1. conns[r.to] = s /\ Listening(r.to) /\ Told(r.to) = heard[s]
      BY <1>1, <1>3, SockAssumption DEF Listening, Told, Online
    <2>2. CASE r \in outbox
      BY <1>1, <2>1, <2>2 DEF QueueInv, NewestLast, Queue
    <2>3. CASE r \notin outbox
      <3>1. r.recvAt = clock'
        BY <2>3 DEF Extends, Waiting
      <3>2. heard[s].lastAt \in 0..clock
        BY DEF QueueInv, PeerInv
      <3>3. clock \in Nat /\ clock' \in Nat
        BY ClockAssumption DEF QueueInv, Inv, TypeOK
      <3> QED
        BY <3>1, <3>2, <3>3
    <2> QED
      BY <2>2, <2>3
  <1> QED
    BY <1>2, <1>3

\* A step that treats the queue so keeps the deliveries in their order, and of
\* every session that is not broken off, whatever is marked was written on it.
LEMMA QueueStep ==
    ASSUME QueueInv, Inv', Listen, NEW broken, QueueEffect(broken)
    PROVE  /\ TableInv' /\ NewestLast'
           /\ \A s \in Sock : /\ heard'[s].msgs \subseteq Msg
                              /\ heard'[s].lastAt \in 0..clock'
                              /\ heard'[s].inOrder
           /\ \A d \in Device \ broken :
                 Listening(d)' /\ (Listening(d) /\ conns'[d] = conns[d] => AllShown(d))
                    => AllShown(d)'
  <1>1. PICK queued \in SUBSET Row :
          \E marked \in SUBSET queued, given \in [Sock -> SUBSET queued] :
             /\ Extends(queued)
             /\ outbox' = MarkDelivered(queued, marked)
             /\ \A s \in Sock : ready'[s] = "open" =>
                   /\ Delivers(s, queued, given[s], marked)
                   /\ Session(s, queued, given[s], broken)
    BY DEF QueueEffect
  <1>2. PICK marked \in SUBSET queued, given \in [Sock -> SUBSET queued] :
             /\ Extends(queued)
             /\ outbox' = MarkDelivered(queued, marked)
             /\ \A s \in Sock : ready'[s] = "open" =>
                   /\ Delivers(s, queued, given[s], marked)
                   /\ Session(s, queued, given[s], broken)
    BY <1>1
  <1>3. /\ clock <= clock' /\ clock' \in 0..MaxClock
        /\ clock \in Nat /\ clock' \in Nat /\ Table(queued)
    BY <1>2, ClockAssumption DEF QueueEffect, Extends, QueueInv, Inv, TypeOK
  \* what marking leaves of a row
  <1>4. \A r \in outbox' : \E q \in queued :
           /\ r.to = q.to /\ r.msg = q.msg /\ r.recvAt = q.recvAt
           /\ ~r.delivered => r = q /\ q \notin marked
           /\ r.delivered => q.delivered \/ q \in marked
    BY <1>2 DEF MarkDelivered, Row
  <1>5. TableInv'
    <2>1. Table(outbox')
      BY <1>2, <1>3, MarkedTable
    <2>2. \A r \in outbox' : r.recvAt <= clock'
      BY <1>2, <1>4 DEF Extends
    <2> QED
      BY <2>1, <2>2 DEF TableInv, Table
  \* one open socket
  <1>6. ASSUME NEW s \in Sock, ready'[s] = "open"
        PROVE  /\ heard'[s].msgs = heard[s].msgs \cup {r.msg : r \in given[s]}
               /\ given[s] = {} => heard'[s].lastAt = heard[s].lastAt
               /\ given[s] # {} => \E r \in given[s] : heard'[s].lastAt = r.recvAt
               /\ heard'[s].inOrder
    <2>1. OneQueue(given[s])
      BY <1>2, <1>3, <1>6, WaitingIsOne DEF Delivers
    <2>2. heard'[s] = Heard(heard[s], out'[s]) /\ Carries(out'[s], given[s])
      BY <1>2, <1>6 DEF Listen, Delivers
    <2>3. heard[s].inOrder
      BY DEF QueueInv, PeerInv
    <2>4. \A r \in given[s] : heard[s].lastAt <= r.recvAt
      <3> SUFFICES ASSUME NEW r \in given[s] PROVE heard[s].lastAt <= r.recvAt
        OBVIOUS
      <3>1. r \in Waiting(queued, s)
        BY <1>2, <1>6 DEF Delivers
      <3>2. r.recvAt \in Nat
        BY <3>1, ClockAssumption DEF Waiting, Row
      <3>3. CASE heard[s] = SilentPeer
        BY <3>2, <3>3 DEF SilentPeer
      <3>4. CASE heard[s] # SilentPeer
        <4>1. /\ ready[s] = "open" /\ \A d \in Device : conns'[d] = s => conns[d] = s
              /\ ~r.delivered
          BY <1>2, <1>6, <3>4 DEF Session
        <4> QED
          BY <1>2, <1>3, <3>1, <4>1, NothingNewer
      <3> QED
        BY <3>3, <3>4
    <2> QED
      BY <2>1, <2>2, <2>3, <2>4, HeardMessages
  <1>7. \A s \in Sock : /\ heard'[s].msgs \subseteq Msg
                        /\ heard'[s].lastAt \in 0..clock'
                        /\ heard'[s].inOrder
    <2> SUFFICES ASSUME NEW s \in Sock
                 PROVE  /\ heard'[s].msgs \subseteq Msg
                        /\ heard'[s].lastAt \in 0..clock'
                        /\ heard'[s].inOrder
      OBVIOUS
    <2>1. CASE ready'[s] # "open"
      BY <1>3, <2>1 DEF Listen, SilentPeer
    <2>2. CASE ready'[s] = "open"
      <3>1. heard[s].msgs \subseteq Msg /\ heard[s].lastAt \in 0..clock
        BY DEF QueueInv, PeerInv
      <3>2. given[s] \subseteq queued
        BY <1>2
      <3>3. \A r \in queued : r.msg \in Msg /\ r.recvAt \in 0..clock'
        <4>1. \A r \in queued : r.msg \in Msg /\ r.recvAt \in 0..MaxClock /\ r.recvAt <= clock'
          BY <1>2 DEF Row, Extends
        <4> QED
          BY <1>3, <4>1, ClockAssumption
      <3>4. heard'[s].msgs \subseteq Msg
        BY <1>6, <2>2, <3>1, <3>2, <3>3
      <3>5. heard'[s].lastAt \in 0..clock'
        <4>1. heard'[s].lastAt = heard[s].lastAt \/
              \E r \in queued : heard'[s].lastAt = r.recvAt
          BY <1>6, <2>2, <3>2
        <4>2. heard[s].lastAt \in 0..clock'
          BY <1>3, <3>1
        <4> QED
          BY <3>3, <4>1, <4>2
      <3> QED
        BY <1>6, <2>2, <3>4, <3>5
    <2> QED
      BY <2>1, <2>2
  <1>8. NewestLast'
    <2> SUFFICES ASSUME NEW d \in Device, Listening(d)', NEW r \in outbox',
                        r.to = d, ~r.delivered
                 PROVE  heard'[conns'[d]].lastAt <= r.recvAt
      BY DEF NewestLast, Queue, Told
    <2> DEFINE s == conns'[d]
    <2>1. s \in Sock /\ ready'[s] = "open"
      BY DEF Listening, Online, Inv, TypeOK
    <2>2. r \in queued /\ r \notin marked
      BY <1>4
    <2>3. r \in Waiting(queued, s)
      BY <2>2 DEF Waiting
    <2> HIDE DEF s
    <2>4. CASE given[s] = {}
      <3>1. \/ ready[s] = "open" /\ \A e \in Device : conns'[e] = s => conns[e] = s
            \/ heard[s] = SilentPeer
        BY <1>2, <2>1 DEF Session
      <3>2. heard[s].lastAt <= r.recvAt
        BY <1>2, <1>3, <2>1, <2>3, <3>1, NothingNewer
      <3> QED
        BY <1>6, <2>1, <2>4, <3>2 DEF s
    <2>5. CASE given[s] # {}
      <3>1. PICK q \in given[s] : heard'[s].lastAt = q.recvAt
        BY <1>6, <2>1, <2>5
      <3>2. q.recvAt <= r.recvAt
        BY <1>2, <2>1, <2>2, <2>3, <3>1 DEF Delivers
      <3> QED
        BY <3>1, <3>2 DEF s
    <2> QED
      BY <2>4, <2>5
  <1>9. ASSUME NEW d \in Device \ broken, Listening(d)',
               Listening(d) /\ conns'[d] = conns[d] => AllShown(d)
        PROVE  AllShown(d)'
    <2> SUFFICES ASSUME NEW r \in outbox', r.to = d, r.delivered
                 PROVE  r.msg \in heard'[conns'[d]].msgs
      BY DEF AllShown, Queue, Told
    <2> DEFINE s == conns'[d]
    <2>1. s \in Sock /\ ready'[s] = "open"
      BY <1>9 DEF Listening, Online, Inv, TypeOK
    <2>2. PICK q \in queued : /\ q.to = d /\ r.msg = q.msg
                              /\ q.delivered \/ q \in marked
      BY <1>4
    <2>3. q \in Waiting(queued, s)
      BY <2>2 DEF Waiting
    <2>4. CASE q \in given[s]
      BY <1>6, <2>1, <2>2, <2>4
    <2>5. CASE q \notin given[s]
      <3>1. q.delivered
        BY <1>2, <2>1, <2>2, <2>3, <2>5 DEF Delivers
      <3>2. ready[s] = "open" /\ conns[d] = s
        BY <1>2, <2>1, <2>2, <2>3, <2>5, <3>1 DEF Session
      <3>3. Listening(d) /\ AllShown(d)
        BY <1>9, <2>1, <3>2, SockAssumption DEF Listening, Online
      <3>4. q \in outbox
        BY <1>2, <3>1 DEF Extends
      <3>5. q.msg \in heard[s].msgs
        BY <2>2, <3>1, <3>2, <3>3, <3>4 DEF AllShown, Queue, Told
      <3> QED
        BY <1>6, <2>1, <2>2, <3>5
    <2> QED
      BY <2>4, <2>5
  <1> QED
    BY <1>5, <1>7, <1>8, <1>9

-----------------------------------------------------------------------------
(* Part 4.  The kinds of steps the hub takes. *)

\* Frames that tell a peer nothing of the family, and one whose device is not
\* registered nothing at all.
Plain(s, frames) ==
    /\ Listing(frames)
    /\ \A i \in DOMAIN frames :
          /\ frames[i].t \notin {"welcome", "presence", "deliver"}
          /\ conn[s].deviceId = Null => frames[i].t \in {"error", "challenge"}

\* A step that registers nobody, and writes plain frames only.
Uneventful ==
    /\ clock' = clock /\ outbox' \subseteq outbox /\ conns' = conns
    /\ \A s \in Sock : ready'[s] = "open" =>
          /\ ready[s] \in {"open", "free"}
          /\ Plain(s, out'[s])
          /\ conn'[s].deviceId = conn[s].deviceId

\* A step after which no socket is open.
Wiped ==
    /\ clock' = clock /\ outbox' \subseteq outbox
    /\ \A s \in Sock : ready'[s] # "open"

\* The refusals, the challenge and the pong are plain.
LEMMA ShortPlain ==
    ASSUME NEW s \in Sock
    PROVE  /\ Plain(s, <<>>)
           /\ \A a : Plain(s, <<Error(a)>>)
           /\ \A a, b : Plain(s, <<Error(a), Error(b)>>)
           /\ Plain(s, <<[t |-> "challenge"]>>)
           /\ conn[s].deviceId # Null => Plain(s, <<[t |-> "pong"]>>)
  <1>1. \A x : DOMAIN <<x>> = {1} /\ <<x>>[1] = x /\ Listing(<<x>>)
    <2>1. \A x : DOMAIN <<x>> = {1}
      OBVIOUS
    <2> QED
      BY <2>1, ShortListings
  <1>2. \A x, y : DOMAIN <<x, y>> = {1, 2} /\ <<x, y>>[1] = x /\ <<x, y>>[2] = y
                  /\ Listing(<<x, y>>)
    <2>1. \A x, y : DOMAIN <<x, y>> = {1, 2}
      OBVIOUS
    <2> QED
      BY <2>1, ShortListings
  <1>3. \A a : Error(a).t = "error"
    BY DEF Error
  <1>4. Plain(s, <<>>)
    BY ShortListings DEF Plain
  <1>5. \A x : x.t = "error" => Plain(s, <<x>>)
    BY <1>1 DEF Plain
  <1>6. \A x, y : x.t = "error" /\ y.t = "error" => Plain(s, <<x, y>>)
    BY <1>2 DEF Plain
  <1>7. \A x : x.t = "challenge" => Plain(s, <<x>>)
    BY <1>1 DEF Plain
  <1>8. \A x : conn[s].deviceId # Null /\ x.t = "pong" => Plain(s, <<x>>)
    BY <1>1 DEF Plain
  <1>9. [t |-> "challenge"].t = "challenge" /\ [t |-> "pong"].t = "pong"
    OBVIOUS
  <1> QED
    BY <1>3, <1>4, <1>5, <1>6, <1>7, <1>8, <1>9

\* So is writing nothing
LEMMA QuietPlain == Quiet => \A s \in Sock : Plain(s, out'[s])
  BY ShortPlain DEF Quiet

\* ... and a plain reply to one socket.
LEMMA ReplyPlain ==
    ASSUME NEW s \in Sock, NEW frames, Plain(s, frames), Reply(s, frames)
    PROVE  \A t \in Sock : Plain(t, out'[t])
  BY ShortPlain DEF Reply, Emit

\* The receipts of an ack go to senders that are registered.
LEMMA ReceiptsPlain ==
    ASSUME Inv, Table(outbox), NEW s \in Sock, NEW ids \in SUBSET Msg, HandleAck(s, ids)
    PROVE  \A t \in Sock : Plain(t, out'[t])
  <1> SUFFICES ASSUME NEW t \in Sock PROVE Plain(t, out'[t])
    OBVIOUS
  <1> DEFINE d == conn[s].deviceId
             rows == {r \in Acked(d, ids) : conns[r.from] = t}
             list == InOrder(rows, Before)
             receipts == [i \in DOMAIN list |-> ReceiptFrame(list[i].msg, d)]
  <1>1. out'[t] = IF ready[t] = "open" THEN receipts ELSE <<>>
    BY DEF HandleAck, Emit
  <1>2. IsFiniteSet(rows)
    BY FS_Subset DEF Table, Acked, Queue
  <1>3. Cardinality(rows) \in Nat
    BY <1>2, FS_CardinalityType
  <1>4. DOMAIN list = 1..Cardinality(rows)
    BY DEF InOrder
  <1>5. rows # {} => conn[t].deviceId # Null
    BY SockAssumption DEF Acked, Queue, Row, Table, Inv, RegistryConsistent, Online, TypeOK
  <1>6. rows = {} => Cardinality(rows) = 0
    BY FS_EmptySet
  <1> HIDE DEF rows, list
  <1>7. \A i \in DOMAIN receipts : receipts[i].t = "receipt"
    BY DEF ReceiptFrame
  <1>8. DOMAIN receipts = 1..Cardinality(rows)
        /\ receipts = [i \in 1..Cardinality(rows) |-> receipts[i]]
    BY <1>4
  <1> HIDE DEF receipts
  <1>9. Listing(receipts)
    BY <1>3, <1>8, ListingOf
  <1>10. conn[t].deviceId = Null => DOMAIN receipts = {}
    BY <1>5, <1>6, <1>8
  <1>11. Plain(t, receipts)
    BY <1>7, <1>9, <1>10 DEF Plain
  <1> QED
    BY <1>1, <1>11, ShortPlain

\* The steps of the hub, by what they write.
SendStep == \E s \in Sock, m \in Msg, to \in SUBSET Device, now \in 0..MaxClock :
    /\ conn[s].authed /\ now \in {clock, clock + 1}
    /\ Author[m] = conn[s].deviceId
    /\ HandleSend(s, m, to, now)

\* onAuth, signature verified.
AuthStep == \E s \in Sock, f \in AuthFrames :
    /\ ready[s] \in {"open", "closing"} /\ ~conn[s].authed /\ AuthAccepted(s, f)

\* The 'close' handler of a registered connection.
CloseStep == \E s \in Sock : OnClose(s) /\ HoldsPlace(s)

\* A handshake that fails or goes on.
LEMMA HandshakeKinds ==
    ASSUME QueueInv, NEW s \in Sock, ready[s] \in {"open", "closing"}, ~conn[s].authed,
           OnUnauthenticatedFrame(s)
    PROVE  Uneventful \/ AuthStep
  <1>1. \A t \in Sock : conn[t] \in ConnObject /\ ready[t] \in SockState
    BY DEF QueueInv, Inv, TypeOK
  <1>2. ASSUME NEW frames, Plain(s, frames), Reply(s, frames), UNCHANGED <<clock, outbox, conns>>,
               ready' = ready \/ ready' = Dismissed(s),
               \A t \in Sock : conn'[t].deviceId = conn[t].deviceId
        PROVE  Uneventful
    <2>1. \A t \in Sock : ready'[t] = "open" => ready[t] = "open"
      BY <1>1, <1>2 DEF Dismissed, Closing, QueueInv, Inv, TypeOK
    <2> QED
      BY <1>2, <2>1, ReplyPlain DEF Uneventful
  <1>3. CASE OnUnexpected(s)
    BY <1>2, <1>3, ShortPlain DEF OnUnexpected
  <1>4. ASSUME NEW f \in HelloFrames, HelloRefused(s, f)
        PROVE  Uneventful
    BY <1>2, <1>4, ShortPlain DEF HelloRefused
  <1>5. ASSUME NEW f \in HelloFrames, HelloAccepted(s, f)
        PROVE  Uneventful
    <2> DEFINE n == IF ready[s] = "open" THEN "shown" ELSE "sealed"
    <2>1. conn' = [conn EXCEPT ![s] = [conn[s] EXCEPT !.pending = f.deviceId, !.nonce = n]]
      BY <1>5 DEF HelloAccepted, QueueInv, Inv, TypeOK
    <2> HIDE DEF n
    <2>2. \A t \in Sock : conn'[t].deviceId = conn[t].deviceId
      BY <1>1, <2>1 DEF QueueInv, Inv, TypeOK, ConnObject
    <2>3. /\ Reply(s, <<[t |-> "challenge"]>>)
          /\ UNCHANGED <<clock, outbox, conns, ready>>
      BY <1>5 DEF HelloAccepted
    <2> QED
      BY <1>2, <2>2, <2>3, ShortPlain
  <1>6. CASE AuthWithoutHello(s)
    BY <1>2, <1>6, ShortPlain DEF AuthWithoutHello
  <1>7. ASSUME NEW f \in AuthFrames, AuthRefused(s, f)
        PROVE  Uneventful
    <2> DEFINE v == AuthVerdict(conn[s].pending, f, conn[s].nonce)
    <2>1. conn' = [conn EXCEPT ![s] = [conn[s] EXCEPT !.nonce = "none"]]
      BY <1>7 DEF AuthRefused, Spent, QueueInv, Inv, TypeOK
    <2>2. \A t \in Sock : conn'[t].deviceId = conn[t].deviceId
      BY <1>1, <2>1 DEF QueueInv, Inv, TypeOK, ConnObject
    <2>3. /\ Reply(s, <<Error(v)>>) /\ ready' = Dismissed(s)
          /\ UNCHANGED <<clock, outbox, conns>>
      BY <1>7 DEF AuthRefused
    <2> HIDE DEF v
    <2> QED
      BY <1>2, <2>2, <2>3, ShortPlain
  <1> QED
    BY <1>3, <1>4, <1>5, <1>6, <1>7 DEF OnUnauthenticatedFrame, AuthStep

\* One frame received, by what it writes (server.js, message handler).
LEMMA MessageKinds ==
    ASSUME QueueInv, NEW s \in Sock, OnMessage(s)
    PROVE  Uneventful \/ AuthStep \/ SendStep
  <1>1. CASE OnGarbage(s)
    <2>1. \A t \in Sock : Plain(t, out'[t])
      BY <1>1, ReplyPlain, ShortPlain DEF OnGarbage
    <2> QED
      BY <1>1, <2>1 DEF OnGarbage, Uneventful
  <1>2. CASE ~conn[s].authed /\ OnUnauthenticatedFrame(s)
    BY <1>2, HandshakeKinds DEF OnMessage
  <1>3. CASE conn[s].authed /\ Handle(s)
    <2>1. conn[s].deviceId # Null
      BY <1>3 DEF QueueInv, Inv, RegistryConsistent
    <2>2. CASE HandlePing(s) \/ RefuseFrame(s) \/ RefuseRate(s)
      <3>1. \A t \in Sock : Plain(t, out'[t])
        BY <2>1, <2>2, ReplyPlain, ShortPlain DEF HandlePing, RefuseFrame, RefuseRate
      <3> QED
        BY <2>2, <3>1 DEF HandlePing, RefuseFrame, RefuseRate, Uneventful
    <2>3. ASSUME NEW ids \in SUBSET Msg, HandleAck(s, ids)
          PROVE  Uneventful
      <3>1. \A t \in Sock : Plain(t, out'[t])
        BY <2>3, ReceiptsPlain DEF QueueInv, TableInv
      <3> QED
        BY <2>3, <3>1 DEF HandleAck, Uneventful
    <2> QED
      BY <1>3, <2>2, <2>3 DEF Handle, SendStep
  <1> QED
    BY <1>1, <1>2, <1>3 DEF OnMessage

\* Every step of the hub is of one of these kinds.
LEMMA NextKinds ==
    ASSUME QueueInv, Next
    PROVE  Uneventful \/ Wiped \/ AuthStep \/ SendStep \/ CloseStep
  <1>1. ASSUME NEW s \in Sock, Connect(s) \/ RejectPeer(s)
        PROVE  Uneventful
    <2>1. conn[s] = NewConn /\ NewConn.deviceId = Null
      BY <1>1 DEF Connect, RejectPeer, QueueInv, Inv, HandshakeInv, NewConn
    <2>2. /\ ready \in [Sock -> SockState] /\ conn \in [Sock -> ConnObject]
          /\ conn' = [conn EXCEPT ![s] = NewConn]
          /\ ready[s] = "free" /\ UNCHANGED <<clock, outbox, conns>>
      BY <1>1 DEF Connect, RejectPeer, QueueInv, Inv, TypeOK
    <2>3. \A t \in Sock : conn'[t].deviceId = conn[t].deviceId
      BY <2>1, <2>2
    <2>4. \A t \in Sock : ready'[t] = "open" =>
             ready[t] \in {"open", "free"} /\ Plain(t, out'[t])
      <3>1. CASE Connect(s)
        BY <2>2, <3>1, QuietPlain DEF Connect
      <3>2. CASE RejectPeer(s)
        <4>1. \A t \in Sock : ready'[t] = "open" => t # s /\ ready[t] = "open" /\ out'[t] = <<>>
          BY <2>2, <3>2 DEF RejectPeer
        <4> QED
          BY <4>1, ShortPlain
      <3> QED
        BY <1>1, <3>1, <3>2
    <2> QED
      BY <2>2, <2>3, <2>4 DEF Uneventful
  <1>2. ASSUME NEW s \in Sock, NonceExpires(s)
        PROVE  Uneventful
    <2>1. conn' = [conn EXCEPT ![s] = [conn[s] EXCEPT !.nonce = "stale"]]
      BY <1>2 DEF NonceExpires, QueueInv, Inv, TypeOK
    <2>2. \A t \in Sock : conn'[t].deviceId = conn[t].deviceId
      BY <2>1 DEF QueueInv, Inv, TypeOK, ConnObject
    <2> QED
      BY <1>2, <2>2, QuietPlain DEF NonceExpires, Uneventful
  <1>3. ASSUME NEW s \in Sock, SocketDown(s)
        PROVE  Uneventful
    <2>1. \A t \in Sock : ready'[t] = "open" => ready[t] = "open"
      BY <1>3 DEF SocketDown, QueueInv, Inv, TypeOK
    <2> QED
      BY <1>3, <2>1, QuietPlain DEF SocketDown, Uneventful
  <1>4. ASSUME NEW s \in Sock, OnClose(s)
        PROVE  Uneventful \/ CloseStep
    <2>1. CASE HoldsPlace(s)
      BY <1>4, <2>1 DEF CloseStep
    <2>2. CASE ~HoldsPlace(s)
      <3>1. \A t \in Sock : ready'[t] = "open" => t # s /\ ready[t] = "open" /\ conn'[t] = conn[t]
        BY <1>4 DEF OnClose, QueueInv, Inv, TypeOK
      <3>2. \A t \in Sock : out'[t] = <<>>
        BY <1>4, <2>2 DEF OnClose, Emit
      <3> QED
        BY <1>4, <2>2, <3>1, <3>2, ShortPlain DEF OnClose, Uneventful
    <2> QED
      BY <2>1, <2>2
  <1>5. CASE Shutdown
    BY <1>5 DEF Shutdown, Closing, Wiped
  <1>6. CASE Restart
    BY <1>6 DEF Restart, Wiped
  <1>7. CASE EnrollNext
    <2>1. UNCHANGED <<clock, ready, conn, conns>> /\ outbox' \subseteq outbox /\ Quiet
      BY <1>7 DEF EnrollNext, EnrollDevice, RemoveDevice, PurgeQueue, RemoveAborts
    <2> QED
      BY <2>1, QuietPlain DEF Uneventful
  <1>8. ASSUME NEW s \in Sock, OnMessage(s)
        PROVE  Uneventful \/ AuthStep \/ SendStep
    BY <1>8, MessageKinds
  <1> QED
    BY <1>1, <1>2, <1>3, <1>4, <1>5, <1>6, <1>7, <1>8 DEF Next, ServerNext

-----------------------------------------------------------------------------
(* Part 5.  Steps without news, and the send. *)

\* A step that delivers nothing and adds no row.
LEMMA UnmarkedQueue ==
    ASSUME QueueInv, clock' = clock, outbox' \subseteq outbox, NEW broken,
           \A s \in Sock : ready'[s] = "open" =>
              /\ Carries(out'[s], {})
              /\ \/ /\ ready[s] \in {"open", "free"}
                    /\ \A d \in Device : conns'[d] = s => conns[d] = s
                 \/ /\ heard[s] = SilentPeer
                    /\ \A r \in Waiting(outbox', s) : r.to \in broken
    PROVE  QueueEffect(broken)
  <1> DEFINE given == [s \in Sock |-> {}]
  <1>1. Table(outbox') /\ outbox' \in SUBSET Row
    <2>1. Table(outbox')
      BY SmallerTable DEF QueueInv, TableInv
    <2> QED
      BY <2>1 DEF Table
  <1>2. clock <= clock' /\ clock' \in 0..MaxClock
    BY ClockAssumption DEF QueueInv, Inv, TypeOK
  <1>3. Extends(outbox')
    BY <1>1 DEF Extends, QueueInv, TableInv
  <1>4. outbox' = MarkDelivered(outbox', {})
    BY DEF MarkDelivered
  <1>5. ASSUME NEW s \in Sock, ready'[s] = "open"
        PROVE  Delivers(s, outbox', {}, {}) /\ Session(s, outbox', {}, broken)
    <2>1. Delivers(s, outbox', {}, {})
      BY <1>5 DEF Delivers
    <2>2. CASE ready[s] = "free" /\ \A d \in Device : conns'[d] = s => conns[d] = s
      <3>1. heard[s] = SilentPeer
        BY <2>2 DEF QueueInv, PeerInv
      <3>2. \A d \in Device : conns[d] # s
        BY <2>2, SockAssumption DEF QueueInv, Inv, RegistryConsistent, Online
      <3>3. Waiting(outbox', s) = {}
        BY <1>1, <2>2, <3>2 DEF Waiting, Row
      <3> QED
        BY <2>1, <3>1, <3>3 DEF Session
    <2>3. CASE ready[s] = "open" /\ \A d \in Device : conns'[d] = s => conns[d] = s
      BY <2>1, <2>3 DEF Session
    <2>4. CASE heard[s] = SilentPeer /\ \A r \in Waiting(outbox', s) : r.to \in broken
      BY <2>1, <2>4 DEF Session
    <2> QED
      BY <1>5, <2>2, <2>3, <2>4
  <1>6. given \in [Sock -> SUBSET outbox'] /\ \A s \in Sock : given[s] = {}
    OBVIOUS
  <1> HIDE DEF given
  <1>7. \E marked \in SUBSET outbox', shown \in [Sock -> SUBSET outbox'] :
           /\ Extends(outbox')
           /\ outbox' = MarkDelivered(outbox', marked)
           /\ \A s \in Sock : ready'[s] = "open" =>
                 /\ Delivers(s, outbox', shown[s], marked)
                 /\ Session(s, outbox', shown[s], broken)
    <2>1. {} \in SUBSET outbox'
      OBVIOUS
    <2>2. \A s \in Sock : ready'[s] = "open" =>
             Delivers(s, outbox', given[s], {}) /\ Session(s, outbox', given[s], broken)
      BY <1>5, <1>6
    <2> QED
      BY <1>3, <1>4, <1>6, <2>1, <2>2
  <1> QED
    BY <1>1, <1>2, <1>7 DEF QueueEffect

\* What no step but an admission and a close does: registrations stay, nothing
\* is said of members or presence, and a peer without a device hears no more
\* than errors and challenges.
NoNews ==
    /\ conns' = conns
    /\ \A s \in Sock : ready'[s] = "open" =>
          /\ ready[s] \in {"open", "free"}
          /\ Listing(out'[s])
          /\ \A i \in DOMAIN out'[s] :
                /\ out'[s][i].t \notin {"welcome", "presence"}
                /\ conn[s].deviceId = Null => out'[s][i].t \in {"error", "challenge"}
          /\ conn'[s].deviceId = conn[s].deviceId

\* Such steps leave the queue and what was told of it alone.
LEMMA UneventfulEffect ==
    ASSUME QueueInv, Uneventful
    PROVE  NoNews /\ QueueEffect({})
  <1>1. NoNews
    BY DEF Uneventful, NoNews, Plain
  <1>2. \A s \in Sock : ready'[s] = "open" => Carries(out'[s], {})
    BY IdleCarries DEF Uneventful, Plain
  <1>3. QueueEffect({})
    BY <1>2, UnmarkedQueue DEF Uneventful
  <1> QED
    BY <1>1, <1>3

\* A process that ends takes all sessions with it.
LEMMA WipedEffect ==
    ASSUME QueueInv, Wiped
    PROVE  QueueEffect({})
  BY UnmarkedQueue DEF Wiped

-----------------------------------------------------------------------------
\* A send: the rows written are new ones.
LEMMA SendExtends ==
    ASSUME QueueInv, NEW d \in Device, NEW m \in Msg, NEW to \in SUBSET Device,
           NEW now \in 0..MaxClock, now \in {clock, clock + 1}, clock' = now
    PROVE  /\ clock <= clock' /\ clock' \in 0..MaxClock
           /\ Extends(outbox \cup Inserted(d, m, Accepted(d, to), now))
  <1> DEFINE added == Inserted(d, m, Accepted(d, to), now)
  <1>1. clock <= clock' /\ clock' \in Nat /\ clock \in Nat
    BY ClockAssumption DEF QueueInv, Inv, TypeOK
  <1>2. Accepted(d, to) \in SUBSET Device /\ TableInv
    BY DEF Accepted, QueueInv
  <1>3. /\ Table(outbox \cup added)
        /\ \A r \in added : r.recvAt = now /\ r.delivered = FALSE
    <2> DEFINE accepted == Accepted(d, to)
    <2>1. accepted \in SUBSET Device /\ TableInv
      BY <1>2
    <2> HIDE DEF accepted
    <2>2. /\ Table(outbox \cup Inserted(d, m, accepted, now))
          /\ \A r \in Inserted(d, m, accepted, now) :
                /\ r \notin outbox /\ r.to \in accepted /\ r.msg = m
                /\ r.recvAt = now /\ r.delivered = FALSE
      BY <2>1, InsertedTable
    <2> QED
      BY <2>2 DEF accepted
  <1>4. \A r \in outbox : r.recvAt <= clock'
    <2>1. \A r \in outbox : r.recvAt \in Nat /\ r.recvAt <= clock
      BY <1>2, ClockAssumption DEF TableInv, Table, Row
    <2> QED
      BY <1>1, <2>1
  <1> HIDE DEF added
  <1>5. \A r \in added, q \in outbox : r \notin outbox /\ q.to = r.to => q.msg # r.msg
    BY <1>3 DEF Table
  <1>6. Extends(outbox \cup added)
    BY <1>1, <1>3, <1>4, <1>5 DEF Extends
  <1> QED
    BY <1>1, <1>6 DEF added

\* ... and whatever of it is pushed was not shown before.
LEMMA PushQueue ==
    ASSUME QueueInv, clock <= clock', clock' \in 0..MaxClock,
           ready' = ready, conns' = conns,
           NEW queued, Extends(queued),
           NEW marked \in SUBSET queued, outbox' = MarkDelivered(queued, marked),
           NEW given \in [Sock -> SUBSET queued],
           \A t \in Sock : ready[t] = "open" =>
              /\ Delivers(t, queued, given[t], marked)
              /\ \A r \in given[t] : ~r.delivered
    PROVE  QueueEffect({})
  <1>1. queued \in SUBSET Row
    BY DEF Extends, Table
  <1>2. \A t \in Sock : ready'[t] = "open" =>
           Delivers(t, queued, given[t], marked) /\ Session(t, queued, given[t], {})
    BY DEF Session
  <1>3. \E m \in SUBSET queued, g \in [Sock -> SUBSET queued] :
           /\ Extends(queued)
           /\ outbox' = MarkDelivered(queued, m)
           /\ \A t \in Sock : ready'[t] = "open" =>
                 Delivers(t, queued, g[t], m) /\ Session(t, queued, g[t], {})
    BY <1>2
  <1> QED
    BY <1>1, <1>3 DEF QueueEffect

\* The rows pushed to a device are those of one recipient.
LEMMA PushedRows ==
    ASSUME NEW queued, Table(queued), NEW e
    PROVE  /\ OneQueue(Pending(queued, e, TRUE))
           /\ \A r \in Pending(queued, e, TRUE) : r.to = e /\ ~r.delivered /\ r \in queued
           /\ \A r \in queued : r.to = e /\ ~r.delivered => r \in Pending(queued, e, TRUE)
  <1>1. Pending(queued, e, TRUE) \in SUBSET {r \in queued : r.to = e}
    BY DEF Pending
  <1> QED
    BY <1>1, QueueIsOne DEF Pending

\* handleSend pushes to each target what waits for it, and tells nobody else.
LEMMA SendEffect ==
    ASSUME QueueInv, SendStep
    PROVE  NoNews /\ QueueEffect({})
  <1>1. PICK s \in Sock, m \in Msg, to \in SUBSET Device, now \in 0..MaxClock :
           /\ conn[s].authed /\ now \in {clock, clock + 1}
           /\ HandleSend(s, m, to, now)
    BY DEF SendStep
  <1> DEFINE d        == conn[s].deviceId
             accepted == Accepted(d, to)
             targets  == PushTargets(accepted)
             queued   == outbox \cup Inserted(d, m, accepted, now)
             pushed(e) == Pending(queued, e, TRUE)
             marked   == UNION {pushed(e) : e \in targets}
             given    == [t \in Sock |-> IF \E e \in targets : conns[e] = t
                                         THEN pushed(conn[t].deviceId) ELSE {}]
  <1>2. d \in Device /\ conns[d] = s
    BY <1>1 DEF QueueInv, Inv, RegistryConsistent, TypeOK, ConnObject
  <1>3. /\ clock' = now /\ outbox' = MarkDelivered(queued, marked)
        /\ UNCHANGED <<ready, conn, conns>>
    BY <1>1 DEF HandleSend
  <1>4. \A e \in targets : /\ e \in Device /\ e # d /\ conns[e] \in Sock
                           /\ conn[conns[e]].deviceId = e
    BY DEF PushTargets, Accepted, QueueInv, Inv, RegistryConsistent, Online, TypeOK
  <1>5. Table(queued)
    <2>1. accepted \in SUBSET Device
      BY DEF Accepted
    <2> QED
      BY <1>2, <2>1, InsertedTable DEF QueueInv
  <1>6. \A t \in Sock : out'[t] =
           IF ready[t] = "open"
           THEN IF t = s THEN <<SentFrame(m, now)>>
                ELSE IF \E e \in targets : conns[e] = t THEN DeliverFrames(given[t])
                ELSE <<>>
           ELSE <<>>
    BY <1>1 DEF HandleSend, Emit
  <1>7. \A e : /\ OneQueue(pushed(e))
               /\ \A r \in pushed(e) : r.to = e /\ ~r.delivered /\ r \in queued
               /\ \A r \in queued : r.to = e /\ ~r.delivered => r \in pushed(e)
    BY <1>5, PushedRows
  <1> HIDE DEF targets, queued, pushed
  <1>8. marked \in SUBSET queued
    BY <1>7
  <1>9. given \in [Sock -> SUBSET queued]
    BY <1>7
  <1>10. \A t \in Sock : given[t] # {} =>
            \E e \in targets : conns[e] = t /\ given[t] = pushed(e) /\ conn[t].deviceId = e
    BY <1>4
  <1>11. \A t \in Sock, e \in targets : conns[e] = t => given[t] = pushed(e)
    BY <1>4
  <1>12. \A r \in marked : r.to \in targets /\ r \in pushed(r.to)
    BY <1>7
  <1>13. given[s] = {}
    BY <1>2, <1>4, <1>10
  <1>14. \A r \in queued : r.to \in targets /\ ~r.delivered => r \in marked
    BY <1>7
  <1> HIDE DEF marked, given
  <1>15. ASSUME NEW t \in Sock, ready[t] = "open"
         PROVE  /\ Delivers(t, queued, given[t], marked)
                /\ \A r \in given[t] : ~r.delivered
    <2>1. Carries(out'[t], given[t])
      <3>1. CASE t = s
        <4>1. out'[t] = <<SentFrame(m, now)>> /\ SentFrame(m, now).t = "sent"
          BY <1>6, <1>15, <3>1 DEF SentFrame
        <4>2. Listing(out'[t]) /\ DOMAIN out'[t] = {1} /\ out'[t][1] = SentFrame(m, now)
          BY <4>1, ShortListings
        <4> QED
          BY <1>13, <3>1, <4>1, <4>2, IdleCarries
      <3>2. CASE t # s /\ \E e \in targets : conns[e] = t
        <4>1. OneQueue(given[t])
          BY <1>7, <1>11, <3>2
        <4> QED
          BY <1>6, <1>15, <3>2, <4>1, DeliverCarries
      <3>3. CASE t # s /\ ~ \E e \in targets : conns[e] = t
        <4>1. out'[t] = <<>> /\ given[t] = {}
          BY <1>6, <1>10, <1>15, <3>3
        <4>2. Listing(<<>>) /\ DOMAIN <<>> = {}
          BY ShortListings
        <4> QED
          BY <4>1, <4>2, IdleCarries
      <3> QED
        BY <3>1, <3>2, <3>3
    <2>2. given[t] \subseteq Waiting(queued, t)
      BY <1>3, <1>7, <1>10 DEF Waiting
    <2>3. \A r \in Waiting(queued, t) : r \in marked => r \in given[t]
      BY <1>3, <1>11, <1>12 DEF Waiting
    <2>4. ASSUME NEW r \in Waiting(queued, t), NEW q \in given[t],
                 ~r.delivered, r \notin marked
          PROVE  FALSE
      <3>1. PICK e \in targets : conns[e] = t /\ conn[t].deviceId = e
        BY <1>10, <2>4
      <3>2. r \in queued /\ conns[r.to] = t
        BY <1>3 DEF Waiting
      <3>3. r.to \in Device
        BY <1>5, <3>2 DEF Table, Row
      <3>4. r.to = e
        BY <3>1, <3>2, <3>3, SockAssumption DEF QueueInv, Inv, RegistryConsistent, Online
      <3> QED
        BY <1>14, <2>4, <3>1, <3>2, <3>4
    <2>5. \A r \in given[t] : ~r.delivered
      BY <1>7, <1>10
    <2> QED
      BY <2>1, <2>2, <2>3, <2>4, <2>5 DEF Delivers
  <1>16. QueueEffect({})
    <2>1. clock <= clock' /\ clock' \in 0..MaxClock /\ Extends(queued)
      BY <1>1, <1>2, <1>3, SendExtends DEF queued
    <2> QED
      BY <1>3, <1>8, <1>9, <1>15, <2>1, PushQueue
  <1>17. ASSUME NEW t \in Sock, ready'[t] = "open"
         PROVE  /\ Listing(out'[t])
                /\ \A i \in DOMAIN out'[t] :
                      /\ out'[t][i].t \notin {"welcome", "presence"}
                      /\ conn[t].deviceId = Null => out'[t][i].t \in {"error", "challenge"}
    <2>1. Listing(out'[t]) /\ ready[t] = "open"
      BY <1>3, <1>15, <1>17 DEF Delivers, Carries
    <2>2. CASE t = s
      <3>1. DOMAIN out'[t] = {1} /\ out'[t][1] = SentFrame(m, now)
        BY <1>6, <2>1, <2>2
      <3> QED
        BY <1>2, <2>1, <2>2, <3>1, DeviceAssumption DEF SentFrame
    <2>3. CASE t # s /\ \E e \in targets : conns[e] = t
      <3>1. OneQueue(given[t]) /\ conn[t].deviceId # Null
        BY <1>4, <1>7, <1>11, <2>3, DeviceAssumption
      <3>2. OnlyDeliver(out'[t])
        BY <1>6, <2>1, <2>3, <3>1, DeliverCarries
      <3> QED
        BY <2>1, <3>1, <3>2 DEF OnlyDeliver
    <2>4. CASE t # s /\ ~ \E e \in targets : conns[e] = t
      <3>1. out'[t] = <<>>
        BY <1>6, <2>1, <2>4
      <3> QED
        BY <2>1, <3>1
    <2> QED
      BY <2>2, <2>3, <2>4
  <1>18. NoNews
    BY <1>3, <1>17 DEF NoNews
  <1> QED
    BY <1>16, <1>18

-----------------------------------------------------------------------------
(* Part 6.  The admission of a device. *)

\* What the admission of d on s writes: a welcome and a flush to d, and to
\* every other device its arrival, after a new welcome where the list is old.
Announces(s, d, flush) ==
    /\ ready[s] = "open" => out'[s] = <<WelcomeFrame(d, conns')>> \o flush
    /\ \A e \in Device \ {d} : Listening(e) =>
          IF conn[conns[e]].fp = devices
          THEN out'[conns[e]] = <<PresenceFrame(d, TRUE)>>
          ELSE Refresh(out'[conns[e]], WelcomeFrame(e, conns'), d)
    /\ \A t \in Sock \ {s} : (\A e \in Device \ {d} : conns[e] # t) => out'[t] = <<>>

\* onAuth writes these frames in this order (server.js, lines 265-283).
LEMMA AdmitFrames ==
    ASSUME Inv, NEW s \in Sock, ready[s] \in {"open", "closing"}, ~conn[s].authed,
           NEW f \in AuthFrames, Verified(s, f), NEW flush, Admit(s, flush)
    PROVE  TakesPlace(s, conn[s].pending) /\ Announces(s, conn[s].pending, flush)
  <1> DEFINE d        == conn[s].pending
             registry == [conns EXCEPT ![d] = s]
             others   == {registry[e] : e \in Device \ {d}} \ {Null}
             outdated == {t \in others : Outdated(t)}
             refresh(t) == IF t \in outdated
                           THEN <<WelcomeFrame(conn[t].deviceId, registry)>> ELSE <<>>
             told(t)  == PresenceTo(t, d, TRUE, registry)
  <1>1. TakesPlace(s, d)
    BY AdmitEffect
  <1>2. d \in Device /\ conns' = registry
    BY <1>1 DEF TakesPlace, Registers
  <1>3. \A t \in Sock : out'[t] =
           IF ready[t] = "open"
           THEN IF t = s THEN <<WelcomeFrame(d, registry)>> \o flush
                ELSE refresh(t) \o told(t)
           ELSE <<>>
    BY DEF Admit, Emit
  <1>4. \A e \in Device \ {d} : registry[e] = conns[e]
    BY <1>2 DEF Inv, TypeOK
  <1> HIDE DEF d, registry
  <1>5. \A t \in Sock : t \in others <=> \E e \in Device \ {d} : conns[e] = t
    BY <1>4, SockAssumption
  <1>6. \A t \in Sock : told(t) = IF t \in others THEN <<PresenceFrame(d, TRUE)>> ELSE <<>>
    BY <1>4, <1>5 DEF PresenceTo
  <1>7. \A t \in outdated : t \in others /\ conn[t].fp # devices
    BY DEF Outdated, MembersFingerprint
  <1>8. \A t \in others : conn[t].fp # devices => t \in outdated
    BY DEF Outdated, MembersFingerprint
  <1> HIDE DEF others, outdated, told
  <1>9. ASSUME NEW t \in Sock \ {s}, \A e \in Device \ {d} : conns[e] # t
        PROVE  out'[t] = <<>>
    <2>1. refresh(t) = <<>> /\ told(t) = <<>>
      BY <1>5, <1>6, <1>7, <1>9
    <2>2. <<>> \o <<>> = <<>>
      BY ConcatEmptySeq, EmptySeq
    <2> QED
      BY <1>3, <2>1, <2>2
  <1>10. ASSUME NEW e \in Device \ {d}, Listening(e)
         PROVE  IF conn[conns[e]].fp = devices
                THEN out'[conns[e]] = <<PresenceFrame(d, TRUE)>>
                ELSE Refresh(out'[conns[e]], WelcomeFrame(e, conns'), d)
    <2> DEFINE t == conns[e]
    <2>1. t \in Sock /\ ready[t] = "open" /\ conn[t].deviceId = e /\ t # s /\ t \in others
      BY <1>5, <1>10 DEF Listening, Online, Inv, TypeOK, RegistryConsistent
    <2>2. out'[t] = refresh(t) \o <<PresenceFrame(d, TRUE)>>
      BY <1>3, <1>6, <2>1
    <2> HIDE DEF t
    <2>3. CASE conn[t].fp = devices
      <3>1. refresh(t) = <<>>
        BY <1>7, <2>3
      <3>2. <<PresenceFrame(d, TRUE)>> \in Seq({PresenceFrame(d, TRUE)})
        OBVIOUS
      <3>3. <<>> \o <<PresenceFrame(d, TRUE)>> = <<PresenceFrame(d, TRUE)>>
        BY <3>2, ConcatEmptySeq
      <3> QED
        BY <2>2, <2>3, <3>1, <3>3 DEF t
    <2>4. CASE conn[t].fp # devices
      <3> DEFINE w == WelcomeFrame(e, conns')
                 p == PresenceFrame(d, TRUE)
      <3>1. out'[t] = <<w>> \o <<p>>
        BY <1>2, <1>8, <2>1, <2>2, <2>4
      <3> HIDE DEF w, p
      <3>2. /\ Listing(<<w>>) /\ Len(<<w>>) = 1 /\ <<w>>[1] = w
            /\ Listing(<<p>>) /\ Len(<<p>>) = 1 /\ <<p>>[1] = p
        BY ShortListings
      <3> DEFINE c == <<w>> \o <<p>>
      <3>3. /\ Listing(c) /\ DOMAIN c = 1..(1 + 1)
            /\ \A i \in 1..1 : c[i] = <<w>>[i]
            /\ \A i \in 1..1 : c[1 + i] = <<p>>[i]
        BY <3>2, Glued
      <3> HIDE DEF c
      <3>4. c[1] = w /\ c[2] = p
        BY <3>2, <3>3
      <3>5. Len(c) = 2
        BY <3>3 DEF Listing
      <3>6. out'[t] = c
        BY <3>1 DEF c
      <3>7. c[2] = PresenceFrame(d, TRUE)
        BY <3>4 DEF p
      <3>8. Refresh(c, w, d)
        BY <3>3, <3>4, <3>5, <3>7 DEF Refresh
      <3> QED
        BY <2>4, <3>6, <3>8 DEF t, w
    <2> QED
      BY <2>3, <2>4 DEF t
  <1>11. ready[s] = "open" => out'[s] = <<WelcomeFrame(d, conns')>> \o flush
    BY <1>2, <1>3
  <1>12. Announces(s, d, flush)
    BY <1>9, <1>10, <1>11 DEF Announces
  <1> QED
    BY <1>1, <1>12 DEF d

\* A connection that is not authenticated and can be written to has no device.
LEMMA Unregistered ==
    ASSUME Inv, NEW s \in Sock, ready[s] = "open", ~conn[s].authed
    PROVE  conn[s].deviceId = Null /\ \A e \in Device : conns[e] # s
  BY SockAssumption DEF Inv, HandshakeInv, Replaced, RegistryConsistent, Online

\* The flush: what it wrote is the front of the device's queue, and what it
\* marked it wrote.
LEMMA AdmitQueue ==
    ASSUME QueueInv, NEW s \in Sock, ~conn[s].authed,
           NEW d, Registers(s, d), NEW flush, Announces(s, d, flush),
           NEW rows \in SUBSET Queue(d), Carries(flush, rows),
           NEW marked \in SUBSET rows, outbox' = MarkDelivered(outbox, marked),
           \A r \in Queue(d), q \in rows :
              ~r.delivered /\ r \notin marked => q.recvAt <= r.recvAt,
           NEW broken, rows = Queue(d) \/ d \in broken, clock' = clock
    PROVE  QueueEffect(broken)
  <1> DEFINE given == [t \in Sock |-> IF t = s THEN rows ELSE {}]
  <1>1. /\ Table(outbox) /\ outbox \in SUBSET Row
        /\ clock <= clock' /\ clock' \in 0..MaxClock
    BY ClockAssumption DEF QueueInv, TableInv, Table, Inv, TypeOK
  <1>2. Extends(outbox)
    BY <1>1 DEF Extends, QueueInv, TableInv
  <1>3. /\ d \in Device /\ conns' = [conns EXCEPT ![d] = s] /\ ready'[s] = ready[s]
        /\ \A t \in Sock \ {s} : ready'[t] = "open" => ready[t] = "open" /\ t # conns[d]
    BY DEF Registers, Closing
  <1>4. \A e \in Device : conns'[e] = IF e = d THEN s ELSE conns[e]
    BY <1>3 DEF QueueInv, Inv, TypeOK
  <1>5. \A r \in outbox : r.to \in Device
    BY <1>1 DEF Row
  <1>6. marked \in SUBSET outbox /\ rows \in SUBSET outbox /\ \A r \in rows : r.to = d
    BY DEF Queue
  <1>7. ASSUME NEW t \in Sock, ready'[t] = "open"
        PROVE  Delivers(t, outbox, given[t], marked) /\ Session(t, outbox, given[t], broken)
    <2>1. CASE t = s
      <3>1. ready[s] = "open" /\ conn[s].deviceId = Null /\ \A e \in Device : conns[e] # s
        BY <1>3, <1>7, <2>1, Unregistered DEF QueueInv
      <3>2. Waiting(outbox, s) = Queue(d)
        BY <1>3, <1>4, <1>5, <3>1 DEF Waiting, Queue
      <3>3. heard[s] = SilentPeer
        BY <3>1 DEF QueueInv, PeerInv
      <3>4. Carries(out'[s], rows)
        <4> DEFINE w == WelcomeFrame(d, conns')
        <4>1. w.t = "welcome"
          BY DEF WelcomeFrame
        <4>2. out'[s] = <<w>> \o flush
          BY <3>1 DEF Announces
        <4> HIDE DEF w
        <4>3. Carries(<<w>>, {})
          <5>1. Listing(<<w>>) /\ \A i \in DOMAIN <<w>> : <<w>>[i].t # "deliver"
            BY <4>1, ShortListings
          <5> QED
            BY <5>1, IdleCarries
        <4> QED
          BY <4>2, <4>3, GluedCarries
      <3>5. given[t] = rows
        BY <2>1
      <3>6. Delivers(s, outbox, rows, marked)
        BY <3>2, <3>4 DEF Delivers
      <3>7. Session(s, outbox, rows, broken)
        BY <1>6, <3>2, <3>3 DEF Session, Queue
      <3> QED
        BY <2>1, <3>5, <3>6, <3>7
    <2>2. CASE t # s
      <3>1. ready[t] = "open" /\ t # conns[d] /\ given[t] = {}
        BY <1>3, <1>7, <2>2
      <3>2. Carries(out'[t], {})
        <4>1. CASE \A e \in Device \ {d} : conns[e] # t
          <5>1. out'[t] = <<>>
            BY <2>2, <4>1 DEF Announces
          <5>2. Listing(<<>>) /\ DOMAIN <<>> = {}
            BY ShortListings
          <5> QED
            BY <5>1, <5>2, IdleCarries
        <4>2. ASSUME NEW e \in Device \ {d}, conns[e] = t
              PROVE  Carries(out'[t], {})
          <5>1. Listening(e)
            BY <3>1, <4>2, SockAssumption DEF Listening, Online
          <5>2. PresenceFrame(d, TRUE).t = "presence" /\ WelcomeFrame(e, conns').t = "welcome"
            BY DEF PresenceFrame, WelcomeFrame
          <5>3. CASE conn[t].fp = devices
            <6>1. out'[t] = <<PresenceFrame(d, TRUE)>>
              BY <4>2, <5>1, <5>3 DEF Announces
            <6>2. Listing(out'[t]) /\ \A i \in DOMAIN out'[t] : out'[t][i].t # "deliver"
              <7> DEFINE p == PresenceFrame(d, TRUE)
              <7>1. p.t = "presence" /\ out'[t] = <<p>>
                BY <5>2, <6>1
              <7> HIDE DEF p
              <7> QED
                BY <7>1, ShortListings
            <6> QED
              BY <6>2, IdleCarries
          <5>4. CASE conn[t].fp # devices
            <6>1. /\ Listing(out'[t]) /\ Len(out'[t]) = 2
                  /\ out'[t][1] = WelcomeFrame(e, conns')
                  /\ out'[t][2] = PresenceFrame(d, TRUE)
              BY <4>2, <5>1, <5>4 DEF Announces, Refresh
            <6>2. DOMAIN out'[t] = {1, 2}
              BY <6>1 DEF Listing
            <6>3. \A i \in DOMAIN out'[t] : out'[t][i].t # "deliver"
              BY <5>2, <6>1, <6>2
            <6> QED
              BY <6>1, <6>3, IdleCarries
          <5> QED
            BY <5>3, <5>4
        <4> QED
          BY <4>1, <4>2
      <3>3. \A r \in Waiting(outbox, t) : r \notin marked
        <4>1. conns'[d] = s
          BY <1>3, <1>4
        <4> QED
          BY <1>6, <2>2, <4>1 DEF Waiting
      <3>4. Delivers(t, outbox, {}, marked)
        BY <3>2, <3>3 DEF Delivers
      <3>5. Session(t, outbox, {}, broken)
        BY <1>4, <2>2, <3>1 DEF Session
      <3> QED
        BY <3>1, <3>4, <3>5
    <2> QED
      BY <2>1, <2>2
  <1>8. given \in [Sock -> SUBSET outbox]
    BY <1>6
  <1> HIDE DEF given
  <1>9. \E m \in SUBSET outbox, g \in [Sock -> SUBSET outbox] :
           /\ Extends(outbox)
           /\ outbox' = MarkDelivered(outbox, m)
           /\ \A t \in Sock : ready'[t] = "open" =>
                 Delivers(t, outbox, g[t], m) /\ Session(t, outbox, g[t], broken)
    BY <1>2, <1>6, <1>7, <1>8
  <1> QED
    BY <1>1, <1>9 DEF QueueEffect

-----------------------------------------------------------------------------
(* Part 7.  What the peers know after a step. *)

\* A peer whose device is not registered knows nothing.
Strangers ==
    \A s \in Sock : (ready[s] # "open" \/ conn[s].deviceId = Null) => heard[s] = SilentPeer

\* Nobody is believed online who is not.
OnlyOnline ==
    \A d \in Device : Listening(d) => \A e \in Told(d).online : Online(e)

\* A peer that was told of errors only knows nothing.
LEMMA HeardErrors ==
    ASSUME NEW frames, \A i \in DOMAIN frames : frames[i].t \in {"error", "challenge"}
    PROVE  Heard(SilentPeer, frames) = SilentPeer
  <1> DEFINE h == SilentPeer
             welcomes == {i \in DOMAIN frames : frames[i].t = "welcome"}
             delivers == {i \in DOMAIN frames : frames[i].t = "deliver"}
             about(e) == welcomes \cup {i \in DOMAIN frames :
                          frames[i].t = "presence" /\ frames[i].deviceId = e}
             msgs == h.msgs \cup {frames[i].msgId : i \in delivers}
             online == {e \in Device : IF about(e) = {} THEN e \in h.online
                                       ELSE SaysOnline(frames[Latest(about(e))], e)}
             greeted == /\ h.greeted
                        /\ \A i \in DOMAIN frames : frames[i].t \in AfterWelcome =>
                              h.members # Null \/ \E j \in welcomes : j < i
             inOrder == /\ h.inOrder
                        /\ \A i \in delivers :
                              /\ h.lastAt <= frames[i].recvAt
                              /\ \A j \in delivers :
                                    i < j => frames[i].recvAt <= frames[j].recvAt
  <1>1. welcomes = {} /\ delivers = {} /\ \A e : about(e) = {}
    OBVIOUS
  <1>2. \A i \in DOMAIN frames : frames[i].t \notin AfterWelcome
    BY DEF AfterWelcome
  <1>3. /\ h.members = Null /\ h.online = {} /\ h.msgs = {} /\ h.lastAt = 0
        /\ h.inOrder = TRUE /\ h.greeted = TRUE
    BY DEF SilentPeer
  <1>4. online = {}
    BY <1>1, <1>3
  <1>5. msgs = {}
    BY <1>1, <1>3
  <1>6. greeted = TRUE
    BY <1>2, <1>3
  <1>7. inOrder = TRUE
    BY <1>1, <1>3
  <1>8. Heard(h, frames) =
          [members |-> IF welcomes = {} THEN h.members
                       ELSE frames[Latest(welcomes)].members,
           online  |-> online, msgs |-> msgs,
           lastAt  |-> IF delivers = {} THEN h.lastAt
                       ELSE frames[Latest(delivers)].recvAt,
           inOrder |-> inOrder, greeted |-> greeted]
    BY DEF Heard
  <1> HIDE DEF h, welcomes, delivers, about, online, msgs, inOrder, greeted
  <1>9. Heard(h, frames) = [members |-> Null, online |-> {}, msgs |-> {}, lastAt |-> 0,
                            inOrder |-> TRUE, greeted |-> TRUE]
    BY <1>1, <1>3, <1>4, <1>5, <1>6, <1>7, <1>8
  <1> QED
    BY <1>9 DEF h, SilentPeer

\* Before the registration only errors and challenges are written.
LEMMA StrangersStep ==
    ASSUME QueueInv, Listen,
           \A s \in Sock : ready'[s] = "open" /\ conn'[s].deviceId = Null =>
              /\ conn[s].deviceId = Null
              /\ \A i \in DOMAIN out'[s] : out'[s][i].t \in {"error", "challenge"}
    PROVE  Strangers'
  <1> SUFFICES ASSUME NEW s \in Sock, ready'[s] # "open" \/ conn'[s].deviceId = Null
               PROVE  heard'[s] = SilentPeer
    BY DEF Strangers
  <1>1. CASE ready'[s] # "open"
    BY <1>1, Hears
  <1>2. CASE ready'[s] = "open" /\ conn'[s].deviceId = Null
    <2>1. heard[s] = SilentPeer
      BY <1>2 DEF QueueInv, PeerInv
    <2>2. heard'[s] = Heard(SilentPeer, out'[s])
      BY <1>2, <2>1, Hears
    <2> QED
      BY <1>2, <2>2, HeardErrors
  <1> QED
    BY <1>1, <1>2

\* Presence is about devices.
LEMMA OnlineDevices ==
    ASSUME Listen
    PROVE  \A s \in Sock : heard'[s].online \subseteq Device
  <1> SUFFICES ASSUME NEW s \in Sock PROVE heard'[s].online \subseteq Device
    OBVIOUS
  <1>1. SilentPeer.online = {}
    BY DEF SilentPeer
  <1>2. \A h, frames : Heard(h, frames).online \subseteq Device
    BY DEF Heard
  <1> QED
    BY <1>1, <1>2, Hears

\* The queue's and the peers' invariant from their parts.
LEMMA QueueInvStep ==
    ASSUME QueueInv, Inv', Listen, NEW broken, QueueEffect(broken), Strangers'
    PROVE  QueueInv'
  BY QueueStep, OnlineDevices DEF QueueInv, PeerInv, Strangers

\* Whoever can be reached is registered on a live socket.
LEMMA Reached ==
    ASSUME Inv, NEW d \in Device, Listening(d)
    PROVE  /\ conns[d] \in Sock /\ ready[conns[d]] = "open" /\ conn[conns[d]].authed
           /\ conn[conns[d]].deviceId = d /\ Told(d) = heard[conns[d]]
           /\ \A e \in Device : conns[e] = conns[d] => e = d
  <1>1. conns[d] \in Sock /\ conns[d] # Null /\ ready[conns[d]] = "open"
    BY DEF Listening, Online, Inv, TypeOK
  <1>2. \A e \in Device : conns[e] # Null => conn[conns[e]].deviceId = e
                                             /\ conn[conns[e]].authed
    BY DEF Inv, RegistryConsistent, Online
  <1> QED
    BY <1>1, <1>2 DEF Told

-----------------------------------------------------------------------------
\* Where nothing is announced, every peer keeps its list and its presence.
LEMMA NoNewsStep ==
    ASSUME QueueInv, Inv', Listen, NoNews
    PROVE  /\ Strangers'
           /\ \A d \in Device : Listening(d)' =>
                /\ Listening(d) /\ conns'[d] = conns[d]
                /\ Told(d)'.members = Told(d).members /\ Told(d)'.online = Told(d).online
           /\ OnlyOnline => OnlyOnline'
  <1>1. Strangers'
    BY StrangersStep DEF NoNews
  <1>2. ASSUME NEW d \in Device, Listening(d)'
        PROVE  /\ Listening(d) /\ conns'[d] = conns[d]
               /\ Told(d)'.members = Told(d).members /\ Told(d)'.online = Told(d).online
    <2> DEFINE s == conns[d]
    <2>1. conns'[d] = s /\ s \in Sock /\ ready'[s] = "open" /\ s # Null
      BY <1>2 DEF NoNews, Listening, Online, Inv, TypeOK
    <2>2. Listening(d)
      <3>1. ready[s] \in {"open", "free"}
        BY <2>1 DEF NoNews
      <3>2. ready[s] # "free"
        BY <2>1 DEF QueueInv, Inv, RegistryConsistent, Online
      <3> QED
        BY <2>1, <3>1, <3>2 DEF Listening, Online
    <2>3. heard'[s] = Heard(heard[s], out'[s])
      BY <2>1, Hears
    <2>4. heard[s].online \subseteq Device
      BY <2>1 DEF QueueInv, PeerInv
    <2>5. \A i \in DOMAIN out'[s] : out'[s][i].t \notin {"welcome", "presence"}
      BY <2>1 DEF NoNews
    <2>6. heard'[s].members = heard[s].members /\ heard'[s].online = heard[s].online
      BY <2>3, <2>4, <2>5, HeardNoNews
    <2> QED
      BY <2>1, <2>2, <2>6 DEF Told
  <1>3. OnlyOnline => OnlyOnline'
    <2> SUFFICES ASSUME OnlyOnline, NEW d \in Device, Listening(d)', NEW e \in Told(d)'.online
                 PROVE  conns'[e] # Null
      BY DEF OnlyOnline, Online
    <2>1. Listening(d) /\ e \in Told(d).online
      BY <1>2
    <2> QED
      BY <2>1 DEF OnlyOnline, Online, NoNews
  <1> QED
    BY <1>1, <1>2, <1>3

\* After the process ended nobody can be reached.
LEMMA WipedStep ==
    ASSUME QueueInv, Inv', Listen, Wiped
    PROVE  Strangers' /\ \A d \in Device : ~Listening(d)'
  <1>1. Strangers'
    BY StrangersStep DEF Wiped
  <1>2. ASSUME NEW d \in Device, Listening(d)' PROVE FALSE
    BY <1>2 DEF Wiped, Listening, Online, Inv, TypeOK
  <1> QED
    BY <1>1, <1>2

\* The connection of device x closes: the others are told.
LEMMA CloseEffect ==
    ASSUME QueueInv, Inv', Listen, CloseStep
    PROVE  /\ QueueEffect({}) /\ Strangers'
           /\ \E x \in Device : /\ conns' = [conns EXCEPT ![x] = Null]
                                /\ \A d \in Device : Listening(d)' =>
                                     /\ d # x /\ Listening(d) /\ conns'[d] = conns[d]
                                     /\ Told(d)'.members = Told(d).members
                                     /\ Told(d)'.online = Told(d).online \ {x}
           /\ OnlyOnline => OnlyOnline'
  <1>1. PICK s \in Sock : OnClose(s) /\ HoldsPlace(s)
    BY DEF CloseStep
  <1> DEFINE x == conn[s].deviceId
  <1>2. /\ x \in Device /\ conns[x] = s /\ ready[s] = "ending"
        /\ ready' = [ready EXCEPT ![s] = "free"]
        /\ conn' = [conn EXCEPT ![s] = NewConn]
        /\ conns' = [conns EXCEPT ![x] = Null]
        /\ UNCHANGED <<outbox, clock>>
    BY <1>1 DEF OnClose, HoldsPlace, QueueInv, Inv, TypeOK, ConnObject, RegistryConsistent
  <1>3. \A t \in Sock : out'[t] = IF ready[t] = "open" THEN PresenceTo(t, x, FALSE, conns')
                                  ELSE <<>>
    BY <1>1 DEF OnClose, Emit
  <1> HIDE DEF x
  <1>4. \A e \in Device : conns'[e] = IF e = x THEN Null ELSE conns[e]
    BY <1>2 DEF QueueInv, Inv, TypeOK
  <1>5. \A t \in Sock : ready'[t] = "open" =>
           t # s /\ ready[t] = "open" /\ conn'[t].deviceId = conn[t].deviceId
    BY <1>2 DEF QueueInv, Inv, TypeOK
  <1>6. ASSUME NEW t \in Sock, ready'[t] = "open", \A e \in Device : conns'[e] # t
        PROVE  out'[t] = <<>>
    BY <1>3, <1>6 DEF PresenceTo
  <1>7. ASSUME NEW e \in Device, Listening(e)'
        PROVE  /\ e # x /\ Listening(e) /\ conns'[e] = conns[e]
               /\ out'[conns[e]] = <<PresenceFrame(x, FALSE)>>
    <2>1. e # x /\ conns'[e] = conns[e] /\ conns[e] \in Sock /\ ready'[conns[e]] = "open"
      BY <1>4, <1>7 DEF Listening, Online, QueueInv, Inv, TypeOK
    <2>2. ready[conns[e]] = "open" /\ Listening(e)
      BY <1>5, <1>7, <2>1 DEF Listening, Online
    <2> QED
      BY <1>3, <2>1, <2>2 DEF PresenceTo
  <1>8. Strangers'
    <2>1. ASSUME NEW t \in Sock, ready'[t] = "open", conn'[t].deviceId = Null
          PROVE  conn[t].deviceId = Null /\ out'[t] = <<>>
      <3>1. \A e \in Device : conns'[e] # t
        BY <2>1, SockAssumption, DeviceAssumption DEF Inv, RegistryConsistent, Online
      <3> QED
        BY <1>5, <1>6, <2>1, <3>1
    <2>2. \A t \in Sock : ready'[t] = "open" /\ conn'[t].deviceId = Null =>
             /\ conn[t].deviceId = Null
             /\ \A i \in DOMAIN out'[t] : out'[t][i].t \in {"error", "challenge"}
      BY <2>1
    <2> QED
      BY <2>2, StrangersStep
  <1>9. QueueEffect({})
    <2>1. ASSUME NEW t \in Sock, ready'[t] = "open"
          PROVE  Carries(out'[t], {})
      <3>1. CASE \A e \in Device : conns'[e] # t
        <4>1. Listing(<<>>) /\ DOMAIN <<>> = {}
          BY ShortListings
        <4> QED
          BY <1>6, <2>1, <3>1, <4>1, IdleCarries
      <3>2. ASSUME NEW e \in Device, conns'[e] = t
            PROVE  Carries(out'[t], {})
        <4> DEFINE p == PresenceFrame(x, FALSE)
        <4>1. Listening(e)'
          BY <2>1, <3>2, SockAssumption DEF Listening, Online
        <4>2. out'[t] = <<p>> /\ p.t = "presence"
          BY <1>7, <3>2, <4>1 DEF PresenceFrame
        <4> HIDE DEF p
        <4>3. Listing(out'[t]) /\ \A i \in DOMAIN out'[t] : out'[t][i].t # "deliver"
          BY <4>2, ShortListings
        <4> QED
          BY <4>3, IdleCarries
      <3> QED
        BY <3>1, <3>2
    <2>2. \A t \in Sock : ready'[t] = "open" => \A e \in Device : conns'[e] = t => conns[e] = t
      BY <1>4, SockAssumption
    <2> QED
      BY <1>2, <1>5, <2>1, <2>2, UnmarkedQueue
  <1>10. ASSUME NEW d \in Device, Listening(d)'
         PROVE  /\ d # x /\ Listening(d) /\ conns'[d] = conns[d]
                /\ Told(d)'.members = Told(d).members
                /\ Told(d)'.online = Told(d).online \ {x}
    <2> DEFINE t == conns[d]
    <2>1. /\ d # x /\ Listening(d) /\ conns'[d] = t /\ t \in Sock /\ ready'[t] = "open"
          /\ out'[t] = <<PresenceFrame(x, FALSE)>>
      BY <1>7, <1>10 DEF Listening, Online, Inv, TypeOK
    <2>2. heard'[t] = Heard(heard[t], <<PresenceFrame(x, FALSE)>>)
      BY <2>1, Hears
    <2>3. heard[t].online \subseteq Device
      BY <2>1 DEF QueueInv, PeerInv
    <2>4. heard'[t].members = heard[t].members /\ heard'[t].online = heard[t].online \ {x}
      <3> DEFINE h == heard[t]
      <3>1. h.online \subseteq Device /\ x \in Device /\ FALSE \in BOOLEAN
        BY <1>2, <2>3
      <3> HIDE DEF h
      <3>2. /\ Heard(h, <<PresenceFrame(x, FALSE)>>).members = h.members
            /\ Heard(h, <<PresenceFrame(x, FALSE)>>).online = h.online \ {x}
        BY <3>1, HeardPresence
      <3> QED
        BY <2>2, <3>2 DEF h
    <2> QED
      BY <2>1, <2>4 DEF Told
  <1>11. OnlyOnline => OnlyOnline'
    <2> SUFFICES ASSUME OnlyOnline, NEW d \in Device, Listening(d)', NEW e \in Told(d)'.online
                 PROVE  conns'[e] # Null
      BY DEF OnlyOnline, Online
    <2>1. Listening(d) /\ e \in Told(d).online /\ e # x
      BY <1>10
    <2>2. e \in Device
      BY <2>1, Reached DEF QueueInv, PeerInv
    <2> QED
      BY <1>4, <2>1, <2>2 DEF OnlyOnline, Online
  <1> QED
    BY <1>2, <1>8, <1>9, <1>10, <1>11

-----------------------------------------------------------------------------
(* Part 8.  What the peers know after an admission. *)

\* sendWelcome: the members but the addressee, and who of them is registered.
LEMMA WelcomeOnline ==
    ASSUME NEW e, NEW reg
    PROVE  /\ WelcomeFrame(e, reg).t = "welcome"
           /\ WelcomeFrame(e, reg).members = [x \in Members(e) |-> devices[x]]
           /\ WelcomeFrame(e, reg).online = {x \in Members(e) : reg[x] # Null}
           /\ WelcomeFrame(e, reg).online \subseteq Device
  BY DEF WelcomeFrame, Members, Enrolled

\* What an admission leaves each peer with.
LEMMA Admitted ==
    ASSUME QueueInv, Inv', Listen, NEW s \in Sock, ~conn[s].authed,
           NEW d, TakesPlace(s, d), NEW flush, Announces(s, d, flush), Listing(flush),
           \A i \in DOMAIN flush : flush[i].t \notin {"welcome", "presence"}
    PROVE  /\ Strangers'
           /\ d \in Device /\ conns' = [conns EXCEPT ![d] = s]
           /\ Listening(d)' =>
                /\ Told(d)'.members = WelcomeFrame(d, conns').members
                /\ Told(d)'.online = WelcomeFrame(d, conns').online
                /\ heard[s] = SilentPeer /\ Told(d)' = Heard(heard[s], out'[s])
                /\ out'[s][1].t = "welcome" /\ 1 \in DOMAIN out'[s]
                /\ DOMAIN out'[s] \subseteq Nat \ {0}
           /\ \A e \in Device \ {d} : Listening(e)' =>
                /\ Listening(e) /\ conns'[e] = conns[e]
                /\ IF conn[conns[e]].fp = devices
                   THEN /\ Told(e)'.members = Told(e).members
                        /\ Told(e)'.online = Told(e).online \cup {d}
                   ELSE /\ Told(e)'.members = WelcomeFrame(e, conns').members
                        /\ Told(e)'.online = WelcomeFrame(e, conns').online \cup {d}
           /\ OnlyOnline => OnlyOnline'
  <1>1. /\ d \in Device /\ conns' = [conns EXCEPT ![d] = s] /\ ready'[s] = ready[s]
        /\ conn'[s].deviceId = d
        /\ \A t \in Sock \ {s} : conn'[t].deviceId = conn[t].deviceId
        /\ \A t \in Sock \ {s} : ready'[t] = "open" => ready[t] = "open" /\ t # conns[d]
    BY DEF TakesPlace, Registers, Closing
  <1>2. \A e \in Device : conns'[e] = IF e = d THEN s ELSE conns[e]
    BY <1>1 DEF QueueInv, Inv, TypeOK
  <1>3. Strangers'
    <2>1. ASSUME NEW t \in Sock, ready'[t] = "open", conn'[t].deviceId = Null
          PROVE  conn[t].deviceId = Null /\ out'[t] = <<>>
      <3>1. t # s
        BY <1>1, <2>1, DeviceAssumption
      <3>2. \A e \in Device : conns[e] # t
        BY <1>1, <2>1, <3>1, SockAssumption, DeviceAssumption
        DEF QueueInv, Inv, RegistryConsistent, Online
      <3> QED
        BY <1>1, <2>1, <3>1, <3>2 DEF Announces
    <2>2. \A t \in Sock : ready'[t] = "open" /\ conn'[t].deviceId = Null =>
             /\ conn[t].deviceId = Null
             /\ \A i \in DOMAIN out'[t] : out'[t][i].t \in {"error", "challenge"}
      BY <2>1
    <2> QED
      BY <2>2, StrangersStep
  <1>4. ASSUME Listening(d)'
        PROVE  /\ Told(d)'.members = WelcomeFrame(d, conns').members
               /\ Told(d)'.online = WelcomeFrame(d, conns').online
               /\ heard[s] = SilentPeer /\ Told(d)' = Heard(heard[s], out'[s])
               /\ out'[s][1].t = "welcome" /\ 1 \in DOMAIN out'[s]
               /\ DOMAIN out'[s] \subseteq Nat \ {0}
    <2> DEFINE w == WelcomeFrame(d, conns')
               c == <<w>> \o flush
    <2>1. conns'[d] = s /\ ready'[s] = "open" /\ ready[s] = "open"
      BY <1>1, <1>2, <1>4 DEF Listening
    <2>2. heard[s] = SilentPeer
      BY <2>1, Unregistered DEF QueueInv, PeerInv
    <2>3. out'[s] = c
      BY <2>1 DEF Announces
    <2>4. w.t = "welcome" /\ w.online \subseteq Device
      BY WelcomeOnline
    <2> HIDE DEF w
    <2>5. Listing(<<w>>) /\ Len(<<w>>) = 1 /\ <<w>>[1] = w
      BY ShortListings
    <2>6. /\ Listing(c) /\ Len(flush) \in Nat
          /\ DOMAIN flush = 1..Len(flush) /\ DOMAIN c = 1..(1 + Len(flush))
          /\ \A i \in 1..1 : c[i] = <<w>>[i]
          /\ \A i \in 1..Len(flush) : c[1 + i] = flush[i]
      BY <2>5, Glued
    <2> HIDE DEF c
    <2>7. c[1] = w /\ 1 \in DOMAIN c /\ DOMAIN c \subseteq Nat \ {0}
      BY <2>5, <2>6
    <2>8. \A i \in DOMAIN c : i > 1 => c[i].t \notin {"welcome", "presence"}
      <3> SUFFICES ASSUME NEW i \in DOMAIN c, i > 1
                   PROVE  c[i].t \notin {"welcome", "presence"}
        OBVIOUS
      <3>1. i - 1 \in 1..Len(flush) /\ 1 + (i - 1) = i
        BY <2>6
      <3>2. c[1 + (i - 1)] = flush[i - 1]
        BY <2>6, <3>1
      <3> QED
        BY <2>6, <3>1, <3>2
    <2>9. Len(c) >= 1
      BY <2>6 DEF Listing
    <2>10. /\ Heard(heard[s], c).members = w.members
           /\ Heard(heard[s], c).online = w.online
      BY <2>4, <2>6, <2>7, <2>8, <2>9, HeardWelcome
    <2>11. Told(d)' = Heard(heard[s], c)
      BY <2>1, <2>3, Hears DEF Told
    <2> QED
      BY <2>2, <2>3, <2>4, <2>7, <2>10, <2>11 DEF w
  <1>5. ASSUME NEW e \in Device \ {d}, Listening(e)'
        PROVE  /\ Listening(e) /\ conns'[e] = conns[e]
               /\ IF conn[conns[e]].fp = devices
                  THEN /\ Told(e)'.members = Told(e).members
                       /\ Told(e)'.online = Told(e).online \cup {d}
                  ELSE /\ Told(e)'.members = WelcomeFrame(e, conns').members
                       /\ Told(e)'.online = WelcomeFrame(e, conns').online \cup {d}
    <2> DEFINE t == conns[e]
               h == heard[t]
               p == PresenceFrame(d, TRUE)
               w == WelcomeFrame(e, conns')
    <2>1. conns'[e] = t /\ t \in Sock /\ ready'[t] = "open"
      BY <1>2, <1>5 DEF Listening, Online, Inv, TypeOK
    <2>2. t # s
      BY <1>5, <2>1, SockAssumption DEF QueueInv, Inv, RegistryConsistent, Online
    <2>3. Listening(e)
      BY <1>1, <1>5, <2>1, <2>2 DEF Listening, Online
    <2>4. Told(e)' = Heard(h, out'[t]) /\ Told(e) = h
      BY <2>1, Hears DEF Told
    <2>5. h.online \subseteq Device
      BY <2>1 DEF QueueInv, PeerInv
    <2>6. IF conn[t].fp = devices
          THEN out'[t] = <<p>>
          ELSE Refresh(out'[t], w, d)
      BY <2>3 DEF Announces
    <2>7. w.t = "welcome" /\ w.online \subseteq Device
      BY WelcomeOnline
    <2> HIDE DEF t, h, w
    <2>8. CASE conn[t].fp = devices
      <3>1. TRUE \in BOOLEAN /\ d \in Device
        BY <1>1
      <3>2. Heard(h, <<p>>).members = h.members /\ Heard(h, <<p>>).online = h.online \cup {d}
        BY <2>5, <3>1, HeardPresence
      <3> HIDE DEF p
      <3> QED
        BY <2>1, <2>3, <2>4, <2>6, <2>8, <3>2 DEF t
    <2>9. CASE conn[t].fp # devices
      <3> DEFINE frames == out'[t]
      <3>1. Refresh(frames, w, d)
        BY <2>6, <2>9
      <3> HIDE DEF frames
      <3>2. Heard(h, frames).members = w.members /\ Heard(h, frames).online = w.online \cup {d}
        BY <1>1, <2>7, <3>1, HeardRefresh
      <3> QED
        BY <2>1, <2>3, <2>4, <2>9, <3>2 DEF t, w, frames
    <2> QED
      BY <2>8, <2>9
  <1>6. OnlyOnline => OnlyOnline'
    <2> SUFFICES ASSUME OnlyOnline, NEW e \in Device, Listening(e)', NEW x \in Told(e)'.online
                 PROVE  conns'[x] # Null
      BY DEF OnlyOnline, Online
    <2>1. s # Null
      BY SockAssumption
    <2>2. \A y \in WelcomeFrame(e, conns').online : conns'[y] # Null
      <3>1. WelcomeFrame(e, conns').online = {y \in Members(e) : conns'[y] # Null}
        BY DEF WelcomeFrame
      <3> QED
        BY <3>1
    <2>3. CASE e = d
      BY <1>4, <2>2, <2>3
    <2>4. CASE e # d
      <3>1. x = d \/ x \in Told(e).online \/ x \in WelcomeFrame(e, conns').online
        BY <1>5, <2>4
      <3>2. x \in Told(e).online => x \in Device /\ conns[x] # Null
        BY <1>5, <2>4, Reached DEF OnlyOnline, Online, QueueInv, PeerInv
      <3> QED
        BY <1>1, <1>2, <2>1, <2>2, <3>1, <3>2
    <2> QED
      BY <2>3, <2>4
  <1> QED
    BY <1>1, <1>3, <1>4, <1>5, <1>6

\* An accepted auth, with all its flush.
LEMMA AuthStepEffect ==
    ASSUME QueueInv, AuthStep
    PROVE  /\ QueueEffect({})
           /\ \E s \in Sock, d \in Device : \E flush :
                /\ ~conn[s].authed /\ TakesPlace(s, d) /\ Announces(s, d, flush)
                /\ Listing(flush)
                /\ \A i \in DOMAIN flush : flush[i].t \notin {"welcome", "presence"}
  <1>1. PICK s \in Sock, f \in AuthFrames :
           ready[s] \in {"open", "closing"} /\ ~conn[s].authed /\ AuthAccepted(s, f)
    BY DEF AuthStep
  <1> DEFINE d == conn[s].pending
             rows == Pending(outbox, d, FALSE)
             flush == DeliverFrames(rows)
  <1>2. /\ Verified(s, f) /\ Admit(s, flush) /\ clock' = clock
        /\ outbox' = MarkDelivered(outbox, rows)
    BY <1>1 DEF AuthAccepted
  <1>3. Inv
    BY DEF QueueInv
  <1>4. TakesPlace(s, d) /\ Announces(s, d, flush)
    BY <1>1, <1>2, <1>3, AdmitFrames
  <1>5. d \in Device /\ Registers(s, d)
    BY <1>4 DEF TakesPlace, Registers
  <1>6. rows = Queue(d)
    BY DEF Pending, Queue
  <1>7. OneQueue(rows)
    <2>1. rows \in SUBSET {r \in outbox : r.to = d}
      BY <1>6 DEF Queue
    <2> QED
      BY <2>1, QueueIsOne DEF QueueInv, TableInv
  <1> HIDE DEF rows, d
  <1>8. Carries(flush, rows) /\ OnlyDeliver(flush)
    BY <1>7, DeliverCarries
  <1> HIDE DEF flush
  <1>9. QueueEffect({})
    <2>1. rows \in SUBSET Queue(d) /\ rows \in SUBSET rows
      BY <1>6
    <2>2. \A r \in Queue(d), q \in rows : ~r.delivered /\ r \notin rows => q.recvAt <= r.recvAt
      BY <1>6
    <2> QED
      BY <1>1, <1>2, <1>4, <1>5, <1>6, <1>8, <2>1, <2>2, AdmitQueue
  <1>10. Listing(flush) /\ \A i \in DOMAIN flush : flush[i].t \notin {"welcome", "presence"}
    BY <1>8 DEF Carries, OnlyDeliver
  <1> QED
    BY <1>1, <1>4, <1>5, <1>9, <1>10

-----------------------------------------------------------------------------
(* Part 9.  Members and presence. *)

\* The member list a device is sent where this table is current.
ListFor(d, table) == [x \in {x \in Device \ {d} : table[x] # Null} |-> table[x]]

\* A peer was told the list its connection's fingerprint stands for,
OwnLists ==
    \A d \in Device : Listening(d) =>
        /\ conn[conns[d]].fp \in Fingerprint
        /\ Told(d).members = ListFor(d, conn[conns[d]].fp)

\* ... and of the devices on it, knows all that are online.
AllOnline ==
    \A d \in Device : Listening(d) =>
        \A e \in DOMAIN Told(d).members : Online(e) => e \in Told(d).online

\* No peer was written to before its welcome.
Greeted == \A s \in Sock : heard[s].greeted

\* Whatever is marked was written on the socket its recipient has now.
EveryoneShown == \A d \in Device : Listening(d) => AllShown(d)

\* What the peers know of the family is right.
NewsInv == OnlyOnline /\ OwnLists /\ AllOnline /\ Greeted

\* The inductive invariant of the sessions.
SessionInv ==
    QueueInv /\ NewsInv /\ EveryoneShown /\ NoStrandedRow /\ MembershipShared

-----------------------------------------------------------------------------
\* A list is never null, and holds the enrolled devices but its addressee.
LEMMA ListForIs ==
    ASSUME NEW d, NEW table \in Fingerprint
    PROVE  /\ ListFor(d, table) # Null
           /\ \A x : x \in DOMAIN ListFor(d, table) <=> x \in Device \ {d} /\ table[x] # Null
  <1> DEFINE S == {x \in Device \ {d} : table[x] # Null}
             list == ListFor(d, table)
  <1>1. DOMAIN list = S
    BY DEF ListFor
  <1>2. S \in SUBSET Device
    OBVIOUS
  <1>3. \A x \in S : table[x] \in Profile
    BY DEF Fingerprint
  <1>4. list \in [S -> Profile]
    BY <1>3 DEF ListFor
  <1> HIDE DEF S, list
  <1>5. list # Null
    BY <1>2, <1>4, SilenceAssumption
  <1> QED
    BY <1>1, <1>5 DEF list, S

\* A welcome carries the list of the current table.
LEMMA WelcomeList ==
    ASSUME NEW d \in Device, NEW reg
    PROVE  /\ WelcomeFrame(d, reg).members = ListFor(d, devices)
           /\ WelcomeFrame(d, reg).online =
                 {x \in Device \ {d} : devices[x] # Null /\ reg[x] # Null}
  BY DEF WelcomeFrame, ListFor, Members, Enrolled, Registered

\* Of an open socket, either the peer knows nothing or the device is reached.
LEMMA OpenPeer ==
    ASSUME Inv', Strangers', NEW s \in Sock
    PROVE  heard'[s] = SilentPeer \/ \E d \in Device : Listening(d)' /\ conns'[d] = s
  <1> SUFFICES ASSUME ready'[s] = "open", conn'[s].deviceId # Null
               PROVE  \E d \in Device : Listening(d)' /\ conns'[d] = s
    BY DEF Strangers
  <1>1. conn'[s].authed
    BY DEF Inv, HandshakeInv, Replaced
  <1>2. conn'[s].deviceId \in Device /\ conns'[conn'[s].deviceId] = s
    BY <1>1 DEF Inv, TypeOK, ConnObject, RegistryConsistent
  <1> QED
    BY <1>2, SockAssumption DEF Listening, Online

\* Whoever was greeted stays so if it was told a list, or is told one first.
LEMMA GreetedStep ==
    ASSUME Inv', Listen, Greeted, Strangers',
           \A d \in Device : Listening(d)' =>
              \/ conns'[d] \in Sock /\ heard[conns'[d]].members # Null
              \/ /\ out'[conns'[d]][1].t = "welcome" /\ 1 \in DOMAIN out'[conns'[d]]
                 /\ DOMAIN out'[conns'[d]] \subseteq Nat \ {0}
    PROVE  Greeted'
  <1> SUFFICES ASSUME NEW s \in Sock PROVE heard'[s].greeted
    BY DEF Greeted
  <1>1. CASE heard'[s] = SilentPeer
    BY <1>1 DEF SilentPeer
  <1>2. CASE heard'[s] # SilentPeer
    <2>1. PICK d \in Device : Listening(d)' /\ conns'[d] = s
      BY <1>2, OpenPeer
    <2>2. heard'[s] = Heard(heard[s], out'[s]) /\ heard[s].greeted
      BY <1>2, Hears DEF Greeted
    <2> DEFINE h == heard[s]
               frames == out'[s]
               welcomes == {i \in DOMAIN frames : frames[i].t = "welcome"}
    <2> HIDE DEF h, frames
    <2>3. Heard(h, frames).greeted =
            (/\ h.greeted
             /\ \A i \in DOMAIN frames : frames[i].t \in AfterWelcome =>
                   h.members # Null \/ \E j \in welcomes : j < i)
      BY DEF Heard
    <2>4. CASE h.members # Null
      BY <2>2, <2>3, <2>4 DEF h, frames
    <2>5. CASE /\ frames[1].t = "welcome" /\ 1 \in DOMAIN frames
               /\ DOMAIN frames \subseteq Nat \ {0}
      <3>1. "welcome" \notin AfterWelcome
        BY DEF AfterWelcome
      <3>2. 1 \in welcomes
        BY <2>5
      <3>3. \A i \in DOMAIN frames : frames[i].t \in AfterWelcome => 1 < i
        BY <2>5, <3>1
      <3>4. \A i \in DOMAIN frames : frames[i].t \in AfterWelcome => \E j \in welcomes : j < i
        BY <3>2, <3>3
      <3>5. Heard(h, frames).greeted
        BY <2>2, <2>3, <3>4 DEF h
      <3> QED
        BY <2>2, <3>5 DEF h, frames
    <2> QED
      BY <2>1, <2>4, <2>5 DEF h, frames
  <1> QED
    BY <1>1, <1>2

\* Steps that change no list: nothing is said, or a departure.
LEMMA NewsKept ==
    ASSUME SessionInv, Inv', Listen, Strangers', ListsKept, OnlyOnline',
           \A d \in Device : Listening(d)' =>
              /\ Listening(d) /\ conns'[d] = conns[d]
              /\ Told(d)'.members = Told(d).members
              /\ \A e \in Device : Online(e)' /\ e \in Told(d).online => e \in Told(d)'.online
    PROVE  NewsInv'
  <1>1. \A d \in Device : Listening(d)' =>
           /\ Listening(d) /\ conns'[d] = conns[d]
           /\ Told(d)'.members = Told(d).members
           /\ conn'[conns[d]].fp = conn[conns[d]].fp
    BY DEF ListsKept, Listening
  <1>2. OwnLists'
    BY <1>1 DEF OwnLists, SessionInv, NewsInv
  <1>3. AllOnline'
    <2> SUFFICES ASSUME NEW d \in Device, Listening(d)',
                        NEW e \in DOMAIN Told(d)'.members, Online(e)'
                 PROVE  e \in Told(d)'.online
      BY DEF AllOnline
    <2>1. /\ Listening(d) /\ e \in DOMAIN Told(d).members
          /\ Told(d).members = ListFor(d, conn[conns[d]].fp)
          /\ conn[conns[d]].fp \in Fingerprint
      BY <1>1 DEF SessionInv, NewsInv, OwnLists
    <2>2. e \in Device
      BY <2>1, ListForIs
    <2>3. Online(e)
      BY <2>2 DEF ListsKept, Online
    <2>4. e \in Told(d).online
      BY <2>1, <2>3 DEF SessionInv, NewsInv, AllOnline
    <2> QED
      BY <2>2, <2>4
  <1>4. Greeted'
    <2>1. ASSUME NEW d \in Device, Listening(d)'
          PROVE  conns'[d] \in Sock /\ heard[conns'[d]].members # Null
      <3>1. Listening(d) /\ conns'[d] = conns[d]
        BY <1>1, <2>1
      <3>2. conns[d] \in Sock /\ Told(d) = heard[conns[d]]
        BY <3>1, Reached DEF SessionInv, QueueInv
      <3>3. Told(d).members # Null
        BY <3>1, ListForIs DEF SessionInv, NewsInv, OwnLists
      <3> QED
        BY <3>1, <3>2, <3>3
    <2> QED
      BY <2>1, GreetedStep DEF SessionInv, NewsInv
  <1> QED
    BY <1>2, <1>3, <1>4 DEF NewsInv

\* An admission brings every peer to the current list.
LEMMA NewsAdmitted ==
    ASSUME SessionInv, Inv', Listen, NEW s \in Sock, ~conn[s].authed,
           NEW d, TakesPlace(s, d), NEW flush, Announces(s, d, flush), Listing(flush),
           \A i \in DOMAIN flush : flush[i].t \notin {"welcome", "presence"}
    PROVE  Strangers' /\ NewsInv'
  <1>1. QueueInv /\ OnlyOnline /\ OwnLists /\ AllOnline /\ Greeted
    BY DEF SessionInv, NewsInv
  <1>2. /\ Strangers' /\ d \in Device /\ conns' = [conns EXCEPT ![d] = s]
        /\ Listening(d)' =>
             /\ Told(d)'.members = WelcomeFrame(d, conns').members
             /\ Told(d)'.online = WelcomeFrame(d, conns').online
             /\ out'[s][1].t = "welcome" /\ 1 \in DOMAIN out'[s]
             /\ DOMAIN out'[s] \subseteq Nat \ {0}
        /\ \A e \in Device \ {d} : Listening(e)' =>
             /\ Listening(e) /\ conns'[e] = conns[e]
             /\ IF conn[conns[e]].fp = devices
                THEN /\ Told(e)'.members = Told(e).members
                     /\ Told(e)'.online = Told(e).online \cup {d}
                ELSE /\ Told(e)'.members = WelcomeFrame(e, conns').members
                     /\ Told(e)'.online = WelcomeFrame(e, conns').online \cup {d}
        /\ OnlyOnline'
    BY <1>1, Admitted
  <1>3. \A e \in Device : Online(e)' => conn'[conns'[e]].fp = devices
    BY <1>1, AdmitShares DEF QueueInv
  <1>4. devices \in Fingerprint
    BY <1>1 DEF QueueInv, Inv, TypeOK, Fingerprint
  <1>5. \A e \in Device : conns'[e] = IF e = d THEN s ELSE conns[e]
    BY <1>1, <1>2 DEF QueueInv, Inv, TypeOK
  \* every list is now that of the table
  <1>6. ASSUME NEW e \in Device, Listening(e)'
        PROVE  Told(e)'.members = ListFor(e, devices)
    <2>1. CASE e = d
      BY <1>2, <1>6, <2>1, WelcomeList
    <2>2. CASE e # d /\ conn[conns[e]].fp = devices
      BY <1>1, <1>2, <1>6, <2>2 DEF OwnLists
    <2>3. CASE e # d /\ conn[conns[e]].fp # devices
      BY <1>2, <1>6, <2>3, WelcomeList
    <2> QED
      BY <2>1, <2>2, <2>3
  <1>7. OwnLists'
    <2>1. ASSUME NEW e \in Device, Listening(e)'
          PROVE  conn'[conns'[e]].fp = devices
      BY <1>3, <2>1 DEF Listening
    <2> QED
      BY <1>4, <1>6, <2>1 DEF OwnLists
  <1>8. AllOnline'
    <2> SUFFICES ASSUME NEW e \in Device, Listening(e)',
                        NEW x \in DOMAIN Told(e)'.members, conns'[x] # Null
                 PROVE  x \in Told(e)'.online
      BY DEF AllOnline, Online
    <2>1. x \in Device \ {e} /\ devices[x] # Null
      <3>1. x \in DOMAIN ListFor(e, devices)
        BY <1>6
      <3> QED
        BY <1>4, <3>1, ListForIs
    <2>2. x \in WelcomeFrame(e, conns').online
      <3>1. WelcomeFrame(e, conns').online =
              {y \in Device \ {e} : devices[y] # Null /\ conns'[y] # Null}
        BY DEF WelcomeFrame, Members, Enrolled, Registered
      <3> QED
        BY <2>1, <3>1
    <2>3. CASE e = d
      BY <1>2, <2>2, <2>3
    <2>4. CASE e # d /\ conn[conns[e]].fp # devices
      BY <1>2, <2>2, <2>4
    <2>5. CASE e # d /\ conn[conns[e]].fp = devices
      <3>1. /\ Listening(e) /\ Told(e)'.members = Told(e).members
            /\ Told(e)'.online = Told(e).online \cup {d}
        BY <1>2, <2>5
      <3>2. CASE x = d
        BY <3>1, <3>2
      <3>3. CASE x # d
        <4>1. conns[x] # Null /\ x \in DOMAIN Told(e).members
          BY <1>5, <2>1, <3>1, <3>3
        <4> QED
          BY <1>1, <3>1, <4>1 DEF AllOnline, Online
      <3> QED
        BY <3>2, <3>3
    <2> QED
      BY <2>3, <2>4, <2>5
  <1>9. Greeted'
    <2>1. ASSUME NEW e \in Device, Listening(e)'
          PROVE  \/ conns'[e] \in Sock /\ heard[conns'[e]].members # Null
                 \/ /\ out'[conns'[e]][1].t = "welcome" /\ 1 \in DOMAIN out'[conns'[e]]
                    /\ DOMAIN out'[conns'[e]] \subseteq Nat \ {0}
      <3>1. CASE e = d
        BY <1>2, <1>5, <2>1, <3>1
      <3>2. CASE e # d
        <4>1. Listening(e) /\ conns'[e] = conns[e]
          BY <1>2, <2>1, <3>2
        <4>2. conns[e] \in Sock /\ Told(e) = heard[conns[e]]
          BY <1>1, <4>1, Reached DEF QueueInv
        <4>3. Told(e).members # Null
          BY <1>1, <4>1, ListForIs DEF OwnLists
        <4> QED
          BY <4>1, <4>2, <4>3
      <3> QED
        BY <3>1, <3>2
    <2> QED
      BY <1>1, <1>2, <2>1, GreetedStep
  <1> QED
    BY <1>2, <1>7, <1>8, <1>9 DEF NewsInv

-----------------------------------------------------------------------------
(* Part 10.  The invariant of the sessions. *)

\* Nobody is admitted where the registry only shrinks.
LEMMA ListsStay ==
    ASSUME Inv, Next, \A d \in Device : conns'[d] \in {conns[d], Null}
    PROVE  ListsKept
  <1> SUFFICES ASSUME NEW s \in Sock, ~conn[s].authed, TakesPlace(s, conn[s].pending)
               PROVE  FALSE
    BY ListsStep DEF ListsEffect
  <1> DEFINE d == conn[s].pending
  <1>1. d \in Device /\ conns' = [conns EXCEPT ![d] = s]
    BY DEF TakesPlace, Registers
  <1>2. conns'[d] = s
    BY <1>1 DEF Inv, TypeOK
  <1>3. conns[d] = s
    BY <1>1, <1>2, SockAssumption
  <1> QED
    BY <1>1, <1>3, SockAssumption DEF Inv, RegistryConsistent, Online

\* Every step of the hub keeps it: one case per kind of step.
LEMMA SessionStep ==
    ASSUME SessionInv, Next, Listen
    PROVE  SessionInv'
  <1>1. Inv /\ QueueInv /\ OnlyOnline /\ EveryoneShown /\ NoStrandedRow /\ MembershipShared
    BY DEF SessionInv, NewsInv, QueueInv
  <1>2. Inv' /\ NoStrandedRow' /\ MembershipShared'
    BY <1>1, InvNext, StrandedStep, SharedStep
  <1>3. QueueEffect({}) /\ Strangers' /\ NewsInv'
    <2>1. CASE Uneventful \/ SendStep
      <3>1. NoNews /\ QueueEffect({})
        BY <1>1, <2>1, UneventfulEffect, SendEffect
      <3>2. /\ Strangers' /\ OnlyOnline'
            /\ \A d \in Device : Listening(d)' =>
                 /\ Listening(d) /\ conns'[d] = conns[d]
                 /\ Told(d)'.members = Told(d).members /\ Told(d)'.online = Told(d).online
        BY <1>1, <1>2, <3>1, NoNewsStep
      <3>3. ListsKept
        BY <1>1, <3>1, ListsStay DEF NoNews
      <3>4. NewsInv'
        BY <1>2, <3>2, <3>3, NewsKept
      <3> QED
        BY <3>1, <3>2, <3>4
    <2>2. CASE Wiped
      <3>1. QueueEffect({}) /\ Strangers' /\ \A d \in Device : ~Listening(d)'
        BY <1>1, <1>2, <2>2, WipedEffect, WipedStep
      <3>2. OnlyOnline' /\ OwnLists' /\ AllOnline'
        BY <3>1 DEF OnlyOnline, OwnLists, AllOnline
      <3>3. Greeted'
        BY <1>2, <3>1, GreetedStep DEF SessionInv, NewsInv
      <3> QED
        BY <3>1, <3>2, <3>3 DEF NewsInv
    <2>3. CASE AuthStep
      <3>1. QueueEffect({})
        BY <1>1, <2>3, AuthStepEffect
      <3>2. PICK s \in Sock, d \in Device : \E flush :
              /\ ~conn[s].authed /\ TakesPlace(s, d) /\ Announces(s, d, flush)
              /\ Listing(flush)
              /\ \A i \in DOMAIN flush : flush[i].t \notin {"welcome", "presence"}
        BY <1>1, <2>3, AuthStepEffect
      <3>3. Strangers' /\ NewsInv'
        BY <1>2, <3>2, NewsAdmitted
      <3> QED
        BY <3>1, <3>3
    <2>4. CASE CloseStep
      <3>1. /\ QueueEffect({}) /\ Strangers' /\ OnlyOnline'
            /\ \E x \in Device : /\ conns' = [conns EXCEPT ![x] = Null]
                                 /\ \A d \in Device : Listening(d)' =>
                                      /\ d # x /\ Listening(d) /\ conns'[d] = conns[d]
                                      /\ Told(d)'.members = Told(d).members
                                      /\ Told(d)'.online = Told(d).online \ {x}
        BY <1>1, <1>2, <2>4, CloseEffect
      <3>2. PICK x \in Device : /\ conns' = [conns EXCEPT ![x] = Null]
                                /\ \A d \in Device : Listening(d)' =>
                                     /\ d # x /\ Listening(d) /\ conns'[d] = conns[d]
                                     /\ Told(d)'.members = Told(d).members
                                     /\ Told(d)'.online = Told(d).online \ {x}
        BY <3>1
      <3>3. \A d \in Device : conns'[d] = IF d = x THEN Null ELSE conns[d]
        BY <1>1, <3>2 DEF Inv, TypeOK
      <3>4. ListsKept
        BY <1>1, <3>3, ListsStay
      <3>5. \A d \in Device : Listening(d)' =>
              \A e \in Device : Online(e)' /\ e \in Told(d).online => e \in Told(d)'.online
        BY <3>2, <3>3 DEF Online
      <3>6. \A d \in Device : Listening(d)' => Listening(d) /\ Told(d).online \subseteq Device
        BY <1>1, <3>2, Reached DEF QueueInv, PeerInv
      <3>7. \A d \in Device : Listening(d)' =>
              \A e \in Device \cup Told(d).online :
                 Online(e)' /\ e \in Told(d).online => e \in Told(d)'.online
        BY <3>5, <3>6
      <3>8. NewsInv'
        BY <1>2, <3>1, <3>2, <3>4, <3>7, NewsKept
      <3> QED
        BY <3>1, <3>8
    <2> QED
      BY <1>1, <2>1, <2>2, <2>3, <2>4, NextKinds
  <1>4. QueueInv'
    BY <1>1, <1>2, <1>3, QueueInvStep
  <1>5. EveryoneShown'
    <2> SUFFICES ASSUME NEW d \in Device, Listening(d)' PROVE AllShown(d)'
      BY DEF EveryoneShown
    <2>1. Listening(d) => AllShown(d)
      BY <1>1 DEF EveryoneShown
    <2> QED
      BY <1>1, <1>2, <1>3, <2>1, QueueStep
  <1> QED
    BY <1>2, <1>3, <1>4, <1>5 DEF SessionInv

\* Before the first connection nothing was told.
LEMMA SessionInit == SessionsInit => SessionInv
  <1> SUFFICES ASSUME SessionsInit PROVE SessionInv
    OBVIOUS
  <1>1. Inv
    BY InvInit DEF SessionsInit
  <1>2. /\ outbox = {} /\ \A d \in Device : conns[d] = Null
        /\ \A s \in Sock : heard[s] = SilentPeer
    BY DEF SessionsInit, Init, ServerInit
  <1>3. TableInv
    BY <1>2, FS_EmptySet DEF TableInv, Table
  <1>4. PeerInv
    <2>1. /\ SilentPeer.online = {} /\ SilentPeer.msgs = {}
          /\ SilentPeer.lastAt = 0 /\ SilentPeer.inOrder
      BY DEF SilentPeer
    <2>2. 0 \in 0..clock
      BY <1>1, ClockAssumption DEF Inv, TypeOK
    <2>3. \A s \in Sock : heard[s] = SilentPeer
      BY <1>2
    <2> QED
      BY <2>1, <2>2, <2>3 DEF PeerInv
  <1>5. NewestLast /\ OnlyOnline /\ OwnLists /\ AllOnline /\ EveryoneShown
    BY <1>2 DEF NewestLast, OnlyOnline, OwnLists, AllOnline, EveryoneShown, Listening, Online
  <1>6. Greeted
    BY <1>2 DEF Greeted, SilentPeer
  <1>7. NoStrandedRow /\ MembershipShared
    BY <1>2 DEF NoStrandedRow, MembershipShared, Online
  <1> QED
    BY <1>1, <1>3, <1>4, <1>5, <1>6, <1>7 DEF SessionInv, QueueInv, NewsInv

\* A step of the hub, or a stutter.
LEMMA SessionNext == SessionInv /\ [SessionsNext]_<<vars, heard>> => SessionInv'
  <1>1. ASSUME SessionInv, SessionsNext PROVE SessionInv'
    BY <1>1, SessionStep DEF SessionsNext
  <1>2. ASSUME SessionInv, UNCHANGED <<vars, heard>> PROVE SessionInv'
    <2>1. Inv'
      BY <1>2, InvNext DEF SessionInv, QueueInv
    <2>2. TableInv' /\ PeerInv' /\ NewestLast'
      BY <1>2 DEF SessionInv, QueueInv, TableInv, PeerInv, NewestLast, Listening, Online,
                  Told, Queue, vars
    <2>3. NewsInv'
      BY <1>2 DEF SessionInv, NewsInv, OnlyOnline, OwnLists, AllOnline, Greeted, Listening,
                  Online, Told, vars
    <2>4. EveryoneShown' /\ NoStrandedRow' /\ MembershipShared'
      BY <1>2 DEF SessionInv, EveryoneShown, AllShown, Queue, NoStrandedRow,
                  MembershipShared, Listening, Online, Told, vars
    <2> QED
      BY <2>1, <2>2, <2>3, <2>4 DEF SessionInv, QueueInv
  <1> QED
    BY <1>1, <1>2

\* The invariant holds in all behaviours of the hub and its peers.
LEMMA SessionAlways == SessionsSpec => []SessionInv
  BY SessionInit, SessionNext, PTL DEF SessionsSpec

\* OnlineHasEverything: at-least-once delivery within every session (router.js,
\* deliverPending).  For any family, any number of sockets and reconnections,
\* what is queued for an online device was written on the socket it has now.
THEOREM EverythingShown == SessionsSpec => []OnlineHasEverything
  <1>1. SessionInv => OnlineHasEverything
    <2> SUFFICES ASSUME SessionInv, NEW d \in Device, Listening(d), NEW r \in Queue(d)
                 PROVE  r.msg \in Told(d).msgs
      BY DEF OnlineHasEverything
    <2>1. r \in outbox /\ r.to = d /\ Online(d)
      BY DEF Queue, Listening
    <2>2. r.delivered
      BY <2>1 DEF SessionInv, NoStrandedRow
    <2> QED
      BY <2>2 DEF SessionInv, EveryoneShown, AllShown
  <1> QED
    BY <1>1, SessionAlways, PTL

\* PresenceAccurate: welcomes, arrivals and departures add up to the registry
\* (server.js, onAuth and the 'close' handler; router.js, broadcastPresence).
THEOREM PresenceExact == SessionsSpec => []PresenceAccurate
  <1>1. SessionInv => PresenceAccurate
    BY DEF SessionInv, NewsInv, OnlyOnline, AllOnline, PresenceAccurate
  <1> QED
    BY <1>1, SessionAlways, PTL

\* MembersTold: the list each peer holds is the one that the fingerprint of
\* every other online connection stands for (server.js, lines 271-281).
THEOREM OneFamily == SessionsSpec => []MembersTold
  <1>1. SessionInv => MembersTold
    <2> SUFFICES ASSUME SessionInv, NEW d \in Device, NEW e \in Device, Listening(d), Online(e)
                 PROVE  LET table == conn[conns[e]].fp
                            rest  == {x \in Device \ {d} : table[x] # Null}
                        IN  Told(d).members = [x \in rest |-> table[x]]
      BY DEF MembersTold
    <2>1. conn[conns[d]].fp = conn[conns[e]].fp
      BY DEF SessionInv, MembershipShared, Listening
    <2>2. Told(d).members = ListFor(d, conn[conns[d]].fp)
      BY DEF SessionInv, NewsInv, OwnLists
    <2> QED
      BY <2>1, <2>2 DEF ListFor
  <1> QED
    BY <1>1, SessionAlways, PTL

\* SocketOrder: on no socket does anything precede the welcome, and recv_at
\* never decreases from one deliver frame to the next (router.js,
\* deliverPending; server.js, onAuth).
THEOREM SocketsInOrder == SessionsSpec => []SocketOrder
  <1>1. SessionInv => SocketOrder
    BY DEF SessionInv, NewsInv, Greeted, QueueInv, PeerInv, SocketOrder
  <1> QED
    BY <1>1, SessionAlways, PTL

-----------------------------------------------------------------------------
(* Part 11.  The mailboxes. *)

\* The messages that wait for a device.
Mail(d) == {r.msg : r \in Queue(d)}

\* Marking rows leaves every mailbox as it is.
LEMMA MarkedMail ==
    ASSUME NEW table \in SUBSET Row, NEW rows \in SUBSET table,
           outbox' = MarkDelivered(table, rows), NEW d
    PROVE  Mail(d)' = {r.msg : r \in {q \in table : q.to = d}}
  <1> DEFINE waiting == {r.msg : r \in {q \in table : q.to = d}}
  <1>1. \A r \in rows : [r EXCEPT !.delivered = TRUE].to = r.to
                        /\ [r EXCEPT !.delivered = TRUE].msg = r.msg
    BY DEF Row
  <1>2. ASSUME NEW r \in outbox', r.to = d PROVE r.msg \in waiting
    <2>1. CASE r \in table
      BY <1>2, <2>1
    <2>2. CASE r \notin table
      <3>1. PICK q \in rows : r = [q EXCEPT !.delivered = TRUE]
        BY <2>2 DEF MarkDelivered
      <3> QED
        BY <1>1, <1>2, <3>1
    <2> QED
      BY <2>1, <2>2
  <1>3. ASSUME NEW r \in table, r.to = d
        PROVE  \E q \in outbox' : q.to = d /\ q.msg = r.msg
    <2>1. CASE r \in rows
      <3>1. [r EXCEPT !.delivered = TRUE] \in outbox'
        BY <2>1 DEF MarkDelivered
      <3> QED
        BY <1>1, <1>3, <2>1, <3>1
    <2>2. CASE r \notin rows
      BY <1>3, <2>2 DEF MarkDelivered
    <2> QED
      BY <2>1, <2>2
  <1> HIDE DEF waiting
  <1>4. \A x : x \in Mail(d)' => x \in waiting
    BY <1>2 DEF Mail, Queue
  <1>5. \A x : x \in waiting => x \in Mail(d)'
    BY <1>3 DEF Mail, Queue, waiting
  <1>6. Mail(d)' = waiting
    BY <1>4, <1>5
  <1> QED
    BY <1>6 DEF waiting

\* What a session was handed changes with the mailbox of its device alone.
LEMMA SessionFollows ==
    ASSUME SessionInv, SessionInv', Listen, QueueEffect({}), NEW d \in Device, Listening(d)'
    PROVE  IF Listening(d) /\ conns'[d] = conns[d]
           THEN Told(d)'.msgs = Told(d).msgs \cup (Mail(d)' \ Mail(d))
           ELSE Told(d)'.msgs = Mail(d)'
  <1> DEFINE s == conns'[d]
  <1>1. QueueInv /\ Inv'
    BY DEF SessionInv, QueueInv
  <1>2. s \in Sock /\ ready'[s] = "open" /\ Told(d)' = heard'[s]
    BY <1>1 DEF Listening, Online, Told, Inv, TypeOK
  <1>3. PICK queued \in SUBSET Row :
          \E marked \in SUBSET queued, given \in [Sock -> SUBSET queued] :
             /\ Extends(queued)
             /\ outbox' = MarkDelivered(queued, marked)
             /\ \A t \in Sock : ready'[t] = "open" =>
                   /\ Delivers(t, queued, given[t], marked)
                   /\ Session(t, queued, given[t], {})
    BY DEF QueueEffect
  <1>4. PICK marked \in SUBSET queued, given \in [Sock -> SUBSET queued] :
             /\ Extends(queued)
             /\ outbox' = MarkDelivered(queued, marked)
             /\ \A t \in Sock : ready'[t] = "open" =>
                   /\ Delivers(t, queued, given[t], marked)
                   /\ Session(t, queued, given[t], {})
    BY <1>3
  <1> DEFINE rows == given[s]
  <1>5. rows \in SUBSET Waiting(queued, s) /\ Carries(out'[s], rows) /\ Session(s, queued, rows, {})
    BY <1>2, <1>4 DEF Delivers
  <1>6. \A r \in Waiting(queued, s) : r \in queued /\ r.to = d /\ r \in Row
    <2>1. \A r \in Waiting(queued, s) : r \in queued /\ r \in Row /\ r.to \in Device
                                        /\ conns'[r.to] = s
      BY <1>4 DEF Waiting, Row
    <2>2. \A x, y \in Device : conns'[x] = conns'[y] /\ conns'[x] \in Sock => x = y
      BY <1>1, SockAssumption DEF Inv, RegistryConsistent, Online
    <2> QED
      BY <1>2, <2>1, <2>2
  <1>7. OneQueue(rows)
    BY <1>1, <1>2, <1>4, <1>5, WaitingIsOne DEF Extends
  <1>8. heard'[s].msgs = heard[s].msgs \cup {r.msg : r \in rows}
    <2>1. heard'[s] = Heard(heard[s], out'[s])
      BY <1>2, Hears
    <2> HIDE DEF rows, s
    <2> QED
      BY <1>5, <1>7, <2>1, HeardMessages
  <1>9. \A x \in Mail(d)' : x \in Told(d)'.msgs
    BY DEF SessionInv, EveryoneShown, AllShown, NoStrandedRow, Mail, Queue, Listening
  <1>10. \A r \in rows : r.msg \in Mail(d)'
    <2>1. Mail(d)' = {r.msg : r \in {q \in queued : q.to = d}}
      BY <1>4, MarkedMail
    <2>2. \A r \in rows : r \in queued /\ r.to = d
      BY <1>5, <1>6
    <2> QED
      BY <2>1, <2>2
  <1>11. \A r \in rows : ~r.delivered /\ conns[d] = s => r.msg \notin Mail(d)
    <2> SUFFICES ASSUME NEW r \in rows, ~r.delivered, conns[d] = s, NEW q \in outbox,
                        q.to = d, q.msg = r.msg
                 PROVE  FALSE
      BY DEF Mail, Queue
    <2>1. r \in queued /\ r.to = d
      BY <1>5, <1>6
    <2>2. r \in outbox
      BY <1>4, <2>1 DEF Extends
    <2>3. Online(d)
      BY <1>2, SockAssumption DEF Online
    <2> QED
      BY <2>1, <2>2, <2>3 DEF SessionInv, NoStrandedRow
  <1> HIDE DEF rows, s
  <1>12. CASE heard[s] = SilentPeer
    <2>1. heard[s].msgs = {}
      BY <1>12 DEF SilentPeer
    <2>2. Told(d)'.msgs = Mail(d)'
      BY <1>2, <1>8, <1>9, <1>10, <2>1
    <2>3. ASSUME Listening(d), conns'[d] = conns[d]
          PROVE  Told(d).msgs = {} /\ Mail(d) = {}
      <3>1. Told(d) = heard[s]
        BY <2>3 DEF Told, s
      <3>2. \A x \in Mail(d) : x \in Told(d).msgs
        BY <2>3 DEF SessionInv, EveryoneShown, AllShown, NoStrandedRow, Mail, Queue, Listening
      <3> QED
        BY <2>1, <3>1, <3>2
    <2> QED
      BY <2>2, <2>3
  <1>13. CASE heard[s] # SilentPeer
    <2>1. /\ ready[s] = "open" /\ conns[d] = s /\ \A r \in rows : ~r.delivered
      BY <1>5, <1>13 DEF Session, s
    <2>2. Listening(d) /\ conns'[d] = conns[d] /\ Told(d) = heard[s]
      BY <1>2, <2>1, SockAssumption DEF Listening, Online, Told, s
    <2>3. \A r \in rows : r.msg \in Mail(d)' \ Mail(d)
      BY <1>10, <1>11, <2>1
    <2> QED
      BY <1>2, <1>8, <1>9, <2>2, <2>3
  <1> QED
    BY <1>12, <1>13

\* What a peer was handed in its session, as module Mailbox sees it.
HandedTo(d) == IF Listening(d) THEN Told(d).msgs ELSE Null

\* A step that empties mailboxes or nothing, and begins no session.
LEMMA SessionsShrink ==
    ASSUME SessionInv, SessionInv', Listen, QueueEffect({}),
           \A d \in Device : /\ Mail(d)' \subseteq Mail(d)
                             /\ Listening(d)' => Listening(d) /\ conns'[d] = conns[d]
    PROVE  \A d \in Device : HandedTo(d)' = IF Listening(d)' THEN HandedTo(d) ELSE Null
  <1> SUFFICES ASSUME NEW d \in Device, Listening(d)'
               PROVE  Told(d)'.msgs = Told(d).msgs /\ Listening(d)
    BY DEF HandedTo
  <1>1. Told(d)'.msgs = Told(d).msgs \cup (Mail(d)' \ Mail(d))
    BY SessionFollows
  <1>2. Mail(d)' \ Mail(d) = {}
    OBVIOUS
  <1> QED
    BY <1>1, <1>2

\* The steps of module Mailbox in terms of the hub: sessions end,
LEMMA AbstractEnd ==
    ASSUME NEW ds \in SUBSET Device, Enrolled' = Enrolled,
           \A d \in Device : /\ Mail(d)' = Mail(d)
                             /\ HandedTo(d)' = IF d \in ds THEN Null ELSE HandedTo(d)
    PROVE  Mailboxes!Next
  <1>1. Mailboxes!End(ds)
    BY DEF Mailboxes!End, Mail, HandedTo
  <1> QED
    BY <1>1 DEF Mailboxes!Next

\* onAuth: a session begins, in place of an older one or not.
LEMMA AbstractBegin ==
    ASSUME NEW e \in Device, Enrolled' = Enrolled,
           \A d \in Device : /\ Mail(d)' = Mail(d)
                             /\ HandedTo(d)' = IF d = e THEN Mail(d) ELSE HandedTo(d)
    PROVE  Mailboxes!Next
  <1>1. Mailboxes!Begin(e)
    BY DEF Mailboxes!Begin, Mail, HandedTo
  <1> QED
    BY <1>1 DEF Mailboxes!Next

\* handleAck.
LEMMA AbstractConfirm ==
    ASSUME NEW e \in Device, NEW ms \in SUBSET Msg, Enrolled' = Enrolled,
           \A d \in Device : /\ Mail(d)' = IF d = e THEN Mail(d) \ ms ELSE Mail(d)
                             /\ HandedTo(d)' = HandedTo(d)
    PROVE  Mailboxes!Next
  <1>1. Mailboxes!Confirm(e, ms)
    BY DEF Mailboxes!Confirm, Mail, HandedTo
  <1> QED
    BY <1>1 DEF Mailboxes!Next

\* enroll.js --remove, the second statement.
LEMMA AbstractPurge ==
    ASSUME NEW e \in Device, e \notin Enrolled, Enrolled' = Enrolled,
           \A d \in Device : /\ Mail(d)' = IF d = e THEN {} ELSE Mail(d)
                             /\ HandedTo(d)' = HandedTo(d)
    PROVE  Mailboxes!Next
  <1>1. Mailboxes!Purge(e)
    BY DEF Mailboxes!Purge, Mail, HandedTo
  <1> QED
    BY <1>1 DEF Mailboxes!Next

\* enroll.js, everything else.
LEMMA AbstractJoin ==
    ASSUME \A d \in Device : Mail(d)' = Mail(d) /\ HandedTo(d)' = HandedTo(d)
    PROVE  Mailboxes!Next
  <1>1. Enrolled' \in SUBSET Device
    BY DEF Enrolled
  <1>2. Mailboxes!Join(Enrolled')
    BY DEF Mailboxes!Join, Mail, HandedTo
  <1> QED
    BY <1>1, <1>2 DEF Mailboxes!Next

\* handleSend.
LEMMA AbstractPost ==
    ASSUME NEW m \in Msg, NEW to \in SUBSET Device, to \subseteq Enrolled, Enrolled' = Enrolled,
           \A d \in Device :
              /\ Mail(d)' = IF d \in to THEN Mail(d) \cup {m} ELSE Mail(d)
              /\ HandedTo(d)' = IF d \in to /\ HandedTo(d) # Null
                                THEN HandedTo(d) \cup {m} ELSE HandedTo(d)
    PROVE  Mailboxes!Next
  <1>1. Mailboxes!Post(m, to)
    BY DEF Mailboxes!Post, Mail, HandedTo
  <1> QED
    BY <1>1 DEF Mailboxes!Next

\* What one step does to the tables, as far as the mailboxes go.
EndsOnly == outbox' = outbox /\ Enrolled' = Enrolled

Acks == \E d \in Device, ids \in SUBSET Msg :
    outbox' = outbox \ Acked(d, ids) /\ UNCHANGED <<devices, ready, conns>>

Enrolls == UNCHANGED <<outbox, ready, conns>>

Purges == \E d \in Device :
    /\ devices[d] = Null /\ outbox' = outbox \ Queue(d)
    /\ UNCHANGED <<devices, ready, conns>>

\* One received frame.
LEMMA MessageTables ==
    ASSUME Inv, NEW s \in Sock, OnMessage(s)
    PROVE  EndsOnly \/ Acks \/ AuthStep \/ SendStep
  <1>1. CASE OnGarbage(s)
    BY <1>1 DEF OnGarbage, EndsOnly, Enrolled, Registered
  <1>2. CASE ~conn[s].authed /\ OnUnauthenticatedFrame(s)
    <2>1. CASE \E f \in HelloFrames : HelloAccepted(s, f)
      <3>1. PICK f \in HelloFrames : HelloAccepted(s, f)
        BY <2>1
      <3>2. /\ \A d \in Device : (Renamed(f)[d] = Null) <=> (devices[d] = Null)
            /\ devices' = Renamed(f) /\ outbox' = outbox
        BY <3>1, RenamedType DEF HelloAccepted, Inv
      <3> QED
        BY <3>2 DEF EndsOnly, Enrolled, Registered
    <2>2. CASE \/ OnUnexpected(s) \/ AuthWithoutHello(s)
               \/ \E f \in HelloFrames : HelloRefused(s, f)
               \/ \E f \in AuthFrames : AuthRefused(s, f)
      <3>1. UNCHANGED <<devices, outbox>>
        BY <2>2 DEF OnUnexpected, AuthWithoutHello, HelloRefused, AuthRefused
      <3> QED
        BY <3>1 DEF EndsOnly, Enrolled, Registered
    <2>3. CASE \E f \in AuthFrames : AuthAccepted(s, f)
      BY <1>2, <2>3 DEF OnMessage, AuthStep
    <2> QED
      BY <1>2, <2>1, <2>2, <2>3 DEF OnUnauthenticatedFrame
  <1>3. CASE conn[s].authed /\ Handle(s)
    <2>1. conn[s].deviceId \in Device
      BY <1>3 DEF Inv, TypeOK, ConnObject, RegistryConsistent
    <2>2. CASE HandlePing(s) \/ RefuseFrame(s) \/ RefuseRate(s)
      BY <2>2 DEF HandlePing, RefuseFrame, RefuseRate, EndsOnly, Enrolled, Registered
    <2>3. CASE \E ids \in (SUBSET Msg) \ {{}} : HandleAck(s, ids)
      BY <2>1, <2>3 DEF HandleAck, Acks
    <2> QED
      BY <1>3, <2>2, <2>3 DEF Handle, SendStep
  <1> QED
    BY <1>1, <1>2, <1>3 DEF OnMessage

\* Every step of the hub and of the command, by what it does to the tables.
LEMMA TableKinds ==
    ASSUME Inv, CliInv, Next
    PROVE  EndsOnly \/ Acks \/ Enrolls \/ Purges \/ AuthStep \/ SendStep
  <1>1. CASE ServerNext
    <2>1. ASSUME NEW s \in Sock, \/ Connect(s) \/ RejectPeer(s) \/ NonceExpires(s)
                                 \/ SocketDown(s) \/ OnClose(s)
          PROVE  UNCHANGED <<devices, outbox>>
      BY <2>1 DEF Connect, RejectPeer, NonceExpires, SocketDown, OnClose
    <2>2. Shutdown \/ Restart => UNCHANGED <<devices, outbox>>
      BY DEF Shutdown, Restart
    <2>3. UNCHANGED <<devices, outbox>> => EndsOnly
      BY DEF EndsOnly, Enrolled, Registered
    <2> QED
      BY <1>1, <2>1, <2>2, <2>3, MessageTables DEF ServerNext
  <1>2. CASE PurgeQueue
    BY <1>2 DEF PurgeQueue, Purges, CliInv, Inv, TypeOK
  <1>3. CASE EnrollNext /\ ~PurgeQueue
    BY <1>3 DEF EnrollNext, EnrollDevice, RemoveDevice, RemoveAborts, Enrolls
  <1> QED
    BY <1>1, <1>2, <1>3 DEF Next, EnrollNext

\* Nobody but the device that authenticates begins a session.
LEMMA NoneBegins ==
    ASSUME SessionInv, Inv', Next, Listen, ~AuthStep
    PROVE  /\ QueueEffect({})
           /\ \A d \in Device : Listening(d)' => Listening(d) /\ conns'[d] = conns[d]
  <1>1. QueueInv
    BY DEF SessionInv, QueueInv
  <1>2. CASE Uneventful \/ SendStep
    BY <1>1, <1>2, UneventfulEffect, SendEffect, NoNewsStep
  <1>3. CASE Wiped
    BY <1>1, <1>3, WipedEffect, WipedStep
  <1>4. CASE CloseStep
    BY <1>1, <1>4, CloseEffect
  <1> QED
    BY <1>1, <1>2, <1>3, <1>4, NextKinds

\* Steps that end sessions at most.
LEMMA EndRefines ==
    ASSUME SessionInv, SessionInv', Listen, QueueEffect({}), EndsOnly,
           \A d \in Device : Listening(d)' => Listening(d) /\ conns'[d] = conns[d]
    PROVE  Mailboxes!Next
  <1> DEFINE ds == {d \in Device : ~Listening(d)'}
  <1>1. \A d \in Device : Mail(d)' = Mail(d)
    BY DEF EndsOnly, Mail, Queue
  <1>2. \A d \in Device : HandedTo(d)' = IF Listening(d)' THEN HandedTo(d) ELSE Null
    BY <1>1, SessionsShrink
  <1>3. ds \in SUBSET Device
        /\ \A d \in Device : HandedTo(d)' = IF d \in ds THEN Null ELSE HandedTo(d)
    BY <1>2
  <1> HIDE DEF ds
  <1> QED
    BY <1>1, <1>3, AbstractEnd DEF EndsOnly

\* Where no socket and no registration changes, sessions keep what they have.
LEMMA SessionsStay ==
    ASSUME SessionInv, SessionInv', Listen, QueueEffect({}), UNCHANGED <<ready, conns>>,
           \A d \in Device : Mail(d)' \subseteq Mail(d)
    PROVE  \A d \in Device : HandedTo(d)' = HandedTo(d)
  <1>1. \A d \in Device : (Listening(d)' <=> Listening(d)) /\ conns'[d] = conns[d]
    BY DEF Listening, Online
  <1>2. \A d \in Device : HandedTo(d)' = IF Listening(d)' THEN HandedTo(d) ELSE Null
    BY <1>1, SessionsShrink
  <1> QED
    BY <1>1, <1>2 DEF HandedTo

\* handleAck deletes rows of the device that confirms.
LEMMA AckRefines ==
    ASSUME SessionInv, SessionInv', Listen, QueueEffect({}), Acks
    PROVE  Mailboxes!Next
  <1>1. PICK e \in Device, ids \in SUBSET Msg :
           outbox' = outbox \ Acked(e, ids) /\ UNCHANGED <<devices, ready, conns>>
    BY DEF Acks
  <1>2. \A d \in Device : Mail(d)' = IF d = e THEN Mail(d) \ ids ELSE Mail(d)
    <2> SUFFICES ASSUME NEW d \in Device
                 PROVE  Mail(d)' = IF d = e THEN Mail(d) \ ids ELSE Mail(d)
      OBVIOUS
    <2>1. CASE d = e
      <3>1. Queue(d)' = {r \in Queue(d) : r.msg \notin ids}
        BY <1>1, <2>1 DEF Queue, Acked
      <3> QED
        BY <2>1, <3>1 DEF Mail
    <2>2. CASE d # e
      <3>1. Queue(d)' = Queue(d)
        BY <1>1, <2>2 DEF Queue, Acked
      <3> QED
        BY <2>2, <3>1 DEF Mail
    <2> QED
      BY <2>1, <2>2
  <1>3. \A d \in Device : HandedTo(d)' = HandedTo(d)
    BY <1>1, <1>2, SessionsStay
  <1>4. Enrolled' = Enrolled
    BY <1>1 DEF Enrolled, Registered
  <1> QED
    BY <1>2, <1>3, <1>4, AbstractConfirm

\* enroll.js --remove, second statement.
LEMMA PurgeRefines ==
    ASSUME SessionInv, SessionInv', Listen, QueueEffect({}), Purges
    PROVE  Mailboxes!Next
  <1>1. PICK e \in Device :
           /\ devices[e] = Null /\ outbox' = outbox \ Queue(e)
           /\ UNCHANGED <<devices, ready, conns>>
    BY DEF Purges
  <1>2. \A d \in Device : Mail(d)' = IF d = e THEN {} ELSE Mail(d)
    <2>1. \A d \in Device : Queue(d)' = IF d = e THEN {} ELSE Queue(d)
      BY <1>1 DEF Queue
    <2> QED
      BY <2>1 DEF Mail
  <1>3. \A d \in Device : HandedTo(d)' = HandedTo(d)
    BY <1>1, <1>2, SessionsStay
  <1>4. Enrolled' = Enrolled /\ e \notin Enrolled
    BY <1>1 DEF Enrolled, Registered
  <1> QED
    BY <1>2, <1>3, <1>4, AbstractPurge

\* The first statement, an enrollment, or a command that dies.
LEMMA EnrollRefines ==
    ASSUME SessionInv, SessionInv', Listen, QueueEffect({}), Enrolls
    PROVE  Mailboxes!Next
  <1>1. \A d \in Device : Mail(d)' = Mail(d)
    BY DEF Enrolls, Mail, Queue
  <1>2. \A d \in Device : HandedTo(d)' = HandedTo(d)
    BY <1>1, SessionsStay DEF Enrolls
  <1> QED
    BY <1>1, <1>2, AbstractJoin

\* onAuth: a session begins with the whole mailbox.
LEMMA AuthRefines ==
    ASSUME SessionInv, SessionInv', Listen, QueueEffect({}), AuthStep
    PROVE  Mailboxes!Next
  <1>1. PICK s \in Sock, f \in AuthFrames :
           ready[s] \in {"open", "closing"} /\ ~conn[s].authed /\ AuthAccepted(s, f)
    BY DEF AuthStep
  <1>2. Inv
    BY DEF SessionInv, QueueInv
  <1>3. PICK e \in Device : e = conn[s].pending
    BY <1>1, <1>2 DEF AuthAccepted, Verified, Inv, TypeOK, ConnObject
  <1>4. Registers(s, e)
    <2> DEFINE flush == DeliverFrames(Pending(outbox, e, FALSE))
    <2>1. Verified(s, f) /\ Admit(s, flush)
      BY <1>1, <1>3 DEF AuthAccepted
    <2> HIDE DEF flush
    <2> QED
      BY <1>1, <1>2, <1>3, <2>1, AdmitFrames DEF TakesPlace
  <1>5. devices' = devices /\ \A d \in Device : Mail(d)' = Mail(d)
    <2> DEFINE rows == Pending(outbox, e, FALSE)
    <2>1. outbox' = MarkDelivered(outbox, rows) /\ devices' = devices
      BY <1>1, <1>3 DEF AuthAccepted
    <2>2. rows \in SUBSET outbox /\ outbox \in SUBSET Row
      BY <1>2 DEF Pending, Inv, TypeOK
    <2> HIDE DEF rows
    <2> QED
      BY <2>1, <2>2, MarkedMail DEF Mail, Queue
  <1>6. /\ e \in Device /\ conns' = [conns EXCEPT ![e] = s] /\ ready'[s] = ready[s]
        /\ \A t \in Sock \ {s} : t # conns[e] => ready'[t] = ready[t]
    BY <1>4 DEF Registers
  <1>7. \A d \in Device : conns'[d] = IF d = e THEN s ELSE conns[d]
    BY <1>2, <1>6 DEF Inv, TypeOK
  <1>8. \A d \in Device : conns[d] # s
    BY <1>1, <1>2, SockAssumption DEF Inv, RegistryConsistent, Online
  <1>9. \A d \in Device \ {e} : (Listening(d)' <=> Listening(d)) /\ conns'[d] = conns[d]
    <2> SUFFICES ASSUME NEW d \in Device, d # e, conns[d] # Null
                 PROVE  ready'[conns[d]] = ready[conns[d]]
      BY <1>7 DEF Listening, Online
    <2>1. conns[d] \in Sock \ {s}
      BY <1>2, <1>8 DEF Inv, TypeOK
    <2>2. conns[d] # conns[e]
      BY <1>2, <1>6, SockAssumption DEF Inv, RegistryConsistent, Online
    <2> QED
      BY <1>6, <2>1, <2>2
  <1>10. \A d \in Device \ {e} : HandedTo(d)' = HandedTo(d)
    <2> SUFFICES ASSUME NEW d \in Device \ {e}, Listening(d)'
                 PROVE  Told(d)'.msgs = Told(d).msgs
      BY <1>9 DEF HandedTo
    <2>1. Told(d)'.msgs = Told(d).msgs \cup (Mail(d)' \ Mail(d))
      BY <1>9, SessionFollows
    <2>2. Mail(d)' \ Mail(d) = {}
      BY <1>5
    <2> QED
      BY <2>1, <2>2
  <1>11. Enrolled' = Enrolled
    BY <1>5 DEF Enrolled, Registered
  <1>12. CASE Listening(e)'
    <2>1. conns'[e] # conns[e]
      BY <1>6, <1>7, <1>8
    <2>2. Told(e)'.msgs = Mail(e)
      BY <1>5, <1>12, <2>1, SessionFollows
    <2>3. \A d \in Device : HandedTo(d)' = IF d = e THEN Mail(d) ELSE HandedTo(d)
      BY <1>10, <1>12, <2>2 DEF HandedTo
    <2> QED
      BY <1>5, <1>11, <2>3, AbstractBegin
  <1>13. CASE ~Listening(e)'
    <2>1. \A d \in Device : HandedTo(d)' = IF d \in {e} THEN Null ELSE HandedTo(d)
      BY <1>10, <1>13 DEF HandedTo
    <2>2. {e} \in SUBSET Device
      OBVIOUS
    <2> QED
      BY <1>5, <1>11, <2>1, <2>2, AbstractEnd
  <1> QED
    BY <1>12, <1>13

\* handleSend: the message enters the mailboxes that do not hold it.
LEMMA SendRefines ==
    ASSUME SessionInv, SessionInv', Listen, QueueEffect({}), SendStep
    PROVE  Mailboxes!Next
  <1>1. PICK s \in Sock, m \in Msg, to \in SUBSET Device, now \in 0..MaxClock :
           conn[s].authed /\ HandleSend(s, m, to, now)
    BY DEF SendStep
  <1> DEFINE x        == conn[s].deviceId
             accepted == Accepted(x, to)
             fresh    == {e \in accepted : \A r \in Queue(e) : r.msg # m}
             added    == Inserted(x, m, accepted, now)
             queued   == outbox \cup added
             pushed   == UNION {Pending(queued, e, TRUE) : e \in PushTargets(accepted)}
  <1>2. outbox' = MarkDelivered(queued, pushed) /\ UNCHANGED <<devices, ready, conns>>
    BY <1>1 DEF HandleSend
  <1>3. x \in Device /\ outbox \in SUBSET Row
    BY <1>1 DEF SessionInv, QueueInv, Inv, TypeOK, ConnObject, RegistryConsistent
  <1>4. added \in SUBSET Row
    BY <1>3, InsertedType
  <1>5. pushed \in SUBSET queued
    BY DEF Pending
  <1>6. added = {[msg |-> m, to |-> e, from |-> x, recvAt |-> now, delivered |-> FALSE] :
                   e \in fresh}
    BY DEF Inserted
  <1>7. fresh \in SUBSET Device /\ fresh \subseteq Enrolled
    BY DEF Accepted, Enrolled
  <1>8. \A d \in fresh : m \notin Mail(d)
    BY DEF Mail
  <1> HIDE DEF x, accepted, fresh, added, pushed
  <1>9. ASSUME NEW d \in Device
        PROVE  Mail(d)' = IF d \in fresh THEN Mail(d) \cup {m} ELSE Mail(d)
    <2>1. Mail(d)' = {r.msg : r \in {q \in queued : q.to = d}}
      BY <1>2, <1>3, <1>4, <1>5, MarkedMail
    <2>2. {q \in queued : q.to = d} = Queue(d) \cup {q \in added : q.to = d}
      BY DEF Queue
    <2>3. {r.msg : r \in {q \in added : q.to = d}} = IF d \in fresh THEN {m} ELSE {}
      <3>1. CASE d \in fresh
        <4>1. [msg |-> m, to |-> d, from |-> x, recvAt |-> now, delivered |-> FALSE] \in added
          BY <1>6, <3>1
        <4>2. \A r \in added : r.msg = m
          BY <1>6
        <4> QED
          BY <3>1, <4>1, <4>2
      <3>2. CASE d \notin fresh
        BY <1>6, <3>2
      <3> QED
        BY <3>1, <3>2
    <2>4. Mail(d)' = Mail(d) \cup {r.msg : r \in {q \in added : q.to = d}}
      BY <2>1, <2>2 DEF Mail
    <2> QED
      BY <2>3, <2>4
  <1>10. ASSUME NEW d \in Device
         PROVE  HandedTo(d)' = IF d \in fresh /\ HandedTo(d) # Null
                               THEN HandedTo(d) \cup {m} ELSE HandedTo(d)
    <2>1. (Listening(d)' <=> Listening(d)) /\ conns'[d] = conns[d]
      BY <1>2 DEF Listening, Online
    <2>2. CASE Listening(d)
      <3>1. Told(d)'.msgs = Told(d).msgs \cup (Mail(d)' \ Mail(d))
        BY <2>1, <2>2, SessionFollows
      <3>2. Mail(d)' \ Mail(d) = IF d \in fresh THEN {m} ELSE {}
        BY <1>8, <1>9
      <3>3. Told(d).msgs # Null
        <4>1. conns[d] \in Sock
          BY <2>2, Reached DEF SessionInv, QueueInv
        <4>2. Told(d).msgs \in SUBSET Msg
          BY <4>1 DEF SessionInv, QueueInv, PeerInv, Told
        <4> QED
          BY <4>2, SilenceAssumption
      <3> QED
        BY <2>1, <2>2, <3>1, <3>2, <3>3 DEF HandedTo
    <2>3. CASE ~Listening(d)
      BY <2>1, <2>3 DEF HandedTo
    <2> QED
      BY <2>2, <2>3
  <1>11. Enrolled' = Enrolled
    BY <1>2 DEF Enrolled, Registered
  <1> QED
    BY <1>7, <1>9, <1>10, <1>11, AbstractPost

\* Every step of the hub is a step of the mailboxes.
LEMMA StepRefines ==
    ASSUME SessionInv, SessionInv', CliInv, Next, Listen
    PROVE  Mailboxes!Next
  <1>1. Inv /\ Inv' /\ QueueInv
    BY DEF SessionInv, QueueInv
  <1>2. CASE AuthStep
    <2>1. QueueEffect({})
      BY <1>1, <1>2, AuthStepEffect
    <2> QED
      BY <1>2, <2>1, AuthRefines
  <1>3. CASE ~AuthStep
    <2>1. /\ QueueEffect({})
          /\ \A d \in Device : Listening(d)' => Listening(d) /\ conns'[d] = conns[d]
      BY <1>1, <1>3, NoneBegins
    <2> QED
      BY <1>1, <1>3, <2>1, TableKinds, EndRefines, AckRefines, EnrollRefines,
         PurgeRefines, SendRefines
  <1> QED
    BY <1>2, <1>3

\* KeepsMailboxes: the hub implements module Mailbox (PROTOCOL.md section 6).
THEOREM MailboxesKept == SessionsSpec => KeepsMailboxes
  <1>1. SessionsInit => Mailboxes!Init
    <2>1. SessionsInit => \A d \in Device : Mail(d) = {} /\ HandedTo(d) = Null
      BY DEF SessionsInit, Init, ServerInit, Mail, Queue, HandedTo, Listening, Online
    <2>2. Enrolled \in SUBSET Device
      BY DEF Enrolled
    <2> QED
      BY <2>1, <2>2 DEF Mailboxes!Init, Mail, HandedTo
  <1>2. SessionsInit => CliInv
    BY DEF SessionsInit, Init, CliInv
  <1>3. SessionInv /\ CliInv /\ [SessionsNext]_<<vars, heard>> => CliInv'
    <2>1. [SessionsNext]_<<vars, heard>> => [Next]_vars
      BY DEF SessionsNext
    <2>2. SessionInv => Inv
      BY DEF SessionInv, QueueInv
    <2> QED
      BY <2>1, <2>2, CliStep
  <1>4. SessionInv /\ SessionInv' /\ CliInv /\ [SessionsNext]_<<vars, heard>>
          => [Mailboxes!Next]_Mailboxes!vars
    <2>1. ASSUME UNCHANGED <<vars, heard>> PROVE UNCHANGED Mailboxes!vars
      BY <2>1 DEF Mailboxes!vars, vars, Queue, Listening, Online, Told, Enrolled, Registered
    <2> QED
      BY <2>1, StepRefines DEF SessionsNext
  <1> QED
    BY <1>1, <1>2, <1>3, <1>4, SessionAlways, PTL
    DEF SessionsSpec, KeepsMailboxes, Mailboxes!Spec
=============================================================================
