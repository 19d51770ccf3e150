# The family messenger hub in TLA+

The hub (`src/src`) is a Node.js process on an old phone. The devices of one family
keep a WebSocket to it; it authenticates them, queues end-to-end encrypted messages
in SQLite until the recipient acknowledges them, and tells everybody who is online.
This directory holds its specification: TLA+ modules that follow the source file by
file, the TLC models that check them on small families, and TLAPS proofs for families
of any size. It goes from the handler of a single frame to the whole system: hub,
administrator, clients, network, and the life of the process.

## 1. Inventory

| Component | Source | State it keeps | Operations | What makes it correct |
|---|---|---|---|---|
| Connections, handshake, registry | `src/server.js` | one `conn` object per socket; `conns`: deviceId → conn | connection, message (`onHello`, `onAuth`, `router.handle`), close, heartbeat, `close()` | the registry and the authenticated connections agree; one live connection per device; an evicted one stays out; member lists and presence are exact; a vanished peer leaves in time, a live one is never cut |
| Routing and queue | `src/router.js` | table `outbox`; `conn.sendTimes` | `handleSend`, `handleAck`, `deliverPending`, `broadcastPresence`, `withinRateLimit` | at-least-once delivery; nothing waits unseen for a device that is online; the order of a socket |
| Authentication | `src/auth.js` | `devices.display_name`, `last_seen_at` | `beginChallenge`, `verifyChallenge`, `listMembers`, `membersFingerprint` | a nonce is good for one attempt; the fingerprint notices every change of the list |
| Database | `src/db.js` | tables `devices`, `outbox`, `events` | `open`, `transaction`, `logEvent` | what was confirmed survives a crash of the process; a write that fails spoils one session at most |
| Enrollment command | `scripts/enroll.js` | the same database, from another process | enroll, re-key, rename, `--remove`, `--list` | no queue is left for a device that is gone |
| Supervision and process life | `src/index.js`, `scripts/start-hub.sh`, `start` and `close` in `src/server.js` | the phase of the process, its timers | start, signal, exit code, retry | the hub comes back after every exit; `close()` does not wait for a client that vanished |
| Tailnet addresses | `src/tailscale.js` | none | `isTailscaleIp`, `findTailscaleAddress`, `resolveBindHost`, ... | never bound wider than configured; exactly the tailnet is served |
| Reference client | `scripts/dummy-client.js` | messages, seen ids, member list | connect, send, ack, deduplicate | each message is taken in the end; nothing is acked that was not taken; what was confirmed is kept |
| Plaintext check | `scripts/verify-no-plaintext.js` | counters of one run | scans a database | its exit code and its OK line tell the truth |

How they interact. The hub process is one thread: the `ws` library calls a handler per
event, `node:sqlite` is synchronous, and no handler of a connection awaits, so handlers
never interleave with each other. Two things do run beside them: the administrator's
command, whose SQL statements commit one by one between the hub's handlers, and the
peers, whose frames, closes and silences come in any order, also on sockets the hub has
already called `close()` on. `start()` and `close()` await, at the beginning and the
end of a process: between them and the supervisor stands module Process. Handlers of different connections meet in `conns`, in the
`authed` flag that `onAuth` clears on the connection it evicts, and in the two tables.
Between a client and the hub, frames are under way in both directions, and each side
learns by itself, at a different time, that a connection has ended.

The hard behaviours are therefore: the late close event of an evicted socket; frames on
a socket that is closing, a second handshake among them; a send that meets its
recipient's connect, eviction or close; delivery that was written and never acked; the
member list going out of date behind the back of connected devices; `--remove` half
done; restart between any two handlers; a database write that throws in the middle of a
handler; peers that vanish without a word; a tailnet that comes up after the hub.
`PROJECT.json` lists each of them at its line.

## 2. Modules

    Ordered           ORDER BY and Array.filter: sets put in order
    HubState          the variables every source file shares, TypeOK
      Router          src/router.js
      Auth            src/auth.js
        Server        src/server.js  (Router + Auth + the connections)
      Enroll          scripts/enroll.js
          Hub         Server and Enroll on one database: Init, Next, Spec, safety
            Sessions  Hub + a history of what each socket was told
              HubFaults   Sessions + database writes that throw
      Client          scripts/dummy-client.js and its TCP connection
            System    Hub + one Client per device: end to end, with liveness
    Mailbox           abstract: what the hub promises; instantiated by Sessions
    Tailnet           src/tailscale.js
      Process         start-hub.sh, index.js, start(), heartbeat and close() over time
    RateLimit         withinRateLimit over time, on its own
    Plaintext         scripts/verify-no-plaintext.js, on its own

    HubProofs         TLAPS proofs about Hub
      SessionProofs   ... about Sessions, the refinement of Mailbox among them
        FaultProofs   ... about HubFaults
      SystemProofs    ... about System
        LedgerProofs  ... about what its senders were told
    ProcessProofs, PlaintextProofs, RateProofs
                      ... about the modules of these names
    MCRegistry, MCRouting, MCFaults, MCSystem, MCProcess, MCPlaintext, MCRateLimit
                      model-checking constants

### State

| Variable | Code |
|---|---|
| `devices` | table `devices`; a row is a `Profile`, name and key pair |
| `outbox` | table `outbox`; `delivered` is `delivered_at IS NOT NULL` |
| `conn[s]` | the `conn` object of socket `s`: `authed`, `deviceId`, `pendingDeviceId`, `nonce`, `membersFingerprint` |
| `conns` | `hub.conns` |
| `ready[s]` | the socket: `free`, `open`, `closing` (the hub called `close()`, the peer's frames still arrive), `ending` (only the close event is left) |
| `up` | FALSE from `close()` until the next process |
| `cli` | the device `enroll.js --remove` has deleted and not yet purged |
| `clock` | the last `Date.now()` that became a `recv_at` |
| `out[s]` | the frames the last step wrote on `s`, in order; output only |
| `heard[s]` (Sessions) | what the peer of `s` has learnt from those frames; history only |
| `cut` (HubFaults) | the devices whose flush was broken off in this session; history only |
| `link`, `welcomed`, `known`, `seen` (Client) | `this.ws`, `this.ready`, the ids in `this.members`, `this.seen` |
| `tried`, `confirmed` (Client) | the app's own outbox: what was sent on this connection, each message with the members it was encrypted for; what of it was confirmed by `sent` |
| `toHub`, `toPeer` (Client) | the frames under way on a socket, in order |
| `upsets` (System, Process) | a bound: breaks, restarts, commands, signals still to come |
| `gone` (System) | the devices that were ever removed; history only |
| `setting`, `ifaces` (Process) | the environment variables; `os.networkInterfaces()` |
| `phase`, `host`, `sleep` (Process) | where start-hub.sh and index.js are; the address bound; the supervisor's `sleep` |
| `client`, `beat`, `closing` (Process) | `wss.clients` with `isAlive` and the pongs and close timers under way; the heartbeat's timer; how long `close()` has waited for `wss` (history) |
| `raw` (Process) | the TCP connections of the http server that have sent no complete request |
| `row`, `at`, `current`, `best` (Plaintext) | the loops of `checkOutbox` and `longestPrintableRun` |
| `flagged`, `failed`, `ok` (Plaintext) | its counter, the report's counter, the OK line |

### Actions

One handler is one action, with all it calls: `AuthAccepted` evicts, registers,
welcomes, refreshes, announces and flushes; `HandleSend` inserts, confirms and pushes.
`OnMessage` dispatches as the message handler does: garbage, then by `conn.authed`.
`HelloRefused` keeps the quirk of the code that the log write may throw before the
close. `OnClose` leaves the registry alone unless `HoldsPlace`. `NonceExpires`,
`SocketDown` are time and network. `Restart` is the end of the process, by exit or by a
crash between two handlers, together with the start of the next one. `RemoveDevice` and
`PurgeQueue` are the two statements of `--remove`.

HubFaults adds, for each statement whose failure leaves something behind, the handler
stopped there: the log of a refused hello or auth, `touchLastSeen`, the log between the
registration and the welcome, the UPDATE in the middle of a flush or of a push, the log
after the COMMIT of a send or an ack. Each ends in the answer of the catch block. If
that block throws as well the process ends: the same action, then `Restart`.

System puts the handlers of Hub behind queues of frames. `HubReceive` hands the next
frame of a socket to the handler that takes it, `Transmit` puts what the handler wrote
under way, `Read` and `Write` are the client's. `ClientEnds`, `HubEnds` and `Close` are
the three moments at which a broken connection is noticed. `Break` and `Administer`
spend `upsets`.

Process counts time. `Tick` waits for everything that is due, so a timer is never late.
`Resolve` and `Listen` are separate because `start()` awaits between them; `Heartbeat`
terminates whoever has not answered since the last one and pings the others. `close()` is
three actions, one per await: `Signal` closes the clients, `Drain` is the callback of
`wss.close`, when the last of them has gone, and `Stopped` that of `httpServer.close`, when no
TCP connection is left. `Connect` begins such a connection, `Accept` makes it a client's by its
upgrade, and `HttpEnds` is its end in any other way; none of the three is owed.
`Supervised` is the shell's branch on the exit code. Plaintext has one action per row
taken, per unit scanned and per verdict.

### Abstractions

- **A handler is atomic**, database reads included. Statements of the command could
  only fall between the reads of one handler (say, the fingerprint and the member list of
  `sendWelcome`); the window is microseconds and is not modelled.
- **Database errors** are in HubFaults, not in Hub, Sessions or System.
- **Cryptography**: a signature is made with a key over a nonce that its signer was
  shown. A nonce drawn on a closing socket is `sealed`: `sendJson` dropped it, so nobody
  can sign it. `NONCE_TTL_MS` is the action `NonceExpires`.
- **ULIDs** are natural numbers with the same order; each is drawn by one device
  (`Author`), as 80 random bits make practically sure.
- **The clock does not step back** and `MaxClock` bounds its distinct readings.
- **Sockets are slots**: a slot is free again after the close event, so a bound on
  `Sock` bounds the sockets alive at one time, not their number over time.
- Ciphertext, `sentAt`, `events`, `last_seen_at`, `created_at`, log texts: not
  represented; no handler's control depends on them. A validation that fails (`validateSend`,
  the ack checks, an exception before anything was written) is `RefuseFrame`.
- `RefuseRate` may refuse any send in Hub; when it may is module RateLimit. System leaves
  it out: a client of its size stays far below the limit.
- **On System's wire** presence, receipts and pongs are left out (they change what a client
  displays and nothing it does; Sessions reads them), and clients are honest: each signs
  with its own key. Forged and malformed frames are Hub's.
- **The app around the client** is not in the repository. That it sends an unconfirmed
  message again after a reconnection, with the same `msgId`, is rule 4 of PROTOCOL.md
  section 6.
- **What a client takes.** `_open` has three outcomes. It gives a text, or the placeholder of a
  message that does not decrypt, and either is put among the messages, remembered in
  `this.seen` and acked; or nothing, while the sender's key is unknown, and then no ack.
  The model does not tell the first two apart: both are *taken*. `this.messages` itself,
  which gets an entry whenever `this.seen` does, is for display and not a variable.
- **Process** has no frames: a peer is alive or has vanished, answers a ping within
  `RoundTrip`, or closes. One unit of time is ten seconds in MCProcess.
- **An address** is its prefix and the numbers between its dots; a **ciphertext** is a
  sequence of units, characters by class or stray bytes, whose sizes in bytes count where
  the code counts bytes.

## 3. Properties and runs

### Fairness

Hub, Sessions, HubFaults and RateLimit state none: their properties are about states and
single steps. Plaintext has none either, for the same reason. Two modules have it, because
something must happen in them:

- **System.** Weak fairness for what machines do unasked: a socket delivers its next frame
  (`HubReceive`, `Read`), the event loop reports a close (`Close`), each side notices that
  the other is gone (`ClientEnds`, `HubEnds`; for the hub that is the heartbeat, see
  Process), the app sends what is unconfirmed (`Write`), start-hub.sh starts the hub again
  (`Resume`), a command that was begun ends (`Purge`). Strong fairness only for `Open`: sockets
  are slots of the model, and a client that connects again and again could otherwise take
  the last slot each time it is free; the code has no such limit. Nothing that breaks,
  expires, restarts or is typed by the administrator is fair: it may happen `MaxUpsets`
  times and need not happen at all.
- **Process.** Weak fairness for time, timers, the steps of a start, pongs on their way and
  the supervisor's loop. Peers, signals, crashes and network changes owe nothing.

### Runs

| Run | Checks | Instance |
|---|---|---|
| `registry` | `RegistryConsistent`, `PresenceAccurate`, `ReplacedNeverReturns` | 2 devices, 3 sockets, 2 keys, peers inside and outside the tailnet, no messages |
| `membership` | `TypeOK`, `MembershipShared`, `MembersTold`, `PresenceAccurate` | 2 devices, 2 sockets, 2 names, both devices enrolled, renamed and removed at any time, `--remove` may stop half-way |
| `routing` | `NoStrandedRow`, `OnlineHasEverything`, `SocketOrder`, `NoOrphanRows`, `TakenByOwner`, `KeepsMailboxes` | 2 devices, 2 sockets, one message of each, 2 clock readings, one device enrolled and removed |
| `faults` | `RegistryConsistent`, `ReplacedNeverReturns`, `DamageConfined`, `DeliveryOrder`, `PresenceSound`, `WelcomedShareMembers` | 2 devices, 2 sockets, 2 messages of one writer, 2 clock readings, one device managed, every write may fail, any number of times |
| `system` | `LeavesOnlyShown`, `ConfirmedIsKept`, `KnownSender`, `Delivered`, `QueueEmpties`, `Confirmed` | 2 clients, 2 sockets, one message, 2 clock readings, both devices managed, 2 upsets |
| `process` | `NeverWider`, `PeersScreened`, `GoneInTime`, `ClientsGoneInTime`, `LiveNeverCut`, `ComesBack` | 2 clients, 1 TCP connection without a request, interval 3, close timeout 3, round trip 1, a tailnet that comes and goes on a carrier with 100.x addresses, 2 upsets |
| `plaintext` | `RunFound`, `ExitTells`, `OkOverFailure` | rows of up to 5 units of 5 classes before one of 4 second rows; limits 3 and 2 |
| `rate_limit` | `TypeOK`, `ConnectionLimited`, `RefusedOnlyWhenFull` | limit 2, window 3, time 0..6, 6 accepted sends |

The hub, seen from its sockets:

- `RegistryConsistent`: `conns` points to live, authenticated connections of the right
  device, and every authenticated connection is the registered one.
- `ReplacedNeverReturns`: a step never authenticates a connection that was evicted.
- `PresenceAccurate`: a peer's picture of who is online, folded from welcomes and
  presence frames, is exactly the registry, restricted to the members it knows.
- `MembershipShared`, `MembersTold`: every online device is on the same member list, and
  what was put on the wire is that list without the device itself. Note what is *not*
  claimed: that this list is the current table. An enrollment or a rename reaches
  connected devices with the next authentication of anybody.
- `NoStrandedRow`: `~delivered` implies that the recipient is away. This is what lets
  `handleSend` push with `onlyNew` alone.
- `OnlineHasEverything`: all that is queued for a device was written to the very socket
  it is online with. `delivered` alone does not say that; it may stem from an older
  socket or from a frame that was dropped.
- `SocketOrder`: the welcome first, deliveries in the order of `recv_at`.
- `NoOrphanRows`: no row waits for a device that is not enrolled, outside `--remove`.
- `KeepsMailboxes`: under the mapping in Sessions every step of the hub is a step or a
  stutter of Mailbox: one mailbox changes at a time, and a session starts with the whole
  mailbox.
- `TakenByOwner`: a row that leaves the queue does so while its recipient is online, and a
  sender who can be written to reads a receipt in that recipient's name; or it goes with
  `--remove`. One message has a row per recipient, and nobody's ack takes another's.
- RateLimit: no window of time, wherever it starts, holds more than the limit on one
  connection, although only the last window is remembered; a refusal is never spurious.

When writes fail. `NoStrandedRow`, `OnlineHasEverything`, `MembershipShared`, the
welcome-first half of `SocketOrder` and the completeness of presence do *not* survive: a send that is queued and
not logged is pushed to nobody, and a device registered and not welcomed is online without
knowing it. What does survive is in `faults`:

- `RegistryConsistent` and `ReplacedNeverReturns`, unchanged.
- `DamageConfined`: outside a session whose own flush broke off, a queued row was written
  on this socket or is still marked as new, so that the next push or flush carries it. The
  code owes this to the order in `deliverPending`, frame first and UPDATE second.
  The device of such a session, which may be registered and never welcomed, is excepted until
  it connects again, here and in the next two: no code repairs it.
- `DeliveryOrder`, and `PresenceSound`: arrivals may go unannounced, but nobody is
  believed online who is not.
- `WelcomedShareMembers`: the member list is shared by whoever was welcomed.

From end to end:

- `LeavesOnlyShown`: a row leaves the hub's queue only when the recipient's client has taken
  the message, or the recipient is no longer enrolled.
- `ConfirmedIsKept`: when the sender was told `sent`, every member the message was
  encrypted for has taken it, or the hub holds it for him, or he was removed. From
  then on the sender has forgotten it, whatever breaks.
- `KnownSender`: the delivery a client is about to read comes from a member it knows,
  because the refresh of the lists precedes the messages.
- `Delivered`, `QueueEmpties`, `Confirmed`: what is queued is eventually taken, leaves the
  queue although acks are lost and retransmissions come after them, and what is written is
  eventually confirmed, through breaks, evictions and restarts; unless the devices
  concerned are removed. The exception for a removed *sender* is real: see what
  becomes of its rows below.

The process:

- `NeverWider`: `HUB_HOST=tailscale` never means another address, however the interfaces
  change between starts. `PeersScreened`: exactly the tailnet is served, in both notations
  of an address, on a carrier whose own addresses are next to the range.
- `GoneInTime`: a vanished peer is gone after two heartbeats, although it may have answered just before
  it vanished. `LiveNeverCut`: a heartbeat cuts nobody who answers.
- `ClientsGoneInTime`: `close()` waits for its clients no longer than the close timeout,
  although it stops the heartbeat first.
- `ComesBack`: whatever ended it, the hub listens again, unless there is no tailnet or the
  old process is held in `httpServer.close()` by a connection that became nobody's. That
  may last for ever, see below.

The plaintext check: `RunFound` is what the scanning loop knows at every byte, `ExitTells`
what exit code 0 means, `OkOverFailure` that no row, a skipped one included, fails under
the line that says all rows look like ciphertext.

### Bounds

Eviction involves two sockets of one device and a third as
the witness of what others are told: `registry` has three. The member list is a matter of two
online devices and the table: two sockets. Two messages are what order, a partial ack and a
retransmission need; two clock readings give both an order by `recv_at` and a tie. `faults`
has one writer, so that two messages queue up for one recipient and a flush can break between them. In
`system` one message already meets every duplicate: a lost ack, a retransmission before and
after it; two upsets allow a break during the recovery from another, or a removal and an
enrollment. In `process` an interval of three holds a round trip with room on both sides; two
connections let one vanish while the other answers; two upsets allow a crash and a tailnet
lost during the start that follows; one TCP connection without a request is enough to hold
`httpServer.close()`, and a second would be held beside it. In `plaintext` a text of five units holds a run of the limit at
its beginning, middle and end, and two runs that are too short; the second row has each
verdict and both nonces. A limit of 2 in a window of 3 fills, slides and empties several times in 7 instants.

All runs exhaust their state spaces. Symmetry is used for sockets, and in MCRegistry also for
devices, names and keys, which no definition tells apart there; messages are ordered and
`Author` names its device, so neither they nor the devices are permuted elsewhere. All
properties under symmetry are safety properties; `system` and `process`, which check liveness, use none.
`View` leaves out `out`, which no action and no invariant reads, and in MCFaults the half of
`SocketOrder` that is not checked there; step properties that
read it are evaluated on every step TLC generates, before the view is applied. The deadlock
check is off in `system`, which comes to rest when everything is acked and no upset is
left, and in `plaintext`, which ends.

### Where the code does not do what is said of it

Four runs check a sentence of the documentation and TLC finds a counterexample.

- `hello_left_open` (`FailedHelloCloses`): PROTOCOL.md line 47 ends the socket after a
  failed handshake. A `deviceId` that is an object or a boolean makes the log write throw
  before `ws.close`; the socket stays open.
- `sent_recv_at` (`SentAgrees`): the confirmation of a retransmission carries a new
  `recvAt`, the rows keep the first one. The sender and the recipients then sort the same
  message by different times.
- `remove_aborted` (`NoOrphanRows` with `CliAborts`): `--remove` that stops between its
  statements leaves rows that no later `--remove` deletes.
- `rate_per_device` (`DeviceLimited`): the limit stated per device is kept per connection.

Two more disagreements show as the exceptions that liveness properties must make:

- `Delivered` and `QueueEmpties`, `Author[m] \in gone`: PROTOCOL.md lines 322-323 has a recipient leave a message
  without an ack while it does not know the sender, because the key is about to come.
  `--remove` deletes the rows *for* a device and leaves those *of* it: a recipient welcomed
  afterwards never learns the key, and is given the message at every connection.
- `ComesBack`, `phase = "draining" /\ raw # {}`: OPERATIONS.md lines 281-285 restart the hub by a signal to
  the process, which the supervisor's loop starts again. `close()` also awaits
  `httpServer.close`, which waits for TCP connections that have sent no complete request:
  they are not idle, they have no close timer, and the interval in which Node would time them out
  is cleared by that very call. If the peer of one has vanished, the process does not end.

## 4. What is proved

Thirty-three theorems, for every value of the constants. Every invariant and every action
property of the runs that pass is stated by one of them; liveness is not. The
assumptions are those named in the modules: `Null` is no socket, device or profile; the family
is finite (`FamilyAssumption`: without it a list of members has no order); messages are natural
numbers with one author each; `Managed` is a set of devices; `Null` is no member list a peer
could be told (`SilenceAssumption`); there is a key to sign with (`KeyAssumption`); intervals are
natural numbers and a round trip is shorter than a heartbeat's interval; addresses, interfaces
and rows have their shapes; limits and windows are positive.

| Module | Theorem | Property |
|---|---|---|
| HubProofs | `TypeCorrect` | `TypeOK` |
| | `RegistryCorrect` | `RegistryConsistent` |
| | `EvictionIsFinal` | `ReplacedNeverReturns` |
| | `NothingStranded` | `NoStrandedRow` |
| | `MembersAgree` | `MembershipShared` |
| | `NoOrphans` | `NoOrphanRows`, provided `~CliAborts` |
| | `OwnersTake` | `TakenByOwner` |
| SessionProofs | `EverythingShown` | `OnlineHasEverything` |
| | `PresenceExact` | `PresenceAccurate` |
| | `OneFamily` | `MembersTold` |
| | `SocketsInOrder` | `SocketOrder` |
| | `MailboxesKept` | `KeepsMailboxes`: the hub implements Mailbox |
| FaultProofs | `RegistrySurvives` | `RegistryConsistent`, of `FaultSpec` |
| | `EvictionStaysFinal` | `ReplacedNeverReturns`, of `FaultSpec` |
| | `WelcomedAgree` | `WelcomedShareMembers` |
| | `FailureConfined` | `DamageConfined` |
| | `OrderSurvives` | `DeliveryOrder` |
| | `NoGhosts` | `PresenceSound` |
| SystemProofs | `AckedOrRemoved` | `LeavesOnlyShown` |
| | `SendersKnown` | `KnownSender` |
| | `FamilyRunsTheHub` | `SystemSpec => Spec` |
| LedgerProofs | `ConfirmedAreKept` | `ConfirmedIsKept` |
| RateProofs | `MemoryBounded` | `TypeOK` of RateLimit |
| | `LimitEnforced` | `ConnectionLimited` |
| | `RefusalJustified` | `RefusedOnlyWhenFull` |
| ProcessProofs | `BoundToTailnet` | `NeverWider` |
| | `PeersAreScreened` | `PeersScreened` |
| | `VanishedAreFound` | `GoneInTime` |
| | `ClientsAreGone` | `ClientsGoneInTime` |
| | `LiveAreKept` | `LiveNeverCut` |
| PlaintextProofs | `LongestRunFound` | `RunFound` |
| | `ExitIsTruthful` | `ExitTells` |
| | `NoOkOverFailure` | `OkOverFailure` |

**HubProofs.** The inductive invariant is `Inv == TypeOK /\ RegistryConsistent /\ HandshakeInv`.
`RegistryConsistent` is not inductive by itself: a connection that was evicted, or one that
lives in a slot that was used before, could hold a challenge that can still be answered.
`HandshakeInv` says what the handlers know without writing it down: a free slot holds a new
connection object, an authenticated connection has no challenge outstanding, and a connection that
was evicted is on a socket that is not open any more and has no nonce that can still be signed. `onAuth` clears the nonce
before it verifies, eviction closes the socket, and `sendJson` drops the next challenge:
together they make eviction final. One lemma per action that the invariant depends on
(`InvConnect`, `InvHello`, `InvAuthAccepted`, `InvOnClose`, ...), `InvNext` and `InvAlways`; then each
theorem with one step lemma of its own. `Registers` is what any handler does that puts a
device into the registry, and `InvRegisters` that it keeps `Inv`; `AuthEffect` is what the
member lists become in an accepted auth. The last part has what the proofs above this module
share: `TableInv` (the primary key of the outbox, and no row ahead of the clock), `CliInv`,
and the facts about `InOrder` that make a list of rows of a finite set of rows. `OwnersTake`
rests on `TableInv` too: with the primary key, the rows an ack removes for one sender are
listed with a receipt for each (`OwnerStep`), and the rows of a flush or push stay, marked
(`MarkedLetter`).

**SessionProofs.** What a peer has learnt is computed from the frames it was written, of which
there may be any number. The module never argues by induction over them. Part 1 says what a
reader has after a sequence of frames in closed form (the last welcome and the presence frames
behind it, the ids of the deliveries, the last `recv_at`); parts 2 to 6 say how a step may treat
the queue, whichever step it is. `QueueEffect` is that contract: the rows that are marked are
written on the socket of their recipient, in order, none behind an older one that stays
unshown; and a socket either goes on with its session or starts one with everything that was
ever marked. Each handler satisfies it (`Part 4` lists their kinds), and the invariants follow
from the contract alone, so that FaultProofs can use it again with handlers that stop half-way.
`SessionInv` is inductive: `QueueInv` (`NewestLast`: what was not shown yet is no older
than what was shown last, which is what a push needs so as not to break the order),
`OwnLists` (the fingerprint on the hub's side stands for the list on the peer's),
`OnlyOnline` and `AllOnline` (presence is neither too much nor too little),
`EveryoneShown`, and `NoStrandedRow` and `MembershipShared` from below.
`MailboxesKept` is the refinement, one action of Mailbox for each kind of step. Its core is
`SessionFollows`: what a session was handed changes with the mailbox of its device alone.

**FaultProofs** shows the same `Inv` for handlers that stop half-way. A failure before the
registration changes no more than the nonce (`SpentSteps`); one after it is again
`Registers` (`RegisterEffect`, `FlushEffect`). `WelcomedAgree` needs one more fact,
`NeverWelcomed`: a connection nobody authenticated on was sent no list, so that one which is
registered and not welcomed is not among the welcomed. `FaultSafe == QueueInv /\ OnlyOnline /\
DamageConfined` is inductive: a flush or push that breaks off satisfies `QueueEffect` with
its device among the `broken` ones, because it wrote an initial part of the rows in order and marked all
of those but the last. Lost are `AllOnline`, `EveryoneShown`, `NoStrandedRow` and `MembershipShared`.

**SystemProofs.** `FamilyInv` ties the hub to the wire and the clients: the hub's own invariants,
the types of what is under way, `Drained` (a socket the hub reads no more has nothing
left to read), `OneSpeaker` (all that bears a device's name on one socket, the client's end,
the conn object, a hello under way, bears the same name) and `Honest` (what is under way on a socket was sent by its device and acks what that device has
taken). `AckedOrRemoved` needs the last two together: the hub deletes in the name of `conn.deviceId`,
the ids were chosen by the client at the other end, and nothing but `OneSpeaker` says that
they are the same device after slots were freed, taken again and evicted.
`SendersKnown` follows a sender from list to list. `Roster`: whoever is online or has a
row in the queue is on the list of everybody online, unless it was ever removed. `Feed`: whom the
hub's fingerprint names, the client will know when it has read what is under way to it
(`Covered`: the last welcome under way lists it, or there is none and the client knows it). A delivery is written
only behind such a list, and reading frames one by one keeps it so. `FamilyRunsTheHub` shows that every step of the family is a step of Hub or leaves the hub
unchanged, so that whatever is proved about `Spec` holds in the family too.

**LedgerProofs.** `ConfirmedIsKept` speaks of the sender's client and of the hub's table, so
`Ledger` follows a message all the way round. A client lists only devices that are or were
members, never its own (a welcome under way is `GoodNews`). A send under way on the client's
connection is one of the transmissions it tried (`GoodRequest`): hence `SentIsQueued`, each of its
recipients who is still enrolled has a row after `handleSend`, the old one in the case of a
retransmission, and the `sent` that answers it is `GoodNews`, a confirmation of something
`Kept`. A client tries no message twice on one connection, so the `sent` names one
transmission even when the members have changed since an earlier connection. `KeptStays` is `RowLeaves`, the
lemma behind `AckedOrRemoved`, once more: a row leaves when the message was taken or the recipient removed, and
`seen` and `gone` only grow.

**RateProofs.** `RateInv`: the memory of a connection is the tail of its history, and what it has
forgotten is older than the window. Times ascend, so the filter cuts off a prefix
(`KeptTail`); that is why remembering one window suffices for every window.

**ProcessProofs.** The times follow from three inequalities that every step keeps. `Overdue`: a
peer that vanished has been silent for at most the beats it survived, so the time it has
been silent and the time to the next beat add up to one interval if it is still marked
alive, to two if not. `Expected`: for a live peer that is not marked alive a pong is under way that
arrives before the beat, which needs `RoundTrip < Interval`. For the first wait of `close()`: the time waited
and the time left on any close timer add up to the close timeout, because the
timers of all clients run when it begins. `TailnetRange` shows that the
test by octets is the test of the first ten bits, for all addresses.

**PlaintextProofs.** The loop invariant `Scan` says that `current` is the length of the run
that ends at `at` (`Ending`) and `best` that of the longest (`Longest`).
`FragmentsAreCaught` and `TextsAreCaught` lead from there to the verdict, `ExitInv` carries the
verdicts from row to row, and `DistinctCount` is the pigeonhole that justifies comparing
COUNT(*) with COUNT(DISTINCT nonce).

**Only model-checked.** `Delivered`, `QueueEmpties`, `Confirmed` and `ComesBack` are liveness under fairness, which
this prover does not treat; what they rest on (`FamilyInv`, `SessionInv`) is proved. The four
counterexamples are TLC's: they refute, where a proof has nothing to show.

## 5. What is left

Not modelled, and why:

- **Power loss.** With `synchronous = NORMAL` the last committed transactions may be lost.
  No code answers it; a model could only restate that a confirmed message may be gone.
- **A wall clock that steps back** breaks the order of a socket. The protocol assumes it
  does not; so does the model.
- **Rebinding.** A hub whose address disappears while it listens goes on listening on the
  old one. Process allows it; nothing says it should be otherwise.
- `/health`, logging, `listReachableAddresses`, the wake lock, log rotation and the checks
  start-hub.sh makes before its loop: they change no state the components share.
- In the plaintext check, the schema, `events.detail` and the raw files: searches for a
  given word. In the client, encryption and the command line. The tests and test helpers.
- Statements of the command between two reads of one handler.

Two remarks on things no document contradicts, and no run therefore refutes. The line of
the plaintext check that all rows look like ciphertext gives as its reason that they are not
valid UTF-8 (`verify-no-plaintext.js:167`); a row that is valid UTF-8 with few readable characters passes
too. And a carrier that numbers its phones from 100.64.0.0/10, which is its purpose, gives
the phone an address that `findTailscaleAddress` (`tailscale.js:42`) may take for the tailnet's:
`NeverWider` speaks of the range, as the code does.

Next: the abstract mailbox of a hub whose writes fail, with `DamageConfined` as what it
promises; a refinement of System to an abstract family chat; three clients, whose state space
needs a smaller wire.

## 6. Running

    tlc -workers 2 -config MCRegistry.cfg MCRegistry      # and likewise the other runs
    tlapm HubProofs.tla                                   # and the other *Proofs modules

`MCMembership.cfg` belongs to MCRegistry; `MCHello.cfg`, `MCSentTime.cfg` and `MCAbort.cfg` to
MCRouting; `MCDeviceRate.cfg` to MCRateLimit; every other cfg to the module of its name. The
longest runs, `faults` and `system`, take two to three minutes with two workers. An operator
commented as a mutant of another is a plausible mistake in that code: with it in place, the
property named for it in `PROJECT.json` fails.
