----------------------------- MODULE RateLimit -----------------------------
(***************************************************************************)
(* withinRateLimit (src/src/router.js lines 71-77) over time: the sliding  *)
(* window of accepted send times that each conn object keeps, and one      *)
(* device that may reconnect.  Time is counted in units of SEND_WINDOW_MS  *)
(* divided by Window; the clock does not step back.                        *)
(***************************************************************************)
EXTENDS Ordered

CONSTANTS
    SendLimit,  \* SEND_LIMIT
    Window,     \* SEND_WINDOW_MS, in units of time
    MaxTime,    \* bound on the time a behaviour lasts
    MaxSends    \* bound on the accepted sends of a behaviour

ASSUME LimitsAssumption == SendLimit \in Nat \ {0} /\ Window \in Nat \ {0}
                           /\ MaxTime \in Nat /\ MaxSends \in Nat

VARIABLES
    now,        \* Date.now()
    sendTimes,  \* conn.sendTimes of the device's connection
    onConn,     \* history: the times of the sends accepted on this connection
    onDevice,   \* history: ... on any connection of the device
    refused     \* history: the last send was refused

rateVars == <<now, sendTimes, onConn, onDevice, refused>>

\* Mutant of Recent: the oldest unit of the window is forgotten.
RecentTooShort(times) ==
    KeptAt(times, {i \in DOMAIN times : now - times[i] < Window - 1})

\* What the filter keeps.
Recent(times) == KeptAt(times, {i \in DOMAIN times : now - times[i] < Window})

\* Mutant of Recorded: refused sends count as well.
RecordedAlways(times, accepted) == Append(times, now)

\* sendTimes after a send.
Recorded(times, accepted) == IF accepted THEN Append(times, now) ELSE times

Send ==
    LET recent   == Recent(sendTimes)
        accepted == Len(recent) < SendLimit
    IN  /\ accepted => Len(onDevice) < MaxSends
        /\ sendTimes' = Recorded(recent, accepted)
        /\ onConn' = IF accepted THEN Append(onConn, now) ELSE onConn
        /\ onDevice' = IF accepted THEN Append(onDevice, now) ELSE onDevice
        /\ refused' = ~accepted
        /\ UNCHANGED now

\* A new connection of the device has a new conn object.
Reconnect ==
    /\ sendTimes' = <<>>
    /\ onConn' = <<>>
    /\ refused' = FALSE
    /\ UNCHANGED <<now, onDevice>>

Tick ==
    /\ now < MaxTime
    /\ now' = now + 1
    /\ refused' = FALSE
    /\ UNCHANGED <<sendTimes, onConn, onDevice>>

Init ==
    /\ now = 0
    /\ sendTimes = <<>>
    /\ onConn = <<>>
    /\ onDevice = <<>>
    /\ refused = FALSE

Next == Send \/ Reconnect \/ Tick

Spec == Init /\ [][Next]_rateVars

-----------------------------------------------------------------------------
\* The memory of a connection stays within the limit it enforces, in order.
TypeOK ==
    /\ now \in 0 .. MaxTime
    /\ sendTimes \in Seq(0 .. now) /\ Len(sendTimes) <= SendLimit
    /\ \A i \in 1 .. Len(sendTimes) - 1 : sendTimes[i] <= sendTimes[i + 1]
    /\ refused \in BOOLEAN

\* No SendLimit + 1 sends of a history fall within one window.
Limited(times) ==
    \A i \in 1 .. (Len(times) - SendLimit) : times[i + SendLimit] - times[i] >= Window

\* On one connection the limit holds over every window of time, wherever it
\* starts, although only the accepted sends of the last one are remembered.
ConnectionLimited == Limited(onConn)

\* A send is refused only if the connection really had SendLimit sends accepted
\* in the last window: being refused does not prolong the refusal.
RefusedOnlyWhenFull ==
    refused => /\ Len(onConn) >= SendLimit
               /\ now - onConn[Len(onConn) - SendLimit + 1] < Window

\* PROTOCOL.md line 95 and the comment of SEND_LIMIT state the limit per device.
\* The window lives in the conn object, so a reconnection starts a new one.
DeviceLimited == Limited(onDevice)
=============================================================================
