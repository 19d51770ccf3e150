------------------------------- MODULE Enroll -------------------------------
(***************************************************************************)
(* src/scripts/enroll.js: the administrator's command, a process of its    *)
(* own on the same database.  Each SQL statement commits by itself, so the *)
(* hub may run handlers between the two DELETEs of --remove.  One command  *)
(* runs at a time.                                                         *)
(***************************************************************************)
EXTENDS HubState

CONSTANTS
    Managed,    \* bound: the devices the administrator enrolls or removes
    CliAborts   \* TRUE lets --remove stop between its two statements

ASSUME ManagedAssumption   == Managed \subseteq Device
ASSUME CliAbortsAssumption == CliAborts \in BOOLEAN

\* enroll: a new device, or new keys or a new name for one that is there.
EnrollDevice(d, p) ==
    /\ cli = Null
    /\ devices' = [devices EXCEPT ![d] = p]
    /\ Quiet
    /\ UNCHANGED <<outbox, clock, cli, up, ready, conn, conns>>

\* remove, first statement.  No row deleted means there was no such device,
\* and the command ends there.
RemoveDevice(d) ==
    /\ cli = Null
    /\ Registered(d)
    /\ devices' = [devices EXCEPT ![d] = Null]
    /\ cli' = d
    /\ Quiet
    /\ UNCHANGED <<outbox, clock, up, ready, conn, conns>>

\* remove, second statement: nobody is left to receive these.
PurgeQueue ==
    /\ cli # Null
    /\ outbox' = outbox \ Queue(cli)
    /\ cli' = Null
    /\ Quiet
    /\ UNCHANGED <<devices, clock, up, ready, conn, conns>>

\* The second statement fails (the hub holds the write lock and no busy
\* timeout is set) or the command is killed before it.
RemoveAborts ==
    /\ CliAborts
    /\ cli # Null
    /\ cli' = Null
    /\ Quiet
    /\ UNCHANGED <<devices, outbox, clock, up, ready, conn, conns>>

EnrollNext ==
    \/ \E d \in Managed : RemoveDevice(d) \/ \E p \in Profile : EnrollDevice(d, p)
    \/ PurgeQueue
    \/ RemoveAborts
=============================================================================
