------------------------------ MODULE Mailbox ------------------------------
(***************************************************************************)
(* What the hub promises a family (PROTOCOL.md section 6): every device    *)
(* has a mailbox; a message put in it stays until the device confirms it   *)
(* or leaves the family; while the device is in a session, the session has *)
(* been handed the whole mailbox, and a new session starts over with it.   *)
(* Sockets, evictions, the database and restarts do not appear.            *)
(***************************************************************************)
EXTENDS Naturals

CONSTANTS Device, Msg,
          Away          \* no session: not a set of messages

VARIABLES mailbox,      \* device -> messages waiting for it
          session,      \* device -> messages handed to it in its session
          members       \* the devices of the family

vars == <<mailbox, session, members>>

Init ==
    /\ mailbox = [d \in Device |-> {}]
    /\ session = [d \in Device |-> Away]
    /\ members \in SUBSET Device

\* A message is put in the mailboxes of some members, and handed at once to
\* those of them that are in a session.
Post(m, to) ==
    /\ to \subseteq members
    /\ mailbox' = [d \in Device |-> IF d \in to THEN mailbox[d] \cup {m}
                                    ELSE mailbox[d]]
    /\ session' = [d \in Device |-> IF d \in to /\ session[d] # Away
                                    THEN session[d] \cup {m} ELSE session[d]]
    /\ UNCHANGED members

\* A device confirms messages; only its own mailbox shrinks.
Confirm(d, ms) ==
    /\ mailbox' = [mailbox EXCEPT ![d] = @ \ ms]
    /\ UNCHANGED <<session, members>>

\* A session begins, possibly in place of an older one of the same device.
Begin(d) ==
    /\ session' = [session EXCEPT ![d] = mailbox[d]]
    /\ UNCHANGED <<mailbox, members>>

\* Sessions end: one connection breaks, or the hub stops.
End(ds) ==
    /\ session' = [d \in Device |-> IF d \in ds THEN Away ELSE session[d]]
    /\ UNCHANGED <<mailbox, members>>

\* The family changes.
Join(ds) ==
    /\ members' = ds
    /\ UNCHANGED <<mailbox, session>>

\* The mailbox of a device that has left is emptied.
Purge(d) ==
    /\ d \notin members
    /\ mailbox' = [mailbox EXCEPT ![d] = {}]
    /\ UNCHANGED <<session, members>>

Next ==
    \/ \E m \in Msg, to \in SUBSET Device : Post(m, to)
    \/ \E d \in Device : \/ \E ms \in SUBSET Msg : Confirm(d, ms)
                         \/ Begin(d)
                         \/ Purge(d)
    \/ \E ds \in SUBSET Device : End(ds) \/ Join(ds)

Spec == Init /\ [][Next]_vars
=============================================================================
