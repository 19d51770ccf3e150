-------------------------------- MODULE Auth --------------------------------
(***************************************************************************)
(* src/src/auth.js: the Ed25519 challenge-response and the member list.    *)
(*                                                                         *)
(* A nonce is 32 fresh random bytes, so a signature verifies exactly when  *)
(* the enrolled key signed the outstanding nonce of this very connection,  *)
(* and nobody can sign a nonce the hub has not shown.                      *)
(***************************************************************************)
EXTENDS HubState

\* A deviceId that is no valid id: one that SQLite can still store in a log
\* row (a number, a short string, a missing field) and one that it cannot (an
\* object, an array, a boolean).
BadIds == {"malformed", "unbindable"}

HelloFrames == [version  : {"spoken", "other"},
                deviceId : Device \cup BadIds,
                name     : Name \cup {Null}]

\* sig is the key that signed the nonce last shown on the connection, or
\* something that is not a string, or any other 64 bytes.
AuthFrames == [sig : Key \cup {"notString", "otherBytes"}]

\* beginChallenge: the code of its first failing check, or "OK".
HelloVerdict(f) ==
    CASE f.version = "other"           -> "UNSUPPORTED_VERSION"
      [] f.version = "spoken" /\ f.deviceId \in BadIds -> "BAD_REQUEST"
      [] f.version = "spoken" /\ f.deviceId \in Device /\
         ~Registered(f.deviceId)       -> "UNKNOWN_DEVICE"
      [] OTHER                         -> "OK"

\* Mutant of Renamed: a hello without a name is not told apart.
RenamedAlways(f) == [devices EXCEPT ![f.deviceId].name = f.name]

\* beginChallenge stores the name the hello carries, before any signature.
Renamed(f) ==
    IF f.name = Null THEN devices
    ELSE [devices EXCEPT ![f.deviceId].name = f.name]

\* verifyChallenge: the code of its first failing check, or "OK".
AuthVerdict(d, f, nonce) ==
    CASE nonce \in {"none", "stale"}          -> "AUTH_FAILED"
      [] nonce \in {"shown", "sealed"} /\ f.sig = "notString" -> "BAD_REQUEST"
      [] nonce \in {"shown", "sealed"} /\ f.sig = "otherBytes" -> "AUTH_FAILED"
      [] nonce \in {"shown", "sealed"} /\ f.sig \in Key /\
         ~Registered(d)                       -> "UNKNOWN_DEVICE"
      [] nonce = "shown" /\ f.sig \in Key /\ Registered(d) /\
         devices[d].key = f.sig               -> "OK"
      [] OTHER                                -> "AUTH_FAILED"

\* Mutant of Members: nobody is left out.
MembersAndSelf(d) == Enrolled

\* listMembers: everyone enrolled but the recipient.
Members(d) == Enrolled \ {d}

\* listMembers, as it goes out in a welcome: the members, and which
\* of them the registry reg holds.
WelcomeFrame(d, reg) ==
    [t |-> "welcome", members |-> [e \in Members(d) |-> devices[e]],
     online |-> {e \in Members(d) : reg[e] # Null}]

\* membersFingerprint hashes exactly the columns of a profile, in id order:
\* equal hashes, equal tables.
MembersFingerprint == devices
=============================================================================
