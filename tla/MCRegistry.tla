----------------------------- MODULE MCRegistry -----------------------------
(***************************************************************************)
(* The handshake, the registry and the member list on a small family: no   *)
(* message is sent, the administrator manages every device.                *)
(***************************************************************************)
EXTENDS Sessions

CONSTANTS d1, d2, s1, s2, s3, n1, n2, k1, k2

MCAuthor == [m \in Msg |-> d1]
Symmetry == Permutations(Device) \cup Permutations(Sock) \cup
            Permutations(Name) \cup Permutations(Key)

\* out is read by no action and no invariant.
View == <<devices, outbox, clock, cli, up, ready, conn, conns, heard>>
=============================================================================
