----------------------------- MODULE MCRouting -----------------------------
(***************************************************************************)
(* Messages on a small family, whose connections come and go.              *)
(***************************************************************************)
EXTENDS Sessions

CONSTANTS d1, d2, s1, s2, n1, k1

\* Two writers, so that each waits for the other's message.
MCAuthor == [m \in Msg |-> IF m = 1 THEN d1 ELSE d2]

Symmetry == Permutations(Sock)

\* out is read by no action and no invariant.
View == <<devices, outbox, clock, cli, up, ready, conn, conns, heard>>
=============================================================================
