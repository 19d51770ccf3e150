------------------------------ MODULE MCFaults ------------------------------
(***************************************************************************)
(* A small family whose hub loses database writes.                         *)
(***************************************************************************)
EXTENDS HubFaults

CONSTANTS d1, d2, s1, s2, n1, k1

\* One writer, so that two messages queue up for one recipient.
MCAuthor == [m \in Msg |-> d1]

Symmetry == Permutations(Sock)

\* out is read by no action and no invariant; whether a welcome came first is
\* not asked here.
View == <<devices, outbox, clock, cli, up, ready, conn, conns, cut,
          [s \in Sock |-> [heard[s] EXCEPT !.greeted = TRUE]]>>
=============================================================================
