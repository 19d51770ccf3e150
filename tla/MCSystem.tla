------------------------------ MODULE MCSystem ------------------------------
(***************************************************************************)
(* Two clients and the hub.                                                *)
(***************************************************************************)
EXTENDS System

CONSTANTS d1, d2, s1, s2, n1, k1

MCAuthor == [m \in Msg |-> d1]

\* out is read by no action and no property.
View == <<devices, outbox, clock, cli, up, ready, conn, conns,
          clientVars, upsets, gone>>
=============================================================================
