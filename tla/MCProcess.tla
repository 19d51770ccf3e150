----------------------------- MODULE MCProcess -----------------------------
(***************************************************************************)
(* A phone whose tailnet comes and goes, on a carrier whose own addresses  *)
(* begin with 100.  One unit of time stands for ten seconds.               *)
(***************************************************************************)
EXTENDS Process

Plain(a, b) == [prefix |-> "none", dotted |-> <<a, b, 0, 1>>]
Mapped(a, b) == [prefix |-> "mapped", dotted |-> <<a, b, 0, 1>>]
IPv4(a, b) == [family |-> "IPv4", address |-> Plain(a, b)]

Tailscale6 == [family |-> "IPv6", address |-> [prefix |-> "other", dotted |-> <<>>]]

MCSetting ==
    {[tailscaleOnly |-> TRUE, host |-> Any, requireTailscale |-> FALSE],
     [tailscaleOnly |-> FALSE, host |-> Any, requireTailscale |-> TRUE]}

Carrier == <<IPv4(127, 0), IPv4(100, 63)>>

MCNetwork == {Carrier, Carrier \o <<Tailscale6, IPv4(100, 64)>>}

MCPeerAddress == {Mapped(100, 127), Mapped(100, 128)}
=============================================================================
