------------------------------ MODULE Tailnet ------------------------------
(***************************************************************************)
(* src/src/tailscale.js: which addresses belong to the tailnet, and the    *)
(* one the hub binds to.  An address is what is left of its text: the      *)
(* prefix before the dotted part, and the numbers in it.                   *)
(***************************************************************************)
EXTENDS Naturals, Sequences

CONSTANT None       \* null, undefined: no such value

ASSUME NoneAssumption == None \notin Nat

\* "none": a.b.c.d; "mapped": ::ffff:a.b.c.d; "other": IPv6, no dotted part.
Address == [prefix : {"none", "mapped", "other"}, dotted : Seq(Nat)]

\* One entry of os.networkInterfaces().
Interface == [family : {"IPv4", "IPv6"}, address : Address]

\* HUB_HOST, 'tailscale' or an address, and HUB_REQUIRE_TAILSCALE.
Settings == [tailscaleOnly : BOOLEAN, host : Address, requireTailscale : BOOLEAN]

\* 0.0.0.0, every interface.
Any == [prefix |-> "none", dotted |-> <<0, 0, 0, 0>>]

\* Mutant of Parts: the prefix is not taken off.
PartsAsGiven(ip) == IF ip.prefix = "none" THEN ip.dotted ELSE <<>>

\* isTailscaleIp: the parts between the dots, without the mapping prefix.
Parts(ip) == IF ip.prefix = "other" THEN <<>> ELSE ip.dotted

\* Mutant of IsTailscaleIp: all of 100.0.0.0/8.
IsHundred(ip) == ip # None /\ Len(Parts(ip)) = 4 /\ Parts(ip)[1] = 100

IsTailscaleIp(ip) ==
    /\ ip # None
    /\ Len(Parts(ip)) = 4
    /\ \A i \in 1..4 : Parts(ip)[i] \in 0..255
    /\ Parts(ip)[1] = 100
    /\ Parts(ip)[2] \in 64..127

\* findTailscaleAddress: the first IPv4 address of the range, or None.
FindTailscaleAddress(ifaces) ==
    LET found == {i \in DOMAIN ifaces : /\ ifaces[i].family = "IPv4"
                                        /\ IsTailscaleIp(ifaces[i].address)}
        first == CHOOSE i \in found : \A j \in found : i <= j
    IN  IF found = {} THEN None ELSE ifaces[first].address

\* Mutant of ResolveBindHost: without a tailnet, everywhere.
ResolveQuietly(configured, ifaces) ==
    IF ~configured.tailscaleOnly THEN configured.host
    ELSE IF FindTailscaleAddress(ifaces) = None THEN Any ELSE FindTailscaleAddress(ifaces)

\* resolveBindHost; None stands for the exception NO_TAILSCALE.
ResolveBindHost(configured, ifaces) ==
    IF configured.tailscaleOnly THEN FindTailscaleAddress(ifaces) ELSE configured.host

-----------------------------------------------------------------------------
\* The reference: an IPv4 address, written either way, whose first ten bits
\* are those of 100.64.0.0 (TAILSCALE_CIDR).
Octets == [1..4 -> 0..255]

TenBits(o) == (o[1] * 256 + o[2]) \div 64

InTailnet(ip) ==
    /\ ip.prefix \in {"none", "mapped"}
    /\ ip.dotted \in Octets
    /\ TenBits(ip.dotted) = TenBits(<<100, 64, 0, 0>>)
=============================================================================
