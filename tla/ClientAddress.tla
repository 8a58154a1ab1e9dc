---------------------------- MODULE ClientAddress ----------------------------
(***************************************************************************)
(* The address under which Sentinel Gate keeps a client (client_ip.py): it *)
(* is the peer of the connection, or is taken from a header to which every *)
(* proxy on the way appends the address that it has seen.                  *)
(*                                                                         *)
(* A header is the sequence of the valid addresses in it.                  *)
(***************************************************************************)
EXTENDS Integers, Sequences

CONSTANTS
    Addresses,
    Trusted,    \* settings.trusted_proxies
    Hops,       \* settings.trusted_proxy_hops
    Headers     \* headers with which clients come

ASSUME AddressAssumption ==
    /\ Trusted \subseteq Addresses
    /\ Hops \in Nat
    /\ Headers \subseteq Seq(Addresses)

\* idx, counted from 1: Hops from the right, within the header.
Position(n) ==
    CHOOSE i \in 1 .. n : i = n - Hops + 1 \/ (i = 1 /\ n < Hops) \/ (i = n /\ Hops = 0)

\* resolve
Resolve(peer, header) ==
    IF peer \notin Trusted \/ header = << >> THEN peer ELSE header[Position(Len(header))]

\* What the proxies append, when client has come through them: the first has
\* seen the client, the others have seen the proxy before them.
Appended(client, path) == [i \in DOMAIN path |-> IF i = 1 THEN client ELSE path[i - 1]]

\* A client that comes through Hops proxies is kept under its own address, and
\* so is one that comes directly, whatever it has put in the header itself.  (With
\* no hop, which config.py allows, Position is that of one hop.)
AddressKept ==
    /\ \A client \in Addresses, path \in [1 .. Hops -> Trusted], forged \in Headers :
          Hops > 0 =>
              Resolve(path[Hops], forged \o Appended(client, path)) = client
    /\ \A client \in Addresses \ Trusted, forged \in Headers :
          Resolve(client, forged) = client

=============================================================================
