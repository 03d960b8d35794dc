--------------------------- MODULE MCGatewayFiles ---------------------------
(* The labels, hosts and declarations the small instances of the gateway's   *)
(* modules are made of.                                                      *)
EXTENDS GatewayRoutes

MCGoodLabels == {"a", "b", "n"}
MCLower(l) == CASE l = "A" -> "a" [] l = "N" -> "n" [] OTHER -> l

\* The apex n, and b.n below it.
N  == <<"n">>
BN == <<"b", "n">>

Domain(suffix, ft) == [suffix |-> suffix, fallthrough |-> ft]
Route(apex, sub, backend) == [apex |-> apex, subdomain |-> sub, backend |-> backend]
Alias(apex, sub, node, port) == [apex |-> apex, subdomain |-> sub, node |-> node, port |-> port]
Dropin(domains, routes, aliases) ==
    [readable |-> TRUE, domains |-> domains, routes |-> routes, aliases |-> aliases]

NoAcme   == [enabled |-> FALSE, email |-> FALSE, token |-> FALSE, explicit |-> FALSE, domains |-> {}]
WithAcme == [enabled |-> TRUE, email |-> TRUE, token |-> TRUE, explicit |-> FALSE, domains |-> {}]

BaseFile ==
    [exists |-> TRUE, domain |-> N, domains |-> <<Domain(N, "iroh")>>, routes |-> <<>>,
     aliases |-> <<>>, dropins |-> <<>>, certs |-> <<>>, listen_tls |-> "addr",
     acme |-> WithAcme, tls |-> FALSE, sites |-> "absent"]

MCHosts ==
    {N, BN, <<"a", "n">>, <<"A", "N">>, <<"b", "b", "n">>, <<"a", "b", "n">>, <<"", "n">>, <<"a">>}
=============================================================================
