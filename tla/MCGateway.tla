----------------------------- MODULE MCGateway -----------------------------
(* Small instances of the gateway's modules.  The modules share no variable, *)
(* so one of them is chosen in the initial state and the others stay put.    *)
EXTENDS GatewayCert, MCGatewayFiles

VARIABLE part

(* ---- configuration files ---- *)

DomainLists ==
    { <<Domain(N, "absent")>>, <<Domain(N, "parked")>>, <<Domain(<<"N">>, "none"), Domain(N, "iroh")>>,
      <<Domain(N, "none"), Domain(BN, "none")>>, <<Domain(BN, "iroh"), Domain(N, "none")>> }

RouteDecls ==
    { Route(N, <<>>, "b1"), Route(N, <<"a">>, "b1"), Route(<<"N">>, <<"A">>, "b2"),
      Route(N, <<"a", "b">>, "b1"), Route(BN, <<"a">>, "b2"), Route(N, <<"a">>, "bad") }

AliasDecls ==
    { Alias(N, <<"a">>, "v1", "p"), Alias(N, <<"a">>, "v2", "none"), Alias(N, <<"a", "b">>, "v1", "p"),
      Alias(BN, <<"a">>, "v2", "p"), Alias(N, <<"_">>, "v1", "p"), Alias(N, <<"a">>, "bad", "p") }

UpToOne(S) == {<<>>} \cup {<<x>> : x \in S}

Dropins ==
    {<<>>} \cup {<<Dropin(<<>>, r, a)>> : r \in UpToOne(RouteDecls), a \in UpToOne(AliasDecls)}

\* Every mix of domains, routes, aliases and one drop-in; files with two
\* drop-ins or with one that oversteps; and each setting gone wrong.
RoutingFiles ==
    {[BaseFile EXCEPT !.domains = d, !.routes = r, !.aliases = a, !.dropins = i] :
        d \in DomainLists, r \in UpToOne(RouteDecls), a \in UpToOne(AliasDecls), i \in Dropins}

OtherFiles ==
    {[BaseFile EXCEPT !.dropins = <<Dropin(<<>>, <<r>>, <<>>), Dropin(<<Domain(BN, "iroh")>>, <<q>>, <<>>)>>] :
        r, q \in RouteDecls}
    \cup {[BaseFile EXCEPT !.routes = <<Route(N, <<"a">>, "b1")>>,
                           !.dropins = <<[Dropin(<<>>, <<r>>, <<>>) EXCEPT !.readable = FALSE]>>] : r \in RouteDecls}
    \cup {[BaseFile EXCEPT !.domains = d] :
        d \in {<<>>, <<Domain(<<"*", "n">>, "iroh")>>, <<Domain(N, "bogus")>>}}
    \cup {[BaseFile EXCEPT !.exists = e, !.acme = [enabled |-> on, email |-> m, token |-> k,
                                       explicit |-> x, domains |-> d],
                           !.listen_tls = l, !.tls = t, !.sites = s] :
        e, on, m, k, t, x \in BOOLEAN, d \in {{}, {Wild(N)}, {San(<<"_">>)}},
        l \in {"", "addr", "bad"}, s \in {"absent", "partial", "set", "bad"}}
    \cup {[BaseFile EXCEPT !.certs = <<[host |-> h, paths |-> p], [host |-> N, paths |-> "p2"]>>] :
        h \in {N, <<"N">>, <<"_">>}, p \in {"", "p1"}}

MCConfigFiles == RoutingFiles \cup OtherFiles

(* ---- certificates ---- *)

\* One apex, two apexes; a static pair that also serves a host of its own.
TwoApexes == [BaseFile EXCEPT !.domains = <<Domain(N, "iroh"), Domain(BN, "none")>>]
Static    == [BaseFile EXCEPT !.acme = NoAcme, !.tls = TRUE,
                              !.certs = <<[host |-> <<"a", "n">>, paths |-> "out"]>>]

MCCliNames == {{San(<<"a", "n">>)}}

Budget(fail, crash, hup, cli, files) ==
    [fail |-> fail, crash |-> crash, hup |-> hup, cli |-> cli, files |-> files]

MCBudgets ==
    { Budget(1, 0, 1, 0, {BaseFile, TwoApexes}), Budget(0, 1, 1, 0, {BaseFile, TwoApexes}),
      Budget(1, 1, 1, 2, {Static}) }

(* ---- the parts ---- *)

vars == <<configVars, certVars, part>>

ConfigOff == cfgFile = BaseFile /\ live = Down
CertOff   == CertInit /\ budget = Budget(1, 1, 1, 2, {Static})

Init == \/ part = "config" /\ ConfigInit /\ CertOff
        \/ part = "cert" /\ CertInit /\ ConfigOff

InCert(A)  == part = "cert"  /\ A /\ UNCHANGED <<configVars, part>>

Next == \/ part = "config" /\ ConfigNext /\ UNCHANGED <<certVars, part>>
        \/ InCert(CertNext)

\* The runtime runs every spawned task, the renewal timer fires, time passes
\* and systemd restarts the process.
CertFairness == /\ \A t \in Tasks : WF_vars(InCert(Proceeds(t)))
                /\ WF_vars(InCert(Quietly(RenewTick)))
                /\ WF_vars(InCert(\E f \in budget.files : Quietly(Boot(f))))
                /\ WF_vars(InCert(Quietly(Tick)))
                /\ WF_vars(InCert(Quietly(PresentCert)))

Spec == Init /\ [][Next]_vars /\ CertFairness
=============================================================================
