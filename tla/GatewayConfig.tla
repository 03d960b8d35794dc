--------------------------- MODULE GatewayConfig ---------------------------
(* The gateway's start on a configuration: what main() accepts, and what a   *)
(* configuration it runs must guarantee.                                     *)
EXTENDS GatewayRoutes

CONSTANTS
    ConfigFiles,    \* the configurations an operator may write
    Down, Exited    \* the process is not running; main() gave up

VARIABLES
    cfgFile,        \* gateway.toml with gateway.d, as it is on disk
    live            \* the configuration the process runs, or Down, or Exited

(* ---- the shapes of the files and of the loaded configuration ---- *)

Domains == [suffix : Seq(STRING), fallthrough : STRING]
Routes  == [apex : Seq(STRING), subdomain : Seq(STRING), backend : STRING]
Aliases == [apex : Seq(STRING), subdomain : Seq(STRING), node : STRING, port : STRING]

\* What serde accepts.  An optional field left out is "absent", one that does
\* not parse later on "bad"; [sites] is "partial" with one of its two fields.
FileConfig(f) ==
    /\ f.exists \in BOOLEAN /\ f.domain \in Seq(STRING)
    /\ f.domains \in Seq(Domains) /\ f.routes \in Seq(Routes) /\ f.aliases \in Seq(Aliases)
    /\ f.certs \in Seq([host : Seq(STRING), paths : STRING])
    /\ \A i \in DOMAIN f.dropins :
          LET d == f.dropins[i]
          IN  /\ d.readable \in BOOLEAN
              /\ d.domains \in Seq(Domains) /\ d.routes \in Seq(Routes) /\ d.aliases \in Seq(Aliases)
    /\ {f.acme.enabled, f.acme.email, f.acme.token, f.acme.explicit, f.tls} \subseteq BOOLEAN
    /\ \A d \in f.acme.domains : d \in [wild : BOOLEAN, name : Seq(STRING)]
    /\ f.listen_tls \in STRING /\ f.sites \in {"absent", "partial", "set", "bad"}

ASSUME FilesParse == \A f \in ConfigFiles : FileConfig(f)

Fallthrough == {"iroh", "none", "parked"}

\* A route may keep the node and the port of the alias it shadows.
Target == Seq(STRING) \cup {NoName}

\* What load() hands to main(): every name lower case and under a declared
\* apex, every address, node and port parsed, no alias under a route's name.
LoadedConfig(c) ==
    LET Normal(name)  == name = LowerName(name)
        Under(n)      == n[1] \in DOMAIN c.apexes /\ Normal(n[2])
    IN  /\ c.source \in {"toml", "env"} /\ c.tls \notin {"", "bad", Error}
        /\ c.static \in BOOLEAN /\ c.sites \in {"none", "set"}
        /\ DOMAIN c.apexes # {}
        /\ \A s \in DOMAIN c.apexes : /\ is_ascii_fqdn(s) /\ Normal(s)
                                      /\ c.apexes[s] \in Fallthrough
        /\ \A n \in DOMAIN c.routes : /\ Under(n) /\ c.routes[n].backend # "bad"
                                      /\ c.routes[n].fallback \in Target
        /\ \A n \in DOMAIN c.aliases : /\ Under(n) /\ n \notin DOMAIN c.routes /\ n[2] # <<>>
                                       /\ c.aliases[n] \in Target /\ c.aliases[n][1] # "bad"
        /\ \A h \in DOMAIN c.certs : is_ascii_fqdn(h) /\ Normal(h) /\ c.certs[h] # ""

(* ---- the process ---- *)

configVars == <<cfgFile, live>>

ConfigInit == cfgFile \in ConfigFiles /\ live = Down

\* main() before it binds a listener: it exits on a configuration it cannot
\* load, on ACME without an email, a Cloudflare token or a name, and on a TLS
\* listener without a source of certificates.  The plain listener is on.
StartupRefused(c) ==
    \/ c = Error
    \/ c.acme.enabled /\ (~c.acme.email \/ ~c.acme.token \/ effective_acme_domains(c) = {})
    \/ c.tls # "absent" /\ ~c.acme.enabled /\ ~c.static

Startup ==
    /\ live = Down
    /\ LET c == load(cfgFile)
       IN  live' = IF StartupRefused(c) THEN Exited ELSE c
    /\ UNCHANGED cfgFile

ConfigNext == Startup

(* ---- what the configuration must guarantee ---- *)

Running == live \notin {Down, Exited}

SanCovers(san, host) ==
    IF san.wild THEN ends_with(san.name, host) /\ Len(host) = Len(san.name) + 1
                ELSE san.name = host

\* A wildcard carries one label, and derive_san_list adds no name for a route
\* under an apex that has one: a route of several labels there has no
\* certificate, and neither has the alias it shadows.
DeepRoute(c, host) ==
    LET n == match_host(c, host)
    IN  classify(c, host).kind = "local" /\ c.apexes[n[1]] # "none" /\ Len(n[2]) > 1

\* A route of the bare apex under a "none" apex is listed with an empty label.
BareRoute(san) == san.name # <<>> /\ san.name[1] = ""

\* Every name the gateway sends to a backend, a declared node or a berth is in
\* the list it asks a certificate for, and every entry of the list is a name a
\* certificate can have, with the two exceptions above (config.rs:434).
RoutedNamesCovered ==
    Running /\ ~live.acme.explicit =>
        LET sans == derive_san_list(live) IN
        /\ \A host \in Hosts :
              LET h == LowerName(host)
              IN  /\ is_ascii_fqdn(h)
                  /\ \/ classify(live, host).kind = "local"
                     \/ match_host(live, host) # NoName /\ lookup_alias(live, match_host(live, host)) # NoName
                  => DeepRoute(live, host) \/ \E s \in sans : SanCovers(s, h)
        /\ \A s \in sans : is_ascii_fqdn(s.name) \/ BareRoute(s)

\* Drop-ins only add names: what gateway.toml alone routes to a backend keeps
\* that backend, an alias of it is reached as before or stands behind a local
\* route (unless a drop-in declares the alias again), and apexes, certificates
\* and listeners are those of the base file (config.rs:548).
DropinsOnlyAdd ==
    Running /\ live.source = "toml" =>
        LET base == load([cfgFile EXCEPT !.dropins = <<>>])
            again == UNION {{NameOf(a) : a \in Items(d.aliases)} : d \in Items(cfgFile.dropins)}
        IN  /\ <<base.apexes, base.certs, base.tls, base.static, base.acme, base.sites>>
                  = <<live.apexes, live.certs, live.tls, live.static, live.acme, live.sites>>
            /\ \A host \in Hosts :
                  LET was == classify(base, host)
                      now == classify(live, host)
                      n   == match_host(base, host)
                  IN  /\ was.kind = "local" => now.kind = "local" /\ now.backend = was.backend
                      /\ (n # NoName /\ lookup_alias(base, n) # NoName /\ n \notin again) =>
                            \/ now = was
                            \/ now.kind = "local" /\ now.fallback = was.target

\* A route or alias that passes validation serves its host, whatever else is
\* declared, unless a longer apex claims that host (route.rs:59); nothing else
\* ever reaches a backend.
DeclaredIsServed ==
    Running /\ live.source = "toml" =>
        LET f == merge_dropins(cfgFile)
            HostOf(d) == LowerName(d.subdomain) \o LowerName(d.apex)
            Claimed(d) == \E a \in DOMAIN live.apexes :
                             ends_with(a, HostOf(d)) /\ Len(a) > Len(d.apex)
        IN  /\ \A r \in Items(ValidRoutes(f)) :
                  Claimed(r) \/ classify(live, HostOf(r)).kind = "local"
            /\ \A a \in Items(ValidAliases(f)) :
                  Claimed(a) \/ classify(live, HostOf(a)).kind \in {"local", "iroh"}
            /\ \A host \in Hosts : classify(live, host).kind = "local" =>
                  \E r \in Items(f.routes) : /\ HostOf(r) = LowerName(host)
                                             /\ r.backend = classify(live, host).backend

ConfigTypeOK == FileConfig(cfgFile) /\ (Running => LoadedConfig(live))

\* Whatever configuration the process accepts: it is normalised, every name it
\* routes is in its certificate, drop-ins take nothing away, and what is
\* declared is what is served (load, derive_san_list, classify).
ConfigSound == ConfigTypeOK /\ RoutedNamesCovered /\ DropinsOnlyAdd /\ DeclaredIsServed
=============================================================================
