--------------------------- MODULE GatewayRoutes ---------------------------
(* The gateway's configuration and host routing: what config.rs makes of    *)
(* gateway.toml and its drop-ins, the route table route.rs builds from it,  *)
(* the list of names the certificate must carry, and what classify() in     *)
(* main.rs decides for a Host header.  A host name is the sequence of its   *)
(* labels; an address, a node id or a port is a value that parses or "bad". *)
EXTENDS Naturals, Sequences, FiniteSets

CONSTANTS
    GoodLabels,     \* labels of letters, digits and inner hyphens
    Lower(_),       \* to_ascii_lowercase of a label
    Hosts,          \* the Host headers clients may send
    Error, NoName   \* Err(_) of a Result; None of an Option

(* ---- helpers on names and lists ---- *)

\* The last labels of name are those of tail.
ends_with(tail, name) == \E i \in 1..(Len(name) + 1) : SubSeq(name, i, Len(name)) = tail

Items(s) == {s[i] : i \in DOMAIN s}

(* ---- validation helpers ---- *)

LowerName(name) == [i \in DOMAIN name |-> Lower(name[i])]

\* No wildcard, no empty label, no leading or trailing dot.
is_ascii_fqdn(name) == name # <<>> /\ \A i \in DOMAIN name : name[i] \in GoodLabels
is_ascii_label(name) == name # <<>> /\ \A i \in DOMAIN name : name[i] \in GoodLabels

is_valid_node_z32(node) == node # "bad"

parse_fallthrough(s) == IF s = "absent" THEN "iroh"
                        ELSE IF s \in {"iroh", "none", "parked"} THEN s ELSE Error

\* An absent or empty listener is disabled; a bad one is fatal.
parse_optional_socketaddr(s) == IF s = "" THEN "absent" ELSE IF s = "bad" THEN Error ELSE s

(* ---- load ---- *)

\* A drop-in that cannot be read or parsed is skipped; of the others only the
\* routes and aliases are appended, in the order of the file names.  What else
\* one declares (declares_non_route_alias_content) is logged and left out.
merge_dropins(f) ==
    LET Readable == SelectSeq(f.dropins, LAMBDA d : d.readable)
        routes[i \in 0..Len(Readable)] ==
            IF i = 0 THEN f.routes ELSE routes[i-1] \o Readable[i].routes
        aliases[i \in 0..Len(Readable)] ==
            IF i = 0 THEN f.aliases ELSE aliases[i-1] \o Readable[i].aliases
    IN  [f EXCEPT !.routes = routes[Len(Readable)], !.aliases = aliases[Len(Readable)]]

\* The first element of s with each key.
KeepFirst(s, Key(_)) ==
    [k \in {Key(s[i]) : i \in DOMAIN s} |->
        s[CHOOSE i \in DOMAIN s : Key(s[i]) = k /\ \A j \in 1..(i-1) : Key(s[j]) # k]]

\* The last element of s with each key.
KeepLast(s, Key(_)) == KeepFirst([i \in 1..Len(s) |-> s[Len(s) + 1 - i]], Key)

NameOf(d) == <<LowerName(d.apex), LowerName(d.subdomain)>>

DomainsInvalid(f) ==
    \/ f.domains = <<>>
    \/ \E i \in DOMAIN f.domains : \/ ~is_ascii_fqdn(LowerName(f.domains[i].suffix))
                                   \/ parse_fallthrough(f.domains[i].fallthrough) = Error

\* suffix -> fallthrough; a duplicate keeps the first declaration.
NormalApexes(f) ==
    LET first == KeepFirst(f.domains, LAMBDA d : LowerName(d.suffix))
    IN  [s \in DOMAIN first |-> parse_fallthrough(first[s].fallthrough)]

\* Declarations that survive validation, in order.  An empty subdomain is the
\* bare apex for a route and invalid for an alias.
ValidRoutes(f) ==
    SelectSeq(f.routes, LAMBDA r : /\ LowerName(r.apex) \in DOMAIN NormalApexes(f)
                                   /\ r.subdomain = <<>> \/ is_ascii_label(LowerName(r.subdomain))
                                   /\ r.backend # "bad")

ValidAliases(f) ==
    SelectSeq(f.aliases, LAMBDA a : /\ LowerName(a.apex) \in DOMAIN NormalApexes(f)
                                    /\ is_ascii_label(LowerName(a.subdomain))
                                    /\ is_valid_node_z32(a.node))

\* Shadowed by a route, every alias overwrites the fallback: the last one stays.
NormalRoutes(f) ==
    LET routes   == KeepFirst(ValidRoutes(f), NameOf)
        shadowed == KeepLast(SelectSeq(ValidAliases(f), LAMBDA a : NameOf(a) \in DOMAIN routes), NameOf)
    IN  [n \in DOMAIN routes |->
            [backend  |-> routes[n].backend,
             fallback |-> IF n \in DOMAIN shadowed THEN <<shadowed[n].node, shadowed[n].port>>
                                                   ELSE NoName]]

NormalAliases(f) ==
    LET shadowing == {NameOf(r) : r \in Items(ValidRoutes(f))}
        kept      == KeepFirst(SelectSeq(ValidAliases(f), LAMBDA a : NameOf(a) \notin shadowing), NameOf)
    IN  [n \in DOMAIN kept |-> <<kept[n].node, kept[n].port>>]

\* host -> the pair of files it names; the files need not exist yet.
NormalCerts(f) ==
    LET valid == SelectSeq(f.certs, LAMBDA c : is_ascii_fqdn(LowerName(c.host)) /\ c.paths # "")
        kept  == KeepFirst(valid, LAMBDA c : LowerName(c.host))
    IN  [h \in DOMAIN kept |-> kept[h].paths]

AcmeInvalid(f) ==
    \/ f.acme.enabled /\ ~f.acme.email
    \/ f.acme.explicit /\ \E d \in f.acme.domains : ~is_ascii_fqdn(LowerName(d.name))

SitesOf(f) == CASE f.sites \in {"absent", "partial"} -> "none"
                [] f.sites = "bad" -> Error
                [] OTHER -> "set"

validate_and_normalize(f) ==
    LET tls == parse_optional_socketaddr(f.listen_tls)
    IN  IF \/ DomainsInvalid(f)
           \/ AcmeInvalid(f)
           \/ tls = Error
           \/ tls # "absent" /\ ~f.acme.enabled /\ ~f.tls
           \/ SitesOf(f) = Error
        THEN Error
        ELSE [source |-> "toml", apexes |-> NormalApexes(f), routes |-> NormalRoutes(f),
              aliases |-> NormalAliases(f), certs |-> NormalCerts(f), tls |-> tls,
              static |-> f.tls, acme |-> f.acme, sites |-> SitesOf(f)]

\* Without a file the environment gives one apex with Iroh fallthrough, and
\* the TLS listener is on unless told otherwise.  Neither the ACME email nor
\* the certificate source is looked at here: main() does.
load_from_env(f) ==
    LET tls == parse_optional_socketaddr(IF f.listen_tls \in {"", "absent"} THEN "addr" ELSE f.listen_tls)
    IN  IF ~is_ascii_fqdn(LowerName(f.domain)) \/ tls = Error
        THEN Error
        ELSE [source |-> "env", apexes |-> [s \in {LowerName(f.domain)} |-> "iroh"],
              routes |-> <<>>, aliases |-> <<>>, certs |-> <<>>,
              tls |-> tls, static |-> f.tls, acme |-> f.acme, sites |-> "none"]

load(f) == IF f.exists THEN validate_and_normalize(merge_dropins(f)) ELSE load_from_env(f)

(* ---- names of the certificate ---- *)

San(name)  == [wild |-> FALSE, name |-> name]
Wild(name) == [wild |-> TRUE,  name |-> name]

\* format!("{}.{}", subdomain, apex): an empty subdomain leaves an empty label.
Dotted(sub, apex) == (IF sub = <<>> THEN <<"">> ELSE sub) \o apex

derive_san_list(c) ==
    UNION {
        (IF c.apexes[a] = "none"
         THEN {San(a)} \cup {San(Dotted(n[2], a)) : n \in {m \in DOMAIN c.routes : m[1] = a}}
         ELSE {Wild(a), San(a)})
        \cup {San(Dotted(n[2], a)) : n \in {m \in DOMAIN c.aliases : m[1] = a}}
        : a \in DOMAIN c.apexes }

effective_acme_domains(c) == IF c.acme.explicit THEN c.acme.domains ELSE derive_san_list(c)

(* ---- routing ---- *)

\* Mutant: the shortest apex wins.
MatchHostShortest(c, host) ==
    LET h       == LowerName(host)
        matches == {a \in DOMAIN c.apexes : ends_with(a, h)}
    IN  IF matches = {} THEN NoName
        ELSE LET a == CHOOSE x \in matches : \A y \in matches : Len(y) >= Len(x)
             IN  <<a, SubSeq(h, 1, Len(h) - Len(a))>>

\* The longest apex that is the host or a suffix of it, and what precedes it.
match_host(c, host) ==
    LET h       == LowerName(host)
        matches == {a \in DOMAIN c.apexes : ends_with(a, h)}
    IN  IF matches = {} THEN NoName
        ELSE LET a == CHOOSE x \in matches : \A y \in matches : Len(y) <= Len(x)
             IN  <<a, SubSeq(h, 1, Len(h) - Len(a))>>

lookup_local(c, n) == IF n \in DOMAIN c.routes THEN c.routes[n].backend ELSE NoName
lookup_local_fallback(c, n) == c.routes[n].fallback
lookup_alias(c, n) == IF n \in DOMAIN c.aliases THEN c.aliases[n] ELSE NoName

Local(backend, fallback) == [kind |-> "local", backend |-> backend, fallback |-> fallback]
Iroh(target)  == [kind |-> "iroh", target |-> target]
Parked        == [kind |-> "parked"]
Reject(error) == [kind |-> "reject", error |-> error]

\* The bare apex is served by a route or, when parked, by its berth; any other
\* name by its route, its alias or the fallthrough of its apex.
classify(c, host) ==
    LET n == match_host(c, host)
    IN  CASE n = NoName -> Reject("DomainMismatch")
          [] n # NoName /\ lookup_local(c, n) # NoName ->
                Local(lookup_local(c, n), lookup_local_fallback(c, n))
          [] n # NoName /\ lookup_local(c, n) = NoName /\ n[2] = <<>> ->
                IF c.apexes[n[1]] = "parked" THEN Parked ELSE Reject("EmptySubdomain")
          [] OTHER ->
                IF lookup_alias(c, n) # NoName THEN Iroh(lookup_alias(c, n))
                ELSE CASE c.apexes[n[1]] = "iroh"   -> Iroh(n[2])
                       [] c.apexes[n[1]] = "none"   -> Reject("NotFound")
                       [] c.apexes[n[1]] = "parked" -> Parked
=============================================================================
