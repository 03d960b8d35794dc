---------------------------- MODULE GatewayProxy ----------------------------
(* A client connection from accept to its answer (main.rs): the headers, the *)
(* HTTP-01 and SNI gates, the backend, the berth and the Sites snapshot, and *)
(* the overlay path with its pool of QUIC connections and its one retry.     *)
(* Handlers run in parallel on one pool, one park cache and one route table. *)
EXTENDS GatewayRoutes

CONSTANTS
    Conns,          \* handler tasks
    Nodes,          \* VM public keys
    Tickets,        \* overlay target -> node, for the targets that decode to a key
    Links,          \* QUIC connections
    PoolMax,        \* [pool] max_size
    Canonical,      \* parked::CANONICAL_HOST
    ProxyFiles,     \* the configurations these behaviours start with or reload
    SiteKinds,      \* snapshots: [policy, index, own404]
    Menus           \* per behaviour: boot file, files, requests, nodes up, and how
                    \* many connections are accepted and links and entries go bad

ASSUME PoolMaxPositive == PoolMax \in Nat \ {0}

VARIABLES
    routeTable,     \* the route table the next connection takes
    conn,           \* handler -> its state
    pool,           \* sequence of [node, link, expired], least recently used first
    link,           \* QUIC connection -> "open", "silent" (the peer is gone) or "closed"
    park,           \* the berth's snapshot: [at : "none" | "valid" | "expired", dir : BOOLEAN]
    overlapped,     \* two inserts into the pool have overlapped
    menu

proxyVars == <<routeTable, conn, pool, link, park, overlapped, menu>>

\* The tables of the files that load, and what each decides for each host.  A
\* route table is named by the file it was built from.
Loads(f) == load(f) # Error
SitesIn  == [f \in ProxyFiles |-> Loads(f) /\ load(f).sites = "set"]
Loading  == {f \in ProxyFiles : Loads(f)}
Routed   == [f \in Loading |-> [h \in Hosts |-> classify(load(f), h)]]

Free == [pc |-> "free"]

\* pc: where the handler is; out: what the client was given; sent: copies of
\* the request written to the VM; own: the link was opened by this handler.
NewConn(r) ==
    [pc |-> "headers", req |-> r, table |-> routeTable, disp |-> NoName, target |-> NoName, attempt |-> 0, node |-> NoName,
     link |-> NoName, hit |-> FALSE, own |-> FALSE, again |-> FALSE, victim |-> NoName, sent |-> 0, dialed |-> FALSE,
     site |-> NoName, dir |-> FALSE, last |-> NoName, out |-> "none",
     why |-> "none"]

\* ctx.sites_resolver: that of the configuration the process started with.
SitesOn == SitesIn[menu.boot]

Live(c) == conn[c].pc # "free"
At(c, pc) == conn[c].pc = pc
Move(c, pc) == conn' = [conn EXCEPT ![c].pc = pc]

(* ---- answers ---- *)

status_code(error) ==
    CASE error = "HeaderTimeout" -> "408"
      [] error \in {"MissingHost", "DomainMismatch", "EmptySubdomain", "InvalidTicket"} -> "400"
      [] error = "NotFound" -> "404"
      [] error = "MisdirectedRequest" -> "421"
      [] error \in {"ConnectTimeout", "ResponseTimeout", "PoolStale"} -> "504"
      [] error \in {"ConnectError", "StreamError", "LocalBackendUnreachable"} -> "502"

\* write_error_and_shutdown, and every other answer after which the task ends.
Answer(c, out) == conn' = [conn EXCEPT ![c].pc = "done", ![c].out = out, ![c].link = NoName]
Splice(c, out) == Answer(c, out)
Refuse(c, error) ==
    conn' = [conn EXCEPT ![c].pc = "done", ![c].out = status_code(error), ![c].why = error,
                         ![c].link = NoName]

(* ---- the pool ---- *)

Entry(n, l) == [node |-> n, link |-> l, expired |-> FALSE]
Pooled(n)   == \E i \in DOMAIN pool : pool[i].node = n
EntryOf(n)  == CHOOSE e \in Items(pool) : e.node = n
Without(p, n) == SelectSeq(p, LAMBDA e : e.node # n)

\* DashMap::insert replaces the entry of the key, and it is the newest.
PoolPut(n, l) == pool' = Append(Without(pool, n), Entry(n, l))
PoolEvict(n)  == pool' = Without(pool, n)

Inserting(c) == conn[c].pc \in {"insertEvict", "insertPut"}

\* The lowest link nobody holds.
Unheld == {l \in Links : /\ \A i \in DOMAIN pool : pool[i].link # l
                         /\ \A c \in Conns : Live(c) => conn[c].link # l}
FreshLink == CHOOSE l \in Unheld : \A k \in Unheld : l <= k

(* ---- accept, SIGHUP ---- *)

\* handle_connection takes the route table when it starts, and keeps it.
Accept(c, r) ==
    /\ At(c, "free") /\ menu.accepts > 0
    /\ conn' = [conn EXCEPT ![c] = NewConn(r)]
    /\ menu' = [menu EXCEPT !.accepts = @ - 1]
    /\ UNCHANGED <<routeTable, pool, link, park, overlapped>>

\* The route half of the handler (the certificate half is GatewayCert's
\* Sighup): a file that does not load keeps the table.  The resolver of Sites
\* and the pool keep the settings of the start.
SwapRoutes(f) ==
    /\ routeTable' = IF f \in Loading THEN f ELSE routeTable
    /\ UNCHANGED <<conn, pool, link, park, overlapped, menu>>

\* A finished task is dropped; its slot takes another connection.
Hangup(c) ==
    /\ conn[c].pc \in {"done", "static"}
    /\ conn' = [conn EXCEPT ![c] = Free]
    /\ UNCHANGED <<routeTable, pool, link, park, overlapped, menu>>

(* ---- headers ---- *)

\* Nothing for 5 s, the end of the stream, or more than 8192 bytes.
read_until_headers(c, error) ==
    /\ At(c, "headers")
    /\ Refuse(c, error)
    /\ UNCHANGED <<routeTable, pool, link, park, overlapped, menu>>

\* Only on the TLS path, and only when the client named a host there.
Misdirected(r) == r.sni # NoName /\ LowerName(r.host) # LowerName(r.sni)

\* The berth: its page on the canonical host, elsewhere a redirect to it.
Berth(host) == IF LowerName(host) = Canonical THEN "berth" ELSE "307"

\* Without Sites a parked name is the berth's, a rejected one gets its status.
WithoutSites(disp, host) ==
    IF disp.kind = "parked" THEN Berth(host) ELSE status_code(disp.error)

Dispatch(c) ==
    LET r    == conn[c].req
        disp == Routed[conn[c].table][r.host]
        Go(pc, target) == conn' = [conn EXCEPT ![c].pc = pc, ![c].disp = disp, ![c].target = target]
    IN  CASE disp.kind = "local" -> Go("dial", NoName)
          [] disp.kind = "iroh"  -> Go("setup", disp.target)
          [] disp.kind \in {"parked", "reject"} ->
                IF SitesOn THEN Go("lookup", NoName) ELSE Answer(c, WithoutSites(disp, r.host))

\* try_serve_http01 comes first: a challenge is never proxied.
HeadersRead(c) ==
    /\ At(c, "headers")
    /\ LET r == conn[c].req
       IN  CASE r.path = "challenge" -> Answer(c, "http01")
             [] r.path # "challenge" /\ r.host = NoName -> Refuse(c, "MissingHost")
             [] r.path # "challenge" /\ r.host # NoName /\ Misdirected(r) ->
                   Refuse(c, "MisdirectedRequest")
             [] OTHER -> Dispatch(c)
    /\ UNCHANGED <<routeTable, pool, link, park, overlapped, menu>>

(* ---- local backends ---- *)

\* A failed dial fails over to the alias the route shadows, if there is one.
dial_local(c, ok) ==
    /\ At(c, "dial")
    /\ LET disp == conn[c].disp
       IN  CASE ok -> Splice(c, "local")
             [] ~ok /\ disp.fallback # NoName ->
                   conn' = [conn EXCEPT ![c].pc = "setup", ![c].target = disp.fallback, ![c].dialed = TRUE]
             [] ~ok /\ disp.fallback = NoName -> Refuse(c, "LocalBackendUnreachable")
    /\ UNCHANGED <<routeTable, pool, link, park, overlapped, menu>>

(* ---- parked and unclaimed names: Sites ---- *)

\* sites::lookup asks the API for the alias of the host: an Error is a bad
\* answer, an unsafe name, or 3 s without one.
LookupResult == {"Hit", "Miss", "Error"}

\* The site of a hit has a snapshot (one of SiteKinds), or "current" is missing,
\* not a directory, or outside the root.
resolve_snapshot_dir == SiteKinds \cup {NoName}

ParkedName(c, result) ==
    /\ At(c, "lookup") /\ conn[c].disp.kind = "parked" /\ result # "Hit"
    /\ Answer(c, WithoutSites(conn[c].disp, conn[c].req.host))
    /\ UNCHANGED <<routeTable, pool, link, park, overlapped, menu>>

\* A miss goes to the berth, an error gets the status of the rejection.
UnclaimedName(c, result) ==
    /\ At(c, "lookup") /\ conn[c].disp.kind = "reject" /\ result # "Hit"
    /\ Answer(c, IF result = "Miss" THEN "307" ELSE WithoutSites(conn[c].disp, conn[c].req.host))
    /\ UNCHANGED <<routeTable, pool, link, park, overlapped, menu>>

SiteHit(c, site) ==
    /\ At(c, "lookup")
    /\ IF site = NoName THEN Move(c, "forward")
       ELSE conn' = [conn EXCEPT ![c].pc = "park", ![c].site = site]
    /\ UNCHANGED <<routeTable, pool, link, park, overlapped, menu>>

is_control_plane(path) == path \in {"control", "none"}

\* The bytes go to the API on loopback, so its own paths are refused first.
forward_site_or_refuse(c, ok) ==
    /\ At(c, "forward")
    /\ CASE is_control_plane(conn[c].req.path) -> Answer(c, "403")
         [] ~is_control_plane(conn[c].req.path) /\ ok -> Splice(c, "site")
         [] ~is_control_plane(conn[c].req.path) /\ ~ok -> Refuse(c, "LocalBackendUnreachable")
    /\ UNCHANGED <<routeTable, pool, link, park, overlapped, menu>>

\* ParkSnapshotCache::resolve holds its lock over the lookup of the berth.
ParkLocked == \E c \in Conns : At(c, "parkLookup")

ParkCached(c) ==
    /\ At(c, "park") /\ ~ParkLocked /\ park.at = "valid"
    /\ conn' = [conn EXCEPT ![c].pc = "static", ![c].dir = park.dir]
    /\ UNCHANGED <<routeTable, pool, link, park, overlapped, menu>>

ParkLookup(c) ==
    /\ At(c, "park") /\ ~ParkLocked /\ park.at # "valid"
    /\ Move(c, "parkLookup")
    /\ UNCHANGED <<routeTable, pool, link, park, overlapped, menu>>

ParkStore(c, dir) ==
    /\ At(c, "parkLookup")
    /\ park' = [at |-> "valid", dir |-> dir]
    /\ conn' = [conn EXCEPT ![c].pc = "static", ![c].dir = dir]
    /\ UNCHANGED <<routeTable, pool, link, overlapped, menu>>

\* 60 s after a hit, 5 s after a miss.
ParkExpires ==
    /\ park.at = "valid"
    /\ park' = [park EXCEPT !.at = "expired"]
    /\ UNCHANGED <<routeTable, conn, pool, link, overlapped, menu>>

Reply(status, from) == [status |-> status, from |-> from]
empty_not_found == Reply("404", "none")

\* A matching If-None-Match is answered 304 only where a 200 would have been.
serve_fallback_file(exists, from, status, cond) ==
    IF ~exists THEN empty_not_found
    ELSE Reply(IF status = "200" /\ cond THEN "304" ELSE status, from)

fallback_response(site, dir, cond) ==
    CASE site.policy = "index"  -> serve_fallback_file(site.index, "site", "200", cond)
      [] site.policy = "404"    -> serve_fallback_file(site.own404, "site", "404", cond)
      [] site.policy = "empty"  -> empty_not_found
      [] site.policy = "unset" /\ site.own404 -> serve_fallback_file(TRUE, "site", "404", cond)
      [] site.policy = "unset" /\ ~site.own404 -> serve_fallback_file(dir, "park", "404", cond)

\* One request of the kept-alive connection.  The first one replays the
\* headers that were read for routing.
serve_request(c, host, found, cond) ==
    /\ At(c, "static")
    /\ conn[c].last = NoName => LowerName(host) = LowerName(conn[c].req.host)
    /\ LET k == conn[c]
           reply == IF LowerName(host) # LowerName(k.req.host) THEN Reply("421", "none")
                    ELSE IF found THEN Reply(IF cond THEN "304" ELSE "200", "site")
                    ELSE fallback_response(k.site, k.dir, cond)
       IN  conn' = [conn EXCEPT ![c].last = <<host, reply>>]
    /\ UNCHANGED <<routeTable, pool, link, park, overlapped, menu>>

(* ---- the overlay ---- *)

\* parse_z32_subdomain and PublicKey::from_bytes.
resolve_ticket(target) == IF target \in DOMAIN Tickets THEN Tickets[target] ELSE Error

\* The pool is asked only the first time.  get: an expired or closed entry is
\* removed after the guard is dropped, a good one becomes the newest.
setup_iroh_proxy(c) ==
    /\ At(c, "setup")
    /\ LET n == resolve_ticket(conn[c].target)
       IN  CASE n = Error -> Refuse(c, "InvalidTicket") /\ UNCHANGED pool
             [] n # Error /\ conn[c].attempt > 0 ->
                   /\ PoolEvict(n)
                   /\ conn' = [conn EXCEPT ![c].pc = "connect", ![c].node = n]
             [] n # Error /\ conn[c].attempt = 0 /\ ~Pooled(n) ->
                   /\ conn' = [conn EXCEPT ![c].pc = "connect", ![c].node = n]
                   /\ UNCHANGED pool
             [] OTHER ->
                   LET e == EntryOf(n)
                   IN  IF e.expired \/ link[e.link] = "closed"
                       THEN /\ conn' = [conn EXCEPT ![c].pc = "discard", ![c].node = n]
                            /\ UNCHANGED pool
                       ELSE /\ conn' = [conn EXCEPT ![c].pc = "open", ![c].node = n,
                                                    ![c].link = e.link, ![c].hit = TRUE]
                            /\ PoolPut(n, e.link)
    /\ UNCHANGED <<routeTable, link, park, overlapped, menu>>

Discard(c) ==
    /\ At(c, "discard")
    /\ PoolEvict(conn[c].node)
    /\ Move(c, "connect")
    /\ UNCHANGED <<routeTable, link, park, overlapped, menu>>

Connect(c) ==
    /\ At(c, "connect") /\ conn[c].node \in menu.up
    /\ conn' = [conn EXCEPT ![c].pc = "insert", ![c].link = FreshLink, ![c].own = TRUE]
    /\ link' = [link EXCEPT ![FreshLink] = "open"]
    /\ UNCHANGED <<routeTable, pool, park, overlapped, menu>>

ConnectFails(c, error) ==
    /\ At(c, "connect") /\ conn[c].node \notin menu.up
    /\ Refuse(c, error)
    /\ UNCHANGED <<routeTable, pool, link, park, overlapped, menu>>

\* Mutant: one entry too many before the oldest goes.
InsertScanLate(c) ==
    /\ At(c, "insert")
    /\ overlapped' = (overlapped \/ \E d \in Conns : Inserting(d))
    /\ IF Len(pool) > PoolMax
       THEN conn' = [conn EXCEPT ![c].pc = "insertEvict", ![c].victim = Head(pool).node]
       ELSE Move(c, "insertPut")
    /\ UNCHANGED <<routeTable, pool, link, park, menu>>

\* insert: the size, the oldest entry, its removal and the new entry are each
\* atomic, the four together are not.
InsertScan(c) ==
    /\ At(c, "insert")
    /\ overlapped' = (overlapped \/ \E d \in Conns : Inserting(d))
    /\ IF Len(pool) >= PoolMax
       THEN conn' = [conn EXCEPT ![c].pc = "insertEvict", ![c].victim = Head(pool).node]
       ELSE Move(c, "insertPut")
    /\ UNCHANGED <<routeTable, pool, link, park, menu>>

InsertEvict(c) ==
    /\ At(c, "insertEvict")
    /\ PoolEvict(conn[c].victim)
    /\ conn' = [conn EXCEPT ![c].pc = "insertPut", ![c].victim = NoName]
    /\ UNCHANGED <<routeTable, link, park, overlapped, menu>>

InsertPut(c) ==
    /\ At(c, "insertPut")
    /\ PoolPut(conn[c].node, conn[c].link)
    /\ Move(c, "open")
    /\ UNCHANGED <<routeTable, link, park, overlapped, menu>>

\* open_bi fails on a closed connection: whatever the pool holds for the node
\* is evicted and one more connection is made.  pool_hit is not taken back.
Open(c) ==
    /\ At(c, "open")
    /\ CASE link[conn[c].link] # "closed" -> Move(c, "send") /\ UNCHANGED pool
         [] link[conn[c].link] = "closed" /\ ~conn[c].again ->
               /\ PoolEvict(conn[c].node)
               /\ conn' = [conn EXCEPT ![c].pc = "connect", ![c].again = TRUE]
         [] link[conn[c].link] = "closed" /\ conn[c].again -> Refuse(c, "StreamError") /\ UNCHANGED pool
    /\ UNCHANGED <<routeTable, link, park, overlapped, menu>>

\* The port, then the headers with whatever of the body came with them.  With
\* a response timeout of zero a fresh connection is not probed.
Send(c) ==
    /\ At(c, "send")
    /\ IF link[conn[c].link] = "closed" THEN Refuse(c, "StreamError")
       ELSE IF menu.unprobed /\ ~conn[c].hit
       THEN conn' = [conn EXCEPT ![c].sent = @ + 1, ![c].pc = "done", ![c].out = "vm", ![c].link = NoName]
       ELSE conn' = [conn EXCEPT ![c].sent = @ + 1, ![c].pc = "probe"]
    /\ UNCHANGED <<routeTable, pool, link, park, overlapped, menu>>

\* The first byte of the answer.  Until it comes nothing more of the request is
\* forwarded: a VM that reads a longer body first does not answer.
ProbeAnswered(c) ==
    /\ At(c, "probe") /\ link[conn[c].link] = "open" /\ ~conn[c].req.long
    /\ Splice(c, "vm")
    /\ UNCHANGED <<routeTable, pool, link, park, overlapped, menu>>

ProbeReset(c) ==
    /\ At(c, "probe") /\ link[conn[c].link] = "closed"
    /\ Refuse(c, "StreamError")
    /\ UNCHANGED <<routeTable, pool, link, park, overlapped, menu>>

\* No byte in time, or the stream ended: once, on a pooled connection, the
\* node is evicted and the same headers go out on a fresh connection.
ProbeQuiet(c) ==
    /\ At(c, "probe") /\ link[conn[c].link] # "closed"
    /\ IF conn[c].hit /\ conn[c].attempt = 0
       THEN /\ PoolEvict(conn[c].node)
            /\ conn' = [conn EXCEPT ![c].pc = "setup", ![c].attempt = 1,
                                    ![c].hit = FALSE, ![c].again = FALSE]
       ELSE /\ Refuse(c, IF conn[c].hit THEN "PoolStale" ELSE "ResponseTimeout")
            /\ UNCHANGED pool
    /\ UNCHANGED <<routeTable, link, park, overlapped, menu>>

(* ---- the network ---- *)

\* The peer vanishes, or the connection is closed under its holders.
LinkFails(l, s) ==
    /\ menu.faults > 0 /\ l \notin Unheld /\ link[l] # "closed" /\ link[l] # s
    /\ link' = [link EXCEPT ![l] = s]
    /\ menu' = [menu EXCEPT !.faults = @ - 1]
    /\ UNCHANGED <<routeTable, conn, pool, park, overlapped>>

\* pool_ttl since the entry was last used.
PoolExpires(i) ==
    /\ menu.faults > 0 /\ ~pool[i].expired
    /\ pool' = [pool EXCEPT ![i].expired = TRUE]
    /\ menu' = [menu EXCEPT !.faults = @ - 1]
    /\ UNCHANGED <<routeTable, conn, link, park, overlapped>>

(* ---- the gateway's tasks ---- *)

ProxyInit ==
    /\ menu \in Menus
    /\ routeTable = menu.boot
    /\ conn = [c \in Conns |-> Free]
    /\ pool = <<>>
    /\ link = [l \in Links |-> "closed"]
    /\ park = [at |-> "none", dir |-> FALSE]
    /\ overlapped = FALSE

\* Everything a handler does by itself, in the order it does it.
HandlerStep(c) ==
    \/ HeadersRead(c)
    \/ \E ok \in BOOLEAN : dial_local(c, ok) \/ forward_site_or_refuse(c, ok) \/ ParkStore(c, ok)
    \/ \E s \in resolve_snapshot_dir : SiteHit(c, s)
    \/ \E r \in LookupResult : ParkedName(c, r) \/ UnclaimedName(c, r)
    \/ setup_iroh_proxy(c) \/ Discard(c) \/ Connect(c)
    \/ \E e \in {"ConnectTimeout", "ConnectError"} : ConnectFails(c, e)
    \/ InsertScan(c) \/ InsertEvict(c) \/ InsertPut(c)
    \/ Open(c) \/ Send(c) \/ ProbeAnswered(c) \/ ProbeReset(c) \/ ProbeQuiet(c)

ParkStep(c) == ParkCached(c) \/ ParkLookup(c)

ProxyNext ==
    \/ \E c \in Conns : HandlerStep(c) \/ ParkStep(c) \/ Hangup(c)
    \/ \E c \in Conns, e \in {"HeaderTimeout", "MissingHost"} : read_until_headers(c, e)
    \/ \E c \in Conns, r \in menu.requests : Accept(c, r)
    \/ \E c \in Conns, h \in menu.asked, found, cond \in BOOLEAN : serve_request(c, h, found, cond)
    \/ \E f \in menu.files : SwapRoutes(f)
    \/ \E l \in Links, s \in {"silent", "closed"} : LinkFails(l, s)
    \/ \E i \in DOMAIN pool : PoolExpires(i)
    \/ ParkExpires

(* ---- what the proxy must guarantee ---- *)

ProxyTypeOK ==
    /\ overlapped \in BOOLEAN
    /\ \A i, j \in DOMAIN pool : pool[i].node = pool[j].node => i = j
    /\ \A i \in DOMAIN pool : pool[i].node \in Nodes /\ pool[i].link \in Links
    /\ \A c \in Conns : Live(c) => conn[c].attempt \in 0..1 /\ conn[c].node \in Nodes \cup {NoName}

Spliced(c) == Live(c) /\ conn[c].out \in {"local", "vm", "site"}

\* One table decides the whole request, whatever SIGHUP does in between: a
\* request reaches the backend, or the node, that the table of its accept names
\* for its host (the shadowed alias only after its own dial failed), and no
\* challenge, misdirected or control-plane request reaches anything; a static
\* answer on a kept-alive connection belongs to the host it was looked up for,
\* and the berth's page is never more than a 404 (main.rs:1067).
OneTableServes ==
    \A c \in Conns : LET k == conn[c] IN
        /\ Spliced(c) =>
              LET disp == Routed[k.table][k.req.host]
              IN  /\ k.req.path # "challenge" /\ ~Misdirected(k.req)
                  /\ k.out = "local" => disp.kind = "local"
                  /\ k.out = "site"  => disp.kind \in {"parked", "reject"} /\ k.req.path = "plain"
                  /\ k.out = "vm" =>
                        \/ disp.kind = "iroh" /\ Tickets[disp.target] = k.node
                        \/ disp.kind = "local" /\ k.dialed /\ Tickets[disp.fallback] = k.node
        /\ Live(c) /\ k.last # NoName =>
              LET reply == k.last[2]
              IN  /\ reply.from # "none" => LowerName(k.last[1]) = LowerName(k.req.host)
                  /\ reply.from = "park" => reply.status = "404"

\* The retry hides a pooled connection that died unnoticed, and nothing else: a
\* request goes out at most twice, the second time on a connection of its own,
\* the client never sees the pool's own failure, and a 504 for a silent VM comes
\* only from a connection opened for this request when a response timeout is
\* configured (main.rs:1365).
RetryMasksStalePool ==
    \A c \in Conns : Live(c) => LET k == conn[c] IN
        /\ k.sent <= 1 + k.attempt
        /\ k.sent = 2 => k.own
        /\ k.why # "PoolStale"
        /\ k.why = "ResponseTimeout" => k.own /\ ~menu.unprobed

\* As long as inserts have not overlapped the pool holds at most pool_max
\* connections.  Two that overlap can each add one, and since an insert evicts
\* one entry and adds one the pool stays above its limit from then on
\* (main.rs:340).
PoolBoundedWhenSerial == overlapped \/ Len(pool) <= PoolMax

\* The pool and the one retry on it, for any interleaving of the handlers
\* (ConnectionPool, setup_iroh_proxy, handle_iroh_connection).
PoolSound == ProxyTypeOK /\ RetryMasksStalePool /\ PoolBoundedWhenSerial

\* The proxy as a whole: what a request reaches, and the pool it reaches it by.
ProxySound == OneTableServes /\ PoolSound
=============================================================================
