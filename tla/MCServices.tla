----------------------------- MODULE MCServices -----------------------------
(* Small instances of the gateway's proxy, the guest agent, the blob door, the *)
(* client, sites and the direct challenge.  The modules share no variable:     *)
(* `focus` names the one a behaviour runs; the others keep their initial values.*)
EXTENDS GatewayProxy, MCGatewayFiles, GuestMail, GuestSecrets, GuestVsock, GuestTmux,
        BlobDoor, ShellFrames, ClientLogin, ClientTerminal, ClientKeys, DirectChallenge,
        SitePublish, SiteAliases, DeployStream

CONSTANTS m1, m2

VARIABLE focus

(* ---- proxy ---- *)

\* a.n is a route that shadows an alias of node v1, b.n an alias of v2 (both
\* kept or swapped by a reload), n, the berth's own host, and the rest of it are
\* parked; <<"a">> is outside every apex.
Parking == [BaseFile EXCEPT !.domains = <<Domain(N, "parked")>>, !.sites = "set",
                            !.routes = <<Route(N, <<"a">>, "b1")>>,
                            !.aliases = <<Alias(N, <<"a">>, "v1", "p"), Alias(N, <<"b">>, "v2", "p")>>]
Moved   == [Parking EXCEPT !.routes = <<>>, !.aliases = <<Alias(N, <<"b">>, "v1", "p")>>]
Broken  == [Parking EXCEPT !.domains = <<>>]
Direct  == [BaseFile EXCEPT !.domains = <<Domain(N, "iroh")>>]
Closed  == [BaseFile EXCEPT !.domains = <<Domain(N, "none")>>]

MCProxyFiles == {Parking, Moved, Broken, Direct, Closed}

MCTickets == [t \in {<<"v1", "p">>, <<"a">>} |-> "v1"] @@ [t \in {<<"v2", "p">>, <<"b">>} |-> "v2"]
MCCanonical == N

Opening(sni, name, path, long) == [sni |-> sni, host |-> name, path |-> path, long |-> long]
Plain(name) == Opening(NoName, name, "plain", FALSE)

MCSiteKinds ==
    {[policy |-> "index", index |-> TRUE, own404 |-> TRUE], [policy |-> "404", index |-> TRUE, own404 |-> FALSE],
     [policy |-> "unset", index |-> TRUE, own404 |-> FALSE]}

ProxyMenu(boot, other, requests, asked, nodes, unprobed, accepts, faults) ==
    [boot |-> boot, files |-> other, requests |-> requests, asked |-> asked, up |-> nodes,
     unprobed |-> unprobed, accepts |-> accepts, faults |-> faults]

MCMenus ==
    {ProxyMenu(Parking, {Moved, Broken}, {Plain(<<"a", "n">>), Plain(BN)}, {}, {"v1", "v2"}, TRUE, 2, 0),
     ProxyMenu(Parking, {}, {Plain(N), Opening(NoName, <<"b", "b", "n">>, "control", FALSE), Opening(N, BN, "plain", FALSE)},
               {<<"N">>, BN}, {}, TRUE, 2, 0),
     ProxyMenu(Parking, {}, {Plain(<<"a">>)}, {}, {}, TRUE, 1, 0),
     ProxyMenu(Direct, {}, {Plain(<<"a", "n">>)}, {}, {"v1"}, TRUE, 1, 2),
     ProxyMenu(Closed, {}, {Plain(N), Plain(<<"a", "n">>), Opening(<<"N">>, <<"A", "N">>, "challenge", FALSE),
                            Plain(NoName)}, {}, {}, TRUE, 2, 0),
     ProxyMenu(Direct, {}, {Plain(<<"b", "b", "n">>), Plain(BN), Opening(NoName, <<"a", "n">>, "plain", TRUE)},
               {}, {"v1"}, TRUE, 2, 1),
     ProxyMenu(Direct, {}, {Plain(<<"a", "n">>), Plain(BN)}, {}, {"v1"}, FALSE, 2, 1)}

(* ---- mail ---- *)

MailMenu(ids, post, late, write, kill, disk, wire, agent, crash, done, client) ==
    [ids |-> ids, post |-> post, late |-> late, write |-> write, kill |-> kill, disk |-> disk,
     wire |-> wire, agent |-> agent, host |-> crash, done |-> done, client |-> client]

MCMailMenus ==
    {MailMenu({m1}, 2, 0, 0, 0, 1, 0, 1, 0, 0, FALSE), MailMenu({m1, m2}, 2, 0, 0, 0, 0, 0, 0, 0, 0, FALSE),
     MailMenu({m1}, 2, 0, 0, 0, 0, 0, 0, 0, 1, FALSE), MailMenu({m1}, 2, 1, 1, 0, 0, 0, 0, 0, 0, FALSE),
     MailMenu({m1}, 2, 0, 0, 1, 0, 0, 0, 1, 0, FALSE), MailMenu({m1}, 1, 0, 0, 0, 0, 1, 0, 0, 0, TRUE)}

(* ---- secrets ---- *)

MCEntries == ("a1" :> [key |-> "k1", value |-> "quoted"]) @@ ("a2" :> [key |-> "k2", value |-> "plain"])

SecretMenu(first, second, faults, reboots) ==
    [requests |-> ("a1" :> first) @@ ("a2" :> second), faults |-> faults, reboots |-> reboots]

MCSecretMenus ==
    {SecretMenu({"inject_env", "suspend", "resume"}, {"set_env", "close"}, 0, 0),
     SecretMenu({"inject", "set_env"}, {"inject"}, 2, 0),
     SecretMenu({"inject_env", "suspend"}, {"inject", "resume"}, 1, 0),
     SecretMenu({"inject", "push_env"}, {"set_env"}, 0, 1),
     SecretMenu({"inject_env"}, {"close"}, 1, 1)}

(* ---- vsock ---- *)

VsockMenu(agent, sends, unparsed, connects, closes, overlap, spawnFails, output, exits, callers) ==
    [agent |-> agent, sends |-> sends, unparsed |-> unparsed, connects |-> connects, closes |-> closes,
     overlap |-> overlap, spawnFails |-> spawnFails, output |-> output, exits |-> exits, callers |-> callers]

Opens(ids) == {Msg("open", p, 0) : p \in ids}

MCVsockMenus ==
    {VsockMenu("full", {Msg("ask", "q1", 0), Msg("answer", "c1", 0)}, {}, 2, 1, TRUE, 0, 0, 0, {"c1"}),
     VsockMenu("full", {Msg("ask", "q1", 0), Msg("bad", "q2", 0), Msg("answer", "c1", 0)}, {}, 1, 1, FALSE, 0, 0, 0, {"c1"}),
     VsockMenu("boot", {Msg("bad", "q2", 0), Msg("open", "p1", 0), Anything("input")}, {"q2"}, 1, 1, FALSE, 1, 1, 0, {}),
     VsockMenu("full", Opens({"p1", "p2"}) \cup {Anything("input"), Anything("close")}, {}, 1, 0, FALSE, 0, 0, 1, {}),
     VsockMenu("full", Opens({"p1", "p2", "p3"}) \cup {Anything("input")}, {}, 1, 0, FALSE, 0, 0, 1, {}),
     VsockMenu("full", Opens({"p1"}) \cup {Msg("ask", "q1", 0)}, {}, 1, 1, FALSE, 0, 3, 1, {}),
     VsockMenu("full", {Msg("poll", "q1", 0), Msg("ask", "q2", 0), Msg("huge", "h1", 0)}, {}, 1, 1, FALSE, 0, 0, 0, {"c1"}),
     VsockMenu("boot", {Msg("poll", "q1", 0), Msg("huge", "h1", 0)}, {}, 1, 1, FALSE, 0, 0, 0, {})}

(* ---- tmux ---- *)

Typed(fakes, builtin, hangs, code) == [fakes |-> fakes, builtin |-> builtin, hangs |-> hangs, code |-> code]

TmuxMenu(one, two, typists, faults, kills) ==
    [cmds |-> ("p1" :> one) @@ ("p2" :> two) @@ ("t1" :> Typed(FALSE, FALSE, FALSE, "zero")),
     typists |-> typists, faults |-> faults, kills |-> kills]

MCTmuxMenus ==
    {TmuxMenu(Typed(TRUE, FALSE, FALSE, "zero"), Typed(FALSE, TRUE, FALSE, "one"), {}, 0, 1),
     TmuxMenu(Typed(TRUE, TRUE, FALSE, "zero"), Typed(TRUE, FALSE, TRUE, "one"), {}, 1, 0),
     TmuxMenu(Typed(FALSE, FALSE, FALSE, "zero"), Typed(FALSE, FALSE, FALSE, "one"), {"t1"}, 0, 0)}

(* ---- blob door ---- *)

\* o1 and o2 are two outboards for the same object; big is over the limit.
MCHash == [b \in {"a1", "b1", "o1", "o2", "big"} |->
              CASE b = "a1" -> "a" [] b = "b1" -> "b" [] b = "big" -> "big" [] OTHER -> "x"]
MCSize == [b \in {"a1", "b1", "o1", "o2", "big"} |->
              CASE b = "o1" -> 1 [] b = "big" -> 4 [] OTHER -> 2]

Put(k, b) == [op |-> "put", key |-> k, body |-> b]
Get(k)    == [op |-> "get", key |-> k, body |-> "none"]
Empty     == [k \in Keys |-> NoBody]

DoorMenu(one, two, three, stored, faults, drops, restarts) ==
    [asks |-> ("r1" :> one) @@ ("r2" :> two) @@ ("r3" :> three), stored |-> stored,
     faults |-> faults, drops |-> drops, restarts |-> restarts]

MCDoorMenus ==
    {DoorMenu(Put("a", "a1"), Put("a", "a1"), Get("a"), Empty, 1, 0, 0),
     DoorMenu(Put("a", "a1"), Put("b", "b1"), Get("a"), Empty, 1, 0, 0),
     DoorMenu(Put("a", "a1"), Put("b", "b1"), Get("a"), Empty, 0, 1, 1),
     DoorMenu(Put("a.obao", "o1"), Put("a.obao", "o2"), Get("a.obao"), Empty, 0, 0, 1),
     DoorMenu(Put("b", "a1"), Put("b", "big"), Get("b"), [Empty EXCEPT !["b"] = "b1"], 0, 0, 0),
     DoorMenu(Get("a"), Get("a"), Get("b"), [Empty EXCEPT !["a"] = "a1", !["b"] = "b1"], 1, 1, 0)}

(* ---- client ---- *)

ShellMenu(session, refusals, keys, output, exits, resizes, eof) ==
    [session |-> session, refusals |-> refusals, keys |-> keys, output |-> output, exits |-> exits,
     resizes |-> resizes, eof |-> eof]

MCShellMenus ==
    {ShellMenu("work", 2, 0, 1, 1, 0, 0), ShellMenu("work", 1, 1, 0, 1, 0, 0), ShellMenu("none", 1, 1, 1, 0, 1, 1),
     ShellMenu("bad", 1, 0, 0, 0, 0, 1)}

LoginMenu(one, two, three, kept, faults, sleeps, rotates) ==
    [jobs |-> ("u1" :> one) @@ ("u2" :> two) @@ ("u3" :> three), saved |-> kept,
     faults |-> faults, sleeps |-> sleeps, rotates |-> rotates]

MCLoginMenus ==
    {LoginMenu("connect", "connect", "logout", 1, 0, 2, TRUE), LoginMenu("connect", "login", "none", 1, 1, 1, TRUE),
     LoginMenu("connect", "switch", "logout", 1, 0, 1, TRUE), LoginMenu("connect", "login", "logout", NoToken, 0, 1, TRUE),
     LoginMenu("connect", "connect", "none", 1, 1, 1, FALSE)}

TermMenu(command, shared, hasTty, noReconnect, drops, faults) ==
    [command |-> command, shared |-> shared, hasTty |-> hasTty, noReconnect |-> noReconnect,
     drops |-> drops, faults |-> faults]

MCTermMenus ==
    {TermMenu("connect", TRUE, TRUE, FALSE, 4, 1), TermMenu("connect", TRUE, FALSE, FALSE, 4, 1),
     TermMenu("connect", FALSE, TRUE, TRUE, 1, 1), TermMenu("shell", TRUE, TRUE, FALSE, 0, 1)}

\* ESC, a letter, an arrow; `@` as modifyOtherKeys with shift and with control;
\* keys as kitty reports them: escape, a short number, shifted with an alternate,
\* shifted, shifted and released, a number that overflows, with control; insert.
CSI == <<ESC, OpenBracket>>
Pieces ==
    {<<ESC>>, <<120>>, CSI \o <<65>>, CSI \o <<50, 55, 59, 50, 59, 54, 52, 126>>,
     CSI \o <<50, 55, 59, 53, 59, 54, 52, 126>>, CSI \o <<50, 55, 117>>, CSI \o <<50, 117>>,
     CSI \o <<57, 55, 58, 54, 53, 59, 50, 117>>, CSI \o <<53, 48, 59, 50, 117>>,
     CSI \o <<53, 48, 59, 49, 58, 51, 59, 54, 54, 117>>, CSI \o [i \in 1..9 |-> 57] \o <<117>>,
     CSI \o <<50, 126>>, CSI \o <<53, 48, 59, 53, 117>>}
MCKeyInputs == {a \o b : a, b \in Pieces}

(* ---- direct challenge ---- *)

Good(challenge, by, channel) ==
    [challenge |-> challenge, holder |-> by, audience |-> "edge", signed |-> TRUE, edge |-> "edge",
     conn |-> channel, allowed |-> TRUE,
     bind |-> [by |-> by, keyFits |-> TRUE, challenge |-> challenge, conn |-> channel]]

ChallengeMenu(one, two, three, faults, retries) ==
    [submits |-> ("v1" :> one) @@ ("v2" :> two) @@ ("v3" :> three), faults |-> faults, retries |-> retries]

MCChallengeMenus ==
    LET g == Good("q1", "ann", "n1")
    IN  {ChallengeMenu(g, Good("q1", "ann", "n2"), Good("q2", "bo", "n1"), 1, 1),
         ChallengeMenu([g EXCEPT !.bind.by = "bo"], [g EXCEPT !.bind.conn = "n2"],
                       [g EXCEPT !.bind.challenge = "q2"], 0, 1),
         ChallengeMenu([g EXCEPT !.allowed = FALSE], [g EXCEPT !.edge = "other"], g, 1, 1),
         ChallengeMenu([g EXCEPT !.conn = "none"], [g EXCEPT !.bind.keyFits = FALSE],
                       [g EXCEPT !.signed = FALSE], 0, 1)}

(* ---- sites ---- *)

SiteRun(via, source, toml, above, key, seq) ==
    [via |-> via, files |-> source, toml |-> toml, above |-> above, key |-> key, seq |-> seq]

Cli(toml, seq) == SiteRun("cli", {"a"}, toml, "absent", "own", seq)
Rebuild        == SiteRun("again", {}, "absent", "absent", "none", 0)
NoFiles        == SiteRun("cli", {}, "absent", "absent", "none", 0)

SiteMenu(one, two, three, faults, crashes) ==
    [runs |-> ("p1" :> one) @@ ("p2" :> two) @@ ("p3" :> three), faults |-> faults, crashes |-> crashes]

MCSiteMenus ==
    {SiteMenu(Cli("index", 1), Cli("404", 2), NoFiles, 0, 1),
     SiteMenu(Cli("index", 1), Cli("404", 2), Rebuild, 0, 0),
     SiteMenu(Cli("absent", 2), SiteRun("mix", {"a"}, "absent", "absent", "own", 1), NoFiles, 0, 0),
     SiteMenu(Cli("absent", 1), SiteRun("cli", {"a", "b"}, "index", "absent", "own", 2), NoFiles, 1, 0),
     SiteMenu(Cli("index", 1), SiteRun("cli", {"a"}, "absent", "silent", "none", 2),
              SiteRun("mix", {"a"}, "absent", "absent", "own", 2), 0, 0),
     SiteMenu(SiteRun("cli", {"a", "empty"}, "absent", "empty", "own", 1),
              SiteRun("cli", {"a", "oversized"}, "absent", "absent", "own", 2),
              SiteRun("mix", {"a"}, "absent", "absent", "none", 3), 1, 0),
     SiteMenu(SiteRun("cli", {"a", "dangling"}, "silent", "index", "own", 1),
              SiteRun("cli", {"a"}, "odd", "absent", "own", 2),
              SiteRun("cli", {"a"}, "404", "absent", "none", 3), 2, 0),
     SiteMenu(SiteRun("cli", {"dangling"}, "silent", "index", "own", 1),
              SiteRun("cli", {"a"}, "absent", "absent", "other", 2),
              SiteRun("cli", {"a", "many"}, "404", "absent", "none", 3), 0, 0)}

(* ---- aliases ---- *)

AliasCmd(verb, fp, site, sequence, key) ==
    [op |-> verb, fp |-> fp, site |-> site, fqdn |-> "d", sequence |-> sequence, key |-> key]

AliasMenu(one, two, three, faults, restarts) ==
    [cmds |-> ("c1" :> one) @@ ("c2" :> two) @@ ("c3" :> three), faults |-> faults, restarts |-> restarts]

MCAliasMenus ==
    LET Ann(verb, site, sequence) == AliasCmd(verb, "ann", site, sequence, "own")
    IN  {AliasMenu(Ann("set", "x", 0), AliasCmd("set", "bo", "x", 0, "own"), Ann("rm", "x", 0), 1, 1),
         AliasMenu(Ann("set", "x", 0), Ann("set", "y", 0), Ann("rm", "x", 0), 0, 1),
         AliasMenu(Ann("set", "x", 2), Ann("set", "x", 1), AliasCmd("rm", "bo", "x", 0, "own"), 1, 0),
         AliasMenu(Ann("set", "x", 2), AliasCmd("set", "bo", "x", 1, "other"), Ann("rm", "x", 1), 0, 2)}

(* ---- deploy ---- *)

File(kind, ignored, pruned) == [kind |-> kind, ignored |-> ignored, pruned |-> pruned]
Sources == {File("file", FALSE, FALSE), File("link", FALSE, FALSE), File("file", TRUE, FALSE),
            File("file", FALSE, TRUE), File("dir", FALSE, FALSE)}

DeployMenu(dir, toml, flag, via, granted, frames, newline, faults) ==
    [dir |-> dir, toml |-> [name |-> toml, memory |-> "none"], flags |-> [name |-> flag, memory |-> "none"],
     tree |-> Sources, via |-> via, faults |-> faults,
     answer |-> [accepted |-> granted, frames |-> frames, newline |-> newline]]

DeployAnswers ==
    {<<"progress", "ok">>, <<"progress", "failed">>, <<"ok", "junk", "failed">>, <<"failed", "blank", "ok">>,
     <<"junk", "odd">>, <<>>}

MCDeployMenus ==
    {DeployMenu(TRUE, "none", "none", via, TRUE, answer, newline, 1) :
        via \in {"http", "socket"}, answer \in DeployAnswers, newline \in BOOLEAN}
    \cup {DeployMenu(TRUE, "named", "flag", via, FALSE, <<"progress">>, FALSE, 0) : via \in {"http", "socket"}}
    \cup {DeployMenu(FALSE, "named", "none", "http", TRUE, <<"ok">>, TRUE, 0),
          DeployMenu(TRUE, "bad", "flag", "http", TRUE, <<"ok">>, TRUE, 0)}

(* ---- the parts ---- *)

vars == <<proxyVars, mailVars, secretVars, vsockVars, tmuxVars, doorVars, shellVars,
          loginVars, termVars, keyVars, challengeVars, siteVars, aliasVars, deployVars, focus>>

Parts == {"proxy", "mail", "secrets", "vsock", "tmux", "door", "shell", "login", "term",
          "keys", "challenge", "sites", "aliases", "deploy"}

\* A part that is not in focus sits in one of its initial states.
Init ==
    /\ focus \in Parts
    /\ ProxyInit     /\ (focus # "proxy"     => menu = CHOOSE m \in Menus : TRUE)
    /\ MailInit      /\ (focus # "mail"      => mailMenu = CHOOSE m \in MailMenus : TRUE)
    /\ SecretInit    /\ (focus # "secrets"   => secretMenu = CHOOSE m \in SecretMenus : TRUE)
    /\ VsockInit     /\ (focus # "vsock"     => vsockMenu = CHOOSE m \in VsockMenus : TRUE)
    /\ TmuxInit      /\ (focus # "tmux"      => tmuxMenu = CHOOSE m \in TmuxMenus : TRUE)
    /\ DoorInit      /\ (focus # "door"      => doorMenu = CHOOSE m \in DoorMenus : TRUE)
    /\ ShellInit     /\ (focus # "shell"     => shellMenu = CHOOSE m \in ShellMenus : TRUE)
    /\ LoginInit     /\ (focus # "login"     => loginMenu = CHOOSE m \in LoginMenus : TRUE)
    /\ TermInit      /\ (focus # "term"      => termMenu = CHOOSE m \in TermMenus : TRUE)
    /\ KeyInit       /\ (focus # "keys"      => typing.whole = <<ESC, ESC>>)
    /\ ChallengeInit /\ (focus # "challenge" => chMenu = CHOOSE m \in ChallengeMenus : TRUE)
    /\ SiteInit      /\ (focus # "sites"     => siteMenu = CHOOSE m \in SiteMenus : TRUE)
    /\ AliasInit     /\ (focus # "aliases"   => aliasMenu = CHOOSE m \in AliasMenus : TRUE)
    /\ DeployInit    /\ (focus # "deploy"    => deployMenu = CHOOSE m \in DeployMenus : TRUE)

\* A step of one part leaves the others alone.
OthersStay ==
    /\ UNCHANGED focus
    /\ focus # "proxy"      => UNCHANGED proxyVars
    /\ focus # "mail"       => UNCHANGED mailVars
    /\ focus # "secrets"    => UNCHANGED secretVars
    /\ focus # "vsock"      => UNCHANGED vsockVars
    /\ focus # "tmux"       => UNCHANGED tmuxVars
    /\ focus # "door"       => UNCHANGED doorVars
    /\ focus # "shell"      => UNCHANGED shellVars
    /\ focus # "login"      => UNCHANGED loginVars
    /\ focus # "term"       => UNCHANGED termVars
    /\ focus # "keys"       => UNCHANGED keyVars
    /\ focus # "challenge"  => UNCHANGED challengeVars
    /\ focus # "sites"      => UNCHANGED siteVars
    /\ focus # "aliases"    => UNCHANGED aliasVars
    /\ focus # "deploy"     => UNCHANGED deployVars

Next ==
    \/ focus = "proxy"     /\ ProxyNext     /\ OthersStay
    \/ focus = "mail"      /\ MailNext      /\ OthersStay
    \/ focus = "secrets"   /\ SecretNext    /\ OthersStay
    \/ focus = "vsock"     /\ VsockNext     /\ OthersStay
    \/ focus = "tmux"      /\ TmuxNext      /\ OthersStay
    \/ focus = "door"      /\ DoorNext      /\ OthersStay
    \/ focus = "shell"     /\ ShellNext     /\ OthersStay
    \/ focus = "login"     /\ LoginNext     /\ OthersStay
    \/ focus = "term"      /\ TermNext      /\ OthersStay
    \/ focus = "keys"      /\ KeyNext       /\ OthersStay
    \/ focus = "challenge" /\ ChallengeNext /\ OthersStay
    \/ focus = "sites"     /\ SiteNext      /\ OthersStay
    \/ focus = "aliases"   /\ AliasNext     /\ OthersStay
    \/ focus = "deploy"    /\ DeployNext    /\ OthersStay

Spec == Init /\ [][Next]_vars
=============================================================================
