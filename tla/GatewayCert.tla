---------------------------- MODULE GatewayCert ----------------------------
(* The gateway's certificates: how acme.rs obtains and stores them, how      *)
(* main.rs loads, renews and swaps them, and how tls.rs chooses one during a *)
(* handshake.  A chain is known by the names it carries and how long it     *)
(* still lasts, a key by whether it is the one the chain beside it was       *)
(* issued for; time is counted in units of which a certificate lives Life,   *)
(* so no clock grows.                                                        *)
EXTENDS GatewayConfig

CONSTANTS
    Life,           \* remaining life of a certificate just issued
    RenewBefore,    \* [acme].renew_before_secs
    FailWithin,     \* tls_expiry_fail_secs
    Budgets,        \* bounds: how many failures, crashes, SIGHUPs and "cert issue" in
                    \* one behaviour, and the configurations the operator writes
    CliNames        \* the --domain lists given to "cert issue"

ASSUME CertTimes == /\ Life \in Nat /\ RenewBefore \in Nat /\ FailWithin \in Nat
                    /\ 0 < FailWithin /\ FailWithin <= RenewBefore /\ RenewBefore < Life

\* The configurations the operator's files load as, and what the process runs
\* when it was started with p and reloads c.
CertFiles == UNION {b.files : b \in Budgets}
Loads == {c \in UNION {{load(f), load_from_env(f)} : f \in CertFiles} : c # Error}
Reloaded(c, p) ==
    [source |-> p.source, tls |-> p.tls, static |-> p.static, sites |-> p.sites,
     acme |-> [c.acme EXCEPT !.enabled = p.acme.enabled],
     apexes |-> c.apexes, routes |-> c.routes, aliases |-> c.aliases, certs |-> c.certs]

\* The name lists a certificate may be asked for.
SanSets == {{}} \cup CliNames \cup {effective_acme_domains(c) : c \in Loads}

\* Every pair of files a configuration names is the static one, in "out".
ASSUME LoadsTyped ==
    \A c \in Loads : /\ c.acme \in [enabled : BOOLEAN, email : BOOLEAN, token : BOOLEAN,
                                     explicit : BOOLEAN, domains : {c.acme.domains}]
                     /\ \A h \in DOMAIN c.certs : c.certs[h] = "out"
ASSUME BudgetsTyped ==
    Budgets \subseteq [fail : Nat, crash : Nat, hup : Nat, cli : Nat, files : SUBSET CertFiles]
ASSUME DownIsNone == \A c, p \in Loads : Down \notin {c, Reloaded(c, p)}
\* What a handshake is about to present: the primary, or <<h>>, the entry of a host.
Primary == <<>>

ASSUME NoNameIsNone ==
    NoName \notin [sans : SanSets, rem : 0..Life] \cup {"right", "wrong", Primary} \cup (0..Life)

VARIABLES
    proc,       \* the configuration the process runs, or Down
    acmeCfg,    \* AcmeState.cfg.domains
    primary,    \* the primary certificate: chain, key and the two expiry times
    extra,      \* the bring-your-own certificates, by host
    disk,       \* per directory: fullchain.pem, privkey.pem, metadata.json, and
                \* the task under way whose chain is there (history)
    task,       \* the issuances under way
    planted,    \* tasks whose challenge records or files are still published
    hs,         \* a handshake between its expiry check and its certificate
    leaked,     \* history: tasks that gave up without cleaning up
    torn,       \* history: a pair was cut, overlapped or read halfway
    budget      \* the bounds of this behaviour, what is used up taken off

certVars == <<proc, acmeCfg, primary, extra, disk, task, planted, hs, leaked, torn, budget>>

\* main() before the accept loop, renewal_loop, the task SIGHUP spawns, and the
\* "cert issue" command, which is a process of its own.
Tasks == {"boot", "renew", "hup", "cli"}
Dirs  == {"acme", "out"}
Dir(t) == IF t = "cli" THEN "out" ELSE "acme"

IdleTask == [pc |-> "idle", how |-> "dns", sans |-> {}, chain |-> NoName, key |-> NoName, na |-> 0]
NoPrimary == [chain |-> NoName, key |-> NoName, na |-> 0, tlsNa |-> 0]

Serving == proc # Down /\ task["boot"].pc = "idle"
Idle(t) == task[t].pc = "idle"

(* ---- acme.rs and tls.rs: decisions ---- *)

\* Both PEM files parse; that they belong together is not checked.
Loadable(d) == disk[d].chain # NoName /\ disk[d].key # NoName

load_cached == Loadable("acme") /\ disk["acme"].meta # NoName

cert_covers_domains(chain, sans) == sans \subseteq chain.sans

\* Mutant: a cached certificate is good until it is due, whatever it names.
ShouldIssueWhenDue(sans) == ~load_cached \/ disk["acme"].meta <= RenewBefore

should_issue(sans) ==
    \/ ~load_cached
    \/ disk["acme"].meta <= RenewBefore
    \/ ~cert_covers_domains(disk["acme"].chain, sans)

should_renew == primary.tlsNa < RenewBefore

should_refuse_handshake(na) == na < FailWithin

\* The map SIGHUP and startup install; an unreadable pair is skipped.
build_extra_cert_map(certs) ==
    [h \in {x \in DOMAIN certs : Loadable(certs[x])} |->
        [chain |-> disk[certs[h]].chain, key |-> disk[certs[h]].key]]

select_extra(sni) == sni \in DOMAIN extra /\ ~should_refuse_handshake(extra[sni].chain.rem)

(* ---- key pairs ---- *)

\* Every issuance generates its own key, so a key beside the chain of another
\* issuance is the wrong one.
Right == "right"
Wrong == "wrong"

Matches(x) == x.key # Wrong

\* A writer has replaced the chain of d and not yet its key.
HalfWritten(d) == \E t \in Tasks : Dir(t) = d /\ task[t].pc = "key"

(* ---- issuance ---- *)

Goto(t, pc) == task' = [task EXCEPT ![t].pc = pc]
Holds(t, pc, chain, key, na) ==
    task' = [task EXCEPT ![t] = [pc |-> pc, how |-> @.how, sans |-> @.sans, chain |-> chain, key |-> key, na |-> na]]

\* Err(_): the task ends; an error before the accept loop ends the process.
Fail(t) == /\ task' = [task EXCEPT ![t] = IdleTask]
           /\ proc' = IF t = "boot" THEN Down ELSE proc

\* load_or_issue up to its decision.
LoadOrIssue(t) ==
    /\ task[t].pc = "load"
    /\ IF should_issue(task[t].sans) THEN Goto(t, "order") /\ UNCHANGED torn
       ELSE /\ Holds(t, "swap", disk["acme"].chain, disk["acme"].key, disk["acme"].meta)
            /\ torn' = (torn \/ HalfWritten("acme"))
    /\ UNCHANGED <<proc, acmeCfg, primary, extra, disk, planted, hs, leaked>>

\* Account, order and challenges: TXT records through Cloudflare, files the
\* running gateway serves, or records the operator publishes by hand, which the
\* code never removes.
issue(t)        == task[t].how = "dns"    /\ planted' = planted \cup {t}
issue_http01(t) == task[t].how = "http01" /\ planted' = planted \cup {t}
issue_manual(t) == task[t].how = "manual" /\ UNCHANGED planted

PlaceOrder(t) ==
    /\ task[t].pc = "order"
    /\ issue(t) \/ issue_http01(t) \/ issue_manual(t)
    /\ Goto(t, "await")
    /\ UNCHANGED <<proc, acmeCfg, primary, extra, disk, hs, leaked, torn>>

\* One of these calls fails and ? returns at once, with some records created.
OrderFails(t) ==
    /\ task[t].pc = "order"
    /\ Fail(t)
    /\ \E some \in SUBSET ({t} \ {u \in {t} : task[t].how = "manual"}) :
          planted' = planted \cup some /\ leaked' = leaked \cup some
    /\ UNCHANGED <<acmeCfg, primary, extra, disk, hs, torn>>

\* cleanup_records and remove_file: a failed deletion is only logged, and what
\* an earlier order left behind stays.
cleanup_records(t) ==
    \/ planted' = planted \ ({t} \ leaked) /\ UNCHANGED leaked
    \/ t \in planted /\ UNCHANGED planted /\ leaked' = leaked \cup {t}

\* The order becomes ready, the CSR is finalized and the chain arrives.  HTTP-01
\* is answered by the running gateway.
Issued(t) ==
    /\ task[t].pc = "await"
    /\ task[t].how = "http01" => Serving
    /\ Holds(t, "chain", [sans |-> task[t].sans, rem |-> Life], Right, Life)
    /\ cleanup_records(t)
    /\ UNCHANGED <<proc, acmeCfg, primary, extra, disk, hs, torn>>

\* The order turns invalid or a deadline passes.
OrderRefused(t) ==
    /\ task[t].pc = "await"
    /\ Fail(t)
    /\ cleanup_records(t)
    /\ UNCHANGED <<acmeCfg, primary, extra, disk, hs, torn>>

\* A request to the CA fails and ? returns before the cleanup.
PollFails(t) ==
    /\ task[t].pc = "await"
    /\ Fail(t)
    /\ leaked' = leaked \cup (planted \cap {t})
    /\ UNCHANGED <<acmeCfg, primary, extra, disk, planted, hs, torn>>

\* finalize_issued_cert: three files, each replaced by a rename.
WriteChain(t) ==
    /\ task[t].pc = "chain"
    /\ disk' = [disk EXCEPT ![Dir(t)].chain = task[t].chain, ![Dir(t)].by = t,
                            ![Dir(t)].key = IF @ = NoName THEN NoName ELSE Wrong]
    /\ Goto(t, "key")
    /\ torn' = (torn \/ HalfWritten(Dir(t)))
    /\ UNCHANGED <<proc, acmeCfg, primary, extra, planted, hs, leaked>>

\* Mutant: a privkey.pem that is there is kept.
WriteKeyOnce(t) ==
    /\ task[t].pc = "key"
    /\ disk' = [disk EXCEPT ![Dir(t)].key = IF @ = NoName THEN Right ELSE @]
    /\ Goto(t, "meta")
    /\ UNCHANGED <<proc, acmeCfg, primary, extra, planted, hs, leaked, torn>>

WriteKey(t) ==
    /\ task[t].pc = "key"
    /\ disk' = [disk EXCEPT ![Dir(t)].key = IF disk[Dir(t)].by = t THEN Right ELSE Wrong]
    /\ Goto(t, "meta")
    /\ UNCHANGED <<proc, acmeCfg, primary, extra, planted, hs, leaked, torn>>

WriteMeta(t) ==
    /\ task[t].pc = "meta"
    /\ disk' = [disk EXCEPT ![Dir(t)].meta = task[t].na, ![Dir(t)].by = IF @ = t THEN NoName ELSE @]
    /\ task' = [task EXCEPT ![t] = IF t = "cli" THEN IdleTask ELSE [@ EXCEPT !.pc = "swap"]]
    /\ UNCHANGED <<proc, acmeCfg, primary, extra, planted, hs, leaked, torn>>

WriteFails(t) ==
    /\ task[t].pc \in {"chain", "key", "meta"}
    /\ Fail(t)
    /\ disk' = [disk EXCEPT ![Dir(t)].by = IF @ = t THEN NoName ELSE @]
    /\ torn' = (torn \/ task[t].pc = "key")
    /\ UNCHANGED <<acmeCfg, primary, extra, planted, hs, leaked>>

(* ---- installing a certificate ---- *)

\* TlsState::from_pem_bytes at startup; the listener opens afterwards.
InstallFirst ==
    /\ task["boot"].pc = "swap"
    /\ primary' = [chain |-> task["boot"].chain, key |-> task["boot"].key,
                   na |-> task["boot"].chain.rem, tlsNa |-> task["boot"].na]
    /\ extra' = build_extra_cert_map(proc.certs)
    /\ task' = [task EXCEPT !["boot"] = IdleTask]
    /\ torn' = (torn \/ (DOMAIN proc.certs # {} /\ HalfWritten("out")))
    /\ UNCHANGED <<proc, acmeCfg, disk, planted, hs, leaked>>

\* swap_primary stores the key, then the resolver's expiry; TlsState keeps its
\* own copy.  Two tasks may be here at once.
SwapKey(t) ==
    /\ t \in {"renew", "hup"} /\ task[t].pc = "swap"
    /\ primary' = [primary EXCEPT !.chain = task[t].chain, !.key = task[t].key]
    /\ Goto(t, "expiry")
    /\ torn' = (torn \/ \E u \in Tasks : task[u].pc = "expiry")
    /\ UNCHANGED <<proc, acmeCfg, extra, disk, planted, hs, leaked>>

SwapExpiry(t) ==
    /\ task[t].pc = "expiry"
    /\ primary' = [primary EXCEPT !.na = task[t].na]
    /\ Goto(t, "note")
    /\ UNCHANGED <<proc, acmeCfg, extra, disk, planted, hs, leaked, torn>>

NoteExpiry(t) ==
    /\ task[t].pc = "note"
    /\ primary' = [primary EXCEPT !.tlsNa = task[t].na]
    /\ task' = [task EXCEPT ![t] = IdleTask]
    /\ UNCHANGED <<proc, acmeCfg, extra, disk, planted, hs, leaked, torn>>

(* ---- the process ---- *)

NewTask(how, sans) == [pc |-> "load", how |-> how, sans |-> sans, chain |-> NoName, key |-> NoName, na |-> 0]

\* The static pair, read and ready to install.
StaticTask == [pc |-> "swap", how |-> "dns", sans |-> {}, chain |-> disk["out"].chain,
               key |-> disk["out"].key, na |-> disk["out"].chain.rem]

\* main() up to the certificate, with f the configuration it finds.  With ACME
\* the certificate is awaited; a static pair is read at once.
Boot(f) ==
    /\ proc = Down
    /\ LET c == load(f) IN
       /\ ~StartupRefused(c)
       /\ IF c.acme.enabled
          THEN /\ acmeCfg' = effective_acme_domains(c)
               /\ task' = [task EXCEPT !["boot"] = NewTask("dns", effective_acme_domains(c))]
               /\ UNCHANGED <<primary, extra, torn>>
          ELSE /\ Loadable("out")
               /\ primary' = [chain |-> disk["out"].chain, key |-> disk["out"].key,
                              na |-> disk["out"].chain.rem, tlsNa |-> disk["out"].chain.rem]
               /\ extra' = build_extra_cert_map(c.certs)
               /\ torn' = (torn \/ HalfWritten("out"))
               /\ UNCHANGED <<acmeCfg, task>>
       /\ proc' = c
    /\ UNCHANGED <<disk, planted, hs, leaked>>

\* Mutant: the renewal asks for the names the certificate has.
RenewSameNames ==
    /\ Serving /\ proc.acme.enabled /\ Idle("renew")
    /\ should_renew
    /\ task' = [task EXCEPT !["renew"] = NewTask("dns", primary.chain.sans)]
    /\ UNCHANGED <<proc, acmeCfg, primary, extra, disk, planted, hs, leaked, torn>>

\* renewal_loop wakes and finds the certificate due.
RenewTick ==
    /\ Serving /\ proc.acme.enabled /\ Idle("renew")
    /\ should_renew
    /\ task' = [task EXCEPT !["renew"] = NewTask("dns", acmeCfg)]
    /\ UNCHANGED <<proc, acmeCfg, primary, extra, disk, planted, hs, leaked, torn>>

\* The handler in the accept loop, with f the configuration on disk by now.
\* Listeners, the Sites resolver and whether ACME is on stay as they were at
\* startup (Reloaded); a configuration that does not load changes nothing.
\* Bound: one task spawned by SIGHUP at a time.
Sighup(f) ==
    /\ Serving /\ Idle("hup")
    /\ LET c    == IF proc.source = "toml" THEN load(f) ELSE load_from_env(f)
           sans == effective_acme_domains(c)
       IN  /\ c # Error
           /\ proc' = Reloaded(c, proc)
           /\ extra' = build_extra_cert_map(c.certs)
           /\ IF proc.acme.enabled
              THEN /\ acmeCfg' = IF sans = {} THEN acmeCfg ELSE sans
                   /\ task' = [task EXCEPT !["hup"] = IF sans = {} THEN @ ELSE NewTask("dns", sans)]
              ELSE /\ UNCHANGED acmeCfg
                   /\ task' = [task EXCEPT !["hup"] = IF ~Loadable("out") THEN @ ELSE StaticTask]
           /\ torn' = (torn \/ (HalfWritten("out") /\ (~proc.acme.enabled \/ DOMAIN c.certs # {})))
    /\ UNCHANGED <<primary, disk, planted, hs, leaked>>

\* The process ends at any point: SIGKILL, power, or SIGHUP before its handler
\* is registered.  Files and published records stay.
Crash ==
    /\ proc # Down
    /\ proc' = Down
    /\ task' = [t \in Tasks |-> IF t = "cli" THEN task[t] ELSE IdleTask]
    /\ leaked' = leaked \cup (planted \ {"cli"})
    /\ torn' = (torn \/ HalfWritten("acme"))
    /\ primary' = NoPrimary /\ extra' = <<>> /\ hs' = NoName /\ acmeCfg' = {}
    /\ disk' = [disk EXCEPT !["acme"].by = NoName]
    /\ UNCHANGED <<planted>>

\* run_cert_issue: HTTP-01 cannot prove a wildcard.
CertIssue(how, sans) ==
    /\ Idle("cli")
    /\ how = "http01" => \A s \in sans : ~s.wild
    /\ task' = [task EXCEPT !["cli"] = [NewTask(how, sans) EXCEPT !.pc = "order"]]
    /\ UNCHANGED <<proc, acmeCfg, primary, extra, disk, planted, hs, leaked, torn>>

(* ---- handshakes ---- *)

\* SniCertResolver::resolve: a bring-your-own entry holds its expiry and its
\* key together; the primary's expiry is read before its key.
ResolveSni(sni) ==
    /\ Serving /\ hs = NoName
    /\ \/ select_extra(sni) /\ hs' = <<sni>>
       \/ ~select_extra(sni) /\ ~should_refuse_handshake(primary.na) /\ hs' = Primary
    /\ UNCHANGED <<proc, acmeCfg, primary, extra, disk, task, planted, leaked, torn>>

PresentCert ==
    /\ hs # NoName
    /\ hs' = NoName
    /\ UNCHANGED <<proc, acmeCfg, primary, extra, disk, task, planted, leaked, torn>>

(* ---- time ---- *)

Less(n) == IF n = 0 THEN 0 ELSE n - 1
Age(x) == IF x.chain = NoName THEN x ELSE [x EXCEPT !.chain.rem = Less(@)]

\* Weeks pass: no issuance (minutes) and no handshake is under way.
Tick ==
    /\ \A t \in Tasks : Idle(t)
    /\ hs = NoName
    /\ disk' = [d \in Dirs |-> [Age(disk[d]) EXCEPT !.meta = IF @ = NoName THEN @ ELSE Less(@)]]
    /\ primary' = [chain |-> Age(primary).chain, key |-> primary.key,
                   na |-> Less(primary.na), tlsNa |-> Less(primary.tlsNa)]
    /\ extra' = [h \in DOMAIN extra |-> Age(extra[h])]
    /\ UNCHANGED <<proc, acmeCfg, task, planted, hs, leaked, torn>>

(* ---- specification ---- *)

CertInit ==
    /\ proc = Down /\ acmeCfg = {} /\ primary = NoPrimary /\ extra = <<>> /\ hs = NoName
    /\ disk = [d \in Dirs |-> [chain |-> NoName, key |-> NoName, meta |-> NoName, by |-> NoName]]
    /\ task = [t \in Tasks |-> IdleTask]
    /\ planted = {} /\ leaked = {} /\ torn = FALSE /\ budget \in Budgets

Fails(t) == OrderFails(t) \/ OrderRefused(t) \/ PollFails(t) \/ WriteFails(t)

Proceeds(t) == /\ \/ LoadOrIssue(t) \/ PlaceOrder(t) \/ Issued(t) \/ WriteChain(t) \/ WriteKey(t)
                  \/ WriteMeta(t) \/ SwapKey(t) \/ SwapExpiry(t) \/ NoteExpiry(t)
                  \/ t = "boot" /\ InstallFirst
               /\ UNCHANGED budget

Upset(kind) == budget[kind] > 0 /\ budget' = [budget EXCEPT ![kind] = @ - 1]

ByoHosts == UNION {{LowerName(c.host) : c \in Items(f.certs)} : f \in budget.files}

Quietly(A) == A /\ UNCHANGED budget

CertNext == \/ \E t \in Tasks : Proceeds(t)
            \/ \E f \in budget.files : Quietly(Boot(f))
            \/ Quietly(RenewTick) \/ Quietly(Tick) \/ Quietly(PresentCert)
            \/ \E h \in ByoHosts : Quietly(ResolveSni(h))
            \/ Upset("fail") /\ \E t \in Tasks : Fails(t)
            \/ Upset("crash") /\ Crash
            \/ Upset("hup") /\ \E f \in budget.files : Sighup(f)
            \/ Upset("cli") /\ \E how \in {"manual", "http01"}, names \in CliNames : CertIssue(how, names)

CertSpec == CertInit /\ [][CertNext]_certVars

(* ---- properties ---- *)

CertTypeOK ==
    /\ hs \in {NoName, Primary} \cup {<<h>> : h \in ByoHosts}
    /\ \A t \in Tasks : task[t].pc \in {"idle", "load", "order", "await", "chain", "key", "meta",
                                        "swap", "expiry", "note"}
    /\ planted \subseteq Tasks /\ leaked \subseteq Tasks /\ torn \in BOOLEAN
    /\ Serving => primary.chain # NoName /\ primary.key # NoName

\* Every chain stands beside the key it was issued for: on disk once its writer
\* is past privkey.pem, and in memory always.  Nothing checks this
\* (build_certified_key, tls.rs:227), so the order of the writes carries it,
\* until a write is cut, two writers overlap or a reader comes in between
\* (acme.rs:396).
PairsMatch ==
    ~torn => /\ \A d \in Dirs : Matches(disk[d]) \/ HalfWritten(d)
             /\ Matches(primary)
             /\ \A h \in DOMAIN extra : Matches(extra[h])

\* A handshake that passed the expiry check presents a certificate that is not
\* about to expire, whatever swap runs beside it (tls.rs:186, tls.rs:195),
\* unless two swaps overlapped.
NoExpiringCertPresented ==
    hs = Primary /\ ~torn => primary.chain.rem >= FailWithin

\* Challenge records and files outlive their order only when an error left
\* through ?, the process died or the deletion itself failed (acme.rs:731).
ChallengesCleaned ==
    planted \subseteq {t \in Tasks : task[t].pc = "await"} \cup leaked

\* The certificates on disk and in memory: well-formed, each chain with its key,
\* none presented when about to expire, and no challenge left behind
\* (finalize_issued_cert, swap_primary, cleanup_records).
CertSound == CertTypeOK /\ PairsMatch /\ NoExpiringCertPresented /\ ChallengesCleaned

\* A swap installs a certificate with every name the issuance was started for,
\* be it cached or new (acme.rs:182, main.rs:260).
SwapCoversSnapshot ==
    [][\A t \in Tasks : task[t].pc = "swap" /\ task'[t].pc = "expiry" /\ proc.acme.enabled
            => task[t].sans \subseteq primary'.chain.sans]_certVars

\* Once the failures and the operator's actions have ceased, a gateway with
\* ACME again and again presents a certificate with all the names of its
\* configuration, at the latest from the next renewal on: whatever snapshot
\* finished last and whatever the disk holds (main.rs:248).
NamesEventuallyCovered ==
    []<>(Serving /\ proc.acme.enabled =>
            /\ effective_acme_domains(proc) \subseteq primary.chain.sans
            /\ ~should_refuse_handshake(primary.na))
=============================================================================
