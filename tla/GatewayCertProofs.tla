------------------------- MODULE GatewayCertProofs -------------------------
(***************************************************************************)
(* CertSpec => []CertSound and SwapCoversSnapshot, for every set of files, *)
(* names and hosts, every life of a certificate and every budget of        *)
(* failures, crashes, reloads and commands.                                *)
(*                                                                         *)
(* CertSound speaks of what is presented.  What is presented comes from    *)
(* the primary, the primary from a task or a file, a file from a task: the *)
(* invariant says of each what it may hold at each step (StageInv, Held,   *)
(* DiskInv), that a key on its way goes with its chain unless two writers  *)
(* met in one directory (KeysInv), and that what is remembered of an       *)
(* expiry never exceeds the chain's (ExpiryInv, StaticInv).                *)
(***************************************************************************)
EXTENDS GatewayCert, TLAPS

\* What chains, keys, times and tasks, the files of a directory and the primary are.
Chains == [sans : SanSets, rem : 0..Life]
Keys   == {Right, Wrong}
Times  == 0..Life
Pcs    == {"idle", "load", "order", "await", "chain", "key", "meta", "swap", "expiry", "note"}

TaskRecs == [pc : Pcs, how : {"dns", "http01", "manual"}, sans : SanSets,
             chain : Chains \cup {NoName}, key : Keys \cup {NoName}, na : Times]
DiskRecs == [chain : Chains \cup {NoName}, key : Keys \cup {NoName},
             meta : Times \cup {NoName}, by : Tasks \cup {NoName}]
PrimRecs == [chain : Chains \cup {NoName}, key : Keys \cup {NoName}, na : Times, tlsNa : Times]

\* c has the settings the process was started with, those of p.
Settings(c, p) ==
    /\ c.source = p.source /\ c.tls = p.tls /\ c.static = p.static
    /\ c.sites = p.sites /\ c.acme.enabled = p.acme.enabled

\* A process keeps the settings it was started with; its hosts' own certificates
\* are read from their directories.
ProcShape ==
    proc # Down => /\ \E p \in Loads : Settings(proc, p)
                   /\ \A h \in DOMAIN proc.certs : proc.certs[h] = "out"

\* Every part of the state has its shape.
CertShapes ==
    /\ ProcShape
    /\ acmeCfg \in SanSets
    /\ task \in [Tasks -> TaskRecs] /\ disk \in [Dirs -> DiskRecs] /\ primary \in PrimRecs
    /\ \A h \in DOMAIN extra : extra[h] \in [chain : Chains, key : Keys]
    /\ planted \subseteq Tasks /\ leaked \subseteq Tasks /\ torn \in BOOLEAN
    /\ Serving => primary.chain \in Chains /\ primary.key \in Keys

\* Where a task may be, beside which process: the primary is replaced by the
\* tasks of a process that serves, and without ACME by SIGHUP alone.
WithAcme == proc # Down /\ proc.acme.enabled
NoAcmeOn == proc # Down /\ ~proc.acme.enabled
Stage(t) ==
    /\ t = "boot" => task[t].pc \notin {"expiry", "note"} /\ (task[t].pc # "idle" => proc # Down)
    /\ t = "cli" => task[t].pc \notin {"load", "swap", "expiry", "note"}
    /\ t \in {"renew", "hup"} /\ task[t].pc # "idle" => Serving
    /\ NoAcmeOn /\ t # "cli" =>
          task[t].pc = "idle" \/ (t = "hup" /\ task[t].pc \in {"swap", "expiry", "note"})

\* What a task has in hand: a new certificate and its key, or one to install.
Held(t) ==
    /\ task[t].pc \in {"chain", "key", "meta"} =>
          /\ task[t].chain = [sans |-> task[t].sans, rem |-> Life]
          /\ task[t].key = Right /\ task[t].na = Life
    /\ task[t].pc \in {"swap", "expiry", "note"} =>
          /\ task[t].chain \in Chains /\ task[t].key \in Keys
          /\ task[t].na <= task[t].chain.rem
          /\ WithAcme => /\ task[t].sans \subseteq task[t].chain.sans
                         /\ task[t].chain.rem >= FailWithin

\* Every task is where it may be and has what it needs there.
StageInv == /\ \A t \in Tasks : Stage(t) /\ Held(t)
            /\ hs # NoName => Serving

\* metadata.json never promises more than the chain beside it has.
DiskInv ==
    /\ \A d \in Dirs : disk[d].chain # NoName /\ disk[d].meta # NoName => disk[d].meta <= disk[d].chain.rem
    /\ \A t \in Tasks : task[t].pc \in {"key", "meta"} =>
          disk[Dir(t)].chain \in Chains /\ disk[Dir(t)].chain.rem = Life

\* Unless two writers met, a key goes with its chain, in every hand.
KeysInv ==
    /\ ~torn => /\ \A t \in Tasks : task[t].key # Wrong
                /\ \A t \in Tasks : task[t].pc = "key" => disk[Dir(t)].by = t
    /\ PairsMatch

\* Unless two writers met, the expiry that the renewal looks at is not later than
\* the primary's own.
ExpiryInv ==
    /\ ~torn /\ Serving =>
        /\ \A t \in Tasks : task[t].pc = "expiry" => primary.chain = task[t].chain
        /\ (\A t \in Tasks : task[t].pc # "expiry") => primary.na <= primary.chain.rem
        /\ primary.na >= FailWithin => primary.chain.rem >= FailWithin
    /\ NoExpiringCertPresented

\* Without ACME the primary is a chain of the directory, or an older one.
StaticInv ==
    NoAcmeOn =>
        /\ disk["out"].chain \in Chains
        /\ primary.chain.rem <= disk["out"].chain.rem
        /\ task["hup"].pc = "swap" => /\ primary.chain.rem <= task["hup"].chain.rem
                                      /\ task["hup"].chain.rem <= disk["out"].chain.rem

\* The inductive invariant, without and with the budget and the handshake.
CertState == CertShapes /\ StageInv /\ DiskInv /\ KeysInv /\ ExpiryInv /\ StaticInv /\ ChallengesCleaned

\* The budget, and the host whose handshake is under way.
HandshakeType ==
    /\ budget \in [fail : Nat, crash : Nat, hup : Nat, cli : Nat, files : SUBSET CertFiles]
    /\ hs \in {NoName, Primary} \cup {<<h>> : h \in ByoHosts}

\* The inductive invariant.
CertInv == CertState /\ HandshakeType

----------------------------------------------------------------------------
(* The configurations.                                                       *)

\* A reload changes the hosts' certificates and the ACME names only.
LEMMA ReloadedFacts ==
  ASSUME NEW c \in Loads, NEW p
  PROVE  Settings(Reloaded(c, p), p) /\ Reloaded(c, p).certs = c.certs
<1>1. c.acme = [enabled |-> c.acme.enabled, email |-> c.acme.email, token |-> c.acme.token,
                explicit |-> c.acme.explicit, domains |-> c.acme.domains]
  BY Zenon, LoadsTyped
<1>2. [c.acme EXCEPT !.enabled = p.acme.enabled].enabled = p.acme.enabled
  BY Zenon, <1>1
<1> QED
  BY <1>2, Zenon DEF Settings, Reloaded

----------------------------------------------------------------------------
(* One task moves.                                                           *)

\* Only the record of t changes, to r.
Becomes(t, r) == /\ task' \in [Tasks -> TaskRecs] /\ task'[t] = r
                 /\ \A u \in Tasks : u # t => task'[u] = task[u]

\* The fields of a task.
LEMMA TaskFields ==
  ASSUME CertShapes, NEW t \in Tasks
  PROVE  /\ task[t] \in TaskRecs
         /\ task[t] = [pc |-> task[t].pc, how |-> task[t].how, sans |-> task[t].sans,
                       chain |-> task[t].chain, key |-> task[t].key, na |-> task[t].na]
<1>1. task[t] \in TaskRecs
  BY Zenon DEF CertShapes
<1> QED
  BY Zenon, <1>1 DEF TaskRecs

\* A task that is replaced by r becomes r.
LEMMA Replaced ==
  ASSUME CertShapes, NEW t \in Tasks, NEW r \in TaskRecs, task' = [task EXCEPT ![t] = r]
  PROVE  Becomes(t, r)
BY Zenon DEF CertShapes, Becomes

\* A step of a task that changes its place only.
LEMMA Goes ==
  ASSUME CertShapes, NEW t \in Tasks, NEW pc \in Pcs, Goto(t, pc)
  PROVE  Becomes(t, [pc |-> pc, how |-> task[t].how, sans |-> task[t].sans,
                     chain |-> task[t].chain, key |-> task[t].key, na |-> task[t].na])
<1> DEFINE was == task[t]
           r == [pc |-> pc, how |-> was.how, sans |-> was.sans, chain |-> was.chain, key |-> was.key, na |-> was.na]
<1>1. was \in TaskRecs /\ was = [pc |-> was.pc, how |-> was.how, sans |-> was.sans, chain |-> was.chain,
                                 key |-> was.key, na |-> was.na]
  BY Zenon, TaskFields
<1>2. task' = [task EXCEPT ![t] = [was EXCEPT !.pc = pc]]
  BY Zenon DEF Goto
<1> HIDE DEF was
<1>3. [was EXCEPT !.pc = pc] = r
  BY <1>1
<1>4. r \in TaskRecs
  BY Zenon, <1>1 DEF TaskRecs
<1>5. Becomes(t, r)
  BY Zenon, <1>2, <1>3, <1>4, Replaced
<1> QED
  BY Zenon, <1>5 DEF was

\* A step of a task that takes a certificate in hand.
LEMMA Takes ==
  ASSUME CertShapes, NEW t \in Tasks, NEW pc \in Pcs, NEW chain \in Chains, NEW key \in Keys, NEW na \in Times,
         Holds(t, pc, chain, key, na)
  PROVE  Becomes(t, [pc |-> pc, how |-> task[t].how, sans |-> task[t].sans, chain |-> chain, key |-> key, na |-> na])
<1> DEFINE was == task[t]
           r == [pc |-> pc, how |-> was.how, sans |-> was.sans, chain |-> chain, key |-> key, na |-> na]
<1>1. was \in TaskRecs /\ was = [pc |-> was.pc, how |-> was.how, sans |-> was.sans, chain |-> was.chain,
                                 key |-> was.key, na |-> was.na]
  BY Zenon, TaskFields
<1>2. task' = [task EXCEPT ![t] = r]
  BY Zenon DEF Holds
<1>3. r \in TaskRecs
  BY Zenon, <1>1 DEF TaskRecs
<1> QED
  BY Zenon, <1>2, <1>3, Replaced

\* None of an Option is nothing else.
LEMMA NoneIsNone == NoName # Wrong /\ NoName # Primary /\ \A c \in Chains \cup Keys \cup Times : c # NoName
BY Zenon, NoNameIsNone DEF Wrong, Right, Chains, Keys, Times

\* What is left of a chain's life.
LEMMA ChainRem ==
  ASSUME NEW chain \in Chains
  PROVE  chain.rem \in Nat /\ chain.rem <= Life /\ chain.rem \in Times
BY CertTimes DEF Chains, Times

\* No task at all is a task.
LEMMA IdleIsTask == IdleTask \in TaskRecs /\ IdleTask.pc = "idle" /\ IdleTask.key # Wrong
BY CertTimes, NoNameIsNone DEF IdleTask, TaskRecs, Pcs, SanSets, Times, Wrong

\* A new task.
LEMMA NewIsTask ==
  ASSUME NEW how \in {"dns", "http01", "manual"}, NEW sans \in SanSets
  PROVE  /\ NewTask(how, sans) = [pc |-> "load", how |-> how, sans |-> sans, chain |-> NoName, key |-> NoName, na |-> 0]
         /\ [NewTask(how, sans) EXCEPT !.pc = "order"]
               = [pc |-> "order", how |-> how, sans |-> sans, chain |-> NoName, key |-> NoName, na |-> 0]
         /\ NewTask(how, sans) \in TaskRecs /\ [NewTask(how, sans) EXCEPT !.pc = "order"] \in TaskRecs
<1>1. NewTask(how, sans) = [pc |-> "load", how |-> how, sans |-> sans, chain |-> NoName, key |-> NoName, na |-> 0]
  BY Zenon DEF NewTask
<1>2. [NewTask(how, sans) EXCEPT !.pc = "order"]
        = [pc |-> "order", how |-> how, sans |-> sans, chain |-> NoName, key |-> NoName, na |-> 0]
  BY <1>1
<1> QED
  BY <1>1, <1>2, CertTimes DEF TaskRecs, Pcs, Times

----------------------------------------------------------------------------
(* What a step of one task leaves as it was.                                 *)

\* The process goes on, or its start fails, with ACME on or off as before.
SameProcess(t) ==
    /\ Serving' <=> Serving
    /\ proc' # Down => proc # Down /\ proc'.acme.enabled = proc.acme.enabled
    /\ t # "boot" /\ proc # Down => proc' # Down

\* The other tasks stay where they are and have what they had.
LEMMA StageStep ==
  ASSUME CertState, NEW t \in Tasks, NEW r, Becomes(t, r), SameProcess(t), hs' = hs,
         Stage(t)', Held(t)'
  PROVE  StageInv'
<1>1. ASSUME NEW u \in Tasks, u # t
      PROVE  Stage(u)' /\ Held(u)'
  <2>1. Stage(u) /\ Held(u) /\ task'[u] = task[u]
    BY Zenon, <1>1 DEF CertState, StageInv, Becomes
  <2>2. Stage(u)'
    BY Zenon, <1>1, <2>1 DEF Stage, SameProcess, NoAcmeOn
  <2>3. Held(u)'
    BY Zenon, <2>1 DEF Held, SameProcess, WithAcme
  <2> QED
    BY Zenon, <2>2, <2>3
<1>2. hs' # NoName => Serving'
  BY Zenon DEF CertState, StageInv, SameProcess
<1> QED
  BY Zenon, <1>1, <1>2 DEF StageInv

\* The files stay good when neither they nor the writers' places change.
LEMMA DiskStep ==
  ASSUME CertState, NEW t \in Tasks, NEW r, Becomes(t, r), disk' = disk,
         r.pc \in {"key", "meta"} => task[t].pc \in {"key", "meta"}
  PROVE  DiskInv'
BY Zenon DEF CertState, DiskInv, Becomes

\* No pair is touched and no half-written one begun or completed.
LEMMA KeysStep ==
  ASSUME CertState, NEW t \in Tasks, NEW r, Becomes(t, r), torn => torn', disk' = disk,
         ~torn' => \A h \in DOMAIN extra' : Matches(extra'[h]), primary'.key = primary.key,
         task[t].pc # "key", r.pc # "key", ~torn' => r.key # Wrong
  PROVE  KeysInv'
<1>1. \A d \in Dirs : HalfWritten(d)' <=> HalfWritten(d)
  BY Zenon DEF HalfWritten, Becomes
<1>2. PairsMatch'
  BY Zenon, <1>1 DEF CertState, KeysInv, PairsMatch, Matches
<1> QED
  BY Zenon, <1>2 DEF CertState, KeysInv, Becomes

\* The primary certificate and its expiry stay, and so does who replaces it.
LEMMA ExpiryStep ==
  ASSUME CertState, NEW t \in Tasks, NEW r, Becomes(t, r), SameProcess(t), torn => torn', hs' = hs,
         primary'.chain = primary.chain, primary'.na = primary.na, task[t].pc # "expiry", r.pc # "expiry"
  PROVE  ExpiryInv'
<1>1. \A u \in Tasks : (task'[u].pc = "expiry" <=> task[u].pc = "expiry")
                       /\ (task[u].pc = "expiry" => task'[u] = task[u])
  BY Zenon DEF Becomes
<1>2. NoExpiringCertPresented'
  BY Zenon DEF CertState, ExpiryInv, NoExpiringCertPresented
<1> QED
  BY Zenon, <1>1, <1>2 DEF CertState, ExpiryInv, SameProcess

\* So does the primary without ACME.
LEMMA StaticStep ==
  ASSUME CertState, NEW t \in Tasks, NEW r, Becomes(t, r), SameProcess(t), disk' = disk,
         primary'.chain = primary.chain,
         t = "hup" /\ NoAcmeOn /\ r.pc = "swap" => /\ primary.chain.rem <= r.chain.rem
                                                   /\ r.chain.rem <= disk["out"].chain.rem
  PROVE  StaticInv'
<1>1. NoAcmeOn' => NoAcmeOn
  BY Zenon DEF NoAcmeOn, SameProcess
<1>2. "hup" \in Tasks
  BY Zenon DEF Tasks
<1> QED
  BY Zenon, <1>1, <1>2 DEF CertState, StaticInv, Becomes

\* Only t publishes challenges or takes its own back.
LEMMA ChallengeStep ==
  ASSUME CertState, NEW t \in Tasks, NEW r, Becomes(t, r),
         planted' \subseteq planted \cup {t}, leaked \subseteq leaked',
         t \in planted' => r.pc = "await" \/ t \in leaked'
  PROVE  ChallengesCleaned'
<1>1. ASSUME NEW u \in planted'
      PROVE  u \in {v \in Tasks : task'[v].pc = "await"} \cup leaked'
  <2>1. CASE u = t
    BY Zenon, <1>1, <2>1 DEF Becomes
  <2>2. CASE u # t
    <3>1. u \in planted /\ u \in Tasks
      BY Zenon, <1>1, <2>2 DEF CertState, CertShapes
    <3> QED
      BY Zenon, <2>2, <3>1 DEF CertState, ChallengesCleaned, Becomes
  <2> QED
    BY Zenon, <2>1, <2>2
<1> QED
  BY Zenon, <1>1 DEF ChallengesCleaned

\* A step of one task that touches no certificate on disk or in memory.
LEMMA AsideStep ==
  ASSUME CertState, NEW t \in Tasks, NEW r, Becomes(t, r), SameProcess(t),
         UNCHANGED <<disk, primary, extra, hs>>, ProcShape', acmeCfg' \in SanSets,
         torn' \in BOOLEAN, torn => torn', Stage(t)', Held(t)',
         task[t].pc \notin {"key", "expiry"}, r.pc \notin {"key", "meta", "expiry"},
         NoAcmeOn => r.pc # "swap", ~torn' => r.key # Wrong,
         planted' \subseteq planted \cup {t}, leaked \subseteq leaked', leaked' \subseteq leaked \cup {t},
         t \in planted' => r.pc = "await" \/ t \in leaked'
  PROVE  CertState'
<1>1. CertShapes'
  BY Zenon DEF CertState, CertShapes, Becomes, SameProcess
<1>2. StageInv'
  BY Zenon, StageStep
<1>3. DiskInv'
  BY Zenon, DiskStep
<1>4. KeysInv'
  <2>1. ~torn' => \A h \in DOMAIN extra' : Matches(extra'[h])
    BY Zenon DEF CertState, KeysInv, PairsMatch
  <2> QED
    BY Zenon, <2>1, KeysStep
<1>5. ExpiryInv'
  BY Zenon, ExpiryStep
<1>6. StaticInv'
  BY Zenon, StaticStep
<1>7. ChallengesCleaned'
  BY Zenon, ChallengeStep
<1> QED
  BY Zenon, <1>1, <1>2, <1>3, <1>4, <1>5, <1>6, <1>7 DEF CertState

----------------------------------------------------------------------------
(* Issuance up to the three files.                                           *)

\* A process that did not change is the same, once the boot task is as idle as before.
LEMMA SameHere ==
  ASSUME NEW t \in Tasks, NEW r, Becomes(t, r), proc' = proc, t = "boot" => (r.pc = "idle" <=> task[t].pc = "idle")
  PROVE  SameProcess(t) /\ (CertState => ProcShape')
<1>1. "boot" \in Tasks
  BY Zenon DEF Tasks
<1>2. task'["boot"].pc = "idle" <=> task["boot"].pc = "idle"
  BY Zenon, <1>1 DEF Becomes
<1> QED
  BY Zenon, <1>2 DEF SameProcess, Serving, CertState, CertShapes, ProcShape

\* What the disk offers as a cached certificate.
LEMMA CachedIsGood ==
  ASSUME CertState, NEW sans, ~should_issue(sans)
  PROVE  /\ disk["acme"].chain \in Chains /\ disk["acme"].key \in Keys /\ disk["acme"].meta \in Times
         /\ sans \subseteq disk["acme"].chain.sans /\ disk["acme"].meta <= disk["acme"].chain.rem
         /\ disk["acme"].chain.rem >= FailWithin
<1>1. "acme" \in Dirs /\ disk["acme"] \in DiskRecs
  BY Zenon DEF CertState, CertShapes, Dirs
<1>2. /\ disk["acme"].chain \in Chains /\ disk["acme"].key \in Keys /\ disk["acme"].meta \in Times
      /\ disk["acme"].chain # NoName /\ disk["acme"].meta # NoName
  BY Zenon, <1>1 DEF should_issue, load_cached, Loadable, DiskRecs
<1>3. disk["acme"].meta <= disk["acme"].chain.rem
  BY Zenon, <1>1, <1>2 DEF CertState, DiskInv
<1>4. /\ sans \subseteq disk["acme"].chain.sans /\ ~(disk["acme"].meta <= RenewBefore)
  BY Zenon DEF should_issue, cert_covers_domains
<1>5. disk["acme"].chain.rem \in Nat /\ disk["acme"].meta \in Nat
  BY <1>2, CertTimes DEF Chains, Times
<1>6. disk["acme"].chain.rem >= FailWithin
  BY <1>3, <1>4, <1>5, CertTimes
<1> QED
  BY Zenon, <1>2, <1>3, <1>4, <1>6

\* load_or_issue keeps the invariant.
LEMMA LoadStep ==
  ASSUME CertState, NEW t \in Tasks, LoadOrIssue(t)
  PROVE  CertState'
<1>1. /\ CertShapes /\ Stage(t) /\ Held(t) /\ task[t].pc = "load"
      /\ UNCHANGED <<proc, acmeCfg, primary, extra, disk, planted, hs, leaked>>
      /\ acmeCfg' \in SanSets /\ torn' \in BOOLEAN /\ (torn => torn')
      /\ (t \in planted => t \in leaked)
  BY Zenon DEF LoadOrIssue, CertState, StageInv, CertShapes, ChallengesCleaned
<1>2. ~NoAcmeOn
  BY Zenon, <1>1 DEF Stage
<1>3. CASE Goto(t, "order") /\ UNCHANGED torn
  <2> DEFINE r == [pc |-> "order", how |-> task[t].how, sans |-> task[t].sans,
                   chain |-> task[t].chain, key |-> task[t].key, na |-> task[t].na]
  <2>1. Becomes(t, r) /\ r.pc = "order" /\ r.key = task[t].key
    BY <1>1, <1>3, Goes, Zenon DEF Pcs
  <2> HIDE DEF r
  <2>2. SameProcess(t) /\ ProcShape'
    BY Zenon, <1>1, <2>1, SameHere
  <2>3. Stage(t)' /\ Held(t)'
    BY Zenon, <1>1, <1>2, <2>1, <2>2 DEF Stage, Held, Becomes, SameProcess, NoAcmeOn
  <2>4. ~torn' => r.key # Wrong
    BY Zenon, <1>3, <2>1 DEF CertState, KeysInv
  <2> QED
    BY Zenon, <1>1, <2>1, <2>2, <2>3, <2>4, AsideStep
<1>4. CASE /\ ~should_issue(task[t].sans)
           /\ Holds(t, "swap", disk["acme"].chain, disk["acme"].key, disk["acme"].meta)
           /\ torn' = (torn \/ HalfWritten("acme"))
  <2> DEFINE x == disk["acme"]
             r == [pc |-> "swap", how |-> task[t].how, sans |-> task[t].sans,
                   chain |-> x.chain, key |-> x.key, na |-> x.meta]
  <2>1. /\ x.chain \in Chains /\ x.key \in Keys /\ x.meta \in Times
        /\ task[t].sans \subseteq x.chain.sans /\ x.meta <= x.chain.rem /\ x.chain.rem >= FailWithin
    BY Zenon, <1>4, CachedIsGood
  <2>2. Becomes(t, r)
    BY <1>1, <1>4, <2>1, Takes, Zenon DEF Pcs
  <2>3. /\ r.pc = "swap" /\ r.sans = task[t].sans /\ r.chain = x.chain /\ r.key = x.key /\ r.na = x.meta
    BY Zenon
  <2>4. ~torn' => x.key # Wrong
    <3>1. "acme" \in Dirs
      BY Zenon DEF Dirs
    <3> QED
      BY <1>4, <3>1, Zenon DEF CertState, KeysInv, PairsMatch, Matches
  <2> HIDE DEF r, x
  <2>5. SameProcess(t) /\ ProcShape'
    BY Zenon, <1>1, <2>2, <2>3, SameHere
  <2>6. Stage(t)' /\ Held(t)'
    BY Zenon, <1>1, <1>2, <2>1, <2>2, <2>3, <2>5 DEF Stage, Held, Becomes, SameProcess, NoAcmeOn
  <2> QED
    BY Zenon, <1>1, <1>2, <2>2, <2>3, <2>4, <2>5, <2>6, AsideStep
<1> QED
  BY Zenon, <1>3, <1>4 DEF LoadOrIssue

\* The order is placed and its challenges are published.
LEMMA PlaceStep ==
  ASSUME CertState, NEW t \in Tasks, PlaceOrder(t)
  PROVE  CertState'
<1>1. /\ CertShapes /\ Stage(t) /\ Held(t) /\ task[t].pc = "order" /\ Goto(t, "await")
      /\ UNCHANGED <<proc, acmeCfg, primary, extra, disk, hs, leaked, torn>>
      /\ acmeCfg' \in SanSets /\ torn' \in BOOLEAN
      /\ planted' \subseteq planted \cup {t}
  BY Zenon DEF PlaceOrder, CertState, StageInv, CertShapes, issue, issue_http01, issue_manual
<1> DEFINE r == [pc |-> "await", how |-> task[t].how, sans |-> task[t].sans,
                 chain |-> task[t].chain, key |-> task[t].key, na |-> task[t].na]
<1>2. Becomes(t, r) /\ r.pc = "await" /\ r.key = task[t].key
  BY <1>1, Goes, Zenon DEF Pcs
<1> HIDE DEF r
<1>3. SameProcess(t) /\ ProcShape'
  BY Zenon, <1>1, <1>2, SameHere
<1>4. Stage(t)' /\ Held(t)'
  BY Zenon, <1>1, <1>2, <1>3 DEF Stage, Held, Becomes, SameProcess, NoAcmeOn
<1>5. ~torn' => r.key # Wrong
  BY <1>1, <1>2, Zenon DEF CertState, KeysInv
<1> QED
  BY Zenon, <1>1, <1>2, <1>3, <1>4, <1>5, AsideStep

\* After the cleanup no challenge of t is left, or it is known to be.
LEMMA CleanupFacts ==
  ASSUME NEW t \in Tasks, cleanup_records(t)
  PROVE  /\ planted' \subseteq planted /\ leaked \subseteq leaked' /\ leaked' \subseteq leaked \cup {t}
         /\ t \in planted' => t \in leaked'
BY Zenon DEF cleanup_records

\* The chain arrives.
LEMMA IssuedStep ==
  ASSUME CertState, NEW t \in Tasks, Issued(t)
  PROVE  CertState'
<1> DEFINE chain == [sans |-> task[t].sans, rem |-> Life]
           r == [pc |-> "chain", how |-> task[t].how, sans |-> task[t].sans,
                 chain |-> chain, key |-> Right, na |-> Life]
<1>1. /\ CertShapes /\ Stage(t) /\ task[t].pc = "await" /\ Holds(t, "chain", chain, Right, Life)
      /\ cleanup_records(t) /\ UNCHANGED <<proc, acmeCfg, primary, extra, disk, hs, torn>>
      /\ acmeCfg' \in SanSets /\ torn' \in BOOLEAN
  BY Zenon DEF Issued, CertState, StageInv, CertShapes
<1>2. chain \in Chains /\ Right \in Keys /\ Life \in Times
  <2>1. task[t].sans \in SanSets
    BY <1>1, TaskFields, Zenon DEF TaskRecs
  <2> QED
    BY <2>1, CertTimes DEF Chains, Keys, Times
<1>3. Becomes(t, r)
  BY Zenon, <1>1, <1>2, Takes DEF Pcs
<1>4. /\ r.pc = "chain" /\ r.chain = [sans |-> r.sans, rem |-> Life] /\ r.key = Right /\ r.na = Life /\ Right # Wrong
  BY Zenon DEF Right, Wrong
<1> HIDE DEF r
<1>5. SameProcess(t) /\ ProcShape'
  BY Zenon, <1>1, <1>3, <1>4, SameHere
<1>6. Stage(t)'
  BY Zenon, <1>1, <1>3, <1>4, <1>5 DEF Stage, Becomes, SameProcess, NoAcmeOn
<1>7. Held(t)'
  BY Zenon, <1>3, <1>4 DEF Held, Becomes
<1> QED
  BY Zenon, <1>1, <1>3, <1>4, <1>5, <1>6, <1>7, CleanupFacts, AsideStep

\* A task that ends, with its process if it was the one that starts it.
LEMMA FailsHere ==
  ASSUME CertState, NEW t \in Tasks, Fail(t), task[t].pc # "idle"
  PROVE  /\ Becomes(t, IdleTask) /\ SameProcess(t) /\ ProcShape'
         /\ hs' = hs => Stage(t)' /\ Held(t)'
<1>1. Becomes(t, IdleTask) /\ IdleTask.pc = "idle" /\ task' = [task EXCEPT ![t] = IdleTask]
  BY IdleIsTask, Replaced, Zenon DEF CertState, Fail
<1>2. CASE t # "boot"
  <2>1. proc' = proc
    BY Zenon, <1>2 DEF Fail
  <2>2. SameProcess(t) /\ ProcShape'
    BY Zenon, <1>1, <1>2, <2>1, SameHere
  <2> QED
    BY Zenon, <1>1, <1>2, <2>2 DEF Stage, Held, Becomes
<1>3. CASE t = "boot"
  <2>1. proc' = Down
    BY Zenon, <1>3 DEF Fail
  <2>2. ~Serving /\ ~Serving'
    BY Zenon, <1>3, <2>1 DEF Serving
  <2>3. SameProcess(t) /\ ProcShape'
    BY Zenon, <1>3, <2>1, <2>2 DEF SameProcess, ProcShape
  <2> QED
    BY Zenon, <1>1, <1>3, <2>1, <2>3 DEF Stage, Held, Becomes, NoAcmeOn
<1> QED
  BY Zenon, <1>2, <1>3

\* An order that fails, is refused or cannot be polled.
LEMMA OrderEnds ==
  ASSUME CertState, NEW t \in Tasks, OrderFails(t) \/ OrderRefused(t) \/ PollFails(t)
  PROVE  CertState'
<1>1. /\ Fail(t) /\ task[t].pc \in {"order", "await"} /\ UNCHANGED <<acmeCfg, primary, extra, disk, hs, torn>>
      /\ acmeCfg' \in SanSets /\ torn' \in BOOLEAN
  BY Zenon DEF OrderFails, OrderRefused, PollFails, CertState, CertShapes
<1>2. /\ planted' \subseteq planted \cup {t} /\ leaked \subseteq leaked' /\ leaked' \subseteq leaked \cup {t}
      /\ t \in planted' => t \in leaked'
  <2>1. CASE OrderFails(t)
    <3>1. PICK some \in SUBSET {t} : planted' = planted \cup some /\ leaked' = leaked \cup some
      BY Zenon, <2>1 DEF OrderFails
    <3>2. t \in planted => t \in leaked
      BY Zenon, <2>1 DEF OrderFails, CertState, ChallengesCleaned
    <3> QED
      BY Zenon, <3>1, <3>2
  <2>2. CASE OrderRefused(t)
    BY Zenon, <2>2, CleanupFacts DEF OrderRefused
  <2>3. CASE PollFails(t)
    BY Zenon, <2>3 DEF PollFails
  <2> QED
    BY Zenon, <2>1, <2>2, <2>3
<1>3. /\ Becomes(t, IdleTask) /\ SameProcess(t) /\ ProcShape' /\ Stage(t)' /\ Held(t)'
      /\ IdleTask.pc = "idle" /\ IdleTask.key # Wrong
  BY Zenon, <1>1, FailsHere, IdleIsTask
<1> QED
  BY Zenon, <1>1, <1>2, <1>3, AsideStep

\* renewal_loop starts an issuance.
LEMMA RenewStep ==
  ASSUME CertState, RenewTick
  PROVE  CertState'
<1> DEFINE r == NewTask("dns", acmeCfg)
<1>1. /\ CertShapes /\ Serving /\ WithAcme /\ task["renew"].pc = "idle" /\ acmeCfg \in SanSets
      /\ task' = [task EXCEPT !["renew"] = r] /\ "renew" \in Tasks
      /\ UNCHANGED <<proc, acmeCfg, primary, extra, disk, planted, hs, leaked, torn>>
      /\ torn' \in BOOLEAN /\ ("renew" \in planted => "renew" \in leaked)
  BY Zenon DEF RenewTick, CertState, CertShapes, ChallengesCleaned, Serving, WithAcme, Idle, Tasks
<1>2. /\ r \in TaskRecs /\ r.pc = "load" /\ r.key = NoName /\ NoName # Wrong
  <2>1. "dns" \in {"dns", "http01", "manual"}
    BY Zenon
  <2>2. r \in TaskRecs /\ r = [pc |-> "load", how |-> "dns", sans |-> acmeCfg, chain |-> NoName, key |-> NoName, na |-> 0]
    BY Zenon, <1>1, <2>1, NewIsTask
  <2> HIDE DEF r
  <2> QED
    BY Zenon, <2>2, NoneIsNone
<1> HIDE DEF r
<1>3. Becomes("renew", r)
  BY Zenon, <1>1, <1>2, Replaced
<1>4. SameProcess("renew") /\ ProcShape'
  BY Zenon, <1>1, <1>3, SameHere
<1>5. Stage("renew")' /\ Held("renew")'
  BY Zenon, <1>1, <1>2, <1>3, <1>4 DEF Stage, Held, Becomes, SameProcess, NoAcmeOn, WithAcme
<1> QED
  BY Zenon, <1>1, <1>2, <1>3, <1>4, <1>5, AsideStep

\* "cert issue" starts one.
LEMMA CliStep ==
  ASSUME CertState, NEW how \in {"manual", "http01"}, NEW names \in CliNames, CertIssue(how, names)
  PROVE  CertState'
<1> DEFINE r == [NewTask(how, names) EXCEPT !.pc = "order"]
<1>1. /\ CertShapes /\ task["cli"].pc = "idle" /\ names \in SanSets
      /\ task' = [task EXCEPT !["cli"] = r] /\ "cli" \in Tasks
      /\ UNCHANGED <<proc, acmeCfg, primary, extra, disk, planted, hs, leaked, torn>>
      /\ acmeCfg' \in SanSets /\ torn' \in BOOLEAN /\ ("cli" \in planted => "cli" \in leaked)
  BY Zenon DEF CertIssue, CertState, CertShapes, ChallengesCleaned, Idle, Tasks, SanSets
<1>2. /\ r \in TaskRecs /\ r.pc = "order" /\ r.key = NoName /\ NoName # Wrong
  <2>1. how \in {"dns", "http01", "manual"}
    BY Zenon
  <2>2. r \in TaskRecs /\ r = [pc |-> "order", how |-> how, sans |-> names, chain |-> NoName, key |-> NoName, na |-> 0]
    BY Zenon, <1>1, <2>1, NewIsTask
  <2> HIDE DEF r
  <2> QED
    BY Zenon, <2>2, NoneIsNone
<1> HIDE DEF r
<1>3. Becomes("cli", r)
  BY Zenon, <1>1, <1>2, Replaced
<1>4. SameProcess("cli") /\ ProcShape'
  BY Zenon, <1>1, <1>3, SameHere
<1>5. Stage("cli")' /\ Held("cli")'
  BY Zenon, <1>1, <1>2, <1>3 DEF Stage, Held, Becomes
<1> QED
  BY Zenon, <1>1, <1>2, <1>3, <1>4, <1>5, AsideStep

----------------------------------------------------------------------------
(* finalize_issued_cert: three files.                                        *)

\* The fields of a directory.
LEMMA DiskFields ==
  ASSUME CertShapes, NEW d \in Dirs
  PROVE  /\ disk[d] \in DiskRecs
         /\ disk[d] = [chain |-> disk[d].chain, key |-> disk[d].key, meta |-> disk[d].meta, by |-> disk[d].by]
<1>1. disk[d] \in DiskRecs
  BY Zenon DEF CertShapes
<1> QED
  BY Zenon, <1>1 DEF DiskRecs

\* Only the files of d change, to x.
Stores(d, x) == /\ disk' \in [Dirs -> DiskRecs] /\ disk'[d] = x
                /\ \A e \in Dirs : e # d => disk'[e] = disk[e]

\* A file is written into one directory.
LEMMA StoresIn ==
  ASSUME CertShapes, NEW d \in Dirs, NEW x \in DiskRecs, disk'[d] = x,
         disk' = [e \in Dirs |-> disk'[e]], \A e \in Dirs : e # d => disk'[e] = disk[e]
  PROVE  Stores(d, x)
<1>1. \A e \in Dirs : disk'[e] \in DiskRecs
  BY Zenon, DiskFields
<1>2. disk' \in [Dirs -> DiskRecs]
  BY Zenon, <1>1
<1> QED
  BY Zenon, <1>2 DEF Stores

\* What a step of a writer leaves alone: the process, its certificates, the challenges.
LEMMA WriterStep ==
  ASSUME CertState, NEW t \in Tasks, NEW r, Becomes(t, r), SameProcess(t), ProcShape',
         UNCHANGED <<acmeCfg, primary, extra, planted, hs, leaked>>, disk' \in [Dirs -> DiskRecs],
         torn' \in BOOLEAN, torn => torn', Stage(t)', Held(t)', DiskInv', KeysInv',
         task[t].pc \in {"chain", "key", "meta"}, r.pc # "expiry", NoAcmeOn => r.pc # "swap",
         NoAcmeOn => /\ disk'["out"].chain \in Chains
                     /\ \/ disk'["out"].chain = disk["out"].chain
                        \/ disk'["out"].chain.rem = Life
  PROVE  CertState'
<1>1. CertShapes'
  BY Zenon DEF CertState, CertShapes, Becomes, SameProcess
<1>2. StageInv'
  BY Zenon, StageStep
<1>3. ExpiryInv'
  BY Zenon, ExpiryStep
<1>4. StaticInv'
  <2>1. NoAcmeOn' => NoAcmeOn
    BY Zenon DEF NoAcmeOn, SameProcess
  <2>2. SUFFICES ASSUME NoAcmeOn
                 PROVE  StaticInv'
    BY Zenon, <2>1 DEF StaticInv
  <2>3. "hup" \in Tasks /\ "boot" \in Tasks
    BY Zenon DEF Tasks
  <2>4. Serving /\ primary.chain \in Chains
    <3>1. Stage("boot")
      BY Zenon, <2>3 DEF CertState, StageInv
    <3> QED
      BY Zenon, <2>2, <3>1 DEF Stage, NoAcmeOn, Serving, CertState, CertShapes
  <2>5. task'["hup"].pc = "swap" => task'["hup"] = task["hup"] /\ task["hup"].pc = "swap" /\ task["hup"].chain \in Chains
    <3>1. t # "hup"
      BY <2>2, <2>3, Zenon DEF CertState, StageInv, Stage
    <3> QED
      BY <2>3, <3>1, Zenon DEF Becomes, CertState, StageInv, Held
  <2>6. \A ch \in Chains : ch.rem \in Nat /\ ch.rem <= Life
    BY Zenon, ChainRem
  <2>7. CASE disk'["out"].chain = disk["out"].chain
    BY <2>2, <2>5, <2>7, Zenon DEF CertState, StaticInv
  <2>8. CASE disk'["out"].chain.rem = Life
    BY Zenon, <2>2, <2>4, <2>5, <2>6, <2>8 DEF CertState, StaticInv
  <2> QED
    BY Zenon, <2>2, <2>7, <2>8
<1>5. ChallengesCleaned'
  <2>1. t \in planted' => t \in leaked'
    BY Zenon DEF CertState, ChallengesCleaned
  <2> QED
    BY Zenon, <2>1, ChallengeStep
<1> QED
  BY Zenon, <1>1, <1>2, <1>3, <1>4, <1>5 DEF CertState

\* The certificates on disk in d, and a writer in the other directory.
LEMMA DirOf ==
  ASSUME NEW t \in Tasks
  PROVE  Dir(t) \in Dirs
BY Zenon DEF Dir, Dirs

\* fullchain.pem is replaced.
LEMMA ChainStep ==
  ASSUME CertState, NEW t \in Tasks, WriteChain(t)
  PROVE  CertState'
<1> DEFINE d == Dir(t)
           was == disk[d]
           x == [chain |-> task[t].chain, key |-> IF was.key = NoName THEN NoName ELSE Wrong, meta |-> was.meta, by |-> t]
           r == [pc |-> "key", how |-> task[t].how, sans |-> task[t].sans,
                 chain |-> task[t].chain, key |-> task[t].key, na |-> task[t].na]
<1>1. /\ CertShapes /\ Stage(t) /\ Held(t) /\ task[t].pc = "chain" /\ d \in Dirs
      /\ UNCHANGED <<proc, acmeCfg, primary, extra, planted, hs, leaked>>
      /\ torn' \in BOOLEAN /\ (torn => torn') /\ Goto(t, "key") /\ torn' = (torn \/ HalfWritten(d))
  BY Zenon, DirOf DEF WriteChain, CertState, StageInv, CertShapes
<1>2. /\ task[t].chain \in Chains /\ task[t].chain.rem = Life /\ task[t].key = Right /\ task[t].na = Life
      /\ task[t].chain = [sans |-> task[t].sans, rem |-> Life]
  <2>1. task[t].sans \in SanSets
    BY <1>1, TaskFields, Zenon DEF TaskRecs
  <2> QED
    BY <1>1, <2>1, CertTimes DEF Held, Chains
<1>3. Becomes(t, r)
  BY <1>1, Goes, Zenon DEF Pcs
<1>4. Stores(d, x)
  <2>1. was \in DiskRecs /\ was = [chain |-> was.chain, key |-> was.key, meta |-> was.meta, by |-> was.by]
    BY Zenon, <1>1, DiskFields
  <2>2. /\ disk'[d] = [was EXCEPT !.chain = task[t].chain, !.by = t, !.key = IF was.key = NoName THEN NoName ELSE Wrong]
        /\ DOMAIN disk' = Dirs /\ disk' = [e \in Dirs |-> disk'[e]]
        /\ \A e \in Dirs : e # d => disk'[e] = disk[e]
    BY <1>1, Zenon DEF WriteChain, CertShapes
  <2> HIDE DEF was, d
  <2>3. disk'[d] = x
    BY Zenon, <2>1, <2>2
  <2>4. x \in DiskRecs
    BY Zenon, <1>2, <2>1 DEF DiskRecs, Keys
  <2> HIDE DEF x
  <2> QED
    BY Zenon, <1>1, <2>2, <2>3, <2>4, StoresIn
<1>5. /\ r.pc = "key" /\ r.chain = task[t].chain /\ r.key = task[t].key /\ r.na = task[t].na /\ r.sans = task[t].sans
      /\ x.chain = task[t].chain /\ x.by = t /\ x.meta = was.meta
  BY Zenon
<1> HIDE DEF r, x, was
<1>6. SameProcess(t) /\ ProcShape'
  BY Zenon, <1>1, <1>3, <1>5, SameHere
<1>7. Stage(t)' /\ Held(t)'
  BY <1>1, <1>2, <1>3, <1>5, <1>6, Zenon DEF Stage, Held, Becomes, SameProcess, NoAcmeOn
<1>8. DiskInv'
  <2>1. ASSUME NEW e \in Dirs, disk'[e].chain # NoName, disk'[e].meta # NoName
        PROVE  disk'[e].meta <= disk'[e].chain.rem
    <3>1. CASE e = d
      <4>1. was.meta \in Times
        BY Zenon, <1>1, <1>4, <1>5, <2>1, <3>1, DiskFields DEF Stores, DiskRecs, was
      <4> QED
        BY <1>2, <1>4, <1>5, <3>1, <4>1, CertTimes DEF Stores, Times
    <3>2. CASE e # d
      BY Zenon, <1>4, <2>1, <3>2 DEF Stores, CertState, DiskInv
    <3> QED
      BY Zenon, <3>1, <3>2
  <2>2. ASSUME NEW u \in Tasks, task'[u].pc \in {"key", "meta"}
        PROVE  disk'[Dir(u)].chain \in Chains /\ disk'[Dir(u)].chain.rem = Life
    <3>1. CASE Dir(u) = d
      BY Zenon, <1>2, <1>4, <1>5, <3>1 DEF Stores
    <3>2. CASE Dir(u) # d
      <4>1. u # t /\ task[u].pc \in {"key", "meta"} /\ Dir(u) \in Dirs
        BY Zenon, <1>3, <2>2, <3>2, DirOf DEF Becomes
      <4> QED
        BY Zenon, <1>4, <3>2, <4>1 DEF Stores, CertState, DiskInv
    <3> QED
      BY Zenon, <3>1, <3>2
  <2> QED
    BY Zenon, <2>1, <2>2 DEF DiskInv
<1>9. KeysInv'
  <2>1. SUFFICES ASSUME ~torn'
                 PROVE  KeysInv'
    BY Zenon DEF KeysInv, PairsMatch
  <2>2. ~torn /\ ~HalfWritten(d)
    BY Zenon, <1>1, <2>1
  <2>3. \A u \in Tasks : task'[u].key # Wrong
    BY <1>3, <1>5, <2>2 DEF Becomes, CertState, KeysInv
  <2>4. ASSUME NEW u \in Tasks, task'[u].pc = "key"
        PROVE  disk'[Dir(u)].by = u
    <3>1. CASE u = t
      BY Zenon, <1>4, <1>5, <3>1 DEF Stores
    <3>2. CASE u # t
      <4>1. task[u].pc = "key" /\ Dir(u) # d /\ Dir(u) \in Dirs
        BY Zenon, <1>3, <2>2, <2>4, <3>2, DirOf DEF Becomes, HalfWritten
      <4> QED
        BY Zenon, <1>4, <2>2, <4>1 DEF Stores, CertState, KeysInv
    <3> QED
      BY Zenon, <3>1, <3>2
  <2>5. ASSUME NEW e \in Dirs
        PROVE  Matches(disk[e])' \/ HalfWritten(e)'
    <3>1. CASE e = d
      BY Zenon, <1>3, <1>5, <3>1 DEF HalfWritten, Becomes
    <3>2. CASE e # d
      <4>1. HalfWritten(e) => HalfWritten(e)'
        BY Zenon, <1>1, <1>3 DEF HalfWritten, Becomes
      <4> QED
        BY Zenon, <1>4, <2>2, <3>2, <4>1 DEF Stores, CertState, KeysInv, PairsMatch, Matches
    <3> QED
      BY Zenon, <3>1, <3>2
  <2>6. PairsMatch'
    BY Zenon, <1>1, <2>2, <2>5 DEF CertState, KeysInv, PairsMatch, Matches
  <2> QED
    BY Zenon, <2>3, <2>4, <2>6 DEF KeysInv
<1>10. NoAcmeOn => /\ disk'["out"].chain \in Chains
                   /\ \/ disk'["out"].chain = disk["out"].chain
                      \/ disk'["out"].chain.rem = Life
  <2>1. "out" \in Dirs
    BY Zenon DEF Dirs
  <2>2. CASE d = "out"
    BY Zenon, <1>2, <1>4, <1>5, <2>2 DEF Stores
  <2>3. CASE d # "out"
    BY Zenon, <1>4, <2>1, <2>3 DEF Stores, CertState, StaticInv
  <2> QED
    BY Zenon, <2>2, <2>3
<1> QED
  BY <1>1, <1>3, <1>4, <1>5, <1>6, <1>7, <1>8, <1>9, <1>10, WriterStep, Zenon DEF Stores

\* A step that keeps every chain on disk keeps the static one too.
LEMMA ChainsKept ==
  ASSUME CertState, \A e \in Dirs : disk'[e].chain = disk[e].chain
  PROVE  NoAcmeOn => /\ disk'["out"].chain \in Chains
                     /\ \/ disk'["out"].chain = disk["out"].chain
                        \/ disk'["out"].chain.rem = Life
<1>1. "out" \in Dirs
  BY Zenon DEF Dirs
<1> QED
  BY Zenon, <1>1 DEF CertState, StaticInv

\* privkey.pem is replaced: beside its own chain it is the right one.
LEMMA KeyStep ==
  ASSUME CertState, NEW t \in Tasks, WriteKey(t)
  PROVE  CertState'
<1> DEFINE d == Dir(t)
           was == disk[d]
           x == [chain |-> was.chain, key |-> IF was.by = t THEN Right ELSE Wrong, meta |-> was.meta, by |-> was.by]
           r == [pc |-> "meta", how |-> task[t].how, sans |-> task[t].sans,
                 chain |-> task[t].chain, key |-> task[t].key, na |-> task[t].na]
<1>1. /\ CertShapes /\ Stage(t) /\ Held(t) /\ task[t].pc = "key" /\ d \in Dirs /\ Goto(t, "meta")
      /\ UNCHANGED <<proc, acmeCfg, primary, extra, planted, hs, leaked, torn>> /\ torn' \in BOOLEAN
  BY Zenon, DirOf DEF WriteKey, CertState, StageInv, CertShapes
<1>2. Becomes(t, r)
  BY <1>1, Goes, Zenon DEF Pcs
<1>3. Stores(d, x)
  <2>1. was \in DiskRecs /\ was = [chain |-> was.chain, key |-> was.key, meta |-> was.meta, by |-> was.by]
    BY Zenon, <1>1, DiskFields
  <2>2. /\ disk'[d] = [was EXCEPT !.key = IF was.by = t THEN Right ELSE Wrong]
        /\ DOMAIN disk' = Dirs /\ disk' = [e \in Dirs |-> disk'[e]]
        /\ \A e \in Dirs : e # d => disk'[e] = disk[e]
    BY <1>1, Zenon DEF WriteKey, CertShapes
  <2> HIDE DEF was, d
  <2>3. disk'[d] = x
    BY Zenon, <2>1, <2>2
  <2>4. x \in DiskRecs
    BY Zenon, <2>1 DEF DiskRecs, Keys
  <2> HIDE DEF x
  <2> QED
    BY Zenon, <1>1, <2>2, <2>3, <2>4, StoresIn
<1>4. /\ r.pc = "meta" /\ r.chain = task[t].chain /\ r.key = task[t].key /\ r.na = task[t].na /\ r.sans = task[t].sans
      /\ x.chain = was.chain /\ x.by = was.by /\ x.meta = was.meta /\ (was.by = t => x.key = Right) /\ Right # Wrong
  BY Zenon DEF Right, Wrong
<1> HIDE DEF r, x
<1>5. SameProcess(t) /\ ProcShape'
  BY Zenon, <1>1, <1>2, <1>4, SameHere
<1>6. Stage(t)' /\ Held(t)'
  BY <1>1, <1>2, <1>4, <1>5, Zenon DEF Stage, Held, Becomes, SameProcess, NoAcmeOn
<1>7. \A e \in Dirs : disk'[e].chain = disk[e].chain /\ disk'[e].meta = disk[e].meta /\ disk'[e].by = disk[e].by
  BY <1>3, <1>4, Zenon DEF Stores
<1>8. DiskInv'
  <2>1. \A u \in Tasks : task'[u].pc \in {"key", "meta"} => task[u].pc \in {"key", "meta"} /\ Dir(u) \in Dirs
    BY Zenon, <1>1, <1>2, DirOf DEF Becomes
  <2> QED
    BY Zenon, <1>7, <2>1 DEF CertState, DiskInv
<1>9. KeysInv'
  <2>1. SUFFICES ASSUME ~torn
                 PROVE  KeysInv'
    BY <1>1, Zenon DEF KeysInv, PairsMatch
  <2>2. \A u \in Tasks : task'[u].key # Wrong
    BY Zenon, <1>2, <1>4, <2>1 DEF Becomes, CertState, KeysInv
  <2>3. \A u \in Tasks : task'[u].pc = "key" => disk'[Dir(u)].by = u
    <3>1. \A u \in Tasks : task'[u].pc = "key" => task[u].pc = "key" /\ Dir(u) \in Dirs
      BY Zenon, <1>2, <1>4, DirOf DEF Becomes
    <3> QED
      BY Zenon, <1>7, <2>1, <3>1 DEF CertState, KeysInv
  <2>4. ASSUME NEW e \in Dirs
        PROVE  Matches(disk[e])' \/ HalfWritten(e)'
    <3>1. CASE e = d
      <4>1. was.by = t
        BY <1>1, <2>1, Zenon DEF CertState, KeysInv
      <4> QED
        BY Zenon, <1>3, <1>4, <3>1, <4>1 DEF Stores, Matches
    <3>2. CASE e # d
      <4>1. HalfWritten(e) => HalfWritten(e)'
        BY Zenon, <1>2, <3>2 DEF HalfWritten, Becomes
      <4> QED
        BY Zenon, <1>3, <2>1, <3>2, <4>1 DEF Stores, CertState, KeysInv, PairsMatch, Matches
    <3> QED
      BY Zenon, <3>1, <3>2
  <2>5. PairsMatch'
    BY Zenon, <1>1, <2>1, <2>4 DEF CertState, KeysInv, PairsMatch, Matches
  <2> QED
    BY Zenon, <2>2, <2>3, <2>5 DEF KeysInv
<1> QED
  BY <1>1, <1>2, <1>3, <1>4, <1>5, <1>6, <1>7, <1>8, <1>9, ChainsKept, WriterStep, Zenon DEF Stores

\* A writer that is done, or gives up, is not the one whose chain is there any more.
LEMMA LeavesFiles ==
  ASSUME CertState, NEW t \in Tasks, NEW r, Becomes(t, r), r.pc \notin {"key", "meta"}, ~torn' => r.key # Wrong,
         torn => torn', task[t].pc = "key" => torn', UNCHANGED <<primary, extra>>,
         \A e \in Dirs : /\ disk'[e].chain = disk[e].chain /\ disk'[e].key = disk[e].key
                         /\ disk'[e].by = disk[e].by \/ disk[e].by = t
                         /\ disk'[e].meta = disk[e].meta \/ (disk'[e].meta = Life /\ disk[e].chain.rem = Life)
  PROVE  DiskInv' /\ KeysInv'
<1>1. DiskInv'
  <2>1. \A u \in Tasks : task'[u].pc \in {"key", "meta"} => task[u].pc \in {"key", "meta"} /\ Dir(u) \in Dirs
    BY Zenon, DirOf DEF Becomes
  <2>2. ASSUME NEW e \in Dirs, disk'[e].chain # NoName, disk'[e].meta # NoName
        PROVE  disk'[e].meta <= disk'[e].chain.rem
    <3>1. Life <= Life
      BY CertTimes
    <3>2. disk'[e].chain = disk[e].chain
      BY Zenon
    <3>3. CASE disk'[e].meta = disk[e].meta
      BY Zenon, <2>2, <3>2, <3>3 DEF CertState, DiskInv
    <3>4. CASE disk'[e].meta = Life /\ disk[e].chain.rem = Life
      BY Zenon, <3>1, <3>2, <3>4
    <3> QED
      BY Zenon, <3>3, <3>4
  <2>3. \A u \in Tasks : task'[u].pc \in {"key", "meta"} =>
           disk'[Dir(u)].chain \in Chains /\ disk'[Dir(u)].chain.rem = Life
    BY Zenon, <2>1 DEF CertState, DiskInv
  <2> QED
    BY <2>2, <2>3, Zenon DEF DiskInv
<1>2. KeysInv'
  <2>1. SUFFICES ASSUME ~torn'
                 PROVE  KeysInv'
    BY Zenon DEF KeysInv, PairsMatch
  <2>2. ~torn /\ task[t].pc # "key"
    BY Zenon, <2>1
  <2>3. \A u \in Tasks : task'[u].key # Wrong
    BY <2>1, <2>2, Zenon DEF Becomes, CertState, KeysInv
  <2>4. ASSUME NEW u \in Tasks, task'[u].pc = "key"
        PROVE  disk'[Dir(u)].by = u
    <3>1. u # t /\ task[u].pc = "key" /\ Dir(u) \in Dirs
      BY Zenon, <2>4, DirOf DEF Becomes
    <3> QED
      BY Zenon, <2>2, <3>1 DEF CertState, KeysInv
  <2>5. \A e \in Dirs : HalfWritten(e) => HalfWritten(e)'
    BY Zenon, <2>2 DEF HalfWritten, Becomes
  <2>6. PairsMatch'
    BY Zenon, <2>2, <2>5 DEF CertState, KeysInv, PairsMatch, Matches
  <2> QED
    BY Zenon, <2>3, <2>4, <2>6 DEF KeysInv
<1> QED
  BY Zenon, <1>1, <1>2

\* metadata.json is written; the gateway's own tasks go on to install the pair.
LEMMA MetaStep ==
  ASSUME CertState, NEW t \in Tasks, WriteMeta(t)
  PROVE  CertState'
<1> DEFINE d == Dir(t)
           was == disk[d]
           x == [chain |-> was.chain, key |-> was.key, meta |-> task[t].na, by |-> IF was.by = t THEN NoName ELSE was.by]
           go == [pc |-> "swap", how |-> task[t].how, sans |-> task[t].sans,
                  chain |-> task[t].chain, key |-> task[t].key, na |-> task[t].na]
           r == IF t = "cli" THEN IdleTask ELSE go
<1>1. /\ CertShapes /\ Stage(t) /\ Held(t) /\ task[t].pc = "meta" /\ d \in Dirs
      /\ UNCHANGED <<proc, acmeCfg, primary, extra, planted, hs, leaked, torn>> /\ torn' \in BOOLEAN
  BY Zenon, DirOf DEF WriteMeta, CertState, StageInv, CertShapes
<1>2. /\ task[t].chain \in Chains /\ task[t].chain.rem = Life /\ task[t].key = Right /\ task[t].na = Life
      /\ task[t].chain.sans = task[t].sans
  <2>1. task[t].sans \in SanSets
    BY <1>1, TaskFields, Zenon DEF TaskRecs
  <2>2. /\ task[t].chain = [sans |-> task[t].sans, rem |-> Life] /\ task[t].key = Right /\ task[t].na = Life
    BY <1>1, Zenon DEF Held
  <2>3. Life \in 0..Life
    BY CertTimes
  <2> QED
    BY <2>1, <2>2, <2>3 DEF Chains
<1>3. r \in TaskRecs /\ Becomes(t, r)
  <2> DEFINE old == task[t]
  <2>1. old \in TaskRecs /\ old = [pc |-> old.pc, how |-> old.how, sans |-> old.sans, chain |-> old.chain,
                                   key |-> old.key, na |-> old.na]
    BY Zenon, <1>1, TaskFields
  <2>2. task' = [task EXCEPT ![t] = IF t = "cli" THEN IdleTask ELSE [old EXCEPT !.pc = "swap"]]
    BY Zenon DEF WriteMeta
  <2> HIDE DEF old
  <2>3. [old EXCEPT !.pc = "swap"] = [pc |-> "swap", how |-> old.how, sans |-> old.sans, chain |-> old.chain,
                                      key |-> old.key, na |-> old.na]
    BY <2>1
  <2>4. [pc |-> "swap", how |-> old.how, sans |-> old.sans, chain |-> old.chain,
         key |-> old.key, na |-> old.na] \in TaskRecs
    BY Zenon, <2>1 DEF TaskRecs, Pcs
  <2>5. go \in TaskRecs /\ [old EXCEPT !.pc = "swap"] = go
    BY Zenon, <2>3, <2>4 DEF old
  <2> HIDE DEF go
  <2>6. r \in TaskRecs /\ task' = [task EXCEPT ![t] = r]
    BY Zenon, <2>2, <2>5, IdleIsTask
  <2> HIDE DEF r
  <2> QED
    BY Zenon, <1>1, <2>6, Replaced
<1>4. Stores(d, x)
  <2>1. was \in DiskRecs /\ was = [chain |-> was.chain, key |-> was.key, meta |-> was.meta, by |-> was.by]
    BY Zenon, <1>1, DiskFields
  <2>2. /\ disk'[d] = [was EXCEPT !.meta = task[t].na, !.by = IF was.by = t THEN NoName ELSE was.by]
        /\ DOMAIN disk' = Dirs /\ disk' = [e \in Dirs |-> disk'[e]]
        /\ \A e \in Dirs : e # d => disk'[e] = disk[e]
    BY <1>1, Zenon DEF WriteMeta, CertShapes
  <2> HIDE DEF was, d
  <2>3. disk'[d] = x
    BY Zenon, <2>1, <2>2
  <2>4. x \in DiskRecs
    BY <1>2, <2>1, CertTimes DEF DiskRecs, Times
  <2> HIDE DEF x
  <2> QED
    BY Zenon, <1>1, <2>2, <2>3, <2>4, StoresIn
<1>5. /\ t = "cli" => r.pc = "idle" /\ r.key # Wrong
      /\ t # "cli" => /\ r.pc = "swap" /\ r.chain = task[t].chain /\ r.key = task[t].key
                      /\ r.na = task[t].na /\ r.sans = task[t].sans
      /\ x.chain = was.chain /\ x.key = was.key /\ x.meta = task[t].na /\ (x.by = was.by \/ was.by = t)
      /\ Right # Wrong
  BY IdleIsTask, Zenon DEF Right, Wrong
<1> HIDE DEF r, x
<1>6. SameProcess(t) /\ ProcShape'
  BY Zenon, <1>1, <1>3, <1>5, SameHere
<1>7. Stage(t)' /\ Held(t)' /\ (NoAcmeOn => r.pc # "swap")
  <2>1. NoAcmeOn => t = "cli"
    BY Zenon, <1>1 DEF Stage
  <2>2. Stage(t)' /\ (NoAcmeOn => r.pc # "swap")
    BY <1>1, <1>3, <1>5, <1>6, <2>1, Zenon DEF Stage, Becomes, SameProcess, NoAcmeOn
  <2>3. Held(t)'
    <3>1. Life <= Life /\ Life >= FailWithin
      BY CertTimes
    <3>2. task'[t] = r
      BY Zenon, <1>3 DEF Becomes
    <3> QED
      BY Zenon, <1>2, <1>5, <3>1, <3>2 DEF Held, Keys
  <2> QED
    BY Zenon, <2>2, <2>3
<1>8. /\ \A e \in Dirs : /\ disk'[e].chain = disk[e].chain /\ disk'[e].key = disk[e].key
                         /\ disk'[e].by = disk[e].by \/ disk[e].by = t
                         /\ disk'[e].meta = disk[e].meta \/ (disk'[e].meta = Life /\ disk[e].chain.rem = Life)
      /\ ~torn' => r.key # Wrong
      /\ r.pc \notin {"key", "meta", "expiry"}
  <2>1. disk[d].chain.rem = Life
    BY Zenon, <1>1 DEF CertState, DiskInv
  <2> QED
    BY <1>2, <1>4, <1>5, <2>1, Zenon DEF Stores
<1>9. DiskInv' /\ KeysInv'
  BY Zenon, <1>1, <1>3, <1>8, LeavesFiles
<1> QED
  BY <1>1, <1>3, <1>4, <1>6, <1>7, <1>8, <1>9, ChainsKept, WriterStep, Zenon DEF Stores

\* A file cannot be written: the writer ends.
LEMMA WriteFailsStep ==
  ASSUME CertState, NEW t \in Tasks, WriteFails(t)
  PROVE  CertState'
<1> DEFINE d == Dir(t)
           was == disk[d]
           x == [chain |-> was.chain, key |-> was.key, meta |-> was.meta, by |-> IF was.by = t THEN NoName ELSE was.by]
<1>1. /\ CertShapes /\ Fail(t) /\ task[t].pc \in {"chain", "key", "meta"} /\ d \in Dirs
      /\ UNCHANGED <<acmeCfg, primary, extra, planted, hs, leaked>>
      /\ torn' \in BOOLEAN /\ (torn => torn') /\ (task[t].pc = "key" => torn')
  BY DirOf, Zenon DEF WriteFails, CertState, CertShapes
<1>2. /\ Becomes(t, IdleTask) /\ SameProcess(t) /\ ProcShape' /\ Stage(t)' /\ Held(t)'
      /\ IdleTask.pc = "idle" /\ IdleTask.key # Wrong
  BY Zenon, <1>1, FailsHere, IdleIsTask
<1>3. Stores(d, x)
  <2>1. was \in DiskRecs /\ was = [chain |-> was.chain, key |-> was.key, meta |-> was.meta, by |-> was.by]
    BY Zenon, <1>1, DiskFields
  <2>2. /\ disk'[d] = [was EXCEPT !.by = IF was.by = t THEN NoName ELSE was.by]
        /\ DOMAIN disk' = Dirs /\ disk' = [e \in Dirs |-> disk'[e]]
        /\ \A e \in Dirs : e # d => disk'[e] = disk[e]
    BY <1>1, Zenon DEF WriteFails, CertShapes
  <2> HIDE DEF was, d
  <2>3. disk'[d] = x
    BY Zenon, <2>1, <2>2
  <2>4. x \in DiskRecs
    BY Zenon, <2>1 DEF DiskRecs
  <2> HIDE DEF x
  <2> QED
    BY Zenon, <1>1, <2>2, <2>3, <2>4, StoresIn
<1>4. \A e \in Dirs : /\ disk'[e].chain = disk[e].chain /\ disk'[e].key = disk[e].key
                      /\ disk'[e].by = disk[e].by \/ disk[e].by = t
                      /\ disk'[e].meta = disk[e].meta
  <2>1. x.chain = was.chain /\ x.key = was.key /\ x.meta = was.meta /\ (x.by = was.by \/ was.by = t)
    BY Zenon
  <2> HIDE DEF x
  <2> QED
    BY Zenon, <1>3, <2>1 DEF Stores
<1>5. DiskInv' /\ KeysInv'
  BY Zenon, <1>1, <1>2, <1>4, LeavesFiles
<1> QED
  BY <1>1, <1>2, <1>3, <1>4, <1>5, ChainsKept, WriterStep, Zenon DEF Stores

----------------------------------------------------------------------------
(* Installing a certificate.                                                 *)

\* The fields of the primary.
LEMMA PrimaryFields ==
  ASSUME CertShapes
  PROVE  primary = [chain |-> primary.chain, key |-> primary.key, na |-> primary.na, tlsNa |-> primary.tlsNa]
BY Zenon DEF CertShapes, PrimRecs

\* The map of bring-your-own certificates holds pairs that load, and match unless read halfway.
LEMMA ExtraFacts ==
  ASSUME CertState, NEW certs, \A h \in DOMAIN certs : certs[h] = "out"
  PROVE  /\ \A h \in DOMAIN build_extra_cert_map(certs) : build_extra_cert_map(certs)[h] \in [chain : Chains, key : Keys]
         /\ ~torn /\ (DOMAIN certs = {} \/ ~HalfWritten("out")) =>
               \A h \in DOMAIN build_extra_cert_map(certs) : Matches(build_extra_cert_map(certs)[h])
<1>1. "out" \in Dirs /\ disk["out"] \in DiskRecs
  BY Zenon, DiskFields DEF CertState, Dirs
<1>2. ASSUME NEW h \in DOMAIN build_extra_cert_map(certs)
      PROVE  /\ Loadable("out") /\ h \in DOMAIN certs
             /\ build_extra_cert_map(certs)[h] = [chain |-> disk["out"].chain, key |-> disk["out"].key]
  BY Zenon, <1>2 DEF build_extra_cert_map
<1>3. Loadable("out") => disk["out"].chain \in Chains /\ disk["out"].key \in Keys
  BY Zenon, <1>1 DEF Loadable, DiskRecs
<1>4. ~torn /\ ~HalfWritten("out") => disk["out"].key # Wrong
  BY Zenon, <1>1 DEF CertState, KeysInv, PairsMatch, Matches
<1> QED
  BY <1>2, <1>3, <1>4 DEF Matches

\* A primary just read has the expiry of its chain, and nobody is replacing it.
LEMMA FreshPrimary ==
  ASSUME \A t \in Tasks : task'[t].pc # "expiry", primary'.chain \in Chains,
         primary'.na = primary'.chain.rem, hs' = NoName
  PROVE  ExpiryInv'
<1>1. primary'.chain.rem \in Nat
  BY CertTimes DEF Chains
<1>2. NoName # Primary
  BY Zenon, NoNameIsNone
<1> QED
  BY <1>1, <1>2 DEF ExpiryInv, NoExpiringCertPresented

\* Beside a start, or with no process, only "cert issue" is under way.
LEMMA NotServing ==
  ASSUME CertState, ~Serving
  PROVE  task["renew"].pc = "idle" /\ task["hup"].pc = "idle" /\ hs = NoName
<1>1. "renew" \in Tasks /\ "hup" \in Tasks
  BY Zenon DEF Tasks
<1> QED
  BY Zenon, <1>1 DEF CertState, StageInv, Stage

\* main() installs the first certificate and starts to serve.
LEMMA InstallStep ==
  ASSUME CertState, InstallFirst
  PROVE  CertState'
<1>1. /\ CertShapes /\ "boot" \in Tasks /\ Stage("boot") /\ Held("boot") /\ task["boot"].pc = "swap"
      /\ UNCHANGED <<proc, acmeCfg, disk, planted, hs, leaked>>
      /\ torn' \in BOOLEAN /\ torn' = (torn \/ (DOMAIN proc.certs # {} /\ HalfWritten("out")))
      /\ task' = [task EXCEPT !["boot"] = IdleTask] /\ extra' = build_extra_cert_map(proc.certs)
  BY Zenon DEF InstallFirst, CertState, StageInv, CertShapes, Tasks
<1>2. /\ proc # Down /\ ~Serving /\ ~NoAcmeOn
      /\ task["boot"].chain \in Chains /\ task["boot"].key \in Keys /\ task["boot"].na \in Times
      /\ task["boot"].chain.rem \in Times
  BY <1>1, TaskFields, Zenon DEF Stage, Held, Serving, TaskRecs, Chains, Times
<1>3. /\ Becomes("boot", IdleTask) /\ IdleTask.pc = "idle" /\ IdleTask.key # Wrong
      /\ task["renew"].pc = "idle" /\ task["hup"].pc = "idle" /\ hs = NoName
  BY Zenon, <1>1, <1>2, IdleIsTask, Replaced, NotServing
<1>4. /\ primary'.chain = task["boot"].chain /\ primary'.key = task["boot"].key
      /\ primary'.na = primary'.chain.rem /\ primary' \in PrimRecs
  BY Zenon, <1>2 DEF InstallFirst, PrimRecs
<1>5. \A h \in DOMAIN proc.certs : proc.certs[h] = "out"
  BY <1>1, <1>2, Zenon DEF CertShapes, ProcShape
<1>6. /\ \A h \in DOMAIN extra' : extra'[h] \in [chain : Chains, key : Keys]
      /\ ~torn' => \A h \in DOMAIN extra' : Matches(extra'[h])
  BY Zenon, <1>1, <1>5, ExtraFacts
<1>7. /\ \A t \in Tasks : t # "cli" => task'[t].pc = "idle"
      /\ "cli" \in Tasks /\ task'["cli"] = task["cli"] /\ task["cli"].pc # "expiry"
  BY Zenon, <1>3 DEF Becomes, Tasks, CertState, StageInv, Stage
<1>8. CertShapes'
  BY <1>1, <1>2, <1>3, <1>4, <1>6, Zenon DEF CertShapes, Becomes, ProcShape
<1>9. StageInv'
  <2>1. Stage("cli")' /\ Held("cli")'
    BY <1>1, <1>7, Zenon DEF CertState, StageInv, Stage, Held
  <2>2. \A t \in Tasks : t # "cli" => Stage(t)' /\ Held(t)'
    BY <1>7, Zenon DEF Stage, Held
  <2> QED
    BY Zenon, <1>1, <1>3, <2>1, <2>2 DEF StageInv
<1>10. DiskInv'
  BY Zenon, <1>1, <1>3, DiskStep
<1>11. KeysInv'
  <2>1. SUFFICES ASSUME ~torn'
                 PROVE  KeysInv'
    BY Zenon DEF KeysInv, PairsMatch
  <2>2. ~torn
    BY Zenon, <1>1, <2>1
  <2>3. \A d \in Dirs : HalfWritten(d) => HalfWritten(d)'
    BY Zenon, <1>1, <1>3 DEF HalfWritten, Becomes
  <2>4. Matches(primary)'
    BY Zenon, <1>1, <1>4, <2>2 DEF CertState, KeysInv, Matches
  <2>5. PairsMatch'
    BY Zenon, <1>1, <1>6, <2>1, <2>2, <2>3, <2>4 DEF CertState, KeysInv, PairsMatch, Matches
  <2> QED
    BY Zenon, <1>1, <1>3, <2>2, <2>5 DEF CertState, KeysInv, Becomes
<1>12. ExpiryInv'
  <2>1. \A t \in Tasks : task'[t].pc # "expiry"
    BY Zenon, <1>7
  <2> QED
    BY Zenon, <1>1, <1>2, <1>3, <1>4, <2>1, FreshPrimary
<1>13. StaticInv'
  BY Zenon, <1>1, <1>2 DEF StaticInv, NoAcmeOn
<1>14. ChallengesCleaned'
  <2>1. "boot" \in planted' => "boot" \in leaked'
    BY Zenon, <1>1 DEF CertState, ChallengesCleaned
  <2> QED
    BY Zenon, <1>1, <1>3, <2>1, ChallengeStep
<1> QED
  BY Zenon, <1>8, <1>9, <1>10, <1>11, <1>12, <1>13, <1>14 DEF CertState

\* The key and chain of the primary are replaced: by one that is not about to expire,
\* or with a static pair by one that lasts as long.
LEMMA SwapStep ==
  ASSUME CertState, NEW t \in Tasks, SwapKey(t)
  PROVE  CertState'
<1> DEFINE r == [pc |-> "expiry", how |-> task[t].how, sans |-> task[t].sans,
                 chain |-> task[t].chain, key |-> task[t].key, na |-> task[t].na]
<1>1. /\ CertShapes /\ Stage(t) /\ Held(t) /\ task[t].pc = "swap" /\ t \in {"renew", "hup"} /\ Goto(t, "expiry")
      /\ UNCHANGED <<proc, acmeCfg, extra, disk, planted, hs, leaked>>
      /\ torn' \in BOOLEAN /\ torn' = (torn \/ \E u \in Tasks : task[u].pc = "expiry")
  BY Zenon DEF SwapKey, CertState, StageInv, CertShapes
<1>2. /\ Becomes(t, r) /\ r.pc = "expiry" /\ r.chain = task[t].chain /\ r.key = task[t].key
      /\ r.na = task[t].na /\ r.sans = task[t].sans
  BY <1>1, Goes, Zenon DEF Pcs
<1> HIDE DEF r
<1>3. Serving /\ proc # Down /\ task[t].chain \in Chains /\ task[t].key \in Keys /\ primary.chain \in Chains
  BY Zenon, <1>1 DEF Stage, Held, Serving, CertShapes
<1>4. /\ primary'.chain = task[t].chain /\ primary'.key = task[t].key
      /\ primary'.na = primary.na /\ primary' \in PrimRecs
  BY <1>1, <1>3, PrimaryFields, Zenon DEF SwapKey, CertShapes, PrimRecs
<1>5. SameProcess(t) /\ ProcShape'
  BY Zenon, <1>1, <1>2, SameHere
<1>6. Stage(t)' /\ Held(t)'
  BY <1>1, <1>2, <1>5, Zenon DEF Stage, Held, Becomes, SameProcess, NoAcmeOn, WithAcme
<1>7. primary.chain.rem >= FailWithin => primary'.chain.rem >= FailWithin
  <2>1. CASE proc.acme.enabled
    BY <1>1, <1>3, <1>4, <2>1, Zenon DEF Held, WithAcme
  <2>2. CASE ~proc.acme.enabled
    <3>1. t = "hup" /\ primary.chain.rem <= task[t].chain.rem
      BY Zenon, <1>1, <1>3, <2>2 DEF Stage, NoAcmeOn, CertState, StaticInv
    <3>2. primary.chain.rem \in Nat /\ task[t].chain.rem \in Nat
      BY <1>3, CertTimes DEF Chains
    <3> QED
      BY <1>4, <3>1, <3>2, CertTimes
  <2> QED
    BY Zenon, <2>1, <2>2
<1>8. CertShapes'
  BY <1>1, <1>2, <1>3, <1>4, <1>5, Zenon DEF CertShapes, Becomes
<1>9. StageInv'
  BY Zenon, <1>1, <1>2, <1>5, <1>6, StageStep
<1>10. DiskInv'
  BY Zenon, <1>1, <1>2, DiskStep
<1>11. KeysInv'
  <2>1. SUFFICES ASSUME ~torn'
                 PROVE  KeysInv'
    BY Zenon DEF KeysInv, PairsMatch
  <2>2. ~torn
    BY Zenon, <1>1, <2>1
  <2>3. \A d \in Dirs : HalfWritten(d) => HalfWritten(d)'
    BY Zenon, <1>1, <1>2 DEF HalfWritten, Becomes
  <2>4. Matches(primary)'
    BY <1>1, <1>4, <2>2, Zenon DEF CertState, KeysInv, Matches
  <2>5. PairsMatch'
    BY Zenon, <1>1, <2>2, <2>3, <2>4 DEF CertState, KeysInv, PairsMatch, Matches
  <2> QED
    BY Zenon, <1>1, <1>2, <2>2, <2>5 DEF CertState, KeysInv, Becomes
<1>12. ExpiryInv'
  <2>1. SUFFICES ASSUME ~torn'
                 PROVE  ExpiryInv'
    BY Zenon DEF ExpiryInv, NoExpiringCertPresented
  <2>2. ~torn /\ \A u \in Tasks : task[u].pc # "expiry"
    BY Zenon, <1>1, <2>1
  <2>3. \A u \in Tasks : task'[u].pc = "expiry" => primary'.chain = task'[u].chain
    BY Zenon, <1>2, <1>4, <2>2 DEF Becomes
  <2>4. task'[t].pc = "expiry"
    BY Zenon, <1>2 DEF Becomes
  <2>5. primary'.na >= FailWithin => primary'.chain.rem >= FailWithin
    BY Zenon, <1>3, <1>4, <1>7, <2>2 DEF CertState, ExpiryInv
  <2>6. NoExpiringCertPresented'
    BY Zenon, <1>1, <1>7, <2>2 DEF CertState, ExpiryInv, NoExpiringCertPresented
  <2> QED
    BY Zenon, <2>3, <2>4, <2>5, <2>6 DEF ExpiryInv
<1>13. StaticInv'
  <2>1. SUFFICES ASSUME NoAcmeOn
                 PROVE  StaticInv'
    BY Zenon, <1>1 DEF StaticInv, NoAcmeOn
  <2>2. t = "hup"
    BY Zenon, <1>1, <2>1 DEF Stage
  <2>3. task'["hup"].pc # "swap"
    BY Zenon, <1>2, <2>2 DEF Becomes
  <2> QED
    BY Zenon, <1>1, <1>4, <2>1, <2>2, <2>3 DEF CertState, StaticInv
<1>14. ChallengesCleaned'
  <2>1. t \in planted' => t \in leaked'
    BY Zenon, <1>1 DEF CertState, ChallengesCleaned
  <2> QED
    BY Zenon, <1>1, <1>2, <2>1, ChallengeStep
<1> QED
  BY Zenon, <1>8, <1>9, <1>10, <1>11, <1>12, <1>13, <1>14 DEF CertState

\* The two expiry times follow.
LEMMA NoteStep ==
  ASSUME CertState, NEW t \in Tasks, SwapExpiry(t) \/ NoteExpiry(t)
  PROVE  CertState'
<1> DEFINE go == [pc |-> "note", how |-> task[t].how, sans |-> task[t].sans,
                  chain |-> task[t].chain, key |-> task[t].key, na |-> task[t].na]
<1>1. /\ CertShapes /\ Stage(t) /\ Held(t) /\ task[t].pc \in {"expiry", "note"}
      /\ UNCHANGED <<proc, acmeCfg, extra, disk, planted, hs, leaked, torn>> /\ torn' \in BOOLEAN
  BY Zenon DEF SwapExpiry, NoteExpiry, CertState, StageInv, CertShapes
<1>2. Serving /\ proc # Down /\ task[t].na \in Times /\ t \in {"renew", "hup"}
  BY Zenon, <1>1, TaskFields DEF Stage, Serving, TaskRecs, Tasks
<1>3. PICK r : /\ Becomes(t, r) /\ (r = IdleTask \/ r = go)
               /\ (SwapExpiry(t) => r = go) /\ (r = go => SwapExpiry(t))
  <2>1. CASE SwapExpiry(t)
    <3>1. Becomes(t, go)
      BY <1>1, <2>1, Goes, Zenon DEF SwapExpiry, Pcs
    <3> QED
      BY Zenon, <2>1, <3>1
  <2>2. CASE NoteExpiry(t) /\ ~SwapExpiry(t)
    <3>1. Becomes(t, IdleTask)
      BY <1>1, <2>2, IdleIsTask, Replaced, Zenon DEF NoteExpiry
    <3>2. IdleTask # go
      BY IdleIsTask
    <3> QED
      BY Zenon, <2>2, <3>1, <3>2
  <2> QED
    BY Zenon, <2>1, <2>2
<1>4. /\ r.pc \in {"idle", "note"}
      /\ r.pc = "note" => /\ r.chain = task[t].chain /\ r.key = task[t].key /\ r.na = task[t].na /\ r.sans = task[t].sans
      /\ r.key = task[t].key \/ r.key # Wrong
  BY <1>3, IdleIsTask
<1>5. /\ primary'.chain = primary.chain /\ primary'.key = primary.key /\ primary' \in PrimRecs
      /\ primary'.na = IF SwapExpiry(t) THEN task[t].na ELSE primary.na
  <2>1. CASE SwapExpiry(t)
    BY Zenon, <1>1, <1>2, <2>1, PrimaryFields DEF SwapExpiry, CertShapes, PrimRecs
  <2>2. CASE NoteExpiry(t) /\ ~SwapExpiry(t)
    BY Zenon, <1>1, <1>2, <2>2, PrimaryFields DEF NoteExpiry, CertShapes, PrimRecs
  <2> QED
    BY Zenon, <2>1, <2>2
<1>6. SameProcess(t) /\ ProcShape'
  BY Zenon, <1>1, <1>2, <1>3, SameHere
<1>7. Stage(t)' /\ Held(t)'
  BY <1>1, <1>3, <1>4, <1>6, Zenon DEF Stage, Held, Becomes, SameProcess, NoAcmeOn, WithAcme
<1>8. CertShapes'
  BY <1>1, <1>2, <1>3, <1>5, <1>6, Zenon DEF CertShapes, Becomes
<1>9. StageInv'
  BY Zenon, <1>1, <1>3, <1>6, <1>7, StageStep
<1>10. DiskInv'
  BY Zenon, <1>1, <1>3, <1>4, DiskStep
<1>11. KeysInv'
  <2>1. ~torn' => /\ r.key # Wrong /\ \A h \in DOMAIN extra' : Matches(extra'[h])
    BY <1>1, <1>4, Zenon DEF CertState, KeysInv, PairsMatch
  <2> QED
    BY Zenon, <1>1, <1>3, <1>4, <1>5, <2>1, KeysStep
<1>12. ExpiryInv'
  <2>1. CASE SwapExpiry(t)
    <3>1. SUFFICES ASSUME ~torn
                   PROVE  ExpiryInv'
      BY Zenon, <1>1 DEF ExpiryInv, NoExpiringCertPresented
    <3>2. task[t].pc = "expiry" /\ primary.chain = task[t].chain /\ task[t].na <= task[t].chain.rem
      BY Zenon, <1>1, <1>2, <2>1, <3>1 DEF SwapExpiry, Held, CertState, ExpiryInv
    <3>3. primary'.na <= primary'.chain.rem /\ primary'.na \in Nat /\ primary'.chain.rem \in Nat
      <4>1. task[t].chain.rem \in Nat /\ task[t].na \in Nat
        BY <1>1, <1>2, CertTimes DEF Held, Chains, Times
      <4> QED
        BY Zenon, <1>5, <2>1, <3>2, <4>1
    <3>4. \A u \in Tasks : task'[u].pc = "expiry" => task[u].pc = "expiry" /\ task'[u] = task[u]
      BY <1>3, <1>4, Zenon DEF Becomes
    <3>5. \A u \in Tasks : task'[u].pc = "expiry" => primary'.chain = task'[u].chain
      BY <1>2, <1>5, <3>1, <3>4, Zenon DEF CertState, ExpiryInv
    <3>6. primary'.na >= FailWithin => primary'.chain.rem >= FailWithin
      BY <3>3, CertTimes
    <3>7. NoExpiringCertPresented'
      BY <1>1, <1>5, Zenon DEF CertState, ExpiryInv, NoExpiringCertPresented
    <3> QED
      BY <3>3, <3>5, <3>6, <3>7, Zenon DEF ExpiryInv
  <2>2. CASE ~SwapExpiry(t)
    <3>1. task[t].pc # "expiry"
      BY Zenon, <2>2 DEF NoteExpiry
    <3> QED
      BY Zenon, <1>1, <1>3, <1>4, <1>5, <1>6, <2>2, <3>1, ExpiryStep
  <2> QED
    BY Zenon, <2>1, <2>2
<1>13. StaticInv'
  BY Zenon, <1>1, <1>3, <1>4, <1>5, <1>6, StaticStep
<1>14. ChallengesCleaned'
  <2>1. t \in planted' => t \in leaked'
    BY Zenon, <1>1 DEF CertState, ChallengesCleaned
  <2> QED
    BY Zenon, <1>1, <1>3, <2>1, ChallengeStep
<1> QED
  BY Zenon, <1>8, <1>9, <1>10, <1>11, <1>12, <1>13, <1>14 DEF CertState

----------------------------------------------------------------------------
(* The process.                                                              *)

\* A reload keeps the settings of the start.
LEMMA ReloadShape ==
  ASSUME CertState, proc # Down, NEW c \in Loads, proc' = Reloaded(c, proc)
  PROVE  ProcShape' /\ proc' # Down /\ proc'.acme.enabled = proc.acme.enabled
<1>1. PICK p \in Loads : Settings(proc, p)
  BY Zenon DEF CertState, CertShapes, ProcShape
<1>2. Settings(proc', proc) /\ proc'.certs = c.certs
  BY Zenon, ReloadedFacts
<1>3. Settings(proc', p)
  BY Zenon, <1>1, <1>2 DEF Settings
<1>4. Reloaded(c, proc) = Reloaded(c, p)
  BY Zenon, <1>1 DEF Settings, Reloaded
<1>5. proc' # Down
  BY Zenon, <1>4, DownIsNone
<1>6. \A h \in DOMAIN proc'.certs : proc'.certs[h] = "out"
  BY <1>2, LoadsTyped
<1> QED
  BY Zenon, <1>2, <1>3, <1>5, <1>6 DEF ProcShape, Settings

\* The names a configuration asks for, and what it is loaded from.
LEMMA LoadedFacts ==
  ASSUME BudgetsTyped, budget.files \subseteq CertFiles, NEW f \in budget.files
  PROVE  /\ load(f) # Error => load(f) \in Loads
         /\ load_from_env(f) # Error => load_from_env(f) \in Loads
         /\ \A c \in Loads : effective_acme_domains(c) \in SanSets
BY DEF Loads, SanSets

\* The task a SIGHUP leaves: the one it found, one for the new names, or one
\* with the static pair in hand.
LEMMA HupTask ==
  ASSUME CertState, Serving, task["hup"].pc = "idle", NEW c \in Loads, NEW sans \in SanSets,
         IF proc.acme.enabled
         THEN task' = [task EXCEPT !["hup"] = IF sans = {} THEN @ ELSE NewTask("dns", sans)]
         ELSE task' = [task EXCEPT !["hup"] = IF ~Loadable("out") THEN @ ELSE StaticTask]
  PROVE  \E r \in TaskRecs :
            /\ Becomes("hup", r)
            /\ \/ r.pc = "idle" /\ r.key = task["hup"].key
               \/ r.pc = "load" /\ r.key # Wrong /\ proc.acme.enabled
               \/ /\ r.pc = "swap" /\ ~proc.acme.enabled /\ r.chain = disk["out"].chain
                  /\ r.key = disk["out"].key /\ r.na = disk["out"].chain.rem
                  /\ r.chain \in Chains /\ r.key \in Keys
<1> DEFINE was == task["hup"]
           new == NewTask("dns", sans)
           x   == disk["out"]
           got == StaticTask
<1>1. "hup" \in Tasks /\ CertShapes /\ was \in TaskRecs
  BY Zenon, TaskFields DEF CertState, Tasks
<1>2. new \in TaskRecs /\ new.pc = "load" /\ new.key # Wrong
  <2>1. "dns" \in {"dns", "http01", "manual"}
    BY Zenon
  <2>2. new \in TaskRecs /\ new = [pc |-> "load", how |-> "dns", sans |-> sans, chain |-> NoName, key |-> NoName, na |-> 0]
    BY Zenon, <2>1, NewIsTask
  <2> HIDE DEF new
  <2> QED
    BY Zenon, <2>2, NoneIsNone
<1>3. x \in DiskRecs
  BY Zenon, <1>1, DiskFields DEF Dirs
<1>4. /\ got = [pc |-> "swap", how |-> "dns", sans |-> {}, chain |-> x.chain, key |-> x.key, na |-> x.chain.rem]
  BY Zenon DEF StaticTask
<1>5. Loadable("out") => x.chain \in Chains /\ x.key \in Keys /\ got \in TaskRecs
  <2>1. Loadable("out") => x.chain \in Chains /\ x.key \in Keys
    BY Zenon, <1>3 DEF Loadable, DiskRecs
  <2> HIDE DEF x
  <2>2. x.chain \in Chains => x.chain.rem \in Times
    BY Zenon DEF Chains, Times
  <2> QED
    BY Zenon, <1>4, <2>1, <2>2 DEF TaskRecs, Pcs, SanSets
<1>6. PICK r \in {was, new, got} : /\ task' = [task EXCEPT !["hup"] = r]
                                   /\ r = was \/ (r = new /\ proc.acme.enabled)
                                              \/ (r = got /\ ~proc.acme.enabled /\ Loadable("out"))
  BY Zenon
<1> HIDE DEF was, new, got
<1>7. r \in TaskRecs
  BY Zenon, <1>1, <1>2, <1>5, <1>6
<1>8. Becomes("hup", r)
  BY Zenon, <1>1, <1>6, <1>7, Replaced
<1>9. /\ r = was => r.pc = "idle" /\ r.key = task["hup"].key
      /\ r = got => r.pc = "swap" /\ r.chain = x.chain /\ r.key = x.key /\ r.na = x.chain.rem
  BY <1>4 DEF was
<1> QED
  BY Zenon, <1>2, <1>5, <1>6, <1>7, <1>8, <1>9

\* SIGHUP.
LEMMA HupStep ==
  ASSUME CertState, NEW f \in budget.files, budget.files \subseteq CertFiles, Sighup(f)
  PROVE  CertState'
<1> DEFINE c == IF proc.source = "toml" THEN load(f) ELSE load_from_env(f)
           sans == effective_acme_domains(c)
<1>1. /\ Serving /\ task["hup"].pc = "idle" /\ proc # Down /\ CertShapes /\ "hup" \in Tasks
      /\ UNCHANGED <<primary, disk, planted, hs, leaked>>
      /\ c # Error /\ proc' = Reloaded(c, proc) /\ extra' = build_extra_cert_map(c.certs)
      /\ torn' = (torn \/ (HalfWritten("out") /\ (~proc.acme.enabled \/ DOMAIN c.certs # {})))
      /\ acmeCfg' \in {acmeCfg, sans}
      /\ IF proc.acme.enabled
         THEN task' = [task EXCEPT !["hup"] = IF sans = {} THEN @ ELSE NewTask("dns", sans)]
         ELSE task' = [task EXCEPT !["hup"] = IF ~Loadable("out") THEN @ ELSE StaticTask]
  BY Zenon DEF Sighup, Serving, Idle, CertState, Tasks
<1>2. c \in Loads /\ sans \in SanSets
  BY Zenon, <1>1, LoadedFacts, BudgetsTyped
<1> HIDE DEF c, sans
<1>3. ProcShape' /\ proc' # Down /\ proc'.acme.enabled = proc.acme.enabled
  BY Zenon, <1>1, <1>2, ReloadShape
<1>4. PICK r \in TaskRecs :
            /\ Becomes("hup", r)
            /\ \/ r.pc = "idle" /\ r.key = task["hup"].key
               \/ r.pc = "load" /\ r.key # Wrong /\ proc.acme.enabled
               \/ /\ r.pc = "swap" /\ ~proc.acme.enabled /\ r.chain = disk["out"].chain
                  /\ r.key = disk["out"].key /\ r.na = disk["out"].chain.rem
                  /\ r.chain \in Chains /\ r.key \in Keys
  BY Zenon, <1>1, <1>2, HupTask
<1>5. torn' \in BOOLEAN /\ (torn => torn') /\ acmeCfg' \in SanSets
  BY <1>1, <1>2, Zenon DEF CertShapes
<1>6. /\ \A h \in DOMAIN extra' : extra'[h] \in [chain : Chains, key : Keys]
      /\ ~torn' => \A h \in DOMAIN extra' : Matches(extra'[h])
  <2>1. \A h \in DOMAIN c.certs : c.certs[h] = "out"
    BY Zenon, <1>2, LoadsTyped
  <2> QED
    BY Zenon, <1>1, <2>1, ExtraFacts
<1>7. SameProcess("hup")
  <2>1. "boot" \in Tasks /\ task'["boot"] = task["boot"]
    BY Zenon, <1>4 DEF Becomes, Tasks
  <2> QED
    BY Zenon, <1>1, <1>3, <2>1 DEF SameProcess, Serving
<1>8. Stage("hup")'
  BY Zenon, <1>1, <1>3, <1>4, <1>7 DEF Stage, Becomes, SameProcess, NoAcmeOn
<1>9. Held("hup")'
  <2>1. r.chain \in Chains => r.chain.rem \in Nat
    BY CertTimes DEF Chains
  <2> QED
    <3>1. task'["hup"] = r
      BY Zenon, <1>4 DEF Becomes, Tasks
    <3>2. CASE r.pc = "idle" \/ r.pc = "load"
      BY ONLY <3>1, <3>2, Zenon DEF Held
    <3>3. CASE r.pc = "swap"
      <4>1. ~WithAcme' /\ r.chain \in Chains /\ r.key \in Keys /\ r.na = r.chain.rem
        BY ONLY Zenon, <1>3, <1>4, <3>3 DEF WithAcme
      <4>2. r.na <= r.chain.rem
        BY ONLY <2>1, <4>1
      <4> QED
        BY ONLY <3>1, <3>3, <4>1, <4>2, Zenon DEF Held
    <3> QED
      BY ONLY <1>4, <3>2, <3>3, Zenon
<1>10. CertShapes'
  BY <1>1, <1>3, <1>4, <1>5, <1>6, <1>7, Zenon DEF CertShapes, Becomes, SameProcess
<1>11. StageInv'
  BY Zenon, <1>1, <1>4, <1>7, <1>8, <1>9, StageStep
<1>12. DiskInv'
  BY Zenon, <1>1, <1>4, DiskStep
<1>13. KeysInv'
  <2>1. ~torn' => r.key # Wrong
    <3>1. "out" \in Dirs
      BY Zenon DEF Dirs
    <3>2. ~torn' /\ ~proc.acme.enabled => disk["out"].key # Wrong
      BY <1>1, <3>1, Zenon DEF CertState, KeysInv, PairsMatch, Matches
    <3> QED
      BY Zenon, <1>1, <1>4, <1>5, <3>2 DEF CertState, KeysInv
  <2> QED
    BY Zenon, <1>1, <1>4, <1>5, <1>6, <2>1, KeysStep
<1>14. ExpiryInv'
  BY Zenon, <1>1, <1>4, <1>5, <1>7, ExpiryStep
<1>15. StaticInv'
  <2>1. NoAcmeOn /\ r.pc = "swap" => /\ primary.chain.rem <= r.chain.rem
                                     /\ r.chain.rem <= disk["out"].chain.rem
    <3>1. disk["out"].chain \in Chains => disk["out"].chain.rem \in Nat
      BY CertTimes DEF Chains
    <3> QED
      BY <1>4, <3>1 DEF CertState, StaticInv
  <2> QED
    BY Zenon, <1>1, <1>4, <1>7, <2>1, StaticStep
<1>16. ChallengesCleaned'
  <2>1. "hup" \in planted' => "hup" \in leaked'
    BY Zenon, <1>1 DEF CertState, ChallengesCleaned
  <2> QED
    BY Zenon, <1>1, <1>4, <2>1, ChallengeStep
<1> QED
  BY Zenon, <1>10, <1>11, <1>12, <1>13, <1>14, <1>15, <1>16 DEF CertState

\* main() up to its first certificate, or with a static pair up to serving.
LEMMA BootStep ==
  ASSUME CertState, NEW f \in budget.files, budget.files \subseteq CertFiles, Boot(f)
  PROVE  CertState'
<1> DEFINE c == load(f)
           sans == effective_acme_domains(c)
<1>1. /\ proc = Down /\ c # Error /\ proc' = c /\ CertShapes /\ UNCHANGED <<disk, planted, hs, leaked>>
      /\ \/ /\ c.acme.enabled /\ acmeCfg' = sans
            /\ task' = [task EXCEPT !["boot"] = NewTask("dns", sans)]
            /\ UNCHANGED <<primary, extra, torn>>
         \/ /\ ~c.acme.enabled /\ Loadable("out")
            /\ primary' = [chain |-> disk["out"].chain, key |-> disk["out"].key,
                           na |-> disk["out"].chain.rem, tlsNa |-> disk["out"].chain.rem]
            /\ extra' = build_extra_cert_map(c.certs)
            /\ torn' = (torn \/ HalfWritten("out"))
            /\ UNCHANGED <<acmeCfg, task>>
  BY Zenon DEF Boot, StartupRefused, CertState
<1>2. c \in Loads /\ sans \in SanSets
  BY Zenon, <1>1, LoadedFacts, BudgetsTyped
<1> HIDE DEF c, sans
<1>3. /\ ~Serving /\ task["renew"].pc = "idle" /\ task["hup"].pc = "idle" /\ hs = NoName
      /\ "boot" \in Tasks /\ "cli" \in Tasks /\ task["boot"].pc = "idle" /\ proc' # Down /\ ProcShape'
      /\ \A h \in DOMAIN c.certs : c.certs[h] = "out"
  <2>1. ~Serving
    BY Zenon, <1>1 DEF Serving
  <2>2. "boot" \in Tasks /\ "cli" \in Tasks
    BY Zenon DEF Tasks
  <2>3. task["boot"].pc = "idle"
    BY <1>1, <2>2, Zenon DEF CertState, StageInv, Stage
  <2>4. proc' # Down
    BY Zenon, <1>1, <1>2, DownIsNone
  <2>5. \A h \in DOMAIN c.certs : c.certs[h] = "out"
    BY Zenon, <1>2, LoadsTyped
  <2>6. ProcShape'
    BY <1>1, <1>2, <2>5, Zenon DEF ProcShape, Settings
  <2> QED
    BY Zenon, <2>1, <2>2, <2>3, <2>4, <2>5, <2>6, NotServing
<1>4. CASE /\ c.acme.enabled /\ acmeCfg' = sans
           /\ task' = [task EXCEPT !["boot"] = NewTask("dns", sans)]
           /\ UNCHANGED <<primary, extra, torn>>
  <2> DEFINE r == NewTask("dns", sans)
  <2>1. r \in TaskRecs /\ r.pc = "load" /\ r.key # Wrong
    <3>1. "dns" \in {"dns", "http01", "manual"}
      BY Zenon
    <3>2. r \in TaskRecs /\ r = [pc |-> "load", how |-> "dns", sans |-> sans, chain |-> NoName, key |-> NoName, na |-> 0]
      BY Zenon, <1>2, <3>1, NewIsTask
    <3> HIDE DEF r
    <3> QED
      BY Zenon, <3>2, NoneIsNone
  <2> HIDE DEF r
  <2>2. Becomes("boot", r)
    BY <1>1, <1>3, <1>4, <2>1, Replaced, Zenon DEF r
  <2>3. ~Serving' /\ ~NoAcmeOn'
    BY <1>1, <1>4, <2>1, <2>2, Zenon DEF Serving, Becomes, NoAcmeOn
  <2>4. CertShapes'
    BY <1>1, <1>2, <1>3, <1>4, <2>2, <2>3, Zenon DEF CertShapes, Becomes
  <2>5. StageInv'
    <3>1. Stage("boot")' /\ Held("boot")'
      BY <1>3, <2>1, <2>2, <2>3, Zenon DEF Stage, Held, Becomes
    <3>2. Stage("cli")' /\ Held("cli")'
      <4>1. task'["cli"] = task["cli"] /\ Stage("cli") /\ Held("cli")
        BY Zenon, <1>3, <2>2 DEF Becomes, CertState, StageInv
      <4> QED
        BY <4>1, Zenon DEF Stage, Held
    <3>3. \A t \in {"renew", "hup"} : Stage(t)' /\ Held(t)'
      BY <1>3, <2>2, Zenon DEF Stage, Held, Becomes, Tasks
    <3> QED
      BY <1>1, <1>3, <3>1, <3>2, <3>3, Zenon DEF StageInv, Tasks
  <2>6. DiskInv'
    BY Zenon, <1>1, <1>3, <2>1, <2>2, DiskStep
  <2>7. KeysInv'
    <3>1. ~torn' => \A h \in DOMAIN extra' : Matches(extra'[h])
      BY <1>4, Zenon DEF CertState, KeysInv, PairsMatch
    <3> QED
      BY Zenon, <1>1, <1>3, <1>4, <2>1, <2>2, <3>1, KeysStep
  <2>8. ExpiryInv' /\ StaticInv'
    <3>1. hs' # Primary
      BY Zenon, <1>1, <1>3, NoNameIsNone
    <3> QED
      BY <2>3, <3>1, Zenon DEF ExpiryInv, NoExpiringCertPresented, StaticInv
  <2>9. ChallengesCleaned'
    <3>1. "boot" \in planted' => "boot" \in leaked'
      BY <1>1, <1>3, Zenon DEF CertState, ChallengesCleaned
    <3> QED
      BY Zenon, <1>1, <1>3, <2>2, <3>1, ChallengeStep
  <2> QED
    BY Zenon, <2>4, <2>5, <2>6, <2>7, <2>8, <2>9 DEF CertState
<1>5. CASE /\ ~c.acme.enabled /\ Loadable("out")
           /\ primary' = [chain |-> disk["out"].chain, key |-> disk["out"].key,
                          na |-> disk["out"].chain.rem, tlsNa |-> disk["out"].chain.rem]
           /\ extra' = build_extra_cert_map(c.certs)
           /\ torn' = (torn \/ HalfWritten("out"))
           /\ UNCHANGED <<acmeCfg, task>>
  <2>1. /\ "out" \in Dirs /\ disk["out"].chain \in Chains /\ disk["out"].key \in Keys
        /\ disk["out"].chain.rem \in Times
    <3>1. "out" \in Dirs /\ disk["out"] \in DiskRecs
      BY <1>1, DiskFields, Zenon DEF Dirs
    <3> QED
      BY <1>5, <3>1, Zenon DEF Loadable, DiskRecs, Chains, Times
  <2>2. /\ primary' \in PrimRecs /\ primary'.chain = disk["out"].chain /\ primary'.key = disk["out"].key
        /\ primary'.na = primary'.chain.rem
    BY <1>5, <2>1, Zenon DEF PrimRecs
  <2>3. /\ \A h \in DOMAIN extra' : extra'[h] \in [chain : Chains, key : Keys]
        /\ ~torn' => \A h \in DOMAIN extra' : Matches(extra'[h])
    BY Zenon, <1>3, <1>5, ExtraFacts
  <2>4. CertShapes'
    BY <1>1, <1>3, <1>5, <2>1, <2>2, <2>3, Zenon DEF CertShapes
  <2>5. StageInv'
    <3>1. Stage("cli")' /\ Held("cli")'
      <4>1. task'["cli"] = task["cli"] /\ Stage("cli") /\ Held("cli")
        BY <1>3, <1>5, Zenon DEF CertState, StageInv
      <4> QED
        BY <4>1, Zenon DEF Stage, Held
    <3>2. \A t \in {"boot", "renew", "hup"} : Stage(t)' /\ Held(t)'
      BY <1>3, <1>5, Zenon DEF Stage, Held
    <3> QED
      BY <1>1, <1>3, <3>1, <3>2, Zenon DEF StageInv, Tasks
  <2>6. DiskInv'
    BY <1>1, <1>5, Zenon DEF CertState, DiskInv
  <2>7. KeysInv'
    <3>1. SUFFICES ASSUME ~torn'
                   PROVE  KeysInv'
      BY Zenon DEF KeysInv, PairsMatch
    <3>2. ~torn /\ ~HalfWritten("out")
      BY Zenon, <1>5, <3>1
    <3>3. disk["out"].key # Wrong
      BY <2>1, <3>2, Zenon DEF CertState, KeysInv, PairsMatch, Matches
    <3>4. \A d \in Dirs : HalfWritten(d) => HalfWritten(d)'
      BY <1>5, Zenon DEF HalfWritten
    <3>5. PairsMatch'
      BY <1>1, <2>2, <2>3, <3>1, <3>2, <3>3, <3>4, Zenon DEF CertState, KeysInv, PairsMatch, Matches
    <3> QED
      BY <1>1, <1>5, <3>2, <3>5, Zenon DEF CertState, KeysInv
  <2>8. ExpiryInv'
    <3>1. \A t \in Tasks : task'[t].pc # "expiry"
      BY <1>3, <1>5, Zenon DEF Tasks, CertState, StageInv, Stage
    <3> QED
      BY Zenon, <1>1, <1>3, <2>1, <2>2, <3>1, FreshPrimary
  <2>9. StaticInv'
    <3>1. disk["out"].chain.rem \in Nat
      BY <2>1, CertTimes DEF Times
    <3>2. disk' = disk /\ task' = task /\ task["hup"].pc = "idle"
      BY Zenon, <1>1, <1>3, <1>5
    <3>3. disk'["out"].chain \in Chains /\ primary'.chain.rem <= disk'["out"].chain.rem
      BY <2>1, <2>2, <3>1, <3>2
    <3> QED
      BY Zenon, <3>2, <3>3 DEF StaticInv
  <2>10. ChallengesCleaned'
    BY <1>1, <1>5, Zenon DEF CertState, ChallengesCleaned
  <2> QED
    BY Zenon, <2>4, <2>5, <2>6, <2>7, <2>8, <2>9, <2>10 DEF CertState
<1> QED
  BY Zenon, <1>1, <1>4, <1>5

\* The process dies: its tasks and its memory are gone, the files and the
\* "cert issue" command stay.
LEMMA CrashStep ==
  ASSUME CertState, Crash
  PROVE  CertState'
<1>1. /\ CertShapes /\ proc' = Down /\ "cli" \in Tasks /\ primary' = NoPrimary /\ extra' = <<>> /\ hs' = NoName
      /\ task' = [t \in Tasks |-> IF t = "cli" THEN task[t] ELSE IdleTask]
      /\ leaked' = leaked \cup (planted \ {"cli"}) /\ planted' = planted
      /\ torn' = (torn \/ HalfWritten("acme")) /\ acmeCfg' = {}
      /\ disk' = [disk EXCEPT !["acme"].by = NoName]
  BY Zenon DEF Crash, CertState, Tasks
<1>2. /\ task'["cli"] = task["cli"] /\ IdleTask.pc = "idle" /\ IdleTask.key # Wrong
      /\ \A t \in Tasks : t # "cli" => task'[t] = IdleTask
      /\ task' \in [Tasks -> TaskRecs]
  BY Zenon, <1>1, IdleIsTask DEF CertShapes
<1>3. /\ disk' \in [Dirs -> DiskRecs]
      /\ \A d \in Dirs : /\ disk'[d].chain = disk[d].chain /\ disk'[d].key = disk[d].key
                         /\ disk'[d].meta = disk[d].meta
                         /\ d # "acme" => disk'[d].by = disk[d].by
  <2> DEFINE was == disk["acme"]
             x == [chain |-> was.chain, key |-> was.key, meta |-> was.meta, by |-> NoName]
  <2>1. "acme" \in Dirs /\ was \in DiskRecs
        /\ was = [chain |-> was.chain, key |-> was.key, meta |-> was.meta, by |-> was.by]
    BY Zenon, <1>1, DiskFields DEF Dirs
  <2>2. /\ disk' = [disk EXCEPT !["acme"] = [was EXCEPT !.by = NoName]]
    BY Zenon, <1>1
  <2> HIDE DEF was
  <2>3. [was EXCEPT !.by = NoName] = x
    BY <2>1
  <2>4. x \in DiskRecs
    BY Zenon, <2>1 DEF DiskRecs
  <2>5. x.chain = was.chain /\ x.key = was.key /\ x.meta = was.meta
    BY Zenon
  <2> HIDE DEF x
  <2>6. /\ disk' \in [Dirs -> DiskRecs] /\ disk'["acme"] = x
        /\ \A d \in Dirs : d # "acme" => disk'[d] = disk[d]
    BY Zenon, <1>1, <2>1, <2>2, <2>3, <2>4 DEF CertShapes
  <2> QED
    BY Zenon, <2>5, <2>6 DEF was
<1>4. ~Serving' /\ ~NoAcmeOn' /\ ~WithAcme'
  BY Zenon, <1>1 DEF Serving, NoAcmeOn, WithAcme
<1>5. CertShapes'
  <2>1. primary' \in PrimRecs
    BY <1>1, CertTimes DEF NoPrimary, PrimRecs, Times
  <2>2. {} \in SanSets
    BY Zenon DEF SanSets
  <2>3. ProcShape'
    BY Zenon, <1>1 DEF ProcShape
  <2>4. torn' \in BOOLEAN /\ planted' \subseteq Tasks /\ leaked' \subseteq Tasks
    BY Zenon, <1>1 DEF CertShapes
  <2>5. DOMAIN extra' = {}
    BY <1>1
  <2> QED
    BY Zenon, <1>1, <1>2, <1>3, <1>4, <2>1, <2>2, <2>3, <2>4, <2>5 DEF CertShapes
<1>6. StageInv'
  <2>1. Stage("cli")' /\ Held("cli")'
    <3>1. Stage("cli") /\ Held("cli")
      BY Zenon, <1>1 DEF CertState, StageInv
    <3> QED
      BY <1>2, <1>4, <3>1, Zenon DEF Stage, Held
  <2>2. \A t \in Tasks : t # "cli" => Stage(t)' /\ Held(t)'
    BY <1>2, <1>4, Zenon DEF Stage, Held
  <2> QED
    BY Zenon, <1>1, <2>1, <2>2 DEF StageInv
<1>7. \A t \in Tasks : /\ task'[t].pc \in {"key", "meta"} => t = "cli"
                       /\ Dir(t) \in Dirs /\ (t = "cli" => Dir(t) = "out")
                       /\ t # "cli" => Dir(t) = "acme"
  BY Zenon, <1>2, DirOf DEF Dir
<1>8. DiskInv'
  BY <1>2, <1>3, <1>7, Zenon DEF CertState, DiskInv
<1>9. KeysInv'
  <2>1. SUFFICES ASSUME ~torn'
                 PROVE  KeysInv'
    BY Zenon DEF KeysInv, PairsMatch
  <2>2. ~torn /\ ~HalfWritten("acme")
    BY Zenon, <1>1, <2>1
  <2>3. \A t \in Tasks : task'[t].key # Wrong
    BY Zenon, <1>2, <2>2 DEF CertState, KeysInv
  <2>4. \A t \in Tasks : task'[t].pc = "key" => disk'[Dir(t)].by = t
    BY <1>2, <1>3, <1>7, <2>2 DEF CertState, KeysInv
  <2>5. HalfWritten("out") => HalfWritten("out")'
    BY Zenon, <1>1, <1>2, <1>7 DEF HalfWritten
  <2>6. \A d \in Dirs : Matches(disk[d])' \/ HalfWritten(d)'
    BY Zenon, <1>3, <2>2, <2>5 DEF CertState, KeysInv, PairsMatch, Matches, Dirs
  <2>7. Matches(primary)'
    BY Zenon, <1>1, NoNameIsNone DEF NoPrimary, Matches, Wrong
  <2>8. DOMAIN extra' = {}
    BY <1>1
  <2>9. PairsMatch'
    BY Zenon, <2>6, <2>7, <2>8 DEF PairsMatch
  <2> QED
    BY <2>3, <2>4, <2>9, Zenon DEF KeysInv
<1>10. ExpiryInv' /\ StaticInv'
  BY Zenon, <1>1, <1>4, NoNameIsNone DEF ExpiryInv, NoExpiringCertPresented, StaticInv
<1>11. ChallengesCleaned'
  BY Zenon, <1>1, <1>2 DEF CertState, ChallengesCleaned
<1> QED
  BY Zenon, <1>5, <1>6, <1>8, <1>9, <1>10, <1>11 DEF CertState

----------------------------------------------------------------------------
(* Time and handshakes.                                                      *)

\* A chain after a unit of time.
Aged(chain) == IF chain = NoName THEN NoName ELSE [sans |-> chain.sans, rem |-> Less(chain.rem)]

\* Time left never grows, and never goes below nothing.
LEMMA LessFacts ==
  ASSUME NEW n \in Times, NEW m \in Times, n <= m
  PROVE  Less(n) \in Times /\ Less(m) \in Times /\ Less(n) <= Less(m)
BY CertTimes DEF Less, Times

\* A chain ages by one, and stays a chain.
LEMMA AgedChain ==
  ASSUME NEW chain \in Chains
  PROVE  /\ [chain EXCEPT !.rem = Less(chain.rem)] = Aged(chain)
         /\ Aged(chain) \in Chains /\ Aged(chain).rem = Less(chain.rem) /\ chain.rem \in Times
<1>1. chain.rem \in Times /\ chain # NoName /\ chain = [sans |-> chain.sans, rem |-> chain.rem] /\ chain.sans \in SanSets
  BY NoNameIsNone, Zenon DEF Chains, Times
<1>2. Less(chain.rem) \in Times
  BY <1>1, CertTimes DEF Less, Times
<1>3. Aged(chain) = [sans |-> chain.sans, rem |-> Less(chain.rem)]
  BY Zenon, <1>1 DEF Aged
<1>4. [chain EXCEPT !.rem = Less(chain.rem)] = [sans |-> chain.sans, rem |-> Less(chain.rem)]
  BY <1>1
<1> QED
  BY Zenon, <1>1, <1>2, <1>3, <1>4 DEF Chains, Times

\* The files of a directory age: the chain and what metadata.json says.
LEMMA AgedDisk ==
  ASSUME CertShapes, Tick, NEW d \in Dirs
  PROVE  /\ disk'[d] \in DiskRecs
         /\ disk'[d].chain = Aged(disk[d].chain) /\ disk'[d].key = disk[d].key /\ disk'[d].by = disk[d].by
         /\ disk'[d].meta = IF disk[d].meta = NoName THEN NoName ELSE Less(disk[d].meta)
<1> DEFINE x == disk[d]
           m == IF x.meta = NoName THEN NoName ELSE Less(x.meta)
<1>1. x \in DiskRecs /\ x = [chain |-> x.chain, key |-> x.key, meta |-> x.meta, by |-> x.by]
  BY Zenon, DiskFields
<1>2. disk'[d] = [Age(x) EXCEPT !.meta = IF @ = NoName THEN @ ELSE Less(@)]
  BY Zenon DEF Tick
<1> HIDE DEF x
<1>3. x.chain \in Chains \/ x.chain = NoName
  BY Zenon, <1>1 DEF DiskRecs
<1>4. Age(x) = [chain |-> Aged(x.chain), key |-> x.key, meta |-> x.meta, by |-> x.by]
  <2>1. CASE x.chain = NoName
    BY Zenon, <1>1, <2>1 DEF Age, Aged
  <2>2. CASE x.chain # NoName
    <3>1. Age(x) = [x EXCEPT !.chain = [x.chain EXCEPT !.rem = Less(x.chain.rem)]]
      BY Zenon, <2>2 DEF Age
    <3>2. Age(x) = [x EXCEPT !.chain = Aged(x.chain)]
      BY Zenon, <1>3, <2>2, <3>1, AgedChain
    <3> QED
      BY Zenon, <1>1, <3>2
  <2> QED
    BY Zenon, <2>1, <2>2
<1>5. disk'[d] = [chain |-> Aged(x.chain), key |-> x.key, meta |-> m, by |-> x.by]
  BY <1>2, <1>4
<1>6. Aged(x.chain) \in Chains \cup {NoName}
  BY <1>3, AgedChain, Zenon DEF Aged
<1>7. m \in Times \cup {NoName}
  BY <1>1, CertTimes DEF DiskRecs, Less, Times
<1> HIDE DEF m
<1>8. disk'[d] \in DiskRecs
  BY <1>1, <1>5, <1>6, <1>7 DEF DiskRecs
<1> QED
  BY <1>5, <1>8 DEF m, x

\* The primary ages with its two expiry times.
LEMMA AgedPrimary ==
  ASSUME CertShapes, Tick
  PROVE  /\ primary' \in PrimRecs
         /\ primary'.chain = Aged(primary.chain) /\ primary'.key = primary.key /\ primary'.na = Less(primary.na)
<1> DEFINE x == primary
<1>1. x \in PrimRecs /\ x = [chain |-> x.chain, key |-> x.key, na |-> x.na, tlsNa |-> x.tlsNa]
  BY Zenon, PrimaryFields DEF CertShapes
<1>2. primary' = [chain |-> Age(x).chain, key |-> x.key, na |-> Less(x.na), tlsNa |-> Less(x.tlsNa)]
  BY Zenon DEF Tick
<1> HIDE DEF x
<1>3. x.chain \in Chains \/ x.chain = NoName
  BY Zenon, <1>1 DEF PrimRecs
<1>4. Age(x) = [chain |-> Aged(x.chain), key |-> x.key, na |-> x.na, tlsNa |-> x.tlsNa]
  <2>1. CASE x.chain = NoName
    BY Zenon, <1>1, <2>1 DEF Age, Aged
  <2>2. CASE x.chain # NoName
    <3>1. Age(x) = [x EXCEPT !.chain = [x.chain EXCEPT !.rem = Less(x.chain.rem)]]
      BY Zenon, <2>2 DEF Age
    <3>2. Age(x) = [x EXCEPT !.chain = Aged(x.chain)]
      BY Zenon, <1>3, <2>2, <3>1, AgedChain
    <3> QED
      BY Zenon, <1>1, <3>2
  <2> QED
    BY Zenon, <2>1, <2>2
<1>5. primary' = [chain |-> Aged(x.chain), key |-> x.key, na |-> Less(x.na), tlsNa |-> Less(x.tlsNa)]
  BY <1>2, <1>4
<1>6. Aged(x.chain) \in Chains \cup {NoName}
  BY <1>3, AgedChain, Zenon DEF Aged
<1>7. Less(x.na) \in Times /\ Less(x.tlsNa) \in Times
  BY <1>1, CertTimes DEF PrimRecs, Less, Times
<1>8. primary' \in PrimRecs
  BY Zenon, <1>1, <1>5, <1>6, <1>7 DEF PrimRecs
<1> QED
  BY <1>5, <1>8, Zenon DEF x

\* So do the bring-your-own certificates.
LEMMA AgedExtra ==
  ASSUME CertShapes, Tick, NEW h \in DOMAIN extra'
  PROVE  h \in DOMAIN extra /\ extra'[h] \in [chain : Chains, key : Keys] /\ extra'[h].key = extra[h].key
<1> DEFINE x == extra[h]
<1>1. h \in DOMAIN extra /\ extra'[h] = Age(x)
  BY Zenon DEF Tick
<1>2. x \in [chain : Chains, key : Keys]
  BY Zenon, <1>1 DEF CertShapes
<1> HIDE DEF x
<1>3. x = [chain |-> x.chain, key |-> x.key] /\ x.chain \in Chains /\ x.key \in Keys /\ x.chain # NoName
  BY Zenon, <1>2, NoNameIsNone DEF Chains
<1>4. Age(x) = [x EXCEPT !.chain = [x.chain EXCEPT !.rem = Less(x.chain.rem)]]
  BY Zenon, <1>3 DEF Age
<1>5. Age(x) = [x EXCEPT !.chain = Aged(x.chain)]
  BY Zenon, <1>3, <1>4, AgedChain
<1>6. Age(x) = [chain |-> Aged(x.chain), key |-> x.key]
  BY Zenon, <1>3, <1>5
<1>7. Aged(x.chain) \in Chains
  BY Zenon, <1>3, AgedChain
<1> QED
  BY <1>1, <1>3, <1>6, <1>7 DEF x

\* Time passes.
LEMMA TickStep ==
  ASSUME CertState, Tick
  PROVE  CertState'
<1>1. /\ CertShapes /\ hs = NoName /\ (\A t \in Tasks : task[t].pc = "idle")
      /\ UNCHANGED <<proc, acmeCfg, task, planted, hs, leaked, torn>>
  BY Zenon DEF Tick, Idle, CertState
<1>2. Serving' <=> Serving
  BY Zenon, <1>1 DEF Serving
<1>3. /\ primary' \in PrimRecs
      /\ primary'.chain = Aged(primary.chain) /\ primary'.key = primary.key /\ primary'.na = Less(primary.na)
  BY Zenon, <1>1, AgedPrimary
<1>4. disk' \in [Dirs -> DiskRecs]
  <2>1. disk' = [d \in Dirs |-> disk'[d]]
    BY Zenon DEF Tick
  <2>2. \A d \in Dirs : disk'[d] \in DiskRecs
    BY Zenon, <1>1, AgedDisk
  <2> QED
    BY Zenon, <2>1, <2>2
<1>5. CertShapes'
  <2>1. Serving' => primary'.chain \in Chains /\ primary'.key \in Keys
    BY Zenon, <1>1, <1>2, <1>3, AgedChain DEF CertShapes
  <2>2. \A h \in DOMAIN extra' : extra'[h] \in [chain : Chains, key : Keys]
    BY Zenon, <1>1, AgedExtra
  <2>3. ProcShape'
    BY <1>1, Zenon DEF CertShapes, ProcShape
  <2> QED
    BY <1>1, <1>3, <1>4, <2>1, <2>2, <2>3, Zenon DEF CertShapes
<1>6. StageInv'
  <2>1. \A t \in Tasks : Stage(t)' /\ Held(t)'
    BY <1>1, Zenon DEF Stage, Held
  <2> QED
    BY <1>1, <2>1, Zenon DEF StageInv
<1>7. DiskInv'
  <2>1. ASSUME NEW d \in Dirs, disk'[d].chain # NoName, disk'[d].meta # NoName
        PROVE  disk'[d].meta <= disk'[d].chain.rem
    <3>1. /\ disk[d].chain # NoName /\ disk[d].meta # NoName
          /\ disk'[d].meta = Less(disk[d].meta) /\ disk'[d].chain = Aged(disk[d].chain)
      BY <1>1, <2>1, AgedDisk, Zenon DEF Aged
    <3>2. disk[d].chain \in Chains /\ disk[d].meta \in Times
      BY <1>1, <3>1, DiskFields, Zenon DEF DiskRecs
    <3>3. disk[d].meta <= disk[d].chain.rem
      BY <3>1, Zenon DEF CertState, DiskInv
    <3>4. disk'[d].chain.rem = Less(disk[d].chain.rem) /\ disk[d].chain.rem \in Times
      BY Zenon, <3>1, <3>2, AgedChain
    <3> QED
      BY Zenon, <3>1, <3>2, <3>3, <3>4, LessFacts
  <2> QED
    BY Zenon, <1>1, <2>1 DEF DiskInv
<1>8. KeysInv'
  <2>1. \A d \in Dirs : disk'[d].key = disk[d].key /\ (HalfWritten(d)' <=> HalfWritten(d))
    BY <1>1, AgedDisk, Zenon DEF HalfWritten
  <2>2. \A h \in DOMAIN extra' : h \in DOMAIN extra /\ extra'[h].key = extra[h].key
    BY Zenon, <1>1, AgedExtra
  <2>3. PairsMatch'
    BY <1>1, <1>3, <2>1, <2>2, Zenon DEF CertState, KeysInv, PairsMatch, Matches
  <2> QED
    BY Zenon, <1>1, <2>3 DEF CertState, KeysInv
<1>9. ExpiryInv'
  <2>1. hs' # Primary
    BY Zenon, <1>1, NoNameIsNone
  <2>2. SUFFICES ASSUME ~torn, Serving
                 PROVE  ExpiryInv'
    BY Zenon, <1>1, <1>2, <2>1 DEF ExpiryInv, NoExpiringCertPresented
  <2>3. primary.chain \in Chains /\ primary.na \in Times /\ primary.na <= primary.chain.rem
    BY <1>1, <2>2, Zenon DEF CertShapes, PrimRecs, CertState, ExpiryInv
  <2>4. /\ primary'.chain.rem = Less(primary.chain.rem) /\ primary.chain.rem \in Times
    BY Zenon, <1>3, <2>3, AgedChain
  <2>5. /\ primary'.na <= primary'.chain.rem /\ primary'.na \in Times /\ primary'.chain.rem \in Times
    BY Zenon, <1>3, <2>3, <2>4, LessFacts
  <2>6. primary'.na >= FailWithin => primary'.chain.rem >= FailWithin
    BY <2>5, CertTimes DEF Times
  <2> QED
    BY Zenon, <1>1, <2>1, <2>5, <2>6 DEF ExpiryInv, NoExpiringCertPresented
<1>10. StaticInv'
  <2>1. SUFFICES ASSUME NoAcmeOn
                 PROVE  StaticInv'
    BY <1>1, Zenon DEF StaticInv, NoAcmeOn
  <2>2. Serving /\ "hup" \in Tasks /\ "out" \in Dirs
    BY Zenon, <1>1, <2>1 DEF Serving, NoAcmeOn, Tasks, Dirs
  <2>3. /\ primary.chain \in Chains /\ disk["out"].chain \in Chains
        /\ primary.chain.rem <= disk["out"].chain.rem
    BY <1>1, <2>1, <2>2, Zenon DEF CertShapes, CertState, StaticInv
  <2>4. disk'["out"].chain = Aged(disk["out"].chain)
    BY Zenon, <1>1, <2>2, AgedDisk
  <2>5. /\ primary'.chain.rem = Less(primary.chain.rem) /\ primary.chain.rem \in Times
        /\ disk'["out"].chain.rem = Less(disk["out"].chain.rem) /\ disk["out"].chain.rem \in Times
        /\ disk'["out"].chain \in Chains
    BY Zenon, <1>3, <2>3, <2>4, AgedChain
  <2>6. primary'.chain.rem <= disk'["out"].chain.rem
    BY Zenon, <2>3, <2>5, LessFacts
  <2> QED
    BY Zenon, <1>1, <2>2, <2>5, <2>6 DEF StaticInv
<1>11. ChallengesCleaned'
  BY Zenon, <1>1 DEF CertState, ChallengesCleaned
<1> QED
  BY Zenon, <1>5, <1>6, <1>7, <1>8, <1>9, <1>10, <1>11 DEF CertState

\* A handshake chooses a certificate, or presents it.
LEMMA HandshakeStep ==
  ASSUME CertState, NEW sni, ResolveSni(sni) \/ PresentCert
  PROVE  CertState'
<1>1. /\ UNCHANGED <<proc, acmeCfg, primary, extra, disk, task, planted, leaked, torn>>
      /\ \/ hs' = NoName
         \/ Serving /\ hs' = <<sni>>
         \/ Serving /\ hs' = Primary /\ ~(primary.na < FailWithin)
  BY Zenon DEF ResolveSni, PresentCert, should_refuse_handshake
<1>2. CertShapes' /\ DiskInv' /\ KeysInv' /\ StaticInv' /\ ChallengesCleaned'
  <2>1. CertShapes'
    BY <1>1, Zenon DEF CertState, CertShapes, ProcShape, Serving
  <2>2. DiskInv' /\ StaticInv' /\ ChallengesCleaned'
    BY <1>1, Zenon DEF CertState, DiskInv, StaticInv, NoAcmeOn, ChallengesCleaned
  <2>3. KeysInv'
    BY <1>1, Zenon DEF CertState, KeysInv, PairsMatch, HalfWritten, Matches
  <2> QED
    BY Zenon, <2>1, <2>2, <2>3
<1>3. Serving' <=> Serving
  BY Zenon, <1>1 DEF Serving
<1>4. StageInv'
  <2>1. \A t \in Tasks : Stage(t)' /\ Held(t)'
    BY <1>1, <1>3, Zenon DEF CertState, StageInv, Stage, Held, NoAcmeOn, WithAcme
  <2> QED
    BY Zenon, <1>1, <1>3, <2>1 DEF StageInv
<1>5. ExpiryInv'
  <2>1. NoExpiringCertPresented'
    <3>1. NoName # Primary /\ <<sni>> # Primary
      BY Zenon, NoNameIsNone DEF Primary
    <3>2. primary.na \in Nat
      BY CertTimes DEF CertState, CertShapes, PrimRecs, Times
    <3>3. Serving /\ ~torn /\ ~(primary.na < FailWithin) => primary.chain.rem >= FailWithin
      BY <3>2, CertTimes DEF CertState, ExpiryInv
    <3> QED
      BY Zenon, <1>1, <3>1, <3>3 DEF NoExpiringCertPresented
  <2> QED
    BY <1>1, <1>3, <2>1, Zenon DEF CertState, ExpiryInv
<1> QED
  BY Zenon, <1>2, <1>4, <1>5 DEF CertState

----------------------------------------------------------------------------
(* The theorems.                                                             *)

\* Nothing is stored or served at the start.
LEMMA InitCert == CertInit => CertInv
<1> SUFFICES ASSUME CertInit
             PROVE  CertInv
  BY Zenon
<1>1. /\ \A t \in Tasks : task[t] = IdleTask
      /\ task \in [Tasks -> TaskRecs] /\ IdleTask.pc = "idle" /\ IdleTask.key # Wrong
  BY Zenon, IdleIsTask DEF CertInit
<1>2. /\ \A d \in Dirs : disk[d] = [chain |-> NoName, key |-> NoName, meta |-> NoName, by |-> NoName]
      /\ disk \in [Dirs -> DiskRecs]
  BY Zenon DEF CertInit, DiskRecs
<1>3. /\ proc = Down /\ acmeCfg = {} /\ primary = NoPrimary /\ DOMAIN extra = {} /\ hs = NoName
      /\ planted = {} /\ leaked = {} /\ torn = FALSE /\ budget \in Budgets /\ ~Serving /\ ~NoAcmeOn
  BY DEF CertInit, Serving, NoAcmeOn
<1>4. primary \in PrimRecs /\ primary.key # Wrong
  BY <1>3, CertTimes, NoNameIsNone DEF NoPrimary, PrimRecs, Times, Wrong
<1>5. CertShapes
  BY <1>1, <1>2, <1>3, <1>4, Zenon DEF CertShapes, ProcShape, SanSets
<1>6. StageInv
  BY <1>1, <1>3, Zenon DEF StageInv, Stage, Held
<1>7. DiskInv
  <2>1. \A d \in Dirs : disk[d].chain = NoName
    BY ONLY <1>2
  <2>2. \A t \in Tasks : task[t].pc = "idle"
    BY ONLY Zenon, <1>1
  <2> QED
    BY ONLY <2>1, <2>2, Zenon DEF DiskInv
<1>8. KeysInv
  <2>1. \A d \in Dirs : Matches(disk[d])
    BY <1>2, NoneIsNone DEF Matches
  <2> QED
    BY <1>1, <1>3, <1>4, <2>1, Zenon DEF KeysInv, PairsMatch, Matches
<1>9. ExpiryInv /\ StaticInv /\ ChallengesCleaned
  BY Zenon, <1>3, NoNameIsNone DEF ExpiryInv, NoExpiringCertPresented, StaticInv, ChallengesCleaned
<1>10. HandshakeType
  BY Zenon, <1>3, BudgetsTyped DEF HandshakeType
<1> QED
  BY Zenon, <1>5, <1>6, <1>7, <1>8, <1>9, <1>10 DEF CertInv, CertState

\* Every step of the gateway and of "cert issue" keeps the certificates in order.
LEMMA NextCertState ==
  ASSUME CertInv, CertNext
  PROVE  CertState'
<1>1. CertState /\ budget.files \subseteq CertFiles
  BY Zenon DEF CertInv, HandshakeType
<1>2. CASE \E t \in Tasks : Proceeds(t)
  <2>1. PICK t \in Tasks : Proceeds(t)
    BY Zenon, <1>2
  <2> QED
    BY Zenon, <1>1, <2>1, LoadStep, PlaceStep, IssuedStep, ChainStep, KeyStep, MetaStep, SwapStep, NoteStep, InstallStep
       DEF Proceeds
<1>3. CASE \E f \in budget.files : Quietly(Boot(f))
  BY Zenon, <1>1, <1>3, BootStep DEF Quietly
<1>4. CASE Quietly(RenewTick) \/ Quietly(Tick) \/ Quietly(PresentCert)
  BY Zenon, <1>1, <1>4, RenewStep, TickStep, HandshakeStep DEF Quietly
<1>5. CASE \E h \in ByoHosts : Quietly(ResolveSni(h))
  BY Zenon, <1>1, <1>5, HandshakeStep DEF Quietly
<1>6. CASE \E t \in Tasks : Fails(t)
  BY Zenon, <1>1, <1>6, OrderEnds, WriteFailsStep DEF Fails
<1>7. CASE Crash
  BY Zenon, <1>1, <1>7, CrashStep
<1>8. CASE \E f \in budget.files : Sighup(f)
  BY Zenon, <1>1, <1>8, HupStep
<1>9. CASE \E how \in {"manual", "http01"}, names \in CliNames : CertIssue(how, names)
  BY Zenon, <1>1, <1>9, CliStep
<1> QED
  BY <1>2, <1>3, <1>4, <1>5, <1>6, <1>7, <1>8, <1>9, Zenon DEF CertNext

\* What the operator may do is bounded by a budget that only shrinks, and a
\* handshake is for a host of the configurations.
LEMMA NextHandshake ==
  ASSUME CertInv, CertNext
  PROVE  HandshakeType'
<1> DEFINE B == [fail : Nat, crash : Nat, hup : Nat, cli : Nat, files : SUBSET CertFiles]
<1>1. budget' \in B /\ budget'.files = budget.files
  <2>1. budget \in B
    BY Zenon DEF CertInv, HandshakeType
  <2>2. ASSUME NEW kind \in {"fail", "crash", "hup", "cli"}, Upset(kind)
        PROVE  budget' \in B /\ budget'.files = budget.files
    BY <2>1, <2>2 DEF Upset
  <2>3. CASE budget' = budget
    BY Zenon, <2>1, <2>3
  <2> QED
    BY Zenon, <2>2, <2>3 DEF CertNext, Proceeds, Quietly
<1>2. ByoHosts' = ByoHosts
  BY Zenon, <1>1 DEF ByoHosts
<1>3. hs' \in {hs, NoName, Primary} \cup {<<h>> : h \in ByoHosts}
  <2>1. CASE \E t \in Tasks : Proceeds(t)
    BY Zenon, <2>1 DEF Proceeds, LoadOrIssue, PlaceOrder, Issued, WriteChain, WriteKey, WriteMeta, SwapKey, SwapExpiry,
                NoteExpiry, InstallFirst
  <2>2. CASE (\E f \in budget.files : Quietly(Boot(f))) \/ Quietly(RenewTick) \/ Quietly(Tick) \/ Quietly(PresentCert)
    BY Zenon, <2>2 DEF Quietly, Boot, RenewTick, Tick, PresentCert
  <2>3. CASE \E h \in ByoHosts : Quietly(ResolveSni(h))
    BY Zenon, <2>3 DEF Quietly, ResolveSni
  <2>4. CASE (\E t \in Tasks : Fails(t)) \/ Crash
    BY Zenon, <2>4 DEF Fails, OrderFails, OrderRefused, PollFails, WriteFails, Crash
  <2>5. CASE (\E f \in budget.files : Sighup(f))
             \/ \E how \in {"manual", "http01"}, names \in CliNames : CertIssue(how, names)
    BY Zenon, <2>5 DEF Sighup, CertIssue
  <2> QED
    BY <2>1, <2>2, <2>3, <2>4, <2>5, Zenon DEF CertNext
<1> QED
  BY Zenon, <1>1, <1>2, <1>3 DEF CertInv, HandshakeType

\* Every step keeps the invariant.
LEMMA NextCert == CertInv /\ [CertNext]_certVars => CertInv'
<1>1. ASSUME CertInv, CertNext
      PROVE  CertInv'
  BY Zenon, <1>1, NextCertState, NextHandshake DEF CertInv
<1>2. ASSUME CertInv, UNCHANGED certVars
      PROVE  CertInv'
  <2>1. UNCHANGED <<proc, acmeCfg, primary, extra, disk, task, planted, hs, leaked, torn, budget>>
    BY Zenon, <1>2 DEF certVars
  <2>2. CertShapes' /\ DiskInv' /\ StaticInv' /\ ChallengesCleaned'
    BY <1>2, <2>1, Zenon DEF CertInv, CertState, CertShapes, ProcShape, Serving, DiskInv, StaticInv, NoAcmeOn, ChallengesCleaned
  <2>3. StageInv'
    BY <1>2, <2>1, Zenon DEF CertInv, CertState, StageInv, Stage, Held, Serving, NoAcmeOn, WithAcme
  <2>4. KeysInv' /\ ExpiryInv'
    BY <1>2, <2>1, Zenon DEF CertInv, CertState, KeysInv, PairsMatch, HalfWritten, Matches, ExpiryInv, Serving,
                      NoExpiringCertPresented
  <2>5. HandshakeType'
    BY <1>2, <2>1, Zenon DEF CertInv, HandshakeType, ByoHosts
  <2> QED
    BY Zenon, <2>2, <2>3, <2>4, <2>5 DEF CertInv, CertState
<1> QED
  BY Zenon, <1>1, <1>2

\* Whatever fails, crashes or is reloaded: unless two writers or two swaps
\* overlapped or a pair was read half written (torn), a complete pair on disk or
\* in memory is of one issuance and no handshake presents a certificate about to
\* expire; and a challenge record is left behind only where an error, a crash or a
\* failed deletion kept it (finalize_issued_cert, swap_primary,
\* SniCertResolver::resolve, cleanup_records).
THEOREM CertSoundHolds == CertSpec => []CertSound
<1>1. CertSpec => []CertInv
  BY InitCert, NextCert, PTL DEF CertSpec
<1>2. CertInv => CertSound
  <2> SUFFICES ASSUME CertInv
               PROVE  CertSound
    BY Zenon
  <2>1. \A t \in Tasks : task[t].pc \in Pcs
    BY TaskFields, Zenon DEF CertInv, CertState, TaskRecs
  <2>2. \A x \in Chains \cup Keys : x # NoName
    BY Zenon, NoNameIsNone DEF Chains, Keys, Right, Wrong
  <2>3. CertTypeOK
    BY <2>1, <2>2, Zenon DEF CertInv, CertState, CertShapes, HandshakeType, CertTypeOK, Pcs
  <2> QED
    BY Zenon, <2>3 DEF CertInv, CertState, KeysInv, ExpiryInv, CertSound
<1> QED
  BY <1>1, <1>2, PTL

\* swap_primary never installs a certificate without one of the names its
\* issuance was started for, be it the cached one or a new one.
THEOREM SwapsCoverSnapshots == CertSpec => SwapCoversSnapshot
<1>1. CertSpec => []CertInv
  BY InitCert, NextCert, PTL DEF CertSpec
<1>2. CertInv /\ [CertNext]_certVars =>
        [\A t \in Tasks : task[t].pc = "swap" /\ task'[t].pc = "expiry" /\ proc.acme.enabled
            => task[t].sans \subseteq primary'.chain.sans]_certVars
  <2> SUFFICES ASSUME CertInv, CertNext, NEW t \in Tasks,
                      task[t].pc = "swap", task'[t].pc = "expiry", proc.acme.enabled
               PROVE  task[t].sans \subseteq primary'.chain.sans
    BY Zenon DEF certVars
  <2>1. /\ task \in [Tasks -> TaskRecs] /\ primary \in PrimRecs /\ Stage(t) /\ Held(t)
        /\ "boot" \in Tasks /\ "renew" \in Tasks /\ "hup" \in Tasks /\ "cli" \in Tasks
        /\ task'[t] # task[t] /\ task'[t] # IdleTask
    <3>1. task \in [Tasks -> TaskRecs] /\ primary \in PrimRecs /\ Stage(t) /\ Held(t)
      BY Zenon DEF CertInv, CertState, CertShapes, StageInv
    <3>2. "boot" \in Tasks /\ "renew" \in Tasks /\ "hup" \in Tasks /\ "cli" \in Tasks
      BY ONLY Zenon DEF Tasks
    <3>3. task'[t] # task[t]
      BY Zenon
    <3>4. task'[t] # IdleTask
      BY DEF IdleTask
    <3> QED
      BY ONLY Zenon, <3>1, <3>2, <3>3, <3>4
  <2>2. CASE \E u \in Tasks : Proceeds(u)
    <3>1. PICK u \in Tasks : Proceeds(u)
      BY Zenon, <2>2
    <3>2. u = t
      <4>1. task' = [task EXCEPT ![u] = task'[u]]
        BY Zenon, <2>1, <3>1 DEF Proceeds, LoadOrIssue, PlaceOrder, Issued, WriteChain, WriteKey, WriteMeta, SwapKey,
                          SwapExpiry, NoteExpiry, InstallFirst, Goto, Holds
      <4> QED
        BY Zenon, <2>1, <4>1
    <3>3. SwapKey(t)
      BY Zenon, <2>1, <3>1, <3>2 DEF Proceeds, LoadOrIssue, PlaceOrder, Issued, WriteChain, WriteKey, WriteMeta,
                              SwapExpiry, NoteExpiry, InstallFirst
    <3>4. primary'.chain = task[t].chain
      BY <2>1, <3>3, PrimaryFields DEF SwapKey
    <3>5. Serving /\ WithAcme
      BY Zenon, <2>1, <3>3 DEF SwapKey, Stage, Serving, WithAcme
    <3> QED
      BY <2>1, <3>4, <3>5, Zenon DEF Held
  <2>3. CASE \E u \in Tasks : Fails(u)
    <3>1. PICK u \in Tasks : Fails(u)
      BY Zenon, <2>3
    <3>2. task' = [task EXCEPT ![u] = IdleTask]
      BY Zenon, <3>1 DEF Fails, OrderFails, OrderRefused, PollFails, WriteFails, Fail
    <3> QED
      BY Zenon, <2>1, <3>2
  <2>4. CASE (\E f \in budget.files : Boot(f)) \/ RenewTick \/ (\E f \in budget.files : Sighup(f))
             \/ \E how \in {"manual", "http01"}, names \in CliNames : CertIssue(how, names)
    <3>1. CASE \E f \in budget.files : Boot(f)
      <4>1. task' = task \/ \E s : task' = [task EXCEPT !["boot"] = NewTask("dns", s)]
        BY <3>1, Zenon DEF Boot
      <4>2. \A s : NewTask("dns", s).pc = "load"
        BY ONLY Zenon DEF NewTask
      <4> QED
        BY Zenon, <2>1, <4>1, <4>2
    <3>2. CASE RenewTick
      BY <2>1, <3>2, Zenon DEF RenewTick, NewTask
    <3>3. CASE \E f \in budget.files : Sighup(f)
      <4>1. task["hup"].pc = "idle" /\ \E r : task' = [task EXCEPT !["hup"] = r]
        BY <3>3, Zenon DEF Sighup, Idle
      <4> QED
        BY Zenon, <2>1, <4>1
    <3>4. CASE \E how \in {"manual", "http01"}, names \in CliNames : CertIssue(how, names)
      BY Zenon, <2>1, <3>4 DEF CertIssue, Idle
    <3> QED
      BY Zenon, <2>4, <3>1, <3>2, <3>3, <3>4
  <2>5. CASE Tick \/ PresentCert \/ (\E h \in ByoHosts : ResolveSni(h)) \/ Crash
    BY Zenon, <2>1, <2>5 DEF Tick, PresentCert, ResolveSni, Crash
  <2> QED
    BY <2>2, <2>3, <2>4, <2>5, Zenon DEF CertNext, Quietly
<1> QED
  BY <1>1, <1>2, PTL DEF CertSpec, SwapCoversSnapshot
====
