---------------------------- MODULE SiteAliases ----------------------------
(* Custom domains of sites: `mj domain set` and `mj domain rm` with a keypair *)
(* (mjolnir_client/src/sites.rs), the alias endpoints, and the SecretStore    *)
(* with the reverse index the gateway's lookups are answered from.  Several   *)
(* identities claim the same domain at once; the store may stop and restart.  *)
EXTENDS Naturals, FiniteSets

CONSTANTS
    Cmds,           \* invocations of the command
    Fqdns,          \* the domains
    Unclaimed,      \* no entry in the index
    AliasMenus      \* per behaviour: the invocations, the faults and restarts left

\* A command sets or removes a domain; no claim is the absence of one.
CommandsOf(m) ==
    /\ m = [cmds |-> m.cmds, faults |-> m.faults, restarts |-> m.restarts]
    /\ \A c \in Cmds : /\ m.cmds[c].op \in {"set", "rm"} /\ m.cmds[c].fqdn \in Fqdns
                        /\ [fp |-> m.cmds[c].fp, site |-> m.cmds[c].site] # Unclaimed

ASSUME CommandsWellFormed == \A m \in AliasMenus : CommandsOf(m)

VARIABLES
    owners,         \* the identities that are registered
    records,        \* the alias records: [fp, site, fqdn, seq]
    index,          \* _index/aliases/<fqdn>: [fp, site], or Unclaimed
    cmd,            \* cmd[c]: [pc, seq]
    now,            \* now_unix_ms
    stranded,       \* domains whose removal was cut short
    aliasMenu

aliasVars == <<owners, records, index, cmd, now, stranded, aliasMenu>>

Of(c)    == aliasMenu.cmds[c]
CmdAt(c, pc) == cmd[c].pc = pc
CmdTo(c, pc) == cmd' = [cmd EXCEPT ![c].pc = pc]

AliasFault == aliasMenu.faults > 0 /\ aliasMenu' = [aliasMenu EXCEPT !.faults = @ - 1]
AliasFine  == UNCHANGED aliasMenu

Store == <<owners, records, index, stranded>>

----------------------------------------------------------------------------
(* The client.                                                               *)

\* The key must be readable and the one the caller named.
alias_context(c) == Of(c).key = "own"

\* The sequence is the caller's, or the time; two commands may meet in the same
\* millisecond.
signed_alias_record(c, next) ==
    \E tick \in {now, now + 1} :
        /\ now' = IF Of(c).sequence = 0 THEN tick ELSE now
        /\ cmd' = [cmd EXCEPT ![c] = [pc |-> next, seq |-> IF Of(c).sequence = 0 THEN tick ELSE Of(c).sequence]]

Prepare(c, next) ==
    /\ CmdAt(c, "start")
    /\ IF alias_context(c) THEN signed_alias_record(c, next) ELSE CmdTo(c, "failed") /\ UNCHANGED now
    /\ UNCHANGED <<Store, aliasMenu>>

\* Setting registers the identity first; removing relies on its being there.
cmd_alias_set(c) == Of(c).op = "set" /\ Prepare(c, "identity")
cmd_alias_rm(c)  == Of(c).op = "rm" /\ Prepare(c, "check")

RegisterOwner(c) ==
    /\ CmdAt(c, "identity")
    /\ \/ AliasFine /\ owners' = owners \cup {Of(c).fp} /\ CmdTo(c, "check")
       \/ AliasFault /\ owners' \in {owners, owners \cup {Of(c).fp}} /\ CmdTo(c, "failed")
    /\ UNCHANGED <<records, index, stranded, now>>

----------------------------------------------------------------------------
(* PUT and DELETE /:fp/:name/aliases/:fqdn.                                   *)

Own(c)   == {r \in records : r.fp = Of(c).fp /\ r.site = Of(c).site /\ r.fqdn = Of(c).fqdn}
Record(c) == [fp |-> Of(c).fp, site |-> Of(c).site, fqdn |-> Of(c).fqdn, seq |-> cmd[c].seq]
Claim(c)  == [fp |-> Of(c).fp, site |-> Of(c).site]

\* The check is made before the call to the store, which repeats none of it.
check_alias_monotonic(c) ==
    /\ CmdAt(c, "check")
    /\ CmdTo(c, IF \A r \in Own(c) : cmd[c].seq > r.seq THEN Of(c).op ELSE "failed")
    /\ UNCHANGED <<Store, now, aliasMenu>>

Held(c)      == index[Of(c).fqdn] # Unclaimed /\ index[Of(c).fqdn].fp = Of(c).fp
Claimable(c) == index[Of(c).fqdn] # Unclaimed => index[Of(c).fqdn].fp = Of(c).fp

\* Mutant: the index goes to the last claimant.
IndexTaken(c) ==
    /\ index' = [index EXCEPT ![Of(c).fqdn] = Claim(c)]
    /\ CmdTo(c, "ok")

\* An identity takes what is free or already its own.
do_write_alias_index(c) ==
    IF Claimable(c)
    THEN index' = [index EXCEPT ![Of(c).fqdn] = Claim(c)] /\ CmdTo(c, "ok")
    ELSE CmdTo(c, "failed") /\ UNCHANGED index

\* The record is written even where the index is then refused.  A disk that
\* fails, or an answer that is lost, fails the command before the one write,
\* between the two or after both.  Setting registered the identity: the
\* signature verifies.
put(c) ==
    LET after == (records \ Own(c)) \cup {Record(c)}
    IN  /\ CmdAt(c, "set")
        /\ \/ AliasFine /\ records' = after /\ do_write_alias_index(c)
           \/ /\ AliasFault /\ CmdTo(c, "failed")
              /\ \/ records' \in {records, after} /\ UNCHANGED index
                 \/ /\ Claimable(c)
                    /\ records' = after
                    /\ index' = [index EXCEPT ![Of(c).fqdn] = Claim(c)]
        /\ UNCHANGED <<owners, stranded, now>>

\* The record goes, and the entry if this identity holds it, for whichever of its
\* sites.  The tombstone is not kept.  With a failing disk the entry goes though
\* the record stays, or the record goes and the entry stays: the latter is only
\* logged, or cut short by a crash.
delete(c) ==
    LET cleared == IF Held(c) THEN [index EXCEPT ![Of(c).fqdn] = Unclaimed] ELSE index
    IN  /\ CmdAt(c, "rm")
        /\ \/ /\ Of(c).fp \notin owners /\ AliasFine /\ CmdTo(c, "failed")
              /\ UNCHANGED <<records, index, stranded>>
           \/ /\ Of(c).fp \in owners /\ AliasFine /\ CmdTo(c, "ok")
              /\ records' = records \ Own(c) /\ index' = cleared
              /\ UNCHANGED stranded
           \/ /\ Of(c).fp \in owners /\ AliasFault /\ CmdTo(c, "failed")
              /\ records' \in {records, records \ Own(c)} /\ index' = cleared
              /\ UNCHANGED stranded
           \/ /\ Of(c).fp \in owners /\ Held(c) /\ AliasFault /\ \E end \in {"ok", "failed"} : CmdTo(c, end)
              /\ records' = records \ Own(c) /\ UNCHANGED index
              /\ stranded' = stranded \cup {Of(c).fqdn}
        /\ UNCHANGED <<owners, now>>

\* The store starts again: the records are walked in no particular order; a free
\* entry goes to the first identity met, and an entry keeps its owner.
rebuild_alias_index ==
    /\ aliasMenu.restarts > 0
    /\ aliasMenu' = [aliasMenu EXCEPT !.restarts = @ - 1]
    /\ index' \in [Fqdns -> {Unclaimed} \cup {[fp |-> r.fp, site |-> r.site] : r \in records}
                                 \cup {index[f] : f \in Fqdns}]
    /\ \A f \in Fqdns :
          LET found == {r \in records : r.fqdn = f /\ (index[f] = Unclaimed \/ r.fp = index[f].fp)}
          IN  IF found = {} THEN index'[f] = index[f]
              ELSE \E r \in found : index'[f] = [fp |-> r.fp, site |-> r.site]
    /\ UNCHANGED <<owners, records, cmd, now, stranded>>

AliasInit ==
    /\ aliasMenu \in AliasMenus
    /\ owners = {} /\ records = {} /\ index = [f \in Fqdns |-> Unclaimed]
    /\ cmd = [c \in Cmds |-> [pc |-> "start", seq |-> 0]]
    /\ now = 1 /\ stranded = {}

AliasNext ==
    \/ rebuild_alias_index
    \/ \E c \in Cmds : \/ cmd_alias_set(c) \/ cmd_alias_rm(c) \/ RegisterOwner(c)
                       \/ check_alias_monotonic(c) \/ put(c) \/ delete(c)

AliasSpec == AliasInit /\ [][AliasNext]_aliasVars

----------------------------------------------------------------------------
(* Properties.                                                               *)

\* What the index serves is backed by a record of that identity for that
\* site, so a rebuild keeps it, unless its removal was cut short
\* (SecretStore.put, delete).
IndexHasRecord ==
    \A f \in Fqdns : index[f] # Unclaimed /\ f \notin stranded =>
        \E r \in records : r.fqdn = f /\ r.fp = index[f].fp /\ r.site = index[f].site

\* "The current owner must tombstone it before it can be re-bound": a domain an
\* identity was told it holds stays with it until that identity asks for its
\* removal, whoever else claims it and however often the store restarts.
ClaimHolds ==
    \A c \in Cmds :
        Of(c).op = "set" /\ CmdAt(c, "ok") =>
                  \/ Held(c)
                  \/ \E d \in Cmds : /\ Of(d).op = "rm" /\ ~CmdAt(d, "start")
                                     /\ Of(d).fp = Of(c).fp /\ Of(d).fqdn = Of(c).fqdn

\* The reverse index is backed by records and never taken from its holder
\* (SecretStore.put, delete, rebuild_alias_index).
AliasSound == IndexHasRecord /\ ClaimHolds
============================================================================
