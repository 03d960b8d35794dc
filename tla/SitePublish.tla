---------------------------- MODULE SitePublish ----------------------------
(* Publishing a site: `mj sites publish` (mjolnir_client/src/sites.rs), the   *)
(* server's Sites endpoints and the materializer that writes the tree the     *)
(* gateway serves.  One site of one identity; several publishes at once; the  *)
(* client, a disk write or the server may fail at any step.                   *)
EXTENDS Naturals, FiniteSets

CONSTANTS
    Pubs,          \* publishes and re-materializations
    NoSite,
    Retention,     \* :sites_snapshot_retention
    SiteMenus      \* per behaviour: the runs, the faults and crashes left

\* A run is a publish by the command or by the mix task, or a re-materialization.
RunsOf(m) ==
    /\ m = [runs |-> m.runs, faults |-> m.faults, crashes |-> m.crashes]
    /\ \A p \in Pubs : m.runs[p].via \in {"cli", "mix", "again"} /\ m.runs[p].seq \in Nat

ASSUME RunsWellFormed == \A m \in SiteMenus : RunsOf(m)
ASSUME NoSiteIsNone == NoSite \notin Pubs \cup [snap : Pubs, seq : Nat]

VARIABLES
    identity,      \* identity/pubkey is registered
    manifests,     \* the chunk store: manifests by snapshot
    chunks,        \* and chunks
    head,          \* sites/<name>/HEAD: [snap, seq], or NoSite
    policy,        \* sites/<name>/fallback, "none" if there is no such file
    siteLock,       \* who holds the :global.trans of the site
    publisher,     \* publisher[p]: the client's [pc, todo]
    handler,       \* handler[p]: [pc, snap, kept, seen], the server's side of p's request
    trees,         \* snapshots/: the trees in place
    current,       \* what the symlink names
    shown,         \* the materialized fallback file
    torn,          \* a commit was cut, or could not be undone, between its two writes
    regressed,     \* a HEAD was written over one its writer had not looked at
    flipsOverlap,    \* a commit began while another publish was materializing
    unfinished,    \* the last materialization did not get to its end
    siteMenu

siteVars == <<identity, manifests, chunks, head, policy, siteLock, publisher, handler, trees,
              current, shown, torn, regressed, flipsOverlap, unfinished, siteMenu>>

Records  == <<identity, manifests, chunks, head, policy, siteLock, torn, regressed>>
Tree     == <<trees, current, shown, flipsOverlap, unfinished>>

Run(p)   == siteMenu.runs[p]
SiteAt(p, pc) == publisher[p].pc = pc
Handles(p, pc) == handler[p].pc = pc
ClientTo(p, pc) == publisher' = [publisher EXCEPT ![p].pc = pc]
HandlerTo(p, pc) == handler' = [handler EXCEPT ![p].pc = pc]

SiteFault == siteMenu.faults > 0 /\ siteMenu' = [siteMenu EXCEPT !.faults = @ - 1]
SiteFine  == UNCHANGED siteMenu

----------------------------------------------------------------------------
(* The client.                                                               *)

\* The directory's own mjolnir.toml, or else its parent's; one without the key
\* says nothing, any other value is an error.
read_site_fallback(run) ==
    LET file == IF run.toml # "absent" THEN run.toml ELSE run.above
    IN  IF file \in {"absent", "silent"} THEN "none" ELSE file

Fallbacks == {"none", "index", "404", "empty"}

\* What cannot be looked at is passed over; symlinks are followed.
collect_files(run) == run.files \ {"dangling"}

\* Every file is encrypted under the run's own seed and a fresh nonce: no two
\* runs share a chunk, except that an empty file's is always the empty one.
EmptyChunk  == <<NoSite, "empty">>
Chunk(p, f) == IF f = "empty" THEN EmptyChunk ELSE <<p, f>>

build_snapshot(p) == {Chunk(p, f) : f \in collect_files(Run(p))}

Snapshots(run) == collect_files(run) \cap {"unreadable", "oversized"} = {}

\* From the arguments to a request body that the server's limit admits.
cmd_publish(p) ==
    /\ SiteAt(p, "start") /\ Run(p).via # "again"
    /\ LET sound == /\ read_site_fallback(Run(p)) \in Fallbacks
                    /\ Run(p).key \in {"none", "own"}
                    /\ Snapshots(Run(p))
                    /\ collect_files(Run(p)) # {} /\ "many" \notin Run(p).files
       IN  ClientTo(p, IF ~sound THEN "failed" ELSE IF Run(p).key = "own" THEN "identity" ELSE "snapshot")
    /\ UNCHANGED <<Records, Tree, handler, siteMenu>>

\* A request that fails may have done its work all the same.
register_identity(p) ==
    /\ SiteAt(p, "identity")
    /\ \/ SiteFine /\ identity' = TRUE /\ ClientTo(p, "snapshot")
       \/ SiteFault /\ identity' \in {identity, TRUE} /\ ClientTo(p, "failed")
    /\ UNCHANGED <<manifests, chunks, head, policy, siteLock, torn, regressed, Tree, handler>>

\* The server keeps the manifest and answers which chunks it has not got.
post_snapshot(p) ==
    /\ SiteAt(p, "snapshot")
    /\ \/ /\ SiteFine
          /\ manifests' = manifests \cup {p}
          /\ publisher' = [publisher EXCEPT ![p] = [pc |-> "chunks", todo |-> build_snapshot(p) \ chunks]]
       \/ SiteFault /\ manifests' \in {manifests, manifests \cup {p}} /\ ClientTo(p, "failed")
    /\ UNCHANGED <<identity, chunks, head, policy, siteLock, torn, regressed, Tree, handler>>

\* Mutant: the answer to an upload is not looked at.
PutChunkUnread(p, c) ==
    /\ SiteAt(p, "chunks") /\ c \in publisher[p].todo
    /\ \/ /\ SiteFine /\ chunks' = IF c = EmptyChunk THEN chunks ELSE chunks \cup {c}
          /\ publisher' = [publisher EXCEPT ![p].todo = @ \ {c}]
       \/ SiteFault /\ UNCHANGED chunks /\ publisher' = [publisher EXCEPT ![p].todo = @ \ {c}]
    /\ UNCHANGED <<identity, manifests, head, policy, siteLock, torn, regressed, Tree, handler>>

\* Storage.Local checks the hash and refuses an empty ciphertext.
put_chunk(p, c) ==
    /\ SiteAt(p, "chunks") /\ c \in publisher[p].todo
    /\ \/ /\ c # EmptyChunk /\ SiteFine /\ chunks' = chunks \cup {c}
          /\ publisher' = [publisher EXCEPT ![p].todo = @ \ {c}]
       \/ c = EmptyChunk /\ SiteFine /\ UNCHANGED chunks /\ ClientTo(p, "failed")
       \/ /\ SiteFault /\ ClientTo(p, "failed")
          /\ chunks' \in {chunks, chunks \cup ({c} \ {EmptyChunk})}
    /\ UNCHANGED <<identity, manifests, head, policy, siteLock, torn, regressed, Tree, handler>>

\* A fallback must be signed, which is only noticed here.
commit_head_and_fallback(p) ==
    /\ SiteAt(p, "chunks") /\ publisher[p].todo = {} /\ Run(p).via = "cli"
    /\ IF read_site_fallback(Run(p)) # "none" /\ Run(p).key = "none"
       THEN ClientTo(p, "failed") /\ UNCHANGED handler
       ELSE ClientTo(p, "waiting") /\ HandlerTo(p, "commit")
    /\ UNCHANGED <<Records, Tree, siteMenu>>

\* The mix task's publisher knows no fallback and uses /head.
post_head(p) ==
    /\ SiteAt(p, "chunks") /\ publisher[p].todo = {} /\ Run(p).via = "mix"
    /\ ClientTo(p, "waiting") /\ HandlerTo(p, "check")
    /\ UNCHANGED <<Records, Tree, siteMenu>>

\* The connection is lost or the command is stopped; the handler goes on.
HangUp(p) ==
    /\ SiteAt(p, "waiting") /\ SiteFault /\ ClientTo(p, "failed")
    /\ UNCHANGED <<Records, Tree, handler>>

----------------------------------------------------------------------------
(* The server: POST /commit and POST /head.                                  *)

SiteReply(p, verdict) ==
    /\ HandlerTo(p, "idle")
    /\ publisher' = [publisher EXCEPT ![p].pc = IF @ = "waiting" THEN verdict ELSE @]

Materializing(p) == handler[p].pc \in {"build", "install", "rename", "flip", "fallback", "list", "prune"}
Alone(p) == \A q \in Pubs \ {p} : ~Materializing(q)

check_head_monotonic(p) == head = NoSite \/ Run(p).seq > head.seq

\* SecretStore.put verifies the signature against the registered identity.
verify_envelope(p) == Run(p).key = "own" /\ identity

\* commit_head_and_policy: the transaction's check, and the policy as it was.
commit_head_and_policy(p) ==
    /\ Handles(p, "commit") /\ siteLock = NoSite
    /\ IF check_head_monotonic(p)
       THEN /\ siteLock' = p
            /\ handler' = [handler EXCEPT ![p].pc = "policy", ![p].kept = policy, ![p].seen = head]
            /\ flipsOverlap' = (flipsOverlap \/ ~Alone(p))
            /\ UNCHANGED publisher
       ELSE SiteReply(p, "failed") /\ UNCHANGED <<siteLock, flipsOverlap>>
    /\ UNCHANGED <<identity, manifests, chunks, head, policy, torn, regressed, trees, current, shown,
                   unfinished, siteMenu>>

\* Without a fallback in the request the old policy goes.
write_policy_record(p) ==
    /\ Handles(p, "policy")
    /\ \/ SiteFine /\ policy' = read_site_fallback(Run(p)) /\ HandlerTo(p, "head")
       \/ SiteFault /\ UNCHANGED policy /\ HandlerTo(p, "restore")
    /\ UNCHANGED <<identity, manifests, chunks, head, siteLock, torn, regressed, Tree, publisher>>

put_head(p) ==
    /\ Handles(p, "head")
    /\ \/ /\ SiteFine /\ verify_envelope(p)
          /\ head' = [snap |-> p, seq |-> Run(p).seq]
          /\ regressed' = (regressed \/ head # handler[p].seen)
          /\ siteLock' = NoSite /\ torn' = FALSE
          /\ handler' = [handler EXCEPT ![p].pc = "build", ![p].snap = p]
       \/ SiteFine /\ ~verify_envelope(p) /\ HandlerTo(p, "restore") /\ UNCHANGED <<head, siteLock, torn, regressed>>
       \/ SiteFault /\ HandlerTo(p, "restore") /\ UNCHANGED <<head, siteLock, torn, regressed>>
    /\ UNCHANGED <<identity, manifests, chunks, policy, Tree, publisher>>

\* Nobody looks whether the restoring worked.
restore_policy_record(p) ==
    /\ Handles(p, "restore")
    /\ \/ SiteFine /\ policy' = handler[p].kept /\ UNCHANGED torn
       \/ SiteFault /\ UNCHANGED policy /\ torn' = TRUE
    /\ siteLock' = NoSite /\ SiteReply(p, "failed")
    /\ UNCHANGED <<identity, manifests, chunks, head, regressed, Tree>>

\* POST /head looks and writes outside the transaction.
CheckHead(p) ==
    /\ Handles(p, "check")
    /\ IF check_head_monotonic(p)
       THEN handler' = [handler EXCEPT ![p].pc = "write", ![p].seen = head] /\ UNCHANGED publisher
       ELSE SiteReply(p, "failed")
    /\ UNCHANGED <<Records, Tree, siteMenu>>

WriteHead(p) ==
    /\ Handles(p, "write")
    /\ \/ /\ SiteFine /\ verify_envelope(p)
          /\ head' = [snap |-> p, seq |-> Run(p).seq]
          /\ regressed' = (regressed \/ head # handler[p].seen)
          /\ flipsOverlap' = (flipsOverlap \/ ~Alone(p) \/ siteLock # NoSite)
          /\ handler' = [handler EXCEPT ![p].pc = "build", ![p].snap = p]
          /\ UNCHANGED publisher
       \/ SiteFine /\ ~verify_envelope(p) /\ SiteReply(p, "failed") /\ UNCHANGED <<head, regressed, flipsOverlap>>
       \/ SiteFault /\ SiteReply(p, "failed") /\ UNCHANGED <<head, regressed, flipsOverlap>>
    /\ UNCHANGED <<identity, manifests, chunks, policy, siteLock, torn, trees, current, shown, unfinished>>

\* `mix mjolnir.sites.materialize` rebuilds what HEAD names.
materialize_head(p) ==
    /\ SiteAt(p, "start") /\ Run(p).via = "again" /\ head # NoSite
    /\ ClientTo(p, "waiting")
    /\ handler' = [handler EXCEPT ![p].pc = "build", ![p].snap = head.snap]
    /\ flipsOverlap' = (flipsOverlap \/ ~Alone(p) \/ siteLock # NoSite)
    /\ UNCHANGED <<Records, trees, current, shown, unfinished, siteMenu>>

----------------------------------------------------------------------------
(* The materializer: a failure is logged and the publish succeeds anyway.     *)

Whole(s) == s \in manifests /\ build_snapshot(s) \subseteq chunks

\* The step works, or stops the materialization.
Works(p, pc, next) ==
    Handles(p, pc) /\ SiteFine /\ HandlerTo(p, next) /\ UNCHANGED <<publisher, unfinished>>

Stops(p, pc) ==
    Handles(p, pc) /\ SiteReply(p, "ok") /\ unfinished' = TRUE

\* Into a temporary directory, every chunk fetched and decrypted.
build_tree(p) ==
    /\ IF Whole(handler[p].snap)
       THEN Works(p, "build", "install") \/ (SiteFault /\ Stops(p, "build"))
       ELSE SiteFine /\ Stops(p, "build")
    /\ UNCHANGED <<Records, trees, current, shown, flipsOverlap>>

\* A tree of the same snapshot is first moved aside.
swap_aside(p) ==
    /\ Handles(p, "install")
    /\ \/ /\ SiteFine /\ trees' = trees \ {handler[p].snap}
          /\ handler' = [handler EXCEPT ![p].pc = "rename", ![p].kept = trees]
          /\ UNCHANGED <<publisher, unfinished>>
       \/ SiteFault /\ Stops(p, "install") /\ UNCHANGED trees
    /\ UNCHANGED <<Records, current, shown, flipsOverlap>>

\* A rename that fails brings the tree moved aside back.
install_tree(p) ==
    /\ \/ Works(p, "rename", "flip") /\ trees' = trees \cup {handler[p].snap}
       \/ SiteFault /\ Stops(p, "rename") /\ trees' = trees \cup (handler[p].kept \cap {handler[p].snap})
    /\ UNCHANGED <<Records, current, shown, flipsOverlap>>

flip_current(p) ==
    /\ \/ Works(p, "flip", "fallback") /\ current' = handler[p].snap
       \/ SiteFault /\ Stops(p, "flip") /\ UNCHANGED current
    /\ UNCHANGED <<Records, trees, shown, flipsOverlap>>

\* The policy as it is on disk now.
materialize_fallback(p) ==
    /\ \/ Works(p, "fallback", "list") /\ shown' = policy
       \/ SiteFault /\ Stops(p, "fallback") /\ UNCHANGED shown
    /\ UNCHANGED <<Records, trees, current, flipsOverlap>>

\* What is live is read before the directory is listed.
PruneList(p) ==
    /\ Handles(p, "list")
    /\ handler' = [handler EXCEPT ![p].pc = "prune", ![p].kept = current]
    /\ UNCHANGED <<Records, Tree, publisher, siteMenu>>

\* The newest Retention - 1 besides the live one stay.  The times have a second's
\* resolution: any order may be met.
prune(p) ==
    /\ Handles(p, "prune")
    /\ LET others == trees \ {handler[p].kept}
       IN  \E keep \in SUBSET others :
              /\ Cardinality(keep) = IF Cardinality(others) < Retention THEN Cardinality(others)
                                                                    ELSE Retention - 1
              /\ trees' = keep \cup (trees \cap {handler[p].kept})
    /\ unfinished' = FALSE
    /\ SiteReply(p, "ok")
    /\ UNCHANGED <<Records, current, shown, flipsOverlap, siteMenu>>

\* The server stops; what is on disk stays, and no one is in the transaction.
ServerCrash ==
    /\ siteMenu.crashes > 0 /\ \E p \in Pubs : ~Handles(p, "idle")
    /\ siteMenu' = [siteMenu EXCEPT !.crashes = @ - 1]
    /\ handler' = [p \in Pubs |-> [handler[p] EXCEPT !.pc = "idle"]]
    /\ publisher' = [p \in Pubs |-> [publisher[p] EXCEPT !.pc = IF @ = "waiting" THEN "failed" ELSE @]]
    /\ siteLock' = NoSite
    /\ torn' = (torn \/ \E p \in Pubs : handler[p].pc \in {"head", "restore"})
    /\ unfinished' = (unfinished \/ \E p \in Pubs : Materializing(p))
    /\ UNCHANGED <<identity, manifests, chunks, head, policy, regressed, trees, current, shown, flipsOverlap>>

SiteInit ==
    /\ siteMenu \in SiteMenus
    /\ identity = FALSE /\ manifests = {} /\ chunks = {} /\ head = NoSite /\ policy = "none"
    /\ siteLock = NoSite
    /\ publisher = [p \in Pubs |-> [pc |-> "start", todo |-> {}]]
    /\ handler = [p \in Pubs |-> [pc |-> "idle", snap |-> NoSite, kept |-> NoSite, seen |-> NoSite]]
    /\ trees = {} /\ current = NoSite /\ shown = "none"
    /\ torn = FALSE /\ regressed = FALSE /\ flipsOverlap = FALSE /\ unfinished = FALSE

SiteNext ==
    \/ ServerCrash
    \/ \E p \in Pubs :
          \/ cmd_publish(p) \/ register_identity(p) \/ post_snapshot(p)
          \/ (\E c \in publisher[p].todo : put_chunk(p, c))
          \/ commit_head_and_fallback(p) \/ post_head(p) \/ HangUp(p)
          \/ commit_head_and_policy(p) \/ write_policy_record(p) \/ put_head(p) \/ restore_policy_record(p)
          \/ CheckHead(p) \/ WriteHead(p) \/ materialize_head(p)
          \/ build_tree(p) \/ swap_aside(p) \/ install_tree(p) \/ flip_current(p)
          \/ materialize_fallback(p) \/ PruneList(p) \/ prune(p)

SiteSpec == SiteInit /\ [][SiteNext]_siteVars

----------------------------------------------------------------------------
(* Properties.                                                               *)

\* What HEAD names can be served: its manifest and every chunk of it are stored,
\* whichever uploads failed, were cut or raced (cmd_publish commits last).
HeadIsWhole == head # NoSite => Whole(head.snap)

\* A publish that was reported is never taken back by an older one: sequences
\* only grow (check_head_monotonic inside the transaction).  Only an update by
\* /head, outside it, that races another update may break this.
PublishedStands ==
    /\ \A p \in Pubs : SiteAt(p, "ok") /\ Run(p).via # "again" /\ ~regressed =>
          /\ head.seq >= Run(p).seq
          /\ head.seq = Run(p).seq => head.snap = p
    /\ regressed => \E p \in Pubs : Run(p).via = "mix"

\* "Commit unchanged HEAD bytes and the separate policy together": outside the
\* transaction the fallback on record is the one of the publish HEAD names, a
\* refused commit's is gone again, unless the server stopped between the writes
\* or could not undo the first.
PolicyGoesWithHead ==
    head # NoSite /\ siteLock = NoSite /\ ~torn /\ Run(head.snap).via = "cli"
        => policy = read_site_fallback(Run(head.snap))

\* While publishes take turns, the link never dangles (except while the very
\* tree it names is rebuilt), and once the last one has ended the gateway serves
\* what HEAD names, under the fallback on record.
TreeFollowsHead ==
    ~flipsOverlap =>
        /\ current # NoSite /\ ~unfinished /\ (\A p \in Pubs : ~Handles(p, "rename")) => current \in trees
        /\ head # NoSite /\ ~unfinished /\ ~torn /\ (\A p \in Pubs : Handles(p, "idle")) =>
              current = head.snap /\ shown = policy

\* A published site is whole, stays published, and is what the gateway serves
\* (cmd_publish, SitesRouter, Materializer).
PublishSound == HeadIsWhole /\ PublishedStands /\ PolicyGoesWithHead /\ TreeFollowsHead
============================================================================
