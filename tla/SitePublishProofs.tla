------------------------- MODULE SitePublishProofs -------------------------
(***************************************************************************)
(* SiteSpec => []PublishSound, for every set of publishes, every snapshot  *)
(* and every number of faults, cuts and crashes.  PublishSound is not      *)
(* inductive: that HEAD is whole rests on which uploads a request has      *)
(* behind it (UploadInv), that a publish stands on what the one in the     *)
(* transaction has seen (TransInv, StandsInv), that the policy goes with   *)
(* HEAD on what is kept to be put back (PolicyInv), and that the gateway   *)
(* serves HEAD on how far the one materializer of publishes that take      *)
(* turns has come (TreeInv).  SiteInv is all of them.                      *)
(***************************************************************************)
EXTENDS SitePublish, TLAPS



\* What HEAD may hold.
Heads == [snap : Pubs, seq : Nat]

\* The shapes of the records the proof takes apart.
SiteTypes ==
    /\ RunsOf(siteMenu)
    /\ DOMAIN publisher = Pubs /\ DOMAIN handler = Pubs
    /\ \A p \in Pubs :
          /\ publisher[p] = [pc |-> publisher[p].pc, todo |-> publisher[p].todo]
          /\ handler[p] = [pc |-> handler[p].pc, snap |-> handler[p].snap, kept |-> handler[p].kept,
                           seen |-> handler[p].seen]
    /\ head \in Heads \cup {NoSite}

\* What a request has reached tells whose it is, and that the uploads are done.
Stored == {s \in Pubs : Whole(s)}
Early(p) == publisher[p].pc \in {"start", "identity", "snapshot", "chunks"}

UploadInv ==
    /\ head # NoSite => head.snap \in Stored
    /\ \A p \in Pubs :
          /\ handler[p].pc \in {"commit", "policy", "head", "restore"} => Run(p).via = "cli" /\ p \in Stored
          /\ handler[p].pc \in {"check", "write"} => Run(p).via = "mix" /\ p \in Stored
          /\ SiteAt(p, "chunks") => p \in manifests /\ build_snapshot(p) \subseteq chunks \cup publisher[p].todo
          /\ Early(p) => Handles(p, "idle")

\* The transaction's holder is the one that is inside.
Inside(p) == handler[p].pc \in {"policy", "head", "restore"}
TransInv ==
    /\ siteLock \in Pubs \cup {NoSite}
    /\ \A p \in Pubs : Inside(p) <=> siteLock = p

\* Whoever is about to write HEAD has seen an older one; in the transaction it is
\* still there, unless the mix task's publisher wrote past it.
ByMix == \E p \in Pubs : Run(p).via = "mix"
Committed(p) == Run(p).via # "again" /\ (Materializing(p) \/ SiteAt(p, "ok"))
StandsInv ==
    /\ \A p \in Pubs :
          /\ handler[p].pc \in {"policy", "head", "write"} =>
                \/ handler[p].seen = NoSite
                \/ handler[p].seen \in Heads /\ Run(p).seq > handler[p].seen.seq
          /\ handler[p].pc \in {"policy", "head"} => head = handler[p].seen \/ ByMix
          /\ Committed(p) /\ ~regressed =>
                /\ head # NoSite /\ head.seq >= Run(p).seq
                /\ head.seq = Run(p).seq => head.snap = p
    /\ regressed => ByMix

\* The policy of HEAD is on record, or kept by the one inside the transaction.
Goes(x) ==
    head # NoSite /\ ~torn /\ Run(head.snap).via = "cli" => x = read_site_fallback(Run(head.snap))
PolicyInv ==
    /\ siteLock = NoSite => Goes(policy)
    /\ \A p \in Pubs :
          /\ Handles(p, "policy") => handler[p].kept = policy
          /\ Inside(p) => Goes(handler[p].kept)
          /\ Handles(p, "head") => policy = read_site_fallback(Run(p))

\* While publishes take turns one of them at most is inside the transaction or
\* materializing, and what it has done so far is in place.
Active(p) == Inside(p) \/ Materializing(p)
Served(x) == head # NoSite /\ ~unfinished /\ ~torn => current = head.snap /\ shown = x
TreeInv ==
    ~flipsOverlap =>
        /\ \A p, q \in Pubs : Active(p) /\ Active(q) => p = q
        /\ current # NoSite /\ ~unfinished =>
              current \in trees \/ \E p \in Pubs : Handles(p, "rename") /\ current = handler[p].snap
        /\ (\A p \in Pubs : ~Active(p)) => Served(policy)
        /\ \A p \in Pubs :
              /\ Inside(p) => Served(handler[p].kept)
              /\ Materializing(p) => head # NoSite /\ handler[p].snap = head.snap
              /\ handler[p].pc \in {"flip", "fallback", "list", "prune"} => handler[p].snap \in trees
              /\ handler[p].pc \in {"fallback", "list", "prune"} => current = handler[p].snap
              /\ handler[p].pc \in {"list", "prune"} => shown = policy
              /\ Handles(p, "prune") => handler[p].kept = current

SiteInv == SiteTypes /\ UploadInv /\ TransInv /\ StandsInv /\ PolicyInv /\ TreeInv

----------------------------------------------------------------------------
(* What a step of one run leaves alone.                                       *)

\* The client of p moves, and no other.
ClientMoves(p) ==
    /\ DOMAIN publisher' = Pubs
    /\ \A q \in Pubs : q # p => publisher'[q] = publisher[q]
    /\ publisher'[p] = [pc |-> publisher'[p].pc, todo |-> publisher'[p].todo]

\* The server's side of p moves, and no other.
HandlerMoves(p) ==
    /\ DOMAIN handler' = Pubs
    /\ \A q \in Pubs : q # p => handler'[q] = handler[q]
    /\ handler'[p] = [pc |-> handler'[p].pc, snap |-> handler'[p].snap, kept |-> handler'[p].kept,
                      seen |-> handler'[p].seen]

\* What every run is stays as it was.
RunsKept == RunsOf(siteMenu') /\ siteMenu'.runs = siteMenu.runs

\* A step of p's.
StepOf(p) == ClientMoves(p) /\ HandlerMoves(p) /\ RunsKept

\* What a run is does not change with the budgets.
LEMMA SiteBudgetsOnly ==
  ASSUME RunsOf(siteMenu), NEW n,
         \/ siteMenu' = siteMenu
         \/ siteMenu' = [siteMenu EXCEPT !.faults = n]
         \/ siteMenu' = [siteMenu EXCEPT !.crashes = n]
  PROVE  RunsKept
<1>1. siteMenu'.runs = siteMenu.runs
  BY Zenon DEF RunsOf
<1>2. siteMenu' = [runs |-> siteMenu'.runs, faults |-> siteMenu'.faults, crashes |-> siteMenu'.crashes]
  BY Zenon DEF RunsOf
<1> QED
  BY Zenon, <1>1, <1>2 DEF RunsOf, RunsKept

\* A fault spends its budget and leaves the publishes to come as they are.
LEMMA FaultKeepsRuns ==
  ASSUME SiteTypes, SiteFine \/ SiteFault
  PROVE  RunsKept
  BY Zenon, SiteBudgetsOnly DEF SiteTypes, SiteFine, SiteFault

\* What moving the client p to pc does to the clients.
LEMMA ClientToMoves ==
  ASSUME SiteTypes, NEW p \in Pubs, NEW pc, ClientTo(p, pc)
  PROVE  ClientMoves(p) /\ publisher'[p].pc = pc /\ publisher'[p].todo = publisher[p].todo
<1> DEFINE was == publisher[p]
<1>1. was = [pc |-> was.pc, todo |-> was.todo]
  BY Zenon DEF SiteTypes
<1>2. DOMAIN publisher' = Pubs /\ \A q \in Pubs : q # p => publisher'[q] = publisher[q]
  BY Zenon DEF SiteTypes, ClientTo
<1>3. publisher'[p] = [was EXCEPT !.pc = pc]
  BY Zenon DEF SiteTypes, ClientTo
<1> HIDE DEF was
<1>4. [was EXCEPT !.pc = pc] = [pc |-> pc, todo |-> was.todo]
  BY <1>1
<1>5. publisher'[p] = [pc |-> pc, todo |-> was.todo]
  BY Zenon, <1>3, <1>4
<1> QED
  BY <1>2, <1>5 DEF ClientMoves, was

\* What moving the request of p to pc does to the requests.
LEMMA HandlerToMoves ==
  ASSUME SiteTypes, NEW p \in Pubs, NEW pc, HandlerTo(p, pc)
  PROVE  /\ HandlerMoves(p) /\ handler'[p].pc = pc /\ handler'[p].snap = handler[p].snap
         /\ handler'[p].kept = handler[p].kept /\ handler'[p].seen = handler[p].seen
<1> DEFINE was == handler[p]
<1>1. was = [pc |-> was.pc, snap |-> was.snap, kept |-> was.kept, seen |-> was.seen]
  BY Zenon DEF SiteTypes
<1>2. DOMAIN handler' = Pubs /\ \A q \in Pubs : q # p => handler'[q] = handler[q]
  BY Zenon DEF SiteTypes, HandlerTo
<1>3. handler'[p] = [was EXCEPT !.pc = pc]
  BY Zenon DEF SiteTypes, HandlerTo
<1> HIDE DEF was
<1>4. [was EXCEPT !.pc = pc] = [pc |-> pc, snap |-> was.snap, kept |-> was.kept, seen |-> was.seen]
  BY <1>1
<1>5. handler'[p] = [pc |-> pc, snap |-> was.snap, kept |-> was.kept, seen |-> was.seen]
  BY Zenon, <1>3, <1>4
<1> QED
  BY <1>2, <1>5 DEF HandlerMoves, was

\* What the handler may write down as it moves on.
Enters(p, pc, kept, seen) == handler' = [handler EXCEPT ![p].pc = pc, ![p].kept = kept, ![p].seen = seen]
Sees(p, pc, seen) == handler' = [handler EXCEPT ![p].pc = pc, ![p].seen = seen]
Aims(p, pc, snap) == handler' = [handler EXCEPT ![p].pc = pc, ![p].snap = snap]
Keeps(p, pc, kept) == handler' = [handler EXCEPT ![p].pc = pc, ![p].kept = kept]

\* The handler remembers the policy and HEAD as it enters the transaction.
LEMMA HandlerEnters ==
  ASSUME SiteTypes, NEW p \in Pubs, NEW pc, NEW kept, NEW seen,
         Enters(p, pc, kept, seen)
  PROVE  /\ HandlerMoves(p) /\ handler'[p].pc = pc /\ handler'[p].snap = handler[p].snap
         /\ handler'[p].kept = kept /\ handler'[p].seen = seen
<1> DEFINE was == handler[p]
<1>1. was = [pc |-> was.pc, snap |-> was.snap, kept |-> was.kept, seen |-> was.seen]
  BY Zenon DEF SiteTypes
<1>2. DOMAIN handler' = Pubs /\ \A q \in Pubs : q # p => handler'[q] = handler[q]
  BY Zenon DEF SiteTypes, Enters
<1>3. handler'[p] = [was EXCEPT !.pc = pc, !.kept = kept, !.seen = seen]
  BY Zenon DEF SiteTypes, Enters
<1> HIDE DEF was
<1>4. handler'[p] = [pc |-> pc, snap |-> was.snap, kept |-> kept, seen |-> seen]
  BY Zenon, <1>1, <1>3
<1> QED
  BY <1>2, <1>4 DEF HandlerMoves, was

\* It looks at HEAD outside of it.
LEMMA HandlerSees ==
  ASSUME SiteTypes, NEW p \in Pubs, NEW pc, NEW seen,
         Sees(p, pc, seen)
  PROVE  /\ HandlerMoves(p) /\ handler'[p].pc = pc /\ handler'[p].snap = handler[p].snap
         /\ handler'[p].kept = handler[p].kept /\ handler'[p].seen = seen
<1> DEFINE was == handler[p]
<1>1. was = [pc |-> was.pc, snap |-> was.snap, kept |-> was.kept, seen |-> was.seen]
  BY Zenon DEF SiteTypes
<1>2. DOMAIN handler' = Pubs /\ \A q \in Pubs : q # p => handler'[q] = handler[q]
  BY Zenon DEF SiteTypes, Sees
<1>3. handler'[p] = [was EXCEPT !.pc = pc, !.seen = seen]
  BY Zenon DEF SiteTypes, Sees
<1> HIDE DEF was
<1>4. handler'[p] = [pc |-> pc, snap |-> was.snap, kept |-> was.kept, seen |-> seen]
  BY Zenon, <1>1, <1>3
<1> QED
  BY <1>2, <1>4 DEF HandlerMoves, was

\* It takes up a snapshot.
LEMMA HandlerAims ==
  ASSUME SiteTypes, NEW p \in Pubs, NEW pc, NEW snap,
         Aims(p, pc, snap)
  PROVE  /\ HandlerMoves(p) /\ handler'[p].pc = pc /\ handler'[p].snap = snap
         /\ handler'[p].kept = handler[p].kept /\ handler'[p].seen = handler[p].seen
<1> DEFINE was == handler[p]
<1>1. was = [pc |-> was.pc, snap |-> was.snap, kept |-> was.kept, seen |-> was.seen]
  BY Zenon DEF SiteTypes
<1>2. DOMAIN handler' = Pubs /\ \A q \in Pubs : q # p => handler'[q] = handler[q]
  BY Zenon DEF SiteTypes, Aims
<1>3. handler'[p] = [was EXCEPT !.pc = pc, !.snap = snap]
  BY Zenon DEF SiteTypes, Aims
<1> HIDE DEF was
<1>4. handler'[p] = [pc |-> pc, snap |-> snap, kept |-> was.kept, seen |-> was.seen]
  BY Zenon, <1>1, <1>3
<1> QED
  BY <1>2, <1>4 DEF HandlerMoves, was

\* It remembers the trees, or the live one.
LEMMA HandlerKeeps ==
  ASSUME SiteTypes, NEW p \in Pubs, NEW pc, NEW kept,
         Keeps(p, pc, kept)
  PROVE  /\ HandlerMoves(p) /\ handler'[p].pc = pc /\ handler'[p].snap = handler[p].snap
         /\ handler'[p].kept = kept /\ handler'[p].seen = handler[p].seen
<1> DEFINE was == handler[p]
<1>1. was = [pc |-> was.pc, snap |-> was.snap, kept |-> was.kept, seen |-> was.seen]
  BY Zenon DEF SiteTypes
<1>2. DOMAIN handler' = Pubs /\ \A q \in Pubs : q # p => handler'[q] = handler[q]
  BY Zenon DEF SiteTypes, Keeps
<1>3. handler'[p] = [was EXCEPT !.pc = pc, !.kept = kept]
  BY Zenon DEF SiteTypes, Keeps
<1> HIDE DEF was
<1>4. handler'[p] = [pc |-> pc, snap |-> was.snap, kept |-> kept, seen |-> was.seen]
  BY Zenon, <1>1, <1>3
<1> QED
  BY <1>2, <1>4 DEF HandlerMoves, was

\* A step that leaves the clients, or the requests, alone moves none of them.
LEMMA NobodyMoves ==
  ASSUME SiteTypes, NEW p \in Pubs
  PROVE  /\ publisher' = publisher => ClientMoves(p)
         /\ handler' = handler => HandlerMoves(p)
  BY Zenon DEF SiteTypes, ClientMoves, HandlerMoves

\* An answer reaches a client that is still waiting.
LEMMA ReplyMoves ==
  ASSUME SiteTypes, NEW p \in Pubs, NEW verdict, SiteReply(p, verdict)
  PROVE  /\ ClientMoves(p) /\ publisher'[p].todo = publisher[p].todo
         /\ publisher'[p].pc = IF publisher[p].pc = "waiting" THEN verdict ELSE publisher[p].pc
         /\ HandlerMoves(p) /\ handler'[p].pc = "idle"
<1> DEFINE pc == IF publisher[p].pc = "waiting" THEN verdict ELSE publisher[p].pc
<1>1. ClientTo(p, pc)
  BY Zenon DEF SiteReply, ClientTo, SiteTypes
<1> QED
  BY <1>1, ClientToMoves, HandlerToMoves DEF SiteReply

----------------------------------------------------------------------------
(* The steps, by what they touch.                                             *)

\* A step of p keeps the shapes.
LEMMA TypesKept ==
  ASSUME SiteTypes, NEW p \in Pubs, StepOf(p), head' \in Heads \cup {NoSite}
  PROVE  SiteTypes'
  BY Zenon DEF SiteTypes, StepOf, ClientMoves, HandlerMoves, RunsKept

\* Uploads only add to what is whole.
LEMMA StoredGrows ==
  ASSUME RunsKept, manifests \subseteq manifests', chunks \subseteq chunks'
  PROVE  Stored \subseteq Stored'
  BY Zenon DEF Stored, Whole, build_snapshot, Run, RunsKept

\* The uploads stay, and a request goes on as what it was.
LEMMA UploadKept ==
  ASSUME SiteTypes, UploadInv, NEW p \in Pubs, StepOf(p),
         manifests \subseteq manifests', chunks \subseteq chunks',
         head' # NoSite => head' = head \/ head'.snap \in Stored,
         handler'[p].pc \in {"commit", "policy", "head", "restore"} => Run(p).via = "cli" /\ p \in Stored,
         handler'[p].pc \in {"check", "write"} => Run(p).via = "mix" /\ p \in Stored,
         publisher'[p].pc = "chunks" =>
            p \in manifests' /\ build_snapshot(p) \subseteq chunks' \cup publisher'[p].todo,
         publisher'[p].pc \in {"start", "identity", "snapshot", "chunks"} => handler'[p].pc = "idle"
  PROVE  UploadInv'
<1>1. Stored \subseteq Stored' /\ \A q : Run(q)' = Run(q) /\ build_snapshot(q)' = build_snapshot(q)
  BY Zenon, StoredGrows DEF StepOf, RunsKept, Run, build_snapshot
<1>2. head' # NoSite => head'.snap \in Stored'
  BY Zenon, <1>1 DEF UploadInv
<1>3. ASSUME NEW q \in Pubs
      PROVE  /\ handler'[q].pc \in {"commit", "policy", "head", "restore"} => Run(q).via = "cli" /\ q \in Stored'
             /\ handler'[q].pc \in {"check", "write"} => Run(q).via = "mix" /\ q \in Stored'
             /\ publisher'[q].pc = "chunks" =>
                   q \in manifests' /\ build_snapshot(q) \subseteq chunks' \cup publisher'[q].todo
             /\ publisher'[q].pc \in {"start", "identity", "snapshot", "chunks"} => handler'[q].pc = "idle"
  <2>1. CASE q = p
    BY Zenon, <1>1, <2>1
  <2>2. CASE q # p
    BY Zenon, <1>1, <2>2 DEF UploadInv, StepOf, ClientMoves, HandlerMoves, SiteAt, Early, Handles
  <2> QED
    BY Zenon, <2>1, <2>2
<1> QED
  BY Zenon, <1>1, <1>2, <1>3 DEF UploadInv, SiteAt, Early, Handles

\* A handler that is neither inside the transaction nor materializing moves, and
\* nothing that counts for the site does.
Outside == {"idle", "commit", "check", "write"}
SiteStays == UNCHANGED <<head, policy, siteLock, torn, regressed, trees, current, shown, flipsOverlap, unfinished>>

\* A step outside of the transaction, of a publish that materializes nothing.
LEMMA OutsideStep ==
  ASSUME SiteInv, NEW p \in Pubs, StepOf(p), SiteStays, UploadInv',
         handler'[p] = handler[p] \/ (handler[p].pc \in Outside /\ handler'[p].pc \in Outside),
         publisher'[p].pc = "ok" => publisher[p].pc = "ok",
         handler'[p].pc = "write" /\ handler[p].pc # "write" =>
            handler'[p].seen = NoSite \/ (handler'[p].seen \in Heads /\ Run(p).seq > handler'[p].seen.seq),
         handler'[p].pc = "write" /\ handler[p].pc = "write" => handler'[p] = handler[p]
  PROVE  SiteInv'
<1> USE DEF SiteStays
<1>1. \A q : Run(q)' = Run(q)
  BY Zenon DEF StepOf, RunsKept, Run
<1>2. SiteTypes'
  BY Zenon, TypesKept DEF SiteInv, SiteTypes
<1>3. \A q \in Pubs : q # p => handler'[q] = handler[q] /\ publisher'[q] = publisher[q]
  BY Zenon DEF StepOf, ClientMoves, HandlerMoves
<1>4. \A q \in Pubs : /\ Inside(q)' = Inside(q) /\ Materializing(q)' = Materializing(q)
                      /\ Inside(q) \/ Materializing(q) => handler'[q] = handler[q]
  BY <1>3 DEF Inside, Materializing, Outside
<1>5. TransInv'
  BY Zenon, <1>4 DEF SiteInv, TransInv
<1>6. StandsInv'
  <2>1. ByMix' = ByMix
    BY Zenon, <1>1 DEF ByMix
  <2>2. \A q \in Pubs : Committed(q)' => Committed(q)
    BY Zenon, <1>1, <1>3, <1>4 DEF Committed, SiteAt
  <2>3. ASSUME NEW q \in Pubs
        PROVE  /\ handler'[q].pc \in {"policy", "head", "write"} =>
                     \/ handler'[q].seen = NoSite
                     \/ handler'[q].seen \in Heads /\ Run(q).seq > handler'[q].seen.seq
               /\ handler'[q].pc \in {"policy", "head"} => head = handler'[q].seen \/ ByMix
    <3>1. CASE handler'[q] = handler[q]
      BY Zenon, <3>1 DEF SiteInv, StandsInv
    <3>2. CASE handler'[q] # handler[q]
      BY Zenon, <1>3, <3>2 DEF Outside
    <3> QED
      BY Zenon, <3>1, <3>2
  <2> QED
    BY Zenon, <1>1, <2>1, <2>2, <2>3 DEF SiteInv, StandsInv
<1>7. PolicyInv'
  <2>1. ASSUME NEW q \in Pubs
        PROVE  /\ handler'[q].pc = "policy" => handler'[q].kept = policy
               /\ Inside(q)' => Goes(handler'[q].kept)
               /\ handler'[q].pc = "head" => policy = read_site_fallback(Run(q))
    <3>1. CASE handler'[q] = handler[q]
      BY Zenon, <1>4, <3>1 DEF SiteInv, PolicyInv, Handles
    <3>2. CASE handler'[q] # handler[q]
      BY Zenon, <1>3, <1>4, <3>2 DEF Outside
    <3> QED
      BY Zenon, <3>1, <3>2
  <2> QED
    BY Zenon, <1>1, <2>1 DEF SiteInv, PolicyInv, Goes, Handles
<1>8. TreeInv'
  <2>1. \A q \in Pubs : Active(q)' = Active(q) /\ (Active(q) => handler'[q] = handler[q])
    BY Zenon, <1>4 DEF Active
  <2>2. \A q \in Pubs : handler'[q].pc \in {"rename", "flip", "fallback", "list", "prune"}
                           => handler'[q] = handler[q]
    BY Zenon, <1>3 DEF Outside
  <2>3. \A q \in Pubs : handler[q].pc = "rename" => handler'[q] = handler[q]
    BY Zenon, <1>3 DEF Outside
  <2> QED
    BY <1>4, <2>1, <2>2, <2>3 DEF SiteInv, TreeInv, Served, Handles, Active
<1> QED
  BY Zenon, <1>2, <1>5, <1>6, <1>7, <1>8 DEF SiteInv

\* What a client's own step leaves behind: the chunks it has still to upload are
\* the ones that may be missing.
Uploading(p) ==
    /\ ClientMoves(p) /\ publisher'[p].pc # "ok"
    /\ publisher'[p].pc = "chunks" =>
          p \in manifests' /\ build_snapshot(p) \subseteq chunks' \cup publisher'[p].todo
    /\ publisher'[p].pc \in {"start", "identity", "snapshot", "chunks"} => Early(p)

\* A chunk is crossed off when it is stored.
LEMMA ChunkUploads ==
  ASSUME SiteInv, NEW p \in Pubs, NEW c \in publisher[p].todo, put_chunk(p, c)
  PROVE  Uploading(p)
<1>1. CASE ClientTo(p, "failed")
  BY <1>1, ClientToMoves DEF SiteInv, Uploading
<1>2. CASE chunks' = chunks \cup {c} /\ publisher' = [publisher EXCEPT ![p].todo = @ \ {c}]
  <2> DEFINE was == publisher[p]
             left == publisher[p].todo \ {c}
  <2>1. was = [pc |-> was.pc, todo |-> was.todo]
    BY Zenon DEF SiteInv, SiteTypes
  <2>2. DOMAIN publisher' = Pubs /\ \A q \in Pubs : q # p => publisher'[q] = publisher[q]
    BY Zenon, <1>2 DEF SiteInv, SiteTypes
  <2>3. publisher'[p] = [was EXCEPT !.todo = left]
    BY Zenon, <1>2 DEF SiteInv, SiteTypes
  <2>4. was.pc = "chunks" /\ p \in manifests /\ manifests' = manifests
        /\ build_snapshot(p) \subseteq chunks \cup publisher[p].todo
    BY Zenon DEF put_chunk, SiteAt, SiteInv, UploadInv
  <2> HIDE DEF was, left
  <2>5. [was EXCEPT !.todo = left] = [pc |-> was.pc, todo |-> left]
    BY <2>1
  <2>6. publisher'[p] = [pc |-> "chunks", todo |-> left]
    BY Zenon, <2>3, <2>4, <2>5
  <2>7. ClientMoves(p) /\ publisher'[p].pc = "chunks" /\ publisher'[p].todo = left
    BY <2>2, <2>6 DEF ClientMoves
  <2> QED
    BY Zenon, <1>2, <2>4, <2>7 DEF Uploading, Early, was, left
<1> QED
  BY Zenon, <1>1, <1>2 DEF put_chunk

\* The client's own steps.
LEMMA ClientStep ==
  ASSUME SiteInv, NEW p \in Pubs,
         \/ cmd_publish(p) \/ register_identity(p) \/ post_snapshot(p) \/ HangUp(p)
         \/ \E c \in publisher[p].todo : put_chunk(p, c)
  PROVE  SiteInv'
<1>1. SiteStays /\ handler' = handler
  BY Zenon DEF cmd_publish, register_identity, post_snapshot, HangUp, put_chunk, Records, Tree, SiteStays
<1>2. RunsKept
  BY FaultKeepsRuns, Zenon DEF SiteInv, cmd_publish, register_identity, post_snapshot, HangUp, put_chunk, SiteFine
<1>3. HandlerMoves(p)
  BY Zenon, <1>1, NobodyMoves DEF SiteInv
<1>4. manifests \subseteq manifests' /\ chunks \subseteq chunks'
  BY Zenon DEF cmd_publish, register_identity, post_snapshot, HangUp, put_chunk, Records
<1>5. Uploading(p)
  <2>1. CASE cmd_publish(p)
    <3>1. \E pc \in {"failed", "identity", "snapshot"} : ClientTo(p, pc)
      BY Zenon, <2>1 DEF cmd_publish
    <3> QED
      BY Zenon, <2>1, <3>1, ClientToMoves DEF SiteInv, cmd_publish, Early, SiteAt, Uploading
  <2>2. CASE register_identity(p)
    <3>1. \E pc \in {"failed", "snapshot"} : ClientTo(p, pc)
      BY <2>2, Zenon DEF register_identity
    <3> QED
      BY Zenon, <2>2, <3>1, ClientToMoves DEF SiteInv, register_identity, Early, SiteAt, Uploading
  <2>3. CASE post_snapshot(p)
    <3>1. CASE ClientTo(p, "failed")
      BY <3>1, ClientToMoves DEF SiteInv, Uploading
    <3>2. CASE publisher' = [publisher EXCEPT ![p] = [pc |-> "chunks", todo |-> build_snapshot(p) \ chunks]]
      <4>1. DOMAIN publisher' = Pubs /\ \A q \in Pubs : q # p => publisher'[q] = publisher[q]
        BY Zenon, <3>2 DEF SiteInv, SiteTypes
      <4>2. publisher'[p] = [pc |-> "chunks", todo |-> build_snapshot(p) \ chunks]
        BY Zenon, <3>2 DEF SiteInv, SiteTypes
      <4>3. ClientMoves(p) /\ publisher'[p].pc = "chunks" /\ publisher'[p].todo = build_snapshot(p) \ chunks
        BY <4>1, <4>2 DEF ClientMoves
      <4>4. chunks' = chunks /\ Early(p)
        BY Zenon, <2>3 DEF post_snapshot, Early, SiteAt
      <4>5. p \in manifests' \/ ClientTo(p, "failed")
        BY Zenon, <2>3 DEF post_snapshot
      <4>6. ~ClientTo(p, "failed")
        BY <4>3, ClientToMoves DEF SiteInv
      <4> QED
        BY Zenon, <4>3, <4>4, <4>5, <4>6 DEF Uploading
    <3> QED
      BY Zenon, <2>3, <3>1, <3>2 DEF post_snapshot
  <2>4. CASE HangUp(p)
    BY <2>4, ClientToMoves DEF SiteInv, HangUp, Uploading
  <2>5. ASSUME NEW c \in publisher[p].todo, put_chunk(p, c)
        PROVE  Uploading(p)
    BY Zenon, <2>5, ChunkUploads
  <2> QED
    BY Zenon, <2>1, <2>2, <2>3, <2>4, <2>5
<1>6. StepOf(p)
  BY <1>2, <1>3, <1>5, SMTT(30) DEF StepOf, Uploading
<1>7. UploadInv'
  <2>1. head' = head
    BY Zenon, <1>1 DEF SiteStays
  <2>2. Early(p) => handler'[p].pc = "idle"
    BY Zenon, <1>1 DEF SiteInv, UploadInv, Handles
  <2> QED
    BY <1>1, <1>4, <1>5, <1>6, <2>1, <2>2, UploadKept, Zenon DEF SiteInv, UploadInv, Uploading
<1> QED
  BY Zenon, <1>1, <1>5, <1>6, <1>7, OutsideStep DEF Uploading

\* A request arrives: every chunk it needs is stored.
LEMMA RequestStep ==
  ASSUME SiteInv, NEW p \in Pubs, commit_head_and_fallback(p) \/ post_head(p)
  PROVE  SiteInv'
<1>1. /\ SiteStays /\ manifests' = manifests /\ chunks' = chunks /\ siteMenu' = siteMenu
      /\ publisher[p].pc = "chunks" /\ publisher[p].todo = {}
  BY Zenon DEF commit_head_and_fallback, post_head, Records, Tree, SiteStays, SiteAt
<1>2. handler[p].pc = "idle" /\ p \in Stored
  BY Zenon, <1>1 DEF SiteInv, UploadInv, SiteAt, Early, Handles, Stored, Whole
<1>3. \/ ClientTo(p, "failed") /\ handler' = handler
      \/ ClientTo(p, "waiting") /\ HandlerTo(p, "commit") /\ Run(p).via = "cli"
      \/ ClientTo(p, "waiting") /\ HandlerTo(p, "check") /\ Run(p).via = "mix"
  BY Zenon DEF commit_head_and_fallback, post_head
<1>4. ClientMoves(p) /\ publisher'[p].pc \in {"failed", "waiting"}
  BY Zenon, <1>3, ClientToMoves DEF SiteInv
<1>5. /\ HandlerMoves(p)
      /\ \/ handler'[p].pc = "idle"
         \/ handler'[p].pc = "commit" /\ Run(p).via = "cli"
         \/ handler'[p].pc = "check" /\ Run(p).via = "mix"
  BY Zenon, <1>2, <1>3, HandlerToMoves, NobodyMoves DEF SiteInv
<1>6. StepOf(p)
  BY Zenon, <1>1, <1>4, <1>5, SiteBudgetsOnly DEF StepOf, SiteInv, SiteTypes
<1>7. UploadInv'
  <2>1. head' = head
    BY Zenon, <1>1 DEF SiteStays
  <2> QED
    BY Zenon, <1>1, <1>2, <1>4, <1>5, <1>6, <2>1, UploadKept DEF SiteInv
<1> QED
  BY Zenon, <1>1, <1>2, <1>4, <1>5, <1>6, <1>7, OutsideStep DEF Outside

\* A request is refused before it has changed anything.
LEMMA RefusalStep ==
  ASSUME SiteInv, NEW p \in Pubs, SiteReply(p, "failed"), RunsKept, SiteStays,
         UNCHANGED <<manifests, chunks>>, handler[p].pc \in {"commit", "check", "write"}
  PROVE  SiteInv'
<1>1. StepOf(p) /\ handler'[p].pc = "idle"
  BY Zenon, ReplyMoves DEF SiteInv, StepOf
<1>2. publisher'[p].pc \in {publisher[p].pc, "failed"} /\ ~Early(p)
  BY Zenon, ReplyMoves DEF SiteInv, UploadInv, Handles
<1>3. UploadInv'
  <2>1. head' = head
    BY Zenon DEF SiteStays
  <2> QED
    BY Zenon, <1>1, <1>2, <2>1, UploadKept DEF SiteInv, Early
<1> QED
  BY Zenon, <1>1, <1>2, <1>3, OutsideStep DEF Outside

\* POST /head looks at HEAD.
LEMMA CheckHeadStep ==
  ASSUME SiteInv, NEW p \in Pubs, CheckHead(p)
  PROVE  SiteInv'
<1>1. SiteStays /\ UNCHANGED <<manifests, chunks, siteMenu>> /\ handler[p].pc = "check"
  BY Zenon DEF CheckHead, Records, Tree, SiteStays, Handles
<1>2. RunsKept
  BY Zenon, <1>1, SiteBudgetsOnly DEF SiteInv, SiteTypes
<1>3. CASE check_head_monotonic(p) /\ handler' = [handler EXCEPT ![p].pc = "write", ![p].seen = head]
           /\ publisher' = publisher
  <2>1. HandlerMoves(p) /\ handler'[p].pc = "write" /\ handler'[p].seen = head
    <3>1. Sees(p, "write", head)
      BY Zenon, <1>3 DEF Sees
    <3> QED
      BY Zenon, <3>1, HandlerSees DEF SiteInv
  <2>2. StepOf(p)
    BY Zenon, <1>2, <1>3, <2>1, NobodyMoves DEF StepOf, SiteInv
  <2>3. Run(p).via = "mix" /\ p \in Stored /\ ~Early(p)
    BY Zenon, <1>1 DEF SiteInv, UploadInv, Handles
  <2>4. UploadInv'
    <3>1. head' = head
      BY Zenon, <1>1 DEF SiteStays
    <3> QED
      BY <1>1, <1>3, <2>1, <2>2, <2>3, <3>1, UploadKept, Zenon DEF SiteInv, Early
  <2>5. head = NoSite \/ (head \in Heads /\ Run(p).seq > head.seq)
    BY Zenon, <1>3 DEF check_head_monotonic, SiteInv, SiteTypes
  <2> QED
    BY <1>1, <1>3, <2>1, <2>2, <2>4, <2>5, OutsideStep, Zenon DEF Outside
<1>4. CASE SiteReply(p, "failed")
  BY Zenon, <1>1, <1>2, <1>4, RefusalStep
<1> QED
  BY Zenon, <1>3, <1>4 DEF CheckHead

----------------------------------------------------------------------------
(* Inside the transaction.                                                    *)

\* Entering: HEAD is older, the policy is remembered, nobody else is active
\* unless publishes overlap.
LEMMA EnterStep ==
  ASSUME SiteInv, NEW p \in Pubs, commit_head_and_policy(p)
  PROVE  SiteInv'
<1>1. /\ UNCHANGED <<manifests, chunks, head, policy, torn, regressed, trees, current, shown, unfinished, siteMenu>>
      /\ handler[p].pc = "commit" /\ siteLock = NoSite
  BY Zenon DEF commit_head_and_policy, Handles
<1>2. RunsKept /\ \A q : Run(q)' = Run(q)
  BY Zenon, <1>1, SiteBudgetsOnly DEF SiteInv, SiteTypes, Run
<1>3. CASE SiteReply(p, "failed") /\ UNCHANGED <<siteLock, flipsOverlap>>
  BY Zenon, <1>1, <1>2, <1>3, RefusalStep DEF SiteStays
<1>4. CASE /\ check_head_monotonic(p) /\ siteLock' = p
           /\ handler' = [handler EXCEPT ![p].pc = "policy", ![p].kept = policy, ![p].seen = head]
           /\ flipsOverlap' = (flipsOverlap \/ ~Alone(p))
           /\ publisher' = publisher
  <2>1. HandlerMoves(p) /\ handler'[p].pc = "policy" /\ handler'[p].kept = policy /\ handler'[p].seen = head
    <3>1. Enters(p, "policy", policy, head)
      BY Zenon, <1>4 DEF Enters
    <3> QED
      BY Zenon, <3>1, HandlerEnters DEF SiteInv
  <2>2. StepOf(p)
    BY Zenon, <1>2, <1>4, <2>1, NobodyMoves DEF StepOf, SiteInv
  <2>3. SiteTypes'
    BY Zenon, <1>1, <2>2, TypesKept DEF SiteInv, SiteTypes
  <2>4. Run(p).via = "cli" /\ p \in Stored /\ ~Early(p)
    BY Zenon, <1>1 DEF SiteInv, UploadInv, Handles
  <2>5. UploadInv'
    BY <1>1, <1>4, <2>1, <2>2, <2>4, UploadKept, Zenon DEF SiteInv, Early
  <2>6. \A q \in Pubs : q # p => handler'[q] = handler[q]
    BY Zenon, <2>1 DEF HandlerMoves
  <2>7. \A q \in Pubs : ~Inside(q)
    BY Zenon, <1>1, NoSiteIsNone DEF SiteInv, TransInv
  <2>8. TransInv'
    BY <1>4, <2>1, <2>6, <2>7, Zenon DEF TransInv, Inside
  <2>9. StandsInv'
    <3>1. head = NoSite \/ (head \in Heads /\ Run(p).seq > head.seq)
      BY Zenon, <1>4 DEF check_head_monotonic, SiteInv, SiteTypes
    <3>2. ByMix' = ByMix /\ \A q \in Pubs : Committed(q)' => Committed(q)
      BY <1>2, <1>4, <2>1, <2>6, Zenon DEF ByMix, Committed, Materializing, SiteAt
    <3> QED
      BY Zenon, <1>1, <1>2, <2>1, <2>6, <3>1, <3>2 DEF SiteInv, StandsInv
  <2>10. PolicyInv'
    <3>1. Goes(policy) /\ siteLock' # NoSite
      BY Zenon, <1>1, <1>4, NoSiteIsNone DEF SiteInv, PolicyInv
    <3>2. \A q \in Pubs : q # p => ~Inside(q)' /\ handler'[q].pc \notin {"policy", "head"}
      BY Zenon, <2>6, <2>7 DEF Inside
    <3> QED
      BY Zenon, <1>1, <1>2, <2>1, <3>1, <3>2 DEF PolicyInv, Goes, Handles
  <2>11. TreeInv'
    <3> SUFFICES ASSUME ~flipsOverlap' PROVE TreeInv'
      BY Zenon DEF TreeInv
    <3>1. ~flipsOverlap /\ \A q \in Pubs : q # p => ~Materializing(q)
      BY <1>4, Zenon DEF Alone
    <3>2. \A q \in Pubs : ~Active(q)
      BY Zenon, <1>1, <2>7, <3>1 DEF Active, Materializing
    <3>3. Served(policy)
      BY Zenon, <3>1, <3>2 DEF SiteInv, TreeInv
    <3>4. \A q \in Pubs : q # p => ~Active(q)' /\ ~Inside(q)' /\ ~Materializing(q)' /\ handler'[q].pc # "rename"
      BY Zenon, <2>6, <3>2 DEF Active, Inside, Materializing
    <3>5. Active(p)' /\ ~Materializing(p)'
      BY Zenon, <2>1 DEF Active, Inside, Materializing
    <3>6. \A q \in Pubs : handler'[q].pc \notin {"rename", "flip", "fallback", "list", "prune"}
      BY Zenon, <2>1, <3>4 DEF Materializing
    <3>7. current # NoSite /\ ~unfinished => current \in trees
      BY Zenon, <3>1, <3>2 DEF SiteInv, TreeInv, Active, Materializing, Handles
    <3> QED
      BY <1>1, <2>1, <3>3, <3>4, <3>5, <3>6, <3>7, SMTT(30) DEF TreeInv, Served, Handles
  <2> QED
    BY Zenon, <2>3, <2>5, <2>8, <2>9, <2>10, <2>11 DEF SiteInv
<1> QED
  BY Zenon, <1>3, <1>4 DEF commit_head_and_policy

\* Only one run is inside, and while publishes take turns no other is active.
LEMMA AloneInside ==
  ASSUME SiteInv, NEW p \in Pubs, Inside(p)
  PROVE  /\ siteLock = p /\ siteLock # NoSite /\ ~Early(p)
         /\ \A q \in Pubs : q # p => ~Inside(q)
         /\ ~flipsOverlap => \A q \in Pubs : q # p => ~Active(q) /\ ~Materializing(q)
         /\ Run(p).via = "cli" /\ p \in Stored /\ ~Materializing(p)
  BY Zenon, NoSiteIsNone DEF SiteInv, TransInv, TreeInv, Active, Inside, UploadInv, Handles, Materializing

\* While publishes take turns and none materializes, the link does not dangle.
LEMMA LinkInPlace ==
  ASSUME SiteInv, ~flipsOverlap, \A q \in Pubs : ~Materializing(q), current # NoSite, ~unfinished
  PROVE  current \in trees
  BY Zenon DEF SiteInv, TreeInv, Materializing, Handles

\* The policy is written, or one of the two writes fails.
LEMMA InsideStep ==
  ASSUME SiteInv, NEW p \in Pubs, Inside(p), NEW pc \in {"head", "restore"}, HandlerTo(p, pc), RunsKept,
         UNCHANGED <<manifests, chunks, head, siteLock, torn, regressed, Tree, publisher>>,
         pc = "head" => handler[p].pc = "policy" /\ policy' = read_site_fallback(Run(p))
  PROVE  SiteInv'
<1>1. /\ HandlerMoves(p) /\ handler'[p].pc = pc /\ handler'[p].kept = handler[p].kept
      /\ handler'[p].seen = handler[p].seen
  BY Zenon, HandlerToMoves DEF SiteInv
<1>2. StepOf(p)
  BY <1>1, NobodyMoves, SMTT(30) DEF StepOf, SiteInv
<1>3. SiteTypes'
  BY Zenon, <1>2, TypesKept DEF SiteInv, SiteTypes
<1>4. \A q : Run(q)' = Run(q)
  BY Zenon DEF RunsKept, Run
<1>5. \A q \in Pubs : q # p => handler'[q] = handler[q]
  BY <1>1, SMTT(30) DEF HandlerMoves
<1>6. UploadInv'
  BY <1>1, <1>2, AloneInside, UploadKept, SMTT(30) DEF SiteInv, Early
<1>7. \A q \in Pubs : (Inside(q)' <=> Inside(q)) /\ (Materializing(q)' <=> Materializing(q))
  <2>1. Inside(p)' /\ ~Materializing(p) /\ ~Materializing(p)'
    BY Zenon, <1>1, AloneInside DEF Inside, Materializing
  <2>2. \A q \in Pubs : q # p => (Inside(q)' <=> Inside(q)) /\ (Materializing(q)' <=> Materializing(q))
    BY Zenon, <1>5 DEF Inside, Materializing
  <2> QED
    BY Zenon, <2>1, <2>2
<1>8. TransInv'
  BY Zenon, <1>7 DEF SiteInv, TransInv
<1>9. StandsInv'
  <2>1. ByMix' = ByMix /\ \A q \in Pubs : Committed(q)' => Committed(q)
    BY Zenon, <1>4, <1>7 DEF ByMix, Committed, SiteAt
  <2>2. ASSUME NEW q \in Pubs
        PROVE  /\ handler'[q].pc \in {"policy", "head", "write"} =>
                     \/ handler'[q].seen = NoSite
                     \/ handler'[q].seen \in Heads /\ Run(q).seq > handler'[q].seen.seq
               /\ handler'[q].pc \in {"policy", "head"} => head = handler'[q].seen \/ ByMix
    <3>1. CASE q = p
      BY Zenon, <1>1, <3>1 DEF SiteInv, StandsInv
    <3>2. CASE q # p
      BY <1>5, <3>2, SMTT(30) DEF SiteInv, StandsInv
    <3> QED
      BY Zenon, <3>1, <3>2
  <2> QED
    BY <1>4, <2>1, <2>2, SMTT(30) DEF SiteInv, StandsInv
<1>10. PolicyInv'
  <2>1. Goes(handler[p].kept)
    BY Zenon DEF SiteInv, PolicyInv
  <2>2. \A q \in Pubs : q # p => ~Inside(q)' /\ handler'[q].pc \notin {"policy", "head"}
    BY Zenon, <1>5, AloneInside DEF Inside
  <2> QED
    BY <1>1, <1>4, <2>1, <2>2, AloneInside, SMTT(30) DEF PolicyInv, Goes, Handles
<1>11. TreeInv'
  <2> SUFFICES ASSUME ~flipsOverlap' PROVE TreeInv'
    BY SMTT(30) DEF TreeInv
  <2>1. ~flipsOverlap /\ UNCHANGED <<trees, current, shown, unfinished>>
    BY SMTT(30) DEF Tree
  <2>2. \A q \in Pubs : q # p => ~Active(q)' /\ ~Inside(q)'
    BY Zenon, <1>7, <2>1, AloneInside DEF Active
  <2>3. \A q \in Pubs : ~Materializing(q) /\ ~Materializing(q)'
    BY Zenon, <1>7, <2>1, AloneInside
  <2>4. \A q \in Pubs : handler'[q].pc \notin {"rename", "flip", "fallback", "list", "prune"}
    BY <2>3, SMTT(30) DEF Materializing
  <2>5. Served(handler[p].kept) /\ Active(p)'
    BY <1>7, <2>1, Zenon DEF SiteInv, TreeInv, Active
  <2>6. current # NoSite /\ ~unfinished => current \in trees
    BY Zenon, <2>1, <2>3, LinkInPlace
  <2> QED
    BY <1>1, <2>1, <2>2, <2>3, <2>4, <2>5, <2>6, SMTT(30) DEF TreeInv, Served, Handles
<1> QED
  BY Zenon, <1>3, <1>6, <1>8, <1>9, <1>10, <1>11 DEF SiteInv

\* The old policy is put back, or the two are torn apart.
LEMMA RestoreStep ==
  ASSUME SiteInv, NEW p \in Pubs, restore_policy_record(p)
  PROVE  SiteInv'
<1>1. /\ UNCHANGED <<manifests, chunks, head, regressed, trees, current, shown, flipsOverlap, unfinished>>
      /\ handler[p].pc = "restore" /\ Inside(p) /\ siteLock' = NoSite /\ SiteReply(p, "failed")
      /\ (policy' = handler[p].kept /\ torn' = torn) \/ torn' = TRUE
  BY Zenon DEF restore_policy_record, Handles, Inside, Tree
<1>2. RunsKept /\ \A q : Run(q)' = Run(q)
  <2>1. RunsKept
    BY Zenon, FaultKeepsRuns DEF SiteInv, restore_policy_record
  <2> QED
    BY Zenon, <2>1 DEF RunsKept, Run
<1>3. StepOf(p) /\ handler'[p].pc = "idle" /\ publisher'[p].pc \in {publisher[p].pc, "failed"}
  BY <1>1, <1>2, ReplyMoves, SMTT(30) DEF StepOf, SiteInv
<1>4. SiteTypes'
  BY <1>1, <1>3, TypesKept, SMTT(30) DEF SiteInv, SiteTypes
<1>5. \A q \in Pubs : q # p => handler'[q] = handler[q] /\ publisher'[q] = publisher[q]
  BY <1>3, SMTT(30) DEF StepOf, HandlerMoves, ClientMoves
<1>6. UploadInv'
  BY Zenon, <1>1, <1>3, AloneInside, UploadKept DEF SiteInv, Early
<1>7. \A q \in Pubs : ~Inside(q)' /\ (Materializing(q)' <=> Materializing(q))
  <2>1. ~Inside(p)' /\ ~Materializing(p) /\ ~Materializing(p)'
    BY Zenon, <1>1, <1>3, AloneInside DEF Inside, Materializing
  <2>2. \A q \in Pubs : q # p => (Inside(q)' <=> Inside(q)) /\ (Materializing(q)' <=> Materializing(q))
    BY Zenon, <1>5 DEF Inside, Materializing
  <2> QED
    BY Zenon, <1>1, <2>1, <2>2, AloneInside
<1>8. TransInv'
  BY <1>1, <1>7, NoSiteIsNone, SMTT(30) DEF SiteInv, TransInv
<1>9. StandsInv'
  <2>1. ByMix' = ByMix /\ \A q \in Pubs : Committed(q)' => Committed(q)
    BY Zenon, <1>2, <1>3, <1>5, <1>7 DEF ByMix, Committed, SiteAt
  <2> QED
    BY <1>1, <1>2, <1>3, <1>5, <2>1, Zenon DEF SiteInv, StandsInv
<1>10. PolicyInv'
  <2>1. Goes(handler[p].kept)
    BY Zenon, <1>1 DEF SiteInv, PolicyInv
  <2>2. \A q \in Pubs : handler'[q].pc \notin {"policy", "head"}
    BY Zenon, <1>7 DEF Inside
  <2>3. Goes(policy)'
    <3>1. CASE torn' = TRUE
      BY Zenon, <3>1 DEF Goes
    <3>2. CASE policy' = handler[p].kept /\ torn' = torn
      BY Zenon, <1>1, <1>2, <2>1, <3>2 DEF Goes
    <3> QED
      BY Zenon, <1>1, <3>1, <3>2
  <2> QED
    BY <1>7, <2>2, <2>3, SMTT(30) DEF PolicyInv, Handles
<1>11. TreeInv'
  <2> SUFFICES ASSUME ~flipsOverlap PROVE TreeInv'
    BY Zenon, <1>1 DEF TreeInv
  <2>1. \A q \in Pubs : ~Materializing(q) /\ ~Materializing(q)' /\ ~Active(q)'
    BY Zenon, <1>1, <1>7, AloneInside DEF Active
  <2>2. \A q \in Pubs : handler'[q].pc \notin {"rename", "flip", "fallback", "list", "prune"}
    BY <2>1, SMTT(30) DEF Materializing
  <2>3. Served(handler[p].kept)
    BY <1>1, Zenon DEF SiteInv, TreeInv
  <2>4. current # NoSite /\ ~unfinished => current \in trees
    BY Zenon, <2>1, LinkInPlace
  <2> QED
    BY <1>1, <1>7, <2>1, <2>2, <2>3, <2>4 DEF TreeInv, Served, Handles
<1> QED
  BY Zenon, <1>4, <1>6, <1>8, <1>9, <1>10, <1>11 DEF SiteInv

----------------------------------------------------------------------------
(* HEAD is written, and the materializer starts.                              *)

\* A materialization that starts by itself keeps the tree's part of the invariant.
LEMMA BuildStarts ==
  ASSUME SiteInv, NEW p \in Pubs, HandlerMoves(p), handler'[p].pc = "build",
         UNCHANGED <<trees, current, shown, unfinished>>, head' # NoSite, handler'[p].snap = head'.snap,
         ~flipsOverlap' => ~flipsOverlap /\ ~Materializing(p) /\ \A q \in Pubs : q # p => ~Active(q)
  PROVE  TreeInv'
<1> SUFFICES ASSUME ~flipsOverlap' PROVE TreeInv'
  BY Zenon DEF TreeInv
<1>1. \A q \in Pubs : q # p => ~Active(q)' /\ ~Inside(q)' /\ ~Materializing(q)'
  BY Zenon DEF Active, Inside, Materializing, HandlerMoves
<1>2. Active(p)' /\ ~Inside(p)'
  BY Zenon DEF Active, Inside, Materializing
<1>3. \A q \in Pubs : handler'[q].pc \notin {"rename", "flip", "fallback", "list", "prune"}
  BY Zenon, <1>1 DEF Materializing
<1>4. current # NoSite /\ ~unfinished => current \in trees
  BY Zenon, LinkInPlace DEF Active
<1> QED
  BY Zenon, <1>1, <1>2, <1>3, <1>4 DEF TreeInv, Handles

\* What a written HEAD is.
LEMMA NewHead ==
  ASSUME SiteInv, NEW p \in Pubs, head' = [snap |-> p, seq |-> Run(p).seq]
  PROVE  /\ head' \in Heads /\ head' # NoSite /\ head'.seq = Run(p).seq /\ head'.snap = p
         /\ \A q \in Pubs : Run(q).seq \in Nat
<1>1. \A q \in Pubs : Run(q).seq \in Nat
  BY Zenon DEF SiteInv, SiteTypes, RunsOf, Run
<1> DEFINE n == Run(p).seq
<1>2. n \in Nat /\ head' = [snap |-> p, seq |-> n]
  BY Zenon, <1>1
<1> HIDE DEF n
<1>3. head' \in Heads /\ head'.seq = n /\ head'.snap = p
  BY <1>2 DEF Heads
<1>4. NoSite \notin Heads
  BY NoSiteIsNone, SMTT(30) DEF Heads
<1> QED
  BY Zenon, <1>1, <1>3, <1>4 DEF n

\* No older HEAD takes the place of a newer one, unless its writer had not seen it.
LEMMA HeadStands ==
  ASSUME SiteInv, NEW p \in Pubs, handler[p].pc \in {"head", "write"}, StepOf(p), publisher' = publisher,
         handler'[p].pc = "build", head' = [snap |-> p, seq |-> Run(p).seq],
         regressed' = (regressed \/ head # handler[p].seen),
         \A q \in Pubs : q # p /\ handler[q].pc \in {"policy", "head"} => ByMix,
         handler[p].pc = "write" => ByMix
  PROVE  StandsInv'
<1>1. ByMix' = ByMix /\ \A q : Run(q)' = Run(q)
  BY Zenon DEF StepOf, RunsKept, Run, ByMix
<1>2. \A q \in Pubs : q # p => handler'[q] = handler[q]
  BY Zenon DEF StepOf, HandlerMoves
<1>3. regressed' => ByMix
  BY Zenon DEF SiteInv, StandsInv
<1>4. head'.seq = Run(p).seq /\ head'.snap = p /\ head' # NoSite /\ \A q \in Pubs : Run(q).seq \in Nat
  BY Zenon, NewHead
<1>5. ASSUME NEW q \in Pubs, Committed(q)', ~regressed'
      PROVE  head' # NoSite /\ head'.seq >= Run(q).seq /\ (head'.seq = Run(q).seq => head'.snap = q)
  <2>1. CASE q = p
    BY <1>4, <2>1
  <2>2. CASE q # p
    <3>1. Committed(q) /\ ~regressed /\ head = handler[p].seen
      BY <1>1, <1>2, <1>5, <2>2, Zenon DEF Committed, Materializing, SiteAt
    <3>2. head # NoSite /\ head.seq >= Run(q).seq
      BY Zenon, <3>1 DEF SiteInv, StandsInv
    <3>3. head \in Heads /\ Run(p).seq > head.seq
      BY Zenon, <3>1, <3>2 DEF SiteInv, StandsInv
    <3>4. head.seq \in Nat
      BY Zenon, <3>3 DEF Heads
    <3>5. Run(p).seq > Run(q).seq
      BY SMTT(30), <1>4, <3>2, <3>3, <3>4
    <3> QED
      BY SMTT(30), <1>4, <3>5
  <2> QED
    BY Zenon, <2>1, <2>2
<1>6. ASSUME NEW q \in Pubs
      PROVE  /\ handler'[q].pc \in {"policy", "head", "write"} =>
                   \/ handler'[q].seen = NoSite
                   \/ handler'[q].seen \in Heads /\ Run(q).seq > handler'[q].seen.seq
             /\ handler'[q].pc \in {"policy", "head"} => ByMix
  BY <1>2, Zenon DEF SiteInv, StandsInv
<1> QED
  BY <1>1, <1>3, <1>5, <1>6, SMTT(30) DEF StandsInv

\* HEAD is written at the end of the transaction, or by POST /head without it.
LEMMA HeadStep ==
  ASSUME SiteInv, NEW p \in Pubs, Aims(p, "build", p), RunsKept,
         head' = [snap |-> p, seq |-> Run(p).seq], regressed' = (regressed \/ head # handler[p].seen),
         UNCHANGED <<manifests, chunks, policy, trees, current, shown, unfinished, publisher>>,
         \/ /\ handler[p].pc = "head" /\ siteLock' = NoSite /\ torn' = FALSE /\ flipsOverlap' = flipsOverlap
         \/ /\ handler[p].pc = "write" /\ siteLock' = siteLock /\ torn' = torn
            /\ flipsOverlap' = (flipsOverlap \/ ~Alone(p) \/ siteLock # NoSite)
  PROVE  SiteInv'
<1>1. HandlerMoves(p) /\ handler'[p].pc = "build" /\ handler'[p].snap = p
  BY HandlerAims, Zenon DEF SiteInv
<1>2. StepOf(p) /\ \A q : Run(q)' = Run(q)
  BY <1>1, NobodyMoves, Zenon DEF StepOf, SiteInv, RunsKept, Run
<1>3. head' \in Heads /\ head' # NoSite /\ head'.snap = p
  BY Zenon, NewHead
<1>4. SiteTypes'
  BY <1>2, <1>3, TypesKept, SMTT(30) DEF SiteInv
<1>5. \A q \in Pubs : q # p => handler'[q] = handler[q]
  BY <1>1, Zenon DEF HandlerMoves
<1>6. p \in Stored /\ ~Early(p) /\ ~Materializing(p)
  BY SMTT(30) DEF SiteInv, UploadInv, Handles, Materializing
<1>7. UploadInv'
  BY <1>1, <1>2, <1>3, <1>6, UploadKept, Zenon DEF SiteInv, Early
<1>8. CASE /\ handler[p].pc = "head" /\ siteLock' = NoSite /\ torn' = FALSE /\ flipsOverlap' = flipsOverlap
  <2>1. Inside(p) /\ \A q \in Pubs : ~Inside(q)'
    BY <1>1, <1>5, <1>8, AloneInside, Zenon DEF Inside
  <2>2. TransInv'
    BY <1>8, <2>1, NoSiteIsNone, SMTT(30) DEF TransInv
  <2>3. StandsInv'
    BY <1>1, <1>2, <1>8, <2>1, AloneInside, HeadStands, Zenon DEF Inside
  <2>4. PolicyInv'
    <3>1. policy = read_site_fallback(Run(p))
      BY <1>8, Zenon DEF SiteInv, PolicyInv, Handles
    <3>2. \A q \in Pubs : handler'[q].pc \notin {"policy", "head"}
      BY <2>1, Zenon DEF Inside
    <3> QED
      BY <1>2, <1>3, <2>1, <3>1, <3>2, Zenon DEF PolicyInv, Goes, Handles
  <2>5. TreeInv'
    BY Zenon, <1>1, <1>3, <1>6, <1>8, <2>1, AloneInside, BuildStarts
  <2> QED
    BY Zenon, <1>4, <1>7, <2>2, <2>3, <2>4, <2>5 DEF SiteInv
<1>9. CASE /\ handler[p].pc = "write" /\ siteLock' = siteLock /\ torn' = torn
           /\ flipsOverlap' = (flipsOverlap \/ ~Alone(p) \/ siteLock # NoSite)
  <2>1. Run(p).via = "mix" /\ ByMix /\ ~Inside(p)
    BY <1>9, Zenon DEF SiteInv, UploadInv, ByMix, Inside
  <2>2. \A q \in Pubs : Inside(q)' <=> Inside(q)
    <3>1. ~Inside(p)'
      BY Zenon, <1>1 DEF Inside
    <3>2. \A q \in Pubs : q # p => (Inside(q)' <=> Inside(q))
      BY Zenon, <1>5 DEF Inside
    <3> QED
      BY Zenon, <2>1, <3>1, <3>2
  <2>3. TransInv'
    BY <1>9, <2>2, SMTT(30) DEF SiteInv, TransInv
  <2>4. StandsInv'
    BY SMTT(30), <1>1, <1>2, <1>9, <2>1, HeadStands
  <2>5. PolicyInv'
    <3>1. siteMenu'.runs[head'.snap].via = "mix"
      BY <1>2, <1>3, <2>1, Zenon DEF Run
    <3>2. \A q \in Pubs : /\ handler'[q].pc = "policy" => handler'[q].kept = policy
                          /\ handler'[q].pc = "head" => policy = read_site_fallback(Run(q))
      BY <1>1, <1>5, Zenon DEF SiteInv, PolicyInv, Handles
    <3> QED
      BY <1>2, <3>1, <3>2, SMTT(30) DEF PolicyInv, Goes, Handles, Run
  <2>6. TreeInv'
    <3>1. ~flipsOverlap' => ~flipsOverlap /\ \A q \in Pubs : q # p => ~Active(q)
      BY <1>9, NoSiteIsNone, Zenon DEF Alone, Active, SiteInv, TransInv
    <3> QED
      BY Zenon, <1>1, <1>3, <1>6, <3>1, BuildStarts
  <2> QED
    BY Zenon, <1>4, <1>7, <2>3, <2>4, <2>5, <2>6 DEF SiteInv
<1> QED
  BY Zenon, <1>8, <1>9

\* A re-materialization takes up what HEAD names.
LEMMA AgainStep ==
  ASSUME SiteInv, NEW p \in Pubs, materialize_head(p)
  PROVE  SiteInv'
<1>1. /\ UNCHANGED <<manifests, chunks, head, policy, siteLock, torn, regressed, trees, current, shown,
                     unfinished, siteMenu>>
      /\ publisher[p].pc = "start" /\ Run(p).via = "again" /\ head # NoSite /\ ClientTo(p, "waiting")
      /\ flipsOverlap' = (flipsOverlap \/ ~Alone(p) \/ siteLock # NoSite)
  BY Zenon DEF materialize_head, Records, SiteAt
<1>2. Aims(p, "build", head.snap)
  BY Zenon DEF materialize_head, Aims
<1>3. HandlerMoves(p) /\ handler'[p].pc = "build" /\ handler'[p].snap = head.snap
  BY <1>2, HandlerAims DEF SiteInv
<1>4. ClientMoves(p) /\ publisher'[p].pc = "waiting"
  BY Zenon, <1>1, ClientToMoves DEF SiteInv
<1>5. StepOf(p) /\ \A q : Run(q)' = Run(q)
  BY <1>1, <1>3, <1>4, SiteBudgetsOnly, SMTT(30) DEF StepOf, SiteInv, SiteTypes, Run
<1>6. SiteTypes'
  BY <1>1, <1>5, TypesKept, Zenon DEF SiteInv, SiteTypes
<1>7. handler[p].pc = "idle" /\ ~Inside(p) /\ ~Materializing(p)
  BY <1>1, Zenon DEF SiteInv, UploadInv, Early, Handles, Inside, Materializing
<1>8. \A q \in Pubs : q # p => handler'[q] = handler[q] /\ publisher'[q] = publisher[q]
  BY <1>5, SMTT(30) DEF StepOf, HandlerMoves, ClientMoves
<1>9. UploadInv'
  BY <1>1, <1>3, <1>4, <1>5, UploadKept, Zenon DEF SiteInv
<1>10. \A q \in Pubs : Inside(q)' <=> Inside(q)
  <2>1. ~Inside(p)'
    BY Zenon, <1>3 DEF Inside
  <2>2. \A q \in Pubs : q # p => (Inside(q)' <=> Inside(q))
    BY <1>8, SMTT(30) DEF Inside
  <2> QED
    BY Zenon, <1>7, <2>1, <2>2
<1>11. TransInv'
  BY <1>1, <1>10, Zenon DEF SiteInv, TransInv
<1>12. StandsInv'
  <2>1. ByMix' = ByMix /\ \A q \in Pubs : Committed(q)' => Committed(q)
    BY <1>1, <1>5, <1>8, Zenon DEF ByMix, Committed, SiteAt, Materializing
  <2> QED
    BY <1>1, <1>3, <1>5, <1>8, <2>1, Zenon DEF SiteInv, StandsInv
<1>13. PolicyInv'
  BY <1>1, <1>3, <1>5, <1>7, <1>8, <1>10, Zenon DEF SiteInv, PolicyInv, Goes, Handles
<1>14. TreeInv'
  <2>1. ~flipsOverlap' => ~flipsOverlap /\ \A q \in Pubs : q # p => ~Active(q)
    BY <1>1, NoSiteIsNone, Zenon DEF Alone, Active, SiteInv, TransInv
  <2> QED
    BY Zenon, <1>1, <1>3, <1>7, <2>1, BuildStarts
<1> QED
  BY Zenon, <1>6, <1>9, <1>11, <1>12, <1>13, <1>14 DEF SiteInv

----------------------------------------------------------------------------
(* The materializer.                                                          *)

Building == {"build", "install", "rename", "flip", "fallback", "list", "prune"}

\* The materializer leaves the records alone.
LEMMA RecordsStay ==
  ASSUME SiteInv, NEW p \in Pubs, Materializing(p), StepOf(p), UNCHANGED Records,
         handler'[p].pc \in Building \cup {"idle"}, publisher'[p].pc \in {publisher[p].pc, "ok"}
  PROVE  SiteTypes' /\ UploadInv' /\ TransInv' /\ StandsInv' /\ PolicyInv'
<1> USE DEF Records, Building
<1>1. \A q : Run(q)' = Run(q)
  BY Zenon DEF StepOf, RunsKept, Run
<1>2. SiteTypes'
  BY TypesKept, Zenon DEF SiteInv, SiteTypes
<1>3. \A q \in Pubs : q # p => handler'[q] = handler[q] /\ publisher'[q] = publisher[q]
  BY SMTT(30) DEF StepOf, HandlerMoves, ClientMoves
<1>4. ~Early(p) /\ ~Inside(p) /\ ~Inside(p)'
  BY SMTT(30) DEF SiteInv, UploadInv, Handles, Materializing, Inside
<1>5. UploadInv'
  BY Zenon, <1>4, UploadKept DEF SiteInv, Early
<1>6. \A q \in Pubs : Inside(q)' <=> Inside(q)
  <2>1. \A q \in Pubs : q # p => (Inside(q)' <=> Inside(q))
    BY <1>3, Zenon DEF Inside
  <2> QED
    BY SMTT(30), <1>4, <2>1
<1>7. TransInv'
  BY <1>6, SMTT(30) DEF SiteInv, TransInv
<1>8. StandsInv'
  <2>1. ByMix' = ByMix /\ \A q \in Pubs : Committed(q)' => Committed(q)
    BY <1>1, <1>3, SMTT(30) DEF ByMix, Committed, SiteAt, Materializing
  <2> QED
    BY <1>1, <1>3, <2>1, Zenon DEF SiteInv, StandsInv
<1>9. PolicyInv'
  BY <1>1, <1>3, <1>4, <1>6, Zenon DEF SiteInv, PolicyInv, Goes, Handles, Inside
<1> QED
  BY Zenon, <1>2, <1>5, <1>7, <1>8, <1>9

\* While publishes take turns the one that materializes is alone.
LEMMA AloneBuilding ==
  ASSUME SiteInv, NEW p \in Pubs, Materializing(p), HandlerMoves(p), ~flipsOverlap
  PROVE  \A q \in Pubs : q # p => /\ ~Active(q) /\ ~Active(q)' /\ ~Inside(q)' /\ ~Materializing(q)'
                                  /\ handler'[q].pc \notin Building /\ handler[q].pc # "rename"
  BY Zenon DEF SiteInv, TreeInv, Active, Inside, Materializing, HandlerMoves, Building

\* A materialization that stops leaves the site unfinished.
LEMMA StopStep ==
  ASSUME SiteInv, NEW p \in Pubs, Materializing(p), SiteReply(p, "ok"), unfinished' = TRUE, RunsKept,
         UNCHANGED <<Records, flipsOverlap>>
  PROVE  SiteInv'
<1>1. StepOf(p) /\ handler'[p].pc = "idle" /\ publisher'[p].pc \in {publisher[p].pc, "ok"}
  BY ReplyMoves, Zenon DEF SiteInv, StepOf
<1>2. SiteTypes' /\ UploadInv' /\ TransInv' /\ StandsInv' /\ PolicyInv'
  BY Zenon, <1>1, RecordsStay
<1>3. TreeInv'
  <2> SUFFICES ASSUME ~flipsOverlap PROVE TreeInv'
    BY SMTT(30) DEF TreeInv
  <2>1. \A q \in Pubs : ~Active(q)' /\ ~Inside(q)' /\ ~Materializing(q)' /\ handler'[q].pc \notin Building
    BY <1>1, AloneBuilding, SMTT(30) DEF StepOf, Active, Inside, Materializing, Building
  <2> QED
    BY <2>1, SMTT(30) DEF TreeInv, Served, Handles, Building
<1> QED
  BY <1>2, <1>3, SMTT(30) DEF SiteInv

\* A step that works: what the next one relies on is in place.
LEMMA BuildStep ==
  ASSUME SiteInv, NEW p \in Pubs, Materializing(p), HandlerMoves(p), handler'[p].pc \in Building,
         handler'[p].snap = handler[p].snap, RunsKept, publisher' = publisher,
         UNCHANGED <<Records, flipsOverlap, unfinished>>,
         ~flipsOverlap =>
            /\ current' # NoSite /\ ~unfinished =>
                  current' \in trees' \/ (handler'[p].pc = "rename" /\ current' = handler[p].snap)
            /\ handler'[p].pc \in {"flip", "fallback", "list", "prune"} => handler[p].snap \in trees'
            /\ handler'[p].pc \in {"fallback", "list", "prune"} => current' = handler[p].snap
            /\ handler'[p].pc \in {"list", "prune"} => shown' = policy
            /\ handler'[p].pc = "prune" => handler'[p].kept = current'
  PROVE  SiteInv'
<1>1. StepOf(p)
  BY NobodyMoves, Zenon DEF SiteInv, StepOf
<1>2. SiteTypes' /\ UploadInv' /\ TransInv' /\ StandsInv' /\ PolicyInv'
  BY Zenon, <1>1, RecordsStay
<1>3. TreeInv'
  <2> SUFFICES ASSUME ~flipsOverlap PROVE TreeInv'
    BY Zenon DEF TreeInv
  <2>1. \A q \in Pubs : q # p => ~Active(q)' /\ ~Inside(q)' /\ ~Materializing(q)' /\ handler'[q].pc \notin Building
    BY Zenon, AloneBuilding
  <2>2. Active(p)' /\ ~Inside(p)'
    BY SMTT(30) DEF Active, Inside, Materializing, Building
  <2>3. head # NoSite /\ handler[p].snap = head.snap /\ head' = head /\ policy' = policy
    BY Zenon DEF SiteInv, TreeInv, Records
  <2> QED
    BY <2>1, <2>2, <2>3, Zenon DEF TreeInv, Handles, Building
<1> QED
  BY <1>2, <1>3, Zenon DEF SiteInv

\* What the materializer has in place so far.
LEMMA BuiltSoFar ==
  ASSUME SiteInv, NEW p \in Pubs, Materializing(p), ~flipsOverlap
  PROVE  /\ current # NoSite /\ ~unfinished =>
               current \in trees \/ (handler[p].pc = "rename" /\ current = handler[p].snap)
         /\ handler[p].pc \in {"flip", "fallback", "list", "prune"} => handler[p].snap \in trees
         /\ handler[p].pc \in {"fallback", "list", "prune"} => current = handler[p].snap
         /\ handler[p].pc \in {"list", "prune"} => shown = policy
         /\ handler[p].pc = "prune" => handler[p].kept = current
  BY Zenon DEF SiteInv, TreeInv, Active, Materializing, Handles

\* A step of the materializer, whichever it is.
LEMMA MaterializerStep ==
  ASSUME SiteInv, NEW p \in Pubs,
         \/ build_tree(p) \/ swap_aside(p) \/ install_tree(p) \/ flip_current(p)
         \/ materialize_fallback(p) \/ PruneList(p)
  PROVE  SiteInv'
<1>1. UNCHANGED <<Records, flipsOverlap>> /\ Materializing(p)
  BY Zenon DEF build_tree, swap_aside, install_tree, flip_current, materialize_fallback, PruneList, Tree, Works, Stops,
         Materializing, Handles
<1>2. RunsKept
  BY Zenon, FaultKeepsRuns DEF SiteInv, build_tree, swap_aside, install_tree, flip_current, materialize_fallback,
     PruneList, Works, SiteFine
<1>3. CASE SiteReply(p, "ok") /\ unfinished' = TRUE
  BY Zenon, <1>1, <1>2, <1>3, StopStep
<1>4. CASE ~(SiteReply(p, "ok") /\ unfinished' = TRUE)
  <2>1. CASE build_tree(p)
    <3>1. /\ handler[p].pc = "build" /\ HandlerTo(p, "install")
          /\ UNCHANGED <<publisher, unfinished, trees, current, shown>>
      BY <1>4, <2>1, Zenon DEF build_tree, Works, Stops, Handles
    <3>2. HandlerMoves(p) /\ handler'[p].pc = "install" /\ handler'[p].snap = handler[p].snap
      BY <3>1, HandlerToMoves, Zenon DEF SiteInv
    <3> QED
      BY <1>1, <1>2, <3>1, <3>2, BuiltSoFar, BuildStep, Zenon DEF Building
  <2>2. CASE swap_aside(p)
    <3>1. /\ handler[p].pc = "install" /\ Keeps(p, "rename", trees) /\ trees' = trees \ {handler[p].snap}
          /\ UNCHANGED <<publisher, unfinished, current, shown>>
      BY <1>4, <2>2, SMTT(30) DEF swap_aside, Stops, Handles, Keeps
    <3>2. HandlerMoves(p) /\ handler'[p].pc = "rename" /\ handler'[p].snap = handler[p].snap
      BY <3>1, HandlerKeeps, Zenon DEF SiteInv
    <3> QED
      BY <1>1, <1>2, <3>1, <3>2, BuiltSoFar, BuildStep, Zenon DEF Building
  <2>3. CASE install_tree(p)
    <3>1. /\ handler[p].pc = "rename" /\ HandlerTo(p, "flip") /\ trees' = trees \cup {handler[p].snap}
          /\ UNCHANGED <<publisher, unfinished, current, shown>>
      BY <1>4, <2>3, Zenon DEF install_tree, Works, Stops, Handles
    <3>2. HandlerMoves(p) /\ handler'[p].pc = "flip" /\ handler'[p].snap = handler[p].snap
      BY <3>1, HandlerToMoves, Zenon DEF SiteInv
    <3> QED
      BY <1>1, <1>2, <3>1, <3>2, BuiltSoFar, BuildStep, Zenon DEF Building
  <2>4. CASE flip_current(p)
    <3>1. /\ handler[p].pc = "flip" /\ HandlerTo(p, "fallback") /\ current' = handler[p].snap
          /\ UNCHANGED <<publisher, unfinished, trees, shown>>
      BY <1>4, <2>4, Zenon DEF flip_current, Works, Stops, Handles
    <3>2. HandlerMoves(p) /\ handler'[p].pc = "fallback" /\ handler'[p].snap = handler[p].snap
      BY <3>1, HandlerToMoves, Zenon DEF SiteInv
    <3> QED
      BY <1>1, <1>2, <3>1, <3>2, BuiltSoFar, BuildStep, Zenon DEF Building
  <2>5. CASE materialize_fallback(p)
    <3>1. /\ handler[p].pc = "fallback" /\ HandlerTo(p, "list") /\ shown' = policy
          /\ UNCHANGED <<publisher, unfinished, trees, current>>
      BY <1>4, <2>5, Zenon DEF materialize_fallback, Works, Stops, Handles
    <3>2. HandlerMoves(p) /\ handler'[p].pc = "list" /\ handler'[p].snap = handler[p].snap
      BY <3>1, HandlerToMoves, SMTT(30) DEF SiteInv
    <3> QED
      BY <1>1, <1>2, <3>1, <3>2, BuiltSoFar, BuildStep, Zenon DEF Building
  <2>6. CASE PruneList(p)
    <3>1. /\ handler[p].pc = "list" /\ Keeps(p, "prune", current)
          /\ UNCHANGED <<publisher, unfinished, trees, current, shown>>
      BY <2>6, SMTT(30) DEF PruneList, Handles, Keeps, Tree
    <3>2. /\ HandlerMoves(p) /\ handler'[p].pc = "prune" /\ handler'[p].snap = handler[p].snap
          /\ handler'[p].kept = current
      BY <3>1, HandlerKeeps, Zenon DEF SiteInv
    <3> QED
      BY <1>1, <1>2, <3>1, <3>2, BuiltSoFar, BuildStep, Zenon DEF Building
  <2> QED
    BY Zenon, <2>1, <2>2, <2>3, <2>4, <2>5, <2>6
<1> QED
  BY Zenon, <1>3, <1>4

\* The last step: what is live is not pruned.
LEMMA PruneStep ==
  ASSUME SiteInv, NEW p \in Pubs, prune(p)
  PROVE  SiteInv'
<1>1. /\ UNCHANGED <<Records, current, shown, flipsOverlap, siteMenu>> /\ handler[p].pc = "prune"
      /\ SiteReply(p, "ok") /\ Materializing(p) /\ unfinished' = FALSE
  BY Zenon DEF prune, Handles, Materializing
<1>2. RunsKept
  BY Zenon, <1>1, SiteBudgetsOnly DEF SiteInv, SiteTypes
<1>3. StepOf(p) /\ handler'[p].pc = "idle" /\ publisher'[p].pc \in {publisher[p].pc, "ok"}
  BY Zenon, <1>1, <1>2, ReplyMoves DEF SiteInv, StepOf
<1>4. SiteTypes' /\ UploadInv' /\ TransInv' /\ StandsInv' /\ PolicyInv'
  BY SMTT(30), <1>1, <1>3, RecordsStay
<1>5. TreeInv'
  <2> SUFFICES ASSUME ~flipsOverlap PROVE TreeInv'
    BY <1>1, Zenon DEF TreeInv
  <2>1. \A q \in Pubs : ~Active(q)' /\ ~Inside(q)' /\ ~Materializing(q)' /\ handler'[q].pc \notin Building
    BY <1>1, <1>3, AloneBuilding, SMTT(30) DEF StepOf, Active, Inside, Materializing, Building
  <2>2. /\ current \in trees /\ handler[p].kept = current /\ shown = policy /\ current = handler[p].snap
        /\ handler[p].snap = head.snap
    BY <1>1, BuiltSoFar, Zenon DEF SiteInv, TreeInv
  <2>3. current \in trees'
    BY <2>2, Zenon DEF prune
  <2>4. head' = head /\ policy' = policy
    BY <1>1, Zenon DEF Records
  <2> QED
    BY <1>1, <2>1, <2>2, <2>3, <2>4, Zenon DEF TreeInv, Served, Handles, Building
<1> QED
  BY Zenon, <1>4, <1>5 DEF SiteInv

----------------------------------------------------------------------------
(* The server stops.                                                          *)

\* The server stops with every request in flight and starts again.
LEMMA CrashStep ==
  ASSUME SiteInv, ServerCrash
  PROVE  SiteInv'
<1>1. /\ UNCHANGED <<manifests, chunks, head, policy, regressed, trees, current, shown, flipsOverlap>>
      /\ siteLock' = NoSite
  BY Zenon DEF ServerCrash
<1>2. RunsKept /\ \A q : Run(q)' = Run(q)
  <2>1. RunsKept
    BY SiteBudgetsOnly, Zenon DEF SiteInv, SiteTypes, ServerCrash
  <2> QED
    BY Zenon, <2>1 DEF RunsKept, Run
<1>3. DOMAIN handler' = Pubs /\ DOMAIN publisher' = Pubs
  BY Zenon DEF ServerCrash
<1>4. ASSUME NEW p \in Pubs
      PROVE  /\ handler'[p].pc = "idle"
             /\ publisher'[p].pc \in {publisher[p].pc, "failed"} /\ publisher'[p].todo = publisher[p].todo
             /\ publisher'[p] = [pc |-> publisher'[p].pc, todo |-> publisher'[p].todo]
             /\ handler'[p] = [pc |-> handler'[p].pc, snap |-> handler'[p].snap, kept |-> handler'[p].kept,
                               seen |-> handler'[p].seen]
  <2> DEFINE was == handler[p]
             had == publisher[p]
             pc == IF publisher[p].pc = "waiting" THEN "failed" ELSE publisher[p].pc
  <2>1. was = [pc |-> was.pc, snap |-> was.snap, kept |-> was.kept, seen |-> was.seen]
    BY Zenon DEF SiteInv, SiteTypes
  <2>2. had = [pc |-> had.pc, todo |-> had.todo]
    BY Zenon DEF SiteInv, SiteTypes
  <2>3. handler'[p] = [was EXCEPT !.pc = "idle"]
    BY Zenon DEF ServerCrash
  <2>4. publisher'[p] = [had EXCEPT !.pc = pc]
    BY Zenon DEF ServerCrash
  <2>5. pc \in {publisher[p].pc, "failed"}
    BY Zenon
  <2> HIDE DEF was, had, pc
  <2>6. handler'[p] = [pc |-> "idle", snap |-> was.snap, kept |-> was.kept, seen |-> was.seen]
    BY Zenon, <2>1, <2>3
  <2>7. publisher'[p] = [pc |-> pc, todo |-> had.todo]
    BY Zenon, <2>2, <2>4
  <2>8. /\ handler'[p].pc = "idle" /\ handler'[p].snap = was.snap /\ handler'[p].kept = was.kept
        /\ handler'[p].seen = was.seen
    BY <2>6
  <2>9. /\ publisher'[p].pc = pc /\ publisher'[p].todo = had.todo
        /\ publisher'[p] = [pc |-> publisher'[p].pc, todo |-> publisher'[p].todo]
    BY <2>7
  <2> QED
    BY <2>5, <2>6, <2>8, <2>9, Zenon DEF had
<1>5. \A p \in Pubs : /\ ~Inside(p)' /\ ~Materializing(p)' /\ ~Active(p)' /\ handler'[p].pc = "idle"
                      /\ publisher'[p].pc \in {publisher[p].pc, "failed"} /\ publisher'[p].todo = publisher[p].todo
  BY <1>4, Zenon DEF Inside, Materializing, Active
<1>6. SiteTypes'
  BY <1>1, <1>2, <1>3, <1>4, Zenon DEF SiteInv, SiteTypes, RunsKept
<1>7. UploadInv'
  <2>1. Stored' = Stored /\ \A q : build_snapshot(q)' = build_snapshot(q)
    BY Zenon, <1>1, <1>2 DEF Stored, Whole, build_snapshot
  <2> QED
    BY <1>1, <1>2, <1>5, <2>1, Zenon DEF SiteInv, UploadInv, SiteAt, Early, Handles
<1>8. TransInv'
  BY <1>1, <1>5, NoSiteIsNone, SMTT(30) DEF TransInv
<1>9. StandsInv'
  <2>1. ByMix' = ByMix /\ \A q \in Pubs : Committed(q)' => Committed(q)
    BY <1>2, <1>5, Zenon DEF ByMix, Committed, SiteAt
  <2> QED
    BY <1>1, <1>2, <1>5, <2>1, Zenon DEF SiteInv, StandsInv
<1>10. PolicyInv'
  <2>1. ~torn' => ~torn /\ \A p \in Pubs : handler[p].pc \notin {"head", "restore"}
    BY Zenon DEF ServerCrash
  <2>2. ~torn' => Goes(policy)
    <3>1. CASE siteLock = NoSite
      BY Zenon, <3>1 DEF SiteInv, PolicyInv
    <3>2. CASE siteLock \in Pubs
      BY <2>1, <3>2 DEF SiteInv, PolicyInv, TransInv, Inside, Handles
    <3> QED
      BY Zenon, <3>1, <3>2 DEF SiteInv, TransInv
  <2> QED
    BY <1>1, <1>2, <1>5, <2>1, <2>2, Zenon DEF PolicyInv, Goes, Handles
<1>11. TreeInv'
  <2> SUFFICES ASSUME ~flipsOverlap PROVE TreeInv'
    BY <1>1, Zenon DEF TreeInv
  <2>1. ~torn' => ~torn /\ \A p \in Pubs : handler[p].pc \notin {"head", "restore"}
    BY Zenon DEF ServerCrash
  <2>2. ~unfinished' => ~unfinished /\ \A p \in Pubs : ~Materializing(p)
    BY Zenon DEF ServerCrash
  <2>3. ~torn' /\ ~unfinished' => Served(policy)
    <3>1. CASE \A p \in Pubs : ~Active(p)
      BY <3>1, Zenon DEF SiteInv, TreeInv
    <3>2. ASSUME NEW p \in Pubs, Active(p), ~torn', ~unfinished' PROVE Served(policy)
      <4>1. handler[p].pc = "policy"
        BY Zenon, <2>1, <2>2, <3>2 DEF Active, Inside
      <4> QED
        BY <4>1, Zenon DEF SiteInv, TreeInv, PolicyInv, Inside, Handles
    <3> QED
      BY Zenon, <3>1, <3>2
  <2>4. current # NoSite /\ ~unfinished' => current \in trees
    BY Zenon, <2>2, LinkInPlace
  <2> QED
    BY <1>1, <1>5, <2>1, <2>2, <2>3, <2>4, SMTT(30) DEF TreeInv, Served, Handles
<1> QED
  BY Zenon, <1>6, <1>7, <1>8, <1>9, <1>10, <1>11 DEF SiteInv

----------------------------------------------------------------------------

\* At first nothing is published.
LEMMA InitSite == SiteInit => SiteInv
<1> SUFFICES ASSUME SiteInit PROVE SiteInv
  BY SMTT(30)
<1>1. \A p \in Pubs : /\ publisher[p] = [pc |-> "start", todo |-> {}]
                      /\ handler[p] = [pc |-> "idle", snap |-> NoSite, kept |-> NoSite, seen |-> NoSite]
  BY Zenon DEF SiteInit
<1>2. \A p \in Pubs : /\ publisher[p].pc = "start" /\ handler[p].pc = "idle"
                      /\ ~Inside(p) /\ ~Materializing(p) /\ ~Active(p)
  <2>1. ASSUME NEW p \in Pubs PROVE publisher[p].pc = "start" /\ handler[p].pc = "idle"
    <3>1. publisher[p] = [pc |-> "start", todo |-> {}]
      BY Zenon, <1>1
    <3>2. handler[p] = [pc |-> "idle", snap |-> NoSite, kept |-> NoSite, seen |-> NoSite]
      BY SMTT(30), <1>1
    <3> QED
      BY <3>1, <3>2
  <2> QED
    BY <2>1, Zenon DEF Inside, Materializing, Active
<1>3. SiteTypes
  BY <1>1, RunsWellFormed, SMTT(30) DEF SiteInit, SiteTypes
<1>4. UploadInv
  BY Zenon, <1>2 DEF SiteInit, UploadInv, SiteAt, Handles
<1>5. TransInv
  BY <1>2, NoSiteIsNone, SMTT(30) DEF SiteInit, TransInv
<1>6. StandsInv
  BY <1>2, SMTT(30) DEF SiteInit, StandsInv, Committed, SiteAt
<1>7. PolicyInv
  BY Zenon, <1>2 DEF SiteInit, PolicyInv, Goes, Handles
<1>8. TreeInv
  BY <1>2, SMTT(30) DEF SiteInit, TreeInv, Served, Handles
<1> QED
  BY <1>3, <1>4, <1>5, <1>6, <1>7, <1>8 DEF SiteInv

\* Every step keeps the invariant.
LEMMA NextSite == SiteInv /\ [SiteNext]_siteVars => SiteInv'
<1> SUFFICES ASSUME SiteInv, [SiteNext]_siteVars PROVE SiteInv'
  BY Zenon
<1>1. CASE UNCHANGED siteVars
  <2>1. SiteTypes' /\ UploadInv'
    BY <1>1, Zenon DEF siteVars, SiteInv, SiteTypes, UploadInv, Stored, Whole, build_snapshot, Run, SiteAt, Early, Handles
  <2>2. TransInv' /\ StandsInv'
    BY <1>1, Zenon DEF siteVars, SiteInv, TransInv, StandsInv, Inside, ByMix, Committed, Materializing, Run, SiteAt
  <2>3. PolicyInv' /\ TreeInv'
    BY <1>1, Zenon DEF siteVars, SiteInv, PolicyInv, TreeInv, Goes, Served, Active, Inside, Materializing, Run, Handles
  <2> QED
    BY <2>1, <2>2, <2>3, SMTT(30) DEF SiteInv
<1>2. CASE ServerCrash
  BY Zenon, <1>2, CrashStep
<1>3. ASSUME NEW p \in Pubs,
             \/ cmd_publish(p) \/ register_identity(p) \/ post_snapshot(p) \/ HangUp(p)
             \/ \E c \in publisher[p].todo : put_chunk(p, c)
      PROVE  SiteInv'
  BY Zenon, <1>3, ClientStep
<1>4. ASSUME NEW p \in Pubs, commit_head_and_fallback(p) \/ post_head(p) PROVE SiteInv'
  BY Zenon, <1>4, RequestStep
<1>5. ASSUME NEW p \in Pubs, commit_head_and_policy(p) PROVE SiteInv'
  BY Zenon, <1>5, EnterStep
<1>6. ASSUME NEW p \in Pubs, write_policy_record(p) PROVE SiteInv'
  <2>1. RunsKept /\ Inside(p) /\ UNCHANGED <<manifests, chunks, head, siteLock, torn, regressed, Tree, publisher>>
    BY Zenon, <1>6, FaultKeepsRuns DEF write_policy_record, SiteInv, Inside, Handles
  <2>2. CASE HandlerTo(p, "head") /\ policy' = read_site_fallback(Run(p))
    BY Zenon, <1>6, <2>1, <2>2, InsideStep DEF write_policy_record, Handles
  <2>3. CASE HandlerTo(p, "restore")
    BY Zenon, <2>1, <2>3, InsideStep
  <2> QED
    BY <1>6, <2>2, <2>3, SMTT(30) DEF write_policy_record
<1>7. ASSUME NEW p \in Pubs, put_head(p) PROVE SiteInv'
  <2>1. RunsKept /\ UNCHANGED <<manifests, chunks, policy, Tree, publisher>> /\ handler[p].pc = "head" /\ Inside(p)
    BY Zenon, <1>7, FaultKeepsRuns DEF put_head, SiteInv, Inside, Handles
  <2>2. CASE HandlerTo(p, "restore") /\ UNCHANGED <<head, siteLock, torn, regressed>>
    BY Zenon, <2>1, <2>2, InsideStep
  <2>3. CASE ~(HandlerTo(p, "restore") /\ UNCHANGED <<head, siteLock, torn, regressed>>)
    BY <1>7, <2>1, <2>3, HeadStep, Zenon DEF put_head, Tree, Aims
  <2> QED
    BY Zenon, <2>2, <2>3
<1>8. ASSUME NEW p \in Pubs, restore_policy_record(p) PROVE SiteInv'
  BY Zenon, <1>8, RestoreStep
<1>9. ASSUME NEW p \in Pubs, CheckHead(p) PROVE SiteInv'
  BY Zenon, <1>9, CheckHeadStep
<1>10. ASSUME NEW p \in Pubs, WriteHead(p) PROVE SiteInv'
  <2>1. /\ RunsKept /\ handler[p].pc = "write"
        /\ UNCHANGED <<manifests, chunks, policy, siteLock, torn, trees, current, shown, unfinished>>
    BY Zenon, <1>10, FaultKeepsRuns DEF WriteHead, SiteInv, Handles
  <2>2. CASE SiteReply(p, "failed") /\ UNCHANGED <<head, regressed, flipsOverlap>>
    BY Zenon, <2>1, <2>2, RefusalStep DEF SiteStays
  <2>3. CASE ~(SiteReply(p, "failed") /\ UNCHANGED <<head, regressed, flipsOverlap>>)
    BY <1>10, <2>1, <2>3, HeadStep, Zenon DEF WriteHead, Aims
  <2> QED
    BY Zenon, <2>2, <2>3
<1>11. ASSUME NEW p \in Pubs, materialize_head(p) PROVE SiteInv'
  BY Zenon, <1>11, AgainStep
<1>12. ASSUME NEW p \in Pubs,
              \/ build_tree(p) \/ swap_aside(p) \/ install_tree(p) \/ flip_current(p)
              \/ materialize_fallback(p) \/ PruneList(p)
       PROVE  SiteInv'
  BY Zenon, <1>12, MaterializerStep
<1>13. ASSUME NEW p \in Pubs, prune(p) PROVE SiteInv'
  BY Zenon, <1>13, PruneStep
<1> QED
  BY <1>1, <1>2, <1>3, <1>4, <1>5, <1>6, <1>7, <1>8, <1>9, <1>10, <1>11, <1>12, <1>13, Zenon DEF SiteNext

\* However many publishes race, fail, are cut or are stopped with the server:
\* what HEAD names can be served, a reported publish is not taken back by an
\* older one, HEAD and its fallback go together, and publishes that take turns
\* leave the gateway serving what HEAD names.
THEOREM PublishSoundHolds == SiteSpec => []PublishSound
<1>1. SiteSpec => []SiteInv
  BY InitSite, NextSite, PTL DEF SiteSpec
<1>2. SiteInv => PublishSound
  <2> SUFFICES ASSUME SiteInv PROVE PublishSound
    BY Zenon
  <2>1. HeadIsWhole
    BY Zenon DEF SiteInv, UploadInv, HeadIsWhole, Stored
  <2>2. PublishedStands
    BY Zenon DEF SiteInv, StandsInv, PublishedStands, Committed, ByMix
  <2>3. PolicyGoesWithHead
    BY Zenon DEF SiteInv, PolicyInv, PolicyGoesWithHead, Goes
  <2>4. TreeFollowsHead
    BY Zenon DEF SiteInv, TreeInv, TreeFollowsHead, Served, Active, Inside, Materializing, Handles
  <2> QED
    BY Zenon, <2>1, <2>2, <2>3, <2>4 DEF PublishSound
<1> QED
  BY <1>1, <1>2, PTL
============================================================================
