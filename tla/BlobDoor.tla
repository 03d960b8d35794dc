------------------------------ MODULE BlobDoor ------------------------------
(* The blob door (mjolnir_blob_door): content-addressed PUT and GET in front  *)
(* of an object store, with a bounded disk cache.  Concurrent requests, a     *)
(* store that may lose or refuse a write, and a door that may stop at any     *)
(* step.                                                                      *)
EXTENDS Naturals, FiniteSets

CONSTANTS
    Reqs,           \* requests
    Keys,           \* object keys; OutboardKeys are the ones ending in .obao
    OutboardKeys,
    Bodies,         \* what can be uploaded
    NoBody,
    HashOf,         \* body -> the key it hashes to
    Size,           \* body -> its length
    Budget,         \* cache budget
    MaxBytes,       \* upload limit
    DoorMenus       \* per behaviour: the requests, what goes wrong, what is stored

Files == Bodies \cup {NoBody}

\* A hash names at most one body that is uploaded (BLAKE3 has no collisions), and
\* what the store holds when the door starts hashes to its key.
ASSUME DoorKeys == IsFiniteSet(Keys) /\ OutboardKeys \subseteq Keys /\ NoBody \notin Bodies
ASSUME DoorSizes == Size \in [Bodies -> Nat] /\ Budget \in Nat /\ MaxBytes \in Nat
ASSUME NoCollisions ==
    \A b, c \in Bodies : HashOf[b] \in Keys /\ HashOf[b] = HashOf[c] => b = c
ASSUME DoorMenusTyped ==
    \A m \in DoorMenus :
        /\ m \in [asks : [Reqs -> [op : {"put", "get", "none"}, key : Keys, body : Files]],
                 stored : [Keys -> Files], faults : Nat, drops : Nat, restarts : Nat]
        /\ \A r \in Reqs : m.asks[r].op = "put" => m.asks[r].body # NoBody
        /\ \A k \in Keys \ OutboardKeys : m.stored[k] # NoBody => HashOf[m.stored[k]] = k

VARIABLES
    canon,          \* the object store: key -> body, NoBody if absent
    cache,          \* objects/: key -> body
    used,           \* DiskCache.used
    incoming,       \* incoming/: files, named by their request
    req,            \* request -> [pc, body, reply]
    accepted,       \* key -> a body whose PUT was answered 200 or 201
    overdrawn,      \* an eviction could not remove a file
    drifted,        \* a request was dropped while it changed the cache
    doorMenu

doorVars == <<canon, cache, used, incoming, req, accepted, overdrawn, drifted, doorMenu>>

Objects   == Keys \ OutboardKeys
Ask(r)    == doorMenu.asks[r]
Key(r)    == Ask(r).key
ReqAt(r, pc) == req[r].pc = pc
Now(r, pc, body, reply) == req' = [req EXCEPT ![r] = [pc |-> pc, body |-> body, reply |-> reply]]
Step(r, pc) == Now(r, pc, req[r].body, req[r].reply)
Respond(r, code) == Now(r, "done", req[r].body, code)

\* Incoming's Drop, and FillGuard's.  The statuses 500, 502 and 507 are one here.
Unlink(r) == incoming' = incoming \ {r}

Fault == doorMenu.faults > 0 /\ doorMenu' = [doorMenu EXCEPT !.faults = @ - 1]
Well  == UNCHANGED doorMenu

DiskCache == <<cache, used, overdrawn, drifted>>
Stores    == <<canon, DiskCache, accepted>>

(* ---- PUT ---- *)

\* Too large is known from Content-Length, or found out while reading.
put_one(r) ==
    /\ ReqAt(r, "new") /\ Ask(r).op = "put"
    /\ \/ Well /\ incoming' = incoming \cup {r} /\ Step(r, "pump")
       \/ Size[Ask(r).body] > MaxBytes /\ Well /\ Respond(r, 413) /\ UNCHANGED incoming
       \/ Fault /\ Respond(r, 500) /\ UNCHANGED incoming
    /\ UNCHANGED Stores

\* The body is hashed as it is written; an outboard's is not.
pump_body(r) ==
    /\ ReqAt(r, "pump")
    /\ LET right == Key(r) \in OutboardKeys \/ HashOf[Ask(r).body] = Key(r)
           fits  == Size[Ask(r).body] <= MaxBytes
       IN  \/ fits /\ right /\ Well /\ Step(r, "head") /\ UNCHANGED incoming
           \/ ~(fits /\ right) /\ Well /\ Respond(r, IF fits THEN 400 ELSE 413) /\ Unlink(r)
           \/ Fault /\ Respond(r, 500) /\ Unlink(r)
    /\ UNCHANGED Stores

\* A head that fails, for whatever reason, is followed by the write.
put_file(r) ==
    /\ ReqAt(r, "head")
    /\ \/ /\ canon[Key(r)] # NoBody /\ Well
          /\ IF Size[canon[Key(r)]] = Size[Ask(r).body]
             THEN Now(r, "promote", req[r].body, 200) /\ UNCHANGED incoming
             ELSE Respond(r, 400) /\ Unlink(r)
       \/ canon[Key(r)] = NoBody /\ Well /\ Step(r, "store") /\ UNCHANGED incoming
       \/ Fault /\ Step(r, "store") /\ UNCHANGED incoming
    /\ UNCHANGED Stores

\* Mutant: PutObject's 200 is believed.
PutTrusted(r) ==
    /\ ReqAt(r, "store")
    /\ \/ Well /\ canon' = [canon EXCEPT ![Key(r)] = Ask(r).body] /\ Step(r, "promote") /\ UNCHANGED incoming
       \/ Fault /\ UNCHANGED <<canon, incoming>> /\ Step(r, "promote")
       \/ Fault /\ canon' \in {canon, [canon EXCEPT ![Key(r)] = Ask(r).body]} /\ Respond(r, 500) /\ Unlink(r)
    /\ UNCHANGED <<DiskCache, accepted>>

\* The store takes the object; or says so and does not; or fails, having taken
\* it or not.
put_path(r) ==
    /\ ReqAt(r, "store")
    /\ \/ Well /\ canon' = [canon EXCEPT ![Key(r)] = Ask(r).body] /\ Step(r, "confirm") /\ UNCHANGED incoming
       \/ Fault /\ UNCHANGED <<canon, incoming>> /\ Step(r, "confirm")
       \/ Fault /\ canon' \in {canon, [canon EXCEPT ![Key(r)] = Ask(r).body]} /\ Respond(r, 500) /\ Unlink(r)
    /\ UNCHANGED <<DiskCache, accepted>>

confirm(r) ==
    /\ ReqAt(r, "confirm")
    /\ \/ /\ canon[Key(r)] # NoBody /\ Well
          /\ IF Size[canon[Key(r)]] = Size[Ask(r).body]
             THEN Now(r, "promote", req[r].body, 201) /\ UNCHANGED incoming
             ELSE Respond(r, 503) /\ Unlink(r)
       \/ canon[Key(r)] = NoBody /\ Well /\ Respond(r, 503) /\ Unlink(r)
       \/ Fault /\ Respond(r, 500) /\ Unlink(r)
    /\ UNCHANGED Stores

(* ---- the cache ---- *)

Cached == {k \in Keys : cache[k] # NoBody}

\* The sum of w over a set of keys.
SumOver(w) ==
    LET sum[S \in SUBSET DOMAIN w] ==
          IF S = {} THEN 0 ELSE LET k == CHOOSE k \in S : TRUE IN w[k] + sum[S \ {k}]
    IN  sum

FileSizes   == [k \in Keys |-> IF cache[k] = NoBody THEN 0 ELSE Size[cache[k]]]
Total(keys) == SumOver(FileSizes)[keys]

\* What `used` becomes when files go; the subtraction saturates.
Freed(gone) == IF Total(gone) <= used THEN used - Total(gone) ELSE 0

\* evict_to_fit under way: files go, least recently used first, as long as `need`
\* does not fit.  The access times are set later, on another thread: any order
\* may be met.  The `stuck` files cannot be removed.
Evicting(need, stuck) ==
    {gone \in SUBSET (Cached \ stuck) :
        gone # {} => \E last \in gone : Freed(gone \ {last}) + need > Budget}

\* It ends when `need` fits or no file is left.
Fits(gone, need) == Freed(gone) + need <= Budget
Evictions(need, stuck) ==
    {gone \in Evicting(need, stuck) : gone = Cached \ stuck \/ Fits(gone, need)}

Evicted(gone) == [x \in Keys |-> IF x \in gone THEN NoBody ELSE cache[x]]
Filled(gone, k, body) == [x \in Keys |-> IF x = k THEN body ELSE IF x \in gone THEN NoBody ELSE cache[x]]
Keep          == UNCHANGED DiskCache

\* Under the admission lock: what is cached stays, what exceeds the budget is not
\* kept.  A file may resist removal; the listing may fail before the evictions,
\* the rename after them.
Admit(k, body) ==
    IF cache[k] # NoBody \/ Size[body] > Budget THEN Well /\ Keep
    ELSE \/ /\ Well
            /\ \E gone \in Evictions(Size[body], {}) :
                  /\ cache' = Filled(gone, k, body)
                  /\ used' = Freed(gone) + Size[body]
            /\ UNCHANGED <<overdrawn, drifted>>
         \/ /\ Fault
            /\ \E stuck \in Cached : \E gone \in Evictions(Size[body], {stuck}) :
                  /\ cache' = Filled(gone, k, body)
                  /\ used' = Freed(gone) + Size[body]
            /\ overdrawn' = TRUE /\ UNCHANGED drifted
         \/ /\ Fault
            /\ \E gone \in {{}} \cup Evictions(Size[body], {}) : cache' = Evicted(gone) /\ used' = Freed(gone)
            /\ UNCHANGED <<overdrawn, drifted>>

\* A promotion that fails is only logged.
promote(r) ==
    /\ ReqAt(r, "promote")
    /\ Admit(Key(r), Ask(r).body)
    /\ Unlink(r)
    /\ Step(r, "done")
    /\ accepted' = [accepted EXCEPT ![Key(r)] = Ask(r).body]
    /\ UNCHANGED canon

(* ---- GET ---- *)

\* open_cached asks whether the file is there, and then opens it.
get_one(r) ==
    /\ ReqAt(r, "new") /\ Ask(r).op = "get"
    /\ Step(r, IF cache[Key(r)] # NoBody THEN "open" ELSE "fetch")
    /\ UNCHANGED <<Stores, incoming, doorMenu>>

open_cached(r) ==
    /\ ReqAt(r, "open")
    /\ IF cache[Key(r)] = NoBody THEN Step(r, "fetch")
       ELSE Now(r, "done", cache[Key(r)], 200)
    /\ UNCHANGED <<Stores, incoming, doorMenu>>

\* What does not fit the cache, or cannot be written to it, is only passed on.
get_stream(r) ==
    /\ ReqAt(r, "fetch")
    /\ \/ canon[Key(r)] = NoBody /\ Well /\ Respond(r, 404) /\ UNCHANGED incoming
       \/ Fault /\ Respond(r, 500) /\ UNCHANGED incoming
       \/ /\ canon[Key(r)] # NoBody
          /\ \/ Well /\ Size[canon[Key(r)]] <= Budget /\ incoming' = incoming \cup {r}
                /\ Now(r, "tee", canon[Key(r)], req[r].reply)
             \/ /\ (Well /\ Size[canon[Key(r)]] > Budget) \/ Fault
                /\ Now(r, "done", canon[Key(r)], 200)
                /\ UNCHANGED incoming
    /\ UNCHANGED Stores

\* tee_and_cache: the stream ends whole, is cut short, or the client goes away;
\* a write or a sync to the cache file fails.
tee_and_cache(r) ==
    /\ ReqAt(r, "tee")
    /\ \/ Well /\ Now(r, "commit", req[r].body, 200) /\ UNCHANGED incoming
       \/ Fault /\ Now(r, "done", NoBody, 200) /\ Unlink(r)
       \/ Fault /\ Respond(r, 200) /\ Unlink(r)
    /\ UNCHANGED Stores

commit_fill(r) ==
    /\ ReqAt(r, "commit")
    /\ Admit(Key(r), req[r].body)
    /\ Unlink(r)
    /\ Step(r, "done")
    /\ UNCHANGED <<canon, accepted>>

(* ---- the client goes away; the door stops and starts ---- *)

\* The handler's future, or the body's stream, is dropped.  In promote and
\* commit_fill that is between two removals, or in the middle of one or of the
\* rename: the file is then gone, or there, and not counted.
Dropped(r) ==
    /\ doorMenu.drops > 0 /\ req[r].pc \notin {"new", "done"}
    /\ doorMenu' = [doorMenu EXCEPT !.drops = @ - 1]
    /\ Unlink(r)
    /\ Respond(r, 0)
    /\ \/ Keep
       \/ /\ req[r].pc \in {"promote", "commit"} /\ cache[Key(r)] = NoBody
          /\ LET body == IF ReqAt(r, "promote") THEN Ask(r).body ELSE req[r].body
             IN  /\ Size[body] <= Budget
                 /\ \E gone \in Evicting(Size[body], {}) :
                       /\ used' = Freed(gone)
                       /\ \/ cache' = Evicted(gone) /\ UNCHANGED drifted
                          \/ /\ cache' \in IF gone = Cached \/ Fits(gone, Size[body])
                                          THEN {Filled(gone, Key(r), body)}
                                          ELSE {Evicted(gone \cup {k}) : k \in Cached \ gone}
                             /\ drifted' = TRUE
          /\ UNCHANGED overdrawn
    /\ UNCHANGED <<canon, accepted>>

\* DiskCache.open: incoming/ is swept and objects/ measured.
Restart ==
    /\ doorMenu.restarts > 0
    /\ doorMenu' = [doorMenu EXCEPT !.restarts = @ - 1]
    /\ req' = [r \in Reqs |-> IF ReqAt(r, "new") THEN req[r] ELSE [pc |-> "done", body |-> req[r].body, reply |-> 0]]
    /\ incoming' = {}
    /\ used' = Total(Cached)
    /\ overdrawn' = (used' > Budget)
    /\ drifted' = FALSE
    /\ UNCHANGED <<canon, cache, accepted>>

DoorInit ==
    /\ doorMenu \in DoorMenus
    /\ canon = doorMenu.stored
    /\ cache = [k \in Keys |-> NoBody] /\ used = 0 /\ incoming = {}
    /\ req = [r \in Reqs |-> [pc |-> IF Ask(r).op = "none" THEN "done" ELSE "new", body |-> NoBody, reply |-> 0]]
    /\ accepted = [k \in Keys |-> NoBody] /\ overdrawn = FALSE /\ drifted = FALSE

DoorNext ==
    \/ Restart
    \/ \E r \in Reqs :
          \/ put_one(r) \/ pump_body(r) \/ put_file(r) \/ put_path(r) \/ confirm(r) \/ promote(r)
          \/ get_one(r) \/ open_cached(r) \/ get_stream(r) \/ tee_and_cache(r) \/ commit_fill(r)
          \/ Dropped(r)

DoorSpec == DoorInit /\ [][DoorNext]_doorVars

-----------------------------------------------------------------------------
(* Properties.                                                               *)

\* "Accepted means the canonical store has the object, not that PutObject
\* returned 200": an accepted object is in the store, with its bytes, whatever
\* other requests, faults and restarts came between.  (Outboards are not hashed
\* and the check that one exists may be stale: the last writer wins.)
AcceptedIsCanonical ==
    \A k \in Objects : accepted[k] # NoBody => canon[k] = accepted[k]

\* "Host disk is a write-through cache, not the archive": what the cache holds of
\* an object is what the store holds, so dropping it loses nothing and a GET
\* answers the same with and without it.
CacheIsWriteThrough ==
    \A k \in Objects : cache[k] # NoBody => cache[k] = canon[k] /\ HashOf[cache[k]] = k

\* "Evicts LRU objects so used + len stays <= budget": the count is the size of
\* the files unless a request was dropped in mid-rename, and within the budget
\* unless a file could not be removed.
CacheWithinBudget ==
    ~drifted => /\ used = Total(Cached)
                /\ ~overdrawn => used <= Budget

\* A file in incoming/ belongs to a request still at work on it.
IncomingHasOwner ==
    \A r \in incoming : req[r].pc \in {"pump", "head", "store", "confirm", "promote", "tee", "commit"}

\* The disk cache: never other than the store, never over its budget, and no
\* file of a request that has ended (DiskCache, Incoming, FillGuard).
CacheSound == CacheIsWriteThrough /\ CacheWithinBudget /\ IncomingHasOwner

\* The door as a whole: what it accepted is in the store, and the cache in front
\* of the store shows nothing else.
DoorSound == AcceptedIsCanonical /\ CacheSound
=============================================================================
