----------------------------- MODULE StateStore -----------------------------
(***************************************************************************)
(* Mjolnir.StateStore (lib/mjolnir/state_store.ex): the durable per-VM     *)
(* intent store.  One JSON file per VM, mirrored by an ETS table that      *)
(* readers consult without going through the GenServer.                    *)
(*                                                                         *)
(* A record is reduced to what the store itself tells apart: its body (an  *)
(* opaque value standing for intent, spawn config, runtime...), its labels *)
(* (the metadata map) and its generation.  A write is two steps, the disk  *)
(* step and the ETS step, because lock-free readers and a crash can fall   *)
(* between them.                                                           *)
(***************************************************************************)
EXTENDS Integers, FiniteSets

CONSTANTS
    Ids,         \* VM uuids
    Bodies,      \* everything in a record the store does not interpret
    Labels,      \* metadata keys
    NoBody,      \* body of the null record
    MaxGen,      \* bound on generations, for model checking
    DiskFaults   \* which file operations may fail

ASSUME StoreAssumption ==
    /\ NoBody \notin Bodies
    /\ MaxGen \in Nat \ {0}
    /\ DiskFaults \subseteq {"write", "rm", "ls", "read", "rename"}

VARIABLES
    up,          \* the GenServer runs (it owns the ETS table)
    file,        \* <state_dir>/<uuid>.json
    ets,         \* the cache
    unreadable,  \* uuids held back from writes: state.unreadable
    quarantined, \* uuids with a file under quarantine/
    inflight,    \* the handler is between its disk step and its ETS step
    token        \* what an orchestrator read, to fence a later delete

vars == <<up, file, ets, unreadable, quarantined, inflight, token>>

Records == [body : Bodies, labels : SUBSET Labels, gen : 1..MaxGen]

\* :not_found.  Generations of stored records are positive.
NoRecord == [body |-> NoBody, labels |-> {}, gen |-> 0]

\* A record file whose generation is absent (schema version 1) or not a
\* positive integer carries gen 0 here.
Files ==
    [kind : {"record"},
     rec : [body : Bodies, labels : SUBSET Labels, gen : 0..MaxGen]]
    \cup [kind : {"none", "future", "corrupt"}, rec : {NoRecord}]

NoFile == [kind |-> "none", rec |-> NoRecord]
FutureFile == [kind |-> "future", rec |-> NoRecord]

\* Mutant: parse_generation/1 passing a missing generation through.
FromJsonUnchecked(f) == f.rec

\* Record.from_json/1 of a file this build reads: parse_generation/1 turns
\* anything that is not a positive integer into 1.
FromJson(f) == [f.rec EXCEPT !.gen = IF f.rec.gen > 0 THEN f.rec.gen ELSE 1]

Encode(r) == [kind |-> "record", rec |-> r]

Idle == [op |-> "idle", rec |-> NoRecord]
NoToken == [id |-> "none", rec |-> NoRecord, kept |-> FALSE]

Init ==
    /\ up = FALSE
    /\ file \in [Ids -> Files]
    /\ ets = [i \in Ids |-> NoRecord]
    /\ unreadable = {}
    /\ quarantined = {}
    /\ inflight = [i \in Ids |-> Idle]
    /\ token = NoToken

-----------------------------------------------------------------------------
(* Loading: init/1 and reload.                                             *)

\* Mutant: load_one/1 quarantining records of an unknown schema version.
HeldBackNever(i, badRead) == FALSE

\* load_one/1 for one file: File.read fails for the uuids in badRead.
Loads(i, badRead) == file[i].kind = "record" /\ i \notin badRead
HeldBack(i, badRead) == file[i].kind = "future" /\ i \notin badRead

\* quarantine/2 renames; the rename fails for the uuids in stuck and the file
\* then stays where it is.
Quarantines(i, badRead, stuck) ==
    /\ file[i].kind # "none"
    /\ ~Loads(i, badRead)
    /\ ~HeldBack(i, badRead)
    /\ i \notin stuck

\* load_from_disk/0 when the directory can be listed.  What the orchestrator
\* read was kept only if the record is still there.
LoadFiles(badRead, stuck) ==
    /\ ets' = [i \in Ids |-> IF Loads(i, badRead) THEN FromJson(file[i])
                                                  ELSE NoRecord]
    /\ unreadable' = {i \in Ids : HeldBack(i, badRead)}
    /\ file' = [i \in Ids |-> IF Quarantines(i, badRead, stuck) THEN NoFile
                                                                ELSE file[i]]
    /\ quarantined' =
         quarantined \cup {i \in Ids : Quarantines(i, badRead, stuck)}
    /\ token' = [token EXCEPT !.kept =
         token.kept /\ token.id \in {i \in Ids : Loads(i, badRead)}]

\* load_from_disk/0 when File.ls fails: nothing loaded, nothing held back.
LoadNothing ==
    /\ "ls" \in DiskFaults
    /\ ets' = [i \in Ids |-> NoRecord]
    /\ unreadable' = {}
    /\ token' = [token EXCEPT !.kept = FALSE]
    /\ UNCHANGED <<file, quarantined>>

Faulty(fault) == IF fault \in DiskFaults THEN SUBSET Ids ELSE {{}}

IdleServer == \A i \in Ids : inflight[i] = Idle

\* init/1 at start, and handle_call(:reload) on a running store.
Load ==
    /\ IdleServer
    /\ up' = TRUE
    /\ UNCHANGED inflight
    /\ \/ \E badRead \in Faulty("read"), stuck \in Faulty("rename") :
            LoadFiles(badRead, stuck)
       \/ LoadNothing

\* The GenServer (or the whole node) dies at any point; ETS dies with it.
Crash ==
    /\ up
    /\ up' = FALSE
    /\ ets' = [i \in Ids |-> NoRecord]
    /\ unreadable' = {}
    /\ inflight' = [i \in Ids |-> Idle]
    /\ UNCHANGED <<file, quarantined, token>>

\* While this build is down a newer one runs and rewrites a record under a
\* schema version this build does not speak (an upgrade, rolled back later).
NewerBuildWrites(i) ==
    /\ ~up
    /\ file' = [file EXCEPT ![i] = FutureFile]
    /\ UNCHANGED <<up, ets, unreadable, quarantined, inflight, token>>

-----------------------------------------------------------------------------
(* The write path.  Each handler runs its disk step, then its ETS step,    *)
(* before the server takes the next message.                               *)

Serving(i) == up /\ IdleServer /\ i \notin unreadable

\* Mutant: succeed/1 trusting the caller's generation, which is always fresh.
SucceedFresh(i, body, labels) ==
    [body |-> body, labels |-> labels, gen |-> 1]

\* succeed/1: the next generation, labels carried over an empty map.
Succeed(i, body, labels) ==
    IF ets[i] = NoRecord
    THEN [body |-> body, labels |-> labels, gen |-> 1]
    ELSE [body |-> body,
          labels |-> IF labels = {} THEN ets[i].labels ELSE labels,
          gen |-> ets[i].gen + 1]

\* do_put/1 up to and including the rename of write_atomic/1.
WriteFile(i, r) ==
    /\ r.gen <= MaxGen
    /\ file' = [file EXCEPT ![i] = Encode(r)]
    /\ inflight' = [inflight EXCEPT ![i] = [op |-> "insert", rec |-> r]]
    /\ UNCHANGED <<up, ets, unreadable, quarantined, token>>

\* handle_call({:put, record}).  A failed write removes the .tmp and changes
\* nothing, a reply the caller sees.
Put(i, body, labels) ==
    /\ Serving(i)
    /\ WriteFile(i, Succeed(i, body, labels))

\* handle_call({:merge_metadata, uuid, metadata}) on a known uuid.
MergeMetadata(i, labels) ==
    /\ Serving(i)
    /\ ets[i] # NoRecord
    /\ WriteFile(i, Succeed(i, ets[i].body, ets[i].labels \cup labels))

\* Mutant: do_put/1 inserting into ETS before looking at write_atomic/1's result.
FailedWriteCached(i) ==
    /\ "write" \in DiskFaults
    /\ Serving(i)
    /\ \E b \in Bodies : ets' = [ets EXCEPT ![i] =
            [Succeed(i, b, {}) EXCEPT !.gen = 1]]
    /\ UNCHANGED <<up, file, unreadable, quarantined, inflight, token>>

\* do_put/1 when write_atomic/1 fails: {:error, _}, no ETS step.
FailedWrite(i) ==
    /\ "write" \in DiskFaults
    /\ Serving(i)
    /\ UNCHANGED vars

\* do_put/1 after the rename: the ETS insert.
InsertEts(i) ==
    /\ up
    /\ inflight[i].op = "insert"
    /\ ets' = [ets EXCEPT ![i] = inflight[i].rec]
    /\ inflight' = [inflight EXCEPT ![i] = Idle]
    /\ UNCHANGED <<up, file, unreadable, quarantined, token>>

\* do_delete/1: File.rm, whose failure is the reply but stops nothing.
RemoveFile(i) ==
    /\ \/ file' = [file EXCEPT ![i] = NoFile]
       \/ "rm" \in DiskFaults /\ file[i].kind # "none" /\ UNCHANGED file
    /\ inflight' = [inflight EXCEPT ![i] = [op |-> "remove", rec |-> NoRecord]]
    /\ UNCHANGED <<up, ets, unreadable, quarantined, token>>

\* handle_call({:delete, uuid}).
Delete(i) ==
    /\ Serving(i)
    /\ RemoveFile(i)

\* handle_call({:delete_if_match, uuid, generation}) with a generation that
\* matches; an absent record is :ok and another generation is :conflict.
DeleteIfMatch(i) ==
    /\ Serving(i)
    /\ token.id = i
    /\ ets[i] # NoRecord
    /\ ets[i].gen = token.rec.gen
    /\ RemoveFile(i)

\* do_delete/1 after File.rm: the ETS delete.
DropEts(i) ==
    /\ up
    /\ inflight[i].op = "remove"
    /\ ets' = [ets EXCEPT ![i] = NoRecord]
    /\ inflight' = [inflight EXCEPT ![i] = Idle]
    /\ token' = IF token.id = i THEN [token EXCEPT !.kept = FALSE] ELSE token
    /\ UNCHANGED <<up, file, unreadable, quarantined>>

-----------------------------------------------------------------------------
(* The reader.                                                             *)

\* get/1 straight from ETS by an orchestrator that will fence a delete with
\* the generation it saw.
ReadForFence(i) ==
    /\ up
    /\ ets[i] # NoRecord
    /\ token' = [id |-> i, rec |-> ets[i], kept |-> TRUE]
    /\ UNCHANGED <<up, file, ets, unreadable, quarantined, inflight>>

Next ==
    \/ Load
    \/ Crash
    \/ \E i \in Ids :
         \/ NewerBuildWrites(i)
         \/ \E b \in Bodies, ls \in SUBSET Labels : Put(i, b, ls)
         \/ \E ls \in SUBSET Labels : MergeMetadata(i, ls)
         \/ FailedWrite(i)
         \/ InsertEts(i)
         \/ Delete(i)
         \/ DeleteIfMatch(i)
         \/ DropEts(i)
         \/ ReadForFence(i)

Spec == Init /\ [][Next]_vars
-----------------------------------------------------------------------------
(* Properties.                                                             *)

\* Every variable has the shape the code gives it.
TypeOK ==
    /\ up \in BOOLEAN
    /\ file \in [Ids -> Files]
    /\ ets \in [Ids -> Records \cup {NoRecord}]
    /\ unreadable \in SUBSET Ids
    /\ quarantined \in SUBSET Ids
    /\ inflight \in [Ids -> [op : {"idle", "insert", "remove"},
                             rec : Records \cup {NoRecord}]]
    /\ token \in [id : Ids \cup {"none"}, rec : Records \cup {NoRecord},
                  kept : BOOLEAN]

\* A reader never sees a record a restart would not bring back: outside the
\* window of the write in progress on that uuid, whatever ETS holds is what
\* the file decodes to (do_put/1 renames before it inserts).
CacheBacked ==
    \A i \in Ids :
        ets[i] # NoRecord /\ inflight[i] = Idle =>
            file[i].kind = "record" /\ ets[i] = FromJson(file[i])

\* Cache coherence as the moduledoc states it: a running, idle store knows
\* every record on disk, so a write (delete included) that failed to reach
\* disk is not reflected in ETS.
CacheComplete ==
    \A i \in Ids :
        up /\ inflight[i] = Idle /\ file[i].kind = "record" =>
            ets[i] # NoRecord

\* Quarantine, don't discard, and never touch a record from the future: a
\* file this build could not read is replaced or removed only by moving it to
\* quarantine/, and one written by a newer build stays exactly where it is.
UnreadFilesKept ==
    [][\A i \in Ids :
        /\ file[i].kind = "future" => file'[i] = file[i]
        /\ file[i].kind = "corrupt" /\ file'[i] # file[i] =>
             i \in quarantined' \/ file'[i] = FutureFile]_vars

\* The fence: when the generation an orchestrator read is the generation now
\* stored, the record is the one it read, so delete_if_match/2 deletes nothing
\* that changed since it was read.
FenceSound ==
    \A i \in Ids :
        up /\ token.id = i /\ ets[i] # NoRecord /\ ets[i].gen = token.rec.gen =>
            ets[i] = token.rec

\* The fence holds for as long as the record was not deleted in between:
\* put/1 never reuses a generation of a record it can still see.
FenceSoundWhileKept ==
    \A i \in Ids :
        token.kept /\ token.id = i /\ ets[i] # NoRecord =>
            /\ token.rec.gen <= ets[i].gen
            /\ token.rec.gen = ets[i].gen => ets[i] = token.rec

=============================================================================
