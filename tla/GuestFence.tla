----------------------------- MODULE GuestFence -----------------------------
(***************************************************************************)
(* Mjolnir.GuestFence.Host (lib/mjolnir/guest_fence/host.ex) and its       *)
(* journal (store.ex): the host authority that says which guest instance   *)
(* owns a journal and which effects were admitted, and that must never     *)
(* take back what it told a guest.                                         *)
(*                                                                         *)
(* id() draws fresh opaque ids: here counters, one per kind.  A receipt is *)
(* a key, a digest (with its effect contract) and a generation.  An append *)
(* that does not return leaves the old frame last, the new one, or a torn  *)
(* one; replies of the host that did get out are recorded in seen, told    *)
(* and writes.                                                             *)
(***************************************************************************)
EXTENDS Integers, FiniteSets

CONSTANTS
    Channels,    \* transport channels
    Keys,        \* {scope, key} pairs
    Digests,     \* payload digests
    NoDigest,    \* digest of the absent admission
    MaxInsts,    \* bound on instance handles
    MaxGrants,   \* bound on grants
    MaxClasses,  \* bound on classifications
    MaxGen       \* bound on generations

ASSUME FenceAssumption ==
    /\ NoDigest \notin Digests
    /\ MaxInsts \in Nat \ {0}
    /\ MaxGrants \in Nat
    /\ MaxClasses \in Nat
    /\ MaxGen \in Nat

VARIABLES
    up,       \* the GenServer runs
    data,     \* state.data
    saved,    \* the last complete frame of host.journal
    torn,     \* a partial frame trails it
    chan,     \* state.channels: instance (0: closed) and leased grant (0: none)
    ids,      \* how many ids of each kind were drawn
    seen,     \* grants the host ever replied with
    told,     \* receipts the host ever replied with
    writes    \* how often the guest write of a key was invoked

vars == <<up, data, saved, torn, chan, ids, seen, told, writes>>
ghosts == <<seen, told, writes>>

Insts == 1..MaxInsts
Grants == 1..MaxGrants
Classes == 1..MaxClasses

NoAdmission == [digest |-> NoDigest, gen |-> 0]
NoGrant == [inst |-> 0, gen |-> 0, st |-> "none", adopted |-> FALSE]
NoClass == [inst |-> 0, rev |-> 0, covers |-> {}]
Closed == [inst |-> 0, lease |-> 0]

\* init/1 over a store that was never written.
Fresh ==
    [instance |-> 1, gen |-> 0, rev |-> 0,
     adm |-> [k \in Keys |-> NoAdmission],
     grants |-> [g \in Grants |-> NoGrant],
     current |-> 0,
     classes |-> [c \in Classes |-> NoClass]]

Init ==
    /\ up = TRUE
    /\ data = Fresh
    /\ saved = Fresh
    /\ torn = FALSE
    /\ chan = [c \in Channels |-> Closed]
    /\ ids = [inst |-> 1, grant |-> 0, class |-> 0]
    /\ seen = {}
    /\ told = [k \in Keys |-> NoAdmission]
    /\ writes = [k \in Keys |-> 0]

-----------------------------------------------------------------------------
(* The journal.                                                            *)

\* Store.append/2 fails or the node dies in it: the host is down and what it
\* was about to say is never said.
AppendFails(d) ==
    /\ up' = FALSE
    /\ \/ saved' \in {saved, d} /\ UNCHANGED torn
       \/ torn' = TRUE /\ UNCHANGED saved
    /\ chan' = [c \in Channels |-> Closed]
    /\ UNCHANGED <<data, ghosts>>

\* Mutant: the frame is not written.
AppendsNothing(d) ==
    /\ data' = d
    /\ UNCHANGED <<up, saved, torn>>

\* Store.append/2 returns :ok, and persist/4 adopts the new state.
Appends(d) ==
    /\ data' = d
    /\ saved' = d
    /\ UNCHANGED <<up, torn>>

\* init/1: recover/2 refuses a torn journal, else the recovered state is
\* appended again.
Start ==
    /\ ~up
    /\ ~torn
    /\ \/ /\ up' = TRUE
          /\ data' = saved
          /\ UNCHANGED <<saved, torn, chan, ghosts>>
       \/ AppendFails(saved)
    /\ UNCHANGED ids

\* The host process dies between two calls.
Crash ==
    /\ up
    /\ up' = FALSE
    /\ chan' = [c \in Channels |-> Closed]
    /\ UNCHANGED <<data, saved, torn, ids, ghosts>>

-----------------------------------------------------------------------------
(* Channels.                                                               *)

\* connect/2: the adapter vouches for the instance, designated or not.
Connect(c, i) ==
    /\ up
    /\ chan[c] = Closed
    /\ i <= ids.inst
    /\ chan' = [chan EXCEPT ![c] = [inst |-> i, lease |-> 0]]
    /\ UNCHANGED <<up, data, saved, torn, ids, ghosts>>

\* disconnect/2, or the transport process is :DOWN.
Disconnect(c) ==
    /\ up
    /\ chan[c] # Closed
    /\ chan' = [chan EXCEPT ![c] = Closed]
    /\ UNCHANGED <<up, data, saved, torn, ids, ghosts>>

NoLeases == [c \in Channels |-> [chan[c] EXCEPT !.lease = 0]]

-----------------------------------------------------------------------------
(* What a request is checked against.                                      *)

\* handle_call/3: the channel is open.
Authentic(c) == up /\ chan[c].inst # 0

Admitted == {k \in Keys : data.adm[k] # NoAdmission}

\* Mutant: receipts need not cover every retained admission.
CoveragePartial(listed) == listed \subseteq Admitted

\* coverage/2 of receipts that agree with the host on the keys listed; one
\* that disagrees in any field is refused.
Coverage(listed) == listed = Admitted

\* classified/3.
Classified(cl, i) ==
    /\ data.classes[cl].inst = i
    /\ data.classes[cl].rev = data.rev

\* current_grant/3: the stored grant is presented (find_grant/2 refuses any
\* other binding).
CurrentGrant(g, i) ==
    /\ data.current = g
    /\ data.grants[g].inst = i
    /\ data.instance = i
    /\ data.grants[g].gen = data.gen
    /\ data.grants[g].gen > 0
    /\ data.grants[g].st \in {"pending", "confirmed"}

-----------------------------------------------------------------------------
(* Ownership.                                                              *)

\* What a reply that carries grant g exposes.
Exposes(g, d) ==
    seen' = seen \cup {[id |-> g, inst |-> d.grants[g].inst,
                        gen |-> d.grants[g].gen]}

\* dispatch({:classify, ...}): a new id bound to this instance and history.
Classify(c, listed) ==
    /\ Authentic(c)
    /\ Coverage(listed)
    /\ ids.class < MaxClasses
    /\ LET d == [data EXCEPT !.classes = [data.classes EXCEPT ![ids.class + 1] =
                   [inst |-> chan[c].inst, rev |-> data.rev,
                    covers |-> listed]]]
       IN \/ Appends(d) /\ UNCHANGED <<chan, ghosts>>
          \/ AppendFails(d)
    /\ ids' = [ids EXCEPT !.class = ids.class + 1]

\* The current grant is pending or confirmed.
Held ==
    /\ data.current # 0
    /\ data.grants[data.current].st \in {"pending", "confirmed"}

\* dispatch({:begin, ...}) when a grant is held already: the same one again.
BeginAgain(c, cl) ==
    /\ Authentic(c)
    /\ Classified(cl, chan[c].inst)
    /\ chan[c].inst = data.instance
    /\ Held
    /\ Exposes(data.current, data)
    /\ UNCHANGED <<up, data, saved, torn, chan, ids, told, writes>>

\* Mutant: the next grant reuses the generation.
GrantedSameGen(g) ==
    [data EXCEPT !.current = g,
                 !.grants = [data.grants EXCEPT ![g] =
                    [inst |-> data.instance, gen |-> data.gen,
                     st |-> "pending", adopted |-> FALSE]]]

\* The state with a new pending grant for the designated instance.
Granted(g) ==
    [data EXCEPT !.gen = data.gen + 1,
                 !.current = g,
                 !.grants = [data.grants EXCEPT ![g] =
                    [inst |-> data.instance, gen |-> data.gen + 1,
                     st |-> "pending", adopted |-> FALSE]]]

\* dispatch({:begin, ...}) when none is held.
Begin(c, cl) ==
    /\ Authentic(c)
    /\ Classified(cl, chan[c].inst)
    /\ chan[c].inst = data.instance
    /\ ~Held
    /\ ids.grant < MaxGrants
    /\ data.gen < MaxGen
    /\ LET g == ids.grant + 1
           d == Granted(g)
       IN \/ /\ Appends(d)
             /\ Exposes(g, d)
             /\ UNCHANGED <<chan, told, writes>>
          \/ AppendFails(d)
    /\ ids' = [ids EXCEPT !.grant = ids.grant + 1]

\* The stored grant g with one field changed.
WithGrant(g, grant) ==
    [data EXCEPT !.grants = [data.grants EXCEPT ![g] = grant]]

\* dispatch({:confirm, ...}).
Confirm(c, g) ==
    /\ Authentic(c)
    /\ CurrentGrant(g, chan[c].inst)
    /\ data.grants[g].adopted
    /\ LET d == WithGrant(g, [data.grants[g] EXCEPT !.st = "confirmed"])
       IN \/ Appends(d) /\ Exposes(g, d) /\ UNCHANGED <<chan, told, writes>>
          \/ AppendFails(d)
    /\ UNCHANGED ids

\* mutate/5, op: :adopt.
Adopt(c, cl, g) ==
    /\ Authentic(c)
    /\ Classified(cl, chan[c].inst)
    /\ CurrentGrant(g, chan[c].inst)
    /\ LET d == WithGrant(g, [data.grants[g] EXCEPT !.adopted = TRUE])
       IN \/ Appends(d) /\ Exposes(g, d) /\ UNCHANGED <<chan, told, writes>>
          \/ AppendFails(d)
    /\ UNCHANGED ids

\* Mutant: only the current grant's pointer is cleared.
RevokePointer == [data EXCEPT !.current = 0]

\* revoke_grants/1.
Revoked ==
    [data EXCEPT
       !.grants = [g \in Grants |-> IF data.grants[g] = NoGrant THEN NoGrant
                                    ELSE [data.grants[g] EXCEPT !.st = "revoked"]],
       !.current = 0]

\* rotate/2.
Rotated(advance) ==
    [Revoked EXCEPT !.instance = ids.inst + 1,
                    !.gen = data.gen + advance,
                    !.classes = [c \in Classes |-> NoClass]]

\* Mutant: persist/4 without drop_leases.
PersistKeepingLeases(d) == Appends(d) /\ UNCHANGED chan

\* persist/4 with drop_leases.
PersistDroppingLeases(d) == Appends(d) /\ chan' = NoLeases

\* handle_call(:revoke).
Revoke ==
    /\ up
    /\ \/ PersistDroppingLeases(Revoked) /\ UNCHANGED ghosts
       \/ AppendFails(Revoked)
    /\ UNCHANGED ids

\* handle_call(:restore), also clone/1.
Restore ==
    /\ up
    /\ ids.inst < MaxInsts
    /\ data.gen < MaxGen
    /\ \/ PersistDroppingLeases(Rotated(1)) /\ UNCHANGED ghosts
       \/ AppendFails(Rotated(1))
    /\ ids' = [ids EXCEPT !.inst = ids.inst + 1]

\* dispatch({:transfer, ...}).
Transfer(c, cl) ==
    /\ Authentic(c)
    /\ Classified(cl, chan[c].inst)
    /\ chan[c].inst = data.instance
    /\ ids.inst < MaxInsts
    /\ \/ PersistDroppingLeases(Rotated(0)) /\ UNCHANGED ghosts
       \/ AppendFails(Rotated(0))
    /\ ids' = [ids EXCEPT !.inst = ids.inst + 1]

-----------------------------------------------------------------------------
(* Effects.                                                                *)

\* mutate/5 for lease and admit: classified, current, confirmed.
MayMutate(c, cl, g) ==
    /\ Authentic(c)
    /\ Classified(cl, chan[c].inst)
    /\ CurrentGrant(g, chan[c].inst)
    /\ data.grants[g].st = "confirmed"

\* mutate/5, op: :lease: memory only.
Lease(c, cl, g) ==
    /\ MayMutate(c, cl, g)
    /\ chan' = [chan EXCEPT ![c] = [chan[c] EXCEPT !.lease = g]]
    /\ UNCHANGED <<up, data, saved, torn, ids, ghosts>>

\* admit/5 of a key retained already, same digest: the old receipt, no write.
AdmitAgain(c, cl, g, k, dg) ==
    /\ MayMutate(c, cl, g)
    /\ data.adm[k].digest = dg
    /\ told' = [told EXCEPT ![k] = data.adm[k]]
    /\ UNCHANGED <<up, data, saved, torn, chan, ids, seen, writes>>

\* The state with key k admitted under grant g, and the accepting
\* classification (alone) advanced over it.
WithAdmission(cl, g, k, dg) ==
    [data EXCEPT
       !.adm = [data.adm EXCEPT ![k] = [digest |-> dg,
                                        gen |-> data.grants[g].gen]],
       !.rev = data.rev + 1,
       !.classes = [data.classes EXCEPT ![cl] =
          [data.classes[cl] EXCEPT !.rev = data.rev + 1,
                                   !.covers = data.classes[cl].covers \cup {k}]]]

\* Mutant: the key is admitted without looking for a retained admission.
Unadmitted(k) == TRUE

\* admit/5: the key has no retained admission.  Another digest for a retained
\* key is :digest_conflict.
NotRetained(k) == data.adm[k] = NoAdmission

\* admit/5 of a new key: durable, then {:write, receipt} and the guest write.
Admit(c, cl, g, k, dg) ==
    /\ MayMutate(c, cl, g)
    /\ NotRetained(k)
    /\ LET d == WithAdmission(cl, g, k, dg)
       IN \/ /\ Appends(d)
             /\ chan' = [chan EXCEPT ![c] = [chan[c] EXCEPT !.lease = 0]]
             /\ told' = [told EXCEPT ![k] = d.adm[k]]
             /\ writes' = [writes EXCEPT ![k] = writes[k] + 1]
             /\ UNCHANGED seen
          \/ AppendFails(d)
    /\ UNCHANGED ids

\* reconcile/3: policy allows it, any grant ever recorded may be named.
Reconcile(c, k) ==
    /\ Authentic(c)
    /\ data.adm[k] # NoAdmission
    /\ told' = [told EXCEPT ![k] = data.adm[k]]
    /\ UNCHANGED <<up, data, saved, torn, chan, ids, seen, writes>>

-----------------------------------------------------------------------------
Next ==
    \/ Start \/ Crash \/ Revoke \/ Restore
    \/ \E c \in Channels :
         \/ Disconnect(c)
         \/ \E i \in Insts : Connect(c, i)
         \/ \E listed \in SUBSET Keys : Classify(c, listed)
         \/ \E k \in Keys : Reconcile(c, k)
         \/ \E g \in Grants : Confirm(c, g)
         \/ \E cl \in Classes :
              \/ BeginAgain(c, cl) \/ Begin(c, cl) \/ Transfer(c, cl)
              \/ \E g \in Grants :
                   \/ Adopt(c, cl, g) \/ Lease(c, cl, g)
                   \/ \E k \in Keys, dg \in Digests :
                        AdmitAgain(c, cl, g, k, dg) \/ Admit(c, cl, g, k, dg)

Spec == Init /\ [][Next]_vars

-----------------------------------------------------------------------------
(* Properties.                                                             *)

Admissions == [digest : Digests, gen : 1..MaxGen] \cup {NoAdmission}

DataType ==
    [instance : Insts, gen : 0..MaxGen, rev : Nat,
     adm : [Keys -> Admissions],
     grants : [Grants -> [inst : 0..MaxInsts, gen : 0..MaxGen,
                          st : {"none", "pending", "confirmed", "revoked"},
                          adopted : BOOLEAN]],
     current : 0..MaxGrants,
     classes : [Classes -> [inst : 0..MaxInsts, rev : Nat,
                            covers : SUBSET Keys]]]

\* Every variable has the shape the code gives it.
TypeOK ==
    /\ up \in BOOLEAN
    /\ data \in DataType
    /\ saved \in DataType
    /\ torn \in BOOLEAN
    /\ chan \in [Channels -> [inst : 0..MaxInsts, lease : 0..MaxGrants]]
    /\ ids \in [inst : Insts, grant : 0..MaxGrants, class : 0..MaxClasses]
    /\ seen \in SUBSET [id : Grants, inst : Insts, gen : 1..MaxGen]
    /\ told \in [Keys -> Admissions]
    /\ writes \in [Keys -> Nat]

\* Exclusive ownership: a grant that authorizes anything is the current one,
\* of the designated instance, at the current generation.  So there is one
\* owner at most, and a transferred, restored or revoked owner is none.
OwnerExclusive ==
    \A g \in Grants :
        data.grants[g].st \in {"pending", "confirmed"} =>
            /\ data.current = g
            /\ data.grants[g].inst = data.instance
            /\ data.grants[g].gen = data.gen

\* Acceptance is durable before it is exposed: whatever crash or failed append
\* follows, the journal still holds every grant and every receipt a guest was
\* ever given, with the same bindings.
ExposedIsDurable ==
    /\ \A e \in seen :
         saved.grants[e.id].inst = e.inst /\ saved.grants[e.id].gen = e.gen
    /\ \A k \in Keys : told[k] # NoAdmission => saved.adm[k] = told[k]

\* A generation names one grant: over all restarts, begin/3 never issues two
\* grants under one generation.
GenerationNotReused ==
    \A e, f \in seen : e.gen = f.gen => e.id = f.id

\* The guest write of a key is invoked at most once, and only for an admission
\* that is durable: a retry after a lost reply, a crash or a transfer finds
\* the receipt and does not write again.
WrittenOnce ==
    \A k \in Keys : writes[k] <= 1 /\ (writes[k] = 1 => saved.adm[k] # NoAdmission)

\* Classification is bound to current history: one that still passes
\* classified/3 covers every retained admission, those accepted after it was
\* issued included.
CurrentCoversAll ==
    \A cl \in Classes :
        data.classes[cl].inst # 0 /\ Classified(cl, data.classes[cl].inst) =>
            data.classes[cl].covers = Admitted

\* A lease is dropped by whatever ends its owner's authority: a leased grant
\* is the current, confirmed one.
LeaseIsOwners ==
    \A c \in Channels :
        chan[c].lease # 0 =>
            /\ data.current = chan[c].lease
            /\ data.grants[chan[c].lease].st = "confirmed"

\* An admission, once durable, keeps its digest and generation, and ownership
\* never goes back to an earlier generation.
JournalOnlyGrows ==
    [][/\ saved'.gen >= saved.gen
       /\ \A k \in Keys :
            saved.adm[k] # NoAdmission => saved'.adm[k] = saved.adm[k]]_vars
=============================================================================
