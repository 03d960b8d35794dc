-------------------------- MODULE GuestFenceProofs --------------------------
(***************************************************************************)
(* Proofs about GuestFence, for every set of channels, keys and digests    *)
(* and every bound.                                                        *)
(*                                                                         *)
(* The argument: a handler builds its new state from the old one, appends  *)
(* it and only then replies.  So it is enough to show that every state a   *)
(* handler may build is good (Good) whenever the one it started from is,   *)
(* keeps what was exposed (Keeps), and that memory and journal agree while *)
(* the host is up.                                                         *)
(***************************************************************************)
EXTENDS GuestFence, TLAPS

AdmittedIn(d) == {k \in Keys : d.adm[k] # NoAdmission}

\* At most one grant of d authorizes, and it is the designated one's.
Exclusive(d) ==
    \A g \in Grants :
        d.grants[g].st \in {"pending", "confirmed"} =>
            /\ d.current = g
            /\ d.grants[g].inst = d.instance
            /\ d.grants[g].gen = d.gen
            /\ d.gen > 0

\* Generations of d's grants are its own or earlier, and differ.
Generations(d) ==
    /\ \A g \in Grants : d.grants[g].gen <= d.gen
    /\ \A g, h \in Grants :
         d.grants[g].gen > 0 /\ d.grants[g].gen = d.grants[h].gen => g = h

\* No classification of d is ahead of its history; a current one covers it.
Coverings(d) ==
    \A cl \in Classes :
        /\ d.classes[cl].rev <= d.rev
        /\ d.classes[cl].inst # 0 /\ d.classes[cl].rev = d.rev =>
             d.classes[cl].covers = AdmittedIn(d)

\* The first i grant ids were drawn, the others are free.
Drawn(d, i) == \A g \in Grants : g > i => d.grants[g] = NoGrant

Good(d, i) ==
    /\ d \in DataType
    /\ Exclusive(d)
    /\ Generations(d)
    /\ Coverings(d)
    /\ Drawn(d, i)

\* e keeps the bindings of d's first i grants, d's admissions and generation.
Keeps(d, e, i) ==
    /\ e.gen >= d.gen
    /\ \A g \in Grants : g <= i => /\ e.grants[g].inst = d.grants[g].inst
                                  /\ e.grants[g].gen = d.grants[g].gen
    /\ \A k \in Keys : d.adm[k] # NoAdmission => e.adm[k] = d.adm[k]

Synced == up => data = saved
SeenDrawn == \A e \in seen : e.id <= ids.grant
DownClosed == ~up => chan = [c \in Channels |-> Closed]

\* The inductive invariant: memory and journal are good, each by itself.
IInv ==
    /\ TypeOK
    /\ Good(data, ids.grant)
    /\ Good(saved, ids.grant)
    /\ Synced
    /\ SeenDrawn
    /\ DownClosed
    /\ ExposedIsDurable
    /\ WrittenOnce
    /\ LeaseIsOwners

-----------------------------------------------------------------------------
(* Every state a handler builds is good and keeps what was exposed.        *)

\* init/1 over a store that was never written.
LEMMA FreshGood == Good(Fresh, 0)
<1> USE FenceAssumption
<1>1. Fresh \in DataType
  BY DEF Fresh, DataType, Insts, Grants, Classes, NoAdmission, NoGrant,
         NoClass, Admissions
<1>2. Exclusive(Fresh) /\ Generations(Fresh) /\ Drawn(Fresh, 0)
  BY DEF Fresh, Exclusive, Generations, Drawn, Grants, NoGrant
<1>3. Coverings(Fresh)
  BY DEF Fresh, Coverings, Classes, NoClass
<1> QED BY <1>1, <1>2, <1>3 DEF Good

\* dispatch({:classify, ...}).
LEMMA ClassifyGood ==
    ASSUME NEW i \in Nat, Good(data, i), NEW inst \in Insts,
           NEW n \in Classes, NEW listed \in SUBSET Keys, Coverage(listed)
    PROVE  LET d == [data EXCEPT !.classes = [data.classes EXCEPT ![n] =
                       [inst |-> inst, rev |-> data.rev, covers |-> listed]]]
           IN Good(d, i) /\ Keeps(data, d, i)
<1> DEFINE row == [inst |-> inst, rev |-> data.rev, covers |-> listed]
           d == [data EXCEPT !.classes = [data.classes EXCEPT ![n] = row]]
<1>0. data \in DataType
  BY DEF Good
<1>1. /\ d.instance = data.instance /\ d.gen = data.gen /\ d.rev = data.rev
      /\ d.adm = data.adm /\ d.grants = data.grants
      /\ d.current = data.current
      /\ d.classes = [data.classes EXCEPT ![n] = row]
  BY <1>0 DEF DataType
<1>2. d \in DataType
  <2>1. row \in [inst : 0..MaxInsts, rev : Nat, covers : SUBSET Keys]
    BY <1>0, FenceAssumption DEF DataType, Insts
  <2>2. [data.classes EXCEPT ![n] = row]
          \in [Classes -> [inst : 0..MaxInsts, rev : Nat, covers : SUBSET Keys]]
    BY <1>0, <2>1 DEF DataType
  <2> HIDE DEF row
  <2> QED BY <1>0, <2>2, Zenon DEF DataType
<1>3. Exclusive(d) /\ Generations(d) /\ Drawn(d, i)
  BY <1>1 DEF Good, Exclusive, Generations, Drawn
<1>4. AdmittedIn(d) = AdmittedIn(data) /\ listed = AdmittedIn(data)
  BY <1>1 DEF AdmittedIn, Coverage, Admitted
<1>5. Coverings(d)
  <2> SUFFICES ASSUME NEW cl \in Classes
               PROVE  /\ d.classes[cl].rev <= d.rev
                      /\ d.classes[cl].inst # 0 /\ d.classes[cl].rev = d.rev =>
                           d.classes[cl].covers = AdmittedIn(d)
    BY DEF Coverings
  <2>1. CASE cl = n
    <3>1. d.classes[cl] = row
      BY <1>0, <1>1, <2>1 DEF DataType
    <3> QED BY <3>1, <1>0, <1>1, <1>4 DEF DataType
  <2>2. CASE cl # n
    <3>1. d.classes[cl] = data.classes[cl]
      BY <1>0, <1>1, <2>2 DEF DataType
    <3> QED BY <3>1, <1>1, <1>4 DEF Good, Coverings
  <2> QED BY <2>1, <2>2
<1>6. Keeps(data, d, i)
  BY <1>0, <1>1 DEF Keeps, DataType
<1> QED BY <1>2, <1>3, <1>5, <1>6 DEF Good

\* What a grant is.
GrantType == [inst : 0..MaxInsts, gen : 0..MaxGen,
              st : {"none", "pending", "confirmed", "revoked"},
              adopted : BOOLEAN]

\* dispatch({:begin, ...}) that issues a grant.
LEMMA GrantedGood ==
    ASSUME NEW i \in Nat, Good(data, i), i + 1 \in Grants, data.gen < MaxGen,
           ~Held
    PROVE  Good(Granted(i + 1), i + 1) /\ Keeps(data, Granted(i + 1), i)
<1> DEFINE n == i + 1
           new == [inst |-> data.instance, gen |-> data.gen + 1,
                   st |-> "pending", adopted |-> FALSE]
           d == Granted(n)
<1>0. data \in DataType
  BY DEF Good
<1>1. /\ d.instance = data.instance /\ d.gen = data.gen + 1
      /\ d.rev = data.rev /\ d.adm = data.adm /\ d.current = n
      /\ d.grants = [data.grants EXCEPT ![n] = new]
      /\ d.classes = data.classes
  BY <1>0 DEF DataType, Granted
<1>a. new \in GrantType /\ data.gen \in Nat /\ data.gen + 1 \in 0..MaxGen
  BY <1>0, FenceAssumption DEF DataType, Insts, GrantType
<1>2. d \in DataType
  <2>1. [data.grants EXCEPT ![n] = new] \in [Grants -> GrantType]
    BY <1>0, <1>a DEF DataType, GrantType
  <2>2. n \in 0..MaxGrants
    BY FenceAssumption DEF Grants
  <2> HIDE DEF new, n
  <2> QED BY <1>0, <1>a, <2>1, <2>2, Zenon DEF DataType, GrantType, Granted, new
<1>3. /\ d.grants[n] = new
      /\ \A g \in Grants : g # n => d.grants[g] = data.grants[g]
  BY <1>0, <1>1 DEF DataType
<1>4. \A g \in Grants : data.grants[g].st \notin {"pending", "confirmed"}
  BY FenceAssumption DEF Good, Exclusive, Held, Grants
<1>b. /\ new.inst = data.instance /\ new.gen = data.gen + 1
      /\ new.st = "pending"
  OBVIOUS
<1> HIDE DEF new, d
<1>5. Exclusive(d)
  BY <1>1, <1>3, <1>4, <1>a, <1>b DEF Exclusive
<1>6. Generations(d)
  <2>1. \A g \in Grants : data.grants[g].gen \in Nat
                          /\ data.grants[g].gen <= data.gen
    BY <1>0 DEF Good, Generations, DataType
  <2>2. \A g, h \in Grants :
          data.grants[g].gen > 0 /\ data.grants[g].gen = data.grants[h].gen
            => g = h
    BY DEF Good, Generations
  <2>3. \A g \in Grants : d.grants[g].gen <= d.gen
    BY <1>1, <1>3, <1>a, <1>b, <2>1
  <2>4. ASSUME NEW g \in Grants, NEW h \in Grants,
               d.grants[g].gen > 0, d.grants[g].gen = d.grants[h].gen
        PROVE  g = h
    <3>1. CASE g # n /\ h # n
      BY <3>1, <2>4, <2>2, <1>3
    <3>2. CASE g = n /\ h # n
      <4>1. d.grants[g].gen = data.gen + 1 /\ d.grants[h].gen <= data.gen
        BY <3>2, <1>3, <1>b, <2>1
      <4> QED BY <4>1, <2>4, <2>1, <1>a, <3>2, <1>3
    <3>3. CASE g # n /\ h = n
      <4>1. d.grants[h].gen = data.gen + 1 /\ d.grants[g].gen <= data.gen
        BY Zenon, <3>3, <1>3, <1>b, <2>1
      <4> QED BY <4>1, <2>4, <2>1, <1>a, <3>3, <1>3
    <3> QED BY <3>1, <3>2, <3>3
  <2> QED BY <2>3, <2>4 DEF Generations
<1>7. Coverings(d)
  BY <1>1 DEF Good, Coverings, AdmittedIn
<1>8. Drawn(d, n)
  BY <1>3, FenceAssumption DEF Good, Drawn, Grants
<1>9. Keeps(data, d, i)
  BY <1>0, <1>1, <1>3, <1>a, FenceAssumption DEF Keeps, Grants
<1> QED BY <1>2, <1>5, <1>6, <1>7, <1>8, <1>9 DEF Good, d

\* confirm and commit(Adopt): the current grant changes, not its bindings.
LEMMA WithGrantGood ==
    ASSUME NEW i \in Nat, Good(data, i), NEW n \in Grants, NEW inst,
           CurrentGrant(n, inst), NEW new \in GrantType,
           new.inst = data.grants[n].inst, new.gen = data.grants[n].gen,
           new.st \in {"pending", "confirmed"}
    PROVE  Good(WithGrant(n, new), i) /\ Keeps(data, WithGrant(n, new), i)
<1> DEFINE d == WithGrant(n, new)
<1>0. data \in DataType
  BY DEF Good
<1>1. /\ d.instance = data.instance /\ d.gen = data.gen
      /\ d.rev = data.rev /\ d.adm = data.adm /\ d.current = data.current
      /\ d.grants = [data.grants EXCEPT ![n] = new]
      /\ d.classes = data.classes
  BY <1>0 DEF DataType, WithGrant
<1>2. d \in DataType
  <2>1. [data.grants EXCEPT ![n] = new] \in [Grants -> GrantType]
    BY <1>0 DEF DataType, GrantType
  <2> QED BY <1>0, <2>1, Zenon DEF DataType, GrantType, WithGrant
<1>3. /\ d.grants[n] = new
      /\ \A g \in Grants : g # n => d.grants[g] = data.grants[g]
  BY <1>0, <1>1 DEF DataType
<1> HIDE DEF d
<1>5. Exclusive(d)
  BY <1>1, <1>3 DEF Good, Exclusive, CurrentGrant
<1>6. Generations(d)
  <2>1. \A g \in Grants : d.grants[g].gen = data.grants[g].gen
    BY <1>3
  <2> QED BY <2>1, <1>1 DEF Good, Generations
<1>7. Coverings(d)
  BY <1>1 DEF Good, Coverings, AdmittedIn
<1>8. Drawn(d, i)
  <2>1. data.grants[n] # NoGrant
    BY DEF CurrentGrant, NoGrant
  <2> QED BY <2>1, <1>3 DEF Good, Drawn
<1>9. Keeps(data, d, i)
  BY <1>0, <1>1, <1>3 DEF Keeps, DataType
<1> QED BY <1>2, <1>5, <1>6, <1>7, <1>8, <1>9 DEF Good, d

\* The fields of revoke_grants/1's result.
LEMMA RevokedFields ==
    ASSUME NEW i \in Nat, Good(data, i)
    PROVE  /\ Revoked \in DataType
           /\ Revoked.instance = data.instance /\ Revoked.gen = data.gen
           /\ Revoked.rev = data.rev /\ Revoked.adm = data.adm
           /\ Revoked.current = 0 /\ Revoked.classes = data.classes
           /\ \A g \in Grants :
                /\ Revoked.grants[g].inst = data.grants[g].inst
                /\ Revoked.grants[g].gen = data.grants[g].gen
                /\ Revoked.grants[g].st \notin {"pending", "confirmed"}
                /\ data.grants[g] = NoGrant => Revoked.grants[g] = NoGrant
<1> DEFINE row(g) == IF data.grants[g] = NoGrant THEN NoGrant
                     ELSE [data.grants[g] EXCEPT !.st = "revoked"]
           gs == [g \in Grants |-> row(g)]
<1>0. data \in DataType /\ data.grants \in [Grants -> GrantType]
  BY DEF Good, DataType, GrantType
<1>1. ASSUME NEW g \in Grants
      PROVE  /\ row(g) \in GrantType
             /\ row(g).inst = data.grants[g].inst
             /\ row(g).gen = data.grants[g].gen
             /\ row(g).st \notin {"pending", "confirmed"}
             /\ data.grants[g] = NoGrant => row(g) = NoGrant
  <2>1. CASE data.grants[g] = NoGrant
    BY <2>1, <1>0 DEF NoGrant, GrantType
  <2>2. CASE data.grants[g] # NoGrant
    <3>1. data.grants[g] \in GrantType
      BY <1>0
    <3> QED BY <2>2, <3>1 DEF GrantType
  <2> QED BY <2>1, <2>2
<1> HIDE DEF row
<1>2. gs \in [Grants -> GrantType]
  BY <1>1
<1>3. Revoked = [data EXCEPT !.grants = gs, !.current = 0]
  BY DEF Revoked, row
<1> HIDE DEF gs
<1>4. /\ Revoked.instance = data.instance /\ Revoked.gen = data.gen
      /\ Revoked.rev = data.rev /\ Revoked.adm = data.adm
      /\ Revoked.current = 0 /\ Revoked.classes = data.classes
      /\ Revoked.grants = gs
  BY <1>0, <1>3 DEF DataType
<1>5. Revoked \in DataType
  <2>1. 0 \in 0..MaxGrants
    BY FenceAssumption
  <2>2. gs \in [Grants -> [inst : 0..MaxInsts, gen : 0..MaxGen,
                            st : {"none", "pending", "confirmed", "revoked"},
                            adopted : BOOLEAN]]
    BY <1>2 DEF GrantType
  <2> QED BY <1>0, <1>3, <2>1, <2>2, Zenon DEF DataType
<1>6. \A g \in Grants : Revoked.grants[g] = row(g)
  BY <1>4 DEF gs
<1> QED BY <1>1, <1>4, <1>5, <1>6

\* handle_call(:revoke).
LEMMA RevokedGood ==
    ASSUME NEW i \in Nat, Good(data, i)
    PROVE  Good(Revoked, i) /\ Keeps(data, Revoked, i)
<1>0. data \in DataType
  BY DEF Good
<1>1. Exclusive(Revoked)
  BY RevokedFields DEF Exclusive
<1>2. Generations(Revoked)
  BY RevokedFields DEF Good, Generations
<1>3. Coverings(Revoked)
  BY RevokedFields DEF Good, Coverings, AdmittedIn
<1>4. Drawn(Revoked, i)
  BY RevokedFields DEF Good, Drawn
<1>5. Keeps(data, Revoked, i)
  BY <1>0, RevokedFields DEF Keeps, DataType
<1> QED BY <1>1, <1>2, <1>3, <1>4, <1>5, RevokedFields DEF Good

\* restore (advance 1) and transfer (advance 0).
LEMMA RotatedGood ==
    ASSUME NEW i \in Nat, Good(data, i), NEW advance \in {0, 1},
           data.gen + advance \in 0..MaxGen, ids.inst + 1 \in Insts
    PROVE  Good(Rotated(advance), i) /\ Keeps(data, Rotated(advance), i)
<1> DEFINE d == Rotated(advance)
           none == [c \in Classes |-> NoClass]
<1>0. data \in DataType /\ Revoked \in DataType
  BY RevokedFields DEF Good
<1>1. /\ d.instance = ids.inst + 1 /\ d.gen = data.gen + advance
      /\ d.rev = data.rev /\ d.adm = data.adm /\ d.current = 0
      /\ d.grants = Revoked.grants /\ d.classes = none
  BY <1>0, RevokedFields DEF DataType, Rotated
<1>2. d \in DataType
  <2>1. none \in [Classes -> [inst : 0..MaxInsts, rev : Nat,
                              covers : SUBSET Keys]]
    BY FenceAssumption DEF NoClass
  <2> HIDE DEF none
  <2>2. d = [Revoked EXCEPT !.instance = ids.inst + 1,
                            !.gen = data.gen + advance, !.classes = none]
    BY DEF Rotated, none
  <2> QED BY <1>0, <2>1, <2>2, Zenon DEF DataType
<1> HIDE DEF d
<1>3. data.gen \in Nat /\ d.gen >= data.gen
  BY <1>0, <1>1 DEF DataType
<1>4. Exclusive(d)
  BY <1>1, RevokedFields DEF Exclusive
<1>5. Generations(d)
  <2>1. \A g \in Grants : d.grants[g].gen = data.grants[g].gen
    BY <1>1, RevokedFields
  <2>2. \A g \in Grants : data.grants[g].gen \in Nat
                          /\ data.grants[g].gen <= data.gen
    BY <1>0 DEF Good, Generations, DataType
  <2>3. \A g \in Grants : d.grants[g].gen <= d.gen
    BY <1>1, <1>3, <2>1, <2>2
  <2> QED BY <2>1, <2>3 DEF Good, Generations
<1>6. Coverings(d)
  <2>1. \A cl \in Classes : d.classes[cl] = NoClass
    BY <1>1
  <2> QED BY <2>1, <1>0, <1>1 DEF Coverings, NoClass, DataType
<1>7. Drawn(d, i)
  BY <1>1, RevokedFields DEF Good, Drawn
<1>8. Keeps(data, d, i)
  BY <1>1, <1>3, RevokedFields DEF Keeps
<1> QED BY <1>2, <1>4, <1>5, <1>6, <1>7, <1>8 DEF Good, d

\* What admit/5 checks before it appends, and what the state it appends is like.
MayAdmit(n, g, k, inst) ==
    inst # 0 /\ Classified(n, inst) /\ CurrentGrant(g, inst) /\ NotRetained(k)

\* d is what data was, with an admission of k.
AdmissionKept(d, k, i) ==
    /\ Good(d, i)
    /\ Keeps(data, d, i)
    /\ d.adm[k] \in Admissions /\ d.adm[k] # NoAdmission
    /\ d.current = data.current /\ d.grants = data.grants

\* admit/5 of a new key.
LEMMA AdmissionGood ==
    ASSUME NEW i \in Nat, Good(data, i), NEW n \in Classes, NEW inst,
           NEW g \in Grants, NEW k \in Keys, NEW dg \in Digests,
           MayAdmit(n, g, k, inst)
    PROVE  AdmissionKept(WithAdmission(n, g, k, dg), k, i)
<1> USE DEF MayAdmit
<1> DEFINE d == WithAdmission(n, g, k, dg)
<1> DEFINE new == [digest |-> dg, gen |-> data.grants[g].gen]
           row == [data.classes[n] EXCEPT
                     !.rev = data.rev + 1,
                     !.covers = data.classes[n].covers \cup {k}]
           ClassType == [inst : 0..MaxInsts, rev : Nat, covers : SUBSET Keys]
<1>0. data \in DataType
  BY DEF Good
<1>1. /\ d.instance = data.instance /\ d.gen = data.gen
      /\ d.rev = data.rev + 1 /\ d.current = data.current
      /\ d.grants = data.grants
      /\ d.adm = [data.adm EXCEPT ![k] = new]
      /\ d.classes = [data.classes EXCEPT ![n] = row]
  BY <1>0 DEF DataType, WithAdmission
<1>2. /\ new \in Admissions /\ new # NoAdmission
      /\ data.rev \in Nat
  BY <1>0, FenceAssumption DEF DataType, CurrentGrant, Admissions, NoAdmission
<1>3. /\ row \in ClassType
      /\ row.rev = data.rev + 1
      /\ row.covers = data.classes[n].covers \cup {k}
  <2>1. data.classes[n] \in ClassType
    BY <1>0 DEF DataType
  <2> DEFINE c == data.classes[n]
             r == data.rev + 1
             s == c.covers \cup {k}
  <2>2. s \in SUBSET Keys /\ r \in Nat /\ c \in ClassType
    BY <2>1, <1>2
  <2>3. row = [c EXCEPT !.rev = r, !.covers = s]
    OBVIOUS
  <2> HIDE DEF c, r, s, row
  <2>4. row \in ClassType /\ row.rev = r /\ row.covers = s
    BY Zenon, <2>2, <2>3
  <2> QED BY <2>4 DEF c, r, s
<1>4. d \in DataType
  <2> DEFINE a == [data.adm EXCEPT ![k] = new]
             r == data.rev + 1
             cs == [data.classes EXCEPT ![n] = row]
  <2>1. a \in [Keys -> Admissions]
    BY <1>0, <1>2 DEF DataType
  <2>2. cs \in [Classes -> ClassType]
    BY <1>0, <1>3 DEF DataType
  <2>3. r \in Nat
    BY <1>2
  <2>4. d = [data EXCEPT !.adm = a, !.rev = r, !.classes = cs]
    BY DEF WithAdmission
  <2> HIDE DEF a, r, cs, new, row, d
  <2>5. [data EXCEPT !.adm = a, !.rev = r, !.classes = cs] \in DataType
    BY <1>0, <2>1, <2>2, <2>3, Zenon DEF DataType
  <2> QED BY <2>4, <2>5, Zenon
<1> HIDE DEF new, row, d
<1>5. /\ d.adm[k] = new
      /\ \A j \in Keys : j # k => d.adm[j] = data.adm[j]
      /\ d.classes[n] = row
      /\ \A cl \in Classes : cl # n => d.classes[cl] = data.classes[cl]
  <2>1. data.adm \in [Keys -> Admissions] /\ data.classes \in [Classes -> ClassType]
    BY <1>0 DEF DataType
  <2> HIDE DEF ClassType
  <2>2. /\ d.adm[k] = new
        /\ \A j \in Keys : j # k => d.adm[j] = data.adm[j]
    BY <1>1, <2>1
  <2>3. /\ d.classes[n] = row
        /\ \A cl \in Classes : cl # n => d.classes[cl] = data.classes[cl]
    BY <1>1, <2>1
  <2> QED BY <2>2, <2>3
<1>6. Exclusive(d) /\ Generations(d) /\ Drawn(d, i)
  BY <1>1 DEF Good, Exclusive, Generations, Drawn
<1>7. AdmittedIn(d) = AdmittedIn(data) \cup {k}
  BY <1>2, <1>5 DEF AdmittedIn
<1>8. Coverings(d)
  <2> SUFFICES ASSUME NEW cl \in Classes
               PROVE  /\ d.classes[cl].rev <= d.rev
                      /\ d.classes[cl].inst # 0 /\ d.classes[cl].rev = d.rev =>
                           d.classes[cl].covers = AdmittedIn(d)
    BY DEF Coverings
  <2>1. CASE cl = n
    <3>1. data.classes[n].covers = AdmittedIn(data)
      BY DEF Good, Coverings, Classified
    <3> QED BY <3>1, <2>1, <1>1, <1>2, <1>3, <1>5, <1>7
  <2>2. CASE cl # n
    <3>1. /\ d.classes[cl].rev = data.classes[cl].rev
          /\ data.classes[cl].rev \in Nat /\ data.classes[cl].rev <= data.rev
      BY <2>2, <1>0, <1>5 DEF Good, Coverings, DataType
    <3> QED BY <3>1, <1>1, <1>2
  <2> QED BY <2>1, <2>2
<1>9. Keeps(data, d, i)
  <2>1. data.gen \in Nat
    BY <1>0 DEF DataType
  <2>2. d.gen >= data.gen /\ d.grants = data.grants
    BY <2>1, <1>1
  <2>3. \A j \in Keys : data.adm[j] # NoAdmission => d.adm[j] = data.adm[j]
    BY <1>5 DEF NotRetained
  <2> QED BY <2>2, <2>3 DEF Keeps
<1> QED BY <1>1, <1>2, <1>4, <1>5, <1>6, <1>8, <1>9 DEF Good, AdmissionKept, d

-----------------------------------------------------------------------------
(* Appending such a state preserves what the journal stands for.           *)

\* The counters ids are drawn from.
IdsType == [inst : Insts, grant : 0..MaxGrants, class : 0..MaxClasses]

\* Drawing more ids does not make a good state bad.
LEMMA GoodMonotone ==
    ASSUME NEW d, NEW i \in Nat, NEW j \in Nat, Good(d, i), i <= j
    PROVE  Good(d, j)
<1>1. \A g \in Grants : g > j => g > i
  BY FenceAssumption DEF Grants
<1> QED BY <1>1 DEF Good, Drawn

\* The journal's next last frame keeps what was exposed, if it is the old one
\* or one that keeps the old one.
LEMMA ExposedKept ==
    ASSUME IInv, NEW d, d = saved \/ Keeps(saved, d, ids.grant)
    PROVE  /\ \A e \in seen : /\ d.grants[e.id].inst = e.inst
                               /\ d.grants[e.id].gen = e.gen
           /\ \A k \in Keys : told[k] # NoAdmission => d.adm[k] = told[k]
           /\ \A k \in Keys : writes[k] <= 1
                /\ (writes[k] = 1 => d.adm[k] # NoAdmission)
<1>1. \A e \in seen : e.id \in Grants /\ e.id <= ids.grant
  BY DEF IInv, TypeOK, SeenDrawn
<1>2. CASE d = saved
  BY <1>2 DEF IInv, ExposedIsDurable, WrittenOnce
<1>3. CASE Keeps(saved, d, ids.grant)
  BY <1>1, <1>3 DEF IInv, ExposedIsDurable, WrittenOnce, Keeps
<1> QED BY <1>2, <1>3

\* A failed append leaves the invariant, whatever reached the disk.
LEMMA AppendFailsIInv ==
    ASSUME IInv, NEW d, AppendFails(d), ids' \in IdsType,
           ids.grant <= ids'.grant, Good(d, ids'.grant),
           d = saved \/ Keeps(saved, d, ids.grant)
    PROVE  IInv'
<1>1. ids.grant \in Nat /\ ids'.grant \in Nat /\ ids.inst \in Insts
  BY FenceAssumption DEF IInv, TypeOK, IdsType
<1>2. Good(data, ids'.grant) /\ Good(saved, ids'.grant)
  BY <1>1, GoodMonotone DEF IInv
<1>3. data' = data /\ saved' \in {saved, d} /\ UNCHANGED <<seen, told, writes>>
      /\ up' = FALSE /\ torn' \in BOOLEAN
      /\ chan' = [c \in Channels |-> Closed]
  BY Zenon DEF AppendFails, ghosts, IInv, TypeOK
<1>4. Good(data, ids.grant)' /\ Good(saved, ids.grant)'
  <2>1. Good(data', ids'.grant) /\ Good(saved', ids'.grant)
    BY <1>2, <1>3
  <2> QED BY <2>1 DEF Good, Exclusive, Generations, Coverings, Drawn, AdmittedIn
<1>5. TypeOK'
  <2>1. chan' \in [Channels -> [inst : 0..MaxInsts, lease : 0..MaxGrants]]
    BY <1>3, FenceAssumption DEF Closed
  <2>2. data' \in DataType /\ saved' \in DataType
    BY <1>4 DEF Good
  <2> QED BY <1>3, <2>1, <2>2, Zenon DEF IInv, TypeOK, IdsType
<1>6. (ExposedIsDurable /\ WrittenOnce)'
  <2>1. saved' = saved \/ Keeps(saved, saved', ids.grant)
    BY <1>3
  <2> QED BY <2>1, <1>3, ExposedKept DEF ExposedIsDurable, WrittenOnce
<1>7. SeenDrawn'
  <2>1. \A e \in seen : e.id \in Nat /\ e.id <= ids.grant
    BY FenceAssumption DEF IInv, TypeOK, SeenDrawn, Grants
  <2> QED BY <2>1, <1>1, <1>3 DEF SeenDrawn
<1>8. (Synced /\ DownClosed /\ LeaseIsOwners)'
  BY <1>3 DEF Synced, DownClosed, LeaseIsOwners, Closed
<1> QED BY <1>4, <1>5, <1>6, <1>7, <1>8 DEF IInv

\* An append that returns: all of the invariant but what the reply and the
\* channels add.
LEMMA AppendsIInv ==
    ASSUME IInv, NEW d, up, Appends(d), ids' \in IdsType,
           ids.grant <= ids'.grant, Good(d, ids'.grant),
           Keeps(data, d, ids.grant)
    PROVE  /\ up' = TRUE /\ torn' \in BOOLEAN /\ data' = d /\ saved' = d
           /\ Good(data, ids.grant)' /\ Good(saved, ids.grant)'
           /\ Synced' /\ DownClosed'
           /\ \A e \in seen : /\ e.id <= ids'.grant
                               /\ saved'.grants[e.id].inst = e.inst
                               /\ saved'.grants[e.id].gen = e.gen
           /\ \A k \in Keys : told[k] # NoAdmission => saved'.adm[k] = told[k]
           /\ \A k \in Keys : writes[k] <= 1
                /\ (writes[k] = 1 => saved'.adm[k] # NoAdmission)
<1>1. up' = TRUE /\ torn' \in BOOLEAN /\ data' = d /\ saved' = d
  BY SMTT(30) DEF Appends, IInv, TypeOK
<1>2. Good(data, ids.grant)' /\ Good(saved, ids.grant)'
  <2>1. Good(data', ids'.grant) /\ Good(saved', ids'.grant)
    BY <1>1
  <2> QED BY <2>1 DEF Good, Exclusive, Generations, Coverings, Drawn, AdmittedIn
<1>3. Synced' /\ DownClosed'
  BY <1>1 DEF Synced, DownClosed
<1>4. \A e \in seen : e.id <= ids'.grant
  <2>1. \A e \in seen : e.id \in Nat /\ e.id <= ids.grant
    BY FenceAssumption DEF IInv, TypeOK, SeenDrawn, Grants
  <2>2. ids.grant \in Nat /\ ids'.grant \in Nat
    BY FenceAssumption DEF IInv, TypeOK, IdsType
  <2> QED BY <2>1, <2>2
<1>5. data = saved
  BY DEF IInv, Synced
<1>6. Keeps(saved, d, ids.grant)
  BY <1>5
<1> QED BY <1>1, <1>2, <1>3, <1>4, <1>6, ExposedKept

\* Replies that carry no grant and no receipt.
LEMMA QuietIInv ==
    ASSUME IInv, NEW d, up, Appends(d), ids' \in IdsType,
           ids.grant <= ids'.grant, Good(d, ids'.grant),
           Keeps(data, d, ids.grant), UNCHANGED ghosts,
           chan' \in [Channels -> [inst : 0..MaxInsts, lease : 0..MaxGrants]],
           LeaseIsOwners'
    PROVE  IInv'
<1>1. UNCHANGED <<seen, told, writes>>
  BY DEF ghosts
<1>2. TypeOK'
  BY <1>1, AppendsIInv, Zenon DEF IInv, TypeOK, Good, IdsType
<1>3. SeenDrawn'
  BY <1>1, AppendsIInv, Zenon DEF SeenDrawn
<1>4. ExposedIsDurable' /\ WrittenOnce'
  BY <1>1, AppendsIInv, Zenon DEF ExposedIsDurable, WrittenOnce
<1> QED BY <1>2, <1>3, <1>4, AppendsIInv, Zenon DEF IInv

\* Replies that carry a grant held in the state appended.
LEMMA GrantReplyIInv ==
    ASSUME IInv, NEW d, up, Appends(d), ids' \in IdsType,
           ids.grant <= ids'.grant, Good(d, ids'.grant),
           Keeps(data, d, ids.grant), NEW g \in Grants, Exposes(g, d),
           d.grants[g].st \in {"pending", "confirmed"},
           UNCHANGED <<chan, told, writes>>, LeaseIsOwners'
    PROVE  IInv'
<1> DEFINE e == [id |-> g, inst |-> d.grants[g].inst, gen |-> d.grants[g].gen]
<1>1. seen' = seen \cup {e}
  BY DEF Exposes
<1>2. d.grants[g].inst \in Insts /\ d.grants[g].gen \in 1..MaxGen
  <2>1. d \in DataType
    BY DEF Good
  <2>2. /\ d.instance \in Insts /\ d.gen \in 0..MaxGen
    BY <2>1 DEF DataType
  <2>3. /\ d.grants[g].inst = d.instance /\ d.grants[g].gen = d.gen
        /\ d.gen > 0
    BY DEF Good, Exclusive
  <2>4. d.gen \in 1..MaxGen
    BY <2>2, <2>3, FenceAssumption
  <2> HIDE DEF e
  <2> QED BY <2>2, <2>3, <2>4, Zenon
<1>3. g <= ids'.grant
  <2>1. d.grants[g] # NoGrant
    <3>1. NoGrant.st = "none"
      BY DEF NoGrant
    <3> QED BY <3>1
  <2>2. g \in Nat /\ ids'.grant \in Nat
    BY FenceAssumption DEF Grants, IdsType
  <2>3. Drawn(d, ids'.grant)
    BY DEF Good
  <2> HIDE DEF e
  <2> QED BY <2>1, <2>2, <2>3 DEF Drawn
<1>4. e \in [id : Grants, inst : Insts, gen : 1..MaxGen]
  BY SMTT(30), <1>2
<1>5. TypeOK'
  <2>1. seen' \in SUBSET [id : Grants, inst : Insts, gen : 1..MaxGen]
    BY <1>1, <1>4, Zenon DEF IInv, TypeOK
  <2> QED BY <2>1, AppendsIInv, Zenon DEF IInv, TypeOK, Good, IdsType
<1>6. SeenDrawn'
  <2>1. \A f \in seen : f.id <= ids'.grant
    BY Zenon, AppendsIInv
  <2>2. e.id = g
    OBVIOUS
  <2> HIDE DEF e
  <2> QED BY <1>1, <1>3, <2>1, <2>2, Zenon DEF SeenDrawn
<1>7. ExposedIsDurable' /\ WrittenOnce'
  <2>1. saved' = d
    BY Zenon, AppendsIInv
  <2>2. \A f \in seen' : /\ saved'.grants[f.id].inst = f.inst
                         /\ saved'.grants[f.id].gen = f.gen
    <3>1. \A f \in seen : /\ saved'.grants[f.id].inst = f.inst
                          /\ saved'.grants[f.id].gen = f.gen
      BY Zenon, AppendsIInv
    <3>2. e.id = g /\ e.inst = d.grants[g].inst /\ e.gen = d.grants[g].gen
      OBVIOUS
    <3> HIDE DEF e
    <3> QED BY <1>1, <2>1, <3>1, <3>2
  <2> QED BY <2>2, AppendsIInv, Zenon DEF ExposedIsDurable, WrittenOnce
<1> QED BY <1>5, <1>6, <1>7, AppendsIInv, Zenon DEF IInv

\* Steps that leave the host's state, the journal and the ids alone.
LEMMA SameStateIInv ==
    ASSUME IInv, UNCHANGED <<data, saved, torn, ids, writes>>, up' \in BOOLEAN,
           up' => data = saved,
           chan' \in [Channels -> [inst : 0..MaxInsts, lease : 0..MaxGrants]],
           DownClosed', LeaseIsOwners',
           seen' \in SUBSET [id : Grants, inst : Insts, gen : 1..MaxGen],
           told' \in [Keys -> Admissions], SeenDrawn', ExposedIsDurable'
    PROVE  IInv'
<1>1. TypeOK' /\ Synced' /\ WrittenOnce'
  BY DEF IInv, TypeOK, Synced, WrittenOnce
<1>2. Good(data, ids.grant)'
  <2>1. Good(data, ids.grant) /\ data' = data /\ ids' = ids
    BY DEF IInv
  <2> QED BY <2>1
<1>3. Good(saved, ids.grant)'
  <2>1. Good(saved, ids.grant) /\ saved' = saved /\ ids' = ids
    BY DEF IInv
  <2> QED BY <2>1
<1> QED BY <1>1, <1>2, <1>3 DEF IInv

-----------------------------------------------------------------------------
(* One lemma per kind of step.                                             *)

\* A handler's append fails.
LEMMA HandlerFails ==
    ASSUME IInv, NEW d, up, AppendFails(d), ids' \in IdsType,
           ids.grant <= ids'.grant, Good(d, ids'.grant),
           Keeps(data, d, ids.grant)
    PROVE  IInv'
<1>1. data = saved
  BY DEF IInv, Synced
<1>2. Keeps(saved, d, ids.grant)
  BY <1>1
<1> QED BY <1>2, AppendFailsIInv

\* init/1 and the death of the host.
LEMMA StartCrashIInv ==
    ASSUME IInv, Start \/ Crash
    PROVE  IInv'
<1>0. ids \in IdsType /\ ids.grant <= ids.grant /\ ids.grant \in Nat
  BY FenceAssumption DEF IInv, TypeOK, IdsType
<1>1. CASE Start /\ AppendFails(saved)
  <2>1. ids' = ids
    BY <1>1 DEF Start
  <2> QED BY <1>0, <1>1, <2>1, AppendFailsIInv DEF IInv
<1>2. CASE Start /\ up' = TRUE /\ data' = saved
             /\ UNCHANGED <<saved, torn, chan, ghosts>>
  <2>1. UNCHANGED <<saved, torn, chan, seen, told, writes, ids>> /\ ~up
    BY <1>2 DEF Start, ghosts
  <2>2. Good(data, ids.grant)' /\ Good(saved, ids.grant)'
    <3>1. Good(saved, ids.grant) /\ data' = saved /\ saved' = saved /\ ids' = ids
      BY <1>2, <2>1 DEF IInv
    <3> QED BY <3>1
  <2>3. TypeOK' /\ Synced' /\ SeenDrawn' /\ DownClosed' /\ ExposedIsDurable'
        /\ WrittenOnce'
    BY <1>2, <2>1 DEF IInv, TypeOK, Synced, SeenDrawn, DownClosed,
                      ExposedIsDurable, WrittenOnce
  <2>4. LeaseIsOwners'
    <3>1. \A c \in Channels : chan'[c].lease = 0
      BY <2>1 DEF IInv, DownClosed, Closed
    <3> QED BY <3>1 DEF LeaseIsOwners
  <2> QED BY <2>2, <2>3, <2>4 DEF IInv
<1>3. CASE Crash
  <2>1. UNCHANGED <<data, saved, torn, ids, seen, told, writes>>
        /\ up' = FALSE /\ chan' = [c \in Channels |-> Closed]
    BY <1>3 DEF Crash, ghosts
  <2>2. chan' \in [Channels -> [inst : 0..MaxInsts, lease : 0..MaxGrants]]
    BY <2>1, FenceAssumption DEF Closed
  <2>3. DownClosed' /\ LeaseIsOwners' /\ SeenDrawn' /\ ExposedIsDurable'
    BY <2>1 DEF DownClosed, LeaseIsOwners, Closed, IInv, SeenDrawn,
                ExposedIsDurable
  <2> QED BY <2>1, <2>2, <2>3, SameStateIInv, Zenon DEF IInv, TypeOK
<1> QED BY <1>1, <1>2, <1>3, Zenon DEF Start

\* connect/2, disconnect/2 and the lease operation: channels only.
LEMMA ChannelIInv ==
    ASSUME IInv, NEW c \in Channels,
           \/ Disconnect(c)
           \/ \E i \in Insts : Connect(c, i)
           \/ \E cl \in Classes, g \in Grants : Lease(c, cl, g)
    PROVE  IInv'
<1> DEFINE ChanType == [inst : 0..MaxInsts, lease : 0..MaxGrants]
<1>1. UNCHANGED <<up, data, saved, torn, ids, seen, told, writes>> /\ up
  BY SMTT(30) DEF Disconnect, Connect, Lease, MayMutate, Authentic, ghosts
<1>2. PICK x \in ChanType :
        /\ chan' = [chan EXCEPT ![c] = x]
        /\ x.lease # 0 => data.current = x.lease
                           /\ data.grants[x.lease].st = "confirmed"
  <2>1. CASE Disconnect(c)
    <3>1. Closed \in ChanType /\ Closed.lease = 0
      BY FenceAssumption DEF Closed
    <3> QED BY <2>1, <3>1, Zenon DEF Disconnect
  <2>2. ASSUME NEW i \in Insts, Connect(c, i)
        PROVE  \E x \in ChanType :
                 /\ chan' = [chan EXCEPT ![c] = x]
                 /\ x.lease # 0 => data.current = x.lease
                           /\ data.grants[x.lease].st = "confirmed"
    <3>1. [inst |-> i, lease |-> 0] \in ChanType
      BY FenceAssumption DEF Insts
    <3> QED BY <2>2, <3>1, Zenon DEF Connect
  <2>3. ASSUME NEW cl \in Classes, NEW g \in Grants, Lease(c, cl, g)
        PROVE  \E x \in ChanType :
                 /\ chan' = [chan EXCEPT ![c] = x]
                 /\ x.lease # 0 => data.current = x.lease
                           /\ data.grants[x.lease].st = "confirmed"
    <3> DEFINE x == [chan[c] EXCEPT !.lease = g]
    <3>1. chan[c] \in ChanType /\ g \in 0..MaxGrants
      BY FenceAssumption DEF IInv, TypeOK, Grants
    <3>2. x \in ChanType /\ x.lease = g
      BY <3>1
    <3> HIDE DEF x
    <3>3. chan' = [chan EXCEPT ![c] = x]
      BY <2>3 DEF Lease, x
    <3> QED BY <2>3, <3>2, <3>3, Zenon DEF Lease, MayMutate, CurrentGrant
  <2> QED BY Zenon, <2>1, <2>2, <2>3
<1>3. chan' \in [Channels -> ChanType]
  BY <1>2 DEF IInv, TypeOK
<1>4. LeaseIsOwners'
  BY <1>1, <1>2 DEF IInv, TypeOK, LeaseIsOwners
<1>5. DownClosed' /\ SeenDrawn' /\ ExposedIsDurable'
  BY <1>1 DEF DownClosed, IInv, SeenDrawn, ExposedIsDurable
<1> QED BY <1>1, <1>3, <1>4, <1>5, SameStateIInv DEF IInv, TypeOK, Synced

\* A begin that returns the grant already held.
LEMMA BeginAgainIInv ==
    ASSUME IInv, NEW c \in Channels, NEW cl \in Classes, BeginAgain(c, cl)
    PROVE  IInv'
<1> DEFINE g == data.current
           e == [id |-> g, inst |-> data.grants[g].inst,
                 gen |-> data.grants[g].gen]
<1>1. UNCHANGED <<up, data, saved, torn, chan, ids, told, writes>>
      /\ seen' = seen \cup {e} /\ up /\ Held /\ data = saved
  BY Zenon DEF BeginAgain, Exposes, Authentic, IInv, Synced
<1>2. data \in DataType /\ g \in Grants
  <2>1. data \in DataType
    BY DEF IInv, TypeOK
  <2>2. g \in 0..MaxGrants /\ g # 0
    BY <1>1, <2>1 DEF Held, DataType
  <2> QED BY <2>1, <2>2, FenceAssumption DEF Grants
<1>3. data.grants[g].inst \in Insts /\ data.grants[g].gen \in 1..MaxGen
  <2>1. data.instance \in Insts /\ data.gen \in 0..MaxGen
    BY <1>2, SMTT(30) DEF DataType
  <2>2. data.grants[g].inst = data.instance /\ data.grants[g].gen = data.gen
        /\ data.gen > 0
    BY <1>1, <1>2 DEF IInv, Good, Exclusive, Held
  <2> QED BY <2>1, <2>2, FenceAssumption
<1>4. g <= ids.grant
  <2>1. NoGrant.st = "none"
    BY DEF NoGrant
  <2>2. data.grants[g] # NoGrant
    BY <1>1, <2>1 DEF Held
  <2>3. g \in Nat /\ ids.grant \in Nat
    BY <1>2, FenceAssumption DEF Grants, IInv, TypeOK
  <2>4. Drawn(data, ids.grant)
    BY DEF IInv, Good
  <2> QED BY <1>2, <2>2, <2>3, <2>4 DEF Drawn
<1>5. /\ e \in [id : Grants, inst : Insts, gen : 1..MaxGen]
      /\ e.id = g /\ e.inst = data.grants[g].inst /\ e.gen = data.grants[g].gen
  BY <1>2, <1>3
<1> HIDE DEF e, g
<1>6. seen' \in SUBSET [id : Grants, inst : Insts, gen : 1..MaxGen]
  BY <1>1, <1>5 DEF IInv, TypeOK
<1>7. SeenDrawn'
  BY <1>1, <1>4, <1>5 DEF IInv, SeenDrawn
<1>8. ExposedIsDurable'
  <2>1. \A f \in seen : saved.grants[f.id].inst = f.inst
                        /\ saved.grants[f.id].gen = f.gen
    BY DEF IInv, ExposedIsDurable
  <2>2. \A f \in seen' : saved'.grants[f.id].inst = f.inst
                        /\ saved'.grants[f.id].gen = f.gen
    BY SMTT(30), <1>1, <1>5, <2>1
  <2> QED BY <1>1, <2>2 DEF IInv, ExposedIsDurable
<1>9. DownClosed' /\ LeaseIsOwners'
  BY <1>1, SMTT(30) DEF IInv, DownClosed, LeaseIsOwners
<1> QED BY <1>1, <1>6, <1>7, <1>8, <1>9, SameStateIInv, SMTT(30) DEF IInv, TypeOK

\* A retained receipt is replied again.
LEMMA ReceiptAgainIInv ==
    ASSUME IInv, NEW c \in Channels, NEW k \in Keys,
           \/ Reconcile(c, k)
           \/ \E cl \in Classes, g \in Grants, dg \in Digests :
                AdmitAgain(c, cl, g, k, dg)
    PROVE  IInv'
<1>1. UNCHANGED <<up, data, saved, torn, chan, ids, seen, writes>>
      /\ told' = [told EXCEPT ![k] = data.adm[k]] /\ up /\ data = saved
  BY Zenon DEF Reconcile, AdmitAgain, MayMutate, Authentic, IInv, Synced
<1>2. data.adm[k] \in Admissions
  BY DEF IInv, TypeOK, DataType
<1>3. told' \in [Keys -> Admissions]
  BY <1>1, <1>2, SMTT(30) DEF IInv, TypeOK
<1>4. ExposedIsDurable'
  BY <1>1, SMTT(30) DEF IInv, TypeOK, ExposedIsDurable
<1>5. DownClosed' /\ LeaseIsOwners' /\ SeenDrawn'
  BY <1>1 DEF IInv, DownClosed, LeaseIsOwners, SeenDrawn
<1> QED BY <1>1, <1>3, <1>4, <1>5, SameStateIInv, Zenon DEF IInv, TypeOK

\* dispatch({:classify, ...}).
LEMMA ClassifyIInv ==
    ASSUME IInv, NEW c \in Channels, NEW listed \in SUBSET Keys,
           Classify(c, listed)
    PROVE  IInv'
<1> DEFINE n == ids.class + 1
           inst == chan[c].inst
           d == [data EXCEPT !.classes = [data.classes EXCEPT ![n] =
                   [inst |-> inst, rev |-> data.rev, covers |-> listed]]]
<1>1. /\ up /\ Coverage(listed)
      /\ \/ Appends(d) /\ UNCHANGED <<chan, ghosts>>
         \/ AppendFails(d)
      /\ ids' = [ids EXCEPT !.class = ids.class + 1]
      /\ inst # 0 /\ ids.class < MaxClasses
  BY DEF Classify, Authentic
<1>2. /\ n \in Classes /\ inst \in Insts /\ ids.grant \in Nat
      /\ ids' \in IdsType /\ ids'.grant = ids.grant
      /\ chan \in [Channels -> [inst : 0..MaxInsts, lease : 0..MaxGrants]]
  BY <1>1, FenceAssumption DEF IInv, TypeOK, IdsType, Classes, Insts
<1>3. Good(data, ids.grant) /\ data \in DataType
  BY DEF IInv, Good
<1>4. Good(d, ids'.grant) /\ Keeps(data, d, ids.grant)
  BY <1>1, <1>2, <1>3, ClassifyGood
<1>5. d.grants = data.grants /\ d.current = data.current
  BY <1>3 DEF DataType
<1> HIDE DEF d, n, inst
<1>6. CASE Appends(d) /\ UNCHANGED <<chan, ghosts>>
  <2>1. LeaseIsOwners'
    BY <1>5, <1>6 DEF IInv, LeaseIsOwners, Appends
  <2> QED BY <1>1, <1>2, <1>4, <1>6, <2>1, QuietIInv
<1>7. CASE AppendFails(d)
  BY <1>1, <1>2, <1>4, <1>7, HandlerFails
<1> QED BY <1>1, <1>6, <1>7

\* dispatch({:begin, ...}) that issues a grant.
LEMMA BeginIInv ==
    ASSUME IInv, NEW c \in Channels, NEW cl \in Classes, Begin(c, cl)
    PROVE  IInv'
<1> DEFINE g == ids.grant + 1
           d == Granted(g)
<1>1. /\ up /\ ~Held /\ ids.grant < MaxGrants /\ data.gen < MaxGen
      /\ \/ Appends(d) /\ Exposes(g, d) /\ UNCHANGED <<chan, told, writes>>
         \/ AppendFails(d)
      /\ ids' = [ids EXCEPT !.grant = ids.grant + 1]
  BY DEF Begin, Authentic
<1>2. /\ g \in Grants /\ ids.grant \in Nat /\ ids' \in IdsType
      /\ ids'.grant = g /\ ids.grant <= ids'.grant
  BY <1>1, FenceAssumption DEF IInv, TypeOK, IdsType, Grants
<1>3. Good(data, ids.grant) /\ data \in DataType
  BY DEF IInv, Good
<1>4. Good(d, ids'.grant) /\ Keeps(data, d, ids.grant)
  BY <1>1, <1>2, <1>3, GrantedGood
<1>5. d.grants[g].st = "pending"
  BY <1>2, <1>3 DEF Granted, DataType
<1>6. \A h \in Channels : chan[h].lease = 0
  BY <1>1 DEF IInv, LeaseIsOwners, Held
<1> HIDE DEF d, g
<1>7. CASE Appends(d) /\ Exposes(g, d) /\ UNCHANGED <<chan, told, writes>>
  <2>1. LeaseIsOwners'
    BY <1>6, <1>7 DEF LeaseIsOwners
  <2> QED BY <1>1, <1>2, <1>4, <1>5, <1>7, <2>1, GrantReplyIInv
<1>8. CASE AppendFails(d)
  BY SMTT(30), <1>1, <1>2, <1>4, <1>8, HandlerFails
<1> QED BY <1>1, <1>7, <1>8

\* confirm and adopt.
LEMMA ConfirmAdoptIInv ==
    ASSUME IInv, NEW c \in Channels, NEW g \in Grants,
           Confirm(c, g) \/ \E cl \in Classes : Adopt(c, cl, g)
    PROVE  IInv'
<1>1. /\ up /\ CurrentGrant(g, chan[c].inst) /\ ids' = ids
  BY DEF Confirm, Adopt, Authentic
<1>2. data \in DataType /\ data.grants[g] \in GrantType
  BY SMTT(30) DEF IInv, TypeOK, DataType, GrantType
<1>3. PICK new \in GrantType :
        /\ new.inst = data.grants[g].inst /\ new.gen = data.grants[g].gen
        /\ new.st \in {"pending", "confirmed"}
        /\ data.grants[g].st = "confirmed" => new.st = "confirmed"
        /\ \/ /\ Appends(WithGrant(g, new)) /\ Exposes(g, WithGrant(g, new))
              /\ UNCHANGED <<chan, told, writes>>
           \/ AppendFails(WithGrant(g, new))
  <2>1. CASE Confirm(c, g)
    <3> DEFINE new == [data.grants[g] EXCEPT !.st = "confirmed"]
    <3>1. new \in GrantType /\ new.inst = data.grants[g].inst
          /\ new.gen = data.grants[g].gen /\ new.st = "confirmed"
      BY <1>2 DEF GrantType
    <3> QED BY <2>1, <3>1, Zenon DEF Confirm
  <2>2. CASE \E cl \in Classes : Adopt(c, cl, g)
    <3> DEFINE new == [data.grants[g] EXCEPT !.adopted = TRUE]
    <3>1. new \in GrantType /\ new.inst = data.grants[g].inst
          /\ new.gen = data.grants[g].gen /\ new.st = data.grants[g].st
      BY <1>2, Zenon DEF GrantType
    <3>2. new.st \in {"pending", "confirmed"}
      BY <1>1, <3>1 DEF CurrentGrant
    <3> QED BY <2>2, <3>1, <3>2, Zenon DEF Adopt
  <2> QED BY Zenon, <2>1, <2>2
<1> DEFINE d == WithGrant(g, new)
<1>4. ids' \in IdsType /\ ids.grant \in Nat /\ ids.grant <= ids'.grant
  BY <1>1, FenceAssumption DEF IInv, TypeOK, IdsType
<1>5. Good(d, ids'.grant) /\ Keeps(data, d, ids.grant)
  BY <1>1, <1>3, <1>4, WithGrantGood, Zenon DEF IInv
<1>6. d.grants[g] = new /\ d.current = data.current /\ data.current = g
  BY SMTT(20), <1>1, <1>2 DEF WithGrant, DataType, CurrentGrant
<1> HIDE DEF d
<1>7. CASE Appends(d) /\ Exposes(g, d) /\ UNCHANGED <<chan, told, writes>>
  <2>1. LeaseIsOwners'
    BY <1>3, <1>6, <1>7, Zenon DEF IInv, LeaseIsOwners, Appends
  <2>2. d.grants[g].st \in {"pending", "confirmed"}
    BY <1>3, <1>6
  <2> QED BY SMTT(30), <1>1, <1>4, <1>5, <1>7, <2>1, <2>2, GrantReplyIInv
<1>8. CASE AppendFails(d)
  BY <1>1, <1>4, <1>5, <1>8, HandlerFails
<1> QED BY <1>3, <1>7, <1>8 DEF d

\* revoke, restore and transfer end every lease with the ownership.
LEMMA RotationIInv ==
    ASSUME IInv,
           Revoke \/ Restore
             \/ \E c \in Channels, cl \in Classes : Transfer(c, cl)
    PROVE  IInv'
<1>1. up /\ ids.grant \in Nat /\ data \in DataType /\ Good(data, ids.grant)
  BY FenceAssumption DEF Revoke, Restore, Transfer, Authentic, IInv, TypeOK
<1>2. ids' \in IdsType /\ ids'.grant = ids.grant /\ ids.grant <= ids'.grant
  BY FenceAssumption
     DEF Revoke, Restore, Transfer, IInv, TypeOK, IdsType, Insts
<1>3. PICK d : /\ \/ PersistDroppingLeases(d) /\ UNCHANGED ghosts
                  \/ AppendFails(d)
               /\ Good(d, ids'.grant) /\ Keeps(data, d, ids.grant)
  <2>1. CASE Revoke
    BY <1>1, <1>2, <2>1, RevokedGood DEF Revoke
  <2>2. CASE Restore
    <3>1. data.gen + 1 \in 0..MaxGen /\ ids.inst + 1 \in Insts
      BY <1>1, <2>2, FenceAssumption DEF Restore, DataType, IInv, TypeOK, Insts
    <3> QED BY <1>1, <1>2, <2>2, <3>1, RotatedGood DEF Restore
  <2>3. ASSUME NEW c \in Channels, NEW cl \in Classes, Transfer(c, cl)
        PROVE  \E d : /\ \/ PersistDroppingLeases(d) /\ UNCHANGED ghosts
                         \/ AppendFails(d)
                      /\ Good(d, ids'.grant) /\ Keeps(data, d, ids.grant)
    <3>1. data.gen + 0 \in 0..MaxGen /\ ids.inst + 1 \in Insts
      BY <1>1, <2>3, FenceAssumption DEF Transfer, DataType, IInv, TypeOK, Insts
    <3>2. Good(Rotated(0), ids.grant) /\ Keeps(data, Rotated(0), ids.grant)
      BY <1>1, <3>1, RotatedGood
    <3> QED BY <1>2, <2>3, <3>2 DEF Transfer
  <2> QED BY <2>1, <2>2, <2>3
<1>4. CASE PersistDroppingLeases(d) /\ UNCHANGED ghosts
  <2>1. Appends(d) /\ chan' = NoLeases
    BY <1>4 DEF PersistDroppingLeases
  <2>2. \A h \in Channels :
          /\ [chan[h] EXCEPT !.lease = 0]
               \in [inst : 0..MaxInsts, lease : 0..MaxGrants]
          /\ [chan[h] EXCEPT !.lease = 0].lease = 0
    <3>1. \A h \in Channels :
            chan[h] \in [inst : 0..MaxInsts, lease : 0..MaxGrants]
      BY DEF IInv, TypeOK
    <3> QED BY <3>1, FenceAssumption
  <2>3. chan' \in [Channels -> [inst : 0..MaxInsts, lease : 0..MaxGrants]]
    BY <2>1, <2>2 DEF NoLeases
  <2>4. \A h \in Channels : chan'[h].lease = 0
    BY <2>1, <2>2 DEF NoLeases
  <2>5. LeaseIsOwners'
    BY <2>4 DEF LeaseIsOwners
  <2> QED BY <1>1, <1>2, <1>3, <1>4, <2>1, <2>3, <2>5, QuietIInv
<1>5. CASE AppendFails(d)
  BY <1>1, <1>2, <1>3, <1>5, HandlerFails
<1> QED BY <1>3, <1>4, <1>5

\* admit/5 of a new key: the key was never written before.
LEMMA AdmitIInv ==
    ASSUME IInv, NEW c \in Channels, NEW cl \in Classes, NEW g \in Grants,
           NEW k \in Keys, NEW dg \in Digests, Admit(c, cl, g, k, dg)
    PROVE  IInv'
<1> DEFINE inst == chan[c].inst
           d == WithAdmission(cl, g, k, dg)
           x == [chan[c] EXCEPT !.lease = 0]
           ChanType == [inst : 0..MaxInsts, lease : 0..MaxGrants]
<1>1. /\ up /\ inst # 0 /\ Classified(cl, inst) /\ CurrentGrant(g, inst)
      /\ NotRetained(k) /\ ids' = ids /\ data = saved
      /\ \/ /\ Appends(d) /\ chan' = [chan EXCEPT ![c] = x]
            /\ told' = [told EXCEPT ![k] = d.adm[k]]
            /\ writes' = [writes EXCEPT ![k] = writes[k] + 1]
            /\ UNCHANGED seen
         \/ AppendFails(d)
  BY DEF Admit, MayMutate, Authentic, IInv, Synced
<1>2. ids' \in IdsType /\ ids.grant \in Nat /\ ids.grant <= ids'.grant
  BY <1>1, FenceAssumption DEF IInv, TypeOK, IdsType
<1>3. /\ Good(d, ids'.grant) /\ Keeps(data, d, ids.grant)
      /\ d.adm[k] \in Admissions /\ d.adm[k] # NoAdmission
      /\ d.current = data.current /\ d.grants = data.grants
  <2>1. Good(data, ids.grant) /\ ids.grant \in Nat /\ ids'.grant = ids.grant
    BY <1>1, <1>2, SMTT(30) DEF IInv
  <2>2. /\ Good(d, ids.grant) /\ Keeps(data, d, ids.grant)
        /\ d.adm[k] \in Admissions /\ d.adm[k] # NoAdmission
        /\ d.current = data.current /\ d.grants = data.grants
    <3>1. MayAdmit(cl, g, k, inst)
      BY <1>1 DEF MayAdmit
    <3> HIDE DEF inst
    <3>2. AdmissionKept(d, k, ids.grant)
      BY <2>1, <3>1, AdmissionGood
    <3> HIDE DEF d
    <3> QED BY <3>2 DEF AdmissionKept
  <2> HIDE DEF d
  <2> QED BY <2>1, <2>2
<1>4. CASE AppendFails(d)
  <2> HIDE DEF d
  <2> QED BY SMTT(20), <1>1, <1>2, <1>3, <1>4, HandlerFails
<1>5. CASE ~AppendFails(d)
  <2>1. /\ Appends(d) /\ chan' = [chan EXCEPT ![c] = x]
        /\ told' = [told EXCEPT ![k] = d.adm[k]]
        /\ writes' = [writes EXCEPT ![k] = writes[k] + 1]
        /\ seen' = seen
    BY <1>1, <1>5
  <2>2. x \in ChanType /\ x.lease = 0
    <3>1. chan[c] \in ChanType /\ 0 \in 0..MaxGrants
      BY FenceAssumption DEF IInv, TypeOK
    <3> QED BY <3>1
  <2> HIDE DEF x, d
  <2>3. chan' \in [Channels -> ChanType] /\ told' \in [Keys -> Admissions]
        /\ writes' \in [Keys -> Nat]
    <3>1. /\ chan \in [Channels -> ChanType] /\ told \in [Keys -> Admissions]
          /\ writes \in [Keys -> Nat]
      BY DEF IInv, TypeOK
    <3>2. chan' \in [Channels -> ChanType]
      <4> HIDE DEF ChanType
      <4> QED BY SMTT(30), <2>1, <2>2, <3>1
    <3>3. told' \in [Keys -> Admissions]
      BY Zenon, <1>3, <2>1, <3>1
    <3>4. writes' \in [Keys -> Nat]
      BY <2>1, <3>1
    <3> QED BY <3>2, <3>3, <3>4
  <2>4. writes[k] = 0
    <3>1. writes[k] \in Nat /\ writes[k] <= 1 /\ writes[k] # 1
      BY <1>1, Zenon DEF IInv, TypeOK, WrittenOnce, NotRetained
    <3> QED BY SMTT(30), <3>1
  <2>5. /\ up' = TRUE /\ torn' \in BOOLEAN /\ data' = d /\ saved' = d
        /\ Good(data, ids.grant)' /\ Good(saved, ids.grant)'
        /\ Synced' /\ DownClosed'
        /\ \A e \in seen : /\ e.id <= ids'.grant
                            /\ saved'.grants[e.id].inst = e.inst
                            /\ saved'.grants[e.id].gen = e.gen
        /\ \A j \in Keys : told[j] # NoAdmission => saved'.adm[j] = told[j]
        /\ \A j \in Keys : writes[j] <= 1
             /\ (writes[j] = 1 => saved'.adm[j] # NoAdmission)
    BY Zenon, <1>1, <1>2, <1>3, <2>1, AppendsIInv
  <2>6. TypeOK'
    BY <1>2, <2>1, <2>3, <2>5, Zenon DEF IInv, TypeOK, Good, IdsType
  <2>7. SeenDrawn'
    BY <2>1, <2>5, Zenon DEF SeenDrawn
  <2>8. ExposedIsDurable'
    BY <2>1, <2>5, Zenon DEF ExposedIsDurable, IInv, TypeOK
  <2>9. WrittenOnce'
    <3>1. writes \in [Keys -> Nat]
      BY DEF IInv, TypeOK
    <3>2. writes'[k] = 1
      BY <2>1, <2>4, <3>1
    <3>3. saved'.adm[k] # NoAdmission
      <4>1. saved' = d /\ d.adm[k] # NoAdmission
        BY Zenon, <1>3, <2>5
      <4> QED BY <4>1, Zenon
    <3>4. ASSUME NEW j \in Keys
          PROVE  writes'[j] <= 1 /\ (writes'[j] = 1 => saved'.adm[j] # NoAdmission)
      <4>1. CASE j = k
        <5>1. writes'[j] <= 1
          BY <3>2, <4>1
        <5> QED BY <3>3, <4>1, <5>1, Zenon
      <4>2. CASE j # k
        <5>1. writes'[j] = writes[j]
          BY <2>1, <3>1, <4>2
        <5>2. writes[j] <= 1 /\ (writes[j] = 1 => saved'.adm[j] # NoAdmission)
          BY <2>5, Zenon
        <5> QED BY <5>1, <5>2, Zenon
      <4> QED BY <4>1, <4>2, Zenon
    <3> QED BY <3>4, Zenon DEF WrittenOnce
  <2>10. LeaseIsOwners'
    <3>1. /\ chan \in [Channels -> ChanType] /\ LeaseIsOwners
          /\ data'.current = data.current /\ data'.grants = data.grants
      BY <1>3, <2>5, Zenon DEF IInv, TypeOK
    <3> HIDE DEF ChanType
    <3>2. ASSUME NEW b \in Channels, chan'[b].lease # 0
          PROVE  chan'[b] = chan[b]
      BY Zenon, <2>1, <2>2, <3>1, <3>2
    <3> QED BY <3>1, <3>2, SMTT(30) DEF LeaseIsOwners
  <2> QED BY <2>5, <2>6, <2>7, <2>8, <2>9, <2>10 DEF IInv
<1> QED BY <1>4, <1>5

-----------------------------------------------------------------------------
(* The induction.                                                          *)

\* A host that was never written satisfies the invariant.
LEMMA InitIInv == Init => IInv
<1> SUFFICES ASSUME Init PROVE IInv
  OBVIOUS
<1>1. data \in DataType /\ Good(data, 0) /\ Good(saved, 0) /\ data = saved
      /\ saved \in DataType
  BY FreshGood DEF Init, Good
<1>2. TypeOK
  <2>1. /\ chan \in [Channels -> [inst : 0..MaxInsts, lease : 0..MaxGrants]]
        /\ ids \in [inst : Insts, grant : 0..MaxGrants, class : 0..MaxClasses]
        /\ told \in [Keys -> Admissions]
        /\ writes \in [Keys -> Nat]
    <3>1. chan \in [Channels -> [inst : 0..MaxInsts, lease : 0..MaxGrants]]
      <4>1. Closed \in [inst : 0..MaxInsts, lease : 0..MaxGrants]
        BY FenceAssumption DEF Closed
      <4> QED BY <4>1 DEF Init
    <3>2. ids \in [inst : Insts, grant : 0..MaxGrants, class : 0..MaxClasses]
      BY FenceAssumption DEF Init, Insts
    <3>3. told \in [Keys -> Admissions] /\ writes \in [Keys -> Nat]
      BY DEF Init, Admissions
    <3> QED BY <3>1, <3>2, <3>3
  <2> QED BY <1>1, <2>1, Zenon DEF Init, TypeOK
<1>3. ids.grant = 0
  BY DEF Init
<1>4. Synced /\ SeenDrawn /\ DownClosed /\ ExposedIsDurable /\ WrittenOnce
      /\ LeaseIsOwners
  <2>1. Synced /\ SeenDrawn /\ DownClosed
    BY <1>1 DEF Init, Synced, SeenDrawn, DownClosed, Closed
  <2>2. ExposedIsDurable /\ WrittenOnce
    <3>1. seen = {} /\ \A k \in Keys : told[k] = NoAdmission /\ writes[k] = 0
      BY DEF Init
    <3> QED BY <3>1 DEF ExposedIsDurable, WrittenOnce
  <2>3. LeaseIsOwners
    BY DEF Init, LeaseIsOwners, Closed
  <2> QED BY <2>1, <2>2, <2>3
<1> QED BY <1>1, <1>2, <1>3, <1>4 DEF IInv

\* Every step of the host, its transports or its journal preserves it.
LEMMA NextIInv == IInv /\ [Next]_vars => IInv'
<1> SUFFICES ASSUME IInv, [Next]_vars PROVE IInv'
  BY SMTT(30)
<1>1. CASE UNCHANGED vars
  <2>1. UNCHANGED <<up, data, saved, torn, chan, ids, seen, told, writes>>
    BY <1>1 DEF vars
  <2> QED BY Zenon, <2>1, SameStateIInv
          DEF IInv, TypeOK, Synced, DownClosed, LeaseIsOwners, SeenDrawn,
              ExposedIsDurable
<1>2. CASE Start \/ Crash
  BY <1>2, StartCrashIInv
<1>3. CASE Revoke \/ Restore
  BY <1>3, RotationIInv
<1>4. ASSUME NEW c \in Channels,
             \/ Disconnect(c)
             \/ \E i \in Insts : Connect(c, i)
             \/ \E cl \in Classes, g \in Grants : Lease(c, cl, g)
      PROVE  IInv'
  BY <1>4, ChannelIInv
<1>5. ASSUME NEW c \in Channels, NEW listed \in SUBSET Keys,
             Classify(c, listed)
      PROVE  IInv'
  BY <1>5, ClassifyIInv
<1>6. ASSUME NEW c \in Channels, NEW k \in Keys,
             \/ Reconcile(c, k)
             \/ \E cl \in Classes, g \in Grants, dg \in Digests :
                  AdmitAgain(c, cl, g, k, dg)
      PROVE  IInv'
  BY <1>6, ReceiptAgainIInv
<1>7. ASSUME NEW c \in Channels, NEW g \in Grants,
             Confirm(c, g) \/ \E cl \in Classes : Adopt(c, cl, g)
      PROVE  IInv'
  BY <1>7, ConfirmAdoptIInv
<1>8. ASSUME NEW c \in Channels, NEW cl \in Classes,
             BeginAgain(c, cl) \/ Begin(c, cl) \/ Transfer(c, cl)
      PROVE  IInv'
  BY <1>8, BeginAgainIInv, BeginIInv, RotationIInv
<1>9. ASSUME NEW c \in Channels, NEW cl \in Classes, NEW g \in Grants,
             NEW k \in Keys, NEW dg \in Digests, Admit(c, cl, g, k, dg)
      PROVE  IInv'
  BY <1>9, AdmitIInv
<1>10. ASSUME NEW c \in Channels, NEW cl \in Classes, NEW g \in Grants,
              \/ Adopt(c, cl, g) \/ Lease(c, cl, g)
              \/ \E k \in Keys, dg \in Digests :
                   AdmitAgain(c, cl, g, k, dg) \/ Admit(c, cl, g, k, dg)
       PROVE  IInv'
  BY <1>4, <1>6, <1>7, <1>9, <1>10, Zenon
<1>11. ASSUME NEW c \in Channels,
              \/ Disconnect(c)
              \/ \E i \in Insts : Connect(c, i)
              \/ \E listed \in SUBSET Keys : Classify(c, listed)
              \/ \E k \in Keys : Reconcile(c, k)
              \/ \E g \in Grants : Confirm(c, g)
       PROVE  IInv'
  BY <1>4, <1>5, <1>6, <1>7, <1>11, Zenon
<1> QED
  BY <1>1, <1>2, <1>3, <1>8, <1>10, <1>11, Zenon DEF Next

\* What a step may write: the frame that was last, or one a handler built,
\* which keeps it.
LEMMA FrameKept ==
    ASSUME IInv, Next
    PROVE  saved' = saved \/ Keeps(saved, saved', ids.grant)
<1>0. /\ ids.grant \in Nat /\ data \in DataType /\ Good(data, ids.grant)
      /\ up => data = saved
  BY FenceAssumption DEF IInv, TypeOK, Synced
<1>a. ASSUME NEW d, up, Appends(d) \/ AppendFails(d), Keeps(data, d, ids.grant)
      PROVE  saved' = saved \/ Keeps(saved, saved', ids.grant)
  <2>1. saved' \in {saved, d}
    BY <1>a, Zenon DEF Appends, AppendFails
  <2> QED BY <1>0, <1>a, <2>1
<1>1. CASE Start \/ Crash
  BY <1>1 DEF Start, Crash, AppendFails
<1>2. CASE Revoke
  BY <1>0, <1>2, <1>a, RevokedGood DEF Revoke, PersistDroppingLeases
<1>3. CASE Restore
  <2>1. data.gen + 1 \in 0..MaxGen /\ ids.inst + 1 \in Insts
    BY <1>0, <1>3, FenceAssumption DEF Restore, DataType, IInv, TypeOK, Insts
  <2>2. Keeps(data, Rotated(1), ids.grant)
    BY <1>0, <2>1, RotatedGood
  <2> QED BY <1>3, <1>a, <2>2 DEF Restore, PersistDroppingLeases
<1>4. ASSUME NEW c \in Channels, NEW cl \in Classes, Transfer(c, cl)
      PROVE  saved' = saved \/ Keeps(saved, saved', ids.grant)
  <2>1. data.gen + 0 \in 0..MaxGen /\ ids.inst + 1 \in Insts
    BY <1>0, <1>4, FenceAssumption DEF Transfer, DataType, IInv, TypeOK, Insts
  <2>2. Keeps(data, Rotated(0), ids.grant)
    BY <1>0, <2>1, RotatedGood
  <2> QED BY <1>4, <1>a, <2>2 DEF Transfer, PersistDroppingLeases, Authentic
<1>5. ASSUME NEW c \in Channels, NEW listed \in SUBSET Keys,
             Classify(c, listed)
      PROVE  saved' = saved \/ Keeps(saved, saved', ids.grant)
  <2> DEFINE d == [data EXCEPT !.classes =
                     [data.classes EXCEPT ![ids.class + 1] =
                        [inst |-> chan[c].inst, rev |-> data.rev,
                         covers |-> listed]]]
  <2>1. up /\ (Appends(d) \/ AppendFails(d))
    BY <1>5 DEF Classify, Authentic
  <2>2. /\ d.gen = data.gen /\ d.grants = data.grants /\ d.adm = data.adm
        /\ data.gen \in Nat
    BY <1>0 DEF DataType
  <2> HIDE DEF d
  <2>3. Keeps(data, d, ids.grant)
    BY <2>2 DEF Keeps
  <2> QED BY <1>a, <2>1, <2>3
<1>6. ASSUME NEW c \in Channels, NEW cl \in Classes, Begin(c, cl)
      PROVE  saved' = saved \/ Keeps(saved, saved', ids.grant)
  <2>1. /\ up /\ ~Held /\ data.gen < MaxGen /\ ids.grant + 1 \in Grants
        /\ Appends(Granted(ids.grant + 1)) \/ AppendFails(Granted(ids.grant + 1))
    BY <1>6, FenceAssumption DEF Begin, Authentic, IInv, TypeOK, Grants
  <2> QED BY <1>0, <1>a, <2>1, GrantedGood
<1>7. ASSUME NEW c \in Channels, NEW g \in Grants,
             Confirm(c, g) \/ \E cl \in Classes : Adopt(c, cl, g)
      PROVE  saved' = saved \/ Keeps(saved, saved', ids.grant)
  <2>1. data.grants[g] \in GrantType
    BY <1>0, SMTT(30) DEF DataType, GrantType
  <2>2. PICK new : /\ up
                   /\ \/ Appends(WithGrant(g, new))
                      \/ AppendFails(WithGrant(g, new))
                   /\ new.inst = data.grants[g].inst
                   /\ new.gen = data.grants[g].gen
    <3>1. CASE Confirm(c, g)
      <4> DEFINE new == [data.grants[g] EXCEPT !.st = "confirmed"]
      <4>1. new.inst = data.grants[g].inst /\ new.gen = data.grants[g].gen
        BY <2>1 DEF GrantType
      <4> QED BY <3>1, <4>1, Zenon DEF Confirm, Authentic
    <3>2. CASE \E cl \in Classes : Adopt(c, cl, g)
      <4> DEFINE new == [data.grants[g] EXCEPT !.adopted = TRUE]
      <4>1. new.inst = data.grants[g].inst /\ new.gen = data.grants[g].gen
        BY <2>1 DEF GrantType
      <4> QED BY <3>2, <4>1, Zenon DEF Adopt, Authentic
    <3> QED BY <1>7, <3>1, <3>2
  <2> DEFINE d == WithGrant(g, new)
  <2>3. /\ d.gen = data.gen /\ data.gen \in Nat /\ d.adm = data.adm
        /\ \A h \in Grants : d.grants[h].inst = data.grants[h].inst
                             /\ d.grants[h].gen = data.grants[h].gen
    BY <1>0, <2>2 DEF WithGrant, DataType
  <2> HIDE DEF d
  <2>4. Keeps(data, d, ids.grant)
    <3>1. d.gen >= data.gen
      BY SMTT(30), <2>3
    <3> QED BY <2>3, <3>1, Zenon DEF Keeps
  <2> QED BY <1>a, <2>2, <2>4 DEF d
<1>8. ASSUME NEW c \in Channels, NEW cl \in Classes, NEW g \in Grants,
             NEW k \in Keys, NEW dg \in Digests, Admit(c, cl, g, k, dg)
      PROVE  saved' = saved \/ Keeps(saved, saved', ids.grant)
  <2> DEFINE d == WithAdmission(cl, g, k, dg)
  <2>1. /\ up /\ chan[c].inst # 0 /\ Classified(cl, chan[c].inst)
        /\ CurrentGrant(g, chan[c].inst) /\ NotRetained(k)
        /\ Appends(d) \/ AppendFails(d)
    BY <1>8 DEF Admit, MayMutate, Authentic
  <2>2. MayAdmit(cl, g, k, chan[c].inst)
    BY <2>1 DEF MayAdmit
  <2>3. Keeps(data, d, ids.grant)
    <3>1. AdmissionKept(d, k, ids.grant)
      BY <1>0, <2>2, AdmissionGood
    <3> HIDE DEF d
    <3> QED BY <3>1 DEF AdmissionKept
  <2> HIDE DEF d
  <2> QED BY <1>a, <2>1, <2>3
<1>9. ASSUME NEW c \in Channels, NEW cl \in Classes,
             \/ BeginAgain(c, cl)
             \/ \E g \in Grants :
                  \/ Lease(c, cl, g)
                  \/ \E k \in Keys, dg \in Digests :
                       AdmitAgain(c, cl, g, k, dg)
      PROVE  saved' = saved
  BY <1>9, SMTT(30) DEF BeginAgain, Lease, AdmitAgain
<1>10. ASSUME NEW c \in Channels,
              \/ Disconnect(c)
              \/ \E i \in Insts : Connect(c, i)
              \/ \E k \in Keys : Reconcile(c, k)
       PROVE  saved' = saved
  BY <1>10 DEF Disconnect, Connect, Reconcile
<1> DEFINE Goal == saved' = saved \/ Keeps(saved, saved', ids.grant)
<1>11. ASSUME NEW c \in Channels, NEW cl \in Classes, NEW g \in Grants,
              \/ Adopt(c, cl, g) \/ Lease(c, cl, g)
              \/ \E k \in Keys, dg \in Digests :
                   AdmitAgain(c, cl, g, k, dg) \/ Admit(c, cl, g, k, dg)
       PROVE  Goal
  BY <1>7, <1>8, <1>9, <1>11, Zenon
<1>12. ASSUME NEW c \in Channels, NEW cl \in Classes,
              BeginAgain(c, cl) \/ Begin(c, cl) \/ Transfer(c, cl)
       PROVE  Goal
  BY <1>4, <1>6, <1>9, <1>12, Zenon
<1>13. ASSUME NEW c \in Channels,
              \/ Disconnect(c)
              \/ \E i \in Insts : Connect(c, i)
              \/ \E listed \in SUBSET Keys : Classify(c, listed)
              \/ \E k \in Keys : Reconcile(c, k)
              \/ \E g \in Grants : Confirm(c, g)
       PROVE  Goal
  BY <1>5, <1>7, <1>10, <1>13, Zenon
<1>14. Start \/ Crash \/ Revoke \/ Restore => Goal
  BY <1>1, <1>2, <1>3
<1> HIDE DEF Goal
<1>15. Goal
  BY <1>11, <1>12, <1>13, <1>14, Zenon DEF Next
<1> QED BY <1>15 DEF Goal

-----------------------------------------------------------------------------
(* The theorems.                                                           *)

\* The inductive invariant holds of every behaviour of the host.
THEOREM FenceInvariant == Spec => []IInv
BY InitIInv, NextIInv, PTL DEF Spec

\* The host's state keeps its shape, in memory and in the journal.
THEOREM TypeCorrect == Spec => []TypeOK
<1>1. IInv => TypeOK
  BY SMTT(30) DEF IInv
<1> QED BY <1>1, FenceInvariant, PTL

\* Ownership is exclusive: begin/3, restore, clone, transfer and revoke leave
\* one authorizing grant at most, and it is the designated instance's.
THEOREM OneOwner == Spec => []OwnerExclusive
<1>1. IInv => OwnerExclusive
  BY DEF IInv, Good, Exclusive, OwnerExclusive
<1> QED BY <1>1, FenceInvariant, PTL

\* Whatever the host replied is in its journal, after any crash.
THEOREM AcceptanceDurable == Spec => []ExposedIsDurable
<1>1. IInv => ExposedIsDurable
  BY SMTT(30) DEF IInv
<1> QED BY <1>1, FenceInvariant, PTL

\* No generation is issued twice, over all restarts.
THEOREM GenerationsUnique == Spec => []GenerationNotReused
<1>1. IInv => GenerationNotReused
  <2> SUFFICES ASSUME IInv, NEW e \in seen, NEW f \in seen, e.gen = f.gen
               PROVE  e.id = f.id
    BY DEF GenerationNotReused
  <2>1. /\ e.id \in Grants /\ f.id \in Grants /\ e.gen > 0
    BY FenceAssumption DEF IInv, TypeOK
  <2>2. saved.grants[e.id].gen = e.gen /\ saved.grants[f.id].gen = f.gen
    BY DEF IInv, ExposedIsDurable
  <2> QED BY <2>1, <2>2, Zenon DEF IInv, Good, Generations
<1> QED BY <1>1, FenceInvariant, PTL

\* admit/5 lets a key's guest write run once, whatever is retried.
THEOREM WriteAtMostOnce == Spec => []WrittenOnce
<1>1. IInv => WrittenOnce
  BY DEF IInv
<1> QED BY <1>1, FenceInvariant, PTL

\* classified/3 passes only a classification that covers all admissions.
THEOREM CoverageCurrent == Spec => []CurrentCoversAll
<1>1. IInv => CurrentCoversAll
  <2>1. IInv => Coverings(data) /\ AdmittedIn(data) = Admitted
    BY DEF IInv, Good, AdmittedIn, Admitted
  <2> QED BY <2>1 DEF Coverings, CurrentCoversAll, Classified
<1> QED BY <1>1, FenceInvariant, PTL

\* No lease outlives its owner's authority.
THEOREM LeasesFenced == Spec => []LeaseIsOwners
<1>1. IInv => LeaseIsOwners
  BY DEF IInv
<1> QED BY <1>1, FenceInvariant, PTL

\* The journal never loses an admission nor goes back a generation.
THEOREM JournalGrows == Spec => JournalOnlyGrows
<1> DEFINE Grows ==
      /\ saved'.gen >= saved.gen
      /\ \A k \in Keys :
           saved.adm[k] # NoAdmission => saved'.adm[k] = saved.adm[k]
<1>1. IInv /\ [Next]_vars => [Grows]_vars
  <2> SUFFICES ASSUME IInv, Next PROVE Grows
    OBVIOUS
  <2>1. saved.gen \in Nat
    BY DEF IInv, TypeOK, DataType
  <2>2. CASE saved' = saved
    BY <2>1, <2>2
  <2>3. CASE Keeps(saved, saved', ids.grant)
    BY <2>3 DEF Keeps
  <2> QED BY <2>2, <2>3, FrameKept
<1> QED BY <1>1, FenceInvariant, PTL DEF Spec, JournalOnlyGrows
=============================================================================
