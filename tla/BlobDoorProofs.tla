-------------------------- MODULE BlobDoorProofs ---------------------------
(***************************************************************************)
(* DoorSpec => []DoorSound, for every set of requests, keys and bodies,    *)
(* every budget and every number of faults, drops and restarts.  DoorInv   *)
(* adds what a request carries past the hash check, and that the store     *)
(* holds an object under its own hash only.  The budget needs sums of file *)
(* sizes: that they split and that one summand can be taken out is proved  *)
(* by a smallest counterexample.                                           *)
(***************************************************************************)
EXTENDS BlobDoor, FiniteSetTheorems, TLAPS

(* ---- sums ---- *)

\* A set of numbers has a least one.
LEMMA LeastNumber ==
  ASSUME NEW T, T \subseteq Nat, T # {}
  PROVE  \E n \in T : \A m \in T : n <= m
<1>1. PICK n \in T : \A m \in T : ~(<<m, n>> \in OpToRel(<, Nat))
  BY Zenon, NatLessThanWellFounded, WFMin
<1>2. \A m \in T : ~(m < n)
  BY <1>1, Zenon DEF OpToRel
<1>3. n \in Nat /\ \A m \in T : m \in Nat
  BY Zenon
<1>4. \A m \in T : n <= m
  BY <1>2, <1>3
<1> QED
  BY Zenon, <1>4

\* A set of subsets of a finite set has one with the fewest elements.
LEMMA SmallestSet ==
  ASSUME NEW K, IsFiniteSet(K), NEW B, B \subseteq SUBSET K, B # {}
  PROVE  \E S \in B : \A T \in B : Cardinality(S) <= Cardinality(T)
<1> DEFINE N == {Cardinality(S) : S \in B}
<1>1. \A S \in B : Cardinality(S) \in Nat
  BY Zenon, FS_Subset, FS_CardinalityType
<1>2. N \subseteq Nat /\ N # {}
  BY Zenon, <1>1
<1>3. PICK n \in N : \A m \in N : n <= m
  BY ONLY <1>2, LeastNumber, Zenon
<1> QED
  BY Zenon, <1>3

\* What sum takes first.
First(S) == CHOOSE k \in S : TRUE
\* The equation a sum obeys: nothing, or one summand and the sum of the others.
Rec(w, f, S) == IF S = {} THEN 0 ELSE w[First(S)] + f[S \ {First(S)}]

\* A subset without one of its elements is smaller.
LEMMA Removed ==
  ASSUME NEW K, IsFiniteSet(K), NEW S \in SUBSET K, NEW k \in S
  PROVE  /\ S \ {k} \in SUBSET K
         /\ Cardinality(S) \in Nat /\ Cardinality(S \ {k}) \in Nat
         /\ Cardinality(S \ {k}) = Cardinality(S) - 1
<1>1. IsFiniteSet(S)
  BY Zenon, FS_Subset
<1> QED
  BY Zenon, <1>1, FS_RemoveElement, FS_CardinalityType

\* The summand taken first is one of the set.
LEMMA FirstIn == ASSUME NEW S, S # {} PROVE First(S) \in S
  BY Zenon DEF First

\* The recursion of SumOver has a solution, by the size of the sets.
LEMMA SumExists ==
  ASSUME NEW K, IsFiniteSet(K), NEW w \in [K -> Nat]
  PROVE  \E f \in [SUBSET K -> Nat] : \A S \in SUBSET K : f[S] = Rec(w, f, S)
<1> DEFINE D(n) == {S \in SUBSET K : Cardinality(S) <= n}
           Good(n) == \E f \in [D(n) -> Nat] : \A S \in D(n) : f[S] = Rec(w, f, S)
           Bad == {n \in Nat : ~Good(n)}
<1>0. \A S \in SUBSET K : IsFiniteSet(S) /\ Cardinality(S) \in Nat
  BY Zenon, FS_Subset, FS_CardinalityType
<1>1. Good(0)
  <2>1. \A S \in D(0) : S = {}
    BY <1>0, FS_EmptySet
  <2> DEFINE f == [S \in D(0) |-> 0]
  <2>2. f \in [D(0) -> Nat] /\ \A S \in D(0) : f[S] = Rec(w, f, S)
    BY Zenon, <2>1 DEF Rec
  <2> QED
    BY Zenon, <2>2
<1>2. ASSUME NEW n \in Nat, Good(n) PROVE Good(n + 1)
  <2>1. PICK f \in [D(n) -> Nat] : \A S \in D(n) : f[S] = Rec(w, f, S)
    BY Zenon, <1>2
  <2> DEFINE g == [S \in D(n + 1) |-> Rec(w, f, S)]
  <2>2. \A S \in D(n + 1) : S # {} => First(S) \in K /\ S \ {First(S)} \in D(n)
    <3> SUFFICES ASSUME NEW S \in D(n + 1), S # {} PROVE First(S) \in K /\ S \ {First(S)} \in D(n)
      BY Zenon
    <3>1. First(S) \in S
      BY Zenon, FirstIn
    <3>2. Cardinality(S) <= n + 1
      BY Zenon
    <3> QED
      BY <3>1, <3>2, Removed
  <2>3. g \in [D(n + 1) -> Nat]
    BY <2>2 DEF Rec
  <2>4. \A S \in D(n) : S \in D(n + 1) /\ g[S] = f[S]
    BY <1>0, <2>1
  <2>5. \A S \in D(n + 1) : g[S] = Rec(w, g, S)
    BY Zenon, <2>2, <2>4 DEF Rec
  <2> QED
    BY Zenon, <2>3, <2>5
<1>3. Bad = {}
  <2> SUFFICES ASSUME Bad # {} PROVE FALSE
    BY Zenon
  <2> HIDE DEF Good
  <2>1. Bad \subseteq Nat
    BY Zenon
  <2>2. PICK b \in Bad : \A m \in Bad : b <= m
    BY <2>1, LeastNumber, Zenon
  <2>3. b # 0 /\ b \in Nat /\ ~Good(b)
    BY Zenon, <1>1, <2>2
  <2>4. b - 1 \in Nat /\ b - 1 \notin Bad
    BY <2>2, <2>3
  <2>5. Good(b - 1)
    BY Zenon, <2>4
  <2>6. Good((b - 1) + 1)
    BY Zenon, <1>2, <2>4, <2>5
  <2>7. (b - 1) + 1 = b
    BY <2>3
  <2> QED
    BY Zenon, <2>3, <2>6, <2>7
<1>4. Cardinality(K) \in Nat /\ D(Cardinality(K)) = SUBSET K
  BY Zenon, FS_Subset, FS_CardinalityType
<1>5. Good(Cardinality(K))
  BY Zenon, <1>3, <1>4
<1> QED
  BY Zenon, <1>4, <1>5

\* What SumOver is: natural, and a solution of the equation.
LEMMA SumDef ==
  ASSUME NEW K, IsFiniteSet(K), NEW w \in [K -> Nat]
  PROVE  /\ SumOver(w) \in [SUBSET K -> Nat]
         /\ \A S \in SUBSET K : SumOver(w)[S] = Rec(w, SumOver(w), S)
<1> DEFINE g == SumOver(w)
<1>1. PICK f \in [SUBSET K -> Nat] : \A S \in SUBSET K : f[S] = Rec(w, f, S)
  BY ZenonT(30), SumExists
<1>2. DOMAIN w = K
  BY Zenon
<1> DEFINE Q(h) == h = [S \in SUBSET DOMAIN w |->
                          IF S = {} THEN 0 ELSE LET k == CHOOSE k \in S : TRUE IN w[k] + h[S \ {k}]]
<1>3. Q(f)
  BY Zenon, <1>1, <1>2 DEF Rec, First
<1>4. g = CHOOSE h : Q(h)
  BY Zenon DEF SumOver
<1> HIDE DEF Q
<1>8. Q(g)
  BY <1>3, <1>4, Zenon
<1> HIDE DEF g
<1> USE DEF Q
<1>5. \A S \in SUBSET K : g[S] = Rec(w, g, S)
  BY Zenon, <1>2, <1>8 DEF Rec, First
<1>6. \A S \in SUBSET K : g[S] = f[S]
  <2> DEFINE B == {S \in SUBSET K : g[S] # f[S]}
  <2> SUFFICES ASSUME B # {} PROVE FALSE
    BY Zenon
  <2>0. B \subseteq SUBSET K
    BY Zenon
  <2>1. PICK S \in B : \A T \in B : Cardinality(S) <= Cardinality(T)
    <3> HIDE DEF B
    <3> QED
      BY <2>0, SmallestSet
  <2>2. S \in SUBSET K /\ g[S] # f[S]
    BY Zenon
  <2>3. S # {}
    BY Zenon, <1>1, <1>5, <2>2 DEF Rec
  <2>4. First(S) \in S
    BY Zenon, <2>3, FirstIn
  <2>5. S \ {First(S)} \in SUBSET K /\ ~(Cardinality(S) <= Cardinality(S \ {First(S)}))
    BY <2>2, <2>4, Removed
  <2>6. g[S \ {First(S)}] = f[S \ {First(S)}]
    BY Zenon, <2>1, <2>5
  <2> QED
    BY ZenonT(30), <1>1, <1>5, <2>2, <2>3, <2>6 DEF Rec
<1>7. g \in [SUBSET K -> Nat]
  BY Zenon, <1>1, <1>2, <1>6, <1>8
<1> QED
  BY Zenon, <1>5, <1>7 DEF g

\* Whichever element is taken first.
LEMMA SumRemove ==
  ASSUME NEW K, IsFiniteSet(K), NEW w \in [K -> Nat], NEW R \in SUBSET K, NEW j \in R
  PROVE  SumOver(w)[R] = w[j] + SumOver(w)[R \ {j}]
<1> DEFINE g == SumOver(w)
           B == {S \in SUBSET K : \E k \in S : g[S] # w[k] + g[S \ {k}]}
<1>1. g \in [SUBSET K -> Nat] /\ \A S \in SUBSET K : g[S] = Rec(w, g, S)
  BY Zenon, SumDef
<1> HIDE DEF g
<1> SUFFICES ASSUME B # {} PROVE FALSE
  BY Zenon DEF g
<1>2. B \subseteq SUBSET K
  BY Zenon
<1>3. PICK S \in B : \A T \in B : Cardinality(S) <= Cardinality(T)
  <2> HIDE DEF B
  <2> QED
    BY Zenon, <1>2, SmallestSet
<1>4. PICK k \in S : g[S] # w[k] + g[S \ {k}]
  BY Zenon
<1> DEFINE c == First(S)
<1>5. S \in SUBSET K /\ c \in S /\ k \in K
  BY Zenon, <1>4, FirstIn
<1>6. g[S] = w[c] + g[S \ {c}]
  BY Zenon, <1>1, <1>5 DEF Rec
<1> HIDE DEF c
<1>7. c # k
  BY Zenon, <1>4, <1>6
<1>8. /\ S \ {c} \in SUBSET K /\ ~(Cardinality(S) <= Cardinality(S \ {c}))
      /\ S \ {k} \in SUBSET K /\ ~(Cardinality(S) <= Cardinality(S \ {k}))
  BY <1>5, Removed
<1>9. S \ {c} \notin B /\ S \ {k} \notin B
  BY Zenon, <1>3, <1>8
<1>10. g[S \ {c}] = w[k] + g[(S \ {c}) \ {k}] /\ g[S \ {k}] = w[c] + g[(S \ {k}) \ {c}]
  BY ZenonT(30), <1>5, <1>7, <1>8, <1>9
<1>11. (S \ {c}) \ {k} = (S \ {k}) \ {c} /\ (S \ {c}) \ {k} \in SUBSET K
  BY Zenon, <1>5
<1>12. w[k] \in Nat /\ w[c] \in Nat /\ g[(S \ {c}) \ {k}] \in Nat
  BY Zenon, <1>1, <1>5, <1>11
<1>13. g[S \ {k}] = w[c] + g[(S \ {c}) \ {k}]
  BY ONLY Zenon, <1>10, <1>11
<1> QED
  BY ONLY <1>4, <1>6, <1>10, <1>12, <1>13

\* The sum depends on the elements only.
LEMMA SumSame ==
  ASSUME NEW K, IsFiniteSet(K), NEW v \in [K -> Nat], NEW w \in [K -> Nat],
         NEW R \in SUBSET K, \A k \in R : v[k] = w[k]
  PROVE  SumOver(v)[R] = SumOver(w)[R]
<1> DEFINE f == SumOver(v)
           g == SumOver(w)
           B == {S \in SUBSET K : (\A k \in S : v[k] = w[k]) /\ f[S] # g[S]}
<1>1. \A S \in SUBSET K : f[S] = Rec(v, f, S) /\ g[S] = Rec(w, g, S)
  <2>1. \A S \in SUBSET K : f[S] = Rec(v, f, S)
    BY Zenon, SumDef
  <2>2. \A S \in SUBSET K : g[S] = Rec(w, g, S)
    BY Zenon, SumDef
  <2> QED
    BY Zenon, <2>1, <2>2
<1> HIDE DEF f, g
<1> SUFFICES ASSUME B # {} PROVE FALSE
  BY Zenon DEF f, g
<1>2. B \subseteq SUBSET K
  BY Zenon
<1>3. PICK S \in B : \A T \in B : Cardinality(S) <= Cardinality(T)
  <2> HIDE DEF B
  <2> QED
    BY Zenon, <1>2, SmallestSet
<1>4. S # {}
  BY Zenon, <1>1 DEF Rec
<1>5. First(S) \in S
  BY Zenon, <1>4, FirstIn
<1>6. S \ {First(S)} \in SUBSET K /\ ~(Cardinality(S) <= Cardinality(S \ {First(S)}))
  BY <1>5, Removed
<1>7. f[S \ {First(S)}] = g[S \ {First(S)}]
  BY Zenon, <1>3, <1>6
<1> QED
  BY Zenon, <1>1, <1>4, <1>5, <1>7 DEF Rec

\* The sum of a set is that of a part and of the rest.
LEMMA SumSplit ==
  ASSUME NEW K, IsFiniteSet(K), NEW w \in [K -> Nat], NEW R \in SUBSET K, NEW P \in SUBSET R
  PROVE  SumOver(w)[R] = SumOver(w)[P] + SumOver(w)[R \ P]
<1> DEFINE g == SumOver(w)
           B == {S \in SUBSET K : S \subseteq R /\ g[R] # g[S] + g[R \ S]}
<1>1. g \in [SUBSET K -> Nat] /\ \A S \in SUBSET K : g[S] = Rec(w, g, S)
  BY Zenon, SumDef
<1>2. \A S \in SUBSET K : \A k \in S : g[S] = w[k] + g[S \ {k}]
  <2> SUFFICES ASSUME NEW S \in SUBSET K, NEW k \in S
               PROVE  g[S] = w[k] + g[S \ {k}]
    BY Zenon
  <2> QED
    BY SumRemove
<1> HIDE DEF g
<1> SUFFICES ASSUME B # {} PROVE FALSE
  BY Zenon DEF g
<1>3. B \subseteq SUBSET K
  BY Zenon
<1>4. PICK S \in B : \A T \in B : Cardinality(S) <= Cardinality(T)
  <2> HIDE DEF B
  <2> QED
    BY Zenon, <1>3, SmallestSet
<1>5. S \subseteq R /\ S \in SUBSET K /\ g[R] # g[S] + g[R \ S]
  BY Zenon
<1>6. S # {}
  <2> SUFFICES ASSUME S = {} PROVE FALSE
    BY Zenon
  <2>1. g[S] = 0 /\ R \ S = R /\ g[R] \in Nat
    BY Zenon, <1>1, <1>5 DEF Rec
  <2> QED
    BY <1>5, <2>1
<1>7. PICK k \in S : TRUE
  BY Zenon, <1>6
<1>8. S \ {k} \in SUBSET K /\ ~(Cardinality(S) <= Cardinality(S \ {k}))
  BY <1>5, Removed
<1>9. S \ {k} \notin B
  BY Zenon, <1>4, <1>8
<1>10. g[R] = g[S \ {k}] + g[R \ (S \ {k})]
  BY Zenon, <1>5, <1>8, <1>9
<1>11. g[S] = w[k] + g[S \ {k}]
  BY Zenon, <1>2, <1>5
<1>12. R \ (S \ {k}) \in SUBSET K /\ k \in R \ (S \ {k}) /\ (R \ (S \ {k})) \ {k} = R \ S /\ R \ S \in SUBSET K
  BY Zenon, <1>5
<1>13. g[R \ (S \ {k})] = w[k] + g[R \ S]
  BY <1>2, <1>12
<1>14. w[k] \in Nat /\ g[S \ {k}] \in Nat /\ g[R \ S] \in Nat
  BY Zenon, <1>1, <1>5, <1>8, <1>12
<1> QED
  BY <1>5, <1>10, <1>11, <1>13, <1>14

(* ---- the cache's bytes ---- *)

\* The keys and the bytes of a cache c.
Held(c) == {k \in Keys : c[k] # NoBody}
Sizes(c) == [k \in Keys |-> IF c[k] = NoBody THEN 0 ELSE Size[c[k]]]
Bytes(c, S) == SumOver(Sizes(c))[S]

\* Sizes are natural numbers.
LEMMA SizesTyped == ASSUME NEW c \in [Keys -> Files] PROVE Sizes(c) \in [Keys -> Nat]
  BY Zenon, DoorSizes, DoorKeys DEF Sizes, Files

\* So are their sums.
LEMMA BytesNat == ASSUME NEW c \in [Keys -> Files], NEW S \in SUBSET Keys PROVE Bytes(c, S) \in Nat
<1>1. Sizes(c) \in [Keys -> Nat]
  BY Zenon, SizesTyped
<1>2. SumOver(Sizes(c)) \in [SUBSET Keys -> Nat]
  BY Zenon, <1>1, DoorKeys, SumDef
<1> QED
  BY Zenon, <1>2 DEF Bytes

\* Files that go take their bytes with them.
LEMMA BytesEvicted ==
  ASSUME NEW c \in [Keys -> Files], NEW d \in [Keys -> Files], NEW gone \in SUBSET Held(c),
         \A k \in Keys : d[k] = IF k \in gone THEN NoBody ELSE c[k]
  PROVE  Held(d) = Held(c) \ gone /\ Bytes(c, Held(c)) = Bytes(c, gone) + Bytes(d, Held(d))
<1>1. Held(d) = Held(c) \ gone /\ Held(d) \in SUBSET Keys /\ Held(c) \in SUBSET Keys
  BY Zenon DEF Held
<1>2. Sizes(c) \in [Keys -> Nat] /\ Sizes(d) \in [Keys -> Nat]
  BY Zenon, SizesTyped
<1>3. \A k \in Held(d) : Sizes(c)[k] = Sizes(d)[k]
  BY Zenon, <1>1 DEF Sizes
<1>4. SumOver(Sizes(c))[Held(d)] = SumOver(Sizes(d))[Held(d)]
  BY <1>1, <1>2, <1>3, DoorKeys, SumSame
<1>5. SumOver(Sizes(c))[Held(c)] = SumOver(Sizes(c))[gone] + SumOver(Sizes(c))[Held(c) \ gone]
  BY <1>1, <1>2, DoorKeys, SumSplit
<1> QED
  BY Zenon, <1>1, <1>4, <1>5 DEF Bytes

\* A file that comes adds its own.
LEMMA BytesFilled ==
  ASSUME NEW c \in [Keys -> Files], NEW d \in [Keys -> Files], NEW gone \in SUBSET Held(c),
         NEW j \in Keys, NEW b \in Bodies, j \notin Held(c),
         \A k \in Keys : d[k] = IF k = j THEN b ELSE IF k \in gone THEN NoBody ELSE c[k]
  PROVE  Bytes(c, Held(c)) + Size[b] = Bytes(c, gone) + Bytes(d, Held(d))
<1>1. /\ Held(d) = (Held(c) \ gone) \cup {j} /\ Held(d) \in SUBSET Keys /\ Held(c) \in SUBSET Keys
      /\ Held(d) \ {j} = Held(c) \ gone /\ Held(c) \ gone \in SUBSET Keys
  BY Zenon, DoorKeys DEF Held
<1>2. Sizes(c) \in [Keys -> Nat] /\ Sizes(d) \in [Keys -> Nat]
  BY Zenon, SizesTyped
<1>3. \A k \in Held(c) \ gone : Sizes(c)[k] = Sizes(d)[k]
  BY Zenon, <1>1 DEF Sizes
<1>4. SumOver(Sizes(c))[Held(c) \ gone] = SumOver(Sizes(d))[Held(c) \ gone]
  BY <1>1, <1>2, <1>3, DoorKeys, SumSame
<1>5. SumOver(Sizes(c))[Held(c)] = SumOver(Sizes(c))[gone] + SumOver(Sizes(c))[Held(c) \ gone]
  BY <1>1, <1>2, DoorKeys, SumSplit
<1>6. j \in Held(d)
  BY Zenon, <1>1
<1>7. SumOver(Sizes(d))[Held(d)] = Sizes(d)[j] + SumOver(Sizes(d))[Held(d) \ {j}]
  <2>1. IsFiniteSet(Keys) /\ Held(d) \in SUBSET Keys
    BY Zenon, <1>1, DoorKeys
  <2> QED
    BY ONLY <1>2, <1>6, <2>1, SumRemove
<1>8. Sizes(d)[j] = Size[b] /\ Size[b] \in Nat
  BY Zenon, DoorKeys, DoorSizes DEF Sizes
<1>9. /\ SumOver(Sizes(c))[gone] \in Nat /\ SumOver(Sizes(c))[Held(c) \ gone] \in Nat
  <2>1. gone \in SUBSET Keys
    BY Zenon, <1>1
  <2> QED
    BY Zenon, <1>1, <2>1, BytesNat DEF Bytes
<1>10. SumOver(Sizes(d))[Held(d)] = Size[b] + SumOver(Sizes(c))[Held(c) \ gone]
  BY ONLY Zenon, <1>1, <1>4, <1>7, <1>8
<1> QED
  BY ONLY <1>5, <1>8, <1>9, <1>10 DEF Bytes

\* The model's own terms, now and after a step.
LEMMA TotalIsBytes ==
  /\ Cached = Held(cache) /\ Cached' = Held(cache')
  /\ \A S : Total(S) = Bytes(cache, S)
  /\ Total(Cached)' = Bytes(cache', Held(cache'))
  BY Zenon DEF Cached, Held, Total, FileSizes, Bytes, Sizes

(* ---- the invariant ---- *)

\* Where a request may be; at work it has a file in incoming/; what a menu is.
DoorPcs == {"new", "pump", "head", "store", "confirm", "promote", "open", "fetch", "tee", "commit", "done"}
Working == {"pump", "head", "store", "confirm", "promote", "tee", "commit"}
DoorMenuTypes == [asks : [Reqs -> [op : {"put", "get", "none"}, key : Keys, body : Files]],
                  stored : [Keys -> Files], faults : Nat, drops : Nat, restarts : Nat]

\* The door's state has its shape, and what is uploaded is something.
DoorTypes ==
    /\ canon \in [Keys -> Files] /\ accepted \in [Keys -> Files]
    /\ cache \in [Keys -> Files] /\ used \in Nat /\ drifted \in BOOLEAN
    /\ req \in [Reqs -> [pc : DoorPcs, body : Files, reply : Nat]] /\ incoming \subseteq Reqs
    /\ doorMenu \in DoorMenuTypes
    /\ \A r \in Reqs : Ask(r).op = "put" => Ask(r).body # NoBody

\* What the request uploads may be stored under its key.
Vetted(r) == Ask(r).op = "put" /\ (Key(r) \in Objects => HashOf[Ask(r).body] = Key(r))

\* What holds of a request at a step: an upload past the hash check was vetted,
\* one that is promoted is in the store, and a fill is the store's object.
Fitting(r, pc, body, store) ==
    /\ pc = "pump" => Ask(r).op = "put"
    /\ pc \in {"head", "store", "confirm", "promote"} => Vetted(r)
    /\ pc = "promote" => store[Key(r)] # NoBody
    /\ pc \in {"tee", "commit"} => body # NoBody /\ (Key(r) \in Objects => body = store[Key(r)])

\* The store holds an object under its own hash only.
CanonHashed == \A k \in Objects : canon[k] # NoBody => HashOf[canon[k]] = k

\* The inductive invariant.  The four properties say nothing of a request under
\* way, and both promote and commit_fill put into the cache what a request carries.
DoorInv ==
    /\ DoorTypes /\ CanonHashed
    /\ \A r \in Reqs : Fitting(r, req[r].pc, req[r].body, canon)
    /\ AcceptedIsCanonical /\ CacheIsWriteThrough /\ CacheWithinBudget /\ IncomingHasOwner

\* A menu is spent, never rewritten.
LEMMA MenuKept ==
  ASSUME DoorTypes, \/ Fault \/ Well
                    \/ doorMenu.drops > 0 /\ doorMenu' = [doorMenu EXCEPT !.drops = @ - 1]
                    \/ doorMenu.restarts > 0 /\ doorMenu' = [doorMenu EXCEPT !.restarts = @ - 1]
  PROVE  doorMenu' \in DoorMenuTypes /\ \A r : Ask(r)' = Ask(r)
  BY SMTT(20) DEF DoorTypes, DoorMenuTypes, Fault, Well, Ask

\* What a request asks for.
LEMMA AskTyped ==
  ASSUME DoorTypes, NEW r \in Reqs
  PROVE  Key(r) \in Keys /\ Ask(r).body \in Files /\ (Ask(r).op = "put" => Ask(r).body \in Bodies)
<1>1. doorMenu.asks[r] \in [op : {"put", "get", "none"}, key : Keys, body : Files]
  BY Zenon DEF DoorTypes, DoorMenuTypes
<1> QED
  BY Zenon, <1>1 DEF DoorTypes, Key, Ask, Files

\* Only r moves.
LEMMA NowMoves ==
  ASSUME DoorTypes, NEW r \in Reqs, NEW pc \in DoorPcs, NEW body \in Files, NEW reply \in Nat,
         Now(r, pc, body, reply)
  PROVE  /\ req' \in [Reqs -> [pc : DoorPcs, body : Files, reply : Nat]]
         /\ req'[r].pc = pc /\ req'[r].body = body
         /\ \A q \in Reqs : q # r => req'[q] = req[q]
  BY Zenon DEF DoorTypes, Now

\* An object is stored under its own hash, and no other body has it.
LEMMA SameObject ==
  ASSUME DoorTypes, CanonHashed, NEW r \in Reqs, Vetted(r), Key(r) \in Objects, canon[Key(r)] # NoBody
  PROVE  canon[Key(r)] = Ask(r).body
<1>1. Key(r) \in Keys /\ Ask(r).body \in Bodies
  BY Zenon, AskTyped DEF Vetted
<1>2. canon[Key(r)] \in Bodies
  BY Zenon, <1>1 DEF DoorTypes, Files
<1>3. HashOf[canon[Key(r)]] = Key(r) /\ HashOf[Ask(r).body] = Key(r)
  BY Zenon DEF CanonHashed, Vetted
<1> QED
  BY <1>1, <1>2, <1>3, NoCollisions

\* A step of one request that leaves the cache alone: it may store what it
\* uploads, once that is vetted.
LEMMA DoorStep ==
  ASSUME DoorInv, NEW r \in Reqs, NEW pc \in DoorPcs, NEW body \in Files, NEW reply \in Nat,
         Now(r, pc, body, reply), Fault \/ Well,
         canon' = canon \/ (Vetted(r) /\ canon' = [canon EXCEPT ![Key(r)] = Ask(r).body]),
         Fitting(r, pc, body, canon'),
         UNCHANGED <<DiskCache, accepted>>,
         incoming' \subseteq incoming \cup {r}, r \in incoming' => pc \in Working
  PROVE  DoorInv'
<1>1. DoorTypes /\ CanonHashed
  BY Zenon DEF DoorInv
<1>2. doorMenu' \in DoorMenuTypes /\ \A q : Ask(q)' = Ask(q) /\ Key(q)' = Key(q) /\ (Vetted(q)' <=> Vetted(q))
  BY <1>1, MenuKept DEF Key, Vetted, Objects
<1>3. /\ req' \in [Reqs -> [pc : DoorPcs, body : Files, reply : Nat]]
      /\ req'[r].pc = pc /\ req'[r].body = body
      /\ \A q \in Reqs : q # r => req'[q] = req[q]
  BY Zenon, <1>1, NowMoves
<1>4. /\ canon' \in [Keys -> Files]
      /\ \A k \in Keys : canon[k] # NoBody => canon'[k] # NoBody
      /\ \A k \in Objects : canon[k] # NoBody => canon'[k] = canon[k]
      /\ CanonHashed'
  <2>1. CASE canon' = canon
    BY Zenon, <1>1, <2>1 DEF DoorTypes, CanonHashed, Objects
  <2>2. CASE Vetted(r) /\ canon' = [canon EXCEPT ![Key(r)] = Ask(r).body]
    <3>1. Key(r) \in Keys /\ Ask(r).body \in Bodies /\ Ask(r).body # NoBody /\ Ask(r).body \in Files
      BY <1>1, <2>2, AskTyped, DoorKeys DEF Vetted, Files
    <3>2. canon' \in [Keys -> Files] /\ \A k \in Keys : canon'[k] = IF k = Key(r) THEN Ask(r).body ELSE canon[k]
      BY <1>1, <2>2, <3>1 DEF DoorTypes
    <3>3. Key(r) \in Objects /\ canon[Key(r)] # NoBody => canon[Key(r)] = Ask(r).body
      BY <1>1, <2>2, SameObject
    <3>4. Key(r) \in Objects => HashOf[Ask(r).body] = Key(r)
      BY Zenon, <2>2 DEF Vetted
    <3>5. \A k \in Objects : k \in Keys
      BY Zenon DEF Objects
    <3>6. Objects' = Objects
      BY Zenon DEF Objects
    <3>7. CanonHashed'
      BY <1>1, <3>2, <3>4, <3>5, <3>6 DEF CanonHashed
    <3> QED
      BY <3>1, <3>2, <3>3, <3>5, <3>7
  <2> QED
    BY Zenon, <2>1, <2>2
<1>5. DoorTypes'
  BY <1>1, <1>2, <1>3, <1>4 DEF DoorTypes, DiskCache
<1>6. ASSUME NEW q \in Reqs PROVE Fitting(q, req[q].pc, req[q].body, canon)'
  <2>1. CASE q = r
    BY Zenon, <1>2, <1>3, <2>1 DEF Fitting, Objects
  <2>2. CASE q # r
    <3>1. Fitting(q, req[q].pc, req[q].body, canon) /\ Key(q) \in Keys
      BY Zenon, <1>1, AskTyped DEF DoorInv
    <3> QED
      BY <1>2, <1>3, <1>4, <2>2, <3>1 DEF Fitting, Objects
  <2> QED
    BY Zenon, <2>1, <2>2
<1>7. AcceptedIsCanonical' /\ CacheIsWriteThrough'
  BY Zenon, <1>4 DEF DoorInv, AcceptedIsCanonical, CacheIsWriteThrough, DiskCache, Objects
<1>8. CacheWithinBudget'
  BY Zenon, TotalIsBytes DEF DoorInv, CacheWithinBudget, DiskCache
<1>9. IncomingHasOwner'
  BY Zenon, <1>1, <1>3 DEF DoorInv, DoorTypes, IncomingHasOwner, Working
<1>10. incoming' \subseteq Reqs
  BY Zenon, <1>1 DEF DoorTypes
<1> QED
  BY <1>4, <1>5, <1>6, <1>7, <1>8, <1>9 DEF DoorInv

(* ---- what changes the cache ---- *)

\* What an eviction leaves of `used`.
LEMMA FreedBytes ==
  ASSUME DoorTypes, NEW gone \in SUBSET Cached
  PROVE  /\ Freed(gone) \in Nat
         /\ used = Total(Cached) => Freed(gone) + Bytes(cache, gone) = used /\ Freed(gone) <= used
<1>1. cache \in [Keys -> Files] /\ used \in Nat
  BY Zenon DEF DoorTypes
<1>2. gone \in SUBSET Keys /\ Cached = Held(cache) /\ gone \in SUBSET Held(cache) /\ Cached \in SUBSET Keys
  BY Zenon DEF Held, Cached
<1>3. Total(gone) = Bytes(cache, gone) /\ Total(Cached) = Bytes(cache, Held(cache))
  BY Zenon, <1>2, TotalIsBytes
<1>4. Bytes(cache, gone) \in Nat
  BY Zenon, <1>1, <1>2, BytesNat
<1>5. Evicted(gone) \in [Keys -> Files] /\ \A k \in Keys : Evicted(gone)[k] = IF k \in gone THEN NoBody ELSE cache[k]
  BY Zenon, <1>1 DEF Evicted, Files
<1>6. Bytes(cache, Held(cache)) = Bytes(cache, gone) + Bytes(Evicted(gone), Held(Evicted(gone)))
  BY <1>1, <1>2, <1>5, BytesEvicted
<1>7. Bytes(Evicted(gone), Held(Evicted(gone))) \in Nat
  <2>1. Held(Evicted(gone)) \in SUBSET Keys
    BY Zenon DEF Held
  <2> QED
    BY Zenon, <1>5, <2>1, BytesNat
<1> QED
  BY ONLY <1>1, <1>3, <1>4, <1>6, <1>7 DEF Freed

\* Files go, and are counted unless the request was dropped.
EvictedStep(gone) ==
    /\ cache' = Evicted(gone)
    /\ drifted' \/ (drifted' = drifted /\ used' = Freed(gone))
    /\ used' \in Nat /\ drifted' \in BOOLEAN /\ overdrawn' = overdrawn

\* A file comes for those that went.
FilledStep(gone, k, body) ==
    /\ cache[k] = NoBody /\ cache' = Filled(gone, k, body)
    /\ \/ drifted'
       \/ /\ drifted' = drifted /\ used' = Freed(gone) + Size[body]
          /\ overdrawn' \/ (overdrawn' = overdrawn /\ used' <= Budget)
    /\ used' \in Nat /\ drifted' \in BOOLEAN

\* All that happens to the cache: nothing, or one of the two.
CacheStep(k, body) ==
    \/ UNCHANGED DiskCache
    \/ \E gone \in SUBSET Cached : EvictedStep(gone) \/ FilledStep(gone, k, body)

\* The cache as the invariant wants it.
CacheGood ==
    /\ cache \in [Keys -> Files] /\ used \in Nat
    /\ drifted \in BOOLEAN
    /\ CacheIsWriteThrough /\ CacheWithinBudget

\* A cache that no step touches stays so.
LEMMA CacheUntouched == ASSUME DoorInv, UNCHANGED DiskCache, UNCHANGED canon PROVE CacheGood'
<1>1. DoorTypes /\ CacheIsWriteThrough /\ CacheWithinBudget
  BY Zenon DEF DoorInv
<1> QED
  BY Zenon, <1>1, TotalIsBytes DEF DoorTypes, CacheGood, DiskCache, CacheIsWriteThrough, CacheWithinBudget, Objects

\* The cache keeps to its budget and to the store, whichever files go.
LEMMA CacheKept ==
  ASSUME DoorInv, NEW k \in Keys, NEW body \in Bodies,
         k \in Objects => body = canon[k],
         CacheStep(k, body), UNCHANGED canon
  PROVE  CacheGood'
<1>1. DoorTypes /\ CanonHashed /\ CacheIsWriteThrough /\ CacheWithinBudget
  BY Zenon DEF DoorInv
<1>2. /\ cache \in [Keys -> Files] /\ used \in Nat /\ canon \in [Keys -> Files]
      /\ drifted \in BOOLEAN /\ Budget \in Nat
  BY Zenon, <1>1, DoorSizes DEF DoorTypes
<1>3. CASE UNCHANGED DiskCache
  BY Zenon, <1>3, CacheUntouched
<1>4. ASSUME NEW gone \in SUBSET Cached, EvictedStep(gone)
      PROVE  CacheGood'
  <2>1. /\ cache' \in [Keys -> Files]
        /\ \A x \in Keys : cache'[x] = IF x \in gone THEN NoBody ELSE cache[x]
    BY Zenon, <1>2, <1>4 DEF EvictedStep, Evicted, Files
  <2>2. CacheIsWriteThrough'
    BY Zenon, <1>1, <2>1 DEF CacheIsWriteThrough, Objects
  <2>3. CacheWithinBudget'
    <3> SUFFICES ASSUME ~drifted' PROVE used' = Total(Cached)' /\ (~overdrawn' => used' <= Budget)
      BY Zenon DEF CacheWithinBudget
    <3>1. ~drifted /\ used' = Freed(gone) /\ overdrawn' = overdrawn
      BY <1>4 DEF EvictedStep
    <3>2. used = Total(Cached) /\ (~overdrawn => used <= Budget)
      BY Zenon, <1>1, <3>1 DEF CacheWithinBudget
    <3>3. gone \in SUBSET Held(cache) /\ Total(Cached) = Bytes(cache, Held(cache))
      BY Zenon, TotalIsBytes
    <3>4. Bytes(cache, Held(cache)) = Bytes(cache, gone) + Bytes(cache', Held(cache'))
      BY <1>2, <2>1, <3>3, BytesEvicted
    <3>5. Freed(gone) \in Nat /\ Freed(gone) + Bytes(cache, gone) = used /\ Freed(gone) <= used
      BY Zenon, <1>1, <3>2, FreedBytes
    <3>6. Bytes(cache, gone) \in Nat /\ Bytes(cache', Held(cache')) \in Nat
      <4>1. gone \in SUBSET Keys /\ Held(cache') \in SUBSET Keys
        BY Zenon DEF Held, Cached
      <4> QED
        BY <1>2, <2>1, <4>1, BytesNat
    <3>7. Freed(gone) = Bytes(cache', Held(cache'))
      BY ONLY <1>2, <3>2, <3>3, <3>4, <3>5, <3>6
    <3> QED
      BY ONLY <1>2, <3>1, <3>2, <3>5, <3>7, TotalIsBytes
  <2> QED
    BY <1>2, <1>4, <2>1, <2>2, <2>3 DEF EvictedStep, CacheGood
<1>5. ASSUME NEW gone \in SUBSET Cached, FilledStep(gone, k, body)
      PROVE  CacheGood'
  <2>1. /\ cache' \in [Keys -> Files]
        /\ \A x \in Keys : cache'[x] = IF x = k THEN body ELSE IF x \in gone THEN NoBody ELSE cache[x]
    BY Zenon, <1>2, <1>5 DEF FilledStep, Filled, Files
  <2>2. CacheIsWriteThrough'
    <3>1. body # NoBody
      BY Zenon, DoorKeys
    <3> QED
      BY <1>1, <2>1, <3>1 DEF CacheIsWriteThrough, CanonHashed, Objects
  <2>3. CacheWithinBudget'
    <3> SUFFICES ASSUME ~drifted' PROVE used' = Total(Cached)' /\ (~overdrawn' => used' <= Budget)
      BY Zenon DEF CacheWithinBudget
    <3>1. /\ ~drifted /\ used' = Freed(gone) + Size[body]
          /\ ~overdrawn' => used' <= Budget
      BY <1>5 DEF FilledStep
    <3>2. used = Total(Cached)
      BY Zenon, <1>1, <3>1 DEF CacheWithinBudget
    <3>3. gone \in SUBSET Held(cache) /\ Total(Cached) = Bytes(cache, Held(cache)) /\ k \notin Held(cache)
      BY <1>5, TotalIsBytes DEF FilledStep, Held
    <3>4. Bytes(cache, Held(cache)) + Size[body] = Bytes(cache, gone) + Bytes(cache', Held(cache'))
      BY SMTT(20), <1>2, <2>1, <3>3, BytesFilled
    <3>5. Freed(gone) \in Nat /\ Freed(gone) + Bytes(cache, gone) = used /\ Size[body] \in Nat
      BY Zenon, <1>1, <3>2, FreedBytes, DoorSizes
    <3>6. Bytes(cache, gone) \in Nat /\ Bytes(cache', Held(cache')) \in Nat
      <4>1. gone \in SUBSET Keys /\ Held(cache') \in SUBSET Keys
        BY Zenon DEF Held, Cached
      <4> QED
        BY <1>2, <2>1, <4>1, BytesNat
    <3>7. used' = Bytes(cache', Held(cache'))
      BY ONLY <1>2, <3>1, <3>2, <3>3, <3>4, <3>5, <3>6
    <3> QED
      BY ONLY <3>1, <3>7, TotalIsBytes
  <2> QED
    BY <1>5, <2>1, <2>2, <2>3 DEF FilledStep, CacheGood
<1> QED
  BY <1>3, <1>4, <1>5 DEF CacheStep

\* Admission, and a request that is dropped in it, are such steps.
LEMMA AdmitIsCacheStep ==
  ASSUME DoorInv, NEW k \in Keys, NEW body \in Bodies, Admit(k, body)
  PROVE  CacheStep(k, body) /\ (Fault \/ Well)
<1>1. DoorTypes /\ CacheWithinBudget
  BY Zenon DEF DoorInv
<1>2. /\ used \in Nat /\ drifted \in BOOLEAN
      /\ Budget \in Nat /\ Size[body] \in Nat
  BY Zenon, <1>1, DoorSizes DEF DoorTypes
<1>3. CASE cache[k] # NoBody \/ Size[body] > Budget
  BY Zenon, <1>3 DEF Admit, CacheStep, Keep
<1>4. CASE ~(cache[k] # NoBody \/ Size[body] > Budget)
  <2>1. ASSUME NEW gone \in Evictions(Size[body], {}), Well,
               cache' = Filled(gone, k, body), used' = Freed(gone) + Size[body],
               UNCHANGED <<overdrawn, drifted>>
        PROVE  CacheStep(k, body)
    <3>1. gone \in SUBSET Cached /\ (gone = Cached \/ Fits(gone, Size[body]))
      BY Zenon DEF Evictions, Evicting
    <3>2. /\ Freed(gone) \in Nat
          /\ used = Total(Cached) => Freed(gone) + Bytes(cache, gone) = used
      BY <1>1, <3>1, FreedBytes
    <3>3. CASE drifted
      BY <1>2, <1>4, <2>1, <3>1, <3>2, <3>3 DEF CacheStep, FilledStep
    <3>4. CASE ~drifted
      <4>1. used' <= Budget
        <5>1. CASE Fits(gone, Size[body])
          BY Zenon, <2>1, <5>1 DEF Fits
        <5>2. CASE gone = Cached
          <6>1. Total(gone) = used /\ Freed(gone) = 0
            BY <1>1, <1>2, <3>4, <5>2 DEF CacheWithinBudget, Freed
          <6> QED
            BY <1>2, <1>4, <2>1, <6>1
        <5> QED
          BY Zenon, <3>1, <5>1, <5>2
      <4> QED
        BY <1>2, <1>4, <2>1, <3>1, <3>2, <4>1 DEF CacheStep, FilledStep
    <3> QED
      BY Zenon, <3>3, <3>4
  <2>2. ASSUME NEW stuck \in Cached, NEW gone \in Evictions(Size[body], {stuck}),
               cache' = Filled(gone, k, body), used' = Freed(gone) + Size[body],
               overdrawn' = TRUE, UNCHANGED drifted
        PROVE  CacheStep(k, body)
    <3>1. gone \in SUBSET Cached
      BY Zenon DEF Evictions, Evicting
    <3>2. Freed(gone) \in Nat
      BY Zenon, <1>1, <3>1, FreedBytes
    <3> QED
      BY <1>2, <1>4, <2>2, <3>1, <3>2 DEF CacheStep, FilledStep
  <2>3. ASSUME NEW gone \in {{}} \cup Evictions(Size[body], {}), cache' = Evicted(gone), used' = Freed(gone),
               UNCHANGED <<overdrawn, drifted>>
        PROVE  CacheStep(k, body)
    <3>1. gone \in SUBSET Cached
      BY Zenon DEF Evictions, Evicting
    <3>2. Freed(gone) \in Nat
      BY Zenon, <1>1, <3>1, FreedBytes
    <3> QED
      BY <1>2, <2>3, <3>1, <3>2 DEF CacheStep, EvictedStep
  <2> QED
    BY ZenonT(30), <1>4, <2>1, <2>2, <2>3 DEF Admit
<1>5. Fault \/ Well
  BY Zenon DEF Admit
<1> QED
  BY Zenon, <1>3, <1>4, <1>5

\* A request ends, and is accepted only when the store has what it uploads.
LEMMA DoorEnd ==
  ASSUME DoorInv, NEW r \in Reqs, NEW body \in Files, NEW reply \in Nat,
         Now(r, "done", body, reply), Unlink(r), UNCHANGED canon, CacheGood',
         Fault \/ Well \/ (doorMenu.drops > 0 /\ doorMenu' = [doorMenu EXCEPT !.drops = @ - 1]),
         \/ accepted' = accepted
         \/ /\ accepted' = [accepted EXCEPT ![Key(r)] = Ask(r).body]
            /\ Vetted(r) /\ canon[Key(r)] # NoBody
  PROVE  DoorInv'
<1>1. DoorTypes /\ CanonHashed /\ AcceptedIsCanonical
  BY Zenon DEF DoorInv
<1>2. doorMenu' \in DoorMenuTypes /\ \A q : Ask(q)' = Ask(q) /\ Key(q)' = Key(q) /\ (Vetted(q)' <=> Vetted(q))
  BY <1>1, MenuKept DEF Key, Vetted, Objects
<1>3. /\ req' \in [Reqs -> [pc : DoorPcs, body : Files, reply : Nat]]
      /\ req'[r].pc = "done"
      /\ \A q \in Reqs : q # r => req'[q] = req[q]
  <2>1. "done" \in DoorPcs
    BY Zenon DEF DoorPcs
  <2> QED
    BY Zenon, <1>1, <2>1, NowMoves
<1>4. accepted' \in [Keys -> Files] /\ AcceptedIsCanonical'
  <2>1. CASE accepted' = accepted
    BY Zenon, <1>1, <2>1 DEF DoorTypes, AcceptedIsCanonical, Objects
  <2>2. CASE /\ accepted' = [accepted EXCEPT ![Key(r)] = Ask(r).body]
             /\ Vetted(r) /\ canon[Key(r)] # NoBody
    <3>1. Key(r) \in Keys /\ Ask(r).body \in Files
      BY <1>1, AskTyped
    <3>2. Key(r) \in Objects => canon[Key(r)] = Ask(r).body
      BY <1>1, <2>2, SameObject
    <3>3. accepted' \in [Keys -> Files] /\ \A k \in Keys : accepted'[k] = IF k = Key(r) THEN Ask(r).body ELSE accepted[k]
      BY <1>1, <2>2, <3>1 DEF DoorTypes
    <3> QED
      BY <1>1, <3>2, <3>3 DEF AcceptedIsCanonical, Objects
  <2> QED
    BY Zenon, <2>1, <2>2
<1>5. incoming' \subseteq Reqs /\ IncomingHasOwner'
  BY <1>1, <1>3 DEF DoorInv, DoorTypes, IncomingHasOwner, Unlink
<1>6. DoorTypes' /\ CanonHashed'
  BY <1>1, <1>2, <1>3, <1>4, <1>5 DEF DoorTypes, CacheGood, CanonHashed, Objects
<1>7. ASSUME NEW q \in Reqs PROVE Fitting(q, req[q].pc, req[q].body, canon)'
  <2>1. CASE q = r
    BY Zenon, <1>3, <2>1 DEF Fitting
  <2>2. CASE q # r
    <3>1. Fitting(q, req[q].pc, req[q].body, canon)
      BY Zenon DEF DoorInv
    <3> QED
      BY <1>2, <1>3, <2>2, <3>1 DEF Fitting, Objects
  <2> QED
    BY Zenon, <2>1, <2>2
<1> QED
  BY <1>4, <1>5, <1>6, <1>7 DEF DoorInv, CacheGood

(* ---- the steps of the door ---- *)

\* A request that neither stores nor is accepted.
LEMMA DoorQuiet ==
  ASSUME DoorInv, NEW r \in Reqs, NEW pc \in DoorPcs, NEW body \in Files, NEW reply \in Nat,
         Now(r, pc, body, reply), Fault \/ Well, UNCHANGED Stores,
         Fitting(r, pc, body, canon),
         incoming' \subseteq incoming \cup {r}, r \in incoming' => pc \in Working
  PROVE  DoorInv'
<1>1. canon' = canon /\ UNCHANGED <<DiskCache, accepted>> /\ Fitting(r, pc, body, canon')
  BY Zenon DEF Stores
<1> QED
  BY ONLY DoorInv, r \in Reqs, pc \in DoorPcs, body \in Files, reply \in Nat, Now(r, pc, body, reply),
          Fault \/ Well, incoming' \subseteq incoming \cup {r}, r \in incoming' => pc \in Working, <1>1, DoorStep

\* A request that ends so.
LEMMA DoorQuietEnd ==
  ASSUME DoorInv, NEW r \in Reqs, NEW body \in Files, NEW reply \in Nat,
         Now(r, "done", body, reply), Fault \/ Well, UNCHANGED Stores,
         Unlink(r) \/ (UNCHANGED incoming /\ r \notin incoming)
  PROVE  DoorInv'
<1>1. "done" \in DoorPcs /\ Fitting(r, "done", body, canon)
  BY Zenon DEF DoorPcs, Fitting
<1>2. incoming' \subseteq incoming \cup {r} /\ (r \in incoming' => "done" \in Working)
  BY Zenon DEF Unlink
<1> QED
  BY Zenon, <1>1, <1>2, DoorQuiet

\* The fields of a request.
LEMMA ReqFields ==
  ASSUME DoorInv, NEW r \in Reqs
  PROVE  /\ req[r].pc \in DoorPcs /\ req[r].body \in Files /\ req[r].reply \in Nat
         /\ Fitting(r, req[r].pc, req[r].body, canon)
         /\ r \in incoming => req[r].pc \in Working
         /\ Key(r) \in Keys /\ Ask(r).body \in Files /\ (Ask(r).op = "put" => Ask(r).body \in Bodies)
         /\ canon \in [Keys -> Files] /\ cache \in [Keys -> Files]
<1>1. DoorTypes /\ IncomingHasOwner /\ Fitting(r, req[r].pc, req[r].body, canon)
  BY Zenon DEF DoorInv
<1>2. req[r] \in [pc : DoorPcs, body : Files, reply : Nat]
  BY Zenon, <1>1 DEF DoorTypes
<1>3. r \in incoming => req[r].pc \in Working
  BY Zenon, <1>1 DEF IncomingHasOwner, Working
<1> QED
  BY <1>1, <1>2, <1>3, AskTyped DEF DoorTypes

\* Each handler's step keeps the invariant.
LEMMA PutOneKeeps == ASSUME DoorInv, NEW r \in Reqs, put_one(r) PROVE DoorInv'
<1>1. req[r].pc = "new" /\ Ask(r).op = "put" /\ UNCHANGED Stores
  BY Zenon DEF put_one, ReqAt
<1>2. req[r].body \in Files /\ req[r].reply \in Nat /\ r \notin incoming
  BY Zenon, <1>1, ReqFields DEF Working
<1>3. CASE Well /\ incoming' = incoming \cup {r} /\ Step(r, "pump")
  <2>1. Now(r, "pump", req[r].body, req[r].reply) /\ "pump" \in DoorPcs /\ "pump" \in Working
    BY Zenon, <1>3 DEF Step, DoorPcs, Working
  <2>2. Fitting(r, "pump", req[r].body, canon)
    BY Zenon, <1>1 DEF Fitting
  <2> QED
    BY <1>1, <1>2, <1>3, <2>1, <2>2, DoorQuiet
<1>4. ASSUME NEW code \in Nat, Fault \/ Well, Respond(r, code), UNCHANGED incoming PROVE DoorInv'
  BY <1>1, <1>2, <1>4, DoorQuietEnd DEF Respond
<1> QED
  BY <1>3, <1>4 DEF put_one

\* Only a body with the right hash, or an outboard's, goes on.
LEMMA PumpKeeps == ASSUME DoorInv, NEW r \in Reqs, pump_body(r) PROVE DoorInv'
<1>1. req[r].pc = "pump" /\ UNCHANGED Stores
  BY Zenon DEF pump_body, ReqAt
<1>2. /\ req[r].body \in Files /\ req[r].reply \in Nat /\ Key(r) \in Keys
      /\ Ask(r).op = "put"
  BY Zenon, <1>1, ReqFields DEF Fitting
<1>3. CASE /\ Key(r) \in OutboardKeys \/ HashOf[Ask(r).body] = Key(r)
           /\ Well /\ Step(r, "head") /\ UNCHANGED incoming
  <2>1. Now(r, "head", req[r].body, req[r].reply) /\ "head" \in DoorPcs /\ "head" \in Working
    BY Zenon, <1>3 DEF Step, DoorPcs, Working
  <2>2. Fitting(r, "head", req[r].body, canon)
    BY Zenon, <1>2, <1>3 DEF Fitting, Vetted, Objects
  <2> QED
    BY <1>1, <1>2, <1>3, <2>1, <2>2, DoorQuiet
<1>4. ASSUME NEW code \in Nat, Fault \/ Well, Respond(r, code), Unlink(r) PROVE DoorInv'
  BY <1>1, <1>2, <1>4, DoorQuietEnd DEF Respond
<1> QED
  BY <1>3, <1>4 DEF pump_body

\* What the store already has is promoted.
LEMMA PutFileKeeps == ASSUME DoorInv, NEW r \in Reqs, put_file(r) PROVE DoorInv'
<1>1. req[r].pc = "head" /\ UNCHANGED Stores
  BY Zenon DEF put_file, ReqAt
<1>2. req[r].body \in Files /\ req[r].reply \in Nat /\ Vetted(r)
  BY Zenon, <1>1, ReqFields DEF Fitting
<1>3. CASE canon[Key(r)] # NoBody /\ Well /\ Now(r, "promote", req[r].body, 200) /\ UNCHANGED incoming
  <2>1. "promote" \in DoorPcs /\ "promote" \in Working /\ Fitting(r, "promote", req[r].body, canon)
    BY Zenon, <1>2, <1>3 DEF DoorPcs, Working, Fitting
  <2> QED
    BY <1>1, <1>2, <1>3, <2>1, DoorQuiet
<1>4. CASE (Fault \/ Well) /\ Step(r, "store") /\ UNCHANGED incoming
  <2>1. "store" \in DoorPcs /\ "store" \in Working /\ Fitting(r, "store", req[r].body, canon)
    BY Zenon, <1>2 DEF DoorPcs, Working, Fitting
  <2> QED
    BY <1>1, <1>2, <1>4, <2>1, DoorQuiet DEF Step
<1>5. CASE Well /\ Respond(r, 400) /\ Unlink(r)
  BY <1>1, <1>2, <1>5, DoorQuietEnd DEF Respond
<1> QED
  BY <1>3, <1>4, <1>5 DEF put_file

\* Storing a vetted object replaces nothing but itself.
LEMMA PutPathKeeps == ASSUME DoorInv, NEW r \in Reqs, put_path(r) PROVE DoorInv'
<1> DEFINE stored == [canon EXCEPT ![Key(r)] = Ask(r).body]
<1>1. req[r].pc = "store" /\ UNCHANGED <<DiskCache, accepted>>
  BY Zenon DEF put_path, ReqAt
<1>2. req[r].body \in Files /\ req[r].reply \in Nat /\ Vetted(r)
  BY Zenon, <1>1, ReqFields DEF Fitting
<1>3. \/ (Fault \/ Well) /\ canon' \in {canon, stored} /\ Step(r, "confirm") /\ UNCHANGED incoming
      \/ Fault /\ canon' \in {canon, stored} /\ Respond(r, 500) /\ Unlink(r)
  BY Zenon DEF put_path
<1>4. CASE (Fault \/ Well) /\ canon' \in {canon, stored} /\ Step(r, "confirm") /\ UNCHANGED incoming
  <2>1. "confirm" \in DoorPcs /\ "confirm" \in Working /\ Fitting(r, "confirm", req[r].body, canon')
    BY Zenon, <1>2 DEF DoorPcs, Working, Fitting
  <2> QED
    BY <1>1, <1>2, <1>4, <2>1, DoorStep DEF Step
<1>5. CASE Fault /\ canon' \in {canon, stored} /\ Respond(r, 500) /\ Unlink(r)
  <2>1. "done" \in DoorPcs /\ Fitting(r, "done", req[r].body, canon')
    BY Zenon DEF DoorPcs, Fitting
  <2>2. incoming' \subseteq incoming \cup {r} /\ r \notin incoming'
    BY Zenon, <1>5 DEF Unlink
  <2> QED
    BY <1>1, <1>2, <1>5, <2>1, <2>2, DoorStep DEF Respond
<1> QED
  BY <1>3, <1>4, <1>5

\* What was stored is promoted only after the store showed it.
LEMMA ConfirmKeeps == ASSUME DoorInv, NEW r \in Reqs, confirm(r) PROVE DoorInv'
<1>1. req[r].pc = "confirm" /\ UNCHANGED Stores
  BY Zenon DEF confirm, ReqAt
<1>2. req[r].body \in Files /\ req[r].reply \in Nat /\ Vetted(r)
  BY Zenon, <1>1, ReqFields DEF Fitting
<1>3. CASE canon[Key(r)] # NoBody /\ Well /\ Now(r, "promote", req[r].body, 201) /\ UNCHANGED incoming
  <2>1. "promote" \in DoorPcs /\ "promote" \in Working /\ Fitting(r, "promote", req[r].body, canon)
    BY Zenon, <1>2, <1>3 DEF DoorPcs, Working, Fitting
  <2> QED
    BY <1>1, <1>2, <1>3, <2>1, DoorQuiet
<1>4. ASSUME NEW code \in Nat, Fault \/ Well, Respond(r, code), Unlink(r) PROVE DoorInv'
  BY <1>1, <1>2, <1>4, DoorQuietEnd DEF Respond
<1> QED
  BY <1>3, <1>4 DEF confirm

\* A promotion accepts what the store has.
LEMMA PromoteKeeps == ASSUME DoorInv, NEW r \in Reqs, promote(r) PROVE DoorInv'
<1>1. /\ req[r].pc = "promote" /\ Admit(Key(r), Ask(r).body) /\ Unlink(r) /\ UNCHANGED canon
      /\ Now(r, "done", req[r].body, req[r].reply)
      /\ accepted' = [accepted EXCEPT ![Key(r)] = Ask(r).body]
  BY Zenon DEF promote, ReqAt, Step
<1>2. req[r].body \in Files /\ req[r].reply \in Nat /\ Vetted(r) /\ canon[Key(r)] # NoBody /\ Key(r) \in Keys
  BY Zenon, <1>1, ReqFields DEF Fitting
<1>3. Ask(r).body \in Bodies /\ (Key(r) \in Objects => Ask(r).body = canon[Key(r)])
  BY <1>2, ReqFields, SameObject DEF Vetted, DoorInv
<1>4. CacheStep(Key(r), Ask(r).body) /\ (Fault \/ Well)
  BY <1>1, <1>2, <1>3, AdmitIsCacheStep
<1>5. CacheGood'
  BY <1>1, <1>2, <1>3, <1>4, CacheKept
<1> QED
  BY ZenonT(30), <1>1, <1>2, <1>4, <1>5, DoorEnd

\* A look into the cache changes nothing.
LEMMA GetOneKeeps == ASSUME DoorInv, NEW r \in Reqs, get_one(r) PROVE DoorInv'
<1>1. req[r].pc = "new" /\ UNCHANGED Stores /\ UNCHANGED incoming /\ Well
  BY Zenon DEF get_one, ReqAt, Well
<1>2. req[r].body \in Files /\ req[r].reply \in Nat /\ r \notin incoming
  BY Zenon, <1>1, ReqFields DEF Working
<1>3. PICK pc \in {"open", "fetch"} : Now(r, pc, req[r].body, req[r].reply)
  BY Zenon DEF get_one, Step
<1>4. pc \in DoorPcs /\ Fitting(r, pc, req[r].body, canon)
  BY Zenon DEF DoorPcs, Fitting
<1> QED
  BY <1>1, <1>2, <1>3, <1>4, DoorQuiet

\* A file that is gone by the time it is opened is fetched.
LEMMA OpenCachedKeeps == ASSUME DoorInv, NEW r \in Reqs, open_cached(r) PROVE DoorInv'
<1>1. req[r].pc = "open" /\ UNCHANGED Stores /\ UNCHANGED incoming /\ Well
  BY Zenon DEF open_cached, ReqAt, Well
<1>2. /\ req[r].body \in Files /\ req[r].reply \in Nat /\ r \notin incoming
      /\ cache[Key(r)] \in Files
  BY Zenon, <1>1, ReqFields DEF Working
<1>3. CASE Step(r, "fetch")
  <2>1. "fetch" \in DoorPcs /\ Fitting(r, "fetch", req[r].body, canon)
    BY Zenon DEF DoorPcs, Fitting
  <2> QED
    BY <1>1, <1>2, <1>3, <2>1, DoorQuiet DEF Step
<1>4. CASE Now(r, "done", cache[Key(r)], 200)
  BY <1>1, <1>2, <1>4, DoorQuietEnd
<1> QED
  BY Zenon, <1>3, <1>4 DEF open_cached

\* A fill starts with the store's object.
LEMMA GetStreamKeeps == ASSUME DoorInv, NEW r \in Reqs, get_stream(r) PROVE DoorInv'
<1>1. req[r].pc = "fetch" /\ UNCHANGED Stores
  BY Zenon DEF get_stream, ReqAt
<1>2. /\ req[r].body \in Files /\ req[r].reply \in Nat /\ r \notin incoming
      /\ canon[Key(r)] \in Files
  BY Zenon, <1>1, ReqFields DEF Working
<1>3. CASE canon[Key(r)] # NoBody /\ Well /\ incoming' = incoming \cup {r} /\ Now(r, "tee", canon[Key(r)], req[r].reply)
  <2>1. "tee" \in DoorPcs /\ "tee" \in Working /\ Fitting(r, "tee", canon[Key(r)], canon)
    BY Zenon, <1>3 DEF DoorPcs, Working, Fitting
  <2> QED
    BY <1>1, <1>2, <1>3, <2>1, DoorQuiet
<1>4. ASSUME NEW body \in Files, NEW code \in Nat, Fault \/ Well, Now(r, "done", body, code), UNCHANGED incoming
      PROVE  DoorInv'
  BY <1>1, <1>2, <1>4, DoorQuietEnd
<1> QED
  BY <1>2, <1>3, <1>4 DEF get_stream, Respond

\* A fill that was cut short is not committed.
LEMMA TeeKeeps == ASSUME DoorInv, NEW r \in Reqs, tee_and_cache(r) PROVE DoorInv'
<1>1. req[r].pc = "tee" /\ UNCHANGED Stores
  BY Zenon DEF tee_and_cache, ReqAt
<1>2. /\ req[r].body \in Files /\ req[r].reply \in Nat /\ NoBody \in Files
      /\ Fitting(r, "tee", req[r].body, canon)
  BY Zenon, <1>1, ReqFields DEF Files
<1>3. CASE Well /\ Now(r, "commit", req[r].body, 200) /\ UNCHANGED incoming
  <2>1. "commit" \in DoorPcs /\ "commit" \in Working /\ Fitting(r, "commit", req[r].body, canon)
    BY Zenon, <1>2 DEF DoorPcs, Working, Fitting
  <2> QED
    BY <1>1, <1>2, <1>3, <2>1, DoorQuiet
<1>4. ASSUME NEW body \in Files, Fault, Now(r, "done", body, 200), Unlink(r) PROVE DoorInv'
  BY <1>1, <1>4, DoorQuietEnd
<1> QED
  BY <1>2, <1>3, <1>4 DEF tee_and_cache, Respond

\* A fill goes into the cache as the store has it.
LEMMA CommitKeeps == ASSUME DoorInv, NEW r \in Reqs, commit_fill(r) PROVE DoorInv'
<1>1. /\ req[r].pc = "commit" /\ Admit(Key(r), req[r].body) /\ Unlink(r) /\ UNCHANGED canon
      /\ Now(r, "done", req[r].body, req[r].reply) /\ UNCHANGED accepted
  BY Zenon DEF commit_fill, ReqAt, Step
<1>2. /\ req[r].body \in Files /\ req[r].reply \in Nat /\ Key(r) \in Keys
      /\ req[r].body # NoBody /\ (Key(r) \in Objects => req[r].body = canon[Key(r)])
  BY Zenon, <1>1, ReqFields DEF Fitting
<1>3. req[r].body \in Bodies
  BY Zenon, <1>2 DEF Files
<1>4. CacheStep(Key(r), req[r].body) /\ (Fault \/ Well)
  BY SMTT(20), <1>1, <1>2, <1>3, AdmitIsCacheStep
<1>5. CacheGood'
  BY <1>1, <1>2, <1>3, <1>4, CacheKept
<1> QED
  BY Zenon, <1>1, <1>2, <1>4, <1>5, DoorEnd

\* A drop is at any step; in promote and commit_fill the cache may have changed.
LEMMA DroppedKeeps == ASSUME DoorInv, NEW r \in Reqs, Dropped(r) PROVE DoorInv'
<1>1. /\ doorMenu.drops > 0 /\ doorMenu' = [doorMenu EXCEPT !.drops = @ - 1]
      /\ Unlink(r) /\ Now(r, "done", req[r].body, 0) /\ UNCHANGED canon /\ UNCHANGED accepted
  BY Zenon DEF Dropped, Respond
<1>2. req[r].body \in Files /\ Key(r) \in Keys
  BY Zenon, ReqFields
<1>3. CacheGood'
  <2> DEFINE body == IF ReqAt(r, "promote") THEN Ask(r).body ELSE req[r].body
  <2>1. CASE Keep
    BY <1>1, <2>1, CacheUntouched DEF Keep
  <2>2. CASE ~Keep
    <3>1. /\ req[r].pc \in {"promote", "commit"} /\ cache[Key(r)] = NoBody
          /\ UNCHANGED overdrawn
      BY Zenon, <2>2 DEF Dropped
    <3>2. PICK gone \in Evicting(Size[body], {}) :
            /\ used' = Freed(gone)
            /\ \/ cache' = Evicted(gone) /\ UNCHANGED drifted
               \/ /\ cache' \in IF gone = Cached \/ Fits(gone, Size[body])
                               THEN {Filled(gone, Key(r), body)}
                               ELSE {Evicted(gone \cup {k}) : k \in Cached \ gone}
                  /\ drifted' = TRUE
      BY Zenon, <2>2 DEF Dropped
    <3>3. body \in Bodies /\ (Key(r) \in Objects => body = canon[Key(r)])
      <4>1. CASE req[r].pc = "promote"
        <5>1. Vetted(r) /\ canon[Key(r)] # NoBody
          BY SMTT(20), <4>1, ReqFields DEF Fitting
        <5>2. Ask(r).body \in Bodies /\ (Key(r) \in Objects => Ask(r).body = canon[Key(r)])
          BY SMTT(20), <5>1, ReqFields, SameObject DEF Vetted, DoorInv
        <5> QED
          BY Zenon, <4>1, <5>2 DEF ReqAt
      <4>2. CASE req[r].pc = "commit"
        <5>1. req[r].body # NoBody /\ (Key(r) \in Objects => req[r].body = canon[Key(r)])
          BY Zenon, <4>2, ReqFields DEF Fitting
        <5> QED
          BY <1>2, <4>2, <5>1 DEF ReqAt, Files
      <4> QED
        BY <3>1, <4>1, <4>2
    <3> HIDE DEF body
    <3>4. gone \in SUBSET Cached
      BY Zenon DEF Evicting
    <3>5. DoorTypes /\ Freed(gone) \in Nat
      BY Zenon, <3>4, FreedBytes DEF DoorInv
    <3>6. used' \in Nat /\ drifted' \in BOOLEAN /\ overdrawn' = overdrawn
      BY ZenonT(30), <3>1, <3>2, <3>5 DEF DoorTypes
    <3>7. CASE cache' = Evicted(gone) /\ UNCHANGED drifted
      BY <1>1, <1>2, <3>2, <3>3, <3>4, <3>6, <3>7, CacheKept DEF CacheStep, EvictedStep
    <3>8. CASE cache' = Filled(gone, Key(r), body) /\ drifted' = TRUE
      BY <1>1, <1>2, <3>1, <3>3, <3>4, <3>6, <3>8, CacheKept DEF CacheStep, FilledStep
    <3>9. ASSUME NEW k \in Cached \ gone, cache' = Evicted(gone \cup {k}), drifted' = TRUE PROVE CacheGood'
      <4>1. gone \cup {k} \in SUBSET Cached
        BY Zenon, <3>4
      <4>2. EvictedStep(gone \cup {k})
        BY Zenon, <3>6, <3>9 DEF EvictedStep
      <4> QED
        BY <1>1, <1>2, <3>3, <4>1, <4>2, CacheKept DEF CacheStep
    <3> QED
      BY ZenonT(30), <3>2, <3>7, <3>8, <3>9
  <2> QED
    BY <2>1, <2>2
<1> QED
  BY <1>1, <1>2, <1>3, DoorEnd

\* What is found on disk at the start is measured; every request in flight ends.
LEMMA RestartKeeps == ASSUME DoorInv, Restart PROVE DoorInv'
<1>1. DoorTypes
  BY Zenon DEF DoorInv
<1>2. doorMenu' \in DoorMenuTypes /\ \A q : Ask(q)' = Ask(q) /\ Key(q)' = Key(q) /\ (Vetted(q)' <=> Vetted(q))
  BY <1>1, MenuKept DEF Restart, Key, Vetted, Objects
<1>3. UNCHANGED <<canon, cache, accepted>> /\ incoming' = {} /\ used' = Total(Cached) /\ overdrawn' = (used' > Budget) /\ drifted' = FALSE
  BY Zenon DEF Restart
<1>4. used' \in Nat /\ CacheWithinBudget'
  <2>1. Cached = Held(cache) /\ Held(cache) \in SUBSET Keys /\ cache \in [Keys -> Files]
    BY Zenon, <1>1 DEF DoorTypes, Cached, Held
  <2>2. Total(Cached) = Bytes(cache, Held(cache)) /\ Bytes(cache, Held(cache)) \in Nat
    BY <2>1, TotalIsBytes, BytesNat
  <2>3. Total(Cached)' = Bytes(cache, Held(cache))
    BY Zenon, <1>3, TotalIsBytes
  <2>4. used' \in Nat /\ Budget \in Nat
    BY Zenon, <1>3, <2>2, DoorSizes
  <2>5. ~(used' > Budget) => used' <= Budget
    BY ONLY <2>4
  <2>6. ~overdrawn' => used' <= Budget
    BY ONLY Zenon, <1>3, <2>5
  <2> QED
    BY ONLY <1>3, <2>2, <2>3, <2>4, <2>6 DEF CacheWithinBudget
<1>5. /\ req' \in [Reqs -> [pc : DoorPcs, body : Files, reply : Nat]]
      /\ \A q \in Reqs : req'[q].pc = "new" \/ req'[q].pc = "done"
  <2>1. req' = [q \in Reqs |-> IF ReqAt(q, "new") THEN req[q] ELSE [pc |-> "done", body |-> req[q].body, reply |-> 0]]
    BY Zenon DEF Restart
  <2>2. \A q \in Reqs : req[q] \in [pc : DoorPcs, body : Files, reply : Nat]
    BY Zenon, <1>1 DEF DoorTypes
  <2> QED
    BY Zenon, <2>1, <2>2 DEF DoorPcs, ReqAt
<1>6. DoorTypes'
  <2>1. drifted' \in BOOLEAN
    BY ONLY Zenon, <1>3
  <2>2. canon' \in [Keys -> Files] /\ accepted' \in [Keys -> Files] /\ cache' \in [Keys -> Files] /\ incoming' \subseteq Reqs
    BY Zenon, <1>1, <1>3 DEF DoorTypes
  <2>3. \A r \in Reqs : Ask(r)'.op = "put" => Ask(r)'.body # NoBody
    BY Zenon, <1>1, <1>2 DEF DoorTypes
  <2> QED
    BY ONLY <1>2, <1>4, <1>5, <2>1, <2>2, <2>3 DEF DoorTypes
<1>7. \A q \in Reqs : Fitting(q, req[q].pc, req[q].body, canon)'
  BY Zenon, <1>5 DEF Fitting
<1>8. CanonHashed' /\ AcceptedIsCanonical' /\ CacheIsWriteThrough' /\ IncomingHasOwner'
  BY Zenon, <1>3 DEF DoorInv, CanonHashed, AcceptedIsCanonical, CacheIsWriteThrough, IncomingHasOwner, Objects
<1> QED
  BY <1>4, <1>6, <1>7, <1>8 DEF DoorInv

\* The door starts with an empty cache and no request under way.
LEMMA InitDoor == DoorInit => DoorInv
<1> SUFFICES ASSUME DoorInit PROVE DoorInv
  BY Zenon
<1>1. /\ doorMenu \in DoorMenuTypes
      /\ \A r \in Reqs : Ask(r).op = "put" => Ask(r).body # NoBody
      /\ \A k \in Objects : doorMenu.stored[k] # NoBody => HashOf[doorMenu.stored[k]] = k
  BY Zenon, DoorMenusTyped DEF DoorInit, DoorMenuTypes, Ask, Objects
<1>2. canon = doorMenu.stored /\ canon \in [Keys -> Files]
  BY Zenon, <1>1 DEF DoorInit, DoorMenuTypes
<1>3. req \in [Reqs -> [pc : DoorPcs, body : Files, reply : Nat]] /\ \A r \in Reqs : req[r].pc \in {"new", "done"}
  BY Zenon DEF DoorInit, DoorPcs, Files
<1>4. DoorTypes
  BY ZenonT(30), <1>1, <1>2, <1>3 DEF DoorInit, DoorTypes, Files
<1>5. CanonHashed /\ \A r \in Reqs : Fitting(r, req[r].pc, req[r].body, canon)
  BY <1>1, <1>2, <1>3 DEF CanonHashed, Fitting
<1>6. AcceptedIsCanonical /\ CacheIsWriteThrough /\ IncomingHasOwner
  BY Zenon DEF DoorInit, AcceptedIsCanonical, CacheIsWriteThrough, IncomingHasOwner, Objects
<1>7. CacheWithinBudget
  <2>1. Cached = {} /\ used = 0
    BY Zenon DEF DoorInit, Cached
  <2>2. Sizes(cache) \in [Keys -> Nat] /\ Total({}) = SumOver(Sizes(cache))[{}]
    BY <1>4, SizesTyped, TotalIsBytes DEF DoorTypes, Bytes
  <2>3. SumOver(Sizes(cache))[{}] = 0
    BY Zenon, <2>2, DoorKeys, SumDef DEF Rec
  <2> QED
    BY <2>1, <2>2, <2>3, DoorSizes DEF CacheWithinBudget
<1> QED
  BY <1>4, <1>5, <1>6, <1>7 DEF DoorInv

\* Every step keeps the invariant.
LEMMA NextDoor == DoorInv /\ [DoorNext]_doorVars => DoorInv'
<1> SUFFICES ASSUME DoorInv, [DoorNext]_doorVars PROVE DoorInv'
  BY Zenon
<1>1. CASE Restart
  BY Zenon, <1>1, RestartKeeps
<1>2. ASSUME NEW r \in Reqs, put_one(r) PROVE DoorInv'
  BY Zenon, <1>2, PutOneKeeps
<1>3. ASSUME NEW r \in Reqs, pump_body(r) PROVE DoorInv'
  BY Zenon, <1>3, PumpKeeps
<1>4. ASSUME NEW r \in Reqs, put_file(r) PROVE DoorInv'
  BY Zenon, <1>4, PutFileKeeps
<1>5. ASSUME NEW r \in Reqs, put_path(r) PROVE DoorInv'
  BY Zenon, <1>5, PutPathKeeps
<1>6. ASSUME NEW r \in Reqs, confirm(r) PROVE DoorInv'
  BY Zenon, <1>6, ConfirmKeeps
<1>7. ASSUME NEW r \in Reqs, promote(r) PROVE DoorInv'
  BY Zenon, <1>7, PromoteKeeps
<1>8. ASSUME NEW r \in Reqs, get_one(r) PROVE DoorInv'
  BY Zenon, <1>8, GetOneKeeps
<1>9. ASSUME NEW r \in Reqs, open_cached(r) PROVE DoorInv'
  BY Zenon, <1>9, OpenCachedKeeps
<1>10. ASSUME NEW r \in Reqs, get_stream(r) PROVE DoorInv'
  BY Zenon, <1>10, GetStreamKeeps
<1>11. ASSUME NEW r \in Reqs, tee_and_cache(r) PROVE DoorInv'
  BY Zenon, <1>11, TeeKeeps
<1>12. ASSUME NEW r \in Reqs, commit_fill(r) PROVE DoorInv'
  BY Zenon, <1>12, CommitKeeps
<1>13. ASSUME NEW r \in Reqs, Dropped(r) PROVE DoorInv'
  BY Zenon, <1>13, DroppedKeeps
<1>14. CASE UNCHANGED doorVars
  <2>1. UNCHANGED <<canon, cache, used, incoming, req, accepted, overdrawn, drifted, doorMenu>>
    BY Zenon, <1>14 DEF doorVars
  <2> QED
    BY <2>1 DEF DoorInv, DoorTypes, CanonHashed, Fitting, Vetted, Key, Ask, Objects, AcceptedIsCanonical,
                CacheIsWriteThrough, CacheWithinBudget, IncomingHasOwner, Total, FileSizes, Cached
<1> QED
  BY Zenon, <1>1, <1>2, <1>3, <1>4, <1>5, <1>6, <1>7, <1>8, <1>9, <1>10, <1>11, <1>12, <1>13, <1>14 DEF DoorNext

\* What the door accepted is in the store with its bytes, the cache shows nothing
\* but what the store holds and keeps to its budget, and no file of a request
\* that ended is left: for any requests, faults, drops and restarts, and any
\* choice of files to evict (put_one to commit_fill; DiskCache).
THEOREM DoorSoundHolds == DoorSpec => []DoorSound
<1>1. DoorInv => DoorSound
  BY Zenon DEF DoorInv, DoorSound, CacheSound
<1> QED
  BY <1>1, InitDoor, NextDoor, PTL DEF DoorSpec
============================================================================
