-------------------------- MODULE EnrichmentProofs --------------------------
(***************************************************************************)
(* Proofs about Enrichment, for every roster, every set of items the       *)
(* sources may deliver, every catalog and every cap.                       *)
(*                                                                         *)
(* The loops of the code are recursive functions over the prefixes of a    *)
(* list.  A fact about such a loop is proved by induction over the length  *)
(* of the prefix.  The induction principle is used in the form of a set    *)
(* that contains 0 and, with n - 1, also n: Induction below.               *)
(***************************************************************************)
EXTENDS Enrichment, FiniteSetTheorems, WellFoundedInduction, TLAPS

-----------------------------------------------------------------------------
(* Induction and recursion over the prefixes of a list.                    *)

\* A nonempty set of naturals has a least element.
LEMMA LeastElement ==
    ASSUME NEW T, T \subseteq Nat, T # {}
    PROVE  \E x \in T : \A y \in T : x <= y
<1>1. IsWellFoundedOn(OpToRel(<, Nat), Nat)
  BY NatLessThanWellFounded
<1>2. PICK x \in T : \A y \in T : ~(<<y, x>> \in OpToRel(<, Nat))
  BY <1>1, WFMin
<1>3. \A y \in T : ~(y < x)
  BY <1>2 DEF OpToRel
<1> QED
  BY <1>3

LEMMA Induction ==
    ASSUME NEW N \in Nat, NEW T, 0 \in T, \A n \in 1..N : n - 1 \in T => n \in T
    PROVE  0..N \subseteq T
<1> SUFFICES ASSUME ~(0..N \subseteq T) PROVE FALSE
  OBVIOUS
<1> DEFINE B == {n \in 0..N : n \notin T}
<1>1. PICK m \in B : \A y \in B : m <= y
  <2>1. B \subseteq Nat /\ B # {}
    OBVIOUS
  <2> HIDE DEF B
  <2> QED  BY <2>1, LeastElement
<1> QED
  BY <1>1

IsRecursion(N, V, base, step) == N \in Nat /\ base \in V /\ step \in [1..N -> [V -> V]]

Computes(g, N, V, base, step) ==
    /\ g \in [0..N -> V] /\ g[0] = base
    /\ \A n \in 1..N : g[n] = step[n][g[n - 1]]

\* A loop whose body maps V into V computes something: the recursive function
\* that describes it exists.
LEMMA Recursion ==
    ASSUME NEW N, NEW V, NEW base, NEW step, IsRecursion(N, V, base, step)
    PROVE  \E g : Computes(g, N, V, base, step)
<1> USE DEF IsRecursion, Computes
<1> DEFINE Solves(g, m) ==
               g \in [0..m -> V] /\ g[0] = base /\ \A n \in 1..m : g[n] = step[n][g[n - 1]]
           T == {m \in 0..N : \E g : Solves(g, m)}
<1>1. 0 \in T
  <2> DEFINE g == [n \in 0..0 |-> base]
  <2>1. Solves(g, 0)
    OBVIOUS
  <2> HIDE DEF Solves, g
  <2> QED  BY <2>1
<1>2. ASSUME NEW m \in 1..N, m - 1 \in T PROVE m \in T
  <2>1. PICK g : Solves(g, m - 1)
    BY <1>2
  <2> DEFINE last == step[m][g[m - 1]]
             h == [n \in 0..m |-> IF n = m THEN last ELSE g[n]]
  <2>2. g[m - 1] \in V /\ g \in [0..m - 1 -> V]
    BY <2>1
  <2>3. last \in V /\ last = step[m][g[m - 1]]
    BY <2>2
  <2> HIDE DEF last
  <2>4. h \in [0..m -> V] /\ h[m] = last /\ \A n \in 0..m - 1 : h[n] = g[n]
    BY <2>2, <2>3
  <2> HIDE DEF h
  <2>5. h[0] = base
    BY <2>1, <2>4
  <2>6. ASSUME NEW n \in 1..m PROVE h[n] = step[n][h[n - 1]]
    <3>1. CASE n = m
      BY <2>3, <2>4, <3>1
    <3>2. CASE n # m
      BY <2>1, <2>4, <3>2
    <3> QED  BY <3>1, <3>2
  <2>7. Solves(h, m)
    BY <2>4, <2>5, <2>6
  <2> QED  BY <2>7
<1>3. 0..N \subseteq T
  <2> HIDE DEF T
  <2>1. \A n \in 1..N : n - 1 \in T => n \in T
    BY <1>2
  <2> QED  BY <1>1, <2>1, Induction
<1>4. N \in T
  BY <1>3
<1> QED
  BY <1>4

-----------------------------------------------------------------------------
(* Extend and Unique: what dict.fromkeys keeps.                            *)

\* The loop that Extend describes.
LEMMA ExtendLoop ==
    ASSUME NEW C, NEW seen \in Seq(C), NEW more \in Seq(C)
    PROVE  \E f \in [0..Len(more) -> Seq(C)] :
              /\ f[0] = seen /\ Extend(seen, more) = f[Len(more)]
              /\ \A n \in 1..Len(more) :
                    f[n] = IF Contains(f[n - 1], more[n]) THEN f[n - 1]
                           ELSE Append(f[n - 1], more[n])
<1> DEFINE Adds(v, n) == IF Contains(v, more[n]) THEN v ELSE Append(v, more[n])
           F(g) == [n \in 0..Len(more) |-> IF n = 0 THEN seen ELSE Adds(g[n - 1], n)]
           step == [n \in 1..Len(more) |-> [v \in Seq(C) |-> Adds(v, n)]]
           f == CHOOSE h : h = F(h)
<1>0. Len(more) \in Nat
  OBVIOUS
<1>1. Extend(seen, more) = f[Len(more)]
  BY Zenon DEF Extend
<1>2. ASSUME NEW v \in Seq(C), NEW n \in 1..Len(more) PROVE Adds(v, n) \in Seq(C)
  OBVIOUS
<1> HIDE DEF Adds
<1>3. IsRecursion(Len(more), Seq(C), seen, step)
  BY <1>0, <1>2 DEF IsRecursion
<1>4. PICK g : Computes(g, Len(more), Seq(C), seen, step)
  <2> HIDE DEF step
  <2> QED  BY <1>3, Recursion
<1>5. g = F(g)
  <2>1. g \in [0..Len(more) -> Seq(C)] /\ \A n \in 1..Len(more) : n - 1 \in 0..Len(more)
    BY <1>0, <1>4 DEF Computes
  <2>2. \A n \in 1..Len(more) : g[n - 1] \in Seq(C)
    BY <2>1
  <2>3. \A n \in 1..Len(more) : g[n] = Adds(g[n - 1], n)
    BY <1>4, <2>2 DEF Computes
  <2> QED  BY <1>0, <1>4, <2>3 DEF Computes
<1>6. f = F(f)
  <2> HIDE DEF F
  <2> QED  BY <1>5
<1> HIDE DEF f
<1>7. f[0] = seen /\ \A n \in 1..Len(more) : f[n] = Adds(f[n - 1], n)
  BY <1>0, <1>6
<1>8. f \in [0..Len(more) -> Seq(C)]
  <2> DEFINE T == {n \in 0..Len(more) : f[n] \in Seq(C)}
  <2>1. 0 \in T
    BY <1>0, <1>7
  <2>2. \A n \in 1..Len(more) : n - 1 \in T => n \in T
    <3> SUFFICES ASSUME NEW n \in 1..Len(more), n - 1 \in T PROVE n \in T
      OBVIOUS
    <3>1. f[n - 1] \in Seq(C) /\ f[n] = Adds(f[n - 1], n)
      BY <1>7
    <3>2. f[n] \in Seq(C)
      BY <1>2, <3>1
    <3>3. n \in 0..Len(more)
      BY <1>0
    <3> QED  BY <3>2, <3>3
  <2>3. 0..Len(more) \subseteq T
    <3> HIDE DEF T
    <3> QED  BY <1>0, <2>1, <2>2, Induction
  <2>4. \A n \in 0..Len(more) : f[n] \in Seq(C)
    BY <2>3, Zenon
  <2>5. f = [n \in 0..Len(more) |-> f[n]]
    BY <1>6, Zenon
  <2> QED  BY <2>4, <2>5
<1> QED
  BY <1>1, <1>7, <1>8 DEF Adds

\* Appending adds one element, after the others.
LEMMA AppendElements ==
    ASSUME NEW C, NEW s \in Seq(C), NEW x \in C
    PROVE  /\ Len(s) \in Nat /\ Len(Append(s, x)) = Len(s) + 1
           /\ \A k \in 1..Len(s) : Append(s, x)[k] = s[k]
           /\ ToSet(Append(s, x)) = ToSet(s) \cup {x}
<1> DEFINE t == Append(s, x)
           m == Len(s)
<1>1. m \in Nat /\ DOMAIN s = 1..m /\ Len(t) = m + 1 /\ DOMAIN t = 1..m + 1
  OBVIOUS
<1>2. (\A k \in 1..m : t[k] = s[k]) /\ t[m + 1] = x
  OBVIOUS
<1> HIDE DEF t, m
<1>3. \A k \in 1..m + 1 : k \in 1..m \/ k = m + 1
  BY <1>1
<1>4. 1..m \subseteq 1..m + 1 /\ m + 1 \in 1..m + 1
  BY <1>1
<1>5. \A y : y \in ToSet(t) <=> \E k \in 1..m + 1 : y = t[k]
  BY <1>1, Zenon DEF ToSet
<1>6. \A y : y \in ToSet(s) <=> \E k \in 1..m : y = s[k]
  BY <1>1, Zenon DEF ToSet
<1>7. ASSUME NEW y \in ToSet(t) PROVE y \in ToSet(s) \cup {x}
  <2>1. PICK k \in 1..m + 1 : y = t[k]
    BY <1>5, <1>7, Zenon
  <2>2. CASE k \in 1..m
    BY <1>2, <1>6, <2>1, <2>2
  <2>3. CASE k = m + 1
    BY <1>2, <2>1, <2>3
  <2> QED  BY <1>3, <2>1, <2>2, <2>3
<1>8. ASSUME NEW y \in ToSet(s) PROVE y \in ToSet(t)
  BY <1>2, <1>4, <1>5, <1>6, <1>8, Zenon
<1>9. x \in ToSet(t)
  BY <1>2, <1>4, <1>5, Zenon
<1>10. ToSet(t) = ToSet(s) \cup {x}
  BY <1>7, <1>8, <1>9, Zenon
<1> QED
  BY <1>1, <1>2, <1>10 DEF t, m

\* Extend appends to seen, and adds exactly the elements of more.
LEMMA ExtendAdds ==
    ASSUME NEW C, NEW seen \in Seq(C), NEW more \in Seq(C)
    PROVE  /\ Extend(seen, more) \in Seq(C)
           /\ ToSet(Extend(seen, more)) = ToSet(seen) \cup ToSet(more)
           /\ Len(seen) <= Len(Extend(seen, more))
           /\ \A k \in 1..Len(seen) : Extend(seen, more)[k] = seen[k]
<1>1. PICK f \in [0..Len(more) -> Seq(C)] :
         /\ f[0] = seen /\ Extend(seen, more) = f[Len(more)]
         /\ \A n \in 1..Len(more) : f[n] = IF Contains(f[n - 1], more[n]) THEN f[n - 1]
                                           ELSE Append(f[n - 1], more[n])
  BY ExtendLoop
<1>0. Len(more) \in Nat /\ Len(seen) \in Nat
  OBVIOUS
<1> DEFINE Good(n) == /\ ToSet(f[n]) = ToSet(seen) \cup {more[j] : j \in 1..n}
                      /\ Len(seen) <= Len(f[n])
                      /\ \A k \in 1..Len(seen) : f[n][k] = seen[k]
           T == {n \in 0..Len(more) : Good(n)}
<1>2. 0 \in T
  BY <1>0, <1>1
<1>3. ASSUME NEW n \in 1..Len(more), Good(n - 1) PROVE Good(n)
  <2>1. f[n - 1] \in Seq(C) /\ f[n] \in Seq(C) /\ more[n] \in C
    <3>1. n - 1 \in 0..Len(more) /\ n \in 0..Len(more)
      BY <1>0
    <3>2. f[n - 1] \in Seq(C) /\ f[n] \in Seq(C)
      BY <3>1
    <3> QED  BY <3>2
  <2>2. {more[j] : j \in 1..n} = {more[j] : j \in 1..n - 1} \cup {more[n]}
    OBVIOUS
  <2>3. CASE Contains(f[n - 1], more[n])
    <3>1. f[n] = f[n - 1]
      BY <1>1, <2>3
    <3>2. PICK i \in 1..Len(f[n - 1]) : f[n - 1][i] = more[n]
      BY <2>3 DEF Contains
    <3>3. DOMAIN f[n - 1] = 1..Len(f[n - 1])
      BY <2>1
    <3>4. more[n] \in ToSet(f[n - 1])
      BY <3>2, <3>3, Zenon DEF ToSet
    <3> QED  BY <1>3, <2>2, <3>1, <3>4
  <2>4. CASE ~Contains(f[n - 1], more[n])
    <3>1. f[n] = Append(f[n - 1], more[n])
      BY <1>1, <2>4
    <3>2. /\ Len(f[n - 1]) \in Nat /\ Len(f[n]) = Len(f[n - 1]) + 1
          /\ \A k \in 1..Len(f[n - 1]) : f[n][k] = f[n - 1][k]
          /\ ToSet(f[n]) = ToSet(f[n - 1]) \cup {more[n]}
      BY <2>1, <3>1, AppendElements
    <3>3. ToSet(f[n]) = ToSet(seen) \cup {more[j] : j \in 1..n}
      BY <1>3, <2>2, <3>2, Zenon
    <3>4. Len(seen) <= Len(f[n]) /\ \A k \in 1..Len(seen) : k \in 1..Len(f[n - 1])
      BY <1>0, <1>3, <3>2
    <3>5. \A k \in 1..Len(seen) : f[n][k] = seen[k]
      BY <1>3, <3>2, <3>4, Zenon
    <3> QED  BY <3>3, <3>4, <3>5
  <2> QED  BY <2>3, <2>4
<1>4. Good(Len(more))
  <2>1. \A n \in 1..Len(more) : n - 1 \in T => n \in T
    <3> HIDE DEF Good
    <3> QED  BY <1>3
  <2>2. 0..Len(more) \subseteq T
    <3> HIDE DEF T
    <3> QED  BY <1>0, <1>2, <2>1, Induction
  <2> HIDE DEF Good
  <2> QED  BY <1>0, <2>2
<1>5. ToSet(more) = {more[j] : j \in 1..Len(more)}
  BY DEF ToSet
<1>6. f[Len(more)] \in Seq(C)
  BY <1>0
<1> QED
  BY <1>1, <1>4, <1>5, <1>6

-----------------------------------------------------------------------------
(* The greatest and the least element of a set of numbers.                 *)

LEMMA Greatest ==
    ASSUME NEW S, S \subseteq Int, S # {}, NEW N \in Int, \A y \in S : y <= N
    PROVE  Max(S) \in S /\ \A y \in S : y <= Max(S)
<1> DEFINE T == {N - y : y \in S}
<1>0. \A y \in S : N - y \in Nat
  OBVIOUS
<1>1. T \subseteq Nat /\ T # {}
  BY <1>0
<1>2. PICK t \in T : \A u \in T : t <= u
  <2> HIDE DEF T
  <2> QED  BY <1>1, LeastElement
<1>3. PICK x \in S : t = N - x
  BY <1>2
<1>4. \A y \in S : x >= y
  <2> SUFFICES ASSUME NEW y \in S PROVE x >= y
    OBVIOUS
  <2>1. t <= N - y
    BY <1>2
  <2> QED  BY <1>3, <2>1
<1> QED
  BY <1>4 DEF Max

LEMMA Least ==
    ASSUME NEW S, S \subseteq Nat, S # {}
    PROVE  Min(S) \in S /\ \A y \in S : Min(S) <= y
BY LeastElement DEF Min

LEMMA MaxAgeBounds == MaxAge \in Nat /\ KevTtl <= MaxAge /\ OsvTtl <= MaxAge
<1> DEFINE S == {KevTtl, OsvTtl, KevSourceDays + 1}
<1>1. S \subseteq Nat /\ S # {}
  BY EnrichmentAssumption
<1> DEFINE N == KevTtl + OsvTtl + KevSourceDays + 1
<1>2. N \in Int /\ \A y \in S : y <= N
  BY EnrichmentAssumption
<1>3. Max(S) \in S /\ \A y \in S : y <= Max(S)
  <2>1. S \subseteq Int
    BY <1>1
  <2> HIDE DEF S, N
  <2> QED  BY <1>1, <1>2, <2>1, Greatest
<1> QED
  BY <1>1, <1>3 DEF MaxAge

-----------------------------------------------------------------------------
(* The caches.                                                             *)

\* The services and the caches are of their types.
CachesOK ==
    /\ listedFor \in [Cve -> Age \cup {Never}]
    /\ osvFor \in [Cve -> Age \cup {Never}]
    /\ kevCache \in [known : SUBSET Cve, age : Age]
    /\ osvCache \in [Cve -> [record : BOOLEAN, age : Age]]

\* As long as its age is exact, a cached answer knows what had been published
\* before it was obtained.
AnswersKnown ==
    /\ kevCache.age < MaxAge =>
          \A c \in Cve : listedFor[c] > kevCache.age => c \in kevCache.known
    /\ \A c \in Cve :
          osvCache[c].age < MaxAge /\ osvFor[c] > osvCache[c].age => osvCache[c].record

CacheInv == CachesOK /\ AnswersKnown

LEMMA CacheInit == Init => CacheInv
BY MaxAgeBounds DEF Init, CacheInv, CachesOK, AnswersKnown, Age, Never

LEMMA CacheRefreshed ==
    ASSUME CacheInv, RefreshCatalog, UNCHANGED <<services, osvCache>>
    PROVE  CacheInv'
<1> USE MaxAgeBounds DEF CacheInv, CachesOK, AnswersKnown, services
<1>1. CASE KevFresh
  BY <1>1 DEF RefreshCatalog
<1>2. CASE ~KevFresh
  <2>1. kevCache' = [known |-> Catalog, age |-> 0] /\ Catalog \subseteq Cve
    BY <1>2 DEF RefreshCatalog, Catalog
  <2>2. \A c \in Cve : listedFor[c] > 0 => c \in Catalog
    BY DEF Catalog, Never
  <2>3. 0 \in Age
    BY DEF Age
  <2> QED  BY <2>1, <2>2, <2>3
<1> QED  BY <1>1, <1>2

LEMMA CacheAged == ASSUME CacheInv, Tick PROVE CacheInv'
<1> USE MaxAgeBounds DEF CacheInv, CachesOK, AnswersKnown
<1>1. \A a \in Age : /\ Older(a) \in Age /\ a <= Older(a)
                     /\ a < MaxAge => Older(a) = a + 1
                     /\ a = MaxAge => Older(a) = a
  BY DEF Older, Age, Never
<1>2. Older(Never) = Never
  BY DEF Older
<1>3. CachesOK'
  BY <1>1, <1>2 DEF Tick
<1>4. \A a, b \in Age : Older(a) < MaxAge /\ Older(b) > Older(a) => a < MaxAge /\ b > a
  BY <1>1 DEF Age
<1>5. \A a \in Age : ~(Never > Older(a))
  BY <1>1 DEF Age, Never
<1>6. /\ kevCache'.age = Older(kevCache.age) /\ kevCache'.known = kevCache.known
      /\ \A c \in Cve : listedFor'[c] = Older(listedFor[c])
  BY DEF Tick
<1>7. \A c \in Cve : /\ osvCache'[c].age = Older(osvCache[c].age)
                     /\ osvCache'[c].record = osvCache[c].record
                     /\ osvFor'[c] = Older(osvFor[c])
  BY DEF Tick
<1>8. ASSUME kevCache'.age < MaxAge, NEW c \in Cve, listedFor'[c] > kevCache'.age
      PROVE  c \in kevCache'.known
  <2>1. listedFor[c] # Never /\ kevCache.age \in Age
    BY <1>2, <1>5, <1>6, <1>8
  <2>2. listedFor[c] \in Age
    BY <2>1
  <2> QED  BY <1>4, <1>6, <1>8, <2>1, <2>2
<1>9. ASSUME NEW c \in Cve, osvCache'[c].age < MaxAge, osvFor'[c] > osvCache'[c].age
      PROVE  osvCache'[c].record
  <2>1. osvFor[c] # Never /\ osvCache[c].age \in Age
    BY <1>2, <1>5, <1>7, <1>9
  <2>2. osvFor[c] \in Age
    BY <2>1
  <2>3. osvCache[c].record
    BY <1>4, <1>7, <1>9, <2>1, <2>2
  <2> QED  BY <1>7, <2>3
<1> QED  BY <1>3, <1>8, <1>9

LEMMA CacheStep == CacheInv /\ [Next]_vars => CacheInv'
<1> SUFFICES ASSUME CacheInv, [Next]_vars PROVE CacheInv'
  OBVIOUS
<1>1. CASE UNCHANGED vars
  BY <1>1 DEF vars, CacheInv, CachesOK, AnswersKnown
<1>2. CASE Fetch
  <2>1. UNCHANGED <<services, osvCache>> /\ (RefreshCatalog \/ UNCHANGED kevCache)
    BY <1>2 DEF Fetch
  <2>2. CASE UNCHANGED kevCache
    BY <2>1, <2>2 DEF services, CacheInv, CachesOK, AnswersKnown
  <2> QED  BY <2>1, <2>2, CacheRefreshed
<1>3. CASE KevAnswers
  BY <1>3, CacheRefreshed DEF KevAnswers
<1>4. CASE KevFails \/ Epss \/ EnrichWithOsv \/ Persist
  BY <1>4 DEF KevFails, Epss, EnrichWithOsv, Persist, services, CacheInv, CachesOK, AnswersKnown
<1>5. ASSUME NEW c \in Cve, OsvAnswers(c) PROVE CacheInv'
  <2>1. UNCHANGED <<listedFor, osvFor, kevCache>>
    BY <1>5 DEF OsvAnswers, services
  <2>2. CASE OsvFresh(c)
    BY <1>5, <2>1, <2>2 DEF OsvAnswers, CacheInv, CachesOK, AnswersKnown
  <2>3. CASE ~OsvFresh(c)
    <3>1. osvCache' = [osvCache EXCEPT ![c] = [record |-> osvFor[c] # Never, age |-> 0]]
      BY <1>5, <2>3 DEF OsvAnswers
    <3>2. 0 \in Age
      BY MaxAgeBounds DEF Age
    <3>3. (osvFor[c] # Never) \in BOOLEAN /\ (osvFor[c] > 0 => osvFor[c] # Never)
      BY DEF Never
    <3> QED  BY <2>1, <3>1, <3>2, <3>3 DEF CacheInv, CachesOK, AnswersKnown
  <2> QED  BY <2>2, <2>3
<1>6. ASSUME NEW c \in Cve, OsvFails(c) PROVE CacheInv'
  BY <1>6 DEF OsvFails, services, CacheInv, CachesOK, AnswersKnown
<1>7. ASSUME NEW c \in Cve, CisaLists(c) PROVE CacheInv'
  BY <1>7, MaxAgeBounds DEF CisaLists, CacheInv, CachesOK, AnswersKnown, Age
<1>8. ASSUME NEW c \in Cve, OsvPublishes(c) PROVE CacheInv'
  BY <1>8, MaxAgeBounds DEF OsvPublishes, CacheInv, CachesOK, AnswersKnown, Age
<1>9. CASE Tick
  BY <1>9, CacheAged
<1> QED
  BY <1>1, <1>2, <1>3, <1>4, <1>5, <1>6, <1>7, <1>8, <1>9 DEF Next

\* For all lifetimes of the caches: a fresh KEV or OSV cache that does not know
\* a CVE is no proof of less than its lifetime's age that nobody published it
\* (_fetch_kev, _fetch_one).
THEOREM UnknownExpiresHolds == Spec => []UnknownExpires
<1>1. CacheInv => UnknownExpires
  <2> SUFFICES ASSUME CacheInv PROVE UnknownExpires
    OBVIOUS
  <2>1. KevTtl \in Nat /\ OsvTtl \in Nat
    BY EnrichmentAssumption
  <2>2. ASSUME KevFresh, NEW c \in Cve, listedFor[c] >= KevTtl PROVE c \in kevCache.known
    BY <2>1, <2>2, MaxAgeBounds DEF KevFresh, CacheInv, CachesOK, AnswersKnown, Age, Never
  <2>3. ASSUME NEW c \in Cve, OsvFresh(c), osvFor[c] >= OsvTtl PROVE osvCache[c].record
    <3>1. osvCache[c].age \in Age /\ osvFor[c] \in Int
      BY MaxAgeBounds DEF CacheInv, CachesOK, Age, Never
    <3>2. osvCache[c].age < MaxAge /\ osvFor[c] > osvCache[c].age
      BY <2>1, <2>3, <3>1, MaxAgeBounds DEF OsvFresh, Age
    <3> QED  BY <3>2 DEF CacheInv, AnswersKnown
  <2> QED  BY <2>2, <2>3 DEF UnknownExpires
<1> QED
  BY <1>1, CacheInit, CacheStep, PTL DEF Spec

-----------------------------------------------------------------------------
(* Sorted: a stable sort.                                                  *)

\* A strict total order on 1..N.
IsOrder(before, N) ==
    /\ \A j \in 1..N : <<j, j>> \notin before
    /\ \A j, k, l \in 1..N : <<j, k>> \in before /\ <<k, l>> \in before => <<j, l>> \in before
    /\ \A j, k \in 1..N : j # k => <<j, k>> \in before \/ <<k, j>> \in before

\* Sorted is a permutation of the list that lists it in the given order.
LEMMA SortedPermutes ==
    ASSUME NEW S, NEW list \in Seq(S), NEW before, IsOrder(before, Len(list))
    PROVE  \E place \in [1..Len(list) -> 1..Len(list)] :
              /\ Sorted(list, before) = [n \in 1..Len(list) |-> list[place[n]]]
              /\ \A k \in 1..Len(list) : \E n \in 1..Len(list) : place[n] = k
              /\ \A m, n \in 1..Len(list) : m < n => <<place[m], place[n]>> \in before
<1> DEFINE N == Len(list)
           D == 1..N
           Earlier(k) == {j \in D : <<j, k>> \in before}
<1>1. N \in Nat /\ DOMAIN list = D
  OBVIOUS
<1> HIDE DEF N
<1>2. IsFiniteSet(D) /\ Cardinality(D) = N
  BY <1>1, FS_Interval
<1>3. ASSUME NEW k \in D PROVE /\ IsFiniteSet(Earlier(k)) /\ Cardinality(Earlier(k)) \in 0..N - 1
  <2>1. Earlier(k) \in SUBSET D /\ k \notin Earlier(k)
    BY DEF IsOrder, N
  <2> HIDE DEF Earlier
  <2>2. /\ IsFiniteSet(Earlier(k)) /\ Cardinality(Earlier(k)) <= N
        /\ Cardinality(D) = Cardinality(Earlier(k)) => D = Earlier(k)
    BY <1>2, <2>1, FS_Subset
  <2>3. Cardinality(Earlier(k)) \in Nat
    BY <2>2, FS_CardinalityType
  <2>4. Cardinality(Earlier(k)) # N
    BY <1>2, <2>1, <2>2
  <2> QED  BY <1>1, <2>2, <2>3, <2>4
<1>4. ASSUME NEW j \in D, NEW k \in D, <<j, k>> \in before
      PROVE  Cardinality(Earlier(j)) < Cardinality(Earlier(k))
  <2>1. Earlier(j) \in SUBSET Earlier(k) /\ j \in Earlier(k) /\ j \notin Earlier(j)
    BY <1>4 DEF IsOrder, N
  <2>2. IsFiniteSet(Earlier(k))
    BY <1>3
  <2> HIDE DEF Earlier
  <2>3. Cardinality(Earlier(j)) \in Int /\ Cardinality(Earlier(k)) \in Int
    BY <1>1, <1>3
  <2>4. /\ Cardinality(Earlier(j)) <= Cardinality(Earlier(k))
        /\ Cardinality(Earlier(k)) = Cardinality(Earlier(j)) => Earlier(k) = Earlier(j)
    BY <2>1, <2>2, FS_Subset
  <2> QED  BY <2>1, <2>3, <2>4
<1> HIDE DEF Earlier
<1> DEFINE rank == [k \in D |-> Cardinality(Earlier(k)) + 1]
<1>5. rank \in [D -> D]
  BY <1>1, <1>3
<1>6. \A j, k \in D : <<j, k>> \in before => rank[j] < rank[k]
  BY <1>1, <1>3, <1>4
<1>7. \A k \in D, n \in D : rank[k] = n <=> Cardinality(Earlier(k)) = n - 1
  BY <1>1, <1>3
<1> HIDE DEF rank
<1>8. \A j, k \in D : rank[j] = rank[k] => j = k
  <2> SUFFICES ASSUME NEW j \in D, NEW k \in D, rank[j] = rank[k], j # k PROVE FALSE
    OBVIOUS
  <2>1. <<j, k>> \in before \/ <<k, j>> \in before
    BY DEF IsOrder, N
  <2>2. rank[j] \in Int /\ rank[k] \in Int
    BY <1>1, <1>5
  <2> QED  BY <1>6, <2>1, <2>2
<1>9. \A n \in D : \E k \in D : rank[k] = n
  <2>1. rank \in Injection(D, D)
    BY <1>5, <1>8 DEF Injection, IsInjective
  <2>2. rank \in Surjection(D, D)
    BY <1>2, <2>1, FS_Injection
  <2> QED  BY <2>2 DEF Surjection
<1> DEFINE place == [n \in D |-> CHOOSE k \in D : Cardinality(Earlier(k)) = n - 1]
<1>10. \A n \in D : place[n] \in D /\ Cardinality(Earlier(place[n])) = n - 1
  <2> SUFFICES ASSUME NEW n \in D PROVE place[n] \in D /\ Cardinality(Earlier(place[n])) = n - 1
    OBVIOUS
  <2>1. \E k \in D : Cardinality(Earlier(k)) = n - 1
    BY <1>7, <1>9
  <2>2. place[n] = CHOOSE k \in D : Cardinality(Earlier(k)) = n - 1
    OBVIOUS
  <2> HIDE DEF place
  <2> QED  BY <2>1, <2>2
<1>11. Sorted(list, before) = [n \in D |-> list[place[n]]]
  BY <1>1 DEF Sorted, Earlier
<1>12. place \in [D -> D]
  BY <1>10
<1> HIDE DEF place
<1>13. \A n \in D : rank[place[n]] = n
  BY <1>7, <1>10
<1>14. \A k \in D : \E n \in D : place[n] = k
  <2> SUFFICES ASSUME NEW k \in D PROVE place[rank[k]] = k /\ rank[k] \in D
    OBVIOUS
  <2>1. rank[k] \in D
    BY <1>5
  <2> QED  BY <1>8, <1>12, <1>13, <2>1
<1>15. ASSUME NEW m \in D, NEW n \in D, m < n PROVE <<place[m], place[n]>> \in before
  <2>1. place[m] \in D /\ place[n] \in D
    BY <1>12
  <2>2. place[m] # place[n] /\ ~(rank[place[n]] < rank[place[m]])
    BY <1>1, <1>13, <1>15
  <2>3. <<place[m], place[n]>> \in before \/ <<place[n], place[m]>> \in before
    BY <2>1, <2>2 DEF IsOrder, N
  <2> QED  BY <1>6, <2>1, <2>2, <2>3
<1> QED
  BY <1>11, <1>12, <1>14, <1>15 DEF N

\* What a strict weak order with ties broken by the position gives.
LEMMA StableOrder ==
    ASSUME NEW N \in Nat, NEW R,
           \A j, k \in 1..N : <<j, k>> \in R => <<k, j>> \notin R,
           \A j, k, l \in 1..N : <<j, l>> \in R => <<j, k>> \in R \/ <<k, l>> \in R
    PROVE  IsOrder({p \in (1..N) \X (1..N) : p \in R \/ (<<p[2], p[1]>> \notin R /\ p[1] < p[2])}, N)
<1> DEFINE B == {p \in (1..N) \X (1..N) : p \in R \/ (<<p[2], p[1]>> \notin R /\ p[1] < p[2])}
<1>1. \A j, k \in 1..N : <<j, k>> \in B <=> <<j, k>> \in R \/ (<<k, j>> \notin R /\ j < k)
  OBVIOUS
<1> HIDE DEF B
<1>2. \A j \in 1..N : <<j, j>> \notin B
  BY <1>1
<1>3. ASSUME NEW j \in 1..N, NEW k \in 1..N, j # k PROVE <<j, k>> \in B \/ <<k, j>> \in B
  <2>1. j < k \/ k < j
    BY <1>3
  <2> QED  BY <1>1, <2>1
<1>4. ASSUME NEW j \in 1..N, NEW k \in 1..N, NEW l \in 1..N, <<j, k>> \in B, <<k, l>> \in B
      PROVE  <<j, l>> \in B
  <2>1. <<k, j>> \notin R /\ <<l, k>> \notin R
    BY <1>1, <1>4
  <2>2. <<l, j>> \notin R
    BY <2>1
  <2>3. CASE <<j, k>> \in R \/ <<k, l>> \in R
    <3>1. <<j, l>> \in R
      BY <2>1, <2>3
    <3> QED  BY <1>1, <3>1
  <2>4. CASE ~(<<j, k>> \in R \/ <<k, l>> \in R)
    <3>1. j < k /\ k < l
      BY <1>1, <1>4, <2>4
    <3>2. j < l
      BY <3>1
    <3> QED  BY <1>1, <2>2, <3>2
  <2> QED  BY <2>3, <2>4
<1>5. IsOrder(B, N)
  BY <1>2, <1>3, <1>4 DEF IsOrder
<1> QED
  BY <1>5 DEF B

\* The sort key of _dedupe, with FALSE < TRUE.
LEMMA NewerWeak ==
    /\ \A i, j \in Item : Newer(i, j) => ~Newer(j, i)
    /\ \A i, j, k \in Item : Newer(i, k) => Newer(i, j) \/ Newer(j, k)
BY DEF Item, Newer

LEMMA BeforeWeak ==
    /\ \A i, j \in Item : Before(i, j) => ~Before(j, i)
    /\ \A i, j, k \in Item : Before(i, k) => Before(i, j) \/ Before(j, k)
BY DEF Item, Before

LEMMA NewestFirstOrders ==
    ASSUME NEW list \in Seq(Item) PROVE IsOrder(NewestFirst(list), Len(list))
<1> DEFINE N == Len(list)
           R == {p \in (1..N) \X (1..N) : Newer(list[p[1]], list[p[2]])}
           B == {p \in (1..N) \X (1..N) : p \in R \/ (<<p[2], p[1]>> \notin R /\ p[1] < p[2])}
<1>1. N \in Nat /\ DOMAIN list = 1..N /\ \A j \in 1..N : list[j] \in Item
  OBVIOUS
<1> HIDE DEF N
<1>2. \A j, k \in 1..N : <<j, k>> \in R <=> Newer(list[j], list[k])
  OBVIOUS
<1>3. NewestFirst(list) = B
  BY <1>1 DEF NewestFirst
<1> HIDE DEF R
<1>4. \A j, k \in 1..N : <<j, k>> \in R => <<k, j>> \notin R
  BY <1>1, <1>2, NewerWeak
<1>5. \A j, k, l \in 1..N : <<j, l>> \in R => <<j, k>> \in R \/ <<k, l>> \in R
  BY <1>1, <1>2, NewerWeak
<1>6. IsOrder(B, N)
  BY <1>1, <1>4, <1>5, StableOrder
<1> QED
  BY <1>3, <1>6 DEF N

LEMMA MostUrgentFirstOrders ==
    ASSUME NEW list \in Seq(Item) PROVE IsOrder(MostUrgentFirst(list), Len(list))
<1> DEFINE N == Len(list)
           R == {p \in (1..N) \X (1..N) : Before(list[p[1]], list[p[2]])}
           B == {p \in (1..N) \X (1..N) : p \in R \/ (<<p[2], p[1]>> \notin R /\ p[1] < p[2])}
<1>1. N \in Nat /\ DOMAIN list = 1..N /\ \A j \in 1..N : list[j] \in Item
  OBVIOUS
<1> HIDE DEF N
<1>2. \A j, k \in 1..N : <<j, k>> \in R <=> Before(list[j], list[k])
  OBVIOUS
<1>3. MostUrgentFirst(list) = B
  BY <1>1 DEF MostUrgentFirst
<1> HIDE DEF R
<1>4. \A j, k \in 1..N : <<j, k>> \in R => <<k, j>> \notin R
  BY <1>1, <1>2, BeforeWeak
<1>5. \A j, k, l \in 1..N : <<j, l>> \in R => <<j, k>> \in R \/ <<k, l>> \in R
  BY <1>1, <1>2, BeforeWeak
<1>6. IsOrder(B, N)
  BY <1>1, <1>4, <1>5, StableOrder
<1> QED
  BY <1>3, <1>6 DEF N

-----------------------------------------------------------------------------
(* _dedupe: Merge and TakeUp.                                              *)

LEMMA ConcatElements ==
    ASSUME NEW C, NEW s \in Seq(C), NEW t \in Seq(C)
    PROVE  s \o t \in Seq(C) /\ ToSet(s \o t) = ToSet(s) \cup ToSet(t)
<1> DEFINE m == Len(s)
           n == Len(t)
<1>1. m \in Nat /\ n \in Nat /\ DOMAIN s = 1..m /\ DOMAIN t = 1..n
  OBVIOUS
<1>2. /\ s \o t \in Seq(C) /\ DOMAIN (s \o t) = 1..m + n
      /\ \A k \in 1..m : (s \o t)[k] = s[k]
      /\ \A k \in 1..n : (s \o t)[m + k] = t[k]
  OBVIOUS
<1> HIDE DEF m, n
<1>3. \A x \in ToSet(s \o t) : x \in ToSet(s) \/ x \in ToSet(t)
  <2> SUFFICES ASSUME NEW k \in 1..m + n
               PROVE  (s \o t)[k] \in ToSet(s) \/ (s \o t)[k] \in ToSet(t)
    BY <1>2 DEF ToSet
  <2>1. CASE k <= m
    BY <1>1, <1>2, <2>1 DEF ToSet
  <2>2. CASE k > m
    <3>1. k - m \in 1..n /\ m + (k - m) = k
      BY <1>1, <2>2
    <3>2. (s \o t)[k] = t[k - m]
      BY <1>2, <3>1
    <3> QED  BY <1>1, <3>1, <3>2 DEF ToSet
  <2> QED  BY <1>1, <2>1, <2>2
<1>4. \A x \in ToSet(s) : x \in ToSet(s \o t)
  <2> SUFFICES ASSUME NEW k \in 1..m PROVE s[k] \in ToSet(s \o t)
    BY <1>1 DEF ToSet
  <2>1. k \in 1..m + n
    BY <1>1
  <2> QED  BY <1>2, <2>1 DEF ToSet
<1>5. \A x \in ToSet(t) : x \in ToSet(s \o t)
  <2> SUFFICES ASSUME NEW k \in 1..n PROVE t[k] \in ToSet(s \o t)
    BY <1>1 DEF ToSet
  <2>1. m + k \in 1..m + n
    BY <1>1
  <2> QED  BY <1>2, <2>1 DEF ToSet
<1> QED
  BY <1>2, <1>3, <1>4, <1>5

LEMMA UniqueKeeps ==
    ASSUME NEW C, NEW s \in Seq(C)
    PROVE  Unique(s) \in Seq(C) /\ ToSet(Unique(s)) = ToSet(s)
<1> DEFINE empty == <<>>
<1>1. empty \in Seq(C) /\ ToSet(empty) = {}
  BY DEF ToSet
<1>2. Unique(s) = Extend(empty, s)
  BY Zenon DEF Unique
<1> HIDE DEF empty
<1>3. \A seen, more \in Seq(C) : /\ Extend(seen, more) \in Seq(C)
                                /\ ToSet(Extend(seen, more)) = ToSet(seen) \cup ToSet(more)
  BY ExtendAdds
<1>4. Extend(empty, s) \in Seq(C) /\ ToSet(Extend(empty, s)) = ToSet(empty) \cup ToSet(s)
  BY <1>1, <1>3
<1> QED
  BY <1>1, <1>2, <1>4

\* What an urgent item owes before the enrichment.
Justified(i) == i.urgent => i.fromKev \/ (Severe(i) /\ i.exploit)

LEMMA MergeFields ==
    ASSUME NEW i \in Item, NEW j \in Item
    PROVE  LET m == Merge(i, j)
           IN  /\ m \in Item /\ m.id = i.id
               /\ ToSet(m.cves) = ToSet(i.cves) \cup ToSet(j.cves)
               /\ m.severity \in {i.severity, j.severity}
               /\ i.severity <= m.severity /\ j.severity <= m.severity
               /\ m.urgent <=> i.urgent \/ j.urgent
               /\ m.exploit <=> i.exploit \/ j.exploit
               /\ m.fromKev <=> i.fromKev \/ j.fromKev
<1> DEFINE m == Merge(i, j)
           cves == Unique(i.cves \o j.cves)
           severity == Max({i.severity, j.severity})
<1>1. i.cves \in Seq(Cve) /\ j.cves \in Seq(Cve) /\ i.severity \in 0..4 /\ j.severity \in 0..4
  BY DEF Item
<1>2. cves \in Seq(Cve) /\ ToSet(cves) = ToSet(i.cves) \cup ToSet(j.cves)
  <2>1. /\ i.cves \o j.cves \in Seq(Cve)
        /\ ToSet(i.cves \o j.cves) = ToSet(i.cves) \cup ToSet(j.cves)
    BY <1>1, ConcatElements
  <2>2. Unique(i.cves \o j.cves) \in Seq(Cve)
        /\ ToSet(Unique(i.cves \o j.cves)) = ToSet(i.cves \o j.cves)
    BY <2>1, UniqueKeeps
  <2> QED  BY <2>1, <2>2
<1>3. /\ severity \in {i.severity, j.severity}
      /\ i.severity <= severity /\ j.severity <= severity
  <2> DEFINE S == {i.severity, j.severity}
             N == 4
  <2>1. S \subseteq Int /\ S # {} /\ N \in Int /\ \A y \in S : y <= N
    BY <1>1
  <2>2. Max(S) \in S /\ \A y \in S : y <= Max(S)
    <3> HIDE DEF S, N
    <3> QED  BY <2>1, Greatest
  <2> QED  BY <2>2
<1>4. severity \in 0..4
  BY <1>1, <1>3
<1>5. m = [i EXCEPT !.cves = cves, !.exploit = @ \/ j.exploit, !.severity = severity,
                    !.urgent = @ \/ j.urgent, !.fromKev = @ \/ j.fromKev]
  BY DEF Merge
<1> HIDE DEF cves, severity, m
<1>6. m.id = i.id /\ m.cves = cves /\ m.severity = severity
  BY <1>5 DEF Item
<1>7. /\ m.urgent = (i.urgent \/ j.urgent)
      /\ m.exploit = (i.exploit \/ j.exploit)
      /\ m.fromKev = (i.fromKev \/ j.fromKev)
  BY <1>5 DEF Item
<1>8. m \in Item
  <2>1. i.exploit \in BOOLEAN /\ j.exploit \in BOOLEAN /\ i.urgent \in BOOLEAN
        /\ j.urgent \in BOOLEAN /\ i.fromKev \in BOOLEAN /\ j.fromKev \in BOOLEAN
    BY DEF Item
  <2>2. /\ m.exploit \in BOOLEAN /\ m.urgent \in BOOLEAN /\ m.fromKev \in BOOLEAN
        /\ m.id \in Id /\ m.cves \in Seq(Cve) /\ m.severity \in 0..4
    BY <1>2, <1>4, <1>6, <1>7, <2>1 DEF Item
  <2>3. m.kev \in BOOLEAN /\ m.score \in 0..10 \cup {Unscored} /\ m.published \in Int
    BY <1>5 DEF Item
  <2>4. m = [id |-> m.id, cves |-> m.cves, severity |-> m.severity, exploit |-> m.exploit,
             urgent |-> m.urgent, kev |-> m.kev, score |-> m.score,
             published |-> m.published, fromKev |-> m.fromKev]
    BY <1>5 DEF Item
  <2> QED  BY <2>2, <2>3, <2>4 DEF Item
<1> QED
  BY <1>2, <1>3, <1>6, <1>7, <1>8 DEF m

\* The item i says of the items at the positions J of the list what a merge of
\* them has to say.
SumsUp(i, list, J) ==
    /\ J # {}
    /\ ToSet(i.cves) = UNION {ToSet(list[j].cves) : j \in J}
    /\ \A j \in J : list[j].severity <= i.severity
    /\ \E j \in J : list[j].severity = i.severity
    /\ i.urgent <=> \E j \in J : list[j].urgent
    /\ (\A j \in J : Justified(list[j])) => Justified(i)

LEMMA SumsUpOne ==
    ASSUME NEW list \in Seq(Item), NEW n \in 1..Len(list) PROVE SumsUp(list[n], list, {n})
<1>1. list[n] \in Item
  OBVIOUS
<1>2. list[n].severity \in Int
  BY <1>1 DEF Item
<1> QED
  BY <1>2 DEF SumsUp

LEMMA SumsUpMore ==
    ASSUME NEW list \in Seq(Item), NEW i \in Item, NEW J \in SUBSET (1..Len(list)),
           SumsUp(i, list, J), NEW n \in 1..Len(list)
    PROVE  SumsUp(Merge(i, list[n]), list, J \cup {n})
<1> DEFINE m == Merge(i, list[n])
<1>1. list[n] \in Item /\ \A j \in J : list[j] \in Item
  OBVIOUS
<1>2. /\ m \in Item
      /\ ToSet(m.cves) = ToSet(i.cves) \cup ToSet(list[n].cves)
      /\ m.severity \in {i.severity, list[n].severity}
      /\ i.severity <= m.severity /\ list[n].severity <= m.severity
      /\ m.urgent <=> i.urgent \/ list[n].urgent
      /\ m.exploit <=> i.exploit \/ list[n].exploit
      /\ m.fromKev <=> i.fromKev \/ list[n].fromKev
  BY <1>1, MergeFields
<1> HIDE DEF m
<1>3. /\ m.severity \in Int /\ i.severity \in Int /\ list[n].severity \in Int
      /\ \A j \in J : list[j].severity \in Int
  <2>1. \A x \in Item : x.severity \in Int
    BY DEF Item
  <2> QED  BY <1>1, <1>2, <2>1
<1>4. ToSet(m.cves) = UNION {ToSet(list[j].cves) : j \in J \cup {n}}
  <2>1. ToSet(i.cves) = UNION {ToSet(list[j].cves) : j \in J}
    BY DEF SumsUp
  <2> QED  BY <1>2, <2>1
<1>5. \A j \in J \cup {n} : list[j].severity <= m.severity
  BY <1>2, <1>3 DEF SumsUp
<1>6. \E j \in J \cup {n} : list[j].severity = m.severity
  BY <1>2 DEF SumsUp
<1>7. m.urgent <=> \E j \in J \cup {n} : list[j].urgent
  BY <1>2 DEF SumsUp
<1>8. ASSUME \A j \in J \cup {n} : Justified(list[j]) PROVE Justified(m)
  <2>1. Justified(i) /\ Justified(list[n])
    BY <1>8 DEF SumsUp
  <2>2. (Severe(i) => Severe(m)) /\ (Severe(list[n]) => Severe(m))
    BY <1>2, <1>3 DEF Severe, High
  <2> QED  BY <1>2, <2>1, <2>2 DEF Justified
<1> QED
  BY <1>4, <1>5, <1>6, <1>7, <1>8 DEF SumsUp, m

LEMMA TakeUpType ==
    ASSUME NEW seen \in Seq(Item), NEW j \in Item PROVE TakeUp(seen, j) \in Seq(Item)
<1>1. CASE \E k \in DOMAIN seen : seen[k].id = j.id
  <2> DEFINE Kept(k) == IF seen[k].id = j.id THEN Merge(seen[k], j) ELSE seen[k]
  <2>1. TakeUp(seen, j) = [k \in 1..Len(seen) |-> Kept(k)]
    BY <1>1 DEF TakeUp
  <2>2. \A k \in 1..Len(seen) : Kept(k) \in Item
    <3> SUFFICES ASSUME NEW k \in 1..Len(seen) PROVE Kept(k) \in Item
      OBVIOUS
    <3>1. seen[k] \in Item
      OBVIOUS
    <3>2. Merge(seen[k], j) \in Item
      BY <3>1, MergeFields
    <3> QED  BY <3>1, <3>2
  <2> HIDE DEF Kept
  <2> QED  BY <2>1, <2>2
<1>2. CASE ~ \E k \in DOMAIN seen : seen[k].id = j.id
  BY <1>2 DEF TakeUp
<1> QED  BY <1>1, <1>2

\* The loop that Merged describes.
LEMMA MergedLoop ==
    ASSUME NEW list \in Seq(Item)
    PROVE  \E f \in [0..Len(list) -> Seq(Item)] :
              /\ f[0] = <<>> /\ Merged(list) = f[Len(list)]
              /\ \A n \in 1..Len(list) : f[n] = TakeUp(f[n - 1], list[n])
<1> DEFINE F(g) == [n \in 0..Len(list) |-> IF n = 0 THEN <<>> ELSE TakeUp(g[n - 1], list[n])]
           step == [n \in 1..Len(list) |-> [v \in Seq(Item) |-> TakeUp(v, list[n])]]
           f == CHOOSE h : h = F(h)
<1>0. Len(list) \in Nat /\ \A n \in 1..Len(list) : list[n] \in Item
  OBVIOUS
<1>1. Merged(list) = f[Len(list)]
  BY Zenon DEF Merged
<1>2. ASSUME NEW v \in Seq(Item), NEW n \in 1..Len(list) PROVE TakeUp(v, list[n]) \in Seq(Item)
  BY <1>0, TakeUpType
<1>3. IsRecursion(Len(list), Seq(Item), <<>>, step)
  BY <1>0, <1>2 DEF IsRecursion
<1>4. PICK g : Computes(g, Len(list), Seq(Item), <<>>, step)
  <2> HIDE DEF step
  <2> QED  BY <1>3, Recursion
<1>5. g = F(g)
  <2>1. g \in [0..Len(list) -> Seq(Item)] /\ \A n \in 1..Len(list) : n - 1 \in 0..Len(list)
    BY <1>0, <1>4 DEF Computes
  <2>2. \A n \in 1..Len(list) : g[n - 1] \in Seq(Item)
    BY <2>1
  <2>3. \A n \in 1..Len(list) : g[n] = TakeUp(g[n - 1], list[n])
    BY <1>4, <2>2 DEF Computes
  <2> QED  BY <1>0, <1>4, <2>3 DEF Computes
<1>6. f = F(f)
  <2> HIDE DEF F
  <2> QED  BY <1>5
<1> HIDE DEF f
<1>7. f[0] = <<>> /\ \A n \in 1..Len(list) : f[n] = TakeUp(f[n - 1], list[n])
  BY <1>0, <1>6
<1>8. f \in [0..Len(list) -> Seq(Item)]
  <2> DEFINE T == {n \in 0..Len(list) : f[n] \in Seq(Item)}
  <2>1. 0 \in T
    <3>1. <<>> \in Seq(Item) /\ 0 \in 0..Len(list)
      BY <1>0
    <3> QED  BY <1>7, <3>1
  <2>2. \A n \in 1..Len(list) : n - 1 \in T => n \in T
    BY <1>2, <1>7
  <2>3. 0..Len(list) \subseteq T
    <3> HIDE DEF T
    <3> QED  BY <1>0, <2>1, <2>2, Induction
  <2> QED  BY <1>6, <2>3
<1> QED
  BY <1>1, <1>7, <1>8

CopiesOf(list, n, id) == {j \in 1..n : list[j].id = id}

\* seen is the result of merging the first n items of the list.
Summary(seen, list, n) ==
    /\ \A k, l \in DOMAIN seen : seen[k].id = seen[l].id => k = l
    /\ \A j \in 1..n : \E k \in DOMAIN seen : seen[k].id = list[j].id
    /\ \A k \in DOMAIN seen : SumsUp(seen[k], list, CopiesOf(list, n, seen[k].id))

LEMMA TakeUpSummary ==
    ASSUME NEW list \in Seq(Item), NEW n \in 1..Len(list),
           NEW seen \in Seq(Item), Summary(seen, list, n - 1)
    PROVE  Summary(TakeUp(seen, list[n]), list, n)
<1> DEFINE j == list[n]
           next == TakeUp(seen, j)
           Earlier(id) == CopiesOf(list, n - 1, id)
<1>1. j \in Item /\ n \in Nat \ {0} /\ \A k \in DOMAIN seen : seen[k] \in Item
  OBVIOUS
<1>2. \A id : /\ id = j.id => CopiesOf(list, n, id) = Earlier(id) \cup {n}
              /\ id # j.id => CopiesOf(list, n, id) = Earlier(id)
              /\ Earlier(id) \in SUBSET (1..Len(list))
  BY <1>1 DEF CopiesOf
<1>3. \A i \in 1..n : i \in 1..n - 1 \/ i = n
  BY <1>1
<1>4. CASE \E k \in DOMAIN seen : seen[k].id = j.id
  <2>1. next = [k \in DOMAIN seen |-> IF seen[k].id = j.id THEN Merge(seen[k], j) ELSE seen[k]]
    BY <1>4 DEF TakeUp
  <2> HIDE DEF next, j
  <2>2. DOMAIN next = DOMAIN seen /\ \A k \in DOMAIN seen : next[k].id = seen[k].id
    <3>1. \A k \in DOMAIN seen : Merge(seen[k], j).id = seen[k].id
      BY <1>1, MergeFields
    <3> QED  BY <2>1, <3>1
  <2>3. ASSUME NEW k \in DOMAIN seen
        PROVE  SumsUp(next[k], list, CopiesOf(list, n, seen[k].id))
    <3>0. SumsUp(seen[k], list, Earlier(seen[k].id)) /\ seen[k] \in Item
      BY <1>1 DEF Summary
    <3>1. CASE seen[k].id = j.id
      <4>1. SumsUp(Merge(seen[k], j), list, Earlier(seen[k].id) \cup {n})
        BY <1>2, <3>0, SumsUpMore DEF j
      <4> QED  BY <1>2, <2>1, <3>1, <4>1
    <3>2. CASE seen[k].id # j.id
      BY <1>2, <2>1, <3>0, <3>2
    <3> QED  BY <3>1, <3>2
  <2>4. \A i \in 1..n : \E k \in DOMAIN seen : seen[k].id = list[i].id
    BY <1>3, <1>4 DEF Summary, j
  <2>5. \A k, l \in DOMAIN seen : seen[k].id = seen[l].id => k = l
    BY DEF Summary
  <2>6. Summary(next, list, n)
    BY <2>2, <2>3, <2>4, <2>5 DEF Summary
  <2> QED  BY <2>6 DEF next, j
<1>5. CASE ~ \E k \in DOMAIN seen : seen[k].id = j.id
  <2> DEFINE m == Len(seen)
  <2>1. next = Append(seen, j)
    BY <1>5 DEF TakeUp
  <2>2. m \in Nat /\ DOMAIN seen = 1..m
    OBVIOUS
  <2>3. DOMAIN next = 1..m + 1 /\ next[m + 1] = j /\ \A k \in 1..m : next[k] = seen[k]
    BY <1>1, <2>1
  <2> HIDE DEF next, m
  <2>4. \A k \in 1..m + 1 : k \in 1..m \/ k = m + 1
    BY <2>2
  <2>5. Earlier(j.id) = {}
    BY <1>5 DEF Summary, CopiesOf
  <2>6. SumsUp(j, list, CopiesOf(list, n, j.id))
    <3>1. CopiesOf(list, n, j.id) = {n}
      BY <1>2, <2>5
    <3> QED  BY <3>1, SumsUpOne
  <2> HIDE DEF j
  <2>7. \A k \in 1..m : seen[k].id # j.id /\ SumsUp(seen[k], list, CopiesOf(list, n, seen[k].id))
    BY <1>2, <1>5, <2>2 DEF Summary
  <2>8. \A k \in DOMAIN next : SumsUp(next[k], list, CopiesOf(list, n, next[k].id))
    BY <2>3, <2>4, <2>6, <2>7
  <2>9. \A k, l \in DOMAIN next : next[k].id = next[l].id => k = l
    <3>1. \A k, l \in 1..m : seen[k].id = seen[l].id => k = l
      BY <2>2 DEF Summary
    <3> QED  BY <2>3, <2>4, <2>7, <3>1
  <2>10. ASSUME NEW i \in 1..n PROVE \E k \in DOMAIN next : next[k].id = list[i].id
    <3>1. CASE i = n
      <4>1. m + 1 \in DOMAIN next
        BY <2>2, <2>3
      <4> QED  BY <2>3, <3>1, <4>1 DEF j
    <3>2. CASE i # n
      <4>1. PICK k \in 1..m : seen[k].id = list[i].id
        BY <1>3, <2>2, <3>2 DEF Summary
      <4>2. k \in DOMAIN next
        BY <2>2, <2>3
      <4> QED  BY <2>3, <4>1, <4>2
    <3> QED  BY <3>1, <3>2
  <2>11. Summary(next, list, n)
    BY <2>8, <2>9, <2>10 DEF Summary
  <2> QED  BY <2>11 DEF next, j
<1> QED  BY <1>4, <1>5

\* For every list of items: one item per id, which sums up its copies.
LEMMA MergedSummary ==
    ASSUME NEW list \in Seq(Item)
    PROVE  Merged(list) \in Seq(Item) /\ Summary(Merged(list), list, Len(list))
<1>1. PICK f \in [0..Len(list) -> Seq(Item)] :
         /\ f[0] = <<>> /\ Merged(list) = f[Len(list)]
         /\ \A n \in 1..Len(list) : f[n] = TakeUp(f[n - 1], list[n])
  BY MergedLoop
<1>0. Len(list) \in Nat
  OBVIOUS
<1> DEFINE T == {n \in 0..Len(list) : Summary(f[n], list, n)}
<1>2. 0 \in T
  BY <1>0, <1>1 DEF Summary
<1>3. ASSUME NEW n \in 1..Len(list), n - 1 \in T PROVE n \in T
  <2>1. n - 1 \in 0..Len(list) /\ n \in 0..Len(list)
    BY <1>0
  <2>2. f[n - 1] \in Seq(Item) /\ Summary(f[n - 1], list, n - 1)
    BY <1>3, <2>1
  <2>3. Summary(TakeUp(f[n - 1], list[n]), list, n)
    BY <2>2, TakeUpSummary
  <2> QED  BY <1>1, <2>1, <2>3
<1>4. 0..Len(list) \subseteq T
  <2> HIDE DEF T
  <2>1. \A n \in 1..Len(list) : n - 1 \in T => n \in T
    BY <1>3
  <2> QED  BY <1>0, <1>2, <2>1, Induction
<1> QED
  BY <1>0, <1>1, <1>4

-----------------------------------------------------------------------------
(* _dedupe as a whole.                                                     *)

\* What MergeKeepsEvidence asks of the merged list.
KeepsEvidence(out, list) ==
    /\ {i.id : i \in ToSet(out)} = {j.id : j \in ToSet(list)}
    /\ \A k, l \in DOMAIN out : out[k].id = out[l].id => k = l
    /\ \A i \in ToSet(out) :
          LET copies == {j \in ToSet(list) : j.id = i.id}
          IN  /\ ToSet(i.cves) = UNION {ToSet(j.cves) : j \in copies}
              /\ i.severity = Max({j.severity : j \in copies})
              /\ i.urgent = \E j \in copies : j.urgent
    /\ \A k \in 1..Len(out) - 1 : ~Newer(out[k + 1], out[k])

LEMMA MaxIs ==
    ASSUME NEW S, S \subseteq Int, NEW x \in S, \A y \in S : y <= x PROVE Max(S) = x
<1>1. x \in Int /\ S # {}
  OBVIOUS
<1>2. Max(S) \in S /\ \A y \in S : y <= Max(S)
  BY <1>1, Greatest
<1>3. Max(S) \in Int /\ Max(S) <= x /\ x <= Max(S)
  BY <1>2
<1> QED
  BY <1>1, <1>3

\* Positions and items: the copies of an item in the list.
LEMMA SumsUpCopies ==
    ASSUME NEW list \in Seq(Item), NEW i \in Item, SumsUp(i, list, CopiesOf(list, Len(list), i.id))
    PROVE  LET copies == {j \in ToSet(list) : j.id = i.id}
           IN  /\ copies # {}
               /\ ToSet(i.cves) = UNION {ToSet(j.cves) : j \in copies}
               /\ i.severity = Max({j.severity : j \in copies})
               /\ i.urgent = \E j \in copies : j.urgent
<1> DEFINE J == CopiesOf(list, Len(list), i.id)
           copies == {j \in ToSet(list) : j.id = i.id}
           severities == {j.severity : j \in copies}
<1>1. copies = {list[j] : j \in J}
  <2>1. DOMAIN list = 1..Len(list)
    OBVIOUS
  <2> QED  BY <2>1 DEF CopiesOf, ToSet
<1>2. \A j \in J : list[j] \in Item
  BY DEF CopiesOf
<1>3. copies # {}
  BY <1>1 DEF SumsUp
<1> HIDE DEF J, copies
<1>4. ToSet(i.cves) = UNION {ToSet(j.cves) : j \in copies}
  <2>1. ToSet(i.cves) = UNION {ToSet(list[j].cves) : j \in J}
    BY DEF SumsUp, J
  <2> QED  BY <1>1, <2>1
<1>5. i.severity = Max({j.severity : j \in copies})
  <2>1. \A x \in Item : x.severity \in Int
    BY DEF Item
  <2>2. severities \subseteq Int
    BY <1>1, <1>2, <2>1
  <2>3. i.severity \in severities
    BY <1>1 DEF SumsUp, J
  <2>4. \A y \in severities : y <= i.severity
    BY <1>1 DEF SumsUp, J
  <2>5. Max(severities) = i.severity
    <3> HIDE DEF severities
    <3> QED  BY <2>2, <2>3, <2>4, MaxIs
  <2> QED  BY <2>5
<1>6. i.urgent <=> \E j \in copies : j.urgent
  BY <1>1 DEF SumsUp, J
<1>7. i.urgent \in BOOLEAN
  BY DEF Item
<1>8. i.urgent = \E j \in copies : j.urgent
  BY <1>6, <1>7
<1> QED
  BY <1>3, <1>4, <1>5, <1>8 DEF copies

LEMMA DedupeKeeps ==
    ASSUME NEW list \in Seq(Item)
    PROVE  /\ Dedupe(list) \in Seq(Item)
           /\ KeepsEvidence(Dedupe(list), list)
           /\ (\A j \in DOMAIN list : Justified(list[j]))
                 => \A k \in DOMAIN Dedupe(list) : Justified(Dedupe(list)[k])
<1> DEFINE merged == Merged(list)
           N == Len(merged)
           out == Dedupe(list)
<1>1. merged \in Seq(Item) /\ Summary(merged, list, Len(list))
  BY MergedSummary
<1>2. PICK place \in [1..N -> 1..N] :
         /\ out = [n \in 1..N |-> merged[place[n]]]
         /\ \A k \in 1..N : \E n \in 1..N : place[n] = k
         /\ \A m, n \in 1..N : m < n => <<place[m], place[n]>> \in NewestFirst(merged)
  <2> HIDE DEF merged
  <2>1. IsOrder(NewestFirst(merged), N)
    BY <1>1, NewestFirstOrders
  <2>2. out = Sorted(merged, NewestFirst(merged))
    BY DEF Dedupe, merged
  <2> HIDE DEF out
  <2> QED  BY <1>1, <2>1, <2>2, SortedPermutes
<1> HIDE DEF merged, out
<1>3. N \in Nat /\ DOMAIN merged = 1..N /\ \A k \in 1..N : merged[k] \in Item
  BY <1>1
<1> HIDE DEF N
<1>4. DOMAIN out = 1..N /\ \A n \in 1..N : place[n] \in 1..N /\ out[n] = merged[place[n]]
  BY <1>2
<1>5. out \in Seq(Item) /\ Len(out) = N
  <2>1. out \in [1..N -> Item]
    BY <1>2, <1>3
  <2> QED  BY <1>3, <2>1
<1>6. ASSUME NEW m \in 1..N, NEW n \in 1..N, place[m] = place[n] PROVE m = n
  <2>1. \A k \in 1..N : <<k, k>> \notin NewestFirst(merged)
    BY <1>1, NewestFirstOrders DEF IsOrder, N
  <2>2. ~(m < n) /\ ~(n < m)
    BY <1>2, <1>4, <1>6, <2>1
  <2> QED  BY <1>3, <2>2
<1>7. \A k, l \in 1..N : out[k].id = out[l].id => k = l
  <2>1. \A k, l \in 1..N : merged[k].id = merged[l].id => k = l
    BY <1>1, <1>3 DEF Summary
  <2> QED  BY <1>4, <1>6, <2>1
<1>8. \A i \in ToSet(out) : i \in Item /\ SumsUp(i, list, CopiesOf(list, Len(list), i.id))
  <2>1. \A k \in 1..N : SumsUp(merged[k], list, CopiesOf(list, Len(list), merged[k].id))
    BY <1>1, <1>3 DEF Summary
  <2> QED  BY <1>3, <1>4, <2>1 DEF ToSet
<1>9. {i.id : i \in ToSet(out)} = {j.id : j \in ToSet(list)}
  <2>1. ASSUME NEW i \in ToSet(out) PROVE \E j \in ToSet(list) : j.id = i.id
    BY <1>8, SumsUpCopies
  <2>2. ASSUME NEW j \in ToSet(list) PROVE \E i \in ToSet(out) : i.id = j.id
    <3>1. PICK l \in 1..Len(list) : j = list[l]
      BY DEF ToSet
    <3>2. PICK k \in 1..N : merged[k].id = j.id
      BY <1>1, <1>3, <3>1 DEF Summary
    <3>3. PICK n \in 1..N : place[n] = k
      BY <1>2
    <3> QED  BY <1>4, <3>2, <3>3 DEF ToSet
  <2> QED  BY <2>1, <2>2
<1>10. ASSUME NEW k \in 1..N - 1 PROVE ~Newer(out[k + 1], out[k])
  <2>1. k \in 1..N /\ k + 1 \in 1..N /\ k < k + 1
    BY <1>3
  <2>2. <<place[k], place[k + 1]>> \in NewestFirst(merged)
    BY <1>2, <2>1
  <2>3. \/ Newer(merged[place[k]], merged[place[k + 1]])
        \/ ~Newer(merged[place[k + 1]], merged[place[k]])
    BY <2>2 DEF NewestFirst
  <2>4. Newer(out[k], out[k + 1]) \/ ~Newer(out[k + 1], out[k])
    BY <1>4, <2>1, <2>3
  <2>5. out[k] \in Item /\ out[k + 1] \in Item
    BY <1>3, <1>4, <2>1
  <2> QED  BY <2>4, <2>5, NewerWeak
<1>11. ASSUME \A j \in DOMAIN list : Justified(list[j]), NEW k \in 1..N PROVE Justified(out[k])
  <2>1. SumsUp(merged[place[k]], list, CopiesOf(list, Len(list), merged[place[k]].id))
    BY <1>1, <1>3, <1>4 DEF Summary
  <2>2. \A j \in CopiesOf(list, Len(list), merged[place[k]].id) : Justified(list[j])
    BY <1>11 DEF CopiesOf
  <2>3. Justified(merged[place[k]])
    BY <2>1, <2>2 DEF SumsUp
  <2> QED  BY <1>4, <2>3
<1>12. KeepsEvidence(out, list)
  <2>1. \A i \in ToSet(out) :
          LET copies == {j \in ToSet(list) : j.id = i.id}
          IN  /\ ToSet(i.cves) = UNION {ToSet(j.cves) : j \in copies}
              /\ i.severity = Max({j.severity : j \in copies})
              /\ i.urgent = \E j \in copies : j.urgent
    BY <1>8, SumsUpCopies
  <2> QED  BY <1>4, <1>5, <1>7, <1>9, <1>10, <2>1 DEF KeepsEvidence
<1> QED
  BY <1>4, <1>5, <1>11, <1>12 DEF out

-----------------------------------------------------------------------------
(* fetch_all: what the sources deliver.                                    *)

\* Lists of items whose urgency is justified.
JustifiedList == {list \in Seq(Item) : \A k \in DOMAIN list : Justified(list[k])}

LEMMA RecentEntriesType ==
    ASSUME NEW catalog \in SUBSET Cve PROVE RecentEntries(catalog) \in JustifiedList
<1> DEFINE D == {d \in catalog : listedFor[d] \in 0..KevSourceDays}
           S == {CatalogItem[c] : c \in D}
           seq == SetToSeq(S)
<1>1. RecentEntries(catalog) = seq
  BY DEF RecentEntries
<1>2. \A i \in S : i \in Item /\ Justified(i)
  BY EnrichmentAssumption DEF Justified
<1>3. IsFiniteSet(D)
  <2>1. IsFiniteSet(Cve) /\ D \in SUBSET Cve
    BY EnrichmentAssumption
  <2> HIDE DEF D
  <2> QED  BY <2>1, FS_Subset
<1> HIDE DEF D
<1>4. IsFiniteSet(S)
  <2> DEFINE item == [c \in D |-> CatalogItem[c]]
  <2>1. item \in Surjection(D, S)
    BY DEF Surjection
  <2> HIDE DEF item, S
  <2> QED  BY <1>3, <2>1, FS_Surjection
<1> HIDE DEF S
<1>5. Cardinality(S) \in Nat /\ \E f \in [1..Cardinality(S) -> S] : IsInjective(f)
  <2>1. Cardinality(S) \in Nat /\ ExistsBijection(1..Cardinality(S), S)
    BY <1>4, FS_CardinalityType
  <2> QED  BY <2>1 DEF ExistsBijection, Bijection, Injection
<1>6. seq \in [1..Cardinality(S) -> S]
  BY <1>5 DEF SetToSeq
<1> HIDE DEF seq
<1>7. seq \in [1..Cardinality(S) -> Item] /\ \A k \in DOMAIN seq : Justified(seq[k])
  BY <1>2, <1>6
<1>8. seq \in Seq(Item)
  BY <1>5, <1>7
<1> QED
  BY <1>1, <1>7, <1>8 DEF JustifiedList

LEMMA DeliveryType ==
    ASSUME NEW answering, NEW catalog \in SUBSET Cve, NEW s \in ToSet(Sources)
    PROVE  Delivery(s, answering, catalog) \in JustifiedList
<1>1. CASE s \notin answering
  BY <1>1 DEF Delivery, JustifiedList
<1>2. CASE s \in answering /\ s = "kev"
  BY <1>2, RecentEntriesType DEF Delivery
<1>3. CASE s \in answering /\ s # "kev"
  <2>1. Publishes[s] \in Seq(Item) /\ \A i \in ToSet(Publishes[s]) : Justified(i)
    BY <1>3, EnrichmentAssumption DEF Justified
  <2>2. Publishes[s] \in JustifiedList
    BY <2>1 DEF JustifiedList, ToSet
  <2> QED  BY <1>3, <2>2 DEF Delivery
<1> QED  BY <1>1, <1>2, <1>3

LEMMA ConcatJustified ==
    ASSUME NEW s \in JustifiedList, NEW t \in JustifiedList PROVE s \o t \in JustifiedList
<1>1. s \in Seq(Item) /\ t \in Seq(Item)
  BY DEF JustifiedList
<1>2. s \o t \in Seq(Item) /\ ToSet(s \o t) = ToSet(s) \cup ToSet(t)
  BY <1>1, ConcatElements
<1>3. \A i \in ToSet(s) \cup ToSet(t) : Justified(i)
  BY DEF JustifiedList, ToSet
<1> QED
  BY <1>2, <1>3 DEF JustifiedList, ToSet

\* What the sources deliver together is a list of items, and urgent only are
\* those of the catalog and severe ones about an exploit.
LEMMA DeliveredType ==
    ASSUME NEW answering, NEW catalog \in SUBSET Cve
    PROVE  Delivered(answering, catalog) \in JustifiedList
<1> DEFINE N == Len(Sources)
           Adds(v, n) == v \o Delivery(Sources[n], answering, catalog)
           F(g) == [n \in 0..N |-> IF n = 0 THEN <<>> ELSE Adds(g[n - 1], n)]
           step == [n \in 1..N |-> [v \in JustifiedList |-> Adds(v, n)]]
           f == CHOOSE h : h = F(h)
<1>0. N \in Nat /\ \A n \in 1..N : Sources[n] \in ToSet(Sources)
  BY EnrichmentAssumption DEF ToSet
<1>1. Delivered(answering, catalog) = f[N]
  BY Zenon DEF Delivered
<1> HIDE DEF N
<1>2. <<>> \in JustifiedList
  BY DEF JustifiedList
<1>3. ASSUME NEW v \in JustifiedList, NEW n \in 1..N PROVE Adds(v, n) \in JustifiedList
  BY <1>0, DeliveryType, ConcatJustified
<1> HIDE DEF Adds
<1>4. IsRecursion(N, JustifiedList, <<>>, step)
  BY <1>0, <1>2, <1>3 DEF IsRecursion
<1>5. PICK g : Computes(g, N, JustifiedList, <<>>, step)
  <2> HIDE DEF step
  <2> QED  BY <1>4, Recursion
<1>6. g = F(g)
  <2>1. g \in [0..N -> JustifiedList] /\ \A n \in 1..N : n - 1 \in 0..N
    BY <1>0, <1>5 DEF Computes
  <2>2. \A n \in 1..N : g[n - 1] \in JustifiedList
    BY <2>1
  <2>3. \A n \in 1..N : g[n] = Adds(g[n - 1], n)
    BY <1>5, <2>2 DEF Computes
  <2> QED  BY <1>0, <1>5, <2>3 DEF Computes
<1>7. f = F(f)
  <2> HIDE DEF F
  <2> QED  BY <1>6
<1> HIDE DEF f
<1>8. f[0] = <<>> /\ \A n \in 1..N : f[n] = Adds(f[n - 1], n)
  BY <1>0, <1>7
<1> DEFINE T == {n \in 0..N : f[n] \in JustifiedList}
<1>9. 0 \in T
  BY <1>0, <1>2, <1>8
<1>10. \A n \in 1..N : n - 1 \in T => n \in T
  BY <1>3, <1>8
<1>11. 0..N \subseteq T
  <2> HIDE DEF T
  <2> QED  BY <1>0, <1>9, <1>10, Induction
<1> QED
  BY <1>0, <1>1, <1>11

-----------------------------------------------------------------------------
(* enrich_with_osv: which CVEs are asked for.                              *)

\* The loop that CveList describes.
LEMMA CveListLoop ==
    ASSUME NEW list \in Seq(Item)
    PROVE  \E f \in [0..Len(list) -> Seq(Cve)] :
              /\ f[0] = <<>> /\ CveList(list) = f[Len(list)]
              /\ \A n \in 1..Len(list) : f[n] = Extend(f[n - 1], list[n].cves)
<1> DEFINE N == Len(list)
           F(g) == [n \in 0..N |-> IF n = 0 THEN <<>> ELSE Extend(g[n - 1], list[n].cves)]
           step == [n \in 1..N |-> [v \in Seq(Cve) |-> Extend(v, list[n].cves)]]
           f == CHOOSE h : h = F(h)
<1>0. N \in Nat /\ \A n \in 1..N : list[n].cves \in Seq(Cve)
  <2>1. \A i \in Item : i.cves \in Seq(Cve)
    BY DEF Item
  <2> QED  BY <2>1
<1>1. CveList(list) = f[N]
  BY Zenon DEF CveList
<1> HIDE DEF N
<1>2. <<>> \in Seq(Cve)
  OBVIOUS
<1>3. ASSUME NEW v \in Seq(Cve), NEW n \in 1..N PROVE Extend(v, list[n].cves) \in Seq(Cve)
  BY <1>0, ExtendAdds
<1>4. IsRecursion(N, Seq(Cve), <<>>, step)
  BY <1>0, <1>2, <1>3 DEF IsRecursion
<1>5. PICK g : Computes(g, N, Seq(Cve), <<>>, step)
  <2> HIDE DEF step
  <2> QED  BY <1>4, Recursion
<1>6. g = F(g)
  <2>1. g \in [0..N -> Seq(Cve)] /\ \A n \in 1..N : n - 1 \in 0..N
    BY <1>0, <1>5 DEF Computes
  <2>2. \A n \in 1..N : g[n - 1] \in Seq(Cve)
    BY <2>1
  <2>3. \A n \in 1..N : g[n] = Extend(g[n - 1], list[n].cves)
    BY <1>5, <2>2 DEF Computes
  <2> QED  BY <1>0, <1>5, <2>3 DEF Computes
<1>7. f = F(f)
  <2> HIDE DEF F
  <2> QED  BY <1>6
<1> HIDE DEF f
<1>8. f[0] = <<>> /\ \A n \in 1..N : f[n] = Extend(f[n - 1], list[n].cves)
  BY <1>0, <1>7
<1>9. f \in [0..N -> Seq(Cve)]
  <2> DEFINE T == {n \in 0..N : f[n] \in Seq(Cve)}
  <2>1. 0 \in T
    <3>1. 0 \in 0..N
      BY <1>0
    <3> QED  BY <1>2, <1>8, <3>1
  <2>2. \A n \in 1..N : n - 1 \in T => n \in T
    BY <1>3, <1>8
  <2>3. 0..N \subseteq T
    <3> HIDE DEF T
    <3> QED  BY <1>0, <2>1, <2>2, Induction
  <2> QED  BY <1>7, <2>3
<1> QED
  BY <1>1, <1>8, <1>9 DEF N

\* The CVEs of the first u items of the list come first in CveList.
LEMMA CveListPrefix ==
    ASSUME NEW list \in Seq(Item), NEW u \in 0..Len(list)
    PROVE  /\ CveList(list) \in Seq(Cve)
           /\ \E first \in Seq(Cve) :
                 /\ ToSet(first) = UNION {ToSet(list[j].cves) : j \in 1..u}
                 /\ Len(first) <= Len(CveList(list))
                 /\ \A k \in 1..Len(first) : CveList(list)[k] = first[k]
<1> DEFINE N == Len(list)
<1>1. PICK f \in [0..N -> Seq(Cve)] :
         /\ f[0] = <<>> /\ CveList(list) = f[N]
         /\ \A n \in 1..N : f[n] = Extend(f[n - 1], list[n].cves)
  BY CveListLoop
<1>0. N \in Nat /\ \A n \in 1..N : list[n].cves \in Seq(Cve)
  <2>1. \A i \in Item : i.cves \in Seq(Cve)
    BY DEF Item
  <2> QED  BY <2>1
<1> HIDE DEF N
<1>2. \A n \in 0..N : f[n] \in Seq(Cve) /\ Len(f[n]) \in Nat
  <2>1. \A n \in 0..N : f[n] \in Seq(Cve)
    OBVIOUS
  <2> QED  BY <2>1
<1>3. ASSUME NEW n \in 1..N
      PROVE  /\ n - 1 \in 0..N /\ n \in 0..N
             /\ ToSet(f[n]) = ToSet(f[n - 1]) \cup ToSet(list[n].cves)
             /\ Len(f[n - 1]) <= Len(f[n])
             /\ \A k \in 1..Len(f[n - 1]) : f[n][k] = f[n - 1][k]
  <2>1. n - 1 \in 0..N /\ n \in 0..N
    BY <1>0
  <2>2. f[n - 1] \in Seq(Cve) /\ list[n].cves \in Seq(Cve)
    BY <1>0, <1>2, <2>1
  <2>3. f[n] = Extend(f[n - 1], list[n].cves)
    BY <1>1
  <2> QED  BY <2>1, <2>2, <2>3, ExtendAdds
<1> DEFINE CvesTo(n) == UNION {ToSet(list[j].cves) : j \in 1..n}
           Has(n) == ToSet(f[n]) = CvesTo(n)
           H == {n \in 0..N : Has(n)}
           Starts(n) == u <= n => /\ Len(f[u]) <= Len(f[n])
                                  /\ \A k \in 1..Len(f[u]) : f[n][k] = f[u][k]
           S == {n \in 0..N : Starts(n)}
<1>4. 0..N \subseteq H
  <2>1. 0 \in H
    BY <1>0, <1>1 DEF ToSet
  <2>2. ASSUME NEW n \in 1..N, n - 1 \in H PROVE n \in H
    <3>1. CvesTo(n) = CvesTo(n - 1) \cup ToSet(list[n].cves)
      <4>1. \A j \in 1..n : j \in 1..n - 1 \/ j = n
        BY <1>0
      <4>2. n \in 1..n /\ \A j \in 1..n - 1 : j \in 1..n
        BY <1>0
      <4> QED  BY <4>1, <4>2
    <3> HIDE DEF CvesTo
    <3> QED  BY <1>3, <2>2, <3>1
  <2> HIDE DEF H
  <2> QED  BY <1>0, <2>1, <2>2, Induction
<1>5. 0..N \subseteq S
  <2>0. u \in 0..N
    BY DEF N
  <2>1. 0 \in S
    <3>1. u <= 0 => u = 0
      BY <1>0, <2>0
    <3> QED  BY <1>0, <1>2, <3>1
  <2>2. ASSUME NEW n \in 1..N, n - 1 \in S PROVE n \in S
    <3>0. /\ n \in 0..N /\ n - 1 \in 0..N
          /\ Len(f[u]) \in Nat /\ Len(f[n]) \in Nat /\ Len(f[n - 1]) \in Nat
      BY <1>2, <1>3, <2>0
    <3>1. CASE u = n
      BY <3>0, <3>1
    <3>2. CASE u > n
      BY <2>0, <3>0, <3>2
    <3>3. CASE u < n
      <4>1. u <= n - 1 /\ Starts(n - 1)
        BY <1>0, <2>0, <2>2, <3>3
      <4>2. Len(f[u]) <= Len(f[n - 1]) /\ \A k \in 1..Len(f[u]) : f[n - 1][k] = f[u][k]
        BY <4>1
      <4>3. Len(f[u]) <= Len(f[n])
        BY <1>3, <3>0, <4>2
      <4>4. \A k \in 1..Len(f[u]) : f[n][k] = f[u][k]
        <5> SUFFICES ASSUME NEW k \in 1..Len(f[u]) PROVE f[n][k] = f[u][k]
          OBVIOUS
        <5>1. k \in 1..Len(f[n - 1])
          BY <3>0, <4>2
        <5> QED  BY <1>3, <4>2, <5>1
      <4> QED  BY <3>0, <4>3, <4>4
    <3> QED  BY <1>0, <2>0, <3>1, <3>2, <3>3
  <2> HIDE DEF S
  <2> QED  BY <1>0, <2>1, <2>2, Induction
<1>6. u \in 0..N /\ N \in 0..N /\ u <= N
  BY <1>0 DEF N
<1>7. Has(u) /\ Starts(N)
  BY <1>4, <1>5, <1>6
<1> QED
  BY <1>1, <1>2, <1>6, <1>7

\* Urgent items are considered first.
LEMMA SortedByUrgency ==
    ASSUME NEW list \in Seq(Item)
    PROVE  LET out == Sorted(list, MostUrgentFirst(list))
           IN  /\ out \in Seq(Item) /\ ToSet(out) = ToSet(list)
               /\ \A m, n \in 1..Len(out) : m < n /\ out[n].urgent => out[m].urgent
<1> DEFINE N == Len(list)
           out == Sorted(list, MostUrgentFirst(list))
<1>1. PICK place \in [1..N -> 1..N] :
         /\ out = [n \in 1..N |-> list[place[n]]]
         /\ \A k \in 1..N : \E n \in 1..N : place[n] = k
         /\ \A m, n \in 1..N : m < n => <<place[m], place[n]>> \in MostUrgentFirst(list)
  <2>1. IsOrder(MostUrgentFirst(list), N)
    BY MostUrgentFirstOrders
  <2> QED  BY <2>1, SortedPermutes
<1> HIDE DEF out
<1>2. N \in Nat /\ DOMAIN list = 1..N /\ \A k \in 1..N : list[k] \in Item
  OBVIOUS
<1> HIDE DEF N
<1>3. DOMAIN out = 1..N /\ \A n \in 1..N : place[n] \in 1..N /\ out[n] = list[place[n]]
  BY <1>1
<1>4. out \in Seq(Item) /\ Len(out) = N
  <2>1. out \in [1..N -> Item]
    BY <1>1, <1>2
  <2> QED  BY <1>2, <2>1
<1>5. ToSet(out) = ToSet(list)
  <2>1. ASSUME NEW n \in 1..N PROVE out[n] \in ToSet(list)
    BY <1>2, <1>3 DEF ToSet
  <2>2. ASSUME NEW k \in 1..N PROVE list[k] \in ToSet(out)
    <3>1. PICK n \in 1..N : place[n] = k
      BY <1>1
    <3> QED  BY <1>3, <3>1 DEF ToSet
  <2>3. ToSet(out) \subseteq ToSet(list)
    BY <1>3, <2>1, Zenon DEF ToSet
  <2>4. ToSet(list) \subseteq ToSet(out)
    BY <1>2, <2>2, Zenon DEF ToSet
  <2> QED  BY <2>3, <2>4
<1>6. ASSUME NEW m \in 1..N, NEW n \in 1..N, m < n, out[n].urgent PROVE out[m].urgent
  <2>1. <<place[m], place[n]>> \in MostUrgentFirst(list)
    BY <1>1, <1>6
  <2>2. Before(list[place[m]], list[place[n]]) \/ ~Before(list[place[n]], list[place[m]])
    BY <2>1 DEF MostUrgentFirst
  <2>3. Before(out[m], out[n]) \/ ~Before(out[n], out[m])
    BY <1>3, <2>2
  <2>4. out[m].urgent \in BOOLEAN /\ out[n].urgent \in BOOLEAN
    <3>1. out[m] \in Item /\ out[n] \in Item
      BY <1>2, <1>3
    <3> QED  BY <3>1 DEF Item
  <2> QED  BY Zenon, <1>6, <2>3, <2>4 DEF Before
<1> QED
  BY <1>4, <1>5, <1>6 DEF out

\* The cap cuts the list off: what it leaves is at most as long as the cap.
LEMMA CappedPrefix ==
    ASSUME NEW cves \in Seq(Cve)
    PROVE  /\ Capped(cves) \in Seq(Cve) /\ Len(Capped(cves)) <= Len(cves)
           /\ OsvMaxCves > 0 => Len(Capped(cves)) <= OsvMaxCves
           /\ \A k \in 1..Len(Capped(cves)) : Capped(cves)[k] = cves[k]
<1>1. OsvMaxCves \in Nat /\ Len(cves) \in Nat
  BY EnrichmentAssumption
<1>2. CASE OsvMaxCves > 0 /\ Len(cves) > OsvMaxCves
  <2>1. Capped(cves) = SubSeq(cves, 1, OsvMaxCves)
    BY <1>2 DEF Capped
  <2> QED  BY <1>1, <1>2, <2>1
<1>3. CASE ~(OsvMaxCves > 0 /\ Len(cves) > OsvMaxCves)
  BY <1>1, <1>3 DEF Capped
<1> QED  BY <1>2, <1>3

\* A sequence has no more elements than it is long.
LEMMA FewElements ==
    ASSUME NEW C, NEW s \in Seq(C)
    PROVE  IsFiniteSet(ToSet(s)) /\ Cardinality(ToSet(s)) <= Len(s)
<1> DEFINE N == Len(s)
<1>1. s \in Surjection(1..N, ToSet(s)) /\ N \in Nat
  BY DEF Surjection, ToSet
<1> HIDE DEF N
<1>2. IsFiniteSet(1..N) /\ Cardinality(1..N) = N
  BY <1>1, FS_Interval
<1>3. IsFiniteSet(ToSet(s)) /\ Cardinality(ToSet(s)) <= N
  BY <1>1, <1>2, FS_Surjection
<1> QED
  BY <1>3 DEF N

\* For every list of items and every cap: the CVEs that fetch_osv is called with
\* are not more than the cap, and leave out one of an urgent item only if all of
\* them are of urgent items.
LEMMA OsvListKeeps ==
    ASSUME NEW list \in Seq(Item)
    PROVE  LET chosen == ToSet(OsvList(list))
               urgent == UNION {ToSet(i.cves) : i \in {j \in ToSet(list) : j.urgent}}
           IN  /\ chosen \subseteq Cve /\ IsFiniteSet(chosen)
               /\ OsvMaxCves > 0 => Cardinality(chosen) <= OsvMaxCves
               /\ urgent \subseteq chosen \/ chosen \subseteq urgent
<1> DEFINE out == Sorted(list, MostUrgentFirst(list))
           N == Len(out)
           all == CveList(out)
           cut == Capped(all)
           urgent == UNION {ToSet(i.cves) : i \in {j \in ToSet(list) : j.urgent}}
<1>1. /\ out \in Seq(Item) /\ ToSet(out) = ToSet(list)
      /\ \A m, n \in 1..N : m < n /\ out[n].urgent => out[m].urgent
  BY SortedByUrgency
<1>2. OsvList(list) = cut
  BY DEF OsvList
<1> HIDE DEF out
<1>3. N \in Nat /\ DOMAIN out = 1..N
  BY <1>1
<1> DEFINE U == {n \in 0..N : n = 0 \/ out[n].urgent}
           u == Max(U)
<1>4. u \in 0..N /\ \A n \in 1..N : out[n].urgent <=> n <= u
  <2> HIDE DEF N
  <2>1. U \subseteq Int /\ U # {} /\ N \in Int /\ \A y \in U : y <= N
    <3>1. 0 \in U
      BY <1>3
    <3> QED  BY <1>3, <3>1
  <2>2. u \in U /\ \A y \in U : y <= u
    <3> HIDE DEF U
    <3> QED  BY <2>1, Greatest
  <2> HIDE DEF u
  <2>3. ASSUME NEW n \in 1..N, out[n].urgent PROVE n <= u
    <3>1. n \in U
      BY <1>3, <2>3
    <3> QED  BY <2>2, <3>1
  <2>4. ASSUME NEW n \in 1..N, n <= u PROVE out[n].urgent
    <3>1. u \in 1..N /\ out[u].urgent
      BY <1>3, <2>2, <2>4
    <3>2. n = u \/ n < u
      BY <1>3, <2>4, <3>1
    <3> QED  BY <1>1, <3>1, <3>2 DEF N
  <2> QED  BY <2>2, <2>3, <2>4
<1> HIDE DEF u
<1>5. PICK first \in Seq(Cve) :
         /\ ToSet(first) = UNION {ToSet(out[j].cves) : j \in 1..u}
         /\ Len(first) <= Len(all)
         /\ \A k \in 1..Len(first) : all[k] = first[k]
  BY <1>1, <1>4, CveListPrefix
<1>6. all \in Seq(Cve)
  BY <1>1, <1>4, CveListPrefix
<1> HIDE DEF all
<1>7. /\ cut \in Seq(Cve) /\ Len(cut) <= Len(all)
      /\ OsvMaxCves > 0 => Len(cut) <= OsvMaxCves
      /\ \A k \in 1..Len(cut) : cut[k] = all[k]
  BY <1>6, CappedPrefix
<1> HIDE DEF cut, N
<1>8. ToSet(first) = urgent
  <2>1. \A k \in 1..u : k \in 1..N
    BY <1>3, <1>4
  <2>2. ASSUME NEW c \in ToSet(first) PROVE c \in urgent
    <3>1. PICK j \in 1..u : c \in ToSet(out[j].cves)
      BY <1>5, <2>2
    <3>2. j \in 1..N /\ out[j].urgent
      BY <1>3, <1>4, <2>1
    <3>3. out[j] \in ToSet(list)
      BY <1>1, <1>3, <3>2 DEF ToSet
    <3> QED  BY <3>1, <3>2, <3>3
  <2>3. ASSUME NEW c \in urgent PROVE c \in ToSet(first)
    <3>1. PICK i \in ToSet(out) : i.urgent /\ c \in ToSet(i.cves)
      BY <1>1, <2>3
    <3>2. PICK n \in 1..N : out[n] = i
      BY <1>3, <3>1 DEF ToSet
    <3>3. n \in 1..u
      BY <1>3, <1>4, <3>1, <3>2
    <3> QED  BY <1>5, <3>1, <3>2, <3>3
  <2> QED  BY <2>2, <2>3
<1>9. ToSet(first) \subseteq ToSet(cut) \/ ToSet(cut) \subseteq ToSet(first)
  <2>1. /\ Len(first) \in Nat /\ DOMAIN first = 1..Len(first)
        /\ Len(cut) \in Nat /\ DOMAIN cut = 1..Len(cut) /\ Len(all) \in Nat
    BY <1>6, <1>7
  <2>2. CASE Len(first) <= Len(cut)
    <3>1. \A k \in 1..Len(first) : k \in 1..Len(cut) /\ cut[k] = first[k]
      BY <1>5, <1>7, <2>1, <2>2
    <3> QED  BY <2>1, <3>1 DEF ToSet
  <2>3. CASE Len(cut) <= Len(first)
    <3>1. \A k \in 1..Len(cut) : k \in 1..Len(first) /\ cut[k] = first[k]
      BY <1>5, <1>7, <2>1, <2>3
    <3> QED  BY <2>1, <3>1 DEF ToSet
  <2> QED  BY <2>1, <2>2, <2>3
<1>10. /\ ToSet(cut) \subseteq Cve /\ IsFiniteSet(ToSet(cut))
       /\ OsvMaxCves > 0 => Cardinality(ToSet(cut)) <= OsvMaxCves
  <2>1. IsFiniteSet(ToSet(cut)) /\ Cardinality(ToSet(cut)) <= Len(cut)
    BY <1>7, FewElements
  <2>2. Cardinality(ToSet(cut)) \in Nat /\ Len(cut) \in Nat /\ OsvMaxCves \in Nat
    BY <1>7, <2>1, FS_CardinalityType, EnrichmentAssumption
  <2>3. ToSet(cut) \subseteq Cve
    BY <1>7 DEF ToSet
  <2> QED  BY <1>7, <2>1, <2>2, <2>3
<1> QED
  BY <1>2, <1>8, <1>9, <1>10

-----------------------------------------------------------------------------
(* enrich_items and enrich_with_osv: what they make of an item.            *)

\* UrgentJustified, for one item.
Warranted(i) == i.urgent => i.fromKev \/ (Severe(i) /\ (i.exploit \/ i.kev \/ i.score >= 5))

LEMMA EnrichedType ==
    ASSUME NEW i \in Item, NEW received
    PROVE  /\ Enriched(i, received) \in Item
           /\ Justified(i) => Warranted(Enriched(i, received))
<1> DEFINE scores == {Score[c] : c \in ToSet(i.cves) \cap received}
           inKev == ToSet(i.cves) \cap kev # {}
           score == IF scores = {} THEN Unscored ELSE Max(scores)
           e == [i EXCEPT !.kev = inKev, !.score = score, !.exploit = @ \/ inKev,
                          !.urgent = @ \/ (Severe(i) /\ (inKev \/ score >= 5))]
<1>1. Enriched(i, received) = e
  BY DEF Enriched
<1>2. score \in 0..10 \cup {Unscored}
  <2>1. ToSet(i.cves) \subseteq Cve
    BY DEF Item, ToSet
  <2> DEFINE N == 10
  <2>2. scores \subseteq 0..10 /\ scores \subseteq Int /\ N \in Int /\ \A y \in scores : y <= N
    BY <2>1, EnrichmentAssumption
  <2>3. scores # {} => Max(scores) \in scores
    <3> HIDE DEF scores, N
    <3> QED  BY <2>2, Greatest
  <2> HIDE DEF scores
  <2> QED  BY <2>2, <2>3
<1>3. inKev \in BOOLEAN
  OBVIOUS
<1> HIDE DEF inKev, score
<1>4. e \in Item
  BY <1>2, <1>3 DEF Item
<1>5. /\ e.fromKev = i.fromKev /\ e.severity = i.severity /\ e.kev = inKev /\ e.score = score
      /\ e.exploit = (i.exploit \/ inKev)
      /\ e.urgent = (i.urgent \/ (Severe(i) /\ (inKev \/ score >= 5)))
  BY DEF Item
<1> HIDE DEF e
<1>6. Severe(e) <=> Severe(i)
  BY <1>5 DEF Severe
<1>7. Justified(i) => Warranted(e)
  BY <1>5, <1>6 DEF Justified, Warranted
<1> QED
  BY <1>1, <1>4, <1>7

LEMMA WithOsvType ==
    ASSUME NEW i \in Item
    PROVE  WithOsv(i) \in Item /\ (Warranted(i) => Warranted(WithOsv(i)))
<1> DEFINE found == {k \in DOMAIN i.cves : i.cves[k] \in records /\ OsvSeverity[i.cves[k]] # Unknown}
           s == OsvSeverity[i.cves[Min(found)]]
           w == [i EXCEPT !.severity = s]
<1>0. i.cves \in Seq(Cve) /\ i.severity \in 0..4
  BY DEF Item
<1>1. CASE i.severity = Unknown /\ found # {}
  <2>1. WithOsv(i) = w
    BY <1>1 DEF WithOsv
  <2>2. found \subseteq DOMAIN i.cves /\ found \subseteq Nat
    BY <1>0
  <2>3. s \in 0..4
    <3>1. Min(found) \in found
      <4> HIDE DEF found
      <4> QED  BY <1>1, <2>2, Least
    <3>2. i.cves[Min(found)] \in Cve
      <4>1. Min(found) \in DOMAIN i.cves
        BY <2>2, <3>1
      <4> HIDE DEF found
      <4> QED  BY <1>0, <4>1
    <3> QED  BY <3>2, EnrichmentAssumption
  <2> HIDE DEF found, s
  <2>4. w \in Item
    BY <2>3 DEF Item
  <2>5. /\ w.urgent = i.urgent /\ w.fromKev = i.fromKev /\ w.exploit = i.exploit
        /\ w.kev = i.kev /\ w.score = i.score
    BY DEF Item
  <2> HIDE DEF w
  <2>6. ~Severe(i)
    BY <1>1 DEF Severe, Unknown, High
  <2>7. Warranted(i) => Warranted(w)
    BY <2>5, <2>6 DEF Warranted
  <2> QED  BY <2>1, <2>4, <2>7
<1>2. CASE ~(i.severity = Unknown /\ found # {})
  BY <1>2 DEF WithOsv
<1> QED  BY <1>1, <1>2

-----------------------------------------------------------------------------
(* The refresh.                                                            *)

\* OSV is asked only between the scores and the severities, the urgency of an
\* item needs no score and no catalog before the enrichment, and the requests
\* stay within the cap.
ItemInv ==
    /\ pc \in {"idle", "kev", "epss", "osv", "persist"}
    /\ kev \subseteq Cve /\ asked \subseteq Cve /\ records \subseteq Cve
    /\ OsvMaxCves > 0 => Cardinality(asked \cup records) <= OsvMaxCves
    /\ raw \in Seq(Item) /\ items \in Seq(Item)
    /\ pc # "osv" => asked = {}
    /\ pc \notin {"osv", "persist"} => records = {}
    /\ pc = "kev" => KeepsEvidence(items, raw)
    /\ pc \in {"idle", "kev", "epss"} => \A k \in DOMAIN items : Justified(items[k])
    /\ \A k \in DOMAIN items : Warranted(items[k])

EnrichInv == CacheInv /\ ItemInv

LEMMA CapLeavesRoom ==
    ASSUME NEW S \in SUBSET Cve, NEW T \in SUBSET S,
           OsvMaxCves > 0 => Cardinality(S) <= OsvMaxCves
    PROVE  OsvMaxCves > 0 => Cardinality(T) <= OsvMaxCves
<1>1. IsFiniteSet(S)
  BY FS_Subset, EnrichmentAssumption
<1>2. IsFiniteSet(T) /\ Cardinality(T) <= Cardinality(S)
  BY <1>1, FS_Subset
<1>3. Cardinality(S) \in Nat /\ Cardinality(T) \in Nat /\ OsvMaxCves \in Nat
  BY <1>1, <1>2, FS_CardinalityType, EnrichmentAssumption
<1> QED
  BY <1>2, <1>3

LEMMA ItemInit == Init => ItemInv
<1> SUFFICES ASSUME Init PROVE ItemInv
  OBVIOUS
<1>1. asked \cup records = {} /\ Cardinality({}) = 0 /\ OsvMaxCves \in Nat
  BY FS_EmptySet, EnrichmentAssumption DEF Init
<1>2. <<>> \in Seq(Item) /\ DOMAIN <<>> = {}
  OBVIOUS
<1> QED
  BY <1>1, <1>2 DEF Init, ItemInv

LEMMA FetchStep == ASSUME ItemInv, CacheInv', Fetch PROVE ItemInv'
<1>1. PICK answering :
         /\ pc = "idle"
         /\ raw' = Delivered(answering, kevCache'.known)
         /\ items' = Dedupe(raw')
         /\ pc' \in {"persist", "kev"}
         /\ UNCHANGED <<kev, asked, records>>
  BY DEF Fetch
<1>2. kevCache'.known \in SUBSET Cve
  BY DEF CacheInv, CachesOK
<1>3. raw' \in JustifiedList
  BY <1>1, <1>2, DeliveredType
<1>4. raw' \in Seq(Item) /\ \A k \in DOMAIN raw' : Justified(raw'[k])
  BY <1>3 DEF JustifiedList
<1>5. /\ items' \in Seq(Item) /\ KeepsEvidence(items', raw')
      /\ \A k \in DOMAIN items' : Justified(items'[k])
  BY <1>1, <1>4, DedupeKeeps
<1>6. \A k \in DOMAIN items' : Warranted(items'[k])
  BY <1>5 DEF Justified, Warranted
<1> QED
  BY <1>1, <1>4, <1>5, <1>6 DEF ItemInv

LEMMA KevStep == ASSUME ItemInv, CacheInv', KevAnswers \/ KevFails PROVE ItemInv'
<1>1. /\ pc = "kev" /\ pc' = "epss" /\ (kev' = kevCache'.known \/ kev' = {})
      /\ UNCHANGED <<raw, items, asked, records>>
  BY DEF KevAnswers, KevFails
<1>2. kevCache'.known \subseteq Cve
  BY DEF CacheInv, CachesOK
<1> QED
  BY <1>1, <1>2 DEF ItemInv

LEMMA EpssStep == ASSUME ItemInv, Epss PROVE ItemInv'
<1>1. PICK received :
         items' = [k \in DOMAIN items |-> Enriched(items[k], received)]
  BY DEF Epss
<1>2. /\ pc = "epss" /\ pc' = "osv" /\ asked' = ToSet(OsvList(items'))
      /\ UNCHANGED <<raw, kev, records>>
  BY DEF Epss
<1>3. items \in Seq(Item) /\ records = {} /\ \A k \in DOMAIN items : Justified(items[k])
  BY <1>2 DEF ItemInv
<1>4. /\ DOMAIN items' = DOMAIN items
      /\ \A k \in DOMAIN items : items'[k] \in Item /\ Warranted(items'[k])
  BY <1>1, <1>3, EnrichedType
<1>5. items' \in Seq(Item)
  <2>1. items' = [k \in 1..Len(items) |-> items'[k]] /\ Len(items) \in Nat
    BY <1>1, <1>3
  <2> QED  BY <1>3, <1>4, <2>1
<1>6. /\ asked' \subseteq Cve
      /\ OsvMaxCves > 0 => Cardinality(asked') <= OsvMaxCves
  BY <1>2, <1>5, OsvListKeeps
<1>7. asked' \cup records' = asked'
  BY <1>2, <1>3
<1> QED
  BY <1>2, <1>4, <1>5, <1>6, <1>7 DEF ItemInv

LEMMA OsvStep ==
    ASSUME ItemInv, NEW c \in Cve, OsvAnswers(c) \/ OsvFails(c) PROVE ItemInv'
<1>1. /\ c \in asked /\ asked' = asked \ {c} /\ records' \in {records, records \cup {c}}
      /\ UNCHANGED <<pc, raw, items, kev>>
  BY DEF OsvAnswers, OsvFails
<1>2. pc = "osv" /\ asked \cup records \in SUBSET Cve
  BY <1>1 DEF ItemInv
<1>3. asked' \cup records' \in SUBSET (asked \cup records)
  BY <1>1
<1>4. OsvMaxCves > 0 => Cardinality(asked' \cup records') <= OsvMaxCves
  BY <1>2, <1>3, CapLeavesRoom DEF ItemInv
<1> QED
  BY <1>1, <1>2, <1>4 DEF ItemInv

LEMMA EnrichWithOsvStep == ASSUME ItemInv, EnrichWithOsv PROVE ItemInv'
<1>1. /\ pc = "osv" /\ asked = {} /\ pc' = "persist"
      /\ items' = [k \in DOMAIN items |-> WithOsv(items[k])]
      /\ UNCHANGED <<raw, kev, asked, records>>
  BY DEF EnrichWithOsv
<1>2. items \in Seq(Item) /\ \A k \in DOMAIN items : Warranted(items[k])
  BY DEF ItemInv
<1>3. /\ DOMAIN items' = DOMAIN items
      /\ \A k \in DOMAIN items : items'[k] \in Item /\ Warranted(items'[k])
  BY <1>1, <1>2, WithOsvType
<1>4. items' \in Seq(Item)
  <2>1. items' = [k \in 1..Len(items) |-> items'[k]] /\ Len(items) \in Nat
    BY <1>1, <1>2
  <2> QED  BY <1>2, <1>3, <2>1
<1> QED
  BY <1>1, <1>3, <1>4 DEF ItemInv

LEMMA PersistStep == ASSUME ItemInv, Persist PROVE ItemInv'
<1>1. /\ pc = "persist" /\ pc' = "idle" /\ raw' = <<>> /\ items' = <<>> /\ kev' = {}
      /\ records' = {} /\ asked' = asked
  BY DEF Persist
<1>2. asked = {}
  BY <1>1 DEF ItemInv
<1>3. asked' \cup records' = {} /\ Cardinality({}) = 0 /\ OsvMaxCves \in Nat
  BY <1>1, <1>2, FS_EmptySet, EnrichmentAssumption
<1>4. <<>> \in Seq(Item) /\ DOMAIN <<>> = {}
  OBVIOUS
<1> QED
  BY <1>1, <1>2, <1>3, <1>4 DEF ItemInv

LEMMA EnrichInit == Init => EnrichInv
BY CacheInit, ItemInit DEF EnrichInv

LEMMA EnrichStep == EnrichInv /\ [Next]_vars => EnrichInv'
<1> SUFFICES ASSUME EnrichInv, [Next]_vars PROVE ItemInv'
  BY CacheStep DEF EnrichInv
<1>0. ItemInv /\ CacheInv'
  BY CacheStep DEF EnrichInv
<1>1. CASE UNCHANGED <<pc, raw, items, kev, asked, records>>
  BY <1>0, <1>1 DEF ItemInv
<1>2. CASE UNCHANGED vars \/ Tick \/ \E c \in Cve : CisaLists(c) \/ OsvPublishes(c)
  BY <1>1, <1>2 DEF vars, Tick, CisaLists, OsvPublishes
<1> QED
  BY <1>0, <1>2, FetchStep, KevStep, EpssStep, OsvStep, EnrichWithOsvStep, PersistStep DEF Next

\* For every roster, every items of the sources, every cap and every lifetime:
\* the state of a refresh is of its type, and never more CVEs are asked of OSV
\* than the cap allows (enrich_with_osv).
THEOREM TypeCorrect == Spec => []TypeOK
<1>1. EnrichInv => TypeOK
  BY DEF EnrichInv, CacheInv, CachesOK, ItemInv, TypeOK
<1> QED
  BY <1>1, EnrichInit, EnrichStep, PTL DEF Spec

\* For every list of items the sources may deliver, with any number of copies in
\* any order: _dedupe leaves one item per id, newest first, with the CVEs, the
\* highest severity and the urgency of its copies.
THEOREM MergeKeepsEvidenceHolds == Spec => []MergeKeepsEvidence
<1>1. EnrichInv => MergeKeepsEvidence
  BY DEF EnrichInv, ItemInv, MergeKeepsEvidence, KeepsEvidence
<1> QED
  BY <1>1, EnrichInit, EnrichStep, PTL DEF Spec

\* For every catalog, every score and every OSV record: from the fetch to the
\* end of the refresh, an item is urgent only for the reasons of the README.
THEOREM UrgentJustifiedHolds == Spec => []UrgentJustified
<1>1. EnrichInv => UrgentJustified
  BY DEF EnrichInv, ItemInv, UrgentJustified, Warranted, ToSet
<1> QED
  BY <1>1, EnrichInit, EnrichStep, PTL DEF Spec

\* For every list of items and every cap: when enrich_with_osv cuts the list of
\* CVEs off, urgent items lose a request only to urgent items.
THEOREM CapKeepsUrgentHolds == Spec => CapKeepsUrgent
<1>1. EnrichInv /\ EnrichInv' /\ [Next]_vars => [UrgentFirst]_vars
  <2> SUFFICES ASSUME EnrichInv, EnrichInv', Next, pc = "epss", pc' = "osv" PROVE UrgentFirst
    BY DEF UrgentFirst
  <2>1. Epss
    BY DEF Next, Fetch, KevAnswers, KevFails, EnrichWithOsv, Persist, OsvAnswers, OsvFails,
           CisaLists, OsvPublishes, Tick
  <2>2. items' \in Seq(Item) /\ asked' = ToSet(OsvList(items'))
    BY <2>1 DEF EnrichInv, ItemInv, Epss
  <2> DEFINE urgent == UNION {ToSet(i.cves) : i \in {j \in ToSet(items') : j.urgent}}
  <2>3. urgent \subseteq asked' \/ asked' \subseteq urgent
    BY <2>2, OsvListKeeps
  <2> QED  BY <2>3 DEF UrgentFirst
<1> QED
  BY <1>1, EnrichInit, EnrichStep, PTL DEF Spec, CapKeepsUrgent
=============================================================================
