--------------------------- MODULE AlgoMatchProofs --------------------------
(***************************************************************************)
(* Both ends of buf_match_algo come to the same choice, for every set of   *)
(* algorithms and all tables.  Each end walks its own table, with its gaps, *)
(* against the other's list, without gaps; Ranks ties the positions in the *)
(* one to those in the other.  The loops of both ends then stop at the same *)
(* name, the first in the client's order that the server can use           *)
(* (FirstShared), and the position of that name is 1 on both sides of both *)
(* ends or on neither (FirstRank), which is what kexguess2 asks of a guess. *)
(***************************************************************************)
EXTENDS AlgoMatch, FiniteSetTheorems, SequenceTheorems, WellFoundedInduction, TLAPS

\* A set of numbers that is not empty has a least one.
LEMMA MinNat ==
  ASSUME NEW T, T \subseteq Nat, T # {}
  PROVE  \E x \in T : \A y \in T : x <= y
<1>1. PICK x \in T : \A y \in T : ~(<<y, x>> \in OpToRel(<, Nat))
  BY WFMin, NatLessThanWellFounded
<1>2. \A y \in T : ~(y < x)
  BY <1>1 DEF OpToRel
<1>3. QED
  BY <1>2

(***************************************************************************)
(* The list a table is sent as.                                            *)
(***************************************************************************)

\* A table is a sequence of entries, of which finitely many are usable.
LEMMA TableType ==
  ASSUME NEW t \in Tables
  PROVE  /\ \E n \in Nat \ {0} : t \in [1..n -> [name : Algos, usable : BOOLEAN]]
         /\ Usable(t) \subseteq Nat /\ IsFiniteSet(Usable(t)) /\ Usable(t) \subseteq DOMAIN t
         /\ DOMAIN t \subseteq Nat \ {0} /\ 1 \in DOMAIN t
         /\ \A i \in DOMAIN t : t[i].name \in Algos /\ t[i].usable \in BOOLEAN
<1>1. PICK n \in 1..Cardinality(Algos) : t \in [1..n -> [name : Algos, usable : BOOLEAN]]
  BY DEF Tables
<1>2. n \in Nat \ {0}
  BY <1>1, AlgosAssumption, FS_CardinalityType
<1>3. Usable(t) \in SUBSET (1..n)
  BY <1>1 DEF Usable
<1>4. IsFiniteSet(Usable(t))
  BY <1>2, <1>3, FS_Interval, FS_Subset
<1>5. QED
  BY <1>1, <1>2, <1>3, <1>4

\* Ranks number the usable entries, in order and without gaps.
LEMMA Ranks ==
  ASSUME NEW t \in Tables
  PROVE  /\ \A i \in Usable(t) : Rank(t, i) \in 1..Cardinality(Usable(t))
         /\ \A i, k \in Usable(t) : i < k => Rank(t, i) < Rank(t, k)
         /\ \A r \in 1..Cardinality(Usable(t)) : \E i \in Usable(t) : Rank(t, i) = r
<1> DEFINE U == Usable(t)
           Upto(i) == {k \in U : k <= i}
           n == Cardinality(U)
<1>1. U \subseteq Nat /\ IsFiniteSet(U) /\ n \in Nat
  BY TableType, FS_CardinalityType
<1>2. \A i : Rank(t, i) = Cardinality(Upto(i))
  BY DEF Rank
<1> HIDE DEF U, n
<1>3. ASSUME NEW i \in U
      PROVE  IsFiniteSet(Upto(i)) /\ Cardinality(Upto(i)) \in 1..n
  <2>1. Upto(i) \in SUBSET U /\ i \in Upto(i)
    BY <1>1
  <2> HIDE DEF Upto
  <2>2. IsFiniteSet(Upto(i)) /\ Cardinality(Upto(i)) <= n
    BY <1>1, <2>1, FS_Subset DEF n
  <2>3. Cardinality(Upto(i)) \in Nat /\ Cardinality(Upto(i)) # 0
    BY <2>1, <2>2, FS_CardinalityType, FS_EmptySet
  <2>4. QED
    BY <1>1, <2>2, <2>3
<1>4. ASSUME NEW i \in U, NEW k \in U, i < k
      PROVE  Cardinality(Upto(i)) < Cardinality(Upto(k))
  <2>1. Upto(i) \in SUBSET Upto(k) /\ k \in Upto(k) /\ k \notin Upto(i)
    <3>1. i \in Nat /\ k \in Nat /\ \A x \in U : x \in Nat
      BY <1>1
    <3>2. \A x \in U : x <= i => x <= k
      BY <1>4, <3>1
    <3>3. k <= k /\ ~(k <= i)
      BY <1>4, <3>1
    <3>4. QED
      BY <3>2, <3>3
  <2>2. /\ IsFiniteSet(Upto(k)) /\ Cardinality(Upto(k)) \in Nat
        /\ Cardinality(Upto(i)) \in Nat
    BY <1>3
  <2> HIDE DEF Upto
  <2>3. Cardinality(Upto(i)) <= Cardinality(Upto(k)) /\ Cardinality(Upto(k)) # Cardinality(Upto(i))
    BY <2>1, <2>2, FS_Subset
  <2>4. QED
    BY <2>2, <2>3
<1> DEFINE f == [i \in U |-> Cardinality(Upto(i))]
<1>5. \A r \in 1..n : \E i \in U : Cardinality(Upto(i)) = r
  <2>1. f \in [U -> 1..n]
    BY <1>3
  <2>2. \A i, k \in U : f[i] = f[k] => i = k
    <3>1. SUFFICES ASSUME NEW i \in U, NEW k \in U, f[i] = f[k], i # k PROVE FALSE
      OBVIOUS
    <3>2. i < k \/ k < i
      BY <1>1, <3>1
    <3>3. Cardinality(Upto(i)) \in Nat /\ Cardinality(Upto(k)) \in Nat
          /\ Cardinality(Upto(i)) = Cardinality(Upto(k))
      BY <1>3, <3>1
    <3> HIDE DEF f, Upto
    <3>4. QED
      BY <1>4, <3>2, <3>3
  <2> HIDE DEF f
  <2>3. f \in Injection(U, 1..n)
    BY <2>1, <2>2, Zenon DEF Injection, IsInjective
  <2>4. IsFiniteSet(1..n) /\ Cardinality(1..n) = n
    BY <1>1, FS_Interval
  <2>5. f \in Surjection(U, 1..n)
    BY <2>3, <2>4, FS_Injection DEF n
  <2>6. \A r \in 1..n : \E i \in U : f[i] = r
    BY <2>5 DEF Surjection
  <2>7. QED
    BY <2>6 DEF f
<1>6. QED
  BY <1>2, <1>3, <1>4, <1>5 DEF U, n

\* The list holds the names of the usable entries at their ranks.
LEMMA Listed ==
  ASSUME NEW t \in Tables
  PROVE  LET list == buf_put_algolist(t)
         IN /\ list \in Seq(Algos)
            /\ DOMAIN list = 1..Cardinality(Usable(t))
            /\ \A i \in Usable(t) : Rank(t, i) \in DOMAIN list /\ list[Rank(t, i)] = t[i].name
            /\ \A r \in DOMAIN list : \E i \in Usable(t) : Rank(t, i) = r
<1> DEFINE U == Usable(t)
           n == Cardinality(U)
           At(r) == CHOOSE i \in U : Rank(t, i) = r
           list == [r \in 1..n |-> t[At(r)].name]
<1>1. n \in Nat /\ U \subseteq Nat /\ \A i \in U : t[i].name \in Algos
  BY TableType, FS_CardinalityType
<1>2. buf_put_algolist(t) = list
  BY DEF buf_put_algolist
<1>3. \A r \in 1..n : At(r) \in U /\ Rank(t, At(r)) = r
  BY Ranks
<1>4. \A i \in U : Rank(t, i) \in 1..n /\ At(Rank(t, i)) = i
  <2>1. SUFFICES ASSUME NEW i \in U PROVE Rank(t, i) \in 1..n /\ At(Rank(t, i)) = i
    OBVIOUS
  <2> DEFINE k == At(Rank(t, i))
  <2>2. Rank(t, i) \in 1..n
    BY Ranks
  <2>3. k \in U /\ Rank(t, k) = Rank(t, i)
    BY <1>3, <2>2
  <2> HIDE DEF k
  <2>4. ~(i < k) /\ ~(k < i)
    BY <1>1, <2>2, <2>3, Ranks
  <2>5. k = i
    BY <1>1, <2>3, <2>4
  <2>6. QED
    BY <2>2, <2>5 DEF k
<1> HIDE DEF At, U, n
<1>5. list \in Seq(Algos) /\ DOMAIN list = 1..n
  <2>1. list \in [1..n -> Algos]
    BY <1>1, <1>3
  <2> HIDE DEF list
  <2>2. QED
    BY <1>1, <2>1
<1>6. \A i \in U : Rank(t, i) \in DOMAIN list /\ list[Rank(t, i)] = t[i].name
  BY <1>4
<1>7. \A r \in DOMAIN list : \E i \in U : Rank(t, i) = r
  BY <1>3
<1>8. QED
  BY <1>2, <1>5, <1>6, <1>7 DEF U, n

(***************************************************************************)
(* The choice: the loops stop at the first name in the client's order that *)
(* the server's end has too.                                               *)
(***************************************************************************)

Hit(cn, sn, i, j) ==
    i \in DOMAIN cn /\ j \in DOMAIN sn /\ cn[i] = sn[j] /\ cn[i] # NULL

\* The two nested loops of buf_match_algo end at the first name of the outer
\* list that the inner one has, or find none.
LEMMA FirstHit ==
  ASSUME NEW cn, NEW sn, DOMAIN cn \subseteq Nat, DOMAIN sn \subseteq Nat
  PROVE  \/ /\ \A i, j : ~Hit(cn, sn, i, j)
            /\ buf_match_algo(cn, sn) = Unset
         \/ \E i, j :
               /\ Hit(cn, sn, i, j)
               /\ \A k, m : Hit(cn, sn, k, m) => i <= k
               /\ buf_match_algo(cn, sn) =
                     [algo |-> cn[i], goodguess |-> i = 1 /\ (KexGuess2 \/ j = 1)]
<1> DEFINE hits == {h \in (DOMAIN cn) \X (DOMAIN sn) : cn[h[1]] = sn[h[2]] /\ cn[h[1]] # NULL}
           Least(h) == \A g \in hits : h[1] < g[1] \/ (h[1] = g[1] /\ h[2] <= g[2])
           first == CHOOSE h \in hits : Least(h)
<1>1. buf_match_algo(cn, sn) =
        IF hits = {} THEN Unset
        ELSE [algo |-> cn[first[1]], goodguess |-> first[1] = 1 /\ (KexGuess2 \/ first[2] = 1)]
  BY DEF buf_match_algo
<1>2. \A i, j : Hit(cn, sn, i, j) <=> <<i, j>> \in hits
  BY DEF Hit
<1>3. CASE hits = {}
  BY <1>1, <1>2, <1>3
<1>4. CASE hits # {}
  <2>1. \A h \in hits : h = <<h[1], h[2]>> /\ h[1] \in Nat /\ h[2] \in Nat
    OBVIOUS
  <2> HIDE DEF hits
  <2>2. PICK i \in {h[1] : h \in hits} : \A k \in {h[1] : h \in hits} : i <= k
    BY <1>4, <2>1, MinNat
  <2> DEFINE J == {h[2] : h \in {g \in hits : g[1] = i}}
  <2>3. PICK j \in J : \A m \in J : j <= m
    <3>1. J \subseteq Nat /\ J # {}
      BY <2>1, <2>2
    <3> HIDE DEF J
    <3>2. QED
      BY <3>1, MinNat
  <2>4. PICK h \in hits : h[1] = i /\ h[2] = j
    BY <2>3
  <2>5. Least(h)
    <3>1. SUFFICES ASSUME NEW g \in hits
                   PROVE  h[1] < g[1] \/ (h[1] = g[1] /\ h[2] <= g[2])
      OBVIOUS
    <3>2. i <= g[1] /\ (g[1] = i => j <= g[2])
      BY <2>2, <2>3
    <3>3. QED
      BY <2>1, <2>4, <3>2
  <2>6. first \in hits /\ Least(first)
    BY <2>4, <2>5
  <2> HIDE DEF first
  <2>7. Hit(cn, sn, first[1], first[2])
    BY <1>2, <2>1, <2>6
  <2>8. ASSUME NEW k, NEW m, Hit(cn, sn, k, m) PROVE first[1] <= k
    <3>1. <<k, m>> \in hits
      BY <1>2, <2>8
    <3>2. first[1] < k \/ first[1] = k
      BY <2>6, <3>1
    <3>3. k \in Nat /\ first[1] \in Nat
      BY <2>1, <2>6, <3>1
    <3>4. QED
      BY <3>2, <3>3
  <2>9. QED
    BY <1>1, <1>4, <2>7, <2>8
<1>5. QED
  BY <1>3, <1>4

\* The entries of the client that the server has too, and the first of them.
Shared(c, s) == {i \in Usable(c) : \E j \in Usable(s) : c[i].name = s[j].name}
FirstShared(c, s, i) == i \in Shared(c, s) /\ \A k \in Shared(c, s) : i <= k

\* The names of a table of one's own, NULL where an entry is switched off.
LEMMA LocalType ==
  ASSUME NEW t \in Tables
  PROVE  /\ DOMAIN LocalNames(t) = DOMAIN t /\ DOMAIN t \subseteq Nat
         /\ \A i \in DOMAIN t : LocalNames(t)[i] # NULL <=> i \in Usable(t)
         /\ \A i \in Usable(t) : i \in DOMAIN t /\ LocalNames(t)[i] = t[i].name
BY TableType, AlgosAssumption DEF LocalNames, Usable

\* The client, with its own table and the server's list, chooses the first shared
\* entry of its table.
LEMMA ClientChoice ==
  ASSUME NEW c \in Tables, NEW s \in Tables
  PROVE  \/ Shared(c, s) = {} /\ ClientMatch(c, s) = Unset
         \/ \E i : /\ FirstShared(c, s, i)
                   /\ ClientMatch(c, s).algo = c[i].name
                   /\ ClientMatch(c, s).goodguess \in BOOLEAN
                   /\ KexGuess2 => ClientMatch(c, s).goodguess = (i = 1)
<1> DEFINE cn == LocalNames(c)
           sn == buf_put_algolist(s)
<1>1. DOMAIN cn \subseteq Nat /\ DOMAIN sn \subseteq Nat
  BY LocalType, Listed, TableType, FS_CardinalityType
<1>2. ClientMatch(c, s) = buf_match_algo(cn, sn)
  BY DEF ClientMatch
<1> HIDE DEF cn, sn
<1>3. \A i, j : Hit(cn, sn, i, j) => i \in Shared(c, s)
  BY LocalType, Listed DEF Hit, Shared, cn, sn
<1>4. \A i \in Shared(c, s) : \E j : Hit(cn, sn, i, j)
  <2>1. SUFFICES ASSUME NEW i \in Usable(c), NEW k \in Usable(s), c[i].name = s[k].name
                 PROVE  Hit(cn, sn, i, Rank(s, k))
    BY DEF Shared
  <2>2. Rank(s, k) \in DOMAIN sn /\ sn[Rank(s, k)] = s[k].name
    BY Listed DEF sn
  <2>3. i \in DOMAIN cn /\ cn[i] = c[i].name /\ cn[i] # NULL
    BY LocalType DEF cn
  <2>4. QED
    BY <2>1, <2>2, <2>3 DEF Hit
<1>5. CASE (\A i, j : ~Hit(cn, sn, i, j)) /\ buf_match_algo(cn, sn) = Unset
  BY <1>2, <1>4, <1>5
<1>6. ASSUME NEW i, NEW j, Hit(cn, sn, i, j), \A k, m : Hit(cn, sn, k, m) => i <= k,
             buf_match_algo(cn, sn) = [algo |-> cn[i], goodguess |-> i = 1 /\ (KexGuess2 \/ j = 1)]
      PROVE  /\ FirstShared(c, s, i)
             /\ ClientMatch(c, s).algo = c[i].name
             /\ ClientMatch(c, s).goodguess \in BOOLEAN
             /\ KexGuess2 => ClientMatch(c, s).goodguess = (i = 1)
  <2>1. FirstShared(c, s, i)
    BY <1>3, <1>4, <1>6 DEF FirstShared
  <2>2. cn[i] = c[i].name
    BY <1>3, <1>6, LocalType DEF cn, Shared
  <2>3. QED
    BY <1>2, <1>6, <2>1, <2>2
<1>7. QED
  BY <1>1, <1>5, <1>6, FirstHit

\* So does the server, with the client's list and its own table.
LEMMA ServerChoice ==
  ASSUME NEW c \in Tables, NEW s \in Tables
  PROVE  \/ Shared(c, s) = {} /\ ServerMatch(c, s) = Unset
         \/ \E i : /\ FirstShared(c, s, i)
                   /\ ServerMatch(c, s).algo = c[i].name
                   /\ ServerMatch(c, s).goodguess \in BOOLEAN
                   /\ KexGuess2 => ServerMatch(c, s).goodguess = (Rank(c, i) = 1)
<1> DEFINE cn == buf_put_algolist(c)
           sn == LocalNames(s)
<1>1. DOMAIN cn \subseteq Nat /\ DOMAIN sn \subseteq Nat
  BY LocalType, Listed, TableType, FS_CardinalityType
<1>2. ServerMatch(c, s) = buf_match_algo(cn, sn)
  BY DEF ServerMatch
<1> HIDE DEF cn, sn
<1>3. \A r, j : Hit(cn, sn, r, j) =>
         \E i \in Shared(c, s) : Rank(c, i) = r /\ cn[r] = c[i].name
  <2>1. SUFFICES ASSUME NEW r, NEW j, Hit(cn, sn, r, j)
                 PROVE  \E i \in Shared(c, s) : Rank(c, i) = r /\ cn[r] = c[i].name
    OBVIOUS
  <2>2. PICK i \in Usable(c) : Rank(c, i) = r /\ cn[r] = c[i].name
    BY <2>1, Listed DEF Hit, cn
  <2>3. j \in Usable(s) /\ sn[j] = s[j].name
    BY <2>1, LocalType DEF Hit, sn
  <2>4. QED
    BY <2>1, <2>2, <2>3 DEF Hit, Shared
<1>4. \A i \in Shared(c, s) : \E j : Hit(cn, sn, Rank(c, i), j)
  <2>1. SUFFICES ASSUME NEW i \in Usable(c), NEW k \in Usable(s), c[i].name = s[k].name
                 PROVE  Hit(cn, sn, Rank(c, i), k)
    BY DEF Shared
  <2>2. Rank(c, i) \in DOMAIN cn /\ cn[Rank(c, i)] = c[i].name
    BY Listed DEF cn
  <2>3. k \in DOMAIN sn /\ sn[k] = s[k].name /\ sn[k] # NULL
    BY LocalType DEF sn
  <2>4. QED
    BY <2>1, <2>2, <2>3 DEF Hit
<1>5. CASE (\A i, j : ~Hit(cn, sn, i, j)) /\ buf_match_algo(cn, sn) = Unset
  BY <1>2, <1>4, <1>5
<1>6. ASSUME NEW r, NEW j, Hit(cn, sn, r, j), \A k, m : Hit(cn, sn, k, m) => r <= k,
             buf_match_algo(cn, sn) = [algo |-> cn[r], goodguess |-> r = 1 /\ (KexGuess2 \/ j = 1)]
      PROVE  \E i : /\ FirstShared(c, s, i)
                    /\ ServerMatch(c, s).algo = c[i].name
                    /\ ServerMatch(c, s).goodguess \in BOOLEAN
                    /\ KexGuess2 => ServerMatch(c, s).goodguess = (Rank(c, i) = 1)
  <2>1. PICK i \in Shared(c, s) : Rank(c, i) = r /\ cn[r] = c[i].name
    BY <1>3, <1>6
  <2>2. \A k \in Shared(c, s) : i <= k
    <3>1. SUFFICES ASSUME NEW k \in Shared(c, s), k < i PROVE FALSE
      BY TableType DEF Shared
    <3>2. Rank(c, k) < Rank(c, i) /\ Rank(c, k) \in Nat /\ Rank(c, i) \in Nat
      <4>1. i \in Usable(c) /\ k \in Usable(c)
        BY DEF Shared
      <4>2. Rank(c, k) < Rank(c, i)
        BY <3>1, <4>1, Ranks
      <4>3. Rank(c, k) \in 1..Cardinality(Usable(c)) /\ Rank(c, i) \in 1..Cardinality(Usable(c))
        BY <4>1, Ranks
      <4>4. QED
        BY <4>2, <4>3
    <3>3. Rank(c, i) <= Rank(c, k)
      BY <1>4, <1>6, <2>1
    <3>4. QED
      BY <3>2, <3>3
  <2>3. FirstShared(c, s, i)
    BY <2>2 DEF FirstShared
  <2>4. QED
    BY <1>2, <1>6, <2>1, <2>3
<1>7. QED
  BY <1>1, <1>5, <1>6, FirstHit

\* An entry is the first of the list it is sent in if no usable one is before it.
LEMMA FirstRank ==
  ASSUME NEW t \in Tables, t[1].usable
  PROVE  /\ 1 \in Usable(t) /\ Rank(t, 1) = 1
         /\ \A i \in Usable(t) : Rank(t, i) = 1 => i = 1
         /\ first_usable_algo(t) = t[1].name
<1>1. 1 \in Usable(t)
  BY TableType DEF Usable
<1>2. Usable(t) \subseteq Nat \ {0} /\ \A i \in Usable(t) : Rank(t, i) \in 1..Cardinality(Usable(t))
  BY Ranks, TableType
<1>3. PICK i \in Usable(t) : Rank(t, i) = 1
  <2>1. 1 \in 1..Cardinality(Usable(t))
    BY <1>1, <1>2, TableType, FS_CardinalityType
  <2>2. QED
    BY <2>1, Ranks
<1>4. Rank(t, 1) = 1
  <2>1. CASE i = 1
    BY <1>3, <2>1
  <2>2. CASE i # 1
    <3>1. 1 < i
      BY <1>2, <2>2
    <3>2. Rank(t, 1) < 1
      BY <1>1, <1>3, <3>1, Ranks
    <3>3. QED
      BY <1>1, <1>2, <3>2
  <2>3. QED
    BY <2>1, <2>2
<1>5. ASSUME NEW k \in Usable(t), Rank(t, k) = 1 PROVE k = 1
  <2>1. SUFFICES ASSUME k # 1 PROVE FALSE
    OBVIOUS
  <2>2. 1 < k
    BY <1>2, <2>1
  <2>3. Rank(t, 1) < Rank(t, k)
    BY <1>1, <2>2, Ranks
  <2>4. QED
    BY <1>4, <1>5, <2>3
<1>6. first_usable_algo(t) = t[1].name
  <2> DEFINE list == buf_put_algolist(t)
  <2>1. list \in Seq(Algos) /\ 1 \in DOMAIN list /\ list[1] = t[1].name
    BY <1>1, <1>4, Listed
  <2> HIDE DEF list
  <2>2. list # <<>>
    BY <2>1
  <2>3. Head(list) = list[1]
    BY <2>1, <2>2
  <2>4. QED
    BY <2>1, <2>3 DEF first_usable_algo, list
<1>7. QED
  BY <1>1, <1>4, <1>5, <1>6

\* The two ends, each from its own point of view.
LEMMA MatchAgrees ==
  ASSUME NEW c \in Tables, NEW s \in Tables, c[1].usable, KexGuess2
  PROVE  /\ ClientMatch(c, s).algo = ServerMatch(c, s).algo
         /\ ClientMatch(c, s).goodguess = ServerMatch(c, s).goodguess
         /\ ClientMatch(c, s).goodguess => first_usable_algo(c) = ServerMatch(c, s).algo
         /\ ServerMatch(c, s).algo # NULL =>
               \E i \in Shared(c, s) : c[i].name = ServerMatch(c, s).algo
<1>1. CASE Shared(c, s) = {}
  <2>1. ClientMatch(c, s) = Unset /\ ServerMatch(c, s) = Unset
    BY <1>1, ClientChoice, ServerChoice DEF FirstShared
  <2>2. QED
    BY <2>1 DEF Unset
<1>2. CASE Shared(c, s) # {}
  <2>1. PICK i : /\ FirstShared(c, s, i) /\ ClientMatch(c, s).algo = c[i].name
                 /\ ClientMatch(c, s).goodguess = (i = 1)
    BY <1>2, ClientChoice
  <2>2. PICK k : /\ FirstShared(c, s, k) /\ ServerMatch(c, s).algo = c[k].name
                 /\ ServerMatch(c, s).goodguess = (Rank(c, k) = 1)
    BY <1>2, ServerChoice
  <2>3. i = k /\ k \in Usable(c)
    <3>1. i \in Shared(c, s) /\ k \in Shared(c, s) /\ i <= k /\ k <= i
      BY <2>1, <2>2 DEF FirstShared
    <3>2. i \in Nat /\ k \in Nat /\ k \in Usable(c)
      BY <3>1, TableType DEF Shared
    <3>3. QED
      BY <3>1, <3>2
  <2>4. Rank(c, k) = 1 <=> k = 1
    BY <2>3, FirstRank
  <2>5. k \in Shared(c, s)
    BY <2>2 DEF FirstShared
  <2>6. QED
    BY <2>1, <2>2, <2>3, <2>4, <2>5, FirstRank
<1>3. QED
  BY <1>1, <1>2

(***************************************************************************)
(* The invariant: after the first exchange the server's table has nothing  *)
(* left but the algorithm that was chosen, which the client has too.       *)
(***************************************************************************)

Narrowed ==
    round = 1 /\ scho.algo # NULL =>
       /\ \A j \in Usable(svr) : svr[j].name = scho.algo
       /\ Shared(cli, svr) # {}

IInv ==
    /\ cli \in Tables /\ cli[1].usable /\ svr \in Tables
    /\ round \in 0..2 /\ ChoiceAgreed /\ Narrowed

\* Before the first exchange nothing has been chosen.
LEMMA InitIInv == Init => IInv
BY DEF Init, IInv, ChoiceAgreed, Narrowed, Unset

\* disable_sig_except on a table.
LEMMA Disabled ==
  ASSUME NEW t \in Tables, NEW algo
  PROVE  LET u == disable_sig_except(t, algo)
         IN /\ u \in Tables /\ DOMAIN u = DOMAIN t
            /\ \A i \in DOMAIN t : u[i].name = t[i].name
            /\ Usable(u) = {i \in Usable(t) : t[i].name = algo}
<1> DEFINE u == disable_sig_except(t, algo)
<1>1. PICK n \in 1..Cardinality(Algos) : t \in [1..n -> [name : Algos, usable : BOOLEAN]]
  BY DEF Tables
<1>2. u = [i \in 1..n |-> [t[i] EXCEPT !.usable = @ /\ t[i].name = algo]]
  BY <1>1 DEF disable_sig_except
<1> HIDE DEF u
<1>3. \A i \in 1..n : /\ u[i] \in [name : Algos, usable : BOOLEAN]
                      /\ u[i].name = t[i].name
                      /\ u[i].usable = (t[i].usable /\ t[i].name = algo)
  BY <1>1, <1>2
<1>4. u \in [1..n -> [name : Algos, usable : BOOLEAN]]
  BY <1>2, <1>3
<1>5. u \in Tables
  BY <1>1, <1>4 DEF Tables
<1>6. Usable(u) = {i \in Usable(t) : t[i].name = algo}
  BY <1>1, <1>3, <1>4 DEF Usable
<1>7. QED
  BY <1>1, <1>3, <1>4, <1>5, <1>6 DEF u

\* An exchange leaves the choices equal and the server's table narrowed.
LEMMA NegotiateIInv ==
  ASSUME KexGuess2, IInv, Negotiate
  PROVE  IInv'
<1>1. /\ cli \in Tables /\ cli[1].usable /\ svr \in Tables /\ cli' = cli
      /\ round' = round + 1 /\ round \in 0..1
      /\ ccho' = ClientMatch(cli, svr) /\ scho' = ServerMatch(cli, svr)
  BY DEF IInv, Negotiate
<1>2. /\ ccho'.algo = scho'.algo /\ ccho'.goodguess = scho'.goodguess
      /\ ccho'.goodguess => first_usable_algo(cli) = scho'.algo
      /\ scho'.algo # NULL => \E i \in Shared(cli, svr) : cli[i].name = scho'.algo
  BY <1>1, MatchAgrees
<1>3. ChoiceAgreed'
  BY <1>1, <1>2 DEF ChoiceAgreed, first_usable_algo, buf_put_algolist, Usable, Rank
<1>4. CASE scho'.algo = NULL
  <2>1. svr' = svr
    BY <1>4 DEF Negotiate
  <2>2. QED
    BY <1>1, <1>3, <1>4, <2>1 DEF IInv, Narrowed
<1>5. CASE scho'.algo # NULL
  <2>1. svr' = disable_sig_except(svr, scho'.algo)
    BY <1>5 DEF Negotiate
  <2>2. /\ svr' \in Tables /\ DOMAIN svr' = DOMAIN svr
        /\ \A i \in DOMAIN svr : svr'[i].name = svr[i].name
        /\ Usable(svr') = {i \in Usable(svr) : svr[i].name = scho'.algo}
    BY <1>1, <2>1, Disabled
  <2>3. PICK i \in Shared(cli, svr) : cli[i].name = scho'.algo
    BY <1>2, <1>5
  <2>4. i \in Shared(cli, svr')
    BY <2>2, <2>3 DEF Shared, Usable
  <2>5. \A j \in Usable(svr') : svr'[j].name = scho'.algo
    BY <2>2 DEF Usable
  <2>6. Narrowed'
    BY <1>1, <2>4, <2>5 DEF Narrowed, Shared, Usable
  <2>7. QED
    BY <1>1, <1>3, <2>2, <2>6 DEF IInv
<1>6. QED
  BY <1>4, <1>5

\* The invariant is inductive.
LEMMA NextIInv == KexGuess2 => (IInv /\ [Negotiate]_vars => IInv')
<1> SUFFICES ASSUME KexGuess2, IInv, [Negotiate]_vars PROVE IInv'
  OBVIOUS
<1>1. CASE Negotiate
  BY <1>1, NegotiateIInv
<1>2. CASE UNCHANGED vars
  BY <1>2 DEF vars, IInv, ChoiceAgreed, Narrowed, first_usable_algo, buf_put_algolist,
              Usable, Rank, Shared
<1>3. QED
  BY <1>1, <1>2

\* Both ends choose the same algorithm and agree on the guess, for every set
\* of algorithms and every two tables with entries switched off
\* (buf_match_algo at both ends, with the extension kexguess2 that both have).
THEOREM Agreement ==
  ASSUME KexGuess2
  PROVE  Spec => []ChoiceAgreed
<1>1. IInv => ChoiceAgreed
  BY DEF IInv
<1>2. IInv /\ [Negotiate]_vars => IInv'
  BY NextIInv
<1>3. QED
  BY <1>1, <1>2, InitIInv, PTL DEF Spec

\* The second exchange finds the algorithm of the first: the server's table,
\* narrowed by disable_sig_except, still has it and the client does too.
THEOREM Rekey ==
  ASSUME KexGuess2
  PROVE  Spec => RekeyKeepsChoice
<1>1. IInv /\ [Negotiate]_vars
        => [round = 1 => scho'.algo = scho.algo /\ ccho'.algo = ccho.algo]_vars
  <2> SUFFICES ASSUME IInv, Negotiate, round = 1
               PROVE  scho'.algo = scho.algo /\ ccho'.algo = ccho.algo
    BY DEF vars
  <2>1. /\ cli \in Tables /\ cli[1].usable /\ svr \in Tables /\ scho.algo # NULL
        /\ ccho.algo = scho.algo
        /\ ccho' = ClientMatch(cli, svr) /\ scho' = ServerMatch(cli, svr)
    BY DEF IInv, Negotiate, ChoiceAgreed
  <2>2. /\ \A j \in Usable(svr) : svr[j].name = scho.algo
        /\ Shared(cli, svr) # {}
    BY <2>1 DEF IInv, Narrowed
  <2>3. \A i : FirstShared(cli, svr, i) => cli[i].name = scho.algo
    BY <2>2 DEF FirstShared, Shared
  <2>4. ClientMatch(cli, svr).algo = scho.algo
    BY <2>1, <2>2, <2>3, ClientChoice
  <2>5. ServerMatch(cli, svr).algo = scho.algo
    BY <2>1, <2>2, <2>3, ServerChoice
  <2>6. QED
    BY <2>1, <2>4, <2>5
<1>2. IInv /\ [Negotiate]_vars => IInv'
  BY NextIInv
<1>3. QED
  BY <1>1, <1>2, InitIInv, PTL DEF Spec, RekeyKeepsChoice
=============================================================================
