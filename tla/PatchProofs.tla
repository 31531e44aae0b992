---------------------------- MODULE PatchProofs ----------------------------
(***************************************************************************)
(* What ResolvePatch makes of any document and any canonical graph.        *)
(***************************************************************************)
EXTENDS ResolvePatch, TLAPS, SequenceTheorems, FiniteSetTheorems, WellFoundedInduction

-----------------------------------------------------------------------------
(* Numbers, sequences and the functions defined by recursion over them. *)

\* A set that has 0 and the successor of each of its numbers has them all.
LEMMA SetInduction ==
    ASSUME NEW T, 0 \in T, \A n \in Nat : n \in T => n + 1 \in T
    PROVE  Nat \subseteq T
<1> DEFINE R == OpToRel(<, Nat)
<1>1. IsWellFoundedOn(R, Nat)
  BY NatLessThanWellFounded
<1>2. \A x, y \in Nat : x < y => <<x, y>> \in R
  BY DEF OpToRel
<1> HIDE DEF R
<1> SUFFICES ASSUME Nat \ T # {} PROVE FALSE
  OBVIOUS
<1>3. PICK n \in Nat \ T : \A y \in Nat \ T : <<y, n>> \notin R
  BY <1>1, WFMin
<1>4. n # 0 /\ n - 1 \in Nat
  BY <1>3
<1>5. n - 1 < n /\ n \in Nat
  BY <1>4
<1>6. <<n - 1, n>> \in R
  BY <1>2, <1>4, <1>5
<1>7. (n - 1) + 1 = n
  BY <1>5
<1>8. n - 1 \in T
  BY <1>3, <1>4, <1>6
<1>9. n \in T
  BY <1>4, <1>7, <1>8
<1>10. QED
  BY <1>3, <1>9

LEMMA UpToInduction ==
    ASSUME NEW T, NEW n \in Nat, 0 \in T, \A k \in Nat : k < n /\ k \in T => k + 1 \in T
    PROVE  n \in T
<1> DEFINE U == {k \in Nat : k <= n => k \in T}
<1>1. 0 \in U
  OBVIOUS
<1>2. ASSUME NEW k \in Nat, k \in U PROVE k + 1 \in U
  BY <1>2
<1>3. Nat \subseteq U
  <2> HIDE DEF U
  <2>1. QED
    BY <1>1, <1>2, SetInduction
<1>4. QED
  BY <1>3

\* A nonempty set of numbers has a least one.
LEMMA LeastNumber ==
    ASSUME NEW I \in SUBSET Nat, I # {}
    PROVE  \E i \in I : \A j \in I : i <= j
<1> DEFINE T == {n \in Nat : \A i \in 0 .. n : i \notin I}
<1> SUFFICES ASSUME \A i \in I : \E j \in I : ~(i <= j) PROVE FALSE
  OBVIOUS
<1>1. 0 \in T
  OBVIOUS
<1>2. ASSUME NEW n \in Nat, n \in T PROVE n + 1 \in T
  BY <1>2
<1>3. Nat \subseteq T
  <2> HIDE DEF T
  <2>1. QED
    BY <1>1, <1>2, SetInduction
<1>4. PICK i \in I : TRUE
  OBVIOUS
<1>5. i \in T
  BY <1>3
<1>6. i \in 0 .. i
  OBVIOUS
<1>7. QED
  BY <1>4, <1>5, <1>6

LEMMA MinOfPlaces ==
    ASSUME NEW I \in SUBSET Nat, I # {}
    PROVE  Min(I) \in I /\ \A j \in I : Min(I) <= j
  BY LeastNumber DEF Min

\* A set of numbers under a bound has a greatest one.
LEMMA MaxOfPlaces ==
    ASSUME NEW b \in Nat, NEW I \in SUBSET (0 .. b), I # {}
    PROVE  Max(I) \in I /\ \A j \in I : j <= Max(I)
<1> DEFINE J == {k \in Nat : \E i \in I : k = b - i}
<1>1. J \in SUBSET Nat /\ J # {}
  <2>1. PICK i \in I : TRUE
    OBVIOUS
  <2>2. b - i \in Nat /\ i \in I
    OBVIOUS
  <2>3. b - i \in J
    BY <2>2
  <2>4. QED
    BY <2>3
<1>2. PICK k \in J : \A j \in J : k <= j
  <2> HIDE DEF J
  <2>1. QED
    BY <1>1, LeastNumber
<1>3. PICK i \in I : k = b - i
  BY <1>2
<1>4. \A j \in I : j <= i
  <2> TAKE j \in I
  <2>1. b - j \in J
    OBVIOUS
  <2>2. QED
    BY <1>2, <1>3, <2>1
<1>5. QED
  BY <1>4 DEF Max

LEMMA FunctionIsSeq ==
    ASSUME NEW S, NEW n \in Nat, NEW f \in [1 .. n -> S]
    PROVE  f \in Seq(S) /\ Len(f) = n
  OBVIOUS

LEMMA PickedUpTo ==
    ASSUME NEW S, NEW s \in Seq(S), NEW P
    PROVE  \E f : /\ f[0] = <<>>
                  /\ \A k \in 1 .. Len(s) :
                        f[k] = IF k \in P THEN Append(f[k - 1], s[k]) ELSE f[k - 1]
                  /\ Picked(s, P) = f[Len(s)]
<1> DEFINE Step(r, i) == IF i \in P THEN Append(r, s[i]) ELSE r
           Ok(f, n) == f = [i \in 0 .. n |-> IF i = 0 THEN <<>> ELSE Step(f[i - 1], i)]
           T == {n \in Nat : \E f : Ok(f, n)}
<1>1. 0 \in T
  <2>1. Ok([i \in 0 .. 0 |-> <<>>], 0)
    OBVIOUS
  <2>2. QED
    BY <2>1
<1>2. ASSUME NEW n \in Nat, n \in T PROVE n + 1 \in T
  <2>1. PICK f : Ok(f, n)
    BY <1>2
  <2> DEFINE g == [i \in 0 .. n + 1 |-> IF i <= n THEN f[i] ELSE Step(f[n], n + 1)]
  <2> HIDE DEF Step
  <2>2. Ok(g, n + 1)
    BY <2>1
  <2> HIDE DEF g, Ok
  <2>3. QED
    BY <2>2
<1>3. Len(s) \in Nat
  OBVIOUS
<1> DEFINE u == CHOOSE f : Ok(f, Len(s))
<1>4. Picked(s, P) = u[Len(s)]
  BY DEF Picked
<1>5. Ok(u, Len(s))
  <2> HIDE DEF Ok
  <2>1. QED
    BY <1>1, <1>2, <1>3, SetInduction
<1> HIDE DEF u
<1>6. u[0] = <<>> /\ \A k \in 1 .. Len(s) : u[k] = Step(u[k - 1], k)
  <2> HIDE DEF Step
  <2>1. QED
    BY <1>3, <1>5
<1>7. QED
  BY <1>4, <1>6

\* t has the elements of s at the places I, in their order; at gives the place of each.
Picking(at, t, s, I) ==
    /\ at \in [1 .. Len(t) -> I]
    /\ \A n \in 1 .. Len(t) : t[n] = s[at[n]]
    /\ \A m, n \in 1 .. Len(t) : m < n => at[m] < at[n]
    /\ \A i \in I : \E n \in 1 .. Len(t) : at[n] = i

LEMMA PickedStep ==
    ASSUME NEW S, NEW r \in Seq(S), NEW s, NEW I \in SUBSET Nat, NEW at, Picking(at, r, s, I),
           NEW k \in Nat, s[k] \in S, \A i \in I : i < k
    PROVE  \E to : Picking(to, Append(r, s[k]), s, I \cup {k})
<1> DEFINE q == Append(r, s[k])
           to == [n \in 1 .. Len(r) + 1 |-> IF n <= Len(r) THEN at[n] ELSE k]
<1>1. /\ q \in Seq(S) /\ Len(q) = Len(r) + 1 /\ q[Len(r) + 1] = s[k]
      /\ \A n \in 1 .. Len(r) : q[n] = r[n]
      /\ Len(r) \in Nat
  BY AppendProperties
<1>2. \A n \in 1 .. Len(r) : to[n] = at[n] /\ at[n] \in I
  BY <1>1 DEF Picking
<1>3. to[Len(r) + 1] = k
  BY <1>1
<1>4. \A n \in 1 .. Len(r) + 1 : n \in 1 .. Len(r) \/ n = Len(r) + 1
  BY <1>1
<1>5. DOMAIN to = 1 .. Len(r) + 1 /\ to = [n \in 1 .. Len(r) + 1 |-> to[n]]
  OBVIOUS
<1> HIDE DEF q, to
<1>6. to \in [1 .. Len(q) -> I \cup {k}]
  BY <1>1, <1>2, <1>3, <1>4, <1>5
<1>7. \A n \in 1 .. Len(q) : q[n] = s[to[n]]
  BY <1>1, <1>2, <1>3, <1>4 DEF Picking
<1>8. \A m, n \in 1 .. Len(q) : m < n => to[m] < to[n]
  <2>1. \A m, n \in 1 .. Len(r) : m < n => at[m] < at[n]
    BY DEF Picking
  <2>2. \A m \in 1 .. Len(r) : at[m] < k
    BY <1>2
  <2>3. QED
    BY <1>1, <1>2, <1>3, <1>4, <2>1, <2>2
<1>9. \A i \in I \cup {k} : \E n \in 1 .. Len(q) : to[n] = i
  <2> TAKE i \in I \cup {k}
  <2>1. CASE i = k
    <3>1. Len(r) + 1 \in 1 .. Len(q)
      BY <1>1
    <3>2. QED
      BY <2>1, <1>3, <3>1
  <2>2. CASE i \in I
    <3>1. PICK n \in 1 .. Len(r) : at[n] = i
      BY <2>2 DEF Picking
    <3>2. to[n] = i /\ n \in 1 .. Len(q)
      BY <3>1, <1>1, <1>2
    <3>3. QED
      BY <3>2
  <2>3. QED
    BY <2>1, <2>2
<1>10. Picking(to, q, s, I \cup {k})
  BY <1>6, <1>7, <1>8, <1>9 DEF Picking
<1>11. QED
  BY <1>10 DEF q

LEMMA PickedPlaces ==
    ASSUME NEW S, NEW s \in Seq(S), NEW P
    PROVE  Picked(s, P) \in Seq(S) /\ \E at : Picking(at, Picked(s, P), s, DOMAIN s \cap P)
<1>1. PICK f : /\ f[0] = <<>>
               /\ \A k \in 1 .. Len(s) :
                     f[k] = IF k \in P THEN Append(f[k - 1], s[k]) ELSE f[k - 1]
               /\ Picked(s, P) = f[Len(s)]
  BY PickedUpTo
<1> DEFINE Good(k) == f[k] \in Seq(S) /\ \E at : Picking(at, f[k], s, (1 .. k) \cap P)
           T == {k \in Nat : Good(k)}
<1>2. Good(0)
  <2>1. Picking(<<>>, <<>>, s, (1 .. 0) \cap P) /\ <<>> \in Seq(S)
    BY DEF Picking
  <2>2. QED
    BY <2>1, <1>1
<1>3. ASSUME NEW k \in Nat, k < Len(s), Good(k) PROVE Good(k + 1)
  <2>1. f[k + 1] = IF k + 1 \in P THEN Append(f[k], s[k + 1]) ELSE f[k]
    <3>1. k + 1 \in 1 .. Len(s) /\ (k + 1) - 1 = k
      BY <1>3
    <3>2. QED
      BY <3>1, <1>1
  <2>2. CASE k + 1 \notin P
    <3>1. (1 .. k + 1) \cap P = (1 .. k) \cap P
      BY <2>2
    <3>2. QED
      BY <1>3, <2>1, <2>2, <3>1
  <2>3. CASE k + 1 \in P
    <3>1. (1 .. k + 1) \cap P = ((1 .. k) \cap P) \cup {k + 1}
      BY <2>3
    <3>2. /\ (1 .. k) \cap P \in SUBSET Nat /\ k + 1 \in Nat /\ s[k + 1] \in S
          /\ \A i \in (1 .. k) \cap P : i < k + 1
      BY <1>3
    <3>3. \E to : Picking(to, Append(f[k], s[k + 1]), s, ((1 .. k) \cap P) \cup {k + 1})
      BY <1>3, <3>2, PickedStep
    <3>4. Append(f[k], s[k + 1]) \in Seq(S)
      BY <1>3, <3>2, AppendProperties
    <3>5. QED
      BY <2>1, <2>3, <3>1, <3>3, <3>4
  <2>4. QED
    BY <2>2, <2>3
<1>4. Len(s) \in Nat /\ DOMAIN s = 1 .. Len(s)
  OBVIOUS
<1>5. Good(Len(s))
  <2> HIDE DEF Good
  <2>1. 0 \in T /\ \A k \in Nat : k < Len(s) /\ k \in T => k + 1 \in T
    BY <1>2, <1>3
  <2>2. Len(s) \in T
    <3> HIDE DEF T
    <3>1. QED
      BY <2>1, <1>4, UpToInduction
  <2>3. QED
    BY <2>2
<1>6. QED
  BY <1>1, <1>4, <1>5

SameKey(s, key, f) == {i \in DOMAIN s : key[i] = key[f]}

\* t has the element at f first, and nothing of another key.
GroupOf(t, s, key, f) ==
    /\ Len(t) \in Nat \ {0}
    /\ t[1] = s[f]
    /\ \A j \in 1 .. Len(t) : \E i \in 1 .. Len(s) : key[i] = key[f] /\ t[j] = s[i]

\* first[n] is the place in s of the first element of groups[n].
Grouping(first, groups, s, key) ==
    /\ first \in [1 .. Len(groups) -> 1 .. Len(s)]
    /\ \A m, n \in 1 .. Len(groups) : key[first[m]] = key[first[n]] => m = n
    /\ \A i \in 1 .. Len(s) : \E n \in 1 .. Len(groups) : key[first[n]] = key[i]
    /\ \A n \in 1 .. Len(groups) : \A j \in 1 .. Len(s) :
            key[j] = key[first[n]] => first[n] <= j
    /\ \A n \in 1 .. Len(groups) : GroupOf(groups[n], s, key, first[n])

LEMMA OneGroup ==
    ASSUME NEW S, NEW s \in Seq(S), NEW key, NEW f \in 1 .. Len(s),
           \A j \in 1 .. Len(s) : key[j] = key[f] => f <= j,
           NEW t, t = Picked(s, SameKey(s, key, f))
    PROVE  t \in Seq(S) /\ GroupOf(t, s, key, f)
<1> DEFINE I == SameKey(s, key, f)
<1>1. DOMAIN s = 1 .. Len(s) /\ Len(s) \in Nat /\ DOMAIN s \cap I = I
  BY DEF SameKey
<1>2. PICK at : t \in Seq(S) /\ Picking(at, t, s, I)
  BY <1>1, PickedPlaces
<1>3. f \in I /\ \A i \in I : i \in 1 .. Len(s) /\ key[i] = key[f] /\ f <= i
  BY <1>1 DEF SameKey
<1> HIDE DEF I
<1>4. PICK n \in 1 .. Len(t) : at[n] = f
  BY <1>2, <1>3 DEF Picking
<1>5. Len(t) \in Nat \ {0}
  BY <1>2, <1>4
<1>6. n = 1
  <2> SUFFICES ASSUME n # 1 PROVE FALSE
    OBVIOUS
  <2>1. 1 \in 1 .. Len(t) /\ 1 < n
    BY <1>5
  <2>2. at[1] < at[n] /\ at[1] \in I
    BY <1>2, <2>1 DEF Picking
  <2>3. at[1] \in 1 .. Len(s) /\ f <= at[1] /\ at[1] < f
    BY <1>3, <1>4, <2>2
  <2>4. QED
    BY <2>3
<1>7. t[1] = s[f]
  BY <1>2, <1>4, <1>6 DEF Picking
<1>8. ASSUME NEW j \in 1 .. Len(t)
      PROVE  \E i \in 1 .. Len(s) : key[i] = key[f] /\ t[j] = s[i]
  BY <1>2, <1>3 DEF Picking
<1>9. QED
  BY <1>2, <1>5, <1>7, <1>8 DEF GroupOf

LEMMA GroupsOf ==
    ASSUME NEW S, NEW s \in Seq(S), NEW key
    PROVE  /\ Groups(s, key) \in Seq(Seq(S))
           /\ \E first : Grouping(first, Groups(s, key), s, key)
<1> DEFINE places == [i \in DOMAIN s |-> i]
           P == {i \in DOMAIN s : \A j \in 1 .. i - 1 : key[j] # key[i]}
           first == Picked(places, P)
           G == [n \in DOMAIN first |-> Picked(s, {i \in DOMAIN s : key[i] = key[first[n]]})]
<1>1. DOMAIN s = 1 .. Len(s) /\ Len(s) \in Nat
  OBVIOUS
<1>2. /\ places \in Seq(1 .. Len(s)) /\ DOMAIN places = 1 .. Len(s)
      /\ \A i \in 1 .. Len(s) : places[i] = i
  BY <1>1, FunctionIsSeq
<1>3. P \subseteq 1 .. Len(s) /\ DOMAIN places \cap P = P
  BY <1>1
<1>4. \A i \in P : \A j \in 1 .. Len(s) : key[j] = key[i] => i <= j
  BY <1>1
<1>5. \A i \in 1 .. Len(s) : \E f \in P : key[f] = key[i]
  <2> TAKE i \in 1 .. Len(s)
  <2> DEFINE J == {j \in 1 .. Len(s) : key[j] = key[i]}
  <2>1. J \in SUBSET Nat /\ J # {}
    OBVIOUS
  <2>2. PICK f \in J : \A j \in J : f <= j
    <3> HIDE DEF J
    <3>1. QED
      BY <2>1, LeastNumber
  <2>3. f \in P
    BY <1>1, <2>2
  <2>4. QED
    BY <2>2, <2>3
<1> HIDE DEF P, places
<1>6. PICK at : first \in Seq(1 .. Len(s)) /\ Picking(at, first, places, P)
  <2>1. PICK at : first \in Seq(1 .. Len(s)) /\ Picking(at, first, places, DOMAIN places \cap P)
    BY <1>2, PickedPlaces
  <2>2. QED
    BY <1>3, <2>1
<1> HIDE DEF first
<1>7. DOMAIN first = 1 .. Len(first) /\ Len(first) \in Nat
  BY <1>6
<1>8. \A n \in 1 .. Len(first) : first[n] = at[n] /\ at[n] \in P /\ at[n] \in 1 .. Len(s)
  BY <1>2, <1>3, <1>6 DEF Picking
<1>9. \A n \in 1 .. Len(first) : G[n] \in Seq(S) /\ GroupOf(G[n], s, key, first[n])
  <2> TAKE n \in 1 .. Len(first)
  <2>1. /\ first[n] \in 1 .. Len(s)
        /\ \A j \in 1 .. Len(s) : key[j] = key[first[n]] => first[n] <= j
    BY <1>4, <1>8
  <2>2. PICK f \in 1 .. Len(s), t \in {G[n]} :
            /\ f = first[n]
            /\ t = Picked(s, SameKey(s, key, f))
            /\ \A j \in 1 .. Len(s) : key[j] = key[f] => f <= j
    BY <1>7, <2>1 DEF SameKey
  <2> HIDE DEF G
  <2>3. t \in Seq(S) /\ GroupOf(t, s, key, f)
    BY <2>2, OneGroup
  <2>4. QED
    BY <2>2, <2>3
<1>10. Groups(s, key) = G
  BY DEF Groups, first, places, P
<1>11. G \in [1 .. Len(first) -> Seq(S)]
  BY <1>7, <1>9
<1> HIDE DEF G
<1>12. G \in Seq(Seq(S)) /\ Len(G) = Len(first)
  BY <1>7, <1>11, FunctionIsSeq
<1>13. ASSUME NEW m \in 1 .. Len(first), NEW n \in 1 .. Len(first), key[first[m]] = key[first[n]]
       PROVE  m = n
  <2>1. first[m] <= first[n] /\ first[n] <= first[m]
    BY <1>4, <1>8, <1>13
  <2>2. at[m] = at[n] /\ at[m] \in Nat /\ at[n] \in Nat
    BY <1>8, <2>1
  <2>3. ~(m < n) /\ ~(n < m)
    BY <1>6, <2>2 DEF Picking
  <2>4. QED
    BY <1>7, <2>3
<1>14. \A i \in 1 .. Len(s) : \E n \in 1 .. Len(first) : key[first[n]] = key[i]
  <2> TAKE i \in 1 .. Len(s)
  <2>1. PICK f \in P : key[f] = key[i]
    BY <1>5
  <2>2. PICK n \in 1 .. Len(first) : at[n] = f
    BY <1>6 DEF Picking
  <2>3. QED
    BY <1>8, <2>1, <2>2
<1>15. first \in [1 .. Len(first) -> 1 .. Len(s)]
  BY <1>6
<1>16. \A n \in 1 .. Len(first) : \A j \in 1 .. Len(s) :
            key[j] = key[first[n]] => first[n] <= j
  BY <1>4, <1>8
<1>17. Grouping(first, G, s, key)
  <2>1. Len(G) = Len(first)
    BY <1>12
  <2>2. \A m, n \in 1 .. Len(G) : key[first[m]] = key[first[n]] => m = n
    BY <1>13, <2>1
  <2>3. QED
    BY <1>9, <2>1, <2>2, <1>14, <1>15, <1>16 DEF Grouping
<1>18. QED
  BY <1>10, <1>12, <1>17

LEMMA FirstGivenFrom ==
    ASSUME NEW V, NEW values \in Seq(V)
    PROVE  FirstGiven(values) \in V \cup {None}
<1> DEFINE I == {i \in 1 .. Len(values) : values[i] # None}
<1>1. CASE I = {}
  BY <1>1 DEF FirstGiven, SelectInSeq
<1>2. CASE I # {}
  <2>1. I \in SUBSET Nat
    OBVIOUS
  <2>2. Min(I) \in I
    <3> HIDE DEF I
    <3>1. QED
      BY <1>2, <2>1, MinOfPlaces
  <2>3. FirstGiven(values) = values[Min(I)] \/ FirstGiven(values) = None
    BY <1>2 DEF FirstGiven, SelectInSeq
  <2>4. QED
    BY <2>2, <2>3
<1>3. QED
  BY <1>1, <1>2

\* Of values under a bound, one is the greatest.
LEMMA GreatestValue ==
    ASSUME NEW D, D # {}, NEW b \in Nat, NEW f \in [D -> 0 .. b]
    PROVE  \E m \in D : \A j \in D : f[j] <= f[m]
<1> DEFINE C == {c \in Nat : \E i \in D : c = b - f[i]}
<1>1. \A i \in D : f[i] \in 0 .. b /\ b - f[i] \in C
  <2> TAKE i \in D
  <2>1. PICK v \in 0 .. b : v = f[i]
    OBVIOUS
  <2>2. b - v \in Nat
    OBVIOUS
  <2>3. QED
    BY <2>1, <2>2
<1>2. C \in SUBSET Nat /\ C # {}
  BY <1>1
<1>3. PICK c \in C : \A d \in C : c <= d
  <2> HIDE DEF C
  <2>1. QED
    BY <1>2, LeastNumber
<1>4. PICK m \in D : c = b - f[m]
  BY <1>3
<1>5. ASSUME NEW j \in D PROVE f[j] <= f[m]
  <2>1. c <= b - f[j]
    BY <1>1, <1>3
  <2>2. PICK v \in 0 .. b, w \in 0 .. b : v = f[j] /\ w = f[m]
    BY <1>1
  <2>3. QED
    BY <1>4, <2>1, <2>2
<1>6. QED
  BY <1>5

LEMMA MostConfidentFrom ==
    ASSUME NEW S, NEW s \in Seq(S), s # <<>>, \A x \in S : x.conf \in Percent
    PROVE  \E i \in 1 .. Len(s) : MostConfident(s) = s[i]
<1> DEFINE conf == [i \in 1 .. Len(s) |-> s[i].conf]
<1>1. Len(s) \in Nat \ {0} /\ DOMAIN s = 1 .. Len(s)
  OBVIOUS
<1>2. conf \in [1 .. Len(s) -> 0 .. 100] /\ \A i \in 1 .. Len(s) : conf[i] = s[i].conf
  BY DEF Percent
<1> HIDE DEF conf
<1>3. PICK m \in 1 .. Len(s) : \A j \in 1 .. Len(s) : conf[j] <= conf[m]
  <2>1. 1 \in 1 .. Len(s) /\ 100 \in Nat
    BY <1>1
  <2>2. QED
    BY <1>2, <2>1, GreatestValue
<1> DEFINE J == {j \in 1 .. Len(s) : conf[j] = conf[m]}
<1>4. J \in SUBSET Nat /\ J # {}
  OBVIOUS
<1>5. PICK f \in J : \A j \in J : f <= j
  <2> HIDE DEF J
  <2>1. QED
    BY <1>4, LeastNumber
<1>6. \A j \in 1 .. f - 1 : conf[j] < conf[f]
  <2> TAKE j \in 1 .. f - 1
  <2>1. j \in 1 .. Len(s) /\ conf[j] # conf[m]
    BY <1>5
  <2>2. PICK v \in 0 .. 100, w \in 0 .. 100 : v = conf[j] /\ w = conf[f] /\ w = conf[m]
    BY <1>2, <1>5, <2>1
  <2>3. v <= w
    BY <1>3, <2>1, <2>2
  <2>4. QED
    BY <2>1, <2>2, <2>3
<1>7. \A j \in 1 .. Len(s) : conf[j] <= conf[f]
  BY <1>3, <1>5
<1>8. \A j \in 1 .. f - 1 : j \in 1 .. Len(s)
  BY <1>5
<1>9. \E i \in DOMAIN s : /\ \A j \in DOMAIN s : s[j].conf <= s[i].conf
                          /\ \A j \in 1 .. i - 1 : s[j].conf < s[i].conf
  BY <1>1, <1>2, <1>5, <1>6, <1>7, <1>8
<1>10. QED
  BY <1>1, <1>9 DEF MostConfident

-----------------------------------------------------------------------------
(* Sequences of sequences, put end to end. *)

LEMMA FlattenUpTo ==
    ASSUME NEW S, NEW ss \in Seq(S), Len(ss) # 0
    PROVE  \E f : /\ f[1] = ss[1]
                  /\ \A k \in 2 .. Len(ss) : f[k] = f[k - 1] \o ss[k]
                  /\ FlattenSeq(ss) = f[Len(ss)]
<1> DEFINE Step(r, i) == r \o ss[i]
           Ok(f, n) == f = [i \in 1 .. n |-> IF i = 1 THEN ss[i] ELSE Step(f[i - 1], i)]
           T == {n \in Nat : \E f : Ok(f, n)}
<1>1. 0 \in T
  <2>1. Ok([i \in 1 .. 0 |-> <<>>], 0)
    OBVIOUS
  <2>2. QED
    BY <2>1
<1>2. ASSUME NEW n \in Nat, n \in T PROVE n + 1 \in T
  <2>1. PICK f : Ok(f, n)
    BY <1>2
  <2> DEFINE g == [i \in 1 .. n + 1 |-> IF i <= n THEN f[i]
                                        ELSE IF i = 1 THEN ss[i] ELSE Step(f[n], n + 1)]
  <2> HIDE DEF Step
  <2>2. Ok(g, n + 1)
    BY <2>1
  <2> HIDE DEF g, Ok
  <2>3. QED
    BY <2>2
<1>3. Len(ss) \in Nat
  OBVIOUS
<1> DEFINE u == CHOOSE f : Ok(f, Len(ss))
<1>4. FlattenSeq(ss) = u[Len(ss)]
  BY DEF FlattenSeq
<1>5. Ok(u, Len(ss))
  <2> HIDE DEF Ok
  <2>1. QED
    BY <1>1, <1>2, <1>3, SetInduction
<1> HIDE DEF u
<1>6. u[1] = ss[1] /\ \A k \in 2 .. Len(ss) : u[k] = Step(u[k - 1], k)
  <2> HIDE DEF Step
  <2>1. QED
    BY <1>3, <1>5
<1>7. QED
  BY <1>4, <1>6

\* The element n of t is the element el[n] of the sequence of[n] of ss.
Flattening(of, el, t, ss, l) ==
    /\ \A n \in 1 .. Len(t) : /\ of[n] \in 1 .. l
                              /\ el[n] \in 1 .. Len(ss[of[n]])
                              /\ t[n] = ss[of[n]][el[n]]
    /\ \A m, n \in 1 .. Len(t) : of[m] = of[n] /\ el[m] = el[n] => m = n
    /\ \A k \in 1 .. l : \A j \in 1 .. Len(ss[k]) :
            \E n \in 1 .. Len(t) : of[n] = k /\ el[n] = j

LEMMA FlattenStep ==
    ASSUME NEW S, NEW ss, NEW l \in Nat, NEW t \in Seq(S), ss[l + 1] \in Seq(S),
           NEW of, NEW el, Flattening(of, el, t, ss, l)
    PROVE  \E of2, el2 : Flattening(of2, el2, t \o ss[l + 1], ss, l + 1)
<1> DEFINE q == t \o ss[l + 1]
           of2 == [n \in 1 .. Len(t) + Len(ss[l + 1]) |-> IF n <= Len(t) THEN of[n] ELSE l + 1]
           el2 == [n \in 1 .. Len(t) + Len(ss[l + 1]) |-> IF n <= Len(t) THEN el[n] ELSE n - Len(t)]
<1>1. Len(t) \in Nat /\ Len(ss[l + 1]) \in Nat
  OBVIOUS
<1>2. Len(q) = Len(t) + Len(ss[l + 1])
  BY ConcatProperties
<1>3. \A n \in 1 .. Len(q) : n \in 1 .. Len(t) \/ n - Len(t) \in 1 .. Len(ss[l + 1])
  BY <1>1, <1>2
<1>4. \A n \in 1 .. Len(t) : /\ n \in 1 .. Len(q)
                             /\ of2[n] = of[n] /\ el2[n] = el[n] /\ q[n] = t[n]
                             /\ of[n] \in 1 .. l
  <2>1. \A n \in 1 .. Len(t) : n \in 1 .. Len(q) /\ q[n] = t[n]
    BY <1>1, <1>2, ConcatProperties
  <2>2. QED
    BY <1>1, <1>2, <2>1 DEF Flattening
<1>5. \A j \in 1 .. Len(ss[l + 1]) : /\ j + Len(t) \in 1 .. Len(q)
                                     /\ of2[j + Len(t)] = l + 1 /\ el2[j + Len(t)] = j
                                     /\ q[j + Len(t)] = ss[l + 1][j]
  <2> TAKE j \in 1 .. Len(ss[l + 1])
  <2>1. j + Len(t) \in 1 .. Len(t) + Len(ss[l + 1]) /\ ~(j + Len(t) <= Len(t))
        /\ (j + Len(t)) - Len(t) = j
    BY <1>1
  <2>2. q[j + Len(t)] = ss[l + 1][j]
    BY <2>1, ConcatProperties
  <2>3. QED
    BY <1>2, <2>1, <2>2
<1> HIDE DEF q, of2, el2
<1>6. \A n \in 1 .. Len(q) : n \in 1 .. Len(t) \/ \E j \in 1 .. Len(ss[l + 1]) : n = j + Len(t)
  <2> TAKE n \in 1 .. Len(q)
  <2>1. CASE n \notin 1 .. Len(t)
    <3>1. n - Len(t) \in 1 .. Len(ss[l + 1]) /\ n = (n - Len(t)) + Len(t)
      BY <1>1, <1>2, <1>3, <2>1
    <3>2. QED
      BY <3>1
  <2>2. QED
    BY <2>1
<1>7. \A n \in 1 .. Len(q) : /\ of2[n] \in 1 .. l + 1
                             /\ el2[n] \in 1 .. Len(ss[of2[n]])
                             /\ q[n] = ss[of2[n]][el2[n]]
  <2> TAKE n \in 1 .. Len(q)
  <2>1. CASE n \in 1 .. Len(t)
    BY <2>1, <1>4 DEF Flattening
  <2>2. CASE \E j \in 1 .. Len(ss[l + 1]) : n = j + Len(t)
    BY <2>2, <1>5
  <2>3. QED
    BY <1>6, <2>1, <2>2
<1>8. ASSUME NEW m \in 1 .. Len(q), NEW n \in 1 .. Len(q), of2[m] = of2[n], el2[m] = el2[n]
      PROVE  m = n
  <2>1. CASE m \in 1 .. Len(t) /\ n \in 1 .. Len(t)
    BY <1>4, <1>8, <2>1 DEF Flattening
  <2>2. CASE m \in 1 .. Len(t) /\ \E j \in 1 .. Len(ss[l + 1]) : n = j + Len(t)
    <3>1. of2[n] = l + 1
      BY <1>5, <2>2
    <3>2. of2[m] = of[m] /\ of[m] \in 1 .. l
      BY <1>4, <2>2
    <3>3. of[m] # l + 1
      BY <3>2
    <3>4. QED
      BY <1>8, <3>1, <3>2, <3>3
  <2>3. CASE n \in 1 .. Len(t) /\ \E j \in 1 .. Len(ss[l + 1]) : m = j + Len(t)
    <3>1. of2[m] = l + 1
      BY <1>5, <2>3
    <3>2. of2[n] = of[n] /\ of[n] \in 1 .. l
      BY <1>4, <2>3
    <3>3. of[n] # l + 1
      BY <3>2
    <3>4. QED
      BY <1>8, <3>1, <3>2, <3>3
  <2>4. CASE /\ \E j \in 1 .. Len(ss[l + 1]) : n = j + Len(t)
             /\ \E j \in 1 .. Len(ss[l + 1]) : m = j + Len(t)
    BY <1>5, <1>8, <2>4
  <2>5. QED
    BY <1>6, <2>1, <2>2, <2>3, <2>4
<1>9. ASSUME NEW k \in 1 .. l + 1, NEW j \in 1 .. Len(ss[k])
      PROVE  \E n \in 1 .. Len(q) : of2[n] = k /\ el2[n] = j
  <2>1. CASE k = l + 1
    BY <1>5, <2>1
  <2>2. CASE k \in 1 .. l
    <3>1. PICK n \in 1 .. Len(t) : of[n] = k /\ el[n] = j
      BY <2>2 DEF Flattening
    <3>2. QED
      BY <1>4, <3>1
  <2>3. QED
    BY <2>1, <2>2
<1>10. Flattening(of2, el2, q, ss, l + 1)
  BY <1>7, <1>8, <1>9 DEF Flattening
<1>11. QED
  BY <1>10 DEF q

LEMMA FlattenPlaces ==
    ASSUME NEW S, NEW ss \in Seq(Seq(S))
    PROVE  /\ FlattenSeq(ss) \in Seq(S)
           /\ \E of, el : Flattening(of, el, FlattenSeq(ss), ss, Len(ss))
<1>1. Len(ss) \in Nat /\ \A k \in 1 .. Len(ss) : ss[k] \in Seq(S)
  OBVIOUS
<1>2. CASE Len(ss) = 0
  <2>1. FlattenSeq(ss) = <<>>
    <3>1. ss = <<>>
      BY <1>2, EmptySeq
    <3>2. QED
      BY <1>2, <3>1 DEF FlattenSeq
  <2>2. Flattening(<<>>, <<>>, <<>>, ss, 0)
    BY DEF Flattening
  <2>3. QED
    BY <1>2, <2>1, <2>2
<1>3. CASE Len(ss) # 0
  <2>1. PICK f : /\ f[1] = ss[1]
                 /\ \A k \in 2 .. Len(ss) : f[k] = f[k - 1] \o ss[k]
                 /\ FlattenSeq(ss) = f[Len(ss)]
    BY <1>3, FlattenUpTo
  <2> DEFINE Good(k) == f[k] \in Seq(S) /\ \E of, el : Flattening(of, el, f[k], ss, k)
             T == {k \in Nat : k = 0 \/ Good(k)}
  <2>2. Good(1)
    <3>1. ss[1] \in Seq(S) /\ Len(ss[1]) \in Nat
      BY <1>1, <1>3
    <3> DEFINE of == [n \in 1 .. Len(ss[1]) |-> 1]
               el == [n \in 1 .. Len(ss[1]) |-> n]
    <3>2. Flattening(of, el, ss[1], ss, 1)
      BY <3>1 DEF Flattening
    <3> HIDE DEF of, el
    <3>3. QED
      BY <2>1, <3>1, <3>2
  <2>3. ASSUME NEW k \in Nat, k # 0, k < Len(ss), Good(k) PROVE Good(k + 1)
    <3>1. k + 1 \in 2 .. Len(ss) /\ (k + 1) - 1 = k
      BY <1>1, <2>3
    <3>2. f[k + 1] = f[k] \o ss[k + 1] /\ ss[k + 1] \in Seq(S)
      <4>1. k + 1 \in 1 .. Len(ss)
        BY <3>1
      <4>2. \A i \in 2 .. Len(ss) : f[i] = f[i - 1] \o ss[i]
        BY <2>1
      <4>3. f[k + 1] = f[(k + 1) - 1] \o ss[k + 1]
        BY <3>1, <4>2
      <4>4. QED
        BY <1>1, <3>1, <4>1, <4>3
    <3>3. PICK of, el : Flattening(of, el, f[k], ss, k)
      BY <2>3
    <3>4. \E of2, el2 : Flattening(of2, el2, f[k] \o ss[k + 1], ss, k + 1)
      BY <2>3, <3>2, <3>3, FlattenStep
    <3>5. f[k] \o ss[k + 1] \in Seq(S)
      BY <2>3, <3>2, ConcatProperties
    <3>6. QED
      BY <3>2, <3>4, <3>5
  <2> HIDE DEF Good
  <2>4. 0 \in T /\ \A k \in Nat : k < Len(ss) /\ k \in T => k + 1 \in T
    BY <2>2, <2>3
  <2>5. Len(ss) \in T
    <3> HIDE DEF T
    <3>1. QED
      BY <1>1, <2>4, UpToInduction
  <2>6. Good(Len(ss))
    BY <1>3, <2>5
  <2>7. QED
    BY <2>1, <2>6 DEF Good
<1>4. QED
  BY <1>2, <1>3

-----------------------------------------------------------------------------
(* Extraction: the candidates of any document. *)

EntityMentions ==
    [temp_id : Ids, name : EntityNames, entity_type : Labels, description : Descriptions,
     attr : Values, conf : 0 .. 100]
RelationMentions ==
    [subject : Ids, predicate : Labels, object : Ids, valid_from : Dates, conf : 0 .. 100]

TempIds(es) == {es[i].temp_id : i \in 1 .. Len(es)}

\* Mentions have temp ids of their own, and relations join mentions there are.
CandidatesOK(es, rs) ==
    /\ es \in Seq(EntityMentions)
    /\ rs \in Seq(RelationMentions)
    /\ \A i, j \in 1 .. Len(es) : es[i].temp_id = es[j].temp_id => i = j
    /\ \A i \in 1 .. Len(rs) : rs[i].subject \in TempIds(es) /\ rs[i].object \in TempIds(es)

\* The unit or the ground truth a sequence of mentions is from.
FromUnit(es, k) == \A i \in 1 .. Len(es) : es[i].temp_id[1] = k

LEMMA MentionPlace ==
    ASSUME NEW unit \in UnitAnswers, NEW name
    PROVE  Mention(unit, name) \in 0 .. Len(unit.entities)
<1> DEFINE I == {i \in 1 .. Len(unit.entities) : unit.entities[i].name = name}
<1>1. Len(unit.entities) \in Nat
  BY DEF UnitAnswers
<1>2. CASE I = {}
  BY <1>1, <1>2 DEF Mention, SelectLastInSeq
<1>3. CASE I # {}
  <2>1. I \in SUBSET (0 .. Len(unit.entities))
    BY <1>1
  <2>2. Max(I) \in I
    <3> HIDE DEF I
    <3>1. QED
      BY <1>1, <1>3, <2>1, MaxOfPlaces
  <2>3. Mention(unit, name) = Max(I)
    BY <1>3 DEF Mention, SelectLastInSeq
  <2>4. QED
    BY <2>1, <2>2, <2>3
<1>4. QED
  BY <1>2, <1>3

LEMMA UnitEntitiesOK ==
    ASSUME NEW unit \in UnitAnswers, NEW k \in Nat
    PROVE  /\ UnitEntities(unit, k) \in Seq(EntityMentions)
           /\ Len(UnitEntities(unit, k)) = Len(unit.entities)
           /\ \A i \in 1 .. Len(unit.entities) : UnitEntities(unit, k)[i].temp_id = <<k, i>>
<1>1. /\ DOMAIN unit.entities = 1 .. Len(unit.entities) /\ Len(unit.entities) \in Nat
      /\ \A i \in 1 .. Len(unit.entities) : unit.entities[i] \in EntityAnswers
  BY DEF UnitAnswers
<1>2. \A i \in 1 .. Len(unit.entities) :
        /\ UnitEntities(unit, k)[i] \in EntityMentions
        /\ UnitEntities(unit, k)[i].temp_id = <<k, i>>
  <2> TAKE i \in 1 .. Len(unit.entities)
  <2>1. PICK e \in EntityAnswers : e = unit.entities[i]
    BY <1>1
  <2>2. UnitEntities(unit, k)[i]
            = Entity(<<k, i>>, e.name, e.entity_type, e.description, e.attr, e.conf)
    BY <1>1, <2>1 DEF UnitEntities
  <2>3. <<k, i>> \in Ids
    BY <1>1 DEF Ids
  <2>4. QED
    BY <2>2, <2>3 DEF Entity, EntityMentions, EntityAnswers
<1>3. UnitEntities(unit, k) \in [1 .. Len(unit.entities) -> EntityMentions]
  BY <1>1, <1>2 DEF UnitEntities
<1>4. QED
  BY <1>1, <1>2, <1>3, FunctionIsSeq

LEMMA UnitRelationsOK ==
    ASSUME NEW unit \in UnitAnswers, NEW k \in Nat
    PROVE  /\ UnitRelations(unit, k) \in Seq(RelationMentions)
           /\ \A i \in 1 .. Len(UnitRelations(unit, k)) :
                \E s, o \in 1 .. Len(unit.entities) :
                    /\ UnitRelations(unit, k)[i].subject = <<k, s>>
                    /\ UnitRelations(unit, k)[i].object = <<k, o>>
<1> DEFINE said == unit.relations
           P == {i \in DOMAIN said : /\ Mention(unit, said[i].subject) # 0
                                     /\ Mention(unit, said[i].object) # 0}
           both == Picked(said, P)
           R == UnitRelations(unit, k)
<1>1. said \in Seq(RelationAnswers) /\ DOMAIN said = 1 .. Len(said) /\ Len(unit.entities) \in Nat
  BY DEF UnitAnswers
<1>2. PICK at : both \in Seq(RelationAnswers) /\ Picking(at, both, said, DOMAIN said \cap P)
  <2> HIDE DEF P, said
  <2>1. QED
    BY <1>1, PickedPlaces
<1>3. R = [i \in DOMAIN both |->
            Relation(<<k, Mention(unit, both[i].subject)>>, both[i].predicate,
                     <<k, Mention(unit, both[i].object)>>, both[i].valid_from, both[i].conf)]
  BY DEF UnitRelations
<1> HIDE DEF R
<1>4. DOMAIN both = 1 .. Len(both) /\ Len(both) \in Nat
  <2> HIDE DEF both
  <2>1. QED
    BY <1>2
<1>5. \A i \in 1 .. Len(both) :
        /\ R[i] \in RelationMentions
        /\ \E s, o \in 1 .. Len(unit.entities) : R[i].subject = <<k, s>> /\ R[i].object = <<k, o>>
  <2> TAKE i \in 1 .. Len(both)
  <2>1. at[i] \in P /\ both[i] = said[at[i]]
    <3> HIDE DEF P, said, both
    <3>1. QED
      BY <1>2 DEF Picking
  <2>2. PICK r \in RelationAnswers : r = both[i]
    <3> HIDE DEF both
    <3>1. QED
      BY <1>2, <1>4
  <2>3. Mention(unit, r.subject) # 0 /\ Mention(unit, r.object) # 0
    BY <2>1, <2>2
  <2> HIDE DEF both, P, said
  <2>4. PICK s \in 1 .. Len(unit.entities), o \in 1 .. Len(unit.entities) :
            s = Mention(unit, r.subject) /\ o = Mention(unit, r.object)
    BY <1>1, <2>3, MentionPlace
  <2>5. R[i] = Relation(<<k, s>>, r.predicate, <<k, o>>, r.valid_from, r.conf)
    BY <1>3, <1>4, <2>2, <2>4
  <2>6. <<k, s>> \in Ids /\ <<k, o>> \in Ids
    BY <1>1 DEF Ids
  <2>7. R[i] \in RelationMentions
    BY <2>5, <2>6 DEF Relation, RelationMentions, RelationAnswers
  <2>8. R[i].subject = <<k, s>> /\ R[i].object = <<k, o>>
    BY <2>5 DEF Relation
  <2>9. QED
    BY <2>7, <2>8
<1> HIDE DEF both
<1>6. R \in [1 .. Len(both) -> RelationMentions]
  BY <1>3, <1>4, <1>5
<1>7. R \in Seq(RelationMentions) /\ Len(R) = Len(both)
  BY <1>4, <1>6, FunctionIsSeq
<1>8. QED
  BY <1>5, <1>7 DEF R

\* A mention without a name goes, and with it the relations it is an end of.
LEMMA DropUnnamedOK ==
    ASSUME NEW es, NEW rs, NEW k, CandidatesOK(es, rs), FromUnit(es, k)
    PROVE  LET kept == DropUnnamed(es, rs)
           IN  CandidatesOK(kept.entities, kept.relations) /\ FromUnit(kept.entities, k)
<1> DEFINE dropped == {e.temp_id : e \in {x \in ToSet(es) : x.name \in Unnamed}}
           P == {i \in DOMAIN es : es[i].temp_id \notin dropped}
           Q == {i \in DOMAIN rs : {rs[i].subject, rs[i].object} \cap dropped = {}}
           E == Picked(es, P)
           R == Picked(rs, Q)
<1>1. DropUnnamed(es, rs).entities = E /\ DropUnnamed(es, rs).relations = R
  BY DEF DropUnnamed
<1>2. /\ es \in Seq(EntityMentions) /\ DOMAIN es = 1 .. Len(es) /\ Len(es) \in Nat
      /\ rs \in Seq(RelationMentions) /\ DOMAIN rs = 1 .. Len(rs) /\ Len(rs) \in Nat
  BY DEF CandidatesOK
<1>3. /\ P \subseteq 1 .. Len(es) /\ DOMAIN es \cap P = P
      /\ Q \subseteq 1 .. Len(rs) /\ DOMAIN rs \cap Q = Q
  BY <1>2
<1>4. \A i \in Q : rs[i].subject \notin dropped /\ rs[i].object \notin dropped
  OBVIOUS
<1>5. \A i \in 1 .. Len(es) : es[i].temp_id \notin dropped => i \in P
  BY <1>2
<1> HIDE DEF P, Q, dropped
<1>6. PICK at : E \in Seq(EntityMentions) /\ Picking(at, E, es, P)
  BY <1>2, <1>3, PickedPlaces
<1>7. PICK to : R \in Seq(RelationMentions) /\ Picking(to, R, rs, Q)
  BY <1>2, <1>3, PickedPlaces
<1> HIDE DEF E, R
<1>8. \A n \in 1 .. Len(E) : at[n] \in 1 .. Len(es) /\ E[n] = es[at[n]]
  BY <1>3, <1>6 DEF Picking
<1>9. ASSUME NEW m \in 1 .. Len(E), NEW n \in 1 .. Len(E), E[m].temp_id = E[n].temp_id
      PROVE  m = n
  <2>1. at[m] = at[n] /\ at[m] \in Nat /\ at[n] \in Nat
    <3>1. /\ at[m] \in 1 .. Len(es) /\ at[n] \in 1 .. Len(es)
          /\ es[at[m]].temp_id = es[at[n]].temp_id
      BY <1>8, <1>9
    <3>2. at[m] = at[n]
      BY <3>1 DEF CandidatesOK
    <3>3. QED
      BY <3>1, <3>2
  <2>2. ~(m < n) /\ ~(n < m)
    BY <1>6, <2>1 DEF Picking
  <2>3. Len(E) \in Nat
    BY <1>6
  <2>4. QED
    BY <2>2, <2>3
<1>10. \A t \in TempIds(es) : t \notin dropped => t \in TempIds(E)
  <2> SUFFICES ASSUME NEW t \in TempIds(es), t \notin dropped PROVE t \in TempIds(E)
    OBVIOUS
  <2>1. PICK i \in 1 .. Len(es) : es[i].temp_id = t
    BY DEF TempIds
  <2>2. i \in P
    BY <1>5, <2>1
  <2>3. PICK n \in 1 .. Len(E) : at[n] = i
    BY <1>6, <2>2 DEF Picking
  <2>4. E[n].temp_id = t
    BY <1>8, <2>1, <2>3
  <2>5. QED
    BY <2>4 DEF TempIds
<1>11. ASSUME NEW n \in 1 .. Len(R) PROVE R[n].subject \in TempIds(E) /\ R[n].object \in TempIds(E)
  <2>1. to[n] \in Q /\ R[n] = rs[to[n]]
    BY <1>7 DEF Picking
  <2>2. rs[to[n]].subject \in TempIds(es) /\ rs[to[n]].object \in TempIds(es)
    BY <1>3, <2>1 DEF CandidatesOK
  <2>3. QED
    BY <1>4, <1>10, <2>1, <2>2
<1>12. FromUnit(E, k)
  BY <1>8 DEF FromUnit
<1>13. CandidatesOK(E, R)
  BY <1>6, <1>7, <1>9, <1>11 DEF CandidatesOK
<1>14. QED
  BY <1>1, <1>12, <1>13

LEMMA ExtractUnitOK ==
    ASSUME NEW unit \in UnitAnswers, NEW k \in Nat
    PROVE  LET found == ExtractUnit(unit, k)
           IN  CandidatesOK(found.entities, found.relations) /\ FromUnit(found.entities, k)
<1> DEFINE es == UnitEntities(unit, k)
           rs == UnitRelations(unit, k)
<1>1. /\ es \in Seq(EntityMentions) /\ Len(es) = Len(unit.entities)
      /\ \A i \in 1 .. Len(unit.entities) : es[i].temp_id = <<k, i>>
  BY UnitEntitiesOK
<1>2. /\ rs \in Seq(RelationMentions)
      /\ \A i \in 1 .. Len(rs) : \E s, o \in 1 .. Len(unit.entities) :
            rs[i].subject = <<k, s>> /\ rs[i].object = <<k, o>>
  BY UnitRelationsOK
<1> HIDE DEF es, rs
<1>3. \A i, j \in 1 .. Len(es) : es[i].temp_id = es[j].temp_id => i = j
  BY <1>1
<1>4. \A i \in 1 .. Len(rs) : rs[i].subject \in TempIds(es) /\ rs[i].object \in TempIds(es)
  BY <1>1, <1>2 DEF TempIds
<1>5. CandidatesOK(es, rs) /\ FromUnit(es, k)
  BY <1>1, <1>2, <1>3, <1>4 DEF CandidatesOK, FromUnit
<1>6. QED
  BY <1>5, DropUnnamedOK DEF ExtractUnit, es, rs

-----------------------------------------------------------------------------
(* Extraction: the ground truth of a flow chart. *)

Suggestions == [name : EntityNames, type : Labels]

LEMMA EnsuredUpTo ==
    ASSUME NEW mentions \in Seq(Suggestions)
    PROVE  /\ Ensured(mentions)[0] = <<>>
           /\ \A k \in 1 .. Len(mentions) :
                Ensured(mentions)[k]
                    = EnsureEntity(Ensured(mentions)[k - 1], mentions[k].name, mentions[k].type)
<1> DEFINE Step(r, i) == EnsureEntity(r, mentions[i].name, mentions[i].type)
           Ok(f, n) == f = [k \in 0 .. n |-> IF k = 0 THEN <<>> ELSE Step(f[k - 1], k)]
           T == {n \in Nat : \E f : Ok(f, n)}
<1>1. 0 \in T
  <2>1. Ok([k \in 0 .. 0 |-> <<>>], 0)
    OBVIOUS
  <2>2. QED
    BY <2>1
<1>2. ASSUME NEW n \in Nat, n \in T PROVE n + 1 \in T
  <2>1. PICK f : Ok(f, n)
    BY <1>2
  <2> DEFINE g == [k \in 0 .. n + 1 |-> IF k <= n THEN f[k] ELSE Step(f[n], n + 1)]
  <2> HIDE DEF Step
  <2>2. Ok(g, n + 1)
    BY <2>1
  <2> HIDE DEF g, Ok
  <2>3. QED
    BY <2>2
<1>3. Len(mentions) \in Nat
  OBVIOUS
<1>4. Ensured(mentions) = CHOOSE f : Ok(f, Len(mentions))
  BY DEF Ensured
<1>5. Ok(Ensured(mentions), Len(mentions))
  <2> HIDE DEF Ok
  <2>1. QED
    BY <1>1, <1>2, <1>3, <1>4, SetInduction
<1>6. /\ Ensured(mentions)[0] = <<>>
      /\ \A k \in 1 .. Len(mentions) : Ensured(mentions)[k] = Step(Ensured(mentions)[k - 1], k)
  <2> HIDE DEF Step
  <2>1. QED
    BY <1>3, <1>5
<1>7. QED
  BY <1>6

\* The entities ensured so far: numbered in their order, each with a name.
EnsuredOK(es) ==
    /\ es \in Seq(EntityMentions)
    /\ \A i \in 1 .. Len(es) : es[i].temp_id = <<0, i>>

Named(es, name) == \E i \in 1 .. Len(es) : es[i].name = name

LEMMA EnsureEntityOK ==
    ASSUME NEW es, EnsuredOK(es), NEW name \in EntityNames, NEW type \in Labels,
           NEW to, to = EnsureEntity(es, name, type)
    PROVE  EnsuredOK(to) /\ Named(to, name) /\ \A other : Named(es, other) => Named(to, other)
<1>1. es \in Seq(EntityMentions) /\ DOMAIN es = 1 .. Len(es) /\ Len(es) \in Nat
  BY DEF EnsuredOK
<1>2. CASE Named(es, name)
  BY <1>1, <1>2 DEF EnsureEntity, Named
<1>3. CASE ~Named(es, name)
  <2> DEFINE e == Entity(<<0, Len(es) + 1>>, name, type, None, None, 100)
  <2>1. to = Append(es, e)
    BY <1>1, <1>3 DEF EnsureEntity, Named
  <2>2. e \in EntityMentions /\ e.temp_id = <<0, Len(es) + 1>> /\ e.name = name
    <3>1. <<0, Len(es) + 1>> \in Ids
      BY <1>1 DEF Ids
    <3>2. QED
      BY <3>1 DEF Entity, EntityMentions, Descriptions, Values
  <2> HIDE DEF e
  <2>3. /\ to \in Seq(EntityMentions) /\ Len(to) = Len(es) + 1 /\ to[Len(es) + 1] = e
        /\ \A i \in 1 .. Len(es) : to[i] = es[i]
    BY <1>1, <2>1, <2>2, AppendProperties
  <2>4. \A i \in 1 .. Len(to) : i \in 1 .. Len(es) \/ i = Len(es) + 1
    BY <1>1, <2>3
  <2>5. EnsuredOK(to)
    BY <2>2, <2>3, <2>4 DEF EnsuredOK
  <2>6. \A i \in 1 .. Len(es) : i \in 1 .. Len(to)
    BY <1>1, <2>3
  <2>7. Len(es) + 1 \in 1 .. Len(to)
    BY <1>1, <2>3
  <2>8. Named(to, name) /\ \A other : Named(es, other) => Named(to, other)
    BY <2>2, <2>3, <2>6, <2>7 DEF Named
  <2>9. QED
    BY <2>5, <2>8
<1>4. QED
  BY <1>2, <1>3

LEMMA EnsuredAll ==
    ASSUME NEW mentions \in Seq(Suggestions)
    PROVE  /\ EnsuredOK(Ensured(mentions)[Len(mentions)])
           /\ \A k \in 1 .. Len(mentions) :
                Named(Ensured(mentions)[Len(mentions)], mentions[k].name)
<1> DEFINE f == Ensured(mentions)
           Good(k) == EnsuredOK(f[k]) /\ \A j \in 1 .. k : Named(f[k], mentions[j].name)
           T == {k \in Nat : Good(k)}
<1>1. f[0] = <<>> /\ Len(mentions) \in Nat
  BY EnsuredUpTo
<1>2. Good(0)
  BY <1>1 DEF EnsuredOK
<1>3. ASSUME NEW k \in Nat, k < Len(mentions), Good(k) PROVE Good(k + 1)
  <2>1. k + 1 \in 1 .. Len(mentions) /\ (k + 1) - 1 = k
    BY <1>1, <1>3
  <2>2. f[k + 1] = EnsureEntity(f[k], mentions[k + 1].name, mentions[k + 1].type)
    BY <2>1, EnsuredUpTo
  <2>3. PICK name \in EntityNames, type \in Labels :
            name = mentions[k + 1].name /\ type = mentions[k + 1].type
    <3>1. mentions[k + 1] \in Suggestions
      BY <2>1
    <3>2. QED
      BY <3>1 DEF Suggestions
  <2> HIDE DEF f
  <2>4. /\ EnsuredOK(f[k + 1]) /\ Named(f[k + 1], mentions[k + 1].name)
        /\ \A other : Named(f[k], other) => Named(f[k + 1], other)
    BY <1>3, <2>2, <2>3, EnsureEntityOK
  <2>5. \A j \in 1 .. k + 1 : j \in 1 .. k \/ j = k + 1
    OBVIOUS
  <2>6. QED
    BY <1>3, <2>4, <2>5
<1>4. Good(Len(mentions))
  <2> HIDE DEF Good
  <2>1. 0 \in T /\ \A k \in Nat : k < Len(mentions) /\ k \in T => k + 1 \in T
    BY <1>2, <1>3
  <2>2. Len(mentions) \in T
    <3> HIDE DEF T
    <3>1. QED
      BY <1>1, <2>1, UpToInduction
  <2>3. QED
    BY <2>2
<1>5. QED
  BY <1>4

\* The object of a type statement is a type, any other object a name.
TypedTriples ==
    {t \in [subject : EntityNames, predicate : Labels, object : EntityNames \cup Labels] :
        /\ t.predicate = "IS_A" => t.object \in Labels
        /\ t.predicate # "IS_A" => t.object \in EntityNames}

LEMMA IsATriple ==
    ASSUME NEW s \in EntityNames, NEW o \in Labels
    PROVE  [subject |-> s, predicate |-> "IS_A", object |-> o] \in TypedTriples
<1> DEFINE t == [subject |-> s, predicate |-> "IS_A", object |-> o]
<1>1. t \in [subject : EntityNames, predicate : Labels, object : EntityNames \cup Labels]
  BY DEF Labels
<1>2. t.predicate = "IS_A" /\ t.object \in Labels
  OBVIOUS
<1> HIDE DEF t
<1>3. t \in TypedTriples
  BY <1>1, <1>2 DEF TypedTriples
<1>4. QED
  BY <1>3 DEF t

LEMMA FlowTriple ==
    ASSUME NEW s \in EntityNames, NEW o \in EntityNames
    PROVE  [subject |-> s, predicate |-> "FLOWS_TO", object |-> o] \in TypedTriples
<1> DEFINE t == [subject |-> s, predicate |-> "FLOWS_TO", object |-> o]
<1>1. t \in [subject : EntityNames, predicate : Labels, object : EntityNames \cup Labels]
  BY DEF Labels
<1>2. t.predicate # "IS_A" /\ t.object \in EntityNames
  OBVIOUS
<1> HIDE DEF t
<1>3. t \in TypedTriples
  BY <1>1, <1>2 DEF TypedTriples
<1>4. QED
  BY <1>3 DEF t

LEMMA ElementNameOK ==
    ASSUME NEW x \in Documents, NEW id \in EntityNames
    PROVE  ElementName(x, id) \in EntityNames
<1> DEFINE I == {i \in 1 .. Len(x.elements) : x.elements[i].id = id}
<1>1. Len(x.elements) \in Nat
  BY DEF Documents
<1>2. CASE I = {}
  BY <1>1, <1>2 DEF ElementName, SelectLastInSeq
<1>3. CASE I # {}
  <2>1. I \in SUBSET (0 .. Len(x.elements))
    BY <1>1
  <2>2. PICK i \in I : i = Max(I)
    <3> HIDE DEF I
    <3>1. QED
      BY <1>1, <1>3, <2>1, MaxOfPlaces
  <2>3. i # 0 /\ x.elements[i].name \in EntityNames \cup {None}
    <3>1. x.elements \in Seq(Elements) /\ i \in 1 .. Len(x.elements)
      BY <2>2 DEF Documents
    <3>2. x.elements[i] \in Elements
      BY <3>1, ElementOfSeq
    <3>3. QED
      BY <1>1, <2>2, <3>2 DEF Elements
  <2>4. ElementName(x, id) = IF i = 0 \/ x.elements[i].name = None THEN id
                             ELSE x.elements[i].name
    BY <1>3, <2>2 DEF ElementName, SelectLastInSeq
  <2>5. QED
    BY <2>3, <2>4
<1>4. QED
  BY <1>2, <1>3

LEMMA TriplesOK ==
    ASSUME NEW x \in Documents
    PROVE  Triples(x) \in Seq(TypedTriples)
<1> DEFINE P == {i \in DOMAIN x.flows : x.flows[i].source # None /\ x.flows[i].target # None}
           flows == Picked(x.flows, P)
           types == [i \in DOMAIN x.elements |->
                        [subject |-> ElementName(x, x.elements[i].id), predicate |-> "IS_A",
                         object |-> x.elements[i].tag]]
           steps == [i \in DOMAIN flows |->
                        [subject |-> ElementName(x, flows[i].source), predicate |-> "FLOWS_TO",
                         object |-> ElementName(x, flows[i].target)]]
<1>1. Triples(x) = types \o steps
  BY DEF Triples
<1>2. x.elements \in Seq(Elements) /\ x.flows \in Seq(Flows)
  BY DEF Documents
<1>3. types \in Seq(TypedTriples)
  <2>1. DOMAIN x.elements = 1 .. Len(x.elements) /\ Len(x.elements) \in Nat
    BY <1>2
  <2>2. \A i \in 1 .. Len(x.elements) : types[i] \in TypedTriples
    <3> TAKE i \in 1 .. Len(x.elements)
    <3>1. PICK e \in Elements : e = x.elements[i]
      BY <1>2, ElementOfSeq
    <3>2. ElementName(x, e.id) \in EntityNames /\ e.tag \in Labels
      BY ElementNameOK DEF Elements
    <3>3. types[i] = [subject |-> ElementName(x, e.id), predicate |-> "IS_A", object |-> e.tag]
      BY <2>1, <3>1
    <3> HIDE DEF types
    <3>4. QED
      BY <3>2, <3>3, IsATriple
  <2>3. types \in [1 .. Len(x.elements) -> TypedTriples]
    BY <2>1, <2>2
  <2>4. QED
    BY <2>1, <2>3, FunctionIsSeq
<1>4. steps \in Seq(TypedTriples)
  <2>1. PICK at : flows \in Seq(Flows) /\ Picking(at, flows, x.flows, DOMAIN x.flows \cap P)
    <3> HIDE DEF P
    <3>1. QED
      BY <1>2, PickedPlaces
  <2>2. DOMAIN x.flows \cap P = P
    OBVIOUS
  <2> HIDE DEF flows
  <2>3. DOMAIN flows = 1 .. Len(flows) /\ Len(flows) \in Nat
    BY <2>1
  <2>4. \A i \in 1 .. Len(flows) : steps[i] \in TypedTriples
    <3> TAKE i \in 1 .. Len(flows)
    <3>1. flows[i] \in Flows /\ flows[i].source # None /\ flows[i].target # None
      <4>1. at[i] \in P /\ flows[i] = x.flows[at[i]]
        <5> HIDE DEF P
        <5>1. QED
          BY <2>1, <2>2 DEF Picking
      <4>2. flows[i] \in Flows
        BY <2>1, ElementOfSeq
      <4>3. QED
        BY <4>1, <4>2
    <3>2. flows[i].source \in EntityNames /\ flows[i].target \in EntityNames
      BY <3>1 DEF Flows
    <3>3. ElementName(x, flows[i].source) \in EntityNames /\ ElementName(x, flows[i].target) \in EntityNames
      BY <3>2, ElementNameOK
    <3>4. steps[i] = [subject |-> ElementName(x, flows[i].source), predicate |-> "FLOWS_TO",
                      object |-> ElementName(x, flows[i].target)]
      BY <2>3
    <3> HIDE DEF steps
    <3>5. QED
      BY <3>3, <3>4, FlowTriple
  <2>5. steps \in [1 .. Len(flows) -> TypedTriples]
    BY <2>3, <2>4
  <2>6. QED
    BY <2>3, <2>5, FunctionIsSeq
<1> HIDE DEF types, steps
<1>5. QED
  BY <1>1, <1>3, <1>4, ConcatProperties

\* The elements of s at the places P are elements of s that P picks.
LEMMA PickedFrom ==
    ASSUME NEW S, NEW s \in Seq(S), NEW P
    PROVE  /\ Picked(s, P) \in Seq(S)
           /\ \A n \in 1 .. Len(Picked(s, P)) : \E i \in DOMAIN s \cap P : Picked(s, P)[n] = s[i]
<1>1. PICK at : Picked(s, P) \in Seq(S) /\ Picking(at, Picked(s, P), s, DOMAIN s \cap P)
  BY PickedPlaces
<1>2. QED
  BY <1>1 DEF Picking

LEMMA GroundTruthOK ==
    ASSUME NEW triples \in Seq(TypedTriples)
    PROVE  LET truth == GroundTruth(triples)
           IN  CandidatesOK(truth.entities, truth.relations) /\ FromUnit(truth.entities, 0)
<1> DEFINE P == {i \in DOMAIN triples : triples[i].predicate = "IS_A"}
           Q == {i \in DOMAIN triples : triples[i].predicate # "IS_A"}
           isA == Picked(triples, P)
           structural == Picked(triples, Q)
           typed == [i \in DOMAIN isA |-> Suggests(isA[i].subject, isA[i].object)]
           pairs == [i \in DOMAIN structural |-> <<Suggests(structural[i].subject, "Concept"),
                                                   Suggests(structural[i].object, "Concept")>>]
           mentions == typed \o FlattenSeq(pairs)
           all == Ensured(mentions)[Len(mentions)]
           first(name) == SelectInSeq(all, LAMBDA e : e.name = name)
           rels == [i \in DOMAIN structural |->
                        Relation(all[first(structural[i].subject)].temp_id, structural[i].predicate,
                                 all[first(structural[i].object)].temp_id, None, 100)]
<1>1. GroundTruth(triples).entities = all /\ GroundTruth(triples).relations = rels
  BY DEF GroundTruth
<1>2. typed \in Seq(Suggestions)
  <2>1. /\ isA \in Seq(TypedTriples)
        /\ \A n \in 1 .. Len(isA) : \E i \in DOMAIN triples \cap P : isA[n] = triples[i]
    <3> HIDE DEF P
    <3>1. QED
      BY PickedFrom
  <2>2. \A n \in 1 .. Len(isA) : isA[n] \in TypedTriples /\ isA[n].predicate = "IS_A"
    BY <2>1
  <2> HIDE DEF isA
  <2>3. DOMAIN isA = 1 .. Len(isA) /\ Len(isA) \in Nat
    BY <2>1
  <2>4. \A n \in 1 .. Len(isA) : typed[n] \in Suggestions
    BY <2>2, <2>3 DEF Suggests, Suggestions, TypedTriples
  <2>5. typed \in [1 .. Len(isA) -> Suggestions]
    BY <2>3, <2>4
  <2>6. QED
    BY <2>3, <2>5, FunctionIsSeq
<1>3. /\ DOMAIN structural = 1 .. Len(structural) /\ Len(structural) \in Nat
      /\ \A n \in 1 .. Len(structural) : /\ structural[n].subject \in EntityNames
                                         /\ structural[n].object \in EntityNames
                                         /\ structural[n].predicate \in Labels
  <2>1. /\ structural \in Seq(TypedTriples)
        /\ \A n \in 1 .. Len(structural) : \E i \in DOMAIN triples \cap Q : structural[n] = triples[i]
    <3> HIDE DEF Q
    <3>1. QED
      BY PickedFrom
  <2>2. \A n \in 1 .. Len(structural) :
            structural[n] \in TypedTriples /\ structural[n].predicate # "IS_A"
    BY <2>1
  <2> HIDE DEF structural
  <2>3. QED
    BY <2>1, <2>2 DEF TypedTriples
<1> HIDE DEF isA, structural, P, Q, typed
<1>4. /\ pairs \in Seq(Seq(Suggestions)) /\ Len(pairs) = Len(structural)
      /\ \A n \in 1 .. Len(structural) : /\ Len(pairs[n]) = 2
                                         /\ pairs[n][1].name = structural[n].subject
                                         /\ pairs[n][2].name = structural[n].object
  <2>1. \A n \in 1 .. Len(structural) : /\ pairs[n] \in Seq(Suggestions) /\ Len(pairs[n]) = 2
                                        /\ pairs[n][1].name = structural[n].subject
                                        /\ pairs[n][2].name = structural[n].object
    <3> TAKE n \in 1 .. Len(structural)
    <3> DEFINE a == Suggests(structural[n].subject, "Concept")
               b == Suggests(structural[n].object, "Concept")
    <3>1. /\ a \in Suggestions /\ a.name = structural[n].subject
          /\ b \in Suggestions /\ b.name = structural[n].object
      <4>1. \A name \in EntityNames : /\ Suggests(name, "Concept") \in Suggestions
                                      /\ Suggests(name, "Concept").name = name
        BY DEF Suggests, Suggestions, Labels
      <4>2. QED
        BY <1>3, <4>1
    <3>2. pairs[n] = <<a, b>>
      BY <1>3
    <3> HIDE DEF a, b, pairs
    <3>3. QED
      BY <3>1, <3>2
  <2>2. pairs \in [1 .. Len(structural) -> Seq(Suggestions)]
    BY <1>3, <2>1
  <2> HIDE DEF pairs
  <2>3. QED
    BY <1>3, <2>1, <2>2, FunctionIsSeq
<1> HIDE DEF pairs
<1>5. PICK of, el : /\ FlattenSeq(pairs) \in Seq(Suggestions)
                    /\ Flattening(of, el, FlattenSeq(pairs), pairs, Len(pairs))
  BY <1>4, FlattenPlaces
<1>6. \A n \in 1 .. Len(structural) : \A j \in 1 .. 2 :
        \E m \in 1 .. Len(FlattenSeq(pairs)) : FlattenSeq(pairs)[m] = pairs[n][j]
  <2> TAKE n \in 1 .. Len(structural), j \in 1 .. 2
  <2>1. n \in 1 .. Len(pairs) /\ j \in 1 .. Len(pairs[n])
    BY <1>4
  <2>2. PICK m \in 1 .. Len(FlattenSeq(pairs)) : of[m] = n /\ el[m] = j
    BY <1>5, <2>1 DEF Flattening
  <2>3. QED
    BY <1>5, <2>2 DEF Flattening
<1>7. /\ mentions \in Seq(Suggestions)
      /\ \A m \in 1 .. Len(FlattenSeq(pairs)) :
            \E k \in 1 .. Len(mentions) : mentions[k] = FlattenSeq(pairs)[m]
  <2>1. /\ mentions \in Seq(Suggestions) /\ Len(mentions) = Len(typed) + Len(FlattenSeq(pairs))
        /\ \A i \in 1 .. Len(typed) + Len(FlattenSeq(pairs)) :
            mentions[i] = IF i <= Len(typed) THEN typed[i] ELSE FlattenSeq(pairs)[i - Len(typed)]
    BY <1>2, <1>5, ConcatProperties
  <2>2. Len(typed) \in Nat /\ Len(FlattenSeq(pairs)) \in Nat
    BY <1>2, <1>5
  <2> HIDE DEF mentions
  <2>3. \A m \in 1 .. Len(FlattenSeq(pairs)) :
            /\ m + Len(typed) \in 1 .. Len(mentions)
            /\ mentions[m + Len(typed)] = FlattenSeq(pairs)[m]
    <3> TAKE m \in 1 .. Len(FlattenSeq(pairs))
    <3>1. /\ m + Len(typed) \in 1 .. Len(typed) + Len(FlattenSeq(pairs))
          /\ ~(m + Len(typed) <= Len(typed)) /\ (m + Len(typed)) - Len(typed) = m
      BY <2>2
    <3>2. QED
      BY <2>1, <3>1
  <2>4. QED
    BY <2>1, <2>3
<1> HIDE DEF mentions
<1>8. EnsuredOK(all) /\ \A k \in 1 .. Len(mentions) : Named(all, mentions[k].name)
  BY <1>7, EnsuredAll
<1> HIDE DEF all
<1>9. \A n \in 1 .. Len(structural) : /\ Named(all, structural[n].subject)
                                      /\ Named(all, structural[n].object)
  <2> TAKE n \in 1 .. Len(structural)
  <2>1. 1 \in 1 .. 2 /\ 2 \in 1 .. 2
    OBVIOUS
  <2>2. PICK a \in 1 .. Len(mentions), b \in 1 .. Len(mentions) :
            mentions[a] = pairs[n][1] /\ mentions[b] = pairs[n][2]
    BY <1>6, <1>7, <2>1
  <2>3. QED
    BY <1>4, <1>8, <2>2
<1>10. /\ all \in Seq(EntityMentions) /\ Len(all) \in Nat
       /\ \A i \in 1 .. Len(all) : all[i].temp_id = <<0, i>>
  BY <1>8 DEF EnsuredOK
<1>11. ASSUME NEW name, Named(all, name)
       PROVE  all[first(name)].temp_id \in TempIds(all) /\ all[first(name)].temp_id \in Ids
  <2> DEFINE I == {i \in 1 .. Len(all) : all[i].name = name}
  <2>1. I # {} /\ I \in SUBSET Nat
    BY <1>11 DEF Named
  <2>2. first(name) = Min(I)
    BY <2>1 DEF SelectInSeq
  <2>3. Min(I) \in 1 .. Len(all)
    <3>1. Min(I) \in I
      <4> HIDE DEF I
      <4>1. QED
        BY <2>1, MinOfPlaces
    <3>2. QED
      BY <3>1
  <2>4. all[Min(I)] \in EntityMentions
    BY <1>10, <2>3
  <2>5. QED
    BY <2>2, <2>3, <2>4 DEF TempIds, EntityMentions
<1> HIDE DEF first
<1>12. \A n \in 1 .. Len(structural) :
            /\ rels[n] \in RelationMentions
            /\ rels[n].subject \in TempIds(all) /\ rels[n].object \in TempIds(all)
  <2> TAKE n \in 1 .. Len(structural)
  <2>1. rels[n] = Relation(all[first(structural[n].subject)].temp_id, structural[n].predicate,
                           all[first(structural[n].object)].temp_id, None, 100)
    BY <1>3
  <2> HIDE DEF rels
  <2>2. QED
    BY <1>3, <1>9, <1>11, <2>1 DEF Relation, RelationMentions, Dates
<1>13. rels \in Seq(RelationMentions) /\ Len(rels) = Len(structural)
  <2>1. rels \in [1 .. Len(structural) -> RelationMentions]
    BY <1>3, <1>12
  <2> HIDE DEF rels
  <2>2. QED
    BY <1>3, <2>1, FunctionIsSeq
<1> HIDE DEF rels
<1>14. CandidatesOK(all, rels) /\ FromUnit(all, 0)
  <2>1. \A i, j \in 1 .. Len(all) : all[i].temp_id = all[j].temp_id => i = j
    BY <1>10
  <2>2. QED
    BY <2>1, <1>10, <1>12, <1>13 DEF CandidatesOK, FromUnit
<1>15. QED
  BY <1>1, <1>14 DEF rels

\* Two sets of candidates whose temp ids differ, one after the other.
LEMMA ConcatOK ==
    ASSUME NEW a, NEW ra, CandidatesOK(a, ra), NEW b, NEW rb, CandidatesOK(b, rb),
           TempIds(a) \cap TempIds(b) = {}
    PROVE  CandidatesOK(a \o b, ra \o rb)
<1> DEFINE es == a \o b
           rs == ra \o rb
<1>1. /\ a \in Seq(EntityMentions) /\ b \in Seq(EntityMentions)
      /\ ra \in Seq(RelationMentions) /\ rb \in Seq(RelationMentions)
      /\ Len(a) \in Nat /\ Len(b) \in Nat /\ Len(ra) \in Nat /\ Len(rb) \in Nat
  BY DEF CandidatesOK
<1>2. /\ es \in Seq(EntityMentions) /\ Len(es) = Len(a) + Len(b)
      /\ \A i \in 1 .. Len(a) + Len(b) : es[i] = IF i <= Len(a) THEN a[i] ELSE b[i - Len(a)]
  BY <1>1, ConcatProperties
<1>3. /\ rs \in Seq(RelationMentions) /\ Len(rs) = Len(ra) + Len(rb)
      /\ \A i \in 1 .. Len(ra) + Len(rb) : rs[i] = IF i <= Len(ra) THEN ra[i] ELSE rb[i - Len(ra)]
  BY <1>1, ConcatProperties
<1> HIDE DEF es, rs
<1>4. \A i \in 1 .. Len(es) : \/ i \in 1 .. Len(a) /\ es[i] = a[i]
                              \/ i - Len(a) \in 1 .. Len(b) /\ es[i] = b[i - Len(a)]
  <2> TAKE i \in 1 .. Len(es)
  <2>1. i \in 1 .. Len(a) + Len(b)
    BY <1>2
  <2>2. CASE i <= Len(a)
    BY <1>1, <1>2, <2>1, <2>2
  <2>3. CASE ~(i <= Len(a))
    <3>1. i - Len(a) \in 1 .. Len(b)
      BY <1>1, <2>1, <2>3
    <3>2. QED
      BY <1>2, <2>1, <2>3, <3>1
  <2>4. QED
    BY <2>2, <2>3
<1>5. \A i \in 1 .. Len(rs) : \/ i \in 1 .. Len(ra) /\ rs[i] = ra[i]
                              \/ i - Len(ra) \in 1 .. Len(rb) /\ rs[i] = rb[i - Len(ra)]
  BY <1>1, <1>3
<1>6. TempIds(a) \subseteq TempIds(es)
  <2>1. \A i \in 1 .. Len(a) : i \in 1 .. Len(es) /\ es[i] = a[i]
    BY <1>1, <1>2
  <2>2. QED
    BY <2>1 DEF TempIds
<1>7. TempIds(b) \subseteq TempIds(es)
  <2>1. \A i \in 1 .. Len(b) : i + Len(a) \in 1 .. Len(es) /\ es[i + Len(a)] = b[i]
    <3> TAKE i \in 1 .. Len(b)
    <3>1. /\ i + Len(a) \in 1 .. Len(a) + Len(b) /\ ~(i + Len(a) <= Len(a))
          /\ (i + Len(a)) - Len(a) = i
      BY <1>1
    <3>2. QED
      BY <1>2, <3>1
  <2>2. QED
    BY <2>1 DEF TempIds
<1>8. ASSUME NEW i \in 1 .. Len(es), NEW j \in 1 .. Len(es), es[i].temp_id = es[j].temp_id
      PROVE  i = j
  <2>1. /\ \A k \in 1 .. Len(a) : a[k].temp_id \in TempIds(a)
        /\ \A k \in 1 .. Len(b) : b[k].temp_id \in TempIds(b)
    BY DEF TempIds
  <2>2. CASE i \in 1 .. Len(a) /\ es[i] = a[i] /\ j \in 1 .. Len(a) /\ es[j] = a[j]
    BY <1>8, <2>2 DEF CandidatesOK
  <2>3. CASE /\ i - Len(a) \in 1 .. Len(b) /\ es[i] = b[i - Len(a)]
             /\ j - Len(a) \in 1 .. Len(b) /\ es[j] = b[j - Len(a)]
    <3>1. i - Len(a) = j - Len(a)
      BY <1>8, <2>3 DEF CandidatesOK
    <3>2. QED
      BY <1>1, <1>2, <3>1
  <2>4. QED
    BY <1>4, <1>8, <2>1, <2>2, <2>3
<1>9. \A i \in 1 .. Len(rs) : rs[i].subject \in TempIds(es) /\ rs[i].object \in TempIds(es)
  BY <1>5, <1>6, <1>7 DEF CandidatesOK
<1>10. CandidatesOK(es, rs)
  BY <1>2, <1>3, <1>8, <1>9 DEF CandidatesOK
<1>11. QED
  BY <1>10 DEF es, rs

\* The candidates of all units.
LEMMA UnitsOK ==
    ASSUME NEW E, NEW R, NEW n \in Nat, Len(E) = n, Len(R) = n,
           E \in Seq(Seq(EntityMentions)), R \in Seq(Seq(RelationMentions)),
           \A k \in 1 .. n : CandidatesOK(E[k], R[k]) /\ FromUnit(E[k], k)
    PROVE  /\ CandidatesOK(FlattenSeq(E), FlattenSeq(R))
           /\ \A t \in TempIds(FlattenSeq(E)) : t[1] # 0
<1> DEFINE es == FlattenSeq(E)
           rs == FlattenSeq(R)
<1>1. PICK of, el : es \in Seq(EntityMentions) /\ Flattening(of, el, es, E, n)
  BY FlattenPlaces
<1>2. PICK ofR, elR : rs \in Seq(RelationMentions) /\ Flattening(ofR, elR, rs, R, n)
  BY FlattenPlaces
<1> HIDE DEF es, rs
<1>3. \A i \in 1 .. Len(es) : /\ of[i] \in 1 .. n /\ el[i] \in 1 .. Len(E[of[i]])
                              /\ es[i] = E[of[i]][el[i]]
                              /\ es[i].temp_id[1] = of[i]
  <2> TAKE i \in 1 .. Len(es)
  <2>1. of[i] \in 1 .. n /\ el[i] \in 1 .. Len(E[of[i]]) /\ es[i] = E[of[i]][el[i]]
    BY <1>1 DEF Flattening
  <2>2. FromUnit(E[of[i]], of[i])
    BY <2>1
  <2>3. E[of[i]][el[i]].temp_id[1] = of[i]
    BY <2>1, <2>2 DEF FromUnit
  <2>4. QED
    BY <2>1, <2>3
<1>4. ASSUME NEW i \in 1 .. Len(es), NEW j \in 1 .. Len(es), es[i].temp_id = es[j].temp_id
      PROVE  i = j
  <2>1. of[i] = of[j]
    BY <1>3, <1>4
  <2>2. el[i] = el[j]
    <3>1. CandidatesOK(E[of[i]], R[of[i]])
      BY <1>3
    <3>2. /\ el[i] \in 1 .. Len(E[of[i]]) /\ el[j] \in 1 .. Len(E[of[i]])
          /\ E[of[i]][el[i]].temp_id = E[of[i]][el[j]].temp_id
      BY <1>3, <1>4, <2>1
    <3>3. QED
      BY <3>1, <3>2 DEF CandidatesOK
  <2>3. QED
    BY <1>1, <2>1, <2>2 DEF Flattening
<1>5. ASSUME NEW k \in 1 .. n PROVE TempIds(E[k]) \subseteq TempIds(es)
  <2>1. ASSUME NEW j \in 1 .. Len(E[k])
        PROVE  \E i \in 1 .. Len(es) : es[i] = E[k][j]
    <3>1. PICK i \in 1 .. Len(es) : of[i] = k /\ el[i] = j
      BY <1>1 DEF Flattening
    <3>2. es[i] = E[k][j]
      BY <1>3, <3>1
    <3>3. QED
      BY <3>2
  <2>2. ASSUME NEW t \in TempIds(E[k]) PROVE t \in TempIds(es)
    <3>1. PICK j \in 1 .. Len(E[k]) : t = E[k][j].temp_id
      BY DEF TempIds
    <3>2. PICK i \in 1 .. Len(es) : es[i] = E[k][j]
      BY <2>1
    <3>3. t = es[i].temp_id
      BY <3>1, <3>2
    <3>4. QED
      BY <3>3 DEF TempIds
  <2>3. QED
    BY <2>2
<1>6. ASSUME NEW i \in 1 .. Len(rs)
      PROVE  rs[i].subject \in TempIds(es) /\ rs[i].object \in TempIds(es)
  <2>1. ofR[i] \in 1 .. n /\ elR[i] \in 1 .. Len(R[ofR[i]]) /\ rs[i] = R[ofR[i]][elR[i]]
    BY <1>2 DEF Flattening
  <2>2. PICK k, j : k \in 1 .. n /\ k = ofR[i] /\ j = elR[i]
    BY <2>1
  <2>3. j \in 1 .. Len(R[k]) /\ rs[i] = R[k][j]
    BY <2>1, <2>2
  <2>4. PICK ek, rk : ek = E[k] /\ rk = R[k]
    OBVIOUS
  <2>5. CandidatesOK(ek, rk)
    BY <2>2, <2>4
  <2>6. rk[j].subject \in TempIds(ek) /\ rk[j].object \in TempIds(ek)
    BY <2>3, <2>4, <2>5 DEF CandidatesOK
  <2>7. TempIds(ek) \subseteq TempIds(es)
    BY <1>5, <2>2, <2>4
  <2>8. rs[i] = rk[j]
    BY <2>3, <2>4
  <2>9. QED
    BY <2>6, <2>7, <2>8
<1>7. \A t \in TempIds(es) : t[1] # 0
  BY <1>3 DEF TempIds
<1>8. CandidatesOK(es, rs)
  BY <1>1, <1>2, <1>4, <1>6 DEF CandidatesOK
<1>9. QED
  BY <1>7, <1>8 DEF es, rs

\* Whatever the document says and the model finds in it, the candidates of a document
\* are mentions with temp ids of their own and relations between them.
LEMMA ExtractOK ==
    ASSUME NEW d \in DOMAIN Content
    PROVE  CandidatesOK(Extract(d).entities, Extract(d).relations)
<1> DEFINE units == Units(d)
           found == [k \in DOMAIN units |-> ExtractUnit(units[k].unit, k)]
           E == [k \in DOMAIN found |-> found[k].entities]
           R == [k \in DOMAIN found |-> found[k].relations]
           truth == GroundTruth(Triples(Content[d]))
<1>1. Content[d] \in Documents
  BY ContentAssumption
<1>2. units \in Seq(Blocks)
  <2>1. Content[d].blocks \in Seq(Blocks)
    BY <1>1 DEF Documents
  <2>2. QED
    BY <2>1, PickedFrom DEF Units
<1> HIDE DEF units
<1>3. DOMAIN units = 1 .. Len(units) /\ Len(units) \in Nat
  BY <1>2
<1>4. \A k \in 1 .. Len(units) : CandidatesOK(E[k], R[k]) /\ FromUnit(E[k], k)
  <2> TAKE k \in 1 .. Len(units)
  <2>1. PICK unit \in UnitAnswers : unit = units[k].unit
    <3>1. units[k] \in Blocks
      BY <1>2, ElementOfSeq
    <3>2. QED
      BY <3>1 DEF Blocks
  <2>2. /\ CandidatesOK(ExtractUnit(unit, k).entities, ExtractUnit(unit, k).relations)
        /\ FromUnit(ExtractUnit(unit, k).entities, k)
    <3>1. k \in Nat
      BY <1>3
    <3>2. QED
      BY <3>1, ExtractUnitOK
  <2>3. E[k] = ExtractUnit(unit, k).entities /\ R[k] = ExtractUnit(unit, k).relations
    BY <1>3, <2>1
  <2>4. QED
    BY <2>2, <2>3
<1>5. /\ E \in Seq(Seq(EntityMentions)) /\ Len(E) = Len(units)
      /\ R \in Seq(Seq(RelationMentions)) /\ Len(R) = Len(units)
  <2>1. DOMAIN E = 1 .. Len(units) /\ DOMAIN R = 1 .. Len(units)
        /\ E = [k \in 1 .. Len(units) |-> E[k]] /\ R = [k \in 1 .. Len(units) |-> R[k]]
    BY <1>3
  <2> HIDE DEF E, R
  <2>2. /\ E \in [1 .. Len(units) -> Seq(EntityMentions)]
        /\ R \in [1 .. Len(units) -> Seq(RelationMentions)]
    BY <1>4, <2>1 DEF CandidatesOK
  <2>3. QED
    BY <1>3, <2>2, FunctionIsSeq
<1>6. /\ Extract(d).entities = truth.entities \o FlattenSeq(E)
      /\ Extract(d).relations = truth.relations \o FlattenSeq(R)
  BY DEF Extract, units
<1>7. CandidatesOK(truth.entities, truth.relations) /\ FromUnit(truth.entities, 0)
  <2>1. Triples(Content[d]) \in Seq(TypedTriples)
    BY <1>1, TriplesOK
  <2>2. QED
    BY <2>1, GroundTruthOK
<1> HIDE DEF E, R, truth
<1>8. /\ CandidatesOK(FlattenSeq(E), FlattenSeq(R))
      /\ \A t \in TempIds(FlattenSeq(E)) : t[1] # 0
  BY <1>3, <1>4, <1>5, UnitsOK
<1>9. TempIds(truth.entities) \cap TempIds(FlattenSeq(E)) = {}
  BY <1>7, <1>8 DEF TempIds, FromUnit
<1>10. QED
  BY <1>6, <1>7, <1>8, <1>9, ConcatOK

-----------------------------------------------------------------------------
(* Resolution: mentions of one name become one survivor, relations join survivors. *)

SurvivorRecords ==
    [temp_id : Ids, name : EntityNames, entity_type : Labels, description : Descriptions,
     attr : Values, extraction : 0 .. 100, support : Nat \ {0}]

LEMMA FirstDescription ==
    ASSUME NEW ms \in Seq(EntityMentions)
    PROVE  /\ FirstGiven([i \in DOMAIN ms |-> ms[i].description]) \in Descriptions
           /\ FirstGiven([i \in DOMAIN ms |-> ms[i].attr]) \in Values
<1>1. DOMAIN ms = 1 .. Len(ms) /\ Len(ms) \in Nat
  OBVIOUS
<1>2. \A i \in 1 .. Len(ms) : ms[i].description \in Descriptions /\ ms[i].attr \in Values
  <2> TAKE i \in 1 .. Len(ms)
  <2>1. ms[i] \in EntityMentions
    BY ElementOfSeq
  <2>2. QED
    BY <2>1 DEF EntityMentions
<1>3. /\ [i \in DOMAIN ms |-> ms[i].description] \in [1 .. Len(ms) -> Descriptions]
      /\ [i \in DOMAIN ms |-> ms[i].attr] \in [1 .. Len(ms) -> Values]
  BY <1>1, <1>2
<1>4. /\ [i \in DOMAIN ms |-> ms[i].description] \in Seq(Descriptions)
      /\ [i \in DOMAIN ms |-> ms[i].attr] \in Seq(Values)
  BY <1>1, <1>3, FunctionIsSeq
<1>5. /\ FirstGiven([i \in DOMAIN ms |-> ms[i].description]) \in Descriptions \cup {None}
      /\ FirstGiven([i \in DOMAIN ms |-> ms[i].attr]) \in Values \cup {None}
  BY <1>4, FirstGivenFrom
<1>6. QED
  BY <1>5 DEF Descriptions, Values

LEMMA MergeMentionsOK ==
    ASSUME NEW ms \in Seq(EntityMentions), Len(ms) \in Nat \ {0}
    PROVE  /\ MergeMentions(ms) \in SurvivorRecords
           /\ MergeMentions(ms).temp_id = ms[1].temp_id
           /\ MergeMentions(ms).name = ms[1].name
<1>1. PICK i \in 1 .. Len(ms) : MostConfident(ms) = ms[i]
  <2>1. \A x \in EntityMentions : x.conf \in Percent
    BY DEF EntityMentions, Percent
  <2>2. ms # <<>>
    OBVIOUS
  <2>3. QED
    BY <2>1, <2>2, MostConfidentFrom
<1>2. PICK a \in EntityMentions : a = ms[i]
  BY <1>1, ElementOfSeq
<1>3. PICK b \in EntityMentions : b = ms[1]
  <2>1. 1 \in 1 .. Len(ms)
    OBVIOUS
  <2>2. QED
    BY <2>1, ElementOfSeq
<1>4. PICK description \in Descriptions, attr \in Values :
        /\ description = FirstGiven([k \in DOMAIN ms |-> ms[k].description])
        /\ attr = FirstGiven([k \in DOMAIN ms |-> ms[k].attr])
  BY FirstDescription
<1>5. MergeMentions(ms)
        = [temp_id |-> b.temp_id, name |-> b.name, entity_type |-> a.entity_type,
           description |-> description, attr |-> attr, extraction |-> a.conf, support |-> Len(ms)]
  BY <1>1, <1>2, <1>3, <1>4 DEF MergeMentions
<1>6. QED
  BY <1>2, <1>3, <1>5 DEF EntityMentions, SurvivorRecords

\* What is true of the survivors of the mentions es.
SurvivorsSound(sv, es) ==
    /\ sv \in Seq(SurvivorRecords)
    /\ \A m, n \in 1 .. Len(sv) : sv[m].temp_id = sv[n].temp_id => m = n
    /\ \A m, n \in 1 .. Len(sv) : Fold[sv[m].name] = Fold[sv[n].name] => m = n

NameKeys(es) == [i \in DOMAIN es |-> Key[es[i].name]]

LEMMA SurvivorPlaces ==
    ASSUME NEW es, NEW rs, CandidatesOK(es, rs)
    PROVE  /\ Survivors(es) \in Seq(SurvivorRecords)
           /\ \E first : /\ Grouping(first, Groups(es, NameKeys(es)), es, NameKeys(es))
                         /\ Len(Survivors(es)) = Len(Groups(es, NameKeys(es)))
                         /\ \A n \in 1 .. Len(Survivors(es)) :
                                /\ first[n] \in 1 .. Len(es)
                                /\ Survivors(es)[n].temp_id = es[first[n]].temp_id
                                /\ Survivors(es)[n].name = es[first[n]].name
<1> DEFINE key == NameKeys(es)
           groups == Groups(es, key)
           sv == Survivors(es)
<1>1. es \in Seq(EntityMentions)
  BY DEF CandidatesOK
<1>2. PICK first : groups \in Seq(Seq(EntityMentions)) /\ Grouping(first, groups, es, key)
  BY <1>1, GroupsOf
<1>3. sv = [i \in DOMAIN groups |-> MergeMentions(groups[i])]
  BY DEF Survivors, NameKeys
<1> HIDE DEF groups, sv, key
<1>4. DOMAIN groups = 1 .. Len(groups) /\ Len(groups) \in Nat
  BY <1>2
<1>5. \A n \in 1 .. Len(groups) : /\ sv[n] \in SurvivorRecords
                                  /\ first[n] \in 1 .. Len(es)
                                  /\ sv[n].temp_id = es[first[n]].temp_id
                                  /\ sv[n].name = es[first[n]].name
  <2> TAKE n \in 1 .. Len(groups)
  <2>1. GroupOf(groups[n], es, key, first[n]) /\ first[n] \in 1 .. Len(es)
    BY <1>2 DEF Grouping
  <2>2. /\ groups[n] \in Seq(EntityMentions) /\ Len(groups[n]) \in Nat \ {0}
        /\ groups[n][1] = es[first[n]]
    BY <1>2, <2>1 DEF GroupOf
  <2>3. sv[n] = MergeMentions(groups[n])
    BY <1>3, <1>4
  <2>4. QED
    BY <2>1, <2>2, <2>3, MergeMentionsOK
<1>6. sv \in [1 .. Len(groups) -> SurvivorRecords]
  BY <1>3, <1>4, <1>5
<1>7. sv \in Seq(SurvivorRecords) /\ Len(sv) = Len(groups)
  BY <1>4, <1>6, FunctionIsSeq
<1>8. QED
  BY <1>2, <1>5, <1>7 DEF groups, sv, key

LEMMA SurvivorsOK ==
    ASSUME NEW es, NEW rs, CandidatesOK(es, rs)
    PROVE  SurvivorsSound(Survivors(es), es)
<1> DEFINE sv == Survivors(es)
           key == NameKeys(es)
           groups == Groups(es, key)
<1>1. PICK first : /\ sv \in Seq(SurvivorRecords) /\ Len(sv) = Len(groups)
                   /\ Grouping(first, groups, es, key)
                   /\ \A n \in 1 .. Len(sv) : /\ first[n] \in 1 .. Len(es)
                                              /\ sv[n].temp_id = es[first[n]].temp_id
                                              /\ sv[n].name = es[first[n]].name
  BY SurvivorPlaces
<1>2. \A i \in 1 .. Len(es) : key[i] = Key[es[i].name]
  BY DEF CandidatesOK, NameKeys
<1> HIDE DEF sv, key, groups
<1>3. \A m, n \in 1 .. Len(sv) : key[first[m]] = key[first[n]] => m = n
  BY <1>1 DEF Grouping
<1>4. ASSUME NEW m \in 1 .. Len(sv), NEW n \in 1 .. Len(sv),
             Fold[sv[m].name] = Fold[sv[n].name]
      PROVE  m = n
  <2>1. PICK a \in 1 .. Len(es), b \in 1 .. Len(es) :
            /\ a = first[m] /\ sv[m].name = es[a].name
            /\ b = first[n] /\ sv[n].name = es[b].name
    BY <1>1
  <2>2. es[a].name \in EntityNames /\ es[b].name \in EntityNames
    <3>1. es[a] \in EntityMentions /\ es[b] \in EntityMentions
      BY ElementOfSeq DEF CandidatesOK
    <3>2. QED
      BY <3>1 DEF EntityMentions
  <2>3. Key[es[a].name] = Key[es[b].name]
    BY <1>4, <2>1, <2>2, ResolutionAssumption
  <2>4. key[a] = key[b]
    BY <1>2, <2>3
  <2>5. QED
    BY <1>3, <2>1, <2>4
<1>5. ASSUME NEW m \in 1 .. Len(sv), NEW n \in 1 .. Len(sv), sv[m].temp_id = sv[n].temp_id
      PROVE  m = n
  <2>1. PICK a \in 1 .. Len(es), b \in 1 .. Len(es) :
            /\ a = first[m] /\ sv[m].temp_id = es[a].temp_id
            /\ b = first[n] /\ sv[n].temp_id = es[b].temp_id
    BY <1>1
  <2>2. a = b
    BY <1>5, <2>1 DEF CandidatesOK
  <2>3. QED
    BY <1>3, <2>1, <2>2
<1>6. SurvivorsSound(sv, es)
  BY <1>1, <1>4, <1>5 DEF SurvivorsSound
<1>7. QED
  BY <1>6 DEF sv

PlaceOf(s, t) == SelectInSeq(s, LAMBDA x : x.temp_id = t)

LEMMA PlaceOfTempId ==
    ASSUME NEW S, NEW s \in Seq(S), NEW t, t \in TempIds(s)
    PROVE  PlaceOf(s, t) \in 1 .. Len(s) /\ s[PlaceOf(s, t)].temp_id = t
<1> DEFINE I == {k \in 1 .. Len(s) : s[k].temp_id = t}
<1>1. I # {} /\ I \in SUBSET Nat
  BY DEF TempIds
<1>2. PlaceOf(s, t) = Min(I)
  BY <1>1 DEF PlaceOf, SelectInSeq
<1>3. Min(I) \in I
  <2> HIDE DEF I
  <2>1. QED
    BY <1>1, MinOfPlaces
<1>4. QED
  BY <1>2, <1>3

LEMMA AliasOK ==
    ASSUME NEW es, NEW rs, CandidatesOK(es, rs), NEW t \in TempIds(es)
    PROVE  Alias(es, t) \in TempIds(Survivors(es))
<1> DEFINE sv == Survivors(es)
           key == NameKeys(es)
           groups == Groups(es, key)
           i == PlaceOf(es, t)
           J == {k \in 1 .. Len(es) : Key[es[k].name] = Key[es[i].name]}
<1>1. es \in Seq(EntityMentions)
  BY DEF CandidatesOK
<1>2. i \in 1 .. Len(es)
  BY <1>1, PlaceOfTempId
<1>3. Alias(es, t) = es[SelectInSeq(es, LAMBDA x : Key[x.name] = Key[es[i].name])].temp_id
  BY DEF Alias, PlaceOf
<1> HIDE DEF i
<1>4. J # {} /\ J \in SUBSET Nat
  BY <1>2
<1>5. SelectInSeq(es, LAMBDA x : Key[x.name] = Key[es[i].name]) = Min(J)
  BY <1>4 DEF SelectInSeq
<1>6. PICK f \in J : f = Min(J) /\ \A j \in J : f <= j
  <2> HIDE DEF J
  <2>1. QED
    BY <1>4, MinOfPlaces
<1>7. Alias(es, t) = es[f].temp_id
  BY <1>3, <1>5, <1>6
<1>8. PICK first : /\ Grouping(first, groups, es, key) /\ Len(sv) = Len(groups)
                   /\ \A n \in 1 .. Len(sv) : /\ first[n] \in 1 .. Len(es)
                                              /\ sv[n].temp_id = es[first[n]].temp_id
  BY SurvivorPlaces
<1>9. \A k \in 1 .. Len(es) : key[k] = Key[es[k].name]
  BY <1>1 DEF NameKeys
<1> HIDE DEF sv, key, groups
<1>10. PICK n \in 1 .. Len(sv) : key[first[n]] = key[i]
  BY <1>2, <1>8 DEF Grouping
<1>11. first[n] \in J
  BY <1>2, <1>8, <1>9, <1>10
<1>12. f <= first[n]
  BY <1>6, <1>11
<1>13. first[n] <= f
  <2>1. f \in 1 .. Len(es) /\ key[f] = key[first[n]]
    BY <1>2, <1>6, <1>9, <1>10
  <2>2. QED
    BY <1>8, <2>1 DEF Grouping
<1>14. f = first[n]
  BY <1>4, <1>6, <1>11, <1>12, <1>13
<1>15. QED
  BY <1>7, <1>8, <1>14 DEF TempIds, sv

RelationRecords ==
    [subject : Ids, predicate : Labels, object : Ids, valid_from : Dates,
     extraction : 0 .. 100, support : Nat \ {0}]

\* A graph whose ids are ids.
GraphOK(g) == IsGraph(g) /\ DOMAIN g.node \subseteq Ids /\ DOMAIN g.edge \subseteq Ids

\* Relations, each between survivors.
MergedSound(rs, sv) ==
    /\ rs \in Seq(RelationRecords)
    /\ \A n \in 1 .. Len(rs) : rs[n].subject \in TempIds(sv) /\ rs[n].object \in TempIds(sv)

LEMMA NormalizedLabel ==
    ASSUME NEW g, IsGraph(g), NEW p \in Labels
    PROVE  NormalizePredicate(g, p) \in Labels
<1>1. KnownPredicates(g) \subseteq Labels
  BY DEF IsGraph, KnownPredicates
<1>2. QED
  BY <1>1 DEF NormalizePredicate

LEMMA MergedRelationOK ==
    ASSUME NEW ms \in Seq(RelationMentions), Len(ms) \in Nat \ {0}, NEW merged,
           merged = [subject |-> ms[1].subject, predicate |-> ms[1].predicate,
                     object |-> ms[1].object,
                     valid_from |-> FirstGiven([j \in DOMAIN ms |-> ms[j].valid_from]),
                     extraction |-> MostConfident(ms).conf, support |-> Len(ms)]
    PROVE  /\ merged \in RelationRecords
           /\ merged.subject = ms[1].subject /\ merged.object = ms[1].object
<1>1. PICK i \in 1 .. Len(ms) : MostConfident(ms) = ms[i]
  <2>1. \A x \in RelationMentions : x.conf \in Percent
    BY DEF RelationMentions, Percent
  <2>2. ms # <<>>
    OBVIOUS
  <2>3. QED
    BY <2>1, <2>2, MostConfidentFrom
<1>2. PICK a \in RelationMentions : a = ms[i]
  BY <1>1, ElementOfSeq
<1>3. PICK b \in RelationMentions : b = ms[1]
  <2>1. 1 \in 1 .. Len(ms)
    OBVIOUS
  <2>2. QED
    BY <2>1, ElementOfSeq
<1>4. PICK from \in Dates : from = FirstGiven([j \in DOMAIN ms |-> ms[j].valid_from])
  <2>1. DOMAIN ms = 1 .. Len(ms)
    OBVIOUS
  <2>2. \A j \in 1 .. Len(ms) : ms[j].valid_from \in Dates
    <3> TAKE j \in 1 .. Len(ms)
    <3>1. ms[j] \in RelationMentions
      BY ElementOfSeq
    <3>2. QED
      BY <3>1 DEF RelationMentions
  <2>3. [j \in DOMAIN ms |-> ms[j].valid_from] \in [1 .. Len(ms) -> Dates]
    BY <2>1, <2>2
  <2>4. [j \in DOMAIN ms |-> ms[j].valid_from] \in Seq(Dates)
    BY <2>3, FunctionIsSeq
  <2>5. FirstGiven([j \in DOMAIN ms |-> ms[j].valid_from]) \in Dates \cup {None}
    BY <2>4, FirstGivenFrom
  <2>6. QED
    BY <2>5 DEF Dates
<1>5. merged = [subject |-> b.subject, predicate |-> b.predicate, object |-> b.object,
                valid_from |-> from, extraction |-> a.conf, support |-> Len(ms)]
  BY <1>1, <1>2, <1>3, <1>4
<1>6. QED
  BY <1>2, <1>3, <1>5 DEF RelationMentions, RelationRecords

Aliased(g, es, r) ==
    [r EXCEPT !.subject = Alias(es, @), !.object = Alias(es, @),
              !.predicate = NormalizePredicate(g, @)]

LEMMA AliasedOK ==
    ASSUME NEW g, GraphOK(g), NEW es, NEW rs, CandidatesOK(es, rs), NEW i \in 1 .. Len(rs),
           NEW a, a = Aliased(g, es, rs[i])
    PROVE  /\ a \in RelationMentions
           /\ a.subject \in TempIds(Survivors(es)) /\ a.object \in TempIds(Survivors(es))
<1>1. PICK r \in RelationMentions : r = rs[i]
  BY ElementOfSeq DEF CandidatesOK
<1>2. r.subject \in TempIds(es) /\ r.object \in TempIds(es)
  BY <1>1 DEF CandidatesOK
<1>3. PICK s \in TempIds(Survivors(es)), o \in TempIds(Survivors(es)) :
        s = Alias(es, r.subject) /\ o = Alias(es, r.object)
  BY <1>2, AliasOK
<1>4. TempIds(Survivors(es)) \subseteq Ids
  <2>1. Survivors(es) \in Seq(SurvivorRecords)
    BY SurvivorsOK DEF SurvivorsSound
  <2> SUFFICES ASSUME NEW t \in TempIds(Survivors(es)) PROVE t \in Ids
    OBVIOUS
  <2>2. PICK n \in 1 .. Len(Survivors(es)) : t = Survivors(es)[n].temp_id
    BY DEF TempIds
  <2>3. Survivors(es)[n] \in SurvivorRecords
    BY <2>1, ElementOfSeq
  <2>4. QED
    BY <2>2, <2>3 DEF SurvivorRecords
<1>5. PICK p \in Labels : p = NormalizePredicate(g, r.predicate)
  BY NormalizedLabel DEF GraphOK, RelationMentions
<1>6. a = [r EXCEPT !.subject = s, !.object = o, !.predicate = p]
  BY <1>1, <1>3, <1>5 DEF Aliased
<1>7. s \in Ids /\ o \in Ids
  BY <1>4
<1>8. a \in RelationMentions /\ a.subject = s /\ a.object = o
  BY <1>6, <1>7 DEF RelationMentions
<1>9. QED
  BY <1>8

LEMMA MergedRelationsOK ==
    ASSUME NEW g, GraphOK(g), NEW es, NEW rs, CandidatesOK(es, rs)
    PROVE  MergedSound(MergedRelations(g, es, rs), Survivors(es))
<1> DEFINE aliased == [i \in DOMAIN rs |->
                        [rs[i] EXCEPT !.subject = Alias(es, @), !.object = Alias(es, @),
                                      !.predicate = NormalizePredicate(g, @)]]
           key == [i \in DOMAIN aliased |-> RelationKey(aliased[i])]
           groups == Groups(aliased, key)
           M(ms) == [subject |-> ms[1].subject, predicate |-> ms[1].predicate,
                     object |-> ms[1].object,
                     valid_from |-> FirstGiven([j \in DOMAIN ms |-> ms[j].valid_from]),
                     extraction |-> MostConfident(ms).conf, support |-> Len(ms)]
           merged == MergedRelations(g, es, rs)
           ends == TempIds(Survivors(es))
<1>1. DOMAIN rs = 1 .. Len(rs) /\ Len(rs) \in Nat
  BY DEF CandidatesOK
<1>2. \A i \in 1 .. Len(rs) : /\ aliased[i] \in RelationMentions
                              /\ aliased[i].subject \in ends /\ aliased[i].object \in ends
  <2> TAKE i \in 1 .. Len(rs)
  <2>1. aliased[i] = Aliased(g, es, rs[i])
    BY <1>1 DEF Aliased
  <2> HIDE DEF aliased
  <2>2. QED
    BY <2>1, AliasedOK
<1>3. merged = [i \in DOMAIN groups |-> M(groups[i])]
  BY DEF MergedRelations
<1> HIDE DEF ends, merged, key
<1>4. aliased \in Seq(RelationMentions) /\ Len(aliased) = Len(rs)
  <2>1. aliased \in [1 .. Len(rs) -> RelationMentions]
    BY <1>1, <1>2
  <2> HIDE DEF aliased
  <2>2. QED
    BY <1>1, <2>1, FunctionIsSeq
<1> HIDE DEF aliased
<1>5. PICK first : groups \in Seq(Seq(RelationMentions)) /\ Grouping(first, groups, aliased, key)
  BY <1>4, GroupsOf
<1> HIDE DEF groups
<1>6. DOMAIN groups = 1 .. Len(groups) /\ Len(groups) \in Nat
  BY <1>5
<1>7. \A n \in 1 .. Len(groups) : /\ merged[n] \in RelationRecords
                                  /\ merged[n].subject \in ends /\ merged[n].object \in ends
  <2> TAKE n \in 1 .. Len(groups)
  <2>1. GroupOf(groups[n], aliased, key, first[n]) /\ first[n] \in 1 .. Len(rs)
    BY <1>4, <1>5 DEF Grouping
  <2>2. PICK ms \in Seq(RelationMentions) : ms = groups[n]
    BY <1>5, ElementOfSeq
  <2>3. Len(ms) \in Nat \ {0} /\ ms[1] = aliased[first[n]]
    BY <2>1, <2>2 DEF GroupOf
  <2>4. merged[n] = M(ms)
    BY <1>3, <1>6, <2>2
  <2>5. /\ merged[n] \in RelationRecords
        /\ merged[n].subject = ms[1].subject /\ merged[n].object = ms[1].object
    BY <2>3, <2>4, MergedRelationOK
  <2>6. QED
    BY <1>2, <2>1, <2>3, <2>5
<1>8. merged \in Seq(RelationRecords) /\ Len(merged) = Len(groups)
  <2>1. merged \in [1 .. Len(groups) -> RelationRecords]
    BY <1>3, <1>6, <1>7
  <2>2. QED
    BY <1>6, <2>1, FunctionIsSeq
<1>9. QED
  BY <1>7, <1>8 DEF MergedSound, merged, ends

-----------------------------------------------------------------------------
(* The cascade. *)

\* The answer to what entity of g the mention e is.
MatchSound(g, e, m) ==
    /\ m.id \in DOMAIN g.node \cup {None}
    /\ m.id = None => FindByName(g, e.name) = {}
    /\ m.score \in 0 .. 100

\* How near the store finds the nodes of g.
Nearness(g) == [DOMAIN g.node -> -100 .. 100]

LEMMA BestMatch ==
    ASSUME NEW g, NEW near \in Nearness(g), Hits(near, EMBEDDING_ACCEPT) # {},
           NEW top, top = CHOOSE n \in DOMAIN near : \A x \in DOMAIN near : near[x] <= near[n]
    PROVE  top \in DOMAIN g.node /\ near[top] \in 0 .. 100
<1> DEFINE D == DOMAIN g.node
           f == [n \in D |-> near[n] + 100]
<1>1. DOMAIN near = D /\ \A n \in D : near[n] \in -100 .. 100
  BY DEF Nearness
<1>2. f \in [D -> 0 .. 200]
  BY <1>1
<1>3. PICK n \in D : near[n] >= 90
  BY <1>1 DEF Hits, EMBEDDING_ACCEPT
<1>4. PICK m \in D : \A j \in D : f[j] <= f[m]
  <2>1. D # {} /\ 200 \in Nat
    BY <1>3
  <2> HIDE DEF f, D
  <2>2. QED
    BY <1>2, <2>1, GreatestValue
<1>5. \A j \in D : near[j] <= near[m]
  <2> TAKE j \in D
  <2>1. f[j] <= f[m]
    BY <1>4
  <2>2. f[j] = near[j] + 100 /\ f[m] = near[m] + 100
    BY <1>4
  <2>3. near[j] \in Int /\ near[m] \in Int
    BY <1>1, <1>4
  <2> HIDE DEF f, D
  <2>4. QED
    BY <2>1, <2>2, <2>3
<1>6. top \in D /\ \A x \in D : near[x] <= near[top]
  BY <1>1, <1>5
<1>7. QED
  BY <1>1, <1>3, <1>6

\* What is true of the answers about the mentions sv when they are sought in g.
AnswersSound(g, sv, answers) ==
    \A i \in 1 .. Len(sv) : FindByName(g, sv[i].name) = {} =>
        /\ answers.near[sv[i]] \in Nearness(g)
        /\ Band(answers.near[sv[i]]) # {} =>
            /\ answers.said[sv[i]].id \in Band(answers.near[sv[i]]) \cup {None}
            /\ answers.said[sv[i]].score \in Confidences

LEMMA ResolveEntityOK ==
    ASSUME NEW g, GraphOK(g), NEW sv, sv \in Seq(SurvivorRecords),
           NEW k \in 1 .. Len(sv), NEW answers, AnswersSound(g, sv, answers)
    PROVE  MatchSound(g, sv[k], ResolveEntity(g, sv[k], answers))
<1>1. PICK e \in SurvivorRecords : e = sv[k]
  BY ElementOfSeq
<1>2. DOMAIN g.node \subseteq Ids /\ None \notin DOMAIN g.node
  BY NoneAssumption DEF GraphOK
<1>3. CASE FindByName(g, e.name) # {}
  <2>1. PICK n \in FindByName(g, e.name) : n = CHOOSE x \in FindByName(g, e.name) : TRUE
    BY <1>3
  <2>2. n \in DOMAIN g.node
    BY DEF FindByName
  <2>3. ResolveEntity(g, e, answers) = Match(n, 100, "rules")
    BY <1>3, <2>1 DEF ResolveEntity
  <2>4. QED
    BY <1>1, <1>2, <2>2, <2>3 DEF Match, MatchSound
<1>4. CASE FindByName(g, e.name) = {}
  <2>1. PICK near \in Nearness(g) : near = answers.near[e]
    BY <1>1, <1>4 DEF AnswersSound
  <2>2. CASE Hits(near, EMBEDDING_ACCEPT) # {}
    <3>1. PICK top : top = CHOOSE n \in DOMAIN near : \A x \in DOMAIN near : near[x] <= near[n]
      OBVIOUS
    <3>2. top \in DOMAIN g.node /\ near[top] \in 0 .. 100
      BY <2>2, <3>1, BestMatch
    <3>3. ResolveEntity(g, e, answers) = Match(top, near[top], "embedding")
      BY <1>4, <2>1, <2>2, <3>1 DEF ResolveEntity
    <3>4. QED
      BY <1>1, <1>2, <3>2, <3>3 DEF Match, MatchSound
  <2>3. CASE Hits(near, EMBEDDING_ACCEPT) = {} /\ Band(near) # {}
    <3>1. /\ answers.said[e].id \in Band(near) \cup {None}
          /\ answers.said[e].score \in 0 .. 100
      BY <1>1, <1>4, <2>1, <2>3, ResolutionAssumption DEF AnswersSound, Percent
    <3>2. Band(near) \subseteq DOMAIN g.node
      BY DEF Band, Hits, Nearness
    <3>3. ResolveEntity(g, e, answers) = Match(answers.said[e].id, answers.said[e].score, "llm")
      BY <1>4, <2>1, <2>3 DEF ResolveEntity
    <3>4. QED
      BY <1>1, <1>4, <3>1, <3>2, <3>3 DEF Match, MatchSound
  <2>4. CASE Hits(near, EMBEDDING_ACCEPT) = {} /\ Band(near) = {}
    <3>1. ResolveEntity(g, e, answers) = Match(None, 0, "none")
      BY <1>4, <2>1, <2>4 DEF ResolveEntity
    <3>2. QED
      BY <1>1, <1>4, <3>1 DEF Match, MatchSound
  <2>5. QED
    BY <2>2, <2>3, <2>4
<1>5. QED
  BY <1>3, <1>4

LEMMA AnswersOK ==
    ASSUME NEW g, GraphOK(g), NEW es, NEW rs, CandidatesOK(es, rs), NEW answers \in Answers(g, es)
    PROVE  AnswersSound(g, Survivors(es), answers)
<1> DEFINE sv == Survivors(es)
           mentions == {e \in ToSet(sv) : FindByName(g, e.name) = {}}
           near(cosine) == [e \in mentions |-> [n \in DOMAIN g.node |-> cosine[e.name][g.node[n].name]]]
           asked(f) == {e \in mentions : Band(f[e]) # {}}
           said(f) == {s \in [asked(f) -> [id : DOMAIN g.node \cup {None}, score : Confidences]] :
                            \A e \in asked(f) : s[e].id \in Band(f[e]) \cup {None}}
<1>1. sv \in Seq(SurvivorRecords)
  BY SurvivorsOK DEF SurvivorsSound
<1>2. PICK cosine \in Cosines : answers \in [near : {near(cosine)}, said : said(near(cosine))]
  <2> HIDE DEF sv
  <2>1. Answers(g, es) = UNION {[near : {near(c)}, said : said(near(c))] : c \in Cosines}
    BY DEF Answers, sv
  <2> HIDE DEF mentions, near, asked, said
  <2>2. QED
    BY <2>1
<1> DEFINE f == near(cosine)
<1>3. answers.near = f /\ answers.said \in said(f)
  <2> HIDE DEF near, said
  <2>1. QED
    BY <1>2
<1> HIDE DEF sv
<1>4. SUFFICES ASSUME NEW i \in 1 .. Len(sv), FindByName(g, sv[i].name) = {}
               PROVE  /\ f[sv[i]] \in Nearness(g)
                      /\ Band(f[sv[i]]) # {} =>
                            /\ answers.said[sv[i]].id \in Band(f[sv[i]]) \cup {None}
                            /\ answers.said[sv[i]].score \in Confidences
  <2> HIDE DEF f
  <2>1. QED
    BY <1>3 DEF AnswersSound, sv
<1>5. PICK e \in SurvivorRecords : e = sv[i]
  BY <1>1, ElementOfSeq
<1>6. e \in mentions
  BY <1>1, <1>4, <1>5 DEF ToSet
<1>7. f[e] \in Nearness(g)
  <2>1. f[e] = [n \in DOMAIN g.node |-> cosine[e.name][g.node[n].name]]
    BY <1>6
  <2>2. e.name \in EntityNames /\ \A n \in DOMAIN g.node : g.node[n].name \in EntityNames
    BY DEF GraphOK, IsGraph, SurvivorRecords
  <2>3. cosine[e.name] \in [EntityNames -> -100 .. 100]
    BY <2>2, ResolutionAssumption
  <2>4. \A n \in DOMAIN g.node : cosine[e.name][g.node[n].name] \in -100 .. 100
    BY <2>2, <2>3
  <2>5. [n \in DOMAIN g.node |-> cosine[e.name][g.node[n].name]] \in Nearness(g)
    BY <2>4 DEF Nearness
  <2> HIDE DEF f
  <2>6. QED
    BY <2>1, <2>5
<1>8. ASSUME Band(f[e]) # {}
      PROVE  answers.said[e].id \in Band(f[e]) \cup {None} /\ answers.said[e].score \in Confidences
  <2> HIDE DEF f, mentions
  <2>1. e \in asked(f)
    BY <1>6, <1>8
  <2>2. /\ answers.said \in [asked(f) -> [id : DOMAIN g.node \cup {None}, score : Confidences]]
        /\ \A x \in asked(f) : answers.said[x].id \in Band(f[x]) \cup {None}
    BY <1>3
  <2> HIDE DEF asked
  <2>3. answers.said[e] \in [id : DOMAIN g.node \cup {None}, score : Confidences]
    BY <2>1, <2>2
  <2>4. QED
    BY <2>1, <2>2, <2>3
<1>9. QED
  BY <1>5, <1>7, <1>8

-----------------------------------------------------------------------------
(* Sequences of anything. *)

IsSequence(s) == \E S : s \in Seq(S)

\* t begins with s.
Begins(s, t) ==
    /\ Len(s) \in Nat /\ Len(t) \in Nat /\ Len(s) <= Len(t)
    /\ \A i \in 1 .. Len(s) : i \in 1 .. Len(t) /\ t[i] = s[i]

LEMMA SeqWithin ==
    ASSUME NEW S, NEW T, S \subseteq T, NEW s \in Seq(S)
    PROVE  s \in Seq(T) /\ Len(s) \in Nat
<1>1. Len(s) \in Nat /\ s \in [1 .. Len(s) -> S]
  BY LenProperties
<1>2. s \in [1 .. Len(s) -> T]
  BY <1>1
<1>3. QED
  BY <1>1, <1>2

LEMMA AppendAny ==
    ASSUME NEW s, IsSequence(s), NEW x, NEW t, t = Append(s, x)
    PROVE  /\ IsSequence(t) /\ Len(t) = Len(s) + 1 /\ t[Len(s) + 1] = x
           /\ Begins(s, t)
           /\ \A i \in 1 .. Len(t) : i \in 1 .. Len(s) \/ i = Len(s) + 1
<1>1. PICK S : s \in Seq(S)
  BY DEF IsSequence
<1>2. s \in Seq(S \cup {x}) /\ x \in S \cup {x} /\ Len(s) \in Nat
  BY <1>1, SeqWithin
<1>3. /\ t \in Seq(S \cup {x}) /\ Len(t) = Len(s) + 1 /\ t[Len(s) + 1] = x
      /\ \A i \in 1 .. Len(s) : t[i] = s[i]
  BY <1>2, AppendProperties
<1>4. QED
  BY <1>2, <1>3 DEF IsSequence, Begins

LEMMA ConcatAny ==
    ASSUME NEW s, IsSequence(s), NEW u, IsSequence(u), NEW t, t = s \o u
    PROVE  /\ IsSequence(t) /\ Len(t) = Len(s) + Len(u) /\ Len(u) \in Nat
           /\ Begins(s, t)
           /\ \A i \in 1 .. Len(u) : Len(s) + i \in 1 .. Len(t) /\ t[Len(s) + i] = u[i]
           /\ \A i \in 1 .. Len(t) : i \in 1 .. Len(s) \/ \E j \in 1 .. Len(u) : i = Len(s) + j
<1>1. PICK S : s \in Seq(S)
  BY DEF IsSequence
<1>2. PICK U : u \in Seq(U)
  BY DEF IsSequence
<1>3. s \in Seq(S \cup U) /\ u \in Seq(S \cup U) /\ Len(s) \in Nat /\ Len(u) \in Nat
  BY <1>1, <1>2, SeqWithin
<1>4. /\ t \in Seq(S \cup U) /\ Len(t) = Len(s) + Len(u)
      /\ \A i \in 1 .. Len(s) + Len(u) : t[i] = IF i <= Len(s) THEN s[i] ELSE u[i - Len(s)]
  BY <1>3, ConcatProperties
<1>5. Begins(s, t)
  BY <1>3, <1>4 DEF Begins
<1>6. \A i \in 1 .. Len(u) : Len(s) + i \in 1 .. Len(t) /\ t[Len(s) + i] = u[i]
  <2> TAKE i \in 1 .. Len(u)
  <2>1. /\ Len(s) + i \in 1 .. Len(s) + Len(u) /\ ~(Len(s) + i <= Len(s))
        /\ (Len(s) + i) - Len(s) = i
    BY <1>3
  <2>2. QED
    BY <1>4, <2>1
<1>7. ASSUME NEW i \in 1 .. Len(t), i \notin 1 .. Len(s)
      PROVE  \E j \in 1 .. Len(u) : i = Len(s) + j
  <2>1. i - Len(s) \in 1 .. Len(u) /\ i = Len(s) + (i - Len(s))
    BY <1>3, <1>4, <1>7
  <2>2. QED
    BY <2>1
<1>8. QED
  BY <1>3, <1>4, <1>5, <1>6, <1>7 DEF IsSequence

Replaced(s, i, x) == [s EXCEPT ![i] = x]

LEMMA ExceptAny ==
    ASSUME NEW s, IsSequence(s), NEW i \in 1 .. Len(s), NEW x, NEW t, t = Replaced(s, i, x)
    PROVE  /\ IsSequence(t) /\ Len(t) = Len(s) /\ Len(s) \in Nat /\ t[i] = x
           /\ \A j \in 1 .. Len(s) : j # i => t[j] = s[j]
<1>1. PICK S : s \in Seq(S)
  BY DEF IsSequence
<1>2. Len(s) \in Nat /\ s \in [1 .. Len(s) -> S]
  BY <1>1, LenProperties
<1>3. t \in [1 .. Len(s) -> S \cup {x}]
  BY <1>2 DEF Replaced
<1>4. t \in Seq(S \cup {x}) /\ Len(t) = Len(s)
  BY <1>2, <1>3, FunctionIsSeq
<1>5. QED
  BY <1>2, <1>4 DEF IsSequence, Replaced

-----------------------------------------------------------------------------
(* The op constructors. *)

IsCreate(o, e, new_type) ==
    /\ o.kind = "CreateNode" /\ o.depends_on = {} /\ o.preconditions = {NameAbsent(e.name)}
    /\ o.temp_id = e.temp_id /\ o.name = e.name /\ o.entity_type = e.entity_type
    /\ o.description = e.description /\ o.attr = e.attr
    /\ o.extraction = e.extraction /\ o.resolution = 50 /\ o.support = e.support
    /\ o.new_type = new_type /\ o.semantic = FALSE

LEMMA CreateIs ==
    ASSUME NEW e, NEW new_type
    PROVE  IsCreate(Create(e, new_type), e, new_type)
  BY DEF IsCreate, Create, Op

IsMerge(o, e, m, new_type) ==
    /\ o.kind = "MergeInto" /\ o.depends_on = {} /\ o.preconditions = {NodeExists(m.id)}
    /\ o.temp_id = e.temp_id /\ o.target = m.id
    /\ o.extraction = e.extraction /\ o.resolution = m.score /\ o.support = e.support
    /\ o.new_type = new_type /\ o.semantic = FALSE

LEMMA MergeIs ==
    ASSUME NEW e, NEW m, NEW new_type
    PROVE  IsMerge(Merge(e, m, new_type), e, m, new_type)
  BY DEF IsMerge, Merge, Op

OpFields == DOMAIN Op("")

\* The op ProposeUpdate appends.
Update(n, gain, e, deps, score, new_type) ==
    [Op("UpdateNodeProps") EXCEPT
        !.target = n, !.depends_on = deps,
        !.description = gain.description, !.attr = gain.attr,
        !.preconditions = {NodeExists(n)} \cup gain.preconditions,
        !.extraction = e.extraction, !.resolution = score,
        !.new_type = new_type, !.support = e.support]

IsUpdate(o, n, gain, e, deps, score, new_type) ==
    /\ o.kind = "UpdateNodeProps" /\ o.depends_on = deps /\ o.target = n
    /\ o.preconditions = {NodeExists(n)} \cup gain.preconditions
    /\ o.description = gain.description /\ o.attr = gain.attr
    /\ o.extraction = e.extraction /\ o.resolution = score /\ o.support = e.support
    /\ o.new_type = new_type /\ o.semantic = FALSE
    /\ DOMAIN o = OpFields

LEMMA UpdateIs ==
    ASSUME NEW n, NEW gain, NEW e, NEW deps, NEW score, NEW new_type
    PROVE  IsUpdate(Update(n, gain, e, deps, score, new_type), n, gain, e, deps, score, new_type)
  BY DEF IsUpdate, Update, Op, OpFields

IsAssert(o, r, s, t, deps, semantic) ==
    /\ o.kind = "AssertEdge" /\ o.depends_on = deps
    /\ o.subject = s /\ o.predicate = r.predicate /\ o.object = t
    /\ o.preconditions = IF BothCanonical(s, t)
                         THEN {EdgeAbsent(s.canonical_id, r.predicate, t.canonical_id)}
                         ELSE {}
    /\ o.valid_from = r.valid_from
    /\ o.extraction = r.extraction /\ o.resolution = 50 /\ o.support = r.support
    /\ o.new_type = FALSE /\ o.semantic = semantic

LEMMA AssertIs ==
    ASSUME NEW r, NEW s, NEW t, NEW deps, NEW semantic
    PROVE  IsAssert(AssertFact(r, s, t, deps, semantic), r, s, t, deps, semantic)
  BY DEF IsAssert, AssertFact, Op

IsInvalidate(o, r, e, judgment) ==
    /\ o.kind = "InvalidateEdge" /\ o.depends_on = {} /\ o.preconditions = {EdgeExists(e)}
    /\ o.target = e
    /\ o.valid_to = IF r.valid_from # None THEN r.valid_from ELSE Today
    /\ o.extraction = r.extraction /\ o.resolution = judgment.score
    /\ o.support = r.support
    /\ o.new_type = FALSE /\ o.semantic = (judgment.verdict = "semantic_conflict")

LEMMA InvalidateIs ==
    ASSUME NEW r, NEW e, NEW judgment
    PROVE  IsInvalidate(Invalidate(r, e, judgment), r, e, judgment)
  BY DEF IsInvalidate, Invalidate, Op

IsReinforce(o, r, e) ==
    /\ o.kind = "ReinforceEdge" /\ o.depends_on = {} /\ o.preconditions = {EdgeExists(e)}
    /\ o.target = e
    /\ o.extraction = r.extraction /\ o.resolution = 100 /\ o.support = r.support
    /\ o.new_type = FALSE /\ o.semantic = FALSE

LEMMA ReinforceIs ==
    ASSUME NEW r, NEW e
    PROVE  IsReinforce(Reinforce(r, e), r, e)
  BY DEF IsReinforce, Reinforce, Op

-----------------------------------------------------------------------------
(* Descriptions. *)

LEMMA CappedOK ==
    ASSUME NEW s \in Seq(STRING)
    PROVE  Capped(s) \in Seq(STRING)
<1>1. CASE Len(s) > DescCap
  <2>1. DescCap \in Nat /\ Len(s) \in Nat
    BY ResolutionAssumption
  <2>2. DescCap \in 0 .. Len(s) + 1 /\ 1 \in 1 .. Len(s) + 1
    BY <1>1, <2>1
  <2>3. \A i \in 1 .. DescCap : i \in 1 .. Len(s)
    BY <1>1, <2>1
  <2>4. SubSeq(s, 1, DescCap) \in Seq(STRING)
    BY <2>1, <2>2, <2>3, SubSeqProperties
  <2>5. QED
    BY <1>1, <2>4 DEF Capped
<1>2. CASE ~(Len(s) > DescCap)
  BY <1>2 DEF Capped
<1>3. QED
  BY <1>1, <1>2

LEMMA MergedDescriptionOK ==
    ASSUME NEW old \in Seq(STRING), NEW new \in Seq(STRING)
    PROVE  MergedDescription(old, new) \in Descriptions
<1>1. old \o new \in Seq(STRING)
  BY ConcatProperties
<1>2. Capped(new) \in Seq(STRING) /\ Capped(old \o new) \in Seq(STRING)
  BY <1>1, CappedOK
<1>3. QED
  BY <1>2 DEF MergedDescription, Descriptions

\* What a node gains: text only from a mention that has some.
GainSound(gain, n, was, e) ==
    /\ gain.description \in Descriptions
    /\ gain.attr \in Values
    /\ gain.preconditions \subseteq {PropEquals(n, was)}
    /\ gain.description # None => e.description # None

LEMMA ExtendPropsOK ==
    ASSUME NEW n, NEW record, record.description \in Descriptions, record.attr \in Values,
           NEW e \in SurvivorRecords
    PROVE  GainSound(ExtendProps(n, record, e), n, record.description, e)
<1>1. e.description \in Descriptions /\ e.attr \in Values
  BY DEF SurvivorRecords
<1>2. CASE record.description # None /\ e.description # None
  <2>1. record.description \in Seq(STRING) /\ e.description \in Seq(STRING)
    BY <1>1, <1>2 DEF Descriptions
  <2>2. PICK merged \in Descriptions :
            merged = MergedDescription(record.description, e.description)
    BY <2>1, MergedDescriptionOK
  <2>3. ExtendProps(n, record, e)
            = [description |-> merged, attr |-> IF record.attr = None THEN e.attr ELSE None,
               preconditions |-> IF merged # None THEN {PropEquals(n, record.description)}
                                 ELSE {}]
    BY <1>2, <2>2 DEF ExtendProps
  <2>4. QED
    BY <1>1, <1>2, <2>2, <2>3 DEF GainSound, Values
<1>3. CASE ~(record.description # None /\ e.description # None)
  <2>1. ExtendProps(n, record, e)
            = [description |-> e.description,
               attr |-> IF record.attr = None THEN e.attr ELSE None, preconditions |-> {}]
    BY <1>3 DEF ExtendProps
  <2>2. QED
    BY <1>1, <2>1 DEF GainSound, Values
<1>4. QED
  BY <1>2, <1>3

IsFolded(o, op, deps) ==
    /\ o.kind = op.kind /\ o.temp_id = op.temp_id /\ o.valid_from = op.valid_from
    /\ o.target = op.target /\ o.preconditions = op.preconditions
    /\ o.depends_on = op.depends_on \cup deps
    /\ o.description \in Descriptions /\ o.attr \in Values
    /\ o.extraction = op.extraction /\ o.resolution = op.resolution
    /\ o.support = op.support /\ o.new_type = op.new_type /\ o.semantic = op.semantic
    /\ DOMAIN o = DOMAIN op

LEMMA FoldUpdateIs ==
    ASSUME NEW op, op.description \in Descriptions, op.attr \in Values,
           DOMAIN op = OpFields,
           NEW e \in SurvivorRecords, NEW gain, NEW n, NEW was, GainSound(gain, n, was, e),
           NEW deps, NEW o, o = FoldUpdate(op, gain, e, deps)
    PROVE  IsFolded(o, op, deps)
<1>1. e.description \in Descriptions
  BY DEF SurvivorRecords
<1> DEFINE description == IF gain.description = None THEN op.description
                          ELSE IF op.description = None THEN gain.description
                          ELSE LET merged == MergedDescription(op.description, e.description)
                               IN  IF merged = None THEN op.description ELSE merged
           attr == IF op.attr = None THEN gain.attr ELSE op.attr
<1>2. description \in Descriptions
  <2>1. CASE gain.description # None /\ op.description # None
    <3>1. op.description \in Seq(STRING) /\ e.description \in Seq(STRING)
      BY <1>1, <2>1 DEF Descriptions, GainSound
    <3>2. PICK merged \in Descriptions :
              merged = MergedDescription(op.description, e.description)
      BY <3>1, MergedDescriptionOK
    <3>3. description = IF merged = None THEN op.description ELSE merged
      BY <2>1, <3>2
    <3>4. QED
      BY <3>2, <3>3
  <2>2. CASE ~(gain.description # None /\ op.description # None)
    BY <2>2 DEF GainSound
  <2>3. QED
    BY <2>1, <2>2
<1>3. attr \in Values
  BY DEF GainSound
<1>4. o = [op EXCEPT !.description = description, !.attr = attr, !.depends_on = @ \cup deps]
  BY DEF FoldUpdate
<1> HIDE DEF description, attr
<1>5. QED
  BY <1>2, <1>3, <1>4 DEF IsFolded, Op, OpFields

-----------------------------------------------------------------------------
(* What is true of every op of a patch that is diffed with g. *)

Kinds ==
    {"CreateNode", "MergeInto", "UpdateNodeProps", "AssertEdge", "InvalidateEdge", "ReinforceEdge"}

Signals(op) ==
    /\ op.extraction \in 0 .. 100 /\ op.resolution \in 0 .. 100 /\ op.support \in Nat \ {0}
    /\ op.new_type \in BOOLEAN /\ op.semantic \in BOOLEAN

CreateSound(g, op) ==
    /\ op.depends_on = {} /\ op.preconditions = {NameAbsent(op.name)}
    /\ FindByName(g, op.name) = {}
    /\ op.temp_id \in Ids /\ op.name \in EntityNames /\ op.entity_type \in Labels
    /\ op.description \in Descriptions /\ op.attr \in Values
    /\ op.resolution = 50

MergeSound(g, op) ==
    /\ op.depends_on = {} /\ op.preconditions = {NodeExists(op.target)}
    /\ op.target \in DOMAIN g.node

\* deps are places of merges.
Merges(ops, deps) == \A j \in deps : j \in 1 .. Len(ops) /\ ops[j].kind = "MergeInto"

UpdateSound(g, ops, op) ==
    /\ op.target \in DOMAIN g.node
    /\ NodeExists(op.target) \in op.preconditions
    /\ op.preconditions \subseteq {NodeExists(op.target),
                                   PropEquals(op.target, g.node[op.target].description)}
    /\ op.description \in Descriptions /\ op.attr \in Values
    /\ Merges(ops, op.depends_on)
    /\ DOMAIN op = OpFields

\* An end of an edge is in g, or is made by an op the edge waits for.
RefSound(g, ops, deps, ref) ==
    \/ ref.temp_id = None /\ ref.canonical_id \in DOMAIN g.node
    \/ /\ ref.canonical_id = None /\ ref.temp_id \in Ids
       /\ \E j \in deps : /\ j \in 1 .. Len(ops)
                          /\ ops[j].kind = "CreateNode" /\ ops[j].temp_id = ref.temp_id

AssertSound(g, ops, op) ==
    /\ \A j \in op.depends_on : j \in 1 .. Len(ops) /\ ops[j].kind = "CreateNode"
    /\ RefSound(g, ops, op.depends_on, op.subject)
    /\ RefSound(g, ops, op.depends_on, op.object)
    /\ op.predicate \in Labels /\ op.valid_from \in Dates
    /\ op.preconditions
        = IF BothCanonical(op.subject, op.object)
          THEN {EdgeAbsent(op.subject.canonical_id, op.predicate, op.object.canonical_id)}
          ELSE {}
    /\ BothCanonical(op.subject, op.object) =>
        EdgesBetween(g, op.subject.canonical_id, op.object.canonical_id, op.predicate) = {}
    /\ op.resolution = 50

EdgeOpSound(g, op) ==
    /\ op.depends_on = {} /\ op.preconditions = {EdgeExists(op.target)}
    /\ op.target \in CurrentEdges(g)

\* An edge is closed for the assertion that comes before, when that begins.
CloseSound(ops, i) ==
    /\ ops[i].valid_to \in Nat
    /\ \E j \in 1 .. i - 1 :
        /\ ops[j].kind = "AssertEdge"
        /\ \A k \in j + 1 .. i : ops[k].kind = "InvalidateEdge"
        /\ ops[j].valid_from # None => ops[i].valid_to = ops[j].valid_from

OpSound(g, ops, i) ==
    /\ Signals(ops[i])
    /\ ops[i].kind \in Kinds
    /\ ops[i].kind = "CreateNode" => CreateSound(g, ops[i])
    /\ ops[i].kind = "MergeInto" => MergeSound(g, ops[i])
    /\ ops[i].kind = "UpdateNodeProps" => UpdateSound(g, ops, ops[i])
    /\ ops[i].kind = "AssertEdge" => AssertSound(g, ops, ops[i])
    /\ ops[i].kind = "InvalidateEdge" => EdgeOpSound(g, ops[i]) /\ CloseSound(ops, i)
    /\ ops[i].kind = "ReinforceEdge" => EdgeOpSound(g, ops[i])

AllSound(g, ops) == IsSequence(ops) /\ \A i \in 1 .. Len(ops) : OpSound(g, ops, i)

\* t has the ops of s, in kind and name, and maybe more.
Alike(s, t) ==
    /\ Len(s) \in Nat /\ Len(t) \in Nat /\ Len(s) <= Len(t)
    /\ \A i \in 1 .. Len(s) : /\ i \in 1 .. Len(t)
                              /\ t[i].kind = s[i].kind /\ t[i].temp_id = s[i].temp_id
                              /\ t[i].valid_from = s[i].valid_from

LEMMA BeginsAlike ==
    ASSUME NEW s, NEW t, Begins(s, t)
    PROVE  Alike(s, t)
  BY DEF Begins, Alike

LEMMA CloseAlike ==
    ASSUME NEW s, NEW t, Alike(s, t), NEW i \in 1 .. Len(s), t[i] = s[i], CloseSound(s, i)
    PROVE  CloseSound(t, i)
<1>1. PICK j \in 1 .. i - 1 :
        /\ s[j].kind = "AssertEdge"
        /\ \A k \in j + 1 .. i : s[k].kind = "InvalidateEdge"
        /\ s[j].valid_from # None => s[i].valid_to = s[j].valid_from
  BY DEF CloseSound
<1>2. j \in 1 .. Len(s) /\ \A k \in j + 1 .. i : k \in 1 .. Len(s)
  BY DEF Alike
<1>3. /\ t[j].kind = "AssertEdge" /\ t[j].valid_from = s[j].valid_from
      /\ \A k \in j + 1 .. i : t[k].kind = "InvalidateEdge"
  BY <1>1, <1>2 DEF Alike
<1>4. t[i].valid_to \in Nat /\ (t[j].valid_from # None => t[i].valid_to = t[j].valid_from)
  BY <1>1, <1>3 DEF CloseSound
<1>5. QED
  BY <1>3, <1>4 DEF CloseSound

LEMMA RefAlike ==
    ASSUME NEW g, NEW s, NEW t, Alike(s, t), NEW deps, NEW ref, RefSound(g, s, deps, ref)
    PROVE  RefSound(g, t, deps, ref)
  BY DEF RefSound, Alike

LEMMA OpAlike ==
    ASSUME NEW g, NEW s, NEW t, Alike(s, t), NEW i \in 1 .. Len(s), t[i] = s[i],
           OpSound(g, s, i)
    PROVE  OpSound(g, t, i)
<1>1. s[i].kind = "UpdateNodeProps" => UpdateSound(g, t, t[i])
  BY DEF OpSound, UpdateSound, Merges, Alike
<1>2. s[i].kind = "AssertEdge" => AssertSound(g, t, t[i])
  <2>1. SUFFICES ASSUME s[i].kind = "AssertEdge" PROVE AssertSound(g, t, s[i])
    OBVIOUS
  <2>2. AssertSound(g, s, s[i])
    BY <2>1 DEF OpSound
  <2>3. \A j \in s[i].depends_on : j \in 1 .. Len(t) /\ t[j].kind = "CreateNode"
    BY <2>2 DEF AssertSound, Alike
  <2>4. RefSound(g, t, s[i].depends_on, s[i].subject) /\ RefSound(g, t, s[i].depends_on, s[i].object)
    BY <2>2, RefAlike DEF AssertSound
  <2>5. QED
    BY <2>2, <2>3, <2>4 DEF AssertSound
<1>3. s[i].kind = "InvalidateEdge" => CloseSound(t, i)
  BY CloseAlike DEF OpSound
<1>4. QED
  BY <1>1, <1>2, <1>3 DEF OpSound

\* An op more, at the end.
LEMMA AppendSound ==
    ASSUME NEW g, NEW ops, AllSound(g, ops), NEW o, NEW t, t = Append(ops, o),
           Begins(ops, t) => OpSound(g, t, Len(ops) + 1)
    PROVE  AllSound(g, t)
<1>1. /\ IsSequence(t) /\ Len(t) = Len(ops) + 1 /\ Begins(ops, t)
      /\ \A i \in 1 .. Len(t) : i \in 1 .. Len(ops) \/ i = Len(ops) + 1
  BY AppendAny DEF AllSound
<1>2. ASSUME NEW i \in 1 .. Len(ops) PROVE OpSound(g, t, i)
  <2>1. Alike(ops, t) /\ t[i] = ops[i]
    BY <1>1, BeginsAlike DEF Begins
  <2>2. QED
    BY <2>1, OpAlike DEF AllSound
<1>3. QED
  BY <1>1, <1>2 DEF AllSound

-----------------------------------------------------------------------------
(* The ops of the entities. *)

LEMMA CreateStep ==
    ASSUME NEW g, NEW ops, AllSound(g, ops), NEW e \in SurvivorRecords, NEW new_type \in BOOLEAN,
           FindByName(g, e.name) = {}, NEW t, t = Append(ops, Create(e, new_type))
    PROVE  AllSound(g, t)
<1> DEFINE o == Create(e, new_type)
<1>1. Len(ops) \in Nat /\ t[Len(ops) + 1] = o
  BY AppendAny DEF AllSound, Begins
<1>2. IsCreate(o, e, new_type)
  BY CreateIs
<1> HIDE DEF o
<1>3. Signals(o) /\ CreateSound(g, o)
  <2>1. /\ e.temp_id \in Ids /\ e.name \in EntityNames /\ e.entity_type \in Labels
        /\ e.description \in Descriptions /\ e.attr \in Values
        /\ e.extraction \in 0 .. 100 /\ e.support \in Nat \ {0}
    BY DEF SurvivorRecords
  <2>2. Signals(o)
    <3>1. /\ o.extraction = e.extraction /\ o.resolution = 50 /\ o.support = e.support
          /\ o.new_type = new_type /\ o.semantic = FALSE
      BY <1>2 DEF IsCreate
    <3>2. o.resolution \in 0 .. 100
      BY <3>1
    <3>3. QED
      BY <2>1, <3>1, <3>2 DEF Signals
  <2>3. CreateSound(g, o)
    BY <1>2, <2>1 DEF CreateSound, IsCreate
  <2>4. QED
    BY <2>2, <2>3
<1>4. OpSound(g, t, Len(ops) + 1)
  BY <1>1, <1>2, <1>3 DEF OpSound, Kinds, IsCreate
<1>5. QED
  BY <1>4, AppendSound DEF o

LEMMA MergeStep ==
    ASSUME NEW g, NEW ops, AllSound(g, ops), NEW e \in SurvivorRecords, NEW new_type \in BOOLEAN,
           NEW m, m.id \in DOMAIN g.node, m.score \in 0 .. 100,
           NEW t, t = Append(ops, Merge(e, m, new_type))
    PROVE  AllSound(g, t)
<1> DEFINE o == Merge(e, m, new_type)
<1>1. Len(ops) \in Nat /\ t[Len(ops) + 1] = o
  BY AppendAny DEF AllSound, Begins
<1>2. IsMerge(o, e, m, new_type)
  BY MergeIs
<1> HIDE DEF o
<1>3. Signals(o) /\ MergeSound(g, o)
  BY <1>2 DEF Signals, MergeSound, SurvivorRecords, IsMerge
<1>4. OpSound(g, t, Len(ops) + 1)
  BY <1>1, <1>2, <1>3 DEF OpSound, Kinds, IsMerge
<1>5. QED
  BY <1>4, AppendSound DEF o

UpdatePlace(ops, n) == SelectInSeq(ops, LAMBDA o : o.kind = "UpdateNodeProps" /\ o.target = n)

LEMMA PlaceOfUpdate ==
    ASSUME NEW ops, NEW n, UpdatePlace(ops, n) # 0
    PROVE  /\ UpdatePlace(ops, n) \in 1 .. Len(ops)
           /\ ops[UpdatePlace(ops, n)].kind = "UpdateNodeProps"
           /\ ops[UpdatePlace(ops, n)].target = n
<1> DEFINE I == {i \in 1 .. Len(ops) : ops[i].kind = "UpdateNodeProps" /\ ops[i].target = n}
<1>1. I # {} /\ I \in SUBSET Nat /\ UpdatePlace(ops, n) = Min(I)
  BY DEF UpdatePlace, SelectInSeq
<1>2. Min(I) \in I
  <2> HIDE DEF I
  <2>1. QED
    BY <1>1, MinOfPlaces
<1>3. QED
  BY <1>1, <1>2

LEMMA UpdateAppended ==
    ASSUME NEW g, NEW ops, AllSound(g, ops), NEW e \in SurvivorRecords, NEW new_type \in BOOLEAN,
           NEW n \in DOMAIN g.node, NEW gain, GainSound(gain, n, g.node[n].description, e),
           NEW deps, Merges(ops, deps),
           NEW score \in 0 .. 100,
           NEW t, t = Append(ops, Update(n, gain, e, deps, score, new_type))
    PROVE  AllSound(g, t)
<1> DEFINE o == Update(n, gain, e, deps, score, new_type)
<1>1. Len(ops) \in Nat /\ t[Len(ops) + 1] = o /\ Begins(ops, t)
  BY AppendAny DEF AllSound, Begins
<1>2. IsUpdate(o, n, gain, e, deps, score, new_type)
  BY UpdateIs
<1> HIDE DEF o
<1>3. Signals(o)
  BY <1>2 DEF Signals, SurvivorRecords, IsUpdate
<1>4. Merges(t, deps)
  BY <1>1 DEF Merges, Begins
<1>5. UpdateSound(g, t, o)
  BY <1>2, <1>4 DEF UpdateSound, GainSound, IsUpdate
<1>6. OpSound(g, t, Len(ops) + 1)
  BY <1>1, <1>2, <1>3, <1>5 DEF OpSound, Kinds, IsUpdate
<1>7. QED
  BY <1>6, AppendSound DEF o

UpdateAt(ops, i) == i \in 1 .. Len(ops) /\ ops[i].kind = "UpdateNodeProps"

\* t has the ops of s and, it may be, updates more.
Grown(g, s, t) ==
    /\ AllSound(g, t) /\ Alike(s, t)
    /\ \A i \in 1 .. Len(t) : i \in 1 .. Len(s) \/ t[i].kind = "UpdateNodeProps"

LEMMA UpdateFolded ==
    ASSUME NEW g, NEW ops, AllSound(g, ops), NEW e \in SurvivorRecords,
           NEW n \in DOMAIN g.node, NEW gain, GainSound(gain, n, g.node[n].description, e),
           NEW deps, Merges(ops, deps),
           NEW i, UpdateAt(ops, i),
           NEW t, t = Replaced(ops, i, FoldUpdate(ops[i], gain, e, deps))
    PROVE  Grown(g, ops, t)
<1> DEFINE op == ops[i]
           o == FoldUpdate(op, gain, e, deps)
<1> USE DEF UpdateAt
<1>1. t = Replaced(ops, i, o)
  OBVIOUS
<1>2. /\ IsSequence(t) /\ Len(t) = Len(ops) /\ Len(ops) \in Nat /\ t[i] = o
      /\ \A j \in 1 .. Len(ops) : j # i => t[j] = ops[j]
  <2> HIDE DEF o
  <2>1. QED
    BY <1>1, ExceptAny DEF AllSound
<1>3. Signals(op) /\ UpdateSound(g, ops, op)
  BY DEF AllSound, OpSound
<1>4. IsFolded(o, op, deps)
  BY <1>3, FoldUpdateIs DEF UpdateSound
<1> HIDE DEF o
<1>5. Alike(ops, t)
  BY <1>2, <1>4 DEF Alike, IsFolded
<1>6. Signals(t[i]) /\ UpdateSound(g, t, t[i])
  <2>1. Merges(t, o.depends_on)
    BY <1>3, <1>4, <1>5 DEF UpdateSound, Merges, Alike, IsFolded
  <2>2. Signals(o)
    BY <1>3, <1>4 DEF Signals, IsFolded
  <2>3. UpdateSound(g, t, o)
    BY <1>3, <1>4, <2>1 DEF UpdateSound, IsFolded
  <2>4. QED
    BY <1>2, <2>2, <2>3
<1>7. OpSound(g, t, i)
  BY <1>2, <1>4, <1>6 DEF OpSound, Kinds, IsFolded
<1>8. ASSUME NEW j \in 1 .. Len(ops), j # i PROVE OpSound(g, t, j)
  BY <1>2, <1>5, <1>8, OpAlike DEF AllSound
<1>9. QED
  BY <1>2, <1>5, <1>7, <1>8 DEF AllSound, Grown

LEMMA UpdateStep ==
    ASSUME NEW g, NEW ops, AllSound(g, ops), NEW e \in SurvivorRecords, NEW new_type \in BOOLEAN,
           NEW n \in DOMAIN g.node, NEW gain, GainSound(gain, n, g.node[n].description, e),
           NEW deps, Merges(ops, deps),
           NEW score \in 0 .. 100,
           NEW t, t = ProposeUpdate(ops, n, gain, e, deps, score, new_type)
    PROVE  Grown(g, ops, t)
<1> DEFINE i == UpdatePlace(ops, n)
<1>1. t = IF gain.description = None /\ gain.attr = None THEN ops
          ELSE IF i # 0 THEN Replaced(ops, i, FoldUpdate(ops[i], gain, e, deps))
          ELSE Append(ops, Update(n, gain, e, deps, score, new_type))
  BY DEF ProposeUpdate, UpdatePlace, Update, Replaced
<1>2. i # 0 => UpdateAt(ops, i)
  BY PlaceOfUpdate DEF UpdateAt
<1> HIDE DEF i
<1>3. Len(ops) \in Nat
  BY AppendAny DEF AllSound, Begins
<1>4. CASE t = ops
  BY <1>3, <1>4 DEF Alike, Grown
<1>5. CASE i # 0 /\ t = Replaced(ops, i, FoldUpdate(ops[i], gain, e, deps))
  BY <1>2, <1>5, UpdateFolded
<1>6. CASE t = Append(ops, Update(n, gain, e, deps, score, new_type))
  <2>1. /\ t[Len(ops) + 1] = Update(n, gain, e, deps, score, new_type) /\ Begins(ops, t)
        /\ \A k \in 1 .. Len(t) : k \in 1 .. Len(ops) \/ k = Len(ops) + 1
    BY <1>6, AppendAny DEF AllSound
  <2>2. AllSound(g, t)
    BY <1>6, UpdateAppended
  <2>3. t[Len(ops) + 1].kind = "UpdateNodeProps"
    <3>1. IsUpdate(t[Len(ops) + 1], n, gain, e, deps, score, new_type)
      BY <2>1, UpdateIs
    <3>2. QED
      BY <3>1 DEF IsUpdate
  <2>4. QED
    BY <2>1, <2>2, <2>3, BeginsAlike DEF Grown
<1>7. QED
  BY <1>1, <1>4, <1>5, <1>6

Introduces(ops, i) == ops[i].kind \in {"CreateNode", "MergeInto"}

\* Each op that introduces a temp id introduces that of one of the first k survivors,
\* and no other op does.
NamedOnce(ops, sv, k) ==
    /\ \A i \in 1 .. Len(ops) : Introduces(ops, i) =>
            \E m \in 1 .. k : ops[i].temp_id = sv[m].temp_id
    /\ \A i, j \in 1 .. Len(ops) :
            Introduces(ops, i) /\ Introduces(ops, j) /\ ops[i].temp_id = ops[j].temp_id => i = j

Created(ops, temp_id) ==
    \E i \in 1 .. Len(ops) : ops[i].kind = "CreateNode" /\ ops[i].temp_id = temp_id

Merged(ops, temp_id) ==
    \E i \in 1 .. Len(ops) : ops[i].kind = "MergeInto" /\ ops[i].temp_id = temp_id

\* The match is another tier's than that of the names.
Guessed(match) == match.id # None /\ match.method # "rules"

DistinctIds(sv) == \A m, n \in 1 .. Len(sv) : sv[m].temp_id = sv[n].temp_id => m = n

LEMMA AlikeTransitive ==
    ASSUME NEW s, NEW t, NEW u, Alike(s, t), Alike(t, u)
    PROVE  Alike(s, u)
<1>1. /\ Len(s) \in Nat /\ Len(t) \in Nat /\ Len(u) \in Nat
      /\ Len(s) <= Len(t) /\ Len(t) <= Len(u)
  BY DEF Alike
<1>2. QED
  BY <1>1 DEF Alike

LEMMA CreatedAlike ==
    ASSUME NEW s, NEW t, Alike(s, t), NEW temp_id, Created(s, temp_id)
    PROVE  Created(t, temp_id)
  BY DEF Alike, Created

LEMMA MergedAlike ==
    ASSUME NEW s, NEW t, Alike(s, t), NEW temp_id, Merged(s, temp_id)
    PROVE  Merged(t, temp_id)
  BY DEF Alike, Merged

LEMMA NamedGrown ==
    ASSUME NEW g, NEW s, NEW t, Grown(g, s, t), NEW sv, NEW k \in Nat, NamedOnce(s, sv, k)
    PROVE  NamedOnce(t, sv, k)
<1>1. \A i \in 1 .. Len(t) : Introduces(t, i) =>
        i \in 1 .. Len(s) /\ Introduces(s, i) /\ t[i].temp_id = s[i].temp_id
  BY DEF Grown, Alike, Introduces
<1>2. QED
  BY <1>1 DEF NamedOnce

LEMMA NamedNext ==
    ASSUME NEW ops, NEW sv, NEW k \in Nat, NamedOnce(ops, sv, k)
    PROVE  NamedOnce(ops, sv, k + 1)
<1>1. \A m \in 1 .. k : m \in 1 .. k + 1
  OBVIOUS
<1>2. QED
  BY <1>1 DEF NamedOnce

LEMMA NamedAppended ==
    ASSUME NEW ops, IsSequence(ops), NEW sv, DistinctIds(sv), NEW k \in Nat, k + 1 \in 1 .. Len(sv),
           \A m \in 1 .. k : m \in 1 .. Len(sv),
           NamedOnce(ops, sv, k), NEW o, o.temp_id = sv[k + 1].temp_id,
           NEW t, t = Append(ops, o)
    PROVE  NamedOnce(t, sv, k + 1)
<1>1. /\ t[Len(ops) + 1] = o /\ Begins(ops, t)
      /\ \A i \in 1 .. Len(t) : i \in 1 .. Len(ops) \/ i = Len(ops) + 1
  BY AppendAny
<1>2. \A i \in 1 .. Len(ops) : t[i] = ops[i] /\ (Introduces(t, i) => Introduces(ops, i))
  BY <1>1 DEF Begins, Introduces
<1>3. \A i \in 1 .. Len(ops) : Introduces(t, i) => t[i].temp_id # o.temp_id
  <2> SUFFICES ASSUME NEW i \in 1 .. Len(ops), Introduces(t, i), t[i].temp_id = o.temp_id
               PROVE  FALSE
    OBVIOUS
  <2>1. PICK m \in 1 .. k : ops[i].temp_id = sv[m].temp_id
    BY <1>2 DEF NamedOnce
  <2>2. m = k + 1
    BY <1>2, <2>1 DEF DistinctIds
  <2>3. QED
    BY <2>1, <2>2
<1>4. ASSUME NEW i \in 1 .. Len(t), Introduces(t, i)
      PROVE  \E m \in 1 .. k + 1 : t[i].temp_id = sv[m].temp_id
  <2>1. CASE i \in 1 .. Len(ops)
    <3>1. PICK m \in 1 .. k : ops[i].temp_id = sv[m].temp_id
      BY <1>2, <1>4, <2>1 DEF NamedOnce
    <3>2. m \in 1 .. k + 1 /\ t[i].temp_id = sv[m].temp_id
      BY <1>2, <2>1, <3>1
    <3>3. QED
      BY <3>2
  <2>2. CASE i = Len(ops) + 1
    <3>1. k + 1 \in 1 .. k + 1 /\ t[i].temp_id = sv[k + 1].temp_id
      BY <1>1, <2>2
    <3>2. QED
      BY <3>1
  <2>3. QED
    BY <1>1, <2>1, <2>2
<1>5. ASSUME NEW i \in 1 .. Len(t), NEW j \in 1 .. Len(t), Introduces(t, i), Introduces(t, j),
             t[i].temp_id = t[j].temp_id
      PROVE  i = j
  <2>1. CASE i \in 1 .. Len(ops) /\ j \in 1 .. Len(ops)
    BY <1>2, <1>5, <2>1 DEF NamedOnce
  <2>2. CASE i = Len(ops) + 1 \/ j = Len(ops) + 1
    BY <1>1, <1>3, <1>5, <2>2
  <2>3. QED
    BY <1>1, <2>1, <2>2
<1>6. QED
  BY <1>4, <1>5 DEF NamedOnce

\* The ops after the first k survivors.
EntitiesSound(g, sv, answers, ops, k) ==
    /\ AllSound(g, ops)
    /\ NamedOnce(ops, sv, k)
    /\ \A m \in 1 .. k : ResolveEntity(g, sv[m], answers).id = None => Created(ops, sv[m].temp_id)
    /\ \A m \in 1 .. k : Guessed(ResolveEntity(g, sv[m], answers)) => Merged(ops, sv[m].temp_id)

LEMMA EntityStep ==
    ASSUME NEW g, GraphOK(g), NEW sv \in Seq(SurvivorRecords), DistinctIds(sv),
           NEW answers, AnswersSound(g, sv, answers),
           NEW k \in Nat, k < Len(sv), NEW ops, EntitiesSound(g, sv, answers, ops, k),
           NEW new_type \in BOOLEAN,
           NEW t, t = EntityOps(g, ops, sv[k + 1], ResolveEntity(g, sv[k + 1], answers), new_type)
    PROVE  EntitiesSound(g, sv, answers, t, k + 1)
<1>1. /\ k + 1 \in 1 .. Len(sv) /\ Len(sv) \in Nat
      /\ \A m \in 1 .. k : m \in 1 .. Len(sv)
      /\ \A m \in 1 .. k + 1 : m \in 1 .. k \/ m = k + 1
  OBVIOUS
<1>2. PICK e \in SurvivorRecords, match \in {ResolveEntity(g, sv[k + 1], answers)} :
        e = sv[k + 1] /\ match = ResolveEntity(g, e, answers)
  BY <1>1, ElementOfSeq
<1>3. MatchSound(g, e, match)
  BY <1>1, <1>2, ResolveEntityOK
<1>4. t = EntityOps(g, ops, e, match, new_type)
  BY <1>2
<1>5. AllSound(g, ops) /\ IsSequence(ops) /\ NamedOnce(ops, sv, k)
  BY DEF EntitiesSound, AllSound
<1>6. ASSUME Alike(ops, t)
      PROVE  \A m \in 1 .. k :
                /\ ResolveEntity(g, sv[m], answers).id = None => Created(t, sv[m].temp_id)
                /\ Guessed(ResolveEntity(g, sv[m], answers)) => Merged(t, sv[m].temp_id)
  BY <1>6, CreatedAlike, MergedAlike DEF EntitiesSound
<1>7. CASE match.id = None
  <2>1. t = Append(ops, Create(e, new_type)) /\ FindByName(g, e.name) = {}
    BY <1>3, <1>4, <1>7 DEF EntityOps, MatchSound
  <2>2. AllSound(g, t)
    BY <1>5, <2>1, CreateStep
  <2>3. /\ Create(e, new_type).kind = "CreateNode"
        /\ Create(e, new_type).temp_id = sv[k + 1].temp_id
    <3>1. IsCreate(Create(e, new_type), e, new_type)
      BY CreateIs
    <3>2. QED
      BY <1>2, <3>1 DEF IsCreate
  <2>4. NamedOnce(t, sv, k + 1)
    BY <1>1, <1>5, <2>1, <2>3, NamedAppended
  <2>5. t[Len(ops) + 1] = Create(e, new_type) /\ Len(ops) + 1 \in 1 .. Len(t) /\ Begins(ops, t)
    BY <1>5, <2>1, AppendAny DEF Begins
  <2>6. Created(t, sv[k + 1].temp_id)
    BY <2>3, <2>5 DEF Created
  <2>7. Alike(ops, t)
    BY <2>5, BeginsAlike
  <2>8. ~Guessed(ResolveEntity(g, sv[k + 1], answers))
    BY <1>2, <1>7 DEF Guessed
  <2>9. QED
    BY <1>1, <1>6, <2>2, <2>4, <2>6, <2>7, <2>8 DEF EntitiesSound
<1>8. CASE match.id # None
  <2>1. match.id \in DOMAIN g.node /\ match.score \in 0 .. 100
    BY <1>3, <1>8 DEF MatchSound
  <2>2. PICK gain \in {ExtendProps(match.id, g.node[match.id], e)} :
            GainSound(gain, match.id, g.node[match.id].description, e)
    <3>1. g.node[match.id].description \in Descriptions /\ g.node[match.id].attr \in Values
      BY <2>1 DEF GraphOK, IsGraph
    <3>2. QED
      BY <3>1, ExtendPropsOK
  <2>3. \E merged, deps :
            /\ AllSound(g, merged) /\ NamedOnce(merged, sv, k + 1) /\ Alike(ops, merged)
            /\ Merges(merged, deps)
            /\ Guessed(match) => Merged(merged, sv[k + 1].temp_id)
            /\ t = ProposeUpdate(merged, match.id, gain, e, deps, match.score, new_type)
    <3>1. CASE match.method = "rules"
      <4>1. t = ProposeUpdate(ops, match.id, gain, e, {}, match.score, new_type)
        BY <1>4, <1>8, <2>2, <3>1 DEF EntityOps
      <4>2. Alike(ops, ops)
        <5>1. Len(ops) \in Nat
          BY <1>5, AppendAny DEF Begins
        <5>2. QED
          BY <5>1 DEF Alike
      <4>3. Merges(ops, {}) /\ NamedOnce(ops, sv, k + 1)
        BY <1>5, NamedNext DEF Merges
      <4>4. QED
        BY <1>5, <3>1, <4>1, <4>2, <4>3 DEF Guessed
    <3>2. CASE match.method # "rules"
      <4>1. PICK merged \in {Append(ops, Merge(e, match, new_type))} :
                /\ merged = Append(ops, Merge(e, match, new_type))
                /\ t = ProposeUpdate(merged, match.id, gain, e, {Len(merged)}, match.score,
                                     new_type)
        BY <1>4, <1>8, <2>2, <3>2 DEF EntityOps
      <4>2. AllSound(g, merged)
        BY <1>5, <2>1, <4>1, MergeStep
      <4>3. /\ Merge(e, match, new_type).kind = "MergeInto"
            /\ Merge(e, match, new_type).temp_id = sv[k + 1].temp_id
        <5>1. IsMerge(Merge(e, match, new_type), e, match, new_type)
          BY MergeIs
        <5>2. QED
          BY <1>2, <5>1 DEF IsMerge
      <4>4. NamedOnce(merged, sv, k + 1)
        BY <1>1, <1>5, <4>1, <4>3, NamedAppended
      <4>5. /\ merged[Len(ops) + 1] = Merge(e, match, new_type) /\ Len(merged) = Len(ops) + 1
            /\ Len(merged) \in 1 .. Len(merged) /\ Begins(ops, merged)
        BY <1>5, <4>1, AppendAny DEF Begins
      <4>6. Merges(merged, {Len(merged)})
        BY <4>3, <4>5 DEF Merges
      <4>7. Merged(merged, sv[k + 1].temp_id)
        BY <4>3, <4>5 DEF Merged
      <4>8. QED
        BY <4>1, <4>2, <4>4, <4>5, <4>6, <4>7, BeginsAlike
    <3>3. QED
      BY <3>1, <3>2
  <2>4. PICK merged, deps :
            /\ AllSound(g, merged) /\ NamedOnce(merged, sv, k + 1) /\ Alike(ops, merged)
            /\ Merges(merged, deps)
            /\ Guessed(match) => Merged(merged, sv[k + 1].temp_id)
            /\ t = ProposeUpdate(merged, match.id, gain, e, deps, match.score, new_type)
    BY <2>3
  <2>5. Grown(g, merged, t)
    BY <2>1, <2>2, <2>4, UpdateStep
  <2>6. NamedOnce(t, sv, k + 1) /\ AllSound(g, t)
    <3>1. AllSound(g, t)
      BY <2>5 DEF Grown
    <3>2. QED
      BY <1>1, <2>4, <2>5, <3>1, NamedGrown
  <2>7. /\ Alike(ops, t)
        /\ Guessed(match) => Merged(t, sv[k + 1].temp_id)
    <3>1. Alike(merged, t)
      BY <2>5 DEF Grown
    <3>2. QED
      BY <2>4, <3>1, AlikeTransitive, MergedAlike
  <2>8. /\ ResolveEntity(g, sv[k + 1], answers).id # None
        /\ ResolveEntity(g, sv[k + 1], answers) = match
    BY <1>2, <1>8
  <2>9. QED
    BY <1>1, <1>6, <2>6, <2>7, <2>8 DEF EntitiesSound
<1>9. QED
  BY <1>7, <1>8

LEMMA EntityPatchUpTo ==
    ASSUME NEW g, NEW sv \in Seq(SurvivorRecords), NEW types, NEW answers
    PROVE  /\ EntityPatch(g, sv, types, answers)[0] = <<>>
           /\ \A k \in 1 .. Len(sv) :
                EntityPatch(g, sv, types, answers)[k]
                    = EntityOps(g, EntityPatch(g, sv, types, answers)[k - 1], sv[k],
                                ResolveEntity(g, sv[k], answers), sv[k].entity_type \in types)
<1> DEFINE Step(r, i) == EntityOps(g, r, sv[i], ResolveEntity(g, sv[i], answers),
                                   sv[i].entity_type \in types)
           Ok(f, n) == f = [k \in 0 .. n |-> IF k = 0 THEN <<>> ELSE Step(f[k - 1], k)]
           T == {n \in Nat : \E f : Ok(f, n)}
           patch == EntityPatch(g, sv, types, answers)
<1>1. 0 \in T
  <2>1. Ok([k \in 0 .. 0 |-> <<>>], 0)
    OBVIOUS
  <2>2. QED
    BY <2>1
<1>2. ASSUME NEW n \in Nat, n \in T PROVE n + 1 \in T
  <2>1. PICK f : Ok(f, n)
    BY <1>2
  <2> DEFINE h == [k \in 0 .. n + 1 |-> IF k <= n THEN f[k] ELSE Step(f[n], n + 1)]
  <2> HIDE DEF Step
  <2>2. Ok(h, n + 1)
    BY <2>1
  <2> HIDE DEF h, Ok
  <2>3. QED
    BY <2>2
<1>3. Len(sv) \in Nat
  OBVIOUS
<1>4. patch = CHOOSE f : Ok(f, Len(sv))
  BY DEF EntityPatch
<1> HIDE DEF patch
<1>5. Ok(patch, Len(sv))
  <2> HIDE DEF Ok
  <2>1. QED
    BY <1>1, <1>2, <1>3, <1>4, SetInduction
<1>6. patch[0] = <<>> /\ \A k \in 1 .. Len(sv) : patch[k] = Step(patch[k - 1], k)
  <2> HIDE DEF Step
  <2>1. QED
    BY <1>3, <1>5
<1>7. QED
  BY <1>6 DEF patch

LEMMA EntityPatchOK ==
    ASSUME NEW g, GraphOK(g), NEW sv \in Seq(SurvivorRecords), DistinctIds(sv),
           NEW answers, AnswersSound(g, sv, answers), NEW types
    PROVE  EntitiesSound(g, sv, answers, EntityPatch(g, sv, types, answers)[Len(sv)], Len(sv))
<1> DEFINE f == EntityPatch(g, sv, types, answers)
           T == {k \in Nat : EntitiesSound(g, sv, answers, f[k], k)}
<1>1. /\ f[0] = <<>> /\ Len(sv) \in Nat
      /\ \A k \in 1 .. Len(sv) :
            f[k] = EntityOps(g, f[k - 1], sv[k], ResolveEntity(g, sv[k], answers),
                             sv[k].entity_type \in types)
  BY EntityPatchUpTo
<1> HIDE DEF f
<1>2. EntitiesSound(g, sv, answers, f[0], 0)
  <2>1. IsSequence(<<>>) /\ Len(<<>>) = 0
    <3>1. <<>> \in Seq({})
      OBVIOUS
    <3>2. QED
      BY <3>1 DEF IsSequence
  <2>2. QED
    BY <1>1, <2>1 DEF EntitiesSound, AllSound, NamedOnce
<1>3. ASSUME NEW k \in Nat, k < Len(sv), EntitiesSound(g, sv, answers, f[k], k)
      PROVE  EntitiesSound(g, sv, answers, f[k + 1], k + 1)
  <2>1. k + 1 \in 1 .. Len(sv) /\ (k + 1) - 1 = k
    BY <1>1, <1>3
  <2>2. f[k + 1] = EntityOps(g, f[k], sv[k + 1], ResolveEntity(g, sv[k + 1], answers),
                             sv[k + 1].entity_type \in types)
    BY <1>1, <2>1
  <2>3. (sv[k + 1].entity_type \in types) \in BOOLEAN
    OBVIOUS
  <2>4. PICK b \in BOOLEAN : b = (sv[k + 1].entity_type \in types)
    BY <2>3
  <2>5. QED
    BY <1>3, <2>2, <2>4, EntityStep
<1>4. 0 \in T /\ \A k \in Nat : k < Len(sv) /\ k \in T => k + 1 \in T
  BY <1>2, <1>3
<1>5. Len(sv) \in T
  <2> HIDE DEF T
  <2>1. QED
    BY <1>1, <1>4, UpToInduction
<1>6. QED
  BY <1>5 DEF f

LEMMA SetToSeqOK ==
    ASSUME NEW S, IsFiniteSet(S)
    PROVE  SetToSeq(S) \in Seq(S)
<1>1. Cardinality(S) \in Nat /\ ExistsBijection(1 .. Cardinality(S), S)
  BY FS_CardinalityType
<1>2. \E f \in [1 .. Cardinality(S) -> S] : IsInjective(f)
  BY <1>1 DEF ExistsBijection, Bijection, Injection
<1>3. SetToSeq(S) \in [1 .. Cardinality(S) -> S]
  BY <1>2 DEF SetToSeq
<1>4. QED
  BY <1>1, <1>3, FunctionIsSeq

-----------------------------------------------------------------------------
(* The ops of the relations. *)

\* Ops more, at the end.
LEMMA ConcatSound ==
    ASSUME NEW g, NEW ops, AllSound(g, ops), NEW u, IsSequence(u), NEW t, t = ops \o u,
           Begins(ops, t) => \A i \in 1 .. Len(u) : OpSound(g, t, Len(ops) + i)
    PROVE  AllSound(g, t)
<1>1. /\ IsSequence(t) /\ Begins(ops, t)
      /\ \A i \in 1 .. Len(t) : i \in 1 .. Len(ops) \/ \E j \in 1 .. Len(u) : i = Len(ops) + j
  <2>1. IsSequence(ops)
    BY DEF AllSound
  <2>2. IsSequence(t) /\ Begins(ops, t)
    BY <2>1, ConcatAny
  <2>3. ASSUME NEW i \in 1 .. Len(t)
        PROVE  i \in 1 .. Len(ops) \/ \E j \in 1 .. Len(u) : i = Len(ops) + j
    <3>1. Len(ops) \in Nat /\ Len(u) \in Nat /\ Len(t) = Len(ops) + Len(u)
      BY <2>1, ConcatAny
    <3>2. CASE i <= Len(ops)
      BY <3>1, <3>2
    <3>3. CASE i > Len(ops)
      <4>1. i - Len(ops) \in 1 .. Len(u) /\ i = Len(ops) + (i - Len(ops))
        BY <3>1, <3>3
      <4>2. QED
        BY <4>1
    <3>4. QED
      BY <3>1, <3>2, <3>3
  <2>4. QED
    BY <2>2, <2>3
<1>2. ASSUME NEW i \in 1 .. Len(ops) PROVE OpSound(g, t, i)
  <2>1. Alike(ops, t) /\ t[i] = ops[i]
    BY <1>1, BeginsAlike DEF Begins
  <2>2. QED
    BY <2>1, OpAlike DEF AllSound
<1>3. QED
  BY <1>1, <1>2 DEF AllSound

\* What an edge waits for introduces its ends, where they are not in g.
DepsSound(g, ops, r, s, o, deps) ==
    /\ \A j \in deps : j \in 1 .. Len(ops) /\ ops[j].kind = "CreateNode"
    /\ RefSound(g, ops, deps, s)
    /\ RefSound(g, ops, deps, o)

JudgedSound(g, r, s, o, verdict) ==
    \A e \in Colliding(g, r, s, o) :
        /\ verdict[<<RelationKey(r), e>>].verdict \in Verdicts
        /\ verdict[<<RelationKey(r), e>>].score \in Confidences

OfEntity(ops, i) == ops[i].kind \in {"CreateNode", "MergeInto", "UpdateNodeProps"}

OnEdges(u) == \A i \in 1 .. Len(u) : ~OfEntity(u, i)

\* The ops of a relation join those before.
Joins(g, ops, u) ==
    /\ IsSequence(u)
    /\ OnEdges(u)
    /\ AllSound(g, ops \o u)

LEMMA ReinforceStep ==
    ASSUME NEW g, GraphOK(g), NEW ops, AllSound(g, ops), NEW r \in RelationRecords,
           NEW s, NEW o, NEW exact, exact = EdgesBetween(g, s.canonical_id, o.canonical_id, r.predicate),
           exact # {},
           NEW u, u = <<Reinforce(r, CHOOSE e \in exact : TRUE)>>
    PROVE  Joins(g, ops, u)
<1>1. PICK e \in exact : e = CHOOSE x \in exact : TRUE
  OBVIOUS
<1>2. e \in CurrentEdges(g)
  BY <1>1 DEF EdgesBetween, EdgesFrom
<1> DEFINE x == Reinforce(r, e)
<1>3. u = <<x>>
  BY <1>1
<1>4. IsReinforce(x, r, e)
  BY ReinforceIs
<1> HIDE DEF x
<1>5. IsSequence(u) /\ Len(u) = 1 /\ u[1] = x
  <2>1. u \in Seq({x})
    BY <1>3
  <2>2. IsSequence(u)
    BY <2>1 DEF IsSequence
  <2>3. QED
    BY <1>3, <2>2
<1>6. \A i \in 1 .. Len(u) : i = 1 /\ u[i] = x
  BY <1>5
<1>7. Signals(x)
  <2>1. x.resolution \in 0 .. 100
    BY <1>4 DEF IsReinforce
  <2>2. QED
    BY <1>4, <2>1 DEF Signals, IsReinforce, RelationRecords
<1>8. EdgeOpSound(g, x)
  BY <1>2, <1>4 DEF EdgeOpSound, IsReinforce
<1>9. PICK t : t = ops \o u
  OBVIOUS
<1>10. t[Len(ops) + 1] = x
  BY <1>5, <1>9, ConcatAny DEF AllSound
<1>11. OpSound(g, t, Len(ops) + 1)
  BY <1>4, <1>7, <1>8, <1>10 DEF OpSound, Kinds, IsReinforce
<1>12. AllSound(g, t)
  BY <1>5, <1>6, <1>9, <1>11, ConcatSound
<1>13. OnEdges(u)
  BY <1>4, <1>6 DEF OnEdges, OfEntity, IsReinforce
<1>14. QED
  BY <1>5, <1>9, <1>12, <1>13 DEF Joins

\* The ops of a new fact: an assertion, then the edges it closes.
Closings(u, a, r, g) ==
    /\ IsSequence(u) /\ Len(u) \in Nat \ {0} /\ u[1] = a
    /\ \A i \in 1 .. Len(u) : i # 1 =>
            \E e \in CurrentEdges(g) : \E j : /\ j.verdict \in Verdicts /\ j.score \in Confidences
                                              /\ IsInvalidate(u[i], r, e, j)

LEMMA ClosingStep ==
    ASSUME NEW g, GraphOK(g), NEW ops, AllSound(g, ops), NEW r \in RelationRecords,
           NEW s, NEW o, NEW deps, DepsSound(g, ops, r, s, o, deps),
           EdgesBetween(g, s.canonical_id, o.canonical_id, r.predicate) = {},
           NEW semantic \in BOOLEAN, NEW a, IsAssert(a, r, s, o, deps, semantic),
           NEW u, Closings(u, a, r, g)
    PROVE  Joins(g, ops, u)
<1>1. PICK t : t = ops \o u
  OBVIOUS
<1>2. /\ IsSequence(u) /\ Len(u) \in Nat \ {0} /\ Len(ops) \in Nat
      /\ Begins(ops, t) /\ Len(t) = Len(ops) + Len(u)
      /\ \A i \in 1 .. Len(u) : Len(ops) + i \in 1 .. Len(t) /\ t[Len(ops) + i] = u[i]
  <2>1. IsSequence(ops) /\ IsSequence(u) /\ Len(u) \in Nat \ {0}
    BY DEF AllSound, Closings
  <2>2. QED
    BY <1>1, <2>1, ConcatAny DEF Begins
<1>3. Alike(ops, t)
  BY <1>2, BeginsAlike
<1>4. \A i \in 1 .. Len(u) : i # 1 => u[i].kind = "InvalidateEdge"
  BY DEF Closings, IsInvalidate
<1>5. t[Len(ops) + 1] = a /\ Len(ops) + 1 \in 1 .. Len(t)
  <2>1. 1 \in 1 .. Len(u)
    BY <1>2
  <2>2. QED
    BY <1>2, <2>1 DEF Closings
<1>6. OpSound(g, t, Len(ops) + 1)
  <2>1. Signals(a)
    <3>1. a.resolution \in 0 .. 100
      BY DEF IsAssert
    <3>2. QED
      BY <3>1 DEF Signals, IsAssert, RelationRecords
  <2>2. RefSound(g, t, deps, s) /\ RefSound(g, t, deps, o)
    BY <1>3, RefAlike DEF DepsSound
  <2>3. \A j \in deps : j \in 1 .. Len(t) /\ t[j].kind = "CreateNode"
    BY <1>3 DEF DepsSound, Alike
  <2>4. r.predicate \in Labels /\ r.valid_from \in Dates
    BY DEF RelationRecords
  <2>5. AssertSound(g, t, a)
    BY <2>2, <2>3, <2>4 DEF AssertSound, IsAssert
  <2>6. a.kind = "AssertEdge"
    BY DEF IsAssert
  <2>7. QED
    BY <1>5, <2>1, <2>5, <2>6 DEF OpSound, Kinds
<1>7. ASSUME NEW i \in 1 .. Len(u), i # 1
      PROVE  OpSound(g, t, Len(ops) + i)
  <2>1. PICK e, j : /\ e \in CurrentEdges(g)
                    /\ j.verdict \in Verdicts /\ j.score \in Confidences
                    /\ IsInvalidate(u[i], r, e, j)
    BY <1>7 DEF Closings
  <2>2. t[Len(ops) + i] = u[i]
    BY <1>2
  <2>3. Signals(u[i])
    <3>1. j.score \in 0 .. 100
      BY <2>1, ResolutionAssumption DEF Percent
    <3>2. QED
      BY <2>1, <3>1 DEF Signals, IsInvalidate, RelationRecords
  <2>4. EdgeOpSound(g, u[i])
    BY <2>1 DEF EdgeOpSound, IsInvalidate
  <2>5. u[i].valid_to \in Nat /\ (r.valid_from # None => u[i].valid_to = r.valid_from)
    <3>1. r.valid_from \in Nat \cup {None}
      BY DEF RelationRecords, Dates
    <3>2. Today \in Nat
      BY ResolutionAssumption
    <3>3. QED
      BY <2>1, <3>1, <3>2 DEF IsInvalidate
  <2>6. CloseSound(t, Len(ops) + i)
    <3>1. Len(ops) + 1 \in 1 .. (Len(ops) + i) - 1
      BY <1>2, <1>7
    <3>2. a.kind = "AssertEdge" /\ a.valid_from = r.valid_from
      BY DEF IsAssert
    <3>3. ASSUME NEW k \in (Len(ops) + 1) + 1 .. Len(ops) + i
          PROVE  t[k].kind = "InvalidateEdge"
      <4>1. k - Len(ops) \in 1 .. Len(u) /\ k - Len(ops) # 1 /\ Len(ops) + (k - Len(ops)) = k
        BY <1>2
      <4>2. QED
        BY <1>2, <1>4, <4>1
    <3>4. QED
      BY <1>5, <2>2, <2>5, <3>1, <3>2, <3>3 DEF CloseSound
  <2>7. u[i].kind = "InvalidateEdge"
    BY <1>4, <1>7
  <2>8. QED
    BY <2>2, <2>3, <2>4, <2>6, <2>7 DEF OpSound, Kinds
<1>8. \A i \in 1 .. Len(u) : OpSound(g, t, Len(ops) + i)
  BY <1>6, <1>7
<1>9. AllSound(g, t)
  BY <1>1, <1>2, <1>8, ConcatSound
<1>10. OnEdges(u)
  <2>1. u[1].kind = "AssertEdge"
    BY DEF Closings, IsAssert
  <2>2. QED
    BY <1>4, <2>1 DEF OnEdges, OfEntity
<1>11. QED
  BY <1>1, <1>2, <1>9, <1>10 DEF Joins

Leads(a, v, u) ==
    /\ IsSequence(u) /\ Len(u) = 1 + Len(v) /\ u[1] = a
    /\ \A i \in 1 .. Len(v) : u[1 + i] = v[i]

LEMMA LedBy ==
    ASSUME NEW a, NEW v, IsSequence(v), NEW u, u = <<a>> \o v
    PROVE  Leads(a, v, u)
<1>1. PICK w : w = <<a>>
  OBVIOUS
<1>2. IsSequence(w)
  <2>1. w \in Seq({a})
    BY <1>1
  <2>2. QED
    BY <2>1 DEF IsSequence
<1>3. Len(w) = 1 /\ w[1] = a /\ u = w \o v
  BY <1>1
<1>4. Begins(w, u) /\ IsSequence(u) /\ Len(u) = Len(w) + Len(v)
  BY <1>2, <1>3, ConcatAny
<1>5. \A i \in 1 .. Len(v) : u[Len(w) + i] = v[i]
  BY <1>2, <1>3, ConcatAny
<1>6. u[1] = a
  BY <1>3, <1>4 DEF Begins
<1>7. QED
  BY <1>3, <1>4, <1>5, <1>6 DEF Leads

\* The ops of one relation: the same fact is reinforced, or it is asserted and what
\* it supersedes is closed.
LEMMA CorrelateShape ==
    ASSUME NEW g, GraphOK(g), NEW r \in RelationRecords, NEW s, NEW o, NEW deps, NEW verdict,
           NEW exact, exact = EdgesBetween(g, s.canonical_id, o.canonical_id, r.predicate),
           exact = {} => JudgedSound(g, r, s, o, verdict),
           NEW u, u = Correlate(g, r, s, o, deps, verdict)
    PROVE  \/ exact # {} /\ u = <<Reinforce(r, CHOOSE e \in exact : TRUE)>>
           \/ /\ exact = {}
              /\ \E semantic \in BOOLEAN :
                    /\ IsAssert(u[1], r, s, o, deps, semantic)
                    /\ Closings(u, u[1], r, g)
<1> DEFINE judgment(e) == verdict[<<RelationKey(r), e>>]
           judged(v) == {e \in Colliding(g, r, s, o) : judgment(e).verdict = v}
           S == judged("temporal_supersession") \cup judged("semantic_conflict")
           closed == SetToSeq(S)
           semantic == judged("semantic_conflict") # {}
           a == AssertFact(r, s, o, deps, semantic)
           v == [i \in DOMAIN closed |-> Invalidate(r, closed[i], judgment(closed[i]))]
<1>1. CASE exact # {}
  <2>1. u = <<Reinforce(r, CHOOSE e \in exact : TRUE)>>
    BY <1>1 DEF Correlate
  <2>2. QED
    BY <1>1, <2>1
<1>2. CASE exact = {}
  <2>1. u = <<a>> \o v
    BY <1>2 DEF Correlate
  <2>2. IsFiniteSet(S) /\ S \subseteq CurrentEdges(g) /\ S \subseteq Colliding(g, r, s, o)
    <3>1. Colliding(g, r, s, o) \subseteq CurrentEdges(g)
      BY DEF Colliding, EdgesFrom, EdgesTo
    <3>2. CurrentEdges(g) \subseteq DOMAIN g.edge /\ IsFiniteSet(DOMAIN g.edge)
      BY DEF CurrentEdges, GraphOK, IsGraph
    <3>3. S \subseteq Colliding(g, r, s, o)
      OBVIOUS
    <3> HIDE DEF S
    <3>4. S \in SUBSET DOMAIN g.edge
      BY <3>1, <3>2, <3>3
    <3>5. QED
      BY <3>1, <3>2, <3>3, <3>4, FS_Subset
  <2> HIDE DEF S
  <2>3. closed \in Seq(S) /\ DOMAIN closed = 1 .. Len(closed) /\ Len(closed) \in Nat
    <3>1. closed \in Seq(S)
      BY <2>2, SetToSeqOK
    <3> HIDE DEF closed
    <3>2. QED
      BY <3>1
  <2> HIDE DEF closed
  <2>4. \A i \in 1 .. Len(closed) : closed[i] \in S
    BY <2>3, ElementOfSeq
  <2>5. IsAssert(a, r, s, o, deps, semantic) /\ semantic \in BOOLEAN
    <3>1. semantic \in BOOLEAN
      OBVIOUS
    <3> HIDE DEF semantic
    <3>2. QED
      BY <3>1, AssertIs
  <2> HIDE DEF a, semantic
  <2>6. /\ IsSequence(v) /\ Len(v) = Len(closed)
        /\ \A i \in 1 .. Len(closed) :
                \E e \in CurrentEdges(g) : \E j : /\ j.verdict \in Verdicts /\ j.score \in Confidences
                                                  /\ IsInvalidate(v[i], r, e, j)
    <3>1. v \in [1 .. Len(closed) -> {v[i] : i \in 1 .. Len(closed)}]
      BY <2>3
    <3>2. ASSUME NEW i \in 1 .. Len(closed)
          PROVE  \E e \in CurrentEdges(g) : \E j : /\ j.verdict \in Verdicts /\ j.score \in Confidences
                                                   /\ IsInvalidate(v[i], r, e, j)
      <4>1. PICK e \in S : e = closed[i]
        BY <2>4
      <4>2. PICK j : j = judgment(e)
        OBVIOUS
      <4>3. v[i] = Invalidate(r, e, j)
        BY <2>3, <4>1, <4>2
      <4>4. IsInvalidate(v[i], r, e, j)
        BY <4>3, InvalidateIs
      <4>5. j.verdict \in Verdicts /\ j.score \in Confidences
        BY <1>2, <2>2, <4>2 DEF JudgedSound
      <4>6. QED
        BY <2>2, <4>4, <4>5
    <3> HIDE DEF v
    <3>3. v \in Seq({v[i] : i \in 1 .. Len(closed)}) /\ Len(v) = Len(closed)
      BY <2>3, <3>1, FunctionIsSeq
    <3>4. QED
      BY <3>2, <3>3 DEF IsSequence
  <2> HIDE DEF v
  <2>9. /\ IsSequence(u) /\ Len(u) = 1 + Len(v) /\ u[1] = a
        /\ \A i \in 1 .. Len(v) : u[1 + i] = v[i]
    <3>1. IsSequence(v)
      BY <2>6
    <3>2. Leads(a, v, u)
      BY <2>1, <3>1, LedBy
    <3>3. QED
      BY <3>2 DEF Leads
  <2>10. Closings(u, a, r, g)
    <3>1. Len(u) \in Nat \ {0}
      BY <2>3, <2>6, <2>9
    <3>2. ASSUME NEW i \in 1 .. Len(u), i # 1
          PROVE  \E e \in CurrentEdges(g) : \E j : /\ j.verdict \in Verdicts /\ j.score \in Confidences
                                                   /\ IsInvalidate(u[i], r, e, j)
      <4>1. i - 1 \in 1 .. Len(v) /\ 1 + (i - 1) = i
        BY <2>3, <2>6, <2>9, <3>2
      <4>2. u[i] = v[i - 1] /\ i - 1 \in 1 .. Len(closed)
        BY <2>6, <2>9, <4>1
      <4>3. QED
        BY <2>6, <4>2
    <3>3. QED
      BY <2>9, <3>1, <3>2 DEF Closings
  <2>11. QED
    BY <1>2, <2>5, <2>9, <2>10
<1>3. QED
  BY <1>1, <1>2

LEMMA CorrelateStep ==
    ASSUME NEW g, GraphOK(g), NEW ops, AllSound(g, ops), NEW r \in RelationRecords,
           NEW s, NEW o, NEW deps, DepsSound(g, ops, r, s, o, deps), NEW verdict,
           EdgesBetween(g, s.canonical_id, o.canonical_id, r.predicate) = {} =>
                JudgedSound(g, r, s, o, verdict),
           NEW u, u = Correlate(g, r, s, o, deps, verdict)
    PROVE  Joins(g, ops, u)
<1>1. PICK exact : exact = EdgesBetween(g, s.canonical_id, o.canonical_id, r.predicate)
  OBVIOUS
<1>2. CASE exact # {} /\ u = <<Reinforce(r, CHOOSE e \in exact : TRUE)>>
  BY <1>1, <1>2, ReinforceStep
<1>3. CASE /\ exact = {}
           /\ \E semantic \in BOOLEAN :
                /\ IsAssert(u[1], r, s, o, deps, semantic)
                /\ Closings(u, u[1], r, g)
  BY <1>1, <1>3, ClosingStep
<1>4. QED
  BY <1>1, <1>2, <1>3, CorrelateShape

\* What the ops of the entities leave to refer to.
LEMMA RefersOK ==
    ASSUME NEW g, GraphOK(g), NEW sv \in Seq(SurvivorRecords), DistinctIds(sv),
           NEW answers, AnswersSound(g, sv, answers),
           NEW ops, EntitiesSound(g, sv, answers, ops, Len(sv)),
           NEW t \in TempIds(sv), NEW ts, t \in ts,
           NEW ref, ref = Refers(g, sv, answers, t)
    PROVE  RefSound(g, ops, Creators(ops, ts), ref)
<1>1. PICK k \in 1 .. Len(sv) : k = PlaceOf(sv, t) /\ sv[k].temp_id = t
  BY PlaceOfTempId
<1>2. PICK m : m = ResolveEntity(g, sv[k], answers)
  OBVIOUS
<1>3. MatchSound(g, sv[k], m)
  BY <1>2, ResolveEntityOK
<1>4. ref = IF m.id = None THEN Ref(t, None) ELSE Ref(None, m.id)
  BY <1>1, <1>2 DEF Refers, PlaceOf
<1>5. t \in Ids
  <2>1. sv[k] \in SurvivorRecords
    BY ElementOfSeq
  <2>2. QED
    BY <1>1, <2>1 DEF SurvivorRecords
<1>6. CASE m.id = None
  <2>1. Created(ops, t)
    BY <1>1, <1>2, <1>6 DEF EntitiesSound
  <2>2. PICK j \in 1 .. Len(ops) : ops[j].kind = "CreateNode" /\ ops[j].temp_id = t
    BY <2>1 DEF Created
  <2>3. DOMAIN ops = 1 .. Len(ops)
    <3>1. PICK S : ops \in Seq(S)
      BY DEF EntitiesSound, AllSound, IsSequence
    <3>2. QED
      BY <3>1
  <2>4. j \in Creators(ops, ts)
    BY <2>2, <2>3 DEF Creators
  <2>5. QED
    BY <1>4, <1>5, <1>6, <2>2, <2>4 DEF RefSound, Ref
<1>7. CASE m.id # None
  BY <1>3, <1>4, <1>7 DEF RefSound, Ref, MatchSound
<1>8. QED
  BY <1>6, <1>7

\* Each new relation is judged against each edge it contends with.
VerdictSound(g, sv, rs, answers, verdict) ==
    \A n \in 1 .. Len(rs) :
        LET s == Refers(g, sv, answers, rs[n].subject)
            o == Refers(g, sv, answers, rs[n].object)
        IN  EdgesBetween(g, s.canonical_id, o.canonical_id, rs[n].predicate) = {} =>
                JudgedSound(g, rs[n], s, o, verdict)

LEMMA VerdictOK ==
    ASSUME NEW g, NEW candidates, NEW answers,
           NEW verdict \in Adjudications(g, candidates, answers),
           NEW sv, sv = Survivors(candidates.entities),
           NEW S, NEW rs \in Seq(S),
           rs = MergedRelations(g, candidates.entities, candidates.relations)
    PROVE  VerdictSound(g, sv, rs, answers, verdict)
<1> DEFINE s(r) == Refers(g, sv, answers, r.subject)
           o(r) == Refers(g, sv, answers, r.object)
           new == {r \in ToSet(rs) : EdgesBetween(g, s(r).canonical_id, o(r).canonical_id,
                                                  r.predicate) = {}}
           pairs == UNION {{RelationKey(r)} \X Colliding(g, r, s(r), o(r)) : r \in new}
<1>1. verdict \in [pairs -> [verdict : Verdicts, score : Confidences]]
  BY DEF Adjudications
<1>2. SUFFICES ASSUME NEW n \in 1 .. Len(rs),
                      EdgesBetween(g, s(rs[n]).canonical_id, o(rs[n]).canonical_id,
                                   rs[n].predicate) = {}
               PROVE  JudgedSound(g, rs[n], s(rs[n]), o(rs[n]), verdict)
  BY DEF VerdictSound
<1>3. PICK r : r = rs[n]
  OBVIOUS
<1>4. r \in ToSet(rs)
  BY <1>3 DEF ToSet
<1>5. r \in new
  BY <1>2, <1>3, <1>4
<1>6. ASSUME NEW e \in Colliding(g, r, s(r), o(r))
      PROVE  /\ verdict[<<RelationKey(r), e>>].verdict \in Verdicts
             /\ verdict[<<RelationKey(r), e>>].score \in Confidences
  <2>1. <<RelationKey(r), e>> \in {RelationKey(r)} \X Colliding(g, r, s(r), o(r))
    OBVIOUS
  <2>2. <<RelationKey(r), e>> \in pairs
    <3> HIDE DEF new, s, o
    <3>1. QED
      BY <1>5, <2>1
  <2> HIDE DEF pairs
  <2>3. verdict[<<RelationKey(r), e>>] \in [verdict : Verdicts, score : Confidences]
    BY <1>1, <2>2
  <2>4. QED
    BY <2>3
<1>7. QED
  BY <1>3, <1>6 DEF JudgedSound

RelationByRelation(f, g, sv, rs, ops, answers, verdict) ==
    /\ f[0] = ops
    /\ \A k \in 1 .. Len(rs) :
        f[k] = f[k - 1] \o Correlate(g, rs[k], Refers(g, sv, answers, rs[k].subject),
                                     Refers(g, sv, answers, rs[k].object),
                                     Creators(ops, {rs[k].subject, rs[k].object}), verdict)

LEMMA RelationPatchUpTo ==
    ASSUME NEW g, NEW sv, NEW S, NEW rs \in Seq(S), NEW ops, NEW answers, NEW verdict
    PROVE  RelationByRelation(RelationPatch(g, sv, rs, ops, answers, verdict),
                              g, sv, rs, ops, answers, verdict)
<1> DEFINE Said(i) == Correlate(g, rs[i], Refers(g, sv, answers, rs[i].subject),
                                Refers(g, sv, answers, rs[i].object),
                                Creators(ops, {rs[i].subject, rs[i].object}), verdict)
           Step(r, i) == r \o Said(i)
           Ok(f, n) == f = [k \in 0 .. n |-> IF k = 0 THEN ops ELSE Step(f[k - 1], k)]
           T == {n \in Nat : \E f : Ok(f, n)}
           patch == RelationPatch(g, sv, rs, ops, answers, verdict)
<1>1. 0 \in T
  <2>1. Ok([k \in 0 .. 0 |-> ops], 0)
    OBVIOUS
  <2>2. QED
    BY <2>1
<1>2. ASSUME NEW n \in Nat, n \in T PROVE n + 1 \in T
  <2>1. PICK f : Ok(f, n)
    BY <1>2
  <2> DEFINE h == [k \in 0 .. n + 1 |-> IF k <= n THEN f[k] ELSE Step(f[n], n + 1)]
  <2> HIDE DEF Step
  <2>2. Ok(h, n + 1)
    BY <2>1
  <2> HIDE DEF h, Ok
  <2>3. QED
    BY <2>2
<1>3. Len(rs) \in Nat
  OBVIOUS
<1>4. patch = CHOOSE f : Ok(f, Len(rs))
  BY DEF RelationPatch
<1> HIDE DEF patch
<1>5. Ok(patch, Len(rs))
  <2> HIDE DEF Ok
  <2>1. QED
    BY <1>1, <1>2, <1>3, <1>4, SetInduction
<1>6. patch[0] = ops /\ \A k \in 1 .. Len(rs) : patch[k] = Step(patch[k - 1], k)
  <2> HIDE DEF Step
  <2>1. QED
    BY <1>3, <1>5
<1>7. QED
  BY <1>6 DEF patch, RelationByRelation

\* t has the ops of the entities, and then ops on edges only.
Continues(g, ops, t) ==
    /\ AllSound(g, t)
    /\ Begins(ops, t)
    /\ \A i \in 1 .. Len(t) : OfEntity(t, i) => i \in 1 .. Len(ops)

LEMMA ContinueStep ==
    ASSUME NEW g, NEW ops, NEW s, Continues(g, ops, s), NEW u, Joins(g, s, u), NEW t, t = s \o u
    PROVE  Continues(g, ops, t)
<1>1. AllSound(g, t) /\ IsSequence(u) /\ OnEdges(u)
  BY DEF Joins
<1>2. IsSequence(s) /\ Begins(ops, s)
  BY DEF Continues, AllSound
<1>3. /\ Begins(s, t)
      /\ \A i \in 1 .. Len(u) : t[Len(s) + i] = u[i]
  <2>1. Begins(s, t)
    BY <1>1, <1>2, ConcatAny
  <2>2. ASSUME NEW i \in 1 .. Len(u) PROVE t[Len(s) + i] = u[i]
    BY <1>1, <1>2, ConcatAny
  <2>3. QED
    BY <2>1, <2>2
<1>4. \A i \in 1 .. Len(t) : i \in 1 .. Len(s) \/ \E j \in 1 .. Len(u) : i = Len(s) + j
  BY <1>1, <1>2, ConcatAny
<1>5. Begins(ops, t)
  <2>1. Len(ops) \in Nat /\ Len(s) \in Nat /\ Len(t) \in Nat /\ Len(ops) <= Len(s) /\ Len(s) <= Len(t)
    BY <1>2, <1>3 DEF Begins
  <2>2. QED
    BY <1>2, <1>3, <2>1 DEF Begins
<1>6. ASSUME NEW i \in 1 .. Len(t), OfEntity(t, i)
      PROVE  i \in 1 .. Len(ops)
  <2>1. CASE i \in 1 .. Len(s)
    <3>1. OfEntity(s, i)
      BY <1>3, <1>6, <2>1 DEF Begins, OfEntity
    <3>2. QED
      BY <2>1, <3>1 DEF Continues
  <2>2. CASE \E j \in 1 .. Len(u) : i = Len(s) + j
    <3>1. PICK j \in 1 .. Len(u) : i = Len(s) + j
      BY <2>2
    <3>2. t[i] = u[j]
      BY <1>3, <3>1
    <3>3. QED
      BY <1>1, <1>6, <3>2 DEF OnEdges, OfEntity
  <2>3. QED
    BY <1>4, <2>1, <2>2
<1>7. QED
  BY <1>1, <1>5, <1>6 DEF Continues

\* What is true of a patch diffed with g.
PatchSound(g, ops) ==
    /\ AllSound(g, ops)
    /\ \A i, j \in 1 .. Len(ops) :
            Introduces(ops, i) /\ Introduces(ops, j) /\ ops[i].temp_id = ops[j].temp_id => i = j

LEMMA RelationsOK ==
    ASSUME NEW g, GraphOK(g), NEW sv \in Seq(SurvivorRecords), DistinctIds(sv),
           NEW answers, AnswersSound(g, sv, answers),
           NEW ops, EntitiesSound(g, sv, answers, ops, Len(sv)),
           NEW rs, MergedSound(rs, sv), NEW verdict, VerdictSound(g, sv, rs, answers, verdict)
    PROVE  \E t : /\ t = RelationPatch(g, sv, rs, ops, answers, verdict)[Len(rs)]
                  /\ Continues(g, ops, t)
                  /\ PatchSound(g, t)
<1> DEFINE f == RelationPatch(g, sv, rs, ops, answers, verdict)
           s(k) == Refers(g, sv, answers, rs[k].subject)
           o(k) == Refers(g, sv, answers, rs[k].object)
           deps(k) == Creators(ops, {rs[k].subject, rs[k].object})
           T == {k \in Nat : Continues(g, ops, f[k])}
<1>1. rs \in Seq(RelationRecords) /\ Len(rs) \in Nat
  BY DEF MergedSound
<1>2. /\ f[0] = ops
      /\ \A k \in 1 .. Len(rs) : f[k] = f[k - 1] \o Correlate(g, rs[k], s(k), o(k), deps(k), verdict)
  <2>1. RelationByRelation(f, g, sv, rs, ops, answers, verdict)
    BY <1>1, RelationPatchUpTo
  <2>2. QED
    BY <2>1 DEF RelationByRelation
<1> HIDE DEF f
<1>3. AllSound(g, ops) /\ NamedOnce(ops, sv, Len(sv)) /\ Len(ops) \in Nat
  <2>1. AllSound(g, ops) /\ NamedOnce(ops, sv, Len(sv))
    BY DEF EntitiesSound
  <2>2. QED
    BY <2>1, AppendAny DEF AllSound, Begins
<1>4. Continues(g, ops, f[0])
  BY <1>2, <1>3 DEF Continues, Begins
<1>5. ASSUME NEW k \in 1 .. Len(rs)
      PROVE  DepsSound(g, ops, rs[k], s(k), o(k), deps(k))
  <2>1. rs[k].subject \in TempIds(sv) /\ rs[k].object \in TempIds(sv)
    BY DEF MergedSound
  <2>2. RefSound(g, ops, deps(k), s(k))
    BY <2>1, RefersOK
  <2>3. RefSound(g, ops, deps(k), o(k))
    BY <2>1, RefersOK
  <2>4. \A j \in deps(k) : j \in 1 .. Len(ops) /\ ops[j].kind = "CreateNode"
    <3>1. PICK S : ops \in Seq(S)
      BY <1>3 DEF AllSound, IsSequence
    <3>2. DOMAIN ops = 1 .. Len(ops)
      BY <3>1
    <3>3. QED
      BY <3>2 DEF Creators
  <2>5. QED
    BY <2>2, <2>3, <2>4 DEF DepsSound
<1>6. ASSUME NEW k \in Nat, k < Len(rs), Continues(g, ops, f[k])
      PROVE  Continues(g, ops, f[k + 1])
  <2>1. k + 1 \in 1 .. Len(rs) /\ (k + 1) - 1 = k
    BY <1>1, <1>6
  <2>2. PICK n \in 1 .. Len(rs) : n = k + 1
    BY <2>1
  <2>3. PICK r \in RelationRecords : r = rs[n]
    BY <1>1, ElementOfSeq
  <2>4. PICK ss, oo, dd : ss = s(n) /\ oo = o(n) /\ dd = deps(n)
    OBVIOUS
  <2>5. DepsSound(g, ops, r, ss, oo, dd)
    BY <1>5, <2>3, <2>4
  <2>6. AllSound(g, f[k]) /\ Begins(ops, f[k]) /\ Alike(ops, f[k])
    BY <1>6, BeginsAlike DEF Continues
  <2>7. DepsSound(g, f[k], r, ss, oo, dd)
    <3>1. RefSound(g, f[k], dd, ss) /\ RefSound(g, f[k], dd, oo)
      BY <2>5, <2>6, RefAlike DEF DepsSound
    <3>2. QED
      BY <2>5, <2>6, <3>1 DEF DepsSound, Alike
  <2>8. EdgesBetween(g, ss.canonical_id, oo.canonical_id, r.predicate) = {} =>
            JudgedSound(g, r, ss, oo, verdict)
    BY <2>3, <2>4 DEF VerdictSound
  <2>9. PICK u : u = Correlate(g, r, ss, oo, dd, verdict)
    OBVIOUS
  <2>10. Joins(g, f[k], u)
    BY <2>6, <2>7, <2>8, <2>9, CorrelateStep
  <2>11. f[k + 1] = f[k] \o u
    BY <1>2, <2>1, <2>2, <2>3, <2>4, <2>9
  <2>12. QED
    BY <1>6, <2>10, <2>11, ContinueStep
<1>7. 0 \in T /\ \A k \in Nat : k < Len(rs) /\ k \in T => k + 1 \in T
  BY <1>4, <1>6
<1>8. Len(rs) \in T
  <2> HIDE DEF T
  <2>1. QED
    BY <1>1, <1>7, UpToInduction
<1>9. PICK t : t = f[Len(rs)]
  OBVIOUS
<1>10. Continues(g, ops, t)
  BY <1>8, <1>9
<1>11. \A i \in 1 .. Len(t) : Introduces(t, i) =>
            i \in 1 .. Len(ops) /\ Introduces(ops, i) /\ t[i].temp_id = ops[i].temp_id
  BY <1>10 DEF Continues, Begins, Introduces, OfEntity
<1>12. PatchSound(g, t)
  BY <1>3, <1>10, <1>11 DEF PatchSound, Continues, NamedOnce
<1>13. QED
  BY <1>9, <1>10, <1>12 DEF f

-----------------------------------------------------------------------------
(* What the weights and thresholds of Routing amount to, for every input. *)

\* The score is a confidence: it lies in [0, 1].
THEOREM ScoreRange ==
    ASSUME NEW extraction \in Percent, NEW support \in Nat, NEW resolution \in Percent,
           NEW validated \in BOOLEAN
    PROVE  Score(extraction, support, resolution, validated) \in 0 .. 10000
<1>1. PICK mentions \in 0 .. 3 : mentions = IF support < 3 THEN support ELSE 3
  OBVIOUS
<1>2. PICK bonus \in {0, 9000} : bonus = IF validated THEN 9000 ELSE 0
  OBVIOUS
<1>3. PICK sum : sum = 210 * extraction + 5000 * mentions + 150 * resolution + bonus + 3
  OBVIOUS
<1>4. Score(extraction, support, resolution, validated) = sum \div 6
  BY <1>1, <1>2, <1>3 DEF Score
<1>5. sum \in Int /\ 0 <= sum /\ sum <= 60003
  <2>1. extraction \in Int /\ 0 <= extraction /\ extraction <= 100
    BY DEF Percent
  <2>2. resolution \in Int /\ 0 <= resolution /\ resolution <= 100
    BY DEF Percent
  <2>3. mentions \in Int /\ 0 <= mentions /\ mentions <= 3 /\ bonus \in Int /\ 0 <= bonus /\ bonus <= 9000
    BY <1>1, <1>2
  <2>4. QED
    BY <1>3, <2>1, <2>2, <2>3
<1>6. sum \div 6 \in 0 .. 10000
  <2>1. sum \div 6 \in Int /\ 6 * (sum \div 6) <= sum /\ sum < 6 * (sum \div 6) + 6
    BY <1>5
  <2>2. QED
    BY <1>5, <2>1
<1>7. QED
  BY <1>4, <1>6

\* A score between the thresholds goes to review, forced or not.
LEMMA MiddleScoreReviewed ==
    ASSUME NEW kind, NEW score \in Int, 3000 <= score, score < 9200,
           NEW newType \in BOOLEAN, NEW semantic \in BOOLEAN, NEW degree \in Nat
    PROVE  Route(kind, score, newType, semantic, degree) = "review"
  BY DEF Route, route_auto_approve, route_auto_reject

\* New knowledge is always seen by a human: resolve_node gives every CreateNode and
\* AssertEdge a resolution of 0.5, and with it no extraction confidence and no
\* number of mentions reaches either automatic tier (a new type is forced anyway).
THEOREM NewKnowledgeReviewed ==
    ASSUME NEW kind, NEW extraction \in Percent, NEW support \in Nat \ {0},
           NEW newType \in BOOLEAN, NEW semantic \in BOOLEAN, NEW degree \in Nat
    PROVE  Route(kind, Score(extraction, support, 50, ~newType), newType, semantic, degree)
               = "review"
<1>1. CASE newType
  BY <1>1 DEF Route, Forced
<1>2. CASE ~newType
  <2>1. PICK score : score = Score(extraction, support, 50, ~newType)
    OBVIOUS
  <2>2. score \in Int /\ 3000 <= score /\ score < 9200
    <3>1. PICK mentions \in 1 .. 3 : mentions = IF support < 3 THEN support ELSE 3
      OBVIOUS
    <3>2. PICK sum \in Int : sum = 210 * extraction + 5000 * mentions + 16503
      BY DEF Percent
    <3>3. score = sum \div 6
      BY <1>2, <2>1, <3>1, <3>2 DEF Score, Percent
    <3>4. 21503 <= sum /\ sum <= 52503
      BY <3>2 DEF Percent
    <3>5. QED
      BY <3>3, <3>4
  <2>3. Route(kind, score, newType, semantic, degree) = "review"
    BY <2>2, MiddleScoreReviewed
  <2>4. QED
    BY <2>1, <2>3
<1>3. QED
  BY <1>1, <1>2

\* Nothing is approved without a human on fewer than three mentions, whatever the
\* model says of its own confidence.
THEOREM TwoMentionsReviewed ==
    ASSUME NEW kind, NEW extraction \in Percent, NEW support \in Nat, support < 3,
           NEW resolution \in Percent, NEW newType \in BOOLEAN, NEW semantic \in BOOLEAN,
           NEW degree \in Nat
    PROVE  Route(kind, Score(extraction, support, resolution, ~newType),
                 newType, semantic, degree) # "auto_approve"
<1>1. Score(extraction, support, resolution, ~newType) <= 9167
  BY DEF Score, Percent
<1>2. Score(extraction, support, resolution, ~newType) \in Int
  BY DEF Score, Percent
<1>3. QED
  BY <1>1, <1>2 DEF Route, route_auto_approve, route_auto_reject

\* What score_route_node makes of an op that has signals: an override or the
\* resolution of new knowledge leaves it to the reviewer.
LEMMA RoutedOK ==
    ASSUME NEW op, Signals(op)
    PROVE  /\ RoutedStatus(op) \in {"approved", "rejected", "pending"}
           /\ op.resolution = 50 => RoutedStatus(op) = "pending"
           /\ Forced(op.kind, op.new_type, op.semantic, 0) => RoutedStatus(op) = "pending"
<1>1. PICK extraction \in Percent, support \in Nat \ {0}, new_type \in BOOLEAN,
           semantic \in BOOLEAN :
        /\ extraction = op.extraction /\ support = op.support /\ new_type = op.new_type
        /\ semantic = op.semantic
  BY DEF Signals, Percent
<1>2. PICK score : score = Score(op.extraction, op.support, op.resolution, ~op.new_type)
  OBVIOUS
<1> DEFINE route == Route(op.kind, score, op.new_type, op.semantic, 0)
<1>3. RoutedStatus(op) = CASE route = "auto_approve" -> "approved"
                           [] route = "auto_reject" -> "rejected"
                           [] OTHER -> "pending"
  BY <1>2 DEF RoutedStatus
<1>4. route \in {"auto_approve", "auto_reject", "review"}
  BY DEF Route
<1>5. op.resolution = 50 => route = "review"
  <2>1. Route(op.kind, Score(extraction, support, 50, ~new_type), new_type, semantic, 0) = "review"
    BY NewKnowledgeReviewed
  <2>2. QED
    BY <1>1, <1>2, <2>1
<1>6. Forced(op.kind, op.new_type, op.semantic, 0) => route = "review"
  BY DEF Route
<1> HIDE DEF route
<1>7. QED
  BY <1>3, <1>4, <1>5, <1>6

-----------------------------------------------------------------------------
(* The patch of a document, for every graph, every answer of the model and every *)
(* verdict.                                                                      *)

LEMMA ResolveNodeOK ==
    ASSUME NEW g, GraphOK(g), NEW candidates, CandidatesOK(candidates.entities, candidates.relations),
           NEW answers \in Answers(g, candidates.entities),
           NEW verdict \in Adjudications(g, candidates, answers)
    PROVE  PatchSound(g, ResolveNode(g, candidates, answers, verdict))
<1> DEFINE es == candidates.entities
           sv == Survivors(es)
           rs == MergedRelations(g, es, candidates.relations)
           types == NewTypes(g, es)
           ops == EntityPatch(g, sv, types, answers)[Len(sv)]
<1>1. SurvivorsSound(sv, es) /\ sv \in Seq(SurvivorRecords) /\ DistinctIds(sv)
  <2>1. SurvivorsSound(sv, es)
    BY SurvivorsOK
  <2>2. QED
    BY <2>1 DEF SurvivorsSound, DistinctIds
<1>2. AnswersSound(g, sv, answers)
  BY AnswersOK
<1>3. MergedSound(rs, sv)
  BY MergedRelationsOK
<1>4. VerdictSound(g, sv, rs, answers, verdict)
  <2>1. rs \in Seq(RelationRecords)
    BY <1>3 DEF MergedSound
  <2>2. QED
    BY <2>1, VerdictOK
<1>5. ResolveNode(g, candidates, answers, verdict) = RelationPatch(g, sv, rs, ops, answers, verdict)[Len(rs)]
  BY DEF ResolveNode
<1> HIDE DEF sv, rs, types
<1>6. EntitiesSound(g, sv, answers, ops, Len(sv))
  BY <1>1, <1>2, EntityPatchOK
<1> HIDE DEF ops
<1>7. QED
  BY <1>1, <1>2, <1>3, <1>4, <1>5, <1>6, RelationsOK

\* Whatever the model answers about a document and whatever graph it is diffed with,
\* its patch is sound: see OpSound and PatchSound.
THEOREM PatchOK ==
    ASSUME NEW g, GraphOK(g), NEW d \in DOMAIN Content,
           NEW answers \in Answers(g, Extract(d).entities),
           NEW verdict \in Adjudications(g, Extract(d), answers)
    PROVE  PatchSound(g, ResolveNode(g, Extract(d), answers, verdict))
<1>1. CandidatesOK(Extract(d).entities, Extract(d).relations)
  BY ExtractOK
<1>2. QED
  BY <1>1, ResolveNodeOK

-----------------------------------------------------------------------------
(* What the ops say, and which mention each statement is from. *)

Said(text) == IF text = None THEN {} ELSE ToSet(text)

\* No longer than a joined description may be.
Fits(text) == text = None \/ Len(text) <= DescCap

LEMMA CappedSays ==
    ASSUME NEW s \in Seq(STRING)
    PROVE  /\ ToSet(Capped(s)) \subseteq ToSet(s)
           /\ Len(Capped(s)) <= DescCap
           /\ \A i \in 1 .. DescCap : i \in 1 .. Len(s) => s[i] \in ToSet(Capped(s))
<1>1. DescCap \in Nat /\ Len(s) \in Nat /\ ToSet(s) = {s[i] : i \in 1 .. Len(s)}
  BY ResolutionAssumption DEF ToSet
<1>2. CASE Len(s) > DescCap
  <2>1. PICK t : t = SubSeq(s, 1, DescCap) /\ t = Capped(s)
    BY <1>2 DEF Capped
  <2>2. DescCap \in 0 .. Len(s) + 1 /\ 1 \in 1 .. Len(s) + 1
    BY <1>1, <1>2
  <2>3. \A i \in 1 .. DescCap : i \in 1 .. Len(s)
    BY <1>1, <1>2
  <2>4. t \in Seq(STRING) /\ Len(t) = DescCap /\ \A i \in 1 .. DescCap : t[i] = s[i]
    BY <1>1, <2>1, <2>2, <2>3, SubSeqProperties
  <2>5. ToSet(t) = {t[i] : i \in 1 .. DescCap}
    BY <2>4 DEF ToSet
  <2>6. QED
    BY <1>1, <2>1, <2>3, <2>4, <2>5
<1>3. CASE ~(Len(s) > DescCap)
  <2>1. Capped(s) = s
    BY <1>3 DEF Capped
  <2>2. QED
    BY <1>1, <1>3, <2>1
<1>4. QED
  BY <1>2, <1>3

\* A joined description says nothing that neither of the two said, and where there
\* is room for it all that the old one said.
JoinSound(merged, old, new) ==
    /\ Said(merged) \subseteq Said(old) \cup Said(new)
    /\ Fits(old) /\ Fits(new) => Fits(merged) /\ Said(old) \subseteq Said(merged)

LEMMA JoinOK ==
    ASSUME NEW old \in Seq(STRING), NEW new \in Seq(STRING), NEW merged,
           merged = MergedDescription(old, new), merged # None
    PROVE  JoinSound(merged, old, new)
<1>1. /\ Len(old) \in Nat /\ Len(new) \in Nat /\ DescCap \in Nat
      /\ ToSet(old) = {old[i] : i \in 1 .. Len(old)}
      /\ ToSet(new) = {new[i] : i \in 1 .. Len(new)}
      /\ old # None /\ new # None
  BY ResolutionAssumption, NoneAssumption DEF ToSet
<1>2. PICK both : both = old \o new
  OBVIOUS
<1>3. /\ both \in Seq(STRING) /\ Len(both) = Len(old) + Len(new)
      /\ \A i \in 1 .. Len(old) : i \in 1 .. Len(both) /\ both[i] = old[i]
      /\ \A i \in 1 .. Len(both) : both[i] \in ToSet(old) \cup ToSet(new)
      /\ ToSet(both) = {both[i] : i \in 1 .. Len(both)}
  <2>1. both \in Seq(STRING) /\ Len(both) = Len(old) + Len(new)
    BY <1>2, ConcatProperties
  <2>2. \A i \in 1 .. Len(both) : both[i] = IF i <= Len(old) THEN old[i] ELSE new[i - Len(old)]
    BY <1>2, ConcatProperties
  <2>3. ASSUME NEW i \in 1 .. Len(both) PROVE both[i] \in ToSet(old) \cup ToSet(new)
    <3>1. CASE i <= Len(old)
      BY <1>1, <2>2, <3>1
    <3>2. CASE ~(i <= Len(old))
      <4>1. i - Len(old) \in 1 .. Len(new)
        BY <1>1, <2>1, <3>2
      <4>2. QED
        BY <1>1, <2>2, <3>2, <4>1
    <3>3. QED
      BY <3>1, <3>2
  <2>4. \A i \in 1 .. Len(old) : i \in 1 .. Len(both) /\ both[i] = old[i]
    BY <1>1, <2>1, <2>2
  <2>5. ToSet(both) = {both[i] : i \in 1 .. Len(both)}
    BY <2>1 DEF ToSet
  <2>6. QED
    BY <2>1, <2>3, <2>4, <2>5
<1>4. CASE Within(old, new) /\ merged = Capped(new)
  <2>1. ToSet(merged) \subseteq ToSet(new) /\ Len(merged) <= DescCap
    BY <1>4, CappedSays
  <2>2. merged = new \/ ~Fits(new)
    BY <1>1, <1>4 DEF Capped, Fits
  <2>3. ToSet(old) \subseteq ToSet(new)
    <3>1. PICK i \in 0 .. Len(new) - Len(old) : SubSeq(new, i + 1, i + Len(old)) = old
      BY <1>4 DEF Within
    <3>2. ASSUME NEW j \in 1 .. Len(old) PROVE old[j] \in ToSet(new)
      <4>1. /\ i + j \in 1 .. Len(new) /\ (i + 1) + j - 1 = i + j
            /\ i + 1 \in 1 .. Len(new) + 1 /\ i + Len(old) \in i .. Len(new)
        BY <1>1
      <4>2. SubSeq(new, i + 1, i + Len(old))[j] = new[i + j]
        BY <1>1, <4>1, SubSeqProperties
      <4>3. QED
        BY <1>1, <3>1, <4>1, <4>2
    <3>3. QED
      BY <1>1, <3>2
  <2>4. QED
    BY <1>1, <2>1, <2>2, <2>3 DEF JoinSound, Said, Fits
<1>5. CASE merged = Capped(both)
  <2>1. /\ ToSet(merged) \subseteq ToSet(both) /\ Len(merged) <= DescCap
        /\ \A i \in 1 .. DescCap : i \in 1 .. Len(both) => both[i] \in ToSet(merged)
    BY <1>3, <1>5, CappedSays
  <2>2. ToSet(both) \subseteq ToSet(old) \cup ToSet(new)
    BY <1>3
  <2>3. Fits(old) => ToSet(old) \subseteq ToSet(merged)
    <3>1. SUFFICES ASSUME Len(old) <= DescCap, NEW i \in 1 .. Len(old)
                   PROVE  old[i] \in ToSet(merged)
      BY <1>1 DEF Fits
    <3>2. i \in 1 .. DescCap /\ i \in 1 .. Len(both) /\ both[i] = old[i]
      BY <1>1, <1>3, <3>1
    <3>3. QED
      BY <2>1, <3>2
  <2>4. QED
    BY <1>1, <2>1, <2>2, <2>3 DEF JoinSound, Said, Fits
<1>6. QED
  BY <1>2, <1>4, <1>5 DEF MergedDescription

\* What a node gains from the mention e: its own statements, and those it had.
GainText(gain, record, e) ==
    /\ Said(gain.description) \subseteq Said(record.description) \cup Said(e.description)
    /\ Fits(record.description) /\ Fits(e.description) /\ gain.description # None =>
            Fits(gain.description) /\ Said(record.description) \subseteq Said(gain.description)
    /\ record.attr # None => gain.attr = None

LEMMA GainTextOK ==
    ASSUME NEW n, NEW record, record.description \in Descriptions,
           NEW e \in SurvivorRecords, NEW gain, gain = ExtendProps(n, record, e)
    PROVE  GainText(gain, record, e)
<1>1. e.description \in Descriptions
  BY DEF SurvivorRecords
<1>2. record.attr # None => gain.attr = None
  BY DEF ExtendProps
<1>3. CASE record.description # None /\ e.description # None
  <2>1. record.description \in Seq(STRING) /\ e.description \in Seq(STRING)
    BY <1>1, <1>3 DEF Descriptions
  <2>2. PICK merged : merged = MergedDescription(record.description, e.description)
    OBVIOUS
  <2>3. gain.description = merged
    BY <1>3, <2>2 DEF ExtendProps
  <2>4. merged # None => JoinSound(merged, record.description, e.description)
    BY <2>1, <2>2, JoinOK
  <2>5. QED
    BY <1>2, <2>3, <2>4 DEF GainText, JoinSound, Said
<1>4. CASE ~(record.description # None /\ e.description # None)
  <2>1. gain.description = e.description
    BY <1>4 DEF ExtendProps
  <2>2. QED
    BY <1>2, <1>4, <2>1 DEF GainText, Said
<1>5. QED
  BY <1>3, <1>4

\* The merge that brings the mention e in, if it is no exact match, is among deps.
Waits(ops, deps, e) ==
    \E j \in deps : /\ j \in 1 .. Len(ops)
                    /\ ops[j].kind = "MergeInto" /\ ops[j].temp_id = e.temp_id

\* What e says may be said of the node n by an op with these deps.
Backs(g, answers, ops, deps, n, e) ==
    /\ ResolveEntity(g, e, answers).id = n
    /\ ResolveEntity(g, e, answers).method = "rules" \/ Waits(ops, deps, e)

\* Each statement of an update is from its node, or from a mention that backs it.
Quotes(g, sv, answers, ops, op) ==
    \A s \in Said(op.description) :
        \/ s \in Said(g.node[op.target].description)
        \/ \E e \in ToSet(sv) : /\ s \in Said(e.description)
                                /\ Backs(g, answers, ops, op.depends_on, op.target, e)

\* An update leaves its node what it said, where there is room for it.
Keeps(g, sv, op) ==
    /\ g.node[op.target].attr # None => op.attr = None
    /\ /\ op.description # None
       /\ Fits(g.node[op.target].description)
       /\ \A e \in ToSet(sv) : Fits(e.description)
       => Fits(op.description) /\ Said(g.node[op.target].description) \subseteq Said(op.description)

\* The mention e is in the patch under its own temp id.
Voiced(g, sv, answers, ops, i) ==
    /\ ops[i].kind = "CreateNode" =>
        \E e \in ToSet(sv) : /\ e.temp_id = ops[i].temp_id /\ e.description = ops[i].description
                             /\ e.name = ops[i].name /\ e.attr = ops[i].attr
                             /\ ResolveEntity(g, e, answers).id = None
    /\ ops[i].kind = "MergeInto" =>
        \E e \in ToSet(sv) : /\ e.temp_id = ops[i].temp_id
                             /\ ResolveEntity(g, e, answers).method # "rules"
    /\ ops[i].kind = "UpdateNodeProps" => Quotes(g, sv, answers, ops, ops[i]) /\ Keeps(g, sv, ops[i])

AllVoiced(g, sv, answers, ops) == \A i \in 1 .. Len(ops) : Voiced(g, sv, answers, ops, i)

LEMMA BacksAlike ==
    ASSUME NEW g, NEW answers, NEW s, NEW t, Alike(s, t), NEW deps, NEW n, NEW e,
           Backs(g, answers, s, deps, n, e)
    PROVE  Backs(g, answers, t, deps, n, e)
  BY DEF Backs, Waits, Alike

LEMMA VoicedAlike ==
    ASSUME NEW g, NEW sv, NEW answers, NEW s, NEW t, Alike(s, t), NEW i, t[i] = s[i],
           Voiced(g, sv, answers, s, i)
    PROVE  Voiced(g, sv, answers, t, i)
<1>1. Quotes(g, sv, answers, s, s[i]) => Quotes(g, sv, answers, t, s[i])
  BY BacksAlike DEF Quotes
<1>2. QED
  BY <1>1 DEF Voiced

\* An op more, at the end.
LEMMA VoicedAppend ==
    ASSUME NEW g, NEW sv, NEW answers, NEW ops, IsSequence(ops), AllVoiced(g, sv, answers, ops),
           NEW o, NEW t, t = Append(ops, o),
           Begins(ops, t) => Voiced(g, sv, answers, t, Len(ops) + 1)
    PROVE  AllVoiced(g, sv, answers, t)
<1>1. Begins(ops, t) /\ \A i \in 1 .. Len(t) : i \in 1 .. Len(ops) \/ i = Len(ops) + 1
  BY AppendAny
<1>2. ASSUME NEW i \in 1 .. Len(ops) PROVE Voiced(g, sv, answers, t, i)
  <2>1. Alike(ops, t) /\ t[i] = ops[i]
    BY <1>1, BeginsAlike DEF Begins
  <2>2. QED
    BY <2>1, VoicedAlike DEF AllVoiced
<1>3. QED
  BY <1>1, <1>2 DEF AllVoiced

LEMMA UpdateVoiced ==
    ASSUME NEW g, NEW sv, NEW answers, NEW ops, IsSequence(ops), AllVoiced(g, sv, answers, ops),
           NEW e \in ToSet(sv), NEW n \in DOMAIN g.node, NEW gain, GainText(gain, g.node[n], e),
           NEW deps, Backs(g, answers, ops, deps, n, e),
           NEW score, NEW new_type,
           NEW t, t = Append(ops, Update(n, gain, e, deps, score, new_type))
    PROVE  AllVoiced(g, sv, answers, t)
<1>1. PICK o : o = Update(n, gain, e, deps, score, new_type)
  OBVIOUS
<1>2. /\ o.kind = "UpdateNodeProps" /\ o.depends_on = deps /\ o.target = n
      /\ o.description = gain.description /\ o.attr = gain.attr
  <2>1. IsUpdate(o, n, gain, e, deps, score, new_type)
    BY <1>1, UpdateIs
  <2>2. QED
    BY <2>1 DEF IsUpdate
<1>3. t[Len(ops) + 1] = o /\ Begins(ops, t)
  BY <1>1, AppendAny
<1>4. Backs(g, answers, t, deps, n, e)
  BY <1>3, BeginsAlike, BacksAlike
<1>5. Quotes(g, sv, answers, t, o)
  BY <1>2, <1>4 DEF Quotes, GainText
<1>6. Keeps(g, sv, o)
  BY <1>2 DEF Keeps, GainText
<1>7. Voiced(g, sv, answers, t, Len(ops) + 1)
  BY <1>2, <1>3, <1>5, <1>6 DEF Voiced
<1>8. QED
  BY <1>1, <1>7, VoicedAppend

\* The second mention of a node: what it folds into the update.
FoldText(o, op, gain, e) ==
    /\ Said(o.description) \subseteq Said(op.description) \cup Said(gain.description) \cup Said(e.description)
    /\ op.description = None => o.description = gain.description
    /\ op.description # None /\ Fits(op.description) /\ Fits(e.description) =>
            o.description # None /\ Fits(o.description) /\ Said(op.description) \subseteq Said(o.description)
    /\ op.attr = None /\ gain.attr = None => o.attr = None

LEMMA FoldTextOK ==
    ASSUME NEW op, op.description \in Descriptions, DOMAIN op = OpFields,
           NEW e \in SurvivorRecords, NEW gain, gain.description # None => e.description # None,
           NEW deps, NEW o, o = FoldUpdate(op, gain, e, deps)
    PROVE  FoldText(o, op, gain, e)
<1>1. e.description \in Descriptions
  BY DEF SurvivorRecords
<1> DEFINE description == IF gain.description = None THEN op.description
                          ELSE IF op.description = None THEN gain.description
                          ELSE LET merged == MergedDescription(op.description, e.description)
                               IN  IF merged = None THEN op.description ELSE merged
           attr == IF op.attr = None THEN gain.attr ELSE op.attr
<1>2. o.description = description /\ o.attr = attr
  <2>1. o = [op EXCEPT !.description = description, !.attr = attr, !.depends_on = @ \cup deps]
    BY DEF FoldUpdate
  <2> HIDE DEF description, attr
  <2>2. QED
    BY <2>1 DEF Op, OpFields
<1>3. CASE gain.description # None /\ op.description # None
  <2>1. op.description \in Seq(STRING) /\ e.description \in Seq(STRING)
    BY <1>1, <1>3 DEF Descriptions
  <2>2. PICK merged : merged = MergedDescription(op.description, e.description)
    OBVIOUS
  <2>3. o.description = IF merged = None THEN op.description ELSE merged
    BY <1>2, <1>3, <2>2
  <2>4. merged # None => JoinSound(merged, op.description, e.description)
    BY <2>1, <2>2, JoinOK
  <2>5. QED
    BY <1>2, <1>3, <2>3, <2>4 DEF FoldText, JoinSound, Said
<1>4. CASE ~(gain.description # None /\ op.description # None)
  BY <1>2, <1>4 DEF FoldText, Said
<1>5. QED
  BY <1>3, <1>4

LEMMA FoldVoiced ==
    ASSUME NEW g, NEW sv, NEW answers, NEW ops, AllSound(g, ops), AllVoiced(g, sv, answers, ops),
           NEW e \in SurvivorRecords, e \in ToSet(sv), NEW n \in DOMAIN g.node,
           NEW gain, GainText(gain, g.node[n], e), gain.description # None => e.description # None,
           NEW deps, Merges(ops, deps), Backs(g, answers, ops, deps, n, e),
           NEW i, UpdateAt(ops, i), ops[i].target = n,
           NEW t, t = Replaced(ops, i, FoldUpdate(ops[i], gain, e, deps)), Alike(ops, t)
    PROVE  AllVoiced(g, sv, answers, t)
<1> USE DEF UpdateAt
<1>1. PICK op, o : op = ops[i] /\ o = FoldUpdate(op, gain, e, deps)
  OBVIOUS
<1>2. /\ Len(t) = Len(ops) /\ t[i] = o
      /\ \A j \in 1 .. Len(ops) : j # i => t[j] = ops[j]
  BY <1>1, ExceptAny DEF AllSound
<1>3. UpdateSound(g, ops, op)
  BY <1>1 DEF AllSound, OpSound
<1>4. FoldText(o, op, gain, e)
  BY <1>1, <1>3, FoldTextOK DEF UpdateSound
<1>5. /\ o.kind = "UpdateNodeProps" /\ o.target = n /\ o.depends_on = op.depends_on \cup deps
  <2>1. /\ o.kind = op.kind /\ o.target = op.target /\ o.depends_on = op.depends_on \cup deps
    BY <1>1, <1>3 DEF FoldUpdate, UpdateSound, OpFields, Op
  <2>2. QED
    BY <1>1, <2>1
<1>6. Quotes(g, sv, answers, ops, op) /\ Keeps(g, sv, op) /\ op.target = n
  BY <1>1 DEF AllVoiced, Voiced
<1>7. \A x : Backs(g, answers, ops, op.depends_on, n, x) => Backs(g, answers, t, o.depends_on, n, x)
  BY <1>5 DEF Backs, Waits, Alike
<1>8. Backs(g, answers, t, o.depends_on, n, e)
  BY <1>5 DEF Backs, Waits, Alike
<1>9. Quotes(g, sv, answers, t, o)
  BY <1>4, <1>5, <1>6, <1>7, <1>8 DEF Quotes, FoldText, GainText
<1>10. Keeps(g, sv, o)
  <2>1. g.node[n].attr # None => o.attr = None
    BY <1>4, <1>6 DEF Keeps, FoldText, GainText
  <2>2. ASSUME o.description # None, Fits(g.node[n].description),
               \A x \in ToSet(sv) : Fits(x.description)
        PROVE  Fits(o.description) /\ Said(g.node[n].description) \subseteq Said(o.description)
    <3>1. CASE op.description = None
      BY <1>4, <2>2, <3>1 DEF FoldText, GainText
    <3>2. CASE op.description # None
      BY <1>4, <1>6, <2>2, <3>2 DEF FoldText, Keeps
    <3>3. QED
      BY <3>1, <3>2
  <2>3. QED
    BY <1>5, <2>1, <2>2 DEF Keeps
<1>11. Voiced(g, sv, answers, t, i)
  BY <1>2, <1>5, <1>9, <1>10 DEF Voiced
<1>12. ASSUME NEW j \in 1 .. Len(ops), j # i PROVE Voiced(g, sv, answers, t, j)
  <2>1. t[j] = ops[j]
    BY <1>2, <1>12
  <2>2. QED
    BY <2>1, VoicedAlike DEF AllVoiced
<1>13. QED
  BY <1>2, <1>11, <1>12 DEF AllVoiced

LEMMA ProposeVoiced ==
    ASSUME NEW g, NEW sv, NEW answers, NEW ops, AllSound(g, ops), AllVoiced(g, sv, answers, ops),
           NEW e \in SurvivorRecords, e \in ToSet(sv), NEW new_type \in BOOLEAN,
           NEW n \in DOMAIN g.node,
           NEW gain, GainText(gain, g.node[n], e), GainSound(gain, n, g.node[n].description, e),
           NEW deps, Merges(ops, deps), Backs(g, answers, ops, deps, n, e),
           NEW score \in 0 .. 100,
           NEW t, t = ProposeUpdate(ops, n, gain, e, deps, score, new_type)
    PROVE  AllVoiced(g, sv, answers, t)
<1> DEFINE i == UpdatePlace(ops, n)
<1>1. t = IF gain.description = None /\ gain.attr = None THEN ops
          ELSE IF i # 0 THEN Replaced(ops, i, FoldUpdate(ops[i], gain, e, deps))
          ELSE Append(ops, Update(n, gain, e, deps, score, new_type))
  BY DEF ProposeUpdate, UpdatePlace, Update, Replaced
<1>2. i # 0 => UpdateAt(ops, i) /\ ops[i].target = n
  BY PlaceOfUpdate DEF UpdateAt
<1>3. Alike(ops, t)
  BY UpdateStep DEF Grown
<1> HIDE DEF i
<1>4. CASE t = ops
  BY <1>4
<1>5. CASE i # 0 /\ t = Replaced(ops, i, FoldUpdate(ops[i], gain, e, deps))
  BY <1>2, <1>3, <1>5, FoldVoiced DEF GainSound
<1>6. CASE t = Append(ops, Update(n, gain, e, deps, score, new_type))
  BY <1>6, UpdateVoiced DEF AllSound
<1>7. QED
  BY <1>1, <1>4, <1>5, <1>6

LEMMA EntityVoiced ==
    ASSUME NEW g, GraphOK(g), NEW sv \in Seq(SurvivorRecords), DistinctIds(sv),
           NEW answers, AnswersSound(g, sv, answers),
           NEW k \in Nat, k < Len(sv), NEW ops, EntitiesSound(g, sv, answers, ops, k),
           AllVoiced(g, sv, answers, ops), NEW new_type \in BOOLEAN,
           NEW t, t = EntityOps(g, ops, sv[k + 1], ResolveEntity(g, sv[k + 1], answers), new_type)
    PROVE  AllVoiced(g, sv, answers, t)
<1>1. k + 1 \in 1 .. Len(sv) /\ Len(sv) \in Nat
  OBVIOUS
<1>2. PICK e \in SurvivorRecords, match \in {ResolveEntity(g, sv[k + 1], answers)} :
        e = sv[k + 1] /\ match = ResolveEntity(g, e, answers)
  BY <1>1, ElementOfSeq
<1>3. MatchSound(g, e, match) /\ e \in ToSet(sv)
  <2>1. MatchSound(g, e, match)
    BY <1>1, <1>2, ResolveEntityOK
  <2>2. e \in ToSet(sv)
    BY <1>1, <1>2 DEF ToSet
  <2>3. QED
    BY <2>1, <2>2
<1>4. t = EntityOps(g, ops, e, match, new_type)
  BY <1>2
<1>5. AllSound(g, ops) /\ IsSequence(ops)
  BY DEF EntitiesSound, AllSound
<1>6. CASE match.id = None
  <2>1. PICK o : o = Create(e, new_type) /\ t = Append(ops, o)
    BY <1>4, <1>6 DEF EntityOps
  <2>2. IsCreate(o, e, new_type)
    BY <2>1, CreateIs
  <2>3. t[Len(ops) + 1] = o
    BY <1>5, <2>1, AppendAny
  <2>4. Voiced(g, sv, answers, t, Len(ops) + 1)
    BY <1>2, <1>3, <1>6, <2>2, <2>3 DEF Voiced, IsCreate
  <2>5. QED
    BY <1>5, <2>1, <2>4, VoicedAppend
<1>7. CASE match.id # None
  <2>1. match.id \in DOMAIN g.node /\ match.score \in 0 .. 100
    BY <1>3, <1>7 DEF MatchSound
  <2>2. PICK gain : gain = ExtendProps(match.id, g.node[match.id], e)
    OBVIOUS
  <2>3. GainText(gain, g.node[match.id], e) /\ GainSound(gain, match.id, g.node[match.id].description, e)
    <3>1. g.node[match.id].description \in Descriptions /\ g.node[match.id].attr \in Values
      BY <2>1 DEF GraphOK, IsGraph
    <3>2. QED
      BY <2>2, <3>1, ExtendPropsOK, GainTextOK
  <2>4. ASSUME NEW s, AllSound(g, s), AllVoiced(g, sv, answers, s), NEW deps, Merges(s, deps),
               Backs(g, answers, s, deps, match.id, e),
               t = ProposeUpdate(s, match.id, gain, e, deps, match.score, new_type)
        PROVE  AllVoiced(g, sv, answers, t)
    <3>1. PICK n, score : n = match.id /\ score = match.score
      OBVIOUS
    <3>2. /\ n \in DOMAIN g.node /\ score \in 0 .. 100 /\ e \in SurvivorRecords /\ e \in ToSet(sv)
          /\ GainText(gain, g.node[n], e) /\ GainSound(gain, n, g.node[n].description, e)
          /\ Backs(g, answers, s, deps, n, e)
          /\ t = ProposeUpdate(s, n, gain, e, deps, score, new_type)
      BY <1>3, <2>1, <2>3, <2>4, <3>1
    <3>3. QED
      BY <2>4, <3>2, ProposeVoiced
  <2>5. CASE match.method = "rules"
    <3>1. t = ProposeUpdate(ops, match.id, gain, e, {}, match.score, new_type)
      BY <1>4, <1>7, <2>2, <2>5 DEF EntityOps
    <3>2. Backs(g, answers, ops, {}, match.id, e) /\ Merges(ops, {})
      BY <1>2, <2>5 DEF Backs, Merges
    <3>3. QED
      BY <1>5, <2>4, <3>1, <3>2
  <2>6. CASE match.method # "rules"
    <3>1. PICK merged, o : /\ o = Merge(e, match, new_type)
                           /\ merged = Append(ops, o)
                           /\ t = ProposeUpdate(merged, match.id, gain, e, {Len(merged)}, match.score,
                                                new_type)
      BY <1>4, <1>7, <2>2, <2>6 DEF EntityOps
    <3>2. AllSound(g, merged)
      BY <1>5, <2>1, <3>1, MergeStep
    <3>3. o.kind = "MergeInto" /\ o.temp_id = e.temp_id
      <4>1. IsMerge(o, e, match, new_type)
        BY <3>1, MergeIs
      <4>2. QED
        BY <4>1 DEF IsMerge
    <3>4. merged[Len(ops) + 1] = o /\ Len(merged) = Len(ops) + 1 /\ Len(merged) \in 1 .. Len(merged)
      BY <1>5, <3>1, AppendAny DEF Begins
    <3>5. Voiced(g, sv, answers, merged, Len(ops) + 1)
      BY <1>2, <1>3, <2>6, <3>3, <3>4 DEF Voiced
    <3>6. AllVoiced(g, sv, answers, merged)
      BY <1>5, <3>1, <3>5, VoicedAppend
    <3>7. Merges(merged, {Len(merged)}) /\ Backs(g, answers, merged, {Len(merged)}, match.id, e)
      BY <1>2, <3>3, <3>4 DEF Merges, Backs, Waits
    <3>8. QED
      BY <2>4, <3>1, <3>2, <3>6, <3>7
  <2>7. QED
    BY <2>5, <2>6
<1>8. QED
  BY <1>6, <1>7

LEMMA EntitiesVoiced ==
    ASSUME NEW g, GraphOK(g), NEW sv \in Seq(SurvivorRecords), DistinctIds(sv),
           NEW answers, AnswersSound(g, sv, answers), NEW types
    PROVE  AllVoiced(g, sv, answers, EntityPatch(g, sv, types, answers)[Len(sv)])
<1> DEFINE f == EntityPatch(g, sv, types, answers)
           Good(k) == EntitiesSound(g, sv, answers, f[k], k) /\ AllVoiced(g, sv, answers, f[k])
           T == {k \in Nat : Good(k)}
<1>1. /\ f[0] = <<>> /\ Len(sv) \in Nat
      /\ \A k \in 1 .. Len(sv) :
            f[k] = EntityOps(g, f[k - 1], sv[k], ResolveEntity(g, sv[k], answers),
                             sv[k].entity_type \in types)
  BY EntityPatchUpTo
<1> HIDE DEF f
<1>2. Good(0)
  <2>1. Len(<<>>) = 0 /\ IsSequence(<<>>)
    <3>1. <<>> \in Seq({})
      OBVIOUS
    <3>2. QED
      BY <3>1 DEF IsSequence
  <2>2. EntitiesSound(g, sv, answers, f[0], 0)
    BY <1>1, <2>1 DEF EntitiesSound, AllSound, NamedOnce
  <2>3. QED
    BY <1>1, <2>1, <2>2 DEF AllVoiced
<1>3. ASSUME NEW k \in Nat, k < Len(sv), Good(k)
      PROVE  Good(k + 1)
  <2>1. k + 1 \in 1 .. Len(sv) /\ (k + 1) - 1 = k
    BY <1>1, <1>3
  <2>2. PICK b \in BOOLEAN : b = (sv[k + 1].entity_type \in types)
    <3>1. (sv[k + 1].entity_type \in types) \in BOOLEAN
      OBVIOUS
    <3>2. QED
      BY <3>1
  <2>3. f[k + 1] = EntityOps(g, f[k], sv[k + 1], ResolveEntity(g, sv[k + 1], answers), b)
    BY <1>1, <2>1, <2>2
  <2>4. QED
    BY <1>3, <2>3, EntityStep, EntityVoiced
<1>4. 0 \in T /\ \A k \in Nat : k < Len(sv) /\ k \in T => k + 1 \in T
  <2> HIDE DEF Good
  <2>1. QED
    BY <1>2, <1>3
<1>5. Len(sv) \in T
  <2> HIDE DEF T
  <2>1. QED
    BY <1>1, <1>4, UpToInduction
<1>6. QED
  BY <1>5 DEF f

LEMMA ContinuedVoiced ==
    ASSUME NEW g, NEW sv, NEW answers, NEW ops, AllVoiced(g, sv, answers, ops),
           NEW t, Continues(g, ops, t)
    PROVE  AllVoiced(g, sv, answers, t)
<1>1. Begins(ops, t) /\ \A i \in 1 .. Len(t) : OfEntity(t, i) => i \in 1 .. Len(ops)
  BY DEF Continues
<1>2. ASSUME NEW i \in 1 .. Len(t), OfEntity(t, i) PROVE Voiced(g, sv, answers, t, i)
  <2>1. i \in 1 .. Len(ops) /\ t[i] = ops[i] /\ Alike(ops, t)
    BY <1>1, <1>2, BeginsAlike DEF Begins
  <2>2. QED
    BY <2>1, VoicedAlike DEF AllVoiced
<1>3. ASSUME NEW i \in 1 .. Len(t), ~OfEntity(t, i) PROVE Voiced(g, sv, answers, t, i)
  BY <1>3 DEF OfEntity, Voiced
<1>4. QED
  BY <1>2, <1>3 DEF AllVoiced

\* Whatever the model answers, each statement of a patch is from a mention of the
\* entity it is written to, or was there: see Voiced.
THEOREM PatchVoiced ==
    ASSUME NEW g, GraphOK(g), NEW d \in DOMAIN Content,
           NEW answers \in Answers(g, Extract(d).entities),
           NEW verdict \in Adjudications(g, Extract(d), answers)
    PROVE  AllVoiced(g, Survivors(Extract(d).entities), answers, ResolveNode(g, Extract(d), answers, verdict))
<1> DEFINE es == Extract(d).entities
           sv == Survivors(es)
           rs == MergedRelations(g, es, Extract(d).relations)
           types == NewTypes(g, es)
           ops == EntityPatch(g, sv, types, answers)[Len(sv)]
<1>1. CandidatesOK(es, Extract(d).relations)
  BY ExtractOK
<1>2. SurvivorsSound(sv, es) /\ sv \in Seq(SurvivorRecords) /\ DistinctIds(sv)
  <2>1. SurvivorsSound(sv, es)
    BY <1>1, SurvivorsOK
  <2>2. QED
    BY <2>1 DEF SurvivorsSound, DistinctIds
<1>3. AnswersSound(g, sv, answers)
  BY <1>1, AnswersOK
<1>4. MergedSound(rs, sv)
  BY <1>1, MergedRelationsOK
<1>5. VerdictSound(g, sv, rs, answers, verdict)
  <2>1. rs \in Seq(RelationRecords)
    BY <1>4 DEF MergedSound
  <2>2. QED
    BY <2>1, VerdictOK
<1>6. ResolveNode(g, Extract(d), answers, verdict) = RelationPatch(g, sv, rs, ops, answers, verdict)[Len(rs)]
  BY DEF ResolveNode
<1> HIDE DEF sv, rs, types
<1>7. EntitiesSound(g, sv, answers, ops, Len(sv)) /\ AllVoiced(g, sv, answers, ops)
  BY <1>2, <1>3, EntityPatchOK, EntitiesVoiced
<1> HIDE DEF ops
<1>8. PICK t : /\ t = RelationPatch(g, sv, rs, ops, answers, verdict)[Len(rs)]
               /\ Continues(g, ops, t)
  BY <1>2, <1>3, <1>4, <1>5, <1>7, RelationsOK
<1>9. QED
  BY <1>6, <1>7, <1>8, ContinuedVoiced DEF sv, es

-----------------------------------------------------------------------------
(* What a joined description carries. *)

\* All of s, or as much as there is room for.
Carries(t, s) == t # None /\ (Within(s, t) \/ Len(t) = DescCap)

Text(s) == s \in Seq(STRING) /\ Len(s) <= DescCap

\* The elements of s are in t, i places further.
RunAt(i, s, t) ==
    /\ i \in 0 .. Len(t) - Len(s)
    /\ \A j \in 1 .. Len(s) : t[i + j] = s[j]

LEMMA WithinRun ==
    ASSUME NEW s \in Seq(STRING), NEW t \in Seq(STRING)
    PROVE  Within(s, t) <=> \E i : RunAt(i, s, t)
<1>1. Len(s) \in Nat /\ Len(t) \in Nat
  OBVIOUS
<1>2. ASSUME NEW i \in 0 .. Len(t) - Len(s)
      PROVE  SubSeq(t, i + 1, i + Len(s)) = s <=> \A j \in 1 .. Len(s) : t[i + j] = s[j]
  <2>1. i + 1 \in 1 .. Len(t) + 1 /\ i + Len(s) \in (i + 1) - 1 .. Len(t)
    BY <1>1
  <2>2. PICK u : u = SubSeq(t, i + 1, i + Len(s))
    OBVIOUS
  <2>3. /\ u \in Seq(STRING) /\ Len(u) = (i + Len(s)) - (i + 1) + 1
        /\ \A j \in 1 .. (i + Len(s)) - (i + 1) + 1 : u[j] = t[(i + 1) + j - 1]
    <3>1. i + 1 \in Int /\ i + Len(s) \in Int
      BY <1>1
    <3>2. \A k \in i + 1 .. i + Len(s) : t[k] \in STRING
      <4>1. \A k \in i + 1 .. i + Len(s) : k \in 1 .. Len(t)
        BY <1>1
      <4>2. QED
        BY <4>1
    <3> DEFINE m == i + 1
               n == i + Len(s)
    <3>3. m \in Int /\ n \in Int /\ \A k \in m .. n : t[k] \in STRING
      BY <3>1, <3>2
    <3>4. n - m + 1 = IF m <= n THEN n - m + 1 ELSE 0
      BY <1>1
    <3> HIDE DEF m, n
    <3>5. /\ SubSeq(t, m, n) \in Seq(STRING)
          /\ Len(SubSeq(t, m, n)) = IF m <= n THEN n - m + 1 ELSE 0
          /\ \A j \in 1 .. n - m + 1 : SubSeq(t, m, n)[j] = t[m + j - 1]
      BY <3>3, SubSeqProperties
    <3>6. /\ SubSeq(t, m, n) \in Seq(STRING)
          /\ Len(SubSeq(t, m, n)) = n - m + 1
          /\ \A j \in 1 .. n - m + 1 : SubSeq(t, m, n)[j] = t[m + j - 1]
      BY <3>4, <3>5
    <3>7. QED
      BY <2>2, <3>6 DEF m, n
  <2>4. Len(u) = Len(s) /\ \A j \in 1 .. Len(s) : u[j] = t[i + j]
    <3>1. Len(u) = Len(s)
      BY <1>1, <2>3
    <3>2. ASSUME NEW j \in 1 .. Len(s) PROVE u[j] = t[i + j]
      <4>1. j \in 1 .. (i + Len(s)) - (i + 1) + 1 /\ (i + 1) + j - 1 = i + j
        BY <1>1
      <4>2. QED
        BY <2>3, <4>1
    <3>3. QED
      BY <3>1, <3>2
  <2>5. u = s <=> \A j \in 1 .. Len(s) : u[j] = s[j]
    BY <2>3, <2>4, SeqEqual
  <2>6. QED
    BY <2>2, <2>4, <2>5
<1>3. QED
  BY <1>2 DEF Within, RunAt

LEMMA WithinSelf ==
    ASSUME NEW s \in Seq(STRING)
    PROVE  Within(s, s)
<1>1. RunAt(0, s, s)
  BY DEF RunAt
<1>2. QED
  BY <1>1, WithinRun

LEMMA WithinLonger ==
    ASSUME NEW s \in Seq(STRING), NEW t \in Seq(STRING), Within(s, t)
    PROVE  /\ Len(s) <= Len(t)
           /\ Len(s) = Len(t) => s = t
<1>1. PICK i : RunAt(i, s, t)
  BY WithinRun
<1>2. Len(s) \in Nat /\ Len(t) \in Nat /\ i \in 0 .. Len(t) - Len(s)
  BY <1>1 DEF RunAt
<1>3. ASSUME Len(s) = Len(t) PROVE s = t
  <2>1. i = 0
    BY <1>2, <1>3
  <2>2. \A j \in 1 .. Len(s) : t[j] = s[j]
    BY <1>1, <1>2, <2>1 DEF RunAt
  <2>3. QED
    BY <1>3, <2>2, SeqEqual
<1>4. QED
  BY <1>2, <1>3

LEMMA WithinTransitive ==
    ASSUME NEW s \in Seq(STRING), NEW t \in Seq(STRING), NEW u \in Seq(STRING),
           Within(s, t), Within(t, u)
    PROVE  Within(s, u)
<1>1. PICK i : RunAt(i, s, t)
  BY WithinRun
<1>2. PICK k : RunAt(k, t, u)
  BY WithinRun
<1>3. /\ Len(s) \in Nat /\ Len(t) \in Nat /\ Len(u) \in Nat
      /\ i \in 0 .. Len(t) - Len(s) /\ k \in 0 .. Len(u) - Len(t)
  BY <1>1, <1>2 DEF RunAt
<1>4. k + i \in 0 .. Len(u) - Len(s)
  BY <1>3
<1>5. ASSUME NEW j \in 1 .. Len(s) PROVE u[(k + i) + j] = s[j]
  <2>1. i + j \in 1 .. Len(t) /\ k + (i + j) = (k + i) + j
    BY <1>3
  <2>2. u[k + (i + j)] = t[i + j] /\ t[i + j] = s[j]
    BY <1>1, <1>2, <2>1 DEF RunAt
  <2>3. QED
    BY <2>1, <2>2
<1>6. RunAt(k + i, s, u)
  BY <1>4, <1>5 DEF RunAt
<1>7. QED
  BY <1>6, WithinRun

\* What a carried text carries, while no text is over the cap.
LEMMA CarriesTransitive ==
    ASSUME NEW s \in Seq(STRING), NEW t, Text(t), NEW u, Text(u), Carries(u, t), Carries(t, s)
    PROVE  Carries(u, s)
<1>1. Len(t) \in Nat /\ Len(u) \in Nat /\ DescCap \in Nat /\ u # None
  BY ResolutionAssumption DEF Text, Carries
<1>2. CASE Len(u) = DescCap
  BY <1>1, <1>2 DEF Carries
<1>3. CASE Len(u) # DescCap
  <2>1. Within(t, u)
    BY <1>3 DEF Carries
  <2>2. Len(t) <= Len(u)
    BY <2>1, WithinLonger DEF Text
  <2>3. Len(t) # DescCap
    BY <1>1, <1>3, <2>2 DEF Text
  <2>4. Within(s, t)
    BY <2>3 DEF Carries
  <2>5. QED
    BY <1>1, <2>1, <2>4, WithinTransitive DEF Text, Carries
<1>4. QED
  BY <1>2, <1>3

LEMMA CappedPrefix ==
    ASSUME NEW s \in Seq(STRING)
    PROVE  /\ Text(Capped(s))
           /\ Len(s) <= DescCap => Capped(s) = s
           /\ Len(s) >= DescCap => Len(Capped(s)) = DescCap
           /\ \A i \in 1 .. DescCap : i \in 1 .. Len(s) => Capped(s)[i] = s[i]
<1>1. DescCap \in Nat /\ Len(s) \in Nat
  BY ResolutionAssumption
<1>2. CASE Len(s) > DescCap
  <2>1. PICK t : t = SubSeq(s, 1, DescCap) /\ t = Capped(s)
    BY <1>2 DEF Capped
  <2>2. DescCap \in 0 .. Len(s) + 1 /\ 1 \in 1 .. Len(s) + 1
    BY <1>1, <1>2
  <2>3. \A i \in 1 .. DescCap : i \in 1 .. Len(s)
    BY <1>1, <1>2
  <2>4. t \in Seq(STRING) /\ Len(t) = DescCap /\ \A i \in 1 .. DescCap : t[i] = s[i]
    BY <1>1, <2>1, <2>2, <2>3, SubSeqProperties
  <2>5. QED
    BY <1>1, <1>2, <2>1, <2>4 DEF Text
<1>3. CASE ~(Len(s) > DescCap)
  <2>1. Capped(s) = s
    BY <1>3 DEF Capped
  <2>2. QED
    BY <1>1, <1>3, <2>1 DEF Text
<1>4. QED
  BY <1>2, <1>3

LEMMA ConcatRuns ==
    ASSUME NEW s \in Seq(STRING), NEW t \in Seq(STRING), NEW u, u = s \o t
    PROVE  /\ u \in Seq(STRING) /\ Len(u) = Len(s) + Len(t)
           /\ RunAt(0, s, u) /\ RunAt(Len(s), t, u)
<1>1. Len(s) \in Nat /\ Len(t) \in Nat
  OBVIOUS
<1>2. u \in Seq(STRING) /\ Len(u) = Len(s) + Len(t)
  BY ConcatProperties
<1>3. \A i \in 1 .. Len(u) : u[i] = IF i <= Len(s) THEN s[i] ELSE t[i - Len(s)]
  BY ConcatProperties
<1>4. RunAt(0, s, u)
  <2>1. ASSUME NEW j \in 1 .. Len(s) PROVE u[0 + j] = s[j]
    BY <1>1, <1>2, <1>3
  <2>2. 0 \in 0 .. Len(u) - Len(s)
    BY <1>1, <1>2
  <2>3. QED
    BY <2>1, <2>2 DEF RunAt
<1>5. RunAt(Len(s), t, u)
  <2>1. ASSUME NEW j \in 1 .. Len(t) PROVE u[Len(s) + j] = t[j]
    <3>1. Len(s) + j \in 1 .. Len(u) /\ ~(Len(s) + j <= Len(s)) /\ (Len(s) + j) - Len(s) = j
      BY <1>1, <1>2
    <3>2. QED
      BY <1>3, <3>1
  <2>2. Len(s) \in 0 .. Len(u) - Len(t)
    BY <1>1, <1>2
  <2>3. QED
    BY <2>1, <2>2 DEF RunAt
<1>6. QED
  BY <1>2, <1>4, <1>5

\* The description old joined with new, or left as it is.
Joined(old, new) ==
    IF MergedDescription(old, new) = None THEN old ELSE MergedDescription(old, new)

LEMMA JoinedCases ==
    ASSUME NEW old \in Seq(STRING), NEW new \in Seq(STRING)
    PROVE  \/ Within(new, old) /\ MergedDescription(old, new) = None
           \/ /\ ~Within(new, old) /\ Within(old, new)
              /\ Joined(old, new) = Capped(new)
           \/ /\ ~Within(new, old) /\ ~Within(old, new)
              /\ Joined(old, new) = Capped(old \o new)
<1>1. ASSUME NEW s \in Seq(STRING) PROVE Capped(s) # None
  <2>1. Capped(s) \in Seq(STRING)
    BY CappedOK
  <2>2. QED
    BY <2>1, NoneAssumption
<1>2. old \o new \in Seq(STRING)
  OBVIOUS
<1>3. QED
  BY <1>1, <1>2 DEF Joined, MergedDescription

\* A join carries what it is made of.
LEMMA JoinCarries ==
    ASSUME NEW old, Text(old), NEW new, Text(new), NEW t, t = Joined(old, new)
    PROVE  Text(t) /\ Carries(t, old) /\ Carries(t, new)
<1>1. /\ old \in Seq(STRING) /\ new \in Seq(STRING)
      /\ Len(old) \in Nat /\ Len(new) \in Nat /\ DescCap \in Nat
  BY ResolutionAssumption DEF Text
<1>2. \A s \in Seq(STRING) : s # None /\ Within(s, s)
  BY NoneAssumption, WithinSelf
<1>3. CASE Within(new, old) /\ MergedDescription(old, new) = None
  <2>1. t = old
    BY <1>3 DEF Joined
  <2>2. QED
    BY <1>1, <1>2, <1>3, <2>1 DEF Carries
<1>4. CASE Within(old, new) /\ t = Capped(new)
  <2>1. t = new
    BY <1>1, <1>4, CappedPrefix DEF Text
  <2>2. QED
    BY <1>1, <1>2, <1>4, <2>1 DEF Carries
<1>5. CASE t = Capped(old \o new)
  <2>1. PICK both : both = old \o new
    OBVIOUS
  <2>2. /\ both \in Seq(STRING) /\ Len(both) \in Nat
        /\ RunAt(0, old, both) /\ RunAt(Len(old), new, both)
    <3>1. /\ both \in Seq(STRING) /\ RunAt(0, old, both) /\ RunAt(Len(old), new, both)
      BY <1>1, <2>1, ConcatRuns
    <3>2. QED
      BY <3>1
  <2>3. Within(old, both) /\ Within(new, both)
    BY <1>1, <2>2, WithinRun
  <2>4. /\ Text(t) /\ t # None
        /\ Len(both) <= DescCap => t = both
        /\ Len(both) >= DescCap => Len(t) = DescCap
    <3>1. /\ Text(t)
          /\ Len(both) <= DescCap => t = both
          /\ Len(both) >= DescCap => Len(t) = DescCap
      BY <1>5, <2>1, <2>2, CappedPrefix
    <3>2. QED
      BY <1>2, <3>1 DEF Text
  <2>5. QED
    BY <1>1, <2>2, <2>3, <2>4 DEF Carries
<1>6. QED
  BY <1>1, <1>3, <1>4, <1>5, JoinedCases

\* What is carried already is not joined again.
LEMMA JoinIdle ==
    ASSUME NEW old, Text(old), NEW new, Text(new), Carries(old, new)
    PROVE  Joined(old, new) = old
<1>1. /\ old \in Seq(STRING) /\ new \in Seq(STRING)
      /\ Len(old) \in Nat /\ Len(new) \in Nat /\ DescCap \in Nat
  BY ResolutionAssumption DEF Text
<1>2. CASE Within(new, old) /\ MergedDescription(old, new) = None
  BY <1>2 DEF Joined
<1>3. ASSUME ~Within(new, old) PROVE Len(old) = DescCap /\ ~Within(old, new)
  <2>1. Len(old) = DescCap
    BY <1>3 DEF Carries
  <2>2. ASSUME Within(old, new) PROVE FALSE
    <3>1. Len(old) <= Len(new) /\ (Len(old) = Len(new) => old = new)
      BY <1>1, <2>2, WithinLonger
    <3>2. old = new
      BY <1>1, <2>1, <3>1 DEF Text
    <3>3. QED
      BY <1>1, <1>3, <3>2, WithinSelf
  <2>3. QED
    BY <2>1, <2>2
<1>4. CASE ~Within(new, old) /\ Joined(old, new) = Capped(old \o new)
  <2>1. PICK both, t : both = old \o new /\ t = Capped(both)
    OBVIOUS
  <2>2. /\ both \in Seq(STRING) /\ Len(both) = Len(old) + Len(new) /\ RunAt(0, old, both)
    BY <1>1, <2>1, ConcatRuns
  <2>3. /\ Text(t) /\ Len(t) = DescCap
        /\ \A i \in 1 .. DescCap : i \in 1 .. Len(both) => t[i] = both[i]
    <3>1. Len(both) >= DescCap
      BY <1>1, <1>3, <1>4, <2>2
    <3>2. QED
      BY <2>1, <2>2, <3>1, CappedPrefix
  <2>4. ASSUME NEW i \in 1 .. Len(old) PROVE t[i] = old[i]
    <3>1. i \in 1 .. DescCap /\ i \in 1 .. Len(both) /\ 0 + i = i
      BY <1>1, <1>3, <1>4, <2>2
    <3>2. both[0 + i] = old[i]
      BY <2>2 DEF RunAt
    <3>3. QED
      BY <2>3, <3>1, <3>2
  <2>5. t = old
    <3>1. t \in Seq(STRING) /\ Len(old) = Len(t)
      BY <1>3, <1>4, <2>3 DEF Text
    <3>2. QED
      BY <1>1, <2>4, <3>1, SeqEqual
  <2>6. QED
    BY <1>4, <2>1, <2>5
<1>5. QED
  BY <1>1, <1>2, <1>3, <1>4, JoinedCases

\* The record says what e says, as far as there is room for it.
Absorbed(record, e) ==
    /\ e.attr # None => record.attr # None
    /\ e.description # None => Carries(record.description, e.description)

TextOrNone(s) == s = None \/ Text(s)

LEMMA TextsFit ==
    ASSUME NEW s \in Descriptions
    PROVE  Fits(s) <=> TextOrNone(s)
  BY DEF Descriptions, Fits, TextOrNone, Text

\* The gain of the mention e, with the record it extends, says what e says; of what
\* the record says already there is nothing to gain.
GainFull(gain, record, e) ==
    /\ TextOrNone(gain.description)
    /\ gain.description # None =>
        /\ Carries(gain.description, e.description)
        /\ record.description # None => Carries(gain.description, record.description)
    /\ e.description # None /\ gain.description = None => Carries(record.description, e.description)
    /\ e.attr # None /\ gain.attr = None => record.attr # None
    /\ Absorbed(record, e) => gain.attr = None /\ gain.description \in {None, record.description}

LEMMA GainFullOK ==
    ASSUME NEW n, NEW record, TextOrNone(record.description),
           NEW e, TextOrNone(e.description), NEW gain, gain = ExtendProps(n, record, e)
    PROVE  GainFull(gain, record, e)
<1>1. gain.attr = IF record.attr = None THEN e.attr ELSE None
  BY DEF ExtendProps
<1>2. CASE record.description # None /\ e.description # None
  <2>1. PICK old, new : /\ old = record.description /\ new = e.description
                        /\ Text(old) /\ Text(new) /\ old # None /\ new # None
    BY <1>2 DEF TextOrNone
  <2>2. PICK t : t = Joined(old, new)
    OBVIOUS
  <2>3. Text(t) /\ Carries(t, old) /\ Carries(t, new)
    BY <2>1, <2>2, JoinCarries
  <2>4. Carries(old, new) => t = old
    BY <2>1, <2>2, JoinIdle
  <2>5. gain.description = MergedDescription(old, new)
    BY <1>2, <2>1 DEF ExtendProps
  <2>6. IF gain.description = None THEN t = old ELSE t = gain.description
    BY <2>2, <2>5 DEF Joined
  <2>7. Absorbed(record, e) => Carries(old, new)
    BY <2>1 DEF Absorbed
  <2>8. Absorbed(record, e) => gain.attr = None
    BY <1>1 DEF Absorbed
  <2>9. gain.description = None \/ gain.description = t
    BY <2>6
  <2>10. QED
    BY <1>1, <2>1, <2>3, <2>4, <2>6, <2>7, <2>8 DEF GainFull, TextOrNone
<1>3. CASE ~(record.description # None /\ e.description # None)
  <2>1. gain.description = e.description
    BY <1>3 DEF ExtendProps
  <2>2. e.description # None => Carries(e.description, e.description) /\ record.description = None
    BY <1>3, WithinSelf DEF TextOrNone, Text, Carries
  <2>3. ~Carries(None, e.description)
    BY DEF Carries
  <2>4. QED
    BY <1>1, <2>1, <2>2, <2>3 DEF GainFull, Absorbed
<1>4. QED
  BY <1>2, <1>3

\* The update o, which has the gain of the mention e folded into it.
FoldFull(o, op, gain, e) ==
    /\ TextOrNone(o.description)
    /\ \A s \in Seq(STRING) : Carries(op.description, s) => Carries(o.description, s)
    /\ gain.description # None => Carries(o.description, e.description)
    /\ gain.description = None => o.description = op.description
    /\ op.description = None => o.description = gain.description
    /\ op.description # None => o.description # None
    /\ op.description # None /\ Carries(op.description, e.description) =>
            o.description = op.description
    /\ o.attr = None <=> op.attr = None /\ gain.attr = None

LEMMA FoldFullOK ==
    ASSUME NEW op, TextOrNone(op.description), DOMAIN op = OpFields,
           NEW record, NEW e, TextOrNone(e.description), NEW gain, GainFull(gain, record, e),
           gain.description # None => e.description # None,
           NEW deps, NEW o, o = FoldUpdate(op, gain, e, deps)
    PROVE  FoldFull(o, op, gain, e)
<1> DEFINE description == IF gain.description = None THEN op.description
                          ELSE IF op.description = None THEN gain.description
                          ELSE LET merged == MergedDescription(op.description, e.description)
                               IN  IF merged = None THEN op.description ELSE merged
           attr == IF op.attr = None THEN gain.attr ELSE op.attr
<1>1. o.description = description /\ o.attr = attr
  <2>1. o = [op EXCEPT !.description = description, !.attr = attr, !.depends_on = @ \cup deps]
    BY DEF FoldUpdate
  <2> HIDE DEF description, attr
  <2>2. QED
    BY <2>1 DEF Op, OpFields
<1>2. ~(\E s : Carries(None, s))
  BY DEF Carries
<1>3. CASE gain.description # None /\ op.description # None
  <2>1. PICK old, new : /\ old = op.description /\ new = e.description
                        /\ Text(old) /\ Text(new) /\ old # None /\ new # None
    BY <1>3 DEF TextOrNone
  <2>2. PICK t : t = Joined(old, new)
    OBVIOUS
  <2>3. Text(t) /\ Carries(t, old) /\ Carries(t, new)
    BY <2>1, <2>2, JoinCarries
  <2>4. Carries(old, new) => t = old
    BY <2>1, <2>2, JoinIdle
  <2>5. o.description = t
    BY <1>1, <1>3, <2>1, <2>2 DEF Joined
  <2>6. \A s \in Seq(STRING) : Carries(old, s) => Carries(t, s)
    BY <2>1, <2>3, CarriesTransitive
  <2>7. t # None
    BY <2>3 DEF Carries
  <2>8. QED
    BY <1>1, <1>3, <2>1, <2>3, <2>4, <2>5, <2>6, <2>7 DEF FoldFull, TextOrNone
<1>4. CASE gain.description = None
  BY <1>1, <1>2, <1>4 DEF FoldFull
<1>5. CASE gain.description # None /\ op.description = None
  BY <1>1, <1>2, <1>5 DEF FoldFull, GainFull
<1>6. QED
  BY <1>3, <1>4, <1>5

-----------------------------------------------------------------------------
(* What an update carries, and when it has nothing to write. *)

\* An update has all its node said.
Gathers(record, op) ==
    /\ TextOrNone(op.description)
    /\ op.description # None /\ record.description # None =>
            Carries(op.description, record.description)

\* An update that writes what is there.
Calm(record, op) == op.attr = None /\ op.description \in {None, record.description}

\* Each mention is in the record of the entity it is.
Known(g, sv, answers) ==
    \A e \in ToSet(sv) : ResolveEntity(g, e, answers).id # None =>
        Absorbed(g.node[ResolveEntity(g, e, answers).id], e)

Steady(g, sv, answers, op) ==
    /\ Gathers(g.node[op.target], op)
    /\ Known(g, sv, answers) => Calm(g.node[op.target], op)

AllSteady(g, sv, answers, ops) ==
    \A i \in 1 .. Len(ops) : UpdateAt(ops, i) => Steady(g, sv, answers, ops[i])

UpdateOf(ops, i, n) == UpdateAt(ops, i) /\ ops[i].target = n

\* What e says its node says, or will say when it is updated.
Taken(ops, n, record, e) ==
    /\ e.attr # None => record.attr # None \/ \E i : UpdateOf(ops, i, n) /\ ops[i].attr # None
    /\ e.description # None =>
        \/ Carries(record.description, e.description)
        \/ \E i : UpdateOf(ops, i, n) /\ Carries(ops[i].description, e.description)

Heard(g, answers, ops, e) ==
    ResolveEntity(g, e, answers).id # None =>
        Taken(ops, ResolveEntity(g, e, answers).id, g.node[ResolveEntity(g, e, answers).id], e)

\* t has the updates of s, which say no less.
Amends(s, t) ==
    \A i : UpdateAt(s, i) =>
        /\ UpdateAt(t, i) /\ t[i].target = s[i].target
        /\ s[i].attr # None => t[i].attr # None
        /\ \A x \in Seq(STRING) : Carries(s[i].description, x) => Carries(t[i].description, x)

LEMMA BeginsAmends ==
    ASSUME NEW s, NEW t, Begins(s, t)
    PROVE  Amends(s, t)
  BY DEF Begins, Amends, UpdateAt

LEMMA AmendsOn ==
    ASSUME NEW s, NEW t, NEW u, Amends(s, t), Amends(t, u)
    PROVE  Amends(s, u)
  BY DEF Amends

LEMMA HeardAmended ==
    ASSUME NEW g, NEW answers, NEW s, NEW t, Amends(s, t), NEW e, TextOrNone(e.description),
           Heard(g, answers, s, e)
    PROVE  Heard(g, answers, t, e)
<1>1. ASSUME NEW n, NEW record, Taken(s, n, record, e) PROVE Taken(t, n, record, e)
  <2>1. ASSUME NEW i, UpdateOf(s, i, n), s[i].attr # None
        PROVE  UpdateOf(t, i, n) /\ t[i].attr # None
    BY <2>1 DEF Amends, UpdateOf
  <2>2. ASSUME NEW i, UpdateOf(s, i, n), Carries(s[i].description, e.description), e.description # None
        PROVE  UpdateOf(t, i, n) /\ Carries(t[i].description, e.description)
    <3>1. e.description \in Seq(STRING)
      BY <2>2 DEF TextOrNone, Text
    <3>2. QED
      BY <2>2, <3>1 DEF Amends, UpdateOf
  <2>3. QED
    BY <1>1, <2>1, <2>2 DEF Taken
<1>2. QED
  BY <1>1 DEF Heard

\* An op more that is no update.
LEMMA SteadyAppend ==
    ASSUME NEW g, NEW sv, NEW answers, NEW ops, IsSequence(ops), AllSteady(g, sv, answers, ops),
           NEW o, NEW t, t = Append(ops, o),
           o.kind = "UpdateNodeProps" => Steady(g, sv, answers, o)
    PROVE  AllSteady(g, sv, answers, t) /\ Amends(ops, t)
<1>1. /\ Begins(ops, t) /\ t[Len(ops) + 1] = o /\ Len(t) = Len(ops) + 1
      /\ \A i \in 1 .. Len(t) : i \in 1 .. Len(ops) \/ i = Len(ops) + 1
  BY AppendAny
<1>2. ASSUME NEW i \in 1 .. Len(t), UpdateAt(t, i) PROVE Steady(g, sv, answers, t[i])
  <2>1. CASE i = Len(ops) + 1
    BY <1>1, <1>2, <2>1 DEF UpdateAt
  <2>2. CASE i \in 1 .. Len(ops)
    BY <1>1, <1>2, <2>2 DEF UpdateAt, Begins, AllSteady
  <2>3. QED
    BY <1>1, <2>1, <2>2
<1>3. Amends(ops, t)
  BY <1>1, BeginsAmends
<1>4. QED
  BY <1>2, <1>3 DEF AllSteady

\* A mention more of the node n.
Gained(g, sv, answers, ops, n, gain, e) ==
    /\ e \in SurvivorRecords /\ TextOrNone(e.description)
    /\ GraphOK(g) /\ n \in DOMAIN g.node
    /\ GainSound(gain, n, g.node[n].description, e)
    /\ GainFull(gain, g.node[n], e)
    /\ Known(g, sv, answers) => Absorbed(g.node[n], e)
    /\ AllSound(g, ops) /\ AllSteady(g, sv, answers, ops)

LEMMA GainAppended ==
    ASSUME NEW g, NEW sv, NEW answers, NEW ops, NEW n, NEW gain, NEW e,
           Gained(g, sv, answers, ops, n, gain, e), NEW deps, NEW score, NEW new_type,
           NEW t, t = Append(ops, Update(n, gain, e, deps, score, new_type))
    PROVE  AllSteady(g, sv, answers, t) /\ Amends(ops, t) /\ Taken(t, n, g.node[n], e)
<1>1. PICK o : o = Update(n, gain, e, deps, score, new_type)
  OBVIOUS
<1>2. o.kind = "UpdateNodeProps" /\ o.target = n /\ o.description = gain.description /\ o.attr = gain.attr
  <2>1. IsUpdate(o, n, gain, e, deps, score, new_type)
    BY <1>1, UpdateIs
  <2>2. QED
    BY <2>1 DEF IsUpdate
<1>3. Steady(g, sv, answers, o)
  <2>1. Gathers(g.node[n], o)
    BY <1>2 DEF Gathers, Gained, GainFull
  <2>2. Known(g, sv, answers) => Calm(g.node[n], o)
    BY <1>2 DEF Calm, Gained, GainFull
  <2>3. QED
    BY <1>2, <2>1, <2>2 DEF Steady
<1>4. IsSequence(ops) /\ AllSteady(g, sv, answers, ops)
  BY DEF Gained, AllSound
<1>5. AllSteady(g, sv, answers, t) /\ Amends(ops, t)
  BY <1>1, <1>3, <1>4, SteadyAppend
<1>6. UpdateOf(t, Len(ops) + 1, n) /\ t[Len(ops) + 1] = o
  <2>1. t[Len(ops) + 1] = o /\ Len(t) = Len(ops) + 1 /\ Begins(ops, t)
    BY <1>1, <1>4, AppendAny
  <2>2. Len(ops) + 1 \in 1 .. Len(t)
    BY <2>1 DEF Begins
  <2>3. QED
    BY <1>2, <2>1, <2>2 DEF UpdateOf, UpdateAt
<1>7. Taken(t, n, g.node[n], e)
  BY <1>2, <1>6 DEF Taken, Gained, GainFull
<1>8. QED
  BY <1>5, <1>7

LEMMA GainFolded ==
    ASSUME NEW g, NEW sv, NEW answers, NEW ops, NEW n, NEW gain, NEW e,
           Gained(g, sv, answers, ops, n, gain, e), NEW deps,
           NEW i, UpdateOf(ops, i, n),
           NEW t, t = Replaced(ops, i, FoldUpdate(ops[i], gain, e, deps))
    PROVE  AllSteady(g, sv, answers, t) /\ Amends(ops, t) /\ Taken(t, n, g.node[n], e)
<1> USE DEF UpdateOf
<1>1. PICK op, o : op = ops[i] /\ o = FoldUpdate(op, gain, e, deps)
  OBVIOUS
<1>2. AllSound(g, ops) /\ IsSequence(ops) /\ AllSteady(g, sv, answers, ops) /\ i \in 1 .. Len(ops)
  BY DEF Gained, AllSound, UpdateAt
<1>3. /\ Len(t) = Len(ops) /\ t[i] = o
      /\ \A j \in 1 .. Len(ops) : j # i => t[j] = ops[j]
  BY <1>1, <1>2, ExceptAny
<1>4. DOMAIN op = OpFields /\ op.kind = "UpdateNodeProps" /\ op.target = n
  <2>1. UpdateSound(g, ops, op)
    BY <1>1, <1>2 DEF AllSound, OpSound, UpdateAt
  <2>2. QED
    BY <1>1, <2>1 DEF UpdateSound, UpdateAt
<1>5. Steady(g, sv, answers, op)
  BY <1>1, <1>2 DEF AllSteady
<1>6. Gathers(g.node[n], op) /\ (Known(g, sv, answers) => Calm(g.node[n], op))
  BY <1>4, <1>5 DEF Steady
<1>7. FoldFull(o, op, gain, e)
  <2>1. TextOrNone(op.description) /\ TextOrNone(e.description)
    BY <1>6 DEF Gathers, Gained
  <2>2. gain.description # None => e.description # None
    BY DEF Gained, GainSound
  <2>3. GainFull(gain, g.node[n], e)
    BY DEF Gained
  <2>4. QED
    BY <1>1, <1>4, <2>1, <2>2, <2>3, FoldFullOK
<1>8. o.kind = "UpdateNodeProps" /\ o.target = n
  <2>1. o.kind = op.kind /\ o.target = op.target
    BY <1>1, <1>4 DEF FoldUpdate, OpFields, Op
  <2>2. QED
    BY <1>4, <2>1
<1>9. g.node[n].description \in Descriptions => Gathers(g.node[n], o)
  <2>1. CASE op.description = None
    BY <1>7, <2>1 DEF Gathers, FoldFull, Gained, GainFull
  <2>2. CASE op.description # None
    BY <1>6, <1>7, <2>2 DEF Gathers, FoldFull, Descriptions
  <2>3. QED
    BY <2>1, <2>2
<1>10. ASSUME Known(g, sv, answers) PROVE Calm(g.node[n], o)
  <2>1. Absorbed(g.node[n], e) /\ Calm(g.node[n], op)
    BY <1>6, <1>10 DEF Gained
  <2>2. gain.attr = None /\ gain.description \in {None, g.node[n].description}
    BY <2>1 DEF Gained, GainFull
  <2>3. gain.description # None => Carries(g.node[n].description, e.description)
    BY <2>1 DEF Gained, GainSound, Absorbed
  <2>4. op.attr = None /\ op.description \in {None, g.node[n].description}
    BY <2>1 DEF Calm
  <2>5. QED
    BY <1>7, <2>2, <2>3, <2>4 DEF FoldFull, Calm
<1>11. Steady(g, sv, answers, o)
  <2>1. g.node[n].description \in Descriptions
    BY DEF Gained, GraphOK, IsGraph
  <2>2. QED
    BY <1>8, <1>9, <1>10, <2>1 DEF Steady
<1>12. AllSteady(g, sv, answers, t)
  BY <1>2, <1>3, <1>11 DEF AllSteady, UpdateAt
<1>13. Amends(ops, t)
  BY <1>1, <1>2, <1>3, <1>4, <1>7, <1>8 DEF Amends, UpdateAt, FoldFull
<1>14. UpdateAt(t, i)
  BY <1>2, <1>3, <1>8 DEF UpdateAt
<1>15. Taken(t, n, g.node[n], e)
  <2>1. e.attr # None => g.node[n].attr # None \/ o.attr # None
    BY <1>7 DEF FoldFull, Gained, GainFull
  <2>2. e.description # None =>
            Carries(g.node[n].description, e.description) \/ Carries(o.description, e.description)
    BY <1>7 DEF FoldFull, Gained, GainFull
  <2>3. QED
    BY <1>3, <1>8, <1>14, <2>1, <2>2 DEF Taken
<1>16. QED
  BY <1>12, <1>13, <1>15

LEMMA GainProposed ==
    ASSUME NEW g, NEW sv, NEW answers, NEW ops, NEW n, NEW gain, NEW e,
           Gained(g, sv, answers, ops, n, gain, e), NEW deps, NEW score, NEW new_type,
           NEW t, t = ProposeUpdate(ops, n, gain, e, deps, score, new_type)
    PROVE  AllSteady(g, sv, answers, t) /\ Amends(ops, t) /\ Taken(t, n, g.node[n], e)
<1> DEFINE i == UpdatePlace(ops, n)
<1>1. t = IF gain.description = None /\ gain.attr = None THEN ops
          ELSE IF i # 0 THEN Replaced(ops, i, FoldUpdate(ops[i], gain, e, deps))
          ELSE Append(ops, Update(n, gain, e, deps, score, new_type))
  BY DEF ProposeUpdate, UpdatePlace, Update, Replaced
<1>2. i # 0 => UpdateOf(ops, i, n)
  BY PlaceOfUpdate DEF UpdateAt, UpdateOf
<1> HIDE DEF i
<1>3. CASE gain.description = None /\ gain.attr = None /\ t = ops
  <2>1. Taken(ops, n, g.node[n], e)
    BY <1>3 DEF Taken, Gained, GainFull
  <2>2. Amends(ops, ops)
    BY DEF Amends
  <2>3. QED
    BY <1>3, <2>1, <2>2 DEF Gained
<1>4. CASE i # 0 /\ t = Replaced(ops, i, FoldUpdate(ops[i], gain, e, deps))
  BY <1>2, <1>4, GainFolded
<1>5. CASE t = Append(ops, Update(n, gain, e, deps, score, new_type))
  BY <1>5, GainAppended
<1>6. QED
  BY <1>1, <1>3, <1>4, <1>5

\* No text is longer than a joined description may be.
AllFit(g, sv) ==
    /\ \A i \in 1 .. Len(sv) : Fits(sv[i].description)
    /\ \A n \in DOMAIN g.node : Fits(g.node[n].description)

\* The updates after the first k survivors.
HeardUpTo(g, sv, answers, ops, k) ==
    AllSteady(g, sv, answers, ops) /\ \A m \in 1 .. k : Heard(g, answers, ops, sv[m])

LEMMA EntityHeard ==
    ASSUME NEW g, GraphOK(g), NEW sv \in Seq(SurvivorRecords), DistinctIds(sv), AllFit(g, sv),
           NEW answers, AnswersSound(g, sv, answers),
           NEW k \in Nat, k < Len(sv), NEW ops, EntitiesSound(g, sv, answers, ops, k),
           HeardUpTo(g, sv, answers, ops, k), NEW new_type \in BOOLEAN,
           NEW t, t = EntityOps(g, ops, sv[k + 1], ResolveEntity(g, sv[k + 1], answers), new_type)
    PROVE  HeardUpTo(g, sv, answers, t, k + 1)
<1>1. k + 1 \in 1 .. Len(sv) /\ Len(sv) \in Nat
  OBVIOUS
<1>2. PICK e \in SurvivorRecords, match \in {ResolveEntity(g, sv[k + 1], answers)} :
        e = sv[k + 1] /\ match = ResolveEntity(g, e, answers)
  BY <1>1, ElementOfSeq
<1>3. MatchSound(g, e, match) /\ e \in ToSet(sv)
  <2>1. MatchSound(g, e, match)
    BY <1>1, <1>2, ResolveEntityOK
  <2>2. e \in ToSet(sv)
    BY <1>1, <1>2 DEF ToSet
  <2>3. QED
    BY <2>1, <2>2
<1>4. t = EntityOps(g, ops, e, match, new_type)
  BY <1>2
<1>5. AllSound(g, ops) /\ IsSequence(ops) /\ AllSteady(g, sv, answers, ops)
  BY DEF EntitiesSound, AllSound, HeardUpTo
<1>6. \A m \in 1 .. Len(sv) : TextOrNone(sv[m].description)
  <2>1. ASSUME NEW m \in 1 .. Len(sv) PROVE TextOrNone(sv[m].description)
    <3>1. sv[m] \in SurvivorRecords
      BY ElementOfSeq
    <3>2. sv[m].description \in Descriptions
      BY <3>1 DEF SurvivorRecords
    <3>3. QED
      BY <3>2, TextsFit DEF AllFit
  <2>2. QED
    BY <2>1
<1>7. AllSteady(g, sv, answers, t) /\ Amends(ops, t) /\ Heard(g, answers, t, e)
  <2>1. CASE match.id = None
    <3>1. PICK o : o = Create(e, new_type) /\ t = Append(ops, o)
      BY <1>4, <2>1 DEF EntityOps
    <3>2. o.kind # "UpdateNodeProps"
      <4>1. IsCreate(o, e, new_type)
        BY <3>1, CreateIs
      <4>2. QED
        BY <4>1 DEF IsCreate
    <3>3. AllSteady(g, sv, answers, t) /\ Amends(ops, t)
      BY <1>5, <3>1, <3>2, SteadyAppend
    <3>4. QED
      BY <1>2, <2>1, <3>3 DEF Heard
  <2>2. CASE match.id # None
    <3>1. match.id \in DOMAIN g.node /\ match.score \in 0 .. 100
      BY <1>3, <2>2 DEF MatchSound
    <3>2. PICK n, record : n = match.id /\ record = g.node[n]
      OBVIOUS
    <3>3. PICK gain : gain = ExtendProps(n, record, e)
      OBVIOUS
    <3>4. record.description \in Descriptions /\ record.attr \in Values /\ TextOrNone(record.description)
      <4>1. record.description \in Descriptions /\ record.attr \in Values
        BY <3>1, <3>2 DEF GraphOK, IsGraph
      <4>2. QED
        BY <3>1, <3>2, <4>1, TextsFit DEF AllFit
    <3>5. TextOrNone(e.description)
      BY <1>1, <1>2, <1>6
    <3>6. GainSound(gain, n, record.description, e) /\ GainFull(gain, record, e)
      BY <3>3, <3>4, <3>5, ExtendPropsOK, GainFullOK
    <3>7. Known(g, sv, answers) => Absorbed(record, e)
      BY <1>2, <1>3, <2>2, <3>2 DEF Known
    <3>8. ASSUME NEW some, AllSound(g, some), AllSteady(g, sv, answers, some)
          PROVE  Gained(g, sv, answers, some, n, gain, e)
      BY <3>1, <3>2, <3>5, <3>6, <3>7, <3>8 DEF Gained
    <3>9. Taken(t, n, record, e) => Heard(g, answers, t, e)
      BY <1>2, <3>2 DEF Heard
    <3>10. CASE match.method = "rules"
      <4>1. t = ProposeUpdate(ops, n, gain, e, {}, match.score, new_type)
        BY <1>4, <2>2, <3>2, <3>3, <3>10 DEF EntityOps
      <4>2. Gained(g, sv, answers, ops, n, gain, e)
        BY <1>5, <3>8
      <4>3. AllSteady(g, sv, answers, t) /\ Amends(ops, t) /\ Taken(t, n, g.node[n], e)
        BY <4>1, <4>2, GainProposed
      <4>4. QED
        BY <3>2, <3>9, <4>3
    <3>11. CASE match.method # "rules"
      <4>1. PICK merged, o : /\ o = Merge(e, match, new_type)
                             /\ merged = Append(ops, o)
                             /\ t = ProposeUpdate(merged, n, gain, e, {Len(merged)}, match.score,
                                                  new_type)
        BY <1>4, <2>2, <3>2, <3>3, <3>11 DEF EntityOps
      <4>2. AllSound(g, merged)
        BY <1>5, <3>1, <4>1, MergeStep
      <4>3. o.kind # "UpdateNodeProps"
        <5>1. IsMerge(o, e, match, new_type)
          BY <4>1, MergeIs
        <5>2. QED
          BY <5>1 DEF IsMerge
      <4>4. AllSteady(g, sv, answers, merged) /\ Amends(ops, merged)
        BY <1>5, <4>1, <4>3, SteadyAppend
      <4>5. Gained(g, sv, answers, merged, n, gain, e)
        BY <3>8, <4>2, <4>4
      <4>6. AllSteady(g, sv, answers, t) /\ Amends(merged, t) /\ Taken(t, n, g.node[n], e)
        BY <4>1, <4>5, GainProposed
      <4>7. Amends(ops, t)
        BY <4>4, <4>6, AmendsOn
      <4>8. QED
        BY <3>2, <3>9, <4>6, <4>7
    <3>12. QED
      BY <3>10, <3>11
  <2>3. QED
    BY <2>1, <2>2
<1>8. ASSUME NEW m \in 1 .. k + 1 PROVE Heard(g, answers, t, sv[m])
  <2>1. CASE m = k + 1
    BY <1>2, <1>7, <2>1
  <2>2. CASE m \in 1 .. k
    <3>1. m \in 1 .. Len(sv)
      BY <1>1, <2>2
    <3>2. TextOrNone(sv[m].description) /\ Heard(g, answers, ops, sv[m])
      BY <1>6, <2>2, <3>1 DEF HeardUpTo
    <3>3. QED
      BY <1>7, <3>2, HeardAmended
  <2>3. QED
    BY <2>1, <2>2
<1>9. QED
  BY <1>7, <1>8 DEF HeardUpTo

LEMMA EntitiesHeard ==
    ASSUME NEW g, GraphOK(g), NEW sv \in Seq(SurvivorRecords), DistinctIds(sv), AllFit(g, sv),
           NEW answers, AnswersSound(g, sv, answers), NEW types
    PROVE  HeardUpTo(g, sv, answers, EntityPatch(g, sv, types, answers)[Len(sv)], Len(sv))
<1> DEFINE f == EntityPatch(g, sv, types, answers)
           Good(k) == EntitiesSound(g, sv, answers, f[k], k) /\ HeardUpTo(g, sv, answers, f[k], k)
           T == {k \in Nat : Good(k)}
<1>1. /\ f[0] = <<>> /\ Len(sv) \in Nat
      /\ \A k \in 1 .. Len(sv) :
            f[k] = EntityOps(g, f[k - 1], sv[k], ResolveEntity(g, sv[k], answers),
                             sv[k].entity_type \in types)
  BY EntityPatchUpTo
<1> HIDE DEF f
<1>2. Good(0)
  <2>1. Len(<<>>) = 0 /\ IsSequence(<<>>)
    <3>1. <<>> \in Seq({})
      OBVIOUS
    <3>2. QED
      BY <3>1 DEF IsSequence
  <2>2. EntitiesSound(g, sv, answers, f[0], 0)
    BY <1>1, <2>1 DEF EntitiesSound, AllSound, NamedOnce
  <2>3. HeardUpTo(g, sv, answers, f[0], 0)
    BY <1>1, <2>1 DEF HeardUpTo, AllSteady
  <2>4. QED
    BY <2>2, <2>3
<1>3. ASSUME NEW k \in Nat, k < Len(sv), Good(k)
      PROVE  Good(k + 1)
  <2>1. k + 1 \in 1 .. Len(sv) /\ (k + 1) - 1 = k
    BY <1>1, <1>3
  <2>2. PICK b \in BOOLEAN : b = (sv[k + 1].entity_type \in types)
    <3>1. (sv[k + 1].entity_type \in types) \in BOOLEAN
      OBVIOUS
    <3>2. QED
      BY <3>1
  <2>3. f[k + 1] = EntityOps(g, f[k], sv[k + 1], ResolveEntity(g, sv[k + 1], answers), b)
    BY <1>1, <2>1, <2>2
  <2>4. QED
    BY <1>3, <2>3, EntityStep, EntityHeard
<1>4. 0 \in T /\ \A k \in Nat : k < Len(sv) /\ k \in T => k + 1 \in T
  <2> HIDE DEF Good
  <2>1. QED
    BY <1>2, <1>3
<1>5. Len(sv) \in T
  <2> HIDE DEF T
  <2>1. QED
    BY <1>1, <1>4, UpToInduction
<1>6. QED
  BY <1>5 DEF f

LEMMA ContinuedHeard ==
    ASSUME NEW g, NEW sv \in Seq(SurvivorRecords), AllFit(g, sv), NEW answers, NEW ops,
           HeardUpTo(g, sv, answers, ops, Len(sv)), NEW t, Continues(g, ops, t)
    PROVE  HeardUpTo(g, sv, answers, t, Len(sv))
<1>1. Begins(ops, t) /\ \A i \in 1 .. Len(t) : OfEntity(t, i) => i \in 1 .. Len(ops)
  BY DEF Continues
<1>2. ASSUME NEW i \in 1 .. Len(t), UpdateAt(t, i) PROVE Steady(g, sv, answers, t[i])
  <2>1. i \in 1 .. Len(ops) /\ t[i] = ops[i]
    BY <1>1, <1>2 DEF Begins, OfEntity, UpdateAt
  <2>2. QED
    BY <1>2, <2>1 DEF HeardUpTo, AllSteady, UpdateAt
<1>3. ASSUME NEW m \in 1 .. Len(sv) PROVE Heard(g, answers, t, sv[m])
  <2>1. sv[m] \in SurvivorRecords
    BY ElementOfSeq
  <2>2. sv[m].description \in Descriptions
    BY <2>1 DEF SurvivorRecords
  <2>3. TextOrNone(sv[m].description)
    BY <2>2, TextsFit DEF AllFit
  <2>4. QED
    BY <1>1, <2>3, BeginsAmends, HeardAmended DEF HeardUpTo
<1>4. QED
  BY <1>2, <1>3 DEF HeardUpTo, AllSteady

\* Where no text is over the cap, nothing a mention says is lost, and a patch against
\* a graph that has it all writes what is there: see Steady and Heard.
THEOREM PatchHeard ==
    ASSUME NEW g, GraphOK(g), NEW d \in DOMAIN Content, AllFit(g, Survivors(Extract(d).entities)),
           NEW answers \in Answers(g, Extract(d).entities),
           NEW verdict \in Adjudications(g, Extract(d), answers)
    PROVE  HeardUpTo(g, Survivors(Extract(d).entities), answers, ResolveNode(g, Extract(d), answers, verdict),
                     Len(Survivors(Extract(d).entities)))
<1> DEFINE es == Extract(d).entities
           sv == Survivors(es)
           rs == MergedRelations(g, es, Extract(d).relations)
           types == NewTypes(g, es)
           ops == EntityPatch(g, sv, types, answers)[Len(sv)]
<1>1. CandidatesOK(es, Extract(d).relations)
  BY ExtractOK
<1>2. SurvivorsSound(sv, es) /\ sv \in Seq(SurvivorRecords) /\ DistinctIds(sv)
  <2>1. SurvivorsSound(sv, es)
    BY <1>1, SurvivorsOK
  <2>2. QED
    BY <2>1 DEF SurvivorsSound, DistinctIds
<1>3. AnswersSound(g, sv, answers)
  BY <1>1, AnswersOK
<1>4. MergedSound(rs, sv)
  BY <1>1, MergedRelationsOK
<1>5. VerdictSound(g, sv, rs, answers, verdict)
  <2>1. rs \in Seq(RelationRecords)
    BY <1>4 DEF MergedSound
  <2>2. QED
    BY <2>1, VerdictOK
<1>6. ResolveNode(g, Extract(d), answers, verdict) = RelationPatch(g, sv, rs, ops, answers, verdict)[Len(rs)]
  BY DEF ResolveNode
<1>7. AllFit(g, sv)
  OBVIOUS
<1> HIDE DEF sv, rs, types
<1>8. EntitiesSound(g, sv, answers, ops, Len(sv)) /\ HeardUpTo(g, sv, answers, ops, Len(sv))
  BY <1>2, <1>3, <1>7, EntityPatchOK, EntitiesHeard
<1> HIDE DEF ops
<1>9. PICK t : /\ t = RelationPatch(g, sv, rs, ops, answers, verdict)[Len(rs)]
               /\ Continues(g, ops, t)
  BY <1>2, <1>3, <1>4, <1>5, <1>8, RelationsOK
<1>10. QED
  BY <1>2, <1>6, <1>7, <1>8, <1>9, ContinuedHeard DEF sv, es

-----------------------------------------------------------------------------
(* What keeps the ops of one patch out of each other's way. *)

\* A node has one update, however many mentions it has.
OneUpdate(ops) ==
    \A i, j \in 1 .. Len(ops) :
        UpdateAt(ops, i) /\ UpdateAt(ops, j) /\ ops[i].target = ops[j].target => i = j

\* The ops of the entities are of their kinds, and none is in the way of another.
Apart(ops) == OneUpdate(ops) /\ \A i \in 1 .. Len(ops) : OfEntity(ops, i)

LEMMA UpdateHasPlace ==
    ASSUME NEW ops, NEW j, UpdateAt(ops, j), NEW n, ops[j].target = n
    PROVE  UpdatePlace(ops, n) # 0
<1> DEFINE I == {i \in 1 .. Len(ops) : ops[i].kind = "UpdateNodeProps" /\ ops[i].target = n}
<1>1. j \in I /\ I \in SUBSET Nat
  BY DEF UpdateAt
<1>2. UpdatePlace(ops, n) = Min(I)
  BY <1>1 DEF UpdatePlace, SelectInSeq
<1>3. Min(I) \in I
  <2> HIDE DEF I
  <2>1. QED
    BY <1>1, MinOfPlaces
<1>4. QED
  BY <1>2, <1>3

LEMMA OneAppended ==
    ASSUME NEW ops, IsSequence(ops), Apart(ops), NEW o, NEW t, t = Append(ops, o),
           o.kind = "UpdateNodeProps" => UpdatePlace(ops, o.target) = 0,
           o.kind \in {"CreateNode", "MergeInto", "UpdateNodeProps"}
    PROVE  Apart(t)
<1>1. /\ t[Len(ops) + 1] = o /\ \A i \in 1 .. Len(ops) : t[i] = ops[i]
      /\ \A i \in 1 .. Len(t) : i \in 1 .. Len(ops) \/ i = Len(ops) + 1
  BY AppendAny DEF Begins
<1>2. ASSUME NEW i \in 1 .. Len(ops), UpdateAt(t, i), o.kind = "UpdateNodeProps",
             t[i].target = o.target
      PROVE  FALSE
  <2>1. UpdateAt(ops, i) /\ ops[i].target = o.target
    BY <1>1, <1>2 DEF UpdateAt
  <2>2. QED
    BY <1>2, <2>1, UpdateHasPlace
<1>3. \A i \in 1 .. Len(ops) : UpdateAt(t, i) => UpdateAt(ops, i)
  BY <1>1 DEF UpdateAt
<1>4. UpdateAt(t, Len(ops) + 1) => o.kind = "UpdateNodeProps"
  BY <1>1 DEF UpdateAt
<1>5. \A i \in 1 .. Len(t) : OfEntity(t, i)
  BY <1>1 DEF Apart, OfEntity
<1>6. OneUpdate(t)
  BY <1>1, <1>2, <1>3, <1>4 DEF Apart, OneUpdate
<1>7. QED
  BY <1>5, <1>6 DEF Apart

LEMMA OneProposed ==
    ASSUME NEW ops, IsSequence(ops), Apart(ops), NEW n, NEW gain, NEW e, NEW deps, NEW score,
           NEW new_type, \A i \in 1 .. Len(ops) : UpdateAt(ops, i) => DOMAIN ops[i] = OpFields,
           NEW t, t = ProposeUpdate(ops, n, gain, e, deps, score, new_type)
    PROVE  Apart(t)
<1> DEFINE i == UpdatePlace(ops, n)
<1>1. t = IF gain.description = None /\ gain.attr = None THEN ops
          ELSE IF i # 0 THEN Replaced(ops, i, FoldUpdate(ops[i], gain, e, deps))
          ELSE Append(ops, Update(n, gain, e, deps, score, new_type))
  BY DEF ProposeUpdate, UpdatePlace, Update, Replaced
<1>2. i # 0 => UpdateAt(ops, i)
  BY PlaceOfUpdate DEF UpdateAt
<1>3. CASE t = ops
  BY <1>3
<1>4. CASE i # 0 /\ t = Replaced(ops, i, FoldUpdate(ops[i], gain, e, deps))
  <2>1. PICK o : o = FoldUpdate(ops[i], gain, e, deps)
    OBVIOUS
  <2>2. o.kind = ops[i].kind /\ o.target = ops[i].target
    BY <1>2, <1>4, <2>1 DEF FoldUpdate, OpFields, Op
  <2> HIDE DEF i
  <2>3. /\ Len(t) = Len(ops) /\ t[i] = o
        /\ \A j \in 1 .. Len(ops) : j # i => t[j] = ops[j]
    BY <1>2, <1>4, <2>1, ExceptAny DEF UpdateAt
  <2>4. \A j \in 1 .. Len(ops) : t[j].kind = ops[j].kind /\ t[j].target = ops[j].target
    BY <2>2, <2>3
  <2>5. QED
    BY <2>3, <2>4 DEF Apart, OneUpdate, UpdateAt, OfEntity
<1>5. CASE i = 0 /\ t = Append(ops, Update(n, gain, e, deps, score, new_type))
  <2>1. PICK o : o = Update(n, gain, e, deps, score, new_type)
    OBVIOUS
  <2>2. o.target = n /\ o.kind = "UpdateNodeProps"
    <3>1. IsUpdate(o, n, gain, e, deps, score, new_type)
      BY <2>1, UpdateIs
    <3>2. QED
      BY <3>1 DEF IsUpdate
  <2>3. QED
    BY <1>5, <2>1, <2>2, OneAppended
<1> HIDE DEF i
<1>6. QED
  BY <1>1, <1>3, <1>4, <1>5

LEMMA UpdateFields ==
    ASSUME NEW g, NEW ops, AllSound(g, ops), NEW i \in 1 .. Len(ops), UpdateAt(ops, i)
    PROVE  DOMAIN ops[i] = OpFields
  BY DEF AllSound, OpSound, UpdateAt, UpdateSound

LEMMA EntityApart ==
    ASSUME NEW g, GraphOK(g), NEW e \in SurvivorRecords, NEW match,
           match.id \in DOMAIN g.node \cup {None}, match.score \in 0 .. 100,
           NEW ops, AllSound(g, ops), Apart(ops),
           NEW new_type \in BOOLEAN, NEW t, t = EntityOps(g, ops, e, match, new_type)
    PROVE  Apart(t)
<1>1. IsSequence(ops)
  BY DEF AllSound
<1>2. CASE match.id = None
  <2>1. PICK o : o = Create(e, new_type) /\ t = Append(ops, o)
    BY <1>2 DEF EntityOps
  <2>2. o.kind = "CreateNode"
    <3>1. IsCreate(o, e, new_type)
      BY <2>1, CreateIs
    <3>2. QED
      BY <3>1 DEF IsCreate
  <2>3. QED
    BY <1>1, <2>1, <2>2, OneAppended
<1>3. CASE match.id # None
  <2>1. PICK gain : gain = ExtendProps(match.id, g.node[match.id], e)
    OBVIOUS
  <2>2. CASE match.method = "rules"
    <3>1. t = ProposeUpdate(ops, match.id, gain, e, {}, match.score, new_type)
      BY <1>3, <2>1, <2>2 DEF EntityOps
    <3>2. QED
      BY <1>1, <3>1, UpdateFields, OneProposed
  <2>3. CASE match.method # "rules"
    <3>1. PICK merged, o : /\ o = Merge(e, match, new_type)
                           /\ merged = Append(ops, o)
                           /\ t = ProposeUpdate(merged, match.id, gain, e, {Len(merged)}, match.score,
                                                new_type)
      BY <1>3, <2>1, <2>3 DEF EntityOps
    <3>2. AllSound(g, merged) /\ IsSequence(merged)
      <4>1. match.id \in DOMAIN g.node
        BY <1>3
      <4>2. AllSound(g, merged)
        BY <3>1, <4>1, MergeStep
      <4>3. QED
        BY <4>2 DEF AllSound
    <3>3. Apart(merged)
      <4>1. IsMerge(o, e, match, new_type)
        BY <3>1, MergeIs
      <4>2. o.kind = "MergeInto"
        BY <4>1 DEF IsMerge
      <4>3. QED
        BY <1>1, <3>1, <4>2, OneAppended
    <3>4. QED
      BY <3>1, <3>2, <3>3, UpdateFields, OneProposed
  <2>4. QED
    BY <2>2, <2>3
<1>4. QED
  BY <1>2, <1>3

LEMMA EntitiesApart ==
    ASSUME NEW g, GraphOK(g), NEW sv \in Seq(SurvivorRecords), DistinctIds(sv),
           NEW answers, AnswersSound(g, sv, answers), NEW types
    PROVE  Apart(EntityPatch(g, sv, types, answers)[Len(sv)])
<1> DEFINE f == EntityPatch(g, sv, types, answers)
           Good(k) == EntitiesSound(g, sv, answers, f[k], k) /\ Apart(f[k])
           T == {k \in Nat : Good(k)}
<1>1. /\ f[0] = <<>> /\ Len(sv) \in Nat
      /\ \A k \in 1 .. Len(sv) :
            f[k] = EntityOps(g, f[k - 1], sv[k], ResolveEntity(g, sv[k], answers),
                             sv[k].entity_type \in types)
  BY EntityPatchUpTo
<1> HIDE DEF f
<1>2. Good(0)
  <2>1. Len(<<>>) = 0 /\ IsSequence(<<>>)
    <3>1. <<>> \in Seq({})
      OBVIOUS
    <3>2. QED
      BY <3>1 DEF IsSequence
  <2>2. EntitiesSound(g, sv, answers, f[0], 0)
    BY <1>1, <2>1 DEF EntitiesSound, AllSound, NamedOnce
  <2>3. QED
    BY <1>1, <2>1, <2>2 DEF Apart, OneUpdate
<1>3. ASSUME NEW k \in Nat, k < Len(sv), Good(k)
      PROVE  Good(k + 1)
  <2>1. k + 1 \in 1 .. Len(sv) /\ (k + 1) - 1 = k
    BY <1>1, <1>3
  <2>2. PICK b \in BOOLEAN : b = (sv[k + 1].entity_type \in types)
    <3>1. (sv[k + 1].entity_type \in types) \in BOOLEAN
      OBVIOUS
    <3>2. QED
      BY <3>1
  <2>3. f[k + 1] = EntityOps(g, f[k], sv[k + 1], ResolveEntity(g, sv[k + 1], answers), b)
    BY <1>1, <2>1, <2>2
  <2>4. PICK e \in SurvivorRecords : e = sv[k + 1]
    BY <2>1, ElementOfSeq
  <2>9. PICK match : match = ResolveEntity(g, e, answers)
    OBVIOUS
  <2>5. MatchSound(g, e, match)
    BY <2>1, <2>4, <2>9, ResolveEntityOK
  <2>6. AllSound(g, f[k])
    BY <1>3 DEF EntitiesSound
  <2>7. Apart(f[k + 1])
    BY <1>3, <2>2, <2>3, <2>4, <2>9, <2>5, <2>6, EntityApart DEF MatchSound
  <2>8. QED
    BY <1>3, <2>3, <2>7, EntityStep
<1>4. 0 \in T /\ \A k \in Nat : k < Len(sv) /\ k \in T => k + 1 \in T
  <2> HIDE DEF Good
  <2>1. QED
    BY <1>2, <1>3
<1>5. Len(sv) \in T
  <2> HIDE DEF T
  <2>1. QED
    BY <1>1, <1>4, UpToInduction
<1>6. QED
  BY <1>5 DEF f

LEMMA ContinuedApart ==
    ASSUME NEW g, NEW ops, OneUpdate(ops), NEW t, Continues(g, ops, t)
    PROVE  OneUpdate(t)
  BY DEF Continues, Begins, OfEntity, OneUpdate, UpdateAt

\* No two new entities have one name.
NamedApart(ops) ==
    \A i, j \in 1 .. Len(ops) :
        /\ ops[i].kind = "CreateNode" /\ ops[j].kind = "CreateNode"
        /\ Fold[ops[i].name] = Fold[ops[j].name]
        => i = j

LEMMA NamesApart ==
    ASSUME NEW g, NEW sv, NEW es, SurvivorsSound(sv, es), NEW answers,
           NEW ops, PatchSound(g, ops), AllVoiced(g, sv, answers, ops)
    PROVE  NamedApart(ops)
<1> SUFFICES ASSUME NEW i \in 1 .. Len(ops), NEW j \in 1 .. Len(ops),
                    ops[i].kind = "CreateNode", ops[j].kind = "CreateNode",
                    Fold[ops[i].name] = Fold[ops[j].name]
             PROVE  i = j
  BY DEF NamedApart
<1>1. PICK m \in 1 .. Len(sv) : sv[m].temp_id = ops[i].temp_id /\ sv[m].name = ops[i].name
  BY DEF AllVoiced, Voiced, ToSet, SurvivorsSound
<1>2. PICK n \in 1 .. Len(sv) : sv[n].temp_id = ops[j].temp_id /\ sv[n].name = ops[j].name
  BY DEF AllVoiced, Voiced, ToSet, SurvivorsSound
<1>3. m = n
  BY <1>1, <1>2 DEF SurvivorsSound
<1>4. QED
  BY <1>1, <1>2, <1>3 DEF PatchSound, Introduces

-----------------------------------------------------------------------------
(* The assertions of a patch, and the relations they are for. *)

\* op asserts the relation r, whose ends are s and o.
AssertsFor(op, r, s, o, deps) ==
    /\ op.kind = "AssertEdge" /\ op.depends_on = deps
    /\ op.subject = s /\ op.predicate = r.predicate /\ op.object = o

SubjectOf(g, sv, answers, r) == Refers(g, sv, answers, r.subject)
ObjectOf(g, sv, answers, r) == Refers(g, sv, answers, r.object)

\* The edges of g that say the relation r already.
Exact(g, sv, answers, r) ==
    EdgesBetween(g, SubjectOf(g, sv, answers, r).canonical_id, ObjectOf(g, sv, answers, r).canonical_id,
                 r.predicate)

Repeats(op, exact) == op.kind = "ReinforceEdge" /\ op.target \in exact

AssertsRelation(g, sv, answers, ops, op, r) ==
    AssertsFor(op, r, SubjectOf(g, sv, answers, r), ObjectOf(g, sv, answers, r),
               Creators(ops, {r.subject, r.object}))

\* Of the first k relations each is repeated or asserted, and nothing else is; only a
\* relation that is new opens or closes an edge; ops are the ops of the entities.
Covers(g, sv, answers, rs, ops, t, k) ==
    /\ \A n \in 1 .. k : \E i \in 1 .. Len(t) :
        \/ AssertsRelation(g, sv, answers, ops, t[i], rs[n])
        \/ Repeats(t[i], Exact(g, sv, answers, rs[n]))
    /\ \A i \in 1 .. Len(t) : t[i].kind = "AssertEdge" =>
            \E n \in 1 .. k : AssertsRelation(g, sv, answers, ops, t[i], rs[n])
    /\ \A i \in 1 .. Len(t) : t[i].kind \in {"AssertEdge", "InvalidateEdge"} =>
            \E n \in 1 .. k : Exact(g, sv, answers, rs[n]) = {}

\* The ops u of the relation r repeat an edge of exact, if there is one, and nothing
\* else, or assert r.
Says(u, exact, r, s, o, deps) ==
    /\ IsSequence(u)
    /\ \E i \in 1 .. Len(u) : AssertsFor(u[i], r, s, o, deps) \/ Repeats(u[i], exact)
    /\ \A i \in 1 .. Len(u) : u[i].kind = "AssertEdge" => AssertsFor(u[i], r, s, o, deps)
    /\ exact # {} => \A i \in 1 .. Len(u) : u[i].kind = "ReinforceEdge"

LEMMA ReinforceAnswers ==
    ASSUME NEW r, NEW exact, NEW e \in exact, NEW u, u = <<Reinforce(r, e)>>, NEW s, NEW o, NEW deps
    PROVE  Says(u, exact, r, s, o, deps)
<1>1. PICK x : x = Reinforce(r, e)
  OBVIOUS
<1>2. x.kind = "ReinforceEdge" /\ x.target = e
  <2>1. IsReinforce(x, r, e)
    BY <1>1, ReinforceIs
  <2>2. QED
    BY <2>1 DEF IsReinforce
<1>3. u = <<x>> /\ u \in Seq({x})
  BY <1>1
<1>4. 1 \in 1 .. Len(u) /\ \A i \in 1 .. Len(u) : u[i] = x
  BY <1>3
<1>5. QED
  BY <1>2, <1>3, <1>4 DEF Says, Repeats, IsSequence

LEMMA AssertAnswers ==
    ASSUME NEW r, NEW s, NEW o, NEW deps, NEW semantic, NEW a, IsAssert(a, r, s, o, deps, semantic),
           NEW g, NEW u, Closings(u, a, r, g), NEW exact, exact = {}
    PROVE  Says(u, exact, r, s, o, deps)
<1>1. AssertsFor(a, r, s, o, deps)
  BY DEF IsAssert, AssertsFor
<1>2. \A i \in 1 .. Len(u) : i # 1 => u[i].kind = "InvalidateEdge"
  BY DEF Closings, IsInvalidate
<1>3. u[1] = a /\ IsSequence(u) /\ 1 \in 1 .. Len(u)
  BY DEF Closings
<1>4. QED
  BY <1>1, <1>2, <1>3 DEF Says

LEMMA CorrelateAnswers ==
    ASSUME NEW g, GraphOK(g), NEW r \in RelationRecords, NEW s, NEW o, NEW deps, NEW verdict,
           EdgesBetween(g, s.canonical_id, o.canonical_id, r.predicate) = {} =>
                JudgedSound(g, r, s, o, verdict),
           NEW u, u = Correlate(g, r, s, o, deps, verdict),
           NEW exact, exact = EdgesBetween(g, s.canonical_id, o.canonical_id, r.predicate)
    PROVE  Says(u, exact, r, s, o, deps)
<1>2. \/ exact # {} /\ u = <<Reinforce(r, CHOOSE e \in exact : TRUE)>>
      \/ /\ exact = {}
         /\ \E semantic \in BOOLEAN : /\ IsAssert(u[1], r, s, o, deps, semantic)
                                      /\ Closings(u, u[1], r, g)
  BY CorrelateShape
<1>3. CASE exact # {} /\ u = <<Reinforce(r, CHOOSE e \in exact : TRUE)>>
  <2>1. PICK e \in exact : e = CHOOSE x \in exact : TRUE
    BY <1>3
  <2>2. u = <<Reinforce(r, e)>>
    BY <1>3, <2>1
  <2>3. QED
    BY <2>2, ReinforceAnswers, Zenon
<1>4. CASE /\ exact = {}
           /\ \E semantic \in BOOLEAN : /\ IsAssert(u[1], r, s, o, deps, semantic)
                                        /\ Closings(u, u[1], r, g)
  BY <1>4, AssertAnswers, Zenon
<1>5. QED
  BY <1>2, <1>3, <1>4

LEMMA CoverStep ==
    ASSUME NEW g, NEW sv, NEW answers, NEW rs, NEW ops, NEW t, IsSequence(t),
           NEW k \in Nat, Covers(g, sv, answers, rs, ops, t, k), NEW r, r = rs[k + 1],
           NEW exact, exact = Exact(g, sv, answers, r),
           NEW u, Says(u, exact, r, SubjectOf(g, sv, answers, r), ObjectOf(g, sv, answers, r),
                          Creators(ops, {r.subject, r.object})),
           NEW v, v = t \o u
    PROVE  IsSequence(v) /\ Covers(g, sv, answers, rs, ops, v, k + 1)
<1> DEFINE Is(op, n) == AssertsRelation(g, sv, answers, ops, op, rs[n])
           Has(op, n) == Repeats(op, Exact(g, sv, answers, rs[n]))
           New(n) == Exact(g, sv, answers, rs[n]) = {}
           Edges == {"AssertEdge", "InvalidateEdge"}
<1>1. /\ IsSequence(u)
      /\ \E i \in 1 .. Len(u) : Is(u[i], k + 1) \/ Has(u[i], k + 1)
      /\ \A i \in 1 .. Len(u) : u[i].kind = "AssertEdge" => Is(u[i], k + 1)
      /\ \A i \in 1 .. Len(u) : u[i].kind \in Edges => New(k + 1)
  BY DEF Says, AssertsRelation
<1>2. /\ \A n \in 1 .. k : \E i \in 1 .. Len(t) : Is(t[i], n) \/ Has(t[i], n)
      /\ \A i \in 1 .. Len(t) : t[i].kind = "AssertEdge" => \E n \in 1 .. k : Is(t[i], n)
      /\ \A i \in 1 .. Len(t) : t[i].kind \in Edges => \E n \in 1 .. k : New(n)
  BY DEF Covers
<1> HIDE DEF Is, Has, New, Edges
<1>3. /\ Begins(t, v) /\ IsSequence(v)
      /\ \A i \in 1 .. Len(u) : Len(t) + i \in 1 .. Len(v) /\ v[Len(t) + i] = u[i]
      /\ \A i \in 1 .. Len(v) : i \in 1 .. Len(t) \/ \E j \in 1 .. Len(u) : i = Len(t) + j
  <2>1. IsSequence(u)
    BY <1>1
  <2>2. Begins(t, v) /\ IsSequence(v)
    BY <2>1, ConcatAny
  <2>3. ASSUME NEW i \in 1 .. Len(u) PROVE Len(t) + i \in 1 .. Len(v) /\ v[Len(t) + i] = u[i]
    BY <2>1, ConcatAny
  <2>4. \A i \in 1 .. Len(v) : i \in 1 .. Len(t) \/ \E j \in 1 .. Len(u) : i = Len(t) + j
    BY <2>1, ConcatAny
  <2>5. QED
    BY <2>2, <2>3, <2>4
<1>4. \A i \in 1 .. Len(t) : i \in 1 .. Len(v) /\ v[i] = t[i]
  BY <1>3 DEF Begins
<1>5. /\ \A n \in 1 .. k + 1 : n \in 1 .. k \/ n = k + 1
      /\ \A n \in 1 .. k : n \in 1 .. k + 1
      /\ k + 1 \in 1 .. k + 1
  OBVIOUS
<1>6. \A n \in 1 .. k + 1 : \E i \in 1 .. Len(v) : Is(v[i], n) \/ Has(v[i], n)
  BY <1>1, <1>2, <1>3, <1>4, <1>5
<1>7. ASSUME NEW i \in 1 .. Len(v), v[i].kind = "AssertEdge"
      PROVE  \E n \in 1 .. k + 1 : Is(v[i], n)
  BY <1>1, <1>2, <1>3, <1>4, <1>5, <1>7
<1>8. ASSUME NEW i \in 1 .. Len(v), v[i].kind \in Edges
      PROVE  \E n \in 1 .. k + 1 : New(n)
  BY <1>1, <1>2, <1>3, <1>4, <1>5, <1>8
<1>9. QED
  BY <1>3, <1>6, <1>7, <1>8 DEF Covers, Is, Has, New, Edges

LEMMA RelationsCovered ==
    ASSUME NEW g, GraphOK(g), NEW sv \in Seq(SurvivorRecords), DistinctIds(sv),
           NEW answers, AnswersSound(g, sv, answers),
           NEW ops, EntitiesSound(g, sv, answers, ops, Len(sv)),
           \A i \in 1 .. Len(ops) : OfEntity(ops, i),
           NEW rs, MergedSound(rs, sv), NEW verdict, VerdictSound(g, sv, rs, answers, verdict),
           NEW t, t = RelationPatch(g, sv, rs, ops, answers, verdict)[Len(rs)]
    PROVE  Covers(g, sv, answers, rs, ops, t, Len(rs))
<1> DEFINE f == RelationPatch(g, sv, rs, ops, answers, verdict)
           s(k) == Refers(g, sv, answers, rs[k].subject)
           o(k) == Refers(g, sv, answers, rs[k].object)
           deps(k) == Creators(ops, {rs[k].subject, rs[k].object})
           Good(k) == IsSequence(f[k]) /\ Covers(g, sv, answers, rs, ops, f[k], k)
           T == {k \in Nat : Good(k)}
<1>1. rs \in Seq(RelationRecords) /\ Len(rs) \in Nat
  BY DEF MergedSound
<1>2. /\ f[0] = ops
      /\ \A k \in 1 .. Len(rs) : f[k] = f[k - 1] \o Correlate(g, rs[k], s(k), o(k), deps(k), verdict)
  <2>1. RelationByRelation(f, g, sv, rs, ops, answers, verdict)
    BY <1>1, RelationPatchUpTo
  <2>2. QED
    BY <2>1 DEF RelationByRelation
<1>3. t = f[Len(rs)]
  OBVIOUS
<1> HIDE DEF f
<1>4. Good(0)
  <2>1. IsSequence(ops)
    BY DEF EntitiesSound, AllSound
  <2>2. \A n \in 1 .. 0 : FALSE
    OBVIOUS
  <2>3. QED
    BY <1>2, <2>1, <2>2 DEF Covers, OfEntity
<1>5. ASSUME NEW k \in Nat, k < Len(rs), Good(k)
      PROVE  Good(k + 1)
  <2>1. k + 1 \in 1 .. Len(rs) /\ (k + 1) - 1 = k
    BY <1>1, <1>5
  <2>2. PICK n \in 1 .. Len(rs) : n = k + 1
    BY <2>1
  <2>3. PICK r \in RelationRecords : r = rs[n]
    BY <1>1, ElementOfSeq
  <2>4. PICK ss, oo, dd : ss = s(n) /\ oo = o(n) /\ dd = deps(n)
    OBVIOUS
  <2>5. EdgesBetween(g, ss.canonical_id, oo.canonical_id, r.predicate) = {} =>
            JudgedSound(g, r, ss, oo, verdict)
    BY <2>3, <2>4 DEF VerdictSound
  <2>6. PICK u : u = Correlate(g, r, ss, oo, dd, verdict)
    OBVIOUS
  <2>7. f[k + 1] = f[k] \o u
    BY <1>2, <2>1, <2>2, <2>3, <2>4, <2>6
  <2>8. ss = SubjectOf(g, sv, answers, r) /\ oo = ObjectOf(g, sv, answers, r)
        /\ dd = Creators(ops, {r.subject, r.object})
    BY <2>3, <2>4 DEF SubjectOf, ObjectOf
  <2>9. PICK exact : exact = EdgesBetween(g, ss.canonical_id, oo.canonical_id, r.predicate)
    OBVIOUS
  <2>10. Says(u, exact, r, ss, oo, dd)
    BY <2>5, <2>6, <2>9, CorrelateAnswers
  <2>11. exact = Exact(g, sv, answers, r)
    BY <2>8, <2>9 DEF Exact
  <2>12. r = rs[k + 1]
    BY <2>2, <2>3
  <2>13. QED
    BY <1>5, <2>7, <2>8, <2>10, <2>11, <2>12, CoverStep
<1>6. 0 \in T /\ \A k \in Nat : k < Len(rs) /\ k \in T => k + 1 \in T
  <2> HIDE DEF Good
  <2>1. QED
    BY <1>4, <1>5
<1>7. Len(rs) \in T
  <2> HIDE DEF T
  <2>1. QED
    BY <1>1, <1>6, UpToInduction
<1>8. QED
  BY <1>3, <1>7

IsRef(ref) == ref = Ref(ref.temp_id, ref.canonical_id)

\* A mention that is an entity of g has no op that creates it.
LEMMA RefersApart ==
    ASSUME NEW g, NEW sv \in Seq(SurvivorRecords), DistinctIds(sv), NEW answers,
           NEW ops, AllVoiced(g, sv, answers, ops), IsSequence(ops),
           NEW t \in TempIds(sv), NEW ref, ref = Refers(g, sv, answers, t)
    PROVE  /\ IsRef(ref)
           /\ ref.canonical_id # None => \A i \in Creators(ops, {t}) : FALSE
<1>1. PICK k \in 1 .. Len(sv) : k = PlaceOf(sv, t) /\ sv[k].temp_id = t
  BY PlaceOfTempId
<1>2. PICK m : m = ResolveEntity(g, sv[k], answers)
  OBVIOUS
<1>3. ref = IF m.id = None THEN Ref(t, None) ELSE Ref(None, m.id)
  BY <1>1, <1>2 DEF Refers, PlaceOf
<1>4. IsRef(ref) /\ (ref.canonical_id # None => m.id # None)
  BY <1>3 DEF IsRef, Ref
<1>5. ASSUME m.id # None, NEW i \in Creators(ops, {t})
      PROVE  FALSE
  <2>1. i \in 1 .. Len(ops) /\ ops[i].kind = "CreateNode" /\ ops[i].temp_id = t
    <3>1. PICK S : ops \in Seq(S)
      BY DEF IsSequence
    <3>2. DOMAIN ops = 1 .. Len(ops)
      BY <3>1
    <3>3. QED
      BY <3>2 DEF Creators
  <2>2. PICK e \in ToSet(sv) : e.temp_id = t /\ ResolveEntity(g, e, answers).id = None
    BY <2>1 DEF AllVoiced, Voiced
  <2>3. PICK n \in 1 .. Len(sv) : e = sv[n]
    BY <2>2 DEF ToSet
  <2>4. n = k
    BY <1>1, <2>2, <2>3 DEF DistinctIds
  <2>5. QED
    BY <1>2, <1>5, <2>2, <2>3, <2>4
<1>6. QED
  BY <1>4, <1>5

\* An assertion between entities of g waits for nothing, and says them in one way.
Free(op) ==
    op.kind = "AssertEdge" =>
        /\ IsRef(op.subject) /\ IsRef(op.object)
        /\ BothCanonical(op.subject, op.object) => op.depends_on = {}

LEMMA AssertFree ==
    ASSUME NEW g, NEW sv \in Seq(SurvivorRecords), DistinctIds(sv), NEW answers,
           NEW ops, AllVoiced(g, sv, answers, ops), IsSequence(ops),
           NEW r, r.subject \in TempIds(sv), r.object \in TempIds(sv),
           NEW op, AssertsRelation(g, sv, answers, ops, op, r)
    PROVE  Free(op)
<1>1. /\ op.subject = Refers(g, sv, answers, r.subject)
      /\ op.object = Refers(g, sv, answers, r.object)
      /\ op.depends_on = Creators(ops, {r.subject, r.object})
  BY DEF AssertsRelation, AssertsFor, SubjectOf, ObjectOf
<1>2. ASSUME NEW t \in TempIds(sv), NEW ref, ref = Refers(g, sv, answers, t)
      PROVE  /\ IsRef(ref)
             /\ ref.canonical_id # None => \A i \in Creators(ops, {t}) : FALSE
  BY <1>2, RefersApart
<1>3. /\ IsRef(op.subject)
      /\ op.subject.canonical_id # None => \A i \in Creators(ops, {r.subject}) : FALSE
      /\ IsRef(op.object)
      /\ op.object.canonical_id # None => \A i \in Creators(ops, {r.object}) : FALSE
  BY <1>1, <1>2
<1>4. \A i \in op.depends_on : i \in Creators(ops, {r.subject}) \/ i \in Creators(ops, {r.object})
  BY <1>1 DEF Creators
<1>5. BothCanonical(op.subject, op.object) => op.depends_on = {}
  BY <1>3, <1>4 DEF BothCanonical
<1>6. QED
  BY <1>2, <1>3, <1>5 DEF Free

\* Each of the relations has its assertion, or reinforces what g has of it; each
\* assertion is of a relation, and if g has them all there is none.
Complete(g, sv, answers, rs, ops) ==
    /\ \A n \in 1 .. Len(rs) : \E i \in 1 .. Len(ops) :
        \/ /\ ops[i].kind = "AssertEdge" /\ ops[i].predicate = rs[n].predicate
           /\ ops[i].subject = SubjectOf(g, sv, answers, rs[n])
           /\ ops[i].object = ObjectOf(g, sv, answers, rs[n])
        \/ Repeats(ops[i], Exact(g, sv, answers, rs[n]))
    /\ \A i \in 1 .. Len(ops) : ops[i].kind = "AssertEdge" =>
            \E n \in 1 .. Len(rs) : ops[i].predicate = rs[n].predicate
    /\ \A i \in 1 .. Len(ops) : ops[i].kind \in {"AssertEdge", "InvalidateEdge"} =>
            \E n \in 1 .. Len(rs) : Exact(g, sv, answers, rs[n]) = {}

\* The ops of a patch do not contradict each other, and leave no new entity and no
\* relation out.
Whole(g, sv, answers, rs, ops) ==
    /\ OneUpdate(ops)
    /\ NamedApart(ops)
    /\ \A m \in 1 .. Len(sv) : ResolveEntity(g, sv[m], answers).id = None => Created(ops, sv[m].temp_id)
    /\ \A m \in 1 .. Len(sv) : Guessed(ResolveEntity(g, sv[m], answers)) => Merged(ops, sv[m].temp_id)
    /\ \A i \in 1 .. Len(ops) : Free(ops[i])
    /\ Complete(g, sv, answers, rs, ops)

\* Whatever the model answers, a patch has one update for a node and one creation for
\* a name, that for each mention it takes for new, and a merge for each that it does not
\* find by its name; its assertions between known entities wait for nothing, and each relation of the document is asserted or
\* reinforces an edge of the graph: see Whole.
THEOREM PatchWhole ==
    ASSUME NEW g, GraphOK(g), NEW d \in DOMAIN Content,
           NEW answers \in Answers(g, Extract(d).entities),
           NEW verdict \in Adjudications(g, Extract(d), answers)
    PROVE  Whole(g, Survivors(Extract(d).entities), answers,
                 MergedRelations(g, Extract(d).entities, Extract(d).relations),
                 ResolveNode(g, Extract(d), answers, verdict))
<1> DEFINE es == Extract(d).entities
           sv == Survivors(es)
           rs == MergedRelations(g, es, Extract(d).relations)
           types == NewTypes(g, es)
           ops == EntityPatch(g, sv, types, answers)[Len(sv)]
<1>1. CandidatesOK(es, Extract(d).relations)
  BY ExtractOK
<1>2. SurvivorsSound(sv, es) /\ sv \in Seq(SurvivorRecords) /\ DistinctIds(sv)
  <2>1. SurvivorsSound(sv, es)
    BY <1>1, SurvivorsOK
  <2>2. QED
    BY <2>1 DEF SurvivorsSound, DistinctIds
<1>3. AnswersSound(g, sv, answers)
  BY <1>1, AnswersOK
<1>4. MergedSound(rs, sv)
  BY <1>1, MergedRelationsOK
<1>5. VerdictSound(g, sv, rs, answers, verdict)
  <2>1. rs \in Seq(RelationRecords)
    BY <1>4 DEF MergedSound
  <2>2. QED
    BY <2>1, VerdictOK
<1>6. ResolveNode(g, Extract(d), answers, verdict) = RelationPatch(g, sv, rs, ops, answers, verdict)[Len(rs)]
  BY DEF ResolveNode
<1> HIDE DEF sv, rs, types, es
<1>7. EntitiesSound(g, sv, answers, ops, Len(sv)) /\ AllVoiced(g, sv, answers, ops) /\ Apart(ops)
  BY <1>2, <1>3, EntityPatchOK, EntitiesVoiced, EntitiesApart
<1> HIDE DEF ops
<1>8. PICK t : /\ t = RelationPatch(g, sv, rs, ops, answers, verdict)[Len(rs)]
               /\ Continues(g, ops, t) /\ PatchSound(g, t)
  BY <1>2, <1>3, <1>4, <1>5, <1>7, RelationsOK
<1>9. Covers(g, sv, answers, rs, ops, t, Len(rs))
  <2>1. \A i \in 1 .. Len(ops) : OfEntity(ops, i)
    BY <1>7 DEF Apart
  <2>2. QED
    BY <1>2, <1>3, <1>4, <1>5, <1>7, <1>8, <2>1, RelationsCovered
<1>10. OneUpdate(t)
  BY <1>7, <1>8, ContinuedApart DEF Apart
<1>11. NamedApart(t)
  <2>1. AllVoiced(g, sv, answers, t)
    BY <1>7, <1>8, ContinuedVoiced
  <2>2. QED
    BY <1>2, <1>8, <2>1, NamesApart
<1>12. ASSUME NEW i \in 1 .. Len(t)
       PROVE  Free(t[i])
  <2>1. CASE t[i].kind # "AssertEdge"
    BY <2>1 DEF Free
  <2>2. CASE t[i].kind = "AssertEdge"
    <3>1. PICK n \in 1 .. Len(rs) : AssertsRelation(g, sv, answers, ops, t[i], rs[n])
      BY <1>9, <2>2 DEF Covers
    <3>2. rs[n].subject \in TempIds(sv) /\ rs[n].object \in TempIds(sv)
      BY <1>4 DEF MergedSound
    <3>3. IsSequence(ops)
      BY <1>7 DEF EntitiesSound, AllSound
    <3>4. QED
      BY <1>2, <1>7, <3>1, <3>2, <3>3, AssertFree
  <2>3. QED
    BY <2>1, <2>2
<1>13. Complete(g, sv, answers, rs, t)
  <2>1. \A op, r : AssertsRelation(g, sv, answers, ops, op, r) =>
            /\ op.kind = "AssertEdge" /\ op.predicate = r.predicate
            /\ op.subject = SubjectOf(g, sv, answers, r)
            /\ op.object = ObjectOf(g, sv, answers, r)
    BY DEF AssertsRelation, AssertsFor
  <2>2. QED
    BY <1>9, <2>1 DEF Covers, Complete
<1>14. \A m \in 1 .. Len(sv) :
            /\ ResolveEntity(g, sv[m], answers).id = None => Created(t, sv[m].temp_id)
            /\ Guessed(ResolveEntity(g, sv[m], answers)) => Merged(t, sv[m].temp_id)
  <2>1. Alike(ops, t)
    BY <1>8, BeginsAlike DEF Continues
  <2>2. QED
    BY <1>7, <2>1, CreatedAlike, MergedAlike DEF EntitiesSound
<1>15. Whole(g, sv, answers, rs, t)
  BY <1>10, <1>11, <1>12, <1>13, <1>14 DEF Whole
<1>16. QED
  BY <1>6, <1>8, <1>15 DEF sv, rs, es

-----------------------------------------------------------------------------
(* The relations of a document, merged against two graphs. *)

\* The merged relation m is for the relation r of the document.
KeptAs(m, g, es, r) ==
    /\ m.subject = Alias(es, r.subject)
    /\ PredicateKey[m.predicate] = PredicateKey[NormalizePredicate(g, r.predicate)]
    /\ m.object = Alias(es, r.object)

\* Each relation of the document is among the merged ones, between the survivors of
\* its ends, and they are all of the document.
LEMMA RelationsKept ==
    ASSUME NEW g, GraphOK(g), NEW es, NEW rs, CandidatesOK(es, rs),
           NEW merged, merged = MergedRelations(g, es, rs)
    PROVE  /\ \A k \in 1 .. Len(rs) : \E n \in 1 .. Len(merged) : KeptAs(merged[n], g, es, rs[k])
           /\ \A n \in 1 .. Len(merged) : \E k \in 1 .. Len(rs) : KeptAs(merged[n], g, es, rs[k])
<1> DEFINE aliased == [i \in DOMAIN rs |->
                        [rs[i] EXCEPT !.subject = Alias(es, @), !.object = Alias(es, @),
                                      !.predicate = NormalizePredicate(g, @)]]
           key == [i \in DOMAIN aliased |-> RelationKey(aliased[i])]
           groups == Groups(aliased, key)
           M(ms) == [subject |-> ms[1].subject, predicate |-> ms[1].predicate,
                     object |-> ms[1].object,
                     valid_from |-> FirstGiven([j \in DOMAIN ms |-> ms[j].valid_from]),
                     extraction |-> MostConfident(ms).conf, support |-> Len(ms)]
<1>1. DOMAIN rs = 1 .. Len(rs) /\ Len(rs) \in Nat
  BY DEF CandidatesOK
<1>2. \A i \in 1 .. Len(rs) : aliased[i] = Aliased(g, es, rs[i])
  BY <1>1 DEF Aliased
<1>3. merged = [i \in DOMAIN groups |-> M(groups[i])]
  BY DEF MergedRelations
<1>4. \A i \in 1 .. Len(rs) : key[i] = RelationKey(aliased[i])
  BY <1>1
<1> HIDE DEF key
<1>5. aliased \in Seq(RelationMentions) /\ Len(aliased) = Len(rs)
  <2>1. \A i \in 1 .. Len(rs) : aliased[i] \in RelationMentions
    <3> HIDE DEF aliased
    <3>1. QED
      BY <1>2, AliasedOK
  <2>2. aliased \in [1 .. Len(rs) -> RelationMentions]
    BY <1>1, <2>1
  <2> HIDE DEF aliased
  <2>3. QED
    BY <1>1, <2>2, FunctionIsSeq
<1> HIDE DEF aliased
<1>6. PICK first : groups \in Seq(Seq(RelationMentions)) /\ Grouping(first, groups, aliased, key)
  BY <1>5, GroupsOf
<1> HIDE DEF groups
<1>7. Len(merged) = Len(groups) /\ Len(groups) \in Nat
  <2>1. DOMAIN merged = 1 .. Len(groups) /\ Len(groups) \in Nat
    BY <1>3, <1>6
  <2>2. merged \in [1 .. Len(groups) -> {merged[i] : i \in 1 .. Len(groups)}]
    BY <1>3, <2>1
  <2>3. QED
    BY <2>1, <2>2, FunctionIsSeq
<1>8. ASSUME NEW k \in 1 .. Len(rs), NEW n \in 1 .. Len(groups), key[first[n]] = key[k]
      PROVE  KeptAs(merged[n], g, es, rs[k])
  <2>1. first[n] \in 1 .. Len(rs) /\ groups[n][1] = aliased[first[n]]
    BY <1>5, <1>6 DEF Grouping, GroupOf
  <2>2. /\ groups[n][1].subject = aliased[k].subject
        /\ PredicateKey[groups[n][1].predicate] = PredicateKey[aliased[k].predicate]
        /\ groups[n][1].object = aliased[k].object
    BY <1>4, <1>8, <2>1 DEF RelationKey
  <2>3. /\ aliased[k].subject = Alias(es, rs[k].subject)
        /\ aliased[k].predicate = NormalizePredicate(g, rs[k].predicate)
        /\ aliased[k].object = Alias(es, rs[k].object)
    <3>1. rs[k] \in RelationMentions
      BY ElementOfSeq DEF CandidatesOK
    <3>2. PICK r \in RelationMentions : r = rs[k]
      BY <3>1
    <3>3. /\ Aliased(g, es, r).subject = Alias(es, r.subject)
          /\ Aliased(g, es, r).predicate = NormalizePredicate(g, r.predicate)
          /\ Aliased(g, es, r).object = Alias(es, r.object)
      BY DEF Aliased, RelationMentions
    <3>4. QED
      BY <1>2, <3>2, <3>3
  <2>4. /\ merged[n].subject = groups[n][1].subject
        /\ merged[n].predicate = groups[n][1].predicate
        /\ merged[n].object = groups[n][1].object
    <3>1. n \in DOMAIN groups
      BY <1>6
    <3>2. merged[n] = M(groups[n])
      BY <1>3, <3>1
    <3>3. QED
      BY <3>2
  <2>5. QED
    BY <2>2, <2>3, <2>4 DEF KeptAs
<1>9. ASSUME NEW k \in 1 .. Len(rs)
      PROVE  \E n \in 1 .. Len(merged) : KeptAs(merged[n], g, es, rs[k])
  <2>1. PICK n \in 1 .. Len(groups) : key[first[n]] = key[k]
    BY <1>5, <1>6 DEF Grouping
  <2>2. QED
    BY <1>7, <1>8, <2>1
<1>10. ASSUME NEW n \in 1 .. Len(merged)
       PROVE  \E k \in 1 .. Len(rs) : KeptAs(merged[n], g, es, rs[k])
  <2>1. n \in 1 .. Len(groups) /\ first[n] \in 1 .. Len(rs)
    BY <1>5, <1>6, <1>7 DEF Grouping
  <2>2. QED
    BY <1>8, <2>1
<1>11. QED
  BY <1>9, <1>10

LEMMA MergedSame ==
    ASSUME NEW es, NEW rs, CandidatesOK(es, rs), NEW g, NEW h,
           \A k \in 1 .. Len(rs) :
                NormalizePredicate(h, rs[k].predicate) = NormalizePredicate(g, rs[k].predicate)
    PROVE  MergedRelations(h, es, rs) = MergedRelations(g, es, rs)
<1> DEFINE A(x) == [i \in DOMAIN rs |->
                        [rs[i] EXCEPT !.subject = Alias(es, @), !.object = Alias(es, @),
                                      !.predicate = NormalizePredicate(x, @)]]
           M(aliased) ==
                LET groups == Groups(aliased, [i \in DOMAIN aliased |-> RelationKey(aliased[i])])
                IN  [i \in DOMAIN groups |->
                        [subject |-> groups[i][1].subject, predicate |-> groups[i][1].predicate,
                         object |-> groups[i][1].object,
                         valid_from |-> FirstGiven([j \in DOMAIN groups[i] |-> groups[i][j].valid_from]),
                         extraction |-> MostConfident(groups[i]).conf, support |-> Len(groups[i])]]
<1>1. MergedRelations(g, es, rs) = M(A(g)) /\ MergedRelations(h, es, rs) = M(A(h))
  BY DEF MergedRelations
<1> HIDE DEF M
<1>2. A(h) = A(g)
  <2>1. DOMAIN rs = 1 .. Len(rs)
    BY DEF CandidatesOK
  <2>2. ASSUME NEW k \in 1 .. Len(rs)
        PROVE  [rs[k] EXCEPT !.subject = Alias(es, @), !.object = Alias(es, @),
                             !.predicate = NormalizePredicate(h, @)]
                = [rs[k] EXCEPT !.subject = Alias(es, @), !.object = Alias(es, @),
                                !.predicate = NormalizePredicate(g, @)]
    <3>1. rs[k] \in RelationMentions
      BY ElementOfSeq DEF CandidatesOK
    <3>2. PICK r \in RelationMentions : r = rs[k]
      BY <3>1
    <3>3. PICK q : q = NormalizePredicate(g, r.predicate) /\ q = NormalizePredicate(h, r.predicate)
      BY <3>2
    <3>4. QED
      BY <3>2, <3>3 DEF RelationMentions
  <2>3. QED
    BY <2>1, <2>2
<1> HIDE DEF A
<1>3. QED
  BY <1>1, <1>2
=============================================================================
