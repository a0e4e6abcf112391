-------------------------- MODULE EventLoopProofs ---------------------------
(***************************************************************************)
(* What holds of the event loop for any set of sources: nothing is watched *)
(* without a handler behind it, epoll forgets no ready source, the stop    *)
(* reaches the thread, and nobody who waits is overtaken.                  *)
(*                                                                         *)
(* epoll's list is filtered and turned while other threads add to it, so   *)
(* most of the work is lemmas about lists.  The filter is a recursive      *)
(* function; that it is one, and what it keeps, is shown by induction.     *)
(***************************************************************************)
EXTENDS EventLoop, SequenceTheorems, FiniteSetTheorems,
        WellFoundedInduction, TLAPS

-----------------------------------------------------------------------------
(* Induction over the natural numbers, for a set instead of a predicate.     *)

Less == {p \in Nat \X Nat : p[1] < p[2]}

\* The library's well-foundedness of <, as a set of pairs
LEMMA LessWellFounded == IsWellFoundedOn(Less, Nat)
<1>1. OpToRel(<, Nat) = Less
  BY Zenon DEF OpToRel, Less
<1> QED BY <1>1, NatLessThanWellFounded, Zenon

\* A set of natural numbers that is not empty has a least member
LEMMA LeastElement ==
  ASSUME NEW T \in SUBSET Nat, T # {}
  PROVE  \E x \in T : \A y \in T : x <= y
<1>1. PICK x \in T : \A y \in T : ~ (<<y, x>> \in Less)
  BY LessWellFounded, WFMin, Zenon
<1>2. \A y \in T : y < x => <<y, x>> \in Less
  BY DEF Less
<1>3. \A y \in T : ~ (y < x)
  BY <1>1, <1>2, Zenon
<1>4. \A m, n \in Nat : ~ (n < m) => m <= n
  OBVIOUS
<1> QED BY <1>3, <1>4

\* ... so a set that holds 0 and every successor holds all of them
LEMMA SetInduction ==
  ASSUME NEW T \in SUBSET Nat, 0 \in T, \A n \in Nat : n \in T => n + 1 \in T
  PROVE  \A n \in Nat : n \in T
<1> SUFFICES ASSUME Nat \ T # {} PROVE FALSE
  OBVIOUS
<1>1. PICK x \in Nat \ T : \A y \in Nat \ T : x <= y
  <2> DEFINE U == Nat \ T
  <2>1. U \in SUBSET Nat /\ U # {}
    OBVIOUS
  <2> HIDE DEF U
  <2>2. \E x \in U : \A y \in U : x <= y
    BY <2>1, LeastElement
  <2> QED BY <2>2 DEF U
<1>2. x # 0 /\ x - 1 \in Nat
  BY <1>1
<1>3. x - 1 \in T
  BY <1>1, <1>2
<1> QED BY <1>1, <1>2, <1>3

-----------------------------------------------------------------------------
(* The filter Kept: g is the list of what its first 0, 1, .., n steps keep.  *)

KeepOne(s, S, k, i) == IF s[i] \in S THEN Append(k, s[i]) ELSE k

Steps(s, S, g, n) ==
  g = [i \in 0..n |-> IF i = 0 THEN <<>> ELSE KeepOne(s, S, g[i - 1], i)]

\* The recursion of Kept is well defined: there is such a list for every n
LEMMA StepsExist ==
  ASSUME NEW s, NEW S
  PROVE  \A n \in Nat : \E g : Steps(s, S, g, n)
<1> DEFINE T == {n \in Nat : \E g : Steps(s, S, g, n)}
<1>1. 0 \in T
  <2> DEFINE g == [i \in 0..0 |-> <<>>]
  <2>1. Steps(s, S, g, 0)
    BY DEF Steps
  <2> QED BY <2>1
<1>2. ASSUME NEW n \in Nat, n \in T PROVE n + 1 \in T
  <2>1. PICK g : Steps(s, S, g, n)
    BY <1>2
  <2> DEFINE h == [i \in 0..(n + 1) |-> IF i \in 0..n THEN g[i]
                                        ELSE KeepOne(s, S, g[n], n + 1)]
  <2>2. ASSUME NEW i \in 0..(n + 1)
        PROVE  h[i] = IF i = 0 THEN <<>> ELSE KeepOne(s, S, h[i - 1], i)
    <3>1. CASE i = n + 1
      BY <3>1
    <3>2. CASE i \in 0..n /\ i # 0
      <4>1. i - 1 \in 0..n
        BY <3>2
      <4>2. g[i] = KeepOne(s, S, g[i - 1], i)
        BY <2>1, <3>2 DEF Steps
      <4> QED BY <4>1, <4>2, <3>2
    <3>3. CASE i = 0
      BY <2>1, <3>3 DEF Steps
    <3> QED BY <3>1, <3>2, <3>3
  <2>3. Steps(s, S, h, n + 1)
    BY <2>2, Zenon DEF Steps
  <2> QED BY <2>3
<1>3. \A n \in Nat : n \in T
  <2> HIDE DEF T
  <2>1. T \in SUBSET Nat
    BY DEF T
  <2> QED BY <1>1, <1>2, <2>1, SetInduction
<1> QED BY <1>3

\* Kept is the last of them
LEMMA KeptSteps ==
  ASSUME NEW s, NEW S, Len(s) \in Nat
  PROVE  \E g : Steps(s, S, g, Len(s)) /\ Kept(s, S) = g[Len(s)]
<1> DEFINE P(g) == g = [i \in 0..Len(s) |->
        IF i = 0 THEN <<>>
        ELSE IF s[i] \in S THEN Append(g[i - 1], s[i]) ELSE g[i - 1]]
<1>1. \A g : Steps(s, S, g, Len(s)) <=> P(g)
  BY DEF Steps, KeepOne
<1>2. \E g : P(g)
  BY <1>1, StepsExist
<1> DEFINE k == CHOOSE g : P(g)
<1>3. P(k)
  BY <1>2
<1>4. Kept(s, S) = k[Len(s)]
  BY DEF Kept
<1> QED BY <1>1, <1>3, <1>4

\* What the first n steps of the filter have kept, k, of the list s: its
\* members in S, in the order of their positions at
Filtered(s, S, n, k) ==
  /\ k \in Seq(ToSet(s) \intersect S)
  /\ \A i \in 1..n : s[i] \in S => \E j \in 1..Len(k) : k[j] = s[i]
  /\ \E at \in [1..Len(k) -> 1..n] :
       /\ \A j \in 1..Len(k) : k[j] = s[at[j]]
       /\ \A j, l \in 1..Len(k) : j < l => at[j] < at[l]

LEMMA FilteredStep ==
  ASSUME NEW X, NEW s \in Seq(X), NEW S, NEW n \in Nat, n + 1 \in 1..Len(s),
         NEW k, Filtered(s, S, n, k)
  PROVE  Filtered(s, S, n + 1, KeepOne(s, S, k, n + 1))
<1> DEFINE e == s[n + 1]
<1>1. CASE e \notin S
  <2>1. KeepOne(s, S, k, n + 1) = k
    BY <1>1 DEF KeepOne
  <2>2. \A i \in 1..(n + 1) : s[i] \in S => i \in 1..n
    BY <1>1
  <2>3. PICK at \in [1..Len(k) -> 1..n] :
          /\ \A j \in 1..Len(k) : k[j] = s[at[j]]
          /\ \A j, l \in 1..Len(k) : j < l => at[j] < at[l]
    BY DEF Filtered
  <2>4. at \in [1..Len(k) -> 1..(n + 1)]
    OBVIOUS
  <2> QED BY <2>1, <2>2, <2>3, <2>4 DEF Filtered
<1>2. CASE e \in S
  <2> DEFINE h == Append(k, e)
  <2>1. KeepOne(s, S, k, n + 1) = h
    BY <1>2 DEF KeepOne
  <2>2. e \in ToSet(s) \intersect S
    BY <1>2 DEF ToSet
  <2>3. /\ h \in Seq(ToSet(s) \intersect S)
        /\ Len(k) \in Nat /\ Len(h) = Len(k) + 1
        /\ \A j \in 1..Len(k) : h[j] = k[j]
        /\ h[Len(h)] = e
    BY <2>2 DEF Filtered
  <2>4. PICK at \in [1..Len(k) -> 1..n] :
          /\ \A j \in 1..Len(k) : k[j] = s[at[j]]
          /\ \A j, l \in 1..Len(k) : j < l => at[j] < at[l]
    BY DEF Filtered
  <2> DEFINE to == [j \in 1..Len(h) |-> IF j \in 1..Len(k) THEN at[j] ELSE n + 1]
  <2> HIDE DEF h, e
  <2>5. to \in [1..Len(h) -> 1..(n + 1)]
    BY <2>3
  <2>6. \A j \in 1..Len(h) : h[j] = s[to[j]]
    BY <2>3, <2>4 DEF e
  <2>7. \A j, l \in 1..Len(h) : j < l => to[j] < to[l]
    BY <2>3, <2>4
  <2>8. ASSUME NEW i \in 1..(n + 1), s[i] \in S
        PROVE  \E j \in 1..Len(h) : h[j] = s[i]
    <3>1. CASE i = n + 1
      BY <3>1, <2>3 DEF e
    <3>2. CASE i \in 1..n
      <4>1. PICK j \in 1..Len(k) : k[j] = s[i]
        BY <3>2, <2>8 DEF Filtered
      <4> QED BY <4>1, <2>3
    <3> QED BY <3>1, <3>2
  <2>9. \E f \in [1..Len(h) -> 1..(n + 1)] :
         /\ \A j \in 1..Len(h) : h[j] = s[f[j]]
         /\ \A j, l \in 1..Len(h) : j < l => f[j] < f[l]
    <3> HIDE DEF to
    <3> QED BY <2>5, <2>6, <2>7
  <2>10. Filtered(s, S, n + 1, h)
    BY <2>3, <2>8, <2>9 DEF Filtered
  <2> QED BY <2>1, <2>10
<1> QED BY <1>1, <1>2

\* What all the steps have kept
LEMMA KeptFilters ==
  ASSUME NEW X, NEW s \in Seq(X), NEW S
  PROVE  Filtered(s, S, Len(s), Kept(s, S))
<1>1. PICK g : Steps(s, S, g, Len(s)) /\ Kept(s, S) = g[Len(s)]
  BY KeptSteps
<1> DEFINE T == {n \in Nat : n <= Len(s) => Filtered(s, S, n, g[n])}
<1>2. 0 \in T
  <2>1. g[0] = <<>>
    BY <1>1 DEF Steps
  <2>2. Filtered(s, S, 0, <<>>)
    <3>1. 1..0 = {} /\ Len(<<>>) = 0 /\ <<>> \in Seq(ToSet(s) \intersect S)
      OBVIOUS
    <3>2. [j \in {} |-> 0] \in [{} -> {}]
      OBVIOUS
    <3> QED BY <3>1, <3>2, Zenon DEF Filtered
  <2> QED BY <2>1, <2>2
<1>3. ASSUME NEW n \in Nat, n \in T PROVE n + 1 \in T
  <2> SUFFICES ASSUME n + 1 <= Len(s) PROVE Filtered(s, S, n + 1, g[n + 1])
    OBVIOUS
  <2>1. g[n + 1] = KeepOne(s, S, g[n], n + 1)
    BY <1>1 DEF Steps
  <2>2. Filtered(s, S, n, g[n])
    BY <1>3
  <2> QED BY <2>1, <2>2, FilteredStep
<1>4. Len(s) \in T
  <2>1. T \in SUBSET Nat
    OBVIOUS
  <2> HIDE DEF T
  <2> QED BY <1>2, <1>3, <2>1, SetInduction
<1> QED BY <1>1, <1>4

\* The filter keeps the members of S, each as often as the list has it and in
\* the order of the list
LEMMA KeptProperties ==
  ASSUME NEW X, NEW s \in Seq(X), NEW S
  PROVE  /\ Kept(s, S) \in Seq(ToSet(s) \intersect S)
         /\ ToSet(Kept(s, S)) = ToSet(s) \intersect S
         /\ IsInjective(s) => IsInjective(Kept(s, S))
         /\ \A x, y : Precedes(Kept(s, S), x, y) => Precedes(s, x, y)
         /\ IsInjective(s) /\ Kept(s, S) # <<>> =>
              \A x \in S : ~ Precedes(s, x, Kept(s, S)[1])
<1> DEFINE k == Kept(s, S)
<1>1. Filtered(s, S, Len(s), k)
  BY KeptFilters
<1> HIDE DEF k
<1>2. k \in Seq(ToSet(s) \intersect S)
  BY <1>1 DEF Filtered
<1>3. PICK at \in [1..Len(k) -> 1..Len(s)] :
        /\ \A j \in 1..Len(k) : k[j] = s[at[j]]
        /\ \A j, l \in 1..Len(k) : j < l => at[j] < at[l]
  BY <1>1 DEF Filtered
<1>4. ToSet(k) = ToSet(s) \intersect S
  <2>1. ToSet(k) \subseteq ToSet(s) \intersect S
    BY <1>2 DEF ToSet
  <2>2. ASSUME NEW x \in ToSet(s), x \in S PROVE x \in ToSet(k)
    <3>1. PICK i \in 1..Len(s) : s[i] = x
      BY DEF ToSet
    <3>2. PICK j \in 1..Len(k) : k[j] = x
      BY <1>1, <2>2, <3>1 DEF Filtered
    <3> QED BY <1>2, <3>2 DEF ToSet
  <2> QED BY <2>1, <2>2
<1>5. ASSUME IsInjective(s) PROVE IsInjective(k)
  <2> SUFFICES ASSUME NEW i \in 1..Len(k), NEW j \in 1..Len(k), k[i] = k[j]
               PROVE  i = j
    BY <1>2 DEF IsInjective
  <2>1. at[i] \in 1..Len(s) /\ at[j] \in 1..Len(s) /\ s[at[i]] = s[at[j]]
    BY <1>3
  <2>2. at[i] = at[j]
    BY <1>5, <2>1 DEF IsInjective
  <2>3. ~ (i < j) /\ ~ (j < i)
    BY <1>3, <2>1, <2>2
  <2> QED BY <2>3, <1>2
<1>6. ASSUME NEW x, NEW y, Precedes(k, x, y) PROVE Precedes(s, x, y)
  <2>1. PICK i, j \in 1..Len(k) : i < j /\ k[i] = x /\ k[j] = y
    BY <1>6 DEF Precedes
  <2>2. at[i] < at[j] /\ s[at[i]] = x /\ s[at[j]] = y
    BY <1>3, <2>1
  <2> QED BY <2>2, <1>3 DEF Precedes
<1>7. ASSUME IsInjective(s), k # <<>>, NEW x \in S, Precedes(s, x, k[1])
      PROVE  FALSE
  <2>1. Len(k) \in Nat /\ Len(k) # 0
    BY <1>2, <1>7, LenProperties, EmptySeq
  <2>2. 1 \in 1..Len(k)
    BY <2>1
  <2>3. PICK i, f \in 1..Len(s) : i < f /\ s[i] = x /\ s[f] = k[1]
    BY <1>7 DEF Precedes
  <2>4. at[1] = f
    BY <1>3, <1>7, <2>2, <2>3 DEF IsInjective
  <2>5. PICK j \in 1..Len(k) : k[j] = s[i]
    BY <1>1, <2>3 DEF Filtered
  <2>6. at[j] = i
    BY <1>3, <1>7, <2>3, <2>5 DEF IsInjective
  <2>7. j # 1 /\ 1 < j
    BY <2>1, <2>3, <2>4, <2>6
  <2>8. at[1] < at[j]
    BY <1>3, <2>2, <2>7
  <2> QED BY <2>3, <2>4, <2>6, <2>8
<1> QED BY <1>2, <1>4, <1>5, <1>6, <1>7 DEF k

-----------------------------------------------------------------------------
(* A wait turns the list: the first n move behind the others.                *)

LEMMA TurnedList ==
  ASSUME NEW X, NEW s \in Seq(X), IsInjective(s), NEW n \in 0..Len(s),
         NEW r, r = SubSeq(s, n + 1, Len(s)) \o SubSeq(s, 1, n)
  PROVE  r \in Seq(X) /\ IsInjective(r) /\ ToSet(r) = ToSet(s)
<1> DEFINE l == Len(s)
           u == SubSeq(s, n + 1, l)
           v == SubSeq(s, 1, n)
           at == [i \in 1..l |-> IF i <= l - n THEN n + i ELSE i - (l - n)]
<1>1. l \in Nat /\ n \in Nat /\ n <= l /\ DOMAIN s = 1..l
  OBVIOUS
<1>2. /\ u \in Seq(X) /\ Len(u) = l - n
      /\ \A i \in 1..(l - n) : u[i] = s[n + i]
  <2>1. n + 1 \in Int /\ l \in Int /\ \A i \in (n + 1)..l : s[i] \in X
    BY <1>1
  <2> HIDE DEF l
  <2>2. /\ SubSeq(s, n + 1, l) \in Seq(X)
        /\ Len(SubSeq(s, n + 1, l)) = IF n + 1 <= l THEN l - (n + 1) + 1 ELSE 0
        /\ \A i \in 1..(l - (n + 1) + 1) :
             SubSeq(s, n + 1, l)[i] = s[(n + 1) + i - 1]
    BY <2>1, SubSeqProperties
  <2> QED BY <2>2, <1>1
<1>3. /\ v \in Seq(X) /\ Len(v) = n
      /\ \A i \in 1..n : v[i] = s[i]
  <2>1. 1 \in Int /\ n \in Int /\ \A i \in 1..n : s[i] \in X
    BY <1>1
  <2>2. /\ SubSeq(s, 1, n) \in Seq(X)
        /\ Len(SubSeq(s, 1, n)) = IF 1 <= n THEN n - 1 + 1 ELSE 0
        /\ \A i \in 1..(n - 1 + 1) : SubSeq(s, 1, n)[i] = s[1 + i - 1]
    BY <2>1, SubSeqProperties
  <2> QED BY <2>2, <1>1
<1> HIDE DEF l, u, v
<1>4. /\ r \in Seq(X) /\ Len(r) = l
      /\ \A i \in 1..l : r[i] = IF i <= l - n THEN u[i] ELSE v[i - (l - n)]
  <2>1. r = u \o v
    BY DEF u, v, l
  <2>2. /\ u \o v \in Seq(X)
        /\ Len(u \o v) = Len(u) + Len(v)
        /\ \A i \in 1..(Len(u) + Len(v)) :
             (u \o v)[i] = IF i <= Len(u) THEN u[i] ELSE v[i - Len(u)]
    BY <1>2, <1>3, ConcatProperties
  <2>3. Len(u) = l - n /\ Len(u) + Len(v) = l
    BY <1>1, <1>2, <1>3
  <2> QED BY <2>1, <2>2, <2>3, Zenon
<1>5. \A i \in 1..l : at[i] \in 1..l
  BY <1>1
<1>6. \A i \in 1..l : r[i] = s[at[i]]
  <2> TAKE i \in 1..l
  <2>1. CASE i <= l - n
    <3>1. i \in 1..(l - n) /\ at[i] = n + i
      BY <2>1, <1>1
    <3>2. r[i] = u[i]
      BY <2>1, <1>4
    <3> QED BY <3>1, <3>2, <1>2
  <2>2. CASE ~ (i <= l - n)
    BY <2>2, <1>1, <1>3, <1>4, i - (l - n) \in 1..n
  <2> QED BY <2>1, <2>2
<1>7. \A i, j \in 1..l : at[i] = at[j] => i = j
  BY <1>1
<1>8. \A j \in 1..l : \E i \in 1..l : at[i] = j
  <2> TAKE j \in 1..l
  <2>1. CASE j > n
    <3>1. j - n \in 1..l /\ at[j - n] = j
      BY <2>1, <1>1
    <3> QED BY <3>1
  <2>2. CASE j <= n
    <3>1. j + (l - n) \in 1..l /\ at[j + (l - n)] = j
      BY <2>2, <1>1
    <3> QED BY <3>1
  <2> QED BY <2>1, <2>2, <1>1
<1> HIDE DEF at
<1>9. DOMAIN r = 1..l
  BY <1>4
<1>10. IsInjective(r)
  <2> SUFFICES ASSUME NEW i \in 1..l, NEW j \in 1..l, r[i] = r[j] PROVE i = j
    BY <1>9 DEF IsInjective
  <2>1. s[at[i]] = s[at[j]] /\ at[i] \in DOMAIN s /\ at[j] \in DOMAIN s
    BY <1>1, <1>5, <1>6
  <2>2. at[i] = at[j]
    BY <2>1 DEF IsInjective
  <2> QED BY <2>2, <1>7
<1>11. ToSet(r) = ToSet(s)
  <2>1. ToSet(r) \subseteq ToSet(s)
    <3> SUFFICES ASSUME NEW i \in 1..l PROVE r[i] \in ToSet(s)
      BY <1>9 DEF ToSet
    <3>1. at[i] \in DOMAIN s /\ r[i] = s[at[i]]
      BY <1>1, <1>5, <1>6
    <3> QED BY <3>1 DEF ToSet
  <2>2. ASSUME NEW x \in ToSet(s) PROVE x \in ToSet(r)
    <3>1. PICK j \in 1..l : s[j] = x
      BY <1>1 DEF ToSet
    <3>2. PICK i \in 1..l : at[i] = j
      BY <1>8
    <3> QED BY <3>1, <3>2, <1>6, <1>9 DEF ToSet
  <2> QED BY <2>1, <2>2
<1> QED BY <1>4, <1>10, <1>11

\* A list without repetition is no longer than the set it is made of
LEMMA InjectiveLength ==
  ASSUME NEW X, IsFiniteSet(X), NEW s \in Seq(X), IsInjective(s)
  PROVE  Len(s) <= Cardinality(X)
<1>1. s \in Injection(1..Len(s), X)
  BY DEF Injection, IsInjective
<1>2. Cardinality(1..Len(s)) <= Cardinality(X)
  BY <1>1, FS_Injection
<1>3. Cardinality(1..Len(s)) = Len(s)
  <2>1. Len(s) \in Nat
    OBVIOUS
  <2>2. Cardinality(1..Len(s)) = IF 1 > Len(s) THEN 0 ELSE Len(s) - 1 + 1
    BY <2>1, FS_Interval
  <2> QED BY <2>1, <2>2
<1> QED BY <1>2, <1>3

LEMMA AppendedList ==
  ASSUME NEW X, NEW s \in Seq(X), NEW x \in X
  PROVE  /\ Append(s, x) \in Seq(X)
         /\ ToSet(Append(s, x)) = ToSet(s) \union {x}
         /\ IsInjective(s) /\ x \notin ToSet(s) => IsInjective(Append(s, x))
         /\ \A y, z : Precedes(Append(s, x), y, z)
                        => Precedes(s, y, z) \/ z = x
<1> DEFINE a == Append(s, x)
<1>1. /\ a \in Seq(X) /\ Len(s) \in Nat /\ Len(a) = Len(s) + 1
      /\ DOMAIN a = 1..(Len(s) + 1) /\ DOMAIN s = 1..Len(s)
      /\ \A i \in 1..Len(s) : a[i] = s[i]
      /\ a[Len(s) + 1] = x
  OBVIOUS
<1> HIDE DEF a
<1>2. ToSet(a) = ToSet(s) \union {x}
  <2>1. ToSet(a) \subseteq ToSet(s) \union {x}
    BY <1>1 DEF ToSet
  <2>2. ToSet(s) \subseteq ToSet(a)
    BY <1>1 DEF ToSet
  <2>3. x \in ToSet(a)
    BY <1>1 DEF ToSet
  <2> QED BY <2>1, <2>2, <2>3
<1>3. ASSUME IsInjective(s), x \notin ToSet(s) PROVE IsInjective(a)
  <2>1. \A i \in 1..Len(s) : a[i] # x
    BY <1>1, <1>3 DEF ToSet
  <2>2. \A i, j \in 1..Len(s) : a[i] = a[j] => i = j
    BY <1>1, <1>3 DEF IsInjective
  <2> QED BY <1>1, <2>1, <2>2 DEF IsInjective
<1>4. ASSUME NEW y, NEW z, Precedes(a, y, z), z # x PROVE Precedes(s, y, z)
  <2>1. PICK i, j \in DOMAIN a : i < j /\ a[i] = y /\ a[j] = z
    BY <1>4 DEF Precedes
  <2>2. j \in 1..Len(s)
    BY <1>1, <1>4, <2>1
  <2>3. i \in 1..Len(s)
    BY <1>1, <2>1, <2>2
  <2> QED BY <1>1, <2>1, <2>2, <2>3 DEF Precedes
<1> QED BY <1>1, <1>2, <1>3, <1>4 DEF a

LEMMA ContainsIsMember ==
  ASSUME NEW X, NEW s \in Seq(X), NEW x
  PROVE  Contains(s, x) <=> x \in ToSet(s)
BY DEF Contains, ToSet

LEMMA OneElement ==
  ASSUME NEW X, NEW s \in Seq(X), Len(s) = 1
  PROVE  s = <<s[1]>>
<1>1. s[1] \in X
  OBVIOUS
<1>2. <<s[1]>> \in Seq(X) /\ Len(<<s[1]>>) = 1 /\ <<s[1]>>[1] = s[1]
  BY <1>1
<1>3. \A i \in 1..Len(s) : s[i] = <<s[1]>>[i]
  BY <1>2
<1> QED BY <1>2, <1>3, SeqEqual

LEMMA SoloList ==
  ASSUME NEW X, NEW x \in X
  PROVE  /\ <<x>> \in Seq(X) /\ <<x>> # <<>> /\ Len(<<x>>) = 1
         /\ ToSet(<<x>>) = {x} /\ IsInjective(<<x>>)
         /\ Head(<<x>>) = x /\ Tail(<<x>>) = <<>>
<1>1. /\ <<x>> \in Seq(X) /\ <<x>> # <<>> /\ Len(<<x>>) = 1
      /\ DOMAIN <<x>> = 1..1 /\ <<x>>[1] = x
      /\ Head(<<x>>) = x /\ Tail(<<x>>) = <<>>
  OBVIOUS
<1> QED BY <1>1 DEF ToSet, IsInjective

LEMMA NoList ==
  ASSUME NEW X
  PROVE  /\ <<>> \in Seq(X) /\ ToSet(<<>>) = {} /\ IsInjective(<<>>)
         /\ Len(<<>>) = 0
<1>1. <<>> \in Seq(X) /\ DOMAIN <<>> = {} /\ Len(<<>>) = 0
  OBVIOUS
<1> QED BY <1>1 DEF ToSet, IsInjective

LEMMA MembersOf ==
  ASSUME NEW X, NEW s \in Seq(X)
  PROVE  s \in Seq(ToSet(s)) /\ ToSet(s) \subseteq X
BY DEF ToSet

-----------------------------------------------------------------------------
(* Where the changing thread stands half-way through a change, and what the  *)
(* loop's thread has in hand.                                                *)

HalfWay ==
  \A s \in Sources :
    /\ s \in adding => adding = {s} /\ s \in handlers \ registered
    /\ s \in removing => s \notin adding

\* The interrupt is registered by the constructor and written by the destructor
Interruptible ==
  /\ Interrupt \in registered
  /\ owner = "up" => Interrupt \notin ready \union ToSet(todo) \union served

\* One event is dispatched between two waits
OneInHand == Len(todo) <= 1 /\ (pc # "ended" => epollOpen)

LoopInv ==
  /\ TypeOK /\ WatchedHasHandler /\ HalfWay
  /\ Interruptible /\ OneInHand
  /\ ReadyIsListed /\ StopIsHeard

LEMMA LoopInvInit == Init => LoopInv
<1> SUFFICES ASSUME Init PROVE LoopInv
  OBVIOUS
<1>1. TypeOK
  <2>1. again \in 0..MaxAgain
    BY EventLoopAssumption DEF Init
  <2> QED BY <2>1, NoList DEF Init, TypeOK
<1>2. HalfWay /\ WatchedHasHandler
  BY DEF Init, HalfWay, WatchedHasHandler
<1>3. Interruptible /\ OneInHand
  BY NoList DEF Init, Interruptible, OneInHand
<1>4. ReadyIsListed /\ StopIsHeard
  BY DEF Init, ReadyIsListed, StopIsHeard
<1> QED BY <1>1, <1>2, <1>3, <1>4 DEF LoopInv

\* What a wait does: one ready source goes in hand, and the list keeps what is
\* ready
LEMMA WaitTakesOne ==
  ASSUME TypeOK, EpollWait
  PROVE  /\ candidates' \in Seq(ToSet(candidates) \intersect ready)
         /\ ToSet(candidates') = ToSet(candidates) \intersect ready
         /\ IsInjective(candidates')
         /\ \E s \in ToSet(candidates) \intersect ready :
              /\ todo' = <<s>>
              /\ \A t \in ready : ~ Precedes(candidates, t, s)
         /\ pc' = "dispatch"
<1> DEFINE live  == Kept(candidates, ready)
           n     == Reported(live)
           batch == SubSeq(live, 1, n)
           L == ToSet(candidates) \intersect ready
<1>1. /\ live # <<>>
      /\ candidates' = SubSeq(live, n + 1, Len(live)) \o batch
      /\ todo' = SubSeq(batch, 1, EventCount(n))
      /\ pc' = IF todo' = <<>> THEN "wait" ELSE "dispatch"
  BY DEF EpollWait
<1>2. live \in Seq(L) /\ ToSet(live) = L /\ IsInjective(live)
  BY KeptProperties DEF TypeOK
<1> HIDE DEF live
<1>3. n \in 1..Len(live) /\ n # -1
  BY <1>1, <1>2, EventLoopAssumption DEF Reported
<1> HIDE DEF n
<1>4. /\ candidates' \in Seq(L) /\ IsInjective(candidates')
      /\ ToSet(candidates') = L
  <2> DEFINE r == SubSeq(live, n + 1, Len(live)) \o SubSeq(live, 1, n)
  <2>1. n \in 0..Len(live)
    BY <1>3
  <2>2. r \in Seq(L) /\ IsInjective(r) /\ ToSet(r) = ToSet(live)
    <3> HIDE DEF L
    <3> QED BY <1>2, <2>1, TurnedList
  <2> QED BY <1>1, <1>2, <2>2
<1>5. todo' = <<live[1]>> /\ live[1] \in L
  <2>1. batch \in Seq(L) /\ Len(batch) = n /\ batch[1] = live[1]
    BY <1>2, <1>3
  <2>2. EventCount(n) = 1
    BY <1>3 DEF EventCount
  <2> HIDE DEF batch
  <2>3. SubSeq(batch, 1, 1) = <<batch[1]>>
    <3>1. /\ SubSeq(batch, 1, 1) \in Seq(L) /\ Len(SubSeq(batch, 1, 1)) = 1
          /\ SubSeq(batch, 1, 1)[1] = batch[1]
      BY <1>3, <2>1
    <3> QED BY <3>1, OneElement
  <2> QED BY <1>1, <1>2, <1>3, <2>1, <2>2, <2>3
<1>6. todo' # <<>>
  BY <1>5
<1>7. \A t \in ready : ~ Precedes(candidates, t, live[1])
  BY <1>1, KeptProperties DEF TypeOK, live
<1> QED BY <1>1, <1>4, <1>5, <1>6, <1>7

\* What is no longer watched leaves the list
LEMMA UnwatchedList ==
  ASSUME TypeOK, NEW s, Unwatch(s)
  PROVE  /\ candidates' \in Seq(registered') /\ IsInjective(candidates')
         /\ ToSet(candidates') = ToSet(candidates) \intersect registered'
<1>1. /\ candidates' \in Seq(ToSet(candidates) \intersect registered')
      /\ IsInjective(candidates')
      /\ ToSet(candidates') = ToSet(candidates) \intersect registered'
  BY KeptProperties DEF Unwatch, TypeOK
<1> QED BY <1>1

LEMMA LoopInvStep == LoopInv /\ [Next]_vars => LoopInv'
<1> SUFFICES ASSUME LoopInv, [Next]_vars PROVE LoopInv'
  OBVIOUS
<1> USE EventLoopAssumption
<1>t. TypeOK /\ WatchedHasHandler /\ HalfWay /\ Interruptible /\ OneInHand
      /\ ReadyIsListed /\ StopIsHeard
  BY DEF LoopInv
<1>1. ASSUME NEW s \in Sources, AddEvent(s) PROVE LoopInv'
  <2>1. TypeOK'
    BY <1>1, <1>t DEF AddEvent, loop, TypeOK
  <2>2. (WatchedHasHandler /\ HalfWay)'
    BY <1>1, <1>t DEF AddEvent, Changing, WatchedHasHandler, HalfWay
  <2>3. (Interruptible /\ OneInHand /\ ReadyIsListed /\ StopIsHeard)'
    BY <1>1, <1>t DEF AddEvent, loop, Interruptible, OneInHand, ReadyIsListed,
                      StopIsHeard, Waiting
  <2> QED BY <2>1, <2>2, <2>3 DEF LoopInv
<1>2. ASSUME NEW s \in Sources, FinishAdd(s) PROVE LoopInv'
  <2>1. s \notin registered /\ s \in handlers
    BY <1>2, <1>t DEF FinishAdd, HalfWay
  <2>2. s \notin ToSet(candidates)
    BY <2>1, <1>t, MembersOf DEF TypeOK
  <2>3. candidates \in Seq(registered')
    BY <1>2, <1>t DEF FinishAdd, TypeOK
  <2>4. /\ candidates' \in Seq(registered') /\ IsInjective(candidates')
        /\ ToSet(candidates') = ToSet(candidates) \union (ready \intersect {s})
    BY <1>2, <1>t, <2>2, <2>3, AppendedList DEF FinishAdd, Watched, TypeOK
  <2>5. TypeOK'
    BY <1>2, <1>t, <2>4 DEF FinishAdd, loop, TypeOK
  <2>6. (WatchedHasHandler /\ HalfWay)'
    BY <1>2, <1>t, <2>1 DEF FinishAdd, WatchedHasHandler, HalfWay
  <2>7. (Interruptible /\ OneInHand)'
    BY <1>2, <1>t DEF FinishAdd, loop, Interruptible, OneInHand
  <2>8. (ReadyIsListed /\ StopIsHeard)'
    BY <1>2, <1>t, <2>4 DEF FinishAdd, loop, ReadyIsListed, StopIsHeard, Waiting
  <2> QED BY <2>5, <2>6, <2>7, <2>8 DEF LoopInv
<1>3. ASSUME NEW s \in Sources, RemoveEvent(s) PROVE LoopInv'
  <2>1. /\ candidates' \in Seq(registered') /\ IsInjective(candidates')
        /\ ToSet(candidates') = ToSet(candidates) \intersect registered'
    BY <1>3, <1>t, UnwatchedList DEF RemoveEvent
  <2>2. TypeOK'
    BY <1>3, <1>t, <2>1 DEF RemoveEvent, Unwatch, loop, Changing, TypeOK
  <2>3. (WatchedHasHandler /\ HalfWay)'
    BY <1>3, <1>t DEF RemoveEvent, Unwatch, Changing, WatchedHasHandler, HalfWay
  <2>4. (Interruptible /\ OneInHand)'
    BY <1>3, <1>t DEF RemoveEvent, Unwatch, loop, Interruptible, OneInHand
  <2>5. (ReadyIsListed /\ StopIsHeard)'
    BY <1>3, <1>t, <2>1
       DEF RemoveEvent, Unwatch, loop, ReadyIsListed, StopIsHeard, Waiting
  <2> QED BY <2>2, <2>3, <2>4, <2>5 DEF LoopInv
<1>12. ASSUME NEW s \in Sources, Deregister(s) PROVE LoopInv'
  <2>1. /\ candidates' \in Seq(registered') /\ IsInjective(candidates')
        /\ ToSet(candidates') = ToSet(candidates) \intersect registered'
    BY <1>12, <1>t, UnwatchedList DEF Deregister
  <2>2. TypeOK'
    BY <1>12, <1>t, <2>1 DEF Deregister, Unwatch, loop, TypeOK
  <2>3. (WatchedHasHandler /\ HalfWay)'
    BY <1>12, <1>t DEF Deregister, Unwatch, WatchedHasHandler, HalfWay
  <2>4. (Interruptible /\ OneInHand)'
    BY <1>12, <1>t DEF Deregister, Unwatch, loop, Interruptible, OneInHand
  <2>5. (ReadyIsListed /\ StopIsHeard)'
    BY <1>12, <1>t, <2>1
       DEF Deregister, Unwatch, loop, ReadyIsListed, StopIsHeard, Waiting,
           Interruptible
  <2> QED BY <2>2, <2>3, <2>4, <2>5 DEF LoopInv
<1>13. ASSUME NEW S \in SUBSET (registered \ {Interrupt}), RemoveHandlers(S)
       PROVE  LoopInv'
  <2>1. S \subseteq Sources /\ adding = {}
    BY <1>13, <1>t DEF RemoveHandlers, Changing, TypeOK
  <2>2. TypeOK'
    BY <1>13, <1>t, <2>1 DEF RemoveHandlers, loop, TypeOK
  <2>3. (WatchedHasHandler /\ HalfWay)'
    BY <1>13, <1>t, <2>1 DEF RemoveHandlers, WatchedHasHandler, HalfWay
  <2>4. (Interruptible /\ OneInHand /\ ReadyIsListed /\ StopIsHeard)'
    BY <1>13, <1>t DEF RemoveHandlers, loop, Interruptible, OneInHand,
                       ReadyIsListed, StopIsHeard, Waiting
  <2> QED BY <2>2, <2>3, <2>4 DEF LoopInv
<1>4. CASE FinishRemove
  <2>1. TypeOK'
    BY <1>4, <1>t DEF FinishRemove, loop, TypeOK
  <2>2. (WatchedHasHandler /\ HalfWay)'
    BY <1>4, <1>t DEF FinishRemove, WatchedHasHandler, HalfWay
  <2>3. (Interruptible /\ OneInHand /\ ReadyIsListed /\ StopIsHeard)'
    BY <1>4, <1>t DEF FinishRemove, loop, Interruptible, OneInHand, ReadyIsListed,
                      StopIsHeard, Waiting
  <2> QED BY <2>1, <2>2, <2>3 DEF LoopInv
<1>5. ASSUME NEW s \in Sources, BecomeReady(s) PROVE LoopInv'
  <2>1. Contains(candidates, s) <=> s \in ToSet(candidates)
    BY <1>t, ContainsIsMember DEF TypeOK
  <2>2. /\ candidates' \in Seq(registered) /\ IsInjective(candidates')
        /\ ToSet(candidates') = ToSet(candidates) \union (registered \intersect {s})
    <3>1. CASE s \in registered /\ s \notin ToSet(candidates)
      BY <1>5, <1>t, <2>1, <3>1, AppendedList DEF BecomeReady, TypeOK
    <3>2. CASE ~ (s \in registered /\ s \notin ToSet(candidates))
      BY <1>5, <1>t, <2>1, <3>2 DEF BecomeReady, TypeOK
    <3> QED BY <3>1, <3>2
  <2>3. UNCHANGED <<table, loop, owner>> /\ ready' = ready \union {s}
    BY <1>5 DEF BecomeReady
  <2>4. TypeOK'
    BY <1>t, <2>2, <2>3 DEF TypeOK, table, loop
  <2>5. (WatchedHasHandler /\ HalfWay)'
    BY <1>t, <2>3 DEF WatchedHasHandler, HalfWay, table, loop
  <2>6. (Interruptible /\ OneInHand)'
    BY <1>t, <2>3 DEF Interruptible, OneInHand, table, loop
  <2>7. (ReadyIsListed /\ StopIsHeard)'
    BY <1>t, <2>2, <2>3 DEF ReadyIsListed, StopIsHeard, Waiting, table, loop
  <2> QED BY <2>4, <2>5, <2>6, <2>7 DEF LoopInv
<1>6. CASE Destroy
  <2>1. Contains(candidates, Interrupt) <=> Interrupt \in ToSet(candidates)
    BY <1>t, ContainsIsMember DEF TypeOK
  <2>2. /\ candidates' \in Seq(registered) /\ IsInjective(candidates')
        /\ ToSet(candidates') = ToSet(candidates) \union {Interrupt}
    <3>1. Interrupt \in registered
      BY <1>t DEF Interruptible
    <3> QED BY <1>6, <1>t, <2>1, <3>1, AppendedList DEF Destroy, TypeOK
  <2>3. /\ UNCHANGED <<table, loop>>
        /\ ready' = ready \union {Interrupt}
        /\ owner = "up" /\ owner' = "joining"
    BY <1>6 DEF Destroy
  <2>4. TypeOK'
    BY <1>t, <2>2, <2>3 DEF TypeOK, table, loop
  <2>5. (WatchedHasHandler /\ HalfWay)'
    BY <1>t, <2>3 DEF WatchedHasHandler, HalfWay, table, loop
  <2>6. (Interruptible /\ OneInHand)'
    BY <1>t, <2>3 DEF Interruptible, OneInHand, table, loop
  <2>7. ReadyIsListed'
    BY <1>t, <2>2, <2>3 DEF ReadyIsListed, table, loop
  <2>8. StopIsHeard'
    BY <1>t, <2>2, <2>3 DEF StopIsHeard, Waiting, OneInHand, table, loop
  <2> QED BY <2>4, <2>5, <2>6, <2>7, <2>8 DEF LoopInv
<1>7. CASE Join
  <2>1. TypeOK'
    BY <1>7, <1>t DEF Join, TypeOK, table, loop
  <2>2. (WatchedHasHandler /\ HalfWay)'
    BY <1>7, <1>t DEF Join, WatchedHasHandler, HalfWay, table, loop
  <2>3. (Interruptible /\ OneInHand /\ ReadyIsListed /\ StopIsHeard)'
    BY <1>7, <1>t DEF Join, Interruptible, OneInHand, ReadyIsListed,
                      StopIsHeard, Waiting, table, loop
  <2> QED BY <2>1, <2>2, <2>3 DEF LoopInv
<1>8. CASE EpollWait
  <2>1. /\ UNCHANGED <<table, ready, again, epollOpen, owner>>
        /\ pc = "wait" /\ served' = {}
    BY <1>8 DEF EpollWait
  <2>2. PICK h \in ToSet(candidates) \intersect ready : todo' = <<h>>
    BY <1>8, <1>t, WaitTakesOne
  <2>3. /\ candidates' \in Seq(ToSet(candidates) \intersect ready)
        /\ ToSet(candidates') = ToSet(candidates) \intersect ready
        /\ IsInjective(candidates') /\ pc' = "dispatch"
    BY <1>8, <1>t, WaitTakesOne
  <2>4. ToSet(candidates) \subseteq registered
    BY <1>t, MembersOf DEF TypeOK
  <2>5. candidates' \in Seq(registered)
    BY <2>3, <2>4
  <2>6. /\ todo' \in Seq(Sources \union {Interrupt}) /\ IsInjective(todo')
        /\ todo' # <<>> /\ ToSet(todo') = {h} /\ Len(todo') = 1
    BY <1>t, <2>2, SoloList DEF TypeOK
  <2>7. TypeOK'
    BY <1>t, <2>1, <2>3, <2>5, <2>6 DEF TypeOK, table
  <2>8. (WatchedHasHandler /\ HalfWay)'
    BY <1>t, <2>1 DEF WatchedHasHandler, HalfWay, table
  <2>9. (Interruptible /\ OneInHand)'
    BY <1>t, <2>1, <2>2, <2>6 DEF Interruptible, OneInHand, table
  <2>10. (ReadyIsListed /\ StopIsHeard)'
    BY <1>t, <2>1, <2>3 DEF ReadyIsListed, StopIsHeard, Waiting, table
  <2> QED BY <2>7, <2>8, <2>9, <2>10 DEF LoopInv
<1>9. CASE Dispatch
  <2>1. PICK h \in Sources \union {Interrupt} : todo = <<h>>
    <3>1. todo # <<>> /\ todo \in Seq(Sources \union {Interrupt}) /\ Len(todo) <= 1
      BY <1>9, <1>t DEF Dispatch, TypeOK, OneInHand
    <3>2. Len(todo) = 1
      <4>1. Len(todo) \in Nat
        BY <3>1, LenProperties
      <4>2. Len(todo) # 0
        BY <3>1, EmptySeq
      <4>3. \A n \in Nat : n # 0 /\ n <= 1 => n = 1
        OBVIOUS
      <4> QED BY <3>1, <4>1, <4>2, <4>3, Zenon
    <3> QED BY <3>1, <3>2, OneElement
  <2>2. /\ Head(todo) = h /\ todo' = <<>> /\ ToSet(todo) = {h}
    BY <1>9, <2>1, SoloList DEF Dispatch
  <2>3. /\ ready' = ready \/ ready' = ready \ {h}
        /\ h = Interrupt => h \notin ready'
        /\ again' \in 0..MaxAgain
        /\ served' = served \union {h}
        /\ epollOpen' = (epollOpen /\ h # Interrupt)
        /\ pc' = (IF epollOpen' THEN "wait" ELSE "ended")
        /\ pc = "dispatch"
        /\ UNCHANGED <<table, candidates, owner>>
    BY <1>9, <1>t, <2>2 DEF Dispatch, OpenAfter, TypeOK
  <2>4. TypeOK'
    BY <1>t, <2>2, <2>3, NoList DEF TypeOK, table
  <2>5. (WatchedHasHandler /\ HalfWay)'
    BY <1>t, <2>3 DEF WatchedHasHandler, HalfWay, table
  <2>6. (Interruptible /\ OneInHand)'
    BY <1>t, <2>2, <2>3, NoList DEF Interruptible, OneInHand, table
  <2>7. (ReadyIsListed /\ StopIsHeard)'
    BY <1>t, <2>3 DEF ReadyIsListed, StopIsHeard, Waiting, table
  <2> QED BY <2>4, <2>5, <2>6, <2>7 DEF LoopInv
<1>10. CASE DispatchDestroyed
  <2>1. /\ todo' = <<>> /\ pc' = "ended" /\ owner' = "gone"
        /\ UNCHANGED <<table, ready, candidates, served, again, epollOpen>>
    BY <1>10 DEF DispatchDestroyed
  <2>2. TypeOK'
    BY <1>t, <2>1, NoList DEF TypeOK, table
  <2>3. (WatchedHasHandler /\ HalfWay)'
    BY <1>t, <2>1 DEF WatchedHasHandler, HalfWay, table
  <2>4. (Interruptible /\ OneInHand)'
    BY <1>t, <2>1, NoList DEF Interruptible, OneInHand, table
  <2>5. (ReadyIsListed /\ StopIsHeard)'
    BY <1>t, <2>1 DEF ReadyIsListed, StopIsHeard, Waiting, table
  <2> QED BY <2>2, <2>3, <2>4, <2>5 DEF LoopInv
<1>11. CASE Terminated \/ UNCHANGED vars
  <2>1. UNCHANGED vars
    BY <1>11 DEF Terminated
  <2>2. TypeOK'
    BY <1>t, <2>1 DEF TypeOK, table, loop, vars
  <2>3. (WatchedHasHandler /\ HalfWay)'
    BY <1>t, <2>1 DEF WatchedHasHandler, HalfWay, table, loop, vars
  <2>4. (Interruptible /\ OneInHand /\ ReadyIsListed /\ StopIsHeard)'
    BY <1>t, <2>1 DEF Interruptible, OneInHand, ReadyIsListed, StopIsHeard,
                      Waiting, table, loop, vars
  <2> QED BY <2>2, <2>3, <2>4 DEF LoopInv
<1> QED
  BY <1>1, <1>2, <1>3, <1>4, <1>5, <1>6, <1>7, <1>8, <1>9, <1>10, <1>11,
     <1>12, <1>13 DEF Next

LEMMA LoopInvHolds == Spec => []LoopInv
BY LoopInvInit, LoopInvStep, PTL DEF Spec

-----------------------------------------------------------------------------
(* No order of added, removed and served handlers breaks the tables the      *)
(* loop's thread shares with epoll.                                          *)
THEOREM TypeCorrect == Spec => []TypeOK
<1>1. LoopInv => TypeOK
  BY DEF LoopInv
<1> QED BY <1>1, LoopInvHolds, PTL

(* Whatever epoll watches has a handler, in every interleaving of the loop   *)
(* with addEvent and removeEvent.                                            *)
THEOREM WatchedHasHandlerHolds == Spec => []WatchedHasHandler
<1>1. LoopInv => WatchedHasHandler
  BY DEF LoopInv
<1> QED BY <1>1, LoopInvHolds, PTL

(* epoll forgets no ready source that it watches, although the loop's thread *)
(* turns the list while handlers come and go.                                *)
THEOREM ReadyIsListedHolds == Spec => []ReadyIsListed
<1>1. LoopInv => ReadyIsListed
  BY DEF LoopInv
<1> QED BY <1>1, LoopInvHolds, PTL

(* From the write of ~EventLoopInternal until the loop's thread has ended,   *)
(* its interrupt is ready and on an open epoll's list.                       *)
THEOREM StopIsHeardHolds == Spec => []StopIsHeard
<1>1. LoopInv => StopIsHeard
  BY DEF LoopInv
<1> QED BY <1>1, LoopInvHolds, PTL

-----------------------------------------------------------------------------
(* The order of epoll's list.                                                *)

\* With an array as long as the list, a wait drops what is not ready and keeps
\* the order of the rest
LEMMA WaitKeepsOrder ==
  ASSUME IsFiniteSet(Sources), Cardinality(Sources) < MaxEvents,
         LoopInv, EpollWait
  PROVE  candidates' = Kept(candidates, ready)
<1> DEFINE live == Kept(candidates, ready)
           A == Sources \union {Interrupt}
<1>1. TypeOK
  BY DEF LoopInv
<1>2. candidates \in Seq(A) /\ IsInjective(candidates)
  BY <1>1 DEF TypeOK
<1>3. live \in Seq(A) /\ IsInjective(live)
  <2>1. live \in Seq(ToSet(candidates) \intersect ready) /\ IsInjective(live)
    BY <1>2, KeptProperties
  <2>2. ToSet(candidates) \intersect ready \subseteq A
    BY <1>2, MembersOf
  <2> HIDE DEF live, A
  <2> QED BY <2>1, <2>2
<1>4. Len(live) <= MaxEvents
  <2>1. IsFiniteSet(A) /\ Cardinality(A) = Cardinality(Sources) + 1
    BY FS_AddElement, EventLoopAssumption
  <2>2. Cardinality(Sources) \in Nat
    BY FS_CardinalityType
  <2>3. Len(live) <= Cardinality(A) /\ Len(live) \in Nat
    <3> HIDE DEF live, A
    <3> QED BY <2>1, <1>3, InjectiveLength
  <2> QED BY <2>1, <2>2, <2>3, EventLoopAssumption
<1>5. candidates' = SubSeq(live, Len(live) + 1, Len(live)) \o SubSeq(live, 1, Len(live))
  <2> DEFINE n == Reported(live)
  <2>1. candidates' = SubSeq(live, n + 1, Len(live)) \o SubSeq(live, 1, n)
    BY DEF EpollWait
  <2>2. n = Len(live)
    <3> HIDE DEF live
    <3> QED BY <1>3, <1>4, EventLoopAssumption DEF Reported
  <2> HIDE DEF n, live
  <2> QED BY <2>1, <2>2
<1> HIDE DEF live, A
<1>6. SubSeq(live, 1, Len(live)) = live
  BY <1>3, SubSeqFull
<1>7. SubSeq(live, Len(live) + 1, Len(live)) = <<>>
  BY <1>3, LenProperties, SubSeqEmpty
<1>8. <<>> \o live = live
  BY <1>3, ConcatEmptySeq
<1> QED BY <1>5, <1>6, <1>7, <1>8 DEF live

LEMMA NoOvertakingStep ==
  ASSUME IsFiniteSet(Sources), Cardinality(Sources) < MaxEvents,
         LoopInv, [Next]_vars,
         NEW s, NEW t, Waiting(s), Precedes(candidates', t, s)
  PROVE  Precedes(candidates, t, s)
<1>1. candidates \in Seq(Sources \union {Interrupt}) /\ s \in ToSet(candidates)
  BY DEF LoopInv, TypeOK, Waiting
<1>2. ASSUME NEW x \in Sources \union {Interrupt}, x \notin ToSet(candidates),
             candidates' = Append(candidates, x)
      PROVE  Precedes(candidates, t, s)
  BY <1>1, <1>2, AppendedList
<1>3. ASSUME NEW S, candidates' = Kept(candidates, S)
      PROVE  Precedes(candidates, t, s)
  BY <1>1, <1>3, KeptProperties
<1>4. ASSUME NEW x \in Sources, FinishAdd(x)
      PROVE  \/ UNCHANGED candidates
             \/ /\ x \notin ToSet(candidates)
                /\ candidates' = Append(candidates, x)
  <2>1. x \notin registered
    BY <1>4 DEF LoopInv, FinishAdd, HalfWay
  <2>2. x \notin ToSet(candidates)
    BY <2>1, MembersOf DEF LoopInv, TypeOK
  <2> QED BY <1>4, <2>2 DEF FinishAdd, Watched
<1>5. ASSUME NEW x \in Sources, BecomeReady(x)
      PROVE  \/ UNCHANGED candidates
             \/ /\ x \notin ToSet(candidates)
                /\ candidates' = Append(candidates, x)
  BY <1>1, <1>5, ContainsIsMember DEF BecomeReady
<1>6. ASSUME Destroy
      PROVE  \/ UNCHANGED candidates
             \/ /\ Interrupt \notin ToSet(candidates)
                /\ candidates' = Append(candidates, Interrupt)
  BY <1>1, <1>6, ContainsIsMember DEF Destroy
<1>7. EpollWait => candidates' = Kept(candidates, ready)
  BY WaitKeepsOrder
<1>8. ASSUME NEW x \in Sources, RemoveEvent(x) \/ Deregister(x)
      PROVE  candidates' = Kept(candidates, registered')
  BY <1>8 DEF RemoveEvent, Deregister, Unwatch
<1>9. ASSUME NEW x \in Sources, AddEvent(x)
      PROVE  UNCHANGED candidates
  BY <1>9 DEF AddEvent
<1>10. ASSUME NEW S, RemoveHandlers(S)
       PROVE  UNCHANGED candidates
  BY <1>10 DEF RemoveHandlers
<1>11. FinishRemove \/ Join \/ Dispatch \/ DispatchDestroyed \/ Terminated
         \/ UNCHANGED vars => UNCHANGED candidates
  BY DEF FinishRemove, Join, Dispatch, DispatchDestroyed, Terminated, vars
<1> QED
  BY <1>2, <1>3, <1>4, <1>5, <1>6, <1>7, <1>8, <1>9, <1>10, <1>11 DEF Next

(* While no more sources can be ready than epoll_wait's array holds, a       *)
(* source that waits for the loop is overtaken by none: what makes           *)
(* EverySourceServed true although each wait dispatches one event only.  The *)
(* array has 64 places; a port uses three and one per terminal.              *)
THEOREM NoOvertakingHolds ==
  ASSUME IsFiniteSet(Sources), Cardinality(Sources) < MaxEvents
  PROVE  Spec => NoOvertaking
<1>1. LoopInv /\ [Next]_vars
        => [\A s, t \in Sources \union {Interrupt} :
              Waiting(s) /\ Waiting(s)' /\ Precedes(candidates, t, s)'
                => Precedes(candidates, t, s)]_vars
  BY NoOvertakingStep DEF Precedes
<1> QED BY <1>1, LoopInvHolds, PTL DEF Spec, NoOvertaking

(* The order of the list is the order of service: a wait puts the first ready *)
(* source in hand.                                                            *)
THEOREM ServesFirstHolds == Spec => ServesFirst
<1>1. LoopInv /\ [Next]_vars
        => [EpollWait =>
              \A t \in ready : ~ Precedes(candidates, t, Head(todo'))]_vars
  <2>1. ASSUME LoopInv, EpollWait, NEW t \in ready
        PROVE  ~ Precedes(candidates, t, Head(todo'))
    <3>1. PICK s \in ToSet(candidates) :
            todo' = <<s>> /\ ~ Precedes(candidates, t, s)
      BY <2>1, WaitTakesOne DEF LoopInv
    <3>2. Head(todo') = s
      BY <3>1
    <3> QED BY <3>1, <3>2
  <2> QED BY <2>1
<1> QED BY <1>1, LoopInvHolds, PTL DEF Spec, ServesFirst

=============================================================================
