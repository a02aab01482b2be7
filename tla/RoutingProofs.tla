---------------------------- MODULE RoutingProofs ----------------------------
(***************************************************************************)
(* Proofs about routing: slots are dealt evenly, a session stays where it  *)
(* was sent, an escalation is earned and the policy leaves a target that   *)
(* fits, for any number of routes, targets, sessions and overlapping       *)
(* requests.  The first parts are about sequences and orders: what the     *)
(* filters and the sorts of the scheduler return.                          *)
(***************************************************************************)
EXTENDS Routing, FiniteSetTheorems, SequenceTheorems, WellFoundedInduction, TLAPS

(***************************************************************************)
(* Natural numbers: least members and induction, in the form of sets.      *)
(***************************************************************************)
(* A set of naturals that is not empty has a least member. *)
LEMMA Least ==
  ASSUME NEW S \in SUBSET Nat, S # {}
  PROVE  \E m \in S : \A k \in S : m <= k
<1>1. PICK m \in S : \A k \in S : ~ (<<k, m>> \in OpToRel(<, Nat))
  BY NatLessThanWellFounded, WFMin
<1>2. \A k \in S : <<k, m>> \in OpToRel(<, Nat) <=> k < m
  BY DEF OpToRel
<1>3. ASSUME NEW k \in S PROVE m <= k
  <2>1. k \in Nat /\ m \in Nat /\ ~(k < m)
    BY <1>1, <1>2
  <2> QED BY <2>1
<1> QED BY <1>3

(* The first position that SelectInSeq returns. *)
LEMMA MinIsLeast ==
  ASSUME NEW S \in SUBSET Nat, S # {}
  PROVE  Min(S) \in S /\ \A k \in S : Min(S) <= k
BY Least DEF Min

(* Induction up to a bound. *)
LEMMA Counting ==
  ASSUME NEW m \in Nat, NEW G, 0 \in G, \A i \in 0 .. m - 1 : i \in G => i + 1 \in G
  PROVE  \A i \in 0 .. m : i \in G
<1> SUFFICES ASSUME {i \in 0 .. m : i \notin G} # {} PROVE FALSE
  OBVIOUS
<1> DEFINE B == {i \in 0 .. m : i \notin G}
<1>1. PICK b \in B : \A k \in B : b <= k
  <2>1. B \in SUBSET Nat /\ B # {}
    OBVIOUS
  <2> HIDE DEF B
  <2> QED BY <2>1, Least
<1>2. b \in 0 .. m /\ b # 0
  BY <1>1
<1>3. b - 1 \in 0 .. m - 1 /\ b - 1 < b /\ (b - 1) + 1 = b
  BY <1>2
<1>4. b - 1 \in G
  BY <1>1, <1>3
<1> QED BY <1>1, <1>3, <1>4

(***************************************************************************)
(* What Keep and Without return.                                           *)
(***************************************************************************)
(* The loop of Keep: what was kept of the first i members. *)
Kept(s, S, f) ==
  f = [i \in 0 .. Len(s) |->
         IF i = 0 THEN <<>>
         ELSE IF s[i] \in S THEN Append(f[i - 1], s[i]) ELSE f[i - 1]]

(* The loop has a result. *)
LEMMA KeptExists ==
  ASSUME NEW T, NEW s \in Seq(T), NEW S
  PROVE  \E f : Kept(s, S, f)
<1> DEFINE Step(f, i) == IF s[i] \in S THEN Append(f[i - 1], s[i]) ELSE f[i - 1]
           G == {n \in 0 .. Len(s) : \E f : f = [i \in 0 .. n |-> IF i = 0 THEN <<>> ELSE Step(f, i)]}
<1>1. Len(s) \in Nat
  OBVIOUS
<1>2. 0 \in G
  <2> DEFINE f == [i \in 0 .. 0 |-> <<>>]
  <2>1. f = [i \in 0 .. 0 |-> IF i = 0 THEN <<>> ELSE Step(f, i)]
    OBVIOUS
  <2>2. 0 \in 0 .. Len(s)
    BY <1>1
  <2> HIDE DEF f
  <2> QED BY <2>1, <2>2
<1>3. ASSUME NEW n \in 0 .. Len(s) - 1, n \in G PROVE n + 1 \in G
  <2>1. PICK f : f = [i \in 0 .. n |-> IF i = 0 THEN <<>> ELSE Step(f, i)]
    BY <1>3
  <2> DEFINE g == [i \in 0 .. n + 1 |-> IF i = n + 1 THEN Step(f, i) ELSE f[i]]
  <2>2. \A i \in 0 .. n : g[i] = f[i]
    OBVIOUS
  <2>3. ASSUME NEW i \in 0 .. n + 1 PROVE g[i] = IF i = 0 THEN <<>> ELSE Step(g, i)
    <3>1. CASE i = 0
      BY <3>1, <2>1
    <3>2. CASE i \in 1 .. n
      <4>0. i \in 0 .. n /\ i # 0 /\ i - 1 \in 0 .. n
        BY <3>2
      <4>1. f[i] = Step(f, i) /\ i - 1 \in 0 .. n
        BY <2>1, <4>0
      <4>2. g[i - 1] = f[i - 1] /\ g[i] = f[i]
        BY <2>2, <4>1, <3>2
      <4> QED BY <4>1, <4>2, <3>2
    <3>3. CASE i = n + 1
      <4>1. i - 1 \in 0 .. n /\ i # 0
        BY <3>3
      <4>2. g[i - 1] = f[i - 1] /\ g[i] = Step(f, i)
        BY <2>2, <4>1, <3>3
      <4> QED BY <4>1, <4>2
    <3> QED BY <3>1, <3>2, <3>3
  <2>4. g = [i \in 0 .. n + 1 |-> IF i = 0 THEN <<>> ELSE Step(g, i)]
    <3>1. g = [i \in 0 .. n + 1 |-> g[i]]
      OBVIOUS
    <3> HIDE DEF g
    <3> QED BY <2>3, <3>1
  <2>5. n + 1 \in 0 .. Len(s)
    BY <1>1
  <2> HIDE DEF g
  <2> QED BY <2>4, <2>5
<1> HIDE DEF G
<1>4. Len(s) \in G
  <2>1. \A n \in 0 .. Len(s) : n \in G
    BY <1>1, <1>2, <1>3, Counting
  <2>2. Len(s) \in 0 .. Len(s)
    BY <1>1
  <2> QED BY <2>1, <2>2
<1> USE DEF G
<1>5. PICK f : f = [i \in 0 .. Len(s) |-> IF i = 0 THEN <<>> ELSE Step(f, i)]
  BY <1>4
<1>6. Kept(s, S, f)
  BY <1>5 DEF Kept
<1> QED BY <1>6

(* A run of the loop, step by step. *)
Looped(s, S, f) ==
  /\ f[0] = <<>> /\ Keep(s, S) = f[Len(s)]
  /\ \A i \in 1 .. Len(s) : f[i] = IF s[i] \in S THEN Append(f[i - 1], s[i]) ELSE f[i - 1]

(* Keep is the result of the loop. *)
LEMMA KeepLoop ==
  ASSUME NEW T, NEW s \in Seq(T), NEW S
  PROVE  \E f \in [0 .. Len(s) -> Seq(T)] : Looped(s, S, f)
<1> DEFINE f == CHOOSE g : Kept(s, S, g)
<1>1. Kept(s, S, f)
  BY KeptExists
<1>2. Keep(s, S) = f[Len(s)]
  BY DEF Keep, Kept
<1> HIDE DEF f
<1>3. Len(s) \in Nat /\ f = [i \in 0 .. Len(s) |-> f[i]] /\ f[0] = <<>>
  BY <1>1 DEF Kept
<1>4. \A i \in 1 .. Len(s) : i \in 0 .. Len(s) /\ i # 0
  BY <1>3
<1>5. \A i \in 1 .. Len(s) : f[i] = IF s[i] \in S THEN Append(f[i - 1], s[i]) ELSE f[i - 1]
  BY <1>1, <1>4 DEF Kept
<1> DEFINE G == {i \in 0 .. Len(s) : f[i] \in Seq(T)}
<1>6. 0 \in G
  BY <1>3
<1>7. ASSUME NEW i \in 0 .. Len(s) - 1, i \in G PROVE i + 1 \in G
  <2>1. i + 1 \in 1 .. Len(s) /\ (i + 1) - 1 = i /\ i + 1 \in 0 .. Len(s)
    BY <1>3
  <2>2. s[i + 1] \in T /\ f[i] \in Seq(T)
    BY <1>7, <2>1
  <2>3. Append(f[i], s[i + 1]) \in Seq(T)
    BY <2>2
  <2>4. f[i + 1] \in Seq(T)
    BY <1>5, <2>1, <2>2, <2>3
  <2> QED BY <2>1, <2>4
<1> HIDE DEF G
<1>8. \A i \in 0 .. Len(s) : i \in G
  BY <1>3, <1>6, <1>7, Counting
<1>9. f \in [0 .. Len(s) -> Seq(T)]
  BY <1>3, <1>8 DEF G
<1>10. Looped(s, S, f)
  BY <1>2, <1>3, <1>5 DEF Looped
<1> QED BY <1>9, <1>10

(* The members of a longer sequence. *)
LEMMA AppendMembers ==
  ASSUME NEW T, NEW a \in Seq(T), NEW e \in T
  PROVE  ToSet(Append(a, e)) = ToSet(a) \cup {e}
<1>1. /\ DOMAIN a = 1 .. Len(a) /\ DOMAIN Append(a, e) = 1 .. Len(a) + 1 /\ Len(a) \in Nat
      /\ Append(a, e)[Len(a) + 1] = e /\ \A i \in 1 .. Len(a) : Append(a, e)[i] = a[i]
  OBVIOUS
<1>2. ASSUME NEW x \in ToSet(Append(a, e)) PROVE x \in ToSet(a) \cup {e}
  <2>1. PICK i \in 1 .. Len(a) + 1 : x = Append(a, e)[i]
    BY <1>1 DEF ToSet
  <2>2. i \in 1 .. Len(a) \/ i = Len(a) + 1
    BY <1>1
  <2> QED BY <1>1, <2>1, <2>2 DEF ToSet
<1>3. ASSUME NEW x \in ToSet(a) PROVE x \in ToSet(Append(a, e))
  <2>1. PICK i \in 1 .. Len(a) : x = a[i]
    BY <1>1 DEF ToSet
  <2>2. i \in 1 .. Len(a) + 1 /\ x = Append(a, e)[i]
    BY <1>1, <2>1
  <2> QED BY <1>1, <2>2 DEF ToSet
<1>4. e \in ToSet(Append(a, e))
  <2>1. Len(a) + 1 \in 1 .. Len(a) + 1
    BY <1>1
  <2> QED BY <1>1, <2>1 DEF ToSet
<1> QED BY <1>2, <1>3, <1>4

(* Keep leaves the members of s that are in S, and no others. *)
LEMMA KeepMembers ==
  ASSUME NEW T, NEW s \in Seq(T), NEW S
  PROVE  Keep(s, S) \in Seq(T) /\ ToSet(Keep(s, S)) = ToSet(s) \cap S
<1>0. PICK f \in [0 .. Len(s) -> Seq(T)] : Looped(s, S, f)
  BY KeepLoop
<1>1. /\ f[0] = <<>> /\ Keep(s, S) = f[Len(s)]
      /\ \A i \in 1 .. Len(s) : f[i] = IF s[i] \in S THEN Append(f[i - 1], s[i]) ELSE f[i - 1]
  BY <1>0 DEF Looped
<1>2. Len(s) \in Nat
  OBVIOUS
<1> DEFINE G == {i \in 0 .. Len(s) : ToSet(f[i]) = {s[j] : j \in 1 .. i} \cap S}
<1>3. 0 \in G
  BY <1>1, <1>2 DEF ToSet
<1>4. ASSUME NEW i \in 0 .. Len(s) - 1, i \in G PROVE i + 1 \in G
  <2>1. i + 1 \in 1 .. Len(s) /\ (i + 1) - 1 = i /\ i + 1 \in 0 .. Len(s) /\ i \in 0 .. Len(s)
    BY <1>2
  <2>2. f[i] \in Seq(T) /\ s[i + 1] \in T /\ ToSet(f[i]) = {s[j] : j \in 1 .. i} \cap S
    BY <1>1, <1>4, <2>1
  <2>3. {s[j] : j \in 1 .. i + 1} = {s[j] : j \in 1 .. i} \cup {s[i + 1]}
    BY <2>1, SMTT(30)
  <2>4. CASE s[i + 1] \in S
    <3>1. f[i + 1] = Append(f[i], s[i + 1])
      BY <1>1, <2>1, <2>4
    <3>2. ToSet(Append(f[i], s[i + 1])) = ToSet(f[i]) \cup {s[i + 1]}
      BY <2>2, AppendMembers
    <3> QED BY <2>1, <2>2, <2>3, <2>4, <3>1, <3>2
  <2>5. CASE s[i + 1] \notin S
    <3>1. f[i + 1] = f[i]
      BY <1>1, <2>1, <2>5
    <3> QED BY <2>1, <2>2, <2>3, <2>5, <3>1
  <2> QED BY <2>4, <2>5
<1> HIDE DEF G
<1>5. Len(s) \in G
  <2>1. \A n \in 0 .. Len(s) : n \in G
    BY <1>2, <1>3, <1>4, Counting
  <2>2. Len(s) \in 0 .. Len(s)
    BY <1>2
  <2> QED BY <2>1, <2>2
<1>6. ToSet(s) = {s[j] : j \in 1 .. Len(s)}
  BY DEF ToSet
<1> QED BY <1>1, <1>2, <1>5, <1>6 DEF G

(* No member twice. *)
Distinct(s) == \A i, j \in 1 .. Len(s) : s[i] = s[j] => i = j

(* A new member at the end. *)
LEMMA AppendDistinct ==
  ASSUME NEW T, NEW a \in Seq(T), NEW e \in T, Distinct(a), e \notin ToSet(a)
  PROVE  Distinct(Append(a, e))
<1>1. /\ DOMAIN a = 1 .. Len(a) /\ Len(Append(a, e)) = Len(a) + 1 /\ Len(a) \in Nat
      /\ Append(a, e)[Len(a) + 1] = e /\ \A i \in 1 .. Len(a) : Append(a, e)[i] = a[i]
  OBVIOUS
<1>2. \A i \in 1 .. Len(a) + 1 : i \in 1 .. Len(a) \/ i = Len(a) + 1
  BY <1>1
<1>3. \A i \in 1 .. Len(a) : a[i] # e
  BY <1>1 DEF ToSet
<1>4. ASSUME NEW i \in 1 .. Len(a) + 1, NEW j \in 1 .. Len(a) + 1, Append(a, e)[i] = Append(a, e)[j]
      PROVE  i = j
  BY <1>1, <1>2, <1>3, <1>4 DEF Distinct
<1> QED BY <1>1, <1>4 DEF Distinct

(* Keep leaves no member twice where there was none. *)
LEMMA KeepDistinct ==
  ASSUME NEW T, NEW s \in Seq(T), NEW S, Distinct(s)
  PROVE  Distinct(Keep(s, S))
<1>0. PICK f \in [0 .. Len(s) -> Seq(T)] : Looped(s, S, f)
  BY KeepLoop
<1>1. /\ f[0] = <<>> /\ Keep(s, S) = f[Len(s)]
      /\ \A i \in 1 .. Len(s) : f[i] = IF s[i] \in S THEN Append(f[i - 1], s[i]) ELSE f[i - 1]
  BY <1>0 DEF Looped
<1>2. Len(s) \in Nat
  OBVIOUS
<1> DEFINE G == {i \in 0 .. Len(s) : Distinct(f[i]) /\ ToSet(f[i]) \subseteq {s[j] : j \in 1 .. i}}
<1>3. 0 \in G
  <2>1. ToSet(<<>>) = {} /\ Distinct(<<>>)
    BY DEF ToSet, Distinct
  <2> QED BY <1>1, <1>2, <2>1
<1>4. ASSUME NEW i \in 0 .. Len(s) - 1, i \in G PROVE i + 1 \in G
  <2>1. i + 1 \in 1 .. Len(s) /\ (i + 1) - 1 = i /\ i + 1 \in 0 .. Len(s) /\ i \in 0 .. Len(s)
    BY <1>2
  <2>2. f[i] \in Seq(T) /\ s[i + 1] \in T /\ Distinct(f[i]) /\ ToSet(f[i]) \subseteq {s[j] : j \in 1 .. i}
    BY <1>1, <1>4, <2>1
  <2>3. {s[j] : j \in 1 .. i + 1} = {s[j] : j \in 1 .. i} \cup {s[i + 1]}
    BY <2>1
  <2>4. CASE s[i + 1] \in S
    <3>1. f[i + 1] = Append(f[i], s[i + 1])
      BY <1>1, <2>1, <2>4
    <3>2. ToSet(Append(f[i], s[i + 1])) = ToSet(f[i]) \cup {s[i + 1]}
      BY <2>2, AppendMembers
    <3>3. \A j \in 1 .. i : j \in 1 .. Len(s) /\ j # i + 1
      BY <1>2
    <3>4. s[i + 1] \notin ToSet(f[i])
      BY <2>1, <2>2, <3>3, SMTT(30) DEF Distinct
    <3>5. Distinct(f[i + 1])
      BY <2>2, <3>1, <3>4, AppendDistinct
    <3> QED BY <2>1, <2>2, <2>3, <3>1, <3>2, <3>5
  <2>5. CASE s[i + 1] \notin S
    <3>1. f[i + 1] = f[i]
      BY <1>1, <2>1, <2>5
    <3> QED BY <2>1, <2>2, <2>3, <3>1
  <2> QED BY <2>4, <2>5
<1> HIDE DEF G
<1>5. Len(s) \in G
  <2>1. \A n \in 0 .. Len(s) : n \in G
    BY <1>2, <1>3, <1>4, Counting
  <2>2. Len(s) \in 0 .. Len(s)
    BY <1>2
  <2> QED BY <2>1, <2>2
<1> QED BY <1>1, <1>5 DEF G

(***************************************************************************)
(* Sorting: the positions in a strict total order.                         *)
(***************************************************************************)
Strict(n, R) ==
  /\ \A i \in 1 .. n : <<i, i>> \notin R
  /\ \A i, j, k \in 1 .. n : <<i, j>> \in R /\ <<j, k>> \in R => <<i, k>> \in R
  /\ \A i, j \in 1 .. n : i # j => <<i, j>> \in R \/ <<j, i>> \in R

(* Position i comes after as many positions as precede it. *)
Nth(n, R, k) == CHOOSE i \in 1 .. n : Cardinality({j \in 1 .. n : <<j, i>> \in R}) = k - 1

(* Every position comes up, and nothing else does. *)
LEMMA NthPermutes ==
  ASSUME NEW n \in Nat, NEW R, Strict(n, R)
  PROVE  /\ \A k \in 1 .. n : Nth(n, R, k) \in 1 .. n
         /\ \A i \in 1 .. n : \E k \in 1 .. n : Nth(n, R, k) = i
<1> DEFINE D == 1 .. n
           P(i) == {j \in 1 .. n : <<j, i>> \in R}
           rank == [i \in 1 .. n |-> Cardinality(P(i))]
<1>1. IsFiniteSet(1 .. n) /\ Cardinality(1 .. n) = n
  BY FS_Interval
<1>2. ASSUME NEW i \in 1 .. n
      PROVE  /\ P(i) \in SUBSET (1 .. n) /\ IsFiniteSet(P(i)) /\ Cardinality(P(i)) \in Nat
             /\ Cardinality(P(i)) <= n /\ Cardinality(P(i)) # n
  <2>1. P(i) \in SUBSET (1 .. n) /\ i \notin P(i)
    BY DEF Strict
  <2> HIDE DEF P
  <2>2. IsFiniteSet(P(i)) /\ Cardinality(P(i)) <= n /\ (n = Cardinality(P(i)) => 1 .. n = P(i))
    BY <1>1, <2>1, FS_Subset
  <2>3. Cardinality(P(i)) \in Nat
    BY <2>2, FS_CardinalityType
  <2> QED BY <2>1, <2>2, <2>3
<1>3. ASSUME NEW i \in 1 .. n, NEW j \in 1 .. n, <<i, j>> \in R
      PROVE  Cardinality(P(i)) # Cardinality(P(j))
  <2>1. P(i) \in SUBSET P(j) /\ i \in P(j) /\ i \notin P(i)
    BY <1>3 DEF Strict
  <2>2. IsFiniteSet(P(j))
    BY <1>2
  <2> HIDE DEF P
  <2> QED BY <2>1, <2>2, FS_Subset
<1>4. ASSUME NEW i \in 1 .. n, NEW j \in 1 .. n, Cardinality(P(i)) = Cardinality(P(j))
      PROVE  i = j
  BY <1>3, <1>4, ZenonT(60) DEF Strict
<1>5. rank \in [1 .. n -> 0 .. n - 1]
  <2>1. \A i \in 1 .. n : Cardinality(P(i)) \in 0 .. n - 1
    <3> TAKE i \in 1 .. n
    <3> DEFINE c == Cardinality(P(i))
    <3>1. c \in Nat /\ c <= n /\ c # n
      BY <1>2
    <3> HIDE DEF c
    <3>2. c \in 0 .. n - 1
      BY <3>1
    <3> QED BY <3>2 DEF c
  <2> HIDE DEF P
  <2> QED BY <2>1
<1>6. rank \in Injection(1 .. n, 0 .. n - 1)
  <2>1. \A i, j \in 1 .. n : rank[i] = rank[j] => i = j
    BY <1>4
  <2> HIDE DEF rank
  <2> QED BY <1>5, <2>1 DEF Injection, IsInjective
<1>7. rank \in Surjection(1 .. n, 0 .. n - 1)
  <2>1. IsFiniteSet(0 .. n - 1) /\ Cardinality(0 .. n - 1) = n
    BY FS_Interval
  <2> HIDE DEF rank
  <2> QED BY <1>1, <1>6, <2>1, FS_Injection
<1>8. \A c \in 0 .. n - 1 : \E i \in 1 .. n : rank[i] = c
  <2> HIDE DEF rank
  <2> QED BY <1>7 DEF Surjection
<1>9. ASSUME NEW k \in 1 .. n
      PROVE  Nth(n, R, k) \in 1 .. n /\ Cardinality(P(Nth(n, R, k))) = k - 1
  <2>1. k - 1 \in 0 .. n - 1
    OBVIOUS
  <2>2. \E i \in 1 .. n : Cardinality(P(i)) = k - 1
    BY <1>8, <2>1
  <2> QED BY <2>2 DEF Nth
<1>10. ASSUME NEW i \in 1 .. n PROVE \E k \in 1 .. n : Nth(n, R, k) = i
  <2> DEFINE k == Cardinality(P(i)) + 1
  <2>1. k \in 1 .. n /\ k - 1 = Cardinality(P(i))
    BY <1>2
  <2> HIDE DEF k
  <2>2. Nth(n, R, k) \in 1 .. n /\ Cardinality(P(Nth(n, R, k))) = Cardinality(P(i))
    BY <1>9, <2>1
  <2>3. Nth(n, R, k) = i
    BY <1>4, <2>2
  <2> QED BY <2>1, <2>3
<1> QED BY <1>9, <1>10

(* Three numbers and the position, compared one after the other, as the     *)
(* rankings do.                                                             *)
Lex(n, a, b, c) ==
  {x \in (1 .. n) \X (1 .. n) :
     IF a[x[1]] # a[x[2]] THEN a[x[1]] < a[x[2]]
     ELSE IF b[x[1]] # b[x[2]] THEN b[x[1]] < b[x[2]]
     ELSE IF c[x[1]] # c[x[2]] THEN c[x[1]] > c[x[2]] ELSE x[1] < x[2]}

(* That is a strict total order. *)
LEMMA LexStrict ==
  ASSUME NEW n \in Nat, NEW a \in [1 .. n -> Int], NEW b \in [1 .. n -> Int], NEW c \in [1 .. n -> Int]
  PROVE  Strict(n, Lex(n, a, b, c))
<1> DEFINE B(i, j) == IF a[i] # a[j] THEN a[i] < a[j]
                      ELSE IF b[i] # b[j] THEN b[i] < b[j]
                      ELSE IF c[i] # c[j] THEN c[i] > c[j] ELSE i < j
<1>1. \A i, j \in 1 .. n : <<i, j>> \in Lex(n, a, b, c) <=> B(i, j)
  BY DEF Lex
<1>2. \A i \in 1 .. n : a[i] \in Int /\ b[i] \in Int /\ c[i] \in Int /\ i \in Int
  OBVIOUS
<1>3. \A i \in 1 .. n : ~B(i, i)
  BY <1>2
<1>4. \A i, j, k \in 1 .. n : B(i, j) /\ B(j, k) => B(i, k)
  BY <1>2, SMTT(30)
<1>5. \A i, j \in 1 .. n : i # j => B(i, j) \/ B(j, i)
  BY <1>2, SMTT(30)
<1> HIDE DEF B
<1>6. \A i \in 1 .. n : <<i, i>> \notin Lex(n, a, b, c)
  BY <1>1, <1>3
<1>7. \A i, j, k \in 1 .. n : <<i, j>> \in Lex(n, a, b, c) /\ <<j, k>> \in Lex(n, a, b, c)
                                => <<i, k>> \in Lex(n, a, b, c)
  BY <1>1, <1>4
<1>8. \A i, j \in 1 .. n : i # j => <<i, j>> \in Lex(n, a, b, c) \/ <<j, i>> \in Lex(n, a, b, c)
  BY <1>1, <1>5
<1> QED BY <1>6, <1>7, <1>8 DEF Strict

(* Reading a sequence in the order of a permutation leaves its members. *)
LEMMA Reordered ==
  ASSUME NEW T, NEW s \in Seq(T), NEW R, Strict(Len(s), R)
  PROVE  LET p == [k \in 1 .. Len(s) |-> s[Nth(Len(s), R, k)]]
         IN p \in Seq(T) /\ Len(p) = Len(s) /\ ToSet(p) = ToSet(s)
<1> DEFINE n == Len(s)
           p == [k \in 1 .. n |-> s[Nth(n, R, k)]]
<1>1. n \in Nat /\ DOMAIN s = 1 .. n
  OBVIOUS
<1>2. /\ \A k \in 1 .. n : Nth(n, R, k) \in 1 .. n
      /\ \A i \in 1 .. n : \E k \in 1 .. n : Nth(n, R, k) = i
  BY <1>1, NthPermutes
<1>3. \A k \in 1 .. n : s[Nth(n, R, k)] \in T
  BY <1>2
<1>4. p \in [1 .. n -> T]
  BY <1>3
<1>5. p \in Seq(T) /\ Len(p) = n
  BY <1>1, <1>4, IsASeq
<1>6. DOMAIN p = 1 .. n /\ \A k \in 1 .. n : p[k] = s[Nth(n, R, k)]
  OBVIOUS
<1> HIDE DEF p
<1>7. ToSet(p) = ToSet(s)
  BY <1>1, <1>2, <1>6 DEF ToSet
<1> QED BY <1>5, <1>7 DEF p

(***************************************************************************)
(* The invariant.                                                          *)
(***************************************************************************)
Stick == [prov : Nat, since : Nat]
Profiles == {a.prof : a \in UNION {x.arrivals : x \in Scenarios}}
Grades == {NoGrade} \cup {GradeOf[t] : t \in Target}
Picks == [made : BOOLEAN, grade : Grades, targets : SUBSET Target]

(* A request in a pass, one that has its order, and one about to report. *)
Passing == [phase : {"due", "decided", "parked", "failed"}, route : RouteKeys, exposed : Exposed,
            targets : Seq(Target), chain : Seq(Target), sess : Sessions, off : BOOLEAN, gen : Nat,
            prof : Profiles, choice : Picks, now : Nat, base : Seq(Target), order : Seq(Target),
            park : Nat, moved : BOOLEAN, force : BOOLEAN]
Trying == [phase : {"planned"}, sess : Sessions, route : RouteKeys, gen : Nat]
Ending == [phase : {"ending"}, sess : Sessions, route : RouteKeys, gen : Nat, now : Nat, n : Nat,
           good : BOOLEAN]

TypeOK ==
  /\ gen \in Nat /\ clock \in Nat /\ scene \in Scenarios
  /\ sticky \in [Sessions \X Exposed -> Stick]
  /\ spread \in [Parents -> Nat] /\ rr \in [Exposed -> Nat]
  /\ facts \in FactSets \cup {StartFacts}
  /\ latch \in [LatchKeys -> [here : BOOLEAN, on : BOOLEAN, since : Nat, runs : Nat]]
  /\ talk \in [TalkKeys -> [prov : Nat, since : Nat, was : Stick]]
  /\ dealt \in [RouteKeys -> [list : Seq(Target), n : [Target -> Nat]]]
  /\ bads \in [LatchKeys -> Seq([read : Nat, at : Nat, n : Nat, before : Nat])]
  /\ req \in [Req -> {Idle} \cup Passing \cup Trying \cup Ending]

(* What a request remembers of its pass.  Its clock reading is not of the   *)
(* future; the pool it was given instead of its route fits the request and  *)
(* its own order did not; it binds the provider it tries first, or none.    *)
InPass(r) ==
  /\ r.now <= clock
  /\ r.exposed \in {r.route, ReqKey(r.route)}
  /\ r.phase = "failed" => r.exposed = r.route
  /\ Distinct(r.targets) /\ Distinct(r.chain)
  /\ r.exposed # r.route => ToSet(r.chain) \subseteq r.prof.fit /\ ToSet(r.base) \cap r.prof.fit = {}
  /\ r.phase \in {"decided", "parked"} => ToSet(r.order) \subseteq ToSet(r.chain)
  /\ r.phase = "decided" =>
       /\ r.off \/ r.order = <<>> => r.park = 0
       /\ ~r.off /\ r.order # <<>> /\ r.sess # NoSession => r.park = ProviderOf[r.order[1]]

InEnding(r) == r.now <= clock /\ <<r.sess, r.route>> \in LatchKeys /\ (r.good <=> r.n = 0)

Passes ==
  \A q \in Req : /\ req[q].phase \in {"due", "decided", "parked", "failed"} => InPass(req[q])
                 /\ req[q].phase = "ending" => InEnding(req[q])

(* The binding of a session is where the session was sent last, until that  *)
(* was longer ago than the dwell.                                           *)
Follow(k) == /\ sticky[k].prov = talk[k].prov
             /\ sticky[k].since = talk[k].since
Bindings ==
  \A k \in TalkKeys : talk[k].prov # 0 => Follow(k) \/ clock - talk[k].since > Dwell

(* The bad runs that a latch counts are the last ones of its session, all   *)
(* recorded after its dwell began.                                          *)
Counted(l, runs) ==
  \E i \in 1 .. Len(runs) : Total(runs) - runs[i].before = l.runs /\ l.since <= runs[i].at
Streaks ==
  \A k \in LatchKeys :
    LET l == latch[k]
    IN /\ l.since <= clock
       /\ ~l.here => l.runs = 0
       /\ ~l.on /\ l.runs > 0 => Counted(l, bads[k])

(* The rotation stands at p of m slots and the last c of them were dealt.   *)
Lately(p, m, i, c) == (IF i - 1 < p THEN p - i ELSE (p - i) + m) < c
Round(list, n, next, c) ==
  \A i \in 1 .. Len(list) :
    n[list[i]] = IF Lately(next % Len(list), Len(list), i, c) THEN 1 ELSE 0
Deals ==
  \A r \in RouteKeys :
    LET d == dealt[r]
    IN /\ Distinct(d.list)
       /\ d.list # <<>> => \E c \in 0 .. Len(d.list) - 1 : Round(d.list, d.n, rr[r], c)

IInv == TypeOK /\ Passes /\ Bindings /\ Streaks /\ Deals

(***************************************************************************)
(* What a decision reads and returns.                                      *)
(***************************************************************************)
(* The targets have providers, pools and priorities. *)
LEMMA Numbers ==
  \A t \in Target : ProviderOf[t] \in Nat /\ ProviderOf[t] # 0 /\ ParentOf[t] \in Nat /\ Priority[t] \in Int
BY ConfigAssumption

(* Measurements of targets are numbers. *)
Measured(f) == \A t \in Target : f[t].tier \in Int /\ f[t].score \in Int

(* The candidates of a call are targets of its chain. *)
LEMMA OfferedIs ==
  ASSUME NEW in, NEW st, in.chain \in Seq(Target)
  PROVE  /\ Offered(in, st) \in Seq(Target)
         /\ ToSet(Offered(in, st)) \subseteq ToSet(in.chain)
         /\ Distinct(in.chain) => Distinct(Offered(in, st))
<1> DEFINE e == Enabled(in, st)
           on == ToSet(in.chain) \ st.disabled
           named == {t \in ToSet(in.chain) : Names(t, st.pin[in.exposed].who)}
           up == ToSet(e) \ st.down
<1>1. e = Keep(in.chain, on)
  BY DEF Enabled, Without
<1> HIDE DEF e, on
<1>2. e \in Seq(Target) /\ ToSet(e) \subseteq ToSet(in.chain) /\ (Distinct(in.chain) => Distinct(e))
  BY <1>1, KeepMembers, KeepDistinct
<1> HIDE DEF named, up
<1>3. /\ Keep(e, named) \in Seq(Target) /\ ToSet(Keep(e, named)) \subseteq ToSet(in.chain)
      /\ Distinct(in.chain) => Distinct(Keep(e, named))
  BY <1>2, KeepMembers, KeepDistinct
<1>4. /\ Keep(e, up) \in Seq(Target) /\ ToSet(Keep(e, up)) \subseteq ToSet(in.chain)
      /\ Distinct(in.chain) => Distinct(Keep(e, up))
  BY <1>2, KeepMembers, KeepDistinct
<1>5. Offered(in, st) = Keep(e, named) \/ Offered(in, st) = Keep(e, up)
  BY DEF Offered, PinMatches, Without, e, named, up
<1> QED BY <1>3, <1>4, <1>5

(* The first candidate of a provider, if it has one. *)
LEMMA ProviderAt ==
  ASSUME NEW av \in Seq(Target), NEW p
  PROVE  LET at == SelectInSeq(av, LAMBDA t : ProviderOf[t] = p)
         IN /\ at \in 0 .. Len(av)
            /\ at = 0 <=> \A i \in 1 .. Len(av) : ProviderOf[av[i]] # p
            /\ at # 0 => at \in 1 .. Len(av) /\ ProviderOf[av[at]] = p
<1> DEFINE I == {i \in 1 .. Len(av) : ProviderOf[av[i]] = p}
           at == SelectInSeq(av, LAMBDA t : ProviderOf[t] = p)
<1>1. at = IF I # {} THEN Min(I) ELSE 0
  BY DEF SelectInSeq
<1>2. Len(av) \in Nat /\ I \in SUBSET Nat
  OBVIOUS
<1> HIDE DEF at
<1>3. CASE I = {}
  BY <1>1, <1>2, <1>3 DEF at
<1>4. CASE I # {}
  <2> HIDE DEF I
  <2>1. at \in I
    BY <1>1, <1>2, <1>4, MinIsLeast
  <2>2. at \in 1 .. Len(av) /\ ProviderOf[av[at]] = p
    BY <2>1 DEF I
  <2>3. at \in 0 .. Len(av) /\ at # 0
    BY <1>2, <2>2
  <2> QED BY <2>2, <2>3 DEF at
<1> QED BY <1>3, <1>4

(* Ranking leaves the candidates. *)
LEMMA RankedIs ==
  ASSUME NEW av \in Seq(Target), NEW f, Measured(f)
  PROVE  /\ Ranked(av, f) \in Seq(Target) /\ Len(Ranked(av, f)) = Len(av)
         /\ ToSet(Ranked(av, f)) = ToSet(av)
<1> DEFINE n == Len(av)
           a == [i \in 1 .. n |-> f[av[i]].tier]
           b == [i \in 1 .. n |-> Priority[av[i]]]
           c == [i \in 1 .. n |-> f[av[i]].score]
           R == Lex(n, a, b, c)
<1>1. n \in Nat /\ \A i \in 1 .. n : av[i] \in Target
  OBVIOUS
<1>2. a \in [1 .. n -> Int] /\ b \in [1 .. n -> Int] /\ c \in [1 .. n -> Int]
  BY <1>1, Numbers DEF Measured
<1>3. \A i, j \in 1 .. n : <<j, i>> \in R <=>
         IF a[j] # a[i] THEN a[j] < a[i]
         ELSE IF b[j] # b[i] THEN b[j] < b[i]
         ELSE IF c[j] # c[i] THEN c[j] > c[i] ELSE j < i
  BY DEF Lex
<1> DEFINE B(j, i) == IF f[av[j]].tier # f[av[i]].tier THEN f[av[j]].tier < f[av[i]].tier
                      ELSE IF Priority[av[j]] # Priority[av[i]] THEN Priority[av[j]] < Priority[av[i]]
                      ELSE IF f[av[j]].score # f[av[i]].score THEN f[av[j]].score > f[av[i]].score
                      ELSE j < i
<1>4. \A i, j \in 1 .. n : <<j, i>> \in R <=> B(j, i)
  <2> HIDE DEF R
  <2> QED BY <1>3, ZenonT(60)
<1>5. Ranked(av, f) = [k \in 1 .. n |-> av[CHOOSE i \in 1 .. n : Cardinality({j \in 1 .. n : B(j, i)}) = k - 1]]
  BY DEF Ranked, InOrder
<1> HIDE DEF R, B
<1>6. \A i \in 1 .. n : {j \in 1 .. n : B(j, i)} = {j \in 1 .. n : <<j, i>> \in R}
  BY <1>4
<1>7. \A k \in 1 .. n : (CHOOSE i \in 1 .. n : Cardinality({j \in 1 .. n : B(j, i)}) = k - 1) = Nth(n, R, k)
  BY <1>6 DEF Nth
<1>8. Ranked(av, f) = [k \in 1 .. n |-> av[Nth(n, R, k)]]
  BY <1>5, <1>7
<1>9. Strict(n, R)
  <2> HIDE DEF a, b, c
  <2> QED BY <1>1, <1>2, LexStrict DEF R
<1> QED BY <1>8, <1>9, Reordered

(* Sorting the accounts of a pool by name leaves them. *)
LEMMA ByNameIs ==
  ASSUME NEW band \in Seq(Target)
  PROVE  /\ ByName(band) \in Seq(Target) /\ Len(ByName(band)) = Len(band)
         /\ ToSet(ByName(band)) = ToSet(band)
<1> DEFINE n == Len(band)
           a == [i \in 1 .. n |-> ProviderOf[band[i]]]
           z == [i \in 1 .. n |-> 0]
           R == Lex(n, a, z, z)
           B(j, i) == \/ ProviderOf[band[j]] < ProviderOf[band[i]]
                      \/ ProviderOf[band[j]] = ProviderOf[band[i]] /\ j < i
<1>1. ByName(band) = [k \in 1 .. n |-> band[CHOOSE i \in 1 .. n : Cardinality({j \in 1 .. n : B(j, i)}) = k - 1]]
  BY DEF ByName, InOrder
<1>2. n \in Nat /\ \A i \in 1 .. n : band[i] \in Target
  OBVIOUS
<1>3. a \in [1 .. n -> Int] /\ z \in [1 .. n -> Int]
  BY <1>2, Numbers
<1>4. \A i \in 1 .. n : a[i] = ProviderOf[band[i]] /\ z[i] = 0 /\ a[i] \in Int
  BY <1>2, <1>3
<1>5. \A i, j \in 1 .. n : <<j, i>> \in R <=>
        IF a[j] # a[i] THEN a[j] < a[i]
        ELSE IF z[j] # z[i] THEN z[j] < z[i]
        ELSE IF z[j] # z[i] THEN z[j] > z[i] ELSE j < i
  BY DEF Lex
<1> HIDE DEF R, a, z
<1>6. \A i, j \in 1 .. n : <<j, i>> \in R <=> a[j] < a[i] \/ (a[j] = a[i] /\ j < i)
  <2> TAKE i, j \in 1 .. n
  <2>1. z[i] = z[j] /\ a[i] \in Int /\ a[j] \in Int
    BY <1>4
  <2> QED BY <1>5, <2>1
<1>7. \A i, j \in 1 .. n : <<j, i>> \in R <=> B(j, i)
  BY <1>4, <1>6, ZenonT(60)
<1> HIDE DEF B
<1>8. \A i \in 1 .. n : {j \in 1 .. n : B(j, i)} = {j \in 1 .. n : <<j, i>> \in R}
  BY <1>7
<1>9. \A k \in 1 .. n : (CHOOSE i \in 1 .. n : Cardinality({j \in 1 .. n : B(j, i)}) = k - 1) = Nth(n, R, k)
  BY <1>8 DEF Nth
<1>10. ByName(band) = [k \in 1 .. n |-> band[Nth(n, R, k)]]
  BY <1>1, <1>9
<1>11. Strict(n, R)
  BY <1>2, <1>3, LexStrict DEF R
<1> QED BY <1>10, <1>11, Reordered

(* The accounts that rank like the winner: the winner and candidates only. *)
LEMMA PoolBandIs ==
  ASSUME NEW av \in Seq(Target), NEW f, NEW pick \in ToSet(av)
  PROVE  /\ PoolBand(av, pick, f) \in Seq(Target) /\ Len(PoolBand(av, pick, f)) \in Nat \ {0}
         /\ ToSet(PoolBand(av, pick, f)) \subseteq ToSet(av)
<1> DEFINE S == {t \in ToSet(av) : /\ ParentOf[t] = ParentOf[pick]
                                   /\ f[t].tier = f[pick].tier
                                   /\ Priority[t] = Priority[pick]}
           band == Peers(av, pick, f)
<1>1. pick \in S /\ band = Keep(av, S)
  BY DEF Peers
<1> HIDE DEF S, band
<1>2. band \in Seq(Target) /\ ToSet(band) = ToSet(av) \cap S
  BY <1>1, KeepMembers
<1>3. Len(band) \in Nat \ {0}
  BY <1>1, <1>2 DEF ToSet
<1>4. PoolBand(av, pick, f) = ByName(band)
  BY DEF PoolBand, band
<1> QED BY <1>2, <1>3, <1>4, ByNameIs

(* What a call may ask, and what the manager holds. *)
Asked(in) == /\ in.chain \in Seq(Target) /\ in.exposed \in Exposed /\ in.sess \in Sessions
             /\ in.now \in Nat /\ in.off \in BOOLEAN /\ in.commit \in BOOLEAN
Stored(st) == /\ st.sticky \in [Sessions \X Exposed -> Stick]
             /\ st.spread \in [Parents -> Nat] /\ st.rr \in [Exposed -> Nat]
             /\ Measured(st.facts)

(* The binding that a decision goes by, and the providers it may choose. *)
Current(in, st) == Bound(in, Swept(in, st))
Open(in, st) == {ProviderOf[t] : t \in ToSet(Offered(in, st))}

(* What every decision is like: targets of the chain; the binding is that   *)
(* of the target it tries first; a binding within the dwell is followed.    *)
Decision(in, st, res) ==
  /\ res.order \in Seq(Target) /\ res.park \in Nat
  /\ res.spread \in [Parents -> Nat] /\ res.rr \in [Exposed -> Nat]
  /\ ToSet(res.order) \subseteq ToSet(in.chain)
  /\ in.off \/ res.order = <<>> => res.park = 0
  /\ ~in.off /\ res.order # <<>> /\ in.sess # NoSession => res.park = ProviderOf[res.order[1]]
  /\ LET cur == Current(in, st)
     IN cur.prov # 0 /\ in.now - cur.since < Dwell /\ in.sess # NoSession /\ cur.prov \in Open(in, st) =>
          ProviderOf[res.order[1]] = cur.prov

(* A provider is open when a candidate has it. *)
LEMMA OpenIs ==
  ASSUME NEW in, NEW st, in.chain \in Seq(Target), NEW p
  PROVE  p \in Open(in, st) <=> \E i \in 1 .. Len(Offered(in, st)) : ProviderOf[Offered(in, st)[i]] = p
<1> DEFINE s == Offered(in, st)
<1>1. DOMAIN s = 1 .. Len(s)
  BY OfferedIs
<1> QED BY <1>1 DEF Open, ToSet

(* One member before others. *)
LEMMA ConsIs ==
  ASSUME NEW T, NEW e \in T, NEW s \in Seq(T)
  PROVE  /\ <<e>> \o s \in Seq(T) /\ (<<e>> \o s)[1] = e /\ <<e>> \o s # <<>>
         /\ ToSet(<<e>> \o s) = {e} \cup ToSet(s)
<1>1. /\ <<e>> \o s \in Seq(T) /\ Len(<<e>> \o s) = 1 + Len(s) /\ Len(s) \in Nat
      /\ (<<e>> \o s)[1] = e /\ \A i \in 1 .. Len(s) : (<<e>> \o s)[i + 1] = s[i]
  OBVIOUS
<1> DEFINE c == <<e>> \o s
<1> HIDE DEF c
<1>2. /\ c \in Seq(T) /\ Len(c) = 1 + Len(s) /\ DOMAIN c = 1 .. Len(s) + 1 /\ DOMAIN s = 1 .. Len(s)
      /\ c[1] = e /\ \A i \in 1 .. Len(s) : c[i + 1] = s[i]
  BY <1>1 DEF c
<1>3. ASSUME NEW x \in ToSet(c) PROVE x \in {e} \cup ToSet(s)
  <2>1. PICK i \in 1 .. Len(s) + 1 : x = c[i]
    BY <1>2 DEF ToSet
  <2>2. i = 1 \/ (i - 1 \in 1 .. Len(s) /\ (i - 1) + 1 = i)
    BY <1>1
  <2>3. CASE i = 1
    BY <1>2, <2>1, <2>3
  <2>4. CASE i - 1 \in 1 .. Len(s) /\ (i - 1) + 1 = i
    <3>1. c[i] = s[i - 1]
      BY <1>2, <2>4
    <3> QED BY <1>2, <2>1, <2>4, <3>1 DEF ToSet
  <2> QED BY <2>2, <2>3, <2>4
<1>4. ASSUME NEW x \in ToSet(s) PROVE x \in ToSet(c)
  <2>1. PICK i \in 1 .. Len(s) : x = s[i]
    BY <1>2 DEF ToSet
  <2>2. i + 1 \in 1 .. Len(s) + 1 /\ x = c[i + 1]
    BY <1>1, <1>2, <2>1
  <2> QED BY <1>2, <2>2 DEF ToSet
<1>5. e \in ToSet(c)
  <2>1. 1 \in 1 .. Len(s) + 1
    BY <1>1
  <2> QED BY <1>2, <2>1 DEF ToSet
<1>6. c # <<>>
  BY <1>1, <1>2
<1> QED BY <1>2, <1>3, <1>4, <1>5, <1>6 DEF c

(* The quota strategy decides so. *)
LEMMA QuotaIs ==
  ASSUME NEW in, NEW st, Asked(in), Stored(st)
  PROVE  Decision(in, st, QuotaOrder(in, st)) /\ QuotaOrder(in, st).rr = st.rr
<1> DEFINE off == Offered(in, st)
           av == Ranked(off, st.facts)
           cur == Current(in, st)
           At(t) == ProviderOf[t] = cur.prov
           at == SelectInSeq(av, LAMBDA t : ProviderOf[t] = cur.prov)
           held == Held(in, cur, av, st.facts)
           parent == IF held \/ av = <<>> THEN 0 ELSE ParentOf[av[1]]
           band == PoolBand(av, av[1], st.facts)
           head == IF held THEN av[at]
                   ELSE IF parent # 0 THEN band[1 + (st.spread[parent] % Len(band))] ELSE av[1]
           others == {t \in ToSet(av) : ProviderOf[t] # ProviderOf[head]}
           rest == Keep(av, others)
           res == QuotaOrder(in, st)
<1>1. res = IF av = <<>>
       THEN [order |-> <<>>, park |-> 0, spread |-> st.spread, rr |-> st.rr]
       ELSE [order  |-> <<head>> \o rest,
             park   |-> IF in.off \/ (held /\ in.sess = NoSession) THEN 0 ELSE ProviderOf[head],
             spread |-> IF parent # 0 /\ in.commit THEN [st.spread EXCEPT ![parent] = @ + 1] ELSE st.spread,
             rr     |-> st.rr]
  BY DEF QuotaOrder, Current
<1>2. held => at # 0
  BY DEF Held
<1>3. at # 0 /\ cur.prov # 0 /\ in.now - cur.since < Dwell => held
  BY DEF Held
<1> HIDE DEF res, held, at, cur, off
<1>4. off \in Seq(Target) /\ ToSet(off) \subseteq ToSet(in.chain)
  BY OfferedIs DEF Asked, off
<1>5. av \in Seq(Target) /\ ToSet(av) = ToSet(off)
  BY <1>4, RankedIs DEF Stored
<1> HIDE DEF av
<1>6. /\ at \in 0 .. Len(av)
      /\ at = 0 <=> \A i \in 1 .. Len(av) : ProviderOf[av[i]] # cur.prov
      /\ at # 0 => at \in 1 .. Len(av) /\ ProviderOf[av[at]] = cur.prov
  BY <1>5, ProviderAt DEF at
<1>7. DOMAIN av = 1 .. Len(av) /\ \A i \in 1 .. Len(av) : av[i] \in ToSet(av)
  BY <1>5 DEF ToSet
<1>8. CASE av = <<>>
  <2>1. res = [order |-> <<>>, park |-> 0, spread |-> st.spread, rr |-> st.rr]
    BY <1>1, <1>8
  <2>2. Open(in, st) = {}
    BY <1>5, <1>8 DEF Open, ToSet, off
  <2>3. ToSet(<<>>) = {}
    BY DEF ToSet
  <2> QED BY <2>1, <2>2, <2>3 DEF Decision, Stored, res
<1>9. CASE av # <<>>
  <2>1. 1 \in 1 .. Len(av) /\ av[1] \in ToSet(av)
    BY <1>5, <1>7, <1>9
  <2>2. parent # 0 => parent \in Parents
    <3>1. av[1] \in Target
      BY <1>5, <2>1
    <3> QED BY <3>1 DEF Parents
  <2>3. head \in ToSet(av)
    <3>1. CASE held
      BY <1>2, <1>6, <1>7, <3>1
    <3>2. CASE ~held /\ parent # 0
      <4>1. band \in Seq(Target) /\ Len(band) \in Nat \ {0} /\ ToSet(band) \subseteq ToSet(av)
        BY <1>5, <2>1, PoolBandIs
      <4>2. st.spread[parent] \in Nat
        BY <2>2, <3>2 DEF Stored
      <4> DEFINE k == 1 + (st.spread[parent] % Len(band))
      <4>3. k \in 1 .. Len(band)
        BY <4>1, <4>2
      <4> HIDE DEF k, band
      <4>4. band[k] \in ToSet(band)
        BY <4>1, <4>3 DEF ToSet
      <4> QED BY <3>2, <4>1, <4>4 DEF k
    <3>3. CASE ~held /\ parent = 0
      BY <2>1, <3>3
    <3> QED BY <3>1, <3>2, <3>3
  <2>4. held => head = av[at]
    OBVIOUS
  <2>5. parent # 0 => [st.spread EXCEPT ![parent] = @ + 1] \in [Parents -> Nat]
    BY <2>2 DEF Stored
  <2> HIDE DEF head, parent, band, others
  <2>6. rest \in Seq(Target) /\ ToSet(rest) \subseteq ToSet(av)
    BY <1>5, KeepMembers
  <2> HIDE DEF rest
  <2>7. head \in Target /\ ProviderOf[head] \in Nat
    BY <1>5, <2>3, Numbers DEF ToSet
  <2>8. /\ <<head>> \o rest \in Seq(Target) /\ (<<head>> \o rest)[1] = head /\ <<head>> \o rest # <<>>
        /\ ToSet(<<head>> \o rest) = {head} \cup ToSet(rest)
    BY <2>6, <2>7, ConsIs
  <2> DEFINE o == <<head>> \o rest
  <2> HIDE DEF o
  <2>9. /\ res.order = o /\ res.rr = st.rr
        /\ res.park = IF in.off \/ (held /\ in.sess = NoSession) THEN 0 ELSE ProviderOf[head]
        /\ res.spread = IF parent # 0 /\ in.commit THEN [st.spread EXCEPT ![parent] = @ + 1] ELSE st.spread
    BY <1>1, <1>9 DEF o
  <2>10. o \in Seq(Target) /\ o[1] = head /\ o # <<>> /\ ToSet(o) \subseteq ToSet(in.chain)
    BY <1>4, <1>5, <2>3, <2>6, <2>8 DEF o
  <2>11. res.park \in Nat /\ res.spread \in [Parents -> Nat] /\ res.rr \in [Exposed -> Nat]
    BY <2>5, <2>7, <2>9 DEF Stored
  <2>12. in.off => res.park = 0
    BY <2>9
  <2>13. ~in.off /\ in.sess # NoSession => res.park = ProviderOf[res.order[1]]
    BY <2>9, <2>10
  <2>14. ASSUME cur.prov # 0, in.now - cur.since < Dwell, cur.prov \in Open(in, st)
         PROVE  ProviderOf[res.order[1]] = cur.prov
    <3>1. PICK t \in ToSet(av) : ProviderOf[t] = cur.prov
      BY <1>5, <2>14 DEF Open, off
    <3>2. at # 0
      BY <1>6, <1>7, <3>1 DEF ToSet
    <3>3. held
      BY <1>3, <2>14, <3>2
    <3> QED BY <1>6, <2>4, <2>9, <2>10, <3>2, <3>3
  <2> QED BY <2>9, <2>10, <2>11, <2>12, <2>13, <2>14 DEF Decision, res, cur
<1> QED BY <1>8, <1>9

(* The members of two sequences in a row. *)
LEMMA ConcatMembers ==
  ASSUME NEW T, NEW a \in Seq(T), NEW b \in Seq(T)
  PROVE  a \o b \in Seq(T) /\ ToSet(a \o b) = ToSet(a) \cup ToSet(b) /\ (a # <<>> => (a \o b)[1] = a[1])
<1> DEFINE c == a \o b
           m == Len(a)
           n == Len(b)
<1>1. /\ c \in Seq(T) /\ Len(c) = m + n
      /\ m \in Nat /\ n \in Nat /\ DOMAIN a = 1 .. m /\ DOMAIN b = 1 .. n
  OBVIOUS
<1>2. \A i \in 1 .. m + n : c[i] = IF i <= m THEN a[i] ELSE b[i - m]
  BY ConcatProperties
<1> HIDE DEF c
<1>3. DOMAIN c = 1 .. m + n
  BY <1>1
<1> HIDE DEF m, n
<1>4. ASSUME NEW x \in ToSet(c) PROVE x \in ToSet(a) \cup ToSet(b)
  <2>1. PICK i \in 1 .. m + n : x = c[i]
    BY <1>3 DEF ToSet
  <2>2. CASE i <= m
    <3>1. i \in 1 .. m /\ x = a[i]
      BY <1>1, <1>2, <2>1, <2>2
    <3> QED BY <1>1, <3>1 DEF ToSet
  <2>3. CASE ~(i <= m)
    <3>1. i - m \in 1 .. n /\ x = b[i - m]
      BY <1>1, <1>2, <2>1, <2>3
    <3> QED BY <1>1, <3>1 DEF ToSet
  <2> QED BY <2>2, <2>3
<1>5. ASSUME NEW x \in ToSet(a) PROVE x \in ToSet(c)
  <2>1. PICK i \in 1 .. m : x = a[i]
    BY <1>1 DEF ToSet
  <2>2. i \in 1 .. m + n /\ i <= m
    BY <1>1
  <2> QED BY <1>2, <1>3, <2>1, <2>2 DEF ToSet
<1>6. ASSUME NEW x \in ToSet(b) PROVE x \in ToSet(c)
  <2>1. PICK i \in 1 .. n : x = b[i]
    BY <1>1 DEF ToSet
  <2> DEFINE j == m + i
  <2>2. j \in 1 .. m + n /\ ~(j <= m) /\ j - m = i
    BY <1>1
  <2> HIDE DEF j
  <2> QED BY <1>2, <1>3, <2>1, <2>2 DEF ToSet
<1>7. ASSUME a # <<>> PROVE c[1] = a[1]
  <2>1. m # 0
    BY <1>1, <1>7 DEF m
  <2>2. 1 \in 1 .. m + n /\ 1 <= m
    BY <1>1, <2>1
  <2> QED BY <1>2, <2>2
<1> QED BY <1>1, <1>4, <1>5, <1>6, <1>7 DEF c

(* The members of a part of a sequence. *)
LEMMA SubSeqMembers ==
  ASSUME NEW T, NEW s \in Seq(T), NEW i \in 1 .. Len(s) + 1, NEW j \in 0 .. Len(s)
  PROVE  /\ SubSeq(s, i, j) \in Seq(T) /\ ToSet(SubSeq(s, i, j)) \subseteq ToSet(s)
         /\ i <= j => SubSeq(s, i, j) # <<>> /\ SubSeq(s, i, j)[1] = s[i]
<1> DEFINE p == SubSeq(s, i, j)
           n == IF i <= j THEN (j - i) + 1 ELSE 0
<1>1. p \in Seq(T) /\ Len(p) = n /\ n \in Nat /\ Len(s) \in Nat /\ DOMAIN s = 1 .. Len(s)
  BY SubSeqProperties
<1>2. \A k \in 1 .. n : p[k] = s[(i + k) - 1]
  BY SubSeqProperties
<1> HIDE DEF p
<1>3. DOMAIN p = 1 .. n
  BY <1>1
<1>4. ASSUME NEW x \in ToSet(p) PROVE x \in ToSet(s)
  <2>1. PICK k \in 1 .. n : x = p[k]
    BY <1>3 DEF ToSet
  <2>2. (i + k) - 1 \in 1 .. Len(s)
    BY <1>1, <2>1
  <2> QED BY <1>1, <1>2, <2>1, <2>2 DEF ToSet
<1>5. ASSUME i <= j PROVE p # <<>> /\ p[1] = s[i]
  <2>1. 1 \in 1 .. n /\ (i + 1) - 1 = i
    BY <1>5
  <2>2. p[1] = s[i]
    BY <1>2, <2>1
  <2> QED BY <1>1, <2>1, <2>2
<1> QED BY <1>1, <1>4, <1>5 DEF p

(* The call finds no binding that it could follow and takes the next slot. *)
TakesSlot(in, st) == in.sess = NoSession \/ Current(in, st).prov \notin Open(in, st)

(* The load-balance strategy decides so, and moves on by one slot exactly   *)
(* when it dealt the slot out.                                              *)
LEMMA LoadBalanceIs ==
  ASSUME NEW in, NEW st, Asked(in), Stored(st)
  PROVE  LET res == LoadBalance(in, st)
             av == Offered(in, st)
         IN /\ Decision(in, st, res)
            /\ av = <<>> => res.rr = st.rr
            /\ av # <<>> /\ TakesSlot(in, st) =>
                 /\ res.order[1] = av[1 + (st.rr[in.exposed] % Len(av))]
                 /\ res.rr = IF in.commit THEN [st.rr EXCEPT ![in.exposed] = @ + 1] ELSE st.rr
            /\ ~TakesSlot(in, st) => res.rr = st.rr
<1> DEFINE av == Offered(in, st)
           cur == Current(in, st)
           sel == SelectInSeq(av, LAMBDA t : ProviderOf[t] = cur.prov)
           at == IF in.sess = NoSession \/ cur.prov = 0 THEN 0 ELSE sel
           slot == IF at # 0 THEN at ELSE 1 + (st.rr[in.exposed] % Len(av))
           res == LoadBalance(in, st)
<1>1. res = IF av = <<>>
       THEN [order |-> <<>>, park |-> 0, spread |-> st.spread, rr |-> st.rr]
       ELSE [order  |-> SubSeq(av, slot, Len(av)) \o SubSeq(av, 1, slot - 1),
             park   |-> IF in.off \/ in.sess = NoSession THEN 0 ELSE ProviderOf[av[slot]],
             spread |-> st.spread,
             rr     |-> IF at = 0 /\ in.commit THEN [st.rr EXCEPT ![in.exposed] = @ + 1] ELSE st.rr]
  BY DEF LoadBalance, Current
<1> HIDE DEF res
<1>2. av \in Seq(Target) /\ ToSet(av) \subseteq ToSet(in.chain)
  BY OfferedIs DEF Asked
<1>3. \A p : p \in Open(in, st) <=> \E i \in 1 .. Len(av) : ProviderOf[av[i]] = p
  BY OpenIs DEF Asked
<1> HIDE DEF av, cur
<1>4. /\ sel \in 0 .. Len(av)
      /\ sel = 0 <=> \A i \in 1 .. Len(av) : ProviderOf[av[i]] # cur.prov
      /\ sel # 0 => sel \in 1 .. Len(av) /\ ProviderOf[av[sel]] = cur.prov
  BY <1>2, ProviderAt
<1> HIDE DEF sel
<1>5. 0 \notin Open(in, st)
  BY <1>2, <1>3, Numbers
<1>6. at = 0 <=> TakesSlot(in, st)
  BY <1>3, <1>4, <1>5 DEF TakesSlot, cur
<1>7. at # 0 => at \in 1 .. Len(av) /\ ProviderOf[av[at]] = cur.prov
  BY <1>4
<1> HIDE DEF at
<1>8. CASE av = <<>>
  <2>1. res = [order |-> <<>>, park |-> 0, spread |-> st.spread, rr |-> st.rr]
    BY <1>1, <1>8
  <2>2. Open(in, st) = {}
    BY <1>3, <1>8
  <2>3. ToSet(<<>>) = {}
    BY DEF ToSet
  <2> QED BY <1>8, <2>1, <2>2, <2>3 DEF Decision, Stored, res, av
<1>9. CASE av # <<>>
  <2>1. Len(av) \in Nat \ {0} /\ st.rr[in.exposed] \in Nat
    BY <1>2, <1>9 DEF Asked, Stored
  <2>2. slot \in 1 .. Len(av)
    BY <1>7, <2>1, SMTT(30)
  <2> DEFINE o == SubSeq(av, slot, Len(av)) \o SubSeq(av, 1, slot - 1)
  <2>3. /\ res.order = o /\ res.spread = st.spread
        /\ res.park = IF in.off \/ in.sess = NoSession THEN 0 ELSE ProviderOf[av[slot]]
        /\ res.rr = IF at = 0 /\ in.commit THEN [st.rr EXCEPT ![in.exposed] = @ + 1] ELSE st.rr
    BY <1>1, <1>9
  <2>4. /\ at # 0 => slot = at
        /\ at = 0 => slot = 1 + (st.rr[in.exposed] % Len(av))
    OBVIOUS
  <2> HIDE DEF slot
  <2>5. o \in Seq(Target) /\ ToSet(o) \subseteq ToSet(av) /\ o[1] = av[slot]
    <3> DEFINE a == SubSeq(av, slot, Len(av))
               b == SubSeq(av, 1, slot - 1)
    <3>1. slot \in 1 .. Len(av) + 1 /\ Len(av) \in 0 .. Len(av) /\ slot <= Len(av)
          /\ 1 \in 1 .. Len(av) + 1 /\ slot - 1 \in 0 .. Len(av)
      BY <2>1, <2>2
    <3>2. a \in Seq(Target) /\ ToSet(a) \subseteq ToSet(av) /\ a # <<>> /\ a[1] = av[slot]
      BY <1>2, <3>1, SubSeqMembers
    <3>3. b \in Seq(Target) /\ ToSet(b) \subseteq ToSet(av)
      BY <1>2, <3>1, SubSeqMembers
    <3> HIDE DEF a, b
    <3>4. a \o b \in Seq(Target) /\ ToSet(a \o b) = ToSet(a) \cup ToSet(b) /\ (a \o b)[1] = a[1]
      BY <3>2, <3>3, ConcatMembers
    <3>5. o = a \o b
      BY DEF a, b
    <3> QED BY <3>2, <3>3, <3>4, <3>5
  <2> HIDE DEF o
  <2>6. av[slot] \in Target /\ ProviderOf[av[slot]] \in Nat
    BY <1>2, <2>2, Numbers
  <2>7. [st.rr EXCEPT ![in.exposed] = @ + 1] \in [Exposed -> Nat]
    BY DEF Asked, Stored
  <2>8. res.park \in Nat /\ res.spread \in [Parents -> Nat] /\ res.rr \in [Exposed -> Nat]
    BY <2>3, <2>6, <2>7 DEF Stored
  <2>9. /\ in.off => res.park = 0
        /\ ~in.off /\ in.sess # NoSession => res.park = ProviderOf[res.order[1]]
    BY <2>3, <2>5
  <2>10. ~TakesSlot(in, st) => ProviderOf[res.order[1]] = cur.prov
    BY <1>6, <1>7, <2>3, <2>4, <2>5
  <2>11. o # <<>>
    <3>1. ASSUME o = <<>> PROVE FALSE
      <4> DEFINE a == SubSeq(av, slot, Len(av))
                 b == SubSeq(av, 1, slot - 1)
      <4>1. slot \in 1 .. Len(av) + 1 /\ Len(av) \in 0 .. Len(av) /\ slot <= Len(av)
            /\ 1 \in 1 .. Len(av) + 1 /\ slot - 1 \in 0 .. Len(av)
        BY <2>1, <2>2
      <4>2. a \in Seq(Target) /\ a # <<>> /\ b \in Seq(Target)
        BY <1>2, <4>1, SubSeqMembers
      <4> HIDE DEF a, b
      <4>3. a \o b # <<>>
        BY <4>2
      <4> QED BY <3>1, <4>3 DEF a, b, o
    <3> QED BY <3>1
  <2>12. Decision(in, st, res)
    BY <1>2, <2>3, <2>5, <2>8, <2>9, <2>10, <2>11 DEF Decision, TakesSlot, cur
  <2>13. TakesSlot(in, st) => res.order[1] = av[1 + (st.rr[in.exposed] % Len(av))]
    BY <1>6, <2>3, <2>4, <2>5
  <2> QED BY <1>6, <1>9, <2>3, <2>12, <2>13 DEF res, av
<1> QED BY <1>8, <1>9

(* Every decision is one of the two. *)
LEMMA DecideIs ==
  ASSUME NEW in, NEW st, Asked(in), Stored(st)
  PROVE  /\ Decision(in, st, DecideOrder(in, st))
         /\ in.strategy # "load_balance" => DecideOrder(in, st).rr = st.rr
         /\ in.strategy = "load_balance" => DecideOrder(in, st) = LoadBalance(in, st)
<1>1. CASE in.strategy = "load_balance"
  BY <1>1, LoadBalanceIs DEF DecideOrder
<1>2. CASE in.strategy # "load_balance"
  BY <1>2, QuotaIs DEF DecideOrder
<1> QED BY <1>1, <1>2

(* The measurements of a state are numbers. *)
LEMMA StateStored ==
  ASSUME TypeOK
  PROVE  Stored(State)
<1>1. Measured(facts)
  BY RoutingAssumption DEF TypeOK, Measured
<1> QED BY <1>1 DEF Stored, State, TypeOK

(* A request in a pass asks what a call may ask. *)
LEMMA InputAsked ==
  ASSUME NEW r \in Passing
  PROVE  /\ Asked(Input(r))
         /\ Input(r).exposed = r.exposed /\ Input(r).chain = r.chain /\ Input(r).sess = r.sess
         /\ Input(r).off = r.off /\ Input(r).now = r.now /\ Input(r).strategy = Strategy[r.route]
         /\ Input(r).commit <=> r.gen = gen
<1>1. r.chain \in Seq(Target) /\ r.exposed \in Exposed /\ r.sess \in Sessions /\ r.now \in Nat /\ r.off \in BOOLEAN
  BY DEF Passing
<1>2. (r.gen = gen) \in BOOLEAN
  OBVIOUS
<1> QED BY <1>1, <1>2 DEF Asked, Input

(* The phase tells what a slot holds. *)
LEMMA SlotIs ==
  ASSUME TypeOK, NEW q \in Req
  PROVE  /\ req[q].phase \in {"due", "decided", "parked", "failed"} => req[q] \in Passing
         /\ req[q].phase = "planned" => req[q] \in Trying
         /\ req[q].phase = "ending" => req[q] \in Ending
<1>1. req[q] \in {Idle} \cup Passing \cup Trying \cup Ending
  BY DEF TypeOK
<1>2. Idle.phase = "idle"
  BY DEF Idle
<1>3. \A r \in Trying : r.phase = "planned"
  BY DEF Trying
<1>4. \A r \in Ending : r.phase = "ending"
  BY DEF Ending
<1>5. \A r \in Passing : r.phase \in {"due", "decided", "parked", "failed"}
  BY DEF Passing
<1> QED BY <1>1, <1>2, <1>3, <1>4, <1>5

(***************************************************************************)
(* The parts of the invariant that a step leaves alone.                    *)
(***************************************************************************)
(* One slot changes. *)
LEMMA PassesAt ==
  ASSUME TypeOK, Passes, UNCHANGED clock, NEW q \in Req, NEW y, req' = [req EXCEPT ![q] = y],
         y.phase \in {"due", "decided", "parked", "failed"} => InPass(y),
         y.phase = "ending" => InEnding(y)
  PROVE  Passes'
<1>1. ASSUME NEW p \in Req
      PROVE  /\ req'[p].phase \in {"due", "decided", "parked", "failed"} => InPass(req'[p])
             /\ req'[p].phase = "ending" => InEnding(req'[p])
  <2>1. CASE p = q
    <3>1. req'[p] = y
      BY <2>1 DEF TypeOK
    <3> QED BY <3>1
  <2>2. CASE p # q
    <3>1. req'[p] = req[p]
      BY <2>2 DEF TypeOK
    <3> QED BY <3>1 DEF Passes
  <2> QED BY <2>1, <2>2
<1>2. ASSUME NEW p \in Req
      PROVE  /\ req'[p].phase \in {"due", "decided", "parked", "failed"} => InPass(req[p])'
             /\ req'[p].phase = "ending" => InEnding(req[p])'
  BY <1>1 DEF InPass, InEnding
<1> QED BY <1>2 DEF Passes

(* Time passes for the requests. *)
LEMMA PassesStay ==
  ASSUME TypeOK, Passes, UNCHANGED req, clock' \in Nat, clock <= clock'
  PROVE  Passes'
<1>1. ASSUME NEW p \in Req, req[p].phase \in {"due", "decided", "parked", "failed"} PROVE InPass(req[p])'
  <2>1. req[p] \in Passing /\ InPass(req[p])
    BY <1>1, SlotIs DEF Passes
  <2>2. req[p].now \in Nat
    BY <2>1 DEF Passing
  <2>3. req[p].now <= clock'
    BY <2>1, <2>2 DEF InPass, TypeOK
  <2> QED BY <2>1, <2>3 DEF InPass
<1>2. ASSUME NEW p \in Req, req[p].phase = "ending" PROVE InEnding(req[p])'
  <2>1. req[p] \in Ending /\ InEnding(req[p])
    BY <1>2, SlotIs DEF Passes
  <2>2. req[p].now \in Nat
    BY <2>1 DEF Ending
  <2>3. req[p].now <= clock'
    BY <2>1, <2>2 DEF InEnding, TypeOK
  <2> QED BY <2>1, <2>3 DEF InEnding
<1> QED BY <1>1, <1>2 DEF Passes

(* Time passes for the bindings. *)
LEMMA BindingsStay ==
  ASSUME TypeOK, Bindings, UNCHANGED <<sticky, talk>>, clock' \in Nat, clock <= clock'
  PROVE  Bindings'
<1>1. ASSUME NEW k \in TalkKeys, talk[k].prov # 0 PROVE Follow(k)' \/ clock' - talk[k].since > Dwell
  <2>1. talk[k].since \in Nat /\ clock \in Nat /\ Dwell \in Nat
    BY ScheduleAssumption DEF TypeOK
  <2>2. Follow(k) \/ clock - talk[k].since > Dwell
    BY <1>1 DEF Bindings
  <2>3. Follow(k) => Follow(k)'
    BY DEF Follow
  <2> QED BY <2>1, <2>2, <2>3
<1> QED BY <1>1 DEF Bindings

(* Time passes for the latches. *)
LEMMA StreaksStay ==
  ASSUME TypeOK, Streaks, UNCHANGED <<latch, bads>>, clock' \in Nat, clock <= clock'
  PROVE  Streaks'
<1>1. ASSUME NEW k \in LatchKeys PROVE latch[k].since <= clock'
  <2>1. latch[k].since \in Nat /\ latch[k].since <= clock /\ clock \in Nat
    BY DEF TypeOK, Streaks
  <2> QED BY <2>1
<1> QED BY <1>1 DEF Streaks, Counted

(* Nothing is dealt. *)
LEMMA DealsStay ==
  ASSUME Deals, UNCHANGED dealt, \A r \in RouteKeys : rr'[r] = rr[r]
  PROVE  Deals'
BY DEF Deals, Round

(***************************************************************************)
(* The start, and what happens around the requests.                        *)
(***************************************************************************)
(* The routing state of a generation that has just begun. *)
Blank ==
  /\ sticky = NoBindings /\ spread = NoSpread /\ rr = NoTurn
  /\ latch = [k \in LatchKeys |-> NoLatch] /\ talk = [k \in TalkKeys |-> NoTalk]
  /\ dealt = [r \in RouteKeys |-> NoDeal] /\ bads = [k \in LatchKeys |-> <<>>]

(* What the invariant says of it. *)
Begun ==
  /\ sticky \in [Sessions \X Exposed -> Stick]
  /\ spread \in [Parents -> Nat] /\ rr \in [Exposed -> Nat]
  /\ latch \in [LatchKeys -> [here : BOOLEAN, on : BOOLEAN, since : Nat, runs : Nat]]
  /\ talk \in [TalkKeys -> [prov : Nat, since : Nat, was : Stick]]
  /\ dealt \in [RouteKeys -> [list : Seq(Target), n : [Target -> Nat]]]
  /\ bads \in [LatchKeys -> Seq([read : Nat, at : Nat, n : Nat, before : Nat])]
  /\ Bindings /\ Streaks /\ Deals

(* A blank state satisfies that. *)
LEMMA BlankIs == Blank /\ clock \in Nat => Begun
<1> SUFFICES ASSUME Blank, clock \in Nat PROVE Begun
  OBVIOUS
<1>1. NoStick \in Stick
  BY DEF NoStick, Stick
<1>2. NoLatch \in [here : BOOLEAN, on : BOOLEAN, since : Nat, runs : Nat]
  BY DEF NoLatch
<1>3. NoTalk \in [prov : Nat, since : Nat, was : Stick] /\ NoTalk.prov = 0
  BY <1>1 DEF NoTalk
<1>4. NoDeal \in [list : Seq(Target), n : [Target -> Nat]] /\ NoDeal.list = <<>>
  BY DEF NoDeal
<1>5. Distinct(<<>>)
  BY DEF Distinct
<1>6. Bindings
  BY <1>3 DEF Blank, Bindings
<1>7. Streaks
  BY DEF Blank, Streaks, NoLatch
<1>8. Deals
  BY <1>4, <1>5 DEF Blank, Deals
<1> QED BY <1>1, <1>2, <1>3, <1>4, <1>6, <1>7, <1>8 DEF Blank, Begun, NoBindings, NoSpread, NoTurn

(* The start. *)
LEMMA InitIInv == Init => IInv
<1> SUFFICES ASSUME Init PROVE IInv
  OBVIOUS
<1>1. Blank /\ clock \in Nat
  BY DEF Init, Blank
<1>2. TypeOK
  BY <1>1, BlankIs DEF Init, TypeOK, Begun
<1>3. Passes
  BY DEF Init, Passes, Idle
<1> QED BY <1>1, <1>2, <1>3, BlankIs DEF IInv, Begun

(* Time. *)
LEMMA TickKeeps ==
  ASSUME IInv, Tick
  PROVE  IInv'
<1>1. clock \in Nat /\ clock' = clock + 1 /\ UNCHANGED <<req, sticky, talk, latch, bads, dealt, rr, gen, scene, spread, facts>>
  BY DEF IInv, TypeOK, Tick, manager, outside, ghosts
<1>2. clock' \in Nat /\ clock <= clock'
  BY <1>1
<1>3. TypeOK'
  BY <1>1, <1>2 DEF IInv, TypeOK
<1> QED BY <1>1, <1>2, <1>3, PassesStay, BindingsStay, StreaksStay, DealsStay DEF IInv

(* Nothing that the invariant speaks of changes, but for new measurements. *)
LEMMA SteadyKeeps ==
  ASSUME IInv, Steady, UNCHANGED <<clock, req, scene>>, facts' \in FactSets \cup {StartFacts}
  PROVE  IInv'
<1>1. UNCHANGED <<sticky, talk, latch, bads, dealt, rr, gen, spread>>
  BY DEF Steady, manager, ghosts
<1>2. clock' \in Nat /\ clock <= clock'
  BY DEF IInv, TypeOK
<1>3. TypeOK'
  BY <1>1 DEF IInv, TypeOK
<1> QED BY <1>1, <1>2, <1>3, PassesStay, BindingsStay, StreaksStay, DealsStay DEF IInv

(* Availability, measurements, pins and disables. *)
LEMMA OutsideKeeps ==
  ASSUME IInv, Availability \/ Measure \/ SetPin \/ ClearPin \/ SetModelDisabled
  PROVE  IInv'
<1>1. Steady /\ UNCHANGED <<clock, req, scene>>
  BY DEF Availability, Measure, SetPin, ClearPin, SetModelDisabled, Change, Undo
<1>2. facts' \in FactSets \cup {StartFacts}
  BY DEF Availability, Measure, SetPin, ClearPin, SetModelDisabled, IInv, TypeOK
<1> QED BY <1>1, <1>2, SteadyKeeps

(* A reload starts the routing state afresh. *)
LEMMA ReloadKeeps ==
  ASSUME IInv, Reload
  PROVE  IInv'
<1>1. Blank' /\ UNCHANGED <<clock, req, scene, facts>> /\ gen' = gen + 1
  BY DEF Reload, Blank, Change
<1>2. clock' \in Nat /\ clock <= clock' /\ gen' \in Nat
  BY <1>1 DEF IInv, TypeOK
<1>3. Begun'
  <2>1. (Blank /\ clock \in Nat)'
    BY <1>1, <1>2
  <2> QED BY <2>1, BlankIs, PTL
<1>4. TypeOK'
  BY <1>1, <1>2, <1>3 DEF IInv, TypeOK, Begun
<1> QED BY <1>1, <1>2, <1>3, <1>4, PassesStay DEF IInv, Begun

(***************************************************************************)
(* The steps of a request that change nothing but its slot.                *)
(***************************************************************************)
LEMMA SlotKeeps ==
  ASSUME IInv, NEW q \in Req, NEW y \in {Idle} \cup Passing \cup Trying \cup Ending,
         req' = [req EXCEPT ![q] = y], UNCHANGED <<gen, clock, sticky, spread, rr, latch, facts, scene, ghosts>>,
         y.phase \in {"due", "decided", "parked", "failed"} => InPass(y),
         y.phase = "ending" => InEnding(y)
  PROVE  IInv'
<1>1. UNCHANGED <<talk, dealt, bads>>
  BY DEF ghosts
<1>2. clock' \in Nat /\ clock <= clock'
  BY DEF IInv, TypeOK
<1>3. TypeOK'
  <2>1. req' \in [Req -> {Idle} \cup Passing \cup Trying \cup Ending]
    BY DEF IInv, TypeOK
  <2> QED BY <1>1, <2>1 DEF IInv, TypeOK
<1>4. Passes'
  BY PassesAt DEF IInv
<1> QED BY <1>1, <1>2, <1>3, <1>4, BindingsStay, StreaksStay, DealsStay DEF IInv

(* No choice yet. *)
LEMMA NoPick == NoChoice \in Picks
BY DEF NoChoice, Picks, Grades

(* A request arrives. *)
LEMMA ArriveKeeps ==
  ASSUME IInv, NEW q \in Req, Arrive(q)
  PROVE  IInv'
<1>1. PICK a \in scene.arrivals :
        LET r == a.route
            chain == Without(Chain[r], disabled)
        IN req' = [req EXCEPT ![q] =
               [phase |-> "due", route |-> r, exposed |-> r, targets |-> chain, chain |-> chain,
                sess |-> a.sess, off |-> a.off, gen |-> gen, prof |-> a.prof, choice |-> NoChoice, now |-> clock,
                base |-> <<>>, order |-> <<>>, park |-> 0, moved |-> FALSE,
                force |-> /\ PinActive(pin[r], clock)
                          /\ \E i \in 1..Len(chain) : Names(chain[i], pin[r].who)]]
  BY DEF Arrive
<1> DEFINE r == a.route
           chain == Without(Chain[r], disabled)
           force == /\ PinActive(pin[r], clock)
                    /\ \E i \in 1..Len(chain) : Names(chain[i], pin[r].who)
           y == [phase |-> "due", route |-> r, exposed |-> r, targets |-> chain, chain |-> chain,
                 sess |-> a.sess, off |-> a.off, gen |-> gen, prof |-> a.prof, choice |-> NoChoice, now |-> clock,
                 base |-> <<>>, order |-> <<>>, park |-> 0, moved |-> FALSE, force |-> force]
<1>2. req' = [req EXCEPT ![q] = y]
  BY <1>1
<1>3. scene \in Scenarios /\ gen \in Nat /\ clock \in Nat
  BY DEF IInv, TypeOK
<1>4. r \in RouteKeys /\ a.sess \in Sessions /\ a.off \in BOOLEAN
  BY <1>3, RoutingAssumption
<1>5. a.prof \in Profiles
  BY <1>3 DEF Profiles
<1>6. force \in BOOLEAN
  OBVIOUS
<1>7. Chain[r] \in Seq(Target) /\ Distinct(Chain[r])
  BY <1>4, ConfigAssumption DEF IsInjective, Distinct
<1>8. chain \in Seq(Target) /\ Distinct(chain)
  <2> DEFINE D == ToSet(Chain[r]) \ disabled
  <2> HIDE DEF D
  <2>1. Keep(Chain[r], D) \in Seq(Target) /\ Distinct(Keep(Chain[r], D))
    BY <1>7, KeepMembers, KeepDistinct
  <2> QED BY <2>1 DEF Without, D
<1> HIDE DEF chain, force, r
<1>9. r \in Exposed
  BY <1>4 DEF Exposed
<1>10. y \in Passing
  BY <1>3, <1>4, <1>5, <1>6, <1>8, <1>9, NoPick DEF Passing
<1>11. InPass(y) /\ y.phase = "due"
  BY <1>3, <1>8 DEF InPass
<1> HIDE DEF y
<1> QED BY <1>2, <1>10, <1>11, SlotKeeps DEF Arrive, manager, outside

(* A request that failed goes through another pass. *)
LEMMA RetryKeeps ==
  ASSUME IInv, NEW q \in Req, Retry(q)
  PROVE  IInv'
<1> DEFINE r == req[q]
           y == [r EXCEPT !.phase = "due", !.now = clock, !.chain = r.targets]
<1>1. r.phase = "failed" /\ req' = [req EXCEPT ![q] = y]
  BY DEF Retry
<1>2. r \in Passing /\ InPass(r)
  BY <1>1, SlotIs DEF IInv, Passes
<1>3. clock \in Nat
  BY DEF IInv, TypeOK
<1>4. y \in Passing
  BY <1>2, <1>3 DEF Passing
<1>5. InPass(y) /\ y.phase = "due"
  <2>1. /\ y.now = clock /\ y.exposed = r.exposed /\ y.route = r.route /\ y.chain = r.targets /\ y.phase = "due"
        /\ y.targets = r.targets
    BY <1>2 DEF Passing
  <2>2. r.exposed = r.route /\ Distinct(r.targets)
    BY <1>1, <1>2 DEF InPass
  <2> HIDE DEF y, r
  <2> QED BY <1>3, <2>1, <2>2 DEF InPass
<1> HIDE DEF y
<1> QED BY <1>1, <1>4, <1>5, SlotKeeps DEF Retry, manager, outside

(* The pool of a request: its targets in some order, none twice. *)
LEMMA PoolIs ==
  ASSUME NEW S \in SUBSET Target, NEW chain \in SetToSeqs(S)
  PROVE  chain \in Seq(Target) /\ Distinct(chain) /\ ToSet(chain) \subseteq S
<1>1. IsFiniteSet(S)
  BY ConfigAssumption, FS_Subset
<1>2. Cardinality(S) \in Nat
  BY <1>1, FS_CardinalityType
<1>3. chain \in [1 .. Cardinality(S) -> S] /\ \A i, j \in 1 .. Cardinality(S) : i # j => chain[i] # chain[j]
  BY DEF SetToSeqs
<1>4. chain \in Seq(S) /\ Len(chain) = Cardinality(S)
  BY <1>2, <1>3, IsASeq
<1> QED BY <1>3, <1>4 DEF Distinct, ToSet

(* A request that its route cannot serve is given the pool. *)
LEMMA RerouteKeeps ==
  ASSUME IInv, NEW q \in Req, Reroute(q)
  PROVE  IInv'
<1> DEFINE r == req[q]
<1>1. PICK chain \in SetToSeqs(Pool(r.prof)) :
        req' = [req EXCEPT ![q].phase = "due", ![q].exposed = ReqKey(r.route),
                    ![q].chain = chain, ![q].base = r.order, ![q].now = clock]
  BY DEF Reroute
<1> DEFINE y == [r EXCEPT !.phase = "due", !.exposed = ReqKey(r.route), !.chain = chain, !.base = r.order,
                          !.now = clock]
<1>2. req' = [req EXCEPT ![q] = y]
  BY <1>1
<1>3. r.phase = "parked" /\ Rerouting(r)
  BY DEF Reroute
<1>4. r \in Passing /\ InPass(r) /\ clock \in Nat
  BY <1>3, SlotIs DEF IInv, Passes, TypeOK
<1>5. chain \in Seq(Target) /\ Distinct(chain) /\ ToSet(chain) \subseteq r.prof.fit
  <2>1. Pool(r.prof) \in SUBSET Target /\ Pool(r.prof) \subseteq r.prof.fit
    BY DEF Pool
  <2> QED BY <1>1, <2>1, PoolIs
<1>6. r.order \in Seq(Target) /\ r.targets \in Seq(Target) /\ Distinct(r.targets) /\ r.route \in RouteKeys
  BY <1>4 DEF Passing, InPass
<1>7. ToSet(r.order) \cap r.prof.fit = {}
  <2>1. Keep(r.order, r.prof.fit) = <<>>
    BY <1>3 DEF Rerouting, Fitting
  <2>2. ToSet(<<>>) = {}
    BY DEF ToSet
  <2>3. ToSet(Keep(r.order, r.prof.fit)) = ToSet(r.order) \cap r.prof.fit
    BY <1>6, KeepMembers
  <2> QED BY <2>1, <2>2, <2>3
<1>8. ReqKey(r.route) \in Exposed
  BY <1>6 DEF Exposed
<1>9. y \in Passing
  BY <1>4, <1>5, <1>6, <1>8 DEF Passing
<1>10. /\ y.phase = "due" /\ y.now = clock /\ y.exposed = ReqKey(r.route) /\ y.route = r.route
       /\ y.chain = chain /\ y.base = r.order /\ y.prof = r.prof /\ y.targets = r.targets
  BY <1>4 DEF Passing
<1> HIDE DEF y, r
<1>11. InPass(y)
  BY <1>4, <1>5, <1>6, <1>7, <1>10 DEF InPass
<1> QED BY <1>2, <1>9, <1>10, <1>11, SlotKeeps DEF Reroute, manager, outside

(***************************************************************************)
(* The order a pass leaves, and its grades.                                *)
(***************************************************************************)
(* Putting the route's providers first leaves the targets. *)
LEMMA PreferProvidersIs ==
  ASSUME NEW s \in Seq(Target), NEW provs
  PROVE  /\ PreferProviders(s, provs, ProviderOf) \in Seq(Target)
         /\ ToSet(PreferProviders(s, provs, ProviderOf)) = ToSet(s)
<1> DEFINE own == {t \in ToSet(s) : ProviderOf[t] \in provs}
           others == ToSet(s) \ own
<1>1. PreferProviders(s, provs, ProviderOf) = Keep(s, own) \o Keep(s, others)
  BY DEF PreferProviders, Without
<1>2. ToSet(s) = (ToSet(s) \cap own) \cup (ToSet(s) \cap others)
  OBVIOUS
<1> HIDE DEF own, others
<1>3. /\ Keep(s, own) \in Seq(Target) /\ ToSet(Keep(s, own)) = ToSet(s) \cap own
      /\ Keep(s, others) \in Seq(Target) /\ ToSet(Keep(s, others)) = ToSet(s) \cap others
  BY KeepMembers
<1> DEFINE a == Keep(s, own)
           b == Keep(s, others)
<1> HIDE DEF a, b
<1>4. a \o b \in Seq(Target) /\ ToSet(a \o b) = ToSet(a) \cup ToSet(b)
  BY <1>3, ConcatMembers DEF a, b
<1> QED BY <1>1, <1>2, <1>3, <1>4 DEF a, b

(* What the planner leaves: targets of the order, or of the order before    *)
(* the pool was tried; if one of them fits the request, all of them do.     *)
LEMMA AppliedIs ==
  ASSUME NEW r \in Passing
  PROVE  /\ Applied(r) \in Seq(Target)
         /\ r.phase = "parked" /\ InPass(r) /\ ~r.force /\ r.prof.cat /\ ToSet(Applied(r)) \cap r.prof.fit # {} =>
              ToSet(Applied(r)) \subseteq r.prof.fit
<1>1. r.order \in Seq(Target) /\ r.base \in Seq(Target)
  BY DEF Passing
<1> DEFINE fit == r.prof.fit
           kept == Fitting(r.order, fit)
           provs == {ProviderOf[t] : t \in ToSet(r.base)}
           pref == PreferProviders(r.order, provs, ProviderOf)
<1>2. kept \in Seq(Target) /\ ToSet(kept) = ToSet(r.order) \cap fit
  BY <1>1, KeepMembers DEF Fitting
<1>3. pref \in Seq(Target) /\ ToSet(pref) = ToSet(r.order)
  BY <1>1, PreferProvidersIs
<1>4. Applied(r) = IF r.force \/ ~r.prof.cat THEN r.order
                   ELSE IF r.exposed = r.route THEN (IF kept = <<>> THEN r.order ELSE kept)
                   ELSE IF r.order = <<>> THEN r.base ELSE pref
  BY DEF Applied
<1> HIDE DEF kept, pref
<1>5. Applied(r) \in Seq(Target)
  BY <1>1, <1>2, <1>3, <1>4
<1>6. ASSUME r.phase = "parked", InPass(r), ~r.force, r.prof.cat, ToSet(Applied(r)) \cap fit # {}
      PROVE  ToSet(Applied(r)) \subseteq fit
  <2>1. CASE r.exposed = r.route /\ kept = <<>>
    <3>1. Applied(r) = r.order /\ ToSet(kept) = {}
      BY <1>4, <1>6, <2>1 DEF ToSet
    <3> QED BY <1>2, <1>6, <3>1
  <2>2. CASE r.exposed = r.route /\ kept # <<>>
    <3>1. Applied(r) = kept
      BY <1>4, <1>6, <2>2
    <3> QED BY <1>2, <3>1
  <2>3. CASE r.exposed # r.route
    <3>1. /\ ToSet(r.chain) \subseteq fit /\ ToSet(r.base) \cap fit = {}
          /\ ToSet(r.order) \subseteq ToSet(r.chain)
      BY <1>6, <2>3 DEF InPass
    <3>2. Applied(r) = r.base \/ Applied(r) = pref
      BY <1>4, <1>6, <2>3
    <3> QED BY <1>3, <1>6, <3>1, <3>2
  <2> QED BY <2>1, <2>2, <2>3
<1> QED BY <1>5, <1>6

(* The grades of an order are those of its targets. *)
LEMMA GradeOrderIs ==
  ASSUME NEW s \in Seq(Target)
  PROVE  LET g == GradeOrder(s)
         IN /\ Len(g) \in Nat /\ DOMAIN g = 1 .. Len(g)
            /\ \A k \in 1 .. Len(g) : \E i \in 1 .. Len(s) : g[k] = GradeOf[s[i]]
<1> DEFINE D == 1 .. Len(s)
           pos == [i \in D |-> i]
           F == {i \in D : /\ GradeOf[s[i]] # NoGrade
                           /\ \A j \in 1..(i - 1) : GradeOf[s[j]] # GradeOf[s[i]]}
           first == Keep(pos, F)
           g == [k \in 1 .. Len(first) |-> GradeOf[s[first[k]]]]
<1>1. GradeOrder(s) = g
  BY DEF GradeOrder
<1>2. Len(s) \in Nat
  OBVIOUS
<1>3. pos \in Seq(D)
  <2>1. pos \in [1 .. Len(s) -> D]
    OBVIOUS
  <2> HIDE DEF pos, D
  <2> QED BY <1>2, <2>1, IsASeq
<1> HIDE DEF F, pos
<1>4. first \in Seq(D)
  BY <1>3, KeepMembers
<1> HIDE DEF first
<1>5. Len(first) \in Nat /\ \A k \in 1 .. Len(first) : first[k] \in D
  BY <1>4
<1>6. DOMAIN g = 1 .. Len(first) /\ Len(g) = Len(first)
  BY <1>5
<1> QED BY <1>1, <1>5, <1>6

(* The groups of an order: every one has a grade of the order, and the      *)
(* targets of that grade that fit.                                          *)
LEMMA GroupsAre ==
  ASSUME NEW s \in Seq(Target), NEW fit
  PROVE  LET g == Groups(s, fit)
         IN /\ Len(g) \in Nat /\ DOMAIN g = 1 .. Len(g) /\ g \in Seq([name : Grades, targets : Seq(Target)])
            /\ \A k \in 1 .. Len(g) :
                 /\ g[k].targets \in Seq(Target) /\ ToSet(g[k].targets) \subseteq ToSet(s) \cap fit
                 /\ ToSet(s) \subseteq fit => ToSet(g[k].targets) # {}
<1> DEFINE o == GradeOrder(s)
           T(k) == Fitting(InGrade(s, o[k]), fit)
           g == [k \in 1 .. Len(o) |-> [name |-> o[k], targets |-> T(k)]]
<1>1. Groups(s, fit) = g
  BY DEF Groups
<1>2. /\ Len(o) \in Nat /\ DOMAIN o = 1 .. Len(o)
      /\ \A k \in 1 .. Len(o) : \E i \in 1 .. Len(s) : o[k] = GradeOf[s[i]]
  BY GradeOrderIs
<1> HIDE DEF o
<1>3. ASSUME NEW k \in 1 .. Len(o)
      PROVE  /\ o[k] \in Grades /\ T(k) \in Seq(Target) /\ ToSet(T(k)) \subseteq ToSet(s) \cap fit
             /\ ToSet(s) \subseteq fit => ToSet(T(k)) # {}
  <2>1. PICK i \in 1 .. Len(s) : o[k] = GradeOf[s[i]]
    BY <1>2
  <2>2. s[i] \in Target /\ s[i] \in ToSet(s)
    BY <2>1 DEF ToSet
  <2> DEFINE S == {t \in ToSet(s) : GradeOf[t] = o[k]}
             in == InGrade(s, o[k])
  <2>3. in = Keep(s, S) /\ s[i] \in S
    BY <2>1, <2>2 DEF InGrade
  <2> HIDE DEF S, in
  <2>4. in \in Seq(Target) /\ ToSet(in) = ToSet(s) \cap S
    BY <2>3, KeepMembers
  <2>5. T(k) = Keep(in, fit)
    BY DEF Fitting, in
  <2>6. Keep(in, fit) \in Seq(Target) /\ ToSet(Keep(in, fit)) = ToSet(in) \cap fit
    BY <2>4, KeepMembers
  <2>7. o[k] \in Grades
    BY <2>1, <2>2 DEF Grades
  <2> HIDE DEF T
  <2> QED BY <2>2, <2>3, <2>4, <2>5, <2>6, <2>7
<1> HIDE DEF T
<1>4. g \in [1 .. Len(o) -> [name : Grades, targets : Seq(Target)]]
  BY <1>3
<1>5. g \in Seq([name : Grades, targets : Seq(Target)]) /\ Len(g) = Len(o) /\ DOMAIN g = 1 .. Len(o)
  <2> DEFINE S == [name : Grades, targets : Seq(Target)]
  <2>1. g \in [1 .. Len(o) -> S] /\ DOMAIN g = 1 .. Len(o)
    BY <1>4
  <2> HIDE DEF g, S
  <2>2. g \in Seq(S) /\ Len(g) = Len(o)
    BY <1>2, <2>1, IsASeq
  <2> QED BY <2>1, <2>2 DEF S
<1>6. \A k \in 1 .. Len(o) : g[k].targets = T(k)
  OBVIOUS
<1> HIDE DEF g
<1> QED BY <1>1, <1>2, <1>3, <1>5, <1>6

(* What the selector may choose. *)
LEMMA SelectedIs ==
  ASSUME NEW r \in Passing, NEW s \in Seq(Target)
  PROVE  Selected(r, s) \subseteq Picks
<1> DEFINE g == Groups(s, r.prof.fit)
<1>1. r.choice \in Picks
  BY DEF Passing
<1>2. [NoChoice EXCEPT !.made = TRUE] \in Picks
  BY NoPick DEF Picks
<1>3. DOMAIN g = 1 .. Len(g) /\ g \in Seq([name : Grades, targets : Seq(Target)])
  BY GroupsAre
<1> HIDE DEF g
<1>4. \A i \in 1 .. Len(g) : [made |-> TRUE, grade |-> g[i].name, targets |-> {}] \in Picks
  <2> DEFINE S == [name : Grades, targets : Seq(Target)]
  <2>e. \A x \in S : x.name \in Grades
    OBVIOUS
  <2>s. g \in Seq(S)
    BY <1>3
  <2> HIDE DEF S
  <2>1. \A i \in 1 .. Len(g) : g[i].name \in Grades
    BY <2>e, <2>s, ElementOfSeq
  <2> QED BY <2>1 DEF Picks
<1>5. \A t \in ToSet(s) : [made |-> TRUE, grade |-> NoGrade, targets |-> {t}] \in Picks
  BY DEF Picks, Grades, ToSet
<1> QED BY <1>1, <1>2, <1>4, <1>5 DEF Selected, g

(* The pass has its order, or fails as a whole. *)
LEMMA PlanKeeps ==
  ASSUME IInv, NEW q \in Req, Plan(q)
  PROVE  IInv'
<1> DEFINE r == req[q]
<1>1. r.phase = "parked" /\ UNCHANGED <<gen, clock, sticky, spread, rr, latch, facts, scene, ghosts>>
  BY DEF Plan, manager, outside
<1>2. r \in Passing /\ InPass(r) /\ clock \in Nat
  BY <1>1, SlotIs DEF IInv, Passes, TypeOK
<1>3. CASE req' = [req EXCEPT ![q] = [phase |-> "planned", sess |-> r.sess, route |-> r.route, gen |-> r.gen]]
  <2> DEFINE y == [phase |-> "planned", sess |-> r.sess, route |-> r.route, gen |-> r.gen]
  <2>1. y \in Trying /\ y.phase = "planned"
    BY <1>2 DEF Passing, Trying
  <2>2. req' = [req EXCEPT ![q] = y]
    BY <1>3
  <2> HIDE DEF y, r
  <2> QED BY <1>1, <2>1, <2>2, SlotKeeps
<1>4. ASSUME NEW c \in Selected(r, Applied(r)),
             req' = [req EXCEPT ![q] = [r EXCEPT !.phase = "failed", !.exposed = r.route, !.choice = c,
                           !.now = 0, !.chain = <<>>, !.base = <<>>, !.order = <<>>]]
      PROVE  IInv'
  <2> DEFINE y == [r EXCEPT !.phase = "failed", !.exposed = r.route, !.choice = c,
                           !.now = 0, !.chain = <<>>, !.base = <<>>, !.order = <<>>]
  <2>1. c \in Picks
    BY <1>2, <1>4, SelectedIs, AppliedIs
  <2>2. r.route \in Exposed
    BY <1>2 DEF Passing, Exposed
  <2>e. <<>> \in Seq(Target) /\ r.route \in RouteKeys /\ 0 \in Nat
    BY <1>2 DEF Passing
  <2>3. y \in Passing
    BY <1>2, <2>1, <2>2, <2>e DEF Passing
  <2>4. /\ y.phase = "failed" /\ y.exposed = r.route /\ y.route = r.route /\ y.now = 0 /\ y.chain = <<>>
        /\ y.targets = r.targets
    BY <1>2 DEF Passing
  <2>5. Distinct(<<>>) /\ Distinct(r.targets)
    BY <1>2 DEF Distinct, InPass
  <2>6. req' = [req EXCEPT ![q] = y]
    BY <1>4
  <2> HIDE DEF y, r
  <2>7. InPass(y)
    BY <1>2, <2>4, <2>5 DEF InPass
  <2> QED BY <1>1, <2>3, <2>4, <2>6, <2>7, SlotKeeps
<1> QED BY <1>3, <1>4 DEF Plan

(* The end of a request, its outcome still to be recorded. *)
LEMMA FinishKeeps ==
  ASSUME IInv, NEW q \in Req, Finish(q)
  PROVE  IInv'
<1> DEFINE r == req[q]
           k == <<r.sess, r.route>>
<1>1. r.phase \in {"planned", "failed"} /\ UNCHANGED <<gen, clock, sticky, spread, rr, latch, facts, scene, ghosts>>
  BY DEF Finish, outside
<1>2. PICK end \in scene.outcomes :
        LET o == end.what
            reported == k \in LatchKeys /\ o # "unplanned"
            checked == reported /\ end.turn /\ r.gen = gen
            repeat == checked /\ Recent(turns[k], clock) # <<>>
            n == Signals(o, repeat)
        IN req' = [req EXCEPT ![q] =
                     IF reported /\ (n > 0 \/ o = "ok")
                       THEN [phase |-> "ending", sess |-> r.sess, route |-> r.route,
                             gen |-> r.gen, now |-> clock, n |-> n, good |-> n = 0]
                       ELSE Idle]
  BY DEF Finish
<1> DEFINE o == end.what
           reported == k \in LatchKeys /\ o # "unplanned"
           checked == reported /\ end.turn /\ r.gen = gen
           repeat == checked /\ Recent(turns[k], clock) # <<>>
           n == Signals(o, repeat)
           e == [phase |-> "ending", sess |-> r.sess, route |-> r.route,
                 gen |-> r.gen, now |-> clock, n |-> n, good |-> n = 0]
           y == IF reported /\ (n > 0 \/ o = "ok") THEN e ELSE Idle
<1>3. req' = [req EXCEPT ![q] = y]
  BY <1>2
<1>4. r.sess \in Sessions /\ r.route \in RouteKeys /\ r.gen \in Nat
  BY <1>1, SlotIs DEF IInv, Passing, Trying
<1>5. n \in Nat
  BY DEF Signals
<1>6. clock \in Nat
  BY DEF IInv, TypeOK
<1> HIDE DEF r, n
<1>7. /\ e \in Ending /\ e.phase = "ending" /\ e.now = clock /\ e.sess = r.sess /\ e.route = r.route
      /\ e.good <=> e.n = 0
  BY <1>4, <1>5, <1>6 DEF Ending
<1> HIDE DEF e
<1>8. reported => InEnding(e)
  BY <1>6, <1>7 DEF InEnding
<1> HIDE DEF reported
<1>9. (y = e /\ reported) \/ y = Idle
  OBVIOUS
<1>10. Idle.phase = "idle"
  BY DEF Idle
<1> HIDE DEF y
<1> QED BY <1>1, <1>3, <1>7, <1>8, <1>9, <1>10, SlotKeeps

(***************************************************************************)
(* Dealing out the slots of a rotation.                                    *)
(***************************************************************************)
(* Multiples of m are at least m apart. *)
LEMMA Apart ==
  ASSUME NEW m \in Nat, NEW a \in Nat, NEW b \in Nat, a < b
  PROVE  m * a + m <= m * b
<1> DEFINE k == b - (a + 1)
<1>1. k \in Nat /\ b = (a + 1) + k
  OBVIOUS
<1> HIDE DEF k
<1>2. m * b = (m * a + m) + m * k
  BY <1>1
<1>3. m * k \in Nat /\ m * a \in Nat
  BY <1>1
<1> QED BY <1>2, <1>3

(* The remainder is unique. *)
LEMMA Remainder ==
  ASSUME NEW m \in Nat \ {0}, NEW e \in Nat, NEW r \in 0 .. m - 1
  PROVE  (m * e + r) % m = r
<1> DEFINE y == m * e + r
           d == y \div m
           s == y % m
<1>0. m * e \in Nat /\ y \in Nat
  OBVIOUS
<1> HIDE DEF y
<1>1. s \in 0 .. m - 1 /\ d \in Nat /\ y = m * d + s
  BY <1>0
<1> HIDE DEF s, d
<1>2. m * d \in Nat
  BY <1>1
<1>3. ~(d < e)
  <2>1. ASSUME d < e PROVE FALSE
    <3>1. m * d + m <= m * e
      BY <1>1, <2>1, Apart
    <3> QED BY <1>0, <1>1, <1>2, <3>1 DEF y
  <2> QED BY <2>1
<1>4. ~(e < d)
  <2>1. ASSUME e < d PROVE FALSE
    <3>1. m * e + m <= m * d
      BY <1>1, <2>1, Apart
    <3> QED BY <1>0, <1>1, <1>2, <3>1 DEF y
  <2> QED BY <2>1
<1>5. d = e
  BY <1>1, <1>3, <1>4
<1>6. s = r
  BY <1>0, <1>1, <1>5 DEF y
<1> QED BY <1>6 DEF s, y

(* The slot after this one. *)
LEMMA NextSlot ==
  ASSUME NEW x \in Nat, NEW m \in Nat \ {0}
  PROVE  /\ x % m \in 0 .. m - 1
         /\ (x + 1) % m = IF (x % m) + 1 = m THEN 0 ELSE (x % m) + 1
<1> DEFINE p == x % m
           d == x \div m
<1>1. p \in 0 .. m - 1 /\ d \in Nat /\ x = m * d + p
  OBVIOUS
<1> HIDE DEF p, d
<1>2. CASE p + 1 = m
  <2>1. x + 1 = m * (d + 1) + 0 /\ 0 \in 0 .. m - 1 /\ d + 1 \in Nat
    BY <1>1, <1>2
  <2>2. (m * (d + 1) + 0) % m = 0
    BY <2>1, Remainder
  <2>3. (x + 1) % m = 0
    BY <2>1, <2>2
  <2> QED BY <1>1, <1>2, <2>3 DEF p
<1>3. CASE p + 1 # m
  <2>1. x + 1 = m * d + (p + 1) /\ p + 1 \in 0 .. m - 1
    BY <1>1, <1>3
  <2>2. (m * d + (p + 1)) % m = p + 1
    BY <1>1, <2>1, Remainder
  <2>3. (x + 1) % m = p + 1
    BY <2>1, <2>2
  <2> QED BY <1>1, <1>3, <2>3 DEF p
<1> QED BY <1>2, <1>3

(* Nobody was dealt a slot in this round. *)
LEMMA RoundStarts ==
  ASSUME NEW list \in Seq(Target), list # <<>>, NEW x \in Nat, NEW n, \A i \in 1 .. Len(list) : n[list[i]] = 0
  PROVE  Round(list, n, x, 0)
<1>1. Len(list) \in Nat \ {0}
  OBVIOUS
<1>2. x % Len(list) \in 0 .. Len(list) - 1
  BY <1>1, NextSlot
<1>3. \A i \in 1 .. Len(list) : ~Lately(x % Len(list), Len(list), i, 0)
  BY <1>1, <1>2 DEF Lately
<1> QED BY <1>3 DEF Round

(* The counts after t was dealt a slot. *)
Count(list, old, t) ==
  LET n == [old EXCEPT ![t] = @ + 1]
      full == \A i \in 1..Len(list) : n[list[i]] > 0
  IN [x \in Target |-> IF full /\ x \in ToSet(list) THEN n[x] - 1 ELSE n[x]]

(* Dealing a slot keeps the round: the count goes up by one, and when all   *)
(* have their slot the next round begins.                                   *)
LEMMA DealOne ==
  ASSUME NEW list \in Seq(Target), list # <<>>, Distinct(list), NEW x \in Nat,
         NEW old \in [Target -> Nat], NEW c \in 0 .. Len(list) - 1, Round(list, old, x, c),
         NEW t, t = list[1 + (x % Len(list))]
  PROVE  /\ Count(list, old, t) \in [Target -> Nat]
         /\ \E d \in 0 .. Len(list) - 1 : Round(list, Count(list, old, t), x + 1, d)
<1> DEFINE n == [old EXCEPT ![t] = @ + 1]
           full == \A i \in 1..Len(list) : n[list[i]] > 0
           new == Count(list, old, t)
<1>a. new = [y \in Target |-> IF full /\ y \in ToSet(list) THEN n[y] - 1 ELSE n[y]]
  BY DEF Count
<1>b. n = [old EXCEPT ![t] = @ + 1] /\ (full <=> \A i \in 1 .. Len(list) : n[list[i]] > 0)
  OBVIOUS
<1> HIDE DEF n, full, new
<1> DEFINE m == Len(list)
           p == x % m
           p2 == (x + 1) % m
<1>1. m \in Nat \ {0} /\ DOMAIN list = 1 .. m
  OBVIOUS
<1>2. p \in 0 .. m - 1 /\ p2 = IF p + 1 = m THEN 0 ELSE p + 1
  BY <1>1, NextSlot
<1>4. \A i \in 1 .. m : old[list[i]] = IF Lately(p, m, i, c) THEN 1 ELSE 0
  BY DEF Round
<1> HIDE DEF m, p, p2
<1>3. p2 \in 0 .. m - 1 /\ p + 1 \in 1 .. m /\ 1 + p = p + 1
  BY <1>1, <1>2
<1>5. c \in 0 .. m - 1 /\ t = list[p + 1] /\ t \in Target
  BY <1>1, <1>3 DEF m, p
<1>6. \A i \in 1 .. m : list[i] \in Target /\ list[i] \in ToSet(list) /\ (list[i] = t <=> i = p + 1)
  <2> TAKE i \in 1 .. m
  <2>1. list[i] \in Target /\ list[i] \in ToSet(list)
    <3>1. i \in DOMAIN list
      BY <1>1
    <3>2. list[i] \in Target
      BY <3>1
    <3> QED BY <3>1, <3>2 DEF ToSet
  <2>2. list[i] = list[p + 1] => i = p + 1
    BY <1>3 DEF Distinct, m
  <2> QED BY <1>5, <2>1, <2>2
<1>7. n \in [Target -> Nat] /\ \A y \in Target : n[y] = IF y = t THEN old[y] + 1 ELSE old[y]
  BY <1>5, <1>b
<1>s. \A i \in 1 .. m :
        /\ i = p + 1 => ~Lately(p, m, i, c) /\ Lately(p2, m, i, c + 1)
        /\ i # p + 1 => (Lately(p2, m, i, c + 1) <=> Lately(p, m, i, c))
        /\ c + 1 = m => Lately(p2, m, i, c + 1)
  <2> TAKE i \in 1 .. m
  <2> QED BY <1>1, <1>2, <1>3, <1>5 DEF Lately
<1>8. \A i \in 1 .. m : n[list[i]] = IF Lately(p2, m, i, c + 1) THEN 1 ELSE 0
  <2> TAKE i \in 1 .. m
  <2>1. CASE i = p + 1
    <3>1. old[list[i]] = 0
      BY <1>4, <1>s, <2>1
    <3>2. Lately(p2, m, i, c + 1)
      BY <1>s, <2>1
    <3> QED BY <1>6, <1>7, <2>1, <3>1, <3>2
  <2>2. CASE i # p + 1
    <3>1. n[list[i]] = old[list[i]]
      BY <1>6, <1>7, <2>2
    <3>2. Lately(p2, m, i, c + 1) <=> Lately(p, m, i, c)
      BY <1>s, <2>2
    <3> QED BY <1>4, <3>1, <3>2
  <2> QED BY <2>1, <2>2
<1>9. full <=> \A i \in 1 .. m : n[list[i]] > 0
  BY <1>b DEF m
<1>10. CASE full
  <2>1. \A y \in ToSet(list) : n[y] > 0
    BY <1>1, <1>9, <1>10 DEF ToSet
  <2>2. \A y \in Target : y \in ToSet(list) => n[y] - 1 \in Nat
    BY <1>7, <2>1, SMTT(30)
  <2>3. new \in [Target -> Nat]
    BY <1>7, <1>10, <1>a, <2>2
  <2>4. \A i \in 1 .. m : new[list[i]] = 0
    <3> TAKE i \in 1 .. m
    <3>1. n[list[i]] > 0 /\ n[list[i]] = IF Lately(p2, m, i, c + 1) THEN 1 ELSE 0
      BY <1>8, <1>9, <1>10
    <3>2. n[list[i]] = 1
      BY <3>1
    <3> QED BY <1>6, <1>7, <1>10, <1>a, <3>2
  <2>5. Round(list, new, x + 1, 0)
    <3>1. x + 1 \in Nat
      OBVIOUS
    <3> QED BY <2>4, <3>1, RoundStarts DEF m
  <2>6. 0 \in 0 .. m - 1
    BY <1>1
  <2> QED BY <2>3, <2>5, <2>6 DEF m, new
<1>11. CASE ~full
  <2>1. new = n
    BY <1>7, <1>11, <1>a
  <2>2. c + 1 \in 0 .. m - 1
    <3>1. c + 1 # m
      <4>1. ASSUME c + 1 = m PROVE FALSE
        <5>1. \A i \in 1 .. m : Lately(p2, m, i, c + 1)
          BY <1>s, <4>1
        <5>2. \A i \in 1 .. m : n[list[i]] > 0
          BY <1>8, <5>1
        <5> QED BY <1>9, <1>11, <5>2
      <4> QED BY <4>1
    <3> QED BY <1>1, <1>5, <3>1
  <2>3. Round(list, new, x + 1, c + 1)
    BY <1>8, <2>1 DEF Round, m, p2
  <2> QED BY <1>7, <2>1, <2>2, <2>3 DEF m, new
<1> QED BY <1>10, <1>11

(***************************************************************************)
(* The decision.                                                           *)
(***************************************************************************)
(* The sweep drops only bindings that were idle for longer than the dwell. *)
LEMMA SweptIs ==
  ASSUME TypeOK, NEW r \in Passing
  PROVE  LET s == Swept(Input(r), State)
         IN /\ s \in [Sessions \X Exposed -> Stick]
            /\ \A k \in Sessions \X Exposed : s[k] = sticky[k] \/ r.now - sticky[k].since > Dwell
<1> DEFINE in == Input(r)
           s == Swept(in, State)
<1>1. sticky \in [Sessions \X Exposed -> Stick] /\ NoStick \in Stick
  BY DEF TypeOK, NoStick, Stick
<1>2. in.now = r.now /\ State.sticky = sticky
  BY InputAsked DEF State
<1> HIDE DEF in
<1>3. s = [k \in Sessions \X Exposed |->
             IF in.commit /\ ~IsRouteKey(k) /\ in.now - sticky[k].since > Dwell THEN NoStick ELSE sticky[k]]
  BY <1>1, <1>2 DEF Swept
<1> HIDE DEF s
<1>4. s \in [Sessions \X Exposed -> Stick]
  BY <1>1, <1>3
<1>5. \A k \in Sessions \X Exposed : s[k] = sticky[k] \/ r.now - sticky[k].since > Dwell
  BY <1>2, <1>3
<1> QED BY <1>4, <1>5 DEF s, in

(* The bindings after the sweep. *)
LEMMA SweepBinds ==
  ASSUME TypeOK, Bindings, NEW r \in Passing, r.now <= clock, sticky' = Swept(Input(r), State),
         UNCHANGED <<clock, talk>>
  PROVE  Bindings'
<1>1. ASSUME NEW k \in TalkKeys, talk[k].prov # 0 PROVE Follow(k)' \/ clock - talk[k].since > Dwell
  <2>1. k \in Sessions \X Exposed
    BY DEF TalkKeys, Sessions, Exposed
  <2>2. sticky'[k] = sticky[k] \/ r.now - sticky[k].since > Dwell
    BY <2>1, SweptIs
  <2>3. r.now \in Nat /\ clock \in Nat /\ talk[k].since \in Nat /\ Dwell \in Nat
    BY ScheduleAssumption DEF TypeOK, Passing
  <2>4. Follow(k) \/ clock - talk[k].since > Dwell
    BY <1>1 DEF Bindings
  <2>5. CASE Follow(k) /\ sticky'[k] = sticky[k]
    BY <2>5 DEF Follow
  <2>6. CASE Follow(k) /\ r.now - sticky[k].since > Dwell
    <3>1. sticky[k].since = talk[k].since
      BY <2>6 DEF Follow
    <3>2. r.now - talk[k].since > Dwell
      BY <2>6, <3>1
    <3> QED BY <2>3, <3>2
  <2> QED BY <2>2, <2>4, <2>5, <2>6
<1> QED BY <1>1 DEF Bindings

(* A slot is dealt on one route. *)
LEMMA DealingIs ==
  ASSUME TypeOK, Deals, NEW r \in RouteKeys, NEW list \in Seq(Target), list # <<>>, Distinct(list),
         NEW t, t = list[1 + (rr[r] % Len(list))]
  PROVE  LET d == Dealing(r, list, t)
         IN /\ d.list = list /\ d \in [list : Seq(Target), n : [Target -> Nat]]
            /\ \E c \in 0 .. Len(list) - 1 : Round(list, d.n, rr[r] + 1, c)
<1> DEFINE zero == NoDeal.n
           old == IF dealt[r].list = list THEN dealt[r].n ELSE zero
           new == Count(list, old, t)
           d == Dealing(r, list, t)
<1>1. d = [list |-> list, n |-> new]
  BY DEF Dealing, Count
<1>2. rr[r] \in Nat
  BY DEF TypeOK, Exposed
<1>3. zero = [y \in Target |-> 0]
  BY DEF NoDeal
<1>4. dealt[r].list \in Seq(Target) /\ dealt[r].n \in [Target -> Nat]
  BY DEF TypeOK
<1>5. old \in [Target -> Nat]
  BY <1>3, <1>4
<1>6. \E c \in 0 .. Len(list) - 1 : Round(list, old, rr[r], c)
  <2>1. CASE dealt[r].list = list
    BY <2>1 DEF Deals
  <2>2. CASE dealt[r].list # list
    <3>1. \A i \in 1 .. Len(list) : old[list[i]] = 0
      BY <1>3, <2>2
    <3> HIDE DEF old
    <3>2. Round(list, old, rr[r], 0)
      BY <1>2, <3>1, RoundStarts
    <3>3. 0 \in 0 .. Len(list) - 1
      OBVIOUS
    <3> QED BY <3>2, <3>3
  <2> QED BY <2>1, <2>2
<1> HIDE DEF old
<1>7. PICK c \in 0 .. Len(list) - 1 : Round(list, old, rr[r], c)
  BY <1>6
<1>11. new \in [Target -> Nat] /\ \E e \in 0 .. Len(list) - 1 : Round(list, new, rr[r] + 1, e)
  BY <1>2, <1>5, <1>7, DealOne
<1> HIDE DEF new, d
<1>12. d.list = list /\ d.n = new /\ d \in [list : Seq(Target), n : [Target -> Nat]]
  BY <1>1, <1>11
<1> QED BY <1>11, <1>12 DEF d

(* Who is eligible. *)
LEMMA EligibleIs == \A r : Eligible(r) = Open(Input(r), State)
BY DEF Eligible, Open

(* The rotation of a route moves on when a slot of it is assigned, and only *)
(* then.                                                                    *)
LEMMA RotationIs ==
  ASSUME TypeOK, NEW r \in Passing, InPass(r)
  PROVE  LET res == DecideOrder(Input(r), State)
             av == Offered(Input(r), State)
         IN /\ Assigned(r) => /\ r.exposed = r.route /\ av # <<>>
                              /\ res.order[1] = av[1 + (rr[r.route] % Len(av))]
                              /\ res.rr = [rr EXCEPT ![r.route] = @ + 1]
            /\ ~Assigned(r) => \A k \in RouteKeys : res.rr[k] = rr[k]
<1> DEFINE in == Input(r)
           res == DecideOrder(in, State)
           av == Offered(in, State)
<1>1. Stored(State) /\ Asked(in) /\ State.rr = rr
  BY StateStored, InputAsked DEF State
<1>2. /\ in.exposed = r.exposed /\ in.sess = r.sess /\ in.strategy = Strategy[r.route] /\ (in.commit <=> r.gen = gen)
      /\ in.chain \in Seq(Target)
  BY InputAsked DEF Asked
<1>3. Eligible(r) = Open(in, State)
  BY EligibleIs
<1>4. av = <<>> <=> Eligible(r) = {}
  <2>1. av \in Seq(Target)
    BY <1>2, OfferedIs
  <2>2. av # <<>> => 1 \in 1 .. Len(av)
    BY <2>1
  <2>3. \A p : p \in Open(in, State) <=> \E i \in 1 .. Len(av) : ProviderOf[av[i]] = p
    BY <1>2, OpenIs
  <2> HIDE DEF av, in
  <2>4. CASE av = <<>>
    BY <1>3, <2>3, <2>4
  <2>5. CASE av # <<>>
    BY <1>3, <2>2, <2>3, <2>5
  <2> QED BY <2>4, <2>5
<1>5. Assigned(r) <=> /\ in.strategy = "load_balance" /\ r.exposed \in RouteKeys
                      /\ in.commit /\ av # <<>> /\ TakesSlot(in, State)
  BY <1>2, <1>3, <1>4 DEF Assigned, TakesSlot, Current
<1>6. in.strategy # "load_balance" => res.rr = rr
  BY <1>1, DecideIs
<1>7. in.strategy = "load_balance" =>
        /\ av = <<>> => res.rr = rr
        /\ av # <<>> /\ TakesSlot(in, State) =>
             /\ res.order[1] = av[1 + (rr[r.exposed] % Len(av))]
             /\ res.rr = IF in.commit THEN [rr EXCEPT ![r.exposed] = @ + 1] ELSE rr
        /\ ~TakesSlot(in, State) => res.rr = rr
  <2> DEFINE lb == LoadBalance(in, State)
  <2>1. in.strategy = "load_balance" => res = lb
    BY <1>1, DecideIs
  <2>2. /\ av = <<>> => lb.rr = State.rr
        /\ av # <<>> /\ TakesSlot(in, State) =>
             /\ lb.order[1] = av[1 + (State.rr[in.exposed] % Len(av))]
             /\ lb.rr = IF in.commit THEN [State.rr EXCEPT ![in.exposed] = @ + 1] ELSE State.rr
        /\ ~TakesSlot(in, State) => lb.rr = State.rr
    BY <1>1, LoadBalanceIs
  <2> HIDE DEF lb, res, av
  <2> QED BY <1>1, <1>2, <2>1, <2>2
<1>8. r.exposed \in RouteKeys => r.exposed = r.route
  <2>1. r.route \in RouteKeys
    BY DEF Passing
  <2> QED BY <2>1, ConfigAssumption DEF InPass
<1>9. rr \in [Exposed -> Nat] /\ RouteKeys \subseteq Exposed
  BY DEF TypeOK, Exposed
<1> HIDE DEF in, res, av
<1>10. Assigned(r) => /\ r.exposed = r.route /\ av # <<>>
                      /\ res.order[1] = av[1 + (rr[r.route] % Len(av))]
                      /\ res.rr = [rr EXCEPT ![r.route] = @ + 1]
  BY <1>5, <1>7, <1>8
<1>11. ASSUME ~Assigned(r), NEW k \in RouteKeys PROVE res.rr[k] = rr[k]
  <2>1. CASE res.rr = rr
    BY <2>1
  <2>2. CASE res.rr # rr
    <3>1. in.strategy = "load_balance" /\ av # <<>> /\ TakesSlot(in, State) /\ in.commit
      BY <1>6, <1>7, <2>2
    <3>2. r.exposed \notin RouteKeys /\ res.rr = [rr EXCEPT ![r.exposed] = @ + 1]
      BY <1>5, <1>7, <1>11, <3>1
    <3> QED BY <1>9, <3>2
  <2> QED BY <2>1, <2>2
<1> QED BY <1>10, <1>11 DEF in, res, av

(* What is dealt after a decision. *)
LEMMA DecideDeals ==
  ASSUME IInv, NEW r \in Passing, InPass(r),
         rr' = DecideOrder(Input(r), State).rr,
         dealt' = IF Assigned(r)
                    THEN [dealt EXCEPT ![r.route] =
                            Dealing(r.route, Offered(Input(r), State), DecideOrder(Input(r), State).order[1])]
                    ELSE dealt
  PROVE  dealt' \in [RouteKeys -> [list : Seq(Target), n : [Target -> Nat]]] /\ Deals'
<1> DEFINE res == DecideOrder(Input(r), State)
           av == Offered(Input(r), State)
           d == Dealing(r.route, av, res.order[1])
<1>1. /\ Assigned(r) => /\ r.exposed = r.route /\ av # <<>>
                        /\ res.order[1] = av[1 + (rr[r.route] % Len(av))]
                        /\ res.rr = [rr EXCEPT ![r.route] = @ + 1]
      /\ ~Assigned(r) => \A k \in RouteKeys : res.rr[k] = rr[k]
  BY RotationIs DEF IInv
<1>2. r.route \in RouteKeys /\ r.chain \in Seq(Target)
  BY DEF Passing
<1>3. Input(r).chain = r.chain /\ Distinct(r.chain)
  BY InputAsked DEF InPass
<1>4. av \in Seq(Target) /\ Distinct(av)
  BY <1>2, <1>3, OfferedIs
<1>5. rr' = res.rr /\ dealt' = IF Assigned(r) THEN [dealt EXCEPT ![r.route] = d] ELSE dealt
  OBVIOUS
<1>6. dealt \in [RouteKeys -> [list : Seq(Target), n : [Target -> Nat]]]
  BY DEF IInv, TypeOK
<1> HIDE DEF res, av
<1>7. CASE ~Assigned(r)
  BY <1>1, <1>5, <1>6, <1>7, DealsStay DEF IInv
<1>8. CASE Assigned(r)
  <2>1. /\ d.list = av /\ d \in [list : Seq(Target), n : [Target -> Nat]]
        /\ \E c \in 0 .. Len(av) - 1 : Round(av, d.n, rr[r.route] + 1, c)
    <3> DEFINE t == res.order[1]
               R == r.route
    <3>1. t = av[1 + (rr[R] % Len(av))] /\ R \in RouteKeys /\ av # <<>> /\ TypeOK /\ Deals
      BY <1>1, <1>2, <1>8 DEF IInv
    <3> HIDE DEF t, R
    <3>2. LET e == Dealing(R, av, t)
          IN /\ e.list = av /\ e \in [list : Seq(Target), n : [Target -> Nat]]
             /\ \E c \in 0 .. Len(av) - 1 : Round(av, e.n, rr[R] + 1, c)
      BY <1>4, <3>1, DealingIs
    <3> QED BY <3>2 DEF t, R
  <2> HIDE DEF d
  <2>2. dealt' = [dealt EXCEPT ![r.route] = d]
    BY <1>5, <1>8
  <2>3. dealt' \in [RouteKeys -> [list : Seq(Target), n : [Target -> Nat]]]
    BY <1>6, <2>1, <2>2
  <2>4. rr' = [rr EXCEPT ![r.route] = @ + 1] /\ rr \in [Exposed -> Nat] /\ RouteKeys \subseteq Exposed
    BY <1>1, <1>5, <1>8 DEF IInv, TypeOK, Exposed
  <2>5. ASSUME NEW k \in RouteKeys
        PROVE  /\ Distinct(dealt'[k].list)
               /\ dealt'[k].list # <<>> =>
                    \E c \in 0 .. Len(dealt'[k].list) - 1 : Round(dealt'[k].list, dealt'[k].n, rr'[k], c)
    <3>1. CASE k = r.route
      <4>1. dealt'[k] = d /\ rr'[k] = rr[r.route] + 1
        BY <1>2, <1>6, <2>2, <2>4, <3>1
      <4> QED BY <1>4, <2>1, <4>1
    <3>2. CASE k # r.route
      <4>1. dealt'[k] = dealt[k] /\ rr'[k] = rr[k]
        BY <1>6, <2>2, <2>4, <3>2
      <4> QED BY <4>1 DEF IInv, Deals
    <3> QED BY <3>1, <3>2
  <2>6. Deals'
    BY <2>5 DEF Deals, Round
  <2> QED BY <2>3, <2>6
<1> QED BY <1>7, <1>8

(* A request is given its order. *)
LEMMA DecideKeeps ==
  ASSUME IInv, NEW q \in Req, Decide(q)
  PROVE  IInv'
<1> DEFINE r == req[q]
           res == DecideOrder(Input(r), State)
           k == <<r.sess, r.exposed>>
           moved == /\ k \in TalkKeys /\ talk[k].prov # 0 /\ clock - talk[k].since < Dwell
                    /\ talk[k].prov \notin Eligible(r)
           y == [r EXCEPT !.phase = "decided", !.order = res.order, !.park = res.park, !.moved = moved]
<1>1. /\ r.phase = "due" /\ UNCHANGED <<gen, clock, latch, facts, scene, talk, bads>>
      /\ sticky' = Swept(Input(r), State) /\ spread' = res.spread /\ rr' = res.rr
      /\ req' = [req EXCEPT ![q] = y]
      /\ dealt' = IF Assigned(r)
                    THEN [dealt EXCEPT ![r.route] = Dealing(r.route, Offered(Input(r), State), res.order[1])]
                    ELSE dealt
  BY DEF Decide, outside
<1>2. moved \in BOOLEAN
  OBVIOUS
<1>3. r \in Passing /\ InPass(r)
  BY <1>1, SlotIs DEF IInv, Passes
<1>4. Decision(Input(r), State, res)
  BY <1>3, StateStored, InputAsked, DecideIs DEF IInv
<1>5. dealt' \in [RouteKeys -> [list : Seq(Target), n : [Target -> Nat]]] /\ Deals'
  BY <1>1, <1>3, DecideDeals
<1>6. sticky' \in [Sessions \X Exposed -> Stick]
  BY <1>1, <1>3, SweptIs DEF IInv
<1>7. clock' \in Nat /\ clock <= clock' /\ clock' = clock
  BY <1>1 DEF IInv, TypeOK
<1>8. Bindings'
  BY <1>1, <1>3, SweepBinds DEF IInv, InPass
<1>9. Streaks'
  BY <1>1, <1>7, StreaksStay DEF IInv
<1>10. /\ res.order \in Seq(Target) /\ res.park \in Nat /\ res.spread \in [Parents -> Nat] /\ res.rr \in [Exposed -> Nat]
       /\ ToSet(res.order) \subseteq ToSet(r.chain)
       /\ r.off \/ res.order = <<>> => res.park = 0
       /\ ~r.off /\ res.order # <<>> /\ r.sess # NoSession => res.park = ProviderOf[res.order[1]]
  BY <1>3, <1>4, InputAsked DEF Decision
<1> HIDE DEF res, moved, k
<1>11. y \in Passing
  BY <1>2, <1>3, <1>10 DEF Passing
<1>12. /\ y.phase = "decided" /\ y.order = res.order /\ y.park = res.park /\ y.now = r.now /\ y.exposed = r.exposed
       /\ y.route = r.route /\ y.targets = r.targets /\ y.chain = r.chain /\ y.prof = r.prof /\ y.base = r.base
       /\ y.off = r.off /\ y.sess = r.sess
  BY <1>3 DEF Passing
<1> HIDE DEF y, r
<1>13. InPass(y)
  BY <1>3, <1>10, <1>12 DEF InPass
<1>14. Passes'
  BY <1>1, <1>12, <1>13, PassesAt DEF IInv
<1>15. TypeOK'
  <2>1. req' \in [Req -> {Idle} \cup Passing \cup Trying \cup Ending]
    BY <1>1, <1>11 DEF IInv, TypeOK
  <2> QED BY <1>1, <1>5, <1>6, <1>10, <2>1 DEF IInv, TypeOK
<1> QED BY <1>5, <1>8, <1>9, <1>14, <1>15 DEF IInv

(***************************************************************************)
(* The binding, and the latch.                                             *)
(***************************************************************************)
(* What a request changes when it writes its binding. *)
LEMMA StickyBinds ==
  ASSUME TypeOK, Bindings, NEW r \in Passing, InPass(r), r.phase = "decided", UNCHANGED clock,
         sticky' = IF r.park # 0 /\ r.gen = gen
                     THEN [sticky EXCEPT ![<<r.sess, r.exposed>>] = [prov |-> r.park, since |-> r.now]]
                     ELSE sticky,
         NEW counts \in BOOLEAN,
         counts <=> <<r.sess, r.exposed>> \in TalkKeys /\ ~r.off /\ r.gen = gen /\ r.order # <<>>,
         NEW was \in Stick,
         talk' = IF counts
                   THEN [talk EXCEPT ![<<r.sess, r.exposed>>] =
                           [prov |-> ProviderOf[r.order[1]], since |-> r.now, was |-> was]]
                   ELSE talk
  PROVE  /\ sticky' \in [Sessions \X Exposed -> Stick]
         /\ talk' \in [TalkKeys -> [prov : Nat, since : Nat, was : Stick]]
         /\ Bindings'
<1> DEFINE k == <<r.sess, r.exposed>>
           b == [prov |-> r.park, since |-> r.now]
           t == [prov |-> ProviderOf[r.order[1]], since |-> r.now, was |-> was]
<1>1. /\ r.sess \in Sessions /\ r.exposed \in Exposed /\ r.park \in Nat /\ r.now \in Nat /\ r.order \in Seq(Target)
      /\ k \in Sessions \X Exposed
  BY DEF Passing
<1>2. sticky \in [Sessions \X Exposed -> Stick] /\ talk \in [TalkKeys -> [prov : Nat, since : Nat, was : Stick]]
  BY DEF TypeOK
<1>3. b \in Stick /\ b.prov = r.park /\ b.since = r.now
  BY <1>1 DEF Stick
<1>4. r.order # <<>> => ProviderOf[r.order[1]] \in Nat /\ ProviderOf[r.order[1]] # 0
  <2>1. r.order # <<>> => r.order[1] \in Target
    BY <1>1
  <2> QED BY <2>1, Numbers
<1>5. r.order # <<>> => t \in [prov : Nat, since : Nat, was : Stick]
  BY <1>1, <1>4
<1>6. t.prov = ProviderOf[r.order[1]] /\ t.since = r.now
  OBVIOUS
<1>7. /\ sticky' = IF r.park # 0 /\ r.gen = gen THEN [sticky EXCEPT ![k] = b] ELSE sticky
      /\ talk' = IF counts THEN [talk EXCEPT ![k] = t] ELSE talk
      /\ counts <=> k \in TalkKeys /\ ~r.off /\ r.gen = gen /\ r.order # <<>>
  OBVIOUS
<1>8. /\ r.off \/ r.order = <<>> => r.park = 0
      /\ ~r.off /\ r.order # <<>> /\ r.sess # NoSession => r.park = ProviderOf[r.order[1]]
  BY DEF InPass
<1>9. k \in TalkKeys => r.sess # NoSession
  BY RoutingAssumption DEF TalkKeys
<1> HIDE DEF b, t, k
<1>10. sticky' \in [Sessions \X Exposed -> Stick]
  BY <1>1, <1>2, <1>3, <1>7
<1>11. talk' \in [TalkKeys -> [prov : Nat, since : Nat, was : Stick]]
  BY <1>2, <1>5, <1>7
<1>12. ASSUME NEW j \in TalkKeys, talk'[j].prov # 0 PROVE Follow(j)' \/ clock' - talk'[j].since > Dwell
  <2>1. j \in Sessions \X Exposed
    BY DEF TalkKeys, Sessions, Exposed
  <2>2. CASE counts /\ j = k
    <3>1. talk'[j] = t /\ r.park = ProviderOf[r.order[1]] /\ r.park # 0 /\ r.gen = gen
      BY <1>2, <1>4, <1>7, <1>8, <1>9, <2>2
    <3>2. sticky'[j] = b
      BY <1>2, <1>7, <2>1, <2>2, <3>1
    <3> QED BY <1>3, <1>6, <3>1, <3>2 DEF Follow
  <2>3. CASE ~(counts /\ j = k)
    <3>1. talk'[j] = talk[j]
      BY <1>2, <1>7, <2>3
    <3>2. sticky'[j] = sticky[j]
      <4>1. CASE j # k
        BY <1>2, <1>7, <2>1, <4>1
      <4>2. CASE j = k
        <5>1. ~counts /\ k \in TalkKeys
          BY <2>3, <4>2
        <5>2. r.park = 0 \/ r.gen # gen
          BY <1>7, <1>8, <5>1
        <5> QED BY <1>7, <5>2
      <4> QED BY <4>1, <4>2
    <3>3. Follow(j) \/ clock - talk[j].since > Dwell
      BY <1>12, <3>1 DEF Bindings
    <3>4. Follow(j) => Follow(j)'
      BY <3>1, <3>2 DEF Follow
    <3> QED BY <3>1, <3>3, <3>4
  <2> QED BY <2>2, <2>3
<1>13. Bindings'
  BY <1>12 DEF Bindings
<1> QED BY <1>10, <1>11, <1>13

(* A request writes its binding. *)
LEMMA SetStickyKeeps ==
  ASSUME IInv, NEW q \in Req, SetSticky(q)
  PROVE  IInv'
<1> DEFINE r == req[q]
           k == <<r.sess, r.exposed>>
           counts == k \in TalkKeys /\ ~r.off /\ r.gen = gen /\ r.order # <<>>
           was == IF counts /\ r.moved THEN [prov |-> talk[k].prov, since |-> talk[k].since] ELSE NoStick
           y == [r EXCEPT !.phase = "parked", !.park = 0, !.moved = FALSE]
<1>1. /\ r.phase = "decided" /\ UNCHANGED <<gen, clock, spread, rr, latch, facts, scene, dealt, bads>>
      /\ sticky' = IF r.park # 0 /\ r.gen = gen
                     THEN [sticky EXCEPT ![k] = [prov |-> r.park, since |-> r.now]] ELSE sticky
      /\ req' = [req EXCEPT ![q] = y]
  BY DEF SetSticky, StickyKey, outside
<1>2. talk' = IF counts
                THEN [talk EXCEPT ![k] = [prov |-> ProviderOf[r.order[1]], since |-> r.now, was |-> was]]
                ELSE talk
  <2>1. talk' = IF counts
                THEN [talk EXCEPT ![k] = [prov |-> ProviderOf[r.order[1]], since |-> r.now,
                          was |-> IF r.moved THEN [prov |-> talk[k].prov, since |-> talk[k].since] ELSE NoStick]]
                ELSE talk
    BY DEF SetSticky
  <2> QED BY <2>1
<1>3. r \in Passing /\ InPass(r)
  BY <1>1, SlotIs DEF IInv, Passes
<1>4. counts \in BOOLEAN /\ (counts <=> k \in TalkKeys /\ ~r.off /\ r.gen = gen /\ r.order # <<>>)
  OBVIOUS
<1>5. was \in Stick
  <2>1. NoStick \in Stick
    BY DEF NoStick, Stick
  <2>2. k \in TalkKeys => talk[k].prov \in Nat /\ talk[k].since \in Nat
    BY DEF IInv, TypeOK
  <2>3. k \in TalkKeys => [prov |-> talk[k].prov, since |-> talk[k].since] \in Stick
    BY <2>2 DEF Stick
  <2> QED BY <2>1, <2>3
<1>6. y \in Passing
  BY <1>3 DEF Passing
<1>7. /\ y.phase = "parked" /\ y.order = r.order /\ y.now = r.now /\ y.exposed = r.exposed
      /\ y.route = r.route /\ y.targets = r.targets /\ y.chain = r.chain /\ y.prof = r.prof /\ y.base = r.base
  BY <1>3 DEF Passing
<1> HIDE DEF y, r, counts, was
<1>8. InPass(y)
  BY <1>1, <1>3, <1>7 DEF InPass
<1>9. Passes'
  BY <1>1, <1>7, <1>8, PassesAt DEF IInv
<1>10. /\ sticky' \in [Sessions \X Exposed -> Stick]
       /\ talk' \in [TalkKeys -> [prov : Nat, since : Nat, was : Stick]]
       /\ Bindings'
  BY <1>1, <1>2, <1>3, <1>4, <1>5, StickyBinds DEF IInv
<1>11. clock' \in Nat /\ clock <= clock'
  BY <1>1 DEF IInv, TypeOK
<1>12. Streaks' /\ Deals'
  BY <1>1, <1>11, StreaksStay, DealsStay DEF IInv
<1>13. TypeOK'
  <2>1. req' \in [Req -> {Idle} \cup Passing \cup Trying \cup Ending]
    BY <1>1, <1>6 DEF IInv, TypeOK
  <2> QED BY <1>1, <1>10, <2>1 DEF IInv, TypeOK
<1> QED BY <1>9, <1>10, <1>12, <1>13 DEF IInv

BadRun == [read : Nat, at : Nat, n : Nat, before : Nat]
Latch == [here : BOOLEAN, on : BOOLEAN, since : Nat, runs : Nat]

(* The bad outcomes of a session after one more. *)
LEMMA OneMore ==
  ASSUME NEW B \in Seq(BadRun), NEW e \in BadRun, e.before = Total(B)
  PROVE  LET more == Append(B, e)
         IN /\ more \in Seq(BadRun) /\ Total(B) \in Nat /\ Len(more) = Len(B) + 1
            /\ more[Len(more)] = e /\ \A i \in 1 .. Len(B) : more[i] = B[i]
            /\ Total(more) = Total(B) + e.n
<1> DEFINE more == Append(B, e)
<1>1. Len(B) \in Nat /\ more \in Seq(BadRun) /\ Len(more) = Len(B) + 1
  OBVIOUS
<1>2. more[Len(B) + 1] = e /\ \A i \in 1 .. Len(B) : more[i] = B[i]
  OBVIOUS
<1>3. more # <<>>
  BY <1>1
<1> HIDE DEF more
<1>4. Total(more) = e.before + e.n
  BY <1>1, <1>2, <1>3 DEF Total
<1>5. Total(B) \in Nat
  <2>1. CASE B = <<>>
    BY <2>1 DEF Total
  <2>2. CASE B # <<>>
    <3>1. B[Len(B)] \in BadRun
      BY <2>2
    <3>2. B[Len(B)].before \in Nat /\ B[Len(B)].n \in Nat
      BY <3>1 DEF BadRun
    <3> QED BY <2>2, <3>2 DEF Total
  <2> QED BY <2>1, <2>2
<1> QED BY <1>1, <1>2, <1>4, <1>5 DEF more

(* A bad outcome is counted with those before it. *)
LEMMA CountOn ==
  ASSUME NEW B \in Seq(BadRun), NEW l \in Latch, NEW e \in BadRun, e.before = Total(B),
         l.since <= e.at, l.runs > 0 => Counted(l, B)
  PROVE  LET more == Append(B, e)
         IN \E i \in 1 .. Len(more) :
              /\ Total(more) - more[i].before = l.runs + e.n
              /\ l.since <= more[i].at
              /\ l.runs = 0 => more[i].at = e.at
<1> DEFINE more == Append(B, e)
<1>1. /\ more \in Seq(BadRun) /\ Total(B) \in Nat /\ Len(more) = Len(B) + 1 /\ Len(B) \in Nat
      /\ more[Len(more)] = e /\ \A i \in 1 .. Len(B) : more[i] = B[i]
      /\ Total(more) = Total(B) + e.n
  BY OneMore
<1> HIDE DEF more
<1>2. e.n \in Nat /\ e.at \in Nat /\ l.runs \in Nat /\ l.since \in Nat
  BY DEF BadRun, Latch
<1>3. CASE l.runs = 0
  <2> DEFINE i == Len(more)
  <2>1. i \in 1 .. Len(more)
    BY <1>1
  <2>2. more[i].before = Total(B) /\ more[i].at = e.at
    BY <1>1
  <2>3. Total(more) - more[i].before = l.runs + e.n
    BY <1>1, <1>2, <1>3, <2>2
  <2> HIDE DEF i
  <2> QED BY <2>1, <2>2, <2>3 DEF more
<1>4. CASE l.runs > 0
  <2>1. PICK i \in 1 .. Len(B) : Total(B) - B[i].before = l.runs /\ l.since <= B[i].at
    BY <1>4 DEF Counted
  <2>2. i \in 1 .. Len(more) /\ more[i] = B[i]
    BY <1>1
  <2>3. B[i].before \in Nat
    <3>1. B[i] \in BadRun
      OBVIOUS
    <3> QED BY <3>1 DEF BadRun
  <2>4. Total(more) - B[i].before = l.runs + e.n
    BY <1>1, <1>2, <2>1, <2>3
  <2>5. l.runs # 0
    BY <1>4
  <2> QED BY <2>1, <2>2, <2>4, <2>5 DEF more
<1> QED BY <1>2, <1>3, <1>4

(* What the invariant says of one latch. *)
Fair(l, runs) == /\ l.since <= clock
                 /\ ~l.here => l.runs = 0
                 /\ ~l.on /\ l.runs > 0 => Counted(l, runs)

(* The latch and the bad outcomes that a recorded outcome leaves. *)
Left(old, r) ==
  LET up == old.runs + r.n >= Consecutive
  IN IF r.n = 0 THEN Streak(old, r)
     ELSE [here |-> TRUE, on |-> old.on \/ up, runs |-> IF up THEN 0 ELSE old.runs + r.n,
           since |-> IF up \/ ~old.here THEN r.now ELSE old.since]
Outcomes(B, r) ==
  IF r.n = 0 THEN <<>> ELSE Append(B, [read |-> r.now, at |-> clock, n |-> r.n, before |-> Total(B)])

(* An outcome that was recorded: the latch it finds, the latch it leaves,   *)
(* and that a latch comes on only when that was earned.                     *)
LEMMA Recorded ==
  ASSUME TypeOK, NEW r \in Ending, InEnding(r), NEW B \in Seq(BadRun), NEW old \in Latch, Fair(old, B),
         old.runs > 0 => r.now - old.since <= LatchDwell
  PROVE  LET new == Left(old, r)
             more == Outcomes(B, r)
         IN /\ new \in Latch /\ more \in Seq(BadRun) /\ Fair(new, more)
            /\ new.on /\ ~old.on => Earned(more)
<1> DEFINE up == (old.runs + r.n >= Consecutive)
           new == Left(old, r)
           more == Outcomes(B, r)
<1>a. new = IF r.n = 0 THEN Streak(old, r)
            ELSE [here |-> TRUE, on |-> old.on \/ up, runs |-> IF up THEN 0 ELSE old.runs + r.n,
                  since |-> IF up \/ ~old.here THEN r.now ELSE old.since]
  BY DEF Left
<1>b. more = IF r.n = 0 THEN <<>>
             ELSE Append(B, [read |-> r.now, at |-> clock, n |-> r.n, before |-> Total(B)])
  BY DEF Outcomes
<1>c. up \in BOOLEAN /\ (up => old.runs + r.n >= Consecutive)
  OBVIOUS
<1> HIDE DEF up, new, more
<1>1. r.n \in Nat /\ r.now \in Nat /\ r.now <= clock /\ clock \in Nat /\ (r.good <=> r.n = 0)
  BY DEF Ending, InEnding, TypeOK
<1>2. /\ old.here \in BOOLEAN /\ old.on \in BOOLEAN /\ old.since \in Nat /\ old.runs \in Nat
      /\ old.since <= clock /\ (~old.here => old.runs = 0)
      /\ ~old.on /\ old.runs > 0 => Counted(old, B)
  BY DEF Latch, Fair
<1>3. Consecutive \in Nat \ {0} /\ LatchDwell \in Nat
  BY RoutingAssumption
<1>4. CASE r.n = 0
  <2>1. new = Streak(old, r) /\ more = <<>> /\ r.good
    BY <1>1, <1>4, <1>a, <1>b
  <2>2. CASE old.here
    <3>1. new = [old EXCEPT !.runs = 0]
      BY <2>1, <2>2 DEF Streak
    <3>2. new \in Latch
      BY <3>1 DEF Latch
    <3>a. new.runs = 0 /\ new.since = old.since
      BY <3>1 DEF Latch
    <3>b. new.on = old.on /\ new.here = old.here
      BY <3>1 DEF Latch
    <3>3. Fair(new, more)
      BY <1>2, <3>a, <3>b DEF Fair
    <3> QED BY <2>1, <3>2, <3>3, <3>b DEF new, more
  <2>3. CASE ~old.here
    <3>1. new = old /\ new.runs = 0
      BY <1>2, <2>1, <2>3 DEF Streak
    <3>2. Fair(new, more)
      BY <1>2, <3>1 DEF Fair
    <3> QED BY <2>1, <3>1, <3>2 DEF new, more
  <2> QED BY <2>2, <2>3
<1>5. CASE r.n # 0
  <2> DEFINE e == [read |-> r.now, at |-> clock, n |-> r.n, before |-> Total(B)]
  <2>1. Total(B) \in Nat
    <3>1. CASE B = <<>>
      BY <3>1 DEF Total
    <3>2. CASE B # <<>>
      <4>1. B[Len(B)] \in BadRun
        BY <3>2
      <4>2. B[Len(B)].before \in Nat /\ B[Len(B)].n \in Nat
        BY <4>1 DEF BadRun
      <4> QED BY <3>2, <4>2 DEF Total
    <3> QED BY <3>1, <3>2
  <2>2. e \in BadRun /\ e.before = Total(B) /\ e.at = clock /\ e.n = r.n /\ e.read = r.now
    BY <1>1, <2>1 DEF BadRun
  <2>3. more = Append(B, e)
    BY <1>5, <1>b
  <2> HIDE DEF e
  <2>4. /\ more \in Seq(BadRun) /\ Len(more) = Len(B) + 1 /\ more[Len(more)] = e
    BY <2>2, <2>3, OneMore
  <2>5. /\ up \in BOOLEAN /\ new \in Latch /\ new.here = TRUE /\ new.on = (old.on \/ up)
        /\ new.runs = IF up THEN 0 ELSE old.runs + r.n
        /\ new.since = IF up \/ ~old.here THEN r.now ELSE old.since
    BY <1>1, <1>2, <1>5, <1>a, <1>c DEF Latch
  <2>6. ~old.on => \E i \in 1 .. Len(more) :
              /\ Total(more) - more[i].before = old.runs + r.n
              /\ old.since <= more[i].at
              /\ old.runs = 0 => more[i].at = clock
    <3>1. CASE ~old.on
      <4>1. old.since <= e.at /\ (old.runs > 0 => Counted(old, B))
        BY <1>2, <2>2, <3>1
      <4>2. LET m == Append(B, e)
            IN \E i \in 1 .. Len(m) :
                 /\ Total(m) - m[i].before = old.runs + e.n
                 /\ old.since <= m[i].at
                 /\ old.runs = 0 => m[i].at = e.at
        BY <2>2, <4>1, CountOn
      <4> QED BY <2>2, <2>3, <4>2
    <3> QED BY <3>1
  <2>7. new.since <= clock
    BY <1>1, <1>2, <2>5
  <2>8. ASSUME ~new.on, new.runs > 0 PROVE Counted(new, more)
    <3>1. ~up /\ ~old.on /\ new.runs = old.runs + r.n
      BY <2>5, <2>8
    <3>2. PICK i \in 1 .. Len(more) :
              /\ Total(more) - more[i].before = old.runs + r.n
              /\ old.since <= more[i].at
              /\ old.runs = 0 => more[i].at = clock
      BY <2>6, <3>1
    <3>3. new.since <= more[i].at
      <4>1. CASE old.here
        BY <2>5, <3>1, <3>2, <4>1
      <4>2. CASE ~old.here
        BY <1>1, <1>2, <2>5, <3>2, <4>2
      <4> QED BY <4>1, <4>2
    <3> QED BY <3>1, <3>2, <3>3 DEF Counted
  <2>9. ASSUME new.on, ~old.on PROVE Earned(more)
    <3>1. up
      BY <2>5, <2>9
    <3>2. PICK i \in 1 .. Len(more) :
              /\ Total(more) - more[i].before = old.runs + r.n
              /\ old.since <= more[i].at
              /\ old.runs = 0 => more[i].at = clock
      BY <2>6, <2>9
    <3>3. Total(more) - more[i].before >= Consecutive
      BY <1>c, <3>1, <3>2
    <3>4. more[i].at \in Nat
      <4>1. more[i] \in BadRun
        BY <2>4
      <4> QED BY <4>1 DEF BadRun
    <3>5. r.now - more[i].at <= LatchDwell
      <4>1. CASE old.runs = 0
        BY <1>1, <1>3, <3>2, <4>1
      <4>2. CASE old.runs > 0
        BY <1>1, <1>2, <1>3, <3>2, <3>4, <4>2
      <4> QED BY <1>2, <4>1, <4>2
    <3>6. more[Len(more)].read = r.now
      BY <2>2, <2>4
    <3> QED BY <3>3, <3>5, <3>6 DEF Earned
  <2>10. Fair(new, more)
    BY <2>5, <2>7, <2>8 DEF Fair
  <2> QED BY <2>4, <2>5, <2>9, <2>10 DEF new, more
<1> QED BY <1>4, <1>5 DEF new, more

(* What recording an outcome does to the latches and their streaks. *)
LEMMA LatchStreaks ==
  ASSUME IInv, NEW q \in Req, RecordLatchOutcome(q)
  PROVE  /\ latch' \in [LatchKeys -> Latch] /\ bads' \in [LatchKeys -> Seq(BadRun)] /\ Streaks'
         /\ \A k \in LatchKeys : latch'[k].on /\ ~latch[k].on => Earned(bads'[k])
<1> DEFINE r == req[q]
           k == <<r.sess, r.route>>
           swept == [j \in LatchKeys |->
                       IF j[2] = r.route /\ Expired(latch[j], r.now) THEN NoLatch ELSE latch[j]]
           old == swept[k]
           new == Left(old, r)
           B == bads[k]
           more == Outcomes(B, r)
<1>1. /\ r.phase = "ending" /\ UNCHANGED clock
      /\ r.gen # gen => UNCHANGED <<latch, bads>>
      /\ r.gen = gen => latch' = [swept EXCEPT ![k] = new] /\ bads' = [bads EXCEPT ![k] = more]
  BY DEF RecordLatchOutcome, Left, Outcomes
<1>2. r \in Ending /\ InEnding(r) /\ TypeOK
  BY <1>1, SlotIs DEF IInv, Passes
<1>3. latch \in [LatchKeys -> Latch] /\ bads \in [LatchKeys -> Seq(BadRun)] /\ clock \in Nat
  BY DEF IInv, TypeOK, Latch, BadRun
<1>4. \A j \in LatchKeys : Fair(latch[j], bads[j])
  BY DEF IInv, Streaks, Fair
<1>5. NoLatch \in Latch /\ NoLatch.on = FALSE /\ NoLatch.runs = 0 /\ \A b : Fair(NoLatch, b)
  BY <1>3 DEF NoLatch, Latch, Fair
<1>6. swept \in [LatchKeys -> Latch] /\ k \in LatchKeys
  BY <1>2, <1>3, <1>5 DEF InEnding
<1>7. \A j \in LatchKeys : swept[j] = latch[j] \/ swept[j] = NoLatch
  OBVIOUS
<1>8. (old = latch[k] /\ ~Expired(latch[k], r.now)) \/ old = NoLatch
  <2>1. old = IF k[2] = r.route /\ Expired(latch[k], r.now) THEN NoLatch ELSE latch[k]
    BY <1>6
  <2>2. k[2] = r.route
    OBVIOUS
  <2> QED BY <2>1, <2>2
<1> HIDE DEF swept
<1>9. CASE r.gen # gen
  <2>1. latch' = latch /\ bads' = bads /\ clock' \in Nat /\ clock <= clock'
    BY <1>1, <1>3, <1>9
  <2>2. Streaks'
    BY <2>1, StreaksStay DEF IInv
  <2> QED BY <1>3, <2>1, <2>2
<1>10. CASE r.gen = gen
  <2>1. old \in Latch /\ B \in Seq(BadRun) /\ Fair(old, B)
    BY <1>3, <1>4, <1>5, <1>6, <1>7
  <2>2. old.runs > 0 => r.now - old.since <= LatchDwell
    <3>1. CASE old = NoLatch
      BY <1>5, <3>1
    <3>2. CASE old = latch[k] /\ ~Expired(latch[k], r.now)
      <4>1. old.runs > 0 => old.here
        BY <2>1 DEF Fair, Latch
      <4>2. old.here => ~(r.now - old.since > LatchDwell)
        BY <3>2 DEF Expired
      <4>3. r.now \in Nat /\ old.since \in Nat /\ LatchDwell \in Nat
        BY <1>2, <2>1, RoutingAssumption DEF Ending, Latch
      <4> HIDE DEF old
      <4> QED BY <4>1, <4>2, <4>3
    <3> QED BY <1>8, <3>1, <3>2
  <2> HIDE DEF old, B, r
  <2>6. /\ new \in Latch /\ more \in Seq(BadRun) /\ Fair(new, more)
        /\ new.on /\ ~old.on => Earned(more)
    BY <1>2, <2>1, <2>2, Recorded
  <2>7. latch' = [swept EXCEPT ![k] = new] /\ bads' = [bads EXCEPT ![k] = more]
    BY <1>1, <1>10
  <2> HIDE DEF k, new, more
  <2>8. latch' \in [LatchKeys -> Latch] /\ bads' \in [LatchKeys -> Seq(BadRun)]
    BY <1>3, <1>6, <2>6, <2>7
  <2>9. ASSUME NEW j \in LatchKeys
        PROVE  Fair(latch'[j], bads'[j]) /\ (latch'[j].on /\ ~latch[j].on => Earned(bads'[j]))
    <3>1. CASE j = k
      <4>1. latch'[j] = new /\ bads'[j] = more
        BY <1>3, <1>6, <2>7, <3>1
      <4>2. ~latch[j].on => ~old.on
        BY <1>5, <1>8, <3>1
      <4> QED BY <2>6, <4>1, <4>2
    <3>2. CASE j # k
      <4>1. latch'[j] = swept[j] /\ bads'[j] = bads[j]
        BY <1>3, <1>6, <2>7, <3>2
      <4>2. CASE swept[j] = latch[j]
        BY <1>4, <4>1, <4>2
      <4>3. CASE swept[j] = NoLatch
        BY <1>5, <4>1, <4>3
      <4> QED BY <1>7, <4>2, <4>3
    <3> QED BY <3>1, <3>2
  <2>10. Streaks'
    <3>1. \A j \in LatchKeys : /\ latch'[j].since <= clock' /\ (~latch'[j].here => latch'[j].runs = 0)
                               /\ ~latch'[j].on /\ latch'[j].runs > 0 => Counted(latch'[j], bads'[j])
      BY <1>1, <2>9 DEF Fair
    <3> QED BY <3>1 DEF Streaks, Counted
  <2> QED BY <2>8, <2>9, <2>10
<1> QED BY <1>9, <1>10

(* An outcome is recorded. *)
LEMMA RecordLatchOutcomeKeeps ==
  ASSUME IInv, NEW q \in Req, RecordLatchOutcome(q)
  PROVE  IInv'
<1>1. req' = [req EXCEPT ![q] = Idle] /\ UNCHANGED <<gen, clock, sticky, spread, rr, facts, scene, talk, dealt>>
  BY DEF RecordLatchOutcome, outside
<1>2. clock' \in Nat /\ clock <= clock'
  BY <1>1 DEF IInv, TypeOK
<1>3. latch' \in [LatchKeys -> Latch] /\ bads' \in [LatchKeys -> Seq(BadRun)] /\ Streaks'
  BY LatchStreaks
<1>4. Idle.phase = "idle"
  BY DEF Idle
<1>5. Passes'
  BY <1>1, <1>4, PassesAt DEF IInv
<1>6. Bindings' /\ Deals'
  BY <1>1, <1>2, BindingsStay, DealsStay DEF IInv
<1>7. TypeOK'
  <2>1. req' \in [Req -> {Idle} \cup Passing \cup Trying \cup Ending]
    BY <1>1 DEF IInv, TypeOK
  <2> QED BY <1>1, <1>3, <2>1 DEF IInv, TypeOK, Latch, BadRun
<1> QED BY <1>3, <1>5, <1>6, <1>7 DEF IInv

(***************************************************************************)
(* The theorems.                                                           *)
(***************************************************************************)
(* Every step keeps the invariant. *)
LEMMA StepIInv == IInv /\ [Next]_vars => IInv'
<1> SUFFICES ASSUME IInv, [Next]_vars PROVE IInv'
  OBVIOUS
<1>1. ASSUME NEW q \in Req, \/ Arrive(q) \/ Decide(q) \/ SetSticky(q) \/ Reroute(q) \/ Plan(q)
                            \/ Retry(q) \/ Finish(q) \/ RecordLatchOutcome(q)
      PROVE  IInv'
  BY <1>1, ArriveKeeps, DecideKeeps, SetStickyKeeps, RerouteKeeps, PlanKeeps, RetryKeeps, FinishKeeps,
     RecordLatchOutcomeKeeps
<1>2. CASE Tick
  BY <1>2, TickKeeps
<1>3. CASE Availability \/ Measure \/ SetPin \/ ClearPin \/ SetModelDisabled
  BY <1>3, OutsideKeeps
<1>4. CASE Reload
  BY <1>4, ReloadKeeps
<1>5. CASE UNCHANGED vars
  <2>1. Steady /\ UNCHANGED <<clock, req, scene, facts>>
    BY <1>5 DEF vars, Steady, manager, outside, ghosts
  <2>2. facts' \in FactSets \cup {StartFacts}
    BY <2>1 DEF IInv, TypeOK
  <2> QED BY <2>1, <2>2, SteadyKeeps
<1> QED BY <1>1, <1>2, <1>3, <1>4, <1>5 DEF Next

(* The invariant holds in every state: the state has its types, a request's *)
(* pass remembers what it was given, bindings are where sessions were sent, *)
(* latches count the bad runs since the last good one, and the rotations    *)
(* stand where the slots they dealt leave them.                             *)
THEOREM Invariance == Spec => []IInv
<1>1. Init => IInv
  BY InitIInv
<1>2. IInv /\ [Next]_vars => IInv'
  BY StepIInv
<1> QED BY <1>1, <1>2, PTL DEF Spec

(* The routing state has its types in every state. *)
THEOREM TypeCorrect == Spec => []TypeOK
<1>1. IInv => TypeOK
  BY DEF IInv
<1> QED BY <1>1, Invariance, PTL

(* load_balance deals the slots out evenly: while the candidates of a route *)
(* stay the same, no target is ever two slots ahead of another, for every   *)
(* number of targets, requests, sessions and routes.                        *)
THEOREM DealtEvenly == Spec => []EvenDeal
<1>1. IInv => EvenDeal
  <2> SUFFICES ASSUME IInv, NEW r \in RouteKeys, NEW t \in ToSet(dealt[r].list), NEW u \in ToSet(dealt[r].list)
               PROVE  dealt[r].n[t] - dealt[r].n[u] <= 1
    BY DEF EvenDeal
  <2> DEFINE l == dealt[r].list
             n == dealt[r].n
  <2>1. l \in Seq(Target)
    BY DEF IInv, TypeOK
  <2>2. DOMAIN l = 1 .. Len(l)
    BY <2>1
  <2>3. PICK i \in 1 .. Len(l) : t = l[i]
    BY <2>2 DEF ToSet
  <2>4. PICK j \in 1 .. Len(l) : u = l[j]
    BY <2>2 DEF ToSet
  <2>5. l # <<>>
    BY <2>1, <2>3
  <2>6. PICK c \in 0 .. Len(l) - 1 : Round(l, n, rr[r], c)
    BY <2>5 DEF IInv, Deals
  <2>7. n[l[i]] \in {0, 1} /\ n[l[j]] \in {0, 1}
    BY <2>6 DEF Round
  <2> HIDE DEF l, n
  <2>8. n[t] \in {0, 1} /\ n[u] \in {0, 1}
    BY <2>3, <2>4, <2>7
  <2>9. n[t] - n[u] <= 1
    BY <2>8
  <2> QED BY <2>9 DEF n
<1> QED BY <1>1, Invariance, PTL

(* Only the decision of a request takes its slot from "due" to "decided". *)
LEMMA OnlyDecide ==
  ASSUME IInv, [Next]_vars, NEW q \in Req, DecidesNow(q)
  PROVE  Decide(q)
<1>1. req[q].phase = "due" /\ req'[q].phase = "decided" /\ req \in [Req -> {Idle} \cup Passing \cup Trying \cup Ending]
  BY DEF DecidesNow, IInv, TypeOK
<1>2. UNCHANGED req => FALSE
  BY <1>1
<1>3. \A p \in Req : (\E y : req' = [req EXCEPT ![p] = y]) => p = q
  <2> SUFFICES ASSUME NEW p \in Req, NEW y, req' = [req EXCEPT ![p] = y], p # q PROVE FALSE
    OBVIOUS
  <2>1. req'[q] = req[q]
    BY <1>1
  <2> QED BY <1>1, <2>1
<1>4. ASSUME NEW p \in Req, Arrive(p) PROVE FALSE
  <2>1. \E y : req' = [req EXCEPT ![p] = y]
    BY <1>4 DEF Arrive
  <2>2. req[p].phase = "idle" /\ p = q
    BY <1>3, <1>4, <2>1 DEF Arrive
  <2> QED BY <1>1, <2>2
<1>5. ASSUME NEW p \in Req, SetSticky(p) PROVE FALSE
  <2>1. req' = [req EXCEPT ![p] = [req[p] EXCEPT !.phase = "parked", !.park = 0, !.moved = FALSE]]
    BY <1>5 DEF SetSticky
  <2>2. req[p].phase = "decided" /\ p = q
    BY <1>3, <1>5, <2>1 DEF SetSticky
  <2> QED BY <1>1, <2>2
<1>6. ASSUME NEW p \in Req, Reroute(p) PROVE FALSE
  <2>1. PICK chain \in SetToSeqs(Pool(req[p].prof)) :
          req' = [req EXCEPT ![p].phase = "due", ![p].exposed = ReqKey(req[p].route),
                    ![p].chain = chain, ![p].base = req[p].order, ![p].now = clock]
    BY <1>6 DEF Reroute
  <2> DEFINE y == [req[p] EXCEPT !.phase = "due", !.exposed = ReqKey(req[p].route),
                               !.chain = chain, !.base = req[p].order, !.now = clock]
  <2>3. req' = [req EXCEPT ![p] = y]
    BY <2>1
  <2> HIDE DEF y
  <2>2. req[p].phase = "parked" /\ p = q
    BY <1>3, <1>6, <2>3 DEF Reroute
  <2> QED BY <1>1, <2>2
<1>7. ASSUME NEW p \in Req, Plan(p) PROVE FALSE
  <2>1. \E y : req' = [req EXCEPT ![p] = y]
    BY <1>7 DEF Plan
  <2>2. req[p].phase = "parked" /\ p = q
    BY <1>3, <1>7, <2>1 DEF Plan
  <2> QED BY <1>1, <2>2
<1>8. ASSUME NEW p \in Req, Retry(p) PROVE FALSE
  <2>1. req' = [req EXCEPT ![p] = [req[p] EXCEPT !.phase = "due", !.now = clock, !.chain = req[p].targets]]
    BY <1>8 DEF Retry
  <2>2. req[p].phase = "failed" /\ p = q
    BY <1>3, <1>8, <2>1 DEF Retry
  <2> QED BY <1>1, <2>2
<1>9. ASSUME NEW p \in Req, Finish(p) PROVE FALSE
  <2>1. \E y : req' = [req EXCEPT ![p] = y]
    BY <1>9 DEF Finish
  <2>2. req[p].phase \in {"planned", "failed"} /\ p = q
    BY <1>3, <1>9, <2>1 DEF Finish
  <2> QED BY <1>1, <2>2
<1>10. ASSUME NEW p \in Req, RecordLatchOutcome(p) PROVE FALSE
  <2>1. req' = [req EXCEPT ![p] = Idle]
    BY <1>10 DEF RecordLatchOutcome
  <2>2. req[p].phase = "ending" /\ p = q
    BY <1>3, <1>10, <2>1 DEF RecordLatchOutcome
  <2> QED BY <1>1, <2>2
<1>11. ASSUME NEW p \in Req, Decide(p) PROVE Decide(q)
  <2>1. \E y : req' = [req EXCEPT ![p] = y]
    BY <1>11 DEF Decide
  <2> QED BY <1>3, <1>11, <2>1
<1>12. ASSUME Tick \/ Availability \/ Measure \/ SetPin \/ ClearPin \/ SetModelDisabled \/ Reload \/ UNCHANGED vars
       PROVE  FALSE
  BY <1>2, <1>12 DEF Tick, Availability, Measure, SetPin, ClearPin, SetModelDisabled, Reload, Change, Undo, vars
<1> QED BY <1>4, <1>5, <1>6, <1>7, <1>8, <1>9, <1>10, <1>11, <1>12 DEF Next

(* A decision for a session that may follow its binding follows it. *)
LEMMA DecideStays ==
  ASSUME IInv, NEW q \in Req, Decide(q), Follows(q),
         Still(talk[<<req[q].sess, req[q].exposed>>]),
         talk[<<req[q].sess, req[q].exposed>>].prov \in Eligible(req[q])
  PROVE  HeadOf(q) = talk[<<req[q].sess, req[q].exposed>>].prov
<1> DEFINE r == req[q]
           k == <<r.sess, r.exposed>>
           t == talk[k]
           in == Input(r)
           res == DecideOrder(in, State)
           cur == Current(in, State)
<1>1. r.phase = "due" /\ k \in TalkKeys /\ ~r.off
  BY DEF Decide, Follows
<1>2. t.prov # 0 /\ clock - t.since < Dwell /\ t.prov \in Open(in, State)
  BY EligibleIs DEF Still
<1>3. r \in Passing /\ InPass(r) /\ TypeOK
  BY <1>1, SlotIs DEF IInv, Passes
<1>4. k \in Sessions \X Exposed /\ r.sess # NoSession
  BY <1>1, RoutingAssumption DEF TalkKeys, Sessions, Exposed
<1>5. r.now \in Nat /\ r.now <= clock /\ clock \in Nat /\ t.since \in Nat /\ Dwell \in Nat
  BY <1>1, <1>3, ScheduleAssumption DEF Passing, InPass, TypeOK
<1>6. sticky[k].prov = t.prov /\ sticky[k].since = t.since
  <2>1. Follow(k) \/ clock - t.since > Dwell
    BY <1>1, <1>2 DEF IInv, Bindings
  <2>2. ~(clock - t.since > Dwell)
    BY <1>2, <1>5
  <2> QED BY <2>1, <2>2 DEF Follow
<1>7. Swept(in, State)[k] = sticky[k]
  <2>1. Swept(in, State)[k] = sticky[k] \/ r.now - sticky[k].since > Dwell
    BY <1>3, <1>4, SweptIs
  <2>2. ~(r.now - t.since > Dwell)
    BY <1>2, <1>5
  <2> QED BY <1>6, <2>1, <2>2
<1>8. cur = sticky[k]
  BY <1>1, <1>3, <1>7, InputAsked DEF Current, Bound, StickyKey
<1>9. Decision(in, State, res)
  BY <1>3, StateStored, InputAsked, DecideIs
<1>10. in.now = r.now /\ in.sess = r.sess
  BY <1>3, InputAsked
<1>11. r.now - t.since < Dwell
  BY <1>2, <1>5
<1> HIDE DEF cur, in
<1>12. ProviderOf[res.order[1]] = t.prov
  <2>1. cur.prov = t.prov /\ cur.since = t.since
    BY <1>6, <1>8
  <2> QED BY <1>2, <1>4, <1>9, <1>10, <1>11, <2>1 DEF Decision, cur
<1>13. req'[q].order = res.order
  <2>1. req \in [Req -> {Idle} \cup Passing \cup Trying \cup Ending]
    BY <1>3 DEF TypeOK
  <2>2. PICK moved : req' = [req EXCEPT ![q] = [r EXCEPT !.phase = "decided", !.order = res.order, !.park = res.park,
                                              !.moved = moved]]
    BY DEF Decide, in
  <2>3. req'[q] = [r EXCEPT !.phase = "decided", !.order = res.order, !.park = res.park, !.moved = moved]
    BY <2>1, <2>2
  <2> HIDE DEF res
  <2> QED BY <1>3, <2>3 DEF Passing
<1> QED BY <1>12, <1>13 DEF HeadOf

(* A session that comes back within the dwell stays with the provider it    *)
(* was sent to last on the route, while that provider may be chosen: for    *)
(* every number of sessions, routes, targets and overlapping requests.      *)
THEOREM Sticks == Spec => SessionStays
<1>1. IInv /\ [Next]_vars =>
        \A q \in Req :
          DecidesNow(q) /\ Follows(q) =>
            LET t == talk[<<req[q].sess, req[q].exposed>>]
            IN Still(t) /\ t.prov \in Eligible(req[q]) => HeadOf(q) = t.prov
  BY OnlyDecide, DecideStays
<1> QED BY <1>1, Invariance, PTL DEF Spec, SessionStays

(* A session is escalated only by as many bad runs in a row as the policy   *)
(* asks for, within its dwell: for every number of sessions, routes and     *)
(* overlapping requests, and however late an outcome is recorded.           *)
THEOREM Earns == Spec => EscalationEarned
<1>1. IInv /\ [Next]_vars => \A k \in LatchKeys : latch'[k].on /\ ~latch[k].on => Earned(bads'[k])
  <2> SUFFICES ASSUME IInv, [Next]_vars PROVE \A k \in LatchKeys : latch'[k].on /\ ~latch[k].on => Earned(bads'[k])
    OBVIOUS
  <2>1. ASSUME NEW q \in Req, RecordLatchOutcome(q)
        PROVE  \A k \in LatchKeys : latch'[k].on /\ ~latch[k].on => Earned(bads'[k])
    BY <2>1, LatchStreaks
  <2>2. ASSUME NEW q \in Req, Arrive(q) \/ Decide(q) \/ SetSticky(q) \/ Reroute(q) \/ Plan(q) \/ Retry(q) \/ Finish(q)
        PROVE  UNCHANGED latch
    BY <2>2 DEF Arrive, Decide, SetSticky, Reroute, Plan, Retry, Finish, manager
  <2>3. ASSUME Tick \/ Availability \/ Measure \/ SetPin \/ ClearPin \/ SetModelDisabled \/ UNCHANGED vars
        PROVE  UNCHANGED latch
    BY <2>3 DEF Tick, Availability, Measure, SetPin, ClearPin, SetModelDisabled, Steady, vars, manager
  <2>4. CASE Reload
    <3>1. \A k \in LatchKeys : ~latch'[k].on
      BY <2>4 DEF Reload, NoLatch
    <3> QED BY <3>1
  <2>5. CASE UNCHANGED latch
    BY <2>5
  <2> QED BY <2>1, <2>2, <2>3, <2>4, <2>5 DEF Next
<1> QED BY <1>1, Invariance, PTL DEF Spec, EscalationEarned

(***************************************************************************)
(* The policy keeps targets.                                               *)
(***************************************************************************)
(* The loop of FlattenSeq: the first i sequences in a row. *)
Flattened(s, n, f) == f = [i \in 1 .. n |-> IF i = 1 THEN s[i] ELSE f[i - 1] \o s[i]]

(* The loop has a result. *)
LEMMA FlattenedExists ==
  ASSUME NEW s, NEW m \in Nat
  PROVE  \E f : Flattened(s, m + 1, f)
<1> DEFINE G == {n \in 0 .. m : \E f : Flattened(s, n + 1, f)}
<1>1. 0 \in G
  <2> DEFINE f == [i \in 1 .. 0 + 1 |-> s[i]]
  <2>1. f = [i \in 1 .. 0 + 1 |-> IF i = 1 THEN s[i] ELSE f[i - 1] \o s[i]]
    OBVIOUS
  <2>2. 0 \in 0 .. m
    OBVIOUS
  <2> HIDE DEF f
  <2> QED BY <2>1, <2>2 DEF Flattened
<1>2. ASSUME NEW n \in 0 .. m - 1, n \in G PROVE n + 1 \in G
  <2>1. PICK f : Flattened(s, n + 1, f)
    BY <1>2
  <2> DEFINE v == n + 2
             g == [i \in 1 .. v |-> IF i = v THEN f[i - 1] \o s[i] ELSE f[i]]
  <2>2. \A i \in 1 .. n + 1 : g[i] = f[i]
    OBVIOUS
  <2>3. ASSUME NEW i \in 1 .. v PROVE g[i] = IF i = 1 THEN s[i] ELSE g[i - 1] \o s[i]
    <3>1. CASE i = 1
      <4>1. 1 \in 1 .. n + 1
        OBVIOUS
      <4>2. f[1] = s[1]
        BY <2>1, <4>1 DEF Flattened
      <4> QED BY <2>2, <3>1, <4>1, <4>2
    <3>2. CASE i \in 2 .. n + 1
      <4>1. i \in 1 .. n + 1 /\ i # 1 /\ i - 1 \in 1 .. n + 1
        BY <3>2
      <4>2. f[i] = f[i - 1] \o s[i]
        BY <2>1, <4>1 DEF Flattened
      <4>3. g[i - 1] = f[i - 1] /\ g[i] = f[i]
        BY <2>2, <4>1
      <4> QED BY <4>1, <4>2, <4>3
    <3>3. CASE i = v
      <4>1. i - 1 \in 1 .. n + 1 /\ i # 1
        BY <3>3
      <4>2. g[i - 1] = f[i - 1] /\ g[i] = f[i - 1] \o s[i]
        BY <2>2, <3>3, <4>1
      <4> QED BY <4>1, <4>2
    <3> QED BY <3>1, <3>2, <3>3
  <2>4. g = [i \in 1 .. v |-> IF i = 1 THEN s[i] ELSE g[i - 1] \o s[i]]
    <3>1. g = [i \in 1 .. v |-> g[i]]
      OBVIOUS
    <3> HIDE DEF g
    <3> QED BY <2>3, <3>1
  <2> HIDE DEF g
  <2>5. n + 1 \in 0 .. m /\ v = (n + 1) + 1
    OBVIOUS
  <2>6. Flattened(s, (n + 1) + 1, g)
    BY <2>4, <2>5 DEF Flattened
  <2> QED BY <2>5, <2>6
<1> HIDE DEF G
<1>3. m \in G
  <2>1. \A n \in 0 .. m : n \in G
    BY <1>1, <1>2, Counting
  <2> QED BY <2>1
<1> QED BY <1>3 DEF G

(* Sequences in a row hold the members of the first. *)
LEMMA FlattenMembers ==
  ASSUME NEW T, NEW s \in Seq(Seq(T))
  PROVE  /\ FlattenSeq(s) \in Seq(T)
         /\ s # <<>> => ToSet(s[1]) \subseteq ToSet(FlattenSeq(s))
<1>1. Len(s) \in Nat /\ \A i \in 1 .. Len(s) : s[i] \in Seq(T)
  OBVIOUS
<1>2. CASE Len(s) = 0
  <2>1. s = <<>> /\ FlattenSeq(s) = <<>>
    BY <1>2 DEF FlattenSeq
  <2>2. <<>> \in Seq(T)
    OBVIOUS
  <2>3. FlattenSeq(s) \in Seq(T)
    BY <2>1, <2>2
  <2> QED BY <2>1, <2>3
<1>3. CASE Len(s) # 0
  <2> DEFINE f == CHOOSE g : Flattened(s, Len(s), g)
             m == Len(s) - 1
  <2>1. m \in Nat /\ Len(s) = m + 1
    BY <1>1, <1>3
  <2>2. \E g : Flattened(s, Len(s), g)
    <3> HIDE DEF m
    <3>1. \E g : Flattened(s, m + 1, g)
      BY <2>1, FlattenedExists
    <3> QED BY <2>1, <3>1
  <2>3. Flattened(s, Len(s), f)
    BY <2>2
  <2>4. FlattenSeq(s) = f[Len(s)]
    BY <1>3 DEF FlattenSeq, Flattened
  <2> HIDE DEF f, m
  <2>5. \A i \in 1 .. Len(s) : f[i] = IF i = 1 THEN s[i] ELSE f[i - 1] \o s[i]
    BY <2>3 DEF Flattened
  <2> DEFINE G == {i \in 0 .. m : f[i + 1] \in Seq(T) /\ ToSet(s[1]) \subseteq ToSet(f[i + 1])}
  <2>6. 0 \in G
    <3>1. 0 \in 0 .. m /\ 0 + 1 = 1 /\ 1 \in 1 .. Len(s)
      BY <2>1
    <3>2. f[0 + 1] = s[1] /\ s[1] \in Seq(T)
      BY <1>1, <2>5, <3>1
    <3> QED BY <3>1, <3>2
  <2>7. ASSUME NEW i \in 0 .. m - 1, i \in G PROVE i + 1 \in G
    <3> DEFINE a == f[i + 1]
               b == s[i + 2]
    <3>1. i + 1 \in 0 .. m /\ (i + 1) + 1 \in 1 .. Len(s) /\ (i + 1) + 1 # 1 /\ ((i + 1) + 1) - 1 = i + 1
          /\ (i + 1) + 1 = i + 2
      BY <2>1
    <3>2. f[(i + 1) + 1] = a \o b
      BY <2>5, <3>1
    <3>3. a \in Seq(T) /\ b \in Seq(T) /\ ToSet(s[1]) \subseteq ToSet(a)
      BY <1>1, <2>7, <3>1
    <3> HIDE DEF a, b
    <3>4. a \o b \in Seq(T) /\ ToSet(a \o b) = ToSet(a) \cup ToSet(b)
      BY <3>3, ConcatMembers
    <3>5. f[(i + 1) + 1] \in Seq(T) /\ ToSet(s[1]) \subseteq ToSet(f[(i + 1) + 1])
      BY <3>2, <3>3, <3>4
    <3> QED BY <3>1, <3>5
  <2> HIDE DEF G
  <2>8. \A i \in 0 .. m : i \in G
    BY <2>1, <2>6, <2>7, Counting
  <2>9. m \in 0 .. m
    BY <2>1
  <2> QED BY <2>1, <2>4, <2>8, <2>9 DEF G
<1> QED BY <1>2, <1>3

(* A sequence has a target that fits. *)
HasFit(s, fit) == \E i \in 1 .. Len(s) : s[i] \in fit

(* So says its set of members. *)
LEMMA HasFitIs ==
  ASSUME NEW s \in Seq(Target), NEW fit
  PROVE  HasFit(s, fit) <=> ToSet(s) \cap fit # {}
<1>1. DOMAIN s = 1 .. Len(s)
  OBVIOUS
<1> QED BY <1>1 DEF HasFit, ToSet

(* What comes first in a row keeps its targets. *)
LEMMA FirstFits ==
  ASSUME NEW a \in Seq(Target), NEW b \in Seq(Target), NEW fit, ToSet(a) \cap fit # {}
  PROVE  HasFit(a \o b, fit)
<1>1. a \o b \in Seq(Target) /\ ToSet(a \o b) = ToSet(a) \cup ToSet(b)
  BY ConcatMembers
<1> DEFINE c == a \o b
<1> HIDE DEF c
<1>2. c \in Seq(Target) /\ ToSet(c) \cap fit # {}
  BY <1>1 DEF c
<1>3. HasFit(c, fit)
  BY <1>2, HasFitIs
<1> QED BY <1>3 DEF c

(* Moving a target to the front keeps the members. *)
LEMMA PreferTargetIs ==
  ASSUME NEW s \in Seq(Target), s # <<>>, NEW want
  PROVE  LET p == PreferTarget(s, want)
         IN p \in Seq(Target) /\ p # <<>> /\ ToSet(p) \subseteq ToSet(s)
<1> DEFINE I == {i \in 1 .. Len(s) : s[i] \in want}
           at == SelectInSeq(s, LAMBDA t : t \in want)
           p == PreferTarget(s, want)
<1>1. at = IF I # {} THEN Min(I) ELSE 0
  BY DEF SelectInSeq
<1>2. p = IF at = 0 THEN s ELSE <<s[at]>> \o RemoveAt(s, at)
  BY DEF PreferTarget
<1> HIDE DEF p, at
<1>3. CASE at = 0
  BY <1>2, <1>3 DEF p
<1>4. CASE at # 0
  <2>1. at \in I
    <3>1. I \in SUBSET Nat /\ I # {}
      BY <1>1, <1>4
    <3> HIDE DEF I
    <3> QED BY <1>1, <3>1, MinIsLeast
  <2>2. at \in 1 .. Len(s) /\ Len(s) \in Nat
    BY <2>1
  <2> DEFINE a == SubSeq(s, 1, at - 1)
             b == SubSeq(s, at + 1, Len(s))
             e == s[at]
  <2>3. 1 \in 1 .. Len(s) + 1 /\ at - 1 \in 0 .. Len(s) /\ at + 1 \in 1 .. Len(s) + 1 /\ Len(s) \in 0 .. Len(s)
    BY <2>2
  <2>4. a \in Seq(Target) /\ ToSet(a) \subseteq ToSet(s)
    BY <2>3, SubSeqMembers
  <2>5. b \in Seq(Target) /\ ToSet(b) \subseteq ToSet(s)
    BY <2>3, SubSeqMembers
  <2>6. e \in Target /\ e \in ToSet(s)
    BY <2>2 DEF ToSet
  <2>7. p = <<e>> \o (a \o b)
    BY <1>2, <1>4 DEF RemoveAt
  <2> HIDE DEF a, b, e
  <2>8. a \o b \in Seq(Target) /\ ToSet(a \o b) = ToSet(a) \cup ToSet(b)
    BY <2>4, <2>5, ConcatMembers
  <2> DEFINE c == a \o b
  <2> HIDE DEF c
  <2>9. c \in Seq(Target) /\ ToSet(c) \subseteq ToSet(s) /\ p = <<e>> \o c
    BY <2>4, <2>5, <2>7, <2>8 DEF c
  <2>10. p \in Seq(Target) /\ p # <<>> /\ ToSet(p) = {e} \cup ToSet(c)
    BY <2>6, <2>9, ConsIs
  <2>11. ToSet(p) \subseteq ToSet(s)
    BY <2>6, <2>9, <2>10
  <2> QED BY <2>10, <2>11 DEF p
<1> QED BY <1>3, <1>4

(* The policy of a route without grades. *)
LEMMA TargetPolicyFits ==
  ASSUME NEW s \in Seq(Target), s # <<>>, NEW fit, ToSet(s) \subseteq fit, NEW latched, NEW band, NEW choice
  PROVE  HasFit(TargetPolicy(s, latched, band, choice), fit)
<1>1. ASSUME NEW p \in Seq(Target), p # <<>>, ToSet(p) \subseteq ToSet(s) PROVE HasFit(p, fit)
  <2>1. 1 \in 1 .. Len(p)
    BY <1>1
  <2>2. p[1] \in ToSet(p)
    BY <1>1, <2>1 DEF ToSet
  <2> QED BY <1>1, <2>1, <2>2 DEF HasFit
<1> DEFINE l == PreferTarget(s, latched)
           b == PreferTarget(s, band)
           c == PreferTarget(b, choice)
<1>2. l \in Seq(Target) /\ l # <<>> /\ ToSet(l) \subseteq ToSet(s)
  BY PreferTargetIs
<1>3. b \in Seq(Target) /\ b # <<>> /\ ToSet(b) \subseteq ToSet(s)
  BY PreferTargetIs
<1>4. TargetPolicy(s, latched, band, choice) = l \/ TargetPolicy(s, latched, band, choice) = c
  BY DEF TargetPolicy
<1> HIDE DEF l, b
<1>5. c \in Seq(Target) /\ c # <<>> /\ ToSet(c) \subseteq ToSet(b)
  BY <1>3, PreferTargetIs
<1> HIDE DEF c
<1>6. ToSet(c) \subseteq ToSet(s)
  BY <1>3, <1>5
<1> QED BY <1>1, <1>2, <1>4, <1>5, <1>6

(* Groups in a row are targets, those of the first group among them. *)
LEMMA JoinedIs ==
  ASSUME NEW g, Len(g) \in Nat, \A k \in 1 .. Len(g) : g[k].targets \in Seq(Target)
  PROVE  /\ Joined(g) \in Seq(Target)
         /\ Len(g) # 0 => ToSet(g[1].targets) \subseteq ToSet(Joined(g))
<1> DEFINE S == Seq(Target)
           s == [k \in 1 .. Len(g) |-> g[k].targets]
<1>1. s \in [1 .. Len(g) -> S]
  OBVIOUS
<1>2. Joined(g) = FlattenSeq(s)
  BY DEF Joined
<1>3. Len(g) # 0 => s[1] = g[1].targets
  OBVIOUS
<1> HIDE DEF S, s
<1>4. s \in Seq(S) /\ Len(s) = Len(g)
  BY <1>1, IsASeq
<1>5. Len(g) # 0 => s # <<>>
  BY <1>4
<1>6. FlattenSeq(s) \in Seq(Target) /\ (s # <<>> => ToSet(s[1]) \subseteq ToSet(FlattenSeq(s)))
  BY <1>4, FlattenMembers DEF S
<1> QED BY <1>2, <1>3, <1>5, <1>6

(* The selected grade comes first, or all grades in their order. *)
LEMMA BuildFits ==
  ASSUME NEW G, G = [name : Grades, targets : Seq(Target)], NEW g \in Seq(G), g # <<>>, NEW fit,
         \A k \in 1 .. Len(g) : ToSet(g[k].targets) \cap fit # {},
         NEW ungraded \in Seq(Target), NEW selected, NEW fallback
  PROVE  HasFit(BuildGradeOrdered(selected, g, ungraded, fallback), fit)
<1> DEFINE I == {i \in 1 .. Len(g) : g[i].name = selected}
           at == SelectInSeq(g, LAMBDA x : x.name = selected)
           last == IF fallback = "next_grade" /\ at < Len(g) THEN at + 1 ELSE Len(g)
           after == SubSeq(g, at + 1, last)
           all == Joined(g)
           more == IF fallback = "strict" THEN <<>> ELSE Joined(after) \o ungraded
<1>1. at = IF I # {} THEN Min(I) ELSE 0
  BY DEF SelectInSeq
<1>2. BuildGradeOrdered(selected, g, ungraded, fallback) =
        IF at = 0 THEN all \o ungraded ELSE g[at].targets \o more
  BY DEF BuildGradeOrdered
<1>3. Len(g) \in Nat /\ Len(g) # 0 /\ 1 \in 1 .. Len(g)
  OBVIOUS
<1>4. \A x \in G : x.targets \in Seq(Target)
  OBVIOUS
<1>5. \A k \in 1 .. Len(g) : g[k].targets \in Seq(Target)
  BY <1>4, ElementOfSeq
<1> HIDE DEF at
<1>6. CASE at = 0
  <2>1. all \in Seq(Target) /\ ToSet(g[1].targets) \subseteq ToSet(all)
    BY <1>3, <1>5, JoinedIs
  <2> HIDE DEF all
  <2>2. ToSet(all) \cap fit # {}
    BY <1>3, <2>1
  <2>3. HasFit(all \o ungraded, fit)
    BY <2>1, <2>2, FirstFits
  <2> QED BY <1>2, <1>6, <2>3
<1>7. CASE at # 0
  <2>1. at \in 1 .. Len(g)
    <3>1. I \in SUBSET Nat /\ I # {} /\ I \subseteq 1 .. Len(g)
      BY <1>1, <1>7
    <3> HIDE DEF I
    <3>2. at \in I
      BY <1>1, <3>1, MinIsLeast
    <3> QED BY <3>1, <3>2
  <2>2. at + 1 \in 1 .. Len(g) + 1 /\ last \in 0 .. Len(g)
    BY <1>3, <2>1
  <2> HIDE DEF last
  <2>3. after \in Seq(G)
    BY <2>2, SubSeqMembers
  <2> HIDE DEF after
  <2>4. Len(after) \in Nat /\ \A k \in 1 .. Len(after) : after[k].targets \in Seq(Target)
    <3>1. Len(after) \in Nat
      BY <2>3
    <3>2. \A k \in 1 .. Len(after) : after[k] \in G
      BY <2>3, ElementOfSeq
    <3> QED BY <1>4, <3>1, <3>2
  <2> DEFINE j == Joined(after)
  <2>5. j \in Seq(Target)
    BY <2>4, JoinedIs
  <2> HIDE DEF j
  <2>6. j \o ungraded \in Seq(Target) /\ <<>> \in Seq(Target)
    BY <2>5
  <2>7. more \in Seq(Target)
    BY <2>6 DEF j
  <2> HIDE DEF more
  <2> DEFINE own == g[at].targets
  <2>8. own \in Seq(Target) /\ ToSet(own) \cap fit # {}
    BY <1>5, <2>1
  <2> HIDE DEF own
  <2>9. HasFit(own \o more, fit)
    BY <2>7, <2>8, FirstFits
  <2> QED BY <1>2, <1>7, <2>9 DEF own
<1> QED BY <1>6, <1>7

(* The policy of a route with grades. *)
LEMMA GradePolicyFits ==
  ASSUME NEW s \in Seq(Target), s # <<>>, NEW fit, ToSet(s) \subseteq fit,
         NEW latched, NEW band, NEW choice, NEW fallback
  PROVE  HasFit(GradePolicy(s, fit, latched, band, choice, fallback), fit)
<1> DEFINE g == Groups(s, fit)
           G == [name : Grades, targets : Seq(Target)]
           live == IF HasTargets(g, latched) THEN latched ELSE NoGrade
           sel == SelectGrade(live, choice, band)
           ungraded == InGrade(s, NoGrade)
<1>1. GradePolicy(s, fit, latched, band, choice, fallback) =
        IF g = <<>> THEN s ELSE BuildGradeOrdered(sel, g, ungraded, fallback)
  BY DEF GradePolicy
<1>2. /\ Len(g) \in Nat /\ g \in Seq(G)
      /\ \A k \in 1 .. Len(g) : ToSet(g[k].targets) \subseteq ToSet(s) \cap fit /\ ToSet(g[k].targets) # {}
  BY GroupsAre
<1>3. ungraded \in Seq(Target)
  <2> DEFINE S == {t \in ToSet(s) : GradeOf[t] = NoGrade}
  <2>1. ungraded = Keep(s, S)
    BY DEF InGrade
  <2> HIDE DEF S, ungraded
  <2> QED BY <2>1, KeepMembers
<1>4. G = [name : Grades, targets : Seq(Target)]
  OBVIOUS
<1> HIDE DEF g, G, sel, ungraded
<1>5. CASE g = <<>>
  <2>1. 1 \in 1 .. Len(s)
    OBVIOUS
  <2>2. s[1] \in ToSet(s)
    BY <2>1 DEF ToSet
  <2> QED BY <1>1, <1>5, <2>1, <2>2 DEF HasFit
<1>6. CASE g # <<>>
  <2>1. \A k \in 1 .. Len(g) : ToSet(g[k].targets) \cap fit # {}
    BY <1>2
  <2>2. HasFit(BuildGradeOrdered(sel, g, ungraded, fallback), fit)
    BY <1>2, <1>3, <1>4, <1>6, <2>1, BuildFits
  <2> QED BY <1>1, <1>6, <2>2
<1> QED BY <1>5, <1>6

(* Fitting an order and applying the policy never lose the last target that *)
(* fits the request, whatever the latch, the choice, the band and the       *)
(* fallback mode: for every number of targets, grades and routes.           *)
THEOREM PolicyKeeps == Spec => []PolicyKeepsTargets
<1>1. IInv => PolicyKeepsTargets
  <2> SUFFICES ASSUME IInv, NEW q \in Req, req[q].phase = "parked", req[q].prof.cat, ~Rerouting(req[q]),
                      HasFit(Applied(req[q]), req[q].prof.fit),
                      NEW c \in Selected(req[q], Applied(req[q])), NEW f \in Fallbacks
               PROVE  HasFit(Planned(req[q], Applied(req[q]), c, f), req[q].prof.fit)
    BY DEF PolicyKeepsTargets, HasFit
  <2> DEFINE r == req[q]
             s == Applied(r)
             fit == r.prof.fit
  <2>1. r \in Passing /\ InPass(r)
    BY SlotIs DEF IInv, Passes
  <2>2. s \in Seq(Target)
    BY <2>1, AppliedIs
  <2>3. HasFit(s, fit)
    OBVIOUS
  <2>4. ToSet(s) \cap fit # {}
    <3> HIDE DEF s, fit
    <3> QED BY <2>2, <2>3, HasFitIs
  <2>5. ~r.force => ToSet(s) \subseteq fit
    BY <2>1, <2>4, AppliedIs
  <2> DEFINE latched == Latched(r, s)
             p == Planned(r, s, c, f)
  <2>6. /\ r.force => p = s
        /\ ~r.force /\ r.route \in Graded =>
             p = GradePolicy(s, fit, IF latched THEN Strong ELSE NoGrade, r.prof.band, c.grade, f)
        /\ ~r.force /\ r.route \notin Graded =>
             p = TargetPolicy(s, IF latched THEN WantOf(Strong) ELSE {}, WantOf(r.prof.band), c.targets)
    BY DEF Planned
  <2>7. s # <<>>
    BY <2>3 DEF HasFit
  <2> HIDE DEF s, fit, p, latched
  <2>8. CASE r.force
    BY <2>3, <2>6, <2>8 DEF p, s, fit
  <2>9. CASE ~r.force /\ r.route \in Graded
    <3>1. HasFit(GradePolicy(s, fit, IF latched THEN Strong ELSE NoGrade, r.prof.band, c.grade, f), fit)
      BY <2>2, <2>5, <2>7, <2>9, GradePolicyFits
    <3> QED BY <2>6, <2>9, <3>1 DEF p, s, fit
  <2>10. CASE ~r.force /\ r.route \notin Graded
    <3>1. HasFit(TargetPolicy(s, IF latched THEN WantOf(Strong) ELSE {}, WantOf(r.prof.band), c.targets), fit)
      BY <2>2, <2>5, <2>7, <2>10, TargetPolicyFits
    <3> QED BY <2>6, <2>10, <3>1 DEF p, s, fit
  <2> QED BY <2>8, <2>9, <2>10
<1> QED BY <1>1, Invariance, PTL

=============================================================================
