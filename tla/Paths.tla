-------------------------------- MODULE Paths -------------------------------
(***************************************************************************)
(* Lemmas that no module of the code owns: on what pointers lead through,  *)
(* for the modules of linked lists (the recursive functions that follow    *)
(* pointers, and what an insertion, a deletion, a splice or a cut does to a *)
(* chain of pointers), and on the sums that a fold computes.               *)
(***************************************************************************)
EXTENDS Integers, SequencesExt, FiniteSetTheorems, WellFoundedInduction, TLAPS

-----------------------------------------------------------------------------
(* Paths: functions that recursion along pointers defines.                 *)

\* a non-empty set of numbers has a least element
LEMMA Least ==
  ASSUME NEW T \in SUBSET Nat, T # {}
  PROVE  \E m \in T : \A k \in T : m <= k
<1> DEFINE R == OpToRel(<, Nat)
<1>1. IsWellFoundedOn(R, Nat) BY NatLessThanWellFounded
<1>2. \A x, y \in Nat : x < y => <<x, y>> \in R
  BY DEF OpToRel
<1> HIDE DEF R
<1>3. PICK m \in T : \A k \in T : ~(<<k, m>> \in R)
  BY <1>1, WFMin
<1>4. ASSUME NEW k \in T PROVE m <= k
  <2>1. k \in Nat /\ m \in Nat OBVIOUS
  <2>2. ~(k < m) BY <2>1, <1>2, <1>3
  <2> QED BY <2>1, <2>2
<1> QED BY <1>4

\* f visits, one after the other, n elements from start on
Follows(f, n, start, nx) == f = [i \in 1..n |-> IF i = 1 THEN start ELSE nx[f[i - 1]]]

\* the path of n elements that a recursive function along nx defines
Path(n, start, nx) == LET p[i \in 1..n] == IF i = 1 THEN start ELSE nx[p[i - 1]]
                      IN  p

\* what it is to follow a path, index by index
LEMMA FollowsAre ==
  ASSUME NEW n \in Nat, NEW f, NEW start, NEW nx
  PROVE  Follows(f, n, start, nx)
           <=> /\ f = [i \in 1..n |-> f[i]]
               /\ \A i \in 1..n : f[i] = IF i = 1 THEN start ELSE nx[f[i - 1]]
<1>1. ASSUME Follows(f, n, start, nx)
      PROVE  /\ f = [i \in 1..n |-> f[i]]
             /\ \A i \in 1..n : f[i] = IF i = 1 THEN start ELSE nx[f[i - 1]]
  BY <1>1, Zenon DEF Follows
<1>2. ASSUME /\ f = [i \in 1..n |-> f[i]]
             /\ \A i \in 1..n : f[i] = IF i = 1 THEN start ELSE nx[f[i - 1]]
      PROVE  Follows(f, n, start, nx)
  BY <1>2 DEF Follows
<1> QED BY <1>1, <1>2

\* two paths of the same length from the same element are one
LEMMA OnePath ==
  ASSUME NEW n \in Nat, NEW start, NEW nx, NEW f, NEW g,
         Follows(f, n, start, nx), Follows(g, n, start, nx)
  PROVE  f = g
<1>1. /\ f = [i \in 1..n |-> f[i]] /\ g = [i \in 1..n |-> g[i]]
      /\ \A i \in 1..n : f[i] = IF i = 1 THEN start ELSE nx[f[i - 1]]
      /\ \A i \in 1..n : g[i] = IF i = 1 THEN start ELSE nx[g[i - 1]]
  BY FollowsAre
<1> DEFINE T == {i \in 1..n : f[i] # g[i]}
<1>2. ASSUME T # {} PROVE FALSE
  <2>1. T \in SUBSET Nat OBVIOUS
  <2>2. PICK m \in T : \A k \in T : m <= k
    <3> HIDE DEF T
    <3> QED BY <1>2, <2>1, Least
  <2>3. m \in 1..n /\ f[m] # g[m] OBVIOUS
  <2>4. m # 1 BY <1>1, <2>3
  <2>5. m - 1 \in 1..n /\ ~(m <= m - 1) BY <2>3, <2>4
  <2>6. f[m - 1] = g[m - 1] BY <2>2, <2>5
  <2> QED BY <1>1, <2>3, <2>4, <2>6
<1>3. \A i \in 1..n : f[i] = g[i] BY <1>2
<1> QED BY <1>1, <1>3

\* there is a path of any length
LEMMA SomePath ==
  ASSUME NEW n \in Nat, NEW S, NEW start \in S, NEW nx \in [S -> S]
  PROVE  \E f \in [1..n -> S] : Follows(f, n, start, nx)
<1> DEFINE T == {k \in Nat : ~\E f \in [1..k -> S] : Follows(f, k, start, nx)}
<1>1. ASSUME T # {} PROVE FALSE
  <2>1. PICK m \in T : \A k \in T : m <= k
    <3>1. T \in SUBSET Nat OBVIOUS
    <3> HIDE DEF T
    <3> QED BY <1>1, <3>1, Least
  <2>2. m \in Nat /\ ~\E f \in [1..m -> S] : Follows(f, m, start, nx) OBVIOUS
  <2>3. m # 0
    <3> DEFINE none == [i \in 1..0 |-> start]
    <3>1. none \in [1..0 -> S] OBVIOUS
    <3>2. none = [i \in 1..0 |-> none[i]] /\ 1..0 = {} OBVIOUS
    <3> HIDE DEF none
    <3>3. Follows(none, 0, start, nx) BY <3>2, FollowsAre
    <3> QED BY <2>2, <3>1, <3>3
  <2>4. PICK l \in Nat : l = m - 1 /\ ~(m <= l) BY <2>2, <2>3
  <2>5. PICK f \in [1..l -> S] : Follows(f, l, start, nx) BY <2>1, <2>4
  <2>6. \A i \in 1..l : f[i] = IF i = 1 THEN start ELSE nx[f[i - 1]]
    BY <2>5, FollowsAre
  <2> DEFINE g == [i \in 1..m |-> IF i = 1 THEN start ELSE nx[f[i - 1]]]
  <2>7. \A i \in 1..m : g[i] = IF i = 1 THEN start ELSE nx[f[i - 1]] OBVIOUS
  <2>8. g = [i \in 1..m |-> g[i]] BY Zenon
  <2>9. \A i \in 1..m : i # 1 => i - 1 \in 1..l /\ i - 1 \in 1..m
    BY <2>2, <2>4
  <2>10. g \in [1..m -> S] BY <2>9
  <2> HIDE DEF g
  <2>11. \A i \in 1..l : g[i] = f[i] /\ i \in 1..m BY <2>2, <2>4, <2>6, <2>7
  <2>12. \A i \in 1..m : g[i] = IF i = 1 THEN start ELSE nx[g[i - 1]]
    BY <2>7, <2>9, <2>11
  <2>13. Follows(g, m, start, nx) BY <2>2, <2>8, <2>12, FollowsAre
  <2> QED BY <2>2, <2>10, <2>13
<1> QED BY <1>1

\* the recursive definition is the path there is
LEMMA PathIs ==
  ASSUME NEW n \in Nat, NEW start, NEW nx, NEW f, Follows(f, n, start, nx)
  PROVE  Path(n, start, nx) = f
<1> DEFINE p[i \in 1..n] == IF i = 1 THEN start ELSE nx[p[i - 1]]
<1>1. p = [i \in 1..n |-> IF i = 1 THEN start ELSE nx[p[i - 1]]] BY DEF Follows
<1>2. Path(n, start, nx) = p BY Zenon DEF Path
<1> HIDE DEF p
<1>3. Follows(p, n, start, nx) BY <1>1, Zenon DEF Follows
<1>4. p = f BY <1>3, OnePath
<1> QED BY <1>2, <1>4
-----------------------------------------------------------------------------
(* Sequences.                                                              *)

\* sequences of one length that agree everywhere are one
LEMMA SeqEqual ==
  ASSUME NEW S, NEW s \in Seq(S), NEW t \in Seq(S), Len(s) = Len(t),
         \A i \in 1..Len(s) : s[i] = t[i]
  PROVE  s = t
OBVIOUS

\* the elements of Append
LEMMA AppendIs ==
  ASSUME NEW S, NEW q \in Seq(S), NEW e \in S
  PROVE  q \o <<e>> = Append(q, e)
OBVIOUS

\* t is front, and then back
Joins(t, front, back) ==
  /\ Len(t) = Len(front) + Len(back)
  /\ \A j \in 1..Len(front) : t[j] = front[j]
  /\ \A j \in 1..Len(back) : t[Len(front) + j] = back[j]

\* the elements of a concatenation
LEMMA Joined ==
  ASSUME NEW S, NEW front \in Seq(S), NEW back \in Seq(S)
  PROVE  front \o back \in Seq(S) /\ Joins(front \o back, front, back)
BY DEF Joins

\* t is s with e after the i-th element
Inserted(t, s, i, e) ==
  /\ Len(t) = Len(s) + 1
  /\ \A j \in 1..(Len(s) + 1) : t[j] = IF j <= i THEN s[j]
                                      ELSE IF j = i + 1 THEN e ELSE s[j - 1]

\* t is s without the i-th element
Removed(t, s, i) ==
  /\ Len(t) = Len(s) - 1
  /\ \A j \in 1..(Len(s) - 1) : t[j] = IF j < i THEN s[j] ELSE s[j + 1]

\* InsertAt, index by index
LEMMA InsertAtIs ==
  ASSUME NEW S, NEW s \in Seq(S), NEW i \in 0..Len(s), NEW e \in S,
         NEW t, t = InsertAt(s, i + 1, e)
  PROVE  t \in Seq(S) /\ Inserted(t, s, i, e)
<1>1. PICK n \in Nat : n = Len(s) /\ i \in 0..n OBVIOUS
<1>2. PICK k \in Int : k = i + 1 /\ k - 1 = i BY <1>1
<1>3. PICK front : front = SubSeq(s, 1, i) OBVIOUS
<1>4. PICK back : back = SubSeq(s, k, Len(s)) OBVIOUS
<1>5. t = (front \o <<e>>) \o back BY <1>2, <1>3, <1>4 DEF InsertAt
<1>6. front \in Seq(S) /\ Len(front) = i /\ \A j \in 1..i : front[j] = s[j]
  BY <1>1, <1>3
<1>7. /\ back \in Seq(S) /\ Len(back) = n - i
      /\ \A j \in 1..(n - i) : back[j] = s[i + j]
  BY <1>1, <1>2, <1>4
<1>8. PICK new : new = Append(front, e) OBVIOUS
<1>9. t = new \o back BY <1>5, <1>6, <1>8
<1>10. /\ new \in Seq(S) /\ Len(new) = i + 1
       /\ \A j \in 1..(i + 1) : new[j] = IF j = i + 1 THEN e ELSE s[j]
  BY <1>1, <1>6, <1>8
<1>11. t \in Seq(S) /\ Joins(t, new, back) BY <1>7, <1>9, <1>10, Joined
<1>12. Len(new) = k /\ Len(back) = n - i BY <1>2, <1>7, <1>10
<1>13. /\ Len(t) = k + (n - i)
       /\ \A j \in 1..k : t[j] = new[j]
       /\ \A j \in 1..(n - i) : t[k + j] = back[j]
  BY <1>11, <1>12 DEF Joins
<1>14. ASSUME NEW j \in 1..(n + 1)
       PROVE  t[j] = IF j <= i THEN s[j] ELSE IF j = i + 1 THEN e ELSE s[j - 1]
  <2>1. CASE j <= k
    <3>1. j \in 1..k /\ j \in 1..(i + 1) /\ (j # i + 1 <=> j <= i) BY <1>1, <1>2, <2>1
    <3> QED BY <1>10, <1>13, <3>1
  <2>2. CASE ~(j <= k)
    <3>1. PICK m \in 1..(n - i) : j = k + m /\ j - 1 = i + m /\ ~(j <= i) /\ j # i + 1
      <4>1. j - k \in 1..(n - i) /\ j = k + (j - k) /\ j - 1 = i + (j - k) BY <1>1, <1>2, <2>2
      <4>2. ~(j <= i) /\ j # i + 1 BY <1>1, <1>2, <2>2
      <4> QED BY <4>1, <4>2
    <3> QED BY <1>7, <1>13, <3>1
  <2> QED BY <2>1, <2>2
<1>15. Len(t) = n + 1 BY <1>1, <1>2, <1>13
<1> QED BY <1>1, <1>11, <1>14, <1>15 DEF Inserted

\* RemoveAt, index by index
LEMMA RemoveAtIs ==
  ASSUME NEW S, NEW s \in Seq(S), NEW i \in 1..Len(s), NEW t, t = RemoveAt(s, i)
  PROVE  t \in Seq(S) /\ Removed(t, s, i)
<1>1. PICK n \in Nat : n = Len(s) /\ i \in 1..n OBVIOUS
<1>2. PICK l \in Nat : l = i - 1 BY <1>1
<1>3. PICK front : front = SubSeq(s, 1, l) OBVIOUS
<1>4. PICK back : back = SubSeq(s, i + 1, Len(s)) OBVIOUS
<1>5. t = front \o back BY <1>2, <1>3, <1>4 DEF RemoveAt
<1>6. front \in Seq(S) /\ Len(front) = l /\ \A j \in 1..l : front[j] = s[j]
  BY <1>1, <1>2, <1>3
<1>7. /\ back \in Seq(S) /\ Len(back) = n - i
      /\ \A j \in 1..(n - i) : back[j] = s[i + j]
  BY <1>1, <1>4
<1>8. t \in Seq(S) /\ Joins(t, front, back) BY <1>5, <1>6, <1>7, Joined
<1>9. /\ Len(t) = l + (n - i)
      /\ \A j \in 1..l : t[j] = front[j]
      /\ \A j \in 1..(n - i) : t[l + j] = back[j]
  BY <1>6, <1>7, <1>8 DEF Joins
<1>10. ASSUME NEW j \in 1..(n - 1)
       PROVE  t[j] = IF j < i THEN s[j] ELSE s[j + 1]
  <2>1. CASE j <= l
    <3>1. j \in 1..l /\ j < i BY <1>1, <1>2, <2>1
    <3> QED BY <1>6, <1>9, <3>1
  <2>2. CASE ~(j <= l)
    <3>1. PICK m \in 1..(n - i) : j = l + m /\ j + 1 = i + m /\ ~(j < i)
      <4>1. j - l \in 1..(n - i) /\ j = l + (j - l) /\ j + 1 = i + (j - l) BY <1>1, <1>2, <2>2
      <4>2. ~(j < i) BY <1>1, <1>2, <2>2
      <4> QED BY <4>1, <4>2
    <3> QED BY <1>7, <1>9, <3>1
  <2> QED BY <2>1, <2>2
<1>11. Len(t) = n - 1 BY <1>1, <1>2, <1>9
<1> QED BY <1>1, <1>8, <1>10, <1>11 DEF Removed

-----------------------------------------------------------------------------
(* Chains: what pointers lead through, from a head back to it.             *)

\* the i-th element of s, and the head k before the first and after the last
Place(s, k, i) == IF 1 <= i /\ i <= Len(s) THEN s[i] ELSE k

\* the pointers f lead from k through the elements of s, each once, back to k
Chain(s, k, f) ==
  /\ \A i \in 0..Len(s) : f[Place(s, k, i)] = Place(s, k, i + 1)
  /\ \A i, j \in 1..Len(s) : s[i] = s[j] => i = j
  /\ \A i \in 1..Len(s) : s[i] # k

\* the pointers g are f where they leave the nodes N, but for those of the nodes D
Same(g, f, N, D) == \A x \in N : x \notin D => g[x] = f[x]

\* ToSet, by indices
LEMMA InSet ==
  ASSUME NEW S, NEW s \in Seq(S)
  PROVE  \A x : x \in ToSet(s) <=> \E i \in 1..Len(s) : s[i] = x
BY DEF ToSet

\* no node comes twice in a chain
LEMMA PlacesDiffer ==
  ASSUME NEW S, NEW s \in Seq(S), NEW k, NEW f, Chain(s, k, f)
  PROVE  /\ Len(s) \in Nat
         /\ \A i, j \in 0..Len(s) : Place(s, k, i) = Place(s, k, j) => i = j
         /\ \A i \in 0..Len(s) : Place(s, k, i) \in {k} \cup ToSet(s)
<1>1. Len(s) \in Nat OBVIOUS
<1>2. ASSUME NEW i \in 0..Len(s), NEW j \in 0..Len(s), Place(s, k, i) = Place(s, k, j)
      PROVE  i = j
  <2>1. CASE i = 0 /\ j = 0 BY <2>1
  <2>2. CASE i = 0 /\ j # 0
    <3>1. j \in 1..Len(s) /\ s[j] = k BY <1>1, <1>2, <2>2 DEF Place
    <3> QED BY <3>1 DEF Chain
  <2>3. CASE i # 0 /\ j = 0
    <3>1. i \in 1..Len(s) /\ s[i] = k BY <1>1, <1>2, <2>3 DEF Place
    <3> QED BY <3>1 DEF Chain
  <2>4. CASE i # 0 /\ j # 0
    <3>1. i \in 1..Len(s) /\ j \in 1..Len(s) /\ s[i] = s[j]
      BY <1>1, <1>2, <2>4 DEF Place
    <3> QED BY <3>1 DEF Chain
  <2> QED BY <2>1, <2>2, <2>3, <2>4
<1>3. ASSUME NEW i \in 0..Len(s) PROVE Place(s, k, i) \in {k} \cup ToSet(s)
  <2>1. CASE i = 0 BY <1>1, <2>1 DEF Place
  <2>2. CASE i # 0
    <3>1. i \in 1..Len(s) /\ Place(s, k, i) = s[i] BY <1>1, <2>2 DEF Place
    <3> QED BY <3>1, InSet
  <2> QED BY <2>1, <2>2
<1> QED BY <1>1, <1>2, <1>3

\* every member of a chain is where some other pointer of it leads
LEMMA PlaceOf ==
  ASSUME NEW S, NEW s \in Seq(S), NEW k, NEW f, Chain(s, k, f), NEW x \in {k} \cup ToSet(s)
  PROVE  /\ \E i \in 0..Len(s) : x = Place(s, k, i)
         /\ \E i \in 0..Len(s) : x = Place(s, k, i + 1) /\ f[Place(s, k, i)] = x
         /\ f[x] \in {k} \cup ToSet(s)
<1>1. Len(s) \in Nat OBVIOUS
<1>2. PICK i \in 0..Len(s) : x = Place(s, k, i)
  <2>1. CASE x = k
    <3>1. 0 \in 0..Len(s) /\ Place(s, k, 0) = k BY <1>1 DEF Place
    <3> QED BY <2>1, <3>1
  <2>2. CASE x # k
    <3>1. PICK i \in 1..Len(s) : s[i] = x BY <2>2, InSet
    <3>2. i \in 0..Len(s) /\ Place(s, k, i) = x BY <1>1, <3>1 DEF Place
    <3> QED BY <3>2
  <2> QED BY <2>1, <2>2
<1>3. PICK j \in 0..Len(s) : x = Place(s, k, j + 1)
  <2>1. CASE i = 0
    <3>1. Len(s) \in 0..Len(s) /\ Place(s, k, Len(s) + 1) = k /\ x = k
      BY <1>1, <1>2, <2>1 DEF Place
    <3> QED BY <3>1
  <2>2. CASE i # 0
    <3>1. i - 1 \in 0..Len(s) /\ (i - 1) + 1 = i BY <1>1, <2>2
    <3> QED BY <1>2, <3>1
  <2> QED BY <2>1, <2>2
<1>4. f[Place(s, k, j)] = x BY <1>3 DEF Chain
<1>5. f[x] = Place(s, k, i + 1) BY <1>2 DEF Chain
<1>6. Place(s, k, i + 1) \in {k} \cup ToSet(s)
  <2>1. CASE i = Len(s) BY <1>1, <2>1 DEF Place
  <2>2. CASE i # Len(s)
    <3>1. i + 1 \in 0..Len(s) BY <1>1, <2>2
    <3> QED BY <3>1, PlacesDiffer
  <2> QED BY <2>1, <2>2
<1> QED BY <1>2, <1>3, <1>4, <1>5, <1>6

\* pointers that lead the same way make the same chain
LEMMA ChainSame ==
  ASSUME NEW S, NEW s \in Seq(S), NEW k, NEW f, NEW g, Chain(s, k, f),
         Same(g, f, {k} \cup ToSet(s), {})
  PROVE  Chain(s, k, g)
<1>1. \A i \in 0..Len(s) : g[Place(s, k, i)] = f[Place(s, k, i)]
  BY PlacesDiffer DEF Same
<1> QED BY <1>1 DEF Chain

\* a head that points to itself
LEMMA EmptyChain ==
  ASSUME NEW k, NEW f, f[k] = k
  PROVE  Chain(<<>>, k, f)
<1>1. Len(<<>>) = 0 OBVIOUS
<1>2. Place(<<>>, k, 0) = k /\ Place(<<>>, k, 0 + 1) = k BY <1>1 DEF Place
<1>3. 0..0 = {0} /\ 1..0 = {} OBVIOUS
<1> QED BY <1>1, <1>2, <1>3 DEF Chain

\* an element linked in after p is inserted after p
LEMMA ChainInsert ==
  ASSUME NEW S, NEW s \in Seq(S), NEW k, NEW f, NEW g, Chain(s, k, f),
         NEW i \in 0..Len(s), NEW e \in S, e \notin ToSet(s), e # k,
         g[Place(s, k, i)] = e, g[e] = f[Place(s, k, i)],
         Same(g, f, {k} \cup ToSet(s), {Place(s, k, i)}),
         NEW t, t = InsertAt(s, i + 1, e)
  PROVE  t \in Seq(S) /\ Chain(t, k, g) /\ ToSet(t) = ToSet(s) \cup {e}
<1>1. PICK n \in Nat : n = Len(s) /\ i \in 0..n OBVIOUS
<1>2. t \in Seq(S) /\ Inserted(t, s, i, e) BY InsertAtIs
<1>3. /\ Len(t) = n + 1
      /\ \A j \in 1..(n + 1) : t[j] = IF j <= i THEN s[j]
                                      ELSE IF j = i + 1 THEN e ELSE s[j - 1]
  BY <1>1, <1>2 DEF Inserted
<1>4. \A j \in 0..(n + 2) :
        Place(t, k, j) = IF j <= i THEN Place(s, k, j)
                         ELSE IF j = i + 1 THEN e ELSE Place(s, k, j - 1)
  BY <1>1, <1>3 DEF Place
<1>5. ASSUME NEW j \in 0..n, j # i
      PROVE  g[Place(s, k, j)] = Place(s, k, j + 1)
  <2>1. /\ Place(s, k, j) # Place(s, k, i)
        /\ Place(s, k, j) \in {k} \cup ToSet(s)
    BY <1>1, <1>5, PlacesDiffer
  <2>2. f[Place(s, k, j)] = Place(s, k, j + 1) BY <1>1 DEF Chain
  <2> QED BY <2>1, <2>2 DEF Same
<1>6. g[Place(s, k, i)] = e /\ g[e] = Place(s, k, i + 1)
  BY DEF Chain
<1>7. ASSUME NEW j \in 0..(n + 1) PROVE g[Place(t, k, j)] = Place(t, k, j + 1)
  <2>1. j \in 0..(n + 2) /\ j + 1 \in 0..(n + 2) BY <1>1
  <2>2. CASE j < i
    <3>1. j \in 0..n /\ j # i /\ j <= i /\ j + 1 <= i BY <1>1, <2>2
    <3> QED BY <1>4, <1>5, <2>1, <3>1
  <2>3. CASE j = i
    <3>1. j <= i /\ ~(j + 1 <= i) BY <1>1, <2>3
    <3> QED BY <1>4, <1>6, <2>1, <2>3, <3>1
  <2>4. CASE j = i + 1
    <3>1. ~(j <= i) /\ ~(j + 1 <= i) /\ j + 1 # i + 1 /\ (j + 1) - 1 = i + 1
      BY <1>1, <2>4
    <3>2. Place(t, k, j) = e BY <1>4, <2>1, <2>4, <3>1
    <3>3. Place(t, k, j + 1) = Place(s, k, i + 1) BY <1>4, <2>1, <2>4, <3>1
    <3> QED BY <1>6, <3>2, <3>3
  <2>5. CASE j > i + 1
    <3>1. PICK m \in 0..n : m = j - 1 /\ m # i /\ (j + 1) - 1 = m + 1
      BY <1>1, <2>5
    <3>2. ~(j <= i) /\ j # i + 1 /\ ~(j + 1 <= i) /\ j + 1 # i + 1 BY <1>1, <2>5
    <3>3. Place(t, k, j) = Place(s, k, m) BY <1>4, <2>1, <3>1, <3>2
    <3>4. Place(t, k, j + 1) = Place(s, k, m + 1) BY <1>4, <2>1, <3>1, <3>2
    <3> QED BY <1>5, <3>1, <3>3, <3>4
  <2> QED BY <1>1, <2>2, <2>3, <2>4, <2>5
<1>8. /\ \A j, m \in 1..n : s[j] = s[m] => j = m
      /\ \A j \in 1..n : s[j] # k /\ s[j] # e
  BY <1>1, InSet DEF Chain
<1>9. ASSUME NEW j \in 1..(n + 1) PROVE t[j] # k
  BY <1>1, <1>3, <1>8
<1>10. ASSUME NEW j \in 1..(n + 1), NEW m \in 1..(n + 1), t[j] = t[m] PROVE j = m
  <2>1. CASE j = i + 1
    <3>1. t[j] = e BY <1>1, <1>3, <2>1
    <3> QED BY <1>1, <1>3, <1>8, <1>10, <2>1, <3>1
  <2>2. CASE m = i + 1
    <3>1. t[m] = e BY <1>1, <1>3, <2>2
    <3> QED BY <1>1, <1>3, <1>8, <1>10, <2>2, <3>1
  <2>3. CASE j # i + 1 /\ m # i + 1
    <3>1. PICK a \in 1..n : t[j] = s[a] /\ a = IF j <= i THEN j ELSE j - 1
      BY <1>1, <1>3, <2>3
    <3>2. PICK b \in 1..n : t[m] = s[b] /\ b = IF m <= i THEN m ELSE m - 1
      BY <1>1, <1>3, <2>3
    <3>3. a = b BY <1>8, <1>10, <3>1, <3>2
    <3> QED BY <1>1, <2>3, <3>1, <3>2, <3>3
  <2> QED BY <2>1, <2>2, <2>3
<1>11. ASSUME NEW x PROVE x \in ToSet(t) <=> x \in ToSet(s) \/ x = e
  <2>1. ASSUME x \in ToSet(t) PROVE x \in ToSet(s) \/ x = e
    <3>1. PICK j \in 1..(n + 1) : t[j] = x BY <1>2, <1>3, <2>1, InSet
    <3>2. x = e \/ \E a \in 1..n : s[a] = x BY <1>1, <1>3, <3>1
    <3> QED BY <1>1, <3>2, InSet
  <2>2. ASSUME x \in ToSet(s) PROVE x \in ToSet(t)
    <3>1. PICK a \in 1..n : s[a] = x BY <1>1, <2>2, InSet
    <3>2. \E j \in 1..(n + 1) : t[j] = x
      <4>1. CASE a <= i
        <5>1. a \in 1..(n + 1) /\ t[a] = x BY <1>1, <1>3, <3>1, <4>1
        <5> QED BY <5>1
      <4>2. CASE ~(a <= i)
        <5>1. a + 1 \in 1..(n + 1) /\ t[a + 1] = s[(a + 1) - 1] /\ (a + 1) - 1 = a
          BY <1>1, <1>3, <3>1, <4>2
        <5> QED BY <3>1, <5>1
      <4> QED BY <4>1, <4>2
    <3> QED BY <1>2, <1>3, <3>2, InSet
  <2>3. e \in ToSet(t)
    <3>1. i + 1 \in 1..(n + 1) /\ t[i + 1] = e BY <1>1, <1>3
    <3> QED BY <1>2, <1>3, <3>1, InSet
  <2> QED BY <2>1, <2>2, <2>3
<1>12. ToSet(t) = ToSet(s) \cup {e} BY <1>11
<1>13. Chain(t, k, g) BY <1>3, <1>7, <1>9, <1>10 DEF Chain
<1> QED BY <1>2, <1>12, <1>13

\* d is the i-th element of s, and p what leads to it
Around(s, k, i, p, d) == p = Place(s, k, i - 1) /\ d = s[i]

\* an element led past leaves the chain
LEMMA ChainRemove ==
  ASSUME NEW S, NEW s \in Seq(S), NEW k, NEW f, NEW g, Chain(s, k, f),
         NEW i \in 1..Len(s), NEW p, NEW d, Around(s, k, i, p, d),
         g[p] = f[d], Same(g, f, {k} \cup ToSet(s), {p, d}),
         NEW t, t = RemoveAt(s, i)
  PROVE  t \in Seq(S) /\ Chain(t, k, g) /\ ToSet(t) = ToSet(s) \ {d}
<1>0. p = Place(s, k, i - 1) /\ d = s[i] BY DEF Around
<1>1. PICK n \in Nat : n = Len(s) /\ i \in 1..n OBVIOUS
<1>2. t \in Seq(S) /\ Removed(t, s, i) BY RemoveAtIs
<1>3. /\ Len(t) = n - 1
      /\ \A j \in 1..(n - 1) : t[j] = IF j < i THEN s[j] ELSE s[j + 1]
  BY <1>1, <1>2 DEF Removed
<1>4. \A j \in 0..n :
        Place(t, k, j) = IF j < i THEN Place(s, k, j) ELSE Place(s, k, j + 1)
  BY <1>1, <1>3 DEF Place
<1>5. s[i] = Place(s, k, i) BY <1>1 DEF Place
<1>6. ASSUME NEW j \in 0..n, j # i - 1, j # i
      PROVE  g[Place(s, k, j)] = Place(s, k, j + 1)
  <2>1. /\ Place(s, k, j) # Place(s, k, i - 1) /\ Place(s, k, j) # Place(s, k, i)
        /\ Place(s, k, j) \in {k} \cup ToSet(s)
    <3>1. i - 1 \in 0..n /\ i \in 0..n BY <1>1
    <3> QED BY <1>1, <1>6, <3>1, PlacesDiffer
  <2>2. f[Place(s, k, j)] = Place(s, k, j + 1) BY <1>1 DEF Chain
  <2> QED BY <1>0, <1>5, <2>1, <2>2 DEF Same
<1>7. g[Place(s, k, i - 1)] = Place(s, k, i + 1)
  <2>1. i \in 0..Len(s) BY <1>1
  <2> QED BY <1>0, <1>5, <2>1 DEF Chain
<1>8. ASSUME NEW j \in 0..(n - 1) PROVE g[Place(t, k, j)] = Place(t, k, j + 1)
  <2>1. j \in 0..n /\ j + 1 \in 0..n BY <1>1
  <2>2. CASE j < i - 1
    <3>1. j < i /\ j + 1 < i /\ j # i - 1 /\ j # i BY <1>1, <2>2
    <3> QED BY <1>4, <1>6, <2>1, <3>1
  <2>3. CASE j = i - 1
    <3>1. j < i /\ ~(j + 1 < i) /\ j + 1 = i BY <1>1, <2>3
    <3>2. Place(t, k, j) = Place(s, k, i - 1) BY <1>4, <2>1, <2>3, <3>1
    <3>3. Place(t, k, j + 1) = Place(s, k, i + 1) BY <1>4, <2>1, <3>1
    <3> QED BY <1>7, <3>2, <3>3
  <2>4. CASE j >= i
    <3>1. PICK m \in 0..n : m = j + 1 /\ m # i - 1 /\ m # i BY <1>1, <2>4
    <3>2. ~(j < i) /\ ~(j + 1 < i) BY <1>1, <2>4
    <3> QED BY <1>4, <1>6, <2>1, <3>1, <3>2
  <2> QED BY <1>1, <2>2, <2>3, <2>4
<1>9. /\ \A j, m \in 1..n : s[j] = s[m] => j = m
      /\ \A j \in 1..n : s[j] # k
  BY <1>1 DEF Chain
<1>10. ASSUME NEW j \in 1..(n - 1) PROVE t[j] # k
  <2>1. j \in 1..n /\ j + 1 \in 1..n BY <1>1
  <2> QED BY <1>3, <1>9, <2>1
<1>11. ASSUME NEW j \in 1..(n - 1), NEW m \in 1..(n - 1), t[j] = t[m] PROVE j = m
  <2>1. PICK a \in 1..n : t[j] = s[a] /\ a = IF j < i THEN j ELSE j + 1
    BY <1>1, <1>3
  <2>2. PICK b \in 1..n : t[m] = s[b] /\ b = IF m < i THEN m ELSE m + 1
    BY <1>1, <1>3
  <2>3. a = b BY <1>9, <1>11, <2>1, <2>2
  <2> QED BY <1>1, <2>1, <2>2, <2>3
<1>12. ASSUME NEW x PROVE x \in ToSet(t) <=> x \in ToSet(s) /\ x # s[i]
  <2>1. ASSUME x \in ToSet(t) PROVE x \in ToSet(s) /\ x # s[i]
    <3>1. PICK j \in 1..(n - 1) : t[j] = x BY <1>2, <1>3, <2>1, InSet
    <3>2. PICK a \in 1..n : t[j] = s[a] /\ a = IF j < i THEN j ELSE j + 1
      BY <1>1, <1>3
    <3>3. a # i BY <1>1, <3>2
    <3> QED BY <1>1, <1>9, <3>1, <3>2, <3>3, InSet
  <2>2. ASSUME x \in ToSet(s), x # s[i] PROVE x \in ToSet(t)
    <3>1. PICK a \in 1..n : s[a] = x BY <1>1, <2>2, InSet
    <3>2. \E j \in 1..(n - 1) : t[j] = x
      <4>1. CASE a < i
        <5>1. a \in 1..(n - 1) /\ t[a] = x BY <1>1, <1>3, <3>1, <4>1
        <5> QED BY <5>1
      <4>2. CASE ~(a < i)
        <5>1. a # i BY <2>2, <3>1
        <5>2. a - 1 \in 1..(n - 1) /\ (a - 1) + 1 = a /\ ~(a - 1 < i) BY <1>1, <4>2, <5>1
        <5> QED BY <1>3, <3>1, <5>2
      <4> QED BY <4>1, <4>2
    <3> QED BY <1>2, <1>3, <3>2, InSet
  <2> QED BY <2>1, <2>2
<1>13. ToSet(t) = ToSet(s) \ {s[i]} BY <1>12
<1>14. Chain(t, k, g) BY <1>3, <1>8, <1>10, <1>11 DEF Chain
<1> QED BY <1>0, <1>2, <1>13, <1>14

\* t is s with e for its i-th element
Replaced(t, s, i, e) == t = [s EXCEPT ![i] = e]

IsSwap(U, T, d, e) == U = (T \ {d}) \cup {e}

\* g leads from p to e, and from there to where f leads from d
Detour(g, f, p, e, d) == g[p] = e /\ g[e] = f[d]

\* an element led to in place of another takes its place
LEMMA ChainReplace ==
  ASSUME NEW S, NEW s \in Seq(S), NEW k, NEW f, NEW g, Chain(s, k, f),
         NEW i \in 1..Len(s), NEW e \in S, e \notin ToSet(s), e # k,
         NEW p, NEW d, Around(s, k, i, p, d), Detour(g, f, p, e, d),
         Same(g, f, {k} \cup ToSet(s), {p, d}),
         NEW t, Replaced(t, s, i, e)
  PROVE  t \in Seq(S) /\ Chain(t, k, g) /\ IsSwap(ToSet(t), ToSet(s), d, e)
<1>0. p = Place(s, k, i - 1) /\ d = s[i] /\ g[p] = e /\ g[e] = f[d] BY DEF Around, Detour
<1>1. PICK n \in Nat : n = Len(s) /\ i \in 1..n OBVIOUS
<1>2. /\ t \in Seq(S) /\ Len(t) = n
      /\ \A j \in 1..n : t[j] = IF j = i THEN e ELSE s[j]
  BY <1>1 DEF Replaced
<1>3. \A j \in 0..(n + 1) : Place(t, k, j) = IF j = i THEN e ELSE Place(s, k, j)
  BY <1>1, <1>2 DEF Place
<1>4. s[i] = Place(s, k, i) BY <1>1 DEF Place
<1>5. ASSUME NEW j \in 0..n PROVE g[Place(t, k, j)] = Place(t, k, j + 1)
  <2>1. j \in 0..(n + 1) /\ j + 1 \in 0..(n + 1) /\ i - 1 \in 0..n /\ i \in 0..n
    BY <1>1
  <2>2. f[Place(s, k, j)] = Place(s, k, j + 1) BY <1>1 DEF Chain
  <2>3. CASE j = i - 1
    <3>1. j + 1 = i /\ j # i BY <1>1, <2>3
    <3> QED BY <1>0, <1>3, <2>1, <2>3, <3>1
  <2>4. CASE j = i
    <3>1. j + 1 # i BY <1>1, <2>4
    <3> QED BY <1>0, <1>3, <1>4, <2>1, <2>2, <2>4, <3>1
  <2>5. CASE j # i - 1 /\ j # i
    <3>1. j + 1 # i BY <1>1, <2>5
    <3>2. /\ Place(s, k, j) # Place(s, k, i - 1) /\ Place(s, k, j) # Place(s, k, i)
          /\ Place(s, k, j) \in {k} \cup ToSet(s)
      BY <1>1, <2>1, <2>5, PlacesDiffer
    <3>3. g[Place(s, k, j)] = f[Place(s, k, j)] BY <1>0, <1>4, <3>2 DEF Same
    <3> QED BY <1>3, <2>1, <2>2, <2>5, <3>1, <3>3
  <2> QED BY <2>3, <2>4, <2>5
<1>6. /\ \A j, m \in 1..n : s[j] = s[m] => j = m
      /\ \A j \in 1..n : s[j] # k /\ s[j] # e
  BY <1>1, InSet DEF Chain
<1>7. /\ \A j, m \in 1..n : t[j] = t[m] => j = m
      /\ \A j \in 1..n : t[j] # k
  BY <1>2, <1>6
<1>8. ASSUME NEW x PROVE x \in ToSet(t) <=> (x \in ToSet(s) /\ x # s[i]) \/ x = e
  <2>0. t \in Seq(S) /\ Len(t) = n BY <1>2
  <2>1. x \in ToSet(t) <=> \E j \in 1..n : t[j] = x
    <3>1. PICK u : u = t OBVIOUS
    <3>2. u \in Seq(S) /\ Len(u) = n BY <2>0, <3>1
    <3>3. x \in ToSet(u) <=> \E j \in 1..n : u[j] = x BY <3>2, InSet
    <3> QED BY <3>1, <3>3
  <2>2. x \in ToSet(s) <=> \E j \in 1..n : s[j] = x BY <1>1, InSet
  <2>3. t[i] = e BY <1>1, <1>2
  <2> QED BY <1>1, <1>2, <1>6, <2>1, <2>2, <2>3
<1>9. ToSet(t) = (ToSet(s) \ {s[i]}) \cup {e} BY <1>8
<1>10. Chain(t, k, g) BY <1>2, <1>5, <1>7 DEF Chain
<1> QED BY <1>0, <1>2, <1>9, <1>10 DEF IsSwap

\* the elements are different, and none is k
Distinct(s, k) ==
  /\ \A i, j \in 1..Len(s) : s[i] = s[j] => i = j
  /\ \A i \in 1..Len(s) : s[i] # k

\* the places of a concatenation
LEMMA Concat ==
  ASSUME NEW S, NEW s \in Seq(S), NEW t \in Seq(S), NEW k,
         Distinct(s, k), Distinct(t, k), ToSet(s) \cap ToSet(t) = {},
         NEW u \in Seq(S), Joins(u, s, t)
  PROVE  /\ Len(u) = Len(s) + Len(t) /\ Distinct(u, k)
         /\ ToSet(u) = ToSet(s) \cup ToSet(t)
         /\ \A j \in 0..(Len(s) + Len(t) + 1) :
              Place(u, k, j) = IF j <= Len(s) THEN Place(s, k, j) ELSE Place(t, k, j - Len(s))
<1>1. PICK n \in Nat : n = Len(s) OBVIOUS
<1>2. PICK l \in Nat : l = Len(t) OBVIOUS
<1>3. u \in Seq(S) /\ Joins(u, s, t) OBVIOUS
<1>4. /\ Len(u) = n + l
      /\ \A j \in 1..n : u[j] = s[j]
      /\ \A j \in 1..l : u[n + j] = t[j]
  BY <1>1, <1>2, <1>3 DEF Joins
<1>5. \A j \in 1..(n + l) : \/ j \in 1..n /\ j <= n /\ u[j] = s[j]
                            \/ j - n \in 1..l /\ ~(j <= n) /\ u[j] = t[j - n]
  <2> SUFFICES ASSUME NEW j \in 1..(n + l)
               PROVE  \/ j \in 1..n /\ j <= n /\ u[j] = s[j]
                      \/ j - n \in 1..l /\ ~(j <= n) /\ u[j] = t[j - n]
    OBVIOUS
  <2>1. CASE j <= n BY <1>1, <1>4, <2>1
  <2>2. CASE ~(j <= n)
    <3>1. j - n \in 1..l /\ n + (j - n) = j BY <1>1, <1>2, <2>2
    <3> QED BY <1>4, <2>2, <3>1
  <2> QED BY <2>1, <2>2
<1>6. /\ \A i, j \in 1..n : s[i] = s[j] => i = j
      /\ \A i, j \in 1..l : t[i] = t[j] => i = j
      /\ \A i \in 1..n : s[i] # k
      /\ \A i \in 1..l : t[i] # k
      /\ \A i \in 1..n, j \in 1..l : s[i] # t[j]
  BY <1>1, <1>2, InSet DEF Distinct
<1>7. ASSUME NEW i \in 1..(n + l), NEW j \in 1..(n + l), u[i] = u[j] PROVE i = j
  <2>1. CASE i <= n /\ j <= n BY <1>1, <1>2, <1>5, <1>6, <1>7, <2>1
  <2>2. CASE ~(i <= n) /\ ~(j <= n)
    <3>1. i - n \in 1..l /\ j - n \in 1..l /\ u[i] = t[i - n] /\ u[j] = t[j - n]
      BY <1>5, <2>2
    <3>2. i - n = j - n BY <1>6, <1>7, <3>1
    <3> QED BY <1>1, <3>2
  <2>3. CASE i <= n /\ ~(j <= n) BY <1>5, <1>6, <1>7, <2>3
  <2>4. CASE ~(i <= n) /\ j <= n BY <1>5, <1>6, <1>7, <2>4
  <2> QED BY <2>1, <2>2, <2>3, <2>4
<1>8. ASSUME NEW i \in 1..(n + l) PROVE u[i] # k BY <1>5, <1>6
<1>9. ASSUME NEW x PROVE x \in ToSet(u) <=> x \in ToSet(s) \/ x \in ToSet(t)
  <2>1. x \in ToSet(u) <=> \E j \in 1..(n + l) : u[j] = x
    <3>1. u \in Seq(S) /\ Len(u) = n + l BY <1>3, <1>4
    <3> QED BY <3>1, InSet
  <2>2. x \in ToSet(s) <=> \E j \in 1..n : s[j] = x BY <1>1, InSet
  <2>3. x \in ToSet(t) <=> \E j \in 1..l : t[j] = x BY <1>2, InSet
  <2>4. ASSUME NEW j \in 1..n PROVE j \in 1..(n + l) BY <1>1, <1>2
  <2>5. ASSUME NEW j \in 1..l PROVE n + j \in 1..(n + l) BY <1>1, <1>2
  <2> QED BY <1>4, <1>5, <2>1, <2>2, <2>3, <2>4, <2>5
<1>10. ASSUME NEW j \in 0..(n + l + 1)
       PROVE  Place(u, k, j) = IF j <= n THEN Place(s, k, j) ELSE Place(t, k, j - n)
  <2>1. CASE j = 0 BY <1>1, <1>2, <2>1 DEF Place
  <2>2. CASE j = n + l + 1
    <3>1. ~(j <= n) /\ j - n = l + 1 /\ ~(j <= n + l) /\ ~(l + 1 <= l)
      BY <1>1, <1>2, <2>2
    <3> QED BY <1>2, <1>4, <3>1 DEF Place
  <2>3. CASE j # 0 /\ j # n + l + 1
    <3>1. j \in 1..(n + l) BY <2>3
    <3>2. Place(u, k, j) = u[j] BY <1>1, <1>2, <1>4, <3>1 DEF Place
    <3>3. CASE j <= n
      <4>1. Place(s, k, j) = s[j] /\ u[j] = s[j] BY <1>1, <1>5, <3>1, <3>3 DEF Place
      <4> QED BY <3>2, <3>3, <4>1
    <3>4. CASE ~(j <= n)
      <4>1. j - n \in 1..l /\ u[j] = t[j - n] BY <1>5, <3>1, <3>4
      <4>2. Place(t, k, j - n) = t[j - n] BY <1>2, <4>1 DEF Place
      <4> QED BY <3>2, <3>4, <4>1, <4>2
    <3> QED BY <3>3, <3>4
  <2> QED BY <2>1, <2>2, <2>3
<1>11. ToSet(u) = ToSet(s) \cup ToSet(t) BY <1>9
<1>12. Distinct(u, k) BY <1>4, <1>7, <1>8 DEF Distinct
<1> QED BY <1>1, <1>2, <1>3, <1>4, <1>10, <1>11, <1>12

\* the chain t is let into the chain s, at its front or at its back
IsUnion(U, T, V) == U = T \cup V

\* from p the pointers g lead to the first of t, from the last of t to v, and
\* elsewhere they are f
Led(g, f, s, t, k, p, v) ==
  /\ g[p] = t[1] /\ g[t[Len(t)]] = v
  /\ Same(g, f, {k} \cup ToSet(s) \cup ToSet(t), {p, t[Len(t)]})

\* one chain led through by another joins it, in front or at the back
LEMMA ChainSplice ==
  ASSUME NEW S, NEW s \in Seq(S), NEW t \in Seq(S), NEW k, NEW l, NEW f, NEW g,
         Chain(s, k, f), Chain(t, l, f), Len(t) # 0, k \notin ToSet(t),
         ToSet(s) \cap ToSet(t) = {},
         NEW u \in Seq(S)
  PROVE  /\ Joins(u, t, s) /\ Led(g, f, s, t, k, k, f[k])
              => Chain(u, k, g) /\ IsUnion(ToSet(u), ToSet(s), ToSet(t))
         /\ Joins(u, s, t) /\ Led(g, f, s, t, k, Place(s, k, Len(s)), k)
              => Chain(u, k, g) /\ IsUnion(ToSet(u), ToSet(s), ToSet(t))
<1>1. PICK n \in Nat : n = Len(s) OBVIOUS
<1>2. PICK m \in Nat : m = Len(t) /\ m # 0 OBVIOUS
<1>3. Distinct(s, k) /\ Distinct(t, k)
  <2>1. \A i \in 1..Len(t) : t[i] # k BY InSet
  <2> QED BY <2>1 DEF Chain, Distinct
<1>4. /\ \A i \in 0..n : /\ f[Place(s, k, i)] = Place(s, k, i + 1)
                         /\ Place(s, k, i) \in {k} \cup ToSet(s)
      /\ \A i, j \in 0..n : Place(s, k, i) = Place(s, k, j) => i = j
      /\ \A i \in 1..(m - 1) : f[t[i]] = t[i + 1]
      /\ \A i \in 1..m : t[i] \in ToSet(t) /\ t[i] \notin {k} \cup ToSet(s)
      /\ \A i, j \in 1..m : t[i] = t[j] => i = j
      /\ Place(s, k, 0) = k /\ Place(s, k, n + 1) = k
  <2>1. \A i \in 0..n : /\ f[Place(s, k, i)] = Place(s, k, i + 1)
                        /\ Place(s, k, i) \in {k} \cup ToSet(s)
    BY <1>1, PlacesDiffer DEF Chain
  <2>2. \A i, j \in 0..n : Place(s, k, i) = Place(s, k, j) => i = j
    BY <1>1, PlacesDiffer
  <2>3. ASSUME NEW i \in 1..(m - 1) PROVE f[t[i]] = t[i + 1]
    <3>1. i \in 0..Len(t) /\ i \in 1..m /\ i + 1 \in 1..m BY <1>2
    <3>2. Place(t, l, i) = t[i] /\ Place(t, l, i + 1) = t[i + 1]
      BY <1>2, <3>1 DEF Place
    <3> QED BY <3>1, <3>2 DEF Chain
  <2>4. ASSUME NEW i \in 1..m PROVE t[i] \in ToSet(t) /\ t[i] \notin {k} \cup ToSet(s)
    <3>1. t[i] \in ToSet(t) BY <1>2, InSet
    <3> QED BY <3>1
  <2>5. \A i, j \in 1..m : t[i] = t[j] => i = j BY <1>2 DEF Chain
  <2>6. Place(s, k, 0) = k /\ Place(s, k, n + 1) = k BY <1>1 DEF Place
  <2> QED BY <2>1, <2>2, <2>3, <2>4, <2>5, <2>6
<1>5. /\ \A i \in 1..m : Place(t, k, i) = t[i]
      /\ Place(t, k, m + 1) = k /\ Place(t, k, 0) = k
  BY <1>2 DEF Place
<1>6. ASSUME Joins(u, t, s), Led(g, f, s, t, k, k, f[k])
      PROVE  Chain(u, k, g) /\ IsUnion(ToSet(u), ToSet(s), ToSet(t))
  <2>1. /\ g[k] = t[1] /\ g[t[Len(t)]] = f[k]
        /\ Same(g, f, {k} \cup ToSet(s) \cup ToSet(t), {k, t[Len(t)]})
    BY <1>6 DEF Led
  <2>2. /\ u \in Seq(S) /\ Len(u) = m + n /\ Distinct(u, k)
        /\ ToSet(u) = ToSet(t) \cup ToSet(s)
        /\ \A j \in 0..(m + n + 1) :
             Place(u, k, j) = IF j <= m THEN Place(t, k, j) ELSE Place(s, k, j - m)
    <3>1. ToSet(t) \cap ToSet(s) = {} OBVIOUS
    <3>2. /\ u \in Seq(S) /\ Len(u) = Len(t) + Len(s) /\ Distinct(u, k)
          /\ ToSet(u) = ToSet(t) \cup ToSet(s)
          /\ \A j \in 0..(Len(t) + Len(s) + 1) :
               Place(u, k, j) = IF j <= Len(t) THEN Place(t, k, j)
                                               ELSE Place(s, k, j - Len(t))
      <4>1. Joins(u, t, s) BY <1>6
      <4> QED BY <1>3, <3>1, <4>1, Concat
    <3>3. Len(s) = n /\ Len(t) = m BY <1>1, <1>2
    <3> QED BY <3>2, <3>3
  <2>3. ASSUME NEW j \in 0..(m + n) PROVE g[Place(u, k, j)] = Place(u, k, j + 1)
    <3>1. j \in 0..(m + n + 1) /\ j + 1 \in 0..(m + n + 1) BY <1>1, <1>2
    <3>2. CASE j = 0
      <4>1. Place(u, k, j) = k /\ Place(u, k, j + 1) = t[1]
        <5>1. j <= m /\ j + 1 <= m /\ 1 \in 1..m /\ j + 1 = 1 BY <1>2, <3>2
        <5> QED BY <1>5, <2>2, <3>1, <3>2, <5>1
      <4> QED BY <2>1, <4>1
    <3>3. CASE j \in 1..(m - 1)
      <4>1. j <= m /\ j + 1 <= m /\ j \in 1..m /\ j + 1 \in 1..m /\ m \in 1..m /\ j # m
        BY <1>2, <3>3
      <4>2. Place(u, k, j) = t[j] /\ Place(u, k, j + 1) = t[j + 1]
        BY <1>5, <2>2, <3>1, <4>1
      <4>3. t[j] # t[m] /\ t[j] # k /\ t[j] \in ToSet(t) BY <1>4, <4>1
      <4>4. g[t[j]] = f[t[j]] BY <1>2, <2>1, <4>3 DEF Same
      <4> QED BY <1>4, <3>3, <4>2, <4>4
    <3>4. CASE j = m
      <4>1. j <= m /\ ~(j + 1 <= m) /\ m \in 1..m /\ (j + 1) - m = 1 /\ 0 \in 0..n /\ 0 + 1 = 1
        BY <1>1, <1>2, <3>4
      <4>2. Place(u, k, j) = t[m] /\ Place(u, k, j + 1) = Place(s, k, 1)
        BY <1>5, <2>2, <3>1, <3>4, <4>1
      <4>3. f[k] = Place(s, k, 1) BY <1>4, <4>1
      <4> QED BY <1>2, <2>1, <4>2, <4>3
    <3>5. CASE j > m
      <4>1. PICK i \in 1..n : i = j - m /\ (j + 1) - m = i + 1 /\ ~(j <= m) /\ ~(j + 1 <= m)
        <5>1. j - m \in 1..n BY <1>1, <1>2, <3>5
        <5>2. (j + 1) - m = (j - m) + 1 /\ ~(j <= m) /\ ~(j + 1 <= m) BY <1>1, <1>2, <3>5
        <5> QED BY <5>1, <5>2
      <4>2. i \in 0..n /\ 0 \in 0..n /\ i # 0 BY <1>1, <4>1
      <4>3. Place(u, k, j) = Place(s, k, i) /\ Place(u, k, j + 1) = Place(s, k, i + 1)
        BY <2>2, <3>1, <4>1
      <4>4. Place(s, k, i) # k /\ Place(s, k, i) \in {k} \cup ToSet(s)
        BY <1>4, <4>2
      <4>5. Place(s, k, i) # t[Len(t)]
        <5>1. m \in 1..m BY <1>2
        <5> QED BY <1>2, <1>4, <4>4, <5>1
      <4>6. g[Place(s, k, i)] = f[Place(s, k, i)] BY <2>1, <4>4, <4>5 DEF Same
      <4> QED BY <1>4, <4>2, <4>3, <4>6
    <3> QED BY <1>1, <1>2, <3>2, <3>3, <3>4, <3>5
  <2>4. Chain(u, k, g) BY <2>2, <2>3 DEF Chain, Distinct
  <2> QED BY <2>2, <2>4 DEF IsUnion
<1>7. ASSUME Joins(u, s, t), Led(g, f, s, t, k, Place(s, k, Len(s)), k)
      PROVE  Chain(u, k, g) /\ IsUnion(ToSet(u), ToSet(s), ToSet(t))
  <2>1. /\ g[Place(s, k, Len(s))] = t[1] /\ g[t[Len(t)]] = k
        /\ Same(g, f, {k} \cup ToSet(s) \cup ToSet(t), {Place(s, k, Len(s)), t[Len(t)]})
    BY <1>7 DEF Led
  <2>2. /\ u \in Seq(S) /\ Len(u) = n + m /\ Distinct(u, k)
        /\ ToSet(u) = ToSet(s) \cup ToSet(t)
        /\ \A j \in 0..(n + m + 1) :
             Place(u, k, j) = IF j <= n THEN Place(s, k, j) ELSE Place(t, k, j - n)
    <3>1. /\ u \in Seq(S) /\ Len(u) = Len(s) + Len(t) /\ Distinct(u, k)
          /\ ToSet(u) = ToSet(s) \cup ToSet(t)
          /\ \A j \in 0..(Len(s) + Len(t) + 1) :
               Place(u, k, j) = IF j <= Len(s) THEN Place(s, k, j)
                                               ELSE Place(t, k, j - Len(s))
      <4>1. Joins(u, s, t) BY <1>7
      <4> QED BY <1>3, <4>1, Concat
    <3>2. Len(s) = n /\ Len(t) = m BY <1>1, <1>2
    <3> QED BY <3>1, <3>2
  <2>3. n \in 0..n /\ m \in 1..m BY <1>1, <1>2
  <2>4. ASSUME NEW j \in 0..(n + m) PROVE g[Place(u, k, j)] = Place(u, k, j + 1)
    <3>1. j \in 0..(n + m + 1) /\ j + 1 \in 0..(n + m + 1) BY <1>1, <1>2
    <3>2. CASE j < n
      <4>1. j \in 0..n /\ j # n /\ j <= n /\ j + 1 <= n BY <1>1, <3>2
      <4>2. Place(u, k, j) = Place(s, k, j) /\ Place(u, k, j + 1) = Place(s, k, j + 1)
        BY <2>2, <3>1, <4>1
      <4>3. Place(s, k, j) # Place(s, k, n) /\ Place(s, k, j) \in {k} \cup ToSet(s)
        BY <1>4, <2>3, <4>1
      <4>4. Place(s, k, j) # t[m] BY <1>4, <2>3, <4>3
      <4>5. g[Place(s, k, j)] = f[Place(s, k, j)] BY <1>1, <1>2, <2>1, <4>3, <4>4 DEF Same
      <4> QED BY <1>4, <4>1, <4>2, <4>5
    <3>3. CASE j = n
      <4>1. j <= n /\ ~(j + 1 <= n) /\ (j + 1) - n = 1 /\ 1 \in 1..m BY <1>1, <1>2, <3>3
      <4>2. Place(u, k, j) = Place(s, k, n) /\ Place(u, k, j + 1) = t[1]
        BY <1>5, <2>2, <3>1, <3>3, <4>1
      <4> QED BY <1>1, <2>1, <4>2
    <3>4. CASE j > n
      <4>1. PICK i \in 1..m : i = j - n /\ (j + 1) - n = i + 1 /\ ~(j <= n) /\ ~(j + 1 <= n)
        <5>1. j - n \in 1..m BY <1>1, <1>2, <3>4
        <5>2. (j + 1) - n = (j - n) + 1 /\ ~(j <= n) /\ ~(j + 1 <= n) BY <1>1, <1>2, <3>4
        <5> QED BY <5>1, <5>2
      <4>2. Place(u, k, j) = t[i] /\ Place(u, k, j + 1) = Place(t, k, i + 1)
        BY <1>5, <2>2, <3>1, <4>1
      <4>3. CASE i = m
        BY <1>2, <1>5, <2>1, <4>2, <4>3
      <4>4. CASE i # m
        <5>1. i \in 1..(m - 1) /\ i + 1 \in 1..m BY <1>2, <4>1, <4>4
        <5>2. t[i] # t[m] /\ t[i] \in ToSet(t) /\ t[i] \notin {k} \cup ToSet(s)
          BY <1>4, <2>3, <4>4
        <5>3. Place(s, k, n) \in {k} \cup ToSet(s) BY <1>4, <2>3
        <5>4. g[t[i]] = f[t[i]] BY <1>1, <1>2, <2>1, <5>2, <5>3 DEF Same
        <5> QED BY <1>4, <1>5, <4>2, <5>1, <5>4
      <4> QED BY <4>3, <4>4
    <3> QED BY <1>1, <1>2, <3>2, <3>3, <3>4
  <2>5. Chain(u, k, g) BY <2>2, <2>4 DEF Chain, Distinct
  <2> QED BY <2>2, <2>5 DEF IsUnion
<1> QED BY <1>6, <1>7

\* the two parts of a sequence, index by index
LEMMA CutIs ==
  ASSUME NEW S, NEW s \in Seq(S), NEW n \in 1..Len(s)
  PROVE  /\ SubSeq(s, 1, n) \in Seq(S) /\ Len(SubSeq(s, 1, n)) = n
         /\ SubSeq(s, n + 1, Len(s)) \in Seq(S)
         /\ Joins(s, SubSeq(s, 1, n), SubSeq(s, n + 1, Len(s)))
<1>1. PICK m \in Nat : m = Len(s) /\ n \in 1..m OBVIOUS
<1>2. PICK a : a = SubSeq(s, 1, n) OBVIOUS
<1>3. PICK b : b = SubSeq(s, n + 1, Len(s)) OBVIOUS
<1>4. a \in Seq(S) /\ Len(a) = n /\ \A i \in 1..n : a[i] = s[i]
  BY <1>1, <1>2
<1>5. /\ b \in Seq(S) /\ Len(b) = m - n
      /\ \A i \in 1..(m - n) : b[i] = s[n + i]
  BY <1>1, <1>3
<1>6. m = n + (m - n) BY <1>1
<1>7. Joins(s, a, b) BY <1>1, <1>4, <1>5, <1>6 DEF Joins
<1> QED BY <1>2, <1>3, <1>4, <1>5, <1>7

\* g leads from l through the first n elements of s and back, and from k through the
\* others
Severed(g, f, s, k, n, l) ==
  /\ g[l] = s[1] /\ g[s[n]] = l /\ g[k] = f[s[n]]
  /\ Same(g, f, {k} \cup ToSet(s), {k, s[n]})

Parts(T, U, V) == U \cap V = {} /\ U \cup V = T

\* the first n elements go to the chain of l
LEMMA ChainCut ==
  ASSUME NEW S, NEW s \in Seq(S), NEW k, NEW f, NEW g, Chain(s, k, f),
         NEW n \in 1..Len(s), NEW l, l \notin {k} \cup ToSet(s),
         Severed(g, f, s, k, n, l),
         NEW a \in Seq(S), NEW b \in Seq(S), Joins(s, a, b), Len(a) = n
  PROVE  /\ Chain(a, l, g) /\ Chain(b, k, g)
         /\ Parts(ToSet(s), ToSet(a), ToSet(b))
<1>0. /\ g[l] = s[1] /\ g[s[n]] = l /\ g[k] = f[s[n]]
      /\ Same(g, f, {k} \cup ToSet(s), {k, s[n]})
  BY DEF Severed
<1> USE <1>0
<1>1. PICK m \in Nat : m = Len(s) /\ n \in 1..m OBVIOUS
<1>2. /\ a \in Seq(S) /\ Len(a) = n /\ \A i \in 1..n : a[i] = s[i] /\ i \in 1..m
  BY <1>1 DEF Joins
<1>3. PICK c \in Nat : c = Len(b) /\ m = n + c /\ c = m - n
  <2>1. PICK c \in Nat : c = Len(b) OBVIOUS
  <2>2. m = n + c BY <1>1, <2>1 DEF Joins
  <2>3. n \in Nat BY <1>1
  <2>4. c = m - n
    BY <2>2, <2>3
  <2> QED BY <2>1, <2>2, <2>4
<1>4. /\ b \in Seq(S) /\ Len(b) = c /\ \A i \in 1..c : b[i] = s[n + i] /\ n + i \in 1..m
  BY <1>1, <1>3 DEF Joins
<1>5. /\ \A i, j \in 1..m : s[i] = s[j] => i = j
      /\ \A i \in 1..m : s[i] # k /\ s[i] # l /\ s[i] \in ToSet(s)
      /\ \A i \in 1..m : f[s[i]] = Place(s, k, i + 1)
      /\ f[k] = s[1]
  <2>1. \A i, j \in 1..m : s[i] = s[j] => i = j BY <1>1 DEF Chain
  <2>2. \A i \in 1..m : s[i] # k BY <1>1 DEF Chain
  <2>3. \A i \in 1..m : s[i] \in ToSet(s) BY <1>1, InSet
  <2>4. ASSUME NEW i \in 1..m PROVE f[s[i]] = Place(s, k, i + 1)
    <3>1. i \in 0..Len(s) /\ Place(s, k, i) = s[i] BY <1>1 DEF Place
    <3> QED BY <3>1 DEF Chain
  <2>5. f[k] = s[1]
    <3>1. 0 \in 0..Len(s) /\ Place(s, k, 0) = k /\ Place(s, k, 0 + 1) = s[1]
      BY <1>1 DEF Place
    <3> QED BY <3>1 DEF Chain
  <2> QED BY <2>1, <2>2, <2>3, <2>4, <2>5
<1>6. \A i \in 1..m : i # n => g[s[i]] = Place(s, k, i + 1)
  BY <1>1, <1>5 DEF Same
<1>7. Chain(a, l, g)
  <2>1. ASSUME NEW i \in 0..n PROVE g[Place(a, l, i)] = Place(a, l, i + 1)
    <3>1. CASE i = 0
      <4>1. Place(a, l, i) = l /\ Place(a, l, i + 1) = s[1]
        BY <1>1, <1>2, <3>1 DEF Place
      <4> QED BY <4>1
    <3>2. CASE i = n
      <4>1. Place(a, l, i) = s[n] /\ Place(a, l, i + 1) = l
        BY <1>1, <1>2, <3>2 DEF Place
      <4> QED BY <4>1
    <3>3. CASE i # 0 /\ i # n
      <4>1. i \in 1..n /\ i + 1 \in 1..n /\ i \in 1..m /\ i + 1 \in 1..m BY <1>1, <3>3
      <4>2. /\ Place(a, l, i) = s[i] /\ Place(a, l, i + 1) = s[i + 1]
            /\ Place(s, k, i + 1) = s[i + 1]
        BY <1>1, <1>2, <4>1 DEF Place
      <4> QED BY <1>6, <3>3, <4>1, <4>2
    <3> QED BY <3>1, <3>2, <3>3
  <2>2. ASSUME NEW i \in 1..n, NEW j \in 1..n, a[i] = a[j] PROVE i = j
    <3>1. a[i] = s[i] /\ a[j] = s[j] /\ i \in 1..m /\ j \in 1..m BY <1>2
    <3> QED BY <1>5, <2>2, <3>1
  <2>3. ASSUME NEW i \in 1..n PROVE a[i] # l
    <3>1. a[i] = s[i] /\ i \in 1..m BY <1>2
    <3> QED BY <1>5, <3>1
  <2> QED BY <1>2, <2>1, <2>2, <2>3 DEF Chain
<1>8. Chain(b, k, g)
  <2>1. ASSUME NEW i \in 0..c PROVE g[Place(b, k, i)] = Place(b, k, i + 1)
    <3>1. CASE i = 0
      <4>1. Place(b, k, i) = k BY <1>3, <1>4, <3>1 DEF Place
      <4>2. Place(b, k, i + 1) = Place(s, k, n + 1)
        <5>1. CASE c = 0
          <6>1. Place(b, k, i + 1) = k /\ Place(s, k, n + 1) = k
            BY <1>1, <1>3, <1>4, <3>1, <5>1 DEF Place
          <6> QED BY <6>1
        <5>2. CASE c # 0
          <6>1. 1 \in 1..c /\ n + 1 \in 1..m /\ i + 1 = 1
            <7>1. 1 \in 1..c BY <5>2
            <7> QED BY <1>4, <3>1, <7>1
          <6>2. Place(b, k, i + 1) = b[1] /\ Place(s, k, n + 1) = s[n + 1]
            BY <1>1, <1>3, <1>4, <6>1 DEF Place
          <6> QED BY <1>4, <6>1, <6>2
        <5> QED BY <5>1, <5>2
      <4> QED BY <1>1, <1>5, <4>1, <4>2
    <3>2. CASE i # 0
      <4>1. i \in 1..c /\ n + i \in 1..m /\ n + i # n BY <1>1, <1>3, <3>2
      <4>2. Place(b, k, i) = s[n + i] BY <1>3, <1>4, <4>1 DEF Place
      <4>3. Place(b, k, i + 1) = Place(s, k, (n + i) + 1)
        <5>1. CASE i = c
          <6>1. Place(b, k, i + 1) = k /\ Place(s, k, (n + i) + 1) = k
            BY <1>1, <1>3, <1>4, <5>1 DEF Place
          <6> QED BY <6>1
        <5>2. CASE i # c
          <6>1. i + 1 \in 1..c /\ n + (i + 1) \in 1..m /\ n + (i + 1) = (n + i) + 1
            <7>1. n \in Nat /\ m \in Nat /\ c \in Nat /\ c = m - n /\ i \in 1..c /\ i # c
              BY <1>1, <1>3, <4>1, <5>2
            <7>2. i + 1 \in 1..c BY <7>1
            <7>3. n + (i + 1) \in 1..m BY <7>1, <7>2
            <7>4. n + (i + 1) = (n + i) + 1 BY <7>1
            <7> QED BY <7>2, <7>3, <7>4
          <6>2. Place(b, k, i + 1) = b[i + 1] BY <1>3, <1>4, <6>1 DEF Place
          <6>3. Place(s, k, n + (i + 1)) = s[n + (i + 1)] BY <1>1, <6>1 DEF Place
          <6> QED BY <1>4, <6>1, <6>2, <6>3
        <5> QED BY <5>1, <5>2
      <4> QED BY <1>6, <4>1, <4>2, <4>3
    <3> QED BY <3>1, <3>2
  <2>2. ASSUME NEW i \in 1..c, NEW j \in 1..c, b[i] = b[j] PROVE i = j
    <3>1. PICK x \in 1..m : x = n + i /\ s[x] = b[i] BY <1>4
    <3>2. PICK y \in 1..m : y = n + j /\ s[y] = b[j] BY <1>4
    <3>3. x = y BY <1>5, <2>2, <3>1, <3>2
    <3> QED BY <1>1, <3>1, <3>2, <3>3
  <2>3. ASSUME NEW i \in 1..c PROVE b[i] # k
    <3>1. b[i] = s[n + i] /\ n + i \in 1..m BY <1>4
    <3> QED BY <1>5, <3>1
  <2> QED BY <1>4, <2>1, <2>2, <2>3 DEF Chain
<1>9. ASSUME NEW x
      PROVE  /\ ~(x \in ToSet(a) /\ x \in ToSet(b))
             /\ x \in ToSet(s) <=> x \in ToSet(a) \/ x \in ToSet(b)
  <2>1. x \in ToSet(s) <=> \E j \in 1..m : s[j] = x BY <1>1, InSet
  <2>2. x \in ToSet(a) <=> \E j \in 1..n : a[j] = x
    <3>1. a \in Seq(S) /\ Len(a) = n BY <1>2
    <3> QED BY <3>1, InSet
  <2>3. x \in ToSet(b) <=> \E j \in 1..c : b[j] = x
    <3>1. x \in ToSet(b) <=> \E j \in 1..Len(b) : b[j] = x BY InSet
    <3>2. Len(b) = c BY <1>4
    <3> QED BY <3>1, <3>2
  <2>4. ASSUME x \in ToSet(a), x \in ToSet(b) PROVE FALSE
    <3>1. PICK i \in 1..n : a[i] = x BY <2>2, <2>4
    <3>2. PICK j \in 1..c : b[j] = x BY <2>3, <2>4
    <3>3. PICK y \in 1..m : y = n + j /\ s[y] = b[j] BY <1>4
    <3>4. i \in 1..m /\ s[i] = a[i] BY <1>2
    <3>5. i = y BY <1>5, <3>1, <3>2, <3>3, <3>4
    <3> QED BY <1>1, <3>3, <3>5
  <2>5. ASSUME NEW j \in 1..m, s[j] = x PROVE x \in ToSet(a) \/ x \in ToSet(b)
    <3>1. CASE j <= n
      <4>1. j \in 1..n BY <1>1, <3>1
      <4> QED BY <1>2, <2>2, <2>5, <4>1
    <3>2. CASE ~(j <= n)
      <4>1. j - n \in 1..c /\ n + (j - n) = j BY <1>1, <1>3, <3>2
      <4> QED BY <1>4, <2>3, <2>5, <4>1
    <3> QED BY <3>1, <3>2
  <2>6. ASSUME NEW i \in 1..n, a[i] = x PROVE x \in ToSet(s) BY <1>2, <2>1, <2>6
  <2>7. ASSUME NEW j \in 1..c, b[j] = x PROVE x \in ToSet(s) BY <1>4, <2>1, <2>7
  <2> QED BY <2>1, <2>2, <2>3, <2>4, <2>5, <2>6, <2>7
<1>10. ToSet(a) \cap ToSet(b) = {} /\ ToSet(a) \cup ToSet(b) = ToSet(s) BY <1>9
<1> QED BY <1>2, <1>4, <1>7, <1>8, <1>10 DEF Parts

-----------------------------------------------------------------------------
(* The path from the head of a chain.                                      *)

\* the path from a chain's head runs through the chain and back to the head
LEMMA ChainPath ==
  ASSUME NEW S, NEW s \in Seq(S), NEW k, NEW f, Chain(s, k, f),
         NEW m \in Nat, Len(s) < m, NEW p, Follows(p, m, f[k], f)
  PROVE  /\ \A i \in 1..Len(s) : p[i] = s[i]
         /\ p[Len(s) + 1] = k
<1>1. Len(s) \in Nat OBVIOUS
<1>2. \A i \in 1..m : p[i] = IF i = 1 THEN f[k] ELSE f[p[i - 1]] BY FollowsAre
<1>3. \A i \in 0..Len(s) : f[Place(s, k, i)] = Place(s, k, i + 1) BY DEF Chain
<1> DEFINE T == {i \in 1..(Len(s) + 1) : p[i] # Place(s, k, i)}
<1>4. ASSUME T # {} PROVE FALSE
  <2>1. T \in SUBSET Nat BY <1>1
  <2>2. PICK j \in T : \A i \in T : j <= i
    <3> HIDE DEF T
    <3> QED BY <1>4, <2>1, Least
  <2>3. j \in 1..(Len(s) + 1) /\ p[j] # Place(s, k, j) /\ j \in 1..m BY <1>1
  <2>4. CASE j = 1
    <3>1. p[1] = f[k] BY <1>2, <2>3, <2>4
    <3>2. Place(s, k, 0) = k BY <1>1 DEF Place
    <3>3. f[Place(s, k, 0)] = Place(s, k, 0 + 1) BY <1>1, <1>3
    <3>4. 0 + 1 = 1 OBVIOUS
    <3> QED BY <2>3, <2>4, <3>1, <3>2, <3>3, <3>4
  <2>5. CASE j # 1
    <3>1. PICK i \in 0..Len(s) : i = j - 1 /\ i + 1 = j /\ ~(j <= i) /\ i \in 1..(Len(s) + 1)
      BY <1>1, <2>3, <2>5
    <3>2. p[i] = Place(s, k, i)
      <4>1. i \notin T BY <2>2, <3>1
      <4> QED BY <3>1, <4>1
    <3>3. p[j] = f[p[i]] BY <1>2, <2>3, <2>5, <3>1
    <3>4. f[Place(s, k, i)] = Place(s, k, i + 1) BY <1>3
    <3> QED BY <2>3, <3>1, <3>2, <3>3, <3>4
  <2> QED BY <2>4, <2>5
<1>5. \A i \in 1..(Len(s) + 1) : p[i] = Place(s, k, i) BY <1>4
<1>6. ASSUME NEW i \in 1..Len(s) PROVE p[i] = s[i]
  <2>1. i \in 1..(Len(s) + 1) /\ 1 <= i /\ i <= Len(s) BY <1>1
  <2> QED BY <1>5, <2>1 DEF Place
<1>7. p[Len(s) + 1] = k
  <2>1. Len(s) + 1 \in 1..(Len(s) + 1) /\ ~(Len(s) + 1 <= Len(s)) BY <1>1
  <2> QED BY <1>5, <2>1 DEF Place
<1> QED BY <1>6, <1>7

\* up to where the path is back for the first time, it is the chain
Arrivals(p, k) == {i \in DOMAIN p : p[i] = k}
Until(p, ends) == SubSeq(p, 1, (CHOOSE i \in ends : \A j \in ends : i <= j) - 1)

\* the chain, read off the path
LEMMA ChainOfPath ==
  ASSUME NEW S, NEW s \in Seq(S), NEW k, NEW f, Chain(s, k, f),
         NEW m \in Nat, Len(s) < m, NEW T, NEW p \in [1..m -> T], Follows(p, m, f[k], f)
  PROVE  Arrivals(p, k) # {} /\ Until(p, Arrivals(p, k)) = s
<1> DEFINE ends == Arrivals(p, k)
           end == CHOOSE i \in ends : \A j \in ends : i <= j
<1>1. Len(s) \in Nat /\ DOMAIN p = 1..m OBVIOUS
<1>2. (\A i \in 1..Len(s) : p[i] = s[i]) /\ p[Len(s) + 1] = k BY ChainPath
<1>3. Len(s) + 1 \in ends BY <1>1, <1>2 DEF Arrivals
<1>4. ASSUME NEW j \in ends PROVE j \in Nat /\ Len(s) + 1 <= j
  <2>1. j \in 1..m /\ p[j] = k BY <1>1 DEF Arrivals
  <2>2. j \notin 1..Len(s) BY <1>2, <2>1 DEF Chain
  <2> QED BY <1>1, <2>1, <2>2
<1>5. end = Len(s) + 1
  <2>1. end \in ends /\ \A j \in ends : end <= j
    <3> HIDE DEF ends
    <3> QED BY <1>3, <1>4
  <2> HIDE DEF end, ends
  <2> QED BY <1>1, <1>3, <1>4, <2>1
<1> HIDE DEF end, ends
<1>6. end - 1 = Len(s) BY <1>1, <1>5
<1>7. p \in Seq(T) /\ Len(p) = m OBVIOUS
<1>8. Len(s) \in 0..m BY <1>1
<1> DEFINE q == SubSeq(p, 1, Len(s))
<1>9. q \in Seq(T) /\ Len(q) = Len(s) /\ \A i \in 1..Len(s) : q[i] = p[i]
  BY <1>1, <1>7, <1>8
<1>10. q = s
  <2> HIDE DEF q
  <2>1. s = [i \in 1..Len(s) |-> s[i]] /\ q = [i \in 1..Len(q) |-> q[i]] BY <1>9
  <2> QED BY <1>2, <1>9, <2>1
<1> QED BY <1>3, <1>6, <1>10 DEF end, ends, Until

\* a chain has no more members than there are elements
LEMMA ChainShort ==
  ASSUME NEW S, IsFiniteSet(S), NEW s \in Seq(S), NEW k, NEW f, Chain(s, k, f)
  PROVE  Len(s) <= Cardinality(S)
<1>1. Len(s) \in Nat OBVIOUS
<1>2. s \in Injection(1..Len(s), S)
  <2>1. s \in [1..Len(s) -> S] OBVIOUS
  <2>2. \A i, j \in 1..Len(s) : s[i] = s[j] => i = j BY DEF Chain
  <2> QED BY <2>1, <2>2 DEF Injection, IsInjective
<1>3. Cardinality(1..Len(s)) <= Cardinality(S) BY <1>2, FS_Injection
<1>4. Cardinality(1..Len(s)) = Len(s)
  <2>1. Cardinality(1..Len(s)) = IF 1 > Len(s) THEN 0 ELSE Len(s) - 1 + 1
    BY <1>1, FS_Interval
  <2> QED BY <1>1, <2>1
<1> QED BY <1>3, <1>4
-----------------------------------------------------------------------------
(* Sums: what FoldSeq adds up.                                             *)

\* w gives the sums of the first values of v, of which there are m
Sums(w, v, m) == /\ w \in [0..m -> Int] /\ w[0] = 0
                 /\ \A i \in 1..m : w[i] = w[i - 1] + v[i]

\* there is only one such w
LEMMA OneSums ==
  ASSUME NEW m \in Nat, NEW v \in [1..m -> Int], NEW w, NEW u, Sums(w, v, m), Sums(u, v, m)
  PROVE  w = u
<1> DEFINE T == {k \in 0..m : w[k] # u[k]}
<1>1. ASSUME T # {} PROVE FALSE
  <2>1. T \in SUBSET Nat OBVIOUS
  <2>2. PICK k \in T : \A j \in T : k <= j
    <3> HIDE DEF T
    <3> QED BY <1>1, <2>1, Least
  <2>3. k \in 1..m /\ w[k] # u[k] BY DEF Sums
  <2>4. k - 1 \in 0..m /\ ~(k <= k - 1) BY <2>3
  <2>5. w[k - 1] = u[k - 1] BY <2>2, <2>4
  <2> QED BY <2>3, <2>5 DEF Sums
<1>2. \A k \in 0..m : w[k] = u[k] BY <1>1
<1> QED BY <1>2 DEF Sums

\* there is one
LEMMA SomeSums ==
  ASSUME NEW m \in Nat, NEW v \in [1..m -> Int]
  PROVE  \E w : Sums(w, v, m)
<1> DEFINE T == {k \in Nat : k <= m /\ ~\E w : Sums(w, v, k)}
<1>1. ASSUME T # {} PROVE FALSE
  <2>1. T \in SUBSET Nat OBVIOUS
  <2>2. PICK k \in T : \A j \in T : k <= j
    <3> HIDE DEF T
    <3> QED BY <1>1, <2>1, Least
  <2>3. k \in Nat /\ k <= m /\ ~\E w : Sums(w, v, k) OBVIOUS
  <2>4. k # 0
    <3>1. Sums([i \in 0..0 |-> 0], v, 0) BY DEF Sums
    <3> QED BY <2>3, <3>1
  <2>5. PICK l \in Nat : l = k - 1 /\ ~(k <= l) BY <2>3, <2>4
  <2>6. PICK w : Sums(w, v, l) BY <2>2, <2>3, <2>5
  <2> DEFINE u == [i \in 0..k |-> IF i = k THEN w[l] + v[k] ELSE w[i]]
  <2>7. v[k] \in Int /\ \A i \in 0..k : i # k => i \in 0..l BY <2>3, <2>4, <2>5
  <2>8. \A i \in 1..l : w[i] = w[i - 1] + v[i] /\ i - 1 \in 0..l BY <2>6 DEF Sums
  <2>9. w \in [0..l -> Int] /\ w[0] = 0 BY <2>6 DEF Sums
  <2>10. u \in [0..k -> Int] /\ u[0] = 0 BY <2>4, <2>5, <2>7, <2>9
  <2>11. \A i \in 1..k : u[i] = u[i - 1] + v[i]
    <3> TAKE i \in 1..k
    <3>1. i - 1 \in 0..k /\ i - 1 # k /\ i \in 0..k BY <2>3
    <3>2. CASE i = k BY <2>5, <3>1, <3>2
    <3>3. CASE i # k
      <4>1. i \in 1..l BY <2>5, <3>3
      <4> QED BY <2>8, <3>1, <3>3, <4>1
    <3> QED BY <3>2, <3>3
  <2> HIDE DEF u
  <2>12. Sums(u, v, k) BY <2>10, <2>11 DEF Sums
  <2> QED BY <2>3, <2>12
<1>2. m \in Nat /\ m <= m OBVIOUS
<1> QED BY <1>1, <1>2

\* the values of v at T, and 0 elsewhere
Only(v, T, m) == [i \in 1..m |-> IF i \in T THEN v[i] ELSE 0]

\* the sum of the values of v at T
Total(v, T, m) == (CHOOSE w : Sums(w, Only(v, T, m), m))[m]

LEMMA TotalIs ==
  ASSUME NEW m \in Nat, NEW v \in [1..m -> Int], NEW T, NEW w, Sums(w, Only(v, T, m), m)
  PROVE  Total(v, T, m) = w[m]
<1>1. Only(v, T, m) \in [1..m -> Int] BY DEF Only
<1>2. Sums(CHOOSE u : Sums(u, Only(v, T, m), m), Only(v, T, m), m) OBVIOUS
<1>3. (CHOOSE u : Sums(u, Only(v, T, m), m)) = w BY <1>1, <1>2, OneSums
<1> QED BY <1>3 DEF Total

\* a value leaves the sum with its index
LEMMA TotalWithout ==
  ASSUME NEW m \in Nat, NEW v \in [1..m -> Int], NEW T \in SUBSET (1..m), NEW c \in T
  PROVE  Total(v, T, m) = v[c] + Total(v, T \ {c}, m)
<1> DEFINE a == Only(v, T, m)
           b == Only(v, T \ {c}, m)
<1>1. a \in [1..m -> Int] /\ b \in [1..m -> Int] BY DEF Only
<1>2. \A i \in 1..m : a[i] = IF i = c THEN v[c] ELSE b[i] BY DEF Only
<1>3. b[c] = 0 /\ v[c] \in Int /\ c \in 1..m BY DEF Only
<1> HIDE DEF a, b
<1>4. PICK w : Sums(w, b, m) BY <1>1, SomeSums
<1> DEFINE u == [k \in 0..m |-> w[k] + (IF c <= k THEN v[c] ELSE 0)]
<1>5. u \in [0..m -> Int] /\ u[0] = 0 BY <1>3, <1>4 DEF Sums
<1>6. \A i \in 1..m : u[i] = u[i - 1] + a[i]
  <2> TAKE i \in 1..m
  <2>1. i \in 0..m /\ i - 1 \in 0..m OBVIOUS
  <2>2. w[i] = w[i - 1] + b[i] /\ w[i - 1] \in Int /\ b[i] \in Int
    BY <1>1, <1>4, <2>1 DEF Sums
  <2>3. /\ u[i] = w[i] + (IF c <= i THEN v[c] ELSE 0)
        /\ u[i - 1] = w[i - 1] + (IF c <= i - 1 THEN v[c] ELSE 0)
    BY <2>1
  <2> HIDE DEF u
  <2>4. CASE i = c BY <1>2, <1>3, <2>2, <2>3, <2>4
  <2>5. CASE i # c
    <3>1. c <= i <=> c <= i - 1 BY <1>3, <2>5
    <3> QED BY <1>2, <1>3, <2>2, <2>3, <2>5, <3>1
  <2> QED BY <2>4, <2>5
<1>7. u[m] = w[m] + v[c] BY <1>3
<1> HIDE DEF u
<1>8. Sums(u, a, m) BY <1>5, <1>6 DEF Sums
<1>9. Total(v, T, m) = u[m] BY <1>8, TotalIs DEF a
<1>10. Total(v, T \ {c}, m) = w[m] BY <1>4, TotalIs DEF b
<1>11. w[m] \in Int BY <1>4 DEF Sums
<1> QED BY <1>3, <1>7, <1>9, <1>10, <1>11

\* the recursive function by which FoldSeq adds up the values of v at T
Adds(f, v, D) ==
  f = [T \in SUBSET D |-> IF T = {} THEN 0
                          ELSE v[CHOOSE x \in T : TRUE] + f[T \ {CHOOSE x \in T : TRUE}]]

LEMMA AddsAre ==
  ASSUME NEW f, NEW v, NEW D
  PROVE  Adds(f, v, D)
           <=> /\ f = [T \in SUBSET D |-> f[T]]
               /\ f[{}] = 0
               /\ \A T \in SUBSET D : T # {} =>
                    f[T] = v[CHOOSE x \in T : TRUE] + f[T \ {CHOOSE x \in T : TRUE}]
<1> DEFINE g(T) == IF T = {} THEN 0
                   ELSE v[CHOOSE x \in T : TRUE] + f[T \ {CHOOSE x \in T : TRUE}]
<1>1. Adds(f, v, D) <=> f = [T \in SUBSET D |-> g(T)] BY Zenon DEF Adds
<1>2. g({}) = 0 /\ \A T \in SUBSET D : T # {} =>
        g(T) = v[CHOOSE x \in T : TRUE] + f[T \ {CHOOSE x \in T : TRUE}] 
  BY Zenon
<1> HIDE DEF g
<1>3. (f = [T \in SUBSET D |-> g(T)])
        <=> f = [T \in SUBSET D |-> f[T]] /\ \A T \in SUBSET D : f[T] = g(T)
  OBVIOUS
<1>4. {} \in SUBSET D OBVIOUS
<1> QED BY <1>1, <1>2, <1>3, <1>4

\* it comes to the sum, in whichever order it takes the values
LEMMA FoldIs ==
  ASSUME NEW m \in Nat, NEW v \in [1..m -> Int], NEW w, Sums(w, v, m)
  PROVE  FoldSeq(+, 0, v) = w[m]
<1> DEFINE D == 1..m
           h == [T \in SUBSET D |-> Total(v, T, m)]
<1>1. h = [T \in SUBSET D |-> h[T]] /\ \A T \in SUBSET D : h[T] = Total(v, T, m) OBVIOUS
<1>2. h[{}] = 0
  <2> DEFINE z == [k \in 0..m |-> 0]
  <2>1. Sums(z, Only(v, {}, m), m) BY DEF Sums, Only
  <2>2. Total(v, {}, m) = z[m] BY <2>1, TotalIs
  <2> QED BY <1>1, <2>2
<1> HIDE DEF h
<1>3. ASSUME NEW T \in SUBSET D, T # {}
      PROVE  h[T] = v[CHOOSE x \in T : TRUE] + h[T \ {CHOOSE x \in T : TRUE}]
  <2>1. PICK c : c = CHOOSE x \in T : TRUE OBVIOUS
  <2>2. c \in T BY <1>3, <2>1
  <2>3. T \ {c} \in SUBSET D OBVIOUS
  <2>4. Total(v, T, m) = v[c] + Total(v, T \ {c}, m) BY <2>2, TotalWithout
  <2>5. h[T] = Total(v, T, m) /\ h[T \ {c}] = Total(v, T \ {c}, m) BY <1>1, <2>3
  <2>6. h[T] = v[c] + h[T \ {c}] BY <2>4, <2>5
  <2> QED BY <2>1, <2>6
<1>4. Adds(h, v, D) BY <1>1, <1>2, <1>3, AddsAre
<1>5. ASSUME NEW f, Adds(f, v, D) PROVE f = h
  <2> DEFINE B == {k \in Nat : \E T \in SUBSET D : Cardinality(T) = k /\ f[T] # h[T]}
  <2>1. ASSUME B # {} PROVE FALSE
    <3>1. B \in SUBSET Nat OBVIOUS
    <3>2. PICK k \in B : \A j \in B : k <= j
      <4> HIDE DEF B
      <4> QED BY <2>1, <3>1, Least
    <3>3. PICK T \in SUBSET D : Cardinality(T) = k /\ f[T] # h[T] OBVIOUS
    <3>4. IsFiniteSet(T)
      <4>1. IsFiniteSet(D) BY FS_Interval
      <4> QED BY <4>1, FS_Subset
    <3>5. T # {} BY <1>2, <1>5, <3>3, AddsAre
    <3>6. PICK c : c = CHOOSE x \in T : TRUE OBVIOUS
    <3>7. c \in T BY <3>5, <3>6
    <3>8. T \ {c} \in SUBSET D /\ Cardinality(T \ {c}) = k - 1
      BY <3>3, <3>4, <3>7, FS_RemoveElement
    <3>9. k \in Nat /\ Cardinality(T \ {c}) \in Nat
      <4>1. IsFiniteSet(T \ {c}) BY <3>4, FS_Subset
      <4> QED BY <4>1, FS_CardinalityType
    <3>10. f[T \ {c}] = h[T \ {c}] BY <3>2, <3>8, <3>9
    <3>11. f[T] = v[c] + f[T \ {c}] BY <1>5, <3>5, <3>6, AddsAre
    <3>12. h[T] = v[c] + h[T \ {c}] BY <1>3, <3>5, <3>6
    <3> QED BY <3>3, <3>10, <3>11, <3>12
  <2>2. \A T \in SUBSET D : IsFiniteSet(T) /\ Cardinality(T) \in Nat
    <3> TAKE T \in SUBSET D
    <3>1. IsFiniteSet(D) BY FS_Interval
    <3>2. IsFiniteSet(T) BY <3>1, FS_Subset
    <3> QED BY <3>2, FS_CardinalityType
  <2>3. \A T \in SUBSET D : f[T] = h[T] BY <2>1, <2>2
  <2>4. f = [T \in SUBSET D |-> f[T]] BY <1>5, AddsAre
  <2> QED BY <1>1, <2>3, <2>4
<1>6. FoldSeq(+, 0, v) = (CHOOSE f : Adds(f, v, D))[D]
  <2>1. DOMAIN v = D OBVIOUS
  <2>2. FoldSeq(+, 0, v) = (CHOOSE f : Adds(f, v, DOMAIN v))[DOMAIN v]
    BY Zenon DEF FoldSeq, FoldFunction, FoldFunctionOnSet, MapThenFoldSet, Adds
  <2> QED BY <2>1, <2>2
<1>7. (CHOOSE f : Adds(f, v, D)) = h
  <2>1. Adds(CHOOSE f : Adds(f, v, D), v, D) BY <1>4
  <2> QED BY <1>5, <2>1
<1>8. Only(v, D, m) = v BY DEF Only
<1>9. h[D] = w[m]
  <2>1. Sums(w, Only(v, D, m), m) BY <1>8
  <2>2. Total(v, D, m) = w[m] BY <2>1, TotalIs
  <2>3. D \in SUBSET D OBVIOUS
  <2> QED BY <1>1, <2>2, <2>3
<1> QED BY <1>6, <1>7, <1>9
=============================================================================
