---------------------------- MODULE HistoryProofs ---------------------------
(***************************************************************************)
(* Proofs about History.  A sequence s that the ring is described by is    *)
(* carried through every operation: an insertion puts the new commit after *)
(* the one it is made from, a deletion takes one commit out of s, and what *)
(* the walks over the ring compute is read off s.                          *)
(***************************************************************************)
EXTENDS History, Paths

-----------------------------------------------------------------------------
(* Rings.                                                                  *)

\* s lists the n commits l, each once, in the order of nx, which pv reverses
IsRing(s, n, l, nx, pv, f) ==
  /\ s \in Seq(Commits) /\ n = Len(s) /\ n = Cardinality(l)
  /\ \A i \in 1..n : s[i] \in l
  /\ \A c \in l : \E i \in 1..n : s[i] = c
  /\ \A i, j \in 1..n : s[i] = s[j] => i = j
  /\ \A i \in 1..(n - 1) : nx[s[i]] = s[i + 1] /\ pv[s[i + 1]] = s[i]
  /\ n > 0 => s[1] = f /\ nx[s[n]] = s[1] /\ pv[s[1]] = s[n]

\* the sequence is the walk of its length from its first commit
LEMMA RingWalk ==
  ASSUME NEW s, NEW n \in Nat, NEW l, NEW nx, NEW pv, NEW f, IsRing(s, n, l, nx, pv, f)
  PROVE  Follows(s, n, f, nx)
<1>1. s \in Seq(Commits) /\ n = Len(s) BY DEF IsRing
<1>2. s = [i \in 1..n |-> s[i]] BY <1>1
<1>3. ASSUME NEW i \in 1..n PROVE s[i] = IF i = 1 THEN f ELSE nx[s[i - 1]]
  <2>1. CASE i = 1 BY <1>1, <2>1 DEF IsRing
  <2>2. CASE i # 1
    <3>1. PICK k \in 1..(n - 1) : k = i - 1 /\ i = k + 1 BY <1>1, <2>2
    <3>2. nx[s[k]] = s[k + 1] BY <1>1, <3>1 DEF IsRing
    <3> QED BY <2>2, <3>1, <3>2
  <2> QED BY <2>1, <2>2
<1> QED BY <1>1, <1>2, <1>3, FollowsAre

\* nx2 and pv2 are nx and pv with new linked in after from
LinksIn(nx2, pv2, nx, pv, l, from, new) ==
  /\ \A c \in l : nx2[c] = IF c = from THEN new ELSE nx[c]
  /\ nx2[new] = nx[from]
  /\ \A c \in l : pv2[c] = IF c = nx[from] THEN new ELSE pv[c]
  /\ pv2[new] = from

\* nx2 and pv2 are nx and pv with the neighbours of victim linked to each other,
\* and f2 is the first commit if f was
LinksOut(nx2, pv2, f2, nx, pv, f, l, victim) ==
  /\ f2 = IF victim = f THEN nx[victim] ELSE f
  /\ \A c \in l : nx2[c] = IF c = pv[victim] THEN nx[victim] ELSE nx[c]
  /\ \A c \in l : pv2[c] = IF c = nx[victim] THEN pv[victim] ELSE pv[c]

LEMMA InsertRing ==
  ASSUME NEW s, NEW n \in Nat, NEW l \in SUBSET Commits, NEW nx \in [Commits -> Commits],
         NEW pv \in [Commits -> Commits], NEW f, IsRing(s, n, l, nx, pv, f), IsFiniteSet(l),
         NEW i \in 1..n, NEW new \in Commits, new \notin l,
         NEW from, from = s[i], NEW t \in Seq(Commits), Inserted(t, s, i, new),
         NEW nx2, NEW pv2, LinksIn(nx2, pv2, nx, pv, l, from, new)
  PROVE  IsRing(t, n + 1, l \cup {new}, nx2, pv2, f) /\ nx[from] \in l
<1>1. n = Len(s) /\ n \in Nat /\ i \in 1..n BY DEF IsRing
<1>2. /\ s \in Seq(Commits) /\ n = Cardinality(l)
      /\ \A j \in 1..n : s[j] \in l
      /\ \A c \in l : \E j \in 1..n : s[j] = c
      /\ \A j, k \in 1..n : s[j] = s[k] => j = k
      /\ \A j \in 1..(n - 1) : nx[s[j]] = s[j + 1] /\ pv[s[j + 1]] = s[j]
      /\ n > 0 => s[1] = f /\ nx[s[n]] = s[1] /\ pv[s[1]] = s[n]
  BY DEF IsRing
<1>0. s[1] = f /\ nx[s[n]] = s[1] /\ pv[s[1]] = s[n] BY <1>1, <1>2
<1>3. /\ t \in Seq(Commits) /\ Len(t) = n + 1
      /\ \A j \in 1..(n + 1) : t[j] = IF j <= i THEN s[j]
                                     ELSE IF j = i + 1 THEN new ELSE s[j - 1]
  BY <1>1 DEF Inserted
<1>4. PICK m \in 1..n : m = (IF i = n THEN 1 ELSE i + 1) /\ nx[from] = s[m]
  <2>1. CASE i = n BY <1>1, <1>2, <2>1
  <2>2. CASE i # n BY <1>1, <1>2, <2>2
  <2> QED BY <2>1, <2>2
<1>5. /\ \A c \in l : nx2[c] = IF c = from THEN new ELSE nx[c]
      /\ nx2[new] = s[m]
      /\ \A c \in l : pv2[c] = IF c = s[m] THEN new ELSE pv[c]
      /\ pv2[new] = from
  BY <1>1, <1>2, <1>4 DEF LinksIn
<1> HIDE DEF IsRing
<1>6. ASSUME NEW j \in 1..n
      PROVE  nx2[s[j]] = (IF j = i THEN new ELSE nx[s[j]])
  BY <1>1, <1>2, <1>5
<1>7. ASSUME NEW j \in 1..n
      PROVE  pv2[s[j]] = (IF j = m THEN new ELSE pv[s[j]])
  BY <1>1, <1>2, <1>4, <1>5
<1>8. ASSUME NEW j \in 1..(n + 1) PROVE t[j] \in l \cup {new}
  <2>1. CASE j <= i BY <1>1, <1>2, <1>3, <2>1
  <2>2. CASE j = i + 1 BY <1>1, <1>3, <2>2
  <2>3. CASE ~(j <= i) /\ j # i + 1
    <3>1. j - 1 \in 1..n BY <1>1, <2>3
    <3> QED BY <1>2, <1>3, <2>3, <3>1
  <2> QED BY <2>1, <2>2, <2>3
<1>9. ASSUME NEW c \in l \cup {new} PROVE \E j \in 1..(n + 1) : t[j] = c
  <2>1. CASE c = new
    <3>1. i + 1 \in 1..(n + 1) /\ ~(i + 1 <= i) BY <1>1
    <3> QED BY <1>3, <2>1, <3>1
  <2>2. CASE c # new
    <3>1. PICK j \in 1..n : s[j] = c BY <1>2, <2>2
    <3>2. CASE j <= i
      <4>1. j \in 1..(n + 1) BY <1>1
      <4> QED BY <1>3, <3>1, <3>2, <4>1
    <3>3. CASE ~(j <= i)
      <4>1. j + 1 \in 1..(n + 1) /\ ~(j + 1 <= i) /\ j + 1 # i + 1 /\ (j + 1) - 1 = j
        BY <1>1, <3>3
      <4>2. t[j + 1] = s[(j + 1) - 1] BY <1>3, <4>1
      <4> QED BY <3>1, <4>1, <4>2
    <3> QED BY <3>2, <3>3
  <2> QED BY <2>1, <2>2
<1>10. ASSUME NEW j \in 1..(n + 1), NEW k \in 1..(n + 1), t[j] = t[k] PROVE j = k
  <2>1. ASSUME NEW x \in 1..(n + 1)
        PROVE  \/ x = i + 1 /\ t[x] = new
               \/ x # i + 1 /\ \E y \in 1..n : t[x] = s[y] /\ y = IF x <= i THEN x ELSE x - 1
    <3>1. CASE x <= i
      <4>1. x \in 1..n /\ x # i + 1 BY <1>1, <3>1
      <4> QED BY <1>3, <3>1, <4>1
    <3>2. CASE x = i + 1 BY <1>1, <1>3, <3>2
    <3>3. CASE ~(x <= i) /\ x # i + 1
      <4>1. x - 1 \in 1..n BY <1>1, <3>3
      <4> QED BY <1>3, <3>3, <4>1
    <3> QED BY <3>1, <3>2, <3>3
  <2>2. ASSUME NEW x \in 1..(n + 1), x # i + 1 PROVE t[x] # new
    <3>1. PICK y \in 1..n : t[x] = s[y] BY <2>1, <2>2
    <3> QED BY <1>2, <3>1
  <2>3. CASE j = i + 1 \/ k = i + 1
    BY <1>10, <2>1, <2>2, <2>3
  <2>4. CASE j # i + 1 /\ k # i + 1
    <3>1. PICK y \in 1..n : t[j] = s[y] /\ y = IF j <= i THEN j ELSE j - 1 BY <2>1, <2>4
    <3>2. PICK z \in 1..n : t[k] = s[z] /\ z = IF k <= i THEN k ELSE k - 1 BY <2>1, <2>4
    <3>3. y = z
      <4>1. s[y] = s[z] BY <1>10, <3>1, <3>2
      <4> QED BY <1>2, <4>1
    <3> QED BY <1>1, <2>4, <3>1, <3>2, <3>3
  <2> QED BY <2>3, <2>4
<1>11. ASSUME NEW j \in 1..n PROVE nx2[t[j]] = t[j + 1] /\ pv2[t[j + 1]] = t[j]
  <2>1. j \in 1..(n + 1) /\ j + 1 \in 1..(n + 1) /\ (j + 1) - 1 = j BY <1>1
  <2>2. CASE j < i
    <3>1. t[j] = s[j] /\ t[j + 1] = s[j + 1] BY <1>1, <1>3, <2>1, <2>2
    <3>2. j \in 1..(n - 1) /\ j # i /\ j + 1 \in 1..n /\ j + 1 # m BY <1>1, <1>4, <2>2
    <3> QED BY <1>2, <1>6, <1>7, <3>1, <3>2
  <2>3. CASE j = i
    <3>1. t[j] = from /\ t[j + 1] = new BY <1>1, <1>3, <2>1, <2>3
    <3> QED BY <1>1, <1>2, <1>5, <3>1
  <2>4. CASE j = i + 1
    <3>1. t[j] = new /\ t[j + 1] = s[j] BY <1>1, <1>3, <2>1, <2>4
    <3>2. m = j BY <1>1, <1>4, <2>4
    <3> QED BY <1>5, <1>7, <3>1, <3>2
  <2>5. CASE j > i + 1
    <3>1. PICK k \in 1..(n - 1) : k = j - 1 /\ j = k + 1 BY <1>1, <2>5
    <3>2. t[j] = s[k] /\ t[j + 1] = s[j] BY <1>1, <1>3, <2>1, <2>5, <3>1
    <3>3. k \in 1..n /\ k # i /\ j # m BY <1>1, <1>4, <2>5, <3>1
    <3> QED BY <1>2, <1>6, <1>7, <3>1, <3>2, <3>3
  <2> QED BY <1>1, <2>2, <2>3, <2>4, <2>5
<1>12. t[1] = f /\ nx2[t[n + 1]] = t[1] /\ pv2[t[1]] = t[n + 1]
  <2>1. t[1] = s[1] BY <1>1, <1>3
  <2>2. CASE i = n
    <3>1. t[n + 1] = new /\ m = 1 BY <1>1, <1>3, <1>4, <2>2
    <3> QED BY <1>1, <1>2, <1>5, <1>7, <2>1, <3>1
  <2>3. CASE i # n
    <3>1. n + 1 \in 1..(n + 1) /\ ~(n + 1 <= i) /\ n + 1 # i + 1 /\ (n + 1) - 1 = n BY <1>1, <2>3
    <3>2. t[n + 1] = s[n] BY <1>3, <3>1
    <3>3. n \in 1..n /\ n # i /\ 1 \in 1..n /\ 1 # m BY <1>1, <1>4, <2>3
    <3>4. nx2[s[n]] = nx[s[n]] /\ pv2[s[1]] = pv[s[1]] BY <1>6, <1>7, <3>3
    <3> QED BY <1>0, <2>1, <3>2, <3>4
  <2> QED BY <2>2, <2>3
<1>13. Len(t) = Cardinality(l \cup {new}) BY <1>2, <1>3, FS_AddElement
<1>14. n + 1 = Len(t) /\ (n + 1) - 1 = n BY <1>1, <1>3
<1>15. IsRing(t, n + 1, l \cup {new}, nx2, pv2, f)
  BY <1>3, <1>8, <1>9, <1>10, <1>11, <1>12, <1>13, <1>14 DEF IsRing
<1> QED BY <1>2, <1>4, <1>15

LEMMA RemoveRing ==
  ASSUME NEW s, NEW n \in Nat, NEW l \in SUBSET Commits, NEW nx \in [Commits -> Commits],
         NEW pv \in [Commits -> Commits], NEW f, IsRing(s, n, l, nx, pv, f), IsFiniteSet(l),
         NEW i \in 1..n, NEW victim, victim = s[i], NEW t \in Seq(Commits), Removed(t, s, i),
         NEW nx2, NEW pv2, NEW f2,
         LinksOut(nx2, pv2, f2, nx, pv, f, l, victim)
  PROVE  /\ IsRing(t, n - 1, l \ {victim}, nx2, pv2, f2)
         /\ victim \in l /\ nx[victim] \in l /\ pv[victim] \in l
<1>1. n = Len(s) /\ n \in Nat /\ i \in 1..n BY DEF IsRing
<1>2. /\ s \in Seq(Commits) /\ n = Cardinality(l)
      /\ \A j \in 1..n : s[j] \in l
      /\ \A c \in l : \E j \in 1..n : s[j] = c
      /\ \A j, k \in 1..n : s[j] = s[k] => j = k
      /\ \A j \in 1..(n - 1) : nx[s[j]] = s[j + 1] /\ pv[s[j + 1]] = s[j]
      /\ n > 0 => s[1] = f /\ nx[s[n]] = s[1] /\ pv[s[1]] = s[n]
  BY DEF IsRing
<1>0. s[1] = f /\ nx[s[n]] = s[1] /\ pv[s[1]] = s[n] BY <1>1, <1>2
<1>3. /\ Len(t) = n - 1
      /\ \A j \in 1..(n - 1) : t[j] = IF j < i THEN s[j] ELSE s[j + 1]
  BY <1>1 DEF Removed
<1>4. PICK b \in 1..n : b = (IF i = n THEN 1 ELSE i + 1) /\ nx[victim] = s[b]
  <2>1. CASE i = n BY <1>1, <1>2, <2>1
  <2>2. CASE i # n BY <1>1, <1>2, <2>2
  <2> QED BY <2>1, <2>2
<1>5. PICK a \in 1..n : a = (IF i = 1 THEN n ELSE i - 1) /\ pv[victim] = s[a]
  <2>1. CASE i = 1 BY <1>1, <1>2, <2>1
  <2>2. CASE i # 1
    <3>1. PICK k \in 1..(n - 1) : k = i - 1 /\ i = k + 1 BY <1>1, <2>2
    <3>2. pv[s[k + 1]] = s[k] BY <1>2, <3>1
    <3>3. k \in 1..n BY <1>1, <3>1
    <3> QED BY <2>2, <3>1, <3>2, <3>3
  <2> QED BY <2>1, <2>2
<1>6. ASSUME NEW j \in 1..n
      PROVE  nx2[s[j]] = (IF j = a THEN s[b] ELSE nx[s[j]])
  <2>1. s[j] \in l /\ (s[j] = s[a] <=> j = a) BY <1>2
  <2> QED BY <1>4, <1>5, <2>1 DEF LinksOut
<1>7. ASSUME NEW j \in 1..n
      PROVE  pv2[s[j]] = (IF j = b THEN s[a] ELSE pv[s[j]])
  <2>1. s[j] \in l /\ (s[j] = s[b] <=> j = b) BY <1>2
  <2> QED BY <1>4, <1>5, <2>1 DEF LinksOut
<1>8. ASSUME NEW j \in 1..(n - 1)
      PROVE  \E k \in 1..n : k # i /\ t[j] = s[k] /\ k = IF j < i THEN j ELSE j + 1
  <2>1. CASE j < i
    <3>1. j \in 1..n /\ j # i BY <1>1, <2>1
    <3> QED BY <1>3, <2>1, <3>1
  <2>2. CASE ~(j < i)
    <3>1. j + 1 \in 1..n /\ j + 1 # i BY <1>1, <2>2
    <3> QED BY <1>3, <2>2, <3>1
  <2> QED BY <2>1, <2>2
<1>9. ASSUME NEW j \in 1..(n - 1) PROVE t[j] \in l \ {victim}
  <2>1. PICK k \in 1..n : k # i /\ t[j] = s[k] BY <1>8
  <2>2. s[k] # s[i] BY <1>1, <1>2, <2>1
  <2> QED BY <1>2, <2>1, <2>2
<1>10. ASSUME NEW c \in l \ {victim} PROVE \E j \in 1..(n - 1) : t[j] = c
  <2>1. PICK k \in 1..n : s[k] = c /\ k # i BY <1>2
  <2>2. CASE k < i
    <3>1. k \in 1..(n - 1) BY <1>1, <2>2
    <3> QED BY <1>3, <2>1, <2>2, <3>1
  <2>3. CASE ~(k < i)
    <3>1. PICK j \in 1..(n - 1) : k = j + 1 /\ ~(j < i)
      <4>1. k - 1 \in 1..(n - 1) /\ k = (k - 1) + 1 /\ ~(k - 1 < i) BY <1>1, <2>1, <2>3
      <4> QED BY <4>1
    <3> QED BY <1>3, <2>1, <3>1
  <2> QED BY <2>2, <2>3
<1>11. ASSUME NEW j \in 1..(n - 1), NEW k \in 1..(n - 1), t[j] = t[k] PROVE j = k
  <2>1. PICK y \in 1..n : t[j] = s[y] /\ y = IF j < i THEN j ELSE j + 1 BY <1>8
  <2>2. PICK z \in 1..n : t[k] = s[z] /\ z = IF k < i THEN k ELSE k + 1 BY <1>8
  <2>3. y = z
    <3>1. s[y] = s[z] BY <1>11, <2>1, <2>2
    <3> QED BY <1>2, <3>1
  <2> QED BY <1>1, <2>1, <2>2, <2>3
<1>12. ASSUME NEW j \in 1..(n - 2) PROVE nx2[t[j]] = t[j + 1] /\ pv2[t[j + 1]] = t[j]
  <2>1. j \in 1..(n - 1) /\ j + 1 \in 1..(n - 1) BY <1>1
  <2>2. CASE j + 1 < i
    <3>1. t[j] = s[j] /\ t[j + 1] = s[j + 1]
      <4>1. j < i BY <1>1, <2>2
      <4> QED BY <1>3, <2>1, <2>2, <4>1
    <3>2. j \in 1..n /\ j # a /\ j + 1 \in 1..n /\ j + 1 # b BY <1>1, <1>4, <1>5, <2>2
    <3> QED BY <1>2, <1>6, <1>7, <2>1, <3>1, <3>2
  <2>3. CASE j + 1 = i
    <3>1. t[j] = s[j] /\ t[j + 1] = s[(j + 1) + 1] BY <1>1, <1>3, <2>1, <2>3
    <3>2. j = a /\ (j + 1) + 1 = b BY <1>1, <1>4, <1>5, <2>3
    <3> QED BY <1>6, <1>7, <3>1, <3>2
  <2>4. CASE j + 1 > i
    <3>1. PICK k \in 1..(n - 1) : k = j + 1 BY <2>1
    <3>2. t[j] = s[k] /\ t[j + 1] = s[k + 1]
      <4>1. ~(j < i) /\ ~(k < i) BY <1>1, <2>4, <3>1
      <4> QED BY <1>3, <2>1, <3>1, <4>1
    <3>3. k \in 1..n /\ k # a /\ k + 1 \in 1..n /\ k + 1 # b BY <1>1, <1>4, <1>5, <2>4, <3>1
    <3>4. nx2[s[k]] = nx[s[k]] /\ pv2[s[k + 1]] = pv[s[k + 1]] BY <1>6, <1>7, <3>3
    <3> QED BY <1>2, <3>2, <3>4
  <2> QED BY <1>1, <2>2, <2>3, <2>4
<1>13. ASSUME n > 1 PROVE t[1] = f2 /\ nx2[t[n - 1]] = t[1] /\ pv2[t[1]] = t[n - 1]
  <2>0. 1 \in 1..(n - 1) /\ n - 1 \in 1..(n - 1) /\ (n - 1) + 1 = n /\ 1 \in 1..n /\ n \in 1..n
    BY <1>1, <1>13
  <2>1. CASE i = 1
    <3>1. t[1] = s[1 + 1] /\ t[n - 1] = s[n]
      <4>1. ~(1 < i) /\ ~(n - 1 < i) BY <1>13, <2>1
      <4> QED BY <1>3, <2>0, <4>1
    <3>2. a = n /\ b = 1 + 1 BY <1>1, <1>4, <1>5, <1>13, <2>1
    <3>3. f2 = s[b] BY <1>0, <1>4, <2>1 DEF LinksOut
    <3> QED BY <1>6, <1>7, <3>1, <3>2, <3>3
  <2>2. CASE i = n
    <3>1. t[1] = s[1] /\ t[n - 1] = s[n - 1]
      <4>1. 1 < i /\ n - 1 < i BY <1>13, <2>2
      <4> QED BY <1>3, <2>0, <4>1
    <3>2. a = n - 1 /\ b = 1 BY <1>1, <1>4, <1>5, <1>13, <2>2
    <3>3. f2 = s[1]
      <4>1. s[1] # victim BY <1>2, <1>13, <2>0, <2>2
      <4> QED BY <1>0, <4>1 DEF LinksOut
    <3> QED BY <1>6, <1>7, <3>1, <3>2, <3>3
  <2>3. CASE i # 1 /\ i # n
    <3>1. t[1] = s[1] /\ t[n - 1] = s[n]
      <4>1. 1 < i /\ ~(n - 1 < i) BY <1>1, <2>3
      <4> QED BY <1>3, <2>0, <4>1
    <3>2. a # n /\ b # 1 BY <1>1, <1>4, <1>5, <2>3
    <3>3. f2 = s[1]
      <4>1. s[1] # victim BY <1>1, <1>2, <2>0, <2>3
      <4> QED BY <1>0, <4>1 DEF LinksOut
    <3>4. nx2[s[n]] = nx[s[n]] /\ pv2[s[1]] = pv[s[1]] BY <1>6, <1>7, <2>0, <3>2
    <3> QED BY <1>2, <3>1, <3>3, <3>4
  <2> QED BY <2>1, <2>2, <2>3
<1>14. victim \in l /\ Len(t) = Cardinality(l \ {victim})
  <2>1. victim \in l BY <1>1, <1>2
  <2>2. Cardinality(l \ {victim}) = Cardinality(l) - 1 BY <2>1, FS_RemoveElement
  <2> QED BY <1>2, <1>3, <2>1, <2>2
<1>15. IsRing(t, n - 1, l \ {victim}, nx2, pv2, f2)
  <2>1. n - 1 = Len(t) /\ (n - 1) - 1 = n - 2 /\ (n - 1 > 0 => n > 1) BY <1>1, <1>3
  <2>2. \A j \in 1..((n - 1) - 1) : nx2[t[j]] = t[j + 1] /\ pv2[t[j + 1]] = t[j]
    BY <1>12, <2>1
  <2>3. n - 1 > 0 => t[1] = f2 /\ nx2[t[n - 1]] = t[1] /\ pv2[t[1]] = t[n - 1]
    BY <1>13, <2>1
  <2> QED BY <1>9, <1>10, <1>11, <1>14, <2>1, <2>2, <2>3 DEF IsRing
<1> QED BY <1>2, <1>4, <1>5, <1>14, <1>15

LEMMA WalkOfRing ==
  ASSUME NEW s, NEW n \in Nat, NEW l, NEW nx, NEW pv, NEW f, IsRing(s, n, l, nx, pv, f)
  PROVE  Path(n, f, nx) = s
BY RingWalk, PathIs

-----------------------------------------------------------------------------
(* The invariant.                                                          *)

\* s describes the history
Describes(s) == IsRing(s, Cardinality(live), live, next, prev, first)

IInv ==
  /\ TypeOK
  /\ \E s \in Seq(Commits) : Describes(s)
  /\ commit_list \in live => first = commit_list
  /\ call # "none" => commit_list \in live
  /\ FaultNeedsFirstDeleted /\ DisplayMissesLast /\ InfosShowsNext

LEMMA Finite ==
  /\ commit_list \in Commits
  /\ \A l \in SUBSET Commits : /\ IsFiniteSet(l) /\ Cardinality(l) \in Nat
                               /\ Cardinality(l) <= MaxCommits
<1>1. MaxCommits \in Nat /\ MaxCommits >= 1 BY HistoryAssumption
<1>2. IsFiniteSet(Commits) /\ Cardinality(Commits) = MaxCommits
  BY <1>1, FS_Interval DEF Commits
<1>3. ASSUME NEW l \in SUBSET Commits
      PROVE  IsFiniteSet(l) /\ Cardinality(l) \in Nat /\ Cardinality(l) <= MaxCommits
  BY <1>2, FS_Subset, FS_CardinalityType
<1> QED BY <1>1, <1>3 DEF Commits, commit_list

\* what the invariant says of the sequence
LEMMA IInvGives ==
  ASSUME IInv
  PROVE  /\ live \in SUBSET Commits /\ IsFiniteSet(live)
         /\ Cardinality(live) \in Nat /\ Cardinality(live) <= MaxCommits
         /\ next \in [Commits -> Commits] /\ prev \in [Commits -> Commits]
         /\ first \in Commits
<1>1. live \subseteq 1..nextId /\ nextId \in 0..MaxCommits BY DEF IInv, TypeOK
<1>2. live \in SUBSET Commits BY <1>1, HistoryAssumption DEF Commits
<1> QED BY <1>2, Finite DEF IInv, TypeOK

LEMMA OrderIs ==
  ASSUME NEW s, Cardinality(live) \in Nat, Describes(s)
  PROVE  Order = s
<1>1. Order = Path(Cardinality(live), first, next) BY Zenon DEF Order, Path
<1> QED BY <1>1, WalkOfRing DEF Describes

\* the same of the next state
LEMMA NextOrderIs ==
  ASSUME NEW s, Cardinality(live') \in Nat,
         IsRing(s, Cardinality(live'), live', next', prev', first')
  PROVE  Order' = s
<1>1. Order' = Path(Cardinality(live'), first', next') BY Zenon DEF Order, Path
<1> QED BY <1>1, WalkOfRing

\* the loops pass every commit of the sequence but the last
LEMMA PassedIs ==
  ASSUME NEW s, NEW n \in Nat, n > 0, n <= MaxCommits, next \in [Commits -> Commits],
         IsRing(s, n, live, next, prev, commit_list)
  PROVE  /\ Passed \in Seq(Commits) /\ Len(Passed) = n - 1
         /\ \A i \in 1..(n - 1) : Passed[i] = s[i]
         /\ s \in Seq(Commits) /\ Len(s) = n /\ s[n] = prev[commit_list]
<1>1. MaxCommits \in Nat BY HistoryAssumption
<1>2. PICK f \in [1..MaxCommits -> Commits] : Follows(f, MaxCommits, commit_list, next)
  BY <1>1, Finite, SomePath
<1>3. Path(MaxCommits, commit_list, next) = f BY <1>1, <1>2, PathIs
<1>4. \A i \in 1..n : f[i] = s[i]
  <2>1. \A i \in 1..MaxCommits : f[i] = IF i = 1 THEN commit_list ELSE next[f[i - 1]]
    BY <1>1, <1>2, FollowsAre
  <2>2. PICK g : g = [i \in 1..n |-> f[i]] OBVIOUS
  <2>3. \A i \in 1..n : g[i] = f[i] /\ i \in 1..MaxCommits /\ (i # 1 => i - 1 \in 1..n)
    BY <1>1, <2>2
  <2>4. g = [i \in 1..n |-> g[i]] BY <2>2
  <2>5. \A i \in 1..n : g[i] = IF i = 1 THEN commit_list ELSE next[g[i - 1]]
    BY <2>1, <2>3
  <2>6. Follows(g, n, commit_list, next) BY <2>4, <2>5, FollowsAre
  <2>7. g = s BY <2>6, RingWalk, OnePath
  <2> QED BY <2>3, <2>7
<1> DEFINE ends == {i \in Commits : f[i] = prev[commit_list]}
           end  == CHOOSE i \in ends : \A j \in ends : i <= j
<1>5. Passed = SubSeq(f, 1, end - 1)
  <2> DEFINE w == Path(MaxCommits, commit_list, next)
             wends == {i \in Commits : w[i] = prev[commit_list]}
  <2>1. Passed = SubSeq(w, 1, (CHOOSE i \in wends : \A j \in wends : i <= j) - 1)
    BY Zenon DEF Passed, Path, Commits, FirstCommit
  <2> QED BY <1>3, <2>1
<1>6. /\ s \in Seq(Commits) /\ Len(s) = n /\ s[n] = prev[commit_list]
      /\ \A i, j \in 1..n : s[i] = s[j] => i = j
  <2>1. s[1] = commit_list /\ prev[s[1]] = s[n] BY DEF IsRing
  <2> QED BY <2>1 DEF IsRing
<1>7. end = n
  <2>1. n \in ends BY <1>1, <1>4, <1>6 DEF Commits
  <2>2. ASSUME NEW j \in ends PROVE n <= j
    <3>1. j \in Nat /\ j >= 1 /\ f[j] = s[n] BY <1>1, <1>6 DEF Commits
    <3>2. ASSUME j < n PROVE FALSE
      <4>1. j \in 1..n /\ n \in 1..n BY <3>1, <3>2
      <4> QED BY <1>4, <1>6, <3>1, <3>2, <4>1
    <3> QED BY <3>1, <3>2
  <2>3. end \in ends /\ \A j \in ends : end <= j
    <3> HIDE DEF ends
    <3> QED BY <2>1, <2>2
  <2>4. end \in Nat BY <1>1, <2>3 DEF Commits
  <2> HIDE DEF end, ends
  <2> QED BY <2>1, <2>2, <2>3, <2>4
<1> HIDE DEF end, ends
<1>8. f \in Seq(Commits) /\ Len(f) = MaxCommits BY <1>1
<1>9. /\ Passed \in Seq(Commits) /\ Len(Passed) = n - 1
      /\ \A i \in 1..(n - 1) : Passed[i] = f[i]
  BY <1>1, <1>5, <1>7, <1>8
<1>10. \A i \in 1..(n - 1) : i \in 1..n OBVIOUS
<1> QED BY <1>4, <1>6, <1>9, <1>10

-----------------------------------------------------------------------------
(* What the operations do to the sequence.                                 *)

\* an insertion puts the new commit right after the one it is made from
LEMMA Inserts ==
  ASSUME IInv, NEW from \in Commits, Insert(from)
  PROVE  \E s, t \in Seq(Commits) : \E i \in 1..Len(s) :
           /\ Describes(s) /\ Describes(t)'
           /\ s[i] = from /\ t = InsertAt(s, i + 1, nextId + 1)
           /\ nextId + 1 \in Commits \ ToSet(s) /\ fault' = FALSE
<1>1. /\ live \in SUBSET Commits /\ IsFiniteSet(live) /\ Cardinality(live) \in Nat
      /\ next \in [Commits -> Commits] /\ prev \in [Commits -> Commits]
  BY IInvGives
<1>2. PICK new : new = nextId + 1 OBVIOUS
<1>3. /\ from \in live /\ new \in Commits
      /\ live' = live \cup {new} /\ first' = first
      /\ next' = [next EXCEPT ![new] = next[from], ![from] = new]
      /\ prev' = [prev EXCEPT ![next[from]] = new, ![new] = from]
      /\ fault' = (next[from] \notin live)
  BY <1>2 DEF Insert, BackLinks
<1>4. new \notin live
  <2>1. live \subseteq 1..nextId /\ nextId \in Nat BY DEF IInv, TypeOK
  <2> QED BY <1>2, <2>1
<1>5. PICK n \in Nat : n = Cardinality(live) BY <1>1
<1>6. PICK s \in Seq(Commits) : IsRing(s, n, live, next, prev, first)
  BY <1>5 DEF IInv, Describes
<1>7. /\ n = Len(s) /\ \A c \in live : \E j \in 1..n : s[j] = c
      /\ \A j \in 1..n : s[j] \in live
  BY <1>6 DEF IsRing
<1>8. PICK i \in 1..n : s[i] = from BY <1>3, <1>7
<1>9. PICK t : t = InsertAt(s, i + 1, new) OBVIOUS
<1>10. t \in Seq(Commits) /\ Inserted(t, s, i, new)
  <2>1. i \in 0..Len(s) BY <1>7
  <2>2. s \in Seq(Commits) /\ new \in Commits BY <1>3
  <2> QED BY ONLY <1>9, <2>1, <2>2, InsertAtIs
<1>11. /\ next[from] \in Commits /\ from # new
       /\ \A c \in live : next'[c] = IF c = from THEN new ELSE next[c]
       /\ next'[new] = next[from]
  BY <1>1, <1>3, <1>4
<1>12. /\ \A c \in live : prev'[c] = IF c = next[from] THEN new ELSE prev[c]
       /\ prev'[new] = from
  BY <1>1, <1>3, <1>4, <1>11
<1>13. IsRing(t, n + 1, live \cup {new}, next', prev', first) /\ next[from] \in live
  <2>1. LinksIn(next', prev', next, prev, live, from, new) BY <1>11, <1>12 DEF LinksIn
  <2>2. new \in Commits /\ from = s[i] /\ t \in Seq(Commits) BY <1>3, <1>8, <1>10
  <2> QED BY <1>1, <1>4, <1>6, <1>10, <2>1, <2>2, InsertRing
<1>14. Cardinality(live') = n + 1
  BY <1>3, <1>13 DEF IsRing
<1>15. new \in Commits \ ToSet(s)
  <2>1. DOMAIN s = 1..n BY <1>7
  <2> QED BY <1>3, <1>4, <1>7, <2>1 DEF ToSet
<1>16. Describes(s) BY <1>5, <1>6 DEF Describes
<1>17. Describes(t)' BY <1>3, <1>13, <1>14 DEF Describes
<1> QED BY <1>2, <1>3, <1>7, <1>8, <1>9, <1>10, <1>13, <1>15, <1>16, <1>17

\* a deletion takes one commit out
LEMMA Deletes ==
  ASSUME IInv, NEW victim \in Commits, del_commit(victim)
  PROVE  /\ \E s, t \in Seq(Commits) : \E i \in 1..Len(s) :
              Describes(s) /\ Describes(t)' /\ t = RemoveAt(s, i)
         /\ next[victim] \in Commits /\ prev[victim] \in Commits /\ fault' = FALSE
<1>1. /\ live \in SUBSET Commits /\ IsFiniteSet(live) /\ Cardinality(live) \in Nat
      /\ next \in [Commits -> Commits] /\ prev \in [Commits -> Commits]
  BY IInvGives
<1>2. /\ victim \in live /\ live' = live \ {victim}
      /\ next' = [next EXCEPT ![prev[victim]] = next[victim]]
      /\ prev' = [prev EXCEPT ![next[victim]] = prev[victim]]
      /\ first' = IF victim = first THEN next[victim] ELSE first
      /\ fault' = ({prev[victim], next[victim]} \ live # {})
  BY DEF del_commit, SkipsVictim
<1>3. PICK n \in Nat : n = Cardinality(live) BY <1>1
<1>4. PICK s \in Seq(Commits) : IsRing(s, n, live, next, prev, first)
  BY <1>3 DEF IInv, Describes
<1>5. n = Len(s) /\ \A c \in live : \E j \in 1..n : s[j] = c
  BY <1>4 DEF IsRing
<1>6. PICK i \in 1..n : s[i] = victim BY <1>2, <1>5
<1>7. PICK t : t = RemoveAt(s, i) OBVIOUS
<1>8. t \in Seq(Commits) /\ Removed(t, s, i)
  BY <1>5, <1>7, RemoveAtIs
<1>9. /\ \A c \in live : next'[c] = IF c = prev[victim] THEN next[victim] ELSE next[c]
      /\ \A c \in live : prev'[c] = IF c = next[victim] THEN prev[victim] ELSE prev[c]
  BY <1>1, <1>2
<1>10. /\ IsRing(t, n - 1, live \ {victim}, next', prev', first')
       /\ next[victim] \in live /\ prev[victim] \in live
  <2>1. LinksOut(next', prev', first', next, prev, first, live, victim)
    BY <1>2, <1>9 DEF LinksOut
  <2>2. victim = s[i] /\ t \in Seq(Commits) BY <1>6, <1>8
  <2> QED BY <1>1, <1>4, <1>8, <2>1, <2>2, RemoveRing
<1>11. Cardinality(live') = n - 1 BY <1>2, <1>10 DEF IsRing
<1>12. Describes(s) BY <1>3, <1>4 DEF Describes
<1>13. Describes(t)' BY <1>2, <1>10, <1>11 DEF Describes
<1>14. fault' = FALSE BY <1>2, <1>10
<1> QED BY <1>1, <1>5, <1>7, <1>8, <1>10, <1>12, <1>13, <1>14

\* a function that only reads leaves the sequence
LEMMA Reading ==
  ASSUME IInv, UNCHANGED ring
  PROVE  /\ \E s \in Seq(Commits) : Describes(s)'
         /\ Order' = Order
<1>1. PICK s \in Seq(Commits) : Describes(s) BY DEF IInv
<1>2. Describes(s)' BY <1>1 DEF Describes, ring
<1>3. Order = s /\ Order' = s
  <2>1. Cardinality(live) \in Nat /\ live' = live BY IInvGives DEF ring
  <2> QED BY <1>1, <1>2, <2>1, OrderIs, NextOrderIs DEF Describes
<1> QED BY <1>2, <1>3

-----------------------------------------------------------------------------
(* Every step keeps the invariant.                                         *)

LEMMA Nothing == "none" \in Calls /\ <<>> \in Seq(Commits)
<1>1. "none" \in Calls BY DEF Calls
<1>2. <<>> \in Seq(Commits) OBVIOUS
<1> QED BY <1>1, <1>2

LEMMA InitHolds == Init => IInv
<1> SUFFICES ASSUME Init PROVE IInv OBVIOUS
<1>1. commit_list \in Commits /\ MaxCommits \in Nat /\ MaxCommits >= 1
  BY Finite, HistoryAssumption
<1>2. TypeOK
  <2>1. call \in Calls /\ shown \in Seq(Commits) /\ fault \in BOOLEAN BY Nothing DEF Init
  <2>2. /\ next \in [Commits -> Commits] /\ prev \in [Commits -> Commits]
        /\ major \in [Commits -> Nat] /\ minor \in [Commits -> Nat]
    BY DEF Init
  <2>3. nextId \in 0..MaxCommits /\ live \subseteq 1..nextId /\ first \in Commits
    BY <1>1 DEF Init, commit_list
  <2> QED BY <2>1, <2>2, <2>3 DEF TypeOK
<1>3. PICK s : s = <<commit_list>> OBVIOUS
<1>4. s \in Seq(Commits) /\ Len(s) = 1 /\ s[1] = commit_list BY <1>1, <1>3
<1>5. Describes(s)
  <2>1. Cardinality(live) = 1 BY FS_Singleton DEF Init
  <2>2. next[commit_list] = commit_list /\ prev[commit_list] = commit_list
    BY <1>1 DEF Init
  <2>3. IsRing(s, 1, live, next, prev, first)
    <3>1. live = {commit_list} /\ first = commit_list BY DEF Init
    <3>2. 1..1 = {1} /\ 1..(1 - 1) = {} OBVIOUS
    <3> QED BY <1>4, <2>1, <2>2, <3>1, <3>2 DEF IsRing
  <2> QED BY <2>1, <2>3 DEF Describes
<1>6. call = "none" /\ fault = FALSE /\ first = commit_list BY DEF Init
<1> QED BY <1>2, <1>4, <1>5, <1>6, HistoryAssumption
      DEF IInv, FaultNeedsFirstDeleted, DisplayMissesLast, InfosShowsNext

\* what an operation that changes the ring keeps
LEMMA Changed ==
  ASSUME TypeOK', \E s \in Seq(Commits) : Describes(s)',
         commit_list \in live' => first' = commit_list, call' = "none", fault' = FALSE
  PROVE  IInv'
BY HistoryAssumption DEF IInv, FaultNeedsFirstDeleted, DisplayMissesLast, InfosShowsNext

LEMMA InsertHolds ==
  ASSUME IInv, NEW from \in Commits, Insert(from),
         major' \in [Commits -> Nat], minor' \in [Commits -> Nat]
  PROVE  IInv'
<1>1. PICK t \in Seq(Commits) : Describes(t)' BY Inserts
<1>2. fault' = FALSE BY Inserts
<1>3. /\ nextId + 1 \in Commits /\ live' = live \cup {nextId + 1} /\ nextId' = nextId + 1
      /\ call' = "none" /\ shown' = <<>> /\ first' = first
      /\ next' = [next EXCEPT ![nextId + 1] = next[from], ![from] = nextId + 1]
      /\ prev' = [prev EXCEPT ![next[from]] = nextId + 1, ![nextId + 1] = from]
  BY DEF Insert, BackLinks, Counted
<1>4. nextId \in Nat /\ live \subseteq 1..nextId /\ from \in live
  BY DEF IInv, TypeOK, Insert
<1>5. TypeOK'
  <2>1. next \in [Commits -> Commits] /\ prev \in [Commits -> Commits] /\ first \in Commits
    BY IInvGives
  <2>2. next' \in [Commits -> Commits] /\ prev' \in [Commits -> Commits]
    BY <1>3, <2>1
  <2>3. nextId' \in 0..MaxCommits /\ live' \subseteq 1..nextId'
    BY <1>3, <1>4, HistoryAssumption DEF Commits
  <2>4. call' \in Calls /\ shown' \in Seq(Commits) /\ fault' \in BOOLEAN
    BY <1>2, <1>3, Nothing
  <2> QED BY <1>3, <2>1, <2>2, <2>3, <2>4 DEF TypeOK
<1>6. commit_list \in live' => first' = commit_list
  <2>1. nextId + 1 # commit_list BY <1>4 DEF commit_list
  <2> QED BY <1>3, <2>1 DEF IInv
<1> QED BY <1>1, <1>2, <1>3, <1>5, <1>6, Changed

LEMMA DeleteHolds ==
  ASSUME IInv, NEW victim \in Commits, del_commit(victim)
  PROVE  IInv'
<1>1. PICK t \in Seq(Commits) : Describes(t)' BY Deletes
<1>2. fault' = FALSE /\ next[victim] \in Commits /\ prev[victim] \in Commits BY Deletes
<1>3. /\ live' = live \ {victim} /\ call' = "none" /\ shown' = <<>>
      /\ UNCHANGED <<nextId, major, minor>>
      /\ next' = [next EXCEPT ![prev[victim]] = next[victim]]
      /\ prev' = [prev EXCEPT ![next[victim]] = prev[victim]]
      /\ first' = IF victim = first THEN next[victim] ELSE first
  BY DEF del_commit, SkipsVictim, version
<1>4. TypeOK'
  <2>1. next \in [Commits -> Commits] /\ prev \in [Commits -> Commits] /\ first \in Commits
    BY IInvGives
  <2>2. /\ next' \in [Commits -> Commits] /\ prev' \in [Commits -> Commits]
        /\ first' \in Commits
    BY <1>2, <1>3, <2>1
  <2>3. call' \in Calls /\ shown' \in Seq(Commits) /\ fault' \in BOOLEAN
    BY <1>2, <1>3, Nothing
  <2>4. /\ nextId \in 0..MaxCommits /\ live \subseteq 1..nextId
        /\ major \in [Commits -> Nat] /\ minor \in [Commits -> Nat]
    BY DEF IInv, TypeOK
  <2> QED BY <1>3, <2>2, <2>3, <2>4 DEF TypeOK
<1>5. commit_list \in live' => first' = commit_list
  BY <1>3 DEF IInv
<1> QED BY <1>1, <1>2, <1>3, <1>4, <1>5, Changed

\* the loops over a history that still has the commit they start from
LEMMA Passes ==
  ASSUME IInv, commit_list \in live
  PROVE  \E s \in Seq(Commits) : \E n \in Nat :
           /\ Describes(s) /\ n > 0 /\ Len(s) = n /\ s[n] = prev[commit_list]
           /\ \A c \in live : \E j \in 1..n : s[j] = c
           /\ Passed \in Seq(Commits) /\ Len(Passed) = n - 1
           /\ \A i \in 1..(n - 1) : Passed[i] = s[i]
<1>1. PICK n \in Nat : n = Cardinality(live) /\ n <= MaxCommits BY IInvGives
<1>2. PICK s \in Seq(Commits) : Describes(s) BY DEF IInv
<1>3. IsRing(s, n, live, next, prev, commit_list)
  BY <1>1, <1>2 DEF IInv, Describes
<1>4. \A c \in live : \E j \in 1..n : s[j] = c BY <1>3 DEF IsRing
<1>5. n > 0
  <2>1. PICK j \in 1..n : s[j] = commit_list BY <1>4
  <2> QED BY <2>1
<1>6. next \in [Commits -> Commits] BY IInvGives
<1> QED BY <1>1, <1>2, <1>3, <1>4, <1>5, <1>6, PassedIs

LEMMA LastApart ==
  ASSUME NEW s \in Seq(Commits), NEW q \in Seq(Commits), NEW n \in Nat, n > 0,
         Len(s) = n, Len(q) = n - 1, \A i \in 1..(n - 1) : q[i] = s[i],
         NEW e, e = s[n]
  PROVE  s = q \o <<e>>
<1>1. e \in Commits OBVIOUS
<1>2. PICK t : t = Append(q, e) OBVIOUS
<1>3. t \in Seq(Commits) /\ Len(t) = n /\ \A i \in 1..n : t[i] = IF i = n THEN e ELSE q[i]
  BY <1>1, <1>2
<1>4. \A i \in 1..n : t[i] = s[i] BY <1>3
<1>5. s = t BY <1>3, <1>4, SeqEqual
<1>6. t = q \o <<e>>
  <2>1. q \o <<e>> = Append(q, e) BY <1>1, AppendIs
  <2> QED BY <1>2, <2>1
<1> QED BY <1>5, <1>6

\* what a function that only reads keeps, whatever it displays
LEMMA ReadOnly ==
  ASSUME IInv, UNCHANGED <<nextId, ring, version>>, Reads,
         call' \in Calls, shown' \in Seq(Commits), commit_list \in live,
         DisplayMissesLast', InfosShowsNext'
  PROVE  IInv'
<1>1. fault' = FALSE BY DEF Reads, IInv, FaultNeedsFirstDeleted, TypeOK
<1>2. TypeOK'
  BY <1>1 DEF IInv, TypeOK, ring, version
<1>3. \E s \in Seq(Commits) : Describes(s)' BY Reading
<1>4. commit_list \in live' => first' = commit_list BY DEF IInv, ring
<1>5. call' # "none" => commit_list \in live' BY DEF ring
<1> QED BY <1>1, <1>2, <1>3, <1>4, <1>5 DEF IInv, FaultNeedsFirstDeleted

LEMMA FaultHolds ==
  ASSUME IInv, UNCHANGED <<nextId, ring, version>>, Reads, commit_list \notin live
  PROVE  /\ fault'
         /\ UNCHANGED <<call, shown>> => IInv'
<1>1. fault' = TRUE BY DEF Reads
<1> SUFFICES ASSUME UNCHANGED <<call, shown>> PROVE IInv' BY <1>1
<1>2. call = "none" /\ call' = "none" /\ commit_list \notin live' BY DEF IInv, ring
<1>3. TypeOK' BY <1>1 DEF IInv, TypeOK, ring, version
<1>4. \E s \in Seq(Commits) : Describes(s)' BY Reading
<1> QED BY <1>2, <1>3, <1>4, HistoryAssumption
      DEF IInv, FaultNeedsFirstDeleted, DisplayMissesLast, InfosShowsNext

LEMMA DisplayHolds ==
  ASSUME IInv, display_history
  PROVE  IInv'
<1>1. UNCHANGED <<nextId, ring, version>> /\ Reads BY DEF display_history
<1>2. CASE commit_list \notin live
  <2>1. fault' BY <1>1, <1>2, FaultHolds
  <2>2. UNCHANGED <<call, shown>> BY <2>1 DEF display_history
  <2> QED BY <1>1, <1>2, <2>2, FaultHolds
<1>3. CASE commit_list \in live
  <2>1. ~fault' BY <1>1, <1>3 DEF Reads, IInv, FaultNeedsFirstDeleted
  <2>2. call' = "display" /\ shown' = Passed BY <2>1 DEF display_history
  <2>3. PICK s \in Seq(Commits), n \in Nat :
           /\ Describes(s) /\ n > 0 /\ Len(s) = n /\ s[n] = prev[commit_list]
           /\ \A c \in live : \E j \in 1..n : s[j] = c
           /\ Passed \in Seq(Commits) /\ Len(Passed) = n - 1
           /\ \A i \in 1..(n - 1) : Passed[i] = s[i]
    BY <1>3, Passes
  <2>4. DisplayMissesLast'
    <3>1. Order' = Order BY <1>1, Reading DEF ring
    <3>2. Order = s BY <2>3, IInvGives, OrderIs
    <3>3. prev' = prev BY <1>1 DEF ring
    <3>4. s = Passed \o <<prev[commit_list]>> BY <2>3, LastApart
    <3> QED BY <2>2, <3>1, <3>2, <3>3, <3>4 DEF DisplayMissesLast
  <2>5. InfosShowsNext' BY <2>2, HistoryAssumption DEF InfosShowsNext
  <2>6. call' \in Calls BY <2>2 DEF Calls
  <2>7. shown' \in Seq(Commits) BY <2>2, <2>3
  <2> QED BY <1>1, <1>3, <2>4, <2>5, <2>6, <2>7, ReadOnly
<1> QED BY <1>2, <1>3

LEMMA InfosHolds ==
  ASSUME IInv, NEW v \in Versions, infos(v)
  PROVE  IInv'
<1> DEFINE found == {i \in DOMAIN Passed : HasVersion(Passed[i], v)}
           last  == CHOOSE i \in found : \A j \in found : i <= j
<1>1. UNCHANGED <<nextId, ring, version>> /\ Reads BY DEF infos
<1>2. CASE commit_list \notin live
  <2>1. fault' BY <1>1, <1>2, FaultHolds
  <2>2. UNCHANGED <<call, shown>> BY <2>1 DEF infos
  <2> QED BY <1>1, <1>2, <2>2, FaultHolds
<1>3. CASE commit_list \in live
  <2>1. ~fault' BY <1>1, <1>3 DEF Reads, IInv, FaultNeedsFirstDeleted
  <2>2. call' = v /\ shown' = IF found = {} THEN <<>> ELSE <<next[Passed[last]]>>
    BY <2>1 DEF infos
  <2>3. PICK s \in Seq(Commits), n \in Nat :
           /\ Describes(s) /\ n > 0 /\ Len(s) = n /\ s[n] = prev[commit_list]
           /\ \A c \in live : \E j \in 1..n : s[j] = c
           /\ Passed \in Seq(Commits) /\ Len(Passed) = n - 1
           /\ \A i \in 1..(n - 1) : Passed[i] = s[i]
    BY <1>3, Passes
  <2>4. DOMAIN Passed = 1..(n - 1) BY <2>3
  <2>5. shown' \in Seq(Commits)
    <3>1. CASE found = {} BY <2>2, <3>1, Nothing
    <3>2. CASE found # {}
      <4>1. found \in SUBSET Nat BY <2>4
      <4>2. last \in found
        <5> HIDE DEF found
        <5>1. \E m \in found : \A k \in found : m <= k BY <3>2, <4>1, Least
        <5> QED BY <5>1
      <4>3. Passed[last] \in Commits
        <5>1. last \in 1..(n - 1) BY <2>4, <4>2
        <5> HIDE DEF last
        <5> QED BY <2>3, <5>1
      <4>4. PICK c \in Commits : c = next[Passed[last]] BY <4>3, IInvGives
      <4>5. shown' = <<c>> BY <2>2, <3>2, <4>4
      <4> QED BY <4>5
    <3> QED BY <3>1, <3>2
  <2>6. DisplayMissesLast' BY <2>2, HistoryAssumption DEF DisplayMissesLast
  <2>7. InfosShowsNext'
    <3>1. Order' = Order /\ UNCHANGED <<next, version>> BY <1>1, Reading DEF ring
    <3>2. Order = s BY <2>3, IInvGives, OrderIs
    <3>3. \A c : <<major'[c], minor'[c]>> = <<major[c], minor[c]>>
      BY <3>1 DEF version
    <3>4. found = {i \in 1..(n - 1) : <<major[s[i]], minor[s[i]]>> = v}
      BY <2>3, <2>4 DEF HasVersion, Version
    <3> DEFINE hits == {i \in 1..(Len(Order') - 1) : <<major'[Order'[i]], minor'[Order'[i]]>> = v}
    <3>5. hits = found BY <2>3, <3>1, <3>2, <3>3, <3>4
    <3> SUFFICES \/ found = {} /\ shown' = <<>>
                 \/ \E i \in found : /\ shown' = <<Order'[i + 1]>>
                                     /\ \A j \in found : i <= j
      BY <2>2, <3>5 DEF InfosShowsNext, HasVersion, Version
    <3>6. CASE found = {} BY <2>2, <3>6
    <3>7. CASE found # {}
      <4>1. found \in SUBSET Nat BY <2>4
      <4>2. last \in found /\ \A j \in found : last <= j
        <5> HIDE DEF found
        <5>1. \E m \in found : \A k \in found : m <= k BY <3>7, <4>1, Least
        <5> QED BY <5>1
      <4>3. last \in 1..(n - 1) BY <2>4, <4>2
      <4> HIDE DEF last
      <4>4. Passed[last] = s[last] /\ next[s[last]] = s[last + 1]
        <5>1. n = Cardinality(live) BY <2>3 DEF Describes, IsRing
        <5> QED BY <2>3, <4>3, <5>1 DEF Describes, IsRing
      <4>5. shown' = <<Order'[last + 1]>> BY <2>2, <3>1, <3>2, <3>7, <4>4 DEF last
      <4> QED BY <4>2, <4>5
    <3> QED BY <3>6, <3>7
  <2>8. call' \in Calls BY <2>2 DEF Calls
  <2> QED BY <1>1, <1>3, <2>5, <2>6, <2>7, <2>8, ReadOnly
<1> QED BY <1>2, <1>3

LEMMA StutterHolds ==
  ASSUME IInv, UNCHANGED vars
  PROVE  IInv'
<1>1. /\ UNCHANGED ring /\ UNCHANGED <<nextId, major, minor, call, shown, fault>>
      /\ UNCHANGED <<live, next, prev, first>>
  BY DEF vars, ring, version
<1>2. TypeOK' BY <1>1 DEF IInv, TypeOK
<1>3. Order' = Order /\ \E s \in Seq(Commits) : Describes(s)' BY <1>1, Reading
<1>4. DisplayMissesLast' BY <1>1, <1>3 DEF IInv, DisplayMissesLast
<1>5. InfosShowsNext'
  <2>1. \A c : HasVersion(c, call)' = HasVersion(c, call) BY <1>1 DEF HasVersion, Version
  <2> QED BY <1>1, <1>3, <2>1 DEF IInv, InfosShowsNext
<1>6. FaultNeedsFirstDeleted' BY <1>1 DEF IInv, FaultNeedsFirstDeleted
<1> QED BY <1>1, <1>2, <1>3, <1>4, <1>5, <1>6 DEF IInv

-----------------------------------------------------------------------------
(* The theorems.                                                           *)

LEMMA StepHolds == IInv /\ [Next]_vars => IInv'
<1> SUFFICES ASSUME IInv, [Next]_vars PROVE IInv' OBVIOUS
<1>1. ASSUME NEW c \in Commits, add_minor_commit(c) PROVE IInv'
  <2>1. major \in [Commits -> Nat] /\ minor \in [Commits -> Nat] BY DEF IInv, TypeOK
  <2>2. Insert(c) BY <1>1 DEF add_minor_commit
  <2>3. PICK new \in Commits : new = nextId + 1 BY <2>2 DEF Insert
  <2>4. major' \in [Commits -> Nat] /\ minor' \in [Commits -> Nat]
    BY <1>1, <2>1, <2>3 DEF add_minor_commit
  <2> QED BY <2>2, <2>4, InsertHolds
<1>2. ASSUME NEW c \in Commits, add_major_commit(c) PROVE IInv'
  <2>1. major \in [Commits -> Nat] /\ minor \in [Commits -> Nat] BY DEF IInv, TypeOK
  <2>2. Insert(c) BY <1>2 DEF add_major_commit
  <2>3. PICK new \in Commits : new = nextId + 1 BY <2>2 DEF Insert
  <2>4. major' \in [Commits -> Nat] /\ minor' \in [Commits -> Nat]
    BY <1>2, <2>1, <2>3 DEF add_major_commit
  <2> QED BY <2>2, <2>4, InsertHolds
<1>3. ASSUME NEW c \in Commits, del_commit(c) PROVE IInv' BY <1>3, DeleteHolds
<1>4. CASE display_history BY <1>4, DisplayHolds
<1>5. ASSUME NEW v \in Versions, infos(v) PROVE IInv' BY <1>5, InfosHolds
<1>6. CASE Halted BY <1>6, StutterHolds DEF Halted
<1>7. CASE UNCHANGED vars BY <1>7, StutterHolds
<1> QED BY <1>1, <1>2, <1>3, <1>4, <1>5, <1>6, <1>7 DEF Next

LEMMA Inductive == Spec => []IInv
BY InitHolds, StepHolds, PTL DEF Spec

\* Every value stays in its set; the commits allocated have been numbered.
THEOREM TypeCorrect == Spec => []TypeOK
<1>1. IInv => TypeOK BY DEF IInv
<1> QED BY <1>1, Inductive, PTL

\* Freed memory is only read through commit_list, after del_commit of the first
\* commit: add_minor_commit, add_major_commit and del_commit never leave a pointer
\* of the ring dangling (commit.c).
THEOREM FaultsNeedFirstDeleted == Spec => []FaultNeedsFirstDeleted
<1>1. IInv => FaultNeedsFirstDeleted BY DEF IInv
<1> QED BY <1>1, Inductive, PTL

\* display_history leaves out the last commit and no other, however many there are
\* (history.c:41-48).
THEOREM DisplayLeavesOutLast == Spec => []DisplayMissesLast
<1>1. IInv => DisplayMissesLast BY DEF IInv
<1> QED BY <1>1, Inductive, PTL

\* infos finds the first commit of a version, the last of all excepted, and shows the
\* one after it (history.c:66-81).
THEOREM InfosGoesPast == Spec => []InfosShowsNext
<1>1. IInv => InfosShowsNext BY DEF IInv
<1> QED BY <1>1, Inductive, PTL

LEMMA RefinesInit == Init => Sequence!Init
<1> SUFFICES ASSUME Init PROVE \E c \in Commits : Order = <<c>>
  BY DEF Sequence!Init
<1>1. IInv BY InitHolds
<1>2. PICK s \in Seq(Commits) : Describes(s) BY <1>1 DEF IInv
<1>3. Order = s BY <1>1, <1>2, IInvGives, OrderIs
<1>4. Len(s) = 1
  <2>1. Cardinality(live) = 1 BY FS_Singleton DEF Init
  <2> QED BY <1>2, <2>1 DEF Describes, IsRing
<1>5. PICK c \in Commits : c = s[1] BY <1>4
<1>6. s = <<c>>
  <2>1. PICK t : t = <<c>> OBVIOUS
  <2>2. t \in Seq(Commits) /\ Len(t) = 1 /\ t[1] = c BY <2>1
  <2>3. \A j \in 1..Len(s) : s[j] = t[j] BY <1>4, <1>5, <2>2
  <2>4. s = t BY <1>4, <2>2, <2>3, SeqEqual
  <2> QED BY <2>1, <2>4
<1> QED BY <1>3, <1>6

\* two sequences that describe the history before and after a step
LEMMA OrderSteps ==
  ASSUME IInv, NEW s \in Seq(Commits), NEW t \in Seq(Commits),
         Describes(s), Describes(t)'
  PROVE  Order = s /\ Order' = t
<1>1. Order = s BY IInvGives, OrderIs
<1>2. Cardinality(live') \in Nat BY DEF Describes, IsRing
<1>3. Order' = t BY <1>2, NextOrderIs DEF Describes
<1> QED BY <1>1, <1>3

\* the instance has operators of its own for what SequencesExt defines
LEMMA SameOperators ==
  ASSUME NEW s, NEW i, NEW c
  PROVE  /\ Sequence!InsertAt(s, i, c) = InsertAt(s, i, c)
         /\ Sequence!RemoveAt(s, i) = RemoveAt(s, i)
         /\ Sequence!ToSet(s) = ToSet(s)
BY Zenon DEF Sequence!InsertAt, InsertAt, Sequence!RemoveAt, RemoveAt, Sequence!ToSet, ToSet

LEMMA RefinesInsert ==
  ASSUME IInv, NEW from \in Commits, Insert(from)
  PROVE  Sequence!Next
<1>1. PICK s \in Seq(Commits), t \in Seq(Commits) : \E i \in 1..Len(s) :
         /\ Describes(s) /\ Describes(t)'
         /\ s[i] = from /\ t = InsertAt(s, i + 1, nextId + 1)
         /\ nextId + 1 \in Commits \ ToSet(s) /\ fault' = FALSE
  BY Inserts
<1>2. PICK i \in 1..Len(s) : /\ t = InsertAt(s, i + 1, nextId + 1)
                             /\ nextId + 1 \in Commits \ ToSet(s)
  BY <1>1
<1>3. Order = s /\ Order' = t BY <1>1, OrderSteps
<1>4. i \in DOMAIN Order BY <1>3
<1>5. Sequence!AddAfter(i, nextId + 1)
  BY <1>2, <1>3, SameOperators DEF Sequence!AddAfter
<1>6. nextId + 1 \in Commits \ Sequence!ToSet(Order) BY <1>2, <1>3, SameOperators
<1> QED BY <1>4, <1>5, <1>6 DEF Sequence!Next

LEMMA RefinesDelete ==
  ASSUME IInv, NEW victim \in Commits, del_commit(victim)
  PROVE  Sequence!Next
<1>1. PICK s \in Seq(Commits), t \in Seq(Commits) : \E i \in 1..Len(s) :
         Describes(s) /\ Describes(t)' /\ t = RemoveAt(s, i)
  BY Deletes
<1>2. PICK i \in 1..Len(s) : t = RemoveAt(s, i) BY <1>1
<1>3. Order = s /\ Order' = t BY <1>1, OrderSteps
<1>4. i \in DOMAIN Order BY <1>3
<1>5. Sequence!Delete(i) BY <1>2, <1>3, SameOperators DEF Sequence!Delete
<1> QED BY <1>4, <1>5 DEF Sequence!Next

LEMMA RefinesStep == IInv /\ [Next]_vars => [Sequence!Next]_Order
<1> SUFFICES ASSUME IInv, [Next]_vars PROVE Sequence!Next \/ Order' = Order
  OBVIOUS
<1>1. ASSUME NEW c \in Commits, add_minor_commit(c) \/ add_major_commit(c)
      PROVE  Sequence!Next
  BY <1>1, RefinesInsert DEF add_minor_commit, add_major_commit
<1>2. ASSUME NEW c \in Commits, del_commit(c) PROVE Sequence!Next
  BY <1>2, RefinesDelete
<1>3. ASSUME UNCHANGED ring PROVE Order' = Order BY <1>3, Reading
<1>4. CASE display_history BY <1>3, <1>4 DEF display_history
<1>5. ASSUME NEW v \in Versions, infos(v) PROVE Order' = Order
  BY <1>3, <1>5 DEF infos
<1>6. CASE Halted \/ UNCHANGED vars BY <1>3, <1>6 DEF Halted, vars
<1> QED BY <1>1, <1>2, <1>4, <1>5, <1>6 DEF Next

\* The ring of commits implements a sequence: a new commit goes right after the one
\* it is made from, and a deletion leaves the others in order (commit.c).
THEOREM HistoryImplements == Spec => Implements
BY RefinesInit, RefinesStep, Inductive, PTL DEF Spec, Implements, Sequence!Spec
=============================================================================
