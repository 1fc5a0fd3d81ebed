--------------------------- MODULE ListHeadProofs ---------------------------
(***************************************************************************)
(* That the functions of list.h keep the rings whole, that the pointers    *)
(* show sequences on which each function takes effect at once, and that    *)
(* loops stay on them, however the stores of tasks that share no lock are  *)
(* interleaved, for any number of tasks, lists and entries.                *)
(*                                                                         *)
(* The first invariant looks ahead: the heap that results once every       *)
(* function in progress is finished (ToBe) consists of whole rings all the *)
(* time.  A store does not change it, because the pointers that functions  *)
(* in progress store into are apart; a call changes it as if the function  *)
(* ran at once.                                                            *)
(*                                                                         *)
(* The second (OrderInv) says what the next pointers show meanwhile: the   *)
(* nodes that are linked (Linked) are the ones on lists, but for entries   *)
(* whose insertion is not done, and with those whose deletion has yet to   *)
(* make its second store.  There are sequences (Links) such that the next  *)
(* pointers run from each linked head through its sequence and back, and   *)
(* each linked entry is in one of them.  The third (LoopInv) adds where a  *)
(* loop may be that no other task upsets.  The last (CarefulInv) is about  *)
(* the node under test in CarefulTest.                                     *)
(***************************************************************************)
EXTENDS CarefulTest, Paths

Values == Nodes \cup {Wild}
Heaps  == [Pointers -> Values]
Pairs  == Pointers \X Values
Stores == Seq(Pairs)

\* the heap after one store
Put(h, a) == [h EXCEPT ![a[1]] = a[2]]

-----------------------------------------------------------------------------
(* Pointers and stores.                                                    *)

\* pointers of different nodes, or of the two kinds, differ
LEMMA PointersDiffer ==
  /\ \A a, b : NextOf(a) # PrevOf(b)
  /\ \A a, b : NextOf(a) = NextOf(b) => a = b
  /\ \A a, b : PrevOf(a) = PrevOf(b) => a = b
  /\ \A a \in Nodes : NextOf(a) \in Pointers /\ PrevOf(a) \in Pointers
BY DEF NextOf, PrevOf, Pointers

\* no stores leave the heap as it is
LEMMA WrittenNothing ==
  ASSUME NEW h \in Heaps
  PROVE  Written(h, <<>>) = h
BY DEF Written, Targets, Heaps

\* one more store puts its value into its pointer
LEMMA WrittenAppend ==
  ASSUME NEW h, NEW s \in Stores, NEW p, NEW v
  PROVE  Written(h, Append(s, <<p, v>>)) = [Written(h, s) EXCEPT ![p] = v]
<1> DEFINE t == Append(s, <<p, v>>)
<1>1. /\ Len(s) \in Nat /\ DOMAIN s = 1..Len(s) /\ DOMAIN t = 1..(Len(s) + 1)
      /\ t[Len(s) + 1] = <<p, v>> /\ \A i \in DOMAIN s : t[i] = s[i]
  BY DEF Stores
<1> HIDE DEF t
<1> DEFINE IsLast(u, q, w) == \E i \in DOMAIN u :
                /\ u[i] = <<q, w>> /\ \A j \in DOMAIN u : u[j][1] = q => j <= i
           Found(u, w) == w \in {u[i][2] : i \in DOMAIN u}
<1>2. \A u, q : LastStored(u, q) = CHOOSE w : Found(u, w) /\ IsLast(u, q, w)
  BY DEF LastStored
<1>3. LastStored(t, p) = v
  <2>1. \A w : Found(t, w) /\ IsLast(t, p, w) => w = v
    BY <1>1
  <2>2. Found(t, v) /\ IsLast(t, p, v)
    BY <1>1
  <2> HIDE DEF IsLast, Found
  <2> QED BY <1>2, <2>1, <2>2
<1>4. ASSUME NEW q, q # p PROVE LastStored(t, q) = LastStored(s, q)
  <2>1. \A w : IsLast(t, q, w) <=> IsLast(s, q, w)
    <3>1. /\ t[Len(s) + 1][1] # q
          /\ \A i : i \in DOMAIN t <=> i \in DOMAIN s \/ i = Len(s) + 1
      BY <1>1, <1>4
    <3>2. \A i, w : i \in DOMAIN t /\ t[i] = <<q, w>>
                     <=> i \in DOMAIN s /\ s[i] = <<q, w>>
      BY <1>1, <3>1
    <3>3. \A j : j \in DOMAIN t /\ t[j][1] = q <=> j \in DOMAIN s /\ s[j][1] = q
      BY <1>1, <3>1
    <3> QED BY <3>2, <3>3
  <2>2. \A w : IsLast(s, q, w) => Found(s, w) /\ Found(t, w)
    BY <1>1
  <2>3. \A w : Found(t, w) /\ IsLast(t, q, w) <=> Found(s, w) /\ IsLast(s, q, w)
    BY <2>1, <2>2
  <2> HIDE DEF IsLast, Found
  <2> QED BY <1>2, <2>3
<1>5. \A q : q \in Targets(t) <=> q = p \/ q \in Targets(s)
  BY <1>1 DEF Targets
<1> QED BY <1>3, <1>4, <1>5 DEF Written, t

\* the heap after one store, as a function
LEMMA PutIs ==
  /\ \A h, p, v : Put(h, <<p, v>>) = [h EXCEPT ![p] = v]
  /\ \A h \in Heaps, a \in Pairs : Put(h, a) \in Heaps
BY DEF Put, Pairs, Heaps

\* one more store, as Put
LEMMA WrittenPut ==
  ASSUME NEW h, NEW s \in Stores, NEW a \in Pairs
  PROVE  Append(s, a) \in Stores /\ Written(h, Append(s, a)) = Put(Written(h, s), a)
<1>1. PICK p \in Pointers, v \in Values : a = <<p, v>> BY DEF Pairs
<1>2. Append(s, a) \in Stores BY DEF Stores
<1>3. Written(h, Append(s, <<p, v>>)) = [Written(h, s) EXCEPT ![p] = v]
  BY WrittenAppend
<1> QED BY <1>1, <1>2, <1>3, PutIs

\* what is written by stores that follow the stores s
LEMMA AppendTwo ==
  ASSUME NEW s \in Stores, NEW a \in Pairs, NEW b \in Pairs
  PROVE  s \o <<a, b>> = Append(Append(s, a), b)
BY DEF Stores

\* two stores after s
LEMMA WrittenTwo ==
  ASSUME NEW h, NEW s \in Stores, NEW a \in Pairs, NEW b \in Pairs
  PROVE  /\ s \o <<a, b>> \in Stores
         /\ Written(h, s \o <<a, b>>) = Put(Put(Written(h, s), a), b)
<1> DEFINE all == s \o <<a, b>>
           first == s
<1>1. all = Append(Append(first, a), b) BY AppendTwo
<1>2. first \in Stores /\ Written(h, first) = Written(h, s) OBVIOUS
<1> HIDE DEF all, first
<1>3. Append(first, a) \in Stores /\ Append(Append(first, a), b) \in Stores
  BY <1>2, WrittenPut
<1>4. Written(h, all) = Put(Put(Written(h, first), a), b)
  BY <1>1, <1>2, <1>3, WrittenPut
<1> QED BY <1>1, <1>2, <1>3, <1>4 DEF all

\* four stores appended are appended one by one
LEMMA AppendFour ==
  ASSUME NEW s \in Stores, NEW a \in Pairs, NEW b \in Pairs,
         NEW c \in Pairs, NEW d \in Pairs
  PROVE  s \o <<a, b, c, d>> = Append(Append(Append(Append(s, a), b), c), d)
BY DEF Stores

\* four stores after s
LEMMA WrittenFour ==
  ASSUME NEW h, NEW s \in Stores, NEW a \in Pairs, NEW b \in Pairs,
         NEW c \in Pairs, NEW d \in Pairs
  PROVE  /\ s \o <<a, b, c, d>> \in Stores
         /\ Written(h, s \o <<a, b, c, d>>) = Put(Put(Put(Put(Written(h, s), a), b), c), d)
<1> DEFINE all == s \o <<a, b, c, d>>
           first == Append(Append(s, a), b)
<1>1. all = Append(Append(first, c), d) BY AppendFour
<1>2. first \in Stores /\ Written(h, first) = Put(Put(Written(h, s), a), b)
  <2> DEFINE joined == s \o <<a, b>>
  <2>1. joined = first BY AppendTwo
  <2>2. joined \in Stores /\ Written(h, joined) = Put(Put(Written(h, s), a), b)
    BY WrittenTwo
  <2> HIDE DEF joined, first
  <2> QED BY <2>1, <2>2
<1> HIDE DEF all, first
<1>3. Append(first, c) \in Stores /\ Append(Append(first, c), d) \in Stores
  BY <1>2, WrittenPut
<1>4. Written(h, all) = Put(Put(Written(h, first), c), d)
  BY <1>1, <1>2, <1>3, WrittenPut
<1> QED BY <1>1, <1>2, <1>3, <1>4 DEF all

\* six stores after s
LEMMA WrittenSix ==
  ASSUME NEW h, NEW s \in Stores, NEW a \in Pairs, NEW b \in Pairs, NEW c \in Pairs,
         NEW d \in Pairs, NEW e \in Pairs, NEW f \in Pairs
  PROVE  /\ s \o <<a, b, c, d, e, f>> \in Stores
         /\ Written(h, s \o <<a, b, c, d, e, f>>)
              = Put(Put(Put(Put(Put(Put(Written(h, s), a), b), c), d), e), f)
<1> DEFINE all == s \o <<a, b, c, d, e, f>>
           first == s \o <<a, b, c, d>>
<1>1. all = Append(Append(first, e), f) BY DEF Stores
<1>2. first \in Stores /\ Written(h, first) = Put(Put(Put(Put(Written(h, s), a), b), c), d)
  BY WrittenFour
<1> HIDE DEF all, first
<1>3. Append(first, e) \in Stores /\ Append(Append(first, e), f) \in Stores
  BY <1>2, WrittenPut
<1>4. Written(h, all) = Put(Put(Written(h, first), e), f)
  BY <1>1, <1>2, <1>3, WrittenPut
<1> QED BY <1>1, <1>2, <1>3, <1>4 DEF all

\* the empty sequence of stores
LEMMA StoresNone ==
  /\ <<>> \in Stores
  /\ \A s \in Stores : <<>> \o s = s
  /\ \A h \in Heaps : Written(h, <<>>) = h
BY WrittenNothing DEF Stores

\* two stores
LEMMA OnlyTwo ==
  ASSUME NEW h \in Heaps, NEW a \in Pairs, NEW b \in Pairs
  PROVE  /\ <<a, b>> \in Stores /\ Written(h, <<a, b>>) \in Heaps
         /\ Written(h, <<a, b>>) = Put(Put(h, a), b)
<1> DEFINE none == <<>>
           all == <<a, b>>
<1>1. none \in Stores /\ none \o all = all /\ Written(h, none) = h
  <2>1. all \in Stores BY DEF Stores
  <2> HIDE DEF all
  <2> QED BY <2>1, StoresNone
<1>2. none \o all \in Stores /\ Written(h, none \o all) = Put(Put(Written(h, none), a), b)
  <2> HIDE DEF none
  <2> QED BY <1>1, WrittenTwo
<1>3. Put(Put(h, a), b) \in Heaps BY PutIs
<1> HIDE DEF none, all
<1> QED BY <1>1, <1>2, <1>3 DEF all

\* four stores
LEMMA OnlyFour ==
  ASSUME NEW h \in Heaps, NEW a \in Pairs, NEW b \in Pairs, NEW c \in Pairs, NEW d \in Pairs
  PROVE  /\ <<a, b, c, d>> \in Stores /\ Written(h, <<a, b, c, d>>) \in Heaps
         /\ Written(h, <<a, b, c, d>>) = Put(Put(Put(Put(h, a), b), c), d)
<1> DEFINE none == <<>>
           all == <<a, b, c, d>>
<1>1. none \in Stores /\ none \o all = all /\ Written(h, none) = h
  <2>1. all \in Stores BY DEF Stores
  <2> HIDE DEF all
  <2> QED BY <2>1, StoresNone
<1>2. /\ none \o all \in Stores
      /\ Written(h, none \o all) = Put(Put(Put(Put(Written(h, none), a), b), c), d)
  <2> HIDE DEF none
  <2> QED BY <1>1, WrittenFour
<1>3. Put(Put(Put(Put(h, a), b), c), d) \in Heaps BY PutIs
<1> HIDE DEF none, all
<1> QED BY <1>1, <1>2, <1>3 DEF all

\* six stores
LEMMA OnlySix ==
  ASSUME NEW h \in Heaps, NEW a \in Pairs, NEW b \in Pairs, NEW c \in Pairs,
         NEW d \in Pairs, NEW e \in Pairs, NEW f \in Pairs
  PROVE  /\ <<a, b, c, d, e, f>> \in Stores /\ Written(h, <<a, b, c, d, e, f>>) \in Heaps
         /\ Written(h, <<a, b, c, d, e, f>>) = Put(Put(Put(Put(Put(Put(h, a), b), c), d), e), f)
<1> DEFINE none == <<>>
           all == <<a, b, c, d, e, f>>
<1>1. none \in Stores /\ none \o all = all /\ Written(h, none) = h
  <2>1. all \in Stores BY DEF Stores
  <2> HIDE DEF all
  <2> QED BY <2>1, StoresNone
<1>2. /\ none \o all \in Stores
      /\ Written(h, none \o all)
           = Put(Put(Put(Put(Put(Put(Written(h, none), a), b), c), d), e), f)
  <2> HIDE DEF none
  <2> QED BY <1>1, WrittenSix
<1>3. Put(Put(Put(Put(Put(Put(h, a), b), c), d), e), f) \in Heaps BY PutIs
<1> HIDE DEF none, all
<1> QED BY <1>1, <1>2, <1>3 DEF all

-----------------------------------------------------------------------------
(* Rings.                                                                  *)

\* a node linked in between two neighbours joins their rings
LEMMA RingInsert ==
  ASSUME NEW h \in Heaps, NEW S \in SUBSET Nodes, Ring(h, S), NEW new \in Nodes \ S,
         NEW p \in S, NEW n \in S, h[NextOf(p)] = n,
         NEW g \in Heaps,
         g = Put(Put(Put(Put(h, <<PrevOf(n), new>>), <<NextOf(new), n>>),
                     <<PrevOf(new), p>>), <<NextOf(p), new>>)
  PROVE  Ring(g, S \cup {new})
<1>1. h[PrevOf(n)] = p BY DEF Ring
<1>2. g = [h EXCEPT ![PrevOf(n)] = new, ![NextOf(new)] = n, ![PrevOf(new)] = p,
                    ![NextOf(p)] = new]
  BY DEF Put
<1>3. \A x \in Nodes : g[NextOf(x)] = IF x = p THEN new ELSE IF x = new THEN n
                                       ELSE h[NextOf(x)]
  BY <1>2, PointersDiffer DEF Heaps
<1>4. \A x \in Nodes : g[PrevOf(x)] = IF x = new THEN p ELSE IF x = n THEN new
                                       ELSE h[PrevOf(x)]
  BY <1>2, PointersDiffer DEF Heaps
<1> QED BY <1>1, <1>3, <1>4 DEF Ring

\* what becomes of the pointers of the node taken out does not matter
LEMMA RingRemove ==
  ASSUME NEW h \in Heaps, NEW S \in SUBSET Nodes, Ring(h, S), NEW e \in S, NEW g \in Heaps,
         g[NextOf(h[PrevOf(e)])] = h[NextOf(e)] \/ h[PrevOf(e)] = e,
         g[PrevOf(h[NextOf(e)])] = h[PrevOf(e)] \/ h[NextOf(e)] = e,
         \A x \in Nodes \ {e} :
           /\ x # h[PrevOf(e)] => g[NextOf(x)] = h[NextOf(x)]
           /\ x # h[NextOf(e)] => g[PrevOf(x)] = h[PrevOf(x)]
  PROVE  Ring(g, S \ {e})
BY DEF Ring

-----------------------------------------------------------------------------
(* The functions of list.h.                                                *)

\* the stores s make sense, and leave whole rings of the nodes S
Keeps(h, s, S) == s \in Stores /\ Written(h, s) \in Heaps /\ Ring(Written(h, s), S)

\* list_add and list_add_tail
LEMMA AddKeeps ==
  ASSUME NEW h \in Heaps, NEW S \in SUBSET Nodes, Ring(h, S), NEW new \in Nodes \ S,
         NEW pos \in S
  PROVE  /\ Keeps(h, list_add(h, new, pos), S \cup {new})
         /\ Keeps(h, list_add_tail(h, new, pos), S \cup {new})
<1>1. ASSUME NEW p \in S, NEW n \in S, h[NextOf(p)] = n
      PROVE  Keeps(h, __list_add(new, p, n), S \cup {new})
  <2>1. /\ <<PrevOf(n), new>> \in Pairs /\ <<NextOf(new), n>> \in Pairs
        /\ <<PrevOf(new), p>> \in Pairs /\ <<NextOf(p), new>> \in Pairs
    BY PointersDiffer DEF Pairs, Values
  <2>2. /\ __list_add(new, p, n) \in Stores /\ Written(h, __list_add(new, p, n)) \in Heaps
        /\ Written(h, __list_add(new, p, n))
             = Put(Put(Put(Put(h, <<PrevOf(n), new>>), <<NextOf(new), n>>),
                       <<PrevOf(new), p>>), <<NextOf(p), new>>)
    BY <2>1, OnlyFour DEF __list_add
  <2> QED BY <1>1, <2>2, RingInsert DEF Keeps
<1>2. h[NextOf(pos)] \in S /\ h[PrevOf(pos)] \in S /\ h[NextOf(h[PrevOf(pos)])] = pos
  BY DEF Ring
<1> QED BY <1>1, <1>2 DEF list_add, list_add_tail

\* __list_del_entry
LEMMA DelEntry ==
  ASSUME NEW h \in Heaps, NEW S \in SUBSET Nodes, Ring(h, S), NEW e \in S
  PROVE  /\ __list_del_entry(h, e) \in Stores
         /\ Written(h, __list_del_entry(h, e)) \in Heaps
         /\ Written(h, __list_del_entry(h, e))
              = [h EXCEPT ![PrevOf(h[NextOf(e)])] = h[PrevOf(e)],
                          ![NextOf(h[PrevOf(e)])] = h[NextOf(e)]]
         /\ Ring(Written(h, __list_del_entry(h, e)), S \ {e})
<1> DEFINE p == h[PrevOf(e)]
           n == h[NextOf(e)]
           g == Written(h, __list_del_entry(h, e))
<1>1. p \in S /\ n \in S BY DEF Ring
<1>2. <<PrevOf(n), p>> \in Pairs /\ <<NextOf(p), n>> \in Pairs
  BY <1>1, PointersDiffer DEF Pairs, Values
<1>3. __list_del_entry(h, e) = << <<PrevOf(n), p>>, <<NextOf(p), n>> >>
  BY DEF __list_del_entry, __list_del
<1> HIDE DEF p, n
<1>4. /\ __list_del_entry(h, e) \in Stores /\ g \in Heaps
      /\ g = Put(Put(h, <<PrevOf(n), p>>), <<NextOf(p), n>>)
  BY <1>2, <1>3, OnlyTwo
<1>5. g = [h EXCEPT ![PrevOf(n)] = p, ![NextOf(p)] = n]
  BY <1>4 DEF Put
<1> HIDE DEF g
<1>6. /\ \A x \in Nodes : g[NextOf(x)] = IF x = p THEN n ELSE h[NextOf(x)]
      /\ \A x \in Nodes : g[PrevOf(x)] = IF x = n THEN p ELSE h[PrevOf(x)]
  BY <1>1, <1>5, PointersDiffer DEF Heaps
<1>7. Ring(g, S \ {e})
  BY <1>1, <1>4, <1>6, RingRemove DEF p, n
<1> QED BY <1>4, <1>5, <1>7 DEF g, p, n

\* two stores into the entry that has been taken out
LEMMA DelThenTwo ==
  ASSUME NEW h \in Heaps, NEW S \in SUBSET Nodes, Ring(h, S), NEW e \in S,
         NEW v \in Values, NEW w \in Values
  PROVE  Keeps(h, __list_del_entry(h, e) \o << <<NextOf(e), v>>, <<PrevOf(e), w>> >>,
               S \ {e})
<1> DEFINE del == __list_del_entry(h, e)
           all == del \o << <<NextOf(e), v>>, <<PrevOf(e), w>> >>
           f == Written(h, del)
           g == Written(h, all)
<1>1. del \in Stores /\ f \in Heaps /\ Ring(f, S \ {e}) BY DelEntry
<1>2. <<NextOf(e), v>> \in Pairs /\ <<PrevOf(e), w>> \in Pairs
  BY PointersDiffer DEF Pairs
<1> HIDE DEF del
<1>3. all \in Stores /\ g = Put(Put(f, <<NextOf(e), v>>), <<PrevOf(e), w>>)
  BY <1>1, <1>2, WrittenTwo
<1> HIDE DEF f, g, all
<1>4. g \in Heaps BY <1>1, <1>2, <1>3, PutIs
<1>5. g = [f EXCEPT ![NextOf(e)] = v, ![PrevOf(e)] = w] BY <1>3 DEF Put
<1>6. \A x \in Nodes \ {e} : g[NextOf(x)] = f[NextOf(x)] /\ g[PrevOf(x)] = f[PrevOf(x)]
  BY <1>1, <1>5, PointersDiffer DEF Heaps
<1>7. Ring(g, S \ {e}) BY <1>1, <1>6 DEF Ring
<1> QED BY <1>3, <1>4, <1>7 DEF Keeps, all, g, del

\* list_del and list_del_init
LEMMA DelKeeps ==
  ASSUME NEW h \in Heaps, NEW S \in SUBSET Nodes, Ring(h, S), NEW e \in S
  PROVE  /\ Keeps(h, list_del(h, e), S \ {e})
         /\ Keeps(h, list_del_init(h, e), S \ {e})
BY DelThenTwo DEF list_del, list_del_init, INIT_LIST_HEAD, Values

\* a function that stores nothing
LEMMA NothingKeeps ==
  ASSUME NEW h \in Heaps, NEW S \in SUBSET Nodes, Ring(h, S)
  PROVE  Keeps(h, <<>>, S)
BY StoresNone DEF Keeps

\* x is a ring of its own
Resets(h, g, x) == \A y \in Nodes : g[NextOf(y)] = IF y = x THEN x ELSE h[NextOf(y)]

\* the stores s and INIT_LIST_HEAD(x) after them
InitAfter(s, x) == s \o INIT_LIST_HEAD(x)

\* INIT_LIST_HEAD of a node that is on no list, after the stores s
LEMMA ThenInit ==
  ASSUME NEW h \in Heaps, NEW s, NEW S \in SUBSET Nodes, Keeps(h, s, S),
         NEW x \in Nodes \ S
  PROVE  /\ Keeps(h, InitAfter(s, x), S)
         /\ Keeps(h, InitAfter(s, x), S \cup {x})
         /\ Resets(Written(h, s), Written(h, InitAfter(s, x)), x)
<1> DEFINE all == s \o << <<NextOf(x), x>>, <<PrevOf(x), x>> >>
           f == Written(h, s)
           g == Written(h, all)
<1>1. s \in Stores /\ f \in Heaps /\ Ring(f, S) BY DEF Keeps
<1>2. <<NextOf(x), x>> \in Pairs /\ <<PrevOf(x), x>> \in Pairs
  BY PointersDiffer DEF Pairs, Values
<1>3. all \in Stores /\ g = Put(Put(f, <<NextOf(x), x>>), <<PrevOf(x), x>>)
  BY <1>1, <1>2, WrittenTwo
<1>4. all = InitAfter(s, x) BY DEF INIT_LIST_HEAD, InitAfter
<1> HIDE DEF f, g, all
<1>5. g \in Heaps BY <1>1, <1>2, <1>3, PutIs
<1>6. g = [f EXCEPT ![NextOf(x)] = x, ![PrevOf(x)] = x] BY <1>3 DEF Put
<1>7. \A y \in Nodes : /\ g[NextOf(y)] = IF y = x THEN x ELSE f[NextOf(y)]
                       /\ g[PrevOf(y)] = IF y = x THEN x ELSE f[PrevOf(y)]
  BY <1>1, <1>6, PointersDiffer DEF Heaps
<1>8. Ring(g, S) /\ Ring(g, S \cup {x}) BY <1>1, <1>7 DEF Ring
<1>9. Resets(f, g, x) BY <1>7 DEF Resets
<1> QED BY <1>3, <1>4, <1>5, <1>8, <1>9 DEF Keeps, f, g

\* INIT_LIST_HEAD
LEMMA InitKeeps ==
  ASSUME NEW h \in Heaps, NEW S \in SUBSET Nodes, Ring(h, S), NEW x \in Nodes \ S
  PROVE  /\ Keeps(h, INIT_LIST_HEAD(x), S \cup {x})
         /\ Resets(h, Written(h, INIT_LIST_HEAD(x)), x)
<1> DEFINE none == <<>>
           init == INIT_LIST_HEAD(x)
<1>1. Keeps(h, none, S) BY NothingKeeps
<1>2. InitAfter(none, x) = init
  <2>1. init \in Stores
    <3>1. <<NextOf(x), x>> \in Pairs /\ <<PrevOf(x), x>> \in Pairs
      BY PointersDiffer DEF Pairs, Values
    <3> QED BY <3>1, OnlyTwo DEF INIT_LIST_HEAD
  <2>2. none \o init = init
    <3> HIDE DEF init
    <3> QED BY <2>1, StoresNone
  <2> QED BY <2>2 DEF InitAfter
<1>3. /\ Keeps(h, InitAfter(none, x), S \cup {x})
      /\ Resets(Written(h, none), Written(h, InitAfter(none, x)), x)
  <2> HIDE DEF none
  <2> QED BY <1>1, ThenInit
<1>4. Written(h, none) = h BY WrittenNothing
<1> HIDE DEF none
<1> QED BY <1>2, <1>3, <1>4

\* an insertion after the stores s
LEMMA ThenAdd ==
  ASSUME NEW h \in Heaps, NEW s \in Stores, NEW f \in Heaps, f = Written(h, s),
         NEW S \in SUBSET Nodes, Ring(f, S), NEW new \in Nodes \ S, NEW pos \in S
  PROVE  /\ Keeps(h, s \o list_add(f, new, pos), S \cup {new})
         /\ Keeps(h, s \o list_add_tail(f, new, pos), S \cup {new})
         /\ Written(h, s \o list_add(f, new, pos)) = Written(f, list_add(f, new, pos))
         /\ Written(h, s \o list_add_tail(f, new, pos))
              = Written(f, list_add_tail(f, new, pos))
<1>1. ASSUME NEW p \in S, NEW n \in S, Keeps(f, __list_add(new, p, n), S \cup {new})
      PROVE  /\ Keeps(h, s \o __list_add(new, p, n), S \cup {new})
             /\ Written(h, s \o __list_add(new, p, n)) = Written(f, __list_add(new, p, n))
  <2> DEFINE a == <<PrevOf(n), new>>
             b == <<NextOf(new), n>>
             c == <<PrevOf(new), p>>
             d == <<NextOf(p), new>>
  <2>1. a \in Pairs /\ b \in Pairs /\ c \in Pairs /\ d \in Pairs
    BY PointersDiffer DEF Pairs, Values
  <2>2. __list_add(new, p, n) = <<a, b, c, d>> BY DEF __list_add
  <2> HIDE DEF a, b, c, d
  <2>3. /\ s \o <<a, b, c, d>> \in Stores
        /\ Written(h, s \o <<a, b, c, d>>) = Put(Put(Put(Put(f, a), b), c), d)
    BY <2>1, WrittenFour
  <2>4. Written(f, <<a, b, c, d>>) = Put(Put(Put(Put(f, a), b), c), d)
    BY <2>1, OnlyFour
  <2> QED BY <1>1, <2>2, <2>3, <2>4 DEF Keeps
<1>2. h \in Heaps /\ f[NextOf(pos)] \in S /\ f[PrevOf(pos)] \in S BY DEF Ring
<1>3. /\ Keeps(f, list_add(f, new, pos), S \cup {new})
      /\ Keeps(f, list_add_tail(f, new, pos), S \cup {new})
  BY AddKeeps
<1> QED BY <1>1, <1>2, <1>3 DEF list_add, list_add_tail

\* list_move and list_move_tail
LEMMA MoveKeeps ==
  ASSUME NEW h \in Heaps, NEW S \in SUBSET Nodes, Ring(h, S), NEW e \in S,
         NEW pos \in S \ {e}
  PROVE  Keeps(h, list_move(h, e, pos), S) /\ Keeps(h, list_move_tail(h, e, pos), S)
<1> DEFINE del == __list_del_entry(h, e)
<1>1. del \in Stores /\ Written(h, del) \in Heaps /\ Ring(Written(h, del), S \ {e})
  BY DelEntry
<1>2. (S \ {e}) \cup {e} = S OBVIOUS
<1> HIDE DEF del
<1>3. /\ Keeps(h, del \o list_add(Written(h, del), e, pos), (S \ {e}) \cup {e})
      /\ Keeps(h, del \o list_add_tail(Written(h, del), e, pos), (S \ {e}) \cup {e})
  BY <1>1, ThenAdd
<1> QED BY <1>2, <1>3 DEF list_move, list_move_tail, del

\* list_rotate_left
LEMMA RotateKeeps ==
  ASSUME NEW h \in Heaps, NEW S \in SUBSET Nodes, Ring(h, S), NEW head \in S
  PROVE  Keeps(h, list_rotate_left(h, head), S)
<1>1. h[NextOf(head)] \in S BY DEF Ring
<1> QED BY <1>1, MoveKeeps, NothingKeeps DEF list_rotate_left, list_empty

\* the next pointers of g are those of h, but: new takes the place of old
Swaps(h, g, old, new) == \A x \in Nodes \ {old} :
  g[NextOf(x)] = IF x = h[PrevOf(old)] THEN new
                 ELSE IF x = new THEN h[NextOf(old)] ELSE h[NextOf(x)]

\* the list of head up to entry goes to the empty list
Cuts(h, g, list, head, entry) == \A x \in Nodes :
  g[NextOf(x)] = IF x = head THEN h[NextOf(entry)] ELSE IF x = entry THEN list
                 ELSE IF x = list THEN h[NextOf(head)] ELSE h[NextOf(x)]

\* the entries of the list go between p and n
Splices(h, g, list, p, n) == \A x \in Nodes :
  g[NextOf(x)] = IF x = p THEN h[NextOf(list)]
                 ELSE IF x = h[PrevOf(list)] THEN n ELSE h[NextOf(x)]

\* list_replace and list_replace_init
LEMMA ReplaceKeeps ==
  ASSUME NEW h \in Heaps, NEW S \in SUBSET Nodes, Ring(h, S), NEW old \in S,
         NEW new \in Nodes \ S
  PROVE  /\ Keeps(h, list_replace(h, old, new), (S \ {old}) \cup {new})
         /\ Keeps(h, list_replace_init(h, old, new), (S \ {old}) \cup {new})
         /\ h[NextOf(old)] # old => Swaps(h, Written(h, list_replace(h, old, new)), old, new)
         /\ h[NextOf(old)] # old
              => Swaps(h, Written(h, list_replace_init(h, old, new)), old, new)
<1>0. ASSUME NEW s, NEW U \in SUBSET Nodes, Keeps(h, s, U), old \notin U
      PROVE  /\ Keeps(h, InitAfter(s, old), U)
             /\ Resets(Written(h, s), Written(h, InitAfter(s, old)), old)
  <2>1. old \in Nodes \ U BY <1>0
  <2>2. /\ Keeps(h, InitAfter(s, old), U)
        /\ Keeps(h, InitAfter(s, old), U \cup {old})
        /\ Resets(Written(h, s), Written(h, InitAfter(s, old)), old)
    BY <1>0, <2>1, ThenInit
  <2> QED BY <2>2
<1> DEFINE n == h[NextOf(old)]
           a == <<NextOf(new), n>>
           b == <<PrevOf(n), new>>
           half == <<a, b>>
           f == Written(h, half)
           p == f[PrevOf(old)]
           c == <<PrevOf(new), p>>
           d == <<NextOf(p), new>>
           all == half \o <<c, d>>
           g == Written(h, all)
           T == (S \ {old}) \cup {new}
<1>1. /\ n \in S /\ h[PrevOf(n)] = old /\ h[PrevOf(old)] \in S
      /\ h[NextOf(h[PrevOf(old)])] = old
  BY DEF Ring
<1>2. list_replace(h, old, new) = all BY DEF list_replace
<1>3. a \in Pairs /\ b \in Pairs
  BY <1>1, PointersDiffer DEF Pairs, Values
<1>4. half \in Stores /\ f \in Heaps /\ f = [h EXCEPT ![NextOf(new)] = n, ![PrevOf(n)] = new]
  <2>1. f = Put(Put(h, a), b) /\ half \in Stores /\ f \in Heaps
    <3> HIDE DEF a, b
    <3> QED BY <1>3, OnlyTwo
  <2> HIDE DEF half, f
  <2>2. f = [h EXCEPT ![NextOf(new)] = n, ![PrevOf(n)] = new]
    BY <2>1 DEF Put
  <2> QED BY <2>1, <2>2
<1> HIDE DEF n, f, half
<1>5. p = (IF n = old THEN new ELSE h[PrevOf(old)]) /\ p \in Nodes
  BY <1>1, <1>4, PointersDiffer DEF Heaps
<1>6. c \in Pairs /\ d \in Pairs
  BY <1>5, PointersDiffer DEF Pairs, Values
<1>7. all \in Stores /\ g = Put(Put(f, c), d)
  <2> HIDE DEF c, d, p
  <2>1. /\ half \o <<c, d>> \in Stores
        /\ Written(h, half \o <<c, d>>) = Put(Put(Written(h, half), c), d)
    BY <1>4, <1>6, WrittenTwo
  <2> QED BY <2>1 DEF f
<1>8. g \in Heaps /\ g = [f EXCEPT ![PrevOf(new)] = p, ![NextOf(p)] = new]
  <2>1. Put(Put(f, c), d) \in Heaps
    <3> HIDE DEF c, d
    <3> QED BY <1>4, <1>6, PutIs
  <2> HIDE DEF g, all
  <2>2. g = [f EXCEPT ![PrevOf(new)] = p, ![NextOf(p)] = new]
    BY <1>7 DEF Put
  <2> QED BY <1>7, <2>1, <2>2
<1> HIDE DEF p, g, all
<1>9. \A x \in Nodes :
        /\ g[NextOf(x)] = IF x = p THEN new ELSE IF x = new THEN n ELSE h[NextOf(x)]
        /\ g[PrevOf(x)] = IF x = new THEN p ELSE IF x = n THEN new ELSE h[PrevOf(x)]
  BY <1>1, <1>4, <1>5, <1>8, PointersDiffer DEF Heaps
<1>10. Ring(g, T)
  <2>1. CASE n = old
    <3>1. \A x \in S \ {old} : h[NextOf(x)] \in S \ {old} /\ h[PrevOf(x)] \in S \ {old}
      BY <1>1, <2>1 DEF Ring, n
    <3> QED BY <1>5, <1>9, <2>1, <3>1 DEF Ring
  <2>2. CASE n # old
    BY <1>1, <1>5, <1>9, <2>2 DEF Ring, n
  <2> QED BY <2>1, <2>2
<1>11. Keeps(h, list_replace(h, old, new), T)
  BY <1>2, <1>7, <1>8, <1>10 DEF Keeps, g
<1>12. old \in Nodes \ T OBVIOUS
<1> HIDE DEF T
<1>13. /\ Keeps(h, InitAfter(list_replace(h, old, new), old), T)
       /\ Resets(Written(h, list_replace(h, old, new)),
                 Written(h, InitAfter(list_replace(h, old, new), old)), old)
  <2>1. T \in SUBSET Nodes BY DEF T
  <2>2. PICK s : s = list_replace(h, old, new) OBVIOUS
  <2>3. Keeps(h, s, T) BY <1>11, <2>2
  <2>4. /\ Keeps(h, InitAfter(s, old), T)
        /\ Resets(Written(h, s), Written(h, InitAfter(s, old)), old)
    <3>1. old \in Nodes /\ old \notin T BY <1>12
    <3> QED BY <1>0, <2>1, <2>3, <3>1
  <2> QED BY <2>2, <2>4
<1>14. ASSUME n # old, NEW x \in Nodes
       PROVE  Written(h, list_replace(h, old, new))[NextOf(x)]
                = IF x = h[PrevOf(old)] THEN new ELSE IF x = new THEN n ELSE h[NextOf(x)]
  <2>1. p = h[PrevOf(old)] BY <1>5, <1>14
  <2> QED BY <1>2, <1>9, <2>1 DEF g
<1>15. list_replace_init(h, old, new) = InitAfter(list_replace(h, old, new), old)
  BY DEF list_replace_init, InitAfter
<1>16. n # old => Swaps(h, Written(h, list_replace(h, old, new)), old, new)
  BY <1>14 DEF Swaps, n
<1>17. n # old => Swaps(h, Written(h, list_replace_init(h, old, new)), old, new)
  BY <1>13, <1>15, <1>16 DEF Swaps, Resets
<1> QED BY <1>11, <1>13, <1>15, <1>16, <1>17 DEF T, n

\* list_cut_position and __list_cut_position
LEMMA CutKeeps ==
  ASSUME NEW h \in Heaps, NEW S \in SUBSET Nodes, Ring(h, S), NEW list \in S,
         NEW head \in S \ {list}, NEW entry \in S \ {list}, list_empty(h, list)
  PROVE  /\ Keeps(h, list_cut_position(h, list, head, entry), S)
         /\ Written(h, INIT_LIST_HEAD(list)) \in Heaps
         /\ Resets(h, Written(h, INIT_LIST_HEAD(list)), list)
         /\ entry # head /\ ~list_empty(h, head)
              => Cuts(h, Written(h, __list_cut_position(h, list, head, entry)), list, head, entry)
<1>1. h[NextOf(list)] = list /\ h[PrevOf(list)] = list BY DEF Ring, list_empty
<1>2. /\ Keeps(h, INIT_LIST_HEAD(list), S)
      /\ Resets(h, Written(h, INIT_LIST_HEAD(list)), list)
  <2>1. Ring(h, S \ {list}) BY <1>1 DEF Ring
  <2>2. (S \ {list}) \cup {list} = S OBVIOUS
  <2>3. /\ Keeps(h, INIT_LIST_HEAD(list), (S \ {list}) \cup {list})
        /\ Resets(h, Written(h, INIT_LIST_HEAD(list)), list)
    BY <2>1, InitKeeps
  <2> QED BY <2>2, <2>3
<1>3. ASSUME entry # head, ~list_empty(h, head)
      PROVE  /\ Keeps(h, __list_cut_position(h, list, head, entry), S)
             /\ \A x \in Nodes :
                  Written(h, __list_cut_position(h, list, head, entry))[NextOf(x)]
                    = IF x = head THEN h[NextOf(entry)] ELSE IF x = entry THEN list
                      ELSE IF x = list THEN h[NextOf(head)] ELSE h[NextOf(x)]
  <2> DEFINE first == h[NextOf(head)]
             nf == h[NextOf(entry)]
             a == <<NextOf(list), first>>
             b == <<PrevOf(first), list>>
             c == <<PrevOf(list), entry>>
             d == <<NextOf(entry), list>>
             e == <<NextOf(head), nf>>
             i == <<PrevOf(nf), head>>
             all == <<a, b, c, d, e, i>>
             g == Written(h, all)
  <2>1. /\ first \in S \ {list} /\ nf \in S \ {list} /\ first # nf
        /\ h[PrevOf(first)] = head /\ h[PrevOf(nf)] = entry
    BY <1>1, <1>3 DEF Ring
  <2>2. /\ a \in Pairs /\ b \in Pairs /\ c \in Pairs /\ d \in Pairs /\ e \in Pairs
        /\ i \in Pairs
    BY <2>1, PointersDiffer DEF Pairs, Values
  <2>3. __list_cut_position(h, list, head, entry) = all
    BY DEF __list_cut_position
  <2> HIDE DEF first, nf
  <2>4. /\ all \in Stores /\ g \in Heaps
        /\ g = Put(Put(Put(Put(Put(Put(h, a), b), c), d), e), i)
    <3> HIDE DEF a, b, c, d, e, i
    <3> QED BY <2>2, OnlySix
  <2>5. g = [h EXCEPT ![NextOf(list)] = first, ![PrevOf(first)] = list,
                      ![PrevOf(list)] = entry, ![NextOf(entry)] = list,
                      ![NextOf(head)] = nf, ![PrevOf(nf)] = head]
    <3> HIDE DEF g, all
    <3> QED BY <2>4 DEF Put
  <2> HIDE DEF g, all
  <2>6. /\ \A x \in Nodes : g[NextOf(x)] = IF x = head THEN nf ELSE IF x = entry THEN list
                                 ELSE IF x = list THEN first ELSE h[NextOf(x)]
        /\ \A x \in Nodes : g[PrevOf(x)] = IF x = nf THEN head ELSE IF x = list THEN entry
                                 ELSE IF x = first THEN list ELSE h[PrevOf(x)]
    BY <1>3, <2>1, <2>5, PointersDiffer DEF Heaps
  <2>7. \A x \in S : /\ x # head => h[NextOf(x)] # first
                     /\ x # entry => h[NextOf(x)] # nf
                     /\ x # first => h[PrevOf(x)] # head
                     /\ x # nf => h[PrevOf(x)] # entry
    BY <2>1 DEF Ring, first, nf
  <2>8. \A x \in S : x # list => h[NextOf(x)] # list /\ h[PrevOf(x)] # list
    BY <1>1 DEF Ring
  <2>9. Ring(g, S)
    BY <1>3, <2>1, <2>6, <2>7, <2>8 DEF Ring
  <2>10. Keeps(h, __list_cut_position(h, list, head, entry), S)
    BY <2>3, <2>4, <2>9 DEF Keeps, g
  <2> QED BY <2>3, <2>6, <2>10 DEF g, first, nf
<1>4. Keeps(h, list_cut_position(h, list, head, entry), S)
  BY <1>2, <1>3, NothingKeeps DEF list_cut_position
<1>5. /\ Written(h, INIT_LIST_HEAD(list)) \in Heaps
      /\ Resets(h, Written(h, INIT_LIST_HEAD(list)), list)
  BY <1>2 DEF Keeps
<1>6. entry # head /\ ~list_empty(h, head)
        => Cuts(h, Written(h, __list_cut_position(h, list, head, entry)), list, head, entry)
  BY <1>3 DEF Cuts
<1> QED BY <1>4, <1>5, <1>6

\* list_splice, list_splice_tail and their _init forms
LEMMA SpliceKeeps ==
  ASSUME NEW h \in Heaps, NEW S \in SUBSET Nodes, Ring(h, S), NEW list \in S,
         NEW head \in S \ {list}, head # h[NextOf(list)], head # h[PrevOf(list)],
         ~list_empty(h, list)
  PROVE  /\ Keeps(h, list_splice(h, list, head), S \ {list})
         /\ Keeps(h, list_splice_tail(h, list, head), S \ {list})
         /\ Keeps(h, list_splice_init(h, list, head), S)
         /\ Keeps(h, list_splice_tail_init(h, list, head), S)
         /\ Splices(h, Written(h, list_splice(h, list, head)), list, head, h[NextOf(head)])
         /\ Splices(h, Written(h, list_splice_tail(h, list, head)), list, h[PrevOf(head)], head)
         /\ Resets(Written(h, list_splice(h, list, head)),
                   Written(h, list_splice_init(h, list, head)), list)
         /\ Resets(Written(h, list_splice_tail(h, list, head)),
                   Written(h, list_splice_tail_init(h, list, head)), list)
<1> DEFINE first == h[NextOf(list)]
           last == h[PrevOf(list)]
<1>1. /\ first \in S \ {list} /\ last \in S \ {list}
      /\ h[PrevOf(first)] = list /\ h[NextOf(last)] = list
  BY DEF Ring, list_empty
<1>2. ASSUME NEW prev \in S \ {list}, NEW next \in S \ {list}, h[NextOf(prev)] = next
      PROVE  /\ Keeps(h, __list_splice(h, list, prev, next), S \ {list})
             /\ \A x \in Nodes : Written(h, __list_splice(h, list, prev, next))[NextOf(x)]
                  = IF x = prev THEN first ELSE IF x = last THEN next ELSE h[NextOf(x)]
  <2> DEFINE a == <<PrevOf(first), prev>>
             b == <<NextOf(prev), first>>
             c == <<NextOf(last), next>>
             d == <<PrevOf(next), last>>
             all == <<a, b, c, d>>
             g == Written(h, all)
  <2>1. h[PrevOf(next)] = prev /\ prev # last /\ next # first
    BY <1>1, <1>2 DEF Ring
  <2>2. a \in Pairs /\ b \in Pairs /\ c \in Pairs /\ d \in Pairs
    BY <1>1, PointersDiffer DEF Pairs, Values
  <2>3. __list_splice(h, list, prev, next) = all BY DEF __list_splice
  <2> HIDE DEF first, last
  <2>4. /\ all \in Stores /\ g \in Heaps
        /\ g = Put(Put(Put(Put(h, a), b), c), d)
    <3> HIDE DEF a, b, c, d
    <3> QED BY <2>2, OnlyFour
  <2>5. g = [h EXCEPT ![PrevOf(first)] = prev, ![NextOf(prev)] = first,
                      ![NextOf(last)] = next, ![PrevOf(next)] = last]
    <3> HIDE DEF g, all
    <3> QED BY <2>4 DEF Put
  <2> HIDE DEF g, all
  <2>6. /\ \A x \in Nodes : g[NextOf(x)] = IF x = prev THEN first ELSE IF x = last THEN next
                                 ELSE h[NextOf(x)]
        /\ \A x \in Nodes : g[PrevOf(x)] = IF x = first THEN prev ELSE IF x = next THEN last
                                 ELSE h[PrevOf(x)]
    BY <1>1, <2>1, <2>5, PointersDiffer DEF Heaps
  <2>7. Ring(g, S \ {list})
    <3>1. \A x \in S : /\ x # last => h[NextOf(x)] # list
                       /\ x # first => h[PrevOf(x)] # list
                       /\ x # prev => h[NextOf(x)] # next
                       /\ x # next => h[PrevOf(x)] # prev
      BY <1>2, <2>1 DEF Ring, first, last
    <3>2. \A x \in S \ {list} : h[NextOf(x)] # first /\ h[PrevOf(x)] # last
      BY DEF Ring, first, last
    <3> QED BY <1>1, <1>2, <2>1, <2>6, <3>1, <3>2 DEF Ring
  <2>8. Keeps(h, __list_splice(h, list, prev, next), S \ {list})
    BY <2>3, <2>4, <2>7 DEF Keeps, g
  <2> QED BY <2>3, <2>6, <2>8 DEF g
<1>3. /\ h[NextOf(head)] \in S \ {list} /\ h[PrevOf(head)] \in S \ {list}
      /\ h[NextOf(h[PrevOf(head)])] = head
  BY DEF Ring
<1>4. /\ Keeps(h, list_splice(h, list, head), S \ {list})
      /\ Keeps(h, list_splice_tail(h, list, head), S \ {list})
      /\ \A x \in Nodes :
           /\ Written(h, list_splice(h, list, head))[NextOf(x)]
                = IF x = head THEN first ELSE IF x = last THEN h[NextOf(head)] ELSE h[NextOf(x)]
           /\ Written(h, list_splice_tail(h, list, head))[NextOf(x)]
                = IF x = h[PrevOf(head)] THEN first ELSE IF x = last THEN head ELSE h[NextOf(x)]
  <2>1. /\ list_splice(h, list, head) = __list_splice(h, list, head, h[NextOf(head)])
        /\ list_splice_tail(h, list, head) = __list_splice(h, list, h[PrevOf(head)], head)
    BY DEF list_splice, list_splice_tail
  <2>2. /\ Keeps(h, __list_splice(h, list, head, h[NextOf(head)]), S \ {list})
        /\ \A x \in Nodes : Written(h, __list_splice(h, list, head, h[NextOf(head)]))[NextOf(x)]
             = IF x = head THEN first ELSE IF x = last THEN h[NextOf(head)] ELSE h[NextOf(x)]
    BY <1>2, <1>3
  <2>3. /\ Keeps(h, __list_splice(h, list, h[PrevOf(head)], head), S \ {list})
        /\ \A x \in Nodes : Written(h, __list_splice(h, list, h[PrevOf(head)], head))[NextOf(x)]
             = IF x = h[PrevOf(head)] THEN first ELSE IF x = last THEN head ELSE h[NextOf(x)]
    BY <1>2, <1>3
  <2> QED BY <2>1, <2>2, <2>3
<1> HIDE DEF first, last
<1>5. /\ list_splice_init(h, list, head) = InitAfter(list_splice(h, list, head), list)
      /\ list_splice_tail_init(h, list, head)
           = InitAfter(list_splice_tail(h, list, head), list)
  BY DEF list_splice_init, list_splice_tail_init, InitAfter
<1>6. ASSUME NEW s, Keeps(h, s, S \ {list})
      PROVE  /\ Keeps(h, InitAfter(s, list), S)
             /\ Resets(Written(h, s), Written(h, InitAfter(s, list)), list)
  <2>1. list \in Nodes \ (S \ {list}) /\ S \ {list} \in SUBSET Nodes OBVIOUS
  <2>2. (S \ {list}) \cup {list} = S OBVIOUS
  <2>3. /\ Keeps(h, InitAfter(s, list), (S \ {list}) \cup {list})
        /\ Resets(Written(h, s), Written(h, InitAfter(s, list)), list)
    BY <1>6, <2>1, ThenInit
  <2> QED BY <2>2, <2>3
<1>7. /\ Keeps(h, list_splice_init(h, list, head), S)
      /\ Resets(Written(h, list_splice(h, list, head)),
                Written(h, list_splice_init(h, list, head)), list)
  BY <1>4, <1>5, <1>6
<1>8. /\ Keeps(h, list_splice_tail_init(h, list, head), S)
      /\ Resets(Written(h, list_splice_tail(h, list, head)),
                Written(h, list_splice_tail_init(h, list, head)), list)
  BY <1>4, <1>5, <1>6
<1>9. /\ Splices(h, Written(h, list_splice(h, list, head)), list, head, h[NextOf(head)])
      /\ Splices(h, Written(h, list_splice_tail(h, list, head)), list, h[PrevOf(head)], head)
  BY <1>4 DEF Splices, first, last
<1> QED BY <1>4, <1>7, <1>8, <1>9

-----------------------------------------------------------------------------
(* The invariant.                                                          *)

\* the heap once every function in progress is finished
Coming(p, ss, t) == p \in Targets(ss[t])
ToBe(h, ss) ==
  [p \in Pointers |-> IF \E t \in Tasks : Coming(p, ss, t)
                        THEN LastStored(ss[CHOOSE t \in Tasks : Coming(p, ss, t)], p)
                        ELSE h[p]]

\* the functions that tasks run by themselves make four stores
FourEach(ss) == ss \in [Tasks -> Stores] /\ \A t \in Tasks : ss[t] = <<>> \/ Len(ss[t]) = 4

Apart(ss) == \A t, u \in Tasks : t # u => Targets(ss[t]) \cap Targets(ss[u]) = {}

\* the last of the first k stores in s into a pointer shows in the heap h
Made(h, s, k) == \A i \in 1..4 :
  i <= k /\ (\A j \in 1..4 : i < j /\ j <= k => s[j][1] # s[i][1])
    => h[s[i][1]] = s[i][2]

Inv == /\ TypeOK /\ FourEach(stores) /\ Apart(stores)
       /\ \A t \in Tasks : Made(heap, stores[t], done[t])
       /\ Ring(ToBe(heap, stores), on)

\* the elements of a sequence
LEMMA SeqElements ==
  ASSUME NEW T, NEW s \in Seq(T), NEW i \in 1..Len(s)
  PROVE  s[i] \in T
OBVIOUS

\* the last store into a pointer is one of the four
LEMMA LastOfFour ==
  ASSUME NEW s \in Stores, Len(s) = 4, NEW p \in Targets(s)
  PROVE  /\ p \in Pointers /\ LastStored(s, p) \in Values
         /\ \E i \in 1..4 : /\ s[i] = <<p, LastStored(s, p)>>
                            /\ \A j \in 1..4 : s[j][1] = p => j <= i
         /\ \A i \in 1..4 : s[i][1] = p /\ (\A j \in 1..4 : s[j][1] = p => j <= i)
                              => s[i][2] = LastStored(s, p)
<1>1. DOMAIN s = 1..4 /\ \A i \in 1..4 : s[i] \in Pairs
  <2>1. DOMAIN s = 1..Len(s) /\ \A i \in 1..Len(s) : s[i] \in Pairs
    <3>1. Len(s) \in Nat /\ DOMAIN s = 1..Len(s) BY DEF Stores
    <3> QED BY <3>1, SeqElements DEF Stores
  <2> QED BY <2>1
<1>2. \A i \in 1..4 : /\ s[i] = <<s[i][1], s[i][2]>> /\ s[i][1] \in Pointers
                      /\ s[i][2] \in Values
  BY <1>1 DEF Pairs
<1>3. PICK i \in 1..4 : s[i][1] = p /\ \A j \in 1..4 : s[j][1] = p => j <= i
  <2>1. \E i \in 1..4 : s[i][1] = p BY <1>1 DEF Targets
  <2>2. \A i \in 1..4 : i = 1 \/ i = 2 \/ i = 3 \/ i = 4 OBVIOUS
  <2>3. CASE s[4][1] = p BY <2>3
  <2>4. CASE s[4][1] # p /\ s[3][1] = p BY <2>2, <2>4
  <2>5. CASE s[4][1] # p /\ s[3][1] # p /\ s[2][1] = p BY <2>2, <2>5
  <2>6. CASE s[4][1] # p /\ s[3][1] # p /\ s[2][1] # p BY <2>1, <2>2, <2>6
  <2> QED BY <2>3, <2>4, <2>5, <2>6
<1> DEFINE Is(v) == /\ v \in {s[k][2] : k \in DOMAIN s}
                    /\ \E k \in DOMAIN s : /\ s[k] = <<p, v>>
                                           /\ \A j \in DOMAIN s : s[j][1] = p => j <= k
<1>4. LastStored(s, p) = CHOOSE v : Is(v) BY DEF LastStored
<1>5. Is(s[i][2]) BY <1>1, <1>2, <1>3
<1>6. \A v : Is(v) => v = s[i][2] BY <1>1, <1>2, <1>3
<1>7. LastStored(s, p) = s[i][2]
  <2> HIDE DEF Is
  <2> QED BY <1>4, <1>5, <1>6
<1>8. ASSUME NEW k \in 1..4, s[k][1] = p, \A j \in 1..4 : s[j][1] = p => j <= k
      PROVE  s[k][2] = LastStored(s, p)
  <2>1. k = i BY <1>3, <1>8
  <2> QED BY <1>7, <2>1
<1> QED BY <1>2, <1>3, <1>7, <1>8

\* what ToBe is, said without CHOOSE
LEMMA ToBeIs ==
  ASSUME NEW h \in Heaps, NEW ss, FourEach(ss), Apart(ss)
  PROVE  /\ ToBe(h, ss) \in Heaps
         /\ \A t \in Tasks : \A p \in Targets(ss[t]) :
              p \in Pointers /\ ToBe(h, ss)[p] = LastStored(ss[t], p)
         /\ \A p \in Pointers :
              (\A t \in Tasks : ~Coming(p, ss, t)) => ToBe(h, ss)[p] = h[p]
<1>1. ASSUME NEW t \in Tasks, NEW p \in Targets(ss[t])
      PROVE  /\ p \in Pointers /\ LastStored(ss[t], p) \in Values
             /\ ToBe(h, ss)[p] = LastStored(ss[t], p)
  <2>1. ss[t] # <<>> BY DEF Targets
  <2>2. Len(ss[t]) = 4 /\ ss[t] \in Stores BY <2>1 DEF FourEach
  <2>3. p \in Pointers /\ LastStored(ss[t], p) \in Values
    BY <2>2, LastOfFour
  <2>4. \A u \in Tasks : Coming(p, ss, u) <=> u = t BY DEF Coming, Apart
  <2>5. (CHOOSE u \in Tasks : Coming(p, ss, u)) = t BY <2>4
  <2> QED BY <2>3, <2>4, <2>5 DEF ToBe
<1>2. \A p \in Pointers : (\A t \in Tasks : ~Coming(p, ss, t)) => ToBe(h, ss)[p] = h[p]
  BY DEF ToBe
<1>3. \A p \in Pointers : ToBe(h, ss)[p] \in Values
  BY <1>1, <1>2 DEF Coming, Heaps
<1>4. ToBe(h, ss) \in Heaps BY <1>3 DEF ToBe, Heaps
<1> QED BY <1>1, <1>2, <1>4

\* nothing is to come when no function is in progress
LEMMA QuietToBe ==
  ASSUME NEW h \in Heaps, NEW ss, \A t \in Tasks : ss[t] = <<>>
  PROVE  ToBe(h, ss) = h
<1>1. \A t \in Tasks : \A p : ~Coming(p, ss, t) BY DEF Coming, Targets
<1> QED BY <1>1 DEF ToBe, Heaps

\* heaps with the same pointers are one
LEMMA HeapsEqual ==
  ASSUME NEW f \in Heaps, NEW g \in Heaps, \A p \in Pointers : f[p] = g[p]
  PROVE  f = g
BY DEF Heaps

\* a function that is called changes what is to be as if it ran at once
LEMMA CallToBe ==
  ASSUME NEW h \in Heaps, NEW ss, FourEach(ss), Apart(ss), NEW t \in Tasks, ss[t] = <<>>,
         NEW s \in Stores, Len(s) = 4,
         \A u \in Tasks : Targets(ss[u]) \cap Targets(s) = {},
         Written(ToBe(h, ss), s) \in Heaps,
         NEW new, FourEach(new), \A u \in Tasks : new[u] = IF u = t THEN s ELSE ss[u]
  PROVE  /\ Apart(new)
         /\ ToBe(h, new) = Written(ToBe(h, ss), s)
<1> DEFINE f == ToBe(h, ss)
           g == ToBe(h, new)
<1>1. FourEach(new) OBVIOUS
<1>2. /\ Targets(ss[t]) = {}
      /\ \A u \in Tasks : new[u] = IF u = t THEN s ELSE ss[u]
  BY DEF Targets
<1>3. Apart(new) BY <1>2 DEF Apart
<1>4. /\ f \in Heaps /\ g \in Heaps
      /\ \A p \in Targets(s) : p \in Pointers /\ g[p] = LastStored(s, p)
      /\ \A u \in Tasks : \A p \in Targets(new[u]) : g[p] = LastStored(new[u], p)
      /\ \A u \in Tasks : \A p \in Targets(ss[u]) : f[p] = LastStored(ss[u], p)
      /\ \A p \in Pointers : (\A u \in Tasks : ~Coming(p, new, u)) => g[p] = h[p]
      /\ \A p \in Pointers : (\A u \in Tasks : ~Coming(p, ss, u)) => f[p] = h[p]
  BY <1>1, <1>2, <1>3, ToBeIs
<1>5. \A p \in Pointers : p \notin Targets(s) => f[p] = g[p]
  BY <1>2, <1>4 DEF Coming
<1>6. \A p \in Pointers :
        Written(f, s)[p] = IF p \in Targets(s) THEN LastStored(s, p) ELSE f[p]
  BY <1>4 DEF Written, Heaps
<1>7. Written(f, s) = g
  BY <1>4, <1>5, <1>6, HeapsEqual
<1> QED BY <1>1, <1>3, <1>7

\* what t reads is what is to be, where t stores itself
LEMMA OwnReads ==
  ASSUME NEW h \in Heaps, NEW ss, FourEach(ss), Apart(ss), NEW p \in Pointers,
         \A u \in Tasks : p \notin Targets(ss[u])
  PROVE  h[p] = ToBe(h, ss)[p]
BY ToBeIs DEF Coming

\* the stores of a function, one by one
LEMMA InTargets ==
  ASSUME NEW s \in Stores, Len(s) = 4, NEW i \in 1..4
  PROVE  /\ s[i] \in Pairs /\ s[i][1] \in Targets(s) /\ s[i][1] \in Pointers
         /\ s[i][2] \in Values
<1>1. DOMAIN s = 1..4 /\ s[i] \in Pairs
  <2>1. Len(s) \in Nat /\ DOMAIN s = 1..Len(s) BY DEF Stores
  <2> QED BY <2>1, SeqElements DEF Stores
<1> QED BY <1>1 DEF Targets, Pairs

\* a store of t shows, and hides no store of another task
LEMMA StoreMade ==
  ASSUME NEW h \in Heaps, NEW ss, FourEach(ss), Apart(ss), NEW t \in Tasks,
         Len(ss[t]) = 4, NEW k \in 0..3, Made(h, ss[t], k),
         NEW g, g = Put(h, ss[t][k + 1])
  PROVE  /\ g \in Heaps /\ Made(g, ss[t], k + 1)
         /\ \A p \in Pointers : p \notin Targets(ss[t]) => g[p] = h[p]
         /\ \A u \in Tasks \ {t}, m \in 0..4 :
              Len(ss[u]) = 4 /\ Made(h, ss[u], m) => Made(g, ss[u], m)
<1> DEFINE s == ss[t]
           i == k + 1
<1>1. s \in Stores /\ i \in 1..4 BY DEF FourEach
<1>2. \A j \in 1..4 : s[j][1] \in Targets(s) /\ s[j][1] \in Pointers /\ s[j][2] \in Values
  BY <1>1, InTargets
<1> HIDE DEF s, i
<1>3. g = [h EXCEPT ![s[i][1]] = s[i][2]] BY DEF s, i, Put
<1>4. /\ g \in Heaps /\ g[s[i][1]] = s[i][2]
      /\ \A p \in Pointers : p # s[i][1] => g[p] = h[p]
  BY <1>1, <1>2, <1>3 DEF Heaps
<1>5. Made(g, s, i)
  <2> SUFFICES ASSUME NEW j \in 1..4, j <= i,
                      \A m \in 1..4 : j < m /\ m <= i => s[m][1] # s[j][1]
               PROVE  g[s[j][1]] = s[j][2]
    BY DEF Made
  <2>1. CASE j = i BY <1>4, <2>1
  <2>2. CASE j # i
    <3>1. j <= k /\ \A m \in 1..4 : j < m /\ m <= k => s[m][1] # s[j][1]
      BY <2>2 DEF i
    <3>2. h[s[j][1]] = s[j][2] BY <3>1 DEF Made, s
    <3>3. s[i][1] # s[j][1] BY <1>1, <2>2
    <3> QED BY <1>2, <1>4, <3>2, <3>3
  <2> QED BY <2>1, <2>2
<1>6. \A p \in Pointers : p \notin Targets(s) => g[p] = h[p]
  BY <1>1, <1>2, <1>4
<1>7. ASSUME NEW u \in Tasks \ {t}, NEW m \in 0..4, Len(ss[u]) = 4, Made(h, ss[u], m)
      PROVE  Made(g, ss[u], m)
  <2>1. ss[u] \in Stores BY DEF FourEach
  <2>2. \A j \in 1..4 : ss[u][j][1] \in Targets(ss[u]) /\ ss[u][j][1] \in Pointers
    BY <1>7, <2>1, InTargets
  <2>3. \A j \in 1..4 : g[ss[u][j][1]] = h[ss[u][j][1]]
    BY <1>6, <2>2 DEF Apart, s
  <2> QED BY <1>7, <2>3 DEF Made
<1> QED BY <1>4, <1>5, <1>6, <1>7 DEF s, i

\* a store of t does not change what the heap is to be
LEMMA StoreToBe ==
  ASSUME NEW h \in Heaps, NEW ss, FourEach(ss), Apart(ss), NEW t \in Tasks,
         Len(ss[t]) = 4, NEW g \in Heaps,
         \A p \in Pointers : p \notin Targets(ss[t]) => g[p] = h[p]
  PROVE  /\ ToBe(g, ss) = ToBe(h, ss)
         /\ Made(g, ss[t], 4) =>
              LET left == [ss EXCEPT ![t] = <<>>]
              IN  /\ FourEach(left) /\ Apart(left)
                  /\ ToBe(g, left) = ToBe(h, ss)
<1>1. /\ ToBe(h, ss) \in Heaps
      /\ \A u \in Tasks : \A p \in Targets(ss[u]) :
           p \in Pointers /\ ToBe(h, ss)[p] = LastStored(ss[u], p)
      /\ \A p \in Pointers :
           (\A u \in Tasks : ~Coming(p, ss, u)) => ToBe(h, ss)[p] = h[p]
  BY ToBeIs
<1>2. ToBe(g, ss) = ToBe(h, ss)
  <2>1. /\ ToBe(g, ss) \in Heaps
        /\ \A u \in Tasks : \A p \in Targets(ss[u]) : ToBe(g, ss)[p] = LastStored(ss[u], p)
        /\ \A p \in Pointers :
             (\A u \in Tasks : ~Coming(p, ss, u)) => ToBe(g, ss)[p] = g[p]
    BY ToBeIs
  <2>2. \A p \in Pointers : ToBe(g, ss)[p] = ToBe(h, ss)[p]
    BY <1>1, <2>1 DEF Coming
  <2> QED BY <1>1, <2>1, <2>2, HeapsEqual
<1>3. ASSUME Made(g, ss[t], 4)
      PROVE  LET left == [ss EXCEPT ![t] = <<>>]
             IN  FourEach(left) /\ Apart(left) /\ ToBe(g, left) = ToBe(h, ss)
  <2> DEFINE left == [ss EXCEPT ![t] = <<>>]
  <2>1. FourEach(left)
    <3>1. <<>> \in Stores BY StoresNone
    <3> QED BY <3>1 DEF FourEach
  <2>2. \A u \in Tasks : left[u] = IF u = t THEN <<>> ELSE ss[u]
    BY DEF FourEach
  <2>3. \A u \in Tasks : Targets(left[u]) = IF u = t THEN {} ELSE Targets(ss[u])
    BY <2>2 DEF Targets
  <2> HIDE DEF left
  <2>4. Apart(left) BY <2>3 DEF Apart
  <2>5. /\ ToBe(g, left) \in Heaps
        /\ \A u \in Tasks : \A p \in Targets(left[u]) : ToBe(g, left)[p] = LastStored(left[u], p)
        /\ \A p \in Pointers :
             (\A u \in Tasks : ~Coming(p, left, u)) => ToBe(g, left)[p] = g[p]
    BY <2>1, <2>4, ToBeIs
  <2>6. \A p \in Targets(ss[t]) : g[p] = LastStored(ss[t], p)
    <3>1. ss[t] \in Stores BY DEF FourEach
    <3> SUFFICES ASSUME NEW p \in Targets(ss[t]) PROVE g[p] = LastStored(ss[t], p)
      OBVIOUS
    <3>2. PICK i \in 1..4 : /\ ss[t][i] = <<p, LastStored(ss[t], p)>>
                            /\ \A j \in 1..4 : ss[t][j][1] = p => j <= i
      BY <3>1, LastOfFour
    <3>3. \A j \in 1..4 : i < j => ss[t][j][1] # p BY <3>2
    <3>4. ss[t][i][1] = p /\ ss[t][i][2] = LastStored(ss[t], p) BY <3>2
    <3> QED BY <1>3, <3>3, <3>4 DEF Made
  <2>7. ASSUME NEW p \in Pointers PROVE ToBe(g, left)[p] = ToBe(h, ss)[p]
    <3>1. CASE p \in Targets(ss[t])
      <4>1. \A u \in Tasks : ~Coming(p, left, u) BY <2>3, <3>1 DEF Coming, Apart
      <4> QED BY <1>1, <2>5, <2>6, <3>1, <4>1
    <3>2. CASE p \notin Targets(ss[t]) /\ \E u \in Tasks : Coming(p, left, u)
      BY <1>1, <2>2, <2>3, <2>5, <3>2 DEF Coming
    <3>3. CASE p \notin Targets(ss[t]) /\ \A u \in Tasks : ~Coming(p, left, u)
      <4>1. \A u \in Tasks : ~Coming(p, ss, u) BY <2>3, <3>3 DEF Coming
      <4> QED BY <1>1, <2>5, <3>3, <4>1
    <3> QED BY <3>1, <3>2, <3>3
  <2>8. ToBe(g, left) = ToBe(h, ss) BY <1>1, <2>5, <2>7, HeapsEqual
  <2> QED BY <2>1, <2>4, <2>8 DEF left
<1> QED BY <1>2, <1>3

-----------------------------------------------------------------------------
(* Every step keeps the invariant.                                         *)

\* what the invariant gives of a step
LEMMA InvGives ==
  ASSUME Inv
  PROVE  /\ heap \in Heaps /\ on \in SUBSET Nodes /\ FourEach(stores) /\ Apart(stores)
         /\ ToBe(heap, stores) \in Heaps /\ Ring(ToBe(heap, stores), on)
         /\ \A t \in Tasks : Idle(t) => done[t] = 0
         /\ \A t \in Tasks : ~Idle(t) => Len(stores[t]) = 4 /\ done[t] \in 0..3
<1>1. /\ heap \in Heaps /\ on \in SUBSET Nodes /\ FourEach(stores) /\ Apart(stores)
      /\ Ring(ToBe(heap, stores), on)
  BY DEF Inv, TypeOK, Heaps, Values
<1>2. ToBe(heap, stores) \in Heaps BY <1>1, ToBeIs
<1>3. \A t \in Tasks : /\ Idle(t) => done[t] = 0
                       /\ ~Idle(t) => Len(stores[t]) = 4 /\ done[t] \in 0..3
  <2> SUFFICES ASSUME NEW t \in Tasks
               PROVE  /\ Idle(t) => done[t] = 0
                      /\ ~Idle(t) => Len(stores[t]) = 4 /\ done[t] \in 0..3
    OBVIOUS
  <2>1. /\ done[t] \in Nat
        /\ stores[t] = <<>> => done[t] = 0
        /\ stores[t] # <<>> => done[t] < Len(stores[t])
    <3>1. done \in [Tasks -> Nat] BY DEF Inv, TypeOK
    <3>2. \A u \in Tasks : IF stores[u] = <<>> THEN done[u] = 0
                                               ELSE done[u] < Len(stores[u])
      BY DEF Inv, TypeOK
    <3> QED BY <3>1, <3>2
  <2>2. stores[t] # <<>> => Len(stores[t]) = 4 BY <1>1 DEF FourEach
  <2>3. ASSUME stores[t] # <<>> PROVE done[t] \in 0..3
    <3> DEFINE k == done[t]
               l == Len(stores[t])
    <3>1. k \in Nat /\ l = 4 /\ k < l BY <2>1, <2>2, <2>3
    <3> HIDE DEF k, l
    <3>2. k \in 0..3 BY <3>1
    <3> QED BY <3>2 DEF k
  <2> QED BY <2>1, <2>2, <2>3 DEF Idle
<1> QED BY <1>1, <1>2, <1>3

\* a step of a loop
LEMMA WalksOnly ==
  ASSUME Inv, UNCHANGED <<heap, on, stores, done>>, walk' \in [Tasks -> Walks \cup {NoWalk}],
         disturbed' \subseteq Tasks, raced' \in BOOLEAN
  PROVE  Inv'
BY DEF Inv, TypeOK, FourEach, Made, Ring

\* a call
LEMMA CallStep ==
  ASSUME Inv, NEW t \in Tasks, NEW s, NEW linked \in SUBSET Nodes, Call(t, s, linked),
         disturbed' \subseteq Tasks,
         (\A u \in Tasks : Targets(stores[u]) \cap Targets(s) = {})
           => Keeps(ToBe(heap, stores), s, linked) /\ Len(s) = 4
  PROVE  Inv'
<1>0. /\ heap \in Heaps /\ FourEach(stores) /\ Apart(stores)
      /\ \A u \in Tasks : Idle(u) => done[u] = 0
  BY InvGives
<1>1. CASE ~\A u \in Tasks : Targets(stores[u]) \cap Targets(s) = {}
  <2>1. UNCHANGED <<heap, on, stores, done, walk>> /\ raced' \in BOOLEAN
    BY <1>1 DEF Call
  <2> QED BY <2>1, WalksOnly DEF Inv, TypeOK
<1>2. CASE \A u \in Tasks : Targets(stores[u]) \cap Targets(s) = {}
  <2>1. /\ UNCHANGED <<heap, done, walk, raced>> /\ stores[t] = <<>> /\ on' = linked
        /\ stores' = [stores EXCEPT ![t] = s]
    BY <1>2 DEF Call, Idle
  <2>2. /\ s \in Stores /\ Len(s) = 4 /\ Written(ToBe(heap, stores), s) \in Heaps
        /\ Ring(Written(ToBe(heap, stores), s), linked)
    BY <1>2 DEF Keeps
  <2>3. /\ FourEach(stores') /\ Apart(stores')
        /\ ToBe(heap, stores') = Written(ToBe(heap, stores), s)
    <3>1. /\ heap \in Heaps /\ FourEach(stores) /\ Apart(stores) /\ stores[t] = <<>>
          /\ s \in Stores /\ Len(s) = 4 /\ Written(ToBe(heap, stores), s) \in Heaps
      BY <1>0, <2>1, <2>2
    <3>2. PICK new : new = [stores EXCEPT ![t] = s] OBVIOUS
    <3>3. FourEach(new) /\ \A u \in Tasks : new[u] = IF u = t THEN s ELSE stores[u]
      BY <3>1, <3>2 DEF FourEach
    <3>4. stores' = new BY <2>1, <3>2
    <3>5. Apart(new) /\ ToBe(heap, new) = Written(ToBe(heap, stores), s)
      BY <1>2, <3>1, <3>3, CallToBe
    <3> QED BY <3>3, <3>4, <3>5
  <2>4. \A u \in Tasks : stores'[u] = IF u = t THEN s ELSE stores[u]
    BY <2>1 DEF Inv, TypeOK
  <2>5. TypeOK'
    <3>1. done[t] = 0 /\ s # <<>>
      <4>1. s = <<>> => Len(s) = 0 OBVIOUS
      <4> QED BY <1>0, <2>1, <2>2, <4>1 DEF Idle
    <3>2. stores' \in [Tasks -> Seq(Pointers \X (Nodes \cup {Wild}))]
      BY <2>3 DEF FourEach, Stores, Pairs, Values
    <3>3. \A u \in Tasks : IF stores'[u] = <<>> THEN done[u] = 0
                                                ELSE done[u] < Len(stores'[u])
      <4>1. \A u \in Tasks : IF stores[u] = <<>> THEN done[u] = 0
                                                 ELSE done[u] < Len(stores[u])
        BY DEF Inv, TypeOK
      <4>2. done[t] < Len(s) BY <2>2, <3>1
      <4> QED BY <2>4, <3>1, <4>1, <4>2
    <3> QED BY <2>1, <3>2, <3>3 DEF Inv, TypeOK
  <2>6. \A u \in Tasks : Made(heap, stores'[u], done[u])
    <3>1. done[t] = 0 BY <1>0, <2>1 DEF Idle
    <3>2. Made(heap, s, 0) BY DEF Made
    <3> QED BY <2>4, <3>1, <3>2 DEF Inv
  <2> QED BY <2>1, <2>2, <2>3, <2>5, <2>6 DEF Inv
<1> QED BY <1>1, <1>2

\* a function that runs whole
LEMMA DoStep ==
  ASSUME Inv, Quiet, NEW s, NEW linked \in SUBSET Nodes, Do(s, linked),
         Keeps(heap, s, linked)
  PROVE  Inv'
<1>1. /\ heap' = Written(heap, s) /\ on' = linked
      /\ UNCHANGED <<stores, done, walk, disturbed, raced>>
  BY DEF Do
<1>2. heap' \in Heaps /\ Ring(heap', on') BY <1>1 DEF Keeps
<1>3. \A t \in Tasks : stores[t] = <<>> /\ done[t] = 0
  BY InvGives DEF Quiet, Idle
<1>4. ToBe(heap', stores) = heap' BY <1>2, <1>3, QuietToBe
<1>5. TypeOK' BY <1>1, <1>2 DEF Inv, TypeOK, Heaps, Values
<1>6. \A t \in Tasks : Made(heap', stores[t], done[t]) BY <1>3 DEF Made
<1>7. FourEach(stores') /\ Apart(stores') BY <1>1 DEF Inv
<1> QED BY <1>1, <1>2, <1>4, <1>5, <1>6, <1>7 DEF Inv

\* the pointers that four stores are into
LEMMA FourTargets ==
  ASSUME NEW a, NEW b, NEW c, NEW d
  PROVE  /\ Len(<<a, b, c, d>>) = 4
         /\ \A x \in {a, b, c, d} : x[1] \in Targets(<<a, b, c, d>>)
BY DEF Targets

\* ... and the last two
LEMMA TwoMoreTargets ==
  ASSUME NEW T, NEW s \in Seq(T), NEW a \in T, NEW b \in T
  PROVE  /\ Len(s \o <<a, b>>) = Len(s) + 2
         /\ a[1] \in Targets(s \o <<a, b>>) /\ b[1] \in Targets(s \o <<a, b>>)
<1> DEFINE t == s \o <<a, b>>
<1>1. /\ Len(t) = Len(s) + 2 /\ DOMAIN t = 1..(Len(s) + 2)
      /\ t[Len(s) + 1] = a /\ t[Len(s) + 2] = b /\ Len(s) \in Nat
  <2>1. t = Append(Append(s, a), b) OBVIOUS
  <2> QED BY <2>1
<1> HIDE DEF t
<1>2. Len(s) + 1 \in DOMAIN t /\ Len(s) + 2 \in DOMAIN t BY <1>1
<1> QED BY <1>1, <1>2 DEF Targets, t

\* AddEntry
LEMMA AddStep ==
  ASSUME Inv, NEW t \in Tasks, AddEntry(t)
  PROVE  Inv'
<1>1. PICK new \in Entries \ on, pos \in on :
        \/ Call(t, list_add(heap, new, pos), on \cup {new})
        \/ Call(t, list_add_tail(heap, new, pos), on \cup {new})
  BY DEF AddEntry
<1>2. disturbed' \subseteq Tasks BY DEF AddEntry, Upsets, Inv, TypeOK
<1>3. /\ heap \in Heaps /\ on \in SUBSET Nodes /\ FourEach(stores) /\ Apart(stores)
      /\ ToBe(heap, stores) \in Heaps /\ Ring(ToBe(heap, stores), on)
  BY InvGives
<1>4. new \in Nodes \ on /\ on \cup {new} \in SUBSET Nodes BY <1>3 DEF Nodes
<1>5. ASSUME NEW prev, NEW next PROVE
        LET s == __list_add(new, prev, next)
        IN  Len(s) = 4 /\ PrevOf(next) \in Targets(s) /\ NextOf(prev) \in Targets(s)
  <2> DEFINE a == <<PrevOf(next), new>>
             b == <<NextOf(new), next>>
             c == <<PrevOf(new), prev>>
             d == <<NextOf(prev), new>>
  <2>1. __list_add(new, prev, next) = <<a, b, c, d>> BY DEF __list_add
  <2>2. a[1] = PrevOf(next) /\ d[1] = NextOf(prev) OBVIOUS
  <2> HIDE DEF a, b, c, d
  <2>3. /\ Len(<<a, b, c, d>>) = 4
        /\ a[1] \in Targets(<<a, b, c, d>>) /\ d[1] \in Targets(<<a, b, c, d>>)
    BY FourTargets
  <2> QED BY <2>1, <2>2, <2>3
<1>6. NextOf(pos) \in Pointers /\ PrevOf(pos) \in Pointers BY <1>3, PointersDiffer
<1>7. CASE Call(t, list_add(heap, new, pos), on \cup {new})
  <2> DEFINE s == list_add(heap, new, pos)
  <2>1. Len(s) = 4 /\ NextOf(pos) \in Targets(s) BY <1>5 DEF list_add
  <2>2. ASSUME \A u \in Tasks : Targets(stores[u]) \cap Targets(s) = {}
        PROVE  Keeps(ToBe(heap, stores), s, on \cup {new})
    <3>1. heap[NextOf(pos)] = ToBe(heap, stores)[NextOf(pos)]
      BY <1>3, <1>6, <2>1, <2>2, OwnReads
    <3>2. s = list_add(ToBe(heap, stores), new, pos) BY <3>1 DEF list_add
    <3> QED BY <1>3, <1>4, <3>2, AddKeeps
  <2> HIDE DEF s
  <2> QED BY <1>2, <1>4, <1>7, <2>1, <2>2, CallStep DEF s
<1>8. CASE Call(t, list_add_tail(heap, new, pos), on \cup {new})
  <2> DEFINE s == list_add_tail(heap, new, pos)
  <2>1. Len(s) = 4 /\ PrevOf(pos) \in Targets(s) BY <1>5 DEF list_add_tail
  <2>2. ASSUME \A u \in Tasks : Targets(stores[u]) \cap Targets(s) = {}
        PROVE  Keeps(ToBe(heap, stores), s, on \cup {new})
    <3>1. heap[PrevOf(pos)] = ToBe(heap, stores)[PrevOf(pos)]
      BY <1>3, <1>6, <2>1, <2>2, OwnReads
    <3>2. s = list_add_tail(ToBe(heap, stores), new, pos) BY <3>1 DEF list_add_tail
    <3> QED BY <1>3, <1>4, <3>2, AddKeeps
  <2> HIDE DEF s
  <2> QED BY <1>2, <1>4, <1>8, <2>1, <2>2, CallStep DEF s
<1> QED BY <1>1, <1>7, <1>8

\* DeleteEntry
LEMMA DeleteStep ==
  ASSUME Inv, NEW t \in Tasks, DeleteEntry(t)
  PROVE  Inv'
<1>1. PICK e \in Entries \cap on :
        \/ Call(t, list_del(heap, e), on \ {e})
        \/ Call(t, list_del_init(heap, e), on \ {e})
  BY DEF DeleteEntry
<1>2. disturbed' \subseteq Tasks BY DEF DeleteEntry, Upsets, Inv, TypeOK
<1>3. /\ heap \in Heaps /\ on \in SUBSET Nodes /\ FourEach(stores) /\ Apart(stores)
      /\ ToBe(heap, stores) \in Heaps /\ Ring(ToBe(heap, stores), on)
  BY InvGives
<1>4. on \ {e} \in SUBSET Nodes BY <1>3
<1>5. NextOf(e) \in Pointers /\ PrevOf(e) \in Pointers BY <1>3, PointersDiffer
<1>6. ASSUME NEW v, NEW w PROVE
        LET s == __list_del_entry(heap, e) \o << <<NextOf(e), v>>, <<PrevOf(e), w>> >>
        IN  Len(s) = 4 /\ NextOf(e) \in Targets(s) /\ PrevOf(e) \in Targets(s)
  <2> DEFINE x == <<PrevOf(heap[NextOf(e)]), heap[PrevOf(e)]>>
             y == <<NextOf(heap[PrevOf(e)]), heap[NextOf(e)]>>
             a == <<NextOf(e), v>>
             b == <<PrevOf(e), w>>
             del == <<x, y>>
  <2>1. __list_del_entry(heap, e) = del BY DEF __list_del_entry, __list_del
  <2>2. a[1] = NextOf(e) /\ b[1] = PrevOf(e) OBVIOUS
  <2> HIDE DEF x, y, a, b
  <2> DEFINE T == {x, y, a, b}
  <2>3. del \in Seq(T) /\ a \in T /\ b \in T OBVIOUS
  <2>6. Len(del) = 2 OBVIOUS
  <2> HIDE DEF del, T
  <2>4. /\ Len(del \o <<a, b>>) = Len(del) + 2
        /\ a[1] \in Targets(del \o <<a, b>>) /\ b[1] \in Targets(del \o <<a, b>>)
    BY <2>3, TwoMoreTargets
  <2>5. Len(del \o <<a, b>>) = 4 BY <2>4, <2>6
  <2> QED BY <2>1, <2>2, <2>4, <2>5 DEF a, b
<1>7. CASE Call(t, list_del(heap, e), on \ {e})
  <2> DEFINE s == list_del(heap, e)
  <2>1. Len(s) = 4 /\ NextOf(e) \in Targets(s) /\ PrevOf(e) \in Targets(s)
    BY <1>6 DEF list_del
  <2>2. ASSUME \A u \in Tasks : Targets(stores[u]) \cap Targets(s) = {}
        PROVE  Keeps(ToBe(heap, stores), s, on \ {e})
    <3>1. /\ heap[NextOf(e)] = ToBe(heap, stores)[NextOf(e)]
          /\ heap[PrevOf(e)] = ToBe(heap, stores)[PrevOf(e)]
      BY <1>3, <1>5, <2>1, <2>2, OwnReads
    <3>2. s = list_del(ToBe(heap, stores), e) BY <3>1 DEF list_del, __list_del_entry
    <3> QED BY <1>3, <3>2, DelKeeps
  <2> HIDE DEF s
  <2> QED BY <1>2, <1>4, <1>7, <2>1, <2>2, CallStep DEF s
<1>8. CASE Call(t, list_del_init(heap, e), on \ {e})
  <2> DEFINE s == list_del_init(heap, e)
  <2>1. Len(s) = 4 /\ NextOf(e) \in Targets(s) /\ PrevOf(e) \in Targets(s)
    BY <1>6 DEF list_del_init, INIT_LIST_HEAD
  <2>2. ASSUME \A u \in Tasks : Targets(stores[u]) \cap Targets(s) = {}
        PROVE  Keeps(ToBe(heap, stores), s, on \ {e})
    <3>1. /\ heap[NextOf(e)] = ToBe(heap, stores)[NextOf(e)]
          /\ heap[PrevOf(e)] = ToBe(heap, stores)[PrevOf(e)]
      BY <1>3, <1>5, <2>1, <2>2, OwnReads
    <3>2. s = list_del_init(ToBe(heap, stores), e)
      BY <3>1 DEF list_del_init, __list_del_entry
    <3> QED BY <1>3, <3>2, DelKeeps
  <2> HIDE DEF s
  <2> QED BY <1>2, <1>4, <1>8, <2>1, <2>2, CallStep DEF s
<1> QED BY <1>1, <1>7, <1>8

\* Store
LEMMA StoreStep ==
  ASSUME Inv, NEW t \in Tasks, Store(t)
  PROVE  Inv'
<1> DEFINE s == stores[t]
           k == done[t]
<1>1. /\ heap \in Heaps /\ on \in SUBSET Nodes /\ FourEach(stores) /\ Apart(stores)
      /\ ToBe(heap, stores) \in Heaps /\ Ring(ToBe(heap, stores), on)
      /\ Len(s) = 4 /\ k \in 0..3 /\ s \in Stores /\ Made(heap, s, k)
  BY InvGives DEF Store, Inv, FourEach
<1>2. /\ heap' = [heap EXCEPT ![s[k + 1][1]] = s[k + 1][2]]
      /\ UNCHANGED <<on, walk, disturbed, raced>>
  BY DEF Store
<1>3. /\ heap' \in Heaps /\ Made(heap', s, k + 1)
      /\ \A p \in Pointers : p \notin Targets(s) => heap'[p] = heap[p]
      /\ \A u \in Tasks \ {t}, m \in 0..4 :
           Len(stores[u]) = 4 /\ Made(heap, stores[u], m) => Made(heap', stores[u], m)
  <2> DEFINE g == Put(heap, stores[t][k + 1])
  <2>1. heap' = g BY <1>2 DEF Put
  <2> HIDE DEF k
  <2>2. /\ g \in Heaps /\ Made(g, s, k + 1)
        /\ \A p \in Pointers : p \notin Targets(s) => g[p] = heap[p]
        /\ \A u \in Tasks \ {t}, m \in 0..4 :
             Len(stores[u]) = 4 /\ Made(heap, stores[u], m) => Made(g, stores[u], m)
    BY <1>1, StoreMade
  <2> HIDE DEF g
  <2> QED BY <2>1, <2>2
<1>4. /\ ToBe(heap', stores) = ToBe(heap, stores)
      /\ Made(heap', s, 4) =>
           LET left == [stores EXCEPT ![t] = <<>>]
           IN  /\ FourEach(left) /\ Apart(left)
               /\ ToBe(heap', left) = ToBe(heap, stores)
  BY <1>1, <1>3, StoreToBe
<1>5. \A u \in Tasks \ {t} : Made(heap', stores[u], done[u])
  <2> SUFFICES ASSUME NEW u \in Tasks \ {t} PROVE Made(heap', stores[u], done[u])
    OBVIOUS
  <2>1. Made(heap, stores[u], done[u]) BY DEF Inv
  <2>2. CASE Idle(u)
    <3>1. done[u] = 0 BY <2>2, InvGives
    <3> QED BY <3>1 DEF Made
  <2>3. CASE ~Idle(u)
    <3>1. Len(stores[u]) = 4 /\ done[u] \in 0..4 BY <2>3, InvGives
    <3> QED BY <1>3, <2>1, <3>1
  <2> QED BY <2>2, <2>3
<1>6. /\ stores \in [Tasks -> Stores] /\ done \in [Tasks -> Nat]
      /\ \A u \in Tasks : IF stores[u] = <<>> THEN done[u] = 0
                                              ELSE done[u] < Len(stores[u])
  BY DEF Inv, TypeOK, Stores, Pairs, Values
<1>7. CASE k + 1 < Len(s)
  <2>1. done' = [done EXCEPT ![t] = k + 1] /\ UNCHANGED stores
    BY <1>7 DEF Store
  <2>2. \A u \in Tasks : done'[u] = IF u = t THEN k + 1 ELSE done[u]
    BY <1>6, <2>1
  <2>3. done' \in [Tasks -> Nat] BY <1>1, <1>6, <2>1
  <2>4. \A u \in Tasks : Made(heap', stores[u], done'[u]) BY <1>3, <1>5, <2>2
  <2>5. \A u \in Tasks : IF stores[u] = <<>> THEN done'[u] = 0
                                             ELSE done'[u] < Len(stores[u])
    <3>1. s # <<>> BY DEF Store, Idle
    <3> QED BY <1>6, <1>7, <2>2, <3>1
  <2>6. TypeOK'
    BY <1>2, <1>3, <2>1, <2>3, <2>5 DEF Inv, TypeOK, Heaps, Values
  <2> QED BY <1>1, <1>2, <1>4, <2>1, <2>4, <2>6 DEF Inv
<1>8. CASE ~(k + 1 < Len(s))
  <2> DEFINE left == [stores EXCEPT ![t] = <<>>]
  <2>1. done' = [done EXCEPT ![t] = 0] /\ stores' = left
    BY <1>8 DEF Store
  <2>2. \A u \in Tasks : /\ done'[u] = IF u = t THEN 0 ELSE done[u]
                         /\ left[u] = IF u = t THEN <<>> ELSE stores[u]
    BY <1>6, <2>1
  <2>3. done' \in [Tasks -> Nat] BY <1>6, <2>1
  <2>4. k + 1 = 4 BY <1>1, <1>8
  <2>5. FourEach(left) /\ Apart(left) /\ ToBe(heap', left) = ToBe(heap, stores)
    BY <1>3, <1>4, <2>4
  <2> HIDE DEF left
  <2>6. \A u \in Tasks : Made(heap', left[u], done'[u])
    <3>1. Made(heap', left[t], 0) BY DEF Made
    <3> QED BY <1>5, <2>2, <3>1
  <2>7. \A u \in Tasks : IF left[u] = <<>> THEN done'[u] = 0
                                           ELSE done'[u] < Len(left[u])
    BY <1>6, <2>2
  <2>8. TypeOK'
    BY <1>2, <1>3, <2>1, <2>3, <2>5, <2>7 DEF Inv, TypeOK, Heaps, Values, FourEach, Stores, Pairs
  <2> QED BY <1>1, <1>2, <2>1, <2>5, <2>6, <2>8 DEF Inv
<1> QED BY <1>7, <1>8

\* the steps of loops
LEMMA WalkSteps ==
  ASSUME Inv, NEW t \in Tasks,
         \/ ReadAhead(t) \/ Advance(t) \/ EndWalk(t)
         \/ \E h \in Heads \cap on, dir \in {"next", "prev"}, safe \in BOOLEAN :
              StartWalk(t, h, dir, safe)
  PROVE  Inv'
<1>1. /\ heap \in [Pointers -> Nodes \cup {Wild}]
      /\ walk \in [Tasks -> Walks \cup {NoWalk}]
      /\ disturbed \subseteq Tasks /\ raced \in BOOLEAN
  BY DEF Inv, TypeOK
<1>2. \A w \in Walks : /\ w.dir \in {"next", "prev"} /\ w.at \in Nodes \cup {Wild}
                       /\ w.ahead \in Nodes \cup {Wild, "unread"}
                       /\ w.safe \in BOOLEAN /\ w.head \in Heads
  BY DEF Walks
<1>3. \A n \in Nodes, dir \in {"next", "prev"} : heap[<<n, dir>>] \in Nodes \cup {Wild}
  BY <1>1 DEF Pointers
<1>4. InBody(t) => walk[t] \in Walks /\ walk[t].at \in Nodes
  BY <1>1 DEF InBody
<1>5. UNCHANGED <<heap, on, stores, done, raced>>
  BY DEF ReadAhead, Advance, EndWalk, StartWalk
<1>6. disturbed' \subseteq Tasks
  BY <1>1 DEF ReadAhead, Advance, EndWalk, StartWalk
<1>7. walk' \in [Tasks -> Walks \cup {NoWalk}]
  <2>1. CASE ReadAhead(t)
    <3>1. heap[<<walk[t].at, walk[t].dir>>] \in Nodes \cup {Wild, "unread"}
      BY <1>2, <1>3, <1>4, <2>1 DEF ReadAhead
    <3>2. [walk[t] EXCEPT !.ahead = heap[<<walk[t].at, walk[t].dir>>]] \in Walks
      BY <1>4, <2>1, <3>1 DEF ReadAhead, Walks
    <3> QED BY <1>1, <2>1, <3>2 DEF ReadAhead
  <2>2. CASE Advance(t)
    <3> DEFINE at == IF ReadsAhead(t) THEN walk[t].ahead
                                      ELSE heap[<<walk[t].at, walk[t].dir>>]
    <3>1. at \in Nodes \cup {Wild}
      BY <1>2, <1>3, <1>4, <2>2 DEF Advance, Ready
    <3>2. walk' = [walk EXCEPT ![t].ahead = "unread", ![t].at = at]
      BY <2>2 DEF Advance
    <3> HIDE DEF at
    <3>3. [walk[t] EXCEPT !.ahead = "unread", !.at = at] \in Walks
      BY <1>4, <2>2, <3>1 DEF Advance, Ready, Walks
    <3> QED BY <1>1, <3>2, <3>3
  <2>3. CASE EndWalk(t) BY <1>1, <2>3 DEF EndWalk
  <2>4. ASSUME NEW h \in Heads \cap on, NEW dir \in {"next", "prev"}, NEW safe \in BOOLEAN,
               StartWalk(t, h, dir, safe)
        PROVE  walk' \in [Tasks -> Walks \cup {NoWalk}]
    <3>1. heap[<<h, dir>>] \in Nodes \cup {Wild} BY <1>3 DEF Nodes
    <3>2. [dir |-> dir, safe |-> safe, head |-> h, at |-> heap[<<h, dir>>],
           ahead |-> "unread"] \in Walks
      BY <3>1 DEF Walks
    <3> QED BY <1>1, <2>4, <3>2 DEF StartWalk
  <2> QED BY <2>1, <2>2, <2>3, <2>4
<1> QED BY <1>1, <1>5, <1>6, <1>7, WalksOnly

\* the functions that run whole
LEMMA AloneStep ==
  ASSUME Inv, Quiet, Alone
  PROVE  Inv'
<1>1. heap \in Heaps /\ on \in SUBSET Nodes /\ Ring(heap, on)
  <2>1. \A t \in Tasks : stores[t] = <<>> BY DEF Quiet, Idle
  <2>2. /\ heap \in Heaps /\ on \in SUBSET Nodes
        /\ Ring(ToBe(heap, stores), on)
    BY InvGives
  <2> QED BY <2>1, <2>2, QuietToBe
<1>2. CASE MoveEntry
  BY <1>1, <1>2, MoveKeeps, DoStep DEF MoveEntry
<1>3. CASE ReplaceEntry
  <2>1. PICK e \in Entries \cap on, new \in Entries \ on :
          \/ Do(list_replace(heap, e, new), (on \ {e}) \cup {new})
          \/ Do(list_replace_init(heap, e, new), (on \ {e}) \cup {new})
    BY <1>3 DEF ReplaceEntry
  <2>2. new \in Nodes \ on /\ (on \ {e}) \cup {new} \in SUBSET Nodes
    BY <1>1 DEF Nodes
  <2>3. /\ Keeps(heap, list_replace(heap, e, new), (on \ {e}) \cup {new})
        /\ Keeps(heap, list_replace_init(heap, e, new), (on \ {e}) \cup {new})
    BY <1>1, <2>2, ReplaceKeeps
  <2> QED BY <2>1, <2>2, <2>3, DoStep
<1>4. CASE Rotate
  BY <1>1, <1>4, RotateKeeps, DoStep DEF Rotate
<1>5. CASE CutList
  <2>1. PICK h, list \in Heads \cap on, entry \in on :
          /\ h # list /\ list_empty(heap, list)
          /\ entry = h \/ entry \in Entries
          /\ Do(list_cut_position(heap, list, h, entry), on)
    BY <1>5 DEF CutList
  <2>2. entry # list BY <2>1, ListAssumption
  <2>3. Keeps(heap, list_cut_position(heap, list, h, entry), on)
    BY <1>1, <2>1, <2>2, CutKeeps
  <2> QED BY <1>1, <2>1, <2>3, DoStep
<1>6. CASE SpliceList
  <2>1. PICK h, list \in Heads \cap on :
          /\ h # list /\ h # heap[NextOf(list)] /\ h # heap[PrevOf(list)]
          /\ \/ Do(list_splice(heap, list, h), Spliced(list))
             \/ Do(list_splice_tail(heap, list, h), Spliced(list))
             \/ Do(list_splice_init(heap, list, h), on)
             \/ Do(list_splice_tail_init(heap, list, h), on)
    BY <1>6 DEF SpliceList
  <2>2. Spliced(list) \in SUBSET Nodes BY <1>1 DEF Spliced
  <2>3. CASE list_empty(heap, list)
    <3>1. /\ Spliced(list) = on
          /\ list_splice(heap, list, h) = <<>> /\ list_splice_tail(heap, list, h) = <<>>
          /\ list_splice_init(heap, list, h) = <<>>
          /\ list_splice_tail_init(heap, list, h) = <<>>
      BY <2>3 DEF Spliced, list_splice, list_splice_tail, list_splice_init,
                  list_splice_tail_init
    <3>2. Do(<<>>, on) BY <2>1, <3>1
    <3>3. Keeps(heap, <<>>, on) BY <1>1, NothingKeeps
    <3> QED BY <1>1, <3>2, <3>3, DoStep
  <2>4. CASE ~list_empty(heap, list)
    <3>1. Spliced(list) = on \ {list} BY <2>4 DEF Spliced
    <3>2. /\ Keeps(heap, list_splice(heap, list, h), on \ {list})
          /\ Keeps(heap, list_splice_tail(heap, list, h), on \ {list})
          /\ Keeps(heap, list_splice_init(heap, list, h), on)
          /\ Keeps(heap, list_splice_tail_init(heap, list, h), on)
      BY <1>1, <2>1, <2>4, SpliceKeeps
    <3> QED BY <1>1, <2>1, <2>2, <3>1, <3>2, DoStep
  <2> QED BY <2>3, <2>4
<1>7. CASE InitList
  <2>1. PICK list \in Heads \ on : Do(INIT_LIST_HEAD(list), on \cup {list})
    BY <1>7 DEF InitList
  <2>2. list \in Nodes \ on /\ on \cup {list} \in SUBSET Nodes BY <1>1 DEF Nodes
  <2>3. Keeps(heap, INIT_LIST_HEAD(list), on \cup {list})
    BY <1>1, <2>2, InitKeeps
  <2> QED BY <2>1, <2>2, <2>3, DoStep
<1> QED BY <1>2, <1>3, <1>4, <1>5, <1>6, <1>7 DEF Alone

\* the invariant holds initially ...
LEMMA InitInv == Init => Inv
<1> SUFFICES ASSUME Init PROVE Inv
  OBVIOUS
<1>1. heap \in Heaps /\ \A t \in Tasks : stores[t] = <<>> /\ done[t] = 0
  BY DEF Init, Heaps, Values, Nodes, Pointers
<1>2. TypeOK
  <2>1. <<>> \in Seq(Pointers \X (Nodes \cup {Wild})) OBVIOUS
  <2>2. stores \in [Tasks -> Seq(Pointers \X (Nodes \cup {Wild}))]
    BY <2>1 DEF Init
  <2> QED BY <1>1, <2>2 DEF Init, TypeOK, Heaps, Values, Nodes
<1>3. ToBe(heap, stores) = heap BY <1>1, QuietToBe
<1>4. Ring(heap, on)
  <2>1. \A n \in Heads : heap[NextOf(n)] = n /\ heap[PrevOf(n)] = n
    BY PointersDiffer DEF Init, Nodes, NextOf, PrevOf
  <2> QED BY <2>1 DEF Init, Ring
<1>5. FourEach(stores) BY StoresNone DEF Init, FourEach
<1>6. Apart(stores) BY <1>1 DEF Apart, Targets
<1>7. \A t \in Tasks : Made(heap, stores[t], done[t]) BY <1>1 DEF Made
<1> QED BY <1>2, <1>3, <1>4, <1>5, <1>6, <1>7 DEF Inv

\* ... and every step keeps it
LEMMA NextInv == Inv /\ [Next]_vars => Inv'
<1> SUFFICES ASSUME Inv, [Next]_vars PROVE Inv'
  OBVIOUS
<1>1. CASE UNCHANGED vars
  BY <1>1, WalksOnly DEF vars, Inv, TypeOK
<1>2. ASSUME NEW t \in Tasks, TaskStep(t) PROVE Inv'
  BY <1>2, AddStep, DeleteStep, StoreStep, WalkSteps DEF TaskStep
<1>3. CASE Quiet /\ Alone BY <1>3, AloneStep
<1> QED BY <1>1, <1>2, <1>3 DEF Next

\* The invariant holds, for any number of tasks, lists and entries.
THEOREM ListInvariance == Spec => []Inv
BY InitInv, NextInv, PTL DEF Spec

\* Every pointer stays in the heap or is Wild, and nobody has made more stores
\* than its function makes (list.h:44-362).
THEOREM ListTypeCorrect == Spec => []TypeOK
<1>1. Inv => TypeOK BY DEF Inv
<1> QED BY <1>1, ListInvariance, PTL

\* Whenever nobody is inside a function, the nodes that should be on lists form
\* whole rings, whatever ran next to what (list.h:44-362).
THEOREM RingsStayWhole == Spec => []RingsWhole
<1>1. Inv => RingsWhole
  <2> SUFFICES ASSUME Inv, \A t \in Tasks : Idle(t) PROVE Ring(heap, on)
    BY DEF RingsWhole
  <2>1. \A t \in Tasks : stores[t] = <<>> BY DEF Idle
  <2>2. heap \in Heaps /\ Ring(ToBe(heap, stores), on) BY InvGives
  <2> QED BY <2>1, <2>2, QuietToBe
<1> QED BY <1>1, ListInvariance, PTL

-----------------------------------------------------------------------------
(* Lists as sequences.                                                     *)

\* the pointers f lead from each head that is linked through its sequence in L and
\* back, and each linked entry is in one of the sequences
Links(L, f, S) ==
  /\ L \in [Heads -> Seq(Entries)]
  /\ \A k \in Heads : IF k \in S THEN Chain(L[k], k, f) ELSE L[k] = <<>>
  /\ \A k, l \in Heads : k # l => ToSet(L[k]) \cap ToSet(L[l]) = {}
  /\ \A e \in Entries : e \in S <=> \E k \in Heads : e \in ToSet(L[k])

\* the nodes of the ring of the head k
RingOf(L, k) == {k} \cup ToSet(L[k])

\* what a sequence consists of
LEMMA SeqMembers ==
  ASSUME NEW T, NEW s \in Seq(T)
  PROVE  ToSet(s) \subseteq T /\ \A i \in 1..Len(s) : s[i] \in ToSet(s)
BY InSet

\* the empty sequence has no elements
LEMMA NoMembers == ToSet(<<>>) = {}
BY DEF ToSet

\* what Links gives of one head
LEMMA LinksHead ==
  ASSUME NEW L, NEW f, NEW S \in SUBSET Nodes, Links(L, f, S), NEW k \in Heads
  PROVE  /\ L[k] \in Seq(Entries) /\ ToSet(L[k]) \subseteq Entries \cap S
         /\ k \in S => Chain(L[k], k, f) /\ RingOf(L, k) \subseteq S
         /\ k \notin S => L[k] = <<>>
         /\ k \notin Entries
<1>1. L[k] \in Seq(Entries) BY DEF Links
<1>2. ToSet(L[k]) \subseteq Entries BY <1>1, SeqMembers
<1>3. ToSet(L[k]) \subseteq Entries \cap S BY <1>2 DEF Links
<1> QED BY <1>1, <1>3, ListAssumption DEF Links, RingOf

\* each linked node is on the ring of one head
LEMMA LinksNode ==
  ASSUME NEW L, NEW f, NEW S \in SUBSET Nodes, Links(L, f, S), NEW x \in S
  PROVE  /\ \E k \in Heads \cap S : x \in RingOf(L, k)
         /\ \A k, l \in Heads : x \in RingOf(L, k) /\ x \in RingOf(L, l) => k = l
         /\ f[x] \in S
         /\ x \in Entries => f[x] # x
<1>1. PICK k \in Heads \cap S : x \in RingOf(L, k)
  <2>1. CASE x \in Heads BY <2>1 DEF RingOf
  <2>2. CASE x \notin Heads
    <3>1. x \in Entries BY <2>2 DEF Nodes
    <3>2. PICK k \in Heads : x \in ToSet(L[k]) BY <3>1 DEF Links
    <3>3. k \in S BY <3>2, LinksHead, NoMembers
    <3> QED BY <3>2, <3>3 DEF RingOf
  <2> QED BY <2>1, <2>2
<1>2. ASSUME NEW l \in Heads, NEW m \in Heads, x \in RingOf(L, l), x \in RingOf(L, m)
      PROVE  l = m
  <2>1. CASE x \in Heads
    <3>1. x \notin ToSet(L[l]) /\ x \notin ToSet(L[m]) BY <2>1, LinksHead
    <3> QED BY <1>2, <3>1 DEF RingOf
  <2>2. CASE x \notin Heads
    <3>1. x \in ToSet(L[l]) /\ x \in ToSet(L[m]) BY <1>2, <2>2 DEF RingOf
    <3> QED BY <3>1 DEF Links
  <2> QED BY <2>1, <2>2
<1>3. L[k] \in Seq(Entries) /\ Chain(L[k], k, f) /\ RingOf(L, k) \subseteq S /\ k \notin Entries
  BY LinksHead
<1>4. /\ x \in {k} \cup ToSet(L[k])
      /\ f[x] \in {k} \cup ToSet(L[k])
      /\ \E i \in 0..Len(L[k]) : x = Place(L[k], k, i)
  <2>1. PICK s : s = L[k] OBVIOUS
  <2>2. s \in Seq(Entries) /\ Chain(s, k, f) /\ x \in {k} \cup ToSet(s)
    BY <1>1, <1>3, <2>1 DEF RingOf
  <2>3. /\ \E i \in 0..Len(s) : x = Place(s, k, i)
        /\ \E i \in 0..Len(s) : x = Place(s, k, i + 1) /\ f[Place(s, k, i)] = x
        /\ f[x] \in {k} \cup ToSet(s)
    BY <2>2, PlaceOf
  <2> QED BY <2>1, <2>2, <2>3
<1>5. ASSUME x \in Entries PROVE f[x] # x
  <2>1. PICK i \in 0..Len(L[k]) : x = Place(L[k], k, i) BY <1>4
  <2>2. f[x] = Place(L[k], k, i + 1) BY <1>3, <2>1 DEF Chain
  <2>3. /\ Len(L[k]) \in Nat
        /\ \A m, n \in 0..Len(L[k]) : Place(L[k], k, m) = Place(L[k], k, n) => m = n
    BY <1>3, PlacesDiffer
  <2>4. CASE i = Len(L[k])
    <3>1. Place(L[k], k, i + 1) = k BY <2>3, <2>4 DEF Place
    <3> QED BY <1>3, <1>5, <2>2, <3>1
  <2>5. CASE i # Len(L[k])
    <3>1. i + 1 \in 0..Len(L[k]) /\ i # i + 1 BY <2>3, <2>5
    <3> QED BY <2>1, <2>2, <2>3, <3>1
  <2> QED BY <2>4, <2>5
<1> QED BY <1>1, <1>2, <1>3, <1>4, <1>5 DEF RingOf

\* the same next pointers show the same sequences
LEMMA LinksSame ==
  ASSUME NEW L, NEW f, NEW g, NEW S \in SUBSET Nodes, Links(L, f, S), Same(g, f, S, {})
  PROVE  Links(L, g, S)
<1>1. ASSUME NEW k \in Heads, k \in S PROVE Chain(L[k], k, g)
  <2>1. L[k] \in Seq(Entries) /\ Chain(L[k], k, f) /\ RingOf(L, k) \subseteq S
    BY <1>1, LinksHead
  <2>2. Same(g, f, {k} \cup ToSet(L[k]), {}) BY <2>1 DEF Same, RingOf
  <2> QED BY <2>1, <2>2, ChainSame
<1> QED BY <1>1 DEF Links

\* the ring of k becomes the sequence s, the rings of other heads stay
LEMMA LinksOne ==
  ASSUME NEW L, NEW f, NEW g, NEW S \in SUBSET Nodes, Links(L, f, S), NEW k \in Heads \cap S,
         NEW s \in Seq(Entries), Chain(s, k, g), NEW T \in SUBSET Nodes, NEW D,
         Same(g, f, S, D), \A x \in S \cap D : x \in RingOf(L, k),
         \A x \in Nodes : x \in T <=> (x \in S /\ x \notin ToSet(L[k])) \/ x \in ToSet(s),
         ToSet(s) \cap S \subseteq ToSet(L[k]),
         NEW M, M = [L EXCEPT ![k] = s]
  PROVE  Links(M, g, T)
<1>1. /\ L \in [Heads -> Seq(Entries)] /\ M \in [Heads -> Seq(Entries)]
      /\ \A l \in Heads : M[l] = IF l = k THEN s ELSE L[l]
  BY DEF Links
<1>2. ToSet(s) \subseteq Entries BY SeqMembers
<1>3. \A l \in Heads : l \in T <=> l \in S
  BY <1>2, LinksHead, ListAssumption DEF Nodes
<1>4. ASSUME NEW l \in Heads, l # k, l \in S PROVE Chain(L[l], l, g)
  <2>1. L[l] \in Seq(Entries) /\ Chain(L[l], l, f) /\ RingOf(L, l) \subseteq S
    BY <1>4, LinksHead
  <2>2. \A x \in RingOf(L, l) : x \in S /\ x \notin D
    BY <1>4, <2>1, LinksNode
  <2>3. Same(g, f, {l} \cup ToSet(L[l]), {}) BY <2>2 DEF Same, RingOf
  <2> QED BY <2>1, <2>3, ChainSame
<1>5. \A l \in Heads : IF l \in T THEN Chain(M[l], l, g) ELSE M[l] = <<>>
  BY <1>1, <1>3, <1>4 DEF Links
<1>6. ASSUME NEW l \in Heads, l # k PROVE ToSet(s) \cap ToSet(L[l]) = {}
  <2>1. ToSet(L[l]) \subseteq S /\ ToSet(L[k]) \cap ToSet(L[l]) = {}
    BY <1>6, LinksHead DEF Links
  <2> QED BY <2>1
<1>7. \A l, m \in Heads : l # m => ToSet(M[l]) \cap ToSet(M[m]) = {}
  BY <1>1, <1>6 DEF Links
<1>8. ASSUME NEW e \in Entries PROVE e \in T <=> \E l \in Heads : e \in ToSet(M[l])
  <2>1. e \in Nodes /\ (e \in S <=> \E l \in Heads : e \in ToSet(L[l]))
    BY DEF Links, Nodes
  <2>2. \A l \in Heads : l # k => ToSet(L[k]) \cap ToSet(L[l]) = {} BY DEF Links
  <2> QED BY <1>1, <2>1, <2>2
<1> QED BY <1>1, <1>5, <1>7, <1>8 DEF Links

\* an entry is linked after the node p
LinksInserted(L, M, k, i, e) ==
  i \in 1..(Len(L[k]) + 1) /\ M = [L EXCEPT ![k] = InsertAt(@, i, e)]

\* an entry linked in after p is inserted into one sequence
LEMMA LinksInsert ==
  ASSUME NEW L, NEW f, NEW g, NEW S \in SUBSET Nodes, Links(L, f, S),
         NEW e \in Entries, e \notin S, NEW p \in S, g[p] = e, g[e] = f[p], Same(g, f, S, {p})
  PROVE  \E M : /\ Links(M, g, S \cup {e})
                /\ \E k \in Heads, i \in Nat : LinksInserted(L, M, k, i, e)
<1>1. PICK k \in Heads \cap S : p \in RingOf(L, k) BY LinksNode
<1>2. PICK s : s = L[k] OBVIOUS
<1>3. /\ s \in Seq(Entries) /\ Chain(s, k, f) /\ p \in {k} \cup ToSet(s)
      /\ {k} \cup ToSet(s) \subseteq S /\ e \notin ToSet(s) /\ e # k
  BY <1>1, <1>2, LinksHead DEF RingOf
<1>4. PICK i \in 0..Len(s) : p = Place(s, k, i) BY <1>3, PlaceOf
<1>5. PICK t : t = InsertAt(s, i + 1, e) OBVIOUS
<1>6. Same(g, f, {k} \cup ToSet(s), {Place(s, k, i)}) BY <1>3, <1>4 DEF Same
<1>7. g[Place(s, k, i)] = e /\ g[e] = f[Place(s, k, i)] BY <1>4
<1>8. t \in Seq(Entries) /\ Chain(t, k, g) /\ ToSet(t) = ToSet(s) \cup {e}
  <2>1. /\ s \in Seq(Entries) /\ Chain(s, k, f) /\ i \in 0..Len(s) /\ e \in Entries
        /\ e \notin ToSet(s) /\ e # k /\ g[Place(s, k, i)] = e /\ g[e] = f[Place(s, k, i)]
        /\ Same(g, f, {k} \cup ToSet(s), {Place(s, k, i)}) /\ t = InsertAt(s, i + 1, e)
    BY <1>3, <1>5, <1>6, <1>7
  <2>2. t \in Seq(Entries) BY <2>1, ChainInsert
  <2>3. Chain(t, k, g) BY <2>1, ChainInsert
  <2>4. ToSet(t) = ToSet(s) \cup {e} BY <2>1, ChainInsert
  <2> QED BY <2>2, <2>3, <2>4
<1>9. PICK M : M = [L EXCEPT ![k] = t] OBVIOUS
<1>10. Links(M, g, S \cup {e})
  <2>1. S \cup {e} \in SUBSET Nodes BY DEF Nodes
  <2>2. \A x \in S \cap {p} : x \in RingOf(L, k) BY <1>1
  <2>3. \A x \in Nodes : x \in S \cup {e} <=> (x \in S /\ x \notin ToSet(L[k])) \/ x \in ToSet(t)
    BY <1>2, <1>3, <1>8
  <2>4. ToSet(t) \cap S \subseteq ToSet(L[k]) BY <1>2, <1>8
  <2> QED BY <1>1, <1>8, <1>9, <2>1, <2>2, <2>3, <2>4, LinksOne
<1>11. i + 1 \in Nat /\ i + 1 \in 1..(Len(s) + 1) BY <1>3, <1>4
<1>12. M = [L EXCEPT ![k] = InsertAt(@, i + 1, e)] BY <1>2, <1>5, <1>9
<1>13. LinksInserted(L, M, k, i + 1, e) BY <1>2, <1>11, <1>12 DEF LinksInserted
<1> QED BY <1>1, <1>10, <1>11, <1>13

LinksRemoved(L, M, k, i, e) ==
  i \in DOMAIN L[k] /\ L[k][i] = e /\ M = [L EXCEPT ![k] = RemoveAt(@, i)]

\* the node before an entry
LEMMA LinksBefore ==
  ASSUME NEW L, NEW f, NEW S \in SUBSET Nodes, Links(L, f, S), NEW e \in Entries \cap S
  PROVE  \E k \in Heads \cap S : \E i \in 1..Len(L[k]) :
           /\ L[k][i] = e /\ e # k
           /\ \A p \in S : f[p] = e => p = Place(L[k], k, i - 1)
<1>1. PICK k \in Heads \cap S : e \in RingOf(L, k) BY LinksNode
<1>2. PICK s : s = L[k] OBVIOUS
<1>3. /\ s \in Seq(Entries) /\ Chain(s, k, f) /\ e # k /\ e \in ToSet(s) /\ Len(s) \in Nat
  BY <1>1, <1>2, LinksHead DEF RingOf
<1>4. PICK i \in 1..Len(s) : s[i] = e BY <1>3, InSet
<1>5. ASSUME NEW p \in S, f[p] = e PROVE p = Place(s, k, i - 1)
  <2>1. PICK l \in Heads \cap S : p \in RingOf(L, l)
    <3>1. p \in S /\ S \in SUBSET Nodes /\ Links(L, f, S) OBVIOUS
    <3> QED BY ONLY <3>1, LinksNode
  <2>2. PICK u : u = L[l] OBVIOUS
  <2>3. u \in Seq(Entries) /\ Chain(u, l, f) /\ p \in {l} \cup ToSet(u)
    BY <2>1, <2>2, LinksHead DEF RingOf
  <2>4. f[p] \in {l} \cup ToSet(u) BY <2>3, PlaceOf
  <2>5. e \in RingOf(L, l) BY <1>5, <2>2, <2>4 DEF RingOf
  <2>6. l = k /\ u = s BY <1>1, <1>2, <2>1, <2>2, <2>5, LinksNode
  <2>7. PICK j \in 0..Len(s) : p = Place(s, k, j) 
    <3>1. s \in Seq(Entries) /\ Chain(s, k, f) /\ p \in {k} \cup ToSet(s)
      BY <1>3, <2>3, <2>6
    <3>2. /\ \E j \in 0..Len(s) : p = Place(s, k, j)
          /\ \E j \in 0..Len(s) : p = Place(s, k, j + 1) /\ f[Place(s, k, j)] = p
          /\ f[p] \in {k} \cup ToSet(s)
      BY <3>1, PlaceOf
    <3> QED BY <3>2
  <2>8. Place(s, k, j + 1) = e BY <1>3, <1>5, <2>7 DEF Chain
  <2>9. Place(s, k, i) = e /\ i \in 0..Len(s) BY <1>3, <1>4 DEF Place
  <2>10. j # Len(s)
    <3>1. j = Len(s) => Place(s, k, j + 1) = k BY <1>3 DEF Place
    <3> QED BY <1>3, <2>8, <3>1
  <2>11. j + 1 \in 0..Len(s) BY <1>3, <2>7, <2>10
  <2>12. j + 1 = i BY <1>3, <2>8, <2>9, <2>11, PlacesDiffer
  <2>13. j = i - 1 BY <1>3, <2>7, <2>12
  <2> QED BY <2>7, <2>13
<1> QED BY <1>1, <1>2, <1>3, <1>4, <1>5

\* an entry whose predecessor is led past it leaves its sequence
LEMMA LinksRemove ==
  ASSUME NEW L, NEW f, NEW g, NEW S \in SUBSET Nodes, Links(L, f, S),
         NEW e \in Entries, e \in S, NEW p \in S, f[p] = e, g[p] = f[e], Same(g, f, S, {p, e})
  PROVE  \E M : /\ Links(M, g, S \ {e})
                /\ \E k \in Heads, i \in Nat : LinksRemoved(L, M, k, i, e)
<1>1. PICK k \in Heads \cap S : \E i \in 1..Len(L[k]) :
           /\ L[k][i] = e /\ e # k
           /\ \A q \in S : f[q] = e => q = Place(L[k], k, i - 1)
  BY LinksBefore
<1>2. PICK s : s = L[k] OBVIOUS
<1>3. PICK i \in 1..Len(s) : s[i] = e /\ e # k /\ p = Place(s, k, i - 1)
  BY <1>1, <1>2
<1>4. /\ s \in Seq(Entries) /\ Chain(s, k, f) /\ Len(s) \in Nat /\ DOMAIN s = 1..Len(s)
      /\ {k} \cup ToSet(s) \subseteq S
  BY <1>1, <1>2, LinksHead DEF RingOf
<1>5. i - 1 \in 0..Len(s) BY <1>3, <1>4
<1>6. p \in {k} \cup ToSet(s) /\ e \in ToSet(s)
  <2>1. Place(s, k, i - 1) \in {k} \cup ToSet(s) BY <1>4, <1>5, PlacesDiffer
  <2>2. s[i] \in ToSet(s) BY <1>4, SeqMembers
  <2> QED BY <1>3, <2>1, <2>2
<1>7. PICK t : t = RemoveAt(s, i) OBVIOUS
<1>8. t \in Seq(Entries) /\ Chain(t, k, g) /\ ToSet(t) = ToSet(s) \ {e}
  <2>1. /\ s \in Seq(Entries) /\ Chain(s, k, f) /\ i \in 1..Len(s)
        /\ Around(s, k, i, p, e) /\ g[p] = f[e]
        /\ Same(g, f, {k} \cup ToSet(s), {p, e}) /\ t = RemoveAt(s, i)
    BY <1>3, <1>4, <1>7 DEF Same, Around
  <2>2. t \in Seq(Entries) BY <2>1, ChainRemove
  <2>3. Chain(t, k, g) BY <2>1, ChainRemove
  <2>4. ToSet(t) = ToSet(s) \ {e} BY <2>1, ChainRemove
  <2> QED BY <2>2, <2>3, <2>4
<1>9. PICK M : M = [L EXCEPT ![k] = t] OBVIOUS
<1>10. Links(M, g, S \ {e})
  <2>1. S \ {e} \in SUBSET Nodes OBVIOUS
  <2>2. \A x \in S \cap {p, e} : x \in RingOf(L, k) BY <1>2, <1>6 DEF RingOf
  <2>3. \A x \in Nodes : x \in S \ {e} <=> (x \in S /\ x \notin ToSet(L[k])) \/ x \in ToSet(t)
    BY <1>2, <1>3, <1>4, <1>6, <1>8
  <2>4. ToSet(t) \cap S \subseteq ToSet(L[k]) BY <1>2, <1>8
  <2> QED BY <1>1, <1>8, <1>9, <2>1, <2>2, <2>3, <2>4, LinksOne
<1>11. M = [L EXCEPT ![k] = RemoveAt(@, i)] BY <1>2, <1>7, <1>9
<1>12. LinksRemoved(L, M, k, i, e) BY <1>2, <1>3, <1>4, <1>11 DEF LinksRemoved
<1> QED BY <1>1, <1>3, <1>4, <1>10, <1>12

LinksReplaced(L, M, k, i, e, new) ==
  i \in DOMAIN L[k] /\ L[k][i] = e /\ M = [L EXCEPT ![k][i] = new]

\* an entry led to and on in place of another takes its place
LEMMA LinksReplace ==
  ASSUME NEW L, NEW f, NEW g, NEW S \in SUBSET Nodes, Links(L, f, S),
         NEW e \in Entries, e \in S, NEW new \in Entries, new \notin S, NEW p \in S, f[p] = e,
         g[p] = new, g[new] = f[e], Same(g, f, S, {p, e})
  PROVE  \E M : /\ Links(M, g, (S \ {e}) \cup {new})
                /\ \E k \in Heads, i \in Nat : LinksReplaced(L, M, k, i, e, new)
<1>1. PICK k \in Heads \cap S : \E i \in 1..Len(L[k]) :
           /\ L[k][i] = e /\ e # k
           /\ \A q \in S : f[q] = e => q = Place(L[k], k, i - 1)
  BY LinksBefore
<1>2. PICK s : s = L[k] OBVIOUS
<1>3. PICK i \in 1..Len(s) : s[i] = e /\ e # k /\ p = Place(s, k, i - 1)
  BY <1>1, <1>2
<1>4. /\ s \in Seq(Entries) /\ Chain(s, k, f) /\ Len(s) \in Nat /\ DOMAIN s = 1..Len(s)
      /\ {k} \cup ToSet(s) \subseteq S
  BY <1>1, <1>2, LinksHead DEF RingOf
<1>5. i - 1 \in 0..Len(s) BY <1>3, <1>4
<1>6. p \in {k} \cup ToSet(s) /\ e \in ToSet(s)
  <2>1. Place(s, k, i - 1) \in {k} \cup ToSet(s) BY <1>4, <1>5, PlacesDiffer
  <2>2. s[i] \in ToSet(s) BY <1>4, SeqMembers
  <2> QED BY <1>3, <2>1, <2>2
<1>7. PICK t : t = [s EXCEPT ![i] = new] OBVIOUS
<1>8. t \in Seq(Entries) /\ Chain(t, k, g) /\ ToSet(t) = (ToSet(s) \ {e}) \cup {new}
  <2>1. /\ s \in Seq(Entries) /\ Chain(s, k, f) /\ i \in 1..Len(s) /\ new \in Entries
        /\ new \notin ToSet(s) /\ new # k
        /\ Around(s, k, i, p, e) /\ Detour(g, f, p, new, e)
        /\ Same(g, f, {k} \cup ToSet(s), {p, e}) /\ Replaced(t, s, i, new)
    BY <1>3, <1>4, <1>7 DEF Same, Around, Replaced, Detour
  <2>2. t \in Seq(Entries) BY <2>1, ChainReplace
  <2>3. Chain(t, k, g) BY <2>1, ChainReplace
  <2>4. ToSet(t) = (ToSet(s) \ {e}) \cup {new}
    <3>1. IsSwap(ToSet(t), ToSet(s), e, new) BY <2>1, ChainReplace
    <3> QED BY <3>1 DEF IsSwap
  <2> QED BY <2>2, <2>3, <2>4
<1>9. PICK M : M = [L EXCEPT ![k] = t] OBVIOUS
<1>10. Links(M, g, (S \ {e}) \cup {new})
  <2>1. (S \ {e}) \cup {new} \in SUBSET Nodes BY DEF Nodes
  <2>2. \A x \in S \cap {p, e} : x \in RingOf(L, k) BY <1>2, <1>6 DEF RingOf
  <2>3. \A x \in Nodes : x \in (S \ {e}) \cup {new}
                           <=> (x \in S /\ x \notin ToSet(L[k])) \/ x \in ToSet(t)
    BY <1>2, <1>3, <1>4, <1>6, <1>8
  <2>4. ToSet(t) \cap S \subseteq ToSet(L[k]) BY <1>2, <1>8
  <2> QED BY <1>1, <1>8, <1>9, <2>1, <2>2, <2>3, <2>4, LinksOne
<1>11. M = [L EXCEPT ![k][i] = new] BY <1>2, <1>7, <1>9
<1>12. LinksReplaced(L, M, k, i, e, new) BY <1>2, <1>3, <1>4, <1>11 DEF LinksReplaced
<1> QED BY <1>1, <1>3, <1>4, <1>10, <1>12

\* a head that points to itself adds an empty sequence
LEMMA LinksInit ==
  ASSUME NEW L, NEW f, NEW g, NEW S \in SUBSET Nodes, Links(L, f, S),
         NEW list \in Heads, list \notin S, g[list] = list, Same(g, f, S, {})
  PROVE  Links(L, g, S \cup {list})
<1>1. Links(L, g, S) BY LinksSame
<1>2. L[list] = <<>> /\ Chain(<<>>, list, g) BY LinksHead, EmptyChain
<1>3. \A e \in Entries : e \in S \cup {list} <=> e \in S BY ListAssumption
<1> QED BY <1>1, <1>2, <1>3 DEF Links

\* the rings of two heads exchange entries
Exchanged(L, k, l, s, u) ==
  ToSet(s) \cap ToSet(u) = {} /\ ToSet(s) \cup ToSet(u) = ToSet(L[k]) \cup ToSet(L[l])

Becomes(M, L, k, l, s, u) == M = [L EXCEPT ![k] = s, ![l] = u]

\* two sequences exchange what they list, the others stay
LEMMA LinksTwo ==
  ASSUME NEW L, NEW f, NEW g, NEW S \in SUBSET Nodes, Links(L, f, S),
         NEW k \in Heads \cap S, NEW l \in Heads \cap S, k # l,
         NEW s \in Seq(Entries), Chain(s, k, g), NEW u \in Seq(Entries),
         NEW T \in SUBSET Nodes, \A x \in Nodes \ {l} : x \in T <=> x \in S,
         IF l \in T THEN Chain(u, l, g) ELSE u = <<>>,
         Exchanged(L, k, l, s, u),
         NEW D, Same(g, f, S, D), \A x \in S \cap D : x \in RingOf(L, k) \/ x \in RingOf(L, l),
         NEW M, Becomes(M, L, k, l, s, u)
  PROVE  Links(M, g, T)
<1>1. /\ L \in [Heads -> Seq(Entries)] /\ M \in [Heads -> Seq(Entries)]
      /\ \A m \in Heads : M[m] = IF m = l THEN u ELSE IF m = k THEN s ELSE L[m]
  BY DEF Links, Becomes
<1>2. ASSUME NEW m \in Heads, m # k, m # l, m \in S PROVE Chain(L[m], m, g)
  <2>1. L[m] \in Seq(Entries) /\ Chain(L[m], m, f) /\ RingOf(L, m) \subseteq S
    BY <1>2, LinksHead
  <2>2. \A x \in RingOf(L, m) : x \in S /\ x \notin D
    BY <1>2, <2>1, LinksNode
  <2>3. Same(g, f, {m} \cup ToSet(L[m]), {}) BY <2>2 DEF Same, RingOf
  <2> QED BY <2>1, <2>3, ChainSame
<1>3. ASSUME NEW m \in Heads PROVE IF m \in T THEN Chain(M[m], m, g) ELSE M[m] = <<>>
  <2>1. CASE m = l BY <1>1, <2>1
  <2>2. CASE m # l /\ m = k
    <3>1. k \in T BY <2>2 DEF Nodes
    <3> QED BY <1>1, <2>2, <3>1
  <2>3. CASE m # l /\ m # k
    <3>1. m \in T <=> m \in S BY <2>3 DEF Nodes
    <3> QED BY <1>1, <1>2, <2>3, <3>1 DEF Links
  <2> QED BY <2>1, <2>2, <2>3
<1>4. /\ ToSet(s) \cap ToSet(u) = {} /\ ToSet(s) \cup ToSet(u) = ToSet(L[k]) \cup ToSet(L[l])
  BY DEF Exchanged
<1>5. \A m, n \in Heads : m # n => ToSet(L[m]) \cap ToSet(L[n]) = {}
  BY DEF Links
<1>6. \A m \in Heads : m # k /\ m # l => /\ ToSet(s) \cap ToSet(L[m]) = {}
                                         /\ ToSet(u) \cap ToSet(L[m]) = {}
  BY <1>4, <1>5
<1>7. ASSUME NEW m \in Heads, NEW n \in Heads, m # n
      PROVE  ToSet(M[m]) \cap ToSet(M[n]) = {}
  <2>1. /\ M[k] = s /\ M[l] = u
        /\ \A o \in Heads : o # k /\ o # l => M[o] = L[o]
    BY <1>1
  <2>2. CASE m \in {k, l} /\ n \in {k, l} BY <1>4, <1>7, <2>1, <2>2
  <2>3. CASE m \in {k, l} /\ n \notin {k, l} BY <1>6, <2>1, <2>3
  <2>4. CASE m \notin {k, l} /\ n \in {k, l} BY <1>6, <2>1, <2>4
  <2>5. CASE m \notin {k, l} /\ n \notin {k, l} BY <1>5, <1>7, <2>1, <2>5
  <2> QED BY <2>2, <2>3, <2>4, <2>5
<1>8. ASSUME NEW e \in Entries PROVE e \in T <=> \E m \in Heads : e \in ToSet(M[m])
  <2>1. e \in T <=> e \in S BY ListAssumption DEF Nodes
  <2>2. e \in S <=> \E m \in Heads : e \in ToSet(L[m]) BY DEF Links
  <2>3. e \in ToSet(s) \/ e \in ToSet(u) <=> e \in ToSet(L[k]) \/ e \in ToSet(L[l])
    BY <1>4
  <2> QED BY <1>1, <2>1, <2>2, <2>3
<1> QED BY <1>1, <1>3, <1>7, <1>8 DEF Links

\* the node before a head
LEMMA LinksLast ==
  ASSUME NEW L, NEW f, NEW S \in SUBSET Nodes, Links(L, f, S), NEW k \in Heads \cap S,
         NEW p \in S, f[p] = k
  PROVE  p = Place(L[k], k, Len(L[k]))
<1>1. PICK l \in Heads \cap S : p \in RingOf(L, l)
  <2>1. p \in S /\ S \in SUBSET Nodes /\ Links(L, f, S) OBVIOUS
  <2> QED BY <2>1, LinksNode
<1>2. PICK u : u = L[l] OBVIOUS
<1>3. u \in Seq(Entries) /\ Chain(u, l, f) /\ p \in {l} \cup ToSet(u) /\ Len(u) \in Nat
  BY <1>1, <1>2, LinksHead DEF RingOf
<1>4. f[p] \in {l} \cup ToSet(u) BY <1>3, PlaceOf
<1>5. l = k
  <2>1. k \in RingOf(L, l) BY <1>2, <1>4 DEF RingOf
  <2>2. k \in RingOf(L, k) BY DEF RingOf
  <2> QED BY <2>1, <2>2, LinksNode
<1>6. PICK j \in 0..Len(u) : p = Place(u, l, j)
  <2>1. u \in Seq(Entries) /\ Chain(u, l, f) /\ p \in {l} \cup ToSet(u) BY <1>3
  <2>2. /\ \E j \in 0..Len(u) : p = Place(u, l, j)
        /\ \E j \in 0..Len(u) : p = Place(u, l, j + 1) /\ f[Place(u, l, j)] = p
        /\ f[p] \in {l} \cup ToSet(u)
    BY <2>1, PlaceOf
  <2> QED BY <2>2
<1>7. Place(u, l, j + 1) = l BY <1>3, <1>5, <1>6 DEF Chain
<1>8. ASSUME j # Len(u) PROVE FALSE
  <2>1. j + 1 \in 1..Len(u) BY <1>3, <1>6, <1>8
  <2>2. u[j + 1] = l BY <1>7, <2>1 DEF Place
  <2> QED BY <1>3, <2>1, <2>2 DEF Chain
<1> QED BY <1>2, <1>5, <1>6, <1>8

LinksSpliced(L, M, k, l) ==
  M = [L EXCEPT ![l] = <<>>, ![k] = L[l] \o @] \/ M = [L EXCEPT ![l] = <<>>, ![k] = @ \o L[l]]

\* the list of l goes to the front or to the back of the list of k
LEMMA LinksSplice ==
  ASSUME NEW L, NEW f, NEW g, NEW S \in SUBSET Nodes, Links(L, f, S),
         NEW k \in Heads \cap S, NEW l \in Heads \cap S, k # l, f[l] # l,
         NEW p \in S, NEW last \in S, f[last] = l, g[p] = f[l],
         p = k \/ f[p] = k, g[last] = (IF p = k THEN f[k] ELSE k),
         Same(g, f, S, {p, last, l}),
         NEW T \in SUBSET Nodes, \A x \in Nodes \ {l} : x \in T <=> x \in S,
         l \in T => g[l] = l
  PROVE  \E M : Links(M, g, T) /\ LinksSpliced(L, M, k, l)
<1>1. PICK s : s = L[k] OBVIOUS
<1>2. PICK t : t = L[l] OBVIOUS
<1>3. /\ s \in Seq(Entries) /\ Chain(s, k, f) /\ RingOf(L, k) \subseteq S
      /\ t \in Seq(Entries) /\ Chain(t, l, f) /\ RingOf(L, l) \subseteq S
      /\ k \notin Entries /\ l \notin Entries
      /\ Len(s) \in Nat /\ Len(t) \in Nat
      /\ ToSet(s) \subseteq Entries /\ ToSet(t) \subseteq Entries
      /\ ToSet(s) \cap ToSet(t) = {}
  <2>1. /\ s \in Seq(Entries) /\ Chain(s, k, f) /\ RingOf(L, k) \subseteq S
        /\ k \notin Entries /\ ToSet(s) \subseteq Entries
    BY <1>1, LinksHead
  <2>2. /\ t \in Seq(Entries) /\ Chain(t, l, f) /\ RingOf(L, l) \subseteq S
        /\ l \notin Entries /\ ToSet(t) \subseteq Entries
    BY <1>2, LinksHead
  <2>3. ToSet(s) \cap ToSet(t) = {} BY <1>1, <1>2 DEF Links
  <2>4. Len(s) \in Nat /\ Len(t) \in Nat BY <2>1, <2>2
  <2> QED BY <2>1, <2>2, <2>3, <2>4
<1>4. f[l] = Place(t, l, 1)
  <2>1. 0 \in 0..Len(t) /\ Place(t, l, 0) = l BY <1>3 DEF Place
  <2> QED BY <1>3, <2>1 DEF Chain
<1>5. Len(t) # 0
  <2>1. Len(t) = 0 => Place(t, l, 1) = l BY DEF Place
  <2> QED BY <1>4, <2>1
<1>6. f[l] = t[1] /\ last = t[Len(t)]
  <2>1. last = Place(t, l, Len(t)) BY <1>2, LinksLast
  <2> QED BY <1>3, <1>4, <1>5, <2>1 DEF Place
<1>7. last \in ToSet(t) /\ last \in Entries /\ l \notin ToSet(s) /\ l \notin ToSet(t)
  <2>1. t[Len(t)] \in ToSet(t)
    <3>1. Len(t) \in 1..Len(t) BY <1>3, <1>5
    <3> QED BY <1>3, <3>1, SeqMembers
  <2> QED BY <1>3, <1>6, <2>1
<1>8. IF l \in T THEN Chain(<<>>, l, g) ELSE <<>> = <<>> BY EmptyChain
<1>9. \A x \in {k} \cup ToSet(s) \cup ToSet(t) : x \in S /\ x # l
  BY <1>1, <1>2, <1>3, <1>7 DEF RingOf
<1>10. <<>> \in Seq(Entries) OBVIOUS
<1>11. CASE p = k
  <2>1. g[k] = t[1] /\ g[t[Len(t)]] = f[k] BY <1>6, <1>11
  <2>2. Led(g, f, s, t, k, k, f[k])
    BY <1>6, <1>9, <1>11, <2>1 DEF Same, Led
  <2>3. PICK u \in Seq(Entries) : u = t \o s /\ Joins(u, t, s) BY <1>3, Joined
  <2>4. Chain(u, k, g) /\ u \in Seq(Entries) /\ ToSet(u) = ToSet(s) \cup ToSet(t)
    <3>1. /\ s \in Seq(Entries) /\ t \in Seq(Entries) /\ Chain(s, k, f) /\ Chain(t, l, f)
          /\ Len(t) # 0 /\ k \notin ToSet(t) /\ ToSet(s) \cap ToSet(t) = {}
          /\ u \in Seq(Entries) /\ Joins(u, t, s) /\ Led(g, f, s, t, k, k, f[k])
      BY <1>3, <1>5, <2>2, <2>3
    <3>2. Chain(u, k, g) BY <3>1, ChainSplice
    <3>3. IsUnion(ToSet(u), ToSet(s), ToSet(t)) BY <3>1, ChainSplice
    <3> QED BY <3>1, <3>2, <3>3 DEF IsUnion
  <2>5. Exchanged(L, k, l, u, <<>>)
    BY <1>1, <1>2, <2>4, NoMembers DEF Exchanged
  <2>6. \A x \in S \cap {p, last, l} : x \in RingOf(L, k) \/ x \in RingOf(L, l)
    BY <1>2, <1>7, <1>11 DEF RingOf
  <2>7. PICK M : Becomes(M, L, k, l, u, <<>>) BY DEF Becomes
  <2>8. Links(M, g, T) BY <1>8, <1>10, <2>4, <2>5, <2>6, <2>7, LinksTwo
  <2>9. LinksSpliced(L, M, k, l)
    <3>1. M = [L EXCEPT ![l] = <<>>, ![k] = u] BY <2>7 DEF Becomes, Links
    <3>2. u = L[l] \o L[k] BY <1>1, <1>2, <2>3
    <3> QED BY <3>1, <3>2 DEF LinksSpliced
  <2> QED BY <2>8, <2>9
<1>12. CASE p # k
  <2>1. p = Place(s, k, Len(s)) BY <1>1, <1>12, LinksLast
  <2>2. g[Place(s, k, Len(s))] = t[1] /\ g[t[Len(t)]] = k BY <1>6, <1>12, <2>1
  <2>3. Led(g, f, s, t, k, Place(s, k, Len(s)), k)
    BY <1>6, <1>9, <2>1, <2>2 DEF Same, Led
  <2>4. PICK u \in Seq(Entries) : u = s \o t /\ Joins(u, s, t) BY <1>3, Joined
  <2>5. Chain(u, k, g) /\ u \in Seq(Entries) /\ ToSet(u) = ToSet(s) \cup ToSet(t)
    <3>1. /\ s \in Seq(Entries) /\ t \in Seq(Entries) /\ Chain(s, k, f) /\ Chain(t, l, f)
          /\ Len(t) # 0 /\ k \notin ToSet(t) /\ ToSet(s) \cap ToSet(t) = {}
          /\ u \in Seq(Entries) /\ Joins(u, s, t) /\ Led(g, f, s, t, k, Place(s, k, Len(s)), k)
      BY <1>3, <1>5, <2>3, <2>4
    <3>2. Chain(u, k, g) BY <3>1, ChainSplice
    <3>3. IsUnion(ToSet(u), ToSet(s), ToSet(t)) BY <3>1, ChainSplice
    <3> QED BY <3>1, <3>2, <3>3 DEF IsUnion
  <2>6. Exchanged(L, k, l, u, <<>>)
    BY <1>1, <1>2, <2>5, NoMembers DEF Exchanged
  <2>7. \A x \in S \cap {p, last, l} : x \in RingOf(L, k) \/ x \in RingOf(L, l)
    <3>1. Place(s, k, Len(s)) \in {k} \cup ToSet(s)
      <4>1. Len(s) \in 0..Len(s) BY <1>3
      <4> QED BY <1>3, <4>1, PlacesDiffer
    <3> QED BY <1>1, <1>2, <1>7, <2>1, <3>1 DEF RingOf
  <2>8. PICK M : Becomes(M, L, k, l, u, <<>>) BY DEF Becomes
  <2>9. Links(M, g, T) BY <1>8, <1>10, <2>5, <2>6, <2>7, <2>8, LinksTwo
  <2>10. LinksSpliced(L, M, k, l)
    <3>1. M = [L EXCEPT ![l] = <<>>, ![k] = u] BY <2>8 DEF Becomes, Links
    <3>2. u = L[k] \o L[l] BY <1>1, <1>2, <2>4
    <3> QED BY <3>1, <3>2 DEF LinksSpliced
  <2> QED BY <2>9, <2>10
<1> QED BY <1>11, <1>12

LinksCutAt(L, M, k, l, n) ==
  /\ L[l] = <<>> /\ n \in DOMAIN L[k]
  /\ M = [L EXCEPT ![l] = SubSeq(L[k], 1, n), ![k] = SubSeq(@, n + 1, Len(@))]

\* the entries of k up to e go to the empty list of l
LEMMA LinksCut ==
  ASSUME NEW L, NEW f, NEW g, NEW S \in SUBSET Nodes, Links(L, f, S),
         NEW k \in Heads \cap S, NEW l \in Heads \cap S, k # l, f[l] = l,
         NEW e \in ToSet(L[k]), g[l] = f[k], g[e] = l, g[k] = f[e], Same(g, f, S, {k, e, l})
  PROVE  \E M : Links(M, g, S) /\ \E n \in Nat : LinksCutAt(L, M, k, l, n)
<1>1. PICK s : s = L[k] OBVIOUS
<1>2. /\ s \in Seq(Entries) /\ Chain(s, k, f) /\ {k} \cup ToSet(s) \subseteq S
      /\ k \notin Entries /\ Len(s) \in Nat /\ DOMAIN s = 1..Len(s) /\ e \in ToSet(s)
      /\ ToSet(s) \subseteq Entries
  BY <1>1, LinksHead DEF RingOf
<1>3. L[l] = <<>> /\ l \notin ToSet(s)
  <2>1. PICK t : t = L[l] OBVIOUS
  <2>2. t \in Seq(Entries) /\ Chain(t, l, f) /\ l \notin Entries BY <2>1, LinksHead
  <2>3. Len(t) \in Nat /\ 0 \in 0..Len(t) /\ Place(t, l, 0) = l /\ 0 + 1 = 1
    BY <2>2 DEF Place
  <2>4. Place(t, l, 1) = l BY <2>2, <2>3 DEF Chain
  <2>5. ASSUME Len(t) # 0 PROVE FALSE
    <3>1. 1 \in 1..Len(t) /\ t[1] = l BY <2>3, <2>4, <2>5 DEF Place
    <3> QED BY <2>2, <3>1 DEF Chain
  <2>6. t = <<>> BY <2>2, <2>5
  <2> QED BY <1>2, <2>1, <2>2, <2>6
<1>4. PICK n \in 1..Len(s) : s[n] = e BY <1>2, InSet
<1>5. f[k] = s[1]
  <2>1. 0 \in 0..Len(s) /\ Place(s, k, 0) = k /\ Place(s, k, 0 + 1) = s[1]
    BY <1>2, <1>4 DEF Place
  <2> QED BY <1>2, <2>1 DEF Chain
<1>6. Severed(g, f, s, k, n, l)
  <2>1. Same(g, f, {k} \cup ToSet(s), {k, s[n]}) BY <1>2, <1>3, <1>4 DEF Same
  <2> QED BY <1>4, <1>5, <2>1 DEF Severed
<1>7. PICK a : a = SubSeq(s, 1, n) OBVIOUS
<1>8. PICK b : b = SubSeq(s, n + 1, Len(s)) OBVIOUS
<1>9. a \in Seq(Entries) /\ b \in Seq(Entries) /\ Len(a) = n /\ Joins(s, a, b)
  BY <1>2, <1>7, <1>8, CutIs
<1>10. Chain(a, l, g) /\ Chain(b, k, g) /\ Parts(ToSet(s), ToSet(a), ToSet(b))
  <2>1. /\ s \in Seq(Entries) /\ Chain(s, k, f) /\ n \in 1..Len(s)
        /\ l \notin {k} \cup ToSet(s) /\ Severed(g, f, s, k, n, l)
        /\ a \in Seq(Entries) /\ b \in Seq(Entries) /\ Joins(s, a, b) /\ Len(a) = n
    BY <1>2, <1>3, <1>6, <1>9
  <2>2. Chain(a, l, g) BY <2>1, ChainCut
  <2>3. Chain(b, k, g) BY <2>1, ChainCut
  <2>4. Parts(ToSet(s), ToSet(a), ToSet(b)) BY <2>1, ChainCut
  <2> QED BY <2>2, <2>3, <2>4
<1>11. PICK M : Becomes(M, L, k, l, b, a) BY DEF Becomes
<1>12. Links(M, g, S)
  <2>1. Exchanged(L, k, l, b, a)
    BY <1>1, <1>3, <1>10, NoMembers DEF Exchanged, Parts
  <2>2. \A x \in S \cap {k, e, l} : x \in RingOf(L, k) \/ x \in RingOf(L, l)
    BY <1>1, <1>2 DEF RingOf
  <2>3. IF l \in S THEN Chain(a, l, g) ELSE a = <<>> BY <1>10
  <2> QED BY <1>9, <1>10, <1>11, <2>1, <2>2, <2>3, LinksTwo
<1>13. LinksCutAt(L, M, k, l, n)
  <2>1. M = [L EXCEPT ![l] = a, ![k] = b] BY <1>11 DEF Becomes, Links
  <2>2. M = [L EXCEPT ![l] = SubSeq(L[k], 1, n), ![k] = SubSeq(@, n + 1, Len(@))]
    BY <1>1, <1>7, <1>8, <2>1
  <2> QED BY <1>1, <1>2, <1>3, <1>4, <2>2 DEF LinksCutAt
<1>14. n \in Nat BY <1>2, <1>4
<1> QED BY <1>12, <1>13, <1>14

-----------------------------------------------------------------------------
(* Functions in progress.                                                  *)

\* the pointers to the next nodes in the heap h
Nexts(h) == [x \in Nodes |-> h[NextOf(x)]]

\* the stores s take e out from between p and n
Dels(s, e, p, n) == \E v, w \in {Wild, e} :
  s = << <<PrevOf(n), p>>, <<NextOf(p), n>>, <<NextOf(e), v>>, <<PrevOf(e), w>> >>

\* s puts x on a list; s is yet to take x off its list, after d stores
IsNew(s, x) == \E p, n \in Nodes : s = __list_add(x, p, n)
IsGoing(s, d, x) == d < 2 /\ \E p, n \in Nodes : Dels(s, x, p, n)

\* the nodes that the next pointers link in a heap in which functions are in progress
Linked(o, ss, dn) ==
  {x \in Nodes : \/ x \in o /\ \A t \in Tasks : ~IsNew(ss[t], x)
                 \/ \E t \in Tasks : IsGoing(ss[t], dn[t], x)}

Adding(h, o, s, new, p, n) ==
  /\ s = __list_add(new, p, n)
  /\ new \in Entries \cap o /\ p \in o \ {new} /\ n \in o \ {new} /\ h[NextOf(p)] = n

Removing(h, o, s, d, e, p, n) ==
  /\ Dels(s, e, p, n)
  /\ e \in Entries \ o /\ p \in o /\ n \in o
  /\ d < 2 => h[NextOf(p)] = e /\ h[NextOf(e)] = n

Shaped(h, o, s, d) ==
  \/ s = <<>>
  \/ \E new \in Entries, p, n \in Nodes : Adding(h, o, s, new, p, n)
  \/ \E e \in Entries, p, n \in Nodes : Removing(h, o, s, d, e, p, n)

Shapely(h, o, ss, dn) == \A u \in Tasks : Shaped(h, o, ss[u], dn[u])

\* t, which is in no function, calls one that makes the stores s
Clear(ss, s) == \A u \in Tasks : Targets(ss[u]) \cap Targets(s) = {}
Called(rr, ss, t, s) == \A u \in Tasks : rr[u] = IF u = t THEN s ELSE ss[u]
Leads(h, p, n) == h[NextOf(p)] = n

\* a sequence of four stores
LEMMA FourStores ==
  ASSUME NEW a, NEW b, NEW c, NEW d, NEW s, s = <<a, b, c, d>>
  PROVE  /\ s # <<>> /\ Len(s) = 4 /\ DOMAIN s = 1..4
         /\ s[1] = a /\ s[2] = b /\ s[3] = c /\ s[4] = d
         /\ Targets(s) = {a[1], b[1], c[1], d[1]}
BY DEF Targets

\* the stores of __list_add
LEMMA AddStores ==
  ASSUME NEW s, NEW new, NEW p, NEW n, s = __list_add(new, p, n)
  PROVE  /\ s # <<>> /\ Len(s) = 4
         /\ s[1] = <<PrevOf(n), new>> /\ s[2] = <<NextOf(new), n>>
         /\ s[3] = <<PrevOf(new), p>> /\ s[4] = <<NextOf(p), new>>
         /\ Targets(s) = {PrevOf(n), NextOf(new), PrevOf(new), NextOf(p)}
<1> DEFINE a == <<PrevOf(n), new>>
           b == <<NextOf(new), n>>
           c == <<PrevOf(new), p>>
           d == <<NextOf(p), new>>
<1>1. s = <<a, b, c, d>> BY DEF __list_add
<1>2. /\ a[1] = PrevOf(n) /\ b[1] = NextOf(new) /\ c[1] = PrevOf(new) /\ d[1] = NextOf(p)
  OBVIOUS
<1> HIDE DEF a, b, c, d
<1>3. /\ s # <<>> /\ Len(s) = 4 /\ s[1] = a /\ s[2] = b /\ s[3] = c /\ s[4] = d
      /\ Targets(s) = {a[1], b[1], c[1], d[1]}
  BY <1>1, FourStores
<1> QED BY <1>2, <1>3 DEF a, b, c, d

\* the stores of a deletion
LEMMA DelStores ==
  ASSUME NEW s, NEW e, NEW p, NEW n, Dels(s, e, p, n)
  PROVE  /\ s # <<>> /\ Len(s) = 4
         /\ s[1] = <<PrevOf(n), p>> /\ s[2] = <<NextOf(p), n>>
         /\ s[3][1] = NextOf(e) /\ s[4][1] = PrevOf(e)
         /\ s[3][2] \in {Wild, e} /\ s[4][2] \in {Wild, e}
         /\ Targets(s) = {PrevOf(n), NextOf(p), NextOf(e), PrevOf(e)}
<1>1. PICK v, w \in {Wild, e} :
        s = << <<PrevOf(n), p>>, <<NextOf(p), n>>, <<NextOf(e), v>>, <<PrevOf(e), w>> >>
  BY DEF Dels
<1> DEFINE a == <<PrevOf(n), p>>
           b == <<NextOf(p), n>>
           c == <<NextOf(e), v>>
           d == <<PrevOf(e), w>>
<1>2. s = <<a, b, c, d>> BY <1>1
<1>3. /\ a[1] = PrevOf(n) /\ b[1] = NextOf(p) /\ c[1] = NextOf(e) /\ d[1] = PrevOf(e)
      /\ c[2] = v /\ d[2] = w
  OBVIOUS
<1> HIDE DEF a, b, c, d
<1>4. /\ s # <<>> /\ Len(s) = 4 /\ s[1] = a /\ s[2] = b /\ s[3] = c /\ s[4] = d
      /\ Targets(s) = {a[1], b[1], c[1], d[1]}
  BY <1>2, FourStores
<1> QED BY <1>3, <1>4 DEF a, b

\* which nodes a function in progress is about
LEMMA AddIs ==
  ASSUME NEW s, NEW new, NEW p \in Nodes, NEW n \in Nodes, s = __list_add(new, p, n)
  PROVE  /\ \A x : IsNew(s, x) <=> x = new
         /\ \A x, d : ~IsGoing(s, d, x)
<1>1. s[2][1] = NextOf(new) /\ s[3][1] = PrevOf(new) BY AddStores
<1>2. ASSUME NEW x, IsNew(s, x) PROVE x = new
  <2>1. PICK q, m \in Nodes : s = __list_add(x, q, m) BY <1>2 DEF IsNew
  <2>2. s[2][1] = NextOf(x) BY <2>1, AddStores
  <2> QED BY <1>1, <2>2, PointersDiffer
<1>3. ASSUME NEW x, NEW d, IsGoing(s, d, x) PROVE FALSE
  <2>1. PICK q, m \in Nodes : Dels(s, x, q, m) BY <1>3 DEF IsGoing
  <2>2. s[3][1] = NextOf(x) BY <2>1, DelStores
  <2> QED BY <1>1, <2>2, PointersDiffer
<1>4. IsNew(s, new) BY DEF IsNew
<1> QED BY <1>2, <1>3, <1>4

\* ... and a deletion
LEMMA DelIs ==
  ASSUME NEW s, NEW e, NEW p \in Nodes, NEW n \in Nodes, Dels(s, e, p, n)
  PROVE  /\ \A x : ~IsNew(s, x)
         /\ \A x, d : IsGoing(s, d, x) <=> d < 2 /\ x = e
<1>1. s[3][1] = NextOf(e) BY DelStores
<1>2. ASSUME NEW x, IsNew(s, x) PROVE FALSE
  <2>1. PICK q, m \in Nodes : s = __list_add(x, q, m) BY <1>2 DEF IsNew
  <2>2. s[3][1] = PrevOf(x) BY <2>1, AddStores
  <2> QED BY <1>1, <2>2, PointersDiffer
<1>3. ASSUME NEW x, NEW d, IsGoing(s, d, x) PROVE x = e
  <2>1. PICK q, m \in Nodes : Dels(s, x, q, m) BY <1>3 DEF IsGoing
  <2>2. s[3][1] = NextOf(x) BY <2>1, DelStores
  <2> QED BY <1>1, <2>2, PointersDiffer
<1> QED BY <1>2, <1>3 DEF IsGoing

\* ... and no function at all
LEMMA NothingIs ==
  /\ \A x : ~IsNew(<<>>, x)
  /\ \A x, d : ~IsGoing(<<>>, d, x)
BY AddStores, DelStores DEF IsNew, IsGoing

\* what a function in progress is about, it stores into
LEMMA OwnTargets ==
  ASSUME NEW s, NEW x
  PROVE  /\ IsNew(s, x) => NextOf(x) \in Targets(s)
         /\ \A d : IsGoing(s, d, x) => NextOf(x) \in Targets(s)
BY AddStores, DelStores DEF IsNew, IsGoing

\* another task's function keeps its shape
LEMMA OtherShaped ==
  ASSUME NEW h, NEW g, NEW o \in SUBSET Nodes, NEW q \in SUBSET Nodes, NEW s, NEW d,
         Shaped(h, o, s, d),
         \A x \in Nodes : NextOf(x) \in Targets(s) => g[NextOf(x)] = h[NextOf(x)],
         \A x \in o \ q : NextOf(x) \notin Targets(s) /\ PrevOf(x) \notin Targets(s),
         \A x \in q \ o : NextOf(x) \notin Targets(s)
  PROVE  Shaped(g, q, s, d)
<1>1. CASE s = <<>> BY <1>1 DEF Shaped
<1>2. ASSUME NEW new \in Entries, NEW p \in Nodes, NEW n \in Nodes, Adding(h, o, s, new, p, n)
      PROVE  Shaped(g, q, s, d)
  <2>1. /\ s = __list_add(new, p, n)
        /\ new \in Entries \cap o /\ p \in o \ {new} /\ n \in o \ {new} /\ h[NextOf(p)] = n
    BY <1>2 DEF Adding
  <2>2. Targets(s) = {PrevOf(n), NextOf(new), PrevOf(new), NextOf(p)} BY <2>1, AddStores
  <2>3. new \in q /\ p \in q /\ n \in q BY <2>1, <2>2
  <2>4. g[NextOf(p)] = n BY <2>1, <2>2
  <2>5. Adding(g, q, s, new, p, n) BY <2>1, <2>3, <2>4 DEF Adding
  <2> QED BY <2>5 DEF Shaped
<1>3. ASSUME NEW e \in Entries, NEW p \in Nodes, NEW n \in Nodes,
             Removing(h, o, s, d, e, p, n)
      PROVE  Shaped(g, q, s, d)
  <2>1. /\ Dels(s, e, p, n) /\ e \in Entries \ o /\ p \in o /\ n \in o
        /\ d < 2 => h[NextOf(p)] = e /\ h[NextOf(e)] = n
    BY <1>3 DEF Removing
  <2>2. Targets(s) = {PrevOf(n), NextOf(p), NextOf(e), PrevOf(e)} BY <2>1, DelStores
  <2>3. e \notin q /\ p \in q /\ n \in q BY <2>1, <2>2
  <2>4. e \in Nodes /\ g[NextOf(p)] = h[NextOf(p)] /\ g[NextOf(e)] = h[NextOf(e)]
    BY <2>2 DEF Nodes
  <2>5. Removing(g, q, s, d, e, p, n) BY <2>1, <2>3, <2>4 DEF Removing
  <2> QED BY <2>5 DEF Shaped
<1> QED BY <1>1, <1>2, <1>3 DEF Shaped

\* a call of an insertion or of a deletion
LEMMA AddCalled ==
  ASSUME NEW h, NEW o \in SUBSET Nodes, NEW ss, NEW dn, NEW t \in Tasks, ss[t] = <<>>,
         Shapely(h, o, ss, dn),
         NEW new \in Entries, new \notin o, NEW p \in o, NEW n \in o, Leads(h, p, n),
         NEW s, s = __list_add(new, p, n), Clear(ss, s), NEW rr, Called(rr, ss, t, s)
  PROVE  /\ Shapely(h, o \cup {new}, rr, dn)
         /\ Linked(o \cup {new}, rr, dn) = Linked(o, ss, dn)
<1>0. /\ \A u \in Tasks : Shaped(h, o, ss[u], dn[u])
      /\ \A u \in Tasks : Targets(ss[u]) \cap Targets(s) = {}
      /\ \A u \in Tasks : rr[u] = IF u = t THEN s ELSE ss[u]
      /\ h[NextOf(p)] = n
  BY DEF Shapely, Clear, Called, Leads
<1> USE <1>0
<1>1. Targets(s) = {PrevOf(n), NextOf(new), PrevOf(new), NextOf(p)} BY AddStores
<1>2. \A u \in Tasks : NextOf(new) \notin Targets(ss[u]) BY <1>1
<1>3. new \in Nodes /\ o \cup {new} \in SUBSET Nodes BY DEF Nodes
<1>4. ASSUME NEW u \in Tasks PROVE Shaped(h, o \cup {new}, rr[u], dn[u])
  <2>1. CASE u = t
    <3>1. Adding(h, o \cup {new}, s, new, p, n) BY DEF Adding
    <3>2. new \in Entries /\ p \in Nodes /\ n \in Nodes OBVIOUS
    <3>3. Shaped(h, o \cup {new}, s, dn[u]) BY <3>1, <3>2 DEF Shaped
    <3> QED BY <2>1, <3>3
  <2>2. CASE u # t
    <3>1. /\ Shaped(h, o, ss[u], dn[u]) /\ NextOf(new) \notin Targets(ss[u])
          /\ o \in SUBSET Nodes /\ o \cup {new} \in SUBSET Nodes
      BY <1>2, <1>3
    <3>2. /\ \A x \in (o \cup {new}) \ o : NextOf(x) \notin Targets(ss[u])
          /\ \A x \in o \ (o \cup {new}) :
               NextOf(x) \notin Targets(ss[u]) /\ PrevOf(x) \notin Targets(ss[u])
      BY <3>1
    <3>3. Shaped(h, o \cup {new}, ss[u], dn[u]) BY <3>1, <3>2, OtherShaped
    <3> QED BY <2>2, <3>3
  <2> QED BY <2>1, <2>2
<1>5. ASSUME NEW x \in Nodes
      PROVE  x \in Linked(o \cup {new}, rr, dn) <=> x \in Linked(o, ss, dn)
  <2>1. /\ IsNew(s, x) <=> x = new
        /\ \A d : ~IsGoing(s, d, x)
        /\ ~IsNew(ss[t], x) /\ \A d : ~IsGoing(ss[t], d, x)
    <3>1. p \in Nodes /\ n \in Nodes /\ s = __list_add(new, p, n) OBVIOUS
    <3>2. \A y : IsNew(s, y) <=> y = new BY ONLY <3>1, AddIs
    <3>3. \A y, d : ~IsGoing(s, d, y) BY ONLY <3>1, AddIs
    <3>4. ~IsNew(ss[t], x) /\ \A d : ~IsGoing(ss[t], d, x) BY NothingIs
    <3> QED BY ONLY <3>2, <3>3, <3>4
  <2>2. CASE x = new
    <3>1. IsNew(rr[t], x) BY <2>1, <2>2
    <3>2. \A u \in Tasks : ~IsGoing(ss[u], dn[u], x) BY <1>2, <2>2, OwnTargets
    <3>3. \A u \in Tasks : ~IsGoing(rr[u], dn[u], x) BY <2>1, <3>2
    <3> QED BY <2>2, <3>1, <3>2, <3>3 DEF Linked
  <2>3. CASE x # new
    <3>1. \A u \in Tasks : /\ IsNew(rr[u], x) <=> IsNew(ss[u], x)
                           /\ IsGoing(rr[u], dn[u], x) <=> IsGoing(ss[u], dn[u], x)
      BY <2>1, <2>3
    <3> QED BY <2>3, <3>1 DEF Linked
  <2> QED BY <2>2, <2>3
<1>6. Linked(o \cup {new}, rr, dn) = Linked(o, ss, dn) BY <1>5 DEF Linked
<1>7. \A u \in Tasks : Shaped(h, o \cup {new}, rr[u], dn[u]) BY <1>4
<1> QED BY <1>6, <1>7 DEF Shapely

\* a task calls a deletion
LEMMA DelCalled ==
  ASSUME NEW h, NEW o \in SUBSET Nodes, NEW ss, NEW dn, NEW t \in Tasks, ss[t] = <<>>,
         dn[t] = 0, Shapely(h, o, ss, dn),
         NEW e \in Entries, e \in o, NEW p \in o, p # e, NEW n \in o, n # e,
         Leads(h, p, e), Leads(h, e, n), NEW s, Dels(s, e, p, n), Clear(ss, s),
         NEW rr, Called(rr, ss, t, s)
  PROVE  /\ Shapely(h, o \ {e}, rr, dn)
         /\ Linked(o \ {e}, rr, dn) = Linked(o, ss, dn)
<1>0. /\ \A u \in Tasks : Shaped(h, o, ss[u], dn[u])
      /\ \A u \in Tasks : Targets(ss[u]) \cap Targets(s) = {}
      /\ \A u \in Tasks : rr[u] = IF u = t THEN s ELSE ss[u]
      /\ h[NextOf(p)] = e /\ h[NextOf(e)] = n
  BY DEF Shapely, Clear, Called, Leads
<1> USE <1>0
<1>1. Targets(s) = {PrevOf(n), NextOf(p), NextOf(e), PrevOf(e)} BY DelStores
<1>2. \A u \in Tasks : NextOf(e) \notin Targets(ss[u]) /\ PrevOf(e) \notin Targets(ss[u])
  BY <1>1
<1>3. e \in Nodes /\ o \ {e} \in SUBSET Nodes BY DEF Nodes
<1>4. ASSUME NEW u \in Tasks PROVE Shaped(h, o \ {e}, rr[u], dn[u])
  <2>1. CASE u = t
    <3>1. Removing(h, o \ {e}, s, dn[u], e, p, n) BY DEF Removing
    <3>2. e \in Entries /\ p \in Nodes /\ n \in Nodes OBVIOUS
    <3>3. Shaped(h, o \ {e}, s, dn[u]) BY <3>1, <3>2 DEF Shaped
    <3> QED BY <2>1, <3>3
  <2>2. CASE u # t
    <3>1. /\ Shaped(h, o, ss[u], dn[u])
          /\ NextOf(e) \notin Targets(ss[u]) /\ PrevOf(e) \notin Targets(ss[u])
          /\ o \in SUBSET Nodes /\ o \ {e} \in SUBSET Nodes
      BY <1>2, <1>3
    <3>2. /\ \A x \in (o \ {e}) \ o : NextOf(x) \notin Targets(ss[u])
          /\ \A x \in o \ (o \ {e}) :
               NextOf(x) \notin Targets(ss[u]) /\ PrevOf(x) \notin Targets(ss[u])
      BY <3>1
    <3>3. Shaped(h, o \ {e}, ss[u], dn[u]) BY <3>1, <3>2, OtherShaped
    <3> QED BY <2>2, <3>3
  <2> QED BY <2>1, <2>2
<1>5. ASSUME NEW x \in Nodes
      PROVE  x \in Linked(o \ {e}, rr, dn) <=> x \in Linked(o, ss, dn)
  <2>1. /\ ~IsNew(s, x)
        /\ \A d : IsGoing(s, d, x) <=> d < 2 /\ x = e
        /\ ~IsNew(ss[t], x) /\ \A d : ~IsGoing(ss[t], d, x)
    <3>1. p \in Nodes /\ n \in Nodes /\ Dels(s, e, p, n) OBVIOUS
    <3>2. \A y : ~IsNew(s, y) BY ONLY <3>1, DelIs
    <3>3. \A y, d : IsGoing(s, d, y) <=> d < 2 /\ y = e BY ONLY <3>1, DelIs
    <3>4. ~IsNew(ss[t], x) /\ \A d : ~IsGoing(ss[t], d, x) BY NothingIs
    <3> QED BY <3>2, <3>3, <3>4
  <2>2. CASE x = e
    <3>1. IsGoing(rr[t], dn[t], x) BY <2>1, <2>2
    <3>2. \A u \in Tasks : ~IsNew(ss[u], x) BY <1>2, <2>2, OwnTargets
    <3> QED BY <2>2, <3>1, <3>2 DEF Linked
  <2>3. CASE x # e
    <3>1. \A u \in Tasks : /\ IsNew(rr[u], x) <=> IsNew(ss[u], x)
                           /\ IsGoing(rr[u], dn[u], x) <=> IsGoing(ss[u], dn[u], x)
      BY <2>1, <2>3
    <3> QED BY <2>3, <3>1 DEF Linked
  <2> QED BY <2>2, <2>3
<1>6. Linked(o \ {e}, rr, dn) = Linked(o, ss, dn) BY <1>5 DEF Linked
<1>7. \A u \in Tasks : Shaped(h, o \ {e}, rr[u], dn[u]) BY <1>4
<1> QED BY <1>6, <1>7 DEF Shapely

\* the next pointers, as a function
LEMMA NextsAre ==
  ASSUME NEW h \in Heaps
  PROVE  \A x \in Nodes : Nexts(h)[x] = h[NextOf(x)]
BY DEF Nexts

\* a store into a previous pointer, and one into a next pointer
LEMMA PutPrev ==
  ASSUME NEW h \in Heaps, NEW x \in Nodes, NEW v \in Values, NEW g, g = Put(h, <<PrevOf(x), v>>)
  PROVE  \A y \in Nodes : g[NextOf(y)] = h[NextOf(y)]
<1>1. g = [h EXCEPT ![PrevOf(x)] = v] BY PutIs
<1> QED BY <1>1, PointersDiffer DEF Heaps

\* ... and one into a next pointer
LEMMA PutNext ==
  ASSUME NEW h \in Heaps, NEW x \in Nodes, NEW v \in Values, NEW g, g = Put(h, <<NextOf(x), v>>)
  PROVE  \A y \in Nodes : g[NextOf(y)] = IF y = x THEN v ELSE h[NextOf(y)]
<1>1. g = [h EXCEPT ![NextOf(x)] = v] BY PutIs
<1> QED BY <1>1, PointersDiffer DEF Heaps

\* g is h but for the stores s
Outside(g, h, s) == \A x \in Nodes : NextOf(x) \notin Targets(s) => g[NextOf(x)] = h[NextOf(x)]

\* a store of t leaves the shape of the others
LEMMA StoredOthers ==
  ASSUME NEW h \in Heaps, NEW g, NEW o \in SUBSET Nodes, NEW ss, NEW dn, Apart(ss),
         NEW t \in Tasks, Shapely(h, o, ss, dn), Outside(g, h, ss[t])
  PROVE  \A u \in Tasks : u # t => Shaped(g, o, ss[u], dn[u])
<1> SUFFICES ASSUME NEW u \in Tasks, u # t PROVE Shaped(g, o, ss[u], dn[u])
  OBVIOUS
<1>1. Targets(ss[t]) \cap Targets(ss[u]) = {} BY DEF Apart
<1>2. \A x \in Nodes : NextOf(x) \in Targets(ss[u]) => g[NextOf(x)] = h[NextOf(x)]
  BY <1>1 DEF Outside
<1>3. \A x \in o \ o :
               NextOf(x) \notin Targets(ss[u]) /\ PrevOf(x) \notin Targets(ss[u])
  OBVIOUS
<1>4. \A x \in o \ o : NextOf(x) \notin Targets(ss[u]) OBVIOUS
<1>5. Shaped(h, o, ss[u], dn[u]) BY DEF Shapely
<1> QED BY <1>2, <1>3, <1>4, <1>5, OtherShaped

\* a node that t's function stores into is no other function's
LEMMA OthersNot ==
  ASSUME NEW ss, NEW dn, Apart(ss), NEW t \in Tasks, NEW x, NextOf(x) \in Targets(ss[t])
  PROVE  \A u \in Tasks : u # t => ~IsNew(ss[u], x) /\ ~IsGoing(ss[u], dn[u], x)
BY OwnTargets DEF Apart

\* what t is about does not change
LEMMA LinkedSame ==
  ASSUME NEW o, NEW ss, NEW dn, NEW rr, NEW en, NEW t \in Tasks,
         \A u \in Tasks : u # t => rr[u] = ss[u] /\ en[u] = dn[u],
         \A x \in Nodes : /\ IsNew(rr[t], x) <=> IsNew(ss[t], x)
                          /\ IsGoing(rr[t], en[t], x) <=> IsGoing(ss[t], dn[t], x)
  PROVE  Linked(o, rr, en) = Linked(o, ss, dn)
<1>1. ASSUME NEW x \in Nodes PROVE x \in Linked(o, rr, en) <=> x \in Linked(o, ss, dn)
  <2>1. \A u \in Tasks : /\ IsNew(rr[u], x) <=> IsNew(ss[u], x)
                         /\ IsGoing(rr[u], en[u], x) <=> IsGoing(ss[u], dn[u], x)
    OBVIOUS
  <2> QED BY <2>1 DEF Linked
<1> QED BY <1>1 DEF Linked

\* of the tasks only t takes a step
Others(rr, ss, t) == \A u \in Tasks : u # t => rr[u] = ss[u]
Puts(g, h, s, i) == g = Put(h, s[i])

\* the next pointers of the nodes S stay; new comes after p; e, which is after p, goes
Untouched(g, h, S) == \A x \in S : g[NextOf(x)] = h[NextOf(x)]
Enters(g, h, S, p, new) == /\ new \notin S /\ p \in S
                           /\ g[NextOf(p)] = new /\ g[NextOf(new)] = h[NextOf(p)]
                           /\ \A x \in Nodes : x # p => g[NextOf(x)] = h[NextOf(x)]
Leaves(g, h, S, p, e) == /\ e \in S /\ p \in S
                         /\ h[NextOf(p)] = e /\ g[NextOf(p)] = h[NextOf(e)]
                         /\ \A x \in Nodes : x # p => g[NextOf(x)] = h[NextOf(x)]

\* an insertion before its last store
LEMMA AddStored ==
  ASSUME NEW h \in Heaps, NEW g, NEW o \in SUBSET Nodes, NEW ss, NEW dn, NEW en, Apart(ss),
         NEW t \in Tasks, Shapely(h, o, ss, dn),
         NEW new \in Entries, NEW p \in Nodes, NEW n \in Nodes, Adding(h, o, ss[t], new, p, n),
         NEW k \in 0..2, Puts(g, h, ss[t], k + 1),
         Others(en, dn, t)
  PROVE  /\ Shapely(g, o, ss, en)
         /\ Linked(o, ss, en) = Linked(o, ss, dn)
         /\ Untouched(g, h, Linked(o, ss, dn))
<1>0. /\ g = Put(h, ss[t][k + 1])
      /\ \A u \in Tasks : u # t => en[u] = dn[u]
  BY DEF Puts, Others
<1> USE <1>0
<1>1. /\ ss[t] = __list_add(new, p, n) /\ new \in o /\ p \in o \ {new} /\ n \in o \ {new}
      /\ h[NextOf(p)] = n /\ new \in Nodes
  BY DEF Adding, Nodes
<1>2. /\ ss[t][1] = <<PrevOf(n), new>> /\ ss[t][2] = <<NextOf(new), n>>
      /\ ss[t][3] = <<PrevOf(new), p>>
      /\ Targets(ss[t]) = {PrevOf(n), NextOf(new), PrevOf(new), NextOf(p)}
  BY <1>1, AddStores
<1>3. /\ \A x : IsNew(ss[t], x) <=> x = new
      /\ \A x, d : ~IsGoing(ss[t], d, x)
  BY <1>1, AddIs
<1>4. \A y \in Nodes : y # new => g[NextOf(y)] = h[NextOf(y)]
  <2>1. new \in Values /\ n \in Values /\ p \in Values BY <1>1 DEF Values
  <2>2. CASE k = 0
    <3>1. g = Put(h, <<PrevOf(n), new>>) BY <1>2, <2>2
    <3> QED BY <2>1, <3>1, PutPrev
  <2>3. CASE k = 1
    <3>1. g = Put(h, <<NextOf(new), n>>) BY <1>2, <2>3
    <3> QED BY <1>1, <2>1, <3>1, PutNext
  <2>4. CASE k = 2
    <3>1. g = Put(h, <<PrevOf(new), p>>) BY <1>2, <2>4
    <3> QED BY <1>1, <2>1, <3>1, PutPrev
  <2> QED BY <2>2, <2>3, <2>4
<1>5. new \notin Linked(o, ss, dn)
  <2>1. NextOf(new) \in Targets(ss[t]) BY <1>2
  <2> QED BY <1>3, <2>1, OthersNot DEF Linked
<1>6. \A u \in Tasks : u # t => Shaped(g, o, ss[u], dn[u])
  <2>1. Outside(g, h, ss[t]) BY <1>2, <1>4 DEF Outside
  <2>2. Shapely(h, o, ss, dn) BY DEF Shapely
  <2> QED BY <2>1, <2>2, StoredOthers
<1>7. Shaped(g, o, ss[t], en[t])
  <2>1. Adding(g, o, ss[t], new, p, n) BY <1>1, <1>4 DEF Adding
  <2> QED BY <2>1 DEF Shaped
<1>8. \A u \in Tasks : Shaped(g, o, ss[u], en[u]) BY <1>6, <1>7
<1>9. Linked(o, ss, en) = Linked(o, ss, dn) BY <1>3, LinkedSame
<1>10. \A x \in Linked(o, ss, dn) : g[NextOf(x)] = h[NextOf(x)]
  BY <1>4, <1>5 DEF Linked
<1> QED BY <1>8, <1>9, <1>10 DEF Shapely, Untouched, Enters, Leaves

\* the last store of an insertion
LEMMA AddDone ==
  ASSUME NEW h \in Heaps, NEW g, NEW o \in SUBSET Nodes, NEW ss, NEW dn, NEW rr, NEW en,
         Apart(ss), NEW t \in Tasks, Shapely(h, o, ss, dn),
         NEW new \in Entries, NEW p \in Nodes, NEW n \in Nodes, Adding(h, o, ss[t], new, p, n),
         Made(h, ss[t], 3), Puts(g, h, ss[t], 4),
         Others(rr, ss, t), Others(en, dn, t), rr[t] = <<>>
  PROVE  /\ Shapely(g, o, rr, en)
         /\ Linked(o, rr, en) = Linked(o, ss, dn) \cup {new}
         /\ Enters(g, h, Linked(o, ss, dn), p, new)
<1>0. /\ g = Put(h, ss[t][4])
      /\ \A u \in Tasks : u # t => en[u] = dn[u]
      /\ \A u \in Tasks : u # t => rr[u] = ss[u]
  BY DEF Puts, Others
<1> USE <1>0
<1>1. /\ ss[t] = __list_add(new, p, n) /\ new \in o /\ p \in o \ {new} /\ n \in o \ {new}
      /\ h[NextOf(p)] = n /\ new \in Nodes
  BY DEF Adding, Nodes
<1>2. /\ ss[t][1] = <<PrevOf(n), new>> /\ ss[t][2] = <<NextOf(new), n>>
      /\ ss[t][3] = <<PrevOf(new), p>> /\ ss[t][4] = <<NextOf(p), new>>
      /\ Targets(ss[t]) = {PrevOf(n), NextOf(new), PrevOf(new), NextOf(p)}
  BY <1>1, AddStores
<1>3. /\ \A x : IsNew(ss[t], x) <=> x = new
      /\ \A x, d : ~IsGoing(ss[t], d, x)
      /\ \A x : ~IsNew(rr[t], x)
      /\ \A x, d : ~IsGoing(rr[t], d, x)
  <2>1. /\ \A x : IsNew(ss[t], x) <=> x = new
        /\ \A x, d : ~IsGoing(ss[t], d, x)
    BY <1>1, AddIs
  <2>2. /\ \A x : ~IsNew(rr[t], x)
        /\ \A x, d : ~IsGoing(rr[t], d, x)
    BY NothingIs
  <2> QED BY <2>1, <2>2
<1>4. \A y \in Nodes : g[NextOf(y)] = IF y = p THEN new ELSE h[NextOf(y)]
  <2>1. new \in Values BY <1>1 DEF Values
  <2>2. g = Put(h, <<NextOf(p), new>>) BY <1>2
  <2> QED BY <2>1, <2>2, PutNext
<1>5. h[NextOf(new)] = n
  <2>1. \A j \in 1..4 : 2 < j /\ j <= 3 => ss[t][j][1] # ss[t][2][1]
    <3>1. ss[t][3][1] # ss[t][2][1] BY <1>2, PointersDiffer
    <3>2. \A j \in 1..4 : 2 < j /\ j <= 3 => j = 3 OBVIOUS
    <3> QED BY <3>1, <3>2
  <2>2. h[ss[t][2][1]] = ss[t][2][2] BY <2>1 DEF Made
  <2> QED BY <1>2, <2>2
<1>6. \A u \in Tasks : u # t => /\ ~IsNew(ss[u], new) /\ ~IsGoing(ss[u], dn[u], new)
                                /\ ~IsNew(ss[u], p)
  <2>1. NextOf(new) \in Targets(ss[t]) /\ NextOf(p) \in Targets(ss[t]) BY <1>2
  <2> QED BY <2>1, OthersNot
<1>7. new \notin Linked(o, ss, dn) /\ p \in Linked(o, ss, dn)
  BY <1>1, <1>3, <1>6 DEF Linked
<1>8. ASSUME NEW x \in Nodes
      PROVE  x \in Linked(o, rr, en) <=> x \in Linked(o, ss, dn) \/ x = new
  <2>1. CASE x = new
    <3>1. \A u \in Tasks : ~IsNew(rr[u], x) BY <1>3, <1>6, <2>1
    <3> QED BY <1>1, <2>1, <3>1 DEF Linked
  <2>2. CASE x # new
    <3>1. \A u \in Tasks : /\ IsNew(rr[u], x) <=> IsNew(ss[u], x)
                           /\ IsGoing(rr[u], en[u], x) <=> IsGoing(ss[u], dn[u], x)
      BY <1>3, <2>2
    <3> QED BY <2>2, <3>1 DEF Linked
  <2> QED BY <2>1, <2>2
<1>9. Linked(o, rr, en) = Linked(o, ss, dn) \cup {new} BY <1>1, <1>8 DEF Linked
<1>10. \A u \in Tasks : u # t => Shaped(g, o, ss[u], dn[u])
  <2>1. Outside(g, h, ss[t]) BY <1>2, <1>4 DEF Outside
  <2>2. Shapely(h, o, ss, dn) BY DEF Shapely
  <2> QED BY <2>1, <2>2, StoredOthers
<1>11. \A u \in Tasks : Shaped(g, o, rr[u], en[u]) BY <1>10 DEF Shaped
<1> QED BY <1>1, <1>4, <1>5, <1>7, <1>9, <1>11 DEF Shapely, Untouched, Enters, Leaves

\* a deletion before the store that joins the neighbours
LEMMA DelStored ==
  ASSUME NEW h \in Heaps, NEW g, NEW o \in SUBSET Nodes, NEW ss, NEW dn, NEW en, Apart(ss),
         NEW t \in Tasks, Shapely(h, o, ss, dn),
         NEW e \in Entries, NEW p \in Nodes, NEW n \in Nodes,
         Removing(h, o, ss[t], dn[t], e, p, n), dn[t] = 0, Puts(g, h, ss[t], 1), en[t] = 1,
         Others(en, dn, t)
  PROVE  /\ Shapely(g, o, ss, en)
         /\ Linked(o, ss, en) = Linked(o, ss, dn)
         /\ Untouched(g, h, Nodes)
<1>0. /\ g = Put(h, ss[t][1])
      /\ \A u \in Tasks : u # t => en[u] = dn[u]
  BY DEF Puts, Others
<1> USE <1>0
<1>1. /\ Dels(ss[t], e, p, n) /\ e \notin o /\ p \in o /\ n \in o
      /\ h[NextOf(p)] = e /\ h[NextOf(e)] = n /\ e \in Nodes
  BY DEF Removing, Nodes
<1>2. ss[t][1] = <<PrevOf(n), p>> BY <1>1, DelStores
<1>3. \A x, d : IsGoing(ss[t], d, x) <=> d < 2 /\ x = e BY <1>1, DelIs
<1>4. \A x \in Nodes : g[NextOf(x)] = h[NextOf(x)]
  <2>1. p \in Values BY DEF Values
  <2>2. g = Put(h, <<PrevOf(n), p>>) BY <1>2
  <2> QED BY <2>1, <2>2, PutPrev
<1>5. \A u \in Tasks : u # t => Shaped(g, o, ss[u], dn[u])
  <2>1. Outside(g, h, ss[t]) BY <1>4 DEF Outside
  <2>2. Shapely(h, o, ss, dn) BY DEF Shapely
  <2> QED BY <2>1, <2>2, StoredOthers
<1>6. Shaped(g, o, ss[t], en[t])
  <2>1. Removing(g, o, ss[t], en[t], e, p, n) BY <1>1, <1>4 DEF Removing
  <2> QED BY <2>1 DEF Shaped
<1>7. \A u \in Tasks : Shaped(g, o, ss[u], en[u]) BY <1>5, <1>6
<1>8. Linked(o, ss, en) = Linked(o, ss, dn)
  <2>1. \A x \in Nodes : IsGoing(ss[t], en[t], x) <=> IsGoing(ss[t], dn[t], x) BY <1>3
  <2> QED BY <2>1, LinkedSame
<1> QED BY <1>4, <1>7, <1>8 DEF Shapely, Untouched, Enters, Leaves

\* the store that joins the neighbours
LEMMA DelJoins ==
  ASSUME NEW h \in Heaps, NEW g, NEW o \in SUBSET Nodes, NEW ss, NEW dn, NEW en, Apart(ss),
         NEW t \in Tasks, Shapely(h, o, ss, dn),
         NEW e \in Entries, NEW p \in Nodes, NEW n \in Nodes,
         Removing(h, o, ss[t], dn[t], e, p, n), dn[t] = 1, Puts(g, h, ss[t], 2), en[t] = 2,
         Others(en, dn, t)
  PROVE  /\ Shapely(g, o, ss, en)
         /\ Linked(o, ss, en) = Linked(o, ss, dn) \ {e}
         /\ Leaves(g, h, Linked(o, ss, dn), p, e)
<1>0. /\ g = Put(h, ss[t][2])
      /\ \A u \in Tasks : u # t => en[u] = dn[u]
  BY DEF Puts, Others
<1> USE <1>0
<1>1. /\ Dels(ss[t], e, p, n) /\ e \notin o /\ p \in o /\ n \in o
      /\ h[NextOf(p)] = e /\ h[NextOf(e)] = n /\ e \in Nodes
  BY DEF Removing, Nodes
<1>2. /\ ss[t][2] = <<NextOf(p), n>>
      /\ Targets(ss[t]) = {PrevOf(n), NextOf(p), NextOf(e), PrevOf(e)}
  BY <1>1, DelStores
<1>3. /\ \A x : ~IsNew(ss[t], x)
      /\ \A x, d : IsGoing(ss[t], d, x) <=> d < 2 /\ x = e
  <2>1. Dels(ss[t], e, p, n) /\ p \in Nodes /\ n \in Nodes BY <1>1
  <2>2. \A x : ~IsNew(ss[t], x) BY ONLY <2>1, DelIs
  <2>3. \A x, d : IsGoing(ss[t], d, x) <=> d < 2 /\ x = e BY ONLY <2>1, DelIs
  <2> QED BY <2>2, <2>3
<1>4. \A x \in Nodes : g[NextOf(x)] = IF x = p THEN n ELSE h[NextOf(x)]
  <2>1. n \in Values BY DEF Values
  <2>2. g = Put(h, <<NextOf(p), n>>) BY <1>2
  <2> QED BY <2>1, <2>2, PutNext
<1>5. \A u \in Tasks : u # t => Shaped(g, o, ss[u], dn[u])
  <2>1. Outside(g, h, ss[t]) BY <1>2, <1>4 DEF Outside
  <2>2. Shapely(h, o, ss, dn) BY DEF Shapely
  <2> QED BY <2>1, <2>2, StoredOthers
<1>6. Shaped(g, o, ss[t], en[t])
  <2>1. Removing(g, o, ss[t], en[t], e, p, n) BY <1>1 DEF Removing
  <2> QED BY <2>1 DEF Shaped
<1>7. \A u \in Tasks : Shaped(g, o, ss[u], en[u]) BY <1>5, <1>6
<1>8. \A u \in Tasks : u # t => /\ ~IsNew(ss[u], p) /\ ~IsGoing(ss[u], dn[u], e)
  <2>1. NextOf(e) \in Targets(ss[t]) /\ NextOf(p) \in Targets(ss[t]) BY <1>2
  <2> QED BY <2>1, OthersNot
<1>9. e \in Linked(o, ss, dn) /\ p \in Linked(o, ss, dn) BY <1>1, <1>3, <1>8 DEF Linked
<1>10. ASSUME NEW x \in Nodes
       PROVE  x \in Linked(o, ss, en) <=> x \in Linked(o, ss, dn) /\ x # e
  <2>1. CASE x = e
    <3>1. \A u \in Tasks : ~IsGoing(ss[u], en[u], x) BY <1>3, <1>8, <2>1
    <3> QED BY <1>1, <2>1, <3>1 DEF Linked
  <2>2. CASE x # e
    <3>1. \A u \in Tasks : IsGoing(ss[u], en[u], x) <=> IsGoing(ss[u], dn[u], x)
      BY <1>3, <2>2
    <3> QED BY <2>2, <3>1 DEF Linked
  <2> QED BY <2>1, <2>2
<1>11. Linked(o, ss, en) = Linked(o, ss, dn) \ {e} BY <1>10 DEF Linked
<1> QED BY <1>1, <1>4, <1>7, <1>9, <1>11 DEF Shapely, Untouched, Enters, Leaves

\* a deletion's stores into the entry that it has taken out
LEMMA DelAfter ==
  ASSUME NEW h \in Heaps, NEW g, NEW o \in SUBSET Nodes, NEW ss, NEW dn, NEW rr, NEW en,
         Apart(ss), NEW t \in Tasks, Shapely(h, o, ss, dn),
         NEW e \in Entries, NEW p \in Nodes, NEW n \in Nodes,
         Removing(h, o, ss[t], dn[t], e, p, n),
         NEW k \in {2, 3}, dn[t] = k, Puts(g, h, ss[t], k + 1),
         Others(rr, ss, t), Others(en, dn, t),
         rr[t] = <<>> \/ (rr[t] = ss[t] /\ en[t] = 3)
  PROVE  /\ Shapely(g, o, rr, en)
         /\ Linked(o, rr, en) = Linked(o, ss, dn)
         /\ Untouched(g, h, Linked(o, ss, dn))
<1>0. /\ g = Put(h, ss[t][k + 1])
      /\ \A u \in Tasks : u # t => en[u] = dn[u]
      /\ \A u \in Tasks : u # t => rr[u] = ss[u]
  BY DEF Puts, Others
<1> USE <1>0
<1>1. Dels(ss[t], e, p, n) /\ e \notin o /\ p \in o /\ n \in o /\ e \in Nodes
  BY DEF Removing, Nodes
<1>2. /\ ss[t][3][1] = NextOf(e) /\ ss[t][4][1] = PrevOf(e)
      /\ ss[t][3][2] \in {Wild, e} /\ ss[t][4][2] \in {Wild, e}
      /\ Targets(ss[t]) = {PrevOf(n), NextOf(p), NextOf(e), PrevOf(e)}
      /\ ss[t] # <<>> /\ Len(ss[t]) = 4
  BY <1>1, DelStores
<1>3. /\ \A x : ~IsNew(ss[t], x)
      /\ \A x, d : IsGoing(ss[t], d, x) <=> d < 2 /\ x = e
  <2>1. Dels(ss[t], e, p, n) /\ p \in Nodes /\ n \in Nodes BY <1>1
  <2>2. \A x : ~IsNew(ss[t], x) BY ONLY <2>1, DelIs
  <2>3. \A x, d : IsGoing(ss[t], d, x) <=> d < 2 /\ x = e BY ONLY <2>1, DelIs
  <2> QED BY <2>2, <2>3
<1>4. \A x \in Nodes : x # e => g[NextOf(x)] = h[NextOf(x)]
  <2>2. CASE k = 2
    <3>0. PICK v : v = ss[t][3][2] OBVIOUS
    <3>1. g = Put(h, ss[t][3]) BY <2>2
    <3>2. g = [h EXCEPT ![NextOf(e)] = v] BY ONLY <1>2, <3>0, <3>1 DEF Put
    <3> QED BY <3>2, PointersDiffer DEF Heaps
  <2>3. CASE k = 3
    <3>0. PICK v : v = ss[t][4][2] OBVIOUS
    <3>1. g = Put(h, ss[t][4]) BY <2>3
    <3>2. g = [h EXCEPT ![PrevOf(e)] = v] BY ONLY <1>2, <3>0, <3>1 DEF Put
    <3> QED BY <3>2, PointersDiffer DEF Heaps
  <2> QED BY <2>2, <2>3
<1>5. \A u \in Tasks : u # t => Shaped(g, o, ss[u], dn[u])
  <2>1. Outside(g, h, ss[t]) BY <1>2, <1>4 DEF Outside
  <2>2. Shapely(h, o, ss, dn) BY DEF Shapely
  <2> QED BY <2>1, <2>2, StoredOthers
<1>6. Shaped(g, o, rr[t], en[t])
  <2>1. CASE rr[t] = <<>> BY <2>1 DEF Shaped
  <2>2. CASE rr[t] = ss[t] /\ en[t] = 3
    <3>1. Removing(g, o, rr[t], en[t], e, p, n) BY <1>1, <2>2 DEF Removing
    <3> QED BY <3>1 DEF Shaped
  <2> QED BY <2>1, <2>2
<1>7. \A u \in Tasks : Shaped(g, o, rr[u], en[u]) BY <1>5, <1>6
<1>8. e \notin Linked(o, ss, dn)
  <2>1. NextOf(e) \in Targets(ss[t]) BY <1>2
  <2>2. \A u \in Tasks : u # t => ~IsGoing(ss[u], dn[u], e) BY <2>1, OthersNot
  <2>3. ~IsGoing(ss[t], dn[t], e) BY <1>3
  <2> QED BY <1>1, <2>2, <2>3 DEF Linked
<1>9. Linked(o, rr, en) = Linked(o, ss, dn)
  <2>1. \A x \in Nodes : /\ ~IsNew(rr[t], x) /\ ~IsNew(ss[t], x)
                         /\ ~IsGoing(rr[t], en[t], x) /\ ~IsGoing(ss[t], dn[t], x)
    BY <1>3, NothingIs
  <2> QED BY <2>1, LinkedSame
<1>10. \A x \in Linked(o, ss, dn) : g[NextOf(x)] = h[NextOf(x)]
  BY <1>4, <1>8 DEF Linked
<1> QED BY <1>7, <1>9, <1>10 DEF Shapely, Untouched, Enters, Leaves

\* the sequences that the heap h shows
OrderOf(h, head) ==
  LET after == [x \in Nodes \cup {Wild} |-> IF x \in Nodes THEN h[NextOf(x)] ELSE Wild]
      n[i \in 1..(Cardinality(Entries) + 1)] == IF i = 1 THEN after[head] ELSE after[n[i - 1]]
      ends == {i \in DOMAIN n : n[i] = head}
  IN  IF ends = {} THEN n
                   ELSE SubSeq(n, 1, (CHOOSE i \in ends : \A j \in ends : i <= j) - 1)

\* what is read from a linked head on is its sequence
LEMMA OrderOfIs ==
  ASSUME NEW h \in Heaps, NEW S \in SUBSET Nodes, NEW L, Links(L, Nexts(h), S),
         NEW k \in Heads \cap S
  PROVE  OrderOf(h, k) = L[k]
<1> DEFINE after == [x \in Values |-> IF x \in Nodes THEN h[NextOf(x)] ELSE Wild]
           m == Cardinality(Entries) + 1
           s == L[k]
<1>1. s \in Seq(Entries) /\ Chain(s, k, Nexts(h)) /\ {k} \cup ToSet(s) \subseteq S
  BY LinksHead DEF RingOf
<1>2. after \in [Values -> Values] /\ after[k] \in Values /\ k \in Values
  BY PointersDiffer DEF Heaps, Values
<1>3. Chain(s, k, after)
  <2>1. Same(after, Nexts(h), {k} \cup ToSet(s), {})
    <3>1. \A x \in Nodes : after[x] = h[NextOf(x)] BY DEF Values
    <3> HIDE DEF after
    <3> QED BY <1>1, <3>1, NextsAre DEF Same
  <2> HIDE DEF after, s
  <2> QED BY <1>1, <2>1, ChainSame
<1>4. m \in Nat /\ Len(s) < m
  <2> HIDE DEF s
  <2>1. Cardinality(Entries) \in Nat BY ListAssumption, FS_CardinalityType
  <2>2. Len(s) <= Cardinality(Entries) BY <1>1, ListAssumption, ChainShort
  <2>3. Len(s) \in Nat BY <1>1
  <2> QED BY <2>1, <2>2, <2>3
<1> HIDE DEF after, m
<1>5. PICK p \in [1..m -> Values] : Follows(p, m, after[k], after)
  BY <1>2, <1>4, SomePath
<1>6. Path(m, after[k], after) = p BY <1>4, <1>5, PathIs
<1>7. Arrivals(p, k) # {} /\ Until(p, Arrivals(p, k)) = s
  <2> HIDE DEF s
  <2> QED BY <1>1, <1>3, <1>4, <1>5, ChainOfPath
<1> DEFINE w == Path(m, after[k], after)
<1>8. OrderOf(h, k) = IF Arrivals(w, k) = {} THEN w ELSE Until(w, Arrivals(w, k))
  BY Zenon DEF OrderOf, Path, Arrivals, Until, m, after, Values
<1> QED BY <1>6, <1>7, <1>8

\* what the next pointers show
Shows(L, h, o, ss, dn) == Links(L, Nexts(h), Linked(o, ss, dn))

OrderInv == /\ Inv /\ Shapely(heap, on, stores, done)
            /\ \E L : Shows(L, heap, on, stores, done)

\* a function in progress is about entries
LEMMA AboutEntries ==
  ASSUME NEW h, NEW o, NEW ss, NEW dn, Shapely(h, o, ss, dn), NEW k \in Heads
  PROVE  /\ k \in Linked(o, ss, dn) <=> k \in o
<1>1. ASSUME NEW t \in Tasks PROVE ~IsNew(ss[t], k) /\ ~IsGoing(ss[t], dn[t], k)
  <2>1. k \notin Entries BY ListAssumption
  <2>2. CASE ss[t] = <<>> BY <2>2, NothingIs
  <2>3. ASSUME NEW new \in Entries, NEW p \in Nodes, NEW n \in Nodes,
               Adding(h, o, ss[t], new, p, n)
        PROVE  ~IsNew(ss[t], k) /\ ~IsGoing(ss[t], dn[t], k)
    <3>1. ss[t] = __list_add(new, p, n) BY <2>3 DEF Adding
    <3> QED BY <2>1, <3>1, AddIs
  <2>4. ASSUME NEW e \in Entries, NEW p \in Nodes, NEW n \in Nodes,
               Removing(h, o, ss[t], dn[t], e, p, n)
        PROVE  ~IsNew(ss[t], k) /\ ~IsGoing(ss[t], dn[t], k)
    <3>1. Dels(ss[t], e, p, n) BY <2>4 DEF Removing
    <3> QED BY <2>1, <3>1, DelIs
  <2>5. Shaped(h, o, ss[t], dn[t]) BY DEF Shapely
  <2> QED BY <2>2, <2>3, <2>4, <2>5 DEF Shaped
<1> QED BY <1>1 DEF Linked, Nodes

\* when no function is in progress, what is on lists is linked
LEMMA QuietLinked ==
  ASSUME NEW h, NEW o \in SUBSET Nodes, NEW ss, NEW dn, \A t \in Tasks : ss[t] = <<>>
  PROVE  Linked(o, ss, dn) = o /\ Shapely(h, o, ss, dn)
<1>1. Linked(o, ss, dn) = o BY NothingIs DEF Linked
<1>2. Shapely(h, o, ss, dn) BY DEF Shapely, Shaped
<1> QED BY <1>1, <1>2

\* what a step does to the sequences
Turns(L, M) ==
  \/ M = L
  \/ \E k \in Heads, i \in Nat, e \in Entries :
       LinksInserted(L, M, k, i, e) /\ \A l \in Heads : e \notin ToSet(L[l])
  \/ \E k \in Heads, i \in Nat, e \in Entries : LinksRemoved(L, M, k, i, e)
  \/ \E N : \E k \in Heads, l \in Heads, i \in Nat, j \in Nat, e \in Entries :
       LinksRemoved(L, N, k, i, e) /\ LinksInserted(N, M, l, j, e)
  \/ \E k \in Heads, i \in Nat, e \in Entries, new \in Entries :
       LinksReplaced(L, M, k, i, e, new) /\ \A l \in Heads : new \notin ToSet(L[l])
  \/ \E k \in Heads, l \in Heads, n \in Nat : k # l /\ LinksCutAt(L, M, k, l, n)
  \/ \E k \in Heads, l \in Heads : k # l /\ LinksSpliced(L, M, k, l)

\* an entry that is not linked is in no sequence
LEMMA NotListed ==
  ASSUME NEW L, NEW f, NEW S \in SUBSET Nodes, Links(L, f, S), NEW e \in Entries, e \notin S
  PROVE  \A l \in Heads : e \notin ToSet(L[l])
BY DEF Links

\* initially every sequence is empty
LEMMA InitShows ==
  ASSUME Init
  PROVE  /\ Shapely(heap, on, stores, done)
         /\ Shows([k \in Heads |-> <<>>], heap, on, stores, done)
<1>1. /\ on = Heads /\ \A t \in Tasks : stores[t] = <<>>
      /\ heap = [p \in Pointers |-> IF p[1] \in Heads THEN p[1] ELSE Wild]
  BY DEF Init
<1>2. on \in SUBSET Nodes BY <1>1 DEF Nodes
<1>3. Linked(on, stores, done) = on /\ Shapely(heap, on, stores, done)
  BY <1>1, <1>2, QuietLinked
<1> DEFINE L == [k \in Heads |-> <<>>]
<1>4. ASSUME NEW k \in Heads PROVE Chain(L[k], k, Nexts(heap))
  <2>1. k \in Nodes /\ NextOf(k) \in Pointers BY <1>1, <1>2, PointersDiffer
  <2>2. heap[NextOf(k)] = k BY <1>1, <2>1 DEF NextOf
  <2>3. Nexts(heap)[k] = k BY <2>1, <2>2 DEF Nexts
  <2>4. L[k] = <<>> OBVIOUS
  <2> QED BY <2>3, <2>4, EmptyChain
<1>5. \A k \in Heads : L[k] = <<>> /\ ToSet(L[k]) = {} BY NoMembers
<1>6. L \in [Heads -> Seq(Entries)] OBVIOUS
<1>7. \A e \in Entries : e \notin on BY <1>1, ListAssumption
<1> HIDE DEF L
<1>8. Links(L, Nexts(heap), on) BY <1>1, <1>4, <1>5, <1>6, <1>7 DEF Links
<1> QED BY <1>3, <1>8 DEF Shows, L

\* a step takes the sequences L to such that the pointers show then
Goes(L) == /\ Shapely(heap', on', stores', done')
           /\ \E M : Shows(M, heap', on', stores', done') /\ Turns(L, M)

\* stores that no linked next pointer notices
LEMMA SameShows ==
  ASSUME NEW h \in Heaps, NEW g \in Heaps, NEW S \in SUBSET Nodes, NEW L, Links(L, Nexts(h), S),
         Untouched(g, h, S)
  PROVE  Links(L, Nexts(g), S)
<1>1. Same(Nexts(g), Nexts(h), S, {}) BY NextsAre DEF Same, Untouched
<1> QED BY <1>1, LinksSame

\* an insertion that no other function is in the way of
LEMMA AddReads ==
  ASSUME Inv, NEW new, NEW pos \in on, NEW s,
         s = list_add(heap, new, pos) \/ s = list_add_tail(heap, new, pos),
         \A u \in Tasks : Targets(stores[u]) \cap Targets(s) = {}
  PROVE  \E p, n \in on : s = __list_add(new, p, n) /\ heap[NextOf(p)] = n
<1>1. /\ heap \in Heaps /\ on \in SUBSET Nodes /\ FourEach(stores) /\ Apart(stores)
      /\ ToBe(heap, stores) \in Heaps /\ Ring(ToBe(heap, stores), on)
  BY InvGives
<1> DEFINE f == ToBe(heap, stores)
<1>2. ASSUME NEW x \in Pointers, x \in Targets(s) PROVE heap[x] = f[x]
  <2>1. \A u \in Tasks : x \notin Targets(stores[u]) BY <1>2
  <2> QED BY <1>1, <2>1, OwnReads
<1>3. /\ f[NextOf(pos)] \in on /\ f[PrevOf(pos)] \in on /\ f[NextOf(f[PrevOf(pos)])] = pos
  BY <1>1 DEF Ring
<1>4. /\ NextOf(pos) \in Pointers /\ PrevOf(pos) \in Pointers
      /\ NextOf(f[PrevOf(pos)]) \in Pointers
  BY <1>1, <1>3, PointersDiffer
<1> HIDE DEF f
<1>5. CASE s = list_add(heap, new, pos)
  <2>1. s = __list_add(new, pos, heap[NextOf(pos)]) BY <1>5 DEF list_add
  <2>2. NextOf(pos) \in Targets(s) BY <2>1, AddStores
  <2> QED BY <1>2, <1>3, <1>4, <2>1, <2>2
<1>6. CASE s = list_add_tail(heap, new, pos)
  <2>1. s = __list_add(new, heap[PrevOf(pos)], pos) BY <1>6 DEF list_add_tail
  <2>2. PrevOf(pos) \in Targets(s) /\ NextOf(heap[PrevOf(pos)]) \in Targets(s)
    BY <2>1, AddStores
  <2>3. heap[PrevOf(pos)] = f[PrevOf(pos)] BY <1>2, <1>4, <2>2
  <2>4. heap[NextOf(f[PrevOf(pos)])] = pos BY <1>2, <1>3, <1>4, <2>2, <2>3
  <2> QED BY <1>3, <2>1, <2>3, <2>4
<1> QED BY <1>5, <1>6

\* a deletion is of this form
LEMMA DelForm ==
  ASSUME NEW e, NEW s, s = list_del(heap, e) \/ s = list_del_init(heap, e)
  PROVE  Dels(s, e, heap[PrevOf(e)], heap[NextOf(e)])
BY DEF Dels, list_del, list_del_init, __list_del_entry, __list_del, INIT_LIST_HEAD

\* a deletion that no other function is in the way of
LEMMA DelReads ==
  ASSUME Inv, NEW e \in on, NEW s,
         s = list_del(heap, e) \/ s = list_del_init(heap, e),
         \A u \in Tasks : Targets(stores[u]) \cap Targets(s) = {}
  PROVE  \E p, n \in on : Dels(s, e, p, n) /\ heap[NextOf(p)] = e /\ heap[NextOf(e)] = n
<1>1. /\ heap \in Heaps /\ on \in SUBSET Nodes /\ FourEach(stores) /\ Apart(stores)
      /\ ToBe(heap, stores) \in Heaps /\ Ring(ToBe(heap, stores), on)
  BY InvGives
<1> DEFINE f == ToBe(heap, stores)
<1>2. ASSUME NEW x \in Pointers, x \in Targets(s) PROVE heap[x] = f[x]
  <2>1. \A u \in Tasks : x \notin Targets(stores[u]) BY <1>2
  <2> QED BY <1>1, <2>1, OwnReads
<1>3. f[NextOf(e)] \in on /\ f[PrevOf(e)] \in on /\ f[NextOf(f[PrevOf(e)])] = e
  BY <1>1 DEF Ring
<1>4. /\ NextOf(e) \in Pointers /\ PrevOf(e) \in Pointers /\ NextOf(f[PrevOf(e)]) \in Pointers
  BY <1>1, <1>3, PointersDiffer
<1> HIDE DEF f
<1>5. Dels(s, e, heap[PrevOf(e)], heap[NextOf(e)]) BY DelForm
<1>6. /\ NextOf(e) \in Targets(s) /\ PrevOf(e) \in Targets(s)
      /\ NextOf(heap[PrevOf(e)]) \in Targets(s)
  BY <1>5, DelStores
<1>7. heap[NextOf(e)] = f[NextOf(e)] /\ heap[PrevOf(e)] = f[PrevOf(e)]
  BY <1>2, <1>4, <1>6
<1>8. heap[NextOf(f[PrevOf(e)])] = e BY <1>2, <1>3, <1>4, <1>6, <1>7
<1> QED BY <1>3, <1>5, <1>7, <1>8

\* what a call changes, when it is not refused
LEMMA CallIs ==
  ASSUME Inv, NEW t \in Tasks, NEW s, NEW linked, Call(t, s, linked)
  PROVE  \/ UNCHANGED <<heap, on, stores, done>>
         \/ /\ \A u \in Tasks : Targets(stores[u]) \cap Targets(s) = {}
            /\ heap' = heap /\ done' = done /\ on' = linked /\ stores[t] = <<>> /\ done[t] = 0
            /\ \A u \in Tasks : stores'[u] = IF u = t THEN s ELSE stores[u]
<1>1. stores \in [Tasks -> Stores] BY InvGives DEF FourEach
<1> QED BY <1>1, InvGives DEF Call, Idle

\* a step that leaves lists and functions alone
LEMMA StillGoes ==
  ASSUME NEW L, Shapely(heap, on, stores, done), Shows(L, heap, on, stores, done),
         UNCHANGED <<heap, on, stores, done>>
  PROVE  Goes(L)
BY DEF Goes, Turns

\* A call changes nothing of what is linked; it is refused, or t is in its function then.
Calls(t) == /\ heap' = heap /\ Shapely(heap, on', stores', done')
            /\ Linked(on', stores', done') = Linked(on, stores, done)
            /\ \A u \in Tasks : u # t => stores'[u] = stores[u]

\* list_add or list_add_tail is called
LEMMA AddCalls ==
  ASSUME Inv, Shapely(heap, on, stores, done), NEW t \in Tasks, AddEntry(t)
  PROVE  \/ UNCHANGED <<heap, on, stores, done>>
         \/ /\ Calls(t)
            /\ \E new \in Entries, p, n \in Nodes :
                  Adding(heap, on', stores'[t], new, p, n)
<1>0. PICK new \in Entries \ on, pos \in on : \E s :
        /\ Call(t, s, on \cup {new})
        /\ s = list_add(heap, new, pos) \/ s = list_add_tail(heap, new, pos)
  BY DEF AddEntry
<1>1. PICK s : /\ Call(t, s, on \cup {new})
               /\ s = list_add(heap, new, pos) \/ s = list_add_tail(heap, new, pos)
  BY <1>0
<1>2. CASE UNCHANGED <<heap, on, stores, done>> BY <1>2
<1>3. CASE /\ \A u \in Tasks : Targets(stores[u]) \cap Targets(s) = {}
           /\ heap' = heap /\ done' = done /\ on' = on \cup {new}
           /\ stores[t] = <<>> /\ done[t] = 0
           /\ \A u \in Tasks : stores'[u] = IF u = t THEN s ELSE stores[u]
  <2>0. /\ Inv
        /\ s = list_add(heap, new, pos) \/ s = list_add_tail(heap, new, pos)
        /\ \A u \in Tasks : Targets(stores[u]) \cap Targets(s) = {}
    BY <1>1, <1>3
  <2>1. PICK p, n \in on : s = __list_add(new, p, n) /\ heap[NextOf(p)] = n
    BY ONLY <2>0, AddReads, pos \in on
  <2>2. on \in SUBSET Nodes BY InvGives
  <2>3. Clear(stores, s) /\ Called(stores', stores, t, s) /\ Leads(heap, p, n)
    BY <1>3, <2>1 DEF Clear, Called, Leads
  <2>4. /\ Shapely(heap, on \cup {new}, stores', done)
        /\ Linked(on \cup {new}, stores', done) = Linked(on, stores, done)
    BY <1>3, <2>1, <2>2, <2>3, AddCalled
  <2>5. Calls(t) BY <1>3, <2>4 DEF Calls
  <2>6. Adding(heap, on', stores'[t], new, p, n)
    BY <1>3, <2>1, <2>2 DEF Adding
  <2>7. p \in Nodes /\ n \in Nodes BY <2>2
  <2> QED BY <2>5, <2>6, <2>7
<1> QED BY <1>1, <1>2, <1>3, CallIs

\* a call does not change the sequences
LEMMA CallsGoes ==
  ASSUME NEW L, Shows(L, heap, on, stores, done), NEW t, Calls(t)
  PROVE  Goes(L)
BY DEF Calls, Goes, Shows, Turns

\* AddEntry
LEMMA AddGoes ==
  ASSUME Inv, NEW L, Shapely(heap, on, stores, done), Shows(L, heap, on, stores, done),
         NEW t \in Tasks, AddEntry(t)
  PROVE  Goes(L)
BY AddCalls, CallsGoes, StillGoes

\* list_del or list_del_init is called
LEMMA DeleteCalls ==
  ASSUME Inv, NEW L, Shapely(heap, on, stores, done), Shows(L, heap, on, stores, done),
         NEW t \in Tasks, DeleteEntry(t)
  PROVE  \/ UNCHANGED <<heap, on, stores, done>>
         \/ /\ Calls(t)
            /\ \E e \in Entries, p, n \in Nodes :
                  /\ Dels(stores'[t], e, p, n)
                  /\ walk[t] = NoWalk \/ (Ready(t) /\ walk[t].safe /\ walk[t].at = e)
<1>0. PICK e \in Entries \cap on : \E s :
        /\ walk[t] = NoWalk \/ (Ready(t) /\ walk[t].safe /\ walk[t].at = e)
        /\ Call(t, s, on \ {e})
        /\ s = list_del(heap, e) \/ s = list_del_init(heap, e)
  BY DEF DeleteEntry
<1>1. PICK s : /\ Call(t, s, on \ {e})
               /\ s = list_del(heap, e) \/ s = list_del_init(heap, e)
  BY <1>0
<1>2. CASE UNCHANGED <<heap, on, stores, done>> BY <1>2
<1>3. CASE /\ \A u \in Tasks : Targets(stores[u]) \cap Targets(s) = {}
           /\ heap' = heap /\ done' = done /\ on' = on \ {e}
           /\ stores[t] = <<>> /\ done[t] = 0
           /\ \A u \in Tasks : stores'[u] = IF u = t THEN s ELSE stores[u]
  <2>1. PICK p, n \in on : Dels(s, e, p, n) /\ heap[NextOf(p)] = e /\ heap[NextOf(e)] = n
    BY <1>1, <1>3, DelReads
  <2>2. heap \in Heaps /\ on \in SUBSET Nodes /\ e \in Nodes BY InvGives
  <2>3. /\ Clear(stores, s) /\ Called(stores', stores, t, s)
        /\ Leads(heap, p, e) /\ Leads(heap, e, n)
    BY <1>3, <2>1 DEF Clear, Called, Leads
  <2>4. e \in Linked(on, stores, done)
    <3>1. NextOf(e) \in Targets(s) BY <2>1, DelStores
    <3>2. \A u \in Tasks : NextOf(e) \notin Targets(stores[u]) BY <1>3, <3>1
    <3>3. \A u \in Tasks : ~IsNew(stores[u], e) BY <3>2, OwnTargets
    <3> QED BY <2>2, <3>3 DEF Linked
  <2>5. heap[NextOf(e)] # e
    <3>1. Linked(on, stores, done) \in SUBSET Nodes BY DEF Linked
    <3>2. Links(L, Nexts(heap), Linked(on, stores, done)) BY DEF Shows
    <3>3. Nexts(heap)[e] # e BY <2>4, <3>1, <3>2, LinksNode
    <3> QED BY <2>2, <3>3, NextsAre
  <2>6. p # e /\ n # e BY <2>1, <2>5
  <2>7. /\ Shapely(heap, on \ {e}, stores', done)
        /\ Linked(on \ {e}, stores', done) = Linked(on, stores, done)
    BY <1>3, <2>1, <2>2, <2>3, <2>6, DelCalled
  <2>8. Calls(t) BY <1>3, <2>7 DEF Calls
  <2>9. Dels(stores'[t], e, p, n) /\ p \in Nodes /\ n \in Nodes BY <1>3, <2>1, <2>2
  <2> QED BY <1>0, <2>8, <2>9
<1> QED BY <1>1, <1>2, <1>3, CallIs

\* DeleteEntry
LEMMA DeleteGoes ==
  ASSUME Inv, NEW L, Shapely(heap, on, stores, done), Shows(L, heap, on, stores, done),
         NEW t \in Tasks, DeleteEntry(t)
  PROVE  Goes(L)
<1>1. UNCHANGED <<heap, on, stores, done>> \/ Calls(t) BY DeleteCalls
<1> QED BY <1>1, CallsGoes, StillGoes

\* a store carries out one function, or does not show
LEMMA StoreGoes ==
  ASSUME Inv, NEW L, Shapely(heap, on, stores, done), Shows(L, heap, on, stores, done),
         NEW t \in Tasks, Store(t), Inv'
  PROVE  Goes(L)
<1> DEFINE k == done[t]
           s == stores[t]
           S == Linked(on, stores, done)
<1>1. /\ heap \in Heaps /\ on \in SUBSET Nodes /\ Apart(stores) /\ stores[t] # <<>>
      /\ Len(s) = 4 /\ k \in 0..3 /\ Made(heap, s, k) /\ heap' \in Heaps /\ on' = on
      /\ stores \in [Tasks -> Stores] /\ done \in [Tasks -> Nat]
  <2>1. heap' \in Heaps BY DEF Inv, TypeOK, Heaps, Values
  <2>2. on' = on /\ stores[t] # <<>> BY DEF Store, Idle
  <2>3. Made(heap, s, k) BY DEF Inv
  <2>4. done \in [Tasks -> Nat] BY DEF Inv, TypeOK
  <2> QED BY <2>1, <2>2, <2>3, <2>4, InvGives DEF Idle, FourEach
<1>2. Puts(heap', heap, s, k + 1) BY DEF Store, Puts, Put
<1>3. k < 3 => stores' = stores /\ done'[t] = k + 1 /\ Others(done', done, t)
  <2> SUFFICES ASSUME k < 3 PROVE stores' = stores /\ done'[t] = k + 1 /\ Others(done', done, t)
    OBVIOUS
  <2>1. k + 1 < Len(s) BY <1>1
  <2>2. stores' = stores /\ done' = [done EXCEPT ![t] = k + 1] BY <2>1 DEF Store
  <2> QED BY <1>1, <2>2 DEF Others
<1>4. k = 3 => /\ stores'[t] = <<>> /\ Others(stores', stores, t) /\ Others(done', done, t)
  <2> SUFFICES ASSUME k = 3
               PROVE  stores'[t] = <<>> /\ Others(stores', stores, t) /\ Others(done', done, t)
    OBVIOUS
  <2>1. ~(k + 1 < Len(s)) BY <1>1
  <2>2. stores' = [stores EXCEPT ![t] = <<>>] /\ done' = [done EXCEPT ![t] = 0]
    BY <2>1 DEF Store
  <2> QED BY <1>1, <2>2 DEF Others
<1> HIDE DEF k, s, S
<1>5. S \in SUBSET Nodes /\ Links(L, Nexts(heap), S) BY DEF S, Shows, Linked
<1>6. Others(stores, stores, t) BY DEF Others
<1>7. \A x \in Nodes : Nexts(heap)[x] = heap[NextOf(x)] /\ Nexts(heap')[x] = heap'[NextOf(x)]
  BY <1>1, NextsAre
<1>8. ASSUME NEW new \in Entries, NEW p \in Nodes, NEW n \in Nodes,
             Adding(heap, on, s, new, p, n)
      PROVE  Goes(L)
  <2>1. CASE k # 3
    <3>1. k \in 0..2 /\ k < 3 BY <1>1, <2>1
    <3>2. /\ Shapely(heap', on, stores, done')
          /\ Linked(on, stores, done') = S
          /\ Untouched(heap', heap, S)
      BY <1>1, <1>2, <1>3, <1>8, <3>1, AddStored DEF S, s
    <3>3. Links(L, Nexts(heap'), S) BY <1>1, <1>5, <3>2, SameShows
    <3> QED BY <1>1, <1>3, <3>1, <3>2, <3>3 DEF Goes, Shows, Turns
  <2>2. CASE k = 3
    <3>1. k + 1 = 4 BY <2>2
    <3>2. Puts(heap', heap, s, 4) /\ Made(heap, s, 3) BY <1>1, <1>2, <2>2, <3>1
    <3>3. /\ Shapely(heap', on, stores', done')
          /\ Linked(on, stores', done') = S \cup {new}
          /\ Enters(heap', heap, S, p, new)
      BY <1>1, <1>4, <1>8, <2>2, <3>2, AddDone DEF S, s
    <3>4. /\ Nexts(heap')[p] = new /\ Nexts(heap')[new] = Nexts(heap)[p]
          /\ Same(Nexts(heap'), Nexts(heap), S, {p})
      <4>1. new \in Nodes BY DEF Nodes
      <4> QED BY <1>5, <1>7, <3>3, <4>1 DEF Same, Enters
    <3>5. \E M : /\ Links(M, Nexts(heap'), S \cup {new})
                 /\ \E l \in Heads, i \in Nat : LinksInserted(L, M, l, i, new)
      <4>1. new \notin S /\ p \in S BY <3>3 DEF Enters
      <4> QED BY <1>5, <3>4, <4>1, LinksInsert
    <3>6. \A l \in Heads : new \notin ToSet(L[l]) BY <1>5, <3>3, NotListed DEF Enters
    <3> QED BY <1>1, <3>3, <3>5, <3>6 DEF Goes, Shows, Turns
  <2> QED BY <2>1, <2>2
<1>9. ASSUME NEW e \in Entries, NEW p \in Nodes, NEW n \in Nodes,
             Removing(heap, on, s, k, e, p, n)
      PROVE  Goes(L)
  <2>1. CASE k = 0
    <3>1. k + 1 = 1 /\ k < 3 BY <2>1
    <3>2. Puts(heap', heap, s, 1) /\ done'[t] = 1 BY <1>2, <1>3, <3>1
    <3>3. /\ Shapely(heap', on, stores, done')
          /\ Linked(on, stores, done') = S
          /\ Untouched(heap', heap, Nodes)
      BY <1>1, <1>3, <1>9, <2>1, <3>1, <3>2, DelStored DEF S, s, k
    <3>4. Untouched(heap', heap, S) BY <1>5, <3>3 DEF Untouched
    <3>5. Links(L, Nexts(heap'), S) BY <1>1, <1>5, <3>4, SameShows
    <3> QED BY <1>1, <1>3, <3>1, <3>3, <3>5 DEF Goes, Shows, Turns
  <2>2. CASE k = 1
    <3>1. k + 1 = 2 /\ k < 3 BY <2>2
    <3>2. Puts(heap', heap, s, 2) /\ done'[t] = 2 BY <1>2, <1>3, <3>1
    <3>3. /\ Shapely(heap', on, stores, done')
          /\ Linked(on, stores, done') = S \ {e}
          /\ Leaves(heap', heap, S, p, e)
      BY <1>1, <1>3, <1>9, <2>2, <3>1, <3>2, DelJoins DEF S, s, k
    <3>4. /\ Nexts(heap)[p] = e /\ Nexts(heap')[p] = Nexts(heap)[e]
          /\ Same(Nexts(heap'), Nexts(heap), S, {p, e})
      BY <1>5, <1>7, <3>3 DEF Same, Leaves
    <3>5. \E M : /\ Links(M, Nexts(heap'), S \ {e})
                 /\ \E l \in Heads, i \in Nat : LinksRemoved(L, M, l, i, e)
      <4>1. e \in S /\ p \in S BY <3>3 DEF Leaves
      <4> QED BY <1>5, <3>4, <4>1, LinksRemove
    <3> QED BY <1>1, <1>3, <3>1, <3>3, <3>5 DEF Goes, Shows, Turns
  <2>3. CASE k \in {2, 3}
    <3>1. PICK rr : rr = stores' OBVIOUS
    <3>2. Others(rr, stores, t) /\ Others(done', done, t)
      BY <1>3, <1>4, <1>6, <2>3, <3>1
    <3>3. rr[t] = <<>> \/ (rr[t] = s /\ done'[t] = 3)
      BY <1>3, <1>4, <2>3, <3>1 DEF s
    <3>4. /\ Shapely(heap', on, rr, done')
          /\ Linked(on, rr, done') = S
          /\ Untouched(heap', heap, S)
      BY <1>1, <1>2, <1>9, <2>3, <3>2, <3>3, DelAfter DEF S, s, k
    <3>5. Links(L, Nexts(heap'), S) BY <1>1, <1>5, <3>4, SameShows
    <3> QED BY <1>1, <3>1, <3>4, <3>5 DEF Goes, Shows, Turns
  <2> QED BY <1>1, <2>1, <2>2, <2>3
<1>10. Shaped(heap, on, s, k) BY DEF Shapely, s, k
<1> QED BY <1>1, <1>8, <1>9, <1>10 DEF Shaped, s

\* a function that a task runs with the lists to itself
LEMMA AloneGoes ==
  ASSUME Inv, Quiet, NEW L, NEW s, NEW linked \in SUBSET Nodes, Do(s, linked),
         NEW M, Links(M, Nexts(Written(heap, s)), linked), Turns(L, M)
  PROVE  Goes(L)
<1>1. \A t \in Tasks : stores'[t] = <<>> BY DEF Do, Quiet, Idle
<1>2. heap' = Written(heap, s) /\ on' = linked BY DEF Do
<1>3. Linked(on', stores', done') = on' /\ Shapely(heap', on', stores', done')
  BY <1>1, <1>2, QuietLinked
<1>4. Shows(M, heap', on', stores', done') BY <1>2, <1>3 DEF Shows
<1> QED BY <1>3, <1>4 DEF Goes

\* an insertion between p and n
LEMMA AddNexts ==
  ASSUME NEW h \in Heaps, NEW S \in SUBSET Nodes, NEW L, Links(L, Nexts(h), S),
         NEW new \in Entries, new \notin S, NEW p \in S, NEW n \in S, h[NextOf(p)] = n,
         NEW g \in Heaps, g = Written(h, __list_add(new, p, n))
  PROVE  \E M : /\ Links(M, Nexts(g), S \cup {new})
                /\ \E k \in Heads, i \in Nat : LinksInserted(L, M, k, i, new)
<1>1. /\ <<PrevOf(n), new>> \in Pairs /\ <<NextOf(new), n>> \in Pairs
      /\ <<PrevOf(new), p>> \in Pairs /\ <<NextOf(p), new>> \in Pairs
      /\ new \in Nodes
  BY PointersDiffer DEF Pairs, Values, Nodes
<1>2. g = Put(Put(Put(Put(h, <<PrevOf(n), new>>), <<NextOf(new), n>>),
                  <<PrevOf(new), p>>), <<NextOf(p), new>>)
  BY <1>1, OnlyFour DEF __list_add
<1>3. g = [h EXCEPT ![PrevOf(n)] = new, ![NextOf(new)] = n,
                    ![PrevOf(new)] = p, ![NextOf(p)] = new]
  BY <1>2 DEF Put
<1>4. \A x \in Nodes : g[NextOf(x)] = IF x = p THEN new ELSE IF x = new THEN n ELSE h[NextOf(x)]
  BY <1>1, <1>3, PointersDiffer DEF Heaps
<1>5. /\ Nexts(g)[p] = new /\ Nexts(g)[new] = Nexts(h)[p] /\ Same(Nexts(g), Nexts(h), S, {p})
  <2>1. p # new OBVIOUS
  <2> QED BY <1>1, <1>4, <2>1, NextsAre DEF Same
<1> QED BY <1>5, LinksInsert

\* the two ways to insert next to pos
LEMMA AddTurns ==
  ASSUME NEW h \in Heaps, NEW S \in SUBSET Nodes, NEW L, Links(L, Nexts(h), S), Ring(h, S),
         NEW new \in Entries, new \notin S, NEW pos \in S,
         NEW s, s = list_add(h, new, pos) \/ s = list_add_tail(h, new, pos)
  PROVE  \E M : /\ Links(M, Nexts(Written(h, s)), S \cup {new})
                /\ \E k \in Heads, i \in Nat : LinksInserted(L, M, k, i, new)
<1>1. new \in Nodes \ S BY DEF Nodes
<1>2. Written(h, s) \in Heaps BY <1>1, AddKeeps DEF Keeps
<1>3. PICK p, n \in S : h[NextOf(p)] = n /\ s = __list_add(new, p, n)
  BY DEF Ring, list_add, list_add_tail
<1> QED BY <1>2, <1>3, AddNexts

\* an insertion after the stores s
LEMMA WrittenAdd ==
  ASSUME NEW h \in Heaps, NEW s \in Stores, Written(h, s) \in Heaps,
         NEW new \in Nodes, NEW p \in Nodes, NEW n \in Nodes
  PROVE  Written(h, s \o __list_add(new, p, n)) = Written(Written(h, s), __list_add(new, p, n))
<1> DEFINE a == <<PrevOf(n), new>>
           b == <<NextOf(new), n>>
           c == <<PrevOf(new), p>>
           d == <<NextOf(p), new>>
           f == Written(h, s)
<1>1. a \in Pairs /\ b \in Pairs /\ c \in Pairs /\ d \in Pairs
  BY PointersDiffer DEF Pairs, Values
<1>2. __list_add(new, p, n) = <<a, b, c, d>> BY DEF __list_add
<1> HIDE DEF a, b, c, d
<1>3. Written(h, s \o <<a, b, c, d>>) = Put(Put(Put(Put(f, a), b), c), d)
  BY <1>1, WrittenFour
<1>4. Written(f, <<a, b, c, d>>) = Put(Put(Put(Put(f, a), b), c), d)
  BY <1>1, OnlyFour
<1> QED BY <1>2, <1>3, <1>4

\* list_move and list_move_tail
LEMMA MoveTurns ==
  ASSUME NEW h \in Heaps, NEW S \in SUBSET Nodes, NEW L, Links(L, Nexts(h), S), Ring(h, S),
         NEW e \in Entries, e \in S, NEW pos \in S, pos # e,
         NEW s, s = list_move(h, e, pos) \/ s = list_move_tail(h, e, pos)
  PROVE  \E M : Links(M, Nexts(Written(h, s)), S) /\ Turns(L, M)
<1> DEFINE del == __list_del_entry(h, e)
           f == Written(h, del)
<1>1. /\ del \in Stores /\ f \in Heaps /\ Ring(f, S \ {e})
      /\ f = [h EXCEPT ![PrevOf(h[NextOf(e)])] = h[PrevOf(e)],
                       ![NextOf(h[PrevOf(e)])] = h[NextOf(e)]]
  BY DelEntry
<1>2. /\ s = del \o list_add(f, e, pos) \/ s = del \o list_add_tail(f, e, pos)
  BY DEF list_move, list_move_tail
<1> HIDE DEF del, f
<1>3. h[PrevOf(e)] \in S /\ h[NextOf(h[PrevOf(e)])] = e BY DEF Ring
<1>4. PICK p \in S : p = h[PrevOf(e)] BY <1>3
<1>5. \A x \in Nodes : f[NextOf(x)] = IF x = p THEN h[NextOf(e)] ELSE h[NextOf(x)]
  BY <1>1, <1>4, PointersDiffer DEF Heaps
<1>6. /\ Nexts(h)[p] = e /\ Nexts(f)[p] = Nexts(h)[e] /\ Same(Nexts(f), Nexts(h), S, {p, e})
  <2>1. \A x \in Nodes : Nexts(h)[x] = h[NextOf(x)] /\ Nexts(f)[x] = f[NextOf(x)]
    BY <1>1, NextsAre
  <2>2. Same(Nexts(f), Nexts(h), S, {p, e}) BY <1>5, <2>1 DEF Same
  <2> QED BY <1>3, <1>4, <1>5, <2>1, <2>2
<1>7. PICK N : /\ Links(N, Nexts(f), S \ {e})
               /\ \E k \in Heads, i \in Nat : LinksRemoved(L, N, k, i, e)
  BY <1>6, LinksRemove
<1> DEFINE T == S \ {e}
<1>8. T \in SUBSET Nodes /\ e \notin T /\ pos \in T /\ T \cup {e} = S OBVIOUS
<1>9. Ring(f, T) /\ Links(N, Nexts(f), T) BY <1>1, <1>7
<1> HIDE DEF T
<1>10. PICK a : /\ a = list_add(f, e, pos) \/ a = list_add_tail(f, e, pos)
                /\ s = del \o a
  BY <1>2
<1>11. e \in Nodes \ T BY <1>8
<1>12. Written(h, s) = Written(f, a)
  <2>1. PICK q, n \in T : a = __list_add(e, q, n)
    BY <1>8, <1>9, <1>10 DEF Ring, list_add, list_add_tail
  <2>2. Written(h, del \o __list_add(e, q, n)) = Written(Written(h, del), __list_add(e, q, n))
    <3>1. /\ del \in Stores /\ Written(h, del) \in Heaps
          /\ e \in Nodes /\ q \in Nodes /\ n \in Nodes
      BY <1>1, <1>8, <1>11 DEF f
    <3> QED BY <3>1, WrittenAdd
  <2> QED BY <1>10, <2>1, <2>2 DEF f
<1>13. PICK M : /\ Links(M, Nexts(Written(f, a)), T \cup {e})
                /\ \E k \in Heads, i \in Nat : LinksInserted(N, M, k, i, e)
  BY <1>1, <1>8, <1>9, <1>10, AddTurns
<1>14. Turns(L, M)
  <2>1. PICK k \in Heads, i \in Nat : LinksRemoved(L, N, k, i, e) BY <1>7
  <2>2. PICK l \in Heads, j \in Nat : LinksInserted(N, M, l, j, e) BY <1>13
  <2> QED BY <2>1, <2>2 DEF Turns
<1> QED BY <1>8, <1>12, <1>13, <1>14

\* list_replace and list_replace_init
LEMMA ReplaceTurns ==
  ASSUME NEW h \in Heaps, NEW S \in SUBSET Nodes, NEW L, Links(L, Nexts(h), S), Ring(h, S),
         NEW e \in Entries, e \in S, NEW new \in Entries, new \notin S,
         NEW s, s = list_replace(h, e, new) \/ s = list_replace_init(h, e, new)
  PROVE  \E M : Links(M, Nexts(Written(h, s)), (S \ {e}) \cup {new}) /\ Turns(L, M)
<1>1. new \in Nodes \ S BY DEF Nodes
<1>2. Nexts(h)[e] # e BY LinksNode
<1>3. h[NextOf(e)] # e BY <1>2, NextsAre
<1> DEFINE g == Written(h, s)
<1>4. /\ Keeps(h, list_replace(h, e, new), (S \ {e}) \cup {new})
      /\ Keeps(h, list_replace_init(h, e, new), (S \ {e}) \cup {new})
      /\ Swaps(h, Written(h, list_replace(h, e, new)), e, new)
      /\ Swaps(h, Written(h, list_replace_init(h, e, new)), e, new)
  BY <1>1, <1>3, ReplaceKeeps
<1>5. h[PrevOf(e)] \in S /\ h[NextOf(h[PrevOf(e)])] = e BY DEF Ring
<1>6. PICK p \in S : p = h[PrevOf(e)] /\ p # e BY <1>3, <1>5
<1>7. /\ g \in Heaps
      /\ \A x \in Nodes \ {e} : g[NextOf(x)] = IF x = p THEN new
           ELSE IF x = new THEN h[NextOf(e)] ELSE h[NextOf(x)]
  BY <1>4, <1>6 DEF Keeps, Swaps
<1> HIDE DEF g
<1>8. /\ Nexts(h)[p] = e /\ Nexts(g)[p] = new /\ Nexts(g)[new] = Nexts(h)[e]
      /\ Same(Nexts(g), Nexts(h), S, {p, e})
  <2>1. p # new /\ new # e BY <1>1
  <2> QED BY <1>1, <1>5, <1>6, <1>7, <2>1, NextsAre DEF Same
<1>9. PICK M : /\ Links(M, Nexts(g), (S \ {e}) \cup {new})
               /\ \E k \in Heads, i \in Nat : LinksReplaced(L, M, k, i, e, new)
  BY <1>8, LinksReplace
<1>10. \A l \in Heads : new \notin ToSet(L[l]) BY NotListed
<1> QED BY <1>9, <1>10 DEF Turns, g

\* list_rotate_left
LEMMA RotateTurns ==
  ASSUME NEW h \in Heaps, NEW S \in SUBSET Nodes, NEW L, Links(L, Nexts(h), S), Ring(h, S),
         NEW head \in Heads, head \in S, NEW s, s = list_rotate_left(h, head)
  PROVE  \E M : Links(M, Nexts(Written(h, s)), S) /\ Turns(L, M)
<1>1. CASE list_empty(h, head)
  <2>1. Written(h, s) = h BY <1>1, WrittenNothing DEF list_rotate_left
  <2> QED BY <2>1 DEF Turns
<1>2. CASE ~list_empty(h, head)
  <2>1. PICK e : e = h[NextOf(head)] OBVIOUS
  <2>2. s = list_move_tail(h, e, head) BY <1>2, <2>1 DEF list_rotate_left
  <2>3. e # head BY <1>2, <2>1 DEF list_empty
  <2>4. Nexts(h)[head] = e BY <2>1, NextsAre
  <2>5. /\ L[head] \in Seq(Entries) /\ Chain(L[head], head, Nexts(h))
        /\ ToSet(L[head]) \subseteq Entries \cap S
    BY LinksHead
  <2>6. Nexts(h)[head] \in {head} \cup ToSet(L[head]) BY <2>5, PlaceOf
  <2>7. e \in Entries /\ e \in S BY <2>3, <2>4, <2>5, <2>6
  <2> QED BY <2>2, <2>3, <2>7, MoveTurns
<1> QED BY <1>1, <1>2

\* list_cut_position
LEMMA CutTurns ==
  ASSUME NEW h \in Heaps, NEW S \in SUBSET Nodes, NEW L, Links(L, Nexts(h), S), Ring(h, S),
         NEW k \in Heads, k \in S, NEW l \in Heads, l \in S, k # l, list_empty(h, l),
         NEW e, e = k \/ e \in ToSet(L[k]),
         NEW s, s = list_cut_position(h, l, k, e)
  PROVE  \E M : Links(M, Nexts(Written(h, s)), S) /\ Turns(L, M)
<1>1. ToSet(L[k]) \subseteq Entries \cap S /\ l \notin Entries BY LinksHead
<1>2. e \in S \ {l} /\ k \in S \ {l} BY <1>1
<1>3. /\ Keeps(h, s, S)
      /\ Written(h, INIT_LIST_HEAD(l)) \in Heaps
      /\ Resets(h, Written(h, INIT_LIST_HEAD(l)), l)
      /\ e # k /\ ~list_empty(h, k)
           => Cuts(h, Written(h, __list_cut_position(h, l, k, e)), l, k, e)
  BY <1>2, CutKeeps
<1>4. CASE s = <<>>
  <2>1. Written(h, s) = h BY <1>4, WrittenNothing
  <2> QED BY <2>1 DEF Turns
<1>5. CASE s = INIT_LIST_HEAD(l)
  <2> DEFINE g == Written(h, s)
  <2>1. g \in Heaps /\ Resets(h, g, l) BY <1>3, <1>5
  <2> HIDE DEF g
  <2>2. Untouched(g, h, S) BY <2>1 DEF Resets, Untouched, list_empty
  <2>3. Links(L, Nexts(g), S) BY <2>1, <2>2, SameShows
  <2> QED BY <2>3 DEF Turns, g
<1>6. CASE s = __list_cut_position(h, l, k, e) /\ e # k /\ ~list_empty(h, k)
  <2> DEFINE g == Written(h, s)
  <2>1. g \in Heaps /\ Cuts(h, g, l, k, e) /\ e \in ToSet(L[k]) BY <1>3, <1>6 DEF Keeps
  <2> HIDE DEF g
  <2>2. \A x \in Nodes : Nexts(h)[x] = h[NextOf(x)] /\ Nexts(g)[x] = g[NextOf(x)]
    BY <2>1, NextsAre
  <2>3. /\ Nexts(h)[l] = l /\ Nexts(g)[l] = Nexts(h)[k] /\ Nexts(g)[e] = l
        /\ Nexts(g)[k] = Nexts(h)[e]
    BY <1>2, <1>6, <2>1, <2>2 DEF Cuts, list_empty
  <2>4. Same(Nexts(g), Nexts(h), S, {k, e, l}) BY <2>1, <2>2 DEF Cuts, Same
  <2>5. PICK M : /\ Links(M, Nexts(g), S)
                 /\ \E n \in Nat : LinksCutAt(L, M, k, l, n)
    BY <2>1, <2>3, <2>4, LinksCut
  <2> QED BY <2>5 DEF Turns, g
<1> QED BY <1>4, <1>5, <1>6 DEF list_cut_position

\* the splices; T are the nodes that are linked then
LEMMA SplicedTurns ==
  ASSUME NEW h \in Heaps, NEW S \in SUBSET Nodes, NEW L, Links(L, Nexts(h), S), Ring(h, S),
         NEW k \in Heads, k \in S, NEW l \in Heads, l \in S, k # l, ~list_empty(h, l),
         NEW g \in Heaps, NEW b, NEW p \in S, NEW n \in S, h[NextOf(p)] = n, p = k \/ n = k,
         k # h[PrevOf(l)], k # h[NextOf(l)], Splices(h, b, l, p, n),
         NEW T \in SUBSET Nodes,
         (g = b /\ T = S \ {l}) \/ (Resets(b, g, l) /\ T = S)
  PROVE  \E M : Links(M, Nexts(g), T) /\ Turns(L, M)
<1>1. PICK last \in S : /\ last = h[PrevOf(l)] /\ h[NextOf(last)] = l
  BY DEF Ring
<1>2. \A x \in Nodes : Nexts(h)[x] = h[NextOf(x)] /\ Nexts(g)[x] = g[NextOf(x)]
  BY NextsAre
<1>3. \A x \in Nodes \ {l} : g[NextOf(x)] = b[NextOf(x)] BY DEF Resets
<1>4. h[NextOf(l)] # l BY DEF list_empty
<1>5. p # last /\ last # k /\ p # l /\ last # l
  <2>1. ASSUME p = last PROVE FALSE
    <3>1. n = l /\ p # k BY <1>1, <2>1
    <3> QED BY <3>1
  <2>2. ASSUME p = l PROVE FALSE
    <3>1. n = k /\ h[NextOf(l)] = k BY <2>2
    <3> QED BY <2>2, <3>1
  <2> QED BY <1>1, <1>4, <2>1, <2>2
<1>6. /\ Nexts(h)[l] # l /\ Nexts(h)[last] = l
      /\ Nexts(g)[p] = Nexts(h)[l] /\ (p = k \/ Nexts(h)[p] = k)
      /\ Nexts(g)[last] = (IF p = k THEN Nexts(h)[k] ELSE k)
      /\ Same(Nexts(g), Nexts(h), S, {p, last, l})
  BY <1>1, <1>2, <1>3, <1>4, <1>5 DEF Splices, Same
<1>7. (\A x \in Nodes \ {l} : x \in T <=> x \in S) /\ (l \in T => Nexts(g)[l] = l)
  BY <1>2 DEF Resets
<1>8. PICK M : Links(M, Nexts(g), T) /\ LinksSpliced(L, M, k, l)
  BY <1>6, <1>7, LinksSplice
<1> QED BY <1>8 DEF Turns

\* list_splice, list_splice_tail and their _init forms
LEMMA SpliceTurns ==
  ASSUME NEW h \in Heaps, NEW S \in SUBSET Nodes, NEW L, Links(L, Nexts(h), S), Ring(h, S),
         NEW k \in Heads, k \in S, NEW l \in Heads, l \in S, k # l,
         k # h[NextOf(l)], k # h[PrevOf(l)], NEW s, NEW T,
         \/ (s = list_splice(h, l, k) \/ s = list_splice_tail(h, l, k))
              /\ T = (IF list_empty(h, l) THEN S ELSE S \ {l})
         \/ (s = list_splice_init(h, l, k) \/ s = list_splice_tail_init(h, l, k)) /\ T = S
  PROVE  \E M : Links(M, Nexts(Written(h, s)), T) /\ Turns(L, M)
<1>1. CASE list_empty(h, l)
  <2>1. s = <<>> /\ T = S
    BY <1>1 DEF list_splice, list_splice_tail, list_splice_init, list_splice_tail_init
  <2>2. Written(h, s) = h BY <2>1, WrittenNothing
  <2> QED BY <2>1, <2>2 DEF Turns
<1>2. CASE ~list_empty(h, l)
  <2>1. PICK p \in S, n \in S : p = h[PrevOf(k)] /\ h[NextOf(p)] = k /\ n = h[NextOf(k)]
    BY DEF Ring
  <2>2. /\ Keeps(h, list_splice(h, l, k), S \ {l})
        /\ Keeps(h, list_splice_tail(h, l, k), S \ {l})
        /\ Keeps(h, list_splice_init(h, l, k), S)
        /\ Keeps(h, list_splice_tail_init(h, l, k), S)
        /\ Splices(h, Written(h, list_splice(h, l, k)), l, k, n)
        /\ Splices(h, Written(h, list_splice_tail(h, l, k)), l, p, k)
        /\ Resets(Written(h, list_splice(h, l, k)), Written(h, list_splice_init(h, l, k)), l)
        /\ Resets(Written(h, list_splice_tail(h, l, k)),
                  Written(h, list_splice_tail_init(h, l, k)), l)
    <3>1. k \in S \ {l} OBVIOUS
    <3> QED BY <1>2, <2>1, <3>1, SpliceKeeps
  <2>3. /\ Written(h, list_splice(h, l, k)) \in Heaps
        /\ Written(h, list_splice_tail(h, l, k)) \in Heaps
        /\ Written(h, list_splice_init(h, l, k)) \in Heaps
        /\ Written(h, list_splice_tail_init(h, l, k)) \in Heaps
    BY <2>2 DEF Keeps
  <2>4. S \ {l} \in SUBSET Nodes OBVIOUS
  <2>5. CASE s = list_splice(h, l, k) /\ T = S \ {l}
    BY <1>2, <2>1, <2>2, <2>3, <2>4, <2>5, SplicedTurns
  <2>6. CASE s = list_splice_tail(h, l, k) /\ T = S \ {l}
    BY <1>2, <2>1, <2>2, <2>3, <2>4, <2>6, SplicedTurns
  <2>7. CASE s = list_splice_init(h, l, k) /\ T = S
    BY <1>2, <2>1, <2>2, <2>3, <2>4, <2>7, SplicedTurns
  <2>8. CASE s = list_splice_tail_init(h, l, k) /\ T = S
    BY <1>2, <2>1, <2>2, <2>3, <2>4, <2>8, SplicedTurns
  <2> QED BY <1>2, <2>5, <2>6, <2>7, <2>8
<1> QED BY <1>1, <1>2

\* INIT_LIST_HEAD
LEMMA InitTurns ==
  ASSUME NEW h \in Heaps, NEW S \in SUBSET Nodes, NEW L, Links(L, Nexts(h), S), Ring(h, S),
         NEW l \in Heads, l \notin S
  PROVE  Links(L, Nexts(Written(h, INIT_LIST_HEAD(l))), S \cup {l})
<1> DEFINE g == Written(h, INIT_LIST_HEAD(l))
<1>1. l \in Nodes \ S BY DEF Nodes
<1> HIDE DEF g
<1>2. g \in Heaps /\ Resets(h, g, l)
  <2>1. Keeps(h, INIT_LIST_HEAD(l), S \cup {l}) /\ Resets(h, Written(h, INIT_LIST_HEAD(l)), l)
    BY <1>1, InitKeeps
  <2> QED BY <2>1 DEF Keeps, g
<1>3. Nexts(g)[l] = l /\ Same(Nexts(g), Nexts(h), S, {})
  BY <1>1, <1>2, NextsAre DEF Same, Resets
<1>4. Links(L, Nexts(g), S \cup {l}) BY <1>3, LinksInit
<1> QED BY <1>4 DEF g

\* what a task that has the lists to itself finds
LEMMA QuietShows ==
  ASSUME Inv, Quiet, NEW L, Shows(L, heap, on, stores, done)
  PROVE  heap \in Heaps /\ on \in SUBSET Nodes /\ Ring(heap, on) /\ Links(L, Nexts(heap), on)
<1>1. \A t \in Tasks : stores[t] = <<>> BY DEF Quiet, Idle
<1>2. heap \in Heaps /\ on \in SUBSET Nodes /\ Ring(ToBe(heap, stores), on) BY InvGives
<1>3. Ring(heap, on) BY <1>1, <1>2, QuietToBe
<1>4. Linked(on, stores, done) = on BY <1>1, <1>2, QuietLinked
<1> QED BY <1>2, <1>3, <1>4 DEF Shows

\* the functions that run whole
LEMMA AloneTurns ==
  ASSUME Inv, Quiet, NEW L, Shows(L, heap, on, stores, done), Alone
  PROVE  Goes(L)
<1>1. heap \in Heaps /\ on \in SUBSET Nodes /\ Ring(heap, on) /\ Links(L, Nexts(heap), on)
  BY QuietShows
<1>2. ASSUME NEW s, NEW linked \in SUBSET Nodes, Do(s, linked),
             \E M : Links(M, Nexts(Written(heap, s)), linked) /\ Turns(L, M)
      PROVE  Goes(L)
  BY <1>2, AloneGoes
<1>3. CASE MoveEntry
  <2>0. PICK e \in Entries \cap on : \E pos \in on \ {e} :
          \E s : Do(s, on) /\ (s = list_move(heap, e, pos) \/ s = list_move_tail(heap, e, pos))
    BY <1>3 DEF MoveEntry
  <2>1. PICK pos \in on \ {e} :
          \E s : Do(s, on) /\ (s = list_move(heap, e, pos) \/ s = list_move_tail(heap, e, pos))
    BY <2>0
  <2>2. PICK s : Do(s, on) /\ (s = list_move(heap, e, pos) \/ s = list_move_tail(heap, e, pos))
    BY <2>1
  <2>3. \E M : Links(M, Nexts(Written(heap, s)), on) /\ Turns(L, M)
    BY <1>1, <2>2, MoveTurns
  <2> QED BY <1>1, <1>2, <2>2, <2>3
<1>4. CASE ReplaceEntry
  <2>1. PICK e \in Entries \cap on, new \in Entries \ on :
          \E s : /\ Do(s, (on \ {e}) \cup {new})
                 /\ s = list_replace(heap, e, new) \/ s = list_replace_init(heap, e, new)
    BY <1>4 DEF ReplaceEntry
  <2>2. PICK s : /\ Do(s, (on \ {e}) \cup {new})
                 /\ s = list_replace(heap, e, new) \/ s = list_replace_init(heap, e, new)
    BY <2>1
  <2>3. \E M : Links(M, Nexts(Written(heap, s)), (on \ {e}) \cup {new}) /\ Turns(L, M)
    BY <1>1, <2>2, ReplaceTurns
  <2>4. (on \ {e}) \cup {new} \in SUBSET Nodes BY <1>1 DEF Nodes
  <2> QED BY <1>2, <2>2, <2>3, <2>4
<1>5. CASE Rotate
  <2>1. PICK k \in Heads \cap on : Do(list_rotate_left(heap, k), on) BY <1>5 DEF Rotate
  <2>2. \E M : Links(M, Nexts(Written(heap, list_rotate_left(heap, k))), on) /\ Turns(L, M)
    BY <1>1, RotateTurns
  <2> QED BY <1>1, <1>2, <2>1, <2>2
<1>6. CASE CutList
  <2>1. PICK k, l \in Heads \cap on : /\ k # l /\ list_empty(heap, l)
          /\ \E e : /\ e = k \/ e \in ToSet(Order(k))
                    /\ Do(list_cut_position(heap, l, k, e), on)
    BY <1>6 DEF CutList
  <2>2. PICK e : (e = k \/ e \in ToSet(Order(k))) /\ Do(list_cut_position(heap, l, k, e), on)
    BY <2>1
  <2>3. Order(k) = L[k]
    <3>1. OrderOf(heap, k) = L[k] BY <1>1, OrderOfIs
    <3> QED BY <3>1 DEF Order, OrderOf
  <2>4. e = k \/ e \in ToSet(L[k]) BY <2>2, <2>3
  <2>5. \E M : Links(M, Nexts(Written(heap, list_cut_position(heap, l, k, e))), on) /\ Turns(L, M)
    BY <1>1, <2>1, <2>4, CutTurns
  <2> QED BY <1>1, <1>2, <2>2, <2>5
<1>7. CASE SpliceList
  <2>1. PICK k, l \in Heads \cap on :
          /\ k # l /\ k # heap[NextOf(l)] /\ k # heap[PrevOf(l)]
          /\ \E s, T : /\ Do(s, T)
                       /\ \/ /\ s = list_splice(heap, l, k) \/ s = list_splice_tail(heap, l, k)
                             /\ T = (IF list_empty(heap, l) THEN on ELSE on \ {l})
                          \/ /\ \/ s = list_splice_init(heap, l, k)
                                \/ s = list_splice_tail_init(heap, l, k)
                             /\ T = on
    BY <1>7 DEF SpliceList, Spliced
  <2>2. PICK s, T : /\ Do(s, T)
                    /\ \/ /\ s = list_splice(heap, l, k) \/ s = list_splice_tail(heap, l, k)
                          /\ T = (IF list_empty(heap, l) THEN on ELSE on \ {l})
                       \/ /\ \/ s = list_splice_init(heap, l, k)
                             \/ s = list_splice_tail_init(heap, l, k)
                          /\ T = on
    BY <2>1
  <2>3. \E M : Links(M, Nexts(Written(heap, s)), T) /\ Turns(L, M)
    BY <1>1, <2>1, <2>2, SpliceTurns
  <2>4. T \in SUBSET Nodes BY <1>1, <2>2
  <2> QED BY <1>2, <2>2, <2>3, <2>4
<1>8. CASE InitList
  <2>1. PICK l \in Heads \ on : Do(INIT_LIST_HEAD(l), on \cup {l}) BY <1>8 DEF InitList
  <2>2. Links(L, Nexts(Written(heap, INIT_LIST_HEAD(l))), on \cup {l}) BY <1>1, InitTurns
  <2>3. on \cup {l} \in SUBSET Nodes BY <1>1 DEF Nodes
  <2>4. Turns(L, L) BY DEF Turns
  <2> QED BY <1>2, <2>1, <2>2, <2>3, <2>4
<1> QED BY <1>3, <1>4, <1>5, <1>6, <1>7, <1>8 DEF Alone

\* every step
LEMMA NextGoes ==
  ASSUME Inv, NEW L, Shapely(heap, on, stores, done), Shows(L, heap, on, stores, done),
         [Next]_vars
  PROVE  Goes(L)
<1>1. Inv' BY NextInv
<1>2. ASSUME UNCHANGED <<heap, on, stores, done>> PROVE Goes(L) BY <1>2, StillGoes
<1>3. ASSUME NEW t \in Tasks, TaskStep(t) PROVE Goes(L)
  <2>1. CASE AddEntry(t) BY <2>1, AddGoes
  <2>2. CASE DeleteEntry(t) BY <2>2, DeleteGoes
  <2>3. CASE Store(t) BY <1>1, <2>3, StoreGoes
  <2>4. CASE ReadAhead(t) BY <1>2, <2>4 DEF ReadAhead
  <2>5. CASE Advance(t) BY <1>2, <2>5 DEF Advance
  <2>6. CASE EndWalk(t) BY <1>2, <2>6 DEF EndWalk
  <2>7. CASE \E h \in Heads \cap on, dir \in {"next", "prev"}, safe \in BOOLEAN :
               StartWalk(t, h, dir, safe)
    BY <1>2, <2>7 DEF StartWalk
  <2> QED BY <1>3, <2>1, <2>2, <2>3, <2>4, <2>5, <2>6, <2>7 DEF TaskStep
<1>4. CASE Quiet /\ Alone BY <1>4, AloneTurns
<1>5. CASE UNCHANGED vars BY <1>2, <1>5 DEF vars
<1> QED BY <1>3, <1>4, <1>5 DEF Next

\* At every moment, also between two stores, there are sequences of entries that the next
\* pointers run through from each head and back: an entry is in one of them from the last
\* store of its insertion to the second store of its deletion (list.h:57-129).
THEOREM OrderHolds == Spec => []OrderInv
<1>1. Init => OrderInv
  <2>1. Init => Inv BY InitInv
  <2> QED BY <2>1, InitShows DEF OrderInv
<1>2. OrderInv /\ [Next]_vars => OrderInv'
  <2> SUFFICES ASSUME OrderInv, [Next]_vars PROVE OrderInv'
    OBVIOUS
  <2>1. Inv' BY NextInv DEF OrderInv
  <2>2. PICK L : Shows(L, heap, on, stores, done) BY DEF OrderInv
  <2>3. Goes(L) BY <2>2, NextGoes DEF OrderInv
  <2> QED BY <2>1, <2>3 DEF OrderInv, Goes
<1> QED BY <1>1, <1>2, PTL DEF Spec

-----------------------------------------------------------------------------
(* The refinement.                                                         *)

\* the sequences that the heap shows at the moment
Now == [h \in Heads |-> IF h \in on THEN Order(h) ELSE <<>>]

\* the heads whose sequences are read are the linked ones
LEMMA OrdersAre ==
  ASSUME NEW L, NEW h \in Heaps, NEW o, NEW ss, NEW dn, Shapely(h, o, ss, dn),
         Shows(L, h, o, ss, dn)
  PROVE  /\ L \in [Heads -> Seq(Entries)]
         /\ L = [k \in Heads |-> IF k \in o THEN OrderOf(h, k) ELSE <<>>]
<1> DEFINE S == Linked(o, ss, dn)
<1>1. S \in SUBSET Nodes /\ Links(L, Nexts(h), S) BY DEF Shows, Linked
<1>2. \A k \in Heads : k \in S <=> k \in o BY AboutEntries
<1> HIDE DEF S
<1>3. ASSUME NEW k \in Heads PROVE L[k] = IF k \in o THEN OrderOf(h, k) ELSE <<>>
  <2>1. k \in S => OrderOf(h, k) = L[k] BY <1>1, OrderOfIs
  <2>2. k \notin S => L[k] = <<>> BY <1>1 DEF Links
  <2> QED BY <1>2, <2>1, <2>2
<1>4. L \in [Heads -> Seq(Entries)] BY <1>1 DEF Links
<1> QED BY <1>3, <1>4

\* what the refinement reads off a state are the sequences shown ...
LEMMA NowIs ==
  ASSUME OrderInv
  PROVE  Now \in [Heads -> Seq(Entries)] /\ Shows(Now, heap, on, stores, done)
<1>1. PICK L : Shows(L, heap, on, stores, done) BY DEF OrderInv
<1>2. heap \in Heaps /\ Shapely(heap, on, stores, done) BY InvGives DEF OrderInv
<1>3. /\ L \in [Heads -> Seq(Entries)]
      /\ L = [k \in Heads |-> IF k \in on THEN OrderOf(heap, k) ELSE <<>>]
  BY <1>1, <1>2, OrdersAre
<1>4. \A k \in Heads : Order(k) = OrderOf(heap, k) BY DEF Order, OrderOf
<1>5. Now = L BY <1>3, <1>4 DEF Now
<1> QED BY <1>1, <1>3, <1>5

\* ... and so it is in the next state
LEMMA NowThen ==
  ASSUME NEW M, heap' \in Heaps, Shapely(heap', on', stores', done'),
         Shows(M, heap', on', stores', done')
  PROVE  Now' = M
<1>1. M = [k \in Heads |-> IF k \in on' THEN OrderOf(heap', k) ELSE <<>>] BY OrdersAre
<1>2. \A k \in Heads : Order(k)' = OrderOf(heap', k) BY DEF Order, OrderOf
<1> QED BY <1>1, <1>2 DEF Now

\* every change is an operation on sequences
LEMMA TurnsNext ==
  ASSUME Now \in [Heads -> Seq(Entries)], Turns(Now, Now')
  PROVE  Now' = Now \/ Sequences!Next
<1>0. ASSUME NEW k \in Heads PROVE Now[k] \in Seq(Entries) /\ Len(Now[k]) \in Nat
  BY <1>0
<1>1. ASSUME NEW e, \A l \in Heads : e \notin ToSet(Now[l])
      PROVE  e \notin Sequences!Listed
  BY <1>1 DEF Sequences!Listed, Sequences!ToSet, ToSet, Now
<1>2. ASSUME NEW k \in Heads, NEW i \in Nat, NEW e \in Entries,
             LinksInserted(Now, Now', k, i, e), \A l \in Heads : e \notin ToSet(Now[l])
      PROVE  Sequences!Next
  <2>1. e \notin Sequences!Listed BY <1>1, <1>2
  <2>2. i \in 1..(Len(Now[k]) + 1) /\ Now' = [Now EXCEPT ![k] = InsertAt(@, i, e)]
    BY <1>2 DEF LinksInserted
  <2>3. Sequences!Insert(k, i, e)
    BY <2>1, <2>2 DEF Sequences!Insert, Sequences!InsertAt, InsertAt, Now
  <2> QED BY <2>2, <2>3 DEF Sequences!Next, Now
<1>3. ASSUME NEW k \in Heads, NEW i \in Nat, NEW e \in Entries,
             LinksRemoved(Now, Now', k, i, e)
      PROVE  Sequences!Next
  <2>1. i \in DOMAIN Now[k] /\ Now' = [Now EXCEPT ![k] = RemoveAt(@, i)]
    BY <1>3 DEF LinksRemoved
  <2>2. Sequences!Delete(k, i)
    BY <2>1 DEF Sequences!Delete, Sequences!RemoveAt, RemoveAt, Now
  <2> QED BY <2>1, <2>2 DEF Sequences!Next, Now
<1>4. ASSUME NEW k \in Heads, NEW l \in Heads, NEW i \in Nat, NEW j \in Nat, NEW e \in Entries,
             NEW N, LinksRemoved(Now, N, k, i, e), LinksInserted(N, Now', l, j, e)
      PROVE  Sequences!Next
  <2>1. /\ i \in DOMAIN Now[k] /\ Now[k][i] = e /\ N = [Now EXCEPT ![k] = RemoveAt(@, i)]
        /\ j \in 1..(Len(N[l]) + 1) /\ Now' = [N EXCEPT ![l] = InsertAt(@, j, e)]
    BY <1>4 DEF LinksRemoved, LinksInserted
  <2>2. Sequences!Move(k, i, l, j)
    BY <2>1 DEF Sequences!Move, Sequences!RemoveAt, RemoveAt, Sequences!InsertAt, InsertAt, Now
  <2>3. Len(N[l]) \in Nat /\ Len(N[l]) <= Len(Now[l])
    <3>1. CASE l # k BY <1>0, <2>1, <3>1
    <3>2. CASE l = k
      <4>1. N[l] = RemoveAt(Now[k], i) BY <2>1, <3>2
      <4>2. Now[k] \in Seq(Entries) /\ i \in 1..Len(Now[k]) BY <1>0, <2>1
      <4>3. Len(RemoveAt(Now[k], i)) = Len(Now[k]) - 1
        <5>1. Removed(RemoveAt(Now[k], i), Now[k], i) BY <4>2, RemoveAtIs
        <5> QED BY <5>1 DEF Removed
      <4> QED BY <1>0, <3>2, <4>1, <4>2, <4>3
    <3> QED BY <3>1, <3>2
  <2>4. j \in 1..(Len(Now[l]) + 1) BY <1>0, <2>1, <2>3
  <2> QED BY <2>1, <2>2, <2>4 DEF Sequences!Next, Now
<1>5. ASSUME NEW k \in Heads, NEW i \in Nat, NEW e \in Entries, NEW new \in Entries,
             LinksReplaced(Now, Now', k, i, e, new), \A l \in Heads : new \notin ToSet(Now[l])
      PROVE  Sequences!Next
  <2>1. new \notin Sequences!Listed BY <1>1, <1>5
  <2>2. i \in DOMAIN Now[k] /\ Now' = [Now EXCEPT ![k][i] = new] BY <1>5 DEF LinksReplaced
  <2>3. Sequences!Replace(k, i, new) BY <2>1, <2>2 DEF Sequences!Replace, Now
  <2> QED BY <2>2, <2>3 DEF Sequences!Next, Now
<1>6. ASSUME NEW k \in Heads, NEW l \in Heads, NEW n \in Nat, k # l,
             LinksCutAt(Now, Now', k, l, n)
      PROVE  Sequences!Next
  <2>1. Sequences!Cut(k, l, n) /\ n \in DOMAIN Now[k]
    BY <1>6 DEF LinksCutAt, Sequences!Cut, Now
  <2> QED BY <1>6, <2>1 DEF Sequences!Next, Now
<1>7. ASSUME NEW k \in Heads, NEW l \in Heads, k # l, LinksSpliced(Now, Now', k, l)
      PROVE  Sequences!Next
  <2>1. Sequences!Splice(k, l) BY <1>7 DEF LinksSpliced, Sequences!Splice, Now
  <2> QED BY <1>7, <2>1 DEF Sequences!Next, Now
<1> HIDE DEF Now
<1> QED BY <1>2, <1>3, <1>4, <1>5, <1>6, <1>7 DEF Turns

\* Each store, of whatever task, does to the sequences what one function of list.h promises,
\* at once, or nothing (list.h:44-362).
THEOREM ListsAreSequences == Spec => Implements
<1>1. Init => Sequences!Init
  <2> SUFFICES ASSUME Init PROVE Sequences!Init OBVIOUS
  <2>1. OrderInv BY InitInv, InitShows DEF OrderInv
  <2>2. PICK L : L = [k \in Heads |-> <<>>] OBVIOUS
  <2>3. heap \in Heaps BY <2>1, InvGives DEF OrderInv
  <2>4. /\ Shapely(heap, on, stores, done) /\ Shows(L, heap, on, stores, done)
    BY <2>2, InitShows
  <2>5. L = [k \in Heads |-> IF k \in on THEN OrderOf(heap, k) ELSE <<>>]
    BY <2>3, <2>4, OrdersAre
  <2>6. \A k \in Heads : Order(k) = OrderOf(heap, k) BY DEF Order, OrderOf
  <2>7. Now = [k \in Heads |-> <<>>] BY <2>2, <2>5, <2>6 DEF Now
  <2> QED BY <2>7 DEF Sequences!Init, Now
<1>2. OrderInv /\ [Next]_vars => [Sequences!Next]_Now
  <2> SUFFICES ASSUME OrderInv, [Next]_vars PROVE [Sequences!Next]_Now OBVIOUS
  <2>1. Now \in [Heads -> Seq(Entries)] /\ Shows(Now, heap, on, stores, done) BY NowIs
  <2>2. Goes(Now) BY <2>1, NextGoes DEF OrderInv
  <2>3. PICK M : Shows(M, heap', on', stores', done') /\ Turns(Now, M) BY <2>2 DEF Goes
  <2>4. Inv' BY NextInv DEF OrderInv
  <2>5. heap' \in Heaps BY <2>4 DEF Inv, TypeOK, Heaps, Values
  <2>6. Now' = M BY <2>2, <2>3, <2>5, NowThen DEF Goes
  <2>7. Turns(Now, Now') BY <2>3, <2>6
  <2>8. Now' = Now \/ Sequences!Next BY <2>1, <2>7, TurnsNext
  <2> QED BY <2>8
<1>3. Sequences!Init /\ [][Sequences!Next]_Now => Implements
  BY DEF Implements, Sequences!Spec, Now
<1> QED BY <1>1, <1>2, <1>3, OrderHolds, PTL DEF Spec

-----------------------------------------------------------------------------
(* Loops.                                                                  *)

\* the stores s take an entry off its list
Deletes(s) == \E i \in DOMAIN s : s[i][2] \in {Wild, s[i][1][1]}

\* what the tasks next to u's loop w may do
Suits(w, u, ss) ==
  \A v \in Tasks \ {u} : ~Deletes(ss[v]) /\ (w.dir = "prev" => ss[v] = <<>>)

\* the loop w itself is between two functions, or takes off what it is at
Own(w, s) ==
  s = <<>> \/ (w.ahead # "unread" /\ \E p, n \in Nodes : Dels(s, w.at, p, n))

\* the loop w is at a linked node, or knows the one to go to; S is what is linked
Sees(w, S) ==
  IF w.ahead = "unread"
    THEN w.at \in S
    ELSE w.safe /\ w.at \in Nodes /\ w.ahead \in S /\ (w.at \in Entries => w.ahead # w.at)

Fine(w, u, S, ss) == Suits(w, u, ss) /\ Own(w, ss[u]) /\ Sees(w, S)

LoopsFine(ws, out, S, ss) ==
  \A u \in Tasks : u \notin out /\ ws[u] # NoWalk => Fine(ws[u], u, S, ss)

LoopInv == OrderInv /\ LoopsFine(walk, disturbed, Linked(on, stores, done), stores)

\* a deletion takes an entry off, an insertion does not
LEMMA DeletesIs ==
  /\ ~Deletes(<<>>)
  /\ \A s, e, p, n : Dels(s, e, p, n) => Deletes(s)
  /\ \A s, h, o : \A new \in Entries, p, n \in Nodes : Adding(h, o, s, new, p, n) => ~Deletes(s)
<1>1. ~Deletes(<<>>) BY DEF Deletes
<1>2. ASSUME NEW s, NEW e, NEW p, NEW n, Dels(s, e, p, n) PROVE Deletes(s)
  <2>1. Len(s) = 4 /\ s[3][1] = NextOf(e) /\ s[3][2] \in {Wild, e} BY <1>2, DelStores
  <2>2. 3 \in DOMAIN s BY <1>2, FourStores DEF Dels
  <2>3. s[3][1][1] = e BY <2>1 DEF NextOf
  <2> QED BY <2>1, <2>2, <2>3 DEF Deletes
<1>3. ASSUME NEW s, NEW h, NEW o, NEW new \in Entries, NEW p \in Nodes, NEW n \in Nodes,
             Adding(h, o, s, new, p, n)
      PROVE  ~Deletes(s)
  <2>1. s = __list_add(new, p, n) /\ p # new /\ n # new BY <1>3 DEF Adding
  <2>2. DOMAIN s = 1..4 BY <2>1, FourStores DEF __list_add
  <2>3. /\ s[1] = <<PrevOf(n), new>> /\ s[2] = <<NextOf(new), n>>
        /\ s[3] = <<PrevOf(new), p>> /\ s[4] = <<NextOf(p), new>>
    BY <2>1, AddStores
  <2>4. Wild \notin {new, p, n} BY ListAssumption DEF Nodes
  <2>5. \A i \in 1..4 : s[i][2] # Wild /\ s[i][2] # s[i][1][1]
    BY <2>1, <2>3, <2>4 DEF NextOf, PrevOf
  <2> QED BY <2>2, <2>5 DEF Deletes
<1> QED BY <1>1, <1>2, <1>3

\* the same, of a task
LEMMA DeletingIs == \A t \in Tasks : Deleting(t) <=> Deletes(stores[t])
BY DEF Deleting, Deletes

\* an entry that a task inserts, and one that it takes out, both ways
LEMMA WalksDiffer ==
  ASSUME TypeOK, NEW u \in Tasks, walk[u] # NoWalk
  PROVE  walk[u] \in Walks /\ walk[u].dir \in {"next", "prev"}
BY DEF TypeOK, Walks

\* the pointer a loop reads at a linked node leads to a linked node
LEMMA ReadsLinked ==
  ASSUME OrderInv, NEW u \in Tasks, NEW w, w.dir \in {"next", "prev"},
         Suits(w, u, stores), stores[u] = <<>>, NEW x \in Linked(on, stores, done)
  PROVE  /\ heap[<<x, w.dir>>] \in Linked(on, stores, done)
         /\ x \in Entries => heap[<<x, w.dir>>] # x
<1> DEFINE S == Linked(on, stores, done)
<1>1. PICK L : Shows(L, heap, on, stores, done) BY DEF OrderInv
<1>2. S \in SUBSET Nodes /\ Links(L, Nexts(heap), S) BY <1>1 DEF Shows, Linked
<1>3. heap \in Heaps /\ on \in SUBSET Nodes /\ Ring(ToBe(heap, stores), on)
  BY InvGives DEF OrderInv
<1>4. x \in S OBVIOUS
<1>5. CASE w.dir = "next"
  <2> HIDE DEF S
  <2>1. Nexts(heap)[x] \in S /\ (x \in Entries => Nexts(heap)[x] # x) BY <1>2, <1>4, LinksNode
  <2>2. Nexts(heap)[x] = heap[<<x, "next">>] BY <1>2, <1>3, <1>4, NextsAre DEF NextOf
  <2> QED BY <1>5, <2>1, <2>2 DEF S
<1>6. CASE w.dir = "prev"
  <2>1. \A v \in Tasks : stores[v] = <<>> BY <1>6 DEF Suits
  <2>2. S = on BY <1>3, <2>1, QuietLinked
  <2>3. Ring(heap, on) BY <1>3, <2>1, QuietToBe
  <2> HIDE DEF S
  <2>4. heap[PrevOf(x)] \in on /\ heap[NextOf(heap[PrevOf(x)])] = x
    BY <1>4, <2>2, <2>3 DEF Ring
  <2>5. x \in Entries => heap[NextOf(x)] # x
    <3>1. x \in Entries => Nexts(heap)[x] # x BY <1>2, <1>4, LinksNode
    <3> QED BY <1>2, <1>3, <1>4, <3>1, NextsAre
  <2>6. x \in Entries => heap[PrevOf(x)] # x BY <2>4, <2>5
  <2> QED BY <1>6, <2>2, <2>4, <2>6 DEF S, PrevOf
<1> QED BY <1>5, <1>6

\* a step of t's loop that leaves the lists alone
LEMMA WalkLoops ==
  ASSUME LoopInv, UNCHANGED <<heap, on, stores, done>>, NEW t \in Tasks,
         \A u \in Tasks : u # t => /\ walk'[u] = walk[u]
                                   /\ u \notin disturbed' => u \notin disturbed,
         t \notin disturbed' /\ walk'[t] # NoWalk
           => Fine(walk'[t], t, Linked(on, stores, done), stores)
  PROVE  LoopsFine(walk', disturbed', Linked(on', stores', done'), stores')
<1> DEFINE S == Linked(on, stores, done)
<1>1. Linked(on', stores', done') = S /\ stores' = stores OBVIOUS
<1>2. LoopsFine(walk, disturbed, S, stores) BY DEF LoopInv
<1>3. t \notin disturbed' /\ walk'[t] # NoWalk => Fine(walk'[t], t, S, stores) OBVIOUS
<1> HIDE DEF S
<1> QED BY <1>1, <1>2, <1>3 DEF LoopsFine

\* a call of t: the loops that t does not upset stay fine, and its own
LEMMA CallLoops ==
  ASSUME LoopInv, NEW t \in Tasks, Calls(t), walk' = walk,
         \A u \in Tasks : u # t /\ u \notin disturbed' /\ walk[u] # NoWalk
           => u \notin disturbed /\ walk[u].dir # "prev" /\ ~Deletes(stores'[t]),
         walk[t] # NoWalk => /\ Own(walk[t], stores'[t])
                             /\ t \notin disturbed' => t \notin disturbed
  PROVE  LoopsFine(walk', disturbed', Linked(on', stores', done'), stores')
<1> DEFINE S == Linked(on, stores, done)
<1>1. Linked(on', stores', done') = S BY DEF Calls
<1>2. \A u \in Tasks : u # t => stores'[u] = stores[u] BY DEF Calls
<1>3. LoopsFine(walk, disturbed, S, stores) BY DEF LoopInv
<1> HIDE DEF S
<1>4. ASSUME NEW u \in Tasks, u \notin disturbed', walk[u] # NoWalk
      PROVE  Fine(walk[u], u, S, stores')
  <2>1. Fine(walk[u], u, S, stores) BY <1>3, <1>4 DEF LoopsFine
  <2>2. Suits(walk[u], u, stores')
    <3>1. Suits(walk[u], u, stores) BY <2>1 DEF Fine
    <3>2. CASE u = t BY <1>2, <3>1, <3>2 DEF Suits
    <3>3. CASE u # t
      <4>1. walk[u].dir # "prev" /\ ~Deletes(stores'[t]) BY <1>4, <3>3
      <4> QED BY <1>2, <3>1, <4>1 DEF Suits
    <3> QED BY <3>2, <3>3
  <2>3. Own(walk[u], stores'[u])
    <3>1. CASE u = t BY <1>4, <3>1
    <3>2. CASE u # t BY <1>2, <2>1, <3>2 DEF Fine
    <3> QED BY <3>1, <3>2
  <2>4. Sees(walk[u], S) BY <2>1 DEF Fine
  <2> QED BY <2>2, <2>3, <2>4 DEF Fine
<1> QED BY <1>1, <1>4 DEF LoopsFine

\* a store unlinks what its function takes off its list, and nothing else
LEMMA StoreKeepsLinked ==
  ASSUME Inv, NEW t \in Tasks, Store(t), NEW x \in Linked(on, stores, done),
         ~IsGoing(stores[t], done[t], x)
  PROVE  x \in Linked(on', stores', done')
<1>1. on' = on /\ stores'[t] \in {stores[t], <<>>}
      /\ \A u \in Tasks : u # t => stores'[u] = stores[u] /\ done'[u] = done[u]
  BY DEF Inv, TypeOK, Store
<1>2. x \in Nodes BY DEF Linked
<1>3. CASE x \in on /\ \A u \in Tasks : ~IsNew(stores[u], x)
  <2>1. \A u \in Tasks : ~IsNew(stores'[u], x) BY <1>1, <1>3, NothingIs
  <2> QED BY <1>1, <1>2, <1>3, <2>1 DEF Linked
<1>4. CASE \E u \in Tasks : IsGoing(stores[u], done[u], x)
  <2>1. PICK u \in Tasks : IsGoing(stores[u], done[u], x) BY <1>4
  <2>2. u # t BY <2>1
  <2>3. IsGoing(stores'[u], done'[u], x) BY <1>1, <2>1, <2>2
  <2> QED BY <1>2, <2>3 DEF Linked
<1> QED BY <1>3, <1>4 DEF Linked

\* Store
LEMMA StoreLoops ==
  ASSUME LoopInv, NEW t \in Tasks, Store(t)
  PROVE  LoopsFine(walk', disturbed', Linked(on', stores', done'), stores')
<1> DEFINE S == Linked(on, stores, done)
           T == Linked(on', stores', done')
<1>1. /\ walk' = walk /\ disturbed' = disturbed /\ stores'[t] \in {stores[t], <<>>}
      /\ \A u \in Tasks : u # t => stores'[u] = stores[u]
  BY DEF LoopInv, OrderInv, Inv, TypeOK, Store
<1>2. \A x \in S : ~IsGoing(stores[t], done[t], x) => x \in T
  BY StoreKeepsLinked DEF LoopInv, OrderInv
<1>3. Shaped(heap, on, stores[t], done[t]) /\ stores[t] # <<>>
  BY DEF LoopInv, OrderInv, Shapely, Store, Idle
<1>4. S \in SUBSET Nodes BY DEF Linked
<1>5. LoopsFine(walk, disturbed, S, stores) BY DEF LoopInv
<1> HIDE DEF S, T
<1>6. ASSUME NEW u \in Tasks, u \notin disturbed, walk[u] # NoWalk
      PROVE  Fine(walk[u], u, T, stores')
  <2>1. Fine(walk[u], u, S, stores) BY <1>5, <1>6 DEF LoopsFine
  <2>2. Suits(walk[u], u, stores') BY <1>1, <2>1, DeletesIs DEF Fine, Suits
  <2>3. Own(walk[u], stores'[u]) BY <1>1, <2>1 DEF Fine, Own
  <2>4. Sees(walk[u], T)
    <3>1. CASE u = t
      <4>1. PICK p, n \in Nodes : Dels(stores[t], walk[u].at, p, n)
        BY <1>3, <2>1, <3>1 DEF Fine, Own
      <4>2. walk[u].ahead # "unread" BY <1>3, <2>1, <3>1 DEF Fine, Own
      <4>3. /\ walk[u].safe /\ walk[u].at \in Nodes /\ walk[u].ahead \in S
            /\ (walk[u].at \in Entries => walk[u].ahead # walk[u].at)
        BY <2>1, <4>2 DEF Fine, Sees
      <4>4. walk[u].at \in Entries
        <5>1. ASSUME NEW new \in Entries, NEW q \in Nodes, NEW m \in Nodes,
                     Adding(heap, on, stores[t], new, q, m)
              PROVE  FALSE
          BY <4>1, <5>1, DeletesIs
        <5>2. PICK e \in Entries, q \in Nodes, m \in Nodes :
                Removing(heap, on, stores[t], done[t], e, q, m)
          BY <1>3, <5>1 DEF Shaped
        <5>3. stores[t][3][1] = NextOf(e) /\ stores[t][3][1] = NextOf(walk[u].at)
          BY <4>1, <5>2, DelStores DEF Removing
        <5> QED BY <5>3, PointersDiffer
      <4>5. ~IsGoing(stores[t], done[t], walk[u].ahead)
        BY <4>1, <4>3, <4>4, DelIs
      <4> QED BY <1>2, <4>2, <4>3, <4>5 DEF Sees
    <3>2. CASE u # t
      <4>1. ~Deletes(stores[t]) BY <2>1, <3>2 DEF Fine, Suits
      <4>2. \A x : ~IsGoing(stores[t], done[t], x) BY <4>1, DeletesIs DEF IsGoing
      <4>3. S \subseteq T BY <1>2, <4>2
      <4>4. Sees(walk[u], S) BY <2>1 DEF Fine
      <4> QED BY <4>3, <4>4 DEF Sees
    <3> QED BY <3>1, <3>2
  <2> QED BY <2>2, <2>3, <2>4 DEF Fine
<1> QED BY <1>1, <1>6 DEF LoopsFine, T

\* AddEntry
LEMMA AddLoops ==
  ASSUME LoopInv, NEW t \in Tasks, AddEntry(t)
  PROVE  LoopsFine(walk', disturbed', Linked(on', stores', done'), stores')
<1>1. /\ walk[t] = NoWalk /\ walk' = walk
      /\ disturbed' = disturbed \cup {u \in Tasks \ {t} : walk[u].dir \in {"prev"}}
  BY DEF AddEntry, Call, Upsets
<1>2. Inv /\ Shapely(heap, on, stores, done) BY DEF LoopInv, OrderInv
<1>3. CASE UNCHANGED <<heap, on, stores, done>>
  BY <1>1, <1>3 DEF LoopInv, LoopsFine
<1>4. CASE /\ Calls(t)
           /\ \E new \in Entries, p, n \in Nodes : Adding(heap, on', stores'[t], new, p, n)
  <2>1. ~Deletes(stores'[t]) BY <1>4, DeletesIs
  <2>2. \A u \in Tasks : u # t /\ u \notin disturbed' /\ walk[u] # NoWalk
          => u \notin disturbed /\ walk[u].dir # "prev" /\ ~Deletes(stores'[t])
    BY <1>1, <2>1
  <2> QED BY <1>1, <1>4, <2>2, CallLoops
<1> QED BY <1>2, <1>3, <1>4, AddCalls

\* DeleteEntry
LEMMA DeleteLoops ==
  ASSUME LoopInv, NEW t \in Tasks, DeleteEntry(t)
  PROVE  LoopsFine(walk', disturbed', Linked(on', stores', done'), stores')
<1>1. /\ walk' = walk
      /\ disturbed' = disturbed \cup {u \in Tasks \ {t} : walk[u].dir \in {"next", "prev"}}
  BY DEF DeleteEntry, Call, Upsets
<1>2. Inv /\ Shapely(heap, on, stores, done) BY DEF LoopInv, OrderInv
<1>3. PICK L : Shows(L, heap, on, stores, done) BY DEF LoopInv, OrderInv
<1>4. CASE UNCHANGED <<heap, on, stores, done>>
  BY <1>1, <1>4 DEF LoopInv, LoopsFine
<1>5. CASE /\ Calls(t)
           /\ \E e \in Entries, p, n \in Nodes :
                /\ Dels(stores'[t], e, p, n)
                /\ walk[t] = NoWalk \/ (Ready(t) /\ walk[t].safe /\ walk[t].at = e)
  <2>1. \A u \in Tasks : u # t /\ walk[u] # NoWalk => u \in disturbed'
    <3>1. \A u \in Tasks : walk[u] # NoWalk => walk[u].dir \in {"next", "prev"}
      BY <1>2, WalksDiffer DEF Inv
    <3> QED BY <1>1, <3>1
  <2>2. walk[t] # NoWalk => Own(walk[t], stores'[t])
    <3>1. walk[t] # NoWalk => /\ walk[t].ahead # "unread"
                              /\ \E p, n \in Nodes : Dels(stores'[t], walk[t].at, p, n)
      BY <1>5 DEF Ready, ReadsAhead
    <3> QED BY <3>1 DEF Own
  <2> QED BY <1>1, <1>5, <2>1, <2>2, CallLoops
<1> QED BY <1>2, <1>3, <1>4, <1>5, DeleteCalls

\* what a loop that is not upset sees before it reads on
LEMMA InBodySees ==
  ASSUME LoopInv, NEW u \in Tasks, u \notin disturbed, InBody(u)
  PROVE  /\ Fine(walk[u], u, Linked(on, stores, done), stores) /\ stores[u] = <<>>
         /\ walk[u] \in Walks /\ walk[u].dir \in {"next", "prev"}
         /\ walk[u].ahead = "unread" =>
              /\ heap[<<walk[u].at, walk[u].dir>>] \in Linked(on, stores, done)
              /\ walk[u].at \in Entries => heap[<<walk[u].at, walk[u].dir>>] # walk[u].at
<1>1. walk[u] # NoWalk /\ stores[u] = <<>> BY DEF InBody, Idle
<1>2. Fine(walk[u], u, Linked(on, stores, done), stores) BY <1>1 DEF LoopInv, LoopsFine
<1>3. walk[u] \in Walks /\ walk[u].dir \in {"next", "prev"}
  BY <1>1, WalksDiffer DEF LoopInv, OrderInv, Inv
<1>4. ASSUME walk[u].ahead = "unread"
      PROVE  /\ heap[<<walk[u].at, walk[u].dir>>] \in Linked(on, stores, done)
             /\ walk[u].at \in Entries => heap[<<walk[u].at, walk[u].dir>>] # walk[u].at
  <2>1. walk[u].at \in Linked(on, stores, done) BY <1>2, <1>4 DEF Fine, Sees
  <2>2. OrderInv /\ Suits(walk[u], u, stores) BY <1>2 DEF LoopInv, Fine
  <2> QED BY <1>1, <1>3, <2>1, <2>2, ReadsLinked
<1> QED BY <1>1, <1>2, <1>3, <1>4

\* ReadAhead
LEMMA ReadLoops ==
  ASSUME LoopInv, NEW t \in Tasks, ReadAhead(t)
  PROVE  LoopsFine(walk', disturbed', Linked(on', stores', done'), stores')
<1> DEFINE S == Linked(on, stores, done)
           next == heap[<<walk[t].at, walk[t].dir>>]
<1>1. /\ UNCHANGED <<heap, on, stores, done, disturbed>> /\ InBody(t) /\ walk[t].safe
      /\ walk[t].ahead = "unread" /\ walk' = [walk EXCEPT ![t].ahead = next]
  BY DEF ReadAhead, ReadsAhead
<1>2. walk \in [Tasks -> Walks \cup {NoWalk}] BY DEF LoopInv, OrderInv, Inv, TypeOK
<1>3. \A u \in Tasks : u # t => walk'[u] = walk[u] BY <1>1, <1>2
<1>4. ASSUME t \notin disturbed' PROVE Fine(walk'[t], t, S, stores)
  <2>1. t \notin disturbed BY <1>1, <1>4
  <2>2. /\ Fine(walk[t], t, S, stores) /\ stores[t] = <<>> /\ walk[t] \in Walks
        /\ next \in S /\ (walk[t].at \in Entries => next # walk[t].at)
    BY <1>1, <2>1, InBodySees
  <2>3. /\ walk'[t].dir = walk[t].dir /\ walk'[t].safe = walk[t].safe
        /\ walk'[t].at = walk[t].at /\ walk'[t].ahead = next
    BY <1>1, <1>2, <2>2 DEF Walks
  <2>4. walk[t].at \in S BY <1>1, <2>2 DEF Fine, Sees
  <2>5. walk[t].at \in Nodes BY <2>4 DEF Linked
  <2> HIDE DEF S, next
  <2>6. Sees(walk'[t], S) BY <1>1, <2>2, <2>3, <2>4, <2>5 DEF Sees
  <2>7. Suits(walk'[t], t, stores) BY <2>2, <2>3 DEF Fine, Suits
  <2>8. Own(walk'[t], stores[t]) BY <2>2 DEF Own
  <2> QED BY <2>6, <2>7, <2>8 DEF Fine
<1> QED BY <1>1, <1>3, <1>4, WalkLoops

\* Advance
LEMMA AdvanceLoops ==
  ASSUME LoopInv, NEW t \in Tasks, Advance(t)
  PROVE  LoopsFine(walk', disturbed', Linked(on', stores', done'), stores')
<1> DEFINE S == Linked(on, stores, done)
           next == IF walk[t].safe THEN walk[t].ahead ELSE heap[<<walk[t].at, walk[t].dir>>]
<1>1. /\ UNCHANGED <<heap, on, stores, done, disturbed>> /\ InBody(t)
      /\ (walk[t].safe => walk[t].ahead # "unread")
      /\ walk' = [walk EXCEPT ![t].ahead = "unread", ![t].at = next]
  BY DEF Advance, Ready, ReadsAhead
<1>2. walk \in [Tasks -> Walks \cup {NoWalk}] BY DEF LoopInv, OrderInv, Inv, TypeOK
<1>3. \A u \in Tasks : u # t => walk'[u] = walk[u] BY <1>1, <1>2
<1>4. ASSUME t \notin disturbed' PROVE Fine(walk'[t], t, S, stores)
  <2>1. t \notin disturbed BY <1>1, <1>4
  <2>2. /\ Fine(walk[t], t, S, stores) /\ stores[t] = <<>> /\ walk[t] \in Walks
        /\ walk[t].ahead = "unread" => heap[<<walk[t].at, walk[t].dir>>] \in S
    BY <1>1, <2>1, InBodySees
  <2>3. /\ walk'[t].dir = walk[t].dir /\ walk'[t].at = next /\ walk'[t].ahead = "unread"
    BY <1>1, <1>2, <2>2 DEF Walks
  <2>4. next \in S BY <1>1, <2>2 DEF Fine, Sees
  <2> HIDE DEF S, next
  <2>5. Sees(walk'[t], S) BY <2>3, <2>4 DEF Sees
  <2>6. Suits(walk'[t], t, stores) BY <2>2, <2>3 DEF Fine, Suits
  <2>7. Own(walk'[t], stores[t]) BY <2>2 DEF Own
  <2> QED BY <2>5, <2>6, <2>7 DEF Fine
<1> QED BY <1>1, <1>3, <1>4, WalkLoops

\* StartWalk
LEMMA StartLoops ==
  ASSUME LoopInv, NEW t \in Tasks, NEW h \in Heads \cap on, NEW dir \in {"next", "prev"},
         NEW safe \in BOOLEAN, StartWalk(t, h, dir, safe)
  PROVE  LoopsFine(walk', disturbed', Linked(on', stores', done'), stores')
<1> DEFINE S == Linked(on, stores, done)
<1> DEFINE w == [dir |-> dir, safe |-> safe, head |-> h, at |-> heap[<<h, dir>>],
                 ahead |-> "unread"]
<1>1. /\ UNCHANGED <<heap, on, stores, done>> /\ stores[t] = <<>>
      /\ walk' = [walk EXCEPT ![t] = w]
      /\ disturbed' = IF \E u \in Tasks : Deleting(u) \/ (~Idle(u) /\ dir = "prev")
                        THEN disturbed \cup {t} ELSE disturbed
  BY DEF StartWalk, Idle
<1>2. walk \in [Tasks -> Walks \cup {NoWalk}] BY DEF LoopInv, OrderInv, Inv, TypeOK
<1>3. walk'[t] = w /\ \A u \in Tasks : u # t => walk'[u] = walk[u] BY <1>1, <1>2
<1>4. w.dir = dir /\ w.at = heap[<<h, dir>>] /\ w.ahead = "unread" OBVIOUS
<1> HIDE DEF w
<1>5. ASSUME t \notin disturbed' PROVE Fine(w, t, S, stores)
  <2>1. \A u \in Tasks : ~Deleting(u) /\ (dir = "prev" => Idle(u)) BY <1>1, <1>5
  <2>2. Suits(w, t, stores) BY <1>4, <2>1, DeletingIs DEF Suits, Idle
  <2>3. h \in S BY AboutEntries DEF LoopInv, OrderInv
  <2>4. OrderInv BY DEF LoopInv
  <2>5. heap[<<h, dir>>] \in S BY <1>1, <1>4, <2>2, <2>3, <2>4, ReadsLinked
  <2>6. Sees(w, S) BY <1>4, <2>5 DEF Sees
  <2>7. Own(w, stores[t]) BY <1>1 DEF Own
  <2> QED BY <2>2, <2>6, <2>7 DEF Fine
<1> QED BY <1>1, <1>3, <1>5, WalkLoops

\* every step keeps the loops fine
LEMMA NextLoops ==
  ASSUME LoopInv, [Next]_vars
  PROVE  LoopsFine(walk', disturbed', Linked(on', stores', done'), stores')
<1>1. ASSUME NEW t \in Tasks, TaskStep(t)
      PROVE  LoopsFine(walk', disturbed', Linked(on', stores', done'), stores')
  <2>1. CASE AddEntry(t) BY <2>1, AddLoops
  <2>2. CASE DeleteEntry(t) BY <2>2, DeleteLoops
  <2>3. CASE Store(t) BY <2>3, StoreLoops
  <2>4. CASE ReadAhead(t) BY <2>4, ReadLoops
  <2>5. CASE Advance(t) BY <2>5, AdvanceLoops
  <2>6. CASE EndWalk(t)
    <3>1. walk \in [Tasks -> Walks \cup {NoWalk}] BY DEF LoopInv, OrderInv, Inv, TypeOK
    <3>2. /\ UNCHANGED <<heap, on, stores, done>> /\ disturbed' = disturbed \ {t}
          /\ walk' = [walk EXCEPT ![t] = NoWalk]
      BY <2>6 DEF EndWalk
    <3>3. walk'[t] = NoWalk /\ \A u \in Tasks : u # t => walk'[u] = walk[u] BY <3>1, <3>2
    <3> QED BY <3>2, <3>3, WalkLoops
  <2>7. CASE \E h \in Heads \cap on, dir \in {"next", "prev"}, safe \in BOOLEAN :
               StartWalk(t, h, dir, safe)
    BY <2>7, StartLoops
  <2> QED BY <1>1, <2>1, <2>2, <2>3, <2>4, <2>5, <2>6, <2>7 DEF TaskStep
<1>2. CASE Quiet /\ Alone
  <2>1. walk' = walk BY <1>2 DEF Alone, MoveEntry, ReplaceEntry, Rotate, CutList, SpliceList,
                              InitList, Do
  <2>2. \A u \in Tasks : walk[u] = NoWalk BY <1>2 DEF Quiet
  <2> QED BY <2>1, <2>2 DEF LoopsFine
<1>3. CASE UNCHANGED vars BY <1>3 DEF vars, LoopInv, LoopsFine
<1> QED BY <1>1, <1>2, <1>3 DEF Next

\* A loop that no other task upsets is at a linked node, or has read one to go to
\* (list.h:423-456).
THEOREM LoopsHold == Spec => []LoopInv
<1>1. Init => LoopInv
  <2>1. Init => Inv BY InitInv
  <2>2. Init => OrderInv BY <2>1, InitShows DEF OrderInv
  <2>3. Init => \A u \in Tasks : walk[u] = NoWalk BY DEF Init
  <2> QED BY <2>2, <2>3 DEF LoopInv, LoopsFine
<1>2. LoopInv /\ [Next]_vars /\ OrderInv' => LoopInv'
  BY NextLoops DEF LoopInv
<1> QED BY <1>1, <1>2, OrderHolds, PTL DEF Spec

\* A loop comes across no wild pointer when other tasks only insert, and insert only if it
\* goes forwards; a _safe loop may also delete what it is at (list.h:423-456).
THEOREM LoopsKeepToLists == Spec => []LoopsStayOnList
<1>1. LoopInv => LoopsStayOnList
  <2> SUFFICES ASSUME LoopInv, NEW t \in Tasks, Lost(t), t \notin disturbed PROVE FALSE
    BY DEF LoopsStayOnList
  <2>1. walk[t] # NoWalk /\ walk[t].at = Wild BY DEF Lost
  <2>2. Sees(walk[t], Linked(on, stores, done)) BY <2>1 DEF LoopInv, LoopsFine, Fine
  <2>3. walk[t].at \in Nodes BY <2>2 DEF Sees, Linked
  <2> QED BY <2>1, <2>3, ListAssumption
<1> QED BY <1>1, LoopsHold, PTL
-----------------------------------------------------------------------------
(* list_empty_careful.  An entry that is taken off has pointers to others  *)
(* until its own are stored (Lingers), so the next pointer that the test   *)
(* found to be to the node stays that way under deletions.                 *)

\* the stores s, d of which are made in h, have yet to store into what they take off
Lingers(h, s, d) == \A e \in Entries, p, n \in Nodes :
  Dels(s, e, p, n) => /\ h[PrevOf(e)] # e
                      /\ d < 3 => h[NextOf(e)] # e

LingerInv == OrderInv /\ \A u \in Tasks : Lingers(heap, stores[u], done[u])

\* what a deletion takes off, and after which node
LEMMA SameEntry ==
  ASSUME NEW s, NEW e, NEW p, NEW n, Dels(s, e, p, n), NEW f, NEW q, NEW m, Dels(s, f, q, m)
  PROVE  e = f /\ p = q
<1>1. s[1] = <<PrevOf(n), p>> /\ s[3][1] = NextOf(e) BY DelStores
<1>2. s[1] = <<PrevOf(m), q>> /\ s[3][1] = NextOf(f) BY DelStores
<1> QED BY <1>1, <1>2, PointersDiffer

\* a deletion has the shape of one
LEMMA DelShape ==
  ASSUME NEW h, NEW o, NEW s, NEW d, Shaped(h, o, s, d), NEW e, NEW p, NEW n, Dels(s, e, p, n)
  PROVE  /\ e \notin o /\ p \in o
         /\ d < 2 => h[NextOf(p)] = e /\ h[NextOf(e)] \in o
<1>1. Deletes(s) /\ s # <<>> BY DeletesIs
<1>2. \A new \in Entries, q, m \in Nodes : ~Adding(h, o, s, new, q, m) BY <1>1, DeletesIs
<1>3. PICK f \in Entries, q, m \in Nodes : Removing(h, o, s, d, f, q, m)
  BY <1>1, <1>2 DEF Shaped
<1>4. e = f /\ p = q BY <1>3, SameEntry DEF Removing
<1> QED BY <1>3, <1>4 DEF Removing

\* what a store changes
LEMMA StoreIs ==
  ASSUME Inv, NEW t \in Tasks, Store(t)
  PROVE  /\ stores[t] # <<>> /\ Len(stores[t]) = 4 /\ done[t] \in 0..3
         /\ stores[t][done[t] + 1][1] \in Targets(stores[t])
         /\ \A x : x # stores[t][done[t] + 1][1] => heap'[x] = heap[x]
         /\ \A u \in Tasks : u # t => stores'[u] = stores[u] /\ done'[u] = done[u]
         /\ done[t] < 3 => stores'[t] = stores[t] /\ done'[t] = done[t] + 1
         /\ done[t] = 3 => stores'[t] = <<>>
<1> DEFINE k == done[t]
           s == stores[t]
<1>1. /\ heap \in Heaps /\ s # <<>> /\ Len(s) = 4 /\ k \in 0..3 /\ s \in Stores
      /\ stores \in [Tasks -> Stores] /\ done \in [Tasks -> Nat]
  <2>1. done \in [Tasks -> Nat] BY DEF Inv, TypeOK
  <2> QED BY <2>1, InvGives DEF Store, Idle, FourEach
<1>2. heap' = [heap EXCEPT ![s[k + 1][1]] = s[k + 1][2]] BY DEF Store
<1>3. k < 3 => stores' = stores /\ done' = [done EXCEPT ![t] = k + 1]
  <2> SUFFICES ASSUME k < 3 PROVE stores' = stores /\ done' = [done EXCEPT ![t] = k + 1]
    OBVIOUS
  <2>1. k + 1 < Len(s) BY <1>1
  <2> QED BY <2>1 DEF Store
<1>4. k = 3 => stores' = [stores EXCEPT ![t] = <<>>] /\ done' = [done EXCEPT ![t] = 0]
  <2> SUFFICES ASSUME k = 3
               PROVE  stores' = [stores EXCEPT ![t] = <<>>] /\ done' = [done EXCEPT ![t] = 0]
    OBVIOUS
  <2>1. ~(k + 1 < Len(s)) BY <1>1
  <2> QED BY <2>1 DEF Store
<1> HIDE DEF k, s
<1>5. k + 1 \in 1..4 BY <1>1
<1>6. s[k + 1][1] \in Targets(s) BY <1>1, <1>5, InTargets
<1>7. \A x : x # s[k + 1][1] => heap'[x] = heap[x] BY <1>1, <1>2 DEF Heaps
<1>8. k < 3 \/ k = 3 BY <1>1
<1>9. \A u \in Tasks : u # t => stores'[u] = stores[u] /\ done'[u] = done[u]
  BY <1>1, <1>3, <1>4, <1>8
<1>10. k < 3 => stores'[t] = s /\ done'[t] = k + 1 BY <1>1, <1>3 DEF s
<1>11. k = 3 => stores'[t] = <<>> BY <1>1, <1>4
<1> QED BY <1>1, <1>6, <1>7, <1>9, <1>10, <1>11 DEF k, s

\* a store leaves alone what a deletion has yet to store into
LEMMA StoreLingers ==
  ASSUME LingerInv, NEW t \in Tasks, Store(t), NEW u \in Tasks
  PROVE  Lingers(heap', stores'[u], done'[u])
<1> SUFFICES ASSUME NEW e \in Entries, NEW p \in Nodes, NEW n \in Nodes,
                    Dels(stores'[u], e, p, n)
             PROVE  heap'[PrevOf(e)] # e /\ (done'[u] < 3 => heap'[NextOf(e)] # e)
  BY DEF Lingers
<1>1. Inv /\ Apart(stores) BY InvGives DEF LingerInv, OrderInv
<1>2. CASE u # t
  <2>1. stores'[u] = stores[u] /\ done'[u] = done[u] BY <1>1, <1>2, StoreIs
  <2>2. NextOf(e) \in Targets(stores[u]) /\ PrevOf(e) \in Targets(stores[u])
    BY <2>1, DelStores
  <2>3. Targets(stores[t]) \cap Targets(stores[u]) = {} BY <1>1, <1>2 DEF Apart
  <2>4. PICK y : y \in Targets(stores[t]) /\ \A x : x # y => heap'[x] = heap[x]
    BY <1>1, StoreIs
  <2>5. heap'[NextOf(e)] = heap[NextOf(e)] /\ heap'[PrevOf(e)] = heap[PrevOf(e)]
    BY <2>2, <2>3, <2>4
  <2> QED BY <2>1, <2>5 DEF LingerInv, Lingers
<1>3. CASE u = t
  <2> DEFINE s == stores[t]
             k == done[t]
  <2>1. stores'[t] # <<>> BY <1>3, DelStores
  <2>2. k \in 0..2 /\ stores'[t] = s /\ done'[t] = k + 1
        /\ \A x : x # s[k + 1][1] => heap'[x] = heap[x]
    BY <1>1, <2>1, StoreIs
  <2>3. Dels(s, e, p, n) BY <1>3, <2>2
  <2>4. Shaped(heap, on, s, k) BY DEF LingerInv, OrderInv, Shapely
  <2>5. heap[PrevOf(e)] # e /\ heap[NextOf(e)] # e
    BY <2>2, <2>3 DEF LingerInv, Lingers
  <2> HIDE DEF s, k
  <2>6. /\ s[1] = <<PrevOf(n), p>> /\ s[2] = <<NextOf(p), n>> /\ s[3][1] = NextOf(e)
    BY <2>3, DelStores
  <2>7. e \notin on /\ p \in on BY <2>3, <2>4, DelShape
  <2>8. n # e
    <3>1. \E m \in on : Dels(s, e, p, m)
      <4>1. Deletes(s) /\ s # <<>> BY <2>3, DeletesIs
      <4>2. \A new \in Entries, q, m \in Nodes : ~Adding(heap, on, s, new, q, m)
        BY <4>1, DeletesIs
      <4>3. PICK f \in Entries, q, m \in Nodes : Removing(heap, on, s, k, f, q, m)
        BY <2>4, <4>1, <4>2 DEF Shaped
      <4>4. e = f /\ p = q BY <2>3, <4>3, SameEntry DEF Removing
      <4> QED BY <4>3, <4>4 DEF Removing
    <3>2. PICK m \in on : Dels(s, e, p, m) BY <3>1
    <3>3. s[1] = <<PrevOf(m), p>> BY <3>2, DelStores
    <3>4. m = n BY <2>6, <3>3, PointersDiffer
    <3> QED BY <2>7, <3>2, <3>4
  <2>9. CASE k = 0
    <3>1. PrevOf(e) # s[k + 1][1] /\ NextOf(e) # s[k + 1][1]
      BY <2>6, <2>8, <2>9, PointersDiffer
    <3> QED BY <2>2, <2>5, <3>1
  <2>10. CASE k = 1
    <3>1. PrevOf(e) # s[k + 1][1] /\ NextOf(e) # s[k + 1][1]
      BY <2>6, <2>7, <2>10, PointersDiffer
    <3> QED BY <2>2, <2>5, <3>1
  <2>11. CASE k = 2
    <3>1. PrevOf(e) # s[k + 1][1] BY <2>6, <2>11, PointersDiffer
    <3>2. ~(done'[u] < 3) BY <1>3, <2>2, <2>11
    <3> QED BY <2>2, <2>5, <3>1, <3>2
  <2> QED BY <2>2, <2>9, <2>10, <2>11
<1> QED BY <1>2, <1>3

\* a deletion that is called reads the pointers of what it takes off
LEMMA DeleteLingers ==
  ASSUME LingerInv, OrderInv', NEW t \in Tasks, DeleteEntry(t), NEW u \in Tasks
  PROVE  Lingers(heap', stores'[u], done'[u])
<1>1. Inv BY DEF LingerInv, OrderInv
<1>2. PICK x \in Entries \cap on : \E s :
        /\ Call(t, s, on \ {x})
        /\ s = list_del(heap, x) \/ s = list_del_init(heap, x)
  BY DEF DeleteEntry
<1>3. PICK s : /\ Call(t, s, on \ {x})
               /\ s = list_del(heap, x) \/ s = list_del_init(heap, x)
  BY <1>2
<1>4. CASE UNCHANGED <<heap, on, stores, done>> BY <1>4 DEF LingerInv
<1>5. CASE /\ heap' = heap /\ done' = done /\ done[t] = 0
           /\ \A v \in Tasks : stores'[v] = IF v = t THEN s ELSE stores[v]
  <2>1. CASE u # t BY <1>5, <2>1 DEF LingerInv
  <2>2. CASE u = t
    <3> SUFFICES ASSUME NEW e \in Entries, NEW p \in Nodes, NEW n \in Nodes, Dels(s, e, p, n)
                 PROVE  heap[PrevOf(e)] # e /\ heap[NextOf(e)] # e
      BY <1>5, <2>2 DEF Lingers
    <3>1. Shaped(heap, on', s, 0) BY <1>5 DEF OrderInv, Shapely
    <3>2. e \notin on' /\ p \in on' /\ heap[NextOf(e)] \in on' BY <3>1, DelShape
    <3>3. Dels(s, x, heap[PrevOf(x)], heap[NextOf(x)]) BY <1>3, DelForm
    <3>4. x = e /\ heap[PrevOf(x)] = p BY <3>3, SameEntry
    <3> QED BY <3>2, <3>4
  <2> QED BY <2>1, <2>2
<1> QED BY <1>1, <1>3, <1>4, <1>5, CallIs

\* every step
LEMMA NextLingers ==
  ASSUME LingerInv, OrderInv', [Next]_vars
  PROVE  LingerInv'
<1>1. Inv BY DEF LingerInv, OrderInv
<1> SUFFICES ASSUME NEW u \in Tasks PROVE Lingers(heap', stores'[u], done'[u])
  BY DEF LingerInv
<1>2. ASSUME NEW t \in Tasks, TaskStep(t) PROVE Lingers(heap', stores'[u], done'[u])
  <2>1. CASE AddEntry(t)
    <3>1. Shapely(heap, on, stores, done) BY DEF LingerInv, OrderInv
    <3>2. CASE UNCHANGED <<heap, on, stores, done>> BY <3>2 DEF LingerInv
    <3>3. CASE /\ Calls(t)
               /\ \E new \in Entries, p, n \in Nodes : Adding(heap, on', stores'[t], new, p, n)
      <4>1. CASE u = t
        <5>1. ~Deletes(stores'[u]) BY <3>3, <4>1, DeletesIs
        <5> QED BY <5>1, DeletesIs DEF Lingers
      <4>2. CASE u # t
        <5>1. heap' = heap /\ stores'[u] = stores[u] BY <3>3, <4>2 DEF Calls
        <5>2. done' = done BY <2>1 DEF AddEntry, Call
        <5> QED BY <5>1, <5>2 DEF LingerInv
      <4> QED BY <4>1, <4>2
    <3> QED BY <1>1, <2>1, <3>1, <3>2, <3>3, AddCalls
  <2>2. CASE DeleteEntry(t) BY <2>2, DeleteLingers
  <2>3. CASE Store(t) BY <2>3, StoreLingers
  <2>4. CASE \/ ReadAhead(t) \/ Advance(t) \/ EndWalk(t)
             \/ \E h \in Heads \cap on, dir \in {"next", "prev"}, safe \in BOOLEAN :
                  StartWalk(t, h, dir, safe)
    BY <2>4 DEF ReadAhead, Advance, EndWalk, StartWalk, LingerInv
  <2> QED BY <1>2, <2>1, <2>2, <2>3, <2>4 DEF TaskStep
<1>3. CASE Quiet /\ Alone
  <2>1. stores' = stores
    BY <1>3 DEF Alone, MoveEntry, ReplaceEntry, Rotate, CutList, SpliceList, InitList, Do
  <2>2. stores'[u] = <<>> BY <1>3, <2>1 DEF Quiet, Idle
  <2>3. ~Deletes(stores'[u]) BY <2>2, DeletesIs
  <2> QED BY <2>3, DeletesIs DEF Lingers
<1>4. CASE UNCHANGED vars BY <1>4 DEF vars, LingerInv
<1> QED BY <1>2, <1>3, <1>4 DEF Next

\* while nothing is added to it or adds it, the node under test has a next pointer to itself
ProbeInv ==
  probe # None /\ ~readded => /\ probe \in Nodes /\ heap[NextOf(probe)] = probe
                              /\ ~Readding(probe)

CarefulInv == LingerInv /\ ProbeInv

\* deletions leave alone a next pointer to the node itself
LEMMA StoreAside ==
  ASSUME LingerInv, NEW t \in Tasks, Store(t), NEW x \in Nodes, heap[NextOf(x)] = x,
         ~Readding(x)
  PROVE  heap'[NextOf(x)] = x
<1> DEFINE s == stores[t]
           k == done[t]
<1>1. Inv BY DEF LingerInv, OrderInv
<1>2. /\ s # <<>> /\ k \in 0..3 /\ s[k + 1][1] \in Targets(s)
      /\ \A y : y # s[k + 1][1] => heap'[y] = heap[y]
  BY <1>1, StoreIs
<1>3. CASE s[k + 1][1] # NextOf(x) BY <1>2, <1>3
<1>4. CASE s[k + 1][1] = NextOf(x)
  <2>1. Deleting(t) BY <1>2, <1>4 DEF Readding, Idle
  <2>2. Deletes(s) BY <2>1, DeletingIs
  <2>3. Shaped(heap, on, s, k) BY DEF LingerInv, OrderInv, Shapely
  <2>4. PICK e \in Entries, p, n \in Nodes : Dels(s, e, p, n)
    BY <1>2, <2>2, <2>3, DeletesIs DEF Shaped, Removing
  <2>5. /\ k < 2 => heap[NextOf(p)] = e
        /\ e # p
    BY <2>3, <2>4, DelShape
  <2>6. k < 3 => heap[NextOf(e)] # e BY <2>4 DEF LingerInv, Lingers
  <2> HIDE DEF s, k
  <2>7. /\ s[1] = <<PrevOf(n), p>> /\ s[2] = <<NextOf(p), n>> /\ s[3][1] = NextOf(e)
        /\ s[4][1] = PrevOf(e)
    BY <2>4, DelStores
  <2>8. CASE k = 0 BY <1>4, <2>7, <2>8, PointersDiffer
  <2>9. CASE k = 1
    <3>1. x = p BY <1>4, <2>7, <2>9, PointersDiffer
    <3> QED BY <2>5, <2>9, <3>1
  <2>10. CASE k = 2
    <3>1. x = e BY <1>4, <2>7, <2>10, PointersDiffer
    <3> QED BY <2>6, <2>10, <3>1
  <2>11. CASE k = 3 BY <1>4, <2>7, <2>11, PointersDiffer
  <2> QED BY <1>2, <2>8, <2>9, <2>10, <2>11
<1> QED BY <1>3, <1>4

\* only a store changes the heap while functions may be in progress
LEMMA HeapKept ==
  ASSUME NEW t \in Tasks, TaskStep(t)
  PROVE  Store(t) \/ heap' = heap
BY DEF TaskStep, AddEntry, DeleteEntry, Call, ReadAhead, Advance, EndWalk, StartWalk

\* every step of the test and of the tasks next to it
LEMMA NextProbe ==
  ASSUME CarefulInv, [TNext]_tested
  PROVE  ProbeInv'
<1>1. ASSUME NEW n \in Nodes, ReadNextPointer(n) PROVE ProbeInv'
  <2>1. probe' = n /\ readded' = Readding(n) /\ heap' = heap /\ stores' = stores
    BY <1>1 DEF ReadNextPointer, vars
  <2>2. heap[NextOf(n)] = n BY <1>1 DEF ReadNextPointer, list_empty
  <2>3. Readding(n)' <=> Readding(n) BY <2>1 DEF Readding, Idle, Deleting
  <2> QED BY <2>1, <2>2, <2>3 DEF ProbeInv, Readding, Idle, Deleting
<1>2. CASE ReadPrevPointer BY <1>2 DEF ReadPrevPointer, ProbeInv
<1>3. CASE Beside
  <2> SUFFICES ASSUME probe' # None, ~readded'
               PROVE  /\ probe' \in Nodes /\ heap'[NextOf(probe')] = probe'
                      /\ ~Readding(probe)'
    BY DEF ProbeInv
  <2>1. probe' = probe /\ ~readded /\ ~Readding(probe)' BY <1>3 DEF Beside
  <2>2. probe \in Nodes /\ heap[NextOf(probe)] = probe /\ ~Readding(probe)
    BY <2>1 DEF CarefulInv, ProbeInv
  <2>3. PICK t \in Tasks : TaskStep(t) BY <1>3, <2>1 DEF Beside
  <2>4. heap'[NextOf(probe)] = probe BY <2>2, <2>3, HeapKept, StoreAside DEF CarefulInv
  <2> QED BY <2>1, <2>2, <2>4
<1>4. CASE UNCHANGED tested
  <2>1. UNCHANGED <<heap, stores, probe, readded>> BY <1>4 DEF tested, vars
  <2> QED BY <2>1 DEF CarefulInv, ProbeInv, Readding, Idle, Deleting
<1> QED BY <1>1, <1>2, <1>3, <1>4 DEF TNext

\* A function that is yet to store into the node under test leaves it with two pointers that
\* are not both to itself.
LEMMA CarefulGives ==
  ASSUME LingerInv, NEW x \in Nodes, heap[NextOf(x)] = x, heap[PrevOf(x)] = x, ~Readding(x),
         NEW t \in Tasks, done[t] > 0, NEW i \in (done[t] + 1)..Len(stores[t])
  PROVE  stores[t][i][1] \notin {NextOf(x), PrevOf(x)}
<1> DEFINE s == stores[t]
           k == done[t]
<1> SUFFICES ASSUME s[i][1] \in {NextOf(x), PrevOf(x)} PROVE FALSE OBVIOUS
<1>1. /\ Shaped(heap, on, s, k) /\ Lingers(heap, s, k) /\ s \in Stores
      /\ s # <<>> /\ Len(s) = 4 /\ k \in 0..3
  <2>1. Inv BY DEF LingerInv, OrderInv
  <2>2. s # <<>>
    <3>1. s = <<>> => k = 0 BY <2>1 DEF Inv, TypeOK
    <3> QED BY <3>1
  <2>3. Shaped(heap, on, s, k) /\ Lingers(heap, s, k) BY DEF LingerInv, OrderInv, Shapely
  <2> QED BY <2>1, <2>2, <2>3, InvGives DEF Idle, FourEach
<1>2. i \in 2..4 /\ i > k BY <1>1
<1>3. Deletes(s)
  <2>1. s[i][1] \in Targets(s) BY <1>1, <1>2, InTargets
  <2>2. Deleting(t) BY <1>1, <2>1 DEF Readding, Idle
  <2> QED BY <2>2, DeletingIs
<1> HIDE DEF s, k
<1>4. PICK e \in Entries, p, n \in Nodes : Dels(s, e, p, n)
  BY <1>1, <1>3, DeletesIs DEF Shaped, Removing
<1>5. (k < 2 => heap[NextOf(p)] = e) /\ e # p BY <1>1, <1>4, DelShape
<1>6. heap[PrevOf(e)] # e BY <1>1, <1>4 DEF Lingers
<1>7. s[2] = <<NextOf(p), n>> /\ s[3][1] = NextOf(e) /\ s[4][1] = PrevOf(e) BY <1>4, DelStores
<1>8. CASE i = 2
  <2>1. x = p BY <1>7, <1>8, PointersDiffer
  <2> QED BY <1>1, <1>2, <1>5, <1>8, <2>1
<1>9. CASE i = 3
  <2>1. x = e BY <1>7, <1>9, PointersDiffer
  <2> QED BY <1>6, <2>1
<1>10. CASE i = 4
  <2>1. x = e BY <1>7, <1>10, PointersDiffer
  <2> QED BY <1>6, <2>1
<1> QED BY <1>2, <1>8, <1>9, <1>10

\* When list_empty_careful says yes of a node, by two readings between which any other stores
\* fall, then no function that has begun is yet to store into it, unless one added to the node,
\* or added the node, in the meantime (list.h:211-228).
THEOREM CarefulTestHolds == TSpec => []CarefulIsQuiet
<1>1. TInit => Init /\ ProbeInv BY DEF TInit, ProbeInv
<1>2. [TNext]_tested => [Next]_vars
  BY DEF TNext, tested, Next, ReadPrevPointer, ReadNextPointer, Beside
<1>3. TSpec => []OrderInv BY <1>1, <1>2, OrderHolds, PTL DEF TSpec, Spec
<1>4. Init /\ OrderInv => LingerInv
  <2> SUFFICES ASSUME Init, OrderInv, NEW u \in Tasks PROVE Lingers(heap, stores[u], done[u])
    BY DEF LingerInv
  <2>1. ~Deletes(stores[u]) BY DeletesIs DEF Init
  <2> QED BY <2>1, DeletesIs DEF Lingers
<1>5. LingerInv /\ [Next]_vars /\ OrderInv' => LingerInv' BY NextLingers
<1>6. CarefulInv /\ [TNext]_tested => ProbeInv' BY NextProbe
<1>7. CarefulInv => CarefulIsQuiet
  <2> SUFFICES ASSUME CarefulInv, NEW n \in Nodes, NEW t \in Tasks, list_empty_careful(n),
                      ~readded, done[t] > 0, NEW i \in (done[t] + 1)..Len(stores[t])
               PROVE  stores[t][i][1] \notin {NextOf(n), PrevOf(n)}
    BY DEF CarefulIsQuiet
  <2>1. n # None BY CarefulAssumption
  <2>2. heap[NextOf(n)] = n /\ heap[PrevOf(n)] = n /\ ~Readding(n)
    BY <2>1 DEF CarefulInv, ProbeInv, list_empty_careful
  <2> QED BY <2>2, CarefulGives DEF CarefulInv
<1>8. CarefulInv <=> LingerInv /\ ProbeInv BY DEF CarefulInv
<1> QED BY <1>1, <1>2, <1>3, <1>4, <1>5, <1>6, <1>7, <1>8, PTL DEF TSpec
=============================================================================
