------------------------------- MODULE Lists -------------------------------
(***************************************************************************)
(* What list.h promises: each head stands for a sequence of entries, and   *)
(* an operation does to the sequences what its name says, at once.         *)
(***************************************************************************)
EXTENDS Naturals, SequencesExt

CONSTANTS Heads, Entries
VARIABLE lists

Init == lists = [h \in Heads |-> <<>>]

Listed == UNION {ToSet(lists[h]) : h \in Heads}

Insert(h, i, e) == /\ e \notin Listed
                   /\ lists' = [lists EXCEPT ![h] = InsertAt(@, i, e)]

Delete(h, i) == lists' = [lists EXCEPT ![h] = RemoveAt(@, i)]

\* the i-th entry of h goes to the j-th place of the list of k that remains
Move(h, i, k, j) ==
  LET without == [lists EXCEPT ![h] = RemoveAt(@, i)]
  IN  /\ j \in 1..(Len(without[k]) + 1)
      /\ lists' = [without EXCEPT ![k] = InsertAt(@, j, lists[h][i])]

Replace(h, i, e) == e \notin Listed /\ lists' = [lists EXCEPT ![h][i] = e]

\* the first n entries of h go to the empty list k
Cut(h, k, n) == /\ lists[k] = <<>>
                /\ lists' = [lists EXCEPT ![k] = SubSeq(lists[h], 1, n),
                                          ![h] = SubSeq(@, n + 1, Len(@))]

\* all of k goes to the front or to the back of h
Splice(h, k) ==
  \/ lists' = [lists EXCEPT ![k] = <<>>, ![h] = lists[k] \o @]
  \/ lists' = [lists EXCEPT ![k] = <<>>, ![h] = @ \o lists[k]]

Next == \E h \in Heads :
  \/ \E i \in 1..(Len(lists[h]) + 1), e \in Entries : Insert(h, i, e)
  \/ \E i \in DOMAIN lists[h] :
       \/ Delete(h, i)
       \/ \E e \in Entries : Replace(h, i, e)
       \/ \E k \in Heads : \E j \in 1..(Len(lists[k]) + 1) : Move(h, i, k, j)
  \/ \E k \in Heads \ {h} : \/ Splice(h, k)
                            \/ \E n \in DOMAIN lists[h] : Cut(h, k, n)

Spec == Init /\ [][Next]_lists
=============================================================================
