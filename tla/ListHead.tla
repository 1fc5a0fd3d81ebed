------------------------------ MODULE ListHead ------------------------------
(***************************************************************************)
(* The doubly linked lists of TP_02/EXO-01/list.h, the kernel's header,    *)
(* with whose functions the task monitor, kcpustat and update_sb link      *)
(* their data.                                                             *)
(*                                                                         *)
(* A function of list.h is the sequence of the stores it makes into the    *)
(* heap, in the order of the code.  Tasks that share no lock run the       *)
(* functions the drivers call (list_add, list_add_tail, list_del,          *)
(* list_del_init) one store at a time, next to each other and to loops     *)
(* over the list.  Two functions in progress that store into the same      *)
(* pointer race, and nothing is said of what follows.  The other functions *)
(* run whole, with the lists to themselves.                                *)
(***************************************************************************)
EXTENDS Naturals, FiniteSets, SequencesExt

CONSTANTS
  Heads,     \* list heads
  Entries,   \* the list_heads embedded in the elements
  Tasks,     \* tasks that use the lists
  Walkers,   \* the tasks among them that loop over lists
  Wild       \* a pointer to no node: uninitialised or LIST_POISON

Nodes == Heads \cup Entries

ASSUME ListAssumption == /\ Heads \cap Entries = {} /\ Wild \notin Nodes
                         /\ IsFiniteSet(Entries) /\ Walkers \subseteq Tasks

NextOf(n) == <<n, "next">>
PrevOf(n) == <<n, "prev">>
Pointers == Nodes \X {"next", "prev"}

VARIABLES
  heap,        \* heap[p]: where the pointer p points
  on,          \* the nodes that their users hold to be on a list
  stores,      \* stores[t]: the stores of the function that t is in
  done,        \* done[t]: how many of them it has made
  walk,        \* walk[t]: the loop over a list that t is in
  disturbed,   \* auxiliary: the tasks whose loop another task may upset
  raced        \* two functions in progress store into the same pointer

vars == <<heap, on, stores, done, walk, disturbed, raced>>

NoWalk == [dir |-> "none"]

Walks == [dir : {"next", "prev"}, safe : BOOLEAN, head : Heads,
          at : Nodes \cup {Wild}, ahead : Nodes \cup {Wild, "unread"}]

TypeOK ==
  /\ heap \in [Pointers -> Nodes \cup {Wild}]
  /\ on \subseteq Nodes
  /\ stores \in [Tasks -> Seq(Pointers \X (Nodes \cup {Wild}))]
  /\ done \in [Tasks -> Nat]
  /\ \A t \in Tasks : IF stores[t] = <<>> THEN done[t] = 0
                                           ELSE done[t] < Len(stores[t])
  /\ walk \in [Tasks -> Walks \cup {NoWalk}]
  /\ disturbed \subseteq Tasks /\ raced \in BOOLEAN

\* the heads are LIST_HEAD_INIT, the entries fresh from kmalloc
Init == /\ heap = [p \in Pointers |-> IF p[1] \in Heads THEN p[1] ELSE Wild]
        /\ on = Heads
        /\ stores = [t \in Tasks |-> <<>>] /\ done = [t \in Tasks |-> 0]
        /\ walk = [t \in Tasks |-> NoWalk]
        /\ disturbed = {} /\ raced = FALSE

-----------------------------------------------------------------------------
(* The functions of list.h: the stores that each makes into the heap h.    *)

Targets(s) == {s[i][1] : i \in DOMAIN s}

\* the last value that the stores s put into the pointer p
LastStored(s, p) ==
  CHOOSE v \in {s[i][2] : i \in DOMAIN s} :
    \E i \in DOMAIN s : /\ s[i] = <<p, v>>
                        /\ \A j \in DOMAIN s : s[j][1] = p => j <= i

Written(h, s) ==
  [p \in DOMAIN h |-> IF p \in Targets(s) THEN LastStored(s, p) ELSE h[p]]

INIT_LIST_HEAD(list) == << <<NextOf(list), list>>, <<PrevOf(list), list>> >>

\* mutant: new is linked before its own pointers are set
LinkFirst(new, prev, next) == << <<NextOf(prev), new>>, <<PrevOf(next), new>>,
                                 <<NextOf(new), next>>, <<PrevOf(new), prev>> >>

__list_add(new, prev, next) == << <<PrevOf(next), new>>, <<NextOf(new), next>>,
                                  <<PrevOf(new), prev>>, <<NextOf(prev), new>> >>

list_add(h, new, head) == __list_add(new, head, h[NextOf(head)])

list_add_tail(h, new, head) == __list_add(new, h[PrevOf(head)], head)

DelForward(prev, next) == << <<NextOf(prev), next>> >>   \* mutant: one way only

__list_del(prev, next) == << <<PrevOf(next), prev>>, <<NextOf(prev), next>> >>

__list_del_entry(h, entry) == __list_del(h[PrevOf(entry)], h[NextOf(entry)])

list_del(h, entry) == __list_del_entry(h, entry)
                      \o << <<NextOf(entry), Wild>>, <<PrevOf(entry), Wild>> >>

list_replace(h, old, new) ==
  LET next == h[NextOf(old)]
      half == << <<NextOf(new), next>>, <<PrevOf(next), new>> >>
      prev == Written(h, half)[PrevOf(old)]
  IN  half \o << <<PrevOf(new), prev>>, <<NextOf(prev), new>> >>

list_replace_init(h, old, new) == list_replace(h, old, new) \o INIT_LIST_HEAD(old)

list_del_init(h, entry) == __list_del_entry(h, entry) \o INIT_LIST_HEAD(entry)

list_move(h, list, head) ==
  LET del == __list_del_entry(h, list)
  IN  del \o list_add(Written(h, del), list, head)

list_move_tail(h, list, head) ==
  LET del == __list_del_entry(h, list)
  IN  del \o list_add_tail(Written(h, del), list, head)

list_empty(h, head) == h[NextOf(head)] = head

list_rotate_left(h, head) ==
  IF list_empty(h, head) THEN <<>> ELSE list_move_tail(h, h[NextOf(head)], head)

list_is_singular(h, head) == ~list_empty(h, head) /\ h[NextOf(head)] = h[PrevOf(head)]

__list_cut_position(h, list, head, entry) ==
  LET first == h[NextOf(head)]
  IN  << <<NextOf(list), first>>, <<PrevOf(first), list>>, <<PrevOf(list), entry>>,
         <<NextOf(entry), list>>, <<NextOf(head), h[NextOf(entry)]>>,
         <<PrevOf(h[NextOf(entry)]), head>> >>

list_cut_position(h, list, head, entry) ==
  IF \/ list_empty(h, head)
     \/ list_is_singular(h, head) /\ entry \notin {head, h[NextOf(head)]}
    THEN <<>>
    ELSE IF entry = head THEN INIT_LIST_HEAD(list)
                         ELSE __list_cut_position(h, list, head, entry)

__list_splice(h, list, prev, next) ==
  << <<PrevOf(h[NextOf(list)]), prev>>, <<NextOf(prev), h[NextOf(list)]>>,
     <<NextOf(h[PrevOf(list)]), next>>, <<PrevOf(next), h[PrevOf(list)]>> >>

list_splice(h, list, head) ==
  IF list_empty(h, list) THEN <<>> ELSE __list_splice(h, list, head, h[NextOf(head)])

list_splice_tail(h, list, head) ==
  IF list_empty(h, list) THEN <<>> ELSE __list_splice(h, list, h[PrevOf(head)], head)

list_splice_init(h, list, head) ==
  IF list_empty(h, list) THEN <<>>
                         ELSE list_splice(h, list, head) \o INIT_LIST_HEAD(list)

list_splice_tail_init(h, list, head) ==
  IF list_empty(h, list) THEN <<>>
                         ELSE list_splice_tail(h, list, head) \o INIT_LIST_HEAD(list)

-----------------------------------------------------------------------------
(* Tasks that share no lock.                                               *)

Idle(t) == stores[t] = <<>>

\* t's function takes an entry off its list: it leaves a pointer to nothing, or
\* to the entry itself
Deleting(t) == \E i \in DOMAIN stores[t] : stores[t][i][2] \in {Wild, stores[t][i][1][1]}

\* t calls a function that makes the stores s, and holds linked to be on lists
Call(t, s, linked) ==
  /\ Idle(t)
  /\ IF \A u \in Tasks : Targets(stores[u]) \cap Targets(s) = {}
       THEN /\ stores' = [stores EXCEPT ![t] = s] /\ on' = linked
            /\ UNCHANGED raced
       ELSE raced' = TRUE /\ UNCHANGED <<stores, on>>
  /\ UNCHANGED <<heap, done, walk>>

\* an insertion may upset the loops that go backwards, a deletion any other loop
Upsets(t, dirs) ==
  disturbed' = disturbed \cup {u \in Tasks \ {t} : walk[u].dir \in dirs}

AddEntry(t) ==
  /\ walk[t] = NoWalk
  /\ \E new \in Entries \ on, pos \in on :
       \/ Call(t, list_add(heap, new, pos), on \cup {new})
       \/ Call(t, list_add_tail(heap, new, pos), on \cup {new})
  /\ Upsets(t, {"prev"})

Store(t) ==
  /\ ~Idle(t)
  /\ LET i == done[t] + 1
     IN  /\ heap' = [heap EXCEPT ![stores[t][i][1]] = stores[t][i][2]]
         /\ IF i < Len(stores[t])
              THEN done' = [done EXCEPT ![t] = i] /\ UNCHANGED stores
              ELSE /\ done' = [done EXCEPT ![t] = 0]
                   /\ stores' = [stores EXCEPT ![t] = <<>>]
  /\ UNCHANGED <<on, walk, disturbed, raced>>

\* list_for_each, _prev, _safe and _prev_safe, and their _entry forms
StartWalk(t, head, dir, safe) ==
  /\ t \in Walkers /\ Idle(t) /\ walk[t] = NoWalk
  /\ walk' = [walk EXCEPT ![t] = [dir |-> dir, safe |-> safe, head |-> head,
                                  at |-> heap[<<head, dir>>], ahead |-> "unread"]]
  /\ disturbed' = IF \E u \in Tasks : Deleting(u) \/ (~Idle(u) /\ dir = "prev")
                    THEN disturbed \cup {t} ELSE disturbed
  /\ UNCHANGED <<heap, on, stores, done, raced>>

AfterBody(t) == ~walk[t].safe     \* mutant: no loop reads ahead of its body

ReadsAhead(t) == walk[t].safe

InBody(t) == /\ walk[t] # NoWalk /\ walk[t].at \in Nodes \ {walk[t].head}
             /\ Idle(t)

\* a _safe loop reads the pointer to the entry after before its body
ReadAhead(t) ==
  /\ InBody(t) /\ ReadsAhead(t) /\ walk[t].ahead = "unread"
  /\ walk' = [walk EXCEPT ![t].ahead = heap[<<walk[t].at, walk[t].dir>>]]
  /\ UNCHANGED <<heap, on, stores, done, disturbed, raced>>

Ready(t) == InBody(t) /\ (ReadsAhead(t) => walk[t].ahead # "unread")

\* a task that is in no loop deletes any entry, a _safe loop the one it is at
DeleteEntry(t) ==
  /\ \E e \in Entries \cap on :
       /\ walk[t] = NoWalk \/ (Ready(t) /\ walk[t].safe /\ walk[t].at = e)
       /\ \/ Call(t, list_del(heap, e), on \ {e})
          \/ Call(t, list_del_init(heap, e), on \ {e})
  /\ Upsets(t, {"next", "prev"})

Advance(t) ==
  /\ Ready(t)
  /\ walk' = [walk EXCEPT ![t].ahead = "unread",
                          ![t].at = IF ReadsAhead(t) THEN walk[t].ahead
                                    ELSE heap[<<walk[t].at, walk[t].dir>>]]
  /\ UNCHANGED <<heap, on, stores, done, disturbed, raced>>

EndWalk(t) == /\ walk[t] # NoWalk /\ walk[t].at = walk[t].head
              /\ walk' = [walk EXCEPT ![t] = NoWalk]
              /\ disturbed' = disturbed \ {t}
              /\ UNCHANGED <<heap, on, stores, done, raced>>

-----------------------------------------------------------------------------
(* A task that has the lists to itself.                                    *)

Quiet == \A t \in Tasks : Idle(t) /\ walk[t] = NoWalk

Do(s, linked) == /\ heap' = Written(heap, s) /\ on' = linked
                 /\ UNCHANGED <<stores, done, walk, disturbed, raced>>

MoveEntry == \E e \in Entries \cap on : \E pos \in on \ {e} :
  \/ Do(list_move(heap, e, pos), on)
  \/ Do(list_move_tail(heap, e, pos), on)

ReplaceEntry == \E e \in Entries \cap on, new \in Entries \ on :
  \/ Do(list_replace(heap, e, new), (on \ {e}) \cup {new})
  \/ Do(list_replace_init(heap, e, new), (on \ {e}) \cup {new})

Rotate == \E h \in Heads \cap on : Do(list_rotate_left(heap, h), on)

\* the nodes from head on, along the next pointers, until they are back at head or
\* lead nowhere
Order(head) ==
  LET after == [x \in Nodes \cup {Wild} |-> IF x \in Nodes THEN heap[NextOf(x)] ELSE Wild]
      n[i \in 1..(Cardinality(Entries) + 1)] == IF i = 1 THEN after[head] ELSE after[n[i - 1]]
      ends == {i \in DOMAIN n : n[i] = head}
  IN  IF ends = {} THEN n
                   ELSE SubSeq(n, 1, (CHOOSE i \in ends : \A j \in ends : i <= j) - 1)

CutList == \E h, list \in Heads \cap on :
  /\ h # list /\ list_empty(heap, list)
  /\ \E entry \in {h} \cup {e \in Entries \cap on : e \in ToSet(Order(h))} :
       Do(list_cut_position(heap, list, h, entry), on)

\* a list that was spliced without _init has a head that is no good
Spliced(list) == IF list_empty(heap, list) THEN on ELSE on \ {list}

\* list and h are lists of their own
SpliceList == \E h, list \in Heads \cap on :
  /\ h # list /\ h \notin {heap[NextOf(list)], heap[PrevOf(list)]}
  /\ \/ Do(list_splice(heap, list, h), Spliced(list))
     \/ Do(list_splice_tail(heap, list, h), Spliced(list))
     \/ Do(list_splice_init(heap, list, h), on)
     \/ Do(list_splice_tail_init(heap, list, h), on)

InitList == \E list \in Heads \ on : Do(INIT_LIST_HEAD(list), on \cup {list})

TaskStep(t) ==
  \/ AddEntry(t) \/ DeleteEntry(t) \/ Store(t) \/ ReadAhead(t) \/ Advance(t) \/ EndWalk(t)
  \/ \E h \in Heads \cap on, dir \in {"next", "prev"}, safe \in BOOLEAN :
       StartWalk(t, h, dir, safe)

Alone == MoveEntry \/ ReplaceEntry \/ Rotate \/ CutList \/ SpliceList \/ InitList

\* t's loop dereferences a wild pointer
Lost(t) == walk[t] # NoWalk /\ walk[t].at = Wild

Stopped == raced \/ \E t \in Tasks : Lost(t)

Next == \/ ~Stopped /\ \E t \in Tasks : TaskStep(t)
        \/ ~Stopped /\ Quiet /\ Alone
        \/ Stopped /\ UNCHANGED vars

Spec == Init /\ [][Next]_vars

-----------------------------------------------------------------------------
(* Properties.                                                             *)

\* the pointers of the nodes in on stay among them, and forwards and backwards are
\* the inverse of each other
Ring(h, linked) == \A n \in linked :
  /\ h[NextOf(n)] \in linked /\ h[PrevOf(h[NextOf(n)])] = n
  /\ h[PrevOf(n)] \in linked /\ h[NextOf(h[PrevOf(n)])] = n

\* Functions that run next to each other leave whole rings behind, as long as no
\* two in progress store into the same pointer: which list and which entries
\* they work on does not matter (list.h:57-129).
RingsWhole == (\A t \in Tasks : Idle(t)) => Ring(heap, on)

\* At every moment, also between two stores, the next pointers show the lists as
\* sequences on which the functions called so far have been carried out at once:
\* a function takes effect with the one store that joins its neighbours.
Sequences == INSTANCE Lists WITH
  lists <- [h \in Heads |-> IF h \in on THEN Order(h) ELSE <<>>]
Implements == Sequences!Spec

\* A loop comes across no wild pointer when other tasks only insert, and insert
\* only if it goes forwards; a _safe loop may also delete what it is at.
LoopsStayOnList == \A t \in Tasks : Lost(t) => t \in disturbed
=============================================================================
