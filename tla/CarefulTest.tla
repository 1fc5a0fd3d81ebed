---------------------------- MODULE CarefulTest ----------------------------
(***************************************************************************)
(* list_empty_careful of TP_02/EXO-01/list.h: another task tests a node    *)
(* without synchronization while the tasks of ListHead run functions on    *)
(* the lists.  The test reads the next pointer and then, if that points to *)
(* the node itself, the prev pointer; the other tasks may make stores      *)
(* between the two readings.                                               *)
(***************************************************************************)
EXTENDS ListHead

VARIABLES
  probe,    \* the node whose next pointer the test has read, and found to be to itself
  readded   \* auxiliary: a function that adds to it or adds it ran during the test

tested == <<vars, probe, readded>>

None == "none"

ASSUME CarefulAssumption == None \notin Nodes

TInit == Init /\ probe = None /\ readded = FALSE

\* a function in progress other than a deletion stores into the pointers of n
Readding(n) == \E t \in Tasks : /\ ~Idle(t) /\ ~Deleting(t)
                                /\ Targets(stores[t]) \cap {NextOf(n), PrevOf(n)} # {}

\* the first reading; a next pointer to another node settles the test at once
ReadNextPointer(n) == /\ probe = None /\ list_empty(heap, n)
                      /\ probe' = n /\ readded' = Readding(n)
                      /\ UNCHANGED vars

FirstReading(n) == probe = n   \* mutant: no second reading, as in list_empty

\* what the second reading makes the test say of n
list_empty_careful(n) == probe = n /\ heap[PrevOf(n)] = n

ReadPrevPointer == /\ probe # None
                   /\ probe' = None /\ readded' = FALSE
                   /\ UNCHANGED vars

\* a step of the other tasks
Beside == /\ \/ \E t \in Tasks : TaskStep(t)
             \/ Quiet /\ probe = None /\ Alone
          /\ UNCHANGED probe
          /\ readded' = (readded \/ (probe # None /\ Readding(probe)'))

TNext == \/ ~Stopped /\ (ReadPrevPointer \/ Beside \/ \E n \in Nodes : ReadNextPointer(n))
         \/ Stopped /\ UNCHANGED tested

TSpec == TInit /\ [][TNext]_tested

-----------------------------------------------------------------------------
(* Property.                                                               *)

\* list_empty_careful "tests whether a list is empty _and_ checks that no other
\* CPU might be in the process of modifying either member (next or prev)", as
\* long as "the only activity that can happen to the list entry is
\* list_del_init()" (list.h:215-222): when the second reading makes the test say
\* yes, and nothing was added to the node or the node added since the first, no
\* function that has made a store is yet to store into the node.
CarefulIsQuiet ==
  \A n \in Nodes, t \in Tasks :
    list_empty_careful(n) /\ ~readded /\ done[t] > 0
      => \A i \in (done[t] + 1)..Len(stores[t]) :
           stores[t][i][1] \notin {NextOf(n), PrevOf(n)}
=============================================================================
