-------------------------- MODULE TaskMonitorProofs --------------------------
(***************************************************************************)
(* Proofs about TaskMonitor, for every set of samples, readers, reclaimers *)
(* and unloaders, every slab layout and every value of the bounds.         *)
(*                                                                         *)
(* The invariant of the first part says what holds however the list        *)
(* functions overlap: types; where a cursor may stand (CursorInv); and     *)
(* that a sample has one releaser, while it is allocated (ReleasedOnce).   *)
(* Nothing in it is about the pointers of the list.                        *)
(*                                                                         *)
(* The second part proves what the counters count, which order unloading   *)
(* keeps, and which wrong accesses come before any release; it rests on    *)
(* the invariant of the first.                                             *)
(*                                                                         *)
(* The third part is about the pointers, as long as no two list functions  *)
(* have overlapped: it follows list_add_tail and list_del store by store,  *)
(* with everything else that can happen between two of their stores.       *)
(***************************************************************************)
EXTENDS TaskMonitor, FiniteSetTheorems, TLAPS

\* Only the sampling thread runs save_sample; a walk visits no head; and who has
\* used a sample, and not only read a pointer to it, is on a sample.
CursorInv ==
  \A a \in Actors :
    /\ pc[a] \in {"alloc", "add", "account"} \cup Adding => a = Sampler
    /\ pc[a] = "visit" => p_ts[a] # head
    /\ pc[a] \in {"hold", "unlink", "free", "acct", "add", "account"} \cup Adding \cup Deleting
         => p_ts[a] \in Samples

IInv == TypeOK /\ CursorInv /\ ReleasedOnce

-----------------------------------------------------------------------------
USE NodesAssumption, ActorsAssumption, BoundAssumption
    DEF Readers, Droppers, Actors, Nodes, Pointers

\* The initial state, as monitor_init leaves it: an empty list, nobody at work.
LEMMA InitIInv == Init => IInv
<1> SUFFICES ASSUME Init PROVE IInv
  OBVIOUS
<1>1. TypeOK
  <2>1. nextSlot \in Layouts /\ live \subseteq Samples /\ ref \in [Samples -> Int]
    BY DEF Init
  <2>2. nxt \in [Nodes -> Pointers] /\ prv \in [Nodes -> Pointers]
    BY DEF Init
  <2>3. pc \in [Actors -> PCs] /\ up \subseteq Parts
    BY DEF Init, PCs
  <2>4. p_ts \in [Actors -> Pointers] /\ q_ts \in [Actors -> Pointers]
    BY DEF Init
  <2>5. bef \in [Actors -> Pointers] /\ aft \in [Actors -> Pointers]
    BY <2>4 DEF Init
  <2>6. tmp \in [Actors -> Nat] /\ res \in [Reclaimers -> Nat]
    BY DEF Init
  <2>7. tmLive \in BOOLEAN /\ overdrop \in BOOLEAN /\ raced \in BOOLEAN
    BY DEF Init
  <2>8. /\ nb_samples \in Nat /\ total_created \in Nat /\ total_destroyed \in Nat
        /\ tmRef \in Int
    BY DEF Init
  <2>9. counting \subseteq Reclaimers /\ fault \in {"none", "sample", "monitor"}
        /\ listRef \subseteq Samples
    BY DEF Init
  <2> QED
    BY <2>1, <2>2, <2>3, <2>4, <2>5, <2>6, <2>7, <2>8, <2>9 DEF TypeOK
<1>2. CursorInv
  BY DEF Init, CursorInv, Adding, Deleting
<1>3. ReleasedOnce
  BY DEF Init, ReleasedOnce, Releasing, Deleting
<1> QED
  BY <1>1, <1>2, <1>3 DEF IInv

\* The steps, as the proofs below tell them apart: those that move the actor along
\* its walk over the monitors, ...
Moves(a) == \/ GetTm(a) \/ CountTm(a) \/ PutTm(a) \/ KfreeTm(a) \/ EndWalk(a)
            \/ Account(a) \/ Show(a) \/ Reclaim(a) \/ Unload(a) \/ Teardown(a)

\* ... and the loads and stores of the list functions.
OnList(a) == Add(a) \/ Link(a) \/ Unlink(a) \/ ReadNext(a) \/ ListDel(a)

LEMMA StepCases ==
  ASSUME [Next]_vars
  PROVE  \/ \E a \in Actors : Moves(a)
         \/ \E a \in Actors : SampleOk(a) /\ \/ First(a) \/ Visit(a) \/ Advance(a)
                                             \/ PutSample(a) \/ Drop(a)
                                             \/ OnList(a) \/ Free(a) \/ Acct(a)
                                             \/ Alloc(a)
         \/ \E a \in Actors : Fault(a)
         \/ WakeUp \/ StopSeen
         \/ UNCHANGED vars
<1> USE DEF Moves, OnList
<1>1. CASE \E a \in Actors : Start(a)
  BY <1>1 DEF Start, Enter
<1>2. CASE \E a \in Actors : Step(a)
  BY <1>2 DEF Step, Walk
<1>3. CASE Tick
  BY <1>3 DEF Tick
<1>4. CASE Halted
  BY <1>4 DEF Halted
<1> QED
  BY <1>1, <1>2, <1>3, <1>4 DEF Next

\* Nothing happens after a wrong access.
LEMMA FaultStops ==
  ASSUME [Next]_vars
  PROVE  fault = "none" \/ UNCHANGED vars
BY DEF Next, Start, Step, Tick, Halted

\* what the accesses of the list functions leave alone, and where they lead
listKept == <<nextSlot, live, ref, tmVars, totals, up, p_ts, q_ts, tmp, res, counting,
              fault, listRef, overdrop>>

LEMMA OnListMoves ==
  ASSUME NEW a \in Actors, OnList(a)
  PROVE  /\ UNCHANGED listKept
         /\ \E l : /\ pc' = [pc EXCEPT ![a] = l]
                   /\ \/ pc[a] \in {"add"} \cup Adding /\ l \in {"account"} \cup Adding
                      \/ pc[a] \in {"unlink"} \cup Deleting /\ l \in {"free"} \cup Deleting
<1> USE DEF Goto, Adding, Deleting, listKept
<1>1. CASE Add(a)
  BY <1>1 DEF Add, sampleVars
<1>2. CASE Link(a)
  <2>1. UNCHANGED listKept
    BY <1>2 DEF Link, locals, auxVars
  <2> QED
    BY <1>2, <2>1 DEF Link, __list_add
<1>3. CASE Unlink(a)
  BY <1>3 DEF Unlink, sampleVars
<1>4. CASE ReadNext(a)
  BY <1>4 DEF ReadNext, shared, sampleVars, auxVars
<1>5. CASE ListDel(a)
  <2>1. UNCHANGED listKept
    BY <1>5 DEF ListDel, locals, auxVars
  <2> QED
    BY <1>5, <2>1 DEF ListDel, __list_del
<1> QED
  BY <1>1, <1>2, <1>3, <1>4, <1>5 DEF OnList

-----------------------------------------------------------------------------
(* Types.                                                                  *)

LEMMA MovesType ==
  ASSUME IInv, NEW a \in Actors, Moves(a)
  PROVE  TypeOK'
<1> USE DEF IInv, TypeOK, Goto, PCs, Parts, shared, locals, torn, sampleVars,
            tmVars, totals, auxVars
<1>1. CASE GetTm(a)
  BY <1>1 DEF GetTm, Body
<1>2. CASE CountTm(a)
  <2>1. res' \in [Reclaimers -> Nat]
    <3>1. CASE a \in Reclaimers
      BY <1>2, <3>1 DEF CountTm
    <3>2. CASE a \notin Reclaimers
      BY <1>2, <3>2 DEF CountTm
    <3> QED
      BY <3>1, <3>2
  <2> QED
    BY <1>2, <2>1 DEF CountTm
<1>3. CASE PutTm(a)
  BY <1>3 DEF PutTm, LastRef
<1>4. CASE KfreeTm(a)
  BY <1>4 DEF KfreeTm
<1>5. CASE EndWalk(a)
  BY <1>5 DEF EndWalk
<1>6. CASE Account(a)
  BY <1>6 DEF Account
<1>7. CASE Show(a)
  BY <1>7 DEF Show
<1>8. CASE Reclaim(a)
  BY <1>8 DEF Reclaim
<1>9. CASE Unload(a)
  BY <1>9 DEF Unload
<1>10. CASE UnloadWalk(a)
  BY <1>10 DEF UnloadWalk
<1>11. CASE SysfsGone(a)
  BY <1>11 DEF SysfsGone
<1>12. CASE ShrinkerGone(a)
  BY <1>12 DEF ShrinkerGone
<1>13. CASE CacheGone(a)
  BY <1>13 DEF CacheGone
<1>14. CASE DebugfsGone(a)
  BY <1>14 DEF DebugfsGone
<1>15. CASE FreeAllTasks(a)
  BY <1>15 DEF FreeAllTasks
<1> QED
  BY <1>1, <1>2, <1>3, <1>4, <1>5, <1>6, <1>7, <1>8, <1>9, <1>10, <1>11, <1>12, <1>13,
     <1>14, <1>15 DEF Moves, Teardown

LEMMA OnListType ==
  ASSUME IInv, NEW a \in Actors, OnList(a)
  PROVE  TypeOK'
<1> USE DEF IInv, TypeOK
<1>1. UNCHANGED listKept
  BY OnListMoves
<1>2. pc' \in [Actors -> PCs]
  BY OnListMoves DEF PCs
<1>3. p_ts[a] \in Samples
  BY DEF OnList, Add, Link, __list_add, Unlink, ReadNext, ListDel, __list_del, CursorInv,
         Adding, Deleting
<1>4. /\ bef' \in [Actors -> Pointers] /\ aft' \in [Actors -> Pointers]
      /\ raced' \in BOOLEAN
      /\ nxt' \in [Nodes -> Pointers] /\ prv' \in [Nodes -> Pointers]
  <2> USE <1>3 DEF SetNext, SetPrev, Enters, sampleVars, shared, locals, auxVars
  <2>1. CASE Add(a)
    BY <2>1 DEF Add
  <2>2. CASE Link(a)
    <3>1. UNCHANGED <<bef, aft, raced>>
      BY <2>2 DEF Link
    <3> QED
      BY <2>2, <3>1 DEF Link, __list_add
  <2>3. CASE Unlink(a)
    BY <2>3 DEF Unlink
  <2>4. CASE ReadNext(a)
    BY <2>4 DEF ReadNext
  <2>5. CASE ListDel(a)
    <3>1. UNCHANGED <<bef, aft, raced>>
      BY <2>5 DEF ListDel
    <3> QED
      BY <2>5, <3>1 DEF ListDel, __list_del
  <2> QED
    BY <2>1, <2>2, <2>3, <2>4, <2>5 DEF OnList
<1> QED
  BY <1>1, <1>2, <1>4 DEF listKept, tmVars, totals

LEMMA WalkType ==
  ASSUME IInv, NEW a \in Actors, SampleOk(a),
         \/ First(a) \/ Visit(a) \/ Advance(a) \/ PutSample(a) \/ Drop(a)
         \/ Free(a) \/ Acct(a) \/ Alloc(a)
  PROVE  TypeOK'
<1> USE DEF IInv, TypeOK, Goto, PCs, shared, locals, sampleVars, tmVars, totals,
            auxVars
<1>1. CASE First(a)
  <2>1. nxt[head] \in Pointers /\ prv[head] \in Pointers
    OBVIOUS
  <2>2. UNCHANGED <<shared, bef, aft, tmp, res, counting>>
    BY <1>1 DEF First
  <2>3. p_ts' \in [Actors -> Pointers] /\ q_ts' \in [Actors -> Pointers]
    BY <1>1, <2>1 DEF First
  <2>4. pc' \in [Actors -> PCs]
    BY <1>1 DEF First, At
  <2> QED
    BY <2>2, <2>3, <2>4
<1>2. CASE Visit(a)
  BY <1>2 DEF Visit
<1>3. CASE Advance(a)
  <2>1. (IF a \in Readers THEN p_ts[a] ELSE q_ts[a]) \in Nodes
    BY <1>3 DEF Advance, SampleOk, Accesses
  <2>2. UNCHANGED <<shared, bef, aft, tmp, res, counting>>
    BY <1>3 DEF Advance
  <2>3. p_ts' \in [Actors -> Pointers] /\ q_ts' \in [Actors -> Pointers]
    BY <1>3, <2>1 DEF Advance
  <2>4. pc' \in [Actors -> PCs]
    BY <1>3 DEF Advance, At
  <2> QED
    BY <2>2, <2>3, <2>4
<1>4. CASE PutSample(a)
  <2>1. p_ts[a] \in Samples
    BY <1>4 DEF PutSample, CursorInv
  <2> QED
    BY <1>4, <2>1 DEF PutSample, KrefPut, Resume
<1>5. CASE Drop(a)
  <2>1. overdrop' \in BOOLEAN
    BY <1>5 DEF Drop
  <2>2. p_ts[a] \in Samples
    BY <1>5 DEF Drop, SampleOk, Accesses, CursorInv
  <2>3. ref' \in [Samples -> Int] /\ pc' \in [Actors -> PCs]
    BY <1>5, <2>2 DEF Drop, KrefPut, Resume
  <2>4. listRef' \subseteq Samples
    BY <1>5 DEF Drop
  <2>5. UNCHANGED <<nextSlot, live, nxt, prv, tmVars, totals, up, locals, fault, raced>>
    BY <1>5 DEF Drop
  <2> QED
    BY <2>1, <2>3, <2>4, <2>5
<1>6. CASE Free(a)
  BY <1>6 DEF Free
<1>7. CASE Acct(a)
  <2>1. prv' \in [Nodes -> Pointers]
    BY <1>7 DEF Acct
  <2>2. total_destroyed' \in Nat /\ tmp' \in [Actors -> Nat]
    BY <1>7 DEF Acct, Destroyed
  <2> QED
    BY <1>7, <2>1, <2>2 DEF Acct, Resume
<1>8. CASE Alloc(a)
  BY <1>8 DEF Alloc, FreshRef
<1> QED
  BY <1>1, <1>2, <1>3, <1>4, <1>5, <1>6, <1>7, <1>8

LEMMA TypeStep ==
  ASSUME IInv, [Next]_vars
  PROVE  TypeOK'
<1> USE DEF IInv, TypeOK, vars, shared, locals, sampleVars, tmVars, totals, auxVars
<1>1. CASE \E a \in Actors : Fault(a)
  BY <1>1 DEF Fault
<1>2. CASE WakeUp
  BY <1>2 DEF WakeUp, Goto, PCs
<1>3. CASE StopSeen
  BY <1>3 DEF StopSeen, Goto, PCs
<1>4. CASE UNCHANGED vars
  BY <1>4
<1> QED
  BY <1>1, <1>2, <1>3, <1>4, StepCases, MovesType, WalkType, OnListType

-----------------------------------------------------------------------------
(* Cursors and releasers.                                                  *)

\* A move touches no sample and no other actor, and takes nobody into the part
\* of the walk that works on a sample.
LEMMA MovesQuiet ==
  ASSUME IInv, NEW a \in Actors, Moves(a)
  PROVE  /\ UNCHANGED sampleVars
         /\ \A b \in Actors \ {a} : /\ pc'[b] = pc[b] /\ p_ts'[b] = p_ts[b]
                                   /\ q_ts'[b] = q_ts[b] /\ bef'[b] = bef[b]
         /\ aft' = aft
         /\ pc'[a] \notin {"add", "account", "visit", "unlink", "free", "acct", "advance"}
                            \cup Adding \cup Deleting
         /\ pc'[a] = "alloc" => a = Sampler
         /\ pc'[a] = "hold" => p_ts'[a] = p_ts[a] /\ pc[a] = "account"
<1> USE DEF IInv, TypeOK, Goto, shared, locals, torn, sampleVars, Adding, Deleting
<1>1. CASE GetTm(a)
  BY <1>1 DEF GetTm, Body
<1>2. CASE CountTm(a)
  BY <1>2 DEF CountTm
<1>3. CASE PutTm(a)
  BY <1>3 DEF PutTm, LastRef
<1>4. CASE KfreeTm(a)
  BY <1>4 DEF KfreeTm
<1>5. CASE EndWalk(a)
  BY <1>5 DEF EndWalk
<1>6. CASE Account(a)
  BY <1>6 DEF Account
<1>7. CASE Show(a)
  BY <1>7 DEF Show
<1>8. CASE Reclaim(a)
  BY <1>8 DEF Reclaim
<1>9. CASE Unload(a)
  BY <1>9 DEF Unload
<1>10. CASE UnloadWalk(a)
  BY <1>10 DEF UnloadWalk
<1>11. CASE SysfsGone(a)
  BY <1>11 DEF SysfsGone
<1>12. CASE ShrinkerGone(a)
  BY <1>12 DEF ShrinkerGone
<1>13. CASE CacheGone(a)
  BY <1>13 DEF CacheGone
<1>14. CASE DebugfsGone(a)
  BY <1>14 DEF DebugfsGone
<1>15. CASE FreeAllTasks(a)
  BY <1>15 DEF FreeAllTasks
<1> QED
  BY <1>1, <1>2, <1>3, <1>4, <1>5, <1>6, <1>7, <1>8,
     <1>9, <1>10, <1>11, <1>12, <1>13, <1>14, <1>15 DEF Moves, Teardown

LEMMA CursorStep ==
  ASSUME IInv, [Next]_vars
  PROVE  CursorInv'
<1> USE DEF IInv, TypeOK, CursorInv, Goto, Adding, Deleting
<1>1. ASSUME NEW a \in Actors, Moves(a) PROVE CursorInv'
  BY <1>1, MovesQuiet
<1>2. ASSUME NEW a \in Actors, SampleOk(a), First(a) \/ Advance(a)
      PROVE  CursorInv'
  BY <1>2 DEF First, Advance, At
<1>3. ASSUME NEW a \in Actors, SampleOk(a), Visit(a) \/ PutSample(a) \/ Drop(a)
      PROVE  CursorInv'
  <2>1. p_ts[a] \in Samples
    BY <1>3 DEF Visit, PutSample, Drop, SampleOk, Accesses
  <2> QED
    BY <1>3, <2>1 DEF Visit, PutSample, Drop, KrefPut, Resume, locals
<1>4. ASSUME NEW a \in Actors, Free(a) \/ Acct(a)
      PROVE  CursorInv'
  BY <1>4 DEF Free, Acct, Resume
<1>5. ASSUME NEW a \in Actors, OnList(a)
      PROVE  CursorInv'
  BY <1>5, OnListMoves DEF listKept
<1>6. ASSUME NEW a \in Actors, Alloc(a)
      PROVE  CursorInv'
  BY <1>6 DEF Alloc
<1>7. CASE \/ UNCHANGED vars \/ WakeUp \/ StopSeen \/ \E a \in Actors : Fault(a)
  BY <1>7 DEF Fault, WakeUp, StopSeen, vars, locals
<1> QED
  BY <1>1, <1>2, <1>3, <1>4, <1>5, <1>6, <1>7, StepCases

\* A put that starts a release is the first to bring the count to 0.
LEMMA PutReleases ==
  ASSUME IInv, NEW a \in Actors, SampleOk(a), PutSample(a) \/ Drop(a)
  PROVE  ReleasedOnce'
<1> USE DEF IInv, TypeOK, Goto, Releasing, Deleting
<1> DEFINE s == p_ts[a]
<1>1. /\ s \in live
      /\ UNCHANGED <<live, p_ts>>
      /\ ref' = [ref EXCEPT ![s] = @ - 1]
      /\ pc' = [pc EXCEPT ![a] = IF ref[s] = 1 THEN "unlink" ELSE Resume(a)]
  BY DEF PutSample, Drop, KrefPut, LastRef, SampleOk, Accesses, CursorInv, locals
<1> SUFFICES ASSUME NEW b \in Actors, Releasing(b)'
             PROVE  /\ p_ts[b] \in live /\ ref'[p_ts[b]] <= 0
                    /\ \A c \in Actors : Releasing(c)' /\ p_ts[c] = p_ts[b] => c = b
  BY <1>1 DEF ReleasedOnce
<1>2. s \in Samples
  BY <1>1
<1>3. \A c \in Actors : Releasing(c)' => Releasing(c) \/ (c = a /\ ref[s] = 1)
  BY <1>1 DEF Resume
<1> QED
  BY <1>1, <1>2, <1>3 DEF ReleasedOnce

\* the steps that take nobody into a release, and touch no sample being released
LEMMA ReleasersKept ==
  ASSUME ReleasedOnce, UNCHANGED <<live, ref>>,
         \A b \in Actors : Releasing(b)' => Releasing(b) /\ p_ts'[b] = p_ts[b]
  PROVE  ReleasedOnce'
BY DEF ReleasedOnce

LEMMA ReleaserStep ==
  ASSUME IInv, [Next]_vars
  PROVE  ReleasedOnce'
<1> USE DEF IInv, TypeOK, Releasing, Deleting, Goto
<1>1. ASSUME NEW a \in Actors, Moves(a) PROVE ReleasedOnce'
  BY <1>1, MovesQuiet, ReleasersKept DEF sampleVars
<1>2. ASSUME NEW a \in Actors, First(a) \/ Advance(a) \/ Acct(a)
      PROVE  ReleasedOnce'
  BY <1>2, ReleasersKept DEF First, Advance, At, Acct, Resume, shared, sampleVars
<1>3. ASSUME NEW a \in Actors, SampleOk(a), Visit(a)
      PROVE  ReleasedOnce'
  <2>1. p_ts[a] \in Samples
    BY <1>3 DEF Visit, SampleOk, Accesses, CursorInv
  <2> QED
    BY <1>3, <2>1 DEF Visit, GetUnlessZero, locals, ReleasedOnce
<1>4. ASSUME NEW a \in Actors, SampleOk(a), PutSample(a) \/ Drop(a)
      PROVE  ReleasedOnce'
  BY <1>4, PutReleases
<1>5. ASSUME NEW a \in Actors, OnList(a)
      PROVE  ReleasedOnce'
  BY <1>5, OnListMoves, ReleasersKept DEF listKept, Adding
<1>6. ASSUME NEW a \in Actors, Free(a)
      PROVE  ReleasedOnce'
  BY <1>6 DEF Free, ReleasedOnce
<1>7. ASSUME NEW a \in Actors, Alloc(a)
      PROVE  ReleasedOnce'
  <2>1. \A b \in Actors : Releasing(b)' => Releasing(b) /\ p_ts'[b] = p_ts[b]
    BY <1>7 DEF Alloc
  <2> QED
    BY <1>7, <2>1 DEF Alloc, ReleasedOnce
<1>8. CASE \/ UNCHANGED vars \/ WakeUp \/ StopSeen \/ \E a \in Actors : Fault(a)
  BY <1>8, ReleasersKept DEF Fault, WakeUp, StopSeen, vars, shared, locals, sampleVars
<1> QED
  BY <1>1, <1>2, <1>3, <1>4, <1>5, <1>6, <1>7, <1>8, StepCases

-----------------------------------------------------------------------------
(* Theorems.                                                               *)

\* Types, cursors and releasers, however walks, releases and list functions
\* interleave, access by access.
THEOREM Invariance == Spec => []IInv
<1>1. IInv /\ [Next]_vars => IInv'
  BY TypeStep, CursorStep, ReleaserStep DEF IInv
<1> QED
  BY InitIInv, <1>1, PTL DEF Spec

\* Every variable of the monitor keeps its type: no cursor, pointer or counter
\* ever holds a value the C declarations and the walks do not account for.
THEOREM TypeCorrect == Spec => []TypeOK
<1>1. IInv => TypeOK
  BY DEF IInv
<1> QED
  BY Invariance, <1>1, PTL

\* task_sample_release runs once per life of a sample, whatever the number of
\* readers, reclaims and unloaders that put its references (taskmonitor2.c:172),
\* and whatever overlapping list functions make of the list.
THEOREM ReleaseOnce == Spec => []ReleasedOnce
<1>1. IInv => ReleasedOnce
  BY DEF IInv
<1> QED
  BY Invariance, <1>1, PTL

-----------------------------------------------------------------------------
(* Refinement of KrefLifetime.                                             *)

Phase(s) == IF s \notin live THEN "free" ELSE IF ref[s] > 0 THEN "alive" ELSE "dying"

phases == [s \in Samples |-> Phase(s)]

\* A step that moves one sample t to its next phase, or none.
LEMMA OnePhase ==
  ASSUME NEW t \in Samples, \A s \in Samples \ {t} : Phase(s)' = Phase(s),
         \/ Phase(t)' = Phase(t)
         \/ Phase(t) = "free" /\ Phase(t)' = "alive"
         \/ Phase(t) = "alive" /\ Phase(t)' = "dying"
         \/ Phase(t) = "dying" /\ Phase(t)' = "free"
  PROVE  [Lifetime!Next]_phases
<1>1. phases' = [phases EXCEPT ![t] = Phase(t)']
  BY DEF phases
<1>2. phases[t] = Phase(t)
  BY DEF phases
<1>3. CASE Phase(t)' = Phase(t)
  BY <1>1, <1>2, <1>3 DEF phases
<1>4. CASE Phase(t) = "free" /\ Phase(t)' = "alive"
  BY <1>1, <1>2, <1>4 DEF Lifetime!Next, Lifetime!Alloc, phases, Phase
<1>5. CASE Phase(t) = "alive" /\ Phase(t)' = "dying"
  BY <1>1, <1>2, <1>5 DEF Lifetime!Next, Lifetime!LastPut, phases, Phase
<1>6. CASE Phase(t) = "dying" /\ Phase(t)' = "free"
  BY <1>1, <1>2, <1>6 DEF Lifetime!Next, Lifetime!Release, phases, Phase
<1> QED
  BY <1>3, <1>4, <1>5, <1>6

LEMMA PhaseStep ==
  ASSUME IInv, [Next]_vars
  PROVE  [Lifetime!Next]_phases
<1> USE DEF IInv, TypeOK
<1>1. ASSUME UNCHANGED <<live, ref>>
      PROVE  [Lifetime!Next]_phases
  BY <1>1 DEF phases, Phase
<1>2. ASSUME NEW a \in Actors, Moves(a) PROVE UNCHANGED <<live, ref>>
  BY <1>2, MovesQuiet DEF sampleVars
<1>3. ASSUME NEW a \in Actors, First(a) \/ Advance(a) \/ Acct(a) \/ OnList(a)
      PROVE  UNCHANGED <<live, ref>>
  BY <1>3, OnListMoves DEF First, Advance, Acct, shared, sampleVars, listKept
<1>4. ASSUME NEW a \in Actors, SampleOk(a), Visit(a) \/ PutSample(a) \/ Drop(a)
      PROVE  [Lifetime!Next]_phases
  <2> DEFINE t == p_ts[a]
  <2>1. t \in live
    BY <1>4 DEF Visit, PutSample, Drop, SampleOk, Accesses, CursorInv
  <2>2. /\ live' = live
        /\ \/ ref' = ref
           \/ ref[t] # 0 /\ ref' = [ref EXCEPT ![t] = @ + 1]
           \/ ref' = [ref EXCEPT ![t] = @ - 1]
    BY <1>4 DEF Visit, PutSample, Drop, KrefPut, GetUnlessZero
  <2>3. \A s \in Samples \ {t} : Phase(s)' = Phase(s)
    BY <2>1, <2>2 DEF Phase
  <2>4. \/ Phase(t)' = Phase(t)
        \/ Phase(t) = "alive" /\ Phase(t)' = "dying"
    <3>1. p_ts' = p_ts
      BY <1>4 DEF Visit, PutSample, Drop, locals
    <3> QED
      BY <2>1, <2>2, <3>1 DEF Phase
  <2> QED
    <3>1. p_ts' = p_ts /\ t \in Samples
      BY <1>4, <2>1 DEF Visit, PutSample, Drop, locals
    <3> QED
      BY <2>3, <2>4, <3>1, OnePhase
<1>5. ASSUME NEW a \in Actors, Free(a)
      PROVE  [Lifetime!Next]_phases
  <2>1. PICK t \in live : t = p_ts[a] /\ ref[t] <= 0
    BY <1>5 DEF Free, ReleasedOnce, Releasing
  <2>2. live' = live \ {t} /\ ref' = ref
    BY <1>5, <2>1 DEF Free
  <2>3. \A s \in Samples \ {t} : Phase(s)' = Phase(s)
    BY <2>2 DEF Phase
  <2>4. Phase(t) = "dying" /\ Phase(t)' = "free"
    BY <2>1, <2>2 DEF Phase
  <2> QED
    BY <2>3, <2>4, OnePhase
<1>6. ASSUME NEW a \in Actors, Alloc(a)
      PROVE  [Lifetime!Next]_phases
  <2>1. CASE UNCHANGED <<live, ref>>
    BY <1>1, <2>1
  <2>2. ASSUME NEW t \in Samples \ live, live' = live \cup {t},
               ref' = [ref EXCEPT ![t] = 2]
        PROVE  [Lifetime!Next]_phases
    <3>1. \A s \in Samples \ {t} : Phase(s)' = Phase(s)
      BY <2>2 DEF Phase
    <3>2. Phase(t) = "free" /\ Phase(t)' = "alive"
      BY <2>2 DEF Phase
    <3> QED
      BY <3>1, <3>2, OnePhase
  <2> QED
    BY <1>6, <2>1, <2>2 DEF Alloc, FreshRef
<1>7. CASE \/ UNCHANGED vars \/ WakeUp \/ StopSeen \/ \E a \in Actors : Fault(a)
  BY <1>1, <1>7 DEF Fault, WakeUp, StopSeen, vars, shared, sampleVars
<1> QED
  BY <1>1, <1>2, <1>3, <1>4, <1>5, <1>6, <1>7, StepCases

\* The monitor handles its samples as a kref promises: an allocated sample
\* whose count has reached 0 is never taken back into use before it is freed,
\* and no sample is freed while its count is positive.
THEOREM Refinement == Spec => Implements
<1>1. Init => Lifetime!Init
  BY DEF Init, Lifetime!Init
<1>2. IInv /\ [Next]_vars => [Lifetime!Next]_phases
  BY PhaseStep
<1>3. QED
  BY <1>1, <1>2, Invariance, PTL
     DEF Spec, Implements, Lifetime!Spec, phases, Phase

-----------------------------------------------------------------------------
(* Counters, references and the order of unloading.                        *)

\* LivingNotUnderReported, and: so it will be when a release has written back the
\* total_destroyed it has read.
TotalsInv ==
  /\ LivingNotUnderReported
  /\ \A a \in Actors :
       pc[a] = "acct" => tmp[a] + 1 + Cardinality(live) <= total_created + Uncounted

\* where an actor holds a reference on the sample p_ts[a] that it took itself
Holds == {"add", "account", "hold"} \cup Adding

\* RefAccounting, and: a sample that is held is allocated.
RefInv ==
  /\ RefAccounting
  /\ ~overdrop => \A a \in Actors : pc[a] \in Holds => p_ts[a] \in live

\* where monitor_exit is, and only it
ExitPlaces == {"stop", "sysfs", "shrinker", "cache", "debugfs", "unloaded"}

\* monitor_exit takes no reference, neither on tm nor, as my_shrink_scan, on samples;
\* the sampling thread does not walk over them.
InPlace(a) ==
  /\ pc[a] \in ExitPlaces => a \in Unloaders
  /\ a \in Unloaders => pc[a] \notin {"get_tm", "count", "alloc"}
  /\ a \in Droppers => pc[a] \notin Holds
  /\ pc[a] \in {"first", "visit", "advance"} => a # Sampler
PlacesInv == \A a \in Actors : InPlace(a)

\* A thread that has seen that it is to stop stays stopped, and monitor_exit goes
\* past each wait only once those it waits for are idle and will stay so.
TeardownInv ==
  /\ \A u \in Unloaders :
       /\ pc[u] \notin {"idle", "stop"} => pc[Sampler] = "stopped"
       /\ pc[u] \in ExitPlaces \ {"stop"} => "sysfs" \notin up
       /\ pc[u] \in {"shrinker", "cache", "debugfs", "unloaded"}
            => "shrinker" \notin up /\ SysfsDrained
       /\ pc[u] \in {"cache", "debugfs", "unloaded"} => ShrinkerDrained
       /\ pc[u] \in {"debugfs", "unloaded"} => "debugfs" \notin up
       /\ pc[u] = "unloaded" => DebugfsDrained
  /\ "all_tasks" \notin up => \E u \in Unloaders : pc[u] = "unloaded"

\* the actors with a reference on tm of their own
HoldsTm == {"count", "alloc", "add", "account", "first", "visit", "hold", "unlink",
            "free", "acct", "advance", "put_tm"} \cup Adding \cup Deleting
TmHolders == {a \in Actors \ Unloaders : pc[a] \in HoldsTm}

\* monitor_exit has put the reference that monitor_init took
InitialPut ==
  \E u \in Unloaders : pc[u] \in {"kfree_tm", "next_tm"} \cup (ExitPlaces \ {"stop"})

\* tm's count is what is held of it; who frees tm has found nothing held.
TmInv ==
  /\ tmRef = Cardinality(TmHolders) + (IF InitialPut THEN 0 ELSE 1)
  /\ ~tmLive \/ (\E a \in Actors : pc[a] = "kfree_tm") => tmRef = 0

\* the nodes that can be the next of another
Ring == Linked \cup {head}

\* what a has in hand before any release: memory that is allocated, but for a reader
\* whose cursor was not set yet; forwards, nodes with a next pointer
CleanCursor(a) ==
  /\ pc[a] \in Holds => p_ts[a] \in live
  /\ pc[a] \in Adding => bef[a] \in live \cup {head}
  /\ pc[a] \in {"add3", "add4"} => nxt[p_ts[a]] # Poison
  /\ a \in Readers => /\ pc[a] = "visit" => p_ts[a] \in live \cup {Poison}
                      /\ pc[a] = "advance" => p_ts[a] \in live
  /\ a \in Droppers => /\ pc[a] = "visit" => p_ts[a] \in Linked
                       /\ pc[a] \in {"visit", "advance"} => q_ts[a] \in Ring

\* no pointer leads to memory that is not allocated, save from a sample that is being
\* added, and the next pointers lead to nodes that have one
CleanMem ==
  /\ Linked \subseteq live
  /\ \A n \in Ring : nxt[n] \in Ring
  /\ \A n \in Nodes : prv[n] \in live \cup {head, Poison}
  /\ prv[head] # Poison
  /\ \A a \in Actors : CleanCursor(a)

\* FaultNeedsRelease, and the pointers as they are until a release
CleanInv == FaultNeedsRelease /\ (~Released => CleanMem)

\* the inductive invariant
MInv == IInv /\ TotalsInv /\ RefInv /\ PlacesInv /\ TeardownInv /\ TmInv /\ CleanInv

-----------------------------------------------------------------------------
\* Sets of samples and of actors can be counted.
LEMMA Finite ==
  ASSUME TypeOK
  PROVE  /\ \A S : S \subseteq live => IsFiniteSet(S) /\ Cardinality(S) \in Nat
         /\ \A A : A \subseteq Actors => IsFiniteSet(A) /\ Cardinality(A) \in Nat
BY FiniteAssumption, FS_Subset, FS_CardinalityType DEF TypeOK

-----------------------------------------------------------------------------
(* Samples created, destroyed and alive.                                   *)

\* the steps that leave these alone
LEMMA TotalsKept ==
  ASSUME TotalsInv, UNCHANGED <<live, totals, tmp>>, Uncounted' = Uncounted,
         \A b \in Actors : pc'[b] = "acct" => pc[b] = "acct"
  PROVE  TotalsInv'
BY DEF TotalsInv, LivingNotUnderReported, totals

LEMMA MovesTotals ==
  ASSUME IInv, NEW a \in Actors, Moves(a), ~Account(a)
  PROVE  /\ UNCHANGED <<live, totals, tmp, auxVars, fault>>
         /\ pc[a] \notin Holds /\ pc'[a] \notin Holds
<1> USE DEF IInv, TypeOK, Goto, Holds, Adding, shared, torn, locals, sampleVars
<1>1. CASE GetTm(a) \/ CountTm(a) \/ PutTm(a) \/ KfreeTm(a) \/ EndWalk(a)
  BY <1>1 DEF GetTm, CountTm, PutTm, KfreeTm, EndWalk, Body
<1>2. CASE Show(a) \/ Reclaim(a) \/ Unload(a)
  BY <1>2 DEF Show, Reclaim, Unload
<1>3. CASE Teardown(a)
  BY <1>3 DEF Teardown, UnloadWalk, SysfsGone, ShrinkerGone, CacheGone, DebugfsGone,
              FreeAllTasks
<1> QED
  BY <1>1, <1>2, <1>3 DEF Moves

LEMMA TotalsStep ==
  ASSUME IInv, TotalsInv, [Next]_vars
  PROVE  TotalsInv'
<1> USE DEF IInv, TypeOK, CursorInv, Goto, Uncounted, Adding
<1>1. ASSUME NEW a \in Actors, Moves(a), ~Account(a)
      PROVE  TotalsInv'
  <2>1. /\ UNCHANGED <<live, totals, tmp>> /\ pc[a] \notin Holds /\ pc'[a] \notin Holds
        /\ pc'[a] # "acct" /\ \A b \in Actors \ {a} : pc'[b] = pc[b]
    BY <1>1, MovesTotals, MovesQuiet
  <2> QED
    BY <2>1, TotalsKept DEF Holds
<1>2. ASSUME NEW a \in Actors, Account(a)
      PROVE  TotalsInv'
  <2>1. /\ a = Sampler /\ pc[a] = "account" /\ pc'[a] = "hold"
        /\ total_created' = total_created + 1
        /\ UNCHANGED <<live, total_destroyed, tmp>>
        /\ \A b \in Actors \ {a} : pc'[b] = pc[b]
    BY <1>2 DEF Account, sampleVars, locals
  <2>2. total_created' + Uncounted' = total_created + Uncounted
    BY <2>1
  <2>3. Cardinality(live) \in Nat
    BY Finite
  <2> QED
    BY <2>1, <2>2, <2>3 DEF TotalsInv, LivingNotUnderReported
<1>3. ASSUME NEW a \in Actors, First(a) \/ Visit(a) \/ Advance(a) \/ PutSample(a) \/ Drop(a)
      PROVE  TotalsInv'
  <2>1. UNCHANGED <<live, totals, tmp>>
    BY <1>3 DEF First, Visit, Advance, PutSample, Drop, shared, locals, sampleVars
  <2>2. pc'[a] # "acct" /\ \A b \in Actors \ {a} : pc'[b] = pc[b]
    BY <1>3 DEF First, Visit, Advance, PutSample, Drop, At, KrefPut, Resume
  <2>3. /\ pc[a] \notin {"add", "account"} \cup Adding
        /\ pc'[a] \notin {"add", "account"} \cup Adding
    BY <1>3 DEF First, Visit, Advance, PutSample, Drop, At, KrefPut, Resume
  <2> QED
    BY <2>1, <2>2, <2>3, TotalsKept
<1>8. ASSUME NEW a \in Actors, OnList(a)
      PROVE  TotalsInv'
  <2>1. UNCHANGED <<live, totals, tmp>>
    BY <1>8, OnListMoves DEF listKept
  <2>2. Uncounted' = Uncounted
    BY <1>8, OnListMoves DEF Deleting
  <2>3. \A b \in Actors : pc'[b] = "acct" => pc[b] = "acct"
    BY <1>8, OnListMoves DEF Deleting
  <2> QED
    BY <2>1, <2>2, <2>3, TotalsKept
<1>4. ASSUME NEW a \in Actors, Free(a)
      PROVE  TotalsInv'
  <2>1. /\ pc[a] = "free" /\ pc' = [pc EXCEPT ![a] = "acct"]
        /\ live' = live \ {p_ts[a]} /\ tmp' = [tmp EXCEPT ![a] = total_destroyed]
        /\ UNCHANGED totals
    BY <1>4 DEF Free
  <2>2. p_ts[a] \in live
    BY <2>1 DEF ReleasedOnce, Releasing
  <2>3. Cardinality(live') = Cardinality(live) - 1 /\ Cardinality(live) \in Nat
    BY <2>1, <2>2, Finite, FS_RemoveElement
  <2>4. Uncounted' = Uncounted
    BY <2>1
  <2>5. LivingNotUnderReported'
    BY <2>1, <2>3, <2>4 DEF TotalsInv, LivingNotUnderReported, totals
  <2>6. tmp'[a] + 1 + Cardinality(live') <= total_created' + Uncounted'
    BY <2>1, <2>3, <2>4 DEF TotalsInv, LivingNotUnderReported, totals
  <2>7. ASSUME NEW b \in Actors \ {a}, pc'[b] = "acct"
        PROVE  tmp'[b] + 1 + Cardinality(live') <= total_created' + Uncounted'
    <3>1. pc[b] = "acct" /\ tmp'[b] = tmp[b] /\ tmp[b] \in Nat
      BY <2>1, <2>7
    <3> QED
      BY <2>1, <2>3, <2>4, <3>1 DEF TotalsInv, totals
  <2> QED
    BY <2>5, <2>6, <2>7 DEF TotalsInv
<1>5. ASSUME NEW a \in Actors, Acct(a)
      PROVE  TotalsInv'
  <2>1. /\ pc[a] = "acct" /\ pc' = [pc EXCEPT ![a] = Resume(a)]
        /\ total_destroyed' = tmp[a] + 1 /\ tmp' = [tmp EXCEPT ![a] = 0]
        /\ UNCHANGED <<live, total_created>>
    BY <1>5 DEF Acct, Destroyed
  <2>2. Uncounted' = Uncounted /\ pc'[a] # "acct" /\ Cardinality(live) \in Nat
    BY <2>1, Finite DEF Resume
  <2> QED
    BY <2>1, <2>2 DEF TotalsInv, LivingNotUnderReported
<1>6. ASSUME NEW a \in Actors, Alloc(a)
      PROVE  TotalsInv'
  <2>1. CASE UNCHANGED live /\ Goto(a, "put_tm")
    BY <1>6, <2>1, TotalsKept DEF Alloc
  <2>2. ASSUME NEW s \in Samples \ live, live' = live \cup {s}, Goto(a, "add")
        PROVE  TotalsInv'
    <3>1. Cardinality(live') = Cardinality(live) + 1 /\ Cardinality(live) \in Nat
      BY <2>2, Finite, FS_AddElement
    <3>2. a = Sampler /\ Uncounted = 0 /\ Uncounted' = 1
      BY <1>6, <2>2 DEF Alloc
    <3>3. UNCHANGED <<totals, tmp>> /\ \A b \in Actors : pc'[b] = "acct" => pc[b] = "acct"
      BY <1>6, <2>2 DEF Alloc
    <3>4. LivingNotUnderReported'
      BY <3>1, <3>2, <3>3 DEF TotalsInv, LivingNotUnderReported, totals
    <3>5. ASSUME NEW b \in Actors, pc'[b] = "acct"
          PROVE  tmp'[b] + 1 + Cardinality(live') <= total_created' + Uncounted'
      <4>1. tmp[b] + 1 + Cardinality(live) <= total_created + Uncounted /\ tmp[b] \in Nat
        BY <3>3, <3>5 DEF TotalsInv
      <4> HIDE DEF Uncounted
      <4> QED
        BY <3>1, <3>2, <3>3, <4>1 DEF totals
    <3> QED
      BY <3>4, <3>5 DEF TotalsInv
  <2> QED
    BY <1>6, <2>1, <2>2 DEF Alloc
<1>7. CASE \/ UNCHANGED vars \/ WakeUp \/ StopSeen \/ \E a \in Actors : Fault(a)
  <2>1. /\ UNCHANGED <<live, totals, tmp>> /\ Uncounted' = Uncounted
        /\ \A b \in Actors : pc'[b] = "acct" => pc[b] = "acct"
    BY <1>7 DEF Fault, WakeUp, StopSeen, vars, shared, locals, sampleVars
  <2> QED
    BY <2>1, TotalsKept
<1> QED
  BY <1>1, <1>2, <1>3, <1>4, <1>5, <1>6, <1>7, <1>8, StepCases

-----------------------------------------------------------------------------
(* References on samples.                                                  *)

\* a step that neither takes nor puts a reference
LEMMA RefKept ==
  ASSUME TypeOK, RefInv, UNCHANGED <<live, ref, listRef, overdrop>>,
         \A b \in Actors : (pc'[b] \in Holds <=> pc[b] \in Holds)
                           /\ (pc[b] \in Holds => p_ts'[b] = p_ts[b])
  PROVE  RefInv'
<1>1. \A s \in Samples : Holders(s)' = Holders(s)
  BY DEF Holders, Holds
<1>2. RefAccounting'
  BY <1>1 DEF TypeOK, RefInv, RefAccounting
<1> QED
  BY <1>2 DEF RefInv

LEMMA RefStep ==
  ASSUME IInv, RefInv, [Next]_vars
  PROVE  RefInv'
<1> USE DEF IInv, TypeOK, CursorInv, Goto, Adding, Deleting, auxVars
<1>1. ASSUME NEW a \in Actors, Moves(a), ~Account(a)
      PROVE  RefInv'
  BY <1>1, MovesTotals, MovesQuiet, RefKept DEF sampleVars, auxVars
<1>2. ASSUME NEW a \in Actors, Account(a) \/ First(a) \/ Advance(a) \/ Acct(a)
      PROVE  RefInv'
  <2>1. UNCHANGED <<live, ref, listRef, overdrop>>
    BY <1>2 DEF Account, First, Advance, Acct, shared, auxVars, sampleVars
  <2>2. (pc'[a] \in Holds <=> pc[a] \in Holds) /\ (pc[a] \in Holds => p_ts'[a] = p_ts[a])
    BY <1>2 DEF Account, First, Advance, Acct, At, Resume, Holds, locals
  <2>3. \A b \in Actors \ {a} : pc'[b] = pc[b] /\ p_ts'[b] = p_ts[b]
    BY <1>2 DEF Account, First, Advance, Acct, At, locals
  <2> QED
    BY <2>1, <2>2, <2>3, RefKept
<1>3. ASSUME NEW a \in Actors, SampleOk(a), Visit(a) \/ PutSample(a) \/ Drop(a)
      PROVE  RefInv'
  <2>1. PICK s \in live : s = p_ts[a] /\ UNCHANGED <<live, p_ts>>
    BY <1>3 DEF Visit, PutSample, Drop, SampleOk, Accesses, locals
  <2>2. \A b \in Actors \ {a} : pc'[b] = pc[b]
    BY <1>3 DEF Visit, PutSample, Drop, KrefPut
  <2>3. \A t \in live \ {s} : Holders(t)' = Holders(t) /\ ref'[t] = ref[t]
    BY <1>3, <2>1, <2>2 DEF Visit, PutSample, Drop, KrefPut, Holders
  <2>4. Holders(s) \subseteq Actors
    BY DEF Holders
  <2>5. IsFiniteSet(Holders(s)) /\ Cardinality(Holders(s)) \in Nat
    BY <2>4, Finite
  <2>6. CASE Visit(a)
    <3>1. CASE GetUnlessZero(ref[s])
      <4>1. /\ pc[a] = "visit" /\ pc'[a] = "hold" /\ ref'[s] = ref[s] + 1
            /\ UNCHANGED <<listRef, overdrop>>
        BY <2>1, <2>6, <3>1 DEF Visit
      <4>2. Holders(s)' = Holders(s) \cup {a} /\ a \notin Holders(s)
        BY <2>1, <2>2, <4>1 DEF Holders
      <4>3. Cardinality(Holders(s)') = Cardinality(Holders(s)) + 1
        <5>1. Cardinality(Holders(s) \cup {a}) = Cardinality(Holders(s)) + 1
          BY <2>5, <4>2, FS_AddElement
        <5> QED
          BY <4>2, <5>1
      <4>4. RefAccounting'
        BY <2>1, <2>3, <2>5, <4>1, <4>3 DEF RefInv, RefAccounting
      <4> QED
        BY <2>1, <2>2, <4>1, <4>4 DEF RefInv
    <3>2. CASE ~GetUnlessZero(ref[s])
      BY <2>1, <2>2, <2>6, <3>2, RefKept DEF Visit, Holds
    <3> QED
      BY <3>1, <3>2
  <2>7. CASE PutSample(a)
    <3>1. /\ pc[a] = "hold" /\ pc'[a] \notin Holds /\ ref'[s] = ref[s] - 1
          /\ UNCHANGED <<listRef, overdrop>>
      BY <2>1, <2>7 DEF PutSample, KrefPut, Resume, Holds
    <3>2. Holders(s)' = Holders(s) \ {a} /\ a \in Holders(s)
      BY <2>1, <2>2, <3>1 DEF Holders, Holds
    <3>3. Cardinality(Holders(s)') = Cardinality(Holders(s)) - 1
      <4>1. Cardinality(Holders(s) \ {a}) = Cardinality(Holders(s)) - 1
        BY <2>5, <3>2, FS_RemoveElement
      <4> QED
        BY <3>2, <4>1
    <3>4. RefAccounting'
      BY <2>1, <2>3, <2>5, <3>1, <3>3 DEF RefInv, RefAccounting
    <3> QED
      BY <2>1, <2>2, <3>1, <3>4 DEF RefInv
  <2>8. CASE Drop(a)
    <3>1. /\ pc[a] = "visit" /\ pc'[a] \notin Holds /\ ref'[s] = ref[s] - 1
          /\ listRef' = listRef \ {s} /\ (~overdrop' => ~overdrop /\ s \in listRef)
      BY <2>1, <2>8 DEF Drop, KrefPut, Resume, Holds
    <3>2. Holders(s)' = Holders(s)
      BY <2>1, <2>2, <3>1 DEF Holders, Holds
    <3>3. RefAccounting'
      BY <2>1, <2>3, <2>5, <3>1, <3>2 DEF RefInv, RefAccounting
    <3> QED
      BY <2>1, <2>2, <3>1, <3>3 DEF RefInv
  <2> QED
    BY <1>3, <2>6, <2>7, <2>8
<1>4. ASSUME NEW a \in Actors, Free(a)
      PROVE  RefInv'
  <2>1. /\ pc[a] = "free" /\ pc' = [pc EXCEPT ![a] = "acct"] /\ live' = live \ {p_ts[a]}
        /\ UNCHANGED <<ref, p_ts, listRef, overdrop>>
    BY <1>4 DEF Free
  <2>2. PICK s \in live : s = p_ts[a] /\ ref[s] <= 0
    BY <2>1 DEF ReleasedOnce, Releasing
  <2>3. \A t \in Samples : Holders(t)' = Holders(t)
    BY <2>1 DEF Holders
  <2>4. ASSUME ~overdrop PROVE Holders(s) = {}
    <3>1. Holders(s) \subseteq Actors
      BY DEF Holders
    <3>2. IsFiniteSet(Holders(s)) /\ Cardinality(Holders(s)) \in Nat
      BY <3>1, Finite
    <3>3. Cardinality(Holders(s)) = 0
      BY <2>2, <2>4, <3>2 DEF RefInv, RefAccounting
    <3> QED
      BY <3>2, <3>3, FS_EmptySet
  <2>5. RefAccounting'
    BY <2>1, <2>3 DEF RefInv, RefAccounting
  <2>6. ASSUME ~overdrop', NEW b \in Actors, pc'[b] \in Holds
        PROVE  p_ts'[b] \in live'
    BY <2>1, <2>2, <2>4, <2>6 DEF RefInv, Holders, Holds
  <2> QED
    BY <2>5, <2>6 DEF RefInv
<1>5. ASSUME NEW a \in Actors, Alloc(a)
      PROVE  RefInv'
  <2>1. CASE UNCHANGED <<live, ref, listRef, p_ts>> /\ Goto(a, "put_tm")
    BY <1>5, <2>1, RefKept DEF Alloc, Holds
  <2>2. ASSUME NEW s \in Samples \ live, live' = live \cup {s},
               ref' = [ref EXCEPT ![s] = 2], listRef' = listRef \cup {s},
               p_ts' = [p_ts EXCEPT ![a] = s], Goto(a, "add")
        PROVE  RefInv'
    <3>1. pc[a] = "alloc" /\ overdrop' = overdrop
      BY <1>5 DEF Alloc
    <3>2. ASSUME NEW t \in live PROVE Holders(t)' = Holders(t) /\ ref'[t] = ref[t]
      BY <2>2, <3>1 DEF Holders
    <3>3. ASSUME ~overdrop PROVE {b \in Actors : p_ts'[b] = s /\ pc'[b] \in Holds} = {a}
      BY <2>2, <3>1, <3>3 DEF RefInv, Holds
    <3>4. Cardinality({a}) = 1
      BY FS_Singleton
    <3>5. RefAccounting'
      <4> SUFFICES ASSUME ~overdrop, NEW t \in live \cup {s}
                   PROVE  ref'[t] = Cardinality(Holders(t)')
                                      + (IF t \in listRef' THEN 1 ELSE 0)
        BY <2>2, <3>1 DEF RefAccounting
      <4>1. CASE t = s
        <5>1. Holders(t)' = {a}
          BY <3>3, <4>1 DEF Holders, Holds
        <5>2. ref'[t] = 2 /\ t \in listRef'
          BY <2>2, <4>1
        <5> QED
          BY <3>4, <5>1, <5>2
      <4>2. CASE t # s
        BY <2>2, <3>2, <4>2 DEF RefInv, RefAccounting
      <4> QED
        BY <4>1, <4>2
    <3> QED
      BY <2>2, <3>1, <3>5 DEF RefInv, Holds
  <2> QED
    BY <1>5, <2>1, <2>2 DEF Alloc, FreshRef
<1>6. CASE \/ UNCHANGED vars \/ WakeUp \/ StopSeen \/ \E a \in Actors : Fault(a)
  BY <1>6, RefKept DEF Fault, WakeUp, StopSeen, vars, shared, locals, sampleVars, Holds
<1>7. ASSUME NEW a \in Actors, OnList(a)
      PROVE  RefInv'
  BY <1>7, OnListMoves, RefKept DEF listKept, Holds
<1> QED
  BY <1>1, <1>2, <1>3, <1>4, <1>5, <1>6, <1>7, StepCases DEF Moves

-----------------------------------------------------------------------------
(* Unloading.                                                              *)

\* the steps of a walk over the monitors and over the samples of tm
Walks(a) == \/ GetTm(a) \/ CountTm(a) \/ PutTm(a) \/ KfreeTm(a) \/ EndWalk(a)
            \/ First(a) \/ Visit(a) \/ Advance(a) \/ PutSample(a) \/ Drop(a)
            \/ OnList(a) \/ Free(a) \/ Acct(a) \/ Alloc(a) \/ Account(a)

\* StepCases, in these terms
LEMMA WalkCases ==
  ASSUME [Next]_vars
  PROVE  \/ \E a \in Actors : Walks(a)
         \/ \E a \in Actors : Show(a) \/ Reclaim(a) \/ Unload(a) \/ Teardown(a)
         \/ WakeUp \/ StopSeen
         \/ UNCHANGED vars \/ \E a \in Actors : Fault(a)
BY StepCases DEF Moves, Walks

\* a walk stays a walk, until it ends; monitor_exit's only ends in Teardown
LEMMA WalkMoves ==
  ASSUME IInv, PlacesInv, NEW a \in Actors, Walks(a)
  PROVE  /\ UNCHANGED up
         /\ pc[a] \notin ExitPlaces \cup {"idle", "stopped"}
         /\ \E l \in PCs \ (ExitPlaces \cup {"stopped"}) :
              /\ pc' = [pc EXCEPT ![a] = l]
              /\ a \in Unloaders => l \notin {"idle", "get_tm", "count", "alloc"}
              /\ a \in Droppers => l \notin Holds
              /\ l \in {"first", "visit", "advance"} => a # Sampler
<1> USE DEF IInv, CursorInv, PlacesInv, InPlace, Goto, PCs, ExitPlaces, Holds, shared,
            Adding, Deleting
<1>1. CASE GetTm(a)
  <2>1. a \notin Unloaders
    BY <1>1 DEF GetTm
  <2>2. \/ pc' = [pc EXCEPT ![a] = Body(a)]
        \/ pc' = [pc EXCEPT ![a] = "next_tm"]
    BY <1>1 DEF GetTm
  <2>3. Body(a) \in {"alloc", "count", "first"} /\ (Body(a) = "first" => a # Sampler)
    BY DEF Body
  <2> QED
    BY <1>1, <2>1, <2>2, <2>3 DEF GetTm
<1>2. CASE CountTm(a) \/ PutTm(a) \/ KfreeTm(a)
  BY <1>2 DEF CountTm, PutTm, KfreeTm
<1>3. CASE EndWalk(a)
  BY <1>3 DEF EndWalk
<1>4. CASE First(a) \/ Visit(a) \/ Advance(a)
  BY <1>4 DEF First, Visit, Advance, At
<1>5. CASE PutSample(a) \/ Drop(a) \/ Acct(a)
  BY <1>5 DEF PutSample, Drop, Acct, KrefPut, Resume
<1>6. CASE OnList(a)
  BY <1>6, OnListMoves DEF listKept
<1>7. CASE Free(a) \/ Alloc(a) \/ Account(a)
  BY <1>7 DEF Free, Alloc, Account
<1> QED
  BY <1>1, <1>2, <1>3, <1>4, <1>5, <1>6, <1>7 DEF Walks

LEMMA PlacesStep ==
  ASSUME IInv, PlacesInv, [Next]_vars
  PROVE  PlacesInv'
<1> USE DEF IInv, TypeOK, PlacesInv, InPlace, Goto, ExitPlaces, Holds, Adding
<1>1. ASSUME NEW a \in Actors, Walks(a)
      PROVE  PlacesInv'
  BY <1>1, WalkMoves
<1>2. ASSUME NEW a \in Actors, Show(a) \/ Reclaim(a) \/ Unload(a)
      PROVE  PlacesInv'
  BY <1>2 DEF Show, Reclaim, Unload
<1>3. ASSUME NEW a \in Actors, Teardown(a)
      PROVE  PlacesInv'
  BY <1>3 DEF Teardown, UnloadWalk, SysfsGone, ShrinkerGone, CacheGone, DebugfsGone,
              FreeAllTasks
<1>4. CASE WakeUp \/ StopSeen
  BY <1>4 DEF WakeUp, StopSeen
<1>5. CASE UNCHANGED vars \/ \E a \in Actors : Fault(a)
  BY <1>5 DEF Fault, vars
<1> QED
  BY <1>1, <1>2, <1>3, <1>4, <1>5, WalkCases

LEMMA TeardownStep ==
  ASSUME IInv, PlacesInv, TeardownInv, [Next]_vars
  PROVE  TeardownInv'
<1> USE DEF IInv, TypeOK, Goto, ExitPlaces, SysfsDrained, ShrinkerDrained, DebugfsDrained
<1>1. ASSUME NEW a \in Actors, Walks(a)
      PROVE  TeardownInv'
  <2>1. PICK l : /\ pc' = [pc EXCEPT ![a] = l]
                 /\ l \notin ExitPlaces \cup {"stopped"}
                 /\ a \in Unloaders => l # "idle"
    BY <1>1, WalkMoves
  <2>2. UNCHANGED up /\ pc[a] \notin ExitPlaces \cup {"idle", "stopped"}
    BY <1>1, WalkMoves
  <2> QED
    BY <2>1, <2>2 DEF TeardownInv
<1>2. ASSUME NEW a \in Actors, Show(a) \/ Reclaim(a)
      PROVE  TeardownInv'
  BY <1>2 DEF Show, Reclaim, shared, TeardownInv
<1>3. ASSUME NEW a \in Actors, Unload(a)
      PROVE  TeardownInv'
  BY <1>3 DEF Unload, Parts, TeardownInv
<1>4. ASSUME NEW a \in Actors, UnloadWalk(a)
      PROVE  TeardownInv'
  BY <1>4 DEF UnloadWalk, shared, TeardownInv, PlacesInv, InPlace
<1>5. ASSUME NEW a \in Actors, SysfsGone(a)
      PROVE  TeardownInv'
  BY <1>5 DEF SysfsGone, TeardownInv
<1>6. ASSUME NEW a \in Actors, ShrinkerGone(a) \/ CacheGone(a) \/ DebugfsGone(a)
      PROVE  TeardownInv'
  BY <1>6 DEF ShrinkerGone, CacheGone, DebugfsGone, TeardownInv, PlacesInv, InPlace
<1>7. ASSUME NEW a \in Actors, FreeAllTasks(a)
      PROVE  TeardownInv'
  BY <1>7 DEF FreeAllTasks, TeardownInv, PlacesInv, InPlace
<1>8. CASE WakeUp \/ StopSeen
  BY <1>8 DEF WakeUp, StopSeen, shared, TeardownInv
<1>9. CASE UNCHANGED vars \/ \E a \in Actors : Fault(a)
  BY <1>9 DEF Fault, vars, TeardownInv
<1> QED
  BY <1>1, <1>2, <1>3, <1>4, <1>5, <1>6, <1>7, <1>8, <1>9, WalkCases DEF Teardown

-----------------------------------------------------------------------------
(* References on tm.                                                       *)

\* a step of a that neither takes nor puts a reference on tm
LEMMA TmKept ==
  ASSUME TypeOK, TmInv, UNCHANGED <<tmRef, tmLive>>, NEW a \in Actors,
         NEW l, pc' = [pc EXCEPT ![a] = l],
         a \notin Unloaders => (pc[a] \in HoldsTm <=> l \in HoldsTm),
         LET P == {"kfree_tm", "next_tm"} \cup (ExitPlaces \ {"stop"})
         IN  a \in Unloaders => (pc[a] \in P <=> l \in P),
         l # "kfree_tm"
  PROVE  TmInv'
<1>1. TmHolders' = TmHolders
  BY DEF TmHolders, TypeOK
<1>2. InitialPut' <=> InitialPut
  BY DEF InitialPut, TypeOK
<1>3. (\E b \in Actors : pc'[b] = "kfree_tm") => \E b \in Actors : pc[b] = "kfree_tm"
  BY DEF TypeOK
<1> QED
  BY <1>1, <1>2, <1>3 DEF TmInv

LEMMA TmWalk ==
  ASSUME IInv, PlacesInv, TmInv, NEW a \in Actors, Walks(a)
  PROVE  TmInv'
<1> USE DEF IInv, TypeOK, PlacesInv, InPlace, Goto, Adding, Deleting
<1>0. TmHolders \subseteq Actors
  BY DEF TmHolders
<1>f. IsFiniteSet(TmHolders) /\ Cardinality(TmHolders) \in Nat
  BY <1>0, Finite
<1>1. CASE GetTm(a)
  <2>1. pc[a] = "get_tm" /\ a \notin Unloaders /\ a \notin TmHolders
    BY <1>1 DEF GetTm, TmHolders, HoldsTm
  <2>2. CASE tmRef = 0
    BY <1>1, <2>1, <2>2, TmKept DEF GetTm, GetUnlessZero, HoldsTm, locals
  <2>3. CASE tmRef # 0
    <3>1. /\ pc' = [pc EXCEPT ![a] = Body(a)] /\ tmRef' = tmRef + 1
          /\ tmLive' = tmLive
      BY <1>1, <2>3 DEF GetTm, GetUnlessZero
    <3>2. Body(a) \in {"alloc", "count", "first"}
      BY DEF Body
    <3>3. TmHolders' = TmHolders \cup {a}
      BY <2>1, <3>1, <3>2 DEF TmHolders, HoldsTm
    <3>4. Cardinality(TmHolders \cup {a}) = Cardinality(TmHolders) + 1
      BY <1>f, <2>1, FS_AddElement
    <3>5. InitialPut' <=> InitialPut
      BY <2>1, <3>1 DEF InitialPut
    <3>6. tmLive' /\ ~\E b \in Actors : pc'[b] = "kfree_tm"
      BY <2>3, <3>1, <3>2 DEF TmInv
    <3> QED
      BY <1>f, <3>1, <3>3, <3>4, <3>5, <3>6 DEF TmInv
  <2> QED
    BY <2>2, <2>3
<1>2. CASE PutTm(a)
  <2>1. PICK l \in {"kfree_tm", "next_tm"} :
          /\ pc[a] = "put_tm" /\ pc' = [pc EXCEPT ![a] = l] /\ tmRef' = tmRef - 1
          /\ tmLive' = tmLive /\ (l = "kfree_tm" <=> tmRef = 1)
    BY <1>2 DEF PutTm, LastRef
  <2>2. tmRef > 0 /\ tmRef' = Cardinality(TmHolders') + (IF InitialPut' THEN 0 ELSE 1)
    <3>1. CASE a \in Unloaders
      <4>1. ~InitialPut /\ InitialPut'
        BY <2>1, <3>1 DEF InitialPut, ExitPlaces
      <4>2. TmHolders' = TmHolders
        BY <2>1, <3>1 DEF TmHolders
      <4> QED
        BY <1>f, <2>1, <4>1, <4>2 DEF TmInv
    <3>2. CASE a \notin Unloaders
      <4>1. InitialPut' <=> InitialPut
        BY <2>1, <3>2 DEF InitialPut
      <4>2. TmHolders' = TmHolders \ {a} /\ a \in TmHolders
        BY <2>1, <3>2 DEF TmHolders, HoldsTm
      <4>3. Cardinality(TmHolders \ {a}) = Cardinality(TmHolders) - 1
        BY <1>f, <4>2, FS_RemoveElement
      <4>4. Cardinality(TmHolders) > 0
        BY <1>f, <4>2, FS_EmptySet
      <4> QED
        BY <1>f, <2>1, <4>1, <4>2, <4>3, <4>4 DEF TmInv
    <3> QED
      BY <3>1, <3>2
  <2>3. tmLive' /\ \A b \in Actors : pc[b] # "kfree_tm"
    BY <2>1, <2>2 DEF TmInv
  <2>4. (\E b \in Actors : pc'[b] = "kfree_tm") => tmRef' = 0
    BY <2>1, <2>3
  <2> QED
    BY <2>2, <2>3, <2>4 DEF TmInv
<1>3. CASE KfreeTm(a)
  <2>1. /\ pc[a] = "kfree_tm" /\ pc' = [pc EXCEPT ![a] = "next_tm"]
        /\ tmRef = 0 /\ tmRef' = tmRef
    BY <1>3 DEF KfreeTm, TmInv
  <2>2. TmHolders' = TmHolders
    BY <2>1 DEF TmHolders, HoldsTm
  <2>3. InitialPut' <=> InitialPut
    BY <2>1 DEF InitialPut
  <2> QED
    BY <2>1, <2>2, <2>3 DEF TmInv
<1>4. CASE EndWalk(a)
  BY <1>4, TmKept DEF EndWalk, HoldsTm, shared, tmVars
<1>5. CASE CountTm(a) \/ First(a) \/ Visit(a) \/ Advance(a)
  BY <1>5, TmKept DEF CountTm, First, Visit, Advance, At, HoldsTm, ExitPlaces, shared, tmVars
<1>6. CASE PutSample(a) \/ Drop(a) \/ Acct(a)
  BY <1>6, TmKept DEF PutSample, Drop, Acct, KrefPut, Resume, HoldsTm, ExitPlaces, tmVars
<1>7. CASE OnList(a)
  <2>1. PICK l : /\ pc' = [pc EXCEPT ![a] = l]
                 /\ \/ pc[a] \in {"add"} \cup Adding /\ l \in {"account"} \cup Adding
                    \/ pc[a] \in {"unlink"} \cup Deleting /\ l \in {"free"} \cup Deleting
    BY <1>7, OnListMoves
  <2>2. pc[a] \in HoldsTm /\ l \in HoldsTm /\ l # "kfree_tm"
    BY <2>1 DEF HoldsTm
  <2>3. /\ pc[a] \notin {"kfree_tm", "next_tm"} \cup ExitPlaces
        /\ l \notin {"kfree_tm", "next_tm"} \cup ExitPlaces
    BY <2>1 DEF ExitPlaces
  <2>4. UNCHANGED <<tmRef, tmLive>>
    BY <1>7, OnListMoves DEF listKept, tmVars
  <2> QED
    BY <2>1, <2>2, <2>3, <2>4, TmKept
<1>8. CASE Free(a) \/ Alloc(a) \/ Account(a)
  BY <1>8, TmKept DEF Free, Alloc, Account, HoldsTm, ExitPlaces, tmVars
<1> QED
  BY <1>1, <1>2, <1>3, <1>4, <1>5, <1>6, <1>7, <1>8 DEF Walks

LEMMA TmStep ==
  ASSUME IInv, PlacesInv, TmInv, [Next]_vars
  PROVE  TmInv'
<1> USE DEF IInv, PlacesInv, InPlace, Goto, HoldsTm, ExitPlaces, Adding, Deleting
<1>1. ASSUME NEW a \in Actors, Show(a) \/ Reclaim(a) \/ Unload(a)
      PROVE  TmInv'
  BY <1>1, TmKept DEF Show, Reclaim, Unload, shared, torn, tmVars
<1>2. ASSUME NEW a \in Actors, Teardown(a)
      PROVE  TmInv'
  BY <1>2, TmKept DEF Teardown, UnloadWalk, SysfsGone, ShrinkerGone, CacheGone,
                      DebugfsGone, FreeAllTasks, shared, torn, tmVars
<1>3. CASE WakeUp \/ StopSeen
  BY <1>3, TmKept DEF WakeUp, StopSeen, shared, tmVars
<1>4. CASE UNCHANGED vars \/ \E a \in Actors : Fault(a)
  <2>1. UNCHANGED <<pc, tmRef, tmLive>>
    BY <1>4 DEF Fault, vars, tmVars
  <2> QED
    BY <2>1 DEF TmInv, TmHolders, InitialPut
<1> QED
  BY <1>1, <1>2, <1>3, <1>4, TmWalk, WalkCases

-----------------------------------------------------------------------------
(* Before a sample is released.                                            *)

LEMMA ReleasedStays ==
  ASSUME IInv, [Next]_vars, Released
  PROVE  Released'
<1> USE DEF IInv, TypeOK, Goto, Releasing, Deleting
<1>1. total_destroyed' = total_destroyed \/ total_destroyed' > 0
  <2>1. ASSUME NEW a \in Actors, Acct(a) PROVE total_destroyed' > 0
    BY <2>1 DEF Acct, Destroyed
  <2>2. ASSUME NEW a \in Actors, Moves(a) PROVE total_destroyed' = total_destroyed
    <3>1. CASE Account(a)
      BY <3>1 DEF Account
    <3>2. CASE ~Account(a)
      BY <2>2, <3>2, MovesTotals DEF totals
    <3> QED
      BY <3>1, <3>2
  <2>3. ASSUME NEW a \in Actors, OnList(a) PROVE total_destroyed' = total_destroyed
    BY <2>3, OnListMoves DEF listKept, totals
  <2>4. ASSUME NEW a \in Actors,
               \/ First(a) \/ Visit(a) \/ Advance(a) \/ PutSample(a) \/ Drop(a)
               \/ Free(a) \/ Alloc(a) \/ Fault(a)
        PROVE  total_destroyed' = total_destroyed
    BY <2>4 DEF First, Visit, Advance, PutSample, Drop, Free, Alloc, Fault, shared, totals
  <2>5. CASE UNCHANGED vars \/ WakeUp \/ StopSeen
    BY <2>5 DEF vars, WakeUp, StopSeen, shared, totals
  <2> QED
    BY <2>1, <2>2, <2>3, <2>4, <2>5, StepCases
<1>2. CASE total_destroyed > 0
  BY <1>1, <1>2 DEF Released
<1>3. ASSUME NEW a \in Actors, Releasing(a) \/ pc[a] = "acct"
      PROVE  Released'
  <2>1. ASSUME NEW b \in Actors, OnList(b) \/ Free(b)
        PROVE  Releasing(a)' \/ pc'[a] = "acct"
    BY <1>3, <2>1, OnListMoves DEF Free, Adding
  <2>2. ASSUME NEW b \in Actors, Acct(b)
        PROVE  total_destroyed' > 0
    BY <2>2 DEF Acct, Destroyed
  <2>3. ASSUME NEW b \in Actors, Moves(b)
        PROVE  b # a
    BY <1>3, <2>3 DEF Moves, GetTm, CountTm, PutTm, KfreeTm, EndWalk, Account, Show, Reclaim,
         Unload, Teardown, UnloadWalk, SysfsGone, ShrinkerGone, CacheGone, DebugfsGone,
         FreeAllTasks
  <2>4. ASSUME NEW b \in Actors, Moves(b)
        PROVE  pc'[a] = pc[a]
    BY <2>3, <2>4, MovesQuiet
  <2>5. ASSUME NEW b \in Actors,
               \/ First(b) \/ Visit(b) \/ Advance(b) \/ PutSample(b) \/ Drop(b) \/ Alloc(b)
        PROVE  pc'[a] = pc[a]
    BY <1>3, <2>5 DEF First, Visit, Advance, At, PutSample, Drop, KrefPut, Alloc
  <2>6. ASSUME UNCHANGED vars \/ WakeUp \/ StopSeen \/ \E b \in Actors : Fault(b)
        PROVE  pc'[a] = pc[a]
    BY <1>3, <2>6 DEF vars, WakeUp, StopSeen, Fault
  <2>7. Releasing(a)' \/ pc'[a] = "acct" \/ total_destroyed' > 0
    BY <1>3, <2>1, <2>2, <2>4, <2>5, <2>6, StepCases
  <2> QED
    BY <2>7 DEF Released
<1> QED
  BY <1>2, <1>3 DEF Released

\* the pointers where they were, and one actor that moves
LEMMA MemKept ==
  ASSUME CleanMem, UNCHANGED <<nxt, prv>>, live \subseteq live',
         NEW a \in Actors, CleanCursor(a)',
         \A b \in Actors \ {a} : /\ pc'[b] = pc[b] /\ p_ts'[b] = p_ts[b]
                                 /\ q_ts'[b] = q_ts[b] /\ bef'[b] = bef[b]
  PROVE  CleanMem'
<1>1. Linked' = Linked /\ Ring' = Ring
  BY DEF Linked, Ring
<1>2. \A b \in Actors \ {a} : CleanCursor(b)'
  BY <1>1 DEF CleanMem, CleanCursor
<1> QED
  BY <1>1, <1>2 DEF CleanMem

\* the accesses of list_add_tail
LEMMA AddMem ==
  ASSUME IInv, PlacesInv, CleanMem, NEW a \in Actors, OnList(a), ~Released
  PROVE  CleanMem'
<1> USE DEF IInv, TypeOK, Goto
<1>1. /\ pc[a] \in {"add"} \cup Adding /\ a = Sampler
      /\ UNCHANGED listKept
  BY OnListMoves DEF Released, Releasing, CursorInv
<1> DEFINE s == p_ts[a]
<1>2. /\ s \in live /\ s \in Samples /\ p_ts' = p_ts /\ q_ts' = q_ts /\ live' = live
      /\ a \notin Readers /\ a \notin Droppers
      /\ CleanCursor(a)
  BY <1>1 DEF CleanMem, CleanCursor, Holds, listKept
<1>3. Add(a) \/ (__list_add(a) /\ bef' = bef)
  BY <1>1 DEF OnList, Link, Unlink, ReadNext, ListDel, __list_del, Adding, locals
<1>4. CASE Add(a)
  <2>1. /\ UNCHANGED <<nxt, prv>> /\ bef' = [bef EXCEPT ![a] = prv[head]]
        /\ pc' = [pc EXCEPT ![a] = "add1"]
    BY <1>4 DEF Add, sampleVars
  <2>2. prv[head] \in live \cup {head}
    BY DEF CleanMem
  <2>3. CleanCursor(a)'
    BY <1>2, <2>1, <2>2 DEF CleanCursor, Holds
  <2> QED
    BY <1>2, <2>1, <2>3, MemKept
<1>5. CASE pc[a] = "add1" /\ SetPrev(head, s) /\ pc' = [pc EXCEPT ![a] = "add2"] /\ bef' = bef
  <2>1. /\ nxt' = nxt /\ prv' = [prv EXCEPT ![head] = s]
        /\ Linked' = Linked /\ Ring' = Ring
    BY <1>5 DEF SetPrev, Linked, Ring
  <2>2. \A b \in Actors : CleanCursor(b)'
    BY <1>2, <1>5, <2>1 DEF CleanMem, CleanCursor, Holds, Adding
  <2>3. \A n \in Nodes : prv'[n] \in live \cup {head, Poison}
    BY <1>2, <2>1 DEF CleanMem
  <2>4. prv'[head] # Poison
    BY <1>2, <2>1
  <2> QED
    BY <1>2, <2>1, <2>2, <2>3, <2>4 DEF CleanMem
<1>6. CASE pc[a] = "add2" /\ SetNext(s, head) /\ pc' = [pc EXCEPT ![a] = "add3"] /\ bef' = bef
  <2>1. /\ prv' = prv /\ nxt' = [nxt EXCEPT ![s] = head]
    BY <1>6 DEF SetNext
  <2>2. /\ Linked' = Linked \cup {s} /\ Ring' = Ring \cup {s} /\ head \in Ring
        /\ Ring \subseteq Nodes
    BY <1>2, <2>1 DEF Linked, Ring
  <2>3. \A b \in Actors : CleanCursor(b)'
    <3>1. \A b \in Actors \ {a} : pc[b] \notin {"add3", "add4"}
      BY <1>1 DEF CursorInv, Adding
    <3>2. \A b \in Actors \ {a} : CleanCursor(b)'
      BY <1>2, <1>6, <2>2, <3>1 DEF CleanMem, CleanCursor
    <3>3. CleanCursor(a)'
      BY <1>2, <1>6, <2>1 DEF CleanCursor, Holds, Adding
    <3> QED
      BY <3>2, <3>3
  <2>4. \A n \in Ring' : nxt'[n] \in Ring'
    BY <1>2, <2>1, <2>2 DEF CleanMem
  <2> QED
    BY <1>2, <2>1, <2>2, <2>3, <2>4 DEF CleanMem
<1>7. CASE pc[a] = "add3" /\ SetPrev(s, bef[a]) /\ pc' = [pc EXCEPT ![a] = "add4"] /\ bef' = bef
  <2>1. /\ nxt' = nxt /\ prv' = [prv EXCEPT ![s] = bef[a]]
        /\ Linked' = Linked /\ Ring' = Ring
    BY <1>7 DEF SetPrev, Linked, Ring
  <2>2. \A b \in Actors : CleanCursor(b)'
    BY <1>2, <1>7, <2>1 DEF CleanMem, CleanCursor, Holds, Adding
  <2>3. bef[a] \in live \cup {head} /\ s # head
    BY <1>2, <1>7 DEF CleanCursor, Adding
  <2>4. \A n \in Nodes : prv'[n] \in live \cup {head, Poison}
    BY <2>1, <2>3 DEF CleanMem
  <2>5. prv'[head] # Poison
    BY <1>2, <2>1 DEF CleanMem
  <2> QED
    BY <1>2, <2>1, <2>2, <2>4, <2>5 DEF CleanMem
<1>8. CASE pc[a] = "add4" /\ SetNext(bef[a], s) /\ pc' = [pc EXCEPT ![a] = "account"]
           /\ bef' = bef
  <2>1. prv' = prv /\ nxt' = [nxt EXCEPT ![bef[a]] = s]
    BY <1>8 DEF SetNext
  <2>2. bef[a] \in live \cup {head} /\ s \in Ring
    BY <1>2, <1>8 DEF CleanCursor, Adding, Linked, Ring
  <2>3. /\ Linked' = Linked \cup ({bef[a]} \ {head}) /\ Ring' = Ring \cup {bef[a]}
        /\ Ring \subseteq Nodes /\ Ring' \subseteq Nodes
    BY <1>2, <2>1, <2>2 DEF Linked, Ring
  <2>4. \A b \in Actors : CleanCursor(b)'
    <3>1. \A b \in Actors \ {a} : pc[b] \notin {"add3", "add4"}
      BY <1>1 DEF CursorInv, Adding
    <3>2. \A b \in Actors \ {a} : CleanCursor(b)'
      BY <1>2, <1>8, <2>3, <3>1 DEF CleanMem, CleanCursor
    <3>3. CleanCursor(a)'
      BY <1>2, <1>8 DEF CleanCursor, Holds, Adding
    <3> QED
      BY <3>2, <3>3
  <2>5. \A n \in Ring' : nxt'[n] \in Ring'
    BY <2>1, <2>2, <2>3 DEF CleanMem
  <2>6. Linked' \subseteq live
    BY <2>2, <2>3 DEF CleanMem
  <2> QED
    BY <1>2, <2>1, <2>3, <2>4, <2>5, <2>6 DEF CleanMem
<1> QED
  BY <1>3, <1>4, <1>5, <1>6, <1>7, <1>8 DEF __list_add

LEMMA MemStep ==
  ASSUME IInv, PlacesInv, CleanMem, ~Released, ~Released', [Next]_vars
  PROVE  CleanMem'
<1> USE DEF IInv, TypeOK, Goto
<1>1. ASSUME NEW a \in Actors, Moves(a)
      PROVE  CleanMem'
  <2>1. /\ pc'[a] \notin {"add", "account", "visit", "advance"} \cup Adding
        /\ pc'[a] = "hold" => p_ts'[a] = p_ts[a] /\ pc[a] = "account"
        /\ live' = live
    BY <1>1, MovesQuiet DEF sampleVars
  <2>2. pc'[a] = "hold" => p_ts'[a] \in live
    BY <2>1 DEF CleanMem, CleanCursor, Holds
  <2>3. CleanCursor(a)'
    BY <2>1, <2>2 DEF CleanCursor, Holds, Adding
  <2> QED
    BY <1>1, <2>3, MovesQuiet, MemKept DEF sampleVars
<1>2. ASSUME NEW a \in Actors, First(a) \/ Advance(a)
      PROVE  CleanMem'
  <2>1. /\ UNCHANGED <<nxt, prv, live, bef>>
        /\ \A b \in Actors \ {a} : pc'[b] = pc[b] /\ p_ts'[b] = p_ts[b] /\ q_ts'[b] = q_ts[b]
    BY <1>2 DEF First, Advance, At, shared, sampleVars
  <2>2. \A n \in Ring : n # head => n \in Linked
    BY DEF Ring
  <2>3. CleanCursor(a)'
    <3>1. CASE First(a) /\ a \in Readers
      <4>1. /\ prv[head] \in live \cup {head} /\ p_ts'[a] = prv[head] /\ a \notin Droppers
            /\ pc'[a] = IF prv[head] = head THEN "put_tm" ELSE "visit"
        BY <3>1 DEF First, At, CleanMem
      <4> QED
        BY <2>1, <4>1 DEF CleanCursor, Holds, Adding
    <3>2. CASE First(a) /\ a \notin Readers
      <4>1. nxt[head] \in Ring /\ q_ts'[a] = nxt[head] /\ pc'[a] = "advance"
        BY <3>2 DEF First, CleanMem, Ring
      <4>2. Ring' = Ring
        BY <2>1 DEF Ring, Linked
      <4> QED
        BY <3>2, <4>1, <4>2 DEF CleanCursor, Holds, Adding
    <3>3. CASE Advance(a) /\ a \in Readers
      <4>1. p_ts[a] \in live
        BY <3>3 DEF Advance, CleanMem, CleanCursor
      <4>2. /\ prv[p_ts[a]] \in live \cup {head, Poison} /\ p_ts'[a] = prv[p_ts[a]]
            /\ pc'[a] = IF p_ts'[a] = head THEN "put_tm" ELSE "visit"
            /\ a \notin Droppers
        BY <3>3, <4>1 DEF Advance, At, CleanMem
      <4> QED
        BY <2>1, <4>2 DEF CleanCursor, Holds, Adding
    <3>4. CASE Advance(a) /\ a \notin Readers
      <4>1. a \in Droppers
        BY <3>4 DEF Advance, PlacesInv, InPlace
      <4>2. q_ts[a] \in Ring
        BY <3>4, <4>1 DEF Advance, CleanMem, CleanCursor
      <4>3. /\ p_ts'[a] = q_ts[a] /\ q_ts'[a] = nxt[q_ts[a]] /\ nxt[q_ts[a]] \in Ring
            /\ pc'[a] = IF q_ts[a] = head THEN "put_tm" ELSE "visit"
        BY <3>4, <4>2 DEF Advance, At, CleanMem
      <4>4. Ring' = Ring /\ Linked' = Linked
        BY <2>1 DEF Ring, Linked
      <4> QED
        BY <2>2, <3>4, <4>2, <4>3, <4>4 DEF CleanCursor, Holds, Adding
    <3> QED
      BY <1>2, <3>1, <3>2, <3>3, <3>4
  <2> QED
    BY <2>1, <2>3, MemKept
<1>3. ASSUME NEW a \in Actors, SampleOk(a), Visit(a) \/ PutSample(a) \/ Drop(a)
      PROVE  CleanMem'
  <2>1. /\ UNCHANGED <<nxt, prv, live, bef, p_ts, q_ts>>
        /\ \A b \in Actors \ {a} : pc'[b] = pc[b]
    BY <1>3 DEF Visit, PutSample, Drop, KrefPut, locals
  <2>2. CleanCursor(a)'
    <3>1. CASE Visit(a)
      <4>1. p_ts[a] \in live /\ a \in Readers /\ pc'[a] \in {"hold", "advance"}
        BY <1>3, <3>1 DEF Visit, SampleOk, Accesses, CursorInv
      <4> QED
        BY <2>1, <4>1 DEF CleanCursor, Adding
    <3>2. CASE PutSample(a)
      <4>1. p_ts[a] \in live /\ a \notin Droppers
        BY <3>2 DEF PutSample, CleanMem, CleanCursor, Holds, PlacesInv, InPlace
      <4>2. pc'[a] \in {"put_tm", "advance"}
        BY <3>2 DEF PutSample, KrefPut, Resume, Released, Releasing
      <4> QED
        BY <2>1, <4>1, <4>2 DEF CleanCursor, Holds, Adding
    <3>3. CASE Drop(a)
      <4>1. q_ts[a] \in Ring /\ a \notin Readers
        BY <3>3 DEF Drop, CleanMem, CleanCursor
      <4>2. pc'[a] = "advance"
        BY <3>3 DEF Drop, KrefPut, Resume, Released, Releasing
      <4>3. Ring' = Ring
        BY <2>1 DEF Ring, Linked
      <4> QED
        BY <2>1, <4>1, <4>2, <4>3 DEF CleanCursor, Holds, Adding
    <3> QED
      BY <1>3, <3>1, <3>2, <3>3
  <2> QED
    BY <2>1, <2>2, MemKept
<1>4. ASSUME NEW a \in Actors, Free(a) \/ Acct(a)
      PROVE  FALSE
  BY <1>4 DEF Free, Acct, Released, Releasing
<1>5. ASSUME NEW a \in Actors, Alloc(a)
      PROVE  CleanMem'
  <2>1. /\ UNCHANGED <<nxt, prv, bef, q_ts>> /\ live \subseteq live'
        /\ \A b \in Actors \ {a} : pc'[b] = pc[b] /\ p_ts'[b] = p_ts[b]
        /\ a = Sampler
        /\ pc'[a] = "put_tm" \/ (pc'[a] = "add" /\ p_ts'[a] \in live')
    BY <1>5 DEF Alloc, CursorInv
  <2>2. CleanCursor(a)'
    BY <2>1 DEF CleanCursor, Holds, Adding
  <2> QED
    BY <2>1, <2>2, MemKept
<1>6. CASE WakeUp \/ StopSeen
  <2>1. /\ UNCHANGED <<nxt, prv, live, bef, p_ts, q_ts>>
        /\ \A b \in Actors \ {Sampler} : pc'[b] = pc[b]
        /\ pc'[Sampler] \in {"get_tm", "stopped"}
    BY <1>6 DEF WakeUp, StopSeen, shared, locals, sampleVars
  <2>2. CleanCursor(Sampler)'
    BY <2>1 DEF CleanCursor, Holds, Adding
  <2> QED
    BY <2>1, <2>2, MemKept
<1>7. CASE UNCHANGED vars \/ \E a \in Actors : Fault(a)
  <2>1. UNCHANGED <<nxt, prv, live, bef, p_ts, q_ts, pc>>
    BY <1>7 DEF vars, Fault, locals, sampleVars
  <2> QED
    BY <2>1 DEF CleanMem, CleanCursor, Linked, Ring
<1> QED
  BY <1>1, <1>2, <1>3, <1>4, <1>5, <1>6, <1>7, AddMem, StepCases

\* What is not a wrong access leaves fault alone.
LEMMA NoFault ==
  ASSUME IInv, [Next]_vars, \A a \in Actors : ~Fault(a)
  PROVE  fault' = fault
<1>1. ASSUME NEW a \in Actors, Moves(a) PROVE fault' = fault
  <2>1. CASE Account(a)
    BY <2>1 DEF Account
  <2>2. CASE ~Account(a)
    BY <1>1, <2>2, MovesTotals
  <2> QED
    BY <2>1, <2>2
<1>2. ASSUME NEW a \in Actors, OnList(a) PROVE fault' = fault
  BY <1>2, OnListMoves DEF listKept
<1>3. ASSUME NEW a \in Actors, \/ First(a) \/ Visit(a) \/ Advance(a) \/ PutSample(a) \/ Drop(a)
                               \/ Free(a) \/ Acct(a) \/ Alloc(a)
      PROVE  fault' = fault
  BY <1>3 DEF First, Visit, Advance, PutSample, Drop, Free, Acct, Alloc, shared
<1>4. CASE UNCHANGED vars \/ WakeUp \/ StopSeen
  BY <1>4 DEF vars, WakeUp, StopSeen, shared
<1> QED
  BY <1>1, <1>2, <1>3, <1>4, StepCases

LEMMA CleanStep ==
  ASSUME IInv, PlacesInv, CleanInv, [Next]_vars
  PROVE  CleanInv'
<1> USE DEF IInv, TypeOK
<1>1. ~Released' => CleanMem'
  BY MemStep, ReleasedStays DEF CleanInv
<1>2. FaultNeedsRelease'
  <2>1. CASE UNCHANGED vars
    BY <2>1 DEF vars, locals, totals, sampleVars, CleanInv, FaultNeedsRelease, Released, Releasing
  <2>2. CASE fault' # "sample"
    BY <2>2 DEF FaultNeedsRelease
  <2>3. ASSUME NEW a \in Actors, Fault(a), ~Released', fault' = "sample"
        PROVE  a \in Readers /\ pc'[a] = "visit" /\ p_ts'[a] = Poison
    <3>1. CleanMem /\ ~Released
      BY <2>3, ReleasedStays DEF CleanInv
    <3>2. ~SampleOk(a) /\ UNCHANGED <<pc, p_ts>>
      BY <2>3 DEF Fault, locals
    <3>3. pc[a] \notin {"unlink", "free"} \cup Deleting
      BY <3>1 DEF Released, Releasing
    <3>4. Linked \subseteq live /\ CleanCursor(a)
      BY <3>1 DEF CleanMem
    <3>5. /\ pc[a] \in {"hold", "add2", "add3"} => p_ts[a] \in live
          /\ pc[a] = "add4" => bef[a] \in live \cup {head}
      BY <3>4 DEF CleanCursor, Holds, Adding
    <3>6. pc[a] = "advance" => IF a \in Readers THEN p_ts[a] \in live
                                                ELSE q_ts[a] \in live \cup {head}
      BY <3>4 DEF CleanCursor, PlacesInv, InPlace, Ring
    <3>7. pc[a] = "visit"
      BY <3>2, <3>3, <3>5, <3>6 DEF SampleOk, Accesses, Deleting
    <3>8. p_ts[a] \notin live
      BY <3>2, <3>7 DEF SampleOk, Accesses
    <3> QED
      BY <3>2, <3>4, <3>7, <3>8 DEF CleanCursor, PlacesInv, InPlace
  <2>4. CASE \E a \in Actors : Fault(a)
    BY <2>3, <2>4 DEF FaultNeedsRelease
  <2>5. CASE fault = "none" /\ \A a \in Actors : ~Fault(a)
    BY <2>5, NoFault DEF FaultNeedsRelease
  <2> QED
    BY <2>1, <2>4, <2>5, FaultStops
<1> QED
  BY <1>1, <1>2 DEF CleanInv

-----------------------------------------------------------------------------
(* The theorems.                                                           *)

LEMMA InitMInv == Init => MInv
<1> SUFFICES ASSUME Init PROVE MInv
  OBVIOUS
<1>1. IInv
  BY InitIInv
<1>2. /\ \A a \in Actors : pc[a] = "idle"
      /\ live = {} /\ total_created = 0 /\ total_destroyed = 0
      /\ tmRef = 1 /\ tmLive /\ up = Parts /\ fault = "none"
  BY DEF Init
<1>3. Cardinality({}) = 0
  BY FS_EmptySet
<1>4. TotalsInv
  BY <1>2, <1>3 DEF TotalsInv, LivingNotUnderReported, Uncounted
<1>5. RefInv
  BY <1>2 DEF RefInv, RefAccounting, Holds, Adding
<1>6. PlacesInv
  BY <1>2 DEF PlacesInv, InPlace, ExitPlaces, Holds, Adding
<1>7. TeardownInv
  BY <1>2 DEF TeardownInv, ExitPlaces, Parts
<1>8. TmInv
  <2>1. TmHolders = {} /\ ~InitialPut
    BY <1>2 DEF TmHolders, HoldsTm, InitialPut, ExitPlaces, Adding, Deleting
  <2> QED
    BY <1>2, <1>3, <2>1 DEF TmInv
<1>9. CleanInv
  <2>1. Linked = {} /\ Ring = {head}
    BY DEF Init, Ring, Linked
  <2>2. /\ nxt[head] = head /\ prv[head] = head
        /\ \A n \in Nodes : prv[n] \in {head, Poison}
    BY DEF Init
  <2>3. \A a \in Actors : CleanCursor(a)
    BY <1>2 DEF CleanCursor, Holds, Adding
  <2> QED
    BY <1>2, <2>1, <2>2, <2>3 DEF CleanInv, CleanMem, FaultNeedsRelease
<1> QED
  BY <1>1, <1>4, <1>5, <1>6, <1>7, <1>8, <1>9 DEF MInv

\* The counts agree with what there is, and unloading keeps its order, in every state
\* of every interleaving of single accesses, list functions that overlap included.
THEOREM CountsInvariance == Spec => []MInv
<1>1. IInv /\ [Next]_vars => IInv'
  BY TypeStep, CursorStep, ReleaserStep DEF IInv
<1>2. MInv /\ [Next]_vars => MInv'
  BY <1>1, TotalsStep, RefStep, PlacesStep, TeardownStep, TmStep, CleanStep DEF MInv
<1> QED
  BY InitMInv, <1>2, PTL DEF Spec

\* Until two walks have put the list's reference of one sample, a refcount is the
\* number of those who hold a reference (save_sample, the reads, the list).
THEOREM RefsAreCounted == Spec => []RefAccounting
<1>1. MInv => RefAccounting
  BY DEF MInv, RefInv
<1> QED
  BY <1>1, CountsInvariance, PTL

\* A list reference that is put twice is all that endangers a reader: until then, a sample
\* that he has got a reference on (taskmonitor2.c:247 and 304) stays allocated while he
\* shows it, although a scan or monitor_exit puts it meanwhile.
THEOREM ReadersKeepSamples == Spec => [](~overdrop => HeldSampleIsLive)
<1>1. MInv => (~overdrop => HeldSampleIsLive)
  BY DEF MInv, RefInv, Holds, HeldSampleIsLive
<1> QED
  BY <1>1, CountsInvariance, PTL

\* total_destroyed++ is not atomic (taskmonitor2.c:183) and yet never makes monitor_exit
\* report fewer living samples than there are.
THEOREM LivingAreReported == Spec => []LivingNotUnderReported
<1>1. MInv => LivingNotUnderReported
  BY DEF MInv, TotalsInv
<1> QED
  BY <1>1, CountsInvariance, PTL

\* Until a release begins, one wrong access to a sample is possible, and only one: a
\* read that goes backwards follows the prev pointer of a sample before list_add_tail
\* has set it (taskmonitor2.c:162, 246; list.h:61-63).
THEOREM OnlyReleaseHurts == Spec => []FaultNeedsRelease
<1>1. MInv => FaultNeedsRelease
  BY DEF MInv, CleanInv
<1> QED
  BY <1>1, CountsInvariance, PTL

\* A walker that has a reference on tm uses an allocated tm, although monitor_exit puts
\* the first reference without looking at who walks.
THEOREM HolderKeepsMonitor == Spec => []HeldMonitorIsLive
<1>1. MInv => HeldMonitorIsLive
  <2> SUFFICES ASSUME MInv, NEW a \in Actors \ Unloaders, pc[a] \in HoldsTm
               PROVE  tmLive
    BY DEF HeldMonitorIsLive, HoldsTm
  <2>1. a \in TmHolders /\ TmHolders \subseteq Actors
    BY DEF TmHolders
  <2>2. Cardinality(TmHolders) \in Nat /\ Cardinality(TmHolders) # 0
    BY <2>1, Finite, FS_EmptySet DEF MInv, IInv
  <2> QED
    BY <2>2 DEF MInv, IInv, TypeOK, TmInv
<1> QED
  BY <1>1, CountsInvariance, PTL

\* all_tasks is freed when no thread, read or reclaim walks the list of monitors: each
\* is waited for before, and cannot come back (taskmonitor2.c:422-459).
THEOREM NobodyWalksFreed == Spec => []WalkersDrained
<1>1. MInv => WalkersDrained
  <2> SUFFICES ASSUME MInv, "all_tasks" \notin up, NEW a \in Actors \ Unloaders
               PROVE  pc[a] \in {"idle", "stopped"}
    BY DEF WalkersDrained
  <2> QED
    BY DEF MInv, TeardownInv, SysfsDrained, ShrinkerDrained, DebugfsDrained
<1> QED
  BY <1>1, CountsInvariance, PTL

-----------------------------------------------------------------------------
(* The ring, as long as no two list functions have overlapped.             *)

\* N leads around R, and no node comes after two; P leads back, except where the stray
\* decrement may have ruined it: F gives what follows a sample in its slab page.
WholeRing(R, N, P, F) ==
  /\ \A n \in R : /\ N[n] \in R
                  /\ P[n] # Poison => P[n] \in R /\ N[P[n]] = n
                  /\ P[n] = Poison => \E t \in Samples : F[t] = n
  /\ \A m, n \in R : N[m] = N[n] => m = n

\* the pointers as they are
ListWhole == WholeRing(Ring, nxt, prv, nextSlot)

\* list_add_tail in progress: without its sample, and with head->prev as it was read,
\* the ring is whole until the last store
MidAdd(a) ==
  /\ pc[a] \in Adding =>
       WholeRing(Ring \ {p_ts[a]}, nxt, [prv EXCEPT ![head] = bef[a]], nextSlot)
  /\ pc[a] \in {"add1", "add2"} => p_ts[a] \notin Linked
  /\ pc[a] \in {"add2", "add3", "add4"} => prv[head] = p_ts[a]
  /\ pc[a] \in {"add3", "add4"} => nxt[p_ts[a]] = head
  /\ pc[a] = "add4" => \/ prv[p_ts[a]] = bef[a]
                       \/ /\ prv[p_ts[a]] = Poison
                          /\ \E t \in Samples : nextSlot[t] = p_ts[a]

\* list_del in progress: the ring is whole with its sample until the second store, if the
\* first one is taken back, and whole without it from then on.  The prev pointer that
\* it has read may be a ruined one.
MidDel(a) ==
  /\ pc[a] \in {"unlink2", "del1"} => ListWhole
  /\ pc[a] \in {"unlink2", "del1", "del2"} =>
       (p_ts[a] \in Linked /\ bef[a] # Poison => bef[a] \in Ring /\ nxt[bef[a]] = p_ts[a])
  /\ pc[a] \in {"del1", "del2"} => aft[a] = nxt[p_ts[a]]
  /\ pc[a] = "del2" =>
       /\ p_ts[a] \in Linked
       /\ WholeRing(Ring, nxt, [prv EXCEPT ![aft[a]] = p_ts[a]], nextSlot)
       /\ \/ prv[aft[a]] = bef[a]
          \/ prv[aft[a]] = Poison /\ \E t \in Samples : nextSlot[t] = aft[a]
  /\ pc[a] = "del3" => WholeRing(Ring \ {p_ts[a]}, nxt, prv, nextSlot)
  /\ pc[a] = "del4" => p_ts[a] \notin Linked /\ ListWhole

\* Whoever is in a list function is alone in one, and the ring is whole but for what he
\* has under way; linked samples are allocated; the sample to be freed is unlinked; the
\* one to be added is allocated, unlinked, and not about to be freed.
RingInv == ~raced =>
  /\ \A a, b \in Actors : InList(a) /\ InList(b) => a = b
  /\ (\A a \in Actors : ~InList(a)) => ListWhole
  /\ \A a \in Actors : MidAdd(a) /\ MidDel(a)
  /\ Linked \subseteq live
  /\ \A a \in Actors : pc[a] = "free" => p_ts[a] \notin Linked
  /\ pc[Sampler] \in {"add"} \cup Adding =>
       /\ p_ts[Sampler] \in live
       /\ \A a \in Actors : pc[a] \in {"del2", "del3", "del4", "free"}
                              => p_ts[a] # p_ts[Sampler]
  /\ pc[Sampler] = "add" => p_ts[Sampler] \notin Linked

\* ruined pointers leave the ring whole
LEMMA RuinWhole ==
  ASSUME NEW R, NEW N, NEW P, NEW Q, NEW F, WholeRing(R, N, P, F),
         \A n \in R : Q[n] = P[n] \/ (Q[n] = Poison /\ \E t \in Samples : F[t] = n)
  PROVE  WholeRing(R, N, Q, F)
BY DEF WholeRing

\* s is put between the last node b and head
Inserted(R, N, P, F, s, b, M, Q) ==
  /\ R \subseteq Nodes /\ WholeRing(R, N, P, F)
  /\ head \in R /\ s \in Nodes \ R /\ b \in R /\ N[b] = head
  /\ \A n \in R : M[n] = IF n = b THEN s ELSE N[n]
  /\ M[s] = head
  /\ \A n \in R : Q[n] = IF n = head THEN s ELSE P[n]
  /\ Q[s] = b \/ (Q[s] = Poison /\ \E t \in Samples : F[t] = s)

LEMMA InsertWhole ==
  ASSUME NEW R, NEW N, NEW P, NEW F, NEW s, NEW b, NEW M, NEW Q,
         Inserted(R, N, P, F, s, b, M, Q)
  PROVE  WholeRing(R \cup {s}, M, Q, F)
<1> USE DEF Inserted
<1>1. \A n \in R : N[n] = head => n = b
  BY DEF WholeRing
<1>2. \A n \in R : M[n] \in R \cup {s}
  BY DEF WholeRing
<1>3. ASSUME NEW n \in R, Q[n] # Poison
      PROVE  Q[n] \in R \cup {s} /\ M[Q[n]] = n
  <2>1. CASE n = head
    BY <2>1
  <2>2. CASE n # head
    <3>1. Q[n] = P[n] /\ P[n] \in R /\ N[P[n]] = n
      BY <1>3, <2>2 DEF WholeRing
    <3>2. P[n] # b
      BY <2>2, <3>1
    <3> QED
      BY <3>1, <3>2
  <2> QED
    BY <2>1, <2>2
<1>4. \A n \in R : Q[n] = Poison => \E t \in Samples : F[t] = n
  BY DEF WholeRing
<1>5. ASSUME NEW m \in R \cup {s}, NEW n \in R \cup {s}, M[m] = M[n]
      PROVE  m = n
  <2>1. \A k \in R : N[k] \in R
    BY DEF WholeRing
  <2>2. CASE m \in R /\ n \in R
    BY <1>5, <2>1, <2>2 DEF WholeRing
  <2>3. CASE m = s \/ n = s
    BY <1>1, <1>5, <2>1, <2>3
  <2> QED
    BY <2>2, <2>3
<1> QED
  BY <1>2, <1>3, <1>4, <1>5 DEF WholeRing

\* s is taken out from between b and x
Removed(R, N, P, F, s, b, x, M, Q) ==
  /\ R \subseteq Nodes /\ WholeRing(R, N, P, F)
  /\ s \in R /\ b \in R /\ N[b] = s /\ x = N[s]
  /\ \A n \in R \ {s} : M[n] = IF n = b THEN x ELSE N[n]
  /\ \A n \in R \ {s} : n # x => Q[n] = P[n]
  /\ x # s => Q[x] = b \/ (Q[x] = Poison /\ \E t \in Samples : F[t] = x)

LEMMA RemoveWhole ==
  ASSUME NEW R, NEW N, NEW P, NEW F, NEW s, NEW b, NEW x, NEW M, NEW Q,
         Removed(R, N, P, F, s, b, x, M, Q)
  PROVE  WholeRing(R \ {s}, M, Q, F)
<1> USE DEF Removed
<1>1. x \in R /\ \A n \in R : (N[n] = s => n = b) /\ (N[n] = x => n = s)
  BY DEF WholeRing
<1>2. x = s => b = s
  BY <1>1
<1>3. b = s => x = s
  OBVIOUS
<1>4. \A n \in R \ {s} : M[n] \in R \ {s}
  BY <1>1, <1>2, <1>3 DEF WholeRing
<1>5. ASSUME NEW n \in R \ {s}, Q[n] # Poison
      PROVE  Q[n] \in R \ {s} /\ M[Q[n]] = n
  <2>1. CASE n = x
    BY <1>3, <1>5, <2>1
  <2>2. CASE n # x
    <3>1. Q[n] = P[n] /\ P[n] \in R /\ N[P[n]] = n
      BY <1>5, <2>2 DEF WholeRing
    <3>2. P[n] # b /\ P[n] # s
      BY <1>5, <2>2, <3>1
    <3> QED
      BY <3>1, <3>2
  <2> QED
    BY <2>1, <2>2
<1>6. \A n \in R \ {s} : Q[n] = Poison => \E t \in Samples : F[t] = n
  <2> SUFFICES ASSUME NEW n \in R \ {s}, Q[n] = Poison
               PROVE  \E t \in Samples : F[t] = n
    OBVIOUS
  <2>1. CASE n = x /\ Q[x] = b
    BY <2>1 DEF WholeRing
  <2>2. CASE n = x /\ Q[x] # b
    BY <2>2
  <2>3. CASE n # x
    BY <2>3 DEF WholeRing
  <2> QED
    BY <2>1, <2>2, <2>3
<1>7. \A m, n \in R \ {s} : M[m] = M[n] => m = n
  BY <1>1 DEF WholeRing
<1> QED
  BY <1>4, <1>5, <1>6, <1>7 DEF WholeRing

\* the pointers where they were, and nobody entering or leaving a list function
LEMMA RingKept ==
  ASSUME RingInv, UNCHANGED <<nextSlot, nxt, prv, raced>>,
         ~raced => Linked \subseteq live',
         \A b \in Actors :
           /\ (pc[b] \in Adding \cup Deleting \/ pc'[b] \in Adding \cup Deleting)
                => /\ pc'[b] = pc[b] /\ p_ts'[b] = p_ts[b]
                   /\ bef'[b] = bef[b] /\ aft'[b] = aft[b]
           /\ pc'[b] \in {"free", "add"} => pc'[b] = pc[b] /\ p_ts'[b] = p_ts[b],
         ~raced /\ pc[Sampler] \in {"add"} \cup Adding => p_ts[Sampler] \in live'
  PROVE  RingInv'
<1> SUFFICES ASSUME ~raced PROVE RingInv'
  BY DEF RingInv
<1>1. Linked' = Linked /\ Ring' = Ring
  BY DEF Linked, Ring
<1>2. \A b \in Actors : InList(b)' <=> InList(b)
  BY DEF InList
<1>3. ListWhole' <=> ListWhole
  BY <1>1 DEF ListWhole, WholeRing
<1>4. \A b \in Actors : MidAdd(b)'
  BY <1>1 DEF RingInv, MidAdd, Adding, WholeRing
<1>5. \A b \in Actors : MidDel(b)'
  BY <1>1, <1>3 DEF RingInv, MidDel, Deleting, WholeRing
<1>6. \A a \in Actors : pc'[a] = "free" => p_ts'[a] \notin Linked'
  BY <1>1 DEF RingInv
<1>7. pc'[Sampler] \in {"add"} \cup Adding =>
        /\ p_ts'[Sampler] \in live'
        /\ \A a \in Actors : pc'[a] \in {"del2", "del3", "del4", "free"}
                               => p_ts'[a] # p_ts'[Sampler]
  BY DEF RingInv, Adding, Deleting
<1>8. pc'[Sampler] = "add" => p_ts'[Sampler] \notin Linked'
  BY <1>1 DEF RingInv
<1> QED
  BY <1>1, <1>2, <1>3, <1>4, <1>5, <1>6, <1>7, <1>8 DEF RingInv

\* pointers that agree on the ring
LEMMA SameWhole ==
  ASSUME NEW R, NEW N, NEW P, NEW F, WholeRing(R, N, P, F),
         NEW M, NEW Q, \A n \in R : M[n] = N[n] /\ Q[n] = P[n]
  PROVE  WholeRing(R, M, Q, F)
BY DEF WholeRing

\* Who accesses the list is alone in doing so.
LEMMA Alone ==
  ASSUME IInv, RingInv, NEW a \in Actors, OnList(a), ~raced'
  PROVE  /\ ~raced /\ UNCHANGED listKept
         /\ \A b \in Actors \ {a} :
              ~InList(b) /\ ~InList(b)' /\ pc'[b] = pc[b] /\ MidAdd(b)' /\ MidDel(b)'
         /\ pc[a] \in {"add", "unlink"} => ListWhole
<1>1. UNCHANGED listKept /\ \A b \in Actors \ {a} : pc'[b] = pc[b]
  BY OnListMoves DEF IInv, TypeOK
<1>2. ~raced /\ \A b \in Actors \ {a} : ~InList(b)
  <2>1. CASE Add(a) \/ Unlink(a)
    BY <2>1 DEF Add, Unlink, Enters
  <2>2. CASE Link(a) \/ ReadNext(a) \/ ListDel(a)
    <3>1. raced' = raced
      BY <2>2 DEF Link, ReadNext, ListDel, shared, auxVars
    <3>2. InList(a)
      BY <2>2 DEF Link, __list_add, ReadNext, ListDel, __list_del, InList, Adding, Deleting
    <3> QED
      BY <3>1, <3>2 DEF RingInv
  <2> QED
    BY <2>1, <2>2 DEF OnList
<1>3. \A b \in Actors \ {a} : ~InList(b)' /\ MidAdd(b)' /\ MidDel(b)'
  BY <1>1, <1>2 DEF InList, MidAdd, MidDel, Adding, Deleting
<1>4. pc[a] \in {"add", "unlink"} => ListWhole
  BY <1>2 DEF RingInv, InList, Adding, Deleting
<1> QED
  BY <1>1, <1>2, <1>3, <1>4

\* list_add_tail, access by access
LEMMA AddRing ==
  ASSUME IInv, RingInv, NEW a \in Actors, OnList(a), pc[a] \in {"add"} \cup Adding, ~raced'
  PROVE  RingInv'
<1> USE DEF IInv, TypeOK, Goto
<1> DEFINE s == p_ts[a]
           b == bef[a]
<1>1. /\ a = Sampler /\ s \in Samples /\ s \in live /\ s # head
      /\ \A c \in Actors : pc[c] \in {"del2", "del3", "del4", "free"} => p_ts[c] # s
      /\ ~raced /\ UNCHANGED listKept
      /\ \A c \in Actors \ {a} :
           ~InList(c) /\ ~InList(c)' /\ pc'[c] = pc[c] /\ MidAdd(c)' /\ MidDel(c)'
  BY Alone DEF CursorInv, RingInv
<1>2. p_ts' = p_ts /\ live' = live /\ nextSlot' = nextSlot
  BY <1>1 DEF listKept
<1>3. Add(a) \/ (__list_add(a) /\ bef' = bef)
  BY DEF OnList, Link, Unlink, ReadNext, ListDel, __list_del, Adding, locals
<1>4. ASSUME MidAdd(a)', pc'[a] \in Adding \/ (pc'[a] = "account" /\ ListWhole'),
             Linked' \subseteq Linked \cup {s}
      PROVE  RingInv'
  <2>1. MidDel(a)'
    BY <1>4 DEF MidDel, Adding
  <2>2. \A c, d \in Actors : InList(c)' /\ InList(d)' => c = d
    BY <1>1
  <2>3. (\A c \in Actors : ~InList(c)') => ListWhole'
    BY <1>4 DEF InList
  <2>4. Linked' \subseteq live'
    BY <1>1, <1>2, <1>4 DEF RingInv
  <2>5. ASSUME NEW c \in Actors, pc'[c] \in {"del2", "del3", "del4", "free"}
        PROVE  c # a /\ pc'[c] = pc[c] /\ p_ts'[c] # s
    BY <1>1, <1>2, <1>4, <2>5 DEF Adding
  <2>6. \A c \in Actors : pc'[c] = "free" => p_ts'[c] \notin Linked'
    BY <1>1, <1>2, <1>4, <2>5 DEF RingInv
  <2>7. pc'[a] # "add" /\ p_ts'[a] \in live'
    BY <1>1, <1>2, <1>4 DEF Adding
  <2> QED
    BY <1>1, <1>2, <1>4, <2>1, <2>2, <2>3, <2>4, <2>5, <2>6, <2>7 DEF RingInv
<1>5. CASE Add(a)
  <2>1. /\ pc[a] = "add" /\ UNCHANGED <<nxt, prv>> /\ bef' = [bef EXCEPT ![a] = prv[head]]
        /\ pc' = [pc EXCEPT ![a] = "add1"] /\ Linked' = Linked /\ Ring' = Ring
    BY <1>5 DEF Add, sampleVars, Linked, Ring
  <2>2. ListWhole /\ s \notin Linked
    BY <1>1, <2>1, Alone DEF RingInv
  <2>3. Ring \ {s} = Ring
    BY <1>1, <2>2 DEF Ring
  <2>4. [prv EXCEPT ![head] = prv[head]] = prv
    OBVIOUS
  <2>5. MidAdd(a)'
    BY <1>2, <2>1, <2>2, <2>3, <2>4 DEF MidAdd, ListWhole
  <2> QED
    BY <1>4, <2>1, <2>5 DEF Adding
<1>6. pc[a] \in Adding => WholeRing(Ring \ {s}, nxt, [prv EXCEPT ![head] = b], nextSlot)
  BY <1>1 DEF RingInv, MidAdd
<1>7. Ring \subseteq Nodes /\ head \in Ring
  BY DEF Ring, Linked
<1>8. CASE pc[a] = "add1" /\ SetPrev(head, s) /\ pc' = [pc EXCEPT ![a] = "add2"] /\ bef' = bef
  <2>1. /\ nxt' = nxt /\ prv' = [prv EXCEPT ![head] = s]
        /\ Linked' = Linked /\ Ring' = Ring
    BY <1>8 DEF SetPrev, Linked, Ring
  <2>2. [prv' EXCEPT ![head] = b] = [prv EXCEPT ![head] = b]
    BY <2>1
  <2>3. s \notin Linked
    BY <1>1, <1>8 DEF RingInv, MidAdd
  <2>4. MidAdd(a)'
    BY <1>2, <1>6, <1>8, <2>1, <2>2, <2>3 DEF MidAdd, Adding
  <2> QED
    BY <1>4, <1>8, <2>1, <2>4 DEF Adding
<1>9. CASE pc[a] = "add2" /\ SetNext(s, head) /\ pc' = [pc EXCEPT ![a] = "add3"] /\ bef' = bef
  <2>1. prv' = prv /\ nxt' = [nxt EXCEPT ![s] = head]
    BY <1>9 DEF SetNext
  <2>2. Linked' = Linked \cup {s} /\ Ring' \ {s} = Ring \ {s}
    BY <1>1, <2>1 DEF Linked, Ring
  <2>3. \A n \in Ring \ {s} : nxt'[n] = nxt[n]
    BY <1>7, <2>1
  <2>4. WholeRing(Ring \ {s}, nxt', [prv EXCEPT ![head] = b], nextSlot)
    BY <1>6, <1>9, <2>3, SameWhole DEF Adding
  <2>5. prv[head] = s
    BY <1>1, <1>9 DEF RingInv, MidAdd
  <2>6. MidAdd(a)'
    BY <1>1, <1>2, <1>9, <2>1, <2>2, <2>4, <2>5 DEF MidAdd, Adding
  <2> QED
    BY <1>4, <1>9, <2>2, <2>6 DEF Adding
<1>10. CASE pc[a] = "add3" /\ SetPrev(s, b) /\ pc' = [pc EXCEPT ![a] = "add4"] /\ bef' = bef
  <2>1. /\ nxt' = nxt /\ prv' = [prv EXCEPT ![s] = b]
        /\ Linked' = Linked /\ Ring' = Ring
    BY <1>10 DEF SetPrev, Linked, Ring
  <2>2. \A n \in Ring \ {s} : [prv' EXCEPT ![head] = b][n] = [prv EXCEPT ![head] = b][n]
    BY <1>7, <2>1
  <2>3. WholeRing(Ring \ {s}, nxt, [prv' EXCEPT ![head] = b], nextSlot)
    BY <1>6, <1>10, <2>2, SameWhole DEF Adding
  <2>4. prv'[head] = s /\ nxt'[s] = head /\ prv'[s] = b
    BY <1>1, <1>10, <2>1 DEF RingInv, MidAdd
  <2>5. MidAdd(a)'
    BY <1>2, <1>10, <2>1, <2>3, <2>4 DEF MidAdd, Adding
  <2> QED
    BY <1>4, <1>10, <2>1, <2>5 DEF Adding
<1>11. CASE pc[a] = "add4" /\ SetNext(b, s) /\ pc' = [pc EXCEPT ![a] = "account"] /\ bef' = bef
  <2> DEFINE R == Ring \ {s}
             P == [prv EXCEPT ![head] = b]
  <2>1. prv' = prv /\ nxt' = [nxt EXCEPT ![b] = s]
    BY <1>11 DEF SetNext
  <2>2. /\ prv[head] = s /\ nxt[s] = head
        /\ prv[s] = b \/ (prv[s] = Poison /\ \E t \in Samples : nextSlot[t] = s)
    <3>1. MidAdd(a)
      BY <1>1 DEF RingInv
    <3> QED
      BY <1>11, <3>1 DEF MidAdd
  <2>3. WholeRing(R, nxt, P, nextSlot)
    BY <1>6, <1>11 DEF Adding
  <2>4. P[head] = b /\ head \in R
    BY <1>1, <1>7
  <2>5. \A t \in Samples : nextSlot[t] # head
    OBVIOUS
  <2>6. b \in R /\ nxt[b] = head
    BY <2>3, <2>4, <2>5 DEF WholeRing
  <2>7. R \in SUBSET Nodes /\ s \in Nodes \ R
    BY <1>1, <1>7
  <2>8. /\ \A n \in R : nxt'[n] = IF n = b THEN s ELSE nxt[n]
        /\ nxt'[s] = head
        /\ \A n \in R : prv'[n] = IF n = head THEN s ELSE P[n]
    BY <2>1, <2>2, <2>6, <2>7
  <2>9. WholeRing(R \cup {s}, nxt', prv', nextSlot)
    <3>1. prv'[s] = b \/ (prv'[s] = Poison /\ \E t \in Samples : nextSlot[t] = s)
      BY <2>1, <2>2
    <3> HIDE DEF R, P, s, b
    <3>2. Inserted(R, nxt, P, nextSlot, s, b, nxt', prv')
      BY <2>3, <2>4, <2>6, <2>7, <2>8, <3>1 DEF Inserted
    <3> QED
      BY <3>2, InsertWhole
  <2>10. Linked' = Linked /\ Ring' = R \cup {s}
    <3>1. s \in Linked /\ (b \in Samples => b \in Linked)
      BY <1>1, <2>2, <2>6 DEF Linked, Ring
    <3>2. Linked' = Linked
      BY <1>1, <2>1, <3>1 DEF Linked
    <3> QED
      BY <3>1, <3>2 DEF Ring
  <2>11. ListWhole'
    BY <1>2, <2>9, <2>10 DEF ListWhole
  <2>12. MidAdd(a)'
    BY <1>11 DEF MidAdd, Adding
  <2> QED
    BY <1>4, <1>11, <2>10, <2>11, <2>12
<1> QED
  BY <1>3, <1>5, <1>8, <1>9, <1>10, <1>11 DEF __list_add

\* list_del, access by access
LEMMA DelRing ==
  ASSUME IInv, RingInv, NEW a \in Actors, SampleOk(a), OnList(a),
         pc[a] \in {"unlink"} \cup Deleting, ~raced'
  PROVE  RingInv'
<1> USE DEF IInv, TypeOK, Goto
<1> DEFINE s == p_ts[a]
           b == bef[a]
           x == aft[a]
<1>1. /\ s \in Samples /\ s \in live /\ s # head
      /\ ~raced /\ UNCHANGED listKept
      /\ \A c \in Actors \ {a} :
           ~InList(c) /\ ~InList(c)' /\ pc'[c] = pc[c] /\ MidAdd(c)' /\ MidDel(c)'
  BY Alone DEF ReleasedOnce, Releasing
<1>2. p_ts' = p_ts /\ live' = live /\ nextSlot' = nextSlot
  BY <1>1 DEF listKept
<1>3. \/ Unlink(a) \/ ReadNext(a)
      \/ ListDel(a) /\ UNCHANGED <<bef, aft>>
  BY DEF OnList, Link, Add, __list_add, ListDel, Adding, Deleting, locals
<1>4. MidDel(a)
  BY <1>1 DEF RingInv
<1>5. ASSUME MidDel(a)', pc'[a] \in Deleting \/ (pc'[a] = "free" /\ ListWhole'),
             pc'[a] \in {"del2", "del3", "del4", "free"} =>
               s \in Linked \/ pc[a] \in {"del2", "del3", "del4"},
             pc'[a] = "free" => s \notin Linked',
             Linked' \subseteq Linked
      PROVE  RingInv'
  <2>1. MidAdd(a)'
    BY <1>5 DEF MidAdd, Adding, Deleting
  <2>2. \A c, d \in Actors : InList(c)' /\ InList(d)' => c = d
    BY <1>1
  <2>3. (\A c \in Actors : ~InList(c)') => ListWhole'
    BY <1>5 DEF InList
  <2>4. Linked' \subseteq live'
    BY <1>1, <1>2, <1>5 DEF RingInv
  <2>5. \A c \in Actors : pc'[c] = "free" => p_ts'[c] \notin Linked'
    BY <1>1, <1>2, <1>5 DEF RingInv
  <2>6. pc'[Sampler] \in {"add"} \cup Adding => pc[Sampler] = "add" /\ a # Sampler
    BY <1>1, <1>5 DEF InList, Adding, Deleting
  <2>7. pc'[Sampler] \in {"add"} \cup Adding =>
          /\ p_ts'[Sampler] \in live' /\ p_ts'[Sampler] \notin Linked'
          /\ \A c \in Actors : pc'[c] \in {"del2", "del3", "del4", "free"}
                                 => p_ts'[c] # p_ts'[Sampler]
    BY <1>1, <1>2, <1>5, <2>6 DEF RingInv
  <2> QED
    BY <1>1, <1>5, <2>1, <2>2, <2>3, <2>4, <2>5, <2>7 DEF RingInv
<1>6. Ring \subseteq Nodes /\ head \in Ring /\ (s \in Ring <=> s \in Linked)
  BY <1>1 DEF Ring, Linked
<1>7. CASE Unlink(a)
  <2>1. /\ pc[a] = "unlink" /\ UNCHANGED <<nxt, prv>> /\ bef' = [bef EXCEPT ![a] = prv[s]]
        /\ pc' = [pc EXCEPT ![a] = "unlink2"] /\ Linked' = Linked /\ Ring' = Ring
    BY <1>7 DEF Unlink, sampleVars, Linked, Ring
  <2>2. ListWhole
    BY <2>1, Alone
  <2>3. s \in Linked /\ prv[s] # Poison => prv[s] \in Ring /\ nxt[prv[s]] = s
    BY <1>6, <2>2 DEF ListWhole, WholeRing
  <2>4. MidDel(a)'
    BY <1>2, <2>1, <2>2, <2>3 DEF MidDel, ListWhole
  <2> QED
    BY <1>5, <2>1, <2>4 DEF Deleting
<1>8. CASE ReadNext(a)
  <2>1. /\ pc[a] = "unlink2" /\ UNCHANGED <<nxt, prv, bef>> /\ aft' = [aft EXCEPT ![a] = nxt[s]]
        /\ pc' = [pc EXCEPT ![a] = "del1"] /\ Linked' = Linked /\ Ring' = Ring
    BY <1>8 DEF ReadNext, shared, sampleVars, Linked, Ring
  <2>2. MidDel(a)'
    BY <1>2, <1>4, <2>1 DEF MidDel, ListWhole
  <2> QED
    BY <1>5, <2>1, <2>2 DEF Deleting
<1>9. CASE pc[a] = "del1" /\ SetPrev(x, b) /\ pc' = [pc EXCEPT ![a] = "del2"]
           /\ UNCHANGED <<bef, aft>>
  <2>1. /\ nxt' = nxt /\ prv' = [prv EXCEPT ![x] = b]
        /\ Linked' = Linked /\ Ring' = Ring
    BY <1>9 DEF SetPrev, Linked, Ring
  <2>2. x = nxt[s] /\ ListWhole /\ (s \in Linked /\ b # Poison => b \in Ring /\ nxt[b] = s)
    BY <1>4, <1>9 DEF MidDel
  <2>3. x \in Nodes /\ s \in Linked
    BY <1>1, <1>9, <2>2 DEF SampleOk, Accesses, Linked
  <2>4. [prv' EXCEPT ![x] = s] = [prv EXCEPT ![x] = s] /\ prv'[x] = b
    BY <2>1, <2>3
  <2>5. WholeRing(Ring, nxt, [prv EXCEPT ![x] = s], nextSlot)
    BY <1>6, <2>2, <2>3 DEF ListWhole, WholeRing
  <2>6. MidDel(a)'
    BY <1>2, <1>9, <2>1, <2>2, <2>3, <2>4, <2>5 DEF MidDel
  <2> QED
    BY <1>5, <1>9, <2>1, <2>3, <2>6 DEF Deleting
<1>10. CASE pc[a] = "del2" /\ SetNext(b, x) /\ pc' = [pc EXCEPT ![a] = "del3"]
            /\ UNCHANGED <<bef, aft>>
  <2> DEFINE P == [prv EXCEPT ![x] = s]
  <2>1. prv' = prv /\ nxt' = [nxt EXCEPT ![b] = x]
    BY <1>10 DEF SetNext
  <2>2. /\ x = nxt[s] /\ s \in Linked /\ (b # Poison => b \in Ring /\ nxt[b] = s)
        /\ WholeRing(Ring, nxt, P, nextSlot)
        /\ prv[x] = b \/ (prv[x] = Poison /\ \E t \in Samples : nextSlot[t] = x)
    BY <1>4, <1>10 DEF MidDel
  <2>3. b \in Ring /\ nxt[b] = s
    BY <1>1, <1>10, <2>2 DEF SampleOk, Accesses
  <2>4. /\ \A n \in Ring \ {s} : nxt'[n] = IF n = b THEN x ELSE nxt[n]
        /\ \A n \in Ring \ {s} : n # x => prv'[n] = P[n]
        /\ prv'[x] = b \/ (prv'[x] = Poison /\ \E t \in Samples : nextSlot[t] = x)
    BY <1>6, <2>1, <2>2
  <2>5. WholeRing(Ring \ {s}, nxt', prv', nextSlot)
    <3> HIDE DEF P, s, b, x
    <3>1. Removed(Ring, nxt, P, nextSlot, s, b, x, nxt', prv')
      BY <1>6, <2>2, <2>3, <2>4 DEF Removed
    <3> QED
      BY <3>1, RemoveWhole
  <2>6. Linked' = Linked /\ Ring' = Ring
    <3>1. x # Poison /\ (b \in Samples => b \in Linked)
      BY <1>1, <2>2, <2>3 DEF Linked, Ring
    <3>2. Linked' = Linked
      BY <1>1, <2>1, <3>1 DEF Linked
    <3> QED
      BY <3>2 DEF Ring
  <2>7. MidDel(a)'
    BY <1>2, <1>10, <2>5, <2>6 DEF MidDel
  <2> QED
    BY <1>5, <1>10, <2>6, <2>7 DEF Deleting
<1>11. CASE pc[a] = "del3" /\ SetNext(s, Poison) /\ pc' = [pc EXCEPT ![a] = "del4"]
            /\ UNCHANGED <<bef, aft>>
  <2>1. prv' = prv /\ nxt' = [nxt EXCEPT ![s] = Poison]
    BY <1>11 DEF SetNext
  <2>2. Linked' = Linked \ {s} /\ Ring' = Ring \ {s}
    BY <1>1, <2>1 DEF Linked, Ring
  <2>3. WholeRing(Ring \ {s}, nxt, prv, nextSlot)
    BY <1>4, <1>11 DEF MidDel
  <2>4. \A n \in Ring \ {s} : nxt'[n] = nxt[n] /\ prv'[n] = prv[n]
    BY <1>6, <2>1
  <2>5. WholeRing(Ring', nxt', prv', nextSlot)
    BY <2>2, <2>3, <2>4, SameWhole
  <2>6. MidDel(a)'
    BY <1>2, <1>11, <2>2, <2>5 DEF MidDel, ListWhole
  <2> QED
    BY <1>5, <1>11, <2>2, <2>6 DEF Deleting
<1>12. CASE pc[a] = "del4" /\ SetPrev(s, Poison) /\ pc' = [pc EXCEPT ![a] = "free"]
            /\ UNCHANGED <<bef, aft>>
  <2>1. /\ nxt' = nxt /\ prv' = [prv EXCEPT ![s] = Poison]
        /\ Linked' = Linked /\ Ring' = Ring
    BY <1>12 DEF SetPrev, Linked, Ring
  <2>2. s \notin Linked /\ ListWhole
    BY <1>4, <1>12 DEF MidDel
  <2>3. \A n \in Ring : nxt'[n] = nxt[n] /\ prv'[n] = prv[n]
    BY <1>6, <2>1, <2>2
  <2>4. ListWhole'
    <3>1. WholeRing(Ring, nxt, prv, nextSlot)
      BY <2>2 DEF ListWhole
    <3>2. WholeRing(Ring, nxt', prv', nextSlot)
      BY <2>3, <3>1, SameWhole
    <3> QED
      BY <1>2, <2>1, <3>2 DEF ListWhole
  <2>5. MidDel(a)'
    BY <1>12 DEF MidDel
  <2> QED
    BY <1>5, <1>12, <2>1, <2>2, <2>4, <2>5
<1> QED
  BY <1>3, <1>7, <1>8, <1>9, <1>10, <1>11, <1>12 DEF ListDel, __list_del

\* the stray decrement: a pointer that it ruins may be one that a list function has set
LEMMA AcctRing ==
  ASSUME IInv, RingInv, NEW a \in Actors, Acct(a)
  PROVE  RingInv'
<1> USE DEF IInv, TypeOK, Goto
<1> SUFFICES ASSUME ~raced PROVE RingInv'
  BY DEF RingInv, Acct, auxVars
<1>1. /\ UNCHANGED <<nextSlot, nxt, live, p_ts, bef, aft>>
      /\ pc[a] = "acct" /\ pc' = [pc EXCEPT ![a] = Resume(a)]
      /\ Linked' = Linked /\ Ring' = Ring /\ Ring \subseteq Nodes
      /\ prv' = [n \in Nodes |-> IF n = nextSlot[p_ts[a]] THEN Poison ELSE prv[n]]
  BY DEF Acct, Linked, Ring
<1>2. p_ts[a] \in Samples /\ Resume(a) \in {"put_tm", "advance"}
  BY <1>1 DEF CursorInv, Resume
<1>3. \A n \in Nodes : prv'[n] = prv[n] \/ (prv'[n] = Poison /\ \E t \in Samples : nextSlot[t] = n)
  BY <1>1, <1>2
<1>4. prv'[head] = prv[head]
  BY <1>1, <1>2
<1>5. ListWhole => ListWhole'
  BY <1>1, <1>3, RuinWhole DEF ListWhole
<1>6. \A b \in Actors : InList(b)' <=> InList(b)
  BY <1>1, <1>2 DEF InList, Adding, Deleting
<1>7. ASSUME NEW b \in Actors
      PROVE  MidAdd(b)' /\ MidDel(b)'
  <2>1. CASE b = a
    BY <1>1, <1>2, <2>1 DEF MidAdd, MidDel, Adding
  <2>2. CASE b # a
    <3>1. pc'[b] = pc[b] /\ MidAdd(b) /\ MidDel(b)
      BY <1>1, <2>2 DEF RingInv
    <3>3. MidAdd(b)'
      <4>1. pc[b] \in Adding =>
              WholeRing(Ring \ {p_ts[b]}, nxt, [prv' EXCEPT ![head] = bef[b]], nextSlot)
        <5> DEFINE P == [prv EXCEPT ![head] = bef[b]]
                   Q == [prv' EXCEPT ![head] = bef[b]]
                   R == Ring \ {p_ts[b]}
        <5> SUFFICES ASSUME pc[b] \in Adding PROVE WholeRing(R, nxt, Q, nextSlot)
          OBVIOUS
        <5>1. WholeRing(R, nxt, P, nextSlot)
          BY <3>1 DEF MidAdd
        <5>2. \A n \in R : Q[n] = P[n] \/ (Q[n] = Poison /\ \E t \in Samples : nextSlot[t] = n)
          BY <1>1, <1>3
        <5> HIDE DEF P, Q, R
        <5> QED
          BY <5>1, <5>2, RuinWhole
      <4>2. pc[b] = "add4" => p_ts[b] \in Nodes
        BY DEF CursorInv, Adding
      <4> QED
        BY <1>1, <1>3, <1>4, <3>1, <4>1, <4>2 DEF MidAdd
    <3>4. MidDel(b)'
      <4>1. CASE pc[b] = "del2"
        <5>1. /\ aft[b] = nxt[p_ts[b]] /\ p_ts[b] \in Linked
              /\ WholeRing(Ring, nxt, [prv EXCEPT ![aft[b]] = p_ts[b]], nextSlot)
              /\ \/ prv[aft[b]] = bef[b]
                 \/ prv[aft[b]] = Poison /\ \E t \in Samples : nextSlot[t] = aft[b]
          BY <3>1, <4>1 DEF MidDel
        <5>2. aft[b] \in Nodes
          BY <5>1 DEF Linked
        <5>3. WholeRing(Ring, nxt, [prv' EXCEPT ![aft[b]] = p_ts[b]], nextSlot)
          <6> DEFINE P == [prv EXCEPT ![aft[b]] = p_ts[b]]
                     Q == [prv' EXCEPT ![aft[b]] = p_ts[b]]
          <6>1. WholeRing(Ring, nxt, P, nextSlot)
            BY <5>1
          <6>2. \A n \in Ring :
                  Q[n] = P[n] \/ (Q[n] = Poison /\ \E t \in Samples : nextSlot[t] = n)
            BY <1>1, <1>3, <5>2
          <6> HIDE DEF P, Q
          <6>3. WholeRing(Ring, nxt, Q, nextSlot)
            BY <6>1, <6>2, RuinWhole
          <6> QED
            BY <6>3 DEF Q
        <5>4. \/ prv'[aft[b]] = bef[b]
              \/ prv'[aft[b]] = Poison /\ \E t \in Samples : nextSlot[t] = aft[b]
          BY <1>3, <5>1, <5>2
        <5> QED
          BY <1>1, <3>1, <4>1, <5>1, <5>3, <5>4 DEF MidDel
      <4>2. CASE pc[b] = "del3"
        <5>1. WholeRing(Ring \ {p_ts[b]}, nxt, prv', nextSlot)
          BY <1>1, <1>3, <3>1, <4>2, RuinWhole DEF MidDel
        <5> QED
          BY <1>1, <3>1, <4>2, <5>1 DEF MidDel
      <4>3. CASE pc[b] \notin {"del2", "del3"}
        BY <1>1, <1>5, <3>1, <4>3 DEF MidDel
      <4> QED
        BY <4>1, <4>2, <4>3
    <3> QED
      BY <3>3, <3>4
  <2> QED
    BY <2>1, <2>2
<1> QED
  BY <1>1, <1>2, <1>5, <1>6, <1>7 DEF RingInv, Adding

\* A move does not begin in a list function, nor in what comes before and after one.
LEMMA MovesFrom ==
  ASSUME NEW a \in Actors, Moves(a)
  PROVE  /\ pc[a] \notin {"add", "unlink", "free", "acct"} \cup Adding \cup Deleting
         /\ UNCHANGED raced
<1> USE DEF Adding, Deleting, shared, torn, auxVars
<1>1. CASE GetTm(a) \/ CountTm(a) \/ PutTm(a) \/ KfreeTm(a) \/ EndWalk(a) \/ Account(a)
  BY <1>1 DEF GetTm, CountTm, PutTm, KfreeTm, EndWalk, Account
<1>2. CASE Show(a) \/ Reclaim(a) \/ Unload(a)
  BY <1>2 DEF Show, Reclaim, Unload
<1>3. CASE Teardown(a)
  BY <1>3 DEF Teardown, UnloadWalk, SysfsGone, ShrinkerGone, CacheGone, DebugfsGone,
              FreeAllTasks
<1> QED
  BY <1>1, <1>2, <1>3 DEF Moves

LEMMA RingStep ==
  ASSUME IInv, RingInv, [Next]_vars
  PROVE  RingInv'
<1> USE DEF IInv, TypeOK, Goto
<1>0. /\ ~raced => Linked \subseteq live
      /\ ~raced /\ pc[Sampler] \in {"add"} \cup Adding => p_ts[Sampler] \in live
  BY DEF RingInv
<1>1. ASSUME NEW a \in Actors, Moves(a)
      PROVE  RingInv'
  <2>1. /\ UNCHANGED <<nextSlot, nxt, prv, live, raced, aft>>
        /\ \A b \in Actors \ {a} : pc'[b] = pc[b] /\ p_ts'[b] = p_ts[b] /\ bef'[b] = bef[b]
        /\ pc[a] \notin Adding \cup Deleting
        /\ pc'[a] \notin {"add", "free"} \cup Adding \cup Deleting
    BY <1>1, MovesQuiet, MovesFrom DEF sampleVars
  <2> QED
    BY <1>0, <2>1, RingKept
<1>2. ASSUME NEW a \in Actors, First(a) \/ Advance(a) \/ Visit(a) \/ PutSample(a) \/ Drop(a)
      PROVE  RingInv'
  <2>1. /\ UNCHANGED <<nextSlot, nxt, prv, live, raced, bef, aft>>
        /\ \A b \in Actors \ {a} : pc'[b] = pc[b] /\ p_ts'[b] = p_ts[b]
    BY <1>2 DEF First, Advance, At, Visit, PutSample, Drop, KrefPut, shared, sampleVars, locals,
                auxVars
  <2>2. /\ pc[a] \notin Adding \cup Deleting
        /\ pc'[a] \notin {"add", "free"} \cup Adding \cup Deleting
    BY <1>2 DEF First, Advance, At, Visit, PutSample, Drop, KrefPut, Resume, Adding, Deleting
  <2> QED
    BY <1>0, <2>1, <2>2, RingKept
<1>3. ASSUME NEW a \in Actors, SampleOk(a), OnList(a)
      PROVE  RingInv'
  <2>1. CASE raced'
    BY <2>1 DEF RingInv
  <2>2. CASE ~raced'
    BY <1>3, <2>2, AddRing, DelRing, OnListMoves
  <2> QED
    BY <2>1, <2>2
<1>4. ASSUME NEW a \in Actors, Free(a)
      PROVE  RingInv'
  <2>1. /\ UNCHANGED <<nextSlot, nxt, prv, raced, p_ts>> /\ live' = live \ {p_ts[a]}
        /\ pc[a] = "free" /\ pc' = [pc EXCEPT ![a] = "acct"]
        /\ bef' = [bef EXCEPT ![a] = head] /\ aft' = [aft EXCEPT ![a] = head]
    BY <1>4 DEF Free, auxVars
  <2>2. ~raced => /\ p_ts[a] \notin Linked
                  /\ pc[Sampler] \in {"add"} \cup Adding => p_ts[a] # p_ts[Sampler]
    BY <2>1 DEF RingInv
  <2> QED
    BY <1>0, <2>1, <2>2, RingKept DEF Adding, Deleting
<1>5. ASSUME NEW a \in Actors, Acct(a)
      PROVE  RingInv'
  BY <1>5, AcctRing
<1>6. ASSUME NEW a \in Actors, Alloc(a)
      PROVE  RingInv'
  <2>1. /\ UNCHANGED <<nextSlot, nxt, prv, raced, bef, aft>> /\ a = Sampler /\ pc[a] = "alloc"
        /\ \A b \in Actors \ {a} : pc'[b] = pc[b] /\ p_ts'[b] = p_ts[b]
    BY <1>6 DEF Alloc, CursorInv
  <2>2. CASE pc'[a] # "add"
    <3>1. live' = live /\ pc'[a] = "put_tm"
      BY <1>6, <2>2 DEF Alloc
    <3> QED
      BY <1>0, <2>1, <3>1, RingKept DEF Adding, Deleting
  <2>3. CASE pc'[a] = "add"
    <3> SUFFICES ASSUME ~raced PROVE RingInv'
      BY <2>1 DEF RingInv
    <3>1. PICK s \in Samples \ live : p_ts'[a] = s /\ live' = live \cup {s}
      BY <1>6, <2>3 DEF Alloc
    <3>2. Linked' = Linked /\ Ring' = Ring /\ s \notin Linked
      BY <2>1, <3>1 DEF RingInv, Linked, Ring
    <3>3. \A b \in Actors : InList(b)' <=> InList(b)
      BY <2>1, <2>3 DEF InList, Adding, Deleting
    <3>4. ListWhole' <=> ListWhole
      BY <2>1, <3>2 DEF ListWhole, WholeRing
    <3>5. \A b \in Actors \ {a} : MidAdd(b)' /\ MidDel(b)'
      BY <2>1, <3>2, <3>4 DEF RingInv, MidAdd, MidDel, WholeRing
    <3>6. MidAdd(a)' /\ MidDel(a)'
      BY <2>3 DEF MidAdd, MidDel, Adding
    <3>7. \A b \in Actors : pc'[b] \in {"del2", "del3", "del4", "free"}
                              => b # a /\ p_ts[b] \in live
      BY <2>1, <2>3 DEF ReleasedOnce, Releasing, Deleting
    <3>8. \A b \in Actors : pc'[b] = "free" => p_ts'[b] \notin Linked'
      BY <2>1, <3>2, <3>7 DEF RingInv
    <3> QED
      BY <2>1, <2>3, <3>1, <3>2, <3>3, <3>4, <3>5, <3>6, <3>7, <3>8 DEF RingInv
  <2> QED
    BY <2>2, <2>3
<1>7. CASE \/ UNCHANGED vars \/ WakeUp \/ StopSeen \/ \E a \in Actors : Fault(a)
  <2>1. /\ UNCHANGED <<nextSlot, nxt, prv, live, raced, bef, aft, p_ts>>
        /\ \A b \in Actors : pc'[b] = pc[b] \/ (pc[b] = "idle" /\ pc'[b] \in {"get_tm", "stopped"})
    BY <1>7 DEF Fault, WakeUp, StopSeen, vars, shared, locals, sampleVars, auxVars
  <2> QED
    BY <1>0, <2>1, RingKept DEF Adding, Deleting
<1> QED
  BY <1>1, <1>2, <1>3, <1>4, <1>5, <1>6, <1>7, StepCases

\* As long as no two list functions have overlapped, the list of samples is a ring of
\* allocated samples whenever none is in progress, whatever the slab layout, and
\* whoever walks the list between two stores (taskmonitor2.c:162 and 180).
THEOREM ListStaysARing == Spec => []ListWellFormed
<1>1. Init => RingInv
  <2> SUFFICES ASSUME Init PROVE RingInv
    OBVIOUS
  <2>1. Linked = {} /\ Ring = {head} /\ \A a \in Actors : pc[a] = "idle"
    BY DEF Init, Linked, Ring
  <2>2. nxt[head] = head /\ prv[head] = head
    BY DEF Init
  <2>3. ListWhole
    BY <2>1, <2>2 DEF ListWhole, WholeRing
  <2> QED
    BY <2>1, <2>3 DEF RingInv, InList, MidAdd, MidDel, Adding, Deleting
<1>2. IInv /\ RingInv /\ [Next]_vars => RingInv'
  BY RingStep
<1>3. RingInv => ListWellFormed
  <2> SUFFICES ASSUME RingInv, ~raced, \A a \in Actors : ~InList(a), NEW n \in Ring
               PROVE  /\ nxt[n] \in Ring
                      /\ n \in Samples => n \in live
                      /\ prv[n] # Poison => prv[n] \in Ring /\ nxt[prv[n]] = n
                      /\ prv[nxt[n]] \in {n, Poison}
                      /\ prv[n] = Poison => \E s \in Samples : nextSlot[s] = n
    BY DEF ListWellFormed, Ring
  <2>1. ListWhole /\ Linked \subseteq live
    BY DEF RingInv
  <2>2. prv[nxt[n]] \in {n, Poison}
    BY <2>1 DEF ListWhole, WholeRing
  <2> QED
    BY <2>1, <2>2 DEF ListWhole, WholeRing, Ring
<1> QED
  BY Invariance, <1>1, <1>2, <1>3, PTL DEF Spec
=============================================================================
