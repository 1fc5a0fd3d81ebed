----------------------------- MODULE TaskMonitor -----------------------------
(***************************************************************************)
(* The task monitor of TP_07/EXO-05/taskmonitor2.c while it is loaded and  *)
(* while it is being unloaded.                                             *)
(*                                                                         *)
(* monitor_init leaves one task_monitor, tm, in the list of monitors.  Its *)
(* samples hang off a circular doubly linked list that nothing locks:      *)
(*   - the sampling thread (monitor_fn) appends a sample each period;      *)
(*   - reads of the sysfs and debugfs files walk the list backwards and    *)
(*     hold a reference on the sample they format;                         *)
(*   - memory reclaim counts the samples (my_shrink_count), then walks the *)
(*     list forwards and puts the reference of every sample                *)
(*     (my_shrink_scan);                                                   *)
(*   - module removal (monitor_exit) stops the thread, walks the list as   *)
(*     my_shrink_scan does and tears the module down.                      *)
(* Whoever puts the last reference of a sample runs task_sample_release.   *)
(*                                                                         *)
(* A step is one kref operation, one access to a pointer of the list or    *)
(* one access to a shared counter: list_add_tail and list_del take effect  *)
(* one load or store at a time, next to each other and to the walks.  An   *)
(* actor whose next step would touch freed memory, or follow a pointer to  *)
(* no node, sets fault instead, and the model stops: what the C program    *)
(* does afterwards is undefined.                                           *)
(***************************************************************************)
EXTENDS Integers, FiniteSets

CONSTANTS
  Samples,         \* the objects of the slab cache cached_ts
  Outside,         \* what follows an object in its slab page: not a sample
  Layouts,         \* the arrangements of Samples in slab pages: see nextSlot
  Sampler,         \* the thread running monitor_fn
  SysfsReaders,    \* readers of the sysfs file, in sysfs_show
  DebugfsReaders,  \* readers of the debugfs file, in debugfs_task_monitor_show
  Reclaimers,      \* tasks running the shrinker
  Unloaders,       \* the task running monitor_exit: {} if never unloaded
  head,            \* &tm->head.list
  Poison,          \* a pointer to no node: LIST_POISON, or never written
  MaxCreated,      \* bound on the samples ever created
  MaxExtraPuts     \* bound on the puts of a sample past its last reference

Readers  == SysfsReaders \cup DebugfsReaders
Droppers == Reclaimers \cup Unloaders
Actors   == {Sampler} \cup Readers \cup Droppers
Nodes    == Samples \cup {head}
Pointers == Nodes \cup {Poison}

ASSUME NodesAssumption ==
  /\ head \notin Samples /\ Poison \notin Nodes /\ Outside \notin Nodes
  /\ Layouts \subseteq [Samples -> Samples \cup {Outside}]

ASSUME ActorsAssumption ==
  /\ Sampler \notin Readers \cup Droppers
  /\ Readers \cap Droppers = {}
  /\ SysfsReaders \cap DebugfsReaders = {}
  /\ Reclaimers \cap Unloaders = {}
  /\ \A a, b \in Unloaders : a = b

ASSUME FiniteAssumption == IsFiniteSet(Samples) /\ IsFiniteSet(Actors)

ASSUME BoundAssumption == MaxCreated \in Nat /\ MaxExtraPuts \in Nat

VARIABLES
  nextSlot,         \* the object that follows each one in its slab page
  live,             \* the samples the slab cache has handed out
  ref,              \* ref[s]: its refcount
  nxt, prv,         \* the list's pointers, of the samples and of head
  nb_samples,       \* tm->nb_samples
  total_created, total_destroyed,
  tmRef, tmLive,    \* tm's refcount; tm is allocated (and in the list)
  up,               \* what monitor_init set up and monitor_exit takes down
  pc, p_ts, q_ts,   \* where each actor is; its loop cursors
  bef, aft,         \* the neighbours that its list function has read
  tmp,              \* total_destroyed as read by the actor's increment
  res,              \* what the reclaimer's my_shrink_count returns
  counting,         \* the reclaimers in my_shrink_count
  fault,            \* the kind of memory a wrong access hit
  listRef,          \* auxiliary: the samples whose first reference is not put
  overdrop,         \* auxiliary: that reference was put twice for a sample
  raced             \* auxiliary: two list functions have overlapped

sampleVars == <<live, ref, nxt, prv, nextSlot>>
tmVars     == <<tmRef, tmLive, nb_samples>>
totals     == <<total_created, total_destroyed>>
auxVars    == <<listRef, overdrop, raced>>
vars == <<sampleVars, tmVars, totals, up, pc, p_ts, q_ts, bef, aft, tmp, res,
          counting, fault, auxVars>>

\* what an actor's step leaves alone when it only moves that actor
shared == <<sampleVars, tmVars, totals, up, fault, auxVars>>
locals == <<p_ts, q_ts, bef, aft, tmp, res, counting>>

\* a list function has read a pointer and has stores to make: list_add_tail, ...
Adding == {"add1", "add2", "add3", "add4"}

\* ... and list_del
Deleting == {"unlink2", "del1", "del2", "del3", "del4"}

PCs == {"idle", "get_tm", "count", "alloc", "add", "account", "first",
        "visit", "hold", "unlink", "free", "acct", "advance", "put_tm",
        "kfree_tm", "next_tm", "stopped", "stop", "sysfs", "shrinker",
        "cache", "debugfs", "unloaded"} \cup Adding \cup Deleting

Parts == {"thread", "sysfs", "shrinker", "cache", "debugfs", "all_tasks"}

TypeOK ==
  /\ nextSlot \in Layouts
  /\ live \subseteq Samples
  /\ ref \in [Samples -> Int]
  /\ nxt \in [Nodes -> Pointers] /\ prv \in [Nodes -> Pointers]
  /\ nb_samples \in Nat /\ total_created \in Nat /\ total_destroyed \in Nat
  /\ tmRef \in Int /\ tmLive \in BOOLEAN
  /\ up \subseteq Parts
  /\ pc \in [Actors -> PCs]
  /\ p_ts \in [Actors -> Pointers] /\ q_ts \in [Actors -> Pointers]
  /\ bef \in [Actors -> Pointers] /\ aft \in [Actors -> Pointers]
  /\ tmp \in [Actors -> Nat]
  /\ res \in [Reclaimers -> Nat]
  /\ counting \subseteq Reclaimers
  /\ fault \in {"none", "sample", "monitor"}
  /\ listRef \subseteq Samples /\ overdrop \in BOOLEAN /\ raced \in BOOLEAN

\* monitor_init has returned 0
Init ==
  /\ nextSlot \in Layouts
  /\ live = {} /\ ref = [s \in Samples |-> 0]
  /\ nxt = [n \in Nodes |-> IF n = head THEN head ELSE Poison]
  /\ prv = nxt
  /\ nb_samples = 0 /\ total_created = 0 /\ total_destroyed = 0
  /\ tmRef = 1 /\ tmLive = TRUE
  /\ up = Parts
  /\ pc = [a \in Actors |-> "idle"]
  /\ p_ts = [a \in Actors |-> head] /\ q_ts = p_ts
  /\ bef = p_ts /\ aft = p_ts
  /\ tmp = [a \in Actors |-> 0]
  /\ res = [a \in Reclaimers |-> 0]
  /\ counting = {}
  /\ fault = "none"
  /\ listRef = {} /\ overdrop = FALSE /\ raced = FALSE

Goto(a, label) == pc' = [pc EXCEPT ![a] = label]

-----------------------------------------------------------------------------
(* Entering and leaving the walk over the list of monitors.                *)

\* monitor_fn's timer expires, a file is read, reclaim calls the shrinker
WakeUp == /\ pc[Sampler] = "idle" /\ "thread" \in up /\ tmLive
          /\ Goto(Sampler, "get_tm")
          /\ UNCHANGED <<shared, locals>>

Show(a) == /\ pc[a] = "idle" /\ tmLive
           /\ \/ a \in SysfsReaders /\ "sysfs" \in up
              \/ a \in DebugfsReaders /\ "debugfs" \in up
           /\ Goto(a, "get_tm")
           /\ UNCHANGED <<shared, locals>>

Reclaim(a) == /\ a \in Reclaimers /\ pc[a] = "idle"
              /\ "shrinker" \in up /\ tmLive
              /\ Goto(a, "get_tm")
              /\ counting' = counting \cup {a}
              /\ UNCHANGED <<shared, p_ts, q_ts, bef, aft, tmp, res>>

GetAlways(n) == TRUE    \* mutant: kref_get

\* kref_get_unless_zero succeeds whenever the count is not exactly 0
GetUnlessZero(n) == n # 0

\* what the loop over the monitors does with tm once it holds it
Body(a) == CASE a = Sampler   -> "alloc"
             [] a \in counting -> "count"
             [] OTHER          -> "first"

GetTm(a) == /\ pc[a] = "get_tm"
            /\ IF GetUnlessZero(tmRef)
                 THEN tmRef' = tmRef + 1 /\ Goto(a, Body(a))
                 ELSE tmRef' = tmRef /\ Goto(a, "next_tm")
            /\ UNCHANGED <<sampleVars, tmLive, nb_samples, totals, up, locals,
                           fault, auxVars>>

LastRefNonPositive(n) == n <= 1  \* mutant: tests the new count with <= 0
LastRefEarly(n)       == n <= 2  \* mutant: leaves out the last holder
LastRefNever(n)       == n = 0   \* mutant: tests the count before the put

\* kref_put releases in the put that takes the count to exactly 0
LastRef(n) == n = 1

CountTm(a) == /\ pc[a] = "count"
              /\ res' = [res EXCEPT ![a] = @ + nb_samples]
              /\ Goto(a, "put_tm")
              /\ UNCHANGED <<shared, p_ts, q_ts, bef, aft, tmp, counting>>

PutTm(a) == /\ pc[a] = "put_tm"
            /\ tmRef' = tmRef - 1
            /\ Goto(a, IF LastRef(tmRef) THEN "kfree_tm" ELSE "next_tm")
            /\ p_ts' = [p_ts EXCEPT ![a] = head]
            /\ q_ts' = [q_ts EXCEPT ![a] = head]
            /\ UNCHANGED <<sampleVars, tmLive, nb_samples, totals, up, bef, aft, tmp, res,
                           counting, fault, auxVars>>

\* task_monitor_release: list_del, then kfree
KfreeTm(a) == /\ pc[a] = "kfree_tm"
              /\ tmLive' = FALSE
              /\ Goto(a, "next_tm")
              /\ UNCHANGED <<sampleVars, tmRef, nb_samples, totals, up, locals,
                             fault, auxVars>>

\* list_for_each_entry reads tm's successor only now; the _safe variants of
\* my_shrink_scan and monitor_exit have read it before
ReadsTmNext(a) == a \in {Sampler} \cup Readers \cup counting

\* The end of the walk.  After a count, reclaim scans only if there is
\* something to free and, in my_shrink_scan, if __GFP_FS allows it.
EndWalk(a) == /\ pc[a] = "next_tm" /\ a \notin Unloaders
              /\ \/ /\ a \in counting /\ res[a] > 0 /\ tmLive
                    /\ Goto(a, "get_tm")
                 \/ Goto(a, "idle")
              /\ counting' = counting \ {a}
              /\ res' = IF a \in Reclaimers THEN [res EXCEPT ![a] = 0] ELSE res
              /\ UNCHANGED <<shared, p_ts, q_ts, bef, aft, tmp>>

-----------------------------------------------------------------------------
(* save_sample, run by the sampling thread while it holds tm.              *)

FreshRefOne == 1        \* mutant: save_sample takes no reference of its own

\* kref_init, then kref_get_unless_zero
FreshRef == 2

\* The allocation may fail.  A sample is not published yet when its count is
\* set to FreshRef, and its list pointers are what its memory held before.
Alloc(a) ==
  /\ pc[a] = "alloc"
  /\ \/ \E s \in Samples \ live :
          /\ total_created < MaxCreated
          /\ live' = live \cup {s}
          /\ ref' = [ref EXCEPT ![s] = FreshRef]
          /\ listRef' = listRef \cup {s}
          /\ p_ts' = [p_ts EXCEPT ![a] = s]
          /\ Goto(a, "add")
     \/ /\ Goto(a, "put_tm")
        /\ UNCHANGED <<live, ref, listRef, p_ts>>
  /\ UNCHANGED <<nextSlot, nxt, prv, tmVars, totals, up, q_ts, bef, aft, tmp, res,
                 counting, fault, overdrop, raced>>

InList(a) == pc[a] \in Adding \cup Deleting

\* a enters a list function: nothing keeps another actor from being in one
Enters(a) == raced' = (raced \/ \E b \in Actors \ {a} : InList(b))

SetNext(n, v) == nxt' = [nxt EXCEPT ![n] = v] /\ UNCHANGED prv
SetPrev(n, v) == prv' = [prv EXCEPT ![n] = v] /\ UNCHANGED nxt

\* list_add_tail(&ts->list, &tm->head.list) reads head->prev
Add(a) == /\ pc[a] = "add"
          /\ bef' = [bef EXCEPT ![a] = prv[head]]
          /\ Enters(a)
          /\ Goto(a, "add1")
          /\ UNCHANGED <<sampleVars, tmVars, totals, up, p_ts, q_ts, aft, tmp, res,
                         counting, fault, listRef, overdrop>>

\* mutant: prev->next is set first
LinkFirst(a) == \/ pc[a] = "add1" /\ SetNext(bef[a], p_ts[a]) /\ Goto(a, "add2")
                \/ pc[a] = "add2" /\ SetPrev(head, p_ts[a])   /\ Goto(a, "add3")
                \/ pc[a] = "add3" /\ SetNext(p_ts[a], head)   /\ Goto(a, "add4")
                \/ pc[a] = "add4" /\ SetPrev(p_ts[a], bef[a]) /\ Goto(a, "account")

\* the stores of __list_add(new, prev, next): head is next
__list_add(a) == \/ pc[a] = "add1" /\ SetPrev(head, p_ts[a])   /\ Goto(a, "add2")
                 \/ pc[a] = "add2" /\ SetNext(p_ts[a], head)   /\ Goto(a, "add3")
                 \/ pc[a] = "add3" /\ SetPrev(p_ts[a], bef[a]) /\ Goto(a, "add4")
                 \/ pc[a] = "add4" /\ SetNext(bef[a], p_ts[a]) /\ Goto(a, "account")

Link(a) == /\ __list_add(a)
           /\ UNCHANGED <<nextSlot, live, ref, tmVars, totals, up, locals, fault, auxVars>>

Account(a) == /\ pc[a] = "account"
              /\ total_created' = total_created + 1
              /\ nb_samples' = nb_samples + 1
              /\ Goto(a, "hold")
              /\ bef' = [bef EXCEPT ![a] = head]
              /\ UNCHANGED <<sampleVars, tmRef, tmLive, total_destroyed, up, p_ts, q_ts,
                             aft, tmp, res, counting, fault, auxVars>>

-----------------------------------------------------------------------------
(* kref_put(&ts->refcount, task_sample_release)                            *)

\* where an actor goes once it is done with the sample it has put
Resume(a) == IF a = Sampler THEN "put_tm" ELSE "advance"

KrefPut(a, s) == /\ ref' = [ref EXCEPT ![s] = @ - 1]
                 /\ Goto(a, IF LastRef(ref[s]) THEN "unlink" ELSE Resume(a))

\* a reader, or save_sample, puts the reference it took itself
PutSample(a) == /\ pc[a] = "hold"
                /\ KrefPut(a, p_ts[a])
                /\ UNCHANGED <<nextSlot, live, nxt, prv, tmVars, totals, up, locals,
                               fault, auxVars>>

\* my_shrink_scan and monitor_exit put the reference the list stands for,
\* whether or not another walk has put it already
Drop(a) == /\ pc[a] = "visit" /\ a \in Droppers
           /\ ref[p_ts[a]] > -MaxExtraPuts
           /\ KrefPut(a, p_ts[a])
           /\ listRef' = listRef \ {p_ts[a]}
           /\ overdrop' = (overdrop \/ p_ts[a] \notin listRef)
           /\ UNCHANGED <<nextSlot, live, nxt, prv, tmVars, totals, up, locals,
                          fault, raced>>

(* task_sample_release                                                     *)

\* list_del(&t->list) reads t->prev and t->next, one after the other
Unlink(a) == /\ pc[a] = "unlink"
             /\ bef' = [bef EXCEPT ![a] = prv[p_ts[a]]]
             /\ Enters(a)
             /\ Goto(a, "unlink2")
             /\ UNCHANGED <<sampleVars, tmVars, totals, up, p_ts, q_ts, aft, tmp, res,
                            counting, fault, listRef, overdrop>>

ReadNext(a) == /\ pc[a] = "unlink2"
               /\ aft' = [aft EXCEPT ![a] = nxt[p_ts[a]]]
               /\ Goto(a, "del1")
               /\ UNCHANGED <<shared, p_ts, q_ts, bef, tmp, res, counting>>

\* mutant: one way only
DelForward(a) == \/ pc[a] = "del1" /\ UNCHANGED <<nxt, prv>>   /\ Goto(a, "del2")
                 \/ pc[a] = "del2" /\ SetNext(bef[a], aft[a]) /\ Goto(a, "del3")

\* the stores of __list_del(prev, next)
__list_del(a) == \/ pc[a] = "del1" /\ SetPrev(aft[a], bef[a]) /\ Goto(a, "del2")
                 \/ pc[a] = "del2" /\ SetNext(bef[a], aft[a]) /\ Goto(a, "del3")

\* list_del then poisons both pointers of t
ListDel(a) ==
  /\ \/ __list_del(a)
     \/ pc[a] = "del3" /\ SetNext(p_ts[a], Poison) /\ Goto(a, "del4")
     \/ pc[a] = "del4" /\ SetPrev(p_ts[a], Poison) /\ Goto(a, "free")
  /\ UNCHANGED <<nextSlot, live, ref, tmVars, totals, up, locals, fault, auxVars>>

\* kmem_cache_free, then the read of total_destroyed++
Free(a) == /\ pc[a] = "free"
           /\ live' = live \ {p_ts[a]}
           /\ tmp' = [tmp EXCEPT ![a] = total_destroyed]
           /\ bef' = [bef EXCEPT ![a] = head] /\ aft' = [aft EXCEPT ![a] = head]
           /\ Goto(a, "acct")
           /\ UNCHANGED <<nextSlot, ref, nxt, prv, tmVars, totals, up, p_ts, q_ts, res,
                          counting, fault, auxVars>>

DestroyedTwice(n) == n + 2   \* mutant: a caller of kref_put counts it as well

Destroyed(n) == n + 1

\* The write of total_destroyed++, then tm->nb_samples-- through
\* container_of(t, struct task_monitor, head): t is no monitor's head, so the
\* decrement lands 48 bytes after t, on the prev pointer of the next object of
\* the slab page (they are 40 bytes apart), and never on tm->nb_samples.
Acct(a) ==
  /\ pc[a] = "acct"
  /\ total_destroyed' = Destroyed(tmp[a])
  /\ tmp' = [tmp EXCEPT ![a] = 0]
  /\ prv' = [s \in Nodes |-> IF s = nextSlot[p_ts[a]] THEN Poison ELSE prv[s]]
  /\ Goto(a, Resume(a))
  /\ UNCHANGED <<nextSlot, live, ref, nxt, tmVars, total_created, up, p_ts, q_ts, bef, aft,
                 res, counting, fault, auxVars>>

-----------------------------------------------------------------------------
(* The loops over the samples of tm.                                       *)

\* after its cursor is set to n, a loop visits n or has come back to head
At(a, n) == Goto(a, IF n = head THEN "put_tm" ELSE "visit")

\* the reads walk backwards; the others forwards, one step ahead: they have read
\* head->next and go on with the pointer of the node it leads to
First(a) ==
  /\ pc[a] = "first"
  /\ \/ /\ a \in Readers
        /\ p_ts' = [p_ts EXCEPT ![a] = prv[head]]
        /\ q_ts' = q_ts
        /\ At(a, prv[head])
     \/ /\ a \in Droppers
        /\ p_ts' = p_ts
        /\ q_ts' = [q_ts EXCEPT ![a] = nxt[head]]
        /\ Goto(a, "advance")
  /\ UNCHANGED <<shared, bef, aft, tmp, res, counting>>

Visit(a) ==
  /\ pc[a] = "visit" /\ a \in Readers
  /\ IF GetUnlessZero(ref[p_ts[a]])
       THEN /\ ref' = [ref EXCEPT ![p_ts[a]] = @ + 1]
            /\ Goto(a, "hold")
       ELSE /\ ref' = ref
            /\ Goto(a, "advance")
  /\ UNCHANGED <<nextSlot, live, nxt, prv, tmVars, totals, up, locals, fault, auxVars>>

\* the reads follow the pointers of the sample they are on, the loops that
\* free it those of the sample they have read in advance
Advance(a) ==
  /\ pc[a] = "advance"
  /\ LET n == IF a \in Readers THEN prv[p_ts[a]] ELSE q_ts[a] IN
       /\ p_ts' = [p_ts EXCEPT ![a] = n]
       /\ q_ts' = IF a \in Readers THEN q_ts ELSE [q_ts EXCEPT ![a] = nxt[n]]
       /\ At(a, n)
  /\ UNCHANGED <<shared, bef, aft, tmp, res, counting>>

-----------------------------------------------------------------------------
(* monitor_exit.                                                           *)

\* the state that the teardown steps leave alone
torn == <<sampleVars, tmVars, totals, fault, auxVars, locals>>

\* kthread_stop asks the thread to end, and waits until it has
Unload(a) == /\ a \in Unloaders /\ pc[a] = "idle"
             /\ up' = up \ {"thread"}
             /\ Goto(a, "stop")
             /\ UNCHANGED torn

StopSeen == /\ pc[Sampler] = "idle" /\ "thread" \notin up
            /\ Goto(Sampler, "stopped")
            /\ UNCHANGED <<shared, locals>>

\* the walk holds no reference on tm but the one it is about to put
UnloadWalk(a) == /\ pc[a] = "stop" /\ pc[Sampler] = "stopped"
                 /\ Goto(a, "first")
                 /\ UNCHANGED <<shared, locals>>

\* kobject_put removes the file and waits for the reads in progress
SysfsGone(a) == /\ a \in Unloaders /\ pc[a] = "next_tm"
                /\ up' = up \ {"sysfs"}
                /\ Goto(a, "sysfs")
                /\ UNCHANGED torn

Everyone == \A r \in Actors : pc[r] = "idle"  \* mutant: waits for itself too
NoWait   == TRUE                              \* mutant: does not wait

SysfsDrained == \A r \in SysfsReaders : pc[r] = "idle"

\* unregister_shrinker waits for the reclaim in progress
ShrinkerGone(a) == /\ pc[a] = "sysfs" /\ SysfsDrained
                   /\ up' = up \ {"shrinker"}
                   /\ Goto(a, "shrinker")
                   /\ UNCHANGED torn

ShrinkerDrained == \A r \in Reclaimers : pc[r] = "idle"

\* kmem_cache_destroy, the pool having been destroyed
CacheGone(a) == /\ pc[a] = "shrinker" /\ ShrinkerDrained
                /\ up' = up \ {"cache"}
                /\ Goto(a, "cache")
                /\ UNCHANGED torn

\* debugfs_remove, which comes last, waits for the reads in progress
DebugfsGone(a) == /\ pc[a] = "cache"
                  /\ up' = up \ {"debugfs"}
                  /\ Goto(a, "debugfs")
                  /\ UNCHANGED torn

DebugfsDrained == \A r \in DebugfsReaders : pc[r] = "idle"

FreeAllTasks(a) == /\ pc[a] = "debugfs" /\ DebugfsDrained
                   /\ up' = up \ {"all_tasks"}
                   /\ Goto(a, "unloaded")
                   /\ UNCHANGED torn

-----------------------------------------------------------------------------
(* Accesses to memory.                                                     *)

\* the nodes that the actor's next step dereferences
Accesses(a) ==
  CASE pc[a] \in {"visit", "hold", "unlink", "unlink2", "del3", "del4", "free",
                  "add2", "add3"}   -> {p_ts[a]}
    [] pc[a] \in {"add4", "del2"}   -> {bef[a]}
    [] pc[a] = "del1"               -> {aft[a]}
    [] pc[a] = "advance"            -> {IF a \in Readers THEN p_ts[a] ELSE q_ts[a]}
    [] OTHER                        -> {}

SampleOk(a) == Accesses(a) \subseteq live \cup {head}

MonitorOk(a) ==
  \/ tmLive
  \/ pc[a] \notin {"get_tm", "count", "alloc", "first", "put_tm", "kfree_tm",
                   "next_tm"}
  \/ pc[a] = "next_tm" /\ ~ReadsTmNext(a)

Fault(a) == /\ ~(SampleOk(a) /\ MonitorOk(a))
            /\ fault' = IF SampleOk(a) THEN "monitor" ELSE "sample"
            /\ UNCHANGED <<sampleVars, tmVars, totals, up, pc, locals, auxVars>>

-----------------------------------------------------------------------------
\* what an actor may do only when something outside calls it
Enter(a) == Show(a) \/ Reclaim(a) \/ Unload(a)

\* the steps of an actor that is under way
Walk(a) == \/ GetTm(a) \/ CountTm(a) \/ PutTm(a) \/ KfreeTm(a) \/ EndWalk(a)
           \/ First(a) \/ Visit(a) \/ Advance(a)
           \/ PutSample(a) \/ Drop(a)
           \/ Unlink(a) \/ ReadNext(a) \/ ListDel(a) \/ Free(a) \/ Acct(a)
           \/ Alloc(a) \/ Add(a) \/ Link(a) \/ Account(a)

Teardown(a) == \/ UnloadWalk(a) \/ SysfsGone(a) \/ ShrinkerGone(a)
               \/ CacheGone(a) \/ DebugfsGone(a) \/ FreeAllTasks(a)

Step(a) == /\ fault = "none"
           /\ \/ SampleOk(a) /\ MonitorOk(a) /\ (Walk(a) \/ Teardown(a))
              \/ Fault(a)

Start(a) == fault = "none" /\ Enter(a)
Tick     == fault = "none" /\ (WakeUp \/ StopSeen)

\* the module is unloaded, or its behaviour is no longer defined
Halted == (fault # "none" \/ "all_tasks" \notin up) /\ UNCHANGED vars

Next == (\E a \in Actors : Start(a) \/ Step(a)) \/ Tick \/ Halted

Spec == Init /\ [][Next]_vars

\* Fairness: the scheduler runs every task, and a thread that was asked to stop
\* wakes up.  Nothing obliges the sampling timer, readers or reclaim to start.
LiveSpec == /\ Spec
            /\ \A a \in Actors : WF_vars(Step(a))
            /\ WF_vars(fault = "none" /\ StopSeen)

-----------------------------------------------------------------------------
(* Safety.                                                                 *)

Releasing(a) == pc[a] \in {"unlink", "free"} \cup Deleting

\* However readers, the sampling thread, reclaims and an unload interleave
\* their puts, and however often a sample's list reference is put, at most one
\* of them runs task_sample_release on it, and it does so while the sample is
\* still allocated: no double kmem_cache_free, no double list_del.
ReleasedOnce ==
  \A a \in Actors : Releasing(a) =>
    /\ p_ts[a] \in live /\ ref[p_ts[a]] <= 0
    /\ \A b \in Actors : Releasing(b) /\ p_ts[b] = p_ts[a] => b = a

Linked == {s \in Samples : nxt[s] # Poison}

\* As long as no two list functions have overlapped, which no lock prevents, each
\* of them leaves a ring of allocated samples through head: from a linked node
\* both pointers lead to linked nodes, and each undoes the other.  So no walk
\* can reach a freed sample through the list itself, only through a cursor it
\* kept.  When samples are neighbours in a slab page, task_sample_release's
\* stray decrement may ruin prev pointers, but only that: the ring of the next
\* pointers stays whole as long as nobody follows a ruined one.
ListWellFormed ==
  ~raced /\ (\A a \in Actors : ~InList(a)) =>
    \A n \in Linked \cup {head} :
      /\ nxt[n] \in Linked \cup {head}
      /\ n \in Samples => n \in live
      /\ prv[n] # Poison => prv[n] \in Linked \cup {head} /\ nxt[prv[n]] = n
      /\ prv[nxt[n]] \in {n, Poison}
      /\ prv[n] = Poison => \E s \in Samples : nextSlot[s] = n

\* who holds a counted reference on s that it took itself
Holders(s) == {a \in Actors : /\ p_ts[a] = s
                              /\ pc[a] \in {"add", "account", "hold"} \cup Adding}

\* Until two walks have put the list's reference of one sample, the refcount of
\* every allocated sample is exactly the list's reference plus one for each
\* reader or save_sample that holds it: a held sample cannot be freed.
RefAccounting ==
  ~overdrop => \A s \in live :
    ref[s] = Cardinality(Holders(s)) + (IF s \in listRef THEN 1 ELSE 0)

\* the sample that save_sample has allocated and not counted yet
Uncounted == IF pc[Sampler] \in {"add", "account"} \cup Adding THEN 1 ELSE 0

\* C - D, as monitor_exit prints it, is never below the number of samples
\* alive, save the one being created: concurrent releases can lose an increment
\* of total_destroyed but cannot invent one.
LivingNotUnderReported ==
  Cardinality(live) <= total_created - total_destroyed + Uncounted

\* A sample's life as a kref protects it: once its count is 0 no
\* kref_get_unless_zero brings it back, whatever extra puts make of the count.
Lifetime == INSTANCE KrefLifetime WITH
              Objects <- Samples,
              state <- [s \in Samples |-> IF s \notin live THEN "free"
                                         ELSE IF ref[s] > 0 THEN "alive"
                                         ELSE "dying"]

Implements == Lifetime!Spec

\* A release has begun to take a sample off the list, or has ended.
Released == total_destroyed > 0 \/ \E a \in Actors : Releasing(a) \/ pc[a] = "acct"

\* As long as no reclaim or unload makes anybody release a sample, the only wrong
\* access to one is that of a reader that goes backwards from a sample whose prev
\* pointer list_add_tail has not set yet (list.h:61-63); no cursor is left on
\* freed memory, and the loops that go forwards find every pointer set.
FaultNeedsRelease ==
  fault = "sample" /\ ~Released => \E r \in Readers : pc[r] = "visit" /\ p_ts[r] = Poison

\* A reader that holds a sample holds an allocated one: "1 reference au
\* minimum, car meme s'il est passe dans le liberateur, il reste encore la
\* reference posee par la personne qui affiche" (tp7_rapport, 227).
HeldSampleIsLive ==
  \A r \in Readers : pc[r] = "hold" => p_ts[r] \in live

-----------------------------------------------------------------------------
(* Unloading.                                                              *)

\* Nobody walks the list of monitors when monitor_exit frees all_tasks.
WalkersDrained ==
  "all_tasks" \notin up => \A a \in Actors \ Unloaders :
                             pc[a] \in {"idle", "stopped"}

\* All samples are back in the slab cache when monitor_exit destroys it, even
\* those a sysfs read or a reclaim was working on when the unload walked the
\* list.  Only a read of the debugfs file, which is removed after the cache
\* (l.453-455), can still have the sample it is on.  Of list functions that have
\* overlapped nothing is said: a sample that list_add_tail put behind one that
\* list_del took off at the same time is on no list, and is never found.
CacheEmptyAtDestroy ==
  "cache" \notin up /\ fault = "none" /\ ~raced =>
    live \subseteq {p_ts[r] : r \in {d \in DebugfsReaders : pc[d] # "idle"}}

\* A walker that got a reference on tm can use tm until it puts it, even when
\* monitor_exit puts the initial reference under it.
HeldMonitorIsLive ==
  \A a \in Actors \ Unloaders :
    pc[a] \in {"count", "alloc", "add", "account", "first", "visit", "hold", "unlink",
              "free", "acct", "advance", "put_tm"} \cup Adding \cup Deleting => tmLive

-----------------------------------------------------------------------------
(* Liveness.                                                               *)

\* A sample whose first reference has been put is freed, unless an actor first
\* faults: no reader, thread or reclaim leaks it, and readers keep it only as
\* long as one of them is always at work.
DroppedIsFreed ==
  []<>(\A r \in Readers : pc[r] = "idle") =>
    \A s \in Samples :
      (s \in live /\ s \notin listRef) ~> (s \notin live \/ fault # "none")

\* monitor_exit ends: its waits for the thread, the sysfs readers and reclaim
\* are not circular.
UnloadEnds ==
  ("thread" \notin up) ~> ("all_tasks" \notin up \/ fault # "none")
=============================================================================
