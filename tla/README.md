# A TLA+ model of the PNL exercises

The repository holds the exercises of a kernel programming course (PNL): small
C programs, Linux kernel modules of growing size, and the start of a file
system.  This directory models the parts of it that have behaviour over time,
first of all the task monitor of `TP_07/EXO-05`, in TLA+.  TLC checks the models
on small instances, and TLAPS proves theorems about seven of them for instances of
any size.

Paths below are relative to `src/`.

## 1. The system

| Part | State | Operations | What is hard |
|---|---|---|---|
| **Task monitor** `TP_07/EXO-05/taskmonitor2.c` | a list with one `task_monitor`; its circular list of `task_sample`s, each with a kref; the monitor's kref; `nb_samples`, `total_created`, `total_destroyed`; the slab cache; `run`, `monitor_thread`, `my_string` | sampling thread `monitor_fn`/`save_sample`; `sysfs_show`, `debugfs_task_monitor_show`; shrinker `my_shrink_count`/`my_shrink_scan`; `sysfs_store`; `monitor_init`, `monitor_exit` | everything runs concurrently and nothing is locked (the mutex is never taken); whoever puts the last reference frees the sample; the unload tears down what others use |
| **sysfs task monitor** `TP_06/EXO-05/taskmonitor.c` | `tm`, `run`, `monitor_thread`, `my_string`, the file | the thread, `sysfs_store`, init, exit | `run` is a plain variable tested by every writer |
| **ioctl task monitor** `TP_06/EXO-06/taskmonitor.c` | `tm`, `value`, `target`, `run`, `monitor_thread` | `etx_ioctl` (eight commands), init, exit | one command replaces `tm` while others use it; error paths |
| **Linked lists** `TP_02/EXO-01/list.h` | the two pointers of every head and entry | `list_add` to `list_splice_tail_init`, and the loops | two to ten stores per function, and the drivers take no lock; loops that run meanwhile |
| **Commit history** `TP_01/EXO-03` | a ring of commits, `commit_list` | insertion, deletion, display, search | pointer surgery in any order; a list head that can be deleted |
| **mkfs for pnlFS** `projet_pnl/src/mkfs-pnlfs.c` | the superblock's counts, the offset in the image | five functions that write one section each | rounding; writes that fail or stop short |
| **Small modules**: first task monitor `TP_06/EXO-04`, hanging, kcpustat, prdebug `TP_05`, helloioctl and hellosysfs `TP_06` | a thread, a list of statistics, a timer, four resources of a character device, a file | init, exit, the thread or timer | what the kernel refuses on the way; a thread that ends before it is stopped; a timer that arms itself again |
| pnlFS module `projet_pnl/src/pnlfs.c` | none | prints at load and unload | - |
| `TP_04/ex1`, `TP_08` | one kernel value | print or overwrite it at load, undo at unload | - |
| `TP_03/ex5` cron server | the loaded symbol | reload on `SIGALRM` | - |
| `TP_01/EXO-01`, `TP_02/EXO-05` | - | version comparison, comments | - |

How they interact: the modules do not call each other; the task monitor and
kcpustat link their data with the functions of `list.h`.  Within a module, tasks
of four kinds meet over shared memory and krefs: the module's own kernel thread,
processes that read or write its files or call its ioctls, memory reclaim (which
calls the shrinker), and the task that loads or unloads it.  `kthread_stop`,
`kobject_put` of a sysfs directory, `unregister_shrinker`, `del_timer_sync` and, in the
kernel the Makefiles name (4.9.85), `debugfs_remove` wait for the others.

What makes each part correct: a sample or monitor is freed exactly once and not
while someone holds it; the list stays a ring; the counters say what they claim
to; the unload drains everyone, leaks nothing and ends; `run` says whether the
thread is alive; every ioctl and write ends; functions that run next to each other
leave whole lists; a module that is not loaded gives back what it took; a report counts
everything once; a history is a sequence; an image has room for what its superblock
says, and everything is where it says.

`PROJECT.json` lists the components with what is left out of each, and the
hazards of the code, each with the properties that would catch it.

## 2. The modules

| Module | Models |
|---|---|
| `KrefLifetime` | what a kref promises: free, alive, dying, free, and nothing else |
| `TaskMonitor` | `taskmonitor2.c` loaded and being unloaded; instances in `MCTaskMonitor` |
| `TaskMonitorProofs` | theorems about `TaskMonitor` |
| `Kthread` | `kthread_run` and `kthread_stop` as the drivers use them |
| `SysfsMonitor` | `sysfs_store`, init and exit of `TP_06/EXO-05` and of `taskmonitor2.c` (extends `Kthread`) |
| `SysfsMonitorProofs` | theorems about `SysfsMonitor` |
| `IoctlMonitor` | `TP_06/EXO-06/taskmonitor.c` (extends `Kthread`) |
| `IoctlMonitorProofs` | theorems about `IoctlMonitor` |
| `SmallModules` | init, exit, thread or timer of `TP_06/EXO-04`, hanging, kcpustat, prdebug, helloioctl and hellosysfs (extends `Kthread`) |
| `SmallModulesProofs` | theorems about `SmallModules` |
| `Lists` | what `list.h` promises: sequences that change at once |
| `ListHead` | the functions and loops of `list.h`; symmetry in `MCListHead` |
| `CarefulTest` | `list_empty_careful` next to the functions of `ListHead` (extends `ListHead`); symmetry in `MCCarefulTest` |
| `ListHeadProofs` | theorems about `ListHead` and `CarefulTest` |
| `Paths` | lemmas on chains of pointers, for `ListHeadProofs` and `HistoryProofs`, and on sums, for `SmallModulesProofs` |
| `CommitSequence` | what a history promises: a sequence with insertion and deletion |
| `History` | `commit.c` and `history.c`; instance in `MCHistory` |
| `HistoryProofs` | theorems about `History` |
| `Mkfs` | `mkfs-pnlfs.c`; image sizes in `MCMkfs` |
| `MkfsProofs` | theorems about `Mkfs` |

Conventions.  Variables and, where TLA+ allows it, actions have the names of the C
code.  `pc[a]` is the statement that actor `a` is at.  An operation on memory that is
freed, or through a pointer to no object, sets `fault` and the model halts: the C
program has no defined behaviour from there on, and every other property is about
the executions up to there.  Operators whose comment begins with "mutant" are
plausible bugs; they are unused, and each property is known to fail with one of
them put in the place of the definition next to it.

### TaskMonitor

Actors are the sampling thread, readers of either file, reclaimers, and (if any)
the task that unloads the module.  A step is one kref operation, one load or store of a
list pointer, or one access to a shared counter:

| Action | Code |
|---|---|
| `WakeUp`, `GetTm`, `PutTm`, `KfreeTm`, `EndWalk` | the loop over the monitors, which takes and puts a reference on `tm` (`monitor_fn` 197-214 and its like in every walker) |
| `Alloc`, `Account`, `PutSample` | `save_sample` 148-170 |
| `Add`, `Link` | its `list_add_tail`: the read of `head->prev`, then the four stores of `__list_add` (`list.h` 57-65) |
| `First`, `Visit`, `PutSample`, `Advance` | the reads, 230-262 and 290-315, which walk backwards |
| `Reclaim`, `CountTm`, `First`, `Drop`, `Advance` | the shrinker, 64-108, which walks forwards with the successor read ahead |
| `Unlink`, `ReadNext`, `ListDel` | the `list_del` in `task_sample_release`: two reads, the two stores of `__list_del` and the two that poison the sample's pointers (`list.h` 106-129) |
| `Free`, `Acct` | the rest of `task_sample_release` 172-185, by whoever puts the last reference |
| `Unload`, `UnloadWalk`, `Drop`, `SysfsGone` ... `FreeAllTasks` | `monitor_exit` 411-461 |
| `Fault` | any of these when it would touch freed memory or follow a pointer to no node |

Three things in the code deserve a word.  `save_sample` sets the count to 1, takes
another reference and puts it; the remaining one belongs to the list, and is put by
`my_shrink_scan` or `monitor_exit` (`listRef` is the set of samples where this has
not happened, `overdrop` says that it happened twice).  `total_destroyed++` is a read
(`Free`) and a write (`Acct`).  And `tm->nb_samples--` in `task_sample_release` goes
through a `container_of` that takes a sample for a monitor's list head: with 40-byte
samples the word it decrements is the `prev` pointer of the next object in the slab
page.  Where samples lie is a choice made in `Init` (`nextSlot`: neighbours in `reclaim`,
apart in the other runs), and `Acct` sets the `prev` of the neighbour, if it is a sample, to
`Poison`.

No lock is taken, so list functions overlap, and the model lets them: `raced` is set when one
begins while another is under way, and everything goes on.  Two deletions of neighbours can
then leave a pointer to a freed sample in the list, and a `list_add_tail` next to the `list_del`
of the last sample leaves the new one on no list at all.  What is said of the list's shape
(`ListWellFormed`) and what depends on it (`CacheEmptyAtDestroy`) is therefore said of executions
without such an overlap, by `~raced` in the property; every other property is about all
executions.  A pointer that was never written counts as one to no node (`Poison`).

### SysfsMonitor, IoctlMonitor, Kthread

Each statement of the store or ioctl function that reads or writes shared state is an
action, so that writers interleave between the test of `run` and its update.  What
goes wrong from outside (`mishap`: calls that overlap, `kthread_run`, file creation,
`register_shrinker` or a pid lookup that fails) is recorded, and most properties say what holds
as long as it does not: they are about calls made one after the other, and catch nothing of what
overlap and refusals do.  Of that only `CallsEnd` and the first two parts of `UnloadedIsQuiet`
speak.  `kthread_stop` needs a thread that has not ended, because the code keeps no reference on it.  A freed `tm` is never reused in the model, so that a stale use
always shows.  `held` in `SysfsMonitor` is what init has got of the directory and the shrinker:
if the file is refused, init releases the directory, reports success, and exit releases it again;
if TP_07's shrinker is refused, exit unregisters it all the same.  Both are faults.  In
`IoctlMonitor` `target` is an unsigned short and keeps 16 bits of the pid it is given (`UShort`),
and a `register_chrdev` that fails, which init does not look at, leaves a module that no client
can open (`device`).

### ListHead

An operator with the name of a function of `list.h` gives the stores that the function
makes into a heap, in the order of the code.  Tasks that share no lock call those that
the drivers use (`list_add`, `list_add_tail`, `list_del`, `list_del_init`): `AddEntry` and
`DeleteEntry` are the calls, `Store` is one store.  `StartWalk`, `ReadAhead`, `Advance` and
`EndWalk` are the loops, in both directions, with and without `_safe`.  The other functions
(`MoveEntry`, `ReplaceEntry`, `Rotate`, `CutList`, `SpliceList`, `InitList`) run whole, while
nobody else is in a function or loop.

`CarefulTest` adds one task that calls `list_empty_careful` on any node: `ReadNextPointer` is its
first reading, `ReadPrevPointer` its second, and between them the others go on (`Beside`).

The mutex in `struct my_tasks` is never taken, so functions on the samples do overlap.
As long as no two in progress store into the same pointer, the outcome is that of running
them at once: `list_add_tail` by the sampling thread and `list_del` of the first of two
entries or more.  When they do store into the same pointer (two deletions of neighbours, or an
insertion next to the last entry being deleted), `raced` is set and the model stops: of that
half of the hazard `ListHead` says nothing.  `TaskMonitor` goes on there.
Loops forwards tolerate an insertion next to them.  Loops backwards, which `sysfs_show`
and the debugfs file use, do not: `new->prev` is set after the head's `prev`, and the reader
follows it meanwhile.  The tasks whose loop that can happen to are in `disturbed`.

### SmallModules

The model runs one of six modules, chosen in `Init`.  Whatever `init` asks of the kernel
may be refused (`mishap`), and each module has its own way of dealing with that.  The
kernel's side is modelled from how the modules use it, as it is in 4.9: `class_create`
and `device_create` return an error, never NULL, `device_create` tolerates an error in
place of the class and `device_destroy` dereferences it; `sysfs_create_file` stops at a
NULL kobject.  `count` is a counter of the kernel, CPU time for kcpustat and interrupts for
prdebug.

### History, Mkfs

`History` has the pointers; an action is a whole call, since the program is sequential.
`Mkfs` has the arithmetic of the superblock and one action per function that writes,
each of which may stop short.  Sizes are the real ones (4096-byte blocks, 256 inodes
a block), but for the width of an unsigned int (`Wide`), which run `mkfs` makes smaller.

## 3. The runs

| Run | Question | States |
|---|---|---|
| `reclaim` | thread, a reader, a reclaim and `monitor_exit` at once, two samples that are neighbours in the slab | 2.8 million, modulo symmetry |
| `unload` | liveness of thread, a reader and a reclaim with `monitor_exit` | 42 000 |
| `sysfs_control` | two writers, load and unload, both drivers, whatever the kernel refuses; liveness | 690 000 |
| `ioctl_control` | two clients, every ioctl, load and unload; liveness | 520 000 |
| `list` | every function of `list.h`, and two tasks whose functions interleave, on two lists | 38 000, modulo symmetry |
| `list_loops` | two tasks with loops and functions on one list, next to a `list_empty_careful` | 780 000, modulo symmetry |
| `small_modules` | load, work and unload of six modules, whatever the kernel refuses; liveness | 26 000 |
| `history` | every call sequence that makes up to five commits | 620 000 |
| `mkfs` | 1042 image sizes, every write failing or not | 81 000 |

What they show.

*reclaim.* Although scan and unload put references they do not own, and list functions overlap
store by store, a sample is released by one actor (`ReleasedOnce`) and never comes back
(`Implements`).  Counts are exact until some sample's list reference is put twice (`RefAccounting`).
`C - D`, which `monitor_exit` prints and `tp7_rapport` 202-204 calls the number of
instances, is not: two releases at once lose an increment, so that it can overstate the
number of samples.  It never understates it (`LivingNotUnderReported`), with the single sampling
thread that the driver starts; two overlapping "start"s could make a second one.

As long as list functions do not overlap, each leaves a ring, but for `prev` pointers that a stray
decrement hit (`ListWellFormed`).  Before any release has begun, one kind of wrong access is
possible without any freed memory: a read goes backwards over a sample that `list_add_tail` has
linked to by `head->prev` and whose own `prev` it has not set yet.  Every other wrong access needs a
release (`FaultNeedsRelease`).

`monitor_exit` waits for everyone before it frees the list of monitors (`WalkersDrained`); without
an overlap of list functions every sample is back when the cache is destroyed, except one that a
read of the debugfs file is on, which is removed only after the cache (`CacheEmptyAtDestroy`); a
monitor is not freed under those who hold it (`HeldMonitorIsLive`).

*unload.* Samples whose reference was put get freed, unless readers keep one for ever by
overlapping for ever (`DroppedIsFreed`), and the unload ends (`UnloadEnds`).

*sysfs_control, ioctl_control.* One call after the other, the drivers' single wrong access
is to stop a thread that a "stop" has already ended (`SequentialUseIsSafe`,
`OrderedCallsAreSafe`): `taskmonitor2.c` at unload, the ioctl driver at unload and in
`TASKMON_SET_PID`.  `run` tracks the thread (`RunTracksThread`), `target` the process, or 16 bits
of its number if that does not fit (`TargetIsMonitored`), no thread or write outlives the module, and one that was
refused its file or shrinker does not unload without a fault (`UnloadedIsQuiet`), and
everything is given back (`ResourcesReturned`).  The last needs pids that exist: with a
wrong one `TASKMON_SET_PID` gives the old `tm` back twice (`EXO-06/taskmonitor.c:213`),
though `tp_pnl_06` 199-200 says that it is given back in init on failure and in exit.
However calls overlap, each of them ends (`CallsEnd`).

*list.* The functions implement sequences, at every moment and for interleaved stores
(`Implements`): each takes effect with one store.  They leave whole rings in both directions
(`RingsWhole`).

*list_loops.* A loop comes across a wild pointer only if another task deleted, or inserted
under a loop that goes backwards (`LoopsStayOnList`).  When the two readings of
`list_empty_careful` make it say yes, nobody is in the middle of a change to the node, provided
that nothing was added to it, or it to a list, between the two (`CarefulIsQuiet`).  That is the
proviso of its comment (`list.h:219-222`): without it TLC finds an entry that is added after
the first reading and half taken off at the second.

*small_modules.* A module that failed to load, or is unloaded, has given back all it took, except
the samples of kcpustat's unfinished batch, which stay allocated (`OnlySamplesLeftBehind`); each
module survives every refusal but the few that are listed for it (`FaultIsUnchecked`); kcpustat's samples are all on its list (`SamplesAreListed`) and its
report, computed in place by a loop that must go backwards, is an increase of the counter
(`ReportIsIncrease`).  No interrupt is in two reports of
prdebug (`NotCountedTwice`), though some may be in none; unloading ends (`ExitEnds`).

*history.* The pointers implement a sequence (`Implements`) and never dangle
(`FaultNeedsFirstDeleted`).  `display_history` shows every commit but the last
(`DisplayMissesLast`).  `infos` never looks at the last commit either, and when it finds the version
it shows the commit after the one that has it (`InfosShowsNext`).  Their comments promise
something else: run `history_answers`.

*mkfs.* There is room for the counts, and the bitmap agrees with them (`CountsAgree`), and
no write goes behind the image (`StaysInImage`), as long as the counts fit in 32 bits
(`CountsFit`; the size check accepts larger images, whose counts lose bits); sections and block
numbers are right when, besides, the inodes fill whole blocks (`LayoutMatches`); the block
bitmap's first block is enough up to 30 GiB (`UsedBlocksFit`); and `SuccessIsComplete` says how far an exit with
success can be trusted.

Three runs show a document and the code disagree; TLC's counterexample is the argument:

| Run | The document | The code |
|---|---|---|
| `reader_reference` | a displayed sample keeps at least the reader's reference (`tp7_rapport` 227-228) | two scans free it under the reader (`taskmonitor2.c:83`) |
| `history_answers` | all commits are displayed, and `infos` shows the one with the version asked for (`history.c:33-34`, `55-56`) | both loops end before the last commit, and `infos` shows the next one (`:45`, `:69-78`) |
| `mkfs_layout` | sections are whole blocks (`pnlfs.h:14-30`) | unless the image is a multiple of 128 blocks, they are not (`mkfs-pnlfs.c:93`) |

### Bounds

- *Samples, `MaxCreated` = 2 in `reclaim`.* Two samples make a list with a first, a last and a
  neighbour, and a slab page where one precedes the other.  A slot is used again after it
  is freed in the model of the cache, so stale cursors meet both freed and reused objects
  as far as two creations allow.
- *One sample, no debugfs reader in `unload`.* The safety of an unload with two samples is part of
  `reclaim`; what the liveness run asks is who still works on a sample when others wait, and
  every kind of actor that is waited for before the cache goes can be on the one sample.
- *`MaxExtraPuts` = 1.* A count may go to -1: one put too many, which is what a scan and an
  unload, or two scans, cause.
- *One reclaim, one unload, one reader.* Losing an update, freeing under a reader, freeing a cached
  successor and overlapping list functions each need two walks that put besides the thread,
  and an unload is one.  In `reader_reference` they are two reclaims.  Samples are
  interchangeable (symmetry) in the runs without liveness.
- *`MaxThreads` = 3, `MaxMonitors` = 2.* A thread from init, one replacing it and one more; the
  monitor of init and one replacing it.  When no thread or monitor is left, creation can
  only fail, which the code allows at any time, so the bound blocks nobody.  The small
  modules make one thread each.
- *Two writers, two clients.* Races between a test and an update need two.
- *Three entries, two heads, two tasks.* A list has a first, an inner and a last entry; an
  entry moves or is spliced between lists; two functions interleave.  The loops get one head,
  since a loop stays on one list.
- *`Batch` = 3, three samples, `MaxCount` = 5.* A batch has a first sample, which the report
  leaves out, and two it adds up; the counter moves between any two of them.
- *`MaxCommits` = 5.* Insertion and deletion touch three neighbouring commits; five give
  commits on both sides of them.  Three are enough for `history_answers`.
- *A `uint32_t` has 23 bits in run `mkfs` (`Wide`)*, which is wide enough for every other boundary
  and lets images exceed it.
- *Image sizes.* All remainders of 256 twice over from just below the smallest image, one and
  two blocks of block bitmap, and both sides of the size where used blocks outgrow
  the first.

### Fairness

Weak fairness of each actor's own steps, because the kernel schedules every runnable
task, and of a thread that was asked to stop, because `kthread_stop` wakes it and its
loop tests `kthread_should_stop()`.  In `SmallModules` the handler of prdebug's timer finishes
(weak fairness), and `del_timer_sync` finds it finished at some time (strong fairness),
because the handler arms the timer for a second later and runs for much less.  Nothing is
assumed of the environment: nobody need read, write, call or unload, and no timer need
expire.  `UnloadEnds`, `ExitEnds` and `CallsEnd` start from a call that has been made.

## 4. The proofs

`TaskMonitorProofs` proves, for every number of samples, readers and reclaimers, every
slab layout and every value of the bounds (from `NodesAssumption`, `ActorsAssumption` and
`BoundAssumption`: the kinds of actors are disjoint and nodes differ from samples):

| Theorem | |
|---|---|
| `Invariance` | `Spec => []IInv`, the inductive invariant |
| `TypeCorrect` | `Spec => []TypeOK` |
| `ReleaseOnce` | `Spec => []ReleasedOnce` |
| `Refinement` | `Spec => Implements`: samples live as `KrefLifetime` says |

`IInv` is `TypeOK /\ CursorInv /\ ReleasedOnce`, and says nothing of the pointers of the list: it
holds whatever overlapping list functions make of them.  `CursorInv` places actors: only the
sampling thread creates, and an actor that holds or releases is on a sample.  `ReleasedOnce` is
inductive with it because a sample whose release has begun has a count that is not positive, so
that no put can take it to exactly 0 again, and because `Alloc` takes no allocated object.

The argument for a step: `StepCases` divides `Next` into the steps that only move an actor
(`Moves`), those that load or store a pointer of the list (`OnList`) and the others, and then there
is one lemma per conjunct of `IInv`.  Refinement follows from a lemma that a step changes the
phase of at most one sample, and only along `KrefLifetime` (`PhaseStep`).

The second part of `TaskMonitorProofs` adds, from the same assumptions and `FiniteAssumption`:

| Theorem | |
|---|---|
| `CountsInvariance` | `Spec => []MInv`, the inductive invariant |
| `RefsAreCounted` | `Spec => []RefAccounting` |
| `ReadersKeepSamples` | `Spec => [](~overdrop => HeldSampleIsLive)`: when the claim that run `reader_reference` refutes does hold |
| `LivingAreReported` | `Spec => []LivingNotUnderReported` |
| `OnlyReleaseHurts` | `Spec => []FaultNeedsRelease` |
| `HolderKeepsMonitor` | `Spec => []HeldMonitorIsLive` |
| `NobodyWalksFreed` | `Spec => []WalkersDrained` |

`MInv` is `IInv` with six parts:

- `TotalsInv`: `LivingNotUnderReported` holds now, and will once an actor that has read
  `total_destroyed` and freed its sample writes back what it read plus one.
- `RefInv`: with exact counts, a held sample is allocated; else a sample newly allocated could
  have holders already.
- `TmInv`: `tmRef` is the number of holders of `tm`, plus one until `monitor_exit` has put the
  initial reference; once `tm` is freed, or someone is about to, it is 0 and stays 0.
- `PlacesInv`, `TeardownInv`: where `monitor_exit` is, and who is idle, and can no longer
  start, once it is there.
- `CleanInv`: `FaultNeedsRelease`, and until a release begins: which nodes have their pointers set,
  store by store of `list_add_tail`, and that no loop forwards has another node in hand.  A
  reader, which goes backwards, may have `Poison`.

The third part is about the pointers:

| Theorem | |
|---|---|
| `ListStaysARing` | `Spec => []ListWellFormed` |

`RingInv`, which holds together with `IInv`, starts with `~raced`: one actor at most is then in a
list function.  While nobody is, the pointers are one ring (`ListWhole`); while somebody is, `MidAdd`
and `MidDel` say what he has read and which of his stores are made, for each place in the middle
of the function, so that the last store gives a ring again.  The stray decrement of `Acct`, which can
fall between any two stores, only takes `prev` pointers away (`RuinWhole`).

`MkfsProofs` proves every property of run `mkfs` for every set of image sizes (from
`SizesAssumption`: a size is a natural number of blocks, and `WideAssumption`: an unsigned int
holds four blocks of inodes at least).  Sizes whose counts lose bits are among them; what
`CountsAgree`, `StaysInImage` and `LayoutMatches` promise starts with `CountsFit`:

| Theorem | |
|---|---|
| `MkfsInvariance` | `Spec => []IInv`, the inductive invariant |
| `MkfsTypeCorrect` | `Spec => []TypeOK` |
| `CountsAlwaysAgree` | `Spec => []CountsAgree` |
| `NeverGrowsImage` | `Spec => []StaysInImage` |
| `LayoutFollowsCounts` | `Spec => []LayoutMatches` |
| `BitmapStaysInBuffer` | `Spec => []UsedBlocksFit` |
| `SuccessTellsComplete` | `Spec => []SuccessIsComplete` |

The arithmetic is apart: `Counts` derives from `MinBlocks` and `CountsFit` that each section has a
block, room for what it holds, and that free blocks are left.  `IInv` adds to the properties

- `SizeInv`: past the check, the size is at least `MinBlocks`; `Counts` applies.
- `PosInv`: before section `s` is written the offset is `Place[s]`, or less when the inode
  store ended in the middle of a block or the block bitmap was cut short.  It gives both
  `LayoutMatches` and, with the last section, `StaysInImage`.
- `OrderInv`: which sections are complete where `pc` is, which `SuccessIsComplete` needs at
  the end and `LayoutMatches` throughout.
- `IndexInv`: the block numbers in the inodes and in foo's index block.

There is one lemma per function of mkfs; `Writing` says once what all of them rely on.

`ListHeadProofs` proves every property of runs `list` and `list_loops`, for any number of tasks,
heads and entries (from `ListAssumption`: heads and entries are different, `Wild` is neither,
and there are finitely many entries; and `CarefulAssumption`):

| Theorem | |
|---|---|
| `ListInvariance` | `Spec => []Inv`, the inductive invariant |
| `ListTypeCorrect` | `Spec => []TypeOK` |
| `RingsStayWhole` | `Spec => []RingsWhole` |
| `OrderHolds` | `Spec => []OrderInv`, the invariant of what the next pointers show |
| `ListsAreSequences` | `Spec => Implements`: each function takes effect at one store |
| `LoopsHold` | `Spec => []LoopInv`, the invariant of loops |
| `LoopsKeepToLists` | `Spec => []LoopsStayOnList` |
| `CarefulTestHolds` | `TSpec => []CarefulIsQuiet`, of `CarefulTest` |

`RingsWhole` speaks of moments when nobody is in a function, so it says nothing of the
steps in between.  The invariant looks ahead instead: `ToBe(heap, stores)` is the heap once
every function in progress has made its stores, and that one is whole rings all the time
(`Ring(ToBe(heap, stores), on)`).  A store leaves it as it is, since what it writes is
already there (`StoreToBe`), and that needs the pointers of different functions to be
`Apart`.  A call changes it as if the function ran at once (`CallToBe`), because it
stores into every pointer it has read, and nobody in progress does (`OwnReads`).  What a whole function does to a ring is then a lemma for each function
(`AddKeeps`, `DelKeeps`, `MoveKeeps`, `ReplaceKeeps`, `CutKeeps`, `SpliceKeeps`, ...), over lemmas
on what two, four or six stores leave in a heap.

The refinement is about the steps in between, so it needs what the pointers show now.
`OrderInv` says which functions can be in progress (`Shapely`), and which nodes are linked
(`Linked`): those on lists, but for an entry whose insertion has yet to make its last store, and
with an entry whose deletion has yet to make its second.  And it says that there are sequences
`L` (`Shows`) such that the next pointers run from each linked head through its sequence and
back, and each linked entry is in one of them.  Of the stores of a function, one joins the
neighbours in `next` direction: it makes one change of `Lists` to these sequences (`Turns`);
the others leave them alone.  The lemmas of `Paths` say what an insertion, a deletion, a splice
or a cut does to a chain of pointers.  That the recursive `Order`, which the refinement mapping
reads, is `L` is `OrderOfIs`: following pointers along a chain comes back to its head after its
length.

For `CarefulIsQuiet`, `LingerInv` adds to `OrderInv` what a deletion leaves behind between its stores,
and `ProbeInv` says what the first reading still tells as long as nothing was added to the node
or the node added: its `next` pointer leads to itself (deletions under way leave it so:
`StoreAside`).  If `prev` does too at the second reading, a function that has begun and is yet to
store into the node would have left one of the two with a neighbour.
`LoopInv` says where a loop can be that no other task disturbed: at a linked node, or, for a
_safe loop whose own task deletes, at any node once it has read a linked one to go to.

`SysfsMonitorProofs` proves, for both drivers and any number of writers and threads (from
`ControlAssumption` and `ThreadsAssumption`):

| Theorem | |
|---|---|
| `SysfsInvariance` | `Spec => [](IInv /\ HeldInv)`, the inductive invariant |
| `SysfsTypeCorrect` | `Spec => []TypeOK` |
| `SequentialUse` | `Spec => []SequentialUseIsSafe` |
| `RunIsTrue` | `Spec => []RunTracksThread` |
| `NothingUsesUnloaded` | `Spec => []UnloadedIsQuiet` |

`IInv` holds at all times where actors can be (`Places`), when the file exists (`FileInv`) and
that threads not yet made were not asked to stop (`Fresh`); and, as long as nothing went
wrong from outside, `Orderly`.  That one says that one actor is at work (`OneAtWork`), that no
thread but the one in `monitor_thread` runs (`OneThread`), and what the place of the actor at
work tells of `run` and of that thread (`AtWork`).  The properties mention only moments when
nobody is at work (`AtRest`), which is why they are not inductive.  `HeldInv` follows the directory
and the shrinker through refusals and overlaps alike, for the part of `UnloadedIsQuiet` that
is about them.  There is one lemma per action.

`IoctlMonitorProofs` proves every invariant of run `ioctl_control`, for any number of clients,
pids, threads and monitors (from `IoctlAssumption` and `ThreadsAssumption`):

| Theorem | |
|---|---|
| `IoctlInvariance` | `Spec => []IInv`, the inductive invariant |
| `IoctlTypeCorrect` | `Spec => []TypeOK` |
| `NoOtherFault` | `Spec => []OrderedCallsAreSafe` |
| `RunTells` | `Spec => []RunTracksThread` |
| `SamplesTheTarget` | `Spec => []TargetIsMonitored` |
| `GivesAllBack` | `Spec => []ResourcesReturned` |

The argument is that of `SysfsMonitorProofs`, with two parts more in `Orderly`, which holds until
two ioctls overlap or a pid does not exist: what `tm` is (`Holding`: only the newest object is
held, and none while TASKMON_SET_PID has given it back) and what it is about (`Named`: the
target, or `value` while `target` is yet to be set).  `ThreadAsRun` lets `run` be true without a
thread when one was refused: `ResourcesReturned` is promised then too, the other three are not.
`FaultInv` is about the states in which the model stops.  `Move` says what it takes for `Orderly`
that one actor moves while the others are at rest; `QuietMove`, `StopMove`, `RunMove` and `Begin`
are its uses, for steps that leave the threads alone, stop one, make one, and begin a call.

`SmallModulesProofs` proves every safety property of run `small_modules`, for any number of threads and
samples, any batch and any bound on the counter (from `SmallAssumption` and `ThreadsAssumption`):

| Theorem | |
|---|---|
| `SmallInvariance` | `Spec => []IInv`, the inductive invariant |
| `SmallTypeCorrect` | `Spec => []TypeOK` |
| `OnlySamplesAreLeft` | `Spec => []OnlySamplesLeftBehind` |
| `OnlyUncheckedFaults` | `Spec => []FaultIsUnchecked` |
| `AllSamplesListed` | `Spec => []SamplesAreListed` |
| `NoneCountedTwice` | `Spec => []NotCountedTwice` |
| `ReportsAreIncreases` | `Spec => ReportIsIncrease` |

`IInv` adds `HeldInv`, what each module holds at each step of its init and exit and which refusal
explains what it lacks, `ThreadInv`, that the thread in `monitor_thread` is the only one and runs in
a loaded module only, and `TimerInv`: what prdebug has reported is no more than what it had
counted when its handler last ended (`printed <= data`), which makes `NotCountedTwice` inductive.
`ReportsAreIncreases` is about a fold, which the library defines by recursion over the set of
indices, in an order that CHOOSE picks.  `Paths` gives the partial sums of a sequence of
numbers as a function (`Sums`: there is one, `SomeSums`, and no other, `OneSums`), says that an
index leaves the sum with its value (`TotalWithout`), and concludes that the fold, whatever its
order, is the last partial sum (`FoldIs`).  `ReportIs` gives the partial sums of kcpustat's
differences: what a sample has more than the first.

`HistoryProofs` proves every property of run `history`, for any number of commits and any
versions asked about (from `HistoryAssumption`: there is a first commit, versions are pairs of
numbers, and "none" and "display", which `call` also takes, are not among them):

| Theorem | |
|---|---|
| `TypeCorrect` | `Spec => []TypeOK` |
| `FaultsNeedFirstDeleted` | `Spec => []FaultNeedsFirstDeleted` |
| `DisplayLeavesOutLast` | `Spec => []DisplayMissesLast` |
| `InfosGoesPast` | `Spec => []InfosShowsNext` |
| `HistoryImplements` | `Spec => Implements`: the pointers are a sequence with insertion and deletion |

The invariant `IInv` adds to the properties that some sequence `s` without repetitions
describes the pointers (`Describes`): its members are the commits allocated, `next` leads
from each to the one after it and from the last to the first, and `prev` back.  It also says
that the sequence starts with `commit_list` as long as that commit lives, and that no call of
the history is on record once it does not.  `InsertRing` and `RemoveRing` say what pointer
surgery does to such a sequence.  `Order` and `Passed` follow the pointers by recursion; what
they compute comes out of three lemmas on recursive functions along `next`: there is one
(`SomePath`), there is no other (`OnePath`), and the definition is the one there is
(`PathIs`), all three in `Paths`.  Each of the first two takes the least number at which it would fail (`Least`).

Every other invariant and safety property of the passing runs is proved.  Only model-checked are
`CacheEmptyAtDestroy`, for which the ring of the third part would have to be followed through
the loop of `monitor_exit`, and the liveness properties (`DroppedIsFreed`, `UnloadEnds`, `CallsEnd`, `ExitEnds`): liveness under
fairness, and the ENABLED in it, are out of the proof system's reach.

## 5. Not modelled

- What `my_shrink_scan` returns, which only paces the kernel's reclaim.
- The CPU times in a sample, the text that is shown and its buffers; `sysfs_show`'s return
  when the text reaches a page cannot happen, since `scnprintf` stays below it.
- `kmalloc` and `KMEM_CACHE` failing in `taskmonitor2.c`, and the allocation of 8 bytes for
  `all_tasks`; `kmalloc` of `tm` failing in `TP_06`.  The pool `my_mempool` is never used.
- A monitored process that ends: `get_sample` then shows nothing and no state changes.
- Memory ordering weaker than one access at a time.
- In `list.h`: `list_is_last`, the `hlist` functions and the loops that start in the middle, which
  no program of the repository uses.  What two functions do after they raced.
- The file operations of helloioctl and hellosysfs, which copy a string or a value that nothing
  else depends on.  In kcpustat the number of CPUs and the division by `HZ` and `frequency`:
  the delay between samples is any time, and one counter stands for all statistics.
- `update_sb2` keeps one date, and what is wrong with `update_sb` (it dereferences a list that
  nobody has set) happens in its first statement, so that nothing is left to model.
- What mkfs writes to an image whose counts do not fit in 32 bits: the counts are modelled as they
  wrap, and no property promises anything of them.  The bits of the block bitmap behind the end of
  the image, which stay free.
- The numbers that a `%hu` prints of a pid.
- The parts with status `not_modelled` in `PROJECT.json`, each with its reason.

## 6. What is left

*More of the system.*  `list_for_each_entry_safe` in the task monitor over more than two samples;
overlapping starts, which give the task monitor two sampling threads.

*More proofs.*  `CacheEmptyAtDestroy`: that, without an overlap of list functions, the loop of
`monitor_exit` comes by every sample that the list still refers to.
