---------------------------- MODULE SmallModules ----------------------------
(***************************************************************************)
(* Loading and unloading the modules that have no control of their own:    *)
(*                                                                         *)
(*   monitor     TP_06/EXO-04/taskmonitor.c: a thread samples a process    *)
(*   hanging     TP_05/EXO-03/hanging.c: a thread sleeps once and returns  *)
(*   kcpustat    TP_05/EXO-05/kcpustat.c: a thread keeps CPU statistics    *)
(*   prdebug     TP_05/EXO-04/prdebug.c: a timer that arms itself again    *)
(*   helloioctl  TP_06/EXO-02/helloioctl.c: a character device             *)
(*   hellosysfs  TP_06/EXO-01/hellosysfs.c: a sysfs file                   *)
(*                                                                         *)
(* The model runs one of them.  The kernel may refuse whatever init asks   *)
(* it for, and each module deals with that, or not, in its own way.        *)
(***************************************************************************)
EXTENDS Kthread, Integers, SequencesExt

CONSTANTS
  Drivers,    \* the modules to model, of those above
  Samples,    \* the memory that kcpustat allocates its samples from
  Batch,      \* interval * (HZ / frequency): the samples kcpustat reports at once
  MaxCount    \* bound on the kernel's counter

ASSUME SmallAssumption == Batch \in Nat \ {0} /\ MaxCount \in Nat

VARIABLES
  driver,     \* the module that runs
  pc,         \* where its init or exit is
  held,       \* what it has allocated, created or registered
  mishap,     \* auxiliary: what the kernel refused, and "ended": a thread's own end
  fault,      \* freed memory or an error was used as a pointer
  count,      \* a counter of the kernel: CPU time, or interrupts
  my_head,    \* kcpustat: the list of samples
  live,       \* kcpustat: the samples that are allocated
  stat,       \* kcpustat: stat[s]: the statistics in s
  n, sum,     \* kcpustat: samples taken modulo Batch, the last report
  sampling,   \* kcpustat: its thread is in a round of its loop
  timer,      \* prdebug: "off", "armed", or the step its handler is at
  data,       \* prdebug: the count when the timer was armed
  printed     \* auxiliary: the sum of what prdebug has printed

threadVars   == <<thread, should_stop, monitor_thread>>
loaderVars   == <<driver, pc, held, mishap, fault>>
kcpustatVars == <<my_head, live, stat, n, sum, sampling>>
timerVars    == <<timer, data, printed>>
vars == <<threadVars, loaderVars, count, kcpustatVars, timerVars>>

\* all but sum, of which ReportIsIncrease says the value
TypeOK ==
  /\ ThreadsTypeOK
  /\ driver \in Drivers /\ fault \in BOOLEAN
  /\ pc \in {"init", "thread", "cdev", "class", "device", "file", "loaded", "stop",
             "deltimer", "failed", "unloaded"}
  /\ held \subseteq {"tm", "region", "cdev", "class", "device", "kobject", "file"}
  /\ mishap \subseteq {"pid", "tm", "thread", "ended", "memory", "region", "cdev",
                       "class", "device", "kobject", "file"}
  /\ count \in 0..MaxCount
  /\ my_head \in Seq(Samples) /\ live \subseteq Samples /\ stat \in [Samples -> 0..MaxCount]
  /\ n \in 0..(Batch - 1) /\ sampling \in BOOLEAN
  /\ timer \in {"off", "armed", "data", "rearm"} /\ data \in 0..MaxCount /\ printed \in Nat

Init ==
  /\ ThreadsInit
  /\ driver \in Drivers
  /\ pc = IF driver \in {"hanging", "kcpustat"} THEN "thread" ELSE "init"
  /\ held = {} /\ mishap = {} /\ fault = FALSE /\ count = 0
  /\ my_head = <<>> /\ live = {} /\ stat = [s \in Samples |-> 0] /\ n = 0 /\ sum = 0
  /\ sampling = FALSE
  /\ timer = "off" /\ data = 0 /\ printed = 0

At(d, label) == driver = d /\ pc = label

Gets(r, label) ==
  /\ held' = held \cup {r} /\ pc' = label
  /\ UNCHANGED <<mishap, fault>>

\* the kernel refuses r; what is left of held is kept
Refused(r, left, label) ==
  /\ mishap' = mishap \cup {r} /\ held' = left /\ pc' = label
  /\ UNCHANGED fault

Faults == fault' = TRUE /\ UNCHANGED <<held, pc, mishap>>

Others == UNCHANGED <<driver, threadVars, count, kcpustatVars, timerVars>>

Tick == /\ count < MaxCount /\ driver \in {"kcpustat", "prdebug"}
        /\ count' = count + 1
        /\ UNCHANGED <<threadVars, loaderVars, kcpustatVars, timerVars>>

-----------------------------------------------------------------------------
(* Threads: monitor, hanging and kcpustat.                                 *)

\* a pid that does not exist is an error; a failed kmalloc is dereferenced
MonitorPid ==
  /\ At("monitor", "init")
  /\ \/ Gets("tm", "thread")
     \/ Refused("pid", held, "failed")
     \/ fault' = TRUE /\ mishap' = mishap \cup {"tm"} /\ UNCHANGED <<held, pc>>
  /\ Others

AbortedZero == "loaded"   \* mutant: init returns 0 after its abort

Aborted == "failed"

Spawn(without, left) ==
  /\ pc = "thread"
  /\ \/ ThreadRuns /\ pc' = "loaded" /\ UNCHANGED <<held, mishap>>
     \/ ThreadFails /\ pc' = without /\ held' = left /\ mishap' = mishap \cup {"thread"}
  /\ UNCHANGED <<should_stop, driver, fault, count, kcpustatVars, timerVars>>

\* monitor gives tm back without a thread, the others do not look at the error
MonitorInit  == driver = "monitor"  /\ Spawn(Aborted, {})
HangingInit  == driver = "hanging"  /\ Spawn("loaded", held)
KcpustatInit == driver = "kcpustat" /\ Spawn("loaded", held)

\* the pointer to the thread is not NULL in a module that is loaded
StopThread ==
  /\ pc = "loaded"
  /\ IF CanStop THEN AskToStop /\ pc' = "stop" /\ UNCHANGED <<held, mishap, fault>>
                ELSE Faults /\ UNCHANGED should_stop
  /\ UNCHANGED <<driver, thread, monitor_thread, count, kcpustatVars, timerVars>>

MonitorExit  == driver = "monitor"  /\ StopThread
HangingExit  == driver = "hanging"  /\ StopThread
KcpustatExit == driver = "kcpustat" /\ StopThread

\* monitor gives tm and its pid back when the thread has ended
ThreadStopped == /\ pc = "stop" /\ ~Running(monitor_thread)
                 /\ pc' = "unloaded" /\ held' = {}
                 /\ UNCHANGED <<mishap, fault>> /\ Others

\* print_sample reads the pid in tm
PrintSample(t) == /\ driver = "monitor" /\ Running(t)
                  /\ fault' = ("tm" \notin held)
                  /\ UNCHANGED <<pc, held, mishap>> /\ Others

\* kcpustat's thread ends when its round is over
ThreadExit(t) == /\ ThreadEnds(t) /\ ~sampling
                 /\ UNCHANGED <<loaderVars, count, kcpustatVars, timerVars>>

\* a thread returns without having been asked to
Returns(t, why) == /\ Running(t)
                   /\ thread' = [thread EXCEPT ![t] = "exited"]
                   /\ mishap' = mishap \cup {why}
                   /\ sampling' = FALSE
                   /\ UNCHANGED <<should_stop, monitor_thread, driver, pc, held, fault,
                                  count, my_head, live, stat, n, sum, timerVars>>

\* my_hanging_fn sleeps for ten seconds
HangingFn(t) == driver = "hanging" /\ Returns(t, "ended")

-----------------------------------------------------------------------------
(* kcpustat: the samples.                                                  *)

\* kthread_should_stop() says no; a kthread_stop from here on finds a round in progress
NextRound(t) == /\ driver = "kcpustat" /\ Running(t)
                /\ ~sampling /\ t \notin should_stop
                /\ sampling' = TRUE
                /\ UNCHANGED <<threadVars, loaderVars, count, my_head, live, stat, n, sum,
                               timerVars>>

NoMemory(t) == sampling /\ Returns(t, "memory")

Forwards(k, m) == k   \* mutant: the loop goes forwards, over what is noncumulative already

Backwards(k, m) == m + 1 - k

\* the i-th sample is made noncumulative, in place; first is left as it is
Subtracted(d, i) == [j \in DOMAIN d |-> d[j] - (IF j = i /\ i # 1 THEN d[j - 1] ELSE 0)]

\* the first loop of print_stats: what is in the samples after k of its rounds
Noncumulative(list, st) ==
  LET m == Len(list)
      d[k \in 0..m] == IF k = 0 THEN [i \in 1..m |-> st[list[i]]]
                                ELSE Subtracted(d[k - 1], Backwards(k, m))
  IN  d[m]

FreesRest(list) == ToSet(Tail(list))   \* mutant: first is not freed

Freed(list) == ToSet(list)

\* what the second loop of print_stats adds up: the first sample is left out
Report(list, st) == FoldSeq(+, 0, Tail(Noncumulative(list, st)))

SaveStats(s) == stat' = [stat EXCEPT ![s] = count]

\* a round of my_kcpustat_fn: every Batch of samples are reported and freed
Sample(t) ==
  /\ sampling /\ Running(t)
  /\ sampling' = FALSE
  /\ \E s \in Samples \ live :
       LET list == Append(my_head, s)
       IN  /\ SaveStats(s)
           /\ n' = (n + 1) % Batch
           /\ IF n' = 0
                THEN /\ sum' = Report(list, stat')
                     /\ live' = (live \cup {s}) \ Freed(list)
                     /\ my_head' = <<>>
                ELSE /\ live' = live \cup {s} /\ my_head' = list
                     /\ UNCHANGED sum
  /\ UNCHANGED <<threadVars, loaderVars, count, timerVars>>

-----------------------------------------------------------------------------
(* prdebug.                                                                *)

PrdebugInit == /\ At("prdebug", "init")
               /\ data' = count /\ timer' = "armed" /\ pc' = "loaded"
               /\ UNCHANGED <<threadVars, driver, held, mishap, fault, count,
                              kcpustatVars, printed>>

\* prdebug_timeout prints how many interrupts there were since it ran last
Timeout == /\ timer = "armed"
           /\ printed' = printed + (count - data) /\ timer' = "data"
           /\ UNCHANGED <<threadVars, loaderVars, count, kcpustatVars, data>>

Stale == data    \* mutant: data stays what it was when the module was loaded

Current == count

\* the counter is read again: interrupts since Timeout appear in no report
SetData == /\ timer = "data"
           /\ data' = Current /\ timer' = "rearm"
           /\ UNCHANGED <<threadVars, loaderVars, count, kcpustatVars, printed>>

ModTimer == /\ timer = "rearm"
            /\ timer' = "armed"
            /\ UNCHANGED <<threadVars, loaderVars, count, kcpustatVars, data, printed>>

PrdebugExit == /\ At("prdebug", "loaded")
               /\ pc' = "deltimer"
               /\ UNCHANGED <<held, mishap, fault>> /\ Others

NoWait == TRUE   \* mutant: del_timer, which does not wait for the handler

HandlerDone == timer = "armed"

DelTimerSync == /\ pc = "deltimer" /\ HandlerDone
                /\ timer' = IF timer = "armed" THEN "off" ELSE timer
                /\ pc' = "unloaded"
                /\ UNCHANGED <<threadVars, driver, held, mishap, fault, count,
                               kcpustatVars, data, printed>>

-----------------------------------------------------------------------------
(* helloioctl.                                                             *)

AllocRegion == /\ At("helloioctl", "init")
               /\ Gets("region", "cdev") \/ Refused("region", held, "failed")
               /\ Others

CdevAdd == /\ At("helloioctl", "cdev")
           /\ Gets("cdev", "class") \/ Refused("cdev", held \ {"region"}, "failed")
           /\ Others

\* class_create and device_create return an error, never the NULL that init looks
\* for, and device_create returns one if it is given one
ClassCreate == /\ At("helloioctl", "class")
               /\ Gets("class", "device") \/ Refused("class", held, "device")
               /\ Others

DeviceCreate == /\ At("helloioctl", "device")
                /\ \/ "class" \in held /\ Gets("device", "loaded")
                   \/ Refused("device", held, "loaded")
                /\ Others

\* device_destroy looks for the device in the class
EtxDriverExit ==
  /\ At("helloioctl", "loaded")
  /\ IF "class" \in held THEN held' = {} /\ pc' = "unloaded" /\ UNCHANGED <<mishap, fault>>
                         ELSE Faults
  /\ Others

-----------------------------------------------------------------------------
(* hellosysfs.                                                             *)

KobjectCreate == /\ At("hellosysfs", "init")
                 /\ Gets("kobject", "file") \/ Refused("kobject", held, "file")
                 /\ Others

\* sysfs_create_file stops at a NULL kobject; its error is not returned
CreateFile ==
  /\ At("hellosysfs", "file")
  /\ IF "kobject" \in held
       THEN Gets("file", "loaded") \/ Refused("file", {}, "loaded")
       ELSE Faults
  /\ Others

\* kobject_put takes the file away with the directory
HelloExit ==
  /\ At("hellosysfs", "loaded")
  /\ IF "kobject" \in held
       THEN held' = {} /\ pc' = "unloaded" /\ UNCHANGED <<mishap, fault>>
       ELSE Faults
  /\ Others

-----------------------------------------------------------------------------
LoaderStep == \/ MonitorPid \/ MonitorInit \/ HangingInit \/ KcpustatInit
              \/ ThreadStopped \/ PrdebugInit
              \/ AllocRegion \/ CdevAdd \/ ClassCreate \/ DeviceCreate
              \/ KobjectCreate \/ CreateFile

Exit == \/ MonitorExit \/ HangingExit \/ KcpustatExit
        \/ PrdebugExit \/ EtxDriverExit \/ HelloExit

Halted == (fault \/ pc \in {"failed", "unloaded"}) /\ UNCHANGED vars

Next == \/ /\ ~fault
           /\ \/ LoaderStep \/ Exit \/ DelTimerSync
              \/ \E t \in Threads : \/ ThreadExit(t) \/ PrintSample(t) \/ HangingFn(t)
                                  \/ NextRound(t) \/ NoMemory(t) \/ Sample(t)
              \/ Timeout \/ SetData \/ ModTimer \/ Tick
        \/ Halted

\* Init, exit, a thread in a round or asked to stop and the handler are scheduled; the
\* timer is armed for a second, in which del_timer_sync finds its handler done.
Fairness == /\ WF_vars(~fault /\ LoaderStep) /\ SF_vars(~fault /\ DelTimerSync)
            /\ \A t \in Threads : /\ WF_vars(~fault /\ ThreadExit(t))
                                  /\ WF_vars(~fault /\ (Sample(t) \/ NoMemory(t)))
            /\ WF_vars(~fault /\ (SetData \/ ModTimer))

Spec == Init /\ [][Next]_vars /\ Fairness

-----------------------------------------------------------------------------
(* Properties.                                                             *)

\* What a module that is not loaded leaves behind: no tm, device or file, no thread and
\* no timer, whatever was refused on the way; but kcpustat's exit frees nothing
\* (kcpustat.c:107-112), and the samples of an unfinished batch stay allocated.
OnlySamplesLeftBehind ==
  pc \in {"failed", "unloaded"} /\ ~fault
    => /\ held = {} /\ timer = "off" /\ \A t \in Threads : ~Running(t)
       /\ live = {} <=> n = 0

\* The refusals that each module does not cope with.  Any other, at any moment, is
\* survived: taskmonitor.c:85, hanging.c:11 and 21, kcpustat.c:88 and 102,
\* helloioctl.c:104, hellosysfs.c:43 and 52.  monitor's thread has its tm.
Unchecked == [monitor    |-> {"tm"},
              hanging    |-> {"thread", "ended"},
              kcpustat   |-> {"thread", "memory"},
              prdebug    |-> {},
              helloioctl |-> {"class"},
              hellosysfs |-> {"kobject", "file"}]
FaultIsUnchecked == fault => mishap \cap Unchecked[driver] # {}

\* A report of kcpustat is the increase of the counter from the first to the last
\* sample of its batch, although the samples are changed in place (kcpustat.c:60-77).
ReportIsIncrease ==
  [][my_head # <<>> /\ my_head' = <<>> => sum' = count - stat[my_head[1]]]_vars

\* A sample that is allocated is on the list, and a batch is all there ever is: the
\* samples that the list holds at the end are what unloading leaves allocated.
SamplesAreListed == live = ToSet(my_head) /\ Len(my_head) < Batch

\* No interrupt is in two reports of prdebug (prdebug.c:13-14).
NotCountedTwice == printed <= count

\* Unloading ends, even while a thread sleeps uninterruptibly (hanging.c:13,
\* kcpustat.c:94) and although the timer arms itself again (prdebug.c:17).
ExitEnds == pc \in {"stop", "deltimer"} ~> pc = "unloaded"
=============================================================================
