------------------------- MODULE SmallModulesProofs -------------------------
(***************************************************************************)
(* Proofs about SmallModules, for any number of threads and samples, any   *)
(* batch and any bound on the kernel's counter.                            *)
(***************************************************************************)
EXTENDS SmallModules, Paths

Threaded == {"monitor", "hanging", "kcpustat"}

\* TypeOK, in two parts: what a thread, kcpustat or prdebug changes, ...
Types ==
  /\ ThreadsTypeOK
  /\ live \subseteq Samples /\ my_head \in Seq(Samples)
  /\ stat \in [Samples -> 0..MaxCount] /\ n \in 0..(Batch - 1)
  /\ sampling \in BOOLEAN
  /\ count \in 0..MaxCount /\ data \in 0..MaxCount /\ printed \in Nat
  /\ timer \in {"off", "armed", "data", "rearm"}

\* ... and what init and exit do
LoaderTypes ==
  /\ driver \in Drivers /\ fault \in BOOLEAN
  /\ pc \in {"init", "thread", "cdev", "class", "device", "file", "loaded", "stop",
             "deltimer", "failed", "unloaded"}
  /\ held \subseteq {"tm", "region", "cdev", "class", "device", "kobject", "file"}
  /\ mishap \subseteq {"pid", "tm", "thread", "ended", "memory", "region", "cdev",
                       "class", "device", "kobject", "file"}

\* the thread that monitor_thread names is the only one, and runs only in a loaded
\* module; it is asked to end by the exit alone; only kcpustat's takes samples
ThreadInv ==
  /\ \A t \in Threads : Running(t) => /\ t = monitor_thread /\ driver \in Threaded
                                      /\ pc \in {"loaded", "stop"}
  /\ pc # "stop" => pc = "unloaded" \/ should_stop = {}
  /\ pc \in {"thread", "stop"} => driver \in Threaded
  /\ sampling => driver = "kcpustat" /\ Running(monitor_thread)

\* what each module holds where it is, and what it lacks because of a refusal
HeldInv ==
  /\ pc \in {"init", "failed", "unloaded"} => held = {}
  /\ driver \in {"hanging", "kcpustat", "prdebug"} => held = {}
  /\ driver = "monitor" /\ pc \in {"thread", "loaded", "stop"} => held = {"tm"}
  /\ driver = "monitor" /\ pc = "loaded" => Running(monitor_thread)
  /\ driver \in {"hanging", "kcpustat"} /\ pc = "loaded" /\ ~Running(monitor_thread)
       => mishap \cap Unchecked[driver] # {}
  /\ pc = "cdev" => held = {"region"}
  /\ driver = "helloioctl" /\ pc \in {"device", "loaded"} => "class" \in held \cup mishap
  /\ driver = "hellosysfs" /\ pc = "file" => "kobject" \in held \cup mishap
  /\ driver = "hellosysfs" /\ pc = "loaded" /\ "kobject" \notin held => "file" \in mishap

\* the timer is prdebug's, while it is loaded; from one round to the next nothing is
\* reported that was not counted
TimerInv ==
  /\ timer # "off" => driver = "prdebug" /\ pc \in {"loaded", "deltimer"}
  /\ data <= count /\ printed <= count
  /\ timer \in {"armed", "rearm"} => printed <= data
  /\ pc = "deltimer" => driver = "prdebug"

SampleInv == SamplesAreListed /\ n = Len(my_head)

IInv == /\ Types /\ LoaderTypes
        /\ ThreadInv /\ HeldInv /\ FaultIsUnchecked /\ TimerInv /\ SampleInv

-----------------------------------------------------------------------------
\* Init and exit of the modules without a thread, and monitor_pid: of what was refused,
\* each copes with all but what Unchecked lists.
LEMMA DevicesStep ==
  ASSUME IInv,
         \/ MonitorPid \/ AllocRegion \/ CdevAdd \/ ClassCreate \/ DeviceCreate
         \/ EtxDriverExit \/ KobjectCreate \/ CreateFile \/ HelloExit \/ PrdebugExit
  PROVE  IInv'
<1> USE DEF IInv, At, Gets, Refused, Faults, Others
<1>1. UNCHANGED <<driver, threadVars, count, kcpustatVars, timerVars>>
  BY DEF MonitorPid, AllocRegion, CdevAdd, ClassCreate, DeviceCreate, EtxDriverExit,
         KobjectCreate, CreateFile, HelloExit, PrdebugExit
<1>2. Types' /\ SampleInv'
  BY <1>1 DEF threadVars, kcpustatVars, timerVars, Types, ThreadsTypeOK, SampleInv,
              SamplesAreListed
<1>3. \A t : Running(t)' <=> Running(t)
  BY <1>1 DEF threadVars, Running
<1>4. ThreadInv'
  BY <1>1, <1>3 DEF ThreadInv, Threaded, threadVars, kcpustatVars, MonitorPid, AllocRegion, CdevAdd,
     ClassCreate, DeviceCreate, EtxDriverExit, KobjectCreate, CreateFile, HelloExit,
     PrdebugExit
<1>5. TimerInv'
  BY <1>1 DEF TimerInv, timerVars, MonitorPid, AllocRegion, CdevAdd, ClassCreate,
     DeviceCreate, EtxDriverExit, KobjectCreate, CreateFile, HelloExit, PrdebugExit
<1>6. HeldInv' /\ FaultIsUnchecked'
  <2>1. CASE MonitorPid \/ PrdebugExit
    BY <1>1, <2>1 DEF HeldInv, FaultIsUnchecked, Unchecked, MonitorPid, PrdebugExit
  <2>2. CASE AllocRegion \/ CdevAdd
    BY <1>1, <2>2 DEF HeldInv, FaultIsUnchecked, Unchecked, AllocRegion, CdevAdd
  <2>3. CASE ClassCreate \/ DeviceCreate \/ EtxDriverExit
    BY <1>1, <2>3 DEF HeldInv, FaultIsUnchecked, Unchecked, ClassCreate, DeviceCreate,
                      EtxDriverExit
  <2>4. CASE KobjectCreate \/ CreateFile \/ HelloExit
    BY <1>1, <2>4 DEF HeldInv, FaultIsUnchecked, Unchecked, KobjectCreate, CreateFile,
                      HelloExit
  <2> QED
    BY <2>1, <2>2, <2>3, <2>4
<1>7. LoaderTypes'
  BY <1>1 DEF LoaderTypes, MonitorPid, AllocRegion, CdevAdd, ClassCreate, DeviceCreate,
     EtxDriverExit, KobjectCreate, CreateFile, HelloExit, PrdebugExit
<1> QED
  BY <1>2, <1>4, <1>5, <1>6, <1>7

\* kthread_run, once, in the init of each module with a thread
LEMMA SpawnStep ==
  ASSUME IInv, MonitorInit \/ HangingInit \/ KcpustatInit
  PROVE  IInv'
<1> USE DEF IInv
<1>1. PICK without \in {"failed", "loaded"}, left \in {{}, held} : Spawn(without, left)
  BY DEF MonitorInit, HangingInit, KcpustatInit, Aborted
<1>2. /\ pc = "thread" /\ driver \in Threaded
      /\ UNCHANGED <<should_stop, driver, fault, count, kcpustatVars, timerVars>>
  BY <1>1 DEF Spawn, ThreadInv
<1>3. Types' /\ SampleInv'
  BY <1>1, <1>2 DEF Spawn, ThreadRuns, ThreadFails, kcpustatVars, timerVars, Types,
                    ThreadsTypeOK, SampleInv, SamplesAreListed
<1>4. TimerInv' /\ LoaderTypes'
  BY <1>1, <1>2 DEF TimerInv, LoaderTypes, Spawn, timerVars, Threaded
<1>5. \A t \in Threads : ~Running(t)
  BY <1>2 DEF ThreadInv
<1>6. CASE ThreadRuns /\ pc' = "loaded" /\ UNCHANGED <<held, mishap>>
  <2>1. PICK t \in Threads : /\ thread' = [thread EXCEPT ![t] = "running"]
                            /\ monitor_thread' = t
    BY <1>6 DEF ThreadRuns
  <2>2. Running(monitor_thread)' /\ \A u \in Threads \ {t} : ~Running(u)'
    BY <1>5, <2>1 DEF Running, Types, ThreadsTypeOK
  <2>3. ThreadInv'
    BY <1>2, <1>5, <1>6, <2>1, <2>2 DEF ThreadInv, Threads, Running, kcpustatVars
  <2>4. HeldInv' /\ FaultIsUnchecked'
    BY <1>2, <1>6, <2>2 DEF HeldInv, FaultIsUnchecked, Threaded
  <2> QED
    BY <1>3, <1>4, <2>3, <2>4
<1>7. CASE ThreadFails /\ mishap' = mishap \cup {"thread"}
  <2>1. \A t \in Threads : ~Running(t)'
    BY <1>5, <1>7 DEF ThreadFails, Running
  <2>2. pc' = (IF driver = "monitor" THEN "failed" ELSE "loaded")
        /\ held' = (IF driver = "monitor" THEN {} ELSE held)
    <3>1. ~ThreadRuns \/ pc' # "loaded" \/ held' # held \/ mishap' # mishap
          \/ monitor_thread' # NoThread
      BY ThreadsAssumption DEF ThreadRuns, Threads, NoThread
    <3> QED
      BY <1>7, <3>1 DEF MonitorInit, HangingInit, KcpustatInit, Spawn, Aborted, ThreadFails
  <2>3. ThreadInv'
    BY <1>2, <1>5, <2>1, <2>2 DEF ThreadInv, Running, kcpustatVars
  <2>4. HeldInv' /\ FaultIsUnchecked'
    BY <1>2, <1>7, <2>2 DEF HeldInv, FaultIsUnchecked, Threaded, Unchecked
  <2> QED
    BY <1>3, <1>4, <2>3, <2>4
<1> QED
  BY <1>1, <1>6, <1>7 DEF Spawn

\* kthread_stop in the exit of the same modules
LEMMA StopStep ==
  ASSUME IInv, MonitorExit \/ HangingExit \/ KcpustatExit \/ ThreadStopped
  PROVE  IInv'
<1> USE DEF IInv
<1>1. /\ UNCHANGED <<driver, thread, monitor_thread, count, kcpustatVars, timerVars>>
      /\ should_stop' \in {should_stop, should_stop \cup {monitor_thread}}
      /\ \A t : Running(t)' <=> Running(t)
  BY DEF MonitorExit, HangingExit, KcpustatExit, StopThread, ThreadStopped, AskToStop, Others,
         threadVars, Running
<1>2. Types' /\ SampleInv'
  <2>1. should_stop' \subseteq Threads
    BY DEF MonitorExit, HangingExit, KcpustatExit, StopThread, ThreadStopped, AskToStop,
           CanStop, Running, Others, threadVars, Types, ThreadsTypeOK
  <2> QED
    BY <1>1, <2>1 DEF kcpustatVars, timerVars, Types, ThreadsTypeOK, SampleInv,
                      SamplesAreListed
<1>3. CASE StopThread /\ driver \in Threaded
  <2>1. ThreadInv' /\ TimerInv' /\ LoaderTypes'
    <3>1. Running(monitor_thread)' <=> Running(monitor_thread)
      BY <1>1 DEF Running
    <3>2. ThreadInv'
      BY <1>1, <1>3, <3>1 DEF StopThread, Faults, ThreadInv, Threaded, kcpustatVars
    <3> QED
      BY <1>1, <1>3, <3>2 DEF StopThread, Faults, TimerInv, LoaderTypes, timerVars, Threaded
  <2>2. HeldInv' /\ FaultIsUnchecked'
    BY <1>1, <1>3 DEF StopThread, CanStop, Faults, HeldInv, FaultIsUnchecked, Threaded
  <2> QED
    BY <1>2, <2>1, <2>2
<1>4. CASE ThreadStopped
  BY <1>1, <1>2, <1>4 DEF ThreadStopped, ThreadInv, HeldInv, FaultIsUnchecked, TimerInv,
                          LoaderTypes, kcpustatVars, timerVars, Threaded
<1> QED
  BY <1>3, <1>4 DEF MonitorExit, HangingExit, KcpustatExit, Threaded

\* A thread prints, ends when it is asked to, or ends by itself.
LEMMA ThreadStep ==
  ASSUME IInv, ~fault, NEW t \in Threads,
         \/ ThreadExit(t) \/ PrintSample(t) \/ HangingFn(t)
         \/ NextRound(t) \/ NoMemory(t)
  PROVE  IInv'
<1> USE DEF IInv
<1>1. CASE PrintSample(t)
  <2>1. driver = "monitor" /\ held = {"tm"}
    BY <1>1 DEF PrintSample, ThreadInv, HeldInv
  <2>2. /\ UNCHANGED <<driver, threadVars, pc, held, mishap, count, kcpustatVars, timerVars>>
        /\ fault' = FALSE
    BY <1>1, <2>1 DEF PrintSample, Others
  <2>3. Types' /\ LoaderTypes'
    BY <2>2 DEF Types, LoaderTypes, ThreadsTypeOK, threadVars, kcpustatVars, timerVars
  <2> QED
    BY <2>2, <2>3 DEF ThreadInv, HeldInv, Running, FaultIsUnchecked, TimerInv, SampleInv,
                      SamplesAreListed, threadVars, kcpustatVars, timerVars
<1>2. CASE ThreadExit(t) \/ HangingFn(t) \/ NoMemory(t)
  <2>1. /\ Running(t) /\ thread' = [thread EXCEPT ![t] = "exited"]
        /\ UNCHANGED <<should_stop, monitor_thread, driver, pc, held, fault, count,
                       my_head, live, stat, n, sum, timerVars>>
        /\ sampling' = FALSE
    BY <1>2 DEF ThreadExit, ThreadEnds, HangingFn, NoMemory, Returns, loaderVars,
                kcpustatVars, Types
  <2>2. /\ t = monitor_thread /\ driver \in Threaded
        /\ \A u \in Threads : ~Running(u)'
    BY <2>1 DEF ThreadInv, Running, Types, ThreadsTypeOK
  <2>3. Types' /\ SampleInv' /\ TimerInv'
    BY <2>1 DEF timerVars, Types, ThreadsTypeOK, SampleInv, SamplesAreListed, TimerInv
  <2>4. ThreadInv'
    BY <2>1, <2>2 DEF ThreadInv
  <2>5. LoaderTypes'
    BY <1>2 DEF LoaderTypes, ThreadExit, HangingFn, NoMemory, Returns, loaderVars
  <2>6. CASE ThreadExit(t)
    <3>1. pc = "stop" /\ UNCHANGED mishap
      BY <2>1, <2>6 DEF ThreadExit, ThreadEnds, Awake, ThreadInv, loaderVars
    <3> QED
      BY <2>1, <2>3, <2>4, <2>5, <3>1 DEF HeldInv, FaultIsUnchecked
  <2>7. CASE HangingFn(t)
    BY <2>1, <2>3, <2>4, <2>5, <2>7
       DEF HangingFn, Returns, HeldInv, FaultIsUnchecked, Unchecked
  <2>8. CASE NoMemory(t)
    BY <2>1, <2>3, <2>4, <2>5, <2>8
       DEF NoMemory, Returns, ThreadInv, HeldInv, FaultIsUnchecked, Unchecked
  <2> QED
    BY <1>2, <2>6, <2>7, <2>8
<1>3. CASE NextRound(t)
  <2>1. /\ UNCHANGED <<threadVars, loaderVars, count, my_head, live, stat, n, sum, timerVars>>
        /\ sampling' = TRUE /\ driver = "kcpustat" /\ Running(monitor_thread)
    BY <1>3 DEF NextRound, ThreadInv, Running
  <2>2. Types' /\ LoaderTypes'
    BY <2>1 DEF Types, LoaderTypes, ThreadsTypeOK, threadVars, loaderVars, timerVars
  <2> QED
    BY <2>1, <2>2 DEF ThreadInv, HeldInv, Running, FaultIsUnchecked, TimerInv, SampleInv,
                      SamplesAreListed, threadVars, loaderVars, timerVars
<1> QED
  BY <1>1, <1>2, <1>3

\* kcpustat takes a sample: the list holds the samples there are, less than a batch
LEMMA SampleStep ==
  ASSUME IInv, NEW t \in Threads, Sample(t)
  PROVE  IInv'
<1> USE DEF IInv
<1>1. UNCHANGED <<threadVars, loaderVars, count, timerVars>> /\ sampling' = FALSE
  BY DEF Sample
<1>2. PICK s \in Samples \ live :
        /\ n' = (n + 1) % Batch
        /\ IF n' = 0 THEN my_head' = <<>> /\ live' = (live \cup {s}) \ Freed(Append(my_head, s))
                     ELSE my_head' = Append(my_head, s) /\ live' = live \cup {s}
  BY DEF Sample
<1>3. ToSet(Append(my_head, s)) = ToSet(my_head) \cup {s}
  <2> DEFINE list == Append(my_head, s)
  <2>1. my_head \in Seq(Samples) /\ s \in Samples
    BY DEF Types
  <2>2. /\ DOMAIN my_head = 1..Len(my_head) /\ Len(my_head) \in Nat
        /\ DOMAIN list = 1..(Len(my_head) + 1)
        /\ \A i \in DOMAIN my_head : list[i] = my_head[i]
        /\ list[Len(my_head) + 1] = s
    BY <2>1
  <2> HIDE DEF list
  <2>3. ToSet(list) = ToSet(my_head) \cup {s}
    BY <2>2 DEF ToSet
  <2> QED
    BY <2>3 DEF list
<1>4. n = Len(my_head) /\ n \in 0..(Batch - 1) /\ live = ToSet(my_head)
  BY SmallAssumption DEF SampleInv, SamplesAreListed, Types
<1>5. Append(my_head, s) \in Seq(Samples) /\ Len(Append(my_head, s)) = n + 1
  BY <1>4 DEF Types
<1>6. stat' \in [Samples -> 0..MaxCount] /\ LoaderTypes'
  BY <1>1 DEF Sample, SaveStats, Types, LoaderTypes, loaderVars
<1>7. ThreadInv' /\ HeldInv' /\ FaultIsUnchecked' /\ TimerInv' /\ LoaderTypes'
  BY <1>1, <1>6
     DEF ThreadInv, HeldInv, Running, FaultIsUnchecked, TimerInv, threadVars, loaderVars,
         timerVars
<1>8. CASE n + 1 = Batch
  <2>1. n' = 0
    BY <1>2, <1>8, SmallAssumption
  <2>2. my_head' = <<>> /\ live' = {}
    BY <1>2, <1>3, <1>4, <2>1 DEF Freed
  <2>3. Types'
    <3>1. n' \in 0..(Batch - 1) /\ my_head' \in Seq(Samples) /\ live' \subseteq Samples
      BY <2>1, <2>2, SmallAssumption
    <3> QED
      BY <1>1, <1>6, <3>1 DEF Types, ThreadsTypeOK, threadVars, timerVars
  <2>4. SampleInv'
    BY <2>1, <2>2, SmallAssumption DEF SampleInv, SamplesAreListed, ToSet
  <2> QED
    BY <1>7, <2>3, <2>4
<1>9. CASE n + 1 # Batch
  <2>1. n' = n + 1 /\ n' # 0
    BY <1>2, <1>4, <1>9, SmallAssumption
  <2>2. my_head' = Append(my_head, s) /\ live' = live \cup {s}
    BY <1>2, <2>1
  <2>3. n' \in 0..(Batch - 1)
    BY <1>4, <1>9, <2>1, SmallAssumption
  <2>4. Types'
    BY <1>1, <1>5, <1>6, <2>2, <2>3 DEF Types, ThreadsTypeOK, threadVars, timerVars
  <2>5. SampleInv'
    BY <1>3, <1>4, <1>5, <2>1, <2>2, <2>3, SmallAssumption DEF SampleInv, SamplesAreListed
  <2> QED
    BY <1>7, <2>4, <2>5
<1> QED
  BY <1>8, <1>9

\* prdebug's timer: what is counted between Timeout and SetData is never printed
LEMMA TimerStep ==
  ASSUME IInv,
         \/ PrdebugInit \/ Timeout \/ SetData \/ ModTimer \/ Tick \/ DelTimerSync
  PROVE  IInv'
<1> USE DEF IInv
<1>1. /\ UNCHANGED <<threadVars, driver, held, mishap, fault, kcpustatVars>>
      /\ \/ UNCHANGED pc
         \/ driver = "prdebug" /\ pc \in {"init", "deltimer"} /\ pc' \in {"loaded", "unloaded"}
  BY DEF PrdebugInit, Timeout, SetData, ModTimer, Tick, DelTimerSync, At, TimerInv, loaderVars
<1>2. Types'
  <2>1. CASE Timeout
    <3>1. count - data \in Nat /\ printed \in Nat
      BY SmallAssumption DEF Types, TimerInv
    <3>2. printed' \in Nat /\ timer' = "data" /\ UNCHANGED <<count, data>>
      BY <2>1, <3>1 DEF Timeout
    <3> QED
      BY <1>1, <3>2 DEF Types, ThreadsTypeOK, threadVars, kcpustatVars
  <2>2. CASE Tick
    <3>1. count' \in 0..MaxCount /\ UNCHANGED timerVars
      BY <2>2, SmallAssumption DEF Tick, Types
    <3> QED
      BY <1>1, <3>1 DEF Types, ThreadsTypeOK, threadVars, kcpustatVars, timerVars
  <2>3. CASE PrdebugInit \/ SetData \/ ModTimer \/ DelTimerSync
    <3>1. /\ UNCHANGED <<count, printed>> /\ data' \in {data, count}
          /\ timer' \in {"off", "armed", "data", "rearm"}
      BY <2>3 DEF PrdebugInit, SetData, Current, ModTimer, DelTimerSync, Types
    <3> QED
      BY <1>1, <3>1 DEF Types, ThreadsTypeOK, threadVars, kcpustatVars
  <2> QED
    BY <2>1, <2>2, <2>3
<1>3. SampleInv'
  BY <1>1 DEF SampleInv, SamplesAreListed, kcpustatVars
<1>4. ThreadInv'
  BY <1>1 DEF ThreadInv, Running, Threaded, threadVars, kcpustatVars
<1>5. HeldInv' /\ FaultIsUnchecked'
  BY <1>1 DEF HeldInv, FaultIsUnchecked, Running, threadVars
<1>6. TimerInv'
  BY <1>1 DEF PrdebugInit, Timeout, SetData, Current, ModTimer, Tick, DelTimerSync,
              HandlerDone, At, TimerInv, Types, timerVars, loaderVars
<1>7. LoaderTypes'
  BY <1>1 DEF LoaderTypes
<1> QED
  BY <1>2, <1>3, <1>4, <1>5, <1>6, <1>7

-----------------------------------------------------------------------------
(* What kcpustat reports.                                                  *)

\* What the samples hold after k rounds of a loop that goes backwards: the last k of them
\* are noncumulative.
AfterRounds(list, st, k) ==
  [i \in 1..Len(list) |->
     st[list[i]] - (IF i > Len(list) - k /\ i # 1 THEN st[list[i - 1]] ELSE 0)]

\* A round subtracts the predecessor while it is still cumulative.
LEMMA RoundIs ==
  ASSUME NEW list \in Seq(Samples), NEW st \in [Samples -> Int], NEW k \in 1..Len(list)
  PROVE  Subtracted(AfterRounds(list, st, k - 1), Backwards(k, Len(list)))
           = AfterRounds(list, st, k)
<1> DEFINE m == Len(list)
           p == AfterRounds(list, st, k - 1)
           b == m + 1 - k
<1>1. m \in Nat /\ k \in 1..m /\ b \in 1..m OBVIOUS
<1>2. \A i \in 1..m : st[list[i]] \in Int
  <2>1. \A i \in 1..m : list[i] \in Samples OBVIOUS
  <2> QED BY <2>1
<1> HIDE DEF m
<1>3. p = [i \in 1..m |-> st[list[i]] - (IF i > m - (k - 1) /\ i # 1 THEN st[list[i - 1]] ELSE 0)]
  BY DEF AfterRounds, m
<1> HIDE DEF p
<1>4. \A i \in 1..m : (i > m - (k - 1)) <=> (i > b) BY <1>1
<1>5. \A i \in 1..m : (i > m - k) <=> (i > b \/ i = b) BY <1>1
<1>6. \A i \in 1..m : ~(i > b /\ i = b) BY <1>1
<1>7. \A i \in 1..m : i # 1 => i - 1 \in 1..m /\ ~(i = b /\ i - 1 > b) BY <1>1
<1> HIDE DEF b
<1>8. \A i \in 1..m : p[i] = st[list[i]] - (IF i > b /\ i # 1 THEN st[list[i - 1]] ELSE 0)
  BY <1>3, <1>4
<1>9. ASSUME NEW i \in 1..m
      PROVE  p[i] - (IF i = b /\ i # 1 THEN p[i - 1] ELSE 0)
               = st[list[i]] - (IF i > m - k /\ i # 1 THEN st[list[i - 1]] ELSE 0)
  <2>1. CASE i = b /\ i # 1
    <3>1. p[i] = st[list[i]] - 0 BY <1>6, <1>8, <2>1
    <3>2. p[i - 1] = st[list[i - 1]] - 0 BY <1>7, <1>8, <2>1
    <3>3. st[list[i]] \in Int /\ st[list[i - 1]] \in Int BY <1>2, <1>7, <2>1
    <3>4. i > m - k BY <1>5, <2>1
    <3> QED BY <2>1, <3>1, <3>2, <3>3, <3>4
  <2>2. CASE ~(i = b /\ i # 1)
    <3>1. (i > m - k /\ i # 1) <=> (i > b /\ i # 1) BY <1>5, <2>2
    <3>2. p[i] \in Int
      <4>1. CASE i > b /\ i # 1
        <5>1. st[list[i]] \in Int /\ st[list[i - 1]] \in Int BY <1>2, <1>7, <4>1
        <5>2. p[i] = st[list[i]] - st[list[i - 1]] BY <1>8, <4>1
        <5> QED BY <5>1, <5>2
      <4>2. CASE ~(i > b /\ i # 1)
        <5>1. st[list[i]] \in Int BY <1>2
        <5>2. p[i] = st[list[i]] - 0 BY <1>8, <4>2
        <5> QED BY <5>1, <5>2
      <4> QED BY <4>1, <4>2
    <3>3. p[i] - (IF i = b /\ i # 1 THEN p[i - 1] ELSE 0) = p[i] - 0 BY <2>2
    <3>4. p[i] - 0 = p[i] BY <3>2
    <3> QED BY <1>8, <3>1, <3>3, <3>4
  <2> QED BY <2>1, <2>2
<1>10. Subtracted(p, b) = [i \in 1..m |-> p[i] - (IF i = b /\ i # 1 THEN p[i - 1] ELSE 0)]
  <2>1. DOMAIN p = 1..m BY <1>3
  <2> QED BY <2>1 DEF Subtracted
<1>11. AfterRounds(list, st, k)
         = [i \in 1..m |-> st[list[i]] - (IF i > m - k /\ i # 1 THEN st[list[i - 1]] ELSE 0)]
  BY DEF AfterRounds, m
<1>12. Subtracted(p, b) = AfterRounds(list, st, k)
  BY <1>9, <1>10, <1>11
<1> QED
  BY <1>12 DEF Backwards, p, b, m

\* The loop that goes backwards leaves the differences of neighbours.
LEMMA NoncumulativeIs ==
  ASSUME NEW list \in Seq(Samples), list # <<>>, NEW st \in [Samples -> Int]
  PROVE  Noncumulative(list, st)
           = [i \in 1..Len(list) |-> st[list[i]] - (IF i = 1 THEN 0 ELSE st[list[i - 1]])]
<1> DEFINE m == Len(list)
           base == [i \in 1..m |-> st[list[i]]]
           q == [k \in 0..m |-> AfterRounds(list, st, k)]
           body(f, k) == IF k = 0 THEN base ELSE Subtracted(f[k - 1], Backwards(k, m))
           fix == CHOOSE f : f = [k \in 0..m |-> body(f, k)]
<1>1. m \in Nat /\ m # 0 OBVIOUS
<1>2. \A i \in 1..m : st[list[i]] \in Int
  <2>1. \A i \in 1..m : list[i] \in Samples OBVIOUS
  <2> QED BY <2>1
<1>3. AfterRounds(list, st, 0) = base
  <2>1. \A i \in 1..m : ~(i > m - 0) BY <1>1
  <2>2. \A i \in 1..m : st[list[i]] - 0 = st[list[i]] BY <1>2
  <2> HIDE DEF m
  <2>3. AfterRounds(list, st, 0)
          = [i \in 1..m |-> st[list[i]] - (IF i > m - 0 /\ i # 1 THEN st[list[i - 1]] ELSE 0)]
    BY DEF AfterRounds, m
  <2> QED BY <2>1, <2>2, <2>3
<1>4. \A k \in 0..m : q[k] = body(q, k)
  <2> TAKE k \in 0..m
  <2>1. CASE k = 0 BY <1>1, <1>3, <2>1
  <2>2. CASE k # 0
    <3>1. k \in 1..m /\ k - 1 \in 0..m BY <1>1, <2>2
    <3>2. Subtracted(AfterRounds(list, st, k - 1), Backwards(k, m)) = AfterRounds(list, st, k)
      BY <3>1, RoundIs
    <3> QED BY <2>2, <3>1, <3>2
  <2> QED BY <2>1, <2>2
<1>5. q = [k \in 0..m |-> body(q, k)]
  <2>1. q = [k \in 0..m |-> q[k]] BY Zenon
  <2> HIDE DEF q, body
  <2> QED BY <1>4, <2>1
<1>6. fix = [k \in 0..m |-> body(fix, k)]
  <2> HIDE DEF q, body
  <2> QED BY <1>5
<1>7. \A k \in 0..m : fix[k] = body(fix, k)
  <2> HIDE DEF fix, body
  <2> QED BY <1>6
<1>8. fix[m] = q[m]
  <2> HIDE DEF fix, q
  <2> DEFINE U == {k \in 0..m : fix[k] # q[k]}
  <2>1. ASSUME U # {} PROVE FALSE
    <3>1. U \in SUBSET Nat BY <1>1
    <3>2. PICK l \in U : \A k \in U : l <= k
      <4> HIDE DEF U
      <4> QED BY <2>1, <3>1, Least
    <3>3. l \in 0..m /\ fix[l] # q[l] OBVIOUS
    <3>4. l # 0 BY <1>4, <1>7, <3>3
    <3>5. l - 1 \in 0..m /\ ~(l <= l - 1) BY <1>1, <3>3, <3>4
    <3>6. fix[l - 1] = q[l - 1] BY <3>2, <3>5
    <3>7. body(fix, l) = body(q, l) BY <3>4, <3>6
    <3> HIDE DEF body
    <3> QED BY <1>4, <1>7, <3>3, <3>7
  <2> QED BY <1>1, <2>1
<1>9. Noncumulative(list, st) = fix[m]
  BY DEF Noncumulative
<1>10. q[m] = AfterRounds(list, st, m) BY <1>1
<1>11. AfterRounds(list, st, m)
         = [i \in 1..m |-> st[list[i]] - (IF i = 1 THEN 0 ELSE st[list[i - 1]])]
  <2>1. \A i \in 1..m : i > m - m BY <1>1
  <2> HIDE DEF m
  <2>2. AfterRounds(list, st, m)
          = [i \in 1..m |-> st[list[i]] - (IF i > m - m /\ i # 1 THEN st[list[i - 1]] ELSE 0)]
    BY DEF AfterRounds, m
  <2>3. \A i \in 1..m : (IF i > m - m /\ i # 1 THEN st[list[i - 1]] ELSE 0)
                          = (IF i = 1 THEN 0 ELSE st[list[i - 1]])
    BY <2>1
  <2> QED BY <2>2, <2>3
<1> HIDE DEF fix, q
<1> QED
  BY <1>8, <1>9, <1>10, <1>11

\* The differences that are left after the first loop add up to what the counter was in
\* the last sample more than in the first.
LEMMA ReportIs ==
  ASSUME NEW list \in Seq(Samples), list # <<>>, NEW st \in [Samples -> Int]
  PROVE  Report(list, st) = st[list[Len(list)]] - st[list[1]]
<1> DEFINE m == Len(list) - 1
           v == Tail(Noncumulative(list, st))
           w == [k \in 0..m |-> st[list[k + 1]] - st[list[1]]]
<1>1. m \in Nat /\ Len(list) = m + 1 /\ Len(list) \in Nat
  <2>1. Len(list) \in Nat /\ Len(list) # 0 OBVIOUS
  <2> QED BY <2>1
<1>2. \A i \in 1..(m + 1) : st[list[i]] \in Int
  <2>1. \A i \in 1..Len(list) : list[i] \in Samples OBVIOUS
  <2> QED BY <1>1, <2>1
<1>3. v \in [1..m -> Int] /\ \A i \in 1..m : v[i] = st[list[i + 1]] - st[list[i]]
  <2> DEFINE d == Noncumulative(list, st)
  <2>1. d = [i \in 1..(m + 1) |-> st[list[i]] - (IF i = 1 THEN 0 ELSE st[list[i - 1]])]
    BY <1>1, NoncumulativeIs
  <2>2. \A i \in 1..(m + 1) : d[i] \in Int
    <3> TAKE i \in 1..(m + 1)
    <3>1. d[i] = st[list[i]] - (IF i = 1 THEN 0 ELSE st[list[i - 1]]) BY <2>1
    <3>2. CASE i = 1 BY <1>2, <3>1, <3>2
    <3>3. CASE i # 1
      <4>1. i - 1 \in 1..(m + 1) BY <1>1, <3>3
      <4> QED BY <1>2, <3>1, <3>3, <4>1
    <3> QED BY <3>2, <3>3
  <2>3. \A i \in 1..m : i + 1 \in 1..(m + 1) /\ d[i + 1] = st[list[i + 1]] - st[list[i]]
    <3> TAKE i \in 1..m
    <3>1. i + 1 \in 1..(m + 1) /\ i + 1 # 1 /\ (i + 1) - 1 = i BY <1>1
    <3> HIDE DEF d
    <3> QED BY <2>1, <3>1
  <2>4. DOMAIN d = 1..(m + 1) BY <2>1
  <2> HIDE DEF d, m
  <2>5. d \in Seq(Int) /\ Len(d) = m + 1
    BY <1>1, <2>1, <2>2, <2>4
  <2>6. Tail(d) = [i \in 1..m |-> d[i + 1]]
    <3>1. d # <<>> BY <1>1, <2>5
    <3>2. Tail(d) \in Seq(Int) /\ Len(Tail(d)) = m BY <1>1, <2>5, <3>1
    <3>3. \A i \in 1..m : Tail(d)[i] = d[i + 1] BY <1>1, <2>5, <3>1, <3>2
    <3>4. [i \in 1..m |-> d[i + 1]] \in Seq(Int) /\ Len([i \in 1..m |-> d[i + 1]]) = m
      BY <1>1, <2>2, <2>3
    <3> QED BY <3>2, <3>3, <3>4, SeqEqual
  <2>7. v = Tail(d) BY DEF d
  <2> HIDE DEF v
  <2> QED BY <2>2, <2>3, <2>6, <2>7
<1>4. Sums(w, v, m)
  <2>1. \A k \in 0..m : w[k] = st[list[k + 1]] - st[list[1]] /\ w[k] \in Int
    <3> TAKE k \in 0..m
    <3>1. k + 1 \in 1..(m + 1) /\ 1 \in 1..(m + 1) BY <1>1
    <3> QED BY <1>2, <3>1
  <2>2. w \in [0..m -> Int] BY <2>1
  <2> HIDE DEF w, v, m
  <2>3. w[0] = 0
    <3>1. 0 \in 0..m /\ 1 \in 1..(m + 1) /\ 0 + 1 = 1 BY <1>1
    <3> QED BY <1>2, <2>1, <3>1
  <2>4. ASSUME NEW i \in 1..m PROVE w[i] = w[i - 1] + v[i]
    <3>1. /\ i \in 0..m /\ i - 1 \in 0..m /\ (i - 1) + 1 = i
          /\ i \in 1..(m + 1) /\ i + 1 \in 1..(m + 1) /\ 1 \in 1..(m + 1)
      BY <1>1
    <3>2. w[i - 1] = st[list[i]] - st[list[1]] BY <2>1, <3>1
    <3>3. w[i] = st[list[i + 1]] - st[list[1]] BY <2>1, <3>1
    <3> QED BY <1>2, <1>3, <3>1, <3>2, <3>3
  <2> QED BY <2>2, <2>3, <2>4 DEF Sums
<1>5. w[m] = st[list[Len(list)]] - st[list[1]]
  BY <1>1
<1> HIDE DEF m, v, w
<1>6. FoldSeq(+, 0, v) = w[m]
  BY <1>1, <1>3, <1>4, FoldIs
<1> QED
  BY <1>5, <1>6 DEF Report, v

-----------------------------------------------------------------------------
(* The theorems.                                                           *)

LEMMA InitIInv == Init => IInv
<1> SUFFICES ASSUME Init PROVE IInv
  OBVIOUS
<1>1. Types
  <2>1. 0 \in 0..MaxCount /\ 0 \in 0..(Batch - 1)
    BY SmallAssumption
  <2>2. my_head \in Seq(Samples)
    BY DEF Init
  <2> QED
    BY <2>1, <2>2 DEF Init, ThreadsInit, Types, ThreadsTypeOK
<1>2. LoaderTypes /\ ThreadInv
  BY DEF Init, ThreadsInit, LoaderTypes, ThreadInv, Threaded, Running
<1>3. HeldInv /\ FaultIsUnchecked /\ TimerInv
  BY DEF Init, HeldInv, FaultIsUnchecked, TimerInv
<1>4. SampleInv
  BY SmallAssumption DEF Init, SampleInv, SamplesAreListed, ToSet
<1> QED
  BY <1>1, <1>2, <1>3, <1>4 DEF IInv

\* Each module holds, at each step of its init and its exit, what IInv says, whatever
\* the kernel refuses and whenever its thread or its timer runs.
THEOREM SmallInvariance == Spec => []IInv
<1>1. ASSUME IInv, [Next]_vars
      PROVE  IInv'
  <2>1. CASE UNCHANGED vars
    BY <1>1, <2>1
       DEF IInv, Types, LoaderTypes, ThreadsTypeOK, ThreadInv, HeldInv, Running,
           FaultIsUnchecked, TimerInv, SampleInv, SamplesAreListed, vars, threadVars,
           loaderVars, kcpustatVars, timerVars
  <2>2. CASE ~fault /\ Next
    BY <1>1, <2>1, <2>2, DevicesStep, SpawnStep, StopStep, ThreadStep, SampleStep, TimerStep
       DEF Next, LoaderStep, Exit, Halted
  <2> QED
    BY <1>1, <2>1, <2>2 DEF Next, Halted
<1> QED
  BY <1>1, InitIInv, PTL DEF Spec

\* Every variable keeps its type: the counters stay in their bounds, and what init and
\* exit hold or were refused is what there is to hold.
THEOREM SmallTypeCorrect == Spec => []TypeOK
<1>1. IInv => TypeOK
  BY DEF IInv, Types, LoaderTypes, TypeOK
<1> QED
  BY <1>1, SmallInvariance, PTL

\* A module whose init failed or whose exit has run holds no tm, device or file
\* (EXO-04/taskmonitor.c:107-110 and 118-119, helloioctl.c:117-131), no thread and no
\* timer; what kcpustat leaves is the samples of an unfinished batch, if there are any.
THEOREM OnlySamplesAreLeft == Spec => []OnlySamplesLeftBehind
<1>1. IInv => OnlySamplesLeftBehind
  <2> SUFFICES ASSUME IInv PROVE live = {} <=> n = 0
    BY DEF IInv, ThreadInv, HeldInv, TimerInv, OnlySamplesLeftBehind
  <2>1. /\ my_head \in Seq(Samples) /\ live = ToSet(my_head) /\ n = Len(my_head)
    BY DEF IInv, Types, SampleInv, SamplesAreListed
  <2>2. Len(my_head) \in Nat /\ DOMAIN my_head = 1..Len(my_head)
    BY <2>1
  <2>3. CASE Len(my_head) = 0
    BY <2>1, <2>2, <2>3 DEF ToSet
  <2>4. CASE Len(my_head) # 0
    <3>1. 1 \in DOMAIN my_head BY <2>2, <2>4
    <3> QED BY <2>1, <2>4, <3>1 DEF ToSet
  <2> QED BY <2>3, <2>4
<1> QED
  BY <1>1, SmallInvariance, PTL

\* A wrong pointer is used only after one of the refusals in Unchecked: every other one
\* is survived, together with any number of them.
THEOREM OnlyUncheckedFaults == Spec => []FaultIsUnchecked
<1>1. IInv => FaultIsUnchecked
  BY DEF IInv
<1> QED
  BY <1>1, SmallInvariance, PTL

\* kcpustat's list is exactly its allocated samples, fewer than a batch at each report
\* (kcpustat.c:60-77).
THEOREM AllSamplesListed == Spec => []SamplesAreListed
<1>1. IInv => SamplesAreListed
  BY DEF IInv, SampleInv
<1> QED
  BY <1>1, SmallInvariance, PTL

\* prdebug reports no interrupt twice, although it reads the counter twice a round
\* (prdebug.c:13-14).
THEOREM NoneCountedTwice == Spec => []NotCountedTwice
<1>1. IInv => NotCountedTwice
  BY DEF IInv, TimerInv, NotCountedTwice
<1> QED
  BY <1>1, SmallInvariance, PTL

\* What kcpustat reports of a batch is the increase of the counter from its first sample
\* to its last, whatever the counter did in between, although the loop that subtracts
\* changes the samples that it still has to read (kcpustat.c:60-77).
THEOREM ReportsAreIncreases == Spec => ReportIsIncrease
<1>1. ASSUME IInv, [Next]_vars
      PROVE  [my_head # <<>> /\ my_head' = <<>> => sum' = count - stat[my_head[1]]]_vars
  <2>1. SUFFICES ASSUME my_head # <<>>, my_head' = <<>>
                 PROVE  sum' = count - stat[my_head[1]]
    OBVIOUS
  <2>2. CASE \E t \in Threads : Sample(t)
    <3>1. PICK s \in Samples \ live :
            LET list == Append(my_head, s)
            IN  /\ SaveStats(s)
                /\ n' = (n + 1) % Batch
                /\ IF n' = 0
                     THEN /\ sum' = Report(list, stat')
                          /\ live' = (live \cup {s}) \ Freed(list)
                          /\ my_head' = <<>>
                     ELSE /\ live' = live \cup {s} /\ my_head' = list
                          /\ UNCHANGED sum
      BY <2>2 DEF Sample
    <3> DEFINE list == Append(my_head, s)
    <3>2. /\ my_head \in Seq(Samples) /\ s \in Samples /\ live = ToSet(my_head)
          /\ stat \in [Samples -> 0..MaxCount] /\ count \in 0..MaxCount
      BY <1>1 DEF IInv, Types, SampleInv, SamplesAreListed
    <3>3. /\ list \in Seq(Samples) /\ list # <<>> /\ list[1] = my_head[1]
          /\ list[Len(list)] = s
      BY <2>1, <3>2
    <3> HIDE DEF list
    <3>4. my_head' # list
      BY <2>1, <3>3
    <3>5. sum' = Report(list, stat') /\ SaveStats(s)
      BY <3>1, <3>4 DEF list
    <3>6. stat' = [stat EXCEPT ![s] = count]
      BY <3>5 DEF SaveStats
    <3>7. stat' \in [Samples -> Int]
      BY <3>2, <3>6, SmallAssumption
    <3>8. my_head[1] \in Samples /\ my_head[1] # s
      <4>1. 1 \in DOMAIN my_head /\ my_head[1] \in Samples BY <2>1, <3>2
      <4>2. my_head[1] \in live BY <3>2, <4>1 DEF ToSet
      <4> QED BY <3>1, <4>1, <4>2
    <3>9. sum' = stat'[s] - stat'[my_head[1]]
      BY <3>3, <3>5, <3>7, ReportIs
    <3> QED
      BY <3>2, <3>6, <3>8, <3>9
  <2>3. CASE ~\E t \in Threads : Sample(t)
    <3>1. UNCHANGED my_head
      BY <1>1, <2>3
         DEF Next, Halted, vars, kcpustatVars, Tick, LoaderStep, Exit, MonitorPid, MonitorInit,
             HangingInit, KcpustatInit, Spawn, ThreadStopped, PrdebugInit, AllocRegion, CdevAdd,
             ClassCreate, DeviceCreate, KobjectCreate, CreateFile, MonitorExit, HangingExit,
             KcpustatExit, StopThread, PrdebugExit, EtxDriverExit, HelloExit, DelTimerSync,
             ThreadExit, PrintSample, HangingFn, NextRound, NoMemory, Returns, Timeout, SetData, ModTimer,
             Others
    <3> QED
      BY <2>1, <3>1
  <2> QED
    BY <2>2, <2>3
<1> QED
  BY <1>1, SmallInvariance, PTL DEF Spec, ReportIsIncrease
=============================================================================
