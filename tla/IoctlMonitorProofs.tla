------------------------- MODULE IoctlMonitorProofs -------------------------
(***************************************************************************)
(* Proofs about IoctlMonitor, for any number of clients, process numbers,  *)
(* threads and monitors.  While no two ioctls overlap and every pid exists *)
(* the place of the one actor at work tells what lives: the thread, tm and *)
(* the pid that the thread samples.  The properties look at the moments    *)
(* when nobody is at work.                                                 *)
(***************************************************************************)
EXTENDS IoctlMonitor, TLAPS

\* where the loader and the clients can be
LoaderPlaces == {"create_thread", "loaded", "failed", "exit_stop", "exit_wait", "free_tm",
                 "unloaded"}
ClientPlaces == {"closed", "open", "sample", "get_sample", "stop", "stop_wait", "clear",
                 "start", "set", "set_pid", "set_pid_wait", "put", "copy",
                 "monitor_pid", "wrong_pid", "restart"}

Places ==
  /\ pc[Loader] \in LoaderPlaces
  /\ \A c \in Clients : /\ pc[c] \in ClientPlaces
                        /\ pc[c] # "closed" => pc[Loader] = "loaded"

Fresh == \A t \in Threads : thread[t] = "none" => t \notin should_stop

OneAtWork == \A a, b \in Busy : a = b

Waiting == {"stop_wait", "set_pid_wait", "exit_wait"}

\* no thread but the one in monitor_thread runs, and it is only asked to end by an
\* actor that waits for it
OneThread ==
  /\ \A t \in Threads : Running(t) => t = monitor_thread
  /\ \A t \in Threads : Running(t) /\ t \in should_stop
                          => \E a \in Actors : pc[a] \in Waiting

\* a thread runs only if run says so, and if run says so and none was refused
ThreadAsRun == /\ Running(monitor_thread) => run
               /\ mishap = {} /\ run => Running(monitor_thread)

\* what the place of an actor at work tells of run and of the thread
AtWork(a) ==
  /\ pc[a] # "wrong_pid"
  /\ pc[a] \in {"create_thread", "clear", "start", "put", "copy", "monitor_pid", "restart",
                "free_tm", "failed", "unloaded"} => ~Running(monitor_thread)
  /\ pc[a] \in {"create_thread", "start", "set"} => ~run
  /\ pc[a] \in {"stop", "stop_wait", "clear", "set_pid_wait", "put", "copy",
                "monitor_pid", "restart"} => run
  /\ pc[a] \in {"sample", "get_sample", "stop", "set_pid", "exit_stop"} => ThreadAsRun
  /\ pc[a] = "set" /\ mishap = {} => Running(monitor_thread)
  /\ pc[a] \in Waiting => waits[a] = monitor_thread
  /\ pc[a] = "get_sample" => uses[a] = tm

\* the same when no actor is at work
AtRest == pc[Loader] = "loaded" /\ Busy = {} => ThreadAsRun

\* where tm has been given back and not been replaced
Without == {"copy", "monitor_pid", "failed", "unloaded"}

\* only the newest tm is held, and it is about the target
Holding == held = IF \E a \in Actors : pc[a] \in Without THEN {} ELSE {tm}
Names(restarting) == IF restarting THEN pid[tm] = value ELSE target = UShort(pid[tm])
Named == Names(\E a \in Actors : pc[a] = "restart")

Orderly == /\ OneAtWork /\ OneThread /\ AtRest /\ Holding /\ Named
           /\ \A a \in Actors : AtWork(a)

\* no two ioctls have overlapped, and every pid existed
Settled == mishap \subseteq {"no_thread"}

FaultInv == mishap = {} /\ fault # "none"
              => fault = "thread" /\ ~run /\ Busy # {}

IInv == /\ TypeOK /\ Places /\ Fresh /\ FaultInv
        /\ Settled /\ fault = "none" => Orderly

-----------------------------------------------------------------------------
(* Types.                                                                  *)

LEMMA InitTypeOK == Init => TypeOK
<1> SUFFICES ASSUME Init PROVE TypeOK
  OBVIOUS
<1>1. ThreadsTypeOK
  BY DEF Init, ThreadsInit, ThreadsTypeOK
<1>2. 1 \in Monitors
  BY IoctlAssumption DEF Monitors
<1>3. pc \in [Actors -> {"create_thread", "closed"}]
  BY DEF Init
<1> QED
  BY <1>1, <1>2, <1>3, IoctlAssumption DEF Init, TypeOK, Idle

\* kthread_run names a thread in monitor_thread, or an error
LEMMA ThreadRunsType == ASSUME ThreadsTypeOK, ThreadRuns \/ ThreadFails, UNCHANGED should_stop
                        PROVE  ThreadsTypeOK'
BY DEF ThreadsTypeOK, ThreadRuns, ThreadFails

\* kthread_stop works on a thread, or nothing but fault changes
LEMMA KthreadStopType ==
  ASSUME TypeOK, NEW a \in Actors,
         NEW next \in {"stop_wait", "set_pid_wait", "exit_wait"},
         KthreadStop(a, next),
         UNCHANGED <<thread, monitor_thread, monitorVars, driverVars, uses, mishap>>
  PROVE  TypeOK'
<1>1. CASE CanStop
  <2>1. monitor_thread \in Threads
    BY <1>1 DEF CanStop, Running
  <2>2. /\ should_stop' = should_stop \cup {monitor_thread}
        /\ waits' = [waits EXCEPT ![a] = monitor_thread]
        /\ pc' = [pc EXCEPT ![a] = next]
        /\ UNCHANGED fault
    BY <1>1 DEF KthreadStop, AskToStop, Goto
  <2> QED
    BY <2>1, <2>2 DEF TypeOK, ThreadsTypeOK, monitorVars, driverVars
<1>2. CASE ~CanStop
  BY <1>2 DEF KthreadStop, TypeOK, ThreadsTypeOK, monitorVars, driverVars
<1> QED
  BY <1>1, <1>2

LEMMA Modulo == ASSUME NEW n \in Int, NEW m \in Nat, m > 0
                PROVE  n % m \in 0 .. m - 1 /\ (n \in 0 .. m - 1 => n % m = n)
OBVIOUS

\* narrowing leaves an unsigned short, and the same one if there was nothing to lose
LEMMA Narrowed == ASSUME NEW n \in Int
                  PROVE  UShort(n) \in UShorts /\ (n \in UShorts => UShort(n) = n)
<1> DEFINE m == 65536
<1>1. m \in Nat /\ m > 0 /\ m - 1 = 65535
  OBVIOUS
<1>2. UShort(n) = n % m /\ UShorts = 0 .. m - 1
  BY <1>1 DEF UShort, UShorts
<1> HIDE DEF m
<1>3. n % m \in 0 .. m - 1 /\ (n \in 0 .. m - 1 => n % m = n)
  BY <1>1, Modulo
<1> QED
  BY <1>2, <1>3, Zenon

LEMMA ClientType == ASSUME TypeOK, NEW c \in Clients, ClientStep(c)
                    PROVE  TypeOK'
<1> c \in Actors
  BY DEF Actors
<1>1. CASE Sample(c)
  BY <1>1 DEF Sample, Goto, TypeOK, ThreadsTypeOK, threadVars, monitorVars, driverVars
<1>2. CASE GetSample(c)
  BY <1>2 DEF GetSample, Goto, TypeOK, ThreadsTypeOK, threadVars, monitorVars, driverVars,
              Idle
<1>3. CASE Stop(c)
  BY <1>3, KthreadStopType DEF Stop
<1>4. CASE Stopped(c)
  BY <1>4 DEF Stopped, Goto, TypeOK, ThreadsTypeOK, threadVars, monitorVars, driverVars
<1>5. CASE ClearRun(c)
  BY <1>5 DEF ClearRun, Goto, TypeOK, ThreadsTypeOK, threadVars, monitorVars, Idle
<1>6. CASE Start(c)
  <2>1. ThreadsTypeOK'
    BY <1>6, ThreadRunsType DEF Start, KthreadRun, TypeOK
  <2> QED
    BY <1>6, <2>1 DEF Start, KthreadRun, Goto, TypeOK, monitorVars, driverVars
<1>7. CASE SetRun(c)
  BY <1>7 DEF SetRun, Goto, TypeOK, ThreadsTypeOK, threadVars, monitorVars, Idle
<1>8. CASE SetPid(c)
  BY <1>8, KthreadStopType DEF SetPid
<1>9. CASE SetPidStopped(c)
  BY <1>9 DEF SetPidStopped, Goto, TypeOK, ThreadsTypeOK, threadVars, monitorVars,
              driverVars
<1>10. CASE PutOld(c)
  BY <1>10 DEF PutOld, FreeTm, PutTm, Goto, TypeOK, ThreadsTypeOK, threadVars, driverVars
<1>11. CASE CopyValue(c)
  BY <1>11 DEF CopyValue, Goto, TypeOK, ThreadsTypeOK, threadVars, monitorVars
<1>12. CASE MonitorPid(c)
  <2>1. CASE ProcessFound
    <3>1. tm' \in Monitors
      BY <2>1, IoctlAssumption DEF ProcessFound, TypeOK, Monitors
    <3>2. held' \subseteq Monitors /\ pid' \in [Monitors -> Pids]
      BY <2>1, <3>1 DEF ProcessFound, TypeOK
    <3> QED
      BY <1>12, <3>1, <3>2
         DEF MonitorPid, Goto, TypeOK, ThreadsTypeOK, threadVars, driverVars, monitorVars
  <2>2. CASE UNCHANGED monitorVars
    BY <1>12, <2>2
       DEF MonitorPid, Goto, TypeOK, ThreadsTypeOK, threadVars, driverVars, monitorVars
  <2> QED
    BY <1>12, <2>1, <2>2 DEF MonitorPid
<1>13. CASE WrongPid(c)
  BY <1>13 DEF WrongPid, FreeTm, PutTm, Goto, TypeOK, ThreadsTypeOK, threadVars,
               driverVars, Idle
<1>14. CASE Restart(c)
  <2>1. ThreadsTypeOK'
    BY <1>14, ThreadRunsType DEF Restart, KthreadRun, TypeOK
  <2>2. UShort(value) \in UShorts
    BY Narrowed, IoctlAssumption DEF TypeOK
  <2> QED
    BY <1>14, <2>1, <2>2 DEF Restart, NewTarget, KthreadRun, Goto, TypeOK, monitorVars, Idle
<1> QED
  BY <1>1, <1>2, <1>3, <1>4, <1>5, <1>6, <1>7, <1>8, <1>9, <1>10, <1>11, <1>12, <1>13,
     <1>14 DEF ClientStep

LEMMA CallType == ASSUME TypeOK, NEW c \in Clients,
                         Open(c) \/ Close(c) \/ Ioctl(c) \/ WrValue(c)
                  PROVE  TypeOK'
<1> c \in Actors
  BY DEF Actors
<1>1. CASE Open(c)
  BY <1>1 DEF Open, Goto, TypeOK, ThreadsTypeOK, threadVars, monitorVars, driverVars, Idle
<1>2. CASE Close(c)
  BY <1>2 DEF Close, Goto, TypeOK, ThreadsTypeOK, threadVars, monitorVars, driverVars, Idle
<1>3. CASE Ioctl(c)
  BY <1>3 DEF Ioctl, Goto, TypeOK, ThreadsTypeOK, threadVars, monitorVars, driverVars
<1>4. CASE WrValue(c)
  BY <1>4 DEF WrValue, TypeOK, ThreadsTypeOK, threadVars, monitorVars
<1> QED
  BY <1>1, <1>2, <1>3, <1>4

LEMMA LoaderType == ASSUME TypeOK, LoaderStep \/ Exit
                    PROVE  TypeOK'
<1> Loader \in Actors
  BY DEF Actors
<1>1. CASE CreateThread
  <2>1. ThreadsTypeOK'
    BY <1>1, ThreadRunsType DEF CreateThread, KthreadRun, TypeOK
  <2> QED
    BY <1>1, <2>1 DEF CreateThread, KthreadRun, PutTm, Goto, TypeOK, Idle
<1>2. CASE Exit
  BY <1>2 DEF Exit, Goto, TypeOK, ThreadsTypeOK, threadVars, monitorVars, driverVars
<1>3. CASE ExitStop
  BY <1>3, KthreadStopType DEF ExitStop
<1>4. CASE ExitStopped
  BY <1>4 DEF ExitStopped, Goto, TypeOK, ThreadsTypeOK, threadVars, monitorVars, driverVars
<1>5. CASE ExitFree
  BY <1>5 DEF ExitFree, FreeTm, PutTm, Goto, TypeOK, ThreadsTypeOK, threadVars, driverVars,
              Idle
<1> QED
  BY <1>1, <1>2, <1>3, <1>4, <1>5 DEF LoaderStep

LEMMA ThreadType == ASSUME TypeOK, NEW t \in Threads, ThreadExit(t) \/ ThreadSample(t)
                    PROVE  TypeOK'
<1>1. CASE ThreadExit(t)
  BY <1>1 DEF ThreadExit, ThreadEnds, TypeOK, ThreadsTypeOK, monitorVars, driverVars
<1>2. CASE ThreadSample(t)
  BY <1>2 DEF ThreadSample, TypeOK, ThreadsTypeOK, threadVars, monitorVars, driverVars
<1> QED
  BY <1>1, <1>2

-----------------------------------------------------------------------------
(* One actor at a time.                                                    *)

LEMMA AtIt ==
  ASSUME Places, Orderly, NEW a \in Actors, a \in Busy
  PROVE  /\ \A b \in Actors \ {a} : pc[b] \in {"closed", "open", "loaded"}
         /\ AtWork(a)
         /\ held = IF pc[a] \in Without THEN {} ELSE {tm}
         /\ Names(pc[a] = "restart")
<1>1. ASSUME NEW b \in Actors \ {a}
      PROVE  pc[b] \in {"closed", "open", "loaded"}
  <2>1. pc[b] \in Idle
    BY DEF Orderly, OneAtWork, Busy
  <2>2. b = Loader => pc[b] = "loaded"
    BY DEF Places, Actors, Busy, Idle
  <2> QED
    BY <2>1, <2>2 DEF Places, Actors, Idle, ClientPlaces
<1>2. (\E b \in Actors : pc[b] \in Without) <=> pc[a] \in Without
  BY <1>1 DEF Without
<1>3. (\E b \in Actors : pc[b] = "restart") <=> pc[a] = "restart"
  BY <1>1
<1> QED
  BY <1>1, <1>2, <1>3 DEF Orderly, Holding, Named

LEMMA NobodyAtIt ==
  ASSUME Places, Orderly, Busy = {}, pc[Loader] = "loaded"
  PROVE  /\ \A b \in Actors : pc[b] \in {"closed", "open", "loaded"}
         /\ ThreadAsRun /\ held = {tm} /\ target = UShort(pid[tm])
<1>1. ASSUME NEW b \in Actors
      PROVE  pc[b] \in {"closed", "open", "loaded"}
  BY DEF Places, Actors, Busy, Idle, ClientPlaces
<1>2. /\ ~\E b \in Actors : pc[b] \in Without
      /\ ~\E b \in Actors : pc[b] = "restart"
  BY <1>1 DEF Without
<1> QED
  BY <1>1, <1>2 DEF Orderly, AtRest, Holding, Named, Names

\* when a moves and the others are at rest, what a's new place tells is all there is
LEMMA Move ==
  ASSUME TypeOK, NEW a \in Actors, NEW l, pc' = [pc EXCEPT ![a] = l],
         \A b \in Actors \ {a} : pc[b] \in {"closed", "open", "loaded"},
         OneThread', AtWork(a)',
         l \in Idle /\ pc'[Loader] = "loaded" => ThreadAsRun',
         held' = IF l \in Without THEN {} ELSE {tm'},
         Names(l = "restart")'
  PROVE  Orderly'
<1>1. pc'[a] = l /\ \A b \in Actors \ {a} : pc'[b] \in {"closed", "open", "loaded"}
  BY DEF TypeOK
<1>2. OneAtWork'
  BY <1>1 DEF OneAtWork, Busy, Idle
<1>3. AtRest'
  BY <1>1 DEF AtRest, Busy
<1>4. (\E b \in Actors : pc'[b] \in Without) <=> l \in Without
  BY <1>1 DEF Without
<1>5. (\E b \in Actors : pc'[b] = "restart") <=> l = "restart"
  BY <1>1
<1>6. ASSUME NEW b \in Actors \ {a}
      PROVE  AtWork(b)'
  BY <1>1, <1>6 DEF AtWork, Waiting
<1> QED
  BY <1>2, <1>3, <1>4, <1>5, <1>6 DEF Orderly, Holding, Named

LEMMA QuietThread ==
  ASSUME TypeOK, OneThread, NEW a \in Actors, NEW l, pc' = [pc EXCEPT ![a] = l],
         UNCHANGED threadVars, pc[a] \in Waiting => ~Running(monitor_thread)
  PROVE  OneThread'
<1>1. \A b \in Actors \ {a} : pc'[b] = pc[b]
  BY DEF TypeOK
<1>2. \A t \in Threads : Running(t)' <=> Running(t)
  BY DEF threadVars, Running
<1> QED
  BY <1>1, <1>2 DEF OneThread, threadVars

\* the same for an actor at work that leaves the threads alone
LEMMA QuietMove ==
  ASSUME TypeOK, Places, Orderly, NEW a \in Actors, a \in Busy,
         NEW l, pc' = [pc EXCEPT ![a] = l], UNCHANGED threadVars,
         pc[a] \in Waiting => ~Running(monitor_thread), AtWork(a)',
         l \in Idle /\ pc'[Loader] = "loaded" => ThreadAsRun',
         held' = IF l \in Without THEN {} ELSE {tm'},
         Names(l = "restart")'
  PROVE  Orderly'
<1>1. OneThread'
  BY QuietThread DEF Orderly
<1>2. \A b \in Actors \ {a} : pc[b] \in {"closed", "open", "loaded"}
  BY AtIt
<1> QED
  BY <1>1, <1>2, Move

\* an actor at work asks the thread to end, and waits for it
LEMMA StopMove ==
  ASSUME TypeOK, Places, Orderly, NEW a \in Actors, a \in Busy,
         NEW l \in Waiting, KthreadStop(a, l), fault' = "none",
         pc[a] \notin Without, pc[a] # "restart", l # "exit_wait" => run,
         UNCHANGED <<thread, monitor_thread, monitorVars, driverVars, uses, mishap>>
  PROVE  Orderly'
<1>1. /\ should_stop' = should_stop \cup {monitor_thread}
      /\ waits' = [waits EXCEPT ![a] = monitor_thread]
      /\ pc' = [pc EXCEPT ![a] = l]
  BY DEF KthreadStop, AskToStop, Goto
<1>2. pc'[a] = l /\ waits'[a] = monitor_thread
  BY <1>1 DEF TypeOK
<1>3. \A t \in Threads : Running(t)' <=> Running(t)
  BY DEF Running
<1>4. OneThread'
  BY <1>2, <1>3 DEF Orderly, OneThread
<1>5. AtWork(a)'
  BY <1>2 DEF AtWork, driverVars, Waiting
<1>6. /\ held' = {tm'} /\ target' = UShort(pid'[tm'])
  BY AtIt DEF monitorVars, driverVars, Names
<1>7. l \notin Idle /\ l \notin Without /\ l # "restart"
  BY DEF Waiting, Idle, Without
<1>8. \A b \in Actors \ {a} : pc[b] \in {"closed", "open", "loaded"}
  BY AtIt
<1> QED
  BY <1>1, <1>4, <1>5, <1>6, <1>7, <1>8, Move DEF Names

\* kthread_run makes the only thread, which nobody has stopped yet, or none
LEMMA RunMove ==
  ASSUME TypeOK, Fresh, OneThread, ~Running(monitor_thread), KthreadRun,
         UNCHANGED should_stop
  PROVE  /\ OneThread'
         /\ mishap' = {} => Running(monitor_thread)'
         /\ monitor_thread' = NoThread => ~Running(monitor_thread)'
<1>1. \A t \in Threads : ~Running(t)
  BY DEF OneThread
<1>2. CASE ThreadRuns
  <2>1. PICK t \in Threads : /\ \A u \in Threads : thread[u] = "none" <=> u >= t
                            /\ thread' = [thread EXCEPT ![t] = "running"]
                            /\ monitor_thread' = t
    BY <1>2 DEF ThreadRuns
  <2>2. t \notin should_stop /\ t # NoThread
    BY <2>1, ThreadsAssumption DEF Fresh, Threads, NoThread
  <2>3. Running(t)' /\ \A u \in Threads \ {t} : ~Running(u)'
    BY <1>1, <2>1 DEF Running, TypeOK, ThreadsTypeOK
  <2> QED
    BY <2>1, <2>2, <2>3 DEF OneThread
<1>3. CASE ThreadFails /\ mishap' = mishap \cup {"no_thread"}
  <2>1. \A t \in Threads : ~Running(t)'
    BY <1>1, <1>3 DEF ThreadFails, Running
  <2> QED
    BY <1>3, <2>1, ThreadsAssumption DEF OneThread, ThreadFails, Running, Threads, NoThread
<1> QED
  BY <1>2, <1>3 DEF KthreadRun

-----------------------------------------------------------------------------
(* A step keeps the order, unless it is a fault.                           *)

LEMMA ClientPlace ==
  ASSUME TypeOK, Places, NEW c \in Clients, ClientStep(c)
  PROVE  c \in Actors /\ c # Loader /\ c \in Busy /\ pc[Loader] = "loaded"
<1>1. c \in Actors /\ c # Loader
  BY IoctlAssumption DEF Actors
<1>2. pc[c] \notin Idle
  BY DEF ClientStep, Sample, GetSample, Stop, Stopped, ClearRun, Start, SetRun, SetPid,
         SetPidStopped, PutOld, CopyValue, MonitorPid, WrongPid, Restart, Idle
<1> QED
  BY <1>1, <1>2 DEF Places, Busy, Idle

\* nothing forgives a mishap
LEMMA MishapsAdd ==
  ASSUME (\E c \in Clients : ClientStep(c)) \/ LoaderStep
  PROVE  mishap \subseteq mishap'
BY DEF ClientStep, Sample, GetSample, Stop, Stopped, ClearRun, Start, SetRun, SetPid,
       SetPidStopped, PutOld, CopyValue, MonitorPid, WrongPid, Restart, LoaderStep,
       CreateThread, ExitStop, ExitStopped, ExitFree, KthreadRun

LEMMA SamplesInOrder ==
  ASSUME TypeOK, Places, Orderly, NEW c \in Clients, c \in Busy, c \in Actors,
         Sample(c) \/ GetSample(c)
  PROVE  Orderly' /\ fault' = fault
<1>1. /\ AtWork(c)
      /\ held = IF pc[c] \in Without THEN {} ELSE {tm}
      /\ Names(pc[c] = "restart")
  BY AtIt
<1>2. CASE Sample(c)
  <2>1. /\ pc[c] = "sample" /\ pc' = [pc EXCEPT ![c] = "get_sample"] /\ uses'[c] = tm
        /\ UNCHANGED <<threadVars, monitorVars, driverVars, waits, fault, mishap>>
    BY <1>2 DEF Sample, Goto, TypeOK
  <2>2. pc'[c] = "get_sample"
    BY <2>1 DEF TypeOK
  <2>3. ThreadAsRun'
    BY <1>1, <2>1 DEF AtWork, ThreadAsRun, threadVars, driverVars, Running
  <2>4. AtWork(c)'
    BY <2>1, <2>2, <2>3 DEF AtWork, Waiting, monitorVars
  <2> QED
    BY <1>1, <2>1, <2>4, QuietMove DEF Waiting, Without, monitorVars, driverVars, Idle, Names
<1>3. CASE GetSample(c)
  <2>1. uses[c] \in held
    BY <1>1, <1>3 DEF GetSample, AtWork, Without
  <2>2. /\ pc[c] = "get_sample" /\ pc' = [pc EXCEPT ![c] = "open"]
        /\ UNCHANGED <<threadVars, monitorVars, driverVars, waits, uses, fault, mishap>>
    BY <1>3, <2>1 DEF GetSample, Goto
  <2>3. pc'[c] = "open"
    BY <2>2 DEF TypeOK
  <2>4. ThreadAsRun'
    BY <1>1, <2>2 DEF AtWork, ThreadAsRun, threadVars, driverVars, Running
  <2>5. AtWork(c)'
    BY <2>3 DEF AtWork, Waiting
  <2> QED
    BY <1>1, <2>2, <2>4, <2>5, QuietMove DEF Waiting, Without, monitorVars, driverVars, Names
<1> QED
  BY <1>2, <1>3

LEMMA StopsInOrder ==
  ASSUME TypeOK, Places, Orderly, NEW c \in Clients, c \in Busy, c \in Actors,
         Stop(c) \/ Stopped(c) \/ ClearRun(c), fault' = "none"
  PROVE  Orderly'
<1>1. /\ AtWork(c)
      /\ held = IF pc[c] \in Without THEN {} ELSE {tm}
      /\ Names(pc[c] = "restart")
  BY AtIt
<1>2. CASE Stop(c)
  <2>1. pc[c] = "stop" /\ run
    BY <1>1, <1>2 DEF Stop, AtWork
  <2> QED
    BY <1>2, <2>1, StopMove DEF Stop, Waiting, Without
<1>3. CASE Stopped(c)
  <2>1. /\ pc[c] = "stop_wait" /\ pc' = [pc EXCEPT ![c] = "clear"]
        /\ UNCHANGED <<threadVars, monitorVars, driverVars, waits, uses, mishap>>
    BY <1>3 DEF Stopped, Goto
  <2>2. pc'[c] = "clear"
    BY <2>1 DEF TypeOK
  <2>3. ~Running(monitor_thread) /\ run
    BY <1>1, <1>3, <2>1 DEF AtWork, Waiting, Stopped
  <2>4. AtWork(c)'
    BY <2>1, <2>2, <2>3 DEF AtWork, Waiting, driverVars, threadVars, Running
  <2> QED
    BY <1>1, <2>1, <2>3, <2>4, QuietMove DEF Without, Idle, monitorVars, driverVars, Names
<1>4. CASE ClearRun(c)
  <2>1. /\ pc[c] = "clear" /\ pc' = [pc EXCEPT ![c] = "open"] /\ run' = FALSE
        /\ UNCHANGED <<threadVars, monitorVars, value, target, waits, uses, mishap>>
    BY <1>4 DEF ClearRun, Goto
  <2>2. pc'[c] = "open"
    BY <2>1 DEF TypeOK
  <2>3. ThreadAsRun'
    BY <1>1, <2>1 DEF AtWork, ThreadAsRun, threadVars, Running
  <2>4. AtWork(c)'
    BY <2>2 DEF AtWork, Waiting
  <2> QED
    BY <1>1, <2>1, <2>3, <2>4, QuietMove DEF Waiting, Without, monitorVars, Names
<1> QED
  BY <1>2, <1>3, <1>4

LEMMA StartsInOrder ==
  ASSUME TypeOK, Places, Fresh, Orderly, NEW c \in Clients, c \in Busy, c \in Actors,
         Start(c) \/ SetRun(c)
  PROVE  Orderly'
<1>1. /\ AtWork(c)
      /\ held = IF pc[c] \in Without THEN {} ELSE {tm}
      /\ Names(pc[c] = "restart")
      /\ \A b \in Actors \ {c} : pc[b] \in {"closed", "open", "loaded"}
  BY AtIt
<1>2. CASE Start(c)
  <2>1. /\ pc[c] = "start" /\ pc' = [pc EXCEPT ![c] = "set"] /\ KthreadRun
        /\ UNCHANGED <<should_stop, monitorVars, driverVars, waits, uses>>
    BY <1>2 DEF Start, Goto
  <2>2. pc'[c] = "set"
    BY <2>1 DEF TypeOK
  <2>3. ~Running(monitor_thread) /\ ~run
    BY <1>1, <2>1 DEF AtWork
  <2>4. OneThread' /\ (mishap' = {} => Running(monitor_thread)')
    BY <2>1, <2>3, RunMove DEF Orderly
  <2>5. AtWork(c)'
    BY <2>1, <2>2, <2>3, <2>4 DEF AtWork, Waiting, driverVars
  <2> QED
    BY <1>1, <2>1, <2>4, <2>5, Move DEF Without, Idle, monitorVars, driverVars, Names
<1>3. CASE SetRun(c)
  <2>1. /\ pc[c] = "set" /\ pc' = [pc EXCEPT ![c] = "open"] /\ run' = TRUE
        /\ UNCHANGED <<threadVars, monitorVars, value, target, waits, uses, mishap>>
    BY <1>3 DEF SetRun, Goto
  <2>2. pc'[c] = "open"
    BY <2>1 DEF TypeOK
  <2>3. ThreadAsRun'
    BY <1>1, <2>1 DEF AtWork, ThreadAsRun, threadVars, Running
  <2>4. AtWork(c)'
    BY <2>2 DEF AtWork, Waiting
  <2> QED
    BY <1>1, <2>1, <2>3, <2>4, QuietMove DEF Waiting, Without, monitorVars, Names
<1> QED
  BY <1>2, <1>3

LEMMA ReplacesInOrder ==
  ASSUME TypeOK, Places, Fresh, Orderly, NEW c \in Clients, c \in Busy, c \in Actors,
         SetPid(c) \/ SetPidStopped(c) \/ PutOld(c), fault' = "none"
  PROVE  Orderly'
<1>1. /\ AtWork(c)
      /\ held = IF pc[c] \in Without THEN {} ELSE {tm}
      /\ Names(pc[c] = "restart")
  BY AtIt
<1>2. CASE SetPid(c)
  <2>1. pc[c] = "set_pid" /\ run
    BY <1>1, <1>2 DEF SetPid, KthreadStop, CanStop, AtWork, ThreadAsRun
  <2> QED
    BY <1>2, <2>1, StopMove DEF SetPid, Waiting, Without
<1>3. CASE SetPidStopped(c)
  <2>1. /\ pc[c] = "set_pid_wait" /\ pc' = [pc EXCEPT ![c] = "put"]
        /\ UNCHANGED <<threadVars, monitorVars, driverVars, waits, uses, mishap>>
    BY <1>3 DEF SetPidStopped, Goto
  <2>2. pc'[c] = "put"
    BY <2>1 DEF TypeOK
  <2>3. ~Running(monitor_thread) /\ run
    BY <1>1, <1>3, <2>1 DEF AtWork, Waiting, SetPidStopped
  <2>4. AtWork(c)'
    BY <2>1, <2>2, <2>3 DEF AtWork, Waiting, driverVars, threadVars, Running
  <2> QED
    BY <1>1, <2>1, <2>3, <2>4, QuietMove DEF Without, Idle, monitorVars, driverVars, Names
<1>4. CASE PutOld(c)
  <2>1. /\ pc[c] = "put" /\ held = {tm} /\ ~Running(monitor_thread) /\ run
    BY <1>1, <1>4 DEF PutOld, AtWork, Without
  <2>2. /\ pc' = [pc EXCEPT ![c] = "copy"] /\ held' = {}
        /\ UNCHANGED <<threadVars, tm, pid, driverVars, waits, uses, mishap>>
    BY <1>4, <2>1 DEF PutOld, FreeTm, PutTm, Goto
  <2>3. pc'[c] = "copy"
    BY <2>2 DEF TypeOK
  <2>4. AtWork(c)'
    BY <2>1, <2>2, <2>3 DEF AtWork, Waiting, driverVars, threadVars, Running
  <2> QED
    BY <1>1, <2>1, <2>2, <2>4, QuietMove DEF Without, Waiting, Idle, driverVars, Names
<1> QED
  BY <1>2, <1>3, <1>4

LEMMA RestartsInOrder ==
  ASSUME TypeOK, Places, Fresh, Orderly, NEW c \in Clients, c \in Busy, c \in Actors,
         CopyValue(c) \/ MonitorPid(c) \/ Restart(c), Settled'
  PROVE  Orderly'
<1>1. /\ AtWork(c)
      /\ held = IF pc[c] \in Without THEN {} ELSE {tm}
      /\ Names(pc[c] = "restart")
      /\ \A b \in Actors \ {c} : pc[b] \in {"closed", "open", "loaded"}
  BY AtIt
<1>2. CASE CopyValue(c)
  <2>1. /\ pc[c] = "copy" /\ pc' = [pc EXCEPT ![c] = "monitor_pid"]
        /\ UNCHANGED <<threadVars, monitorVars, run, target, waits, uses, mishap>>
    BY <1>2 DEF CopyValue, Goto
  <2>2. pc'[c] = "monitor_pid"
    BY <2>1 DEF TypeOK
  <2>3. AtWork(c)'
    BY <1>1, <2>1, <2>2 DEF AtWork, Waiting, threadVars, Running
  <2> QED
    BY <1>1, <2>1, <2>3, QuietMove DEF Without, Waiting, Idle, monitorVars, Names
<1>3. CASE MonitorPid(c)
  <2>1. /\ pc[c] = "monitor_pid" /\ ProcessFound /\ pc' = [pc EXCEPT ![c] = "restart"]
        /\ UNCHANGED <<threadVars, driverVars, waits, uses, mishap>>
    BY <1>3 DEF MonitorPid, Settled, Goto
  <2>2. pc'[c] = "restart"
    BY <2>1 DEF TypeOK
  <2>3. AtWork(c)'
    BY <1>1, <2>1, <2>2 DEF AtWork, Waiting, driverVars, threadVars, Running
  <2>4. tm' \in Monitors
    BY <2>1, IoctlAssumption DEF ProcessFound, TypeOK, Monitors
  <2>5. held' = {tm'} /\ pid'[tm'] = value
    BY <1>1, <2>1, <2>4 DEF ProcessFound, Without, TypeOK
  <2> QED
    BY <2>1, <2>3, <2>5, QuietMove DEF Without, Waiting, Idle, driverVars, Names
<1>4. CASE Restart(c)
  <2>1. /\ pc[c] = "restart" /\ pc' = [pc EXCEPT ![c] = "open"] /\ KthreadRun
        /\ target' = UShort(value)
        /\ UNCHANGED <<should_stop, monitorVars, run, value, waits, uses>>
    BY <1>4 DEF Restart, NewTarget, Goto
  <2>2. pc'[c] = "open"
    BY <2>1 DEF TypeOK
  <2>3. ~Running(monitor_thread) /\ run
    BY <1>1, <2>1 DEF AtWork
  <2>4. OneThread' /\ (mishap' = {} => Running(monitor_thread)')
    BY <2>1, <2>3, RunMove DEF Orderly
  <2>5. ThreadAsRun'
    BY <2>1, <2>3, <2>4 DEF ThreadAsRun
  <2>6. AtWork(c)'
    BY <2>2 DEF AtWork, Waiting
  <2> QED
    BY <1>1, <2>1, <2>4, <2>5, <2>6, Move DEF Without, monitorVars, Names
<1> QED
  BY <1>2, <1>3, <1>4

LEMMA ClientInOrder ==
  ASSUME TypeOK, Places, Fresh, Orderly, NEW c \in Clients, ClientStep(c), Settled',
         fault' = "none"
  PROVE  Orderly'
<1>1. c \in Actors /\ c \in Busy
  BY ClientPlace
<1>2. ~WrongPid(c)
  BY <1>1, AtIt DEF AtWork, WrongPid
<1> QED
  BY <1>1, <1>2, SamplesInOrder, StopsInOrder, StartsInOrder, ReplacesInOrder,
     RestartsInOrder DEF ClientStep

LEMMA LoaderInOrder ==
  ASSUME TypeOK, Places, Fresh, Orderly, LoaderStep, fault' = "none"
  PROVE  Orderly'
<1>1. Loader \in Actors /\ Loader \in Busy
  BY DEF LoaderStep, CreateThread, ExitStop, ExitStopped, ExitFree, Actors, Busy, Idle
<1>2. /\ AtWork(Loader)
      /\ held = IF pc[Loader] \in Without THEN {} ELSE {tm}
      /\ Names(pc[Loader] = "restart")
      /\ \A b \in Actors \ {Loader} : pc[b] \in {"closed", "open", "loaded"}
  BY <1>1, AtIt
<1>3. CASE CreateThread
  <2>1. /\ pc[Loader] = "create_thread" /\ KthreadRun
        /\ UNCHANGED <<should_stop, tm, pid, value, target, waits, uses>>
    BY <1>3 DEF CreateThread
  <2>2. ~Running(monitor_thread) /\ ~run /\ held = {tm} /\ target = UShort(pid[tm])
    BY <1>2, <2>1 DEF AtWork, Without, Names
  <2>3. /\ OneThread' /\ (mishap' = {} => Running(monitor_thread)')
        /\ monitor_thread' = NoThread => ~Running(monitor_thread)'
    BY <2>1, <2>2, RunMove DEF Orderly
  <2>4. CASE monitor_thread' = NoThread
    <3>1. run' = run /\ held' = {} /\ pc' = [pc EXCEPT ![Loader] = "failed"]
      BY <1>3, <2>2, <2>4 DEF CreateThread, PutTm, Goto
    <3>2. pc'[Loader] = "failed"
      BY <1>1, <3>1 DEF TypeOK
    <3>3. AtWork(Loader)'
      BY <2>3, <2>4, <3>2 DEF AtWork, Waiting
    <3> QED
      BY <1>1, <1>2, <2>1, <2>2, <2>3, <3>1, <3>2, <3>3, Move DEF Without, Names
  <2>5. CASE monitor_thread' # NoThread
    <3>1. run' = TRUE /\ held' = held /\ pc' = [pc EXCEPT ![Loader] = "loaded"]
      BY <1>3, <2>5 DEF CreateThread, Goto
    <3>2. pc'[Loader] = "loaded"
      BY <1>1, <3>1 DEF TypeOK
    <3>3. ThreadAsRun'
      BY <2>3, <3>1 DEF ThreadAsRun
    <3>4. AtWork(Loader)'
      BY <3>2 DEF AtWork, Waiting
    <3> QED
      BY <1>1, <1>2, <2>1, <2>2, <2>3, <3>1, <3>3, <3>4, Move DEF Without, Names
  <2> QED
    BY <2>4, <2>5
<1>4. CASE ExitStop
  BY <1>1, <1>4, StopMove DEF ExitStop, Waiting, Without
<1>5. CASE ExitStopped
  <2>1. /\ pc[Loader] = "exit_wait" /\ pc' = [pc EXCEPT ![Loader] = "free_tm"]
        /\ UNCHANGED <<threadVars, monitorVars, driverVars, waits, uses, mishap>>
    BY <1>5 DEF ExitStopped, Goto
  <2>2. pc'[Loader] = "free_tm"
    BY <1>1, <2>1 DEF TypeOK
  <2>3. ~Running(monitor_thread)
    BY <1>2, <1>5, <2>1 DEF AtWork, Waiting, ExitStopped
  <2>4. AtWork(Loader)'
    BY <2>1, <2>2, <2>3 DEF AtWork, Waiting, threadVars, Running
  <2> QED
    BY <1>1, <1>2, <2>1, <2>2, <2>3, <2>4, QuietMove DEF Without, Idle, monitorVars,
       driverVars, Names
<1>6. CASE ExitFree
  <2>1. pc[Loader] = "free_tm" /\ held = {tm} /\ ~Running(monitor_thread)
    BY <1>2, <1>6 DEF ExitFree, AtWork, Without
  <2>2. /\ pc' = [pc EXCEPT ![Loader] = "unloaded"] /\ held' = {}
        /\ UNCHANGED <<threadVars, tm, pid, driverVars, waits, uses, mishap>>
    BY <1>6, <2>1 DEF ExitFree, FreeTm, PutTm, Goto
  <2>3. pc'[Loader] = "unloaded"
    BY <1>1, <2>2 DEF TypeOK
  <2>4. AtWork(Loader)'
    BY <2>1, <2>2, <2>3 DEF AtWork, Waiting, threadVars, Running
  <2> QED
    BY <1>1, <1>2, <2>1, <2>2, <2>3, <2>4, QuietMove DEF Without, Waiting, driverVars, Names
<1> QED
  BY <1>3, <1>4, <1>5, <1>6 DEF LoaderStep

\* an ioctl, or monitor_exit, begins when nobody is at work
LEMMA Begin ==
  ASSUME TypeOK, Places, Orderly, Busy = {}, pc[Loader] = "loaded", NEW a \in Actors,
         NEW l \in {"sample", "set_pid", "stop", "start", "exit_stop"},
         pc' = [pc EXCEPT ![a] = l], l = "stop" => run, l = "start" => ~run,
         UNCHANGED <<threadVars, monitorVars, driverVars, waits, uses, mishap>>
  PROVE  Orderly'
<1>1. /\ \A b \in Actors : pc[b] \in {"closed", "open", "loaded"}
      /\ ThreadAsRun /\ held = {tm} /\ target = UShort(pid[tm])
  BY NobodyAtIt
<1>2. pc'[a] = l
  BY DEF TypeOK
<1>3. ThreadAsRun'
  BY <1>1 DEF ThreadAsRun, threadVars, driverVars, Running
<1>4. AtWork(a)'
  BY <1>1, <1>2, <1>3 DEF AtWork, Waiting, ThreadAsRun, threadVars, driverVars, Running
<1>5. OneThread'
  BY <1>1, QuietThread DEF Orderly, Waiting
<1>6. /\ l \notin Idle /\ l \notin Without /\ l # "restart"
      /\ \A b \in Actors \ {a} : pc[b] \in {"closed", "open", "loaded"}
      /\ held' = {tm'} /\ target' = UShort(pid'[tm'])
  BY <1>1 DEF Idle, Without, monitorVars, driverVars
<1> QED
  BY <1>3, <1>4, <1>5, <1>6, Move DEF Names

LEMMA CallInOrder ==
  ASSUME TypeOK, Places, Orderly, NEW c \in Clients,
         Open(c) \/ Close(c) \/ Ioctl(c) \/ WrValue(c), Settled'
  PROVE  Orderly'
<1>1. c \in Actors /\ pc[c] \in {"open", "closed"} /\ pc[Loader] = "loaded"
  BY DEF Open, Close, Ioctl, WrValue, Actors, Places
<1>2. CASE Open(c) \/ Close(c)
  <2>1. PICK l \in {"open", "closed"} : pc' = [pc EXCEPT ![c] = l]
    BY <1>2 DEF Open, Close, Goto
  <2>2. UNCHANGED <<threadVars, monitorVars, driverVars, waits, uses, mishap>>
    BY <1>2 DEF Open, Close
  <2>3. /\ pc'[c] = l /\ \A b \in Actors \ {c} : pc'[b] = pc[b]
        /\ pc[Loader] = pc'[Loader]
    BY <1>1, <2>1, IoctlAssumption DEF TypeOK, Actors
  <2>4. Busy' = Busy
    BY <1>1, <2>3 DEF Busy, Idle
  <2>5. OneThread'
    BY <1>1, <2>1, <2>2, QuietThread DEF Orderly, Waiting
  <2>6. OneAtWork' /\ AtRest'
    BY <2>2, <2>3, <2>4 DEF Orderly, OneAtWork, AtRest, ThreadAsRun, threadVars, driverVars,
                            Running
  <2>7. Holding' /\ Named'
    BY <1>1, <2>2, <2>3 DEF Orderly, Holding, Named, Without, monitorVars, driverVars, Names
  <2>8. AtWork(c)'
    BY <2>3 DEF AtWork, Waiting
  <2>9. ASSUME NEW b \in Actors \ {c} PROVE AtWork(b)'
    BY <2>2, <2>3 DEF Orderly, AtWork, Waiting, ThreadAsRun, threadVars, monitorVars,
                      driverVars, Running
  <2> QED
    BY <2>5, <2>6, <2>7, <2>8, <2>9 DEF Orderly
<1>3. CASE Ioctl(c)
  <2>1. Busy = {} /\ mishap' = mishap
    BY <1>3 DEF Ioctl, Settled
  <2>2. PICK l \in {"sample", "set_pid", "stop", "start"} :
          /\ pc' = [pc EXCEPT ![c] = l] /\ (l = "stop" => run) /\ (l = "start" => ~run)
    BY <1>3 DEF Ioctl, NotRunning, Goto
  <2> QED
    BY <1>1, <1>3, <2>1, <2>2, Begin DEF Ioctl
<1>4. CASE WrValue(c)
  <2>1. Busy = {} /\ mishap' = mishap
    BY <1>4 DEF WrValue, Settled
  <2>2. UNCHANGED <<threadVars, monitorVars, run, target, pc, waits, uses>>
    BY <1>4 DEF WrValue
  <2>3. \A b \in Actors : pc[b] \in {"closed", "open", "loaded"}
    BY <1>1, <2>1, NobodyAtIt
  <2>4. OneAtWork' /\ AtRest'
    BY <2>1, <2>2 DEF Orderly, OneAtWork, AtRest, ThreadAsRun, Busy, threadVars, Running
  <2>5. OneThread'
    BY <2>2 DEF Orderly, OneThread, threadVars, Running
  <2>6. Holding' /\ Named'
    BY <2>2, <2>3 DEF Orderly, Holding, Named, Without, monitorVars, Names
  <2>7. ASSUME NEW b \in Actors PROVE AtWork(b)'
    BY <2>2, <2>3 DEF AtWork, Waiting
  <2> QED
    BY <2>4, <2>5, <2>6, <2>7 DEF Orderly
<1> QED
  BY <1>2, <1>3, <1>4

LEMMA ExitInOrder == ASSUME TypeOK, Places, Orderly, Exit PROVE Orderly'
<1>1. Busy = {}
  BY DEF Exit, AllClosed, Busy, Actors, Idle
<1> QED
  BY <1>1, Begin DEF Exit, Goto, Actors

\* the thread ends under the actor that waits for it, and never finds tm freed
LEMMA ThreadInOrder ==
  ASSUME TypeOK, Places, Orderly, NEW t \in Threads, ThreadExit(t) \/ ThreadSample(t)
  PROVE  ThreadExit(t) /\ Orderly'
<1>1. Running(t) /\ t = monitor_thread
  BY DEF ThreadExit, ThreadEnds, ThreadSample, Orderly, OneThread
<1>2. ThreadExit(t)
  <2>1. SUFFICES ASSUME ThreadSample(t) PROVE FALSE
    OBVIOUS
  <2>2. PICK a \in Actors : pc[a] \in Without
    BY <2>1 DEF ThreadSample, Orderly, Holding
  <2> QED
    BY <1>1, <2>2 DEF Orderly, AtWork, Without
<1>3. PICK a \in Actors : pc[a] \in Waiting
  BY <1>1, <1>2 DEF ThreadExit, ThreadEnds, Awake, Orderly, OneThread
<1>4. a \in Busy
  BY <1>3 DEF Waiting, Busy, Idle
<1>5. /\ \A b \in Actors \ {a} : pc[b] \in {"closed", "open", "loaded"}
      /\ AtWork(a)
  BY <1>4, AtIt
<1>6. /\ thread' = [thread EXCEPT ![t] = "exited"]
      /\ UNCHANGED <<should_stop, monitor_thread, monitorVars, driverVars, pc, waits, uses,
                     mishap>>
  BY <1>2 DEF ThreadExit, ThreadEnds
<1>7. \A u \in Threads : ~Running(u)'
  BY <1>1, <1>6 DEF Orderly, OneThread, Running, TypeOK, ThreadsTypeOK
<1>8. OneThread' /\ OneAtWork' /\ AtRest'
  BY <1>4, <1>6, <1>7 DEF Orderly, OneThread, OneAtWork, AtRest, Busy
<1>9. Holding' /\ Named'
  BY <1>6 DEF Orderly, Holding, Named, monitorVars, driverVars, Names
<1>10. ~Running(monitor_thread)'
  BY <1>7 DEF Running
<1>11. AtWork(a)'
  BY <1>3, <1>5, <1>6, <1>10 DEF AtWork, Waiting, driverVars
<1>12. ASSUME NEW b \in Actors \ {a} PROVE AtWork(b)'
  BY <1>5, <1>6 DEF AtWork, Waiting
<1> QED
  BY <1>2, <1>8, <1>9, <1>11, <1>12 DEF Orderly

-----------------------------------------------------------------------------
(* Places, threads and faults.                                             *)

LEMMA PlacesStep == ASSUME TypeOK, Places, [Next]_vars PROVE Places'
<1>1. ASSUME NEW c \in Clients, pc[Loader] = "loaded", NEW l \in ClientPlaces,
             pc' = [pc EXCEPT ![c] = l]
      PROVE  Places'
  BY <1>1, IoctlAssumption DEF Places, TypeOK, Actors, LoaderPlaces
<1>2. ASSUME NEW l \in LoaderPlaces, pc' = [pc EXCEPT ![Loader] = l],
             \A c \in Clients : pc[c] = "closed"
      PROVE  Places'
  BY <1>2, IoctlAssumption DEF Places, TypeOK, Actors, LoaderPlaces
<1>3. ASSUME UNCHANGED pc PROVE Places'
  BY <1>3 DEF Places
<1>4. ASSUME NEW c \in Clients, ClientStep(c)
      PROVE  Places'
  <2>1. pc[Loader] = "loaded"
    BY <1>4, ClientPlace
  <2>2. UNCHANGED pc \/ \E l \in ClientPlaces : pc' = [pc EXCEPT ![c] = l]
    <3>1. CASE Sample(c) \/ GetSample(c)
      BY <3>1 DEF Sample, GetSample, Goto, ClientPlaces
    <3>2. CASE Stop(c) \/ Stopped(c) \/ ClearRun(c)
      BY <3>2 DEF Stop, Stopped, ClearRun, KthreadStop, Goto, ClientPlaces
    <3>3. CASE Start(c) \/ SetRun(c)
      BY <3>3 DEF Start, SetRun, Goto, ClientPlaces
    <3>4. CASE SetPid(c) \/ SetPidStopped(c) \/ PutOld(c)
      BY <3>4 DEF SetPid, SetPidStopped, PutOld, KthreadStop, FreeTm, Goto, ClientPlaces
    <3>5. CASE CopyValue(c) \/ MonitorPid(c) \/ WrongPid(c) \/ Restart(c)
      BY <3>5 DEF CopyValue, MonitorPid, WrongPid, Restart, FreeTm, Goto, ClientPlaces
    <3> QED
      BY <1>4, <3>1, <3>2, <3>3, <3>4, <3>5 DEF ClientStep
  <2> QED
    BY <1>1, <1>3, <2>1, <2>2
<1>5. ASSUME NEW c \in Clients, Open(c) \/ Close(c) \/ Ioctl(c) \/ WrValue(c)
      PROVE  Places'
  <2>1. pc[Loader] = "loaded"
    BY <1>5 DEF Open, Close, Ioctl, WrValue, Places
  <2>2. UNCHANGED pc \/ \E l \in ClientPlaces : pc' = [pc EXCEPT ![c] = l]
    BY <1>5 DEF Open, Close, Ioctl, WrValue, Goto, ClientPlaces
  <2> QED
    BY <1>1, <1>3, <2>1, <2>2
<1>6. ASSUME LoaderStep \/ Exit
      PROVE  Places'
  <2>1. \A c \in Clients : pc[c] = "closed"
    BY <1>6 DEF LoaderStep, CreateThread, ExitStop, ExitStopped, ExitFree, Exit, AllClosed,
                Places
  <2>2. UNCHANGED pc \/ \E l \in LoaderPlaces : pc' = [pc EXCEPT ![Loader] = l]
    BY <1>6 DEF LoaderStep, CreateThread, ExitStop, ExitStopped, ExitFree, Exit,
                KthreadStop, FreeTm, Goto, LoaderPlaces
  <2> QED
    BY <1>2, <1>3, <2>1, <2>2
<1>7. ASSUME NEW t \in Threads, ThreadExit(t) \/ ThreadSample(t)
      PROVE  UNCHANGED pc
  BY <1>7 DEF ThreadExit, ThreadSample
<1> QED
  BY <1>3, <1>4, <1>5, <1>6, <1>7 DEF Next, Halted, vars

\* only a thread that exists is asked to end
LEMMA FreshStep == ASSUME TypeOK, Fresh, [Next]_vars PROVE Fresh'
<1>1. ASSUME UNCHANGED threadVars PROVE Fresh'
  BY <1>1 DEF Fresh, threadVars
<1>2. ASSUME KthreadRun, UNCHANGED should_stop PROVE Fresh'
  BY <1>2 DEF Fresh, KthreadRun, ThreadRuns, ThreadFails, TypeOK, ThreadsTypeOK
<1>3. ASSUME NEW a, NEW l, KthreadStop(a, l), UNCHANGED thread PROVE Fresh'
  BY <1>3 DEF Fresh, KthreadStop, AskToStop, CanStop, Running
<1>4. ASSUME NEW t \in Threads, ThreadExit(t) \/ ThreadSample(t)
      PROVE  Fresh'
  BY <1>1, <1>4 DEF Fresh, ThreadExit, ThreadSample, ThreadEnds, TypeOK, ThreadsTypeOK
<1>5. ASSUME NEW c \in Clients, ClientStep(c)
      PROVE  Fresh'
  <2>1. CASE Stop(c) \/ SetPid(c)
    BY <1>3, <2>1 DEF Stop, SetPid
  <2>2. CASE Start(c) \/ Restart(c)
    BY <1>2, <2>2 DEF Start, Restart
  <2>3. CASE UNCHANGED threadVars
    BY <1>1, <2>3
  <2> QED
    BY <1>5, <2>1, <2>2, <2>3
       DEF ClientStep, Sample, GetSample, Stopped, ClearRun, SetRun, SetPidStopped, PutOld,
           CopyValue, MonitorPid, WrongPid
<1>6. ASSUME LoaderStep
      PROVE  Fresh'
  BY <1>1, <1>2, <1>3, <1>6 DEF LoaderStep, CreateThread, ExitStop, ExitStopped, ExitFree
<1> QED
  BY <1>1, <1>4, <1>5, <1>6
     DEF Next, Halted, vars, threadVars, Open, Close, Ioctl, WrValue, Exit

\* of the actors at work in order, only those that stop a stopped thread fail
LEMMA FaultStep ==
  ASSUME IInv, [Next]_vars
  PROVE  FaultInv'
<1> SUFFICES ASSUME mishap' = {}, fault' # "none"
             PROVE  fault' = "thread" /\ ~run' /\ Busy' # {}
  BY DEF FaultInv
<1>1. CASE UNCHANGED vars
  BY <1>1 DEF IInv, FaultInv, Busy, vars, driverVars
<1>2. CASE fault = "none" /\ Next
  <2>1. ASSUME mishap \subseteq mishap'
        PROVE  Places /\ Orderly
    BY <1>2, <2>1 DEF IInv, Settled
  <2>2. ASSUME NEW a \in Actors, NEW l, pc[a] \in {"set_pid", "stop", "exit_stop"},
               KthreadStop(a, l), UNCHANGED driverVars, UNCHANGED mishap
        PROVE  fault' = "thread" /\ ~run' /\ Busy' # {}
    <3>1. a \in Busy
      BY <2>2 DEF Busy, Idle
    <3>2. ThreadAsRun
      BY <2>1, <2>2, <3>1, AtIt DEF AtWork
    <3>3. ~Running(monitor_thread) /\ fault' = "thread" /\ pc' = pc
      BY <1>2, <2>2 DEF KthreadStop, CanStop
    <3> QED
      BY <2>2, <3>1, <3>2, <3>3 DEF ThreadAsRun, Busy, driverVars
  <2>3. ASSUME NEW a \in Actors, NEW l, pc[a] \in {"put", "free_tm"}, FreeTm(a, l),
               UNCHANGED mishap
        PROVE  FALSE
    BY <1>2, <2>1, <2>3, AtIt DEF FreeTm, Without, Busy, Idle
  <2>4. ASSUME NEW c \in Clients, ClientStep(c)
        PROVE  fault' = "thread" /\ ~run' /\ Busy' # {}
    <3>1. Places /\ Orderly /\ c \in Actors /\ c \in Busy
      BY <2>1, <2>4, MishapsAdd, ClientPlace DEF IInv
    <3>2. CASE Stop(c) \/ SetPid(c)
      BY <2>2, <3>1, <3>2 DEF Stop, SetPid
    <3>3. CASE PutOld(c)
      BY <2>3, <3>1, <3>3 DEF PutOld
    <3>4. ~WrongPid(c)
      BY <3>1, AtIt DEF AtWork, WrongPid
    <3>5. ~GetSample(c)
      BY <1>2, <3>1, SamplesInOrder DEF IInv
    <3> QED
      BY <1>2, <2>4, <3>2, <3>3, <3>4, <3>5
         DEF ClientStep, Sample, Stopped, ClearRun, Start, SetRun, SetPidStopped, CopyValue,
             MonitorPid, Restart
  <2>5. ASSUME LoaderStep
        PROVE  fault' = "thread" /\ ~run' /\ Busy' # {}
    <3>1. CASE ExitStop
      BY <2>2, <3>1 DEF ExitStop, Actors
    <3>2. CASE ExitFree
      BY <2>3, <3>2 DEF ExitFree, Actors
    <3> QED
      BY <1>2, <2>5, <3>1, <3>2 DEF LoaderStep, CreateThread, ExitStopped
  <2>6. ASSUME NEW t \in Threads, ThreadSample(t)
        PROVE  FALSE
    <3>1. Places /\ Orderly
      BY <2>1, <2>6 DEF ThreadSample
    <3> QED
      BY <1>2, <2>6, <3>1, ThreadInOrder DEF ThreadSample, ThreadExit, IInv
  <2> QED
    BY <1>2, <2>4, <2>5, <2>6 DEF Next, Halted, vars, Open, Close, Ioctl, WrValue, Exit,
                                  ThreadExit
<1> QED
  BY <1>1, <1>2 DEF Next, Halted

-----------------------------------------------------------------------------
(* The theorems.                                                           *)

LEMMA InitIInv == Init => IInv
<1> SUFFICES ASSUME Init PROVE IInv
  OBVIOUS
<1>1. TypeOK
  BY InitTypeOK
<1>2. /\ pc[Loader] = "create_thread" /\ \A c \in Clients : pc[c] = "closed"
      /\ \A a \in Actors \ {Loader} : pc[a] = "closed"
  BY IoctlAssumption DEF Init, Actors
<1>3. Places
  BY <1>2 DEF Places, LoaderPlaces, ClientPlaces
<1>4. Fresh /\ FaultInv
  BY DEF Init, ThreadsInit, Fresh, FaultInv
<1>5. ~\E t \in Threads : Running(t)
  BY DEF Init, ThreadsInit, Running
<1>6. ~Running(monitor_thread) /\ ~run
  BY <1>5 DEF Init, Running
<1>7. OneAtWork
  BY <1>2 DEF OneAtWork, Busy, Idle
<1>8. OneThread /\ AtRest
  BY <1>2, <1>5 DEF OneThread, AtRest
<1>9. Holding /\ Named
  <2>1. target = UShort(pid[tm])
    BY <1>1, Narrowed, IoctlAssumption DEF Init, TypeOK
  <2> QED
    BY <1>1, <1>2, <2>1 DEF Init, Holding, Named, Without, TypeOK, Names
<1>10. \A a \in Actors : AtWork(a)
  BY <1>2, <1>6 DEF AtWork, Waiting
<1> QED
  BY <1>1, <1>3, <1>4, <1>7, <1>8, <1>9, <1>10 DEF IInv, Orderly

LEMMA NextTypeOK == TypeOK /\ [Next]_vars => TypeOK'
<1> SUFFICES ASSUME TypeOK, [Next]_vars PROVE TypeOK'
  OBVIOUS
<1>1. CASE Next
  BY <1>1, ClientType, CallType, LoaderType, ThreadType
     DEF Next, Halted, TypeOK, ThreadsTypeOK, vars, threadVars, monitorVars, driverVars
<1>2. CASE UNCHANGED vars
  BY <1>2 DEF TypeOK, ThreadsTypeOK, vars, threadVars, monitorVars, driverVars
<1> QED
  BY <1>1, <1>2

LEMMA NextIInv == IInv /\ [Next]_vars => IInv'
<1> SUFFICES ASSUME IInv, [Next]_vars PROVE IInv'
  OBVIOUS
<1>1. TypeOK'
  BY NextTypeOK DEF IInv
<1>2. Places' /\ Fresh' /\ FaultInv'
  BY PlacesStep, FreshStep, FaultStep DEF IInv
<1>3. ASSUME Settled', fault' = "none" PROVE Orderly'
  <2>1. CASE UNCHANGED vars
    BY <1>3, <2>1 DEF IInv, Settled, Orderly, OneAtWork, OneThread, AtRest, Holding, Named,
          AtWork, ThreadAsRun, Busy, Running, vars, threadVars, monitorVars, driverVars, Names
  <2>2. CASE fault = "none" /\ Next
    <3>1. ASSUME mishap \subseteq mishap'
          PROVE  Orderly
      BY <1>3, <2>2, <3>1 DEF IInv, Settled
    <3>2. ASSUME NEW c \in Clients, ClientStep(c)
          PROVE  Orderly'
      BY <1>3, <3>1, <3>2, MishapsAdd, ClientInOrder DEF IInv
    <3>3. ASSUME NEW c \in Clients, Open(c) \/ Close(c) \/ Ioctl(c) \/ WrValue(c)
          PROVE  Orderly'
      <4>1. mishap \subseteq mishap'
        BY <3>3 DEF Open, Close, Ioctl, WrValue
      <4> QED
        BY <1>3, <3>1, <3>3, <4>1, CallInOrder DEF IInv
    <3>4. ASSUME LoaderStep
          PROVE  Orderly'
      BY <1>3, <3>1, <3>4, MishapsAdd, LoaderInOrder DEF IInv
    <3>5. ASSUME Exit
          PROVE  Orderly'
      BY <3>1, <3>5, ExitInOrder DEF IInv, Exit
    <3>6. ASSUME NEW t \in Threads, ThreadExit(t) \/ ThreadSample(t)
          PROVE  Orderly'
      BY <3>1, <3>6, ThreadInOrder DEF IInv, ThreadExit, ThreadSample
    <3> QED
      BY <2>1, <2>2, <3>2, <3>3, <3>4, <3>5, <3>6 DEF Next, Halted
  <2> QED
    BY <2>1, <2>2 DEF Next, Halted
<1> QED
  BY <1>1, <1>2, <1>3 DEF IInv

\* Every state keeps the order of IInv until two ioctls overlap or a pid does not
\* exist (etx_ioctl and monitor_pid, l.144-246).
THEOREM IoctlInvariance == Spec => []IInv
BY InitIInv, NextIInv, PTL DEF Spec

\* tm, target and value always name an object and processes there are, and an actor
\* waits for a thread that was made, whatever the clients of etx_ioctl do.
THEOREM IoctlTypeCorrect == Spec => []TypeOK
BY InitTypeOK, NextTypeOK, PTL DEF Spec

\* While no two ioctls overlap, every pid exists and kthread_run succeeds, the only
\* wrong access is to stop a thread that has ended (l.205, 252).
THEOREM NoOtherFault == Spec => []OrderedCallsAreSafe
<1>1. IInv => OrderedCallsAreSafe
  BY DEF IInv, FaultInv, OrderedCallsAreSafe
<1> QED
  BY <1>1, IoctlInvariance, PTL

\* Under the same conditions run tells, between two ioctls, whether the thread that
\* monitor_thread names is alive, and no other thread is (l.176-223).
THEOREM RunTells == Spec => []RunTracksThread
<1>1. IInv => RunTracksThread
  <2> SUFFICES ASSUME IInv, mishap = {}, pc[Loader] = "loaded", Busy = {},
                      NEW t \in Threads
               PROVE  Running(t) <=> run /\ t = monitor_thread
    BY DEF RunTracksThread
  <2>1. Orderly
    BY DEF IInv, FaultInv, Settled
  <2> QED
    BY <2>1 DEF Orderly, AtRest, ThreadAsRun, OneThread, Running
<1> QED
  BY <1>1, IoctlInvariance, PTL

\* Under the same conditions the thread samples, between two ioctls, the process that
\* target names, unless the number of that process needs more than the 16 bits of
\* target, which then keeps the low ones: TASKMON_SET_PID changes both, WR_VALUE
\* neither (l.204-219).
THEOREM SamplesTheTarget == Spec => []TargetIsMonitored
<1>1. IInv => TargetIsMonitored
  <2> SUFFICES ASSUME IInv, mishap = {}, pc[Loader] = "loaded", Busy = {}
               PROVE  \/ target = pid[tm]
                      \/ pid[tm] \notin UShorts /\ target = UShort(pid[tm])
    BY DEF TargetIsMonitored
  <2>1. Orderly
    BY DEF IInv, FaultInv, Settled
  <2>2. target = UShort(pid[tm])
    BY <2>1, NobodyAtIt DEF IInv
  <2>3. pid[tm] \in Int
    BY IoctlAssumption DEF IInv, TypeOK
  <2> QED
    BY <2>2, <2>3, Narrowed
<1> QED
  BY <1>1, IoctlInvariance, PTL

\* A module unloaded or rejected after orderly calls has given back every pid and tm,
\* even if threads were refused, and its threads have ended (l.250-266).
THEOREM GivesAllBack == Spec => []ResourcesReturned
<1>1. IInv => ResourcesReturned
  <2> SUFFICES ASSUME IInv, Settled, pc[Loader] \in {"failed", "unloaded"}, fault = "none"
               PROVE  held = {} /\ \A t \in Threads : ~Running(t)
    BY DEF ResourcesReturned, Settled
  <2>1. Orderly /\ Loader \in Actors
    BY DEF IInv, Actors
  <2> QED
    BY <2>1 DEF Orderly, Holding, Without, AtWork, OneThread
<1> QED
  BY <1>1, IoctlInvariance, PTL
=============================================================================
