------------------------- MODULE SysfsMonitorProofs -------------------------
(***************************************************************************)
(* Proofs about SysfsMonitor, for any number of writers and threads.  As   *)
(* long as no two operations overlap and the kernel refuses nothing, the   *)
(* place of the one actor at work tells whether the thread lives and what  *)
(* run says of it; that is the inductive invariant.  With it goes what the *)
(* driver has got of what it asked for (HeldInv), overlaps or not.         *)
(***************************************************************************)
EXTENDS SysfsMonitor, TLAPS

\* where the loader and the writers can be
Places ==
  /\ pc[Loader] \in {"create_thread", "create_file", "set_run", "r_sysfs", "register",
                     "loaded", "failed", "exit_stop", "wait", "free_tm", "remove_file",
                     "drain", "unregister", "unloaded"}
  /\ \A w \in Writers : pc[w] \in {"idle", "cmp_stop", "stop", "wait", "clear",
                                   "cmp_start", "start", "set"}
  /\ pc[Loader] \in {"register", "unregister"} => driver = "TP_07"

\* the file exists while the loader is between creating and removing it, and
\* exit has waited for its writers
FileInv ==
  /\ file => pc[Loader] \in {"set_run", "register", "loaded", "exit_stop", "wait",
                             "free_tm", "remove_file"}
  /\ pc[Loader] \in {"unregister", "unloaded"} => \A w \in Writers : pc[w] = "idle"

Fresh == \A t \in Threads : thread[t] = "none" => t \notin should_stop

\* one actor is at work at a time, and while a writer is the module is loaded
OneAtWork ==
  /\ \A a, b \in Busy : a = b
  /\ \A w \in Writers : pc[w] # "idle" => pc[Loader] = "loaded"
  /\ pc[Loader] \notin {"r_sysfs", "failed"}

\* no thread but the one in monitor_thread runs, and it is only asked to end by an
\* actor that waits for it
OneThread ==
  /\ \A t \in Threads : Running(t) => t = monitor_thread
  /\ \A t \in Threads : Running(t) /\ t \in should_stop
                          => \E a \in Actors : pc[a] = "wait"

\* what the place of an actor at work tells of run and of the thread
AtWork(a) ==
  /\ pc[a] \in {"create_thread", "start", "clear", "free_tm", "remove_file", "drain",
                "unregister", "unloaded"} => ~Running(monitor_thread)
  /\ pc[a] \in {"create_file", "set_run", "register", "stop", "set"} => Running(monitor_thread)
  /\ pc[a] \in {"create_thread", "create_file", "set_run", "start", "set"} => ~run
  /\ pc[a] \in {"register", "stop", "clear"} => run
  /\ pc[a] \in {"cmp_stop", "cmp_start", "exit_stop"} => (Running(monitor_thread) <=> run)
  /\ pc[a] = "wait" => target[a] = monitor_thread /\ (a \in Writers => run)

\* the same when no actor is at work
AtRest == pc[Loader] = "loaded" /\ Busy = {} => (Running(monitor_thread) <=> run)

Orderly ==
  /\ OneAtWork /\ OneThread /\ AtRest
  /\ \A a \in Actors : AtWork(a)
  /\ tm <=> pc[Loader] \notin {"remove_file", "drain", "unregister", "unloaded"}
  /\ pc[Loader] = "exit_stop" /\ driver = "TP_06" => run

FaultInv == mishap = {} /\ fault
              => pc[Loader] = "exit_stop" /\ driver = "TP_07" /\ ~run

IInv == /\ TypeOK /\ Places /\ FileInv /\ Fresh /\ FaultInv
        /\ mishap = {} /\ ~fault => Orderly

\* where a module is that has got its directory, and where one that has met RegisterShrinker
WithFile == {"set_run", "register", "loaded", "exit_stop", "wait", "free_tm", "remove_file"}
Registered == {"loaded", "exit_stop", "wait", "free_tm", "remove_file", "drain", "unregister"}

\* what the driver has got is what the kernel did not refuse, however operations overlap
HeldInv ==
  /\ pc[Loader] = "r_sysfs" => "no_file" \in mishap
  /\ "no_file" \in mishap
       => \/ pc[Loader] = "r_sysfs"
          \/ pc[Loader] \in Registered \ {"drain", "unregister"} /\ "directory" \notin held
  /\ "no_file" \notin mishap /\ pc[Loader] \in WithFile => "directory" \in held
  /\ "no_shrinker" \in mishap => /\ driver = "TP_07" /\ pc[Loader] \in Registered
                                 /\ "shrinker" \notin held
  /\ "shrinker" \in held => driver = "TP_07" /\ pc[Loader] \in Registered
  /\ mishap \cap {"no_file", "no_shrinker"} = {} /\ driver = "TP_07"
       => (pc[Loader] \in Registered => "shrinker" \in held)

-----------------------------------------------------------------------------

LEMMA InitIInv == Init => IInv
<1> SUFFICES ASSUME Init PROVE IInv
  OBVIOUS
<1>1. TypeOK
  BY ControlAssumption, ThreadsAssumption
     DEF Init, TypeOK, ThreadsInit, ThreadsTypeOK, Actors
<1>2. Places /\ FileInv /\ Fresh /\ FaultInv
  BY ControlAssumption DEF Init, ThreadsInit, Places, FileInv, Fresh, FaultInv, Actors
<1>3. Orderly
  BY ControlAssumption, ThreadsAssumption
     DEF Init, ThreadsInit, Orderly, OneAtWork, OneThread, AtWork, AtRest, Busy,
         Running, Threads, NoThread, Actors
<1> QED
  BY <1>1, <1>2, <1>3 DEF IInv

\* while a is at work, everybody else is idle or the module is loaded
LEMMA OthersRest == ASSUME TypeOK, Places, Orderly, NEW a \in Actors, a \in Busy
                    PROVE  \A b \in Actors \ {a} : pc[b] \in {"idle", "loaded"}
BY ControlAssumption DEF Places, Orderly, OneAtWork, Busy, Actors

\* kthread_stop works on a thread, or nothing but fault changes
LEMMA KthreadStopType ==
  ASSUME TypeOK, NEW a \in Actors, KthreadStop(a),
         UNCHANGED <<thread, monitor_thread, driverVars, mishap>>
  PROVE  TypeOK'
<1>1. CASE CanStop
  <2>1. monitor_thread \in Threads
    BY <1>1 DEF CanStop, Running
  <2>2. /\ should_stop' = should_stop \cup {monitor_thread}
        /\ target' = [target EXCEPT ![a] = monitor_thread]
        /\ pc' = [pc EXCEPT ![a] = "wait"]
        /\ UNCHANGED fault
    BY <1>1 DEF KthreadStop, AskToStop, Goto
  <2> QED
    BY <2>1, <2>2 DEF TypeOK, ThreadsTypeOK, driverVars
<1>2. CASE ~CanStop
  BY <1>2 DEF KthreadStop, TypeOK, ThreadsTypeOK, driverVars
<1> QED
  BY <1>1, <1>2

\* kthread_run names a thread in monitor_thread that nobody has stopped, or an error
LEMMA KthreadRunType ==
  ASSUME ThreadsTypeOK, Fresh, ThreadRuns \/ ThreadFails, UNCHANGED should_stop
  PROVE  ThreadsTypeOK' /\ Fresh'
<1>1. CASE ThreadRuns
  <2>1. PICK t \in Threads : /\ thread' = [thread EXCEPT ![t] = "running"]
                            /\ monitor_thread' = t
    BY <1>1 DEF ThreadRuns
  <2> QED
    BY <2>1 DEF ThreadsTypeOK, Fresh
<1>2. CASE ThreadFails
  BY <1>2 DEF ThreadFails, ThreadsTypeOK, Fresh
<1> QED
  BY <1>1, <1>2

\* a thread that kthread_run makes is the only one, and nobody has stopped it yet
LEMMA NewThread ==
  ASSUME TypeOK, Fresh, OneThread, ~Running(monitor_thread), ThreadRuns,
         UNCHANGED should_stop
  PROVE  /\ Running(monitor_thread)' /\ monitor_thread' \notin should_stop
         /\ \A t \in Threads : Running(t)' => t = monitor_thread'
<1>1. PICK t \in Threads : /\ \A u \in Threads : thread[u] = "none" <=> u >= t
                          /\ thread' = [thread EXCEPT ![t] = "running"]
                          /\ monitor_thread' = t
  BY DEF ThreadRuns
<1>2. thread[t] = "none"
  BY <1>1, ThreadsAssumption DEF Threads
<1>3. t \notin should_stop /\ thread'[t] = "running"
  BY <1>1, <1>2 DEF Fresh, TypeOK, ThreadsTypeOK
<1>4. ASSUME NEW u \in Threads, u # t
      PROVE  thread'[u] # "running"
  BY <1>1, <1>4 DEF TypeOK, ThreadsTypeOK, OneThread, Running
<1> QED
  BY <1>1, <1>3, <1>4 DEF Running

LEMMA CmpStopStep == ASSUME IInv, ~fault, NEW w \in Writers, CmpStop(w)
                 PROVE  IInv'
<1>1. TypeOK'
  BY ControlAssumption, ThreadsAssumption
     DEF IInv, CmpStop, Goto, threadVars, driverVars, TypeOK, ThreadsTypeOK, Actors,
         Busy, Running, Threads, NoThread
<1>2. Places' /\ FileInv' /\ Fresh'
  BY ControlAssumption
     DEF IInv, CmpStop, Goto, threadVars, driverVars, Places, FileInv, Fresh, TypeOK,
         ThreadsTypeOK, Actors, Running
<1>3. ASSUME mishap' = {}
      PROVE  Orderly /\ mishap = {}
  BY <1>3 DEF IInv, CmpStop, Goto, threadVars, driverVars
<1>4. FaultInv'
  BY <1>3
     DEF IInv, CmpStop, Goto, threadVars, driverVars, FaultInv, Orderly, OneThread,
         OneAtWork, AtWork, TypeOK, Actors, Running, KthreadStop, CanStop, Places
<1>5. ASSUME mishap' = {}, ~fault'
      PROVE  Orderly'
  <2>1. OneAtWork'
    BY <1>3, <1>5, ControlAssumption
       DEF IInv, CmpStop, Goto, threadVars, driverVars, TypeOK, Places, FileInv,
           Orderly, OneAtWork, Busy, Actors
  <2>2. OneThread'
    BY <1>3, <1>5, ControlAssumption, ThreadsAssumption
       DEF IInv, CmpStop, Goto, threadVars, driverVars, Fresh, TypeOK, ThreadsTypeOK,
           Orderly, OneAtWork, OneThread, AtWork, Busy, Actors, Running, Threads,
           NoThread
  <2>3. AtRest'
    BY <1>3, <1>5, <2>1, ControlAssumption, ThreadsAssumption
       DEF IInv, CmpStop, Goto, threadVars, driverVars, TypeOK, Places, ThreadsTypeOK,
           Orderly, OneAtWork, OneThread, AtWork, AtRest, Busy, Actors, Running,
           Threads, NoThread
  <2>4. ASSUME NEW a \in Actors
        PROVE  AtWork(a)'
    <3>1. /\ pc[w] = "cmp_stop" /\ AtWork(a)
          /\ pc' = [pc EXCEPT ![w] = pc'[w]] /\ pc'[w] \in {"stop", "cmp_start"}
          /\ pc'[w] = "stop" => run
          /\ UNCHANGED <<thread, monitor_thread, target, run>>
      BY <1>3, <1>5 DEF IInv, TypeOK, Actors, CmpStop, Goto, threadVars, driverVars, Orderly
    <3>2. CASE a = w
      BY <3>1, <3>2 DEF AtWork, Running
    <3>3. CASE a # w
      BY <3>1, <3>3 DEF AtWork, Running, IInv, TypeOK
    <3> QED
      BY <3>2, <3>3
  <2>5. /\ tm' <=> pc'[Loader] \notin {"remove_file", "drain", "unregister", "unloaded"}
        /\ pc'[Loader] = "exit_stop" /\ driver' = "TP_06" => run'
    BY <1>3, <1>5, ControlAssumption
       DEF IInv, CmpStop, Goto, threadVars, driverVars, TypeOK, Places, Orderly,
           OneAtWork, AtWork, Actors, Busy
  <2> QED
    BY <2>1, <2>2, <2>3, <2>4, <2>5 DEF Orderly
<1> QED
  BY <1>1, <1>2, <1>4, <1>5 DEF IInv

LEMMA StopStep == ASSUME IInv, ~fault, NEW w \in Writers, Stop(w)
                 PROVE  IInv'
<1>1. TypeOK'
  BY KthreadStopType DEF IInv, Stop, Actors
<1>2. Places' /\ FileInv' /\ Fresh'
  <2>1. CASE CanStop
    <3>1. /\ pc[w] = "stop" /\ pc' = [pc EXCEPT ![w] = "wait"]
          /\ should_stop' = should_stop \cup {monitor_thread}
          /\ UNCHANGED <<thread, file, driver>> /\ thread[monitor_thread] = "running"
      BY <2>1 DEF Stop, KthreadStop, CanStop, Running, AskToStop, Goto, driverVars
    <3>2. Places' /\ FileInv'
      BY <3>1, ControlAssumption DEF IInv, Places, FileInv, TypeOK, Actors
    <3>3. Fresh'
      BY <3>1 DEF IInv, Fresh
    <3> QED
      BY <3>2, <3>3
  <2>2. CASE ~CanStop
    BY <2>2 DEF Stop, KthreadStop, IInv, Places, FileInv, Fresh, driverVars
  <2> QED
    BY <2>1, <2>2
<1>3. ASSUME mishap' = {}
      PROVE  Orderly /\ mishap = {}
  BY <1>3 DEF IInv, Stop, Goto, KthreadStop, CanStop, AskToStop, threadVars, driverVars
<1>4. FaultInv'
  BY <1>3
     DEF IInv, Stop, Goto, KthreadStop, CanStop, AskToStop, threadVars, driverVars,
         FaultInv, Orderly, OneThread, OneAtWork, AtWork, TypeOK, Actors, Running,
         Places
<1>5. ASSUME mishap' = {}, ~fault'
      PROVE  Orderly'
  <2>0. /\ pc[w] = "stop"
        /\ pc' = [pc EXCEPT ![w] = "wait"]
        /\ should_stop' = should_stop \cup {monitor_thread}
        /\ target' = [target EXCEPT ![w] = monitor_thread]
        /\ UNCHANGED <<thread, monitor_thread, driver, run, tm, file>>
    BY <1>3, <1>5, ThreadsAssumption
       DEF IInv, Stop, Goto, KthreadStop, CanStop, AskToStop, threadVars, driverVars,
           TypeOK, ThreadsTypeOK, Orderly, AtWork, Actors, Threads, NoThread
  <2>a. /\ w \in Busy /\ w \in Actors
        /\ \A b \in Actors \ {w} : pc[b] \in {"idle", "loaded"}
    BY <1>3, <1>5, <2>0, OthersRest DEF IInv, Busy, Actors
  <2>b. \A b \in Actors \ {w} : pc'[b] = pc[b]
    BY <2>0, <2>a DEF IInv, TypeOK
  <2>c. TypeOK /\ Orderly /\ AtWork(w)
    BY <1>3, <1>5, <2>a DEF IInv, Orderly
  <2>1. OneAtWork'
    BY <2>0, <2>a, <2>b, <2>c, ControlAssumption
       DEF TypeOK, Orderly, OneAtWork, Busy, Actors
  <2>2. OneThread'
    BY <2>0, <2>a, <2>b, <2>c, ControlAssumption, ThreadsAssumption
       DEF IInv, ThreadRuns, Fresh, TypeOK, ThreadsTypeOK, Orderly, OneThread, AtWork,
           Running, Threads, NoThread
  <2>3. AtRest'
    BY <2>0, <2>a, <2>b, <2>c, ControlAssumption, ThreadsAssumption
       DEF ThreadRuns, TypeOK, ThreadsTypeOK, AtWork, AtRest, Busy, Running, Threads,
           NoThread, Actors
  <2>4. ASSUME NEW a \in Actors
        PROVE  AtWork(a)'
    <3>1. CASE a = w
      BY <3>1, <2>0, <2>a, <2>c, ControlAssumption, ThreadsAssumption
         DEF TypeOK, ThreadsTypeOK, ThreadRuns, AtWork, Running, Threads, NoThread,
             Actors
    <3>2. CASE a # w
      BY <3>2, <2>a, <2>b DEF AtWork
    <3> QED
      BY <3>1, <3>2
  <2>5. /\ tm' <=> pc'[Loader] \notin {"remove_file", "drain", "unregister", "unloaded"}
        /\ pc'[Loader] = "exit_stop" /\ driver' = "TP_06" => run'
    BY <2>0, <2>a, <2>b, <2>c, ControlAssumption DEF TypeOK, Orderly, Actors
  <2> QED
    BY <2>1, <2>2, <2>3, <2>4, <2>5 DEF Orderly
<1> QED
  BY <1>1, <1>2, <1>4, <1>5 DEF IInv

LEMMA StoppedStep == ASSUME IInv, ~fault, NEW w \in Writers, Stopped(w)
                 PROVE  IInv'
<1>1. TypeOK'
  BY ControlAssumption, ThreadsAssumption
     DEF IInv, Stopped, Goto, KthreadStopped, threadVars, driverVars, TypeOK,
         ThreadsTypeOK, Actors, Busy, Running, Threads, NoThread
<1>2. Places' /\ FileInv' /\ Fresh'
  BY ControlAssumption
     DEF IInv, Stopped, Goto, KthreadStopped, threadVars, driverVars, Places, FileInv,
         Fresh, TypeOK, ThreadsTypeOK, Actors, Running
<1>3. ASSUME mishap' = {}
      PROVE  Orderly /\ mishap = {}
  BY <1>3 DEF IInv, Stopped, Goto, KthreadStopped, threadVars, driverVars
<1>4. FaultInv'
  BY <1>3
     DEF IInv, Stopped, Goto, KthreadStopped, threadVars, driverVars, FaultInv, Orderly,
         OneThread, OneAtWork, AtWork, TypeOK, Actors, Running, KthreadStop, CanStop,
         Places
<1>5. ASSUME mishap' = {}, ~fault'
      PROVE  Orderly'
  <2>0. /\ pc[w] = "wait" /\ ~Running(target[w])
        /\ pc' = [pc EXCEPT ![w] = "clear"]
        /\ UNCHANGED <<thread, monitor_thread, should_stop, target, driver, run, tm, file>>
    BY <1>3, <1>5, ThreadsAssumption
       DEF IInv, Stopped, Goto, KthreadStopped, threadVars, driverVars, TypeOK,
           ThreadsTypeOK, Orderly, AtWork, Actors, Threads, NoThread
  <2>a. /\ w \in Busy /\ w \in Actors
        /\ \A b \in Actors \ {w} : pc[b] \in {"idle", "loaded"}
    BY <1>3, <1>5, <2>0, OthersRest DEF IInv, Busy, Actors
  <2>b. \A b \in Actors \ {w} : pc'[b] = pc[b]
    BY <2>0, <2>a DEF IInv, TypeOK
  <2>c. TypeOK /\ Orderly /\ AtWork(w)
    BY <1>3, <1>5, <2>a DEF IInv, Orderly
  <2>1. OneAtWork'
    BY <2>0, <2>a, <2>b, <2>c, ControlAssumption
       DEF TypeOK, Orderly, OneAtWork, Busy, Actors
  <2>2. OneThread'
    <3>1. ~Running(monitor_thread)
      BY <2>0, <2>c DEF AtWork
    <3>2. \A t \in Threads : ~Running(t)
      BY <2>c, <3>1 DEF Orderly, OneThread
    <3> QED
      BY <2>0, <3>2 DEF OneThread, Running
  <2>3. AtRest'
    BY <2>0, <2>a, <2>b, <2>c, ControlAssumption, ThreadsAssumption
       DEF ThreadRuns, TypeOK, ThreadsTypeOK, AtWork, AtRest, Busy, Running, Threads,
           NoThread, Actors
  <2>4. ASSUME NEW a \in Actors
        PROVE  AtWork(a)'
    <3>1. CASE a = w
      BY <3>1, <2>0, <2>a, <2>c, ControlAssumption, ThreadsAssumption
         DEF TypeOK, ThreadsTypeOK, ThreadRuns, AtWork, Running, Threads, NoThread,
             Actors
    <3>2. CASE a # w
      BY <3>2, <2>a, <2>b DEF AtWork
    <3> QED
      BY <3>1, <3>2
  <2>5. /\ tm' <=> pc'[Loader] \notin {"remove_file", "drain", "unregister", "unloaded"}
        /\ pc'[Loader] = "exit_stop" /\ driver' = "TP_06" => run'
    BY <2>0, <2>a, <2>b, <2>c, ControlAssumption DEF TypeOK, Orderly, Actors
  <2> QED
    BY <2>1, <2>2, <2>3, <2>4, <2>5 DEF Orderly
<1> QED
  BY <1>1, <1>2, <1>4, <1>5 DEF IInv

LEMMA ClearRunStep == ASSUME IInv, ~fault, NEW w \in Writers, ClearRun(w)
                 PROVE  IInv'
<1>1. TypeOK'
  BY ControlAssumption, ThreadsAssumption
     DEF IInv, ClearRun, Goto, Cleared, threadVars, driverVars, TypeOK, ThreadsTypeOK,
         Actors, Busy, Running, Threads, NoThread
<1>2. Places' /\ FileInv' /\ Fresh'
  BY ControlAssumption
     DEF IInv, ClearRun, Goto, Cleared, threadVars, driverVars, Places, FileInv, Fresh,
         TypeOK, ThreadsTypeOK, Actors, Running
<1>3. ASSUME mishap' = {}
      PROVE  Orderly /\ mishap = {}
  BY <1>3 DEF IInv, ClearRun, Goto, Cleared, threadVars, driverVars
<1>4. FaultInv'
  BY <1>3
     DEF IInv, ClearRun, Goto, Cleared, threadVars, driverVars, FaultInv, Orderly,
         OneThread, OneAtWork, AtWork, TypeOK, Actors, Running, KthreadStop, CanStop,
         Places
<1>5. ASSUME mishap' = {}, ~fault'
      PROVE  Orderly'
  <2>0. /\ pc[w] = "clear"
        /\ pc' = [pc EXCEPT ![w] = "cmp_start"]
        /\ run' = FALSE
        /\ UNCHANGED <<thread, monitor_thread, should_stop, target, driver, tm, file>>
    BY <1>3, <1>5, ThreadsAssumption
       DEF IInv, ClearRun, Goto, Cleared, threadVars, driverVars, TypeOK, ThreadsTypeOK,
           Orderly, AtWork, Actors, Threads, NoThread
  <2>a. /\ w \in Busy /\ w \in Actors
        /\ \A b \in Actors \ {w} : pc[b] \in {"idle", "loaded"}
    BY <1>3, <1>5, <2>0, OthersRest DEF IInv, Busy, Actors
  <2>b. \A b \in Actors \ {w} : pc'[b] = pc[b]
    BY <2>0, <2>a DEF IInv, TypeOK
  <2>c. TypeOK /\ Orderly /\ AtWork(w)
    BY <1>3, <1>5, <2>a DEF IInv, Orderly
  <2>1. OneAtWork'
    BY <2>0, <2>a, <2>b, <2>c, ControlAssumption
       DEF TypeOK, Orderly, OneAtWork, Busy, Actors
  <2>2. OneThread'
    BY <2>0, <2>a, <2>b, <2>c, ControlAssumption, ThreadsAssumption
       DEF IInv, ThreadRuns, Fresh, TypeOK, ThreadsTypeOK, Orderly, OneThread, AtWork,
           Running, Threads, NoThread
  <2>3. AtRest'
    BY <2>0, <2>a, <2>b, <2>c, ControlAssumption, ThreadsAssumption
       DEF ThreadRuns, TypeOK, ThreadsTypeOK, AtWork, AtRest, Busy, Running, Threads,
           NoThread, Actors
  <2>4. ASSUME NEW a \in Actors
        PROVE  AtWork(a)'
    <3>1. CASE a = w
      BY <3>1, <2>0, <2>a, <2>c, ControlAssumption, ThreadsAssumption
         DEF TypeOK, ThreadsTypeOK, ThreadRuns, AtWork, Running, Threads, NoThread,
             Actors
    <3>2. CASE a # w
      BY <3>2, <2>a, <2>b DEF AtWork
    <3> QED
      BY <3>1, <3>2
  <2>5. /\ tm' <=> pc'[Loader] \notin {"remove_file", "drain", "unregister", "unloaded"}
        /\ pc'[Loader] = "exit_stop" /\ driver' = "TP_06" => run'
    BY <2>0, <2>a, <2>b, <2>c, ControlAssumption DEF TypeOK, Orderly, Actors
  <2> QED
    BY <2>1, <2>2, <2>3, <2>4, <2>5 DEF Orderly
<1> QED
  BY <1>1, <1>2, <1>4, <1>5 DEF IInv

LEMMA CmpStartStep == ASSUME IInv, ~fault, NEW w \in Writers, CmpStart(w)
                 PROVE  IInv'
<1>1. TypeOK'
  BY ControlAssumption, ThreadsAssumption
     DEF IInv, CmpStart, Goto, threadVars, driverVars, TypeOK, ThreadsTypeOK, Actors,
         Busy, Running, Threads, NoThread
<1>2. Places' /\ FileInv' /\ Fresh'
  BY ControlAssumption
     DEF IInv, CmpStart, Goto, threadVars, driverVars, Places, FileInv, Fresh, TypeOK,
         ThreadsTypeOK, Actors, Running
<1>3. ASSUME mishap' = {}
      PROVE  Orderly /\ mishap = {}
  BY <1>3 DEF IInv, CmpStart, Goto, threadVars, driverVars
<1>4. FaultInv'
  BY <1>3
     DEF IInv, CmpStart, Goto, threadVars, driverVars, FaultInv, Orderly, OneThread,
         OneAtWork, AtWork, TypeOK, Actors, Running, KthreadStop, CanStop, Places
<1>5. ASSUME mishap' = {}, ~fault'
      PROVE  Orderly'
  <2>0. /\ pc[w] = "cmp_start"
        /\ (pc' = [pc EXCEPT ![w] = "start"] /\ ~run) \/ pc' = [pc EXCEPT ![w] = "idle"]
        /\ UNCHANGED <<thread, monitor_thread, should_stop, target, driver, run, tm, file>>
    BY <1>3, <1>5, ThreadsAssumption
       DEF IInv, CmpStart, Goto, threadVars, driverVars, TypeOK, ThreadsTypeOK, Orderly,
           AtWork, Actors, Threads, NoThread
  <2>a. /\ w \in Busy /\ w \in Actors
        /\ \A b \in Actors \ {w} : pc[b] \in {"idle", "loaded"}
    BY <1>3, <1>5, <2>0, OthersRest DEF IInv, Busy, Actors
  <2>b. \A b \in Actors \ {w} : pc'[b] = pc[b]
    BY <2>0, <2>a DEF IInv, TypeOK
  <2>c. TypeOK /\ Orderly /\ AtWork(w)
    BY <1>3, <1>5, <2>a DEF IInv, Orderly
  <2>1. OneAtWork'
    BY <2>0, <2>a, <2>b, <2>c, ControlAssumption
       DEF TypeOK, Orderly, OneAtWork, Busy, Actors
  <2>2. OneThread'
    BY <2>0, <2>a, <2>b, <2>c, ControlAssumption, ThreadsAssumption
       DEF IInv, ThreadRuns, Fresh, TypeOK, ThreadsTypeOK, Orderly, OneThread, AtWork,
           Running, Threads, NoThread
  <2>3. AtRest'
    BY <2>0, <2>a, <2>b, <2>c, ControlAssumption, ThreadsAssumption
       DEF ThreadRuns, TypeOK, ThreadsTypeOK, AtWork, AtRest, Busy, Running, Threads,
           NoThread, Actors
  <2>4. ASSUME NEW a \in Actors
        PROVE  AtWork(a)'
    <3>1. CASE a = w
      BY <3>1, <2>0, <2>a, <2>c, ControlAssumption, ThreadsAssumption
         DEF TypeOK, ThreadsTypeOK, ThreadRuns, AtWork, Running, Threads, NoThread,
             Actors
    <3>2. CASE a # w
      BY <3>2, <2>a, <2>b DEF AtWork
    <3> QED
      BY <3>1, <3>2
  <2>5. /\ tm' <=> pc'[Loader] \notin {"remove_file", "drain", "unregister", "unloaded"}
        /\ pc'[Loader] = "exit_stop" /\ driver' = "TP_06" => run'
    BY <2>0, <2>a, <2>b, <2>c, ControlAssumption DEF TypeOK, Orderly, Actors
  <2> QED
    BY <2>1, <2>2, <2>3, <2>4, <2>5 DEF Orderly
<1> QED
  BY <1>1, <1>2, <1>4, <1>5 DEF IInv

LEMMA StartStep == ASSUME IInv, ~fault, NEW w \in Writers, Start(w)
                 PROVE  IInv'
<1>1. ThreadsTypeOK' /\ Fresh'
  BY KthreadRunType DEF IInv, TypeOK, Start, KthreadRun
<1>2. TypeOK' /\ Places' /\ FileInv'
  BY <1>1, ControlAssumption
     DEF IInv, TypeOK, Places, FileInv, Start, KthreadRun, Goto, driverVars, Actors
<1>3. ASSUME mishap' = {}
      PROVE  Orderly /\ mishap = {} /\ ThreadRuns
  BY <1>3 DEF IInv, Start, KthreadRun
<1>4. FaultInv'
  BY <1>3 DEF IInv, FaultInv, Start
<1>5. ASSUME mishap' = {}, ~fault'
      PROVE  Orderly'
  <2>0. /\ pc[w] = "start"
        /\ pc' = [pc EXCEPT ![w] = "set"]
        /\ ThreadRuns
        /\ UNCHANGED <<should_stop, target, driver, run, tm, file>>
    BY <1>3, <1>5 DEF Start, Goto, driverVars
  <2>a. /\ w \in Busy /\ w \in Actors
        /\ \A b \in Actors \ {w} : pc[b] \in {"idle", "loaded"}
    BY <1>3, <1>5, <2>0, OthersRest DEF IInv, Busy, Actors
  <2>b. \A b \in Actors \ {w} : pc'[b] = pc[b]
    BY <2>0, <2>a DEF IInv, TypeOK
  <2>c. TypeOK /\ Orderly /\ AtWork(w)
    BY <1>3, <1>5, <2>a DEF IInv, Orderly
  <2>1. OneAtWork'
    BY <2>0, <2>a, <2>b, <2>c, ControlAssumption
       DEF TypeOK, Orderly, OneAtWork, Busy, Actors
  <2>t. /\ Running(monitor_thread)' /\ monitor_thread' \notin should_stop
        /\ \A t \in Threads : Running(t)' => t = monitor_thread'
    BY <2>0, <2>c, NewThread DEF IInv, Orderly, AtWork
  <2>2. OneThread'
    BY <2>0, <2>t DEF OneThread
  <2>p. pc'[w] = "set" /\ ~run'
    BY <2>0, <2>a, <2>c DEF TypeOK, AtWork
  <2>3. AtRest'
    BY <2>p, <2>a, ControlAssumption DEF AtRest, Busy
  <2>4. ASSUME NEW b \in Actors
        PROVE  AtWork(b)'
    <3>1. CASE b = w
      BY <3>1, <2>t, <2>p DEF AtWork
    <3>2. CASE b # w
      BY <3>2, <2>a, <2>b DEF AtWork
    <3> QED
      BY <3>1, <3>2
  <2>5. /\ tm' <=> pc'[Loader] \notin {"remove_file", "drain", "unregister", "unloaded"}
        /\ pc'[Loader] = "exit_stop" /\ driver' = "TP_06" => run'
    BY <2>0, <2>a, <2>b, <2>c, ControlAssumption DEF TypeOK, Orderly, Actors
  <2> QED
    BY <2>1, <2>2, <2>3, <2>4, <2>5 DEF Orderly
<1> QED
  BY <1>1, <1>2, <1>4, <1>5 DEF IInv

LEMMA SetRunningStep == ASSUME IInv, ~fault, NEW w \in Writers, SetRunning(w)
                 PROVE  IInv'
<1>1. TypeOK'
  BY ControlAssumption, ThreadsAssumption
     DEF IInv, SetRunning, Goto, threadVars, driverVars, TypeOK, ThreadsTypeOK, Actors,
         Busy, Running, Threads, NoThread
<1>2. Places' /\ FileInv' /\ Fresh'
  BY ControlAssumption
     DEF IInv, SetRunning, Goto, threadVars, driverVars, Places, FileInv, Fresh, TypeOK,
         ThreadsTypeOK, Actors, Running
<1>3. ASSUME mishap' = {}
      PROVE  Orderly /\ mishap = {}
  BY <1>3 DEF IInv, SetRunning, Goto, threadVars, driverVars
<1>4. FaultInv'
  BY <1>3
     DEF IInv, SetRunning, Goto, threadVars, driverVars, FaultInv, Orderly, OneThread,
         OneAtWork, AtWork, TypeOK, Actors, Running, KthreadStop, CanStop, Places
<1>5. ASSUME mishap' = {}, ~fault'
      PROVE  Orderly'
  <2>0. /\ pc[w] = "set"
        /\ pc' = [pc EXCEPT ![w] = "idle"]
        /\ run' = TRUE
        /\ UNCHANGED <<thread, monitor_thread, should_stop, target, driver, tm, file>>
    BY <1>3, <1>5, ThreadsAssumption
       DEF IInv, SetRunning, Goto, threadVars, driverVars, TypeOK, ThreadsTypeOK,
           Orderly, AtWork, Actors, Threads, NoThread
  <2>a. /\ w \in Busy /\ w \in Actors
        /\ \A b \in Actors \ {w} : pc[b] \in {"idle", "loaded"}
    BY <1>3, <1>5, <2>0, OthersRest DEF IInv, Busy, Actors
  <2>b. \A b \in Actors \ {w} : pc'[b] = pc[b]
    BY <2>0, <2>a DEF IInv, TypeOK
  <2>c. TypeOK /\ Orderly /\ AtWork(w)
    BY <1>3, <1>5, <2>a DEF IInv, Orderly
  <2>1. OneAtWork'
    BY <2>0, <2>a, <2>b, <2>c, ControlAssumption
       DEF TypeOK, Orderly, OneAtWork, Busy, Actors
  <2>2. OneThread'
    BY <2>0, <2>a, <2>b, <2>c, ControlAssumption, ThreadsAssumption
       DEF IInv, ThreadRuns, Fresh, TypeOK, ThreadsTypeOK, Orderly, OneThread, AtWork,
           Running, Threads, NoThread
  <2>3. AtRest'
    BY <2>0, <2>a, <2>b, <2>c, ControlAssumption, ThreadsAssumption
       DEF ThreadRuns, TypeOK, ThreadsTypeOK, AtWork, AtRest, Busy, Running, Threads,
           NoThread, Actors
  <2>4. ASSUME NEW a \in Actors
        PROVE  AtWork(a)'
    <3>1. CASE a = w
      BY <3>1, <2>0, <2>a, <2>c, ControlAssumption, ThreadsAssumption
         DEF TypeOK, ThreadsTypeOK, ThreadRuns, AtWork, Running, Threads, NoThread,
             Actors
    <3>2. CASE a # w
      BY <3>2, <2>a, <2>b DEF AtWork
    <3> QED
      BY <3>1, <3>2
  <2>5. /\ tm' <=> pc'[Loader] \notin {"remove_file", "drain", "unregister", "unloaded"}
        /\ pc'[Loader] = "exit_stop" /\ driver' = "TP_06" => run'
    BY <2>0, <2>a, <2>b, <2>c, ControlAssumption DEF TypeOK, Orderly, Actors
  <2> QED
    BY <2>1, <2>2, <2>3, <2>4, <2>5 DEF Orderly
<1> QED
  BY <1>1, <1>2, <1>4, <1>5 DEF IInv

LEMMA CreateThreadStep == ASSUME IInv, ~fault, CreateThread
                 PROVE  IInv'
<1>1. ThreadsTypeOK' /\ Fresh'
  BY KthreadRunType DEF IInv, TypeOK, CreateThread, KthreadRun
<1>2. TypeOK' /\ Places' /\ FileInv'
  <2>1. TypeOK'
    BY <1>1, ControlAssumption
       DEF IInv, TypeOK, CreateThread, KthreadRun, Goto, driverVars, Actors
  <2>2. /\ pc'[Loader] \in {"failed", "create_file"} /\ file' = file
        /\ \A w \in Writers : pc'[w] = pc[w]
    BY ControlAssumption DEF IInv, TypeOK, CreateThread, Goto, Actors
  <2>3. Places' BY <2>2 DEF IInv, Places
  <2>4. pc[Loader] = "create_thread" /\ ~file
    BY DEF CreateThread, IInv, FileInv, TypeOK
  <2>5. FileInv' BY <2>2, <2>4 DEF FileInv
  <2> QED BY <2>1, <2>3, <2>5
<1>3. ASSUME mishap' = {}
      PROVE  Orderly /\ mishap = {} /\ ThreadRuns
  BY <1>3 DEF IInv, CreateThread, KthreadRun
<1>4. FaultInv'
  BY <1>3 DEF IInv, FaultInv, CreateThread
<1>5. ASSUME mishap' = {}, ~fault'
      PROVE  Orderly'
  <2>0. /\ pc[Loader] = "create_thread"
        /\ pc' = [pc EXCEPT ![Loader] = "create_file"]
        /\ ThreadRuns
        /\ UNCHANGED <<should_stop, target, driver, run, tm, file>>
    <3>1. monitor_thread' # NoThread
      BY <1>3, <1>5, ThreadsAssumption DEF ThreadRuns, Threads, NoThread
    <3> QED
      BY <1>3, <1>5, <3>1 DEF CreateThread, Goto
  <2>a. /\ Loader \in Busy /\ Loader \in Actors
        /\ \A b \in Actors \ {Loader} : pc[b] \in {"idle", "loaded"}
    BY <1>3, <1>5, <2>0, OthersRest DEF IInv, Busy, Actors
  <2>b. \A b \in Actors \ {Loader} : pc'[b] = pc[b]
    BY <2>0, <2>a DEF IInv, TypeOK
  <2>c. TypeOK /\ Orderly /\ AtWork(Loader)
    BY <1>3, <1>5, <2>a DEF IInv, Orderly
  <2>1. OneAtWork'
    BY <2>0, <2>a, <2>b, <2>c, ControlAssumption
       DEF TypeOK, Orderly, OneAtWork, Busy, Actors
  <2>t. /\ Running(monitor_thread)' /\ monitor_thread' \notin should_stop
        /\ \A t \in Threads : Running(t)' => t = monitor_thread'
    BY <2>0, <2>c, NewThread DEF IInv, Orderly, AtWork
  <2>2. OneThread'
    BY <2>0, <2>t DEF OneThread
  <2>p. pc'[Loader] = "create_file" /\ ~run'
    BY <2>0, <2>a, <2>c DEF TypeOK, AtWork
  <2>3. AtRest'
    BY <2>p, <2>a, ControlAssumption DEF AtRest, Busy
  <2>4. ASSUME NEW b \in Actors
        PROVE  AtWork(b)'
    <3>1. CASE b = Loader
      BY <3>1, <2>t, <2>p DEF AtWork
    <3>2. CASE b # Loader
      BY <3>2, <2>a, <2>b DEF AtWork
    <3> QED
      BY <3>1, <3>2
  <2>5. /\ tm' <=> pc'[Loader] \notin {"remove_file", "drain", "unregister", "unloaded"}
        /\ pc'[Loader] = "exit_stop" /\ driver' = "TP_06" => run'
    BY <2>0, <2>a, <2>b, <2>c, ControlAssumption DEF TypeOK, Orderly, Actors
  <2> QED
    BY <2>1, <2>2, <2>3, <2>4, <2>5 DEF Orderly
<1> QED
  BY <1>1, <1>2, <1>4, <1>5 DEF IInv

LEMMA CreateFileStep == ASSUME IInv, ~fault, CreateFile
                 PROVE  IInv'
<1>1. TypeOK'
  BY ControlAssumption, ThreadsAssumption
     DEF IInv, CreateFile, Goto, threadVars, driverVars, TypeOK, ThreadsTypeOK, Actors,
         Busy, Running, Threads, NoThread
<1>2. Places' /\ FileInv' /\ Fresh'
  BY ControlAssumption
     DEF IInv, CreateFile, Goto, threadVars, driverVars, Places, FileInv, Fresh, TypeOK,
         ThreadsTypeOK, Actors, Running
<1>3. ASSUME mishap' = {}
      PROVE  Orderly /\ mishap = {}
  BY <1>3 DEF IInv, CreateFile, Goto, threadVars, driverVars
<1>4. FaultInv'
  BY <1>3
     DEF IInv, CreateFile, Goto, threadVars, driverVars, FaultInv, Orderly, OneThread,
         OneAtWork, AtWork, TypeOK, Actors, Running, KthreadStop, CanStop, Places
<1>5. ASSUME mishap' = {}, ~fault'
      PROVE  Orderly'
  <2>0. /\ pc[Loader] = "create_file"
        /\ pc' = [pc EXCEPT ![Loader] = "set_run"]
        /\ UNCHANGED <<thread, monitor_thread, should_stop, target, driver, run, tm>>
    BY <1>3, <1>5, ThreadsAssumption
       DEF IInv, CreateFile, Goto, threadVars, driverVars, TypeOK, ThreadsTypeOK,
           Orderly, AtWork, Actors, Threads, NoThread
  <2>a. /\ Loader \in Busy /\ Loader \in Actors
        /\ \A b \in Actors \ {Loader} : pc[b] \in {"idle", "loaded"}
    BY <1>3, <1>5, <2>0, OthersRest DEF IInv, Busy, Actors
  <2>b. \A b \in Actors \ {Loader} : pc'[b] = pc[b]
    BY <2>0, <2>a DEF IInv, TypeOK
  <2>c. TypeOK /\ Orderly /\ AtWork(Loader)
    BY <1>3, <1>5, <2>a DEF IInv, Orderly
  <2>1. OneAtWork'
    BY <2>0, <2>a, <2>b, <2>c, ControlAssumption
       DEF TypeOK, Orderly, OneAtWork, Busy, Actors
  <2>2. OneThread'
    BY <2>0, <2>a, <2>b, <2>c, ControlAssumption, ThreadsAssumption
       DEF IInv, ThreadRuns, Fresh, TypeOK, ThreadsTypeOK, Orderly, OneThread, AtWork,
           Running, Threads, NoThread
  <2>3. AtRest'
    BY <2>0, <2>a, <2>b, <2>c, ControlAssumption, ThreadsAssumption
       DEF ThreadRuns, TypeOK, ThreadsTypeOK, AtWork, AtRest, Busy, Running, Threads,
           NoThread, Actors
  <2>4. ASSUME NEW a \in Actors
        PROVE  AtWork(a)'
    <3>1. CASE a = Loader
      BY <3>1, <2>0, <2>a, <2>c, ControlAssumption, ThreadsAssumption
         DEF TypeOK, ThreadsTypeOK, ThreadRuns, AtWork, Running, Threads, NoThread,
             Actors
    <3>2. CASE a # Loader
      BY <3>2, <2>a, <2>b DEF AtWork
    <3> QED
      BY <3>1, <3>2
  <2>5. /\ tm' <=> pc'[Loader] \notin {"remove_file", "drain", "unregister", "unloaded"}
        /\ pc'[Loader] = "exit_stop" /\ driver' = "TP_06" => run'
    BY <2>0, <2>a, <2>b, <2>c, ControlAssumption DEF TypeOK, Orderly, Actors
  <2> QED
    BY <2>1, <2>2, <2>3, <2>4, <2>5 DEF Orderly
<1> QED
  BY <1>1, <1>2, <1>4, <1>5 DEF IInv

LEMMA SetRunStep == ASSUME IInv, ~fault, SetRun
                 PROVE  IInv'
<1>1. TypeOK'
  BY ControlAssumption, ThreadsAssumption
     DEF IInv, SetRun, Goto, threadVars, driverVars, TypeOK, ThreadsTypeOK, Actors,
         Busy, Running, Threads, NoThread
<1>2. Places' /\ FileInv' /\ Fresh'
  BY ControlAssumption
     DEF IInv, SetRun, Goto, threadVars, driverVars, Places, FileInv, Fresh, TypeOK,
         ThreadsTypeOK, Actors, Running
<1>3. ASSUME mishap' = {}
      PROVE  Orderly /\ mishap = {}
  BY <1>3 DEF IInv, SetRun, Goto, threadVars, driverVars
<1>4. FaultInv'
  BY <1>3
     DEF IInv, SetRun, Goto, threadVars, driverVars, FaultInv, Orderly, OneThread,
         OneAtWork, AtWork, TypeOK, Actors, Running, KthreadStop, CanStop, Places
<1>5. ASSUME mishap' = {}, ~fault'
      PROVE  Orderly'
  <2>1. OneAtWork'
    BY <1>3, <1>5, ControlAssumption
       DEF IInv, SetRun, Goto, threadVars, driverVars, TypeOK, Places, FileInv, Orderly,
           OneAtWork, Busy, Actors
  <2>2. OneThread'
    BY <1>3, <1>5, ControlAssumption, ThreadsAssumption
       DEF IInv, SetRun, Goto, threadVars, driverVars, Fresh, TypeOK, ThreadsTypeOK,
           Orderly, OneAtWork, OneThread, AtWork, Busy, Actors, Running, Threads,
           NoThread
  <2>3. AtRest'
    BY <1>3, <1>5, <2>1, ControlAssumption, ThreadsAssumption
       DEF IInv, SetRun, Goto, threadVars, driverVars, TypeOK, Places, ThreadsTypeOK,
           Orderly, OneAtWork, OneThread, AtWork, AtRest, Busy, Actors, Running,
           Threads, NoThread
  <2>4. ASSUME NEW a \in Actors
        PROVE  AtWork(a)'
    <3>1. PICK l \in {"register", "loaded"} :
            pc[Loader] = "set_run" /\ pc' = [pc EXCEPT ![Loader] = l]
      BY DEF SetRun, Goto
    <3>2. Loader \in Busy /\ Loader \in Actors
      BY <3>1 DEF Busy, Actors
    <3>3. \A b \in Actors : (b = Loader /\ pc'[b] = "register") \/ pc'[b] \in {"idle", "loaded"}
      BY <1>3, <1>5, <3>1, <3>2, OthersRest DEF IInv, TypeOK
    <3>4. Running(monitor_thread) /\ UNCHANGED <<thread, monitor_thread>> /\ run'
      BY <1>3, <1>5, <3>1, <3>2 DEF IInv, Orderly, AtWork, SetRun, threadVars
    <3> QED
      BY <3>3, <3>4 DEF AtWork, Running
  <2>5. /\ tm' <=> pc'[Loader] \notin {"remove_file", "drain", "unregister", "unloaded"}
        /\ pc'[Loader] = "exit_stop" /\ driver' = "TP_06" => run'
    BY <1>3, <1>5, ControlAssumption
       DEF IInv, SetRun, Goto, threadVars, driverVars, TypeOK, Places, Orderly,
           OneAtWork, AtWork, Actors, Busy
  <2> QED
    BY <2>1, <2>2, <2>3, <2>4, <2>5 DEF Orderly
<1> QED
  BY <1>1, <1>2, <1>4, <1>5 DEF IInv

LEMMA RegisterStep == ASSUME IInv, ~fault, RegisterShrinker
                 PROVE  IInv'
<1>1. TypeOK'
  BY ControlAssumption, ThreadsAssumption
     DEF IInv, RegisterShrinker, Goto, threadVars, driverVars, TypeOK, ThreadsTypeOK, Actors,
         Busy, Running, Threads, NoThread
<1>2. Places' /\ FileInv' /\ Fresh'
  BY ControlAssumption
     DEF IInv, RegisterShrinker, Goto, threadVars, driverVars, Places, FileInv, Fresh, TypeOK,
         ThreadsTypeOK, Actors, Running
<1>3. ASSUME mishap' = {}
      PROVE  Orderly /\ mishap = {}
  BY <1>3 DEF IInv, RegisterShrinker, Goto, threadVars, driverVars
<1>4. FaultInv'
  BY <1>3
     DEF IInv, RegisterShrinker, Goto, threadVars, driverVars, FaultInv, Orderly, OneThread,
         OneAtWork, AtWork, TypeOK, Actors, Running, KthreadStop, CanStop, Places
<1>5. ASSUME mishap' = {}, ~fault'
      PROVE  Orderly'
  <2>1. OneAtWork'
    BY <1>3, <1>5, ControlAssumption
       DEF IInv, RegisterShrinker, Goto, threadVars, driverVars, TypeOK, Places, FileInv, Orderly,
           OneAtWork, Busy, Actors
  <2>2. OneThread'
    BY <1>3, <1>5, ControlAssumption, ThreadsAssumption
       DEF IInv, RegisterShrinker, Goto, threadVars, driverVars, Fresh, TypeOK, ThreadsTypeOK,
           Orderly, OneAtWork, OneThread, AtWork, Busy, Actors, Running, Threads,
           NoThread
  <2>3. AtRest'
    BY <1>3, <1>5, <2>1, ControlAssumption, ThreadsAssumption
       DEF IInv, RegisterShrinker, Goto, threadVars, driverVars, TypeOK, Places, ThreadsTypeOK,
           Orderly, OneAtWork, OneThread, AtWork, AtRest, Busy, Actors, Running,
           Threads, NoThread
  <2>4. ASSUME NEW a \in Actors
        PROVE  AtWork(a)'
    <3>1. pc[Loader] = "register" /\ pc' = [pc EXCEPT ![Loader] = "loaded"]
      BY DEF RegisterShrinker, Goto
    <3>2. Loader \in Busy /\ Loader \in Actors
      BY <3>1 DEF Busy, Actors
    <3>3. \A b \in Actors : pc'[b] \in {"idle", "loaded"}
      BY <1>3, <1>5, <3>1, <3>2, OthersRest DEF IInv, TypeOK
    <3> QED
      BY <3>3 DEF AtWork
  <2>5. /\ tm' <=> pc'[Loader] \notin {"remove_file", "drain", "unregister", "unloaded"}
        /\ pc'[Loader] = "exit_stop" /\ driver' = "TP_06" => run'
    BY <1>3, <1>5, ControlAssumption
       DEF IInv, RegisterShrinker, Goto, threadVars, driverVars, TypeOK, Places, Orderly,
           OneAtWork, AtWork, Actors, Busy
  <2> QED
    BY <2>1, <2>2, <2>3, <2>4, <2>5 DEF Orderly
<1> QED
  BY <1>1, <1>2, <1>4, <1>5 DEF IInv

LEMMA RSysfsStep == ASSUME IInv, ~fault, RSysfs
                 PROVE  IInv'
<1>1. TypeOK'
  BY ControlAssumption, ThreadsAssumption
     DEF IInv, RSysfs, Goto, threadVars, driverVars, TypeOK, ThreadsTypeOK, Actors,
         Busy, Running, Threads, NoThread
<1>2. Places' /\ FileInv' /\ Fresh'
  BY ControlAssumption
     DEF IInv, RSysfs, Goto, threadVars, driverVars, Places, FileInv, Fresh, TypeOK,
         ThreadsTypeOK, Actors, Running
<1>3. ASSUME mishap' = {}
      PROVE  Orderly /\ mishap = {}
  BY <1>3 DEF IInv, RSysfs, Goto, threadVars, driverVars
<1>4. FaultInv'
  BY <1>3
     DEF IInv, RSysfs, Goto, threadVars, driverVars, FaultInv, Orderly, OneThread,
         OneAtWork, AtWork, TypeOK, Actors, Running, KthreadStop, CanStop, Places
<1>5. ASSUME mishap' = {}, ~fault'
      PROVE  Orderly'
  <2>1. OneAtWork'
    BY <1>3, <1>5, ControlAssumption
       DEF IInv, RSysfs, Goto, threadVars, driverVars, TypeOK, Places, FileInv, Orderly,
           OneAtWork, Busy, Actors
  <2>2. OneThread'
    BY <1>3, <1>5, ControlAssumption, ThreadsAssumption
       DEF IInv, RSysfs, Goto, threadVars, driverVars, Fresh, TypeOK, ThreadsTypeOK,
           Orderly, OneAtWork, OneThread, AtWork, Busy, Actors, Running, Threads,
           NoThread
  <2>3. AtRest'
    BY <1>3, <1>5, <2>1, ControlAssumption, ThreadsAssumption
       DEF IInv, RSysfs, Goto, threadVars, driverVars, TypeOK, Places, ThreadsTypeOK,
           Orderly, OneAtWork, OneThread, AtWork, AtRest, Busy, Actors, Running,
           Threads, NoThread
  <2>4. ASSUME NEW a \in Actors
        PROVE  AtWork(a)'
    BY <1>3, <1>5, <2>1, ControlAssumption, ThreadsAssumption
       DEF IInv, RSysfs, Goto, threadVars, driverVars, TypeOK, Places, FileInv,
           ThreadsTypeOK, Orderly, OneAtWork, OneThread, AtWork, AtRest, Busy, Actors,
           Running, Threads, NoThread
  <2>5. /\ tm' <=> pc'[Loader] \notin {"remove_file", "drain", "unregister", "unloaded"}
        /\ pc'[Loader] = "exit_stop" /\ driver' = "TP_06" => run'
    BY <1>3, <1>5, ControlAssumption
       DEF IInv, RSysfs, Goto, threadVars, driverVars, TypeOK, Places, Orderly,
           OneAtWork, AtWork, Actors, Busy
  <2> QED
    BY <2>1, <2>2, <2>3, <2>4, <2>5 DEF Orderly
<1> QED
  BY <1>1, <1>2, <1>4, <1>5 DEF IInv

LEMMA ExitStep == ASSUME IInv, ~fault, Exit
                 PROVE  IInv'
<1>1. TypeOK'
  BY ControlAssumption, ThreadsAssumption
     DEF IInv, Exit, Goto, ExitStops, threadVars, driverVars, TypeOK, ThreadsTypeOK,
         Actors, Busy, Running, Threads, NoThread
<1>2. Places' /\ FileInv' /\ Fresh'
  BY ControlAssumption
     DEF IInv, Exit, Goto, ExitStops, threadVars, driverVars, Places, FileInv, Fresh,
         TypeOK, ThreadsTypeOK, Actors, Running
<1>3. ASSUME mishap' = {}
      PROVE  Orderly /\ mishap = {}
  BY <1>3 DEF IInv, Exit, Goto, ExitStops, threadVars, driverVars
<1>4. FaultInv'
  BY <1>3
     DEF IInv, Exit, Goto, ExitStops, threadVars, driverVars, FaultInv, Orderly,
         OneThread, OneAtWork, AtWork, TypeOK, Actors, Running, KthreadStop, CanStop,
         Places
<1>5. ASSUME mishap' = {}, ~fault'
      PROVE  Orderly'
  <2>1. OneAtWork'
    BY <1>3, <1>5, ControlAssumption
       DEF IInv, Exit, Goto, ExitStops, threadVars, driverVars, TypeOK, Places, FileInv,
           Orderly, OneAtWork, Busy, Actors
  <2>2. OneThread'
    BY <1>3, <1>5, ControlAssumption, ThreadsAssumption
       DEF IInv, Exit, Goto, ExitStops, threadVars, driverVars, Fresh, TypeOK,
           ThreadsTypeOK, Orderly, OneAtWork, OneThread, AtWork, Busy, Actors, Running,
           Threads, NoThread
  <2>3. AtRest'
    BY <1>3, <1>5, <2>1, ControlAssumption, ThreadsAssumption
       DEF IInv, Exit, Goto, ExitStops, threadVars, driverVars, TypeOK, Places,
           ThreadsTypeOK, Orderly, OneAtWork, OneThread, AtWork, AtRest, Busy, Actors,
           Running, Threads, NoThread
  <2>4. ASSUME NEW a \in Actors
        PROVE  AtWork(a)'
    <3>1. /\ Busy = {} /\ pc[Loader] = "loaded" /\ AtRest
          /\ UNCHANGED <<thread, monitor_thread, target, run>>
      BY <1>3, <1>5 DEF Exit, threadVars, driverVars, Orderly
    <3>2. PICK l \in {"exit_stop", "free_tm"} :
            /\ pc' = [pc EXCEPT ![Loader] = l]
            /\ l = "free_tm" => ~ExitStops
      BY DEF Exit, Goto
    <3>3. CASE a = Loader
      <4>1. pc'[a] = l BY <3>2, <3>3 DEF IInv, TypeOK
      <4>2. Running(monitor_thread) <=> run BY <3>1 DEF AtRest
      <4>3. l = "free_tm" => ~run BY <3>2 DEF ExitStops
      <4> QED BY <3>1, <3>2, <4>1, <4>2, <4>3 DEF AtWork, Running
    <3>4. CASE a # Loader
      <4>1. pc'[a] = "idle" BY <3>1, <3>2, <3>4 DEF Busy, IInv, TypeOK, Places, Actors
      <4> QED BY <4>1 DEF AtWork
    <3> QED BY <3>3, <3>4
  <2>5. /\ tm' <=> pc'[Loader] \notin {"remove_file", "drain", "unregister", "unloaded"}
        /\ pc'[Loader] = "exit_stop" /\ driver' = "TP_06" => run'
    BY <1>3, <1>5, ControlAssumption
       DEF IInv, Exit, Goto, ExitStops, threadVars, driverVars, TypeOK, Places, Orderly,
           OneAtWork, AtWork, Actors, Busy
  <2> QED
    BY <2>1, <2>2, <2>3, <2>4, <2>5 DEF Orderly
<1> QED
  BY <1>1, <1>2, <1>4, <1>5 DEF IInv

LEMMA ExitStopStep == ASSUME IInv, ~fault, ExitStop
                 PROVE  IInv'
<1>1. TypeOK'
  BY KthreadStopType DEF IInv, ExitStop, Actors
<1>2. Places' /\ FileInv' /\ Fresh'
  BY ControlAssumption
     DEF IInv, ExitStop, Goto, KthreadStop, CanStop, AskToStop, threadVars, driverVars,
         Places, FileInv, Fresh, TypeOK, ThreadsTypeOK, Actors, Running
<1>3. ASSUME mishap' = {}
      PROVE  Orderly /\ mishap = {}
  BY <1>3
     DEF IInv, ExitStop, Goto, KthreadStop, CanStop, AskToStop, threadVars, driverVars
<1>4. FaultInv'
  <2>1. CASE CanStop
    BY <2>1 DEF ExitStop, KthreadStop, FaultInv
  <2>2. CASE ~CanStop
    <3>1. SUFFICES ASSUME mishap' = {}
                   PROVE  pc'[Loader] = "exit_stop" /\ driver' = "TP_07" /\ ~run'
      BY DEF FaultInv
    <3>2. AtWork(Loader) /\ (driver = "TP_06" => run) /\ pc[Loader] = "exit_stop"
      BY <1>3, <3>1 DEF Orderly, Actors, ExitStop
    <3>3. ~run /\ driver = "TP_07"
      BY <2>2, <3>2, ControlAssumption DEF AtWork, CanStop, IInv, TypeOK
    <3> QED
      BY <2>2, <3>2, <3>3 DEF ExitStop, KthreadStop, driverVars
  <2> QED
    BY <2>1, <2>2
<1>5. ASSUME mishap' = {}, ~fault'
      PROVE  Orderly'
  <2>0. /\ pc[Loader] = "exit_stop"
        /\ pc' = [pc EXCEPT ![Loader] = "wait"]
        /\ should_stop' = should_stop \cup {monitor_thread}
        /\ target' = [target EXCEPT ![Loader] = monitor_thread]
        /\ UNCHANGED <<thread, monitor_thread, driver, run, tm, file>>
    BY <1>3, <1>5, ThreadsAssumption
       DEF IInv, ExitStop, Goto, KthreadStop, CanStop, AskToStop, threadVars,
           driverVars, TypeOK, ThreadsTypeOK, Orderly, AtWork, Actors, Threads, NoThread
  <2>a. /\ Loader \in Busy /\ Loader \in Actors
        /\ \A b \in Actors \ {Loader} : pc[b] \in {"idle", "loaded"}
    BY <1>3, <1>5, <2>0, OthersRest DEF IInv, Busy, Actors
  <2>b. \A b \in Actors \ {Loader} : pc'[b] = pc[b]
    BY <2>0, <2>a DEF IInv, TypeOK
  <2>c. TypeOK /\ Orderly /\ AtWork(Loader)
    BY <1>3, <1>5, <2>a DEF IInv, Orderly
  <2>1. OneAtWork'
    BY <2>0, <2>a, <2>b, <2>c, ControlAssumption
       DEF TypeOK, Orderly, OneAtWork, Busy, Actors
  <2>2. OneThread'
    BY <2>0, <2>a, <2>b, <2>c, ControlAssumption, ThreadsAssumption
       DEF IInv, ThreadRuns, Fresh, TypeOK, ThreadsTypeOK, Orderly, OneThread, AtWork,
           Running, Threads, NoThread
  <2>3. AtRest'
    BY <2>0, <2>a, <2>b, <2>c, ControlAssumption, ThreadsAssumption
       DEF ThreadRuns, TypeOK, ThreadsTypeOK, AtWork, AtRest, Busy, Running, Threads,
           NoThread, Actors
  <2>4. ASSUME NEW a \in Actors
        PROVE  AtWork(a)'
    <3>1. CASE a = Loader
      BY <3>1, <2>0, <2>a, <2>c, ControlAssumption, ThreadsAssumption
         DEF TypeOK, ThreadsTypeOK, ThreadRuns, AtWork, Running, Threads, NoThread,
             Actors
    <3>2. CASE a # Loader
      BY <3>2, <2>a, <2>b DEF AtWork
    <3> QED
      BY <3>1, <3>2
  <2>5. /\ tm' <=> pc'[Loader] \notin {"remove_file", "drain", "unregister", "unloaded"}
        /\ pc'[Loader] = "exit_stop" /\ driver' = "TP_06" => run'
    BY <2>0, <2>a, <2>b, <2>c, ControlAssumption DEF TypeOK, Orderly, Actors
  <2> QED
    BY <2>1, <2>2, <2>3, <2>4, <2>5 DEF Orderly
<1> QED
  BY <1>1, <1>2, <1>4, <1>5 DEF IInv

LEMMA ExitStoppedStep == ASSUME IInv, ~fault, ExitStopped
                 PROVE  IInv'
<1>1. TypeOK'
  BY ControlAssumption, ThreadsAssumption
     DEF IInv, ExitStopped, Goto, KthreadStopped, threadVars, driverVars, TypeOK,
         ThreadsTypeOK, Actors, Busy, Running, Threads, NoThread
<1>2. Places' /\ FileInv' /\ Fresh'
  BY ControlAssumption
     DEF IInv, ExitStopped, Goto, KthreadStopped, threadVars, driverVars, Places,
         FileInv, Fresh, TypeOK, ThreadsTypeOK, Actors, Running
<1>3. ASSUME mishap' = {}
      PROVE  Orderly /\ mishap = {}
  BY <1>3 DEF IInv, ExitStopped, Goto, KthreadStopped, threadVars, driverVars
<1>4. FaultInv'
  BY <1>3
     DEF IInv, ExitStopped, Goto, KthreadStopped, threadVars, driverVars, FaultInv,
         Orderly, OneThread, OneAtWork, AtWork, TypeOK, Actors, Running, KthreadStop,
         CanStop, Places
<1>5. ASSUME mishap' = {}, ~fault'
      PROVE  Orderly'
  <2>0. /\ pc[Loader] = "wait" /\ ~Running(target[Loader])
        /\ pc' = [pc EXCEPT ![Loader] = "free_tm"]
        /\ UNCHANGED <<thread, monitor_thread, should_stop, target, driver, run, tm, file>>
    BY <1>3, <1>5, ThreadsAssumption
       DEF IInv, ExitStopped, Goto, KthreadStopped, threadVars, driverVars, TypeOK,
           ThreadsTypeOK, Orderly, AtWork, Actors, Threads, NoThread
  <2>a. /\ Loader \in Busy /\ Loader \in Actors
        /\ \A b \in Actors \ {Loader} : pc[b] \in {"idle", "loaded"}
    BY <1>3, <1>5, <2>0, OthersRest DEF IInv, Busy, Actors
  <2>b. \A b \in Actors \ {Loader} : pc'[b] = pc[b]
    BY <2>0, <2>a DEF IInv, TypeOK
  <2>c. TypeOK /\ Orderly /\ AtWork(Loader)
    BY <1>3, <1>5, <2>a DEF IInv, Orderly
  <2>1. OneAtWork'
    BY <2>0, <2>a, <2>b, <2>c, ControlAssumption
       DEF TypeOK, Orderly, OneAtWork, Busy, Actors
  <2>2. OneThread'
    <3>1. ~Running(monitor_thread)
      BY <2>0, <2>c DEF AtWork
    <3>2. \A t \in Threads : ~Running(t)
      BY <2>c, <3>1 DEF Orderly, OneThread
    <3> QED
      BY <2>0, <3>2 DEF OneThread, Running
  <2>3. AtRest'
    BY <2>0, <2>a, <2>b, <2>c, ControlAssumption, ThreadsAssumption
       DEF ThreadRuns, TypeOK, ThreadsTypeOK, AtWork, AtRest, Busy, Running, Threads,
           NoThread, Actors
  <2>4. ASSUME NEW a \in Actors
        PROVE  AtWork(a)'
    <3>1. CASE a = Loader
      BY <3>1, <2>0, <2>a, <2>c, ControlAssumption, ThreadsAssumption
         DEF TypeOK, ThreadsTypeOK, ThreadRuns, AtWork, Running, Threads, NoThread,
             Actors
    <3>2. CASE a # Loader
      BY <3>2, <2>a, <2>b DEF AtWork
    <3> QED
      BY <3>1, <3>2
  <2>5. /\ tm' <=> pc'[Loader] \notin {"remove_file", "drain", "unregister", "unloaded"}
        /\ pc'[Loader] = "exit_stop" /\ driver' = "TP_06" => run'
    BY <2>0, <2>a, <2>b, <2>c, ControlAssumption DEF TypeOK, Orderly, Actors
  <2> QED
    BY <2>1, <2>2, <2>3, <2>4, <2>5 DEF Orderly
<1> QED
  BY <1>1, <1>2, <1>4, <1>5 DEF IInv

LEMMA FreeTmStep == ASSUME IInv, ~fault, FreeTm
                 PROVE  IInv'
<1>1. TypeOK'
  BY ControlAssumption, ThreadsAssumption
     DEF IInv, FreeTm, Goto, threadVars, driverVars, TypeOK, ThreadsTypeOK, Actors,
         Busy, Running, Threads, NoThread
<1>2. Places' /\ FileInv' /\ Fresh'
  BY ControlAssumption
     DEF IInv, FreeTm, Goto, threadVars, driverVars, Places, FileInv, Fresh, TypeOK,
         ThreadsTypeOK, Actors, Running
<1>3. ASSUME mishap' = {}
      PROVE  Orderly /\ mishap = {}
  BY <1>3 DEF IInv, FreeTm, Goto, threadVars, driverVars
<1>4. FaultInv'
  BY <1>3
     DEF IInv, FreeTm, Goto, threadVars, driverVars, FaultInv, Orderly, OneThread,
         OneAtWork, AtWork, TypeOK, Actors, Running, KthreadStop, CanStop, Places
<1>5. ASSUME mishap' = {}, ~fault'
      PROVE  Orderly'
  <2>0. /\ pc[Loader] = "free_tm"
        /\ pc' = [pc EXCEPT ![Loader] = "remove_file"]
        /\ tm' = FALSE
        /\ UNCHANGED <<thread, monitor_thread, should_stop, target, driver, run, file>>
    BY <1>3, <1>5, ThreadsAssumption
       DEF IInv, FreeTm, Goto, threadVars, driverVars, TypeOK, ThreadsTypeOK, Orderly,
           AtWork, Actors, Threads, NoThread
  <2>a. /\ Loader \in Busy /\ Loader \in Actors
        /\ \A b \in Actors \ {Loader} : pc[b] \in {"idle", "loaded"}
    BY <1>3, <1>5, <2>0, OthersRest DEF IInv, Busy, Actors
  <2>b. \A b \in Actors \ {Loader} : pc'[b] = pc[b]
    BY <2>0, <2>a DEF IInv, TypeOK
  <2>c. TypeOK /\ Orderly /\ AtWork(Loader)
    BY <1>3, <1>5, <2>a DEF IInv, Orderly
  <2>1. OneAtWork'
    BY <2>0, <2>a, <2>b, <2>c, ControlAssumption
       DEF TypeOK, Orderly, OneAtWork, Busy, Actors
  <2>2. OneThread'
    BY <2>0, <2>a, <2>b, <2>c, ControlAssumption, ThreadsAssumption
       DEF IInv, ThreadRuns, Fresh, TypeOK, ThreadsTypeOK, Orderly, OneThread, AtWork,
           Running, Threads, NoThread
  <2>3. AtRest'
    BY <2>0, <2>a, <2>b, <2>c, ControlAssumption, ThreadsAssumption
       DEF ThreadRuns, TypeOK, ThreadsTypeOK, AtWork, AtRest, Busy, Running, Threads,
           NoThread, Actors
  <2>4. ASSUME NEW a \in Actors
        PROVE  AtWork(a)'
    <3>1. CASE a = Loader
      BY <3>1, <2>0, <2>a, <2>c, ControlAssumption, ThreadsAssumption
         DEF TypeOK, ThreadsTypeOK, ThreadRuns, AtWork, Running, Threads, NoThread,
             Actors
    <3>2. CASE a # Loader
      BY <3>2, <2>a, <2>b DEF AtWork
    <3> QED
      BY <3>1, <3>2
  <2>5. /\ tm' <=> pc'[Loader] \notin {"remove_file", "drain", "unregister", "unloaded"}
        /\ pc'[Loader] = "exit_stop" /\ driver' = "TP_06" => run'
    BY <2>0, <2>a, <2>b, <2>c, ControlAssumption DEF TypeOK, Orderly, Actors
  <2> QED
    BY <2>1, <2>2, <2>3, <2>4, <2>5 DEF Orderly
<1> QED
  BY <1>1, <1>2, <1>4, <1>5 DEF IInv

LEMMA RemoveFileStep == ASSUME IInv, HeldInv, ~fault, RemoveFile
                 PROVE  IInv'
<1>1. TypeOK'
  BY ControlAssumption, ThreadsAssumption
     DEF IInv, RemoveFile, Goto, threadVars, driverVars, TypeOK, ThreadsTypeOK, Actors,
         Busy, Running, Threads, NoThread
<1>2. Places' /\ FileInv' /\ Fresh'
  BY ControlAssumption
     DEF IInv, RemoveFile, Goto, threadVars, driverVars, Places, FileInv, Fresh, TypeOK,
         ThreadsTypeOK, Actors, Running
<1>3. ASSUME mishap' = {}
      PROVE  Orderly /\ mishap = {} /\ "directory" \in held
  BY <1>3 DEF IInv, RemoveFile, Goto, threadVars, driverVars, HeldInv, WithFile
<1>4. FaultInv'
  BY <1>3
     DEF IInv, RemoveFile, Goto, threadVars, driverVars, FaultInv, Orderly, OneThread,
         OneAtWork, AtWork, TypeOK, Actors, Running, KthreadStop, CanStop, Places
<1>5. ASSUME mishap' = {}, ~fault'
      PROVE  Orderly'
  <2>0. /\ pc[Loader] = "remove_file" /\ pc' = [pc EXCEPT ![Loader] = "drain"]
        /\ UNCHANGED <<thread, monitor_thread, should_stop, target, driver, run, tm>>
    BY <1>3, <1>5 DEF RemoveFile, Goto, threadVars
  <2>a. /\ Loader \in Busy /\ Loader \in Actors
        /\ \A b \in Actors \ {Loader} : pc[b] \in {"idle", "loaded"}
    BY <1>3, <1>5, <2>0, OthersRest DEF IInv, Busy, Actors
  <2>b. \A b \in Actors \ {Loader} : pc'[b] = pc[b]
    BY <2>0, <2>a DEF IInv, TypeOK
  <2>c. TypeOK /\ Orderly /\ AtWork(Loader)
    BY <1>3, <1>5, <2>a DEF IInv, Orderly
  <2>1. OneAtWork'
    BY <2>0, <2>a, <2>b, <2>c, ControlAssumption
       DEF TypeOK, Orderly, OneAtWork, Busy, Actors
  <2>2. OneThread'
    BY <2>0, <2>a, <2>b, <2>c, ControlAssumption, ThreadsAssumption
       DEF IInv, ThreadRuns, Fresh, TypeOK, ThreadsTypeOK, Orderly, OneThread, AtWork,
           Running, Threads, NoThread
  <2>3. AtRest'
    BY <2>0, <2>a, <2>b, <2>c, ControlAssumption, ThreadsAssumption
       DEF ThreadRuns, TypeOK, ThreadsTypeOK, AtWork, AtRest, Busy, Running, Threads,
           NoThread, Actors
  <2>4. ASSUME NEW a \in Actors
        PROVE  AtWork(a)'
    <3>1. CASE a = Loader
      BY <3>1, <2>0, <2>a, <2>c, ControlAssumption, ThreadsAssumption
         DEF TypeOK, ThreadsTypeOK, ThreadRuns, AtWork, Running, Threads, NoThread,
             Actors
    <3>2. CASE a # Loader
      BY <3>2, <2>a, <2>b DEF AtWork
    <3> QED
      BY <3>1, <3>2
  <2>5. /\ tm' <=> pc'[Loader] \notin {"remove_file", "drain", "unregister", "unloaded"}
        /\ pc'[Loader] = "exit_stop" /\ driver' = "TP_06" => run'
    BY <2>0, <2>a, <2>b, <2>c, ControlAssumption DEF TypeOK, Orderly, Actors
  <2> QED
    BY <2>1, <2>2, <2>3, <2>4, <2>5 DEF Orderly
<1> QED
  BY <1>1, <1>2, <1>4, <1>5 DEF IInv

LEMMA DrainStep == ASSUME IInv, ~fault, Drain
                 PROVE  IInv'
<1>1. TypeOK'
  BY ControlAssumption, ThreadsAssumption
     DEF IInv, Drain, Goto, WritersDone, threadVars, driverVars, TypeOK, ThreadsTypeOK,
         Actors, Busy, Running, Threads, NoThread
<1>2. Places' /\ FileInv' /\ Fresh'
  BY ControlAssumption
     DEF IInv, Drain, Goto, WritersDone, threadVars, driverVars, Places, FileInv, Fresh,
         TypeOK, ThreadsTypeOK, Actors, Running
<1>3. ASSUME mishap' = {}
      PROVE  Orderly /\ mishap = {}
  BY <1>3 DEF IInv, Drain, Goto, WritersDone, threadVars, driverVars
<1>4. FaultInv'
  BY <1>3
     DEF IInv, Drain, Goto, WritersDone, threadVars, driverVars, FaultInv, Orderly,
         OneThread, OneAtWork, AtWork, TypeOK, Actors, Running, KthreadStop, CanStop,
         Places
<1>5. ASSUME mishap' = {}, ~fault'
      PROVE  Orderly'
  <2>0. PICK l \in {"unregister", "unloaded"} :
          /\ pc[Loader] = "drain" /\ pc' = [pc EXCEPT ![Loader] = l]
          /\ UNCHANGED <<thread, monitor_thread, should_stop, target, driver, tm, file>>
    BY <1>3, <1>5 DEF Drain, Goto, threadVars
  <2>a. /\ Loader \in Busy /\ Loader \in Actors
        /\ \A b \in Actors \ {Loader} : pc[b] \in {"idle", "loaded"}
    BY <1>3, <1>5, <2>0, OthersRest DEF IInv, Busy, Actors
  <2>b. \A b \in Actors \ {Loader} : pc'[b] = pc[b]
    BY <2>0, <2>a DEF IInv, TypeOK
  <2>c. TypeOK /\ Orderly /\ AtWork(Loader)
    BY <1>3, <1>5, <2>a DEF IInv, Orderly
  <2>d. pc'[Loader] \in {"unregister", "unloaded"}
    BY <2>0, <2>a DEF IInv, TypeOK
  <2>e. \A w \in Writers : pc'[w] = "idle"
    BY <2>a, <2>b, ControlAssumption DEF Actors, IInv, Places
  <2>1. OneAtWork'
    BY <2>a, <2>d, <2>e, ControlAssumption DEF OneAtWork, Busy, Actors
  <2>2. OneThread'
    BY <2>0, <2>a, <2>b, <2>c, ControlAssumption, ThreadsAssumption
       DEF IInv, ThreadRuns, Fresh, TypeOK, ThreadsTypeOK, Orderly, OneThread, AtWork,
           Running, Threads, NoThread
  <2>3. AtRest'
    BY <2>d DEF AtRest
  <2>4. ASSUME NEW a \in Actors
        PROVE  AtWork(a)'
    <3>1. CASE a = Loader
      BY <3>1, <2>0, <2>c, <2>d DEF AtWork, Running
    <3>2. CASE a # Loader
      BY <3>2, <2>a, <2>b DEF AtWork
    <3> QED
      BY <3>1, <3>2
  <2>5. /\ tm' <=> pc'[Loader] \notin {"remove_file", "drain", "unregister", "unloaded"}
        /\ pc'[Loader] = "exit_stop" /\ driver' = "TP_06" => run'
    BY <2>0, <2>c, <2>d DEF Orderly
  <2> QED
    BY <2>1, <2>2, <2>3, <2>4, <2>5 DEF Orderly
<1> QED
  BY <1>1, <1>2, <1>4, <1>5 DEF IInv

LEMMA UnregisterStep == ASSUME IInv, HeldInv, ~fault, UnregisterShrinker
                 PROVE  IInv'
<1>1. TypeOK'
  BY ControlAssumption, ThreadsAssumption
     DEF IInv, UnregisterShrinker, Goto, threadVars, driverVars, TypeOK, ThreadsTypeOK, Actors,
         Busy, Running, Threads, NoThread
<1>2. Places' /\ FileInv' /\ Fresh'
  <2>1. /\ pc' = pc \/ pc' = [pc EXCEPT ![Loader] = "unloaded"]
        /\ pc[Loader] = "unregister" /\ UNCHANGED <<driver, file, thread, should_stop>>
    BY DEF UnregisterShrinker, Goto, threadVars
  <2>2. pc'[Loader] \in {"unregister", "unloaded"} /\ \A w \in Writers : pc'[w] = pc[w]
    BY <2>1, ControlAssumption DEF IInv, TypeOK, Actors
  <2>3. Places' BY <2>1, <2>2 DEF IInv, Places
  <2>4. ~file /\ \A w \in Writers : pc[w] = "idle" BY <2>1 DEF IInv, FileInv, TypeOK
  <2>5. FileInv' BY <2>1, <2>2, <2>4 DEF FileInv
  <2>6. Fresh' BY <2>1 DEF IInv, Fresh
  <2> QED BY <2>3, <2>5, <2>6
<1>3. ASSUME mishap' = {}
      PROVE  Orderly /\ mishap = {} /\ "shrinker" \in held
  BY <1>3 DEF IInv, UnregisterShrinker, Goto, threadVars, driverVars, HeldInv, Registered,
         Places, UnregisterShrinker
<1>4. FaultInv'
  BY <1>3
     DEF IInv, UnregisterShrinker, Goto, threadVars, driverVars, FaultInv, Orderly, OneThread,
         OneAtWork, AtWork, TypeOK, Actors, Running, KthreadStop, CanStop, Places
<1>5. ASSUME mishap' = {}, ~fault'
      PROVE  Orderly'
  <2>0. PICK l \in {"unloaded"} :
          /\ pc[Loader] = "unregister" /\ pc' = [pc EXCEPT ![Loader] = l]
          /\ UNCHANGED <<thread, monitor_thread, should_stop, target, driver, tm, file>>
    BY <1>3, <1>5 DEF UnregisterShrinker, Goto, threadVars
  <2>a. /\ Loader \in Busy /\ Loader \in Actors
        /\ \A b \in Actors \ {Loader} : pc[b] \in {"idle", "loaded"}
    BY <1>3, <1>5, <2>0, OthersRest DEF IInv, Busy, Actors
  <2>b. \A b \in Actors \ {Loader} : pc'[b] = pc[b]
    BY <2>0, <2>a DEF IInv, TypeOK
  <2>c. TypeOK /\ Orderly /\ AtWork(Loader)
    BY <1>3, <1>5, <2>a DEF IInv, Orderly
  <2>1. OneAtWork'
    BY <2>0, <2>a, <2>b, <2>c, ControlAssumption
       DEF TypeOK, Orderly, OneAtWork, Busy, Actors
  <2>2. OneThread'
    BY <2>0, <2>a, <2>b, <2>c, ControlAssumption, ThreadsAssumption
       DEF IInv, ThreadRuns, Fresh, TypeOK, ThreadsTypeOK, Orderly, OneThread, AtWork,
           Running, Threads, NoThread
  <2>3. AtRest'
    BY <2>0, <2>a, <2>b, <2>c, ControlAssumption, ThreadsAssumption
       DEF ThreadRuns, TypeOK, ThreadsTypeOK, AtWork, AtRest, Busy, Running, Threads,
           NoThread, Actors
  <2>4. ASSUME NEW a \in Actors
        PROVE  AtWork(a)'
    <3>1. CASE a = Loader
      BY <3>1, <2>0, <2>a, <2>c, ControlAssumption, ThreadsAssumption
         DEF TypeOK, ThreadsTypeOK, ThreadRuns, AtWork, Running, Threads, NoThread,
             Actors
    <3>2. CASE a # Loader
      BY <3>2, <2>a, <2>b DEF AtWork
    <3> QED
      BY <3>1, <3>2
  <2>5. /\ tm' <=> pc'[Loader] \notin {"remove_file", "drain", "unregister", "unloaded"}
        /\ pc'[Loader] = "exit_stop" /\ driver' = "TP_06" => run'
    BY <2>0, <2>a, <2>b, <2>c, ControlAssumption DEF TypeOK, Orderly, Actors
  <2> QED
    BY <2>1, <2>2, <2>3, <2>4, <2>5 DEF Orderly
<1> QED
  BY <1>1, <1>2, <1>4, <1>5 DEF IInv

LEMMA StoreStep == ASSUME IInv, ~fault, NEW w \in Writers, NEW cmd \in {"start", "stop"}, Store(w, cmd)
                 PROVE  IInv'
<1>1. TypeOK'
  BY ControlAssumption, ThreadsAssumption
     DEF IInv, Store, Goto, threadVars, driverVars, TypeOK, ThreadsTypeOK, Actors, Busy,
         Running, Threads, NoThread
<1>2. Places' /\ FileInv' /\ Fresh'
  BY ControlAssumption
     DEF IInv, Store, Goto, threadVars, driverVars, Places, FileInv, Fresh, TypeOK,
         ThreadsTypeOK, Actors, Running
<1>3. ASSUME mishap' = {}
      PROVE  Orderly /\ mishap = {}
  BY <1>3 DEF IInv, Store, Goto, threadVars, driverVars
<1>4. FaultInv'
  BY <1>3
     DEF IInv, Store, Goto, threadVars, driverVars, FaultInv, Orderly, OneThread,
         OneAtWork, AtWork, TypeOK, Actors, Running, KthreadStop, CanStop, Places
<1>5. ASSUME mishap' = {}, ~fault'
      PROVE  Orderly'
  <2>1. OneAtWork'
    BY <1>3, <1>5, ControlAssumption
       DEF IInv, Store, Goto, threadVars, driverVars, TypeOK, Places, FileInv, Orderly,
           OneAtWork, Busy, Actors
  <2>2. OneThread'
    BY <1>3, <1>5, ControlAssumption, ThreadsAssumption
       DEF IInv, Store, Goto, threadVars, driverVars, Fresh, TypeOK, ThreadsTypeOK,
           Orderly, OneAtWork, OneThread, AtWork, Busy, Actors, Running, Threads,
           NoThread
  <2>3. AtRest'
    BY <1>3, <1>5, <2>1, ControlAssumption, ThreadsAssumption
       DEF IInv, Store, Goto, threadVars, driverVars, TypeOK, Places, ThreadsTypeOK,
           Orderly, OneAtWork, OneThread, AtWork, AtRest, Busy, Actors, Running,
           Threads, NoThread
  <2>4. ASSUME NEW a \in Actors
        PROVE  AtWork(a)'
    <3>1. /\ file /\ Busy = {} /\ pc' = [pc EXCEPT ![w] = "cmp_stop"] /\ AtWork(a)
          /\ UNCHANGED <<thread, monitor_thread, target, run>>
      BY <1>3, <1>5 DEF Store, Goto, threadVars, Orderly
    <3>2. CASE a = w
      <4>1. pc[Loader] = "loaded"
        BY <3>1 DEF IInv, FileInv, Busy, Actors
      <4>2. Running(monitor_thread) <=> run
        BY <1>3, <1>5, <3>1, <4>1 DEF Orderly, AtRest
      <4> QED
        BY <3>1, <3>2, <4>2 DEF AtWork, Running, IInv, TypeOK
    <3>3. CASE a # w
      BY <3>1, <3>3 DEF AtWork, Running, IInv, TypeOK
    <3> QED
      BY <3>2, <3>3
  <2>5. /\ tm' <=> pc'[Loader] \notin {"remove_file", "drain", "unregister", "unloaded"}
        /\ pc'[Loader] = "exit_stop" /\ driver' = "TP_06" => run'
    BY <1>3, <1>5, ControlAssumption
       DEF IInv, Store, Goto, threadVars, driverVars, TypeOK, Places, Orderly,
           OneAtWork, AtWork, Actors, Busy
  <2> QED
    BY <2>1, <2>2, <2>3, <2>4, <2>5 DEF Orderly
<1> QED
  BY <1>1, <1>2, <1>4, <1>5 DEF IInv

LEMMA ThreadExitStep == ASSUME IInv, ~fault, NEW t \in Threads, ThreadExit(t)
                 PROVE  IInv'
<1>1. TypeOK'
  BY ControlAssumption, ThreadsAssumption
     DEF IInv, ThreadExit, Goto, ThreadEnds, Awake, threadVars, driverVars, TypeOK,
         ThreadsTypeOK, Actors, Busy, Running, Threads, NoThread
<1>2. Places' /\ FileInv' /\ Fresh'
  BY ControlAssumption
     DEF IInv, ThreadExit, Goto, ThreadEnds, Awake, threadVars, driverVars, Places,
         FileInv, Fresh, TypeOK, ThreadsTypeOK, Actors, Running
<1>3. ASSUME mishap' = {}
      PROVE  Orderly /\ mishap = {}
  BY <1>3 DEF IInv, ThreadExit, Goto, ThreadEnds, Awake, threadVars, driverVars
<1>4. FaultInv'
  BY <1>3
     DEF IInv, ThreadExit, Goto, ThreadEnds, Awake, threadVars, driverVars, FaultInv,
         Orderly, OneThread, OneAtWork, AtWork, TypeOK, Actors, Running, KthreadStop,
         CanStop, Places
<1>5. ASSUME mishap' = {}, ~fault'
      PROVE  Orderly'
  <2>1. OneAtWork'
    BY <1>3, <1>5, ControlAssumption
       DEF IInv, ThreadExit, Goto, ThreadEnds, Awake, threadVars, driverVars, TypeOK,
           Places, FileInv, Orderly, OneAtWork, Busy, Actors
  <2>2. OneThread'
    <3>1. \A u \in Threads : Running(u) => u = monitor_thread
      BY <1>3, <1>5 DEF Orderly, OneThread
    <3>2. Running(t) /\ thread' = [thread EXCEPT ![t] = "exited"]
      BY DEF ThreadExit, ThreadEnds
    <3>3. \A u \in Threads : ~Running(u)'
      BY <3>1, <3>2 DEF Running, IInv, TypeOK, ThreadsTypeOK
    <3> QED
      BY <3>3 DEF OneThread
  <2>3. AtRest'
    BY <1>3, <1>5, <2>1, ControlAssumption, ThreadsAssumption
       DEF IInv, ThreadExit, Goto, ThreadEnds, Awake, threadVars, driverVars, TypeOK,
           Places, ThreadsTypeOK, Orderly, OneAtWork, OneThread, AtWork, AtRest, Busy,
           Actors, Running, Threads, NoThread
  <2>4. ASSUME NEW a \in Actors
        PROVE  AtWork(a)'
    <3>1. PICK b \in Actors : pc[b] = "wait"
      BY <1>3, <1>5 DEF ThreadExit, ThreadEnds, Awake, Orderly, OneThread
    <3>2. a # b => pc[a] \in {"idle", "loaded"}
      BY <1>3, <1>5, <3>1, OthersRest DEF IInv, Busy
    <3>3. AtWork(a) /\ pc' = pc /\ target' = target /\ run' = run
             /\ monitor_thread' = monitor_thread
      BY <1>3, <1>5 DEF Orderly, ThreadExit, ThreadEnds, driverVars
    <3> QED
      BY <3>1, <3>2, <3>3 DEF AtWork
  <2>5. /\ tm' <=> pc'[Loader] \notin {"remove_file", "drain", "unregister", "unloaded"}
        /\ pc'[Loader] = "exit_stop" /\ driver' = "TP_06" => run'
    BY <1>3, <1>5, ControlAssumption
       DEF IInv, ThreadExit, Goto, ThreadEnds, Awake, threadVars, driverVars, TypeOK,
           Places, Orderly, OneAtWork, AtWork, Actors, Busy
  <2> QED
    BY <2>1, <2>2, <2>3, <2>4, <2>5 DEF Orderly
<1> QED
  BY <1>1, <1>2, <1>4, <1>5 DEF IInv

LEMMA ThreadSampleStep == ASSUME IInv, ~fault, NEW t \in Threads, ThreadSample(t)
                 PROVE  IInv'
<1>1. TypeOK'
  BY ControlAssumption, ThreadsAssumption
     DEF IInv, ThreadSample, Goto, threadVars, driverVars, TypeOK, ThreadsTypeOK,
         Actors, Busy, Running, Threads, NoThread
<1>2. Places' /\ FileInv' /\ Fresh'
  BY ControlAssumption
     DEF IInv, ThreadSample, Goto, threadVars, driverVars, Places, FileInv, Fresh,
         TypeOK, ThreadsTypeOK, Actors, Running
<1>3. ASSUME mishap' = {}
      PROVE  Orderly /\ mishap = {}
  BY <1>3 DEF IInv, ThreadSample, Goto, threadVars, driverVars
<1>4. FaultInv'
  <2> SUFFICES ASSUME mishap' = {} PROVE FALSE
    BY DEF FaultInv
  <2>1. Orderly /\ Running(t) /\ (~tm \/ pc[Loader] = "unloaded")
    BY <1>3 DEF ThreadSample
  <2>2. t = monitor_thread /\ AtWork(Loader)
    BY <2>1 DEF Orderly, OneThread, Actors
  <2>3. pc[Loader] \in {"remove_file", "drain", "unregister", "unloaded"}
    BY <2>1 DEF Orderly
  <2> QED
    BY <2>1, <2>2, <2>3 DEF AtWork
<1>5. fault'
  BY DEF ThreadSample
<1> QED
  BY <1>1, <1>2, <1>4, <1>5 DEF IInv

LEMMA StutterStep == ASSUME IInv, UNCHANGED vars
                     PROVE  IInv'
<1>1. TypeOK'
  BY DEF vars, threadVars, driverVars, IInv, TypeOK, ThreadsTypeOK
<1>0. Places' /\ FileInv' /\ Fresh' /\ FaultInv'
  BY DEF vars, threadVars, driverVars, IInv, Places, FileInv, Fresh, FaultInv
<1>2. mishap' = {} /\ ~fault' => Orderly'
  BY DEF vars, threadVars, driverVars, IInv, Orderly, OneAtWork, OneThread, AtWork,
         AtRest, Busy, Running
<1> QED
  BY <1>0, <1>1, <1>2 DEF IInv

\* every step keeps track of what the driver has got
LEMMA HeldStep ==
  ASSUME IInv, HeldInv, [Next]_vars
  PROVE  HeldInv'
<1>1. /\ \A a \in Actors : \A l : [pc EXCEPT ![a] = l][Loader] = IF a = Loader THEN l ELSE pc[Loader]
      /\ Loader \in Actors /\ Loader \notin Writers /\ Writers \subseteq Actors
  BY ControlAssumption DEF IInv, TypeOK, Actors
<1>2. ASSUME pc'[Loader] = pc[Loader],
             UNCHANGED <<driver, held>>, mishap' \in {mishap, mishap \cup {"overlap"},
                                                     mishap \cup {"no_thread"}}
      PROVE  HeldInv'
  BY <1>2 DEF HeldInv
<1>3. ASSUME NEW w \in Writers, WriterStep(w) \/ \E cmd \in {"start", "stop"} : Store(w, cmd)
      PROVE  HeldInv'
  <2>1. UNCHANGED <<driver, held>>
    BY <1>3 DEF WriterStep, CmpStop, Stop, Stopped, ClearRun, CmpStart, Start, SetRunning,
                Store, driverVars
  <2>2. mishap' \in {mishap, mishap \cup {"overlap"}, mishap \cup {"no_thread"}}
    BY <1>3 DEF WriterStep, CmpStop, Stop, Stopped, ClearRun, CmpStart, Start, SetRunning,
                Store, KthreadRun
  <2>3. pc' = pc \/ \E l : pc' = [pc EXCEPT ![w] = l]
    BY <1>3 DEF WriterStep, CmpStop, Stop, Stopped, ClearRun, CmpStart, Start, SetRunning,
                Store, KthreadStop, Goto
  <2>4. pc'[Loader] = pc[Loader] BY <1>1, <2>3
  <2> QED BY <1>2, <2>1, <2>2, <2>4
<1>4. CASE CreateThread
  <2>1. /\ UNCHANGED <<driver, held>> /\ pc[Loader] = "create_thread"
        /\ mishap' \in {mishap, mishap \cup {"no_thread"}}
        /\ pc'[Loader] \in {"failed", "create_file"}
    BY <1>1, <1>4 DEF CreateThread, KthreadRun, Goto
  <2> QED BY <2>1 DEF HeldInv, Registered, WithFile
<1>5. CASE CreateFile \/ SetRun \/ RegisterShrinker \/ RSysfs
  <2>1. CASE CreateFile
    <3>1. /\ pc[Loader] = "create_file" /\ held' = held \cup {"directory"} /\ driver' = driver
          /\ \/ mishap' = mishap /\ pc'[Loader] = "set_run"
             \/ mishap' = mishap \cup {"no_file"} /\ pc'[Loader] = "r_sysfs"
      BY <1>1, <2>1 DEF CreateFile, Goto
    <3> QED BY <3>1 DEF HeldInv, Registered, WithFile
  <2>2. CASE SetRun
    <3>1. /\ pc[Loader] = "set_run" /\ UNCHANGED <<held, driver, mishap>>
          /\ pc'[Loader] = IF driver = "TP_07" THEN "register" ELSE "loaded"
      BY <1>1, <2>2 DEF SetRun, Goto
    <3> QED BY <3>1 DEF HeldInv, Registered, WithFile
  <2>3. CASE RegisterShrinker
    <3>1. /\ pc[Loader] = "register" /\ pc'[Loader] = "loaded" /\ driver' = driver
          /\ \/ held' = held \cup {"shrinker"} /\ mishap' = mishap
             \/ held' = held /\ mishap' = mishap \cup {"no_shrinker"}
      BY <1>1, <2>3 DEF RegisterShrinker, Goto
    <3>2. driver = "TP_07" BY <3>1 DEF IInv, Places
    <3>3. "no_file" \notin mishap /\ "no_shrinker" \notin mishap /\ "directory" \in held
      BY <3>1 DEF HeldInv, Registered, WithFile
    <3>4. "shrinker" \notin held
      BY <3>1 DEF HeldInv, Registered
    <3>5. CASE held' = held \cup {"shrinker"} /\ mishap' = mishap
      BY <3>1, <3>2, <3>3, <3>5 DEF HeldInv, Registered, WithFile
    <3>6. CASE held' = held /\ mishap' = mishap \cup {"no_shrinker"}
      BY <3>1, <3>2, <3>3, <3>4, <3>6 DEF HeldInv, Registered, WithFile
    <3> QED BY <3>1, <3>5, <3>6
  <2>4. CASE RSysfs
    <3>1. /\ pc[Loader] = "r_sysfs" /\ pc'[Loader] = "loaded"
          /\ held' = held \ {"directory"} /\ UNCHANGED <<driver, mishap>>
      BY <1>1, <2>4 DEF RSysfs, Goto
    <3> QED BY <3>1 DEF HeldInv, Registered, WithFile
  <2> QED BY <1>5, <2>1, <2>2, <2>3, <2>4
<1>6. CASE Exit \/ ExitStop \/ ExitStopped
  <2>1. /\ UNCHANGED <<driver, held>> /\ mishap' \in {mishap, mishap \cup {"overlap"}}
        /\ pc[Loader] \in {"loaded", "exit_stop", "wait"}
        /\ pc'[Loader] \in {"exit_stop", "wait", "free_tm"}
    BY <1>1, <1>6 DEF Exit, ExitStop, ExitStopped, KthreadStop, KthreadStopped, Goto, driverVars
  <2>2. /\ "no_file" \in mishap' <=> "no_file" \in mishap
        /\ "no_shrinker" \in mishap' <=> "no_shrinker" \in mishap
    BY <2>1
  <2> QED BY <2>1, <2>2 DEF HeldInv, Registered, WithFile
<1>7. CASE FreeTm \/ RemoveFile
  BY <1>1, <1>7 DEF FreeTm, RemoveFile, Goto, HeldInv, Registered, WithFile
<1>8. CASE Drain \/ UnregisterShrinker
  BY <1>1, <1>8 DEF Drain, UnregisterShrinker, Goto, HeldInv, Registered, WithFile
<1>9. CASE (\E t \in Threads : ThreadExit(t) \/ ThreadSample(t)) \/ UNCHANGED vars
  <2>1. UNCHANGED <<pc, driver, held, mishap>>
    BY <1>9 DEF ThreadExit, ThreadSample, driverVars, vars
  <2> QED BY <1>2, <2>1
<1> QED
  BY <1>3, <1>4, <1>5, <1>6, <1>7, <1>8, <1>9 DEF Next, LoaderStep, Halted

-----------------------------------------------------------------------------

\* The inductive invariant holds in every run of either driver.
THEOREM SysfsInvariance == Spec => [](IInv /\ HeldInv)
<1>1. IInv /\ HeldInv /\ [Next]_vars => IInv'
  <2> SUFFICES ASSUME IInv, HeldInv, [Next]_vars PROVE IInv'
    OBVIOUS
  <2>1. ASSUME ~fault, NEW w \in Writers, WriterStep(w)
        PROVE  IInv'
    BY <2>1, CmpStopStep, StopStep, StoppedStep, ClearRunStep, CmpStartStep, StartStep,
       SetRunningStep
       DEF WriterStep
  <2>2. ASSUME ~fault, LoaderStep \/ Exit
        PROVE  IInv'
    BY <2>2, CreateThreadStep, CreateFileStep, SetRunStep, RegisterStep, RSysfsStep, ExitStep,
       ExitStopStep, ExitStoppedStep, FreeTmStep, RemoveFileStep, DrainStep, UnregisterStep
       DEF LoaderStep
  <2>3. ASSUME ~fault, NEW w \in Writers, NEW cmd \in {"start", "stop"}, Store(w, cmd)
        PROVE  IInv'
    BY <2>3, StoreStep
  <2>4. ASSUME ~fault, NEW t \in Threads, ThreadExit(t) \/ ThreadSample(t)
        PROVE  IInv'
    BY <2>4, ThreadExitStep, ThreadSampleStep
  <2>5. CASE UNCHANGED vars
    BY <2>5, StutterStep
  <2> QED
    BY <2>1, <2>2, <2>3, <2>4, <2>5 DEF Next, Halted
<1>2. IInv /\ HeldInv /\ [Next]_vars => HeldInv'
  BY HeldStep
<1>3. Init => HeldInv
  BY ControlAssumption DEF Init, HeldInv, Registered, WithFile, Actors
<1> QED
  BY InitIInv, <1>1, <1>2, <1>3, PTL DEF Spec

\* Type correctness.
THEOREM SysfsTypeCorrect == Spec => []TypeOK
BY SysfsInvariance, PTL DEF IInv

\* However many writers there are: without overlap and refusals the only wrong
\* access is that TP_07's exit stops a thread that a "stop" has already ended.
THEOREM SequentialUse == Spec => []SequentialUseIsSafe
<1>1. IInv => SequentialUseIsSafe
  BY DEF IInv, FaultInv, SequentialUseIsSafe
<1> QED
  BY SysfsInvariance, <1>1, PTL

\* Between two such operations run tells whether the thread in monitor_thread lives.
THEOREM RunIsTrue == Spec => []RunTracksThread
<1>1. IInv => RunTracksThread
  <2> SUFFICES ASSUME IInv, mishap = {}, pc[Loader] = "loaded", Busy = {},
                      NEW t \in Threads
               PROVE  Running(t) <=> run /\ t = monitor_thread
    BY DEF RunTracksThread
  <2>1. Orderly
    BY DEF IInv, FaultInv
  <2> QED
    BY <2>1 DEF Orderly, OneThread, AtRest
<1> QED
  BY SysfsInvariance, <1>1, PTL

\* An unloaded module is used by no write, and without overlap by no thread; exit does not
\* survive the refusal of the file or of the shrinker.
THEOREM NothingUsesUnloaded == Spec => []UnloadedIsQuiet
<1>1. IInv /\ HeldInv => UnloadedIsQuiet
  <2> SUFFICES ASSUME IInv, HeldInv, pc[Loader] = "unloaded"
               PROVE  /\ \A w \in Writers : pc[w] = "idle"
                      /\ mishap \cap {"no_file", "no_shrinker"} = {}
                      /\ mishap = {} => \A t \in Threads : ~Running(t)
    BY DEF UnloadedIsQuiet
  <2>1. \A w \in Writers : pc[w] = "idle"
    BY DEF IInv, FileInv
  <2>2. ASSUME mishap = {}, NEW t \in Threads
        PROVE  ~Running(t)
    <3>1. Orderly
      BY <2>2 DEF IInv, FaultInv
    <3>2. AtWork(Loader)
      BY <3>1 DEF Orderly, Actors
    <3> QED
      BY <3>1, <3>2 DEF Orderly, OneThread, AtWork
  <2>3. mishap \cap {"no_file", "no_shrinker"} = {}
    BY DEF HeldInv, Registered
  <2> QED
    BY <2>1, <2>2, <2>3
<1> QED
  BY SysfsInvariance, <1>1, PTL
=============================================================================
