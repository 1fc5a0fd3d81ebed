---------------------------- MODULE SysfsMonitor ----------------------------
(***************************************************************************)
(* Starting and stopping the sampling thread of the two task monitors that *)
(* are controlled through a sysfs file: TP_06/EXO-05/taskmonitor.c and     *)
(* TP_07/EXO-05/taskmonitor2.c.  Their sysfs_store is the same; their init *)
(* and exit differ, and the model runs either driver.                      *)
(*                                                                         *)
(* monitor_init starts the thread and creates the file, which from then on *)
(* any number of tasks can write "start" and "stop" to; monitor_exit stops *)
(* the thread and removes the file.  Nothing but the variable run tells    *)
(* them about each other, and no lock protects it.                         *)
(***************************************************************************)
EXTENDS Kthread

CONSTANTS
  Drivers,   \* the drivers to model, of "TP_06" and "TP_07"
  Loader,    \* the task running monitor_init, later monitor_exit
  Writers    \* tasks that write to the sysfs file

Actors  == {Loader} \cup Writers

ASSUME ControlAssumption == /\ Drivers \subseteq {"TP_06", "TP_07"}
                            /\ Loader \notin Writers

VARIABLES
  driver,           \* the driver that runs
  run, my_string,
  tm,               \* the memory of tm is allocated
  file,             \* the sysfs file exists
  held,             \* of the directory and the shrinker, what the driver has got
  pc,
  target,           \* the thread that each actor's kthread_stop waits for
  fault,            \* a freed thread or tm, or unloaded code, was used
  mishap            \* auxiliary: what went wrong from outside the driver

threadVars == <<thread, should_stop, monitor_thread>>
driverVars == <<driver, run, my_string, tm, file, held>>
vars == <<threadVars, driverVars, pc, target, fault, mishap>>

TypeOK ==
  /\ driver \in Drivers
  /\ ThreadsTypeOK
  /\ run \in BOOLEAN /\ tm \in BOOLEAN /\ file \in BOOLEAN
  /\ my_string \in {"", "start", "stop"}
  /\ held \subseteq {"directory", "shrinker"}
  /\ pc \in [Actors -> {"create_thread", "create_file", "set_run", "r_sysfs",
                        "register", "loaded", "failed", "exit_stop", "free_tm",
                        "remove_file", "drain", "unregister", "unloaded", "idle", "cmp_stop",
                        "stop", "wait", "clear", "cmp_start", "start", "set"}]
  /\ target \in [Actors -> Threads \cup {NoThread}]
  /\ fault \in BOOLEAN
  /\ mishap \subseteq {"overlap", "no_thread", "no_file", "no_shrinker"}

\* monitor_init has got the pid and allocated tm
Init ==
  /\ driver \in Drivers
  /\ ThreadsInit
  /\ run = FALSE /\ my_string = ""
  /\ tm = TRUE /\ file = FALSE /\ held = {}
  /\ pc = [a \in Actors |-> IF a = Loader THEN "create_thread" ELSE "idle"]
  /\ target = [a \in Actors |-> NoThread]
  /\ fault = FALSE /\ mishap = {}

Goto(a, label) == pc' = [pc EXCEPT ![a] = label]

\* the actors inside a function of the driver
Busy == {a \in Actors : pc[a] \notin {"idle", "loaded", "failed", "unloaded"}}

-----------------------------------------------------------------------------
(* The sampling threads.                                                   *)

KthreadRun == \/ ThreadRuns /\ UNCHANGED mishap
              \/ ThreadFails /\ mishap' = mishap \cup {"no_thread"}

KthreadStop(a) ==
  IF CanStop
    THEN /\ AskToStop
         /\ target' = [target EXCEPT ![a] = monitor_thread]
         /\ Goto(a, "wait")
         /\ UNCHANGED fault
    ELSE fault' = TRUE /\ UNCHANGED <<should_stop, target, pc>>

KthreadStopped(a) == pc[a] = "wait" /\ ~Running(target[a])

ThreadExit(t) == /\ ThreadEnds(t)
                 /\ UNCHANGED <<driverVars, pc, target, fault, mishap>>

\* monitor_fn samples: TP_06 reads tm->pid; once the module is gone, neither
\* driver has code to run
ThreadSample(t) == /\ Running(t)
                   /\ \/ driver = "TP_06" /\ ~tm
                      \/ pc[Loader] = "unloaded"
                   /\ fault' = TRUE
                   /\ UNCHANGED <<threadVars, driverVars, pc, target, mishap>>

-----------------------------------------------------------------------------
(* sysfs_store.                                                            *)

\* the command is copied into a buffer that all writers share
Store(w, cmd) ==
  /\ pc[w] = "idle" /\ file
  /\ my_string' = cmd
  /\ Goto(w, "cmp_stop")
  /\ mishap' = IF Busy = {} THEN mishap ELSE mishap \cup {"overlap"}
  /\ UNCHANGED <<threadVars, driver, run, tm, file, held, target, fault>>

CmpStop(w) == /\ pc[w] = "cmp_stop"
              /\ Goto(w, IF my_string = "stop" /\ run
                           THEN "stop" ELSE "cmp_start")
              /\ UNCHANGED <<threadVars, driverVars, target, fault, mishap>>

Stop(w) == /\ pc[w] = "stop"
           /\ KthreadStop(w)
           /\ UNCHANGED <<thread, monitor_thread, driverVars, mishap>>

Stopped(w) == /\ w \in Writers /\ KthreadStopped(w)
              /\ Goto(w, "clear")
              /\ UNCHANGED <<threadVars, driverVars, target, fault, mishap>>

RunStays == run  \* mutant: the thread is stopped and run not cleared

Cleared == FALSE

ClearRun(w) == /\ pc[w] = "clear"
               /\ run' = Cleared
               /\ Goto(w, "cmp_start")
               /\ UNCHANGED <<threadVars, driver, my_string, tm, file, held,
                              target, fault, mishap>>

CmpStart(w) == /\ pc[w] = "cmp_start"
               /\ Goto(w, IF my_string = "start" /\ ~run
                            THEN "start" ELSE "idle")
               /\ UNCHANGED <<threadVars, driverVars, target, fault, mishap>>

\* an error from kthread_run is not looked at
Start(w) == /\ pc[w] = "start"
            /\ KthreadRun
            /\ Goto(w, "set")
            /\ UNCHANGED <<should_stop, driver, run, my_string, tm, file, held,
                           target, fault>>

SetRunning(w) == /\ pc[w] = "set"
                 /\ run' = TRUE
                 /\ Goto(w, "idle")
                 /\ UNCHANGED <<threadVars, driver, my_string, tm, file, held,
                                target, fault, mishap>>

-----------------------------------------------------------------------------
(* monitor_init.                                                           *)

\* without a thread, init gives tm back (TP_06) and the module is not loaded
CreateThread ==
  /\ pc[Loader] = "create_thread"
  /\ KthreadRun
  /\ IF monitor_thread' = NoThread
       THEN tm' = (driver = "TP_07") /\ Goto(Loader, "failed")
       ELSE tm' = tm /\ Goto(Loader, "create_file")
  /\ UNCHANGED <<should_stop, driver, run, my_string, file, held, target, fault>>

\* the directory, and the file in it
CreateFile ==
  /\ pc[Loader] = "create_file"
  /\ held' = held \cup {"directory"}
  /\ \/ file' = TRUE /\ Goto(Loader, "set_run") /\ UNCHANGED mishap
     \/ file' = FALSE /\ Goto(Loader, "r_sysfs")
        /\ mishap' = mishap \cup {"no_file"}
  /\ UNCHANGED <<threadVars, driver, run, my_string, tm, target, fault>>

SetRun == /\ pc[Loader] = "set_run"
          /\ run' = TRUE
          /\ Goto(Loader, IF driver = "TP_07" THEN "register" ELSE "loaded")
          /\ UNCHANGED <<threadVars, driver, my_string, tm, file, held,
                         target, fault, mishap>>

\* TP_07 goes on if its shrinker is refused
RegisterShrinker ==
  /\ pc[Loader] = "register"
  /\ \/ held' = held \cup {"shrinker"} /\ UNCHANGED mishap
     \/ mishap' = mishap \cup {"no_shrinker"} /\ UNCHANGED held
  /\ Goto(Loader, "loaded")
  /\ UNCHANGED <<threadVars, driver, run, my_string, tm, file, target, fault>>

\* the directory is released, and in TP_06 tm; err is still 0: the module counts as
\* loaded, and its thread runs
RSysfs == /\ pc[Loader] = "r_sysfs"
          /\ held' = held \ {"directory"}
          /\ tm' = (driver = "TP_07")
          /\ Goto(Loader, "loaded")
          /\ UNCHANGED <<threadVars, driver, run, my_string, file,
                         target, fault, mishap>>

-----------------------------------------------------------------------------
(* monitor_exit.                                                           *)

ExitStopsAlways == TRUE   \* mutant: TP_06 does not test run either

\* TP_06 stops the thread if run says that it runs, TP_07 in any case:
\* monitor_thread is not NULL in a module that is loaded
ExitStops == driver = "TP_07" \/ run

Exit == /\ pc[Loader] = "loaded"
        /\ Goto(Loader, IF ExitStops THEN "exit_stop" ELSE "free_tm")
        /\ mishap' = IF Busy = {} THEN mishap ELSE mishap \cup {"overlap"}
        /\ UNCHANGED <<threadVars, driverVars, target, fault>>

ExitStop == /\ pc[Loader] = "exit_stop"
            /\ KthreadStop(Loader)
            /\ UNCHANGED <<thread, monitor_thread, driverVars, mishap>>

ExitStopped == /\ KthreadStopped(Loader)
               /\ Goto(Loader, "free_tm")
               /\ UNCHANGED <<threadVars, driverVars, target, fault, mishap>>

\* put_pid and kfree in TP_06, the last kref_put in TP_07; freeing twice faults
FreeTm == /\ pc[Loader] = "free_tm"
          /\ IF tm THEN Goto(Loader, "remove_file") /\ UNCHANGED fault
                   ELSE fault' = TRUE /\ UNCHANGED pc
          /\ tm' = FALSE
          /\ UNCHANGED <<threadVars, driver, run, my_string, file, held,
                         target, mishap>>

\* kobject_put(tm_obj) removes the file, then waits for the writes in progress; a
\* directory that is released already is released a second time
RemoveFile == /\ pc[Loader] = "remove_file"
              /\ IF "directory" \in held THEN Goto(Loader, "drain") /\ UNCHANGED fault
                                        ELSE fault' = TRUE /\ UNCHANGED pc
              /\ file' = FALSE /\ held' = held \ {"directory"}
              /\ UNCHANGED <<threadVars, driver, run, my_string, tm,
                             target, mishap>>

NoWait == TRUE   \* mutant: does not wait

WritersDone == \A w \in Writers : pc[w] = "idle"

Drain == /\ pc[Loader] = "drain" /\ WritersDone
         /\ run' = FALSE
         /\ Goto(Loader, IF driver = "TP_07" THEN "unregister" ELSE "unloaded")
         /\ UNCHANGED <<threadVars, driver, my_string, tm, file, held,
                        target, fault, mishap>>

\* a shrinker that is not registered is in no list to be taken off
UnregisterShrinker ==
  /\ pc[Loader] = "unregister"
  /\ IF "shrinker" \in held THEN Goto(Loader, "unloaded") /\ UNCHANGED fault
                           ELSE fault' = TRUE /\ UNCHANGED pc
  /\ held' = held \ {"shrinker"}
  /\ UNCHANGED <<threadVars, driver, run, my_string, tm, file, target, mishap>>

-----------------------------------------------------------------------------
WriterStep(w) == \/ CmpStop(w) \/ Stop(w) \/ Stopped(w) \/ ClearRun(w)
                 \/ CmpStart(w) \/ Start(w) \/ SetRunning(w)

LoaderStep == \/ CreateThread \/ CreateFile \/ SetRun \/ RegisterShrinker \/ RSysfs
              \/ ExitStop \/ ExitStopped \/ FreeTm \/ RemoveFile \/ Drain
              \/ UnregisterShrinker

Halted == /\ fault \/ pc[Loader] \in {"failed", "unloaded"}
          /\ UNCHANGED vars

Next == \/ /\ ~fault
           /\ \/ \E w \in Writers : WriterStep(w) \/ \E cmd \in {"start", "stop"} :
                                                        Store(w, cmd)
              \/ LoaderStep \/ Exit
              \/ \E t \in Threads : ThreadExit(t) \/ ThreadSample(t)
        \/ Halted

\* Tasks inside the driver and threads asked to stop are scheduled; nothing
\* obliges anyone to write to the file or to unload the module.
Fairness == /\ \A w \in Writers : WF_vars(~fault /\ WriterStep(w))
            /\ WF_vars(~fault /\ LoaderStep)
            /\ \A t \in Threads : WF_vars(~fault /\ ThreadExit(t))

Spec == Init /\ [][Next]_vars /\ Fairness

-----------------------------------------------------------------------------
(* Properties.                                                             *)

\* As long as writes, init and exit do not overlap and the kernel refuses them
\* nothing, the only wrong access is TP_07's exit after a "stop": it stops a
\* thread that has ended (taskmonitor2.c:421), which TP_06 avoids by testing run.
SequentialUseIsSafe ==
  mishap = {} /\ fault => driver = "TP_07" /\ ~run

\* Under the same conditions run tells, between two operations, whether the
\* thread monitor_thread names is alive, and no other thread is.
RunTracksThread ==
  mishap = {} /\ pc[Loader] = "loaded" /\ Busy = {}
    => \A t \in Threads : Running(t) <=> run /\ t = monitor_thread

\* In an unloaded module no write is in progress, however operations overlapped,
\* and under the same conditions no thread is left.  A module that the kernel
\* refused its file or its shrinker does not get there: exit releases again what
\* init's error path released (taskmonitor2.c:404, 443; taskmonitor.c:171-175,
\* 184-187), or unregisters what was not registered (taskmonitor2.c:397, 449).
UnloadedIsQuiet ==
  pc[Loader] = "unloaded" => /\ \A w \in Writers : pc[w] = "idle"
                             /\ mishap \cap {"no_file", "no_shrinker"} = {}
                             /\ mishap = {} => \A t \in Threads : ~Running(t)

\* However operations overlap, each of them ends: two tasks can wait for the same
\* thread, but not for each other.
CallsEnd == \A a \in Actors : (a \in Busy) ~> (a \notin Busy \/ fault)
=============================================================================
