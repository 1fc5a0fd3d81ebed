---------------------------- MODULE IoctlMonitor ----------------------------
(***************************************************************************)
(* The task monitor of TP_06/EXO-06/taskmonitor.c, controlled by ioctls on *)
(* a character device.  TASKMON_SET_PID replaces the monitored process: it *)
(* stops the thread, gives back tm and its pid, makes new ones and starts  *)
(* a new thread.  Clients that have the device open call etx_ioctl at the  *)
(* same time; nothing orders their calls, but the module is not unloaded   *)
(* while the device is open.                                               *)
(*                                                                         *)
(* An actor that uses a freed tm or thread sets fault, and the model stops *)
(* there: what the driver does afterwards is undefined.                    *)
(***************************************************************************)
EXTENDS Kthread, Integers

CONSTANTS
  Clients,     \* tasks that open the device
  Loader,      \* the task running monitor_init, later monitor_exit
  Pids,        \* the numbers (int32_t) that clients may ask to monitor ...
  FirstPid,    \* ... and the module parameter target (ushort)
  MaxMonitors  \* bound on the tm ever allocated

Actors   == {Loader} \cup Clients
Monitors == 1..MaxMonitors   \* the successive task_monitor objects
UShorts  == 0..65535         \* what an unsigned short holds

ASSUME IoctlAssumption == /\ Loader \notin Clients
                          /\ Pids \subseteq Int /\ FirstPid \in Pids \cap UShorts
                          /\ MaxMonitors \in Nat \ {0}

VARIABLES
  run, value, target,
  device,      \* register_chrdev has succeeded
  tm,          \* the object that the global tm points to, the newest one
  pid,         \* pid[m]: the process that object m is about
  held,        \* the objects allocated, each with a reference on its pid
  pc,
  waits,       \* the thread that each actor's kthread_stop waits for
  uses,        \* the object that each client's get_sample works on
  fault,       \* "none", or the kind of object that was used after its end
  mishap       \* auxiliary: what went wrong from outside the driver

threadVars  == <<thread, should_stop, monitor_thread>>
monitorVars == <<tm, pid, held>>
driverVars  == <<run, value, target, device>>
vars == <<threadVars, monitorVars, driverVars, pc, waits, uses, fault, mishap>>

Idle == {"loaded", "failed", "unloaded", "closed", "open"}

TypeOK ==
  /\ ThreadsTypeOK
  /\ run \in BOOLEAN /\ value \in Pids /\ target \in UShorts /\ device \in BOOLEAN
  /\ tm \in Monitors /\ pid \in [Monitors -> Pids] /\ held \subseteq Monitors
  /\ pc \in [Actors -> Idle \cup
                       {"create_thread", "exit_stop", "free_tm", "sample",
                        "get_sample", "stop", "clear", "start", "set",
                        "set_pid", "put", "copy", "monitor_pid", "wrong_pid",
                        "restart", "stop_wait", "set_pid_wait", "exit_wait"}]
  /\ waits \in [Actors -> Threads \cup {NoThread}]
  /\ uses \in [Clients -> Monitors]
  /\ fault \in {"none", "thread", "tm", "double_put"}
  /\ mishap \subseteq {"overlap", "no_thread", "bad_pid"}

\* monitor_init has called monitor_pid(target)
Init ==
  /\ ThreadsInit
  /\ run = FALSE /\ value = FirstPid /\ target = FirstPid /\ device = FALSE
  /\ tm = 1 /\ pid = [m \in Monitors |-> FirstPid] /\ held = {1}
  /\ pc = [a \in Actors |-> IF a = Loader THEN "create_thread" ELSE "closed"]
  /\ waits = [a \in Actors |-> NoThread]
  /\ uses = [c \in Clients |-> 1]
  /\ fault = "none" /\ mishap = {}

Goto(a, label) == pc' = [pc EXCEPT ![a] = label]

\* the actors inside a function of the driver
Busy == {a \in Actors : pc[a] \notin Idle}

-----------------------------------------------------------------------------
(* Threads, and the monitored process.                                     *)

KthreadRun == \/ ThreadRuns /\ UNCHANGED mishap
              \/ ThreadFails /\ mishap' = mishap \cup {"no_thread"}

\* kthread_stop(monitor_thread)
KthreadStop(a, next) ==
  IF CanStop
    THEN /\ AskToStop
         /\ waits' = [waits EXCEPT ![a] = monitor_thread]
         /\ Goto(a, next)
         /\ UNCHANGED fault
    ELSE fault' = "thread" /\ UNCHANGED <<should_stop, waits, pc>>

ThreadExit(t) ==
  /\ ThreadEnds(t)
  /\ UNCHANGED <<monitorVars, driverVars, pc, waits, uses, fault, mishap>>

\* the thread prints a sample of a tm that is freed
ThreadSample(t) ==
  /\ Running(t) /\ tm \notin held
  /\ fault' = "tm"
  /\ UNCHANGED <<threadVars, monitorVars, driverVars, pc, waits, uses, mishap>>

KeepsTm == UNCHANGED held   \* mutant: the old pid and tm are not given back

\* put_pid(tm->pid) and kfree(tm)
PutTm == held' = held \ {tm}

FreeTm(a, next) ==
  /\ IF tm \in held THEN Goto(a, next) /\ UNCHANGED fault
                    ELSE fault' = "double_put" /\ UNCHANGED pc
  /\ PutTm

\* monitor_pid(value) finds the process and points tm to a new object
ProcessFound == /\ tm < MaxMonitors
                /\ tm' = tm + 1
                /\ held' = held \cup {tm + 1}
                /\ pid' = [pid EXCEPT ![tm + 1] = value]

-----------------------------------------------------------------------------
(* etx_ioctl.                                                              *)

Open(c) == /\ pc[c] = "closed" /\ pc[Loader] = "loaded" /\ device
           /\ Goto(c, "open")
           /\ UNCHANGED <<threadVars, monitorVars, driverVars, waits, uses,
                          fault, mishap>>

Close(c) == /\ pc[c] = "open"
            /\ Goto(c, "closed")
            /\ UNCHANGED <<threadVars, monitorVars, driverVars, waits, uses,
                           fault, mishap>>

AnyRun == run \in BOOLEAN   \* mutant: TASKMON_START without its test

NotRunning == ~run

\* the command of client c and, for TASKMON_STOP and TASKMON_START, its test
Ioctl(c) ==
  /\ pc[c] = "open"
  /\ \/ Goto(c, "sample") \/ Goto(c, "set_pid")
     \/ run /\ Goto(c, "stop")
     \/ NotRunning /\ Goto(c, "start")
  /\ mishap' = IF Busy = {} THEN mishap ELSE mishap \cup {"overlap"}
  /\ UNCHANGED <<threadVars, monitorVars, driverVars, waits, uses, fault>>

\* WR_VALUE writes the value that TASKMON_SET_PID uses too
WrValue(c) ==
  /\ pc[c] = "open"
  /\ value' \in Pids
  /\ mishap' = IF Busy = {} THEN mishap ELSE mishap \cup {"overlap"}
  /\ UNCHANGED <<threadVars, monitorVars, run, target, device, pc, waits, uses, fault>>

\* GET_SAMPLE and GET_SAMPLE_STRUCT: get_sample is called on the tm of the time
Sample(c) == /\ pc[c] = "sample"
             /\ uses' = [uses EXCEPT ![c] = tm]
             /\ Goto(c, "get_sample")
             /\ UNCHANGED <<threadVars, monitorVars, driverVars, waits,
                            fault, mishap>>

GetSample(c) == /\ pc[c] = "get_sample"
                /\ IF uses[c] \in held THEN Goto(c, "open") /\ UNCHANGED fault
                                       ELSE fault' = "tm" /\ UNCHANGED pc
                /\ UNCHANGED <<threadVars, monitorVars, driverVars, waits, uses,
                               mishap>>

\* TASKMON_STOP
Stop(c) == /\ pc[c] = "stop"
           /\ KthreadStop(c, "stop_wait")
           /\ UNCHANGED <<thread, monitor_thread, monitorVars, driverVars, uses,
                          mishap>>

Stopped(c) == /\ pc[c] = "stop_wait" /\ ~Running(waits[c])
              /\ Goto(c, "clear")
              /\ UNCHANGED <<threadVars, monitorVars, driverVars, waits, uses,
                             fault, mishap>>

ClearRun(c) == /\ pc[c] = "clear"
               /\ run' = FALSE
               /\ Goto(c, "open")
               /\ UNCHANGED <<threadVars, monitorVars, value, target, device, waits, uses,
                              fault, mishap>>

\* TASKMON_START; an error from kthread_run is not looked at
Start(c) == /\ pc[c] = "start"
            /\ KthreadRun
            /\ Goto(c, "set")
            /\ UNCHANGED <<should_stop, monitorVars, driverVars, waits, uses,
                           fault>>

SetRun(c) == /\ pc[c] = "set"
             /\ run' = TRUE
             /\ Goto(c, "open")
             /\ UNCHANGED <<threadVars, monitorVars, value, target, device, waits, uses,
                            fault, mishap>>

\* TASKMON_SET_PID, which neither tests nor sets run
SetPid(c) == /\ pc[c] = "set_pid"
             /\ KthreadStop(c, "set_pid_wait")
             /\ UNCHANGED <<thread, monitor_thread, monitorVars, driverVars, uses,
                            mishap>>

SetPidStopped(c) == /\ pc[c] = "set_pid_wait" /\ ~Running(waits[c])
                    /\ Goto(c, "put")
                    /\ UNCHANGED <<threadVars, monitorVars, driverVars, waits,
                                   uses, fault, mishap>>

PutOld(c) == /\ pc[c] = "put"
             /\ FreeTm(c, "copy")
             /\ UNCHANGED <<threadVars, tm, pid, driverVars, waits, uses, mishap>>

\* the value of the client, or the old one if it cannot be copied
CopyValue(c) == /\ pc[c] = "copy"
                /\ value' \in Pids
                /\ Goto(c, "monitor_pid")
                /\ UNCHANGED <<threadVars, monitorVars, run, target, device, waits,
                               uses, fault, mishap>>

MonitorPid(c) ==
  /\ pc[c] = "monitor_pid"
  /\ \/ /\ ProcessFound
        /\ Goto(c, "restart") /\ UNCHANGED mishap
     \/ /\ UNCHANGED monitorVars
        /\ Goto(c, "wrong_pid") /\ mishap' = mishap \cup {"bad_pid"}
  /\ UNCHANGED <<threadVars, driverVars, waits, uses, fault>>

\* without a process, tm is given back a second time
WrongPid(c) == /\ pc[c] = "wrong_pid"
               /\ FreeTm(c, "open")
               /\ UNCHANGED <<threadVars, tm, pid, driverVars, waits, uses,
                              mishap>>

OldTarget == target   \* mutant: target is left alone

\* target, an unsigned short, keeps 16 bits of value
UShort(n) == n % 65536

NewTarget == UShort(value)

Restart(c) == /\ pc[c] = "restart"
              /\ target' = NewTarget
              /\ KthreadRun
              /\ Goto(c, "open")
              /\ UNCHANGED <<should_stop, monitorVars, run, value, device, waits,
                             uses, fault>>

-----------------------------------------------------------------------------
(* monitor_init and monitor_exit.                                          *)

\* run is set before the device exists; without a thread, tm is given back.  An
\* error from register_chrdev is not looked at: the module is loaded, but has no
\* device that a client could open.
CreateThread ==
  /\ pc[Loader] = "create_thread"
  /\ KthreadRun
  /\ IF monitor_thread' = NoThread
       THEN run' = run /\ device' = device /\ PutTm /\ Goto(Loader, "failed")
       ELSE /\ run' = TRUE /\ device' \in BOOLEAN /\ held' = held
            /\ Goto(Loader, "loaded")
  /\ UNCHANGED <<should_stop, tm, pid, value, target, waits, uses, fault>>

AllClosed == \A c \in Clients : pc[c] = "closed"

\* monitor_thread is never NULL in a loaded module, so exit stops it
Exit == /\ pc[Loader] = "loaded" /\ AllClosed
        /\ Goto(Loader, "exit_stop")
        /\ UNCHANGED <<threadVars, monitorVars, driverVars, waits, uses, fault,
                       mishap>>

ExitStop == /\ pc[Loader] = "exit_stop"
            /\ KthreadStop(Loader, "exit_wait")
            /\ UNCHANGED <<thread, monitor_thread, monitorVars, driverVars, uses,
                           mishap>>

ExitStopped == /\ pc[Loader] = "exit_wait" /\ ~Running(waits[Loader])
               /\ Goto(Loader, "free_tm")
               /\ UNCHANGED <<threadVars, monitorVars, driverVars, waits, uses,
                              fault, mishap>>

ExitFree == /\ pc[Loader] = "free_tm"
            /\ FreeTm(Loader, "unloaded")
            /\ UNCHANGED <<threadVars, tm, pid, driverVars, waits, uses, mishap>>

-----------------------------------------------------------------------------
ClientStep(c) == \/ Sample(c) \/ GetSample(c)
                 \/ Stop(c) \/ Stopped(c) \/ ClearRun(c) \/ Start(c) \/ SetRun(c)
                 \/ SetPid(c) \/ SetPidStopped(c) \/ PutOld(c) \/ CopyValue(c)
                 \/ MonitorPid(c) \/ WrongPid(c) \/ Restart(c)

LoaderStep == CreateThread \/ ExitStop \/ ExitStopped \/ ExitFree

Halted == /\ fault # "none" \/ pc[Loader] \in {"failed", "unloaded"}
          /\ UNCHANGED vars

Next == \/ /\ fault = "none"
           /\ \/ \E c \in Clients : \/ ClientStep(c) \/ Open(c) \/ Close(c)
                                    \/ Ioctl(c) \/ WrValue(c)
              \/ LoaderStep \/ Exit
              \/ \E t \in Threads : ThreadExit(t) \/ ThreadSample(t)
        \/ Halted

\* Tasks inside the driver and threads asked to stop are scheduled; nothing
\* obliges a client to call or anyone to unload the module.
Fairness == /\ \A c \in Clients : WF_vars(fault = "none" /\ ClientStep(c))
            /\ WF_vars(fault = "none" /\ LoaderStep)
            /\ \A t \in Threads : WF_vars(fault = "none" /\ ThreadExit(t))

Spec == Init /\ [][Next]_vars /\ Fairness

-----------------------------------------------------------------------------
(* Properties.                                                             *)

\* As long as no two ioctls overlap, every pid exists and kthread_run succeeds,
\* the only wrong access is that TASKMON_SET_PID or monitor_exit stops the
\* thread that a TASKMON_STOP has already ended: neither tests run (l.205, 252).
OrderedCallsAreSafe ==
  mishap = {} /\ fault # "none" => fault = "thread" /\ ~run

\* Under the same conditions run tells, between two ioctls, whether the thread
\* monitor_thread names is alive, and no other thread is.
RunTracksThread ==
  mishap = {} /\ pc[Loader] = "loaded" /\ Busy = {}
    => \A t \in Threads : Running(t) <=> run /\ t = monitor_thread

\* Under the same conditions target is, between two ioctls, the process that the
\* thread samples, however often TASKMON_SET_PID and WR_VALUE were called, as long
\* as the number of that process fits in an unsigned short (l.19, 33, 216); of a
\* larger one target keeps 16 bits, which are the number of another process.
TargetIsMonitored ==
  mishap = {} /\ pc[Loader] = "loaded" /\ Busy = {}
    => target = pid[tm] \/ (pid[tm] \notin UShorts /\ target = UShort(pid[tm]))

\* Under the same conditions an unloaded or rejected module has given back every
\* pid and tm it ever took, and every thread has ended.
ResourcesReturned ==
  mishap \subseteq {"no_thread"}
    /\ pc[Loader] \in {"failed", "unloaded"} /\ fault = "none"
    => held = {} /\ \A t \in Threads : ~Running(t)

\* However calls overlap, each ioctl ends, and so does monitor_exit: two tasks
\* can wait for the same thread, but not for each other.
CallsEnd == \A a \in Actors : (a \in Busy) ~> (a \notin Busy \/ fault # "none")
=============================================================================
