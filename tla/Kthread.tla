------------------------------- MODULE Kthread -------------------------------
(***************************************************************************)
(* The kernel threads of a driver that keeps one of them in monitor_thread *)
(* and runs monitor_fn in it.  The kernel's side (kthread_run,             *)
(* kthread_stop) is modelled from how the drivers use it; the loop of      *)
(* monitor_fn ends only because it is asked to.                            *)
(***************************************************************************)
EXTENDS Naturals

CONSTANT MaxThreads   \* bound on the threads that kthread_run creates

ASSUME ThreadsAssumption == MaxThreads \in Nat

Threads  == 1..MaxThreads
NoThread == 0         \* in monitor_thread: the error kthread_run returned

VARIABLES
  thread,             \* thread[t]: "none" before kthread_run, "running", "exited"
  should_stop,        \* the threads that kthread_stop was called on
  monitor_thread

ThreadsTypeOK ==
  /\ thread \in [Threads -> {"none", "running", "exited"}]
  /\ should_stop \subseteq Threads
  /\ monitor_thread \in Threads \cup {NoThread}

ThreadsInit == /\ thread = [t \in Threads |-> "none"]
               /\ should_stop = {}
               /\ monitor_thread = NoThread

Running(t) == t \in Threads /\ thread[t] = "running"

\* monitor_thread = kthread_run(monitor_fn, ...): a new thread, or an error
ThreadRuns == \E t \in Threads :
                /\ \A u \in Threads : thread[u] = "none" <=> u >= t
                /\ thread' = [thread EXCEPT ![t] = "running"]
                /\ monitor_thread' = t

ThreadFails == monitor_thread' = NoThread /\ UNCHANGED thread

\* kthread_stop(monitor_thread) asks a thread to end and waits until it has.  It
\* takes a reference on the thread first, so the thread must not have ended:
\* the memory of a thread that has is freed.
CanStop == Running(monitor_thread)

AskToStop == should_stop' = should_stop \cup {monitor_thread}

AsleepForever == {}   \* mutant: kthread_stop does not wake the thread up

Awake == should_stop

\* kthread_should_stop(), or schedule_timeout woken up early: monitor_fn returns
ThreadEnds(t) == /\ Running(t) /\ t \in Awake
                 /\ thread' = [thread EXCEPT ![t] = "exited"]
                 /\ UNCHANGED <<should_stop, monitor_thread>>
=============================================================================
