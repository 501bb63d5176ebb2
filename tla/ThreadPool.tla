----------------------------- MODULE ThreadPool -----------------------------
(***************************************************************************)
(* The thread pool of System/Threads.cpp: PooledThread, its handshake over *)
(* two atomics and two Events, ThreadPool and ThreadWrapper.               *)
(*                                                                         *)
(* One thread, the main one, uses the pool: it runs the job of a stream    *)
(* processor (StreamProcessor::start), joins it and gives the thread back  *)
(* (StreamProcessor::join), and destroys the pool at exit.  A step is one  *)
(* access to an atomic or one operation of an Event; the comment before a  *)
(* step names the statement.                                               *)
(***************************************************************************)
EXTENDS Naturals, Sequences, FiniteSets

CONSTANTS
    Jobs,       \* the jobs of the stream processors
    Threads,    \* PooledThread objects the pool may come to own
    NoJob,      \* an empty std::unique_ptr
    NoThread    \* a null ThreadWrapper

ASSUME NoJobAssumption == NoJob \notin Jobs
ASSUME NoThreadAssumption == NoThread \notin Threads

VARIABLES
    caller,             \* where the main thread is, with which thread and job
    wrapper,            \* job -> thread of its ThreadWrapper
    all_threads,        \* threads that were created
    inactive_threads,   \* stack of the threads that were given back
    requested_state,    \* thread -> atomic the caller writes
    reported_state,     \* thread -> atomic the worker writes
    requested_signal,   \* thread -> requested_state_cv.signalled
    reported_signal,    \* thread -> reported_state_cv.signalled
    slot,               \* thread -> PooledThread::job
    worker,             \* thread -> where thread_func2 is, with which job
    executed            \* history: job -> number of times it was executed

callerVars == <<caller, wrapper, all_threads, inactive_threads>>
sharedVars == <<requested_state, reported_state, requested_signal, reported_signal, slot>>
vars == <<callerVars, sharedVars, worker, executed>>

Idle == [pc |-> "idle", thread |-> NoThread, job |-> NoJob]
At(pc) == caller.pc = pc
Go(pc) == caller' = IF pc = "idle" THEN Idle ELSE [caller EXCEPT !.pc = pc]

Init ==
    /\ caller = Idle
    /\ wrapper = [j \in Jobs |-> NoThread]
    /\ all_threads = {}
    /\ inactive_threads = <<>>
    /\ requested_state = [t \in Threads |-> "None"]
    /\ reported_state = [t \in Threads |-> "WaitingForJob"]
    /\ requested_signal = [t \in Threads |-> FALSE]
    /\ reported_signal = [t \in Threads |-> FALSE]
    /\ slot = [t \in Threads |-> NoJob]
    /\ worker = [t \in Threads |-> [pc |-> "none", job |-> NoJob]]
    /\ executed = [j \in Jobs |-> 0]
-----------------------------------------------------------------------------
\* The main thread: ThreadPool::allocate_thread and PooledThread::run.

\* A job is started once (StreamProcessor::start leaves Uninitialized).
Startable(j) == wrapper[j] = NoThread /\ executed[j] = 0

\* allocate_thread takes the thread given back last ...
ReuseThread(j) ==
    /\ At("idle") /\ Startable(j)
    /\ inactive_threads # <<>>
    /\ LET t == inactive_threads[Len(inactive_threads)]
       IN  /\ caller' = [pc |-> "set_job", thread |-> t, job |-> j]
           /\ wrapper' = [wrapper EXCEPT ![j] = t]
    /\ inactive_threads' =
            SubSeq(inactive_threads, 1, Len(inactive_threads) - 1)
    /\ UNCHANGED <<all_threads, sharedVars, worker, executed>>

\* ... or makes one, whose std::thread is running from then on.
CreateThread(j) ==
    /\ At("idle") /\ Startable(j)
    /\ inactive_threads = <<>>
    /\ Threads \ all_threads # {}
    /\ LET t == CHOOSE t \in Threads : t \notin all_threads
       IN  /\ all_threads' = all_threads \cup {t}
           /\ caller' = [pc |-> "set_job", thread |-> t, job |-> j]
           /\ wrapper' = [wrapper EXCEPT ![j] = t]
           /\ worker' = [worker EXCEPT ![t].pc = "report_waiting"]
    /\ UNCHANGED <<inactive_threads, sharedVars, executed>>

\* this->job = std::move(f)
SetJob ==
    /\ At("set_job")
    /\ slot' = [slot EXCEPT ![caller.thread] = caller.job]
    /\ Go("request_job")
    /\ UNCHANGED <<wrapper, all_threads, inactive_threads, requested_state,
                   reported_state, requested_signal, reported_signal, worker, executed>>

Request(state, from, to) ==
    /\ At(from)
    /\ requested_state' = [requested_state EXCEPT ![caller.thread] = state]
    /\ Go(to)
    /\ UNCHANGED <<wrapper, all_threads, inactive_threads, reported_state,
                   requested_signal, reported_signal, slot, worker, executed>>

\* requested_state_cv.signal()
SignalRequest(from, to) ==
    /\ At(from)
    /\ requested_signal' = [requested_signal EXCEPT ![caller.thread] = TRUE]
    /\ Go(to)
    /\ UNCHANGED <<wrapper, all_threads, inactive_threads, requested_state,
                   reported_state, reported_signal, slot, worker, executed>>

\* The load of reported_state at the head of a loop.
CheckReport(from, states, to) ==
    /\ At(from)
    /\ reported_state[caller.thread] \in states
    /\ Go(to)
    /\ UNCHANGED <<wrapper, all_threads, inactive_threads, sharedVars, worker, executed>>

\* reported_state_cv.wait(): Event::wait returns when the flag is set.
WaitReport(from, to) ==
    /\ At(from)
    /\ reported_signal[caller.thread]
    /\ reported_signal' = [reported_signal EXCEPT ![caller.thread] = FALSE]
    /\ Go(to)
    /\ UNCHANGED <<wrapper, all_threads, inactive_threads, requested_state,
                   reported_state, requested_signal, slot, worker, executed>>

\* Mutant: the Event is signalled before the state is set.
Run_SignalFirst ==
    \/ SetJob
    \/ SignalRequest("request_job", "signal_job")
    \/ Request("JobReady", "signal_job", "run_check")
    \/ CheckReport("run_check", {"RunningJob"}, "request_none")
    \/ CheckReport("run_check", {"WaitingForJob", "Stopped"}, "run_wait")
    \/ WaitReport("run_wait", "run_check")
    \/ Request("None", "request_none", "signal_none")
    \/ SignalRequest("signal_none", "idle")

\* Mutant: run returns as soon as the job was requested.
Run_NotAwaited ==
    \/ SetJob
    \/ Request("JobReady", "request_job", "signal_job")
    \/ SignalRequest("signal_job", "request_none")
    \/ Request("None", "request_none", "signal_none")
    \/ SignalRequest("signal_none", "idle")

\* PooledThread::run
Run ==
    \/ SetJob
    \/ Request("JobReady", "request_job", "signal_job")
    \/ SignalRequest("signal_job", "run_check")
    \/ CheckReport("run_check", {"RunningJob"}, "request_none")
    \/ CheckReport("run_check", {"WaitingForJob", "Stopped"}, "run_wait")
    \/ WaitReport("run_wait", "run_check")
    \/ Request("None", "request_none", "signal_none")
    \/ SignalRequest("signal_none", "idle")
-----------------------------------------------------------------------------
\* The main thread: PooledThread::join, ThreadWrapper::reset, PooledThread::stop.

BeginJoin(j) ==
    /\ At("idle")
    /\ wrapper[j] # NoThread
    /\ caller' = [pc |-> "join_check", thread |-> wrapper[j], job |-> j]
    /\ UNCHANGED <<wrapper, all_threads, inactive_threads, sharedVars, worker, executed>>

\* Mutant: a running thread counts as one that is done.
Join_Running ==
    CheckReport("join_check", {"WaitingForJob", "RunningJob", "Stopped"}, "release")

\* PooledThread::join
Join ==
    \/ CheckReport("join_check", {"WaitingForJob", "Stopped"}, "release")
    \/ CheckReport("join_check", {"RunningJob"}, "join_wait")
    \/ WaitReport("join_wait", "join_check")

\* Mutant: the pointer is cleared before it is given back.
ReleaseThread_Cleared ==
    /\ At("release")
    /\ inactive_threads' = Append(inactive_threads, NoThread)
    /\ wrapper' = [wrapper EXCEPT ![caller.job] = NoThread]
    /\ caller' = Idle
    /\ UNCHANGED <<all_threads, sharedVars, worker, executed>>

\* Mutant: the thread is not put back.
ReleaseThread_Lost ==
    /\ At("release")
    /\ wrapper' = [wrapper EXCEPT ![caller.job] = NoThread]
    /\ caller' = Idle
    /\ UNCHANGED <<inactive_threads, all_threads, sharedVars, worker, executed>>

\* ThreadWrapper::reset and ThreadPool::release_thread
ReleaseThread ==
    /\ At("release")
    /\ inactive_threads' = Append(inactive_threads, caller.thread)
    /\ wrapper' = [wrapper EXCEPT ![caller.job] = NoThread]
    /\ caller' = Idle
    /\ UNCHANGED <<all_threads, sharedVars, worker, executed>>

\* ~ThreadPool, at exit, when every stream processor is gone.
BeginDestroy ==
    /\ At("idle")
    /\ \A j \in Jobs : wrapper[j] = NoThread
    /\ Go("stop_next")
    /\ UNCHANGED <<wrapper, all_threads, inactive_threads, sharedVars, worker, executed>>

\* It stops the threads in turn; here one that was stopped leaves all_threads.
StopNext(t) ==
    /\ At("stop_next")
    /\ t \in all_threads
    /\ caller' = [pc |-> "request_stop", thread |-> t, job |-> NoJob]
    /\ UNCHANGED <<wrapper, all_threads, inactive_threads, sharedVars, worker, executed>>

\* thread->join()
JoinStopped ==
    /\ At("stop_join")
    /\ worker[caller.thread].pc = "ended"
    /\ all_threads' = all_threads \ {caller.thread}
    /\ caller' = [Idle EXCEPT !.pc = "stop_next"]
    /\ UNCHANGED <<wrapper, inactive_threads, sharedVars, worker, executed>>

\* PooledThread::stop
Stop ==
    \/ Request("Terminate", "request_stop", "signal_stop")
    \/ SignalRequest("signal_stop", "stop_join")
    \/ JoinStopped

Destroyed ==
    /\ At("stop_next")
    /\ all_threads = {}
    /\ inactive_threads' = <<>>
    /\ Go("destroyed")
    /\ UNCHANGED <<wrapper, all_threads, sharedVars, worker, executed>>
-----------------------------------------------------------------------------
\* A worker: PooledThread::thread_func and thread_func2.

Worker(t, from, to) ==
    /\ worker[t].pc = from
    /\ worker' = [worker EXCEPT ![t].pc = to]
    /\ UNCHANGED callerVars

Report(t, state, from, to) ==
    /\ Worker(t, from, to)
    /\ reported_state' = [reported_state EXCEPT ![t] = state]
    /\ UNCHANGED <<requested_state, requested_signal, reported_signal, slot, executed>>

\* reported_state_cv.signal()
SignalReport(t, from, to) ==
    /\ Worker(t, from, to)
    /\ reported_signal' = [reported_signal EXCEPT ![t] = TRUE]
    /\ UNCHANGED <<requested_state, reported_state, requested_signal, slot, executed>>

\* The load of requested_state at the head of a loop.
CheckRequest(t, states, from, to) ==
    /\ requested_state[t] \in states
    /\ Worker(t, from, to)
    /\ UNCHANGED <<sharedVars, executed>>

\* requested_state_cv.wait()
WaitRequest(t, from, to) ==
    /\ requested_signal[t]
    /\ Worker(t, from, to)
    /\ requested_signal' = [requested_signal EXCEPT ![t] = FALSE]
    /\ UNCHANGED <<requested_state, reported_state, reported_signal, slot, executed>>

\* auto job = std::move(this->job)
TakeJob(t) ==
    /\ worker[t].pc = "take_job"
    /\ worker' = [worker EXCEPT ![t] = [pc |-> "report_running", job |-> slot[t]]]
    /\ slot' = [slot EXCEPT ![t] = NoJob]
    /\ UNCHANGED <<callerVars, requested_state, reported_state, requested_signal,
                   reported_signal, executed>>

\* (*job)(), and the end of the scope of job
ExecuteJob(t) ==
    /\ worker[t].pc = "execute"
    /\ worker[t].job \in Jobs
    /\ worker' = [worker EXCEPT ![t] = [pc |-> "report_waiting", job |-> NoJob]]
    /\ executed' = [executed EXCEPT ![worker[t].job] = @ + 1]
    /\ UNCHANGED <<callerVars, sharedVars>>

wait_for_request(t) ==
    \/ CheckRequest(t, {"None"}, "check_request", "wait_request")
    \/ CheckRequest(t, {"JobReady"}, "check_request", "take_job")
    \/ CheckRequest(t, {"Terminate"}, "check_request", "report_stopped")
    \/ WaitRequest(t, "wait_request", "check_request")

\* Mutant: the worker does not wait for the request to be withdrawn.
wait_for_none_Skipped(t) ==
    CheckRequest(t, {"None", "JobReady", "Terminate"}, "check_none", "execute")

wait_for_none(t) ==
    \/ CheckRequest(t, {"None"}, "check_none", "execute")
    \/ CheckRequest(t, {"JobReady", "Terminate"}, "check_none", "wait_none")
    \/ WaitRequest(t, "wait_none", "check_none")

\* Mutant: the thread is reported idle before the job is executed.
thread_func2_EarlyReport(t) ==
    \/ Report(t, "WaitingForJob", "report_waiting", "signal_waiting")
    \/ SignalReport(t, "signal_waiting", "check_request")
    \/ wait_for_request(t)
    \/ TakeJob(t)
    \/ Report(t, "RunningJob", "report_running", "signal_running")
    \/ SignalReport(t, "signal_running", "check_none")
    \/ CheckRequest(t, {"None"}, "check_none", "report_early")
    \/ CheckRequest(t, {"JobReady", "Terminate"}, "check_none", "wait_none")
    \/ WaitRequest(t, "wait_none", "check_none")
    \/ Report(t, "WaitingForJob", "report_early", "signal_early")
    \/ SignalReport(t, "signal_early", "execute")
    \/ ExecuteJob(t)

thread_func2(t) ==
    \/ Report(t, "WaitingForJob", "report_waiting", "signal_waiting")
    \/ SignalReport(t, "signal_waiting", "check_request")
    \/ wait_for_request(t)
    \/ TakeJob(t)
    \/ Report(t, "RunningJob", "report_running", "signal_running")
    \/ SignalReport(t, "signal_running", "check_none")
    \/ wait_for_none(t)
    \/ ExecuteJob(t)

\* A job that lets an exception out ends the process (std::terminate).
thread_func(t) ==
    \/ thread_func2(t)
    \/ Report(t, "Stopped", "report_stopped", "signal_stopped")
    \/ SignalReport(t, "signal_stopped", "ended")
-----------------------------------------------------------------------------
\* What the main thread may begin, and what it is in the middle of.
CallerBegins ==
    \/ \E j \in Jobs : \/ ReuseThread(j)
                      \/ CreateThread(j)
                      \/ BeginJoin(j)
    \/ BeginDestroy
CallerGoesOn ==
    \/ Run
    \/ Join \/ ReleaseThread
    \/ (\E t \in Threads : StopNext(t)) \/ Stop \/ Destroyed

Next ==
    \/ CallerBegins
    \/ CallerGoesOn
    \/ \E t \in Threads : thread_func(t)

\* The system schedules every thread; the main thread need not begin anything.
Fairness ==
    /\ WF_vars(CallerGoesOn)
    /\ \A t \in Threads : WF_vars(thread_func(t))

Spec == Init /\ [][Next]_vars /\ Fairness
-----------------------------------------------------------------------------
\* Properties.

CallerPcs == {"idle", "set_job", "request_job", "signal_job", "run_check",
    "run_wait", "request_none", "signal_none", "join_check",
    "join_wait", "release", "stop_next", "request_stop", "signal_stop",
    "stop_join", "destroyed"}
WorkerPcs == {"none", "report_waiting", "signal_waiting", "check_request",
    "wait_request", "take_job", "report_running", "signal_running",
    "check_none", "wait_none", "execute", "report_stopped", "signal_stopped", "ended"}

\* The variables keep their types.
TypeOK ==
    /\ caller \in [pc : CallerPcs, thread : Threads \cup {NoThread}, job : Jobs \cup {NoJob}]
    /\ wrapper \in [Jobs -> Threads \cup {NoThread}]
    /\ all_threads \subseteq Threads
    /\ inactive_threads \in Seq(Threads)
    /\ requested_state \in [Threads -> {"None", "JobReady", "Terminate"}]
    /\ reported_state \in [Threads -> {"WaitingForJob", "RunningJob", "Stopped"}]
    /\ requested_signal \in [Threads -> BOOLEAN]
    /\ reported_signal \in [Threads -> BOOLEAN]
    /\ slot \in [Threads -> Jobs \cup {NoJob}]
    /\ worker \in [Threads -> [pc : WorkerPcs, job : Jobs \cup {NoJob}]]
    /\ executed \in [Jobs -> Nat]

\* Threads.cpp, allocate_thread: a thread that is handed out again has nothing
\* left to do and no request pending, so that the next run is not mistaken for
\* the last one, and the next job not for the old one.
IdleThreadsWait ==
    \A i \in DOMAIN inactive_threads :
        LET t == inactive_threads[i]
        IN  /\ worker[t].pc \in {"signal_waiting", "check_request", "wait_request"} \/
               caller.pc \in {"stop_next", "request_stop", "signal_stop", "stop_join"}
            /\ worker[t].job = NoJob /\ slot[t] = NoJob
            /\ requested_state[t] # "JobReady" /\ reported_state[t] # "RunningJob"

\* The pool loses no thread and lends none twice: every thread it made is
\* either with exactly one stream processor or once in inactive_threads.
ThreadsAccounted ==
    \A t \in all_threads :
        Cardinality({j \in Jobs : wrapper[j] = t})
            + Cardinality({i \in DOMAIN inactive_threads : inactive_threads[i] = t}) = 1

\* PooledThread::run returns when the worker has the job, not before: the
\* job of every stream processor that start() returned for is executed or
\* in the hands of its thread, and the slot is free again.
RunHandsOver ==
    \A j \in Jobs : wrapper[j] # NoThread /\ caller.pc = "idle" =>
        /\ executed[j] = 1 \/ worker[wrapper[j]].job = j
        /\ slot[wrapper[j]] = NoJob

\* PooledThread::job is no atomic: the main thread and the worker are never
\* both about to use it.
SlotNotRaced ==
    At("set_job") => worker[caller.thread].pc # "take_job"

\* The pool is a TaskPool: every job is executed exactly once and is over when
\* join returns, and none that run took is forgotten.
Progress(j) ==
    CASE wrapper[j] = NoThread /\ executed[j] = 0 -> "new"
      [] wrapper[j] # NoThread /\ executed[j] = 0 -> "accepted"
      [] wrapper[j] # NoThread /\ executed[j] = 1 -> "executed"
      [] wrapper[j] = NoThread /\ executed[j] = 1 -> "joined"
      [] OTHER -> "twice"
Tasks == INSTANCE TaskPool WITH job <- [j \in Jobs |-> Progress(j)]
ImplementsTaskPool == Tasks!Spec

\* The TODO in PooledThread::join fears a deadlock: run, join and the
\* destructor of the pool all return, whatever the order of the steps.
OperationsReturn == ~At("idle") ~> (At("idle") \/ At("destroyed"))
=============================================================================
