--------------------------- MODULE ThreadPoolProofs --------------------------
(***************************************************************************)
(* The handshake of the thread pool for any number of jobs and threads: a  *)
(* thread belongs to one job or waits for one, its worker and the main     *)
(* thread are at matching places, and the job slot is used by one of them. *)
(***************************************************************************)
EXTENDS ThreadPool, FiniteSetTheorems, SequenceTheorems, TLAPS

Spares == 1 .. Len(inactive_threads)

\* Where the main thread is.
Resting == {"idle", "stop_next", "destroyed"}
Running == {"set_job", "request_job", "signal_job", "run_check", "run_wait", "request_none",
            "signal_none"}
Joining == {"join_check", "join_wait", "release"}
StoppingOne == {"request_stop", "signal_stop", "stop_join"}
Stopping == StoppingOne \cup {"stop_next", "destroyed"}

CallerPlaced ==
    /\ caller.pc \in Resting => caller = [pc |-> caller.pc, thread |-> NoThread, job |-> NoJob]
    /\ caller.pc \in Running \cup Joining =>
        caller.job \in Jobs /\ caller.thread \in Threads /\ wrapper[caller.job] = caller.thread
    /\ caller.pc \in StoppingOne => caller.thread \in all_threads /\ caller.job = NoJob
    /\ caller.pc \in Stopping => \A j \in Jobs : wrapper[j] = NoThread

\* A thread that was made is lent to one job or spare once.
Owned ==
    /\ \A j, k \in Jobs : wrapper[j] # NoThread /\ wrapper[j] = wrapper[k] => j = k
    /\ \A j \in Jobs : wrapper[j] # NoThread =>
        wrapper[j] \in all_threads /\ \A i \in Spares : inactive_threads[i] # wrapper[j]
    /\ \A i, k \in Spares : inactive_threads[i] = inactive_threads[k] => i = k
    /\ \A t \in all_threads :
        (\E j \in Jobs : wrapper[j] = t) \/ (\E i \in Spares : inactive_threads[i] = t)
    /\ caller.pc \notin Stopping => \A i \in Spares : inactive_threads[i] \in all_threads

\* A worker without a job, from its start or from its last report on.
Waiting == {"signal_waiting", "check_request", "wait_request"}
Waits(t, pcs) ==
    worker[t].pc \in pcs /\ worker[t].job = NoJob /\ reported_state[t] = "WaitingForJob"

\* A thread that was not made yet, or is gone with the pool.
Unmade ==
    \A t \in Threads \ all_threads :
        (\A i \in Spares : inactive_threads[i] # t) =>
            /\ worker[t].pc \in {"none", "ended"} /\ worker[t].job = NoJob
            /\ caller.pc \notin Stopping =>
                /\ worker[t].pc = "none" /\ slot[t] = NoJob
                /\ requested_state[t] = "None" /\ reported_state[t] = "WaitingForJob"

SpareWaits(t) == requested_state[t] = "None" /\ Waits(t, Waiting)
SpareStops(t) ==
    /\ worker[t].pc \in Waiting \cup {"report_stopped", "signal_stopped", "ended"}
    /\ requested_state[t] \in {"None", "Terminate"}
    /\ reported_state[t] \in {"WaitingForJob", "Stopped"}
    /\ t \notin all_threads => worker[t].pc = "ended"

Spare ==
    \A i \in Spares :
        LET t == inactive_threads[i]
        IN  /\ slot[t] = NoJob /\ worker[t].job = NoJob
            /\ IF caller.pc \notin Stopping THEN SpareWaits(t) ELSE SpareStops(t)

\* The places of a worker and of the main thread that is starting its job.
Asked(t, j) ==
    /\ slot[t] = j /\ Waits(t, Waiting \cup {"report_waiting", "take_job"})
Took(t, j) ==
    /\ slot[t] = NoJob /\ worker[t].job = j
    /\ \/ worker[t].pc = "report_running" /\ reported_state[t] = "WaitingForJob"
       \/ worker[t].pc \in {"signal_running", "check_none", "wait_none"}
            /\ reported_state[t] = "RunningJob"
Did(t, j) ==
    /\ slot[t] = NoJob /\ executed[j] = 1 /\ worker[t].job = NoJob
    /\ \/ worker[t].pc = "report_waiting" /\ reported_state[t] = "RunningJob"
       \/ Waits(t, Waiting)
Does(t, j) ==
    /\ slot[t] = NoJob /\ executed[j] = 0 /\ worker[t].job = j
    /\ worker[t].pc \in {"signal_running", "check_none", "wait_none", "execute"}
    /\ reported_state[t] = "RunningJob"

Started(t, j) == requested_state[t] = "None" /\ (Does(t, j) \/ Did(t, j))

Starting(t, j) ==
    CASE caller.pc = "set_job" ->
            /\ requested_state[t] = "None" /\ executed[j] = 0 /\ slot[t] = NoJob
            /\ Waits(t, Waiting \cup {"report_waiting"})
      [] caller.pc = "request_job" ->
            /\ requested_state[t] = "None" /\ executed[j] = 0 /\ slot[t] = j
            /\ Waits(t, Waiting \cup {"report_waiting"})
      [] caller.pc \in {"signal_job", "run_check", "run_wait"} ->
            /\ requested_state[t] = "JobReady" /\ executed[j] = 0
            /\ Asked(t, j) \/ Took(t, j)
      [] caller.pc = "request_none" ->
            /\ requested_state[t] = "JobReady" /\ executed[j] = 0
            /\ Took(t, j) /\ reported_state[t] = "RunningJob"
      [] caller.pc = "release" ->
            /\ requested_state[t] = "None" /\ executed[j] = 1 /\ slot[t] = NoJob
            /\ Waits(t, Waiting)
      [] OTHER -> Started(t, j)

Handshake ==
    \A j \in Jobs : wrapper[j] # NoThread =>
        IF caller.job = j THEN Starting(wrapper[j], j) ELSE Started(wrapper[j], j)

\* A job that has no thread yet was not executed, or once.
Counted == \A j \in Jobs : executed[j] \in {0, 1}

\* A pool that was destroyed has no thread.
Gone == caller.pc = "destroyed" => inactive_threads = <<>>

Inv ==
    TypeOK /\ CallerPlaced /\ Owned /\ Unmade /\ Spare /\ Handshake /\ Counted /\ Gone
-----------------------------------------------------------------------------
\* The steps of a worker, one by one.

Move(t, from, to) == worker[t].pc = from /\ worker'[t].pc = to

\* What a step of the worker of t leaves alone.
WorkerFrame(t) ==
    /\ UNCHANGED <<callerVars, requested_state>>
    /\ \A u \in Threads \ {t} :
        worker'[u] = worker[u] /\ reported_state'[u] = reported_state[u] /\ slot'[u] = slot[u]

Keeps(t) ==
    /\ worker'[t].job = worker[t].job /\ reported_state'[t] = reported_state[t]
    /\ slot'[t] = slot[t] /\ UNCHANGED executed
Reports(t, state) ==
    /\ worker'[t].job = worker[t].job /\ reported_state'[t] = state
    /\ slot'[t] = slot[t] /\ UNCHANGED executed

Passes(t) ==
    \/ Move(t, "signal_waiting", "check_request")
    \/ Move(t, "check_request", "wait_request") /\ requested_state[t] = "None"
    \/ Move(t, "check_request", "take_job") /\ requested_state[t] = "JobReady"
    \/ Move(t, "check_request", "report_stopped") /\ requested_state[t] = "Terminate"
    \/ Move(t, "wait_request", "check_request")
    \/ Move(t, "signal_running", "check_none")
    \/ Move(t, "check_none", "execute") /\ requested_state[t] = "None"
    \/ Move(t, "check_none", "wait_none") /\ requested_state[t] # "None"
    \/ Move(t, "wait_none", "check_none")
    \/ Move(t, "signal_stopped", "ended")
Takes(t) ==
    /\ Move(t, "take_job", "report_running")
    /\ worker'[t].job = slot[t] /\ slot'[t] = NoJob
    /\ reported_state'[t] = reported_state[t] /\ UNCHANGED executed
Executes(t) ==
    /\ Move(t, "execute", "report_waiting")
    /\ worker[t].job \in Jobs /\ worker'[t].job = NoJob
    /\ slot'[t] = slot[t] /\ reported_state'[t] = reported_state[t]
    /\ executed' = [executed EXCEPT ![worker[t].job] = @ + 1]

LEMMA WorkerSteps ==
    ASSUME TypeOK, NEW t \in Threads, thread_func(t)
    PROVE  /\ WorkerFrame(t)
           /\ \/ Passes(t) /\ Keeps(t)
              \/ Move(t, "report_waiting", "signal_waiting") /\ Reports(t, "WaitingForJob")
              \/ Move(t, "report_running", "signal_running") /\ Reports(t, "RunningJob")
              \/ Move(t, "report_stopped", "signal_stopped") /\ Reports(t, "Stopped")
              \/ Takes(t)
              \/ Executes(t)
<1> USE DEF TypeOK, WorkerFrame, Move, Keeps, Reports, Passes, Takes, Executes, Worker,
            callerVars, sharedVars
<1>1. ASSUME NEW from, NEW to, Worker(t, from, to)
      PROVE  /\ Move(t, from, to) /\ worker'[t].job = worker[t].job
             /\ \A u \in Threads \ {t} : worker'[u] = worker[u]
    BY <1>1
<1>2. ASSUME NEW from, NEW to, NEW state, Report(t, state, from, to)
      PROVE  WorkerFrame(t) /\ Move(t, from, to) /\ Reports(t, state)
    BY <1>1, <1>2 DEF Report
<1>3. ASSUME NEW from, NEW to, SignalReport(t, from, to) \/ WaitRequest(t, from, to)
      PROVE  WorkerFrame(t) /\ Move(t, from, to) /\ Keeps(t)
    BY <1>1, <1>3 DEF SignalReport, WaitRequest
<1>4. ASSUME NEW from, NEW to, NEW states, CheckRequest(t, states, from, to)
      PROVE  WorkerFrame(t) /\ Move(t, from, to) /\ Keeps(t) /\ requested_state[t] \in states
    BY <1>1, <1>4 DEF CheckRequest
<1>5. ASSUME TakeJob(t) PROVE WorkerFrame(t) /\ Takes(t)
    BY <1>5 DEF TakeJob
<1>6. ASSUME ExecuteJob(t) PROVE WorkerFrame(t) /\ Executes(t)
    BY <1>6 DEF ExecuteJob
<1>7. CASE wait_for_request(t) \/ wait_for_none(t)
    BY <1>3, <1>4, <1>7 DEF wait_for_request, wait_for_none
<1>8. CASE thread_func2(t) /\ ~(wait_for_request(t) \/ wait_for_none(t))
    BY <1>2, <1>3, <1>5, <1>6, <1>8 DEF thread_func2
<1>9. CASE Report(t, "Stopped", "report_stopped", "signal_stopped")
            \/ SignalReport(t, "signal_stopped", "ended")
    BY <1>2, <1>3, <1>9
<1> QED BY <1>7, <1>8, <1>9 DEF thread_func

\* A worker has no job but that of its thread, and a thread without one none.
LEMMA LentJob ==
    ASSUME Inv, NEW j \in Jobs, wrapper[j] # NoThread
    PROVE  /\ wrapper[j] \in Threads
           /\ worker[wrapper[j]].job \in {NoJob, j} /\ slot[wrapper[j]] \in {NoJob, j}
BY DEF Inv, TypeOK, Handshake, Starting, Started, Asked, Took, Did, Does, Waits

LEMMA WorkersJob ==
    ASSUME Inv, NEW t \in Threads, worker[t].job \in Jobs
    PROVE  wrapper[worker[t].job] = t
<1>1. ASSUME NEW i \in Spares, inactive_threads[i] = t PROVE FALSE
    BY <1>1, NoJobAssumption DEF Inv, Spare
<1>2. t \in all_threads
    BY <1>1, NoJobAssumption DEF Inv, Unmade
<1>3. PICK j \in Jobs : wrapper[j] = t
    BY <1>1, <1>2 DEF Inv, Owned
<1>4. worker[t].job \in {NoJob, j}
    BY <1>3, LentJob, NoThreadAssumption
<1> QED BY <1>3, <1>4, NoJobAssumption

\* A job is executed by its own worker.
LEMMA OthersNotExecuted ==
    ASSUME Inv, NEW t \in Threads, thread_func(t), NEW j \in Jobs, wrapper[j] # t
    PROVE  executed'[j] = executed[j]
<1>1. TypeOK
    BY DEF Inv
<1>2. CASE Executes(t)
  <2>1. worker[t].job # j
    BY <1>2, WorkersJob DEF Executes
  <2> QED BY <1>1, <1>2, <2>1 DEF Executes, TypeOK
<1>3. CASE UNCHANGED executed
    BY <1>3
<1> QED BY <1>1, <1>2, <1>3, WorkerSteps DEF Keeps, Reports, Takes

LEMMA WorkerHandshake ==
    ASSUME Inv, NEW t \in Threads, thread_func(t)
    PROVE  Handshake'
<1>1. WorkerFrame(t)
    BY WorkerSteps DEF Inv
<1>2. UNCHANGED <<caller, wrapper, requested_state>>
    BY <1>1 DEF WorkerFrame, callerVars
<1>3. ASSUME NEW j \in Jobs, wrapper[j] # NoThread, wrapper[j] # t
      PROVE  IF caller.job = j THEN Starting(wrapper[j], j)' ELSE Started(wrapper[j], j)'
  <2>1. wrapper[j] \in Threads \ {t}
    BY <1>3 DEF Inv, TypeOK
  <2>2. /\ worker'[wrapper[j]] = worker[wrapper[j]] /\ slot'[wrapper[j]] = slot[wrapper[j]]
        /\ reported_state'[wrapper[j]] = reported_state[wrapper[j]]
        /\ executed'[j] = executed[j]
    BY <1>1, <1>3, <2>1, OthersNotExecuted DEF WorkerFrame
  <2> QED BY <1>2, <1>3, <2>2
          DEF Inv, Handshake, Starting, Started, Asked, Took, Did, Does, Waits
<1>4. ASSUME NEW j \in Jobs, wrapper[j] = t
      PROVE  IF caller.job = j THEN Starting(t, j)' ELSE Started(t, j)'
  <2>1. t # NoThread
    BY NoThreadAssumption
  <2>2. IF caller.job = j THEN Starting(t, j) ELSE Started(t, j)
    BY <1>4, <2>1 DEF Inv, Handshake
  <2>3. executed[j] \in {0, 1} /\ executed \in [Jobs -> Nat] /\ requested_state'[t] = requested_state[t]
    BY <1>2 DEF Inv, Counted, TypeOK
  <2>4. CASE caller.job # j
    BY <1>2, <2>2, <2>3, <2>4, NoJobAssumption, WorkerSteps
       DEF Inv, Started, Did, Does, Waits, Waiting, Move, Passes, Keeps, Reports, Takes, Executes
  <2>5. CASE caller.job = j
    <3>1. CASE caller.pc \in {"set_job", "request_job"}
      BY <1>2, <2>2, <2>3, <2>5, <3>1, NoJobAssumption, WorkerSteps
         DEF Inv, Starting, Waits, Waiting, Move, Passes, Keeps, Reports, Takes, Executes
    <3>2. CASE caller.pc \in {"signal_job", "run_check", "run_wait"}
      BY <1>2, <2>2, <2>3, <2>5, <3>2, NoJobAssumption, WorkerSteps
         DEF Inv, Starting, Asked, Took, Waits, Waiting, Move, Passes, Keeps, Reports, Takes, Executes
    <3>3. CASE caller.pc \in {"request_none", "release"}
      BY <1>2, <2>2, <2>3, <2>5, <3>3, NoJobAssumption, WorkerSteps
         DEF Inv, Starting, Took, Waits, Waiting, Move, Passes, Keeps, Reports, Takes, Executes
    <3>4. CASE caller.pc \notin {"set_job", "request_job", "signal_job", "run_check", "run_wait",
                                 "request_none", "release"}
      <4>1. Started(t, j) /\ (Starting(t, j)' <=> Started(t, j)')
        BY <1>2, <2>2, <2>5, <3>4 DEF Starting
      <4>2. Started(t, j)'
        BY <1>2, <2>3, <4>1, NoJobAssumption, WorkerSteps
           DEF Inv, Started, Did, Does, Waits, Waiting, Move, Passes, Keeps, Reports, Takes, Executes
      <4> QED BY <1>2, <2>5, <4>1, <4>2
    <3> QED BY <3>1, <3>2, <3>3, <3>4
  <2> QED BY <2>4, <2>5
<1> QED BY <1>2, <1>3, <1>4 DEF Handshake

LEMMA WorkerStep ==
    ASSUME Inv, NEW t \in Threads, thread_func(t)
    PROVE  CallerPlaced' /\ Owned' /\ Unmade' /\ Spare' /\ Handshake' /\ Counted'
<1>1. WorkerFrame(t)
    BY WorkerSteps DEF Inv
<1>2. UNCHANGED <<caller, wrapper, all_threads, inactive_threads, requested_state>>
    BY <1>1 DEF WorkerFrame, callerVars
<1>3. CallerPlaced' /\ Owned'
    BY <1>2 DEF Inv, CallerPlaced, Owned, Spares
<1>4. Unmade'
  <2>1. ASSUME NEW u \in Threads \ all_threads, \A i \in Spares : inactive_threads[i] # u
        PROVE  /\ u # t
               /\ worker'[u] = worker[u] /\ slot'[u] = slot[u]
               /\ reported_state'[u] = reported_state[u]
    <3>1. worker[u].pc \in {"none", "ended"}
      BY <2>1 DEF Inv, Unmade
    <3>2. u # t
      BY <3>1, WorkerSteps DEF Inv, Move, Passes, Takes, Executes
    <3> QED BY <1>1, <3>2 DEF WorkerFrame
  <2> QED BY <1>2, <2>1 DEF Inv, Unmade, Spares
<1>5. Spare'
  <2>1. ASSUME NEW i \in Spares
        PROVE  /\ slot'[inactive_threads[i]] = NoJob /\ worker'[inactive_threads[i]].job = NoJob
               /\ IF caller.pc \notin Stopping THEN SpareWaits(inactive_threads[i])'
                  ELSE SpareStops(inactive_threads[i])'
    <3> DEFINE u == inactive_threads[i]
    <3>1. u \in Threads
      BY DEF Inv, TypeOK, Spares
    <3>2. /\ slot[u] = NoJob /\ worker[u].job = NoJob
          /\ IF caller.pc \notin Stopping THEN SpareWaits(u) ELSE SpareStops(u)
      BY DEF Inv, Spare
    <3>3. CASE u # t
      <4>1. worker'[u] = worker[u] /\ slot'[u] = slot[u] /\ reported_state'[u] = reported_state[u]
        BY <1>1, <3>1, <3>3 DEF WorkerFrame
      <4> QED BY <1>2, <3>2, <4>1 DEF SpareWaits, SpareStops, Waits
    <3>4. CASE u = t
      BY <1>2, <3>2, <3>4, NoJobAssumption, WorkerSteps
         DEF Inv, SpareWaits, SpareStops, Waits, Waiting, Move, Passes, Keeps, Reports, Takes, Executes
    <3> QED BY <3>3, <3>4
  <2> QED BY <1>2, <2>1 DEF Spare, Spares
<1>6. Counted'
  <2>1. ASSUME NEW j \in Jobs, wrapper[j] = t PROVE executed'[j] \in {0, 1}
    <3>1. executed[j] \in {0, 1} /\ t # NoThread
      BY NoThreadAssumption DEF Inv, Counted
    <3>2. IF caller.job = j THEN Starting(t, j)' ELSE Started(t, j)'
      BY <1>2, <2>1, <3>1, WorkerHandshake DEF Handshake
    <3> QED BY <3>2 DEF Starting, Started, Did, Does, Asked
  <2> QED BY <2>1, OthersNotExecuted DEF Inv, Counted
<1> QED BY <1>3, <1>4, <1>5, <1>6, WorkerHandshake
-----------------------------------------------------------------------------
\* The steps of the main thread.

\* The main thread and the thread of its job go on; nobody else is touched.
LEMMA SameJob ==
    ASSUME Inv, NEW t, NEW j, NEW to \in Running \cup Joining \cup {"idle"},
           t = caller.thread, j = caller.job,
           caller.pc \in Running \cup Joining, Go(to),
           UNCHANGED <<wrapper, all_threads, inactive_threads, worker, reported_state, executed>>,
           \A u \in Threads \ {t} :
                requested_state'[u] = requested_state[u] /\ slot'[u] = slot[u],
           IF to = "idle" THEN Started(t, j)' ELSE Starting(t, j)'
    PROVE  CallerPlaced' /\ Owned' /\ Unmade' /\ Spare' /\ Handshake' /\ Counted'
<1> USE DEF Running, Joining, StoppingOne, Resting, Stopping
<1>1. /\ j \in Jobs /\ t \in Threads /\ wrapper[j] = t /\ t # NoThread /\ j # NoJob
      /\ caller \in [pc : CallerPcs, thread : Threads \cup {NoThread}, job : Jobs \cup {NoJob}]
    BY NoThreadAssumption, NoJobAssumption DEF Inv, CallerPlaced, TypeOK
<1>2. /\ caller'.pc = to
      /\ to = "idle" => caller' = Idle
      /\ to # "idle" => caller'.thread = t /\ caller'.job = j
    BY <1>1 DEF Go, Idle
<1>3. CallerPlaced'
    BY <1>1, <1>2 DEF CallerPlaced, Idle
<1>4. Owned'
    BY <1>2 DEF Inv, Owned, Spares
<1>5. Unmade'
  <2>1. t \in all_threads
    BY <1>1 DEF Inv, Owned
  <2> QED BY <1>2, <2>1 DEF Inv, Unmade, Spares
<1>6. Spare'
  <2>1. ASSUME NEW i \in Spares
        PROVE  inactive_threads[i] \in Threads \ {t}
    BY <1>1 DEF Inv, Owned, TypeOK, Spares
  <2> QED BY <1>2, <2>1 DEF Inv, Spare, Spares, SpareWaits, Waits
<1>7. Handshake'
  <2>1. ASSUME NEW k \in Jobs, wrapper[k] # NoThread, k # j
        PROVE  caller'.job # k /\ Started(wrapper[k], k)'
    <3>1. wrapper[k] # t /\ wrapper[k] \in Threads
      BY <1>1, <2>1 DEF Inv, Owned, TypeOK
    <3>2. Started(wrapper[k], k)
      BY <1>1, <2>1 DEF Inv, Handshake
    <3> QED BY <1>2, <2>1, <3>1, <3>2, NoJobAssumption DEF Idle, Started, Does, Did, Waits
  <2>2. IF caller'.job = j THEN Starting(t, j)' ELSE Started(t, j)'
    BY <1>1, <1>2 DEF Idle
  <2> QED BY <1>1, <2>1, <2>2 DEF Handshake
<1>8. Counted'
    BY DEF Inv, Counted
<1> QED BY <1>3, <1>4, <1>5, <1>6, <1>7, <1>8

LEMMA RunStep ==
    ASSUME Inv, Run
    PROVE  CallerPlaced' /\ Owned' /\ Unmade' /\ Spare' /\ Handshake' /\ Counted'
<1> DEFINE t == caller.thread
           j == caller.job
<1>1. caller.pc \in Running
    BY DEF Run, SetJob, Request, SignalRequest, CheckReport, WaitReport, At, Running
<1>2. /\ j \in Jobs /\ t \in Threads /\ wrapper[j] = t /\ Starting(t, j)
    BY <1>1, NoThreadAssumption DEF Inv, CallerPlaced, TypeOK, Handshake
<1>3. /\ slot \in [Threads -> Jobs \cup {NoJob}]
      /\ requested_state \in [Threads -> {"None", "JobReady", "Terminate"}]
      /\ reported_state[t] \in {"WaitingForJob", "RunningJob", "Stopped"}
    BY <1>2 DEF Inv, TypeOK
<1>4. PICK to \in Running \cup {"idle"} : Go(to) /\
          \/ SetJob /\ to = "request_job"
          \/ Request("JobReady", "request_job", "signal_job") /\ to = "signal_job"
          \/ SignalRequest("signal_job", "run_check") /\ to = "run_check"
          \/ CheckReport("run_check", {"RunningJob"}, "request_none") /\ to = "request_none"
          \/ CheckReport("run_check", {"WaitingForJob", "Stopped"}, "run_wait") /\ to = "run_wait"
          \/ WaitReport("run_wait", "run_check") /\ to = "run_check"
          \/ Request("None", "request_none", "signal_none") /\ to = "signal_none"
          \/ SignalRequest("signal_none", "idle") /\ to = "idle"
    BY DEF Run, SetJob, Request, SignalRequest, CheckReport, WaitReport, Running
<1>5. /\ UNCHANGED <<wrapper, all_threads, inactive_threads, worker, reported_state, executed>>
      /\ \A u \in Threads \ {t} :
            requested_state'[u] = requested_state[u] /\ slot'[u] = slot[u]
    BY <1>2, <1>3, <1>4
       DEF SetJob, Request, SignalRequest, CheckReport, WaitReport, sharedVars
<1>6. to # "idle" => caller'.pc = to
    BY <1>4 DEF Go, Inv, TypeOK
<1>7. ASSUME NEW u, NEW k, u = t, k = j
      PROVE  IF to = "idle" THEN Started(u, k)' ELSE Starting(u, k)'
  <2>1. CASE to = "request_job"
    BY <1>2, <1>3, <1>4, <1>5, <1>6, <1>7, <2>1
       DEF SetJob, Request, SignalRequest, CheckReport, WaitReport, At, Starting, Waits
  <2>2. CASE to \in {"signal_job", "run_check", "run_wait"}
    BY <1>2, <1>3, <1>4, <1>5, <1>6, <1>7, <2>2
       DEF SetJob, Request, SignalRequest, CheckReport, WaitReport, At, Starting, Waits,
           Asked, Took, sharedVars, Waiting
  <2>3. CASE to = "request_none"
    BY <1>2, <1>3, <1>4, <1>5, <1>6, <1>7, <2>3
       DEF SetJob, Request, SignalRequest, CheckReport, WaitReport, At, Starting, Waits,
           Asked, Took, sharedVars, Waiting
  <2>4. CASE to \in {"signal_none", "idle"}
    BY <1>2, <1>3, <1>4, <1>5, <1>6, <1>7, <2>4
       DEF SetJob, Request, SignalRequest, CheckReport, WaitReport, At, Starting, Waits,
           Took, Started, Does, Did, sharedVars, Waiting
  <2> QED BY <1>4, <2>1, <2>2, <2>3, <2>4
<1> QED BY <1>1, <1>4, <1>5, <1>7, SameJob

LEMMA JoinStep ==
    ASSUME Inv, Join
    PROVE  CallerPlaced' /\ Owned' /\ Unmade' /\ Spare' /\ Handshake' /\ Counted'
<1> DEFINE t == caller.thread
           j == caller.job
<1>1. caller.pc \in Joining
    BY DEF Join, CheckReport, WaitReport, At, Joining
<1>2. /\ j \in Jobs /\ t \in Threads /\ wrapper[j] = t /\ Starting(t, j)
    BY <1>1, NoThreadAssumption DEF Inv, CallerPlaced, TypeOK, Handshake
<1>3. PICK to \in Joining : Go(to) /\
          \/ CheckReport("join_check", {"WaitingForJob", "Stopped"}, "release") /\ to = "release"
          \/ CheckReport("join_check", {"RunningJob"}, "join_wait") /\ to = "join_wait"
          \/ WaitReport("join_wait", "join_check") /\ to = "join_check"
    BY DEF Join, CheckReport, WaitReport, Joining
<1>4. UNCHANGED <<wrapper, all_threads, inactive_threads, worker, requested_state,
                  reported_state, slot, executed>>
    BY <1>3 DEF CheckReport, WaitReport, sharedVars
<1>5. caller'.pc = to /\ to # "idle"
    BY <1>3 DEF Go, Inv, TypeOK, Joining
<1>6. ASSUME NEW u, NEW k, u = t, k = j
      PROVE  Starting(u, k)'
  <2>1. Started(u, k)
    BY <1>2, <1>3, <1>6 DEF CheckReport, WaitReport, At, Starting
  <2>2. CASE to = "release"
    <3>1. reported_state[u] \in {"WaitingForJob", "Stopped"}
      BY <1>3, <1>6, <2>2 DEF CheckReport, WaitReport
    <3> QED BY <1>4, <1>5, <2>1, <2>2, <3>1 DEF Starting, Started, Does, Did, Waits
  <2>3. CASE to # "release"
    BY <1>3, <1>4, <1>5, <2>1, <2>3 DEF Starting, Started, Does, Did, Waits, Joining
  <2> QED BY <2>2, <2>3
<1> QED BY <1>1, <1>3, <1>4, <1>5, <1>6, SameJob

\* Between two operations every job that has a thread was handed over.
LEMMA RestingHandshake ==
    ASSUME Inv, At("idle"), NEW k \in Jobs, wrapper[k] # NoThread
    PROVE  Started(wrapper[k], k)
<1>1. caller.job = NoJob
    BY DEF Inv, CallerPlaced, Resting, At
<1> QED BY <1>1, NoJobAssumption DEF Inv, Handshake

\* A job gets a thread t that is ready for it, from the stack or a new one.
LEMMA Lend ==
    ASSUME Inv, At("idle"), NEW j \in Jobs, NEW t \in Threads, Startable(j),
           caller' = [pc |-> "set_job", thread |-> t, job |-> j],
           wrapper' = [wrapper EXCEPT ![j] = t],
           \A k \in Jobs : wrapper[k] # t,
           t \in all_threads', \A u \in all_threads : u \in all_threads',
           \A u \in all_threads' : u = t \/ u \in all_threads,
           \A i \in 1 .. Len(inactive_threads') :
                i \in Spares /\ inactive_threads'[i] = inactive_threads[i]
                /\ inactive_threads[i] # t,
           \A i \in Spares : inactive_threads[i] = t \/ i \in 1 .. Len(inactive_threads'),
           \A u \in Threads \ {t} : worker'[u] = worker[u],
           UNCHANGED <<sharedVars, executed>>,
           requested_state[t] = "None", slot[t] = NoJob,
           Waits(t, Waiting \cup {"report_waiting"})'
    PROVE  CallerPlaced' /\ Owned' /\ Unmade' /\ Spare' /\ Handshake' /\ Counted'
<1> USE DEF Running, Joining, StoppingOne, Resting, Stopping, At
<1>1. /\ wrapper \in [Jobs -> Threads \cup {NoThread}] /\ wrapper[j] = NoThread /\ t # NoThread
      /\ wrapper'[j] = t /\ \A k \in Jobs \ {j} : wrapper'[k] = wrapper[k]
    BY NoThreadAssumption DEF Inv, TypeOK, Startable
<1>2. UNCHANGED <<requested_state, reported_state, slot, executed>>
    BY DEF sharedVars
<1>3. CallerPlaced'
    BY <1>1 DEF CallerPlaced
<1>4. Owned'
  <2>1. \A k, l \in Jobs : wrapper'[k] # NoThread /\ wrapper'[k] = wrapper'[l] => k = l
    BY <1>1 DEF Inv, Owned
  <2>2. \A k \in Jobs : wrapper'[k] # NoThread =>
          /\ wrapper'[k] \in all_threads'
          /\ \A i \in 1 .. Len(inactive_threads') : inactive_threads'[i] # wrapper'[k]
    BY <1>1 DEF Inv, Owned
  <2>3. \A u \in all_threads' :
          \/ \E k \in Jobs : wrapper'[k] = u
          \/ \E i \in 1 .. Len(inactive_threads') : inactive_threads'[i] = u
    <3>1. TAKE u \in all_threads'
    <3>2. CASE u = t BY <1>1, <3>2
    <3>3. CASE \E k \in Jobs : wrapper[k] = u /\ u # t
      BY <1>1, <3>3, NoThreadAssumption DEF Inv, TypeOK
    <3>4. CASE \E i \in Spares : inactive_threads[i] = u /\ u # t
      BY <3>4
    <3> QED BY <3>1, <3>2, <3>3, <3>4 DEF Inv, Owned
  <2>4. \A i, k \in 1 .. Len(inactive_threads') :
          /\ inactive_threads'[i] = inactive_threads'[k] => i = k
          /\ inactive_threads'[i] \in all_threads'
    BY DEF Inv, Owned
  <2> QED BY <2>1, <2>2, <2>3, <2>4 DEF Owned, Spares
<1>5. Unmade'
  <2>1. ASSUME NEW u \in Threads \ all_threads',
               \A i \in 1 .. Len(inactive_threads') : inactive_threads'[i] # u
        PROVE  /\ u # t /\ u \notin all_threads
               /\ \A i \in Spares : inactive_threads[i] # u
    BY <2>1
  <2>2. ASSUME NEW u \in Threads \ all_threads',
               \A i \in 1 .. Len(inactive_threads') : inactive_threads'[i] # u
        PROVE  /\ worker'[u].pc = "none" /\ worker'[u].job = NoJob /\ slot'[u] = NoJob
               /\ requested_state'[u] = "None" /\ reported_state'[u] = "WaitingForJob"
    BY <1>2, <2>1, <2>2 DEF Inv, Unmade
  <2> QED BY <2>2 DEF Unmade, Spares
<1>6. Spare'
  <2>1. ASSUME NEW i \in 1 .. Len(inactive_threads')
        PROVE  /\ slot'[inactive_threads'[i]] = NoJob /\ worker'[inactive_threads'[i]].job = NoJob
               /\ SpareWaits(inactive_threads[i])'
    <3>1. /\ i \in Spares /\ inactive_threads'[i] = inactive_threads[i]
          /\ inactive_threads[i] \in Threads \ {t}
      BY DEF Inv, TypeOK, Spares
    <3> QED BY <1>2, <3>1 DEF Inv, Spare, SpareWaits, Waits
  <2> QED BY <2>1 DEF Spare, Spares
<1>7. Handshake'
  <2>1. ASSUME NEW k \in Jobs, k # j, wrapper'[k] # NoThread
        PROVE  caller'.job # k /\ Started(wrapper[k], k)' /\ wrapper'[k] = wrapper[k]
    <3>1. wrapper[k] # NoThread /\ wrapper[k] \in Threads \ {t}
      BY <1>1, <2>1
    <3>2. Started(wrapper[k], k)
      BY <3>1, RestingHandshake
    <3> QED BY <1>1, <1>2, <2>1, <3>1, <3>2 DEF Started, Does, Did, Waits
  <2>2. Starting(t, j)'
    BY <1>2 DEF Starting, Startable, Waits
  <2> QED BY <1>1, <2>1, <2>2 DEF Handshake
<1>8. Counted'
    BY <1>2 DEF Inv, Counted
<1> QED BY <1>3, <1>4, <1>5, <1>6, <1>7, <1>8

LEMMA ReuseThreadStep ==
    ASSUME Inv, NEW j \in Jobs, ReuseThread(j)
    PROVE  CallerPlaced' /\ Owned' /\ Unmade' /\ Spare' /\ Handshake' /\ Counted'
<1>0. PICK n, t : n = Len(inactive_threads) /\ t = inactive_threads[n]
    OBVIOUS
<1>1. inactive_threads \in Seq(Threads) /\ n \in Nat \ {0} /\ n \in Spares /\ t \in Threads
    BY <1>0 DEF Inv, TypeOK, ReuseThread, Spares
<1>2. /\ Len(inactive_threads') = n - 1
      /\ \A i \in 1 .. n - 1 : inactive_threads'[i] = inactive_threads[i]
  <2>1. inactive_threads' = SubSeq(inactive_threads, 1, n - 1)
    BY <1>0 DEF ReuseThread
  <2> QED BY <1>0, <1>1, <2>1, SubSeqProperties
<1>3. SpareWaits(t) /\ slot[t] = NoJob /\ t \in all_threads
    BY <1>0, <1>1 DEF Inv, Spare, Owned, ReuseThread, At, Stopping, StoppingOne
<1>4. \A k \in Jobs : wrapper[k] # t
    BY <1>0, <1>1, NoThreadAssumption DEF Inv, Owned
<1>5. \A i \in 1 .. n - 1 : i \in Spares /\ inactive_threads[i] # t
    BY <1>0, <1>1 DEF Inv, Owned, Spares
<1>6. \A i \in Spares : i = n \/ i \in 1 .. n - 1
    BY <1>0, <1>1 DEF Spares
<1>7. /\ requested_state[t] = "None" /\ Waits(t, Waiting \cup {"report_waiting"})'
    BY <1>3 DEF SpareWaits, Waits, ReuseThread, sharedVars
<1>8. /\ At("idle") /\ Startable(j)
      /\ caller' = [pc |-> "set_job", thread |-> t, job |-> j]
      /\ wrapper' = [wrapper EXCEPT ![j] = t]
      /\ all_threads' = all_threads /\ worker' = worker /\ UNCHANGED <<sharedVars, executed>>
    BY <1>0 DEF ReuseThread
<1> QED BY <1>0, <1>1, <1>2, <1>3, <1>4, <1>5, <1>6, <1>7, <1>8, Lend

LEMMA CreateThreadStep ==
    ASSUME Inv, NEW j \in Jobs, CreateThread(j)
    PROVE  CallerPlaced' /\ Owned' /\ Unmade' /\ Spare' /\ Handshake' /\ Counted'
<1>0. PICK t : t = CHOOSE u \in Threads : u \notin all_threads
    OBVIOUS
<1>1. t \in Threads /\ t \notin all_threads
    BY <1>0 DEF CreateThread
<1>2. /\ inactive_threads = <<>> /\ inactive_threads' = <<>> /\ Spares = {}
      /\ 1 .. Len(inactive_threads') = {}
    BY DEF CreateThread, Spares
<1>3. /\ At("idle") /\ Startable(j)
      /\ caller' = [pc |-> "set_job", thread |-> t, job |-> j]
      /\ wrapper' = [wrapper EXCEPT ![j] = t] /\ all_threads' = all_threads \cup {t}
      /\ worker' = [worker EXCEPT ![t].pc = "report_waiting"] /\ UNCHANGED <<sharedVars, executed>>
    BY <1>0 DEF CreateThread
<1>4. /\ worker[t].pc = "none" /\ worker[t].job = NoJob /\ slot[t] = NoJob
      /\ requested_state[t] = "None" /\ reported_state[t] = "WaitingForJob"
    BY <1>1, <1>2, <1>3 DEF Inv, Unmade, At, Stopping, StoppingOne
<1>5. /\ \A u \in Threads \ {t} : worker'[u] = worker[u]
      /\ Waits(t, Waiting \cup {"report_waiting"})'
    BY <1>1, <1>3, <1>4 DEF Inv, TypeOK, Waits, sharedVars
<1>6. \A k \in Jobs : wrapper[k] # t
    BY <1>1, NoThreadAssumption DEF Inv, Owned
<1> QED BY <1>1, <1>2, <1>3, <1>4, <1>5, <1>6, Lend

LEMMA BeginJoinStep ==
    ASSUME Inv, NEW j \in Jobs, BeginJoin(j)
    PROVE  CallerPlaced' /\ Owned' /\ Unmade' /\ Spare' /\ Handshake' /\ Counted'
<1> USE DEF Running, Joining, StoppingOne, Resting, Stopping, At
<1>1. /\ At("idle") /\ wrapper[j] # NoThread /\ wrapper[j] \in Threads
      /\ caller' = [pc |-> "join_check", thread |-> wrapper[j], job |-> j]
      /\ UNCHANGED <<wrapper, all_threads, inactive_threads, requested_state, reported_state,
                     slot, worker, executed>>
    BY DEF BeginJoin, sharedVars, Inv, TypeOK
<1>2. CallerPlaced' /\ Owned' /\ Unmade' /\ Spare' /\ Counted'
    BY <1>1 DEF Inv, CallerPlaced, Owned, Unmade, Spare, SpareWaits, Waits, Counted, Spares
<1>3. ASSUME NEW k \in Jobs, wrapper[k] # NoThread
      PROVE  IF caller'.job = k THEN Starting(wrapper[k], k)' ELSE Started(wrapper[k], k)'
  <2>1. Started(wrapper[k], k)
    BY <1>1, <1>3, RestingHandshake
  <2>2. Started(wrapper[k], k)'
    BY <1>1, <2>1 DEF Started, Does, Did, Waits
  <2> QED BY <1>1, <2>2 DEF Starting
<1> QED BY <1>1, <1>2, <1>3 DEF Handshake

LEMMA ReleaseThreadStep ==
    ASSUME Inv, ReleaseThread
    PROVE  CallerPlaced' /\ Owned' /\ Unmade' /\ Spare' /\ Handshake' /\ Counted'
<1> USE DEF Running, Joining, StoppingOne, Resting, Stopping, At
<1>0. PICK t, j, n : t = caller.thread /\ j = caller.job /\ n = Len(inactive_threads)
    OBVIOUS
<1>1. /\ j \in Jobs /\ t \in Threads /\ t # NoThread /\ wrapper[j] = t /\ Starting(t, j)
      /\ caller.pc = "release" /\ wrapper \in [Jobs -> Threads \cup {NoThread}]
      /\ inactive_threads \in Seq(Threads) /\ n \in Nat /\ Spares = 1 .. n
    BY <1>0, NoThreadAssumption DEF Inv, TypeOK, CallerPlaced, Handshake, ReleaseThread, Spares
<1>2. /\ caller' = Idle /\ wrapper' = [wrapper EXCEPT ![j] = NoThread]
      /\ inactive_threads' = Append(inactive_threads, t)
      /\ UNCHANGED <<all_threads, requested_state, reported_state, slot, worker, executed>>
    BY <1>0 DEF ReleaseThread, sharedVars
<1>3. /\ Len(inactive_threads') = n + 1 /\ inactive_threads'[n + 1] = t
      /\ \A i \in 1 .. n : inactive_threads'[i] = inactive_threads[i]
    BY <1>0, <1>1, <1>2, AppendProperties
<1>4. Spares' = 1 .. n + 1 /\ \A i \in Spares' : i = n + 1 \/ i \in Spares
    BY <1>1, <1>3 DEF Spares
<1>5. /\ \A k \in Jobs \ {j} : wrapper'[k] = wrapper[k] /\ wrapper[k] # t
      /\ wrapper'[j] = NoThread
    BY <1>1, <1>2 DEF Inv, Owned
<1>6. t \in all_threads /\ \A i \in Spares : inactive_threads[i] # t
    BY <1>1 DEF Inv, Owned
<1>7. CallerPlaced'
    BY <1>2 DEF CallerPlaced, Idle
<1>8. Owned'
  <2>1. \A k, l \in Jobs : wrapper'[k] # NoThread /\ wrapper'[k] = wrapper'[l] => k = l
    BY <1>5 DEF Inv, Owned
  <2>2. \A k \in Jobs : wrapper'[k] # NoThread =>
          wrapper'[k] \in all_threads' /\ \A i \in Spares' : inactive_threads'[i] # wrapper'[k]
    BY <1>1, <1>2, <1>3, <1>4, <1>5 DEF Inv, Owned
  <2>3. \A i, k \in Spares' : inactive_threads'[i] = inactive_threads'[k] => i = k
    BY <1>1, <1>3, <1>4, <1>6 DEF Inv, Owned
  <2>4. \A u \in all_threads' :
          (\E k \in Jobs : wrapper'[k] = u) \/ (\E i \in Spares' : inactive_threads'[i] = u)
    <3>1. TAKE u \in all_threads'
    <3>2. CASE u = t
      <4>1. n + 1 \in Spares' BY <1>1, <1>4
      <4> QED BY <1>3, <3>2, <4>1
    <3>3. CASE \E k \in Jobs : wrapper[k] = u /\ u # t
      BY <1>1, <1>5, <3>3
    <3>4. CASE \E i \in Spares : inactive_threads[i] = u
      <4>1. \A i \in Spares : i \in Spares' BY <1>1, <1>4
      <4> QED BY <1>1, <1>3, <3>4, <4>1
    <3> QED BY <1>2, <3>1, <3>2, <3>3, <3>4 DEF Inv, Owned
  <2>5. \A i \in Spares' : inactive_threads'[i] \in all_threads'
    BY <1>1, <1>2, <1>3, <1>4, <1>6 DEF Inv, Owned
  <2> QED BY <2>1, <2>2, <2>3, <2>4, <2>5 DEF Owned
<1>9. Unmade'
  <2>1. \A i \in Spares : i \in Spares' /\ inactive_threads'[i] = inactive_threads[i]
    BY <1>1, <1>3, <1>4
  <2>2. ASSUME NEW u \in Threads \ all_threads, \A i \in Spares' : inactive_threads'[i] # u
        PROVE  /\ worker[u].pc = "none" /\ worker[u].job = NoJob /\ slot[u] = NoJob
               /\ requested_state[u] = "None" /\ reported_state[u] = "WaitingForJob"
    <3>1. \A i \in Spares : inactive_threads[i] # u
      BY <2>1, <2>2
    <3> QED BY <1>1, <2>2, <3>1 DEF Inv, Unmade
  <2> QED BY <1>2, <2>2 DEF Unmade
<1>10. Spare'
  <2>1. SpareWaits(t) /\ slot[t] = NoJob /\ worker[t].job = NoJob
    BY <1>1 DEF Starting, SpareWaits, Waits
  <2>2. ASSUME NEW u, slot[u] = NoJob, worker[u].job = NoJob, SpareWaits(u)
        PROVE  slot'[u] = NoJob /\ worker'[u].job = NoJob /\ SpareWaits(u)'
    BY <1>2, <2>2 DEF SpareWaits, Waits
  <2>3. ASSUME NEW i \in Spares'
        PROVE  \E u : /\ u = inactive_threads'[i]
                      /\ slot[u] = NoJob /\ worker[u].job = NoJob /\ SpareWaits(u)
    <3>1. CASE i = n + 1 BY <1>3, <2>1, <3>1
    <3>2. CASE i \in Spares
      BY <1>1, <1>3, <3>2 DEF Inv, Spare
    <3> QED BY <1>4, <3>1, <3>2
  <2>4. ASSUME NEW i \in Spares', NEW u, u = inactive_threads'[i]
        PROVE  slot'[u] = NoJob /\ worker'[u].job = NoJob /\ SpareWaits(u)'
    BY <2>2, <2>3, <2>4
  <2> QED BY <1>2, <2>4 DEF Spare, Idle, SpareWaits, Waits
<1>11. Handshake'
  <2>1. ASSUME NEW k \in Jobs, wrapper'[k] # NoThread
        PROVE  caller'.job # k /\ Started(wrapper[k], k)' /\ wrapper'[k] = wrapper[k]
    <3>1. k # j /\ wrapper[k] # NoThread
      BY <1>5, <2>1
    <3>2. Started(wrapper[k], k)
      BY <1>0, <3>1 DEF Inv, Handshake
    <3> QED BY <1>2, <1>5, <3>1, <3>2, NoJobAssumption DEF Idle, Started, Does, Did, Waits
  <2> QED BY <2>1 DEF Handshake, Started, Does, Did, Waits
<1>12. Counted'
    BY <1>2 DEF Inv, Counted
<1> QED BY <1>7, <1>8, <1>9, <1>10, <1>11, <1>12

\* The destructor of the pool: no job has a thread, the threads stop one by one.
LEMMA DestroyStep ==
    ASSUME Inv, BeginDestroy \/ (\E t \in Threads : StopNext(t)) \/ Stop \/ Destroyed
    PROVE  CallerPlaced' /\ Owned' /\ Unmade' /\ Spare' /\ Handshake' /\ Counted'
<1> USE DEF Running, Joining, StoppingOne, Resting, Stopping, At
<1>1. /\ \A j \in Jobs : wrapper[j] = NoThread /\ wrapper'[j] = NoThread
      /\ UNCHANGED <<reported_state, slot, worker, executed>>
      /\ caller'.pc \in Stopping
    BY DEF Inv, CallerPlaced, TypeOK, BeginDestroy, StopNext, Stop, Destroyed, Request,
           SignalRequest, JoinStopped, Go, Idle, sharedVars
<1>2. Handshake' /\ Counted'
    BY <1>1 DEF Inv, Counted, Handshake
<1>3. CallerPlaced'
    BY <1>1 DEF Inv, CallerPlaced, TypeOK, BeginDestroy, StopNext, Stop, Destroyed, Request,
           SignalRequest, JoinStopped, Go, Idle, sharedVars
<1>4. CASE BeginDestroy
  <2>1. ASSUME NEW i \in Spares PROVE SpareStops(inactive_threads[i])
    BY <1>4 DEF Inv, Spare, SpareWaits, SpareStops, Waits, BeginDestroy, Owned
  <2>2. UNCHANGED <<wrapper, all_threads, inactive_threads, requested_state>>
    BY <1>4 DEF BeginDestroy, sharedVars
  <2> QED BY <1>1, <1>2, <1>3, <2>1, <2>2
          DEF Inv, Owned, Unmade, Spare, SpareStops, Spares
<1>5. CASE \E t \in Threads : StopNext(t)
  <2>1. UNCHANGED <<wrapper, all_threads, inactive_threads, requested_state>>
    BY <1>5 DEF StopNext, sharedVars
  <2>2. caller.pc \in Stopping
    BY <1>5 DEF StopNext
  <2> QED BY <1>1, <1>2, <1>3, <2>1, <2>2 DEF Inv, Owned, Unmade, Spare, SpareStops, Spares
<1>6. CASE Stop /\ ~JoinStopped
  <2>1. UNCHANGED <<wrapper, all_threads, inactive_threads>> /\ caller.pc \in Stopping
    BY <1>6 DEF Stop, Request, SignalRequest
  <2>2. \A u \in Threads : requested_state'[u] \in {requested_state[u], "Terminate"}
    BY <1>6 DEF Inv, TypeOK, Stop, Request, SignalRequest
  <2>3. \A i \in Spares : inactive_threads[i] \in Threads
    BY DEF Inv, TypeOK, Spares
  <2> QED BY <1>1, <1>2, <1>3, <2>1, <2>2, <2>3
          DEF Inv, Owned, Unmade, Spare, SpareStops, Spares
<1>7. CASE JoinStopped
  <2>1. PICK t : t = caller.thread
    OBVIOUS
  <2>2. /\ all_threads' = all_threads \ {t} /\ worker[t].pc = "ended" /\ t \in all_threads
        /\ UNCHANGED <<wrapper, inactive_threads, requested_state>> /\ caller.pc \in Stopping
    BY <1>7, <2>1 DEF JoinStopped, sharedVars, Inv, CallerPlaced
  <2>3. \E i \in Spares : inactive_threads[i] = t
    BY <1>1, <2>2, NoThreadAssumption DEF Inv, Owned, TypeOK
  <2>4. Owned'
    BY <1>1, <2>2 DEF Inv, Owned, Spares
  <2>5. Unmade'
    BY <1>1, <2>2, <2>3 DEF Inv, Unmade, Spares
  <2>6. Spare'
    BY <1>1, <2>2 DEF Inv, Spare, SpareStops, Spares
  <2> QED BY <1>2, <1>3, <2>4, <2>5, <2>6
<1>8. CASE Destroyed
  <2>1. /\ all_threads = {} /\ all_threads' = {} /\ inactive_threads' = <<>> /\ Spares' = {}
        /\ caller.pc \in Stopping
    BY <1>8 DEF Destroyed, Spares
  <2>2. Owned' /\ Spare'
    BY <1>1, <2>1 DEF Owned, Spare
  <2>3. Unmade'
    BY <1>1, <2>1 DEF Inv, Unmade, Spare, SpareStops
  <2> QED BY <1>2, <1>3, <2>2, <2>3
<1> QED BY <1>4, <1>5, <1>6, <1>7, <1>8 DEF Stop
-----------------------------------------------------------------------------
\* Every step.

LEMMA InvInit == Init => Inv
<1> SUFFICES ASSUME Init PROVE Inv
  OBVIOUS
<1>1. TypeOK
  BY DEF Init, TypeOK, Idle, CallerPcs, WorkerPcs
<1>2. CallerPlaced /\ Owned /\ Unmade /\ Spare /\ Handshake /\ Counted /\ Gone
  BY <1>1 DEF Init, Idle, CallerPlaced, Owned, Unmade, Spare, Handshake, Counted, Gone, Spares,
              Resting, Running, Joining, StoppingOne, Stopping
<1> QED BY <1>1, <1>2 DEF Inv

LEMMA RequestTypes ==
    ASSUME TypeOK, caller.thread \in Threads, NEW from, NEW to \in CallerPcs,
           \/ \E state \in {"None", "JobReady", "Terminate"} : Request(state, from, to)
           \/ SignalRequest(from, to)
           \/ \E states : CheckReport(from, states, to)
           \/ WaitReport(from, to)
    PROVE  TypeOK'
<1>1. caller' \in [pc : CallerPcs, thread : Threads \cup {NoThread}, job : Jobs \cup {NoJob}]
  <2>1. Go(to)
    BY DEF Request, SignalRequest, CheckReport, WaitReport
  <2>2. CASE to = "idle"
    BY <2>1, <2>2 DEF Go, Idle
  <2>3. CASE to # "idle"
    BY <2>1, <2>3 DEF Go, TypeOK
  <2> QED BY <2>2, <2>3
<1>2. CASE \E state \in {"None", "JobReady", "Terminate"} : Request(state, from, to)
    BY <1>1, <1>2 DEF TypeOK, Request
<1>3. CASE SignalRequest(from, to)
    BY <1>1, <1>3 DEF TypeOK, SignalRequest
<1>4. CASE \E states : CheckReport(from, states, to)
    BY <1>1, <1>4 DEF TypeOK, CheckReport, sharedVars
<1>5. CASE WaitReport(from, to)
    BY <1>1, <1>5 DEF TypeOK, WaitReport
<1> QED BY <1>2, <1>3, <1>4, <1>5

LEMMA WorkerTypes ==
    ASSUME Inv, NEW t \in Threads, thread_func(t)
    PROVE  TypeOK'
<1> USE DEF Inv, Worker, callerVars, sharedVars
<1>1. ASSUME NEW from, NEW to \in WorkerPcs,
             \/ \E state \in {"WaitingForJob", "RunningJob", "Stopped"} : Report(t, state, from, to)
             \/ SignalReport(t, from, to)
             \/ \E states : CheckRequest(t, states, from, to)
             \/ WaitRequest(t, from, to)
      PROVE  TypeOK'
  <2>1. worker' \in [Threads -> [pc : WorkerPcs, job : Jobs \cup {NoJob}]]
    <3>1. worker' = [worker EXCEPT ![t].pc = to]
      BY <1>1 DEF Report, SignalReport, CheckRequest, WaitRequest
    <3> QED BY <3>1 DEF TypeOK
  <2>2. CASE \E state \in {"WaitingForJob", "RunningJob", "Stopped"} : Report(t, state, from, to)
    BY <2>1, <2>2 DEF TypeOK, Report
  <2>3. CASE SignalReport(t, from, to) \/ WaitRequest(t, from, to)
    BY <2>1, <2>3 DEF TypeOK, SignalReport, WaitRequest
  <2>4. CASE \E states : CheckRequest(t, states, from, to)
    BY <2>1, <2>4 DEF TypeOK, CheckRequest
  <2> QED BY <1>1, <2>2, <2>3, <2>4
<1>2. CASE wait_for_request(t) \/ wait_for_none(t)
    BY <1>1, <1>2 DEF wait_for_request, wait_for_none, WorkerPcs
<1>3. CASE TakeJob(t)
    BY <1>3 DEF TypeOK, TakeJob, WorkerPcs
<1>4. CASE ExecuteJob(t)
    BY <1>4 DEF TypeOK, ExecuteJob, WorkerPcs
<1>5. CASE \/ Report(t, "WaitingForJob", "report_waiting", "signal_waiting")
           \/ SignalReport(t, "signal_waiting", "check_request")
           \/ Report(t, "RunningJob", "report_running", "signal_running")
           \/ SignalReport(t, "signal_running", "check_none")
           \/ Report(t, "Stopped", "report_stopped", "signal_stopped")
           \/ SignalReport(t, "signal_stopped", "ended")
    BY <1>1, <1>5 DEF WorkerPcs
<1> QED BY <1>2, <1>3, <1>4, <1>5 DEF thread_func, thread_func2

LEMMA CallerTypes ==
    ASSUME Inv, CallerBegins \/ CallerGoesOn
    PROVE  TypeOK'
<1> USE DEF At, CallerPcs
<1>1. caller.pc \in Running \cup Joining \cup StoppingOne => caller.thread \in Threads
    BY DEF Inv, CallerPlaced, TypeOK
<1>2. CASE SetJob
    BY <1>1, <1>2 DEF Inv, TypeOK, SetJob, Go, Running
<1>3. CASE Run /\ ~SetJob
    BY <1>1, <1>3, RequestTypes
       DEF Inv, Run, Request, SignalRequest, CheckReport, WaitReport, Running
<1>4. CASE Join
    BY <1>1, <1>4, RequestTypes DEF Inv, Join, CheckReport, WaitReport, Joining
<1>5. CASE Stop /\ ~JoinStopped
    BY <1>1, <1>5, RequestTypes DEF Inv, Stop, Request, SignalRequest, StoppingOne
<1>6. CASE JoinStopped \/ Destroyed \/ BeginDestroy \/ \E t \in Threads : StopNext(t)
  <2>1. CASE JoinStopped
    BY <2>1 DEF Inv, TypeOK, JoinStopped, Idle, sharedVars
  <2>2. CASE Destroyed \/ BeginDestroy
    <3>1. PICK to \in {"stop_next", "destroyed"} : caller' = [caller EXCEPT !.pc = to]
      BY <2>2 DEF Destroyed, BeginDestroy, Go
    <3>2. caller' \in [pc : CallerPcs, thread : Threads \cup {NoThread}, job : Jobs \cup {NoJob}]
      BY <3>1 DEF Inv, TypeOK
    <3>3. inactive_threads' \in Seq(Threads)
      <4>1. inactive_threads \in Seq(Threads) /\ <<>> \in Seq(Threads)
        BY EmptySeq DEF Inv, TypeOK
      <4>2. inactive_threads' \in {inactive_threads, <<>>}
        BY <2>2 DEF Destroyed, BeginDestroy
      <4> QED BY <4>1, <4>2
    <3>4. UNCHANGED <<wrapper, all_threads, sharedVars, worker, executed>>
      BY <2>2 DEF Destroyed, BeginDestroy
    <3> QED BY <3>2, <3>3, <3>4 DEF Inv, TypeOK, sharedVars
  <2>3. ASSUME NEW t \in Threads, StopNext(t) PROVE TypeOK'
    BY <2>3 DEF Inv, TypeOK, StopNext, sharedVars
  <2> QED BY <1>6, <2>1, <2>2, <2>3
<1>7. CASE ReleaseThread
  <2>1. caller.thread \in Threads /\ inactive_threads' = Append(inactive_threads, caller.thread)
    BY <1>1, <1>7 DEF ReleaseThread, Joining
  <2>2. inactive_threads' \in Seq(Threads)
    BY <2>1, AppendProperties DEF Inv, TypeOK
  <2> QED BY <1>7, <2>2 DEF Inv, TypeOK, ReleaseThread, Idle, sharedVars
<1>8. ASSUME NEW j \in Jobs, ReuseThread(j) PROVE TypeOK'
  <2>1. /\ inactive_threads \in Seq(Threads) /\ Len(inactive_threads) \in Nat \ {0}
        /\ inactive_threads' = SubSeq(inactive_threads, 1, Len(inactive_threads) - 1)
    BY <1>8 DEF ReuseThread, Inv, TypeOK
  <2>2. inactive_threads' \in Seq(Threads) /\ inactive_threads[Len(inactive_threads)] \in Threads
    BY <2>1, SubSeqProperties
  <2> QED BY <1>8, <2>2 DEF Inv, TypeOK, ReuseThread, sharedVars
<1>9. ASSUME NEW j \in Jobs, CreateThread(j) PROVE TypeOK'
  <2>1. PICK t : t = CHOOSE u \in Threads : u \notin all_threads
    OBVIOUS
  <2>2. t \in Threads
    BY <1>9, <2>1 DEF CreateThread
  <2>3. worker' \in [Threads -> [pc : WorkerPcs, job : Jobs \cup {NoJob}]]
    <3>1. worker' = [worker EXCEPT ![t].pc = "report_waiting"]
      BY <1>9, <2>1 DEF CreateThread
    <3> QED BY <3>1 DEF Inv, TypeOK, WorkerPcs
  <2>4. /\ caller' = [pc |-> "set_job", thread |-> t, job |-> j]
        /\ wrapper' = [wrapper EXCEPT ![j] = t] /\ all_threads' = all_threads \cup {t}
        /\ UNCHANGED <<inactive_threads, sharedVars, executed>>
    BY <1>9, <2>1 DEF CreateThread
  <2> QED BY <2>2, <2>3, <2>4 DEF Inv, TypeOK, sharedVars
<1>10. ASSUME NEW j \in Jobs, BeginJoin(j) PROVE TypeOK'
    BY <1>10 DEF Inv, TypeOK, BeginJoin, sharedVars
<1> QED BY <1>2, <1>3, <1>4, <1>5, <1>6, <1>7, <1>8, <1>9, <1>10 DEF CallerBegins, CallerGoesOn

LEMMA GoneStep ==
    ASSUME Inv, Next
    PROVE  Gone'
<1>1. CASE \E t \in Threads : thread_func(t)
    BY <1>1, WorkerSteps DEF Inv, Gone, WorkerFrame, callerVars
<1>2. CASE Destroyed
    BY <1>2 DEF Destroyed, Gone
<1>3. CASE (CallerBegins \/ CallerGoesOn) /\ ~Destroyed
  <2>1. CASE CallerBegins
    <3>1. CASE BeginDestroy
      BY <3>1 DEF BeginDestroy, Go, Gone, Inv, TypeOK
    <3>2. CASE \E j \in Jobs : ReuseThread(j) \/ CreateThread(j) \/ BeginJoin(j)
      BY <3>2 DEF ReuseThread, CreateThread, BeginJoin, Gone
    <3> QED BY <2>1, <3>1, <3>2 DEF CallerBegins
  <2>2. CASE Run \/ Join \/ (Stop /\ ~JoinStopped)
    <3>1. PICK to \in Running \cup Joining \cup StoppingOne \cup {"idle"} : Go(to)
      BY <2>2 DEF Run, SetJob, Request, SignalRequest, CheckReport, WaitReport, Join, Stop,
                  Running, Joining, StoppingOne
    <3> QED BY <3>1 DEF Go, Idle, Gone, Inv, TypeOK, Running, Joining, StoppingOne
  <2>3. CASE ReleaseThread \/ JoinStopped \/ \E t \in Threads : StopNext(t)
    BY <2>3 DEF ReleaseThread, JoinStopped, StopNext, Idle, Gone
  <2> QED BY <1>3, <2>1, <2>2, <2>3 DEF CallerGoesOn
<1> QED BY <1>1, <1>2, <1>3 DEF Next

LEMMA InvNext == Inv /\ [Next]_vars => Inv'
<1> SUFFICES ASSUME Inv, [Next]_vars PROVE Inv'
  OBVIOUS
<1>1. CASE UNCHANGED vars
  BY <1>1 DEF vars, callerVars, sharedVars, Inv, TypeOK, CallerPlaced, Owned, Unmade, Spare,
      Handshake, Counted, Gone, Spares, SpareWaits, SpareStops, Starting, Started, Asked, Took,
      Did, Does, Waits
<1>2. CASE \E t \in Threads : thread_func(t)
  BY <1>2, WorkerStep, WorkerTypes, GoneStep DEF Inv, Next
<1>3. CASE CallerBegins
  BY <1>3, ReuseThreadStep, CreateThreadStep, BeginJoinStep, DestroyStep, CallerTypes, GoneStep
     DEF Inv, Next, CallerBegins
<1>4. CASE CallerGoesOn
  BY <1>4, RunStep, JoinStep, ReleaseThreadStep, DestroyStep, CallerTypes, GoneStep
     DEF Inv, Next, CallerGoesOn
<1> QED BY <1>1, <1>2, <1>3, <1>4 DEF Next

LEMMA Invariance == Spec => []Inv
BY InvInit, InvNext, PTL DEF Spec
-----------------------------------------------------------------------------
\* What follows for the user of the pool.

\* The variables keep their types: the ends of the handshake stay where the
\* code of PooledThread puts them.
THEOREM TypeCorrect == Spec => []TypeOK
<1>1. Inv => TypeOK
  BY DEF Inv
<1> QED BY <1>1, Invariance, PTL

\* Threads.cpp, allocate_thread: a thread that is handed out again is at rest,
\* with no job, no request and no report of the last one left.
THEOREM SparesAreIdle == Spec => []IdleThreadsWait
<1>1. ASSUME Inv PROVE IdleThreadsWait
  <2>1. ASSUME NEW i \in DOMAIN inactive_threads
        PROVE  i \in Spares /\ caller.pc # "destroyed"
    <3>1. inactive_threads \in Seq(Threads)
      BY <1>1 DEF Inv, TypeOK
    <3> QED BY <1>1, <2>1, <3>1 DEF Inv, Gone, Spares
  <2>2. ASSUME NEW i \in DOMAIN inactive_threads, NEW t, t = inactive_threads[i]
        PROVE  /\ worker[t].pc \in Waiting \/ caller.pc \in Stopping \ {"destroyed"}
               /\ worker[t].job = NoJob /\ slot[t] = NoJob
               /\ requested_state[t] # "JobReady" /\ reported_state[t] # "RunningJob"
    BY <1>1, <2>1, <2>2 DEF Inv, Spare, SpareWaits, SpareStops, Waits
  <2> QED BY <2>2 DEF IdleThreadsWait, Waiting, Stopping, StoppingOne
<1> QED BY <1>1, Invariance, PTL

\* PooledThread::run returns only when its worker has the job.
THEOREM RunReturnsWithTheJobTaken == Spec => []RunHandsOver
<1>1. ASSUME Inv PROVE RunHandsOver
  BY <1>1, RestingHandshake DEF RunHandsOver, Started, Does, Did, At
<1> QED BY <1>1, Invariance, PTL

\* The plain pointer PooledThread::job is never used by both threads at once.
THEOREM JobSlotIsNotRaced == Spec => []SlotNotRaced
<1>1. ASSUME Inv PROVE SlotNotRaced
  <2>1. ASSUME At("set_job")
        PROVE  Starting(caller.thread, caller.job)
    BY <1>1, <2>1, NoThreadAssumption
       DEF Inv, TypeOK, CallerPlaced, Handshake, At, Running
  <2> QED BY <2>1 DEF SlotNotRaced, Starting, Waits, Waiting, At
<1> QED BY <1>1, Invariance, PTL

\* ThreadPool: a thread that was made is lent to one stream processor or is
\* once on the stack of idle ones.
THEOREM PoolLosesNoThread == Spec => []ThreadsAccounted
<1>1. ASSUME Inv PROVE ThreadsAccounted
  <2>1. ASSUME NEW t \in all_threads
        PROVE  Cardinality({j \in Jobs : wrapper[j] = t})
                + Cardinality({i \in DOMAIN inactive_threads : inactive_threads[i] = t}) = 1
    <3> DEFINE Users == {j \in Jobs : wrapper[j] = t}
               Places == {i \in DOMAIN inactive_threads : inactive_threads[i] = t}
    <3>1. /\ inactive_threads \in Seq(Threads) /\ DOMAIN inactive_threads = Spares
          /\ t # NoThread
      BY <1>1, NoThreadAssumption DEF Inv, TypeOK, Spares
    <3>2. (\E j \in Jobs : Users = {j} /\ Places = {}) \/ (\E i \in Spares : Users = {} /\ Places = {i})
      <4>1. CASE \E j \in Jobs : wrapper[j] = t
        <5>1. PICK j \in Jobs : wrapper[j] = t
          BY <4>1
        <5>2. Users = {j}
          BY <1>1, <3>1, <5>1 DEF Inv, Owned
        <5>3. Places = {}
          BY <1>1, <3>1, <5>1 DEF Inv, Owned
        <5> QED BY <5>2, <5>3
      <4>2. CASE \E i \in Spares : inactive_threads[i] = t
        <5>1. PICK i \in Spares : inactive_threads[i] = t
          BY <4>2
        <5>2. Places = {i}
          BY <1>1, <3>1, <5>1 DEF Inv, Owned
        <5>3. Users = {}
          BY <1>1, <3>1, <5>1 DEF Inv, Owned
        <5> QED BY <5>2, <5>3
      <4> QED BY <1>1, <4>1, <4>2 DEF Inv, Owned
    <3>3. Cardinality({}) = 0 /\ \A x : Cardinality({x}) = 1
      BY FS_EmptySet, FS_Singleton
    <3> HIDE DEF Users, Places
    <3>4. Cardinality(Users) + Cardinality(Places) = 1
      <4>1. \/ Cardinality(Users) = 1 /\ Cardinality(Places) = 0
            \/ Cardinality(Users) = 0 /\ Cardinality(Places) = 1
        BY <3>2, <3>3, Zenon
      <4> QED BY <4>1
    <3> QED BY <3>4 DEF Users, Places
  <2> QED BY <2>1 DEF ThreadsAccounted
<1> QED BY <1>1, Invariance, PTL
-----------------------------------------------------------------------------
\* Every step is one of the abstract pool, or none of its business.

LEMMA TasksInit == Init => Tasks!Init
BY DEF Init, Tasks!Init, Progress

LEMMA LendImplements ==
    ASSUME Inv, NEW j \in Jobs, ReuseThread(j) \/ CreateThread(j)
    PROVE  Tasks!Run(j)
<1>1. PICK t : t # NoThread /\ wrapper' = [wrapper EXCEPT ![j] = t]
  <2>1. CASE ReuseThread(j)
    <3>1. inactive_threads[Len(inactive_threads)] \in Threads
      BY <2>1 DEF ReuseThread, Inv, TypeOK
    <3> QED BY <2>1, <3>1, NoThreadAssumption DEF ReuseThread
  <2>2. CASE CreateThread(j)
    BY <2>2, NoThreadAssumption DEF CreateThread
  <2> QED BY <2>1, <2>2
<1>2. /\ wrapper[j] = NoThread /\ executed[j] = 0 /\ executed' = executed
      /\ wrapper \in [Jobs -> Threads \cup {NoThread}]
  BY DEF ReuseThread, CreateThread, Startable, Inv, TypeOK
<1>3. Progress(j) = "new" /\ Progress(j)' = "accepted"
  BY <1>1, <1>2 DEF Progress
<1>4. \A k \in Jobs \ {j} : Progress(k)' = Progress(k)
  BY <1>1, <1>2 DEF Progress
<1> QED BY <1>3, <1>4 DEF Tasks!Run

LEMMA ReleaseImplements ==
    ASSUME Inv, ReleaseThread
    PROVE  \E j \in Jobs : Tasks!Join(j)
<1>0. PICK j : j = caller.job
  OBVIOUS
<1>1. /\ j \in Jobs /\ wrapper[j] # NoThread /\ executed[j] = 1
      /\ wrapper \in [Jobs -> Threads \cup {NoThread}]
      /\ wrapper' = [wrapper EXCEPT ![j] = NoThread] /\ executed' = executed
  <2>1. j \in Jobs /\ wrapper[j] \in Threads /\ caller.pc = "release"
    BY <1>0 DEF Inv, TypeOK, CallerPlaced, ReleaseThread, At, Joining
  <2>2. Starting(wrapper[j], j)
    BY <1>0, <2>1, NoThreadAssumption DEF Inv, Handshake
  <2> QED BY <1>0, <2>1, <2>2, NoThreadAssumption DEF Starting, ReleaseThread, Inv, TypeOK
<1>2. Progress(j) = "executed" /\ Progress(j)' = "joined"
  BY <1>1 DEF Progress
<1>3. \A k \in Jobs \ {j} : Progress(k)' = Progress(k)
  BY <1>1 DEF Progress
<1>4. Tasks!Join(j)
  BY <1>1, <1>2, <1>3 DEF Tasks!Join
<1> QED BY <1>1, <1>4

LEMMA WorkerImplements ==
    ASSUME Inv, NEW t \in Threads, thread_func(t)
    PROVE  (\E j \in Jobs : Tasks!Execute(j)) \/ UNCHANGED <<wrapper, executed>>
<1>1. WorkerFrame(t)
  BY WorkerSteps DEF Inv
<1>2. CASE Executes(t)
  <2>1. PICK j \in Jobs : j = worker[t].job
    BY <1>2 DEF Executes
  <2>2. wrapper[j] = t /\ t # NoThread
    BY <2>1, WorkersJob, NoThreadAssumption
  <2>3. executed[j] = 0
    BY <1>2, <2>1, <2>2, NoJobAssumption
       DEF Executes, Move, Inv, Handshake, Starting, Started, Asked, Took, Does, Did, Waits, Waiting
  <2>4. executed' = [executed EXCEPT ![j] = 1] /\ wrapper' = wrapper
    BY <1>1, <1>2, <2>1, <2>3 DEF Executes, WorkerFrame, callerVars, Inv, TypeOK
  <2>5. Progress(j) = "accepted" /\ Progress(j)' = "executed"
    BY <2>2, <2>3, <2>4 DEF Progress, Inv, TypeOK
  <2>6. \A k \in Jobs \ {j} : Progress(k)' = Progress(k)
    BY <2>4 DEF Progress, Inv, TypeOK
  <2>7. Tasks!Execute(j)
    BY <2>5, <2>6 DEF Tasks!Execute
  <2> QED BY <2>7
<1>3. CASE UNCHANGED executed
  BY <1>1, <1>3 DEF WorkerFrame, callerVars
<1> QED BY <1>2, <1>3, WorkerSteps DEF Inv, Keeps, Reports, Takes

LEMMA CallerImplements ==
    ASSUME CallerBegins \/ CallerGoesOn,
           ~ReleaseThread, ~\E j \in Jobs : ReuseThread(j) \/ CreateThread(j)
    PROVE  UNCHANGED <<wrapper, executed>>
BY DEF CallerBegins, CallerGoesOn, BeginJoin, BeginDestroy, Run, SetJob, Request, SignalRequest,
       CheckReport, WaitReport, Join, StopNext, Stop, JoinStopped, Destroyed

\* The pool does what TaskPool promises: every job that was started is
\* executed once, by then or later, and join returns after that.
THEOREM PoolImplementsTasks == Spec => Tasks!Safety
<1>1. ASSUME Inv, [Next]_vars
      PROVE  [Tasks!Next]_([j \in Jobs |-> Progress(j)])
  <2>1. ASSUME UNCHANGED <<wrapper, executed>>
        PROVE  UNCHANGED [j \in Jobs |-> Progress(j)]
    BY <2>1 DEF Progress
  <2>2. CASE UNCHANGED vars
    BY <2>1, <2>2 DEF vars, callerVars
  <2>3. CASE \E t \in Threads : thread_func(t)
    BY <1>1, <2>1, <2>3, WorkerImplements DEF Tasks!Next
  <2>4. CASE ReleaseThread
    BY <1>1, <2>4, ReleaseImplements DEF Tasks!Next
  <2>5. CASE \E j \in Jobs : ReuseThread(j) \/ CreateThread(j)
    BY <1>1, <2>5, LendImplements DEF Tasks!Next
  <2>6. CASE (CallerBegins \/ CallerGoesOn)
                /\ ~ReleaseThread /\ ~\E j \in Jobs : ReuseThread(j) \/ CreateThread(j)
    BY <2>1, <2>6, CallerImplements
  <2> QED BY <1>1, <2>2, <2>3, <2>4, <2>5, <2>6 DEF Next
<1> QED BY <1>1, TasksInit, Invariance, PTL DEF Spec, Tasks!Safety
=============================================================================
