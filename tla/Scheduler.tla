------------------------------ MODULE Scheduler ------------------------------
(***************************************************************************)
(* The server's task scheduler (Scheduler.cpp): timers sorted by due time, *)
(* a FIFO queue of tasks for the main thread, and the main loop            *)
(* (RunServerMain, SystemLoop_Console) that moves due timers into the      *)
(* queue and drains it.                                                    *)
(*                                                                         *)
(* The vector `scheduled' is always sorted by mWhen, and std::sort leaves  *)
(* the order of equal keys open, so it is kept as a set of tasks whose     *)
(* front is any task with the least mWhen.  What a task does is its job;   *)
(* in this module a job may schedule or cancel timers, as every job of the *)
(* server may.                                                             *)
(*                                                                         *)
(* The main thread is not the only caller: the web control panel reloads   *)
(* the checksums on a CivetWeb worker, which cancels and schedules timers  *)
(* (FileChecksum::ScheduleCheck).  RunScheduledTasks holds mMutex for the  *)
(* whole `timers' phase and Schedule for the whole of its step, but Cancel *)
(* unlocks before it erases: it is two steps here, and a change of the     *)
(* vector between them leaves its iterator stale.                          *)
(***************************************************************************)
EXTENDS Integers, Sequences, FiniteSets

CONSTANTS Jobs,                 \* what a task does, opaque here
          WebThreads,           \* CivetWeb workers that call the scheduler
          MainSleep,            \* g_MainSleep
          MaxTasksPerCycle,     \* MAX_TASKS_PER_CYCLE
          MaxTime,              \* bound: the clock stops here
          MaxTasks,             \* bound: timers created in a behaviour
          MaxPosts              \* bound: tasks other threads post in a cycle

ASSUME SchedulerAssumption ==
    /\ "main" \notin WebThreads
    /\ MainSleep \in Nat
    /\ MaxTasksPerCycle \in Nat \ {0}
    /\ MaxTime \in Nat
    /\ MaxTasks \in Nat
    /\ MaxPosts \in Nat

VARIABLES platformTime,   \* g_PlatformTime.getMilliseconds()
          serverTime,     \* g_ServerTime, the main loop's cached clock
          mRunning,       \* Scheduler::mRunning
          mNextRun,       \* Scheduler::mNextRun
          mNextTaskId,    \* Scheduler::mNextTaskId
          scheduled,      \* Scheduler::scheduled
          mQueue,         \* Schedulable::mQueue, jobs in order of arrival
          it,             \* Cancel's iterator: the task a thread is to erase
          overtaken,      \* threads whose iterator another thread made stale
          phase,          \* where the main thread is in RunServerMain
          moved,          \* c, timers moved in this cycle
          posted          \* tasks other threads posted in this cycle

clockVars == <<platformTime, serverTime>>
timerVars == <<mNextRun, mNextTaskId, scheduled, it, overtaken>>
vars == <<platformTime, serverTime, mRunning, mNextRun, mNextTaskId,
          scheduled, mQueue, it, overtaken, phase, moved, posted>>

Threads == {"main"} \cup WebThreads

\* The main thread handles packets, moves due timers, or drains the queue.
Phases == {"handlers", "timers", "drain", "stopped"}

Times == Nat
Task == [mTaskId : Nat, mWhen : Nat, mTask : Jobs]

TypeOK ==
    /\ platformTime \in Times
    /\ serverTime \in Times
    /\ mRunning \in BOOLEAN
    /\ mNextRun \in Times
    /\ mNextTaskId \in Nat
    /\ scheduled \in SUBSET Task
    /\ mQueue \in Seq(Jobs)
    /\ it \in [Threads -> SUBSET Task]
    /\ overtaken \in SUBSET Threads
    /\ phase \in Phases
    /\ moved \in 0..MaxTasksPerCycle
    /\ posted \in 0..MaxPosts

\* scheduled[0] after the sort.
Front(tasks) == {t \in tasks : \A u \in tasks : t.mWhen <= u.mWhen}

\* The mWhen of scheduled[0], or 0 when there is none: a set of one time.
FrontWhen(tasks) ==
    IF tasks = {} THEN {0} ELSE {t.mWhen : t \in Front(tasks)}

Init ==
    /\ platformTime = 1
    /\ serverTime = 1
    /\ mRunning = TRUE
    /\ mNextRun = 0
    /\ mNextTaskId = 0
    /\ scheduled = {}
    /\ mQueue = <<>>
    /\ it = [th \in Threads |-> {}]
    /\ overtaken = {}
    /\ phase = "handlers"
    /\ moved = 0
    /\ posted = 0

-----------------------------------------------------------------------------

\* A time that is not after the cached clock is moved one sleep ahead of it.
DueTime(when) ==
    IF when <= serverTime THEN serverTime + MainSleep ELSE when

\* (mutant) mNextRun is only set when it was not.
ScheduleKeepsNextRun(job, when) ==
    /\ mNextTaskId < MaxTasks
    /\ LET t == [mTaskId |-> mNextTaskId, mWhen |-> DueTime(when), mTask |-> job]
       IN  /\ scheduled' = scheduled \cup {t}
           /\ mNextRun' = IF mNextRun = 0 THEN t.mWhen ELSE mNextRun
    /\ mNextTaskId' = mNextTaskId + 1

\* (mutant) the id is derived from the number of waiting timers.
ScheduleReusesIds(job, when) ==
    /\ mNextTaskId < MaxTasks
    /\ LET t == [mTaskId |-> Cardinality(scheduled), mWhen |-> DueTime(when),
                 mTask |-> job]
           sorted == scheduled \cup {t}
       IN  /\ scheduled' = sorted
           /\ mNextRun' \in FrontWhen(sorted)
    /\ mNextTaskId' = mNextTaskId + 1

\* Schedule(task, when): new id, push_back, sort, mNextRun from the front.
Schedule(job, when) ==
    /\ mNextTaskId < MaxTasks
    /\ LET t == [mTaskId |-> mNextTaskId, mWhen |-> DueTime(when), mTask |-> job]
           sorted == scheduled \cup {t}
       IN  /\ scheduled' = sorted
           /\ mNextRun' \in FrontWhen(sorted)
    /\ mNextTaskId' = mNextTaskId + 1

\* A thread changed the vector: the iterators the others hold are stale.
Overtake(th) ==
    overtaken' = (overtaken \ {th}) \cup {o \in Threads \ {th} : it[o] # {}}

\* A thread that may take mMutex: the main thread holds it while it moves
\* timers, and no thread is inside a Cancel of its own.
MayLock(th) ==
    /\ phase \in {"handlers", "drain"}
    /\ it[th] = {}

\* A handler or a task on the main thread schedules a timer, or a web worker
\* the next check of the checksums ...
ScheduleTask(th) ==
    /\ MayLock(th)
    /\ \E job \in Jobs, when \in 1..(MaxTime - 1) :
          /\ Schedule(job, when)
          /\ DueTime(when) < MaxTime
    /\ Overtake(th)
    /\ UNCHANGED <<clockVars, mRunning, mQueue, it, phase, moved, posted>>

\* ... or cancels one by an id it was given (the web worker by id 0).  Under
\* the lock Cancel(id) only looks for the timer; nothing happens when it no
\* longer waits.
Cancel(th, id) ==
    /\ MayLock(th)
    /\ \E t \in scheduled : t.mTaskId = id /\ it' = [it EXCEPT ![th] = {t}]
    /\ UNCHANGED <<clockVars, mNextRun, mNextTaskId, scheduled, overtaken,
                   mRunning, mQueue, phase, moved, posted>>

CancelTask(th) == \E id \in 0..(mNextTaskId - 1) : Cancel(th, id)

\* The slot a stale iterator points to holds any other timer, or none.
Slot(th) ==
    IF th \in overtaken THEN {{}} \cup {{t} : t \in scheduled} ELSE {it[th]}

\* scheduled.erase(it), with mMutex already unlocked; mNextRun stays.
Erase(th) ==
    /\ it[th] # {}
    /\ \E gone \in Slot(th) : scheduled' = scheduled \ gone
    /\ it' = [it EXCEPT ![th] = {}]
    /\ Overtake(th)
    /\ UNCHANGED <<clockVars, mNextRun, mNextTaskId, mRunning, mQueue, phase,
                   moved, posted>>

\* An erase that tears the vector another thread changes ends the process.
Crash(th) ==
    /\ it[th] # {}
    /\ th \in overtaken
    /\ mRunning' = FALSE
    /\ scheduled' = {}
    /\ it' = [o \in Threads |-> {}]
    /\ overtaken' = {}
    /\ phase' = "stopped"
    /\ UNCHANGED <<clockVars, mNextRun, mNextTaskId, mQueue, moved, posted>>

\* Any thread posts a task for the main thread.
Submit ==
    /\ phase # "stopped"
    /\ posted < MaxPosts
    /\ posted' = posted + 1
    /\ \E job \in Jobs : mQueue' = Append(mQueue, job)
    /\ UNCHANGED <<clockVars, timerVars, mRunning, phase, moved>>

-----------------------------------------------------------------------------

\* Packets and pending actions are done; the cached clock is brought up to
\* date and RunScheduledTasks starts.
BeginCycle ==
    /\ it["main"] = {}
    /\ phase = "handlers"
    /\ serverTime' = platformTime
    /\ phase' = "timers"
    /\ moved' = 0
    /\ posted' = 0
    /\ UNCHANGED <<platformTime, timerVars, mRunning, mQueue>>

\* (mutant) the limit per cycle is off by one.
TimerDueOneMore ==
    /\ mRunning
    /\ mNextRun > 0
    /\ moved <= MaxTasksPerCycle
    /\ scheduled # {}
    /\ platformTime > mNextRun

\* The condition of RunScheduledTasks' loop and of the `if' inside it.
TimerDue ==
    /\ mRunning
    /\ mNextRun > 0
    /\ moved < MaxTasksPerCycle
    /\ scheduled # {}
    /\ platformTime > mNextRun

\* (mutant) mNextRun is not moved on to the next timer.
MoveForgetsNextRun ==
    /\ phase = "timers"
    /\ TimerDue
    /\ \E t \in Front(scheduled) :
          /\ scheduled' = scheduled \ {t}
          /\ mQueue' = Append(mQueue, t.mTask)
          /\ mNextRun' = 0
    /\ Overtake("main")
    /\ moved' = moved + 1
    /\ UNCHANGED <<clockVars, mRunning, mNextTaskId, it, phase, posted>>

\* One turn of the loop: the front timer's task is submitted.
MoveDueTimer ==
    /\ phase = "timers"
    /\ TimerDue
    /\ \E t \in Front(scheduled) :
          /\ scheduled' = scheduled \ {t}
          /\ mQueue' = Append(mQueue, t.mTask)
          /\ mNextRun' \in FrontWhen(scheduled \ {t})
    /\ Overtake("main")
    /\ moved' = moved + 1
    /\ UNCHANGED <<clockVars, mRunning, mNextTaskId, it, phase, posted>>

\* The loop ends and the queue is drained.
TimersMoved ==
    /\ phase = "timers"
    /\ ~TimerDue
    /\ phase' = "drain"
    /\ UNCHANGED <<clockVars, timerVars, mRunning, mQueue, moved, posted>>

\* mQueue.run() takes the oldest task; what it does is a ScheduleTask,
\* CancelTask or Submit step of the drain phase.
RunQueued ==
    /\ it["main"] = {}
    /\ phase = "drain"
    /\ mQueue # <<>>
    /\ mQueue' = Tail(mQueue)
    /\ UNCHANGED <<clockVars, timerVars, mRunning, phase, moved, posted>>

\* mQueue.run() returns when no task is left; the rest of RunServerMain and
\* the sleep follow.
EndCycle ==
    /\ it["main"] = {}
    /\ phase = "drain"
    /\ mQueue = <<>>
    /\ phase' = "handlers"
    /\ UNCHANGED <<clockVars, timerVars, mRunning, mQueue, moved, posted>>

\* The main loop was left: timers are dropped and the queue is stopped.
Shutdown ==
    /\ it["main"] = {}
    /\ phase = "handlers"
    /\ mRunning
    /\ mRunning' = FALSE
    /\ scheduled' = {}
    /\ Overtake("main")
    /\ phase' = "stopped"
    /\ UNCHANGED <<clockVars, mNextRun, mNextTaskId, mQueue, it, moved, posted>>

Tick ==
    /\ platformTime < MaxTime
    /\ platformTime' = platformTime + 1
    /\ UNCHANGED <<serverTime, timerVars, mRunning, mQueue, phase, moved, posted>>

MainStep == BeginCycle \/ MoveDueTimer \/ TimersMoved \/ RunQueued \/ EndCycle

Next ==
    \/ \E th \in Threads : ScheduleTask(th)
    \/ \E th \in Threads : CancelTask(th)
    \/ \E th \in Threads : Erase(th)
    \/ \E th \in Threads : Crash(th)
    \/ Submit
    \/ BeginCycle
    \/ MoveDueTimer
    \/ TimersMoved
    \/ RunQueued
    \/ EndCycle
    \/ Shutdown
    \/ Tick

Spec == Init /\ [][Next]_vars

\* The main loop keeps turning, a Cancel on it ends, a handler or a task makes
\* finitely many calls (hence SF: a Cancel suspends the loop until its erase),
\* and the clock keeps running.
FairSpec ==
    /\ Spec
    /\ SF_vars(MainStep)
    /\ WF_vars(Erase("main"))
    /\ WF_vars(Tick)

-----------------------------------------------------------------------------

(***************************************************************************)
(* No timer is overslept: while timers wait, mNextRun is set and is not    *)
(* after any of them, so RunScheduledTasks cannot pass over a due timer    *)
(* (Scheduler.cpp keeps mNextRun apart from the vector it summarises, and  *)
(* Cancel does not touch it).                                              *)
(***************************************************************************)
NoOversleep ==
    scheduled # {} =>
        /\ mNextRun > 0
        /\ \A t \in scheduled : mNextRun <= t.mWhen

(***************************************************************************)
(* A cancellation that no other thread overtook between its unlock and its *)
(* erase takes exactly the timer its caller created: that one is gone, no  *)
(* other is touched, and no waiting timer is left with the id, however old *)
(* the id and whatever was scheduled since.  An overtaken erase can take   *)
(* any timer: this is the whole extent of what Cancel promises.            *)
(***************************************************************************)
CancelIsExact ==
    [][\A th \in Threads : \A t \in it[th] :
          (it'[th] = {} /\ th \notin overtaken) =>
              \/ scheduled' = {u \in scheduled : u.mTaskId # t.mTaskId}
              \/ phase' = "stopped"]_vars

(***************************************************************************)
(* Every timer is moved to the queue, cancelled or dropped by Shutdown: it *)
(* does not wait for ever behind later arrivals or the limit per cycle.    *)
(***************************************************************************)
EveryTimerLeaves ==
    \A id \in 0..(MaxTasks - 1) :
        (\E t \in scheduled : t.mTaskId = id)
            ~> ~(\E t \in scheduled : t.mTaskId = id)
=============================================================================
