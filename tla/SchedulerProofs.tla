--------------------------- MODULE SchedulerProofs ---------------------------
(***************************************************************************)
(* What Scheduler.tla promises for every number of timers, every limit per *)
(* cycle and every clock bound.                                            *)
(***************************************************************************)
EXTENDS Scheduler, TLAPS

\* Due times are never 0, the value mNextRun uses for `no timer'; this needs
\* both clocks to be positive.
PositiveTimes ==
    /\ platformTime > 0
    /\ serverTime > 0
    /\ \A t \in scheduled : t.mWhen > 0

\* Two waiting timers never share an id and every id handed out is below
\* mNextTaskId.
UniqueIds ==
    /\ \A t \in scheduled : t.mTaskId < mNextTaskId
    /\ \A t, u \in scheduled : t.mTaskId = u.mTaskId => t = u

\* The iterator of a Cancel nobody overtook points to one waiting timer.
GoodIterators ==
    \A th \in Threads \ overtaken :
        it[th] = {} \/ \E t \in scheduled : it[th] = {t}

\* The main thread is inside no Cancel while it holds the lock.
LoopIsFree == phase \in {"timers", "stopped"} => it["main"] = {}

IInv ==
    /\ TypeOK
    /\ PositiveTimes
    /\ NoOversleep
    /\ UniqueIds
    /\ GoodIterators
    /\ LoopIsFree

\* The front time of a set of tasks bounds them all and is one of theirs.
LEMMA FrontWhenBounds ==
    ASSUME NEW tasks \in SUBSET Task, tasks # {},
           NEW w \in FrontWhen(tasks)
    PROVE  /\ w \in Nat
           /\ \A u \in tasks : w <= u.mWhen
           /\ \E u \in tasks : w = u.mWhen
BY DEF FrontWhen, Front, Task

\* A due time is a positive number after the positive cached clock.
LEMMA DueTimePositive ==
    ASSUME serverTime \in Nat, serverTime > 0, NEW when \in Nat
    PROVE  DueTime(when) \in Nat /\ DueTime(when) > 0
BY SchedulerAssumption DEF DueTime

LEMMA InitIInv == Init => IInv
BY SchedulerAssumption
DEF Init, IInv, TypeOK, PositiveTimes, NoOversleep, UniqueIds, GoodIterators,
    LoopIsFree, Times, Task, Phases, Threads

\* A thread that holds no iterator leaves good ones behind, whatever it does
\* to the vector.
LEMMA OvertakeKeeps ==
    ASSUME TypeOK, NEW th \in Threads, it'[th] = {}, Overtake(th),
           \A o \in Threads \ {th} : it'[o] = it[o]
    PROVE  GoodIterators' /\ overtaken' \in SUBSET Threads
BY DEF TypeOK, Overtake, GoodIterators

\* Schedule(job, when) keeps every part of the invariant.
LEMMA ScheduleKeeps ==
    ASSUME IInv, NEW th \in Threads, ScheduleTask(th)
    PROVE  IInv'
<1>1. PICK job \in Jobs, when \in 1..(MaxTime - 1) :
         Schedule(job, when) /\ DueTime(when) < MaxTime
  BY DEF ScheduleTask
<1> DEFINE t == [mTaskId |-> mNextTaskId, mWhen |-> DueTime(when), mTask |-> job]
<1>2. when \in Nat
  BY SchedulerAssumption
<1>3. DueTime(when) \in Nat /\ DueTime(when) > 0
  BY <1>2, DueTimePositive DEF IInv, TypeOK, PositiveTimes, Times
<1>4. t \in Task
  BY <1>3 DEF IInv, TypeOK, Task
<1>5. scheduled' = scheduled \cup {t} /\ mNextRun' \in FrontWhen(scheduled')
  BY <1>1 DEF Schedule
<1>6. scheduled' \in SUBSET Task /\ scheduled' # {}
  BY <1>4, <1>5 DEF IInv, TypeOK
<1>7. /\ mNextRun' \in Nat
      /\ \A u \in scheduled' : mNextRun' <= u.mWhen
      /\ \E u \in scheduled' : mNextRun' = u.mWhen
  BY <1>5, <1>6, FrontWhenBounds
<1>8. mNextTaskId' = mNextTaskId + 1
  BY <1>1 DEF Schedule
<1>9. UNCHANGED <<clockVars, mRunning, mQueue, it, phase, moved, posted>>
  BY DEF ScheduleTask
<1>14. GoodIterators' /\ overtaken' \in SUBSET Threads
  BY <1>9, OvertakeKeeps DEF ScheduleTask, MayLock, IInv
<1>10. TypeOK'
  BY <1>6, <1>7, <1>8, <1>9, <1>14 DEF IInv, TypeOK, clockVars, Times
<1>11. PositiveTimes'
  BY <1>3, <1>5, <1>9 DEF IInv, PositiveTimes, clockVars
<1>12. NoOversleep'
  BY <1>7, <1>11 DEF NoOversleep, PositiveTimes
<1>13. UniqueIds'
  BY <1>5, <1>8 DEF IInv, TypeOK, UniqueIds, Task
<1> QED
  BY <1>9, <1>10, <1>11, <1>12, <1>13, <1>14 DEF IInv, LoopIsFree

\* Moving the front timer keeps every part of the invariant.
LEMMA MoveKeeps ==
    ASSUME IInv, MoveDueTimer
    PROVE  IInv'
<1>1. PICK t \in Front(scheduled) :
         /\ scheduled' = scheduled \ {t}
         /\ mQueue' = Append(mQueue, t.mTask)
         /\ mNextRun' \in FrontWhen(scheduled \ {t})
  BY DEF MoveDueTimer
<1>2. t \in Task
  BY DEF Front, IInv, TypeOK
<1>3. scheduled' \in SUBSET Task
  BY <1>1 DEF IInv, TypeOK
<1>4. mNextRun' \in Nat
  <2>1. CASE scheduled' = {}
    BY <1>1, <2>1 DEF FrontWhen
  <2>2. CASE scheduled' # {}
    BY <1>1, <1>3, <2>2, FrontWhenBounds
  <2> QED
    BY <2>1, <2>2
<1>5. mQueue' \in Seq(Jobs)
  BY <1>1, <1>2 DEF IInv, TypeOK, Task
<1>6. moved' \in 0..MaxTasksPerCycle
  BY SchedulerAssumption DEF IInv, TypeOK, MoveDueTimer, TimerDue
<1>7. UNCHANGED <<clockVars, mRunning, mNextTaskId, it, phase, posted>>
  BY DEF MoveDueTimer
<1>12. GoodIterators' /\ overtaken' \in SUBSET Threads
  <2>1. "main" \in Threads /\ it["main"] = {}
    BY DEF MoveDueTimer, IInv, LoopIsFree, Threads
  <2> QED
    BY <1>7, <2>1, OvertakeKeeps DEF MoveDueTimer, IInv
<1>8. TypeOK'
  BY <1>3, <1>4, <1>5, <1>6, <1>7, <1>12 DEF IInv, TypeOK, clockVars, Times
<1>9. PositiveTimes'
  BY <1>1, <1>7 DEF IInv, PositiveTimes, clockVars
<1>10. NoOversleep'
  <2> SUFFICES ASSUME scheduled' # {}
               PROVE  mNextRun' > 0 /\ \A u \in scheduled' : mNextRun' <= u.mWhen
    BY DEF NoOversleep
  <2>1. /\ \A u \in scheduled' : mNextRun' <= u.mWhen
        /\ \E u \in scheduled' : mNextRun' = u.mWhen
    BY <1>1, <1>3, FrontWhenBounds
  <2> QED
    BY <2>1, <1>9 DEF PositiveTimes
<1>11. UniqueIds'
  BY <1>1, <1>7 DEF IInv, UniqueIds
<1> QED
  BY <1>7, <1>8, <1>9, <1>10, <1>11, <1>12 DEF IInv, LoopIsFree

\* An erase removes timers and invalidates the iterators of the others.
LEMMA EraseKeeps ==
    ASSUME IInv, NEW th \in Threads, Erase(th)
    PROVE  IInv'
<1>1. scheduled' \subseteq scheduled
  BY DEF Erase
<1>2. /\ it' = [it EXCEPT ![th] = {}]
      /\ UNCHANGED <<clockVars, mNextRun, mNextTaskId, mRunning, mQueue, phase,
                     moved, posted>>
  BY DEF Erase
<1>3. GoodIterators' /\ overtaken' \in SUBSET Threads
  BY <1>2, OvertakeKeeps DEF Erase, IInv, TypeOK
<1>4. TypeOK'
  BY <1>1, <1>2, <1>3 DEF IInv, TypeOK, Times, clockVars
<1>5. PositiveTimes' /\ NoOversleep' /\ UniqueIds'
  BY <1>1, <1>2 DEF IInv, PositiveTimes, NoOversleep, UniqueIds, clockVars
<1>6. LoopIsFree'
  BY <1>2 DEF IInv, TypeOK, LoopIsFree, Threads
<1> QED
  BY <1>3, <1>4, <1>5, <1>6 DEF IInv

LEMMA NextKeepsIInv == IInv /\ [Next]_vars => IInv'
<1> SUFFICES ASSUME IInv, [Next]_vars
             PROVE  IInv'
  OBVIOUS
<1>1. CASE \E th \in Threads : ScheduleTask(th)
  BY <1>1, ScheduleKeeps
<1>2. CASE \E th \in Threads : CancelTask(th)
  <2>1. PICK th \in Threads, t \in scheduled : it' = [it EXCEPT ![th] = {t}]
    BY <1>2 DEF CancelTask, Cancel
  <2>2. UNCHANGED <<clockVars, mNextRun, mNextTaskId, scheduled, overtaken,
                    mRunning, mQueue, phase, moved, posted>>
    BY <1>2 DEF CancelTask, Cancel
  <2>3. phase \in {"handlers", "drain"}
    BY <1>2 DEF CancelTask, Cancel, MayLock
  <2>4. TypeOK'
    BY <2>1, <2>2 DEF IInv, TypeOK, Times, clockVars
  <2>5. GoodIterators'
    BY <2>1, <2>2 DEF IInv, TypeOK, GoodIterators
  <2> QED
    BY <2>2, <2>3, <2>4, <2>5
    DEF IInv, PositiveTimes, NoOversleep, UniqueIds, LoopIsFree, clockVars
<1>12. CASE \E th \in Threads : Erase(th)
  BY <1>12, EraseKeeps
<1>13. CASE \E th \in Threads : Crash(th)
  BY <1>13 DEF Crash, IInv, TypeOK, PositiveTimes, NoOversleep, UniqueIds,
               GoodIterators, LoopIsFree, Times, clockVars, Phases, Threads
<1>9. CASE Shutdown
  <2>1. "main" \in Threads /\ it["main"] = {}
    BY <1>9 DEF Shutdown, Threads
  <2>2. GoodIterators' /\ overtaken' \in SUBSET Threads
    BY <1>9, <2>1, OvertakeKeeps DEF Shutdown, IInv
  <2> QED
    BY <1>9, <2>1, <2>2
    DEF Shutdown, IInv, TypeOK, PositiveTimes, NoOversleep, UniqueIds, LoopIsFree,
        Times, clockVars, Phases
<1> USE DEF IInv, TypeOK, PositiveTimes, NoOversleep, UniqueIds, GoodIterators,
            LoopIsFree, Times, clockVars, timerVars
<1>3. CASE Submit
  <2>1. PICK job \in Jobs : mQueue' = Append(mQueue, job)
    BY <1>3 DEF Submit
  <2>2. mQueue' \in Seq(Jobs)
    BY <2>1
  <2>3. posted' \in 0..MaxPosts
    BY <1>3, SchedulerAssumption DEF Submit
  <2>4. UNCHANGED <<clockVars, timerVars, mRunning, phase, moved>>
    BY <1>3 DEF Submit
  <2> QED
    BY <2>2, <2>3, <2>4
<1>4. CASE BeginCycle
  BY <1>4, SchedulerAssumption DEF BeginCycle, Phases
<1>5. CASE MoveDueTimer
  BY <1>5, MoveKeeps
<1>6. CASE TimersMoved
  BY <1>6 DEF TimersMoved, Phases
<1>7. CASE RunQueued
  BY <1>7 DEF RunQueued
<1>8. CASE EndCycle
  BY <1>8 DEF EndCycle, Phases
<1>10. CASE Tick
  BY <1>10 DEF Tick
<1>11. CASE UNCHANGED vars
  BY <1>11 DEF vars
<1> QED
  BY <1>1, <1>2, <1>3, <1>4, <1>5, <1>6, <1>7, <1>8, <1>9, <1>10, <1>11,
     <1>12, <1>13 DEF Next

(***************************************************************************)
(* The variables of Scheduler keep their types.                            *)
(***************************************************************************)
THEOREM SchedulerTypeCorrect == Spec => []TypeOK
<1>1. Spec => []IInv
  BY InitIInv, NextKeepsIInv, PTL DEF Spec
<1>2. IInv => TypeOK
  BY DEF IInv
<1> QED
  BY <1>1, <1>2, PTL

(***************************************************************************)
(* RunScheduledTasks never passes over a due timer: while timers wait,     *)
(* mNextRun is set and is not after any of them, however Schedule, Cancel  *)
(* and the loop interleave.                                                *)
(***************************************************************************)
THEOREM SchedulerNeverOversleeps == Spec => []NoOversleep
<1>1. Spec => []IInv
  BY InitIInv, NextKeepsIInv, PTL DEF Spec
<1>2. IInv => NoOversleep
  BY DEF IInv
<1> QED
  BY <1>1, <1>2, PTL

(***************************************************************************)
(* A cancellation that no other thread overtook takes exactly the timer of *)
(* its id, for any number of timers and of threads that call the scheduler *)
(* at once: ids are never handed out twice, and an iterator nobody         *)
(* overtook still points to the timer that was looked up.                  *)
(***************************************************************************)
THEOREM SchedulerCancelIsExact == Spec => CancelIsExact
<1>1. IInv /\ [Next]_vars =>
        [\A th \in Threads : \A t \in it[th] :
            (it'[th] = {} /\ th \notin overtaken) =>
                \/ scheduled' = {u \in scheduled : u.mTaskId # t.mTaskId}
                \/ phase' = "stopped"]_vars
  <2> SUFFICES ASSUME IInv, Next, NEW th \in Threads, NEW t \in it[th],
                      it'[th] = {}, th \notin overtaken, phase' # "stopped"
               PROVE  scheduled' = {u \in scheduled : u.mTaskId # t.mTaskId}
    OBVIOUS
  <2>1. PICK o \in Threads : Erase(o) \/ CancelTask(o)
    BY DEF Next, ScheduleTask, Crash, Submit, BeginCycle, MoveDueTimer, TimersMoved,
           RunQueued, EndCycle, Shutdown, Tick, timerVars
  <2>2. it \in [Threads -> SUBSET Task]
    BY DEF IInv, TypeOK
  <2>3. ~CancelTask(o)
    BY <2>2 DEF CancelTask, Cancel, MayLock
  <2>4. o = th
    BY <2>1, <2>2, <2>3 DEF Erase
  <2>5. scheduled' = scheduled \ it[th]
    BY <2>1, <2>3, <2>4 DEF Erase, Slot
  <2>6. it[th] = {t} /\ t \in scheduled
    BY DEF IInv, GoodIterators
  <2> QED
    BY <2>5, <2>6 DEF IInv, UniqueIds
<1>2. Spec => []IInv
  BY InitIInv, NextKeepsIInv, PTL DEF Spec
<1> QED
  BY <1>1, <1>2, PTL DEF Spec, CancelIsExact
=============================================================================
