------------------------------ MODULE Shutdown ------------------------------
(***************************************************************************)
(* The /shutdown command (ShutdownHandler, query/CommandHandlers.cpp): a   *)
(* countdown that announces itself in stages, each stage a timer of the    *)
(* scheduler which schedules the next, and a last timer that stops the     *)
(* server.  Timers run within a tick of the time they are due (module      *)
(* Scheduler says which of them run and in which order).                   *)
(***************************************************************************)
EXTENDS Integers

CONSTANTS Requests,  \* arguments of /shutdown, in minutes, of either sign (atoi)
          Minute,    \* ticks in 60000 ms
          Grace,     \* ticks in the 5000 ms before the server stops
          MaxTime    \* bound on time

\* The product of minutes and 60000 is an int for these arguments; beyond them
\* its overflow is undefined.
ASSUME ShutdownAssumption ==
    /\ Requests \subseteq Int /\ \A m \in Requests : -35791 <= m /\ m <= 35791
    /\ Minute \in Nat \ {0} /\ Grace \in Nat \ {0} /\ MaxTime \in Nat

VARIABLES now,            \* g_ServerTime
          task,           \* the timer of the countdown
          mShutdownTask,  \* whose id the handler holds
          stopTimers,     \* when the timers that stop the server are due
          maintenance,    \* g_Config.MaintenanceMessage is not empty
          stopped,        \* SERVER_STATUS_STOPPED
          announced       \* (history) the shutdown asked for, if there is one and
                          \* it was not called off: its minutes and when they end

vars == <<now, task, mShutdownTask, stopTimers, maintenance, stopped, announced>>

Stages == [at : Int, next : Nat, last : BOOLEAN]
Announcements == [minutes : Int, end : Nat]

\* `task' and `announced' are sets of at most one element.  mShutdownTask is zero ("none"), the
\* id of that timer ("live"), or the id of one that already ran ("ran").
TypeOK ==
    /\ now \in 0..MaxTime
    /\ task \in SUBSET Stages
    /\ mShutdownTask \in {"none", "live", "ran"}
    /\ stopTimers \in SUBSET Nat
    /\ maintenance \in BOOLEAN /\ stopped \in BOOLEAN
    /\ announced \in SUBSET Announcements

Init ==
    /\ now = 0
    /\ task = {}
    /\ mShutdownTask = "none"
    /\ stopTimers = {}
    /\ maintenance = FALSE
    /\ stopped = FALSE
    /\ announced = {}

-----------------------------------------------------------------------------

\* (mutant) the shortest stage adds the minute it should subtract.
WaitPastEnd(minutes) ==
    CASE minutes > 9 -> minutes - 10
      [] minutes \in 6..9 -> minutes - 5
      [] minutes \in 4..5 -> minutes - 3
      [] minutes = 3 -> 1
      [] minutes = 2 -> 3
      [] OTHER -> minutes

\* How many minutes pass before the next stage.  A stage of ten minutes waits
\* none and leaves ten to the next.
Wait(minutes) ==
    CASE minutes > 9 -> minutes - 10
      [] minutes \in 6..9 -> minutes - 5
      [] minutes \in 4..5 -> minutes - 3
      [] minutes = 3 -> 1
      [] minutes = 2 -> 1
      [] OTHER -> minutes

\* (mutant) the id of the timer is kept for the first stage only.
ScheduleFirstShutdown(minutes) ==
    /\ task' = {[at |-> now + Wait(minutes) * Minute,
                 next |-> minutes - Wait(minutes), last |-> minutes <= 1]}
    /\ mShutdownTask' = IF mShutdownTask = "none" THEN "live" ELSE "ran"

\* (mutant) the next stage starts from the whole time again.
ScheduleWholeShutdown(minutes) ==
    /\ task' = {[at |-> now + Wait(minutes) * Minute,
                 next |-> IF minutes <= 1 THEN 0 ELSE minutes,
                 last |-> minutes <= 1]}
    /\ mShutdownTask' = "live"

\* The stage is announced and a timer set for the next, or for the last.
ScheduleShutdown(minutes) ==
    /\ task' = {[at |-> now + Wait(minutes) * Minute,
                 next |-> minutes - Wait(minutes), last |-> minutes <= 1]}
    /\ mShutdownTask' = "live"

\* /shutdown when no shutdown is known; --nomaintenance lets logins go on.
Command(minutes) ==
    /\ mShutdownTask = "none"
    /\ ScheduleShutdown(minutes)
    /\ announced' = {[minutes |-> minutes,
                      end |-> now + (IF minutes > 0 THEN minutes * Minute ELSE 0)]}
    /\ maintenance' \in {TRUE, maintenance}
    /\ UNCHANGED <<now, stopTimers, stopped>>

\* /shutdown 0 when one is known.  Any other argument is refused.
CancelCommand ==
    /\ mShutdownTask # "none"
    /\ task' = IF mShutdownTask = "live" THEN {} ELSE task
    /\ mShutdownTask' = "none"
    /\ maintenance' = FALSE
    /\ announced' = {}
    /\ UNCHANGED <<now, stopTimers, stopped>>

\* The timer of a stage that is not the last.
StageTimer(t) ==
    /\ t.at <= now /\ ~t.last
    /\ ScheduleShutdown(t.next)
    /\ UNCHANGED <<now, stopTimers, maintenance, stopped, announced>>

\* The timer of the last stage: nobody holds the id of the timer it sets.
LastTimer(t) ==
    /\ t.at <= now /\ t.last
    /\ task' = {}
    /\ mShutdownTask' = IF mShutdownTask = "live" THEN "ran" ELSE mShutdownTask
    /\ stopTimers' = stopTimers \cup {now + Grace}
    /\ UNCHANGED <<now, maintenance, stopped, announced>>

StopTimer(at) ==
    /\ at <= now
    /\ stopTimers' = stopTimers \ {at}
    /\ stopped' = TRUE
    /\ UNCHANGED <<now, task, mShutdownTask, maintenance, announced>>

\* Time passes; a timer that is due waits for the next cycle at most.
Tick ==
    /\ now < MaxTime
    /\ \A t \in task : t.at >= now
    /\ \A at \in stopTimers : at >= now
    /\ now' = now + 1
    /\ UNCHANGED <<task, mShutdownTask, stopTimers, maintenance, stopped, announced>>

Next ==
    /\ ~stopped
    /\ \/ \E minutes \in Requests : Command(minutes)
       \/ CancelCommand
       \/ \E t \in task : StageTimer(t) \/ LastTimer(t)
       \/ \E at \in stopTimers : StopTimer(at)
       \/ Tick

Spec == Init /\ [][Next]_vars

-----------------------------------------------------------------------------

\* A countdown sets at most six timers (for 9, 5, 3, 2 and 1 minutes, and to
\* stop), each of which runs up to a tick late.
Lateness == 6

(***************************************************************************)
(* "The server will be restarted in %d minute%s": a shutdown of less than  *)
(* ten minutes that was announced and not called off has happened once the *)
(* announced time, the grace period and the lateness of its timers are     *)
(* past.  Each stage of ScheduleShutdown hands its remaining time to the   *)
(* next.  The condition is the code's limit: from ten minutes on the stage *)
(* of ten minutes repeats for ever and the restart never comes.            *)
(***************************************************************************)
RestartsWhenAnnounced ==
    \A a \in announced :
        a.minutes < 10 /\ ~stopped => now <= a.end + Grace + Lateness

(***************************************************************************)
(* A countdown that is running can be called off: the handler holds the id *)
(* of its timer, although every stage sets a new one.                      *)
(***************************************************************************)
CountdownCancellable == task # {} => mShutdownTask = "live"
=============================================================================
