--------------------------- MODULE ShutdownProofs ----------------------------
(***************************************************************************)
(* What holds of the countdown for any length of a minute and of the grace *)
(* period, any requests, and any bound on time.                            *)
(***************************************************************************)
EXTENDS Shutdown, TLAPS

Types == TypeOK /\ CountdownCancellable

LEMMA WaitType ==
    ASSUME NEW minutes \in Int
    PROVE  Wait(minutes) \in Int /\ minutes - Wait(minutes) \in Nat
BY DEF Wait

LEMMA StageType ==
    ASSUME NEW minutes \in Int, NEW time \in Nat
    PROVE  [at |-> time + Wait(minutes) * Minute, next |-> minutes - Wait(minutes),
            last |-> minutes <= 1] \in Stages
<1> DEFINE length == Wait(minutes) * Minute
<1>1. length \in Int
  BY WaitType, ShutdownAssumption
<1> HIDE DEF length
<1>2. time + length \in Int /\ minutes - Wait(minutes) \in Nat
  BY <1>1, WaitType
<1>3. (minutes <= 1) \in BOOLEAN
  OBVIOUS
<1> QED
  BY <1>2, <1>3, Zenon DEF Stages, length

LEMMA TypesHold == Init => Types
<1> SUFFICES ASSUME Init PROVE Types
  OBVIOUS
<1>1. now \in 0..MaxTime /\ announced \in SUBSET Announcements
  BY ShutdownAssumption DEF Init
<1>2. /\ task \in SUBSET Stages /\ mShutdownTask \in {"none", "live", "ran"}
      /\ stopTimers \in SUBSET Nat /\ maintenance \in BOOLEAN /\ stopped \in BOOLEAN
      /\ CountdownCancellable
  BY DEF Init, CountdownCancellable
<1> QED
  BY <1>1, <1>2 DEF Types, TypeOK

LEMMA TypesKept == Types /\ [Next]_vars => Types'
<1> SUFFICES ASSUME Types, [Next]_vars PROVE Types'
  OBVIOUS
<1>1. now \in Nat
  BY ShutdownAssumption DEF Types, TypeOK
<1>2. CASE UNCHANGED vars
  BY <1>2 DEF vars, Types, TypeOK, CountdownCancellable
<1>3. ASSUME NEW minutes \in Requests, Command(minutes)
      PROVE  Types'
  <2>1. minutes \in Int /\ (minutes > 0 => minutes * Minute \in Nat)
    BY ShutdownAssumption
  <2>2. task' \in SUBSET Stages
    BY <1>1, <1>3, <2>1, StageType DEF Command, ScheduleShutdown
  <2>3. announced' \in SUBSET Announcements
    <3>1. PICK end : end = now + (IF minutes > 0 THEN minutes * Minute ELSE 0)
      OBVIOUS
    <3>2. end \in Nat
      BY <1>1, <2>1, <3>1
    <3>3. announced' = {[minutes |-> minutes, end |-> end]}
      BY <1>3, <3>1, Zenon DEF Command
    <3> QED
      BY <2>1, <3>2, <3>3 DEF Announcements
  <2> QED
    BY <1>3, <2>2, <2>3
    DEF Command, ScheduleShutdown, Types, TypeOK, CountdownCancellable
<1>4. CASE CancelCommand
  BY <1>4 DEF CancelCommand, Types, TypeOK, CountdownCancellable
<1>5. ASSUME NEW t \in task, StageTimer(t)
      PROVE  Types'
  <2>1. t.next \in Nat
    BY DEF Types, TypeOK, Stages
  <2>2. task' \in SUBSET Stages
    BY <1>1, <1>5, <2>1, StageType DEF StageTimer, ScheduleShutdown
  <2> QED
    BY <1>5, <2>2 DEF StageTimer, ScheduleShutdown, Types, TypeOK, CountdownCancellable
<1>6. ASSUME NEW t \in task, LastTimer(t)
      PROVE  Types'
  BY <1>1, <1>6, ShutdownAssumption DEF LastTimer, Types, TypeOK, CountdownCancellable
<1>7. ASSUME NEW at \in stopTimers, StopTimer(at)
      PROVE  Types'
  BY <1>7 DEF StopTimer, Types, TypeOK, CountdownCancellable
<1>8. CASE Tick
  BY <1>8, ShutdownAssumption DEF Tick, Types, TypeOK, CountdownCancellable
<1> QED
  BY <1>2, <1>3, <1>4, <1>5, <1>6, <1>7, <1>8 DEF Next

LEMMA TypesInvariant == Spec => []Types
BY TypesHold, TypesKept, PTL DEF Spec

(***************************************************************************)
(* Every stage of ScheduleShutdown leaves a time that is not negative.     *)
(***************************************************************************)
THEOREM ShutdownTypeCorrect == Spec => []TypeOK
BY TypesInvariant, PTL DEF Types

(***************************************************************************)
(* Whatever is asked for, and however often it was called off before: the  *)
(* id the handler holds is that of the running timer.                      *)
(***************************************************************************)
THEOREM ShutdownCancellable == Spec => []CountdownCancellable
BY TypesInvariant, PTL DEF Types

-----------------------------------------------------------------------------
(* Countdowns of less than ten minutes happen in time.                     *)

\* The lateness of the timers that ran before the one that leaves n minutes.
Slack(n) == IF n = 5 THEN 0 ELSE 4 - n

\* Timers are at most a tick late, but for the one that a negative request
\* sets in the past; and what is left after each of them does not reach past
\* the announced time but for the lateness so far.
Timely ==
    /\ \A a \in announced : a.minutes < 10 =>
          /\ \A t \in task :
                /\ t.next \in {0, 1, 2, 3, 5} /\ (t.last <=> t.next = 0)
                /\ now <= t.at + 1 \/ (t.last /\ now <= a.end)
                /\ t.at + t.next * Minute <= a.end + Slack(t.next)
          /\ ~stopped => \/ task # {}
                         \/ \E at \in stopTimers : at <= a.end + Grace + 5
    /\ \A at \in stopTimers : now <= at + 1

IInv == Types /\ Timely

\* A stage that starts with n minutes left and at most the lateness of the
\* stages before it.
LEMMA StageTimely ==
    ASSUME NEW n \in 0..9, NEW time \in Nat, NEW end \in Nat,
           time + n * Minute <= end + (IF n = 5 THEN 1 ELSE IF n \in 1..3 THEN 5 - n ELSE 0)
    PROVE  LET at == time + Wait(n) * Minute
               next == n - Wait(n)
           IN  /\ next \in {0, 1, 2, 3, 5} /\ (n <= 1 <=> next = 0)
               /\ time <= at + 1
               /\ at + next * Minute <= end + Slack(next)
<1>1. Minute \in Nat
  BY ShutdownAssumption
<1>2. CASE n \in 6..9
  <2>1. Wait(n) = n - 5
    BY <1>2 DEF Wait
  <2>2. (n - 5) * Minute + 5 * Minute = n * Minute /\ (n - 5) * Minute \in Nat
    BY <1>1, <1>2
  <2>3. n - (n - 5) = 5
    OBVIOUS
  <2>4. time + n * Minute <= end
    BY <1>2
  <2>5. Slack(5) = 0
    BY DEF Slack
  <2> QED
    BY <1>1, <1>2, <2>1, <2>2, <2>3, <2>4, <2>5
<1>3. CASE n = 5
  <2>1. Wait(n) = 2 /\ Slack(3) = 1
    BY <1>3 DEF Wait, Slack
  <2> QED
    BY <1>1, <1>3, <2>1
<1>4. CASE n = 4
  <2>1. Wait(n) = 1 /\ Slack(3) = 1
    BY <1>4 DEF Wait, Slack
  <2> QED
    BY <1>1, <1>4, <2>1
<1>5. CASE n = 3
  <2>1. Wait(n) = 1 /\ Slack(2) = 2
    BY <1>5 DEF Wait, Slack
  <2> QED
    BY <1>1, <1>5, <2>1
<1>6. CASE n = 2
  <2>1. Wait(n) = 1 /\ Slack(1) = 3
    BY <1>6 DEF Wait, Slack
  <2> QED
    BY <1>1, <1>6, <2>1
<1>7. CASE n = 1
  <2>1. Wait(n) = 1 /\ Slack(0) = 4
    BY <1>7 DEF Wait, Slack
  <2> QED
    BY <1>1, <1>7, <2>1
<1>8. CASE n = 0
  <2>1. Wait(n) = 0 /\ Slack(0) = 4
    BY <1>8 DEF Wait, Slack
  <2> QED
    BY <1>1, <1>8, <2>1
<1> QED
  BY <1>2, <1>3, <1>4, <1>5, <1>6, <1>7, <1>8

\* Time passes only while no timer is overdue.
LEMMA TimelyKept == IInv /\ [Next]_vars => IInv'
<1> SUFFICES ASSUME IInv, [Next]_vars PROVE Timely'
  BY TypesKept DEF IInv
<1>1. /\ now \in Nat /\ now' \in Nat /\ Minute \in Nat /\ Grace \in Nat
      /\ \A a \in announced : a.minutes \in Int /\ a.end \in Nat
      /\ \A t \in task : t.at \in Int /\ t.next \in Nat
      /\ stopTimers \in SUBSET Nat
  <2>1. Types'
    BY TypesKept DEF IInv
  <2> QED
    BY <2>1, ShutdownAssumption DEF IInv, Types, TypeOK, Stages, Announcements
<1>2. CASE UNCHANGED vars
  BY <1>2 DEF vars, IInv, Timely
<1>3. ASSUME NEW n \in Requests, Command(n)
      PROVE  Timely'
  <2>1. PICK at, next, end :
          /\ at = now + Wait(n) * Minute /\ next = n - Wait(n)
          /\ end = now + (IF n > 0 THEN n * Minute ELSE 0)
    OBVIOUS
  <2>2. n \in Int /\ (n > 0 => n * Minute \in Nat)
    BY <1>1, ShutdownAssumption
  <2>3. end \in Nat
    BY <1>1, <2>1, <2>2
  <2>4. /\ task' = {[at |-> at, next |-> next, last |-> n <= 1]}
        /\ announced' = {[minutes |-> n, end |-> end]}
        /\ UNCHANGED <<now, stopTimers>>
    BY <1>3, <2>1, Zenon DEF Command, ScheduleShutdown
  <2>5. /\ \A t \in task' : t.at = at /\ t.next = next /\ t.last = (n <= 1)
        /\ \A a \in announced' : a.minutes = n /\ a.end = end
        /\ task' # {}
    BY <2>2, <2>4
  <2>6. ASSUME n < 10
        PROVE  /\ next \in {0, 1, 2, 3, 5} /\ (n <= 1 <=> next = 0)
               /\ now <= at + 1 \/ (n <= 1 /\ now <= end)
               /\ at + next * Minute <= end + Slack(next)
    <3>1. CASE n \in 0..9
      <4>1. end = now + n * Minute
        BY <1>1, <2>1, <3>1
      <4> QED
        BY <1>1, <2>1, <2>3, <3>1, <4>1, StageTimely
    <3>2. CASE n < 0
      <4>1. Wait(n) = n /\ Slack(0) = 4
        BY <2>2, <3>2 DEF Wait, Slack
      <4>2. n * Minute \in Int /\ n * Minute <= 0
        BY <1>1, <2>2, <3>2
      <4> QED
        BY <1>1, <2>1, <2>2, <3>2, <4>1, <4>2
    <3> QED
      BY <2>2, <2>6, <3>1, <3>2
  <2>7. ASSUME NEW a \in announced', NEW t \in task', a.minutes < 10
        PROVE  /\ t.next \in {0, 1, 2, 3, 5} /\ (t.last <=> t.next = 0)
               /\ now' <= t.at + 1 \/ (t.last /\ now' <= a.end)
               /\ t.at + t.next * Minute <= a.end + Slack(t.next)
    <3>1. /\ a.minutes = n /\ a.end = end
          /\ t.at = at /\ t.next = next /\ t.last = (n <= 1) /\ now' = now
      BY <2>4, <2>5, Zenon
    <3>2. n < 10
      BY <2>7, <3>1, Zenon
    <3> QED
      BY <2>6, <3>1, <3>2, Zenon
  <2> QED
    BY <2>4, <2>5, <2>7, Zenon DEF IInv, Timely
<1>4. CASE CancelCommand
  BY <1>4 DEF CancelCommand, IInv, Timely
<1>5. ASSUME NEW t \in task, StageTimer(t)
      PROVE  Timely'
  <2>1. PICK n, at, next :
          n = t.next /\ at = now + Wait(n) * Minute /\ next = n - Wait(n)
    OBVIOUS
  <2>2. /\ task' = {[at |-> at, next |-> next, last |-> n <= 1]}
        /\ UNCHANGED <<now, stopTimers, stopped, announced>>
    BY <1>5, <2>1, Zenon DEF StageTimer, ScheduleShutdown
  <2>3. n \in Nat
    BY <1>1, <2>1
  <2>4. task' # {} /\ \A u \in task' : u.at = at /\ u.next = next /\ u.last = (n <= 1)
    BY <2>2, <2>3
  <2>5. ASSUME NEW a \in announced, a.minutes < 10
        PROVE  /\ next \in {0, 1, 2, 3, 5} /\ (n <= 1 <=> next = 0)
               /\ now <= at + 1
               /\ at + next * Minute <= a.end + Slack(next)
    <3>1. /\ n \in {1, 2, 3, 5} /\ n * Minute \in Nat /\ now <= t.at + 1
          /\ t.at + n * Minute <= a.end + Slack(n)
      BY <1>1, <1>5, <2>1, <2>5 DEF StageTimer, IInv, Timely
    <3>2. Slack(n) + 1 = (IF n = 5 THEN 1 ELSE IF n \in 1..3 THEN 5 - n ELSE 0)
          /\ Slack(n) \in Nat
      BY <3>1 DEF Slack
    <3>3. now + n * Minute <= a.end + (IF n = 5 THEN 1 ELSE IF n \in 1..3 THEN 5 - n ELSE 0)
      BY <1>1, <3>1, <3>2
    <3>4. n \in 0..9 /\ a.end \in Nat
      BY <1>1, <3>1
    <3> QED
      BY <1>1, <2>1, <3>3, <3>4, StageTimely
  <2>6. ASSUME NEW a \in announced', NEW u \in task', a.minutes < 10
        PROVE  /\ u.next \in {0, 1, 2, 3, 5} /\ (u.last <=> u.next = 0)
               /\ now' <= u.at + 1 \/ (u.last /\ now' <= a.end)
               /\ u.at + u.next * Minute <= a.end + Slack(u.next)
    BY <2>2, <2>4, <2>5, <2>6, Zenon
  <2> QED
    BY <2>2, <2>4, <2>6, Zenon DEF IInv, Timely
<1>6. ASSUME NEW t \in task, LastTimer(t)
      PROVE  Timely'
  <2>1. ASSUME NEW a \in announced, a.minutes < 10
        PROVE  now + Grace <= a.end + Grace + 5
    <3>1. /\ t.next = 0
          /\ now <= t.at + 1 \/ now <= a.end
          /\ t.at + t.next * Minute <= a.end + Slack(t.next)
      BY <1>6, <2>1 DEF LastTimer, IInv, Timely
    <3> QED
      BY <1>1, <3>1 DEF Slack
  <2>2. /\ task' = {} /\ stopTimers' = stopTimers \cup {now + Grace}
        /\ UNCHANGED <<now, announced>>
    BY <1>6 DEF LastTimer
  <2>3. \A at \in stopTimers' : now' <= at + 1
    BY <1>1, <2>2 DEF IInv, Timely
  <2> QED
    BY <1>1, <2>1, <2>2, <2>3 DEF Timely
<1>7. ASSUME NEW at \in stopTimers, StopTimer(at)
      PROVE  Timely'
  BY <1>7 DEF StopTimer, IInv, Timely
<1>8. CASE Tick
  <2>1. /\ now' = now + 1
        /\ \A t \in task : now <= t.at
        /\ \A at \in stopTimers : now <= at
        /\ UNCHANGED <<task, stopTimers, stopped, announced>>
    BY <1>1, <1>8 DEF Tick
  <2> QED
    BY <1>1, <2>1 DEF IInv, Timely
<1> QED
  BY <1>2, <1>3, <1>4, <1>5, <1>6, <1>7, <1>8 DEF Next

(***************************************************************************)
(* For any requests, and minutes and grace periods of any length: a        *)
(* shutdown of less than ten minutes that is not called off has happened   *)
(* when the announced time, the grace period and the lateness of six       *)
(* timers are past, whatever other requests went before it.                *)
(***************************************************************************)
THEOREM ShutdownInTime == Spec => []RestartsWhenAnnounced
<1>1. Init => IInv
  BY TypesHold DEF Init, IInv, Timely
<1>2. IInv /\ [Next]_vars => IInv'
  BY TimelyKept
<1>3. IInv => RestartsWhenAnnounced
  <2> SUFFICES ASSUME IInv, NEW a \in announced, a.minutes < 10, ~stopped
               PROVE  now <= a.end + Grace + 6
    BY DEF RestartsWhenAnnounced, Lateness
  <2>1. /\ now \in Nat /\ Minute \in Nat /\ Grace \in Nat /\ a.end \in Nat
        /\ \A t \in task : t.at \in Int /\ t.next \in Nat
        /\ stopTimers \in SUBSET Nat
    BY ShutdownAssumption DEF IInv, Types, TypeOK, Stages, Announcements
  <2>2. ASSUME NEW t \in task
        PROVE  now <= a.end + Grace + 6
    <3>1. /\ now <= t.at + 1 \/ now <= a.end
          /\ t.at + t.next * Minute <= a.end + Slack(t.next)
          /\ t.next * Minute \in Nat /\ Slack(t.next) \in Int /\ Slack(t.next) <= 4
      BY <2>1 DEF IInv, Timely, Slack
    <3> QED
      BY <2>1, <3>1
  <2>3. ASSUME NEW at \in stopTimers, at <= a.end + Grace + 5
        PROVE  now <= a.end + Grace + 6
    BY <2>1, <2>3 DEF IInv, Timely
  <2> QED
    BY <2>2, <2>3 DEF IInv, Timely
<1> QED
  BY <1>1, <1>2, <1>3, PTL DEF Spec
=============================================================================
