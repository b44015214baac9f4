--------------------------------- MODULE Scheduler ---------------------------------
(***************************************************************************)
(* The scheduler of the polled producers (runtime/scheduler.hpp): periodic *)
(* tasks, each in the list of one of two loops, run by that loop's thread  *)
(* when their deadline has passed.  The loops share nothing but running_   *)
(* and the clock, so a behaviour follows one of them.                      *)
(*                                                                         *)
(* The clock counts half milliseconds and passes on between any two steps: *)
(* a callback takes any time, a sleeping thread may wake late, a thread    *)
(* that could run may have to wait.  A local the code does not read again  *)
(* is put to 0.                                                            *)
(***************************************************************************)
EXTENDS Integers, Sequences

CONSTANTS
  Tasks,     \* number of tasks added
  Cutover,   \* high_res_cutover_ms
  Periods,   \* periods they are added with
  Spins,     \* their spin windows, 0 for none
  MaxClock   \* bound on the time

ASSUME SchedulerAssumption ==
  /\ Tasks \in Nat \ {0} /\ Cutover \in Nat
  /\ Periods \subseteq Nat \ {0} /\ Spins \subseteq Nat /\ MaxClock \in Nat

VARIABLES
  high,      \* the loop followed is loop_high
  period,    \* per task of this loop, period_ns
  spin,      \* spin_us
  running,   \* running_
  loop,      \* where the thread stands; "none" when there is none
  clock,     \* the steady clock
  due,       \* next_deadline_ns
  begun,     \* history: the time of start()
  now,       \* now_ns
  nextWake,  \* next_wake_ns
  task,      \* the task the pass is at
  wake,      \* when the sleep ends
  starts     \* history: per task, the last three times its callback began

schedulerVars == <<high, period, spin, running, loop, clock, due, begun, now, nextWake, task,
                   wake, starts>>

Cap == IF high THEN 2 ELSE 10             \* how far ahead a pass looks
Added == 1 .. Len(period)

(* A short period is for the high-resolution loop, a longer one only when it is forced. *)
Belongs(p, forced) == high = (forced \/ p <= Cutover)

SchedulerStart ==
  /\ running = FALSE /\ loop = "none" /\ clock = 0
  /\ due = [t \in Added |-> 0] /\ begun = 0 /\ now = 0 /\ nextWake = 0 /\ task = 0 /\ wake = 0
  /\ starts = [t \in Added |-> << >>]

SchedulerIdle == high = TRUE /\ period = << >> /\ spin = << >> /\ SchedulerStart

SchedulerInit ==
  /\ high \in BOOLEAN
  /\ period \in [1 .. Tasks -> {p \in Periods : \E forced \in BOOLEAN : Belongs(p, forced)}]
  /\ spin \in [1 .. Tasks -> IF high THEN Spins ELSE {0}]
  /\ SchedulerStart

Tick ==
  /\ loop # "none" /\ clock < MaxClock /\ clock' = clock + 1
  /\ UNCHANGED <<high, period, spin, running, loop, due, begun, now, nextWake, task, wake, starts>>

StartScheduler ==
  /\ ~running /\ loop = "none" /\ running' = TRUE /\ loop' = "test"
  /\ begun' = clock /\ due' = [t \in Added |-> clock + period[t]]
  /\ starts' = [t \in Added |-> << >>]
  /\ UNCHANGED <<high, period, spin, clock, now, nextWake, task, wake>>

(* stop() clears the flag, and joins the thread when it has seen that. *)
StopSignal ==
  /\ running /\ running' = FALSE
  /\ UNCHANGED <<high, period, spin, loop, clock, due, begun, now, nextWake, task, wake, starts>>

StopJoin ==
  /\ ~running /\ loop = "done" /\ loop' = "none"
  /\ UNCHANGED <<high, period, spin, running, clock, due, begun, now, nextWake, task, wake, starts>>

Test ==
  /\ loop = "test"
  /\ IF running
       THEN loop' = "pass" /\ now' = clock /\ nextWake' = clock + Cap /\ task' = 1
       ELSE loop' = "done" /\ UNCHANGED <<now, nextWake, task>>
  /\ UNCHANGED <<high, period, spin, running, clock, due, begun, wake, starts>>

Least(a, b) == IF a <= b THEN a ELSE b

LastThree(s) == IF Len(s) > 3 THEN Tail(s) ELSE s

(* The deadline is compared with the time the pass began, or its last callback ended. *)
RunTask ==
  /\ loop = "pass" /\ task \in Added /\ now >= due[task]
  /\ loop' = "call" /\ now' = 0 /\ starts' = [starts EXCEPT ![task] = LastThree(Append(@, clock))]
  /\ UNCHANGED <<high, period, spin, running, clock, due, begun, nextWake, task, wake>>

PassOver ==
  /\ loop = "pass" /\ task \in Added /\ now < due[task]
  /\ nextWake' = Least(nextWake, due[task]) /\ task' = task + 1
  /\ UNCHANGED <<high, period, spin, running, loop, clock, due, begun, now, wake, starts>>

(* Faulty variant: a task that is late makes up for every period. *)
CatchUp(t, time) == due[t] + period[t]

(* The periods missed are left out. *)
NextDeadline(t, time) ==
  IF time > due[t] + period[t]
    THEN due[t] + ((time - due[t]) \div period[t] + 1) * period[t]
    ELSE due[t] + period[t]

TaskReturns ==
  /\ loop = "call" /\ loop' = "pass" /\ now' = clock
  /\ due' = [due EXCEPT ![task] = NextDeadline(task, clock)]
  /\ nextWake' = Least(nextWake, due'[task]) /\ task' = task + 1
  /\ UNCHANGED <<high, period, spin, running, clock, begun, wake, starts>>

(* The longest spin window of the tasks that are due next. *)
Window ==
  LET of == {0} \union {spin[t] : t \in {u \in Added : due[u] = nextWake}}
  IN  CHOOSE w \in of : \A v \in of : v <= w

Delta == nextWake - clock

SleepFor(d) == loop' = "sleep" /\ wake' = clock + d

PlanHigh ==
  IF Window > 0 /\ Delta > Window THEN SleepFor(Delta - Window)
  ELSE IF Delta > 3 THEN SleepFor(Delta - 1)
  ELSE loop' = "spin" /\ UNCHANGED wake

PlanNormal == SleepFor(IF Delta > 4 THEN Delta - 1 ELSE Delta)

Plan ==
  /\ loop = "pass" /\ task \notin Added /\ now' = 0 /\ task' = 0
  /\ nextWake' = IF high /\ nextWake > clock THEN nextWake ELSE 0
  /\ IF nextWake <= clock THEN loop' = "test" /\ UNCHANGED wake
     ELSE IF high THEN PlanHigh ELSE PlanNormal
  /\ UNCHANGED <<high, period, spin, running, clock, due, begun, starts>>

Wake ==
  /\ loop = "sleep" /\ clock >= wake /\ wake' = 0
  /\ loop' = IF high THEN "spin" ELSE "test"
  /\ UNCHANGED <<high, period, spin, running, clock, due, begun, now, nextWake, task, starts>>

Spun ==
  /\ loop = "spin" /\ (~running \/ clock >= nextWake) /\ loop' = "test" /\ nextWake' = 0
  /\ UNCHANGED <<high, period, spin, running, clock, due, begun, now, task, wake, starts>>

SchedulerNext ==
  \/ Tick \/ StartScheduler \/ StopSignal \/ StopJoin
  \/ Test \/ RunTask \/ PassOver \/ TaskReturns \/ Plan \/ Wake \/ Spun

SchedulerSpec == SchedulerInit /\ [][SchedulerNext]_schedulerVars
-----------------------------------------------------------------------------
(* However long the callbacks take and however late the thread wakes: deadlines keep the
   phase of start(); a late task does not make up for its lost periods by a burst, any
   three of its runs span a period; the loop never plans to sleep past a deadline; and
   when stop() has returned nothing runs until the next start().  The code is loop_high,
   loop_normal and execute_task. *)
PacedRuns ==
  /\ \A t \in Added :
       /\ (due[t] - begun) % period[t] = 0
       /\ starts[t] # << >> => starts[t][1] >= begun + period[t]
       /\ Len(starts[t]) = 3 => starts[t][3] - starts[t][1] >= period[t]
       /\ loop = "sleep" => wake <= due[t]
  /\ loop = "none" => ~running
=============================================================================
