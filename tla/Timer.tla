-------------------------------- MODULE Timer --------------------------------
(***************************************************************************)
(* The hard timers of src/rt-thread/src/timer.c and the tick interrupt of  *)
(* src/rt-thread/src/clock.c: one list in the order of the deadlines,      *)
(* which are tick counts modulo 2^32.                                      *)
(*                                                                         *)
(* Sleeper timers are the thread_timer of a thread: started by the thread  *)
(* and stopped by rt_thread_resume, each time with interrupts disabled.    *)
(* Driver timers belong to a client, one thread that starts, stops, sets   *)
(* up and detaches the timer and is interrupted by the tick between any    *)
(* two locked sections; their callback may start or stop them.             *)
(***************************************************************************)
EXTENDS Integers, Sequences, FiniteSets

CONSTANTS Sleeper, Driver,
          TickMod,    \* number of tick values, 2^32
          Time,       \* the times timers are given
          MaxDelay    \* bound: ticks that pass inside one rt_timer_start

Timer   == Sleeper \cup Driver
TickMax == TickMod - 1           \* RT_TICK_MAX
Half    == TickMax \div 2

ASSUME TimerAssumption == IsFiniteSet(Timer) /\ Sleeper \cap Driver = {}
ASSUME TickAssumption  == TickMod \in Nat /\ TickMod > 2
ASSUME TimeAssumption  == Time \subseteq 1 .. TickMax /\ MaxDelay \in Nat
\* Deadlines are compared correctly while they are less than Half apart: the
\* assertion sees to it for the times themselves, and a start may be delayed by
\* what the longest time it lets pass leaves (a new timer has 1 tick).
ASSUME DelayAssumption == \A m, n \in Time \cup {1} : m < Half => m - n + MaxDelay < Half

VARIABLES tick,       \* rt_tick
          timer_list, \* rt_timer_list
          timer,      \* the fields of each timer
          isr,        \* "off", "check": in rt_timer_check, "assert": stuck in it
          pc,         \* where the client of each driver timer is
          seen_flag,  \* the flags an unfinished read-modify-write has read
          left,       \* history: left[t], ticks until its deadline, not modulo
          calls,      \* history: calls[t], callbacks of t in this rt_timer_check
          stopped,    \* history: the driver timer was stopped since its last start
          blurred     \* history: ACTIVATED is wrong since the last start or stop

history == <<left, calls, stopped, blurred>>
vars    == <<tick, timer_list, timer, isr, pc, seen_flag, history>>

ClientPC == {"idle", "start", "start_timed", "stop", "stop_removed", "control", "detached", "assert"}

Range(s)  == {s[i] : i \in 1 .. Len(s)}
Listed(t) == t \in Range(timer_list)

-----------------------------------------------------------------------------
(* Ticks and the list.                                                     *)

\* mutant: no wrap-around
PlusUnbounded(a, b) == a + b

\* rt_tick_t arithmetic
Plus(a, b)  == (a + b) % TickMod
Minus(a, b) == (a - b + TickMod) % TickMod

\* mutant: deadlines are compared as numbers
LaterUnsigned(a, b) == a > b

\* mutant: the new timer is put before those of the same deadline
LaterOrSame(a, b) == Minus(a, b) < Half

\* deadline a is after deadline b
Later(a, b) == Minus(a, b) # 0 /\ Minus(a, b) < Half

\* mutant: deadlines are compared as numbers
DueUnsigned(t) == tick >= timer[t].timeout_tick

Due(t) == Minus(tick, timer[t].timeout_tick) < Half

\* mutant: a period is one tick short
DeadlineShort(n) == Plus(tick, n - 1)

\* timeout_tick of a timer of n ticks started now
Deadline(n) == Plus(tick, n)

\* list without t (_rt_timer_remove; nothing happens when t is not linked)
Removed(list, t) ==
    IF t \notin Range(list) THEN list
    ELSE LET p == CHOOSE p \in 1 .. Len(list) : list[p] = t
         IN  SubSeq(list, 1, p - 1) \o SubSeq(list, p + 1, Len(list))

\* list with t, whose deadline is d, before the first that is later
Inserted(list, t, d) ==
    LET p == CHOOSE p \in 1 .. Len(list) + 1 :
                /\ p <= Len(list) => Later(timer[list[p]].timeout_tick, d)
                /\ \A i \in 1 .. p - 1 : ~ Later(timer[list[i]].timeout_tick, d)
    IN  SubSeq(list, 1, p - 1) \o <<t>> \o SubSeq(list, p, Len(list))

\* t as it is off the list: its deadline is not read before it is set again
Idle(t, active) == [timer[t] EXCEPT !.timeout_tick = 0, !.activated = active]

\* RT_ASSERT(timer->init_tick < RT_TICK_MAX / 2)
TooLong(t) == timer[t].init_tick >= Half

Init == /\ tick = 0
        /\ timer_list = <<>>
        /\ timer = [t \in Timer |-> [init_tick |-> 1, timeout_tick |-> 0,
                                     activated |-> FALSE, periodic |-> FALSE]]
        /\ isr = "off"
        /\ pc = [t \in Driver |-> "idle"]
        /\ seen_flag = [t \in Driver |-> FALSE]
        /\ left = [t \in Timer |-> 0]
        /\ calls = [t \in Timer |-> 0]
        /\ stopped = [t \in Timer |-> FALSE]
        /\ blurred = [t \in Timer |-> FALSE]

-----------------------------------------------------------------------------
(* Thread timers.  The time is set and the timer started in one section; a *)
(* time that is too long stops everything in the assertion of StartTime,   *)
(* with interrupts disabled, and is left out.                              *)

SleeperStart(t, n) ==
    /\ isr = "off" /\ ~ Listed(t) /\ n < Half
    /\ timer_list' = Inserted(timer_list, t, Deadline(n))
    /\ timer' = [timer EXCEPT ![t].timeout_tick = Deadline(n), ![t].activated = TRUE]
    /\ left' = [left EXCEPT ![t] = n]
    /\ UNCHANGED <<tick, isr, pc, seen_flag, calls, stopped, blurred>>

\* rt_thread_resume
SleeperStop(t) ==
    /\ isr = "off" /\ timer[t].activated
    /\ timer_list' = Removed(timer_list, t)
    /\ timer' = [timer EXCEPT ![t] = Idle(t, FALSE)]
    /\ left' = [left EXCEPT ![t] = 0]
    /\ UNCHANGED <<tick, isr, pc, seen_flag, calls, stopped, blurred>>

-----------------------------------------------------------------------------
(* Driver timers: rt_timer_start.                                          *)

Goto(t, p) == pc' = [pc EXCEPT ![t] = p]
At(t, p)   == isr = "off" /\ pc[t] = p

StartRemove(t) ==
    /\ At(t, "idle")
    /\ Goto(t, "start")
    /\ timer_list' = Removed(timer_list, t)
    /\ timer' = [timer EXCEPT ![t] = Idle(t, FALSE)]
    /\ left' = [left EXCEPT ![t] = 0]
    /\ stopped' = [stopped EXCEPT ![t] = FALSE]
    /\ blurred' = [blurred EXCEPT ![t] = FALSE]
    /\ UNCHANGED <<tick, isr, seen_flag, calls>>

StartTime(t) ==
    /\ At(t, "start")
    /\ IF TooLong(t)
       THEN Goto(t, "assert") /\ UNCHANGED <<timer, left>>
       ELSE /\ Goto(t, "start_timed")
            /\ timer' = [timer EXCEPT ![t].timeout_tick = Deadline(timer[t].init_tick)]
            /\ left' = [left EXCEPT ![t] = timer[t].init_tick]
    /\ UNCHANGED <<tick, timer_list, isr, seen_flag, calls, stopped, blurred>>

StartInsert(t) ==
    /\ At(t, "start_timed")
    /\ Goto(t, "idle")
    /\ timer_list' = Inserted(timer_list, t, timer[t].timeout_tick)
    /\ timer' = [timer EXCEPT ![t].activated = TRUE]
    /\ UNCHANGED <<tick, isr, seen_flag, history>>

-----------------------------------------------------------------------------
(* rt_timer_stop, rt_timer_control, rt_timer_detach, rt_timer_init.        *)

StopTest(t) ==
    /\ At(t, "idle")
    /\ timer[t].activated               \* else -RT_ERROR, nothing changes
    /\ Goto(t, "stop")
    /\ UNCHANGED <<tick, timer_list, timer, isr, seen_flag, history>>

StopRemove(t) ==
    /\ At(t, "stop")
    /\ Goto(t, "stop_removed")
    /\ timer_list' = Removed(timer_list, t)
    /\ timer' = [timer EXCEPT ![t] = Idle(t, timer[t].activated)]
    /\ left' = [left EXCEPT ![t] = 0]
    /\ stopped' = [stopped EXCEPT ![t] = TRUE]
    /\ UNCHANGED <<tick, isr, seen_flag, calls, blurred>>

\* mutant: the state is not changed
StopClearForgotten(t) == timer

\* timer->parent.flag &= ~RT_TIMER_FLAG_ACTIVATED
StopClear(t) == [timer EXCEPT ![t].activated = FALSE]

StopReturn(t) ==
    /\ At(t, "stop_removed")
    /\ Goto(t, "idle")
    /\ timer' = StopClear(t)
    /\ blurred' = [blurred EXCEPT ![t] = FALSE]
    /\ UNCHANGED <<tick, timer_list, isr, seen_flag, calls, left, stopped>>

\* RT_TIMER_CTRL_SET_TIME
ControlTime(t, n) ==
    /\ At(t, "idle")
    /\ timer' = [timer EXCEPT ![t].init_tick = n]
    /\ UNCHANGED <<tick, timer_list, isr, pc, seen_flag, history>>

\* RT_TIMER_CTRL_SET_PERIODIC, SET_ONESHOT: the flags are read, and written
\* back with interrupts enabled
ControlRead(t) ==
    /\ At(t, "idle")
    /\ Goto(t, "control")
    /\ seen_flag' = [seen_flag EXCEPT ![t] = timer[t].activated]
    /\ UNCHANGED <<tick, timer_list, timer, isr, history>>

ControlWrite(t, p) ==
    /\ At(t, "control")
    /\ Goto(t, "idle")
    /\ timer' = [timer EXCEPT ![t].activated = seen_flag[t], ![t].periodic = p]
    /\ blurred' = [blurred EXCEPT ![t] = @ \/ seen_flag[t] # timer[t].activated]
    /\ seen_flag' = [seen_flag EXCEPT ![t] = FALSE]
    /\ UNCHANGED <<tick, timer_list, isr, left, calls, stopped>>

Detach(t) ==
    /\ At(t, "idle")
    /\ Goto(t, "detached")
    /\ timer_list' = Removed(timer_list, t)
    /\ timer' = [timer EXCEPT ![t] = Idle(t, timer[t].activated)]
    /\ left' = [left EXCEPT ![t] = 0]
    /\ stopped' = [stopped EXCEPT ![t] = TRUE]
    /\ UNCHANGED <<tick, isr, seen_flag, calls, blurred>>

Make(t, p) ==
    /\ At(t, "detached")
    /\ Goto(t, "idle")
    /\ timer' = [timer EXCEPT ![t].activated = FALSE, ![t].periodic = p]
    /\ blurred' = [blurred EXCEPT ![t] = FALSE]
    /\ UNCHANGED <<tick, timer_list, isr, seen_flag, calls, left, stopped>>

-----------------------------------------------------------------------------
(* The tick interrupt.                                                     *)

\* mutant: the tick count stops at its largest value
TickedSaturated == IF tick = TickMax THEN tick ELSE tick + 1

\* ++ rt_tick
Ticked == Plus(tick, 1)

\* one tick less, down to one past what a delayed start explains
Less(n) == IF n < -MaxDelay THEN n ELSE n - 1

\* rt_tick_increase.  No start is delayed by more than MaxDelay ticks.
Tick ==
    /\ isr = "off"
    /\ \A t \in Driver : pc[t] = "start_timed" => timer[t].init_tick - left[t] < MaxDelay
    /\ tick' = Ticked
    /\ isr' = "check"
    /\ left' = [t \in Timer |-> IF Listed(t) \/ (t \in Driver /\ pc[t] = "start_timed")
                                THEN Less(left[t]) ELSE left[t]]
    /\ UNCHANGED <<timer_list, timer, pc, seen_flag, calls, stopped, blurred>>

\* mutant: a timer its callback stopped is started again
RestartsStopped(r) == r.periodic

\* rt_timer_check starts the timer again after its callback left it as r
Restarts(r) == r.periodic /\ r.activated

\* what the callback of t does with it
Callback(t) == IF t \in Sleeper THEN {"none"} ELSE {"none", "start", "stop"}

\* rt_timer_check: the first timer is due; its callback does c
CheckFire(c) ==
    /\ isr = "check" /\ timer_list # <<>>
    /\ LET t    == Head(timer_list)
           rest == Tail(timer_list)
           d    == Deadline(timer[t].init_tick)
           back == [timer[t] EXCEPT !.activated = CASE c = "none"  -> @
                                                    [] c = "start" -> TRUE
                                                    [] c = "stop"  -> FALSE]
           again == c = "start" \/ Restarts(back)
       IN
       /\ Due(t) /\ c \in Callback(t)
       /\ IF again /\ TooLong(t)
          THEN /\ isr' = "assert"
               /\ timer_list' = rest
               /\ timer' = [timer EXCEPT ![t] = Idle(t, FALSE)]
               /\ UNCHANGED history
          ELSE /\ timer_list' = IF again THEN Inserted(rest, t, d) ELSE rest
               /\ timer' = [timer EXCEPT ![t] =
                     [back EXCEPT !.activated = Restarts(back),
                                  !.timeout_tick = IF again THEN d ELSE 0]]
               /\ left' = [left EXCEPT ![t] = IF again THEN timer[t].init_tick ELSE 0]
               /\ calls' = [calls EXCEPT ![t] = @ + 1]
               /\ stopped' = [stopped EXCEPT ![t] = c = "stop" /\ timer[t].activated]
               /\ blurred' = [blurred EXCEPT ![t] = again /\ ~ Restarts(back)]
               /\ UNCHANGED isr
    /\ UNCHANGED <<tick, pc, seen_flag>>

CheckEnd ==
    /\ isr = "check"
    /\ timer_list # <<>> => ~ Due(Head(timer_list))
    /\ isr' = "off"
    /\ calls' = [t \in Timer |-> 0]
    /\ UNCHANGED <<tick, timer_list, timer, pc, seen_flag, left, stopped, blurred>>

Check == CheckEnd \/ \E c \in {"none", "start", "stop"} : CheckFire(c)

\* a client calls; goes on inside a call
ClientCall(t) == \/ StartRemove(t) \/ StopTest(t) \/ ControlRead(t) \/ Detach(t)
                 \/ \E n \in Time : ControlTime(t, n)
ClientStep(t) == \/ StartTime(t) \/ StartInsert(t) \/ StopRemove(t) \/ StopReturn(t)
                 \/ \E p \in BOOLEAN : ControlWrite(t, p) \/ Make(t, p)

Next == \/ Tick \/ Check
        \/ \E t \in Sleeper : SleeperStop(t) \/ \E n \in Time : SleeperStart(t, n)
        \/ \E t \in Driver : ClientCall(t) \/ ClientStep(t)

\* the tick comes and its handler runs on; a client that is inside a call runs
Fairness == WF_vars(Tick) /\ WF_vars(Check) /\ \A t \in Driver : WF_vars(ClientStep(t))

Spec == Init /\ [][Next]_vars /\ Fairness

-----------------------------------------------------------------------------
(* Properties.                                                             *)

\* The variables have their types; no timer is linked twice.
TypeOK == /\ tick \in 0 .. TickMax
          /\ timer_list \in Seq(Timer)
          /\ \A i, j \in 1 .. Len(timer_list) : timer_list[i] = timer_list[j] => i = j
          /\ timer \in [Timer -> [init_tick : Nat, timeout_tick : 0 .. TickMax,
                                  activated : BOOLEAN, periodic : BOOLEAN]]
          /\ isr \in {"off", "check", "assert"}
          /\ pc \in [Driver -> ClientPC]
          /\ seen_flag \in [Driver -> BOOLEAN]
          /\ left \in [Timer -> Int] /\ calls \in [Timer -> Nat]
          /\ stopped \in [Timer -> BOOLEAN] /\ blurred \in [Timer -> BOOLEAN]

\* The list is in the order of the true deadlines, also while the tick count
\* wraps around and with timers that were already due when they were inserted,
\* and none is missed: between two ticks a listed timer is overdue by what its
\* own start was delayed at most.
InDeadlineOrder ==
    /\ \A i, j \in 1 .. Len(timer_list) : i < j => left[timer_list[i]] <= left[timer_list[j]]
    /\ isr = "off" => \A t \in Timer : Listed(t) => left[t] > -MaxDelay

\* A callback is called when its time has passed, never before, and late only
\* by the ticks its own start was delayed.
FiresOnTime ==
    [][\A c \in {"none", "start", "stop"} :
          CheckFire(c) => left[Head(timer_list)] \in -MaxDelay .. 0]_vars

\* Timers of one deadline are called in the order they were inserted in: a
\* timer that is inserted goes behind every listed one of its deadline.
EarlyInsertedFirst ==
    [][\A i, j \in 1 .. Len(timer_list') :
          LET t == timer_list'[i]
              new == ~ Listed(t) \/ left'[t] > left[t]
          IN  new /\ i < j => left'[timer_list'[j]] # left'[t]]_vars

\* Callbacks are called on time and, for one deadline, in the order of insertion.
CallsInOrder == FiresOnTime /\ EarlyInsertedFirst

\* A timer that was stopped with RT_EOK, or detached, is not called again
\* before it is started, also when its own callback or a client interrupted by
\* its expiry stopped it.
StoppedIsOut == \A t \in Timer : stopped[t] => ~ Listed(t)

\* A timer is activated exactly when it is listed, which rt_timer_stop and
\* RT_TIMER_CTRL_GET_STATE rely on, but for two cases: a one-shot timer that
\* its callback started again is listed and not activated, and one that
\* expires while the flags are rewritten by rt_timer_control is activated and
\* not listed.
ActivatedIsListed ==
    \A t \in Timer : (timer[t].activated # Listed(t) =>
        blurred[t] \/ (t \in Driver /\ pc[t] \in {"stop_removed", "detached"}))

\* The loop of rt_timer_check, which runs with interrupts disabled and takes
\* timers that are started again back in, ends: it calls a timer once.
OncePerTick == \A t \in Timer : calls[t] <= 1

\* The timer list is in order whenever the tick interrupts a client: sorted by the
\* true deadlines, without missed timers, with flags that tell who is listed, and
\* no timer is called twice in one tick.
TimerInv == TypeOK /\ InDeadlineOrder /\ ActivatedIsListed /\ OncePerTick

\* A thread that sleeps is woken: its timer is called or stopped.
SleeperWakes == \A t \in Sleeper : Listed(t) ~> (~ Listed(t) \/ isr = "assert")
=============================================================================
