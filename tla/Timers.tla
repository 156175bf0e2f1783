------------------------------- MODULE Timers -------------------------------
(***************************************************************************)
(* lwIP's cyclic timers as the tcpip thread runs them on this port: the    *)
(* sorted list of timeouts, the wait for a message that ends when the      *)
(* first of them is due, and the clock of sys_arch.c, kernel ticks divided *)
(* by five.  Milliseconds and ticks are unsigned integers of one width.    *)
(***************************************************************************)
EXTENDS Integers, Sequences, SequencesExt

CONSTANTS
    W,          \* 2^32, one more than the largest u32_t
    D,          \* OS_TICKS_PER_MILLI
    Interval,   \* interval_ms of the cyclic timers that are started
    Pool,       \* MEMP_NUM_SYS_TIMEOUT
    Lag,        \* ticks the tcpip thread may be kept from waiting again
    MaxUp       \* bound: ticks since the start

ASSUME TimersAssumption ==
    /\ W \in Nat \ {0} /\ D \in Nat \ {0}
    /\ Interval \in Seq(Nat \ {0})
    /\ \A t \in 1..Len(Interval) : 4 * Interval[t] < W
    /\ Pool \in Nat /\ Len(Interval) <= Pool
    /\ Lag \in Nat /\ MaxUp \in Nat

Timer == 1..Len(Interval)
Forever == -1    \* osWaitForever

VARIABLES
    tick,       \* osKernelGetTickCount()
    list,       \* next_timeout and its successors: due time and timer
    pc,         \* where sys_timeouts_init, then the tcpip thread is
    cur,        \* timer being started, or whose handler runs
    now,        \* now of sys_check_timeouts
    due,        \* current_timeout_due_time
    sleep,      \* sleeptime
    wait,       \* ticks left of the wait for a message, or Forever
    late,       \* ticks since the thread last waited
    up,         \* ticks since the start, not wrapping
    called      \* up at the last call of each handler, or at its start

vars == <<tick, list, pc, cur, now, due, sleep, wait, late, up, called>>

-----------------------------------------------------------------------------
sys_now == tick \div D

TIME_LESS_THAN(t, compare_to) == (t - compare_to) % W > (W \div 2) - 1

DLY_MS(ms) == (ms * D) % W

(* sys_timeout_abs: in front of the first timeout that is due later, if    *)
(* the pool has an entry left.                                             *)
Place(time) ==
    IF \E i \in 1..Len(list) : TIME_LESS_THAN(time, list[i].time)
    THEN CHOOSE i \in 1..Len(list) :
           /\ TIME_LESS_THAN(time, list[i].time)
           /\ \A j \in 1..(i - 1) : ~TIME_LESS_THAN(time, list[j].time)
    ELSE Len(list) + 1

(* Mutant of sys_timeout_abs: the list is not kept sorted. *)
AppendTimeout(t, time) ==
    list' = IF Len(list) < Pool
            THEN Append(list, [time |-> time, timer |-> t]) ELSE list

(* Mutant of sys_timeout_abs: the last entry of the pool is not used. *)
ShortPool(t, time) ==
    list' = IF Len(list) < Pool - 1
            THEN InsertAt(list, Place(time), [time |-> time, timer |-> t])
            ELSE list

sys_timeout_abs(t, time) ==
    list' = IF Len(list) < Pool
            THEN InsertAt(list, Place(time), [time |-> time, timer |-> t])
            ELSE list

-----------------------------------------------------------------------------
Init ==
    /\ tick = 0 /\ up = 0 /\ late = 0
    /\ list = <<>>
    /\ pc = "init" /\ cur = 1
    /\ now = 0 /\ due = 0 /\ sleep = 0 /\ wait = 0
    /\ called = [t \in Timer |-> 0]

(* sys_timeouts_init calls sys_timeout for one timer after the other. *)
StartTimer ==
    /\ pc = "init" /\ cur \in Timer
    /\ sys_timeout_abs(cur, (sys_now + Interval[cur]) % W)
    /\ called' = [called EXCEPT ![cur] = up]
    /\ cur' = cur + 1
    /\ UNCHANGED <<tick, pc, now, due, sleep, wait, late, up>>

(* tcpip_init starts the tcpip thread. *)
StartThread ==
    /\ pc = "init" /\ cur \notin Timer
    /\ pc' = "again"
    /\ UNCHANGED <<tick, list, cur, now, due, sleep, wait, late, up, called>>

(* Mutant of SleepTime: what is due already is not handled first. *)
SleepTimeUnchecked ==
    /\ pc = "again"
    /\ pc' = "fetch"
    /\ sleep' = IF list = <<>> THEN Forever ELSE list[1].time - sys_now
    /\ UNCHANGED <<tick, list, cur, now, due, wait, late, up, called>>

(* tcpip_timeouts_mbox_fetch, sys_timeouts_sleeptime. *)
SleepTime ==
    /\ pc = "again"
    /\ IF list = <<>>
       THEN pc' = "fetch" /\ sleep' = Forever
       ELSE IF TIME_LESS_THAN(list[1].time, sys_now) \/ list[1].time = sys_now
            THEN pc' = "check" /\ UNCHANGED sleep
            ELSE pc' = "fetch" /\ sleep' = (list[1].time - sys_now) % W
    /\ UNCHANGED <<tick, list, cur, now, due, wait, late, up, called>>

(* sys_arch_mbox_fetch: the largest number of ticks is osWaitForever. *)
MboxFetch ==
    /\ pc = "fetch"
    /\ pc' = "wait"
    /\ wait' = IF sleep = Forever \/ DLY_MS(sleep) = W - 1
               THEN Forever ELSE DLY_MS(sleep)
    /\ late' = 0
    /\ UNCHANGED <<tick, list, cur, now, due, sleep, up, called>>

(* A message is fetched and handled. *)
Message ==
    /\ pc = "wait" /\ wait # 0
    /\ pc' = "again"
    /\ wait' = 0
    /\ UNCHANGED <<tick, list, cur, now, due, sleep, late, up, called>>

TimedOut ==
    /\ pc = "wait" /\ wait = 0
    /\ pc' = "check"
    /\ UNCHANGED <<tick, list, cur, now, due, sleep, wait, late, up, called>>

(* sys_check_timeouts reads the time once and then calls what is due. *)
CheckTimeouts ==
    /\ pc = "check"
    /\ now' = sys_now
    /\ pc' = "next"
    /\ UNCHANGED <<tick, list, cur, due, sleep, wait, late, up, called>>

NothingDue ==
    /\ pc = "next"
    /\ list = <<>> \/ TIME_LESS_THAN(now, list[1].time)
    /\ pc' = "again"
    /\ UNCHANGED <<tick, list, cur, now, due, sleep, wait, late, up, called>>

CallHandler ==
    /\ pc = "next"
    /\ list # <<>> /\ ~TIME_LESS_THAN(now, list[1].time)
    /\ cur' = list[1].timer
    /\ due' = list[1].time
    /\ list' = Tail(list)
    /\ called' = [called EXCEPT ![list[1].timer] = up]
    /\ pc' = "handler"
    /\ UNCHANGED <<tick, now, sleep, wait, late, up>>

(* Mutant of lwip_cyclic_timer: the interval is counted from now. *)
CyclicFromNow ==
    /\ pc = "handler"
    /\ sys_timeout_abs(cur, (sys_now + Interval[cur]) % W)
    /\ pc' = "next"
    /\ UNCHANGED <<tick, cur, now, due, sleep, wait, late, up, called>>

(* lwip_cyclic_timer after cyclic->handler(): from the time it was due, or *)
(* from now if that has passed already.                                    *)
lwip_cyclic_timer ==
    /\ pc = "handler"
    /\ LET next == (due + Interval[cur]) % W IN
       sys_timeout_abs(cur, IF TIME_LESS_THAN(next, sys_now)
                            THEN (sys_now + Interval[cur]) % W ELSE next)
    /\ pc' = "next"
    /\ UNCHANGED <<tick, cur, now, due, sleep, wait, late, up, called>>

Thread ==
    \/ StartTimer \/ StartThread \/ SleepTime \/ MboxFetch \/ TimedOut
    \/ CheckTimeouts \/ NothingDue \/ CallHandler \/ lwip_cyclic_timer

(* The kernel tick (external). *)
Ready == pc # "wait" \/ wait = 0

Tick ==
    /\ up < MaxUp
    /\ Ready => late < Lag
    /\ tick' = (tick + 1) % W
    /\ up' = up + 1
    /\ late' = IF Ready THEN late + 1 ELSE late
    /\ wait' = IF pc = "wait" /\ wait > 0 THEN wait - 1 ELSE wait
    /\ UNCHANGED <<list, pc, cur, now, due, sleep, called>>

Next == Thread \/ Message \/ Tick

Spec == Init /\ [][Next]_vars

-----------------------------------------------------------------------------
(* Every variable stays in its range. *)
TypeOK ==
    /\ tick \in 0..(W - 1)
    /\ list \in Seq([time : 0..(W - 1), timer : Timer])
    /\ pc \in {"init", "again", "fetch", "wait", "check", "next", "handler"}
    /\ cur \in 1..(Len(Interval) + 1)
    /\ now \in 0..(W - 1) /\ due \in 0..(W - 1)
    /\ sleep \in -1..(W - 1) /\ wait \in -1..(W - 1)
    /\ late \in Nat /\ up \in Nat
    /\ called \in [Timer -> Nat]

(* No cyclic timer drops out of the list (timeouts.c:179-221): the pool    *)
(* has an entry for each handler that starts its timer again.              *)
Listed(t) == \E i \in 1..Len(list) : list[i].timer = t
AllTimersListed ==
    \A t \in Timer :
        \/ Listed(t)
        \/ pc = "init" /\ t >= cur
        \/ pc = "handler" /\ t = cur

(* No timer is called late (timeouts.c:351-396): the time since its last   *)
(* call exceeds its interval by at most three times the thread's lag and   *)
(* the rounding of sys_now (sys_arch.c:36-39).                             *)
OnTime ==
    \A t \in Timer : up - called[t] <= Interval[t] * D + 3 * Lag + D - 1

(* The times a timer is due stay on the grid of its interval, however late *)
(* the handler was called, as long as the lag is below the interval        *)
(* (timeouts.c:231-261).                                                   *)
NoDrift ==
    \A i \in 1..Len(list) :
        LET t == list[i].timer IN
        Interval[t] * D > 2 * Lag + D =>
            \E s \in 0..(Lag \div D) : (list[i].time - s) % Interval[t] = 0
=============================================================================
