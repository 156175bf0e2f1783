--------------------------- MODULE Timers_proofs ---------------------------
(***************************************************************************)
(* Proofs about Timers for any timers and intervals, any width of the      *)
(* counters, and any pool with an entry per timer; and, below the wrap of  *)
(* the ticks (BeforeWrap), about the times at which the timers are called. *)
(***************************************************************************)
EXTENDS Timers, TLAPS, WellFoundedInduction, SequenceTheorems

(* A set of naturals that is not empty has a least element. *)
LEMMA Least ==
    ASSUME NEW T \in SUBSET Nat, T # {}
    PROVE  \E n \in T : \A m \in T : n <= m
<1> DEFINE Lt == OpToRel(<, Nat)
<1>1. IsWellFoundedOn(Lt, Nat)
  BY NatLessThanWellFounded
<1>2. \A x, y \in Nat : y < x => <<y, x>> \in Lt
  BY Zenon DEF OpToRel
<1> HIDE DEF Lt
<1>3. PICK x \in T : \A y \in T : ~(<<y, x>> \in Lt)
  BY <1>1, WFMin
<1>4. \A y \in T : ~(y < x)
  BY <1>2, <1>3
<1>5. QED BY <1>4

(* What inserting an element into a sequence does. *)
LEMMA Inserted ==
    ASSUME NEW S, NEW s \in Seq(S), NEW e \in S, NEW i \in 1..(Len(s) + 1)
    PROVE  /\ InsertAt(s, i, e) \in Seq(S)
           /\ Len(InsertAt(s, i, e)) = Len(s) + 1
           /\ InsertAt(s, i, e)[i] = e
           /\ \A j \in 1..(i - 1) : InsertAt(s, i, e)[j] = s[j]
           /\ \A j \in i..Len(s) : InsertAt(s, i, e)[j + 1] = s[j]
<1> DEFINE a == SubSeq(s, 1, i - 1)
           b == SubSeq(s, i, Len(s))
           c == a \o <<e>>
<1>0. Len(s) \in Nat /\ i \in Nat /\ i >= 1 /\ i <= Len(s) + 1
  OBVIOUS
<1>1. /\ a \in Seq(S) /\ Len(a) = i - 1
      /\ \A j \in 1..(i - 1) : a[j] = s[j]
  OBVIOUS
<1>2. /\ b \in Seq(S) /\ Len(b) = Len(s) - i + 1
      /\ \A j \in 1..(Len(s) - i + 1) : b[j] = s[i + j - 1]
  OBVIOUS
<1> HIDE DEF a, b
<1>3. /\ c \in Seq(S) /\ Len(c) = i /\ c[i] = e
      /\ \A j \in 1..(i - 1) : c[j] = s[j]
  BY <1>1
<1> HIDE DEF c
<1>4. /\ c \o b \in Seq(S) /\ Len(c \o b) = Len(s) + 1
      /\ (c \o b)[i] = e
      /\ \A j \in 1..(i - 1) : (c \o b)[j] = s[j]
      /\ \A j \in i..Len(s) : (c \o b)[j + 1] = s[j]
  <2>0. c \o b \in Seq(S) /\ Len(c \o b) = Len(c) + Len(b)
    BY <1>2, <1>3, ConcatProperties
  <2>1. c \o b \in Seq(S) /\ Len(c \o b) = Len(s) + 1
    BY <1>0, <1>2, <1>3, <2>0
  <2>2. \A j \in 1..i : (c \o b)[j] = c[j]
    BY <1>2, <1>3
  <2>3. \A k \in (i + 1)..(Len(s) + 1) : (c \o b)[k] = b[k - i]
    BY <1>2, <1>3
  <2>4. ASSUME NEW j \in i..Len(s) PROVE (c \o b)[j + 1] = s[j]
    <3>1. j + 1 \in (i + 1)..(Len(s) + 1) /\ j + 1 - i \in 1..(Len(s) - i + 1)
      BY <1>0
    <3>2. (c \o b)[j + 1] = b[j + 1 - i]
      <4> DEFINE k == j + 1
      <4>1. k \in (i + 1)..(Len(s) + 1)
        BY <3>1
      <4> HIDE DEF k
      <4>2. (c \o b)[k] = b[k - i]
        BY <2>3, <4>1, Zenon
      <4>3. QED BY <4>2 DEF k
    <3>3. b[j + 1 - i] = s[i + (j + 1 - i) - 1]
      BY <1>2, <3>1
    <3>4. i + (j + 1 - i) - 1 = j
      BY <1>0
    <3>5. QED BY <3>2, <3>3, <3>4
  <2>5. QED BY <1>3, <2>1, <2>2, <2>4
<1>5. QED BY <1>4 DEF InsertAt, a, b, c

Ms == 0..(W - 1)
Entry == [time : Ms, timer : Timer]

(* The arithmetic stays in the width of the counters. *)
LEMMA Widths ==
    /\ \A x \in Int : x % W \in Ms
    /\ TypeOK => sys_now \in Ms
    /\ Len(Interval) \in Nat /\ \A t \in Timer : Interval[t] \in Nat
<1>1. \A x \in Int : x % W \in Ms
  BY TimersAssumption DEF Ms
<1>2. ASSUME TypeOK PROVE sys_now \in Ms
  <2>1. tick \in Nat /\ tick <= W - 1 /\ D \in Nat /\ D > 0 /\ W \in Nat
    BY <1>2, TimersAssumption DEF TypeOK
  <2> DEFINE q == tick \div D
  <2>2. q \in Nat /\ D * q <= tick
    BY <2>1
  <2> HIDE DEF q
  <2>3. q <= D * q
    BY <2>1, <2>2
  <2>4. q <= W - 1
    BY <2>1, <2>2, <2>3
  <2>5. QED BY <2>1, <2>2, <2>4 DEF q, sys_now, Ms
<1>3. Len(Interval) \in Nat
  BY TimersAssumption
<1>4. \A t \in Timer : Interval[t] \in Nat
  BY <1>3, TimersAssumption DEF Timer
<1>5. QED BY <1>1, <1>2, <1>3, <1>4

(* sys_timeout_abs finds a place in the list. *)
LEMMA PlaceInList ==
    ASSUME list \in Seq(Entry), NEW time
    PROVE  Place(time) \in 1..(Len(list) + 1)
<1> DEFINE T == {i \in 1..Len(list) : TIME_LESS_THAN(time, list[i].time)}
<1>1. CASE T = {}
  <2>1. ~\E i \in 1..Len(list) : TIME_LESS_THAN(time, list[i].time)
    BY <1>1
  <2>2. QED BY <2>1 DEF Place
<1>2. CASE T # {}
  <2>0. T \in SUBSET Nat
    OBVIOUS
  <2>1. PICK n \in T : \A m \in T : n <= m
    <3> HIDE DEF T
    <3>1. QED BY <1>2, <2>0, Least
  <2>2. /\ n \in 1..Len(list) /\ TIME_LESS_THAN(time, list[n].time)
        /\ \A j \in 1..(n - 1) : ~TIME_LESS_THAN(time, list[j].time)
    BY <2>1
  <2>3. Place(time) \in 1..Len(list)
    BY <2>2, Zenon DEF Place
  <2>4. QED BY <2>3
<1>3. QED BY <1>1, <1>2

(* A timeout for which the pool has an entry is in the list afterwards,    *)
(* with all that were there.                                               *)
LEMMA TimeoutAdded ==
    ASSUME list \in Seq(Entry), NEW t \in Timer, NEW time \in Ms,
           sys_timeout_abs(t, time)
    PROVE  /\ list' \in Seq(Entry)
           /\ Len(list) < Pool =>
                /\ Len(list') = Len(list) + 1
                /\ Listed(t)'
                /\ \A u \in Timer : Listed(u) => Listed(u)'
<1>1. CASE Len(list) < Pool
  <2> DEFINE e == [time |-> time, timer |-> t]
             i == Place(time)
  <2>1. i \in 1..(Len(list) + 1) /\ e \in Entry
    BY PlaceInList DEF Entry
  <2>2. list' = InsertAt(list, i, e)
    BY <1>1 DEF sys_timeout_abs
  <2> HIDE DEF e, i
  <2>3. /\ list' \in Seq(Entry) /\ Len(list') = Len(list) + 1 /\ list'[i] = e
        /\ \A j \in 1..(i - 1) : list'[j] = list[j]
        /\ \A j \in i..Len(list) : list'[j + 1] = list[j]
    BY <2>1, <2>2, Inserted
  <2>4. Listed(t)'
    BY <2>1, <2>3 DEF Listed, e
  <2>5. ASSUME NEW u \in Timer, Listed(u) PROVE Listed(u)'
    <3>1. PICK j \in 1..Len(list) : list[j].timer = u
      BY <2>5 DEF Listed
    <3>2. CASE j < i
      BY <2>1, <2>3, <3>1, <3>2 DEF Listed
    <3>3. CASE j >= i
      <4>1. j + 1 \in 1..Len(list') /\ list'[j + 1].timer = u
        BY <2>1, <2>3, <3>1, <3>3
      <4>2. QED BY <4>1 DEF Listed
    <3>4. QED BY <2>1, <3>2, <3>3
  <2>6. QED BY <2>3, <2>4, <2>5
<1>2. CASE ~(Len(list) < Pool)
  BY <1>2 DEF sys_timeout_abs
<1>3. QED BY <1>1, <1>2

-----------------------------------------------------------------------------
(* Entries of the pool that are taken, by where the thread is: one more    *)
(* with each timer started, one less while a handler runs.                 *)
Taken ==
    IF pc = "init" THEN cur - 1
    ELSE IF pc = "handler" THEN Len(Interval) - 1 ELSE Len(Interval)

IInv ==
    /\ TypeOK
    /\ Len(list) = Taken
    /\ pc = "handler" => cur \in Timer
    /\ AllTimersListed

(* Nothing is listed before the first timer is started. *)
LEMMA InitIInv == Init => IInv
<1> SUFFICES ASSUME Init PROVE IInv
  OBVIOUS
<1>1. Len(Interval) \in Nat /\ W \in Nat /\ W > 0
  BY TimersAssumption
<1>2. TypeOK
  BY <1>1 DEF Init, TypeOK
<1>3. Len(list) = Taken /\ (pc = "handler" => cur \in Timer)
  BY DEF Init, Taken
<1>4. AllTimersListed
  BY <1>1 DEF Init, AllTimersListed, Timer
<1>5. QED BY <1>2, <1>3, <1>4 DEF IInv

(* Starting a timer takes an entry for it. *)
LEMMA StartTimerStep == ASSUME IInv, StartTimer PROVE IInv'
<1>1. /\ list \in Seq(Entry) /\ cur \in Timer /\ Len(list) = cur - 1
      /\ pc = "init" /\ pc' = "init" /\ cur' = cur + 1
  BY DEF IInv, StartTimer, Taken, TypeOK, Entry, Ms
<1>2. Len(Interval) \in Nat /\ Interval[cur] \in Nat /\ sys_now \in Ms
  BY <1>1, Widths DEF IInv
<1> DEFINE time == (sys_now + Interval[cur]) % W
<1>3. time \in Ms
  <2>1. sys_now + Interval[cur] \in Int
    BY <1>2 DEF Ms
  <2>2. QED BY <2>1, Widths
<1>4. sys_timeout_abs(cur, time)
  BY DEF StartTimer
<1> HIDE DEF time
<1>5. Len(list) < Pool
  BY <1>1, <1>2, TimersAssumption DEF Timer
<1>a. PICK c \in Timer, m \in Ms : c = cur /\ m = time
  BY <1>1, <1>3
<1>b. sys_timeout_abs(c, m)
  BY <1>4, <1>a DEF sys_timeout_abs, Place
<1>6. /\ list' \in Seq(Entry) /\ Len(list') = Len(list) + 1 /\ Listed(c)'
      /\ \A u \in Timer : Listed(u) => Listed(u)'
  BY <1>1, <1>5, <1>b, TimeoutAdded
<1>7. TypeOK'
  <2>1. cur' \in 1..(Len(Interval) + 1)
    BY <1>1, <1>2 DEF Timer
  <2>2. called' \in [Timer -> Nat]
    BY <1>1 DEF IInv, TypeOK, StartTimer
  <2>3. QED BY <1>6, <2>1, <2>2 DEF IInv, TypeOK, StartTimer, Entry, Ms
<1>8. Len(list') = Taken' /\ pc' # "handler"
  BY <1>1, <1>2, <1>6 DEF Taken, Timer
<1>9. AllTimersListed'
  <2> SUFFICES ASSUME NEW t \in Timer
               PROVE  Listed(t)' \/ (pc' = "init" /\ t >= cur')
    BY DEF AllTimersListed, Timer
  <2>1. Listed(t) \/ t >= cur
    BY <1>1 DEF IInv, AllTimersListed
  <2>2. CASE t = cur
    BY <1>6, <1>a, <2>2
  <2>3. CASE t # cur
    <3>1. Listed(t) \/ t >= cur + 1
      BY <1>1, <1>2, <2>1, <2>3 DEF Timer
    <3>2. QED BY <1>1, <1>6, <3>1
  <2>4. QED BY <2>2, <2>3
<1>10. QED BY <1>7, <1>8, <1>9 DEF IInv

(* A handler that has run starts its timer again. *)
LEMMA CyclicStep == ASSUME IInv, lwip_cyclic_timer PROVE IInv'
<1>1. /\ list \in Seq(Entry) /\ cur \in Timer /\ Len(list) = Len(Interval) - 1
      /\ pc = "handler" /\ pc' = "next" /\ cur' = cur /\ due \in Ms
  BY DEF IInv, lwip_cyclic_timer, Taken, TypeOK, Entry, Ms
<1>2. Len(Interval) \in Nat /\ Interval[cur] \in Nat /\ sys_now \in Ms
  BY <1>1, Widths DEF IInv
<1> DEFINE next == (due + Interval[cur]) % W
           time == IF TIME_LESS_THAN(next, sys_now)
                   THEN (sys_now + Interval[cur]) % W ELSE next
<1>3. time \in Ms
  <2>1. due + Interval[cur] \in Int /\ sys_now + Interval[cur] \in Int
    BY <1>1, <1>2 DEF Ms
  <2>2. next \in Ms /\ (sys_now + Interval[cur]) % W \in Ms
    BY <2>1, Widths
  <2>3. QED BY <2>2
<1>4. sys_timeout_abs(cur, time)
  BY DEF lwip_cyclic_timer
<1> HIDE DEF time, next
<1>5. Len(list) < Pool
  BY <1>1, <1>2, TimersAssumption
<1>a. PICK c \in Timer, m \in Ms : c = cur /\ m = time
  BY <1>1, <1>3
<1>b. sys_timeout_abs(c, m)
  BY <1>4, <1>a DEF sys_timeout_abs, Place
<1>6. /\ list' \in Seq(Entry) /\ Len(list') = Len(list) + 1 /\ Listed(c)'
      /\ \A u \in Timer : Listed(u) => Listed(u)'
  BY <1>1, <1>5, <1>b, TimeoutAdded
<1>7. TypeOK'
  BY <1>6 DEF IInv, TypeOK, lwip_cyclic_timer, Entry, Ms
<1>8. Len(list') = Taken' /\ pc' # "handler"
  BY <1>1, <1>2, <1>6 DEF Taken
<1>9. AllTimersListed'
  <2> SUFFICES ASSUME NEW t \in Timer PROVE Listed(t)'
    BY DEF AllTimersListed, Timer
  <2>1. Listed(t) \/ t = cur
    BY <1>1 DEF IInv, AllTimersListed
  <2>2. QED BY <1>6, <1>a, <2>1
<1>10. QED BY <1>7, <1>8, <1>9 DEF IInv

(* A handler that is called gives up its entry, and no other one does. *)
LEMMA CallHandlerStep == ASSUME IInv, CallHandler PROVE IInv'
<1>1. /\ list \in Seq(Entry) /\ list # <<>> /\ Len(list) = Len(Interval)
      /\ pc = "next" /\ pc' = "handler" /\ list' = Tail(list)
      /\ cur' = list[1].timer /\ due' = list[1].time
  BY DEF IInv, CallHandler, Taken, TypeOK, Entry, Ms
<1>2. /\ Tail(list) \in Seq(Entry) /\ Len(Tail(list)) = Len(list) - 1
      /\ \A j \in 1..(Len(list) - 1) : Tail(list)[j] = list[j + 1]
  BY <1>1
<1>3. 1 \in 1..Len(list) /\ Len(list) \in Nat
  BY <1>1
<1>4. list[1] \in Entry
  BY <1>1, <1>3
<1>5. cur' \in Timer /\ due' \in Ms
  BY <1>1, <1>4 DEF Entry
<1>6. TypeOK'
  <2>1. cur' \in 1..(Len(Interval) + 1)
    BY <1>1, <1>3, <1>5 DEF Timer
  <2>2. called' \in [Timer -> Nat]
    BY <1>1, <1>5 DEF IInv, TypeOK, CallHandler
  <2>3. QED BY <1>1, <1>2, <1>5, <2>1, <2>2
            DEF IInv, TypeOK, CallHandler, Entry, Ms
<1>7. Len(list') = Taken'
  BY <1>1, <1>2 DEF Taken
<1>8. AllTimersListed'
  <2> SUFFICES ASSUME NEW t \in Timer, t # cur' PROVE Listed(t)'
    BY <1>1 DEF AllTimersListed, Timer
  <2>1. PICK i \in 1..Len(list) : list[i].timer = t
    BY <1>1 DEF IInv, AllTimersListed, Listed
  <2>2. i # 1
    BY <1>1, <2>1
  <2>3. i - 1 \in 1..(Len(list) - 1) /\ (i - 1) + 1 = i
    BY <1>3, <2>2
  <2>4. list'[i - 1].timer = t
    BY <1>1, <1>2, <2>1, <2>3
  <2>5. QED BY <1>1, <1>2, <2>3, <2>4 DEF Listed
<1>9. QED BY <1>5, <1>6, <1>7, <1>8 DEF IInv

(* Steps that leave the list alone. *)
LEMMA ListKept ==
    ASSUME IInv, TypeOK', UNCHANGED <<list, cur>>,
           pc = "init" \/ pc' # "init", pc # "init" \/ pc' = "init" \/ cur \notin Timer,
           pc # "handler" \/ pc' = "handler", pc = "handler" \/ pc' # "handler"
    PROVE  IInv'
<1>1. Len(Interval) \in Nat /\ cur \in 1..(Len(Interval) + 1)
  BY TimersAssumption DEF IInv, TypeOK
<1>2. pc = "init" /\ pc' # "init" => cur - 1 = Len(Interval)
  BY <1>1 DEF Timer
<1>3. Len(list') = Taken'
  BY <1>2 DEF IInv, Taken
<1>4. AllTimersListed'
  <2> SUFFICES ASSUME NEW t \in Timer
               PROVE  \/ Listed(t)'
                      \/ pc' = "init" /\ t >= cur'
                      \/ pc' = "handler" /\ t = cur'
    BY DEF AllTimersListed, Timer
  <2>1. Listed(t) = Listed(t)'
    BY DEF Listed
  <2>2. cur \notin Timer => ~(t >= cur)
    BY <1>1 DEF Timer
  <2>3. QED BY <2>1, <2>2 DEF IInv, AllTimersListed
<1>5. QED BY <1>3, <1>4 DEF IInv

(* The wait is as long as the counters can count. *)
LEMMA WaitStep ==
    ASSUME IInv,
           \/ StartThread \/ SleepTime \/ MboxFetch \/ Message \/ TimedOut
           \/ CheckTimeouts \/ NothingDue \/ Tick
    PROVE  IInv'
<1>1. W \in Nat /\ W > 0 /\ D \in Nat /\ sys_now \in Ms
  BY Widths, TimersAssumption DEF IInv
<1>2. CASE StartThread
  <2>1. TypeOK'
    BY <1>2 DEF IInv, TypeOK, StartThread
  <2>2. QED BY <1>2, <2>1, ListKept DEF StartThread
<1>3. CASE SleepTime
  <2>1. sleep' \in -1..(W - 1)
    <3>1. CASE list = <<>>
      BY <1>1, <1>3, <3>1 DEF SleepTime, Forever
    <3>2. CASE list # <<>>
      <4>1. list \in Seq(Entry)
        BY DEF IInv, TypeOK, Entry, Ms
      <4>2. list[1] \in Entry
        BY <3>2, <4>1
      <4>3. list[1].time - sys_now \in Int
        BY <1>1, <4>2 DEF Entry, Ms
      <4>4. (list[1].time - sys_now) % W \in Ms
        BY <4>3, Widths
      <4>5. sleep' = sleep \/ sleep' = (list[1].time - sys_now) % W
        BY <1>3, <3>2, Zenon DEF SleepTime
      <4>6. QED BY <1>1, <4>4, <4>5 DEF IInv, TypeOK, Ms
    <3>3. QED BY <3>1, <3>2
  <2>2. pc = "again" /\ pc' \in {"fetch", "check"}
    BY <1>3, Zenon DEF SleepTime
  <2>3. UNCHANGED <<tick, list, cur, now, due, wait, late, up, called>>
    BY <1>3 DEF SleepTime
  <2>4. TypeOK'
    BY <2>1, <2>2, <2>3 DEF IInv, TypeOK
  <2>5. QED BY <2>2, <2>3, <2>4, ListKept
<1>4. CASE MboxFetch
  <2>1. wait' \in -1..(W - 1)
    <3>1. CASE sleep = Forever
      BY <1>1, <1>4, <3>1 DEF MboxFetch, Forever
    <3>2. CASE sleep # Forever
      <4>1. sleep \in Nat
        BY <1>1, <3>2 DEF IInv, TypeOK, Forever
      <4>2. sleep * D \in Int
        BY <1>1, <4>1
      <4>3. DLY_MS(sleep) \in Ms
        BY <4>2, Widths DEF DLY_MS
      <4>4. wait' = Forever \/ wait' = DLY_MS(sleep)
        BY <1>4, Zenon DEF MboxFetch
      <4>5. QED BY <1>1, <4>3, <4>4 DEF Ms, Forever
    <3>3. QED BY <3>1, <3>2
  <2>2. pc = "fetch" /\ pc' = "wait"
    BY <1>4 DEF MboxFetch
  <2>3. late' = 0 /\ UNCHANGED <<tick, list, cur, now, due, sleep, up, called>>
    BY <1>4 DEF MboxFetch
  <2>4. TypeOK'
    BY <2>1, <2>2, <2>3 DEF IInv, TypeOK
  <2>5. QED BY <2>2, <2>3, <2>4, ListKept
<1>5. CASE Message
  <2>1. TypeOK'
    BY <1>1, <1>5 DEF IInv, TypeOK, Message
  <2>2. QED BY <1>5, <2>1, ListKept DEF Message
<1>6. CASE TimedOut
  <2>1. TypeOK'
    BY <1>6 DEF IInv, TypeOK, TimedOut
  <2>2. QED BY <1>6, <2>1, ListKept DEF TimedOut
<1>7. CASE CheckTimeouts
  <2>1. TypeOK'
    BY <1>1, <1>7 DEF IInv, TypeOK, CheckTimeouts, Ms
  <2>2. QED BY <1>7, <2>1, ListKept DEF CheckTimeouts
<1>8. CASE NothingDue
  <2>1. TypeOK'
    BY <1>8 DEF IInv, TypeOK, NothingDue
  <2>2. QED BY <1>8, <2>1, ListKept DEF NothingDue
<1>9. CASE Tick
  <2>1. tick' \in 0..(W - 1)
    <3>1. tick + 1 \in Int
      BY DEF IInv, TypeOK
    <3>2. QED BY <1>9, <3>1, Widths DEF Tick, Ms
  <2>2. up' \in Nat /\ late' \in Nat
    BY <1>9 DEF IInv, TypeOK, Tick
  <2>3. wait' \in -1..(W - 1)
    BY <1>1, <1>9 DEF IInv, TypeOK, Tick
  <2>4. UNCHANGED <<list, pc, cur, now, due, sleep, called>>
    BY <1>9 DEF Tick
  <2>5. TypeOK'
    BY <2>1, <2>2, <2>3, <2>4 DEF IInv, TypeOK
  <2>6. QED BY <2>4, <2>5, ListKept
<1>10. QED BY <1>2, <1>3, <1>4, <1>5, <1>6, <1>7, <1>8, <1>9

(* Every step keeps the invariant. *)
LEMMA NextIInv == ASSUME IInv, [Next]_vars PROVE IInv'
<1>1. CASE Next
  BY <1>1, StartTimerStep, CyclicStep, CallHandlerStep, WaitStep, Zenon
     DEF Next, Thread
<1>2. CASE UNCHANGED vars
  <2>1. UNCHANGED <<list, pc, cur>>
    BY <1>2 DEF vars
  <2>2. TypeOK'
    BY <1>2 DEF IInv, TypeOK, vars
  <2>3. QED BY <2>1, <2>2, ListKept
<1>3. QED BY <1>1, <1>2

(* The pool holds one entry per timer that is started and not in its       *)
(* handler, whatever the lag, the messages and the wrap of the clock.      *)
THEOREM TimersInvariant == Spec => []IInv
<1>1. QED BY InitIInv, NextIInv, PTL DEF Spec

(* The counters, the wait and the times in the list stay within the width  *)
(* of u32_t (sys_arch.c:36-39, timeouts.c:425-443).                        *)
THEOREM TimersTypeCorrect == Spec => []TypeOK
<1>1. IInv => TypeOK
  BY DEF IInv
<1>2. QED BY <1>1, TimersInvariant, PTL

(* No cyclic timer drops out of the list (timeouts.c:179-261), even after  *)
(* the clock has wrapped: it may be called late, but it is never lost.     *)
THEOREM NoTimerLost == Spec => []AllTimersListed
<1>1. IInv => AllTimersListed
  BY DEF IInv
<1>2. QED BY <1>1, TimersInvariant, PTL

-----------------------------------------------------------------------------
(* The theorems about time hold until the tick counter wraps, which is     *)
(* what MaxUp bounds: nothing is due further ahead than half of what the   *)
(* counters count, and no interval is as long as osWaitForever.            *)
BeforeWrap ==
    /\ MaxUp < W
    /\ \A t \in Timer : /\ MaxUp \div D + Interval[t] < W \div 2
                        /\ Interval[t] * D < W - 1

Half == 0..((W \div 2) - 1)

(* The thread gets to a timeout due at x in time: at the latest it wakes   *)
(* its lag and the rounding of sys_now after it.                           *)
Reached(x) == up <= x * D + Lag + D - 1 + late

(* Multiples of timer t's interval from its start on. *)
OnGrid(x, t) ==
    Interval[t] * D > 2 * Lag + D => \E s \in 0..(Lag \div D) : (x - s) % Interval[t] = 0

(* A listed timeout of timer t, due at x: not further ahead than the       *)
(* interval, and no further from the last call than that and a lag.        *)
Timely(x, t) ==
    /\ x <= sys_now + Interval[t]
    /\ Reached(x)
    /\ x * D <= called[t] + Interval[t] * D + Lag
    /\ OnGrid(x, t)

Clock ==
    /\ tick = up /\ up <= MaxUp /\ late <= Lag
    /\ \A t \in Timer : called[t] <= up
    /\ pc = "init" => up = late /\ \A t \in Timer : t >= cur => called[t] = 0
    /\ pc \in {"next", "handler"} => now <= sys_now

Sorted == \A i, j \in 1..Len(list) : i < j => list[i].time <= list[j].time

AllTimely == \A i \in 1..Len(list) : Timely(list[i].time, list[i].timer)

(* The wait ends by the time the first timeout is due, give or take the    *)
(* time that passed between the two readings of the clock.                 *)
Waiting ==
    /\ pc = "fetch" /\ list # <<>> => sleep \in Nat /\ sleep * D < W - 1
    /\ pc = "wait" /\ list # <<>> => wait \in Nat
    /\ \A i \in 1..Len(list) :
          /\ pc = "fetch" => up + sleep * D <= list[i].time * D + D - 1 + late
          /\ pc = "wait" => up + wait <= list[i].time * D + Lag + D - 1 + late

(* The handler that runs. *)
Handling ==
    pc = "handler" =>
        /\ due <= sys_now /\ Reached(due) /\ OnGrid(due, cur)
        /\ up <= called[cur] + late

TimeInv == Clock /\ Sorted /\ AllTimely /\ Waiting /\ Handling

(* There is one remainder only. *)
LEMMA Remainder ==
    ASSUME NEW N \in Nat \ {0}, NEW a \in Int, NEW q \in Int, NEW r \in 0..(N - 1),
           a = N * q + r
    PROVE  a % N = r
<1> DEFINE p == a \div N
           s == a % N
<1>1. p \in Int /\ s \in Int /\ 0 <= s /\ s < N /\ a = N * p + s
  OBVIOUS
<1> HIDE DEF p, s
<1>2. PICK x \in Int : x = p - q
  BY <1>1
<1>3. p = x + q
  BY <1>1, <1>2
<1>4. N * x = r - s
  <2>1. N * (x + q) = N * x + N * q
    BY <1>2
  <2>2. N * x \in Int /\ N * q \in Int
    BY <1>2
  <2>3. QED BY <1>1, <1>3, <2>1, <2>2
<1>5. ~(x >= 1)
  BY <1>1, <1>4
<1>6. ~(x <= -1)
  BY <1>1, <1>4
<1>7. x = 0
  BY <1>5, <1>6
<1>8. s = r
  BY <1>1, <1>4, <1>7
<1>9. QED BY <1>8 DEF s

(* Numbers that fit the counters are what they are. *)
LEMMA Fits ==
    ASSUME NEW a \in 0..(W - 1)
    PROVE  a % W = a
<1>1. PICK N \in Nat \ {0} : N = W
  BY TimersAssumption
<1>2. a = N * 0 + a /\ a \in Int /\ a \in 0..(N - 1) /\ 0 \in Int
  BY <1>1
<1>3. QED BY <1>1, <1>2, Remainder

(* The half of what the counters count. *)
LEMMA HalfBound ==
    /\ W \in Nat \ {0} /\ (W \div 2) \in Nat /\ (W \div 2) + (W \div 2) <= W
    /\ \A a \in Half : a \in Nat /\ a \in 0..(W - 1) /\ a < (W \div 2)
<1>1. PICK N \in Nat \ {0} : N = W
  BY TimersAssumption
<1>2. N \div 2 \in Nat /\ (N \div 2) + (N \div 2) <= N
  BY <1>1
<1>3. PICK k \in Nat : k = W \div 2 /\ k + k <= N
  BY <1>1, <1>2
<1>4. \A a \in Half : a \in Nat /\ a \in 0..(N - 1) /\ a < k
  BY <1>1, <1>3 DEF Half
<1>5. QED BY <1>1, <1>2, <1>3, <1>4

(* The comparison of two times that wraps is the comparison of the times. *)
LEMMA Compared ==
    ASSUME NEW a \in Half, NEW b \in Half
    PROVE  TIME_LESS_THAN(a, b) <=> a < b
<1>1. PICK k \in Nat, N \in Nat \ {0} : k = W \div 2 /\ N = W /\ k + k <= N
  BY HalfBound
<1>2. a \in Nat /\ b \in Nat /\ a < k /\ b < k
  BY <1>1, HalfBound
<1>3. CASE a < b
  <2>1. PICK x \in Int, r \in 0..(N - 1) : x = a - b /\ r = x + N
    BY <1>1, <1>2, <1>3
  <2>2. x = N * (-1) + r /\ -1 \in Int
    BY <1>1, <2>1
  <2>3. x % N = r
    BY <2>2, Remainder
  <2>4. r > k - 1
    BY <1>1, <1>2, <2>1
  <2>5. QED BY <1>1, <1>3, <2>1, <2>3, <2>4 DEF TIME_LESS_THAN
<1>4. CASE ~(a < b)
  <2>1. PICK x \in 0..(W - 1) : x = a - b /\ ~(x > k - 1)
    BY <1>1, <1>2, <1>4
  <2>2. x % W = x
    BY Fits
  <2>3. QED BY <1>1, <1>4, <2>1, <2>2 DEF TIME_LESS_THAN
<1>5. QED BY <1>3, <1>4

(* Milliseconds in ticks. *)
LEMMA Scaled ==
    ASSUME NEW a \in Nat, NEW b \in Nat
    PROVE  /\ a * D \in Nat /\ b * D \in Nat
           /\ (a + b) * D = a * D + b * D
           /\ a <= b => a * D <= b * D
           /\ a < b => a * D + D <= b * D
<1>1. PICK d \in Nat : d = D /\ d > 0
  BY TimersAssumption
<1>2. a * d \in Nat /\ b * d \in Nat /\ (a + b) * d = a * d + b * d
  BY <1>1
<1>3. ASSUME a <= b PROVE a * d <= b * d
  <2>1. PICK x \in Nat : b = a + x
    <3>1. b - a \in Nat /\ b = a + (b - a)
      BY <1>3
    <3>2. QED BY <3>1
  <2>2. b * d = a * d + x * d /\ x * d \in Nat
    BY <1>1, <2>1
  <2>3. QED BY <1>2, <2>2
<1>4. ASSUME a < b PROVE a * d + d <= b * d
  <2>1. PICK x \in Nat : b = a + 1 + x
    <3>1. b - a - 1 \in Nat /\ b = a + 1 + (b - a - 1)
      BY <1>4
    <3>2. QED BY <3>1
  <2>2. b * d = a * d + d + x * d /\ x * d \in Nat
    BY <1>1, <2>1
  <2>3. QED BY <1>1, <1>2, <2>2
<1>5. QED BY <1>1, <1>2, <1>3, <1>4

(* Ticks in milliseconds. *)
LEMMA Divided ==
    ASSUME NEW a \in Nat
    PROVE  /\ a \div D \in Nat /\ (a \div D) * D \in Nat
           /\ (a \div D) * D <= a /\ a <= (a \div D) * D + D - 1
<1>1. PICK d \in Nat \ {0} : d = D
  BY TimersAssumption
<1> DEFINE n == a \div d
           r == a % d
<1>2. n \in Int /\ r \in Int /\ 0 <= r /\ r < d /\ a = d * n + r
  BY <1>1
<1>3. n \in Nat
  BY <1>1
<1> HIDE DEF n, r
<1>4. PICK y \in Nat : y = n * d /\ y = d * n
  BY <1>1, <1>3
<1>5. y <= a /\ a <= y + d - 1
  BY <1>1, <1>2, <1>4
<1>6. QED BY <1>1, <1>3, <1>4, <1>5 DEF n

(* More ticks are no fewer milliseconds. *)
LEMMA DividedGrows ==
    ASSUME NEW a \in Nat, NEW b \in Nat, a <= b
    PROVE  a \div D <= b \div D
<1>1. PICK x \in Nat, y \in Nat : x = a \div D /\ y = b \div D
  BY Divided
<1>2. x * D <= a /\ b <= y * D + D - 1 /\ x * D \in Nat /\ y * D \in Nat
  BY <1>1, Divided
<1>3. y < x => y * D + D <= x * D
  BY <1>1, Scaled
<1>4. D \in Nat
  BY TimersAssumption
<1>5. QED BY <1>1, <1>2, <1>3, <1>4

(* The clock before the tick counter wraps. *)
LEMMA NowTicks ==
    ASSUME IInv, Clock
    PROVE  /\ sys_now \in Nat /\ sys_now * D \in Nat
           /\ sys_now * D <= up /\ up <= sys_now * D + D - 1
<1>1. tick = up /\ up \in Nat
  BY DEF IInv, TypeOK, Clock
<1>2. QED BY <1>1, Divided DEF sys_now

(* What is due at most an interval ahead can be compared. *)
LEMMA AheadIsHalf ==
    ASSUME BeforeWrap, IInv, Clock, NEW t \in Timer, NEW x \in Nat,
           x <= sys_now + Interval[t]
    PROVE  x \in Half /\ Interval[t] \in Nat /\ Interval[t] > 0
<1>1. tick = up /\ up \in Nat /\ up <= MaxUp /\ MaxUp \in Nat
  BY TimersAssumption DEF IInv, TypeOK, Clock
<1>2. PICK n \in Nat, m \in Nat : n = sys_now /\ m = MaxUp \div D /\ n <= m
  BY <1>1, Divided, DividedGrows DEF sys_now
<1>3. Interval[t] \in Nat /\ Interval[t] > 0
  BY TimersAssumption DEF Timer
<1>4. m + Interval[t] < W \div 2
  BY <1>2 DEF BeforeWrap
<1>5. PICK k \in Nat : k = W \div 2
  BY HalfBound
<1>6. x <= k - 1
  BY <1>2, <1>3, <1>4, <1>5
<1>7. QED BY <1>3, <1>5, <1>6 DEF Half

(* The entries of the list. *)
LEMMA Entries ==
    ASSUME IInv, NEW i \in 1..Len(list)
    PROVE  /\ list \in Seq(Entry) /\ list[i].time \in Nat /\ list[i].timer \in Timer
           /\ list[i] \in Entry
<1>1. list \in Seq(Entry)
  BY DEF IInv, TypeOK, Entry, Ms
<1>2. list[i] \in Entry
  BY <1>1
<1>3. QED BY <1>1, <1>2, TimersAssumption DEF Entry, Ms

(* The place of a new timeout in the list: what is before it is due no     *)
(* later, what is behind it is due later.                                  *)
LEMMA PlaceSorted ==
    ASSUME BeforeWrap, IInv, Clock, Sorted, AllTimely, NEW x \in Half
    PROVE  /\ Place(x) \in 1..(Len(list) + 1)
           /\ \A j \in 1..(Place(x) - 1) : list[j].time <= x
           /\ \A j \in Place(x)..Len(list) : x < list[j].time
<1>1. list \in Seq(Entry) /\ Len(list) \in Nat
  BY DEF IInv, TypeOK, Entry, Ms
<1>2. ASSUME NEW i \in 1..Len(list)
      PROVE  list[i].time \in Nat /\ (TIME_LESS_THAN(x, list[i].time) <=> x < list[i].time)
  <2>1. list[i].time \in Nat /\ list[i].timer \in Timer
    BY Entries
  <2>2. list[i].time \in Half
    BY <2>1, AheadIsHalf DEF AllTimely, Timely
  <2>3. QED BY <2>1, <2>2, Compared
<1>3. x \in Nat
  BY HalfBound
<1>4. PICK p : p = Place(x)
  OBVIOUS
<1>5. p \in 1..(Len(list) + 1)
  BY <1>1, <1>4, PlaceInList
<1>6. CASE \E i \in 1..Len(list) : TIME_LESS_THAN(x, list[i].time)
  <2> DEFINE T == {i \in 1..Len(list) : TIME_LESS_THAN(x, list[i].time)}
  <2>1. T \in SUBSET Nat /\ T # {}
    BY <1>1, <1>6
  <2>2. PICK n \in T : \A m \in T : n <= m
    <3> HIDE DEF T
    <3>1. QED BY <2>1, Least
  <2>3. /\ n \in 1..Len(list) /\ TIME_LESS_THAN(x, list[n].time)
        /\ \A j \in 1..(n - 1) : ~TIME_LESS_THAN(x, list[j].time)
    BY <2>2
  <2>4. /\ p \in 1..Len(list) /\ TIME_LESS_THAN(x, list[p].time)
        /\ \A j \in 1..(p - 1) : ~TIME_LESS_THAN(x, list[j].time)
    BY <1>4, <1>6, <2>3, Zenon DEF Place
  <2>5. ASSUME NEW j \in 1..(p - 1) PROVE list[j].time <= x
    <3>1. j \in 1..Len(list)
      BY <1>1, <2>4
    <3>2. ~(x < list[j].time)
      BY <1>2, <2>4, <3>1
    <3>3. QED BY <1>2, <1>3, <3>1, <3>2
  <2>6. ASSUME NEW j \in p..Len(list) PROVE x < list[j].time
    <3>1. j \in 1..Len(list) /\ (j = p \/ p < j)
      BY <1>1, <2>4
    <3>2. list[p].time <= list[j].time
      BY <1>2, <2>4, <3>1 DEF Sorted
    <3>3. x < list[p].time
      BY <1>2, <2>4
    <3>4. QED BY <1>2, <1>3, <2>4, <3>1, <3>2, <3>3
  <2>7. QED BY <1>4, <1>5, <2>5, <2>6
<1>7. CASE ~\E i \in 1..Len(list) : TIME_LESS_THAN(x, list[i].time)
  <2>1. p = Len(list) + 1
    BY <1>4, <1>7 DEF Place
  <2>2. ASSUME NEW j \in 1..(p - 1) PROVE list[j].time <= x
    <3>1. j \in 1..Len(list)
      BY <1>1, <2>1
    <3>2. ~(x < list[j].time)
      BY <1>2, <1>7, <3>1
    <3>3. QED BY <1>2, <1>3, <3>1, <3>2
  <2>3. \A j \in p..Len(list) : FALSE
    BY <1>1, <2>1
  <2>4. QED BY <1>4, <1>5, <2>2, <2>3
<1>8. QED BY <1>6, <1>7

(* sys_timeout_abs keeps the list sorted. *)
LEMMA InsertedSorted ==
    ASSUME BeforeWrap, IInv, Clock, Sorted, AllTimely, NEW t \in Timer, NEW x \in Half,
           Len(list) < Pool, sys_timeout_abs(t, x)
    PROVE  /\ Sorted'
           /\ \A i \in 1..Len(list') :
                 \/ list'[i] = [time |-> x, timer |-> t]
                 \/ \E j \in 1..Len(list) : list'[i] = list[j]
<1>1. list \in Seq(Entry) /\ Len(list) \in Nat /\ x \in Ms /\ x \in Nat
  BY HalfBound DEF IInv, TypeOK, Entry, Ms
<1>2. PICK p, e : p = Place(x) /\ e = [time |-> x, timer |-> t]
  OBVIOUS
<1>3. /\ p \in 1..(Len(list) + 1) /\ e \in Entry
      /\ \A j \in 1..(p - 1) : list[j].time <= x
      /\ \A j \in p..Len(list) : x < list[j].time
  BY <1>1, <1>2, PlaceSorted DEF Entry
<1>4. list' = InsertAt(list, p, e)
  BY <1>2 DEF sys_timeout_abs
<1>5. PICK L \in Seq(Entry) :
        /\ L = list' /\ Len(L) = Len(list) + 1 /\ L[p] = e
        /\ \A j \in 1..(p - 1) : L[j] = list[j]
        /\ \A j \in p..Len(list) : L[j + 1] = list[j]
  <2>1. /\ list' \in Seq(Entry) /\ Len(list') = Len(list) + 1 /\ list'[p] = e
        /\ \A j \in 1..(p - 1) : list'[j] = list[j]
        /\ \A j \in p..Len(list) : list'[j + 1] = list[j]
    <3>1. PICK K \in Seq(Entry) : K = list
      BY <1>1
    <3>2. e \in Entry /\ p \in 1..(Len(K) + 1)
      BY <1>3, <3>1
    <3>3. /\ InsertAt(K, p, e) \in Seq(Entry)
          /\ Len(InsertAt(K, p, e)) = Len(K) + 1
          /\ InsertAt(K, p, e)[p] = e
          /\ \A j \in 1..(p - 1) : InsertAt(K, p, e)[j] = K[j]
          /\ \A j \in p..Len(K) : InsertAt(K, p, e)[j + 1] = K[j]
      BY <3>2, Inserted
    <3>4. list' = InsertAt(K, p, e)
      BY <1>4, <3>1
    <3>5. QED BY <3>1, <3>3, <3>4
  <2>2. QED BY <2>1
<1>6. PICK n \in Nat : n = Len(list)
  BY <1>1
<1>7. ASSUME NEW i \in 1..(n + 1), i < p
      PROVE  i \in 1..n /\ i \in 1..(p - 1) /\ L[i] = list[i] /\ list[i].time <= x
  <2>1. i \in 1..n /\ i \in 1..(p - 1)
    BY <1>3, <1>6, <1>7
  <2>2. QED BY <1>3, <1>5, <2>1
<1>8. ASSUME NEW i \in 1..(n + 1), i > p
      PROVE  i - 1 \in 1..n /\ L[i] = list[i - 1] /\ x < list[i - 1].time
  <2>1. i - 1 \in p..n /\ i - 1 \in 1..n /\ i - 1 + 1 = i
    BY <1>3, <1>6, <1>8
  <2>2. QED BY <1>3, <1>5, <1>6, <2>1
<1>9. e.time = x
  BY <1>2
<1>10. \A i \in 1..n : list[i].time \in Nat
  BY <1>6, Entries
<1>11. ASSUME NEW i \in 1..(n + 1), NEW j \in 1..(n + 1), i < j
       PROVE  L[i].time <= L[j].time
  <2>1. i \in Nat /\ j \in Nat /\ p \in Nat
    BY <1>3, <1>6
  <2>2. CASE i < p /\ j < p
    BY <1>6, <1>7, <1>11, <2>2 DEF Sorted
  <2>3. CASE i < p /\ j = p
    BY <1>5, <1>7, <1>9, <2>3
  <2>4. CASE i < p /\ j > p
    <3>1. L[i] = list[i] /\ list[i].time <= x /\ i \in 1..n
      BY <1>7, <2>4
    <3>2. L[j] = list[j - 1] /\ x < list[j - 1].time /\ j - 1 \in 1..n
      BY <1>8, <2>4
    <3>3. QED BY <1>1, <1>10, <3>1, <3>2
  <2>5. CASE i = p /\ j > p
    <3>1. L[j] = list[j - 1] /\ x < list[j - 1].time /\ j - 1 \in 1..n
      BY <1>8, <2>5
    <3>2. QED BY <1>1, <1>5, <1>9, <1>10, <2>5, <3>1
  <2>6. CASE i > p
    <3>1. L[i] = list[i - 1] /\ i - 1 \in 1..n
      BY <1>8, <2>6
    <3>2. L[j] = list[j - 1] /\ j - 1 \in 1..n /\ i - 1 < j - 1
      BY <1>8, <1>11, <2>1, <2>6
    <3>3. QED BY <1>6, <3>1, <3>2 DEF Sorted
  <2>7. QED BY <1>11, <2>1, <2>2, <2>3, <2>4, <2>5, <2>6
<1>12. ASSUME NEW i \in 1..(n + 1)
       PROVE  L[i] = e \/ \E j \in 1..n : L[i] = list[j]
  <2>1. i < p \/ i = p \/ i > p
    BY <1>3, <1>6
  <2>2. QED BY <1>5, <1>7, <1>8, <2>1
<1>13. Len(L) = n + 1
  BY <1>5, <1>6
<1>14. Sorted'
  BY <1>5, <1>11, <1>13 DEF Sorted
<1>15. QED BY <1>2, <1>5, <1>6, <1>12, <1>13, <1>14

(* What is timely stays so while the clock goes on and handlers run. *)
LEMMA TimelyKept ==
    ASSUME IInv, Clock, IInv', Clock', NEW x \in Nat, NEW t \in Timer, Timely(x, t),
           sys_now <= sys_now', Reached(x)', called[t] <= called'[t]
    PROVE  Timely(x, t)'
<1>1. sys_now \in Nat /\ sys_now' \in Nat
  <2>1. sys_now \in Nat
    BY NowTicks
  <2>2. tick' \in Nat
    BY TimersAssumption DEF IInv, TypeOK
  <2>3. tick' \div D \in Nat
    BY <2>2, Divided
  <2>4. QED BY <2>1, <2>3 DEF sys_now
<1>2. Interval[t] \in Nat /\ Lag \in Nat /\ D \in Nat
  BY Widths, TimersAssumption
<1>3. called[t] \in Nat /\ called'[t] \in Nat
  BY DEF IInv, TypeOK
<1>4. PICK y \in Nat, z \in Nat : y = x * D /\ z = Interval[t] * D
  BY <1>2
<1>5. x <= sys_now' + Interval[t]
  BY <1>1, <1>2 DEF Timely
<1>6. y <= called'[t] + z + Lag
  BY <1>2, <1>3, <1>4 DEF Timely
<1>7. OnGrid(x, t)'
  BY DEF Timely, OnGrid
<1>8. QED BY <1>4, <1>5, <1>6, <1>7 DEF Timely

(* Steps of the thread that take no time keep the clock. *)
LEMMA Timeless ==
    ASSUME UNCHANGED <<tick, up, late>>
    PROVE  /\ sys_now' = sys_now
           /\ \A x : Reached(x) => Reached(x)'
BY DEF sys_now, Reached

(* A timeout is added to the list and the others stay timely. *)
LEMMA InsertedTimely ==
    ASSUME BeforeWrap, IInv, IInv', Clock, Clock', Sorted, AllTimely,
           NEW c \in Timer, NEW x \in Half, Len(list) < Pool, sys_timeout_abs(c, x),
           UNCHANGED <<tick, up, late>>, Timely(x, c)',
           \A u \in Timer : called[u] <= called'[u]
    PROVE  Sorted' /\ AllTimely'
<1>1. /\ Sorted'
      /\ \A i \in 1..Len(list') :
            \/ list'[i] = [time |-> x, timer |-> c]
            \/ \E j \in 1..Len(list) : list'[i] = list[j]
  BY InsertedSorted
<1>2. sys_now' = sys_now /\ \A z : Reached(z) => Reached(z)'
  BY Timeless
<1>3. ASSUME NEW i \in 1..Len(list') PROVE Timely(list[i].time, list[i].timer)'
  <2>1. CASE list'[i] = [time |-> x, timer |-> c]
    <3>1. list'[i].time = x /\ list'[i].timer = c
      BY <2>1
    <3>2. QED BY <3>1
  <2>2. CASE \E j \in 1..Len(list) : list'[i] = list[j]
    <3>1. PICK j \in 1..Len(list) : list'[i] = list[j]
      BY <2>2
    <3>2. PICK y \in Nat, t \in Timer : y = list[j].time /\ t = list[j].timer
      BY Entries
    <3>3. Timely(y, t)
      BY <3>2 DEF AllTimely
    <3>4. Reached(y)'
      BY <1>2, <3>3 DEF Timely
    <3>5. sys_now <= sys_now'
      BY <1>2, NowTicks
    <3>6. Timely(y, t)'
      BY <3>3, <3>4, <3>5, TimelyKept, Zenon
    <3>7. QED BY <3>1, <3>2, <3>6
  <2>3. QED BY <1>1, <2>1, <2>2
<1>4. QED BY <1>1, <1>3 DEF AllTimely

(* A timer is started. *)
LEMMA StartTimerTime ==
    ASSUME BeforeWrap, IInv, IInv', TimeInv, StartTimer
    PROVE  TimeInv'
<1>1. Clock /\ Sorted /\ AllTimely
  BY DEF TimeInv
<1>2. /\ pc = "init" /\ pc' = "init" /\ cur' = cur + 1
      /\ called' = [called EXCEPT ![cur] = up]
      /\ sys_timeout_abs(cur, (sys_now + Interval[cur]) % W)
      /\ UNCHANGED <<tick, up, late>>
  BY DEF StartTimer
<1>3. PICK c \in Timer : c = cur /\ c \in Nat /\ Len(list) = c - 1
  BY DEF StartTimer, Timer, IInv, Taken
<1>4. /\ called \in [Timer -> Nat] /\ up \in Nat /\ late \in Nat /\ Lag \in Nat /\ D \in Nat
      /\ Len(Interval) \in Nat
  <2>1. called \in [Timer -> Nat] /\ up \in Nat /\ late \in Nat
    BY DEF IInv, TypeOK
  <2>2. Lag \in Nat /\ D \in Nat
    BY TimersAssumption
  <2>3. QED BY <2>1, <2>2, Widths
<1>5. PICK n \in Nat : n = sys_now /\ n * D \in Nat /\ n * D <= up /\ up <= n * D + D - 1
  BY <1>1, NowTicks
<1>6. PICK I \in Nat : I = Interval[c]
  BY Widths
<1>7. PICK x \in Half : x = n + I /\ x \in Nat
  BY <1>1, <1>5, <1>6, AheadIsHalf
<1>8. x % W = x
  BY HalfBound, Fits
<1>9. sys_timeout_abs(c, x)
  <2>1. PICK y : y = (sys_now + Interval[cur]) % W
    OBVIOUS
  <2>2. y = x
    BY <1>3, <1>5, <1>6, <1>7, <1>8, <2>1
  <2>3. sys_timeout_abs(cur, y)
    BY <1>2, <2>1 DEF sys_timeout_abs, Place
  <2>4. sys_timeout_abs(c, y)
    BY <1>3, <2>3 DEF sys_timeout_abs
  <2>5. QED BY <2>2, <2>4
<1>10. Len(list) < Pool
  BY <1>3, <1>4, TimersAssumption DEF Timer
<1>11. \A u \in Timer : called[u] <= called'[u]
  <2>1. ASSUME NEW u \in Timer PROVE called[u] <= called'[u]
    <3>1. called'[u] = IF u = c THEN up ELSE called[u]
      BY <1>2, <1>3, <1>4
    <3>2. QED BY <1>1, <1>4, <3>1 DEF Clock
  <2>2. QED BY <2>1
<1>12. up = late /\ called[c] <= up
  BY <1>1, <1>2 DEF Clock
<1>13. Clock'
  <2>1. ASSUME NEW t \in Timer PROVE called'[t] <= up' /\ (t >= cur' => called'[t] = 0)
    <3>1. called'[t] = IF t = c THEN up ELSE called[t]
      BY <1>2, <1>3, <1>4
    <3>2. called[t] <= up /\ (t >= c => called[t] = 0)
      BY <1>1, <1>2, <1>3 DEF Clock
    <3>3. t \in Nat
      BY DEF Timer
    <3>4. t >= cur' => t >= c /\ t # c
      BY <1>2, <1>3, <3>3
    <3>5. QED BY <1>2, <1>4, <3>1, <3>2, <3>4
  <2>2. QED BY <1>1, <1>2, <2>1 DEF Clock
<1>14. sys_now' = sys_now /\ \A z : Reached(z) => Reached(z)'
  BY <1>2, Timeless
<1>15. Timely(x, c)'
  <2>1. x <= sys_now' + Interval[c]
    BY <1>5, <1>6, <1>7, <1>14
  <2>2. PICK y \in Nat, i \in Nat, m \in Nat : y = x * D /\ i = I * D /\ m = n * D /\ y = m + i
    <3>1. n * D \in Nat /\ I * D \in Nat /\ (n + I) * D = n * D + I * D
      BY Scaled
    <3>2. x * D = n * D + I * D /\ x * D \in Nat
      BY <1>7, <3>1
    <3>3. QED BY <3>1, <3>2
  <2>3. up <= y + Lag + D - 1 + late
    BY <1>4, <1>5, <2>2
  <2>4. Reached(x)'
    BY <1>2, <2>2, <2>3 DEF Reached
  <2>5. called'[c] = up
    BY <1>2, <1>3, <1>4
  <2>6. y <= up + i + Lag
    BY <1>4, <1>5, <2>2
  <2>7. OnGrid(x, c)'
    <3>1. late <= Lag
      BY <1>1 DEF Clock
    <3>2. n <= Lag \div D
      <4>1. up \div D <= Lag \div D
        BY <1>4, <1>12, <3>1, DividedGrows
      <4>2. n = up \div D
        BY <1>1, <1>5 DEF sys_now, Clock
      <4>3. QED BY <4>1, <4>2
    <3>3. Lag \div D \in Nat
      BY <1>4, Divided
    <3>4. n \in 0..(Lag \div D)
      BY <3>2, <3>3
    <3>5. I % I = 0
      <4>1. I \in Nat \ {0} /\ I = I * 1 + 0 /\ 0 \in 0..(I - 1) /\ 1 \in Int /\ I \in Int
        BY <1>6, TimersAssumption DEF Timer
      <4>2. QED BY <4>1, Remainder
    <3>6. x - n = I
      BY <1>7
    <3>7. QED BY <1>6, <3>4, <3>5, <3>6 DEF OnGrid
  <2>8. QED BY <1>6, <2>1, <2>2, <2>4, <2>5, <2>6, <2>7 DEF Timely
<1>16. Sorted' /\ AllTimely'
  BY <1>1, <1>2, <1>9, <1>10, <1>11, <1>13, <1>15, InsertedTimely
<1>17. Waiting' /\ Handling'
  BY <1>2 DEF Waiting, Handling
<1>18. QED BY <1>13, <1>16, <1>17 DEF TimeInv

(* A step on the grid stays on it. *)
LEMMA NextOnGrid ==
    ASSUME NEW a \in Int, NEW I \in Nat \ {0}, a % I = 0
    PROVE  (a + I) % I = 0
<1> DEFINE q == a \div I
           s == a % I
<1>1. q \in Int /\ s = 0 /\ a = I * q + s
  OBVIOUS
<1> HIDE DEF q, s
<1>2. PICK b \in Int, p \in Int : b = a + I /\ p = q + 1
  BY <1>1
<1>3. b = I * p + 0 /\ 0 \in 0..(I - 1)
  BY <1>1, <1>2
<1>4. b % I = 0
  BY <1>3, Remainder
<1>5. QED BY <1>2, <1>4

(* A timer is started again by its handler: from the time it was due, or   *)
(* from now if the lag was longer than the interval.                       *)
LEMMA CyclicTime ==
    ASSUME BeforeWrap, IInv, IInv', TimeInv, lwip_cyclic_timer
    PROVE  TimeInv'
<1>1. Clock /\ Sorted /\ AllTimely /\ Handling
  BY DEF TimeInv
<1>2. /\ pc = "handler" /\ pc' = "next"
      /\ UNCHANGED <<tick, cur, now, due, sleep, wait, late, up, called>>
  BY DEF lwip_cyclic_timer
<1>3. PICK c \in Timer : c = cur /\ Len(list) = Len(Interval) - 1
  BY <1>2 DEF IInv, Taken
<1>4. /\ called \in [Timer -> Nat] /\ up \in Nat /\ late \in Nat /\ Lag \in Nat /\ D \in Nat
      /\ Len(Interval) \in Nat /\ due \in Nat
  <2>1. called \in [Timer -> Nat] /\ up \in Nat /\ late \in Nat /\ due \in Nat
    BY TimersAssumption DEF IInv, TypeOK
  <2>2. Lag \in Nat /\ D \in Nat
    BY TimersAssumption
  <2>3. QED BY <2>1, <2>2, Widths
<1>5. PICK n \in Nat : n = sys_now /\ n * D \in Nat /\ n * D <= up /\ up <= n * D + D - 1
  BY <1>1, NowTicks
<1>6. PICK I \in Nat \ {0} : I = Interval[c]
  BY TimersAssumption DEF Timer
<1>7. /\ due <= n /\ Reached(due) /\ OnGrid(due, c) /\ up <= called[c] + late
  BY <1>1, <1>2, <1>3, <1>5 DEF Handling
<1>8. PICK k \in Half, m \in Half : k = due + I /\ m = n + I /\ k \in Nat /\ m \in Nat
  <2>1. due + I \in Nat /\ due + I <= sys_now + Interval[c] /\ n + I \in Nat
        /\ n + I <= sys_now + Interval[c]
    BY <1>4, <1>5, <1>6, <1>7
  <2>2. due + I \in Half /\ n + I \in Half
    BY <1>1, <2>1, AheadIsHalf
  <2>3. QED BY <2>1, <2>2
<1>9. k % W = k /\ m % W = m
  BY HalfBound, Fits
<1>10. n \in Half
  BY <1>1, <1>5, <1>6, AheadIsHalf
<1>11. TIME_LESS_THAN(k, n) <=> k < n
  BY <1>8, <1>10, Compared
<1>12. PICK x \in Half : x = (IF k < n THEN m ELSE k) /\ x \in Nat
  BY <1>8
<1>13. sys_timeout_abs(c, x)
  <2>1. PICK y, z : y = (due + Interval[cur]) % W /\ z = (sys_now + Interval[cur]) % W
    OBVIOUS
  <2>2. y = k /\ z = m
    BY <1>3, <1>5, <1>6, <1>8, <1>9, <2>1
  <2>3. PICK v : v = (IF TIME_LESS_THAN(y, sys_now) THEN z ELSE y)
    OBVIOUS
  <2>4. v = x
    BY <1>5, <1>11, <1>12, <2>2, <2>3
  <2>5. sys_timeout_abs(cur, v)
    BY <2>1, <2>3 DEF sys_timeout_abs, Place, lwip_cyclic_timer
  <2>6. sys_timeout_abs(c, v)
    BY <1>3, <2>5 DEF sys_timeout_abs
  <2>7. QED BY <2>4, <2>6
<1>14. Len(list) < Pool
  BY <1>3, <1>4, TimersAssumption
<1>15. Clock'
  BY <1>1, <1>2 DEF Clock, sys_now
<1>16. sys_now' = sys_now /\ \A z : Reached(z) => Reached(z)'
  BY <1>2, Timeless
<1>17. late <= Lag /\ called[c] \in Nat /\ called' = called
  BY <1>1, <1>2, <1>4 DEF Clock
<1>18. x >= n /\ x <= n + I
  BY <1>4, <1>7, <1>8, <1>12
<1>19. PICK X \in Nat, N \in Nat, J \in Nat :
         /\ X = x * D /\ N = n * D /\ J = I * D /\ N <= X /\ X <= N + J
         /\ N <= up /\ up <= N + D - 1
  <2>1. n * D <= x * D /\ x * D <= (n + I) * D /\ (n + I) * D = n * D + I * D
        /\ n * D \in Nat /\ x * D \in Nat /\ I * D \in Nat
    <3>1. PICK j \in Nat : j = n + I /\ x <= j
      BY <1>18
    <3>2. n * D \in Nat /\ x * D \in Nat /\ I * D \in Nat /\ (n + I) * D = n * D + I * D
      BY <1>12, Scaled
    <3>3. n <= x => n * D <= x * D
      BY <1>12, Scaled
    <3>4. x <= j => x * D <= j * D
      BY <1>12, Scaled
    <3>5. QED BY <1>18, <3>1, <3>2, <3>3, <3>4
  <2>2. QED BY <1>5, <2>1
<1>20. Timely(x, c)'
  <2>1. x <= sys_now' + Interval[c]
    BY <1>5, <1>6, <1>16, <1>18
  <2>2. Reached(x)'
    <3>1. up <= X + Lag + D - 1 + late
      BY <1>4, <1>19
    <3>2. QED BY <1>2, <1>19, <3>1 DEF Reached
  <2>3. X <= called[c] + J + Lag
    BY <1>4, <1>7, <1>17, <1>19
  <2>4. x * D <= called'[c] + Interval[c] * D + Lag
    BY <1>6, <1>17, <1>19, <2>3
  <2>5. OnGrid(x, c)'
    <3>1. SUFFICES ASSUME J > 2 * Lag + D
                   PROVE  \E s \in 0..(Lag \div D) : (x - s) % I = 0
      BY <1>6, <1>19 DEF OnGrid
    <3>2. PICK s \in 0..(Lag \div D) : (due - s) % I = 0
      BY <1>6, <1>7, <1>19, <3>1 DEF OnGrid
    <3>3. ~(k < n)
      <4>1. PICK E \in Nat : E = due * D /\ k * D = E + J
        <5>1. due * D \in Nat /\ (due + I) * D = due * D + I * D
          BY <1>4, Scaled
        <5>2. QED BY <1>8, <1>19, <5>1
      <4>2. up <= E + Lag + D - 1 + late
        BY <1>7, <4>1 DEF Reached
      <4>3. N < E + J
        BY <1>4, <1>17, <1>19, <3>1, <4>2
      <4>4. k < n => k * D + D <= n * D
        BY <1>8, Scaled
      <4>5. QED BY <1>4, <1>19, <4>1, <4>3, <4>4
    <3>4. x = due + I
      BY <1>8, <1>12, <3>3
    <3>5. PICK a \in Int : a = due - s /\ x - s = a + I /\ s \in Int
      <4>1. Lag \div D \in Nat
        BY <1>4, Divided
      <4>2. QED BY <1>4, <3>4, <4>1
    <3>6. (a + I) % I = 0
      BY <3>2, <3>5, NextOnGrid
    <3>7. QED BY <3>5, <3>6
  <2>6. QED BY <2>1, <2>2, <2>4, <2>5 DEF Timely
<1>21. \A u \in Timer : called[u] <= called'[u]
  BY <1>4, <1>17
<1>22. Sorted' /\ AllTimely'
  BY <1>1, <1>2, <1>13, <1>14, <1>15, <1>20, <1>21, InsertedTimely
<1>23. Waiting' /\ Handling'
  BY <1>2 DEF Waiting, Handling
<1>24. QED BY <1>15, <1>22, <1>23 DEF TimeInv

(* The list does not change: it stays sorted and timely. *)
LEMMA SameListTimely ==
    ASSUME IInv, IInv', Clock, Clock', Sorted, AllTimely, UNCHANGED <<list, called>>,
           sys_now <= sys_now',
           \A i \in 1..Len(list) : Reached(list[i].time) => Reached(list[i].time)'
    PROVE  Sorted' /\ AllTimely'
<1>1. Sorted'
  BY DEF Sorted
<1>2. ASSUME NEW i \in 1..Len(list') PROVE Timely(list[i].time, list[i].timer)'
  <2>1. i \in 1..Len(list)
    OBVIOUS
  <2>2. PICK y \in Nat, t \in Timer : y = list[i].time /\ t = list[i].timer
    BY <2>1, Entries
  <2>3. y = list'[i].time /\ t = list'[i].timer
    BY <2>2
  <2>4. Timely(y, t)
    BY <2>1, <2>2 DEF AllTimely
  <2>5. Reached(y)'
    BY <2>1, <2>2, <2>3, <2>4 DEF Timely
  <2>6. called[t] <= called'[t]
    <3>1. called \in [Timer -> Nat]
      BY DEF IInv, TypeOK
    <3>2. called[t] \in Nat /\ called'[t] = called[t]
      BY <3>1
    <3>3. QED BY <3>2
  <2>7. Timely(y, t)'
    BY <2>4, <2>5, <2>6, TimelyKept, Zenon
  <2>8. QED BY <2>3, <2>7
<1>3. QED BY <1>1, <1>2 DEF AllTimely

(* A handler is called for a timeout that is due. *)
LEMMA CallHandlerTime ==
    ASSUME BeforeWrap, IInv, IInv', TimeInv, CallHandler
    PROVE  TimeInv'
<1>1. Clock /\ Sorted /\ AllTimely
  BY DEF TimeInv
<1>2. /\ pc = "next" /\ pc' = "handler" /\ list # <<>>
      /\ ~TIME_LESS_THAN(now, list[1].time)
      /\ cur' = list[1].timer /\ due' = list[1].time /\ list' = Tail(list)
      /\ called' = [called EXCEPT ![list[1].timer] = up]
      /\ UNCHANGED <<tick, now, sleep, wait, late, up>>
  BY DEF CallHandler
<1>3. list \in Seq(Entry) /\ Len(list) \in Nat
  BY DEF IInv, TypeOK, Entry, Ms
<1>4. /\ 1 \in 1..Len(list) /\ Len(list') = Len(list) - 1
      /\ \A i \in 1..Len(list') : list'[i] = list[i + 1] /\ i + 1 \in 1..Len(list)
  BY <1>2, <1>3
<1>5. PICK x \in Nat, c \in Timer : x = list[1].time /\ c = list[1].timer
  BY <1>4, Entries
<1>6. called \in [Timer -> Nat] /\ up \in Nat /\ late \in Nat /\ now \in Nat
  BY TimersAssumption DEF IInv, TypeOK
<1>7. ASSUME NEW t \in Timer
      PROVE  /\ called[t] <= called'[t] /\ called'[t] <= up
             /\ called'[t] = IF t = c THEN up ELSE called[t]
  <2>1. called'[t] = IF t = c THEN up ELSE called[t]
    BY <1>2, <1>5, <1>6
  <2>2. called[t] <= up
    BY <1>1 DEF Clock
  <2>3. QED BY <1>6, <2>1, <2>2
<1>8. sys_now' = sys_now /\ \A z : Reached(z) => Reached(z)'
  BY <1>2, Timeless
<1>9. Clock'
  <2>1. now' <= sys_now'
    BY <1>1, <1>2, <1>8 DEF Clock
  <2>2. QED BY <1>1, <1>2, <1>7, <2>1 DEF Clock
<1>10. Timely(x, c)
  BY <1>1, <1>4, <1>5 DEF AllTimely
<1>11. x <= sys_now
  <2>1. x \in Half
    BY <1>1, <1>10, AheadIsHalf DEF Timely
  <2>2. sys_now \in Nat /\ now <= sys_now /\ Interval[c] \in Nat
    BY <1>1, <1>2, NowTicks, Widths DEF Clock
  <2>3. now <= sys_now + Interval[c]
    BY <1>6, <2>2
  <2>4. now \in Half
    BY <1>1, <1>6, <2>3, AheadIsHalf
  <2>5. ~(now < x)
    BY <1>2, <1>5, <2>1, <2>4, Compared
  <2>6. QED BY <1>6, <2>2, <2>5
<1>12. Handling'
  <2>1. Reached(x)'
    BY <1>8, <1>10 DEF Timely
  <2>2. OnGrid(x, c)'
    BY <1>10 DEF Timely, OnGrid
  <2>3. up' <= called'[c] + late'
    BY <1>2, <1>6, <1>7
  <2>4. due' = x /\ cur' = c
    BY <1>2, <1>5
  <2>5. QED BY <1>8, <1>11, <2>1, <2>2, <2>3, <2>4 DEF Handling
<1>13. AllTimely'
  <2>1. ASSUME NEW i \in 1..Len(list') PROVE Timely(list[i].time, list[i].timer)'
    <3>1. PICK j \in 1..Len(list) : list'[i] = list[j]
      BY <1>4
    <3>2. PICK y \in Nat, t \in Timer : y = list[j].time /\ t = list[j].timer
      BY Entries
    <3>3. Timely(y, t)
      BY <1>1, <3>2 DEF AllTimely
    <3>4. Reached(y)'
      BY <1>8, <3>3 DEF Timely
    <3>5. sys_now <= sys_now' /\ called[t] <= called'[t]
      BY <1>1, <1>7, <1>8, NowTicks
    <3>6. Timely(y, t)'
      BY <1>1, <1>9, <3>3, <3>4, <3>5, TimelyKept, Zenon
    <3>7. QED BY <3>1, <3>2, <3>6
  <2>2. QED BY <2>1 DEF AllTimely
<1>14. Sorted'
  <2>1. ASSUME NEW i \in 1..Len(list'), NEW j \in 1..Len(list'), i < j
        PROVE  list'[i].time <= list'[j].time
    <3>1. /\ list'[i] = list[i + 1] /\ i + 1 \in 1..Len(list)
          /\ list'[j] = list[j + 1] /\ j + 1 \in 1..Len(list)
      BY <1>4
    <3>2. i + 1 < j + 1
      BY <1>3, <1>4, <2>1
    <3>3. QED BY <1>1, <3>1, <3>2 DEF Sorted
  <2>2. QED BY <2>1 DEF Sorted
<1>15. Waiting'
  BY <1>2 DEF Waiting
<1>16. QED BY <1>9, <1>12, <1>13, <1>14, <1>15 DEF TimeInv

(* The time to sleep is what is left until the first timeout is due. *)
LEMMA SleepTimeTime ==
    ASSUME BeforeWrap, IInv, IInv', TimeInv, SleepTime
    PROVE  TimeInv'
<1>1. Clock /\ Sorted /\ AllTimely
  BY DEF TimeInv
<1>2. /\ pc = "again" /\ pc' \in {"fetch", "check"}
      /\ UNCHANGED <<tick, list, cur, now, due, wait, late, up, called>>
  BY Zenon DEF SleepTime
<1>3. sys_now' = sys_now /\ \A z : Reached(z) => Reached(z)'
  BY <1>2, Timeless
<1>4. Clock'
  BY <1>1, <1>2, <1>3 DEF Clock
<1>5. PICK n \in Nat : n = sys_now /\ n * D \in Nat /\ n * D <= up /\ up <= n * D + D - 1
  BY <1>1, NowTicks
<1>6. Sorted' /\ AllTimely'
  <2>1. ASSUME NEW i \in 1..Len(list), Reached(list[i].time) PROVE Reached(list[i].time)'
    <3>1. PICK y : y = list[i].time /\ y = list'[i].time
      BY <1>2
    <3>2. Reached(y)'
      BY <1>3, <2>1, <3>1
    <3>3. QED BY <3>1, <3>2
  <2>2. sys_now <= sys_now'
    BY <1>3, <1>5
  <2>3. QED BY <1>1, <1>2, <1>4, <2>1, <2>2, SameListTimely
<1>7. Handling'
  BY <1>2 DEF Handling
<1>8. CASE list = <<>> \/ pc' = "check"
  <2>1. Waiting'
    BY <1>2, <1>8 DEF Waiting
  <2>2. QED BY <1>4, <1>6, <1>7, <2>1 DEF TimeInv
<1>9. CASE list # <<>> /\ pc' # "check"
  <2>1. /\ ~(TIME_LESS_THAN(list[1].time, sys_now) \/ list[1].time = sys_now)
        /\ pc' = "fetch" /\ sleep' = (list[1].time - sys_now) % W
    BY <1>9, Zenon DEF SleepTime
  <2>2. 1 \in 1..Len(list) /\ list \in Seq(Entry) /\ Len(list) \in Nat
    <3>1. list \in Seq(Entry)
      BY DEF IInv, TypeOK, Entry, Ms
    <3>2. QED BY <1>9, <3>1
  <2>3. PICK x \in Nat, c \in Timer : x = list[1].time /\ c = list[1].timer
    BY <2>2, Entries
  <2>4. PICK I \in Nat \ {0} : I = Interval[c]
    BY TimersAssumption DEF Timer
  <2>5. x <= n + I
    BY <1>1, <1>5, <2>2, <2>3, <2>4 DEF AllTimely, Timely
  <2>6. x \in Half /\ n \in Half
    BY <1>1, <1>5, <2>4, <2>5, AheadIsHalf
  <2>7. n < x
    <3>1. ~(x < n)
      BY <1>5, <2>1, <2>3, <2>6, Compared
    <3>2. x # n
      BY <1>5, <2>1, <2>3
    <3>3. QED BY <3>1, <3>2
  <2>8. PICK s \in 0..(W - 1) : s = x - n /\ s \in Nat /\ s <= I /\ x = n + s
    <3>1. x \in 0..(W - 1) /\ W \in Nat
      BY <2>6, HalfBound
    <3>2. QED BY <2>5, <2>7, <3>1
  <2>9. sleep' = s
    <3>1. s % W = s
      BY Fits
    <3>2. QED BY <1>5, <2>1, <2>3, <2>8, <3>1
  <2>10. PICK S \in Nat, N \in Nat, X \in Nat, J \in Nat :
           /\ S = s * D /\ N = n * D /\ X = x * D /\ X = N + S /\ J = I * D /\ S <= J
    <3>1. n * D \in Nat /\ s * D \in Nat /\ (n + s) * D = n * D + s * D
      BY <2>8, Scaled
    <3>2. I * D \in Nat /\ (s <= I => s * D <= I * D)
      BY <2>8, Scaled
    <3>3. QED BY <2>8, <3>1, <3>2
  <2>11. S < W - 1
    <3>1. J < W - 1
      BY <2>4, <2>10 DEF BeforeWrap
    <3>2. QED BY <2>10, <3>1, TimersAssumption
  <2>12. D \in Nat /\ late \in Nat /\ up \in Nat
    BY TimersAssumption DEF IInv, TypeOK
  <2>13. ASSUME NEW i \in 1..Len(list)
         PROVE  up + S <= list[i].time * D + D - 1 + late
    <3>1. PICK y \in Nat : y = list[i].time
      BY Entries
    <3>2. x <= y
      <4>1. i = 1 \/ 1 < i
        BY <2>2
      <4>2. QED BY <1>1, <2>2, <2>3, <3>1, <4>1 DEF Sorted
    <3>3. PICK Y \in Nat : Y = y * D /\ X <= Y
      <4>1. y * D \in Nat /\ (x <= y => x * D <= y * D)
        BY Scaled
      <4>2. QED BY <2>10, <3>2, <4>1
    <3>4. up + S <= Y + D - 1 + late
      BY <1>5, <2>10, <2>12, <3>3
    <3>5. QED BY <3>1, <3>3, <3>4
  <2>14. Waiting'
    BY <1>2, <2>1, <2>8, <2>9, <2>10, <2>11, <2>13 DEF Waiting
  <2>15. QED BY <1>4, <1>6, <1>7, <2>14 DEF TimeInv
<1>10. QED BY <1>8, <1>9

(* The wait for a message begins, with the lag counted anew. *)
LEMMA MboxFetchTime ==
    ASSUME BeforeWrap, IInv, IInv', TimeInv, MboxFetch
    PROVE  TimeInv'
<1>1. Clock /\ Sorted /\ AllTimely /\ Waiting
  BY DEF TimeInv
<1>2. /\ pc = "fetch" /\ pc' = "wait" /\ late' = 0
      /\ wait' = IF sleep = Forever \/ DLY_MS(sleep) = W - 1
                 THEN Forever ELSE DLY_MS(sleep)
      /\ UNCHANGED <<tick, list, cur, now, due, sleep, up, called>>
  BY DEF MboxFetch
<1>3. late \in Nat /\ up \in Nat /\ Lag \in Nat /\ D \in Nat /\ late <= Lag
  BY <1>1, TimersAssumption DEF IInv, TypeOK, Clock
<1>4. sys_now' = sys_now
  BY <1>2 DEF sys_now
<1>5. Clock'
  BY <1>1, <1>2, <1>3, <1>4 DEF Clock
<1>6. Handling'
  BY <1>2 DEF Handling
<1>7. CASE list = <<>>
  <2>1. list' = <<>> /\ \A i \in 1..Len(list') : FALSE
    BY <1>2, <1>7
  <2>2. Sorted' /\ AllTimely' /\ Waiting'
    BY <2>1 DEF Sorted, AllTimely, Waiting
  <2>3. QED BY <1>5, <1>6, <2>2 DEF TimeInv
<1>8. CASE list # <<>>
  <2>1. PICK s \in Nat : s = sleep /\ s * D < W - 1
    BY <1>1, <1>2, <1>8 DEF Waiting
  <2>2. PICK S \in 0..(W - 1) : S = s * D /\ S # W - 1 /\ S \in Nat
    <3>1. s * D \in Nat /\ W \in Nat
      BY <1>3, TimersAssumption
    <3>2. QED BY <2>1, <3>1
  <2>3. wait' = S
    <3>1. S % W = S
      BY Fits
    <3>2. DLY_MS(sleep) = S
      BY <2>1, <2>2, <3>1 DEF DLY_MS
    <3>3. sleep # Forever
      BY <2>1 DEF Forever
    <3>4. QED BY <1>2, <2>2, <3>2, <3>3
  <2>4. ASSUME NEW i \in 1..Len(list)
        PROVE  /\ Reached(list[i].time)'
               /\ up + S <= list[i].time * D + Lag + D - 1
    <3>1. PICK y \in Nat, Y \in Nat : y = list[i].time /\ Y = y * D
      BY <1>3, Entries
    <3>2. up + S <= Y + D - 1 + late
      BY <1>1, <1>2, <2>1, <2>2, <3>1 DEF Waiting
    <3>3. up + S <= Y + Lag + D - 1 /\ up <= Y + Lag + D - 1 + 0
      BY <1>3, <2>2, <3>2
    <3>4. Reached(y)'
      BY <1>2, <3>1, <3>3 DEF Reached
    <3>5. y = list'[i].time
      BY <1>2, <3>1
    <3>6. QED BY <3>1, <3>3, <3>4, <3>5
  <2>5. Sorted' /\ AllTimely'
    <3>1. sys_now <= sys_now'
      BY <1>1, <1>4, NowTicks
    <3>2. QED BY <1>1, <1>2, <1>5, <2>4, <3>1, SameListTimely
  <2>6. Waiting'
    <3>1. ASSUME NEW i \in 1..Len(list')
          PROVE  up' + wait' <= list'[i].time * D + Lag + D - 1 + late'
      <4>1. PICK Y \in Nat : Y = list[i].time * D
        <5>1. i \in 1..Len(list)
          BY <1>2
        <5>2. list[i].time \in Nat
          BY <5>1, Entries
        <5>3. QED BY <1>3, <5>2
      <4>2. up + S <= Y + Lag + D - 1
        BY <1>2, <2>4, <4>1
      <4>3. up + S <= Y + Lag + D - 1 + 0
        BY <1>3, <2>2, <4>2
      <4>4. QED BY <1>2, <2>3, <4>1, <4>3
    <3>2. QED BY <1>2, <2>2, <2>3, <3>1 DEF Waiting
  <2>7. QED BY <1>5, <1>6, <2>5, <2>6 DEF TimeInv
<1>9. QED BY <1>7, <1>8

(* A tick: the thread's lag grows, or what is left of its wait shrinks. *)
LEMMA TickTime ==
    ASSUME BeforeWrap, IInv, IInv', TimeInv, Tick
    PROVE  TimeInv'
<1>1. Clock /\ Sorted /\ AllTimely /\ Waiting /\ Handling
  BY DEF TimeInv
<1>2. /\ up < MaxUp /\ (Ready => late < Lag)
      /\ tick' = (tick + 1) % W /\ up' = up + 1
      /\ late' = (IF Ready THEN late + 1 ELSE late)
      /\ wait' = (IF pc = "wait" /\ wait > 0 THEN wait - 1 ELSE wait)
      /\ UNCHANGED <<list, pc, cur, now, due, sleep, called>>
  BY DEF Tick
<1>3. /\ late \in Nat /\ up \in Nat /\ Lag \in Nat /\ D \in Nat /\ MaxUp \in Nat /\ W \in Nat
      /\ wait \in Int
  <2>1. Lag \in Nat /\ D \in Nat /\ MaxUp \in Nat /\ W \in Nat
    BY TimersAssumption
  <2>2. QED BY <2>1 DEF IInv, TypeOK
<1>4. tick = up /\ late <= Lag
  BY <1>1 DEF Clock
<1>5. tick' = up'
  <2>1. PICK a \in 0..(W - 1) : a = up + 1
    BY <1>2, <1>3 DEF BeforeWrap
  <2>2. a % W = a
    BY Fits
  <2>3. QED BY <1>2, <1>4, <2>1, <2>2
<1>6. sys_now <= sys_now' /\ sys_now \in Nat /\ sys_now' \in Nat
  <2>1. up' \in Nat /\ up <= up'
    BY <1>2, <1>3
  <2>2. up \div D <= up' \div D /\ up \div D \in Nat /\ up' \div D \in Nat
    BY <1>3, <2>1, Divided, DividedGrows
  <2>3. QED BY <1>4, <1>5, <2>2 DEF sys_now
<1>7. Clock'
  <2>1. up' <= MaxUp /\ late' <= Lag
    BY <1>2, <1>3, <1>4
  <2>2. ASSUME NEW t \in Timer PROVE called'[t] <= up'
    <3>1. called[t] \in Nat /\ called[t] <= up
      BY <1>1 DEF IInv, TypeOK, Clock
    <3>2. QED BY <1>2, <1>3, <3>1
  <2>3. pc' = "init" => up' = late'
    BY <1>1, <1>2 DEF Clock, Ready
  <2>4. pc' = "init" => \A t \in Timer : t >= cur' => called'[t] = 0
    BY <1>1, <1>2 DEF Clock
  <2>5. pc' \in {"next", "handler"} => now' <= sys_now'
    <3>1. now \in Nat
      BY <1>3 DEF IInv, TypeOK
    <3>2. QED BY <1>1, <1>2, <1>6, <3>1 DEF Clock
  <2>6. QED BY <1>5, <2>1, <2>2, <2>3, <2>4, <2>5 DEF Clock
<1>8. ASSUME Ready, NEW x \in Nat, Reached(x) PROVE Reached(x)'
  <2>1. PICK X \in Nat : X = x * D
    BY <1>3
  <2>2. up <= X + Lag + D - 1 + late
    BY <1>8, <2>1 DEF Reached
  <2>3. up + 1 <= X + Lag + D - 1 + (late + 1)
    BY <1>3, <2>2
  <2>4. QED BY <1>2, <1>8, <2>1, <2>3 DEF Reached
<1>9. ASSUME NEW i \in 1..Len(list)
      PROVE  /\ Reached(list[i].time)'
             /\ pc = "fetch" => up' + sleep' * D <= list[i].time * D + D - 1 + late'
             /\ pc = "wait" => up' + wait' <= list[i].time * D + Lag + D - 1 + late'
  <2>1. PICK x \in Nat, X \in Nat : x = list[i].time /\ X = x * D /\ x = list'[i].time
    BY <1>2, <1>3, Entries
  <2>2. list # <<>>
    OBVIOUS
  <2>3. Reached(x)
    BY <1>1, <2>1 DEF AllTimely, Timely
  <2>4. pc = "wait" => wait \in Nat /\ up + wait <= X + Lag + D - 1 + late
    BY <1>1, <2>1, <2>2 DEF Waiting
  <2>5. pc = "fetch" => /\ sleep * D \in Nat
                        /\ up' + sleep' * D <= X + D - 1 + late'
    <3>1. SUFFICES ASSUME pc = "fetch" PROVE /\ sleep * D \in Nat
                                             /\ up' + sleep' * D <= X + D - 1 + late'
      OBVIOUS
    <3>2. sleep \in Nat /\ up + sleep * D <= X + D - 1 + late
      BY <1>1, <2>1, <2>2, <3>1 DEF Waiting
    <3>3. PICK S \in Nat : S = sleep * D /\ S = sleep' * D
      BY <1>2, <1>3, <3>2
    <3>4. up' = up + 1 /\ late' = late + 1
      BY <1>2, <3>1 DEF Ready
    <3>5. up' + S <= X + D - 1 + late'
      BY <1>3, <3>2, <3>3, <3>4
    <3>6. QED BY <3>3, <3>5
  <2>6. CASE Ready
    <3>1. Reached(x)'
      BY <1>8, <2>3, <2>6
    <3>2. pc = "wait" => up' + wait' <= X + Lag + D - 1 + late'
      <4>1. pc = "wait" => wait = 0 /\ wait' = 0 /\ up' = up + 1 /\ late' = late + 1
        BY <1>2, <1>3, <2>6 DEF Ready
      <4>2. QED BY <1>3, <2>4, <4>1
    <3>3. QED BY <2>1, <2>5, <3>1, <3>2
  <2>7. CASE ~Ready
    <3>1. pc = "wait" /\ wait # 0 /\ late' = late
      BY <1>2, <2>7 DEF Ready
    <3>2. wait > 0 /\ wait' = wait - 1
      BY <1>2, <2>4, <3>1
    <3>3. up + 1 <= X + Lag + D - 1 + late
      BY <1>3, <2>4, <3>1, <3>2
    <3>4. Reached(x)'
      BY <1>2, <2>1, <3>1, <3>3 DEF Reached
    <3>5. up' + wait' <= X + Lag + D - 1 + late'
      BY <1>2, <1>3, <2>4, <3>1, <3>2
    <3>6. QED BY <2>1, <3>1, <3>4, <3>5
  <2>8. QED BY <2>6, <2>7
<1>10. Sorted' /\ AllTimely'
  BY <1>1, <1>2, <1>6, <1>7, <1>9, SameListTimely
<1>11. Waiting'
  <2>1. ASSUME NEW i \in 1..Len(list')
        PROVE  /\ pc' = "fetch" => up' + sleep' * D <= list'[i].time * D + D - 1 + late'
               /\ pc' = "wait" => up' + wait' <= list'[i].time * D + Lag + D - 1 + late'
    BY <1>2, <1>9
  <2>2. pc' = "wait" /\ list' # <<>> => wait' \in Nat
    BY <1>1, <1>2, <1>3 DEF Waiting
  <2>3. pc' = "fetch" /\ list' # <<>> => sleep' \in Nat /\ sleep' * D < W - 1
    BY <1>1, <1>2 DEF Waiting
  <2>4. QED BY <2>1, <2>2, <2>3 DEF Waiting
<1>12. Handling'
  <2>1. SUFFICES ASSUME pc = "handler" PROVE Handling'
    BY <1>2 DEF Handling
  <2>2. Ready /\ late' = late + 1 /\ up' = up + 1
    BY <1>2, <2>1 DEF Ready
  <2>3. PICK x \in Nat, c \in Timer : x = due /\ c = cur /\ x = due' /\ c = cur'
    <3>1. due \in Nat /\ cur \in Timer
      BY <1>3, <2>1 DEF IInv, TypeOK
    <3>2. QED BY <1>2, <3>1
  <2>4. x <= sys_now /\ Reached(x) /\ OnGrid(x, c) /\ up <= called[c] + late
    BY <1>1, <2>1, <2>3 DEF Handling
  <2>5. Reached(x)' /\ OnGrid(x, c)'
    BY <1>8, <2>2, <2>4 DEF OnGrid
  <2>6. x <= sys_now'
    BY <1>6, <2>4
  <2>7. up' <= called'[c] + late'
    <3>1. called[c] \in Nat /\ called'[c] = called[c]
      BY <1>2 DEF IInv, TypeOK
    <3>2. QED BY <1>3, <2>2, <2>4, <3>1
  <2>8. QED BY <2>3, <2>5, <2>6, <2>7 DEF Handling
<1>13. QED BY <1>7, <1>10, <1>11, <1>12 DEF TimeInv

(* Steps of the thread that change neither the list nor the clock. *)
LEMMA QuietTime ==
    ASSUME IInv, IInv', TimeInv, UNCHANGED <<tick, list, late, up, called>>,
           pc' \in {"again", "check", "next"}, pc' = "next" => now' <= sys_now
    PROVE  TimeInv'
<1>1. Clock /\ Sorted /\ AllTimely
  BY DEF TimeInv
<1>2. sys_now' = sys_now /\ \A z : Reached(z) => Reached(z)'
  BY Timeless
<1>3. Clock'
  BY <1>1, <1>2 DEF Clock
<1>4. ASSUME NEW i \in 1..Len(list), Reached(list[i].time) PROVE Reached(list[i].time)'
  <2>1. PICK y : y = list[i].time /\ y = list'[i].time
    OBVIOUS
  <2>2. Reached(y)'
    BY <1>2, <1>4, <2>1
  <2>3. QED BY <2>1, <2>2
<1>5. sys_now <= sys_now'
  BY <1>1, <1>2, NowTicks
<1>6. Sorted' /\ AllTimely'
  BY <1>1, <1>3, <1>4, <1>5, SameListTimely
<1>7. Waiting' /\ Handling'
  BY DEF Waiting, Handling
<1>8. QED BY <1>3, <1>6, <1>7 DEF TimeInv

(* At the start no timer is listed. *)
LEMMA TimeInit == ASSUME Init PROVE TimeInv
<1>1. list = <<>> /\ \A i \in 1..Len(list) : FALSE
  BY DEF Init
<1>2. Clock
  <2>1. \A t \in Timer : called[t] = 0
    BY DEF Init
  <2>2. Lag \in Nat /\ MaxUp \in Nat
    BY TimersAssumption
  <2>3. QED BY <2>1, <2>2 DEF Init, Clock
<1>3. Sorted /\ AllTimely /\ Waiting /\ Handling
  BY <1>1 DEF Sorted, AllTimely, Waiting, Handling, Init
<1>4. QED BY <1>2, <1>3 DEF TimeInv

(* Every step keeps it. *)
LEMMA TimeStep ==
    ASSUME BeforeWrap, IInv, IInv', TimeInv, [Next]_vars
    PROVE  TimeInv'
<1>1. CASE StartTimer
  BY <1>1, StartTimerTime
<1>2. CASE lwip_cyclic_timer
  BY <1>2, CyclicTime
<1>3. CASE CallHandler
  BY <1>3, CallHandlerTime
<1>4. CASE SleepTime
  BY <1>4, SleepTimeTime
<1>5. CASE MboxFetch
  BY <1>5, MboxFetchTime
<1>6. CASE Tick
  BY <1>6, TickTime
<1>7. CASE StartThread \/ Message \/ TimedOut \/ NothingDue
  <2>1. UNCHANGED <<tick, list, late, up, called>> /\ pc' \in {"again", "check"}
    BY <1>7 DEF StartThread, Message, TimedOut, NothingDue
  <2>2. QED BY <2>1, QuietTime
<1>8. CASE CheckTimeouts
  <2>1. UNCHANGED <<tick, list, late, up, called>> /\ pc' = "next" /\ now' = sys_now
    BY <1>8 DEF CheckTimeouts
  <2>2. now' <= sys_now
    BY <2>1, NowTicks DEF TimeInv
  <2>3. QED BY <2>1, <2>2, QuietTime
<1>9. CASE UNCHANGED vars
  BY <1>9 DEF vars, TimeInv, Clock, Sorted, AllTimely, Timely, Reached, OnGrid, Waiting,
              Handling, sys_now
<1>10. QED BY <1>1, <1>2, <1>3, <1>4, <1>5, <1>6, <1>7, <1>8, <1>9 DEF Next, Thread

(* The invariant of the clock and the list until the counter wraps. *)
THEOREM TimeInvariant == ASSUME BeforeWrap PROVE Spec => [](IInv /\ TimeInv)
<1>1. Init => IInv /\ TimeInv
  BY InitIInv, TimeInit
<1>2. IInv /\ TimeInv /\ [Next]_vars => (IInv /\ TimeInv)'
  BY NextIInv, TimeStep
<1>3. QED BY <1>1, <1>2, PTL DEF Spec

(* No timer is called late (timeouts.c:351-396, 425-443, sys_arch.c:36-39) *)
(* until the tick counter wraps, for any timers, lag and ticks per         *)
(* millisecond: three lags and the rounding of the clock are the most that *)
(* is added to an interval.                                                *)
THEOREM TimersOnTime == ASSUME BeforeWrap PROVE Spec => []OnTime
<1>1. ASSUME IInv, TimeInv PROVE OnTime
  <2>1. Clock /\ AllTimely /\ Handling
    BY <1>1 DEF TimeInv
  <2>2. /\ late \in Nat /\ up \in Nat /\ Lag \in Nat /\ D \in Nat /\ D > 0 /\ late <= Lag
    <3>1. Lag \in Nat /\ D \in Nat /\ D > 0
      BY TimersAssumption
    <3>2. QED BY <1>1, <2>1, <3>1 DEF IInv, TypeOK, Clock
  <2>3. ASSUME NEW t \in Timer PROVE up - called[t] <= Interval[t] * D + 3 * Lag + D - 1
    <3>1. PICK J \in Nat : J = Interval[t] * D
      BY <2>2, Widths
    <3>2. PICK c \in Nat : c = called[t]
      BY <1>1 DEF IInv, TypeOK
    <3>3. CASE Listed(t)
      <4>1. PICK i \in 1..Len(list) : list[i].timer = t
        BY <3>3 DEF Listed
      <4>2. PICK x \in Nat, X \in Nat : x = list[i].time /\ X = x * D
        BY <1>1, <2>2, Entries
      <4>3. up <= X + Lag + D - 1 + late /\ X <= c + J + Lag
        BY <2>1, <3>1, <3>2, <4>1, <4>2 DEF AllTimely, Timely, Reached
      <4>4. up - c <= J + 3 * Lag + D - 1
        BY <2>2, <4>3
      <4>5. QED BY <3>1, <3>2, <4>4
    <3>4. CASE pc = "init" /\ t >= cur
      <4>1. up = late /\ c = 0
        BY <2>1, <3>2, <3>4 DEF Clock
      <4>2. up - c <= J + 3 * Lag + D - 1
        BY <2>2, <4>1
      <4>3. QED BY <3>1, <3>2, <4>2
    <3>5. CASE pc = "handler" /\ t = cur
      <4>1. up <= c + late
        BY <2>1, <3>2, <3>5 DEF Handling
      <4>2. up - c <= J + 3 * Lag + D - 1
        BY <2>2, <4>1
      <4>3. QED BY <3>1, <3>2, <4>2
    <3>6. QED BY <1>1, <3>3, <3>4, <3>5 DEF IInv, AllTimersListed
  <2>4. QED BY <2>3 DEF OnTime
<1>2. QED BY <1>1, TimeInvariant, PTL

(* The times a timer is due stay on the grid of its interval               *)
(* (timeouts.c:231-261), if the lag is well below the interval, until the  *)
(* tick counter wraps.                                                     *)
THEOREM TimersDoNotDrift == ASSUME BeforeWrap PROVE Spec => []NoDrift
<1>1. TimeInv => NoDrift
  BY DEF TimeInv, AllTimely, Timely, OnGrid, NoDrift
<1>2. QED BY <1>1, TimeInvariant, PTL

=============================================================================
