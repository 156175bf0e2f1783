----------------------------- MODULE Can_proofs -----------------------------
(***************************************************************************)
(* Proofs about Can for any number of buses, any size of the filter and of *)
(* its words and bytes, and any settings.                                  *)
(***************************************************************************)
EXTENDS Can, TLAPS

(* The calls and steps, once and for all the lemmas. *)
Begun(b, op, from, to) ==
    /\ b \in Bus /\ from \in Nat /\ to \in Id /\ from <= to
    /\ op = "reset" => from = 0 /\ to = MaxId
    /\ op \in {"add", "rem", "reset"}
    /\ Idle /\ FilterCall(b, op, from, to)

Started(b, t) == b \in Bus /\ t \in Timing /\ Idle /\ StartInitialize(b, t)

(* Every step of the system is one of these. *)
LEMMA Steps ==
    ASSUME TypeOK, [Next]_vars
    PROVE  \/ \E b \in Bus, op \in {"add", "rem", "reset"}, from \in Nat, to \in Id :
                Begun(b, op, from, to) /\ booted' \in 0..(2 * Buses)
                                       /\ calls' \in 0..MaxCalls
           \/ \E b \in Bus, t \in Timing :
                Started(b, t) /\ booted' \in 0..(2 * Buses) /\ calls' \in 0..MaxCalls
           \/ SetBits \/ BitsDone \/ WriteWord
           \/ ResetMode \/ FlushStart \/ FlushEnd \/ SetOptions \/ ClearForce20
           \/ RunMode \/ UserDispatch \/ CAN_UserRead
           \/ \E b \in Bus : \/ CAN_UnInitialize(b) \/ CAN_Write(b) \/ GoesOff(b)
                             \/ Receives(b, "msg") \/ Receives(b, "other") \/ Sends(b)
           \/ UNCHANGED vars
<1> USE CanAssumption
<1> DEFINE Counted == booted' \in 0..(2 * Buses) /\ calls' \in 0..MaxCalls
<1>1. ASSUME AppCall PROVE Counted /\ Idle
  BY <1>1 DEF AppCall, TypeOK, CallType
<1>2. CASE CAN_UserInit
  <2>1. Counted /\ Idle
    BY <1>2 DEF CAN_UserInit, TypeOK, CallType
  <2>2. booted \div 2 + 1 \in Bus
    BY <1>2 DEF CAN_UserInit, TypeOK, CallType, Bus
  <2>3. Timing_CANx[booted \div 2 + 1] \in Timing
    BY <2>2
  <2>4. CASE booted % 2 = 0
    BY <1>2, <2>1, <2>2, <2>3, <2>4 DEF CAN_UserInit, Started
  <2>5. CASE booted % 2 # 0
    <3>1. Begun(booted \div 2 + 1, "add", 0, MaxId)
      BY <1>2, <2>1, <2>2, <2>5 DEF CAN_UserInit, Begun, Id
    <3>2. QED BY <2>1, <2>2, <3>1 DEF Id
  <2>6. QED BY <2>4, <2>5
<1>3. ASSUME NEW b \in Bus, NEW r \in Ranges, CAN_FilterAdd(b, r) \/ CAN_FilterRem(b, r)
      PROVE  \E op \in {"add", "rem", "reset"}, from \in Nat, to \in Id :
                Begun(b, op, from, to) /\ Counted
  <2>1. r[1] \in Nat /\ r[2] \in Id /\ r[1] <= r[2]
    BY <1>3 DEF CAN_FilterAdd, CAN_FilterRem, Id
  <2>2. CASE CAN_FilterAdd(b, r)
    <3>1. Begun(b, "add", r[1], r[2]) /\ Counted
      BY <1>1, <2>1, <2>2 DEF CAN_FilterAdd, Begun
    <3>2. QED BY <2>1, <3>1
  <2>3. CASE CAN_FilterRem(b, r)
    <3>1. Begun(b, "rem", r[1], r[2]) /\ Counted
      BY <1>1, <2>1, <2>3 DEF CAN_FilterRem, Begun
    <3>2. QED BY <2>1, <3>1
  <2>4. QED BY <1>3, <2>2, <2>3
<1>4. ASSUME NEW b \in Bus, CAN_FilterReset(b)
      PROVE  \E op \in {"add", "rem", "reset"}, from \in Nat, to \in Id :
                Begun(b, op, from, to) /\ Counted
  <2>1. Begun(b, "reset", 0, MaxId) /\ Counted /\ 0 \in Nat /\ MaxId \in Id
    BY <1>1, <1>4 DEF CAN_FilterReset, Begun, Id
  <2>2. QED BY <2>1
<1>5. ASSUME NEW b \in Bus, NEW t \in Timing, CAN_Initialize(b, t)
      PROVE  Started(b, t) /\ Counted
  BY <1>1, <1>5 DEF CAN_Initialize, Started
<1>6. QED
  BY <1>2, <1>3, <1>4, <1>5, Zenon DEF Next, Driver

(* The record of the call has its type. *)
Calls == [pc : Pc, bus : Bus, op : {"none", "add", "rem", "reset"},
          from : Nat, to : Id, word : Nat, timing : Timing]

(* No call, and a new call, are of that type. *)
LEMMA NewCall ==
    /\ NoCall \in Calls
    /\ \A b \in Bus, p \in Pc : Call(b, p) \in Calls
<1>1. NoCall \in Calls
  BY CanAssumption DEF NoCall, Calls, Bus, Id, Pc
<1>2. QED BY <1>1 DEF Call, Calls

(* Going on keeps it. *)
LEMMA GoneTo ==
    ASSUME call \in Calls, NEW p \in Pc
    PROVE  [call EXCEPT !.pc = p] \in Calls
BY DEF Calls

(* The parameters of a call are of their types too. *)
LEMMA WithParameters ==
    ASSUME NEW c \in Calls
    PROVE  /\ \A op \in {"add", "rem", "reset"}, from \in Nat, to \in Id :
                [c EXCEPT !.op = op, !.from = from, !.to = to] \in Calls
           /\ \A t \in Timing : [c EXCEPT !.timing = t] \in Calls
           /\ \A t \in Timing, p \in Pc : [c EXCEPT !.pc = p, !.timing = t] \in Calls
BY DEF Calls

(* Init has the types. *)
LEMMA InitType == Init => TypeOK
<1> SUFFICES ASSUME Init PROVE TypeOK
  OBVIOUS
<1> USE CanAssumption
<1>1. FilterType
  BY DEF Init, FilterType
<1>2. CtlType
  BY DEF Init, CtlType, Ctl
<1>3. ReadType
  BY DEF Init, ReadType, Record, Kind, Bus
<1>4. CallType
  BY NewCall DEF Init, CallType, Calls
<1>5. QED BY <1>1, <1>2, <1>3, <1>4 DEF TypeOK

(* Every step keeps the filters' types. *)
LEMMA NextFilterType == ASSUME TypeOK, [Next]_vars PROVE FilterType'
<1> USE CanAssumption DEF TypeOK, FilterType
<1>1. ASSUME NEW b \in Bus, NEW op \in {"add", "rem", "reset"}, NEW from \in Nat,
             NEW to \in Id, Begun(b, op, from, to)
      PROVE  FilterType'
  <2>1. from..to \subseteq Id
    BY DEF Id
  <2>2. want' \in [Bus -> SUBSET Id]
    BY <1>1, <2>1 DEF Begun, FilterCall
  <2>3. QED
    BY <1>1, <2>2 DEF Begun, FilterCall, fpga
<1>2. ASSUME NEW b \in Bus, NEW t \in Timing, Started(b, t)
      PROVE  FilterType'
  BY <1>2 DEF Started, StartInitialize, fpga, hist
<1>3. CASE SetBits
  <2>1. call.from \in Nat /\ call.to \in Id /\ call.bus \in Bus
    BY DEF CallType
  <2>2. call.from..(call.from + Chunk - 1) \subseteq Id
    BY <1>3, <2>1 DEF SetBits, Chunk, Id
  <2>3. QED BY <1>3, <2>1, <2>2 DEF SetBits, fpga, hist
<1>4. CASE WriteWord
  BY <1>4 DEF WriteWord, InWord, hist
<1>5. CASE BitsDone \/ ResetMode \/ FlushStart \/ FlushEnd \/ SetOptions
             \/ ClearForce20 \/ RunMode \/ UserDispatch \/ CAN_UserRead
  BY <1>5 DEF BitsDone, ResetMode, FlushStart, FlushEnd, SetOptions, ClearForce20,
              RunMode, UserDispatch, CAN_UserRead, fpga, hist
<1>6. ASSUME NEW b \in Bus,
             \/ CAN_UnInitialize(b) \/ CAN_Write(b) \/ GoesOff(b)
             \/ Receives(b, "msg") \/ Receives(b, "other") \/ Sends(b)
      PROVE  FilterType'
  BY <1>6 DEF CAN_UnInitialize, CAN_Write, GoesOff, Receives, Put, Sends, hist
<1>7. CASE UNCHANGED vars
  BY <1>7 DEF vars, fpga, hist
<1>8. QED
  BY Steps, <1>1, <1>2, <1>3, <1>4, <1>5, <1>6, <1>7, Zenon

(* Every step keeps the types of the controllers and of their settings. *)
LEMMA NextCtlType == ASSUME TypeOK, [Next]_vars PROVE CtlType'
<1> USE CanAssumption DEF TypeOK, CtlType
<1>0. call.bus \in Bus /\ call.timing \in Timing
  BY DEF CallType
<1>1. ASSUME NEW b \in Bus, NEW op \in {"add", "rem", "reset"}, NEW from \in Nat,
             NEW to \in Id, Begun(b, op, from, to)
      PROVE  CtlType'
  BY <1>1 DEF Begun, FilterCall, fpga
<1>2. ASSUME NEW b \in Bus, NEW t \in Timing, Started(b, t)
      PROVE  CtlType'
  BY <1>2 DEF Started, StartInitialize, fpga, hist
<1>3. ASSUME NEW b \in Bus, Reset(b) PROVE ctl' \in [Bus -> Ctl]
  BY <1>3 DEF Reset, Ctl
<1>4. CASE ResetMode
  BY <1>0, <1>3, <1>4 DEF ResetMode
<1>5. CASE UserDispatch
  BY <1>0, <1>3, <1>5 DEF UserDispatch
<1>6. ASSUME NEW b \in Bus, CAN_UnInitialize(b) PROVE CtlType'
  BY <1>3, <1>6 DEF CAN_UnInitialize
<1>7. CASE FlushStart \/ FlushEnd
  BY <1>0, <1>7 DEF FlushStart, FlushEnd, hist
<1>8. CASE SetOptions \/ ClearForce20 \/ RunMode
  <2>1. ctl[call.bus] \in Ctl
    BY <1>0
  <2>2. ctl' \in [Bus -> Ctl]
    <3>1. CASE SetOptions
      <4>1. PICK x \in BOOLEAN, y \in BOOLEAN :
              ctl' = [ctl EXCEPT ![call.bus].iso = x, ![call.bus].force20 = y]
        BY <2>1, <3>1 DEF SetOptions, Ctl
      <4>2. QED BY <1>0, <2>1, <4>1 DEF Ctl
    <3>2. CASE ClearForce20
      BY <1>0, <2>1, <3>2 DEF ClearForce20, Ctl
    <3>3. CASE RunMode
      BY <1>0, <2>1, <3>3 DEF RunMode, Ctl
    <3>4. QED BY <1>8, <3>1, <3>2, <3>3
  <2>3. QED BY <1>8, <2>2 DEF SetOptions, ClearForce20, RunMode, hist
<1>9. CASE SetBits \/ BitsDone \/ WriteWord \/ CAN_UserRead
  BY <1>9 DEF SetBits, BitsDone, WriteWord, CAN_UserRead, fpga, hist
<1>10. ASSUME NEW b \in Bus, CAN_Write(b) \/ Sends(b) PROVE CtlType'
  BY <1>10 DEF CAN_Write, Sends, hist
<1>11. ASSUME NEW b \in Bus, GoesOff(b) \/ Receives(b, "msg") \/ Receives(b, "other")
       PROVE  CtlType'
  <2>1. ctl' \in [Bus -> Ctl]
    <3>1. CASE GoesOff(b)
      BY <3>1 DEF GoesOff, Ctl
    <3>2. CASE ~GoesOff(b)
      BY <1>11, <3>2 DEF Receives
    <3>3. QED BY <3>1, <3>2
  <2>2. QED BY <1>11, <2>1 DEF GoesOff, Receives, Put
<1>12. CASE UNCHANGED vars
  BY <1>12 DEF vars, fpga, hist
<1>13. QED
  BY Steps, <1>1, <1>2, <1>4, <1>5, <1>6, <1>7, <1>8, <1>9, <1>10, <1>11, <1>12,
     Zenon

(* Every step keeps the types of the fifo and of the reader. *)
LEMMA NextReadType == ASSUME TypeOK, [Next]_vars PROVE ReadType'
<1> USE CanAssumption DEF TypeOK, ReadType
<1>1. ASSUME NEW b \in Bus, NEW op \in {"add", "rem", "reset"}, NEW from \in Nat,
             NEW to \in Id, Begun(b, op, from, to)
      PROVE  ReadType'
  BY <1>1 DEF Begun, FilterCall, fpga, read
<1>2. ASSUME NEW b \in Bus, NEW t \in Timing, Started(b, t)
      PROVE  ReadType'
  BY <1>2 DEF Started, StartInitialize, fpga, read, hist
<1>3. CASE CAN_UserRead
  <2>1. CASE fifo = <<>>
    BY <1>3, <2>1 DEF CAN_UserRead, CAN_Read, read
  <2>2. CASE fifo # <<>>
    <3>0. /\ IF dma_idx \in prepared THEN buff' = Head(fifo) /\ fifo' = Tail(fifo)
             ELSE buff' = buff /\ fifo' = fifo
          /\ taken' = Append(taken, buff') /\ queued' = queued
          /\ prepared' = (prepared \ {dma_idx}) \union {6 - dma_idx}
          /\ dma_idx' = 6 - dma_idx
      BY <1>3, <2>2 DEF CAN_UserRead, CAN_Read
    <3>1. buff' \in Record /\ fifo' \in Seq(Record) /\ Len(fifo') <= FifoCap
      <4>1. /\ fifo \in Seq(Record) /\ Len(fifo) <= FifoCap /\ buff \in Record
            /\ FifoCap \in Nat
        OBVIOUS
      <4>2. /\ Head(fifo) \in Record /\ Tail(fifo) \in Seq(Record)
            /\ Len(Tail(fifo)) <= FifoCap
        BY <2>2, <4>1
      <4>3. QED BY <3>0, <4>1, <4>2
    <3>2. dma_idx' \in {2, 4} /\ prepared' \subseteq {2, 4}
      BY <3>0
    <3>3. taken' \in Seq(Record) /\ queued' \in Seq(Record)
      BY <3>0, <3>1
    <3>4. QED BY <3>1, <3>2, <3>3
  <2>3. QED BY <2>1, <2>2
<1>4. CASE SetBits \/ BitsDone \/ WriteWord \/ ResetMode \/ FlushStart \/ FlushEnd
           \/ SetOptions \/ ClearForce20 \/ RunMode \/ UserDispatch
  BY <1>4 DEF SetBits, BitsDone, WriteWord, ResetMode, FlushStart, FlushEnd,
              SetOptions, ClearForce20, RunMode, UserDispatch, fpga, read, hist
<1>5. ASSUME NEW b \in Bus, CAN_UnInitialize(b) \/ CAN_Write(b) \/ Sends(b)
      PROVE  ReadType'
  BY <1>5 DEF CAN_UnInitialize, CAN_Write, Sends, read, hist
<1>6. ASSUME NEW b \in Bus, NEW k \in Kind, Put(b, k) PROVE ReadType'
  <2>1. [bus |-> b, kind |-> k] \in Record
    BY DEF Record
  <2>2. QED BY <1>6, <2>1 DEF Put, read
<1>7. ASSUME NEW b \in Bus, GoesOff(b) \/ Receives(b, "msg") \/ Receives(b, "other")
      PROVE  ReadType'
  BY <1>6, <1>7 DEF GoesOff, Receives, Kind
<1>8. CASE UNCHANGED vars
  BY <1>8 DEF vars, fpga, read, hist
<1>9. QED
  BY Steps, <1>1, <1>2, <1>3, <1>4, <1>5, <1>7, <1>8, Zenon

(* Every step keeps the type of the call and the counts. *)
LEMMA NextCallType == ASSUME TypeOK, [Next]_vars PROVE CallType'
<1> USE CanAssumption, NewCall DEF TypeOK
<1>0. /\ call \in Calls /\ booted \in 0..(2 * Buses)
      /\ calls \in 0..MaxCalls /\ events \in 0..MaxEvents
  BY DEF CallType, Calls
<1>a. ASSUME call' \in Calls, booted' \in 0..(2 * Buses),
             calls' \in 0..MaxCalls, events' \in 0..MaxEvents
      PROVE  CallType'
  BY <1>a DEF CallType, Calls
<1>1. ASSUME NEW b \in Bus, NEW op \in {"add", "rem", "reset"}, NEW from \in Nat,
             NEW to \in Id, Begun(b, op, from, to),
             booted' \in 0..(2 * Buses), calls' \in 0..MaxCalls
      PROVE  CallType'
  <2>1. call' \in Calls
    BY <1>1, WithParameters DEF Begun, FilterCall, Pc
  <2>2. events' \in 0..MaxEvents
    BY <1>0, <1>1 DEF Begun, FilterCall
  <2>3. QED BY <1>a, <1>1, <2>1, <2>2
<1>2. ASSUME NEW b \in Bus, NEW t \in Timing, Started(b, t),
             booted' \in 0..(2 * Buses), calls' \in 0..MaxCalls
      PROVE  CallType'
  <2>1. call' \in Calls
    BY <1>2, WithParameters DEF Started, StartInitialize, Pc
  <2>2. events' \in 0..MaxEvents
    BY <1>0, <1>2 DEF Started, StartInitialize
  <2>3. QED BY <1>a, <1>2, <2>1, <2>2
<1>3. CASE SetBits
  <2>1. call' \in Calls
    BY <1>0, <1>3 DEF SetBits, Chunk, Calls
  <2>2. QED BY <1>0, <1>a, <1>3, <2>1 DEF SetBits
<1>4. CASE WriteWord
  <2>1. [call EXCEPT !.word = @ + 1] \in Calls
    BY <1>0 DEF Calls
  <2>2. QED BY <1>0, <1>a, <1>4, <2>1 DEF WriteWord
<1>5. CASE BitsDone \/ ResetMode \/ FlushStart \/ FlushEnd \/ ClearForce20 \/ RunMode
  <2>1. call' \in Calls
    BY <1>0, <1>5, GoneTo DEF BitsDone, ResetMode, FlushStart, FlushEnd, ClearForce20,
       RunMode, Goto, Pc
  <2>2. QED BY <1>0, <1>a, <1>5, <2>1 DEF BitsDone, ResetMode, FlushStart, FlushEnd,
       ClearForce20, RunMode
<1>6. CASE SetOptions
  <2>1. call' \in Calls
    BY <1>0, <1>6, GoneTo DEF SetOptions, Pc
  <2>2. QED BY <1>0, <1>a, <1>6, <2>1 DEF SetOptions
<1>7. CASE UserDispatch
  <2>1. Timing_CANx[call.bus] \in Timing
    BY <1>0 DEF Calls
  <2>2. call' \in Calls
    <3>1. [call EXCEPT !.pc = "reset", !.timing = Timing_CANx[call.bus]] \in Calls
      BY <1>0, <2>1, WithParameters DEF Pc
    <3>2. \/ call' = [call EXCEPT !.pc = "reset", !.timing = Timing_CANx[call.bus]]
          \/ call' = NoCall
      BY <1>7, Zenon DEF UserDispatch
    <3>3. QED BY <3>1, <3>2
  <2>3. QED BY <1>0, <1>a, <1>7, <2>2 DEF UserDispatch
<1>8. CASE CAN_UserRead
  <2>1. buff'.bus \in Bus
    BY NextReadType DEF ReadType, Record
  <2>2. call' \in Calls
    BY <1>0, <1>8, <2>1 DEF CAN_UserRead, CAN_Read, Pc
  <2>3. QED BY <1>0, <1>a, <1>8, <2>2 DEF CAN_UserRead, AppCall
<1>9. ASSUME NEW b \in Bus, CAN_UnInitialize(b) \/ CAN_Write(b) \/ Sends(b)
      PROVE  CallType'
  BY <1>0, <1>a, <1>9 DEF CAN_UnInitialize, CAN_Write, Sends, AppCall
<1>10. ASSUME NEW b \in Bus, GoesOff(b) \/ Receives(b, "msg") \/ Receives(b, "other")
       PROVE  CallType'
  <2>1. \E k \in Kind : Put(b, k)
    BY <1>10 DEF GoesOff, Receives, Kind
  <2>2. /\ call' = call /\ booted' = booted /\ calls' = calls
        /\ events < MaxEvents /\ events' = events + 1
    BY <2>1 DEF Put
  <2>3. QED BY <1>0, <1>a, <2>2
<1>11. CASE UNCHANGED vars
  BY <1>0, <1>a, <1>11 DEF vars
<1>12. QED
  BY Steps, <1>1, <1>2, <1>3, <1>4, <1>5, <1>6, <1>7, <1>8, <1>9, <1>10, <1>11,
     Zenon

(* Every step keeps the types. *)
LEMMA NextType == ASSUME TypeOK, [Next]_vars PROVE TypeOK'
BY NextFilterType, NextCtlType, NextReadType, NextCallType DEF TypeOK

-----------------------------------------------------------------------------
(* The filter. *)

(* The words cover the identifiers in their order. *)
LEMMA WordOrder ==
    /\ WordOf(MaxId) \in Nat
    /\ \A i \in Id : WordOf(i) \in Nat /\ WordOf(i) <= WordOf(MaxId)
<1> SUFFICES ASSUME NEW i \in Id
    PROVE  WordOf(MaxId) \in Nat /\ WordOf(i) \in Nat /\ WordOf(i) <= WordOf(MaxId)
  BY CanAssumption DEF Id
<1> DEFINE q == WordOf(i)
           r == WordOf(MaxId)
<1>1. /\ i \in Nat /\ MaxId \in Nat /\ i <= MaxId /\ WordIds \in Nat /\ WordIds > 0
  BY CanAssumption DEF Id
<1>2. /\ q \in Nat /\ WordIds * q <= i
      /\ r \in Nat /\ MaxId < WordIds * (r + 1)
  BY <1>1 DEF WordOf
<1> HIDE DEF q, r
<1>3. ASSUME q > r PROVE FALSE
  <2>1. WordIds * (r + 1) <= WordIds * q
    BY <1>1, <1>2, <1>3
  <2>2. WordIds * (r + 1) \in Nat /\ WordIds * q \in Nat
    BY <1>1, <1>2
  <2>3. QED BY <1>1, <1>2, <2>1, <2>2
<1>4. QED BY <1>2, <1>3 DEF q, r

(* What CAN_UserRead goes on with when it has a record. *)
LEMMA Dispatched ==
    ASSUME TypeOK, UserDispatch
    PROVE  \/ /\ buff.kind = "off" /\ call'.pc = "reset" /\ call'.bus = call.bus
              /\ Reset(call.bus) /\ setup' = [setup EXCEPT ![call.bus] = NoSetup]
           \/ /\ buff.kind # "off" /\ call' = NoCall
              /\ UNCHANGED <<ctl, setup, lost>>
<1>1. CASE buff.kind = "off"
  <2>1. /\ call' = [call EXCEPT !.pc = "reset", !.timing = Timing_CANx[call.bus]]
        /\ Reset(call.bus) /\ setup' = [setup EXCEPT ![call.bus] = NoSetup]
    BY <1>1, Zenon DEF UserDispatch
  <2>2. call \in Calls
    BY DEF TypeOK, CallType, Calls
  <2>3. call'.pc = "reset" /\ call'.bus = call.bus
    BY <2>1, <2>2 DEF Calls
  <2>4. QED BY <1>1, <2>1, <2>3
<1>2. CASE buff.kind # "off"
  BY <1>2 DEF UserDispatch
<1>3. QED BY <1>1, <1>2

(* Steps that touch neither the filters nor a call that changes them. *)
LEMMA FilterIdle ==
    ASSUME TypeOK, FilterInv, UNCHANGED <<StdFilters, filter, want>>,
           call.pc \notin {"bits", "words"}, call'.pc \notin {"bits", "words"}
    PROVE  FilterInv'
BY DEF FilterInv

(* Every step keeps FilterInv. *)
LEMMA NextFilter == ASSUME TypeOK, FilterInv, [Next]_vars PROVE FilterInv'
<1> USE CanAssumption
<1>0. /\ call \in Calls /\ StdFilters \in [Bus -> SUBSET Id]
      /\ filter \in [Bus -> SUBSET Id] /\ want \in [Bus -> SUBSET Id]
  BY DEF TypeOK, CallType, Calls, FilterType
<1>1. ASSUME NEW b \in Bus, NEW op \in {"add", "rem", "reset"}, NEW from \in Nat,
             NEW to \in Id, Begun(b, op, from, to)
      PROVE  FilterInv'
  <2>1. /\ call' = [Call(b, IF op = "reset" THEN "words" ELSE "bits")
                       EXCEPT !.op = op, !.from = from, !.to = to]
        /\ want' = [want EXCEPT ![b] = IF op = "add" THEN @ \union (from..to)
                                       ELSE @ \ (from..to)]
        /\ StdFilters' = StdFilters /\ filter' = filter
    BY <1>1 DEF Begun, FilterCall, fpga
  <2>2. \A c \in Bus : StdFilters[c] = want[c] /\ filter[c] = want[c]
    BY <1>1 DEF FilterInv, Begun, Idle
  <2>3. /\ call'.bus = b /\ call'.op = op /\ call'.from = from /\ call'.to = to
        /\ call'.word = 0 /\ call'.pc = IF op = "reset" THEN "words" ELSE "bits"
    BY <2>1 DEF Call, NoCall
  <2>4. CASE op = "reset"
    <3>1. want'[b] = {}
      BY <1>0, <1>1, <2>1, <2>4 DEF Begun, Id
    <3>2. QED BY <1>0, <2>1, <2>2, <2>3, <2>4, <3>1, WordOrder DEF FilterInv
  <2>5. CASE op = "add"
    BY <1>0, <2>1, <2>2, <2>3, <2>5 DEF FilterInv
  <2>6. CASE op = "rem"
    BY <1>0, <2>1, <2>2, <2>3, <2>6 DEF FilterInv
  <2>7. QED BY <2>4, <2>5, <2>6
<1>2. ASSUME NEW b \in Bus, NEW t \in Timing, Started(b, t)
      PROVE  FilterInv'
  <2>1. call.pc = "idle" /\ call'.pc = "reset"
    BY <1>2 DEF Started, Idle, StartInitialize, Call, NoCall
  <2>2. QED BY <1>2, <2>1, FilterIdle DEF Started, StartInitialize, fpga, hist
<1>3. CASE SetBits
  <2>1. /\ call.bus \in Bus /\ call.from \in Nat /\ call.to \in Nat
        /\ call.pc = "bits" /\ call.from <= call.to
    BY <1>0, <1>3 DEF SetBits, Calls, Id
  <2>2. PICK n \in Nat :
          /\ call.from + n - 1 <= call.to /\ n > 0
          /\ call' = [call EXCEPT !.from = @ + n]
          /\ StdFilters' = [StdFilters EXCEPT ![call.bus] =
                               IF call.op = "add" THEN @ \union (call.from..(call.from + n - 1))
                               ELSE @ \ (call.from..(call.from + n - 1))]
          /\ filter' = filter /\ want' = want
    <3>1. Chunk \in Nat /\ Chunk > 0 /\ call.from + Chunk - 1 <= call.to
      BY <2>1 DEF Chunk
    <3>2. QED BY <1>3, <3>1 DEF SetBits, fpga, hist
  <2>3. /\ call'.bus = call.bus /\ call'.op = call.op /\ call'.to = call.to
        /\ call'.from = call.from + n /\ call'.pc = "bits" /\ call'.word = 0
    BY <1>0, <2>1, <2>2 DEF Calls, FilterInv
  <2>4. /\ call.from..call.to = (call.from..(call.from + n - 1))
                                  \union ((call.from + n)..call.to)
        /\ (call.from..(call.from + n - 1)) \cap ((call.from + n)..call.to) = {}
    BY <2>1, <2>2
  <2> DEFINE taken1 == call.from..(call.from + n - 1)
             left1 == (call.from + n)..call.to
             bits == StdFilters[call.bus]
  <2>5. /\ call.op = "add" => StdFilters'[call.bus] = bits \union taken1
        /\ call.op = "rem" => StdFilters'[call.bus] = bits \ taken1
        /\ \A c \in Bus : c # call.bus => StdFilters'[c] = StdFilters[c]
    BY <1>0, <2>1, <2>2
  <2>6. \/ call.op = "add" /\ want[call.bus] = bits \union (taken1 \union left1)
        \/ call.op = "rem" /\ want[call.bus] = bits \ (taken1 \union left1)
    BY <2>1, <2>4 DEF FilterInv
  <2>7. \A c \in Bus : c # call.bus => StdFilters[c] = want[c] /\ filter[c] = want[c]
    BY DEF FilterInv
  <2> HIDE DEF taken1, left1, bits
  <2>8. \/ call.op = "add" /\ want[call.bus] = StdFilters'[call.bus] \union left1
        \/ call.op = "rem" /\ want[call.bus] = StdFilters'[call.bus] \ left1
    BY <2>5, <2>6
  <2>9. left1 = call'.from..call'.to
    BY <2>3 DEF left1
  <2>10. QED
    BY <2>2, <2>3, <2>5, <2>7, <2>8, <2>9 DEF FilterInv
<1>4. CASE BitsDone
  <2>1. /\ call.bus \in Bus /\ call.from \in Nat /\ call.to \in Nat
        /\ call.pc = "bits" /\ call.from > call.to
    BY <1>0, <1>4 DEF BitsDone, Calls, Id
  <2>2. StdFilters[call.bus] = want[call.bus] /\ call.op # "reset"
    <3>1. call.from..call.to = {}
      BY <2>1
    <3>2. QED BY <2>1, <3>1 DEF FilterInv
  <2>3. /\ call'.pc = "words" /\ call'.bus = call.bus /\ call'.op = call.op
        /\ call'.word = 0
        /\ StdFilters' = StdFilters /\ filter' = filter /\ want' = want
    BY <1>0, <1>4, <2>1 DEF BitsDone, Goto, Calls, fpga, hist, FilterInv
  <2>4. QED BY <1>0, <2>1, <2>2, <2>3, WordOrder DEF FilterInv
<1>5. CASE WriteWord
  <2> DEFINE b == call.bus
             ids == InWord(call.word)
  <2>1. b \in Bus /\ call.word \in Nat /\ call.pc = "words"
    BY <1>0, <1>5 DEF WriteWord, Calls
  <2>2. /\ StdFilters' = [StdFilters EXCEPT ![b] =
                             IF call.op = "reset" THEN @ \ ids ELSE @]
        /\ filter' = [filter EXCEPT ![b] = (@ \ ids) \union (StdFilters'[b] \cap ids)]
        /\ want' = want
    BY <1>0, <1>5, <2>1 DEF WriteWord, hist
  <2>3. \A i \in Id : i \in ids <=> WordOf(i) = call.word
    BY DEF InWord
  <2>4. \A c \in Bus : c # b =>
          /\ StdFilters'[c] = want[c] /\ filter'[c] = want[c]
    BY <2>1, <2>2 DEF FilterInv
  <2>5. /\ StdFilters'[b] \subseteq Id /\ filter'[b] \subseteq Id /\ want[b] \subseteq Id
        /\ \A i \in Id :
             /\ i \in StdFilters'[b] <=>
                  i \in StdFilters[b] /\ ~(call.op = "reset" /\ i \in ids)
             /\ i \in filter'[b] <=> IF i \in ids THEN i \in StdFilters'[b]
                                     ELSE i \in filter[b]
    BY <1>0, <2>1, <2>2 DEF InWord
  <2>6. \A i \in Id :
          /\ WordOf(i) \in Nat
          /\ WordOf(i) < call.word =>
               (i \in filter[b] <=> i \in want[b])
          /\ IF call.op = "reset" /\ WordOf(i) >= call.word
             THEN i \notin want[b]
             ELSE i \in StdFilters[b] <=> i \in want[b]
    BY <2>1, WordOrder DEF FilterInv
  <2>7. \A i \in Id :
          /\ WordOf(i) < call.word + 1 => (i \in filter'[b] <=> i \in want[b])
          /\ IF call.op = "reset" /\ WordOf(i) >= call.word + 1
             THEN i \notin want[b]
             ELSE i \in StdFilters'[b] <=> i \in want[b]
    BY <2>1, <2>3, <2>5, <2>6
  <2>8. CASE call.word = WordOf(MaxId)
    <3>1. \A i \in Id : WordOf(i) < call.word + 1 /\ ~(WordOf(i) >= call.word + 1)
      BY <2>1, <2>8, WordOrder
    <3>2. StdFilters'[b] = want[b] /\ filter'[b] = want[b]
      BY <2>5, <2>7, <3>1
    <3>3. call'.pc = "idle"
      BY <1>5, <2>8 DEF WriteWord, NoCall
    <3>4. QED BY <2>2, <2>4, <3>2, <3>3 DEF FilterInv
  <2>9. CASE call.word # WordOf(MaxId)
    <3>1. /\ call'.pc = "words" /\ call'.bus = b /\ call'.op = call.op
          /\ call'.word = call.word + 1
      BY <1>0, <1>5, <2>1, <2>9 DEF WriteWord, Calls
    <3>2. call.word + 1 <= WordOf(MaxId)
      BY <2>1, <2>9, WordOrder DEF FilterInv
    <3>3. QED BY <2>2, <2>4, <2>7, <3>1, <3>2 DEF FilterInv
  <2>10. QED BY <2>8, <2>9
<1>6. CASE ResetMode \/ FlushStart \/ FlushEnd \/ SetOptions \/ ClearForce20 \/ RunMode
  <2>1. call.pc \notin {"bits", "words"} /\ UNCHANGED <<StdFilters, filter, want>>
    BY <1>6 DEF ResetMode, FlushStart, FlushEnd, SetOptions, ClearForce20, RunMode,
                hist
  <2>2. call'.pc \notin {"bits", "words"}
    BY <1>0, <1>6 DEF ResetMode, FlushStart, FlushEnd, SetOptions, ClearForce20,
                RunMode, Goto, NoCall, Calls
  <2>3. QED BY <2>1, <2>2, FilterIdle
<1>7. CASE UserDispatch \/ CAN_UserRead
  <2>1. call.pc \notin {"bits", "words"} /\ UNCHANGED <<StdFilters, filter, want>>
    BY <1>7 DEF UserDispatch, CAN_UserRead, AppCall, Idle
  <2>2. call'.pc \notin {"bits", "words"}
    <3>1. CASE UserDispatch
      BY <3>1, Dispatched DEF NoCall
    <3>2. CASE CAN_UserRead
      BY <2>1, <3>2 DEF CAN_UserRead, CAN_Read, Call, NoCall
    <3>3. QED BY <1>7, <3>1, <3>2
  <2>3. QED BY <2>1, <2>2, FilterIdle
<1>8. ASSUME NEW b \in Bus,
             \/ CAN_UnInitialize(b) \/ CAN_Write(b) \/ GoesOff(b)
             \/ Receives(b, "msg") \/ Receives(b, "other") \/ Sends(b)
      PROVE  FilterInv'
  <2>1. UNCHANGED <<StdFilters, filter, want, call>>
    BY <1>8 DEF CAN_UnInitialize, CAN_Write, GoesOff, Receives, Put, Sends, hist
  <2>2. QED BY <2>1 DEF FilterInv
<1>9. CASE UNCHANGED vars
  BY <1>9 DEF vars, fpga, hist, FilterInv
<1>10. QED
  BY Steps, <1>1, <1>2, <1>3, <1>4, <1>5, <1>6, <1>7, <1>8, <1>9, Zenon

-----------------------------------------------------------------------------
(* The settings. *)

(* Steps outside CAN_Initialize that leave modes, options and settings. *)
LEMMA SetupIdle ==
    ASSUME SetupInv, setup' = setup,
           \A b \in Bus : /\ ctl'[b].mode = ctl[b].mode /\ ctl'[b].iso = ctl[b].iso
                          /\ ctl'[b].force20 = ctl[b].force20,
           \/ call' = call /\ call.bus \in Bus
           \/ call.pc \notin Initializing /\ call'.pc \notin Initializing
    PROVE  SetupInv'
<1>1. CASE call' = call /\ call.bus \in Bus
  BY <1>1 DEF SetupInv, Legal
<1>2. CASE call.pc \notin Initializing /\ call'.pc \notin Initializing
  BY <1>2 DEF SetupInv, Legal, Initializing
<1>3. QED BY <1>1, <1>2

(* A step that resets a bus and takes its settings away. *)
LEMMA SetupTaken ==
    ASSUME TypeOK, SetupInv, NEW c \in Bus, Reset(c),
           setup' = [setup EXCEPT ![c] = NoSetup],
           call.pc \notin Initializing, call'.pc \notin Initializing
    PROVE  SetupInv'
<1>1. /\ ctl \in [Bus -> Ctl] /\ setup \in [Bus -> Timing \union {NoSetup}]
  BY DEF TypeOK, CtlType
<1>2. /\ ctl'[c].mode = "reset" /\ setup'[c] = NoSetup
      /\ \A b \in Bus : b # c => ctl'[b] = ctl[b] /\ setup'[b] = setup[b]
  BY <1>1 DEF Reset, Ctl
<1>3. ~Legal(NoSetup)
  BY DEF Legal, NoSetup
<1>4. QED BY <1>2, <1>3 DEF SetupInv, Initializing

(* Every step keeps SetupInv. *)
LEMMA NextSetup == ASSUME TypeOK, SetupInv, [Next]_vars PROVE SetupInv'
<1> USE CanAssumption
<1>0. /\ call \in Calls /\ call.bus \in Bus
      /\ ctl \in [Bus -> Ctl] /\ setup \in [Bus -> Timing \union {NoSetup}]
  BY DEF TypeOK, CallType, Calls, CtlType
<1> DEFINE c == call.bus
           t == call.timing
           Others == \A b \in Bus : b # c => ctl'[b] = ctl[b] /\ setup'[b] = setup[b]
<1>1. ASSUME NEW b \in Bus, NEW op \in {"add", "rem", "reset"}, NEW from \in Nat,
             NEW to \in Id, Begun(b, op, from, to)
      PROVE  SetupInv'
  <2>1. call.pc = "idle" /\ call'.pc \in {"bits", "words"}
    BY <1>1 DEF Begun, Idle, FilterCall, Call, NoCall
  <2>2. QED BY <1>1, <2>1, SetupIdle DEF Begun, FilterCall, fpga, Initializing
<1>2. ASSUME NEW b \in Bus, NEW u \in Timing, Started(b, u)
      PROVE  SetupInv'
  <2>1. call.pc = "idle" /\ call'.pc = "reset"
    BY <1>2 DEF Started, Idle, StartInitialize, Call, NoCall
  <2>2. QED BY <1>2, <2>1, SetupIdle DEF Started, StartInitialize, fpga, hist,
       Initializing
<1>3. CASE SetBits \/ BitsDone \/ WriteWord
  <2>1. call.pc \in {"bits", "words"} /\ UNCHANGED <<ctl, setup>>
    BY <1>3 DEF SetBits, BitsDone, WriteWord, fpga, hist
  <2>2. call'.pc \in {"bits", "words", "idle"}
    BY <1>0, <1>3 DEF SetBits, BitsDone, WriteWord, Goto, NoCall, Calls
  <2>3. QED BY <2>1, <2>2, SetupIdle DEF Initializing
<1>4. CASE ResetMode
  <2>1. /\ ctl'[c].mode = "reset" /\ setup'[c] = t /\ Others
    BY <1>0, <1>4 DEF ResetMode, Reset, Ctl
  <2>2. call'.pc = "flush" /\ call'.bus = c /\ call'.timing = t /\ call.pc = "reset"
    BY <1>0, <1>4 DEF ResetMode, Goto, Calls
  <2>3. QED BY <1>0, <2>1, <2>2 DEF SetupInv, Initializing
<1>5. CASE FlushStart
  <2>1. /\ call'.pc = "empty" /\ call'.bus = c /\ call'.timing = t /\ call.pc = "flush"
        /\ ctl' = ctl /\ setup' = setup
    BY <1>0, <1>5 DEF FlushStart, Goto, Calls, hist
  <2>2. QED BY <1>0, <2>1 DEF SetupInv, Initializing
<1>6. CASE FlushEnd
  <2>1. call.pc = "empty" /\ ctl' = ctl /\ setup' = setup
    BY <1>6 DEF FlushEnd, hist
  <2>2. CASE t.clk
    <3>1. call'.pc = "options" /\ call'.bus = c /\ call'.timing = t
      BY <1>0, <1>6, <2>2 DEF FlushEnd, Goto, Calls
    <3>2. QED BY <1>0, <2>1, <2>2, <3>1 DEF SetupInv, Initializing
  <2>3. CASE ~t.clk
    <3>1. call'.pc = "idle"
      BY <1>6, <2>3 DEF FlushEnd, NoCall
    <3>2. QED BY <1>0, <2>1, <2>3, <3>1 DEF SetupInv, Initializing, Legal
  <2>4. QED BY <2>2, <2>3
<1>7. CASE SetOptions
  <2>1. /\ call.pc = "options" /\ setup' = setup /\ t.clk
        /\ ctl[c].mode = "reset" /\ setup[c] = t
    BY <1>7 DEF SetOptions, hist, SetupInv, Initializing
  <2>2. /\ ctl'[c].mode = "reset" /\ Others
        /\ t.can_mode \in 0..2 => ctl'[c].iso = (t.can_mode # 0)
        /\ t.can_mode \in {0, 2} => ctl'[c].force20 = (t.can_mode = 2)
    BY <1>0, <1>7, <2>1 DEF SetOptions, Ctl
  <2>3. CASE t.can_mode \in 0..2
    <3>1. /\ call'.pc = IF t.can_mode = 1 THEN "force20" ELSE "run"
          /\ call'.bus = c /\ call'.timing = t
      BY <1>0, <1>7, <2>3 DEF SetOptions, Calls
    <3>2. QED BY <1>0, <2>1, <2>2, <2>3, <3>1 DEF SetupInv, Initializing
  <2>4. CASE t.can_mode \notin 0..2
    <3>1. call'.pc = "idle"
      BY <1>7, <2>4 DEF SetOptions, NoCall
    <3>2. ~Legal(t)
      BY <2>4 DEF Legal
    <3>3. \A b \in Bus : b # c => ~(ctl[b].mode = "reset" /\ Legal(setup[b]))
      BY <2>1 DEF SetupInv
    <3>4. QED BY <1>0, <2>1, <2>2, <3>1, <3>2, <3>3 DEF SetupInv, Initializing
  <2>5. QED BY <2>3, <2>4
<1>8. CASE ClearForce20
  <2>1. /\ call.pc = "force20" /\ setup' = setup /\ t.clk /\ t.can_mode = 1
        /\ ctl[c].mode = "reset" /\ setup[c] = t /\ ctl[c].iso = (t.can_mode # 0)
    BY <1>8 DEF ClearForce20, hist, SetupInv, Initializing
  <2>2. /\ ctl'[c].mode = "reset" /\ Others
        /\ ctl'[c].iso = ctl[c].iso /\ ctl'[c].force20 = FALSE
    BY <1>0, <1>8, <2>1 DEF ClearForce20, Ctl
  <2>3. call'.pc = "run" /\ call'.bus = c /\ call'.timing = t
    BY <1>0, <1>8 DEF ClearForce20, Goto, Calls
  <2>4. /\ ctl'[c].iso = (t.can_mode # 0) /\ ctl'[c].force20 = (t.can_mode = 2)
        /\ t.can_mode \in 0..2
    <3>1. ctl'[c].iso = (t.can_mode # 0)
      BY <2>1, <2>2, Zenon
    <3>2. (t.can_mode = 2) = FALSE /\ t.can_mode \in 0..2
      BY <2>1
    <3>3. ctl'[c].force20 = (t.can_mode = 2)
      BY <2>2, <3>2, Zenon
    <3>4. QED BY <3>1, <3>2, <3>3, Zenon
  <2>5. \A b \in Bus : b # c => ~(ctl[b].mode = "reset" /\ Legal(setup[b]))
    BY <2>1 DEF SetupInv
  <2>6. \A b \in Bus :
          /\ b # c => ctl'[b] = ctl[b]
          /\ setup'[b] = setup[b]
    BY <2>1, <2>2
  <2> HIDE DEF c, t
  <2>7. call'.bus = c /\ call'.timing = t /\ setup'[c] = t
    BY <1>0, <2>1, <2>3, <2>6 DEF c
  <2>8. QED BY <1>0, <2>1, <2>2, <2>3, <2>4, <2>5, <2>6, <2>7 DEF SetupInv, Initializing
<1>9. CASE RunMode
  <2>1. /\ call.pc = "run" /\ setup' = setup /\ Legal(t) /\ setup[c] = t
        /\ ctl[c].iso = (t.can_mode # 0) /\ ctl[c].force20 = (t.can_mode = 2)
    BY <1>9 DEF RunMode, hist, SetupInv, Initializing, Legal
  <2>2. /\ ctl'[c].mode = (IF t.listen_only THEN "listen" ELSE "normal") /\ Others
        /\ ctl'[c].iso = ctl[c].iso /\ ctl'[c].force20 = ctl[c].force20
    BY <1>0, <1>9, <2>1 DEF RunMode, Ctl
  <2>3. call'.pc = "idle"
    BY <1>9 DEF RunMode, NoCall
  <2>4. QED BY <1>0, <2>1, <2>2, <2>3 DEF SetupInv, Initializing
<1>10. CASE UserDispatch
  <2>1. call.pc = "dispatch"
    BY <1>10 DEF UserDispatch
  <2>2. CASE buff.kind = "off"
    <3>1. call'.pc = "reset" /\ Reset(c) /\ setup' = [setup EXCEPT ![c] = NoSetup]
      BY <1>10, <2>2, Dispatched
    <3>2. QED BY <1>0, <2>1, <3>1, SetupTaken DEF Initializing
  <2>3. CASE buff.kind # "off"
    <3>1. call'.pc = "idle" /\ ctl' = ctl /\ setup' = setup
      BY <1>10, <2>3, Dispatched DEF NoCall
    <3>2. QED BY <2>1, <3>1, SetupIdle DEF Initializing
  <2>4. QED BY <2>2, <2>3
<1>11. CASE CAN_UserRead
  <2>1. call.pc = "idle" /\ ctl' = ctl /\ setup' = setup
    BY <1>11 DEF CAN_UserRead, AppCall, Idle
  <2>2. call'.pc \in {"idle", "dispatch"}
    BY <1>11, <2>1 DEF CAN_UserRead, CAN_Read, Call, NoCall
  <2>3. QED BY <2>1, <2>2, SetupIdle DEF Initializing
<1>12. ASSUME NEW b \in Bus, CAN_UnInitialize(b) PROVE SetupInv'
  <2>1. /\ call.pc = "idle" /\ call' = call /\ Reset(b)
        /\ setup' = [setup EXCEPT ![b] = NoSetup]
    BY <1>12 DEF CAN_UnInitialize, AppCall, Idle
  <2>2. QED BY <2>1, SetupTaken DEF Initializing
<1>13. ASSUME NEW b \in Bus,
              \/ CAN_Write(b) \/ Receives(b, "msg") \/ Receives(b, "other") \/ Sends(b)
       PROVE  SetupInv'
  <2>1. ctl' = ctl /\ setup' = setup /\ call' = call
    BY <1>13 DEF CAN_Write, Receives, Put, Sends, hist
  <2>2. QED BY <1>0, <2>1, SetupIdle
<1>14. ASSUME NEW b \in Bus, GoesOff(b) PROVE SetupInv'
  <2>1. /\ setup' = setup /\ call' = call
        /\ ctl' = [ctl EXCEPT ![b].off = TRUE]
    BY <1>14 DEF GoesOff, Put
  <2>2. \A d \in Bus : /\ ctl'[d].mode = ctl[d].mode /\ ctl'[d].iso = ctl[d].iso
                       /\ ctl'[d].force20 = ctl[d].force20
    BY <1>0, <2>1 DEF Ctl
  <2>3. QED BY <1>0, <2>1, <2>2, SetupIdle
<1>15. CASE UNCHANGED vars
  <2>1. ctl' = ctl /\ setup' = setup /\ call' = call
    BY <1>15 DEF vars, fpga, hist
  <2>2. QED BY <1>0, <2>1, SetupIdle
<1>16. QED
  BY Steps, <1>1, <1>2, <1>3, <1>4, <1>5, <1>6, <1>7, <1>8, <1>9, <1>10, <1>11,
     <1>12, <1>13, <1>14, <1>15, Zenon

-----------------------------------------------------------------------------
(* The flush. *)

(* Steps outside the flush that put nothing into a cache. *)
LEMMA FlushIdle ==
    ASSUME FlushInv, flush' = flush, \A b \in Bus : cache[b] = 0 => cache'[b] = 0,
           \/ call' = call /\ call.bus \in Bus
           \/ /\ call.pc \notin {"empty", "options", "force20", "run"}
              /\ call'.pc \notin {"empty", "options", "force20", "run"}
    PROVE  FlushInv'
BY DEF FlushInv

(* Every step keeps FlushInv. *)
LEMMA NextFlush == ASSUME TypeOK, FlushInv, [Next]_vars PROVE FlushInv'
<1>0. /\ call \in Calls /\ call.bus \in Bus /\ cache \in [Bus -> 0..TxCap]
  BY DEF TypeOK, CallType, Calls, CtlType
<1>1. ASSUME NEW b \in Bus, NEW op \in {"add", "rem", "reset"}, NEW from \in Nat,
             NEW to \in Id, Begun(b, op, from, to)
      PROVE  FlushInv'
  <2>1. call.pc = "idle" /\ call'.pc \in {"bits", "words"}
    BY <1>1 DEF Begun, Idle, FilterCall, Call, NoCall
  <2>2. QED BY <1>1, <2>1, FlushIdle DEF Begun, FilterCall, fpga
<1>2. ASSUME NEW b \in Bus, NEW t \in Timing, Started(b, t)
      PROVE  FlushInv'
  <2>1. call.pc = "idle" /\ call'.pc = "reset"
    BY <1>2 DEF Started, Idle, StartInitialize, Call, NoCall
  <2>2. QED BY <1>2, <2>1, FlushIdle DEF Started, StartInitialize, fpga
<1>3. CASE SetBits \/ BitsDone \/ WriteWord \/ ResetMode
  <2>1. call.pc \in {"bits", "words", "reset"} /\ UNCHANGED <<flush, cache>>
    BY <1>3 DEF SetBits, BitsDone, WriteWord, ResetMode, fpga
  <2>2. call'.pc \in {"bits", "words", "idle", "flush"}
    BY <1>0, <1>3 DEF SetBits, BitsDone, WriteWord, ResetMode, Goto, NoCall, Calls
  <2>3. QED BY <2>1, <2>2, FlushIdle
<1>4. CASE FlushStart
  <2>1. /\ call.pc = "flush" /\ call'.pc = "empty" /\ call'.bus = call.bus
        /\ flush' = flush \union {call.bus}
    BY <1>0, <1>4 DEF FlushStart, Goto, Calls
  <2>2. QED BY <2>1 DEF FlushInv
<1>5. CASE FlushEnd
  <2>1. /\ call.pc = "empty" /\ cache[call.bus] = 0 /\ cache' = cache
        /\ flush' = flush \ {call.bus}
    BY <1>5 DEF FlushEnd
  <2>2. \/ call'.pc = "idle"
        \/ call'.pc = "options" /\ call'.bus = call.bus
    BY <1>0, <1>5 DEF FlushEnd, Goto, NoCall, Calls
  <2>3. QED BY <2>1, <2>2 DEF FlushInv
<1>6. CASE SetOptions \/ ClearForce20 \/ RunMode
  <2>1. call.pc \in {"options", "force20", "run"} /\ UNCHANGED <<flush, cache>>
    BY <1>6 DEF SetOptions, ClearForce20, RunMode
  <2>2. \/ call'.pc = "idle"
        \/ call'.pc \in {"force20", "run"} /\ call'.bus = call.bus
    <3>1. CASE SetOptions
      BY <1>0, <3>1 DEF SetOptions, NoCall, Calls
    <3>2. CASE ClearForce20 \/ RunMode
      BY <1>0, <3>2 DEF ClearForce20, RunMode, Goto, NoCall, Calls
    <3>3. QED BY <1>6, <3>1, <3>2
  <2>3. QED BY <2>1, <2>2 DEF FlushInv
<1>7. CASE UserDispatch
  <2>1. /\ call.pc = "dispatch" /\ UNCHANGED <<flush, cache>>
        /\ call'.pc \in {"reset", "idle"}
    BY <1>7, Dispatched DEF UserDispatch, NoCall
  <2>2. QED BY <2>1, FlushIdle
<1>8. CASE CAN_UserRead
  <2>1. call.pc = "idle" /\ UNCHANGED <<flush, cache>>
    BY <1>8 DEF CAN_UserRead, AppCall, Idle
  <2>2. call'.pc \in {"idle", "dispatch"}
    BY <1>8, <2>1 DEF CAN_UserRead, CAN_Read, Call, NoCall
  <2>3. QED BY <2>1, <2>2, FlushIdle
<1>9. ASSUME NEW b \in Bus, CAN_Write(b) PROVE FlushInv'
  BY <1>9 DEF CAN_Write, AppCall, Idle, FlushInv
<1>10. ASSUME NEW b \in Bus, Sends(b) PROVE FlushInv'
  <2>1. /\ call' = call /\ flush' = flush /\ cache[b] > 0
        /\ cache' = [cache EXCEPT ![b] = @ - 1]
    BY <1>10 DEF Sends
  <2>2. \A d \in Bus : cache[d] = 0 => cache'[d] = 0
    BY <1>0, <2>1
  <2>3. QED BY <1>0, <2>1, <2>2, FlushIdle
<1>11. ASSUME NEW b \in Bus,
              \/ CAN_UnInitialize(b) \/ GoesOff(b)
              \/ Receives(b, "msg") \/ Receives(b, "other")
       PROVE  FlushInv'
  <2>1. UNCHANGED <<flush, cache, call>>
    BY <1>11 DEF CAN_UnInitialize, GoesOff, Receives, Put
  <2>2. QED BY <1>0, <2>1, FlushIdle
<1>12. CASE UNCHANGED vars
  BY <1>12 DEF vars, fpga, FlushInv
<1>13. QED
  BY Steps, <1>1, <1>2, <1>3, <1>4, <1>5, <1>6, <1>7, <1>8, <1>9, <1>10, <1>11,
     <1>12, Zenon

-----------------------------------------------------------------------------
(* The records. *)

(* Every step keeps ReadInv. *)
LEMMA NextRead == ASSUME TypeOK, ReadInv, [Next]_vars PROVE ReadInv'
<1>0. /\ call \in Calls /\ fifo \in Seq(Record) /\ taken \in Seq(Record)
      /\ queued \in Seq(Record) /\ buff \in Record /\ dma_idx \in {2, 4}
  BY DEF TypeOK, CallType, Calls, ReadType
<1>a. ASSUME UNCHANGED <<fifo, dma_idx, prepared, buff, taken, queued>>,
             call' = call \/ call'.pc # "dispatch"
      PROVE  ReadInv'
  BY <1>a DEF ReadInv, ReadOnce
<1>1. ASSUME NEW b \in Bus, NEW op \in {"add", "rem", "reset"}, NEW from \in Nat,
             NEW to \in Id, Begun(b, op, from, to)
      PROVE  ReadInv'
  <2>1. call'.pc \in {"bits", "words"}
    BY <1>1 DEF Begun, FilterCall, Call, NoCall
  <2>2. QED BY <1>1, <1>a, <2>1 DEF Begun, FilterCall, fpga, read
<1>2. ASSUME NEW b \in Bus, NEW t \in Timing, Started(b, t)
      PROVE  ReadInv'
  <2>1. call'.pc = "reset"
    BY <1>2 DEF Started, StartInitialize, Call, NoCall
  <2>2. QED BY <1>2, <1>a, <2>1 DEF Started, StartInitialize, fpga, read, hist
<1>3. CASE SetBits \/ BitsDone \/ WriteWord \/ ResetMode \/ FlushStart \/ FlushEnd
           \/ SetOptions \/ ClearForce20 \/ RunMode \/ UserDispatch
  <2>1. UNCHANGED <<fifo, dma_idx, prepared, buff, taken, queued>>
    BY <1>3 DEF SetBits, BitsDone, WriteWord, ResetMode, FlushStart, FlushEnd,
                SetOptions, ClearForce20, RunMode, UserDispatch, fpga, read, hist
  <2>2. call'.pc # "dispatch"
    <3>1. CASE SetBits \/ BitsDone \/ WriteWord
      <4>1. call'.pc \in {"bits", "words", "idle"}
        BY <1>0, <3>1 DEF SetBits, BitsDone, WriteWord, Goto, NoCall, Calls
      <4>2. QED BY <4>1
    <3>5. CASE ResetMode \/ FlushStart \/ FlushEnd
      BY <1>0, <3>5 DEF ResetMode, FlushStart, FlushEnd, Goto, NoCall, Calls
    <3>2. CASE SetOptions \/ ClearForce20 \/ RunMode
      BY <1>0, <3>2 DEF SetOptions, ClearForce20, RunMode, Goto, NoCall, Calls
    <3>3. CASE UserDispatch
      BY <3>3, Dispatched DEF NoCall
    <3>4. QED BY <1>3, <3>1, <3>2, <3>3, <3>5
  <2>3. QED BY <1>a, <2>1, <2>2
<1>4. CASE CAN_UserRead
  <2>1. CASE fifo = <<>>
    BY <1>4, <1>a, <2>1 DEF CAN_UserRead, CAN_Read, read
  <2>2. CASE fifo # <<>>
    <3>1. dma_idx \in prepared /\ taken \o fifo = queued /\ prepared = {dma_idx}
      BY DEF ReadInv, ReadOnce
    <3>2. /\ buff' = Head(fifo) /\ fifo' = Tail(fifo)
          /\ taken' = Append(taken, buff') /\ queued' = queued
          /\ prepared' = (prepared \ {dma_idx}) \union {6 - dma_idx}
          /\ dma_idx' = 6 - dma_idx
          /\ call' = Call(buff'.bus, "dispatch")
      BY <1>4, <2>2, <3>1 DEF CAN_UserRead, CAN_Read
    <3>3. prepared' = {dma_idx'}
      BY <1>0, <3>1, <3>2
    <3>4. call'.bus = buff'.bus
      BY <3>2 DEF Call, NoCall
    <3>5. taken' \o fifo' = queued'
      <4>1. Append(taken, Head(fifo)) \o Tail(fifo) = taken \o fifo
        BY <1>0, <2>2
      <4>2. QED BY <3>1, <3>2, <4>1
    <3>6. QED BY <3>3, <3>4, <3>5 DEF ReadInv, ReadOnce
  <2>3. QED BY <2>1, <2>2
<1>5. ASSUME NEW b \in Bus, CAN_UnInitialize(b) \/ CAN_Write(b) \/ Sends(b)
      PROVE  ReadInv'
  BY <1>a, <1>5 DEF CAN_UnInitialize, CAN_Write, Sends, read, hist
<1>6. ASSUME NEW b \in Bus, NEW k \in Kind, Put(b, k) PROVE ReadInv'
  <2> DEFINE rec == [bus |-> b, kind |-> k]
  <2>1. rec \in Record
    BY DEF Record
  <2> HIDE DEF rec
  <2>2. /\ UNCHANGED <<dma_idx, prepared, buff, taken, call>>
        /\ \/ fifo' = fifo /\ queued' = queued
           \/ fifo' = Append(fifo, rec) /\ queued' = Append(queued, rec)
    BY <1>6 DEF Put, read, rec
  <2>3. taken \o Append(fifo, rec) = Append(taken \o fifo, rec)
    BY <1>0, <2>1
  <2>4. QED BY <2>2, <2>3 DEF ReadInv, ReadOnce
<1>7. ASSUME NEW b \in Bus, GoesOff(b) \/ Receives(b, "msg") \/ Receives(b, "other")
      PROVE  ReadInv'
  BY <1>6, <1>7 DEF GoesOff, Receives, Kind
<1>8. CASE UNCHANGED vars
  BY <1>a, <1>8 DEF vars, fpga, read, hist
<1>9. QED
  BY Steps, <1>1, <1>2, <1>3, <1>4, <1>5, <1>7, <1>8, Zenon

(* Steps that leave the records and take no bus off. *)
LEMMA OffIdle ==
    ASSUME OffAnnounced, \A b \in Bus : ctl'[b].off => ctl[b].off,
           fifo' = fifo, lost \subseteq lost',
           \/ call.pc # "dispatch"
           \/ buff.kind # "off"
           \/ call' = call /\ buff' = buff
    PROVE  OffAnnounced'
<1>1. SUFFICES ASSUME NEW b \in Bus, ctl'[b].off, b \notin lost',
                      ~\E n \in 1..Len(fifo') : fifo'[n] = [bus |-> b, kind |-> "off"]
               PROVE  call'.pc = "dispatch" /\ buff' = [bus |-> b, kind |-> "off"]
  BY DEF OffAnnounced
<1>2. call.pc = "dispatch" /\ buff = [bus |-> b, kind |-> "off"]
  BY <1>1 DEF OffAnnounced
<1>3. buff.kind = "off"
  BY <1>2
<1>4. QED BY <1>2, <1>3

(* Every step keeps OffAnnounced. *)
LEMMA NextOff == ASSUME TypeOK, ReadInv, OffAnnounced, [Next]_vars PROVE OffAnnounced'
<1>0. /\ call \in Calls /\ call.bus \in Bus /\ ctl \in [Bus -> Ctl]
      /\ fifo \in Seq(Record) /\ buff \in Record
  BY DEF TypeOK, CallType, Calls, CtlType, ReadType
<1>1. ASSUME NEW b \in Bus, NEW op \in {"add", "rem", "reset"}, NEW from \in Nat,
             NEW to \in Id, Begun(b, op, from, to)
      PROVE  OffAnnounced'
  BY <1>1, OffIdle DEF Begun, Idle, FilterCall, fpga
<1>2. ASSUME NEW b \in Bus, NEW t \in Timing, Started(b, t)
      PROVE  OffAnnounced'
  BY <1>2, OffIdle DEF Started, Idle, StartInitialize, fpga, hist
<1>3. CASE SetBits \/ BitsDone \/ WriteWord \/ FlushStart \/ FlushEnd
  <2>1. call.pc # "dispatch" /\ UNCHANGED <<ctl, fifo, lost>>
    BY <1>3 DEF SetBits, BitsDone, WriteWord, FlushStart, FlushEnd, fpga, hist
  <2>2. QED BY <2>1, OffIdle
<1>4. CASE SetOptions \/ ClearForce20 \/ RunMode
  <2>1. call.pc # "dispatch" /\ UNCHANGED <<fifo, lost>>
    BY <1>4 DEF SetOptions, ClearForce20, RunMode, hist
  <2>2. \A b \in Bus : ctl'[b].off => ctl[b].off
    <3>1. CASE SetOptions
      BY <1>0, <3>1 DEF SetOptions, Ctl
    <3>2. CASE ClearForce20 \/ RunMode
      BY <1>0, <3>2 DEF ClearForce20, RunMode, Ctl
    <3>3. QED BY <1>4, <3>1, <3>2
  <2>3. QED BY <2>1, <2>2, OffIdle
<1>a. ASSUME NEW c \in Bus, Reset(c)
      PROVE  ~ctl'[c].off /\ \A b \in Bus : b # c => ctl'[b] = ctl[b]
  BY <1>0, <1>a DEF Reset, Ctl
<1>5. CASE ResetMode
  <2>1. /\ call.pc = "reset" /\ fifo' = fifo /\ lost' = lost \ {call.bus}
        /\ Reset(call.bus)
    BY <1>5 DEF ResetMode
  <2>2. QED BY <1>0, <1>a, <2>1 DEF OffAnnounced
<1>6. CASE UserDispatch
  <2>1. CASE buff.kind = "off"
    <3>1. /\ call.pc = "dispatch" /\ fifo' = fifo /\ lost' = lost \ {call.bus}
          /\ Reset(call.bus)
      BY <1>6, <2>1 DEF UserDispatch
    <3>2. call.bus = buff.bus
      BY <3>1 DEF ReadInv
    <3>3. \A b \in Bus : buff = [bus |-> b, kind |-> "off"] => b = call.bus
      BY <3>2
    <3>4. QED BY <1>0, <1>a, <2>1, <3>1, <3>3 DEF OffAnnounced
  <2>2. CASE buff.kind # "off"
    <3>1. ctl' = ctl /\ lost' = lost /\ fifo' = fifo
      BY <1>6, <2>2 DEF UserDispatch
    <3>2. QED BY <2>2, <3>1, OffIdle
  <2>3. QED BY <2>1, <2>2
<1>7. CASE CAN_UserRead
  <2>1. call.pc = "idle" /\ ctl' = ctl /\ lost' = lost
    BY <1>7 DEF CAN_UserRead, AppCall, Idle
  <2>2. CASE fifo = <<>>
    BY <1>7, <2>1, <2>2, OffIdle DEF CAN_UserRead, CAN_Read
  <2>3. CASE fifo # <<>>
    <3>1. /\ buff' = Head(fifo) /\ fifo' = Tail(fifo)
          /\ call' = Call(buff'.bus, "dispatch")
      BY <1>7, <2>3 DEF CAN_UserRead, CAN_Read, ReadInv
    <3>2. call'.pc = "dispatch"
      BY <3>1 DEF Call, NoCall
    <3>3. SUFFICES ASSUME NEW b \in Bus, ctl[b].off, b \notin lost,
                          buff' # [bus |-> b, kind |-> "off"]
                   PROVE  \E n \in 1..Len(fifo') : fifo'[n] = [bus |-> b, kind |-> "off"]
      BY <2>1, <3>2 DEF OffAnnounced
    <3>4. PICK n \in 1..Len(fifo) : fifo[n] = [bus |-> b, kind |-> "off"]
      BY <2>1, <3>3 DEF OffAnnounced
    <3>5. n # 1
      BY <1>0, <2>3, <3>1, <3>3, <3>4
    <3>6. n - 1 \in 1..Len(fifo') /\ fifo'[n - 1] = fifo[n]
      BY <1>0, <2>3, <3>1, <3>5
    <3>7. QED BY <3>4, <3>6
  <2>4. QED BY <2>2, <2>3
<1>8. ASSUME NEW b \in Bus, CAN_UnInitialize(b) PROVE OffAnnounced'
  <2>1. /\ call.pc = "idle" /\ fifo' = fifo /\ lost' = lost \ {b} /\ Reset(b)
    BY <1>8 DEF CAN_UnInitialize, AppCall, Idle
  <2>2. QED BY <1>a, <2>1 DEF OffAnnounced
<1>9. ASSUME NEW b \in Bus, CAN_Write(b) \/ Sends(b) PROVE OffAnnounced'
  <2>1. UNCHANGED <<ctl, fifo, lost, call, buff>>
    BY <1>9 DEF CAN_Write, Sends, read, hist
  <2>2. QED BY <2>1, OffIdle
<1>b. ASSUME NEW c \in Bus, NEW k \in Kind, Put(c, k)
      PROVE  /\ call' = call /\ buff' = buff
             /\ \A r \in Record : (\E n \in 1..Len(fifo) : fifo[n] = r) =>
                                   (\E n \in 1..Len(fifo') : fifo'[n] = r)
             /\ lost \subseteq lost'
             /\ k = "off" => \/ c \in lost'
                             \/ \E n \in 1..Len(fifo') :
                                   fifo'[n] = [bus |-> c, kind |-> "off"]
  <2> DEFINE rec == [bus |-> c, kind |-> k]
  <2>1. rec \in Record
    BY DEF Record
  <2>2. /\ call' = call /\ buff' = buff /\ lost \subseteq lost'
        /\ \/ fifo' = Append(fifo, rec)
           \/ fifo' = fifo /\ (k = "off" => c \in lost')
    BY <1>b DEF Put, read
  <2>3. CASE fifo' = Append(fifo, rec)
    <3>1. /\ Len(fifo') = Len(fifo) + 1 /\ fifo'[Len(fifo) + 1] = rec
          /\ \A n \in 1..Len(fifo) : fifo'[n] = fifo[n]
          /\ Len(fifo) \in Nat
      BY <1>0, <2>1, <2>3
    <3>2. QED BY <2>2, <3>1
  <2>4. QED BY <2>2, <2>3
<1>10. ASSUME NEW b \in Bus, GoesOff(b) \/ Receives(b, "msg") \/ Receives(b, "other")
       PROVE  OffAnnounced'
  <2>1. \A c \in Bus : [bus |-> c, kind |-> "off"] \in Record
    BY DEF Record, Kind
  <2>2. CASE GoesOff(b)
    <3>1. Put(b, "off") /\ \A c \in Bus : c # b => ctl'[c] = ctl[c]
      BY <1>0, <2>2 DEF GoesOff
    <3>2. QED BY <1>b, <2>1, <3>1 DEF OffAnnounced, Kind
  <2>3. CASE Receives(b, "msg") \/ Receives(b, "other")
    <3>1. ctl' = ctl /\ \E k \in Kind : Put(b, k)
      BY <2>3 DEF Receives, Kind
    <3>2. QED BY <1>b, <2>1, <3>1 DEF OffAnnounced
  <2>4. QED BY <1>10, <2>2, <2>3
<1>11. CASE UNCHANGED vars
  BY <1>11 DEF vars, fpga, read, hist, OffAnnounced
<1>12. QED
  BY Steps, <1>1, <1>2, <1>3, <1>4, <1>5, <1>6, <1>7, <1>8, <1>9, <1>10, <1>11,
     Zenon

-----------------------------------------------------------------------------
(* Init establishes the inductive invariant. *)
LEMMA InitIInv == Init => IInv
<1> SUFFICES ASSUME Init PROVE IInv
  OBVIOUS
<1>0. call.pc = "idle"
  BY DEF Init, NoCall
<1>1. FilterInv
  BY <1>0 DEF Init, FilterInv
<1>2. SetupInv
  <2>1. ~Legal(NoSetup)
    BY DEF Legal, NoSetup
  <2>2. \A b \in Bus : ctl[b].mode = "reset" /\ setup[b] = NoSetup
    BY DEF Init
  <2>3. QED BY <1>0, <2>1, <2>2 DEF SetupInv, Initializing
<1>3. FlushInv
  BY <1>0 DEF Init, FlushInv
<1>4. ReadInv
  BY <1>0 DEF Init, ReadInv, ReadOnce
<1>5. OffAnnounced
  <2>1. \A b \in Bus : ~ctl[b].off
    BY DEF Init
  <2>2. QED BY <2>1 DEF OffAnnounced
<1>6. QED BY <1>1, <1>2, <1>3, <1>4, <1>5, InitType DEF IInv

(* The inductive invariant of the CAN driver holds in every behaviour. *)
THEOREM CanInvariant == Spec => []IInv
<1>1. IInv /\ [Next]_vars => IInv'
  BY NextType, NextFilter, NextSetup, NextFlush, NextRead, NextOff DEF IInv
<1>2. QED BY InitIInv, <1>1, PTL DEF Spec

(* The variables keep their types: no call writes past a filter, a cache   *)
(* or the fifo (can.c:77-738).                                             *)
THEOREM CanTypeCorrect == Spec => []TypeOK
<1>1. IInv => TypeOK
  BY DEF IInv
<1>2. QED BY CanInvariant, <1>1, PTL

(* Between calls every controller accepts exactly the identifiers the      *)
(* filter calls ask for (can.c:354-520), for any ranges and any size of    *)
(* the filter, its words and its bytes.                                    *)
THEOREM FilterIsExact == Spec => []FilterExact
<1>1. IInv => FilterExact
  <2> SUFFICES ASSUME IInv, Idle PROVE filter = want
    BY DEF FilterExact
  <2>1. \A b \in Bus : filter[b] = want[b]
    BY DEF IInv, FilterInv, Idle
  <2>2. filter \in [Bus -> SUBSET Id] /\ want \in [Bus -> SUBSET Id]
    BY DEF IInv, TypeOK, FilterType
  <2>3. QED BY <2>1, <2>2
<1>2. QED BY CanInvariant, <1>1, PTL

(* Changing the filter of a running bus neither drops an identifier that   *)
(* stays accepted nor lets in one that stays refused, not even for a       *)
(* moment (can.c:395-406, 461-472, 503-516).                               *)
THEOREM FilterNeverBlinks == Spec => FilterKeeps
<1> DEFINE Keeps == \A b \in Bus : /\ filter[b] \cap want[b] \subseteq filter'[b]
                                   /\ filter'[b] \subseteq filter[b] \union want[b]
<1>1. ASSUME IInv, [Next]_vars PROVE Keeps
  <2>1. CASE WriteWord
    <3>1. /\ call.bus \in Bus /\ call.pc = "words" /\ call.word \in Nat
          /\ StdFilters \in [Bus -> SUBSET Id] /\ filter \in [Bus -> SUBSET Id]
      BY <1>1, <2>1 DEF WriteWord, IInv, TypeOK, CallType, FilterType
    <3> DEFINE b == call.bus
               ids == InWord(call.word)
               bits == IF call.op = "reset" THEN StdFilters[b] \ ids ELSE StdFilters[b]
    <3>2. /\ filter'[b] = (filter[b] \ ids) \union (bits \cap ids)
          /\ \A c \in Bus : c # b => filter'[c] = filter[c]
      BY <2>1, <3>1 DEF WriteWord
    <3>3. \A i \in ids : i \in bits <=> i \in want[b]
      <4>1. \A i \in ids : i \in Id /\ WordOf(i) = call.word
        BY DEF InWord
      <4>2. QED BY <1>1, <3>1, <4>1 DEF IInv, FilterInv
    <3>4. /\ filter[b] \cap want[b] \subseteq filter'[b]
          /\ filter'[b] \subseteq filter[b] \union want[b]
      BY <3>2, <3>3
    <3>5. QED BY <3>2, <3>4
  <2>2. CASE ~WriteWord
    <3>1. filter' = filter
      <4>1. TypeOK
        BY <1>1 DEF IInv
      <4>2. ASSUME NEW b \in Bus, NEW op \in {"add", "rem", "reset"}, NEW from \in Nat,
                   NEW to \in Id, Begun(b, op, from, to)
            PROVE  filter' = filter
        BY <4>2 DEF Begun, FilterCall, fpga
      <4>3. ASSUME NEW b \in Bus, NEW t \in Timing, Started(b, t)
            PROVE  filter' = filter
        BY <4>3 DEF Started, StartInitialize, fpga
      <4>4. CASE SetBits \/ BitsDone \/ ResetMode \/ FlushStart \/ FlushEnd \/ SetOptions
                 \/ ClearForce20 \/ RunMode \/ UserDispatch \/ CAN_UserRead
        BY <4>4 DEF SetBits, BitsDone, ResetMode, FlushStart, FlushEnd, SetOptions,
                    ClearForce20, RunMode, UserDispatch, CAN_UserRead, fpga
      <4>5. ASSUME NEW b \in Bus,
                   \/ CAN_UnInitialize(b) \/ CAN_Write(b) \/ GoesOff(b)
                   \/ Receives(b, "msg") \/ Receives(b, "other") \/ Sends(b)
            PROVE  filter' = filter
        BY <4>5 DEF CAN_UnInitialize, CAN_Write, GoesOff, Receives, Put, Sends
      <4>6. CASE UNCHANGED vars
        BY <4>6 DEF vars, fpga
      <4>7. QED
        BY Steps, <1>1, <2>2, <4>1, <4>2, <4>3, <4>4, <4>5, <4>6, Zenon
    <3>2. QED BY <3>1
  <2>3. QED BY <2>1, <2>2
<1>2. IInv /\ [Next]_vars => [Keeps]_vars
  BY <1>1
<1>3. QED BY CanInvariant, <1>2, PTL DEF Spec, FilterKeeps

(* A controller runs only with the mode and options of the settings it was *)
(* initialised with, and it does run once CAN_Initialize has returned      *)
(* (can.c:560-738), for any settings before.                               *)
THEOREM ControllersRunAsSet == Spec => []RunsAsSet
<1>1. IInv => RunsAsSet
  BY DEF IInv, SetupInv, RunsAsSet, Idle, Initializing
<1>2. QED BY CanInvariant, <1>1, PTL

(* Nothing queued before an initialisation is sent after it                *)
(* (can.c:587-596).                                                        *)
THEOREM NothingStaleSent == Spec => FlushedFirst
<1> DEFINE Flushed == \A b \in Bus : ctl[b].mode = "reset" /\ ctl'[b].mode # "reset"
                                      => cache[b] = 0 /\ b \notin flush
<1>1. ASSUME IInv, [Next]_vars PROVE Flushed
  <2> SUFFICES ASSUME NEW b \in Bus, ctl[b].mode = "reset", ctl'[b].mode # "reset"
               PROVE  cache[b] = 0 /\ b \notin flush
    OBVIOUS
  <2>0. /\ TypeOK /\ ctl \in [Bus -> Ctl] /\ call.bus \in Bus
    BY <1>1 DEF IInv, TypeOK, CtlType, CallType
  <2>1. CASE RunMode
    <3>1. call.pc = "run" /\ b = call.bus
      BY <2>0, <2>1 DEF RunMode, Ctl
    <3>2. QED BY <1>1, <3>1 DEF IInv, FlushInv
  <2>2. CASE ~RunMode
    <3>1. \A c \in Bus : ctl'[c].mode \in {ctl[c].mode, "reset"}
      <4>1. ASSUME NEW c \in Bus, NEW op \in {"add", "rem", "reset"}, NEW from \in Nat,
                   NEW to \in Id, Begun(c, op, from, to)
            PROVE  ctl' = ctl
        BY <4>1 DEF Begun, FilterCall, fpga
      <4>2. ASSUME NEW c \in Bus, NEW t \in Timing, Started(c, t)
            PROVE  ctl' = ctl
        BY <4>2 DEF Started, StartInitialize, fpga
      <4>3. ASSUME NEW c \in Bus, Reset(c)
            PROVE  \A d \in Bus : ctl'[d].mode \in {ctl[d].mode, "reset"}
        BY <2>0, <4>3 DEF Reset, Ctl
      <4>4. CASE SetBits \/ BitsDone \/ WriteWord \/ FlushStart \/ FlushEnd
                 \/ CAN_UserRead \/ UNCHANGED vars
        <5>1. ctl' = ctl
          BY <4>4 DEF SetBits, BitsDone, WriteWord, FlushStart, FlushEnd, CAN_UserRead,
                      fpga, vars
        <5>2. QED BY <5>1
      <4>5. CASE ResetMode
        BY <2>0, <4>3, <4>5 DEF ResetMode
      <4>6. CASE UserDispatch
        BY <2>0, <4>3, <4>6, Dispatched
      <4>7. CASE SetOptions \/ ClearForce20
        <5>1. CASE SetOptions
          BY <2>0, <5>1 DEF SetOptions, Ctl
        <5>2. CASE ClearForce20
          BY <2>0, <5>2 DEF ClearForce20, Ctl
        <5>3. QED BY <4>7, <5>1, <5>2
      <4>8. ASSUME NEW c \in Bus, CAN_UnInitialize(c)
            PROVE  \A d \in Bus : ctl'[d].mode \in {ctl[d].mode, "reset"}
        BY <4>3, <4>8 DEF CAN_UnInitialize
      <4>9. ASSUME NEW c \in Bus,
                   \/ CAN_Write(c) \/ Receives(c, "msg") \/ Receives(c, "other")
                   \/ Sends(c)
            PROVE  ctl' = ctl
        BY <4>9 DEF CAN_Write, Receives, Sends
      <4>10. ASSUME NEW c \in Bus, GoesOff(c)
            PROVE  \A d \in Bus : ctl'[d].mode \in {ctl[d].mode, "reset"}
        BY <2>0, <4>10 DEF GoesOff, Ctl
      <4>11. ctl' = ctl => \A d \in Bus : ctl'[d].mode \in {ctl[d].mode, "reset"}
        OBVIOUS
      <4>12. QED
        BY Steps, <1>1, <2>0, <2>2, <4>1, <4>2, <4>4, <4>5, <4>6, <4>7, <4>8, <4>9,
           <4>10, <4>11, Zenon
    <3>2. QED BY <3>1
  <2>3. QED BY <2>1, <2>2
<1>2. IInv /\ [Next]_vars => [Flushed]_vars
  BY <1>1
<1>3. QED BY CanInvariant, <1>2, PTL DEF Spec, FlushedFirst

(* A bus that went off is announced or being initialised, unless an        *)
(* overrun discarded the record (can.c:257-266, can_user.c:48-57).         *)
THEOREM BusOffAnnounced == Spec => []OffAnnounced
<1>1. IInv => OffAnnounced
  BY DEF IInv
<1>2. QED BY CanInvariant, <1>1, PTL

(* The alternating streams deliver every record once, in order             *)
(* (can.c:270-334).                                                        *)
THEOREM RecordsReadOnce == Spec => []ReadOnce
<1>1. IInv => ReadOnce
  BY DEF IInv, ReadInv
<1>2. QED BY CanInvariant, <1>1, PTL
=============================================================================
