------------------------ MODULE Ethernet_frames_proofs ------------------------
(***************************************************************************)
(* Proofs about the pbufs and the frames of Ethernet: no pbuf is lost or   *)
(* freed twice, every variable stays in its range, with one sender a frame *)
(* reported as sent goes out, and what lwIP gets are the frames of the     *)
(* wire, whole or cut at the end of a buffer, in their order.              *)
(***************************************************************************)
EXTENDS Ethernet_proofs

(* f is the function of partial sums of s. *)
Sums(s, f) == f = [i \in 0..Len(s) |-> IF i = 0 THEN 0 ELSE f[i - 1] + s[i]]

(* There is one function of partial sums only. *)
LEMMA SumsAgree ==
    ASSUME NEW s \in Seq(Nat), NEW f, NEW g, Sums(s, f), Sums(s, g)
    PROVE  \A i \in 0..Len(s) : f[i] = g[i]
<1> DEFINE Bad == {i \in 0..Len(s) : f[i] # g[i]}
<1>1. /\ Len(s) \in Nat
      /\ \A i \in 0..Len(s) : f[i] = IF i = 0 THEN 0 ELSE f[i - 1] + s[i]
      /\ \A i \in 0..Len(s) : g[i] = IF i = 0 THEN 0 ELSE g[i - 1] + s[i]
  <2>1. \A i \in 0..Len(s) : f[i] = IF i = 0 THEN 0 ELSE f[i - 1] + s[i]
    BY DEF Sums
  <2>2. \A i \in 0..Len(s) : g[i] = IF i = 0 THEN 0 ELSE g[i - 1] + s[i]
    BY DEF Sums
  <2>3. QED BY <2>1, <2>2
<1>2. SUFFICES ASSUME Bad # {} PROVE FALSE
  OBVIOUS
<1>3. Bad \in SUBSET Nat
  BY <1>1
<1>4. PICK n \in Bad : \A m \in Bad : n <= m
  BY <1>2, <1>3, Least
<1>5. n \in 0..Len(s) /\ n \in Nat /\ f[n] # g[n]
  BY <1>3, <1>4
<1>6. n # 0
  BY <1>1, <1>5
<1>7. n - 1 \in 0..Len(s) /\ n - 1 \notin Bad
  BY <1>1, <1>4, <1>5, <1>6
<1>8. f[n - 1] = g[n - 1]
  BY <1>7
<1>9. QED BY <1>1, <1>5, <1>6, <1>8

(* Partial sums exist and are natural numbers. *)
LEMMA SumsExist ==
    ASSUME NEW s \in Seq(Nat)
    PROVE  \E f \in [0..Len(s) -> Nat] : Sums(s, f)
<1> DEFINE Good(n) == \E f \in [0..n -> Nat] :
                        \A i \in 0..n : f[i] = IF i = 0 THEN 0 ELSE f[i - 1] + s[i]
           Bad == {n \in 0..Len(s) : ~Good(n)}
<1>0. Len(s) \in Nat /\ \A i \in 1..Len(s) : s[i] \in Nat
  OBVIOUS
<1>1. Bad = {}
  <2>1. SUFFICES ASSUME Bad # {} PROVE FALSE
    OBVIOUS
  <2>2. Bad \in SUBSET Nat
    <3> HIDE DEF Good
    <3> QED BY <1>0
  <2>3. PICK n \in Bad : \A m \in Bad : n <= m
    <3> HIDE DEF Bad
    <3> QED BY <2>1, <2>2, Least
  <2>4. n \in Nat /\ n <= Len(s) /\ ~Good(n)
    <3> HIDE DEF Good
    <3> QED BY <1>0, <2>3
  <2>5. CASE n = 0
    <3> DEFINE f == [i \in 0..0 |-> 0]
    <3>1. f \in [0..0 -> Nat]
      OBVIOUS
    <3>2. \A i \in 0..0 : f[i] = IF i = 0 THEN 0 ELSE f[i - 1] + s[i]
      OBVIOUS
    <3>3. QED BY <2>4, <2>5, <3>1, <3>2
  <2>6. CASE n # 0
    <3>1. n - 1 \in 0..Len(s) /\ n - 1 \notin Bad /\ n \in 1..Len(s)
      <4>1. n \in Nat /\ n <= Len(s)
        BY <2>4
      <4>2. n - 1 \notin Bad
        <5> HIDE DEF Bad
        <5> QED BY <2>3, <4>1
      <4> HIDE DEF Bad
      <4>3. QED BY <1>0, <2>6, <4>1, <4>2
    <3>2. Good(n - 1)
      <4> HIDE DEF Good
      <4> QED BY <3>1
    <3>3. PICK g \in [0..(n - 1) -> Nat] :
            \A i \in 0..(n - 1) : g[i] = IF i = 0 THEN 0 ELSE g[i - 1] + s[i]
      BY <3>2
    <3> DEFINE f == [i \in 0..n |-> IF i = n THEN g[n - 1] + s[n] ELSE g[i]]
    <3>4. f \in [0..n -> Nat]
      <4>1. g[n - 1] + s[n] \in Nat
        BY <1>0, <2>4, <3>1
      <4>2. \A i \in 0..n : i # n => g[i] \in Nat
        BY <2>4
      <4>3. QED BY <4>1, <4>2
    <3>5. ASSUME NEW i \in 0..n
          PROVE  f[i] = IF i = 0 THEN 0 ELSE f[i - 1] + s[i]
      <4>1. CASE i = n
        <5>1. i # 0 /\ i - 1 \in 0..n /\ i - 1 # n
          BY <2>4, <2>6, <4>1
        <5>2. f[i] = g[i - 1] + s[i] /\ f[i - 1] = g[i - 1]
          BY <4>1, <5>1
        <5>3. QED BY <5>1, <5>2
      <4>2. CASE i # n /\ i # 0
        <5>1. i - 1 \in 0..n /\ i - 1 # n /\ i \in 0..(n - 1)
          BY <2>4, <4>2
        <5>2. f[i] = g[i] /\ f[i - 1] = g[i - 1]
          BY <4>2, <5>1
        <5>3. QED BY <3>3, <4>2, <5>1, <5>2
      <4>3. CASE i # n /\ i = 0
        <5>1. i \in 0..(n - 1)
          BY <2>4, <4>3
        <5>2. QED BY <3>3, <4>3, <5>1
      <4>4. QED BY <4>1, <4>2, <4>3
    <3> HIDE DEF f
    <3>6. Good(n)
      BY <3>4, <3>5
    <3>7. QED BY <2>4, <3>6
  <2>7. QED BY <2>5, <2>6
<1>2. Good(Len(s))
  <2> HIDE DEF Good
  <2> QED BY <1>0, <1>1
<1>3. PICK f \in [0..Len(s) -> Nat] :
        \A i \in 0..Len(s) : f[i] = IF i = 0 THEN 0 ELSE f[i - 1] + s[i]
  BY <1>2
<1>4. Sums(s, f)
  BY <1>3 DEF Sums
<1>5. QED BY <1>4

(* The sum of the lengths in a chain is the last of the partial sums. *)
LEMMA TotalIs ==
    ASSUME NEW s \in Seq(Nat), NEW f, Sums(s, f)
    PROVE  Total(s) = f[Len(s)]
<1> DEFINE g == CHOOSE h : Sums(s, h)
<1>1. Sums(s, g)
  <2>1. \E h : Sums(s, h)
    OBVIOUS
  <2>2. QED BY <2>1, Zenon
<1>2. Total(s) = g[Len(s)]
  BY Zenon DEF Total, Sums
<1> HIDE DEF g
<1>3. Len(s) \in Nat
  OBVIOUS
<1>4. \A i \in 0..Len(s) : f[i] = g[i]
  BY <1>1, <1>3, SumsAgree
<1>5. QED BY <1>2, <1>3, <1>4

(* The sum is a natural number, and nothing for an empty chain. *)
LEMMA TotalNat ==
    ASSUME NEW s \in Seq(Nat)
    PROVE  Total(s) \in Nat /\ (s = <<>> => Total(s) = 0)
<1>1. PICK f \in [0..Len(s) -> Nat] : Sums(s, f)
  BY SumsExist
<1>2. Total(s) = f[Len(s)] /\ Len(s) \in Nat
  BY <1>1, TotalIs
<1>3. f[0] = 0
  BY <1>1, <1>2 DEF Sums
<1>4. QED BY <1>2, <1>3

(* A length more at the end. *)
LEMMA TotalAppend ==
    ASSUME NEW s \in Seq(Nat), NEW x \in Nat
    PROVE  Total(Append(s, x)) = Total(s) + x
<1> DEFINE t == Append(s, x)
<1>1. PICK f \in [0..Len(s) -> Nat] : Sums(s, f)
  BY SumsExist
<1>2. /\ t \in Seq(Nat) /\ Len(s) \in Nat /\ Len(t) = Len(s) + 1
      /\ t[Len(s) + 1] = x /\ \A i \in 1..Len(s) : t[i] = s[i]
  OBVIOUS
<1> HIDE DEF t
<1> DEFINE g == [i \in 0..Len(t) |-> IF i <= Len(s) THEN f[i] ELSE f[Len(s)] + x]
<1>3. \A i \in 0..Len(s) : f[i] = IF i = 0 THEN 0 ELSE f[i - 1] + s[i]
  BY <1>1 DEF Sums
<1>4. ASSUME NEW i \in 0..Len(t)
      PROVE  g[i] = IF i = 0 THEN 0 ELSE g[i - 1] + t[i]
  <2>1. CASE i = 0
    BY <1>2, <1>3, <2>1
  <2>2. CASE i # 0 /\ i <= Len(s)
    <3>1. i - 1 \in 0..Len(t) /\ i - 1 <= Len(s) /\ i \in 1..Len(s) /\ i \in 0..Len(s)
      BY <1>2, <2>2
    <3>2. g[i] = f[i] /\ g[i - 1] = f[i - 1] /\ t[i] = s[i]
      BY <1>2, <2>2, <3>1
    <3>3. QED BY <1>3, <2>2, <3>1, <3>2
  <2>3. CASE i # 0 /\ ~(i <= Len(s))
    <3>1. i = Len(s) + 1 /\ i - 1 = Len(s) /\ Len(s) \in 0..Len(t)
      BY <1>2, <2>3
    <3>2. g[i] = f[Len(s)] + x /\ g[Len(s)] = f[Len(s)] /\ t[i] = x
      BY <1>2, <2>3, <3>1
    <3>3. QED BY <2>3, <3>1, <3>2
  <2>4. QED BY <2>1, <2>2, <2>3
<1>5. Sums(t, g)
  BY <1>4 DEF Sums
<1>6. g[Len(t)] = f[Len(s)] + x
  BY <1>2
<1> HIDE DEF g
<1>7. Total(s) = f[Len(s)] /\ Total(t) = g[Len(t)]
  BY <1>1, <1>2, <1>5, TotalIs
<1>8. QED BY <1>6, <1>7 DEF t

(* A length less at the front. *)
LEMMA TotalTail ==
    ASSUME NEW s \in Seq(Nat), s # <<>>
    PROVE  Total(s) = Head(s) + Total(Tail(s))
<1> DEFINE t == Tail(s)
<1>1. /\ t \in Seq(Nat) /\ Len(t) \in Nat /\ Len(s) = Len(t) + 1
      /\ Head(s) = s[1] /\ s[1] \in Nat /\ \A i \in 1..Len(t) : t[i] = s[i + 1]
  OBVIOUS
<1> HIDE DEF t
<1>2. PICK f \in [0..Len(t) -> Nat] : Sums(t, f)
  BY <1>1, SumsExist
<1> DEFINE g == [i \in 0..Len(s) |-> IF i = 0 THEN 0 ELSE s[1] + f[i - 1]]
<1>3. \A i \in 0..Len(t) : f[i] = IF i = 0 THEN 0 ELSE f[i - 1] + t[i]
  BY <1>2 DEF Sums
<1>4. ASSUME NEW i \in 0..Len(s)
      PROVE  g[i] = IF i = 0 THEN 0 ELSE g[i - 1] + s[i]
  <2>1. CASE i = 0
    BY <2>1
  <2>2. CASE i = 1
    <3>1. f[0] = 0 /\ g[0] = 0 /\ g[1] = s[1] + f[0]
      BY <1>1, <1>3
    <3>2. QED BY <1>1, <2>2, <3>1
  <2>3. CASE i # 0 /\ i # 1
    <3>1. PICK j \in 1..Len(t) : i = j + 1
      <4>1. i - 1 \in 1..Len(t) /\ i = (i - 1) + 1
        BY <1>1, <2>3
      <4>2. QED BY <4>1
    <3>2. j \in 0..Len(t) /\ j - 1 \in 0..Len(t) /\ j \in 0..Len(s) /\ j # 0
          /\ i - 1 = j /\ i # 0
      BY <1>1, <3>1
    <3>3. g[i] = s[1] + f[j] /\ g[j] = s[1] + f[j - 1] /\ f[j] = f[j - 1] + t[j]
      BY <1>3, <3>2
    <3>4. t[j] = s[i] /\ t[j] \in Nat /\ f[j - 1] \in Nat
      <4>1. t[j] = s[j + 1]
        BY <1>1
      <4>2. t[j] \in Nat
        BY <1>1
      <4>3. f[j - 1] \in Nat
        BY <1>2, <3>2
      <4>4. QED BY <3>1, <4>1, <4>2, <4>3
    <3>5. QED BY <1>1, <3>2, <3>3, <3>4
  <2>4. QED BY <2>1, <2>2, <2>3
<1>5. Sums(s, g)
  BY <1>4 DEF Sums
<1>6. g[Len(s)] = s[1] + f[Len(t)]
  BY <1>1
<1> HIDE DEF g
<1>7. Total(s) = g[Len(s)] /\ Total(t) = f[Len(t)]
  BY <1>1, <1>2, <1>5, TotalIs
<1>8. QED BY <1>1, <1>6, <1>7 DEF t

-----------------------------------------------------------------------------
(* The inductive invariant of pbufs and types, beside EthIInv. *)

(* The rest of the processor's state, and lwIP's share of it. *)
RestType ==
    /\ rflag \in BOOLEAN /\ lock \in BOOLEAN /\ starved \in BOOLEAN
    /\ irq \in {"none", "cb"}
    /\ rpc \in {"wait", "get", "alloc", "copy", "release", "input"}
    /\ mbox \in Seq(Seq(Cell)) /\ inp \in Seq(Cell) /\ pool \in Nat

(* The copy loops fill the chain that was allocated, no more and no less. *)
CopyCount == rpc = "copy" => Len(hand) + copy.left + copy.rest = length

(* The transmit side: what is left of the chain is what is left of the     *)
(* frame, so a copy stays in its buffer and a descriptor's size too.       *)
SendType ==
    /\ TxDesc \in TxRing /\ txdma \in TxRing
    /\ txd \in [TxRing -> [own : BOOLEAN, size : 0..BufCells,
                           buf : [1..BufCells -> Cell]]]
    /\ out \in [Senders ->
                  [pc : {"idle", "check", "copy", "lock", "own", "give", "next",
                         "unlock"},
                   chain : Seq(Nat), cells : Seq(Cell), len : Nat, desc : TxRing]]
    /\ txcount \in Nat
    /\ reported \in Seq(Seq(Cell)) /\ wire \in Seq(Seq(Cell))
Fits(o) ==
    /\ o.len + Total(o.chain) = Len(o.cells) /\ Len(o.cells) <= BufCells
    /\ o.pc \in {"check", "copy"} => o.chain # <<>>
SendFits == \A s \in Senders : Fits(out[s])

PbufInv == RestType /\ CopyCount /\ NoPbufLeak
SendInv == SendType /\ SendFits

(* One thread sends: the configuration in which frames are not lost. *)
OneSender == \A s, t \in Senders : s = t

GoesOut(cells) == (\E j \in 1..Len(wire) : wire[j] = cells) \/ Queued(cells)

(* A sender from its first check to the OWN bit: the descriptor it filled  *)
(* is the one the HAL gives away, nobody else has the handle or the        *)
(* descriptor, and the buffer holds what was copied; after the OWN bit the *)
(* frame is on its way.                                                    *)
Sending(o) ==
    /\ o.pc \in {"check", "copy", "lock", "own", "give"} =>
          /\ o.desc = TxDesc
          /\ \A k \in 1..o.len : txd[o.desc].buf[k] = o.cells[k]
    /\ o.pc \in {"copy", "lock", "own", "give"} => ~txd[o.desc].own
    /\ o.pc \in {"lock", "own", "give"} => o.chain = <<>>
    /\ o.pc \in {"next", "unlock"} => GoesOut(o.cells)
    /\ lock => o.pc \in {"own", "give", "next", "unlock"}
SentInv ==
    /\ \A s \in Senders : Sending(out[s])
    /\ \A i \in 1..Len(reported) : GoesOut(reported[i])

-----------------------------------------------------------------------------
(* How many pbufs a chain takes. *)
LEMMA PbufsNat ==
    ASSUME NEW n \in Nat
    PROVE  Pbufs(n) \in Nat /\ Pbufs(0) = 0
<1>1. PbufCells \in Nat \ {0} /\ PbufCells >= 1
  BY EthernetAssumption
<1>2. ASSUME NEW a \in Nat
      PROVE  a \div PbufCells \in Nat /\ (a < PbufCells => a \div PbufCells = 0)
  <2> DEFINE q == a \div PbufCells
             r == a % PbufCells
  <2>1. q \in Int /\ r \in Int /\ 0 <= r /\ r < PbufCells /\ a = PbufCells * q + r
    BY <1>1
  <2> HIDE DEF q, r
  <2>2. q >= 0
    BY <1>1, <2>1
  <2>3. a < PbufCells => q < 1
    BY <1>1, <2>1, <2>2
  <2>4. QED BY <2>1, <2>2, <2>3 DEF q
<1>3. n + PbufCells - 1 \in Nat /\ 0 + PbufCells - 1 \in Nat /\ 0 + PbufCells - 1 < PbufCells
  BY <1>1
<1>4. QED BY <1>2, <1>3 DEF Pbufs

(* The pbufs of the chains in a mailbox. *)
InBox(box) == Total([i \in 1..Len(box) |-> Pbufs(Len(box[i]))])

LEMMA InBoxNat ==
    ASSUME NEW box \in Seq(Seq(Cell))
    PROVE  /\ InBox(box) \in Nat
           /\ box = <<>> => InBox(box) = 0
           /\ \A p \in Seq(Cell) : InBox(Append(box, p)) = InBox(box) + Pbufs(Len(p))
           /\ box # <<>> => InBox(box) = Pbufs(Len(Head(box))) + InBox(Tail(box))
<1> DEFINE lens(b) == [i \in 1..Len(b) |-> Pbufs(Len(b[i]))]
<1>1. ASSUME NEW b \in Seq(Seq(Cell))
      PROVE  lens(b) \in Seq(Nat) /\ Len(lens(b)) = Len(b)
  <2>1. ASSUME NEW i \in 1..Len(b) PROVE Pbufs(Len(b[i])) \in Nat
    <3>1. Len(b[i]) \in Nat
      OBVIOUS
    <3>2. QED BY <3>1, PbufsNat
  <2>2. QED BY <2>1
<1>2. InBox(box) \in Nat /\ (box = <<>> => InBox(box) = 0)
  <2>1. lens(box) \in Seq(Nat) /\ (box = <<>> => lens(box) = <<>>)
    BY <1>1
  <2> HIDE DEF lens
  <2>2. Total(lens(box)) \in Nat /\ (lens(box) = <<>> => Total(lens(box)) = 0)
    BY <2>1, TotalNat
  <2>3. QED BY <2>1, <2>2 DEF InBox, lens
<1>3. ASSUME NEW p \in Seq(Cell)
      PROVE  InBox(Append(box, p)) = InBox(box) + Pbufs(Len(p))
  <2>1. Pbufs(Len(p)) \in Nat
    BY PbufsNat
  <2>2. lens(Append(box, p)) = Append(lens(box), Pbufs(Len(p)))
    <3> DEFINE new == Append(box, p)
    <3>1. /\ new \in Seq(Seq(Cell)) /\ Len(new) = Len(box) + 1 /\ Len(box) \in Nat
          /\ new[Len(box) + 1] = p /\ \A i \in 1..Len(box) : new[i] = box[i]
      OBVIOUS
    <3> HIDE DEF new
    <3>2. lens(new) \in Seq(Nat) /\ Len(lens(new)) = Len(box) + 1
      BY <1>1, <3>1
    <3>3. lens(box) \in Seq(Nat) /\ Len(lens(box)) = Len(box)
      BY <1>1
    <3>4. /\ Append(lens(box), Pbufs(Len(p))) \in Seq(Nat)
          /\ Len(Append(lens(box), Pbufs(Len(p)))) = Len(box) + 1
      <4> HIDE DEF lens
      <4> QED BY <2>1, <3>3
    <3>5. ASSUME NEW i \in 1..(Len(box) + 1)
          PROVE  lens(new)[i] = Append(lens(box), Pbufs(Len(p)))[i]
      <4>1. CASE i = Len(box) + 1
        <5>1. lens(new)[i] = Pbufs(Len(p))
          BY <3>1, <4>1
        <5>2. Append(lens(box), Pbufs(Len(p)))[i] = Pbufs(Len(p))
          <6> HIDE DEF lens
          <6> QED BY <2>1, <3>3, <4>1
        <5>3. QED BY <5>1, <5>2
      <4>2. CASE i # Len(box) + 1
        <5>1. i \in 1..Len(box) /\ i \in 1..Len(new)
          BY <3>1, <4>2
        <5>2. lens(new)[i] = Pbufs(Len(box[i])) /\ lens(box)[i] = Pbufs(Len(box[i]))
          BY <3>1, <5>1
        <5>3. Append(lens(box), Pbufs(Len(p)))[i] = lens(box)[i]
          <6> HIDE DEF lens
          <6> QED BY <2>1, <3>3, <5>1
        <5>4. QED BY <5>2, <5>3
      <4>3. QED BY <4>1, <4>2
    <3>6. QED
      <4> HIDE DEF lens
      <4> QED BY <3>2, <3>4, <3>5, SeqEqual DEF new
  <2>3. lens(box) \in Seq(Nat)
    BY <1>1
  <2> HIDE DEF lens
  <2>4. Total(lens(Append(box, p))) = Total(lens(box)) + Pbufs(Len(p))
    BY <2>1, <2>2, <2>3, TotalAppend
  <2>5. QED BY <2>4 DEF InBox, lens
<1>4. ASSUME box # <<>>
      PROVE  InBox(box) = Pbufs(Len(Head(box))) + InBox(Tail(box))
  <2>1. /\ Tail(box) \in Seq(Seq(Cell)) /\ Len(box) = Len(Tail(box)) + 1
        /\ Len(Tail(box)) \in Nat /\ Head(box) = box[1]
        /\ \A i \in 1..Len(Tail(box)) : Tail(box)[i] = box[i + 1]
    BY <1>4
  <2>2. /\ lens(box) \in Seq(Nat) /\ Len(lens(box)) = Len(Tail(box)) + 1
        /\ lens(Tail(box)) \in Seq(Nat) /\ Len(lens(Tail(box))) = Len(Tail(box))
    BY <1>1, <2>1
  <2>3. lens(box) # <<>> /\ Head(lens(box)) = Pbufs(Len(Head(box)))
    <3>1. lens(box)[1] = Pbufs(Len(box[1]))
      BY <2>1
    <3> HIDE DEF lens
    <3>2. QED BY <2>1, <2>2, <3>1
  <2>4. Tail(lens(box)) = lens(Tail(box))
    <3>1. ASSUME NEW i \in 1..Len(Tail(box)) PROVE lens(Tail(box))[i] = lens(box)[i + 1]
      <4>1. i + 1 \in 1..Len(box)
        BY <2>1
      <4>2. lens(box)[i + 1] = Pbufs(Len(box[i + 1]))
        BY <4>1
      <4>3. lens(Tail(box))[i] = Pbufs(Len(Tail(box)[i]))
        OBVIOUS
      <4>4. QED BY <2>1, <4>2, <4>3
    <3> HIDE DEF lens
    <3>2. /\ Tail(lens(box)) \in Seq(Nat) /\ Len(Tail(lens(box))) = Len(Tail(box))
          /\ \A i \in 1..Len(Tail(box)) : Tail(lens(box))[i] = lens(box)[i + 1]
      BY <2>1, <2>2, <2>3
    <3>3. QED BY <2>2, <3>1, <3>2, SeqEqual
  <2> HIDE DEF lens
  <2>5. Total(lens(box)) = Head(lens(box)) + Total(Tail(lens(box)))
    BY <2>2, <2>3, TotalTail
  <2>6. QED BY <2>3, <2>4, <2>5 DEF InBox, lens
<1>5. QED BY <1>2, <1>3, <1>4

-----------------------------------------------------------------------------
(* The balance of the pool, as the steps see it. *)
LEMMA Balance ==
    /\ NoPbufLeak <=> pool + InHand + Pbufs(Len(inp)) + InBox(mbox) = PoolSize
    /\ (NoPbufLeak)' <=>
          pool' + InHand' + Pbufs(Len(inp')) + InBox(mbox') = PoolSize
BY Zenon DEF NoPbufLeak, InBox

(* The numbers in the balance. *)
LEMMA BalanceTypes ==
    ASSUME EthIInv, RestType
    PROVE  /\ pool \in Nat /\ PoolSize \in Nat /\ InHand \in Nat
           /\ Pbufs(Len(inp)) \in Nat /\ InBox(mbox) \in Nat
           /\ Pbufs(length) \in Nat /\ Pbufs(Len(hand)) \in Nat
           /\ Pbufs(0) = 0 /\ Len(<<>>) = 0
<1>1. Len(inp) \in Nat /\ Len(hand) \in Nat /\ length \in Nat /\ PoolSize \in Nat
  BY EthernetAssumption DEF EthIInv, RxType, RestType
<1>2. Pbufs(Len(inp)) \in Nat /\ Pbufs(Len(hand)) \in Nat /\ Pbufs(length) \in Nat
      /\ Pbufs(0) = 0
  BY <1>1, PbufsNat
<1>3. InBox(mbox) \in Nat
  BY InBoxNat DEF RestType
<1>4. QED BY <1>1, <1>2, <1>3 DEF RestType, InHand

(* At the start every pbuf is in the pool. *)
LEMMA PbufInit == Init => PbufInv
<1> SUFFICES ASSUME Init PROVE PbufInv
  OBVIOUS
<1>1. <<>> \in Seq(Seq(Cell)) /\ <<>> \in Seq(Cell) /\ PoolSize \in Nat
  BY EthernetAssumption
<1>2. RestType /\ CopyCount
  BY <1>1 DEF Init, RestType, CopyCount
<1>3. InBox(mbox) = 0 /\ Pbufs(Len(inp)) = 0 /\ InHand = 0 /\ pool = PoolSize
  <2>1. Pbufs(0) = 0 /\ Len(<<>>) = 0
    BY PbufsNat
  <2>2. InBox(mbox) = 0
    BY <1>1, InBoxNat DEF Init
  <2>3. QED BY <2>1, <2>2 DEF Init, InHand
<1>4. QED BY <1>1, <1>2, <1>3, Balance DEF PbufInv

(* Steps of the wire, the DMA, the interrupt and the senders: no pbuf      *)
(* moves.                                                                  *)
LEMMA NoPbufMoves ==
    ASSUME PbufInv, UNCHANGED <<thread, lwip>>,
           rflag' \in BOOLEAN, lock' \in BOOLEAN, irq' \in {"none", "cb"}
    PROVE  PbufInv'
<1>1. RestType' /\ CopyCount'
  BY DEF PbufInv, RestType, CopyCount, thread, lwip
<1>2. NoPbufLeak'
  BY DEF PbufInv, NoPbufLeak, InHand, thread, lwip
<1>3. QED BY <1>1, <1>2 DEF PbufInv

(* The receive thread, up to the allocation. *)
LEMMA ScanPbufs ==
    ASSUME PbufInv, SemaphoreAcquire \/ GetReceivedFrame
    PROVE  PbufInv'
<1>1. /\ rpc \in {"wait", "get"} /\ rpc' \in {"get", "wait", "alloc"}
      /\ starved' \in BOOLEAN /\ UNCHANGED <<rflag, lock, irq, mbox, inp, pool>>
  BY DEF SemaphoreAcquire, GetReceivedFrame, PbufInv, RestType, lwip
<1>2. RestType' /\ CopyCount'
  BY <1>1 DEF PbufInv, RestType, CopyCount
<1>3. InHand = 0 /\ InHand' = 0
  BY <1>1 DEF InHand
<1>4. NoPbufLeak'
  BY <1>1, <1>3, Balance DEF PbufInv
<1>5. QED BY <1>2, <1>4 DEF PbufInv

(* The allocation takes what the frame needs, or nothing. *)
LEMMA AllocPbufsPbufs ==
    ASSUME EthIInv, PbufInv, AllocPbufs
    PROVE  PbufInv'
<1>1. /\ rpc = "alloc" /\ hand' = <<>> /\ Len(hand') = 0
      /\ UNCHANGED <<rflag, lock, irq, mbox, inp, length>>
  BY DEF AllocPbufs
<1>2. InHand = 0
  BY <1>1 DEF InHand
<1>3. CASE Pbufs(length) <= pool
  <2>1. /\ pool' = pool - Pbufs(length) /\ rpc' = "copy" /\ starved' = starved
        /\ copy'.left = PbufLen(length) /\ copy'.rest = length - PbufLen(length)
    BY <1>3 DEF AllocPbufs
  <2>2. pool' \in Nat
    BY <1>3, <2>1, BalanceTypes DEF PbufInv
  <2>3. RestType'
    BY <1>1, <2>1, <2>2 DEF PbufInv, RestType
  <2>4. PbufLen(length) \in Nat /\ length \in Nat
    BY EthernetAssumption DEF PbufLen, EthIInv, RxType
  <2>5. CopyCount'
    BY <1>1, <2>1, <2>4 DEF CopyCount
  <2>6. InHand' = Pbufs(length)
    BY <1>1, <2>1 DEF InHand
  <2>7. NoPbufLeak'
    <3>1. pool + InHand + Pbufs(Len(inp)) + InBox(mbox) = PoolSize
      BY Balance DEF PbufInv
    <3>2. pool' + InHand' + Pbufs(Len(inp')) + InBox(mbox') = PoolSize
      BY <1>1, <1>2, <2>1, <2>6, <3>1, BalanceTypes DEF PbufInv
    <3>3. QED BY <3>2, Balance
  <2>8. QED BY <2>3, <2>5, <2>7 DEF PbufInv
<1>4. CASE ~(Pbufs(length) <= pool)
  <2>1. pool' = pool /\ rpc' = "release" /\ starved' = TRUE
    BY <1>4 DEF AllocPbufs
  <2>2. RestType' /\ CopyCount'
    BY <1>1, <2>1 DEF PbufInv, RestType, CopyCount
  <2>3. InHand' = 0
    BY <1>1, <2>1, BalanceTypes DEF InHand, PbufInv
  <2>4. NoPbufLeak'
    BY <1>1, <1>2, <2>1, <2>3, Balance DEF PbufInv
  <2>5. QED BY <2>2, <2>4 DEF PbufInv
<1>5. QED BY <1>3, <1>4

(* How long the piece of a buffer is that is copied. *)
LEMMA PieceLen ==
    ASSUME NEW b \in [1..BufCells -> Cell], NEW h \in Seq(Cell),
           NEW i \in Nat, NEW j \in 0..BufCells, i <= j
    PROVE  /\ Len(h \o SubSeq(b, i + 1, j)) = Len(h) + (j - i)
           /\ Len(h) \in Nat
<1>1. BufCells \in Nat
  BY EthernetAssumption
<1>2. b \in Seq(Cell) /\ Len(b) = BufCells
  BY <1>1
<1>3. SubSeq(b, i + 1, j) \in Seq(Cell) /\ Len(SubSeq(b, i + 1, j)) = j - i
  BY <1>1, <1>2
<1>4. QED BY <1>3

(* The copy loops: no pbuf moves, and the chain grows by what was left. *)
LEMMA CopyPbufs ==
    ASSUME EthIInv, PbufInv, CopyBuffer \/ CopyRest
    PROVE  PbufInv'
<1>1. /\ rpc = "copy"
      /\ UNCHANGED <<rflag, lock, irq, mbox, inp, pool, length, starved>>
  BY DEF CopyBuffer, CopyRest, lwip
<1>2. BufCells \in Nat /\ PbufCells \in Nat /\ BufCells >= 1 /\ PbufCells >= 1
  BY EthernetAssumption
<1>3. PICK d \in RxRing, off \in 0..BufCells, left \in Nat, rest \in Nat,
           h \in Seq(Cell), b \in [1..BufCells -> Cell] :
        /\ copy = [desc |-> d, off |-> off, left |-> left, rest |-> rest]
        /\ hand = h /\ rxd[copy.desc].buf = b
  <2>1. /\ copy \in [desc : RxRing, off : 0..BufCells, left : Nat, rest : Nat]
        /\ hand \in Seq(Cell)
    BY DEF EthIInv, RxType
  <2>2. rxd[copy.desc].buf \in [1..BufCells -> Cell]
    BY <2>1 DEF EthIInv, RxType
  <2>3. copy = [desc |-> copy.desc, off |-> copy.off, left |-> copy.left,
                rest |-> copy.rest]
    BY <2>1
  <2>4. /\ copy.desc \in RxRing /\ copy.off \in 0..BufCells /\ copy.left \in Nat
        /\ copy.rest \in Nat
    BY <2>1
  <2>5. QED BY <2>1, <2>2, <2>3, <2>4
<1>4. Len(h) \in Nat /\ length \in Nat /\ Len(h) + left + rest = length
  BY <1>1, <1>3 DEF PbufInv, CopyCount, EthIInv, RxType
<1>5. InHand = Pbufs(length)
  BY <1>1 DEF InHand
<1>6. CASE CopyBuffer
  <2>1. left + off > BufCells /\ rpc' = "copy"
        /\ hand' = h \o SubSeq(b, off + 1, BufCells)
        /\ copy'.left = left - (BufCells - off) /\ copy'.rest = rest
    BY <1>1, <1>3, <1>6 DEF CopyBuffer
  <2>2. Len(hand') = Len(h) + (BufCells - off)
    <3>1. off \in Nat /\ BufCells \in 0..BufCells /\ off <= BufCells
      BY <1>2
    <3>2. QED BY <2>1, <3>1, PieceLen
  <2>3. RestType'
    BY <1>1, <2>1 DEF PbufInv, RestType
  <2>4. CopyCount'
    <3>1. off \in Int /\ left \in Int /\ rest \in Int /\ BufCells \in Int
      BY <1>2
    <3>2. Len(h) + (BufCells - off) + (left - (BufCells - off)) + rest = length
      BY <1>4, <3>1
    <3>3. length' = length
      BY <1>1
    <3>4. QED BY <2>1, <2>2, <3>2, <3>3 DEF CopyCount
  <2>5. InHand' = Pbufs(length)
    BY <1>1, <2>1 DEF InHand
  <2>6. NoPbufLeak'
    BY <1>1, <1>5, <2>5, Balance DEF PbufInv
  <2>7. QED BY <2>3, <2>4, <2>6 DEF PbufInv
<1>7. CASE CopyRest
  <2>1. /\ left + off <= BufCells
        /\ hand' = h \o SubSeq(b, off + 1, off + left)
        /\ copy'.left = PbufLen(rest) /\ copy'.rest = rest - PbufLen(rest)
        /\ rpc' = IF rest = 0 THEN "release" ELSE "copy"
    BY <1>1, <1>3, <1>7 DEF CopyRest
  <2>2. Len(hand') = Len(h) + left
    <3>1. off \in Nat /\ off + left \in 0..BufCells /\ off <= off + left
          /\ off + left - off = left
      BY <1>2, <2>1
    <3>2. QED BY <2>1, <3>1, PieceLen
  <2>3. RestType'
    BY <1>1, <2>1 DEF PbufInv, RestType
  <2>4. PbufLen(rest) \in Nat /\ PbufLen(rest) + (rest - PbufLen(rest)) = rest
    BY <1>2 DEF PbufLen
  <2>5. CopyCount'
    BY <1>1, <1>4, <2>1, <2>2, <2>4 DEF CopyCount
  <2>6. InHand' = Pbufs(length)
    BY <1>1, <1>4, <2>1, <2>2 DEF InHand
  <2>7. NoPbufLeak'
    BY <1>1, <1>5, <2>6, Balance DEF PbufInv
  <2>8. QED BY <2>3, <2>5, <2>7 DEF PbufInv
<1>8. QED BY <1>6, <1>7

(* Descriptors are released and low_level_input returns. *)
LEMMA ReleasePbufs ==
    ASSUME EthIInv, PbufInv, ReleaseDesc \/ InputReturns
    PROVE  PbufInv'
<1>1. /\ rpc = "release" /\ rpc' \in {"release", "wait", "input"}
      /\ rpc' = "wait" => hand = <<>>
      /\ UNCHANGED <<rflag, lock, irq, mbox, inp, pool, hand, starved>>
  BY DEF ReleaseDesc, InputReturns, lwip
<1>2. RestType' /\ CopyCount'
  BY <1>1 DEF PbufInv, RestType, CopyCount
<1>3. InHand' = InHand
  BY <1>1, BalanceTypes DEF InHand, PbufInv
<1>4. NoPbufLeak'
  BY <1>1, <1>3, Balance DEF PbufInv
<1>5. QED BY <1>2, <1>4 DEF PbufInv

(* The chain goes into the mailbox, or back into the pool. *)
LEMMA NetifInputPbufs ==
    ASSUME EthIInv, PbufInv, NetifInput
    PROVE  PbufInv'
<1>1. /\ rpc = "input" /\ rpc' = "get"
      /\ UNCHANGED <<rflag, lock, irq, inp, starved>>
      /\ \/ mbox' = Append(mbox, hand) /\ pool' = pool
         \/ mbox' = mbox /\ pool' = pool + Pbufs(Len(hand))
  BY DEF NetifInput
<1>2. mbox \in Seq(Seq(Cell)) /\ hand \in Seq(Cell)
  BY DEF PbufInv, RestType, EthIInv, RxType
<1>3. InHand = Pbufs(Len(hand)) /\ InHand' = 0
  BY <1>1 DEF InHand
<1>4. InBox(Append(mbox, hand)) = InBox(mbox) + Pbufs(Len(hand))
  BY <1>2, InBoxNat
<1>5. mbox' \in Seq(Seq(Cell)) /\ pool' \in Nat
  <2>1. Append(mbox, hand) \in Seq(Seq(Cell)) /\ pool \in Nat /\ Pbufs(Len(hand)) \in Nat
    BY <1>2, BalanceTypes DEF PbufInv
  <2>2. CASE mbox' = Append(mbox, hand) /\ pool' = pool
    BY <2>1, <2>2
  <2>3. CASE mbox' = mbox /\ pool' = pool + Pbufs(Len(hand))
    BY <1>2, <2>1, <2>3
  <2>4. QED BY <1>1, <2>2, <2>3
<1>6. RestType' /\ CopyCount'
  BY <1>1, <1>5 DEF PbufInv, RestType, CopyCount
<1>7. NoPbufLeak'
  <2>1. pool + InHand + Pbufs(Len(inp)) + InBox(mbox) = PoolSize
    BY Balance DEF PbufInv
  <2>2. /\ pool \in Nat /\ Pbufs(Len(hand)) \in Nat /\ InBox(mbox) \in Nat
        /\ Pbufs(Len(inp)) \in Nat
    BY BalanceTypes DEF PbufInv
  <2>3. CASE mbox' = Append(mbox, hand) /\ pool' = pool
    BY <1>1, <1>3, <1>4, <2>1, <2>2, <2>3, Balance
  <2>4. CASE mbox' = mbox /\ pool' = pool + Pbufs(Len(hand))
    BY <1>1, <1>3, <2>1, <2>2, <2>4, Balance
  <2>5. QED BY <1>1, <2>3, <2>4
<1>8. QED BY <1>6, <1>7 DEF PbufInv

(* The tcpip thread takes a chain from the mailbox, and frees it. *)
LEMMA TcpipPbufs ==
    ASSUME EthIInv, PbufInv, Tcpip
    PROVE  PbufInv'
<1>1. UNCHANGED <<rflag, lock, irq, rpc, length, copy, hand, starved>>
  BY DEF Tcpip, MboxFetch, PacketDone, thread
<1>2. InHand' = InHand /\ CopyCount'
  BY <1>1 DEF InHand, CopyCount, PbufInv
<1>3. pool + InHand + Pbufs(Len(inp)) + InBox(mbox) = PoolSize
  BY Balance DEF PbufInv
<1>4. CASE MboxFetch
  <2>1. inp = <<>> /\ mbox # <<>> /\ inp' = Head(mbox) /\ mbox' = Tail(mbox) /\ pool' = pool
    BY <1>4 DEF MboxFetch
  <2>2. mbox \in Seq(Seq(Cell)) /\ mbox' \in Seq(Seq(Cell)) /\ inp' \in Seq(Cell)
    BY <2>1 DEF PbufInv, RestType
  <2>3. InBox(mbox) = Pbufs(Len(inp')) + InBox(mbox')
    BY <2>1, <2>2, InBoxNat
  <2>4. RestType'
    BY <1>1, <2>1, <2>2 DEF PbufInv, RestType
  <2>5. Pbufs(Len(inp')) \in Nat /\ InBox(mbox') \in Nat
    BY <2>2, PbufsNat, InBoxNat
  <2>6. pool' + InHand' + Pbufs(Len(inp')) + InBox(mbox') = PoolSize
    BY <1>2, <1>3, <2>1, <2>3, <2>5, BalanceTypes DEF PbufInv
  <2>7. QED BY <1>2, <2>4, <2>6, Balance DEF PbufInv
<1>5. CASE PacketDone
  <2>1. inp' = <<>> /\ pool' = pool + Pbufs(Len(inp)) /\ mbox' = mbox
    BY <1>5 DEF PacketDone
  <2>2. inp' \in Seq(Cell) /\ pool' \in Nat
    BY <2>1, BalanceTypes DEF PbufInv
  <2>3. RestType'
    BY <1>1, <2>1, <2>2 DEF PbufInv, RestType
  <2>4. pool' + InHand' + Pbufs(Len(inp')) + InBox(mbox') = PoolSize
    BY <1>2, <1>3, <2>1, BalanceTypes DEF PbufInv
  <2>5. QED BY <1>2, <2>3, <2>4, Balance DEF PbufInv
<1>6. QED BY <1>4, <1>5 DEF Tcpip

-----------------------------------------------------------------------------
(* The transmit side.                                                      *)

Outputs == [pc : {"idle", "check", "copy", "lock", "own", "give", "next", "unlock"},
            chain : Seq(Nat), cells : Seq(Cell), len : Nat, desc : TxRing]
TxDescs == [own : BOOLEAN, size : 0..BufCells, buf : [1..BufCells -> Cell]]

(* The transmit ring is closed under NextTx. *)
LEMMA NextTxInRing ==
    ASSUME NEW d \in TxRing
    PROVE  NextTx(d) \in TxRing /\ 0 \in TxRing
<1>1. TxN \in Nat \ {0} /\ d \in Nat
  BY EthernetAssumption DEF TxRing
<1> DEFINE a == d + 1
<1>2. a \in Nat
  BY <1>1
<1> HIDE DEF a
<1>3. a % TxN \in 0..(TxN - 1)
  BY <1>1, <1>2
<1>4. QED BY <1>1, <1>3 DEF a, NextTx, TxRing

(* A sender at rest fits. *)
LEMMA IdleFits == Idle \in Outputs /\ Fits(Idle)
<1>1. 0 \in TxRing /\ BufCells \in Nat
  BY EthernetAssumption DEF TxRing
<1>2. <<>> \in Seq(Nat) /\ <<>> \in Seq(Cell) /\ Len(<<>>) = 0
  OBVIOUS
<1>3. Total(<<>>) = 0
  BY <1>2, TotalNat
<1>4. Idle \in Outputs
  BY <1>1, <1>2 DEF Idle, Outputs
<1>5. QED BY <1>1, <1>2, <1>3, <1>4 DEF Idle, Fits

(* At the start nothing is sent. *)
LEMMA SendInit == Init => SendInv
<1> SUFFICES ASSUME Init PROVE SendInv
  OBVIOUS
<1>1. 0 \in TxRing /\ BufCells \in Nat /\ 0 \in 0..BufCells
  BY EthernetAssumption DEF TxRing
<1>2. Pad(<<>>) \in [1..BufCells -> Cell]
  BY <1>1 DEF Pad, Stale, Cell
<1>3. txd \in [TxRing -> TxDescs]
  BY <1>1, <1>2 DEF Init, TxDescs
<1>4. out \in [Senders -> Outputs] /\ \A s \in Senders : Fits(out[s])
  BY IdleFits DEF Init
<1>5. <<>> \in Seq(Seq(Cell)) /\ 0 \in Nat
  OBVIOUS
<1>6. SendType
  BY <1>1, <1>3, <1>4, <1>5 DEF Init, SendType, TxDescs, Outputs
<1>7. QED BY <1>4, <1>6 DEF SendInv, SendFits

(* A step of one sender, with what it leaves for the others. *)
LEMMA SenderKeeps ==
    ASSUME SendInv, NEW s \in Senders, NEW o \in Outputs, Fits(o),
           out' = [out EXCEPT ![s] = o],
           TxDesc' \in TxRing, txdma' \in TxRing, txd' \in [TxRing -> TxDescs],
           txcount' \in Nat, reported' \in Seq(Seq(Cell)), wire' \in Seq(Seq(Cell))
    PROVE  SendInv'
<1>1. out \in [Senders -> Outputs] /\ \A t \in Senders : Fits(out[t])
  BY DEF SendInv, SendType, SendFits, Outputs
<1>2. /\ out' \in [Senders -> Outputs] /\ out'[s] = o
      /\ \A t \in Senders : t # s => out'[t] = out[t]
  BY <1>1
<1>3. \A t \in Senders : Fits(out'[t])
  BY <1>1, <1>2
<1>4. SendType'
  BY <1>2 DEF SendType, Outputs, TxDescs
<1>5. SendFits'
  BY <1>3 DEF SendFits, Fits
<1>6. QED BY <1>4, <1>5 DEF SendInv

(* The state the steps of a sender start from. *)
LEMMA SendFacts ==
    ASSUME SendInv, NEW s \in Senders
    PROVE  /\ out \in [Senders -> Outputs] /\ out[s] \in Outputs /\ Fits(out[s])
           /\ TxDesc \in TxRing /\ txdma \in TxRing /\ txd \in [TxRing -> TxDescs]
           /\ txcount \in Nat /\ reported \in Seq(Seq(Cell)) /\ wire \in Seq(Seq(Cell))
           /\ Append(reported, out[s].cells) \in Seq(Seq(Cell))
<1>1. out \in [Senders -> Outputs] /\ out[s] \in Outputs /\ Fits(out[s])
  BY DEF SendInv, SendType, SendFits, Outputs
<1>2. /\ TxDesc \in TxRing /\ txdma \in TxRing /\ txd \in [TxRing -> TxDescs]
      /\ txcount \in Nat /\ reported \in Seq(Seq(Cell)) /\ wire \in Seq(Seq(Cell))
  BY DEF SendInv, SendType, TxDescs
<1>3. out[s].cells \in Seq(Cell)
  BY <1>1 DEF Outputs
<1>4. Append(reported, out[s].cells) \in Seq(Seq(Cell))
  BY <1>2, <1>3
<1>5. QED BY <1>1, <1>2, <1>4

(* low_level_output begins with the chain of a frame that fits a buffer. *)
LEMMA LowLevelOutputSends ==
    ASSUME SendInv, NEW s \in Senders, LowLevelOutput(s)
    PROVE  SendInv'
<1>1. PICK shape \in TxShapes :
        /\ Total(shape) <= BufCells
        /\ out' = [out EXCEPT ![s] =
                     [pc |-> "check", chain |-> shape,
                      cells |-> Frame(txcount + 1, Total(shape)), len |-> 0,
                      desc |-> TxDesc]]
  BY DEF LowLevelOutput
<1>2. shape \in Seq(Nat) /\ shape # <<>>
  <2>1. shape \in Seq(Nat \ {0}) /\ shape # <<>>
    BY EthernetAssumption
  <2>2. QED BY <2>1
<1>3. Total(shape) \in Nat /\ txcount \in Nat /\ TxDesc \in TxRing
  BY <1>2, TotalNat DEF SendInv, SendType
<1>4. PICK m \in Nat : m = Total(shape)
  BY <1>3
<1>5. Frame(txcount + 1, m) \in Seq(Cell) /\ Len(Frame(txcount + 1, m)) = m
  BY <1>3 DEF Frame, Cell
<1>6. PICK cells \in Seq(Cell) : cells = Frame(txcount + 1, Total(shape)) /\ Len(cells) = m
  BY <1>4, <1>5
<1> DEFINE o == [pc |-> "check", chain |-> shape, cells |-> cells, len |-> 0,
                 desc |-> TxDesc]
<1>7. o \in Outputs
  BY <1>2, <1>3 DEF Outputs
<1>8. Fits(o)
  BY <1>1, <1>2, <1>4, <1>6 DEF Fits
<1>9. out' = [out EXCEPT ![s] = o]
  BY <1>1, <1>6
<1> HIDE DEF o
<1>10. /\ txcount' = txcount + 1
       /\ UNCHANGED <<TxDesc, txd, txdma, reported, wire>>
  BY DEF LowLevelOutput
<1>11. txcount' \in Nat
  BY <1>3, <1>10
<1>12. QED BY <1>7, <1>8, <1>9, <1>10, <1>11, SenderKeeps, SendFacts

(* The next pbuf of the chain into the buffer. *)
LEMMA CopyPbufSends ==
    ASSUME SendInv, NEW s \in Senders, CopyPbuf(s)
    PROVE  SendInv'
<1>1. PICK o \in Outputs : o = out[s] /\ Fits(o)
  BY SendFacts
<1>2. /\ o.chain \in Seq(Nat) /\ o.cells \in Seq(Cell) /\ o.len \in Nat /\ o.desc \in TxRing
      /\ o.pc \in {"idle", "check", "copy", "lock", "own", "give", "next", "unlock"}
  BY <1>1 DEF Outputs
<1>3. o.pc = "copy" /\ o.chain # <<>>
  BY <1>1 DEF CopyPbuf, SenderStep, Fits
<1>4. /\ Head(o.chain) \in Nat /\ Tail(o.chain) \in Seq(Nat)
      /\ Len(o.chain) # 1 => Tail(o.chain) # <<>>
      /\ Total(o.chain) = Head(o.chain) + Total(Tail(o.chain))
      /\ Total(Tail(o.chain)) \in Nat
  <2>1. /\ Head(o.chain) \in Nat /\ Tail(o.chain) \in Seq(Nat)
        /\ Len(o.chain) # 1 => Tail(o.chain) # <<>>
    <3>1. PICK c \in Seq(Nat) : c = o.chain /\ c # <<>>
      BY <1>2, <1>3
    <3>2. Len(c) \in Nat /\ Len(c) >= 1 /\ Len(Tail(c)) = Len(c) - 1 /\ Len(<<>>) = 0
      BY <3>1
    <3>3. Head(c) \in Nat /\ Tail(c) \in Seq(Nat)
      BY <3>1
    <3>4. Len(c) # 1 => Tail(c) # <<>>
      <4>1. PICK t \in Seq(Nat) : t = Tail(c) /\ Len(t) = Len(c) - 1
        BY <3>2, <3>3
      <4>2. t = <<>> => Len(t) = 0
        OBVIOUS
      <4>3. t = <<>> => Len(c) = 1
        BY <3>2, <4>1, <4>2
      <4>4. QED BY <4>1, <4>3
    <3>5. QED BY <3>1, <3>3, <3>4
  <2>2. Total(o.chain) = Head(o.chain) + Total(Tail(o.chain))
    BY <1>2, <1>3, TotalTail
  <2>3. QED BY <2>1, <2>2, TotalNat
<1> DEFINE end == o.len + Head(o.chain)
           new == [pc |-> IF Len(o.chain) = 1 THEN "lock" ELSE "check",
                   chain |-> Tail(o.chain), cells |-> o.cells, len |-> end,
                   desc |-> o.desc]
           buf == [k \in 1..BufCells |->
                     IF k \in (o.len + 1)..end THEN o.cells[k] ELSE txd[o.desc].buf[k]]
<1>5. end \in Nat /\ end + Total(Tail(o.chain)) = Len(o.cells) /\ Len(o.cells) <= BufCells
  <2>1. o.len + Total(o.chain) = Len(o.cells) /\ Len(o.cells) <= BufCells
    BY <1>1 DEF Fits
  <2>2. PICK a \in Nat, b \in Nat, c \in Nat :
          a = o.len /\ b = Head(o.chain) /\ c = Total(Tail(o.chain))
    BY <1>2, <1>4
  <2>3. a + (b + c) = Len(o.cells)
    BY <1>4, <2>1, <2>2
  <2>4. QED BY <2>1, <2>2, <2>3
<1>6. new \in Outputs /\ Fits(new)
  <2>1. Len(o.chain) # 1 => Tail(o.chain) # <<>>
    BY <1>4
  <2> HIDE DEF end
  <2>2. new \in Outputs
    BY <1>2, <1>4, <1>5 DEF Outputs
  <2>3. Fits(new)
    BY <1>5, <2>1 DEF Fits
  <2>4. QED BY <2>2, <2>3
<1>7. txd \in [TxRing -> TxDescs]
  BY SendFacts
<1>8. buf \in [1..BufCells -> Cell]
  <2>1. ASSUME NEW k \in 1..BufCells
        PROVE  (IF k \in (o.len + 1)..end THEN o.cells[k] ELSE txd[o.desc].buf[k]) \in Cell
    <3>1. k \in (o.len + 1)..end => k \in 1..Len(o.cells)
      BY <1>2, <1>4, <1>5
    <3>2. k \in 1..Len(o.cells) => o.cells[k] \in Cell
      BY <1>2
    <3>3. txd[o.desc].buf[k] \in Cell
      BY <1>2, <1>7 DEF TxDescs
    <3>4. QED BY <3>1, <3>2, <3>3
  <2>2. QED BY <2>1
<1>9. /\ out' = [out EXCEPT ![s] = new]
      /\ txd' = [txd EXCEPT ![o.desc].buf = buf]
      /\ UNCHANGED <<TxDesc, txdma, reported, wire, txcount>>
  <2>1. [o EXCEPT !.pc = IF Len(o.chain) = 1 THEN "lock" ELSE "check",
                  !.chain = Tail(o.chain), !.len = end] = new
    <3>1. ASSUME NEW p \in {"lock", "check"}, NEW c \in Seq(Nat), NEW l \in Nat, NEW n,
                 n = [o EXCEPT !.pc = p, !.chain = c, !.len = l]
          PROVE  n = [pc |-> p, chain |-> c, cells |-> o.cells, len |-> l, desc |-> o.desc]
      <4>1. n \in Outputs
        BY <1>1, <3>1 DEF Outputs
      <4>2. n.pc = p /\ n.chain = c /\ n.cells = o.cells /\ n.len = l /\ n.desc = o.desc
        BY <1>1, <3>1 DEF Outputs
      <4>3. n = [pc |-> n.pc, chain |-> n.chain, cells |-> n.cells, len |-> n.len,
                 desc |-> n.desc]
        BY <4>1 DEF Outputs
      <4>4. QED BY <4>2, <4>3
    <3>2. QED BY <1>4, <1>5, <3>1
  <2>2. QED BY <1>1, <2>1 DEF CopyPbuf, SenderStep
<1> HIDE DEF new, buf, end
<1>10. txd' \in [TxRing -> TxDescs]
  BY <1>2, <1>7, <1>8, <1>9 DEF TxDescs
<1>11. QED BY <1>6, <1>9, <1>10, SenderKeeps, SendFacts

(* A sender moves on. *)
LEMMA Moved ==
    ASSUME SendInv, NEW s \in Senders,
           NEW p \in {"copy", "own", "give", "next", "unlock"},
           p = "copy" => out[s].pc = "check",
           NEW o, o = [out[s] EXCEPT !.pc = p]
    PROVE  /\ o \in Outputs /\ Fits(o) /\ o.pc = p
           /\ o.chain = out[s].chain /\ o.cells = out[s].cells
           /\ o.len = out[s].len /\ o.desc = out[s].desc
<1>1. out[s] \in Outputs /\ Fits(out[s])
  BY SendFacts
<1>2. /\ o \in Outputs /\ o.pc = p
      /\ o.chain = out[s].chain /\ o.cells = out[s].cells
      /\ o.len = out[s].len /\ o.desc = out[s].desc
  BY <1>1 DEF Outputs
<1>3. Fits(o)
  BY <1>1, <1>2 DEF Fits
<1>4. QED BY <1>2, <1>3

(* The other steps of low_level_output and HAL_ETH_TransmitFrame. *)
LEMMA TransmitSends ==
    ASSUME SendInv, NEW s \in Senders, Transmit(s)
    PROVE  SendInv'
<1>1. CASE CheckOwn(s)
  <2>1. out[s].pc = "check" /\ UNCHANGED <<TxDesc, txd, txdma, reported, wire, txcount>>
    BY <1>1 DEF CheckOwn, SenderStep
  <2>2. PICK o : out' = [out EXCEPT ![s] = o]
                 /\ (o = Idle \/ o = [out[s] EXCEPT !.pc = "copy"])
    BY <1>1 DEF CheckOwn, SenderStep
  <2>3. o \in Outputs /\ Fits(o)
    BY <2>1, <2>2, Moved, IdleFits
  <2>4. QED BY <2>1, <2>2, <2>3, SenderKeeps, SendFacts
<1>2. CASE CopyPbuf(s)
  BY <1>2, CopyPbufSends
<1>3. CASE HalLock(s)
  <2>1. /\ UNCHANGED <<TxDesc, txd, txdma, wire, txcount>>
        /\ reported' = reported \/ reported' = Append(reported, out[s].cells)
    BY <1>3 DEF HalLock, SenderStep, Reported
  <2>2. PICK o : out' = [out EXCEPT ![s] = o]
                 /\ (o = Idle \/ o = [out[s] EXCEPT !.pc = "own"])
    BY <1>3 DEF HalLock, SenderStep
  <2>3. o \in Outputs /\ Fits(o)
    BY <2>2, Moved, IdleFits
  <2>4. reported' \in Seq(Seq(Cell))
    BY <2>1, SendFacts
  <2>5. QED BY <2>1, <2>2, <2>3, <2>4, SenderKeeps, SendFacts
<1>4. CASE HalOwn(s)
  <2>1. /\ UNCHANGED <<TxDesc, txd, txdma, wire, txcount>>
        /\ reported' = reported \/ reported' = Append(reported, out[s].cells)
    BY <1>4 DEF HalOwn, SenderStep, Reported
  <2>2. PICK o : out' = [out EXCEPT ![s] = o]
                 /\ (o = Idle \/ o = [out[s] EXCEPT !.pc = "give"])
    BY <1>4 DEF HalOwn, SenderStep
  <2>3. o \in Outputs /\ Fits(o)
    BY <2>2, Moved, IdleFits
  <2>4. reported' \in Seq(Seq(Cell))
    BY <2>1, SendFacts
  <2>5. QED BY <2>1, <2>2, <2>3, <2>4, SenderKeeps, SendFacts
<1>5. CASE GiveToDma(s)
  <2>1. /\ UNCHANGED <<TxDesc, txdma, reported, wire, txcount>>
        /\ txd' = [txd EXCEPT ![TxDesc].own = TRUE, ![TxDesc].size = out[s].len]
    BY <1>5 DEF GiveToDma, SenderStep
  <2>2. PICK o : out' = [out EXCEPT ![s] = o] /\ o = [out[s] EXCEPT !.pc = "next"]
    BY <1>5 DEF GiveToDma, SenderStep
  <2>3. o \in Outputs /\ Fits(o)
    BY <2>2, Moved
  <2>4. out[s].len \in 0..BufCells
    <3>1. out[s] \in Outputs /\ Fits(out[s]) /\ BufCells \in Nat
      BY SendFacts, EthernetAssumption
    <3>2. out[s].len \in Nat /\ out[s].chain \in Seq(Nat) /\ out[s].cells \in Seq(Cell)
      BY <3>1 DEF Outputs
    <3>3. Total(out[s].chain) \in Nat /\ Len(out[s].cells) \in Nat
      BY <3>2, TotalNat
    <3>4. QED BY <3>1, <3>2, <3>3 DEF Fits
  <2>5. txd' \in [TxRing -> TxDescs]
    BY <2>1, <2>4, SendFacts DEF TxDescs
  <2>6. QED BY <2>1, <2>2, <2>3, <2>5, SenderKeeps, SendFacts
<1>6. CASE NextTxDesc(s)
  <2>1. TxDesc' = NextTx(TxDesc) /\ UNCHANGED <<txd, txdma, reported, wire, txcount>>
    BY <1>6 DEF NextTxDesc, SenderStep
  <2>2. PICK o : out' = [out EXCEPT ![s] = o] /\ o = [out[s] EXCEPT !.pc = "unlock"]
    BY <1>6 DEF NextTxDesc, SenderStep
  <2>3. o \in Outputs /\ Fits(o)
    BY <2>2, Moved
  <2>4. TxDesc' \in TxRing
    BY <2>1, NextTxInRing, SendFacts
  <2>5. QED BY <2>1, <2>2, <2>3, <2>4, SenderKeeps, SendFacts
<1>7. CASE HalUnlock(s)
  <2>1. /\ UNCHANGED <<TxDesc, txd, txdma, wire, txcount>>
        /\ reported' = Append(reported, out[s].cells) /\ out' = [out EXCEPT ![s] = Idle]
    BY <1>7 DEF HalUnlock, SenderStep, Reported
  <2>2. reported' \in Seq(Seq(Cell))
    BY <2>1, SendFacts
  <2>3. QED BY <2>1, <2>2, IdleFits, SenderKeeps, SendFacts
<1>8. QED BY <1>1, <1>2, <1>3, <1>4, <1>5, <1>6, <1>7 DEF Transmit

(* The DMA sends what the descriptor says. *)
LEMMA DmaSendsSends ==
    ASSUME SendInv, DmaSends
    PROVE  SendInv'
<1>1. /\ TxDesc \in TxRing /\ txdma \in TxRing /\ txd \in [TxRing -> TxDescs]
      /\ wire \in Seq(Seq(Cell)) /\ BufCells \in Nat
  BY EthernetAssumption DEF SendInv, SendType, TxDescs
<1>2. PICK f \in TxDescs : f = txd[txdma]
  BY <1>1
<1>3. f.buf \in [1..BufCells -> Cell] /\ f.size \in 0..BufCells
  BY <1>2 DEF TxDescs
<1>4. SubSeq(f.buf, 1, f.size) \in Seq(Cell)
  <2>1. PICK b \in Seq(Cell) : b = f.buf /\ Len(b) = BufCells
    BY <1>1, <1>3
  <2>2. SubSeq(b, 1, f.size) \in Seq(Cell)
    BY <1>1, <1>3, <2>1
  <2>3. QED BY <2>1, <2>2
<1>5. wire' \in Seq(Seq(Cell))
  BY <1>1, <1>2, <1>4 DEF DmaSends
<1>6. txd' \in [TxRing -> TxDescs]
  BY <1>1 DEF DmaSends, TxDescs
<1>7. txdma' \in TxRing
  BY <1>1, NextTxInRing DEF DmaSends
<1>8. UNCHANGED <<TxDesc, out, txcount, reported>>
  BY DEF DmaSends
<1>9. SendType'
  BY <1>5, <1>6, <1>7, <1>8 DEF SendInv, SendType, TxDescs
<1>10. QED BY <1>8, <1>9 DEF SendInv, SendFits, Fits

(* Every other step leaves the transmit side alone. *)
LEMMA SendUntouched ==
    ASSUME SendInv, UNCHANGED tx
    PROVE  SendInv'
<1>1. SendType'
  BY DEF SendInv, SendType, tx
<1>2. SendFits'
  BY DEF SendInv, SendFits, Fits, tx
<1>3. QED BY <1>1, <1>2 DEF SendInv

-----------------------------------------------------------------------------
(* Every step keeps the pbufs counted and the transmit side in its ranges. *)
LEMMA FramesStep ==
    ASSUME EthIInv, PbufInv, SendInv, [Next]_vars
    PROVE  PbufInv' /\ SendInv'
<1>1. rflag \in BOOLEAN /\ lock \in BOOLEAN /\ irq \in {"none", "cb"}
  BY DEF PbufInv, RestType
<1>2. CASE FrameArrives
  <2>1. UNCHANGED <<thread, lwip, rflag, lock, irq, tx>>
    BY <1>2 DEF FrameArrives
  <2>2. QED BY <1>1, <2>1, NoPbufMoves, SendUntouched
<1>3. CASE DmaStores
  <2>1. UNCHANGED <<thread, lwip, lock, irq, tx>> /\ rflag' \in BOOLEAN
    BY <1>3 DEF DmaStores
  <2>2. QED BY <1>1, <2>1, NoPbufMoves, SendUntouched
<1>4. CASE DmaSends
  <2>1. UNCHANGED <<thread, lwip, rflag, lock, irq>>
    BY <1>4 DEF DmaSends
  <2>2. QED BY <1>1, <1>4, <2>1, NoPbufMoves, DmaSendsSends
<1>5. CASE Irq
  <2>1. /\ UNCHANGED <<thread, lwip, tx>> /\ rflag' \in BOOLEAN /\ lock' \in BOOLEAN
        /\ irq' \in {"none", "cb"}
    BY <1>1, <1>5 DEF Irq, IrqCallback, IrqEnd
  <2>2. QED BY <2>1, NoPbufMoves, SendUntouched
<1>6. CASE RxThread
  <2>1. UNCHANGED tx
    BY <1>6 DEF RxThread, SemaphoreAcquire, GetReceivedFrame, AllocPbufs, CopyBuffer,
                CopyRest, ReleaseDesc, InputReturns, NetifInput
  <2>2. PbufInv'
    BY <1>6, ScanPbufs, AllocPbufsPbufs, CopyPbufs, ReleasePbufs, NetifInputPbufs
       DEF RxThread
  <2>3. QED BY <2>1, <2>2, SendUntouched
<1>7. CASE Tcpip
  <2>1. UNCHANGED tx
    BY <1>7 DEF Tcpip, MboxFetch, PacketDone
  <2>2. QED BY <1>7, <2>1, TcpipPbufs, SendUntouched
<1>8. ASSUME NEW s \in Senders, LowLevelOutput(s) PROVE PbufInv' /\ SendInv'
  <2>1. UNCHANGED <<thread, lwip, rflag, lock, irq>>
    BY <1>8 DEF LowLevelOutput
  <2>2. QED BY <1>1, <1>8, <2>1, NoPbufMoves, LowLevelOutputSends
<1>9. ASSUME NEW s \in Senders, Transmit(s) PROVE PbufInv' /\ SendInv'
  <2>1. UNCHANGED <<thread, lwip, rflag, irq>>
    BY <1>9 DEF Transmit, CheckOwn, CopyPbuf, HalLock, HalOwn, GiveToDma, NextTxDesc,
                HalUnlock, SenderStep
  <2>2. lock' \in BOOLEAN
    BY <1>1, <1>9 DEF Transmit, CheckOwn, CopyPbuf, HalLock, HalOwn, GiveToDma, NextTxDesc,
                HalUnlock
  <2>3. QED BY <1>1, <1>9, <2>1, <2>2, NoPbufMoves, TransmitSends
<1>10. CASE UNCHANGED vars
  <2>1. UNCHANGED <<thread, lwip, rflag, lock, irq, tx>>
    BY <1>10 DEF vars
  <2>2. QED BY <1>1, <2>1, NoPbufMoves, SendUntouched
<1>11. QED BY <1>2, <1>3, <1>4, <1>5, <1>6, <1>7, <1>8, <1>9, <1>10 DEF Next, Dma

(* The strengthened invariant holds in every reachable state. *)
THEOREM FramesInvariant == Spec => [](EthIInv /\ PbufInv /\ SendInv)
<1>1. Init => EthIInv /\ PbufInv /\ SendInv
  BY InitIInv, PbufInit, SendInit
<1>2. EthIInv /\ PbufInv /\ SendInv /\ [Next]_vars => (EthIInv /\ PbufInv /\ SendInv)'
  BY NextIInv, FramesStep
<1>3. QED BY <1>1, <1>2, PTL DEF Spec

(* No pbuf of the pool is leaked or freed twice (ethernetif.c:589-597,     *)
(* tcpip.c:254-267), for pools, mailboxes, rings and frames of any size.   *)
THEOREM PbufsBalance == Spec => []NoPbufLeak
<1>1. EthIInv /\ PbufInv /\ SendInv => NoPbufLeak
  BY DEF PbufInv
<1>2. QED BY <1>1, FramesInvariant, PTL

(* Every variable of the driver stays in its range: the semaphore is       *)
(* binary, copies stay in their buffers (ethernetif.c:419-474, 519-541)    *)
(* and the pool never holds more than it was made of, whoever sends.       *)
THEOREM TypeCorrect == Spec => []TypeOK
<1>1. EthIInv /\ PbufInv /\ SendInv => TypeOK
  <2> SUFFICES ASSUME EthIInv, PbufInv, SendInv PROVE TypeOK
    OBVIOUS
  <2>1. pool \in 0..PoolSize
    <3>1. pool + InHand + Pbufs(Len(inp)) + InBox(mbox) = PoolSize
      BY Balance DEF PbufInv
    <3>2. QED BY <3>1, BalanceTypes DEF PbufInv
  <2>2. txd \in [TxRing -> [own : BOOLEAN, size : Nat, buf : [1..BufCells -> Cell]]]
    <3>1. BufCells \in Nat /\ 0..BufCells \subseteq Nat
      BY EthernetAssumption
    <3>2. QED BY <3>1 DEF SendInv, SendType
  <2>3. QED BY <2>1, <2>2 DEF TypeOK, EthIInv, RxType, PbufInv, RestType, SendInv, SendType
<1>2. QED BY <1>1, FramesInvariant, PTL

-----------------------------------------------------------------------------
(* What is reported goes out, when one thread sends.                       *)

(* A frame that goes out keeps going out as long as the wire only grows    *)
(* and the descriptors the DMA has keep their frame, or it is sent.        *)
LEMMA GoesOutKept ==
    ASSUME NEW c, GoesOut(c), SendInv,
           wire' = wire \/ (\E w \in Seq(Cell) : wire' = Append(wire, w)),
           \A d \in TxRing : txd[d].own =>
              \/ /\ txd'[d].own /\ txd'[d].buf = txd[d].buf /\ txd'[d].size = txd[d].size
              \/ wire' = Append(wire, SubSeq(txd[d].buf, 1, txd[d].size))
    PROVE  GoesOut(c)'
<1>1. wire \in Seq(Seq(Cell)) /\ Len(wire) \in Nat
  BY DEF SendInv, SendType
<1>2. CASE \E j \in 1..Len(wire) : wire[j] = c
  <2>1. PICK j \in 1..Len(wire) : wire[j] = c
    BY <1>2
  <2>2. j \in 1..Len(wire') /\ wire'[j] = c
    <3>1. CASE wire' = wire
      BY <2>1, <3>1
    <3>2. ASSUME NEW w \in Seq(Cell), wire' = Append(wire, w)
          PROVE  j \in 1..Len(wire') /\ wire'[j] = c
      <4>1. Len(wire') = Len(wire) + 1 /\ wire'[j] = wire[j]
        BY <1>1, <2>1, <3>2
      <4>2. QED BY <1>1, <2>1, <4>1
    <3>3. QED BY <3>1, <3>2
  <2>3. QED BY <2>2 DEF GoesOut
<1>3. CASE Queued(c)
  <2>1. PICK d \in TxRing : txd[d].own /\ SubSeq(txd[d].buf, 1, txd[d].size) = c
    BY <1>3 DEF Queued
  <2>2. CASE txd'[d].own /\ txd'[d].buf = txd[d].buf /\ txd'[d].size = txd[d].size
    BY <2>1, <2>2 DEF GoesOut, Queued
  <2>3. CASE wire' = Append(wire, SubSeq(txd[d].buf, 1, txd[d].size))
    <3>1. Len(wire) + 1 \in 1..Len(wire') /\ wire'[Len(wire) + 1] = c
      BY <1>1, <2>1, <2>3
    <3>2. QED BY <3>1 DEF GoesOut
  <2>4. QED BY <2>1, <2>2, <2>3
<1>4. QED BY <1>2, <1>3 DEF GoesOut

(* At the start nothing has been reported. *)
LEMMA SentInit == Init => SentInv
<1> SUFFICES ASSUME Init PROVE SentInv
  OBVIOUS
<1>1. ASSUME NEW s \in Senders PROVE Sending(out[s])
  <2>1. out[s] = Idle /\ lock = FALSE
    BY DEF Init
  <2>2. QED BY <2>1 DEF Sending, Idle
<1>2. QED BY <1>1 DEF Init, SentInv

(* Steps of others: they do not touch the transmit ring, and the interrupt *)
(* only opens the handle.                                                  *)
LEMMA SentUntouched ==
    ASSUME SentInv, UNCHANGED tx, lock' = lock \/ lock' = FALSE
    PROVE  SentInv'
<1>1. \A c : GoesOut(c)' <=> GoesOut(c)
  BY DEF GoesOut, Queued, tx
<1>2. ASSUME NEW s \in Senders PROVE Sending(out[s])'
  <2>1. Sending(out[s]) /\ out'[s] = out[s] /\ txd' = txd /\ TxDesc' = TxDesc
    BY DEF SentInv, tx
  <2>2. QED BY <1>1, <2>1 DEF Sending
<1>3. ASSUME NEW i \in 1..Len(reported') PROVE GoesOut(reported[i])'
  <2>1. PICK c : c = reported[i] /\ c = reported'[i] /\ GoesOut(c)
    BY DEF SentInv, tx
  <2>2. QED BY <1>1, <2>1 DEF GoesOut, Queued, tx
<1>4. QED BY <1>2, <1>3 DEF SentInv

(* A step of the only sender: what its new locals must satisfy. *)
LEMMA SentBySender ==
    ASSUME SendInv, SentInv, OneSender, NEW s \in Senders, NEW o, NEW cells,
           out' = [out EXCEPT ![s] = o], Sending(o)',
           \A c : GoesOut(c) => GoesOut(c)',
           \/ reported' = reported
           \/ /\ reported' = Append(reported, cells)
              /\ cells \in Seq(Cell) /\ GoesOut(cells)'
    PROVE  SentInv'
<1>1. ASSUME NEW t \in Senders PROVE Sending(out[t])'
  <2>1. t = s
    BY DEF OneSender
  <2>2. out'[t] = o
    BY <2>1, SendFacts
  <2>3. QED BY <2>2 DEF Sending
<1>2. ASSUME NEW i \in 1..Len(reported') PROVE GoesOut(reported[i])'
  <2>1. reported \in Seq(Seq(Cell)) /\ Len(reported) \in Nat
    BY SendFacts
  <2>a. \A c : c = reported'[i] /\ GoesOut(c)' => GoesOut(reported[i])'
    BY DEF GoesOut, Queued
  <2>2. CASE reported' = reported
    BY <2>2, <2>a DEF SentInv
  <2>3. CASE /\ reported' = Append(reported, cells)
             /\ cells \in Seq(Cell) /\ GoesOut(cells)'
    <3>1. CASE i \in 1..Len(reported)
      <4>1. reported'[i] = reported[i]
        BY <2>1, <2>3, <3>1
      <4>2. QED BY <2>a, <3>1, <4>1 DEF SentInv
    <3>2. CASE i \notin 1..Len(reported)
      <4>1. i = Len(reported) + 1
        BY <2>1, <2>3, <3>2
      <4>2. reported'[i] = cells
        BY <2>1, <2>3, <4>1
      <4>3. QED BY <2>3, <2>a, <4>2
    <3>3. QED BY <3>1, <3>2
  <2>4. QED BY <2>2, <2>3
<1>3. QED BY <1>1, <1>2 DEF SentInv

(* The buffer of a descriptor the DMA does not have may change. *)
LEMMA OthersKept ==
    ASSUME SendInv, NEW e \in TxRing, ~txd[e].own, wire' = wire,
           \A d \in TxRing : d # e => txd'[d] = txd[d],
           NEW c, GoesOut(c)
    PROVE  GoesOut(c)'
<1>1. \A d \in TxRing : txd[d].own =>
        txd'[d].own /\ txd'[d].buf = txd[d].buf /\ txd'[d].size = txd[d].size
  OBVIOUS
<1>2. QED BY <1>1, GoesOutKept

(* low_level_output begins. *)
LEMMA LowLevelOutputSent ==
    ASSUME SendInv, SentInv, OneSender, NEW s \in Senders, LowLevelOutput(s)
    PROVE  SentInv'
<1>1. PICK o : /\ out' = [out EXCEPT ![s] = o]
               /\ o.pc = "check" /\ o.len = 0 /\ o.desc = TxDesc
  <2>1. PICK shape \in TxShapes :
          out' = [out EXCEPT ![s] =
                    [pc |-> "check", chain |-> shape,
                     cells |-> Frame(txcount + 1, Total(shape)), len |-> 0,
                     desc |-> TxDesc]]
    BY DEF LowLevelOutput
  <2>2. PICK o : o = [pc |-> "check", chain |-> shape,
                      cells |-> Frame(txcount + 1, Total(shape)), len |-> 0,
                      desc |-> TxDesc]
    OBVIOUS
  <2>3. o.pc = "check" /\ o.len = 0 /\ o.desc = TxDesc
    BY <2>2
  <2>4. QED BY <2>1, <2>2, <2>3
<1>2. out[s] = Idle /\ UNCHANGED <<lock, TxDesc, txd, wire, reported>>
  BY DEF LowLevelOutput
<1>4. ~lock
  BY <1>2 DEF SentInv, Sending, Idle
<1>5. Sending(o)'
  BY <1>1, <1>2, <1>4 DEF Sending
<1>6. \A c : GoesOut(c) => GoesOut(c)'
  BY <1>2 DEF GoesOut, Queued
<1>7. QED BY <1>1, <1>2, <1>5, <1>6, SentBySender

(* The OWN bit is looked at before each pbuf. *)
LEMMA CheckOwnSent ==
    ASSUME SendInv, SentInv, OneSender, NEW s \in Senders, CheckOwn(s)
    PROVE  SentInv'
<1>1. /\ out[s].pc = "check" /\ UNCHANGED <<lock, TxDesc, txd, wire, reported>>
  BY DEF CheckOwn, SenderStep
<1>2. Sending(out[s]) /\ ~lock
  BY <1>1 DEF SentInv, Sending
<1>3. PICK o : /\ out' = [out EXCEPT ![s] = o]
               /\ o = IF txd[out[s].desc].own THEN Idle ELSE [out[s] EXCEPT !.pc = "copy"]
  BY DEF CheckOwn, SenderStep
<1>4. Sending(o)'
  <2>1. CASE txd[out[s].desc].own
    BY <1>1, <1>2, <1>3, <2>1 DEF Sending, Idle
  <2>2. CASE ~txd[out[s].desc].own
    <3>1. o = [out[s] EXCEPT !.pc = "copy"]
      BY <1>3, <2>2
    <3>2. /\ o.pc = "copy" /\ o.cells = out[s].cells /\ o.len = out[s].len
          /\ o.desc = out[s].desc
      BY <1>1, <3>1, Moved
    <3>3. QED BY <1>1, <1>2, <2>2, <3>2 DEF Sending
  <2>3. QED BY <2>1, <2>2
<1>5. \A c : GoesOut(c) => GoesOut(c)'
  BY <1>1 DEF GoesOut, Queued
<1>6. QED BY <1>1, <1>3, <1>4, <1>5, SentBySender

(* A pbuf is copied into a buffer the DMA does not have. *)
LEMMA CopyPbufSent ==
    ASSUME SendInv, SentInv, OneSender, NEW s \in Senders, CopyPbuf(s)
    PROVE  SentInv'
<1>1. PICK o \in Outputs : o = out[s] /\ Fits(o) /\ Sending(o)
  BY SendFacts DEF SentInv
<1>2. /\ o.chain \in Seq(Nat) /\ o.cells \in Seq(Cell) /\ o.len \in Nat /\ o.desc \in TxRing
  BY <1>1 DEF Outputs
<1>3. /\ o.pc = "copy" /\ o.chain # <<>> /\ UNCHANGED <<lock, TxDesc, wire, reported>>
  BY <1>1 DEF CopyPbuf, SenderStep, Fits
<1>4. ~lock /\ ~txd[o.desc].own /\ o.desc = TxDesc
      /\ \A k \in 1..o.len : txd[o.desc].buf[k] = o.cells[k]
  BY <1>1, <1>3 DEF Sending
<1> DEFINE end == o.len + Head(o.chain)
           buf == [k \in 1..BufCells |->
                     IF k \in (o.len + 1)..end THEN o.cells[k] ELSE txd[o.desc].buf[k]]
<1>5. PICK n : /\ n = [o EXCEPT !.pc = IF Len(o.chain) = 1 THEN "lock" ELSE "check",
                                 !.chain = Tail(o.chain), !.len = end]
               /\ out' = [out EXCEPT ![s] = n]
  BY <1>1 DEF CopyPbuf, SenderStep
<1>6. txd' = [txd EXCEPT ![o.desc].buf = buf]
  BY <1>1 DEF CopyPbuf, SenderStep
<1>7. Head(o.chain) \in Nat /\ end \in Nat /\ end <= BufCells /\ BufCells \in Nat
  <2>1. /\ Head(o.chain) \in Nat /\ Tail(o.chain) \in Seq(Nat)
        /\ Total(o.chain) = Head(o.chain) + Total(Tail(o.chain))
    BY <1>2, <1>3, TotalTail
  <2>2. Total(Tail(o.chain)) \in Nat /\ BufCells \in Nat
    BY <2>1, TotalNat, EthernetAssumption
  <2>3. o.len + Total(o.chain) = Len(o.cells) /\ Len(o.cells) <= BufCells
    BY <1>1 DEF Fits
  <2>4. PICK a \in Nat, b \in Nat, c \in Nat :
          a = o.len /\ b = Head(o.chain) /\ c = Total(Tail(o.chain))
    BY <1>2, <2>1, <2>2
  <2>5. a + (b + c) <= BufCells
    BY <2>1, <2>3, <2>4
  <2>6. QED BY <2>2, <2>4, <2>5
<1>8. /\ n.pc \in {"lock", "check"} /\ (n.pc = "lock" => Len(o.chain) = 1)
      /\ n.chain = Tail(o.chain) /\ n.cells = o.cells /\ n.len = end /\ n.desc = o.desc
  <2> DEFINE p == IF Len(o.chain) = 1 THEN "lock" ELSE "check"
  <2>1. p \in {"lock", "check"} /\ (p = "lock" => Len(o.chain) = 1)
    OBVIOUS
  <2>2. n = [o EXCEPT !.pc = p, !.chain = Tail(o.chain), !.len = end]
    BY <1>5
  <2> HIDE DEF p, end
  <2>3. /\ n.pc = p /\ n.chain = Tail(o.chain) /\ n.cells = o.cells /\ n.len = end
        /\ n.desc = o.desc
    BY <1>1, <2>2 DEF Outputs
  <2>4. QED BY <2>1, <2>3
<1>9. txd \in [TxRing -> TxDescs]
  BY SendFacts
<1>10. /\ \A k \in 1..end : txd'[o.desc].buf[k] = o.cells[k]
       /\ txd'[o.desc].own = txd[o.desc].own
       /\ \A d \in TxRing : d # o.desc => txd'[d] = txd[d]
  <2>1. txd'[o.desc].buf = buf
    BY <1>2, <1>6, <1>9 DEF TxDescs
  <2>2. ASSUME NEW k \in 1..end PROVE buf[k] = o.cells[k]
    <3>1. k \in 1..BufCells /\ (k \in (o.len + 1)..end \/ k \in 1..o.len)
      BY <1>2, <1>7
    <3>2. QED BY <1>4, <3>1
  <2> HIDE DEF buf, end
  <2>3. QED BY <1>2, <1>6, <1>9, <2>1, <2>2 DEF TxDescs
<1>11. Len(o.chain) = 1 => Tail(o.chain) = <<>>
  <2>1. PICK c \in Seq(Nat) : c = o.chain /\ c # <<>>
    BY <1>2, <1>3
  <2>a. Tail(c) \in Seq(Nat) /\ Len(Tail(c)) = Len(c) - 1
    BY <2>1
  <2>2. PICK t \in Seq(Nat) : t = Tail(c) /\ Len(t) = Len(c) - 1
    BY <2>a
  <2>3. Len(c) = 1 => t = <<>>
    BY <2>2
  <2>4. QED BY <2>1, <2>2, <2>3
<1> HIDE DEF end, buf
<1>12. Sending(n)'
  BY <1>3, <1>4, <1>8, <1>10, <1>11 DEF Sending
<1>13. \A c : GoesOut(c) => GoesOut(c)'
  BY <1>2, <1>3, <1>4, <1>10, OthersKept
<1>14. QED BY <1>3, <1>5, <1>12, <1>13, SentBySender

(* The handle is open and the descriptor free, so HAL_ETH_TransmitFrame    *)
(* gets as far as the OWN bit.                                             *)
LEMMA HalLockSent ==
    ASSUME SendInv, SentInv, OneSender, NEW s \in Senders, HalLock(s) \/ HalOwn(s)
    PROVE  SentInv'
<1>1. Sending(out[s])
  BY DEF SentInv
<1>2. PICK p \in {"own", "give"} :
         /\ out' = [out EXCEPT ![s] = [out[s] EXCEPT !.pc = p]]
         /\ out[s].pc \in {"lock", "own"}
         /\ UNCHANGED <<TxDesc, txd, wire, reported>>
  BY <1>1 DEF HalLock, HalOwn, SenderStep, Sending
<1>3. PICK o : o = [out[s] EXCEPT !.pc = p]
  OBVIOUS
<1>4. /\ o.pc = p /\ o.cells = out[s].cells /\ o.len = out[s].len
      /\ o.desc = out[s].desc /\ o.chain = out[s].chain
  BY <1>3, Moved
<1>5. Sending(o)'
  BY <1>1, <1>2, <1>4 DEF Sending
<1>6. \A c : GoesOut(c) => GoesOut(c)'
  BY <1>2 DEF GoesOut, Queued
<1>7. QED BY <1>2, <1>3, <1>5, <1>6, SentBySender

(* The OWN bit: the frame is in the hands of the DMA. *)
LEMMA GiveToDmaSent ==
    ASSUME SendInv, SentInv, OneSender, NEW s \in Senders, GiveToDma(s)
    PROVE  SentInv'
<1>1. PICK o \in Outputs : o = out[s] /\ Fits(o) /\ Sending(o)
  BY SendFacts DEF SentInv
<1>2. /\ o.pc = "give" /\ UNCHANGED <<lock, TxDesc, wire, reported>>
      /\ txd' = [txd EXCEPT ![TxDesc].own = TRUE, ![TxDesc].size = o.len]
      /\ out' = [out EXCEPT ![s] = [o EXCEPT !.pc = "next"]]
  BY <1>1 DEF GiveToDma, SenderStep
<1>3. /\ o.desc = TxDesc /\ ~txd[TxDesc].own /\ o.chain = <<>>
      /\ \A k \in 1..o.len : txd[TxDesc].buf[k] = o.cells[k]
  BY <1>1, <1>2 DEF Sending
<1>4. /\ o.cells \in Seq(Cell) /\ o.len \in Nat /\ o.len = Len(o.cells)
      /\ o.len <= BufCells /\ BufCells \in Nat
  <2>1. o.cells \in Seq(Cell) /\ o.len \in Nat /\ Len(o.cells) \in Nat
    BY <1>1 DEF Outputs
  <2>2. Total(<<>>) = 0
    <3>1. <<>> \in Seq(Nat)
      OBVIOUS
    <3>2. QED BY <3>1, TotalNat
  <2>3. o.len + Total(o.chain) = Len(o.cells) /\ Len(o.cells) <= BufCells
    BY <1>1 DEF Fits
  <2>4. o.len + 0 = Len(o.cells)
    BY <1>3, <2>2, <2>3
  <2>5. QED BY <2>1, <2>3, <2>4, EthernetAssumption
<1>5. TxDesc \in TxRing /\ txd \in [TxRing -> TxDescs]
  BY SendFacts
<1>6. /\ txd'[TxDesc].own /\ txd'[TxDesc].size = o.len
      /\ txd'[TxDesc].buf = txd[TxDesc].buf
      /\ \A d \in TxRing : d # TxDesc => txd'[d] = txd[d]
  BY <1>2, <1>5 DEF TxDescs
<1>7. SubSeq(txd[TxDesc].buf, 1, o.len) = o.cells
  <2>1. PICK b \in Seq(Cell) : b = txd[TxDesc].buf /\ Len(b) = BufCells
    BY <1>4, <1>5 DEF TxDescs
  <2>2. /\ SubSeq(b, 1, o.len) \in Seq(Cell) /\ Len(SubSeq(b, 1, o.len)) = o.len
        /\ \A k \in 1..o.len : SubSeq(b, 1, o.len)[k] = b[k]
    BY <1>4, <2>1
  <2>3. QED BY <1>3, <1>4, <2>1, <2>2, SeqEqual
<1>8. PICK c : c = o.cells
  OBVIOUS
<1>9. GoesOut(c)'
  BY <1>2, <1>5, <1>6, <1>7, <1>8 DEF GoesOut, Queued
<1>10. PICK n : n = [o EXCEPT !.pc = "next"]
  OBVIOUS
<1>11. n.pc = "next" /\ n.cells = c
  BY <1>1, <1>8, <1>10 DEF Outputs
<1>12. Sending(n)'
  BY <1>9, <1>11 DEF Sending
<1>13. \A f : GoesOut(f) => GoesOut(f)'
  BY <1>2, <1>3, <1>5, <1>6, OthersKept
<1>14. QED BY <1>2, <1>10, <1>12, <1>13, SentBySender

(* The next descriptor, and the end: the frame is reported. *)
LEMMA HalUnlockSent ==
    ASSUME SendInv, SentInv, OneSender, NEW s \in Senders, NextTxDesc(s) \/ HalUnlock(s)
    PROVE  SentInv'
<1>1. PICK c : c = out[s].cells /\ c \in Seq(Cell) /\ GoesOut(c)
  <2>1. out[s].cells \in Seq(Cell)
    BY SendFacts DEF Outputs
  <2>2. out[s].pc \in {"next", "unlock"} /\ Sending(out[s])
    BY DEF SentInv, NextTxDesc, HalUnlock, SenderStep
  <2>3. QED BY <2>1, <2>2 DEF Sending
<1>2. UNCHANGED <<txd, wire>>
  BY DEF NextTxDesc, HalUnlock
<1>3. \A f : GoesOut(f) => GoesOut(f)'
  BY <1>2 DEF GoesOut, Queued
<1>4. CASE NextTxDesc(s)
  <2>1. PICK o : o = [out[s] EXCEPT !.pc = "unlock"] /\ out' = [out EXCEPT ![s] = o]
                 /\ reported' = reported
    BY <1>4 DEF NextTxDesc, SenderStep
  <2>2. o.pc = "unlock" /\ o.cells = c
    BY <1>1, <2>1, Moved
  <2>3. Sending(o)'
    BY <1>1, <1>3, <2>2 DEF Sending
  <2>4. QED BY <1>3, <2>1, <2>3, SentBySender
<1>5. CASE HalUnlock(s)
  <2>1. /\ out' = [out EXCEPT ![s] = Idle] /\ lock' = FALSE
        /\ reported' = Append(reported, c)
    BY <1>1, <1>5 DEF HalUnlock, SenderStep, Reported
  <2>2. Sending(Idle)'
    BY <2>1 DEF Sending, Idle
  <2>3. GoesOut(c)'
    BY <1>1, <1>3
  <2>4. QED BY <1>1, <1>3, <2>1, <2>2, <2>3, SentBySender
<1>6. QED BY <1>4, <1>5

(* The DMA sends a frame: it moves from the ring to the wire. *)
LEMMA DmaSendsSent ==
    ASSUME SendInv, SentInv, DmaSends
    PROVE  SentInv'
<1>1. /\ txdma \in TxRing /\ txd \in [TxRing -> TxDescs] /\ BufCells \in Nat
  BY EthernetAssumption DEF SendInv, SendType, TxDescs
<1>2. PICK e \in TxRing : e = txdma
  BY <1>1
<1>3. /\ wire' = Append(wire, SubSeq(txd[e].buf, 1, txd[e].size))
      /\ txd' = [txd EXCEPT ![e].own = FALSE]
      /\ UNCHANGED <<lock, TxDesc, out, reported>>
  BY <1>2 DEF DmaSends
<1>4. /\ \A d \in TxRing : d # e => txd'[d] = txd[d]
      /\ \A d \in TxRing : txd'[d].buf = txd[d].buf /\ (~txd[d].own => ~txd'[d].own)
  BY <1>1, <1>3 DEF TxDescs
<1>5. SubSeq(txd[e].buf, 1, txd[e].size) \in Seq(Cell)
  <2>1. PICK b \in Seq(Cell) : b = txd[e].buf /\ Len(b) = BufCells
    BY <1>1 DEF TxDescs
  <2>2. txd[e].size \in 0..BufCells
    BY <1>1 DEF TxDescs
  <2>3. SubSeq(b, 1, txd[e].size) \in Seq(Cell)
    BY <1>1, <2>1, <2>2
  <2>4. QED BY <2>1, <2>3
<1>6. ASSUME NEW c, GoesOut(c) PROVE GoesOut(c)'
  <2>1. \E w \in Seq(Cell) : wire' = Append(wire, w)
    BY <1>3, <1>5
  <2>2. \A d \in TxRing : txd[d].own =>
          \/ /\ txd'[d].own /\ txd'[d].buf = txd[d].buf /\ txd'[d].size = txd[d].size
          \/ wire' = Append(wire, SubSeq(txd[d].buf, 1, txd[d].size))
    BY <1>3, <1>4
  <2>3. QED BY <1>6, <2>1, <2>2, GoesOutKept
<1>7. ASSUME NEW s \in Senders PROVE Sending(out[s])'
  <2>1. PICK o \in Outputs : o = out[s] /\ o = out'[s] /\ Sending(o)
    BY <1>3, SendFacts DEF SentInv
  <2>2. o.desc \in TxRing
    BY <2>1 DEF Outputs
  <2>3. Sending(o)'
    BY <1>3, <1>4, <1>6, <2>1, <2>2 DEF Sending
  <2>4. QED BY <2>1, <2>3 DEF Sending
<1>8. ASSUME NEW i \in 1..Len(reported') PROVE GoesOut(reported[i])'
  <2>1. PICK c : c = reported[i] /\ c = reported'[i] /\ GoesOut(c)
    BY <1>3 DEF SentInv
  <2>2. GoesOut(c)'
    BY <1>6, <2>1
  <2>3. QED BY <2>1, <2>2 DEF GoesOut, Queued
<1>9. QED BY <1>7, <1>8 DEF SentInv

(* Every step of the driver with one sender. *)
LEMMA SentStep ==
    ASSUME OneSender, SendInv, SentInv, [Next]_vars
    PROVE  SentInv'
<1>1. CASE FrameArrives \/ DmaStores \/ Irq \/ RxThread \/ Tcpip
  <2>1. UNCHANGED tx
    BY <1>1 DEF FrameArrives, DmaStores, Irq, IrqCallback, IrqEnd, RxThread,
                SemaphoreAcquire, GetReceivedFrame, AllocPbufs, CopyBuffer, CopyRest,
                ReleaseDesc, InputReturns, NetifInput, Tcpip, MboxFetch, PacketDone
  <2>2. lock' = lock \/ lock' = FALSE
    BY <1>1 DEF FrameArrives, DmaStores, Irq, IrqCallback, IrqEnd, RxThread,
                SemaphoreAcquire, GetReceivedFrame, AllocPbufs, CopyBuffer, CopyRest,
                ReleaseDesc, InputReturns, NetifInput, Tcpip, MboxFetch, PacketDone
  <2>3. QED BY <2>1, <2>2, SentUntouched
<1>2. CASE DmaSends
  BY <1>2, DmaSendsSent
<1>3. ASSUME NEW s \in Senders, LowLevelOutput(s) PROVE SentInv'
  BY <1>3, LowLevelOutputSent
<1>4. ASSUME NEW s \in Senders, Transmit(s) PROVE SentInv'
  BY <1>4, CheckOwnSent, CopyPbufSent, HalLockSent, GiveToDmaSent, HalUnlockSent
     DEF Transmit
<1>5. CASE UNCHANGED vars
  BY <1>5, SentUntouched DEF vars
<1>6. QED BY <1>1, <1>2, <1>3, <1>4, <1>5 DEF Next, Dma

(* With one sending thread a frame that low_level_output reports with      *)
(* ERR_OK (ethernetif.c:404-478) is on the wire or with the DMA, unchanged, *)
(* although the result of HAL_ETH_TransmitFrame is dropped: it cannot      *)
(* fail.  With two threads it can (run eth_senders).                       *)
THEOREM NothingReportedIsLost ==
    ASSUME OneSender
    PROVE  Spec => []ReportedGoesOut
<1>1. Init => SentInv
  BY SentInit
<1>2. EthIInv /\ PbufInv /\ SendInv /\ SentInv /\ [Next]_vars => SentInv'
  BY SentStep
<1>3. SentInv => ReportedGoesOut
  BY DEF SentInv, ReportedGoesOut, GoesOut
<1>4. QED BY <1>1, <1>2, <1>3, FramesInvariant, PTL DEF Spec

-----------------------------------------------------------------------------
(* Packets arrive intact.  The invariant reads the closed descriptors as a *)
(* window: c of them from t on, the first h scanned and not yet released.  *)

RxDescs == [own : BOOLEAN, fs : BOOLEAN, ls : BOOLEAN, fl : Nat,
            buf : [1..BufCells -> Cell]]
Views == [0..(RxN - 1) -> RxDescs]

(* The ring as seen from descriptor t. *)
View(t) == [i \in 0..(RxN - 1) |-> rxd[(t + i) % RxN]]

(* The frame a segment is of, the cells before the segment and the frame's *)
(* size, as its first cell tells them.                                     *)
Num(f) == f.buf[1][1]
Pos(f) == f.buf[1][2] - 1
Siz(f) == f.buf[1][3]

(* A closed descriptor holds consecutive cells of one frame, from a        *)
(* multiple of the buffer on and as many as there are or fit.              *)
Segment(f) ==
    /\ Pos(f) >= 0 /\ Pos(f) < f.fl /\ f.fl <= Siz(f) /\ f.fl <= Pos(f) + BufCells
    /\ \A k \in 1..(f.fl - Pos(f)) : f.buf[k] = <<Num(f), Pos(f) + k, Siz(f)>>
    /\ Pos(f) % BufCells = 0
    /\ f.fl < Siz(f) => f.fl = Pos(f) + BufCells
    /\ f.fs <=> Pos(f) = 0
    /\ ~f.ls => f.fl < Siz(f)

(* The next segment continues the frame or begins a later one. *)
Follows(f, g) ==
    /\ f.ls => g.fs /\ Num(f) < Num(g)
    /\ ~f.ls => Num(g) = Num(f) /\ Siz(g) = Siz(f) /\ Pos(g) = f.fl

(* Segments i to j belong to one frame unless it ends between them. *)
Ordered(f, g) == Num(f) <= Num(g)
SameFrame(f, g) == Num(f) = Num(g) /\ Siz(f) = Siz(g)

(* The window: the descriptors behind it are the DMA's, and within it      *)
(* frames follow each other.                                               *)
Window(q, c) ==
    /\ \A i \in 0..(RxN - 1) : q[i].own <=> i >= c
    /\ \A i \in 0..(c - 1) : Segment(q[i])
    /\ \A i \in 0..(c - 2) : Follows(q[i], q[i + 1])
    /\ \A i \in 0..(c - 1) : \A j \in i..(c - 1) :
          /\ Ordered(q[i], q[j])
          /\ (\A k \in i..(j - 1) : ~q[k].ls) => SameFrame(q[i], q[j])

(* The newest frame that may be complete. *)
Newest == IF rxframe = NoFrame THEN rxcount ELSE rxcount - 1

(* The frame the DMA is storing, and the end of the window. *)
Arriving(q, c) ==
    /\ rxframe # NoFrame =>
          /\ c < RxN /\ rxcount >= 1
          /\ rxframe.cells = Frame(rxcount, Len(rxframe.cells))
          /\ rxframe.done < Len(rxframe.cells) /\ rxframe.done % BufCells = 0
    /\ c > 0 /\ (rxframe = NoFrame \/ rxframe.done = 0) =>
          q[c - 1].ls /\ Num(q[c - 1]) <= Newest
    /\ rxframe # NoFrame /\ rxframe.done > 0 =>
          /\ c > 0 /\ ~q[c - 1].ls /\ q[c - 1].fl = rxframe.done
          /\ Num(q[c - 1]) = rxcount /\ Siz(q[c - 1]) = Len(rxframe.cells)

(* Where the descriptors that the handle names are in the window. *)
Marks(t, c, h) ==
    /\ rxdma = (t + c) % RxN
    /\ h \in 0..c /\ RxDesc = (t + h) % RxN
    /\ rpc = "release" => SegCount = released + h /\ t = (FSRxDesc + released) % RxN
    /\ rpc # "release" => SegCount = h /\ (h > 0 => t = FSRxDesc)

(* What the receive thread has scanned: the beginning of a frame, the      *)
(* whole of one, or what is left of it to release.  Only a chain is handed *)
(* on.                                                                     *)
Scan(q, c, h) ==
    /\ rpc # "release" /\ h > 0 => q[0].fs
    /\ rpc \in {"wait", "get"} =>
          /\ \A i \in 0..(h - 1) : ~q[i].ls
          /\ h = 0 /\ c > 0 => q[0].fs
    /\ rpc \notin {"wait", "get"} =>
          /\ \A i \in 0..(h - 1) : q[i].ls <=> i = h - 1
          /\ h < c => q[h].fs
    /\ rpc \in {"alloc", "copy"} => h >= 1 /\ length = q[h - 1].fl
    /\ rpc = "input" => h = 0 /\ hand # <<>>

(* A chain that holds a frame from its first cell on, whole or cut at the  *)
(* end of a buffer.                                                        *)
Begins(p, n, m) == \A k \in 1..Len(p) : p[k] = <<n, k, m>>
Packet(p) ==
    /\ p # <<>> /\ Begins(p, p[1][1], p[1][3]) /\ Len(p) <= p[1][3]
    /\ Len(p) = p[1][3] \/ Len(p) % BufCells = 0

(* The copy loops: what has been copied is the beginning of the frame, and *)
(* the next cell is where they look.                                       *)
Copied(q, t, h) ==
    rpc = "copy" =>
        /\ Begins(hand, Num(q[0]), Siz(q[0]))
        /\ \E j \in 0..(h - 1) :
              copy.desc = (t + j) % RxN /\ Pos(q[j]) + copy.off = Len(hand)

(* The chain in the receive thread's hands, complete. *)
Handed == rpc \in {"release", "input"} /\ hand # <<>>
InHands(q, c, h) ==
    Handed =>
        /\ Packet(hand) /\ hand[1][1] <= Newest
        /\ \A i \in h..(c - 1) : hand[1][1] < Num(q[i])

(* The chains with lwIP: intact, in order, and older than the others. *)
Older(p, q, c) ==
    /\ Packet(p) /\ p[1][1] <= Newest
    /\ \A i \in 0..(c - 1) : p[1][1] < Num(q[i])
    /\ Handed => p[1][1] < hand[1][1]
Chains(q, c) ==
    /\ inp # <<>> =>
          /\ Older(inp, q, c)
          /\ \A i \in 1..Len(mbox) : inp[1][1] < mbox[i][1][1]
    /\ \A i \in 1..Len(mbox) : Older(mbox[i], q, c)
    /\ \A i, j \in 1..Len(mbox) : i < j => mbox[i][1][1] < mbox[j][1][1]

Received(q, t, c, h) ==
    /\ Window(q, c) /\ Arriving(q, c) /\ Marks(t, c, h) /\ Scan(q, c, h)
    /\ Copied(q, t, h) /\ InHands(q, c, h) /\ Chains(q, c)
PacketInv ==
    \E t \in RxRing, c \in 0..RxN, h \in 0..RxN :
        \E q \in {View(t)} : Received(q, t, c, h)

-----------------------------------------------------------------------------
(* Two places of the ring, the same descriptor: the same place. *)
LEMMA Distinct ==
    ASSUME NEW t \in RxRing, NEW i \in 0..(RxN - 1), NEW j \in 0..(RxN - 1),
           (t + i) % RxN = (t + j) % RxN
    PROVE  i = j
<1>1. RxN \in Nat /\ RxN > 1 /\ t \in Nat /\ t < RxN
  BY EthernetAssumption DEF RxRing
<1>2. ASSUME NEW k \in 0..(RxN - 1)
      PROVE  (t + k) % RxN = IF t + k < RxN THEN t + k ELSE t + k - RxN
  <2>1. PICK a \in Nat : a = t + k /\ a < RxN + RxN
    BY <1>1
  <2>2. a % RxN = IF a < RxN THEN a ELSE a - RxN
    BY <2>1, RxMod
  <2>3. QED BY <1>1, <2>1, <2>2
<1>3. PICK a \in Nat, b \in Nat :
        /\ a = (IF t + i < RxN THEN t + i ELSE t + i - RxN)
        /\ b = (IF t + j < RxN THEN t + j ELSE t + j - RxN)
        /\ a = b
  <2>1. (IF t + i < RxN THEN t + i ELSE t + i - RxN) \in Nat
    BY <1>1
  <2>2. QED BY <1>2, <2>1
<1>4. QED BY <1>1, <1>3

(* Going on from a place of the ring. *)
LEMMA Shift ==
    ASSUME NEW t \in RxRing, NEW h \in 0..RxN, NEW i \in 0..RxN, h + i <= RxN
    PROVE  (((t + h) % RxN) + i) % RxN = (t + (h + i)) % RxN
<1>1. RxN \in Nat /\ RxN > 1 /\ t \in Nat /\ t < RxN /\ h \in Nat /\ i \in Nat
  BY EthernetAssumption DEF RxRing
<1>2. PICK a \in Nat : a = t + h /\ a < RxN + RxN
  BY <1>1
<1>3. a % RxN = IF a < RxN THEN a ELSE a - RxN
  BY <1>2, RxMod
<1>4. PICK b \in Nat : b = t + (h + i) /\ b < RxN + RxN
  BY <1>1
<1>5. b % RxN = IF b < RxN THEN b ELSE b - RxN
  BY <1>4, RxMod
<1>6. PICK r \in Nat : r = a % RxN /\ r < RxN
  BY <1>1, <1>2, <1>3
<1>7. PICK c \in Nat : c = r + i /\ c < RxN + RxN
  BY <1>1, <1>6
<1>8. c % RxN = IF c < RxN THEN c ELSE c - RxN
  BY <1>7, RxMod
<1>9. c % RxN = b % RxN
  <2>1. CASE a < RxN
    BY <1>1, <1>2, <1>3, <1>4, <1>6, <1>7, <2>1
  <2>2. CASE ~(a < RxN)
    <3>1. c = b - RxN
      BY <1>1, <1>2, <1>3, <1>4, <1>6, <1>7, <2>2
    <3>2. c < RxN /\ ~(b < RxN)
      BY <1>1, <1>4, <1>7, <3>1
    <3>3. QED BY <1>5, <1>8, <3>1, <3>2
  <2>3. QED BY <2>1, <2>2
<1>10. QED BY <1>2, <1>4, <1>6, <1>7, <1>9

(* What a first cell tells is a number. *)
LEMMA DescNumbers ==
    ASSUME NEW f \in RxDescs
    PROVE  Num(f) \in Nat /\ Pos(f) \in Int /\ Siz(f) \in Nat /\ f.fl \in Nat
<1>1. BufCells \in Nat /\ 1 \in 1..BufCells
  BY EthernetAssumption
<1>2. f.buf[1] \in Cell /\ f.fl \in Nat
  BY <1>1 DEF RxDescs
<1>3. f.buf[1][1] \in Nat /\ f.buf[1][2] \in Nat /\ f.buf[1][3] \in Nat
  BY <1>2 DEF Cell
<1>4. QED BY <1>2, <1>3 DEF Num, Pos, Siz

(* A view of the ring and its descriptors. *)
LEMMA ViewType ==
    ASSUME RxType, NEW t \in RxRing
    PROVE  /\ View(t) \in Views
           /\ \A i \in 0..(RxN - 1) :
                 (t + i) % RxN \in RxRing /\ View(t)[i] = rxd[(t + i) % RxN]
<1>1. \A i \in 0..(RxN - 1) : (t + i) % RxN \in RxRing
  <2>1. ASSUME NEW i \in 0..(RxN - 1) PROVE (t + i) % RxN \in RxRing
    <3>1. i \in 0..RxN
      BY EthernetAssumption
    <3>2. QED BY <3>1, Walk
  <2>2. QED BY <2>1
<1>2. QED BY <1>1 DEF RxType, View, Views, RxDescs

(* One segment more at the end of a window. *)
LEMMA WindowAppend ==
    ASSUME NEW q \in Views, NEW r \in Views, NEW c \in 0..RxN, c < RxN,
           Window(q, c), \A i \in 0..(RxN - 1) : i # c => r[i] = q[i],
           ~r[c].own, Segment(r[c]), c > 0 => Follows(q[c - 1], r[c])
    PROVE  Window(r, c + 1)
<1>1. RxN \in Nat /\ c \in Nat /\ c \in 0..(RxN - 1)
  BY EthernetAssumption
<1>2. \A i \in 0..(c - 1) : i \in 0..(RxN - 1) /\ r[i] = q[i]
  BY <1>1
<1>3. \A i \in 0..(RxN - 1) : r[i].own <=> i >= c + 1
  BY <1>1 DEF Window
<1>4. \A i \in 0..(c + 1 - 1) : Segment(r[i])
  BY <1>1, <1>2 DEF Window
<1>5. ASSUME NEW i \in 0..(c + 1 - 2) PROVE Follows(r[i], r[i + 1])
  <2>1. CASE i = c - 1
    BY <1>1, <1>2, <2>1
  <2>2. CASE i # c - 1
    <3>1. i \in 0..(c - 2) /\ i \in 0..(c - 1) /\ i + 1 \in 0..(c - 1)
      BY <1>1, <2>2
    <3>2. QED BY <1>2, <3>1 DEF Window
  <2>3. QED BY <2>1, <2>2
<1>6. ASSUME NEW i \in 0..(c + 1 - 1), NEW j \in i..(c + 1 - 1)
      PROVE  /\ Ordered(r[i], r[j])
             /\ (\A k \in i..(j - 1) : ~r[k].ls) => SameFrame(r[i], r[j])
  <2>1. i \in Nat /\ j \in Nat /\ i <= j /\ j <= c
    BY <1>1
  <2>2. CASE j < c
    <3>1. i \in 0..(c - 1) /\ j \in i..(c - 1) /\ \A k \in i..(j - 1) : k \in 0..(c - 1)
      BY <1>1, <2>1, <2>2
    <3>2. r[i] = q[i] /\ r[j] = q[j] /\ \A k \in i..(j - 1) : r[k] = q[k]
      BY <1>2, <2>1, <2>2, <3>1
    <3>3. QED BY <3>1, <3>2 DEF Window
  <2>3. CASE i = c /\ j = c
    <3>1. r[c] \in RxDescs
      BY <1>1 DEF Views
    <3>2. QED BY <2>3, <3>1, DescNumbers DEF Ordered, SameFrame
  <2>4. CASE i < c /\ j = c
    <3>1. i \in 0..(c - 1) /\ c - 1 \in i..(c - 1) /\ c - 1 \in 0..(c - 1) /\ c > 0
      BY <1>1, <2>1, <2>4
    <3>2. /\ Ordered(q[i], q[c - 1])
          /\ (\A k \in i..(c - 1 - 1) : ~q[k].ls) => SameFrame(q[i], q[c - 1])
      BY <3>1 DEF Window
    <3>3. Follows(q[c - 1], r[c])
      BY <3>1
    <3>4. q[i] \in RxDescs /\ q[c - 1] \in RxDescs /\ r[c] \in RxDescs
      BY <1>1, <1>2, <3>1 DEF Views
    <3>5. Num(q[i]) \in Nat /\ Num(q[c - 1]) \in Nat /\ Num(r[c]) \in Nat
      BY <3>4, DescNumbers
    <3>6. Ordered(q[i], r[c])
      BY <3>2, <3>3, <3>5 DEF Ordered, Follows
    <3>7. ASSUME \A k \in i..(c - 1) : ~r[k].ls PROVE SameFrame(q[i], r[c])
      <4>1. ~q[c - 1].ls
        BY <1>2, <3>1, <3>7
      <4>2. ASSUME NEW k \in i..(c - 1 - 1) PROVE ~q[k].ls
        <5>1. k \in i..(c - 1) /\ k \in 0..(c - 1)
          BY <1>1, <2>1
        <5>2. QED BY <1>2, <3>7, <5>1
      <4>3. QED BY <3>2, <3>3, <4>1, <4>2 DEF SameFrame, Follows
    <3>8. r[i] = q[i]
      BY <1>2, <3>1
    <3>9. QED BY <2>4, <3>6, <3>7, <3>8
  <2>5. QED BY <2>1, <2>2, <2>3, <2>4
<1>7. QED BY <1>3, <1>4, <1>5, <1>6 DEF Window

(* One segment less at the beginning. *)
LEMMA WindowDrop ==
    ASSUME NEW q \in Views, NEW r \in Views, NEW c \in 0..RxN, c > 0, Window(q, c),
           \A i \in 0..(RxN - 2) : r[i] = q[i + 1], r[RxN - 1].own
    PROVE  Window(r, c - 1)
<1>1. RxN \in Nat /\ RxN > 1 /\ c \in Nat
  BY EthernetAssumption
<1>2. \A i \in 0..(c - 1 - 1) : /\ i \in 0..(RxN - 2) /\ r[i] = q[i + 1]
                               /\ i + 1 \in 0..(c - 1)
  BY <1>1
<1>3. ASSUME NEW i \in 0..(RxN - 1) PROVE r[i].own <=> i >= c - 1
  <2>1. CASE i = RxN - 1
    BY <1>1, <2>1
  <2>2. CASE i # RxN - 1
    <3>1. i \in 0..(RxN - 2) /\ i + 1 \in 0..(RxN - 1)
      BY <1>1, <2>2
    <3>2. q[i + 1].own <=> i + 1 >= c
      BY <3>1 DEF Window
    <3>3. QED BY <1>1, <3>1, <3>2
  <2>3. QED BY <2>1, <2>2
<1>4. \A i \in 0..(c - 1 - 1) : Segment(r[i])
  BY <1>2 DEF Window
<1>5. ASSUME NEW i \in 0..(c - 1 - 2) PROVE Follows(r[i], r[i + 1])
  <2>1. /\ i \in 0..(c - 1 - 1) /\ i + 1 \in 0..(c - 1 - 1) /\ i + 1 \in 0..(c - 2)
    BY <1>1
  <2>2. r[i] = q[i + 1] /\ r[i + 1] = q[i + 1 + 1]
    BY <1>2, <2>1
  <2>3. QED BY <2>1, <2>2 DEF Window
<1>6. ASSUME NEW i \in 0..(c - 1 - 1), NEW j \in i..(c - 1 - 1)
      PROVE  /\ Ordered(r[i], r[j])
             /\ (\A k \in i..(j - 1) : ~r[k].ls) => SameFrame(r[i], r[j])
  <2>1. i + 1 \in 0..(c - 1) /\ j + 1 \in (i + 1)..(c - 1) /\ j \in 0..(c - 1 - 1)
    BY <1>1
  <2>2. r[i] = q[i + 1] /\ r[j] = q[j + 1]
    BY <1>2, <2>1
  <2>3. /\ Ordered(q[i + 1], q[j + 1])
        /\ (\A k \in (i + 1)..(j + 1 - 1) : ~q[k].ls) => SameFrame(q[i + 1], q[j + 1])
    BY <2>1 DEF Window
  <2>4. ASSUME \A k \in i..(j - 1) : ~r[k].ls, NEW k \in (i + 1)..(j + 1 - 1)
        PROVE  ~q[k].ls
    <3>1. k - 1 \in i..(j - 1) /\ k - 1 \in 0..(c - 1 - 1) /\ k - 1 + 1 = k
      BY <1>1
    <3>2. r[k - 1] = q[k]
      BY <1>2, <3>1
    <3>3. QED BY <2>4, <3>1, <3>2
  <2>5. QED BY <2>2, <2>3, <2>4
<1>7. QED BY <1>3, <1>4, <1>5, <1>6 DEF Window

-----------------------------------------------------------------------------
(* A window is shown by naming it. *)
LEMMA Witnessed ==
    ASSUME NEW t \in RxRing, NEW c \in 0..RxN, NEW h \in 0..RxN, NEW q,
           q = View(t)', Window(q, c), Arriving(q, c)', Marks(t, c, h)', Scan(q, c, h)',
           Copied(q, t, h)', InHands(q, c, h)', Chains(q, c)'
    PROVE  PacketInv'
<1>1. Window(q, c)'
  BY DEF Window, Segment, Follows, Ordered, SameFrame, Num, Pos, Siz
<1>2. Received(q, t, c, h)'
  BY <1>1 DEF Received
<1>3. QED BY <1>2 DEF PacketInv

(* At the start the window is empty. *)
LEMMA PacketInit == Init => PacketInv
<1> SUFFICES ASSUME Init PROVE PacketInv
  OBVIOUS
<1>1. RxN \in Nat /\ RxN > 1 /\ 0 \in RxRing /\ 0 \in 0..RxN /\ 0 \in 0..0
  BY EthernetAssumption DEF RxRing
<1>2. RxType
  BY InitIInv DEF EthIInv
<1>3. PICK q : q = View(0) /\ q \in Views
               /\ \A i \in 0..(RxN - 1) : q[i] = rxd[(0 + i) % RxN] /\ (0 + i) % RxN \in RxRing
  BY <1>1, <1>2, ViewType
<1>4. Window(q, 0)
  <2>1. \A i \in 0..(RxN - 1) : q[i].own /\ i >= 0
    BY <1>3 DEF Init
  <2>2. QED BY <2>1 DEF Window
<1>5. (0 + 0) % RxN = 0
  BY <1>1, Walk
<1>6. Marks(0, 0, 0)
  BY <1>1, <1>5 DEF Init, Marks
<1>7. Arriving(q, 0) /\ Scan(q, 0, 0)
  BY DEF Init, Arriving, Scan
<1>8. Copied(q, 0, 0) /\ InHands(q, 0, 0) /\ Chains(q, 0)
  BY DEF Init, Copied, InHands, Handed, Chains
<1>9. Received(q, 0, 0, 0)
  BY <1>4, <1>6, <1>7, <1>8 DEF Received
<1>10. QED BY <1>1, <1>3, <1>9 DEF PacketInv

(* The chains with lwIP and in hand, while the newest frame grows newer    *)
(* and the window keeps its numbers or loses some.                         *)
LEMMA ChainsKept ==
    ASSUME NEW q, NEW r, NEW c \in Nat, NEW e \in Nat, Chains(q, c),
           UNCHANGED <<mbox, inp>>, mbox \in Seq(Seq(Cell)), inp \in Seq(Cell),
           \A n \in Nat : n <= Newest => n <= Newest',
           \A n \in Nat : n <= Newest /\ (\A i \in 0..(c - 1) : n < Num(q[i])) =>
              /\ \A i \in 0..(e - 1) : n < Num(r[i])
              /\ Handed' => n < hand'[1][1] \/ (Handed /\ hand' = hand)
    PROVE  Chains(r, e)'
<1>1. ASSUME NEW p \in Seq(Cell), Older(p, q, c) PROVE Older(p, r, e)'
  <2>1. Packet(p) /\ p # <<>> /\ p[1][1] <= Newest
    BY <1>1 DEF Older, Packet
  <2>2. p[1][1] \in Nat
    <3>1. 1 \in 1..Len(p)
      BY <2>1
    <3>2. QED BY <3>1 DEF Cell
  <2>3. /\ p[1][1] <= Newest'
        /\ \A i \in 0..(e - 1) : p[1][1] < Num(r[i])
        /\ Handed' => p[1][1] < hand'[1][1]
    BY <1>1, <2>1, <2>2 DEF Older
  <2>4. Packet(p)'
    BY <2>1 DEF Packet, Begins
  <2>5. (\A i \in 0..(e - 1) : p[1][1] < Num(r[i]))'
    BY <2>3 DEF Num
  <2>6. QED BY <2>3, <2>4, <2>5 DEF Older
<1>2. inp' # <<>> => /\ Older(inp, r, e)'
                     /\ \A i \in 1..Len(mbox') : inp'[1][1] < mbox'[i][1][1]
  <2>1. PICK p \in Seq(Cell) : p = inp /\ p = inp'
    OBVIOUS
  <2>2. p # <<>> => Older(p, q, c)
    BY <2>1 DEF Chains
  <2>3. p # <<>> => Older(p, r, e)'
    BY <1>1, <2>2
  <2>4. QED BY <2>1, <2>3 DEF Chains, Older
<1>3. ASSUME NEW i \in 1..Len(mbox') PROVE Older(mbox[i], r, e)'
  <2>1. PICK p \in Seq(Cell) : p = mbox[i] /\ p = mbox'[i] /\ Older(p, q, c)
    BY DEF Chains
  <2>2. Older(p, r, e)'
    BY <1>1, <2>1
  <2>3. QED BY <2>1, <2>2 DEF Older
<1>4. QED BY <1>2, <1>3 DEF Chains

(* Steps that leave the receive side and lwIP alone. *)
LEMMA PacketUntouched ==
    ASSUME PacketInv, UNCHANGED <<ring, thread, mbox, inp>>
    PROVE  PacketInv'
<1> USE DEF ring, thread
<1>1. PICK t \in RxRing, c \in 0..RxN, h \in 0..RxN : \E q \in {View(t)} : Received(q, t, c, h)
  BY DEF PacketInv
<1>2. PICK q : q = View(t) /\ Received(q, t, c, h)
  BY <1>1
<1>3. q = View(t)'
  BY <1>2 DEF View
<1>4. Window(q, c)
  BY <1>2 DEF Received
<1>5. Arriving(q, c)' /\ Marks(t, c, h)'
  BY <1>2 DEF Received, Arriving, Marks, Newest
<1>6. Scan(q, c, h)' /\ Copied(q, t, h)' /\ InHands(q, c, h)'
  BY <1>2 DEF Received, Scan, Copied, InHands, Handed, Newest
<1>7. Chains(q, c)'
  BY <1>2 DEF Received, Chains, Older, Handed, Newest
<1>8. QED BY <1>3, <1>4, <1>5, <1>6, <1>7, Witnessed

(* The token is taken. *)
LEMMA SemaphoreAcquirePacket ==
    ASSUME PacketInv, SemaphoreAcquire
    PROVE  PacketInv'
<1> USE DEF ring, lwip, SemaphoreAcquire
<1>1. PICK t \in RxRing, c \in 0..RxN, h \in 0..RxN : \E q \in {View(t)} : Received(q, t, c, h)
  BY DEF PacketInv
<1>2. PICK q : q = View(t) /\ Received(q, t, c, h)
  BY <1>1
<1>3. q = View(t)'
  BY <1>2 DEF View
<1>4. Window(q, c)
  BY <1>2 DEF Received
<1>5. Arriving(q, c)' /\ Marks(t, c, h)'
  BY <1>2 DEF Received, Arriving, Marks, Newest
<1>6. Scan(q, c, h)' /\ Copied(q, t, h)' /\ InHands(q, c, h)'
  BY <1>2 DEF Received, Scan, Copied, InHands, Handed, Newest
<1>7. Chains(q, c)'
  BY <1>2 DEF Received, Chains, Older, Handed, Newest
<1>8. QED BY <1>3, <1>4, <1>5, <1>6, <1>7, Witnessed

(* The window of a state, with the ring read through it. *)
LEMMA Named ==
    ASSUME EthIInv, PacketInv
    PROVE  \E t \in RxRing, c \in 0..RxN, h \in 0..RxN, q \in Views :
              /\ q = View(t) /\ Received(q, t, c, h)
              /\ \A i \in 0..(RxN - 1) :
                    (t + i) % RxN \in RxRing /\ q[i] = rxd[(t + i) % RxN]
<1>1. PICK t \in RxRing, c \in 0..RxN, h \in 0..RxN : \E q \in {View(t)} : Received(q, t, c, h)
  BY DEF PacketInv
<1>2. RxType
  BY DEF EthIInv
<1>3. QED BY <1>1, <1>2, ViewType

(* A frame begins, newer than every other. *)
LEMMA FrameArrivesPacket ==
    ASSUME EthIInv, RestType, PacketInv, FrameArrives
    PROVE  PacketInv'
<1> USE DEF thread, lwip
<1>1. PICK t \in RxRing, c \in 0..RxN, h \in 0..RxN, q \in Views :
        /\ q = View(t) /\ Received(q, t, c, h)
        /\ \A i \in 0..(RxN - 1) :
              (t + i) % RxN \in RxRing /\ q[i] = rxd[(t + i) % RxN]
  BY Named
<1>2. /\ rxframe = NoFrame /\ rxcount' = rxcount + 1
      /\ UNCHANGED <<rxd, rxdma, thread, lwip>>
  BY DEF FrameArrives
<1>3. RxN \in Nat /\ RxN > 1 /\ rxcount \in Nat /\ c \in Nat /\ BufCells \in Nat \ {0}
  BY EthernetAssumption DEF EthIInv, RxType
<1>4. \/ rxframe' = NoFrame
      \/ /\ rxd[rxdma].own
         /\ \E m \in Nat : m >= 1 /\ rxframe' = [cells |-> Frame(rxcount + 1, m), done |-> 0]
  <2>1. PICK m \in RxLens :
          rxframe' = IF rxd[rxdma].own
                     THEN [cells |-> Frame(rxcount + 1, m), done |-> 0]
                     ELSE NoFrame
    BY DEF FrameArrives
  <2>2. m \in Nat /\ m >= 1
    BY EthernetAssumption
  <2>3. QED BY <2>1, <2>2
<1>5. Newest = rxcount /\ (Newest' = rxcount \/ Newest' = rxcount + 1)
  BY <1>2, <1>3 DEF Newest
<1>6. \A n \in Nat : n <= Newest => n <= Newest'
  BY <1>3, <1>5
<1>7. q = View(t)'
  BY <1>1, <1>2 DEF View
<1>8. Window(q, c)
  BY <1>1 DEF Received
<1>9. Marks(t, c, h)' /\ Scan(q, c, h)' /\ Copied(q, t, h)'
  BY <1>1, <1>2 DEF Received, Marks, Scan, Copied
<1>10. InHands(q, c, h)'
  <2>1. hand \in Seq(Cell)
    BY DEF EthIInv, RxType
  <2>2. hand # <<>> => hand[1][1] \in Nat
    <3>1. hand # <<>> => 1 \in 1..Len(hand)
      BY <2>1
    <3>2. QED BY <2>1, <3>1 DEF Cell
  <2>3. Handed' = Handed /\ hand' = hand
    BY <1>2 DEF Handed
  <2>4. Handed => hand # <<>> /\ hand'[1][1] <= Newest'
    BY <1>1, <1>6, <2>2, <2>3 DEF Received, InHands, Handed
  <2>5. QED BY <1>1, <2>3, <2>4 DEF Received, InHands
<1>11. Chains(q, c)'
  <2>1. Chains(q, c) /\ UNCHANGED <<mbox, inp, hand>> /\ Handed' = Handed
    BY <1>1, <1>2 DEF Received, Handed
  <2>2. mbox \in Seq(Seq(Cell)) /\ inp \in Seq(Cell)
    BY DEF RestType
  <2>3. QED BY <1>3, <1>6, <2>1, <2>2, ChainsKept
<1>12. Arriving(q, c)'
  <2>1. c > 0 => q[c - 1].ls /\ Num(q[c - 1]) <= rxcount
    BY <1>1, <1>2, <1>5 DEF Received, Arriving
  <2>2. c > 0 => Num(q[c - 1]) \in Nat
    <3>1. c > 0 => c - 1 \in 0..(RxN - 1)
      BY <1>3
    <3>2. QED BY <3>1, DescNumbers DEF Views
  <2>3. c > 0 => Num(q[c - 1]) <= Newest'
    BY <1>3, <1>5, <2>1, <2>2
  <2>4. CASE rxframe' = NoFrame
    BY <2>1, <2>3, <2>4 DEF Arriving
  <2>5. CASE rxd[rxdma].own /\ rxframe' # NoFrame
    <3>1. PICK m \in Nat : m >= 1 /\ rxframe' = [cells |-> Frame(rxcount + 1, m), done |-> 0]
      BY <1>4, <2>5
    <3>2. /\ rxframe'.cells = Frame(rxcount', m) /\ rxframe'.done = 0
          /\ Len(rxframe'.cells) = m
      <4>1. Len(Frame(rxcount + 1, m)) = m
        BY DEF Frame
      <4>2. QED BY <1>2, <3>1, <4>1
    <3>3. c < RxN
      <4>1. SUFFICES ASSUME c = RxN PROVE FALSE
        BY <1>3
      <4>2. rxdma = (t + 0) % RxN
        <5>1. (t + RxN) % RxN = t /\ (t + 0) % RxN = t
          <6>1. 0 \in 0..RxN
            BY <1>3
          <6>2. QED BY <6>1, Walk
        <5>2. rxdma = (t + c) % RxN
          BY <1>1 DEF Received, Marks
        <5>3. QED BY <4>1, <5>1, <5>2
      <4>3. 0 \in 0..(RxN - 1) /\ ~(0 >= RxN)
        BY <1>3
      <4>4. ~q[0].own
        BY <1>8, <4>1, <4>3 DEF Window
      <4>5. QED BY <1>1, <2>5, <4>2, <4>3, <4>4
    <3>4. 0 % BufCells = 0
      BY <1>3
    <3>5. rxcount' >= 1 /\ ~(0 > 0)
      BY <1>2, <1>3
    <3>6. QED BY <2>1, <2>3, <3>1, <3>2, <3>3, <3>4, <3>5 DEF Arriving
  <2>6. QED BY <1>4, <2>4, <2>5
<1>13. QED BY <1>7, <1>8, <1>9, <1>10, <1>11, <1>12, Witnessed

-----------------------------------------------------------------------------
(* There is one remainder only. *)
LEMMA Remainder ==
    ASSUME NEW N \in Nat \ {0}, NEW a \in Nat, NEW q \in Int, NEW r \in 0..(N - 1),
           a = N * q + r
    PROVE  a % N = r
<1> DEFINE p == a \div N
           s == a % N
<1>1. p \in Int /\ s \in Int /\ 0 <= s /\ s < N /\ a = N * p + s
  OBVIOUS
<1> HIDE DEF p, s
<1>2. PICK x \in Int : x = p - q
  BY <1>1
<1>3. p = x + q
  BY <1>1, <1>2
<1>4. N * x = r - s
  <2>1. N * (x + q) = N * x + N * q
    BY <1>2
  <2>2. N * x \in Int /\ N * q \in Int
    BY <1>2
  <2>3. QED BY <1>1, <1>3, <2>1, <2>2
<1>5. ~(x >= 1)
  BY <1>1, <1>4
<1>6. ~(x <= -1)
  BY <1>1, <1>4
<1>7. x = 0
  BY <1>5, <1>6
<1>8. s = r
  BY <1>1, <1>4, <1>7
<1>9. QED BY <1>8 DEF s

(* A buffer further is still the beginning of a buffer. *)
LEMMA BufferMultiple ==
    ASSUME NEW a \in Nat, a % BufCells = 0
    PROVE  (a + BufCells) % BufCells = 0
<1>1. PICK B \in Nat \ {0} : B = BufCells
  BY EthernetAssumption
<1> DEFINE q == a \div B
           s == a % B
<1>2. q \in Int /\ s = 0 /\ a = B * q + s
  BY <1>1
<1> HIDE DEF q, s
<1>3. PICK b \in Nat, p \in Int : b = a + B /\ p = q + 1
  BY <1>1, <1>2
<1>4. b = B * p + 0 /\ 0 \in 0..(B - 1)
  BY <1>1, <1>2, <1>3
<1>5. b % B = 0
  BY <1>4, Remainder
<1>6. QED BY <1>1, <1>3, <1>5

(* The descriptor after the one where a count of any size ends. *)
LEMMA NextAround ==
    ASSUME NEW a \in Nat
    PROVE  NextRx(a % RxN) = (a + 1) % RxN
<1>1. PICK N \in Nat \ {0} : N = RxN
  BY EthernetAssumption
<1> DEFINE q == a \div N
           s == a % N
<1>2. q \in Int /\ s \in Int /\ 0 <= s /\ s < N /\ a = N * q + s
  BY <1>1
<1>3. NextRx(a % RxN) = (s + 1) % N
  BY <1>1 DEF NextRx
<1> HIDE DEF q, s
<1>4. PICK b \in Nat, d \in Nat, p \in Int : b = a + 1 /\ d = s + 1 /\ p = q + 1
  BY <1>2
<1>5. CASE d < N
  <2>1. d \in 0..(N - 1) /\ b = N * q + d /\ d = N * 0 + d /\ 0 \in Int
    BY <1>2, <1>4, <1>5
  <2>2. b % N = d /\ d % N = d
    BY <1>2, <2>1, Remainder
  <2>3. QED BY <1>1, <1>3, <1>4, <2>2
<1>6. CASE ~(d < N)
  <2>1. d = N
    BY <1>2, <1>4, <1>6
  <2>2. 0 \in 0..(N - 1) /\ b = N * p + 0 /\ d = N * 1 + 0 /\ 1 \in Int
    BY <1>2, <1>4, <2>1
  <2>3. b % N = 0 /\ d % N = 0
    BY <1>4, <2>2, Remainder
  <2>4. QED BY <1>1, <1>3, <1>4, <2>3
<1>7. QED BY <1>5, <1>6

(* What the DMA writes into a descriptor. *)
LEMMA StoredSegment ==
    ASSUME NEW n \in Nat, NEW m \in Nat, NEW a \in Nat, a < m, a % BufCells = 0,
           NEW e \in Nat, e = IF a + BufCells < m THEN a + BufCells ELSE m,
           NEW last \in BOOLEAN, e = m => last,
           NEW f, f = [own |-> FALSE, fs |-> a = 0, ls |-> last, fl |-> e,
                       buf |-> Pad(SubSeq(Frame(n, m), a + 1, e))]
    PROVE  /\ f \in RxDescs /\ Segment(f) /\ ~f.own
           /\ Num(f) = n /\ Pos(f) = a /\ Siz(f) = m /\ f.fl = e
           /\ (f.ls <=> last) /\ (f.fs <=> a = 0)
<1>1. BufCells \in Nat \ {0} /\ e > a /\ e <= m /\ e <= a + BufCells
  BY EthernetAssumption
<1> DEFINE seg == SubSeq(Frame(n, m), a + 1, e)
<1>2. /\ seg \in Seq(Cell) /\ Len(seg) = e - a
      /\ \A k \in 1..(e - a) : seg[k] = <<n, a + k, m>>
  <2>1. PICK F \in Seq(Cell) : F = Frame(n, m) /\ Len(F) = m
                               /\ \A k \in 1..m : F[k] = <<n, k, m>>
    <3>1. Frame(n, m) \in Seq(Cell) /\ Len(Frame(n, m)) = m
      BY DEF Frame, Cell
    <3>2. \A k \in 1..m : Frame(n, m)[k] = <<n, k, m>>
      BY DEF Frame
    <3>3. QED BY <3>1, <3>2
  <2>2. /\ SubSeq(F, a + 1, e) \in Seq(Cell) /\ Len(SubSeq(F, a + 1, e)) = e - a
        /\ \A k \in 1..(e - a) : SubSeq(F, a + 1, e)[k] = F[a + k]
    BY <1>1, <2>1
  <2>3. \A k \in 1..(e - a) : a + k \in 1..m
    BY <1>1
  <2>4. QED BY <2>1, <2>2, <2>3
<1> HIDE DEF seg
<1>3. /\ Pad(seg) \in [1..BufCells -> Cell]
      /\ \A k \in 1..(e - a) : Pad(seg)[k] = <<n, a + k, m>>
  <2>1. \A k \in 1..BufCells : k <= Len(seg) => seg[k] \in Cell
    BY <1>1, <1>2
  <2>2. Stale \in Cell
    BY DEF Stale, Cell
  <2>3. Pad(seg) \in [1..BufCells -> Cell]
    BY <2>1, <2>2 DEF Pad
  <2>4. ASSUME NEW k \in 1..(e - a) PROVE Pad(seg)[k] = <<n, a + k, m>>
    <3>1. k \in 1..BufCells /\ k <= Len(seg)
      BY <1>1, <1>2
    <3>2. QED BY <1>2, <3>1 DEF Pad
  <2>5. QED BY <2>3, <2>4
<1>4. PICK b \in [1..BufCells -> Cell] :
        /\ b = Pad(seg) /\ \A k \in 1..(e - a) : b[k] = <<n, a + k, m>>
  BY <1>3
<1>5. f = [own |-> FALSE, fs |-> a = 0, ls |-> last, fl |-> e, buf |-> b]
  BY <1>4 DEF seg
<1>6. /\ f \in RxDescs /\ ~f.own /\ f.fl = e /\ f.buf = b
      /\ (f.ls <=> last) /\ (f.fs <=> a = 0)
  <2>1. PICK fs \in BOOLEAN : fs = (a = 0)
    OBVIOUS
  <2>2. f = [own |-> FALSE, fs |-> fs, ls |-> last, fl |-> e, buf |-> b]
    BY <1>5, <2>1
  <2>3. f \in RxDescs
    BY <2>2 DEF RxDescs
  <2>4. f.own = FALSE /\ f.fs = fs /\ f.ls = last /\ f.fl = e /\ f.buf = b
    BY <2>2
  <2>5. (f.ls <=> last) /\ (f.fs <=> a = 0)
    BY <2>1, <2>4
  <2>6. QED BY <2>3, <2>4, <2>5
<1>7. f.buf[1] = <<n, a + 1, m>>
  <2>1. 1 \in 1..(e - a)
    BY <1>1
  <2>2. QED BY <1>4, <1>6, <2>1
<1>8. Num(f) = n /\ Pos(f) = a /\ Siz(f) = m
  <2>1. f.buf[1][1] = n /\ f.buf[1][2] = a + 1 /\ f.buf[1][3] = m
    BY <1>7
  <2>2. QED BY <2>1 DEF Num, Pos, Siz
<1>9. Segment(f)
  <2>1. ~last => e < m
    BY <1>1
  <2>2. \A k \in 1..(e - a) : f.buf[k] = <<n, a + k, m>>
    BY <1>4, <1>6
  <2>3. e < m => e = a + BufCells
    BY <1>1
  <2>4. ~f.ls => e < m
    BY <1>6, <2>1, Zenon
  <2>5. /\ Pos(f) >= 0 /\ Pos(f) < f.fl /\ f.fl <= Siz(f) /\ f.fl <= Pos(f) + BufCells
        /\ Pos(f) % BufCells = 0
        /\ f.fl < Siz(f) => f.fl = Pos(f) + BufCells
    BY <1>1, <1>6, <1>8, <2>3
  <2>6. \A k \in 1..(f.fl - Pos(f)) : f.buf[k] = <<Num(f), Pos(f) + k, Siz(f)>>
    BY <1>6, <1>8, <2>2
  <2>7. (f.fs <=> Pos(f) = 0) /\ (~f.ls => f.fl < Siz(f))
    BY <1>6, <1>8, <2>4
  <2>8. QED BY <2>5, <2>6, <2>7 DEF Segment
<1>10. QED BY <1>6, <1>8, <1>9

(* The DMA stores a segment behind the window. *)
LEMMA DmaStoresPacket ==
    ASSUME EthIInv, RestType, PacketInv, DmaStores
    PROVE  PacketInv'
<1>1. PICK t \in RxRing, c \in 0..RxN, h \in 0..RxN, q \in Views :
        /\ q = View(t) /\ Received(q, t, c, h)
        /\ \A i \in 0..(RxN - 1) :
              (t + i) % RxN \in RxRing /\ q[i] = rxd[(t + i) % RxN]
  BY Named
<1>2. /\ Window(q, c) /\ Arriving(q, c) /\ Marks(t, c, h) /\ Scan(q, c, h)
      /\ Copied(q, t, h) /\ InHands(q, c, h) /\ Chains(q, c)
  BY <1>1 DEF Received
<1>3. /\ RxN \in Nat /\ RxN > 1 /\ c \in Nat /\ h \in Nat /\ h <= c
      /\ BufCells \in Nat \ {0}
  BY <1>2, EthernetAssumption DEF Marks
<1>4. PICK n \in Nat, a \in Nat, m \in Nat :
        /\ n = rxcount /\ n >= 1 /\ rxframe # NoFrame /\ c < RxN
        /\ rxframe = [cells |-> Frame(n, m), done |-> a]
        /\ rxframe.cells = Frame(n, m) /\ rxframe.done = a /\ Len(rxframe.cells) = m
        /\ a < m /\ a % BufCells = 0
  <2>1. rxframe # NoFrame
    BY DEF DmaStores
  <2>2. rxframe \in [cells : Seq(Cell), done : Nat] /\ rxcount \in Nat
    BY DEF EthIInv, RxType
  <2>3. /\ rxframe = [cells |-> rxframe.cells, done |-> rxframe.done]
        /\ rxframe.done \in Nat /\ Len(rxframe.cells) \in Nat
    BY <2>2
  <2>4. /\ c < RxN /\ rxcount >= 1
        /\ rxframe.cells = Frame(rxcount, Len(rxframe.cells))
        /\ rxframe.done < Len(rxframe.cells) /\ rxframe.done % BufCells = 0
    BY <1>2, <2>1 DEF Arriving
  <2>5. QED BY <2>1, <2>2, <2>3, <2>4
<1>5. PICK d \in RxRing : d = rxdma /\ d = (t + c) % RxN
  BY <1>2 DEF EthIInv, RxType, Marks
<1>6. PICK e \in Nat, last \in BOOLEAN, f \in {rxd'[d]} :
        /\ e = (IF a + BufCells < m THEN a + BufCells ELSE m)
        /\ last = (e = m \/ ~rxd[NextRx(d)].own)
        /\ f = [own |-> FALSE, fs |-> a = 0, ls |-> last, fl |-> e,
                buf |-> Pad(SubSeq(Frame(n, m), a + 1, e))]
        /\ rxd' = [rxd EXCEPT ![d] = f]
        /\ rxframe' = IF last THEN NoFrame ELSE [rxframe EXCEPT !.done = e]
        /\ rxdma' = NextRx(d)
        /\ UNCHANGED <<rxcount, thread, lwip>>
  <2> DEFINE E == IF a + BufCells < m THEN a + BufCells ELSE m
             L == E = m \/ ~rxd[NextRx(d)].own
             F == [own |-> FALSE, fs |-> a = 0, ls |-> L, fl |-> E,
                   buf |-> Pad(SubSeq(Frame(n, m), a + 1, E))]
  <2>1. E \in Nat /\ L \in BOOLEAN
    BY <1>3
  <2>2. /\ rxd' = [rxd EXCEPT ![d] = F]
        /\ rxframe' = IF L THEN NoFrame ELSE [rxframe EXCEPT !.done = E]
        /\ rxdma' = NextRx(d)
        /\ UNCHANGED <<rxcount, thread, lwip>>
    BY <1>4, <1>5 DEF DmaStores
  <2>3. F = rxd'[d]
    <3>1. d \in DOMAIN rxd
      BY DEF EthIInv, RxType
    <3>2. QED BY <2>2, <3>1
  <2>4. QED BY <2>1, <2>2, <2>3
<1>7. UNCHANGED <<rxcount, rpc, RxDesc, FSRxDesc, SegCount, length, released, copy, hand,
                  starved, mbox, inp>>
  BY <1>6 DEF thread, lwip
<1>8. e > a /\ e <= m /\ (e = m => last) /\ (~last => e < m /\ e = a + BufCells)
      /\ (~last => rxd[NextRx(d)].own)
  <2>1. e > a /\ e <= m /\ (e # m => e < m /\ e = a + BufCells)
    BY <1>3, <1>4, <1>6
  <2>2. last <=> (e = m \/ ~rxd[NextRx(d)].own)
    BY <1>6
  <2>3. QED BY <2>1, <2>2, Zenon
<1>9. /\ f \in RxDescs /\ Segment(f) /\ ~f.own
      /\ Num(f) = n /\ Pos(f) = a /\ Siz(f) = m /\ f.fl = e
      /\ (f.ls <=> last) /\ (f.fs <=> a = 0)
  <2>1. a < m /\ a % BufCells = 0
    BY <1>4
  <2>2. e = (IF a + BufCells < m THEN a + BufCells ELSE m) /\ (e = m => last)
    BY <1>6, <1>8
  <2>3. f = [own |-> FALSE, fs |-> a = 0, ls |-> last, fl |-> e,
             buf |-> Pad(SubSeq(Frame(n, m), a + 1, e))]
    BY <1>6
  <2>4. QED BY <2>1, <2>2, <2>3, StoredSegment
<1>10. PICK r \in Views : r = View(t)' /\ r[c] = f /\ \A i \in 0..(RxN - 1) : i # c => r[i] = q[i]
  <2> DEFINE r == [i \in 0..(RxN - 1) |-> IF i = c THEN f ELSE q[i]]
  <2>1. r \in Views
    BY <1>9 DEF Views
  <2>2. c \in 0..(RxN - 1)
    BY <1>3, <1>4
  <2>3. ASSUME NEW i \in 0..(RxN - 1) PROVE rxd'[(t + i) % RxN] = r[i]
    <3>1. PICK b \in RxRing : b = (t + i) % RxN /\ q[i] = rxd[b]
      BY <1>1
    <3>2. CASE i = c
      BY <1>5, <1>6, <3>1, <3>2 DEF EthIInv, RxType
    <3>3. CASE i # c
      <4>1. b # d
        BY <1>5, <2>2, <3>1, <3>3, Distinct
      <4>2. QED BY <1>6, <3>1, <3>3, <4>1 DEF EthIInv, RxType
    <3>4. QED BY <3>2, <3>3
  <2>4. View(t)' = [i \in 0..(RxN - 1) |-> rxd'[(t + i) % RxN]]
    BY DEF View
  <2>5. r = View(t)'
    BY <2>3, <2>4
  <2>6. QED BY <2>1, <2>2, <2>5
<1>11. \A i \in 0..(c - 1) : r[i] = q[i] /\ q[i] \in RxDescs /\ Num(q[i]) \in Nat
  <2>1. ASSUME NEW i \in 0..(c - 1)
        PROVE  r[i] = q[i] /\ q[i] \in RxDescs /\ Num(q[i]) \in Nat
    <3>1. i \in 0..(RxN - 1) /\ i # c
      BY <1>3, <1>4
    <3>2. q[i] \in RxDescs
      BY <3>1 DEF Views
    <3>3. QED BY <1>10, <3>1, <3>2, DescNumbers
  <2>2. QED BY <2>1
<1>12. Newest = n - 1 /\ Newest' = IF last THEN n ELSE n - 1
  <2>1. last => rxframe' = NoFrame
    BY <1>6
  <2>2. ~last => rxframe' # NoFrame
    <3>1. ~last => rxframe'.done = e
      BY <1>4, <1>6
    <3>2. NoFrame.done = 0
      BY DEF NoFrame
    <3>3. QED BY <1>8, <3>1, <3>2
  <2>3. QED BY <1>4, <1>7, <2>1, <2>2 DEF Newest
<1>13. /\ a = 0 /\ c > 0 => q[c - 1].ls /\ Num(q[c - 1]) <= n - 1
       /\ a > 0 => /\ c > 0 /\ ~q[c - 1].ls /\ q[c - 1].fl = a
                   /\ Num(q[c - 1]) = n /\ Siz(q[c - 1]) = m
  BY <1>2, <1>4, <1>12 DEF Arriving
<1>14. Window(r, c + 1)
  <2>1. c > 0 => Follows(q[c - 1], f)
    <3>1. CASE a = 0
      <4>1. c > 0 => Num(q[c - 1]) \in Nat
        BY <1>3, <1>11
      <4>2. QED BY <1>9, <1>13, <3>1, <4>1 DEF Follows
    <3>2. CASE a > 0
      BY <1>9, <1>13, <3>2 DEF Follows
    <3>3. QED BY <3>1, <3>2
  <2>2. QED BY <1>2, <1>4, <1>9, <1>10, <2>1, WindowAppend
<1>15. ~last => c + 1 < RxN
  <2>1. SUFFICES ASSUME ~last, c + 1 = RxN PROVE FALSE
    BY <1>3, <1>4
  <2>2. NextRx(d) = (t + 0) % RxN
    <3>1. NextRx((t + c) % RxN) = (t + (c + 1)) % RxN
      BY <1>4, Walk
    <3>2. (t + RxN) % RxN = (t + 0) % RxN
      BY Walk
    <3>3. QED BY <1>5, <2>1, <3>1, <3>2
  <2>3. 0 \in 0..(RxN - 1) /\ ~(0 >= c)
    BY <1>3, <2>1
  <2>4. q[0].own
    BY <1>1, <1>8, <2>1, <2>2, <2>3
  <2>5. QED BY <1>2, <2>3, <2>4 DEF Window
<1>16. Arriving(r, c + 1)'
  <2>1. CASE last
    <3>1. rxframe' = NoFrame /\ r[c + 1 - 1] = f /\ f.ls /\ Num(f) <= Newest'
      BY <1>3, <1>6, <1>9, <1>10, <1>12, <2>1
    <3>2. QED BY <3>1 DEF Arriving
  <2>2. CASE ~last
    <3>1. rxframe' = [cells |-> Frame(n, m), done |-> e]
      BY <1>4, <1>6, <2>2
    <3>2. rxframe'.cells = Frame(n, m) /\ rxframe'.done = e /\ Len(rxframe'.cells) = m
      BY <1>4, <3>1
    <3>3. e % BufCells = 0
      BY <1>4, <1>8, <2>2, BufferMultiple
    <3>4. r[c + 1 - 1] = f /\ c + 1 > 0 /\ e > 0 /\ e # 0
      BY <1>3, <1>4, <1>8, <1>10
    <3>5. rxframe' # NoFrame /\ ~f.ls
      <4>1. NoFrame.done = 0
        BY DEF NoFrame
      <4>2. QED BY <1>9, <2>2, <3>2, <3>4, <4>1
    <3>6. QED BY <1>4, <1>7, <1>8, <1>9, <1>15, <2>2, <3>2, <3>3, <3>4, <3>5 DEF Arriving
  <2>3. QED BY <2>1, <2>2
<1>17. Marks(t, c + 1, h)'
  <2>1. rxdma' = (t + (c + 1)) % RxN
    BY <1>4, <1>5, <1>6, Walk
  <2>2. h \in 0..(c + 1)
    BY <1>3
  <2>3. QED BY <1>2, <1>7, <2>1, <2>2 DEF Marks
<1>18. \A i \in 0..(h - 1) : i \in 0..(c - 1) /\ r[i] = q[i]
  BY <1>3, <1>11
<1>19. Scan(r, c + 1, h)'
  <2>1. h > 0 => 0 \in 0..(h - 1) /\ h - 1 \in 0..(h - 1)
    BY <1>3
  <2>2. rpc \in {"wait", "get"} /\ h = 0 => r[0].fs
    <3>1. CASE c > 0
      <4>1. 0 \in 0..(c - 1)
        BY <1>3, <3>1
      <4>2. QED BY <1>2, <1>11, <3>1, <4>1 DEF Scan
    <3>2. CASE c = 0
      <4>1. a = 0
        BY <1>3, <1>4, <1>13, <3>2
      <4>2. QED BY <1>9, <1>10, <3>2, <4>1
    <3>3. QED BY <1>3, <3>1, <3>2
  <2>3. rpc \notin {"wait", "get"} => r[h].fs
    <3>1. CASE h < c
      <4>1. h \in 0..(c - 1)
        BY <1>3, <3>1
      <4>2. QED BY <1>2, <1>11, <3>1, <4>1 DEF Scan
    <3>2. CASE h = c /\ rpc \notin {"wait", "get"}
      <4>1. c > 0 => q[c - 1].ls
        BY <1>2, <1>3, <2>1, <3>2 DEF Scan
      <4>2. a = 0
        BY <1>4, <1>13, <4>1
      <4>3. QED BY <1>9, <1>10, <3>2, <4>2
    <3>3. QED BY <1>3, <3>1, <3>2
  <2>4. rpc # "release" /\ h > 0 => r[0].fs
    BY <1>2, <1>18, <2>1 DEF Scan
  <2>5. /\ rpc \in {"wait", "get"} => \A i \in 0..(h - 1) : ~r[i].ls
        /\ rpc \notin {"wait", "get"} => \A i \in 0..(h - 1) : r[i].ls <=> i = h - 1
    BY <1>2, <1>18 DEF Scan
  <2>6. rpc \in {"alloc", "copy"} => h >= 1 /\ length = r[h - 1].fl
    BY <1>2, <1>3, <1>18, <2>1 DEF Scan
  <2>7. rpc = "input" => h = 0 /\ hand # <<>>
    BY <1>2 DEF Scan
  <2>8. QED BY <1>7, <2>2, <2>3, <2>4, <2>5, <2>6, <2>7 DEF Scan
<1>20. Copied(r, t, h)'
  <2>1. SUFFICES ASSUME rpc = "copy" PROVE Copied(r, t, h)'
    BY <1>7 DEF Copied
  <2>2. h > 0 /\ 0 \in 0..(h - 1)
    BY <1>2, <1>3, <2>1 DEF Scan
  <2>3. PICK j \in 0..(h - 1) : copy.desc = (t + j) % RxN /\ Pos(q[j]) + copy.off = Len(hand)
    BY <1>2, <2>1 DEF Copied
  <2>4. Begins(hand, Num(q[0]), Siz(q[0]))
    BY <1>2, <2>1 DEF Copied
  <2>5. r[0] = q[0] /\ r[j] = q[j]
    BY <1>18, <2>2
  <2>6. Begins(hand, Num(r[0]), Siz(r[0]))'
    BY <1>7, <2>4, <2>5 DEF Begins, Num, Siz
  <2>7. (copy.desc = (t + j) % RxN /\ Pos(r[j]) + copy.off = Len(hand))'
    BY <1>7, <2>3, <2>5 DEF Pos
  <2>8. QED BY <2>6, <2>7 DEF Copied
<1>21. InHands(r, c + 1, h)'
  <2>1. SUFFICES ASSUME Handed PROVE InHands(r, c + 1, h)'
    BY <1>7 DEF InHands, Handed
  <2>2. Packet(hand) /\ hand[1][1] <= Newest /\ \A i \in h..(c - 1) : hand[1][1] < Num(q[i])
    BY <1>2, <2>1 DEF InHands
  <2>3. PICK k \in Nat : k = hand[1][1]
    <3>1. hand \in Seq(Cell) /\ hand # <<>>
      BY <2>1 DEF EthIInv, RxType, Handed
    <3>2. 1 \in 1..Len(hand)
      BY <3>1
    <3>3. hand[1][1] \in Nat
      BY <3>1, <3>2 DEF Cell
    <3>4. QED BY <3>3
  <2>4. k < n /\ k <= Newest'
    BY <1>12, <2>2, <2>3
  <2>5. ASSUME NEW i \in h..(c + 1 - 1) PROVE k < Num(r[i])
    <3>1. CASE i = c
      BY <1>9, <1>10, <2>4, <3>1
    <3>2. CASE i # c
      <4>1. i \in 0..(c - 1) /\ i \in h..(c - 1)
        BY <1>3, <3>2
      <4>2. QED BY <1>11, <2>2, <2>3, <4>1
    <3>3. QED BY <3>1, <3>2
  <2>6. Packet(hand)' /\ hand' = hand
    BY <1>7, <2>2 DEF Packet, Begins
  <2>7. (\A i \in h..(c + 1 - 1) : k < Num(r[i]))'
    BY <2>5 DEF Num
  <2>8. QED BY <2>3, <2>4, <2>6, <2>7 DEF InHands
<1>22. Chains(r, c + 1)'
  <2>1. mbox \in Seq(Seq(Cell)) /\ inp \in Seq(Cell)
    BY DEF RestType
  <2>2. \A k \in Nat : k <= Newest => k <= Newest'
    BY <1>4, <1>12
  <2>3. ASSUME NEW k \in Nat, k <= Newest, \A i \in 0..(c - 1) : k < Num(q[i]),
               NEW i \in 0..(c + 1 - 1)
        PROVE  k < Num(r[i])
    <3>1. CASE i = c
      BY <1>4, <1>9, <1>10, <1>12, <2>3, <3>1
    <3>2. CASE i # c
      <4>1. i \in 0..(c - 1)
        BY <1>3, <3>2
      <4>2. QED BY <1>11, <2>3, <4>1
    <3>3. QED BY <3>1, <3>2
  <2>4. Handed' => Handed /\ hand' = hand
    BY <1>7 DEF Handed
  <2>5. UNCHANGED <<mbox, inp>> /\ c + 1 \in Nat
    BY <1>3, <1>7
  <2>6. PICK w \in Nat : w = c + 1
    BY <2>5
  <2>7. \A k \in Nat : k <= Newest /\ (\A i \in 0..(c - 1) : k < Num(q[i])) =>
           /\ \A i \in 0..(w - 1) : k < Num(r[i])
           /\ Handed' => k < hand'[1][1] \/ (Handed /\ hand' = hand)
    BY <2>3, <2>4, <2>6
  <2>8. Chains(q, c) /\ c \in Nat
    BY <1>2, <1>3
  <2>9. Chains(r, w)'
    BY <2>1, <2>2, <2>5, <2>7, <2>8, ChainsKept
  <2>10. QED BY <2>6, <2>9
<1>23. c + 1 \in 0..RxN
  BY <1>3, <1>4
<1>24. QED BY <1>10, <1>14, <1>16, <1>17, <1>19, <1>20, <1>21, <1>22, <1>23, Witnessed

-----------------------------------------------------------------------------
(* An end of a frame in the window, not scanned yet, makes a frame ready. *)
LEMMA EndFound ==
    ASSUME NEW t \in RxRing, NEW c \in 0..RxN, NEW h \in 0..RxN, NEW q \in Views,
           \A i \in 0..(RxN - 1) : q[i].own <=> i >= c,
           NEW d \in RxRing, d = RxDesc,
           \A i \in 0..(RxN - 1) : h + i < RxN => rxd[(d + i) % RxN] = q[h + i],
           NEW x \in 1..RxN, h + x <= c, q[h + x - 1].ls
    PROVE  FrameReady
<1>1. RxN \in Nat /\ RxN > 1 /\ c \in Nat /\ h \in Nat /\ x \in Nat /\ d \in Nat
  BY EthernetAssumption DEF RxRing
<1>2. PICK T \in SUBSET Nat : T = {k \in 1..x : q[h + k - 1].ls}
  <2>1. {k \in 1..x : q[h + k - 1].ls} \in SUBSET Nat
    BY <1>1
  <2>2. QED BY <2>1, Zenon
<1>3. x \in T
  <2>1. x \in 1..x
    BY <1>1
  <2>2. QED BY <1>2, <2>1
<1>4. PICK k \in T : \A m \in T : k <= m
  BY <1>3, Least
<1>5. k \in 1..x /\ k \in 1..RxN /\ k \in Nat /\ q[h + k - 1].ls
  BY <1>1, <1>2
<1>6. ASSUME NEW i \in 0..(k - 1)
      PROVE  /\ i \in 0..(RxN - 1) /\ h + i \in 0..(RxN - 1) /\ h + i < c
             /\ rxd[(d + i) % RxN] = q[h + i]
  <2>1. i \in 0..(RxN - 1) /\ h + i \in 0..(RxN - 1) /\ h + i < c /\ h + i < RxN
    BY <1>1, <1>5
  <2>2. QED BY <2>1
<1>7. Closed(k)
  <2>1. ASSUME NEW i \in 0..(k - 1) PROVE ~rxd[(d + i) % RxN].own
    <3>1. ~(h + i >= c)
      BY <1>1, <1>6
    <3>2. QED BY <1>6, <3>1
  <2>2. QED BY <2>1 DEF Closed
<1>8. rxd[(RxDesc + k - 1) % RxN].ls
  <2>1. k - 1 \in 0..(k - 1) /\ d + k - 1 = d + (k - 1) /\ h + k - 1 = h + (k - 1)
    BY <1>1, <1>5
  <2>2. QED BY <1>5, <1>6, <2>1
<1>9. ASSUME NEW i \in 1..(k - 1) PROVE ~rxd[(RxDesc + i - 1) % RxN].ls
  <2>1. /\ i - 1 \in 0..(k - 1) /\ d + i - 1 = d + (i - 1) /\ h + i - 1 = h + (i - 1)
        /\ i \in 1..x /\ ~(k <= i)
    BY <1>1, <1>5
  <2>2. i \notin T
    BY <1>4, <2>1
  <2>3. ~q[h + i - 1].ls
    BY <1>2, <2>1, <2>2
  <2>4. QED BY <1>6, <2>1, <2>3
<1>10. k > 0
  BY <1>5
<1>11. EndsAt(k)
  BY <1>7, <1>8, <1>9, <1>10, Zenon DEF EndsAt
<1>12. QED BY <1>5, <1>11 DEF FrameReady

(* A scan stays in the window, and goes past no end of a frame. *)
LEMMA ScanWindow ==
    ASSUME NEW t \in RxRing, NEW c \in 0..RxN, NEW h \in 0..RxN, NEW q \in Views,
           h <= c, \A i \in 0..(RxN - 1) : q[i].own <=> i >= c,
           NEW d \in RxRing, d = RxDesc,
           \A i \in 0..(RxN - 1) : h + i < RxN => rxd[(d + i) % RxN] = q[h + i],
           \A i \in 0..(h - 1) : ~q[i].ls, c = RxN => q[RxN - 1].ls
    PROVE  /\ Scanned \in 0..RxN /\ h + Scanned <= c
           /\ FrameReady => Scanned >= 1 /\ q[h + Scanned - 1].ls
           /\ \A i \in 0..(Scanned - 1) : q[h + i].ls => FrameReady /\ i = Scanned - 1
<1>1. RxN \in Nat /\ RxN > 1 /\ c \in Nat /\ h \in Nat /\ d \in Nat
  BY EthernetAssumption DEF RxRing
<1>2. PICK n \in 0..RxN : n = Scanned /\ n \in Nat /\ Closed(n)
  BY <1>1, ScanFinds, ScanStops DEF EndsAt
<1>3. c = RxN => h < RxN
  <2>1. h = RxN => RxN - 1 \in 0..(h - 1)
    BY <1>1
  <2>2. QED BY <1>1, <2>1
<1>4. ASSUME NEW x \in 1..RxN, h + x <= c, q[h + x - 1].ls PROVE FrameReady
  BY <1>4, EndFound
<1>5. h + n <= c
  <2>1. SUFFICES ASSUME h + n > c PROVE FALSE
    BY <1>1, <1>2
  <2>2. CASE c < RxN
    <3>1. c - h \in 0..(n - 1) /\ c - h \in 0..(RxN - 1) /\ h + (c - h) = c
          /\ c \in 0..(RxN - 1) /\ c >= c
      BY <1>1, <1>2, <2>1, <2>2
    <3>2. rxd[(d + (c - h)) % RxN] = q[c]
      BY <2>2, <3>1
    <3>3. q[c].own
      BY <3>1
    <3>4. ~rxd[(d + (c - h)) % RxN].own
      BY <1>2, <3>1 DEF Closed
    <3>5. QED BY <3>2, <3>3, <3>4
  <2>3. CASE c = RxN
    <3>1. PICK x \in 1..RxN : x = RxN - h
      BY <1>1, <1>3, <2>3
    <3>2. /\ h + x <= c /\ h + x - 1 = RxN - 1 /\ x - 1 \in 0..(RxN - 1)
          /\ h + (x - 1) = RxN - 1 /\ h + (x - 1) < RxN /\ d + x - 1 = d + (x - 1)
          /\ x \in 1..(n - 1)
      BY <1>1, <1>2, <2>1, <2>3, <3>1
    <3>3. FrameReady
      BY <1>4, <2>3, <3>2
    <3>4. ~rxd[(d + x - 1) % RxN].ls
      BY <1>2, <3>2, <3>3, ScanFinds DEF EndsAt
    <3>5. rxd[(d + (x - 1)) % RxN] = q[RxN - 1]
      BY <3>2
    <3>6. QED BY <2>3, <3>2, <3>4, <3>5
  <2>4. QED BY <1>1, <2>2, <2>3
<1>6. ASSUME NEW i \in 0..(n - 1)
      PROVE  i \in 0..(RxN - 1) /\ rxd[(d + i) % RxN] = q[h + i]
  <2>1. i \in 0..(RxN - 1) /\ h + i < RxN
    BY <1>1, <1>2, <1>5
  <2>2. QED BY <2>1
<1>7. FrameReady => n >= 1 /\ q[h + n - 1].ls
  <2>1. SUFFICES ASSUME FrameReady PROVE n >= 1 /\ q[h + n - 1].ls
    OBVIOUS
  <2>2. n \in 1..RxN /\ rxd[(d + n - 1) % RxN].ls
    BY <1>2, <2>1, ScanFinds DEF EndsAt
  <2>3. n - 1 \in 0..(n - 1) /\ d + n - 1 = d + (n - 1) /\ h + n - 1 = h + (n - 1)
    BY <1>1, <1>2, <2>2
  <2>4. QED BY <1>6, <2>2, <2>3
<1>8. ASSUME NEW i \in 0..(n - 1), q[h + i].ls PROVE FrameReady /\ i = n - 1
  <2>1. i + 1 \in 1..RxN /\ h + (i + 1) <= c /\ h + (i + 1) - 1 = h + i
        /\ d + (i + 1) - 1 = d + i
    BY <1>1, <1>2, <1>5
  <2>2. FrameReady
    BY <1>4, <1>8, <2>1
  <2>3. SUFFICES ASSUME i # n - 1 PROVE FALSE
    BY <2>2
  <2>4. i + 1 \in 1..(n - 1)
    BY <1>2, <2>3
  <2>5. ~rxd[(d + (i + 1) - 1) % RxN].ls
    BY <1>2, <2>2, <2>4, ScanFinds DEF EndsAt
  <2>6. QED BY <1>6, <1>8, <2>1, <2>5
<1>9. QED BY <1>2, <1>5, <1>7, <1>8

(* A scan: more of the window is scanned, from the first segment of a      *)
(* frame on and at most to its last.                                       *)
LEMMA GetReceivedFramePacket ==
    ASSUME EthIInv, RestType, PacketInv, GetReceivedFrame
    PROVE  PacketInv'
<1>1. PICK t \in RxRing, c \in 0..RxN, h \in 0..RxN, q \in Views :
        /\ q = View(t) /\ Received(q, t, c, h)
        /\ \A i \in 0..(RxN - 1) :
              (t + i) % RxN \in RxRing /\ q[i] = rxd[(t + i) % RxN]
  BY Named
<1>2. /\ Window(q, c) /\ Arriving(q, c) /\ Marks(t, c, h) /\ Scan(q, c, h)
      /\ Chains(q, c)
  BY <1>1 DEF Received
<1>3. /\ RxN \in Nat /\ RxN > 1 /\ c \in Nat /\ h \in Nat /\ h <= c /\ c <= RxN
  BY <1>2, EthernetAssumption DEF Marks
<1>4. /\ irq = "none" /\ rpc = "get" /\ ~lock
      /\ UNCHANGED <<ring, hand, mbox, inp>>
  BY DEF GetReceivedFrame, EthIInv, LockInv, RxReady, lwip
<1>5. PICK d \in RxRing : d = RxDesc /\ d = (t + h) % RxN
  BY <1>2 DEF Marks, EthIInv, RxType
<1>6. \A i \in 0..(RxN - 1) : h + i < RxN => rxd[(d + i) % RxN] = q[h + i]
  <2>1. ASSUME NEW i \in 0..(RxN - 1), h + i < RxN
        PROVE  rxd[(d + i) % RxN] = q[h + i]
    <3>1. i \in 0..RxN /\ h + i <= RxN /\ h + i \in 0..(RxN - 1)
      BY <1>3, <2>1
    <3>2. (d + i) % RxN = (t + (h + i)) % RxN
      BY <1>5, <3>1, Shift
    <3>3. QED BY <1>1, <3>1, <3>2
  <2>2. QED BY <2>1
<1>7. PICK n \in 0..RxN :
        /\ n = Scanned /\ h + n <= c
        /\ FrameReady => n >= 1 /\ q[h + n - 1].ls
        /\ \A i \in 0..(n - 1) : q[h + i].ls => FrameReady /\ i = n - 1
  <2>1. \A i \in 0..(RxN - 1) : q[i].own <=> i >= c
    BY <1>2 DEF Window
  <2>2. \A i \in 0..(h - 1) : ~q[i].ls
    BY <1>2, <1>4 DEF Scan
  <2>3. c = RxN => q[RxN - 1].ls
    BY <1>2, <1>3 DEF Arriving
  <2>4. /\ Scanned \in 0..RxN /\ h + Scanned <= c
        /\ FrameReady => Scanned >= 1 /\ q[h + Scanned - 1].ls
        /\ \A i \in 0..(Scanned - 1) : q[h + i].ls => FrameReady /\ i = Scanned - 1
    BY <1>3, <1>5, <1>6, <2>1, <2>2, <2>3, ScanWindow
  <2>5. QED BY <2>4
<1>8. PICK g \in 0..RxN : g = h + n /\ g \in Nat /\ g <= c /\ n \in Nat
  BY <1>3, <1>7
<1>9. /\ h = 0 /\ c > 0 => q[0].fs
      /\ h > 0 => q[0].fs
      /\ \A i \in 0..(h - 1) : ~q[i].ls
  BY <1>2, <1>4 DEF Scan
<1>10. n > 0 => rxd[d] = q[h] /\ h \in 0..(RxN - 1)
  <2>1. SUFFICES ASSUME n > 0 PROVE rxd[d] = q[h] /\ h \in 0..(RxN - 1)
    OBVIOUS
  <2>2. h \in 0..(RxN - 1)
    BY <1>3, <1>8, <2>1
  <2>3. QED BY <1>1, <1>5, <2>2
<1>11. h > 0 /\ n > 0 => ~q[h].fs
  <2>1. SUFFICES ASSUME h > 0, n > 0 PROVE ~q[h].fs
    OBVIOUS
  <2>2. /\ h - 1 \in 0..(h - 1) /\ h - 1 \in 0..(c - 2) /\ h - 1 + 1 = h
        /\ h \in 0..(c - 1) /\ h - 1 \in 0..(c - 1)
        /\ h \in 0..(RxN - 1) /\ h - 1 \in 0..(RxN - 1)
    BY <1>3, <1>8, <2>1
  <2>3. Follows(q[h - 1], q[h]) /\ Segment(q[h - 1]) /\ Segment(q[h])
    BY <1>2, <2>2 DEF Window
  <2>4. Pos(q[h]) = q[h - 1].fl
    BY <1>9, <2>2, <2>3 DEF Follows
  <2>5. q[h - 1] \in RxDescs
    BY <2>2 DEF Views
  <2>6. Pos(q[h - 1]) \in Int /\ q[h - 1].fl \in Nat
    BY <2>5, DescNumbers
  <2>7. Pos(q[h - 1]) >= 0 /\ Pos(q[h - 1]) < q[h - 1].fl
    BY <2>3 DEF Segment
  <2>8. Pos(q[h]) # 0
    BY <2>4, <2>6, <2>7
  <2>9. QED BY <2>3, <2>8 DEF Segment
<1> DEFINE first == n > 0 /\ rxd[d].fs /\ ~rxd[d].ls
<1>12. /\ RxDesc' = (d + n) % RxN
       /\ SegCount' = IF first THEN n ELSE SegCount + n
       /\ FSRxDesc' = IF first \/ (FrameReady /\ SegCount' = 1) THEN d ELSE FSRxDesc
  BY <1>4, <1>5, <1>7 DEF GetReceivedFrame
<1>13. SegCount = h /\ (h > 0 => t = FSRxDesc)
  BY <1>2, <1>4 DEF Marks
<1>14. SegCount' = g /\ (g > 0 => t = FSRxDesc')
  <2>1. CASE h = 0 /\ n = 0
    BY <1>8, <1>12, <1>13, <2>1
  <2>2. CASE h = 0 /\ n > 0
    <3>1. d = t
      BY <1>5, <2>2, Walk
    <3>2. rxd[d] = q[0] /\ q[0].fs
      BY <1>3, <1>8, <1>9, <1>10, <2>2
    <3>3. CASE q[0].ls
      <4>1. 0 \in 0..(n - 1) /\ h + 0 = 0
        BY <1>8, <2>2
      <4>2. FrameReady /\ n = 1
        BY <1>7, <1>8, <3>3, <4>1
      <4>3. SegCount' = 1
        BY <1>8, <1>12, <1>13, <2>2, <3>2, <3>3, <4>2
      <4>4. QED BY <1>8, <1>12, <2>2, <3>1, <4>2, <4>3
    <3>4. CASE ~q[0].ls
      <4>1. first
        BY <2>2, <3>2, <3>4
      <4>2. QED BY <1>8, <1>12, <2>2, <3>1, <4>1
    <3>5. QED BY <3>3, <3>4
  <2>3. CASE h > 0
    <3>1. ~first
      BY <1>10, <1>11, <2>3
    <3>2. SegCount' = h + n
      BY <1>12, <1>13, <3>1
    <3>3. FrameReady => SegCount' # 1
      BY <1>3, <1>7, <1>8, <2>3, <3>2
    <3>4. QED BY <1>8, <1>12, <1>13, <2>3, <3>1, <3>2, <3>3
  <2>4. QED BY <1>3, <1>8, <2>1, <2>2, <2>3
<1> HIDE DEF first
<1>15. RxDesc' = (t + g) % RxN
  <2>1. h + n <= RxN
    BY <1>3, <1>8
  <2>2. (((t + h) % RxN) + n) % RxN = (t + (h + n)) % RxN
    BY <2>1, Shift
  <2>3. QED BY <1>5, <1>8, <1>12, <2>2
<1>16. rpc' = (IF FrameReady THEN "alloc" ELSE "wait")
       /\ (FrameReady => length' = rxd[(d + n - 1) % RxN].fl)
  BY <1>4, <1>5, <1>7 DEF GetReceivedFrame
<1>17. UNCHANGED <<rxd, rxdma, rxframe, rxcount>>
  BY <1>4 DEF ring
<1>18. q = View(t)' /\ Arriving(q, c)'
  BY <1>1, <1>2, <1>17 DEF View, Arriving, Newest
<1>19. Marks(t, c, g)'
  <2>1. g \in 0..c
    BY <1>8
  <2>2. QED BY <1>2, <1>14, <1>15, <1>16, <1>17, <2>1 DEF Marks
<1>20. g > 0 => q[0].fs
  BY <1>3, <1>8, <1>9
<1>21. ASSUME NEW i \in 0..(g - 1), q[i].ls PROVE FrameReady /\ i = g - 1
  <2>1. ~(i < h)
    <3>1. i < h => i \in 0..(h - 1)
      BY <1>3
    <3>2. QED BY <1>9, <1>21, <3>1
  <2>2. i - h \in 0..(n - 1) /\ h + (i - h) = i
    BY <1>3, <1>8, <2>1
  <2>3. FrameReady /\ i - h = n - 1
    BY <1>7, <1>21, <2>2
  <2>4. QED BY <1>3, <1>8, <2>2, <2>3
<1>22. Scan(q, c, g)'
  <2>1. CASE FrameReady
    <3>1. g >= 1 /\ q[g - 1].ls /\ n - 1 \in 0..(RxN - 1) /\ h + (n - 1) < RxN
          /\ d + n - 1 = d + (n - 1) /\ h + (n - 1) = g - 1
      BY <1>3, <1>7, <1>8, <2>1 DEF RxRing
    <3>2. length' = q[g - 1].fl
      BY <1>6, <1>16, <2>1, <3>1
    <3>3. \A i \in 0..(g - 1) : q[i].ls <=> i = g - 1
      BY <1>21, <3>1
    <3>4. g < c => q[g].fs
      <4>1. g < c => g - 1 \in 0..(c - 2) /\ g - 1 + 1 = g
        BY <1>3, <1>8, <3>1
      <4>2. QED BY <1>2, <3>1, <4>1 DEF Window, Follows
    <3>5. rpc' = "alloc"
      BY <1>16, <2>1
    <3>6. QED BY <1>20, <3>1, <3>2, <3>3, <3>4, <3>5 DEF Scan
  <2>2. CASE ~FrameReady
    <3>1. \A i \in 0..(g - 1) : ~q[i].ls
      BY <1>21, <2>2
    <3>2. g = 0 /\ c > 0 => q[0].fs
      BY <1>3, <1>8, <1>9
    <3>3. rpc' = "wait"
      BY <1>16, <2>2
    <3>4. QED BY <1>20, <3>1, <3>2, <3>3 DEF Scan
  <2>3. QED BY <2>1, <2>2
<1>23. ~Handed' /\ rpc' # "copy"
  BY <1>16 DEF Handed
<1>24. Copied(q, t, g)' /\ InHands(q, c, g)'
  BY <1>23 DEF Copied, InHands
<1>25. Chains(q, c)'
  <2>1. mbox \in Seq(Seq(Cell)) /\ inp \in Seq(Cell) /\ UNCHANGED <<mbox, inp>>
    BY <1>4 DEF RestType
  <2>2. \A k \in Nat : k <= Newest => k <= Newest'
    BY <1>17 DEF Newest
  <2>3. QED BY <1>2, <1>3, <1>23, <2>1, <2>2, ChainsKept
<1>26. QED BY <1>2, <1>18, <1>19, <1>22, <1>24, <1>25, Witnessed

(* The scanned segments are of one frame, all but the last of them full. *)
LEMMA OneFrame ==
    ASSUME NEW q \in Views, NEW c \in 0..RxN, NEW h \in 1..RxN, h <= c, Window(q, c),
           \A i \in 0..(h - 1) : q[i].ls <=> i = h - 1, NEW j \in 0..(h - 1)
    PROVE  /\ q[j] \in RxDescs /\ Segment(q[j]) /\ Pos(q[j]) \in Nat
           /\ Num(q[j]) = Num(q[0]) /\ Siz(q[j]) = Siz(q[0])
           /\ j < h - 1 => q[j].fl = Pos(q[j]) + BufCells /\ Pos(q[j + 1]) = q[j].fl
<1>1. /\ RxN \in Nat /\ c \in Nat /\ h \in Nat /\ j \in 0..(RxN - 1) /\ j \in 0..(c - 1)
      /\ 0 \in 0..(c - 1) /\ j \in Nat
  BY EthernetAssumption
<1>2. q[j] \in RxDescs
  BY <1>1 DEF Views
<1>3. Segment(q[j])
  BY <1>1 DEF Window
<1>4. Pos(q[j]) \in Nat
  <2>1. Pos(q[j]) \in Int
    BY <1>2, DescNumbers
  <2>2. QED BY <1>3, <2>1 DEF Segment
<1>5. Num(q[j]) = Num(q[0]) /\ Siz(q[j]) = Siz(q[0])
  <2>1. \A k \in 0..(j - 1) : k \in 0..(h - 1) /\ k # h - 1
    BY <1>1
  <2>2. \A k \in 0..(j - 1) : ~q[k].ls
    BY <2>1
  <2>3. j \in 0..(c - 1)
    BY <1>1
  <2>4. SameFrame(q[0], q[j])
    BY <1>1, <2>2, <2>3 DEF Window
  <2>5. QED BY <2>4 DEF SameFrame
<1>6. ASSUME j < h - 1
      PROVE  q[j].fl = Pos(q[j]) + BufCells /\ Pos(q[j + 1]) = q[j].fl
  <2>1. ~q[j].ls /\ j \in 0..(c - 2)
    BY <1>1, <1>6
  <2>2. Follows(q[j], q[j + 1])
    BY <2>1 DEF Window
  <2>3. QED BY <1>3, <2>1, <2>2 DEF Follows, Segment
<1>7. QED BY <1>2, <1>3, <1>4, <1>5, <1>6

(* The scanned frame is complete, and older than what follows it. *)
LEMMA LaterFrames ==
    ASSUME NEW q \in Views, NEW c \in 0..RxN, NEW h \in 1..RxN, h <= c, Window(q, c),
           \A i \in 0..(h - 1) : q[i].ls <=> i = h - 1, Arriving(q, c), rxcount \in Nat,
           rxframe.done \in Nat
    PROVE  Num(q[0]) <= Newest /\ \A i \in h..(c - 1) : Num(q[0]) < Num(q[i])
<1>1. RxN \in Nat /\ c \in Nat /\ h \in Nat /\ c <= RxN
  BY EthernetAssumption
<1>2. h - 1 \in 0..(h - 1) /\ q[h - 1].ls
  BY <1>1
<1>3. Num(q[0]) = Num(q[h - 1])
  BY <1>2, OneFrame
<1>4. \A i \in 0..(c - 1) : i \in 0..(RxN - 1) /\ q[i] \in RxDescs
  BY <1>1 DEF Views
<1>5. \A i \in 0..(c - 1) : Num(q[i]) \in Nat
  BY <1>4, DescNumbers
<1>6. ASSUME NEW i \in h..(c - 1) PROVE Num(q[h - 1]) < Num(q[i])
  <2>1. /\ h - 1 \in 0..(c - 2) /\ h - 1 + 1 = h /\ h \in 0..(c - 1) /\ i \in 0..(c - 1)
        /\ h - 1 \in 0..(c - 1) /\ i \in h..(c - 1)
    BY <1>1
  <2>2. Follows(q[h - 1], q[h])
    BY <2>1 DEF Window
  <2>3. Num(q[h - 1]) < Num(q[h])
    BY <1>2, <2>2 DEF Follows
  <2>4. Ordered(q[h], q[i])
    BY <2>1 DEF Window
  <2>5. Num(q[h]) <= Num(q[i])
    BY <2>4 DEF Ordered
  <2>6. Num(q[h - 1]) \in Nat /\ Num(q[h]) \in Nat /\ Num(q[i]) \in Nat
    BY <1>5, <2>1
  <2>7. QED BY <2>3, <2>5, <2>6
<1>7. Num(q[h - 1]) <= Newest
  <2>1. c - 1 \in 0..(c - 1) /\ h - 1 \in 0..(c - 1) /\ c > 0
    BY <1>1
  <2>2. Num(q[c - 1]) \in Nat /\ Num(q[h - 1]) \in Nat
    BY <1>5, <2>1
  <2>3. CASE h = c
    <3>1. ~(rxframe # NoFrame /\ rxframe.done > 0)
      BY <1>2, <2>3 DEF Arriving
    <3>2. rxframe = NoFrame \/ rxframe.done = 0
      BY <3>1
    <3>3. QED BY <2>1, <2>3, <3>2 DEF Arriving
  <2>4. CASE h < c
    <3>1. c - 1 \in h..(c - 1)
      BY <1>1, <2>4
    <3>2. Num(q[h - 1]) < Num(q[c - 1])
      BY <1>6, <3>1
    <3>3. CASE rxframe = NoFrame
      <4>1. Num(q[c - 1]) <= Newest /\ Newest = rxcount
        BY <2>1, <3>3 DEF Arriving, Newest
      <4>2. QED BY <2>2, <3>2, <4>1
    <3>4. CASE rxframe # NoFrame
      <4>1. Newest = rxcount - 1 /\ Num(q[c - 1]) <= rxcount
        <5>1. Newest = rxcount - 1
          BY <3>4 DEF Newest
        <5>2. CASE rxframe.done = 0
          BY <2>1, <2>2, <5>1, <5>2 DEF Arriving
        <5>3. CASE rxframe.done # 0
          <6>1. rxframe.done > 0
            BY <5>3
          <6>2. QED BY <3>4, <5>1, <6>1 DEF Arriving
        <5>4. QED BY <5>1, <5>2, <5>3
      <4>2. QED BY <2>2, <3>2, <4>1
    <3>5. QED BY <3>3, <3>4
  <2>5. QED BY <1>1, <2>3, <2>4
<1>8. QED BY <1>3, <1>6, <1>7

(* Chain p is the beginning of frame n of size m, as far as cell i of      *)
(* buffer b, whose first j cells continue it.                              *)
Continues(p, n, m, b, a, i, j) ==
    /\ p \in Seq(Cell) /\ b \in [1..BufCells -> Cell] /\ n \in Nat /\ m \in Nat
    /\ a \in Nat /\ i \in Nat /\ j \in 0..BufCells /\ i <= j /\ Len(p) = a + i
    /\ Begins(p, n, m) /\ \A k \in 1..j : b[k] = <<n, a + k, m>>

(* Then appending cells i + 1 to j keeps it the beginning. *)
LEMMA PieceAppended ==
    ASSUME NEW p, NEW n, NEW m, NEW b, NEW a, NEW i, NEW j,
           Continues(p, n, m, b, a, i, j)
    PROVE  /\ p \o SubSeq(b, i + 1, j) \in Seq(Cell)
           /\ Len(p \o SubSeq(b, i + 1, j)) = a + j
           /\ Begins(p \o SubSeq(b, i + 1, j), n, m)
<1>0. /\ p \in Seq(Cell) /\ b \in [1..BufCells -> Cell] /\ n \in Nat /\ m \in Nat
      /\ a \in Nat /\ i \in Nat /\ j \in 0..BufCells /\ i <= j /\ Len(p) = a + i
      /\ Begins(p, n, m) /\ \A k \in 1..j : b[k] = <<n, a + k, m>>
  BY DEF Continues
<1>1. BufCells \in Nat /\ j \in Nat /\ j <= BufCells
  BY <1>0, EthernetAssumption
<1>2. b \in Seq(Cell) /\ Len(b) = BufCells
  BY <1>0, <1>1
<1>3. PICK s \in Seq(Cell) : s = SubSeq(b, i + 1, j) /\ Len(s) = j - i
                             /\ \A k \in 1..(j - i) : s[k] = b[i + k]
  <2>1. SubSeq(b, i + 1, j) \in Seq(Cell) /\ Len(SubSeq(b, i + 1, j)) = j - i
    BY <1>0, <1>1, <1>2
  <2>2. \A k \in 1..(j - i) : SubSeq(b, i + 1, j)[k] = b[i + k]
    BY <1>0, <1>1, <1>2
  <2>3. QED BY <2>1, <2>2
<1>4. PICK w \in Seq(Cell) : w = p \o s /\ Len(w) = a + j
  <2>1. p \o s \in Seq(Cell) /\ Len(p \o s) = a + j
    <3>1. p \o s \in Seq(Cell) /\ Len(p \o s) = Len(p) + Len(s)
      <4>1. p \in Seq(Cell)
        BY <1>0
      <4>2. QED BY <4>1
    <3>2. Len(p) + Len(s) = a + j
      BY <1>0, <1>1, <1>3
    <3>3. QED BY <3>1, <3>2
  <2>2. QED BY <2>1
<1>5. ASSUME NEW k \in 1..Len(w) PROVE w[k] = <<n, k, m>>
  <2>1. CASE k <= a + i
    <3>1. k \in 1..Len(p) /\ w[k] = p[k]
      BY <1>0, <1>1, <1>3, <1>4, <2>1
    <3>2. QED BY <1>0, <3>1 DEF Begins
  <2>2. CASE k > a + i
    <3>1. PICK x \in 1..(j - i) : x = k - (a + i)
      BY <1>0, <1>1, <1>4, <2>2
    <3>2. w[k] = s[x]
      <4>1. k \in 1..(Len(p) + Len(s)) /\ ~(k <= Len(p)) /\ k - Len(p) = x
        BY <1>0, <1>1, <1>3, <1>4, <2>2, <3>1
      <4>2. p \in Seq(Cell)
        BY <1>0
      <4>3. (p \o s)[k] = IF k <= Len(p) THEN p[k] ELSE s[k - Len(p)]
        BY <4>1, <4>2, ConcatProperties, Zenon
      <4>4. (p \o s)[k] = s[k - Len(p)]
        BY <4>1, <4>3, Zenon
      <4>5. QED BY <1>4, <4>1, <4>4
    <3>3. i + x \in 1..j /\ a + (i + x) = k
      BY <1>0, <1>1, <1>4, <3>1
    <3>4. s[x] = b[i + x]
      BY <1>3
    <3>5. b[i + x] = <<n, a + (i + x), m>>
      BY <1>0, <3>3
    <3>6. QED BY <3>2, <3>3, <3>4, <3>5
  <2>3. k <= a + i \/ k > a + i
    BY <1>0, <1>4
  <2>4. QED BY <2>1, <2>2, <2>3, Zenon
<1>6. QED BY <1>3, <1>4, <1>5 DEF Begins

(* A chain is allocated for the scanned frame, or its descriptors are      *)
(* released without one.                                                   *)
LEMMA AllocPbufsPacket ==
    ASSUME EthIInv, RestType, PacketInv, AllocPbufs
    PROVE  PacketInv'
<1>1. PICK t \in RxRing, c \in 0..RxN, h \in 0..RxN, q \in Views :
        /\ q = View(t) /\ Received(q, t, c, h)
        /\ \A i \in 0..(RxN - 1) :
              (t + i) % RxN \in RxRing /\ q[i] = rxd[(t + i) % RxN]
  BY Named
<1>2. /\ Window(q, c) /\ Arriving(q, c) /\ Marks(t, c, h) /\ Scan(q, c, h)
      /\ Chains(q, c)
  BY <1>1 DEF Received
<1>3. /\ rpc = "alloc" /\ hand' = <<>> /\ released' = 0
      /\ UNCHANGED <<rxd, rxdma, rxframe, rxcount, RxDesc, FSRxDesc, SegCount, length,
                     mbox, inp>>
      /\ \/ rpc' = "release"
         \/ rpc' = "copy" /\ copy'.desc = FSRxDesc /\ copy'.off = 0
  BY DEF AllocPbufs, ring
<1>4. /\ RxN \in Nat /\ RxN > 1 /\ c \in Nat /\ h \in Nat /\ h <= c /\ h >= 1
      /\ length = q[h - 1].fl /\ t = FSRxDesc /\ SegCount = h /\ (t + 0) % RxN = t
      /\ q[0].fs
  BY <1>2, <1>3, Walk, EthernetAssumption DEF Marks, Scan
<1>5. q = View(t)' /\ Arriving(q, c)'
  BY <1>1, <1>2, <1>3 DEF View, Arriving, Newest
<1>6. Marks(t, c, h)'
  BY <1>2, <1>3, <1>4 DEF Marks
<1>7. Scan(q, c, h)'
  BY <1>2, <1>3, <1>4 DEF Scan
<1>8. Copied(q, t, h)'
  <2>1. 0 \in 0..(h - 1) /\ 0 \in 0..(c - 1)
    BY <1>4
  <2>2. Segment(q[0])
    BY <1>2, <2>1 DEF Window
  <2>3. Pos(q[0]) = 0
    BY <1>4, <2>2 DEF Segment
  <2>4. Pos(q[0])' = 0
    BY <2>3 DEF Pos
  <2>5. Begins(hand, Num(q[0]), Siz(q[0]))'
    BY <1>3 DEF Begins
  <2>6. rpc' = "copy" => copy'.desc = (t + 0) % RxN /\ Pos(q[0])' + copy'.off = Len(hand')
    BY <1>3, <1>4, <2>4
  <2>7. QED BY <2>1, <2>5, <2>6 DEF Copied
<1>9. ~Handed' /\ InHands(q, c, h)'
  BY <1>3 DEF Handed, InHands
<1>10. Chains(q, c)'
  <2>1. mbox \in Seq(Seq(Cell)) /\ inp \in Seq(Cell) /\ UNCHANGED <<mbox, inp>>
    BY <1>3 DEF RestType
  <2>2. \A k \in Nat : k <= Newest => k <= Newest'
    BY <1>3 DEF Newest
  <2>3. QED BY <1>2, <1>4, <1>9, <2>1, <2>2, ChainsKept
<1>11. QED BY <1>2, <1>5, <1>6, <1>7, <1>8, <1>9, <1>10, Witnessed

(* The copy loops: the chain stays the beginning of the frame, and once    *)
(* nothing is left it is the packet.                                       *)
LEMMA CopyPacket ==
    ASSUME EthIInv, RestType, CopyCount, PacketInv, CopyBuffer \/ CopyRest
    PROVE  PacketInv'
<1>1. PICK t \in RxRing, c \in 0..RxN, h \in 0..RxN, q \in Views :
        /\ q = View(t) /\ Received(q, t, c, h)
        /\ \A i \in 0..(RxN - 1) :
              (t + i) % RxN \in RxRing /\ q[i] = rxd[(t + i) % RxN]
  BY Named
<1>2. /\ Window(q, c) /\ Arriving(q, c) /\ Marks(t, c, h) /\ Scan(q, c, h)
      /\ Copied(q, t, h) /\ Chains(q, c)
  BY <1>1 DEF Received
<1>3. /\ rpc = "copy"
      /\ UNCHANGED <<rxd, rxdma, rxframe, rxcount, RxDesc, FSRxDesc, SegCount, length,
                     released, mbox, inp>>
  BY DEF CopyBuffer, CopyRest, ring, lwip
<1>4. /\ RxN \in Nat /\ RxN > 1 /\ c \in Nat /\ h \in Nat /\ h <= c /\ h >= 1 /\ h \in 1..RxN
      /\ length = q[h - 1].fl /\ t = FSRxDesc /\ SegCount = h /\ (t + 0) % RxN = t
      /\ BufCells \in Nat \ {0} /\ PbufCells \in Nat \ {0}
  BY <1>2, <1>3, Walk, EthernetAssumption DEF Marks, Scan
<1>5. /\ \A i \in 0..(h - 1) : q[i].ls <=> i = h - 1
      /\ h < c => q[h].fs
  BY <1>2, <1>3 DEF Scan
<1>6. q = View(t)' /\ Arriving(q, c)'
  BY <1>1, <1>2, <1>3 DEF View, Arriving, Newest
<1>7. PICK d \in RxRing, off \in 0..BufCells, left \in Nat, rest \in Nat, p \in Seq(Cell) :
        /\ copy = [desc |-> d, off |-> off, left |-> left, rest |-> rest]
        /\ d = copy.desc /\ off = copy.off /\ left = copy.left /\ rest = copy.rest
        /\ hand = p
  <2>1. /\ copy \in [desc : RxRing, off : 0..BufCells, left : Nat, rest : Nat]
        /\ hand \in Seq(Cell)
    BY DEF EthIInv, RxType
  <2>2. copy = [desc |-> copy.desc, off |-> copy.off, left |-> copy.left,
                rest |-> copy.rest]
    BY <2>1
  <2>3. /\ copy.desc \in RxRing /\ copy.off \in 0..BufCells /\ copy.left \in Nat
        /\ copy.rest \in Nat
    BY <2>1
  <2>4. QED BY <2>1, <2>2, <2>3
<1>8. PICK n \in Nat, m \in Nat : n = Num(q[0]) /\ m = Siz(q[0]) /\ Begins(p, n, m)
  <2>1. 0 \in 0..(RxN - 1)
    BY <1>4
  <2>2. q[0] \in RxDescs
    BY <2>1 DEF Views
  <2>3. Num(q[0]) \in Nat /\ Siz(q[0]) \in Nat
    BY <2>2, DescNumbers
  <2>4. QED BY <1>2, <1>3, <1>7, <2>3 DEF Copied
<1>9. PICK j \in 0..(h - 1) : d = (t + j) % RxN /\ Pos(q[j]) + off = Len(p)
  BY <1>2, <1>3, <1>7 DEF Copied
<1>10. /\ q[j] \in RxDescs /\ Segment(q[j]) /\ Pos(q[j]) \in Nat
       /\ Num(q[j]) = n /\ Siz(q[j]) = m
       /\ j < h - 1 => q[j].fl = Pos(q[j]) + BufCells /\ Pos(q[j + 1]) = q[j].fl
  BY <1>2, <1>4, <1>5, <1>8, OneFrame
<1>11. PICK a \in Nat, e \in Nat, b \in [1..BufCells -> Cell] :
         /\ a = Pos(q[j]) /\ e = q[j].fl /\ b = rxd[d].buf /\ a < e /\ e <= a + BufCells
         /\ \A k \in 1..(e - a) : b[k] = <<n, a + k, m>>
  <2>1. j \in 0..(RxN - 1)
    BY <1>4
  <2>2. q[j] = rxd[d]
    BY <1>1, <1>9, <2>1
  <2>3. q[j].fl \in Nat /\ q[j].buf \in [1..BufCells -> Cell]
    BY <1>10 DEF RxDescs
  <2>4. Pos(q[j]) < q[j].fl /\ q[j].fl <= Pos(q[j]) + BufCells
        /\ \A k \in 1..(q[j].fl - Pos(q[j])) : q[j].buf[k] = <<n, Pos(q[j]) + k, m>>
    BY <1>10 DEF Segment
  <2>5. QED BY <1>10, <2>2, <2>3, <2>4
<1>12. Len(p) \in Nat /\ Len(p) + left + rest = length /\ Len(p) = a + off /\ off \in Nat
  BY <1>3, <1>4, <1>7, <1>9, <1>11 DEF CopyCount
<1>13. j = h - 1 => a + off + left + rest = e
  BY <1>4, <1>11, <1>12
<1>14. j # h - 1 => j < h - 1 /\ e = a + BufCells /\ Pos(q[j + 1]) = e
  BY <1>4, <1>10, <1>11
<1>15. CASE CopyBuffer
  <2>1. /\ left + off > BufCells /\ rpc' = "copy"
        /\ hand' = p \o SubSeq(b, off + 1, BufCells)
        /\ copy'.desc = NextRx(d) /\ copy'.off = 0
    BY <1>3, <1>7, <1>11, <1>15 DEF CopyBuffer
  <2>2. j < h - 1 /\ e = a + BufCells /\ Pos(q[j + 1]) = e
    BY <1>4, <1>11, <1>12, <1>13, <1>14, <2>1
  <2>3. Len(hand') = a + BufCells /\ Begins(hand', n, m)
    <3>1. PICK x \in 0..BufCells : x = BufCells /\ e - a = x /\ off <= x
      BY <1>4, <2>2
    <3>2. Continues(p, n, m, b, a, off, x)
      BY <1>8, <1>11, <1>12, <3>1 DEF Continues
    <3>3. /\ p \o SubSeq(b, off + 1, x) \in Seq(Cell)
          /\ Len(p \o SubSeq(b, off + 1, x)) = a + x
          /\ Begins(p \o SubSeq(b, off + 1, x), n, m)
      BY <3>2, PieceAppended, Zenon
    <3>4. QED BY <2>1, <3>1, <3>3
  <2>4. copy'.desc = (t + (j + 1)) % RxN /\ j + 1 \in 0..(h - 1)
    <3>1. j \in 0..RxN /\ j < RxN
      BY <1>4
    <3>2. NextRx((t + j) % RxN) = (t + (j + 1)) % RxN
      BY <3>1, Walk
    <3>3. QED BY <1>4, <1>9, <2>1, <2>2, <3>2
  <2>5. Copied(q, t, h)'
    <3>1. Begins(hand, Num(q[0]), Siz(q[0]))'
      BY <1>8, <2>3 DEF Begins, Num, Siz
    <3>2. (copy.desc = (t + (j + 1)) % RxN /\ Pos(q[j + 1]) + copy.off = Len(hand))'
      <4>1. Pos(q[j + 1])' = Pos(q[j + 1])
        BY DEF Pos
      <4>2. Pos(q[j + 1])' + copy'.off = Len(hand')
        BY <1>4, <2>1, <2>2, <2>3, <4>1
      <4>3. QED BY <2>4, <4>2
    <3>3. QED BY <2>4, <3>1, <3>2 DEF Copied
  <2>6. Marks(t, c, h)' /\ Scan(q, c, h)'
    BY <1>2, <1>3, <2>1 DEF Marks, Scan
  <2>7. ~Handed' /\ InHands(q, c, h)'
    BY <2>1 DEF Handed, InHands
  <2>8. Chains(q, c)'
    <3>1. mbox \in Seq(Seq(Cell)) /\ inp \in Seq(Cell) /\ UNCHANGED <<mbox, inp>>
      BY <1>3 DEF RestType
    <3>2. \A k \in Nat : k <= Newest => k <= Newest'
      BY <1>3 DEF Newest
    <3>3. QED BY <1>2, <1>4, <2>7, <3>1, <3>2, ChainsKept
  <2>9. QED BY <1>2, <1>6, <2>5, <2>6, <2>7, <2>8, Witnessed
<1>16. CASE CopyRest
  <2>1. /\ left + off <= BufCells
        /\ hand' = p \o SubSeq(b, off + 1, off + left)
        /\ copy'.desc = d /\ copy'.off = off + left
        /\ rpc' = IF rest = 0 THEN "release" ELSE "copy"
    BY <1>3, <1>7, <1>11, <1>16 DEF CopyRest
  <2>2. left >= 1 /\ released = 0
    BY <1>3, <1>7 DEF EthIInv, ThreadInv
  <2>3. off + left <= e - a
    <3>1. CASE j = h - 1
      <4>1. a + off + left + rest = e
        BY <1>13, <3>1
      <4>2. QED BY <1>12, <4>1
    <3>2. CASE j # h - 1
      <4>1. e = a + BufCells
        BY <1>14, <3>2
      <4>2. QED BY <1>4, <1>12, <2>1, <4>1
    <3>3. QED BY <3>1, <3>2
  <2>4. Len(hand') = a + (off + left) /\ Begins(hand', n, m) /\ hand' \in Seq(Cell)
    <3>1. PICK x \in 0..BufCells : x = off + left /\ x \in Nat
      BY <1>4, <1>12, <2>1
    <3>2. (\A k \in 1..x : k \in 1..(e - a)) /\ off <= x
      BY <1>12, <2>3, <3>1
    <3>3. Continues(p, n, m, b, a, off, x)
      BY <1>8, <1>11, <1>12, <3>2 DEF Continues
    <3>4. /\ p \o SubSeq(b, off + 1, x) \in Seq(Cell)
          /\ Len(p \o SubSeq(b, off + 1, x)) = a + x
          /\ Begins(p \o SubSeq(b, off + 1, x), n, m)
      BY <3>3, PieceAppended, Zenon
    <3>5. QED BY <2>1, <3>1, <3>4
  <2>5. Begins(hand, Num(q[0]), Siz(q[0]))'
    BY <1>8, <2>4 DEF Begins, Num, Siz
  <2>6. CASE rest # 0
    <3>1. rpc' = "copy"
      BY <2>1, <2>6
    <3>2. Copied(q, t, h)'
      <4>1. (copy.desc = (t + j) % RxN /\ Pos(q[j]) + copy.off = Len(hand))'
        BY <1>9, <1>11, <2>1, <2>4 DEF Pos
      <4>2. QED BY <2>5, <4>1 DEF Copied
    <3>3. Marks(t, c, h)' /\ Scan(q, c, h)'
      BY <1>2, <1>3, <3>1 DEF Marks, Scan
    <3>4. ~Handed' /\ InHands(q, c, h)'
      BY <3>1 DEF Handed, InHands
    <3>5. Chains(q, c)'
      <4>1. mbox \in Seq(Seq(Cell)) /\ inp \in Seq(Cell) /\ UNCHANGED <<mbox, inp>>
        BY <1>3 DEF RestType
      <4>2. \A k \in Nat : k <= Newest => k <= Newest'
        BY <1>3 DEF Newest
      <4>3. QED BY <1>2, <1>4, <3>4, <4>1, <4>2, ChainsKept
    <3>6. QED BY <1>2, <1>6, <3>2, <3>3, <3>4, <3>5, Witnessed
  <2>7. CASE rest = 0
    <3>1. rpc' = "release"
      BY <2>1, <2>7
    <3>2. PICK w \in Seq(Cell) : w = hand' /\ Begins(w, n, m) /\ Len(w) = length
      <4>1. a + (off + left) = length
        BY <1>12, <2>7
      <4>2. QED BY <2>4, <4>1
    <3>3. Len(w) >= 1 /\ w # <<>> /\ w[1] = <<n, 1, m>>
      <4>1. Len(w) >= 1
        BY <1>12, <2>2, <3>2
      <4>2. QED BY <3>2, <4>1 DEF Begins
    <3>4. w[1][1] = n /\ w[1][3] = m
      BY <3>3
    <3>5. h - 1 \in 0..(h - 1)
      BY <1>4
    <3>6. /\ Segment(q[h - 1]) /\ Pos(q[h - 1]) \in Nat /\ Siz(q[h - 1]) = m
          /\ q[h - 1] \in RxDescs
      BY <1>2, <1>4, <1>5, <1>8, <3>5, OneFrame
    <3>7. Len(w) <= m /\ (Len(w) = m \/ Len(w) % BufCells = 0)
      <4>1. PICK y \in Nat, g \in Nat : y = Pos(q[h - 1]) /\ g = q[h - 1].fl
        BY <3>6, DescNumbers
      <4>2. g <= m /\ y % BufCells = 0 /\ (g < m => g = y + BufCells)
        BY <3>6, <4>1 DEF Segment
      <4>3. (y + BufCells) % BufCells = 0
        BY <4>2, BufferMultiple
      <4>4. Len(w) = g
        BY <1>4, <3>2, <4>1
      <4>5. QED BY <4>2, <4>3, <4>4
    <3>8. Packet(w)
      BY <3>2, <3>3, <3>4, <3>7 DEF Packet
    <3>9. n <= Newest /\ \A i \in h..(c - 1) : n < Num(q[i])
      <4>1. rxcount \in Nat /\ rxframe.done \in Nat
        BY DEF EthIInv, RxType
      <4>2. QED BY <1>2, <1>4, <1>5, <1>8, <4>1, LaterFrames
    <3>10. InHands(q, c, h)'
      <4>1. Packet(hand)' /\ hand'[1][1] = n
        BY <3>2, <3>4, <3>8 DEF Packet, Begins
      <4>2. (\A i \in h..(c - 1) : n < Num(q[i]))' /\ n <= Newest'
        BY <1>3, <3>9 DEF Num, Newest
      <4>3. QED BY <4>1, <4>2 DEF InHands
    <3>11. Copied(q, t, h)'
      BY <3>1 DEF Copied
    <3>12. Marks(t, c, h)'
      BY <1>2, <1>3, <1>4, <2>2, <3>1 DEF Marks
    <3>13. Scan(q, c, h)'
      BY <1>2, <1>3, <3>1 DEF Scan
    <3>14. Chains(q, c)'
      <4>1. mbox \in Seq(Seq(Cell)) /\ inp \in Seq(Cell) /\ UNCHANGED <<mbox, inp>>
        BY <1>3 DEF RestType
      <4>2. \A k \in Nat : k <= Newest => k <= Newest'
        BY <1>3 DEF Newest
      <4>3. 0 \in 0..(c - 1)
        BY <1>4
      <4>4. ASSUME NEW k \in Nat, \A i \in 0..(c - 1) : k < Num(q[i]) PROVE k < hand'[1][1]
        BY <1>8, <3>2, <3>4, <4>3, <4>4
      <4>5. QED BY <1>2, <1>4, <4>1, <4>2, <4>4, ChainsKept
    <3>15. QED BY <1>2, <1>6, <3>10, <3>11, <3>12, <3>13, <3>14, Witnessed
  <2>8. QED BY <2>6, <2>7
<1>17. QED BY <1>15, <1>16

-----------------------------------------------------------------------------
(* The oldest descriptor of the window goes back to the DMA. *)
LEMMA ReleaseDescPacket ==
    ASSUME EthIInv, RestType, PacketInv, ReleaseDesc
    PROVE  PacketInv'
<1>1. PICK t \in RxRing, c \in 0..RxN, h \in 0..RxN, q \in Views :
        /\ q = View(t) /\ Received(q, t, c, h)
        /\ \A i \in 0..(RxN - 1) :
              (t + i) % RxN \in RxRing /\ q[i] = rxd[(t + i) % RxN]
  BY Named
<1>2. /\ Window(q, c) /\ Arriving(q, c) /\ Marks(t, c, h) /\ Scan(q, c, h)
      /\ InHands(q, c, h) /\ Chains(q, c)
  BY <1>1 DEF Received
<1>3. /\ rpc = "release" /\ released < SegCount /\ released' = released + 1
      /\ rxd' = [rxd EXCEPT ![(FSRxDesc + released) % RxN].own = TRUE]
      /\ UNCHANGED <<rxdma, rxframe, rxcount, rpc, RxDesc, FSRxDesc, SegCount, length,
                     copy, hand, mbox, inp>>
  BY DEF ReleaseDesc, lwip
<1>4. /\ SegCount = released + h /\ t = (FSRxDesc + released) % RxN
      /\ rxdma = (t + c) % RxN /\ RxDesc = (t + h) % RxN /\ h \in 0..c
  BY <1>2, <1>3 DEF Marks
<1>5. /\ RxN \in Nat /\ RxN > 1 /\ c \in Nat /\ h \in Nat /\ released \in Nat
      /\ FSRxDesc \in RxRing /\ FSRxDesc \in Nat /\ t \in Nat /\ t < RxN
      /\ rxd \in [RxRing -> RxDescs]
  BY EthernetAssumption DEF EthIInv, RxType, RxRing, RxDescs
<1>6. h >= 1 /\ c >= 1 /\ h <= c /\ c <= RxN
  BY <1>3, <1>4, <1>5
<1>7. PICK e \in 0..RxN, g \in 0..RxN :
        e = c - 1 /\ g = h - 1 /\ e \in Nat /\ g \in 0..e /\ g \in Nat /\ e < RxN
  BY <1>5, <1>6
<1>8. PICK u \in RxRing : u = (t + 1) % RxN /\ u = NextRx(t)
  <2>1. 1 \in 0..RxN /\ 1 \in 0..(RxN - 1)
    BY <1>5
  <2>2. QED BY <1>1, <2>1 DEF NextRx
<1>9. \A i \in 0..(RxN - 1) : (u + i) % RxN = (t + (1 + i)) % RxN
  <2>1. ASSUME NEW i \in 0..(RxN - 1) PROVE (u + i) % RxN = (t + (1 + i)) % RxN
    <3>1. i \in 0..RxN /\ 1 \in 0..RxN /\ 1 + i <= RxN
      BY <1>5
    <3>2. QED BY <1>8, <3>1, Shift
  <2>2. QED BY <2>1
<1>10. PICK x \in RxDescs : x = [q[0] EXCEPT !.own = TRUE] /\ x.own
  <2>1. 0 \in 0..(RxN - 1)
    BY <1>5
  <2>2. q[0] \in RxDescs
    BY <2>1 DEF Views
  <2>3. [q[0] EXCEPT !.own = TRUE] \in RxDescs /\ [q[0] EXCEPT !.own = TRUE].own
    BY <2>2 DEF RxDescs
  <2>4. QED BY <2>3
<1>11. /\ rxd' = [rxd EXCEPT ![t] = x]
  <2>1. 0 \in 0..(RxN - 1) /\ (t + 0) % RxN = t
    BY <1>5, Walk
  <2>2. q[0] = rxd[t]
    BY <1>1, <2>1
  <2>3. QED BY <1>3, <1>4, <1>10, <2>2
<1>12. PICK r \in Views :
         r = [i \in 0..(RxN - 1) |-> IF i = RxN - 1 THEN x ELSE q[i + 1]]
  <2>1. \A i \in 0..(RxN - 1) : i # RxN - 1 => i + 1 \in 0..(RxN - 1)
    BY <1>5
  <2>2. [i \in 0..(RxN - 1) |-> IF i = RxN - 1 THEN x ELSE q[i + 1]] \in Views
    BY <1>10, <2>1 DEF Views
  <2>3. QED BY <2>2
<1>13. /\ \A i \in 0..(RxN - 2) : r[i] = q[i + 1]
       /\ r[RxN - 1] = x
  <2>1. RxN - 1 \in 0..(RxN - 1)
    BY <1>5
  <2>2. \A i \in 0..(RxN - 2) : i \in 0..(RxN - 1) /\ i # RxN - 1
    BY <1>5
  <2>3. QED BY <1>12, <2>1, <2>2
<1>14. ASSUME NEW i \in 0..(RxN - 1) PROVE rxd'[(u + i) % RxN] = r[i]
  <2>1. (u + i) % RxN = (t + (1 + i)) % RxN
    BY <1>9
  <2>2. CASE i = RxN - 1
    <3>1. 1 + i = RxN /\ (t + RxN) % RxN = t
      BY <1>5, <2>2, Walk
    <3>2. rxd'[t] = x
      BY <1>5, <1>11
    <3>3. QED BY <1>13, <2>1, <2>2, <3>1, <3>2
  <2>3. CASE i # RxN - 1
    <3>1. 1 + i \in 0..(RxN - 1) /\ 0 \in 0..(RxN - 1) /\ 1 + i # 0 /\ (t + 0) % RxN = t
          /\ i \in 0..(RxN - 2) /\ 1 + i = i + 1
      BY <1>5, <2>3, Walk
    <3>2. (t + (1 + i)) % RxN # t
      BY <3>1, Distinct
    <3>3. rxd'[(t + (1 + i)) % RxN] = q[1 + i]
      BY <1>1, <1>5, <1>11, <3>1, <3>2
    <3>4. QED BY <1>13, <2>1, <3>1, <3>3
  <2>4. QED BY <2>2, <2>3
<1>15. r = View(u)'
  <2>1. View(u)' = [i \in 0..(RxN - 1) |-> rxd'[(u + i) % RxN]]
    BY DEF View
  <2>2. View(u)' = [i \in 0..(RxN - 1) |-> r[i]]
    BY <1>14, <2>1
  <2>3. r = [i \in 0..(RxN - 1) |-> r[i]]
    BY DEF Views
  <2>4. QED BY <2>2, <2>3
<1>16. Window(r, e)
  <2>1. c > 0 /\ r[RxN - 1].own
    BY <1>5, <1>6, <1>10, <1>13
  <2>2. Window(r, c - 1)
    BY <1>2, <1>13, <2>1, WindowDrop
  <2>3. QED BY <1>7, <2>2
<1>17. \A i \in 0..(e - 1) : r[i] = q[i + 1] /\ i + 1 \in 0..(c - 1) /\ i + 1 \in 0..(RxN - 1)
  <2>1. \A i \in 0..(e - 1) : i \in 0..(RxN - 2) /\ i + 1 \in 0..(c - 1) /\ i + 1 \in 0..(RxN - 1)
    BY <1>5, <1>6, <1>7
  <2>2. QED BY <1>13, <2>1
<1>18. /\ \A i \in 0..(h - 1) : q[i].ls <=> i = h - 1
       /\ h < c => q[h].fs
  BY <1>2, <1>3 DEF Scan
<1>19. UNCHANGED Newest /\ UNCHANGED Handed
  BY <1>3 DEF Newest, Handed
<1>20. Arriving(r, e)'
  <2>1. e > 0 => r[e - 1] = q[c - 1]
    <3>1. e > 0 => e - 1 \in 0..(e - 1) /\ e - 1 + 1 = c - 1
      BY <1>5, <1>7
    <3>2. QED BY <1>17, <3>1
  <2>2. /\ e > 0 => (Num(r[e - 1]))' = Num(q[c - 1])
        /\ e > 0 => (Siz(r[e - 1]))' = Siz(q[c - 1])
    BY <2>1 DEF Num, Siz
  <2>3. e < RxN /\ (e > 0 => c > 0)
    BY <1>5, <1>6, <1>7
  <2>4. rxframe # NoFrame /\ rxframe.done > 0 => e > 0
    <3>1. SUFFICES ASSUME rxframe # NoFrame, rxframe.done > 0, e = 0 PROVE FALSE
      BY <1>7
    <3>2. c = 1 /\ h = 1 /\ h - 1 \in 0..(h - 1)
      BY <1>5, <1>6, <1>7, <3>1
    <3>3. q[h - 1].ls /\ c - 1 = h - 1
      BY <1>18, <3>2
    <3>4. ~q[c - 1].ls
      BY <1>2, <3>1 DEF Arriving
    <3>5. QED BY <3>3, <3>4
  <2>5. /\ rxframe' # NoFrame =>
              /\ e < RxN /\ rxcount' >= 1
              /\ rxframe'.cells = Frame(rxcount', Len(rxframe'.cells))
              /\ rxframe'.done < Len(rxframe'.cells) /\ rxframe'.done % BufCells = 0
    BY <1>2, <1>3, <2>3 DEF Arriving
  <2>6. e > 0 /\ (rxframe' = NoFrame \/ rxframe'.done = 0) =>
          r[e - 1].ls /\ Num(r[e - 1])' <= Newest'
    BY <1>2, <1>3, <1>19, <2>1, <2>2, <2>3 DEF Arriving
  <2>7. rxframe' # NoFrame /\ rxframe'.done > 0 =>
          /\ e > 0 /\ ~r[e - 1].ls /\ r[e - 1].fl = rxframe'.done
          /\ Num(r[e - 1])' = rxcount' /\ Siz(r[e - 1])' = Len(rxframe'.cells)
    BY <1>2, <1>3, <2>1, <2>2, <2>3, <2>4 DEF Arriving
  <2>8. QED BY <2>5, <2>6, <2>7 DEF Arriving
<1>21. Marks(u, e, g)'
  <2>1. 1 \in 0..RxN /\ e \in 0..RxN /\ 1 + e = c /\ g \in 0..RxN /\ 1 + g = h
        /\ 1 + e <= RxN /\ 1 + g <= RxN
    BY <1>5, <1>6, <1>7
  <2>2. (u + e) % RxN = (t + c) % RxN
    BY <1>8, <2>1, Shift
  <2>3. (u + g) % RxN = (t + h) % RxN
    BY <1>8, <2>1, Shift
  <2>4. u = (FSRxDesc + (released + 1)) % RxN
    <3>1. PICK a \in Nat : a = FSRxDesc + released /\ a + 1 = FSRxDesc + (released + 1)
      BY <1>5
    <3>2. NextRx(a % RxN) = (a + 1) % RxN
      BY <3>1, NextAround
    <3>3. QED BY <1>4, <1>8, <3>1, <3>2
  <2>5. SegCount' = released' + g
    BY <1>3, <1>4, <1>5, <1>7
  <2>6. QED BY <1>3, <1>4, <1>7, <2>2, <2>3, <2>4, <2>5 DEF Marks
<1>22. Scan(r, e, g)'
  <2>1. ASSUME NEW i \in 0..(g - 1) PROVE r[i].ls <=> i = g - 1
    <3>1. i \in 0..(e - 1) /\ i + 1 \in 0..(h - 1) /\ (i + 1 = h - 1 <=> i = g - 1)
      BY <1>5, <1>7
    <3>2. QED BY <1>17, <1>18, <3>1
  <2>2. g < e => r[g].fs
    <3>1. g < e => g \in 0..(e - 1) /\ g + 1 = h /\ h < c
      BY <1>5, <1>7
    <3>2. QED BY <1>17, <1>18, <3>1
  <2>3. QED BY <1>3, <2>1, <2>2 DEF Scan
<1>23. Copied(r, u, g)'
  BY <1>3 DEF Copied
<1>24. InHands(r, e, g)'
  <2>1. SUFFICES ASSUME Handed' PROVE InHands(r, e, g)'
    BY DEF InHands
  <2>2. /\ Packet(hand) /\ hand[1][1] <= Newest
        /\ \A i \in h..(c - 1) : hand[1][1] < Num(q[i])
    BY <1>2, <1>19, <2>1 DEF InHands
  <2>3. ASSUME NEW i \in g..(e - 1) PROVE (hand[1][1] < Num(r[i]))'
    <3>1. i \in 0..(e - 1) /\ i + 1 \in h..(c - 1)
      BY <1>5, <1>7
    <3>2. r[i] = q[i + 1] /\ hand[1][1] < Num(q[i + 1])
      BY <1>17, <2>2, <3>1
    <3>3. QED BY <1>3, <3>2 DEF Num
  <2>4. Packet(hand)' /\ (hand[1][1] <= Newest)'
    BY <1>3, <1>19, <2>2 DEF Packet, Begins
  <2>5. QED BY <2>3, <2>4 DEF InHands
<1>25. Chains(r, e)'
  <2>1. mbox \in Seq(Seq(Cell)) /\ inp \in Seq(Cell) /\ UNCHANGED <<mbox, inp>>
    BY <1>3 DEF RestType
  <2>2. \A k \in Nat : k <= Newest => k <= Newest'
    BY <1>19
  <2>3. ASSUME NEW k \in Nat, \A i \in 0..(c - 1) : k < Num(q[i])
        PROVE  \A i \in 0..(e - 1) : k < Num(r[i])
    BY <1>17, <2>3
  <2>4. Handed' => Handed /\ hand' = hand
    BY <1>3, <1>19
  <2>5. QED BY <1>2, <1>5, <1>7, <2>1, <2>2, <2>3, <2>4, ChainsKept
<1>26. QED BY <1>7, <1>15, <1>16, <1>20, <1>21, <1>22, <1>23, <1>24, <1>25, Witnessed

(* low_level_input returns: nothing is left to release. *)
LEMMA InputReturnsPacket ==
    ASSUME EthIInv, RestType, PacketInv, InputReturns
    PROVE  PacketInv'
<1>1. PICK t \in RxRing, c \in 0..RxN, h \in 0..RxN, q \in Views :
        /\ q = View(t) /\ Received(q, t, c, h)
        /\ \A i \in 0..(RxN - 1) :
              (t + i) % RxN \in RxRing /\ q[i] = rxd[(t + i) % RxN]
  BY Named
<1>2. /\ Window(q, c) /\ Arriving(q, c) /\ Marks(t, c, h) /\ Scan(q, c, h)
      /\ InHands(q, c, h) /\ Chains(q, c)
  BY <1>1 DEF Received
<1>3. /\ rpc = "release" /\ released = SegCount /\ SegCount' = 0
      /\ rpc' = IF hand = <<>> THEN "wait" ELSE "input"
      /\ UNCHANGED <<rxd, rxdma, rxframe, rxcount, RxDesc, FSRxDesc, length, released,
                     copy, hand, mbox, inp>>
  BY DEF InputReturns, ring, lwip
<1>4. h = 0 /\ c \in Nat /\ released \in Nat
  <2>1. SegCount = released + h /\ h \in Nat
    BY <1>2, <1>3 DEF Marks
  <2>2. released \in Nat /\ RxN \in Nat
    BY EthernetAssumption DEF EthIInv, RxType
  <2>3. QED BY <1>3, <2>1, <2>2
<1>5. q = View(t)' /\ Arriving(q, c)'
  BY <1>1, <1>2, <1>3 DEF View, Arriving, Newest
<1>6. Marks(t, c, h)'
  BY <1>2, <1>3, <1>4 DEF Marks
<1>7. Scan(q, c, h)'
  <2>1. c > 0 => q[0].fs
    BY <1>2, <1>3, <1>4 DEF Scan
  <2>2. h < c => q[h].fs
    BY <1>2, <1>3 DEF Scan
  <2>3. ~(h > 0) /\ \A i \in 0..(h - 1) : FALSE
    BY <1>4
  <2>4. QED BY <1>3, <1>4, <2>1, <2>2, <2>3 DEF Scan
<1>8. Copied(q, t, h)'
  BY <1>3 DEF Copied
<1>9. Handed' => Handed /\ hand' = hand
  BY <1>3 DEF Handed
<1>10. UNCHANGED Newest
  BY <1>3 DEF Newest
<1>11. InHands(q, c, h)'
  BY <1>2, <1>9, <1>10 DEF InHands, Packet, Begins, Num
<1>12. Chains(q, c)'
  <2>1. mbox \in Seq(Seq(Cell)) /\ inp \in Seq(Cell) /\ UNCHANGED <<mbox, inp>>
    BY <1>3 DEF RestType
  <2>2. \A k \in Nat : k <= Newest => k <= Newest'
    BY <1>10
  <2>3. QED BY <1>2, <1>4, <1>9, <2>1, <2>2, ChainsKept
<1>13. QED BY <1>2, <1>5, <1>6, <1>7, <1>8, <1>11, <1>12, Witnessed

(* A chain stays older while the ring does not change and nothing newer is *)
(* in hand.                                                                *)
LEMMA OlderKept ==
    ASSUME NEW p, NEW q, NEW c, Older(p, q, c), UNCHANGED <<rxframe, rxcount>>,
           Handed' => Handed /\ hand' = hand
    PROVE  Older(p, q, c)'
<1>1. UNCHANGED Newest
  BY DEF Newest
<1>2. Packet(p)' /\ (p[1][1] <= Newest)'
  BY <1>1 DEF Older, Packet, Begins
<1>3. (\A i \in 0..(c - 1) : p[1][1] < Num(q[i]))'
  BY DEF Older, Num
<1>4. (Handed => p[1][1] < hand[1][1])'
  BY DEF Older
<1>5. QED BY <1>2, <1>3, <1>4 DEF Older

(* The chain in hand joins the mailbox as the newest, or is freed. *)
LEMMA NetifInputPacket ==
    ASSUME EthIInv, RestType, PacketInv, NetifInput
    PROVE  PacketInv'
<1>1. PICK t \in RxRing, c \in 0..RxN, h \in 0..RxN, q \in Views :
        /\ q = View(t) /\ Received(q, t, c, h)
        /\ \A i \in 0..(RxN - 1) :
              (t + i) % RxN \in RxRing /\ q[i] = rxd[(t + i) % RxN]
  BY Named
<1>2. /\ Window(q, c) /\ Arriving(q, c) /\ Marks(t, c, h) /\ Scan(q, c, h)
      /\ InHands(q, c, h) /\ Chains(q, c)
  BY <1>1 DEF Received
<1>3. /\ rpc = "input" /\ rpc' = "get" /\ hand' = <<>>
      /\ UNCHANGED <<rxd, rxdma, rxframe, rxcount, RxDesc, FSRxDesc, SegCount, length,
                     released, copy, inp>>
      /\ mbox' = mbox \/ mbox' = Append(mbox, hand)
  BY DEF NetifInput, ring
<1>4. h = 0 /\ c \in Nat /\ hand # <<>> /\ Handed
  BY <1>2, <1>3, EthernetAssumption DEF Scan, Handed
<1>5. ~Handed' /\ UNCHANGED Newest
  BY <1>3 DEF Handed, Newest
<1>6. q = View(t)' /\ Arriving(q, c)'
  BY <1>1, <1>2, <1>3 DEF View, Arriving, Newest
<1>7. Marks(t, c, h)'
  BY <1>2, <1>3 DEF Marks
<1>8. Scan(q, c, h)'
  <2>1. ~(h > 0) /\ \A i \in 0..(h - 1) : FALSE
    BY <1>4
  <2>2. c > 0 => q[0].fs
    BY <1>2, <1>3, <1>4 DEF Scan
  <2>3. QED BY <1>3, <2>1, <2>2 DEF Scan
<1>9. Copied(q, t, h)' /\ InHands(q, c, h)'
  BY <1>3, <1>5 DEF Copied, InHands
<1>10. /\ mbox \in Seq(Seq(Cell)) /\ inp \in Seq(Cell)
       /\ hand \in Seq(Cell)
  BY DEF RestType, EthIInv, RxType
<1>11. CASE mbox' = mbox
  <2>1. \A k \in Nat : k <= Newest => k <= Newest'
    BY <1>5
  <2>2. UNCHANGED <<mbox, inp>>
    BY <1>3, <1>11
  <2>3. Chains(q, c)'
    BY <1>2, <1>4, <1>5, <1>10, <2>1, <2>2, ChainsKept
  <2>4. QED BY <1>2, <1>6, <1>7, <1>8, <1>9, <2>3, Witnessed
<1>12. CASE mbox' = Append(mbox, hand)
  <2>1. PICK p \in Seq(Cell), N \in Nat : p = hand /\ N = Len(mbox)
    BY <1>10
  <2>2. /\ Len(mbox') = N + 1 /\ mbox'[N + 1] = p
        /\ \A i \in 1..N : mbox'[i] = mbox[i]
        /\ \A i \in 1..(N + 1) : i \in 1..N \/ i = N + 1
    BY <1>10, <1>12, <2>1
  <2>3. /\ Packet(p) /\ p[1][1] <= Newest
        /\ \A i \in 0..(c - 1) : p[1][1] < Num(q[i])
    BY <1>2, <1>4, <2>1 DEF InHands
  <2>4. (Older(p, q, c))'
    <3>1. Packet(p)' /\ p[1][1] <= Newest'
      BY <1>5, <2>3 DEF Packet, Begins
    <3>2. (\A i \in 0..(c - 1) : p[1][1] < Num(q[i]))'
      BY <2>3 DEF Num
    <3>3. QED BY <1>5, <3>1, <3>2 DEF Older
  <2>5. ASSUME NEW i \in 1..N
        PROVE  Older(mbox[i], q, c)' /\ mbox'[i][1][1] < p[1][1]
    <3>1. PICK s : s = mbox[i] /\ s = mbox'[i] /\ Older(s, q, c)
      BY <1>2, <2>1, <2>2 DEF Chains
    <3>2. s[1][1] < p[1][1]
      BY <1>4, <2>1, <3>1 DEF Older
    <3>3. Older(s, q, c)'
      BY <1>3, <1>5, <3>1, OlderKept
    <3>4. Older(mbox[i], q, c)'
      BY <3>1, <3>3 DEF Older
    <3>5. QED BY <3>1, <3>2, <3>4
  <2>6. ASSUME NEW i \in 1..Len(mbox') PROVE Older(mbox[i], q, c)'
    <3>1. CASE i \in 1..N
      BY <2>5, <3>1
    <3>2. CASE i = N + 1
      BY <2>2, <2>4, <3>2 DEF Older
    <3>3. QED BY <2>2, <3>1, <3>2
  <2>7. ASSUME NEW i \in 1..Len(mbox'), NEW j \in 1..Len(mbox'), i < j
        PROVE  mbox'[i][1][1] < mbox'[j][1][1]
    <3>1. i \in 1..N
      BY <2>2, <2>7
    <3>2. CASE j \in 1..N
      BY <1>2, <2>1, <2>2, <2>7, <3>1, <3>2 DEF Chains
    <3>3. CASE j = N + 1
      BY <2>2, <2>5, <3>1, <3>3
    <3>4. QED BY <2>2, <3>2, <3>3
  <2>8. ASSUME inp' # <<>>
        PROVE  /\ Older(inp, q, c)'
               /\ \A i \in 1..Len(mbox') : inp'[1][1] < mbox'[i][1][1]
    <3>1. PICK s : s = inp /\ s = inp' /\ Older(s, q, c)
      BY <1>2, <1>3, <2>8 DEF Chains
    <3>2. Older(s, q, c)'
      BY <1>3, <1>5, <3>1, OlderKept
    <3>3. Older(inp, q, c)'
      BY <3>1, <3>2 DEF Older
    <3>4. s[1][1] < p[1][1]
      BY <1>4, <2>1, <3>1 DEF Older
    <3>5. \A i \in 1..N : s[1][1] < mbox[i][1][1]
      BY <1>2, <1>3, <2>1, <2>8, <3>1 DEF Chains
    <3>6. QED BY <2>2, <3>1, <3>3, <3>4, <3>5
  <2>9. Chains(q, c)'
    BY <2>6, <2>7, <2>8 DEF Chains
  <2>10. QED BY <1>2, <1>6, <1>7, <1>8, <1>9, <2>9, Witnessed
<1>13. QED BY <1>3, <1>11, <1>12

(* The tcpip thread takes the oldest chain of the mailbox, or frees the    *)
(* one it has.                                                             *)
LEMMA TcpipPacket ==
    ASSUME EthIInv, RestType, PacketInv, Tcpip
    PROVE  PacketInv'
<1>1. PICK t \in RxRing, c \in 0..RxN, h \in 0..RxN, q \in Views :
        /\ q = View(t) /\ Received(q, t, c, h)
        /\ \A i \in 0..(RxN - 1) :
              (t + i) % RxN \in RxRing /\ q[i] = rxd[(t + i) % RxN]
  BY Named
<1>2. /\ Window(q, c) /\ Arriving(q, c) /\ Marks(t, c, h) /\ Scan(q, c, h)
      /\ Copied(q, t, h) /\ InHands(q, c, h) /\ Chains(q, c)
  BY <1>1 DEF Received
<1>3. UNCHANGED <<rxd, rxdma, rxframe, rxcount, rpc, RxDesc, FSRxDesc, SegCount, length,
                  released, copy, hand>>
  BY DEF Tcpip, MboxFetch, PacketDone, ring, thread
<1>4. \/ inp' = <<>> /\ mbox' = mbox
      \/ mbox # <<>> /\ inp' = Head(mbox) /\ mbox' = Tail(mbox)
  BY DEF Tcpip, MboxFetch, PacketDone
<1>5. q = View(t)' /\ Arriving(q, c)' /\ Marks(t, c, h)'
  BY <1>1, <1>2, <1>3 DEF View, Arriving, Marks, Newest
<1>6. Scan(q, c, h)' /\ Copied(q, t, h)' /\ InHands(q, c, h)'
  BY <1>2, <1>3 DEF Scan, Copied, InHands, Handed, Newest
<1>7. Handed' => Handed /\ hand' = hand
  BY <1>3 DEF Handed
<1>8. ASSUME NEW i \in 1..Len(mbox), NEW s, s = mbox[i] PROVE Older(s, q, c)'
  <2>1. Older(s, q, c)
    BY <1>2, <1>8 DEF Chains
  <2>2. QED BY <1>3, <1>7, <2>1, OlderKept
<1>9. mbox \in Seq(Seq(Cell))
  BY DEF RestType
<1>10. CASE inp' = <<>> /\ mbox' = mbox
  <2>1. ASSUME NEW i \in 1..Len(mbox') PROVE Older(mbox[i], q, c)'
    <3>1. PICK s : s = mbox[i] /\ s = mbox'[i]
      BY <1>10
    <3>2. Older(s, q, c)'
      BY <1>8, <1>10, <3>1
    <3>3. QED BY <3>1, <3>2 DEF Older
  <2>2. Chains(q, c)'
    BY <1>2, <1>10, <2>1 DEF Chains
  <2>3. QED BY <1>2, <1>5, <1>6, <2>2, Witnessed
<1>11. CASE mbox # <<>> /\ inp' = Head(mbox) /\ mbox' = Tail(mbox)
  <2>1. /\ 1 \in 1..Len(mbox) /\ inp' = mbox[1] /\ Len(mbox') = Len(mbox) - 1
        /\ \A i \in 1..Len(mbox') : mbox'[i] = mbox[i + 1] /\ i + 1 \in 1..Len(mbox)
                                    /\ 1 < i + 1
        /\ Len(mbox) \in Nat /\ Len(mbox') \in Nat
    BY <1>9, <1>11
  <2>2. ASSUME NEW i \in 1..Len(mbox') PROVE Older(mbox[i], q, c)'
    <3>1. PICK s : s = mbox[i + 1] /\ s = mbox'[i]
      BY <2>1
    <3>2. Older(s, q, c)'
      BY <1>8, <2>1, <3>1
    <3>3. QED BY <3>1, <3>2 DEF Older
  <2>3. Older(inp, q, c)'
    <3>1. PICK s : s = mbox[1] /\ s = inp'
      BY <2>1
    <3>2. Older(s, q, c)'
      BY <1>8, <2>1, <3>1
    <3>3. QED BY <3>1, <3>2 DEF Older
  <2>4. \A i \in 1..Len(mbox') : inp'[1][1] < mbox'[i][1][1]
    BY <1>2, <2>1 DEF Chains
  <2>5. ASSUME NEW i \in 1..Len(mbox'), NEW j \in 1..Len(mbox'), i < j
        PROVE  mbox'[i][1][1] < mbox'[j][1][1]
    <3>1. i + 1 < j + 1
      BY <2>1, <2>5
    <3>2. QED BY <1>2, <2>1, <3>1 DEF Chains
  <2>6. Chains(q, c)'
    BY <2>2, <2>3, <2>4, <2>5 DEF Chains
  <2>7. QED BY <1>2, <1>5, <1>6, <2>6, Witnessed
<1>12. QED BY <1>4, <1>10, <1>11

(* Every step keeps the window and the chains. *)
LEMMA PacketStep ==
    ASSUME EthIInv, PbufInv, PacketInv, [Next]_vars
    PROVE  PacketInv'
<1>1. RestType /\ CopyCount
  BY DEF PbufInv
<1>2. CASE FrameArrives
  BY <1>1, <1>2, FrameArrivesPacket
<1>3. CASE DmaStores
  BY <1>1, <1>3, DmaStoresPacket
<1>4. CASE DmaSends
  <2>1. UNCHANGED <<ring, thread, mbox, inp>>
    BY <1>4 DEF DmaSends, lwip
  <2>2. QED BY <2>1, PacketUntouched
<1>5. CASE Irq
  <2>1. UNCHANGED <<ring, thread, mbox, inp>>
    BY <1>5 DEF Irq, IrqCallback, IrqEnd, lwip
  <2>2. QED BY <2>1, PacketUntouched
<1>6. CASE RxThread
  BY <1>1, <1>6, SemaphoreAcquirePacket, GetReceivedFramePacket, AllocPbufsPacket,
     CopyPacket, ReleaseDescPacket, InputReturnsPacket, NetifInputPacket DEF RxThread
<1>7. CASE Tcpip
  BY <1>1, <1>7, TcpipPacket
<1>8. ASSUME NEW s \in Senders, LowLevelOutput(s) \/ Transmit(s) PROVE PacketInv'
  <2>1. UNCHANGED <<ring, thread, mbox, inp>>
    BY <1>8 DEF LowLevelOutput, Transmit, CheckOwn, CopyPbuf, HalLock, HalOwn, GiveToDma,
                NextTxDesc, HalUnlock, SenderStep, lwip
  <2>2. QED BY <2>1, PacketUntouched
<1>9. CASE UNCHANGED vars
  <2>1. UNCHANGED <<ring, thread, mbox, inp>>
    BY <1>9 DEF vars, lwip
  <2>2. QED BY <2>1, PacketUntouched
<1>10. QED BY <1>2, <1>3, <1>4, <1>5, <1>6, <1>7, <1>8, <1>9 DEF Next, Dma

-----------------------------------------------------------------------------
(* A packet is the frame its first cell names, from the beginning on. *)
LEMMA PacketIsFrame ==
    ASSUME NEW p \in Seq(Cell), Packet(p)
    PROVE  /\ IsPrefix(p, Frame(p[1][1], p[1][3]))
           /\ p = Frame(p[1][1], p[1][3]) \/ Len(p) % BufCells = 0
<1>1. 1 \in 1..Len(p)
  BY DEF Packet
<1>2. PICK n \in Nat, m \in Nat : n = p[1][1] /\ m = p[1][3]
  BY <1>1 DEF Cell
<1>3. /\ Len(p) \in Nat /\ Len(p) <= m /\ (Len(p) = m \/ Len(p) % BufCells = 0)
      /\ \A k \in 1..Len(p) : p[k] = <<n, k, m>>
  BY <1>2 DEF Packet, Begins
<1>4. PICK F \in Seq(Cell) : F = Frame(n, m) /\ Len(F) = m
                             /\ \A k \in 1..m : F[k] = <<n, k, m>>
  <2>1. Frame(n, m) \in Seq(Cell) /\ Len(Frame(n, m)) = m
    BY DEF Frame, Cell
  <2>2. \A k \in 1..m : Frame(n, m)[k] = <<n, k, m>>
    BY DEF Frame
  <2>3. QED BY <2>1, <2>2
<1>5. \A k \in 1..Len(p) : p[k] = F[k]
  <2>1. \A k \in 1..Len(p) : k \in 1..m
    BY <1>3
  <2>2. QED BY <1>3, <1>4, <2>1, Zenon
<1>6. IsPrefix(p, F)
  <2>1. /\ SubSeq(p, 1, Len(p)) \in Seq(Cell) /\ SubSeq(F, 1, Len(p)) \in Seq(Cell)
        /\ Len(SubSeq(p, 1, Len(p))) = Len(p) /\ Len(SubSeq(F, 1, Len(p))) = Len(p)
    BY <1>3, <1>4
  <2>2. \A k \in 1..Len(p) : SubSeq(p, 1, Len(p))[k] = SubSeq(F, 1, Len(p))[k]
    BY <1>3, <1>4, <1>5
  <2>3. SubSeq(p, 1, Len(p)) = SubSeq(F, 1, Len(p))
    BY <2>1, <2>2
  <2>4. QED BY <1>3, <1>4, <2>3 DEF IsPrefix
<1>7. Len(p) = m => p = F
  BY <1>4, <1>5
<1>8. QED BY <1>2, <1>3, <1>4, <1>6, <1>7

(* Chains of packets in the order of the wire. *)
InOrder(s) ==
    /\ \A i \in 1..Len(s) : Packet(s[i])
    /\ \A i, j \in 1..Len(s) : i < j => s[i][1][1] < s[j][1][1]

(* Two such sequences of chains, the first with the older packets. *)
LEMMA InOrderConcat ==
    ASSUME NEW s \in Seq(Seq(Cell)), NEW u \in Seq(Seq(Cell)), InOrder(s), InOrder(u),
           \A i \in 1..Len(s), j \in 1..Len(u) : s[i][1][1] < u[j][1][1]
    PROVE  InOrder(s \o u)
<1>1. PICK M \in Nat, N \in Nat, w \in Seq(Seq(Cell)) :
        /\ M = Len(s) /\ N = Len(u) /\ w = s \o u /\ Len(w) = M + N
        /\ \A i \in 1..M : w[i] = s[i]
        /\ \A i \in 1..N : w[M + i] = u[i]
  <2>1. /\ Len(s) \in Nat /\ Len(u) \in Nat /\ s \o u \in Seq(Seq(Cell))
        /\ Len(s \o u) = Len(s) + Len(u)
        /\ \A i \in 1..Len(s) : (s \o u)[i] = s[i]
        /\ \A i \in 1..Len(u) : (s \o u)[Len(s) + i] = u[i]
    OBVIOUS
  <2>2. QED BY <2>1
<1>2. ASSUME NEW i \in 1..(M + N), i \notin 1..M
      PROVE  i - M \in 1..N /\ w[i] = u[i - M]
  <2>1. i - M \in 1..N /\ M + (i - M) = i
    BY <1>2
  <2>2. QED BY <1>1, <2>1
<1>3. ASSUME NEW i \in 1..Len(w) PROVE Packet(w[i])
  BY <1>1, <1>2 DEF InOrder
<1>4. ASSUME NEW i \in 1..Len(w), NEW j \in 1..Len(w), i < j
      PROVE  w[i][1][1] < w[j][1][1]
  <2>1. CASE j \in 1..M
    <3>1. i \in 1..M
      BY <1>1, <1>4, <2>1
    <3>2. QED BY <1>1, <1>4, <2>1, <3>1 DEF InOrder
  <2>2. CASE i \in 1..M /\ j \notin 1..M
    <3>1. j - M \in 1..N /\ w[j] = u[j - M]
      BY <1>1, <1>2, <2>2
    <3>2. QED BY <1>1, <2>2, <3>1
  <2>3. CASE i \notin 1..M /\ j \notin 1..M
    <3>1. /\ i - M \in 1..N /\ w[i] = u[i - M] /\ j - M \in 1..N /\ w[j] = u[j - M]
          /\ i - M < j - M
      BY <1>1, <1>2, <1>4, <2>3
    <3>2. QED BY <1>1, <3>1 DEF InOrder
  <2>4. QED BY <2>1, <2>2, <2>3
<1>5. QED BY <1>1, <1>3, <1>4 DEF InOrder

(* What the invariant says of the chains on their way up. *)
LEMMA PacketInvIntact ==
    ASSUME EthIInv, RestType, PacketInv
    PROVE  PacketsIntact
<1>1. PICK t \in RxRing, c \in 0..RxN, h \in 0..RxN, q \in Views :
        /\ q = View(t) /\ Received(q, t, c, h)
        /\ \A i \in 0..(RxN - 1) :
              (t + i) % RxN \in RxRing /\ q[i] = rxd[(t + i) % RxN]
  BY Named
<1>2. Scan(q, c, h) /\ InHands(q, c, h) /\ Chains(q, c)
  BY <1>1 DEF Received
<1>3. PICK a \in Seq(Cell), m \in Seq(Seq(Cell)), b \in Seq(Cell) :
        a = inp /\ m = mbox /\ b = hand
  BY DEF EthIInv, RxType, RestType
<1>4. PICK A \in Seq(Seq(Cell)), B \in Seq(Seq(Cell)) :
        /\ A = (IF inp = <<>> THEN <<>> ELSE <<inp>>)
        /\ B = (IF rpc = "input" THEN <<hand>> ELSE <<>>)
  <2>1. <<>> \in Seq(Seq(Cell)) /\ <<a>> \in Seq(Seq(Cell)) /\ <<b>> \in Seq(Seq(Cell))
    OBVIOUS
  <2>2. (IF inp = <<>> THEN <<>> ELSE <<inp>>) \in Seq(Seq(Cell))
    BY <1>3, <2>1
  <2>3. (IF rpc = "input" THEN <<hand>> ELSE <<>>) \in Seq(Seq(Cell))
    BY <1>3, <2>1
  <2>4. QED BY <2>2, <2>3
<1>5. a # <<>> => /\ Packet(a) /\ \A i \in 1..Len(m) : a[1][1] < m[i][1][1]
                  /\ Handed => a[1][1] < b[1][1]
  BY <1>2, <1>3 DEF Chains, Older
<1>6. \A i \in 1..Len(m) : Packet(m[i]) /\ (Handed => m[i][1][1] < b[1][1])
  BY <1>2, <1>3 DEF Chains, Older
<1>7. rpc = "input" => Handed /\ Packet(b)
  BY <1>2, <1>3 DEF Scan, Handed, InHands
<1>8. InOrder(m)
  BY <1>2, <1>3, <1>6 DEF Chains, InOrder
<1>9. InOrder(A) /\ \A i \in 1..Len(A) : a # <<>> /\ A[i] = a
  <2>1. CASE a = <<>>
    <3>1. A = <<>> /\ \A i \in 1..Len(A) : FALSE
      BY <1>3, <1>4, <2>1
    <3>2. QED BY <3>1 DEF InOrder
  <2>2. CASE a # <<>>
    <3>1. A = <<a>> /\ Len(A) = 1 /\ A[1] = a /\ \A i \in 1..Len(A) : i = 1
      BY <1>3, <1>4, <2>2
    <3>2. QED BY <1>5, <2>2, <3>1 DEF InOrder
  <2>3. QED BY <2>1, <2>2
<1>10. InOrder(B) /\ \A i \in 1..Len(B) : rpc = "input" /\ B[i] = b
  <2>1. CASE rpc # "input"
    <3>1. B = <<>> /\ \A i \in 1..Len(B) : FALSE
      BY <1>4, <2>1
    <3>2. QED BY <3>1 DEF InOrder
  <2>2. CASE rpc = "input"
    <3>1. B = <<b>> /\ Len(B) = 1 /\ B[1] = b /\ \A i \in 1..Len(B) : i = 1
      BY <1>3, <1>4, <2>2
    <3>2. QED BY <1>7, <2>2, <3>1 DEF InOrder
  <2>3. QED BY <2>1, <2>2
<1>11. PICK C \in Seq(Seq(Cell)) : C = A \o m /\ InOrder(C)
  <2>1. \A i \in 1..Len(A), j \in 1..Len(m) : A[i][1][1] < m[j][1][1]
    BY <1>5, <1>9
  <2>2. InOrder(A \o m) /\ A \o m \in Seq(Seq(Cell))
    BY <1>8, <1>9, <2>1, InOrderConcat
  <2>3. QED BY <2>2
<1>12. \A i \in 1..Len(C) : Handed => C[i][1][1] < b[1][1]
  <2>1. ASSUME NEW i \in 1..Len(C) PROVE \/ i \in 1..Len(A) /\ C[i] = A[i]
                                         \/ \E j \in 1..Len(m) : C[i] = m[j]
    <3>1. /\ Len(A) \in Nat /\ Len(m) \in Nat /\ Len(C) = Len(A) + Len(m)
          /\ i \in 1..Len(A) => C[i] = A[i]
      BY <1>11
    <3>2. i \notin 1..Len(A) => i - Len(A) \in 1..Len(m) /\ C[i] = m[i - Len(A)]
      BY <1>11, <3>1
    <3>3. QED BY <3>1, <3>2
  <2>2. QED BY <1>5, <1>6, <1>9, <2>1
<1>13. PICK U \in Seq(Seq(Cell)) : U = Upward /\ InOrder(U)
  <2>1. \A i \in 1..Len(C), j \in 1..Len(B) : C[i][1][1] < B[j][1][1]
    BY <1>7, <1>10, <1>12
  <2>2. InOrder(C \o B)
    BY <1>10, <1>11, <2>1, InOrderConcat
  <2>3. C \o B \in Seq(Seq(Cell))
    OBVIOUS
  <2>4. Upward = C \o B
    BY <1>3, <1>4, <1>11 DEF Upward
  <2>5. QED BY <2>2, <2>3, <2>4
<1>14. ASSUME NEW i \in 1..Len(U)
       PROVE  /\ IsPrefix(U[i], Frame(U[i][1][1], U[i][1][3]))
              /\ U[i] = Frame(U[i][1][1], U[i][1][3]) \/ Len(U[i]) % BufCells = 0
  <2>1. PICK p \in Seq(Cell) : p = U[i] /\ Packet(p)
    BY <1>13 DEF InOrder
  <2>2. QED BY <2>1, PacketIsFrame
<1>15. QED BY <1>13, <1>14 DEF PacketsIntact, InOrder

(* Every packet that lwIP gets is one frame of the wire, cell by cell,     *)
(* whole or cut at the end of a buffer, and packets keep the order of the  *)
(* wire (ethernetif.c:515-542, stm32f7xx_hal_eth.c:1093-1149), for rings,  *)
(* buffers, pbufs and frames of any size.                                  *)
THEOREM PacketsArriveIntact == Spec => []PacketsIntact
<1>1. Init => PacketInv
  BY PacketInit
<1>2. /\ EthIInv /\ PbufInv /\ SendInv /\ PacketInv /\ [Next]_vars
      => PacketInv'
  BY PacketStep
<1>3. EthIInv /\ PbufInv /\ SendInv /\ PacketInv => PacketsIntact
  BY PacketInvIntact DEF PbufInv
<1>4. QED BY <1>1, <1>2, <1>3, FramesInvariant, PTL DEF Spec
=============================================================================
