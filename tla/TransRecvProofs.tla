-------------------------- MODULE TransRecvProofs ---------------------------
(***************************************************************************)
(* Proofs about TransRecv, for any ports, frames, buffer sizes and faults. *)
(***************************************************************************)
EXTENDS TransRecv, SequenceTheorems, TLAPS

-----------------------------------------------------------------------------
(***************************************************************************)
(* The order of a byte stream.  f is what the FIFO of a port holds, l what *)
(* is left on its line, c the frame its peer is sending, m its last frame. *)
(* Bytes of number 0 are of no data frame.                                 *)
(***************************************************************************)
Numbered(s, c, m) ==
  \A i \in 1 .. Len(s) : s[i].frame \in 0 .. m /\ s[i].frame <= c

Ascending(s) ==
  \A i, j \in 1 .. Len(s) : i < j /\ s[j].frame # 0 => s[i].frame <= s[j].frame

Before(f, l) ==
  \A i \in 1 .. Len(f), j \in 1 .. Len(l) :
    l[j].frame # 0 => f[i].frame <= l[j].frame

NotBelow(s, n) == \A i \in 1 .. Len(s) : s[i].frame # 0 => n <= s[i].frame

Stream(f, l, c, m) ==
  /\ Numbered(f, c, m) /\ Numbered(l, c, m)
  /\ Ascending(f) /\ Ascending(l) /\ Before(f, l)

\* No byte of the stream is of a frame older than n.
NotOlder(f, l, c, n) == NotBelow(f, n) /\ NotBelow(l, n) /\ n <= c

\* A frame is put on an empty line by a peer that has reached it.
LEMMA StreamSend ==
  ASSUME NEW S, NEW f \in Seq(S), NEW l \in Seq(S), NEW c \in Nat, NEW m \in Nat,
         NEW n \in 0 .. m, n = 0 \/ n = c,
         \A i \in 1 .. Len(l) : l[i].frame \in {0, n},
         Stream(f, <<>>, c, m)
  PROVE  /\ Stream(f, l, c, m)
         /\ \A k \in Nat : NotOlder(f, <<>>, c, k) => NotOlder(f, l, c, k)
<1>1. Len(l) \in Nat /\ Len(f) \in Nat
  BY LenProperties
<1>2. Numbered(f, c, m) /\ Ascending(f)
  BY DEF Stream
<1>3. Numbered(l, c, m) /\ Ascending(l) /\ Before(f, l)
  BY <1>1, <1>2 DEF Numbered, Ascending, Before
<1>4. ASSUME NEW k \in Nat, NotOlder(f, <<>>, c, k)
      PROVE  NotOlder(f, l, c, k)
  BY <1>1, <1>4 DEF NotOlder, NotBelow
<1>. QED  BY <1>2, <1>3, <1>4 DEF Stream

\* A byte leaves the line; it, another one, or none reaches the FIFO.
LEMMA StreamArrive ==
  ASSUME NEW S, NEW f \in Seq(S), NEW l \in Seq(S), NEW c \in Nat, NEW m \in Nat,
         NEW g \in Seq(S), l # <<>>, NEW b \in S,
         g = f \/ g = Append(f, b),
         b = Head(l) \/ b.frame = 0,
         Stream(f, l, c, m)
  PROVE  /\ Stream(g, Tail(l), c, m)
         /\ \A k \in Nat : NotOlder(f, l, c, k) => NotOlder(g, Tail(l), c, k)
<1> DEFINE t == Tail(l)
<1>1. /\ Len(l) \in Nat \ {0} /\ Len(f) \in Nat
      /\ t \in Seq(S) /\ Len(t) = Len(l) - 1
      /\ \A i \in 1 .. Len(t) : t[i] = l[i + 1]
      /\ Head(l) = l[1]
  BY LenProperties, HeadTailProperties
<1> HIDE DEF t
<1>2. /\ Len(g) = Len(f) \/ Len(g) = Len(f) + 1
      /\ \A i \in 1 .. Len(f) : g[i] = f[i]
      /\ Len(g) = Len(f) + 1 => g[Len(f) + 1] = b
  <2>1. CASE g = f
    BY <1>1, <2>1
  <2>2. CASE g = Append(f, b)
    BY <1>1, <2>2, AppendProperties
  <2>. QED  BY <2>1, <2>2
<1>3. /\ Numbered(f, c, m) /\ Numbered(l, c, m)
      /\ Ascending(f) /\ Ascending(l) /\ Before(f, l)
  BY DEF Stream
<1>4. b.frame \in 0 .. m /\ b.frame <= c
  BY <1>1, <1>3 DEF Numbered
<1>5. Numbered(t, c, m) /\ Ascending(t)
  <2>1. \A i \in 1 .. Len(t) : i + 1 \in 1 .. Len(l) /\ t[i] = l[i + 1]
    BY <1>1
  <2>2. \A i, j \in 1 .. Len(t) : i < j => i + 1 < j + 1
    BY <1>1
  <2>3. Numbered(t, c, m)
    BY <1>3, <2>1 DEF Numbered
  <2>4. Ascending(t)
    BY <1>3, <2>1, <2>2 DEF Ascending
  <2>. QED  BY <2>3, <2>4
<1>6. ASSUME NEW i \in 1 .. Len(g)
      PROVE  i \in 1 .. Len(f) \/ (i = Len(f) + 1 /\ g[i] = b)
  BY <1>1, <1>2
<1>7. Numbered(g, c, m)
  BY <1>1, <1>2, <1>3, <1>4, <1>6 DEF Numbered
<1>8. Ascending(g)
  <2> SUFFICES ASSUME NEW i \in 1 .. Len(g), NEW j \in 1 .. Len(g), i < j,
                      g[j].frame # 0
               PROVE  g[i].frame <= g[j].frame
    BY DEF Ascending
  <2>1. i \in 1 .. Len(f) /\ g[i] = f[i]
    BY <1>1, <1>2
  <2>2. CASE j \in 1 .. Len(f)
    BY <1>2, <1>3, <2>1, <2>2 DEF Ascending
  <2>3. CASE j = Len(f) + 1 /\ g[j] = b
    BY <1>1, <1>3, <2>1, <2>3 DEF Before
  <2>. QED  BY <1>6, <2>2, <2>3
<1>9. Before(g, t)
  <2> SUFFICES ASSUME NEW i \in 1 .. Len(g), NEW j \in 1 .. Len(t),
                      t[j].frame # 0
               PROVE  g[i].frame <= t[j].frame
    BY DEF Before
  <2>1. t[j] = l[j + 1] /\ j + 1 \in 1 .. Len(l) /\ 1 < j + 1 /\ 1 \in 1 .. Len(l)
    BY <1>1
  <2>2. CASE i \in 1 .. Len(f)
    BY <1>2, <1>3, <2>1, <2>2 DEF Before
  <2>3. CASE g[i] = b
    BY <1>1, <1>3, <2>1, <2>3 DEF Ascending, Numbered
  <2>. QED  BY <1>6, <2>2, <2>3
<1>10. ASSUME NEW k \in Nat, NotOlder(f, l, c, k)
       PROVE  NotOlder(g, t, c, k)
  <2>1. NotBelow(f, k) /\ NotBelow(l, k) /\ k <= c
    BY <1>10 DEF NotOlder
  <2>2. NotBelow(t, k)
    <3>1. \A i \in 1 .. Len(t) : i + 1 \in 1 .. Len(l) /\ t[i] = l[i + 1]
      BY <1>1
    <3>. QED  BY <2>1, <3>1 DEF NotBelow
  <2>3. b.frame # 0 => k <= b.frame
    BY <1>1, <2>1 DEF NotBelow
  <2>4. NotBelow(g, k)
    <3> SUFFICES ASSUME NEW i \in 1 .. Len(g), g[i].frame # 0
                 PROVE  k <= g[i].frame
      BY DEF NotBelow
    <3>1. CASE i \in 1 .. Len(f)
      BY <1>2, <2>1, <3>1 DEF NotBelow
    <3>2. CASE g[i] = b
      BY <2>3, <3>2
    <3>. QED  BY <1>6, <3>1, <3>2
  <2>. QED  BY <2>1, <2>2, <2>4 DEF NotOlder
<1>. QED  BY <1>3, <1>5, <1>7, <1>8, <1>9, <1>10 DEF Stream, t

\* Bytes taken from the front leave nothing older than any of them behind.
LEMMA StreamConsume ==
  ASSUME NEW S, NEW f \in Seq(S), NEW l \in Seq(S), NEW c \in Nat, NEW m \in Nat,
         NEW n \in 0 .. Len(f), Stream(f, l, c, m)
  PROVE  LET g == SubSeq(f, n + 1, Len(f))
         IN  /\ g \in Seq(S) /\ Len(g) = Len(f) - n
             /\ Stream(g, l, c, m)
             /\ \A k \in Nat : NotOlder(f, l, c, k) => NotOlder(g, l, c, k)
             /\ \A i \in 1 .. n : NotOlder(g, l, c, f[i].frame)
<1> DEFINE g == SubSeq(f, n + 1, Len(f))
<1>1. Len(f) \in Nat /\ Len(l) \in Nat
  BY LenProperties
<1>2. /\ g \in Seq(S) /\ Len(g) = Len(f) - n
      /\ \A i \in 1 .. Len(f) - n : g[i] = f[n + i]
  <2>1. n + 1 \in 1 .. Len(f) + 1 /\ Len(f) \in n .. Len(f)
    BY <1>1
  <2>2. /\ g \in Seq(S)
        /\ Len(g) = IF n + 1 <= Len(f) THEN Len(f) - (n + 1) + 1 ELSE 0
        /\ \A i \in 1 .. Len(f) - (n + 1) + 1 : g[i] = f[n + 1 + i - 1]
    BY <1>1, <2>1, SubSeqProperties
  <2>3. \A i \in 1 .. Len(f) - n : i \in 1 .. Len(f) - (n + 1) + 1 /\ n + 1 + i - 1 = n + i
    BY <1>1
  <2>. QED  BY <1>1, <2>2, <2>3
<1> HIDE DEF g
<1>3. /\ Numbered(f, c, m) /\ Numbered(l, c, m)
      /\ Ascending(f) /\ Ascending(l) /\ Before(f, l)
  BY DEF Stream
<1>4. \A i \in 1 .. Len(g) : n + i \in 1 .. Len(f) /\ g[i] = f[n + i]
  BY <1>1, <1>2
<1>5. Numbered(g, c, m) /\ Before(g, l)
  BY <1>3, <1>4 DEF Numbered, Before
<1>6. Ascending(g)
  <2> SUFFICES ASSUME NEW i \in 1 .. Len(g), NEW j \in 1 .. Len(g), i < j,
                      g[j].frame # 0
               PROVE  g[i].frame <= g[j].frame
    BY DEF Ascending
  <2>1. n + i < n + j
    BY <1>1, <1>2
  <2>. QED  BY <1>3, <1>4, <2>1 DEF Ascending
<1>7. ASSUME NEW k \in Nat, NotOlder(f, l, c, k)
      PROVE  NotOlder(g, l, c, k)
  BY <1>4, <1>7 DEF NotOlder, NotBelow
<1>8. ASSUME NEW i \in 1 .. n
      PROVE  NotOlder(g, l, c, f[i].frame)
  <2>1. i \in 1 .. Len(f)
    BY <1>1
  <2>2. NotBelow(g, f[i].frame)
    <3> SUFFICES ASSUME NEW j \in 1 .. Len(g), g[j].frame # 0
                 PROVE  f[i].frame <= g[j].frame
      BY DEF NotBelow
    <3>1. g[j] = f[n + j] /\ n + j \in 1 .. Len(f)
      BY <1>4
    <3>2. i < n + j
      BY <1>1
    <3>. QED  BY <1>3, <2>1, <3>1, <3>2 DEF Ascending
  <2>3. NotBelow(l, f[i].frame) /\ f[i].frame <= c
    BY <1>3, <2>1 DEF Before, NotBelow, Numbered
  <2>. QED  BY <2>2, <2>3 DEF NotOlder
<1>. QED  BY <1>2, <1>3, <1>5, <1>6, <1>7, <1>8 DEF Stream, g

\* An empty FIFO has any order.
LEMMA StreamClear ==
  ASSUME NEW S, NEW f \in Seq(S), NEW l \in Seq(S), NEW c \in Nat, NEW m \in Nat,
         Stream(f, l, c, m)
  PROVE  /\ Stream(<<>>, l, c, m)
         /\ \A k \in Nat : NotOlder(f, l, c, k) => NotOlder(<<>>, l, c, k)
BY DEF Stream, Numbered, Ascending, Before, NotOlder, NotBelow

\* The peer goes on to its next frame.
LEMMA StreamAdvance ==
  ASSUME NEW S, NEW f \in Seq(S), NEW l \in Seq(S), NEW c \in Nat, NEW m \in Nat,
         Stream(f, l, c, m)
  PROVE  /\ Stream(f, l, c + 1, m)
         /\ \A k \in Nat : NotOlder(f, l, c, k) => NotOlder(f, l, c + 1, k)
BY DEF Stream, Numbered, NotOlder
-----------------------------------------------------------------------------
(***************************************************************************)
(* Types.                                                                  *)
(***************************************************************************)

\* The peer's variables and the histories are functions of the port.
Shapes ==
  /\ current \in [Port -> Nat] /\ last \in [Port -> Nat]
  /\ cmds \in [Port -> Nat]
  /\ acked \in [Port -> SUBSET Nat] /\ delivered \in [Port -> SUBSET Nat]

\* The frames of a port have data of the lengths allowed.
LEMMA FrameTypes ==
  ASSUME NEW p \in Port, NEW n \in 0 .. LastFrame[p]
  PROVE  /\ LastFrame[p] \in Nat /\ n \in {0} \cup DOMAIN DataLen
         /\ n # 0 => n \in Frame(p) /\ Len0(n) \in 1 .. MaxDLen
         /\ Len0(n) \in 0 .. MaxDLen
         /\ n = 0 => Len0(n) = 0
<1>1. LastFrame[p] \in Nat /\ 1 .. LastFrame[p] \subseteq DOMAIN DataLen /\ MaxDLen \in Nat
  BY RecvConstants
<1>2. n # 0 => n \in 1 .. LastFrame[p]
  BY <1>1
<1>3. n # 0 => Len0(n) \in 1 .. MaxDLen
  BY <1>1, <1>2, RecvConstants DEF Len0
<1>4. n = 0 => Len0(n) = 0
  BY DEF Len0
<1>. QED  BY <1>1, <1>2, <1>3, <1>4 DEF Frame

\* The bytes of a frame.
LEMMA BytesTypes ==
  ASSUME NEW p \in Port, NEW n \in 0 .. LastFrame[p]
  PROVE  /\ Bytes(n) \in Seq(AnyByte)
         /\ \A i \in 1 .. Len(Bytes(n)) : Bytes(n)[i].frame \in {0, n}
<1>1. /\ n \in {0} \cup DOMAIN DataLen
      /\ Len0(n) \in Nat /\ Hdr \in Nat
  BY FrameTypes, RecvConstants
<1> DEFINE k == Hdr + Len0(n)
<1>2. k \in Nat
  BY <1>1
<1>3. ASSUME NEW i \in 1 .. k, i # 1
      PROVE  Byte(n, i) \in AnyByte
  <2>1. i \in 2 .. Hdr + Len0(n)
    BY <1>1, <1>3
  <2>. QED  BY <1>1, <2>1 DEF AnyByte
<1>4. \A i \in 1 .. k : (IF i = 1 THEN Preamble ELSE Byte(n, i)) \in AnyByte
  BY <1>3 DEF AnyByte
<1>5. Bytes(n) = [i \in 1 .. k |-> IF i = 1 THEN Preamble ELSE Byte(n, i)]
  BY DEF Bytes
<1> HIDE DEF k
<1>6. Bytes(n) \in Seq(AnyByte) /\ Len(Bytes(n)) = k
  <2>1. Bytes(n) \in Seq(AnyByte)
    BY <1>2, <1>4, <1>5, IsASeq
  <2>. QED  BY <1>2, <1>5, <2>1
<1>7. \A i \in 1 .. k : Bytes(n)[i].frame \in {0, n}
  BY <1>5 DEF Preamble, Byte
<1>. QED  BY <1>6, <1>7

\* Junk is a byte, and so is all that has never been received.
LEMMA JunkTypes ==
  /\ Junk \in AnyByte /\ Junk.frame = 0 /\ Preamble.frame = 0
  /\ [i \in 1 .. MaxDLen |-> Junk] \in [1 .. MaxDLen -> AnyByte]
BY DEF Junk, Preamble, AnyByte

\* A sequence number is of its type.
LEMMA SeqTypes ==
  /\ SeqMod - 1 \in 0 .. SeqMod - 1
  /\ \A n \in Nat : Seq0(n) \in 0 .. SeqMod - 1
BY RecvConstants DEF Seq0

-----------------------------------------------------------------------------
(***************************************************************************)
(* The inductive invariant of DeliveredInOrder: the bytes of a port are in *)
(* the order in which its peer sends the frames, none of them is older     *)
(* than the header in hand or than the frame delivered last, and layer 3   *)
(* remembers that frame's number.                                          *)
(***************************************************************************)
OrderAt(p) ==
  /\ Stream(fifo[p], line[p], current[p], LastFrame[p])
  /\ NotOlder(fifo[p], line[p], current[p], last[p])
  /\ hdr[p] \in 0 .. LastFrame[p]
  /\ NotOlder(fifo[p], line[p], current[p], hdr[p])
  /\ hdr[p] # 0 => last[p] <= hdr[p]
  /\ seqRemote[p] = IF last[p] = 0 THEN SeqMod - 1 ELSE Seq0(last[p])

Order == \A p \in Port : OrderAt(p)

RecvInv == TypeOK /\ Shapes /\ Order

\* A step at one port leaves the order of the others alone.
LEMMA OrderOthers ==
  ASSUME Order, NEW p \in Port, OrderAt(p)',
         \A q \in Port \ {p} :
           /\ fifo'[q] = fifo[q] /\ line'[q] = line[q] /\ hdr'[q] = hdr[q]
           /\ current'[q] = current[q] /\ last'[q] = last[q]
           /\ seqRemote'[q] = seqRemote[q]
  PROVE  Order'
<1> SUFFICES ASSUME NEW q \in Port, q # p
             PROVE  OrderAt(q)'
  BY DEF Order
<1>. QED  BY DEF Order, OrderAt

\* A step that moves none of the variables the order is about keeps it.
LEMMA OrderKept ==
  ASSUME Order,
         UNCHANGED <<fifo, line, hdr, current, last, seqRemote>>
  PROVE  Order'
BY DEF Order, OrderAt

\* What the invariant says of a port, for the steps below.
LEMMA PortFacts ==
  ASSUME RecvInv, NEW p \in Port
  PROVE  /\ fifo[p] \in Seq(AnyByte) /\ line[p] \in Seq(AnyByte)
         /\ Len(fifo[p]) \in Nat /\ Len(fifo[p]) <= FifoSize
         /\ current[p] \in Nat /\ current[p] \in 1 .. LastFrame[p] + 1
         /\ last[p] \in Nat /\ hdr[p] \in Nat /\ LastFrame[p] \in Nat
         /\ OrderAt(p)
<1>1. /\ fifo[p] \in Seq(AnyByte) /\ line[p] \in Seq(AnyByte)
      /\ Len(fifo[p]) <= FifoSize /\ current[p] \in 1 .. LastFrame[p] + 1
  BY DEF RecvInv, TypeOK
<1>2. current[p] \in Nat /\ last[p] \in Nat /\ OrderAt(p)
  BY DEF RecvInv, Shapes, Order
<1>3. LastFrame[p] \in Nat
  BY RecvConstants
<1>4. hdr[p] \in Nat
  BY <1>2, <1>3 DEF OrderAt
<1>. QED  BY <1>1, <1>2, <1>3, <1>4, LenProperties

\* The peer's and the line's steps.
LEMMA InvPeerSend ==
  ASSUME RecvInv, NEW p \in Port, PeerSend(p)
  PROVE  RecvInv'
<1>0. /\ line[p] = <<>> /\ current[p] \in Frame(p)
      /\ line' = [line EXCEPT ![p] = Bytes(current[p])]
      /\ tries' \in [Port -> 0 .. MaxTries]
      /\ UNCHANGED <<fifo, recvCount, hdr, data, pc, dlen, seqRemote, answers, current,
                     cmds, acked, delivered, last, again, faults, booted>>
  <2>1. tries \in [Port -> 0 .. MaxTries] /\ MaxTries \in Nat
    BY RecvConstants DEF RecvInv, TypeOK
  <2>2. tries' \in [Port -> 0 .. MaxTries]
    BY <2>1 DEF PeerSend
  <2>. QED  BY <2>2 DEF PeerSend, receiver, app
<1>1. current[p] \in 0 .. LastFrame[p]
  BY <1>0, PortFacts DEF Frame
<1>2. Bytes(current[p]) \in Seq(AnyByte)
  BY <1>1, BytesTypes
<1>3. TypeOK' /\ Shapes'
  BY <1>0, <1>2 DEF RecvInv, TypeOK, Shapes
<1>4. line'[p] = Bytes(current[p])
  BY <1>0 DEF RecvInv, TypeOK
<1>5. OrderAt(p)'
  <2>1. /\ Stream(fifo[p], Bytes(current[p]), current[p], LastFrame[p])
        /\ \A k \in Nat : NotOlder(fifo[p], <<>>, current[p], k) =>
                            NotOlder(fifo[p], Bytes(current[p]), current[p], k)
    <3>1. \A i \in 1 .. Len(Bytes(current[p])) :
            Bytes(current[p])[i].frame \in {0, current[p]}
      BY <1>1, BytesTypes
    <3>2. Stream(fifo[p], <<>>, current[p], LastFrame[p])
      BY <1>0, PortFacts DEF OrderAt
    <3>. QED  BY <1>1, <1>2, <3>1, <3>2, PortFacts, StreamSend
  <2>. QED  BY <1>0, <1>4, <2>1, PortFacts DEF OrderAt
<1>6. Order'
  BY <1>0, <1>5, OrderOthers DEF RecvInv, TypeOK
<1>. QED  BY <1>3, <1>6 DEF RecvInv

\* A command frame has no number and upsets no order.
LEMMA InvPeerSendCmd ==
  ASSUME RecvInv, NEW p \in Port, PeerSendCmd(p)
  PROVE  RecvInv'
<1>0. /\ line[p] = <<>> /\ cmds[p] < MaxCmds[p]
      /\ line' = [line EXCEPT ![p] = Bytes(0)]
      /\ cmds' = [cmds EXCEPT ![p] = @ + 1]
      /\ UNCHANGED <<fifo, recvCount, hdr, data, pc, dlen, seqRemote, answers, current,
                     tries, acked, delivered, last, again, faults, booted>>
  BY DEF PeerSendCmd, receiver, app
<1>1. 0 \in 0 .. LastFrame[p]
  BY PortFacts
<1>2. Bytes(0) \in Seq(AnyByte)
  BY <1>1, BytesTypes
<1>3. /\ cmds' \in [Port -> Nat]
      /\ \A q \in Port : cmds'[q] \in 0 .. MaxCmds[q]
  <2>1. cmds \in [Port -> Nat] /\ \A q \in Port : cmds[q] \in 0 .. MaxCmds[q]
    BY DEF RecvInv, TypeOK, Shapes
  <2>2. MaxCmds \in [Port -> Nat]
    BY RecvConstants
  <2>. QED  BY <1>0, <2>1, <2>2
<1>4. TypeOK' /\ Shapes'
  BY <1>0, <1>2, <1>3 DEF RecvInv, TypeOK, Shapes
<1>5. line'[p] = Bytes(0)
  BY <1>0 DEF RecvInv, TypeOK
<1>6. OrderAt(p)'
  <2>1. /\ Stream(fifo[p], Bytes(0), current[p], LastFrame[p])
        /\ \A k \in Nat : NotOlder(fifo[p], <<>>, current[p], k) =>
                            NotOlder(fifo[p], Bytes(0), current[p], k)
    <3>1. \A i \in 1 .. Len(Bytes(0)) : Bytes(0)[i].frame \in {0, 0}
      BY <1>1, BytesTypes
    <3>2. Stream(fifo[p], <<>>, current[p], LastFrame[p])
      BY <1>0, PortFacts DEF OrderAt
    <3>. QED  BY <1>1, <1>2, <3>1, <3>2, PortFacts, StreamSend
  <2>. QED  BY <1>0, <1>5, <2>1, PortFacts DEF OrderAt
<1>7. Order'
  BY <1>0, <1>6, OrderOthers DEF RecvInv, TypeOK
<1>. QED  BY <1>4, <1>7 DEF RecvInv

\* The peer's frame number stays within one of its last frame.
LEMMA AdvanceTypes ==
  ASSUME RecvInv, NEW p \in Port, current[p] \in Frame(p),
         current' = [current EXCEPT ![p] = @ + 1]
  PROVE  /\ current' \in [Port -> Nat] /\ current'[p] = current[p] + 1
         /\ \A q \in Port \ {p} : current'[q] = current[q]
         /\ \A q \in Port : current'[q] \in 1 .. LastFrame[q] + 1
<1>1. current \in [Port -> Nat] /\ \A q \in Port : current[q] \in 1 .. LastFrame[q] + 1
  BY DEF RecvInv, TypeOK, Shapes
<1>2. LastFrame[p] \in Nat
  BY RecvConstants
<1>3. current[p] + 1 \in Nat /\ current[p] + 1 \in 1 .. LastFrame[p] + 1
  BY <1>1, <1>2 DEF Frame
<1>4. /\ current' \in [Port -> Nat] /\ current'[p] = current[p] + 1
      /\ \A q \in Port \ {p} : current'[q] = current[q]
  BY <1>1, <1>3
<1>. QED  BY <1>1, <1>3, <1>4

\* A peer that gives up goes on to the next frame.
LEMMA InvPeerGiveUp ==
  ASSUME RecvInv, NEW p \in Port, PeerGiveUp(p)
  PROVE  RecvInv'
<1>0. /\ current[p] \in Frame(p)
      /\ current' = [current EXCEPT ![p] = @ + 1]
      /\ tries' = [tries EXCEPT ![p] = 0]
      /\ UNCHANGED <<line, fifo, recvCount, hdr, data, pc, dlen, seqRemote, answers,
                     cmds, acked, delivered, last, again, faults, booted>>
  BY DEF PeerGiveUp, receiver, app
<1>1. tries' \in [Port -> 0 .. MaxTries]
  BY <1>0, RecvConstants DEF RecvInv, TypeOK
<1>2. /\ current' \in [Port -> Nat] /\ current'[p] = current[p] + 1
      /\ \A q \in Port : current'[q] \in 1 .. LastFrame[q] + 1
  BY <1>0, AdvanceTypes
<1>3. TypeOK' /\ Shapes'
  BY <1>0, <1>1, <1>2 DEF RecvInv, TypeOK, Shapes
<1>4. OrderAt(p)'
  <2>1. /\ Stream(fifo[p], line[p], current[p] + 1, LastFrame[p])
        /\ \A k \in Nat : NotOlder(fifo[p], line[p], current[p], k) =>
                            NotOlder(fifo[p], line[p], current[p] + 1, k)
    BY PortFacts, StreamAdvance DEF OrderAt
  <2>. QED  BY <1>0, <1>2, <2>1, PortFacts DEF OrderAt
<1>5. Order'
  BY <1>0, <1>4, OrderOthers DEF RecvInv, Shapes
<1>. QED  BY <1>3, <1>5 DEF RecvInv

\* An ACK leaves its line, in which the others keep their order.
LEMMA AnswerTaken ==
  ASSUME RecvInv, NEW p \in Port, answers[p] # <<>>,
         answers' = [answers EXCEPT ![p] = Tail(@)]
  PROVE  /\ answers' \in [Port -> Seq(0 .. SeqMod - 1)]
         /\ Head(answers[p]) = answers[p][1] /\ Len(answers[p]) \in Nat \ {0}
         /\ Len(answers'[p]) = Len(answers[p]) - 1
         /\ \A i \in 1 .. Len(answers'[p]) : answers'[p][i] = answers[p][i + 1]
         /\ \A q \in Port \ {p} : answers'[q] = answers[q]
<1>1. answers \in [Port -> Seq(0 .. SeqMod - 1)]
  BY DEF RecvInv, TypeOK
<1>2. /\ Tail(answers[p]) \in Seq(0 .. SeqMod - 1)
      /\ Len(Tail(answers[p])) = Len(answers[p]) - 1
      /\ \A i \in 1 .. Len(Tail(answers[p])) : Tail(answers[p])[i] = answers[p][i + 1]
  BY <1>1, HeadTailProperties
<1>3. Len(answers[p]) \in Nat \ {0} /\ Head(answers[p]) = answers[p][1]
  BY <1>1, EmptySeq
<1>4. answers'[p] = Tail(answers[p]) /\ \A q \in Port \ {p} : answers'[q] = answers[q]
  BY <1>1
<1>5. answers' \in [Port -> Seq(0 .. SeqMod - 1)]
  BY <1>1, <1>2
<1>. QED  BY <1>2, <1>3, <1>4, <1>5

\* An ACK is sent behind the others.
LEMMA AnswerSent ==
  ASSUME RecvInv, NEW p \in Port, NEW s \in 0 .. SeqMod - 1,
         answers' = [answers EXCEPT ![p] = Append(@, s)]
  PROVE  /\ answers' \in [Port -> Seq(0 .. SeqMod - 1)]
         /\ Len(answers[p]) \in Nat /\ Len(answers'[p]) = Len(answers[p]) + 1
         /\ \A i \in 1 .. Len(answers[p]) : answers'[p][i] = answers[p][i]
         /\ answers'[p][Len(answers[p]) + 1] = s
         /\ \A q \in Port \ {p} : answers'[q] = answers[q]
<1>1. answers \in [Port -> Seq(0 .. SeqMod - 1)]
  BY DEF RecvInv, TypeOK
<1>2. Len(answers[p]) \in Nat
  BY <1>1, LenProperties
<1>3. /\ Append(answers[p], s) \in Seq(0 .. SeqMod - 1)
      /\ Len(Append(answers[p], s)) = Len(answers[p]) + 1
      /\ \A i \in 1 .. Len(answers[p]) : Append(answers[p], s)[i] = answers[p][i]
      /\ Append(answers[p], s)[Len(answers[p]) + 1] = s
  BY <1>1, AppendProperties
<1>4. /\ answers'[p] = Append(answers[p], s)
      /\ \A q \in Port \ {p} : answers'[q] = answers[q]
  BY <1>1
<1>5. answers' \in [Port -> Seq(0 .. SeqMod - 1)]
  BY <1>1, <1>3
<1>. QED  BY <1>2, <1>3, <1>4, <1>5

\* An ACK that reaches the peer lets it go on to the next frame.
LEMMA InvPeerAck ==
  ASSUME RecvInv, NEW p \in Port, PeerAck(p)
  PROVE  RecvInv'
<1> DEFINE s == Head(answers[p])
<1>0. /\ answers[p] # <<>> /\ answers' = [answers EXCEPT ![p] = Tail(@)]
      /\ UNCHANGED <<line, fifo, recvCount, hdr, data, pc, dlen, seqRemote,
                     cmds, delivered, last, again, faults, booted>>
  BY DEF PeerAck, receiver, app
<1>1. answers' \in [Port -> Seq(0 .. SeqMod - 1)]
  BY <1>0, AnswerTaken
<1>2. CASE current[p] \in Frame(p) /\ Seq0(current[p]) = s
  <2>0. /\ acked' = [acked EXCEPT ![p] = @ \cup {current[p]}]
        /\ current' = [current EXCEPT ![p] = @ + 1]
        /\ tries' = [tries EXCEPT ![p] = 0]
    BY <1>2 DEF PeerAck
  <2>1. tries' \in [Port -> 0 .. MaxTries]
    BY <2>0, RecvConstants DEF RecvInv, TypeOK
  <2>2. /\ current' \in [Port -> Nat] /\ current'[p] = current[p] + 1
        /\ \A q \in Port : current'[q] \in 1 .. LastFrame[q] + 1
    BY <1>2, <2>0, AdvanceTypes
  <2>3. acked' \in [Port -> SUBSET Nat] /\ \A q \in Port : acked'[q] \subseteq Frame(q)
    BY <1>2, <2>0, PortFacts DEF RecvInv, TypeOK, Shapes
  <2>4. TypeOK' /\ Shapes'
    BY <1>0, <1>1, <2>1, <2>2, <2>3 DEF RecvInv, TypeOK, Shapes
  <2>5. OrderAt(p)'
    <3>1. /\ Stream(fifo[p], line[p], current[p] + 1, LastFrame[p])
          /\ \A k \in Nat : NotOlder(fifo[p], line[p], current[p], k) =>
                              NotOlder(fifo[p], line[p], current[p] + 1, k)
      BY PortFacts, StreamAdvance DEF OrderAt
    <3>. QED  BY <1>0, <2>2, <3>1, PortFacts DEF OrderAt
  <2>6. Order'
    BY <1>0, <2>0, <2>5, OrderOthers DEF RecvInv, Shapes
  <2>. QED  BY <2>4, <2>6 DEF RecvInv
<1>3. CASE ~(current[p] \in Frame(p) /\ Seq0(current[p]) = s)
  <2>0. UNCHANGED <<acked, current, tries>>
    BY <1>3 DEF PeerAck
  <2>1. TypeOK' /\ Shapes'
    BY <1>0, <1>1, <2>0 DEF RecvInv, TypeOK, Shapes
  <2>2. Order'
    BY <1>0, <2>0, OrderKept DEF RecvInv
  <2>. QED  BY <2>1, <2>2 DEF RecvInv
<1>. QED  BY <1>2, <1>3

\* A lost ACK changes nothing the receiver has.
LEMMA InvLoseAck ==
  ASSUME RecvInv, NEW p \in Port, LoseAck(p)
  PROVE  RecvInv'
<1>0. /\ answers[p] # <<>> /\ answers' = [answers EXCEPT ![p] = Tail(@)]
      /\ faults < MaxFaults /\ faults' = faults + 1
      /\ UNCHANGED <<line, fifo, recvCount, hdr, data, pc, dlen, seqRemote, current,
                     tries, acked, cmds, delivered, last, again, booted>>
  BY DEF LoseAck, receiver, app, peer
<1>1. answers' \in [Port -> Seq(0 .. SeqMod - 1)] /\ faults' \in 0 .. MaxFaults
  BY <1>0, AnswerTaken, RecvConstants DEF RecvInv, TypeOK
<1>2. TypeOK' /\ Shapes'
  BY <1>0, <1>1 DEF RecvInv, TypeOK, Shapes
<1>. QED  BY <1>0, <1>2, OrderKept DEF RecvInv

\* What the receive interrupt does to a FIFO.
LEMMA PutTypes ==
  ASSUME RecvInv, NEW p \in Port, NEW b \in AnyByte, Put(p, b)
  PROVE  /\ fifo' \in [Port -> Seq(AnyByte)]
         /\ \A q \in Port : Len(fifo'[q]) <= FifoSize
         /\ fifo'[p] = fifo[p] \/ fifo'[p] = Append(fifo[p], b)
         /\ \A q \in Port \ {p} : fifo'[q] = fifo[q]
<1>1. /\ fifo \in [Port -> Seq(AnyByte)]
      /\ \A q \in Port : Len(fifo[q]) <= FifoSize
      /\ FifoSize \in Nat
  BY RecvConstants DEF RecvInv, TypeOK
<1>2. CASE fifo' = fifo
  BY <1>1, <1>2
<1>3. CASE Len(fifo[p]) < FifoSize /\ fifo' = [fifo EXCEPT ![p] = Append(@, b)]
  <2>1. Append(fifo[p], b) \in Seq(AnyByte)
    BY <1>1, AppendProperties
  <2>2. Len(Append(fifo[p], b)) <= FifoSize
    BY <1>1, <1>3, AppendProperties, LenProperties
  <2>. QED  BY <1>1, <1>3, <2>1, <2>2
<1>. QED  BY <1>2, <1>3 DEF Put

\* A byte has left the line, and it, noise or nothing has reached the FIFO.
LEMMA InvByte ==
  ASSUME RecvInv, NEW p \in Port, line[p] # <<>>,
         line' = [line EXCEPT ![p] = Tail(@)],
         NEW b \in AnyByte, b = Head(line[p]) \/ b.frame = 0,
         Put(p, b) \/ fifo' = fifo,
         faults' \in 0 .. MaxFaults,
         UNCHANGED <<recvCount, hdr, data, pc, dlen, seqRemote, answers, current,
                     tries, acked, cmds, delivered, last, again, booted>>
  PROVE  RecvInv'
<1>1. /\ fifo' \in [Port -> Seq(AnyByte)]
      /\ \A q \in Port : Len(fifo'[q]) <= FifoSize
      /\ fifo'[p] = fifo[p] \/ fifo'[p] = Append(fifo[p], b)
      /\ \A q \in Port \ {p} : fifo'[q] = fifo[q]
  <2>1. CASE Put(p, b)
    BY <2>1, PutTypes
  <2>2. CASE fifo' = fifo
    BY <2>2 DEF RecvInv, TypeOK
  <2>. QED  BY <2>1, <2>2
<1>2. /\ Tail(line[p]) \in Seq(AnyByte) /\ line'[p] = Tail(line[p])
      /\ line' \in [Port -> Seq(AnyByte)]
      /\ \A q \in Port \ {p} : line'[q] = line[q]
  BY PortFacts, HeadTailProperties DEF RecvInv, TypeOK
<1>3. TypeOK' /\ Shapes'
  BY <1>1, <1>2 DEF RecvInv, TypeOK, Shapes
<1>4. OrderAt(p)'
  <2>1. fifo'[p] \in Seq(AnyByte)
    BY <1>1
  <2>2. /\ Stream(fifo'[p], Tail(line[p]), current[p], LastFrame[p])
        /\ \A k \in Nat : NotOlder(fifo[p], line[p], current[p], k) =>
                            NotOlder(fifo'[p], Tail(line[p]), current[p], k)
    BY <1>1, <2>1, PortFacts, StreamArrive DEF OrderAt
  <2>. QED  BY <1>2, <2>2, PortFacts DEF OrderAt
<1>5. Order'
  BY <1>1, <1>2, <1>4, OrderOthers DEF RecvInv
<1>. QED  BY <1>3, <1>5 DEF RecvInv

\* A byte goes from the line to the FIFO, or is dropped by a full one.
LEMMA InvArrive ==
  ASSUME RecvInv, NEW p \in Port, Arrive(p)
  PROVE  RecvInv'
<1>1. Head(line[p]) \in AnyByte
  BY PortFacts, HeadTailProperties DEF Arrive
<1>2. /\ line[p] # <<>> /\ line' = [line EXCEPT ![p] = Tail(@)]
      /\ Put(p, Head(line[p]))
      /\ UNCHANGED <<recvCount, hdr, data, pc, dlen, seqRemote, answers, current,
                     tries, acked, cmds, delivered, last, again, faults, booted>>
  BY DEF Arrive, receiver, peer, app
<1>3. faults' \in 0 .. MaxFaults
  BY <1>2 DEF RecvInv, TypeOK
<1>. QED  BY <1>1, <1>2, <1>3, InvByte

\* A byte that is lost or changed leaves the others in their order.
LEMMA InvGarble ==
  ASSUME RecvInv, NEW p \in Port, Garble(p)
  PROVE  RecvInv'
<1>1. /\ line[p] # <<>> /\ line' = [line EXCEPT ![p] = Tail(@)]
      /\ Put(p, Junk) \/ fifo' = fifo
      /\ faults < MaxFaults /\ faults' = faults + 1
      /\ UNCHANGED <<recvCount, hdr, data, pc, dlen, seqRemote, answers, current,
                     tries, acked, cmds, delivered, last, again, booted>>
  BY DEF Garble, receiver, peer, app
<1>2. faults' \in 0 .. MaxFaults
  BY <1>1, RecvConstants DEF RecvInv, TypeOK
<1>. QED  BY <1>1, <1>2, JunkTypes, InvByte

\* What taking n bytes from the front of a FIFO leaves.
LEMMA ConsumeTypes ==
  ASSUME RecvInv, NEW p \in Port, NEW n \in 0 .. Len(fifo[p]), Consume(p, n)
  PROVE  /\ fifo' \in [Port -> Seq(AnyByte)]
         /\ \A q \in Port : Len(fifo'[q]) <= FifoSize
         /\ \A q \in Port \ {p} : fifo'[q] = fifo[q]
         /\ Stream(fifo'[p], line[p], current[p], LastFrame[p])
         /\ \A k \in Nat : NotOlder(fifo[p], line[p], current[p], k) =>
                             NotOlder(fifo'[p], line[p], current[p], k)
         /\ \A i \in 1 .. n : NotOlder(fifo'[p], line[p], current[p], fifo[p][i].frame)
<1> DEFINE g == SubSeq(fifo[p], n + 1, Len(fifo[p]))
<1>1. /\ g \in Seq(AnyByte) /\ Len(g) = Len(fifo[p]) - n
      /\ Stream(g, line[p], current[p], LastFrame[p])
      /\ \A k \in Nat : NotOlder(fifo[p], line[p], current[p], k) =>
                          NotOlder(g, line[p], current[p], k)
      /\ \A i \in 1 .. n : NotOlder(g, line[p], current[p], fifo[p][i].frame)
  BY PortFacts, StreamConsume DEF OrderAt
<1>2. fifo' = [fifo EXCEPT ![p] = g]
  BY DEF Consume
<1> HIDE DEF g
<1>3. /\ fifo \in [Port -> Seq(AnyByte)]
      /\ \A q \in Port : Len(fifo[q]) <= FifoSize
      /\ FifoSize \in Nat
  BY RecvConstants DEF RecvInv, TypeOK
<1>4. Len(g) <= FifoSize
  BY <1>1, <1>3, PortFacts
<1>5. fifo'[p] = g /\ \A q \in Port \ {p} : fifo'[q] = fifo[q]
  BY <1>2, <1>3
<1>6. fifo' \in [Port -> Seq(AnyByte)] /\ \A q \in Port : Len(fifo'[q]) <= FifoSize
  BY <1>1, <1>2, <1>3, <1>4
<1>. QED  BY <1>1, <1>5, <1>6

\* A step that only consumes bytes keeps the order.
LEMMA OrderConsumed ==
  ASSUME RecvInv, NEW p \in Port, NEW n \in 0 .. Len(fifo[p]), Consume(p, n),
         UNCHANGED <<line, hdr, current, last, seqRemote>>
  PROVE  Order'
<1>1. OrderAt(p)'
  BY ConsumeTypes, PortFacts DEF OrderAt
<1>. QED  BY <1>1, ConsumeTypes, OrderOthers DEF RecvInv

\* The receiver's steps.
LEMMA InvSeek ==
  ASSUME RecvInv, NEW p \in Port, Seek(p)
  PROVE  RecvInv'
<1>0. /\ Consume(p, 1) /\ Len(fifo[p]) >= Hdr
      /\ UNCHANGED <<line, recvCount, hdr, data, pc, dlen, seqRemote, answers, current,
                     tries, acked, cmds, delivered, last, again, faults, booted>>
  BY DEF Seek, Seeking, receiver, peer, app
<1>1. 1 \in 0 .. Len(fifo[p])
  BY <1>0, PortFacts, RecvConstants
<1>2. TypeOK' /\ Shapes'
  BY <1>0, <1>1, ConsumeTypes DEF RecvInv, TypeOK, Shapes
<1>3. Order'
  BY <1>0, <1>1, OrderConsumed
<1>. QED  BY <1>2, <1>3 DEF RecvInv

\* A right header is taken from the FIFO, and its length to the shared place.
LEMMA InvHeader ==
  ASSUME RecvInv, NEW p \in Port, Header(p)
  PROVE  RecvInv'
<1> DEFINE n == fifo[p][2].frame
<1>0. /\ Consume(p, Hdr) /\ Len(fifo[p]) >= Hdr
      /\ hdr' = [hdr EXCEPT ![p] = n]
      /\ dlen' = Len0(n)
      /\ pc' = [pc EXCEPT ![p] = "length"]
      /\ UNCHANGED <<line, recvCount, data, seqRemote, answers, current,
                     tries, acked, cmds, delivered, last, again, faults, booted>>
  BY DEF Header, Seeking, peer, app
<1>1. Hdr \in 0 .. Len(fifo[p]) /\ 2 \in 1 .. Hdr /\ 2 \in 1 .. Len(fifo[p])
  BY <1>0, PortFacts, RecvConstants
<1>2. n \in 0 .. LastFrame[p]
  BY <1>1, PortFacts DEF OrderAt, Stream, Numbered
<1> HIDE DEF n
<1>3. /\ hdr' \in [Port -> {0} \cup DOMAIN DataLen] /\ hdr'[p] = n
      /\ \A q \in Port \ {p} : hdr'[q] = hdr[q]
  BY <1>0, <1>2, FrameTypes DEF RecvInv, TypeOK
<1>4. dlen' \in 0 .. MaxDLen
  BY <1>0, <1>2, FrameTypes
<1>5. pc' \in [Port -> {"loop", "length", "frame"}]
  BY <1>0 DEF RecvInv, TypeOK
<1>6. TypeOK' /\ Shapes'
  BY <1>0, <1>1, <1>3, <1>4, <1>5, ConsumeTypes DEF RecvInv, TypeOK, Shapes
<1>7. OrderAt(p)'
  <2>1. NotOlder(fifo'[p], line[p], current[p], n)
    BY <1>0, <1>1, ConsumeTypes DEF n
  <2>2. n # 0 => last[p] <= n
    BY <1>1, PortFacts DEF OrderAt, NotOlder, NotBelow, n
  <2>. QED  BY <1>0, <1>1, <1>2, <1>3, <2>1, <2>2, ConsumeTypes, PortFacts DEF OrderAt
<1>8. Order'
  BY <1>0, <1>1, <1>3, <1>7, ConsumeTypes, OrderOthers DEF RecvInv
<1>. QED  BY <1>6, <1>8 DEF RecvInv

\* The test of the length, whichever port wrote it last.
LEMMA InvTestLength ==
  ASSUME RecvInv, NEW p \in Port, TestLength(p)
  PROVE  RecvInv'
<1>0. /\ \/ dlen # 0 /\ recvCount' = [recvCount EXCEPT ![p] = Hdr]
         \/ recvCount' = recvCount
      /\ \/ pc' = [pc EXCEPT ![p] = "loop"]
         \/ pc' = [pc EXCEPT ![p] = "frame"]
      /\ UNCHANGED <<line, fifo, hdr, data, dlen, seqRemote, answers, current,
                     tries, acked, cmds, delivered, last, again, faults, booted>>
  BY DEF TestLength, peer, app
<1>1. recvCount' \in [Port -> {0} \cup Hdr .. Hdr + MaxDLen - 1]
  <2>1. /\ recvCount \in [Port -> {0} \cup Hdr .. Hdr + MaxDLen - 1]
        /\ dlen \in 0 .. MaxDLen /\ Hdr \in Nat /\ MaxDLen \in Nat
    BY RecvConstants DEF RecvInv, TypeOK
  <2>2. dlen # 0 => Hdr \in Hdr .. Hdr + MaxDLen - 1
    BY <2>1
  <2>. QED  BY <1>0, <2>1, <2>2
<1>2. pc' \in [Port -> {"loop", "length", "frame"}]
  BY <1>0 DEF RecvInv, TypeOK
<1>3. TypeOK' /\ Shapes'
  BY <1>0, <1>1, <1>2 DEF RecvInv, TypeOK, Shapes
<1>. QED  BY <1>0, <1>3, OrderKept DEF RecvInv

\* A byte of the frame is taken from the FIFO.
LEMMA InvRecvByte ==
  ASSUME RecvInv, NEW p \in Port, RecvByte(p)
  PROVE  RecvInv'
<1> DEFINE k == recvCount[p] - Hdr + 1
<1>0. /\ recvCount[p] # 0 /\ fifo[p] # <<>> /\ Consume(p, 1)
      /\ data' = IF k <= MaxDLen THEN [data EXCEPT ![p][k] = Head(fifo[p])] ELSE data
      /\ \/ k < dlen /\ recvCount' = [recvCount EXCEPT ![p] = @ + 1]
         \/ recvCount' = [recvCount EXCEPT ![p] = 0]
      /\ pc' = pc \/ pc' = [pc EXCEPT ![p] = "frame"]
      /\ UNCHANGED <<line, hdr, dlen, seqRemote, answers, current,
                     tries, acked, cmds, delivered, last, again, faults, booted>>
  BY DEF RecvByte, MoreAfter, Ended, peer, app
<1>1. 1 \in 0 .. Len(fifo[p]) /\ Head(fifo[p]) \in AnyByte
  BY <1>0, PortFacts, HeadTailProperties, EmptySeq
<1>2. /\ recvCount \in [Port -> {0} \cup Hdr .. Hdr + MaxDLen - 1]
      /\ dlen \in 0 .. MaxDLen /\ Hdr \in Nat /\ MaxDLen \in Nat
      /\ data \in [Port -> [1 .. MaxDLen -> AnyByte]]
  BY RecvConstants DEF RecvInv, TypeOK
<1>3. recvCount[p] \in Hdr .. Hdr + MaxDLen - 1
  BY <1>0, <1>2
<1>4. k \in 1 .. MaxDLen /\ (k < dlen => recvCount[p] + 1 \in Hdr .. Hdr + MaxDLen - 1)
  BY <1>2, <1>3
<1> HIDE DEF k
<1>5. recvCount' \in [Port -> {0} \cup Hdr .. Hdr + MaxDLen - 1]
  BY <1>0, <1>2, <1>4
<1>6. data' \in [Port -> [1 .. MaxDLen -> AnyByte]]
  <2>1. data' = [data EXCEPT ![p][k] = Head(fifo[p])]
    BY <1>0, <1>2, <1>4
  <2>. QED  BY <1>1, <1>2, <1>4, <2>1
<1>7. pc' \in [Port -> {"loop", "length", "frame"}]
  BY <1>0 DEF RecvInv, TypeOK
<1>8. TypeOK' /\ Shapes'
  BY <1>0, <1>1, <1>5, <1>6, <1>7, ConsumeTypes DEF RecvInv, TypeOK, Shapes
<1>9. Order'
  BY <1>0, <1>1, OrderConsumed
<1>. QED  BY <1>8, <1>9 DEF RecvInv

\* A frame with a wrong checksum is dropped, and the FIFO reset.
LEMMA InvWrongFrame ==
  ASSUME RecvInv, NEW p \in Port, WrongFrame(p)
  PROVE  RecvInv'
<1>0. /\ pc' = [pc EXCEPT ![p] = "loop"]
      /\ fifo' = [fifo EXCEPT ![p] = <<>>]
      /\ UNCHANGED <<line, recvCount, hdr, data, dlen, seqRemote, answers, current,
                     tries, acked, cmds, delivered, last, again, faults, booted>>
  BY DEF WrongFrame, peer, app
<1>1. pc' \in [Port -> {"loop", "length", "frame"}]
  BY <1>0 DEF RecvInv, TypeOK
<1>2. /\ fifo' \in [Port -> Seq(AnyByte)] /\ fifo'[p] = <<>>
      /\ \A q \in Port \ {p} : fifo'[q] = fifo[q]
      /\ \A q \in Port : Len(fifo'[q]) <= FifoSize
  BY <1>0, EmptySeq, RecvConstants DEF RecvInv, TypeOK
<1>3. TypeOK' /\ Shapes'
  BY <1>0, <1>1, <1>2 DEF RecvInv, TypeOK, Shapes
<1>4. OrderAt(p)'
  <2>1. /\ Stream(<<>>, line[p], current[p], LastFrame[p])
        /\ \A k \in Nat : NotOlder(fifo[p], line[p], current[p], k) =>
                            NotOlder(<<>>, line[p], current[p], k)
    BY PortFacts, StreamClear DEF OrderAt
  <2>. QED  BY <1>0, <1>2, <2>1, PortFacts DEF OrderAt
<1>5. Order'
  BY <1>0, <1>2, <1>4, OrderOthers DEF RecvInv
<1>. QED  BY <1>3, <1>5 DEF RecvInv

\* A command frame is handled.
LEMMA InvCmdFrame ==
  ASSUME RecvInv, NEW p \in Port, CmdFrame(p)
  PROVE  RecvInv'
<1>0. /\ pc' = [pc EXCEPT ![p] = "loop"]
      /\ UNCHANGED <<line, fifo, recvCount, hdr, data, dlen, seqRemote, answers, current,
                     tries, acked, cmds, delivered, last, again, faults, booted>>
  BY DEF CmdFrame, peer, app
<1>1. TypeOK' /\ Shapes'
  BY <1>0 DEF RecvInv, TypeOK, Shapes
<1>. QED  BY <1>0, <1>1, OrderKept DEF RecvInv

\* A data frame is delivered if it is not a repetition, and answered.
LEMMA InvDataFrame ==
  ASSUME RecvInv, NEW p \in Port, DataFrame(p)
  PROVE  RecvInv' /\ (~again => ~again')
<1> DEFINE n == hdr[p]
<1>0. /\ pc[p] = "frame" /\ n # 0
      /\ pc' = [pc EXCEPT ![p] = "loop"]
      /\ answers' = [answers EXCEPT ![p] = Append(@, Seq0(n))]
      /\ UNCHANGED <<line, fifo, recvCount, hdr, dlen, current, tries, acked, cmds,
                     faults, booted>>
  BY DEF DataFrame, peer
<1>1. n \in 1 .. LastFrame[p] /\ n \in Nat /\ n \in Frame(p) /\ n # 0
  BY <1>0, PortFacts DEF OrderAt, Frame
<1>2. pc' \in [Port -> {"loop", "length", "frame"}]
  BY <1>0 DEF RecvInv, TypeOK
<1>3. answers' \in [Port -> Seq(0 .. SeqMod - 1)]
  BY <1>0, <1>1, SeqTypes, AnswerSent
<1>4. CASE Repeated(p, n)
  <2>1. UNCHANGED <<seqRemote, data, delivered, last, again>>
    BY <1>4 DEF DataFrame, app
  <2>2. TypeOK' /\ Shapes'
    BY <1>0, <1>2, <1>3, <2>1 DEF RecvInv, TypeOK, Shapes
  <2>. QED  BY <1>0, <2>1, <2>2, OrderKept DEF RecvInv
<1>5. CASE ~Repeated(p, n)
  <2>1. /\ seqRemote' = [seqRemote EXCEPT ![p] = Seq0(n)]
        /\ delivered' = [delivered EXCEPT ![p] = @ \cup {n}]
        /\ last' = [last EXCEPT ![p] = n]
        /\ again' = (again \/ n <= last[p])
        /\ data' = [data EXCEPT ![p] = [i \in 1 .. MaxDLen |-> Junk]]
    BY <1>5 DEF DataFrame
  <2> HIDE DEF n
  <2>2. /\ seqRemote' \in [Port -> 0 .. SeqMod - 1] /\ seqRemote'[p] = Seq0(n)
        /\ \A q \in Port \ {p} : seqRemote'[q] = seqRemote[q]
    BY <1>1, <2>1, SeqTypes DEF RecvInv, TypeOK
  <2>3. /\ last' \in [Port -> Nat] /\ last'[p] = n
        /\ \A q \in Port \ {p} : last'[q] = last[q]
        /\ \A q \in Port : last'[q] \in {0} \cup Frame(q)
    BY <1>1, <2>1 DEF RecvInv, TypeOK, Shapes
  <2>4. /\ delivered' \in [Port -> SUBSET Nat]
        /\ \A q \in Port : delivered'[q] \subseteq Frame(q)
    BY <1>1, <2>1 DEF RecvInv, TypeOK, Shapes
  <2>5. data' \in [Port -> [1 .. MaxDLen -> AnyByte]]
    BY <2>1, JunkTypes DEF RecvInv, TypeOK
  <2>6. again' \in BOOLEAN
    BY <2>1 DEF RecvInv, TypeOK
  <2>7. TypeOK' /\ Shapes'
    BY <1>0, <1>2, <1>3, <2>2, <2>3, <2>4, <2>5, <2>6 DEF RecvInv, TypeOK, Shapes
  <2>8. OrderAt(p)'
    BY <1>0, <1>1, <2>2, <2>3, PortFacts DEF OrderAt, n
  <2>9. Order'
    BY <1>0, <2>2, <2>3, <2>8, OrderOthers DEF RecvInv
  <2>10. ~(n <= last[p])
    <3>1. last[p] <= n /\ last[p] \in Nat
      BY <1>1, PortFacts DEF OrderAt, n
    <3>2. n # last[p]
      BY <1>1, <1>5, PortFacts DEF OrderAt, Repeated
    <3>. QED  BY <1>1, <3>1, <3>2
  <2>11. ~again => ~again'
    BY <2>1, <2>10
  <2>. QED  BY <2>7, <2>9, <2>11 DEF RecvInv
<1>. QED  BY <1>4, <1>5

\* A restart forgets the number of the last frame.
LEMMA InvBoot ==
  ASSUME RecvInv, Boot
  PROVE  RecvInv'
<1>0. /\ faults < MaxFaults /\ faults' = faults + 1 /\ booted' = TRUE
      /\ fifo' = [q \in Port |-> <<>>] /\ recvCount' = [q \in Port |-> 0]
      /\ hdr' = [q \in Port |-> 0]
      /\ data' = [q \in Port |-> [i \in 1 .. MaxDLen |-> Junk]]
      /\ dlen' = 0 /\ pc' = [q \in Port |-> "loop"]
      /\ seqRemote' = [q \in Port |-> SeqMod - 1] /\ last' = [q \in Port |-> 0]
      /\ UNCHANGED <<line, answers, current, tries, cmds, acked, delivered, again>>
  BY DEF Boot, peer
<1>1. faults' \in 0 .. MaxFaults /\ dlen' \in 0 .. MaxDLen
  BY <1>0, RecvConstants DEF RecvInv, TypeOK
<1>2. /\ fifo' \in [Port -> Seq(AnyByte)]
      /\ \A q \in Port : Len(fifo'[q]) <= FifoSize
  BY <1>0, EmptySeq, RecvConstants
<1>3. data' \in [Port -> [1 .. MaxDLen -> AnyByte]]
  BY <1>0, JunkTypes
<1>4. seqRemote' \in [Port -> 0 .. SeqMod - 1]
  BY <1>0, SeqTypes
<1>5. TypeOK'
  BY <1>0, <1>1, <1>2, <1>3, <1>4 DEF RecvInv, TypeOK
<1>6. Shapes'
  BY <1>0 DEF RecvInv, Shapes
<1>7. ASSUME NEW q \in Port
      PROVE  OrderAt(q)'
  <2>1. /\ Stream(<<>>, line[q], current[q], LastFrame[q])
        /\ \A k \in Nat : NotOlder(fifo[q], line[q], current[q], k) =>
                            NotOlder(<<>>, line[q], current[q], k)
    BY PortFacts, StreamClear DEF OrderAt
  <2>2. NotOlder(<<>>, line[q], current[q], 0)
    <3>1. NotOlder(fifo[q], line[q], current[q], 0)
      BY PortFacts DEF OrderAt, Stream, Numbered, NotOlder, NotBelow
    <3>. QED  BY <2>1, <3>1
  <2>. QED  BY <1>0, <2>1, <2>2, PortFacts DEF OrderAt
<1>. QED  BY <1>5, <1>6, <1>7 DEF RecvInv, Order

\* The invariant is inductive, and no step delivers an old frame.
LEMMA RecvInvInductive ==
  /\ Init => RecvInv /\ ~again
  /\ RecvInv /\ [Next]_vars => RecvInv' /\ (~again => ~again')
<1>1. ASSUME Init
      PROVE  RecvInv /\ ~again
  <2>1. TypeOK
    <3>1. /\ fifo \in [Port -> Seq(AnyByte)] /\ line \in [Port -> Seq(AnyByte)]
          /\ \A p \in Port : Len(fifo[p]) <= FifoSize
      BY <1>1, EmptySeq, RecvConstants DEF Init
    <3>2. data \in [Port -> [1 .. MaxDLen -> AnyByte]]
      BY <1>1, JunkTypes DEF Init
    <3>3. seqRemote \in [Port -> 0 .. SeqMod - 1]
      BY <1>1, SeqTypes DEF Init
    <3>4. /\ \A p \in Port : current[p] \in 1 .. LastFrame[p] + 1
          /\ tries \in [Port -> 0 .. MaxTries]
          /\ \A p \in Port : cmds[p] \in 0 .. MaxCmds[p]
          /\ faults \in 0 .. MaxFaults /\ dlen \in 0 .. MaxDLen
      BY <1>1, RecvConstants DEF Init
    <3>5. answers \in [Port -> Seq(0 .. SeqMod - 1)]
      BY <1>1, EmptySeq DEF Init
    <3>. QED  BY <1>1, <3>1, <3>2, <3>3, <3>4, <3>5 DEF Init, TypeOK
  <2>2. Shapes
    BY <1>1 DEF Init, Shapes
  <2>3. ASSUME NEW p \in Port
        PROVE  OrderAt(p)
    <3>1. /\ fifo[p] = <<>> /\ line[p] = <<>> /\ current[p] = 1 /\ last[p] = 0
          /\ hdr[p] = 0 /\ seqRemote[p] = SeqMod - 1 /\ LastFrame[p] \in Nat
      BY <1>1, RecvConstants DEF Init
    <3>. QED  BY <3>1 DEF OrderAt, Stream, Numbered, Ascending, Before, NotOlder, NotBelow
  <2>. QED  BY <1>1, <2>1, <2>2, <2>3 DEF RecvInv, Order, Init
<1>2. ASSUME RecvInv, [Next]_vars
      PROVE  RecvInv' /\ (~again => ~again')
  <2>. USE <1>2
  <2>1. ASSUME NEW p \in Port, PeerSend(p)
        PROVE  RecvInv' /\ (~again => ~again')
    BY <2>1, InvPeerSend DEF PeerSend, app
  <2>2. ASSUME NEW p \in Port, PeerGiveUp(p)
        PROVE  RecvInv' /\ (~again => ~again')
    BY <2>2, InvPeerGiveUp DEF PeerGiveUp, app
  <2>3. ASSUME NEW p \in Port, PeerSendCmd(p)
        PROVE  RecvInv' /\ (~again => ~again')
    BY <2>3, InvPeerSendCmd DEF PeerSendCmd, app
  <2>4. ASSUME NEW p \in Port, PeerAck(p)
        PROVE  RecvInv' /\ (~again => ~again')
    BY <2>4, InvPeerAck DEF PeerAck, app
  <2>5. ASSUME NEW p \in Port, LoseAck(p)
        PROVE  RecvInv' /\ (~again => ~again')
    BY <2>5, InvLoseAck DEF LoseAck, app
  <2>6. ASSUME NEW p \in Port, Arrive(p)
        PROVE  RecvInv' /\ (~again => ~again')
    BY <2>6, InvArrive DEF Arrive, app
  <2>7. ASSUME NEW p \in Port, Garble(p)
        PROVE  RecvInv' /\ (~again => ~again')
    BY <2>7, InvGarble DEF Garble, app
  <2>8. ASSUME NEW p \in Port, Seek(p)
        PROVE  RecvInv' /\ (~again => ~again')
    BY <2>8, InvSeek DEF Seek, app
  <2>9. ASSUME NEW p \in Port, Header(p)
        PROVE  RecvInv' /\ (~again => ~again')
    BY <2>9, InvHeader DEF Header, app
  <2>10. ASSUME NEW p \in Port, TestLength(p)
         PROVE  RecvInv' /\ (~again => ~again')
    BY <2>10, InvTestLength DEF TestLength, app
  <2>11. ASSUME NEW p \in Port, RecvByte(p)
         PROVE  RecvInv' /\ (~again => ~again')
    BY <2>11, InvRecvByte DEF RecvByte, app
  <2>12. ASSUME NEW p \in Port, WrongFrame(p)
         PROVE  RecvInv' /\ (~again => ~again')
    BY <2>12, InvWrongFrame DEF WrongFrame, app
  <2>13. ASSUME NEW p \in Port, CmdFrame(p)
         PROVE  RecvInv' /\ (~again => ~again')
    BY <2>13, InvCmdFrame DEF CmdFrame, app
  <2>14. ASSUME NEW p \in Port, DataFrame(p)
         PROVE  RecvInv' /\ (~again => ~again')
    BY <2>14, InvDataFrame
  <2>15. CASE Boot
    BY <2>15, InvBoot DEF Boot
  <2>16. CASE UNCHANGED vars
    <3>1. UNCHANGED <<line, fifo, recvCount, hdr, data, pc, dlen, seqRemote, answers,
                      current, tries, cmds, acked, delivered, last, again, faults, booted>>
      BY <2>16 DEF vars, receiver, peer, app
    <3>2. TypeOK' /\ Shapes'
      BY <3>1 DEF RecvInv, TypeOK, Shapes
    <3>. QED  BY <3>1, <3>2, OrderKept DEF RecvInv
  <2>. QED
    BY <2>1, <2>2, <2>3, <2>4, <2>5, <2>6, <2>7, <2>8, <2>9, <2>10, <2>11, <2>12,
       <2>13, <2>14, <2>15, <2>16 DEF Next, RecvTask
<1>. QED  BY <1>1, <1>2

\* What the receivers hold is what the code can put there: in particular no
\* byte is stored outside the receive buffer and no FIFO holds more than its size.
THEOREM RecvTypeCorrect == Spec => []TypeOK
<1>1. RecvInv => TypeOK
  BY DEF RecvInv
<1>. QED  BY <1>1, RecvInvInductive, PTL DEF Spec

\* OnRecvFrame hands the frames of a peer to the application in their order and
\* none of them twice between two starts, whatever is lost, changed or thrown
\* away, and whatever the task of another port does to the shared length.
THEOREM FramesDeliveredInOrder == Spec => []DeliveredInOrder
<1>1. Init => RecvInv /\ ~again
  BY RecvInvInductive
<1>2. RecvInv /\ ~again /\ [Next]_vars => (RecvInv /\ ~again)'
  BY RecvInvInductive
<1>3. ~again => DeliveredInOrder
  BY DEF DeliveredInOrder
<1>. QED  BY <1>1, <1>2, <1>3, PTL DEF Spec

-----------------------------------------------------------------------------
(***************************************************************************)
(* What an ACK means.  A peer that keeps to its frame until the ACK comes  *)
(* may use the numbers over and over, as alternating numbers do: the ACKs  *)
(* on their way to it are those of the frame before, if any, and behind    *)
(* them those of the frame it sends.  A peer that gives frames up may take *)
(* a late ACK of an old frame for that of a new one with the same number:  *)
(* it must have fewer frames than there are numbers, and never reach the   *)
(* number layer 3 starts with, lest the frame be dropped as a repetition   *)
(* of nothing.                                                             *)
(***************************************************************************)
NumbersSuffice == SeqMod > 1 /\ \A p \in Port \ Patient : LastFrame[p] < SeqMod

Answered(p, n) == n \in delivered[p] \/ DroppedAtStart(n)

\* A frame is being received at the port.
Busy(p) == pc[p] # "loop" \/ recvCount[p] # 0

\* Nothing that may still be received at the port is of a frame older than k.
InPlay(p, k) ==
  /\ NotOlder(fifo[p], line[p], current[p], k)
  /\ Busy(p) /\ hdr[p] # 0 => k <= hdr[p]

\* An ACK of the current frame is on its way.
Awaited(p) == \E i \in 1 .. Len(answers[p]) : answers[p][i] = Seq0(current[p])

\* The ACKs on their way to a patient peer: of two frames only, in their order.
InTurn(p) ==
  /\ \A i \in 1 .. Len(answers[p]) :
       answers[p][i] \in {Seq0(current[p] - 1), Seq0(current[p])}
  /\ \A i, j \in 1 .. Len(answers[p]) :
       i < j /\ answers[p][i] = Seq0(current[p]) => answers[p][j] = Seq0(current[p])

\* What a patient peer and its receiver agree on: the frame before the current
\* one is settled, and the current one is when an ACK of it is on its way.
Alternates(p) ==
  /\ InTurn(p)
  /\ InPlay(p, current[p] - 1)
  /\ last[p] \in {0, current[p] - 1, current[p]}
  /\ last[p] = 0 /\ ~booted => current[p] = 1
  /\ Awaited(p) => /\ InPlay(p, current[p]) /\ Answered(p, current[p])
                   /\ last[p] = current[p] \/ (last[p] = 0 /\ booted)

\* The ACKs on their way to a peer that gives frames up.
Truthful(p) ==
  \A i \in 1 .. Len(answers[p]) :
    \E n \in Frame(p) : Seq0(n) = answers[p][i] /\ Answered(p, n)

TruthAt(p) ==
  /\ \A n \in acked[p] : Answered(p, n)
  /\ last[p] # 0 => last[p] \in delivered[p]
  /\ p \in Patient => Alternates(p)
  /\ p \notin Patient => Truthful(p)

Truth == \A p \in Port : TruthAt(p)

\* A number determines its remainder.
LEMMA RemainderOf ==
  ASSUME NEW M \in Nat \ {0}, NEW k \in Int, NEW r \in 0 .. M - 1
  PROVE  (M * k + r) % M = r
OBVIOUS

\* Quotient and remainder determine the number.
LEMMA QuotientOf ==
  ASSUME NEW M \in Nat \ {0}, NEW a \in Int
  PROVE  a \div M \in Int /\ a % M \in 0 .. M - 1 /\ a = M * (a \div M) + (a % M)
<1>1. a % M \in 0 .. M - 1
  OBVIOUS
<1>2. a \div M \in Int /\ a = M * (a \div M) + (a % M)
  OBVIOUS
<1>. QED  BY <1>1, <1>2

\* Two frames in a row have different numbers.
LEMMA Successive ==
  ASSUME NumbersSuffice, NEW c \in Nat
  PROVE  Seq0(c) # Seq0(c - 1)
<1> DEFINE a == c - 2
           k == a \div SeqMod
           r == a % SeqMod
<1>1. SeqMod \in Nat \ {0} /\ SeqMod > 1 /\ a \in Int
  BY RecvConstants DEF NumbersSuffice
<1>2. k \in Int /\ a = SeqMod * k + r /\ r \in 0 .. SeqMod - 1
  BY <1>1, QuotientOf
<1>3. c - 1 = a + 1 /\ c - 1 - 1 = a
  OBVIOUS
<1> HIDE DEF a, k, r
<1>4. (a + 1) % SeqMod # r
  <2>1. CASE r = SeqMod - 1
    <3>1. a + 1 = SeqMod * (k + 1) + 0 /\ k + 1 \in Int /\ 0 \in 0 .. SeqMod - 1
      BY <1>1, <1>2, <2>1
    <3>2. (SeqMod * (k + 1) + 0) % SeqMod = 0
      BY <1>1, <3>1, RemainderOf
    <3>. QED  BY <1>1, <2>1, <3>1, <3>2
  <2>2. CASE r # SeqMod - 1
    <3>1. a + 1 = SeqMod * k + (r + 1) /\ r + 1 \in 0 .. SeqMod - 1
      BY <1>1, <1>2, <2>2
    <3>2. (SeqMod * k + (r + 1)) % SeqMod = r + 1
      BY <1>1, <1>2, <3>1, RemainderOf
    <3>. QED  BY <1>2, <3>1, <3>2
  <2>. QED  BY <2>1, <2>2
<1>5. Seq0(c) = (a + 1) % SeqMod /\ Seq0(c - 1) = r
  BY <1>3 DEF Seq0, r
<1>. QED  BY <1>4, <1>5

\* The first frame has the number 0.
LEMMA FirstNumber ==
  ASSUME NumbersSuffice
  PROVE  Seq0(1) = 0 /\ Seq0(1) # SeqMod - 1
<1>1. SeqMod \in Nat \ {0} /\ SeqMod > 1
  BY RecvConstants DEF NumbersSuffice
<1>2. 0 % SeqMod = 0
  BY <1>1
<1>. QED  BY <1>1, <1>2 DEF Seq0

\* One frame of a peer that gives frames up has a given number.
LEMMA NumberOf ==
  ASSUME NumbersSuffice, NEW p \in Port \ Patient, NEW n \in Frame(p)
  PROVE  Seq0(n) = n - 1 /\ n < SeqMod
<1>1. SeqMod \in Nat \ {0} /\ LastFrame[p] \in Nat /\ LastFrame[p] < SeqMod
  BY RecvConstants DEF NumbersSuffice
<1>2. n - 1 \in 0 .. SeqMod - 1 /\ n < SeqMod
  BY <1>1 DEF Frame
<1>3. (n - 1) % SeqMod = n - 1
  BY <1>1, <1>2
<1>. QED  BY <1>2, <1>3 DEF Seq0

\* The steps of one port and its peer.
PortStep(p) ==
  \/ PeerSend(p) \/ PeerGiveUp(p) \/ PeerSendCmd(p)
  \/ PeerAck(p) \/ LoseAck(p) \/ Arrive(p) \/ Garble(p)
  \/ RecvTask(p)

\* They leave the other ports alone.
LEMMA StepElsewhere ==
  ASSUME RecvInv, NEW p \in Port, PortStep(p), NEW q \in Port, q # p
  PROVE  UNCHANGED <<line[q], fifo[q], recvCount[q], hdr[q], pc[q], answers[q],
                     current[q], acked[q], delivered[q], last[q], booted>>
<1>1. /\ DOMAIN line = Port /\ DOMAIN fifo = Port /\ DOMAIN recvCount = Port
      /\ DOMAIN hdr = Port /\ DOMAIN pc = Port /\ DOMAIN answers = Port
      /\ DOMAIN current = Port /\ DOMAIN acked = Port /\ DOMAIN delivered = Port
      /\ DOMAIN last = Port
  BY DEF RecvInv, TypeOK, Shapes
<1>2. CASE PeerSend(p) \/ PeerGiveUp(p) \/ PeerSendCmd(p)
  BY <1>1, <1>2 DEF PeerSend, PeerGiveUp, PeerSendCmd, receiver, app
<1>3. CASE PeerAck(p)
  BY <1>1, <1>3 DEF PeerAck, receiver, app
<1>4. CASE LoseAck(p)
  BY <1>1, <1>4 DEF LoseAck, receiver, peer, app
<1>5. CASE Arrive(p)
  <2>1. UNCHANGED fifo[q]
    BY <1>1, <1>5 DEF Arrive, Put
  <2>. QED  BY <1>1, <1>5, <2>1 DEF Arrive, receiver, peer, app
<1>6. CASE Garble(p)
  <2>1. UNCHANGED fifo[q]
    BY <1>1, <1>6 DEF Garble, Put
  <2>. QED  BY <1>1, <1>6, <2>1 DEF Garble, receiver, peer, app
<1>7. CASE Seek(p) \/ Header(p)
  BY <1>1, <1>7 DEF Seek, Header, Consume, receiver, peer, app
<1>8. CASE TestLength(p) \/ RecvByte(p)
  BY <1>1, <1>8 DEF TestLength, RecvByte, Ended, Consume, peer, app
<1>9. CASE WrongFrame(p) \/ CmdFrame(p)
  BY <1>1, <1>9 DEF WrongFrame, CmdFrame, peer, app
<1>10. CASE DataFrame(p)
  BY <1>1, <1>10 DEF DataFrame, peer, app
<1>. QED
  BY <1>2, <1>3, <1>4, <1>5, <1>6, <1>7, <1>8, <1>9, <1>10 DEF PortStep, RecvTask

\* What is true of another port stays true.
LEMMA TruthElsewhere ==
  ASSUME RecvInv, Truth, NEW p \in Port, PortStep(p), TruthAt(p)'
  PROVE  Truth'
<1> SUFFICES ASSUME NEW q \in Port, q # p
             PROVE  TruthAt(q)'
  BY DEF Truth
<1>1. TruthAt(q)
  BY DEF Truth
<1>. QED  BY <1>1, StepElsewhere DEF TruthAt, Alternates, InTurn, Truthful, Awaited,
                InPlay, Busy, Answered, DroppedAtStart

\* A byte at the port: nothing old comes with it.
LEMMA PlayByte ==
  ASSUME RecvInv, NEW p \in Port, line[p] # <<>>, line'[p] = Tail(line[p]),
         NEW b \in AnyByte, b = Head(line[p]) \/ b.frame = 0,
         Put(p, b) \/ fifo' = fifo,
         UNCHANGED <<recvCount, hdr, pc, current>>,
         NEW k \in Nat, InPlay(p, k)
  PROVE  InPlay(p, k)'
<1>1. fifo'[p] \in Seq(AnyByte) /\ (fifo'[p] = fifo[p] \/ fifo'[p] = Append(fifo[p], b))
  <2>1. CASE Put(p, b)
    BY <2>1, PutTypes
  <2>2. CASE fifo' = fifo
    BY <2>2, PortFacts
  <2>. QED  BY <2>1, <2>2
<1>2. \A i \in Nat : NotOlder(fifo[p], line[p], current[p], i) =>
                       NotOlder(fifo'[p], Tail(line[p]), current[p], i)
  BY <1>1, PortFacts, StreamArrive DEF OrderAt
<1>. QED  BY <1>2 DEF InPlay, Busy

\* No step at a port brings back a byte of an older frame.
LEMMA PlayStep ==
  ASSUME RecvInv, NEW p \in Port, PortStep(p), NEW k \in Nat, InPlay(p, k)
  PROVE  InPlay(p, k)'
<1>0. /\ NotOlder(fifo[p], line[p], current[p], k)
      /\ Busy(p) /\ hdr[p] # 0 => k <= hdr[p]
  BY DEF InPlay
<1>1. CASE PeerSend(p) \/ PeerSendCmd(p)
  <2>1. PICK n \in 0 .. LastFrame[p] :
          (n = 0 \/ n = current[p]) /\ line' = [line EXCEPT ![p] = Bytes(n)]
    <3>1. CASE PeerSend(p)
      <4>1. current[p] \in 0 .. LastFrame[p]
        BY <3>1, PortFacts DEF PeerSend, Frame
      <4>. QED  BY <3>1, <4>1 DEF PeerSend
    <3>2. CASE PeerSendCmd(p)
      <4>1. 0 \in 0 .. LastFrame[p]
        BY PortFacts
      <4>. QED  BY <3>2, <4>1 DEF PeerSendCmd
    <3>. QED  BY <1>1, <3>1, <3>2
  <2>2. line[p] = <<>> /\ UNCHANGED <<fifo, recvCount, hdr, pc, current>>
    BY <1>1 DEF PeerSend, PeerSendCmd, receiver
  <2>3. line'[p] = Bytes(n)
    BY <2>1 DEF RecvInv, TypeOK
  <2>4. /\ Bytes(n) \in Seq(AnyByte)
        /\ \A i \in 1 .. Len(Bytes(n)) : Bytes(n)[i].frame \in {0, n}
    BY BytesTypes
  <2>5. Stream(fifo[p], <<>>, current[p], LastFrame[p])
    BY <2>2, PortFacts DEF OrderAt
  <2>6. \A i \in Nat : NotOlder(fifo[p], <<>>, current[p], i) =>
                         NotOlder(fifo[p], Bytes(n), current[p], i)
    BY <2>1, <2>4, <2>5, PortFacts, StreamSend
  <2>. QED  BY <1>0, <2>2, <2>3, <2>6 DEF InPlay, Busy
<1>2. CASE PeerGiveUp(p) \/ PeerAck(p) \/ LoseAck(p)
  <2>1. UNCHANGED <<line, fifo, recvCount, hdr, pc>>
    BY <1>2 DEF PeerGiveUp, PeerAck, LoseAck, receiver
  <2>2. current' = current \/ current' = [current EXCEPT ![p] = @ + 1]
    BY <1>2 DEF PeerGiveUp, PeerAck, LoseAck, peer
  <2>3. current'[p] \in Nat /\ current[p] \in Nat /\ current[p] <= current'[p]
    BY <2>2 DEF RecvInv, Shapes
  <2>4. k <= current'[p]
    BY <1>0, <2>3 DEF NotOlder
  <2>. QED  BY <1>0, <2>1, <2>4 DEF InPlay, Busy, NotOlder
<1>3. CASE Arrive(p)
  <2>1. Head(line[p]) \in AnyByte
    BY <1>3, PortFacts, HeadTailProperties DEF Arrive
  <2>2. /\ line[p] # <<>> /\ Put(p, Head(line[p]))
        /\ line' = [line EXCEPT ![p] = Tail(@)]
        /\ UNCHANGED <<recvCount, hdr, pc, current>>
    BY <1>3 DEF Arrive, receiver, peer
  <2>3. line'[p] = Tail(line[p])
    BY <2>2 DEF RecvInv, TypeOK
  <2>. QED  BY <2>1, <2>2, <2>3, PlayByte
<1>4. CASE Garble(p)
  <2>1. /\ line[p] # <<>>
        /\ Put(p, Junk) \/ fifo' = fifo
        /\ line' = [line EXCEPT ![p] = Tail(@)]
        /\ UNCHANGED <<recvCount, hdr, pc, current>>
    BY <1>4 DEF Garble, receiver, peer
  <2>2. line'[p] = Tail(line[p])
    BY <2>1 DEF RecvInv, TypeOK
  <2>3. Junk \in AnyByte /\ (Junk = Head(line[p]) \/ Junk.frame = 0)
    BY JunkTypes
  <2>. QED  BY <2>1, <2>2, <2>3, PlayByte
<1>5. CASE Seek(p)
  <2>1. /\ Consume(p, 1) /\ Len(fifo[p]) >= Hdr
        /\ UNCHANGED <<line, recvCount, hdr, pc, current>>
    BY <1>5 DEF Seek, Seeking, receiver, peer
  <2>2. 1 \in 0 .. Len(fifo[p])
    BY <2>1, PortFacts, RecvConstants
  <2>3. NotOlder(fifo'[p], line[p], current[p], k)
    BY <1>0, <2>1, <2>2, ConsumeTypes
  <2>. QED  BY <1>0, <2>1, <2>3 DEF InPlay, Busy
<1>6. CASE Header(p)
  <2>1. /\ Consume(p, Hdr) /\ Len(fifo[p]) >= Hdr
        /\ hdr' = [hdr EXCEPT ![p] = fifo[p][2].frame]
        /\ UNCHANGED <<line, current>>
    BY <1>6 DEF Header, Seeking, peer
  <2>2. Hdr \in 0 .. Len(fifo[p]) /\ 2 \in 1 .. Len(fifo[p])
    BY <2>1, PortFacts, RecvConstants
  <2>3. NotOlder(fifo'[p], line[p], current[p], k)
    BY <1>0, <2>1, <2>2, ConsumeTypes
  <2>4. hdr'[p] = fifo[p][2].frame
    BY <2>1 DEF RecvInv, TypeOK
  <2>5. hdr'[p] # 0 => k <= hdr'[p]
    BY <1>0, <2>2, <2>4 DEF NotOlder, NotBelow
  <2>. QED  BY <2>1, <2>3, <2>5 DEF InPlay
<1>7. CASE TestLength(p) \/ CmdFrame(p) \/ DataFrame(p)
  <2>1. Busy(p) /\ UNCHANGED <<line, fifo, hdr, current>>
    BY <1>7 DEF TestLength, CmdFrame, DataFrame, Busy, peer
  <2>. QED  BY <1>0, <2>1 DEF InPlay
<1>8. CASE RecvByte(p)
  <2>1. Busy(p) /\ fifo[p] # <<>> /\ Consume(p, 1) /\ UNCHANGED <<line, hdr, current>>
    BY <1>8 DEF RecvByte, Busy, peer
  <2>2. 1 \in 0 .. Len(fifo[p])
    BY <2>1, PortFacts, EmptySeq
  <2>3. NotOlder(fifo'[p], line[p], current[p], k)
    BY <1>0, <2>1, <2>2, ConsumeTypes
  <2>. QED  BY <1>0, <2>1, <2>3 DEF InPlay
<1>9. CASE WrongFrame(p)
  <2>1. /\ Busy(p) /\ fifo' = [fifo EXCEPT ![p] = <<>>]
        /\ UNCHANGED <<line, hdr, current>>
    BY <1>9 DEF WrongFrame, Busy, peer
  <2>2. fifo'[p] = <<>>
    BY <2>1 DEF RecvInv, TypeOK
  <2>3. NotOlder(<<>>, line[p], current[p], k)
    BY <1>0, PortFacts, StreamClear DEF OrderAt
  <2>. QED  BY <1>0, <2>1, <2>2, <2>3 DEF InPlay
<1>. QED
  BY <1>1, <1>2, <1>3, <1>4, <1>5, <1>6, <1>7, <1>8, <1>9 DEF PortStep, RecvTask

\* Most steps acknowledge nothing, deliver nothing and forget nothing.
LEMMA TruthQuiet ==
  ASSUME RecvInv, Truth, NEW p \in Port, PortStep(p),
         UNCHANGED <<answers, current, acked, delivered, last, booted>>
  PROVE  Truth'
<1>1. TruthAt(p) /\ current[p] \in Nat /\ current[p] - 1 \in Nat
  BY PortFacts DEF Truth
<1>2. \A n : Answered(p, n)' <=> Answered(p, n)
  BY DEF Answered, DroppedAtStart
<1>3. /\ InPlay(p, current[p] - 1) => InPlay(p, current[p] - 1)'
      /\ InPlay(p, current[p]) => InPlay(p, current[p])'
  <2>1. \A k \in Nat : InPlay(p, k) => InPlay(p, k)'
    BY PlayStep
  <2>. QED  BY <1>1, <2>1 DEF InPlay
<1>4. ASSUME p \in Patient
      PROVE  Alternates(p)'
  BY <1>1, <1>2, <1>3, <1>4 DEF TruthAt, Alternates, InTurn, Awaited
<1>5. ASSUME p \notin Patient
      PROVE  Truthful(p)'
  BY <1>1, <1>2, <1>5 DEF TruthAt, Truthful
<1>6. TruthAt(p)'
  BY <1>1, <1>2, <1>4, <1>5 DEF TruthAt
<1>. QED  BY <1>6, TruthElsewhere

\* An ACK leaves its line and changes nothing else.
LEMMA TruthTail ==
  ASSUME RecvInv, Truth, NEW p \in Port, PortStep(p), answers[p] # <<>>,
         answers' = [answers EXCEPT ![p] = Tail(@)],
         UNCHANGED <<current, acked, delivered, last, booted>>
  PROVE  Truth'
<1>1. TruthAt(p) /\ current[p] \in Nat /\ current[p] - 1 \in Nat
  BY PortFacts DEF Truth
<1>2. \A n : Answered(p, n)' <=> Answered(p, n)
  BY DEF Answered, DroppedAtStart
<1>3. /\ InPlay(p, current[p] - 1) => InPlay(p, current[p] - 1)'
      /\ InPlay(p, current[p]) => InPlay(p, current[p])'
  <2>1. \A k \in Nat : InPlay(p, k) => InPlay(p, k)'
    BY PlayStep
  <2>. QED  BY <1>1, <2>1 DEF InPlay
<1>4. /\ Len(answers'[p]) \in Nat
      /\ \A i \in 1 .. Len(answers'[p]) :
           i + 1 \in 1 .. Len(answers[p]) /\ answers'[p][i] = answers[p][i + 1]
  <2>1. /\ Len(answers[p]) \in Nat \ {0} /\ Len(answers'[p]) = Len(answers[p]) - 1
        /\ \A i \in 1 .. Len(answers'[p]) : answers'[p][i] = answers[p][i + 1]
    BY AnswerTaken
  <2>. QED  BY <2>1
<1>5. ASSUME p \in Patient
      PROVE  Alternates(p)'
  <2>1. Alternates(p)
    BY <1>1, <1>5 DEF TruthAt
  <2>2. InTurn(p)'
    <3>1. \A i, j \in 1 .. Len(answers'[p]) : i < j => i + 1 < j + 1
      BY <1>4
    <3>. QED  BY <1>4, <2>1, <3>1 DEF Alternates, InTurn
  <2>3. Awaited(p)' => Awaited(p)
    BY <1>4 DEF Awaited
  <2>. QED  BY <1>2, <1>3, <2>1, <2>2, <2>3 DEF Alternates
<1>6. ASSUME p \notin Patient
      PROVE  Truthful(p)'
  BY <1>1, <1>2, <1>4, <1>6 DEF TruthAt, Truthful
<1>7. TruthAt(p)'
  BY <1>1, <1>2, <1>5, <1>6 DEF TruthAt
<1>. QED  BY <1>7, TruthElsewhere

\* The ACK of the current frame is read by its peer.
LEMMA TruthPeerAck ==
  ASSUME NumbersSuffice, RecvInv, Truth, NEW p \in Port, PeerAck(p)
  PROVE  Truth'
<1>c. PICK c \in Nat : c = current[p]
  BY PortFacts
<1>. USE <1>c
<1>0. /\ answers[p] # <<>> /\ answers' = [answers EXCEPT ![p] = Tail(@)]
      /\ UNCHANGED <<delivered, last, booted>>
      /\ PortStep(p)
  BY DEF PeerAck, app, PortStep
<1>1. CASE ~(c \in Frame(p) /\ Seq0(c) = Head(answers[p]))
  <2>1. UNCHANGED <<acked, current>>
    BY <1>1 DEF PeerAck
  <2>. QED  BY <1>0, <2>1, TruthTail
<1>2. CASE c \in Frame(p) /\ Seq0(c) = Head(answers[p])
  <2>0. /\ acked' = [acked EXCEPT ![p] = @ \cup {c}]
        /\ current' = [current EXCEPT ![p] = @ + 1]
    BY <1>2 DEF PeerAck
  <2>1. acked'[p] = acked[p] \cup {c} /\ current'[p] = c + 1
    BY <2>0 DEF RecvInv, Shapes
  <2>2. TruthAt(p) /\ c \in Nat
    BY PortFacts DEF Truth
  <2>3. /\ Len(answers'[p]) \in Nat
        /\ 1 \in 1 .. Len(answers[p]) /\ answers[p][1] = Seq0(c)
        /\ \A i \in 1 .. Len(answers'[p]) :
             /\ i + 1 \in 1 .. Len(answers[p]) /\ 1 < i + 1
             /\ answers'[p][i] = answers[p][i + 1]
    <3>1. /\ Len(answers[p]) \in Nat \ {0} /\ Len(answers'[p]) = Len(answers[p]) - 1
          /\ Head(answers[p]) = answers[p][1]
          /\ \A i \in 1 .. Len(answers'[p]) : answers'[p][i] = answers[p][i + 1]
      BY <1>0, AnswerTaken
    <3>. QED  BY <1>2, <3>1
  <2>4. \A n : Answered(p, n)' <=> Answered(p, n)
    BY <1>0 DEF Answered, DroppedAtStart
  <2>5. ASSUME p \in Patient
        PROVE  Answered(p, c) /\ Alternates(p)'
    <3>1. Alternates(p)
      BY <2>2, <2>5 DEF TruthAt
    <3>2. /\ InPlay(p, c) /\ Answered(p, c)
          /\ last[p] = c \/ (last[p] = 0 /\ booted)
      <4>1. Awaited(p)
        BY <2>3 DEF Awaited
      <4>. QED  BY <3>1, <4>1 DEF Alternates
    <3>3. \A i \in 1 .. Len(answers'[p]) : answers'[p][i] = Seq0(c)
      BY <2>3, <3>1 DEF Alternates, InTurn
    <3>4. Seq0(c + 1) # Seq0(c)
      <4>1. c + 1 \in Nat /\ c + 1 - 1 = c
        BY <2>2
      <4>. QED  BY <4>1, Successive
    <3>5. current'[p] - 1 = c
      BY <2>1, <2>2
    <3>6. InTurn(p)' /\ ~Awaited(p)'
      <4>1. /\ \A i \in 1 .. Len(answers'[p]) :
                 answers'[p][i] = Seq0(current'[p] - 1)
            /\ \A i \in 1 .. Len(answers'[p]) : answers'[p][i] # Seq0(current'[p])
        BY <2>1, <3>3, <3>4, <3>5
      <4>. QED  BY <4>1 DEF InTurn, Awaited, Seq0
    <3>7. InPlay(p, c)'
      BY <1>0, <2>2, <3>2, PlayStep
    <3>8. InPlay(p, current[p] - 1)'
      BY <3>5, <3>7 DEF InPlay
    <3>9. last'[p] \in {0, current'[p] - 1, current'[p]} /\ (last'[p] = 0 => booted')
      BY <1>0, <2>2, <1>2, <3>2, <3>5 DEF Frame
    <3>. QED  BY <3>2, <3>6, <3>8, <3>9 DEF Alternates
  <2>6. ASSUME p \notin Patient
        PROVE  Answered(p, c) /\ Truthful(p)'
    <3>1. Truthful(p)
      BY <2>2, <2>6 DEF TruthAt
    <3>2. PICK n \in Frame(p) : Seq0(n) = Seq0(c) /\ Answered(p, n)
      BY <2>3, <3>1 DEF Truthful
    <3>3. n = c
      <4>1. n - 1 = c - 1
        BY <1>2, <2>6, <3>2, NumberOf
      <4>2. n \in Int /\ c \in Int
        BY <2>2 DEF Frame
      <4>. QED  BY <4>1, <4>2
    <3>4. Truthful(p)'
      BY <2>3, <2>4, <3>1 DEF Truthful
    <3>. QED  BY <3>2, <3>3, <3>4
  <2>7. TruthAt(p)'
    BY <1>0, <2>1, <2>2, <2>4, <2>5, <2>6 DEF TruthAt
  <2>. QED  BY <1>0, <2>7, TruthElsewhere
<1>. QED  BY <1>1, <1>2

\* What a peer that gives up is told does not depend on the frame it has reached.
LEMMA TruthPeerGiveUp ==
  ASSUME RecvInv, Truth, NEW p \in Port, PeerGiveUp(p)
  PROVE  Truth'
<1>0. /\ p \notin Patient /\ PortStep(p)
      /\ UNCHANGED <<answers, acked, delivered, last, booted>>
  BY DEF PeerGiveUp, app, PortStep
<1>1. TruthAt(p)
  BY DEF Truth
<1>2. TruthAt(p)'
  BY <1>0, <1>1 DEF TruthAt, Truthful, Answered, DroppedAtStart
<1>. QED  BY <1>0, <1>2, TruthElsewhere

\* A frame that layer 3 takes for a repetition is the one delivered last, or one
\* that the number it starts with makes it drop.
LEMMA RepeatedFrame ==
  ASSUME NumbersSuffice, RecvInv, Truth, NEW p \in Port, Busy(p),
         hdr[p] # 0, Repeated(p, hdr[p])
  PROVE  last[p] = hdr[p] \/ (last[p] = 0 /\ DroppedAtStart(hdr[p]))
<1> DEFINE n == hdr[p]
           c == current[p]
<1>1. /\ TruthAt(p) /\ n \in Frame(p) /\ n \in Nat /\ n <= c /\ c \in Nat
      /\ last[p] \in Nat /\ LastFrame[p] \in Nat
      /\ Seq0(n) = IF last[p] = 0 THEN SeqMod - 1 ELSE Seq0(last[p])
  BY PortFacts DEF OrderAt, NotOlder, Frame, Truth, Repeated
<1>2. CASE p \in Patient
  <2>1. Alternates(p)
    BY <1>1, <1>2 DEF TruthAt
  <2>2. n \in {c - 1, c}
    <3>1. c - 1 <= n
      BY <2>1 DEF Alternates, InPlay
    <3>. QED  BY <1>1, <3>1
  <2>3. Seq0(c) # Seq0(c - 1)
    BY <1>1, Successive
  <2>4. CASE last[p] # 0
    <3>1. last[p] \in {c - 1, c}
      BY <2>1, <2>4 DEF Alternates
    <3>. QED  BY <1>1, <2>2, <2>3, <2>4, <3>1
  <2>5. CASE last[p] = 0
    <3>1. Seq0(n) = SeqMod - 1
      BY <1>1, <2>5
    <3>2. booted
      <4> SUFFICES ASSUME ~booted
                   PROVE  FALSE
        OBVIOUS
      <4>1. c = 1
        BY <2>1, <2>5 DEF Alternates
      <4>2. n = 1
        BY <1>1, <4>1
      <4>. QED  BY <3>1, <4>2, FirstNumber
    <3>. QED  BY <2>5, <3>1, <3>2 DEF DroppedAtStart
  <2>. QED  BY <2>4, <2>5
<1>3. CASE p \notin Patient
  <2>1. Seq0(n) = n - 1 /\ n < SeqMod
    BY <1>1, <1>3, NumberOf
  <2>2. last[p] # 0
    BY <1>1, <2>1, RecvConstants
  <2>3. last[p] \in Frame(p)
    BY <2>2 DEF RecvInv, TypeOK
  <2>4. Seq0(last[p]) = last[p] - 1
    BY <1>3, <2>3, NumberOf
  <2>. QED  BY <1>1, <2>1, <2>2, <2>4
<1>. QED  BY <1>2, <1>3

\* The ACK of a data frame is sent when the frame is, or has been, delivered.
LEMMA TruthDataFrame ==
  ASSUME NumbersSuffice, RecvInv, Truth, NEW p \in Port, DataFrame(p)
  PROVE  Truth'
<1>n. PICK n \in Nat : n = hdr[p]
  BY PortFacts
<1>c. PICK c \in Nat : c = current[p]
  BY PortFacts
<1>. USE <1>n, <1>c
<1> DEFINE a == answers[p]
           b == answers'[p]
<1>0. /\ Busy(p) /\ n # 0 /\ PortStep(p)
      /\ answers' = [answers EXCEPT ![p] = Append(@, Seq0(n))]
      /\ UNCHANGED <<acked, current, booted>>
  BY DEF DataFrame, peer, Busy, PortStep, RecvTask
<1>1. /\ n \in Frame(p) /\ n \in Nat /\ n <= c /\ c \in Nat /\ TruthAt(p)
      /\ NotOlder(fifo[p], line[p], c, n)
  BY <1>0, PortFacts DEF OrderAt, NotOlder, Frame, Truth
<1>2. /\ Len(a) \in Nat /\ Len(b) = Len(a) + 1
      /\ \A i \in 1 .. Len(a) : b[i] = a[i]
      /\ b[Len(a) + 1] = Seq0(n)
  BY <1>0, <1>1, SeqTypes, AnswerSent
<1>3. /\ \A k : Answered(p, k) => Answered(p, k)'
      /\ Answered(p, n)'
      /\ last'[p] = n \/ (last'[p] = 0 /\ booted)
      /\ last'[p] # 0 => last'[p] \in delivered'[p]
  <2>1. CASE Repeated(p, n)
    <3>1. UNCHANGED <<delivered, last>>
      BY <2>1 DEF DataFrame, app
    <3>2. last[p] = n \/ (last[p] = 0 /\ DroppedAtStart(n))
      BY <1>0, <2>1, RepeatedFrame
    <3>3. last[p] # 0 => last[p] \in delivered[p]
      BY <1>1 DEF TruthAt
    <3>. QED  BY <1>0, <1>1, <3>1, <3>2, <3>3 DEF Answered, DroppedAtStart
  <2>2. CASE ~Repeated(p, n)
    <3>1. /\ delivered' = [delivered EXCEPT ![p] = @ \cup {n}]
          /\ last' = [last EXCEPT ![p] = n]
      BY <2>2 DEF DataFrame
    <3>2. delivered'[p] = delivered[p] \cup {n} /\ last'[p] = n
      BY <3>1 DEF RecvInv, Shapes
    <3>. QED  BY <1>0, <3>2 DEF Answered, DroppedAtStart
  <2>. QED  BY <2>1, <2>2
<1> HIDE DEF a, b
<1>4. ASSUME NEW i \in 1 .. Len(b)
      PROVE  (i \in 1 .. Len(a) /\ b[i] = a[i]) \/ (i = Len(a) + 1 /\ b[i] = Seq0(n))
  BY <1>2
<1>5. ASSUME p \in Patient
      PROVE  Alternates(p)'
  <2>1. Alternates(p)
    BY <1>1, <1>5 DEF TruthAt
  <2>2. n \in {c - 1, c}
    <3>1. c - 1 <= n
      BY <1>0, <2>1 DEF Alternates, InPlay
    <3>. QED  BY <1>1, <3>1
  <2>3. Awaited(p) => n = c
    <3>1. Awaited(p) => c <= n
      BY <1>0, <2>1 DEF Alternates, InPlay
    <3>. QED  BY <1>1, <3>1
  <2>4. Seq0(c) # Seq0(c - 1)
    BY <1>1, Successive
  <2>5. \A i \in 1 .. Len(a) : a[i] = Seq0(c) => Awaited(p)
    BY DEF Awaited, a
  <2>6. InTurn(p)'
    <3>1. \A i \in 1 .. Len(b) : b[i] \in {Seq0(c - 1), Seq0(c)}
      <4>1. \A i \in 1 .. Len(a) : a[i] \in {Seq0(c - 1), Seq0(c)}
        BY <2>1 DEF Alternates, InTurn, a
      <4>. QED  BY <1>4, <2>2, <4>1
    <3>2. ASSUME NEW i \in 1 .. Len(b), NEW j \in 1 .. Len(b), i < j, b[i] = Seq0(c)
          PROVE  b[j] = Seq0(c)
      <4>1. i \in 1 .. Len(a) /\ a[i] = Seq0(c)
        BY <1>2, <3>2
      <4>2. CASE j \in 1 .. Len(a) /\ b[j] = a[j]
        BY <2>1, <3>2, <4>1, <4>2 DEF Alternates, InTurn, a
      <4>3. CASE b[j] = Seq0(n)
        BY <2>3, <2>5, <4>1, <4>3
      <4>. QED  BY <1>4, <4>2, <4>3
    <3>. QED  BY <1>0, <3>1, <3>2 DEF InTurn, Seq0, b
  <2>7. InPlay(p, current[p] - 1)'
    <3>1. InPlay(p, c - 1) /\ c - 1 \in Nat
      BY <2>1, PortFacts DEF Alternates
    <3>2. InPlay(p, c - 1)'
      BY <1>0, <3>1, PlayStep
    <3>. QED  BY <1>0, <3>2 DEF InPlay
  <2>8. Awaited(p)' => n = c
    <3>1. ASSUME NEW i \in 1 .. Len(b), b[i] = Seq0(c)
          PROVE  n = c
      BY <1>4, <2>2, <2>3, <2>4, <2>5, <3>1
    <3>. QED  BY <1>0, <3>1 DEF Awaited, Seq0, b
  <2>9. n = c => InPlay(p, current[p])'
    <3>1. n = c => InPlay(p, c)
      BY <1>1 DEF InPlay
    <3>2. n = c => InPlay(p, c)'
      BY <1>0, <1>1, <3>1, PlayStep
    <3>. QED  BY <1>0, <3>2 DEF InPlay
  <2>10. n = c => Answered(p, current[p])'
    BY <1>0, <1>3 DEF Answered, DroppedAtStart
  <2>11. last'[p] \in {0, c - 1, c} /\ (last'[p] = 0 => booted)
    <3>1. n # 0
      BY <1>0
    <3>. QED  BY <1>3, <2>2, <3>1
  <2>. QED  BY <1>0, <1>3, <2>6, <2>7, <2>8, <2>9, <2>10, <2>11 DEF Alternates
<1>6. ASSUME p \notin Patient
      PROVE  Truthful(p)'
  <2>1. \A i \in 1 .. Len(a) : \E k \in Frame(p) : Seq0(k) = a[i] /\ Answered(p, k)
    BY <1>1, <1>6 DEF TruthAt, Truthful, a
  <2>2. \A i \in 1 .. Len(b) : \E k \in Frame(p) : Seq0(k) = b[i] /\ Answered(p, k)'
    BY <1>1, <1>3, <1>4, <2>1
  <2>. QED  BY <2>2 DEF Truthful, Seq0, Frame, b
<1>7. TruthAt(p)'
  BY <1>0, <1>1, <1>3, <1>5, <1>6 DEF TruthAt
<1>. QED  BY <1>0, <1>7, TruthElsewhere

\* A restart takes back no ACK.
LEMMA TruthBoot ==
  ASSUME RecvInv, Truth, Boot
  PROVE  Truth'
<1>0. /\ booted' = TRUE /\ last' = [q \in Port |-> 0]
      /\ fifo' = [q \in Port |-> <<>>] /\ hdr' = [q \in Port |-> 0]
      /\ UNCHANGED <<line, answers, acked, current, delivered>>
  BY DEF Boot, peer
<1> SUFFICES ASSUME NEW q \in Port
             PROVE  TruthAt(q)'
  BY DEF Truth
<1>1. TruthAt(q) /\ last'[q] = 0 /\ fifo'[q] = <<>> /\ hdr'[q] = 0
  BY <1>0 DEF Truth
<1>2. \A k : Answered(q, k) => Answered(q, k)'
  BY <1>0 DEF Answered, DroppedAtStart
<1>3. current[q] \in Nat /\ current[q] - 1 \in Nat
  BY PortFacts
<1>4. \A k \in Nat : NotOlder(fifo[q], line[q], current[q], k) =>
                       NotOlder(<<>>, line[q], current[q], k)
  BY PortFacts, StreamClear DEF OrderAt
<1>5. /\ InPlay(q, current[q] - 1) => InPlay(q, current[q] - 1)'
      /\ InPlay(q, current[q]) => InPlay(q, current[q])'
  BY <1>0, <1>1, <1>3, <1>4 DEF InPlay
<1>6. ASSUME q \in Patient
      PROVE  Alternates(q)'
  <2>1. Alternates(q)
    BY <1>1, <1>6 DEF TruthAt
  <2>2. InTurn(q)' /\ (Awaited(q)' => Awaited(q))
    BY <1>0, <2>1 DEF Alternates, InTurn, Awaited, Seq0
  <2>3. Answered(q, current[q]) => Answered(q, current[q])'
    BY <1>0 DEF Answered, DroppedAtStart
  <2>. QED  BY <1>0, <1>1, <1>5, <2>1, <2>2, <2>3 DEF Alternates
<1>7. ASSUME q \notin Patient
      PROVE  Truthful(q)'
  BY <1>0, <1>1, <1>2, <1>7 DEF TruthAt, Truthful, Seq0, Frame
<1>. QED  BY <1>0, <1>1, <1>2, <1>6, <1>7 DEF TruthAt

\* It is inductive, relative to the order of the frames.
LEMMA TruthInductive ==
  ASSUME NumbersSuffice
  PROVE  /\ Init => Truth
         /\ RecvInv /\ Truth /\ [Next]_vars => Truth'
<1>1. ASSUME Init
      PROVE  Truth
  <2> SUFFICES ASSUME NEW p \in Port
               PROVE  TruthAt(p)
    BY DEF Truth
  <2>1. /\ answers[p] = <<>> /\ acked[p] = {} /\ last[p] = 0 /\ current[p] = 1
        /\ fifo[p] = <<>> /\ line[p] = <<>> /\ hdr[p] = 0
    BY <1>1 DEF Init
  <2>2. InPlay(p, current[p] - 1)
    BY <2>1 DEF InPlay, NotOlder, NotBelow
  <2>. QED  BY <2>1, <2>2 DEF TruthAt, Alternates, InTurn, Awaited, Truthful
<1>2. ASSUME RecvInv, Truth, [Next]_vars
      PROVE  Truth'
  <2>. USE <1>2
  <2>1. ASSUME NEW p \in Port,
               \/ PeerSend(p) \/ PeerSendCmd(p) \/ Arrive(p) \/ Garble(p)
               \/ Seek(p) \/ Header(p) \/ TestLength(p) \/ RecvByte(p)
               \/ WrongFrame(p) \/ CmdFrame(p)
        PROVE  Truth'
    <3>1. UNCHANGED <<answers, current, acked, delivered, last, booted>>
      BY <2>1 DEF PeerSend, PeerSendCmd, Arrive, Garble, Seek, Header, TestLength,
                  RecvByte, WrongFrame, CmdFrame, app, peer
    <3>2. PortStep(p)
      BY <2>1 DEF PortStep, RecvTask
    <3>. QED  BY <3>1, <3>2, TruthQuiet
  <2>2. ASSUME NEW p \in Port, LoseAck(p)
        PROVE  Truth'
    <3>1. /\ answers[p] # <<>> /\ answers' = [answers EXCEPT ![p] = Tail(@)]
          /\ UNCHANGED <<current, acked, delivered, last, booted>>
          /\ PortStep(p)
      BY <2>2 DEF LoseAck, app, peer, PortStep
    <3>. QED  BY <3>1, TruthTail
  <2>3. ASSUME NEW p \in Port, PeerAck(p) \/ PeerGiveUp(p) \/ DataFrame(p)
        PROVE  Truth'
    BY <2>3, TruthPeerAck, TruthPeerGiveUp, TruthDataFrame
  <2>4. CASE Boot
    BY <2>4, TruthBoot
  <2>5. CASE UNCHANGED vars
    <3>1. UNCHANGED <<line, fifo, recvCount, hdr, pc, answers, current, acked,
                      delivered, last, booted>>
      BY <2>5 DEF vars, receiver, peer, app
    <3>. QED  BY <3>1 DEF Truth, TruthAt, Alternates, InTurn, Truthful, Awaited, InPlay,
                          Busy, Answered, DroppedAtStart
  <2>. QED
    BY <2>1, <2>2, <2>3, <2>4, <2>5 DEF Next, RecvTask
<1>. QED  BY <1>1, <1>2

\* A peer that has an ACK for a frame can forget it: OnRecvFrame acknowledges
\* only what it hands to the application or has handed to it, except the frame
\* that the first number of u8SeqRemote after a start makes it drop.  A peer that
\* waits for each ACK may have any number of frames, although their numbers wrap.
THEOREM AckedFramesDelivered ==
  ASSUME NumbersSuffice
  PROVE  Spec => []AckMeansDelivered
<1>1. Truth => AckMeansDelivered
  BY DEF Truth, TruthAt, Answered, AckMeansDelivered
<1>2. Init => RecvInv /\ Truth
  BY RecvInvInductive, TruthInductive
<1>3. RecvInv /\ Truth /\ [Next]_vars => (RecvInv /\ Truth)'
  BY RecvInvInductive, TruthInductive
<1>. QED  BY <1>1, <1>2, <1>3, PTL DEF Spec
=============================================================================
