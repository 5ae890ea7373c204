--------------------------- MODULE RingFileProofs ---------------------------
(***************************************************************************)
(* Proofs about RingFile, for every ring size, every index width above it, *)
(* every set of records, and with or without card failures and power loss. *)
(***************************************************************************)
EXTENDS RingFile, SequenceTheorems, TLAPS

-----------------------------------------------------------------------------
(***************************************************************************)
(* Remainders, as the ring uses them for indices.                          *)
(***************************************************************************)

\* A remainder by M is a slot number of a ring of M slots.
LEMMA ModRange ==
  ASSUME NEW M \in Nat \ {0}, NEW a \in Nat
  PROVE  a % M \in 0 .. M - 1
OBVIOUS

\* Quotient and remainder determine the number.
LEMMA ModDef ==
  ASSUME NEW M \in Nat \ {0}, NEW a \in Nat
  PROVE  a \div M \in Nat /\ a = M * (a \div M) + (a % M)
OBVIOUS

\* The number determines the remainder.
LEMMA ModUnique ==
  ASSUME NEW M \in Nat \ {0}, NEW k \in Nat, NEW r \in 0 .. M - 1
  PROVE  (M * k + r) % M = r
OBVIOUS

\* Below M the remainder is the number itself.
LEMMA ModSmall ==
  ASSUME NEW M \in Nat \ {0}, NEW a \in 0 .. M - 1
  PROVE  a % M = a
OBVIOUS

\* Between M and 2M the ring has been passed once.
LEMMA ModWrap ==
  ASSUME NEW M \in Nat \ {0}, NEW a \in M .. 2 * M - 1
  PROVE  a % M = a - M
OBVIOUS

\* A slot number and a count of at most one turn pass the end at most once.
LEMMA ModAdd ==
  ASSUME NEW M \in Nat \ {0}, NEW p \in 0 .. M - 1, NEW i \in 0 .. M
  PROVE  (p + i) % M = IF p + i < M THEN p + i ELSE p + i - M
<1>1. CASE p + i < M
  <2>1. p + i \in 0 .. M - 1
    BY <1>1
  <2>. QED  BY <1>1, <2>1, ModSmall
<1>2. CASE p + i >= M
  <2>1. p + i \in M .. 2 * M - 1
    BY <1>2
  <2>2. ~(p + i < M)
    BY <1>2
  <2>. QED  BY <2>1, <2>2, ModWrap
<1>3. p + i < M \/ p + i >= M
  OBVIOUS
<1>. QED  BY <1>1, <1>2, <1>3, Zenon

\* Incrementing an index moves its slot one step around the ring.
LEMMA ModSucc ==
  ASSUME NEW M \in Nat \ {0}, NEW a \in Nat
  PROVE  (a + 1) % M = IF a % M = M - 1 THEN 0 ELSE (a % M) + 1
<1> DEFINE k == a \div M
           r == a % M
<1>1. k \in Nat /\ a = M * k + r /\ r \in 0 .. M - 1
  BY ModDef, ModRange
<1> HIDE DEF k, r
<1>2. CASE r = M - 1
  <2>1. a + 1 = M * (k + 1) + 0
    BY <1>1, <1>2
  <2>2. (M * (k + 1) + 0) % M = 0
    BY <1>1, ModUnique
  <2>. QED  BY <1>2, <2>1, <2>2 DEF r
<1>3. CASE r # M - 1
  <2>1. a + 1 = M * k + (r + 1) /\ r + 1 \in 0 .. M - 1
    BY <1>1, <1>3
  <2>2. (M * k + (r + 1)) % M = r + 1
    BY <1>1, <2>1, ModUnique
  <2>. QED  BY <1>3, <2>1, <2>2 DEF r
<1>. QED  BY <1>2, <1>3

\* Two indexes on the same slot stay on the same slot when both advance.
LEMMA ModStep ==
  ASSUME NEW M \in Nat \ {0}, NEW a \in Nat, NEW b \in Nat, a % M = b % M
  PROVE  (a + 1) % M = (b + 1) % M
BY ModSucc

-----------------------------------------------------------------------------
(***************************************************************************)
(* What the header operations do to a header.                              *)
(***************************************************************************)

\* Counting a push keeps the header well typed.
LEMMA PushedType ==
  ASSUME NEW h \in Header
  PROVE  Pushed(h) \in Header
<1>1. IndexMod \in Nat \ {0}
  BY IndexAssumption, CountAssumption
<1>2. h.push + 1 \in Nat /\ h.count + 1 \in Nat
  BY <1>1 DEF Header
<1>3. /\ (h.push + 1) % IndexMod \in 0 .. IndexMod - 1
      /\ (h.count + 1) % IndexMod \in 0 .. IndexMod - 1
  BY <1>1, <1>2, ModRange
<1>. QED  BY <1>3 DEF Pushed, Header

\* Counting a pop keeps it well typed, when there was a record to pop.
LEMMA PoppedType ==
  ASSUME NEW h \in Header, Readable(h)
  PROVE  Popped(h) \in Header
<1>1. h.max = MaxCount /\ h.pop \in Nat /\ h.count \in Nat \ {0}
  BY DEF Header, Readable, Slots
<1>2. (h.pop + 1) % h.max \in Slots
  BY <1>1, ModRange, CountAssumption DEF Slots
<1>3. h.count - 1 \in 0 .. IndexMod - 1
  BY <1>1, CountAssumption, IndexAssumption DEF Header
<1>. QED  BY <1>2, <1>3 DEF Popped, Header

\* The slot a push writes to is a slot of the file.
LEMMA PushSlotType ==
  ASSUME NEW h \in Header
  PROVE  PushSlot(h) \in Slots
<1>1. CASE h.max = 0
  BY <1>1, CountAssumption DEF PushSlot, Slots
<1>2. CASE h.max # 0
  <2>1. h.max = MaxCount /\ h.push \in Nat
    BY <1>2, IndexAssumption DEF Header
  <2>2. h.push % MaxCount \in 0 .. MaxCount - 1
    BY <2>1, ModRange, CountAssumption
  <2>. QED  BY <1>2, <2>1, <2>2 DEF PushSlot, Slots
<1>. QED  BY <1>1, <1>2

\* So are the slots a header counts.
LEMMA AtType ==
  ASSUME NEW h \in Header, h.max # 0, NEW i \in Nat
  PROVE  At(h, i) \in Slots
<1>1. h.max = MaxCount /\ h.pop + i \in Nat
  BY CountAssumption DEF Header, Slots
<1>2. (h.pop + i) % MaxCount \in 0 .. MaxCount - 1
  BY <1>1, ModRange, CountAssumption
<1>. QED  BY <1>1, <1>2 DEF At, Slots

\* A push that does not overflow the index keeps the counters consistent.
LEMMA PushedOK ==
  ASSUME NEW h \in Header, HeaderOK(h), ~Full(h), Pushed(h).push # 0
  PROVE  HeaderOK(Pushed(h))
<1> SUFFICES ASSUME h.max # 0
             PROVE  HeaderOK(Pushed(h))
  BY DEF HeaderOK, Pushed, Header
<1>1. /\ h.max = MaxCount /\ h.pop \in Nat /\ h.push \in Nat /\ h.count \in Nat
      /\ h.count + 1 <= MaxCount
      /\ h.push \in 0 .. IndexMod - 1
  BY CountAssumption, IndexAssumption DEF Header, Slots, Full
<1>2. (h.count + 1) % IndexMod = h.count + 1
  BY <1>1, ModSmall, IndexAssumption, CountAssumption
<1>3. Pushed(h).push = (h.push + 1) % IndexMod
  BY DEF Pushed, Header
<1>4. (h.push + 1) % IndexMod = h.push + 1
  <2>1. IndexMod \in Nat \ {0} /\ IndexMod \in IndexMod .. 2 * IndexMod - 1
    BY IndexAssumption, CountAssumption
  <2>2. IndexMod % IndexMod = 0
    BY <2>1, ModWrap
  <2>3. h.push + 1 # IndexMod
    BY <1>3, <2>2
  <2>4. h.push + 1 \in 0 .. IndexMod - 1
    BY <1>1, <2>1, <2>3
  <2>. QED  BY <2>1, <2>4, ModSmall
<1>5. (h.push + 1) % MaxCount = (h.pop + h.count + 1) % MaxCount
  BY <1>1, ModStep, CountAssumption DEF HeaderOK, At
<1>6. /\ Pushed(h).count = h.count + 1 /\ Pushed(h).push = h.push + 1
      /\ Pushed(h).pop = h.pop /\ Pushed(h).max = h.max
  BY <1>2, <1>3, <1>4 DEF Pushed, Header
<1>. QED  BY <1>1, <1>5, <1>6 DEF HeaderOK, At

\* A pop keeps them consistent.
LEMMA PoppedOK ==
  ASSUME NEW h \in Header, HeaderOK(h), Readable(h)
  PROVE  HeaderOK(Popped(h))
<1>1. /\ h.max = MaxCount /\ h.pop \in 0 .. MaxCount - 1
      /\ h.count \in 1 .. MaxCount /\ h.push \in Nat
  BY CountAssumption, IndexAssumption DEF Header, Slots, Readable, HeaderOK
<1>2. /\ Popped(h).pop = (h.pop + 1) % MaxCount
      /\ Popped(h).count = h.count - 1
      /\ Popped(h).max = MaxCount /\ Popped(h).push = h.push
  BY <1>1 DEF Popped, Header
<1>3. (h.pop + h.count) % MaxCount = (((h.pop + 1) % MaxCount) + (h.count - 1)) % MaxCount
  <2>1. (h.pop + 1) % MaxCount = IF h.pop + 1 < MaxCount THEN h.pop + 1 ELSE 0
    <3>1. (h.pop + 1) % MaxCount =
            IF h.pop + 1 < MaxCount THEN h.pop + 1 ELSE h.pop + 1 - MaxCount
      <4>1. 1 \in 0 .. MaxCount
        BY CountAssumption
      <4>. QED  BY <1>1, <4>1, ModAdd, CountAssumption
    <3>. QED  BY <1>1, <3>1, CountAssumption
  <2>2. CASE h.pop + 1 < MaxCount
    BY <1>1, <2>1, <2>2
  <2>3. CASE h.pop + 1 = MaxCount
    <3>1. (h.pop + h.count) % MaxCount = h.count - 1
      <4>1. h.count \in 0 .. MaxCount
        BY <1>1
      <4>2. (h.pop + h.count) % MaxCount =
              IF h.pop + h.count < MaxCount THEN h.pop + h.count
                                            ELSE h.pop + h.count - MaxCount
        BY <1>1, <4>1, ModAdd, CountAssumption
      <4>. QED  BY <1>1, <2>3, <4>2, CountAssumption
    <3>2. h.count - 1 \in 0 .. MaxCount - 1
      BY <1>1, CountAssumption
    <3>3. (h.count - 1) % MaxCount = h.count - 1
      BY <3>2, ModSmall, CountAssumption
    <3>4. ((h.pop + 1) % MaxCount) + (h.count - 1) = h.count - 1
      BY <1>1, <2>1, <2>3, CountAssumption
    <3>. QED  BY <3>1, <3>3, <3>4
  <2>4. h.pop + 1 < MaxCount \/ h.pop + 1 = MaxCount
    BY <1>1, CountAssumption
  <2>. QED  BY <2>2, <2>3, <2>4, Zenon
<1>4. h.push % MaxCount = (h.pop + h.count) % MaxCount
  BY <1>1, CountAssumption DEF HeaderOK, At
<1>5. h.count - 1 <= MaxCount
  BY <1>1, CountAssumption
<1>6. (h.pop + h.count) % MaxCount = (Popped(h).pop + Popped(h).count) % Popped(h).max
  BY <1>2, <1>3
<1>. QED  BY <1>2, <1>4, <1>5, <1>6 DEF HeaderOK, At

\* A header that counts nothing is consistent.
LEMMA EmptyOK ==
  /\ HeaderOK(ZeroHeader)
  /\ HeaderOK(FreshHeader)
  /\ \A h \in Header : HeaderOK(Emptied(h))
<1>1. 0 % MaxCount = 0
  BY ModSmall, CountAssumption
<1>. QED
  BY <1>1, CountAssumption DEF HeaderOK, ZeroHeader, FreshHeader, Emptied, At, Header

\* The slot past the last counted record is not one of the counted ones.
LEMMA PushSlotFree ==
  ASSUME NEW h \in Header, HeaderOK(h), ~Full(h)
  PROVE  PushSlot(h) \notin Counted(h)
<1>1. CASE h.max = 0
  BY <1>1 DEF Counted
<1>2. CASE h.max # 0
  <2> SUFFICES ASSUME NEW i \in 0 .. h.count - 1,
                      (h.pop + h.count) % MaxCount = (h.pop + i) % MaxCount
               PROVE  FALSE
    BY <1>2, CountAssumption DEF Counted, PushSlot, HeaderOK, At, Header
  <2>1. /\ h.pop \in 0 .. MaxCount - 1 /\ h.count \in 1 .. MaxCount - 1
        /\ h.count \in 0 .. MaxCount
        /\ i \in 0 .. MaxCount /\ i < h.count
    BY <1>2, CountAssumption, IndexAssumption DEF Header, Slots, Full, HeaderOK
  <2>2. (h.pop + i) % MaxCount =
          IF h.pop + i < MaxCount THEN h.pop + i ELSE h.pop + i - MaxCount
    BY <2>1, ModAdd, CountAssumption
  <2>3. (h.pop + h.count) % MaxCount =
          IF h.pop + h.count < MaxCount THEN h.pop + h.count
                                        ELSE h.pop + h.count - MaxCount
    BY <2>1, ModAdd, CountAssumption
  <2>. QED  BY <2>1, <2>2, <2>3, CountAssumption
<1>. QED  BY <1>1, <1>2

-----------------------------------------------------------------------------
(***************************************************************************)
(* The inductive invariant.  TypeOK and HeadersConsistent need to know     *)
(* that a call in progress has passed the test it began with: a push has   *)
(* room to count its record, a pop has one to take away.                   *)
(***************************************************************************)
PhaseOK ==
  /\ pc \in {"off", "create"} => ram = ZeroHeader
  /\ pc \in {"push", "pushfail"} => ~Full(ram) /\ data \in Record
  /\ pc \in {"pop", "popfail"} => Readable(ram)

RingInv == TypeOK /\ PhaseOK /\ HeadersConsistent

\* The headers a step can install are well typed.
LEMMA HeaderTypes ==
  /\ ZeroHeader \in Header
  /\ FreshHeader \in Header
  /\ \A h \in Header : Emptied(h) \in Header
<1>1. 0 \in Slots /\ 0 \in 0 .. IndexMod - 1
  BY CountAssumption, IndexAssumption DEF Slots
<1>. QED  BY <1>1 DEF ZeroHeader, FreshHeader, Emptied, Header

\* A partial write leaves every slot a slot value, and touches one slot.
LEMMA PartialType ==
  ASSUME NEW s \in Slots, NEW v \in SlotValue, slot \in [Slots -> SlotValue],
         Partial(s, v)
  PROVE  /\ slot' \in [Slots -> SlotValue]
         /\ \A t \in Slots : t # s => slot'[t] = slot[t]
         /\ slot'[s] \in {slot[s], Bad, v}
<1>1. PICK w \in {slot[s], Bad, v} : slot' = [slot EXCEPT ![s] = w]
  BY DEF Partial
<1>2. w \in SlotValue
  BY <1>1 DEF SlotValue
<1>. QED  BY <1>1, <1>2

\* The invariant is inductive.
LEMMA RingInvInductive ==
  /\ Init => RingInv
  /\ RingInv /\ [Next]_vars => RingInv'
<1>1. ASSUME Init
      PROVE  RingInv
  <2>1. TypeOK
    <3>1. ram \in Header /\ disk \in Header
      BY <1>1, HeaderTypes DEF Init
    <3>2. slot \in [Slots -> SlotValue] /\ data \in SlotValue
      BY <1>1 DEF Init, SlotValue
    <3>3. len \in 0 .. MaxCount
      BY <1>1, CountAssumption DEF Init
    <3>. QED  BY <1>1, <3>1, <3>2, <3>3 DEF Init, TypeOK
  <2>2. PhaseOK
    BY <1>1 DEF Init, PhaseOK
  <2>3. HeadersConsistent
    BY <1>1, EmptyOK DEF Init, HeadersConsistent
  <2>. QED  BY <2>1, <2>2, <2>3 DEF RingInv
<1>2. ASSUME RingInv, [Next]_vars
      PROVE  RingInv'
  <2>. USE <1>2 DEF RingInv
  <2>1. CASE InitOpen
    <3>1. TypeOK'
      BY <2>1 DEF InitOpen, TypeOK, history
    <3>2. PhaseOK'
      BY <2>1 DEF InitOpen, PhaseOK
    <3>3. HeadersConsistent'
      BY <2>1 DEF InitOpen, HeadersConsistent, history
    <3>. QED  BY <3>1, <3>2, <3>3
  <2>2. CASE InitFail
    <3>1. TypeOK'
      BY <2>2 DEF InitFail, TypeOK, table, history
    <3>2. PhaseOK'
      BY <2>2 DEF InitFail, PhaseOK
    <3>3. HeadersConsistent'
      BY <2>2 DEF InitFail, HeadersConsistent, table, history
    <3>. QED  BY <3>1, <3>2, <3>3
  <2>3. CASE CreateNew
    <3>1. TypeOK'
      BY <2>3, CountAssumption DEF CreateNew, TypeOK, history
    <3>2. PhaseOK'
      BY <2>3 DEF CreateNew, PhaseOK
    <3>3. HeadersConsistent'
      BY <2>3 DEF CreateNew, HeadersConsistent, history
    <3>. QED  BY <3>1, <3>2, <3>3
  <2>4. ASSUME NEW n \in 0 .. MaxCount, NEW h \in {FreshHeader, ZeroHeader},
               CreateDone(n, h)
        PROVE  RingInv'
    <3>1. TypeOK'
      BY <2>4, HeaderTypes DEF CreateDone, TypeOK, history, SlotValue
    <3>2. PhaseOK'
      BY <2>4 DEF CreateDone, PhaseOK
    <3>3. HeadersConsistent'
      BY <2>4, EmptyOK DEF CreateDone, HeadersConsistent
    <3>. QED  BY <3>1, <3>2, <3>3
  <2>5. ASSUME NEW r \in Record, PushFull(r)
        PROVE  RingInv'
    <3>1. TypeOK'
      BY <2>5 DEF PushFull, TypeOK, table
    <3>2. PhaseOK'
      BY <2>5 DEF PushFull, PhaseOK, table
    <3>3. HeadersConsistent'
      BY <2>5 DEF PushFull, HeadersConsistent, table
    <3>. QED  BY <3>1, <3>2, <3>3
  <2>6. ASSUME NEW r \in Record, PushFail(r)
        PROVE  RingInv'
    <3>1. slot' \in [Slots -> SlotValue]
      BY <2>6, PartialType, PushSlotType DEF PushFail, TypeOK, SlotValue
    <3>2. TypeOK'
      BY <2>6, <3>1 DEF PushFail, TypeOK
    <3>3. PhaseOK'
      BY <2>6 DEF PushFail, PhaseOK
    <3>4. HeadersConsistent'
      BY <2>6 DEF PushFail, HeadersConsistent
    <3>. QED  BY <3>2, <3>3, <3>4
  <2>7. ASSUME NEW r \in Record, PushRecord(r)
        PROVE  RingInv'
    <3>1. slot' \in [Slots -> SlotValue]
      <4>1. PushSlot(ram) \in Slots
        BY PushSlotType DEF TypeOK
      <4>2. CASE Partial(PushSlot(ram), r)
        BY <4>1, <4>2, PartialType DEF TypeOK, SlotValue
      <4>3. CASE \E v \in {r, Bad} : slot' = [slot EXCEPT ![PushSlot(ram)] = v]
        BY <4>1, <4>3 DEF TypeOK, SlotValue
      <4>. QED  BY <2>7, <4>2, <4>3 DEF PushRecord
    <3>2. TypeOK'
      BY <2>7, <3>1 DEF PushRecord, TypeOK, SlotValue
    <3>3. PhaseOK'
      BY <2>7 DEF PushRecord, PhaseOK
    <3>4. HeadersConsistent'
      BY <2>7 DEF PushRecord, HeadersConsistent
    <3>. QED  BY <3>2, <3>3, <3>4
  <2>8. ASSUME NEW flushed \in BOOLEAN, NEW ret \in BOOLEAN,
               PushHeader(flushed, ret)
        PROVE  RingInv'
    <3>1. /\ Pushed(ram) \in Header
          /\ PushSlot(ram) \in Slots
      BY PushedType, PushSlotType DEF TypeOK
    <3>2. slot' \in [Slots -> SlotValue]
      BY <2>8, <3>1 DEF PushHeader, TypeOK, SlotValue
    <3>3. len' \in 0 .. MaxCount
      BY <2>8, <3>1, CountAssumption DEF PushHeader, TypeOK, Slots
    <3>4. data \in Record
      BY <2>8 DEF PushHeader, PhaseOK
    <3>5. TypeOK'
      BY <2>8, <3>1, <3>2, <3>3, <3>4 DEF PushHeader, TypeOK, SlotValue
    <3>6. PhaseOK'
      BY <2>8 DEF PushHeader, PhaseOK
    <3>7. HeadersConsistent'
      <4> SUFFICES ASSUME ~wrapped'
                   PROVE  HeaderOK(ram') /\ HeaderOK(disk')
        BY DEF HeadersConsistent
      <4>1. ~wrapped /\ Pushed(ram).push # 0
        BY <2>8 DEF PushHeader, TypeOK
      <4>2. HeaderOK(Pushed(ram))
        BY <2>8, <4>1, PushedOK DEF PushHeader, PhaseOK, HeadersConsistent, TypeOK
      <4>. QED  BY <2>8, <4>1, <4>2 DEF PushHeader, HeadersConsistent
    <3>. QED  BY <3>5, <3>6, <3>7
  <2>9. CASE PopFail
    <3>1. ram.pop \in Slots /\ Bad \in SlotValue
      BY DEF TypeOK, Header, SlotValue
    <3>2. slot' \in [Slots -> SlotValue]
      BY <2>9, <3>1, PartialType DEF PopFail, TypeOK
    <3>3. TypeOK'
      BY <2>9, <3>2 DEF PopFail, TypeOK, history
    <3>4. PhaseOK'
      BY <2>9 DEF PopFail, PhaseOK
    <3>5. HeadersConsistent'
      BY <2>9 DEF PopFail, HeadersConsistent, history
    <3>. QED  BY <3>3, <3>4, <3>5
  <2>10. CASE PopErase
    <3>1. ram.pop \in Slots /\ Bad \in SlotValue
      BY DEF TypeOK, Header, SlotValue
    <3>2. slot' \in [Slots -> SlotValue]
      <4>1. CASE Partial(ram.pop, Bad)
        BY <3>1, <4>1, PartialType DEF TypeOK
      <4>2. CASE slot' = [slot EXCEPT ![ram.pop] = Bad]
        BY <3>1, <4>2 DEF TypeOK
      <4>. QED  BY <2>10, <4>1, <4>2 DEF PopErase
    <3>3. TypeOK'
      BY <2>10, <3>1, <3>2 DEF PopErase, TypeOK, history
    <3>4. PhaseOK'
      BY <2>10 DEF PopErase, PhaseOK
    <3>5. HeadersConsistent'
      BY <2>10 DEF PopErase, HeadersConsistent, history
    <3>. QED  BY <3>3, <3>4, <3>5
  <2>11. ASSUME NEW flushed \in BOOLEAN, NEW ret \in BOOLEAN,
                PopHeader(flushed, ret)
         PROVE  RingInv'
    <3>1. Readable(ram)
      BY <2>11 DEF PopHeader, PhaseOK
    <3>2. Popped(ram) \in Header
      BY <3>1, PoppedType DEF TypeOK
    <3>3. TypeOK'
      BY <2>11, <3>2 DEF PopHeader, TypeOK, SlotValue
    <3>4. PhaseOK'
      BY <2>11 DEF PopHeader, PhaseOK
    <3>5. HeadersConsistent'
      BY <2>11, <3>1, PoppedOK DEF PopHeader, HeadersConsistent, TypeOK
    <3>. QED  BY <3>3, <3>4, <3>5
  <2>12. ASSUME NEW flushed \in BOOLEAN, Flush(flushed)
         PROVE  RingInv'
    <3>1. TypeOK'
      BY <2>12, HeaderTypes DEF Flush, TypeOK, history
    <3>2. PhaseOK'
      BY <2>12 DEF Flush, PhaseOK
    <3>3. HeadersConsistent'
      BY <2>12, EmptyOK DEF Flush, HeadersConsistent, TypeOK, history
    <3>. QED  BY <3>1, <3>2, <3>3
  <2>13. CASE LosePower
    <3>1. TypeOK'
      BY <2>13, HeaderTypes DEF LosePower, TypeOK, history, SlotValue
    <3>2. PhaseOK'
      BY <2>13 DEF LosePower, PhaseOK
    <3>3. HeadersConsistent'
      BY <2>13, EmptyOK DEF LosePower, HeadersConsistent, history
    <3>. QED  BY <3>1, <3>2, <3>3
  <2>14. CASE UNCHANGED vars
    BY <2>14 DEF vars, TypeOK, PhaseOK, HeadersConsistent
  <2>. QED
    BY <2>1, <2>2, <2>3, <2>4, <2>5, <2>6, <2>7, <2>8, <2>9, <2>10, <2>11,
       <2>12, <2>13, <2>14 DEF Next
<1>. QED  BY <1>1, <1>2

\* Every reachable state satisfies the invariant.
THEOREM RingInvariant == Spec => []RingInv
BY RingInvInductive, PTL DEF Spec

\* Type correctness of ring_file.c's state: every header the code can put in
\* RAM or on the card indexes slots of the file.
THEOREM TypeCorrect == Spec => []TypeOK
<1>1. RingInv => TypeOK
  BY DEF RingInv
<1>. QED  BY <1>1, RingInvariant, PTL

\* The counters of both headers describe one ring until the 16-bit push index
\* of ring_file_push_back overflows, whatever fails and whenever power is lost.
THEOREM HeadersAlwaysConsistent == Spec => []HeadersConsistent
<1>1. RingInv => HeadersConsistent
  BY DEF RingInv
<1>. QED  BY <1>1, RingInvariant, PTL

-----------------------------------------------------------------------------
\* A push never writes over a record the table still counts: its slot is the
\* one past the last counted record, and the ring is not full.
THEOREM PushNeverOverwrites == Spec => PushSparesCounted
<1>1. ASSUME RingInv, [Next]_vars, used' # used, ~wrapped,
             NEW s \in Counted(ram)
      PROVE  slot'[s] = slot[s]
  <2>. USE <1>1 DEF RingInv
  <2>1. ram \in Header /\ HeaderOK(ram) /\ slot \in [Slots -> SlotValue]
    BY DEF TypeOK, HeadersConsistent
  <2>2. s \in Slots
    BY <2>1, AtType, IndexAssumption DEF Counted, Header
  <2>3. ASSUME NEW r \in Record, PushFull(r) \/ PushFail(r) \/ PushRecord(r)
        PROVE  slot'[s] = slot[s]
    <3>1. CASE PushFull(r)
      BY <3>1 DEF PushFull, table
    <3>2. ASSUME ~Full(ram)
          PROVE  PushSlot(ram) \in Slots /\ s # PushSlot(ram)
      BY <2>1, <3>2, PushSlotType, PushSlotFree
    <3>3. CASE PushFail(r)
      BY <2>1, <2>2, <3>2, <3>3, PartialType DEF PushFail, SlotValue
    <3>4. CASE PushRecord(r)
      <4>1. CASE Partial(PushSlot(ram), r)
        BY <2>1, <2>2, <3>2, <3>4, <4>1, PartialType DEF PushRecord, SlotValue
      <4>2. CASE \E v \in {r, Bad} : slot' = [slot EXCEPT ![PushSlot(ram)] = v]
        BY <2>1, <2>2, <3>2, <3>4, <4>2 DEF PushRecord
      <4>. QED  BY <3>4, <4>1, <4>2 DEF PushRecord
    <3>. QED  BY <2>3, <3>1, <3>3, <3>4
  <2>4. \E r \in Record : PushFull(r) \/ PushFail(r) \/ PushRecord(r)
    BY DEF Next, vars, InitOpen, InitFail, CreateNew, CreateDone, PushHeader,
           PopFail, PopErase, PopHeader, Flush, LosePower, history
  <2>. QED  BY <2>3, <2>4
<1>2. RingInv /\ [Next]_vars =>
        [used' # used /\ ~wrapped => \A s \in Counted(ram) : slot'[s] = slot[s]]_vars
  BY <1>1
<1>. QED  BY <1>2, RingInvariant, PTL DEF Spec, PushSparesCounted

-----------------------------------------------------------------------------
(***************************************************************************)
(* A delivered record is nowhere in the file.  The induction needs that a  *)
(* record is in one slot at most, and only after it was handed to          *)
(* push_back: erasing the popped slot then removes it for good.            *)
(***************************************************************************)
DeliveryInv ==
  /\ \A s, t \in Slots : slot[s] \in Record /\ slot[s] = slot[t] => s = t
  /\ \A s \in Slots : slot[s] \in Record => slot[s] \in used /\ slot[s] \notin gone
  /\ gone \subseteq used
  /\ pc = "pop" /\ data \in Record =>
       data \in used /\ \A s \in Slots : slot[s] # data

\* Writing r, fresh, or no record at all into one slot keeps the file's part.
LEMMA SlotUpdate ==
  ASSUME RingInv, DeliveryInv, NEW s \in Slots, NEW v \in SlotValue,
         slot' = [slot EXCEPT ![s] = v],
         gone' = gone, used \subseteq used',
         v \in Record => v = slot[s] \/ (v \notin used /\ v \in used')
  PROVE  /\ \A i, t \in Slots : slot'[i] \in Record /\ slot'[i] = slot'[t] => i = t
         /\ \A t \in Slots : slot'[t] \in Record => slot'[t] \in used' /\ slot'[t] \notin gone'
         /\ gone' \subseteq used'
<1>1. slot \in [Slots -> SlotValue]
  BY DEF RingInv, TypeOK
<1>2. slot'[s] = v /\ \A t \in Slots : t # s => slot'[t] = slot[t]
  BY <1>1
<1>3. \A t \in Slots : slot[t] \in Record => slot[t] \in used
  BY DEF DeliveryInv
<1>4. \A i, t \in Slots : slot'[i] \in Record /\ slot'[i] = slot'[t] => i = t
  BY <1>2, <1>3 DEF DeliveryInv
<1>5. \A t \in Slots : slot'[t] \in Record => slot'[t] \in used' /\ slot'[t] \notin gone'
  BY <1>2, <1>3 DEF DeliveryInv
<1>. QED  BY <1>4, <1>5 DEF DeliveryInv

\* A step that leaves the slots and the delivered records alone, and is not in
\* the middle of a pop afterwards, keeps the invariant.
LEMMA DeliveryKept ==
  ASSUME DeliveryInv, slot' = slot, gone' = gone, used \subseteq used',
         pc' # "pop"
  PROVE  DeliveryInv'
BY DEF DeliveryInv

\* The delivery invariant is inductive, relative to RingInv.
LEMMA DeliveryInvInductive ==
  /\ Init => DeliveryInv
  /\ RingInv /\ DeliveryInv /\ [Next]_vars => DeliveryInv'
<1>1. Init => DeliveryInv
  BY SlotAssumption DEF Init, DeliveryInv
<1>2. ASSUME RingInv, DeliveryInv, [Next]_vars
      PROVE  DeliveryInv'
  <2>. USE <1>2
  <2>1. CASE InitOpen
    BY <2>1, DeliveryKept DEF InitOpen, history
  <2>2. CASE InitFail
    BY <2>2, DeliveryKept DEF InitFail, table, history
  <2>3. CASE CreateNew
    BY <2>3, DeliveryKept DEF CreateNew, history
  <2>4. ASSUME NEW n \in 0 .. MaxCount, NEW h \in {FreshHeader, ZeroHeader},
               CreateDone(n, h)
        PROVE  DeliveryInv'
    <3>1. \A s \in Slots : slot'[s] \notin Record
      BY <2>4, SlotAssumption DEF CreateDone
    <3>. QED  BY <2>4, <3>1 DEF CreateDone, DeliveryInv, history
  <2>5. ASSUME NEW r \in Record, PushFull(r)
        PROVE  DeliveryInv'
    BY <2>5, DeliveryKept DEF PushFull, table
  <2>6. ASSUME NEW r \in Record, NEW s \in Slots, NEW v \in {slot[s], Bad, r},
               slot' = [slot EXCEPT ![s] = v], r \notin used,
               used' = used \cup {r}, gone' = gone, pc' # "pop"
        PROVE  DeliveryInv'
    <3>1. v \in SlotValue
      BY <2>6 DEF RingInv, TypeOK, SlotValue
    <3>2. v \in Record => v = slot[s] \/ (v \notin used /\ v \in used')
      BY <2>6, SlotAssumption
    <3>. QED  BY <2>6, <3>1, <3>2, SlotUpdate DEF DeliveryInv
  <2>7. PushSlot(ram) \in Slots
    BY PushSlotType DEF RingInv, TypeOK
  <2>8. ASSUME NEW r \in Record, PushFail(r)
        PROVE  DeliveryInv'
    BY <2>6, <2>7, <2>8 DEF PushFail, Partial
  <2>9. ASSUME NEW r \in Record, PushRecord(r)
        PROVE  DeliveryInv'
    <3>1. \E v \in {slot[PushSlot(ram)], Bad, r} :
            slot' = [slot EXCEPT ![PushSlot(ram)] = v]
      BY <2>9 DEF PushRecord, Partial
    <3>. QED  BY <2>6, <2>7, <2>9, <3>1 DEF PushRecord
  <2>10. ASSUME NEW s \in Slots, NEW v \in {slot[s], Bad},
                slot' = [slot EXCEPT ![s] = v],
                used' = used, gone' = gone
         PROVE  /\ \A i, t \in Slots : slot'[i] \in Record /\ slot'[i] = slot'[t] => i = t
                /\ \A t \in Slots : slot'[t] \in Record =>
                                      slot'[t] \in used' /\ slot'[t] \notin gone'
                /\ gone' \subseteq used'
    <3>1. v \in SlotValue
      BY <2>10 DEF RingInv, TypeOK, SlotValue
    <3>2. v \in Record => v = slot[s]
      BY <2>10, SlotAssumption
    <3>. QED  BY <2>10, <3>1, <3>2, SlotUpdate
  <2>11. ASSUME NEW flushed \in BOOLEAN, NEW ret \in BOOLEAN,
                PushHeader(flushed, ret)
         PROVE  DeliveryInv'
    <3>1. CASE slot' = slot
      BY <2>11, <3>1, DeliveryKept DEF PushHeader
    <3>2. CASE slot' = [slot EXCEPT ![PushSlot(ram)] = Bad]
      BY <2>7, <2>10, <2>11, <3>2 DEF PushHeader, DeliveryInv
    <3>. QED  BY <2>11, <3>1, <3>2 DEF PushHeader
  <2>12. ram.pop \in Slots
    BY DEF RingInv, TypeOK, Header
  <2>13. CASE PopFail
    <3>1. \E v \in {slot[ram.pop], Bad} : slot' = [slot EXCEPT ![ram.pop] = v]
      BY <2>13 DEF PopFail, Partial
    <3>. QED  BY <2>10, <2>12, <2>13, <3>1 DEF PopFail, history, DeliveryInv
  <2>14. CASE PopErase
    <3>1. \E v \in {slot[ram.pop], Bad} : slot' = [slot EXCEPT ![ram.pop] = v]
      BY <2>14 DEF PopErase, Partial
    <3>2. pc' = "pop" /\ data' \in Record =>
            data' \in used' /\ \A s \in Slots : slot'[s] # data'
      <4> SUFFICES ASSUME pc' = "pop", slot[ram.pop] \in Record
                   PROVE  /\ slot[ram.pop] \in used
                          /\ \A s \in Slots : slot'[s] # slot[ram.pop]
        BY <2>14 DEF PopErase, history
      <4>1. slot' = [slot EXCEPT ![ram.pop] = Bad]
        BY <2>14 DEF PopErase
      <4>. QED
        BY <2>12, <4>1, SlotAssumption DEF DeliveryInv, RingInv, TypeOK
    <3>. QED  BY <2>10, <2>12, <2>14, <3>1, <3>2 DEF PopErase, history, DeliveryInv
  <2>15. ASSUME NEW flushed \in BOOLEAN, NEW ret \in BOOLEAN,
                PopHeader(flushed, ret)
         PROVE  DeliveryInv'
    <3>1. CASE ~ret
      BY <2>15, <3>1, DeliveryKept DEF PopHeader
    <3>2. CASE ret
      <4>1. pc = "pop" /\ gone' = gone \cup ({data} \cap Record)
        BY <2>15, <3>2 DEF PopHeader
      <4>. QED  BY <2>15, <4>1 DEF PopHeader, DeliveryInv
    <3>. QED  BY <3>1, <3>2
  <2>16. ASSUME NEW flushed \in BOOLEAN, Flush(flushed)
         PROVE  DeliveryInv'
    BY <2>16, DeliveryKept DEF Flush, history
  <2>17. CASE LosePower
    BY <2>17, DeliveryKept DEF LosePower, history
  <2>18. CASE UNCHANGED vars
    BY <2>18 DEF vars, DeliveryInv
  <2>. QED
    BY <2>1, <2>2, <2>3, <2>4, <2>5, <2>8, <2>9, <2>11, <2>13, <2>14, <2>15,
       <2>16, <2>17, <2>18 DEF Next
<1>. QED  BY <1>1, <1>2

\* A record pop_front has delivered with TRUE is never read again: no slot of
\* the file holds it, so neither header's window does, even after a restart
\* from a header that was stored before the pop.
THEOREM DeliveredOnce == Spec => []PoppedNeverBack
<1>1. ASSUME RingInv, DeliveryInv
      PROVE  PoppedNeverBack
  <2> SUFFICES ASSUME NEW r \in gone, NEW h \in Header, InWindow(r, h)
               PROVE  FALSE
    BY <1>1 DEF PoppedNeverBack, RingInv, TypeOK
  <2>1. h.max # 0 /\ \E i \in 1 .. h.count : slot[At(h, i - 1)] = r
    BY DEF InWindow, Window
  <2>2. PICK i \in 1 .. h.count : slot[At(h, i - 1)] = r
    BY <2>1
  <2>3. At(h, i - 1) \in Slots
    <3>1. i - 1 \in Nat
      BY DEF Header
    <3>. QED  BY <2>1, <3>1, AtType
  <2>4. r \in Record
    BY <1>1 DEF RingInv, TypeOK
  <2>. QED  BY <1>1, <2>2, <2>3, <2>4 DEF DeliveryInv
<1>2. Spec => [](RingInv /\ DeliveryInv)
  <2>1. Init => RingInv /\ DeliveryInv
    BY RingInvInductive, DeliveryInvInductive
  <2>2. RingInv /\ DeliveryInv /\ [Next]_vars => (RingInv /\ DeliveryInv)'
    BY RingInvInductive, DeliveryInvInductive
  <2>. QED  BY <2>1, <2>2, PTL DEF Spec
<1>. QED  BY <1>1, <1>2, PTL
-----------------------------------------------------------------------------
(***************************************************************************)
(* The file implements the retry table.  The argument is about what the    *)
(* counted slots hold: pushing appends to it, popping drops its head, and  *)
(* the slots outside it do not matter.                                     *)
(***************************************************************************)

\* The window a header opens on the slots s of a file.
Contents(s, h) ==
  IF h.max = 0 THEN <<>> ELSE [i \in 1 .. h.count |-> s[At(h, i - 1)]]

\* The first record counted is the one at the pop index.
LEMMA AtFirst ==
  ASSUME NEW h \in Header, h.max # 0
  PROVE  At(h, 0) = h.pop
<1>1. h.max = MaxCount /\ h.pop \in 0 .. MaxCount - 1 /\ h.pop + 0 = h.pop
  BY DEF Header, Slots
<1>. QED  BY <1>1, ModSmall, CountAssumption DEF At

\* Popping renumbers the records: each comes one place nearer to the front.
LEMMA AtShift ==
  ASSUME NEW h \in Header, Readable(h), NEW i \in 0 .. MaxCount - 1
  PROVE  At(Popped(h), i) = At(h, i + 1)
<1>1. h.max = MaxCount /\ h.pop \in 0 .. MaxCount - 1
  BY DEF Header, Slots, Readable
<1>2. Popped(h).pop = (h.pop + 1) % MaxCount /\ Popped(h).max = MaxCount
  BY <1>1 DEF Popped, Header
<1>3. CASE h.pop + 1 < MaxCount
  <2>1. h.pop + 1 \in 0 .. MaxCount - 1
    BY <1>1, <1>3, CountAssumption
  <2>2. Popped(h).pop + i = h.pop + (i + 1)
    BY <1>1, <1>2, <2>1, ModSmall, CountAssumption
  <2>. QED  BY <1>1, <1>2, <2>2 DEF At
<1>4. CASE h.pop + 1 = MaxCount
  <2>1. MaxCount \in MaxCount .. 2 * MaxCount - 1
    BY CountAssumption
  <2>2. MaxCount % MaxCount = 0
    BY <2>1, ModWrap, CountAssumption
  <2>3. Popped(h).pop + i = i
    BY <1>2, <1>4, <2>2
  <2>4. i + 1 \in 0 .. MaxCount /\ ~(h.pop + (i + 1) < MaxCount)
    BY <1>1, <1>4, CountAssumption
  <2>5. (h.pop + (i + 1)) % MaxCount = h.pop + (i + 1) - MaxCount
    BY <1>1, <2>4, ModAdd, CountAssumption
  <2>6. h.pop + (i + 1) - MaxCount = i
    BY <1>1, <1>4, CountAssumption
  <2>7. i % MaxCount = i
    BY ModSmall, CountAssumption
  <2>. QED  BY <1>1, <1>2, <2>3, <2>5, <2>6, <2>7 DEF At
<1>. QED  BY <1>1, <1>3, <1>4, CountAssumption

\* Records counted at different places are in different slots.
LEMMA AtDistinct ==
  ASSUME NEW h \in Header, h.max # 0,
         NEW i \in 0 .. MaxCount - 1, NEW j \in 0 .. MaxCount - 1, i # j
  PROVE  At(h, i) # At(h, j)
<1>1. h.max = MaxCount /\ h.pop \in 0 .. MaxCount - 1
  BY DEF Header, Slots
<1>2. i \in 0 .. MaxCount /\ j \in 0 .. MaxCount
  BY CountAssumption
<1>3. (h.pop + i) % MaxCount =
        IF h.pop + i < MaxCount THEN h.pop + i ELSE h.pop + i - MaxCount
  BY <1>1, <1>2, ModAdd, CountAssumption
<1>4. (h.pop + j) % MaxCount =
        IF h.pop + j < MaxCount THEN h.pop + j ELSE h.pop + j - MaxCount
  BY <1>1, <1>2, ModAdd, CountAssumption
<1>. QED  BY <1>1, <1>3, <1>4, CountAssumption DEF At

\* What a consistent header counts is a sequence of as many slot values.
LEMMA ContentsType ==
  ASSUME NEW h \in Header, h.max # 0, NEW s \in [Slots -> SlotValue]
  PROVE  /\ Contents(s, h) \in Seq(SlotValue)
         /\ Len(Contents(s, h)) = h.count
         /\ \A i \in 1 .. h.count : Contents(s, h)[i] = s[At(h, i - 1)]
<1>1. h.count \in Nat
  BY CountAssumption, IndexAssumption DEF Header
<1>2. \A i \in 1 .. h.count : s[At(h, i - 1)] \in SlotValue
  BY <1>1, AtType
<1>3. Contents(s, h) = [i \in 1 .. h.count |-> s[At(h, i - 1)]]
  BY DEF Contents
<1>4. Contents(s, h) \in Seq(SlotValue)
  BY <1>1, <1>2, <1>3, IsASeq
<1>. QED  BY <1>1, <1>3, <1>4

\* Counting the record in the push slot appends it.
LEMMA ContentsPushed ==
  ASSUME NEW h \in Header, h.max # 0, HeaderOK(h), ~Full(h),
         NEW s \in [Slots -> SlotValue], NEW r \in SlotValue,
         s[PushSlot(h)] = r
  PROVE  Contents(s, Pushed(h)) = Append(Contents(s, h), r)
<1>1. /\ h.max = MaxCount /\ h.count \in Nat /\ h.count + 1 <= MaxCount
      /\ h.count + 1 \in 0 .. IndexMod - 1
  BY CountAssumption, IndexAssumption DEF Header, Full
<1>2. /\ Pushed(h) \in Header /\ Pushed(h).max # 0
      /\ Pushed(h).count = h.count + 1
      /\ \A i \in Nat : At(Pushed(h), i) = At(h, i)
  <2>1. (h.count + 1) % IndexMod = h.count + 1
    BY <1>1, ModSmall, CountAssumption, IndexAssumption
  <2>. QED  BY <2>1, PushedType DEF Pushed, Header, At
<1>3. s[At(h, h.count)] = r
  BY <1>1 DEF HeaderOK, PushSlot
<1> DEFINE c == Contents(s, h)
           d == Contents(s, Pushed(h))
<1>4. /\ c \in Seq(SlotValue) /\ Len(c) = h.count
      /\ \A i \in 1 .. h.count : c[i] = s[At(h, i - 1)]
  BY ContentsType
<1>5. /\ d \in Seq(SlotValue) /\ Len(d) = h.count + 1
      /\ \A i \in 1 .. h.count + 1 : d[i] = s[At(h, i - 1)]
  BY <1>1, <1>2, ContentsType
<1> HIDE DEF c, d
<1>6. /\ Append(c, r) \in Seq(SlotValue)
      /\ Len(Append(c, r)) = h.count + 1
      /\ \A i \in 1 .. h.count : Append(c, r)[i] = c[i]
      /\ Append(c, r)[h.count + 1] = r
  BY <1>1, <1>4, AppendProperties
<1>7. ASSUME NEW i \in 1 .. h.count + 1
      PROVE  d[i] = Append(c, r)[i]
  <2>1. CASE i \in 1 .. h.count
    BY <1>4, <1>5, <1>6, <2>1
  <2>2. CASE i = h.count + 1
    <3>1. d[i] = s[At(h, h.count)]
      BY <1>1, <1>5, <2>2
    <3>. QED  BY <1>3, <1>6, <2>2, <3>1
  <2>3. i \in 1 .. h.count \/ i = h.count + 1
    BY <1>1
  <2>. QED  BY <2>1, <2>2, <2>3
<1>8. d = Append(c, r)
  BY <1>5, <1>6, <1>7, SeqEqual
<1>. QED  BY <1>8 DEF c, d

\* Counting a pop drops the record at the front.
LEMMA ContentsPopped ==
  ASSUME NEW h \in Header, Readable(h), HeaderOK(h),
         NEW s \in [Slots -> SlotValue]
  PROVE  /\ Contents(s, h) # <<>>
         /\ Contents(s, Popped(h)) = Tail(Contents(s, h))
<1>1. h.max = MaxCount /\ h.count \in 1 .. MaxCount /\ h.max # 0
  BY CountAssumption, IndexAssumption DEF Header, Readable, HeaderOK
<1>2. /\ Popped(h) \in Header /\ Popped(h).max # 0
      /\ Popped(h).count = h.count - 1
  BY <1>1, PoppedType, CountAssumption DEF Popped, Header
<1> DEFINE c == Contents(s, h)
           d == Contents(s, Popped(h))
<1>3. /\ c \in Seq(SlotValue) /\ Len(c) = h.count
      /\ \A i \in 1 .. h.count : c[i] = s[At(h, i - 1)]
  BY <1>1, ContentsType
<1>4. /\ d \in Seq(SlotValue) /\ Len(d) = h.count - 1
      /\ \A i \in 1 .. h.count - 1 : d[i] = s[At(Popped(h), i - 1)]
  BY <1>2, ContentsType
<1> HIDE DEF c, d
<1>5. c # <<>>
  BY <1>1, <1>3
<1>6. /\ Tail(c) \in Seq(SlotValue) /\ Len(Tail(c)) = h.count - 1
      /\ \A i \in 1 .. h.count - 1 : Tail(c)[i] = c[i + 1]
  BY <1>3, <1>5, HeadTailProperties
<1>7. ASSUME NEW i \in 1 .. h.count - 1
      PROVE  d[i] = Tail(c)[i]
  <2>1. i - 1 \in 0 .. MaxCount - 1 /\ i + 1 \in 1 .. h.count
    BY <1>1, CountAssumption
  <2>2. At(Popped(h), i - 1) = At(h, i - 1 + 1)
    BY <2>1, AtShift
  <2>3. i - 1 + 1 = i + 1 - 1
    BY <1>1
  <2>4. c[i + 1] = s[At(h, i + 1 - 1)]
    BY <1>3, <2>1
  <2>. QED  BY <1>4, <1>6, <2>2, <2>3, <2>4
<1>8. d = Tail(c)
  BY <1>4, <1>6, <1>7, SeqEqual
<1>. QED  BY <1>5, <1>8 DEF c, d

\* What is written to the push slot does not show until it is counted.
LEMMA ContentsElsewhere ==
  ASSUME NEW h \in Header, HeaderOK(h), ~Full(h),
         NEW s \in [Slots -> SlotValue], NEW v,
         NEW t, t = [s EXCEPT ![PushSlot(h)] = v]
  PROVE  Contents(t, h) = Contents(s, h)
<1>1. CASE h.max = 0
  BY <1>1 DEF Contents
<1>2. CASE h.max # 0
  <2>1. h.count \in Nat
    BY CountAssumption, IndexAssumption DEF Header
  <2>2. ASSUME NEW i \in 1 .. h.count
        PROVE  t[At(h, i - 1)] = s[At(h, i - 1)]
    <3>1. i - 1 \in Nat /\ i - 1 \in 0 .. h.count - 1
      BY <2>1
    <3>2. At(h, i - 1) \in Slots /\ At(h, i - 1) \in Counted(h)
      BY <1>2, <3>1, AtType DEF Counted
    <3>3. At(h, i - 1) # PushSlot(h)
      BY <3>2, PushSlotFree
    <3>. QED  BY <3>2, <3>3
  <2>. QED  BY <1>2, <2>2 DEF Contents
<1>. QED  BY <1>1, <1>2

\* Erasing the record at the front shows at the front only.
LEMMA ContentsErased ==
  ASSUME NEW h \in Header, Readable(h), HeaderOK(h),
         NEW s \in [Slots -> SlotValue], NEW v \in SlotValue,
         NEW t, t = [s EXCEPT ![h.pop] = v]
  PROVE  Contents(t, h) = <<v>> \o Tail(Contents(s, h))
<1>1. /\ h.max = MaxCount /\ h.count \in 1 .. MaxCount /\ h.max # 0
      /\ h.pop \in Slots
  BY CountAssumption, IndexAssumption DEF Header, Readable, HeaderOK
<1>2. t \in [Slots -> SlotValue]
  BY <1>1
<1> DEFINE c == Contents(s, h)
           d == Contents(t, h)
<1>3. /\ c \in Seq(SlotValue) /\ Len(c) = h.count
      /\ \A i \in 1 .. h.count : c[i] = s[At(h, i - 1)]
  BY <1>1, ContentsType
<1>4. /\ d \in Seq(SlotValue) /\ Len(d) = h.count
      /\ \A i \in 1 .. h.count : d[i] = t[At(h, i - 1)]
  BY <1>1, <1>2, ContentsType
<1> HIDE DEF c, d
<1>5. /\ Tail(c) \in Seq(SlotValue) /\ Len(Tail(c)) = h.count - 1
      /\ \A i \in 1 .. h.count - 1 : Tail(c)[i] = c[i + 1]
  <2>1. c # <<>>
    BY <1>1, <1>3
  <2>. QED  BY <1>3, <2>1, HeadTailProperties
<1> DEFINE e == <<v>> \o Tail(c)
<1>6. /\ e \in Seq(SlotValue) /\ Len(e) = h.count /\ e[1] = v
      /\ \A i \in 2 .. h.count : e[i] = Tail(c)[i - 1]
  <2>1. <<v>> \in Seq(SlotValue) /\ Len(<<v>>) = 1 /\ <<v>>[1] = v
    OBVIOUS
  <2>2. e \in Seq(SlotValue) /\ Len(e) = 1 + (h.count - 1)
    BY <1>5, <2>1, ConcatProperties
  <2>3. \A i \in 1 .. 1 + (h.count - 1) :
          e[i] = IF i <= 1 THEN <<v>>[i] ELSE Tail(c)[i - 1]
    BY <1>5, <2>1, ConcatProperties
  <2>. QED  BY <1>1, <2>1, <2>2, <2>3
<1> HIDE DEF e
<1>7. d[1] = v
  <2>1. 1 \in 1 .. h.count /\ 1 - 1 = 0
    BY <1>1
  <2>2. d[1] = t[At(h, 0)]
    BY <1>4, <2>1
  <2>. QED  BY <1>1, <2>2, AtFirst
<1>8. ASSUME NEW i \in 2 .. h.count
      PROVE  d[i] = e[i]
  <2>1. /\ i \in 1 .. h.count /\ i - 1 \in 1 .. h.count - 1 /\ i - 1 + 1 = i
        /\ i - 1 \in 0 .. MaxCount - 1 /\ i - 1 # 0 /\ 0 \in 0 .. MaxCount - 1
        /\ i - 1 \in Nat
    BY <1>1, CountAssumption
  <2>2. At(h, i - 1) # h.pop /\ At(h, i - 1) \in Slots
    BY <1>1, <2>1, AtDistinct, AtFirst, AtType
  <2>3. d[i] = s[At(h, i - 1)]
    BY <1>4, <2>1, <2>2
  <2>4. e[i] = c[i]
    BY <1>5, <1>6, <2>1
  <2>. QED  BY <1>3, <2>1, <2>3, <2>4
<1>9. ASSUME NEW i \in 1 .. h.count
      PROVE  d[i] = e[i]
  <2>1. CASE i = 1
    BY <1>6, <1>7, <2>1
  <2>2. CASE i \in 2 .. h.count
    BY <1>8, <2>2
  <2>. QED  BY <1>1, <2>1, <2>2
<1>10. d = e
  BY <1>4, <1>6, <1>9, SeqEqual
<1>. QED  BY <1>10 DEF c, d, e

-----------------------------------------------------------------------------
(***************************************************************************)
(* What holds of the file when no FatFs call fails: the two headers are    *)
(* the same whenever no power loss has separated them, a recreated file is *)
(* complete before it is used, and the two halves of a call agree on the   *)
(* slot they work on.                                                      *)
(***************************************************************************)
HeadersAgree ==
  /\ HeaderOK(disk)
  /\ len = MaxCount => disk.max = MaxCount
  /\ pc \in {"idle", "push", "pop"} => ram = disk /\ len = MaxCount

CallOK ==
  /\ pc \in {"off", "create", "idle", "push", "pop"}
  /\ len \in {0, MaxCount}
  /\ pc = "create" => len = 0
  /\ pc = "push" => slot[PushSlot(ram)] = data
  /\ pc = "pop" => slot[ram.pop] = Bad

TableInv == RingInv /\ HeadersAgree /\ CallOK

\* What the invariant says of a call's header.
LEMMA CallHeader ==
  ASSUME TableInv, pc \in {"idle", "push", "pop"}
  PROVE  /\ ram \in Header /\ ram = disk /\ ram.max = MaxCount /\ ram.max # 0
         /\ HeaderOK(ram) /\ len = MaxCount
         /\ slot \in [Slots -> SlotValue]
         /\ PushSlot(ram) \in Slots /\ ram.pop \in Slots
<1>1. ram \in Header /\ slot \in [Slots -> SlotValue]
  BY DEF TableInv, RingInv, TypeOK
<1>2. ram = disk /\ len = MaxCount /\ HeaderOK(disk) /\ disk.max = MaxCount
  BY DEF TableInv, HeadersAgree
<1>3. PushSlot(ram) \in Slots /\ ram.pop \in Slots
  BY <1>1, PushSlotType DEF Header
<1>. QED  BY <1>1, <1>2, <1>3, CountAssumption

\* Without card failures the invariant is inductive until the index overflows.
LEMMA TableInvInductive ==
  ASSUME ~IOErrors
  PROVE  /\ Init => TableInv
         /\ TableInv /\ [Next]_vars /\ ~wrapped' => TableInv'
<1>1. ASSUME Init
      PROVE  TableInv
  <2>1. RingInv
    BY <1>1, RingInvInductive
  <2>2. HeadersAgree
    BY <1>1, EmptyOK, CountAssumption DEF Init, HeadersAgree
  <2>3. CallOK
    BY <1>1 DEF Init, CallOK
  <2>. QED  BY <2>1, <2>2, <2>3 DEF TableInv
<1>2. ASSUME TableInv, [Next]_vars, ~wrapped'
      PROVE  HeadersAgree' /\ CallOK'
  <2>0. RingInv /\ HeadersAgree /\ CallOK /\ TypeOK /\ PhaseOK
    BY <1>2 DEF TableInv, RingInv
  <2>1. CASE InitOpen
    BY <2>0, <2>1 DEF InitOpen, HeadersAgree, CallOK, history
  <2>2. CASE InitFail
    BY <2>2 DEF InitFail
  <2>3. CASE CreateNew
    BY <2>0, <2>3, CountAssumption DEF CreateNew, HeadersAgree, CallOK, history
  <2>4. ASSUME NEW n \in 0 .. MaxCount, NEW h \in {FreshHeader, ZeroHeader},
               CreateDone(n, h)
        PROVE  HeadersAgree' /\ CallOK'
    <3>1. n = MaxCount /\ h = FreshHeader
      BY <2>4 DEF CreateDone
    <3>2. FreshHeader.max = MaxCount
      BY DEF FreshHeader, ZeroHeader
    <3>. QED  BY <2>4, <3>1, <3>2, EmptyOK DEF CreateDone, HeadersAgree, CallOK
  <2>5. ASSUME NEW r \in Record, PushFull(r)
        PROVE  HeadersAgree' /\ CallOK'
    BY <2>0, <2>5 DEF PushFull, HeadersAgree, CallOK, table
  <2>6. ASSUME NEW r \in Record, PushRecord(r)
        PROVE  HeadersAgree' /\ CallOK'
    <3>1. PushSlot(ram) \in Slots /\ slot \in [Slots -> SlotValue]
      BY <1>2, <2>6, CallHeader DEF PushRecord
    <3>2. /\ pc = "idle" /\ pc' = "push" /\ data' = r
          /\ slot' = [slot EXCEPT ![PushSlot(ram)] = r]
          /\ ram' = ram /\ disk' = disk /\ len' = len
      BY <2>6 DEF PushRecord
    <3>3. PushSlot(ram)' = PushSlot(ram)
      BY <3>2 DEF PushSlot
    <3>. QED  BY <2>0, <3>1, <3>2, <3>3 DEF HeadersAgree, CallOK
  <2>7. ASSUME NEW flushed \in BOOLEAN, NEW ret \in BOOLEAN,
               PushHeader(flushed, ret)
        PROVE  HeadersAgree' /\ CallOK'
    <3>1. pc = "push" /\ flushed /\ ret
      BY <2>0, <2>7 DEF PushHeader
    <3>2. /\ ram \in Header /\ HeaderOK(ram) /\ ~Full(ram) /\ ram.max = MaxCount
          /\ len = MaxCount /\ PushSlot(ram) \in Slots
      BY <1>2, <2>0, <3>1, CallHeader DEF PhaseOK
    <3>3. ~(PushSlot(ram) >= len)
      BY <3>2, CountAssumption DEF Slots
    <3>4. /\ pc' = "idle" /\ ram' = Pushed(ram) /\ disk' = Pushed(ram)
          /\ len' = len /\ wrapped' = (wrapped \/ Pushed(ram).push = 0)
      BY <2>7, <3>1, <3>3 DEF PushHeader
    <3>5. Pushed(ram).push # 0
      BY <1>2, <3>4
    <3>6. HeaderOK(Pushed(ram)) /\ Pushed(ram).max = MaxCount
      BY <3>2, <3>5, PushedOK DEF Pushed, Header
    <3>. QED  BY <2>0, <3>2, <3>4, <3>6 DEF HeadersAgree, CallOK
  <2>8. CASE PopErase
    <3>1. ram.pop \in Slots /\ slot \in [Slots -> SlotValue]
      BY <1>2, <2>8, CallHeader DEF PopErase
    <3>2. /\ pc = "idle" /\ pc' = "pop"
          /\ slot' = [slot EXCEPT ![ram.pop] = Bad]
          /\ ram' = ram /\ disk' = disk /\ len' = len
      BY <2>8 DEF PopErase, history
    <3>. QED  BY <2>0, <3>1, <3>2 DEF HeadersAgree, CallOK
  <2>9. ASSUME NEW flushed \in BOOLEAN, NEW ret \in BOOLEAN,
               PopHeader(flushed, ret)
        PROVE  HeadersAgree' /\ CallOK'
    <3>1. pc = "pop" /\ flushed
      BY <2>0, <2>9 DEF PopHeader
    <3>2. /\ ram \in Header /\ HeaderOK(ram) /\ Readable(ram) /\ ram.max = MaxCount
          /\ len = MaxCount
      BY <1>2, <2>0, <3>1, CallHeader DEF PhaseOK
    <3>3. HeaderOK(Popped(ram)) /\ Popped(ram).max = MaxCount
      BY <3>2, PoppedOK DEF Popped, Header
    <3>4. /\ pc' = "idle" /\ ram' = Popped(ram) /\ disk' = Popped(ram)
          /\ len' = len
      BY <2>9, <3>1 DEF PopHeader
    <3>. QED  BY <2>0, <3>2, <3>3, <3>4 DEF HeadersAgree, CallOK
  <2>10. ASSUME NEW flushed \in BOOLEAN, Flush(flushed)
         PROVE  HeadersAgree' /\ CallOK'
    <3>1. pc = "idle" /\ flushed
      BY <2>10 DEF Flush
    <3>2. ram \in Header /\ ram.max = MaxCount /\ len = MaxCount
      BY <1>2, <3>1, CallHeader
    <3>3. HeaderOK(Emptied(ram)) /\ Emptied(ram).max = MaxCount
      BY <3>2, EmptyOK DEF Emptied, Header
    <3>4. pc' = "idle" /\ ram' = Emptied(ram) /\ disk' = Emptied(ram) /\ len' = len
      BY <2>10, <3>1 DEF Flush
    <3>. QED  BY <2>0, <3>2, <3>3, <3>4 DEF HeadersAgree, CallOK
  <2>11. CASE LosePower
    BY <2>0, <2>11 DEF LosePower, HeadersAgree, CallOK, history
  <2>12. CASE UNCHANGED vars
    BY <2>0, <2>12 DEF vars, HeadersAgree, CallOK, PushSlot
  <2>13. CASE PopFail \/ \E r \in Record : PushFail(r)
    BY <2>13 DEF PopFail, PushFail
  <2>. QED
    BY <1>2, <2>1, <2>2, <2>3, <2>4, <2>5, <2>6, <2>7, <2>8, <2>9, <2>10,
       <2>11, <2>12, <2>13 DEF Next
<1>3. TableInv /\ [Next]_vars => RingInv'
  BY RingInvInductive DEF TableInv
<1>. QED  BY <1>1, <1>2, <1>3 DEF TableInv

-----------------------------------------------------------------------------
\* The table's records by the phase of the call.
PhaseContents ==
  /\ pc = "off" => TableContents = IF len = MaxCount THEN Contents(slot, disk)
                                                     ELSE <<>>
  /\ pc = "create" => TableContents = <<>>
  /\ pc \in {"idle", "push"} => TableContents = Contents(slot, ram)
  /\ pc = "pop" => TableContents = Tail(Contents(slot, ram))

\* The queue that RetryQueue sees, in each phase of a call.
LEMMA TableIs == TableInv => PhaseContents
<1> SUFFICES ASSUME TableInv
             PROVE  PhaseContents
  OBVIOUS
<1>1. \A h : Window(h) = Contents(slot, h)
  BY DEF Window, Contents
<1>2. CASE pc = "off"
  BY <1>1, <1>2 DEF TableContents, PhaseContents
<1>3. CASE pc = "create"
  <2>1. ram.max = 0
    BY <1>3 DEF TableInv, RingInv, PhaseOK, ZeroHeader
  <2>. QED  BY <1>1, <1>3, <2>1 DEF TableContents, Contents, PhaseContents
<1>4. CASE pc \in {"idle", "push"}
  BY <1>1, <1>4 DEF TableContents, PhaseContents
<1>5. CASE pc = "pop"
  BY <1>1, <1>5 DEF TableContents, PhaseContents
<1>6. pc \in {"off", "create", "idle", "push", "pop"}
  BY DEF TableInv, CallOK
<1>. QED  BY <1>2, <1>3, <1>4, <1>5, <1>6

\* A header that counts nothing opens an empty window.
LEMMA ContentsEmpty ==
  ASSUME NEW h, h.count = 0, NEW s
  PROVE  Contents(s, h) = <<>>
<1>1. CASE h.max = 0
  BY <1>1 DEF Contents
<1>2. CASE h.max # 0
  <2>1. 1 .. h.count = {}
    BY SMT
  <2>2. Contents(s, h) = [i \in 1 .. h.count |-> s[At(h, i - 1)]]
    BY <1>2 DEF Contents
  <2>3. <<>> = [i \in 1 .. h.count |-> s[At(h, i - 1)]]
    BY <2>1
  <2>. QED  BY <2>2, <2>3
<1>. QED  BY <1>1, <1>2

\* Dropping a record put in front gives the sequence back.
LEMMA TailOfCons ==
  ASSUME NEW S, NEW v \in S, NEW s \in Seq(S)
  PROVE  Tail(<<v>> \o s) = s
<1>1. <<v>> \in Seq(S) /\ Len(<<v>>) = 1
  OBVIOUS
<1> DEFINE e == <<v>> \o s
<1>2. /\ e \in Seq(S) /\ Len(e) = Len(s) + 1
      /\ \A i \in 1 .. Len(s) + 1 : i > 1 => e[i] = s[i - 1]
  BY <1>1, ConcatProperties, LenProperties
<1> HIDE DEF e
<1>3. Len(s) \in Nat
  BY LenProperties
<1>4. e # <<>>
  BY <1>2, <1>3
<1>5. /\ Tail(e) \in Seq(S) /\ Len(Tail(e)) = Len(s)
      /\ \A i \in 1 .. Len(s) : Tail(e)[i] = e[i + 1]
  BY <1>2, <1>3, <1>4, HeadTailProperties
<1>6. \A i \in 1 .. Len(s) : Tail(e)[i] = s[i]
  BY <1>2, <1>3, <1>5
<1>7. Tail(e) = s
  BY <1>3, <1>5, <1>6, SeqEqual
<1>. QED  BY <1>7 DEF e

\* Each step of the file is a step of the table or does not show in it.  A push
\* appends when its header is stored, a pop takes the front when its record is
\* erased and settles when its header is stored, and a power loss in between
\* leaves the erased record at the front.
LEMMA StepRefines ==
  ASSUME ~IOErrors, TableInv, TableInv', [Next]_vars
  PROVE  [Table!QNext]_(Table!qvars)
<1> DEFINE q == TableContents
           Same == q' = q /\ (pc' = "pop" <=> pc = "pop")
<1>0. /\ TypeOK /\ PhaseOK /\ CallOK /\ HeadersAgree
      /\ slot \in [Slots -> SlotValue] /\ slot' \in [Slots -> SlotValue]
      /\ ram \in Header /\ disk \in Header
  BY DEF TableInv, RingInv, TypeOK
<1>1. /\ pc = "off" => q = IF len = MaxCount THEN Contents(slot, disk) ELSE <<>>
      /\ pc = "create" => q = <<>>
      /\ pc \in {"idle", "push"} => q = Contents(slot, ram)
      /\ pc = "pop" => q = Tail(Contents(slot, ram))
  BY TableIs DEF PhaseContents
<1>2. /\ pc' = "off" => q' = IF len' = MaxCount THEN Contents(slot', disk') ELSE <<>>
      /\ pc' = "create" => q' = <<>>
      /\ pc' \in {"idle", "push"} => q' = Contents(slot', ram')
      /\ pc' = "pop" => q' = Tail(Contents(slot', ram'))
  <2>1. TableInv' => PhaseContents'
    BY TableIs, PTL
  <2>. QED  BY <2>1 DEF PhaseContents
<1> DEFINE ThisPop == pc = "pop"
           NextPop == pc' = "pop"
<1> SUFFICES ASSUME ~(q' = q /\ (NextPop <=> ThisPop))
             PROVE  Table!QNext
  <2>1. (pc = "pop")' = (pc = "pop") \/ ~(NextPop <=> ThisPop)
    BY Zenon
  <2>. QED  BY <2>1 DEF Table!qvars
<1> HIDE DEF q
<1>3. CASE InitOpen
  <2>1. pc = "off" /\ pc' = "idle" /\ len = MaxCount /\ ram' = disk /\ slot' = slot
    BY <1>3 DEF InitOpen
  <2>. QED  BY <1>1, <1>2, <2>1
<1>4. CASE CreateNew
  <2>1. pc = "off" /\ pc' = "create" /\ len # MaxCount
    BY <1>4 DEF CreateNew
  <2>. QED  BY <1>1, <1>2, <2>1
<1>5. ASSUME NEW n \in 0 .. MaxCount, NEW h \in {FreshHeader, ZeroHeader},
             CreateDone(n, h)
      PROVE  Table!QNext
  <2>1. pc = "create" /\ pc' = "idle" /\ ram' = h
    BY <1>5 DEF CreateDone
  <2>2. h.count = 0
    BY DEF FreshHeader, ZeroHeader
  <2>3. q' = <<>>
    BY <1>2, <2>1, <2>2, ContentsEmpty
  <2>. QED  BY <1>1, <2>1, <2>3
<1>6. ASSUME NEW r \in Record, PushFull(r)
      PROVE  Table!QNext
  <2>1. pc = "idle" /\ pc' = "idle" /\ ram' = ram /\ slot' = slot
    BY <1>6 DEF PushFull, table
  <2>. QED  BY <1>1, <1>2, <2>1
<1>7. ASSUME NEW r \in Record, PushRecord(r)
      PROVE  Table!QNext
  <2>1. /\ pc = "idle" /\ pc' = "push" /\ ram' = ram /\ ~Full(ram)
        /\ slot' = [slot EXCEPT ![PushSlot(ram)] = r]
    BY <1>7 DEF PushRecord
  <2>2. HeaderOK(ram)
    BY <2>1, CallHeader
  <2>3. Contents(slot', ram) = Contents(slot, ram)
    BY <1>0, <2>1, <2>2, ContentsElsewhere
  <2>. QED  BY <1>1, <1>2, <2>1, <2>3
<1>8. ASSUME NEW flushed \in BOOLEAN, NEW ret \in BOOLEAN,
             PushHeader(flushed, ret)
      PROVE  Table!QNext
  <2>1. pc = "push" /\ flushed
    BY <1>0, <1>8 DEF PushHeader, CallOK
  <2>2. /\ HeaderOK(ram) /\ ram.max = MaxCount /\ ram.max # 0 /\ len = MaxCount
        /\ PushSlot(ram) \in Slots
    BY <2>1, CallHeader
  <2>3. ~Full(ram) /\ data \in Record /\ slot[PushSlot(ram)] = data
    BY <1>0, <2>1 DEF PhaseOK, CallOK
  <2>4. pc' = "idle" /\ ram' = Pushed(ram) /\ slot' = slot
    BY <1>8, <2>1 DEF PushHeader
  <2>5. q' = Append(q, data)
    <3>1. data \in SlotValue
      BY <2>3 DEF SlotValue
    <3>2. Contents(slot, Pushed(ram)) = Append(Contents(slot, ram), data)
      BY <1>0, <2>2, <2>3, <3>1, ContentsPushed
    <3>. QED  BY <1>1, <1>2, <2>1, <2>4, <3>2
  <2>6. Len(q) < MaxCount
    <3>1. ram.count \in Nat /\ ram.count < MaxCount
      BY <1>0, <2>2, <2>3, CountAssumption, IndexAssumption DEF Full, Header
    <3>2. Len(Contents(slot, ram)) = ram.count
      BY <1>0, <2>2, ContentsType
    <3>. QED  BY <1>1, <2>1, <3>1, <3>2
  <2>7. ~(pc = "pop") /\ ~(pc = "pop")'
    BY <2>1, <2>4
  <2>8. Table!QPush(data)
    <3>1. UNCHANGED (pc = "pop")
      BY <2>7
    <3>. QED  BY <2>5, <2>6, <2>7, <3>1 DEF Table!QPush, q
  <2>. QED  BY <2>3, <2>8 DEF Table!QNext
<1>9. CASE PopErase
  <2>1. /\ pc = "idle" /\ pc' = "pop" /\ ram' = ram /\ Readable(ram)
        /\ slot' = [slot EXCEPT ![ram.pop] = Bad]
    BY <1>9 DEF PopErase
  <2>2. HeaderOK(ram) /\ ram.max # 0
    BY <2>1, CallHeader
  <2>3. Bad \in SlotValue
    BY DEF SlotValue
  <2>4. Contents(slot', ram) = <<Bad>> \o Tail(Contents(slot, ram))
    BY <1>0, <2>1, <2>2, <2>3, ContentsErased
  <2>5. /\ Contents(slot, ram) # <<>>
        /\ Tail(Contents(slot, ram)) \in Seq(SlotValue)
    BY <1>0, <2>1, <2>2, ContentsPopped, ContentsType, HeadTailProperties
  <2>6. Tail(Contents(slot', ram)) = Tail(Contents(slot, ram))
    BY <2>3, <2>4, <2>5, TailOfCons
  <2>7. q # <<>> /\ q' = Tail(q)
    BY <1>1, <1>2, <2>1, <2>5, <2>6
  <2>8. ~(pc = "pop") /\ (pc = "pop")' = TRUE
    BY <2>1
  <2>9. Table!QPop
    BY <2>7, <2>8 DEF Table!QPop, q
  <2>. QED  BY <2>9 DEF Table!QNext
<1>10. ASSUME NEW flushed \in BOOLEAN, NEW ret \in BOOLEAN,
              PopHeader(flushed, ret)
       PROVE  Table!QNext
  <2>1. pc = "pop"
    BY <1>0, <1>10 DEF PopHeader, CallOK
  <2>2. HeaderOK(ram) /\ Readable(ram)
    BY <1>0, <2>1, CallHeader DEF PhaseOK
  <2>3. pc' = "idle" /\ ram' = Popped(ram) /\ slot' = slot
    BY <1>10 DEF PopHeader
  <2>4. Contents(slot, Popped(ram)) = Tail(Contents(slot, ram))
    BY <1>0, <2>2, ContentsPopped
  <2>5. q' = q
    BY <1>1, <1>2, <2>1, <2>3, <2>4
  <2>6. (pc = "pop") /\ (pc = "pop")' = FALSE
    BY <2>1, <2>3
  <2>7. Table!QSettle
    BY <2>5, <2>6 DEF Table!QSettle, q
  <2>. QED  BY <2>7 DEF Table!QNext
<1>11. ASSUME NEW flushed \in BOOLEAN, Flush(flushed)
       PROVE  Table!QNext
  <2>1. pc = "idle" /\ pc' = "idle" /\ ram' = Emptied(ram)
    BY <1>11 DEF Flush
  <2>2. Emptied(ram).count = 0
    BY <1>0 DEF Emptied, Header
  <2>3. q' = <<>>
    BY <1>2, <2>1, <2>2, ContentsEmpty
  <2>4. ~(pc = "pop") /\ ~(pc = "pop")'
    BY <2>1
  <2>5. UNCHANGED (pc = "pop")
    BY <2>4
  <2>6. Table!QFlush
    BY <2>3, <2>4, <2>5 DEF Table!QFlush, q
  <2>. QED  BY <2>6 DEF Table!QNext
<1>12. CASE LosePower
  <2>1. /\ pc # "off" /\ pc' = "off" /\ disk' = disk /\ slot' = slot /\ len' = len
    BY <1>12 DEF LosePower
  <2>2. q' = IF len = MaxCount THEN Contents(slot, disk) ELSE <<>>
    BY <1>2, <2>1
  <2>3. CASE pc = "create"
    <3>1. len # MaxCount
      BY <1>0, <2>3, CountAssumption DEF CallOK
    <3>. QED  BY <1>1, <2>1, <2>2, <2>3, <3>1
  <2>4. CASE pc \in {"idle", "push"}
    <3>1. ram = disk /\ len = MaxCount
      BY <2>4, CallHeader
    <3>. QED  BY <1>1, <2>1, <2>2, <2>4, <3>1
  <2>5. CASE pc = "pop"
    <3>1. /\ ram = disk /\ len = MaxCount /\ HeaderOK(ram) /\ ram.pop \in Slots
          /\ Readable(ram) /\ slot[ram.pop] = Bad
      BY <1>0, <2>5, CallHeader DEF PhaseOK, CallOK
    <3>2. Bad \in SlotValue /\ slot = [slot EXCEPT ![ram.pop] = Bad]
      BY <1>0, <3>1 DEF SlotValue
    <3>3. Contents(slot, ram) = <<Bad>> \o Tail(Contents(slot, ram))
      BY <1>0, <3>1, <3>2, ContentsErased
    <3>4. q' = <<Bad>> \o q
      BY <1>1, <2>2, <2>5, <3>1, <3>3
    <3>5. (pc = "pop") /\ (pc = "pop")' = FALSE
      BY <2>1, <2>5
    <3>6. Table!QRestart
      BY <3>4, <3>5 DEF Table!QRestart, q
    <3>. QED  BY <3>6 DEF Table!QNext
  <2>. QED  BY <1>0, <2>1, <2>3, <2>4, <2>5 DEF CallOK
<1>13. CASE UNCHANGED vars
  <2>1. q' = q /\ pc' = pc
    BY <1>13 DEF vars, q, TableContents, Window
  <2>. QED  BY <2>1
<1>14. CASE InitFail \/ PopFail \/ \E r \in Record : PushFail(r)
  BY <1>14 DEF InitFail, PopFail, PushFail
<1>. QED
  BY <1>3, <1>4, <1>5, <1>6, <1>7, <1>8, <1>9, <1>10, <1>11, <1>12, <1>13,
     <1>14 DEF Next

\* Without FatFs failures ring_file.c implements the retry table that
\* ring_file.h describes, across power losses at any point, as long as the
\* 16-bit push index has not overflowed: 65536 is no multiple of the 5000
\* records (network.c:247), and what the overflow does is PushAddsAtEnd's.
THEOREM RingImplementsRetryQueue ==
  ASSUME ~IOErrors
  PROVE  Spec /\ [](~wrapped) => RefinesRetryQueue
<1>1. Spec /\ [](~wrapped) => []TableInv
  BY TableInvInductive, PTL DEF Spec
<1>2. Init => Table!QInit
  <2> SUFFICES ASSUME Init
               PROVE  Table!QInit
    OBVIOUS
  <2>1. pc = "off" /\ len # MaxCount
    BY CountAssumption DEF Init
  <2>2. TableContents = <<>> /\ (pc = "pop") = FALSE
    BY <2>1 DEF TableContents
  <2>. QED  BY <2>2 DEF Table!QInit
<1>3. TableInv /\ TableInv' /\ [Next]_vars => [Table!QNext]_(Table!qvars)
  BY StepRefines
<1>. QED  BY <1>1, <1>2, <1>3, PTL DEF Spec, Table!QSpec, RefinesRetryQueue
=============================================================================
