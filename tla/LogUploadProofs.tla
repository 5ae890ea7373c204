-------------------------- MODULE LogUploadProofs ---------------------------
(***************************************************************************)
(* Proofs about FtpRetry and LogUpload, for every set of files, every      *)
(* pool, queue and table size, and with or without power loss.             *)
(***************************************************************************)
EXTENDS LogUpload, FiniteSetTheorems, SequenceTheorems, TLAPS

-----------------------------------------------------------------------------
(***************************************************************************)
(* How often a file is in a sequence.                                      *)
(***************************************************************************)
Places(f, s) == {i \in DOMAIN s : s[i] = f}

\* The places of a file are finitely many.
LEMMA PlacesFinite ==
  ASSUME NEW S, NEW s \in Seq(S), NEW f
  PROVE  IsFiniteSet(Places(f, s)) /\ Count(f, s) \in Nat
<1>1. DOMAIN s = 1 .. Len(s) /\ Len(s) \in Nat
  BY LenProperties
<1>2. IsFiniteSet(1 .. Len(s))
  BY <1>1, FS_Interval
<1>3. Places(f, s) \in SUBSET (1 .. Len(s))
  BY <1>1 DEF Places
<1>4. IsFiniteSet(Places(f, s))
  BY <1>2, <1>3, FS_Subset
<1>. QED  BY <1>4, FS_CardinalityType DEF Count, Places

\* It is in no place of the empty sequence.
LEMMA CountEmpty == ASSUME NEW f PROVE Count(f, <<>>) = 0
<1>1. {i \in DOMAIN <<>> : (<<>>)[i] = f} = {}
  OBVIOUS
<1>. QED  BY <1>1, FS_EmptySet DEF Count

\* Appending it adds one.
LEMMA CountAppend ==
  ASSUME NEW S, NEW s \in Seq(S), NEW e \in S, NEW f
  PROVE  Count(f, Append(s, e)) = Count(f, s) + IF e = f THEN 1 ELSE 0
<1> DEFINE n == Len(s) + 1
           t == Append(s, e)
<1>1. Len(s) \in Nat /\ DOMAIN s = 1 .. Len(s)
  BY LenProperties
<1>2. /\ t \in Seq(S) /\ Len(t) = n
      /\ \A i \in 1 .. Len(s) : t[i] = s[i]
      /\ t[n] = e
  BY AppendProperties
<1>3. DOMAIN t = 1 .. n
  BY <1>2, LenProperties
<1>4. n \notin Places(f, s)
  BY <1>1 DEF Places
<1>6. IsFiniteSet(Places(f, s)) /\ Count(f, s) \in Nat
  BY PlacesFinite
<1>7. Count(f, t) = Cardinality(Places(f, t)) /\ Count(f, s) = Cardinality(Places(f, s))
  BY DEF Count, Places
<1>5. Places(f, t) = IF e = f THEN Places(f, s) \cup {n} ELSE Places(f, s)
  <2> HIDE DEF t
  <2>. QED  BY <1>1, <1>2, <1>3 DEF Places
<1> HIDE DEF t, n
<1>8. CASE e = f
  <2>1. Places(f, t) = Places(f, s) \cup {n}
    BY <1>5, <1>8
  <2>2. Cardinality(Places(f, s) \cup {n}) = Cardinality(Places(f, s)) + 1
    BY <1>4, <1>6, FS_AddElement
  <2>. QED  BY <1>7, <1>8, <2>1, <2>2 DEF t
<1>9. CASE e # f
  BY <1>5, <1>6, <1>7, <1>9 DEF t
<1>. QED  BY <1>8, <1>9

\* Putting e in front of a sequence adds one for e only.
LEMMA CountCons ==
  ASSUME NEW S, NEW s \in Seq(S), NEW e \in S, NEW f
  PROVE  Count(f, <<e>> \o s) = Count(f, s) + IF e = f THEN 1 ELSE 0
<1> DEFINE t == <<e>> \o s
           up == {i + 1 : i \in Places(f, s)}
<1>1. Len(s) \in Nat /\ DOMAIN s = 1 .. Len(s)
  BY LenProperties
<1>2. <<e>> \in Seq(S) /\ Len(<<e>>) = 1 /\ <<e>>[1] = e
  OBVIOUS
<1>3. /\ t \in Seq(S) /\ Len(t) = 1 + Len(s)
      /\ \A i \in 1 .. 1 + Len(s) : t[i] = IF i <= 1 THEN <<e>>[i] ELSE s[i - 1]
  BY <1>2, ConcatProperties
<1>4. DOMAIN t = 1 .. 1 + Len(s)
  BY <1>3, LenProperties
<1>5. /\ t[1] = e
      /\ \A i \in 1 .. Len(s) : i + 1 \in DOMAIN t /\ t[i + 1] = s[i]
  BY <1>1, <1>2, <1>3, <1>4
<1>6. Places(f, t) = IF e = f THEN up \cup {1} ELSE up
  <2>1. ASSUME NEW i \in Places(f, t), i # 1
        PROVE  i \in up
    <3>1. i - 1 \in Places(f, s) /\ i = (i - 1) + 1
      BY <2>1, <1>1, <1>3, <1>4 DEF Places
    <3>. QED  BY <3>1
  <2>2. ASSUME NEW i \in up
        PROVE  i \in Places(f, t)
    BY <1>1, <1>5 DEF Places
  <2>3. 1 \in Places(f, t) <=> e = f
    BY <1>1, <1>4, <1>5 DEF Places
  <2>4. 1 \notin up
    BY <1>1 DEF Places
  <2> HIDE DEF up, t
  <2>. QED  BY <2>1, <2>2, <2>3, <2>4
<1>7. IsFiniteSet(up) /\ Cardinality(up) = Cardinality(Places(f, s)) /\ 1 \notin up
  <2>1. [i \in Places(f, s) |-> i + 1] \in Bijection(Places(f, s), up)
    BY <1>1 DEF Bijection, Injection, Surjection, IsInjective, Places
  <2>2. ExistsBijection(Places(f, s), up)
    BY <2>1 DEF ExistsBijection
  <2>3. 1 \notin up
    BY <1>1 DEF Places
  <2>4. IsFiniteSet(Places(f, s))
    BY PlacesFinite
  <2> HIDE DEF up
  <2>. QED  BY <2>2, <2>3, <2>4, FS_Bijection
<1>8. Count(f, t) = Cardinality(Places(f, t)) /\ Count(f, s) = Cardinality(Places(f, s))
  BY DEF Count, Places
<1>11. Count(f, s) \in Nat
  BY PlacesFinite
<1> HIDE DEF up, t
<1>9. CASE e = f
  <2>1. Places(f, t) = up \cup {1}
    BY <1>6, <1>9
  <2>2. Cardinality(up \cup {1}) = Cardinality(Places(f, s)) + 1
    BY <1>7, FS_AddElement
  <2>. QED  BY <1>8, <1>9, <2>1, <2>2 DEF t
<1>10. CASE e # f
  BY <1>6, <1>7, <1>8, <1>10, <1>11 DEF t
<1>. QED  BY <1>9, <1>10 DEF t

\* Taking the head away removes one for the head only.
LEMMA CountTail ==
  ASSUME NEW S, NEW s \in Seq(S), s # <<>>, NEW f
  PROVE  Count(f, s) = Count(f, Tail(s)) + IF Head(s) = f THEN 1 ELSE 0
<1>1. Head(s) \in S /\ Tail(s) \in Seq(S)
  BY HeadTailProperties
<1>2. s = <<Head(s)>> \o Tail(s)
  <2> DEFINE h == <<Head(s)>>
  <2>1. h \in Seq(S) /\ Len(h) = 1 /\ h[1] = Head(s)
    BY <1>1
  <2>2. Len(s) \in Nat \ {0}
    BY EmptySeq
  <2>7. Head(s) = s[1]
    OBVIOUS
  <2>3. Len(Tail(s)) = Len(s) - 1 /\ \A i \in 1 .. Len(Tail(s)) : Tail(s)[i] = s[i + 1]
    BY HeadTailProperties
  <2> HIDE DEF h
  <2>8. /\ h \o Tail(s) \in Seq(S) /\ Len(h \o Tail(s)) = Len(h) + Len(Tail(s))
        /\ \A i \in 1 .. Len(h) + Len(Tail(s)) :
             (h \o Tail(s))[i] = IF i <= Len(h) THEN h[i] ELSE Tail(s)[i - Len(h)]
    BY <1>1, <2>1, ConcatProperties
  <2>4. /\ Len(h \o Tail(s)) = Len(s)
        /\ \A i \in 1 .. Len(s) : (h \o Tail(s))[i] = IF i <= 1 THEN h[i] ELSE Tail(s)[i - 1]
    BY <2>1, <2>2, <2>3, <2>8
  <2>5. ASSUME NEW i \in 1 .. Len(s)
        PROVE  s[i] = (h \o Tail(s))[i]
    <3>1. CASE i = 1
      BY <3>1, <2>1, <2>2, <2>4, <2>7
    <3>2. CASE i # 1
      <4>1. i - 1 \in 1 .. Len(Tail(s)) /\ (i - 1) + 1 = i /\ ~(i <= 1)
        BY <3>2, <2>2, <2>3
      <4>. QED  BY <4>1, <2>3, <2>4
    <3>. QED  BY <3>1, <3>2
  <2>6. s = h \o Tail(s)
    BY <2>4, <2>5, <2>8, SeqEqual
  <2>. QED  BY <2>6 DEF h
<1>3. Count(f, <<Head(s)>> \o Tail(s)) = Count(f, Tail(s)) + IF Head(s) = f THEN 1 ELSE 0
  BY <1>1, CountCons
<1>. QED  BY <1>2, <1>3

-----------------------------------------------------------------------------
(***************************************************************************)
(* FtpRetry: the inductive invariant.  OnePlace says nothing of a file not *)
(* handed over yet, which AddFile relies on (FileOK's last part); it needs *)
(* the places where the sender holds a message (HoldsMessage), and the     *)
(* bound of the table that a pop not yet settled leaves room for the       *)
(* erased record (RoomForErased).                                          *)
(***************************************************************************)
HoldsMessage ==
  IF spc \in {"check", "put", "record", "push", "done"}
    THEN \E f \in File : cur = {f}
    ELSE cur = {}

RoomForErased ==
  /\ unsettled \in BOOLEAN
  /\ unsettled => spc = "pop" /\ Len(q) < TableSize

Held(f) == IF spc # "done" /\ f \in cur THEN 1 ELSE 0
Copies(f) == Count(f, mq) + Count(f, q) + Held(f)

FileOK(f) ==
  /\ Copies(f) <= 1
  /\ f \in dropped => Copies(f) = 0
  /\ f \in handed \ (uploaded \cup dropped) => Copies(f) = 1
  /\ f \notin handed => Copies(f) = 0 /\ f \notin uploaded \cup dropped

\* TypeOK, with the blocks of the sender (its message and its buffers) given
\* by the place where it is.
SenderBlocks == IF spc \in {"check", "push", "pop"} THEN 2
                ELSE IF spc = "pend" THEN 0 ELSE 1

TypesAndBlocks ==
  /\ q \in Seq(File \cup {Bad}) /\ Len(q) <= TableSize
  /\ mq \in Seq(File) /\ Len(mq) <= QueueSize
  /\ cur \in SUBSET File
  /\ spc \in {"pend", "check", "put", "record", "push", "done", "front", "pop"}
  /\ retVal \in PutResult
  /\ enabled \in BOOLEAN
  /\ free \in Nat /\ others \in Nat /\ leaked \in Nat
  /\ free + others + leaked + Len(mq) + SenderBlocks = PoolSize

FtpInv == /\ TypesAndBlocks /\ HoldsMessage /\ RoomForErased
          /\ \A f \in File : FileOK(f)

\* The message the sender holds, and the copies of a file, as numbers.
LEMMA CardinalityFacts ==
  /\ Cardinality({}) = 0
  /\ \A x : Cardinality({x}) = 1
  /\ \A C, x : Cardinality(C \cap {x}) = IF x \in C THEN 1 ELSE 0
<1>1. Cardinality({}) = 0 /\ \A x : Cardinality({x}) = 1
  BY FS_EmptySet, FS_Singleton
<1>2. ASSUME NEW C, NEW x
      PROVE  Cardinality(C \cap {x}) = IF x \in C THEN 1 ELSE 0
  <2>1. CASE x \in C
    <3>1. C \cap {x} = {x}
      BY <2>1
    <3>. QED  BY <1>1, <2>1, <3>1
  <2>2. CASE x \notin C
    <3>1. C \cap {x} = {}
      BY <2>2
    <3>. QED  BY <1>1, <2>2, <3>1
  <2>. QED  BY <2>1, <2>2
<1>. QED  BY <1>1, <1>2

\* How often a file is anywhere is a number.
LEMMA CountsAreNumbers ==
  ASSUME TypesAndBlocks, NEW f
  PROVE  Count(f, mq) \in Nat /\ Count(f, q) \in Nat
BY PlacesFinite DEF TypesAndBlocks

\* At the start every block is free and no file is anywhere.
LEMMA FtpInvInit == Init => FtpInv
<1> SUFFICES ASSUME Init PROVE FtpInv
  OBVIOUS
<1>1. TypesAndBlocks
  BY SizeAssumption DEF Init, TypesAndBlocks, Retry!QInit, SenderBlocks
<1>2. HoldsMessage /\ RoomForErased
  BY DEF Init, HoldsMessage, RoomForErased, Retry!QInit
<1>3. ASSUME NEW f \in File
      PROVE  FileOK(f)
  BY CountEmpty DEF Init, FileOK, Copies, Held, Retry!QInit
<1>. QED  BY <1>1, <1>2, <1>3 DEF FtpInv

\* Other tasks move blocks between the free ones and their own.
LEMMA OthersKeepInv ==
  ASSUME FtpInv, OtherAlloc \/ OtherFree
  PROVE  FtpInv'
<1> USE SizeAssumption DEF FtpInv, retry, pool, history, SenderBlocks
<1>1. CASE OtherAlloc
  <2>1. TypesAndBlocks'
    BY <1>1 DEF OtherAlloc, TypesAndBlocks
  <2>2. (HoldsMessage /\ RoomForErased)'
    BY <1>1 DEF OtherAlloc, HoldsMessage, RoomForErased
  <2>3. ASSUME NEW f \in File
        PROVE  FileOK(f)'
    <3>1. FileOK(f) /\ Count(f, mq) \in Nat /\ Count(f, q) \in Nat
      BY CountsAreNumbers DEF FtpInv
    <3>. QED  BY <1>1, <3>1 DEF OtherAlloc, FileOK, Copies, Held
  <2>. QED  BY <2>1, <2>2, <2>3 DEF FtpInv
<1>2. CASE OtherFree
  <2>1. TypesAndBlocks'
    BY <1>2 DEF OtherFree, TypesAndBlocks
  <2>2. (HoldsMessage /\ RoomForErased)'
    BY <1>2 DEF OtherFree, HoldsMessage, RoomForErased
  <2>3. ASSUME NEW f \in File
        PROVE  FileOK(f)'
    <3>1. FileOK(f) /\ Count(f, mq) \in Nat /\ Count(f, q) \in Nat
      BY CountsAreNumbers DEF FtpInv
    <3>. QED  BY <1>2, <3>1 DEF OtherFree, FileOK, Copies, Held
  <2>. QED  BY <2>1, <2>2, <2>3 DEF FtpInv
<1>. QED  BY <1>1, <1>2

\* ftp_add_filename puts a new name in the queue or drops it.
LEMMA AddKeepsInv ==
  ASSUME FtpInv, NEW g \in File, AddFile(g)
  PROVE  FtpInv'
<1> USE SizeAssumption DEF FtpInv, retry, pool, history, SenderBlocks
<1>0. mq \in Seq(File) /\ Len(mq) \in Nat /\ q \in Seq(File \cup {Bad})
  BY LenProperties DEF TypesAndBlocks
<1>1. CASE free > 0 /\ Len(mq) < QueueSize
  <2>0. /\ g \notin handed /\ handed' = handed \cup {g} /\ free' = free - 1
        /\ UNCHANGED <<q, unsettled, others, leaked, enabled, spc, cur, retVal,
                        uploaded, dropped>>
    BY <1>1 DEF AddFile
  <2>4. mq' = Append(mq, g)
    BY <1>1 DEF AddFile
  <2>5. mq' \in Seq(File) /\ Len(mq') = Len(mq) + 1
    BY <1>0, <2>4, AppendProperties
  <2>1. TypesAndBlocks'
    BY <1>0, <1>1, <2>0, <2>5 DEF TypesAndBlocks
  <2>2. (HoldsMessage /\ RoomForErased)'
    BY <2>0 DEF HoldsMessage, RoomForErased
  <2>3. ASSUME NEW f \in File
        PROVE  FileOK(f)'
    <3>1. FileOK(f) /\ Count(f, mq) \in Nat /\ Count(f, q) \in Nat
      BY CountsAreNumbers
    <3>2. Count(f, mq') = Count(f, mq) + IF g = f THEN 1 ELSE 0
      BY <1>0, <2>4, CountAppend
    <3>3. Copies(f)' = Copies(f) + IF g = f THEN 1 ELSE 0
      BY <2>0, <3>1, <3>2 DEF Copies, Held
    <3>4. Copies(f) \in Nat
      BY <3>1 DEF Copies, Held
    <3>. QED  BY <2>0, <3>1, <3>3, <3>4 DEF FileOK
  <2>. QED  BY <2>1, <2>2, <2>3
<1>2. CASE ~(free > 0 /\ Len(mq) < QueueSize)
  <2>0. /\ g \notin handed /\ handed' = handed \cup {g}
        /\ dropped' = dropped \cup {g}
        /\ UNCHANGED <<q, unsettled, mq, others, enabled, spc, cur, retVal, uploaded>>
    BY <1>2 DEF AddFile
  <2>4. \/ free' = free /\ leaked' = leaked
        \/ free > 0 /\ free' = free - 1 /\ leaked' = leaked + 1
    BY <1>2 DEF AddFile
  <2>1. TypesAndBlocks'
    <3>1. CASE free' = free /\ leaked' = leaked
      BY <2>0, <3>1 DEF TypesAndBlocks
    <3>2. CASE free > 0 /\ free' = free - 1 /\ leaked' = leaked + 1
      BY <1>0, <2>0, <3>2 DEF TypesAndBlocks
    <3>. QED  BY <2>4, <3>1, <3>2
  <2>2. (HoldsMessage /\ RoomForErased)'
    BY <2>0 DEF HoldsMessage, RoomForErased
  <2>3. ASSUME NEW f \in File
        PROVE  FileOK(f)'
    <3>1. FileOK(f) /\ Count(f, mq) \in Nat /\ Count(f, q) \in Nat
      BY CountsAreNumbers
    <3>2. Copies(f)' = Copies(f)
      BY <2>0 DEF Copies, Held
    <3>. QED  BY <2>0, <3>1, <3>2 DEF FileOK
  <2>. QED  BY <2>1, <2>2, <2>3
<1>. QED  BY <1>1, <1>2

\* The sender takes a message from its queue.
LEMMA TakeKeepsInv ==
  ASSUME FtpInv, Take
  PROVE  FtpInv'
<1> USE SizeAssumption DEF FtpInv, retry, pool, history, SenderBlocks
<1>0. /\ mq \in Seq(File) /\ mq # <<>> /\ Len(mq) \in Nat
      /\ spc = "pend" /\ cur = {}
  BY LenProperties DEF Take, TypesAndBlocks, HoldsMessage
<1>1. Head(mq) \in File /\ Tail(mq) \in Seq(File) /\ Len(Tail(mq)) = Len(mq) - 1
  BY <1>0, HeadTailProperties
<1>2. mq' = Tail(mq) /\ cur' = {Head(mq)}
  BY <1>0 DEF Take
<1>3. UNCHANGED <<q, unsettled, others, leaked, enabled, retVal, handed, uploaded>>
  BY DEF Take
<1>4. \/ free > 0 /\ spc' = "check" /\ free' = free - 1 /\ dropped' = dropped
      \/ spc' = "done" /\ dropped' = dropped \cup {Head(mq)} /\ free' = free
  BY <1>2 DEF Take
<1>5. TypesAndBlocks'
  BY <1>0, <1>1, <1>2, <1>3, <1>4 DEF TypesAndBlocks
<1>6. (HoldsMessage /\ RoomForErased)'
  BY <1>0, <1>1, <1>2, <1>3, <1>4 DEF HoldsMessage, RoomForErased
<1>7. ASSUME NEW f \in File
      PROVE  FileOK(f)'
  <2>1. FileOK(f) /\ Count(f, mq) \in Nat /\ Count(f, q) \in Nat
    BY CountsAreNumbers
  <2>2. Count(f, mq) = Count(f, mq') + IF Head(mq) = f THEN 1 ELSE 0
    BY <1>0, <1>2, CountTail
  <2>3. Count(f, mq') \in Nat
    BY <1>1, <1>2, PlacesFinite
  <2>. QED  BY <1>0, <1>2, <1>3, <1>4, <2>1, <2>2, <2>3 DEF FileOK, Copies, Held
<1>. QED  BY <1>5, <1>6, <1>7

\* The sender looks for the file, uploads it and makes a record if that fails.
LEMMA UploadKeepsInv ==
  ASSUME FtpInv,
         \/ \E exists \in BOOLEAN : Check(exists)
         \/ \E stored \in BOOLEAN, result \in PutResult : Put(stored, result)
         \/ MakeRecord \/ Done
  PROVE  FtpInv'
<1> USE SizeAssumption DEF FtpInv, retry, pool, history, SenderBlocks
<1>1. ASSUME NEW exists \in BOOLEAN, Check(exists)
      PROVE  FtpInv'
  <2>1. TypesAndBlocks'
    BY <1>1 DEF Check, TypesAndBlocks
  <2>2. (HoldsMessage /\ RoomForErased)'
    BY <1>1 DEF Check, HoldsMessage, RoomForErased
  <2>3. ASSUME NEW f \in File
        PROVE  FileOK(f)'
    <3>1. FileOK(f) /\ Count(f, mq) \in Nat /\ Count(f, q) \in Nat
      BY CountsAreNumbers DEF FtpInv
    <3>2. /\ spc = "check"
          /\ \/ spc' = "put" /\ dropped' = dropped
             \/ spc' = "done" /\ dropped' = dropped \cup cur
          /\ UNCHANGED <<q, mq, cur, handed, uploaded>>
      BY <1>1 DEF Check
    <3>. QED  BY <3>1, <3>2 DEF FileOK, Copies, Held
  <2>. QED  BY <2>1, <2>2, <2>3 DEF FtpInv
<1>2. ASSUME NEW stored \in BOOLEAN, NEW result \in PutResult, Put(stored, result)
      PROVE  FtpInv'
  <2>1. TypesAndBlocks'
    BY <1>2 DEF Put, TypesAndBlocks, PutResult
  <2>2. (HoldsMessage /\ RoomForErased)'
    BY <1>2 DEF Put, HoldsMessage, RoomForErased, PutResult
  <2>3. ASSUME NEW f \in File
        PROVE  FileOK(f)'
    <3>1. FileOK(f) /\ Count(f, mq) \in Nat /\ Count(f, q) \in Nat
      BY CountsAreNumbers DEF FtpInv
    <3>. QED  BY <1>2, <3>1 DEF Put, FileOK, Copies, Held, PutResult
  <2>. QED  BY <2>1, <2>2, <2>3 DEF FtpInv
<1>3. CASE MakeRecord
  <2>1. TypesAndBlocks'
    BY <1>3 DEF MakeRecord, TypesAndBlocks
  <2>2. (HoldsMessage /\ RoomForErased)'
    BY <1>3 DEF MakeRecord, HoldsMessage, RoomForErased
  <2>3. ASSUME NEW f \in File
        PROVE  FileOK(f)'
    <3>1. FileOK(f) /\ Count(f, mq) \in Nat /\ Count(f, q) \in Nat
      BY CountsAreNumbers DEF FtpInv
    <3>. QED  BY <1>3, <3>1 DEF MakeRecord, FileOK, Copies, Held
  <2>. QED  BY <2>1, <2>2, <2>3 DEF FtpInv
<1>4. CASE Done
  <2>1. TypesAndBlocks'
    BY <1>4 DEF Done, TypesAndBlocks
  <2>2. (HoldsMessage /\ RoomForErased)'
    BY <1>4 DEF Done, HoldsMessage, RoomForErased
  <2>3. ASSUME NEW f \in File
        PROVE  FileOK(f)'
    <3>1. FileOK(f) /\ Count(f, mq) \in Nat /\ Count(f, q) \in Nat
      BY CountsAreNumbers DEF FtpInv
    <3>. QED  BY <1>4, <3>1 DEF Done, FileOK, Copies, Held
  <2>. QED  BY <2>1, <2>2, <2>3 DEF FtpInv
<1>. QED  BY <1>1, <1>2, <1>3, <1>4

\* The record of a failed upload goes into the retry table, or does not.
LEMMA PushKeepsInv ==
  ASSUME FtpInv, NEW ok \in BOOLEAN, PushRetry(ok)
  PROVE  FtpInv'
<1> USE SizeAssumption DEF FtpInv, retry, pool, history, SenderBlocks
<1>0. /\ q \in Seq(File \cup {Bad}) /\ Len(q) \in Nat
      /\ spc = "push" /\ spc' = "done" /\ free' = free + 1
      /\ UNCHANGED <<mq, others, leaked, enabled, cur, retVal, handed, uploaded>>
  BY LenProperties DEF PushRetry, TypesAndBlocks
<1>1. PICK g \in File : cur = {g}
  BY <1>0 DEF HoldsMessage
<1>2. CASE ok
  <2>1. /\ ~unsettled /\ Len(q) < TableSize /\ q' = Append(q, g)
        /\ UNCHANGED <<unsettled, dropped>>
    BY <1>1, <1>2 DEF PushRetry, Retry!QPush
  <2>2. q' \in Seq(File \cup {Bad}) /\ Len(q') = Len(q) + 1
    BY <1>0, <2>1, AppendProperties
  <2>3. TypesAndBlocks'
    BY <1>0, <2>1, <2>2 DEF TypesAndBlocks
  <2>4. (HoldsMessage /\ RoomForErased)'
    BY <1>0, <1>1, <2>1 DEF HoldsMessage, RoomForErased
  <2>5. ASSUME NEW f \in File
        PROVE  FileOK(f)'
    <3>1. FileOK(f) /\ Count(f, mq) \in Nat /\ Count(f, q) \in Nat
      BY CountsAreNumbers
    <3>2. Count(f, q') = Count(f, q) + IF g = f THEN 1 ELSE 0
      BY <1>0, <2>1, CountAppend
    <3>3. Copies(f)' = Copies(f)
      BY <1>0, <1>1, <3>1, <3>2 DEF Copies, Held
    <3>. QED  BY <1>0, <2>1, <3>1, <3>3 DEF FileOK
  <2>. QED  BY <2>3, <2>4, <2>5
<1>3. CASE ~ok
  <2>1. UNCHANGED <<q, unsettled>> /\ dropped' = dropped \cup (cur \ uploaded)
    BY <1>3 DEF PushRetry
  <2>3. TypesAndBlocks'
    BY <1>0, <2>1 DEF TypesAndBlocks
  <2>4. (HoldsMessage /\ RoomForErased)'
    BY <1>0, <1>1, <2>1 DEF HoldsMessage, RoomForErased
  <2>5. ASSUME NEW f \in File
        PROVE  FileOK(f)'
    <3>1. FileOK(f) /\ Count(f, mq) \in Nat /\ Count(f, q) \in Nat
      BY CountsAreNumbers
    <3>. QED  BY <1>0, <1>1, <2>1, <3>1 DEF FileOK, Copies, Held
  <2>. QED  BY <2>3, <2>4, <2>5
<1>. QED  BY <1>2, <1>3

\* The idle branch of the sender: the front of the retry table.
LEMMA RetryKeepsInv ==
  ASSUME FtpInv, RetryFront \/ RetryKeep \/ RetryPop \/ RetryPopped
  PROVE  FtpInv'
<1> USE SizeAssumption DEF FtpInv, retry, pool, history, SenderBlocks
<1>1. CASE RetryFront
  <2>1. TypesAndBlocks'
    BY <1>1 DEF RetryFront, TypesAndBlocks
  <2>2. (HoldsMessage /\ RoomForErased)'
    BY <1>1 DEF RetryFront, HoldsMessage, RoomForErased
  <2>3. ASSUME NEW f \in File
        PROVE  FileOK(f)'
    <3>1. FileOK(f) /\ Count(f, mq) \in Nat /\ Count(f, q) \in Nat
      BY CountsAreNumbers DEF FtpInv
    <3>. QED  BY <1>1, <3>1 DEF RetryFront, FileOK, Copies, Held
  <2>. QED  BY <2>1, <2>2, <2>3 DEF FtpInv
<1>2. CASE RetryKeep
  <2>1. TypesAndBlocks'
    BY <1>2 DEF RetryKeep, TypesAndBlocks
  <2>2. (HoldsMessage /\ RoomForErased)'
    BY <1>2 DEF RetryKeep, HoldsMessage, RoomForErased
  <2>3. ASSUME NEW f \in File
        PROVE  FileOK(f)'
    <3>1. FileOK(f) /\ Count(f, mq) \in Nat /\ Count(f, q) \in Nat
      BY CountsAreNumbers DEF FtpInv
    <3>. QED  BY <1>2, <3>1 DEF RetryKeep, FileOK, Copies, Held
  <2>. QED  BY <2>1, <2>2, <2>3 DEF FtpInv
<1>3. CASE RetryPop
  <2>0. /\ q \in Seq(File \cup {Bad}) /\ Len(q) \in Nat /\ q # <<>>
        /\ spc = "front" /\ spc' = "pop" /\ free > 0 /\ free' = free - 1
        /\ unsettled' = TRUE
        /\ UNCHANGED <<mq, others, leaked, enabled, cur, retVal, handed, uploaded>>
    BY <1>3, LenProperties DEF RetryPop, Retry!QPop, TypesAndBlocks
  <2>1. Tail(q) \in Seq(File \cup {Bad}) /\ Len(Tail(q)) = Len(q) - 1
    BY <2>0, HeadTailProperties
  <2>2. q' = Tail(q) /\ dropped' = dropped \cup ({Head(q)} \ uploaded)
    BY <1>3 DEF RetryPop, Retry!QPop
  <2>3. TypesAndBlocks'
    BY <2>0, <2>1, <2>2 DEF TypesAndBlocks
  <2>4. (HoldsMessage /\ RoomForErased)'
    BY <2>0, <2>1, <2>2 DEF HoldsMessage, RoomForErased, TypesAndBlocks
  <2>5. ASSUME NEW f \in File
        PROVE  FileOK(f)'
    <3>1. FileOK(f) /\ Count(f, mq) \in Nat /\ Count(f, q) \in Nat
      BY CountsAreNumbers
    <3>2. Count(f, q) = Count(f, q') + IF Head(q) = f THEN 1 ELSE 0
      BY <2>0, <2>2, CountTail
    <3>3. Count(f, q') \in Nat
      BY <2>1, <2>2, PlacesFinite
    <3>4. Held(f) \in Nat /\ Held(f)' = Held(f)
      BY <2>0 DEF Held
    <3>5. /\ Copies(f) \in Nat /\ Copies(f)' \in Nat
          /\ Copies(f) = Copies(f)' + IF Head(q) = f THEN 1 ELSE 0
      BY <2>0, <3>1, <3>2, <3>3, <3>4 DEF Copies
    <3>. QED  BY <2>0, <2>2, <3>1, <3>5 DEF FileOK
  <2>. QED  BY <2>3, <2>4, <2>5
<1>4. CASE RetryPopped
  <2>1. TypesAndBlocks'
    BY <1>4 DEF RetryPopped, TypesAndBlocks, Retry!QSettle
  <2>2. (HoldsMessage /\ RoomForErased)'
    BY <1>4 DEF RetryPopped, HoldsMessage, RoomForErased, Retry!QSettle
  <2>3. ASSUME NEW f \in File
        PROVE  FileOK(f)'
    <3>1. FileOK(f) /\ Count(f, mq) \in Nat /\ Count(f, q) \in Nat
      BY CountsAreNumbers DEF FtpInv
    <3>. QED  BY <1>4, <3>1 DEF RetryPopped, FileOK, Copies, Held, Retry!QSettle
  <2>. QED  BY <2>1, <2>2, <2>3 DEF FtpInv
<1>. QED  BY <1>1, <1>2, <1>3, <1>4

\* A restart loses what was in RAM; the table may get an unreadable entry.
LEMMA RestartKeepsInv ==
  ASSUME FtpInv, Restart
  PROVE  FtpInv'
<1> USE SizeAssumption DEF FtpInv, retry, pool, history, SenderBlocks
<1>0. /\ mq' = <<>> /\ cur' = {} /\ spc' = "pend" /\ enabled' \in BOOLEAN
      /\ free' = PoolSize /\ others' = 0 /\ leaked' = 0 /\ retVal' \in PutResult
      /\ UNCHANGED <<handed, uploaded>>
      /\ dropped' = dropped \cup {f \in handed \ uploaded : Count(f, q) = 0}
  BY DEF Restart
<1>1. q \in Seq(File \cup {Bad}) /\ Len(q) \in Nat
  BY LenProperties DEF TypesAndBlocks
<1>2. \/ unsettled /\ unsettled' = FALSE /\ q' = <<Bad>> \o q
      \/ ~unsettled /\ unsettled' = unsettled /\ q' = q
  BY DEF Restart, Retry!QRestart
<1>7. unsettled' = FALSE
  BY <1>2 DEF RoomForErased
<1>3. /\ q' \in Seq(File \cup {Bad})
      /\ Len(q') = IF unsettled THEN Len(q) + 1 ELSE Len(q)
  <2>1. <<Bad>> \in Seq(File \cup {Bad}) /\ Len(<<Bad>>) = 1
    OBVIOUS
  <2>2. /\ <<Bad>> \o q \in Seq(File \cup {Bad})
        /\ Len(<<Bad>> \o q) = Len(<<Bad>>) + Len(q)
    BY <1>1, <2>1, ConcatProperties
  <2>3. CASE unsettled
    <3>1. q' = <<Bad>> \o q
      BY <1>2, <2>3
    <3>2. Len(<<Bad>> \o q) = Len(q) + 1
      BY <1>1, <2>1, <2>2
    <3> HIDE DEF FtpInv
    <3>. QED  BY <2>2, <2>3, <3>1, <3>2
  <2>4. CASE ~unsettled
    BY <1>1, <1>2, <2>4
  <2>. QED  BY <2>3, <2>4
<1>4. TypesAndBlocks'
  <2>1. Len(q') <= TableSize
    BY <1>1, <1>3 DEF RoomForErased, TypesAndBlocks
  <2>2. mq' \in Seq(File) /\ Len(mq') = 0
    BY <1>0, EmptySeq
  <2>. QED  BY <1>0, <1>3, <2>1, <2>2 DEF TypesAndBlocks
<1>5. (HoldsMessage /\ RoomForErased)'
  BY <1>0, <1>7 DEF HoldsMessage, RoomForErased
<1>6. ASSUME NEW f \in File
      PROVE  FileOK(f)'
  <2>1. FileOK(f) /\ Count(f, mq) \in Nat /\ Count(f, q) \in Nat
    BY CountsAreNumbers
  <2>2. Count(f, q') = Count(f, q)
    <3>1. Bad # f /\ Bad \in File \cup {Bad}
      BY BadAssumption
    <3>2. Count(f, <<Bad>> \o q) = Count(f, q) + IF Bad = f THEN 1 ELSE 0
      BY <1>1, <3>1, CountCons
    <3>3. CASE unsettled
      <4>1. q' = <<Bad>> \o q
        BY <1>2, <3>3
      <4>2. Count(f, <<Bad>> \o q) = Count(f, q)
        BY <2>1, <3>1, <3>2
      <4>. QED  BY <4>1, <4>2
    <3>4. CASE ~unsettled
      BY <1>2, <3>4
    <3>. QED  BY <3>3, <3>4
  <2>3. Count(f, mq') = 0
    BY <1>0, CountEmpty
  <2>4. Copies(f)' = Count(f, q)
    BY <1>0, <2>1, <2>2, <2>3 DEF Copies, Held
  <2>. QED  BY <1>0, <2>1, <2>4 DEF FileOK, Copies, Held
<1>. QED  BY <1>4, <1>5, <1>6

\* Every step of FtpRetry preserves the invariant.
LEMMA FtpInvStep == FtpInv /\ [Next]_vars => FtpInv'
<1> SUFFICES ASSUME FtpInv, [Next]_vars PROVE FtpInv'
  OBVIOUS
<1>1. ASSUME NEW f \in File, AddFile(f) PROVE FtpInv'
  BY <1>1, AddKeepsInv
<1>2. CASE SenderStep
  BY <1>2, TakeKeepsInv, UploadKeepsInv, PushKeepsInv, RetryKeepsInv DEF SenderStep
<1>3. CASE OtherAlloc \/ OtherFree
  BY <1>3, OthersKeepInv
<1>4. CASE Restart
  BY <1>4, RestartKeepsInv
<1>5. CASE UNCHANGED vars
  <2>1. TypesAndBlocks'
    BY <1>5 DEF FtpInv, vars, TypesAndBlocks, SenderBlocks
  <2>2. (HoldsMessage /\ RoomForErased)'
    BY <1>5 DEF FtpInv, vars, HoldsMessage, RoomForErased
  <2>3. ASSUME NEW f \in File
        PROVE  FileOK(f)'
    BY <1>5 DEF FtpInv, vars, FileOK, Copies, Held
  <2>. QED  BY <2>1, <2>2, <2>3 DEF FtpInv
<1>. QED  BY <1>1, <1>2, <1>3, <1>4, <1>5 DEF Next

\* It implies what the runs check.
LEMMA FtpInvImplies == FtpInv => TypeOK /\ OnePlace
<1> SUFFICES ASSUME FtpInv PROVE TypeOK /\ OnePlace
  OBVIOUS
<1>1. Cardinality(cur) + Buffers = SenderBlocks
  <2>1. CASE spc \in {"check", "put", "record", "push", "done"}
    <3>1. Cardinality(cur) = 1
      BY <2>1, CardinalityFacts DEF FtpInv, HoldsMessage
    <3>. QED  BY <2>1, <3>1 DEF Buffers, SenderBlocks
  <2>2. CASE spc \in {"pend", "front", "pop"}
    <3>1. Cardinality(cur) = 0
      BY <2>2, CardinalityFacts DEF FtpInv, HoldsMessage
    <3>. QED  BY <2>2, <3>1 DEF Buffers, SenderBlocks
  <2>. QED  BY <2>1, <2>2 DEF FtpInv, TypesAndBlocks
<1>2. TypeOK
  <2>1. Len(mq) \in Nat
    BY LenProperties DEF FtpInv, TypesAndBlocks
  <2>2. /\ Cardinality(cur) \in Nat /\ Buffers \in Nat
    <3>1. cur = {} \/ \E f \in File : cur = {f}
      BY DEF FtpInv, HoldsMessage
    <3>2. Cardinality(cur) \in Nat
      BY <3>1, CardinalityFacts
    <3>. QED  BY <3>2 DEF Buffers
  <2>3. free + others + leaked + Len(mq) + Cardinality(cur) + Buffers = PoolSize
    <3>1. /\ free + others + leaked + Len(mq) + SenderBlocks = PoolSize
          /\ free \in Nat /\ others \in Nat /\ leaked \in Nat
      BY DEF FtpInv, TypesAndBlocks
    <3> HIDE DEF Buffers, SenderBlocks
    <3>. QED  BY <1>1, <2>1, <2>2, <3>1
  <2>. QED  BY <2>3 DEF FtpInv, TypesAndBlocks, TypeOK
<1>3. ASSUME NEW f \in File
      PROVE  Pending(f) = Copies(f) /\ FileOK(f)
  <2>1. Cardinality((IF spc = "done" THEN {} ELSE cur) \cap {f}) = Held(f)
    BY CardinalityFacts DEF Held
  <2>. QED  BY <2>1 DEF Pending, Copies, FtpInv
<1>4. OnePlace
  BY <1>3 DEF OnePlace, FileOK
<1>. QED  BY <1>2, <1>4

\* The invariant holds in every reachable state.
LEMMA FtpInvHolds == Spec => []FtpInv
BY FtpInvInit, FtpInvStep, PTL DEF Spec

\* Every block of the 272-byte partition is free, with another task, in a
\* message, in a buffer of the sender or leaked by a failed post; the queue and
\* the retry table keep to their limits.
THEOREM BlocksAccountedFor == Spec => []TypeOK
BY FtpInvHolds, FtpInvImplies, PTL

\* A file handed to ftp_add_filename is at the server, dropped at one of the
\* places that give it up, or in exactly one of the queue, the sender and the
\* retry table, across restarts as well.
THEOREM FilesInOnePlace == Spec => []OnePlace
BY FtpInvHolds, FtpInvImplies, PTL

-----------------------------------------------------------------------------
(***************************************************************************)
(* LogUpload: the inductive invariant.                                     *)
(***************************************************************************)
Logging == ppc \in {"file", "row", "rows", "close", "mark"}

\* A log begun in this minute is still under way, or it is marked.
LogsMarked == logs <= 1 /\ (logs > 0 => Logging \/ (logged /\ lastMin = tmMin))

\* The marked minute is not ahead of the clock; a log under way, and a mark
\* of this minute, are of a log begun in it or come late.
MarkOK ==
  /\ lastMin <= tmMin
  /\ ~late /\ Logging => logs > 0
  /\ ~late /\ logged /\ lastMin = tmMin => logs > 0

\* A pass begun in this minute has compared the mark with it.
WholeOK ==
  /\ whole /\ ppc # "sleep" => ready
  /\ whole /\ ppc = "due" /\ logged => lastMin = tmMin
  /\ passes > 0 /\ Due => logged /\ lastMin = tmMin

\* LogTypeOK without FtpRetry's part.
LogTypes ==
  /\ tmMin \in 0 .. MaxMinute /\ lastMin \in 0 .. MaxMinute
  /\ logged \in BOOLEAN /\ ready \in BOOLEAN /\ whole \in BOOLEAN /\ late \in BOOLEAN
  /\ ppc \in {"sleep", "due", "file", "row", "rows", "close", "mark"}
  /\ logs \in Nat /\ passes \in 0 .. 1
  /\ others \in Nat /\ others >= RowHeld

LogInv == LogTypes /\ LogsMarked /\ MarkOK /\ WholeOK

\* Every step of the periodic task and of the clock is one of FtpRetry or
\* leaves it as it is.
LEMMA LogStepIsFtpStep == LogNext => [Next]_vars
<1> SUFFICES ASSUME LogNext PROVE [Next]_vars
  OBVIOUS
<1>1. CASE MinuteTick \/ FirstValues
  BY <1>1 DEF MinuteTick, FirstValues
<1>2. CASE WakeUp \/ NotDue \/ BeginLog \/ NoRow \/ MarkLogged
  BY <1>2 DEF WakeUp, NotDue, BeginLog, NoRow, MarkLogged
<1>3. ASSUME NEW ok \in BOOLEAN, OpenLog(ok) \/ WriteRows(ok)
      PROVE  [Next]_vars
  BY <1>3 DEF OpenLog, WriteRows, Next
<1>4. CASE GetRow \/ CloseLog
  BY <1>4 DEF GetRow, CloseLog, Next
<1>5. CASE SenderStep \/ OtherAlloc \/ OtherFree
  BY <1>5 DEF Next
<1>6. CASE LogRestart
  BY <1>6 DEF LogRestart, Next
<1>. QED  BY <1>1, <1>2, <1>3, <1>4, <1>5, <1>6 DEF LogNext, Periodic

\* Composed with the periodic task and the clock, the upload path behaves as it
\* does alone: what is proved of FtpRetry holds of LogUpload.
THEOREM LogUploadImplementsFtpRetry == LogSpec => Spec
<1>1. LogInit => Init
  BY DEF LogInit
<1>2. [LogNext]_allVars => [Next]_vars
  BY LogStepIsFtpStep DEF allVars
<1>. QED  BY <1>1, <1>2, PTL DEF LogSpec, Spec

\* In the composition too, a file that waits to be sent is in one place.
THEOREM UploadsInOnePlace == LogSpec => []OnePlace
BY LogUploadImplementsFtpRetry, FilesInOnePlace, PTL

\* The clock and the first values.
LEMMA ClockKeepsLogInv ==
  ASSUME LogInv, MinuteTick \/ FirstValues
  PROVE  LogInv'
<1> USE LogAssumption DEF LogInv, clock, periodic, RowHeld, EndPass
<1> USE DEF vars
<1>1. CASE MinuteTick
  <2>0. late' \in BOOLEAN /\ (~late' => ~late /\ ~Logging)
    BY <1>1 DEF MinuteTick, Logging
  <2>4. /\ tmMin' = tmMin + 1 /\ tmMin < MaxMinute /\ logs' = 0 /\ whole' = FALSE /\ passes' = 0
        /\ UNCHANGED <<lastMin, logged, ready, ppc, others>>
    BY <1>1 DEF MinuteTick
  <2>1. LogTypes'
    <3>1. tmMin' \in 0 .. MaxMinute /\ lastMin' \in 0 .. MaxMinute
      BY <2>4 DEF LogTypes
    <3>2. logged' \in BOOLEAN /\ ready' \in BOOLEAN /\ whole' \in BOOLEAN /\ late' \in BOOLEAN
      BY <2>0, <2>4 DEF LogTypes
    <3>3. others' \in Nat /\ others' >= RowHeld' /\ logs' \in Nat /\ passes' \in 0 .. 1
      BY <2>4 DEF LogTypes
    <3>. QED  BY <2>4, <3>1, <3>2, <3>3 DEF LogTypes
  <2>2. LogsMarked' /\ MarkOK'
    BY <2>0, <2>4 DEF LogTypes, LogsMarked, MarkOK, Logging
  <2>3. WholeOK'
    BY <1>1 DEF MinuteTick, LogTypes, LogsMarked, MarkOK, WholeOK, Logging, Due
  <2>. QED  BY <2>1, <2>2, <2>3
<1>2. CASE FirstValues
  <2>1. LogTypes'
    BY <1>2 DEF FirstValues, LogTypes
  <2>2. LogsMarked' /\ MarkOK'
    BY <1>2 DEF FirstValues, LogTypes, LogsMarked, MarkOK, Logging
  <2>3. WholeOK'
    BY <1>2 DEF FirstValues, LogTypes, LogsMarked, MarkOK, WholeOK, Logging, Due
  <2>. QED  BY <2>1, <2>2, <2>3
<1>. QED  BY <1>1, <1>2

\* A pass of the periodic task.
LEMMA PeriodicKeepsLogInv ==
  ASSUME LogInv, Periodic
  PROVE  LogInv'
<1> USE LogAssumption DEF LogInv, clock, periodic, RowHeld, EndPass
<1> USE DEF vars
<1>1. CASE WakeUp
  <2>1. LogTypes'
    BY <1>1 DEF WakeUp, LogTypes
  <2>2. LogsMarked' /\ MarkOK'
    BY <1>1 DEF WakeUp, LogTypes, LogsMarked, MarkOK, Logging
  <2>3. WholeOK'
    BY <1>1 DEF WakeUp, LogTypes, LogsMarked, MarkOK, WholeOK, Logging, Due
  <2>. QED  BY <2>1, <2>2, <2>3
<1>2. CASE NotDue
  <2>1. LogTypes'
    BY <1>2 DEF NotDue, LogTypes
  <2>2. LogsMarked' /\ MarkOK'
    BY <1>2 DEF NotDue, LogTypes, LogsMarked, MarkOK, Logging
  <2>3. WholeOK'
    BY <1>2 DEF NotDue, LogTypes, LogsMarked, MarkOK, WholeOK, Logging, Due
  <2>. QED  BY <2>1, <2>2, <2>3
<1>3. CASE BeginLog
  <2>1. LogTypes'
    BY <1>3 DEF BeginLog, LogTypes
  <2>2. LogsMarked' /\ MarkOK'
    BY <1>3 DEF BeginLog, LogTypes, LogsMarked, MarkOK, Logging
  <2>3. WholeOK'
    BY <1>3 DEF BeginLog, LogTypes, LogsMarked, MarkOK, WholeOK, Logging, Due
  <2>. QED  BY <2>1, <2>2, <2>3
<1>4. ASSUME NEW ok \in BOOLEAN, OpenLog(ok)
      PROVE  LogInv'
  <2>1. LogTypes'
    BY <1>4 DEF OpenLog, LogTypes
  <2>2. LogsMarked' /\ MarkOK'
    BY <1>4 DEF OpenLog, LogTypes, LogsMarked, MarkOK, Logging
  <2>3. WholeOK'
    BY <1>4 DEF OpenLog, LogTypes, LogsMarked, MarkOK, WholeOK, Logging, Due
  <2>. QED  BY <2>1, <2>2, <2>3
<1>5. ASSUME NEW ok \in BOOLEAN, WriteRows(ok)
      PROVE  LogInv'
  <2>1. LogTypes'
    BY <1>5 DEF WriteRows, LogTypes, OtherFree
  <2>2. LogsMarked' /\ MarkOK'
    BY <1>5 DEF WriteRows, LogTypes, LogsMarked, MarkOK, Logging, OtherFree
  <2>3. WholeOK'
    BY <1>5 DEF WriteRows, LogTypes, LogsMarked, MarkOK, WholeOK, Logging, Due, OtherFree
  <2>. QED  BY <2>1, <2>2, <2>3
<1>6. CASE NoRow
  <2>1. LogTypes'
    BY <1>6 DEF NoRow, LogTypes
  <2>2. LogsMarked' /\ MarkOK'
    BY <1>6 DEF NoRow, LogTypes, LogsMarked, MarkOK, Logging
  <2>3. WholeOK'
    BY <1>6 DEF NoRow, LogTypes, LogsMarked, MarkOK, WholeOK, Logging, Due
  <2>. QED  BY <2>1, <2>2, <2>3
<1>7. CASE GetRow
  <2>1. LogTypes'
    BY <1>7 DEF GetRow, LogTypes, OtherAlloc
  <2>2. LogsMarked' /\ MarkOK'
    BY <1>7 DEF GetRow, LogTypes, LogsMarked, MarkOK, Logging, OtherAlloc
  <2>3. WholeOK'
    BY <1>7 DEF GetRow, LogTypes, LogsMarked, MarkOK, WholeOK, Logging, Due, OtherAlloc
  <2>. QED  BY <2>1, <2>2, <2>3
<1>8. CASE CloseLog
  <2>1. LogTypes'
    BY <1>8 DEF CloseLog, LogTypes, AddFile
  <2>2. LogsMarked' /\ MarkOK'
    BY <1>8 DEF CloseLog, LogTypes, LogsMarked, MarkOK, Logging, AddFile
  <2>3. WholeOK'
    BY <1>8 DEF CloseLog, LogTypes, LogsMarked, MarkOK, WholeOK, Logging, Due, AddFile
  <2>. QED  BY <2>1, <2>2, <2>3
<1>9. CASE MarkLogged
  <2>1. LogTypes'
    BY <1>9 DEF MarkLogged, LogTypes
  <2>2. LogsMarked' /\ MarkOK'
    BY <1>9 DEF MarkLogged, LogTypes, LogsMarked, MarkOK, Logging
  <2>3. WholeOK'
    BY <1>9 DEF MarkLogged, LogTypes, LogsMarked, MarkOK, WholeOK, Logging, Due
  <2>. QED  BY <2>1, <2>2, <2>3
<1>. QED  BY <1>1, <1>2, <1>3, <1>4, <1>5, <1>6, <1>7, <1>8, <1>9 DEF Periodic

\* The sender and the other tasks leave the periodic task alone.
LEMMA UploadKeepsLogInv ==
  ASSUME LogInv, UNCHANGED <<clock, periodic>>,
         SenderStep \/ OtherAlloc \/ (others > RowHeld /\ OtherFree)
  PROVE  LogInv'
<1> USE LogAssumption DEF LogInv, clock, periodic, RowHeld, EndPass
<1>1. others' \in Nat /\ others' >= RowHeld
  <2>1. CASE SenderStep
    <3>1. others' = others
      BY <2>1 DEF SenderStep, Take, Check, Put, pool, MakeRecord, PushRetry, Done, RetryFront,
                  RetryKeep, RetryPop, RetryPopped
    <3>. QED  BY <3>1 DEF LogTypes
  <2>2. CASE OtherAlloc
    BY <2>2 DEF OtherAlloc, LogTypes
  <2>3. CASE others > RowHeld /\ OtherFree
    BY <2>3 DEF OtherFree, LogTypes
  <2>. QED  BY <2>1, <2>2, <2>3
<1>2. LogTypes'
  BY <1>1 DEF LogTypes
<1>3. (LogsMarked /\ MarkOK /\ WholeOK)'
  BY DEF LogsMarked, MarkOK, WholeOK, Logging, Due
<1>. QED  BY <1>2, <1>3

\* Every step of the composition preserves the invariant.
LEMMA LogInvStep == LogInv /\ [LogNext]_allVars => LogInv'
<1> SUFFICES ASSUME LogInv, [LogNext]_allVars PROVE LogInv'
  OBVIOUS
<1>1. CASE MinuteTick \/ FirstValues
  BY <1>1, ClockKeepsLogInv
<1>2. CASE Periodic
  BY <1>2, PeriodicKeepsLogInv
<1>3. CASE (SenderStep \/ OtherAlloc \/ (others > RowHeld /\ OtherFree)) /\ UNCHANGED <<clock, periodic>>
  BY <1>3, UploadKeepsLogInv
<1>4. CASE LogRestart
  <2>1. /\ lastMin' = 0 /\ logged' = FALSE /\ ready' = FALSE /\ ppc' = "sleep"
        /\ logs' = 0 /\ whole' = FALSE /\ passes' = 0 /\ late' = FALSE
        /\ tmMin' = tmMin /\ others' = 0
    BY <1>4 DEF LogRestart, Restart
  <2>2. LogTypes'
    <3>1. tmMin' \in 0 .. MaxMinute /\ lastMin' \in 0 .. MaxMinute
      BY <2>1, LogAssumption DEF LogInv, LogTypes
    <3>2. logged' \in BOOLEAN /\ ready' \in BOOLEAN /\ whole' \in BOOLEAN /\ late' \in BOOLEAN
      BY <2>1
    <3>3. others' \in Nat /\ others' >= RowHeld' /\ logs' \in Nat /\ passes' \in 0 .. 1
      BY <2>1 DEF RowHeld
    <3>. QED  BY <2>1, <3>1, <3>2, <3>3 DEF LogTypes
  <2>3. LogsMarked' /\ MarkOK'
    BY <2>1 DEF LogInv, LogTypes, LogsMarked, MarkOK, Logging
  <2>4. WholeOK'
    BY <2>1 DEF WholeOK
  <2>. QED  BY <2>2, <2>3, <2>4 DEF LogInv
<1>5. CASE UNCHANGED allVars
  BY <1>5 DEF allVars, vars, clock, periodic, LogInv, LogTypes, LogsMarked, MarkOK, WholeOK,
              Logging, RowHeld, Due
<1>. QED  BY <1>1, <1>2, <1>3, <1>4, <1>5 DEF LogNext

\* The invariant holds in every reachable state.
LEMMA LogInvHolds == LogSpec => []LogInv
<1>1. LogInit => LogInv
  <2> SUFFICES ASSUME LogInit PROVE LogInv
    OBVIOUS
  <2>1. LogTypes
    <3>1. tmMin \in 0 .. MaxMinute /\ lastMin \in 0 .. MaxMinute
      BY LogAssumption DEF LogInit
    <3>2. logged \in BOOLEAN /\ ready \in BOOLEAN /\ whole \in BOOLEAN /\ late \in BOOLEAN
      BY DEF LogInit
    <3>3. others \in Nat /\ others >= RowHeld /\ ppc = "sleep"
      BY DEF LogInit, Init, RowHeld
    <3>4. logs \in Nat /\ passes \in 0 .. 1
      BY DEF LogInit
    <3>. QED  BY <3>1, <3>2, <3>3, <3>4 DEF LogTypes
  <2>2. LogsMarked /\ MarkOK
    BY DEF LogInit, LogsMarked, MarkOK, Logging
  <2>3. WholeOK
    BY DEF LogInit, WholeOK
  <2>. QED  BY <2>1, <2>2, <2>3 DEF LogInv
<1>. QED  BY <1>1, LogInvStep, PTL DEF LogSpec

\* The types, and that the block of a row is among those that the FTP task
\* counts as other tasks'.
THEOREM LogTypeCorrect == LogSpec => []LogTypeOK
<1>1. TypeOK /\ LogInv => LogTypeOK
  BY DEF LogInv, LogTypes, LogTypeOK
<1>. QED  BY <1>1, LogInvHolds, LogUploadImplementsFtpRetry, BlocksAccountedFor, PTL

\* A minute gets one log file at most, although App_TaskPeriodic reads tm_min
\* three times in a pass and the clock may move before each.
THEOREM OneLogInAMinute == LogSpec => []OneLogAMinute
<1>1. LogInv => OneLogAMinute
  BY DEF LogInv, LogsMarked, OneLogAMinute
<1>. QED  BY <1>1, LogInvHolds, PTL

\* A due minute with a whole pass has its log, unless a late one has marked it.
THEOREM DueMinutesAreLogged == LogSpec => []DueIsLogged
<1>1. LogInv => DueIsLogged
  BY DEF LogInv, LogTypes, MarkOK, WholeOK, DueIsLogged
<1>. QED  BY <1>1, LogInvHolds, PTL
=============================================================================
