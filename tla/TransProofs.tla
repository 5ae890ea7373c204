---------------------------- MODULE TransProofs ----------------------------
(***************************************************************************)
(* Proofs about Trans, for any frames, limits and peers.                   *)
(***************************************************************************)
EXTENDS Trans, SequenceTheorems, NaturalsInduction, WellFoundedInduction, TLAPS

-----------------------------------------------------------------------------
(***************************************************************************)
(* Sets of natural numbers: the least element, and induction, for sets     *)
(* instead of operators.                                                   *)
(***************************************************************************)
LEMMA LeastNumber ==
  ASSUME NEW T \in SUBSET Nat, T # {}
  PROVE  \E x \in T : \A y \in T : x <= y
<1> DEFINE Less == OpToRel(<, Nat)
<1>1. IsWellFoundedOn(Less, Nat)
  BY NatLessThanWellFounded
<1>2. PICK x \in T : \A y \in T : ~(<<y, x>> \in Less)
  <2> HIDE DEF Less
  <2>. QED  BY <1>1, WFMin
<1>3. ASSUME NEW y \in T
      PROVE  x <= y
  <2>1. x \in Nat /\ y \in Nat
    OBVIOUS
  <2>2. y < x => <<y, x>> \in Less
    BY <2>1 DEF OpToRel
  <2>3. ~(<<y, x>> \in Less)
    BY <1>2 DEF OpToRel
  <2> HIDE DEF Less
  <2>. QED  BY <2>1, <2>2, <2>3
<1>. QED  BY <1>3

\* A set of numbers that has 0 and, with a number, the next one is all of Nat.
LEMMA InductionOnSet ==
  ASSUME NEW T \in SUBSET Nat, 0 \in T, \A n \in T : n + 1 \in T
  PROVE  T = Nat
<1> SUFFICES ASSUME Nat \ T # {} PROVE FALSE
  OBVIOUS
<1>1. PICK x \in Nat \ T : \A y \in Nat \ T : x <= y
  BY LeastNumber
<1>2. x - 1 \in Nat /\ x - 1 \notin Nat \ T
  BY <1>1
<1>3. (x - 1) + 1 \in T
  BY <1>2
<1>. QED  BY <1>1, <1>3

-----------------------------------------------------------------------------
(***************************************************************************)
(* Queues: the frames in one, and that each is in it once.                 *)
(***************************************************************************)
Once(s) == \A i, j \in 1 .. Len(s) : s[i] = s[j] => i = j

\* What a queue holds.
LEMMA ElemsType ==
  ASSUME NEW X, NEW s \in Seq(X)
  PROVE  /\ Elems(s) = {s[i] : i \in 1 .. Len(s)}
         /\ Elems(s) \subseteq X
<1>1. DOMAIN s = 1 .. Len(s) /\ \A i \in 1 .. Len(s) : s[i] \in X
  BY LenProperties
<1>. QED  BY <1>1 DEF Elems

\* The empty queue holds nothing.
LEMMA EmptyQueue ==
  /\ Elems(<<>>) = {} /\ Once(<<>>)
BY DEF Elems, Once

\* Queue_Push at the end.
LEMMA Appended ==
  ASSUME NEW X, NEW s \in Seq(X), NEW e \in X
  PROVE  /\ Append(s, e) \in Seq(X)
         /\ Elems(Append(s, e)) = Elems(s) \cup {e}
         /\ Once(s) /\ e \notin Elems(s) => Once(Append(s, e))
<1> DEFINE t == Append(s, e)
<1>1. /\ t \in Seq(X) /\ Len(s) \in Nat /\ Len(t) = Len(s) + 1
      /\ \A i \in 1 .. Len(s) : t[i] = s[i]
      /\ t[Len(s) + 1] = e
  BY AppendProperties, LenProperties
<1>2. Elems(s) = {s[i] : i \in 1 .. Len(s)} /\ Elems(t) = {t[i] : i \in 1 .. Len(t)}
  BY <1>1, ElemsType
<1> HIDE DEF t
<1>3. Elems(t) = Elems(s) \cup {e}
  <2>1. ASSUME NEW i \in 1 .. Len(t) PROVE t[i] \in Elems(s) \cup {e}
    BY <1>1, <1>2
  <2>2. e \in Elems(t)
    BY <1>1, <1>2
  <2>3. ASSUME NEW i \in 1 .. Len(s) PROVE s[i] \in Elems(t)
    BY <1>1, <1>2
  <2>. QED  BY <1>2, <2>1, <2>2, <2>3
<1>4. ASSUME Once(s), e \notin Elems(s)
      PROVE  Once(t)
  <2> SUFFICES ASSUME NEW i \in 1 .. Len(t), NEW j \in 1 .. Len(t), t[i] = t[j]
               PROVE  i = j
    BY DEF Once
  <2>1. CASE i \in 1 .. Len(s) /\ j \in 1 .. Len(s)
    BY <1>1, <1>4, <2>1 DEF Once
  <2>2. CASE i \notin 1 .. Len(s) /\ j \in 1 .. Len(s)
    BY <1>1, <1>2, <1>4, <2>2
  <2>3. CASE i \in 1 .. Len(s) /\ j \notin 1 .. Len(s)
    BY <1>1, <1>2, <1>4, <2>3
  <2>4. CASE i \notin 1 .. Len(s) /\ j \notin 1 .. Len(s)
    BY <1>1, <2>4
  <2>. QED  BY <2>1, <2>2, <2>3, <2>4
<1>. QED  BY <1>1, <1>3, <1>4 DEF t

\* Queue_Pop takes the first buffer; the rest keep their order.
LEMMA Headed ==
  ASSUME NEW X, NEW s \in Seq(X), s # <<>>
  PROVE  /\ Head(s) \in X /\ Head(s) \in Elems(s) /\ Tail(s) \in Seq(X)
         /\ Elems(Tail(s)) \subseteq Elems(s)
         /\ Elems(s) = Elems(Tail(s)) \cup {Head(s)}
         /\ Once(s) => Once(Tail(s)) /\ Head(s) \notin Elems(Tail(s))
<1> DEFINE t == Tail(s)
<1>1. /\ t \in Seq(X) /\ Len(s) \in Nat /\ Len(s) > 0 /\ Len(t) = Len(s) - 1
      /\ \A i \in 1 .. Len(t) : t[i] = s[i + 1]
      /\ Head(s) = s[1] /\ Head(s) \in X
  BY HeadTailProperties, LenProperties, EmptySeq
<1>2. Elems(s) = {s[i] : i \in 1 .. Len(s)} /\ Elems(t) = {t[i] : i \in 1 .. Len(t)}
  BY <1>1, ElemsType
<1> HIDE DEF t
<1>3. ASSUME NEW i \in 1 .. Len(t)
      PROVE  i + 1 \in 1 .. Len(s) /\ t[i] = s[i + 1]
  BY <1>1
<1>4. s[1] \in Elems(s)
  BY <1>1, <1>2
<1>5. Elems(t) \subseteq Elems(s)
  BY <1>2, <1>3
<1>6. ASSUME NEW i \in 1 .. Len(s), i # 1
      PROVE  s[i] \in Elems(t)
  <2>1. i - 1 \in 1 .. Len(t) /\ (i - 1) + 1 = i
    BY <1>1, <1>6
  <2>. QED  BY <1>2, <1>3, <2>1
<1>7. Elems(s) \subseteq Elems(t) \cup {s[1]}
  BY <1>2, <1>6
<1>8. ASSUME Once(s)
      PROVE  Once(t) /\ s[1] \notin Elems(t)
  <2>1. Once(t)
    <3> SUFFICES ASSUME NEW i \in 1 .. Len(t), NEW j \in 1 .. Len(t), t[i] = t[j]
                 PROVE  i = j
      BY DEF Once
    <3>1. i + 1 = j + 1
      BY <1>3, <1>8 DEF Once
    <3>. QED  BY <1>1, <3>1
  <2>2. ASSUME NEW i \in 1 .. Len(t) PROVE t[i] # s[1]
    <3>1. i + 1 # 1 /\ 1 \in 1 .. Len(s)
      BY <1>1
    <3>. QED  BY <1>3, <1>8, <3>1 DEF Once
  <2>. QED  BY <1>2, <2>1, <2>2
<1>. QED  BY <1>1, <1>4, <1>5, <1>7, <1>8 DEF t

\* Two queues one behind the other, as the frames to be sent again join dataQ.
LEMMA Joined ==
  ASSUME NEW X, NEW s \in Seq(X), NEW t \in Seq(X)
  PROVE  /\ s \o t \in Seq(X)
         /\ Elems(s \o t) = Elems(s) \cup Elems(t)
         /\ Once(s) /\ Once(t) /\ Elems(s) \cap Elems(t) = {} => Once(s \o t)
<1> DEFINE u == s \o t
<1>1. /\ u \in Seq(X) /\ Len(s) \in Nat /\ Len(t) \in Nat
      /\ Len(u) = Len(s) + Len(t)
      /\ \A i \in 1 .. Len(s) + Len(t) :
           u[i] = IF i <= Len(s) THEN s[i] ELSE t[i - Len(s)]
  BY ConcatProperties, LenProperties
<1>2. /\ Elems(s) = {s[i] : i \in 1 .. Len(s)} /\ Elems(t) = {t[i] : i \in 1 .. Len(t)}
      /\ Elems(u) = {u[i] : i \in 1 .. Len(u)}
  BY <1>1, ElemsType
<1> HIDE DEF u
<1>3. ASSUME NEW i \in 1 .. Len(u)
      PROVE  \/ i \in 1 .. Len(s) /\ u[i] = s[i] /\ u[i] \in Elems(s)
             \/ /\ i - Len(s) \in 1 .. Len(t) /\ u[i] = t[i - Len(s)]
                /\ u[i] \in Elems(t)
  BY <1>1, <1>2
<1>4. ASSUME NEW i \in 1 .. Len(s) PROVE s[i] \in Elems(u)
  <2>1. i \in 1 .. Len(u) /\ u[i] = s[i]
    BY <1>1
  <2>. QED  BY <1>2, <2>1
<1>5. ASSUME NEW i \in 1 .. Len(t) PROVE t[i] \in Elems(u)
  <2>1. /\ i + Len(s) \in 1 .. Len(u) /\ ~(i + Len(s) <= Len(s))
        /\ (i + Len(s)) - Len(s) = i
    BY <1>1
  <2>2. u[i + Len(s)] = t[i]
    BY <1>1, <2>1
  <2>. QED  BY <1>2, <2>1, <2>2
<1>6. Elems(u) = Elems(s) \cup Elems(t)
  BY <1>2, <1>3, <1>4, <1>5
<1>7. ASSUME Once(s), Once(t), Elems(s) \cap Elems(t) = {}
      PROVE  Once(u)
  <2> SUFFICES ASSUME NEW i \in 1 .. Len(u), NEW j \in 1 .. Len(u), u[i] = u[j]
               PROVE  i = j
    BY DEF Once
  <2>1. CASE i \in 1 .. Len(s) /\ j \in 1 .. Len(s)
    BY <1>1, <1>7, <2>1 DEF Once
  <2>2. CASE i \notin 1 .. Len(s) /\ j \notin 1 .. Len(s)
    <3>1. i - Len(s) = j - Len(s)
      BY <1>3, <1>7, <2>2 DEF Once
    <3>. QED  BY <1>1, <3>1
  <2>3. CASE i \in 1 .. Len(s) /\ j \notin 1 .. Len(s)
    <3>1. u[i] \in Elems(s) /\ u[j] \in Elems(t)
      BY <1>2, <1>3, <2>3
    <3>. QED  BY <1>7, <3>1
  <2>4. CASE i \notin 1 .. Len(s) /\ j \in 1 .. Len(s)
    <3>1. u[i] \in Elems(t) /\ u[j] \in Elems(s)
      BY <1>2, <1>3, <2>4
    <3>. QED  BY <1>7, <3>1
  <2>. QED  BY <2>1, <2>2, <2>3, <2>4
<1>. QED  BY <1>1, <1>6, <1>7 DEF u

-----------------------------------------------------------------------------
(***************************************************************************)
(* Without.  Its recursive function exists, by induction on the length of  *)
(* the part of the queue it has been defined on.                           *)
(***************************************************************************)
KeptStep(s, S, g, i) ==
  IF i = 0 THEN <<>>
  ELSE IF s[i] \in S THEN g[i - 1] ELSE Append(g[i - 1], s[i])

KeptExistsTo(s, S, n) == \E g : g = [i \in 0 .. n |-> KeptStep(s, S, g, i)]

\* The recursion that Without is written with has a solution.
LEMMA KeptExists ==
  ASSUME NEW s, NEW S, NEW m \in Nat
  PROVE  KeptExistsTo(s, S, m)
<1> DEFINE T == {n \in Nat : KeptExistsTo(s, S, n)}
<1>1. 0 \in T
  <2> DEFINE g == [i \in 0 .. 0 |-> <<>>]
  <2>1. g = [i \in 0 .. 0 |-> KeptStep(s, S, g, i)]
    BY DEF KeptStep
  <2>. QED  BY <2>1 DEF KeptExistsTo
<1>2. ASSUME NEW n \in T
      PROVE  n + 1 \in T
  <2>1. PICK g : g = [i \in 0 .. n |-> KeptStep(s, S, g, i)]
    BY DEF KeptExistsTo
  <2> DEFINE h == [i \in 0 .. n + 1 |->
                     IF i <= n THEN g[i] ELSE KeptStep(s, S, g, i)]
  <2>2. ASSUME NEW i \in 0 .. n + 1
        PROVE  h[i] = KeptStep(s, S, h, i)
    <3>1. CASE i = 0
      <4>1. h[i] = g[i] /\ i \in 0 .. n
        BY <3>1
      <4>2. g[i] = KeptStep(s, S, g, i)
        BY <2>1, <4>1
      <4>. QED  BY <3>1, <4>1, <4>2 DEF KeptStep
    <3>2. CASE i # 0
      <4>1. i - 1 \in 0 .. n + 1 /\ i - 1 <= n
        BY <3>2
      <4>2. h[i - 1] = g[i - 1]
        BY <4>1
      <4>3. KeptStep(s, S, h, i) = KeptStep(s, S, g, i)
        BY <3>2, <4>2 DEF KeptStep
      <4>4. h[i] = KeptStep(s, S, g, i)
        <5>1. CASE i <= n
          <6>1. h[i] = g[i] /\ i \in 0 .. n
            BY <5>1
          <6>. QED  BY <2>1, <6>1
        <5>2. CASE ~(i <= n)
          BY <5>2
        <5>. QED  BY <5>1, <5>2
      <4>. QED  BY <4>3, <4>4
    <3>. QED  BY <3>1, <3>2
  <2>3. h = [i \in 0 .. n + 1 |-> h[i]]
    OBVIOUS
  <2> HIDE DEF h
  <2>4. h = [i \in 0 .. n + 1 |-> KeptStep(s, S, h, i)]
    BY <2>2, <2>3, Zenon
  <2>5. n + 1 \in Nat
    OBVIOUS
  <2>. QED  BY <2>4, <2>5 DEF KeptExistsTo
<1> HIDE DEF T
<1>3. T \in SUBSET Nat
  BY DEF T
<1>4. T = Nat
  BY <1>1, <1>2, <1>3, InductionOnSet
<1>. QED  BY <1>4 DEF T

\* Without is that recursion, run to the end of the queue.
LEMMA WithoutIsKept ==
  ASSUME NEW X, NEW s \in Seq(X), NEW S
  PROVE  \E g : /\ g = [i \in 0 .. Len(s) |-> KeptStep(s, S, g, i)]
                /\ Without(s, S) = g[Len(s)]
<1> DEFINE k == CHOOSE g : g = [i \in 0 .. Len(s) |-> KeptStep(s, S, g, i)]
<1>1. KeptExistsTo(s, S, Len(s))
  BY KeptExists, LenProperties
<1>2. k = [i \in 0 .. Len(s) |-> KeptStep(s, S, k, i)]
  BY <1>1 DEF KeptExistsTo
<1>3. Without(s, S) = k[Len(s)]
  BY DEF Without, KeptStep
<1> HIDE DEF k
<1>. QED  BY <1>2, <1>3

\* What Without computes: the queue without the buffers of S, each still once.
LEMMA Removed ==
  ASSUME NEW X, NEW s \in Seq(X), NEW S
  PROVE  /\ Without(s, S) \in Seq(X)
         /\ Elems(Without(s, S)) = Elems(s) \ S
         /\ Once(s) => Once(Without(s, S))
<1> DEFINE Front(i) == {s[j] : j \in 1 .. i} \ S
           Good(r, i) == /\ r \in Seq(X) /\ Elems(r) = Front(i)
                         /\ Once(s) => Once(r)
<1>1. PICK g : /\ g = [i \in 0 .. Len(s) |-> KeptStep(s, S, g, i)]
               /\ Without(s, S) = g[Len(s)]
  BY WithoutIsKept
<1>2. Len(s) \in Nat /\ \A i \in 1 .. Len(s) : s[i] \in X
  BY LenProperties
<1> DEFINE T == {i \in Nat : i <= Len(s) => Good(g[i], i)}
<1>3. 0 \in T
  <2>1. g[0] = <<>>
    BY <1>1, <1>2 DEF KeptStep
  <2>2. Front(0) = {}
    OBVIOUS
  <2>3. g[0] \in Seq(X) /\ Elems(g[0]) = {} /\ Once(g[0])
    BY <2>1, EmptyQueue
  <2>4. Good(g[0], 0)
    BY <2>2, <2>3
  <2>. QED  BY <2>4
<1>4. ASSUME NEW n \in T
      PROVE  n + 1 \in T
  <2> SUFFICES ASSUME n + 1 <= Len(s) PROVE Good(g[n + 1], n + 1)
    OBVIOUS
  <2>1. /\ n \in Nat /\ n \in 0 .. Len(s) /\ n + 1 \in 1 .. Len(s)
        /\ n + 1 \in 0 .. Len(s) /\ (n + 1) - 1 = n /\ n + 1 # 0
    BY <1>2
  <2>2. Good(g[n], n)
    BY <1>2, <2>1
  <2> DEFINE e == s[n + 1]
  <2>3. g[n + 1] = IF e \in S THEN g[n] ELSE Append(g[n], e)
    <3>1. g[n + 1] = KeptStep(s, S, g, n + 1)
      BY <1>1, <2>1
    <3>. QED  BY <2>1, <3>1 DEF KeptStep
  <2>4. {s[j] : j \in 1 .. n + 1} = {s[j] : j \in 1 .. n} \cup {e}
    <3>1. 1 .. n + 1 = (1 .. n) \cup {n + 1}
      BY <2>1
    <3>. QED  BY <3>1
  <2>5. CASE e \in S
    BY <2>2, <2>3, <2>4, <2>5
  <2>6. CASE e \notin S
    <3>1. e \in X
      BY <1>2, <2>1
    <3>2. ASSUME Once(s)
          PROVE  e \notin Elems(g[n])
      <4>1. ASSUME NEW j \in 1 .. n PROVE s[j] # e
        <5>1. j \in 1 .. Len(s) /\ j # n + 1
          BY <1>2, <2>1
        <5>. QED  BY <2>1, <3>2, <5>1 DEF Once
      <4>. QED  BY <2>2, <4>1
    <3>3. Front(n + 1) = Front(n) \cup {e}
      BY <2>4, <2>6
    <3> HIDE DEF e
    <3>. QED  BY <2>2, <2>3, <2>6, <3>1, <3>2, <3>3, Appended
  <2>. QED  BY <2>5, <2>6
<1> HIDE DEF T
<1>5. T = Nat
  <2>1. T \in SUBSET Nat
    BY DEF T
  <2>. QED  BY <1>3, <1>4, <2>1, InductionOnSet
<1>6. Good(g[Len(s)], Len(s))
  <2>1. Len(s) \in T /\ Len(s) <= Len(s)
    BY <1>2, <1>5
  <2> HIDE DEF Good
  <2>. QED  BY <2>1 DEF T
<1>7. Front(Len(s)) = Elems(s) \ S
  BY ElemsType
<1>. QED  BY <1>1, <1>6, <1>7

\* The walk of the sent queue stays inside it.
LEMMA WalkedInQueue ==
  ASSUME sentQ \in Seq(AckReq)
  PROVE  Walked \subseteq DOMAIN sentQ
<1> DEFINE again == {i \in DOMAIN sentQ : Again(i)}
<1>1. DOMAIN sentQ = 1 .. Len(sentQ) /\ Len(sentQ) \in Nat
  BY LenProperties
<1>2. CASE again = {}
  BY <1>2 DEF Walked
<1>3. CASE again # {}
  <2>1. again \in SUBSET Nat /\ again \subseteq 1 .. Len(sentQ)
    BY <1>1
  <2>2. Walked = 1 .. FirstIn(again)
    BY <1>3 DEF Walked
  <2> HIDE DEF again
  <2>3. \E x \in again : \A y \in again : x <= y
    BY <1>3, <2>1, LeastNumber
  <2>4. FirstIn(again) \in again
    BY <2>3 DEF FirstIn
  <2>5. FirstIn(again) \in 1 .. Len(sentQ)
    BY <2>1, <2>4
  <2>. QED  BY <1>1, <2>2, <2>5
<1>. QED  BY <1>2, <1>3

-----------------------------------------------------------------------------
(***************************************************************************)
(* The invariant behind TypeOK.  A timeout only ever counts down a frame   *)
(* that still has a tick to wait (Places), no step uses sMemSend before a  *)
(* frame has been taken, and layer 1 is sending only while layer 2 waits   *)
(* for it (Shape).                                                         *)
(***************************************************************************)
Data == Elems(dataQ)
Cmds == Elems(cmdQ)
Sent == Elems(sentQ)
Held == bSending \/ pc = "sent"

Shape ==
  /\ mem = None => ~bSending /\ ~l1Timer /\ pc \notin {"timer", "sent"}
  /\ pc = "sent" => ~bSending
  /\ bL1Sending => bSending /\ bWaitingL1Send

Places ==
  /\ Once(dataQ) /\ Once(sentQ) /\ Data \cap Sent = {}
  /\ Held => mem \notin Data \cup Sent
  /\ Data \cup Sent \subseteq tried
  /\ Held /\ mem \in Frame => mem \in tried /\ timeOut[mem] >= 1
  /\ \A b \in Data \cup Sent : timeOut[b] >= 1

TransInv == TypeOK /\ Shape /\ Places

\* The constants as sets and numbers.
LEMMA Constants ==
  /\ AckReq \subseteq Frame /\ Frame \cap Cmd = {} /\ None \notin Buffer
  /\ Frame \subseteq Buffer /\ Cmd \subseteq Buffer /\ Buffer = Frame \cup Cmd
  /\ MaxNumSend \in Nat /\ MaxNumSend >= 1
  /\ TimeOutTick \in Nat /\ TimeOutTick >= 1
  /\ NumSendMod \in Nat /\ MaxNumSend < NumSendMod /\ MaxInbox \in Nat
BY FrameAssumption, LimitAssumption DEF Buffer

\* What the type invariant says of the frames in the queues.
LEMMA QueueFacts ==
  ASSUME TypeOK
  PROVE  /\ Data \subseteq Frame /\ Cmds \subseteq Cmd /\ Sent \subseteq AckReq
         /\ Data \subseteq Buffer /\ Cmds \subseteq Buffer /\ Sent \subseteq Buffer
<1>1. Data \subseteq Frame
  BY ElemsType DEF TypeOK, Data
<1>2. Cmds \subseteq Cmd
  BY ElemsType DEF TypeOK, Cmds
<1>3. Sent \subseteq AckReq
  BY ElemsType DEF TypeOK, Sent
<1>. QED  BY <1>1, <1>2, <1>3, Constants

\* The bounds of the numbers that the frames carry.
LEMMA NumberFacts ==
  ASSUME TypeOK, NEW b \in Buffer
  PROVE  /\ numSend[b] \in 0 .. NumSendMod - 1 /\ numSend[b] \in Nat
         /\ timeOut[b] \in 0 .. TimeOutTick /\ timeOut[b] \in Nat
BY Constants DEF TypeOK

\* Queues of the right type hold buffers.
LEMMA QueuesKept ==
  ASSUME UNCHANGED queues
  PROVE  /\ UNCHANGED <<Data, Cmds, Sent>>
         /\ Once(dataQ)' = Once(dataQ) /\ Once(sentQ)' = Once(sentQ)
         /\ Once(cmdQ)' = Once(cmdQ)
BY DEF queues, Data, Cmds, Sent, Once

\* A message of the peer is put in the inbox, or taken from it.
LEMMA InboxPut ==
  ASSUME TypeOK, NEW m \in Message, Len(inbox) < MaxInbox
  PROVE  Append(inbox, m) \in Seq(Message) /\ Len(Append(inbox, m)) <= MaxInbox
<1>1. inbox \in Seq(Message) /\ Len(inbox) \in Nat
  BY LenProperties DEF TypeOK
<1>. QED  BY <1>1, AppendProperties, Constants

\* The receive handlers take the first message.
LEMMA InboxTake ==
  ASSUME TypeOK, NEW type, Receive(type)
  PROVE  /\ inbox' \in Seq(Message) /\ Len(inbox') <= MaxInbox
         /\ type \in {"ack", "nack"} => Head(inbox).seq \in Frame
         /\ Head(inbox) \in Message
         /\ pc = "pend" /\ pc' = "update"
<1>1. /\ inbox \in Seq(Message) /\ Len(inbox) \in Nat /\ inbox # <<>>
      /\ Len(inbox) <= MaxInbox /\ inbox' = Tail(inbox) /\ Head(inbox).type = type
      /\ pc = "pend" /\ pc' = "update"
  BY LenProperties DEF TypeOK, Receive
<1>2. Head(inbox) \in Message /\ Tail(inbox) \in Seq(Message)
      /\ Len(Tail(inbox)) = Len(inbox) - 1
  BY <1>1, HeadTailProperties
<1>3. type \in {"ack", "nack"} => Head(inbox).seq \in Frame
  BY <1>1, <1>2 DEF Message
<1>. QED  BY <1>1, <1>2, <1>3, Constants

-----------------------------------------------------------------------------
(***************************************************************************)
(* What the steps that move frames do, told by sets.                       *)
(***************************************************************************)
\* b gets the count n and the ticks t.
Counts(b, n, t) ==
  /\ numSend' \in [Buffer -> 0 .. NumSendMod - 1]
  /\ timeOut' \in [Buffer -> 0 .. TimeOutTick]
  /\ numSend'[b] = n /\ timeOut'[b] = t
  /\ \A c \in Buffer \ {b} : numSend'[c] = numSend[c] /\ timeOut'[c] = timeOut[c]

\* A counter of a frame, stepped, stays in its range.
LEMMA Counted ==
  ASSUME TypeOK, NEW b \in Buffer, NEW n \in 0 .. NumSendMod - 1,
         NEW t \in 0 .. TimeOutTick,
         numSend' = [numSend EXCEPT ![b] = n], timeOut' = [timeOut EXCEPT ![b] = t]
  PROVE  Counts(b, n, t)
BY DEF TypeOK, Counts

\* The limits are at least one.
LEMMA Limits ==
  MaxNumSend \in 0 .. NumSendMod - 1 /\ TimeOutTick \in 0 .. TimeOutTick
BY Constants

\* What Trans_send does to the queues.
LEMMA SubmitMoves ==
  ASSUME TypeOK, NEW f \in Frame, Submit(f)
  PROVE  /\ f \notin tried /\ tried' = tried \cup {f} /\ free' = free \ {f}
         /\ Counts(f, MaxNumSend, TimeOutTick)
         /\ dataQ' \in Seq(Frame) /\ Data' = Data \cup {f}
         /\ Once(dataQ) /\ f \notin Data => Once(dataQ)'
         /\ Cmds' = Cmds /\ Sent' = Sent
         /\ Once(sentQ)' = Once(sentQ) /\ Once(cmdQ)' = Once(cmdQ)
         /\ UNCHANGED <<cmdQ, sentQ, mem, bSending, bL1Sending, bWaitingL1Send,
                        l1Busy, wire, update, l1Timer, pc, inbox,
                        refreed, acked, sends, expired>>
<1>1. /\ f \notin tried /\ tried' = tried \cup {f} /\ free' = free \ {f}
      /\ numSend' = [numSend EXCEPT ![f] = MaxNumSend]
      /\ timeOut' = [timeOut EXCEPT ![f] = TimeOutTick]
      /\ dataQ' = Append(dataQ, f)
      /\ UNCHANGED <<cmdQ, sentQ, mem, bSending, bL1Sending, bWaitingL1Send,
                     l1Busy, wire, update, l1Timer, pc, inbox,
                     refreed, acked, sends, expired>>
  BY DEF Submit, flags, l1
<1>2. Counts(f, MaxNumSend, TimeOutTick)
  BY <1>1, Constants, Limits, Counted
<1>3. /\ dataQ' \in Seq(Frame) /\ Data' = Data \cup {f}
      /\ Once(dataQ) /\ f \notin Data => Once(dataQ')
  BY <1>1, Appended DEF TypeOK, Data
<1>4. Cmds' = Cmds /\ Sent' = Sent
  BY <1>1 DEF Cmds, Sent
<1>. QED  BY <1>1, <1>2, <1>3, <1>4

\* What an ACK does to them: its frame leaves the sent queue, or nothing does.
LEMMA RecvAckMoves ==
  ASSUME TypeOK, RecvAck
  PROVE  /\ \/ UNCHANGED <<sentQ, Sent, free, refreed, acked>>
            \/ \E f \in Sent : /\ Sent' = Sent \ {f} /\ MemFree({f})
                               /\ acked' = acked \cup {f}
                               /\ Once(sentQ) => Once(sentQ)'
         /\ sentQ' \in Seq(AckReq) /\ Data' = Data /\ Cmds' = Cmds
         /\ inbox' \in Seq(Message) /\ Len(inbox') <= MaxInbox
         /\ pc = "pend" /\ pc' = "update"
         /\ UNCHANGED <<dataQ, cmdQ, numSend, timeOut, mem, bSending, bL1Sending,
                        bWaitingL1Send, l1Busy, wire, update, l1Timer, tried, sends, expired>>
<1> DEFINE f == Head(inbox).seq
<1>1. /\ Receive("ack")
      /\ UNCHANGED <<dataQ, cmdQ, numSend, timeOut, mem, bSending, bL1Sending,
                     bWaitingL1Send, l1Busy, wire, update, l1Timer, tried, sends, expired>>
  BY DEF RecvAck, frames, flags, l1
<1>2. /\ inbox' \in Seq(Message) /\ Len(inbox') <= MaxInbox
      /\ pc = "pend" /\ pc' = "update"
  BY <1>1, InboxTake
<1>3. Data' = Data /\ Cmds' = Cmds
  BY <1>1 DEF Data, Cmds
<1>4. sentQ \in Seq(AckReq)
  BY DEF TypeOK
<1>5. CASE f \in Sent
  <2>1. sentQ' = Without(sentQ, {f}) /\ MemFree({f}) /\ acked' = acked \cup {f}
    BY <1>5 DEF RecvAck, Sent
  <2>2. /\ sentQ' \in Seq(AckReq) /\ Sent' = Sent \ {f}
        /\ Once(sentQ) => Once(sentQ')
    BY <1>4, <2>1, Removed DEF Sent
  <2>. QED  BY <1>1, <1>2, <1>3, <1>5, <2>1, <2>2
<1>6. CASE f \notin Sent
  <2>1. UNCHANGED <<sentQ, free, refreed, acked>>
    BY <1>6 DEF RecvAck, Sent, memory
  <2>2. Sent' = Sent
    BY <2>1 DEF Sent
  <2>. QED  BY <1>1, <1>2, <1>3, <1>4, <2>1, <2>2
<1>. QED  BY <1>5, <1>6

\* What a NACK does: its frame goes from the sent queue to be sent again, or
\* nothing
\* does.
LEMMA RecvNackMoves ==
  ASSUME TypeOK, RecvNack
  PROVE  /\ \/ UNCHANGED <<sentQ, dataQ, Sent, Data, timeOut>>
            \/ \E f \in Sent : /\ Sent' = Sent \ {f} /\ Data' = Data \cup {f}
                               /\ Once(sentQ) => Once(sentQ)'
                               /\ Once(dataQ) /\ f \notin Data => Once(dataQ)'
                               /\ Counts(f, numSend[f], TimeOutTick)
         /\ sentQ' \in Seq(AckReq) /\ dataQ' \in Seq(Frame) /\ Cmds' = Cmds
         /\ inbox' \in Seq(Message) /\ Len(inbox') <= MaxInbox
         /\ pc = "pend" /\ pc' = "update"
         /\ UNCHANGED <<cmdQ, numSend, mem, bSending, bL1Sending, bWaitingL1Send,
                        l1Busy, wire, update, l1Timer, free, refreed,
                        tried, acked, sends, expired>>
<1> DEFINE f == Head(inbox).seq
<1>1. /\ Receive("nack")
      /\ UNCHANGED <<cmdQ, numSend, mem, bSending, bL1Sending, bWaitingL1Send,
                     l1Busy, wire, update, l1Timer, free, refreed,
                     tried, acked, sends, expired>>
  BY DEF RecvNack, flags, l1, memory
<1>2. /\ inbox' \in Seq(Message) /\ Len(inbox') <= MaxInbox
      /\ pc = "pend" /\ pc' = "update" /\ f \in Frame
  BY <1>1, InboxTake
<1>3. Cmds' = Cmds
  BY <1>1 DEF Cmds
<1>4. sentQ \in Seq(AckReq) /\ dataQ \in Seq(Frame)
  BY DEF TypeOK
<1>5. CASE f \in Sent
  <2>1. /\ sentQ' = Without(sentQ, {f}) /\ dataQ' = Append(dataQ, f)
        /\ timeOut' = [timeOut EXCEPT ![f] = TimeOutTick]
    BY <1>5 DEF RecvNack, Sent
  <2>2. /\ sentQ' \in Seq(AckReq) /\ Sent' = Sent \ {f}
        /\ Once(sentQ) => Once(sentQ')
    BY <1>4, <2>1, Removed DEF Sent
  <2>3. /\ dataQ' \in Seq(Frame) /\ Data' = Data \cup {f}
        /\ Once(dataQ) /\ f \notin Data => Once(dataQ')
    BY <1>2, <1>4, <2>1, Appended DEF Data
  <2>4. Counts(f, numSend[f], TimeOutTick)
    <3>1. f \in Buffer /\ numSend' = numSend
      BY <1>1, <1>2, Constants
    <3>. QED  BY <2>1, <3>1, Limits DEF TypeOK, Counts
  <2>. QED  BY <1>1, <1>2, <1>3, <1>5, <2>2, <2>3, <2>4
<1>6. CASE f \notin Sent
  <2>1. UNCHANGED <<sentQ, dataQ, timeOut>>
    BY <1>6 DEF RecvNack, Sent
  <2>2. Sent' = Sent /\ Data' = Data
    BY <2>1 DEF Sent, Data
  <2>. QED  BY <1>1, <1>2, <1>3, <1>4, <2>1, <2>2
<1>. QED  BY <1>5, <1>6

\* What a data frame of the peer does: a command buffer is queued for its ACK.
LEMMA RecvDataMoves ==
  ASSUME TypeOK, RecvData
  PROVE  /\ \/ UNCHANGED <<cmdQ, Cmds, numSend, timeOut, free>>
            \/ \E c \in Cmd \cap free :
                 /\ Counts(c, MaxNumSend, TimeOutTick)
                 /\ free' = free \ {c} /\ Cmds' = Cmds \cup {c}
                 /\ Once(cmdQ) /\ c \notin Cmds => Once(cmdQ)'
         /\ cmdQ' \in Seq(Cmd) /\ Data' = Data /\ Sent' = Sent
         /\ inbox' \in Seq(Message) /\ Len(inbox') <= MaxInbox
         /\ pc = "pend" /\ pc' = "update"
         /\ UNCHANGED <<dataQ, sentQ, mem, bSending, bL1Sending, bWaitingL1Send,
                        l1Busy, wire, update, l1Timer, refreed, tried,
                        acked, sends, expired>>
<1>1. /\ Receive("data")
      /\ UNCHANGED <<dataQ, sentQ, mem, bSending, bL1Sending, bWaitingL1Send,
                     l1Busy, wire, update, l1Timer, refreed, tried,
                     acked, sends, expired>>
  BY DEF RecvData, flags, l1
<1>2. /\ inbox' \in Seq(Message) /\ Len(inbox') <= MaxInbox
      /\ pc = "pend" /\ pc' = "update"
  BY <1>1, InboxTake
<1>3. Data' = Data /\ Sent' = Sent
  BY <1>1 DEF Data, Sent
<1>4. cmdQ \in Seq(Cmd)
  BY DEF TypeOK
<1>5. CASE UNCHANGED <<cmdQ, numSend, timeOut, free>>
  <2>1. Cmds' = Cmds
    BY <1>5 DEF Cmds
  <2>. QED  BY <1>1, <1>2, <1>3, <1>4, <1>5, <2>1
<1>6. ASSUME NEW c \in Cmd \cap free, free' = free \ {c}, cmdQ' = Append(cmdQ, c),
             numSend' = [numSend EXCEPT ![c] = MaxNumSend],
             timeOut' = [timeOut EXCEPT ![c] = TimeOutTick]
      PROVE  /\ Counts(c, MaxNumSend, TimeOutTick)
             /\ cmdQ' \in Seq(Cmd) /\ Cmds' = Cmds \cup {c}
             /\ Once(cmdQ) /\ c \notin Cmds => Once(cmdQ)'
  <2>1. Counts(c, MaxNumSend, TimeOutTick)
    BY <1>6, Constants, Limits, Counted
  <2>2. /\ cmdQ' \in Seq(Cmd) /\ Cmds' = Cmds \cup {c}
        /\ Once(cmdQ) /\ c \notin Cmds => Once(cmdQ')
    BY <1>4, <1>6, Appended DEF Cmds
  <2>. QED  BY <2>1, <2>2
<1>7. \/ UNCHANGED <<cmdQ, numSend, timeOut, free>>
      \/ \E c \in Cmd \cap free :
           /\ free' = free \ {c} /\ cmdQ' = Append(cmdQ, c)
           /\ numSend' = [numSend EXCEPT ![c] = MaxNumSend]
           /\ timeOut' = [timeOut EXCEPT ![c] = TimeOutTick]
  BY DEF RecvData
<1>. QED  BY <1>1, <1>2, <1>3, <1>5, <1>6, <1>7

\* The update: the frames queued again, those given up, and those it passed.
Updated(again, dead, left) ==
  /\ again \subseteq left /\ dead \subseteq left /\ left \subseteq Sent
  /\ again \cap dead = {}
  /\ \A b \in left \ (again \cup dead) : timeOut[b] # 1
  /\ \A b \in again : numSend[b] > 0
  /\ \A b \in dead : numSend[b] = 0
  /\ timeOut' = [b \in Buffer |-> IF b \in again THEN TimeOutTick
                                  ELSE IF b \in left THEN timeOut[b] - 1
                                  ELSE timeOut[b]]
  /\ sentQ' \in Seq(AckReq) /\ Once(sentQ)'
  /\ Sent' = Sent \ (again \cup dead)
  /\ dataQ' \in Seq(Frame) /\ Once(dataQ)' /\ Data' = Data \cup again
  /\ MemFree(dead)

\* What Trans_CheckTimeOutOfSendedFrame does: each frame whose time is up is
\* queued again or freed, and no other.
LEMMA UpdateMoves ==
  ASSUME TransInv, UpdateWaiting, update
  PROVE  \E again, dead, left : Updated(again, dead, left)
<1> DEFINE again == {sentQ[i] : i \in {j \in Walked : Again(j)}}
           dead  == {sentQ[i] : i \in {j \in Walked : GivenUp(j)}}
           left  == {sentQ[i] : i \in Walked}
<1>1. /\ timeOut' = [b \in Buffer |-> IF b \in again THEN TimeOutTick
                                      ELSE IF b \in left THEN timeOut[b] - 1
                                      ELSE timeOut[b]]
      /\ sentQ' = Without(sentQ, again \cup dead)
      /\ dataQ' = dataQ \o Without(sentQ, Buffer \ again)
      /\ MemFree(dead)
  BY DEF UpdateWaiting
<1>2. /\ sentQ \in Seq(AckReq) /\ sentQ \in Seq(Frame) /\ dataQ \in Seq(Frame)
      /\ Walked \subseteq DOMAIN sentQ
      /\ Once(sentQ) /\ Once(dataQ) /\ Data \cap Sent = {} /\ Sent \subseteq Buffer
  BY Constants, QueueFacts, WalkedInQueue DEF TransInv, TypeOK, Places
<1>3. left \subseteq Sent /\ again \subseteq left /\ dead \subseteq left
  BY <1>2 DEF Sent, Elems
<1>4. /\ again \cap dead = {}
      /\ \A b \in again : numSend[b] > 0
      /\ \A b \in dead : numSend[b] = 0
  <2>1. ASSUME NEW b \in again PROVE numSend[b] > 0
    BY DEF Again
  <2>2. ASSUME NEW b \in dead PROVE numSend[b] = 0
    BY DEF GivenUp
  <2> HIDE DEF again, dead
  <2>. QED  BY <2>1, <2>2
<1>5. ASSUME NEW b \in left \ (again \cup dead)
      PROVE  timeOut[b] # 1
  <2>1. PICK i \in Walked : b = sentQ[i]
    OBVIOUS
  <2>2. ~Again(i) /\ ~GivenUp(i)
    BY <1>5, <2>1
  <2>3. numSend[b] \in Nat
    <3>1. b \in Buffer
      BY <1>2, <1>3
    <3>. QED  BY <3>1, NumberFacts DEF TransInv
  <2>4. ~(numSend[b] > 0) => numSend[b] = 0
    BY <2>3
  <2>. QED  BY <2>1, <2>2, <2>4 DEF Again, GivenUp
<1>6. /\ sentQ' \in Seq(AckReq) /\ Once(sentQ')
      /\ Sent' = Sent \ (again \cup dead)
  <2> HIDE DEF again, dead
  <2>. QED  BY <1>1, <1>2, Removed DEF Sent
<1>7. dataQ' \in Seq(Frame) /\ Once(dataQ') /\ Data' = Data \cup again
  <2> DEFINE r == Without(sentQ, Buffer \ again)
  <2>1. r \in Seq(Frame) /\ Elems(r) = Sent \ (Buffer \ again) /\ Once(r)
    <3> HIDE DEF again
    <3>. QED  BY <1>2, Removed DEF Sent
  <2> HIDE DEF again, r
  <2>2. Elems(r) = again
    BY <1>2, <1>3, <2>1
  <2>3. dataQ' = dataQ \o r
    BY <1>1 DEF r
  <2>4. Data \cap again = {}
    BY <1>2, <1>3
  <2>5. Elems(dataQ) \cap Elems(r) = {}
    BY <2>2, <2>4 DEF Data
  <2>. QED  BY <1>2, <2>1, <2>2, <2>3, <2>5, Joined DEF Data
<1>8. Once(sentQ)' /\ Once(dataQ)'
  BY <1>6, <1>7
<1> HIDE DEF again, dead, left
<1>9. Updated(again, dead, left)
  BY <1>1, <1>3, <1>4, <1>5, <1>6, <1>7, <1>8 DEF Updated
<1>. QED  BY <1>9

\* A frame is taken from the front of a queue.
Taken(b) ==
  /\ b \in Buffer /\ mem' = b
  /\ numSend' \in [Buffer -> 0 .. NumSendMod - 1]
  /\ numSend'[b] = (numSend[b] - 1) % NumSendMod
  /\ \A c \in Buffer \ {b} : numSend'[c] = numSend[c]
  /\ bSending' = TRUE /\ bL1Sending' = FALSE /\ bWaitingL1Send' = FALSE

\* A frame that is taken to be sent is counted.
LEMMA TakeCounts ==
  ASSUME TypeOK, NEW b \in Buffer, Take(b)
  PROVE  Taken(b)
<1>1. /\ numSend' = [numSend EXCEPT ![b] = (@ - 1) % NumSendMod] /\ mem' = b
      /\ bSending' = TRUE /\ bL1Sending' = FALSE /\ bWaitingL1Send' = FALSE
  BY DEF Take
<1>2. (numSend[b] - 1) % NumSendMod \in 0 .. NumSendMod - 1
  <2>1. NumSendMod \in Nat /\ NumSendMod > 0 /\ numSend[b] - 1 \in Int
    BY Constants, NumberFacts
  <2>. QED  BY <2>1
<1>. QED  BY <1>1, <1>2 DEF Taken, TypeOK

\* What TransL2S takes from the queues to send.
LEMMA PickMoves ==
  ASSUME TypeOK, Pick
  PROVE  /\ \/ /\ UNCHANGED <<dataQ, cmdQ, Data, Cmds, numSend, mem, bSending,
                              bL1Sending, bWaitingL1Send>>
            \/ /\ ~bSending
               /\ \E c \in Cmds : /\ Taken(c) /\ Cmds = Cmds' \cup {c}
                                  /\ Once(cmdQ) => Once(cmdQ)' /\ c \notin Cmds'
               /\ UNCHANGED <<dataQ, Data>>
            \/ /\ ~bSending
               /\ \E f \in Data : /\ Taken(f) /\ Data = Data' \cup {f}
                                  /\ Once(dataQ) => Once(dataQ)' /\ f \notin Data'
               /\ UNCHANGED <<cmdQ, Cmds>>
         /\ dataQ' \in Seq(Frame) /\ cmdQ' \in Seq(Cmd) /\ Sent' = Sent
         /\ pc = "pick" /\ pc' = "run"
         /\ UNCHANGED <<sentQ, timeOut, l1Busy, wire, update, l1Timer, inbox,
                        free, refreed, tried, acked, sends, expired>>
<1>1. /\ pc = "pick" /\ pc' = "run"
      /\ UNCHANGED <<sentQ, timeOut, l1Busy, wire, update, l1Timer, inbox,
                     free, refreed, tried, acked, sends, expired>>
  BY DEF Pick, l1, memory
<1>2. Sent' = Sent
  BY <1>1 DEF Sent
<1>3. dataQ \in Seq(Frame) /\ cmdQ \in Seq(Cmd)
  BY DEF TypeOK
<1>4. CASE ~bSending /\ cmdQ # <<>> /\ Take(Head(cmdQ)) /\ cmdQ' = Tail(cmdQ)
           /\ UNCHANGED dataQ
  <2>1. /\ Head(cmdQ) \in Cmd /\ Head(cmdQ) \in Cmds /\ cmdQ' \in Seq(Cmd)
        /\ Cmds = Cmds' \cup {Head(cmdQ)}
        /\ Once(cmdQ) => Once(cmdQ') /\ Head(cmdQ) \notin Cmds'
    BY <1>3, <1>4, Headed DEF Cmds
  <2>2. Taken(Head(cmdQ))
    BY <1>4, <2>1, Constants, TakeCounts
  <2>3. Data' = Data
    BY <1>4 DEF Data
  <2>. QED  BY <1>1, <1>2, <1>3, <1>4, <2>1, <2>2, <2>3
<1>5. CASE ~bSending /\ dataQ # <<>> /\ Take(Head(dataQ)) /\ dataQ' = Tail(dataQ)
           /\ UNCHANGED cmdQ
  <2>1. /\ Head(dataQ) \in Frame /\ Head(dataQ) \in Data /\ dataQ' \in Seq(Frame)
        /\ Data = Data' \cup {Head(dataQ)}
        /\ Once(dataQ) => Once(dataQ') /\ Head(dataQ) \notin Data'
    BY <1>3, <1>5, Headed DEF Data
  <2>2. Taken(Head(dataQ))
    BY <1>5, <2>1, Constants, TakeCounts
  <2>3. Cmds' = Cmds
    BY <1>5 DEF Cmds
  <2>. QED  BY <1>1, <1>2, <1>3, <1>5, <2>1, <2>2, <2>3
<1>6. CASE UNCHANGED <<dataQ, cmdQ, numSend, mem, flags>>
  <2>1. Data' = Data /\ Cmds' = Cmds
    BY <1>6 DEF Data, Cmds
  <2>. QED  BY <1>1, <1>2, <1>3, <1>6, <2>1 DEF flags
<1>. QED  BY <1>4, <1>5, <1>6 DEF Pick

\* What the send-done callback does: the frame waits for its ACK, or is freed.
LEMMA SendDoneMoves ==
  ASSUME TypeOK, Shape, SendDone
  PROVE  /\ \/ /\ mem \in AckReq /\ Sent' = Sent \cup {mem}
               /\ Once(sentQ) /\ mem \notin Sent => Once(sentQ)'
               /\ UNCHANGED <<free, refreed>>
            \/ mem \notin AckReq /\ MemFree({mem}) /\ UNCHANGED <<sentQ, Sent>>
         /\ sentQ' \in Seq(AckReq) /\ Data' = Data /\ Cmds' = Cmds
         /\ mem \in Buffer /\ pc = "sent" /\ pc' = "pend"
         /\ UNCHANGED <<dataQ, cmdQ, numSend, timeOut, mem, bSending, bL1Sending,
                        bWaitingL1Send, l1Busy, wire, update, l1Timer, inbox, tried, acked, sends, expired>>
<1>1. /\ pc = "sent" /\ pc' = "pend"
      /\ UNCHANGED <<dataQ, cmdQ, numSend, timeOut, mem, bSending, bL1Sending,
                     bWaitingL1Send, l1Busy, wire, update, l1Timer, inbox, tried, acked, sends, expired>>
  BY DEF SendDone, frames, flags, l1
<1>2. mem \in Buffer /\ sentQ \in Seq(AckReq)
  BY <1>1 DEF Shape, TypeOK
<1>3. Data' = Data /\ Cmds' = Cmds
  BY <1>1 DEF Data, Cmds
<1>4. CASE mem \in AckReq
  <2>1. sentQ' = Append(sentQ, mem) /\ UNCHANGED <<free, refreed>>
    BY <1>4 DEF SendDone, memory
  <2>2. /\ sentQ' \in Seq(AckReq) /\ Sent' = Sent \cup {mem}
        /\ Once(sentQ) /\ mem \notin Sent => Once(sentQ')
    BY <1>2, <1>4, <2>1, Appended DEF Sent
  <2>. QED  BY <1>1, <1>2, <1>3, <1>4, <2>1, <2>2
<1>5. CASE mem \notin AckReq
  <2>1. MemFree({mem}) /\ UNCHANGED sentQ
    BY <1>5 DEF SendDone
  <2>2. Sent' = Sent
    BY <2>1 DEF Sent
  <2>. QED  BY <1>1, <1>2, <1>3, <1>5, <2>1, <2>2
<1>. QED  BY <1>4, <1>5

\* What the L1 timeout does: the frame layer 1 has not finished is taken from
\* layer 2 and freed, or nothing is.
LEMMA ExpireMoves ==
  ASSUME TypeOK, Shape, Expire
  PROVE  /\ \/ /\ bL1Sending /\ Held /\ ~Held' /\ bWaitingL1Send /\ mem \in Buffer
               /\ bSending' = FALSE /\ bL1Sending' = FALSE /\ bWaitingL1Send' = FALSE
               /\ MemFree({mem}) /\ expired' = expired \cup {mem}
            \/ /\ UNCHANGED <<bSending, bL1Sending, bWaitingL1Send, free, refreed,
                              expired>>
               /\ Held' = Held
         /\ l1Timer' = FALSE /\ pc \in {"pend", "timer", "sent"}
         /\ UNCHANGED <<dataQ, cmdQ, sentQ, Data, Cmds, Sent, numSend, timeOut, mem,
                        l1Busy, wire, update, pc, inbox, tried, acked, sends>>
         /\ Once(dataQ)' = Once(dataQ) /\ Once(sentQ)' = Once(sentQ)
         /\ Once(cmdQ)' = Once(cmdQ)
<1>1. /\ l1Timer' = FALSE /\ pc \in {"pend", "timer", "sent"}
      /\ UNCHANGED <<dataQ, cmdQ, sentQ, numSend, timeOut, mem, l1Busy, wire, update,
                     pc, inbox, tried, acked, sends>>
      /\ UNCHANGED queues
  BY DEF Expire, TimerMayRun, queues, frames, l1
<1>2. CASE bL1Sending
  <2>1. /\ bSending' = FALSE /\ bL1Sending' = FALSE /\ bWaitingL1Send' = FALSE
        /\ MemFree({mem}) /\ expired' = expired \cup {mem}
    BY <1>2 DEF Expire
  <2>2. bSending /\ bWaitingL1Send /\ pc # "sent" /\ mem \in Buffer
    BY <1>2 DEF Shape, TypeOK
  <2>. QED  BY <1>1, <1>2, <2>1, <2>2, QueuesKept DEF Held
<1>3. CASE ~bL1Sending
  <2>1. UNCHANGED <<bSending, bL1Sending, bWaitingL1Send, free, refreed, expired>>
    BY <1>3 DEF Expire, flags, memory
  <2>. QED  BY <1>1, <2>1, QueuesKept DEF Held
<1>. QED  BY <1>2, <1>3

\* The other steps move no frame and free none.
Quiet ==
  UNCHANGED <<dataQ, cmdQ, sentQ, numSend, timeOut, mem, free, refreed, tried,
              acked, expired>>

QuietStep ==
  \/ \E f \in Frame : PeerNack(f)
  \/ PeerData
  \/ \E answered \in BOOLEAN : TxDone(answered)
  \/ RecvNothing \/ RunIdle \/ RunStart \/ RunTimer \/ RunDone
  \/ UpdateTick
  \/ UNCHANGED vars

\* Steps that touch no queue.
LEMMA QuietSteps ==
  ASSUME QuietStep
  PROVE  Quiet /\ (Held' => Held)
<1>0. CASE PeerData
  BY <1>0 DEF PeerData, queues, frames, flags, memory, Quiet, Held
<1>6. ASSUME NEW f \in Frame, PeerNack(f)
      PROVE  Quiet /\ (Held' => Held)
  BY <1>6 DEF PeerNack, queues, frames, flags, memory, Quiet, Held
<1>1. CASE RecvNothing \/ RunIdle \/ RunTimer
  BY <1>1 DEF RecvNothing, RunIdle, RunTimer, queues, frames, flags, memory,
              Quiet, Held
<1>2. CASE \E answered \in BOOLEAN : TxDone(answered)
  BY <1>2 DEF TxDone, queues, frames, memory, Quiet, Held
<1>3. CASE RunStart \/ RunDone
  BY <1>3 DEF RunStart, RunDone, queues, frames, memory, Quiet, Held
<1>4. CASE UpdateTick
  BY <1>4 DEF UpdateTick, queues, frames, flags, memory, Quiet, Held
<1>5. CASE UNCHANGED vars
  BY <1>5 DEF vars, Quiet, Held
<1>. QED  BY <1>0, <1>1, <1>2, <1>3, <1>4, <1>5, <1>6 DEF QuietStep

Movers ==
  \/ \E f \in Frame : Submit(f)
  \/ RecvAck \/ RecvNack \/ RecvData \/ UpdateWaiting \/ Pick \/ SendDone
  \/ Expire

\* A step is one of these or one of the movers.
LEMMA StepsSplit == [Next]_vars => QuietStep \/ Movers
BY DEF Next, CommTask, TimerTask, QuietStep, Movers

\* The quiet steps keep the types.
LEMMA QuietTypes ==
  ASSUME TypeOK, QuietStep
  PROVE  TypeOK'
<1>1. CASE RecvNothing \/ RunIdle \/ RunTimer \/ RunDone \/ UpdateTick
  BY <1>1 DEF RecvNothing, RunIdle, RunTimer, RunDone, UpdateTick,
              queues, frames, flags, memory, l1, TypeOK
<1>2. CASE PeerData
  <2>1. [type |-> "data"] \in Message
    BY DEF Message
  <2>2. inbox' \in Seq(Message) /\ Len(inbox') <= MaxInbox
    BY <1>2, <2>1, InboxPut DEF PeerData
  <2>. QED  BY <1>2, <2>2 DEF PeerData, queues, frames, flags, memory, l1, TypeOK
<1>3. ASSUME NEW f \in Frame, PeerNack(f) PROVE TypeOK'
  <2>1. [type |-> "nack", seq |-> f] \in Message
    BY DEF Message
  <2>2. inbox' \in Seq(Message) /\ Len(inbox') <= MaxInbox
    BY <1>3, <2>1, InboxPut DEF PeerNack
  <2>. QED  BY <1>3, <2>2 DEF PeerNack, queues, frames, flags, memory, l1, TypeOK
<1>4. ASSUME NEW answered \in BOOLEAN, TxDone(answered) PROVE TypeOK'
  <2>1. inbox' \in Seq(Message) /\ Len(inbox') <= MaxInbox
    <3>1. CASE answered
      <4>1. wire \in Frame /\ Len(inbox) < MaxInbox
            /\ inbox' = Append(inbox, [type |-> "ack", seq |-> wire])
        BY <1>4, <3>1, Constants DEF TxDone
      <4>2. [type |-> "ack", seq |-> wire] \in Message
        BY <4>1 DEF Message
      <4>. QED  BY <4>1, <4>2, InboxPut
    <3>2. CASE ~answered
      BY <1>4, <3>2 DEF TxDone, TypeOK
    <3>. QED  BY <3>1, <3>2
  <2>. QED  BY <1>4, <2>1 DEF TxDone, queues, frames, memory, TypeOK
<1>5. CASE RunStart
  <2>1. sends' \in [Frame -> 0 .. MaxNumSend + 1]
    <3>1. CASE mem \in Frame /\ sends[mem] <= MaxNumSend
      <4>1. sends' = [sends EXCEPT ![mem] = @ + 1] /\ sends[mem] \in 0 .. MaxNumSend + 1
        BY <1>5, <3>1 DEF RunStart, TypeOK
      <4>2. sends[mem] + 1 \in 0 .. MaxNumSend + 1
        BY <3>1, <4>1, Constants
      <4>. QED  BY <4>1, <4>2 DEF TypeOK
    <3>2. CASE ~(mem \in Frame /\ sends[mem] <= MaxNumSend)
      BY <1>5, <3>2 DEF RunStart, TypeOK
    <3>. QED  BY <3>1, <3>2
  <2>. QED  BY <1>5, <2>1 DEF RunStart, queues, frames, memory, TypeOK
<1>6. CASE UNCHANGED vars
  BY <1>6 DEF vars, TypeOK
<1>. QED  BY <1>1, <1>2, <1>3, <1>4, <1>5, <1>6 DEF QuietStep

\* What is freed is a buffer.
LEMMA FreedTypes ==
  ASSUME TypeOK, NEW S \in SUBSET Buffer, MemFree(S)
  PROVE  free' \in SUBSET Buffer /\ refreed' \in BOOLEAN
BY DEF MemFree, TypeOK

\* Every step keeps the types.
LEMMA TypeStep ==
  ASSUME TransInv, [Next]_vars
  PROVE  TypeOK'
<1>1. CASE QuietStep
  BY <1>1, QuietTypes DEF TransInv
<1>2. ASSUME NEW f \in Frame, Submit(f) PROVE TypeOK'
  <2>1. TypeOK
    BY DEF TransInv
  <2>2. /\ dataQ' \in Seq(Frame) /\ Counts(f, MaxNumSend, TimeOutTick)
        /\ tried' = tried \cup {f} /\ free' = free \ {f}
        /\ UNCHANGED <<cmdQ, sentQ, mem, bSending, bL1Sending, bWaitingL1Send,
                       l1Busy, wire, update, l1Timer, pc, inbox,
                       refreed, acked, sends, expired>>
    BY <1>2, <2>1, SubmitMoves
  <2>3. tried' \in SUBSET Frame /\ free' \in SUBSET Buffer
    BY <2>1, <2>2 DEF TypeOK
  <2>. QED  BY <2>1, <2>2, <2>3 DEF TypeOK, Counts
<1>3. CASE RecvAck
  <2>1. free' \in SUBSET Buffer /\ refreed' \in BOOLEAN /\ acked' \in SUBSET Frame
    <3>1. CASE UNCHANGED <<free, refreed, acked>>
      BY <3>1 DEF TransInv, TypeOK
    <3>2. ASSUME NEW f \in Sent, MemFree({f}), acked' = acked \cup {f}
          PROVE  /\ free' \in SUBSET Buffer /\ refreed' \in BOOLEAN
                 /\ acked' \in SUBSET Frame
      <4>1. f \in Frame /\ {f} \in SUBSET Buffer
        BY QueueFacts, Constants DEF TransInv
      <4>. QED  BY <3>2, <4>1, FreedTypes DEF TransInv, TypeOK
    <3>. QED  BY <1>3, <3>1, <3>2, RecvAckMoves DEF TransInv
  <2>. QED  BY <1>3, <2>1, RecvAckMoves DEF TransInv, TypeOK
<1>4. CASE RecvNack
  <2>1. timeOut' \in [Buffer -> 0 .. TimeOutTick]
    BY <1>4, RecvNackMoves DEF TransInv, TypeOK, Counts
  <2>. QED  BY <1>4, <2>1, RecvNackMoves DEF TransInv, TypeOK
<1>5. CASE RecvData
  <2>1. /\ numSend' \in [Buffer -> 0 .. NumSendMod - 1]
        /\ timeOut' \in [Buffer -> 0 .. TimeOutTick]
        /\ free' \in SUBSET Buffer
    BY <1>5, RecvDataMoves DEF TransInv, TypeOK, Counts
  <2>. QED  BY <1>5, <2>1, RecvDataMoves DEF TransInv, TypeOK
<1>6. CASE UpdateWaiting
  <2>0. /\ pc' = "pick" /\ update' = FALSE
        /\ UNCHANGED <<cmdQ, numSend, mem, bSending, bL1Sending, bWaitingL1Send,
                       l1Busy, wire, l1Timer, inbox, tried, acked, sends,
                       expired>>
    BY <1>6 DEF UpdateWaiting, flags, l1
  <2>1. CASE update
    <3>1. PICK again, dead, left : Updated(again, dead, left)
      BY <1>6, <2>1, UpdateMoves
    <3>2. again \subseteq Buffer /\ dead \subseteq Buffer /\ left \subseteq Sent
      BY <3>1, QueueFacts DEF Updated, TransInv
    <3>3. timeOut' \in [Buffer -> 0 .. TimeOutTick]
      <4> SUFFICES ASSUME NEW b \in Buffer
                   PROVE  (IF b \in again THEN TimeOutTick
                           ELSE IF b \in left THEN timeOut[b] - 1
                           ELSE timeOut[b]) \in 0 .. TimeOutTick
        BY <3>1 DEF Updated
      <4>1. timeOut[b] \in 0 .. TimeOutTick /\ TimeOutTick \in 0 .. TimeOutTick
        BY NumberFacts, Limits DEF TransInv
      <4>2. b \in left => timeOut[b] >= 1
        BY <3>2 DEF TransInv, Places
      <4>3. b \in left => timeOut[b] - 1 \in 0 .. TimeOutTick
        BY <4>1, <4>2, Constants
      <4>. QED  BY <4>1, <4>3
    <3>4. free' \in SUBSET Buffer /\ refreed' \in BOOLEAN
      BY <3>1, <3>2, FreedTypes DEF Updated, TransInv
    <3>5. sentQ' \in Seq(AckReq) /\ dataQ' \in Seq(Frame)
      BY <3>1 DEF Updated
    <3>. QED  BY <2>0, <3>3, <3>4, <3>5 DEF TransInv, TypeOK
  <2>2. CASE ~update
    BY <1>6, <2>0, <2>2 DEF UpdateWaiting, memory, TransInv, TypeOK
  <2>. QED  BY <2>1, <2>2
<1>7. CASE Pick
  <2>1. /\ numSend' \in [Buffer -> 0 .. NumSendMod - 1]
        /\ mem' \in Buffer \cup {None}
        /\ {bSending', bL1Sending', bWaitingL1Send'} \subseteq BOOLEAN
    BY <1>7, PickMoves DEF TransInv, TypeOK, Taken
  <2>. QED  BY <1>7, <2>1, PickMoves DEF TransInv, TypeOK
<1>8. CASE SendDone
  <2>1. free' \in SUBSET Buffer /\ refreed' \in BOOLEAN
    BY <1>8, SendDoneMoves, FreedTypes DEF TransInv, TypeOK
  <2>. QED  BY <1>8, <2>1, SendDoneMoves DEF TransInv, TypeOK
<1>9. CASE Expire
  <2>1. /\ free' \in SUBSET Buffer /\ refreed' \in BOOLEAN
        /\ expired' \in SUBSET Buffer
        /\ {bSending', bL1Sending', bWaitingL1Send'} \subseteq BOOLEAN
    BY <1>9, ExpireMoves, FreedTypes DEF TransInv, TypeOK
  <2>. QED  BY <1>9, <2>1, ExpireMoves DEF TransInv, TypeOK
<1>. QED  BY <1>1, <1>2, <1>3, <1>4, <1>5, <1>6, <1>7, <1>8, <1>9, StepsSplit DEF Movers

\* Every step keeps sMemSend in place while anything refers to it.
LEMMA ShapeStep ==
  ASSUME TransInv, [Next]_vars
  PROVE  Shape'
<1>0. ASSUME NEW f \in Frame, PeerNack(f) PROVE Shape'
  BY <1>0 DEF PeerNack, flags, TransInv, Shape
<1>1. CASE PeerData \/ RecvNothing \/ RunIdle \/ RunTimer \/ UNCHANGED vars
  BY <1>1 DEF PeerData, RecvNothing, RunIdle, RunTimer, vars, flags, TransInv, Shape
<1>9. CASE RunStart \/ RunDone
  BY <1>9 DEF RunStart, RunDone, TransInv, Shape
<1>2. CASE \E answered \in BOOLEAN : TxDone(answered)
  BY <1>2 DEF TxDone, TransInv, Shape
<1>3. CASE UpdateTick \/ Expire
  BY <1>3 DEF UpdateTick, Expire, flags, TransInv, Shape
<1>4. CASE \E f \in Frame : Submit(f)
  BY <1>4 DEF Submit, flags, TransInv, Shape
<1>5. CASE RecvAck \/ RecvNack \/ RecvData
  BY <1>5 DEF RecvAck, RecvNack, RecvData, Receive, flags, TransInv, Shape
<1>6. CASE UpdateWaiting
  BY <1>6 DEF UpdateWaiting, flags, TransInv, Shape
<1>7. CASE Pick
  <2>1. pc' = "run" /\ UNCHANGED l1Timer /\ TypeOK /\ Shape /\ pc = "pick"
    BY <1>7, PickMoves DEF TransInv
  <2>2. \/ UNCHANGED <<mem, bSending, bL1Sending, bWaitingL1Send>>
        \/ mem' # None /\ ~bL1Sending'
    BY <1>7, <2>1, PickMoves, Constants DEF Taken
  <2>. QED  BY <2>1, <2>2 DEF Shape
<1>8. CASE SendDone
  BY <1>8 DEF SendDone, flags, TransInv, Shape
<1>. QED  BY <1>0, <1>1, <1>2, <1>3, <1>4, <1>5, <1>6, <1>7, <1>8, <1>9, StepsSplit
          DEF QuietStep, Movers

\* Every step keeps the frames in one queue and their timeouts above zero.
LEMMA PlacesStep ==
  ASSUME TransInv, [Next]_vars
  PROVE  Places'
<1>0. /\ Once(dataQ) /\ Once(sentQ) /\ Data \cap Sent = {}
      /\ Held => mem \notin Data \cup Sent
      /\ Data \cup Sent \subseteq tried
      /\ Held /\ mem \in Frame => mem \in tried /\ timeOut[mem] >= 1
      /\ \A b \in Data \cup Sent : timeOut[b] >= 1
      /\ Data \subseteq Frame /\ Sent \subseteq AckReq /\ Cmds \subseteq Cmd
      /\ AckReq \subseteq Frame /\ Frame \subseteq Buffer /\ Cmd \subseteq Buffer
      /\ Frame \cap Cmd = {} /\ TimeOutTick >= 1
      /\ TypeOK
  BY QueueFacts, Constants DEF TransInv, Places
<1>1. CASE QuietStep
  <2>1. Quiet /\ (Held' => Held)
    BY <1>1, QuietSteps
  <2>2. UNCHANGED queues
    BY <2>1 DEF Quiet, queues
  <2>3. /\ UNCHANGED <<Data, Sent, timeOut, mem, tried>>
        /\ Once(dataQ)' /\ Once(sentQ)'
    BY <1>0, <2>1, <2>2, QueuesKept DEF Quiet
  <2>. QED  BY <1>0, <2>1, <2>3 DEF Places
<1>2. ASSUME NEW f \in Frame, Submit(f) PROVE Places'
  <2>0. f \notin tried /\ f \notin Data /\ f \notin Sent
    BY <1>0, <1>2, SubmitMoves
  <2>1. Held' = Held
    BY <1>2 DEF Submit, flags, Held
  <2>2. Once(dataQ)' /\ Once(sentQ)'
    BY <1>0, <1>2, <2>0, SubmitMoves
  <2>3. /\ Data' = Data \cup {f} /\ Sent' = Sent /\ tried' = tried \cup {f}
        /\ mem' = mem /\ timeOut'[f] = TimeOutTick
        /\ \A b \in Buffer \ {f} : timeOut'[b] = timeOut[b]
    BY <1>0, <1>2, SubmitMoves DEF Counts
  <2>4. \A b \in (Data \cup Sent)' : timeOut'[b] >= 1
    BY <1>0, <2>0, <2>3
  <2>. QED  BY <1>0, <2>0, <2>1, <2>2, <2>3, <2>4 DEF Places
<1>3. CASE RecvAck
  <2>1. Once(dataQ)' /\ Once(sentQ)' /\ Sent' \subseteq Sent
    BY <1>0, <1>3, RecvAckMoves DEF Once
  <2>. QED  BY <1>0, <1>3, <2>1, RecvAckMoves DEF Places, Held
<1>4. CASE RecvNack
  <2>0. Held' = Held
    BY <1>4, <1>0, RecvNackMoves DEF Held
  <2>1. CASE UNCHANGED <<sentQ, dataQ, Sent, Data, timeOut>>
    <3>1. Once(dataQ)' /\ Once(sentQ)'
      BY <1>0, <2>1 DEF Once
    <3>. QED  BY <1>0, <1>4, <2>0, <2>1, <3>1, RecvNackMoves DEF Places
  <2>2. ASSUME NEW f \in Sent,
               Sent' = Sent \ {f} /\ Data' = Data \cup {f},
               Once(sentQ) => Once(sentQ)',
               Once(dataQ) /\ f \notin Data => Once(dataQ)',
               Counts(f, numSend[f], TimeOutTick)
        PROVE  Places'
    BY <1>0, <1>4, <2>0, <2>2, RecvNackMoves DEF Places, Counts
  <2>. QED  BY <1>0, <1>4, <2>1, <2>2, RecvNackMoves
<1>5. CASE RecvData
  <2>0. Held' = Held
    BY <1>5, <1>0, RecvDataMoves DEF Held
  <2>1. \A b \in Frame : timeOut'[b] = timeOut[b]
    BY <1>0, <1>5, RecvDataMoves DEF Counts
  <2>2. Once(dataQ)' /\ Once(sentQ)'
    BY <1>0, <1>5, RecvDataMoves DEF Once
  <2>. QED  BY <1>0, <1>5, <2>0, <2>1, <2>2, RecvDataMoves DEF Places
<1>6. CASE UpdateWaiting
  <2>0. UNCHANGED <<mem, tried>> /\ (Held' => Held)
    BY <1>6 DEF UpdateWaiting, flags, Held
  <2>1. CASE update
    <3>1. PICK again, dead, left : Updated(again, dead, left)
      BY <1>6, <2>1, UpdateMoves
    <3>2. /\ again \subseteq left /\ dead \subseteq left /\ left \subseteq Sent
          /\ Sent' = Sent \ (again \cup dead) /\ Data' = Data \cup again
          /\ Once(dataQ)' /\ Once(sentQ)'
      BY <3>1 DEF Updated
    <3>3. ASSUME NEW b \in Buffer, b \in Data \cup Sent'
          PROVE  timeOut'[b] >= 1
      <4>1. timeOut[b] \in Nat /\ timeOut[b] >= 1
        BY <1>0, <3>2, <3>3, NumberFacts
      <4>2. b \notin again
        BY <1>0, <3>2, <3>3
      <4>3. b \in left => timeOut[b] # 1
        BY <1>0, <3>1, <3>2, <3>3, <4>2 DEF Updated
      <4>4. timeOut'[b] = IF b \in left THEN timeOut[b] - 1 ELSE timeOut[b]
        BY <3>1, <4>2 DEF Updated
      <4>. QED  BY <4>1, <4>3, <4>4
    <3>4. ASSUME NEW b \in again PROVE timeOut'[b] >= 1
      <4>1. b \in Buffer
        BY <1>0, <3>2
      <4>. QED  BY <1>0, <3>1, <4>1 DEF Updated
    <3>5. Held /\ mem \in Frame => timeOut'[mem] = timeOut[mem]
      <4> SUFFICES ASSUME Held, mem \in Frame PROVE timeOut'[mem] = timeOut[mem]
        OBVIOUS
      <4>1. mem \in Buffer /\ mem \notin left /\ mem \notin again
        BY <1>0, <3>2
      <4>. QED  BY <3>1, <4>1 DEF Updated
    <3>6. \A b \in (Data \cup Sent)' : timeOut'[b] >= 1
      BY <1>0, <3>2, <3>3, <3>4
    <3>. QED  BY <1>0, <2>0, <3>2, <3>5, <3>6 DEF Places
  <2>2. CASE ~update
    <3>1. UNCHANGED <<timeOut, sentQ, dataQ>>
      BY <1>6, <2>2 DEF UpdateWaiting
    <3>2. UNCHANGED <<Data, Sent>> /\ Once(dataQ)' /\ Once(sentQ)'
      BY <1>0, <3>1 DEF Data, Sent, Once
    <3>. QED  BY <1>0, <2>0, <3>1, <3>2 DEF Places
  <2>. QED  BY <2>1, <2>2
<1>7. CASE Pick
  <2>1. Once(sentQ)' /\ Once(dataQ)' /\ Data' \subseteq Data
    BY <1>0, <1>7, PickMoves DEF Once
  <2>2. CASE UNCHANGED <<dataQ, cmdQ, Data, Cmds, numSend, mem, bSending,
                         bL1Sending, bWaitingL1Send>>
    <3>1. Held' => Held
      BY <1>0, <1>7, <2>2, PickMoves DEF Held
    <3>. QED  BY <1>0, <1>7, <2>1, <2>2, <3>1, PickMoves DEF Places
  <2>3. ASSUME NEW c \in Cmds, Taken(c), UNCHANGED <<dataQ, Data>> PROVE Places'
    BY <1>0, <1>7, <2>1, <2>3, PickMoves DEF Places, Taken
  <2>4. ASSUME NEW f \in Data, Taken(f), Data = Data' \cup {f}, f \notin Data'
        PROVE  Places'
    BY <1>0, <1>7, <2>1, <2>4, PickMoves DEF Places, Taken
  <2>. QED  BY <1>0, <1>7, <2>2, <2>3, <2>4, PickMoves
<1>8. CASE SendDone
  <2>0. ~Held' /\ Held
    BY <1>0, <1>8, SendDoneMoves DEF TransInv, Shape, Held
  <2>1. Once(dataQ)' /\ Once(sentQ)'
    BY <1>0, <1>8, <2>0, SendDoneMoves DEF TransInv, Once
  <2>. QED  BY <1>0, <1>8, <2>0, <2>1, SendDoneMoves DEF TransInv, Places
<1>9. CASE Expire
  <2>0. TypeOK /\ Shape
    BY DEF TransInv
  <2>1. /\ UNCHANGED <<dataQ, sentQ, timeOut, mem, tried, Data, Sent>>
        /\ Held' => Held
    BY <1>9, <2>0, ExpireMoves DEF Held
  <2>2. Once(dataQ)' /\ Once(sentQ)'
    BY <1>0, <2>1 DEF Once
  <2>. QED  BY <1>0, <2>1, <2>2 DEF Places
<1>. QED  BY <1>1, <1>2, <1>3, <1>4, <1>5, <1>6, <1>7, <1>8, <1>9, StepsSplit DEF Movers

\* Nothing is queued at the start.
LEMMA TransInvInit == Init => TransInv
<1> SUFFICES ASSUME Init PROVE TransInv
  OBVIOUS
<1>1. Data = {} /\ Cmds = {} /\ Sent = {} /\ Once(dataQ) /\ Once(sentQ) /\ ~Held
  BY EmptyQueue DEF Init, Data, Cmds, Sent, Held
<1>2. TypeOK
  <2>1. numSend \in [Buffer -> 0 .. NumSendMod - 1]
        /\ timeOut \in [Buffer -> 0 .. TimeOutTick]
    BY Constants DEF Init
  <2>2. sends \in [Frame -> 0 .. MaxNumSend + 1]
    BY Constants DEF Init
  <2>3. inbox \in Seq(Message) /\ Len(inbox) <= MaxInbox
    BY Constants DEF Init
  <2>4. dataQ \in Seq(Frame) /\ cmdQ \in Seq(Cmd) /\ sentQ \in Seq(AckReq)
    BY DEF Init
  <2>5. {bSending, bL1Sending, bWaitingL1Send, l1Busy, update, l1Timer, refreed}
          \subseteq BOOLEAN
    BY DEF Init
  <2>6. /\ mem \in Buffer \cup {None} /\ wire \in Buffer \cup {None}
        /\ pc = "pend" /\ free \in SUBSET Buffer
        /\ tried \in SUBSET Frame /\ acked \in SUBSET Frame /\ expired = {}
    BY DEF Init
  <2>. QED  BY <2>1, <2>2, <2>3, <2>4, <2>5, <2>6 DEF TypeOK
<1>3. Shape
  BY DEF Init, Shape
<1>4. Places
  BY <1>1 DEF Places
<1>. QED  BY <1>2, <1>3, <1>4 DEF TransInv

\* The three facts of an invariant, put together.
LEMMA TransInvInductive == Spec => []TransInv
<1>1. TransInv /\ [Next]_vars => TransInv'
  BY TypeStep, ShapeStep, PlacesStep DEF TransInv
<1>. QED  BY <1>1, TransInvInit, PTL DEF Spec

\* The variables keep their types: a frame that waits for its ACK is given up or
\* queued again before its timeout could go below zero, and what layer 2's
\* callbacks free or queue is a buffer, whenever the L1 timeout strikes.
THEOREM TransTypeCorrect == Spec => []TypeOK
BY TransInvInductive, PTL DEF TransInv

-----------------------------------------------------------------------------
(***************************************************************************)
(* The invariant of OneOwner and WireOwned: it is OneOwner by sets; and    *)
(* the transmitter reads a frame only while layer 2 waits for it, so that  *)
(* RunDone and the next Take find it idle, or finishes one that the L1     *)
(* timeout has taken away.                                                 *)
(***************************************************************************)
Busy(b) == b \in Data \cup Cmds \cup Sent \/ (Held /\ b = mem)

OwnInv ==
  /\ ~refreed
  /\ Once(cmdQ)
  /\ Held => mem \notin Cmds
  /\ \A b \in Buffer : b \in free <=> ~Busy(b)
  /\ wire # None => \/ wire \in expired
                    \/ bSending /\ bL1Sending /\ bWaitingL1Send /\ wire = mem

\* What the L1 timeout has taken away stays so.
LEMMA ExpiredStays ==
  ASSUME TransInv, [Next]_vars
  PROVE  expired \subseteq expired'
<1>1. CASE QuietStep
  BY <1>1, QuietSteps DEF Quiet
<1>2. ASSUME NEW f \in Frame, Submit(f) PROVE expired' = expired
  BY <1>2 DEF Submit
<1>3. CASE RecvAck \/ RecvNack \/ RecvData
  BY <1>3, RecvAckMoves, RecvNackMoves, RecvDataMoves DEF TransInv
<1>4. CASE UpdateWaiting \/ Pick \/ SendDone
  BY <1>4 DEF UpdateWaiting, Pick, SendDone
<1>5. CASE Expire
  BY <1>5, ExpireMoves DEF TransInv
<1>. QED  BY <1>1, <1>2, <1>3, <1>4, <1>5, StepsSplit DEF Movers

\* Of the quiet steps only layer 2's change what it is doing.
StillFlags ==
  /\ UNCHANGED <<bSending, bWaitingL1Send, sends>>
  /\ pc' = "sent" <=> pc = "sent"
  /\ wire' = None \/ UNCHANGED <<wire, bL1Sending>>

\* The quiet steps change no owner.
LEMMA QuietFlags ==
  ASSUME QuietStep
  PROVE  StillFlags \/ RunStart \/ RunDone
<1>1. ASSUME NEW f \in Frame, PeerNack(f) PROVE StillFlags
  BY <1>1 DEF PeerNack, flags, l1, StillFlags
<1>2. CASE PeerData \/ UNCHANGED vars \/ UpdateTick
  BY <1>2 DEF PeerData, UpdateTick, vars, flags, l1, StillFlags
<1>3. ASSUME NEW answered \in BOOLEAN, TxDone(answered) PROVE StillFlags
  BY <1>3 DEF TxDone, StillFlags
<1>4. CASE RecvNothing \/ RunIdle \/ RunTimer
  BY <1>4 DEF RecvNothing, RunIdle, RunTimer, flags, l1, StillFlags
<1>. QED  BY <1>1, <1>2, <1>3, <1>4 DEF QuietStep

\* Every step passes a buffer from one owner to the next.
LEMMA OwnStep ==
  ASSUME TransInv, OwnInv, [Next]_vars
  PROVE  OwnInv'
<1>0. /\ Data \cap Sent = {}
      /\ Held => mem \notin Data \cup Sent
      /\ Data \cup Sent \subseteq tried
      /\ Data \subseteq Frame /\ Sent \subseteq AckReq /\ Cmds \subseteq Cmd
      /\ AckReq \subseteq Frame /\ Frame \subseteq Buffer /\ Cmd \subseteq Buffer
      /\ Frame \cap Cmd = {} /\ TypeOK /\ Shape
  BY QueueFacts, Constants DEF TransInv, Places
<1>1. /\ ~refreed /\ Once(cmdQ)
      /\ Held => mem \notin Cmds
      /\ \A b \in Buffer : b \in free <=> ~Busy(b)
      /\ wire # None => \/ wire \in expired
                        \/ bSending /\ bL1Sending /\ bWaitingL1Send /\ wire = mem
  BY DEF OwnInv
<1>2. CASE QuietStep
  <2>1. /\ UNCHANGED <<refreed, free, mem, expired, Data, Cmds, Sent>>
        /\ Once(cmdQ)' = Once(cmdQ)
    <3>1. Quiet
      BY <1>2, QuietSteps
    <3>2. UNCHANGED queues
      BY <3>1 DEF Quiet, queues
    <3>. QED  BY <3>1, <3>2, QueuesKept DEF Quiet
  <2>3. /\ Held' = Held
        /\ (wire # None => \/ wire \in expired
                           \/ bSending /\ bL1Sending /\ bWaitingL1Send /\ wire = mem)'
    <3>1. CASE StillFlags
      BY <1>1, <2>1, <3>1 DEF StillFlags, Held
    <3>2. CASE RunStart
      BY <2>1, <3>2 DEF RunStart, Held
    <3>3. CASE RunDone
      BY <1>1, <2>1, <3>3 DEF RunDone, l1, Held
    <3>. QED  BY <1>2, <3>1, <3>2, <3>3, QuietFlags
  <2>4. \A b : Busy(b)' <=> Busy(b)
    BY <2>1, <2>3 DEF Busy
  <2>. QED  BY <1>1, <2>1, <2>3, <2>4 DEF OwnInv
<1>3. ASSUME NEW f \in Frame, Submit(f) PROVE OwnInv'
  <2>1. Held' = Held
    BY <1>3 DEF Submit, flags, Held
  <2>2. ASSUME NEW b \in Buffer
        PROVE  (b \in free)' <=> ~Busy(b)'
    <3>1. Busy(b)' <=> Busy(b) \/ b = f
      BY <1>3, <1>0, <2>1, SubmitMoves DEF Busy
    <3>. QED  BY <1>0, <1>1, <1>3, <3>1, SubmitMoves
  <2>3. /\ UNCHANGED <<refreed, mem, Cmds, wire, bSending, bL1Sending,
                        bWaitingL1Send, expired>>
        /\ Once(cmdQ)'
    BY <1>0, <1>1, <1>3, SubmitMoves DEF Once
  <2>. QED  BY <1>1, <2>1, <2>2, <2>3 DEF OwnInv
<1>4. CASE RecvAck
  <2>1. Held' = Held
    BY <1>0, <1>4, RecvAckMoves DEF Held
  <2>2. Once(cmdQ)'
    BY <1>0, <1>1, <1>4, RecvAckMoves DEF Once
  <2>3. CASE UNCHANGED <<sentQ, Sent, free, refreed, acked>>
    <3>1. \A b : Busy(b)' <=> Busy(b)
      BY <1>0, <1>4, <2>1, <2>3, RecvAckMoves DEF Busy
    <3>. QED  BY <1>0, <1>1, <1>4, <2>1, <2>2, <2>3, <3>1, RecvAckMoves DEF OwnInv
  <2>4. ASSUME NEW f \in Sent, Sent' = Sent \ {f}, MemFree({f})
        PROVE  OwnInv'
    <3>1. f \in Frame /\ f \in Buffer /\ Busy(f) /\ f \notin free
      BY <1>0, <1>1 DEF Busy
    <3>2. free' = free \cup {f} /\ ~refreed'
      BY <1>1, <2>4, <3>1 DEF MemFree
    <3>3. f \notin Data /\ f \notin Cmds /\ ~(Held /\ f = mem)
      BY <1>0, <3>1
    <3>4. \A b : Busy(b)' <=> Busy(b) /\ b # f
      BY <1>0, <1>4, <2>1, <2>4, <3>3, RecvAckMoves DEF Busy
    <3>. QED  BY <1>0, <1>1, <1>4, <2>1, <2>2, <3>2, <3>4, RecvAckMoves DEF OwnInv
  <2>. QED  BY <1>0, <1>4, <2>3, <2>4, RecvAckMoves
<1>5. CASE RecvNack
  <2>1. Held' = Held
    BY <1>0, <1>5, RecvNackMoves DEF Held
  <2>2. Once(cmdQ)'
    BY <1>0, <1>1, <1>5, RecvNackMoves DEF Once
  <2>3. (Data \cup Sent)' = Data \cup Sent
    BY <1>0, <1>5, RecvNackMoves
  <2>4. \A b : Busy(b)' <=> Busy(b)
    BY <1>0, <1>5, <2>1, <2>3, RecvNackMoves DEF Busy
  <2>. QED  BY <1>0, <1>1, <1>5, <2>1, <2>2, <2>4, RecvNackMoves DEF OwnInv
<1>6. CASE RecvData
  <2>1. Held' = Held
    BY <1>0, <1>6, RecvDataMoves DEF Held
  <2>2. CASE UNCHANGED <<cmdQ, Cmds, numSend, timeOut, free>>
    <3>1. \A b : Busy(b)' <=> Busy(b)
      BY <1>0, <1>6, <2>1, <2>2, RecvDataMoves DEF Busy
    <3>2. Once(cmdQ)'
      BY <1>1, <2>2 DEF Once
    <3>. QED  BY <1>0, <1>1, <1>6, <2>1, <2>2, <3>1, <3>2, RecvDataMoves DEF OwnInv
  <2>3. ASSUME NEW c \in Cmd \cap free,
               free' = free \ {c}, Cmds' = Cmds \cup {c},
               Once(cmdQ) /\ c \notin Cmds => Once(cmdQ)'
        PROVE  OwnInv'
    <3>1. c \in Buffer /\ ~Busy(c)
      BY <1>0, <1>1
    <3>2. c \notin Cmds /\ ~(Held /\ mem = c)
      BY <3>1 DEF Busy
    <3>3. \A b : Busy(b)' <=> Busy(b) \/ b = c
      BY <1>0, <1>6, <2>1, <2>3, RecvDataMoves DEF Busy
    <3>. QED  BY <1>0, <1>1, <1>6, <2>1, <2>3, <3>1, <3>2, <3>3, RecvDataMoves
              DEF OwnInv
  <2>. QED  BY <1>0, <1>6, <2>2, <2>3, RecvDataMoves
<1>7. CASE UpdateWaiting
  <2>0. /\ Held' = Held
        /\ UNCHANGED <<cmdQ, mem, bSending, bL1Sending, bWaitingL1Send, wire, expired>>
    BY <1>7 DEF UpdateWaiting, flags, l1, Held
  <2>1. Cmds' = Cmds /\ Once(cmdQ)' = Once(cmdQ)
    BY <2>0 DEF Cmds, Once
  <2>2. CASE update
    <3>1. PICK again, dead, left : Updated(again, dead, left)
      BY <1>7, <2>2, UpdateMoves
    <3>2. /\ dead \subseteq Sent /\ again \subseteq Sent /\ again \cap dead = {}
          /\ Data' = Data \cup again /\ Sent' = Sent \ (again \cup dead)
          /\ MemFree(dead)
      BY <3>1 DEF Updated
    <3>3. \A b \in dead : b \in Buffer /\ Busy(b) /\ b \notin free
      BY <1>0, <1>1, <3>2 DEF Busy
    <3>4. free' = free \cup dead /\ ~refreed'
      BY <1>1, <3>2, <3>3 DEF MemFree
    <3>5. \A b \in dead : b \notin Data /\ b \notin Cmds /\ ~(Held /\ b = mem)
      BY <1>0, <3>2
    <3>6. \A b : Busy(b)' <=> Busy(b) /\ b \notin dead
      BY <2>0, <2>1, <3>2, <3>5 DEF Busy
    <3>. QED  BY <1>1, <2>0, <2>1, <3>4, <3>6 DEF OwnInv
  <2>3. CASE ~update
    <3>1. UNCHANGED <<sentQ, dataQ, free, refreed>>
      BY <1>7, <2>3 DEF UpdateWaiting, memory
    <3>2. UNCHANGED <<Sent, Data>>
      BY <3>1 DEF Sent, Data
    <3>3. \A b : Busy(b)' <=> Busy(b)
      BY <2>0, <2>1, <3>2 DEF Busy
    <3>. QED  BY <1>1, <2>0, <2>1, <3>1, <3>3 DEF OwnInv
  <2>. QED  BY <2>2, <2>3
<1>8. CASE Pick
  <2>1. CASE UNCHANGED <<dataQ, cmdQ, Data, Cmds, numSend, mem, bSending,
                         bL1Sending, bWaitingL1Send>>
    <3>1. Held' = Held /\ Once(cmdQ)'
      BY <1>0, <1>1, <1>8, <2>1, PickMoves DEF Held, Once
    <3>2. \A b : Busy(b)' <=> Busy(b)
      BY <1>0, <1>8, <2>1, <3>1, PickMoves DEF Busy
    <3>. QED  BY <1>0, <1>1, <1>8, <2>1, <3>1, <3>2, PickMoves DEF OwnInv
  <2>2. ASSUME NEW c \in Cmds, ~bSending, Taken(c), Cmds = Cmds' \cup {c},
               Once(cmdQ) => Once(cmdQ)' /\ c \notin Cmds',
               UNCHANGED <<dataQ, Data>>
        PROVE  OwnInv'
    <3>1. ~Held /\ Held' /\ (wire = None \/ wire \in expired) /\ mem' = c
      BY <1>0, <1>1, <1>8, <2>2, PickMoves DEF Held, Taken
    <3>2. \A b : Busy(b)' <=> Busy(b)
      BY <1>0, <1>8, <2>2, <3>1, PickMoves DEF Busy
    <3>. QED  BY <1>0, <1>1, <1>8, <2>2, <3>1, <3>2, PickMoves DEF OwnInv
  <2>3. ASSUME NEW f \in Data, ~bSending, Taken(f), Data = Data' \cup {f},
               f \notin Data', UNCHANGED <<cmdQ, Cmds>>
        PROVE  OwnInv'
    <3>1. ~Held /\ Held' /\ (wire = None \/ wire \in expired) /\ mem' = f
      BY <1>0, <1>1, <1>8, <2>3, PickMoves DEF Held, Taken
    <3>2. \A b : Busy(b)' <=> Busy(b)
      BY <1>0, <1>8, <2>3, <3>1, PickMoves DEF Busy
    <3>3. Once(cmdQ)' /\ f \notin Cmds
      BY <1>0, <1>1, <2>3 DEF Once
    <3>. QED  BY <1>0, <1>1, <1>8, <2>3, <3>1, <3>2, <3>3, PickMoves DEF OwnInv
  <2>4. \/ UNCHANGED <<dataQ, cmdQ, Data, Cmds, numSend, mem, bSending,
                        bL1Sending, bWaitingL1Send>>
        \/ /\ ~bSending
           /\ \E c \in Cmds : /\ Taken(c) /\ Cmds = Cmds' \cup {c}
                              /\ Once(cmdQ) => Once(cmdQ)' /\ c \notin Cmds'
           /\ UNCHANGED <<dataQ, Data>>
        \/ /\ ~bSending
           /\ \E f \in Data : Taken(f) /\ Data = Data' \cup {f} /\ f \notin Data'
           /\ UNCHANGED <<cmdQ, Cmds>>
    BY <1>0, <1>8, PickMoves DEF TransInv, Places
  <2>. QED  BY <2>1, <2>2, <2>3, <2>4
<1>9. CASE SendDone
  <2>1. Held /\ ~Held' /\ ~bSending /\ (wire = None \/ wire \in expired) /\ mem \in Buffer
    BY <1>0, <1>1, <1>9, SendDoneMoves DEF Shape, Held
  <2>2. Busy(mem) /\ mem \notin free /\ mem \notin Data \cup Cmds \cup Sent
    BY <1>0, <1>1, <2>1 DEF Busy
  <2>3. Once(cmdQ)'
    BY <1>0, <1>1, <1>9, SendDoneMoves DEF Once
  <2>4. CASE mem \in AckReq
    <3>1. \A b : Busy(b)' <=> Busy(b)
      BY <1>0, <1>9, <2>1, <2>4, SendDoneMoves DEF Busy
    <3>. QED  BY <1>0, <1>1, <1>9, <2>1, <2>3, <2>4, <3>1, SendDoneMoves DEF OwnInv
  <2>5. CASE mem \notin AckReq
    <3>1. \A b : Busy(b)' <=> Busy(b) /\ b # mem
      BY <1>0, <1>9, <2>1, <2>2, <2>5, SendDoneMoves DEF Busy
    <3>2. free' = free \cup {mem} /\ ~refreed'
      BY <1>0, <1>1, <1>9, <2>2, <2>5, SendDoneMoves DEF MemFree
    <3>. QED  BY <1>0, <1>1, <1>9, <2>1, <2>3, <3>1, <3>2, SendDoneMoves DEF OwnInv
  <2>. QED  BY <2>4, <2>5
<1>10. CASE Expire
  <2>1. CASE UNCHANGED <<bSending, bL1Sending, bWaitingL1Send, free, refreed, expired>>
             /\ Held' = Held
    <3>1. \A b : Busy(b)' <=> Busy(b)
      BY <1>0, <1>10, <2>1, ExpireMoves DEF Busy
    <3>. QED  BY <1>0, <1>1, <1>10, <2>1, <3>1, ExpireMoves DEF OwnInv
  <2>2. CASE /\ Held /\ ~Held' /\ mem \in Buffer /\ MemFree({mem})
             /\ expired' = expired \cup {mem}
    <3>1. Busy(mem) /\ mem \notin free /\ mem \notin Data \cup Cmds \cup Sent
      BY <1>0, <1>1, <2>2 DEF Busy
    <3>2. free' = free \cup {mem} /\ ~refreed'
      BY <1>1, <2>2, <3>1 DEF MemFree
    <3>3. \A b : Busy(b)' <=> Busy(b) /\ b # mem
      BY <1>0, <1>10, <2>2, <3>1, ExpireMoves DEF Busy
    <3>4. wire' # None => wire' \in expired'
      BY <1>0, <1>1, <1>10, <2>2, ExpireMoves
    <3>. QED  BY <1>0, <1>1, <1>10, <2>2, <3>2, <3>3, <3>4, ExpireMoves DEF OwnInv
  <2>. QED  BY <1>0, <1>10, <2>1, <2>2, ExpireMoves
<1>. QED  BY <1>2, <1>3, <1>4, <1>5, <1>6, <1>7, <1>8, <1>9, <1>10, StepsSplit
          DEF Movers

\* The three facts of an invariant, put together.
LEMMA OwnInvInductive == Spec => [](TransInv /\ OwnInv)
<1>1. Init => OwnInv
  <2> SUFFICES ASSUME Init PROVE OwnInv
    OBVIOUS
  <2>1. Data = {} /\ Cmds = {} /\ Sent = {} /\ ~Held /\ Once(cmdQ)
    BY EmptyQueue DEF Init, Data, Cmds, Sent, Held
  <2>. QED  BY <2>1 DEF Init, OwnInv, Busy
<1>2. TransInv /\ OwnInv /\ [Next]_vars => OwnInv'
  BY OwnStep
<1>. QED  BY <1>1, <1>2, TransInvInductive, PTL DEF Spec

\* The invariant says OneOwner by sets.
LEMMA OwnInvImpliesOneOwner ==
  ASSUME TransInv, OwnInv
  PROVE  OneOwner
<1>1. /\ dataQ \in Seq(Buffer) /\ cmdQ \in Seq(Buffer) /\ sentQ \in Seq(Buffer)
      /\ mem \in Buffer \cup {None}
      /\ mem = None => ~Held
  <2>1. dataQ \in Seq(Frame) /\ cmdQ \in Seq(Cmd) /\ sentQ \in Seq(AckReq)
    BY DEF TransInv, TypeOK
  <2>2. dataQ \in Seq(Buffer) /\ cmdQ \in Seq(Buffer) /\ sentQ \in Seq(Buffer)
    BY <2>1, Constants
  <2>. QED  BY <2>2 DEF TransInv, TypeOK, Shape, Held
<1>2. /\ Data \cap Cmds = {} /\ Data \cap Sent = {} /\ Cmds \cap Sent = {}
      /\ Held => mem \notin Data \cup Cmds \cup Sent
  BY QueueFacts, Constants DEF TransInv, Places, OwnInv
<1>3. Once(dataQ) /\ Once(cmdQ) /\ Once(sentQ)
  BY DEF TransInv, Places, OwnInv
<1>4. /\ Sending \in Seq(Buffer) /\ Once(Sending)
      /\ Elems(Sending) = IF Held THEN {mem} ELSE {}
  <2>1. CASE Held
    <3>1. mem \in Buffer /\ Sending = <<mem>>
      BY <1>1, <2>1 DEF Sending, Held
    <3>. QED  BY <2>1, <3>1 DEF Once, Elems
  <2>2. CASE ~Held
    <3>1. Sending = <<>>
      BY <2>2 DEF Sending, Held
    <3>. QED  BY <2>2, <3>1, EmptyQueue
  <2>. QED  BY <2>1, <2>2
<1> DEFINE dc == dataQ \o cmdQ
           dcs == dc \o sentQ
<1>5. dc \in Seq(Buffer) /\ Elems(dc) = Data \cup Cmds /\ Once(dc)
  BY <1>1, <1>2, <1>3, Joined DEF Data, Cmds
<1> HIDE DEF dc
<1>6. dcs \in Seq(Buffer) /\ Elems(dcs) = Data \cup Cmds \cup Sent /\ Once(dcs)
  <2>1. Elems(dc) \cap Elems(sentQ) = {}
    BY <1>2, <1>5 DEF Sent
  <2>. QED  BY <1>1, <1>3, <1>5, <2>1, Joined DEF Sent
<1>7. Owned = dcs \o Sending
  BY DEF Owned, dc
<1> HIDE DEF dcs
<1>8. /\ Owned \in Seq(Buffer) /\ Once(Owned)
      /\ Elems(Owned) = Data \cup Cmds \cup Sent \cup (IF Held THEN {mem} ELSE {})
  <2>1. Elems(dcs) \cap Elems(Sending) = {}
    BY <1>2, <1>4, <1>6
  <2>. QED  BY <1>4, <1>6, <1>7, <2>1, Joined
<1>9. \A b \in Buffer : b \in free <=> b \notin Elems(Owned)
  BY <1>8 DEF OwnInv, Busy
<1>10. \A i, j \in DOMAIN Owned : Owned[i] = Owned[j] => i = j
  <2>1. DOMAIN Owned = 1 .. Len(Owned)
    BY <1>8, LenProperties
  <2>. QED  BY <1>8, <2>1 DEF Once
<1>. QED  BY <1>9, <1>10 DEF OneOwner, OwnInv

\* It says of the transmitter what WireOwned asks for.
LEMMA OwnInvImpliesWireOwned ==
  ASSUME TransInv, OwnInv
  PROVE  WireOwned
<1>1. wire # None => wire \in Buffer
  BY DEF TransInv, TypeOK
<1>2. bSending => Busy(mem)
  BY DEF Busy, Held
<1>. QED  BY <1>1, <1>2 DEF OwnInv, WireOwned

\* A buffer has one owner, whatever order ACKs, NACKs, both kinds of timeouts and
\* send-done callbacks come in: none is freed twice, in two queues, or lost.
THEOREM BuffersHaveOneOwner == Spec => []OneOwner
<1>1. TransInv /\ OwnInv => OneOwner
  BY OwnInvImpliesOneOwner
<1>. QED  BY <1>1, OwnInvInductive, PTL

\* And the transmit interrupt reads the frame layer 2 is sending, which is
\* neither free nor queued again, or one that the L1 timeout has taken away.
THEOREM TransmitterReadsOwned == Spec => []WireOwned
<1>1. TransInv /\ OwnInv => WireOwned
  BY OwnInvImpliesWireOwned
<1>. QED  BY <1>1, OwnInvInductive, PTL

-----------------------------------------------------------------------------
(***************************************************************************)
(* The invariant of GivenUpLast: the transmissions made, those left, and   *)
(* the one taken and not yet begun add up.                                 *)
(***************************************************************************)
Pending(f) == IF bSending /\ ~bWaitingL1Send /\ mem = f THEN 1 ELSE 0

CountAt(f) ==
  /\ f \notin tried => sends[f] = 0
  /\ f \in tried => \/ sends[f] >= MaxNumSend
                    \/ sends[f] + numSend[f] + Pending(f) = MaxNumSend
  /\ f \in Data \ AckReq => sends[f] = 0
  /\ Held /\ mem = f /\ f \notin AckReq =>
       sends[f] = IF bWaitingL1Send \/ pc = "sent" THEN 1 ELSE 0

CountInv == \A f \in Frame : CountAt(f)

\* The ranges of the counters of a frame.
LEMMA SendFacts ==
  ASSUME TypeOK, NEW f \in Frame
  PROVE  /\ sends[f] \in Nat /\ numSend[f] \in Nat /\ numSend[f] < NumSendMod
         /\ numSend[f] >= 0 /\ sends[f] >= 0 /\ f \in Buffer
         /\ MaxNumSend \in Nat /\ MaxNumSend >= 1 /\ NumSendMod \in Nat
         /\ Pending(f) \in {0, 1}
<1>1. f \in Buffer
  BY Constants
<1>2. sends[f] \in 0 .. MaxNumSend + 1 /\ numSend[f] \in 0 .. NumSendMod - 1
  BY <1>1 DEF TypeOK
<1>3. Pending(f) \in {0, 1}
  BY DEF Pending
<1>. QED  BY <1>1, <1>2, <1>3, Constants

\* A frame that is queued is not the one layer 2 has taken.
LEMMA QueuedNotPending ==
  ASSUME TransInv, NEW f \in Data \cup Sent
  PROVE  Pending(f) = 0
BY DEF TransInv, Places, Held, Pending

\* The count of a frame, when nothing of it is sent or taken.
LEMMA CountKept ==
  ASSUME NEW f \in Frame, CountAt(f), sends' = sends, tried' = tried,
         numSend'[f] = numSend[f], Pending(f)' = Pending(f),
         f \in Data' \ AckReq => f \in Data,
         (Held /\ mem = f)' => Held /\ mem = f,
         (bWaitingL1Send \/ pc = "sent")' <=> (bWaitingL1Send \/ pc = "sent")
  PROVE  CountAt(f)'
BY DEF CountAt

\* Every step keeps the sum of sent, to be sent and taken.
LEMMA CountStep ==
  ASSUME TransInv, CountInv, [Next]_vars, NEW f \in Frame
  PROVE  CountAt(f)'
<1>0. /\ Data \subseteq Frame /\ Sent \subseteq AckReq /\ Cmds \subseteq Cmd
      /\ Frame \cap Cmd = {} /\ TypeOK /\ Shape
      /\ CountAt(f) /\ f \in Buffer /\ Frame \subseteq Buffer /\ Cmd \subseteq Buffer
  BY QueueFacts, Constants DEF TransInv, CountInv
<1>1. /\ Held => mem \notin Data \cup Sent
      /\ Data \cup Sent \subseteq tried
      /\ Held /\ mem \in Frame => mem \in tried
  BY DEF TransInv, Places
<1>2. CASE QuietStep
  <2>1. Quiet
    BY <1>2, QuietSteps
  <2>2. UNCHANGED <<Data, mem, numSend, tried>>
    BY <2>1 DEF Quiet, Data
  <2>3. CASE StillFlags
    <3>1. Pending(f)' = Pending(f) /\ Held' = Held
      BY <2>2, <2>3 DEF StillFlags, Pending, Held
    <3>2. (bWaitingL1Send \/ pc = "sent")' <=> (bWaitingL1Send \/ pc = "sent")
      BY <2>3 DEF StillFlags
    <3>. QED  BY <1>0, <2>2, <2>3, <3>1, <3>2, CountKept DEF StillFlags
  <2>4. CASE RunStart
    <3>1. /\ bSending /\ ~bWaitingL1Send /\ Held /\ bWaitingL1Send' = TRUE
          /\ sends' = IF mem \in Frame /\ sends[mem] <= MaxNumSend
                        THEN [sends EXCEPT ![mem] = @ + 1] ELSE sends
          /\ pc = "run" /\ bSending' = bSending /\ Held'
      BY <2>4 DEF RunStart, Held
    <3>2. Pending(f)' = 0
      BY <3>1 DEF Pending
    <3>3. CASE f # mem
      <4>1. sends'[f] = sends[f] /\ Pending(f) = 0
        BY <1>0, <3>1, <3>3 DEF TypeOK, Pending
      <4>. QED  BY <1>0, <2>2, <3>1, <3>2, <3>3, <4>1 DEF CountAt
    <3>4. CASE f = mem
      <4>1. f \in tried /\ f \notin Data /\ Pending(f) = 1
        BY <1>1, <3>1, <3>4 DEF Pending
      <4>2. sends'[f] = IF sends[f] <= MaxNumSend THEN sends[f] + 1 ELSE sends[f]
        BY <1>0, <3>1, <3>4 DEF TypeOK
      <4>3. \/ sends'[f] >= MaxNumSend
            \/ sends'[f] + numSend'[f] + 0 = MaxNumSend
        BY <1>0, <2>2, <4>1, <4>2, SendFacts DEF CountAt
      <4>4. f \notin AckReq => sends'[f] = 1
        <5> SUFFICES ASSUME f \notin AckReq PROVE sends'[f] = 1
          OBVIOUS
        <5>1. sends[f] = 0
          BY <1>0, <3>1, <3>4 DEF CountAt
        <5>. QED  BY <4>2, <5>1, SendFacts, <1>0
      <4>. QED  BY <2>2, <3>1, <3>2, <4>1, <4>3, <4>4 DEF CountAt
    <3>. QED  BY <3>3, <3>4
  <2>5. CASE RunDone
    <3>1. /\ bSending /\ bWaitingL1Send /\ pc' = "sent" /\ Held
          /\ bSending' = FALSE /\ sends' = sends
      BY <2>5 DEF RunDone, Held
    <3>2. Pending(f) = 0 /\ Pending(f)' = 0
      BY <3>1 DEF Pending
    <3>. QED  BY <1>0, <2>2, <3>1, <3>2, CountKept
  <2>. QED  BY <1>2, <2>3, <2>4, <2>5, QuietFlags
<1>3. ASSUME NEW g \in Frame, Submit(g) PROVE CountAt(f)'
  <2>1. /\ g \notin tried /\ tried' = tried \cup {g} /\ Data' = Data \cup {g}
        /\ Counts(g, MaxNumSend, TimeOutTick) /\ sends' = sends
        /\ UNCHANGED <<mem, bSending, bWaitingL1Send, pc>>
    BY <1>0, <1>3, SubmitMoves
  <2>2. Held' = Held /\ Pending(f)' = Pending(f)
    BY <2>1 DEF Held, Pending
  <2>3. CASE f = g
    <3>1. ~(Held /\ mem = f) /\ Pending(f) = 0
      BY <1>1, <2>1, <2>3 DEF Held, Pending
    <3>2. numSend'[f] = MaxNumSend /\ sends[f] = 0
      BY <1>0, <2>1, <2>3 DEF Counts, CountAt
    <3>. QED  BY <2>1, <2>2, <2>3, <3>1, <3>2, Constants DEF CountAt
  <2>4. CASE f # g
    <3>1. numSend'[f] = numSend[f]
      BY <1>0, <2>1, <2>4 DEF Counts
    <3>. QED  BY <1>0, <2>1, <2>2, <2>4, <3>1 DEF CountAt
  <2>. QED  BY <2>3, <2>4
<1>4. CASE RecvAck \/ RecvNack \/ RecvData
  <2>1. /\ sends' = sends /\ tried' = tried
        /\ UNCHANGED <<mem, bSending, bWaitingL1Send>>
        /\ pc = "pend" /\ pc' = "update"
    BY <1>0, <1>4, RecvAckMoves, RecvNackMoves, RecvDataMoves
  <2>2. f \in Data' \ AckReq => f \in Data
    BY <1>0, <1>4, RecvAckMoves, RecvNackMoves, RecvDataMoves
  <2>3. numSend'[f] = numSend[f]
    <3>1. CASE RecvAck \/ RecvNack
      BY <1>0, <3>1, RecvAckMoves, RecvNackMoves
    <3>2. CASE RecvData
      BY <1>0, <3>2, RecvDataMoves DEF Counts
    <3>. QED  BY <1>4, <3>1, <3>2
  <2>4. Pending(f)' = Pending(f) /\ Held' = Held
    BY <2>1 DEF Pending, Held
  <2>. QED  BY <1>0, <2>1, <2>2, <2>3, <2>4, CountKept
<1>5. CASE UpdateWaiting
  <2>1. /\ sends' = sends /\ tried' = tried /\ numSend' = numSend
        /\ UNCHANGED <<mem, bSending, bWaitingL1Send>>
        /\ pc = "update" /\ pc' = "pick"
    BY <1>5 DEF UpdateWaiting, flags
  <2>2. f \in Data' \ AckReq => f \in Data
    <3>1. CASE update
      <4>1. PICK again, dead, left : Updated(again, dead, left)
        BY <1>5, <3>1, UpdateMoves
      <4>. QED  BY <1>0, <4>1 DEF Updated
    <3>2. CASE ~update
      BY <1>5, <3>2 DEF UpdateWaiting, Data
    <3>. QED  BY <3>1, <3>2
  <2>3. Pending(f)' = Pending(f) /\ Held' = Held
    BY <2>1 DEF Pending, Held
  <2>. QED  BY <1>0, <2>1, <2>2, <2>3, CountKept
<1>6. CASE Pick
  <2>1. sends' = sends /\ tried' = tried /\ pc = "pick" /\ pc' = "run"
    BY <1>0, <1>6, PickMoves
  <2>2. CASE UNCHANGED <<Data, numSend, mem, bSending, bWaitingL1Send>>
    <3>1. Pending(f)' = Pending(f) /\ (Held' => Held)
      BY <2>1, <2>2 DEF Pending, Held
    <3>. QED  BY <1>0, <2>1, <2>2, <3>1, CountKept
  <2>3. ASSUME NEW b \in Buffer, b # f, ~bSending, Taken(b), Data' \subseteq Data
        PROVE  CountAt(f)'
    <3>1. Pending(f) = 0 /\ Pending(f)' = 0 /\ mem' # f /\ numSend'[f] = numSend[f]
      BY <1>0, <2>3 DEF Pending, Taken
    <3>. QED  BY <1>0, <2>1, <2>3, <3>1 DEF CountAt
  <2>4. CASE ~bSending /\ Taken(f) /\ f \in Data /\ f \notin Data'
    <3>1. /\ Pending(f) = 0 /\ Pending(f)' = 1 /\ f \in tried
          /\ bWaitingL1Send' = FALSE /\ mem' = f
          /\ numSend'[f] = (numSend[f] - 1) % NumSendMod
      BY <1>1, <2>4 DEF Pending, Taken
    <3>2. f \notin AckReq => sends[f] = 0
      BY <1>0, <2>4 DEF CountAt
    <3>3. \/ sends[f] >= MaxNumSend
          \/ sends[f] + numSend'[f] + 1 = MaxNumSend
      <4>1. CASE numSend[f] = 0
        BY <1>0, <3>1, <4>1, SendFacts DEF CountAt
      <4>2. CASE numSend[f] # 0
        <5>1. numSend[f] - 1 \in 0 .. NumSendMod - 1
          BY <1>0, <4>2, SendFacts
        <5>2. numSend'[f] = numSend[f] - 1
          BY <1>0, <3>1, <5>1, SendFacts
        <5>. QED  BY <1>0, <3>1, <5>2, SendFacts DEF CountAt
      <4>. QED  BY <4>1, <4>2
    <3>. QED  BY <2>1, <2>4, <3>1, <3>2, <3>3 DEF CountAt
  <2>5. \/ UNCHANGED <<Data, numSend, mem, bSending, bWaitingL1Send>>
        \/ ~bSending /\ Data' = Data /\ \E c \in Cmds : Taken(c)
        \/ ~bSending /\ \E g \in Data : Taken(g) /\ Data = Data' \cup {g} /\ g \notin Data'
    BY <1>0, <1>6, PickMoves DEF TransInv, Places
  <2>6. \A c \in Cmds : c \in Buffer /\ c # f
    BY <1>0
  <2>. QED  BY <1>0, <2>2, <2>3, <2>4, <2>5, <2>6
<1>7. CASE SendDone
  <2>1. /\ sends' = sends /\ tried' = tried /\ Data' = Data /\ numSend' = numSend
        /\ ~bSending /\ bSending' = bSending /\ pc' = "pend"
    BY <1>0, <1>7, SendDoneMoves DEF Shape
  <2>2. Pending(f) = 0 /\ Pending(f)' = 0 /\ ~Held'
    BY <2>1 DEF Pending, Held
  <2>. QED  BY <1>0, <2>1, <2>2 DEF CountAt
<1>8. CASE Expire
  <2>1. /\ UNCHANGED <<sends, tried, Data, numSend, mem, pc>>
        /\ \/ UNCHANGED <<bSending, bWaitingL1Send>> /\ Held' = Held
           \/ bWaitingL1Send /\ bSending' = FALSE /\ ~Held'
    BY <1>0, <1>8, ExpireMoves
  <2>2. Pending(f)' = Pending(f)
    BY <2>1 DEF Pending
  <2>. QED  BY <1>0, <2>1, <2>2 DEF CountAt
<1>. QED  BY <1>2, <1>3, <1>4, <1>5, <1>6, <1>7, <1>8, StepsSplit DEF Movers

\* A frame is freed when it has used up its transmissions, was acknowledged, or
\* the L1 timeout takes it away.
LEMMA GivenUpStep ==
  ASSUME TransInv, OwnInv, CountInv, GivenUpLast, [Next]_vars
  PROVE  GivenUpLast'
<1> SUFFICES ASSUME NEW f \in Frame, f \in tried', f \in free', f \notin expired'
             PROVE  IF f \in AckReq THEN f \in acked' \/ sends'[f] >= MaxNumSend
                    ELSE sends'[f] = 1
  <2>1. tried' \subseteq Frame
    BY TypeStep DEF TypeOK
  <2>. QED  BY <2>1 DEF GivenUpLast
<1>0. /\ Data \subseteq Frame /\ Sent \subseteq AckReq /\ Cmds \subseteq Cmd
      /\ Frame \cap Cmd = {} /\ TypeOK /\ Shape
      /\ CountAt(f) /\ f \in Buffer /\ Frame \subseteq Buffer
      /\ f \in free <=> ~Busy(f)
      /\ f \notin expired
  BY QueueFacts, Constants, ExpiredStays DEF TransInv, CountInv, OwnInv
<1>1. f \in tried /\ f \in free =>
        IF f \in AckReq THEN f \in acked \/ sends[f] >= MaxNumSend ELSE sends[f] = 1
  BY <1>0 DEF GivenUpLast
<1>2. CASE QuietStep
  <2>1. Quiet
    BY <1>2, QuietSteps
  <2>2. f \in tried /\ f \in free /\ acked' = acked
    BY <2>1 DEF Quiet
  <2>3. sends'[f] = sends[f]
    <3>1. CASE StillFlags
      BY <3>1 DEF StillFlags
    <3>2. CASE RunStart
      <4>1. mem # f
        BY <1>0, <2>2, <3>2 DEF RunStart, Busy, Held
      <4>. QED  BY <1>0, <3>2, <4>1 DEF RunStart, TypeOK
    <3>3. CASE RunDone
      BY <3>3 DEF RunDone
    <3>. QED  BY <1>2, <3>1, <3>2, <3>3, QuietFlags
  <2>. QED  BY <1>1, <2>2, <2>3
<1>3. ASSUME NEW g \in Frame, Submit(g)
      PROVE  f \in tried /\ f \in free /\ acked' = acked /\ sends' = sends
  BY <1>0, <1>3, SubmitMoves
<1>4. CASE RecvAck
  <2>1. tried' = tried /\ sends' = sends
    BY <1>0, <1>4, RecvAckMoves
  <2>2. CASE UNCHANGED <<free, acked>>
    BY <1>1, <2>1, <2>2
  <2>3. ASSUME NEW g \in Sent, MemFree({g}), acked' = acked \cup {g}
        PROVE  IF f \in AckReq THEN f \in acked' \/ sends'[f] >= MaxNumSend
               ELSE sends'[f] = 1
    <3>1. f \in free \/ f = g
      BY <2>3 DEF MemFree
    <3>. QED  BY <1>0, <1>1, <2>1, <2>3, <3>1
  <2>. QED  BY <1>0, <1>4, <2>2, <2>3, RecvAckMoves
<1>5. CASE RecvNack \/ RecvData \/ Pick
  <2>1. f \in tried /\ f \in free /\ acked' = acked /\ sends' = sends
    BY <1>0, <1>5, RecvNackMoves, RecvDataMoves, PickMoves
  <2>. QED  BY <1>1, <2>1
<1>6. CASE UpdateWaiting
  <2>1. acked' = acked /\ sends' = sends /\ tried' = tried
    BY <1>6 DEF UpdateWaiting
  <2>2. CASE f \in free
    BY <1>1, <2>1, <2>2
  <2>3. CASE f \notin free
    <3>1. update
      BY <1>6, <2>3 DEF UpdateWaiting, memory
    <3>2. PICK again, dead, left : Updated(again, dead, left)
      BY <1>6, <3>1, UpdateMoves
    <3>3. f \in dead /\ f \in Sent /\ numSend[f] = 0
      BY <2>3, <3>2 DEF Updated, MemFree
    <3>4. Pending(f) = 0 /\ f \in AckReq
      BY <1>0, <3>3, QueuedNotPending
    <3>. QED  BY <1>0, <2>1, <3>3, <3>4, SendFacts DEF CountAt
  <2>. QED  BY <2>2, <2>3
<1>7. CASE SendDone
  <2>1. /\ tried' = tried /\ sends' = sends /\ acked' = acked /\ pc = "sent"
        /\ UNCHANGED free \/ (mem \notin AckReq /\ MemFree({mem}))
    BY <1>0, <1>7, SendDoneMoves
  <2>2. CASE f \in free
    BY <1>1, <2>1, <2>2
  <2>3. CASE f \notin free
    <3>1. f = mem /\ f \notin AckReq /\ Held
      BY <2>1, <2>3 DEF MemFree, Held
    <3>2. sends[f] = 1
      BY <1>0, <2>1, <3>1 DEF CountAt
    <3>. QED  BY <2>1, <3>1, <3>2
  <2>. QED  BY <2>2, <2>3
<1>8. CASE Expire
  <2>1. tried' = tried /\ sends' = sends /\ acked' = acked
    BY <1>0, <1>8, ExpireMoves
  <2>2. f \in free
    BY <1>0, <1>8, ExpireMoves DEF MemFree
  <2>. QED  BY <1>1, <2>1, <2>2
<1>. QED  BY <1>1, <1>2, <1>3, <1>4, <1>5, <1>6, <1>7, <1>8, StepsSplit DEF Movers

\* A frame that asked for an ACK is given up only when it was acknowledged,
\* transmitted TRANS_MAX_NUM_SEND times or taken away by the L1 timeout, and one
\* that did not only when it was transmitted once or taken away.
THEOREM GivenUpAfterAllTries == Spec => []GivenUpLast
<1> DEFINE Inv == CountInv /\ GivenUpLast
<1>1. Init => Inv
  <2> SUFFICES ASSUME Init PROVE CountInv /\ GivenUpLast
    OBVIOUS
  <2>1. Data = {} /\ ~Held
    BY EmptyQueue DEF Init, Data, Held
  <2>. QED  BY <2>1 DEF Init, CountInv, CountAt, GivenUpLast
<1>2. TransInv /\ OwnInv /\ Inv /\ [Next]_vars => Inv'
  BY CountStep, GivenUpStep DEF CountInv
<1>3. Inv => GivenUpLast
  OBVIOUS
<1> HIDE DEF Inv
<1>. QED  BY <1>1, <1>2, <1>3, OwnInvInductive, PTL DEF Spec

-----------------------------------------------------------------------------
(***************************************************************************)
(* The invariant of SendsBounded, for a peer that sends no NACK and        *)
(* whatever the L1 timeout does.                                           *)
(***************************************************************************)
NoNack == \A m \in Elems(inbox) : m.type # "nack"

BoundAt(f) ==
  /\ f \notin tried => sends[f] = 0
  /\ f \in tried => sends[f] + numSend[f] + Pending(f) <= MaxNumSend
  /\ f \in Data => numSend[f] >= 1

BoundInv == \A f \in Frame : BoundAt(f)

\* A peer that sends no NACK has none on its way.
LEMMA NoNackStep ==
  ASSUME TransInv, NoNack, ~Nacks, [Next]_vars
  PROVE  NoNack'
<1>0. inbox \in Seq(Message)
  BY DEF TransInv, TypeOK
<1>1. CASE inbox' = inbox
  BY <1>1 DEF NoNack
<1>2. CASE PeerData
  <2>1. inbox' = Append(inbox, [type |-> "data"]) /\ [type |-> "data"] \in Message
    BY <1>2 DEF PeerData, Message
  <2>2. Elems(inbox') = Elems(inbox) \cup {[type |-> "data"]}
    BY <1>0, <2>1, Appended
  <2>. QED  BY <2>2 DEF NoNack
<1>3. ASSUME NEW answered \in BOOLEAN, TxDone(answered), inbox' # inbox PROVE NoNack'
  <2> DEFINE m == [type |-> "ack", seq |-> wire]
  <2>1. inbox' = Append(inbox, m) /\ wire \in Frame
    BY <1>3, Constants DEF TxDone
  <2>2. m \in Message
    BY <2>1 DEF Message
  <2>3. m.type # "nack"
    OBVIOUS
  <2> HIDE DEF m
  <2>4. Elems(inbox') = Elems(inbox) \cup {m}
    BY <1>0, <2>1, <2>2, Appended
  <2>. QED  BY <2>3, <2>4 DEF NoNack
<1>4. CASE inbox # <<>> /\ inbox' = Tail(inbox)
  <2>1. Elems(inbox') \subseteq Elems(inbox)
    BY <1>0, <1>4, Headed
  <2>. QED  BY <2>1 DEF NoNack
<1>5. \/ inbox' = inbox \/ PeerData
      \/ inbox # <<>> /\ inbox' = Tail(inbox)
      \/ \E answered \in BOOLEAN : TxDone(answered)
  <2>1. ASSUME NEW f \in Frame, PeerNack(f) PROVE FALSE
    BY <2>1 DEF PeerNack
  <2>2. ASSUME NEW f \in Frame, Submit(f) PROVE inbox' = inbox
    BY <2>2 DEF Submit
  <2>3. CASE RecvAck \/ RecvNack \/ RecvData
    BY <2>3 DEF RecvAck, RecvNack, RecvData, Receive
  <2>4. CASE RecvNothing \/ RunIdle \/ RunStart \/ RunTimer \/ RunDone
    BY <2>4 DEF RecvNothing, RunIdle, RunStart, RunTimer, RunDone
  <2>5. CASE UpdateWaiting \/ Pick \/ SendDone
    BY <2>5 DEF UpdateWaiting, Pick, SendDone
  <2>6. CASE UpdateTick \/ Expire \/ UNCHANGED vars
    BY <2>6 DEF UpdateTick, Expire, vars
  <2>. QED  BY <2>1, <2>2, <2>3, <2>4, <2>5, <2>6, StepsSplit DEF QuietStep, Movers
<1>. QED  BY <1>1, <1>2, <1>3, <1>4, <1>5

\* Without NACKs in the inbox, none is received.
LEMMA NoNackNoRecv == TypeOK /\ NoNack => ~RecvNack
<1> SUFFICES ASSUME TypeOK, NoNack, RecvNack PROVE FALSE
  OBVIOUS
<1>1. inbox \in Seq(Message) /\ inbox # <<>> /\ Head(inbox).type = "nack"
  BY DEF TypeOK, RecvNack, Receive
<1>2. Head(inbox) \in Elems(inbox)
  BY <1>1, Headed
<1>. QED  BY <1>1, <1>2 DEF NoNack

\* The bound of a frame, when nothing of it is sent or queued.
LEMMA BoundKept ==
  ASSUME TypeOK, NEW f \in Frame, BoundAt(f), sends' = sends, tried' = tried,
         numSend'[f] = numSend[f], Pending(f)' = Pending(f) \/ Pending(f)' = 0,
         f \in Data' => f \in Data \/ numSend[f] >= 1
  PROVE  BoundAt(f)'
BY SendFacts DEF BoundAt

\* Without NACKs no step gives a frame another transmission.
LEMMA BoundStep ==
  ASSUME TransInv, NoNack, BoundInv, [Next]_vars, NEW f \in Frame
  PROVE  BoundAt(f)'
<1>0. /\ Data \subseteq Frame /\ Sent \subseteq AckReq /\ Cmds \subseteq Cmd
      /\ Frame \cap Cmd = {} /\ TypeOK /\ Shape
      /\ BoundAt(f) /\ f \in Buffer /\ Frame \subseteq Buffer /\ Cmd \subseteq Buffer
  BY QueueFacts, Constants DEF TransInv, BoundInv
<1>1. /\ Held => mem \notin Data \cup Sent
      /\ Data \cup Sent \subseteq tried
      /\ Held /\ mem \in Frame => mem \in tried
  BY DEF TransInv, Places
<1>2. CASE QuietStep
  <2>1. Quiet
    BY <1>2, QuietSteps
  <2>2. UNCHANGED <<Data, mem, numSend, tried>>
    BY <2>1 DEF Quiet, Data
  <2>3. CASE StillFlags
    <3>1. Pending(f)' = Pending(f) /\ sends' = sends
      BY <2>2, <2>3 DEF StillFlags, Pending
    <3>. QED  BY <1>0, <2>2, <3>1, BoundKept
  <2>4. CASE RunStart
    <3>1. /\ bSending /\ ~bWaitingL1Send /\ Held /\ bWaitingL1Send' = TRUE
          /\ sends' = IF mem \in Frame /\ sends[mem] <= MaxNumSend
                        THEN [sends EXCEPT ![mem] = @ + 1] ELSE sends
      BY <2>4 DEF RunStart, Held
    <3>2. Pending(f)' = 0
      BY <3>1 DEF Pending
    <3>3. CASE f # mem
      <4>1. sends'[f] = sends[f] /\ Pending(f) = 0
        BY <1>0, <3>1, <3>3 DEF TypeOK, Pending
      <4>. QED  BY <1>0, <2>2, <3>2, <4>1 DEF BoundAt
    <3>4. CASE f = mem
      <4>1. f \in tried /\ f \notin Data /\ Pending(f) = 1
        BY <1>1, <3>1, <3>4 DEF Pending
      <4>2. sends'[f] = IF sends[f] <= MaxNumSend THEN sends[f] + 1 ELSE sends[f]
        BY <1>0, <3>1, <3>4 DEF TypeOK
      <4>3. sends'[f] + numSend'[f] + 0 <= MaxNumSend
        BY <1>0, <2>2, <4>1, <4>2, SendFacts DEF BoundAt
      <4>. QED  BY <2>2, <3>2, <4>1, <4>3 DEF BoundAt
    <3>. QED  BY <3>3, <3>4
  <2>5. CASE RunDone
    <3>1. bSending' = FALSE /\ sends' = sends
      BY <2>5 DEF RunDone
    <3>2. Pending(f)' = 0
      BY <3>1 DEF Pending
    <3>. QED  BY <1>0, <2>2, <3>1, <3>2, BoundKept
  <2>. QED  BY <1>2, <2>3, <2>4, <2>5, QuietFlags
<1>3. ASSUME NEW g \in Frame, Submit(g) PROVE BoundAt(f)'
  <2>1. /\ g \notin tried /\ tried' = tried \cup {g} /\ Data' = Data \cup {g}
        /\ Counts(g, MaxNumSend, TimeOutTick) /\ sends' = sends
        /\ UNCHANGED <<mem, bSending, bWaitingL1Send>>
    BY <1>0, <1>3, SubmitMoves
  <2>2. Pending(f)' = Pending(f)
    BY <2>1 DEF Pending
  <2>3. CASE f = g
    <3>1. Pending(f) = 0
      BY <1>1, <2>1, <2>3 DEF Held, Pending
    <3>2. numSend'[f] = MaxNumSend /\ sends[f] = 0
      BY <1>0, <2>1, <2>3 DEF Counts, BoundAt
    <3>. QED  BY <2>1, <2>2, <2>3, <3>1, <3>2, Constants DEF BoundAt
  <2>4. CASE f # g
    <3>1. numSend'[f] = numSend[f]
      BY <1>0, <2>1, <2>4 DEF Counts
    <3>. QED  BY <1>0, <2>1, <2>2, <2>4, <3>1 DEF BoundAt
  <2>. QED  BY <2>3, <2>4
<1>4. CASE RecvAck \/ RecvData
  <2>1. /\ sends' = sends /\ tried' = tried /\ Data' = Data
        /\ UNCHANGED <<mem, bSending, bWaitingL1Send>>
    BY <1>0, <1>4, RecvAckMoves, RecvDataMoves
  <2>2. numSend'[f] = numSend[f]
    <3>1. CASE RecvAck
      BY <1>0, <3>1, RecvAckMoves
    <3>2. CASE RecvData
      BY <1>0, <3>2, RecvDataMoves DEF Counts
    <3>. QED  BY <1>4, <3>1, <3>2
  <2>3. Pending(f)' = Pending(f)
    BY <2>1 DEF Pending
  <2>. QED  BY <1>0, <2>1, <2>2, <2>3, BoundKept
<1>5. CASE UpdateWaiting
  <2>1. /\ sends' = sends /\ tried' = tried /\ numSend' = numSend
        /\ UNCHANGED <<mem, bSending, bWaitingL1Send>>
    BY <1>5 DEF UpdateWaiting, flags
  <2>2. f \in Data' => f \in Data \/ numSend[f] >= 1
    <3>1. CASE update
      <4>1. PICK again, dead, left : Updated(again, dead, left)
        BY <1>5, <3>1, UpdateMoves
      <4>2. Data' = Data \cup again /\ (f \in again => numSend[f] > 0)
        BY <4>1 DEF Updated
      <4>. QED  BY <1>0, <4>2, SendFacts
    <3>2. CASE ~update
      BY <1>5, <3>2 DEF UpdateWaiting, Data
    <3>. QED  BY <3>1, <3>2
  <2>3. Pending(f)' = Pending(f)
    BY <2>1 DEF Pending
  <2>. QED  BY <1>0, <2>1, <2>2, <2>3, BoundKept
<1>6. CASE Pick
  <2>1. sends' = sends /\ tried' = tried
    BY <1>0, <1>6, PickMoves
  <2>2. CASE UNCHANGED <<Data, numSend, mem, bSending, bWaitingL1Send>>
    <3>1. Pending(f)' = Pending(f)
      BY <2>2 DEF Pending
    <3>. QED  BY <1>0, <2>1, <2>2, <3>1, BoundKept
  <2>3. ASSUME NEW b \in Buffer, b # f, ~bSending, Taken(b), Data' \subseteq Data
        PROVE  BoundAt(f)'
    <3>1. Pending(f)' = 0 /\ numSend'[f] = numSend[f]
      BY <1>0, <2>3 DEF Pending, Taken
    <3>. QED  BY <1>0, <2>1, <2>3, <3>1, BoundKept
  <2>4. CASE ~bSending /\ Taken(f) /\ f \in Data /\ f \notin Data'
    <3>1. /\ Pending(f) = 0 /\ Pending(f)' = 1 /\ f \in tried
          /\ numSend'[f] = (numSend[f] - 1) % NumSendMod
      BY <1>1, <2>4 DEF Pending, Taken
    <3>2. numSend[f] >= 1 /\ numSend[f] - 1 \in 0 .. NumSendMod - 1
      BY <1>0, <2>4, SendFacts DEF BoundAt
    <3>3. numSend'[f] = numSend[f] - 1
      BY <1>0, <3>1, <3>2, SendFacts
    <3>4. sends[f] + numSend'[f] + 1 <= MaxNumSend
      BY <1>0, <3>1, <3>3, SendFacts DEF BoundAt
    <3>. QED  BY <2>1, <2>4, <3>1, <3>4 DEF BoundAt
  <2>5. \/ UNCHANGED <<Data, numSend, mem, bSending, bWaitingL1Send>>
        \/ ~bSending /\ Data' = Data /\ \E c \in Cmds : Taken(c)
        \/ ~bSending /\ \E g \in Data : Taken(g) /\ Data = Data' \cup {g} /\ g \notin Data'
    BY <1>0, <1>6, PickMoves DEF TransInv, Places
  <2>6. \A c \in Cmds : c \in Buffer /\ c # f
    BY <1>0
  <2>. QED  BY <1>0, <2>2, <2>3, <2>4, <2>5, <2>6
<1>7. CASE SendDone
  <2>1. /\ sends' = sends /\ tried' = tried /\ dataQ' = dataQ /\ numSend' = numSend
        /\ UNCHANGED <<mem, bSending, bWaitingL1Send>>
    BY <1>7 DEF SendDone, frames, flags
  <2>2. Pending(f)' = Pending(f) /\ Data' = Data
    BY <2>1 DEF Pending, Data
  <2>. QED  BY <1>0, <2>1, <2>2, BoundKept
<1>9. CASE Expire
  <2>1. UNCHANGED <<sends, tried, Data, numSend, mem>>
    BY <1>0, <1>9, ExpireMoves
  <2>2. UNCHANGED <<mem, bSending, bWaitingL1Send>> \/ bSending' = FALSE
    BY <1>0, <1>9, ExpireMoves
  <2>3. Pending(f)' = Pending(f) \/ Pending(f)' = 0
    BY <2>2 DEF Pending
  <2>. QED  BY <1>0, <2>1, <2>3, BoundKept
<1>8. ~RecvNack
  BY <1>0, NoNackNoRecv
<1>. QED  BY <1>2, <1>3, <1>4, <1>5, <1>6, <1>7, <1>8, <1>9, StepsSplit DEF Movers

\* A frame is transmitted TRANS_MAX_NUM_SEND times at most by a port whose peer
\* sends no NACK, even when the L1 timeout takes it from layer 2 half-way.
THEOREM TransmissionsBounded ==
  ASSUME ~Nacks
  PROVE  Spec => []SendsBounded
<1>1. Init => NoNack /\ BoundInv
  <2> SUFFICES ASSUME Init PROVE NoNack /\ BoundInv
    OBVIOUS
  <2>1. Data = {} /\ Elems(inbox) = {}
    BY EmptyQueue DEF Init, Data
  <2>. QED  BY <2>1 DEF Init, NoNack, BoundInv, BoundAt
<1>2. TransInv /\ NoNack /\ BoundInv /\ [Next]_vars => NoNack' /\ BoundInv'
  BY NoNackStep, BoundStep DEF BoundInv
<1>3. TransInv /\ BoundInv => SendsBounded
  <2> SUFFICES ASSUME TypeOK, BoundInv, NEW f \in Frame PROVE sends[f] <= MaxNumSend
    BY DEF TransInv, SendsBounded
  <2>1. BoundAt(f)
    BY DEF BoundInv
  <2>. QED  BY <2>1, SendFacts DEF BoundAt
<1>. QED  BY <1>1, <1>2, <1>3, TransInvInductive, PTL DEF Spec
=============================================================================
