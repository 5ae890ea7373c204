-------------------------- MODULE AppHeadersProofs --------------------------
(***************************************************************************)
(* Proofs about AppHeaders, for every number of tags, every queue length   *)
(* and every number of requests.                                           *)
(***************************************************************************)
EXTENDS AppHeaders, TLAPS

-----------------------------------------------------------------------------
(***************************************************************************)
(* The inductive invariant.                                                *)
(***************************************************************************)
\* A link between the two halves of pcCounter++ has read a count.
CountRead == \A l \in Link : step[l] = "store" => count[l] \in 0 .. NumTag + 1

\* The serial task is between its test of pcCounter and its store of it, with
\* the value it will have read at most n.
SerialUpTo(n) ==
  /\ step["serial"] \in {"send", "mark"} => pcCounter <= n
  /\ step["serial"] = "store" => count["serial"] <= n

(***************************************************************************)
(* How far the counter gets.  The listener's and the sender's tasks move   *)
(* only while the serial task is idle or waits in SendHeader: if they have *)
(* passed the test of the counter too, no sum has been stored since.       *)
(***************************************************************************)
InBounds ==
  /\ SerialUpTo(NumTag + 1)
  /\ step["net"] \in {"send", "mark"} => pcCounter <= NumTag
  /\ step["net"] = "store" => count["net"] <= NumTag
  /\ step["net"] \in {"send", "mark", "store"} => SerialUpTo(NumTag - 1)
  /\ next <= NumTag + 2

\* As long as no two handlers overlap, the counter is that of the next header;
\* it is further on when headers were not posted.
Follows(n) == next <= n /\ (~missed => next = n)

Undisturbed ==
  /\ \A l, m \in Link : step[l] # "idle" /\ step[m] # "idle" => l = m
  /\ (pending /\ \A l \in Link : step[l] \in {"idle", "test", "send"}) => Follows(pcCounter)
  /\ \A l \in Link : step[l] \in {"test", "send"} => pending
  /\ \A l \in Link : step[l] = "mark" => Follows(pcCounter + 1)
  /\ \A l \in Link : step[l] = "store" => Follows(count[l] + 1)
  /\ \A l \in Link : step[l] = "zero" => ~pending

HeadInv == TypeOK /\ CountRead /\ InBounds /\ InOrder /\ (~raced => Undisturbed)

\* The numbers of the model.
LEMMA Numbers == NumTag \in Nat \ {0} /\ MaxQueued \in Nat \ {0} /\ MaxRequest \in Nat
BY SizeAssumption

\* Nothing is streamed at the start.
LEMMA HeadInvInit == Init => HeadInv
<1> SUFFICES ASSUME Init PROVE HeadInv
  OBVIOUS
<1> USE Numbers DEF Init, Link
<1>1. TypeOK
  <2>1. pcCounter \in 0 .. NumTag + 2 /\ next \in Nat /\ requests \in 0 .. MaxRequest
    BY DEF TypeOK
  <2>2. /\ pending \in BOOLEAN /\ missed \in BOOLEAN /\ raced \in BOOLEAN
        /\ faults \subseteq {"repeated", "skipped"}
    BY DEF TypeOK
  <2>3. /\ queued \in [Link -> 0 .. MaxQueued]
        /\ step \in [Link -> {"idle", "test", "send", "mark", "store", "clear", "zero"}]
        /\ count \in [Link -> 0 .. NumTag + 1 \cup {Uncounted}]
    BY DEF TypeOK
  <2>. QED  BY <2>1, <2>2, <2>3 DEF TypeOK
<1>2. CountRead /\ InBounds
  BY DEF CountRead, InBounds, SerialUpTo
<1>3. InOrder /\ Undisturbed
  BY DEF InOrder, Undisturbed
<1>. QED  BY <1>1, <1>2, <1>3 DEF HeadInv

\* A frame of another kind, and a request.
LEMMA RequestKeepsInv ==
  ASSUME HeadInv, NEW l \in Link, OtherFrame(l) \/ Request(l)
  PROVE  HeadInv'
<1> USE Numbers DEF Link, HeadInv, Goto, MayRun
<1>1. CASE OtherFrame(l)
  <2>1. TypeOK'
    BY <1>1 DEF OtherFrame, TypeOK, CountRead
  <2>2. CountRead'
    BY <1>1 DEF OtherFrame, TypeOK, CountRead, InBounds, SerialUpTo
  <2>3. InBounds'
    BY <1>1 DEF OtherFrame, TypeOK, CountRead, InBounds, SerialUpTo
  <2>4. InOrder'
    BY <1>1 DEF OtherFrame, TypeOK, InOrder, Undisturbed, Follows
  <2>5. ~raced' => Undisturbed'
    BY <1>1 DEF OtherFrame, TypeOK, CountRead, Undisturbed, Follows, Idle
  <2>. QED  BY <2>1, <2>2, <2>3, <2>4, <2>5
<1>2. CASE Request(l)
  <2>1. TypeOK'
    <3>1. pcCounter' \in 0 .. NumTag + 2 /\ next' \in Nat /\ requests' \in 0 .. MaxRequest
      BY <1>2 DEF Request, TypeOK, CountRead, Idle
    <3>2. /\ pending' \in BOOLEAN /\ missed' \in BOOLEAN /\ raced' \in BOOLEAN
          /\ faults' \subseteq {"repeated", "skipped"}
      BY <1>2 DEF Request, TypeOK, CountRead, Idle
    <3>3. /\ queued' \in [Link -> 0 .. MaxQueued]
          /\ step' \in [Link -> {"idle", "test", "send", "mark", "store", "clear", "zero"}]
          /\ count' \in [Link -> 0 .. NumTag + 1 \cup {Uncounted}]
      BY <1>2 DEF Request, TypeOK, CountRead, Idle
    <3>. QED  BY <3>1, <3>2, <3>3 DEF TypeOK
  <2>2. CountRead'
    BY <1>2 DEF Request, TypeOK, CountRead, InBounds, SerialUpTo
  <2>3. InBounds'
    BY <1>2 DEF Request, TypeOK, CountRead, InBounds, SerialUpTo
  <2>4. InOrder'
    BY <1>2 DEF Request, TypeOK, InOrder, Undisturbed, Follows
  <2>5. ~raced' => Undisturbed'
    <3> SUFFICES ASSUME ~raced' PROVE Undisturbed'
      OBVIOUS
    <3>1. \A m \in Link : step'[m] = "idle"
      BY <1>2 DEF Request, Idle
    <3>2. next' = 0 /\ pcCounter' = 0
      BY <1>2 DEF Request
    <3>. QED  BY <3>1, <3>2 DEF Undisturbed, Follows
  <2>. QED  BY <2>1, <2>2, <2>3, <2>4, <2>5
<1>. QED  BY <1>1, <1>2

\* A step of the handler of a frame sent.
LEMMA HandlerKeepsInv ==
  ASSUME HeadInv, NEW l \in Link, Handler(l)
  PROVE  HeadInv'
<1> USE Numbers DEF Link, HeadInv, Goto, MayRun
<1>0. MayRun(l)
  BY DEF Handler
<1>1. CASE FrameSent(l)
  <2>1. TypeOK'
    BY <1>0, <1>1 DEF FrameSent, TypeOK, CountRead
  <2>2. CountRead'
    BY <1>0, <1>1 DEF FrameSent, TypeOK, CountRead, InBounds, SerialUpTo
  <2>3. InBounds'
    BY <1>0, <1>1 DEF FrameSent, TypeOK, CountRead, InBounds, SerialUpTo
  <2>4. InOrder'
    BY <1>0, <1>1 DEF FrameSent, TypeOK, InOrder, Undisturbed, Follows
  <2>5. ~raced' => Undisturbed'
    BY <1>0, <1>1 DEF FrameSent, TypeOK, CountRead, Undisturbed, Follows, Idle
  <2>. QED  BY <2>1, <2>2, <2>3, <2>4, <2>5
<1>2. CASE TestCounter(l)
  <2>1. TypeOK'
    BY <1>0, <1>2 DEF TestCounter, TypeOK, CountRead
  <2>2. CountRead'
    BY <1>0, <1>2 DEF TestCounter, TypeOK, CountRead, InBounds, SerialUpTo
  <2>3. InBounds'
    BY <1>0, <1>2 DEF TestCounter, TypeOK, CountRead, InBounds, SerialUpTo
  <2>4. InOrder'
    BY <1>0, <1>2 DEF TestCounter, TypeOK, InOrder, Undisturbed, Follows
  <2>5. ~raced' => Undisturbed'
    BY <1>0, <1>2 DEF TestCounter, TypeOK, CountRead, Undisturbed, Follows, Idle
  <2>. QED  BY <2>1, <2>2, <2>3, <2>4, <2>5
<1>3. CASE NoMemory(l)
  <2>1. TypeOK'
    BY <1>0, <1>3 DEF NoMemory, TypeOK, CountRead
  <2>2. CountRead'
    BY <1>0, <1>3 DEF NoMemory, TypeOK, CountRead, InBounds, SerialUpTo
  <2>3. InBounds'
    BY <1>0, <1>3 DEF NoMemory, TypeOK, CountRead, InBounds, SerialUpTo
  <2>4. InOrder'
    BY <1>0, <1>3 DEF NoMemory, TypeOK, InOrder, Undisturbed, Follows
  <2>5. ~raced' => Undisturbed'
    BY <1>0, <1>3 DEF NoMemory, TypeOK, CountRead, Undisturbed, Follows, Idle
  <2>. QED  BY <2>1, <2>2, <2>3, <2>4, <2>5
<1>4. CASE SendHeader(l)
  <2>1. TypeOK'
    <3>1. pcCounter' \in 0 .. NumTag + 2 /\ next' \in Nat /\ requests' \in 0 .. MaxRequest
      BY <1>0, <1>4 DEF SendHeader, TypeOK, CountRead, Fault
    <3>2. /\ pending' \in BOOLEAN /\ missed' \in BOOLEAN /\ raced' \in BOOLEAN
          /\ faults' \subseteq {"repeated", "skipped"}
      BY <1>0, <1>4 DEF SendHeader, TypeOK, CountRead, Fault
    <3>3. /\ queued' \in [Link -> 0 .. MaxQueued]
          /\ step' \in [Link -> {"idle", "test", "send", "mark", "store", "clear", "zero"}]
          /\ count' \in [Link -> 0 .. NumTag + 1 \cup {Uncounted}]
      BY <1>0, <1>4 DEF SendHeader, TypeOK, CountRead, Fault
    <3>. QED  BY <3>1, <3>2, <3>3 DEF TypeOK
  <2>2. CountRead'
    BY <1>0, <1>4 DEF SendHeader, TypeOK, CountRead, InBounds, SerialUpTo, Fault
  <2>3. InBounds'
    BY <1>0, <1>4 DEF SendHeader, TypeOK, CountRead, InBounds, SerialUpTo, Fault
  <2>4. InOrder'
    BY <1>0, <1>4 DEF SendHeader, TypeOK, InOrder, Undisturbed, Follows, Fault
  <2>5. ~raced' => Undisturbed'
    BY <1>0, <1>4 DEF SendHeader, TypeOK, CountRead, Undisturbed, Follows, Idle, Fault
  <2>. QED  BY <2>1, <2>2, <2>3, <2>4, <2>5
<1>5. CASE Mark(l)
  <2>1. TypeOK'
    <3>1. pcCounter' \in 0 .. NumTag + 2 /\ next' \in Nat /\ requests' \in 0 .. MaxRequest
      BY <1>0, <1>5 DEF Mark, TypeOK, CountRead, InBounds, SerialUpTo
    <3>2. /\ pending' \in BOOLEAN /\ missed' \in BOOLEAN /\ raced' \in BOOLEAN
          /\ faults' \subseteq {"repeated", "skipped"}
      BY <1>0, <1>5 DEF Mark, TypeOK, CountRead, InBounds, SerialUpTo
    <3>3. /\ queued' \in [Link -> 0 .. MaxQueued]
          /\ step' \in [Link -> {"idle", "test", "send", "mark", "store", "clear", "zero"}]
          /\ count' \in [Link -> 0 .. NumTag + 1 \cup {Uncounted}]
      BY <1>0, <1>5 DEF Mark, TypeOK, CountRead, InBounds, SerialUpTo
    <3>. QED  BY <3>1, <3>2, <3>3 DEF TypeOK
  <2>2. CountRead'
    BY <1>0, <1>5 DEF Mark, TypeOK, CountRead, InBounds, SerialUpTo
  <2>3. InBounds'
    BY <1>0, <1>5 DEF Mark, TypeOK, CountRead, InBounds, SerialUpTo
  <2>4. InOrder'
    BY <1>0, <1>5 DEF Mark, TypeOK, InOrder, Undisturbed, Follows
  <2>5. ~raced' => Undisturbed'
    BY <1>0, <1>5 DEF Mark, TypeOK, CountRead, Undisturbed, Follows, Idle
  <2>. QED  BY <2>1, <2>2, <2>3, <2>4, <2>5
<1>6. CASE Store(l)
  <2>1. TypeOK'
    BY <1>0, <1>6 DEF Store, TypeOK, CountRead
  <2>2. CountRead'
    BY <1>0, <1>6 DEF Store, TypeOK, CountRead, InBounds, SerialUpTo
  <2>3. InBounds'
    BY <1>0, <1>6 DEF Store, TypeOK, CountRead, InBounds, SerialUpTo
  <2>4. InOrder'
    BY <1>0, <1>6 DEF Store, TypeOK, InOrder, Undisturbed, Follows
  <2>5. ~raced' => Undisturbed'
    BY <1>0, <1>6 DEF Store, TypeOK, CountRead, Undisturbed, Follows, Idle
  <2>. QED  BY <2>1, <2>2, <2>3, <2>4, <2>5
<1>7. CASE ClearCode(l)
  <2>1. TypeOK'
    BY <1>0, <1>7 DEF ClearCode, TypeOK, CountRead
  <2>2. CountRead'
    BY <1>0, <1>7 DEF ClearCode, TypeOK, CountRead, InBounds, SerialUpTo
  <2>3. InBounds'
    BY <1>0, <1>7 DEF ClearCode, TypeOK, CountRead, InBounds, SerialUpTo
  <2>4. InOrder'
    BY <1>0, <1>7 DEF ClearCode, TypeOK, InOrder, Undisturbed, Follows
  <2>5. ~raced' => Undisturbed'
    BY <1>0, <1>7 DEF ClearCode, TypeOK, CountRead, Undisturbed, Follows, Idle
  <2>. QED  BY <2>1, <2>2, <2>3, <2>4, <2>5
<1>8. CASE ZeroCounter(l)
  <2>1. TypeOK'
    BY <1>0, <1>8 DEF ZeroCounter, TypeOK, CountRead
  <2>2. CountRead'
    BY <1>0, <1>8 DEF ZeroCounter, TypeOK, CountRead, InBounds, SerialUpTo
  <2>3. InBounds'
    BY <1>0, <1>8 DEF ZeroCounter, TypeOK, CountRead, InBounds, SerialUpTo
  <2>4. InOrder'
    BY <1>0, <1>8 DEF ZeroCounter, TypeOK, InOrder, Undisturbed, Follows
  <2>5. ~raced' => Undisturbed'
    BY <1>0, <1>8 DEF ZeroCounter, TypeOK, CountRead, Undisturbed, Follows, Idle
  <2>. QED  BY <2>1, <2>2, <2>3, <2>4, <2>5
<1>. QED  BY <1>1, <1>2, <1>3, <1>4, <1>5, <1>6, <1>7, <1>8 DEF Handler

\* Every step preserves the invariant.
LEMMA HeadInvStep == HeadInv /\ [Next]_vars => HeadInv'
<1> SUFFICES ASSUME HeadInv, [Next]_vars PROVE HeadInv'
  OBVIOUS
<1>1. CASE UNCHANGED vars
  BY <1>1 DEF vars, HeadInv, TypeOK, CountRead, InBounds, SerialUpTo, InOrder, Undisturbed, Follows
<1>2. ASSUME NEW l \in Link, OtherFrame(l) \/ Request(l) \/ Handler(l)
      PROVE  HeadInv'
  BY <1>2, RequestKeepsInv, HandlerKeepsInv
<1>. QED  BY <1>1, <1>2 DEF Next

\* The three facts of an invariant, put together.
LEMMA HeadInvHolds == Spec => []HeadInv
BY HeadInvInit, HeadInvStep, PTL DEF Spec

\* The counter never gets further than two past the table, and a link that is
\* about to store a sum has read a count at most one past it.
THEOREM HeadTypeCorrect == Spec => []TypeOK
<1>1. HeadInv => TypeOK
  BY DEF HeadInv
<1>. QED  BY <1>1, HeadInvHolds, PTL

\* The headers of a request follow each other without repetition, and without
\* a gap if there was memory for all, as long as no two handlers overlap.
THEOREM HeadersInOrder == Spec => []InOrder
<1>1. HeadInv => InOrder
  BY DEF HeadInv
<1>. QED  BY <1>1, HeadInvHolds, PTL

\* However the handlers of the two links overlap, the header copied is one of
\* the table or of the two entries behind it.
THEOREM HeadersNearTable == Spec => []NearTable
<1>1. HeadInv => NearTable
  BY DEF HeadInv, InBounds, NearTable
<1>. QED  BY <1>1, HeadInvHolds, PTL
=============================================================================
