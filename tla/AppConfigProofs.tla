-------------------------- MODULE AppConfigProofs ---------------------------
(***************************************************************************)
(* Proofs about AppConfig, for any number of pieces and of values, however *)
(* the saves of the three tasks, the edits of the two links, the loads and *)
(* the restarts follow one another.                                        *)
(***************************************************************************)
EXTENDS AppConfig, SequenceTheorems, TLAPS

(***************************************************************************)
(* A save that WRITE_DONE has begun has copied, of the pieces that its     *)
(* link was the last to set, the values they still have: the link itself   *)
(* is in the save, and what anyone else writes to a piece takes it from    *)
(* the link.                                                               *)
(***************************************************************************)
Copied(l) ==
  job[l] = "done" /\ fil[l] # None
    => \A p \in Piece : last[p] = l /\ p <= Len(fil[l]) => fil[l][p] = sCfg[p]

\* The other tasks are created when App_Init has returned.
Alone == spc = "mount" => \A t \in Task : job[t] = "none"

\* A file that is open is empty, and open once.
HeldShort ==
  ~spoilt /\ Open # {} => file = Short /\ \A t, u \in Open : t = u

ConfigInv == TypeOK /\ HeldShort /\ Alone /\ \A l \in Link : Copied(l)

-----------------------------------------------------------------------------
(***************************************************************************)
(* What a save has copied so far.                                          *)
(***************************************************************************)

\* A configuration is a copy of all of its pieces, and no other copy is.
LEMMA WholeCopy ==
  ASSUME NEW c \in Copy
  PROVE  /\ c \in Seq(Value) /\ Len(c) \in 0 .. NumPiece
         /\ Len(c) = NumPiece => c \in Cfg
<1>1. PICK n \in 0 .. NumPiece : c \in [1 .. n -> Value]
  BY DEF Copy
<1>2. n \in Nat /\ NumPiece \in Nat
  BY SizeAssumption
<1>3. c \in Seq(Value) /\ Len(c) = n
  BY <1>1, <1>2, LenProperties, SeqDef
<1>. QED  BY <1>1, <1>2, <1>3 DEF Cfg, Piece

\* Nothing has been copied of a file just opened.
LEMMA NoCopy == <<>> \in Copy /\ Len(<<>>) = 0
<1>1. <<>> \in [1 .. 0 -> Value]
  OBVIOUS
<1>2. 0 \in 0 .. NumPiece
  BY SizeAssumption
<1>. QED  BY <1>1, <1>2 DEF Copy

\* Each f_write adds the next piece.
LEMMA LongerCopy ==
  ASSUME NEW c \in Copy, Len(c) < NumPiece, NEW v \in Value
  PROVE  /\ Append(c, v) \in Copy
         /\ Len(Append(c, v)) = Len(c) + 1
         /\ Append(c, v)[Len(c) + 1] = v
         /\ \A i \in 1 .. Len(c) : Append(c, v)[i] = c[i]
<1>1. c \in Seq(Value) /\ Len(c) \in 0 .. NumPiece
  BY WholeCopy
<1>2. /\ Append(c, v) \in Seq(Value)
      /\ Len(Append(c, v)) = Len(c) + 1
      /\ Append(c, v)[Len(c) + 1] = v
      /\ \A i \in 1 .. Len(c) : Append(c, v)[i] = c[i]
  BY <1>1, AppendProperties
<1>3. Append(c, v) \in [1 .. Len(c) + 1 -> Value]
  BY <1>2, LenProperties
<1>4. Len(c) + 1 \in 0 .. NumPiece
  BY <1>1, SizeAssumption
<1>. QED  BY <1>2, <1>3, <1>4 DEF Copy

\* None marks a closed file and the lack of a writer.
LEMMA Marks == None \notin Copy /\ None \notin Task
BY MarkAssumption

-----------------------------------------------------------------------------
(***************************************************************************)
(* The steps that end a task's use of the file.                            *)
(***************************************************************************)

\* A frame for the PC finds room or is lost.
LEMMA ReplyType ==
  ASSUME TypeOK, NEW l \in Task, Reply(l)
  PROVE  replies' \in 0 .. MaxReply
<1>1. replies \in 0 .. MaxReply /\ MaxReply \in Nat
  BY SizeAssumption DEF TypeOK
<1>2. replies' \in {replies, replies + 1} /\ (replies < MaxReply \/ replies' = replies)
  BY DEF Reply
<1>. QED  BY <1>1, <1>2

\* The end of a save touches neither the configuration nor another task, and
\* gives no piece to a link.
LEMMA FinishMoves ==
  ASSUME TypeOK, NEW t \in Task, Finish(t)
  PROVE  /\ spc' \in {spc, "run"} /\ {initReq', sem', sdErr', reboot'} \subseteq BOOLEAN
         /\ job' = [job EXCEPT ![t] = "none"]
         /\ replies' \in 0 .. MaxReply /\ sCfg' = sCfg
         /\ last' \in [Piece -> Link \cup {None}]
         /\ \A p \in Piece : last'[p] \in {last[p], None}
<1>1. spc' \in {spc, "run"} /\ {initReq', sem', sdErr', reboot'} \subseteq BOOLEAN
  BY DEF Finish, TypeOK
<1>2. replies' \in 0 .. MaxReply
  BY ReplyType DEF Finish, TypeOK
<1>3. /\ last' \in [Piece -> Link \cup {None}]
      /\ \A p \in Piece : last'[p] \in {last[p], None}
  BY DEF Finish, TypeOK
<1>. QED  BY <1>1, <1>2, <1>3 DEF Finish

\* A file that t has closed holds all that t has copied, or is short.
LEMMA CloseMoves ==
  ASSUME TypeOK, NEW t \in Task, NEW failed \in BOOLEAN, SaveClose(t, failed)
  PROVE  /\ file' \in {Absent, Short} \cup Cfg
         /\ file' \in Cfg => file' = fil[t] /\ Len(fil[t]) = NumPiece
         /\ fil' = [fil EXCEPT ![t] = None]
<1>1. failed => file' = Short /\ file' \notin Cfg
  BY MarkAssumption DEF SaveClose
<1>2. ~failed => file' = fil[t] /\ fil[t] \in Cfg /\ Len(fil[t]) = NumPiece
  BY WholeCopy DEF SaveClose, TypeOK
<1>3. fil' = [fil EXCEPT ![t] = None]
  BY DEF SaveClose
<1>. QED  BY <1>1, <1>2, <1>3

\* After a restart nothing is open and no task has begun a save.
LEMMA RestartMoves ==
  ASSUME TypeOK, Restart
  PROVE  TypeOK' /\ job' = [t \in Task |-> "none"] /\ fil' = [t \in Task |-> None]
         /\ file' = file /\ spoilt' = spoilt
<1>1. Fill("zero") \in Cfg
  BY DEF Fill, Cfg, Value
<1>2. /\ spc' = "mount" /\ {sdErr', initReq', sem', reboot', spoilt'} \subseteq BOOLEAN
      /\ file' \in {Absent, Short} \cup Cfg /\ sCfg' \in Cfg
  BY <1>1 DEF Restart, TypeOK, store
<1>4. replies' \in 0 .. MaxReply
  BY SizeAssumption DEF Restart
<1>3. /\ job' \in [Task -> {"none", "done", "save", "default"}]
      /\ fil' \in [Task -> Copy \cup {None}]
      /\ \A t \in Task : fil'[t] # None => job'[t] # "none"
      /\ last' \in [Piece -> Link \cup {None}]
  BY DEF Restart
<1>. QED  BY <1>2, <1>3, <1>4 DEF TypeOK, Restart, store

-----------------------------------------------------------------------------
(***************************************************************************)
(* The types.                                                              *)
(***************************************************************************)
\* Every step keeps the types.
LEMMA TypeStep ==
  ASSUME TypeOK, [Next]_vars
  PROVE  TypeOK'
<1>. USE DEF store, ram, ctrl
<1>a. /\ Link \subseteq Task /\ "startup" \in Task /\ {"default", "zero"} \cup Edit \subseteq Value
      /\ Fill("default") \in Cfg
  BY DEF Task, Link, Value, Fill, Cfg
<1>1. ASSUME NEW t \in Task, SaveOpen(t)  PROVE TypeOK'
  <2>1. fil' \in [Task -> Copy \cup {None}]
    BY <1>1, NoCopy DEF SaveOpen, TypeOK
  <2>2. \A u \in Task : fil'[u] # None => job'[u] # "none"
    BY <1>1 DEF SaveOpen, Saving, TypeOK
  <2>3. spoilt' \in BOOLEAN /\ file' = Short
    BY <1>1 DEF SaveOpen, TypeOK
  <2>. QED  BY <1>1, <2>1, <2>2, <2>3 DEF SaveOpen, TypeOK
<1>2. ASSUME NEW t \in Task, NEW emptied \in BOOLEAN, SaveOpenFails(t, emptied)
      PROVE  TypeOK'
  <2>1. /\ Finish(t) /\ fil' = fil /\ fil[t] = None
        /\ file' \in {Absent, Short} \cup Cfg
        /\ spoilt' \in BOOLEAN
    BY <1>2 DEF SaveOpenFails, Saving, TypeOK
  <2>2. /\ spc' \in {spc, "run"} /\ {initReq', sem', sdErr', reboot'} \subseteq BOOLEAN
        /\ job' = [job EXCEPT ![t] = "none"]
        /\ replies' \in 0 .. MaxReply /\ sCfg' = sCfg
        /\ last' \in [Piece -> Link \cup {None}]
    BY <2>1, FinishMoves
  <2>3. /\ job' \in [Task -> {"none", "done", "save", "default"}]
        /\ \A u \in Task : fil'[u] # None => job'[u] # "none"
    BY <2>1, <2>2 DEF TypeOK
  <2>. QED  BY <2>1, <2>2, <2>3 DEF TypeOK
<1>3. ASSUME NEW t \in Task, SaveWrite(t)  PROVE TypeOK'
  <2>1. fil[t] \in Copy /\ Len(fil[t]) < NumPiece /\ Len(fil[t]) \in Nat
    BY <1>3, WholeCopy DEF SaveWrite, TypeOK
  <2>2. sCfg[Len(fil[t]) + 1] \in Value
    BY <2>1, SizeAssumption DEF TypeOK, Cfg, Piece
  <2>3. Append(fil[t], sCfg[Len(fil[t]) + 1]) \in Copy
    BY <2>1, <2>2, LongerCopy
  <2>4. fil' \in [Task -> Copy \cup {None}]
    BY <1>3, <2>3 DEF SaveWrite, TypeOK
  <2>5. \A u \in Task : fil'[u] # None => job'[u] # "none"
    BY <1>3 DEF SaveWrite, TypeOK
  <2>. QED  BY <1>3, <2>4, <2>5 DEF SaveWrite, TypeOK
<1>4. ASSUME NEW t \in Task, NEW failed \in BOOLEAN, SaveClose(t, failed)  PROVE TypeOK'
  <2>1. Finish(t) /\ UNCHANGED spoilt
    BY <1>4 DEF SaveClose
  <2>2. /\ spc' \in {spc, "run"} /\ {initReq', sem', sdErr', reboot'} \subseteq BOOLEAN
        /\ job' = [job EXCEPT ![t] = "none"]
        /\ replies' \in 0 .. MaxReply /\ sCfg' = sCfg
        /\ last' \in [Piece -> Link \cup {None}]
    BY <2>1, FinishMoves
  <2>3. /\ file' \in {Absent, Short} \cup Cfg
        /\ fil' = [fil EXCEPT ![t] = None]
    BY <1>4, CloseMoves
  <2>4. /\ job' \in [Task -> {"none", "done", "save", "default"}]
        /\ fil' \in [Task -> Copy \cup {None}]
        /\ \A u \in Task : fil'[u] # None => job'[u] # "none"
    BY <2>2, <2>3 DEF TypeOK
  <2>. QED  BY <2>1, <2>2, <2>3, <2>4 DEF TypeOK
<1>5. ASSUME NEW ok \in BOOLEAN, Mount(ok)  PROVE TypeOK'
  BY <1>a, <1>5 DEF Mount, TypeOK
<1>6. ASSUME NEW ok \in BOOLEAN, Remount(ok)  PROVE TypeOK'
  BY <1>6 DEF Remount, ClearRequest, TypeOK
<1>7. ASSUME InitRequest  PROVE TypeOK'
  BY <1>7 DEF InitRequest, TypeOK
<1>8. ASSUME LoadOk  PROVE TypeOK'
  <2>1. last' \in [Piece -> Link \cup {None}]
    BY <1>8 DEF LoadOk
  <2>. QED  BY <1>8, <2>1 DEF LoadOk, EndLoad, ClearRequest, TypeOK
<1>9. ASSUME LoadFails  PROVE TypeOK'
  <2>1. last' \in [Piece -> Link \cup {None}]
    BY <1>9 DEF LoadFails
  <2>2. sCfg' \in Cfg
    BY <1>9 DEF LoadFails, TypeOK, Cfg
  <2>. QED  BY <1>9, <2>1, <2>2 DEF LoadFails, EndLoad, ClearRequest, TypeOK
<1>10. ASSUME NEW f \in BOOLEAN, LoadDefault(f)  PROVE TypeOK'
  <2>1. last' \in [Piece -> Link \cup {None}]
    BY <1>10 DEF LoadDefault
  <2>2. /\ job' \in [Task -> {"none", "done", "save", "default"}]
        /\ \A u \in Task : fil'[u] # None => job'[u] # "none"
    BY <1>10 DEF LoadDefault, TypeOK
  <2>3. file' \in {Absent, Short} \cup Cfg /\ spoilt' \in BOOLEAN
    BY <1>10 DEF LoadDefault, TypeOK
  <2>. QED  BY <1>a, <1>10, <2>1, <2>2, <2>3 DEF LoadDefault, TypeOK
<1>11. ASSUME NEW l \in Link, NEW p \in Piece, NEW v \in Edit, Set(l, p, v)  PROVE TypeOK'
  <2>1. replies' \in 0 .. MaxReply
    BY <1>a, <1>11, ReplyType DEF Set
  <2>2. sCfg' \in Cfg /\ last' \in [Piece -> Link \cup {None}]
    BY <1>a, <1>11 DEF Set, TypeOK, Cfg
  <2>. QED  BY <1>11, <2>1, <2>2 DEF Set, TypeOK
<1>12. ASSUME SetOutOfRange  PROVE TypeOK'
  <2>1. replies' \in 0 .. MaxReply
    BY <1>12, ReplyType DEF SetOutOfRange, Task, Link
  <2>. QED  BY <1>12, <2>1 DEF SetOutOfRange, TypeOK
<1>13. ASSUME NEW l \in Link, WriteDone(l)  PROVE TypeOK'
  <2>1. /\ job' \in [Task -> {"none", "done", "save", "default"}]
        /\ \A u \in Task : fil'[u] # None => job'[u] # "none"
    BY <1>a, <1>13 DEF WriteDone, TypeOK
  <2>. QED  BY <1>13, <2>1 DEF WriteDone, TypeOK
<1>14. ASSUME NEW l \in Link, NEW p \in Piece, NEW v \in Edit, Calibrate(l, p, v)  PROVE TypeOK'
  <2>1. /\ job' \in [Task -> {"none", "done", "save", "default"}]
        /\ \A u \in Task : fil'[u] # None => job'[u] # "none"
    BY <1>a, <1>14 DEF Calibrate, TypeOK
  <2>2. sCfg' \in Cfg /\ last' \in [Piece -> Link \cup {None}]
    BY <1>a, <1>14 DEF Calibrate, TypeOK, Cfg
  <2>. QED  BY <1>14, <2>1, <2>2 DEF Calibrate, TypeOK
<1>15. ASSUME Sent  PROVE TypeOK'
  <2>1. CASE reboot
    BY <1>15, <2>1, RestartMoves DEF Sent
  <2>2. CASE ~reboot
    <3>1. replies > 0 /\ replies' = replies - 1
      BY <1>15, <2>2 DEF Sent
    <3>2. replies' \in 0 .. MaxReply
      BY <3>1, SizeAssumption DEF TypeOK
    <3>. QED  BY <1>15, <2>2, <3>2 DEF Sent, TypeOK
  <2>. QED  BY <2>1, <2>2
<1>16. ASSUME NEW b \in BOOLEAN, CardIn(b)  PROVE TypeOK'
  BY <1>16 DEF CardIn, TypeOK
<1>17. ASSUME CardOut  PROVE TypeOK'
  BY <1>17, RestartMoves DEF CardOut
<1>18. ASSUME UNCHANGED vars  PROVE TypeOK'
  BY <1>18 DEF vars, TypeOK
<1>. QED
  BY <1>1, <1>2, <1>3, <1>4, <1>5, <1>6, <1>7, <1>8, <1>9, <1>10, <1>11, <1>12, <1>13, <1>14,
     <1>15, <1>16, <1>17, <1>18 DEF Next, Sound, Startup, SaveStep

-----------------------------------------------------------------------------
(***************************************************************************)
(* The file.                                                               *)
(***************************************************************************)

\* A file is opened empty, stays so while it is open, and is opened by a second
\* task, removed or unmounted only by what the model calls spoilt.
LEMMA HeldShortStep ==
  ASSUME TypeOK, HeldShort, [Next]_vars
  PROVE  HeldShort'
<1>. USE DEF store, ram, ctrl
<1>1. ASSUME NEW t \in Task, SaveOpen(t)  PROVE HeldShort'
  BY <1>1 DEF SaveOpen, HeldShort, Open, TypeOK
<1>2. ASSUME NEW t \in Task, NEW emptied \in BOOLEAN, SaveOpenFails(t, emptied)
      PROVE  HeldShort'
  BY <1>2 DEF SaveOpenFails, HeldShort, Open
<1>3. ASSUME NEW t \in Task, SaveWrite(t)  PROVE HeldShort'
  <2>1. Open' \subseteq Open /\ file' = file /\ spoilt' = spoilt
    BY <1>3 DEF SaveWrite, Open, TypeOK
  <2>. QED  BY <2>1 DEF HeldShort
<1>4. ASSUME NEW t \in Task, NEW failed \in BOOLEAN, SaveClose(t, failed)
      PROVE  HeldShort'
  <2>1. Open' = Open \ {t} /\ t \in Open /\ spoilt' = spoilt
    BY <1>4 DEF SaveClose, Open, TypeOK
  <2>. QED  BY <2>1 DEF HeldShort
<1>5. ASSUME Restart  PROVE HeldShort'
  BY <1>5, RestartMoves DEF HeldShort, Open
<1>6. ASSUME NEW f \in BOOLEAN, LoadDefault(f)  PROVE HeldShort'
  BY <1>6 DEF LoadDefault, HeldShort, Open
<1>7. ASSUME NEW ok \in BOOLEAN, Remount(ok)  PROVE HeldShort'
  <2>1. UNCHANGED <<file, fil>> /\ (spoilt => spoilt')
    BY <1>7 DEF Remount, TypeOK
  <2>. QED  BY <2>1 DEF HeldShort, Open
<1>8. ASSUME UNCHANGED <<file, fil, spoilt>>  PROVE HeldShort'
  BY <1>8 DEF HeldShort, Open
<1>9. ASSUME Startup  PROVE HeldShort'
  BY <1>6, <1>7, <1>8, <1>9 DEF Startup, Mount, InitRequest, LoadOk, LoadFails
<1>10. ASSUME Sent  PROVE HeldShort'
  BY <1>5, <1>8, <1>10 DEF Sent
<1>. QED
  BY <1>1, <1>2, <1>3, <1>4, <1>5, <1>8, <1>9, <1>10
  DEF Next, Sound, SaveStep, CardOut, CardIn, Set, SetOutOfRange, WriteDone, Calibrate, vars

\* Before the tasks are created only the start is under way.
LEMMA AloneStep ==
  ASSUME TypeOK, Alone, [Next]_vars
  PROVE  Alone'
<1>. USE DEF store, ram, ctrl
<1>1. ASSUME Restart  PROVE Alone'
  BY <1>1 DEF Restart, Alone
<1>2. ASSUME NEW t \in Task, SaveStep(t)  PROVE Alone'
  <2>1. job[t] # "none"
    BY <1>2 DEF SaveStep, SaveOpen, SaveOpenFails, SaveWrite, SaveClose, Saving, TypeOK
  <2>2. spc # "mount"
    BY <2>1 DEF Alone
  <2>3. spc' \in {spc, "run"}
    BY <1>2, FinishMoves DEF SaveStep, SaveOpen, SaveOpenFails, SaveWrite, SaveClose
  <2>. QED  BY <2>2, <2>3 DEF Alone
<1>3. ASSUME Startup  PROVE Alone'
  <2>1. spc' # "mount"
    BY <1>3 DEF Startup, Mount, Remount, InitRequest, LoadOk, LoadFails, LoadDefault, EndLoad
  <2>. QED  BY <2>1 DEF Alone
<1>4. ASSUME NEW l \in Link, WriteDone(l) \/ \E p \in Piece, v \in Edit : Calibrate(l, p, v)
      PROVE  Alone'
  BY <1>4 DEF WriteDone, Calibrate, Free, Started, Alone
<1>5. ASSUME UNCHANGED <<spc, job>>  PROVE Alone'
  BY <1>5 DEF Alone
<1>6. ASSUME Sent  PROVE Alone'
  BY <1>1, <1>5, <1>6 DEF Sent
<1>. QED
  BY <1>1, <1>2, <1>3, <1>4, <1>5, <1>6
  DEF Next, Sound, CardOut, CardIn, Set, SetOutOfRange, vars

-----------------------------------------------------------------------------
(***************************************************************************)
(* The pieces a save has copied.                                           *)
(***************************************************************************)

\* A step of another task takes pieces from link l, or leaves them as they are.
LEMMA CopiedOf ==
  ASSUME TypeOK, NEW l \in Link, Copied(l),
         job'[l] = job[l], fil'[l] = fil[l],
         \A p \in Piece : last'[p] = l => last[p] = l /\ sCfg'[p] = sCfg[p]
  PROVE  Copied(l)'
BY DEF Copied

\* The interesting case is f_write by the link itself: it copies the value as
\* it is now.
LEMMA CopiedStep ==
  ASSUME TypeOK, Alone, NEW l \in Link, Copied(l), [Next]_vars
  PROVE  Copied(l)'
<1>. USE DEF store, ram, ctrl
<1>a. l \in Task /\ l # "startup" /\ None # l
  BY Marks DEF Task, Link
<1>1. ASSUME NEW t \in Task, SaveOpen(t)  PROVE Copied(l)'
  <2>1. CASE t = l
    <3>1. fil'[l] = <<>>
      BY <1>1, <1>a, <2>1 DEF SaveOpen, TypeOK
    <3>2. \A p \in Piece : ~(p <= Len(fil'[l]))
      BY <3>1, NoCopy DEF Piece
    <3>. QED  BY <3>2 DEF Copied
  <2>2. CASE t # l
    BY <1>1, <2>2, CopiedOf DEF SaveOpen, TypeOK
  <2>. QED  BY <2>1, <2>2
<1>2. ASSUME NEW t \in Task, NEW emptied \in BOOLEAN, SaveOpenFails(t, emptied)
      PROVE  Copied(l)'
  <2>1. /\ job' = [job EXCEPT ![t] = "none"] /\ fil' = fil /\ sCfg' = sCfg
        /\ \A p \in Piece : last'[p] \in {last[p], None}
    BY <1>2, FinishMoves DEF SaveOpenFails
  <2>2. CASE t = l
    BY <1>a, <2>1, <2>2 DEF Copied, TypeOK
  <2>3. CASE t # l
    BY <1>a, <2>1, <2>3, CopiedOf DEF TypeOK
  <2>. QED  BY <2>2, <2>3
<1>3. ASSUME NEW t \in Task, SaveWrite(t)  PROVE Copied(l)'
  <2>1. CASE t = l
    <3>. DEFINE c == fil[l]
                v == sCfg[Len(c) + 1]
    <3>1. c \in Copy /\ Len(c) < NumPiece /\ Len(c) \in Nat
      BY <1>3, <1>a, <2>1, WholeCopy DEF SaveWrite, TypeOK
    <3>2. v \in Value
      BY <3>1, SizeAssumption DEF TypeOK, Cfg, Piece
    <3>3. fil'[l] = Append(c, v) /\ job' = job /\ last' = last /\ sCfg' = sCfg /\ c # None
      BY <1>3, <1>a, <2>1 DEF SaveWrite, TypeOK
    <3>4. /\ Len(Append(c, v)) = Len(c) + 1
          /\ Append(c, v)[Len(c) + 1] = v
          /\ \A i \in 1 .. Len(c) : Append(c, v)[i] = c[i]
      BY <3>1, <3>2, LongerCopy
    <3>5. ASSUME job'[l] = "done", NEW p \in Piece, last'[p] = l, p <= Len(fil'[l])
          PROVE  fil'[l][p] = sCfg'[p]
      <4>1. CASE p = Len(c) + 1
        BY <3>3, <3>4, <4>1
      <4>2. CASE p # Len(c) + 1
        <5>1. p \in 1 .. Len(c)
          BY <3>1, <3>3, <3>4, <3>5, <4>2, SizeAssumption DEF Piece
        <5>2. c[p] = sCfg[p]
          BY <3>3, <3>5, <5>1 DEF Copied
        <5>. QED  BY <3>3, <3>4, <5>1, <5>2
      <4>. QED  BY <4>1, <4>2
    <3>. QED  BY <3>5 DEF Copied
  <2>2. CASE t # l
    BY <1>3, <2>2, CopiedOf DEF SaveWrite, TypeOK
  <2>. QED  BY <2>1, <2>2
<1>4. ASSUME NEW t \in Task, NEW failed \in BOOLEAN, SaveClose(t, failed)  PROVE Copied(l)'
  <2>1. /\ job' = [job EXCEPT ![t] = "none"] /\ sCfg' = sCfg
        /\ \A p \in Piece : last'[p] \in {last[p], None}
        /\ fil' = [fil EXCEPT ![t] = None]
    BY <1>4, FinishMoves DEF SaveClose
  <2>2. CASE t = l
    BY <1>a, <2>1, <2>2 DEF Copied, TypeOK
  <2>3. CASE t # l
    BY <1>a, <2>1, <2>3, CopiedOf DEF TypeOK
  <2>. QED  BY <2>2, <2>3
<1>5. ASSUME Restart  PROVE Copied(l)'
  BY <1>5, <1>a, RestartMoves DEF Copied
<1>6. ASSUME NEW ok \in BOOLEAN, Mount(ok)  PROVE Copied(l)'
  BY <1>6, <1>a DEF Mount, Alone, Copied
<1>7. ASSUME LoadOk \/ LoadFails \/ \E f \in BOOLEAN : LoadDefault(f)  PROVE Copied(l)'
  <2>1. \A p \in Piece : last'[p] # l
    BY <1>7, <1>a DEF LoadOk, LoadFails, LoadDefault
  <2>. QED  BY <2>1 DEF Copied
<1>8. ASSUME NEW k \in Link, NEW p \in Piece, NEW v \in Edit, Set(k, p, v)  PROVE Copied(l)'
  <2>1. CASE k = l
    BY <1>8, <2>1 DEF Set, Free, Copied
  <2>2. CASE k # l
    BY <1>8, <2>2, CopiedOf DEF Set, TypeOK, Cfg
  <2>. QED  BY <2>1, <2>2
<1>9. ASSUME NEW k \in Link, WriteDone(k)  PROVE Copied(l)'
  <2>1. CASE k = l
    BY <1>9, <1>a, <2>1 DEF WriteDone, Free, Copied, TypeOK
  <2>2. CASE k # l
    BY <1>9, <1>a, <2>2, CopiedOf DEF WriteDone, TypeOK
  <2>. QED  BY <2>1, <2>2
<1>10. ASSUME NEW k \in Link, NEW p \in Piece, NEW v \in Edit, Calibrate(k, p, v)
       PROVE  Copied(l)'
  <2>1. CASE k = l
    BY <1>10, <1>a, <2>1 DEF Calibrate, Copied, TypeOK
  <2>2. CASE k # l
    BY <1>10, <1>a, <2>2, CopiedOf DEF Calibrate, TypeOK, Cfg
  <2>. QED  BY <2>1, <2>2
<1>11. ASSUME UNCHANGED <<job, fil, last, sCfg>>  PROVE Copied(l)'
  BY <1>11 DEF Copied
<1>12. ASSUME Startup  PROVE Copied(l)'
  BY <1>6, <1>7, <1>11, <1>12 DEF Startup, Remount, InitRequest
<1>13. ASSUME Sent  PROVE Copied(l)'
  BY <1>5, <1>11, <1>13 DEF Sent
<1>. QED
  BY <1>1, <1>2, <1>3, <1>4, <1>5, <1>8, <1>9, <1>10, <1>11, <1>12, <1>13
  DEF Next, Sound, SaveStep, CardOut, CardIn, SetOutOfRange, vars

-----------------------------------------------------------------------------
(***************************************************************************)
(* The invariant, and what follows from it.                                *)
(***************************************************************************)
\* Every step keeps it: edits, saves, loads, changes of the card, restarts.
THEOREM ConfigInvariant == Spec => []ConfigInv
<1>1. Init => ConfigInv
  <2>. SUFFICES ASSUME Init  PROVE ConfigInv
    OBVIOUS
  <2>1. Fill("zero") \in Cfg /\ Fill("default") \in Cfg
    BY DEF Fill, Cfg, Value
  <2>2. file \in {Absent, Short} \cup Cfg
    BY <2>1 DEF Init
  <2>3. replies \in 0 .. MaxReply
    BY SizeAssumption DEF Init
  <2>4. /\ {sdErr, initReq, sem, reboot, spoilt} \subseteq BOOLEAN /\ sCfg \in Cfg
        /\ spc \in {"mount", "load", "default", "run", "init", "reload", "resave"}
    BY <2>1 DEF Init
  <2>5. /\ job \in [Task -> {"none", "done", "save", "default"}]
        /\ fil \in [Task -> Copy \cup {None}] /\ last \in [Piece -> Link \cup {None}]
        /\ \A t \in Task : fil[t] = None
    BY DEF Init
  <2>6. TypeOK
    BY <2>2, <2>3, <2>4, <2>5 DEF TypeOK
  <2>7. HeldShort /\ Alone /\ \A l \in Link : Copied(l)
    BY <2>5 DEF Init, HeldShort, Open, Alone, Copied, Task
  <2>. QED  BY <2>6, <2>7 DEF ConfigInv
<1>2. ConfigInv /\ [Next]_vars => ConfigInv'
  BY TypeStep, HeldShortStep, AloneStep, CopiedStep DEF ConfigInv
<1>. QED  BY <1>1, <1>2, PTL DEF Spec

\* Whatever fails, and wherever the power goes, the variables keep their types:
\* a save copies as many pieces as there are, and the file is absent, short or
\* a whole configuration.
THEOREM ConfigTypeCorrect == Spec => []TypeOK
<1>1. ConfigInv => TypeOK
  BY DEF ConfigInv
<1>. QED  BY <1>1, ConfigInvariant, PTL

\* A configuration in the file stays there until App_SaveConfig opens the file
\* to write another, or fails to: no load, restart, change of the card or loss of
\* power removes or shortens it.
THEOREM SavedConfigurationKept == Spec => Kept
<1>1. ASSUME ConfigInv, [Next]_vars, file' # file, file \in Cfg, ~spoilt'
      PROVE  \E t \in Task : Opens(t)
  <2>. USE <1>1 DEF store, ram, ctrl
  <2>1. TypeOK /\ HeldShort /\ file # Short
    BY MarkAssumption DEF ConfigInv
  <2>2. ASSUME NEW t \in Task, SaveOpen(t)  PROVE Opens(t)
    <3>1. fil'[t] # None
      BY <2>1, <2>2, NoCopy, Marks DEF SaveOpen, TypeOK
    <3>. QED  BY <2>2, <3>1 DEF SaveOpen, Opens
  <2>3. ASSUME NEW t \in Task, NEW emptied \in BOOLEAN, SaveOpenFails(t, emptied)
        PROVE  Opens(t)
    BY <2>1, <2>3, FinishMoves DEF SaveOpenFails, Opens, TypeOK
  <2>4. ASSUME NEW t \in Task, NEW failed \in BOOLEAN, SaveClose(t, failed)
        PROVE  FALSE
    BY <2>1, <2>4 DEF SaveClose, HeldShort, Open
  <2>5. ~Restart /\ ~Startup /\ ~Sent
    BY <2>1 DEF Restart, Sent, Startup, Mount, Remount, InitRequest, LoadOk, LoadFails,
                LoadDefault
  <2>6. \A t \in Task : ~SaveWrite(t)
    BY DEF SaveWrite
  <2>7. \E t \in Task : SaveStep(t)
    BY <2>5 DEF Next, Sound, CardOut, CardIn, Set, SetOutOfRange, WriteDone, Calibrate, vars
  <2>. QED  BY <2>2, <2>3, <2>4, <2>6, <2>7 DEF SaveStep
<1>2. ConfigInv /\ [Next]_vars
        => [file' # file /\ file \in Cfg /\ ~spoilt' => \E t \in Task : Opens(t)]_vars
  BY <1>1
<1>. QED  BY <1>2, ConfigInvariant, PTL DEF Spec, Kept

\* App_SetConfig(WRITE_DONE) stores each piece its link was the last to set as
\* it is set, although other tasks edit, load and save in the meantime.
THEOREM WriteDoneStores == Spec => DoneIsStored
<1>1. ASSUME ConfigInv, [Next]_vars, NEW l \in Link,
             job[l] = "done", job'[l] = "none", fil[l] # None, file' \in Cfg
      PROVE  \A p \in Piece : last[p] = l => file'[p] = sCfg[p]
  <2>. USE <1>1 DEF store, ram, ctrl
  <2>1. TypeOK /\ HeldShort /\ Copied(l) /\ l \in Task /\ l # "startup" /\ Open # {}
    BY DEF ConfigInv, Task, Link, Open
  <2>2. ASSUME NEW failed \in BOOLEAN, SaveClose(l, failed)
        PROVE  \A p \in Piece : last[p] = l => file'[p] = sCfg[p]
    <3>1. file' = fil[l] /\ Len(fil[l]) = NumPiece
      BY <2>1, <2>2, CloseMoves
    <3>2. \A p \in Piece : p <= Len(fil[l])
      BY <3>1, SizeAssumption DEF Piece
    <3>. QED  BY <2>1, <3>1, <3>2 DEF Copied
  <2>3. job' # job
    BY <2>1 DEF TypeOK
  <2>4. ~spoilt
    BY <2>3 DEF Next, Sound, vars
  <2>5. ~Restart
    <3>1. file = Short
      BY <2>1, <2>4 DEF HeldShort
    <3>. QED  BY <3>1, MarkAssumption DEF Restart
  <2>6. ASSUME NEW t \in Task, SaveStep(t)
        PROVE  \E failed \in BOOLEAN : SaveClose(l, failed)
    <3>1. job' = [job EXCEPT ![t] = "none"]
      BY <2>3, <2>6, FinishMoves, <2>1 DEF SaveStep, SaveOpen, SaveOpenFails, SaveWrite, SaveClose
    <3>2. t = l
      BY <2>1, <3>1 DEF TypeOK
    <3>. QED  BY <2>3, <2>6, <3>2 DEF SaveStep, SaveOpen, SaveOpenFails, SaveWrite, Saving
  <2>7. ~(\E k \in Link : WriteDone(k) \/ \E p \in Piece, v \in Edit : Calibrate(k, p, v))
    BY <2>1 DEF WriteDone, Calibrate, Free, TypeOK
  <2>8. ~Startup
    <3>1. ~\E f \in BOOLEAN : LoadDefault(f)
      BY <2>1 DEF LoadDefault, TypeOK
    <3>. QED  BY <2>3, <3>1 DEF Startup, Mount, Remount, InitRequest, LoadOk, LoadFails
  <2>9. \E t \in Task : SaveStep(t)
    BY <2>5, <2>3, <2>7, <2>8 DEF Next, Sound, CardOut, CardIn, Set, SetOutOfRange, Sent, vars
  <2>. QED  BY <2>2, <2>6, <2>9
<1>2. ConfigInv /\ [Next]_vars
        => [\A l \in Link :
              job[l] = "done" /\ job'[l] = "none" /\ fil[l] # None /\ file' \in Cfg
                => \A p \in Piece : last[p] = l => file'[p] = sCfg[p]]_vars
  BY <1>1
<1>. QED  BY <1>2, ConfigInvariant, PTL DEF Spec, DoneIsStored
=============================================================================
