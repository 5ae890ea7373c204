----------------------------- MODULE AppConfig ------------------------------
(***************************************************************************)
(* The configuration of the logger (application/app.c): the structure sCfg *)
(* in RAM, its file on the SD card, the tasks that edit and save it, the   *)
(* start that loads it, and the restart that follows a saved               *)
(* configuration.  The serial task (priority 7), the TCP server's listener *)
(* (14) and the start-up task (9) all work on it without a lock, and each  *)
(* may run while another waits for the card: FF_FS_REENTRANT makes a FatFs *)
(* call atomic, FF_FS_LOCK = 0 lets the same file be opened twice.         *)
(*                                                                         *)
(* sCfg is an array of NumPiece pieces (SCommon, the STags, ...), each     *)
(* with one of a few values.  Any FatFs call may fail, as all do without a *)
(* card.                                                                   *)
(***************************************************************************)
EXTENDS Naturals, Sequences

CONSTANTS
  NumPiece,   \* pieces of sCfg, each written by one memcpy or one sector
  Edit,       \* the values that clients give to a piece
  MaxReply,   \* WRITE_SUCCESS frames on their way on the serial link
  Absent, Short, None

ASSUME SizeAssumption == NumPiece \in Nat \ {0} /\ MaxReply \in Nat \ {0}
ASSUME EditAssumption == Edit \cap {"zero", "default"} = {}

Piece == 1 .. NumPiece
Value == Edit \cup {"zero", "default"}
Cfg == [Piece -> Value]
Fill(v) == [p \in Piece |-> v]
Copy == UNION {[1 .. n -> Value] : n \in 0 .. NumPiece}
Link == {"serial", "net"}
Task == Link \cup {"startup"}
ASSUME MarkAssumption ==
  /\ {Absent, Short} \cap Cfg = {} /\ Absent # Short
  /\ None \notin Copy \cup Task

VARIABLES
  file,     \* CONFIG_FILE_PATH on the card: Absent, Short (any size but
            \* sizeof(SSysCfg)), or what it holds
  sCfg,     \* pAppObj->sCfg
  spc,      \* where App_TaskStartup is
  sdErr,    \* SYS_ERR_SDCARD_1 in eStatus
  initReq,  \* CTRL_INIT_SDCARD_1 in eCtrlCode
  sem,      \* the start-up task's semaphore is posted
  job,      \* why each task is in App_SaveConfig: "none", "done" (WRITE_DONE),
            \* "save" (calibration), "default" (App_LoadConfig)
  fil,      \* its FIL: None, or the pieces f_write has copied from sCfg
  reboot,   \* pAppObj->reboot
  replies,  \* WRITE_SUCCESS frames given to Trans_Send, not yet sent
  last,     \* history: the link that gave each piece its value, until its
            \* WRITE_DONE; or None
  spoilt    \* the file was opened, removed or unmounted while it was open

ram == <<sCfg, reboot, replies, last>>
ctrl == <<initReq, sem>>
store == <<file, spoilt>>
vars == <<file, sCfg, spc, sdErr, initReq, sem, job, fil, reboot,
          replies, last, spoilt>>

Open == {t \in Task : fil[t] # None}
Started == spc \in {"run", "init", "reload", "resave"}

Init ==
  /\ file \in {Absent, Short} \cup {Fill("default")}
  /\ sCfg = Fill("zero")
  /\ spc = "mount"
  /\ sdErr = FALSE /\ initReq = FALSE /\ sem = FALSE
  /\ job = [t \in Task |-> "none"]
  /\ fil = [t \in Task |-> None]
  /\ reboot = FALSE /\ replies = 0
  /\ last = [p \in Piece |-> None]
  /\ spoilt = FALSE

(***************************************************************************)
(* A restart: the RAM is lost, App_Init clears pApp, and a file that was   *)
(* being written stays as its directory entry says, short.                 *)
(***************************************************************************)
Restart ==
  /\ sCfg' = Fill("zero")
  /\ spc' = "mount"
  /\ sdErr' = FALSE /\ initReq' = FALSE /\ sem' = FALSE
  /\ job' = [t \in Task |-> "none"]
  /\ fil' = [t \in Task |-> None]
  /\ reboot' = FALSE /\ replies' = 0
  /\ last' = [p \in Piece |-> None]
  /\ UNCHANGED store

(***************************************************************************)
(* sdhc_card_detection, called by the pin's interrupt: a card pulled out   *)
(* restarts the logger, so that CardOut is Restart, and stands for a loss  *)
(* of power too.  The contacts bounce: the interrupt may find a card it    *)
(* has seen before.  "overwritten": it comes while a task is between the   *)
(* load and the store of App_SetCtrlCode or App_ClearCtrlCode for another  *)
(* bit.                                                                    *)
(***************************************************************************)
CardOut == Restart

CardIn(overwritten) ==
  /\ IF sdErr
       THEN initReq' = (initReq \/ ~overwritten) /\ sem' = TRUE
       ELSE UNCHANGED ctrl
  /\ UNCHANGED <<store, ram, spc, sdErr, job, fil>>

(***************************************************************************)
(* App_SaveConfig, by task t.  FA_CREATE_ALWAYS empties the file; its size *)
(* is written by f_close alone.  "failed" is a FatFs error, or a write cut *)
(* short by a full card, which is taken for success.                       *)
(***************************************************************************)
\* App_SendPC: the frame is lost when there is no memory for it.
Reply(l) ==
  IF l = "serial" /\ replies < MaxReply THEN replies' \in {replies, replies + 1}
                                        ELSE UNCHANGED replies

\* The end of the caller: App_SetConfig ignores the result, asks for the
\* restart and replies.
Finish(t) ==
  /\ job' = [job EXCEPT ![t] = "none"]
  /\ reboot' = (reboot \/ job[t] = "done")
  /\ IF job[t] = "done" THEN Reply(t) ELSE UNCHANGED replies
  /\ last' = [p \in Piece |-> IF job[t] = "done" /\ last[p] = t THEN None ELSE last[p]]
  /\ spc' = IF t = "startup" THEN "run" ELSE spc
  /\ IF t = "startup" /\ spc = "resave"
       THEN initReq' = FALSE
       ELSE UNCHANGED initReq
  /\ UNCHANGED <<sCfg, sdErr, sem>>

Saving(t) == job[t] # "none" /\ fil[t] = None

SaveOpen(t) ==
  /\ Saving(t)
  /\ file' = Short
  /\ fil' = [fil EXCEPT ![t] = <<>>]
  /\ spoilt' = (spoilt \/ Open # {})
  /\ UNCHANGED <<ram, spc, sdErr, ctrl, job>>

\* The directory entry may have been emptied before the error: f_open clears
\* its size and its first cluster, then releases the chain (ff.c:3600-3609).
SaveOpenFails(t, emptied) ==
  /\ Saving(t)
  /\ Finish(t)
  /\ file' = IF emptied THEN Short ELSE file
  /\ spoilt' = (spoilt \/ (emptied /\ Open # {}))
  /\ UNCHANGED fil

\* Mutant of SaveWrite: the pointer into sCfg stays at its beginning.
SaveWriteFirst(t) ==
  /\ fil[t] # None /\ Len(fil[t]) < NumPiece
  /\ fil' = [fil EXCEPT ![t] = Append(@, sCfg[1])]
  /\ UNCHANGED <<store, ram, spc, sdErr, ctrl, job>>

SaveWrite(t) ==
  /\ fil[t] # None /\ Len(fil[t]) < NumPiece
  /\ fil' = [fil EXCEPT ![t] = Append(@, sCfg[Len(@) + 1])]
  /\ UNCHANGED <<store, ram, spc, sdErr, ctrl, job>>

\* Mutant of SaveClose: the file is left open after an error.
SaveCloseLeaves(t, failed) ==
  /\ fil[t] # None
  /\ failed \/ Len(fil[t]) = NumPiece
  /\ fil' = IF failed THEN fil ELSE [fil EXCEPT ![t] = None]
  /\ file' = IF failed THEN Short ELSE fil[t]
  /\ UNCHANGED spoilt
  /\ Finish(t)

SaveClose(t, failed) ==
  /\ fil[t] # None
  /\ failed \/ Len(fil[t]) = NumPiece
  /\ fil' = [fil EXCEPT ![t] = None]
  /\ file' = IF failed THEN Short ELSE fil[t]
  /\ UNCHANGED spoilt
  /\ Finish(t)

SaveStep(t) ==
  \/ SaveOpen(t) \/ SaveWrite(t)
  \/ \E emptied \in BOOLEAN : SaveOpenFails(t, emptied)
  \/ \E failed \in BOOLEAN : SaveClose(t, failed)

(***************************************************************************)
(* App_Init: without a card the logger runs on the default configuration.  *)
(* The other tasks are created when it has returned.                       *)
(***************************************************************************)
Mount(ok) ==
  /\ spc = "mount"
  /\ IF ok
       THEN spc' = "load" /\ UNCHANGED <<sCfg, sdErr>>
       ELSE spc' = "run" /\ sCfg' = Fill("default") /\ sdErr' = TRUE
  /\ UNCHANGED <<store, ctrl, job, fil, reboot, replies, last>>

\* App_TaskStartup, woken up.
InitRequest ==
  /\ spc = "run" /\ sem
  /\ sem' = FALSE
  /\ spc' = IF initReq THEN "init" ELSE spc
  /\ UNCHANGED <<store, ram, sdErr, initReq, job, fil>>

\* The request is cleared at the end of its handling, and with it one that
\* has come since.
ClearRequest == initReq' = FALSE /\ UNCHANGED sem

\* App_InitFS clears the volume's FATFS, whichever files are open on it.
Remount(ok) ==
  /\ spc = "init"
  /\ spoilt' = (spoilt \/ Open # {})
  /\ sdErr' = ~ok
  /\ IF ok THEN spc' = "reload" /\ UNCHANGED ctrl
           ELSE spc' = "run" /\ ClearRequest
  /\ UNCHANGED <<file, ram, job, fil>>

(***************************************************************************)
(* App_LoadConfig, at the start ("load") or for a card put in ("reload").  *)
(***************************************************************************)
EndLoad ==
  /\ spc' = "run"
  /\ IF spc = "reload" THEN ClearRequest ELSE UNCHANGED ctrl

LoadOk ==
  /\ spc \in {"load", "reload"}
  /\ file \in Cfg
  /\ sCfg' = file
  /\ last' = [p \in Piece |-> None]
  /\ EndLoad
  /\ UNCHANGED <<store, sdErr, job, fil, reboot, replies>>

\* Mutant of LoadFails: an unreadable file is replaced.
LoadFailsResets ==
  /\ spc \in {"load", "reload"}
  /\ file # Absent
  /\ sCfg' = Fill("default")
  /\ file' = Absent
  /\ last' = [p \in Piece |-> None]
  /\ EndLoad
  /\ UNCHANGED <<spoilt, sdErr, job, fil, reboot, replies>>

\* f_open or f_read fails: what was read before the error stays in sCfg.
LoadFails ==
  /\ spc \in {"load", "reload"}
  /\ file # Absent
  /\ \E n \in 0 .. NumPiece - 1 :
       sCfg' = [p \in Piece |->
                  IF file \in Cfg /\ p <= n THEN file[p] ELSE sCfg[p]]
  /\ last' = [p \in Piece |-> None]
  /\ EndLoad
  /\ UNCHANGED <<store, sdErr, job, fil, reboot, replies>>

\* The file is missing, or f_stat fails, which is taken for the same; or it
\* is short, and then removed.  The default configuration is saved.
LoadDefault(statFails) ==
  /\ spc \in {"load", "reload"}
  /\ statFails \/ file \notin Cfg
  /\ sCfg' = Fill("default")
  /\ last' = [p \in Piece |-> None]
  /\ job' = [job EXCEPT !["startup"] = "default"]
  /\ spc' = IF spc = "load" THEN "default" ELSE "resave"
  /\ IF ~statFails /\ file = Short
       THEN file' = Absent /\ spoilt' = (spoilt \/ Open # {})
       ELSE UNCHANGED <<file, spoilt>>
  /\ UNCHANGED <<sdErr, ctrl, fil, reboot, replies>>

Startup ==
  \/ \E ok \in BOOLEAN : Mount(ok) \/ Remount(ok)
  \/ InitRequest
  \/ LoadOk \/ LoadFails
  \/ \E statFails \in BOOLEAN : LoadDefault(statFails)

(***************************************************************************)
(* App_SetConfig and App_CommCalibAi, called by the receive handlers of    *)
(* the two links.                                                          *)
(***************************************************************************)
Free(t) == Started /\ job[t] = "none"

Set(t, p, v) ==
  /\ Free(t)
  /\ sCfg' = [sCfg EXCEPT ![p] = v]
  /\ last' = [last EXCEPT ![p] = t]
  /\ Reply(t)
  /\ UNCHANGED <<store, spc, sdErr, ctrl, job, fil, reboot>>

\* A tag, input or output out of range is not stored, but confirmed.
SetOutOfRange ==
  /\ Free("serial")
  /\ Reply("serial")
  /\ UNCHANGED <<store, sCfg, last, spc, sdErr, ctrl, job, fil, reboot>>

WriteDone(l) ==
  /\ Free(l)
  /\ job' = [job EXCEPT ![l] = "done"]
  /\ UNCHANGED <<store, ram, spc, sdErr, ctrl, fil>>

Calibrate(l, p, v) ==
  /\ Free(l)
  /\ sCfg' = [sCfg EXCEPT ![p] = v]
  /\ last' = [last EXCEPT ![p] = l]
  /\ job' = [job EXCEPT ![l] = "save"]
  /\ UNCHANGED <<store, reboot, replies, spc, sdErr, ctrl, fil>>

\* Mutant of Sent: the request for the restart is dropped.
SentForgets ==
  /\ replies > 0 /\ Free("serial")
  /\ replies' = replies - 1
  /\ reboot' = FALSE
  /\ UNCHANGED <<store, sCfg, last, spc, sdErr, ctrl, job, fil>>

(***************************************************************************)
(* Clb_TransPC_SentEvent of a WRITE_SUCCESS frame, in the serial task.     *)
(***************************************************************************)
Sent ==
  /\ replies > 0 /\ Free("serial")
  /\ IF reboot
       THEN Restart
       ELSE /\ replies' = replies - 1
            /\ UNCHANGED <<store, sCfg, reboot, last, spc, sdErr, ctrl,
                           job, fil>>

(***************************************************************************)
(* ffconf.h asks the program to "avoid illegal open, remove and rename to  *)
(* the open objects" and says nothing of the volume afterwards: there the  *)
(* behaviours of this model end.                                           *)
(***************************************************************************)
Sound(A) == ~spoilt /\ A

Next ==
  Sound(\/ CardOut \/ \E overwritten \in BOOLEAN : CardIn(overwritten)
        \/ Startup
        \/ \E t \in Task : SaveStep(t)
        \/ \E l \in Link, p \in Piece, v \in Edit : Set(l, p, v)
        \/ SetOutOfRange
        \/ \E l \in Link :
             WriteDone(l) \/ \E p \in Piece, v \in Edit : Calibrate(l, p, v)
        \/ Sent)

Spec == Init /\ [][Next]_vars

\* The tasks go on with what they have begun, and the semaphore that wakes
\* the serial task makes it run a whole pass of Trans_Task, which ends the
\* frames sent, between two frames received.
FairSpec ==
  /\ Spec
  /\ \A t \in Task : WF_vars(Sound(SaveStep(t)))
  /\ WF_vars(Sound(Startup))
  /\ SF_vars(Sound(Sent))

-----------------------------------------------------------------------------
(***************************************************************************)
(* The type of the variables.                                              *)
(***************************************************************************)
TypeOK ==
  /\ file \in {Absent, Short} \cup Cfg
  /\ sCfg \in Cfg
  /\ spc \in {"mount", "load", "default", "run", "init", "reload", "resave"}
  /\ {sdErr, initReq, sem, reboot, spoilt} \subseteq BOOLEAN
  /\ job \in [Task -> {"none", "done", "save", "default"}]
  /\ fil \in [Task -> Copy \cup {None}]
  /\ \A t \in Task : fil[t] # None => job[t] # "none"
  /\ replies \in 0 .. MaxReply
  /\ last \in [Piece -> Link \cup {None}]

(***************************************************************************)
(* A configuration in the file is lost or replaced by App_SaveConfig only: *)
(* its f_open, whether it succeeds or fails, may empty the file.  No load, *)
(* f_unlink, change of the card, restart or loss of power does, and after  *)
(* f_close the file is nobody's until the next f_open.  Excepted is a file *)
(* that two tasks have open at once (spoilt).                              *)
(***************************************************************************)
Opens(t) == Saving(t) /\ (fil'[t] # None \/ job'[t] = "none")

Kept ==
  [][file' # file /\ file \in Cfg /\ ~spoilt' => \E t \in Task : Opens(t)]_vars

(***************************************************************************)
(* When App_SetConfig has handled WRITE_DONE of a link, each piece that    *)
(* this link was the last to set is in the file with its value, unless the *)
(* save failed, or the file was used by two tasks at once.                 *)
(***************************************************************************)
DoneIsStored ==
  [][\A l \in Link :
       job[l] = "done" /\ job'[l] = "none" /\ fil[l] # None /\ file' \in Cfg
         => \A p \in Piece : last[p] = l => file'[p] = sCfg[p]]_vars

(***************************************************************************)
(* A WRITE_SUCCESS frame on the serial link after WRITE_DONE is followed   *)
(* by the restart, whatever both links go on sending.                      *)
(***************************************************************************)
RestartFollows == (reboot /\ replies > 0) ~> (spc = "mount" \/ spoilt)
=============================================================================
