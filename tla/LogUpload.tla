----------------------------- MODULE LogUpload ------------------------------
(***************************************************************************)
(* The log files: App_TaskPeriodic (application/app.c) generates one in    *)
(* every minute that is due and hands its name to the FTP upload task,     *)
(* FtpRetry, with which it shares the pool of 272-byte blocks.  The clock  *)
(* sDateTime is moved by the timer task and by the RTC while the periodic  *)
(* task works; its own passes are a second apart or longer.                *)
(***************************************************************************)
EXTENDS FtpRetry

CONSTANTS
  LogMin,     \* sCom.log_dur
  MaxMinute   \* where the clock stops (a bound of the model)

ASSUME LogAssumption == LogMin \in Nat \ {0} /\ MaxMinute \in Nat

VARIABLES
  tmMin,     \* sDateTime.tm_min
  lastMin,   \* last_min
  logged,    \* logged
  ready,     \* aiReadCount > 0 and mbReadCount > 0
  ppc,       \* where App_TaskPeriodic is
  logs,      \* history: logs begun in this minute since the start
  whole,     \* history: the pass under way was begun in this minute,
             \* with values to log
  passes,    \* history: whole passes done in this minute, up to one
  late       \* history: the last log has ended in a later minute

clock == <<tmMin, logs, whole, passes>>
periodic == <<lastMin, logged, ready, ppc, late>>
allVars == <<vars, clock, periodic>>

Due == tmMin % LogMin = 0

LogInit ==
  /\ Init
  /\ tmMin = 0 /\ lastMin = 0
  /\ logged = FALSE /\ ready = FALSE
  /\ ppc = "sleep"
  /\ logs = 0 /\ whole = FALSE /\ passes = 0 /\ late = FALSE

\* Clb_TimerControl or RTC_GetTimeDate.
MinuteTick ==
  /\ tmMin < MaxMinute
  /\ tmMin' = tmMin + 1
  /\ logs' = 0 /\ whole' = FALSE /\ passes' = 0
  /\ late' = (late \/ ppc \in {"file", "row", "rows", "close", "mark"})
  /\ UNCHANGED <<vars, lastMin, logged, ready, ppc>>

\* The analog and the Modbus task have read their inputs once.
FirstValues ==
  /\ ready' = TRUE
  /\ UNCHANGED <<vars, clock, lastMin, logged, ppc, late>>

(***************************************************************************)
(* A pass of App_TaskPeriodic.  A log that was given up, for want of the   *)
(* card or of memory, counts as done: ASSERT only reports it.              *)
(***************************************************************************)
\* Mutant of WakeUp: the mark is never taken back.
WakeUpKeeps ==
  /\ ppc = "sleep"
  /\ ppc' = "due"
  /\ whole' = ready
  /\ UNCHANGED <<vars, tmMin, logs, passes, lastMin, logged, ready, late>>

WakeUp ==
  /\ ppc = "sleep"
  /\ ppc' = "due"
  /\ whole' = ready
  /\ logged' = (logged /\ tmMin = lastMin)
  /\ late' = (late /\ logged')
  /\ UNCHANGED <<vars, tmMin, logs, passes, lastMin, ready>>

EndPass ==
  /\ ppc' = "sleep"
  /\ passes' = IF whole THEN 1 ELSE passes
  /\ UNCHANGED <<tmMin, whole>>

NotDue ==
  /\ ppc = "due"
  /\ logged \/ ~Due \/ ~ready
  /\ EndPass
  /\ UNCHANGED <<vars, logs, lastMin, logged, ready, late>>

BeginLog ==
  /\ ppc = "due"
  /\ ~logged /\ Due /\ ready
  /\ ppc' = "file"
  /\ logs' = logs + 1
  /\ UNCHANGED <<vars, tmMin, whole, passes, lastMin, logged, ready, late>>

\* App_GenerateLogFile up to f_open: the card's state, the small blocks, the
\* directories.  Nothing is done when no server is enabled in sCfg.
OpenLog(ok) ==
  /\ ppc = "file"
  /\ ppc' = IF ok THEN "row" ELSE "mark"
  /\ UNCHANGED <<vars, clock, lastMin, logged, ready, late>>

\* The block for a row.  Without it the empty file is closed, and FR_OK is
\* returned all the same.
NoRow ==
  /\ ppc = "row" /\ free = 0
  /\ ppc' = "mark"
  /\ UNCHANGED <<vars, clock, lastMin, logged, ready, late>>

GetRow ==
  /\ ppc = "row"
  /\ OtherAlloc
  /\ ppc' = "rows"
  /\ UNCHANGED <<clock, lastMin, logged, ready, late>>

\* Mutant of WriteRows: the row's block is kept.
WriteRowsKeeps(ok) ==
  /\ ppc = "rows"
  /\ ppc' = IF ok THEN "close" ELSE "mark"
  /\ free' = free + 1
  /\ UNCHANGED <<retry, mq, others, leaked, enabled, spc, cur, retVal, history,
                 clock, lastMin, logged, ready, late>>

WriteRows(ok) ==
  /\ ppc = "rows"
  /\ OtherFree
  /\ ppc' = IF ok THEN "close" ELSE "mark"
  /\ UNCHANGED <<clock, lastMin, logged, ready, late>>

CloseLog ==
  /\ ppc = "close"
  /\ ppc' = "mark"
  /\ UNCHANGED vars \/ \E f \in File : AddFile(f)
  /\ UNCHANGED <<clock, lastMin, logged, ready, late>>

\* Mutant of MarkLogged: the mark is left to the next pass.
MarkForgets ==
  /\ ppc = "mark"
  /\ lastMin' = tmMin
  /\ EndPass
  /\ UNCHANGED <<vars, logs, logged, ready, late>>

MarkLogged ==
  /\ ppc = "mark"
  /\ lastMin' = tmMin /\ logged' = TRUE
  /\ EndPass
  /\ UNCHANGED <<vars, logs, ready, late>>

Periodic ==
  \/ WakeUp \/ NotDue \/ BeginLog
  \/ \E ok \in BOOLEAN : OpenLog(ok) \/ WriteRows(ok)
  \/ NoRow \/ GetRow \/ CloseLog \/ MarkLogged

\* A start: the variables of the task are set anew, the clock goes on.
LogRestart ==
  /\ Restart
  /\ lastMin' = 0 /\ logged' = FALSE /\ ready' = FALSE
  /\ ppc' = "sleep"
  /\ logs' = 0 /\ whole' = FALSE /\ passes' = 0 /\ late' = FALSE
  /\ UNCHANGED tmMin

\* The blocks that the periodic task holds are its own.
RowHeld == IF ppc = "rows" THEN 1 ELSE 0

LogNext ==
  \/ MinuteTick \/ FirstValues
  \/ Periodic
  \/ SenderStep /\ UNCHANGED <<clock, periodic>>
  \/ OtherAlloc /\ UNCHANGED <<clock, periodic>>
  \/ others > RowHeld /\ OtherFree /\ UNCHANGED <<clock, periodic>>
  \/ LogRestart

LogSpec == LogInit /\ [][LogNext]_allVars

\* As FtpRetry!FairSpec: the kernel keeps running the sender.
LogFairSpec ==
  LogSpec /\ WF_allVars(SenderStep /\ UNCHANGED <<clock, periodic>>)

-----------------------------------------------------------------------------
(***************************************************************************)
(* The type of the variables, and the periodic task's share of the pool.   *)
(***************************************************************************)
LogTypeOK ==
  /\ TypeOK
  /\ tmMin \in 0 .. MaxMinute /\ lastMin \in 0 .. MaxMinute
  /\ {logged, ready, whole, late} \subseteq BOOLEAN
  /\ ppc \in {"sleep", "due", "file", "row", "rows", "close", "mark"}
  /\ logs \in Nat /\ passes \in 0 .. 1
  /\ others >= RowHeld

(***************************************************************************)
(* Between two starts a minute gets one log file at most, although a pass  *)
(* reads tm_min three times and the minute may change before each.         *)
(***************************************************************************)
OneLogAMinute == logs <= 1

(***************************************************************************)
(* A due minute in which the task made a whole pass, with values to log,   *)
(* has got its log, unless the log of an earlier minute has ended in it:   *)
(* then last_min is set to this minute.                                    *)
(***************************************************************************)
DueIsLogged == passes > 0 /\ Due /\ ~late => logs > 0
=============================================================================
