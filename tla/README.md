# Data-logger firmware: TLA+ verification project

The repository is the firmware of a data logger on a Kinetis K64F: µC/OS-III
tasks that sample analog, digital and Modbus inputs, write log files to an SD
card, upload them by FTP, and talk to a PC and a display over two serial ports
and to a control centre over TCP.  Its own code is `src/application`,
`src/library`, `src/bsp` and `src/rtos/uCOSIII/src/uC-Helper`; the kernel,
FatFs, lwIP and the drivers are vendored.  There are no tests; the claims the
models are held against are the comments and the `ASSERT`s of the sources.

## 1. Inventory

| Component | State | Operations | Interacts with | Hard behaviour | What makes it correct |
|---|---|---|---|---|---|
| Retry table, `library/common/ring_file.c` | header in RAM, header in the file, record slots | init, create_new, push_back, pop_front, get_front, get_count, flush | FatFs below, the FTP task above | power loss between two writes; a FatFs call failing half-way; 16-bit indices wrapping | a FIFO of records that survives restarts, never overwrites a counted record, never delivers twice |
| FTP task, `network/ftp_client.c` | task queue, message and buffers from the pool, retry table, `retVal` | `ftp_add_filename`, `ftp_client_sender`, `ftp_remote_put` | periodic task, pool, retry table, FTP server | pool or queue exhausted, server failing, restart | a name is in exactly one place, a message is always handled, blocks come back |
| Serial L3, `serialcomm/Tranceiver.c` | three queues of buffers, per-frame send count and timeout | `Trans_Send`, `Trans_RecvTask`, `Trans_SendTask`, update timer | L2, application callbacks | ACK racing the timeout and the send-done; NACK | one owner per buffer, bounded retransmission, nothing kept for ever |
| Serial L2, `serialcomm/TransL2S.c` | send flags, `sMemSend`, receive machine | send machine, receive machine, L1 timeout callback | L1 FIFO and interrupt, timer task | the L1 timeout between any two steps of the communication task | a frame leaves layer 2 once: confirmed, or taken by the timeout |
| Serial L1, `serialcomm/TransL1V1.c` | `bSending`, receive FIFO | TX and RX interrupts | UART driver | interrupts between any two steps | the transmitter reads only a buffer it owns |
| Byte FIFO, `library/fifo.c` | buffer, size, head, tail, mark | push, pop, protect, rewind, reset | RX interrupt and one task (serial, Modbus, analog) | unprotected read-modify-write, rewind over a full buffer | holds what arrived and was not popped |
| Buffer queue, `library/queue.c`, `mem.c` | linked list, 8-bit size, mutex | append, remove by criterion, peek | L3 | several tasks in one list; lock timeout | list, tail and size agree; a buffer is in one place |
| Block pool, `uC-Helper/os_helper.c` | partitions of fixed-size blocks | malloc, free | every task | exhaustion | a freed block returns to its partition |
| TCP server and client, `network/tcp_*.c` | descriptors, status, sender queue | listener task, sender task | lwIP, application callbacks | the sender uses a descriptor that the listener closes | no leak of descriptors or blocks, no send to a stranger |
| Application, `app.c` | configuration, control codes, `pcCounter`, `reboot` | get/set configuration, header streaming, calibration, periodic log | all of the above | file truncated before it is written; state shared by the serial and the network path | the configuration survives, each stream is complete |
| Modbus master, `modbus/` | FIFO, RS-485 direction | send, wait, receive | RX/TX interrupts | an answer later than the fixed delay | an answer belongs to its request |
| Analog, digital, frequency, RTC, shell, file-system helpers, board support | mostly registers or text | – | – | – | – |

## 2. Modules

How the modules use each other:

```
RetryQueue <- RingFile (refined by)  <- RingFileProofs
RetryQueue <- FtpRetry <- LogUpload  <- LogUploadProofs
Fifo       <- Modbus                 <- FifoProofs -> SQueue
Trans      <- TransProofs            TransRecv  <- TransRecvProofs
TcpLinks   <- TcpLinksProofs         AppConfig  <- AppConfigProofs
AppHeaders <- AppHeadersProofs
```

`LogUpload` composes the periodic task with the FTP task, which composes with
the retry table through its abstract specification; `Modbus` composes the
master with the byte FIFO.

### RetryQueue, RingFile, RingFileProofs — the retry table

`RetryQueue` is the promise: a bounded FIFO whose contents survive a restart; a
pop that a restart interrupts leaves one unreadable entry at the front and
costs no other record.

`RingFile` is the code.  `ram` is `handle->header`, `disk` the header in the
file, `slot` the records in it, `len` how many records long the file is.
`push_back` and `pop_front` reach the card twice (the record's sector is
flushed when `f_lseek(0)` leaves it, the header's by `f_close`), so each is two
actions with a power loss possible in between: `PushRecord`/`PushHeader`,
`PopErase`/`PopHeader`; `CreateNew`/`CreateDone` likewise.  `PushFail`,
`PopFail` and `InitFail` are the error paths; the parameters `flushed` and
`ret` of the header actions are whether the header reached the card and what
the function returns.  A failed write leaves the old bytes, the new ones, or a
mix (`Bad`).  `get_front` is the operator `Window`: what successive reads return.
Counters are modulo `IndexMod`, 2^16 in the code.

`RingFile` implements `RetryQueue` when no FatFs call fails: the queue is the
window of the header in force (RAM when running, the file when off).

### FtpRetry, LogUpload, LogUploadProofs — log files and their upload

`FtpRetry`: `AddFile` is `ftp_add_filename`; `Take` … `Done` one message through
`ftp_client_sender`; `RetryFront` … `RetryPopped` its idle branch.  The retry
table is an `INSTANCE` of `RetryQueue`, whose actions the module uses: what
`RingFile` shows is what `FtpRetry` relies on.  The 272-byte partition of the
pool is counted, other tasks take and return blocks, and a restart keeps the
retry table only.  `ftp_remote_put` is one step whose two outcomes are
independent: whether the server has the file, and what it returns (an upload
that lost its last reply is reported as an error; one cut short by a read error
is reported as done).  `ftp_client_init` is not called at this commit
(`network.c:87`); the model is the task as that function starts it.

`LogUpload` extends it with `App_TaskPeriodic`, the source of the file names.  A
pass is `WakeUp` → `NotDue`, or `BeginLog` → `OpenLog` → `GetRow`/`NoRow` →
`WriteRows` → `CloseLog` → `MarkLogged`; `MinuteTick`, the timer task's or the
RTC's change of `tm_min`, may come between any two of them.  The clock only goes
forward; a clock set back by the operator is not modelled.  A log that could not
be written counts as done: the result is only given to `ASSERT`, which reports
it.

### Trans, TransProofs — the serial protocol, sending

One port.  `Submit` is `Trans_send`; the communication task runs `Trans_Task`
as `Recv*` → `UpdateWaiting` → `Pick` → `Run*` (→ `RunTimer` or `SendDone`);
`TxDone` is the transmit interrupt with `Clb_L1SendDone`; `Expire` is
`Clb_L1TimeOutTimer`, one step: `OS_TmrTask` calls it with the scheduler locked
(`os_tmr.c:1011-1029`).  The timer task (priority 16, below every communication
task) takes it only while the communication task pends or is inside an
application callback (`TimerMayRun`); `expired` are the buffers it has freed.  The peer is external: it
answers or not, sends data of its own, and may send NACKs, which carry the
number of the last frame it accepted.  A frame is its buffer; `free` and
`refreed` are the allocator.

Two facts of the code shaped the model: the walk of
`Trans_CheckTimeOutOfSendedFrame` ends at the first frame it queues again,
because `Queue_Push` clears the `pNext` it would follow (`Walked`); and the
failure return of `TransL1_Send` is unreachable, because layer 1's `bSending`
covers the driver's `isTxBusy`.

### TransRecv, TransRecvProofs — the serial protocol, receiving

Two ports, the PC's and the display's.  `Seek`, `Header`, `TestLength` and
`RecvByte` are the rounds of the loop of `ProcessRecvData`; `WrongFrame`,
`CmdFrame` and `DataFrame` are `OnRecvFrame`.  `dlen` is the static local
`u16DLen` that the tasks of both ports write: the wait for data of one port may
end by the length of the other's frame, and between `Header` and `TestLength` the
other task may change it.  A byte on the line is the pair of its frame and its
place in it; `Garble` loses one or makes it another, `LoseAck` loses an answer,
`Boot` restarts the logger.  The header's rewind is its effect on the FIFO: only
the preamble is consumed.  ACKs reach the peer in the order in which they were
sent, as on any serial line (`answers`).  A *patient* peer repeats a frame until it
has the ACK, and only when the receiver has nothing to read and at most `MaxAnswers`
ACKs are on their way (a bound for TLC); the others give up after `MaxTries`.

### Fifo, Modbus, FifoProofs — the byte FIFO and the Modbus master

The receive interrupt is `Push`, atomic.  The task's `u16Size--` and
`u16Size++` are a load and a store (`PopLoad`/`PopStore`,
`RewindLoad`/`RewindStore`), `FIFO_Reset` three stores, and the interrupt may
come between any two of them: the critical sections are empty macros
(`TransL1V1.c:19`).  `torn` remembers that it has come inside an operation,
which the comments of `fifo.c` leave it to the user to prevent: the contents
are exact only until then (`HoldsArrived`), but the count stays a lower bound
of what has arrived and not been popped whatever happens (`NoPhantom`).

`Modbus` is a client of it: `Reset`/`ResetRest`, `Send`, `WakeUp`/`NoAnswer`, `Pop`
are `Modbus_SendAndRecv`; `Accept`, `Refuse` and `Fault` are `MBMaster_Read`'s
checksum and what `App_ModbusDoRead` does with its result.  `line` is what the
slaves still have to send; the sleep of `MB_DELAY_MS` may end before, in, or
after an answer, and what arrives while the transceiver sends is lost.  With
`other = TRUE` the same FIFO is another port's (serial or analog), used in every
way `Fifo` knows.  `Fault` is what follows an answer of one byte: the checksum of
`rlen - 2` bytes, a `size_t`, walks the whole address space.  The
master pops up to 512 bytes into an array of 30 (`app.c:1335`, `layer1.c:232`); what a
longer pop would overwrite is left out.

### SQueue — the queues of buffers

`Append1` → `AppendLink` → `AppendTail` → `Unlock` is `Queue_Append`, `Remove1` →
`Search` → `Unlink` or `NotFound` → `Unlock` is `Queue_Remove`; `AppendMisses` is an
append whose mutex does not come within 100 ms.  `Remove1` takes any set of buffers
for what the criterion accepts.  `contents` is a history: the sequence the list
stands for.  The tasks are the model's environment: they allocate, free, and hand
over only a buffer they have, which is what `OneOwner` of `Trans` says of the
callers.  The post of a mutex by a task that does not own it, which follows a
timeout, is refused by the kernel (`os_mutex.c:766`).  `Trans` uses the queues by
their effect, and it also has the one walk of a list that takes no mutex
(`Walked`).

### TcpLinks, TcpLinksProofs — the TCP server and client

The two listener tasks (`Server*`, `Client*`, then `Connected`, `Disconnected`,
`CloseSocket`, `EndConnection` for both) and the two sender tasks (`SendTest`,
`Send`, `SendFree`) share a descriptor and a status without a lock; any task may
`Post`.  `Socket` is the stack's table, from which the lowest free descriptor is
given out at once; the FTP client opens and closes sockets of the same table
(`OtherOpen`, `OtherClose`).  `raced` remembers that a sender tested the status
before, and uses the descriptor after, a close.

### AppConfig, AppHeaders, AppConfigProofs, AppHeadersProofs — the application

`AppConfig`: `sCfg` in RAM, the file, `App_SaveConfig` in its four FatFs calls by
three tasks (`SaveStep`), `App_LoadConfig` (`LoadOk`, `LoadFails`, `LoadDefault`),
edits (`Set`, `Calibrate`), their end (`WriteDone`), the restart from the
sent event (`Sent`), and the card's interrupt (`CardOut`, which restarts the logger
and stands for a loss of power, and `CardIn`, which asks the start-up task to mount
the card).  Without a card, and at any other time, every FatFs call may fail.  A
configuration is a function on a few pieces, so that a save which overlaps an
edit or a reload may mix two of them.  Two tasks that save at once open the file
twice, which FatFs without `FF_FS_LOCK` leaves undefined (`ffconf.h:256-259`):
there (`spoilt`) the behaviours of the model end.  An `f_open` that fails may have
emptied the file before (`SaveOpenFails`; `ff.c:3600-3609`).

`AppHeaders`: the sent-event handlers of the serial and of the network link step
one counter and one control code through the table of tags.  `pcCounter++` is a
load and a store.  The serial task has the higher priority; the network tasks run
only while it is idle or waits in a call of its own (`MayRun`).

Each `MC…` module extends its model with what its runs share.  `MCContainers` puts
`Modbus` and `SQueue`, which share nothing, side by side: a behaviour of it is one of
the one or of the other.  Operators
commented as mutants are variants of a definition with a plausible bug in it,
kept to show that the property of their run can fail.

## 3. Runs

| Run | Shows | Bounds, and why they are enough |
|---|---|---|
| `ring_power` | `RefinesRetryQueue`: without FatFs failures the file is a persistent FIFO, through power loss at every step | ring of 2, 6 records, indices modulo 7: the ring is filled, emptied and lapped three times before the push index could overflow (that is `ring_wrap`) |
| `ring_io` | `HeadersConsistent`, `PushSparesCounted`, `PoppedNeverBack` with every failure and power loss | ring of 2, 4 records, indices modulo 8: two laps, no overflow (that is `ring_wrap`) |
| `log_upload` | `OneLogAMinute`, `DueIsLogged`; the pool sum (`LogTypeOK`), `OnePlace` across restarts, `PostedIsHandled` | 3 files for a queue of 1 and a table of 1: both overflow; 4 blocks: every allocation can fail; minutes 0 to 2, of which 0 and 2 are due: a log may end in a later due minute |
| `trans_owner` | `OneOwner`, `WireOwned`, `GivenUpLast` with ACK, NACK, peer data, late and lost answers, and L1 timeouts | two frames with ACK and one without, one command buffer, 2 transmissions, a timeout of 2 ticks: frames expire together and apart |
| `trans_live` | `SendsBounded`, `SentOrGivenUp`, with L1 timeouts | 2 frames, 2 transmissions, a timeout of 2 ticks, no command frames |
| `trans_recv` | `DeliveredInOrder`, `AckMeansDelivered`, `Resynchronises` | three frames of 2, 1 and 1 data bytes at the PC's port, one of 2 bytes and an ACK at the display's: the lengths differ, and a command has none; sequence numbers modulo 2, so that the third frame has the number of the first; 2 ACKs on their way; one fault (loss, change, restart), anywhere; a FIFO smaller than two frames |
| `containers` | the byte FIFO: `HoldsArrived` and `NoPhantom` under any use; `OwnAnswer` and `TakenOnce` under the Modbus master.  The queues of buffers: `QueuesKeepBuffers`, `FirstMatch` | 4 bytes of buffer, 8 bytes of traffic: every index wraps; 2 nodes, 4 requests, answers of 2 bytes: a late answer can meet the reset, the pops and the next answer.  2 tasks, 2 queues, 3 buffers: a removal from the front, the middle and the end, a buffer that moves from one queue to the other, two tasks in one queue or in two; a size modulo 4, the least that counts 3 |
| `net_links` | `SocketsOwned`, `SentToPeer`, `BlocksAccounted`, `ReconnectsUnlessLeaked` | 4 sockets, as many as are needed together, so that one leak exhausts them; 2 blocks, queues of 1: posts fail; one loss of the cable, any number of disconnections |
| `app_config` | `Kept`, `DoneIsStored`, `RestartFollows` | 2 pieces, so that a mixture exists; one value beside the default and zero; 1 reply in flight |
| `app_headers` | `InOrder`, `NearTable`, `StreamEnds` | 3 tags, queues of 2, 3 requests: requests meet a stream under way, and both handlers overlap in every step |

The runs that end in a counterexample show where the code departs from a
comment of its own:

| Run | What happens |
|---|---|
| `ring_wrap` | `push_index` overflows at 65536, not a multiple of 5000: a push lands on an older record instead of at the end.  In the model: 3 and 2 |
| `log_resend` | a record of the retry table is popped on the result of another file's upload: the call that sends it again is commented out (`ftp_client.c:717`), and its file is at no server |

Properties that depend on an assumption say so.  `SendsBounded` and `SentOrGivenUp`
are checked with a peer that sends no NACK (a NACKed frame is
queued without looking at `u8NumSend`, which then wraps), `HeadersConsistent` only
until the push index overflows (`~wrapped`).  `WireOwned` and `GivenUpLast` except
the buffers that the L1 timeout has taken, while the transmitter still reads them.
`Kept` does not ask for more than that a save is what empties the file: there the
configuration can be lost.  `DoneIsStored` is about saves that succeed,
`BlocksAccounted` about all blocks but those whose post failed, `FirstMatch` and
`QueuesKeepBuffers` about calls that get the mutex.  `SentToPeer` is about sends that no
close overlaps, `InOrder` about handlers that do not overlap, `OwnAnswer` about
requests made while the line is quiet, `TakenOnce` about resets that an answer does
not fall into entirely; `DueIsLogged` does not ask for the minute in which an
earlier log ends, `AckMeansDelivered` not for a first frame numbered 0xFF after a
start, `ReconnectsUnlessLeaked` not for a server that has lost its listening
socket.  Each exception is a behaviour of the code that the model has.

Such behaviours, in the models without a run of their own:

* `ring_file_init` compares only the size of the file, so that a start whose header
  read fails (`InitFail`) leaves a zero header that the next push stores and later
  starts accept.
* A `push_back` whose header write fails returns FALSE, and the record is in the
  table all the same (`ring_file.c:142`, `:192`).
* An ACK may be processed before its frame is in the sent queue:
  `ASSERT(pMem != NULL)` (`Tranceiver.c:121`), and the frame is sent again.
* `RunTimer` starts the L1 timer after the transmission, which may have ended: the
  timer then expires with nothing, or with the next frame, being sent.
* The L1 timeout frees the buffer of a frame although layer 1 goes on reading it
  (`WireOwned` excepts it).
* A rewind of a FIFO that has filled up over the marked bytes makes `u16Size` exceed
  the buffer (`fifo.c:118`, `:133`).
* A failed `bind` or `listen`, and a loss of the link between two clients, open the
  listening socket again without closing the old one, which keeps the port
  (`tcp_server.c:64-75`, `:84-88`): with `SO_REUSE` 0 the server is then deaf for good
  and each attempt costs a socket, which the client misses in the end.
* A log that ends in a later minute makes that minute count as logged; with the
  default period of one minute it is skipped.  A log without memory for its row is
  an empty file that is never handed over, and FR_OK.
* The end of the edits over the network never restarts the logger by itself: only a
  WRITE_SUCCESS frame sent on the serial link does.

Deadlock is checked except where a model stops of itself: `trans_recv` and
`containers` when the bounded frames and requests are used up, `app_config` when
the volume is spoilt, `net_links` when leaked sockets leave the listeners retrying
(a failed attempt is not a step of the model).

## 4. Fairness

* `FtpRetry!FairSpec`, `LogUpload!LogFairSpec`: weak fairness of the sender as a
  whole.  The kernel schedules it whenever higher tasks sleep, and every call it
  makes has a timeout.  Nothing is assumed of the periodic task nor of others,
  which may hold blocks for ever.
* `Trans!FairSpec`: weak fairness of the communication task and of the transmit
  interrupt (the UART empties its shift register), strong fairness of the update
  timer's callback.  The timer task
  runs whenever the communication task pends, again and again; the semaphore
  its callback posts every 10 ms keeps the communication task going.  Nothing is
  assumed of the peer, nor that the L1 timer ever expires.  A lost transmit
  interrupt would stop the port for good: layer 1's `bSending` has no other
  reset.  Assumed too: that the interrupt's `OSTmrStop` (`TransL2S.c:87`) finds the
  timers' mutex free.  The kernel is built without the check for calls from
  interrupts (`os_cfg.h:41`), so that otherwise it would put the interrupted task
  to wait.
* `TransRecv!FairSpec`: weak fairness of the receive tasks (the same semaphore) and,
  for a patient peer only, of the line, of its reading of ACKs and of its
  repetitions.
* `TcpLinks!FairSpec`: the cable is put back and the listeners run (weak), and the
  remote server accepts in the end if it is tried again and again (strong).  Nothing
  is assumed of the senders nor of clients that connect to the server beyond
  `accept`'s return.
* `AppConfig!FairSpec`: a save and the start-up task go on (weak); the serial task
  ends the frames it has sent again and again although requests keep coming
  (strong), because `Trans_Task` makes a whole pass for each semaphore it takes.
* `AppHeaders!FairSpec`: a link sends what it has queued, and its handler goes on
  (weak).

## 5. Proofs

Each module of proofs extends its model; every theorem holds for all values of the
constants that the model's own assumptions allow.  Where one needs more, the
hypothesis is in its statement and given below.  Every invariant and every
action property of the passing runs is proved; what is left to TLC is at the end.

### RingFileProofs — the retry table

* `TypeCorrect`, `HeadersAlwaysConsistent`: `Spec => []TypeOK`, `[]HeadersConsistent`
* `PushNeverOverwrites`: `Spec => PushSparesCounted`
* `DeliveredOnce`: `Spec => []PoppedNeverBack`
* `RingImplementsRetryQueue`: if no FatFs call fails,
  `Spec /\ [](~wrapped) => RefinesRetryQueue`

`HeadersConsistent` is not inductive.  `RingInv` adds the types and `PhaseOK`: what
the phase a call is in has already tested (the header in RAM is zero while off or
creating, the ring is not full during a push and not empty during a pop).
`DeliveredOnce` needs `DeliveryInv`: a record lies in one slot at most, only after
it was handed to `push_back`, and none that was delivered is still in the file.
The refinement needs `TableInv`: between two calls the header in RAM is the one in
the file, and in the second half of a call the slot it works on is already written
or erased.  With that, the window after a header write is the queue with the
record appended, or without its front, and every other step leaves the window
as it is.

Both hypotheses are needed.  A push that fails in its second half may have stored
its record (section 3).  `~wrapped` says that the push index has not overflowed yet:
5000 does not divide 65536, and `ring_wrap` shows the queue after an overflow.

### LogUploadProofs — the FTP task and the periodic task

* `BlocksAccountedFor`, `FilesInOnePlace`: `Spec => []TypeOK` (with the sum of the
  pool), `[]OnePlace` of `FtpRetry`
* `LogUploadImplementsFtpRetry`: `LogSpec => Spec`, so that both hold with the real
  source of the names too (`UploadsInOnePlace`)
* `LogTypeCorrect`, `OneLogInAMinute`, `DueMinutesAreLogged`: `LogSpec =>
  []LogTypeOK`, `[]OneLogAMinute`, `[]DueIsLogged`

`FtpInv` counts: `FileOK` adds up the copies of a name in the queue, in the sender's
hand and in the retry table, and says of the names not handed over, which `OnePlace`
leaves out, that there is none; `HoldsMessage` ties the message in hand to the step of the sender;
`RoomForErased` keeps the unreadable entry that an interrupted pop leaves within
the bound of the table.  `LogInv` says that a log begun in this minute is
under way or marked (`LogsMarked`), that a mark is not ahead of the clock and is of
a log begun in its minute or late (`MarkOK`), and that a pass begun in this minute
has compared the mark with it (`WholeOK`).

### TransProofs — the serial protocol, sending

* `TransTypeCorrect`: `Spec => []TypeOK`
* `BuffersHaveOneOwner`, `TransmitterReadsOwned`, `GivenUpAfterAllTries`:
  `Spec => []P` for `OneOwner`, `WireOwned` and `GivenUpLast`, L1 timeouts included
* `TransmissionsBounded`: `Spec => []SendsBounded` if the peer sends no NACK

`TransInv` is the shape of the machine: which variables are set at which step of
the task, what each queue may hold.  `OwnInv` makes ownership inductive: a buffer
is free exactly if no queue, hand or layer refers to it, no queue holds it twice,
and a transmission in progress is that of the frame in hand.  `CountInv` adds up the
transmissions of a frame, its `u8NumSend` and the one taken and not yet begun: they
are the allowed number, or all transmissions have been made.  `BoundInv`, for
`SendsBounded`, says that the sum never exceeds it, whatever the L1 timeout does.

The L1 timeout fits in because it takes a frame only while layer 1 sends it
(`bL1Sending`), when layer 2 has it and no queue does; the task then finds the flags
cleared and lets go of it.  `~Nacks` is needed because a frame refused by the peer is
queued again without a look at its count.  The queues are filtered by `Without`, a
recursive function; its lemmas go by induction on the set of a sequence's
positions, stated as a set (`InductionOnSet`).

### TransRecvProofs — the serial protocol, receiving

* `RecvTypeCorrect`, `FramesDeliveredInOrder`: `Spec => []TypeOK`,
  `[]DeliveredInOrder`, with any loss, change, restart and repetition
* `AckedFramesDelivered`: `Spec => []AckMeansDelivered` if `NumbersSuffice`

`RecvInv` follows the bytes: on the line, in the FIFO, in the header being read
and in the number last accepted, data frames come in ascending order, none later
than the one the peer is sending.  `DeliveredInOrder` is the last link of that chain.

`AckedFramesDelivered` needs `Truth`, which differs for the two kinds of peers.  For a
patient one, however many frames it has, it is the argument of alternating numbers
(`Alternates`): the ACKs on their way are of the frame before the current one and,
behind them, of the current one (`InTurn`); two frames in a row have different
numbers (`Successive`); and once an ACK of the current frame is on its way, that frame
is settled and nothing older can still arrive (`InPlay`).  For a peer that gives
frames up (`Truthful`) an ACK on its way carries the number of a frame that was
delivered, which says which frame it was only while the peer has fewer frames than
there are numbers: otherwise a late ACK of a frame that was given up acknowledges a
later one of the same number that never arrived.  `NumbersSuffice` asks this of the
peers that give up, for which, the number having 8 bits, it is good for 255 frames;
of the patient ones it asks only that there be more than one number.

### FifoProofs — the byte FIFO, the Modbus master and the queues of buffers

* `FifoTypeCorrect`, `NeverPhantom`, `AlwaysHoldsArrived`: `Spec => []TypeOK`,
  `[]NoPhantom`, `[]HoldsArrived` of `Fifo`, whatever the task calls and wherever
  the interrupt comes
* `MbTypeCorrect`, `MbFifoHolds`: `MbSpec => []MbTypeOK`, `[](NoPhantom /\ HoldsArrived)`
* `RequestsGetTheirOwn`: `MbSpec => OwnAnswer`
* `AnswersTakenOnce`: `MbSpec => TakenOnce`
* `QueueTypeCorrect`, `QueuesAreLists`, `BuffersInOnePlace`: `QueueSpec =>
  []QueueTypeOK`, `[]ListAgrees`, `[]BufferInOnePlace`; `QueuesKeep` is the last two
  together, `QueuesKeepBuffers`
* `FirstMatchIsTaken`: `QueueSpec => FirstMatch`

`FifoInv` has `CountInv`: what the task has loaded and is about to store never
exceeds what has arrived and not been popped, and the mark is no further back than
bytes were popped; and `Contents`: the slots from the mark to the tail hold
consecutive byte numbers, except those a later byte has overwritten.  Without the
bytes behind `head` (popped, but still to be rewound) `HoldsArrived` is not
inductive.  `Place` and `Marked` give positions relative to `head` without a remainder.

A step of the Modbus master is one of `Fifo`, except `Fault`, the restart
(`MbFifoStep`), so that `FifoInv` carries over.  `MbInv` adds what its two
properties rest on, `First`: the first byte the task has popped, or is about to
pop, is of the right kind, if more bytes are counted than those the reset could not
drop.  For `OwnAnswer` the right kind is a byte of the answer to the last request;
for `TakenOnce`, any but the first byte of an answer already taken.  Nothing is
said of the bytes behind it: those of a disturbed answer may come out of order,
and the checksum refuses them.

`QueueInv` holds in the middle of a call, where `ListAgrees` does not: a task in a
call has the mutex of its queue (`LockInv`); a list is linked up to its last element
(`Linked`), which leads to nothing or to the buffer being appended (`After`); a search
stands at an element, whose predecessor it has, behind others that do not fit
(`Searched`).  That one task's step leaves the lists of the others alone rests on
`PlaceInv`, the relational form of `BufferInOnePlace`: two lists share no element.
The size does not wrap because a list has no element twice and there are fewer
buffers than `u8Size` can count (`RoomForOne`; 116 blocks in `os_helper.h`).

### TcpLinksProofs — the TCP server and client

* `LinksTypeCorrect` — `Spec => []TypeOK`
* `ListenersOwnTheirSockets` — `Spec => []SocketsOwned`
* `SendersWriteToTheirPeer` — `Spec => []SentToPeer`
* `NoBlockLostOtherwise` — `Spec => []BlocksAccounted`

from `TcpConstants` only.  The invariant is `TcpInv`.  Its parts `Owned` and `Bound`
are `SocketsOwned` descriptor by descriptor; it is inductive only with `Fresh` (a
server about to bind still has the socket it has just opened) and `Places` (the
states that belong to the other listener are never entered).  `SentToPeer` needs
`Tested`: a sender between test and send whose `raced` is not set has a listener
that still receives or is about to close; and that needs `StatusHolds`, the status
is set in a connection only.  `LowestIsFree`, that the stack's choice of the lowest
free descriptor exists, rests on the natural numbers being well-founded.

### AppConfigProofs, AppHeadersProofs — the application

* `ConfigTypeCorrect`: `Spec => []TypeOK`
* `SavedConfigurationKept`, `WriteDoneStores`: `Spec => Kept`, `DoneIsStored`
* `HeadTypeCorrect`, `HeadersInOrder`, `HeadersNearTable`: `Spec => []TypeOK`,
  `[]InOrder`, `[]NearTable`

`HeldShort` says that an open file is short and open once: so no close, and no
restart in the middle of a save, can replace a configuration, which is what `Kept`
needs.  `DoneIsStored` needs `Copied` (a
save that has ended holds, of the pieces its link edited last, the values in RAM)
and `Alone` (no other task exists while the start-up task mounts the card).

For `NearTable`, `HeadInv` has `InBounds`: how far the counter can be beyond the table
given where the two handlers are, the network's moving only while the serial task
is idle or waits.  For `InOrder` it has, until two handlers overlap (`~raced`),
`Undisturbed`: one handler is under way at a time, and what it has loaded is one
behind the next header.

### Model-checked only

* Liveness, which the prover does not reach: `PostedIsHandled`, `SentOrGivenUp`,
  `Resynchronises`, `ReconnectsUnlessLeaked`, `RestartFollows`, `StreamEnds`.
* The two counterexamples, `ring_wrap` and `log_resend`.
* Claimed by neither: that the transmitter reads only owned buffers after an L1
  timeout; `SendsBounded` with NACKs; `AckMeansDelivered` for a peer that gives frames
  up and uses its numbers twice.

## 6. Not modelled

* Vendored code: kernel, FatFs, lwIP, the drivers and register headers of the
  controller.  It is nearly all of the repository's C by lines (`MK64F12*.h`, the code
  pages of FatFs, `ff.c`, CMSIS), so that the share of all lines that the models
  stand for stays small however much of the firmware's own code they cover.  The
  models use it as the firmware does: a FatFs call succeeds, fails, or leaves a
  write half done; `socket` gives the lowest free descriptor; a timer callback runs
  in the lowest task.
* Board support, start-up and register access; analog input, digital output (no
  code of this commit calls `DOCtrl_*` beyond its initialisation) and the frequency
  meter.
* Text: formatting, the shell and its commands, which also set the clock and save
  the configuration.
* Checksums are told right from wrong, not computed.
* `TransL1V2.c`, which is compiled out, and `CTRL_INIT_MODBUS`, which nothing sets.
* `Queue_Flush`, which has no caller; the choice of a partition in `os_helper.c`; the
  FTP session inside `ftp_remote_put`.
* A clock set back; more than one frame of a peer outstanding; the allocation of
  `TransL2S_MemAlloc` failing; the contents of Modbus answers.

## 7. Plan

In this order:

1. `FtpPut`: control and data connection, replies and their order.
2. Two ports of `Trans` and `TransRecv` joined over one lossy line.
