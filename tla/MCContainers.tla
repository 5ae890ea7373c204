---------------------------- MODULE MCContainers ----------------------------
(***************************************************************************)
(* The containers of src/library: the byte FIFO, alone and under the       *)
(* Modbus master, and the queues of buffers.  They share nothing; a run    *)
(* works on the one or on the other.                                       *)
(***************************************************************************)
EXTENDS Modbus, SQueue

VARIABLE bytes   \* the run works on the byte FIFO

libVars == <<bytes, mbVars, qvars>>

LibInit == MbInit /\ QueueInit /\ bytes \in BOOLEAN

LibNext ==
  /\ \/ bytes /\ MbNext /\ UNCHANGED qvars
     \/ ~bytes /\ QueueNext /\ UNCHANGED mbVars
  /\ UNCHANGED bytes

LibSpec == LibInit /\ [][LibNext]_libVars
=============================================================================
