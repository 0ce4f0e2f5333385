---------------------------- MODULE ThreadSuite ----------------------------
(***************************************************************************)
(* Three tools for programs of several threads, side by side over one      *)
(* application: inscount_tls.cpp counts the instructions of each thread,   *)
(* buffer_linux.cpp and buffer_windows.cpp write down the addresses each   *)
(* thread refers to, by way of a buffer per thread that Pin fills.         *)
(*                                                                         *)
(* buffer_linux has a file per thread (its MLOG).  buffer_windows has one  *)
(* file, ofile, and a lock for it, so it writes in steps: a thread whose   *)
(* buffer is full waits for the lock ("full"), writes a record at a time   *)
(* ("write") and lets the lock go.                                         *)
(***************************************************************************)
EXTENDS Integers, SequencesExt, FiniteSetsExt

CONSTANTS
  THREADIDs,
  Blocks,             \* the basic blocks of the program: sequences of instructions
  BufferSize,         \* records a buffer has room for
  MaxBlocks           \* bound on the blocks a thread executes

(***************************************************************************)
(* An instruction: whether the tools know how to treat it, and its memory  *)
(* operands in order, each with its address and whether it is read and     *)
(* written.                                                                *)
(***************************************************************************)
MemOps == [ea : Nat, read : BOOLEAN, written : BOOLEAN]

Instructions == [standard : BOOLEAN, memOps : Seq(MemOps)]

ASSUME ThreadSuiteAssumption ==
  /\ Blocks \subseteq Seq(Instructions)
  /\ <<>> \notin Blocks
  /\ BufferSize \in Nat \ {0}
  /\ MaxBlocks \in Nat

VARIABLES
  phase,              \* where each thread is
  blocks, todo,       \* the blocks each thread has entered, and what it has still
                      \* to execute of the last
  ending,             \* whether the thread executes no more
  exited,             \* whether the application is over
  numThreads, tdata, OutFile,    \* inscount_tls: its counts of the threads that
                                 \* run, and what it printed of those that ended
  mlog,               \* buffer_linux: buffer and file of each thread
  KnobDoWriteToOutputFile,       \* buffer_windows: its knob -emit,
  buf, queue,         \* its buffer of each thread, and the records of the last
                      \* instruction that are not there yet,
  ofile, fileLock     \* its file and the lock

programVars == <<blocks, todo, ending, exited>>
inscountVars == <<numThreads, tdata, OutFile>>
suiteVars == <<phase, programVars, inscountVars, mlog,
               KnobDoWriteToOutputFile, buf, queue, ofile, fileLock>>

OtherTools == <<inscountVars, mlog, KnobDoWriteToOutputFile>>

SuiteInit ==
  /\ phase = [t \in THREADIDs |-> "outside"]
  /\ blocks = [t \in THREADIDs |-> <<>>]
  /\ todo = [t \in THREADIDs |-> <<>>]
  /\ ending = [t \in THREADIDs |-> FALSE]
  /\ exited = FALSE
  /\ numThreads = 0
  /\ tdata = [t \in {} |-> 0]
  /\ OutFile = [t \in {} |-> 0]
  /\ mlog = [t \in THREADIDs |-> [buffer |-> <<>>, file |-> <<>>]]
  /\ KnobDoWriteToOutputFile \in BOOLEAN
  /\ buf = [t \in THREADIDs |-> <<>>]
  /\ queue = [t \in THREADIDs |-> <<>>]
  /\ ofile = <<>>
  /\ fileLock = 0

-----------------------------------------------------------------------------
(***************************************************************************)
(* Trace: an operand that is read and written is recorded once for each.   *)
(***************************************************************************)
MEMREFs(ins) ==
  FlattenSeq([i \in DOMAIN ins.memOps |->
    LET memOp == ins.memOps[i]
    IN  (IF memOp.read THEN <<memOp.ea>> ELSE <<>>)
          \o (IF memOp.written THEN <<memOp.ea>> ELSE <<>>)])

(***************************************************************************)
(* buffer_linux leaves out the instructions it does not know.              *)
(***************************************************************************)
StandardMEMREFs(ins) == IF ins.standard THEN MEMREFs(ins) ELSE <<>>

(***************************************************************************)
(* Neither tool prints a record without an address.                        *)
(***************************************************************************)
Printed(records) ==
  FlattenSeq([i \in DOMAIN records |->
                IF records[i] = 0 THEN <<>> ELSE <<records[i]>>])

(***************************************************************************)
(* BufferFull of buffer_linux.  The faulty one, for the mutation check,    *)
(* misses the last record.                                                 *)
(***************************************************************************)
DumpBufferToFileButLast(log) ==
  [buffer |-> <<>>, file |-> log.file \o Printed(Front(log.buffer))]

DumpBufferToFile(log) ==
  [buffer |-> <<>>, file |-> log.file \o Printed(log.buffer)]

FillBuffer(log, ea) ==
  LET filled == [log EXCEPT !.buffer = Append(@, ea)]
  IN  IF Len(filled.buffer) = BufferSize THEN DumpBufferToFile(filled) ELSE filled

-----------------------------------------------------------------------------
(***************************************************************************)
(* Pin has put as many of the records as there is room for in the buffer   *)
(* of buffer_windows; if that leaves no room, thread t calls BufferFull.   *)
(***************************************************************************)
FillWindows(t, records, next) ==
  LET filled == SubSeq(records, 1, IF Len(records) < BufferSize THEN Len(records)
                                                                ELSE BufferSize)
  IN  /\ buf' = [buf EXCEPT ![t] = filled]
      /\ queue' = [queue EXCEPT ![t] = SubSeq(records, BufferSize + 1, Len(records))]
      /\ phase' = [phase EXCEPT ![t] = IF Len(filled) = BufferSize THEN "full" ELSE next]

(***************************************************************************)
(* A thread leaves BufferFull for its next instruction, or for its end.    *)
(***************************************************************************)
AfterBufferFull(t) ==
  FillWindows(t, queue[t], IF ending[t] THEN "ended" ELSE "app")

(***************************************************************************)
(* BufferFull of buffer_windows: PIN_GetLock, the loop over the records,   *)
(* PIN_ReleaseLock.  The faulty one, for the mutation check, does not wait *)
(* for the lock.                                                           *)
(***************************************************************************)
GetFileLockAnyway(t) ==
  /\ phase[t] = "full"
  /\ KnobDoWriteToOutputFile
  /\ fileLock' = 1
  /\ phase' = [phase EXCEPT ![t] = "write"]
  /\ UNCHANGED <<programVars, OtherTools, buf, queue, ofile>>

GetFileLock(t) ==
  /\ phase[t] = "full"
  /\ KnobDoWriteToOutputFile
  /\ fileLock = 0
  /\ fileLock' = 1
  /\ phase' = [phase EXCEPT ![t] = "write"]
  /\ UNCHANGED <<programVars, OtherTools, buf, queue, ofile>>

WriteRecord(t) ==
  /\ phase[t] = "write"
  /\ buf[t] # <<>>
  /\ ofile' = IF Head(buf[t]) = 0 THEN ofile
              ELSE Append(ofile, [tid |-> t, ea |-> Head(buf[t])])
  /\ buf' = [buf EXCEPT ![t] = Tail(@)]
  /\ UNCHANGED <<phase, programVars, OtherTools, queue, fileLock>>

ReleaseFileLock(t) ==
  /\ phase[t] = "write"
  /\ buf[t] = <<>>
  /\ fileLock' = 0
  /\ AfterBufferFull(t)
  /\ UNCHANGED <<programVars, OtherTools, ofile>>

BufferFullWithoutEmit(t) ==
  /\ phase[t] = "full"
  /\ ~KnobDoWriteToOutputFile
  /\ AfterBufferFull(t)
  /\ UNCHANGED <<programVars, OtherTools, ofile, fileLock>>

-----------------------------------------------------------------------------
ThreadStart(t) ==
  /\ phase[t] = "outside"
  /\ ~exited
  /\ phase' = [phase EXCEPT ![t] = "app"]
  /\ numThreads' = numThreads + 1
  /\ tdata' = [u \in DOMAIN tdata \cup {t} |-> IF u = t THEN 0 ELSE tdata[u]]
  /\ UNCHANGED <<programVars, OutFile, mlog, KnobDoWriteToOutputFile, buf, queue,
                 ofile, fileLock>>

(***************************************************************************)
(* docount of inscount_tls.  A faulty one, for the mutation check, adds to *)
(* the count of every thread.                                              *)
(***************************************************************************)
docountShared(c, threadid) == [t \in DOMAIN tdata |-> tdata[t] + c]

docount(c, threadid) == [tdata EXCEPT ![threadid] = @ + c]

(***************************************************************************)
(* A thread enters a block.  docount is called anywhere in it, here at the *)
(* start: CountSuite is about the other places.                            *)
(***************************************************************************)
EnterBlock(t, bbl) ==
  /\ phase[t] = "app"
  /\ todo[t] = <<>>
  /\ Len(blocks[t]) < MaxBlocks
  /\ blocks' = [blocks EXCEPT ![t] = Append(@, bbl)]
  /\ todo' = [todo EXCEPT ![t] = bbl]
  /\ tdata' = docount(Len(bbl), t)
  /\ UNCHANGED <<phase, ending, exited, numThreads, OutFile, mlog,
                 KnobDoWriteToOutputFile, buf, queue, ofile, fileLock>>

Execute(t) ==
  /\ phase[t] = "app"
  /\ todo[t] # <<>>
  /\ todo' = [todo EXCEPT ![t] = Tail(@)]
  /\ LET ins == Head(todo[t])
     IN  /\ mlog' = [mlog EXCEPT ![t] = FoldLeft(FillBuffer, @, StandardMEMREFs(ins))]
         /\ FillWindows(t, buf[t] \o MEMREFs(ins), "app")
  /\ UNCHANGED <<blocks, ending, exited, inscountVars, KnobDoWriteToOutputFile,
                 ofile, fileLock>>

(***************************************************************************)
(* A thread that ends calls BufferFull for the rest, then ThreadFini.      *)
(***************************************************************************)
EndThread(t) ==
  /\ phase[t] = "app"
  /\ todo[t] = <<>>
  /\ ending' = [ending EXCEPT ![t] = TRUE]
  /\ mlog' = [mlog EXCEPT ![t] = DumpBufferToFile(@)]
  /\ phase' = [phase EXCEPT ![t] = "full"]
  /\ UNCHANGED <<blocks, todo, exited, inscountVars, KnobDoWriteToOutputFile,
                 buf, queue, ofile, fileLock>>

ThreadFini(t) ==
  /\ phase[t] = "ended"
  /\ phase' = [phase EXCEPT ![t] = "over"]
  /\ OutFile' = [u \in DOMAIN OutFile \cup {t} |->
                   IF u = t THEN tdata[t] ELSE OutFile[u]]
  /\ tdata' = [u \in DOMAIN tdata \ {t} |-> tdata[u]]
  /\ UNCHANGED <<programVars, numThreads, mlog, KnobDoWriteToOutputFile, buf, queue,
                 ofile, fileLock>>

(***************************************************************************)
(* The application exits with its last thread.                             *)
(***************************************************************************)
Fini ==
  /\ numThreads > 0
  /\ ~exited
  /\ \A t \in THREADIDs : phase[t] \in {"outside", "over"}
  /\ fileLock = 0
  /\ exited' = TRUE
  /\ UNCHANGED <<phase, blocks, todo, ending, OtherTools, buf, queue, ofile, fileLock>>

Exited == exited /\ UNCHANGED suiteVars

SuiteNext ==
  \/ \E t \in THREADIDs :
       \/ ThreadStart(t)
       \/ \E bbl \in Blocks : EnterBlock(t, bbl)
       \/ Execute(t)
       \/ GetFileLock(t) \/ WriteRecord(t) \/ ReleaseFileLock(t)
       \/ BufferFullWithoutEmit(t)
       \/ EndThread(t)
       \/ ThreadFini(t)
  \/ Fini
  \/ Exited

SuiteSpec == SuiteInit /\ [][SuiteNext]_suiteVars

-----------------------------------------------------------------------------
(***************************************************************************)
(* The instructions a thread has executed, and the addresses they referred *)
(* to as each of the buffer tools sees them.                               *)
(***************************************************************************)
Executed(t) ==
  LET entered == FlattenSeq(blocks[t])
  IN  SubSeq(entered, 1, Len(entered) - Len(todo[t]))

Referred(t, Refs(_)) ==
  FlattenSeq([i \in DOMAIN Executed(t) |-> Refs(Executed(t)[i])])

LinesOf(t) ==
  FlattenSeq([i \in DOMAIN ofile |->
                IF ofile[i].tid = t THEN <<ofile[i].ea>> ELSE <<>>])

(***************************************************************************)
(* The lock is held by the one thread that writes; a thread that executes  *)
(* has room in its buffers and nothing waiting for room.                   *)
(***************************************************************************)
SuiteTypeOK ==
  /\ phase \in [THREADIDs -> {"outside", "app", "full", "write", "ended", "over"}]
  /\ fileLock = Cardinality({t \in THREADIDs : phase[t] = "write"})
  /\ DOMAIN tdata = {t \in THREADIDs : phase[t] \notin {"outside", "over"}}
  /\ \A t \in THREADIDs :
       /\ Len(mlog[t].buffer) < BufferSize
       /\ Len(buf[t]) <= BufferSize
       /\ phase[t] = "app" => Len(buf[t]) < BufferSize /\ queue[t] = <<>>

(***************************************************************************)
(* No record is lost, doubled, reordered or written for another thread, by *)
(* either tool: what is in the file and what waits in the buffer are all   *)
(* the thread has referred to.                                             *)
(***************************************************************************)
FilesAndBuffersComplete ==
  \A t \in THREADIDs :
    /\ mlog[t].file \o Printed(mlog[t].buffer) = Printed(Referred(t, StandardMEMREFs))
    /\ KnobDoWriteToOutputFile =>
         LinesOf(t) \o Printed(buf[t]) \o Printed(queue[t]) = Printed(Referred(t, MEMREFs))

(***************************************************************************)
(* When the application is over, the files hold everything and every       *)
(* thread's count is printed, that of the instructions it executed.        *)
(***************************************************************************)
CompleteAtExit ==
  /\ \A t \in DOMAIN tdata : tdata[t] = Len(Executed(t)) + Len(todo[t])
  /\ exited =>
       /\ numThreads = Cardinality(DOMAIN OutFile)
       /\ \A t \in DOMAIN OutFile : OutFile[t] = Len(Executed(t))
       /\ \A t \in THREADIDs : mlog[t].file = Printed(Referred(t, StandardMEMREFs))
       /\ KnobDoWriteToOutputFile =>
            \A t \in THREADIDs : LinesOf(t) = Printed(Referred(t, MEMREFs))

(***************************************************************************)
(* The records of a buffer are written in one go: a thread that writes is  *)
(* not interrupted by the lines of another.                                *)
(***************************************************************************)
DumpsUnbroken ==
  [][\A t \in THREADIDs :
       phase[t] = "write" /\ ofile' # ofile => ofile'[Len(ofile')].tid = t]_suiteVars

=============================================================================
