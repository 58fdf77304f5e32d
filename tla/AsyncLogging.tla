---------------------------- MODULE AsyncLogging ----------------------------
(***************************************************************************)
(* AsyncLogging (src/src/base/AsyncLogging.cpp): front ends append lines   *)
(* under the mutex, one logging thread collects the full buffers and writes*)
(* them to the file.  Buffers have an identity, so that the hand-over and  *)
(* the recycling of shared_ptrs can be checked; NoBuffer is a null pointer.*)
(*                                                                         *)
(* A line takes one of the BufferSize places of a buffer; the memory of a  *)
(* buffer nobody holds counts as empty, as a new one is.  notify() is lost *)
(* unless the logging thread is waiting; its timed wait may end without.   *)
(* The file is what fwrite took; onDisk counts the lines an fflush has     *)
(* pushed out for certain.  Both may fail, MaxFailures times; a line that  *)
(* is cut by a failure counts as lost.                                     *)
(***************************************************************************)
EXTENDS Integers, Sequences, FiniteSets

SX == INSTANCE SequencesExt

CONSTANTS Buffer,       \* the memory: enough for all buffers the lines can fill
          NoBuffer,
          BufferSize,   \* lines in a buffer (kLargeBuffer)
          MaxBacklog,   \* buffers collected before some are dropped (25)
          FlushEveryN,  \* LogFile's flushEveryN_
          MaxLines,     \* bound on the lines appended
          MaxFailures   \* bound on the failures of fwrite and fflush

ASSUME AsyncLoggingAssumption ==
  /\ NoBuffer \notin Buffer
  /\ IsFiniteSet(Buffer) /\ Cardinality(Buffer) >= MaxLines + 5
  /\ BufferSize \in Nat \ {0}
  /\ MaxBacklog \in Nat /\ MaxBacklog >= 2
  /\ FlushEveryN \in Nat \ {0}
  /\ MaxLines \in Nat
  /\ MaxFailures \in Nat

VARIABLES
  owner,                    \* the thread that calls start() and stop()
  running, latch,           \* running_, latch_
  currentBuffer, nextBuffer, buffers,   \* the front end's buffers
  pc,                       \* where threadFunc is
  signal,                   \* the waiting thread has been notified
  newBuffer1, newBuffer2, buffersToWrite,  \* the logging thread's buffers
  written,                  \* buffers of buffersToWrite already written
  content,                  \* the lines in each buffer
  count, file, onDisk,      \* LogFile
  appended, dropped,        \* history: lines appended, lines given up
  failures                  \* of fwrite and fflush so far

frontVars == <<currentBuffer, nextBuffer, buffers>>
backVars == <<newBuffer1, newBuffer2, buffersToWrite, written>>
fileVars == <<count, file, onDisk>>
historyVars == <<appended, dropped, failures>>
vars == <<owner, running, latch, frontVars, pc, signal, backVars, content,
          fileVars, historyVars>>

InSeq(b, s) == \E i \in 1..Len(s) : s[i] = b

\* The buffers some shared_ptr still holds; the others are free memory.
Held ==
  {b \in Buffer : \/ b \in {currentBuffer, nextBuffer, newBuffer1, newBuffer2}
                  \/ InSeq(b, buffers)
                  \/ InSeq(b, buffersToWrite)}

\* What new returns: some buffer nobody holds.
New(held) == CHOOSE b \in Buffer : b \notin held

\* cond_.notify().
Notify == signal' = (signal \/ pc = "waiting")

\* The constructor, up to the start() that follows it.
Init ==
  /\ owner = "new" /\ running = FALSE /\ latch = 1
  /\ currentBuffer = New({})
  /\ nextBuffer = New({currentBuffer})
  /\ buffers = <<>>
  /\ pc = "unborn" /\ signal = FALSE
  /\ newBuffer1 = NoBuffer /\ newBuffer2 = NoBuffer
  /\ buffersToWrite = <<>> /\ written = 0
  /\ content = [b \in Buffer |-> <<>>]
  /\ count = 0 /\ file = <<>> /\ onDisk = 0
  /\ appended = 0 /\ dropped = {} /\ failures = 0

-----------------------------------------------------------------------------
(* The owner: start(), then stop().                                        *)

Start ==
  /\ owner = "new"
  /\ owner' = "starting"
  /\ running' = TRUE
  /\ pc' = "born"
  /\ UNCHANGED <<latch, signal, frontVars, backVars, content, fileVars, historyVars>>

StartReturns ==
  /\ owner = "starting"
  /\ latch = 0
  /\ owner' = "up"
  /\ UNCHANGED <<running, latch, frontVars, pc, signal, backVars, content, fileVars,
                 historyVars>>

\* stop(): running_ is written without the mutex.
Stop ==
  /\ owner = "up"
  /\ owner' = "stopping"
  /\ running' = FALSE
  /\ UNCHANGED <<latch, frontVars, pc, signal, backVars, content, fileVars,
                 historyVars>>

StopNotifies ==
  /\ owner = "stopping"
  /\ owner' = "joining"
  /\ Notify
  /\ UNCHANGED <<running, latch, frontVars, pc, backVars, content, fileVars,
                 historyVars>>

Joined ==
  /\ owner = "joining"
  /\ pc = "exited"
  /\ owner' = "joined"
  /\ UNCHANGED <<running, latch, frontVars, pc, signal, backVars, content, fileVars,
                 historyVars>>

-----------------------------------------------------------------------------
(* The front ends.                                                         *)

Line == appended + 1

CanAppend ==
  /\ owner \in {"up", "stopping", "joining"}
  /\ appended < MaxLines
  /\ appended' = appended + 1
  /\ UNCHANGED <<owner, running, latch, pc, backVars, fileVars, dropped, failures>>

\* append(): there is room.
AppendToCurrent ==
  /\ CanAppend
  /\ Len(content[currentBuffer]) < BufferSize
  /\ content' = [content EXCEPT ![currentBuffer] = Append(@, Line)]
  /\ UNCHANGED <<frontVars, signal>>

\* append(): the full buffer is handed over; the spare one, or a new one,
\* takes its place.
AppendToFresh ==
  /\ CanAppend
  /\ Len(content[currentBuffer]) >= BufferSize
  /\ buffers' = Append(buffers, currentBuffer)
  /\ currentBuffer' = IF nextBuffer # NoBuffer THEN nextBuffer ELSE New(Held)
  /\ nextBuffer' = NoBuffer
  /\ content' = [content EXCEPT ![currentBuffer'] = Append(@, Line)]
  /\ Notify

-----------------------------------------------------------------------------
(* LogFile and AppendFile.                                                 *)

Elements(s) == {s[i] : i \in 1..Len(s)}

Failed(n) == failures + n <= MaxFailures /\ failures' = failures + n

\* fflush of a file f: all of it is on disk, or a part, and stdio keeps or
\* forgets the rest.  Nobody looks at its result; cut are the lines the fwrite
\* before it did not take.
Flush(f, cut) ==
  \E d \in onDisk..Len(f), kept \in BOOLEAN :
    /\ onDisk' = d
    /\ file' = IF kept THEN f ELSE SubSeq(f, 1, d)
    /\ Failed((IF cut = {} THEN 0 ELSE 1) + (IF d = Len(f) THEN 0 ELSE 1))
    /\ dropped' = dropped \cup cut \cup (Elements(f) \ Elements(file'))

\* Mutant of AppendBlock: a second write starts at the front of the block again.
AppendBlockAnew(block) ==
  \E k \in 0..Len(block) :
    /\ Flush(file \o SubSeq(block, 1, k) \o block, {})
    /\ count' = 0

\* AppendFile::append tries again until a write brings nothing, and then gives
\* up the rest: how many lines of the block get into stdio's buffer.
Written(block) == 0..Len(block)

\* LogFile::append.
AppendBlock(block) ==
  \E k \in Written(block) :
    LET f == file \o SubSeq(block, 1, k)
        cut == Elements(SubSeq(block, k + 1, Len(block)))
    IN IF count + 1 >= FlushEveryN
       THEN count' = 0 /\ Flush(f, cut)
       ELSE /\ count' = count + 1
            /\ file' = f
            /\ Failed(IF cut = {} THEN 0 ELSE 1)
            /\ dropped' = dropped \cup cut
            /\ UNCHANGED onDisk

-----------------------------------------------------------------------------
(* The logging thread.                                                     *)

\* threadFunc before its loop.
Begin ==
  /\ pc = "born"
  /\ pc' = "loop"
  /\ latch' = 0
  /\ newBuffer1' = New(Held)
  /\ newBuffer2' = New(Held \cup {newBuffer1'})
  /\ UNCHANGED <<owner, running, frontVars, signal, buffersToWrite, written,
                 content, fileVars, historyVars>>

\* The test of running_, and the flush behind the loop.
CheckRunning ==
  /\ pc = "loop"
  /\ pc' = IF running THEN "lock" ELSE "exited"
  /\ IF running THEN UNCHANGED <<file, onDisk, dropped, failures>> ELSE Flush(file, {})
  /\ UNCHANGED <<owner, running, latch, frontVars, signal, backVars, content,
                 count, appended>>

Wait ==
  /\ pc = "lock"
  /\ buffers = <<>>
  /\ pc' = "waiting"
  /\ UNCHANGED <<owner, running, latch, frontVars, signal, backVars, content, fileVars,
                 historyVars>>

\* Mutant of WaitOver: wait() in place of waitForSeconds().
WaitOverIfNotified == pc = "waiting" /\ signal

\* waitForSeconds has returned: it may do so whether or not it was notified.
WaitOver == pc = "waiting"

\* Mutant of Collected: an empty current buffer is left out.
CollectedNonEmpty ==
  IF content[currentBuffer] = <<>> THEN buffers ELSE Append(buffers, currentBuffer)

\* The buffers swapped out: the full ones, then the current one, full or not.
Collected == Append(buffers, currentBuffer)

\* The rest of the critical section.
Collect ==
  /\ WaitOver \/ (pc = "lock" /\ buffers # <<>>)
  /\ pc' = "collected"
  /\ signal' = FALSE
  /\ buffersToWrite' = Collected
  /\ buffers' = <<>>
  /\ currentBuffer' = newBuffer1
  /\ newBuffer1' = NoBuffer
  /\ nextBuffer' = IF nextBuffer = NoBuffer THEN newBuffer2 ELSE nextBuffer
  /\ newBuffer2' = IF nextBuffer = NoBuffer THEN NoBuffer ELSE newBuffer2
  /\ UNCHANGED <<owner, running, latch, written, content, fileVars, historyVars>>

LinesOf(bs) == UNION {Elements(content[bs[i]]) : i \in 1..Len(bs)}

\* The memory of these buffers is reset or freed.
Emptied(bs) == [b \in Buffer |-> IF InSeq(b, bs) THEN <<>> ELSE content[b]]

\* How many of the collected buffers are kept.
Kept == IF Len(buffersToWrite) > MaxBacklog THEN 2 ELSE Len(buffersToWrite)

DropExcess ==
  /\ pc = "collected"
  /\ pc' = "write"
  /\ buffersToWrite' = SubSeq(buffersToWrite, 1, Kept)
  /\ LET excess == SubSeq(buffersToWrite, Kept + 1, Len(buffersToWrite))
     IN /\ dropped' = dropped \cup LinesOf(excess)
        /\ content' = Emptied(excess)
  /\ UNCHANGED <<owner, running, latch, frontVars, signal, newBuffer1, newBuffer2,
                 written, fileVars, appended, failures>>

WriteBuffer ==
  /\ pc = "write"
  /\ written < Len(buffersToWrite)
  /\ written' = written + 1
  /\ AppendBlock(content[buffersToWrite[written + 1]])
  /\ UNCHANGED <<owner, running, latch, frontVars, pc, signal, newBuffer1,
                 newBuffer2, buffersToWrite, content, appended>>

\* What is left in buffersToWrite by resize(2).
AfterResize == IF Len(buffersToWrite) > 2 THEN 2 ELSE Len(buffersToWrite)

\* Mutant of AfterFirst: the pop_back after taking newBuffer1 is forgotten.
AfterFirstKept == AfterResize

\* What is then left of it once newBuffer1 is taken.
AfterFirst == IF newBuffer1 = NoBuffer THEN AfterResize - 1 ELSE AfterResize

\* newBuffer1 and newBuffer2 are refilled from the back.
TakeSpares ==
  /\ newBuffer1' = IF newBuffer1 = NoBuffer THEN buffersToWrite[AfterResize]
                                            ELSE newBuffer1
  /\ newBuffer2' = IF newBuffer2 = NoBuffer THEN buffersToWrite[AfterFirst]
                                            ELSE newBuffer2

\* Mutant of Recycle: the count of written buffers is not reset.
RecycleCounting ==
  /\ pc = "write"
  /\ written = Len(buffersToWrite)
  /\ pc' = "loop"
  /\ TakeSpares
  /\ content' = Emptied(buffersToWrite)
  /\ buffersToWrite' = <<>>
  /\ Flush(file, {})
  /\ UNCHANGED <<owner, running, latch, frontVars, signal, written, count,
                 appended>>

\* The spares are reset, the other buffers freed, the file flushed.
Recycle ==
  /\ pc = "write"
  /\ written = Len(buffersToWrite)
  /\ pc' = "loop"
  /\ TakeSpares
  /\ content' = Emptied(buffersToWrite)
  /\ buffersToWrite' = <<>>
  /\ written' = 0
  /\ Flush(file, {})
  /\ UNCHANGED <<owner, running, latch, frontVars, signal, count, appended>>

Backend ==
  Begin \/ CheckRunning \/ Wait \/ Collect \/ DropExcess \/ WriteBuffer \/ Recycle

Owner == Start \/ StartReturns \/ Stop \/ StopNotifies \/ Joined

Next == Owner \/ AppendToCurrent \/ AppendToFresh \/ Backend

SafeSpec == Init /\ [][Next]_vars

\* The logging thread is scheduled and its timed wait ends; a stop() that has
\* begun goes on.
Spec == SafeSpec /\ WF_vars(Backend) /\ WF_vars(StopNotifies \/ Joined)

-----------------------------------------------------------------------------
(* Properties.                                                             *)

Pointer == Buffer \cup {NoBuffer}

\* The shape of the state.
TypeOK ==
  /\ owner \in {"new", "starting", "up", "stopping", "joining", "joined"}
  /\ running \in BOOLEAN
  /\ latch \in {0, 1}
  /\ currentBuffer \in Buffer
  /\ nextBuffer \in Pointer
  /\ buffers \in Seq(Buffer)
  /\ pc \in {"unborn", "born", "loop", "lock", "waiting", "collected", "write",
             "exited"}
  /\ signal \in BOOLEAN
  /\ newBuffer1 \in Pointer
  /\ newBuffer2 \in Pointer
  /\ buffersToWrite \in Seq(Buffer)
  /\ written \in 0..Len(buffersToWrite)
  /\ content \in [Buffer -> Seq(Nat)]
  /\ count \in 0..(FlushEveryN - 1)
  /\ file \in Seq(Nat)
  /\ onDisk \in 0..Len(file)
  /\ appended \in Nat
  /\ dropped \subseteq Nat
  /\ failures \in 0..MaxFailures

\* The asserts of threadFunc hold (AsyncLogging.cpp:68, 95, 119, 126): the
\* spares are there and empty at the head of the loop, something has always
\* been collected, and there is a buffer to take back for each spare handed
\* over.
BackendAsserts ==
  /\ pc = "loop" => /\ newBuffer1 # NoBuffer /\ content[newBuffer1] = <<>>
                    /\ newBuffer2 # NoBuffer /\ content[newBuffer2] = <<>>
                    /\ buffersToWrite = <<>>
  /\ pc = "collected" => buffersToWrite # <<>>
  /\ pc = "write" => /\ newBuffer1 = NoBuffer => AfterResize >= 1
                     /\ newBuffer2 = NoBuffer => AfterFirst >= 1

\* The shared_ptrs of both sides in one sequence.
Pointers ==
  <<currentBuffer, nextBuffer, newBuffer1, newBuffer2>> \o buffers \o buffersToWrite

\* A buffer has one holder: what a front end writes to under the mutex is
\* never a buffer the logging thread writes out or resets without it
\* (AsyncLogging.cpp:107-130).
NoSharing ==
  \A i, j \in 1..Len(Pointers) :
    i # j /\ Pointers[i] = Pointers[j] => Pointers[i] = NoBuffer

\* The contents of some buffers, one after the other.
Lines(bs) == SX!FlattenSeq([i \in 1..Len(bs) |-> content[bs[i]]])

\* What is appended and not yet on disk, oldest first, and what is on disk.
Waiting ==
  SubSeq(file, onDisk + 1, Len(file))
    \o Lines(SubSeq(buffersToWrite, written + 1, Len(buffersToWrite)))
    \o Lines(buffers) \o content[currentBuffer]

Disk == SubSeq(file, 1, onDisk)

Open == owner \in {"new", "starting", "up"}

Pipe == INSTANCE LogPipe WITH
  Line <- 1..MaxLines, waiting <- Waiting, disk <- Disk, dropped <- dropped, open <- Open

\* Across the swaps, the spares, the drops, the recycling and the failures of the
\* file (FileUtil.cpp:34), the lines of all threads reach the disk in the order
\* of append(), once; what stop() leaves behind (AsyncLogging.cpp:67) is the last.
Pipeline == Pipe!Spec

\* While the logger is open, an appended line is flushed to disk or given up,
\* with the backlog it is in or in a failure of the file; it is not left in a
\* buffer, nor in stdio's after an fflush that failed.
LinesReachDisk ==
  \A l \in 1..MaxLines :
    (appended >= l) ~> \/ l \in Elements(Disk)
                       \/ l \in dropped
                       \/ owner # "up"

\* stop() returns, wherever its unlocked store and its notify fall.
StopReturns == (owner = "stopping") ~> (owner = "joined")
=============================================================================
