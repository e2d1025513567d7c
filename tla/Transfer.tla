------------------------------ MODULE Transfer ------------------------------
(***************************************************************************)
(* The multi-stream file transfer of src/transfer/sender.rs and            *)
(* receiver.rs.  One sender and one receiver share NumStreams punched TCP  *)
(* streams; the sender's workers take block numbers from one queue, send   *)
(* each block on their own stream and wait there for its acknowledgement;  *)
(* the receiver's workers check a block, write it and acknowledge it.      *)
(* When every block is acknowledged the sender keeps one stream, says DONE *)
(* on it, and waits for the receiver's last word: the checksum over the    *)
(* whole file matched.                                                     *)
(*                                                                         *)
(* A stream is two FIFO channels.  The network may break it (Break), which *)
(* loses what has not been delivered; each side finds out on its own, when *)
(* a read or a write of its own fails.  A stream also looks dead to one    *)
(* side when the other has dropped its socket.                             *)
(*                                                                         *)
(* Abstracted: the payload (a block is its number; a damaged payload is    *)
(* one whose CRC32 differs, which the CRC always detects), byte counters   *)
(* and progress, the length and offset of a block, errors of the local     *)
(* file system.                                                            *)
(***************************************************************************)
EXTENDS Integers, Sequences, FiniteSets, FiniteSetsExt

CONSTANTS
  NumStreams,   \* punched connections, counted over both sides
  NumBlocks,    \* total_chunks; 0 for an empty file
  MaxBreaks,    \* bound: streams the network may break
  MaxDamages,   \* bound: payloads that arrive damaged
  MaxTimeouts   \* bound: reads or writes that time out on a working stream

ASSUME TransferAssumption ==
  /\ NumStreams \in Nat \ {0}
  /\ NumBlocks \in Nat
  /\ MaxBreaks \in Nat /\ MaxDamages \in Nat /\ MaxTimeouts \in Nat

Streams == 1 .. NumStreams
Blocks == 0 .. NumBlocks - 1
NoBlock == -1
NoStream == 0

VARIABLES
  \* the sender
  sPc,         \* where run_multi_sender stands
  sAt,         \* the stream its handshake or setup is working on
  sOpen,       \* the streams whose socket the sender still holds
  sW,          \* what its worker for each stream is doing
  hand,        \* the block a sender_worker has popped and not settled
  pending,     \* the queue of blocks to send
  completed,   \* completed_chunks
  doneStream,  \* the stream kept for DONE and the last acknowledgement
  \* the receiver
  rPc, rAt, rOpen, rW,
  job,         \* the block a receiver_worker is working on
  woken,       \* done_notify has reached a worker registered for it
  doneReceived,
  doneCameOn,  \* the stream DONE arrived on (history)
  received,    \* the blocks whose received_flags entry is set
  count,       \* received_count
  ackStream,   \* the stream the last acknowledgement was written to (history)
  \* the temporary file
  cache,       \* a write the runtime has accepted and not yet carried out
  disk,        \* the blocks whose bytes are in the file
  \* the network
  toR, toS,    \* per stream, what travels to the receiver, to the sender
  up,          \* the streams the network has not broken
  breaks, damages, timeouts

sMain == <<sPc, sAt, sOpen, doneStream>>
sQueue == <<hand, pending, completed>>
sVars == <<sMain, sW, sQueue>>
rMain == <<rPc, rAt, rOpen, ackStream>>
rWork == <<job, woken>>
rMarks == <<doneReceived, doneCameOn, received, count>>
rVars == <<rMain, rW, rWork, rMarks>>
fVars == <<cache, disk>>
budget == <<up, breaks, damages, timeouts>>
nVars == <<toR, toS, budget>>
vars == <<sVars, rVars, fVars, nVars>>

----------------------------------------------------------------------------
PlainTypes == {"hello", "fileinfo", "fileinfoack", "streaminfo", "streaminfoack",
               "done", "ack"}
BlockTypes == {"chunk", "chunkack", "chunknack"}

Msg == [type : PlainTypes, block : {NoBlock}] \cup [type : BlockTypes, block : Blocks]

Plain(t) == [type |-> t, block |-> NoBlock]
About(t, b) == [type |-> t, block |-> b]

SenderPcs == {"start", "hello", "fileinfo", "streaminfo", "infoack", "run",
              "done", "finalack", "ok", "err"}
ReceiverPcs == {"hello", "fileinfo", "streaminfo", "run", "verify", "ack",
                "ok", "err"}
\* "none": not one of this side's usable streams.  "ready": set up, not spawned.
SWorkerStates == {"none", "ready", "idle", "send", "await", "ok", "failed"}
RWorkerStates == {"none", "ready", "top", "gap", "read", "store", "mark",
                  "sendack", "sendnack", "ok", "failed"}

TypeOK ==
  /\ sPc \in SenderPcs
  /\ sAt \in Streams
  /\ sOpen \subseteq Streams
  /\ sW \in [Streams -> SWorkerStates]
  /\ hand \in [Streams -> Blocks \cup {NoBlock}]
  /\ pending \in Seq(Blocks)
  /\ completed \in Nat
  /\ doneStream \in Streams \cup {NoStream}
  /\ rPc \in ReceiverPcs
  /\ rAt \in Streams
  /\ rOpen \subseteq Streams
  /\ rW \in [Streams -> RWorkerStates]
  /\ job \in [Streams -> Blocks \cup {NoBlock}]
  /\ woken \in [Streams -> BOOLEAN]
  /\ doneReceived \in BOOLEAN
  /\ doneCameOn \in Streams \cup {NoStream}
  /\ received \subseteq Blocks
  /\ count \in Nat
  /\ ackStream \in Streams \cup {NoStream}
  /\ cache \in [Streams -> Blocks \cup {NoBlock}]
  /\ disk \subseteq Blocks
  /\ toR \in [Streams -> Seq(Msg)]
  /\ toS \in [Streams -> Seq(Msg)]
  /\ up \subseteq Streams
  /\ breaks \in Nat /\ damages \in Nat /\ timeouts \in Nat

\* The two sides may hold different sets of punched connections: one side may
\* have seen a punch succeed that the other gave up.
Init ==
  /\ sOpen \in (SUBSET Streams) \ {{}}
  /\ rOpen \in (SUBSET Streams) \ {{}}
  /\ sPc = "start" /\ sAt = Min(sOpen)
  /\ rPc = "hello" /\ rAt = Min(rOpen)
  /\ sW = [s \in Streams |-> "none"]
  /\ rW = [s \in Streams |-> "none"]
  /\ hand = [s \in Streams |-> NoBlock]
  /\ pending = [i \in 1 .. NumBlocks |-> i - 1]
  /\ completed = 0
  /\ doneStream = NoStream
  /\ job = [s \in Streams |-> NoBlock]
  /\ woken = [s \in Streams |-> FALSE]
  /\ doneReceived = FALSE
  /\ doneCameOn = NoStream
  /\ received = {}
  /\ count = 0
  /\ ackStream = NoStream
  /\ cache = [s \in Streams |-> NoBlock]
  /\ disk = {}
  /\ toR = [s \in Streams |-> <<>>]
  /\ toS = [s \in Streams |-> <<>>]
  /\ up = Streams
  /\ breaks = 0 /\ damages = 0 /\ timeouts = 0

----------------------------------------------------------------------------
(* Reading and writing a stream.  A write succeeds as soon as the local    *)
(* socket has taken the bytes, so it may succeed on a stream that is dead  *)
(* and deliver nothing; it may also fail there.  A read fails when nothing *)
(* is buffered and the stream is dead, or when its time limit passes.      *)

Dead(s, peerOpen) == s \notin up \/ s \notin peerOpen

Put(channel, s, peerOpen, m) ==
  IF Dead(s, peerOpen) THEN channel ELSE [channel EXCEPT ![s] = Append(@, m)]

Get(channel, s) == [channel EXCEPT ![s] = Tail(@)]

Holds(channel, s, t) == channel[s] # <<>> /\ Head(channel[s]).type = t

TimesOut == timeouts < MaxTimeouts /\ timeouts' = timeouts + 1

WriteFails(s, peerOpen) ==
  \/ Dead(s, peerOpen) /\ UNCHANGED timeouts
  \/ TimesOut

ReadFails(channel, s, peerOpen) ==
  /\ channel[s] = <<>>
  /\ WriteFails(s, peerOpen)

Ended(worker) == \A s \in Streams : worker[s] \in {"none", "ok", "failed"}

After(s, held) == {t \in held : t > s}

----------------------------------------------------------------------------
(* The sender's setup: handshake and FILE_INFO on its first stream, then   *)
(* STREAM_INFO on every stream in turn.                                    *)

SAbort ==
  /\ sPc' = "err"
  /\ sOpen' = {}

\* Workers are spawned once the last stream has been set up.
SSpawn(worker) ==
  [s \in Streams |-> IF worker[s] = "ready" THEN "idle" ELSE worker[s]]

SNextStream(worker) ==
  IF After(sAt, sOpen) = {}
  THEN /\ sPc' = "run" /\ sW' = SSpawn(worker)
       /\ UNCHANGED sAt
  ELSE /\ sPc' = "streaminfo" /\ sW' = worker
       /\ sAt' = Min(After(sAt, sOpen))

SHello ==
  /\ sPc = "start"
  /\ toR' = Put(toR, sAt, rOpen, Plain("hello"))
  /\ sPc' = "hello"
  /\ UNCHANGED <<sAt, sOpen, sW, sQueue, doneStream, rVars, fVars, toS, budget>>

SFileInfo ==
  /\ sPc = "hello"
  /\ Holds(toS, sAt, "hello")
  /\ toS' = Get(toS, sAt)
  /\ toR' = Put(toR, sAt, rOpen, Plain("fileinfo"))
  /\ sPc' = "fileinfo"
  /\ UNCHANGED <<sAt, sOpen, sW, sQueue, doneStream, rVars, fVars, budget>>

SFileInfoAck ==
  /\ sPc = "fileinfo"
  /\ Holds(toS, sAt, "fileinfoack")
  /\ toS' = Get(toS, sAt)
  /\ sPc' = "streaminfo"
  /\ UNCHANGED <<sAt, sOpen, sW, sQueue, doneStream, rVars, fVars, toR, budget>>

SHandshakeFail ==
  /\ \/ sPc = "start" /\ WriteFails(sAt, rOpen)
     \/ sPc = "hello" /\ Holds(toS, sAt, "hello") /\ WriteFails(sAt, rOpen)
     \/ sPc \in {"hello", "fileinfo"} /\ ReadFails(toS, sAt, rOpen)
  /\ SAbort
  /\ UNCHANGED <<sAt, sW, sQueue, doneStream, rVars, fVars, toR, toS, up,
                 breaks, damages>>

SStreamInfo ==
  /\ sPc = "streaminfo"
  /\ toR' = Put(toR, sAt, rOpen, Plain("streaminfo"))
  /\ sPc' = "infoack"
  /\ UNCHANGED <<sAt, sOpen, sW, sQueue, doneStream, rVars, fVars, toS, budget>>

SStreamInfoAck ==
  /\ sPc = "infoack"
  /\ Holds(toS, sAt, "streaminfoack")
  /\ toS' = Get(toS, sAt)
  /\ SNextStream([sW EXCEPT ![sAt] = "ready"])
  /\ UNCHANGED <<sOpen, sQueue, doneStream, rVars, fVars, toR, budget>>

\* The first stream must come up; any other is dropped on its own.
SStreamInfoFail ==
  /\ \/ sPc = "streaminfo" /\ WriteFails(sAt, rOpen)
     \/ sPc = "infoack" /\ ReadFails(toS, sAt, rOpen)
  /\ IF \A s \in Streams : sW[s] = "none"
     THEN SAbort /\ UNCHANGED <<sAt, sW>>
     ELSE SNextStream(sW) /\ sOpen' = sOpen \ {sAt}
  /\ UNCHANGED <<sQueue, doneStream, rVars, fVars, toR, toS, up, breaks,
                 damages>>

----------------------------------------------------------------------------
(* sender_worker: one per usable stream.                                   *)

STake(s) ==
  /\ sW[s] = "idle"
  /\ pending # <<>>
  /\ hand' = [hand EXCEPT ![s] = Head(pending)]
  /\ pending' = Tail(pending)
  /\ sW' = [sW EXCEPT ![s] = "send"]
  /\ UNCHANGED <<sMain, completed, rVars, fVars, nVars>>

\* The queue is empty and blocks are still out: wait at most 200 ms, look again.
SPoll(s) ==
  /\ sW[s] = "idle"
  /\ pending = <<>> /\ completed < NumBlocks
  /\ UNCHANGED vars

SFinish(s) ==
  /\ sW[s] = "idle"
  /\ pending = <<>> /\ completed >= NumBlocks
  /\ sW' = [sW EXCEPT ![s] = "ok"]
  /\ UNCHANGED <<sMain, sQueue, rVars, fVars, nVars>>

SSend(s) ==
  /\ sW[s] = "send"
  /\ toR' = Put(toR, s, rOpen, About("chunk", hand[s]))
  /\ sW' = [sW EXCEPT ![s] = "await"]
  /\ UNCHANGED <<sMain, sQueue, rVars, fVars, toS, budget>>

\* The write fails: the worker ends with the block still in its hand.
SSendFail(s) ==
  /\ sW[s] = "send"
  /\ WriteFails(s, rOpen)
  /\ sW' = [sW EXCEPT ![s] = "failed"]
  /\ sOpen' = sOpen \ {s}
  /\ UNCHANGED <<sPc, sAt, sQueue, doneStream, rVars, fVars, toR, toS, up,
                 breaks, damages>>

\* A reply settles what the worker does with the block in its hand.
SReply(s, type) ==
  /\ sW[s] = "await"
  /\ Holds(toS, s, type)
  /\ toS' = Get(toS, s)
  /\ hand' = [hand EXCEPT ![s] = NoBlock]
  /\ sW' = [sW EXCEPT ![s] = "idle"]
  /\ UNCHANGED <<sMain, rVars, fVars, toR, budget>>

SAck(s) ==
  SReply(s, "chunkack") /\ completed' = completed + 1 /\ UNCHANGED pending

\* Mutants: the reply's flag is not looked at; the block is not put back; the
\* hand is cleared before the block is put back.
SNackCounts(s) ==
  SReply(s, "chunknack") /\ completed' = completed + 1 /\ UNCHANGED pending
SNackForgets(s) ==
  SReply(s, "chunknack") /\ UNCHANGED <<pending, completed>>
SNackClearsFirst(s) ==
  SReply(s, "chunknack") /\ pending' = Append(pending, hand'[s]) /\ UNCHANGED completed

SNack(s) ==
  SReply(s, "chunknack") /\ pending' = Append(pending, hand[s]) /\ UNCHANGED completed

\* No acknowledgement: the block goes back to the queue, the worker ends.
SAckFail(s) ==
  /\ sW[s] = "await"
  /\ ReadFails(toS, s, rOpen)
  /\ pending' = Append(pending, hand[s])
  /\ hand' = [hand EXCEPT ![s] = NoBlock]
  /\ sW' = [sW EXCEPT ![s] = "failed"]
  /\ sOpen' = sOpen \ {s}
  /\ UNCHANGED <<sPc, sAt, completed, doneStream, rVars, fVars, toR, toS, up,
                 breaks, damages>>

----------------------------------------------------------------------------
(* The end of run_multi_sender, once every worker has ended.               *)

SIncomplete ==
  /\ sPc = "run" /\ Ended(sW)
  /\ completed # NumBlocks \/ \A s \in Streams : sW[s] # "ok"
  /\ SAbort
  /\ UNCHANGED <<sAt, sW, sQueue, doneStream, rVars, fVars, nVars>>

\* Mutant: the streams that are not used for DONE stay open.
SCollectKeepsAll ==
  /\ sPc = "run" /\ Ended(sW)
  /\ completed = NumBlocks
  /\ \E s \in Streams : sW[s] = "ok"
  /\ doneStream' = Min({s \in Streams : sW[s] = "ok"})
  /\ sPc' = "done"
  /\ UNCHANGED <<sAt, sOpen, sW, sQueue, rVars, fVars, nVars>>

\* The first returned stream is kept; the others are dropped before DONE.
SCollect ==
  /\ sPc = "run" /\ Ended(sW)
  /\ completed = NumBlocks
  /\ \E s \in Streams : sW[s] = "ok"
  /\ doneStream' = Min({s \in Streams : sW[s] = "ok"})
  /\ sOpen' = {doneStream'}
  /\ sPc' = "done"
  /\ UNCHANGED <<sAt, sW, sQueue, rVars, fVars, nVars>>

SDone ==
  /\ sPc = "done"
  /\ toR' = Put(toR, doneStream, rOpen, Plain("done"))
  /\ sPc' = "finalack"
  /\ UNCHANGED <<sAt, sOpen, sW, sQueue, doneStream, rVars, fVars, toS, budget>>

SFinalAck ==
  /\ sPc = "finalack"
  /\ Holds(toS, doneStream, "ack")
  /\ toS' = Get(toS, doneStream)
  /\ sPc' = "ok"
  /\ sOpen' = {}
  /\ UNCHANGED <<sAt, sW, sQueue, doneStream, rVars, fVars, toR, budget>>

SFinalFail ==
  /\ \/ sPc = "done" /\ WriteFails(doneStream, rOpen)
     \/ sPc = "finalack" /\ ReadFails(toS, doneStream, rOpen)
  /\ SAbort
  /\ UNCHANGED <<sAt, sW, sQueue, doneStream, rVars, fVars, toR, toS, up,
                 breaks, damages>>

SMain ==
  \/ SHello \/ SFileInfo \/ SFileInfoAck \/ SHandshakeFail
  \/ SStreamInfo \/ SStreamInfoAck \/ SStreamInfoFail
  \/ SIncomplete \/ SCollect \/ SDone \/ SFinalAck \/ SFinalFail

SWorker(s) ==
  \/ STake(s) \/ SPoll(s) \/ SFinish(s) \/ SSend(s) \/ SSendFail(s)
  \/ SAck(s) \/ SNack(s) \/ SAckFail(s)

----------------------------------------------------------------------------
(* The receiver's setup, the mirror image.                                 *)

RAbort ==
  /\ rPc' = "err"
  /\ rOpen' = {}

RSpawn(worker) ==
  [s \in Streams |-> IF worker[s] = "ready" THEN "top" ELSE worker[s]]

RNextStream(worker) ==
  IF After(rAt, rOpen) = {}
  THEN /\ rPc' = "run" /\ rW' = RSpawn(worker)
       /\ UNCHANGED rAt
  ELSE /\ rPc' = "streaminfo" /\ rW' = worker
       /\ rAt' = Min(After(rAt, rOpen))

RHello ==
  /\ rPc = "hello"
  /\ Holds(toR, rAt, "hello")
  /\ toR' = Get(toR, rAt)
  /\ toS' = Put(toS, rAt, sOpen, Plain("hello"))
  /\ rPc' = "fileinfo"
  /\ UNCHANGED <<sVars, rAt, rOpen, rW, rWork, rMarks, ackStream, fVars,
                 budget>>

RFileInfo ==
  /\ rPc = "fileinfo"
  /\ Holds(toR, rAt, "fileinfo")
  /\ toR' = Get(toR, rAt)
  /\ toS' = Put(toS, rAt, sOpen, Plain("fileinfoack"))
  /\ rPc' = "streaminfo"
  /\ UNCHANGED <<sVars, rAt, rOpen, rW, rWork, rMarks, ackStream, fVars,
                 budget>>

RHandshakeFail ==
  /\ \/ rPc \in {"hello", "fileinfo"} /\ Holds(toR, rAt, rPc) /\ WriteFails(rAt, sOpen)
     \/ rPc \in {"hello", "fileinfo"} /\ ReadFails(toR, rAt, sOpen)
  /\ RAbort
  /\ UNCHANGED <<sVars, rAt, rW, rWork, rMarks, ackStream, fVars, toR, toS, up,
                 breaks, damages>>

RStreamInfo ==
  /\ rPc = "streaminfo"
  /\ Holds(toR, rAt, "streaminfo")
  /\ toR' = Get(toR, rAt)
  /\ toS' = Put(toS, rAt, sOpen, Plain("streaminfoack"))
  /\ RNextStream([rW EXCEPT ![rAt] = "ready"])
  /\ UNCHANGED <<sVars, rOpen, rWork, rMarks, ackStream, fVars, budget>>

\* recv_stream_info expected STREAM_INFO and found nothing, or could not answer.
RStreamInfoFail ==
  /\ rPc = "streaminfo"
  /\ \/ ReadFails(toR, rAt, sOpen)
     \/ Holds(toR, rAt, "streaminfo") /\ WriteFails(rAt, sOpen)
  /\ IF \A s \in Streams : rW[s] = "none"
     THEN RAbort /\ UNCHANGED <<rAt, rW>>
     ELSE RNextStream(rW) /\ rOpen' = rOpen \ {rAt}
  /\ UNCHANGED <<sVars, rWork, rMarks, ackStream, fVars, toR, toS, up, breaks,
                 damages>>

----------------------------------------------------------------------------
(* receiver_worker: one per usable stream.                                 *)

\* The head of the loop: done_received is looked at ...
RTop(s) ==
  /\ rW[s] = "top"
  /\ rW' = [rW EXCEPT ![s] = IF doneReceived THEN "ok" ELSE "gap"]
  /\ UNCHANGED <<sVars, rMain, rWork, rMarks, fVars, nVars>>

\* ... and only then does the worker register for done_notify and read.
RArm(s) ==
  /\ rW[s] = "gap"
  /\ rW' = [rW EXCEPT ![s] = "read"]
  /\ woken' = [woken EXCEPT ![s] = FALSE]
  /\ UNCHANGED <<sVars, rMain, job, rMarks, fVars, nVars>>

RNotified(s) ==
  /\ rW[s] = "read"
  /\ woken[s]
  /\ rW' = [rW EXCEPT ![s] = "ok"]
  /\ UNCHANGED <<sVars, rMain, rWork, rMarks, fVars, nVars>>

\* The read failed: harmless once DONE is known, else the stream is lost.
RReadFail(s) ==
  /\ rW[s] = "read"
  /\ ReadFails(toR, s, sOpen)
  /\ IF doneReceived
     THEN rW' = [rW EXCEPT ![s] = "ok"] /\ UNCHANGED rOpen
     ELSE rW' = [rW EXCEPT ![s] = "failed"] /\ rOpen' = rOpen \ {s}
  /\ UNCHANGED <<sVars, rPc, rAt, rWork, rMarks, ackStream, fVars, toR, toS, up,
                 breaks, damages>>

RChunk(s) ==
  /\ rW[s] = "read"
  /\ Holds(toR, s, "chunk")
  /\ toR' = Get(toR, s)
  /\ job' = [job EXCEPT ![s] = Head(toR[s]).block]
  /\ \/ rW' = [rW EXCEPT ![s] = "store"] /\ UNCHANGED damages
     \/ /\ damages < MaxDamages /\ damages' = damages + 1
        /\ rW' = [rW EXCEPT ![s] = "sendnack"]
  /\ UNCHANGED <<sVars, rMain, woken, rMarks, fVars, toS, up, breaks, timeouts>>

\* seek waits for the previous write of this file handle; write_all only hands
\* the bytes to the runtime.
RStore(s) ==
  /\ rW[s] = "store"
  /\ cache[s] = NoBlock
  /\ cache' = [cache EXCEPT ![s] = job[s]]
  /\ rW' = [rW EXCEPT ![s] = "mark"]
  /\ UNCHANGED <<sVars, rMain, rWork, rMarks, disk, nVars>>

\* Mutant: every arrival is counted.
RMarkCountsAll(s) ==
  /\ rW[s] = "mark"
  /\ count' = count + 1
  /\ received' = received \cup {job[s]}
  /\ rW' = [rW EXCEPT ![s] = "sendack"]
  /\ UNCHANGED <<sVars, rMain, rWork, doneReceived, doneCameOn, fVars, nVars>>

\* swap returns the old flag: a block that came twice is counted once.
RMark(s) ==
  /\ rW[s] = "mark"
  /\ count' = IF job[s] \in received THEN count ELSE count + 1
  /\ received' = received \cup {job[s]}
  /\ rW' = [rW EXCEPT ![s] = "sendack"]
  /\ UNCHANGED <<sVars, rMain, rWork, doneReceived, doneCameOn, fVars, nVars>>

RReply(s, state, type) ==
  /\ rW[s] = state
  /\ toS' = Put(toS, s, sOpen, About(type, job[s]))
  /\ job' = [job EXCEPT ![s] = NoBlock]
  /\ rW' = [rW EXCEPT ![s] = "top"]
  /\ UNCHANGED <<sVars, rMain, woken, rMarks, fVars, toR, budget>>

RSendAck(s) == RReply(s, "sendack", "chunkack")

\* Mutant: a damaged block is acknowledged.
RSendNackAsAck(s) == RReply(s, "sendnack", "chunkack")

RSendNack(s) == RReply(s, "sendnack", "chunknack")

RSendFail(s) ==
  /\ rW[s] \in {"sendack", "sendnack"}
  /\ WriteFails(s, sOpen)
  /\ job' = [job EXCEPT ![s] = NoBlock]
  /\ rW' = [rW EXCEPT ![s] = "failed"]
  /\ rOpen' = rOpen \ {s}
  /\ UNCHANGED <<sVars, rPc, rAt, woken, rMarks, ackStream, fVars, toR, toS, up,
                 breaks, damages>>

\* DONE: the flag is stored, and whoever is registered now is woken.
RDoneSeen(s) ==
  /\ rW[s] = "read"
  /\ Holds(toR, s, "done")
  /\ toR' = Get(toR, s)
  /\ doneReceived' = TRUE
  /\ doneCameOn' = s
  /\ woken' = [t \in Streams |-> woken[t] \/ rW[t] = "read"]
  /\ rW' = [rW EXCEPT ![s] = "ok"]
  /\ UNCHANGED <<sVars, rMain, job, received, count, fVars, budget>>

\* Mutant: DONE is acknowledged at once, before the checksum.
RDoneAcks(s) == RDoneSeen(s) /\ toS' = Put(toS, s, sOpen, Plain("ack"))

RDone(s) == RDoneSeen(s) /\ UNCHANGED toS

----------------------------------------------------------------------------
(* The end of run_multi_receiver, once every worker has ended.             *)

RCollect ==
  /\ rPc = "run" /\ Ended(rW)
  /\ IF count = NumBlocks
     THEN rPc' = "verify" /\ UNCHANGED rOpen
     ELSE RAbort
  /\ UNCHANGED <<sVars, rAt, rW, rWork, rMarks, ackStream, fVars, nVars>>

\* Mutant: the checksum is not compared.
RVerifyUnchecked ==
  /\ rPc = "verify"
  /\ rPc' = "ack"
  /\ UNCHANGED <<sVars, rAt, rOpen, rW, rWork, rMarks, ackStream, fVars, nVars>>

\* The checksum is over what is in the file now.
RVerify ==
  /\ rPc = "verify"
  /\ IF disk = Blocks
     THEN rPc' = "ack" /\ UNCHANGED rOpen
     ELSE RAbort
  /\ UNCHANGED <<sVars, rAt, rW, rWork, rMarks, ackStream, fVars, nVars>>

\* The first stream a worker returned carries the last acknowledgement.
RFinalAck ==
  /\ rPc = "ack"
  /\ \E s \in Streams : rW[s] = "ok"
  /\ ackStream' = Min({s \in Streams : rW[s] = "ok"})
  /\ toS' = Put(toS, ackStream', sOpen, Plain("ack"))
  /\ rPc' = "ok"
  /\ rOpen' = {}
  /\ UNCHANGED <<sVars, rAt, rW, rWork, rMarks, fVars, toR, budget>>

RFinalFail ==
  /\ rPc = "ack"
  /\ \/ (\A s \in Streams : rW[s] # "ok") /\ UNCHANGED timeouts
     \/ \E s \in Streams :
          /\ rW[s] = "ok" /\ \A t \in Streams : rW[t] = "ok" => s <= t
          /\ WriteFails(s, sOpen)
  /\ RAbort
  /\ UNCHANGED <<sVars, rAt, rW, rWork, rMarks, ackStream, fVars, toR, toS, up,
                 breaks, damages>>

RMain ==
  \/ RHello \/ RFileInfo \/ RHandshakeFail \/ RStreamInfo \/ RStreamInfoFail
  \/ RCollect \/ RVerify \/ RFinalAck \/ RFinalFail

RWorker(s) ==
  \/ RTop(s) \/ RArm(s) \/ RNotified(s) \/ RReadFail(s)
  \/ RChunk(s) \/ RStore(s) \/ RMark(s)
  \/ RSendAck(s) \/ RSendNack(s) \/ RSendFail(s) \/ RDone(s)

----------------------------------------------------------------------------
(* The environment.                                                        *)

\* The runtime's blocking pool carries out an accepted write.
Flush(s) ==
  /\ cache[s] # NoBlock
  /\ disk' = disk \cup {cache[s]}
  /\ cache' = [cache EXCEPT ![s] = NoBlock]
  /\ UNCHANGED <<sVars, rVars, nVars>>

\* A stream breaks; of what is under way in each direction a prefix arrived.
Break(s) ==
  /\ s \in up /\ s \in sOpen \cup rOpen
  /\ breaks < MaxBreaks
  /\ breaks' = breaks + 1
  /\ up' = up \ {s}
  /\ \E i \in 0 .. Len(toR[s]) : toR' = [toR EXCEPT ![s] = SubSeq(@, 1, i)]
  /\ \E i \in 0 .. Len(toS[s]) : toS' = [toS EXCEPT ![s] = SubSeq(@, 1, i)]
  /\ UNCHANGED <<sVars, rVars, fVars, damages, timeouts>>

\* Both sides have returned.
Over ==
  /\ sPc \in {"ok", "err"} /\ rPc \in {"ok", "err"}
  /\ UNCHANGED vars

Next ==
  \/ SMain \/ RMain
  \/ \E s \in Streams : SWorker(s) \/ RWorker(s) \/ Flush(s) \/ Break(s)
  \/ Over

Spec == Init /\ [][Next]_vars

\* Both programs and every worker task are scheduled (tokio runs a task whose
\* socket is ready or whose timer has fired), and accepted writes are carried
\* out.  Nothing is assumed of the network.
Fairness ==
  /\ WF_vars(SMain) /\ WF_vars(RMain)
  /\ \A s \in Streams :
       WF_vars(SWorker(s)) /\ WF_vars(RWorker(s)) /\ WF_vars(Flush(s))

FairSpec == Spec /\ Fairness

----------------------------------------------------------------------------
(* Safety.                                                                 *)

InHand == {s \in Streams : hand[s] # NoBlock}
InQueue == {pending[i] : i \in DOMAIN pending}
\* The blocks the sender counts as delivered.
Settled == {b \in Blocks : b \notin InQueue /\ \A s \in Streams : hand[s] # b}

\* A sender that reports success (sender.rs:219-223) talks to a receiver that has
\* checked the whole file, renamed it and returned success, whatever the streams
\* did: the last acknowledgement means "the checksum matched" (receiver.rs:231).
SenderOkMeansFileVerified == sPc = "ok" => rPc = "ok" /\ disk = Blocks

\* Through losses, NACKs and dying workers, every block is in exactly one place:
\* once in the queue, in one worker's hand, or settled; and completed_chunks
\* counts the settled ones, so it reaches total_chunks exactly when none is left
\* (sender.rs:287-306).
BlockConservation ==
  /\ Cardinality(InQueue) = Len(pending)
  /\ \A s, t \in InHand : hand[s] = hand[t] => s = t
  /\ \A s \in InHand : hand[s] \notin InQueue
  /\ completed = Cardinality(Settled)

\* A block the sender counts as delivered has been received, although the sender
\* never looks at the number in the acknowledgement (sender.rs:295-297).
SettledIsReceived == Settled \subseteq received

\* received_count is the number of flags set, even when a block arrives on two
\* streams at once because its first acknowledgement was lost (receiver.rs:328).
CountIsFlags == count = Cardinality(received)

\* Once the sender is past its workers, the receiver has marked every block: DONE
\* never finds a receiver that then calls the transfer incomplete
\* (sender.rs:208, receiver.rs:221).
DoneMeansAllReceived ==
  sPc \in {"done", "finalack", "ok"} \/ doneReceived
    => received = Blocks /\ count = NumBlocks

\* The promise of FileTransfer, with the receiver's outcome read off its phase.
Outcome(pc) == IF pc = "ok" THEN "ok" ELSE IF pc = "err" THEN "failed" ELSE "running"

FT == INSTANCE FileTransfer WITH
        disk <- disk,
        receiverOut <- IF rPc = "ack" THEN "verified" ELSE Outcome(rPc),
        senderOut <- Outcome(sPc)

\* The transfer implements FileTransfer: success is reported in order (file
\* complete, verified, confirmed, then the sender), and never taken back.
ImplementsFileTransfer == FT!Spec

\* The comment at receiver.rs:211 says the stream on which DONE arrived is kept
\* because the last acknowledgement has to go out on it.
FinalAckOnDoneStream == ackStream # NoStream => ackStream = doneCameOn

----------------------------------------------------------------------------
(* Liveness, under Fairness.                                               *)

BothOk == sPc = "ok" /\ rPc = "ok"
BothEnded == sPc \in {"ok", "err"} /\ rPc \in {"ok", "err"}

\* If the two sides agree on their first stream and no stream breaks or stalls,
\* both report success - also when one side holds streams the other does not, and
\* when blocks arrive damaged.  The one way out is a checksum taken before the
\* runtime has carried out an accepted write (receiver.rs:326 does not flush).
UnflushedMismatch == sPc = "err" /\ rPc = "err" /\ received = Blocks

TransferSucceeds ==
  [](breaks = 0 /\ timeouts = 0) =>
    (sPc = "start" /\ rPc = "hello" /\ sAt = rAt ~> BothOk \/ UnflushedMismatch)

\* After DONE has been written both programs return, whatever happens to the
\* streams: no receiver worker sleeps through done_notify for ever
\* (receiver.rs:268-274), and the sender does not wait for ever.
AfterDoneBothEnd == sPc = "finalack" ~> BothEnded

\* The comment at sender.rs:259-263 says a worker that finds the queue empty cannot
\* be left waiting for ever with the caller waiting for it: the loop looks again.
WorkersAlwaysEnd == sPc = "run" ~> sPc # "run"
=============================================================================
