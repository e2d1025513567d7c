--------------------------- MODULE TransferProofs ---------------------------
(***************************************************************************)
(* Proofs about module Transfer, for every number of streams and blocks    *)
(* and every bound on the faults: first what the counters and flags say,   *)
(* then where the blocks are (none is lost to the sender's books or counted*)
(* twice, and what the sender counts as delivered the receiver has).       *)
(***************************************************************************)
EXTENDS Transfer, TLAPS, WellFoundedInduction, FiniteSetTheorems, FunctionTheorems

(***************************************************************************)
(* Facts about the helpers.                                                *)
(***************************************************************************)

\* Min picks an element of a nonempty set of streams and bounds the others: the
\* "first" stream that either side works on is one it holds.
LEMMA MinOfStreams ==
  ASSUME NEW S \in SUBSET Streams, S # {}
  PROVE  Min(S) \in S /\ \A t \in S : Min(S) <= t
<1>. DEFINE Less == OpToRel(<, Nat)
<1>1. S \subseteq Nat
  BY TransferAssumption DEF Streams
<1>2. \E x \in S : \A y \in S : <<y, x>> \notin Less
  <2>1. IsWellFoundedOn(Less, Nat)
    BY NatLessThanWellFounded
  <2>. QED
    BY <1>1, <2>1, WFMin
<1>3. \A x, y \in Nat : <<y, x>> \in Less <=> y < x
  BY DEF OpToRel
<1>. HIDE DEF Less
<1>4. PICK x \in S : \A y \in S : <<y, x>> \notin Less
  BY <1>2
<1>5. ASSUME NEW y \in S PROVE x <= y
  <2>1. x \in Nat /\ y \in Nat
    BY <1>1
  <2>2. ~ (y < x)
    BY <1>3, <1>4, <2>1
  <2>. QED
    BY <2>1, <2>2
<1>. QED
  BY <1>5 DEF Min

\* Putting a message on a stream keeps both directions sequences of messages.
LEMMA PutType ==
  ASSUME NEW ch \in [Streams -> Seq(Msg)], NEW s \in Streams,
         NEW open, NEW m \in Msg
  PROVE  Put(ch, s, open, m) \in [Streams -> Seq(Msg)]
<1>. Append(ch[s], m) \in Seq(Msg)
  OBVIOUS
<1>. QED
  BY DEF Put

\* Taking the head of a stream that holds a message keeps its type, and the
\* message taken is one.
LEMMA GetType ==
  ASSUME NEW ch \in [Streams -> Seq(Msg)], NEW s \in Streams, ch[s] # <<>>
  PROVE  /\ Get(ch, s) \in [Streams -> Seq(Msg)]
         /\ Head(ch[s]) \in Msg
<1>. Tail(ch[s]) \in Seq(Msg) /\ Head(ch[s]) \in Msg
  OBVIOUS
<1>. QED
  BY DEF Get

\* What is left of a broken stream is a sequence of messages.
LEMMA PrefixType ==
  ASSUME NEW ch \in [Streams -> Seq(Msg)], NEW s \in Streams,
         NEW i \in 0 .. Len(ch[s])
  PROVE  [ch EXCEPT ![s] = SubSeq(@, 1, i)] \in [Streams -> Seq(Msg)]
<1>. SubSeq(ch[s], 1, i) \in Seq(Msg)
  <2>1. ch[s] \in Seq(Msg) /\ Len(ch[s]) \in Nat
    OBVIOUS
  <2>2. \A j \in 1 .. i : ch[s][j] \in Msg
    BY <2>1
  <2>. QED
    BY <2>1, <2>2
<1>. QED
  OBVIOUS

\* The messages the two sides put on the wire are messages.
LEMMA MsgFacts ==
  /\ \A t \in PlainTypes : Plain(t) \in Msg
  /\ \A t \in BlockTypes, b \in Blocks : About(t, b) \in Msg
  /\ \A m \in Msg : m.type = "chunk" => m.block \in Blocks
BY DEF Msg, Plain, About, PlainTypes, BlockTypes

(***************************************************************************)
(* Type correctness.                                                       *)
(***************************************************************************)
USE DEF sVars, sMain, sQueue, rVars, rMain, rWork, rMarks, fVars, nVars, budget

\* A worker that is sending, waiting, storing or answering has a block to do it
\* with: what TypeOK needs beyond itself to be inductive.
Busy ==
  \A s \in Streams :
    /\ sW[s] \in {"send", "await"} => hand[s] \in Blocks
    /\ rW[s] \in {"store", "mark", "sendack", "sendnack"} => job[s] \in Blocks

LEMMA InitTypeOK == Init => TypeOK
<1>. SUFFICES ASSUME Init PROVE TypeOK
  OBVIOUS
<1>1. sAt \in Streams /\ rAt \in Streams
  <2>1. /\ sOpen \in SUBSET Streams /\ sOpen # {} /\ sAt = Min(sOpen)
        /\ rOpen \in SUBSET Streams /\ rOpen # {} /\ rAt = Min(rOpen)
    BY DEF Init
  <2>2. Min(sOpen) \in sOpen /\ Min(rOpen) \in rOpen
    BY <2>1, MinOfStreams
  <2>. QED
    BY <2>1, <2>2
<1>2. pending \in Seq(Blocks)
  <2>1. pending \in [1 .. NumBlocks -> Blocks]
    BY TransferAssumption DEF Init, Blocks
  <2>. QED
    BY <2>1, TransferAssumption
<1>3. /\ toR \in [Streams -> Seq(Msg)]
      /\ toS \in [Streams -> Seq(Msg)]
  BY DEF Init
<1>. QED
  <2>1. /\ sPc \in SenderPcs /\ rPc \in ReceiverPcs
        /\ sOpen \subseteq Streams /\ rOpen \subseteq Streams /\ up \subseteq Streams
        /\ sW \in [Streams -> SWorkerStates] /\ rW \in [Streams -> RWorkerStates]
    BY DEF Init, SenderPcs, ReceiverPcs, SWorkerStates, RWorkerStates
  <2>2. /\ hand \in [Streams -> Blocks \cup {NoBlock}]
        /\ job \in [Streams -> Blocks \cup {NoBlock}]
        /\ cache \in [Streams -> Blocks \cup {NoBlock}]
        /\ woken \in [Streams -> BOOLEAN]
    BY DEF Init
  <2>3. /\ completed \in Nat /\ count \in Nat
        /\ breaks \in Nat /\ damages \in Nat /\ timeouts \in Nat
        /\ doneStream = NoStream /\ doneCameOn = NoStream /\ ackStream = NoStream
        /\ doneReceived \in BOOLEAN /\ received \subseteq Blocks /\ disk \subseteq Blocks
    BY DEF Init
  <2>. QED
    BY <1>1, <1>2, <1>3, <2>1, <2>2, <2>3 DEF TypeOK

\* The sender's next stream, or the spawning of its workers, is well typed.
LEMMA SNextStreamType ==
  ASSUME TypeOK, NEW w \in [Streams -> SWorkerStates], SNextStream(w)
  PROVE  sPc' \in SenderPcs /\ sAt' \in Streams /\ sW' \in [Streams -> SWorkerStates]
<1>1. CASE After(sAt, sOpen) = {}
  BY <1>1 DEF SNextStream, SSpawn, SenderPcs, SWorkerStates, TypeOK
<1>2. CASE After(sAt, sOpen) # {}
  <2>1. After(sAt, sOpen) \in SUBSET Streams
    BY DEF After, TypeOK
  <2>. QED
    BY <1>2, <2>1, MinOfStreams DEF SNextStream, SenderPcs
<1>. QED
  BY <1>1, <1>2

LEMMA RNextStreamType ==
  ASSUME TypeOK, NEW w \in [Streams -> RWorkerStates], RNextStream(w)
  PROVE  rPc' \in ReceiverPcs /\ rAt' \in Streams /\ rW' \in [Streams -> RWorkerStates]
<1>1. CASE After(rAt, rOpen) = {}
  BY <1>1 DEF RNextStream, RSpawn, ReceiverPcs, RWorkerStates, TypeOK
<1>2. CASE After(rAt, rOpen) # {}
  <2>1. After(rAt, rOpen) \in SUBSET Streams
    BY DEF After, TypeOK
  <2>. QED
    BY <1>2, <2>1, MinOfStreams DEF RNextStream, ReceiverPcs
<1>. QED
  BY <1>1, <1>2

\* A failed read or write spends at most one unit of the timeout budget.
LEMMA WriteFailsType ==
  ASSUME TypeOK, NEW s, NEW open, WriteFails(s, open)
  PROVE  timeouts' \in Nat
BY DEF WriteFails, TimesOut, TypeOK

LEMMA SMainType == TypeOK /\ SMain => TypeOK'
<1>. SUFFICES ASSUME TypeOK, SMain PROVE TypeOK'
  OBVIOUS
<1>. USE MsgFacts DEF TypeOK
<1>1. CASE SHello
  BY <1>1, PutType DEF SHello, SenderPcs, PlainTypes
<1>2. CASE SFileInfo
  BY <1>2, PutType, GetType DEF SFileInfo, SenderPcs, PlainTypes, Holds
<1>3. CASE SFileInfoAck
  BY <1>3, GetType DEF SFileInfoAck, SenderPcs, Holds
<1>4. CASE SHandshakeFail
  BY <1>4, WriteFailsType DEF SHandshakeFail, SAbort, ReadFails, SenderPcs
<1>5. CASE SStreamInfo
  BY <1>5, PutType DEF SStreamInfo, SenderPcs, PlainTypes
<1>6. CASE SStreamInfoAck
  <2>1. [sW EXCEPT ![sAt] = "ready"] \in [Streams -> SWorkerStates]
    BY DEF SWorkerStates
  <2>. QED
    BY <1>6, <2>1, SNextStreamType, GetType DEF SStreamInfoAck, Holds
<1>7. CASE SStreamInfoFail
  <2>1. timeouts' \in Nat
    BY <1>7, WriteFailsType DEF SStreamInfoFail, ReadFails
  <2>2. sPc' \in SenderPcs /\ sAt' \in Streams /\ sW' \in [Streams -> SWorkerStates]
    BY <1>7, SNextStreamType DEF SStreamInfoFail, SAbort, SenderPcs
  <2>3. sOpen' \subseteq Streams
    BY <1>7 DEF SStreamInfoFail, SAbort
  <2>. QED
    BY <1>7, <2>1, <2>2, <2>3 DEF SStreamInfoFail
<1>8. CASE SIncomplete
  BY <1>8 DEF SIncomplete, SAbort, SenderPcs
<1>9. CASE SCollect
  <2>. DEFINE Returned == {s \in Streams : sW[s] = "ok"}
  <2>1. Returned \in SUBSET Streams /\ Returned # {}
    BY <1>9 DEF SCollect
  <2>2. doneStream' \in Streams
    BY <1>9, <2>1, MinOfStreams DEF SCollect
  <2>. QED
    BY <1>9, <2>2 DEF SCollect, SenderPcs
<1>10. CASE SDone
  <2>1. CASE doneStream \in Streams
    BY <1>10, <2>1, PutType DEF SDone, SenderPcs, PlainTypes
  <2>2. CASE doneStream \notin Streams
    BY <1>10, <2>2 DEF SDone, SenderPcs, PlainTypes, Put, Dead
  <2>. QED
    BY <2>1, <2>2
<1>11. CASE SFinalAck
  <2>1. CASE doneStream \in Streams
    BY <1>11, <2>1, GetType DEF SFinalAck, SenderPcs, Holds
  <2>2. CASE doneStream \notin Streams
    BY <1>11, <2>2 DEF SFinalAck, SenderPcs, Get
  <2>. QED
    BY <2>1, <2>2
<1>12. CASE SFinalFail
  BY <1>12, WriteFailsType DEF SFinalFail, SAbort, ReadFails, SenderPcs
<1>. QED
  BY <1>1, <1>2, <1>3, <1>4, <1>5, <1>6, <1>7, <1>8, <1>9, <1>10, <1>11, <1>12
     DEF SMain

LEMMA SWorkerType ==
  ASSUME TypeOK, Busy, NEW s \in Streams, SWorker(s)
  PROVE  TypeOK'
<1>. USE MsgFacts DEF TypeOK
<1>1. CASE STake(s)
  <2>1. Head(pending) \in Blocks /\ Tail(pending) \in Seq(Blocks)
    BY <1>1 DEF STake
  <2>. QED
    BY <1>1, <2>1 DEF STake, SWorkerStates
<1>2. CASE SPoll(s)
  BY <1>2 DEF SPoll, vars
<1>3. CASE SFinish(s)
  BY <1>3 DEF SFinish, SWorkerStates
<1>4. CASE SSend(s)
  <2>1. About("chunk", hand[s]) \in Msg
    BY <1>4 DEF SSend, Busy, BlockTypes
  <2>. QED
    BY <1>4, <2>1, PutType DEF SSend, SWorkerStates
<1>5. CASE SSendFail(s)
  BY <1>5, WriteFailsType DEF SSendFail, SWorkerStates
<1>6. CASE SAck(s)
  <2>1. toS' \in [Streams -> Seq(Msg)]
    BY <1>6, GetType DEF SAck, SReply, Holds
  <2>2. completed' \in Nat
    BY <1>6 DEF SAck
  <2>3. /\ hand' \in [Streams -> Blocks \cup {NoBlock}]
        /\ sW' \in [Streams -> SWorkerStates]
    BY <1>6 DEF SAck, SReply, SWorkerStates
  <2>. QED
    BY <1>6, <2>1, <2>2, <2>3 DEF SAck, SReply
<1>7. CASE SNack(s)
  <2>1. Append(pending, hand[s]) \in Seq(Blocks)
    BY <1>7 DEF SNack, SReply, Busy
  <2>. QED
    BY <1>7, <2>1, GetType DEF SNack, SReply, Holds, SWorkerStates
<1>8. CASE SAckFail(s)
  <2>1. Append(pending, hand[s]) \in Seq(Blocks)
    BY <1>8 DEF SAckFail, Busy
  <2>. QED
    BY <1>8, <2>1, WriteFailsType DEF SAckFail, ReadFails, SWorkerStates
<1>. QED
  BY <1>1, <1>2, <1>3, <1>4, <1>5, <1>6, <1>7, <1>8 DEF SWorker

LEMMA RMainType == TypeOK /\ RMain => TypeOK'
<1>. SUFFICES ASSUME TypeOK, RMain PROVE TypeOK'
  OBVIOUS
<1>. USE MsgFacts DEF TypeOK
<1>1. CASE RHello
  BY <1>1, PutType, GetType DEF RHello, ReceiverPcs, PlainTypes, Holds
<1>2. CASE RFileInfo
  BY <1>2, PutType, GetType DEF RFileInfo, ReceiverPcs, PlainTypes, Holds
<1>3. CASE RHandshakeFail
  BY <1>3, WriteFailsType DEF RHandshakeFail, RAbort, ReadFails, ReceiverPcs
<1>4. CASE RStreamInfo
  <2>1. [rW EXCEPT ![rAt] = "ready"] \in [Streams -> RWorkerStates]
    BY DEF RWorkerStates
  <2>. QED
    BY <1>4, <2>1, RNextStreamType, PutType, GetType DEF RStreamInfo, Holds, PlainTypes
<1>5. CASE RStreamInfoFail
  <2>1. timeouts' \in Nat
    BY <1>5, WriteFailsType DEF RStreamInfoFail, ReadFails
  <2>2. rPc' \in ReceiverPcs /\ rAt' \in Streams /\ rW' \in [Streams -> RWorkerStates]
    BY <1>5, RNextStreamType DEF RStreamInfoFail, RAbort, ReceiverPcs
  <2>3. rOpen' \subseteq Streams
    BY <1>5 DEF RStreamInfoFail, RAbort
  <2>. QED
    BY <1>5, <2>1, <2>2, <2>3 DEF RStreamInfoFail
<1>6. CASE RCollect
  BY <1>6 DEF RCollect, RAbort, ReceiverPcs
<1>7. CASE RVerify
  BY <1>7 DEF RVerify, RAbort, ReceiverPcs
<1>8. CASE RFinalAck
  <2>. DEFINE Returned == {s \in Streams : rW[s] = "ok"}
  <2>1. Returned \in SUBSET Streams /\ Returned # {}
    BY <1>8 DEF RFinalAck
  <2>2. ackStream' \in Streams
    BY <1>8, <2>1, MinOfStreams DEF RFinalAck
  <2>. QED
    BY <1>8, <2>2, PutType DEF RFinalAck, ReceiverPcs, PlainTypes
<1>9. CASE RFinalFail
  <2>1. timeouts' \in Nat
    BY <1>9, WriteFailsType DEF RFinalFail
  <2>. QED
    BY <1>9, <2>1 DEF RFinalFail, RAbort, ReceiverPcs
<1>. QED
  BY <1>1, <1>2, <1>3, <1>4, <1>5, <1>6, <1>7, <1>8, <1>9 DEF RMain

LEMMA RWorkerType ==
  ASSUME TypeOK, Busy, NEW s \in Streams, RWorker(s)
  PROVE  TypeOK'
<1>. USE MsgFacts DEF TypeOK
<1>1. CASE RTop(s)
  BY <1>1 DEF RTop, RWorkerStates
<1>2. CASE RArm(s)
  BY <1>2 DEF RArm, RWorkerStates
<1>3. CASE RNotified(s)
  BY <1>3 DEF RNotified, RWorkerStates
<1>4. CASE RReadFail(s)
  BY <1>4, WriteFailsType DEF RReadFail, ReadFails, RWorkerStates
<1>5. CASE RChunk(s)
  <2>1. Head(toR[s]).block \in Blocks
    <3>1. toR[s] # <<>> /\ Head(toR[s]).type = "chunk"
      BY <1>5 DEF RChunk, Holds
    <3>. QED
      BY <3>1, GetType
  <2>2. toR' \in [Streams -> Seq(Msg)]
    BY <1>5, GetType DEF RChunk, Holds
  <2>4. /\ damages' \in Nat
        /\ job' \in [Streams -> Blocks \cup {NoBlock}]
    BY <1>5, <2>1, SMTT(30) DEF RChunk
  <2>3. rW' \in [Streams -> RWorkerStates]
    BY <1>5 DEF RChunk, RWorkerStates
  <2>. QED
    BY <1>5, <2>2, <2>3, <2>4 DEF RChunk
<1>6. CASE RStore(s)
  BY <1>6 DEF RStore, RWorkerStates
<1>7. CASE RMark(s)
  BY <1>7 DEF RMark, Busy, RWorkerStates
<1>8. CASE RSendAck(s)
  <2>1. About("chunkack", job[s]) \in Msg
    BY <1>8 DEF RSendAck, RReply, Busy, BlockTypes
  <2>. QED
    BY <1>8, <2>1, PutType DEF RSendAck, RReply, RWorkerStates
<1>9. CASE RSendNack(s)
  <2>1. About("chunknack", job[s]) \in Msg
    BY <1>9 DEF RSendNack, RReply, Busy, BlockTypes
  <2>. QED
    BY <1>9, <2>1, PutType DEF RSendNack, RReply, RWorkerStates
<1>10. CASE RSendFail(s)
  BY <1>10, WriteFailsType DEF RSendFail, RWorkerStates
<1>11. CASE RDone(s)
  BY <1>11, GetType DEF RDone, RDoneSeen, Holds, RWorkerStates
<1>. QED
  BY <1>1, <1>2, <1>3, <1>4, <1>5, <1>6, <1>7, <1>8, <1>9, <1>10, <1>11 DEF RWorker

LEMMA EnvironmentType ==
  ASSUME TypeOK, NEW s \in Streams, Flush(s) \/ Break(s)
  PROVE  TypeOK'
<1>. USE DEF TypeOK
<1>1. CASE Flush(s)
  BY <1>1 DEF Flush
<1>2. CASE Break(s)
  <2>1. toR' \in [Streams -> Seq(Msg)]
    <3>1. PICK i \in 0 .. Len(toR[s]) : toR' = [toR EXCEPT ![s] = SubSeq(@, 1, i)]
      BY <1>2 DEF Break
    <3>. QED
      BY <3>1, PrefixType
  <2>2. toS' \in [Streams -> Seq(Msg)]
    <3>1. PICK i \in 0 .. Len(toS[s]) : toS' = [toS EXCEPT ![s] = SubSeq(@, 1, i)]
      BY <1>2 DEF Break
    <3>. QED
      BY <3>1, PrefixType
  <2>3. up' \subseteq Streams /\ breaks' \in Nat
    BY <1>2 DEF Break
  <2>. QED
    BY <1>2, <2>1, <2>2, <2>3 DEF Break
<1>. QED
  BY <1>1, <1>2

(***************************************************************************)
(* The inductive invariant.                                                *)
(***************************************************************************)

\* No last acknowledgement is under way in a direction.
NoAck(ch) == \A s \in Streams : \A i \in 1 .. Len(ch[s]) : ch[s][i].type # "ack"

\* The chain that the sender's success rests on: the checksum matched a complete
\* file, only then is an ACK written, and only an ACK ends the sender well.
Confirmed ==
  /\ rPc \in {"ack", "ok"} => disk = Blocks
  /\ rPc # "ok" => NoAck(toS)
  /\ sPc = "ok" => rPc = "ok"
  /\ sPc \in {"done", "finalack"} => doneStream \in Streams

IInv == TypeOK /\ Busy /\ Confirmed

LEMMA InitIInv == Init => IInv
<1>. SUFFICES ASSUME Init PROVE IInv
  OBVIOUS
<1>1. TypeOK
  BY InitTypeOK
<1>2. Busy
  BY DEF Init, Busy
<1>3. Confirmed
  BY DEF Init, Confirmed, NoAck
<1>. QED
  BY <1>1, <1>2, <1>3 DEF IInv

\* A side's setup touches neither the blocks in hand nor the jobs.
LEMMA SMainBusy == TypeOK /\ Busy /\ SMain => Busy'
<1>. SUFFICES ASSUME TypeOK, Busy, SMain PROVE Busy'
  OBVIOUS
<1>1. hand' = hand /\ job' = job /\ rW' = rW
  BY DEF SMain, SHello, SFileInfo, SFileInfoAck, SHandshakeFail, SStreamInfo,
         SStreamInfoAck, SStreamInfoFail, SIncomplete, SCollect, SDone, SFinalAck,
         SFinalFail
<1>2. ASSUME NEW s \in Streams, sW'[s] \in {"send", "await"}
      PROVE  sW[s] = sW'[s]
  <2>1. CASE SStreamInfoAck
    BY <1>2, <2>1 DEF SStreamInfoAck, SNextStream, SSpawn, TypeOK
  <2>2. CASE SStreamInfoFail
    BY <1>2, <2>2 DEF SStreamInfoFail, SNextStream, SSpawn, TypeOK
  <2>3. CASE ~SStreamInfoAck /\ ~SStreamInfoFail
    BY <1>2, <2>3 DEF SMain, SHello, SFileInfo, SFileInfoAck, SHandshakeFail,
       SStreamInfo, SIncomplete, SCollect, SDone, SFinalAck, SFinalFail
  <2>. QED
    BY <2>1, <2>2, <2>3
<1>. QED
  BY <1>1, <1>2 DEF Busy

LEMMA RMainBusy == TypeOK /\ Busy /\ RMain => Busy'
<1>. SUFFICES ASSUME TypeOK, Busy, RMain PROVE Busy'
  OBVIOUS
<1>1. hand' = hand /\ job' = job /\ sW' = sW
  BY DEF RMain, RHello, RFileInfo, RHandshakeFail, RStreamInfo, RStreamInfoFail,
         RCollect, RVerify, RFinalAck, RFinalFail
<1>2. ASSUME NEW s \in Streams, rW'[s] \in {"store", "mark", "sendack", "sendnack"}
      PROVE  rW[s] = rW'[s]
  <2>1. CASE RStreamInfo
    BY <1>2, <2>1 DEF RStreamInfo, RNextStream, RSpawn, TypeOK
  <2>2. CASE RStreamInfoFail
    BY <1>2, <2>2 DEF RStreamInfoFail, RNextStream, RSpawn, TypeOK
  <2>3. CASE ~RStreamInfo /\ ~RStreamInfoFail
    BY <1>2, <2>3 DEF RMain, RHello, RFileInfo, RHandshakeFail, RCollect, RVerify,
       RFinalAck, RFinalFail
  <2>. QED
    BY <2>1, <2>2, <2>3
<1>. QED
  BY <1>1, <1>2 DEF Busy

LEMMA SWorkerBusy ==
  ASSUME TypeOK, Busy, NEW s \in Streams, SWorker(s)
  PROVE  Busy'
<1>1. job' = job /\ rW' = rW
  BY DEF SWorker, STake, SPoll, SFinish, SSend, SSendFail, SAck, SNack, SReply,
         SAckFail, vars
<1>2. \A t \in Streams : t # s => sW'[t] = sW[t] /\ hand'[t] = hand[t]
  BY DEF SWorker, STake, SPoll, SFinish, SSend, SSendFail, SAck, SNack, SReply,
         SAckFail, vars, TypeOK
<1>3. sW'[s] \in {"send", "await"} => hand'[s] \in Blocks
  <2>1. CASE STake(s)
    <3>1. Head(pending) \in Blocks
      BY <2>1 DEF STake, TypeOK
    <3>. QED
      BY <2>1, <3>1 DEF STake, TypeOK
  <2>2. CASE SSend(s)
    BY <2>2 DEF SSend, Busy, TypeOK
  <2>3. CASE SPoll(s)
    BY <2>3 DEF SPoll, vars, Busy
  <2>4. CASE SFinish(s) \/ SSendFail(s) \/ SAck(s) \/ SNack(s) \/ SAckFail(s)
    BY <2>4 DEF SFinish, SSendFail, SAck, SNack, SReply, SAckFail, TypeOK
  <2>. QED
    BY <2>1, <2>2, <2>3, <2>4 DEF SWorker
<1>. QED
  BY <1>1, <1>2, <1>3 DEF Busy

LEMMA RWorkerBusy ==
  ASSUME TypeOK, Busy, NEW s \in Streams, RWorker(s)
  PROVE  Busy'
<1>1. hand' = hand /\ sW' = sW
  BY DEF RWorker, RTop, RArm, RNotified, RReadFail, RChunk, RStore, RMark, RSendAck,
         RSendNack, RReply, RSendFail, RDone, RDoneSeen
<1>2. \A t \in Streams : t # s => rW'[t] = rW[t] /\ job'[t] = job[t]
  BY DEF RWorker, RTop, RArm, RNotified, RReadFail, RChunk, RStore, RMark, RSendAck,
         RSendNack, RReply, RSendFail, RDone, RDoneSeen, TypeOK
<1>3. rW'[s] \in {"store", "mark", "sendack", "sendnack"} => job'[s] \in Blocks
  <2>1. CASE RChunk(s)
    <3>1. Head(toR[s]).block \in Blocks
      <4>1. toR[s] # <<>> /\ Head(toR[s]).type = "chunk"
        BY <2>1 DEF RChunk, Holds
      <4>. QED
        BY <4>1, GetType, MsgFacts DEF TypeOK
    <3>. QED
      BY <2>1, <3>1 DEF RChunk, TypeOK
  <2>2. CASE RStore(s) \/ RMark(s)
    BY <2>2 DEF RStore, RMark, Busy, TypeOK
  <2>3. CASE RTop(s) \/ RArm(s) \/ RNotified(s) \/ RReadFail(s)
    BY <2>3 DEF RTop, RArm, RNotified, RReadFail, TypeOK
  <2>4. CASE RSendAck(s) \/ RSendNack(s) \/ RSendFail(s) \/ RDone(s)
    BY <2>4 DEF RSendAck, RSendNack, RReply, RSendFail, RDone, RDoneSeen, TypeOK
  <2>. QED
    BY <2>1, <2>2, <2>3, <2>4 DEF RWorker
<1>. QED
  BY <1>1, <1>2, <1>3 DEF Busy

\* Acknowledgements appear only where one is written.
LEMMA NoAckPut ==
  ASSUME NEW ch \in [Streams -> Seq(Msg)], NEW s \in Streams, NEW open,
         NEW m \in Msg, m.type # "ack", NoAck(ch)
  PROVE  NoAck(Put(ch, s, open, m))
<1>. SUFFICES ASSUME ~ Dead(s, open)
              PROVE  NoAck([ch EXCEPT ![s] = Append(@, m)])
  BY DEF Put
<1>1. \A i \in 1 .. Len(Append(ch[s], m)) : Append(ch[s], m)[i].type # "ack"
  <2>. SUFFICES ASSUME NEW i \in 1 .. Len(Append(ch[s], m))
                PROVE  Append(ch[s], m)[i].type # "ack"
    OBVIOUS
  <2>1. /\ ch[s] \in Seq(Msg) /\ Len(ch[s]) \in Nat
        /\ Len(Append(ch[s], m)) = Len(ch[s]) + 1
    OBVIOUS
  <2>2. CASE i = Len(ch[s]) + 1
    BY <2>1, <2>2
  <2>3. CASE i \in 1 .. Len(ch[s])
    BY <2>1, <2>3 DEF NoAck
  <2>. QED
    BY <2>1, <2>2, <2>3
<1>. QED
  BY <1>1 DEF NoAck

LEMMA NoAckGet ==
  ASSUME NEW ch \in [Streams -> Seq(Msg)], NEW s \in Streams, ch[s] # <<>>, NoAck(ch)
  PROVE  NoAck(Get(ch, s)) /\ Head(ch[s]).type # "ack"
<1>1. /\ ch[s] \in Seq(Msg) /\ Len(ch[s]) \in Nat \ {0}
      /\ Len(Tail(ch[s])) = Len(ch[s]) - 1
      /\ \A i \in 1 .. Len(Tail(ch[s])) : Tail(ch[s])[i] = ch[s][i + 1]
      /\ Head(ch[s]) = ch[s][1]
  OBVIOUS
<1>2. \A i \in 1 .. Len(Tail(ch[s])) : Tail(ch[s])[i].type # "ack"
  BY <1>1 DEF NoAck
<1>3. Head(ch[s]).type # "ack"
  BY <1>1 DEF NoAck
<1>. QED
  BY <1>2, <1>3 DEF NoAck, Get

LEMMA NoAckPrefix ==
  ASSUME NEW ch \in [Streams -> Seq(Msg)], NEW s \in Streams,
         NEW n \in 0 .. Len(ch[s]), NoAck(ch)
  PROVE  NoAck([ch EXCEPT ![s] = SubSeq(@, 1, n)])
<1>1. /\ ch[s] \in Seq(Msg) /\ Len(SubSeq(ch[s], 1, n)) = n
      /\ \A i \in 1 .. n : SubSeq(ch[s], 1, n)[i] = ch[s][i] /\ i \in 1 .. Len(ch[s])
  OBVIOUS
<1>2. \A i \in 1 .. Len(SubSeq(ch[s], 1, n)) : SubSeq(ch[s], 1, n)[i].type # "ack"
  BY <1>1 DEF NoAck
<1>. QED
  BY <1>2 DEF NoAck

\* Where the sender goes next in its setup is not a way of ending.
LEMMA SNextStreamPc ==
  ASSUME NEW w, SNextStream(w)
  PROVE  sPc' \in {"run", "streaminfo"}
BY DEF SNextStream

LEMMA RNextStreamPc ==
  ASSUME NEW w, RNextStream(w)
  PROVE  rPc' \in {"run", "streaminfo"}
BY DEF RNextStream

LEMMA SMainConfirmed == TypeOK /\ Confirmed /\ SMain => Confirmed'
<1>. SUFFICES ASSUME TypeOK, Confirmed, SMain PROVE Confirmed'
  OBVIOUS
<1>1. rPc' = rPc /\ disk' = disk
  BY DEF SMain, SHello, SFileInfo, SFileInfoAck, SHandshakeFail, SStreamInfo,
         SStreamInfoAck, SStreamInfoFail, SIncomplete, SCollect, SDone, SFinalAck,
         SFinalFail
<1>2. rPc # "ok" => NoAck(toS')
  <2>. SUFFICES ASSUME NoAck(toS) PROVE NoAck(toS')
    BY DEF Confirmed
  <2>1. CASE SFileInfo \/ SFileInfoAck \/ SStreamInfoAck
    BY <2>1, NoAckGet DEF SFileInfo, SFileInfoAck, SStreamInfoAck, Holds, TypeOK
  <2>2. CASE SFinalAck
    BY <2>2, NoAckGet DEF SFinalAck, Holds, TypeOK, Confirmed
  <2>3. CASE UNCHANGED toS
    BY <2>3 DEF NoAck
  <2>. QED
    BY <2>1, <2>2, <2>3 DEF SMain, SHello, SHandshakeFail, SStreamInfo,
         SStreamInfoFail, SIncomplete, SCollect, SDone, SFinalFail
<1>3. sPc' = "ok" => rPc = "ok"
  <2>1. CASE SFinalAck
    BY <2>1, NoAckGet DEF SFinalAck, Holds, TypeOK, Confirmed
  <2>2. CASE SStreamInfoAck \/ SStreamInfoFail
    BY <2>2, SNextStreamPc DEF SStreamInfoAck, SStreamInfoFail, SAbort
  <2>3. CASE ~SFinalAck /\ ~SStreamInfoAck /\ ~SStreamInfoFail
    BY <2>3 DEF SMain, SHello, SFileInfo, SFileInfoAck, SHandshakeFail, SStreamInfo,
       SIncomplete, SCollect, SDone, SFinalFail, SAbort
  <2>. QED
    BY <2>1, <2>2, <2>3
<1>4. sPc' \in {"done", "finalack"} => doneStream' \in Streams
  <2>1. CASE SCollect
    <3>1. {s \in Streams : sW[s] = "ok"} \in (SUBSET Streams) \ {{}}
      BY <2>1 DEF SCollect
    <3>. QED
      BY <2>1, <3>1, MinOfStreams DEF SCollect
  <2>2. CASE SStreamInfoAck \/ SStreamInfoFail
    BY <2>2, SNextStreamPc DEF SStreamInfoAck, SStreamInfoFail, SAbort
  <2>3. CASE ~SCollect /\ ~SStreamInfoAck /\ ~SStreamInfoFail
    BY <2>3 DEF SMain, SHello, SFileInfo, SFileInfoAck, SHandshakeFail, SStreamInfo,
       SIncomplete, SDone, SFinalAck, SFinalFail, SAbort, Confirmed
  <2>. QED
    BY <2>1, <2>2, <2>3
<1>. QED
  BY <1>1, <1>2, <1>3, <1>4 DEF Confirmed

LEMMA RMainConfirmed == TypeOK /\ Confirmed /\ RMain => Confirmed'
<1>. SUFFICES ASSUME TypeOK, Confirmed, RMain PROVE Confirmed'
  OBVIOUS
<1>1. sPc' = sPc /\ doneStream' = doneStream /\ disk' = disk
  BY DEF RMain, RHello, RFileInfo, RHandshakeFail, RStreamInfo, RStreamInfoFail,
         RCollect, RVerify, RFinalAck, RFinalFail
<1>2. rPc # "ok"
  BY DEF RMain, RHello, RFileInfo, RHandshakeFail, RStreamInfo, RStreamInfoFail,
         RCollect, RVerify, RFinalAck, RFinalFail
<1>3. rPc' \in {"ack", "ok"} => disk = Blocks
  <2>1. CASE RStreamInfo \/ RStreamInfoFail
    BY <2>1, RNextStreamPc DEF RStreamInfo, RStreamInfoFail, RAbort
  <2>2. CASE RVerify \/ RFinalAck
    BY <2>2 DEF RVerify, RFinalAck, RAbort, Confirmed
  <2>. QED
    BY <2>1, <2>2 DEF RMain, RHello, RFileInfo, RHandshakeFail, RCollect, RFinalFail,
       RAbort
<1>4. rPc' # "ok" => NoAck(toS')
  <2>. SUFFICES ASSUME NoAck(toS), ~RFinalAck PROVE NoAck(toS')
    BY <1>2 DEF RFinalAck, Confirmed
  <2>1. CASE RHello
    BY <2>1, NoAckPut, MsgFacts DEF RHello, Plain, PlainTypes, TypeOK
  <2>2. CASE RFileInfo
    BY <2>2, NoAckPut, MsgFacts DEF RFileInfo, Plain, PlainTypes, TypeOK
  <2>3. CASE RStreamInfo
    BY <2>3, NoAckPut, MsgFacts DEF RStreamInfo, Plain, PlainTypes, TypeOK
  <2>4. CASE UNCHANGED toS
    BY <2>4 DEF NoAck
  <2>. QED
    BY <2>1, <2>2, <2>3, <2>4 DEF RMain, RHandshakeFail, RStreamInfoFail, RCollect,
       RVerify, RFinalFail
<1>. QED
  BY <1>1, <1>2, <1>3, <1>4 DEF Confirmed

\* A worker or the environment decides nothing; it only must not forge an ACK.
LEMMA StreamConfirmed ==
  ASSUME TypeOK, Busy, Confirmed, NEW s \in Streams,
         SWorker(s) \/ RWorker(s) \/ Flush(s) \/ Break(s)
  PROVE  Confirmed'
<1>1. sPc' = sPc /\ rPc' = rPc /\ doneStream' = doneStream
  BY DEF SWorker, STake, SPoll, SFinish, SSend, SSendFail, SAck, SNack, SReply,
         SAckFail, RWorker, RTop, RArm, RNotified, RReadFail, RChunk, RStore, RMark,
         RSendAck, RSendNack, RReply, RSendFail, RDone, RDoneSeen, Flush, Break, vars
<1>2. disk = Blocks => disk' = Blocks
  <2>1. CASE Flush(s)
    BY <2>1 DEF Flush, TypeOK
  <2>2. CASE ~Flush(s)
    BY <2>2 DEF SWorker, STake, SPoll, SFinish, SSend, SSendFail, SAck, SNack, SReply,
         SAckFail, RWorker, RTop, RArm, RNotified, RReadFail, RChunk, RStore, RMark,
         RSendAck, RSendNack, RReply, RSendFail, RDone, RDoneSeen, Break, vars
  <2>. QED
    BY <2>1, <2>2
<1>3. NoAck(toS) => NoAck(toS')
  <2>. SUFFICES ASSUME NoAck(toS) PROVE NoAck(toS')
    OBVIOUS
  <2>1. CASE SAck(s) \/ SNack(s)
    <3>1. toS[s] # <<>> /\ toS' = Get(toS, s)
      BY <2>1 DEF SAck, SNack, SReply, Holds
    <3>. QED
      BY <3>1, NoAckGet DEF TypeOK
  <2>2. CASE RSendAck(s) \/ RSendNack(s)
    <3>1. PICK type \in {"chunkack", "chunknack"} :
            toS' = Put(toS, s, sOpen, About(type, job[s])) /\ job[s] \in Blocks
      BY <2>2 DEF RSendAck, RSendNack, RReply, Busy
    <3>2. About(type, job[s]) \in Msg /\ About(type, job[s]).type # "ack"
      BY <3>1, MsgFacts DEF About, BlockTypes
    <3>. QED
      BY <3>1, <3>2, NoAckPut DEF TypeOK
  <2>3. CASE Break(s)
    <3>1. PICK n \in 0 .. Len(toS[s]) : toS' = [toS EXCEPT ![s] = SubSeq(@, 1, n)]
      BY <2>3 DEF Break
    <3>. QED
      BY <3>1, NoAckPrefix DEF TypeOK
  <2>4. CASE UNCHANGED toS
    BY <2>4 DEF NoAck
  <2>. QED
    BY <2>1, <2>2, <2>3, <2>4 DEF SWorker, STake, SPoll, SFinish, SSend, SSendFail,
         SAckFail, RWorker, RTop, RArm, RNotified, RReadFail, RChunk, RStore, RMark,
         RSendFail, RDone, Flush, vars
<1>. QED
  BY <1>1, <1>2, <1>3 DEF Confirmed

LEMMA NextIInv == IInv /\ [Next]_vars => IInv'
<1>. SUFFICES ASSUME TypeOK, Busy, Confirmed, [Next]_vars
              PROVE  TypeOK' /\ Busy' /\ Confirmed'
  BY DEF IInv
<1>1. CASE SMain
  BY <1>1, SMainType, SMainBusy, SMainConfirmed
<1>2. CASE RMain
  BY <1>2, RMainType, RMainBusy, RMainConfirmed
<1>3. ASSUME NEW s \in Streams, SWorker(s) \/ RWorker(s) \/ Flush(s) \/ Break(s)
      PROVE  TypeOK' /\ Busy' /\ Confirmed'
  <2>1. TypeOK'
    BY <1>3, SWorkerType, RWorkerType, EnvironmentType
  <2>2. Busy'
    <3>1. CASE Flush(s) \/ Break(s)
      BY <3>1 DEF Flush, Break, Busy
    <3>. QED
      BY <1>3, <3>1, SWorkerBusy, RWorkerBusy
  <2>3. Confirmed'
    BY <1>3, StreamConfirmed
  <2>. QED
    BY <2>1, <2>2, <2>3
<1>4. CASE Over \/ UNCHANGED vars
  <2>1. UNCHANGED vars
    BY <1>4 DEF Over
  <2>2. TypeOK'
    BY <2>1 DEF vars, TypeOK
  <2>3. Busy'
    BY <2>1 DEF vars, Busy
  <2>4. Confirmed'
    BY <2>1 DEF vars, Confirmed, NoAck
  <2>. QED
    BY <2>2, <2>3, <2>4
<1>. QED
  BY <1>1, <1>2, <1>3, <1>4 DEF Next

LEMMA Invariance == Spec => []IInv
<1>. QED
  BY InitIInv, NextIInv, PTL DEF Spec

(***************************************************************************)
(* The theorems.                                                           *)
(***************************************************************************)

\* Every variable of the transfer keeps its type, whatever the faults.
THEOREM TypeCorrect == Spec => []TypeOK
<1>1. IInv => TypeOK
  BY DEF IInv
<1>. QED
  BY <1>1, Invariance, PTL

\* A sender that reports success talks to a receiver that has reported success with
\* the whole file on disk (sender.rs:219, receiver.rs:228-237).
THEOREM SenderOkIsFileVerified == Spec => []SenderOkMeansFileVerified
<1>1. IInv => SenderOkMeansFileVerified
  BY DEF IInv, Confirmed, SenderOkMeansFileVerified
<1>. QED
  BY <1>1, Invariance, PTL

(***************************************************************************)
(* The transfer implements FileTransfer: each step maps to a step of it or *)
(* leaves its variables alone.                                             *)
(***************************************************************************)

LEMMA InitRefines == Init => FT!Init
BY DEF Init, FT!Init, Outcome

\* Whatever the sender's main task does is, for FileTransfer, nothing, giving up,
\* or learning of the confirmation.
LEMMA SMainRefines ==
  ASSUME TypeOK, Confirmed, SMain
  PROVE  FT!SenderFail \/ FT!SenderOk \/ UNCHANGED FT!vars
<1>1. rPc' = rPc /\ disk' = disk
  BY DEF SMain, SHello, SFileInfo, SFileInfoAck, SHandshakeFail, SStreamInfo,
         SStreamInfoAck, SStreamInfoFail, SIncomplete, SCollect, SDone, SFinalAck,
         SFinalFail
<1>2. sPc \notin {"ok", "err"}
  BY DEF SMain, SHello, SFileInfo, SFileInfoAck, SHandshakeFail, SStreamInfo,
         SStreamInfoAck, SStreamInfoFail, SIncomplete, SCollect, SDone, SFinalAck,
         SFinalFail
<1>3. CASE sPc' = "err"
  BY <1>1, <1>2, <1>3 DEF FT!SenderFail, Outcome
<1>4. CASE sPc' = "ok"
  BY <1>1, <1>2, <1>4, SMainConfirmed DEF FT!SenderOk, Outcome, Confirmed
<1>5. CASE sPc' \notin {"ok", "err"}
  BY <1>1, <1>2, <1>5 DEF FT!vars, Outcome
<1>. QED
  BY <1>3, <1>4, <1>5

LEMMA RMainRefines ==
  ASSUME TypeOK, Confirmed, RMain
  PROVE  FT!Verify \/ FT!Confirm \/ FT!ReceiverFail \/ UNCHANGED FT!vars
<1>1. sPc' = sPc /\ disk' = disk
  BY DEF RMain, RHello, RFileInfo, RHandshakeFail, RStreamInfo, RStreamInfoFail,
         RCollect, RVerify, RFinalAck, RFinalFail
<1>2. rPc \notin {"ok", "err"}
  BY DEF RMain, RHello, RFileInfo, RHandshakeFail, RStreamInfo, RStreamInfoFail,
         RCollect, RVerify, RFinalAck, RFinalFail
<1>3. CASE RFinalAck
  BY <1>1, <1>3 DEF RFinalAck, FT!Confirm, Outcome
<1>4. CASE rPc' = "err"
  BY <1>1, <1>2, <1>4 DEF FT!ReceiverFail, Outcome
<1>5. CASE RVerify /\ rPc' # "err"
  BY <1>1, <1>5 DEF RVerify, RAbort, FT!Verify, FT!Blocks, Blocks, Outcome
<1>6. CASE ~RFinalAck /\ ~RVerify /\ rPc' # "err"
  <2>1. rPc # "ack" /\ rPc' \notin {"ack", "ok", "err"}
    <3>1. CASE RStreamInfo \/ RStreamInfoFail
      BY <1>6, <3>1, RNextStreamPc DEF RStreamInfo, RStreamInfoFail, RAbort
    <3>. QED
      BY <1>6, <3>1 DEF RMain, RHello, RFileInfo, RHandshakeFail, RCollect, RFinalFail,
         RAbort
  <2>. QED
    BY <1>1, <1>2, <2>1 DEF FT!vars, Outcome
<1>. QED
  BY <1>3, <1>4, <1>5, <1>6

LEMMA NextRefines == IInv /\ [Next]_vars => [FT!Next]_(FT!vars)
<1>. SUFFICES ASSUME TypeOK, Confirmed, [Next]_vars PROVE [FT!Next]_(FT!vars)
  BY DEF IInv
<1>1. CASE SMain
  BY <1>1, SMainRefines DEF FT!Next
<1>2. CASE RMain
  BY <1>2, RMainRefines DEF FT!Next
<1>3. ASSUME NEW s \in Streams, SWorker(s) \/ RWorker(s) \/ Flush(s) \/ Break(s)
      PROVE  [FT!Next]_(FT!vars)
  <2>1. sPc' = sPc /\ rPc' = rPc
    BY <1>3 DEF SWorker, STake, SPoll, SFinish, SSend, SSendFail, SAck, SNack, SReply,
         SAckFail, RWorker, RTop, RArm, RNotified, RReadFail, RChunk, RStore, RMark,
         RSendAck, RSendNack, RReply, RSendFail, RDone, RDoneSeen, Flush, Break, vars
  <2>2. CASE Flush(s)
    <3>1. cache[s] \in FT!Blocks /\ disk' = disk \cup {cache[s]}
      BY <2>2 DEF Flush, TypeOK, FT!Blocks, Blocks
    <3>2. FT!WriteBlock(cache[s])
      BY <2>1, <3>1 DEF FT!WriteBlock, Outcome
    <3>. QED
      BY <3>1, <3>2 DEF FT!Next
  <2>3. CASE ~Flush(s)
    <3>1. disk' = disk
      BY <1>3, <2>3 DEF SWorker, STake, SPoll, SFinish, SSend, SSendFail, SAck, SNack,
         SReply, SAckFail, RWorker, RTop, RArm, RNotified, RReadFail, RChunk, RStore,
         RMark, RSendAck, RSendNack, RReply, RSendFail, RDone, RDoneSeen, Break, vars
    <3>. QED
      BY <2>1, <3>1 DEF FT!vars, Outcome
  <2>. QED
    BY <2>2, <2>3
<1>4. CASE Over \/ UNCHANGED vars
  BY <1>4 DEF Over, vars, FT!vars, Outcome
<1>. QED
  BY <1>1, <1>2, <1>3, <1>4 DEF Next

\* The transfer implements FileTransfer: success is reported in order - file
\* complete, verified, confirmed, then the sender - and never taken back.
THEOREM Refinement == Spec => ImplementsFileTransfer
<1>. QED
  BY InitRefines, NextRefines, Invariance, PTL DEF Spec, ImplementsFileTransfer, FT!Spec

(***************************************************************************)
(* received_count and the flags.                                           *)
(***************************************************************************)

\* received_count is the number of flags set, however many workers receive the same
\* block (receiver.rs:328).
THEOREM CountIsNumberOfFlags == Spec => []CountIsFlags
<1>1. Init => CountIsFlags
  BY FS_EmptySet DEF Init, CountIsFlags
<1>2. TypeOK /\ Busy /\ CountIsFlags /\ [Next]_vars => CountIsFlags'
  <2>. SUFFICES ASSUME TypeOK, Busy, CountIsFlags, [Next]_vars PROVE CountIsFlags'
    OBVIOUS
  <2>1. ASSUME NEW s \in Streams, RMark(s) PROVE CountIsFlags'
    <3>1. IsFiniteSet(received)
      <4>1. IsFiniteSet(Blocks)
        BY FS_Interval, TransferAssumption DEF Blocks
      <4>. QED
        BY <4>1, FS_Subset DEF TypeOK
    <3>2. Cardinality(received \cup {job[s]}) =
            IF job[s] \in received THEN Cardinality(received)
                                   ELSE Cardinality(received) + 1
      BY <3>1, FS_AddElement
    <3>. QED
      BY <2>1, <3>2 DEF RMark, CountIsFlags
  <2>2. CASE \A s \in Streams : ~RMark(s)
    <3>1. UNCHANGED <<received, count>>
      BY <2>2 DEF Next, vars, Over, Flush, Break,
         SMain, SHello, SFileInfo, SFileInfoAck, SHandshakeFail, SStreamInfo,
         SStreamInfoAck, SStreamInfoFail, SIncomplete, SCollect, SDone, SFinalAck,
         SFinalFail, RMain, RHello, RFileInfo, RHandshakeFail, RStreamInfo,
         RStreamInfoFail, RCollect, RVerify, RFinalAck, RFinalFail,
         SWorker, STake, SPoll, SFinish, SSend, SSendFail, SAck, SNack, SReply,
         SAckFail, RWorker, RTop, RArm, RNotified, RReadFail, RChunk, RStore,
         RSendAck, RSendNack, RReply, RSendFail, RDone, RDoneSeen
    <3>. QED
      BY <3>1 DEF CountIsFlags
  <2>. QED
    BY <2>1, <2>2
<1>3. IInv => TypeOK /\ Busy
  BY DEF IInv
<1>. QED
  BY <1>1, <1>2, <1>3, Invariance, PTL DEF Spec

USE DEF sVars, sMain, sQueue, rVars, rMain, rWork, rMarks, fVars, nVars, budget

(***************************************************************************)
(* What a direction of a stream holds.                                     *)
(***************************************************************************)

Replies == {"chunkack", "chunknack"}

\* Of the messages in q none, or at most one, has one of the types T; the chunks in it
\* are block b.
Lacks(q, T) == \A i \in 1 .. Len(q) : q[i].type \notin T
Once(q, T) == \A i, j \in 1 .. Len(q) : q[i].type \in T /\ q[j].type \in T => i = j
Every(q, b) == \A i \in 1 .. Len(q) : q[i].type = "chunk" => q[i].block = b

\* q2 has no more messages of the types T, or chunks, than q.
NoMore(q2, q, T) ==
  /\ Lacks(q, T) => Lacks(q2, T)
  /\ Once(q, T) => Once(q2, T)
  /\ \A b : Every(q, b) => Every(q2, b)

LEMMA NoMoreSame == \A q, T : NoMore(q, q, T)
BY DEF NoMore

\* A message of another type adds nothing.
LEMMA NoMoreAppend ==
  ASSUME NEW q \in Seq(Msg), NEW m \in Msg, NEW T, m.type \notin T, m.type # "chunk"
  PROVE  NoMore(Append(q, m), q, T)
<1>1. /\ Len(q) \in Nat /\ Len(Append(q, m)) = Len(q) + 1
      /\ \A i \in 1 .. Len(q) : Append(q, m)[i] = q[i]
      /\ Append(q, m)[Len(q) + 1] = m
  OBVIOUS
<1>. DEFINE q2 == Append(q, m)
<1>2. /\ q2[Len(q) + 1] = m /\ Len(q2) = Len(q) + 1
      /\ \A i \in 1 .. Len(q) : q2[i] = q[i]
  BY <1>1
<1>. HIDE DEF q2
<1>3. \A i \in 1 .. Len(q2) : q2[i].type \in T \/ q2[i].type = "chunk" =>
                                i \in 1 .. Len(q) /\ q2[i] = q[i]
  BY <1>1, <1>2
<1>4. Lacks(q, T) => Lacks(q2, T)
  BY <1>3 DEF Lacks
<1>5. Once(q, T) => Once(q2, T)
  BY <1>3 DEF Once
<1>6. \A b : Every(q, b) => Every(q2, b)
  BY <1>3 DEF Every
<1>. QED
  BY <1>4, <1>5, <1>6 DEF NoMore, q2

\* Taking the head leaves no more, and nothing of its kind where there was one.
LEMMA NoMoreTail ==
  ASSUME NEW q \in Seq(Msg), q # <<>>, NEW T
  PROVE  /\ NoMore(Tail(q), q, T)
         /\ Once(q, T) /\ Head(q).type \in T => Lacks(Tail(q), T)
         /\ Head(q).type \in T => ~Lacks(q, T)
         /\ \A b : Every(q, b) /\ Head(q).type = "chunk" => Head(q).block = b
<1>. DEFINE q2 == Tail(q)
<1>1. /\ Len(q) \in Nat \ {0} /\ Len(q2) = Len(q) - 1
      /\ \A i \in 1 .. Len(q2) : q2[i] = q[i + 1]
      /\ Head(q) = q[1]
  OBVIOUS
<1>. HIDE DEF q2
<1>2. \A i \in 1 .. Len(q2) : i + 1 \in 1 .. Len(q) /\ q2[i] = q[i + 1] /\ i + 1 # 1
  BY <1>1
<1>3. 1 \in 1 .. Len(q)
  BY <1>1
<1>4. Lacks(q, T) => Lacks(q2, T)
  BY <1>2 DEF Lacks
<1>5. Once(q, T) => Once(q2, T)
  BY <1>2, <1>1, SMTT(30) DEF Once
<1>6. \A b : Every(q, b) => Every(q2, b)
  BY <1>2 DEF Every
<1>7. Once(q, T) /\ Head(q).type \in T => Lacks(q2, T)
  BY <1>1, <1>2, <1>3 DEF Once, Lacks
<1>8. Head(q).type \in T => ~Lacks(q, T)
  BY <1>1, <1>3 DEF Lacks
<1>9. \A b : Every(q, b) /\ Head(q).type = "chunk" => Head(q).block = b
  BY <1>1, <1>3 DEF Every
<1>. QED
  BY <1>4, <1>5, <1>6, <1>7, <1>8, <1>9 DEF NoMore, q2

LEMMA NoMorePrefix ==
  ASSUME NEW q \in Seq(Msg), NEW n \in 0 .. Len(q), NEW T
  PROVE  NoMore(SubSeq(q, 1, n), q, T)
<1>. DEFINE q2 == SubSeq(q, 1, n)
<1>1. Len(q2) = n /\ \A i \in 1 .. n : q2[i] = q[i] /\ i \in 1 .. Len(q)
  OBVIOUS
<1>. HIDE DEF q2
<1>2. Lacks(q, T) => Lacks(q2, T)
  BY <1>1 DEF Lacks
<1>3. Once(q, T) => Once(q2, T)
  BY <1>1 DEF Once
<1>4. \A b : Every(q, b) => Every(q2, b)
  BY <1>1 DEF Every
<1>. QED
  BY <1>2, <1>3, <1>4 DEF NoMore, q2

\* The same for the channels of all streams: writing, reading, breaking.
LEMMA NoMorePut ==
  ASSUME NEW ch \in [Streams -> Seq(Msg)], NEW s \in Streams, NEW open,
         NEW m \in Msg, NEW T, m.type \notin T, m.type # "chunk", NEW t \in Streams
  PROVE  NoMore(Put(ch, s, open, m)[t], ch[t], T)
<1>1. CASE Dead(s, open) \/ t # s
  <2>1. Put(ch, s, open, m)[t] = ch[t]
    BY <1>1 DEF Put
  <2>. QED
    BY <2>1, NoMoreSame
<1>2. CASE ~Dead(s, open) /\ t = s
  <2>1. Put(ch, s, open, m)[t] = Append(ch[t], m)
    BY <1>2 DEF Put
  <2>. QED
    BY <2>1, NoMoreAppend
<1>. QED
  BY <1>1, <1>2

LEMMA NoMoreGet ==
  ASSUME NEW ch \in [Streams -> Seq(Msg)], NEW s \in Streams, ch[s] # <<>>, NEW T,
         NEW t \in Streams
  PROVE  NoMore(Get(ch, s)[t], ch[t], T)
<1>1. CASE t # s
  <2>1. Get(ch, s)[t] = ch[t]
    BY <1>1 DEF Get
  <2>. QED
    BY <2>1, NoMoreSame
<1>2. CASE t = s
  <2>1. Get(ch, s)[t] = Tail(ch[t])
    BY <1>2 DEF Get
  <2>. QED
    BY <2>1, <1>2, NoMoreTail
<1>. QED
  BY <1>1, <1>2

LEMMA NoMoreBreak ==
  ASSUME NEW ch \in [Streams -> Seq(Msg)], NEW s \in Streams, NEW n \in 0 .. Len(ch[s]),
         NEW T, NEW t \in Streams
  PROVE  NoMore([ch EXCEPT ![s] = SubSeq(@, 1, n)][t], ch[t], T)
<1>1. CASE t # s
  BY <1>1, NoMoreSame
<1>2. CASE t = s
  <2>1. [ch EXCEPT ![s] = SubSeq(@, 1, n)][t] = SubSeq(ch[t], 1, n)
    BY <1>2
  <2>. QED
    BY <2>1, <1>2, NoMorePrefix
<1>. QED
  BY <1>1, <1>2

(***************************************************************************)
(* Sender and receiver go in step on each stream.                          *)
(***************************************************************************)

Working(s) == rW[s] \in {"store", "mark", "sendack", "sendnack"}

\* Before the workers are spawned no stream has one.
Setup ==
  sPc \in {"start", "hello", "fileinfo", "streaminfo", "infoack"} =>
    \A s \in Streams : sW[s] \in {"none", "ready"}

\* Nothing about a block is under way on stream s.
Clear(s) == Lacks(toR[s], {"chunk"}) /\ ~Working(s) /\ Lacks(toS[s], Replies)

\* At most one thing is: a chunk, the receiver's work on it, or the reply.
OnItsWay(s) ==
  /\ Once(toR[s], {"chunk"}) /\ Once(toS[s], Replies)
  /\ Lacks(toR[s], {"chunk"}) \/ (~Working(s) /\ Lacks(toS[s], Replies))
  /\ ~Working(s) \/ Lacks(toS[s], Replies)

\* It is about the block in the sender's hand, and a good reply means that it is received.
Matches(s) ==
  /\ Every(toR[s], hand[s])
  /\ rW[s] \in {"store", "mark"} => job[s] = hand[s]
  /\ rW[s] = "sendack" => hand[s] \in received
  /\ ~Lacks(toS[s], {"chunkack"}) => hand[s] \in received

InStep(s) ==
  /\ sW[s] \notin {"await", "failed"} => Clear(s)
  /\ sW[s] = "await" => OnItsWay(s) /\ Matches(s)

Lockstep == \A s \in Streams : InStep(s)

\* A step that begins, moves or settles no block on stream s.
Undisturbed(s) ==
  /\ \/ sW'[s] = sW[s] /\ hand'[s] = hand[s]
     \/ sW'[s] = "failed"
     \/ sW[s] \notin {"await", "failed"} /\ sW'[s] \notin {"await", "failed"}
  /\ Working(s)' => rW'[s] = rW[s] /\ job'[s] = job[s]
  /\ received \subseteq received'
  /\ NoMore(toR'[s], toR[s], {"chunk"})
  /\ NoMore(toS'[s], toS[s], Replies)
  /\ NoMore(toS'[s], toS[s], {"chunkack"})

LEMMA UndisturbedInStep ==
  ASSUME NEW s \in Streams, InStep(s), Undisturbed(s)
  PROVE  InStep(s)'
<1>1. Working(s)' => Working(s) /\ rW'[s] = rW[s] /\ job'[s] = job[s]
  BY DEF Undisturbed, Working
<1>2. Clear(s) => Clear(s)'
  BY <1>1 DEF Clear, Undisturbed, NoMore
<1>3. CASE sW'[s] = sW[s] /\ hand'[s] = hand[s]
  <2>1. OnItsWay(s) => OnItsWay(s)'
    BY <1>1 DEF OnItsWay, Undisturbed, NoMore
  <2>2. Matches(s) => Matches(s)'
    <3>1. Every(toR[s], hand[s]) => Every(toR'[s], hand'[s])
      BY <1>3 DEF Undisturbed, NoMore
    <3>2. ~Lacks(toS'[s], {"chunkack"}) => ~Lacks(toS[s], {"chunkack"})
      BY DEF Undisturbed, NoMore
    <3>3. rW'[s] \in {"store", "mark", "sendack"} => rW'[s] = rW[s] /\ job'[s] = job[s]
      BY <1>1 DEF Working
    <3>4. received \subseteq received'
      BY DEF Undisturbed
    <3>. QED
      BY <1>3, <3>1, <3>2, <3>3, <3>4 DEF Matches
  <2>. QED
    BY <1>2, <1>3, <2>1, <2>2 DEF InStep
<1>4. CASE sW'[s] = "failed"
  BY <1>4 DEF InStep
<1>5. CASE sW[s] \notin {"await", "failed"} /\ sW'[s] \notin {"await", "failed"}
  BY <1>2, <1>5 DEF InStep
<1>. QED
  BY <1>3, <1>4, <1>5 DEF Undisturbed

LEMMA InitLockstep == Init => Setup /\ Lockstep
<1>. SUFFICES ASSUME Init PROVE Setup /\ Lockstep
  OBVIOUS
<1>1. Setup
  BY DEF Init, Setup
<1>2. ASSUME NEW s \in Streams PROVE InStep(s)
  <2>1. sW[s] = "none" /\ rW[s] = "none" /\ toR[s] = <<>> /\ toS[s] = <<>>
    BY DEF Init
  <2>2. Lacks(toR[s], {"chunk"}) /\ Lacks(toS[s], Replies)
    BY <2>1 DEF Lacks
  <2>. QED
    BY <2>1, <2>2 DEF InStep, Clear, Working
<1>. QED
  BY <1>1, <1>2 DEF Lockstep

\* Setting streams up and ending is no matter of blocks.
LEMMA SMainUndisturbed ==
  ASSUME TypeOK, Confirmed, Setup, SMain, NEW s \in Streams
  PROVE  Undisturbed(s)
<1>1. rW' = rW /\ job' = job /\ received' = received /\ hand' = hand
  BY DEF SMain, SHello, SFileInfo, SFileInfoAck, SHandshakeFail, SStreamInfo,
         SStreamInfoAck, SStreamInfoFail, SIncomplete, SCollect, SDone, SFinalAck,
         SFinalFail
<1>2. \/ sW'[s] = sW[s]
      \/ sW[s] \notin {"await", "failed"} /\ sW'[s] \notin {"await", "failed"}
  <2>1. CASE SStreamInfoAck
    BY <2>1 DEF SStreamInfoAck, SNextStream, SSpawn, TypeOK, Setup
  <2>2. CASE SStreamInfoFail
    BY <2>2 DEF SStreamInfoFail, SNextStream, SSpawn, TypeOK, Setup
  <2>3. CASE ~SStreamInfoAck /\ ~SStreamInfoFail
    BY <2>3 DEF SMain, SHello, SFileInfo, SFileInfoAck, SHandshakeFail,
       SStreamInfo, SIncomplete, SCollect, SDone, SFinalAck, SFinalFail
  <2>. QED
    BY <2>1, <2>2, <2>3
<1>3. ASSUME NEW T \in SUBSET BlockTypes PROVE NoMore(toR'[s], toR[s], T)
  <2>. PlainTypes \cap T = {} /\ "chunk" \notin PlainTypes
    BY DEF PlainTypes, BlockTypes
  <2>1. ASSUME NEW t \in PlainTypes
        PROVE  Plain(t) \in Msg /\ Plain(t).type \notin T /\ Plain(t).type # "chunk"
    BY MsgFacts DEF Plain
  <2>2. CASE SHello \/ SFileInfo \/ SStreamInfo \/ SDone
    <3>1. PICK t \in PlainTypes, z \in Streams : toR' = Put(toR, z, rOpen, Plain(t))
      BY <2>2 DEF SHello, SFileInfo, SStreamInfo, SDone, PlainTypes, Confirmed, TypeOK
    <3>. QED
      BY <2>1, <3>1, NoMorePut DEF TypeOK
  <2>3. CASE toR' = toR
    BY <2>3, NoMoreSame
  <2>. QED
    BY <2>2, <2>3 DEF SMain, SFileInfoAck, SHandshakeFail, SStreamInfoAck,
       SStreamInfoFail, SIncomplete, SCollect, SFinalAck, SFinalFail
<1>4. ASSUME NEW T PROVE NoMore(toS'[s], toS[s], T)
  <2>1. CASE SFileInfo \/ SFileInfoAck \/ SStreamInfoAck \/ SFinalAck
    <3>1. PICK z \in Streams : toS' = Get(toS, z) /\ toS[z] # <<>>
      BY <2>1 DEF SFileInfo, SFileInfoAck, SStreamInfoAck, SFinalAck, Holds, Confirmed, TypeOK
    <3>. QED
      BY <3>1, NoMoreGet DEF TypeOK
  <2>2. CASE toS' = toS
    BY <2>2, NoMoreSame
  <2>. QED
    BY <2>1, <2>2 DEF SMain, SHello, SHandshakeFail, SStreamInfo,
       SStreamInfoFail, SIncomplete, SCollect, SDone, SFinalFail
<1>5. {"chunk"} \in SUBSET BlockTypes
  BY DEF BlockTypes
<1>. QED
  BY <1>1, <1>2, <1>3, <1>4, <1>5 DEF Undisturbed, Working

LEMMA RMainUndisturbed ==
  ASSUME TypeOK, RMain, NEW s \in Streams
  PROVE  Undisturbed(s)
<1>1. sW' = sW /\ job' = job /\ received' = received /\ hand' = hand
  BY DEF RMain, RHello, RFileInfo, RHandshakeFail, RStreamInfo, RStreamInfoFail,
         RCollect, RVerify, RFinalAck, RFinalFail
<1>2. Working(s)' => rW'[s] = rW[s]
  <2>1. CASE RStreamInfo
    BY <2>1 DEF RStreamInfo, RNextStream, RSpawn, TypeOK, Working
  <2>2. CASE RStreamInfoFail
    BY <2>2 DEF RStreamInfoFail, RNextStream, RSpawn, TypeOK, Working
  <2>3. CASE ~RStreamInfo /\ ~RStreamInfoFail
    BY <2>3 DEF RMain, RHello, RFileInfo, RHandshakeFail, RCollect, RVerify,
       RFinalAck, RFinalFail
  <2>. QED
    BY <2>1, <2>2, <2>3
<1>3. ASSUME NEW T \in SUBSET BlockTypes PROVE NoMore(toS'[s], toS[s], T)
  <2>. PlainTypes \cap T = {} /\ "chunk" \notin PlainTypes
    BY DEF PlainTypes, BlockTypes
  <2>1. ASSUME NEW t \in PlainTypes
        PROVE  Plain(t) \in Msg /\ Plain(t).type \notin T /\ Plain(t).type # "chunk"
    BY MsgFacts DEF Plain
  <2>2. CASE RHello \/ RFileInfo \/ RStreamInfo \/ RFinalAck
    <3>1. PICK t \in PlainTypes, z \in Streams : toS' = Put(toS, z, sOpen, Plain(t))
      <4>1. CASE RFinalAck
        <5>1. {x \in Streams : rW[x] = "ok"} \in (SUBSET Streams) \ {{}}
          BY <4>1 DEF RFinalAck
        <5>2. ackStream' \in Streams
          BY <4>1, <5>1, MinOfStreams DEF RFinalAck
        <5>. QED
          BY <4>1, <5>2 DEF RFinalAck, PlainTypes
      <4>. QED
        BY <2>2, <4>1 DEF RHello, RFileInfo, RStreamInfo, PlainTypes, TypeOK
    <3>. QED
      BY <2>1, <3>1, NoMorePut DEF TypeOK
  <2>3. CASE toS' = toS
    BY <2>3, NoMoreSame
  <2>. QED
    BY <2>2, <2>3 DEF RMain, RHandshakeFail, RStreamInfoFail, RCollect, RVerify, RFinalFail
<1>4. ASSUME NEW T PROVE NoMore(toR'[s], toR[s], T)
  <2>1. CASE RHello \/ RFileInfo \/ RStreamInfo
    <3>1. PICK z \in Streams : toR' = Get(toR, z) /\ toR[z] # <<>>
      BY <2>1 DEF RHello, RFileInfo, RStreamInfo, Holds, TypeOK
    <3>. QED
      BY <3>1, NoMoreGet DEF TypeOK
  <2>2. CASE toR' = toR
    BY <2>2, NoMoreSame
  <2>. QED
    BY <2>1, <2>2 DEF RMain, RHandshakeFail, RStreamInfoFail, RCollect, RVerify,
       RFinalAck, RFinalFail
<1>5. {"chunkack"} \in SUBSET BlockTypes /\ Replies \in SUBSET BlockTypes
  BY DEF BlockTypes, Replies
<1>. QED
  BY <1>1, <1>2, <1>3, <1>4, <1>5 DEF Undisturbed, Working

LEMMA SetupKeeps == TypeOK /\ Setup /\ [Next]_vars => Setup'
<1>. SUFFICES ASSUME TypeOK, Setup, [Next]_vars PROVE Setup'
  OBVIOUS
<1>1. CASE SMain
  <2>1. CASE SStreamInfoAck
    BY <2>1 DEF SStreamInfoAck, SNextStream, Setup, TypeOK
  <2>2. CASE SStreamInfoFail
    BY <2>2 DEF SStreamInfoFail, SNextStream, SAbort, Setup, TypeOK
  <2>3. CASE ~SStreamInfoAck /\ ~SStreamInfoFail
    BY <1>1, <2>3 DEF SMain, SHello, SFileInfo, SFileInfoAck, SHandshakeFail,
       SStreamInfo, SIncomplete, SCollect, SDone, SFinalAck, SFinalFail, SAbort, Setup
  <2>. QED
    BY <2>1, <2>2, <2>3
<1>2. ASSUME NEW s \in Streams, SWorker(s) PROVE Setup'
  <2>1. (sW[s] \notin {"none", "ready"} /\ sPc' = sPc) \/ UNCHANGED vars
    BY <1>2 DEF SWorker, STake, SPoll, SFinish, SSend, SSendFail, SAck, SNack, SReply,
       SAckFail
  <2>. QED
    BY <2>1 DEF Setup, vars
<1>3. CASE sPc' = sPc /\ sW' = sW
  BY <1>3 DEF Setup
<1>4. ASSUME NEW s \in Streams, RWorker(s) \/ Flush(s) \/ Break(s)
      PROVE  sPc' = sPc /\ sW' = sW
  BY <1>4 DEF RWorker, RTop, RArm, RNotified, RReadFail, RChunk, RStore, RMark, RSendAck,
     RSendNack, RReply, RSendFail, RDone, RDoneSeen, Flush, Break
<1>5. CASE RMain \/ Over \/ UNCHANGED vars
  BY <1>3, <1>5 DEF RMain, RHello, RFileInfo, RHandshakeFail, RStreamInfo, RStreamInfoFail,
     RCollect, RVerify, RFinalAck, RFinalFail, Over, vars
<1>. QED
  BY <1>1, <1>2, <1>3, <1>4, <1>5 DEF Next

\* What is written to a channel that lacks its kind is the only one of it there.
LEMMA PutOne ==
  ASSUME NEW ch \in [Streams -> Seq(Msg)], NEW s \in Streams, NEW open,
         NEW m \in Msg, NEW T, Lacks(ch[s], T)
  PROVE  /\ Once(Put(ch, s, open, m)[s], T)
         /\ T = {"chunk"} => Every(Put(ch, s, open, m)[s], m.block)
<1>. DEFINE q == ch[s]
            q2 == Put(ch, s, open, m)[s]
<1>1. CASE Dead(s, open)
  <2>1. q2 = q
    BY <1>1 DEF Put
  <2>. HIDE DEF q2
  <2>. QED
    BY <2>1 DEF Lacks, Once, Every, q2
<1>2. CASE ~Dead(s, open)
  <2>1. q \in Seq(Msg) /\ q2 = Append(q, m)
    BY <1>2 DEF Put
  <2>. HIDE DEF q, q2
  <2>2. /\ Len(q) \in Nat /\ Len(q2) = Len(q) + 1 /\ q2[Len(q) + 1] = m
        /\ \A i \in 1 .. Len(q) : q2[i] = q[i]
    BY <2>1
  <2>3. \A i \in 1 .. Len(q2) : q2[i].type \in T => i = Len(q) + 1
    BY <2>2 DEF Lacks, q
  <2>. QED
    BY <2>2, <2>3 DEF Once, Every, q, q2
<1>. QED
  BY <1>1, <1>2

\* A channel that lacks replies lacks good ones.
LEMMA LacksFewer ==
  ASSUME NEW q
  PROVE  /\ Lacks(q, Replies) => Lacks(q, {"chunkack"}) /\ Once(q, Replies)
         /\ Lacks(q, {"chunk"}) => Once(q, {"chunk"}) /\ \A b : Every(q, b)
BY DEF Lacks, Once, Every, Replies

LEMMA SWorkerInStep ==
  ASSUME TypeOK, Busy, Lockstep, NEW s \in Streams, SWorker(s)
  PROVE  Lockstep'
<1>1. rW' = rW /\ job' = job /\ received' = received
  BY DEF SWorker, STake, SPoll, SFinish, SSend, SSendFail, SAck, SNack, SReply,
         SAckFail, vars
<1>2. InStep(s)
  BY DEF Lockstep
<1>3. ASSUME NEW t \in Streams, t # s PROVE InStep(t)'
  <2>1. sW'[t] = sW[t] /\ hand'[t] = hand[t] /\ toR'[t] = toR[t] /\ toS'[t] = toS[t]
    BY <1>3 DEF SWorker, STake, SPoll, SFinish, SSend, SSendFail, SAck, SNack, SReply,
         SAckFail, vars, TypeOK, Put, Get
  <2>2. Undisturbed(t)
    BY <1>1, <2>1, NoMoreSame DEF Undisturbed
  <2>. QED
    BY <2>2, UndisturbedInStep DEF Lockstep
<1>. SUFFICES InStep(s)'
  BY <1>3 DEF Lockstep
<1>4. CASE STake(s) \/ SPoll(s) \/ SFinish(s) \/ SSendFail(s) \/ SAckFail(s)
  <2>1. toR'[s] = toR[s] /\ toS'[s] = toS[s]
    BY <1>4 DEF STake, SPoll, SFinish, SSendFail, SAckFail, vars
  <2>2. \/ sW'[s] = sW[s] /\ hand'[s] = hand[s]
        \/ sW'[s] = "failed"
        \/ sW[s] \notin {"await", "failed"} /\ sW'[s] \notin {"await", "failed"}
    BY <1>4 DEF STake, SPoll, SFinish, SSendFail, SAckFail, vars, TypeOK
  <2>3. Undisturbed(s)
    BY <1>1, <2>1, <2>2, NoMoreSame DEF Undisturbed
  <2>. QED
    BY <1>2, <2>3, UndisturbedInStep
<1>5. CASE SSend(s)
  <2>1. sW[s] = "send" /\ sW'[s] = "await" /\ hand' = hand /\ toS' = toS
    BY <1>5 DEF SSend, TypeOK
  <2>2. Clear(s)
    BY <1>2, <2>1 DEF InStep
  <2>3. /\ toR' = Put(toR, s, rOpen, About("chunk", hand[s]))
        /\ About("chunk", hand[s]) \in Msg /\ About("chunk", hand[s]).block = hand[s]
    BY <1>5, MsgFacts DEF SSend, Busy, BlockTypes, About
  <2>4. Once(toR'[s], {"chunk"}) /\ Every(toR'[s], hand[s])
    BY <2>2, <2>3, PutOne DEF Clear, TypeOK
  <2>5. OnItsWay(s)'
    BY <1>1, <2>1, <2>2, <2>4, LacksFewer DEF OnItsWay, Clear, Working
  <2>6. Matches(s)'
    BY <1>1, <2>1, <2>2, <2>4, LacksFewer DEF Matches, Clear, Working
  <2>. QED
    BY <2>1, <2>5, <2>6 DEF InStep
<1>6. CASE SAck(s) \/ SNack(s)
  <2>1. /\ sW[s] = "await" /\ sW'[s] = "idle" /\ toR' = toR
        /\ toS[s] # <<>> /\ Head(toS[s]).type \in Replies /\ toS'[s] = Tail(toS[s])
    BY <1>6 DEF SAck, SNack, SReply, Holds, Get, Replies, TypeOK
  <2>2. OnItsWay(s)
    BY <1>2, <2>1 DEF InStep
  <2>3. ~Lacks(toS[s], Replies) /\ Lacks(toS'[s], Replies)
    BY <2>1, <2>2, NoMoreTail DEF OnItsWay, TypeOK
  <2>4. Clear(s)'
    BY <1>1, <2>1, <2>2, <2>3 DEF Clear, OnItsWay, Working
  <2>. QED
    BY <2>1, <2>4 DEF InStep
<1>. QED
  BY <1>4, <1>5, <1>6 DEF SWorker

LEMMA RWorkerInStep ==
  ASSUME TypeOK, Busy, Lockstep, NEW s \in Streams, RWorker(s)
  PROVE  Lockstep'
<1>1. sW' = sW /\ hand' = hand /\ received \subseteq received'
  BY DEF RWorker, RTop, RArm, RNotified, RReadFail, RChunk, RStore, RMark, RSendAck,
         RSendNack, RReply, RSendFail, RDone, RDoneSeen
<1>2. InStep(s)
  BY DEF Lockstep
<1>3. ASSUME NEW t \in Streams, t # s PROVE InStep(t)'
  <2>1. rW'[t] = rW[t] /\ job'[t] = job[t] /\ toR'[t] = toR[t] /\ toS'[t] = toS[t]
    BY <1>3, SMTT(30) DEF RWorker, RTop, RArm, RNotified, RReadFail, RChunk, RStore, RMark,
         RSendAck, RSendNack, RReply, RSendFail, RDone, RDoneSeen, TypeOK, Put, Get
  <2>2. Undisturbed(t)
    BY <1>1, <2>1, NoMoreSame DEF Undisturbed
  <2>. QED
    BY <2>2, UndisturbedInStep DEF Lockstep
<1>. SUFFICES InStep(s)'
  BY <1>3 DEF Lockstep
<1>4. CASE RTop(s) \/ RArm(s) \/ RNotified(s) \/ RReadFail(s) \/ RSendFail(s) \/ RDone(s)
  <2>1. ~Working(s)'
    BY <1>4 DEF RTop, RArm, RNotified, RReadFail, RSendFail, RDone, RDoneSeen, TypeOK,
       Working
  <2>2. toS'[s] = toS[s]
    BY <1>4 DEF RTop, RArm, RNotified, RReadFail, RSendFail, RDone
  <2>3. NoMore(toR'[s], toR[s], {"chunk"})
    <3>1. CASE RDone(s)
      BY <3>1, NoMoreGet DEF RDone, RDoneSeen, Holds, TypeOK
    <3>2. CASE ~RDone(s)
      BY <1>4, <3>2, NoMoreSame DEF RTop, RArm, RNotified, RReadFail, RSendFail
    <3>. QED
      BY <3>1, <3>2
  <2>4. Undisturbed(s)
    BY <1>1, <2>1, <2>2, <2>3, NoMoreSame DEF Undisturbed
  <2>. QED
    BY <1>2, <2>4, UndisturbedInStep
<1>5. CASE sW[s] = "failed"
  BY <1>1, <1>5 DEF InStep
<1>6. CASE RChunk(s) /\ sW[s] # "failed"
  <2>1. /\ toR[s] # <<>> /\ Head(toR[s]).type \in {"chunk"} /\ toR'[s] = Tail(toR[s])
        /\ job'[s] = Head(toR[s]).block /\ toS' = toS /\ received' = received
        /\ rW[s] = "read" /\ rW'[s] \in {"store", "sendnack"}
    BY <1>6 DEF RChunk, Holds, Get, TypeOK
  <2>2. ~Lacks(toR[s], {"chunk"})
    BY <2>1, NoMoreTail DEF TypeOK
  <2>3. sW[s] = "await" /\ OnItsWay(s) /\ Matches(s) /\ Lacks(toS[s], Replies)
    BY <1>2, <1>6, <2>2 DEF InStep, Clear, OnItsWay
  <2>4. /\ Lacks(toR'[s], {"chunk"})
        /\ Head(toR[s]).block = hand[s]
    BY <2>1, <2>3, NoMoreTail DEF TypeOK, OnItsWay, Matches
  <2>5. OnItsWay(s)'
    BY <2>1, <2>3, <2>4, LacksFewer DEF OnItsWay
  <2>6. Matches(s)'
    BY <1>1, <2>1, <2>3, <2>4, LacksFewer DEF Matches
  <2>. QED
    BY <1>1, <2>3, <2>5, <2>6 DEF InStep
<1>7. CASE (RStore(s) \/ RMark(s)) /\ sW[s] # "failed"
  <2>1. /\ toR' = toR /\ toS' = toS /\ job' = job /\ Working(s) /\ Working(s)'
        /\ \/ rW[s] = "store" /\ rW'[s] = "mark"
           \/ rW[s] = "mark" /\ rW'[s] = "sendack" /\ job[s] \in received'
    BY <1>7 DEF RStore, RMark, TypeOK, Working
  <2>2. sW[s] = "await" /\ OnItsWay(s) /\ Matches(s)
    BY <1>2, <1>7, <2>1 DEF InStep, Clear
  <2>3. OnItsWay(s)'
    BY <2>1, <2>2 DEF OnItsWay
  <2>4. Matches(s)'
    BY <1>1, <2>1, <2>2 DEF Matches
  <2>. QED
    BY <1>1, <2>2, <2>3, <2>4 DEF InStep
<1>8. ASSUME NEW type \in Replies, NEW state,
             RReply(s, state, type), state = IF type = "chunkack" THEN "sendack" ELSE "sendnack",
             sW[s] # "failed"
      PROVE  InStep(s)'
  <2>1. /\ Working(s) /\ rW[s] = state /\ ~Working(s)' /\ rW'[s] = "top"
        /\ toR' = toR /\ received' = received
        /\ toS' = Put(toS, s, sOpen, About(type, job[s])) /\ job[s] \in Blocks
    BY <1>8 DEF RReply, Working, TypeOK, Busy, Replies
  <2>2. sW[s] = "await" /\ OnItsWay(s) /\ Matches(s)
    BY <1>2, <1>8, <2>1 DEF InStep, Clear
  <2>3. Lacks(toS[s], Replies) /\ Lacks(toR[s], {"chunk"})
    BY <2>1, <2>2 DEF OnItsWay
  <2>4. /\ About(type, job[s]) \in Msg
        /\ About(type, job[s]).type = type /\ type # "chunk"
    BY <2>1, MsgFacts DEF About, BlockTypes, Replies
  <2>5. Once(toS'[s], Replies)
    BY <2>1, <2>3, <2>4, PutOne DEF TypeOK
  <2>6. OnItsWay(s)'
    BY <2>1, <2>2, <2>3, <2>5 DEF OnItsWay
  <2>7. ~Lacks(toS'[s], {"chunkack"}) => hand[s] \in received
    <3>1. CASE type = "chunkack"
      BY <1>8, <2>1, <2>2, <3>1 DEF Matches
    <3>2. CASE type # "chunkack"
      <4>1. NoMore(toS'[s], toS[s], {"chunkack"})
        BY <2>1, <2>4, <3>2, NoMorePut DEF TypeOK
      <4>. QED
        BY <2>3, <4>1, LacksFewer DEF NoMore
    <3>. QED
      BY <3>1, <3>2
  <2>8. Matches(s)'
    BY <1>1, <2>1, <2>2, <2>7 DEF Matches
  <2>. QED
    BY <1>1, <2>2, <2>6, <2>8 DEF InStep
<1>9. CASE (RSendAck(s) \/ RSendNack(s)) /\ sW[s] # "failed"
  BY <1>8, <1>9 DEF RSendAck, RSendNack, Replies
<1>. QED
  BY <1>4, <1>5, <1>6, <1>7, <1>9 DEF RWorker

LEMMA EnvironmentInStep ==
  ASSUME TypeOK, Lockstep, NEW s \in Streams, Flush(s) \/ Break(s)
  PROVE  Lockstep'
<1>1. sW' = sW /\ hand' = hand /\ rW' = rW /\ job' = job /\ received' = received
  BY DEF Flush, Break
<1>2. ASSUME NEW t \in Streams, NEW T
      PROVE  NoMore(toR'[t], toR[t], T) /\ NoMore(toS'[t], toS[t], T)
  <2>1. CASE Flush(s)
    BY <2>1, NoMoreSame DEF Flush
  <2>2. CASE Break(s)
    <3>1. NoMore(toR'[t], toR[t], T)
      <4>1. PICK n \in 0 .. Len(toR[s]) : toR' = [toR EXCEPT ![s] = SubSeq(@, 1, n)]
        BY <2>2 DEF Break
      <4>. QED
        BY <4>1, NoMoreBreak DEF TypeOK
    <3>2. NoMore(toS'[t], toS[t], T)
      <4>1. PICK n \in 0 .. Len(toS[s]) : toS' = [toS EXCEPT ![s] = SubSeq(@, 1, n)]
        BY <2>2 DEF Break
      <4>. QED
        BY <4>1, NoMoreBreak DEF TypeOK
    <3>. QED
      BY <3>1, <3>2
  <2>. QED
    BY <2>1, <2>2
<1>3. ASSUME NEW t \in Streams PROVE InStep(t)'
  <2>1. Undisturbed(t)
    BY <1>1, <1>2 DEF Undisturbed
  <2>. QED
    BY <2>1, UndisturbedInStep DEF Lockstep
<1>. QED
  BY <1>3 DEF Lockstep

LEMMA NextLockstep == IInv /\ Setup /\ Lockstep /\ [Next]_vars => Lockstep'
<1>. SUFFICES ASSUME TypeOK, Busy, Confirmed, Setup, Lockstep, [Next]_vars PROVE Lockstep'
  BY DEF IInv
<1>1. CASE SMain \/ RMain
  BY <1>1, SMainUndisturbed, RMainUndisturbed, UndisturbedInStep DEF Lockstep
<1>2. ASSUME NEW s \in Streams, SWorker(s) \/ RWorker(s) \/ Flush(s) \/ Break(s)
      PROVE  Lockstep'
  BY <1>2, SWorkerInStep, RWorkerInStep, EnvironmentInStep
<1>3. CASE Over \/ UNCHANGED vars
  <2>1. UNCHANGED vars
    BY <1>3 DEF Over
  <2>. QED
    BY <2>1 DEF vars, Lockstep, InStep, Clear, OnItsWay, Matches, Working
<1>. QED
  BY <1>1, <1>2, <1>3 DEF Next

(***************************************************************************)
(* The sender's books.                                                     *)
(***************************************************************************)

Elements(q) == {q[i] : i \in DOMAIN q}
Distinct(q) == \A i, j \in DOMAIN q : q[i] = q[j] => i = j

\* Each block is in one place, and completed_chunks counts those that are in none.
Books ==
  /\ Distinct(pending)
  /\ \A s, t \in Streams : hand[s] = hand[t] /\ hand[s] # NoBlock => s = t
  /\ \A s \in Streams : hand[s] \notin Elements(pending)
  /\ \A s \in Streams : sW[s] \notin {"send", "await", "failed"} => hand[s] = NoBlock
  /\ completed = Cardinality(Settled)

LEMMA TakeFirst ==
  ASSUME NEW q \in Seq(Blocks), q # <<>>, Distinct(q)
  PROVE  /\ Distinct(Tail(q)) /\ Elements(Tail(q)) = Elements(q) \ {Head(q)}
         /\ Head(q) \in Elements(q) /\ Head(q) \in Blocks
<1>. DEFINE r == Tail(q)
<1>1. /\ Len(q) \in Nat \ {0} /\ DOMAIN q = 1 .. Len(q)
      /\ Head(q) = q[1] /\ Head(q) \in Blocks
      /\ DOMAIN r = 1 .. Len(q) - 1 /\ \A i \in DOMAIN r : r[i] = q[i + 1]
  OBVIOUS
<1>2. 1 \in DOMAIN q
  BY <1>1
<1>3. Head(q) \in Elements(q)
  BY <1>1, <1>2 DEF Elements
<1>. HIDE DEF r
<1>4. \A i \in DOMAIN r : i + 1 \in DOMAIN q /\ i + 1 # 1
  BY <1>1
<1>5. Distinct(r)
  BY <1>1, <1>4 DEF Distinct
<1>6. \A i \in DOMAIN r : r[i] \in Elements(q) /\ r[i] # Head(q)
  BY <1>1, <1>4 DEF Elements, Distinct
<1>7. \A j \in DOMAIN q : j = 1 \/ (j - 1 \in DOMAIN r /\ r[j - 1] = q[j])
  BY <1>1
<1>8. Elements(r) = Elements(q) \ {Head(q)}
  BY <1>1, <1>6, <1>7 DEF Elements
<1>. QED
  BY <1>1, <1>5, <1>8, <1>3 DEF r

LEMMA PutBack ==
  ASSUME NEW q \in Seq(Blocks), Distinct(q), NEW b \in Blocks, b \notin Elements(q)
  PROVE  Distinct(Append(q, b)) /\ Elements(Append(q, b)) = Elements(q) \cup {b}
<1>. DEFINE r == Append(q, b)
<1>1. /\ Len(q) \in Nat /\ DOMAIN q = 1 .. Len(q)
      /\ DOMAIN r = 1 .. Len(q) + 1 /\ r[Len(q) + 1] = b
      /\ \A i \in DOMAIN q : r[i] = q[i]
  OBVIOUS
<1>. HIDE DEF r
<1>2. DOMAIN r = DOMAIN q \cup {Len(q) + 1}
  BY <1>1
<1>3. Distinct(r)
  BY <1>1, <1>2 DEF Distinct, Elements
<1>4. Elements(r) = Elements(q) \cup {b}
  BY <1>1, <1>2 DEF Elements
<1>. QED
  BY <1>3, <1>4 DEF r

\* The blocks are as many as NumBlocks says, and so is every set of them finite.
LEMMA BlocksFinite ==
  /\ IsFiniteSet(Blocks) /\ Cardinality(Blocks) = NumBlocks
  /\ \A S \in SUBSET Blocks : IsFiniteSet(S) /\ (Cardinality(S) = NumBlocks => S = Blocks)
<1>1. IsFiniteSet(Blocks) /\ Cardinality(Blocks) = NumBlocks
  BY FS_Interval, TransferAssumption DEF Blocks
<1>. QED
  BY <1>1, FS_Subset

LEMMA InitBooks == Init => Books
<1>. SUFFICES ASSUME Init PROVE Books
  OBVIOUS
<1>1. /\ DOMAIN pending = 1 .. NumBlocks
      /\ \A i \in 1 .. NumBlocks : pending[i] = i - 1
  BY DEF Init
<1>2. Distinct(pending)
  BY <1>1, TransferAssumption DEF Distinct
<1>3. \A b \in Blocks : b + 1 \in DOMAIN pending /\ pending[b + 1] = b
  BY <1>1, TransferAssumption DEF Blocks
<1>4. Settled = {}
  BY <1>3 DEF Settled, InQueue
<1>5. \A i \in DOMAIN pending : pending[i] # NoBlock
  BY <1>1, TransferAssumption DEF NoBlock
<1>6. \A s \in Streams : hand[s] = NoBlock
  BY DEF Init
<1>7. completed = Cardinality(Settled)
  BY <1>4, FS_EmptySet DEF Init
<1>. QED
  BY <1>2, <1>5, <1>6, <1>7 DEF Books, Elements

\* A block settles only when its good reply is read.
LEMMA SWorkerBooks ==
  ASSUME TypeOK, Busy, Books, NEW s \in Streams, SWorker(s)
  PROVE  /\ Books'
         /\ Settled' = Settled \/ (SAck(s) /\ Settled' = Settled \cup {hand[s]})
<1>. USE DEF TypeOK
<1>1. InQueue = Elements(pending) /\ InQueue' = Elements(pending')
  BY DEF InQueue, Elements
<1>2. CASE STake(s)
  <2>. DEFINE b == Head(pending)
  <2>1. /\ hand[s] = NoBlock /\ sW'[s] = "send" /\ hand'[s] = b /\ completed' = completed
        /\ \A t \in Streams : t # s => hand'[t] = hand[t] /\ sW'[t] = sW[t]
        /\ pending # <<>> /\ pending' = Tail(pending)
    BY <1>2 DEF STake, Books
  <2>2. /\ Distinct(pending') /\ Elements(pending') = Elements(pending) \ {b}
        /\ b \in Elements(pending) /\ b \in Blocks
    BY <2>1, TakeFirst DEF Books
  <2>. HIDE DEF b
  <2>3. b # NoBlock /\ NoBlock \notin Blocks
    BY <2>2, TransferAssumption DEF Blocks, NoBlock
  <2>4. Settled' = Settled
    BY <1>1, <2>1, <2>2, <2>3, ZenonT(30) DEF Settled
  <2>5. \A t \in Streams : t # s => hand'[t] # b
    BY <2>1, <2>2 DEF Books
  <2>6. ASSUME NEW r \in Streams, NEW t \in Streams,
               hand'[r] = hand'[t], hand'[r] # NoBlock
        PROVE  r = t
    <3>1. CASE r # s /\ t # s
      BY <2>1, <2>6, <3>1 DEF Books
    <3>2. CASE r = s \/ t = s
      BY <2>1, <2>6, <2>5, <3>2
    <3>. QED
      BY <3>1, <3>2
  <2>7. \A t \in Streams : hand'[t] \notin Elements(pending')
    BY <2>1, <2>2 DEF Books
  <2>8. \A t \in Streams : sW'[t] \notin {"send", "await", "failed"} => hand'[t] = NoBlock
    BY <2>1 DEF Books
  <2>. QED
    BY <2>1, <2>2, <2>4, <2>6, <2>7, <2>8 DEF Books
<1>3. CASE SPoll(s) \/ SFinish(s) \/ SSend(s) \/ SSendFail(s)
  <2>1. pending' = pending /\ hand' = hand /\ completed' = completed
    BY <1>3 DEF SPoll, SFinish, SSend, SSendFail, vars
  <2>2. Settled' = Settled
    BY <1>1, <2>1 DEF Settled
  <2>3. \A t \in Streams : sW'[t] \notin {"send", "await", "failed"} =>
                             sW[t] \notin {"send", "await", "failed"}
    BY <1>3 DEF SPoll, SFinish, SSend, SSendFail, vars
  <2>. QED
    BY <2>1, <2>2, <2>3 DEF Books
<1>4. CASE SAck(s)
  <2>1. /\ hand[s] \in Blocks /\ hand'[s] = NoBlock /\ pending' = pending
        /\ completed' = completed + 1
        /\ \A t \in Streams : t # s => hand'[t] = hand[t] /\ sW'[t] = sW[t]
    BY <1>4 DEF SAck, SReply, Busy
  <2>2. \A i \in DOMAIN pending : pending[i] \in Blocks
    OBVIOUS
  <2>3. NoBlock \notin Blocks
    BY TransferAssumption DEF Blocks, NoBlock
  <2>4. NoBlock \notin Blocks /\ Elements(pending) \subseteq Blocks
    BY <2>2, <2>3 DEF Elements
  <2>5. \A t \in Streams : t # s => hand[t] # hand[s]
    BY <2>1, <2>4 DEF Books
  <2>6. hand[s] \notin Elements(pending)
    BY DEF Books
  <2>7. Settled' = Settled \cup {hand[s]} /\ hand[s] \notin Settled
    <3>1. hand[s] \notin Settled
      BY DEF Settled
    <3>2. hand[s] \in Settled'
      BY <1>1, <2>1, <2>4, <2>5, <2>6 DEF Settled
    <3>3. \A b \in Blocks \ {hand[s]} : b \in Settled' <=> b \in Settled
      BY <1>1, <2>1, <2>4 DEF Settled
    <3>4. Settled \subseteq Blocks /\ Settled' \subseteq Blocks
      BY DEF Settled
    <3>. QED
      BY <3>1, <3>2, <3>3, <3>4
  <2>8. completed' = Cardinality(Settled')
    <3>1. IsFiniteSet(Settled)
      BY BlocksFinite DEF Settled
    <3>. QED
      BY <2>1, <2>7, <3>1, FS_AddElement DEF Books
  <2>9. \A r, t \in Streams : hand'[r] = hand'[t] /\ hand'[r] # NoBlock => r = t
    BY <2>1 DEF Books
  <2>10. \A t \in Streams : hand'[t] \notin Elements(pending')
    BY <2>1, <2>4 DEF Books
  <2>11. \A t \in Streams : sW'[t] \notin {"send", "await", "failed"} => hand'[t] = NoBlock
    BY <2>1 DEF Books
  <2>. QED
    BY <1>4, <2>1, <2>7, <2>8, <2>9, <2>10, <2>11 DEF Books
<1>5. CASE SNack(s) \/ SAckFail(s)
  <2>1. /\ hand[s] \in Blocks /\ hand'[s] = NoBlock /\ pending' = Append(pending, hand[s])
        /\ completed' = completed
        /\ \A t \in Streams : t # s => hand'[t] = hand[t] /\ sW'[t] = sW[t]
    BY <1>5 DEF SNack, SReply, SAckFail, Busy
  <2>2. NoBlock \notin Blocks
    BY TransferAssumption DEF Blocks, NoBlock
  <2>3. hand[s] \notin Elements(pending) /\ Distinct(pending)
    BY DEF Books
  <2>4. Distinct(pending') /\ Elements(pending') = Elements(pending) \cup {hand[s]}
    BY <2>1, <2>3, PutBack
  <2>5. /\ NoBlock \notin Blocks
        /\ Distinct(pending') /\ Elements(pending') = Elements(pending) \cup {hand[s]}
    BY <2>2, <2>4
  <2>6. \A i \in DOMAIN pending : pending[i] \in Blocks
    OBVIOUS
  <2>7. Elements(pending) \subseteq Blocks
    BY <2>6 DEF Elements
  <2>8. Settled' = Settled
    BY <1>1, <2>1, <2>5 DEF Settled
  <2>9. \A r, t \in Streams : hand'[r] = hand'[t] /\ hand'[r] # NoBlock => r = t
    BY <2>1 DEF Books
  <2>10. ASSUME NEW t \in Streams PROVE hand'[t] \notin Elements(pending')
    <3>1. CASE t = s
      BY <2>1, <2>5, <2>7, <3>1
    <3>2. CASE t # s
      <4>1. hand[t] \notin Elements(pending)
        BY DEF Books
      <4>2. hand[t] # hand[s]
        BY <2>1, <2>2, <3>2 DEF Books
      <4>. QED
        BY <2>1, <2>4, <3>2, <4>1, <4>2
    <3>. QED
      BY <3>1, <3>2
  <2>11. \A t \in Streams : sW'[t] \notin {"send", "await", "failed"} => hand'[t] = NoBlock
    BY <2>1 DEF Books
  <2>. QED
    BY <2>1, <2>5, <2>8, <2>9, <2>10, <2>11 DEF Books
<1>. QED
  BY <1>2, <1>3, <1>4, <1>5 DEF SWorker

\* Nobody else touches them.
LEMMA NextBooks ==
  ASSUME TypeOK, Busy, Setup, Books, [Next]_vars
  PROVE  /\ Books'
         /\ \/ Settled' = Settled
            \/ \E s \in Streams : SAck(s) /\ Settled' = Settled \cup {hand[s]}
<1>1. ASSUME NEW s \in Streams, SWorker(s)
      PROVE  /\ Books'
             /\ Settled' = Settled \/ (SAck(s) /\ Settled' = Settled \cup {hand[s]})
  BY <1>1, SWorkerBooks
<1>2. CASE \A s \in Streams : ~SWorker(s)
  <2>1. pending' = pending /\ hand' = hand /\ completed' = completed
    BY <1>2 DEF Next, vars, Over, Flush, Break,
       SMain, SHello, SFileInfo, SFileInfoAck, SHandshakeFail, SStreamInfo,
       SStreamInfoAck, SStreamInfoFail, SIncomplete, SCollect, SDone, SFinalAck,
       SFinalFail, RMain, RHello, RFileInfo, RHandshakeFail, RStreamInfo,
       RStreamInfoFail, RCollect, RVerify, RFinalAck, RFinalFail,
       RWorker, RTop, RArm, RNotified, RReadFail, RChunk, RStore, RMark,
       RSendAck, RSendNack, RReply, RSendFail, RDone, RDoneSeen
  <2>2. Settled' = Settled
    BY <2>1 DEF Settled, InQueue
  <2>3. ASSUME NEW s \in Streams, sW'[s] \notin {"send", "await", "failed"}
        PROVE  sW[s] \notin {"send", "await", "failed"}
    <3>1. CASE SStreamInfoAck \/ SStreamInfoFail
      <4>1. sPc \in {"streaminfo", "infoack"}
        BY <3>1 DEF SStreamInfoAck, SStreamInfoFail
      <4>2. sW[s] \in {"none", "ready"}
        BY <4>1 DEF Setup
      <4>. QED
        BY <4>2
    <3>2. CASE ~(SStreamInfoAck \/ SStreamInfoFail)
      <4>1. sW' = sW
        BY <1>2, <3>2 DEF Next, vars, Over, Flush, Break,
           SMain, SHello, SFileInfo, SFileInfoAck, SHandshakeFail, SStreamInfo,
           SIncomplete, SCollect, SDone, SFinalAck,
           SFinalFail, RMain, RHello, RFileInfo, RHandshakeFail, RStreamInfo,
           RStreamInfoFail, RCollect, RVerify, RFinalAck, RFinalFail,
           RWorker, RTop, RArm, RNotified, RReadFail, RChunk, RStore, RMark,
           RSendAck, RSendNack, RReply, RSendFail, RDone, RDoneSeen
      <4>. QED
        BY <2>3, <4>1
    <3>. QED
      BY <3>1, <3>2
  <2>. QED
    BY <2>1, <2>2, <2>3 DEF Books
<1>. QED
  BY <1>1, <1>2

\* Received blocks stay received.
LEMMA ReceivedGrows == TypeOK /\ [Next]_vars => received \subseteq received'
<1>. SUFFICES ASSUME TypeOK, [Next]_vars PROVE received \subseteq received'
  OBVIOUS
<1>1. CASE \E s \in Streams : RMark(s)
  BY <1>1 DEF RMark
<1>2. CASE \A s \in Streams : ~RMark(s)
  <2>1. received' = received
    BY <1>2 DEF Next, vars, Over, Flush, Break,
       SMain, SHello, SFileInfo, SFileInfoAck, SHandshakeFail, SStreamInfo,
       SStreamInfoAck, SStreamInfoFail, SIncomplete, SCollect, SDone, SFinalAck,
       SFinalFail, RMain, RHello, RFileInfo, RHandshakeFail, RStreamInfo,
       RStreamInfoFail, RCollect, RVerify, RFinalAck, RFinalFail,
       SWorker, STake, SPoll, SFinish, SSend, SSendFail, SAck, SNack, SReply,
       SAckFail, RWorker, RTop, RArm, RNotified, RReadFail, RChunk, RStore,
       RSendAck, RSendNack, RReply, RSendFail, RDone, RDoneSeen
  <2>. QED
    BY <2>1
<1>. QED
  BY <1>1, <1>2

\* A good reply is about the block in hand, and that block is received.
LEMMA NextSettled ==
  ASSUME IInv, Setup, Lockstep, Books, SettledIsReceived, [Next]_vars
  PROVE  SettledIsReceived'
<1>. USE DEF IInv
<1>1. received \subseteq received'
  BY ReceivedGrows
<1>2. ASSUME NEW s \in Streams, SAck(s) PROVE hand[s] \in received
  <2>1. sW[s] = "await" /\ toS[s] # <<>> /\ Head(toS[s]).type = "chunkack"
    BY <1>2 DEF SAck, SReply, Holds
  <2>2. Matches(s)
    BY <2>1 DEF Lockstep, InStep
  <2>3. ~Lacks(toS[s], {"chunkack"})
    <3>1. toS[s] \in Seq(Msg)
      BY DEF TypeOK
    <3>. QED
      BY <2>1, <3>1, NoMoreTail
  <2>. QED
    BY <2>2, <2>3 DEF Matches
<1>. QED
  BY <1>1, <1>2, NextBooks DEF SettledIsReceived

(***************************************************************************)
(* What DONE means.                                                        *)
(***************************************************************************)

\* DONE is only decided, under way or read when every block has been received.
DoneTold ==
  /\ sPc \in {"done", "finalack", "ok"} => received = Blocks
  /\ doneReceived => received = Blocks
  /\ \A s \in Streams : ~Lacks(toR[s], {"done"}) => received = Blocks

\* Only writing DONE puts it on a channel that has none.
LEMMA NoDonePut ==
  ASSUME NEW ch \in [Streams -> Seq(Msg)], NEW s \in Streams, NEW open,
         NEW m \in Msg, m.type # "done", NEW t \in Streams, Lacks(ch[t], {"done"})
  PROVE  Lacks(Put(ch, s, open, m)[t], {"done"})
<1>1. CASE Dead(s, open) \/ t # s
  <2>1. Put(ch, s, open, m)[t] = ch[t]
    BY <1>1 DEF Put
  <2>. QED
    BY <2>1
<1>2. CASE ~Dead(s, open) /\ t = s
  <2>. DEFINE q == ch[t]
              q2 == Append(q, m)
  <2>1. Put(ch, s, open, m)[t] = q2
    BY <1>2 DEF Put
  <2>2. /\ Len(q) \in Nat /\ Len(q2) = Len(q) + 1 /\ q2[Len(q) + 1] = m
        /\ \A i \in 1 .. Len(q) : q2[i] = q[i]
    OBVIOUS
  <2>. HIDE DEF q2
  <2>3. \A i \in 1 .. Len(q2) : q2[i].type # "done"
    BY <2>2 DEF Lacks
  <2>. QED
    BY <2>1, <2>3 DEF Lacks
<1>. QED
  BY <1>1, <1>2

LEMMA InitDoneTold == Init => DoneTold
<1>. SUFFICES ASSUME Init PROVE DoneTold
  OBVIOUS
<1>1. \A s \in Streams : Lacks(toR[s], {"done"})
  BY DEF Init, Lacks
<1>. QED
  BY <1>1 DEF Init, DoneTold

\* A step that adds no DONE, nor brings the sender to where it may write one.
TellsNothing ==
  /\ sPc' \in {"done", "finalack", "ok"} => sPc \in {"done", "finalack", "ok"}
  /\ doneReceived' => doneReceived
  /\ \A s \in Streams : Lacks(toR[s], {"done"}) => Lacks(toR'[s], {"done"})

LEMMA TellsNothingKeeps ==
  ASSUME TypeOK, TypeOK', received \subseteq received', DoneTold, TellsNothing
  PROVE  DoneTold'
<1>1. received = Blocks => received' = Blocks
  BY DEF TypeOK
<1>. QED
  BY <1>1 DEF DoneTold, TellsNothing

LEMMA NextDoneTold ==
  ASSUME IInv, Setup, Books, SettledIsReceived, DoneTold, [Next]_vars
  PROVE  DoneTold'
<1>. USE DEF IInv
<1>1. TypeOK' /\ received \subseteq received'
  BY NextIInv, ReceivedGrows
<1>2. received = Blocks => received' = Blocks
  BY <1>1 DEF TypeOK
<1>. SUFFICES DoneTold' \/ TellsNothing
  BY <1>1, TellsNothingKeeps
<1>3. CASE SCollect
  <2>1. toR' = toR /\ doneReceived' = doneReceived /\ completed = NumBlocks
        /\ received' = received
    BY <1>3 DEF SCollect
  <2>2. Settled = Blocks
    <3>1. Settled \in SUBSET Blocks
      BY DEF Settled
    <3>. QED
      BY <2>1, <3>1, BlocksFinite DEF Books
  <2>3. received = Blocks
    BY <2>2 DEF SettledIsReceived, TypeOK
  <2>. QED
    BY <2>1, <2>3 DEF DoneTold
<1>4. CASE SDone
  <2>1. received = Blocks
    BY <1>4 DEF SDone, DoneTold
  <2>. QED
    BY <1>2, <2>1 DEF DoneTold
<1>5. ASSUME NEW s \in Streams, RDone(s) PROVE DoneTold'
  <2>1. toR[s] # <<>> /\ Head(toR[s]).type = "done"
    BY <1>5 DEF RDone, RDoneSeen, Holds
  <2>2. ~Lacks(toR[s], {"done"})
    <3>1. toR[s] \in Seq(Msg)
      BY DEF TypeOK
    <3>. QED
      BY <2>1, <3>1, NoMoreTail
  <2>3. received = Blocks
    BY <2>2 DEF DoneTold
  <2>. QED
    BY <1>2, <2>3 DEF DoneTold
<1>6. ASSUME ~SCollect, ~SDone, \A s \in Streams : ~RDone(s) PROVE TellsNothing
  <2>1. sPc' \in {"done", "finalack", "ok"} => sPc \in {"done", "finalack", "ok"}
    <3>1. CASE SMain
      BY <1>6, <3>1 DEF SMain, SHello, SFileInfo, SFileInfoAck, SHandshakeFail,
         SStreamInfo, SStreamInfoAck, SStreamInfoFail, SIncomplete, SFinalAck,
         SFinalFail, SAbort, SNextStream
    <3>2. CASE ~SMain
      <4>1. sPc' = sPc
        BY <3>2 DEF Next, vars, Over, Flush, Break,
           RMain, RHello, RFileInfo, RHandshakeFail, RStreamInfo,
           RStreamInfoFail, RCollect, RVerify, RFinalAck, RFinalFail,
           SWorker, STake, SPoll, SFinish, SSend, SSendFail, SAck, SNack, SReply,
           SAckFail, RWorker, RTop, RArm, RNotified, RReadFail, RChunk, RStore,
           RMark, RSendAck, RSendNack, RReply, RSendFail, RDone, RDoneSeen
      <4>. QED
        BY <4>1
    <3>. QED
      BY <3>1, <3>2
  <2>2. doneReceived' = doneReceived
    BY <1>6 DEF Next, vars, Over, Flush, Break,
       SMain, SHello, SFileInfo, SFileInfoAck, SHandshakeFail, SStreamInfo,
       SStreamInfoAck, SStreamInfoFail, SIncomplete, SFinalAck,
       SFinalFail, RMain, RHello, RFileInfo, RHandshakeFail, RStreamInfo,
       RStreamInfoFail, RCollect, RVerify, RFinalAck, RFinalFail,
       SWorker, STake, SPoll, SFinish, SSend, SSendFail, SAck, SNack, SReply,
       SAckFail, RWorker, RTop, RArm, RNotified, RReadFail, RChunk, RStore,
       RMark, RSendAck, RSendNack, RReply, RSendFail
  <2>3. ASSUME NEW t \in Streams, Lacks(toR[t], {"done"}) PROVE Lacks(toR'[t], {"done"})
    <3>. USE <2>3
    <3>1. ASSUME NEW m \in Msg, NEW s \in Streams, m.type # "done",
                 toR' = Put(toR, s, rOpen, m)
          PROVE  Lacks(toR'[t], {"done"})
      BY <3>1, NoDonePut DEF TypeOK
    <3>2. ASSUME NEW s \in Streams, toR[s] # <<>>, toR' = Get(toR, s)
          PROVE  Lacks(toR'[t], {"done"})
      <4>1. NoMore(toR'[t], toR[t], {"done"})
        BY <3>2, NoMoreGet DEF TypeOK
      <4>. QED
        BY <4>1 DEF NoMore
    <3>3. CASE SHello \/ SFileInfo \/ SStreamInfo
      <4>1. /\ sAt \in Streams
            /\ \E type \in {"hello", "fileinfo", "streaminfo"} :
                 toR' = Put(toR, sAt, rOpen, Plain(type))
        BY <3>3 DEF SHello, SFileInfo, SStreamInfo, TypeOK
      <4>2. \A type \in {"hello", "fileinfo", "streaminfo"} :
              Plain(type) \in Msg /\ Plain(type).type # "done"
        BY MsgFacts DEF Plain, PlainTypes
      <4>. QED
        BY <3>1, <4>1, <4>2
    <3>4. ASSUME NEW s \in Streams, SSend(s) PROVE Lacks(toR'[t], {"done"})
      <4>1. toR' = Put(toR, s, rOpen, About("chunk", hand[s])) /\ sW[s] = "send"
        BY <3>4 DEF SSend
      <4>2. About("chunk", hand[s]) \in Msg /\ About("chunk", hand[s]).type # "done"
        BY <4>1, MsgFacts DEF Busy, BlockTypes, About
      <4>. QED
        BY <3>1, <4>1, <4>2
    <3>5. CASE RHello \/ RFileInfo \/ RStreamInfo
      <4>1. rAt \in Streams /\ toR[rAt] # <<>> /\ toR' = Get(toR, rAt)
        BY <3>5 DEF RHello, RFileInfo, RStreamInfo, Holds, TypeOK
      <4>. QED
        BY <3>2, <4>1
    <3>6. ASSUME NEW s \in Streams, RChunk(s) PROVE Lacks(toR'[t], {"done"})
      <4>1. toR[s] # <<>> /\ toR' = Get(toR, s)
        BY <3>6 DEF RChunk, Holds
      <4>. QED
        BY <3>2, <4>1
    <3>7. ASSUME NEW s \in Streams, Break(s) PROVE Lacks(toR'[t], {"done"})
      <4>1. PICK n \in 0 .. Len(toR[s]) : toR' = [toR EXCEPT ![s] = SubSeq(@, 1, n)]
        BY <3>7 DEF Break
      <4>2. NoMore(toR'[t], toR[t], {"done"})
        BY <4>1, NoMoreBreak DEF TypeOK
      <4>. QED
        BY <4>2 DEF NoMore
    <3>8. CASE /\ ~SHello /\ ~SFileInfo /\ ~SStreamInfo
               /\ ~RHello /\ ~RFileInfo /\ ~RStreamInfo
               /\ \A s \in Streams : ~SSend(s) /\ ~RChunk(s) /\ ~Break(s)
      <4>1. toR' = toR
        BY <1>6, <3>8 DEF Next, vars, Over, Flush,
           SMain, SFileInfoAck, SHandshakeFail,
           SStreamInfoAck, SStreamInfoFail, SIncomplete, SFinalAck,
           SFinalFail, RMain, RHandshakeFail,
           RStreamInfoFail, RCollect, RVerify, RFinalAck, RFinalFail,
           SWorker, STake, SPoll, SFinish, SSendFail, SAck, SNack, SReply,
           SAckFail, RWorker, RTop, RArm, RNotified, RReadFail, RStore,
           RMark, RSendAck, RSendNack, RReply, RSendFail
      <4>. QED
        BY <4>1
    <3>. QED
      BY <3>3, <3>4, <3>5, <3>6, <3>7, <3>8
  <2>. QED
    BY <2>1, <2>2, <2>3 DEF TellsNothing
<1>. QED
  BY <1>3, <1>4, <1>5, <1>6

(***************************************************************************)
(* The theorems.                                                           *)
(***************************************************************************)

Accounts == Setup /\ Lockstep /\ Books /\ SettledIsReceived /\ DoneTold

LEMMA AccountsInvariance == Spec => []Accounts
<1>1. Init => Accounts
  <2>. SUFFICES ASSUME Init PROVE SettledIsReceived
    BY InitLockstep, InitBooks, InitDoneTold DEF Accounts
  <2>1. \A b \in Blocks : b + 1 \in DOMAIN pending /\ pending[b + 1] = b
    BY TransferAssumption DEF Init, Blocks
  <2>2. Settled = {}
    BY <2>1 DEF Settled, InQueue
  <2>. QED
    BY <2>2 DEF SettledIsReceived
<1>2. IInv /\ Accounts /\ [Next]_vars => Accounts'
  BY SetupKeeps, NextLockstep, NextBooks, NextSettled, NextDoneTold DEF Accounts, IInv
<1>. QED
  BY <1>1, <1>2, Invariance, PTL DEF Spec

\* Whatever workers die and whatever is lost or refused, no block leaves the sender's
\* books or is entered twice, and completed_chunks counts what is in none of them
\* (sender.rs:287-306).
THEOREM BlocksAreConserved == Spec => []BlockConservation
<1>1. TypeOK /\ Books => BlockConservation
  <2>. SUFFICES ASSUME TypeOK, Books PROVE BlockConservation
    OBVIOUS
  <2>1. Cardinality(InQueue) = Len(pending)
    <3>1. /\ pending \in Seq(Blocks) /\ Len(pending) \in Nat
          /\ DOMAIN pending = 1 .. Len(pending)
          /\ \A i, j \in 1 .. Len(pending) : pending[i] = pending[j] => i = j
      BY SMTT(30) DEF TypeOK, Books, Distinct
    <3>2. pending \in Bijection(1 .. Len(pending), InQueue)
      <4>1. pending \in [1 .. Len(pending) -> InQueue]
        BY <3>1 DEF InQueue
      <4>. QED
        BY <3>1, <4>1 DEF InQueue, Bijection, Injection, Surjection, IsInjective
    <3>3. IsFiniteSet(1 .. Len(pending)) /\ Cardinality(1 .. Len(pending)) = Len(pending)
      BY <3>1, FS_Interval
    <3>. QED
      BY <3>2, <3>3, FS_Bijection DEF ExistsBijection
  <2>. QED
    BY <2>1 DEF BlockConservation, Books, InHand, InQueue, Elements
<1>2. IInv => TypeOK
  BY DEF IInv
<1>3. Accounts => Books
  BY DEF Accounts
<1>. QED
  BY <1>1, <1>2, <1>3, Invariance, AccountsInvariance, PTL

\* A block the sender counts as delivered is received (sender.rs:295-297): streams keep
\* order, and a worker has one block out at a time.
THEOREM SettledBlocksAreReceived == Spec => []SettledIsReceived
<1>1. Accounts => SettledIsReceived
  BY DEF Accounts
<1>. QED
  BY <1>1, AccountsInvariance, PTL

\* When DONE is sent or read, every block is received and received_count says so
\* (sender.rs:208, receiver.rs:221).
THEOREM DoneComesAfterAll == Spec => []DoneMeansAllReceived
<1>1. Accounts /\ CountIsFlags => DoneMeansAllReceived
  BY BlocksFinite DEF Accounts, DoneTold, CountIsFlags, DoneMeansAllReceived
<1>. QED
  BY <1>1, AccountsInvariance, CountIsNumberOfFlags, PTL
=============================================================================
