--------------------------------- MODULE Bench ---------------------------------
(***************************************************************************)
(* src/transfer/bench.rs: the path measurement over the punched            *)
(* connections, and what it leaves for the file transfer that may follow   *)
(* on them (main.rs:137-165).                                              *)
(*                                                                         *)
(* Sides are "sender" and "receiver"; each runs on its own list of         *)
(* connections, as one of them can hold a connection that the other has    *)
(* given up.  Bytes are counted in units far longer than a frame, the      *)
(* times of the measurement are kept as the bytes received at that time.   *)
(* Left out: round-trip figures, the first byte's time, kernel statistics. *)
(***************************************************************************)
EXTENDS Integers, Sequences, FiniteSetsExt, SequencesExt

CONSTANTS
  Setups,      \* [sender, receiver: lists of connections, total, rtt, then]
  WARM_UP,     \* AUFWAERM_BYTES
  BLOCK,       \* IO_BLOCK
  Buffer,      \* units a connection holds on its way
  MaxSamples,  \* bound: values of the time series
  MaxBreaks    \* bound: connections that break

ASSUME BenchAssumption ==
  /\ {WARM_UP, BLOCK, Buffer} \subseteq Nat \ {0} /\ {MaxSamples, MaxBreaks} \subseteq Nat
  /\ \A x \in Setups :
       /\ \A l \in {x.sender, x.receiver} : l \in Seq(Range(l)) \ {<<>>} /\ IsInjective(l)
       /\ x.total \in Nat /\ x.rtt \in Nat

Sides == {"sender", "receiver"}
Other(d) == CHOOSE e \in Sides : e # d
Connections == UNION {Range(x.sender) \cup Range(x.receiver) : x \in Setups}

VARIABLES
  setup,
  \* the connections
  wire,      \* what each side has written to each that the other has not read
  open,      \* connections each side holds
  broken,    \* connections that broke, or were reset
  \* both sides
  pc,        \* where each side is
  left,      \* frames, or round trips, left in that phase
  todo,      \* units each side's task has left to write or to read
  task,      \* how each task is doing
  \* the receiver's measurement
  param,     \* parameters read
  received,  \* gelesen
  before,    \* bisher: what a task has found received, with its own read
  measured,  \* mess_start: what had been received then; -1 until it is set
  series,    \* samples
  sampled,   \* letzter
  \* the sender's
  got,       \* values of the RESULT frames
  late       \* a frame did not come in time

vars == <<setup, wire, open, broken, pc, left, todo, task, param, received, before, measured,
          series, sampled, got, late>>
receiving == <<param, received, before, measured, series, sampled>>

----------------------------------------------------------------------------
FrameTypes == {"PARAMS", "PING", "PONG", "GO", "RESULT"}
Frame(t, v) == [t |-> t, v |-> v]
Payload == Frame("payload", 99)     \* its value, if it is read as a frame

List(d) == setup[d]
Control(d) == Head(List(d))
Gross == setup.total + WARM_UP      \* brutto

\* Mutant: every task reads an equal share.
EqualShare(list, all, z) == all \div Len(list)

\* The share of each connection; the first ones take what is left over.
Share(list, all, z) ==
  LET i == CHOOSE j \in DOMAIN list : list[j] = z
  IN all \div Len(list) + IF i <= all % Len(list) THEN 1 ELSE 0

CanWrite(z) == z \notin broken
WriteMayFail(d, z) == z \in broken \/ z \notin open[Other(d)]
Ready(d, z) == wire[Other(d)][z] # <<>>
AtEnd(d, z) == z \in broken \/ (~Ready(d, z) /\ z \notin open[Other(d)])

Put(d, z, items) == wire' = [wire EXCEPT ![d][z] = @ \o items]
\* A frame; what is read from payload instead is a small part of a unit.
TakeFrame(d) ==
  LET z == Control(d)
  IN wire' = IF Head(wire[Other(d)][z]) = Payload THEN wire
             ELSE [wire EXCEPT ![Other(d)][z] = Tail(@)]
Take(d, z, n) == wire' = [wire EXCEPT ![Other(d)][z] = SubSeq(@, n + 1, Len(@))]

\* The function returns, and on an error, or if no transfer follows, the program ends.
Finish(d, outcome) ==
  /\ pc' = [pc EXCEPT ![d] = outcome]
  /\ open' = IF outcome = "ok" /\ setup.then THEN open ELSE [open EXCEPT ![d] = {}]

----------------------------------------------------------------------------
TypeOK ==
  /\ setup \in Setups
  /\ wire \in [Sides -> [Connections -> Seq([t : FrameTypes \cup {"payload"}, v : Int])]]
  /\ open \in [Sides -> SUBSET Connections] /\ broken \subseteq Connections
  /\ pc \in [Sides -> {"params", "ping", "pong", "go", "tasks", "result", "ok", "error"}]
  /\ pc["receiver"] # "pong"
  /\ left \in [Sides -> Nat]
  /\ todo \in [Sides -> [Connections -> Nat]]
  /\ task \in [Sides -> [Connections -> {"idle", "run", "mark", "ok", "error"}]]
  /\ param \in Seq(Nat) /\ received \in Nat
  /\ before \in [Connections -> Nat] /\ measured \in Nat \cup {-1}
  /\ series \in Seq(Nat) /\ sampled \in 0 .. received
  /\ got \in Seq(Int) /\ late \in BOOLEAN

Init ==
  /\ setup \in Setups
  /\ wire = [d \in Sides |-> [z \in Connections |-> <<>>]]
  /\ open = [d \in Sides |-> Range(List(d))]
  /\ broken = {}
  /\ pc = [d \in Sides |-> "params"]
  /\ left = [d \in Sides |-> 3]
  /\ todo = [d \in Sides |-> [z \in Connections |-> 0]]
  /\ task = [d \in Sides |-> [z \in Connections |-> "idle"]]
  /\ param = <<>> /\ received = 0 /\ before = [z \in Connections |-> 0] /\ measured = -1
  /\ series = <<>> /\ sampled = 0 /\ got = <<>> /\ late = FALSE

----------------------------------------------------------------------------
(* Both sides.                                                             *)

\* The tasks of all connections start.
Spawn(d, all) ==
  /\ pc' = [pc EXCEPT ![d] = "tasks"]
  /\ todo' = [todo EXCEPT ![d] = [z \in Connections |->
                IF z \in Range(List(d)) THEN Share(List(d), all, z) ELSE 0]]
  /\ task' = [task EXCEPT ![d] = [z \in Connections |->
                IF z \in Range(List(d)) THEN "run" ELSE "idle"]]

\* The tasks are awaited in their order; the first that is not "ok" decides.
FirstNotOk(d) ==
  LET bad == {j \in DOMAIN List(d) : task[d][List(d)[j]] # "ok"}
  IN IF bad = {} THEN "ok" ELSE task[d][List(d)[Min(bad)]]

TaskFails(d, z) ==
  /\ pc[d] = "tasks" /\ task[d][z] = "run" /\ todo[d][z] > 0
  /\ IF d = "sender" THEN WriteMayFail(d, z) ELSE AtEnd(d, z)
  /\ task' = [task EXCEPT ![d][z] = "error"]
  /\ UNCHANGED <<setup, wire, open, broken, pc, left, todo, receiving, got, late>>

TaskDone(d, z) ==
  /\ pc[d] = "tasks" /\ task[d][z] = "run" /\ todo[d][z] = 0
  /\ task' = [task EXCEPT ![d][z] = "ok"]
  /\ UNCHANGED <<setup, wire, open, broken, pc, left, todo, receiving, got, late>>

TasksFailed(d) ==
  /\ pc[d] = "tasks" /\ FirstNotOk(d) = "error"
  /\ Finish(d, "error")
  /\ UNCHANGED <<setup, wire, broken, left, todo, task, receiving, got, late>>

\* Control frames are written in these phases and read in those.
Writes == [sender |-> {"params", "ping", "go"}, receiver |-> {"result"}]
Reads == [sender |-> {"pong", "result"}, receiver |-> {"params", "ping", "go"}]

WriteFails(d) ==
  /\ pc[d] \in Writes[d] /\ WriteMayFail(d, Control(d))
  /\ Finish(d, "error")
  /\ UNCHANGED <<setup, wire, broken, left, todo, task, receiving, got, late>>

ReadFails(d) ==
  /\ pc[d] \in Reads[d] /\ AtEnd(d, Control(d))
  /\ Finish(d, "error")
  /\ UNCHANGED <<setup, wire, broken, left, todo, task, receiving, got, late>>

\* Mutant: the sender waits for the result without a limit.
TimeoutNotOnResult(d) ==
  /\ pc[d] \in Reads[d] \ {"result"}
  /\ late' = TRUE
  /\ Finish(d, "error")
  /\ UNCHANGED <<setup, wire, broken, left, todo, task, receiving, got>>

\* CTRL_TIMEOUT, 30 s: what was sent may still be on its way.
Timeout(d) ==
  /\ pc[d] \in Reads[d]
  /\ late' = TRUE
  /\ Finish(d, "error")
  /\ UNCHANGED <<setup, wire, broken, left, todo, task, receiving, got>>

Expected == [pong |-> "PONG", ping |-> "PING", go |-> "GO", result |-> "RESULT"]

\* A frame of another type; of the result's frames only the first is looked at.
Unexpected(d) ==
  /\ pc[d] \in Reads[d] \ {"params"} /\ Ready(d, Control(d))
  /\ pc[d] = "result" => got = <<>>
  /\ Head(wire[Other(d)][Control(d)]).t # Expected[pc[d]]
  /\ TakeFrame(d)
  /\ Finish(d, "error")
  /\ UNCHANGED <<setup, broken, left, todo, task, receiving, got, late>>

Both(d) ==
  \/ \E z \in Range(List(d)) : TaskFails(d, z) \/ TaskDone(d, z)
  \/ TasksFailed(d) \/ WriteFails(d) \/ ReadFails(d) \/ Timeout(d) \/ Unexpected(d)

----------------------------------------------------------------------------
(* run_bench_sender.                                                       *)

SParams ==
  /\ pc["sender"] = "params" /\ CanWrite(Control("sender"))
  /\ Put("sender", Control("sender"), <<Frame("PARAMS", <<setup.rtt, 250, Gross>>[left["sender"]])>>)
  /\ left' = [left EXCEPT !["sender"] = IF @ = 1 THEN setup.rtt ELSE @ - 1]
  /\ pc' = IF left["sender"] > 1 THEN pc
           ELSE [pc EXCEPT !["sender"] = IF setup.rtt = 0 THEN "go" ELSE "ping"]
  /\ UNCHANGED <<setup, open, broken, todo, task, receiving, got, late>>

\* measure_rtt.
SPing ==
  /\ pc["sender"] = "ping" /\ CanWrite(Control("sender"))
  /\ Put("sender", Control("sender"), <<Frame("PING", setup.rtt - left["sender"])>>)
  /\ pc' = [pc EXCEPT !["sender"] = "pong"]
  /\ UNCHANGED <<setup, open, broken, left, todo, task, receiving, got, late>>

SPong ==
  /\ pc["sender"] = "pong" /\ Ready("sender", Control("sender"))
  /\ Head(wire["receiver"][Control("sender")]).t = "PONG"
  /\ TakeFrame("sender")
  /\ left' = [left EXCEPT !["sender"] = @ - 1]
  /\ pc' = [pc EXCEPT !["sender"] = IF left["sender"] = 1 THEN "go" ELSE "ping"]
  /\ UNCHANGED <<setup, open, broken, todo, task, receiving, got, late>>

SGo ==
  /\ pc["sender"] = "go" /\ CanWrite(Control("sender"))
  /\ Put("sender", Control("sender"), <<Frame("GO", 0)>>)
  /\ Spawn("sender", Gross)
  /\ UNCHANGED <<setup, open, broken, left, receiving, got, late>>

SWrite(z) ==
  /\ pc["sender"] = "tasks" /\ task["sender"][z] = "run" /\ CanWrite(z)
  /\ \E n \in 1 .. Min({todo["sender"][z], BLOCK, Buffer - Len(wire["sender"][z])}) :
       /\ Put("sender", z, [k \in 1 .. n |-> Payload])
       /\ todo' = [todo EXCEPT !["sender"][z] = @ - n]
  /\ UNCHANGED <<setup, open, broken, pc, left, task, receiving, got, late>>

SWritten ==
  /\ pc["sender"] = "tasks" /\ FirstNotOk("sender") = "ok"
  /\ pc' = [pc EXCEPT !["sender"] = "result"]
  /\ UNCHANGED <<setup, wire, open, broken, left, todo, task, receiving, got, late>>

\* Mutant: the samples are left on the connection.
SResultUnread ==
  /\ pc["sender"] = "result" /\ Ready("sender", Control("sender"))
  /\ got' = Append(got, Head(wire["receiver"][Control("sender")]).v)
  /\ TakeFrame("sender")
  /\ IF Len(got') = 3 THEN Finish("sender", "ok") ELSE UNCHANGED <<pc, open>>
  /\ UNCHANGED <<setup, broken, left, todo, task, receiving, late>>

\* The duration, the time of the first byte, the number of samples, the samples.  Only the
\* first frame's type is looked at.
SResult ==
  /\ pc["sender"] = "result" /\ Ready("sender", Control("sender"))
  /\ LET f == Head(wire["receiver"][Control("sender")])
     IN /\ got # <<>> \/ f.t = "RESULT"
        /\ got' = Append(got, f.v)
  /\ TakeFrame("sender")
  /\ IF Len(got') >= 3 /\ Len(got') = 3 + got'[3] THEN Finish("sender", "ok")
     ELSE UNCHANGED <<pc, open>>
  /\ UNCHANGED <<setup, broken, left, todo, task, receiving, late>>

Sender ==
  \/ SParams \/ SPing \/ SPong \/ SGo \/ SWritten \/ SResult
  \/ \E z \in Range(List("sender")) : SWrite(z)
  \/ Both("sender")

----------------------------------------------------------------------------
(* run_bench_receiver.                                                     *)

\* The types of these frames are not looked at.
RParams ==
  /\ pc["receiver"] = "params" /\ Ready("receiver", Control("receiver"))
  /\ param' = Append(param, Head(wire["sender"][Control("receiver")]).v)
  /\ TakeFrame("receiver")
  /\ left' = [left EXCEPT !["receiver"] = IF @ = 1 THEN param'[3] ELSE @ - 1]
  /\ pc' = IF left["receiver"] > 1 THEN pc
           ELSE [pc EXCEPT !["receiver"] = IF param'[3] = 0 THEN "go" ELSE "ping"]
  /\ UNCHANGED <<setup, open, broken, todo, task, received, before, measured, series, sampled,
                 got, late>>

\* Mutant: one round trip less is answered.
RPongOneLess ==
  /\ pc["receiver"] = "ping" /\ Ready("receiver", Control("receiver"))
  /\ LET z == Control("receiver")
         f == Head(wire["sender"][z])
     IN /\ f.t = "PING" /\ z \notin broken
        /\ wire' = [wire EXCEPT !["sender"][z] = Tail(@),
                                !["receiver"][z] = Append(@, Frame("PONG", f.v))]
  /\ left' = [left EXCEPT !["receiver"] = @ - 1]
  /\ pc' = [pc EXCEPT !["receiver"] = IF left["receiver"] <= 2 THEN "go" ELSE @]
  /\ UNCHANGED <<setup, open, broken, todo, task, receiving, got, late>>

\* answer_rtt.
RPong ==
  /\ pc["receiver"] = "ping" /\ Ready("receiver", Control("receiver"))
  /\ LET z == Control("receiver")
         f == Head(wire["sender"][z])
     IN /\ f.t = "PING" /\ z \notin broken
        /\ wire' = [wire EXCEPT !["sender"][z] = Tail(@),
                                !["receiver"][z] = Append(@, Frame("PONG", f.v))]
  /\ left' = [left EXCEPT !["receiver"] = @ - 1]
  /\ pc' = [pc EXCEPT !["receiver"] = IF left["receiver"] = 1 THEN "go" ELSE @]
  /\ UNCHANGED <<setup, open, broken, todo, task, receiving, got, late>>

\* The PONG cannot be written.
RPongFails ==
  /\ pc["receiver"] = "ping" /\ Ready("receiver", Control("receiver"))
  /\ WriteMayFail("receiver", Control("receiver"))
  /\ TakeFrame("receiver")
  /\ Finish("receiver", "error")
  /\ UNCHANGED <<setup, broken, left, todo, task, receiving, got, late>>

RGo ==
  /\ pc["receiver"] = "go" /\ Ready("receiver", Control("receiver"))
  /\ Head(wire["sender"][Control("receiver")]).t = "GO"
  /\ TakeFrame("receiver")
  /\ Spawn("receiver", param[1])
  /\ UNCHANGED <<setup, open, broken, left, receiving, got, late>>

\* A task reads what is there, at most a block, and counts it.
RRead(z) ==
  /\ pc["receiver"] = "tasks" /\ task["receiver"][z] = "run"
  /\ \E n \in 1 .. Min({todo["receiver"][z], BLOCK, Len(wire["sender"][z])}) :
       /\ Take("receiver", z, n)
       /\ received' = received + n
       /\ before' = [before EXCEPT ![z] = received']
       /\ todo' = [todo EXCEPT !["receiver"][z] = @ - n]
  /\ task' = [task EXCEPT !["receiver"][z] = "mark"]
  /\ UNCHANGED <<setup, open, broken, pc, left, param, measured, series, sampled, got, late>>

\* Mutant: the measurement begins with the read that comes after the warm-up.
RMarkNext(z) ==
  /\ pc["receiver"] = "tasks" /\ task["receiver"][z] = "mark"
  /\ measured' = IF before[z] > WARM_UP /\ measured = -1 THEN received ELSE measured
  /\ task' = [task EXCEPT !["receiver"][z] = "run"]
  /\ UNCHANGED <<setup, wire, open, broken, pc, left, todo, param, received, before, series,
                 sampled, got, late>>

\* Then, with other tasks in between, it marks the end of the warm-up if no task has.
RMark(z) ==
  /\ pc["receiver"] = "tasks" /\ task["receiver"][z] = "mark"
  /\ measured' = IF before[z] >= WARM_UP /\ measured = -1 THEN received ELSE measured
  /\ task' = [task EXCEPT !["receiver"][z] = "run"]
  /\ UNCHANGED <<setup, wire, open, broken, pc, left, todo, param, received, before, series,
                 sampled, got, late>>

\* Mutant: the last value is added to the counter instead of replacing it.
RSampleAdds ==
  /\ pc["receiver"] = "tasks" /\ Len(series) < MaxSamples
  /\ series' = Append(series, received - sampled)
  /\ sampled' = sampled + received
  /\ UNCHANGED <<setup, wire, open, broken, pc, left, todo, task, param, received, before,
                 measured, got, late>>

\* One value of the time series, until the main task aborts it.
RSample ==
  /\ pc["receiver"] = "tasks" /\ Len(series) < MaxSamples
  /\ series' = Append(series, received - sampled)
  /\ sampled' = received
  /\ UNCHANGED <<setup, wire, open, broken, pc, left, todo, task, param, received, before,
                 measured, got, late>>

RDone ==
  /\ pc["receiver"] = "tasks" /\ FirstNotOk("receiver") = "ok"
  /\ pc' = [pc EXCEPT !["receiver"] = "result"]
  /\ left' = [left EXCEPT !["receiver"] = 3 + Len(series)]
  /\ UNCHANGED <<setup, wire, open, broken, todo, task, receiving, got, late>>

Report == <<measured, 0, Len(series)>> \o series

RResult ==
  /\ pc["receiver"] = "result" /\ CanWrite(Control("receiver"))
  /\ Put("receiver", Control("receiver"),
         <<Frame("RESULT", Report[Len(Report) - left["receiver"] + 1])>>)
  /\ left' = [left EXCEPT !["receiver"] = @ - 1]
  /\ IF left["receiver"] = 1 THEN Finish("receiver", "ok") ELSE UNCHANGED <<pc, open>>
  /\ UNCHANGED <<setup, broken, todo, task, receiving, got, late>>

Receiver ==
  \/ RParams \/ RPong \/ RPongFails \/ RGo \/ RDone \/ RResult
  \/ \E z \in Range(List("receiver")) : RRead(z) \/ RMark(z)
  \/ Both("receiver")

----------------------------------------------------------------------------
(* The connections.                                                        *)

Lose(z) ==
  /\ broken' = broken \cup {z}
  /\ wire' = [d \in Sides |-> [wire[d] EXCEPT ![z] = <<>>]]
  /\ UNCHANGED <<setup, open, pc, left, todo, task, receiving, got, late>>

Break(z) == z \notin broken /\ Cardinality(broken) < MaxBreaks /\ Lose(z)

\* A side closed it and has not read everything: what the other has not read may be lost.
Reset(z) ==
  /\ z \notin broken
  /\ \E d \in Sides : z \notin open[d] /\ wire[Other(d)][z] # <<>>
  /\ Lose(z)

Ended == \A d \in Sides : pc[d] \in {"ok", "error"}

Next ==
  \/ Sender \/ Receiver \/ RSample
  \/ \E z \in Connections : ~Ended /\ (Break(z) \/ Reset(z))
  \/ Ended /\ UNCHANGED vars

Spec == Init /\ [][Next]_vars

\* The tasks of each program are scheduled, its timers expire, and a connection reports its
\* end (a TCP that never learns that the other host is gone is left out).
FairSpec == Spec /\ WF_vars(Sender) /\ WF_vars(Receiver)

----------------------------------------------------------------------------
(* Safety.                                                                 *)

\* The transfer that follows finds the connections as they were: when the sender has its
\* result nothing of the measurement is left on any connection, in either direction, and
\* both sides hold them (bench.rs:158-162, main.rs:152-180).
StreamsClean ==
  pc["sender"] = "ok" /\ setup.then /\ broken = {} =>
    /\ \A d \in Sides, z \in Connections : wire[d][z] = <<>>
    /\ \A d \in Sides : open[d] = Range(List(d))

\* What the sender reports is what the receiver measured, of everything that was sent, and
\* the receiver does not fail afterwards; the time series accounts for no more than that.
ResultDelivered ==
  pc["sender"] = "ok" =>
    /\ pc["receiver"] = "ok" /\ received = Gross /\ got = Report
    /\ MapThenSumSet(LAMBDA k : got[k], 4 .. Len(got)) = sampled

\* The measurement begins when the warm-up is through and, however the tasks interleave
\* between counting a block and marking the time, at most one block for each connection
\* later: no more of the payload than that is left out of the time it is divided by
\* (bench.rs:340-352).
MeasuredAfterWarmUp ==
  /\ measured # -1 => /\ measured >= WARM_UP
                      /\ measured < WARM_UP + BLOCK * Len(List("receiver"))
  /\ pc["receiver"] \in {"result", "ok"} => measured # -1

\* No side fails unless a connection broke, a frame came too late, or the two sides do not
\* hold the same connections: neither the order of the frames nor the shares can make it.
FailureHasCause ==
  (\E d \in Sides : pc[d] = "error") =>
    broken # {} \/ late \/ List("sender") # List("receiver")

----------------------------------------------------------------------------
(* Liveness.                                                               *)

\* Both sides come to an end, also if a connection breaks or one of them waits for bytes on
\* a connection the other does not hold: reading tasks have no time limit of their own, and
\* what ends them is that the sender gives up waiting for the result.
BothEnd == <>Ended
=============================================================================
