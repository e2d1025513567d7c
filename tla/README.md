# tcp-multi-transfer in TLA+

tcp-multi-transfer sends one file between two computers behind NATs, over several TCP
connections at once. The two clients (Rust, `src/`) find each other through a relay
(Python, `server/`), punch each connection from both ends at the same moment, and then
measure the path and transfer the file directly. Paths below are relative to the repository;
`connection/`, `transfer/`, `punch/`, `relay.rs`, `main.rs` and `cli.rs` are under its `src/`.

## The system

| component | state | operations |
|---|---|---|
| file transfer, `transfer/sender.rs`, `receiver.rs` | sender: queue of chunks, `completed_chunks`; receiver: `received_flags`, `received_count`, `done_received`, temporary file | handshake, set-up of each stream, one worker per stream on each side, DONE, checksum, last acknowledgement |
| chunk layout and window, `transfer/mod.rs`, `sender.rs` | the option `--chunk` | chunk size; number, offset and length of chunks; the receiver's checks; size of the socket buffer |
| benchmark, `transfer/bench.rs` | `gelesen`, `mess_start`, the time series; a task for each connection on each side | parameters, round trips, GO, payload, RESULT |
| client connection layer, `connection/` | state machine per connection, bound sockets, queues filled by a receiver task | peer_info, READY, GO, punch, result, retry, abandonment, loss of the relay |
| relay protocol of the client, `relay.rs`, `protocol/relay.rs` | the control connection | registration, probing, probes_complete, hand-over |
| NAT probing, `relay.rs`, `server/relay/server.py` | `pending_probes`, `filter_ergebnis`, by session id and address | probe connections, their acknowledgement, filter test |
| NAT analysis, `server/nat_analyzer.py` | none | mapping class, allocation pattern, predicted port, range |
| candidate selection, `nat_analyzer.py`, `coordinator.py`, `utils.py`, `punch/strategy.rs` | none | budget, list of ports told to the peer, thinning at the client |
| relay coordination, `server/relay/`, `session_manager.py`, `models.py` | sessions, peers, READY flags, results, retry tables, tasks | one handler per message, coordinator of all connections, coordinator of a retry, timers, cleanup |
| hole punching, `punch/` | sockets connecting and accepting, candidate connections | connect and accept loops, magic check, choice of the winner |
| program, options, metrics, network information | figures | - |

Interaction. Each client has one control connection to the relay (JSON lines), and a short
connection for each probe of its NAT. It writes from its main task and reads in a task of its
own, which sorts what arrives into queues. The relay runs on one event loop: a task per
connection reads its lines; coordinator tasks watch the session's fields every 50 or 100 ms
and write to both clients. A session exists only as an entry under its id: who registers
next under that id finds what the last ones left. Once a connection is punched it belongs to
the two clients alone; when all are done the measurement and then the transfer run over them,
with no relay.

What is hard:

* transfer: a worker dies with a chunk in its hand, an acknowledgement is lost after the
  chunk has been written, chunks arrive twice, the two sides hold different lists of
  streams, one side closes while the other still reads, DONE races the workers that read,
  the checksum is taken while an accepted write is still pending;
* measurement: tasks share counters and a mark that the first to pass a limit sets; what one
  side leaves unread becomes the first message of the transfer; tasks that read have no limit;
* registration: probes and probes_complete travel on different connections, probes are
  sorted by the address they come from, both clients' last messages race for who starts the
  coordinator, handlers end in any order and clean up by session id;
* analysis and candidates: arithmetic on few samples, with budgets, windows, rounding and the
  ends of the port range, where the port that matters must not be lost on the way;
* rendezvous: two coordinators walk one session (both probes_complete may start one), flags
  and results outlive the attempt they were meant for, limits on both sides race the
  answers, retries change ports that are already on their way to the peer, the control
  connection is lost at any step;
* punch: several connections succeed at once and become known to the two sides in different
  orders and at different times, each side stops waiting by its own clock, strangers reach
  the punch port, and what one side closes the other may be about to keep.

What makes the parts correct: the sender's success means the file is verified at the other
end; no chunk is lost or counted twice, and the chunks cover the file; both programs end; the
measurement leaves the connections clean and times what it counts; nobody keeps a place in
a session after leaving it, and nobody loses it while there; what was acknowledged to a
client as probed is analysed, as its own; the peer is told the ports the analysis found;
connections are arranged one after the other, with both clients at the same one; what the
relay has on record about results and ports is true; losing the relay costs no established
connection; the two sides of a punch keep a connection to each other, and the same one.

## Modules

| module | models | builds on |
|---|---|---|
| `FileTransfer` | what a transfer promises (abstract) | |
| `Transfer` | `run_multi_sender`, `run_multi_receiver`, their workers, the network, the file | implements `FileTransfer` |
| `TransferProofs` | theorems about `Transfer` | `Transfer` |
| `ChunkLayout` | how a file is cut into chunks, with theorems | |
| `Bench`, `MCBench` | `bench.rs`: both sides of the measurement; setups for TLC | |
| `BenchProofs` | theorems about `Bench` | `Bench` |
| `NatAnalysis` | `nat_analyzer.analyze_nat`, as operators | |
| `Candidates` | what the peer is told and what it makes of it, as operators | `NatAnalysis` |
| `AnalysisProofs` | theorems about `NatAnalysis` and `Candidates` | `Candidates` |
| `Registration`, `MCRegistration` | from `register` to the coordinator's first look, over the sessions of one id; setups for TLC | `Candidates` |
| `RegistrationProofs` | theorems about `Registration` | `Registration`, `AnalysisProofs` |
| `RelayLink` | the control connections: a FIFO channel each way | |
| `RelayServer` | the relay's handlers and coordinators for one session | `RelayLink` |
| `PunchClient` | `run_relay_protocol` and `establish_multi_connections` of one client | `RelayLink` |
| `Rendezvous` | relay and both clients together, faults, time | `RelayServer`, `PunchClient` |
| `RendezvousProofs` | theorems about `Rendezvous` | `Rendezvous` |
| `RendezvousGoProofs` | the theorem about GO | `RendezvousProofs` |
| `PunchSelect`, `MCPunchSelect` | `punch_connection` and `pre_handshake` of both sides: the choice of the connection to keep; two links for TLC | |
| `PunchSelectProofs` | theorems about `PunchSelect` | `PunchSelect` |

They follow the program's course: `Registration` up to the first connection's peer_info,
`Rendezvous` from there to the punched connections, `PunchSelect` inside one punch, `Bench`
and `Transfer` over the result. Each takes what the one before may leave as its initial
states: which side has to probe is a choice of `Rendezvous`, the links that come about one of
`PunchSelect`, and the lists of connections of the two sides, which need not be the same,
are one of `Bench` and `Transfer`.

### Transfer

The sender is `sPc` (its main function) and `sW[s]` (its worker for stream `s`); the
receiver is `rPc` and `rW[s]`. `hand[s]` is the chunk between `pop_front` and what settles
it; `pending` and `completed` are the shared queue and counter. `received` is the set of
flags and `count` the counter. Writing a chunk is two steps, as it is in tokio: `write_all`
puts it into `cache[s]` and `Flush(s)` carries it out; the next `seek` on the same handle
waits for that. A stream is two FIFO channels: a write is accepted as long as the local
socket is (even if nobody will read it), a read fails when nothing is buffered and the
stream is broken or closed by the peer. `sOpen` and `rOpen` are the sockets each side holds,
so dropping a stream, as both sides do with those they no longer need, is visible to the
peer. `Init` lets each side hold any non-empty set of streams, since each side decides by
itself whether a punch succeeded.

Waiting for `done_notify` (`receiver.rs:268-274`) is three steps: the look at the flag
(`RTop`), the registration of the waiter (`RArm`), and the select (`RNotified`, the reads);
DONE wakes only workers that are registered.

`Transfer` takes the chunks as a set of numbers. `ChunkLayout` says why it may: with the
chunk size `chunk_size_fuer` computes, chunk `i` begins at `Offset(i)` and has
`Length(i)` bytes, the chunks are pairwise apart and cover the file, and the receiver's checks
(`Accepted`) refuse none. It has theorems and no run: the sizes that matter are beyond TLC's
integers.

### Bench

`pc` is where each side's main function stands, `left` how many frames or round trips of that
phase are outstanding, `todo` and `task` the tasks that write or read a share of the payload.
`wire` holds frames and payload units in order; a unit of payload is far longer than a
frame, so a frame read where payload lies is a small part of the unit. `RRead` counts a
block (`received`) and `RMark` marks the end of the warm-up in a step of its own, as the two
atomics of the code are; `RSample` is the task that keeps the time series. `Timeout` is
`FRAME_TIMEOUT` at any frame. `Finish` returns and, on an error or if no transfer follows,
closes everything; a close with bytes unread resets the connection (`Reset`).

### NatAnalysis and Candidates

Operators for the whole of `analyze_nat`: the class of the mapping, the trend, the block,
the three ways to a prediction (kept port, by port, by difference), the shift for time that
passes, the range and its extension. Fractions are kept exactly, over a common denominator,
and rounded where the code rounds, ties to even; time is the place in the list, as the client
sends ten probes a second. The operators were compared with the Python functions on
some thousand sequences of ports. `Candidates` takes an analysis to the ports told to the peer:
the budget (`Needed`), the window or the thinned band (`CandidatePorts`), the port of a
further connection's socket (`NatPort`), the address list (`PeerAddresses`), and what a client
keeps of it (`Targets`).

### Registration

One action for each step of a client (`C...`), and for each stretch of a handler between
two awaits (`H...`). A peer is a role and the number of its program under that
id; `h` is the handler of its control connection, `members` the session, `closed` what
`cleanup_peer` has closed. A probe is first `sent`, perhaps `testing` (the filter test keeps
the last one open), then `acked`; the relay keeps it in `pending` with the address it came
from, and the client notes it in `seen` if it still waits for it. Of the verdict of a filter
test (`filter`, then `known`) the model keeps whose probe it came from and whether that program
had its place then. `HProbesComplete` analyses
what is kept for the client's address and starts a coordinator if both are done; `CoStart`
is that coordinator's look at the session and what it tells both clients of each connection.
`setup` holds options and NATs: one that adds a constant, one whose constant depends on the
destination, one that draws a port for each connection. `stray` is set once a handler has
cleaned up that had lost its place to others (see below). `told[q].judged` says that the
peer `q` is told of had been judged when the coordinator looked: one that is started by the last
`probes_complete` of a session may look only after that session has gone and another has
registered under its id, and then tells two clients of each other that have not probed yet,
with the addresses of an analysis that knows nothing. What is said about the addresses
told is said of the judged. (TLC finds such a behaviour with both programs started twice and
a NAT that must be probed on one side; that setup has too many states for the run.)

### Rendezvous

`RelayServer` has an action per message type (`S...`), the steps of a coordinator (`Co...`)
and of a retry coordinator (`Retry...`). The session lock guards no await, so each handler
and each look of a coordinator is one action. `PunchClient` follows the client's state
machine: `cPc` is the state, `conn` the connection, `fails` the failures in a row, `sockets`
the bound ports (a port is its slot and a generation, so that an old and a new port of a
retry differ), `info` the port of the peer it will punch at, `streams` what it has
established. The client's queues are part of its incoming channel: a reader takes the first
message of the type and connection it wants and leaves the rest.

A punch is one step: it succeeds or fails when both clients are at it (`met`), fails after
its time when the other never comes (`CPunchAlone`), and may be seen as a success by one
side and a failure by the other.

**Time.** All limits are 30 to 300 s, against lines that take milliseconds. So a limit passes
when nothing else can happen (`Quiet`); where a client's limit is longer than the relay's for
the same wait (120 s for GO against 60 s for both READYs, 60 s for a grant against 45 s until
the rejection) the relay's passes first (`RelayFirst`). `MaxEarly` allows that many limits to
pass at any time, with the answer under way. GO names a moment 1.5 s ahead, and coordinators
look every 0.1 s, so a punch ends only after they have looked (`CoordinatorsLooked`).

In `Rendezvous` a punch is one step; `PunchSelect` is what happens in it.

### PunchSelect

A link is a TCP connection that may come about; `ends[p][c]` says how side `p` comes by link
`c`: from a `connector_task`, from its listener, or not at all (then a stranger is at that
end). `at[p][c]` is the progress of `pre_handshake` on it, `coming[p][c]` what is in the
socket, `found[p]` the channel of candidates, `main[p]` where `punch_connection` stands and
`winner[p]` what it holds. The tasks are `Greet` (the own number goes out), `Recognize` (the
other's has come) and `Reject`; the choice is `First`, `Compare`, `GraceEnds` and `GiveUp`.
The listener works on one connection at a time and ends with its first candidate; the
connections still in its backlog are then reset (`Refused`). `Stop` is `stop_all` and the
return: every socket but the winner's is closed, also those of candidates nobody looked at.
The windows are the side's own, so `GraceEnds` may come at any time. Which addresses and ports make
which links possible is left to `Init`: any kind of link with a connecting or a strange end,
classified as LAN or not by each side (`Possible`).

## Runs

| run | bounds | shows |
|---|---|---|
| `transfer_safety` | 2 streams, 3 blocks, 2 breaks, 1 damaged payload, 1 stalled read or write | the safety properties, and that `Transfer` implements `FileTransfer` |
| `transfer_live` | 2 streams, 2 blocks, 1 break, 1 damaged payload | `TransferSucceeds`, `AfterDoneBothEnd` |
| `transfer_final_ack` | 2 streams, 2 blocks, 1 break | violation: the last acknowledgement leaves on the wrong stream |
| `transfer_workers_end` | 2 streams, 2 blocks, 1 break, 2 stalls | violation: workers that never end |
| `rendezvous_safety` | 2 connections, 2 attempts; 2 failed punches and 1 failed bind, or 1 early limit (`FaultsApart`) | order of connections, truth of records and that a success stays there, GO |
| `rendezvous_live` | 1 connection, 2 attempts, 1 lost control connection | clients end; undisturbed they connect |
| `relay_loss` | 2 connections, 1 attempt, 1 loss | violation: established streams dropped |
| `stale_retry_port` | 1 connection, 2 attempts, 2 failed punches | violation: a retry punches at an old port |
| `registration` | 2 programs for each role, 1 leaves early, 2 lost or late probes; 70 setups | sessions and probes do not mix, no probe is lost, client and relay agree, the ports that matter are told |
| `bench` | 1 or 2 connections, 1 break, a warm-up of 2 units, blocks of 2, 2 samples; 14 setups | the measurement ends, reports what it measured, leaves the connections clean |
| `punch_select` | 2 links, 1 exchange that times out | each side keeps an open connection to the other; the same view gives the same winner; a connection that is up leads to success |
| `punch_disagree` | 2 links | violation: the two sides keep different connections |

Why these bounds are enough. Two streams are what a re-sent chunk needs: one on which the
acknowledgement is lost, one on which the chunk comes again; three blocks let both workers
hold one while the queue is not empty; two breaks can take every stream. Two connections are
what "one after the other" needs; two attempts let a failure be retried and, failing again,
be given up; two coordinators are the most there can be. An early limit and a failed punch are
kept apart to keep the run small: each alone already puts a client out of step with the
coordinator. A choice between links needs two,
and each may be a stranger's, simultaneous or accepted by either side, and LAN or not. The
random numbers of `MCDraws` put the smaller one on different sides of the two links, so that
comparing them as each side sees them would differ; `prefer_lan` is on at both or at one side
(off at both is the case of no LAN link). The liveness runs of transfer and rendezvous are
smaller because their state graphs are searched for cycles.

Two programs for a role are what reuse of an id needs, with an old handler still open
(`Restarted`, either after the first has left or while it is at work). The
setups with races have few probes, those about the analysis many: ten probes beside a client
that need not probe, whose interleavings are few. Their NATs draw from bands of 5 to 600
ports in the middle and at both ends of the port range, whole blocks among them; the
options vary the extension, the punch budget, `--external-port`, the relay's `max_scan` (4, 8,
64) and the number of connections, so that budgets below and above the band occur.
In `bench` a block is as long as the warm-up and a connection's buffer holds two units, so
that tasks wait for each other, the last block is a short one, and the warm-up may end inside
any task's read; the lists of the two sides range over all pairs of one or two connections.

**Fairness.** Weak fairness of every worker, of both main functions, of the relay, of each
client, of carried-out writes and of the passing of limits, of each task of a punch on a
link that is up, of its choice, and of each side of the measurement: tokio and asyncio run every task
whose socket is readable or whose timer has expired. Nothing is assumed of the network:
breaking, damaging, losing, and the coming about of a link, are never forced and never
prevented beyond their bounds.
`TransferSucceeds` is stated for behaviours without breaks or stalls and `AllConnect` for
undisturbed ones, `BothEstablish` for punches in which no exchange between the two sides
times out and no side's time is over; `ClientsEnd`, `AfterDoneBothEnd` and `BothEnd` hold with
the faults. In `registration` no step can be taken twice, so every behaviour comes to a state
with nothing left to do; `BothTold` is an invariant of those states, and that nothing stops
before is the absence of deadlocks.

### What the runs found

1. `receiver.rs:232`: the last acknowledgement goes out on the first stream a worker
   returned; the comment at line 211 means the one DONE came on. The receiver has the file,
   the sender reports failure.
2. `sender.rs:284`: a chunk whose write fails does not go back to the queue. The other
   workers then poll for ever: the transfer hangs.
3. `connection/mod.rs:297` (401, 429): an error on writing to the relay ends the program's
   coordination with `?` and drops established streams; `CHANGELOG.md:155` says they are
   kept. They are, when the loss is found by a read.
4. `message_queue.rs:40`: in a retry a client takes the oldest queued peer_info, one the
   second coordinator sent before the retry, and punches at a port that is gone.
5. `strategy.rs:466`: a side takes its first LAN candidate without waiting, and otherwise
   waits for a window of its own. With two connections up the two sides may so keep
   different ones, each of which the other has closed; the comment at line 172 says the
   choice is the same on both sides. It is when both have looked at the same candidates,
   which nothing ensures.

Exceptions in properties, each for something the code does:

* `TransferSucceeds`: the checksum may be taken before an accepted write has been carried out
  (`receiver.rs:326` does not flush), and then both sides report a mismatch for a transfer
  in which nothing went wrong;
* `NoOrphans`, `AckedProbesAnalysed`, `AnalysisKeepsToSession` (`stray`): `cleanup_peer`
  (`session_manager.py:47-63`) takes whatever session stands under the id. The handler of a
  client that was closed with its session may end only after others have registered; they
  lose their session, one of them without being closed. The comment at `server.py:180-181`
  lets a peer clear a session only if it is in it; the flag it explains stays set;
* `KnownPortOffered` (`shift = 0`): where a trend is seen in the probes, the shift for the
  time that passes is added to a constant offset too, against `nat_analyzer.py:531-532`.

* `PortsTrue` (`unfilled`): a client that cannot bind the port of a retry it was granted gives
  the connection up (`mod.rs:432-444`) without a word about that port to the relay, which goes
  on waiting for that port (`handlers.py:130-134`): the port of the client's next retry is filed
  under the connection it has left. And `early = 0`: a limit that passes although its answer
  is on the way leaves a report or a request behind that is taken for a later one.

Seen while modelling, without a run:

* `handlers.py:271` overwrites the reference to a running coordination task, which the
  comment above it is meant to prevent;
* `coordinator.py:46` waits for both ports without end if one side has fewer ports than there
  are connections, or if the session is torn down;
* `coordinator.py:79-90` clears reports as stale, and may clear an abandonment that was meant.
  With three connections and one failed bind (`NumConns = 3`, `MaxAttempts = 2`,
  `MaxBindFails = 1`, nothing else going wrong) a receiver that cannot bind the port of
  connection 1 reports 1 abandoned and binds both missing ports at connection 2: the relay now has a
  port for 1, begins connection 1, clears that only report, waits 60 s for a READY that cannot
  come, and the coordination of all later connections ends with that wait. Without failed binds it
  happens when one side has established a connection and given up the next while the other
  still asks for retries of the first. Successes are not affected (`SuccessStaysOnRecord`,
  which TLC has also found true with three connections);
* `filter_ergebnis` is not cleared with its session: a client whose own test was not acknowledged
  may get the verdict of an earlier program. And the verdict is undetermined for a client
  that keeps its port whenever the coordinator starts before that client's probes_complete;
* `probe_ports` holds only ports added in a retry (`handlers.py:93`), so the lookup that
  `relay.rs:116-118` counts on for the first ports never finds one;
* the range is centred on the prediction for the first local port, also for the others;
* the sender of the measurement allows 30 s for RESULT from the moment its own writes have
  been accepted, whatever still lies in buffers on a slow path.

## Proofs

`TransferProofs` proves, for every number of streams and blocks (including none) and any
number of faults, from `TransferAssumption` alone:

* `TypeCorrect`: `Spec => []TypeOK`;
* `SenderOkIsFileVerified`: `Spec => []SenderOkMeansFileVerified`;
* `CountIsNumberOfFlags`: `Spec => []CountIsFlags`;
* `Refinement`: `Spec => ImplementsFileTransfer`.

The argument. `TypeOK` is proved by itself, one lemma for each side's main function, each
side's workers and the environment. `SenderOkMeansFileVerified` is not inductive: the sender
believes a message, so the invariant has to say what the message means wherever it travels.
`Confirmed` does: an `ack` in any channel to the sender, or a sender that has read one,
implies a receiver that has returned success with the whole file on disk; and a receiver
past its checksum has the whole file on disk, which nothing ever takes off it. `Busy` says
that a worker at work on a block has one in hand, which `TypeOK` needs where a block is put
back. `IInv == TypeOK /\ Busy /\ Confirmed` is inductive (`InitIInv`, `NextIInv`), and both
the safety theorem and the step simulation of `Refinement` (`NextRefines`) follow from it.
`CountIsFlags` is inductive given `TypeOK`.

The second part goes on from `IInv` with where the blocks are, again for every number of
streams and blocks and any faults:

* `BlocksAreConserved`: `Spec => []BlockConservation`;
* `SettledBlocksAreReceived`: `Spec => []SettledIsReceived`;
* `DoneComesAfterAll`: `Spec => []DoneMeansAllReceived`.

The sender never looks at the number in an acknowledgement, so that the right block settles is
a fact about both sides and the stream between them. `Lockstep` states it: on a stream whose
sender's worker waits, at most one thing is under way - a chunk, the receiver's work on it, or
the reply (`OnItsWay`) - and it is about the block in the worker's hand, a good reply only if
that block is received (`Matches`); on a stream whose worker does not wait nothing is
(`Clear`). A worker that has failed never waits again, so what its stream still holds does not
matter. Most steps leave a stream's blocks alone (`Undisturbed`, with `NoMore`: reading,
writing another message or losing a suffix adds no chunk and no reply), and one lemma covers
them; sending, receiving, storing, marking and answering are the real cases. `Setup` says that
no worker runs before all are spawned. `Books` is the sender's account: the queue without
repetition, hands that differ from it and from each other, and `completed` the number of blocks
in neither. A block settles only when a good reply is read (`NextBooks`), and by `Lockstep` it
is then received. `DoneTold` says that DONE is decided on, under way or read only when every
block is received: `completed` is then `NumBlocks`, so every block is settled. The five
together (`Accounts`) are inductive.

`PunchSelectProofs` proves, for any number of links, any random numbers that differ and any
options, from `PunchAssumption`:

* `TypeCorrect`: `Spec => []TypeOK`;
* `SameViewGivesSameWinner`: `Spec => []SameViewSameWinner`;
* `WinnerIsOfPeer`: `Spec => []WinnerLeadsToPeer`.

For the second, the lemmas on `Smaller` and `IsBetter` say that candidates are compared by a
strict total order, the same on both sides if they prefer and classify alike (`KeyFacts`:
both compute the same pair). The invariant `Best` says that a side holds the best candidate
it has looked at; the better of two is better than all the other was better than
(`BetterIsTransitive`). Two sides with the same candidates then hold the same one
(`BestIsUnique`). For the third, `LInv` adds what the channel holds: `Queue` (open
candidates, each once, and not the one taken, so that dropping the worse of two never closes
the better), `Kept` (the one held is open) and `Met` (a number on its way was sent by the
other side, which has begun).

`RegistrationProofs` proves, for any setups, any number of programs for one id and any number
that leave:

* `TypeCorrect`: `Spec => []TypeOK`;
* `MembersAreServed`: `Spec => []MembersServed`;
* `ServedHavePlaces`: `Spec => []NoOrphans`;
* `BothToldHolds`: `Spec => []BothTold`;
* `AnalysesKeepToSession`: `Spec => []AnalysisKeepsToSession`;
* `AckedProbesAreAnalysed`: `Spec => []AckedProbesAnalysed`;
* `PredictionIsOffered`: `Spec => []PredictionOffered`;
* `KnownPortIsOffered`: `Spec => []KnownPortOffered`;
* `TargetsWithinBand`: `Spec => []ThinnedWithinBand`;
* `BandIsCovered`: `Spec => []BandCovered`;
* `VerdictsDoAgree`: `Spec => []VerdictsAgree`.

All assume `RegistrationAssumption`: the options are numbers, a program has a socket for at
least one connection and 1 to 16 for a punch, and a NAT hands out ports. `IInv` joins the second and third with `Places`, the types of the
session and the handlers. A registration
fills only an empty place, and whoever had the role and is still served would hold it
(`NoOrphans`), so nobody is displaced. A handler that ends takes both places away; since
`~stray` says that it had its own, the only other client with a place had the other
one, and is closed (`EndKeeps`). Neither property is inductive without the other.

`BothTold` needs `Meeting`: where each program is the only one of its role, one that has
arrived at the relay has its place (`Arrived`), and once both are complete a coordinator is
about to look or has told both (`CoordinatorFollows`). That is where the order in
`handle_probes_complete` counts: the check for both comes after `probes_done` is set.
The proof also showed that lost probes do not matter, which an earlier form of the
property excluded.

That sessions do not mix is `ProbesOfSession`: a probe noted when its program had its place
still finds it there, as a session that goes takes its probes along, and a place is only filled when
it is empty. `AckedProbesAnalysed` follows a probe from the relay's note on (`Safe`): while its
program is under way it is kept, or is in the analysis of the program or of its peer; its
program's `probes_complete` leaves none behind. Another program at the same address could
take it away, but a second program of the same role is not served while the first is
(`OneServed`, from `NoOrphans`), and a program that registers has no probes yet (`Course`).
With the verdict of its filter test it is the same (`AtHand`, `Verdict`): the test of another
program may end later at that address and replace it, but that program has lost its place
by then (`Fresh`).
What a selection from the list of probes contains is `ThoseFacts`, by counting places:
`Those`, not the library's recursive `SelectSeq`, is what the module uses.

`PredictionOffered` and `KnownPortOffered` compare what was told, once, with an analysis that
could change. `TellInv` says that it does not: an analysis is made once, of the probes
`taken` then, by the handler of a client that is `complete` from then on or keeps its port
(`Assessed`), and what a client was told of a judged peer is `AddressesOf` that peer
as it still is (`TellsOf`). The rest is about the operators: `AnalyzeSound` and `PeerFacts`
(below). For the port a NAT with a constant has outside, all differences of the
analysis are that constant - also that of a probe an earlier program has left behind, since
behind the address of one client there are programs of one role only (`OfItsRole`) - so that its spread is 0, its median is the constant, and the port
computed for each local port is the one outside (`OffsetFacts`, `OffsetDeltas`, `PortKnown`).
The proof showed two exceptions the first form of `KnownPortOffered` did not have: the late
coordinator (`judged`), and a constant that leads out of the ports from 1024 to 65535, where
the relay offers the nearest it allows (`nat_analyzer.py:462-465`).
`ThinnedWithinBand` needs of a list that it is `AddressesOf` a peer, none twice and only the first in
the LAN (`PeerFacts`); the rest is `TargetsFacts`. `BandCovered` needs that the range of a
band holds every port seen (`Spans`, kept through all stages of the analysis), that no
candidate is lost in the list (`PeerFacts`), and that rounded steps leave no wide gap
(`RungsCover`). Its proof showed that the first form of `BandCovered` was too strong: of a NAT
that hands out ports below 1024 they are not offered, as the relay begins no range there
(`MIN_PORT`).

`VerdictsAgree` relates what was acknowledged to the client to what the relay analysed. That
the first is among the second is `AckedProbesAnalysed`; for the converse, where nothing failed,
`CountInv` counts: whatever is known of a probe anywhere, its program has begun it (`Numbered`),
a program that is done has begun them all, and each was acknowledged before the next
(`Awaited`). `EnoughProbes` names two probes of one pair, and one of the same socket to the other
destination; `OwnIs` and `MappingIs` say from which probes either side reads its verdict. The
proof showed that the first form of `VerdictsAgree` was too strong: a NAT that draws ports may
repeat them so that all sockets look stable, one as if it looked at the destination and one as if
not, and the relay then has no verdict (`nat_analyzer.py:258-269`). The property now says what
the verdict is for the NATs where there is a right one, and that there is one if there is one socket.

`AnalysisProofs` proves, for every list of probes, every option and budget:

* `AnalyzeSound`: an analysis of at least two probes, not all with their own ports, has its prediction in its
  range, its range from 1024 up, and the figures measured (`Judged`); if the
  ports (or differences) were all one, it is no band; the range of a band holds the ports seen;
* `PeerFacts`: the list for the peer begins with the port in the LAN, or else with the one
  for the connection, has the latter in any case, and has the prediction if a range is to be
  tried - whether that is listed whole, as a window, or spread over a band.

Each stage of the analysis (classify, name, extend, contain) is a `Step` from `Figures` to
`Figures`; that the range holds the prediction is made true by the first, kept by the
second and third, and made sure of by the last (`Framed`). What the prediction is does not matter,
only that it is a number: sums of lists of ports are numbers (`TotalType`, by a least
counterexample), the quotients are rounded by `RoundDiv` to numbers, and all is cut to ports.
The budget `Needed` is at least one, which is what the window and the spread need to keep
the prediction.

* `MappingIs` (a lemma): the mapping is `pro_verbindung` exactly if two connections of one pair
  had different ports; and what else it is, if the sockets seen at every destination agree.
* `TargetsFacts`: the thinned list has exactly as many addresses as the budget, all different,
  begins with the fixed ones and takes from the band what there is or fits.

`Pick` rounds places, `(2(i-1)L + n) / 2n`: they lie at least one apart if n is at most L
(`PlacesDiffer`), and pass over none if n is at least L (`PlacesAll`), so that it picks n
different elements or all there are. How many a selection without repetitions holds is
counted by the bijection between its places and its elements (`CountOfList`).

The code offers the prediction only if it lies in the range; it always does (`SpreadOpen`, from
`AnalyzeSound`). The steps of `Even` are rounded multiples of `w / d`: two in a row are at most `w / d`, rounded
up, apart (`StepGap`: rounding could only add one if `d` divided `w`, and then nothing is
rounded), the first is the least port and the last the greatest, so that above each port of
the band the next one offered is near (`RungsCover`).

`RendezvousProofs` proves, for any number of connections and attempts, any losses and limits
that pass, and either side's failures, from `LinkAssumption` alone (the bounds on faults are
not used):

* `TypeCorrect`: `Spec => []TypeOK`;
* `RecordIsTrue`: `Spec => []ResultsTrue`;
* `OneAfterAnother`: `Spec => []Sequential`.

Channels are handled as the set of their lines (`Lines`): a client only takes lines from its
queues, from whatever place (`ClientTakes`), the relay only takes a client's first one, and
each adds lines of known kinds (`ClientAdds`, `ServerTells`). `TypeOK` needs `Slots`, that a
client at work on a connection has a port for it, and `PortsGiven`, that a report of new ports
names one (`Shape`). The record is true because every report on its way is
(`TrueReports`): a client says how a connection ended in the step that leaves it (`Says`), it
holds streams of connections it has left only (`Held`), and no later step touches those, except
one that ends the client. `Sequential` rests on the record: a coordinator goes on when both
results are there, so both clients have gone on (`NextReached`), and a retry is granted for
a connection both have asked about (`AskedInTurn`). Whatever a task of the relay is at
(`Attended`), and whatever has been told of, both have reached (`ServedInTurn`); clients never go
back.

Its second part proves, from `LinkAssumption` alone, for any number of connections and
attempts, lost connections, failed punches and failed binds:

* `PortsAreTrue`: `Spec => []PortsTrue`.

`PortsTrue` speaks of the moments when no report is under way; the invariant has to say what
is outstanding at all others. `InStep(p)` does, of a client whose session stands
(`Regular`): a retry is at one place, asked for in a line, noted by the relay, or answered in a
line (`Retrying`); the relay waits for a port of the client exactly while it has a grant in
its queues or the report of the port bound for it under way (`Awaited`); one report is under
way at most and acknowledged before the next (`Answered`); and the record is the client's
list of ports but for that report, appended or put in its place, which says which of the two
`add_ports` is (`OnRecord`). A client that neither waits for a retry nor for an
acknowledgement has nothing outstanding (`Settled`), and every step of a client starts
from there or ends there. A limit at the client passes only when nothing is under way
(`Quiet`), so it leaves nothing behind. `Begin` says how a session starts: until a client has
been heard the relay has no task and no retry, and the other is led nowhere (`Alone`). Steps of
one do not touch the other (`Kept`, `Untouched`). It follows that the relay's branch for a retry
of a connection it has no port for (`handlers.py:139-144`) is not taken outside the exceptions.

`RendezvousGoProofs` proves, from `LinkAssumption` alone, for any number of connections and
attempts, failed punches and failed binds:

* `GoIsAwaited`: `Spec => GoFindsBothWaiting`.

The relay sends GO when it has a READY of both, so the invariant has to say whose READY it has.
As long as no connection is lost, no limit passes early and no client leaves a retry without a
port (`Calm`), it is that of a client waiting for this GO, or it is left from a wait that has
ended (`ReadyInv`), and then neither client can say READY for that connection again
(`Gone`) before a grant has cleared both. The second case comes about where a client's limit for GO
passes. That takes a moment when nothing moves (`Quiet`), at which the peer must not be about to
say READY; so the rest of `CalmInv` is about who waits for what. A GO finds the client
waiting, and the peer of one that has it has one, too, or is past it (`GoInv`). A client
that waits for peer_info while its peer has had it has one in its queues, or a retry or the second
coordinator's start will bring it (`OwedInv`). Two clients between peer_info and GO have a task
that leads them there (`ServedInv`, `Arranged`). `StartInv` says which tasks there are
before both clients have been probed, `PlaceInv` what each place a client can be at tells of
it. Each of the parts is kept by each step, and most steps only spare what a part speaks of
(`PlaceKept`, `OwedKept`, `StartKept`); where nothing moves, `OwedInv` and `ServedInv` leave no
client behind that could still say READY. `CalmInv` was checked by TLC with three connections
before it was proved. `Calm` only ever ends, so `LeadInv` (`CalmInv` while `Calm` holds, with the
invariants of `RendezvousProofs`) is inductive.

`BenchProofs` proves, for any lists of connections (each without repetition and not empty, as
the code collects them; `BenchAssumption`), any size of payload, warm-up, block and buffer,
any number of round trips and samples, and any connections that break:

* `TypeCorrect`: `Spec => []TypeOK`;
* `ResultDeliveredHolds`: `Spec => []ResultDelivered`;
* `StreamsCleanHolds`: `Spec => []StreamsClean`;
* `MeasuredAfterWarmUpHolds`: `Spec => []MeasuredAfterWarmUp`;
* `FailureHasCauseHolds`: `Spec => []FailureHasCause`.

One invariant, `Inv`, carries all five. Frames and payload share a connection, and most frames
are taken without a look at what they are, so that the two programs stay in step is a fact
about the whole of what they have written and read. `FromSender(i)` and `FromReceiver(i)` are the i-th item each puts on
the control connection if all goes well; `Sent`, `Read`, `Written` and `Taken` say, from where a
program stands, how many it has put there or taken. `WireOut` and `WireBack` say that what is
under way is exactly the items in between (`SendsOut`, `ReadsOut`, `SendsBack` and `ReadsBack`
keep them). So a side in the phase that expects a frame finds that frame
(`SenderExpects`, `ReceiverExpects`), the sender reads the report and nothing else, and on every other
connection the number of units under way is what was written less what was read. If the sides
take different connections for control, the receiver reads payload as parameters and comes no further than
the first round trip (`Apart`), and the sender never succeeds. Where the receiver counts and
marks in two steps, `Warming` counts the tasks that have passed the warm-up and not yet marked it: each
has added at most a block.

Sums over connections and samples are the hard part, as there is no induction over data here: a
sum is a function of its partial sums (`Sums`), the invariant says that one exists, and what
would be an induction is the least place where the claim fails (`Least`, from the
well-foundedness of `<`). `SharesAddUp` says that the shares add up to what is shared;
`SameParts` that parts of which none is greater than its counterpart, and whose sums agree,
are the same, which is why nothing is left on any connection even if the lists of the two sides
differ; `SeriesReported` that the sum `ResultDelivered` speaks of, a fold, is such a sum.

`ChunkLayout` proves, for any file, number of streams and option within its limits:

* `ChunkSizeBounds`: the chunk size keeps to the limits of the option and fits a u32;
* `ChunksTileTheFile`: the chunks cover the file without gap or overlap, none is empty, and the
  receiver refuses none; a file of no bytes has no chunks;
* `NumberFits`: the number of chunks fits a u32 for files up to 256 TiB (it is cast
  without a check, `sender.rs:172`);
* `TwoChunksPerStream`: two chunks for each stream, unless they would be smaller than 256 KiB.

All rest on `Quotient`, what division gives, and on the order of products.

Every invariant of the passing runs is proved, and every action property but one. Model-checked
only: the liveness properties, and `SuccessStaysOnRecord`. A proof of the latter would have to say
that no coordinator comes to a connection after a client has established it, for any
coordinator left behind at an earlier one.
The proof of `GoFindsBothWaiting` has shown that it needs the exception of `PortsTrue`: with three connections a client that leaves the retry it was granted for the first without a
port has its port for the retry of the second filed for the first; the port it binds for the
third then completes the second's retry, whose peer_info lets its peer say READY, and the
relay, which has kept the client's READY, sends GO for a connection that client has left.
Liveness under fairness, ENABLED and induction over data (what a recursive function computes) are
out of the prover's reach and stay with TLC.

## Not modelled

* Punching: port slots and the socket budget, the rotation over targets, the report. They
  decide which links come about, which `PunchSelect` leaves open.
* Probing: socket calls; whether the filter test gets through (nothing depends on it; whose test it was is kept).
* The clock offset the client computes from `registered`: its use, the moment of a punch, is a
  step that waits for the coordinators (`CoordinatorsLooked`).
* A coordinator in the middle of its connections that meets a later session under its id:
  `Registration` ends with its first look, `Rendezvous` has one session.
* The request for socket buffers and the clamp of the window, the progress display.
* `main.rs`, `cli.rs`: option parsing (the limits of `--chunk` are in `ChunkLayout`), binding
  the first ports, the check for the least number of connections: a side that has too few
  leaves, and to the other this is a peer that closes.
* `metrics.rs`, `netinfo.rs`, `fixtures.py`: figures and output. Messages that change no
  state (keepalive, ping, peer_added_ports) and texts. Errors of the local file system.

## Plan

1. done: `Transfer`, its abstract specification and first theorems.
2. done: `RelayLink`, `RelayServer`, `PunchClient`, `Rendezvous`.
3. done: `PunchSelect` and its theorems.
4. done: `NatAnalysis`, `Candidates`, `Registration` and its theorems; `Bench`;
   `ChunkLayout`.
5. done: the lockstep invariant of `Transfer` and what follows from it
   (second part of `TransferProofs`).
6. done: the first theorems about `Rendezvous` (`RendezvousProofs`).
7. done: the theorems about `Bench` (`BenchProofs`).
8. done: `PortsTrue` and `GoFindsBothWaiting` of `Rendezvous` (`RendezvousProofs`,
   `RendezvousGoProofs`), the analysis and what is told of it (`AnalysisProofs`,
   `RegistrationProofs`).
9. A coordinator that meets the next session under its id, in `Rendezvous`.
