--------------------------- MODULE RendezvousProofs ---------------------------
(***************************************************************************)
(* Proofs about the rendezvous of two clients at the relay, for every      *)
(* number of connections and attempts and any losses and limits that pass: *)
(* the types, that the relay's record of results is true, that one         *)
(* connection is arranged after the other, and that the relay has on       *)
(* record the ports the clients hold.                                      *)
(***************************************************************************)
EXTENDS Rendezvous, SequenceTheorems, WellFoundedInduction, TLAPS

USE DEF peers, retries, retryTasks, tasks, server, progress, portVars, infoVars,
        bounds, melden, client, link

(***************************************************************************)
(* The lines of a channel.                                                 *)
(***************************************************************************)

Lines(q) == {q[i] : i \in DOMAIN q}

LEMMA AppendLines ==
  ASSUME NEW q \in Seq(Msg), NEW m \in Msg
  PROVE  Append(q, m) \in Seq(Msg) /\ Lines(Append(q, m)) = Lines(q) \cup {m}
<1>. DEFINE r == Append(q, m)
<1>1. /\ r \in Seq(Msg) /\ Len(q) \in Nat /\ Len(r) = Len(q) + 1
      /\ \A i \in 1 .. Len(q) : r[i] = q[i]
      /\ r[Len(q) + 1] = m
  BY AppendProperties, LenProperties
<1>2. DOMAIN q = 1 .. Len(q) /\ DOMAIN r = 1 .. Len(r)
  BY <1>1, LenProperties
<1>. HIDE DEF r
<1>3. DOMAIN r = DOMAIN q \cup {Len(q) + 1}
  BY <1>1, <1>2
<1>4. Lines(r) = Lines(q) \cup {m}
  BY <1>1, <1>2, <1>3 DEF Lines
<1>. QED
  BY <1>1, <1>4 DEF r

LEMMA HeadLine ==
  ASSUME NEW q \in Seq(Msg), q # <<>>
  PROVE  /\ Head(q) \in Lines(q) /\ Head(q) \in Msg
         /\ Tail(q) \in Seq(Msg) /\ Lines(Tail(q)) \subseteq Lines(q)
<1>. DEFINE r == Tail(q)
<1>1. /\ Len(q) \in Nat \ {0} /\ DOMAIN q = 1 .. Len(q)
      /\ r \in Seq(Msg) /\ DOMAIN r = 1 .. Len(r) /\ Len(r) = Len(q) - 1
      /\ \A i \in 1 .. Len(r) : r[i] = q[i + 1]
  BY EmptySeq, LenProperties, HeadTailProperties
<1>2. Head(q) = q[1] /\ Head(q) \in Msg /\ 1 \in DOMAIN q
  BY <1>1, HeadTailProperties
<1>3. Head(q) \in Lines(q)
  BY <1>2 DEF Lines
<1>. HIDE DEF r
<1>4. \A i \in DOMAIN r : i + 1 \in DOMAIN q /\ r[i] = q[i + 1]
  BY <1>1
<1>5. Lines(r) \subseteq Lines(q)
  BY <1>4 DEF Lines
<1>. QED
  BY <1>1, <1>2, <1>3, <1>5 DEF r

\* A part of the lines is taken out.
LEMMA PartLines ==
  ASSUME NEW q \in Seq(Msg), NEW a \in Int, NEW b \in Int, 1 <= a, b <= Len(q)
  PROVE  SubSeq(q, a, b) \in Seq(Msg) /\ Lines(SubSeq(q, a, b)) \subseteq Lines(q)
<1>. DEFINE r == SubSeq(q, a, b)
<1>1. Len(q) \in Nat /\ DOMAIN q = 1 .. Len(q)
  BY LenProperties
<1>2. \A i \in a .. b : i \in DOMAIN q /\ q[i] \in Msg
  BY <1>1, ElementOfSeq
<1>3. /\ r \in Seq(Msg) /\ Len(r) = (IF a <= b THEN b - a + 1 ELSE 0)
      /\ \A i \in 1 .. b - a + 1 : r[i] = q[a + i - 1]
  BY <1>2, SubSeqProperties
<1>4. DOMAIN r = 1 .. Len(r)
  BY <1>3, LenProperties
<1>. HIDE DEF r
<1>5. \A i \in DOMAIN r : a + i - 1 \in DOMAIN q /\ r[i] = q[a + i - 1]
  BY <1>1, <1>3, <1>4
<1>6. Lines(r) \subseteq Lines(q)
  BY <1>5 DEF Lines
<1>. QED
  BY <1>3, <1>6 DEF r

LEMMA WithoutLine ==
  ASSUME NEW q \in Seq(Msg), NEW i \in DOMAIN q
  PROVE  /\ SubSeq(q, 1, i - 1) \o SubSeq(q, i + 1, Len(q)) \in Seq(Msg)
         /\ Lines(SubSeq(q, 1, i - 1) \o SubSeq(q, i + 1, Len(q))) \subseteq Lines(q)
         /\ q[i] \in Lines(q) /\ q[i] \in Msg
<1>. DEFINE a == SubSeq(q, 1, i - 1)
            b == SubSeq(q, i + 1, Len(q))
            r == a \o b
<1>1. Len(q) \in Nat /\ DOMAIN q = 1 .. Len(q) /\ i \in 1 .. Len(q)
  BY LenProperties
<1>2. a \in Seq(Msg) /\ Lines(a) \subseteq Lines(q)
  BY <1>1, PartLines
<1>3. b \in Seq(Msg) /\ Lines(b) \subseteq Lines(q)
  BY <1>1, PartLines
<1>4. q[i] \in Lines(q) /\ q[i] \in Msg
  BY <1>1, ElementOfSeq DEF Lines
<1>. HIDE DEF a, b
<1>5. /\ r \in Seq(Msg) /\ Len(r) = Len(a) + Len(b)
      /\ \A j \in 1 .. Len(a) + Len(b) :
           r[j] = IF j <= Len(a) THEN a[j] ELSE b[j - Len(a)]
  BY <1>2, <1>3, ConcatProperties
<1>6. /\ DOMAIN r = 1 .. Len(r)
      /\ Len(a) \in Nat /\ Len(b) \in Nat /\ DOMAIN a = 1 .. Len(a) /\ DOMAIN b = 1 .. Len(b)
  BY <1>2, <1>3, <1>5, LenProperties
<1>. HIDE DEF r
<1>7. \A j \in DOMAIN r : \/ j \in DOMAIN a /\ r[j] = a[j]
                          \/ j - Len(a) \in DOMAIN b /\ r[j] = b[j - Len(a)]
  BY <1>5, <1>6
<1>8. Lines(r) \subseteq Lines(a) \cup Lines(b)
  BY <1>7 DEF Lines
<1>. QED
  BY <1>2, <1>3, <1>4, <1>5, <1>8 DEF a, b, r

\* Writing a line to one client, or taking one from it.
LEMMA WrittenLines ==
  ASSUME NEW ch \in [Roles -> Seq(Msg)], NEW p \in Roles, NEW m \in Msg
  PROVE  /\ Written(ch, p, m) \in [Roles -> Seq(Msg)]
         /\ \A q \in Roles : \A x \in Lines(Written(ch, p, m)[q]) :
              x \in Lines(ch[q]) \/ (q = p /\ x = m)
<1>1. CASE p \in cut
  BY <1>1 DEF Written
<1>2. CASE p \notin cut
  <2>1. Written(ch, p, m) = [ch EXCEPT ![p] = Append(ch[p], m)]
    BY <1>2 DEF Written
  <2>2. Append(ch[p], m) \in Seq(Msg) /\ Lines(Append(ch[p], m)) = Lines(ch[p]) \cup {m}
    BY AppendLines
  <2>. QED
    BY <2>1, <2>2
<1>. QED
  BY <1>1, <1>2

LEMMA BothLines ==
  ASSUME NEW m, \A q \in Roles : m[q] \in Msg, LinkTypeOK, TellBoth(m)
  PROVE  /\ toClient' \in [Roles -> Seq(Msg)]
         /\ \A q \in Roles : \A x \in Lines(toClient'[q]) : x \in Lines(toClient[q]) \/ x = m[q]
<1>1. \A q \in Roles : toClient[q] \in Seq(Msg)
  BY DEF LinkTypeOK
<1>2. \A q \in Roles : /\ Append(toClient[q], m[q]) \in Seq(Msg)
                       /\ Lines(Append(toClient[q], m[q])) = Lines(toClient[q]) \cup {m[q]}
  BY <1>1, AppendLines
<1>3. toClient' = [q \in Roles |-> IF q \in cut THEN toClient[q] ELSE Append(toClient[q], m[q])]
  BY DEF TellBoth
<1>. QED
  BY <1>1, <1>2, <1>3

LEMMA TakenLines ==
  ASSUME LinkTypeOK, NEW p \in Roles, toServer[p] # <<>>, TakeLine(p)
  PROVE  /\ toServer' \in [Roles -> Seq(Msg)]
         /\ \A q \in Roles : Lines(toServer'[q]) \subseteq Lines(toServer[q])
         /\ Head(toServer[p]) \in Lines(toServer[p]) /\ Head(toServer[p]) \in Msg
<1>1. toServer \in [Roles -> Seq(Msg)] /\ toServer[p] \in Seq(Msg)
  BY DEF LinkTypeOK
<1>2. toServer' = [toServer EXCEPT ![p] = Tail(toServer[p])]
  BY DEF TakeLine
<1>. QED
  BY <1>1, <1>2, HeadLine

\* What the fields of a line are.
LEMMA MsgFacts ==
  /\ \A m \in Msg :
       /\ m.type \in {"ready", "retry_request", "conn_established", "conn_abandoned",
                      "go", "retry_granted", "retry_rejected", "peer_info"} => m.conn \in Conns
       /\ m.type \in {"register", "add_ports", "ports_added_ack"} => m.ports \in Seq(Ports)
       /\ m.type = "peer_info" => m.port \in Ports
  /\ \A t \in {"registered", "probes_complete"} : Bare(t) \in Msg /\ Bare(t).type = t
  /\ \A t \in {"ready", "retry_request", "conn_established", "conn_abandoned", "go",
               "retry_granted", "retry_rejected"} : \A n \in Conns :
       OfConn(t, n) \in Msg /\ OfConn(t, n).type = t /\ OfConn(t, n).conn = n
  /\ \A t \in {"register", "add_ports", "ports_added_ack"} : \A s \in Seq(Ports) :
       OfPorts(t, s) \in Msg /\ OfPorts(t, s).type = t /\ OfPorts(t, s).ports = s
  /\ \A n \in Conns, x \in Ports :
       /\ PeerInfo(n, x) \in Msg /\ PeerInfo(n, x).type = "peer_info"
       /\ PeerInfo(n, x).conn = n /\ PeerInfo(n, x).port = x
<1>1. \A t \in {"registered", "probes_complete"} : Bare(t) \in Msg /\ Bare(t).type = t
  BY DEF Msg, Bare
<1>2. \A t \in {"ready", "retry_request", "conn_established", "conn_abandoned", "go",
                "retry_granted", "retry_rejected"} : \A n \in Conns :
        OfConn(t, n) \in Msg /\ OfConn(t, n).type = t /\ OfConn(t, n).conn = n
  BY DEF Msg, OfConn
<1>3. \A t \in {"register", "add_ports", "ports_added_ack"} : \A s \in Seq(Ports) :
        OfPorts(t, s) \in Msg /\ OfPorts(t, s).type = t /\ OfPorts(t, s).ports = s
  BY DEF Msg, OfPorts
<1>4. \A n \in Conns, x \in Ports :
        /\ PeerInfo(n, x) \in Msg /\ PeerInfo(n, x).type = "peer_info"
        /\ PeerInfo(n, x).conn = n /\ PeerInfo(n, x).port = x
  BY DEF Msg, PeerInfo
<1>5. ASSUME NEW m \in Msg
      PROVE  /\ m.type \in {"ready", "retry_request", "conn_established",
                            "conn_abandoned", "go", "retry_granted", "retry_rejected",
                            "peer_info"} => m.conn \in Conns
             /\ m.type \in {"register", "add_ports", "ports_added_ack"} =>
                  m.ports \in Seq(Ports)
             /\ m.type = "peer_info" => m.port \in Ports
  BY DEF Msg
<1>. QED
  BY <1>1, <1>2, <1>3, <1>4, <1>5

\* A reader takes the first line of those it looks for: there is a first one.
LEMMA FirstOf ==
  ASSUME NEW S \in SUBSET Nat, S # {}
  PROVE  (CHOOSE j \in S : \A k \in S : j <= k) \in S
<1>. DEFINE Less == OpToRel(<, Nat)
<1>1. \E x \in S : \A y \in S : <<y, x>> \notin Less
  <2>1. IsWellFoundedOn(Less, Nat)
    BY NatLessThanWellFounded
  <2>. QED
    BY <2>1, WFMin
<1>2. \A x, y \in Nat : <<y, x>> \in Less <=> y < x
  BY DEF OpToRel
<1>. HIDE DEF Less
<1>3. PICK x \in S : \A y \in S : <<y, x>> \notin Less
  BY <1>1
<1>4. ASSUME NEW y \in S PROVE x <= y
  <2>1. x \in Nat /\ y \in Nat
    BY <1>3
  <2>2. ~(y < x)
    BY <1>2, <1>3, <2>1
  <2>. QED
    BY <2>1, <2>2
<1>. QED
  BY <1>4

LEMMA ReceivedLine ==
  ASSUME LinkTypeOK, NEW p \in Roles, NEW t, Receive(p, t)
  PROVE  /\ toClient' \in [Roles -> Seq(Msg)]
         /\ \A q \in Roles : Lines(toClient'[q]) \subseteq Lines(toClient[q])
         /\ First(p, t) \in Lines(toClient[p]) /\ First(p, t) \in Msg
         /\ First(p, t).type = t /\ First(p, t).conn = conn[p]
<1>. DEFINE S == Places(p, t, conn[p])
            i == CHOOSE j \in S : \A k \in S : j <= k
<1>1. toClient \in [Roles -> Seq(Msg)] /\ toClient[p] \in Seq(Msg)
  BY DEF LinkTypeOK
<1>2. DOMAIN toClient[p] \subseteq Nat
  BY <1>1, LenProperties
<1>3. S \in SUBSET Nat /\ S # {}
  BY <1>2 DEF Places, Receive
<1>4. i \in S
  BY <1>3, FirstOf
<1>5. First(p, t) = toClient[p][i]
  BY DEF First
<1>6. toClient' = [toClient EXCEPT ![p] =
                     SubSeq(toClient[p], 1, i - 1)
                       \o SubSeq(toClient[p], i + 1, Len(toClient[p]))]
  BY DEF Receive
<1>7. i \in DOMAIN toClient[p] /\ toClient[p][i].type = t /\ toClient[p][i].conn = conn[p]
  BY <1>4 DEF Places
<1>. HIDE DEF i
<1>. QED
  BY <1>1, <1>5, <1>6, <1>7, WithoutLine

(***************************************************************************)
(* Types.                                                                  *)
(***************************************************************************)

\* A client at work on a connection has one left to work on and a port for it; a line
\* that adds ports has one.
Trying == {"peerinfo", "ready", "go", "punch", "failed", "retry"}
AtWork(p) == cPc[p] \in Trying \/ (cPc[p] = "ack" /\ after[p] = "peerinfo")

Slots ==
  \A p \in Roles :
    /\ Len(sockets[p]) <= NumConns
    /\ AtWork(p) => conn[p] < NumConns /\ conn[p] < Len(sockets[p])

PortsGiven ==
  \A p \in Roles : \A m \in Lines(toServer[p]) : m.type = "add_ports" => m.ports # <<>>

Shape == TypeOK /\ Slots /\ PortsGiven

\* Any step of client p.
CStep(p) == Client(p) \/ Punched(p) \/ ClientLimit(p)

LEMMA ConstantFacts ==
  /\ NumConns \in Nat \ {0} /\ MaxAttempts \in Nat \ {0} /\ Conns = 0 .. NumConns - 1
  /\ 0 \in Conns /\ <<0, 0>> \in Ports
  /\ \A n \in Conns, k \in Nat : <<n, k>> \in Ports
  /\ \A p \in Roles : Other(p) \in Roles /\ Other(p) # p
  /\ \A p, q \in Roles : q = p \/ q = Other(p)
BY LinkAssumption DEF Conns, Ports, Roles, Other

\* The lines a client writes about the connection it is at.
ClientLines(p) ==
  {m \in Msg :
     /\ m.type = "add_ports" => m.ports # <<>>
     /\ m.type \in {"retry_request", "conn_established", "conn_abandoned"} =>
          m.conn = conn[p]}

LEMMA PortsOfLength ==
  ASSUME NEW n \in Nat, NEW s \in [1 .. n -> Ports]
  PROVE  s \in Seq(Ports)
BY SeqDef

LEMMA SentLine ==
  ASSUME TypeOK, NEW p \in Roles, NEW m \in ClientLines(p), Send(p, m)
  PROVE  /\ toServer' \in [Roles -> Seq(Msg)]
         /\ \A q \in Roles : \A x \in Lines(toServer'[q]) :
              x \in Lines(toServer[q]) \/ (q = p /\ x = m)
BY WrittenLines DEF Send, TypeOK, LinkTypeOK, ClientLines

\* A client only takes lines out of what the relay has sent it.
LEMMA ClientTakes ==
  ASSUME TypeOK, NEW p \in Roles, CStep(p)
  PROVE  /\ toClient' \in [Roles -> Seq(Msg)]
         /\ \A q \in Roles : Lines(toClient'[q]) \subseteq Lines(toClient[q])
<1>. USE DEF TypeOK
<1>1. toClient \in [Roles -> Seq(Msg)] /\ toClient[p] \in Seq(Msg)
  BY DEF LinkTypeOK
<1>2. CASE CRegistered(p)
  <2>1. PICK i \in 1 .. Len(toClient[p]) :
          toClient' = [toClient EXCEPT ![p] = SubSeq(@, i + 1, Len(@))]
    BY <1>2 DEF CRegistered
  <2>2. Len(toClient[p]) \in Nat
    BY <1>1, LenProperties
  <2>3. /\ SubSeq(toClient[p], i + 1, Len(toClient[p])) \in Seq(Msg)
        /\ Lines(SubSeq(toClient[p], i + 1, Len(toClient[p]))) \subseteq Lines(toClient[p])
    BY <1>1, <2>2, PartLines
  <2>. QED
    BY <1>1, <2>1, <2>3
<1>3. CASE CFirstPeerInfo(p) \/ CPeerInfo(p) \/ CGo(p) \/ CRetryRejected(p)
             \/ CRetryGranted(p) \/ CRebindFail(p)
  <2>1. \E t : Receive(p, t)
    BY <1>3 DEF CFirstPeerInfo, CPeerInfo, CGo, CRetryRejected, CRetryGranted, CRebindFail,
                Granted
  <2>. QED
    BY <2>1, ReceivedLine
<1>4. CASE CWriteError(p)
  <2>1. CASE toClient' = toClient
    BY <1>1, <2>1
  <2>2. CASE Granted(p)
    BY <2>2, ReceivedLine DEF Granted
  <2>. QED
    BY <1>4, <2>1, <2>2 DEF CWriteError
<1>5. CASE CAck(p)
  <2>. DEFINE i == CHOOSE j \in Acks(p) : \A k \in Acks(p) : j <= k
  <2>1. Acks(p) \in SUBSET Nat /\ Acks(p) # {}
    <3>1. DOMAIN toClient[p] = 1 .. Len(toClient[p]) /\ Len(toClient[p]) \in Nat
      BY <1>1, LenProperties
    <3>2. Acks(p) \subseteq DOMAIN toClient[p]
      BY DEF Acks
    <3>3. Acks(p) # {}
      BY <1>5 DEF CAck
    <3>. QED
      BY <3>1, <3>2, <3>3
  <2>2. i \in DOMAIN toClient[p]
    BY <2>1, FirstOf DEF Acks
  <2>3. toClient' = [toClient EXCEPT ![p] =
                       SubSeq(toClient[p], 1, i - 1)
                         \o SubSeq(toClient[p], i + 1, Len(toClient[p]))]
    BY <1>5 DEF CAck
  <2>. HIDE DEF i
  <2>. QED
    BY <1>1, <2>2, <2>3, WithoutLine
<1>6. CASE \/ CRegister(p) \/ CRegisterFail(p) \/ CFirstFail(p) \/ CExtra(p) \/ CFinish(p)
           \/ CBind(p) \/ CBindFail(p) \/ CStart(p) \/ CReady(p) \/ CRetryRequest(p)
           \/ CAckError(p) \/ CNotice(p) \/ CTransportLost(p) \/ Punched(p) \/ ClientLimit(p)
  <2>1. toClient' = toClient
    BY <1>6 DEF CRegister, CRegisterFail, CFirstFail, CExtra, CFinish, CBind, CBindFail,
       CStart, CReady, CRetryRequest, CAckError, CAckMissing, CNotice, CTransportLost,
       Punched, CEstablished, CPunchFail, ClientLimit, CFirstTimeout, CTimeout,
       CAckTimeout, CPunchAlone
  <2>. QED
    BY <1>1, <2>1
<1>. QED
  BY <1>2, <1>3, <1>4, <1>5, <1>6 DEF CStep, Client

\* A client says how a connection ended as it leaves it.
Says(p, m) ==
  /\ m.type = "conn_established" => conn'[p] = conn[p] + 1 /\ conn[p] \in streams'[p]
  /\ m.type = "conn_abandoned" => conn'[p] = conn[p] + 1 /\ streams' = streams

\* What a client says goes to the relay in one line at most.
LEMMA ClientSays ==
  ASSUME Shape, NEW p \in Roles, CStep(p)
  PROVE  toServer' = toServer \/ \E m \in ClientLines(p) : Send(p, m) /\ Says(p, m)
<1>. USE MsgFacts, ConstantFacts DEF Shape, TypeOK, ClientTypeOK, Slots
<1>1. \A t \in {"ready", "retry_request", "conn_established", "conn_abandoned"} :
        conn[p] < NumConns => OfConn(t, conn[p]) \in ClientLines(p)
  BY DEF ClientLines
<1>2. ASSUME Fail(p), AtWork(p), streams' = streams
      PROVE  toServer' = toServer \/ \E m \in ClientLines(p) : Send(p, m) /\ Says(p, m)
  <2>1. CASE Abandon(p)
    <3>1. conn[p] < NumConns /\ conn[p] \in Conns
      BY <1>2
    <3>2. /\ Send(p, OfConn("conn_abandoned", conn[p])) /\ conn'[p] = conn[p] + 1
      BY <2>1 DEF Abandon
    <3>3. Says(p, OfConn("conn_abandoned", conn[p]))
      BY <1>2, <3>1, <3>2 DEF Says
    <3>. QED
      BY <1>1, <3>1, <3>2, <3>3
  <2>. QED
    BY <1>2, <2>1 DEF Fail
<1>3. CASE CRegister(p)
  <2>. DEFINE ports == [i \in DOMAIN sockets[p] |-> <<i - 1, 0>>]
  <2>1. /\ Len(sockets[p]) \in Nat /\ Len(sockets[p]) <= NumConns
        /\ DOMAIN sockets[p] = 1 .. Len(sockets[p])
    BY LenProperties
  <2>2. \A i \in 1 .. Len(sockets[p]) : i - 1 \in Conns
    BY <2>1
  <2>3. ports \in [1 .. Len(sockets[p]) -> Ports]
    BY <2>1, <2>2
  <2>4. Send(p, OfPorts("register", ports))
    BY <1>3 DEF CRegister
  <2>. HIDE DEF ports
  <2>5. ports \in Seq(Ports)
    BY <2>1, <2>3, PortsOfLength
  <2>6. OfPorts("register", ports) \in ClientLines(p) /\ Says(p, OfPorts("register", ports))
    BY <2>5 DEF ClientLines, Says
  <2>. QED
    BY <2>4, <2>6
<1>4. CASE CRegistered(p)
  <2>1. Bare("probes_complete") \in ClientLines(p) /\ Says(p, Bare("probes_complete"))
    BY DEF ClientLines, Says
  <2>. QED
    BY <1>4, <2>1 DEF CRegistered
<1>5. CASE CExtra(p)
  <2>1. PICK k \in 0 .. NumConns - Len(sockets[p]) :
          /\ bindFails' = IF Len(sockets[p]) + k < NumConns THEN bindFails + 1 ELSE bindFails
          /\ bindFails' <= MaxBindFails
          /\ sockets' = [sockets EXCEPT ![p] = @ \o [i \in 1 .. k |-> 0]]
          /\ IF k = 0 THEN Goto(p, "head") /\ UNCHANGED <<melden, toServer>>
             ELSE Report(p, [i \in 1 .. k |-> <<Len(sockets[p]) + i - 1, 0>>], "head")
    BY <1>5 DEF CExtra
  <2>2. CASE k # 0
    <3>. DEFINE ports == [i \in 1 .. k |-> <<Len(sockets[p]) + i - 1, 0>>]
    <3>1. Len(sockets[p]) \in Nat /\ k \in Nat \ {0} /\ Len(sockets[p]) + k <= NumConns
      BY <2>2, LenProperties
    <3>2. \A i \in 1 .. k : Len(sockets[p]) + i - 1 \in Conns
      BY <3>1
    <3>3. ports \in [1 .. k -> Ports]
      BY <3>2
    <3>4. Send(p, OfPorts("add_ports", ports))
      BY <2>1, <2>2 DEF Report
    <3>. HIDE DEF ports
    <3>5. ports \in Seq(Ports)
      BY <3>1, <3>3, PortsOfLength
    <3>6. DOMAIN ports = 1 .. k /\ DOMAIN <<>> = {} /\ 1 \in 1 .. k
      BY <3>1, <3>3
    <3>7. ports # <<>>
      BY <3>6
    <3>8. OfPorts("add_ports", ports) \in ClientLines(p) /\ Says(p, OfPorts("add_ports", ports))
      BY <3>5, <3>7 DEF ClientLines, Says
    <3>. QED
      BY <3>4, <3>8
  <2>. QED
    BY <2>1, <2>2
<1>6. CASE CBind(p)
  <2>1. Len(sockets[p]) \in Conns
    BY <1>6, LenProperties DEF CBind
  <2>. DEFINE port == <<Len(sockets[p]), 0>>
  <2>2. port \in Ports
    BY <2>1
  <2>3. Send(p, OfPorts("add_ports", <<port>>))
    BY <1>6 DEF CBind, Report
  <2>. HIDE DEF port
  <2>4. <<port>> \in Seq(Ports) /\ <<port>> # <<>>
    BY <2>2
  <2>5. OfPorts("add_ports", <<port>>) \in ClientLines(p) /\ Says(p, OfPorts("add_ports", <<port>>))
    BY <2>4 DEF ClientLines, Says
  <2>. QED
    BY <2>3, <2>5
<1>7. CASE CBindFail(p) \/ CRebindFail(p)
  <2>1. conn[p] < NumConns /\ conn[p] \in Conns
    <3>1. conn[p] < NumConns \/ AtWork(p)
      BY <1>7 DEF CBindFail, CRebindFail, Granted, AtWork, Trying
    <3>. QED
      BY <3>1
  <2>2. /\ Send(p, OfConn("conn_abandoned", conn[p])) /\ conn'[p] = conn[p] + 1
        /\ streams' = streams
    BY <1>7 DEF CBindFail, CRebindFail, Abandon
  <2>3. Says(p, OfConn("conn_abandoned", conn[p]))
    BY <2>1, <2>2 DEF Says
  <2>. QED
    BY <1>1, <2>1, <2>2, <2>3
<1>8. CASE CReady(p) \/ CRetryRequest(p) \/ CEstablished(p)
  <2>1. AtWork(p)
    BY <1>8 DEF CReady, CRetryRequest, CEstablished, AtWork, Trying
  <2>2. conn[p] < NumConns /\ conn[p] \in Conns
    BY <2>1
  <2>3. PICK t \in {"ready", "retry_request", "conn_established"} :
          /\ Send(p, OfConn(t, conn[p]))
          /\ t = "conn_established" => CEstablished(p)
    BY <1>8 DEF CReady, CRetryRequest, CEstablished
  <2>4. CEstablished(p) => conn'[p] = conn[p] + 1 /\ conn[p] \in streams'[p]
    BY DEF CEstablished
  <2>5. Says(p, OfConn(t, conn[p]))
    <3>1. OfConn(t, conn[p]).type = t
      BY <2>2, <2>3
    <3>. QED
      BY <2>3, <2>4, <3>1 DEF Says
  <2>. QED
    BY <1>1, <2>2, <2>3, <2>5
<1>9. CASE CPunchFail(p) \/ CPunchAlone(p) \/ CRetryRejected(p) \/ CTimeout(p)
  <2>1. AtWork(p) /\ Fail(p) /\ streams' = streams
    BY <1>9 DEF CPunchFail, CPunchAlone, CRetryRejected, CTimeout, AtWork, Trying
  <2>. QED
    BY <1>2, <2>1
<1>10. CASE CRetryGranted(p)
  <2>1. AtWork(p)
    BY <1>10 DEF CRetryGranted, Granted, AtWork, Trying
  <2>2. conn[p] \in Conns /\ newest'[p][conn[p]] = newest[p][conn[p]] + 1
    <3>1. conn[p] \in Conns
      BY <2>1
    <3>2. newest \in [Roles -> [Conns -> Nat]]
      BY DEF TypeOK, ClientTypeOK
    <3>3. newest' = [newest EXCEPT ![p][conn[p]] = newest[p][conn[p]] + 1]
      BY <1>10 DEF CRetryGranted, Rebind
    <3>. QED
      BY ONLY p \in Roles, <3>1, <3>2, <3>3
  <2>. DEFINE port == <<conn[p], newest'[p][conn[p]]>>
  <2>3. port \in Ports
    BY <2>2
  <2>4. Send(p, OfPorts("add_ports", <<port>>))
    BY <1>10 DEF CRetryGranted, Report
  <2>. HIDE DEF port
  <2>5. <<port>> \in Seq(Ports) /\ <<port>> # <<>>
    BY <2>3
  <2>6. OfPorts("add_ports", <<port>>) \in ClientLines(p) /\ Says(p, OfPorts("add_ports", <<port>>))
    BY <2>5 DEF ClientLines, Says
  <2>. QED
    BY <2>4, <2>6
<1>11. CASE \/ CRegisterFail(p) \/ CFirstPeerInfo(p) \/ CFirstFail(p) \/ CFinish(p)
            \/ CStart(p) \/ CPeerInfo(p) \/ CGo(p) \/ CWriteError(p) \/ CAck(p)
            \/ CAckError(p) \/ CNotice(p) \/ CTransportLost(p)
            \/ CFirstTimeout(p) \/ CAckTimeout(p)
  BY <1>11 DEF CRegisterFail, CFirstPeerInfo, CFirstFail, CFinish, CStart, CPeerInfo, CGo,
     CWriteError, CAck, CAckError, CAckTimeout, CAckMissing, CNotice, CTransportLost,
     CFirstTimeout
<1>. QED
  BY <1>3, <1>4, <1>5, <1>6, <1>7, <1>8, <1>9, <1>10, <1>11
     DEF CStep, Client, Punched, ClientLimit

\* What a client does on failing.
LEMMA FailType ==
  ASSUME TypeOK, NEW p \in Roles, conn[p] < NumConns, Fail(p)
  PROVE  /\ fails' \in [Roles -> 0 .. MaxAttempts - 1] /\ conn' \in [Roles -> 0 .. NumConns]
         /\ cPc' \in [Roles -> ClientPcs]
         /\ \/ conn' = conn /\ toServer' = toServer /\ cPc' = [cPc EXCEPT ![p] = "failed"]
            \/ /\ Send(p, OfConn("conn_abandoned", conn[p]))
               /\ conn' = [conn EXCEPT ![p] = @ + 1] /\ cPc' = [cPc EXCEPT ![p] = "head"]
<1>1. /\ fails \in [Roles -> 0 .. MaxAttempts - 1] /\ conn \in [Roles -> 0 .. NumConns]
      /\ cPc \in [Roles -> ClientPcs]
      /\ MaxAttempts \in Nat \ {0} /\ NumConns \in Nat
  BY LinkAssumption DEF TypeOK, ClientTypeOK
<1>2. CASE fails[p] + 1 >= MaxAttempts
  <2>1. /\ Send(p, OfConn("conn_abandoned", conn[p])) /\ cPc' = [cPc EXCEPT ![p] = "head"]
        /\ conn' = [conn EXCEPT ![p] = conn[p] + 1] /\ fails' = [fails EXCEPT ![p] = 0]
    BY <1>2 DEF Fail, Abandon, Goto
  <2>2. conn[p] + 1 \in 0 .. NumConns /\ 0 \in 0 .. MaxAttempts - 1
    BY <1>1
  <2>. QED
    BY <1>1, <2>1, <2>2 DEF ClientPcs
<1>3. CASE ~(fails[p] + 1 >= MaxAttempts)
  <2>1. /\ conn' = conn /\ toServer' = toServer /\ cPc' = [cPc EXCEPT ![p] = "failed"]
        /\ fails' = [fails EXCEPT ![p] = fails[p] + 1]
    BY <1>3 DEF Fail, Goto
  <2>2. fails[p] + 1 \in 0 .. MaxAttempts - 1
    BY <1>1, <1>3
  <2>. QED
    BY <1>1, <2>1, <2>2 DEF ClientPcs
<1>. QED
  BY <1>2, <1>3

\* A new port takes the place of the old one.
LEMMA RebindType ==
  ASSUME TypeOK, NEW p \in Roles, conn[p] < NumConns, conn[p] < Len(sockets[p]), Rebind(p)
  PROVE  /\ newest' \in [Roles -> [Conns -> Nat]] /\ sockets' \in [Roles -> Seq(Nat)]
         /\ \A q \in Roles : Len(sockets'[q]) = Len(sockets[q])
         /\ newest'[p][conn[p]] = newest[p][conn[p]] + 1
<1>. USE LinkAssumption DEF TypeOK, ClientTypeOK, Conns
<1>. DEFINE g == newest[p][conn[p]] + 1
<1>1. conn[p] \in Conns /\ g \in Nat
  OBVIOUS
<1>2. newest' = [newest EXCEPT ![p] = [newest[p] EXCEPT ![conn[p]] = g]]
  BY DEF Rebind
<1>3. sockets' = [sockets EXCEPT ![p] = [sockets[p] EXCEPT ![conn[p] + 1] = g]]
  BY DEF Rebind
<1>4. sockets[p] \in Seq(Nat) /\ conn[p] + 1 \in 1 .. Len(sockets[p])
  BY LenProperties
<1>. HIDE DEF g
<1>5. [newest[p] EXCEPT ![conn[p]] = g] \in [Conns -> Nat]
  BY <1>1
<1>6. /\ [sockets[p] EXCEPT ![conn[p] + 1] = g] \in Seq(Nat)
      /\ Len([sockets[p] EXCEPT ![conn[p] + 1] = g]) = Len(sockets[p])
  BY <1>1, <1>4, ExceptSeq
<1>. QED
  BY <1>1, <1>2, <1>3, <1>5, <1>6 DEF g

\* A client keeps its port for the connection it is at.
LEMMA SlotsKept ==
  ASSUME TypeOK, Slots,
         \A q \in Roles : /\ Len(sockets'[q]) \in Nat
                          /\ Len(sockets[q]) <= Len(sockets'[q]) /\ Len(sockets'[q]) <= NumConns,
         \A q \in Roles : AtWork(q)' =>
              /\ conn'[q] = conn[q]
              /\ AtWork(q) \/ (conn[q] < NumConns /\ conn[q] < Len(sockets[q]))
  PROVE  Slots'
<1>. SUFFICES ASSUME NEW q \in Roles
              PROVE  /\ Len(sockets'[q]) <= NumConns
                     /\ AtWork(q)' => conn'[q] < NumConns /\ conn'[q] < Len(sockets'[q])
  BY DEF Slots
<1>1. conn[q] \in Nat /\ Len(sockets[q]) \in Nat
  BY ConstantFacts, LenProperties DEF TypeOK, ClientTypeOK
<1>2. AtWork(q)' => conn[q] < NumConns /\ conn[q] < Len(sockets[q])
  BY DEF Slots
<1>. QED
  BY <1>1, <1>2

LEMMA SlotsSame ==
  ASSUME TypeOK, Slots, \A q \in Roles : Len(sockets'[q]) = Len(sockets[q]),
         \A q \in Roles : AtWork(q)' => conn'[q] = conn[q] /\ AtWork(q)
  PROVE  Slots'
<1>1. \A q \in Roles : Len(sockets[q]) \in Nat /\ Len(sockets[q]) <= NumConns
  BY LenProperties DEF Slots, TypeOK, ClientTypeOK
<1>2. \A q \in Roles : /\ Len(sockets'[q]) \in Nat
                       /\ Len(sockets[q]) <= Len(sockets'[q]) /\ Len(sockets'[q]) <= NumConns
  BY <1>1
<1>. QED
  BY <1>2, SlotsKept

\* A step of a client that stays at its connection or leaves it, and keeps its ports.
SameSlots(p) ==
  /\ \A q \in Roles : Len(sockets'[q]) = Len(sockets[q])
  /\ \A q \in Roles : AtWork(q)' => conn'[q] = conn[q] /\ AtWork(q)

LEMMA ClientType ==
  ASSUME Shape, NEW p \in Roles, CStep(p)
  PROVE  ClientTypeOK' /\ Slots'
<1>. USE DEF Goto
<1>1. TypeOK /\ ClientTypeOK /\ Slots
  BY DEF Shape, TypeOK
<1>2. \A q \in Roles : /\ sockets[q] \in Seq(Nat)
                       /\ Len(sockets[q]) \in Nat /\ Len(sockets[q]) <= NumConns
  BY <1>1, LenProperties DEF Slots, ClientTypeOK
<1>3. /\ Conns = 0 .. NumConns - 1 /\ Ports = Conns \X Nat
      /\ NumConns \in Nat \ {0} /\ MaxAttempts \in Nat \ {0}
  BY LinkAssumption DEF Conns, Ports
<1>4. /\ cPc \in [Roles -> ClientPcs] /\ after \in [Roles -> {"head", "peerinfo"}]
      /\ conn \in [Roles -> 0 .. NumConns] /\ sockets \in [Roles -> Seq(Nat)]
  BY <1>1 DEF ClientTypeOK
<1>5. ASSUME SameSlots(p) PROVE Slots'
  BY <1>1, <1>5, SlotsSame DEF SameSlots
<1>6. ASSUME AtWork(p)
      PROVE  conn[p] \in Conns /\ conn[p] < NumConns /\ conn[p] < Len(sockets[p])
  BY <1>1, <1>3, <1>4, <1>6 DEF Slots
<1>7. CASE \/ CRegister(p) \/ CRegistered(p) \/ CRegisterFail(p) \/ CFirstFail(p)
           \/ CFirstTimeout(p) \/ CFinish(p)
  <2>1. ClientTypeOK'
    BY <1>1, <1>7 DEF CRegister, CRegistered, CRegisterFail, CFirstFail, CFirstTimeout,
       CFinish, Leave, ClientTypeOK, ClientPcs
  <2>2. SameSlots(p)
    BY <1>4, <1>7 DEF CRegister, CRegistered, CRegisterFail, CFirstFail, CFirstTimeout,
       CFinish, Leave, AtWork, Trying, SameSlots
  <2>. QED
    BY <1>5, <2>1, <2>2
<1>8. CASE CReady(p) \/ CGo(p) \/ CRetryRequest(p) \/ CNotice(p) \/ CTransportLost(p)
  <2>1. ClientTypeOK'
    BY <1>1, <1>8 DEF CReady, CGo, CRetryRequest, CNotice, CTransportLost,
       ClientTypeOK, ClientPcs
  <2>2. SameSlots(p)
    BY <1>4, <1>8 DEF CReady, CGo, CRetryRequest, CNotice, CTransportLost, AtWork, Trying,
       SameSlots
  <2>. QED
    BY <1>5, <2>1, <2>2
<1>9. CASE CFirstPeerInfo(p) \/ CPeerInfo(p)
  <2>1. First(p, "peer_info").port \in Ports
    <3>1. First(p, "peer_info") \in Msg /\ First(p, "peer_info").type = "peer_info"
      BY <1>1, <1>9, ReceivedLine DEF CFirstPeerInfo, CPeerInfo, TypeOK
    <3>. QED
      BY <3>1, MsgFacts
  <2>2. ClientTypeOK'
    BY <1>1, <1>9, <2>1 DEF CFirstPeerInfo, CPeerInfo, ClientTypeOK, ClientPcs
  <2>3. SameSlots(p)
    BY <1>4, <1>9 DEF CFirstPeerInfo, CPeerInfo, AtWork, Trying, SameSlots
  <2>. QED
    BY <1>5, <2>2, <2>3
<1>10. CASE CStart(p)
  <2>1. ClientTypeOK'
    BY <1>1, <1>10 DEF CStart, ClientTypeOK, ClientPcs
  <2>2. sockets' = sockets /\ conn' = conn /\ conn[p] < NumConns /\ conn[p] < Len(sockets[p])
    BY <1>2, <1>4, <1>10 DEF CStart
  <2>3. \A q \in Roles : q # p => (AtWork(q)' => AtWork(q))
    BY <1>4, <1>10 DEF CStart, AtWork
  <2>. QED
    BY <1>1, <1>2, <2>1, <2>2, <2>3, SlotsKept
<1>11. CASE CBind(p) \/ CBindFail(p)
  <2>1. conn[p] < NumConns /\ Len(sockets[p]) < NumConns
    BY <1>2, <1>3, <1>4, <1>11 DEF CBind, CBindFail
  <2>2. /\ Append(sockets[p], 0) \in Seq(Nat)
        /\ Len(Append(sockets[p], 0)) = Len(sockets[p]) + 1
    BY <1>2, AppendProperties
  <2>3. sockets' = sockets \/ sockets' = [sockets EXCEPT ![p] = Append(sockets[p], 0)]
    BY <1>11 DEF CBind, CBindFail
  <2>4. ASSUME NEW q \in Roles
        PROVE  /\ Len(sockets'[q]) \in Nat
               /\ Len(sockets[q]) <= Len(sockets'[q]) /\ Len(sockets'[q]) <= NumConns
    <3>1. Len(sockets'[q]) = Len(sockets[q])
            \/ (q = p /\ Len(sockets'[q]) = Len(sockets[q]) + 1)
      BY <1>4, <2>2, <2>3
    <3>. QED
      BY <1>2, <1>3, <2>1, <3>1
  <2>5. \A q \in Roles : AtWork(q)' => conn'[q] = conn[q] /\ AtWork(q)
    BY <1>4, <1>11 DEF CBind, CBindFail, Abandon, Report, AtWork, Trying
  <2>6. sockets' \in [Roles -> Seq(Nat)]
    BY <1>4, <2>2, <2>3
  <2>7. ClientTypeOK'
    <3>1. CASE CBind(p)
      <4>. DEFINE port == <<Len(sockets[p]), 0>>
      <4>1. port \in Ports
        BY <1>2, <1>3, <2>1
      <4>2. /\ cPc' = [cPc EXCEPT ![p] = "ack"] /\ after' = [after EXCEPT ![p] = "head"]
            /\ reported' = [reported EXCEPT ![p] = <<port>>]
        BY <3>1 DEF CBind, Report
      <4>. HIDE DEF port
      <4>3. <<port>> \in Seq(Ports)
        BY <4>1
      <4>. QED
        BY <1>1, <2>6, <3>1, <4>2, <4>3 DEF CBind, ClientTypeOK, ClientPcs
    <3>2. CASE CBindFail(p)
      <4>1. bindFails' \in Nat
        BY <1>1, <3>2 DEF CBindFail, ClientTypeOK
      <4>2. /\ cPc' = [cPc EXCEPT ![p] = "head"] /\ fails' = [fails EXCEPT ![p] = 0]
            /\ conn' = [conn EXCEPT ![p] = conn[p] + 1]
        BY <3>2 DEF CBindFail, Abandon
      <4>3. conn[p] + 1 \in 0 .. NumConns /\ 0 \in 0 .. MaxAttempts - 1
        BY <1>3, <1>4, <2>1
      <4>. QED
        BY <1>1, <2>6, <3>2, <4>1, <4>2, <4>3 DEF CBindFail, ClientTypeOK, ClientPcs
    <3>. QED
      BY <1>11, <3>1, <3>2
  <2>. QED
    BY <1>1, <2>4, <2>5, <2>7, SlotsKept
<1>12. CASE CExtra(p)
  <2>1. PICK k \in 0 .. NumConns - Len(sockets[p]) :
          /\ bindFails' = IF Len(sockets[p]) + k < NumConns THEN bindFails + 1 ELSE bindFails
          /\ bindFails' <= MaxBindFails
          /\ sockets' = [sockets EXCEPT ![p] = @ \o [i \in 1 .. k |-> 0]]
          /\ IF k = 0 THEN Goto(p, "head") /\ UNCHANGED <<melden, toServer>>
             ELSE Report(p, [i \in 1 .. k |-> <<Len(sockets[p]) + i - 1, 0>>], "head")
    BY <1>12 DEF CExtra
  <2>. DEFINE added == [i \in 1 .. k |-> 0]
              ports == [i \in 1 .. k |-> <<Len(sockets[p]) + i - 1, 0>>]
  <2>2. k \in Nat /\ Len(sockets[p]) + k <= NumConns
    BY <1>2, <1>3
  <2>3. added \in Seq(Nat) /\ Len(added) = k
    BY <2>2
  <2>4. /\ sockets[p] \o added \in Seq(Nat)
        /\ Len(sockets[p] \o added) = Len(sockets[p]) + k
    BY <1>2, <2>3, ConcatProperties
  <2>5. sockets' = [sockets EXCEPT ![p] = sockets[p] \o added]
    BY <2>1
  <2>6. \A i \in 1 .. k : Len(sockets[p]) + i - 1 \in Conns
    BY <1>2, <1>3, <2>2
  <2>7. ports \in [1 .. k -> Ports]
    BY <1>3, <2>6
  <2>8. \/ cPc' = [cPc EXCEPT ![p] = "head"] /\ after' = after /\ reported' = reported
        \/ /\ cPc' = [cPc EXCEPT ![p] = "ack"] /\ after' = [after EXCEPT ![p] = "head"]
           /\ reported' = [reported EXCEPT ![p] = ports]
    BY <2>1 DEF Report
  <2>. HIDE DEF added, ports
  <2>9. ports \in Seq(Ports)
    BY <2>2, <2>7, PortsOfLength
  <2>10. bindFails' \in Nat
    BY <1>1, <2>1 DEF ClientTypeOK
  <2>11. sockets' \in [Roles -> Seq(Nat)]
    BY <1>4, <2>4, <2>5
  <2>12. ASSUME NEW q \in Roles
         PROVE  /\ Len(sockets'[q]) \in Nat
                /\ Len(sockets[q]) <= Len(sockets'[q]) /\ Len(sockets'[q]) <= NumConns
    <3>1. Len(sockets'[q]) = Len(sockets[q])
            \/ (q = p /\ Len(sockets'[q]) = Len(sockets[q]) + k)
      BY <1>4, <2>4, <2>5
    <3>. QED
      BY <1>2, <1>3, <2>2, <3>1
  <2>13. ClientTypeOK'
    <3>1. UNCHANGED <<progress, newest, infoVars, lost, unfilled, punchFails>>
      BY <1>12 DEF CExtra
    <3>2. /\ cPc' \in [Roles -> ClientPcs] /\ after' \in [Roles -> {"head", "peerinfo"}]
      BY <1>4, <2>8 DEF ClientPcs
    <3>3. reported' \in [Roles -> Seq(Ports)]
      <4>1. reported \in [Roles -> Seq(Ports)]
        BY <1>1 DEF ClientTypeOK
      <4>. QED
        BY <2>8, <2>9, <4>1
    <3>. QED
      BY <1>1, <2>10, <2>11, <3>1, <3>2, <3>3 DEF ClientTypeOK
  <2>14. \A q \in Roles : AtWork(q)' => conn'[q] = conn[q] /\ AtWork(q)
    BY <1>4, <1>12, <2>8 DEF CExtra, AtWork, Trying
  <2>. QED
    BY <1>1, <2>12, <2>13, <2>14, SlotsKept
<1>13. CASE CEstablished(p)
  <2>1. conn[p] \in Conns
    BY <1>6, <1>13 DEF CEstablished, AtWork, Trying
  <2>2. conn[p] + 1 \in 0 .. NumConns /\ 0 \in 0 .. MaxAttempts - 1
    BY <1>3, <2>1
  <2>3. ClientTypeOK'
    BY <1>1, <1>13, <2>1, <2>2 DEF CEstablished, ClientTypeOK, ClientPcs
  <2>4. SameSlots(p)
    BY <1>4, <1>13 DEF CEstablished, AtWork, Trying, SameSlots
  <2>. QED
    BY <1>5, <2>3, <2>4
<1>14. CASE CPunchFail(p) \/ CPunchAlone(p) \/ CRetryRejected(p) \/ CTimeout(p)
  <2>1. AtWork(p) /\ Fail(p)
    BY <1>14 DEF CPunchFail, CPunchAlone, CRetryRejected, CTimeout, AtWork, Trying
  <2>2. /\ fails' \in [Roles -> 0 .. MaxAttempts - 1] /\ conn' \in [Roles -> 0 .. NumConns]
        /\ cPc' \in [Roles -> ClientPcs]
        /\ \/ conn' = conn /\ cPc' = [cPc EXCEPT ![p] = "failed"]
           \/ conn' = [conn EXCEPT ![p] = @ + 1] /\ cPc' = [cPc EXCEPT ![p] = "head"]
    BY <1>1, <1>6, <2>1, FailType
  <2>3. /\ UNCHANGED <<melden, streams, portVars, infoVars, lost, unfilled, bindFails>>
        /\ met' \in [Roles -> BOOLEAN] /\ punchFails' \in Nat
    <3>1. met \in [Roles -> BOOLEAN] /\ punchFails \in Nat
      BY <1>1 DEF ClientTypeOK
    <3>2. CASE CPunchFail(p)
      BY <3>1, <3>2 DEF CPunchFail
    <3>3. CASE CPunchAlone(p) \/ CRetryRejected(p) \/ CTimeout(p)
      BY <3>1, <3>3 DEF CPunchAlone, CRetryRejected, CTimeout
    <3>. QED
      BY <1>14, <3>2, <3>3
  <2>4. ClientTypeOK'
    BY <1>1, <2>2, <2>3 DEF ClientTypeOK
  <2>5. SameSlots(p)
    BY <1>4, <2>1, <2>2, <2>3 DEF AtWork, Trying, SameSlots
  <2>. QED
    BY <1>5, <2>4, <2>5
<1>15. CASE CRebindFail(p)
  <2>1. conn[p] \in Conns
    BY <1>6, <1>15 DEF CRebindFail, Granted, AtWork, Trying
  <2>2. conn[p] + 1 \in 0 .. NumConns /\ 0 \in 0 .. MaxAttempts - 1
    BY <1>3, <2>1
  <2>3. ClientTypeOK'
    BY <1>1, <1>15, <2>2 DEF CRebindFail, Abandon, ClientTypeOK, ClientPcs
  <2>4. SameSlots(p)
    BY <1>4, <1>15 DEF CRebindFail, Abandon, AtWork, Trying, SameSlots
  <2>. QED
    BY <1>5, <2>3, <2>4
<1>16. CASE CRetryGranted(p)
  <2>1. AtWork(p) /\ Rebind(p)
    BY <1>16 DEF CRetryGranted, Granted, AtWork, Trying
  <2>2. /\ newest' \in [Roles -> [Conns -> Nat]] /\ sockets' \in [Roles -> Seq(Nat)]
        /\ \A q \in Roles : Len(sockets'[q]) = Len(sockets[q])
    BY <1>1, <1>6, <2>1, RebindType
  <2>. DEFINE port == <<conn[p], newest'[p][conn[p]]>>
  <2>3. port \in Ports
    BY <1>3, <1>6, <2>1, <2>2
  <2>4. /\ cPc' = [cPc EXCEPT ![p] = "ack"] /\ after' = [after EXCEPT ![p] = "peerinfo"]
        /\ reported' = [reported EXCEPT ![p] = <<port>>]
    BY <1>16 DEF CRetryGranted, Report
  <2>. HIDE DEF port
  <2>5. <<port>> \in Seq(Ports)
    BY <2>3
  <2>6. ClientTypeOK'
    BY <1>1, <1>16, <2>2, <2>4, <2>5 DEF CRetryGranted, ClientTypeOK, ClientPcs
  <2>7. SameSlots(p)
    BY <1>4, <1>16, <2>1, <2>2, <2>4 DEF CRetryGranted, AtWork, Trying, SameSlots
  <2>. QED
    BY <1>5, <2>6, <2>7
<1>17. CASE CWriteError(p)
  <2>1. /\ newest' \in [Roles -> [Conns -> Nat]] /\ sockets' \in [Roles -> Seq(Nat)]
        /\ \A q \in Roles : Len(sockets'[q]) = Len(sockets[q])
    <3>1. CASE UNCHANGED portVars
      BY <1>1, <3>1 DEF ClientTypeOK
    <3>2. CASE Granted(p) /\ Rebind(p)
      <4>1. AtWork(p)
        BY <3>2 DEF Granted, AtWork, Trying
      <4>. QED
        BY <1>1, <1>6, <3>2, <4>1, RebindType
    <3>. QED
      BY <1>17, <3>1, <3>2 DEF CWriteError
  <2>2. /\ cPc' = [cPc EXCEPT ![p] = "err"] /\ streams' = [streams EXCEPT ![p] = {}]
        /\ UNCHANGED <<melden, conn, fails, met, infoVars, lost, bounds>>
    BY <1>17 DEF CWriteError, WriteError
  <2>3. ClientTypeOK'
    BY <1>1, <2>1, <2>2 DEF ClientTypeOK, ClientPcs
  <2>4. SameSlots(p)
    BY <1>4, <2>1, <2>2 DEF AtWork, Trying, SameSlots
  <2>. QED
    BY <1>5, <2>3, <2>4
<1>18. CASE CAck(p) \/ CAckError(p) \/ CAckTimeout(p)
  <2>1. /\ cPc' = [cPc EXCEPT ![p] = after[p]] \/ cPc' = [cPc EXCEPT ![p] = "ack"]
        /\ cPc[p] = "ack"
        /\ UNCHANGED <<melden, progress, portVars, infoVars, lost, bounds>>
    BY <1>18 DEF CAck, CAckError, CAckTimeout, CAckMissing
  <2>2. cPc' \in [Roles -> ClientPcs]
    BY <1>4, <2>1 DEF ClientPcs
  <2>3. ClientTypeOK'
    BY <1>1, <2>1, <2>2 DEF ClientTypeOK
  <2>4. SameSlots(p)
    BY <1>4, <2>1 DEF AtWork, Trying, SameSlots
  <2>. QED
    BY <1>5, <2>3, <2>4
<1>. QED
  BY <1>7, <1>8, <1>9, <1>10, <1>11, <1>12, <1>13, <1>14, <1>15, <1>16, <1>17, <1>18
     DEF CStep, Client, Punched, ClientLimit

\* Any step of the relay.
SStep == Server \/ ServerLimit

\* The line a handler takes.
LEMMA ReadLine ==
  ASSUME TypeOK, NEW p \in Roles, NEW t, Reads(p, t)
  PROVE  /\ Head(toServer[p]) \in Msg /\ Head(toServer[p]).type = t
         /\ Head(toServer[p]) \in Lines(toServer[p])
         /\ toServer' \in [Roles -> Seq(Msg)]
         /\ \A q \in Roles : Lines(toServer'[q]) \subseteq Lines(toServer[q])
<1>1. LinkTypeOK
  BY DEF TypeOK
<1>2. toServer[p] # <<>> /\ Head(toServer[p]).type = t /\ TakeLine(p)
  BY DEF Reads, Line
<1>. QED
  BY <1>1, <1>2, TakenLines

LEMMA NoLine == Lines(<<>>) = {} /\ <<>> \in Seq(Msg)
<1>1. DOMAIN <<>> = {}
  OBVIOUS
<1>. QED
  BY <1>1 DEF Lines

\* The relay takes lines from its clients and adds none.
LEMMA ServerTakes ==
  ASSUME TypeOK, SStep
  PROVE  /\ toServer' \in [Roles -> Seq(Msg)]
         /\ \A q \in Roles : Lines(toServer'[q]) \subseteq Lines(toServer[q])
<1>1. toServer \in [Roles -> Seq(Msg)]
  BY DEF TypeOK, LinkTypeOK
<1>2. CASE toServer' = toServer
  BY <1>1, <1>2
<1>3. CASE \E p \in Roles : \E t : Reads(p, t)
  BY <1>3, ReadLine
<1>4. CASE \E p \in Roles : SGone(p)
  <2>1. PICK p \in Roles : toServer' = [toServer EXCEPT ![p] = <<>>]
    BY <1>4 DEF SGone
  <2>. QED
    BY <1>1, <2>1, NoLine
<1>5. CASE \E p \in Roles : SHandler(p)
  <2>1. PICK p \in Roles : SHandler(p)
    BY <1>5
  <2>2. CASE SGone(p)
    BY <1>4, <2>2
  <2>3. CASE ~SGone(p)
    <3>1. \E t : Reads(p, t)
      BY <2>1, <2>3 DEF SHandler, SRegister, SProbesComplete, SReady, SAddPorts,
         SRetryRequest, SConnResult
    <3>. QED
      BY <1>3, <3>1
  <2>. QED
    BY <2>2, <2>3
<1>6. CASE \E k \in Coordinators :
             Coordinator(k) \/ CoReadyTimeout(k) \/ CoResultTimeout(k)
  <2>1. toServer' = toServer
    BY <1>6 DEF Coordinator, CoStart, CoSkip, CoPeerInfo, CoGo, SendGo, CoResult,
       CoSendFail, CoReadyTimeout, CoResultTimeout
  <2>. QED
    BY <1>2, <2>1
<1>7. CASE \E n \in Conns : RetryCoordinator(n) \/ SRetryTimer(n) \/ RetryReadyTimeout(n)
  <2>1. toServer' = toServer
    BY <1>7 DEF RetryCoordinator, RetryStart, RetryGo, SendGo, RetrySendFail, SRetryTimer,
       RetryReadyTimeout
  <2>. QED
    BY <1>2, <2>1
<1>. QED
  BY <1>5, <1>6, <1>7 DEF SStep, Server, ServerLimit

\* A connection some task of the relay is at.
Attended(n) ==
  \/ \E k \in Coordinators : coConn[k] = n
  \/ retryNew[n] > 0 \/ retryWait[n] > 0

\* A line to a client: one it had, or one about a connection that is attended to.
Told(x) == x \in Msg /\ (x.type \in {"peer_info", "go"} => Attended(x.conn))

LEMMA TellLines ==
  ASSUME TypeOK, NEW p \in Roles, NEW m, Told(m), Tell(p, m)
  PROVE  /\ toClient' \in [Roles -> Seq(Msg)]
         /\ \A q \in Roles : \A x \in Lines(toClient'[q]) : x \in Lines(toClient[q]) \/ Told(x)
<1>1. toClient \in [Roles -> Seq(Msg)] /\ m \in Msg /\ toClient' = Written(toClient, p, m)
  BY DEF TypeOK, LinkTypeOK, Told, Tell
<1>2. /\ toClient' \in [Roles -> Seq(Msg)]
      /\ \A q \in Roles : \A x \in Lines(toClient'[q]) :
           x \in Lines(toClient[q]) \/ (q = p /\ x = m)
  BY <1>1, WrittenLines
<1>3. ASSUME NEW q \in Roles, NEW x \in Lines(toClient'[q])
      PROVE  x \in Lines(toClient[q]) \/ Told(x)
  <2>1. x \in Lines(toClient[q]) \/ x = m
    BY <1>2
  <2>. QED
    BY <2>1
<1>. QED
  BY <1>2, <1>3

LEMMA TellBothLines ==
  ASSUME TypeOK, NEW m, \A q \in Roles : Told(m[q]), TellBoth(m)
  PROVE  /\ toClient' \in [Roles -> Seq(Msg)]
         /\ \A q \in Roles : \A x \in Lines(toClient'[q]) : x \in Lines(toClient[q]) \/ Told(x)
<1>1. LinkTypeOK /\ \A q \in Roles : m[q] \in Msg
  BY DEF TypeOK, Told
<1>. QED
  BY <1>1, BothLines

LEMMA SendFailsLines ==
  ASSUME TypeOK, NEW m, Told(m), SendFails(m)
  PROVE  /\ toClient' \in [Roles -> Seq(Msg)]
         /\ \A q \in Roles : \A x \in Lines(toClient'[q]) : x \in Lines(toClient[q]) \/ Told(x)
<1>1. CASE Tell("sender", m)
  BY <1>1, TellLines DEF Roles
<1>2. CASE toClient' = toClient
  BY <1>2 DEF TypeOK, LinkTypeOK
<1>. QED
  BY <1>1, <1>2 DEF SendFails

LEMMA PortForType ==
  ASSUME TypeOK, NEW p \in Roles, NEW n \in Conns
  PROVE  PortFor(p, n) \in Ports
<1>1. bound[p] \in Seq(Ports)
  BY DEF TypeOK, ServerTypeOK
<1>2. n \in Nat /\ <<0, 0>> \in Ports
  BY ConstantFacts
<1>3. CASE n < Len(bound[p])
  <2>1. n + 1 \in 1 .. Len(bound[p])
    BY <1>1, <1>2, <1>3, LenProperties
  <2>2. bound[p][n + 1] \in Ports
    BY <1>1, <2>1, ElementOfSeq
  <2>. QED
    BY <1>3, <2>2 DEF PortFor
<1>. QED
  BY <1>2, <1>3 DEF PortFor

\* What peer_info and GO for an attended connection are.
LEMMA TaskLines ==
  ASSUME TypeOK, NEW n \in Conns, Attended(n)
  PROVE  /\ \A p \in Roles : Told(PeerInfo(n, PortFor(p, n)))
         /\ Told(OfConn("go", n))
<1>1. \A p \in Roles : PortFor(p, n) \in Ports
  BY PortForType
<1>2. \A p \in Roles : /\ PeerInfo(n, PortFor(p, n)) \in Msg
                       /\ PeerInfo(n, PortFor(p, n)).conn = n
  BY <1>1, MsgFacts
<1>3. OfConn("go", n) \in Msg /\ OfConn("go", n).conn = n
  BY MsgFacts
<1>. QED
  BY <1>2, <1>3 DEF Told

LEMMA TellPeerInfoLines ==
  ASSUME TypeOK, NEW n \in Conns, Attended(n), TellPeerInfo(n)
  PROVE  /\ toClient' \in [Roles -> Seq(Msg)]
         /\ \A q \in Roles : \A x \in Lines(toClient'[q]) : x \in Lines(toClient[q]) \/ Told(x)
<1>. DEFINE m == [p \in Roles |-> PeerInfo(n, PortFor(Other(p), n))]
<1>1. \A q \in Roles : Told(m[q])
  BY TaskLines, ConstantFacts
<1>2. TellBoth(m)
  BY DEF TellPeerInfo
<1>. HIDE DEF m
<1>. QED
  BY <1>1, <1>2, TellBothLines

LEMMA SendGoLines ==
  ASSUME TypeOK, NEW n \in Conns, Attended(n), SendGo(n)
  PROVE  /\ toClient' \in [Roles -> Seq(Msg)]
         /\ \A q \in Roles : \A x \in Lines(toClient'[q]) : x \in Lines(toClient[q]) \/ Told(x)
<1>. DEFINE m == [p \in Roles |-> OfConn("go", n)]
<1>1. \A q \in Roles : Told(m[q])
  BY TaskLines
<1>2. TellBoth(m)
  BY DEF SendGo
<1>. HIDE DEF m
<1>. QED
  BY <1>1, <1>2, TellBothLines

\* What the relay says to its clients.
LEMMA ServerTells ==
  ASSUME Shape, SStep
  PROVE  /\ toClient' \in [Roles -> Seq(Msg)]
         /\ \A q \in Roles : \A x \in Lines(toClient'[q]) : x \in Lines(toClient[q]) \/ Told(x)
<1>1. TypeOK /\ ServerTypeOK /\ toClient \in [Roles -> Seq(Msg)]
  BY DEF Shape, TypeOK, LinkTypeOK
<1>2. CASE toClient' = toClient
  BY <1>1, <1>2
<1>3. ASSUME NEW p \in Roles, NEW m, Tell(p, m), m \in Msg, m.type \notin {"peer_info", "go"}
      PROVE  /\ toClient' \in [Roles -> Seq(Msg)]
             /\ \A q \in Roles : \A x \in Lines(toClient'[q]) :
                  x \in Lines(toClient[q]) \/ Told(x)
  <2>1. Told(m)
    BY <1>3 DEF Told
  <2>. QED
    BY <1>1, <1>3, <2>1, TellLines
<1>4. ASSUME NEW p \in Roles, SHandler(p)
      PROVE  /\ toClient' \in [Roles -> Seq(Msg)]
             /\ \A q \in Roles : \A x \in Lines(toClient'[q]) :
                  x \in Lines(toClient[q]) \/ Told(x)
  <2>1. CASE SRegister(p)
    <3>1. Tell(p, Bare("registered"))
      BY <2>1 DEF SRegister
    <3>2. Bare("registered") \in Msg /\ Bare("registered").type = "registered"
      BY MsgFacts
    <3>. QED
      BY <1>3, <3>1, <3>2
  <2>2. CASE SAddPorts(p)
    <3>. DEFINE m == OfPorts("ports_added_ack", Head(toServer[p]).ports)
    <3>1. Tell(p, m)
      BY <2>2 DEF SAddPorts
    <3>2. Head(toServer[p]) \in Msg /\ Head(toServer[p]).type = "add_ports"
      BY <1>1, <2>2, ReadLine DEF SAddPorts
    <3>3. Head(toServer[p]).ports \in Seq(Ports)
      BY <3>2, MsgFacts
    <3>4. m \in Msg /\ m.type = "ports_added_ack"
      BY <3>3, MsgFacts
    <3>. HIDE DEF m
    <3>. QED
      BY <1>3, <3>1, <3>4
  <2>3. CASE SRetryRequest(p)
    <3>1. Head(toServer[p]) \in Msg /\ Head(toServer[p]).type = "retry_request"
      BY <1>1, <2>3, ReadLine DEF SRetryRequest
    <3>. DEFINE n == Head(toServer[p]).conn
                m == [q \in Roles |-> OfConn("retry_granted", n)]
    <3>2. n \in Conns
      BY <3>1, MsgFacts
    <3>3. toClient' = toClient \/ TellBoth(m)
      BY <2>3 DEF SRetryRequest
    <3>. HIDE DEF n
    <3>4. OfConn("retry_granted", n) \in Msg /\ OfConn("retry_granted", n).type = "retry_granted"
      BY <3>2, MsgFacts
    <3>5. \A q \in Roles : Told(m[q])
      BY <3>4 DEF Told
    <3>. HIDE DEF m
    <3>. QED
      BY <1>1, <1>2, <3>3, <3>5, TellBothLines
  <2>4. CASE \/ SProbesComplete(p) \/ SReady(p) \/ SConnResult(p, "established")
             \/ SConnResult(p, "abandoned") \/ SGone(p)
    <3>1. toClient' = toClient
      BY <2>4 DEF SProbesComplete, SReady, SConnResult, SGone
    <3>. QED
      BY <1>2, <3>1
  <2>. QED
    BY <1>4, <2>1, <2>2, <2>3, <2>4 DEF SHandler
<1>5. ASSUME NEW k \in Coordinators, Coordinator(k) \/ CoReadyTimeout(k) \/ CoResultTimeout(k)
      PROVE  /\ toClient' \in [Roles -> Seq(Msg)]
             /\ \A q \in Roles : \A x \in Lines(toClient'[q]) :
                  x \in Lines(toClient[q]) \/ Told(x)
  <2>1. coConn[k] \in Conns /\ Attended(coConn[k])
    BY <1>1 DEF ServerTypeOK, Attended
  <2>2. CASE CoPeerInfo(k)
    <3>1. TellPeerInfo(coConn[k])
      BY <2>2 DEF CoPeerInfo
    <3>. QED
      BY <1>1, <2>1, <3>1, TellPeerInfoLines
  <2>3. CASE CoGo(k)
    <3>1. SendGo(coConn[k])
      BY <2>3 DEF CoGo
    <3>. QED
      BY <1>1, <2>1, <3>1, SendGoLines
  <2>4. CASE CoSendFail(k)
    <3>1. \/ SendFails(PeerInfo(coConn[k], PortFor("receiver", coConn[k])))
          \/ SendFails(OfConn("go", coConn[k]))
      BY <2>4 DEF CoSendFail
    <3>2. /\ Told(PeerInfo(coConn[k], PortFor("receiver", coConn[k])))
          /\ Told(OfConn("go", coConn[k]))
      BY <1>1, <2>1, TaskLines DEF Roles
    <3>. QED
      BY <1>1, <3>1, <3>2, SendFailsLines
  <2>5. CASE CoStart(k) \/ CoSkip(k) \/ CoResult(k) \/ CoReadyTimeout(k) \/ CoResultTimeout(k)
    <3>1. toClient' = toClient
      BY <2>5 DEF CoStart, CoSkip, CoResult, CoReadyTimeout, CoResultTimeout
    <3>. QED
      BY <1>2, <3>1
  <2>. QED
    BY <1>5, <2>2, <2>3, <2>4, <2>5 DEF Coordinator
<1>6. ASSUME NEW n \in Conns, RetryCoordinator(n) \/ SRetryTimer(n) \/ RetryReadyTimeout(n)
      PROVE  /\ toClient' \in [Roles -> Seq(Msg)]
             /\ \A q \in Roles : \A x \in Lines(toClient'[q]) :
                  x \in Lines(toClient[q]) \/ Told(x)
  <2>1. CASE SRetryTimer(n)
    <3>1. PICK p \in Roles : Tell(p, OfConn("retry_rejected", n))
      BY <2>1 DEF SRetryTimer
    <3>2. OfConn("retry_rejected", n) \in Msg /\ OfConn("retry_rejected", n).type = "retry_rejected"
      BY MsgFacts
    <3>. QED
      BY <1>3, <3>1, <3>2
  <2>2. CASE RetryStart(n)
    <3>1. Attended(n)
      BY <2>2 DEF RetryStart, Attended
    <3>2. toClient' = toClient \/ TellPeerInfo(n)
      BY <2>2 DEF RetryStart
    <3>. QED
      BY <1>1, <1>2, <3>1, <3>2, TellPeerInfoLines
  <2>3. CASE RetryGo(n)
    <3>1. Attended(n) /\ SendGo(n)
      BY <2>3 DEF RetryGo, Attended
    <3>. QED
      BY <1>1, <3>1, SendGoLines
  <2>4. CASE RetrySendFail(n)
    <3>1. Attended(n)
      BY <2>4 DEF RetrySendFail, Attended
    <3>2. \/ SendFails(PeerInfo(n, PortFor("receiver", n)))
          \/ SendFails(OfConn("go", n))
      BY <2>4 DEF RetrySendFail
    <3>3. Told(PeerInfo(n, PortFor("receiver", n))) /\ Told(OfConn("go", n))
      BY <1>1, <3>1, TaskLines DEF Roles
    <3>. QED
      BY <1>1, <3>2, <3>3, SendFailsLines
  <2>5. CASE RetryReadyTimeout(n)
    BY <1>2, <2>5 DEF RetryReadyTimeout
  <2>. QED
    BY <1>6, <2>1, <2>2, <2>3, <2>4, <2>5 DEF RetryCoordinator
<1>. QED
  BY <1>4, <1>5, <1>6 DEF SStep, Server, ServerLimit

\* The relay's own state, handler by handler.
LEMMA HandlerType ==
  ASSUME Shape, NEW p \in Roles, SHandler(p)
  PROVE  ServerTypeOK' /\ cut' \subseteq Roles
<1>1. TypeOK /\ ServerTypeOK /\ cut \subseteq Roles
  BY DEF Shape, TypeOK, LinkTypeOK
<1>2. \A m \in Msg :
        /\ m.type \in {"ready", "retry_request", "conn_established", "conn_abandoned"} =>
             m.conn \in Conns
        /\ m.type \in {"register", "add_ports"} => m.ports \in Seq(Ports)
  BY MsgFacts
<1>3. Other(p) \in Roles
  BY ConstantFacts
<1>4. CASE SRegister(p)
  <2>1. Head(toServer[p]).ports \in Seq(Ports)
    BY <1>1, <1>2, <1>4, ReadLine DEF SRegister
  <2>2. /\ member' = member \cup {p} /\ bound' = [bound EXCEPT ![p] = Head(toServer[p]).ports]
        /\ probed' \in {probed, probed \cup {p}}
        /\ UNCHANGED <<serving, probing, ready, result, asked, retries, tasks, cut>>
    BY <1>4 DEF SRegister
  <2>. QED
    BY <1>1, <2>1, <2>2 DEF ServerTypeOK
<1>5. CASE SProbesComplete(p)
  <2>1. /\ probed' = probed \cup {p}
        /\ UNCHANGED <<serving, member, probing, bound, ready, result, asked, retries,
                       coConn, retryTasks, cut>>
    BY <1>5 DEF SProbesComplete, Reads, TakeLine
  <2>2. \/ UNCHANGED <<coPc, held>>
        \/ \E k \in Coordinators : coPc' = [coPc EXCEPT ![k] = "start"] /\ held' = k
    BY <1>5 DEF SProbesComplete
  <2>3. coPc' \in [Coordinators -> CoStates] /\ held' \in Coordinators \cup {NoTask}
    BY <1>1, <2>2 DEF ServerTypeOK, CoStates
  <2>. QED
    BY <1>1, <2>1, <2>3 DEF ServerTypeOK
<1>6. CASE SReady(p)
  <2>1. Head(toServer[p]).conn \in Conns
    BY <1>1, <1>2, <1>6, ReadLine DEF SReady
  <2>2. /\ ready' = [ready EXCEPT ![p] = @ \cup {Head(toServer[p]).conn}]
        /\ UNCHANGED <<serving, member, probing, probed, bound, result, asked, retries,
                       tasks, cut>>
    BY <1>6 DEF SReady
  <2>. QED
    BY <1>1, <2>1, <2>2 DEF ServerTypeOK
<1>7. CASE SAddPorts(p)
  <2>1. /\ Head(toServer[p]).ports \in Seq(Ports) /\ Head(toServer[p]).ports # <<>>
    <3>1. Reads(p, "add_ports")
      BY <1>7 DEF SAddPorts
    <3>2. /\ Head(toServer[p]) \in Msg /\ Head(toServer[p]).type = "add_ports"
          /\ Head(toServer[p]) \in Lines(toServer[p])
      BY <1>1, <3>1, ReadLine
    <3>3. Head(toServer[p]).ports # <<>>
      BY <3>2 DEF Shape, PortsGiven
    <3>. QED
      BY <1>2, <3>2, <3>3
  <2>. DEFINE ports == Head(toServer[p]).ports
              port == Head(ports)
  <2>2. port \in Ports
    BY <2>1, HeadTailProperties
  <2>3. bound \in [Roles -> Seq(Ports)] /\ bound[p] \in Seq(Ports)
    BY <1>1 DEF ServerTypeOK
  <2>4. /\ bound[p] \o ports \in Seq(Ports) /\ Append(bound[p], port) \in Seq(Ports)
    BY <2>1, <2>2, <2>3, ConcatProperties, AppendProperties
  <2>5. \A n \in Conns : n < Len(bound[p]) =>
          [bound[p] EXCEPT ![n + 1] = port] \in Seq(Ports)
    <3>1. SUFFICES ASSUME NEW n \in Conns, n < Len(bound[p])
                   PROVE  [bound[p] EXCEPT ![n + 1] = port] \in Seq(Ports)
      OBVIOUS
    <3>2. n \in Nat
      BY ConstantFacts
    <3>3. n + 1 \in 1 .. Len(bound[p])
      BY <2>3, <3>1, <3>2, LenProperties
    <3>. HIDE DEF port
    <3>. QED
      BY <2>2, <2>3, <3>3, ExceptSeq
  <2>6. UNCHANGED <<serving, member, probing, probed, ready, result, asked, timer,
                    coPc, coConn, held, retryWait, cut>>
    BY <1>7 DEF SAddPorts
  <2>7. /\ granted \subseteq Conns /\ mapped \in [Conns -> SUBSET Roles]
        /\ retryNew \in [Conns -> Nat]
    BY <1>1 DEF ServerTypeOK
  <2>8. CASE SNewPorts(p)
    <3>1. /\ bound' = [bound EXCEPT ![p] = bound[p] \o ports]
          /\ UNCHANGED <<granted, mapped, retryNew>>
      BY <2>8 DEF SNewPorts
    <3>. HIDE DEF ports
    <3>2. bound' \in [Roles -> Seq(Ports)]
      BY <2>3, <2>4, <3>1
    <3>. QED
      BY <1>1, <2>6, <3>1, <3>2 DEF ServerTypeOK
  <2>9. ASSUME NEW n \in Conns, SRetryPort(p, n)
        PROVE  ServerTypeOK'
    <3>1. bound' = [bound EXCEPT ![p] = IF n < Len(bound[p])
                                        THEN [bound[p] EXCEPT ![n + 1] = port]
                                        ELSE Append(bound[p], port)]
      BY <2>9 DEF SRetryPort
    <3>2. \/ /\ granted' = granted \ {n} /\ mapped' = [mapped EXCEPT ![n] = {}]
             /\ retryNew' = [retryNew EXCEPT ![n] = @ + 1]
          \/ /\ granted' = granted /\ mapped' = [mapped EXCEPT ![n] = @ \cup {p}]
             /\ retryNew' = retryNew
      BY <2>9 DEF SRetryPort
    <3>. HIDE DEF port
    <3>3. bound' \in [Roles -> Seq(Ports)]
      BY <2>3, <2>4, <2>5, <3>1
    <3>4. granted' \subseteq Conns /\ mapped' \in [Conns -> SUBSET Roles]
      BY <2>7, <3>2
    <3>5. retryNew' \in [Conns -> Nat]
      BY <2>7, <3>2
    <3>. QED
      BY <1>1, <2>6, <3>3, <3>4, <3>5 DEF ServerTypeOK
  <2>. QED
    BY <1>1, <1>7, <2>6, <2>8, <2>9 DEF SAddPorts
<1>8. CASE SRetryRequest(p)
  <2>. DEFINE n == Head(toServer[p]).conn
  <2>1. n \in Conns
    BY <1>1, <1>2, <1>8, ReadLine DEF SRetryRequest
  <2>2. UNCHANGED <<serving, member, probing, probed, bound, result, tasks, cut>>
    BY <1>8 DEF SRetryRequest
  <2>3. \/ asked' = [asked EXCEPT ![p] = @ \cup {n}] /\ UNCHANGED <<ready, retries>>
        \/ /\ asked' = [q \in Roles |-> asked[q] \ {n}]
           /\ ready' = [q \in Roles |-> ready[q] \ {n}]
           /\ granted' = granted \cup {n} /\ mapped' = [mapped EXCEPT ![n] = {}]
           /\ timer' = timer \ {n}
        \/ /\ asked' = [asked EXCEPT ![p] = @ \cup {n}] /\ timer' = timer \cup {n}
           /\ UNCHANGED <<ready, granted, mapped>>
    BY <1>8 DEF SRetryRequest
  <2>. HIDE DEF n
  <2>4. /\ asked \in [Roles -> SUBSET Conns] /\ ready \in [Roles -> SUBSET Conns]
        /\ granted \subseteq Conns /\ mapped \in [Conns -> SUBSET Roles] /\ timer \subseteq Conns
    BY <1>1 DEF ServerTypeOK
  <2>5. asked' \in [Roles -> SUBSET Conns] /\ ready' \in [Roles -> SUBSET Conns]
    BY <2>1, <2>3, <2>4
  <2>6. granted' \subseteq Conns /\ mapped' \in [Conns -> SUBSET Roles] /\ timer' \subseteq Conns
    BY <2>1, <2>3, <2>4
  <2>. QED
    BY <1>1, <2>2, <2>5, <2>6 DEF ServerTypeOK
<1>9. ASSUME NEW status \in {"established", "abandoned"}, SConnResult(p, status)
      PROVE  ServerTypeOK' /\ cut' \subseteq Roles
  <2>. DEFINE n == Head(toServer[p]).conn
  <2>1. n \in Conns
    <3>1. Head(toServer[p]) \in Msg /\ Head(toServer[p]).type = ResultLine(status)
      BY <1>1, <1>9, ReadLine DEF SConnResult
    <3>. QED
      BY <1>2, <3>1 DEF ResultLine
  <2>2. /\ result' = [result EXCEPT ![p] = [result[p] EXCEPT ![n] = status]]
        /\ UNCHANGED <<serving, member, probing, probed, bound, ready, asked, retries,
                       tasks, cut>>
    BY <1>9 DEF SConnResult
  <2>. HIDE DEF n
  <2>3. result \in [Roles -> [Conns -> Outcomes]]
    BY <1>1 DEF ServerTypeOK
  <2>4. [result[p] EXCEPT ![n] = status] \in [Conns -> Outcomes]
    BY <2>3, <2>1 DEF Outcomes
  <2>5. result' \in [Roles -> [Conns -> Outcomes]]
    BY <2>2, <2>3, <2>4
  <2>. QED
    BY <1>1, <2>2, <2>5 DEF ServerTypeOK
<1>10. CASE SGone(p)
  <2>1. /\ serving' = serving \ {p} /\ UNCHANGED <<probing, peers, coPc, coConn, retryTasks>>
    BY <1>10 DEF SGone
  <2>2. \/ UNCHANGED <<cut, member, retries, held>>
        \/ /\ cut' = cut \cup member /\ member' = {} /\ granted' = {} /\ timer' = {}
           /\ mapped' = [n \in Conns |-> {}] /\ held' = NoTask
    BY <1>10 DEF SGone
  <2>3. CASE UNCHANGED <<cut, member, retries, held>>
    BY <1>1, <2>1, <2>3 DEF ServerTypeOK
  <2>4. CASE /\ cut' = cut \cup member /\ member' = {} /\ granted' = {} /\ timer' = {}
             /\ mapped' = [n \in Conns |-> {}] /\ held' = NoTask
    BY <1>1, <2>1, <2>4 DEF ServerTypeOK
  <2>. QED
    BY <2>2, <2>3, <2>4
<1>. QED
  BY <1>4, <1>5, <1>6, <1>7, <1>8, <1>9, <1>10 DEF SHandler

\* A task that moves on.
LEMMA MoveType ==
  ASSUME ServerTypeOK, NEW k \in Coordinators, NEW pc \in CoStates, Move(k, pc)
  PROVE  coPc' \in [Coordinators -> CoStates]
BY DEF ServerTypeOK, Move

LEMMA CoNextType ==
  ASSUME ServerTypeOK, NEW k \in Coordinators, CoNext(k)
  PROVE  /\ coPc' \in [Coordinators -> CoStates] /\ coConn' \in [Coordinators -> Conns]
         /\ \/ coConn' = coConn
            \/ coConn' = [coConn EXCEPT ![k] = coConn[k] + 1]
<1>1. coPc \in [Coordinators -> CoStates] /\ coConn \in [Coordinators -> Conns]
  BY DEF ServerTypeOK
<1>2. NumConns \in Nat \ {0} /\ Conns = 0 .. NumConns - 1
  BY ConstantFacts
<1>3. coConn[k] \in Conns
  BY <1>1
<1>4. CASE coConn[k] = NumConns - 1
  <2>1. coPc' = [coPc EXCEPT ![k] = "end"] /\ coConn' = coConn
    BY <1>4 DEF CoNext, Move
  <2>. QED
    BY <1>1, <2>1 DEF CoStates
<1>5. CASE coConn[k] # NumConns - 1
  <2>1. coPc' = [coPc EXCEPT ![k] = "port"] /\ coConn' = [coConn EXCEPT ![k] = coConn[k] + 1]
    BY <1>5 DEF CoNext, Move
  <2>2. coConn[k] + 1 \in Conns
    BY <1>2, <1>3, <1>5
  <2>3. coPc' \in [Coordinators -> CoStates]
    BY <1>1, <2>1 DEF CoStates
  <2>4. coConn' \in [Coordinators -> Conns]
    BY <1>1, <2>1, <2>2
  <2>. QED
    BY <2>1, <2>3, <2>4
<1>. QED
  BY <1>4, <1>5

LEMMA SendGoType ==
  ASSUME ServerTypeOK, NEW n \in Conns, SendGo(n)
  PROVE  /\ ready' \in [Roles -> SUBSET Conns]
         /\ UNCHANGED <<serving, member, probing, probed, bound, result, asked, retries, cut>>
<1>1. ready' = [p \in Roles |-> ready[p] \ {n}]
  BY DEF SendGo
<1>2. ready \in [Roles -> SUBSET Conns]
  BY DEF ServerTypeOK
<1>. QED
  BY <1>1, <1>2 DEF SendGo

LEMMA CoordinatorType ==
  ASSUME Shape, NEW k \in Coordinators, Coordinator(k) \/ CoReadyTimeout(k) \/ CoResultTimeout(k)
  PROVE  ServerTypeOK' /\ cut' \subseteq Roles
<1>1. TypeOK /\ ServerTypeOK /\ cut \subseteq Roles
  BY DEF Shape, TypeOK, LinkTypeOK
<1>2. {"port", "ready", "result", "end", "gaveup"} \subseteq CoStates
  BY DEF CoStates
<1>3. coConn[k] \in Conns /\ result \in [Roles -> [Conns -> Outcomes]]
  BY <1>1 DEF ServerTypeOK
<1>4. CASE \/ CoStart(k) \/ CoReadyTimeout(k) \/ CoResultTimeout(k)
           \/ CoResult(k) /\ member = {}
  <2>1. /\ UNCHANGED <<serving, member, probing, peers, retries, coConn, held, retryTasks,
                       link>>
        /\ \E pc \in {"port", "end", "gaveup"} : Move(k, pc)
    BY <1>4 DEF CoStart, CoReadyTimeout, CoResultTimeout, CoResult
  <2>2. coPc' \in [Coordinators -> CoStates]
    BY <1>1, <1>2, <2>1, MoveType
  <2>. QED
    BY <1>1, <2>1, <2>2 DEF ServerTypeOK
<1>5. CASE CoSkip(k) \/ (CoResult(k) /\ member # {})
  <2>1. /\ UNCHANGED <<serving, member, probing, peers, retries, held, retryTasks, link>>
        /\ CoNext(k)
    BY <1>5 DEF CoSkip, CoResult
  <2>2. coPc' \in [Coordinators -> CoStates] /\ coConn' \in [Coordinators -> Conns]
    BY <1>1, <2>1, CoNextType
  <2>. QED
    BY <1>1, <2>1, <2>2 DEF ServerTypeOK
<1>6. ASSUME result' = [p \in Roles |-> [result[p] EXCEPT ![coConn[k]] = "none"]]
      PROVE  result' \in [Roles -> [Conns -> Outcomes]]
  <2>1. \A p \in Roles : [result[p] EXCEPT ![coConn[k]] = "none"] \in [Conns -> Outcomes]
    BY <1>3 DEF Outcomes
  <2>. QED
    BY <1>6, <2>1
<1>7. CASE CoPeerInfo(k)
  <2>1. /\ result' = [p \in Roles |-> [result[p] EXCEPT ![coConn[k]] = "none"]]
        /\ Move(k, "ready")
        /\ UNCHANGED <<serving, member, probing, probed, bound, ready, asked, retries,
                       coConn, held, retryTasks, toServer, cut>>
    BY <1>7 DEF CoPeerInfo
  <2>2. coPc' \in [Coordinators -> CoStates]
    BY <1>1, <1>2, <2>1, MoveType
  <2>3. result' \in [Roles -> [Conns -> Outcomes]]
    BY <1>6, <2>1
  <2>. QED
    BY <1>1, <2>1, <2>2, <2>3 DEF ServerTypeOK
<1>8. CASE CoGo(k)
  <2>1. SendGo(coConn[k]) /\ Move(k, "result") /\ UNCHANGED <<coConn, held, retryTasks>>
    BY <1>8 DEF CoGo
  <2>2. coPc' \in [Coordinators -> CoStates]
    BY <1>1, <1>2, <2>1, MoveType
  <2>3. /\ ready' \in [Roles -> SUBSET Conns]
        /\ UNCHANGED <<serving, member, probing, probed, bound, result, asked, retries, cut>>
    BY <1>1, <1>3, <2>1, SendGoType
  <2>. QED
    BY <1>1, <2>1, <2>2, <2>3 DEF ServerTypeOK
<1>9. CASE CoSendFail(k)
  <2>1. /\ \/ result' = result
           \/ result' = [p \in Roles |-> [result[p] EXCEPT ![coConn[k]] = "none"]]
        /\ Move(k, "end")
        /\ UNCHANGED <<serving, member, probing, probed, bound, ready, asked, retries, coConn,
                       held, retryTasks, toServer, cut>>
    BY <1>9 DEF CoSendFail
  <2>2. coPc' \in [Coordinators -> CoStates]
    BY <1>1, <1>2, <2>1, MoveType
  <2>3. result' \in [Roles -> [Conns -> Outcomes]]
    BY <1>3, <1>6, <2>1
  <2>. QED
    BY <1>1, <2>1, <2>2, <2>3 DEF ServerTypeOK
<1>. QED
  BY <1>4, <1>5, <1>7, <1>8, <1>9 DEF Coordinator, CoResult

LEMMA RetryType ==
  ASSUME Shape, NEW n \in Conns, RetryCoordinator(n) \/ SRetryTimer(n) \/ RetryReadyTimeout(n)
  PROVE  ServerTypeOK' /\ cut' \subseteq Roles
<1>1. TypeOK /\ ServerTypeOK /\ cut \subseteq Roles
  BY DEF Shape, TypeOK, LinkTypeOK
<1>2. retryNew \in [Conns -> Nat] /\ retryWait \in [Conns -> Nat]
  BY <1>1 DEF ServerTypeOK
<1>3. CASE RetryStart(n) \/ RetrySendFail(n) \/ RetryReadyTimeout(n)
  <2>1. UNCHANGED <<serving, member, probing, peers, retries, coPc, coConn, held, cut>>
    BY <1>3 DEF RetryStart, RetrySendFail, RetryReadyTimeout
  <2>2. /\ \/ retryNew' = retryNew
           \/ retryNew[n] > 0 /\ retryNew' = [retryNew EXCEPT ![n] = @ - 1]
        /\ \/ retryWait' = retryWait \/ retryWait' = [retryWait EXCEPT ![n] = @ + 1]
           \/ retryWait[n] > 0 /\ retryWait' = [retryWait EXCEPT ![n] = @ - 1]
    BY <1>3 DEF RetryStart, RetrySendFail, RetryReadyTimeout
  <2>3. retryNew' \in [Conns -> Nat]
    BY <1>2, <2>2
  <2>4. retryWait' \in [Conns -> Nat]
    BY <1>2, <2>2
  <2>. QED
    BY <1>1, <2>1, <2>3, <2>4 DEF ServerTypeOK
<1>4. CASE RetryGo(n)
  <2>1. /\ SendGo(n) /\ retryWait[n] > 0 /\ retryWait' = [retryWait EXCEPT ![n] = @ - 1]
        /\ UNCHANGED <<coPc, coConn, held, retryNew>>
    BY <1>4 DEF RetryGo
  <2>2. /\ ready' \in [Roles -> SUBSET Conns]
        /\ UNCHANGED <<serving, member, probing, probed, bound, result, asked, retries, cut>>
    BY <1>1, <2>1, SendGoType
  <2>3. retryWait' \in [Conns -> Nat]
    BY <1>2, <2>1
  <2>. QED
    BY <1>1, <2>1, <2>2, <2>3 DEF ServerTypeOK
<1>5. CASE SRetryTimer(n)
  <2>1. PICK p \in Roles : asked' = [asked EXCEPT ![p] = @ \ {n}]
    BY <1>5 DEF SRetryTimer
  <2>2. /\ timer' = timer \ {n}
        /\ UNCHANGED <<serving, member, probing, probed, bound, ready, result, granted,
                       mapped, tasks, toServer, cut>>
    BY <1>5 DEF SRetryTimer
  <2>. QED
    BY <1>1, <2>1, <2>2 DEF ServerTypeOK
<1>. QED
  BY <1>3, <1>4, <1>5 DEF RetryCoordinator

\* A step of the relay leaves the types and the ports given.
LEMMA ServerShape ==
  ASSUME Shape, SStep
  PROVE  LinkTypeOK' /\ ServerTypeOK' /\ PortsGiven'
<1>1. ServerTypeOK' /\ cut' \subseteq Roles
  BY HandlerType, CoordinatorType, RetryType DEF SStep, Server, ServerLimit
<1>2. /\ toServer' \in [Roles -> Seq(Msg)]
      /\ \A q \in Roles : Lines(toServer'[q]) \subseteq Lines(toServer[q])
  BY ServerTakes DEF Shape
<1>3. toClient' \in [Roles -> Seq(Msg)]
  BY ServerTells
<1>4. PortsGiven'
  BY <1>2 DEF Shape, PortsGiven
<1>. QED
  BY <1>1, <1>2, <1>3, <1>4 DEF LinkTypeOK

\* A step of a client does.
LEMMA ClientShape ==
  ASSUME Shape, NEW p \in Roles, CStep(p)
  PROVE  LinkTypeOK' /\ ClientTypeOK' /\ Slots' /\ PortsGiven'
<1>1. TypeOK /\ toServer \in [Roles -> Seq(Msg)] /\ cut \subseteq Roles
  BY DEF Shape, TypeOK, LinkTypeOK
<1>2. /\ toServer' \in [Roles -> Seq(Msg)]
      /\ \A q \in Roles : \A x \in Lines(toServer'[q]) :
           x \in Lines(toServer[q]) \/ x \in ClientLines(p)
  <2>1. CASE toServer' = toServer
    BY <1>1, <2>1
  <2>2. CASE \E m \in ClientLines(p) : Send(p, m)
    BY <1>1, <2>2, SentLine
  <2>. QED
    BY <2>1, <2>2, ClientSays
<1>3. PortsGiven'
  BY <1>2 DEF Shape, PortsGiven, ClientLines
<1>4. toClient' \in [Roles -> Seq(Msg)]
  BY <1>1, ClientTakes
<1>5. cut' = cut \/ cut' = cut \cup {p}
  BY DEF CStep, Client, Punched, ClientLimit,
     CRegister, CRegisterFail, CFirstFail, CExtra, CFinish, CBind, CBindFail,
     CStart, CReady, CRetryRequest, CAckError, CAckMissing, CNotice, CTransportLost,
     CEstablished, CPunchFail, CFirstTimeout, CTimeout, CAckTimeout, CPunchAlone,
     CRegistered, CFirstPeerInfo, CPeerInfo, CGo, CRetryRejected, CRetryGranted, CRebindFail,
     CWriteError, CAck, Leave
<1>6. cut' \subseteq Roles
  BY <1>1, <1>5
<1>. QED
  BY <1>2, <1>3, <1>4, <1>6, ClientType DEF LinkTypeOK

\* Who takes a step of the whole.
LEMMA WholeStep ==
  ASSUME [Next]_vars
  PROVE  \/ \E p \in Roles : CStep(p) /\ UNCHANGED server
         \/ SStep /\ UNCHANGED client
         \/ \E p \in Roles : cut' = cut \cup {p}
              /\ UNCHANGED <<server, client, toServer, toClient>>
         \/ UNCHANGED <<server, client, link>>
<1>1. CASE Over \/ UNCHANGED vars
  BY <1>1 DEF Over, vars
<1>2. CASE \E p \in Roles : ClientStep(p)
  BY <1>2 DEF ClientStep, CStep
<1>3. CASE \E p \in Roles : Drop(p)
  BY <1>3 DEF Drop
<1>4. CASE ServerStep
  BY <1>4 DEF ServerStep, SStep
<1>5. CASE LimitPasses
  BY <1>5 DEF LimitPasses, SStep, CStep
<1>. QED
  BY <1>1, <1>2, <1>3, <1>4, <1>5 DEF Next

LEMMA CountsType ==
  ASSUME TypeOK, [Next]_vars
  PROVE  drops' \in Nat /\ early' \in Nat
<1>1. drops \in Nat /\ early \in Nat
  BY DEF TypeOK
<1>2. /\ drops' = drops \/ drops' = drops + 1
      /\ early' = early \/ early' = early + 1
  BY DEF Next, ClientStep, Drop, ServerStep, LimitPasses, Over, vars
<1>. QED
  BY <1>1, <1>2

LEMMA ShapeInit == Init => Shape
<1>. SUFFICES ASSUME Init PROVE Shape
  OBVIOUS
<1>1. 0 \in Conns /\ NumConns \in Nat \ {0} /\ MaxAttempts \in Nat \ {0}
  BY ConstantFacts
<1>2. \A q \in Roles : toServer[q] = <<>> /\ toClient[q] = <<>>
  BY DEF Init, LinkInit
<1>3. LinkTypeOK
  BY NoLine DEF Init, LinkInit, LinkTypeOK
<1>4. PortsGiven
  BY <1>2, NoLine DEF PortsGiven
<1>5. ServerTypeOK
  <2>1. <<>> \in Seq(Ports)
    OBVIOUS
  <2>. QED
    BY <1>1, <2>1 DEF Init, ServerInit, ServerTypeOK, CoStates, Outcomes, NoTask
<1>6. PICK bind \in [Roles -> 1 .. NumConns] :
        sockets = [p \in Roles |-> [i \in 1 .. bind[p] |-> 0]]
  BY DEF Init, ClientInit
<1>7. \A p \in Roles : sockets[p] \in Seq(Nat) /\ Len(sockets[p]) <= NumConns
  <2>1. SUFFICES ASSUME NEW p \in Roles
                 PROVE  sockets[p] \in Seq(Nat) /\ Len(sockets[p]) <= NumConns
    OBVIOUS
  <2>2. PICK b \in 1 .. NumConns : sockets[p] = [i \in 1 .. b |-> 0]
    BY <1>6
  <2>. QED
    BY <1>1, <2>2
<1>8. ClientTypeOK
  <2>1. sockets \in [Roles -> Seq(Nat)]
    BY <1>6, <1>7
  <2>2. <<>> \in Seq(Ports)
    OBVIOUS
  <2>. QED
    BY <1>1, <2>1, <2>2 DEF Init, ClientInit, ClientTypeOK, ClientPcs
<1>9. Slots
  BY <1>7 DEF Init, ClientInit, Slots, AtWork, Trying
<1>. QED
  BY <1>3, <1>4, <1>5, <1>8, <1>9 DEF Shape, TypeOK, Init

LEMMA ShapeStep == Shape /\ [Next]_vars => Shape'
<1>. SUFFICES ASSUME Shape, [Next]_vars PROVE Shape'
  OBVIOUS
<1>1. TypeOK /\ LinkTypeOK /\ ServerTypeOK /\ ClientTypeOK /\ Slots /\ PortsGiven
  BY DEF Shape, TypeOK
<1>2. drops' \in Nat /\ early' \in Nat
  BY <1>1, CountsType
<1>3. ASSUME UNCHANGED server PROVE ServerTypeOK'
  BY <1>1, <1>3 DEF ServerTypeOK
<1>4. ASSUME UNCHANGED client PROVE ClientTypeOK' /\ Slots'
  BY <1>1, <1>4 DEF ClientTypeOK, Slots, AtWork
<1>5. CASE \E p \in Roles : CStep(p) /\ UNCHANGED server
  <2>1. LinkTypeOK' /\ ClientTypeOK' /\ Slots' /\ PortsGiven'
    BY <1>5, ClientShape
  <2>2. ServerTypeOK'
    BY <1>3, <1>5
  <2>. QED
    BY <1>2, <2>1, <2>2 DEF Shape, TypeOK
<1>6. CASE SStep /\ UNCHANGED client
  <2>1. LinkTypeOK' /\ ServerTypeOK' /\ PortsGiven'
    BY <1>6, ServerShape
  <2>2. ClientTypeOK' /\ Slots'
    BY <1>4, <1>6
  <2>. QED
    BY <1>2, <2>1, <2>2 DEF Shape, TypeOK
<1>7. CASE /\ (\E p \in Roles : cut' = cut \cup {p}) \/ cut' = cut
           /\ UNCHANGED <<server, client, toServer, toClient>>
  <2>1. ServerTypeOK' /\ ClientTypeOK' /\ Slots'
    BY <1>3, <1>4, <1>7
  <2>2. LinkTypeOK'
    BY <1>1, <1>7 DEF LinkTypeOK
  <2>3. PortsGiven'
    BY <1>1, <1>7 DEF PortsGiven
  <2>. QED
    BY <1>2, <2>1, <2>2, <2>3 DEF Shape, TypeOK
<1>. QED
  BY <1>5, <1>6, <1>7, WholeStep

(***************************************************************************)
(* What the relay has on record is true.                                   *)
(***************************************************************************)

\* A client holds streams for connections it has left only, and a report on its way to
\* the relay says how the connection ended.
Held == \A p \in Roles : \A n \in streams[p] : n < conn[p]

TrueReport(p, m) ==
  /\ m.type \in {"conn_established", "conn_abandoned"} => m.conn < conn[p]
  /\ m.type = "conn_established" /\ ~Ended(p) => m.conn \in streams[p]
  /\ m.type = "conn_abandoned" /\ ~Ended(p) => m.conn \notin streams[p]

TrueReports == \A p \in Roles : \A m \in Lines(toServer[p]) : TrueReport(p, m)

Honest == Shape /\ Held /\ TrueReports /\ ResultsTrue

\* How a step of a client moves it.
LEMMA ClientMoves ==
  ASSUME Shape, NEW p \in Roles, CStep(p)
  PROVE  /\ \A q \in Roles : Ended(q) => Ended(q)'
         /\ \A q \in Roles \ {p} : conn'[q] = conn[q] /\ streams'[q] = streams[q]
         /\ \/ conn'[p] = conn[p] /\ streams'[p] = streams[p]
            \/ conn'[p] = conn[p] /\ streams'[p] = {} /\ Ended(p)'
            \/ conn'[p] = conn[p] + 1 /\ streams'[p] = streams[p]
            \/ conn'[p] = conn[p] + 1 /\ streams'[p] = streams[p] \cup {conn[p]}
<1>1. /\ cPc \in [Roles -> ClientPcs] /\ conn \in [Roles -> 0 .. NumConns]
      /\ streams \in [Roles -> SUBSET Conns] /\ after \in [Roles -> {"head", "peerinfo"}]
  BY DEF Shape, TypeOK, ClientTypeOK
<1>2. ~Ended(p) /\ \A q \in Roles \ {p} : cPc'[q] = cPc[q]
  <2>1. CASE Fail(p) /\ (CPunchFail(p) \/ CPunchAlone(p) \/ CRetryRejected(p) \/ CTimeout(p))
    BY <1>1, <2>1 DEF CPunchFail, CPunchAlone, CRetryRejected, CTimeout, Fail, Abandon,
       Goto, Ended
  <2>2. CASE CPunchFail(p) \/ CPunchAlone(p) \/ CRetryRejected(p) \/ CTimeout(p)
    BY <2>1, <2>2 DEF CPunchFail, CPunchAlone, CRetryRejected, CTimeout
  <2>3. CASE CExtra(p) \/ CBind(p) \/ CRetryGranted(p)
    BY <1>1, <2>3 DEF CExtra, CBind, CRetryGranted, Granted, Report, Goto, Ended
  <2>4. CASE CBindFail(p) \/ CRebindFail(p) \/ CEstablished(p) \/ CWriteError(p)
    BY <1>1, <2>4 DEF CBindFail, CRebindFail, CEstablished, CWriteError, WriteError, Granted,
       Abandon, Goto, Ended
  <2>5. CASE \/ CRegister(p) \/ CRegistered(p) \/ CRegisterFail(p) \/ CFirstPeerInfo(p)
             \/ CFirstFail(p) \/ CFirstTimeout(p) \/ CFinish(p) \/ CStart(p) \/ CPeerInfo(p)
             \/ CReady(p) \/ CGo(p) \/ CRetryRequest(p)
    BY <1>1, <2>5 DEF CRegister, CRegistered, CRegisterFail, CFirstPeerInfo, CFirstFail,
       CFirstTimeout, CFinish, CStart, CPeerInfo, CReady, CGo, CRetryRequest, Leave, Goto,
       Ended
  <2>6. CASE CAck(p) \/ CAckError(p) \/ CAckTimeout(p) \/ CNotice(p) \/ CTransportLost(p)
    BY <1>1, <2>6 DEF CAck, CAckError, CAckTimeout, CAckMissing, CNotice, CTransportLost,
       Goto, Ended
  <2>. QED
    BY <2>2, <2>3, <2>4, <2>5, <2>6 DEF CStep, Client, Punched, ClientLimit
<1>3. \/ conn' = conn /\ streams' = streams
      \/ conn' = conn /\ streams' = [streams EXCEPT ![p] = {}] /\ cPc' = [cPc EXCEPT ![p] = "err"]
      \/ conn' = [conn EXCEPT ![p] = conn[p] + 1] /\ streams' = streams
      \/ /\ conn' = [conn EXCEPT ![p] = conn[p] + 1]
         /\ streams' = [streams EXCEPT ![p] = streams[p] \cup {conn[p]}]
  <2>1. CASE CPunchFail(p) \/ CPunchAlone(p) \/ CRetryRejected(p) \/ CTimeout(p)
    BY <2>1 DEF CPunchFail, CPunchAlone, CRetryRejected, CTimeout, Fail, Abandon
  <2>2. CASE CBindFail(p) \/ CRebindFail(p) \/ CEstablished(p) \/ CWriteError(p)
    BY <2>2 DEF CBindFail, CRebindFail, CEstablished, CWriteError, WriteError, Abandon, Goto
  <2>3. CASE CExtra(p) \/ CBind(p) \/ CRetryGranted(p)
    BY <2>3 DEF CExtra, CBind, CRetryGranted
  <2>4. CASE \/ CRegister(p) \/ CRegistered(p) \/ CRegisterFail(p) \/ CFirstPeerInfo(p)
             \/ CFirstFail(p) \/ CFirstTimeout(p) \/ CFinish(p) \/ CStart(p) \/ CPeerInfo(p)
             \/ CReady(p) \/ CGo(p) \/ CRetryRequest(p)
    BY <2>4 DEF CRegister, CRegistered, CRegisterFail, CFirstPeerInfo, CFirstFail,
       CFirstTimeout, CFinish, CStart, CPeerInfo, CReady, CGo, CRetryRequest
  <2>5. CASE CAck(p) \/ CAckError(p) \/ CAckTimeout(p) \/ CNotice(p) \/ CTransportLost(p)
    BY <2>5 DEF CAck, CAckError, CAckTimeout, CAckMissing, CNotice, CTransportLost
  <2>. QED
    BY <2>1, <2>2, <2>3, <2>4, <2>5 DEF CStep, Client, Punched, ClientLimit
<1>4. \A q \in Roles : Ended(q) => Ended(q)'
  BY <1>2 DEF Ended
<1>5. \A q \in Roles \ {p} : conn'[q] = conn[q] /\ streams'[q] = streams[q]
  BY <1>1, <1>3
<1>6. CASE conn' = conn /\ streams' = [streams EXCEPT ![p] = {}] /\ cPc' = [cPc EXCEPT ![p] = "err"]
  BY <1>1, <1>4, <1>5, <1>6 DEF Ended
<1>. QED
  BY <1>1, <1>3, <1>4, <1>5, <1>6

\* A client's line to the relay is one it had written before or one it says now.
LEMMA ClientAdds ==
  ASSUME Shape, NEW p \in Roles, CStep(p)
  PROVE  \A q \in Roles : \A x \in Lines(toServer'[q]) :
           x \in Lines(toServer[q]) \/ (q = p /\ x \in ClientLines(p) /\ Says(p, x))
<1>1. TypeOK
  BY DEF Shape
<1>2. CASE toServer' = toServer
  BY <1>2
<1>3. ASSUME NEW m \in ClientLines(p), Send(p, m), Says(p, m)
      PROVE  \A q \in Roles : \A x \in Lines(toServer'[q]) :
               x \in Lines(toServer[q]) \/ (q = p /\ x \in ClientLines(p) /\ Says(p, x))
  <2>1. SUFFICES ASSUME NEW q \in Roles, NEW x \in Lines(toServer'[q])
                 PROVE  x \in Lines(toServer[q]) \/ (q = p /\ x \in ClientLines(p) /\ Says(p, x))
    OBVIOUS
  <2>2. x \in Lines(toServer[q]) \/ (q = p /\ x = m)
    BY <1>1, <1>3, SentLine
  <2>. QED
    BY <1>3, <2>2
<1>. QED
  BY <1>2, <1>3, ClientSays

LEMMA ClientHonest ==
  ASSUME Honest, NEW p \in Roles, CStep(p), result' = result
  PROVE  Held' /\ TrueReports' /\ ResultsTrue'
<1>1. Shape /\ Held /\ TrueReports /\ ResultsTrue
  BY DEF Honest
<1>2. /\ \A q \in Roles : conn[q] \in 0 .. NumConns
      /\ Conns = 0 .. NumConns - 1 /\ NumConns \in Nat
      /\ result \in [Roles -> [Conns -> Outcomes]]
      /\ \A q \in Roles : streams[q] \subseteq Conns
  BY <1>1, ConstantFacts DEF Shape, TypeOK, ClientTypeOK, ServerTypeOK
<1>3. \A q \in Roles : Ended(q) => Ended(q)'
  BY <1>1, ClientMoves
<1>4. \A q \in Roles : conn'[q] \in Int /\ conn[q] <= conn'[q]
  BY <1>1, <1>2, ClientMoves
\* Of a connection a client has left, its streams say the same as before.
<1>5. \A q \in Roles, n \in Conns :
        n < conn[q] /\ ~Ended(q)' => (n \in streams'[q] <=> n \in streams[q])
  <2>1. SUFFICES ASSUME NEW q \in Roles, NEW n \in Conns, n < conn[q], ~Ended(q)'
                 PROVE  n \in streams'[q] <=> n \in streams[q]
    OBVIOUS
  <2>2. n # conn[q]
    BY <1>2, <2>1
  <2>3. streams'[q] \in {streams[q], streams[q] \cup {conn[q]}}
    BY <1>1, <2>1, ClientMoves
  <2>. QED
    BY <2>2, <2>3
<1>6. Held'
  <2>1. SUFFICES ASSUME NEW q \in Roles, NEW n \in streams'[q] PROVE n < conn'[q]
    BY DEF Held
  <2>2. CASE n \in streams[q]
    BY <1>1, <1>2, <1>4, <2>2 DEF Held
  <2>3. CASE n \notin streams[q]
    <3>1. conn'[q] = conn[q] + 1 /\ n = conn[q]
      BY <1>1, <2>1, <2>3, ClientMoves
    <3>. QED
      BY <1>2, <3>1
  <2>. QED
    BY <2>2, <2>3
<1>7. TrueReports'
  <2>1. SUFFICES ASSUME NEW q \in Roles, NEW x \in Lines(toServer'[q])
                 PROVE  TrueReport(q, x)'
    BY DEF TrueReports
  <2>2. CASE x \in Lines(toServer[q])
    <3>1. TrueReport(q, x)
      BY <1>1, <2>2 DEF TrueReports
    <3>2. x.type \in {"conn_established", "conn_abandoned"} => x.conn \in Conns
      <4>1. toServer[q] \in Seq(Msg)
        BY <1>1 DEF Shape, TypeOK, LinkTypeOK
      <4>2. x \in Msg
        BY <2>2, <4>1, ElementOfSeq, LenProperties DEF Lines
      <4>. QED
        BY <4>2, MsgFacts
    <3>3. x.type \in {"conn_established", "conn_abandoned"} =>
            x.conn < conn[q] /\ x.conn < conn'[q]
      BY <1>2, <1>4, <3>1, <3>2 DEF TrueReport
    <3>4. x.type = "conn_established" /\ ~Ended(q)' => x.conn \in streams'[q]
      BY <1>3, <1>5, <3>1, <3>2, <3>3 DEF TrueReport
    <3>5. x.type = "conn_abandoned" /\ ~Ended(q)' => x.conn \notin streams'[q]
      BY <1>3, <1>5, <3>1, <3>2, <3>3 DEF TrueReport
    <3>. QED
      BY <3>3, <3>4, <3>5 DEF TrueReport
  <2>3. CASE x \notin Lines(toServer[q])
    <3>1. q = p /\ x \in ClientLines(p) /\ Says(p, x)
      BY <1>1, <2>1, <2>3, ClientAdds
    <3>2. x.type \in {"conn_established", "conn_abandoned"} =>
            x.conn = conn[p] /\ conn'[p] = conn[p] + 1
      BY <3>1 DEF ClientLines, Says
    <3>3. x.type = "conn_established" => x.conn \in streams'[p]
      BY <3>1, <3>2 DEF Says
    <3>4. x.type = "conn_abandoned" => x.conn \notin streams'[p]
      <4>1. conn[p] \notin streams[p]
        BY <1>1, <1>2 DEF Held
      <4>. QED
        BY <3>1, <3>2, <4>1 DEF Says
    <3>5. x.type \in {"conn_established", "conn_abandoned"} => x.conn < conn'[p]
      BY <1>2, <3>2
    <3>. QED
      BY <3>1, <3>3, <3>4, <3>5 DEF TrueReport
  <2>. QED
    BY <2>2, <2>3
<1>8. ResultsTrue'
  <2>1. SUFFICES ASSUME NEW q \in Roles, NEW n \in Conns, result'[q][n] # "none"
                 PROVE  /\ Moved(q, n)'
                        /\ ~Ended(q)' => (result'[q][n] = "established" <=> n \in streams'[q])
    BY DEF ResultsTrue
  <2>2. /\ n < conn[q]
        /\ ~Ended(q) => (result[q][n] = "established" <=> n \in streams[q])
    BY <1>1, <1>2, <2>1 DEF ResultsTrue, Moved
  <2>3. n < conn'[q]
    BY <1>2, <1>4, <2>2
  <2>. QED
    BY <1>3, <1>5, <2>2, <2>3, <1>2 DEF Moved
<1>. QED
  BY <1>6, <1>7, <1>8

\* A result on record was there before, or is what the client's line said.
LEMMA ServerResults ==
  ASSUME Shape, SStep
  PROVE  \A q \in Roles, n \in Conns :
           \/ result'[q][n] = result[q][n] \/ result'[q][n] = "none"
           \/ \E m \in Lines(toServer[q]) :
                /\ m.conn = n /\ result'[q][n] \in {"established", "abandoned"}
                /\ m.type = ResultLine(result'[q][n])
<1>1. TypeOK /\ result \in [Roles -> [Conns -> Outcomes]] /\ coConn \in [Coordinators -> Conns]
  BY DEF Shape, TypeOK, ServerTypeOK
<1>2. CASE result' = result
  BY <1>2
<1>3. ASSUME NEW p \in Roles, NEW status \in {"established", "abandoned"},
             SConnResult(p, status)
      PROVE  \A q \in Roles, n \in Conns :
               \/ result'[q][n] = result[q][n]
               \/ \E m \in Lines(toServer[q]) :
                    /\ m.conn = n /\ result'[q][n] \in {"established", "abandoned"}
                    /\ m.type = ResultLine(result'[q][n])
  <2>. DEFINE m == Head(toServer[p])
  <2>1. m \in Lines(toServer[p]) /\ m.type = ResultLine(status)
    BY <1>1, <1>3, ReadLine DEF SConnResult
  <2>2. result' = [result EXCEPT ![p] = [result[p] EXCEPT ![m.conn] = status]]
    BY <1>3 DEF SConnResult
  <2>. HIDE DEF m
  <2>3. SUFFICES ASSUME NEW q \in Roles, NEW n \in Conns
                 PROVE  \/ result'[q][n] = result[q][n]
                        \/ \E x \in Lines(toServer[q]) :
                             /\ x.conn = n /\ result'[q][n] \in {"established", "abandoned"}
                             /\ x.type = ResultLine(result'[q][n])
    OBVIOUS
  <2>4. CASE q = p /\ n = m.conn
    <3>1. result'[q][n] = status
      BY <1>1, <2>2, <2>4
    <3>. QED
      BY <2>1, <2>4, <3>1
  <2>5. CASE ~(q = p /\ n = m.conn)
    BY <1>1, <2>2, <2>5
  <2>. QED
    BY <2>4, <2>5
<1>4. ASSUME NEW k \in Coordinators,
             result' = [p \in Roles |-> [result[p] EXCEPT ![coConn[k]] = "none"]]
      PROVE  \A q \in Roles, n \in Conns :
               result'[q][n] = result[q][n] \/ result'[q][n] = "none"
  BY <1>1, <1>4
<1>5. CASE \E p \in Roles : SHandler(p)
  <2>1. PICK p \in Roles : SHandler(p)
    BY <1>5
  <2>2. CASE SConnResult(p, "established") \/ SConnResult(p, "abandoned")
    BY <1>3, <2>2
  <2>3. CASE \/ SRegister(p) \/ SProbesComplete(p) \/ SReady(p) \/ SAddPorts(p)
             \/ SRetryRequest(p) \/ SGone(p)
    <3>1. result' = result
      BY <2>3 DEF SRegister, SProbesComplete, SReady, SAddPorts, SRetryRequest, SGone
    <3>. QED
      BY <1>2, <3>1
  <2>. QED
    BY <2>1, <2>2, <2>3 DEF SHandler
<1>6. CASE \E k \in Coordinators : Coordinator(k) \/ CoReadyTimeout(k) \/ CoResultTimeout(k)
  <2>1. PICK k \in Coordinators : Coordinator(k) \/ CoReadyTimeout(k) \/ CoResultTimeout(k)
    BY <1>6
  <2>2. \/ result' = result
        \/ result' = [p \in Roles |-> [result[p] EXCEPT ![coConn[k]] = "none"]]
    BY <2>1 DEF Coordinator, CoStart, CoSkip, CoPeerInfo, CoGo, SendGo, CoResult, CoSendFail,
       CoReadyTimeout, CoResultTimeout
  <2>. QED
    BY <1>2, <1>4, <2>2
<1>7. CASE \E n \in Conns : RetryCoordinator(n) \/ SRetryTimer(n) \/ RetryReadyTimeout(n)
  <2>1. result' = result
    BY <1>7 DEF RetryCoordinator, RetryStart, RetryGo, SendGo, RetrySendFail, SRetryTimer,
       RetryReadyTimeout
  <2>. QED
    BY <1>2, <2>1
<1>. QED
  BY <1>5, <1>6, <1>7 DEF SStep, Server, ServerLimit

LEMMA ServerHonest ==
  ASSUME Honest, SStep, UNCHANGED client
  PROVE  Held' /\ TrueReports' /\ ResultsTrue'
<1>1. Shape /\ TypeOK /\ Held /\ TrueReports /\ ResultsTrue
  BY DEF Honest, Shape
<1>2. conn' = conn /\ streams' = streams /\ cPc' = cPc
  OBVIOUS
<1>3. Held'
  BY <1>1, <1>2 DEF Held
<1>4. \A q \in Roles : Lines(toServer'[q]) \subseteq Lines(toServer[q])
  BY <1>1, ServerTakes
<1>5. TrueReports'
  BY <1>1, <1>2, <1>4 DEF TrueReports, TrueReport, Ended
<1>6. ResultsTrue'
  <2>1. SUFFICES ASSUME NEW q \in Roles, NEW n \in Conns, result'[q][n] # "none"
                 PROVE  /\ n < conn[q]
                        /\ ~Ended(q) => (result'[q][n] = "established" <=> n \in streams[q])
    BY <1>2 DEF ResultsTrue, Moved, Ended
  <2>2. CASE result'[q][n] = result[q][n]
    <3>1. conn[q] > n => n < conn[q]
      BY <1>1, ConstantFacts DEF TypeOK, ClientTypeOK
    <3>. QED
      BY <1>1, <2>1, <2>2, <3>1 DEF ResultsTrue, Moved
  <2>3. CASE \E m \in Lines(toServer[q]) :
               /\ m.conn = n /\ result'[q][n] \in {"established", "abandoned"}
               /\ m.type = ResultLine(result'[q][n])
    BY <1>1, <2>3 DEF TrueReports, TrueReport, ResultLine
  <2>. QED
    BY <1>1, <2>1, <2>2, <2>3, ServerResults
<1>. QED
  BY <1>3, <1>5, <1>6

LEMMA HonestInit == Init => Honest
<1>. SUFFICES ASSUME Init PROVE Honest
  OBVIOUS
<1>1. Held
  BY DEF Init, ClientInit, Held
<1>2. TrueReports
  BY NoLine DEF Init, LinkInit, TrueReports
<1>3. ResultsTrue
  BY DEF Init, ServerInit, ResultsTrue
<1>. QED
  BY <1>1, <1>2, <1>3, ShapeInit DEF Honest

LEMMA HonestStep == Honest /\ [Next]_vars => Honest'
<1>. SUFFICES ASSUME Honest, [Next]_vars PROVE Honest'
  OBVIOUS
<1>1. Shape'
  BY ShapeStep DEF Honest
<1>2. CASE \E p \in Roles : CStep(p) /\ UNCHANGED server
  <2>1. Held' /\ TrueReports' /\ ResultsTrue'
    BY <1>2, ClientHonest
  <2>. QED
    BY <1>1, <2>1 DEF Honest
<1>3. CASE SStep /\ UNCHANGED client
  BY <1>1, <1>3, ServerHonest DEF Honest
<1>4. CASE UNCHANGED <<server, client, toServer, toClient>>
  <2>1. Held /\ TrueReports /\ ResultsTrue
    BY DEF Honest
  <2>2. /\ conn' = conn /\ streams' = streams /\ cPc' = cPc /\ toServer' = toServer
        /\ result' = result
    BY <1>4
  <2>3. Held'
    BY <2>1, <2>2 DEF Held
  <2>4. TrueReports'
    BY <2>1, <2>2 DEF TrueReports, TrueReport, Ended
  <2>5. ResultsTrue'
    BY <2>1, <2>2 DEF ResultsTrue, Moved, Ended
  <2>. QED
    BY <1>1, <2>3, <2>4, <2>5 DEF Honest
<1>. QED
  BY <1>2, <1>3, <1>4, WholeStep

(***************************************************************************)
(* One connection is arranged after the other.                             *)
(***************************************************************************)

\* Both clients have come as far as connection n.
Reached(n) == \A q \in Roles : n <= conn[q]

\* A retry is asked for by a client that is at the connection or has been; whatever the
\* relay attends to, has granted or has told of, both have reached.
AskedInTurn ==
  /\ \A p \in Roles : \A m \in Lines(toServer[p]) :
       m.type = "retry_request" => m.conn <= conn[p]
  /\ \A p \in Roles : \A n \in asked[p] : n <= conn[p]

ServedInTurn ==
  /\ \A n \in granted : Reached(n)
  /\ \A n \in Conns : Attended(n) => Reached(n)
  /\ \A p \in Roles : \A m \in Lines(toClient[p]) :
       m.type \in {"peer_info", "go"} => Reached(m.conn)

Inv == Honest /\ AskedInTurn /\ ServedInTurn

LEMMA ConnLines ==
  ASSUME TypeOK, NEW q \in Roles
  PROVE  /\ \A m \in Lines(toServer[q]) : m \in Msg
         /\ \A m \in Lines(toClient[q]) : m \in Msg
         /\ conn[q] \in Int
<1>1. /\ toServer[q] \in Seq(Msg) /\ toClient[q] \in Seq(Msg) /\ conn[q] \in 0 .. NumConns
      /\ NumConns \in Nat
  BY ConstantFacts DEF TypeOK, LinkTypeOK, ClientTypeOK
<1>. QED
  BY <1>1, ElementOfSeq, LenProperties DEF Lines

\* Connections only ever go on, so what has been reached stays so.
LEMMA ClientInTurn ==
  ASSUME Inv, NEW p \in Roles, CStep(p), UNCHANGED server
  PROVE  AskedInTurn' /\ ServedInTurn'
<1>1. Shape /\ TypeOK /\ AskedInTurn /\ ServedInTurn
  BY DEF Inv, Honest, Shape
<1>2. /\ asked \in [Roles -> SUBSET Conns] /\ granted \subseteq Conns /\ Conns \subseteq Int
      /\ asked' = asked /\ granted' = granted
  BY <1>1, ConstantFacts DEF TypeOK, ServerTypeOK
<1>3. \A q \in Roles : conn[q] \in Int /\ conn'[q] \in Int /\ conn[q] <= conn'[q]
  BY <1>1, ConnLines, ClientMoves
<1>4. \A n \in Int : Reached(n) => Reached(n)'
  <2>1. SUFFICES ASSUME NEW n \in Int, Reached(n), NEW q \in Roles PROVE n <= conn'[q]
    BY DEF Reached
  <2>2. n <= conn[q]
    BY <2>1 DEF Reached
  <2>. QED
    BY <1>3, <2>2
<1>5. AskedInTurn'
  <2>1. ASSUME NEW q \in Roles, NEW x \in Lines(toServer'[q]), x.type = "retry_request"
        PROVE  x.conn <= conn'[q]
    <3>1. CASE x \in Lines(toServer[q])
      <4>1. x.conn \in Int
        BY <1>1, <1>2, <2>1, <3>1, ConnLines, MsgFacts
      <4>2. x.conn <= conn[q]
        BY <1>1, <2>1, <3>1 DEF AskedInTurn
      <4>. QED
        BY <1>3, <4>1, <4>2
    <3>2. CASE x \notin Lines(toServer[q])
      <4>1. q = p /\ x.conn = conn[p]
        BY <1>1, <2>1, <3>2, ClientAdds DEF ClientLines
      <4>. QED
        BY <1>3, <4>1
    <3>. QED
      BY <3>1, <3>2
  <2>2. ASSUME NEW q \in Roles, NEW n \in asked[q] PROVE n <= conn'[q]
    <3>1. n \in Int
      BY <1>2, <2>2
    <3>2. n <= conn[q]
      BY <1>1, <2>2 DEF AskedInTurn
    <3>. QED
      BY <1>3, <3>1, <3>2
  <2>. QED
    BY <1>2, <2>1, <2>2 DEF AskedInTurn
<1>6. \A n \in granted' : Reached(n)'
  BY <1>1, <1>2, <1>4 DEF ServedInTurn
<1>7. \A n \in Conns : Attended(n)' => Reached(n)'
  <2>1. \A n \in Conns : Attended(n)' => Attended(n)
    BY DEF Attended
  <2>. QED
    BY <1>1, <1>2, <1>4, <2>1 DEF ServedInTurn
<1>8. ASSUME NEW q \in Roles, NEW x \in Lines(toClient'[q]), x.type \in {"peer_info", "go"}
      PROVE  Reached(x.conn)'
  <2>1. x \in Lines(toClient[q])
    BY <1>1, <1>8, ClientTakes
  <2>2. x.conn \in Int
    BY <1>1, <1>2, <1>8, <2>1, ConnLines, MsgFacts
  <2>3. Reached(x.conn)
    BY <1>1, <1>8, <2>1 DEF ServedInTurn
  <2>. QED
    BY <1>4, <2>2, <2>3
<1>. QED
  BY <1>5, <1>6, <1>7, <1>8 DEF ServedInTurn

\* What a client asks for is on record as asked, and is granted once both have asked.
LEMMA ServerAsked ==
  ASSUME Inv, SStep
  PROVE  /\ \A q \in Roles : \A n \in asked'[q] : n <= conn[q]
         /\ \A n \in granted' : Reached(n)
<1>1. Shape /\ TypeOK /\ AskedInTurn /\ ServedInTurn
  BY DEF Inv, Honest, Shape
<1>2. /\ asked \in [Roles -> SUBSET Conns]
      /\ \A q \in Roles : \A n \in asked[q] : n <= conn[q]
      /\ \A n \in granted : Reached(n)
  BY <1>1 DEF TypeOK, ServerTypeOK, AskedInTurn, ServedInTurn
<1>3. CASE asked' = asked /\ granted' \subseteq granted
  BY <1>2, <1>3
<1>4. CASE \E p \in Roles : SRetryRequest(p)
  <2>1. PICK p \in Roles : SRetryRequest(p)
    BY <1>4
  <2>. DEFINE m == Head(toServer[p])
              n == m.conn
  <2>2. m \in Lines(toServer[p]) /\ m.type = "retry_request"
    BY <1>1, <2>1, ReadLine DEF SRetryRequest
  <2>3. n <= conn[p]
    BY <1>1, <2>2 DEF AskedInTurn
  <2>4. \/ asked' = [asked EXCEPT ![p] = asked[p] \cup {n}] /\ granted' = granted
        \/ /\ n \in asked[Other(p)]
           /\ asked' = [q \in Roles |-> asked[q] \ {n}] /\ granted' = granted \cup {n}
    BY <2>1 DEF SRetryRequest
  <2>. HIDE DEF m, n
  <2>5. CASE asked' = [asked EXCEPT ![p] = asked[p] \cup {n}] /\ granted' = granted
    BY <1>2, <2>3, <2>5
  <2>6. CASE /\ n \in asked[Other(p)]
             /\ asked' = [q \in Roles |-> asked[q] \ {n}] /\ granted' = granted \cup {n}
    <3>1. n <= conn[Other(p)]
      BY <1>2, <2>6, ConstantFacts
    <3>2. Reached(n)
      BY <2>3, <3>1, ConstantFacts DEF Reached
    <3>. QED
      BY <1>2, <2>6, <3>2
  <2>. QED
    BY <2>4, <2>5, <2>6
<1>5. CASE \E n \in Conns : SRetryTimer(n)
  <2>1. PICK n \in Conns, p \in Roles :
          asked' = [asked EXCEPT ![p] = asked[p] \ {n}] /\ granted' = granted
    BY <1>5 DEF SRetryTimer
  <2>2. \A q \in Roles : asked'[q] \subseteq asked[q]
    BY <1>2, <2>1
  <2>. QED
    BY <1>2, <2>1, <2>2
<1>6. CASE \E p \in Roles : SHandler(p)
  <2>1. PICK p \in Roles : SHandler(p)
    BY <1>6
  <2>2. CASE \/ SRegister(p) \/ SProbesComplete(p) \/ SReady(p)
             \/ SConnResult(p, "established") \/ SConnResult(p, "abandoned")
    BY <1>3, <2>2 DEF SRegister, SProbesComplete, SReady, SConnResult
  <2>3. CASE SAddPorts(p)
    <3>1. asked' = asked
      BY <2>3 DEF SAddPorts
    <3>2. granted' \subseteq granted
      BY <2>3 DEF SAddPorts, SNewPorts, SRetryPort
    <3>. QED
      BY <1>3, <3>1, <3>2
  <2>4. CASE SGone(p)
    BY <1>3, <2>4 DEF SGone
  <2>. QED
    BY <1>4, <2>1, <2>2, <2>3, <2>4 DEF SHandler
<1>7. CASE \E k \in Coordinators : Coordinator(k) \/ CoReadyTimeout(k) \/ CoResultTimeout(k)
  <2>1. asked' = asked /\ granted' = granted
    BY <1>7 DEF Coordinator, CoStart, CoSkip, CoPeerInfo, CoGo, SendGo, CoResult, CoSendFail,
       CoReadyTimeout, CoResultTimeout
  <2>. QED
    BY <1>3, <2>1
<1>8. CASE \E n \in Conns : RetryCoordinator(n) \/ RetryReadyTimeout(n)
  <2>1. asked' = asked /\ granted' = granted
    BY <1>8 DEF RetryCoordinator, RetryStart, RetryGo, SendGo, RetrySendFail,
       RetryReadyTimeout
  <2>. QED
    BY <1>3, <2>1
<1>. QED
  BY <1>5, <1>6, <1>7, <1>8 DEF SStep, Server, ServerLimit

\* A coordinator goes on to the next connection when both results of this one are there.
LEMMA NextReached ==
  ASSUME Inv, NEW k \in Coordinators, BothResults(coConn[k])
  PROVE  Reached(coConn[k] + 1)
<1>1. TypeOK /\ ResultsTrue
  BY DEF Inv, Honest, Shape
<1>2. coConn[k] \in Conns /\ Conns \subseteq Int
  BY <1>1, ConstantFacts DEF TypeOK, ServerTypeOK
<1>3. ASSUME NEW q \in Roles PROVE coConn[k] + 1 <= conn[q]
  <2>1. conn[q] > coConn[k]
    BY <1>1, <1>2 DEF BothResults, ResultsTrue, Moved
  <2>2. conn[q] \in Int /\ coConn[k] \in Int
    BY <1>1, <1>2, ConnLines
  <2>. QED
    BY <2>1, <2>2
<1>. QED
  BY <1>3 DEF Reached

\* What the relay attends to next.
LEMMA ServerAttends ==
  ASSUME Inv, SStep
  PROVE  \A n \in Conns : Attended(n)' => Attended(n) \/ Reached(n)
<1>1. /\ Shape /\ TypeOK /\ ServedInTurn /\ coConn \in [Coordinators -> Conns]
      /\ retryNew \in [Conns -> Nat] /\ retryWait \in [Conns -> Nat]
  BY DEF Inv, Honest, Shape, TypeOK, ServerTypeOK
<1>2. CASE UNCHANGED <<coConn, retryTasks>>
  BY <1>2 DEF Attended
<1>3. ASSUME NEW k \in Coordinators, coConn' = [coConn EXCEPT ![k] = coConn[k] + 1],
             BothResults(coConn[k]), UNCHANGED retryTasks
      PROVE  \A n \in Conns : Attended(n)' => Attended(n) \/ Reached(n)
  <2>1. SUFFICES ASSUME NEW n \in Conns, Attended(n)', ~Attended(n) PROVE Reached(n)
    OBVIOUS
  <2>2. retryNew' = retryNew /\ retryWait' = retryWait
    BY <1>3
  <2>3. PICK j \in Coordinators : coConn'[j] = n /\ coConn[j] # n
    BY <2>1, <2>2 DEF Attended
  <2>4. n = coConn[k] + 1
    BY <1>1, <1>3, <2>3
  <2>. QED
    BY <1>3, <2>4, NextReached
<1>4. ASSUME NEW k \in Coordinators, CoNext(k), UNCHANGED retryTasks, BothResults(coConn[k])
      PROVE  \A n \in Conns : Attended(n)' => Attended(n) \/ Reached(n)
  <2>1. \/ coConn' = coConn
        \/ coConn' = [coConn EXCEPT ![k] = coConn[k] + 1]
    BY <1>1, <1>4, CoNextType DEF TypeOK
  <2>. QED
    BY <1>2, <1>3, <1>4, <2>1
<1>5. ASSUME NEW i \in Conns, coConn' = coConn, Attended(i) \/ Reached(i),
             \A n \in Conns \ {i} : retryNew'[n] = retryNew[n] /\ retryWait'[n] = retryWait[n]
      PROVE  \A n \in Conns : Attended(n)' => Attended(n) \/ Reached(n)
  <2>1. SUFFICES ASSUME NEW n \in Conns, Attended(n)' PROVE Attended(n) \/ Reached(n)
    OBVIOUS
  <2>2. CASE n = i
    BY <1>5, <2>2
  <2>3. CASE n # i
    BY <1>5, <2>1, <2>3 DEF Attended
  <2>. QED
    BY <2>2, <2>3
<1>6. CASE \E p \in Roles : SHandler(p)
  <2>1. PICK p \in Roles : SHandler(p)
    BY <1>6
  <2>2. CASE ~SAddPorts(p)
    <3>1. UNCHANGED <<coConn, retryTasks>>
      BY <2>1, <2>2 DEF SHandler, SRegister, SProbesComplete, SReady, SRetryRequest, SConnResult,
         SGone
    <3>. QED
      BY <1>2, <3>1
  <2>3. CASE SAddPorts(p)
    <3>1. coConn' = coConn /\ retryWait' = retryWait
      BY <2>3 DEF SAddPorts
    <3>2. CASE SNewPorts(p)
      BY <1>2, <3>1, <3>2 DEF SNewPorts
    <3>3. ASSUME NEW n \in Conns, SRetryPort(p, n)
          PROVE  \A i \in Conns : Attended(i)' => Attended(i) \/ Reached(i)
      <4>1. n \in granted /\ (retryNew' = retryNew \/ retryNew' = [retryNew EXCEPT ![n] = @ + 1])
        BY <3>3 DEF SRetryPort
      <4>2. Reached(n)
        BY <1>1, <4>1 DEF ServedInTurn
      <4>3. \A i \in Conns \ {n} : retryNew'[i] = retryNew[i]
        BY <1>1, <4>1
      <4>. QED
        BY <1>5, <3>1, <4>2, <4>3
    <3>. QED
      BY <2>3, <3>2, <3>3 DEF SAddPorts
  <2>. QED
    BY <2>2, <2>3
<1>7. CASE \E k \in Coordinators : Coordinator(k) \/ CoReadyTimeout(k) \/ CoResultTimeout(k)
  <2>1. PICK k \in Coordinators : Coordinator(k) \/ CoReadyTimeout(k) \/ CoResultTimeout(k)
    BY <1>7
  <2>2. CASE CoSkip(k) \/ CoResult(k)
    <3>1. UNCHANGED retryTasks
      BY <2>2 DEF CoSkip, CoResult
    <3>2. coConn' = coConn \/ (CoNext(k) /\ BothResults(coConn[k]))
      BY <2>2 DEF CoSkip, CoResult
    <3>. QED
      BY <1>2, <1>4, <3>1, <3>2
  <2>3. CASE \/ CoStart(k) \/ CoPeerInfo(k) \/ CoGo(k) \/ CoSendFail(k)
             \/ CoReadyTimeout(k) \/ CoResultTimeout(k)
    <3>1. UNCHANGED <<coConn, retryTasks>>
      BY <2>3 DEF CoStart, CoPeerInfo, CoGo, CoSendFail, CoReadyTimeout, CoResultTimeout
    <3>. QED
      BY <1>2, <3>1
  <2>. QED
    BY <2>1, <2>2, <2>3 DEF Coordinator
<1>8. CASE \E n \in Conns : RetryCoordinator(n) \/ SRetryTimer(n) \/ RetryReadyTimeout(n)
  <2>1. PICK n \in Conns : RetryCoordinator(n) \/ SRetryTimer(n) \/ RetryReadyTimeout(n)
    BY <1>8
  <2>2. CASE SRetryTimer(n)
    BY <1>2, <2>2 DEF SRetryTimer
  <2>3. CASE RetryCoordinator(n) \/ RetryReadyTimeout(n)
    <3>1. Attended(n)
      BY <2>3 DEF RetryCoordinator, RetryStart, RetryGo, RetrySendFail, RetryReadyTimeout,
         Attended
    <3>2. coConn' = coConn
      BY <2>3 DEF RetryCoordinator, RetryStart, RetryGo, RetrySendFail, RetryReadyTimeout
    <3>3. \A i \in Conns \ {n} : retryNew'[i] = retryNew[i] /\ retryWait'[i] = retryWait[i]
      BY <1>1, <2>3 DEF RetryCoordinator, RetryStart, RetryGo, RetrySendFail, RetryReadyTimeout
    <3>. QED
      BY <1>5, <3>1, <3>2, <3>3
  <2>. QED
    BY <2>1, <2>2, <2>3
<1>. QED
  BY <1>6, <1>7, <1>8 DEF SStep, Server, ServerLimit

LEMMA ServerInTurn ==
  ASSUME Inv, SStep, UNCHANGED client
  PROVE  AskedInTurn' /\ ServedInTurn'
<1>1. Shape /\ TypeOK /\ AskedInTurn /\ ServedInTurn
  BY DEF Inv, Honest, Shape
<1>2. conn' = conn
  OBVIOUS
<1>3. \A n : Reached(n)' <=> Reached(n)
  BY <1>2 DEF Reached
<1>4. \A q \in Roles : Lines(toServer'[q]) \subseteq Lines(toServer[q])
  BY <1>1, ServerTakes
<1>5. AskedInTurn'
  <2>1. \A q \in Roles : \A n \in asked'[q] : n <= conn'[q]
    BY <1>2, ServerAsked
  <2>2. \A q \in Roles : \A m \in Lines(toServer'[q]) :
          m.type = "retry_request" => m.conn <= conn'[q]
    BY <1>1, <1>2, <1>4 DEF AskedInTurn
  <2>. QED
    BY <2>1, <2>2 DEF AskedInTurn
<1>6. \A n \in granted' : Reached(n)'
  BY <1>3, ServerAsked
<1>7. \A n \in Conns : Attended(n) => Reached(n)
  BY <1>1 DEF ServedInTurn
<1>8. \A n \in Conns : Attended(n)' => Reached(n)'
  BY <1>3, <1>7, ServerAttends
<1>9. ASSUME NEW q \in Roles, NEW x \in Lines(toClient'[q]), x.type \in {"peer_info", "go"}
      PROVE  Reached(x.conn)'
  <2>1. CASE x \in Lines(toClient[q])
    BY <1>1, <1>3, <1>9, <2>1 DEF ServedInTurn
  <2>2. CASE x \notin Lines(toClient[q])
    <3>1. Told(x)
      BY <1>1, <1>9, <2>2, ServerTells
    <3>2. x \in Msg /\ Attended(x.conn)
      BY <1>9, <3>1 DEF Told
    <3>3. x.conn \in Conns
      BY <1>9, <3>2, MsgFacts
    <3>. QED
      BY <1>3, <1>7, <3>2, <3>3
  <2>. QED
    BY <2>1, <2>2
<1>. QED
  BY <1>5, <1>6, <1>8, <1>9 DEF ServedInTurn

LEMMA InvInit == Init => Inv
<1>. SUFFICES ASSUME Init PROVE Inv
  OBVIOUS
<1>1. Honest
  BY HonestInit
<1>2. \A q \in Roles : conn[q] = 0 /\ toServer[q] = <<>> /\ toClient[q] = <<>> /\ asked[q] = {}
  BY DEF Init, ClientInit, LinkInit, ServerInit
<1>3. AskedInTurn
  BY <1>2, NoLine DEF AskedInTurn
<1>4. \A n \in Conns : Attended(n) => n = 0
  BY DEF Init, ServerInit, Attended
<1>5. Reached(0)
  BY <1>2 DEF Reached
<1>6. granted = {}
  BY DEF Init, ServerInit
<1>7. ServedInTurn
  BY <1>2, <1>4, <1>5, <1>6, NoLine DEF ServedInTurn
<1>. QED
  BY <1>1, <1>3, <1>7 DEF Inv

LEMMA InvStep == Inv /\ [Next]_vars => Inv'
<1>. SUFFICES ASSUME Inv, [Next]_vars PROVE Inv'
  OBVIOUS
<1>1. Honest'
  BY HonestStep DEF Inv
<1>2. CASE \E p \in Roles : CStep(p) /\ UNCHANGED server
  <2>1. AskedInTurn' /\ ServedInTurn'
    BY <1>2, ClientInTurn
  <2>. QED
    BY <1>1, <2>1 DEF Inv
<1>3. CASE SStep /\ UNCHANGED client
  BY <1>1, <1>3, ServerInTurn DEF Inv
<1>4. CASE UNCHANGED <<server, client, toServer, toClient>>
  <2>1. AskedInTurn /\ ServedInTurn
    BY DEF Inv
  <2>2. /\ conn' = conn /\ toServer' = toServer /\ toClient' = toClient /\ asked' = asked
        /\ granted' = granted /\ coConn' = coConn /\ retryNew' = retryNew
        /\ retryWait' = retryWait
    BY <1>4
  <2>3. AskedInTurn'
    BY <2>1, <2>2 DEF AskedInTurn
  <2>4. ServedInTurn'
    BY <2>1, <2>2 DEF ServedInTurn, Reached, Attended
  <2>. QED
    BY <1>1, <2>3, <2>4 DEF Inv
<1>. QED
  BY <1>2, <1>3, <1>4, WholeStep

LEMMA Invariance == Spec => []Inv
BY InvInit, InvStep, PTL DEF Spec

\* Every variable of the relay, the clients and the lines between them keeps its type
\* (RelayServer, PunchClient, RelayLink).
THEOREM TypeCorrect == Spec => []TypeOK
<1>1. Inv => TypeOK
  BY DEF Inv, Honest, Shape
<1>. QED
  BY <1>1, Invariance, PTL

\* What the relay has on record as a client's result (handlers.py:399-423) is how the
\* connection ended for that client, whatever was lost, repeated or late.
THEOREM RecordIsTrue == Spec => []ResultsTrue
<1>1. Inv => ResultsTrue
  BY DEF Inv, Honest
<1>. QED
  BY <1>1, Invariance, PTL

\* No peer_info and no GO is under way for a connection while either client is still at an
\* earlier one (coordinator.py:46-170), for any number of connections, with both
\* coordinators and any retries running.
THEOREM OneAfterAnother == Spec => []Sequential
<1>1. Inv => Sequential
  <2>1. SUFFICES ASSUME Inv, NEW p \in Roles, NEW i \in DOMAIN toClient[p],
                        toClient[p][i].type \in {"peer_info", "go"},
                        NEW q \in Roles, NEW n \in Conns, n < toClient[p][i].conn
                 PROVE  Moved(q, n)
    BY DEF Sequential
  <2>. DEFINE m == toClient[p][i]
  <2>2. TypeOK /\ ServedInTurn
    BY <2>1 DEF Inv, Honest, Shape
  <2>3. m \in Lines(toClient[p])
    BY DEF Lines
  <2>4. m.conn \in Conns
    BY <2>1, <2>2, <2>3, ConnLines, MsgFacts
  <2>5. m.conn <= conn[q]
    BY <2>1, <2>2, <2>3 DEF ServedInTurn, Reached
  <2>6. n < m.conn /\ n \in Int /\ m.conn \in Int /\ conn[q] \in Int
    BY <2>1, <2>2, <2>4, ConnLines, ConstantFacts
  <2>. HIDE DEF m
  <2>7. conn[q] > n
    BY <2>5, <2>6
  <2>. QED
    BY <2>7 DEF Moved
<1>. QED
  BY <1>1, Invariance, PTL

(***************************************************************************)
(* That the relay has on record the ports the clients hold, for any        *)
(* number of connections and attempts, any lost connections, any failed    *)
(* punches and binds (PortsTrue names the two exceptions).                 *)
(*                                                                         *)
(* A client that waits neither for a retry nor for the answer to a report  *)
(* has nothing outstanding at the relay (Settled); while it waits, exactly *)
(* one thing is under way or noted.                                        *)
(***************************************************************************)

\* Which lines a channel holds: none of these types; one at most.
Free(s, T) == \A x \in Lines(s) : x.type \notin T
Sole(s, T) == \A i, j \in DOMAIN s : s[i].type \in T /\ s[j].type \in T => i = j

Registration == {"register"}
Request == {"retry_request"}
Added == {"add_ports"}
Grant == {"retry_granted"}
Replies == {"retry_granted", "retry_rejected"}
Ack == {"ports_added_ack"}
Info == {"peer_info"}

\* The ports in these slots, as the client names them to the relay.
Named(s) == [i \in DOMAIN s |-> <<i - 1, s[i]>>]

\* The retries for which the relay waits for a port of p.
Open(p) == {n \in granted : p \notin mapped[n]}

\* The relay has not read q's registration and may yet.
Unheard(q) == cPc[q] = "register" \/ ~Free(toServer[q], Registration)

NoTasks ==
  /\ \A k \in Coordinators : coPc[k] = "unused"
  /\ \A n \in Conns : retryNew[n] = 0 /\ retryWait[n] = 0

NotHeard(q) ==
  /\ q \in serving /\ q \notin member /\ asked[q] = {}
  /\ toClient[q] = <<>> /\ saved[q] = NoPort
  /\ \A i \in DOMAIN sockets[q] : sockets[q][i] = 0
  /\ cPc[q] = "register" => toServer[q] = <<>> /\ q \notin cut
  /\ cPc[q] # "register" =>
       /\ cPc[q] = "registered" \/ (cPc[q] = "err" /\ q \in cut)
       /\ toServer[q] = <<OfPorts("register", Named(sockets[q]))>>

\* How a session begins: nothing is done for it before both are heard.
BeginOf(q) ==
  /\ Unheard(q) => NotHeard(q) /\ NoTasks
  /\ q \notin member \cup cut => Unheard(q)
  /\ q \notin serving \/ lost[q] => q \in cut

Begin ==
  /\ \A q \in Roles : BeginOf(q)
  /\ member # Roles => granted = {} /\ timer = {}

\* Alone in the session, a client is not led anywhere.
Early == {"registered", "first", "extra", "head", "ack", "peerinfo"}
Alone(p) ==
  /\ member # Roles => Free(toClient[p], Replies)
  /\ Unheard(Other(p)) =>
       /\ cPc[p] \in Early /\ (cPc[p] = "ack" => after[p] = "head")
       /\ saved[p] = NoPort /\ asked[p] = {}
       /\ Free(toClient[p], Info) /\ Free(toServer[p], Request)

\* A retry is at one place: asked for, noted, or answered.
Retrying(p) ==
  /\ Sole(toServer[p], Request) /\ Sole(toClient[p], Replies)
  /\ asked[p] \subseteq {conn[p]} /\ asked[p] \subseteq timer
  /\ \A x \in Lines(toServer[p]) : x.type \in Request => x.conn = conn[p]
  /\ \A x \in Lines(toClient[p]) : x.type \in Replies => x.conn = conn[p]
  /\ cPc[p] # "retry" =>
       asked[p] = {} /\ Free(toServer[p], Request) /\ Free(toClient[p], Replies)
  /\ ~Free(toServer[p], Request) => asked[p] = {} /\ Free(toClient[p], Replies)
  /\ asked[p] # {} => Free(toClient[p], Replies)

\* The relay waits for a port only where the client has been granted a retry or reports
\* the port it bound for it.
Rebinding(p) == cPc[p] = "ack" /\ after[p] = "peerinfo" /\ ~Free(toServer[p], Added)
Awaited(p) ==
  /\ Open(p) \subseteq {conn[p]}
  /\ conn[p] \in Open(p) <=> (~Free(toClient[p], Grant) \/ Rebinding(p))

\* One report at a time, and answered before the next.
Answered(p) ==
  /\ Free(toServer[p], Registration)
  /\ Sole(toServer[p], Added) /\ Sole(toClient[p], Ack)
  /\ Free(toServer[p], Added) \/ Free(toClient[p], Ack)
  /\ cPc[p] # "ack" => Free(toServer[p], Added) /\ Free(toClient[p], Ack)
  /\ \A x \in Lines(toServer[p]) : x.type \in Added => x.ports = reported[p]

\* The relay has on record what the client holds, but for the report under way.
OnRecord(p) ==
  /\ Free(toServer[p], Added) => bound[p] = Named(sockets[p])
  /\ ~Free(toServer[p], Added) /\ after[p] = "head" =>
       bound[p] \o reported[p] = Named(sockets[p])
  /\ Rebinding(p) =>
       /\ conn[p] < Len(bound[p])
       /\ reported[p] = <<Port(p, conn[p])>>
       /\ Named(sockets[p]) = [bound[p] EXCEPT ![conn[p] + 1] = Port(p, conn[p])]

InStep(p) ==
  Alone(p) /\ (member = Roles => Retrying(p)) /\ Awaited(p) /\ Answered(p) /\ OnRecord(p)

Regular(p) == p \in member \ cut /\ p \notin unfilled
PortInv == Shape /\ Begin /\ (early = 0 => \A p \in Roles : Regular(p) => InStep(p))

\* Nothing is outstanding but, perhaps, an acknowledgement on its way.
Settled(p) ==
  /\ Free(toServer[p], Registration) /\ Free(toServer[p], Added)
  /\ Free(toClient[p], Replies)
  /\ member = Roles => asked[p] = {} /\ Free(toServer[p], Request)
  /\ Open(p) = {}
  /\ bound[p] = Named(sockets[p])

(***************************************************************************)
(* Channels.                                                               *)
(***************************************************************************)

LEMMA FreeSole ==
  ASSUME NEW s, NEW T, Free(s, T)
  PROVE  Sole(s, T)
BY DEF Free, Sole, Lines

LEMMA NoneFree == \A T : Free(<<>>, T) /\ Sole(<<>>, T)
BY NoLine, FreeSole DEF Free

\* A line is added.
LEMMA AppendChannel ==
  ASSUME NEW s \in Seq(Msg), NEW m \in Msg, NEW T
  PROVE  /\ Append(s, m) \in Seq(Msg)
         /\ Lines(Append(s, m)) = Lines(s) \cup {m}
         /\ Free(Append(s, m), T) <=> (Free(s, T) /\ m.type \notin T)
         /\ Sole(s, T) /\ (Free(s, T) \/ m.type \notin T) => Sole(Append(s, m), T)
<1>. DEFINE r == Append(s, m)
<1>1. r \in Seq(Msg) /\ Lines(r) = Lines(s) \cup {m}
  BY AppendLines
<1>2. /\ Len(s) \in Nat /\ Len(r) = Len(s) + 1
      /\ \A i \in 1 .. Len(s) : r[i] = s[i]
      /\ r[Len(s) + 1] = m
      /\ DOMAIN s = 1 .. Len(s) /\ DOMAIN r = 1 .. Len(r)
  BY <1>1, AppendProperties, LenProperties
<1>. HIDE DEF r
<1>3. Free(r, T) <=> (Free(s, T) /\ m.type \notin T)
  BY <1>1 DEF Free
<1>4. ASSUME Sole(s, T), Free(s, T) \/ m.type \notin T PROVE Sole(r, T)
  <2>1. SUFFICES ASSUME NEW i \in DOMAIN r, NEW j \in DOMAIN r,
                        r[i].type \in T, r[j].type \in T
                 PROVE  i = j
    BY DEF Sole
  <2>2. \A k \in DOMAIN r : \/ k \in DOMAIN s /\ r[k] = s[k]
                            \/ k = Len(s) + 1 /\ r[k] = m
    BY <1>2
  <2>3. \A k \in DOMAIN s : s[k] \in Lines(s)
    BY DEF Lines
  <2>4. \A k \in DOMAIN s : s[k].type \in T => m.type \notin T
    BY <1>4, <2>3 DEF Free
  <2>. QED
    BY <1>4, <2>1, <2>2, <2>4 DEF Sole
<1>. QED
  BY <1>1, <1>3, <1>4 DEF r

\* The first line is read.
LEMMA TailChannel ==
  ASSUME NEW s \in Seq(Msg), s # <<>>, NEW T
  PROVE  /\ Tail(s) \in Seq(Msg) /\ Lines(Tail(s)) \subseteq Lines(s)
         /\ Head(s) \in Lines(s) /\ Head(s) \in Msg
         /\ Free(s, T) => Free(Tail(s), T)
         /\ Head(s).type \notin T => (Free(Tail(s), T) <=> Free(s, T))
         /\ Sole(s, T) => Sole(Tail(s), T)
         /\ Sole(s, T) /\ Head(s).type \in T => Free(Tail(s), T)
<1>. DEFINE r == Tail(s)
<1>1. /\ Len(s) \in Nat \ {0} /\ DOMAIN s = 1 .. Len(s)
      /\ r \in Seq(Msg) /\ DOMAIN r = 1 .. Len(r) /\ Len(r) = Len(s) - 1
      /\ \A i \in 1 .. Len(r) : r[i] = s[i + 1]
      /\ Head(s) = s[1]
  BY EmptySeq, LenProperties, HeadTailProperties
<1>2. Head(s) \in Lines(s) /\ Head(s) \in Msg /\ Lines(r) \subseteq Lines(s)
  BY HeadLine
<1>. HIDE DEF r
<1>3. \A i \in DOMAIN r : i \in Nat \ {0} /\ i + 1 \in DOMAIN s /\ r[i] = s[i + 1]
  BY <1>1
<1>4. \A i \in DOMAIN s : i = 1 \/ (i - 1 \in DOMAIN r /\ r[i - 1] = s[i])
  BY <1>1
<1>5. Free(s, T) => Free(r, T)
  BY <1>2 DEF Free
<1>6. ASSUME Head(s).type \notin T, Free(r, T) PROVE Free(s, T)
  <2>1. ASSUME NEW i \in DOMAIN s PROVE s[i].type \notin T
    <3>1. CASE i = 1
      BY <1>1, <1>6, <3>1
    <3>2. CASE i - 1 \in DOMAIN r /\ r[i - 1] = s[i]
      <4>1. r[i - 1] \in Lines(r)
        BY <3>2 DEF Lines
      <4>. QED
        BY <1>6, <3>2, <4>1 DEF Free
    <3>. QED
      BY <1>4, <3>1, <3>2
  <2>. QED
    BY <2>1 DEF Free, Lines
<1>7. ASSUME Sole(s, T) PROVE Sole(r, T)
  <2>1. SUFFICES ASSUME NEW i \in DOMAIN r, NEW j \in DOMAIN r,
                        r[i].type \in T, r[j].type \in T
                 PROVE  i = j
    BY DEF Sole
  <2>2. i + 1 = j + 1
    BY <1>3, <1>7, <2>1 DEF Sole
  <2>. QED
    BY <1>3, <2>2
<1>8. ASSUME Sole(s, T), Head(s).type \in T PROVE Free(r, T)
  <2>1. ASSUME NEW i \in DOMAIN r PROVE r[i].type \notin T
    <3>1. 1 \in DOMAIN s /\ i + 1 \in DOMAIN s /\ i + 1 # 1
      BY <1>1, <1>3
    <3>. QED
      BY <1>1, <1>3, <1>8, <3>1 DEF Sole
  <2>. QED
    BY <2>1 DEF Free, Lines
<1>. QED
  BY <1>1, <1>2, <1>5, <1>6, <1>7, <1>8 DEF r

\* A reader takes a line out.
Without(s, i) == SubSeq(s, 1, i - 1) \o SubSeq(s, i + 1, Len(s))

LEMMA WithoutChannel ==
  ASSUME NEW s \in Seq(Msg), NEW i \in DOMAIN s, NEW T,
         Sole(s, T), s[i].type \in T
  PROVE  Free(Without(s, i), T)
<1>. DEFINE a == SubSeq(s, 1, i - 1)
            b == SubSeq(s, i + 1, Len(s))
            r == a \o b
<1>1. Len(s) \in Nat /\ DOMAIN s = 1 .. Len(s) /\ i \in 1 .. Len(s)
  BY LenProperties
<1>2. \A k \in 1 .. Len(s) : s[k] \in Msg
  BY <1>1, ElementOfSeq
<1>3. /\ a \in Seq(Msg) /\ Len(a) = i - 1 /\ \A k \in 1 .. i - 1 : a[k] = s[k]
  <2>1. \A k \in 1 .. i - 1 : s[k] \in Msg
    BY <1>1, <1>2
  <2>. QED
    BY <1>1, <2>1, SubSeqProperties
<1>4. /\ b \in Seq(Msg) /\ Len(b) = Len(s) - i
      /\ \A k \in 1 .. Len(s) - i : b[k] = s[i + k]
  <2>1. \A k \in i + 1 .. Len(s) : s[k] \in Msg
    BY <1>1, <1>2
  <2>2. /\ b \in Seq(Msg) /\ Len(b) = (IF i + 1 <= Len(s) THEN Len(s) - (i + 1) + 1 ELSE 0)
        /\ \A k \in 1 .. Len(s) - (i + 1) + 1 : b[k] = s[i + 1 + k - 1]
    BY <1>1, <2>1, SubSeqProperties
  <2>. HIDE DEF b
  <2>3. Len(b) = Len(s) - i
    BY <1>1, <2>2
  <2>4. ASSUME NEW k \in 1 .. Len(s) - i PROVE b[k] = s[i + k]
    <3>1. k \in 1 .. Len(s) - (i + 1) + 1 /\ i + 1 + k - 1 = i + k
      BY <1>1
    <3>. QED
      BY <2>2, <3>1
  <2>. QED
    BY <2>2, <2>3, <2>4
<1>. HIDE DEF a, b
<1>5. /\ r \in Seq(Msg) /\ Len(r) = Len(a) + Len(b)
      /\ \A j \in 1 .. Len(a) + Len(b) :
           r[j] = IF j <= Len(a) THEN a[j] ELSE b[j - Len(a)]
  BY <1>3, <1>4, ConcatProperties
<1>6. DOMAIN r = 1 .. Len(r)
  BY <1>5, LenProperties
<1>. HIDE DEF r
<1>7. \A j \in DOMAIN r : \/ j \in 1 .. i - 1 /\ r[j] = s[j]
                          \/ j \in i .. Len(s) - 1 /\ r[j] = s[j + 1]
  <2>. TAKE j \in DOMAIN r
  <2>1. j \in 1 .. Len(s) - 1 /\ Len(a) + Len(b) = Len(s) - 1
    BY <1>1, <1>3, <1>4, <1>5, <1>6
  <2>2. CASE j <= Len(a)
    BY <1>1, <1>3, <1>5, <2>1, <2>2
  <2>3. CASE ~(j <= Len(a))
    <3>1. j - Len(a) \in 1 .. Len(s) - i /\ i + (j - Len(a)) = j + 1 /\ j \in i .. Len(s) - 1
      BY <1>1, <1>3, <2>1, <2>3
    <3>2. r[j] = b[j - Len(a)]
      BY <1>5, <2>1, <2>3
    <3>. QED
      BY <1>4, <3>1, <3>2
  <2>. QED
    BY <2>2, <2>3
<1>8. ASSUME NEW j \in DOMAIN r PROVE r[j].type \notin T
  <2>1. \E k \in DOMAIN s : k # i /\ r[j] = s[k]
    <3>1. CASE j \in 1 .. i - 1 /\ r[j] = s[j]
      <4>1. j \in DOMAIN s /\ j # i
        BY <1>1, <3>1
      <4>. QED
        BY <3>1, <4>1
    <3>2. CASE j \in i .. Len(s) - 1 /\ r[j] = s[j + 1]
      <4>1. j + 1 \in DOMAIN s /\ j + 1 # i
        BY <1>1, <3>2
      <4>. QED
        BY <3>2, <4>1
    <3>. QED
      BY <1>7, <3>1, <3>2
  <2>. QED
    BY <2>1 DEF Sole
<1>9. Free(r, T)
  BY <1>8 DEF Free, Lines
<1>. QED
  BY <1>9 DEF r, a, b, Without

(***************************************************************************)
(* Ports by their slots.                                                   *)
(***************************************************************************)

LEMMA OfLength ==
  ASSUME NEW S, NEW n \in Nat, NEW s \in [1 .. n -> S]
  PROVE  s \in Seq(S) /\ Len(s) = n
<1>1. s \in Seq(S) /\ DOMAIN s = 1 .. n
  BY SeqDef
<1>2. Len(s) \in Nat /\ DOMAIN s = 1 .. Len(s)
  BY <1>1, LenProperties
<1>. QED
  BY <1>1, <1>2

LEMMA NamedConcat ==
  ASSUME NEW s \in Seq(Nat), NEW t \in Seq(Nat)
  PROVE  Named(s \o t) = Named(s) \o [i \in DOMAIN t |-> <<Len(s) + i - 1, t[i]>>]
<1>. DEFINE P == Int \X Nat
            r == s \o t
            a == Named(s)
            b == [i \in DOMAIN t |-> <<Len(s) + i - 1, t[i]>>]
            c == Named(r)
            w == a \o b
<1>1. /\ Len(s) \in Nat /\ DOMAIN s = 1 .. Len(s) /\ Len(t) \in Nat /\ DOMAIN t = 1 .. Len(t)
      /\ \A i \in 1 .. Len(s) : s[i] \in Nat
      /\ \A i \in 1 .. Len(t) : t[i] \in Nat
  BY LenProperties, ElementOfSeq
<1>2. /\ r \in Seq(Nat) /\ Len(r) = Len(s) + Len(t)
      /\ \A i \in 1 .. Len(s) + Len(t) : r[i] = IF i <= Len(s) THEN s[i] ELSE t[i - Len(s)]
  BY ConcatProperties
<1>3. DOMAIN r = 1 .. Len(s) + Len(t) /\ \A i \in 1 .. Len(s) + Len(t) : r[i] \in Nat
  BY <1>2, LenProperties, ElementOfSeq
<1>. HIDE DEF r
<1>4. a \in [1 .. Len(s) -> P] /\ \A i \in 1 .. Len(s) : a[i] = <<i - 1, s[i]>>
  BY <1>1 DEF Named
<1>5. /\ b \in [1 .. Len(t) -> P]
      /\ \A i \in 1 .. Len(t) : b[i] = <<Len(s) + i - 1, t[i]>>
  BY <1>1
<1>6. /\ c \in [1 .. Len(s) + Len(t) -> P]
      /\ \A i \in 1 .. Len(s) + Len(t) : c[i] = <<i - 1, r[i]>>
  BY <1>1, <1>3 DEF Named
<1>. HIDE DEF a, b, c, P
<1>7. /\ a \in Seq(P) /\ Len(a) = Len(s) /\ b \in Seq(P) /\ Len(b) = Len(t)
      /\ c \in Seq(P) /\ Len(c) = Len(s) + Len(t)
  <2>1. Len(s) + Len(t) \in Nat
    BY <1>1
  <2>. QED
    BY <1>1, <1>4, <1>5, <1>6, <2>1, OfLength
<1>8. /\ w \in Seq(P) /\ Len(w) = Len(s) + Len(t)
      /\ \A i \in 1 .. Len(s) + Len(t) : w[i] = IF i <= Len(s) THEN a[i] ELSE b[i - Len(s)]
  BY <1>7, ConcatProperties
<1>. HIDE DEF w
<1>9. ASSUME NEW i \in 1 .. Len(s) + Len(t) PROVE c[i] = w[i]
  <2>1. CASE i <= Len(s)
    <3>1. i \in 1 .. Len(s)
      BY <1>1, <2>1
    <3>. QED
      BY <1>2, <1>4, <1>6, <1>8, <2>1, <3>1
  <2>2. CASE ~(i <= Len(s))
    <3>1. i - Len(s) \in 1 .. Len(t) /\ Len(s) + (i - Len(s)) - 1 = i - 1
      BY <1>1, <2>2
    <3>2. w[i] = b[i - Len(s)] /\ r[i] = t[i - Len(s)]
      BY <1>2, <1>8, <2>2
    <3>. QED
      BY <1>5, <1>6, <3>1, <3>2
  <2>. QED
    BY <2>1, <2>2
<1>10. c = w
  BY <1>7, <1>8, <1>9, SeqEqual
<1>. QED
  BY <1>10 DEF c, w, a, b, r

LEMMA NamedFacts ==
  ASSUME NEW s \in Seq(Nat)
  PROVE  /\ Len(Named(s)) = Len(s) /\ DOMAIN Named(s) = DOMAIN s
         /\ \A i \in DOMAIN s : Named(s)[i] = <<i - 1, s[i]>>
         /\ \A n \in Nat, g \in Nat : n < Len(s) =>
              Named([s EXCEPT ![n + 1] = g]) = [Named(s) EXCEPT ![n + 1] = <<n, g>>]
<1>1. Len(s) \in Nat /\ DOMAIN s = 1 .. Len(s) /\ \A i \in 1 .. Len(s) : s[i] \in Nat
  BY LenProperties, ElementOfSeq
<1>2. DOMAIN Named(s) = 1 .. Len(s) /\ \A i \in 1 .. Len(s) : Named(s)[i] = <<i - 1, s[i]>>
  BY <1>1 DEF Named
<1>3. Named(s) \in [1 .. Len(s) -> Int \X Nat]
  BY <1>1 DEF Named
<1>5. Len(Named(s)) = Len(s)
  BY <1>1, <1>3, OfLength
<1>6. ASSUME NEW n \in Nat, NEW g \in Nat, n < Len(s)
      PROVE  Named([s EXCEPT ![n + 1] = g]) = [Named(s) EXCEPT ![n + 1] = <<n, g>>]
  <2>1. n + 1 - 1 = n
    OBVIOUS
  <2>2. s = [i \in 1 .. Len(s) |-> s[i]]
    BY <1>1
  <2>3. [s EXCEPT ![n + 1] = g] = [i \in 1 .. Len(s) |-> IF i = n + 1 THEN g ELSE s[i]]
    BY <1>1
  <2>4. Named([s EXCEPT ![n + 1] = g])
          = [i \in 1 .. Len(s) |-> <<i - 1, IF i = n + 1 THEN g ELSE s[i]>>]
    BY <2>3 DEF Named
  <2>5. [Named(s) EXCEPT ![n + 1] = <<n, g>>]
          = [i \in 1 .. Len(s) |-> IF i = n + 1 THEN <<n, g>> ELSE <<i - 1, s[i]>>]
    BY <1>1, <1>2, <1>3
  <2>6. \A i \in 1 .. Len(s) : <<i - 1, IF i = n + 1 THEN g ELSE s[i]>>
                               = IF i = n + 1 THEN <<n, g>> ELSE <<i - 1, s[i]>>
    BY <2>1
  <2>. QED
    BY <2>4, <2>5, <2>6
<1>. QED
  BY <1>1, <1>2, <1>5, <1>6

(***************************************************************************)
(* A step of one client, seen from the other.                              *)
(***************************************************************************)

SameClient(q) ==
  /\ cPc'[q] = cPc[q] /\ after'[q] = after[q] /\ reported'[q] = reported[q]
  /\ conn'[q] = conn[q] /\ sockets'[q] = sockets[q]
  /\ saved'[q] = saved[q] /\ lost'[q] = lost[q]

LEMMA ClientCuts ==
  ASSUME NEW p \in Roles, CStep(p)
  PROVE  cut' = cut \/ cut' = cut \cup {p}
BY DEF CStep, Client, Punched, ClientLimit,
   CRegister, CRegisterFail, CFirstFail, CExtra, CFinish, CBind, CBindFail,
   CStart, CReady, CRetryRequest, CAckError, CAckMissing, CNotice, CTransportLost,
   CEstablished, CPunchFail, CFirstTimeout, CTimeout, CAckTimeout, CPunchAlone,
   CRegistered, CFirstPeerInfo, CPeerInfo, CGo, CRetryRejected, CRetryGranted, CRebindFail,
   CWriteError, CAck, Leave

LEMMA ClientFrame ==
  ASSUME Shape, NEW p \in Roles, CStep(p), NEW q \in Roles, q # p
  PROVE  SameClient(q) /\ toServer'[q] = toServer[q] /\ toClient'[q] = toClient[q]
<1>. USE DEF Goto, Send, Written, SameClient
<1>1. /\ cPc \in [Roles -> ClientPcs] /\ after \in [Roles -> {"head", "peerinfo"}]
      /\ reported \in [Roles -> Seq(Ports)] /\ conn \in [Roles -> 0 .. NumConns]
      /\ sockets \in [Roles -> Seq(Nat)] /\ saved \in [Roles -> Ports \cup {NoPort}]
      /\ lost \in [Roles -> BOOLEAN]
      /\ toServer \in [Roles -> Seq(Msg)] /\ toClient \in [Roles -> Seq(Msg)]
  BY DEF Shape, TypeOK, ClientTypeOK, LinkTypeOK
<1>2. CASE \/ CRegister(p) \/ CRegistered(p) \/ CRegisterFail(p) \/ CFirstFail(p)
           \/ CFirstTimeout(p) \/ CFinish(p)
  BY <1>1, <1>2 DEF CRegister, CRegistered, CRegisterFail, CFirstFail, CFirstTimeout,
     CFinish, Leave
<1>3. CASE CFirstPeerInfo(p) \/ CPeerInfo(p) \/ CGo(p)
  BY <1>1, <1>3 DEF CFirstPeerInfo, CPeerInfo, CGo, Receive
<1>4. CASE CStart(p) \/ CReady(p) \/ CRetryRequest(p) \/ CNotice(p) \/ CTransportLost(p)
  BY <1>1, <1>4 DEF CStart, CReady, CRetryRequest, CNotice, CTransportLost
<1>5. CASE CExtra(p)
  BY <1>1, <1>5 DEF CExtra, Report
<1>6. CASE CBind(p) \/ CBindFail(p)
  BY <1>1, <1>6 DEF CBind, CBindFail, Report, Abandon
<1>7. CASE CEstablished(p)
  BY <1>1, <1>7 DEF CEstablished
<1>8. CASE CPunchFail(p) \/ CPunchAlone(p) \/ CTimeout(p)
  BY <1>1, <1>8 DEF CPunchFail, CPunchAlone, CTimeout, Fail, Abandon
<1>9. CASE CRetryRejected(p)
  BY <1>1, <1>9 DEF CRetryRejected, Receive, Fail, Abandon
<1>10. CASE CRetryGranted(p)
  BY <1>1, <1>10 DEF CRetryGranted, Granted, Receive, Rebind, Report
<1>11. CASE CRebindFail(p)
  BY <1>1, <1>11 DEF CRebindFail, Granted, Receive, Abandon
<1>12. CASE CWriteError(p)
  BY <1>1, <1>12 DEF CWriteError, WriteError, Granted, Receive, Rebind
<1>13. CASE CAck(p) \/ CAckError(p) \/ CAckTimeout(p)
  BY <1>1, <1>13 DEF CAck, CAckError, CAckTimeout, CAckMissing
<1>. QED
  BY <1>2, <1>3, <1>4, <1>5, <1>6, <1>7, <1>8, <1>9, <1>10, <1>11, <1>12, <1>13
     DEF CStep, Client, Punched, ClientLimit

(***************************************************************************)
(* How a session begins.                                                   *)
(***************************************************************************)

LEMMA OneLine ==
  ASSUME NEW m \in Msg, NEW T
  PROVE  /\ <<m>> \in Seq(Msg) /\ <<m>> # <<>> /\ Head(<<m>>) = m /\ Tail(<<m>>) = <<>>
         /\ Free(<<m>>, T) <=> m.type \notin T
<1>1. DOMAIN <<m>> = {1} /\ <<m>>[1] = m
  OBVIOUS
<1>2. Lines(<<m>>) = {m}
  BY <1>1 DEF Lines
<1>. QED
  BY <1>2 DEF Free

LEMMA RegisterLine ==
  ASSUME Shape, NEW q \in Roles
  PROVE  /\ OfPorts("register", Named(sockets[q])) \in Msg
         /\ OfPorts("register", Named(sockets[q])).type = "register"
         /\ OfPorts("register", Named(sockets[q])).ports = Named(sockets[q])
<1>1. sockets[q] \in Seq(Nat) /\ Len(sockets[q]) <= NumConns
  BY DEF Shape, TypeOK, ClientTypeOK, Slots
<1>2. /\ Len(sockets[q]) \in Nat /\ DOMAIN sockets[q] = 1 .. Len(sockets[q])
      /\ \A i \in 1 .. Len(sockets[q]) : sockets[q][i] \in Nat
  BY <1>1, LenProperties, ElementOfSeq
<1>3. \A i \in 1 .. Len(sockets[q]) : i - 1 \in Conns
  BY <1>1, <1>2, ConstantFacts
<1>4. Named(sockets[q]) \in [1 .. Len(sockets[q]) -> Ports]
  BY <1>2, <1>3, ConstantFacts DEF Named
<1>5. Named(sockets[q]) \in Seq(Ports)
  BY <1>2, <1>4, PortsOfLength
<1>. QED
  BY <1>5, MsgFacts

\* While it is unheard, a client only registers or fails to.
LEMMA NotHeardClient ==
  ASSUME Shape, NEW q \in Roles, Unheard(q), NotHeard(q), CStep(q)
  PROVE  /\ toClient'[q] = <<>> /\ saved'[q] = saved[q] /\ sockets' = sockets /\ cut' = cut
         /\ cPc'[q] = "registered" \/ (cPc'[q] = "err" /\ q \in cut)
         /\ toServer'[q] = <<OfPorts("register", Named(sockets[q]))>>
<1>1. /\ cPc \in [Roles -> ClientPcs] /\ toServer \in [Roles -> Seq(Msg)]
      /\ toClient \in [Roles -> Seq(Msg)] /\ toClient[q] = <<>>
  BY DEF Shape, TypeOK, ClientTypeOK, LinkTypeOK, NotHeard
<1>2. CASE cPc[q] = "register"
  <2>1. CRegister(q)
    BY <1>2 DEF CStep, Client, Punched, ClientLimit,
       CRegister, CRegisterFail, CFirstFail, CExtra, CFinish, CBind, CBindFail,
       CStart, CReady, CRetryRequest, CAckError, CAckMissing, CNotice, CTransportLost,
       CEstablished, CPunchFail, CFirstTimeout, CTimeout, CAckTimeout, CPunchAlone,
       CRegistered, CFirstPeerInfo, CPeerInfo, CGo, CRetryRejected, CRetryGranted,
       CRebindFail, CWriteError, CAck, Granted
  <2>2. [i \in DOMAIN sockets[q] |-> <<i - 1, 0>>] = Named(sockets[q])
    BY DEF NotHeard, Named
  <2>3. toServer[q] = <<>> /\ q \notin cut
    BY <1>2 DEF NotHeard
  <2>. DEFINE m == OfPorts("register", Named(sockets[q]))
  <2>4. toServer' = [toServer EXCEPT ![q] = Append(toServer[q], m)]
    BY <2>1, <2>2, <2>3 DEF CRegister, Send, Written
  <2>. HIDE DEF m
  <2>5. toServer'[q] = <<m>>
    BY <1>1, <2>3, <2>4
  <2>. QED
    BY <1>1, <2>1, <2>5 DEF CRegister, Goto, m
<1>3. CASE cPc[q] # "register"
  <2>1. cPc[q] \in {"registered", "err"}
    BY <1>3 DEF NotHeard
  <2>2. ~CRegistered(q)
    BY <1>1 DEF CRegistered
  <2>3. CRegisterFail(q)
    BY <2>1, <2>2 DEF CStep, Client, Punched, ClientLimit,
       CRegister, CRegisterFail, CFirstFail, CExtra, CFinish, CBind, CBindFail,
       CStart, CReady, CRetryRequest, CAckError, CAckMissing, CNotice, CTransportLost,
       CEstablished, CPunchFail, CFirstTimeout, CTimeout, CAckTimeout, CPunchAlone,
       CRegistered, CFirstPeerInfo, CPeerInfo, CGo, CRetryRejected, CRetryGranted,
       CRebindFail, CWriteError, CAck, Granted
  <2>. QED
    BY <1>1, <1>3, <2>3 DEF CRegisterFail, Goto, NotHeard
<1>. QED
  BY <1>2, <1>3

\* What the relay does before it has heard q: nothing for q but reading its registration
\* or the end of its connection.
LEMMA NotHeardServer ==
  ASSUME Shape, Begin, NEW q \in Roles, Unheard(q), SStep
  PROVE  /\ NoTasks'
         /\ \/ q \in member' /\ toServer'[q] = <<>> /\ cPc[q] # "register"
            \/ q \in cut /\ toServer'[q] = <<>> /\ cPc[q] # "register"
            \/ /\ q \notin member' /\ (q \in cut' => q \in cut)
               /\ q \in serving' /\ asked'[q] = {}
               /\ toClient'[q] = <<>> /\ toServer'[q] = toServer[q]
<1>. USE DEF Begin, BeginOf
<1>1. NotHeard(q) /\ NoTasks
  OBVIOUS
<1>2. /\ q \in serving /\ q \notin member /\ asked[q] = {} /\ toClient[q] = <<>>
      /\ member # Roles /\ granted = {} /\ timer = {}
  BY <1>1 DEF NotHeard
<1>3. /\ toServer \in [Roles -> Seq(Msg)] /\ toClient \in [Roles -> Seq(Msg)]
      /\ asked \in [Roles -> SUBSET Conns]
      /\ retryNew \in [Conns -> Nat] /\ retryWait \in [Conns -> Nat]
  BY DEF Shape, TypeOK, LinkTypeOK, ServerTypeOK
<1>. DEFINE m == OfPorts("register", Named(sockets[q]))
<1>4. m \in Msg /\ m.type = "register" /\ (toServer[q] = <<>> \/ toServer[q] = <<m>>)
  BY <1>1, RegisterLine DEF NotHeard
<1>5. \A t : Line(q, t) => t = "register"
  <2>1. toServer[q] # <<>> => Head(toServer[q]) = m
    BY <1>4, OneLine
  <2>. HIDE DEF m
  <2>. QED
    BY <1>4, <2>1 DEF Line
<1>. HIDE DEF m
<1>6. CASE \E k \in Coordinators : Coordinator(k) \/ CoReadyTimeout(k) \/ CoResultTimeout(k)
  <2>1. \A k \in Coordinators : coPc[k] = "unused"
    BY <1>1 DEF NoTasks
  <2>. QED
    BY <1>6, <2>1 DEF Coordinator, CoStart, CoSkip, CoPeerInfo, CoGo, CoResult, CoSendFail,
       CoReadyTimeout, CoResultTimeout
<1>7. CASE \E n \in Conns : RetryCoordinator(n) \/ SRetryTimer(n) \/ RetryReadyTimeout(n)
  <2>1. \A n \in Conns : retryNew[n] = 0 /\ retryWait[n] = 0
    BY <1>1 DEF NoTasks
  <2>. QED
    BY <1>2, <1>7, <2>1 DEF RetryCoordinator, RetryStart, RetryGo, RetrySendFail,
       SRetryTimer, RetryReadyTimeout
<1>8. ASSUME NEW p \in Roles, SHandler(p)
      PROVE  /\ UNCHANGED <<coPc, retryNew, retryWait>>
             /\ \/ q \in member' /\ toServer'[q] = <<>> /\ cPc[q] # "register"
                \/ q \in cut /\ toServer'[q] = <<>> /\ cPc[q] # "register"
                \/ /\ q \notin member' /\ (q \in cut' => q \in cut)
                   /\ q \in serving' /\ asked'[q] = {}
                   /\ toClient'[q] = <<>> /\ toServer'[q] = toServer[q]
  <2>1. CASE SGone(p)
    <3>1. UNCHANGED <<coPc, retryNew, retryWait>>
      BY <2>1 DEF SGone
    <3>2. CASE p = q
      BY <1>1, <1>3, <2>1, <3>2 DEF SGone, NotHeard
    <3>3. CASE p # q
      BY <1>2, <1>3, <2>1, <3>3 DEF SGone
    <3>. QED
      BY <3>1, <3>2, <3>3
  <2>2. CASE SRegister(p)
    <3>1. UNCHANGED <<coPc, retryNew, retryWait>>
      BY <2>2 DEF SRegister
    <3>2. CASE p = q
      <4>1. toServer[q] # <<>> /\ toServer' = [toServer EXCEPT ![q] = Tail(toServer[q])]
        BY <2>2, <3>2 DEF SRegister, Reads, Line, TakeLine
      <4>2. toServer[q] = <<m>> /\ cPc[q] # "register"
        BY <1>1, <1>4, <4>1 DEF NotHeard
      <4>3. toServer'[q] = <<>>
        BY <1>3, <1>4, <4>1, <4>2, OneLine
      <4>. QED
        BY <2>2, <3>2, <4>2, <4>3 DEF SRegister
    <3>3. CASE p # q
      <4>1. toClient' = Written(toClient, p, Bare("registered"))
        BY <2>2 DEF SRegister, Tell
      <4>2. toClient'[q] = toClient[q]
        BY <1>3, <3>3, <4>1 DEF Written
      <4>. QED
        BY <1>2, <1>3, <2>2, <3>3, <4>2 DEF SRegister, Reads, TakeLine
    <3>. QED
      BY <3>1, <3>2, <3>3
  <2>3. ASSUME p # q,
               \/ SProbesComplete(p) \/ SReady(p) \/ SAddPorts(p) \/ SRetryRequest(p)
               \/ SConnResult(p, "established") \/ SConnResult(p, "abandoned")
        PROVE  /\ UNCHANGED <<coPc, retryNew, retryWait>>
               /\ q \notin member' /\ (q \in cut' => q \in cut)
               /\ q \in serving' /\ asked'[q] = {}
               /\ toClient'[q] = <<>> /\ toServer'[q] = toServer[q]
    <3>1. toServer' = [toServer EXCEPT ![p] = Tail(toServer[p])]
      BY <2>3 DEF SProbesComplete, SReady, SAddPorts, SRetryRequest, SConnResult, Reads,
         TakeLine
    <3>2. toServer'[q] = toServer[q]
      BY <1>3, <2>3, <3>1
    <3>3. CASE SProbesComplete(p) \/ SReady(p)
               \/ SConnResult(p, "established") \/ SConnResult(p, "abandoned")
      BY <1>2, <3>2, <3>3 DEF SProbesComplete, SReady, SConnResult
    <3>4. CASE SAddPorts(p)
      <4>1. SNewPorts(p)
        BY <1>2, <3>4 DEF SAddPorts, SRetryPort
      <4>2. toClient' = Written(toClient, p, OfPorts("ports_added_ack", Head(toServer[p]).ports))
        BY <3>4 DEF SAddPorts, Tell
      <4>3. toClient'[q] = toClient[q]
        BY <1>3, <2>3, <4>2 DEF Written
      <4>. QED
        BY <1>2, <3>2, <3>4, <4>1, <4>3 DEF SAddPorts, SNewPorts
    <3>5. CASE SRetryRequest(p)
      <4>1. UNCHANGED <<coPc, retryNew, retryWait, member, cut, serving, toClient>>
            /\ asked' = [asked EXCEPT ![p] = asked[p] \cup {Head(toServer[p]).conn}]
        BY <1>2, <3>5 DEF SRetryRequest
      <4>. QED
        BY <1>2, <1>3, <2>3, <3>2, <4>1
    <3>. QED
      BY <2>3, <3>3, <3>4, <3>5
  <2>4. CASE p = q /\ ~SGone(p) /\ ~SRegister(p)
    <3>1. \E t : Line(q, t) /\ t # "register"
      <4>1. \A st \in {"established", "abandoned"} : ResultLine(st) # "register"
        BY DEF ResultLine
      <4>. QED
        BY <1>8, <2>4, <4>1 DEF SHandler, SProbesComplete, SReady, SAddPorts, SRetryRequest,
           SConnResult, Reads
    <3>. QED
      BY <1>5, <3>1
  <2>. QED
    BY <1>8, <2>1, <2>2, <2>3, <2>4 DEF SHandler
<1>9. CASE \E p \in Roles : SHandler(p)
  <2>1. NoTasks'
    BY <1>1, <1>8, <1>9 DEF NoTasks
  <2>. QED
    BY <1>8, <1>9, <2>1
<1>. QED
  BY <1>6, <1>7, <1>9 DEF SStep, Server, ServerLimit

\* Two lines written by the same step are the same.
LEMMA SameLine ==
  ASSUME TypeOK, NEW p \in Roles, p \notin cut, NEW m, NEW n, Send(p, m), Send(p, n)
  PROVE  m = n
<1>. DEFINE S == Msg \cup {m, n}
            s == toServer[p]
<1>1. toServer \in [Roles -> Seq(Msg)] /\ s \in Seq(S) /\ m \in S /\ n \in S
  BY DEF TypeOK, LinkTypeOK
<1>2. Append(s, m) = Append(s, n)
  BY <1>1 DEF Send, Written
<1>. HIDE DEF S, s
<1>3. /\ Append(s, m)[Len(s) + 1] = m
      /\ Append(s, n)[Len(s) + 1] = n
  BY <1>1, AppendProperties
<1>. QED
  BY <1>2, <1>3

\* Which step writes which of the lines that matter here.
Sends(p, m) ==
  /\ m.type \in Registration => CRegister(p)
  /\ m.type \in Request => CRetryRequest(p)
  /\ m.type \in Added => CExtra(p) \/ CBind(p) \/ CRetryGranted(p)

LEMMA ClientSends ==
  ASSUME NEW p \in Roles, CStep(p)
  PROVE  toServer' = toServer \/ \E m : Send(p, m) /\ Sends(p, m)
<1>. USE DEF Registration, Request, Added, Sends, OfConn, OfPorts, Bare
<1>1. CASE CRegister(p)
  <2>. DEFINE m == OfPorts("register", [i \in DOMAIN sockets[p] |-> <<i - 1, 0>>])
  <2>1. Send(p, m)
    BY <1>1 DEF CRegister
  <2>2. m.type = "register"
    OBVIOUS
  <2>. HIDE DEF m
  <2>. QED
    BY <1>1, <2>1, <2>2
<1>2. CASE CRegistered(p)
  BY <1>2 DEF CRegistered
<1>3. CASE CExtra(p) \/ CBind(p) \/ CRetryGranted(p)
  BY <1>3 DEF CExtra, CBind, CRetryGranted, Report
<1>4. CASE CReady(p) \/ CRetryRequest(p) \/ CEstablished(p)
  BY <1>4 DEF CReady, CRetryRequest, CEstablished
<1>5. CASE CBindFail(p) \/ CRebindFail(p)
  BY <1>5 DEF CBindFail, CRebindFail, Abandon
<1>6. CASE CPunchFail(p) \/ CPunchAlone(p) \/ CRetryRejected(p) \/ CTimeout(p)
  <2>1. Fail(p)
    BY <1>6 DEF CPunchFail, CPunchAlone, CRetryRejected, CTimeout
  <2>. QED
    BY <2>1 DEF Fail, Abandon
<1>7. CASE \/ CRegisterFail(p) \/ CFirstPeerInfo(p) \/ CFirstFail(p) \/ CFinish(p)
           \/ CStart(p) \/ CPeerInfo(p) \/ CGo(p) \/ CWriteError(p) \/ CAck(p)
           \/ CAckError(p) \/ CNotice(p) \/ CTransportLost(p)
           \/ CFirstTimeout(p) \/ CAckTimeout(p)
  BY <1>7 DEF CRegisterFail, CFirstPeerInfo, CFirstFail, CFinish, CStart, CPeerInfo, CGo,
     CWriteError, CAck, CAckError, CAckTimeout, CAckMissing, CNotice, CTransportLost,
     CFirstTimeout
<1>. QED
  BY <1>1, <1>2, <1>3, <1>4, <1>5, <1>6, <1>7 DEF CStep, Client, Punched, ClientLimit

\* What a step of a client leaves in its channels.
LEMMA ClientChannels ==
  ASSUME Shape, NEW p \in Roles, CStep(p)
  PROVE  /\ \A T : Free(toClient[p], T) => Free(toClient'[p], T)
         /\ Free(toServer[p], Registration) /\ ~CRegister(p) =>
              Free(toServer'[p], Registration)
         /\ Free(toServer[p], Request) /\ ~CRetryRequest(p) => Free(toServer'[p], Request)
         /\ Free(toServer[p], Added) /\ ~(CExtra(p) \/ CBind(p) \/ CRetryGranted(p)) =>
              Free(toServer'[p], Added)
<1>1. TypeOK /\ toServer \in [Roles -> Seq(Msg)]
  BY DEF Shape, TypeOK, LinkTypeOK
<1>2. \A T : Free(toClient[p], T) => Free(toClient'[p], T)
  BY <1>1, ClientTakes DEF Free
<1>3. CASE toServer'[p] = toServer[p]
  BY <1>2, <1>3
<1>4. CASE toServer'[p] # toServer[p]
  <2>1. p \notin cut
    BY <1>4, ClientSends DEF Send, Written
  <2>2. PICK m : Send(p, m) /\ Sends(p, m)
    BY <1>4, ClientSends
  <2>3. PICK n \in Msg : Send(p, n)
    BY <1>4, ClientSays DEF ClientLines
  <2>4. m \in Msg
    BY <1>1, <2>1, <2>2, <2>3, SameLine
  <2>5. toServer'[p] = Append(toServer[p], m)
    BY <1>1, <2>1, <2>2 DEF Send, Written
  <2>6. \A T : Free(toServer'[p], T) <=> (Free(toServer[p], T) /\ m.type \notin T)
    BY <1>1, <2>4, <2>5, AppendChannel
  <2>. QED
    BY <1>2, <2>2, <2>6 DEF Sends
<1>. QED
  BY <1>3, <1>4

LEMMA ClientPcNext ==
  ASSUME Shape, NEW p \in Roles, CStep(p)
  PROVE  cPc'[p] # "register" /\ (lost'[p] = lost[p] \/ p \in cut)
<1>1. /\ cPc \in [Roles -> ClientPcs] /\ after \in [Roles -> {"head", "peerinfo"}]
      /\ lost \in [Roles -> BOOLEAN]
  BY DEF Shape, TypeOK, ClientTypeOK
<1>2. CASE CNotice(p)
  BY <1>1, <1>2 DEF CNotice
<1>3. CASE ~CNotice(p)
  <2>1. lost' = lost
    BY <1>3 DEF CStep, Client, Punched, ClientLimit,
       CRegister, CRegisterFail, CFirstFail, CExtra, CFinish, CBind, CBindFail,
       CStart, CReady, CRetryRequest, CAckError, CAckMissing, CTransportLost,
       CEstablished, CPunchFail, CFirstTimeout, CTimeout, CAckTimeout, CPunchAlone,
       CRegistered, CFirstPeerInfo, CPeerInfo, CGo, CRetryRejected, CRetryGranted,
       CRebindFail, CWriteError, CAck
  <2>2. \E pc \in ClientPcs \ {"register"} : cPc' = [cPc EXCEPT ![p] = pc]
    <3>1. ASSUME Fail(p) PROVE \E pc \in {"failed", "head"} : cPc' = [cPc EXCEPT ![p] = pc]
      BY <3>1 DEF Fail, Abandon, Goto
    <3>2. CASE CPunchFail(p) \/ CPunchAlone(p) \/ CRetryRejected(p) \/ CTimeout(p)
      BY <3>1, <3>2 DEF CPunchFail, CPunchAlone, CRetryRejected, CTimeout, ClientPcs
    <3>3. CASE CBindFail(p) \/ CRebindFail(p) \/ CEstablished(p) \/ CBind(p)
               \/ CRetryGranted(p) \/ CExtra(p)
      BY <3>3 DEF CBindFail, CRebindFail, CEstablished, CBind, CRetryGranted, CExtra, Abandon,
         Report, Goto, ClientPcs
    <3>4. CASE CRegister(p) \/ CRegistered(p) \/ CRegisterFail(p) \/ CFirstPeerInfo(p)
               \/ CFirstFail(p) \/ CFinish(p) \/ CStart(p) \/ CPeerInfo(p) \/ CReady(p)
               \/ CGo(p) \/ CRetryRequest(p) \/ CWriteError(p) \/ CTransportLost(p)
               \/ CFirstTimeout(p)
      BY <3>4 DEF CRegister, CRegistered, CRegisterFail, CFirstPeerInfo, CFirstFail, CFinish,
         CStart, CPeerInfo, CReady, CGo, CRetryRequest, CWriteError, CTransportLost,
         CFirstTimeout, WriteError, Leave, Goto, ClientPcs
    <3>5. CASE CAck(p) \/ CAckError(p) \/ CAckTimeout(p)
      BY <1>1, <3>5 DEF CAck, CAckError, CAckTimeout, CAckMissing, Goto, ClientPcs
    <3>. QED
      BY <1>3, <3>2, <3>3, <3>4, <3>5 DEF CStep, Client, Punched, ClientLimit
  <2>. QED
    BY <1>1, <2>1, <2>2
<1>. QED
  BY <1>2, <1>3

\* Who leaves a session, and what goes with it.
LEMMA ServerSession ==
  ASSUME Shape, SStep
  PROVE  /\ cut \subseteq cut' /\ member' \subseteq Roles
         /\ \A q \in member : q \in member' \/ q \in cut'
         /\ \A q \in serving : q \in serving' \/ q \in cut'
         /\ (member # Roles => granted = {} /\ timer = {}) =>
              (member' # Roles => granted' = {} /\ timer' = {})
<1>1. /\ cut \subseteq Roles /\ member \subseteq Roles
      /\ granted \subseteq Conns /\ timer \subseteq Conns
  BY DEF Shape, TypeOK, LinkTypeOK, ServerTypeOK
<1>2. CASE \E p \in Roles : SGone(p)
  BY <1>1, <1>2 DEF SGone
<1>3. CASE \E p \in Roles : SRegister(p)
  BY <1>1, <1>3 DEF SRegister
<1>4. CASE \E p \in Roles : SAddPorts(p)
  <2>1. PICK p \in Roles : SAddPorts(p)
    BY <1>4
  <2>2. UNCHANGED <<serving, member, timer, cut>>
    BY <2>1 DEF SAddPorts
  <2>3. granted' \subseteq granted
    BY <2>1 DEF SAddPorts, SNewPorts, SRetryPort
  <2>. QED
    BY <1>1, <2>2, <2>3
<1>5. CASE \E p \in Roles : SRetryRequest(p)
  BY <1>1, <1>5 DEF SRetryRequest
<1>6. CASE \E n \in Conns : SRetryTimer(n)
  <2>1. UNCHANGED <<serving, member, granted, cut>> /\ timer' \subseteq timer
    BY <1>6 DEF SRetryTimer
  <2>. QED
    BY <1>1, <2>1
<1>7. CASE \/ \E p \in Roles : SProbesComplete(p) \/ SReady(p)
                \/ SConnResult(p, "established") \/ SConnResult(p, "abandoned")
           \/ \E k \in Coordinators :
                Coordinator(k) \/ CoReadyTimeout(k) \/ CoResultTimeout(k)
           \/ \E n \in Conns : RetryCoordinator(n) \/ RetryReadyTimeout(n)
  <2>1. UNCHANGED <<serving, member, granted, timer, cut>>
    BY <1>7 DEF SProbesComplete, SReady, SConnResult, Coordinator, CoStart, CoSkip, CoPeerInfo,
       CoGo, SendGo, CoResult, CoSendFail, CoReadyTimeout, CoResultTimeout, RetryCoordinator,
       RetryStart, RetryGo, RetrySendFail, RetryReadyTimeout
  <2>. QED
    BY <1>1, <2>1
<1>. QED
  BY <1>2, <1>3, <1>4, <1>5, <1>6, <1>7 DEF SStep, Server, SHandler, ServerLimit

\* A step of a client, where no limit passes while something is under way.
Orderly(p) == Client(p) \/ Punched(p) \/ (Quiet /\ ~RelayFirst(p) /\ ClientLimit(p))

LEMMA Steps ==
  ASSUME TypeOK, [Next]_vars
  PROVE  /\ early' = 0 => early = 0
         /\ \/ \E p \in Roles : CStep(p) /\ UNCHANGED server /\ (early' = 0 => Orderly(p))
            \/ SStep /\ UNCHANGED client
            \/ \E p \in Roles : Drop(p)
            \/ UNCHANGED <<server, client, link>>
<1>1. early \in Nat
  BY DEF TypeOK
<1>2. CASE Over \/ UNCHANGED vars
  BY <1>2 DEF Over, vars
<1>3. CASE \E p \in Roles : ClientStep(p)
  BY <1>3 DEF ClientStep, CStep, Orderly
<1>4. CASE \E p \in Roles : Drop(p)
  BY <1>4 DEF Drop
<1>5. CASE ServerStep
  BY <1>5 DEF ServerStep, SStep
<1>6. CASE LimitPasses
  <2>1. CASE Quiet /\ UNCHANGED <<drops, early>>
             /\ \/ ServerLimit /\ UNCHANGED client
                \/ \E p \in Roles : ~RelayFirst(p) /\ ClientLimit(p) /\ UNCHANGED server
    BY <2>1 DEF SStep, CStep, Orderly
  <2>2. CASE early' = early + 1
             /\ \/ ServerLimit /\ UNCHANGED client
                \/ \E p \in Roles : ClientLimit(p) /\ UNCHANGED server
    <3>1. early' # 0
      BY <1>1, <2>2
    <3>. QED
      BY <2>2, <3>1 DEF SStep, CStep
  <2>. QED
    BY <1>6, <2>1, <2>2 DEF LimitPasses
<1>. QED
  BY <1>2, <1>3, <1>4, <1>5, <1>6 DEF Next

LEMMA BeginInit == Init => Begin
<1>. SUFFICES ASSUME Init PROVE Begin
  OBVIOUS
<1>1. PICK bind \in [Roles -> 1 .. NumConns] :
        sockets = [p \in Roles |-> [i \in 1 .. bind[p] |-> 0]]
  BY DEF Init, ClientInit
<1>2. ASSUME NEW q \in Roles PROVE NotHeard(q) /\ NoTasks /\ Unheard(q) /\ ~lost[q]
  <2>1. \A i \in DOMAIN sockets[q] : sockets[q][i] = 0
    BY <1>1
  <2>. QED
    BY <2>1 DEF Init, LinkInit, ServerInit, ClientInit, NotHeard, NoTasks, Unheard
<1>3. serving = Roles /\ granted = {} /\ timer = {}
  BY DEF Init, ServerInit
<1>. QED
  BY <1>2, <1>3 DEF Begin, BeginOf

LEMMA BeginStep ==
  ASSUME Shape, Begin, [Next]_vars
  PROVE  Begin'
<1>1. /\ cPc \in [Roles -> ClientPcs] /\ toServer \in [Roles -> Seq(Msg)]
      /\ cut \subseteq Roles /\ TypeOK /\ lost \in [Roles -> BOOLEAN]
  BY DEF Shape, TypeOK, ClientTypeOK, LinkTypeOK
<1>2. \A q \in Roles : BeginOf(q)
  BY DEF Begin
<1>3. ASSUME NEW p \in Roles, CStep(p), UNCHANGED server PROVE Begin'
  <2>1. cut' = cut \/ cut' = cut \cup {p}
    BY <1>3, ClientCuts
  <2>2. (NoTasks' <=> NoTasks) /\ (member' # Roles => granted' = {} /\ timer' = {})
    BY <1>3 DEF NoTasks, Begin
  <2>3. ASSUME NEW q \in Roles, q # p PROVE BeginOf(q)'
    <3>1. /\ cPc'[q] = cPc[q] /\ sockets'[q] = sockets[q] /\ saved'[q] = saved[q]
          /\ lost'[q] = lost[q] /\ toServer'[q] = toServer[q] /\ toClient'[q] = toClient[q]
      BY <1>3, <2>3, ClientFrame DEF SameClient
    <3>2. Unheard(q)' <=> Unheard(q)
      BY <3>1 DEF Unheard
    <3>3. (q \in cut)' <=> q \in cut
      BY <2>1, <2>3
    <3>4. NotHeard(q) => NotHeard(q)'
      BY <1>3, <3>1, <3>3 DEF NotHeard
    <3>. QED
      BY <1>2, <1>3, <2>2, <3>1, <3>2, <3>3, <3>4 DEF BeginOf
  <2>4. CASE Unheard(p)
    <3>1. NotHeard(p) /\ NoTasks
      BY <1>2, <2>4 DEF BeginOf
    <3>2. /\ toClient'[p] = <<>> /\ saved'[p] = saved[p] /\ sockets' = sockets /\ cut' = cut
          /\ cPc'[p] = "registered" \/ (cPc'[p] = "err" /\ p \in cut)
          /\ toServer'[p] = <<OfPorts("register", Named(sockets[p]))>>
      BY <1>3, <2>4, <3>1, NotHeardClient
    <3>3. NotHeard(p)'
      BY <1>3, <3>1, <3>2 DEF NotHeard
    <3>4. Unheard(p)'
      <4>. DEFINE m == OfPorts("register", Named(sockets[p]))
      <4>1. m \in Msg /\ m.type \in Registration
        BY RegisterLine DEF Registration
      <4>. HIDE DEF m
      <4>2. ~Free(<<m>>, Registration)
        BY <4>1, OneLine
      <4>. QED
        BY <3>2, <4>2 DEF Unheard, m
    <3>5. p \notin serving' \/ lost'[p] => p \in cut'
      BY <1>2, <1>3, <3>2, ClientPcNext DEF BeginOf
    <3>6. BeginOf(p)'
      BY <2>2, <3>1, <3>3, <3>4, <3>5 DEF BeginOf
    <3>. QED
      BY <2>2, <2>3, <3>6 DEF Begin
  <2>5. CASE ~Unheard(p)
    <3>1. cPc'[p] # "register" /\ ~CRegister(p) /\ (lost'[p] = lost[p] \/ p \in cut)
      BY <1>3, <2>5, ClientPcNext DEF Unheard, CRegister
    <3>2. Free(toServer'[p], Registration)
      BY <1>3, <2>5, <3>1, ClientChannels DEF Unheard
    <3>3. ~Unheard(p)'
      BY <3>1, <3>2 DEF Unheard
    <3>4. BeginOf(p)'
      BY <1>2, <1>3, <2>1, <2>5, <3>1, <3>3 DEF BeginOf
    <3>. QED
      BY <2>2, <2>3, <3>4 DEF Begin
  <2>. QED
    BY <2>4, <2>5
<1>4. ASSUME SStep, UNCHANGED client PROVE Begin'
  <2>1. ASSUME NEW q \in Roles PROVE BeginOf(q)'
    <3>1. /\ cut \subseteq cut' /\ (q \in member => q \in member' \/ q \in cut')
          /\ (q \in serving => q \in serving' \/ q \in cut')
      BY <1>4, ServerSession
    <3>2. q \notin serving' \/ lost'[q] => q \in cut'
      BY <1>2, <1>4, <3>1 DEF BeginOf
    <3>3. CASE Unheard(q)
      <4>1. NotHeard(q) /\ q \notin member
        BY <1>2, <3>3 DEF BeginOf, NotHeard
      <4>2. NoTasks'
        BY <1>4, <3>3, NotHeardServer
      <4>3. CASE toServer'[q] = <<>> /\ cPc[q] # "register" /\ (q \in member' \/ q \in cut)
        <5>1. ~Unheard(q)'
          BY <1>4, <4>3, NoneFree DEF Unheard
        <5>. QED
          BY <3>1, <3>2, <4>3, <5>1 DEF BeginOf
      <4>4. CASE /\ q \notin member' /\ (q \in cut' => q \in cut)
                 /\ q \in serving' /\ asked'[q] = {}
                 /\ toClient'[q] = <<>> /\ toServer'[q] = toServer[q]
        <5>1. NotHeard(q)' /\ Unheard(q)'
          BY <1>4, <3>1, <3>3, <4>1, <4>4 DEF NotHeard, Unheard
        <5>. QED
          BY <3>2, <4>2, <5>1 DEF BeginOf
      <4>. QED
        BY <1>4, <3>3, <4>3, <4>4, NotHeardServer
    <3>4. CASE ~Unheard(q)
      <4>1. Lines(toServer'[q]) \subseteq Lines(toServer[q])
        BY <1>1, <1>4, ServerTakes
      <4>2. ~Unheard(q)'
        BY <1>4, <3>4, <4>1 DEF Unheard, Free
      <4>3. q \in member \cup cut
        BY <1>2, <3>4 DEF BeginOf
      <4>. QED
        BY <3>1, <3>2, <4>2, <4>3 DEF BeginOf
    <3>. QED
      BY <3>3, <3>4
  <2>2. member' # Roles => granted' = {} /\ timer' = {}
    BY <1>4, ServerSession DEF Begin
  <2>. QED
    BY <2>1, <2>2 DEF Begin
<1>5. ASSUME NEW p \in Roles, Drop(p) PROVE Begin'
  <2>1. /\ UNCHANGED <<server, client, toServer, toClient>>
        /\ cut' = cut \cup {p} /\ cPc[p] # "register"
    BY <1>5 DEF Drop
  <2>2. ASSUME NEW q \in Roles PROVE BeginOf(q)'
    <3>1. (NotHeard(q) => NotHeard(q)') /\ (Unheard(q)' <=> Unheard(q)) /\ (NoTasks' <=> NoTasks)
      BY <2>1 DEF NotHeard, Unheard, NoTasks
    <3>. QED
      BY <1>2, <2>1, <3>1 DEF BeginOf
  <2>. QED
    BY <2>1, <2>2 DEF Begin
<1>6. CASE UNCHANGED <<server, client, link>>
  BY <1>6 DEF Begin, BeginOf, NotHeard, Unheard, NoTasks
<1>. QED
  BY <1>1, <1>3, <1>4, <1>5, <1>6, Steps

(***************************************************************************)
(* Nothing outstanding.                                                    *)
(***************************************************************************)

LEMMA FreeSub ==
  ASSUME NEW s
  PROVE  Free(s, Replies) => Free(s, Grant)
BY DEF Free, Replies, Grant

LEMMA SettledWhen ==
  ASSUME NEW p \in Roles, InStep(p),
         Free(toServer[p], Added), Free(toClient[p], Replies),
         member = Roles => asked[p] = {} /\ Free(toServer[p], Request)
  PROVE  Settled(p)
<1>1. Free(toServer[p], Registration) /\ bound[p] = Named(sockets[p])
  BY DEF InStep, Answered, OnRecord
<1>2. Open(p) = {}
  BY FreeSub DEF InStep, Awaited, Rebinding
<1>. QED
  BY <1>1, <1>2 DEF Settled

LEMMA SettledThen ==
  ASSUME NEW p \in Roles, InStep(p), cPc[p] # "retry", cPc[p] # "ack"
  PROVE  Settled(p) /\ Free(toClient[p], Ack)
<1>1. Free(toServer[p], Added) /\ Free(toClient[p], Ack)
  BY DEF InStep, Answered
<1>2. /\ Free(toClient[p], Replies)
      /\ member = Roles => asked[p] = {} /\ Free(toServer[p], Request)
  BY DEF InStep, Alone, Retrying
<1>. QED
  BY <1>1, <1>2, SettledWhen

LEMMA SettledIn ==
  ASSUME NEW p \in Roles, Settled(p)', Alone(p)', Sole(toClient'[p], Ack),
         cPc'[p] # "ack" => Free(toClient'[p], Ack)
  PROVE  InStep(p)'
<1>1. /\ Free(toServer'[p], Registration) /\ Free(toServer'[p], Added)
      /\ Free(toClient'[p], Replies) /\ Free(toClient'[p], Grant)
      /\ member' = Roles => asked'[p] = {} /\ Free(toServer'[p], Request)
      /\ Open(p)' = {} /\ bound'[p] = Named(sockets'[p])
  BY FreeSub DEF Settled
<1>2. ~Rebinding(p)'
  BY <1>1 DEF Rebinding
<1>3. Awaited(p)' /\ OnRecord(p)'
  BY <1>1, <1>2 DEF Awaited, OnRecord
<1>4. Answered(p)'
  <2>1. \A x \in Lines(toServer'[p]) : x.type \notin Added
    BY <1>1 DEF Free
  <2>. QED
    BY <1>1, <2>1, FreeSole DEF Answered
<1>5. (member = Roles => Retrying(p))'
  <2>1. SUFFICES ASSUME member' = Roles PROVE Retrying(p)'
    OBVIOUS
  <2>2. /\ \A x \in Lines(toServer'[p]) : x.type \notin Request
        /\ \A x \in Lines(toClient'[p]) : x.type \notin Replies
    BY <1>1, <2>1 DEF Free
  <2>. QED
    BY <1>1, <2>1, <2>2, FreeSole DEF Retrying
<1>. QED
  BY <1>3, <1>4, <1>5 DEF InStep

\* What holds of a client whose session stands.
LEMMA RegularFacts ==
  ASSUME Shape, Begin, NEW p \in Roles, Regular(p)
  PROVE  /\ p \in serving /\ ~lost[p] /\ ~Unheard(p) /\ cPc[p] # "register"
         /\ p \in member /\ p \notin cut
<1>1. p \in member /\ p \notin cut /\ BeginOf(p) /\ lost[p] \in BOOLEAN
  BY DEF Regular, Begin, Shape, TypeOK, ClientTypeOK
<1>2. ~Unheard(p)
  BY <1>1 DEF BeginOf, NotHeard
<1>. QED
  BY <1>1, <1>2 DEF BeginOf, Unheard

\* No limit passes before both are heard.
LEMMA NotQuiet ==
  ASSUME Shape, Begin, NEW q \in Roles, Unheard(q)
  PROVE  ~Quiet
<1>1. NotHeard(q)
  BY DEF Begin, BeginOf
<1>2. CASE cPc[q] = "register"
  <2>1. ~ClientWaits(q)
    BY <1>2 DEF ClientWaits
  <2>. QED
    BY <2>1 DEF Quiet
<1>3. CASE cPc[q] # "register"
  <2>1. toServer[q] # <<>>
    BY <1>3, NoneFree DEF Unheard
  <2>2. q \in serving
    BY <1>1 DEF NotHeard
  <2>. QED
    BY <2>1, <2>2 DEF Quiet, ServerWaits
<1>. QED
  BY <1>2, <1>3

\* The steps open to a client whose connection stands.
LEMMA OpenSteps ==
  ASSUME Shape, Begin, NEW p \in Roles, Regular(p), Regular(p)', Orderly(p)
  PROVE  \/ CRegistered(p) \/ CFirstPeerInfo(p) \/ CStart(p) \/ CPeerInfo(p) \/ CReady(p)
            \/ CGo(p) \/ CEstablished(p) \/ CPunchFail(p) \/ CPunchAlone(p)
         \/ CExtra(p) \/ CBind(p) \/ (CBindFail(p) /\ UNCHANGED sockets)
         \/ CRetryRequest(p) \/ CRetryRejected(p) \/ CRetryGranted(p) \/ CAck(p)
         \/ Quiet /\ ~RelayFirst(p) /\ (CTimeout(p) \/ CAckTimeout(p))
<1>1. p \notin cut /\ ~lost[p] /\ cPc[p] # "register"
  BY RegularFacts
<1>2. p \notin cut' /\ p \notin unfilled'
  BY DEF Regular
<1>3. /\ ~CRegister(p) /\ ~CRegisterFail(p) /\ ~CFirstFail(p) /\ ~CFinish(p) /\ ~CWriteError(p)
      /\ ~CAckError(p) /\ ~CNotice(p) /\ ~CTransportLost(p) /\ ~CFirstTimeout(p)
      /\ ~CRebindFail(p)
  BY <1>1, <1>2 DEF CRegister, CRegisterFail, CFirstFail, CFinish, CWriteError, WriteError,
     CAckError, CNotice, CTransportLost, CFirstTimeout, CRebindFail, Leave
<1>4. CBindFail(p) => UNCHANGED sockets
  BY <1>1 DEF CBindFail
<1>. QED
  BY <1>3, <1>4 DEF Orderly, Client, Punched, ClientLimit

\* A client alone in its session stays where it was not led.
LEMMA AloneClient ==
  ASSUME Shape, Begin, NEW p \in Roles, Regular(p), Regular(p)', InStep(p),
         CStep(p), Orderly(p), UNCHANGED server
  PROVE  Alone(p)'
<1>. DEFINE q == Other(p)
<1>1. q \in Roles /\ q # p
  BY ConstantFacts
<1>2. cPc'[q] = cPc[q] /\ toServer'[q] = toServer[q]
  BY <1>1, ClientFrame DEF SameClient
<1>. HIDE DEF q
<1>3. Alone(p) /\ (Unheard(q)' => Unheard(q))
  BY <1>2 DEF InStep, Unheard
<1>4. \A T : Free(toClient[p], T) => Free(toClient'[p], T)
  BY ClientChannels
<1>5. (member # Roles => Free(toClient[p], Replies))'
  BY <1>3, <1>4 DEF Alone
<1>6. ASSUME Unheard(q)
      PROVE  /\ cPc'[p] \in Early /\ (cPc'[p] = "ack" => after'[p] = "head")
             /\ saved'[p] = NoPort /\ asked'[p] = {}
             /\ Free(toClient'[p], Info) /\ Free(toServer'[p], Request)
  <2>1. /\ cPc[p] \in Early /\ (cPc[p] = "ack" => after[p] = "head")
        /\ saved[p] = NoPort /\ asked[p] = {}
        /\ Free(toClient[p], Info) /\ Free(toServer[p], Request)
    BY <1>3, <1>6 DEF Alone, q
  <2>2. /\ cPc \in [Roles -> ClientPcs] /\ after \in [Roles -> {"head", "peerinfo"}]
        /\ saved \in [Roles -> Ports \cup {NoPort}] /\ LinkTypeOK
    BY DEF Shape, TypeOK, ClientTypeOK
  <2>3. ~Quiet
    BY <1>1, <1>6, NotQuiet
  <2>4. ~CFirstPeerInfo(p) /\ ~CPeerInfo(p)
    <3>1. ~Receive(p, "peer_info")
      BY <2>1, <2>2, ReceivedLine DEF Free, Info
    <3>. QED
      BY <3>1 DEF CFirstPeerInfo, CPeerInfo
  <2>5. /\ ~CReady(p) /\ ~CGo(p) /\ ~CEstablished(p) /\ ~CPunchFail(p) /\ ~CPunchAlone(p)
        /\ ~CRetryRequest(p) /\ ~CRetryRejected(p) /\ ~CRetryGranted(p)
    BY <2>1 DEF Early, CReady, CGo, CEstablished, CPunchFail, CPunchAlone, CRetryRequest,
       CRetryRejected, CRetryGranted, Granted
  <2>6. CRegistered(p) \/ CStart(p) \/ CExtra(p) \/ CBind(p) \/ CBindFail(p) \/ CAck(p)
    BY <2>3, <2>4, <2>5, OpenSteps
  <2>7. Free(toClient'[p], Info) /\ Free(toServer'[p], Request)
    BY <1>4, <2>1, <2>5, ClientChannels
  <2>8. saved'[p] = NoPort
    BY <2>1, <2>6 DEF CRegistered, CStart, CExtra, CBind, CBindFail, CAck
  <2>9. cPc'[p] \in Early /\ (cPc'[p] = "ack" => after'[p] = "head")
    <3>1. CASE CRegistered(p) \/ CBindFail(p)
      BY <2>2, <3>1 DEF CRegistered, CBindFail, Abandon, Goto, Early
    <3>2. CASE CStart(p)
      BY <2>1, <2>2, <3>2 DEF CStart, Goto, Early
    <3>3. CASE CExtra(p) \/ CBind(p)
      BY <2>2, <3>3 DEF CExtra, CBind, Report, Goto, Early
    <3>4. CASE CAck(p)
      <4>1. cPc[p] = "ack" /\ after[p] = "head" /\ after' = after
        BY <2>1, <3>4 DEF CAck
      <4>2. cPc'[p] \in {"head", "ack"}
        BY <2>2, <3>4, <4>1 DEF CAck
      <4>. QED
        BY <4>1, <4>2 DEF Early
    <3>. QED
      BY <2>6, <3>1, <3>2, <3>3, <3>4
  <2>. QED
    BY <2>1, <2>7, <2>8, <2>9
<1>. QED
  BY <1>3, <1>5, <1>6 DEF Alone, q

\* A step with nothing outstanding that neither reports nor asks.
LEMMA QuietStep ==
  ASSUME Shape, NEW p \in Roles, CStep(p), UNCHANGED server, Settled(p),
         ~CRegister(p), ~CRetryRequest(p), ~(CExtra(p) \/ CBind(p) \/ CRetryGranted(p)),
         sockets'[p] = sockets[p]
  PROVE  Settled(p)'
<1>1. /\ Free(toClient'[p], Replies)
      /\ Free(toServer'[p], Registration) /\ Free(toServer'[p], Added)
      /\ Free(toServer[p], Request) => Free(toServer'[p], Request)
  BY ClientChannels DEF Settled
<1>2. Open(p)' = Open(p)
  BY DEF Open
<1>. QED
  BY <1>1, <1>2 DEF Settled

(***************************************************************************)
(* The steps of a client.                                                  *)
(***************************************************************************)

\* The line of a step that writes one for certain.
LEMMA WrittenLine ==
  ASSUME Shape, NEW p \in Roles, p \notin cut, CStep(p), NEW m, Send(p, m)
  PROVE  /\ toServer'[p] = Append(toServer[p], m)
         /\ toServer'[p] # toServer[p] => m \in Msg
<1>1. TypeOK /\ toServer \in [Roles -> Seq(Msg)]
  BY DEF Shape, TypeOK, LinkTypeOK
<1>2. toServer'[p] = Append(toServer[p], m)
  BY <1>1 DEF Send, Written
<1>3. ASSUME toServer'[p] # toServer[p] PROVE m \in Msg
  <2>1. PICK n \in Msg : Send(p, n)
    BY <1>3, ClientSays DEF ClientLines
  <2>. QED
    BY <1>1, <2>1, SameLine
<1>. QED
  BY <1>2, <1>3

LEMMA AppendDiffers ==
  ASSUME NEW s \in Seq(Msg), NEW m
  PROVE  Append(s, m) # s
<1>. DEFINE S == Msg \cup {m}
<1>1. s \in Seq(S) /\ m \in S
  OBVIOUS
<1>. HIDE DEF S
<1>2. Len(s) \in Nat /\ Len(Append(s, m)) = Len(s) + 1
  BY <1>1, AppendProperties, LenProperties
<1>. QED
  BY <1>2

LEMMA NewLine ==
  ASSUME Shape, NEW p \in Roles, p \notin cut, CStep(p), NEW m, Send(p, m)
  PROVE  /\ m \in Msg /\ toServer[p] \in Seq(Msg)
         /\ toServer'[p] = Append(toServer[p], m)
         /\ Lines(toServer'[p]) = Lines(toServer[p]) \cup {m}
         /\ \A T : /\ Free(toServer'[p], T) <=> (Free(toServer[p], T) /\ m.type \notin T)
                   /\ Free(toServer[p], T) => Sole(toServer'[p], T)
<1>1. toServer[p] \in Seq(Msg)
  BY DEF Shape, TypeOK, LinkTypeOK
<1>2. toServer'[p] = Append(toServer[p], m) /\ m \in Msg
  BY <1>1, WrittenLine, AppendDiffers
<1>. QED
  BY <1>1, <1>2, AppendChannel, FreeSole

\* A report of ports the client has added.
LEMMA ReportStep ==
  ASSUME Shape, NEW p \in Roles, p \notin cut, CStep(p), UNCHANGED server,
         Settled(p), Free(toClient[p], Ack), Alone(p)',
         NEW ports, Report(p, ports, "head"), toClient' = toClient,
         Named(sockets'[p]) = Named(sockets[p]) \o ports
  PROVE  InStep(p)'
<1>. DEFINE m == OfPorts("add_ports", ports)
<1>1. Send(p, m) /\ m.type = "add_ports" /\ m.ports = ports
  BY DEF Report, OfPorts
<1>. HIDE DEF m
<1>2. /\ Lines(toServer'[p]) = Lines(toServer[p]) \cup {m}
      /\ \A T : /\ Free(toServer'[p], T) <=> (Free(toServer[p], T) /\ m.type \notin T)
                /\ Free(toServer[p], T) => Sole(toServer'[p], T)
  BY <1>1, NewLine
<1>3. cPc'[p] = "ack" /\ after'[p] = "head" /\ reported'[p] = ports
  BY DEF Report, Goto, Shape, TypeOK, ClientTypeOK
<1>4. /\ Free(toServer[p], Registration) /\ Free(toServer[p], Added)
      /\ Free(toClient'[p], Replies) /\ Free(toClient'[p], Grant) /\ Free(toClient'[p], Ack)
      /\ member = Roles => asked[p] = {} /\ Free(toServer[p], Request)
      /\ Open(p)' = {} /\ bound'[p] = Named(sockets[p])
  BY FreeSub DEF Settled, Open
<1>5. /\ Free(toServer'[p], Registration) /\ ~Free(toServer'[p], Added)
      /\ Sole(toServer'[p], Added)
      /\ member = Roles => Free(toServer'[p], Request)
  BY <1>1, <1>2, <1>4 DEF Registration, Added, Request
<1>6. ~Rebinding(p)'
  BY <1>3 DEF Rebinding
<1>7. Awaited(p)' /\ OnRecord(p)'
  BY <1>3, <1>4, <1>5, <1>6 DEF Awaited, OnRecord
<1>8. Answered(p)'
  <2>1. \A x \in Lines(toServer'[p]) : x.type \in Added => x.ports = reported'[p]
    BY <1>1, <1>2, <1>3, <1>4 DEF Free
  <2>. QED
    BY <1>3, <1>4, <1>5, <2>1, FreeSole DEF Answered
<1>9. (member = Roles => Retrying(p))'
  <2>1. SUFFICES ASSUME member = Roles PROVE Retrying(p)'
    OBVIOUS
  <2>2. /\ \A x \in Lines(toServer'[p]) : x.type \notin Request
        /\ \A x \in Lines(toClient'[p]) : x.type \notin Replies
    BY <1>4, <1>5, <2>1 DEF Free
  <2>. QED
    BY <1>3, <1>4, <1>5, <2>1, <2>2, FreeSole DEF Retrying
<1>. QED
  BY <1>7, <1>8, <1>9 DEF InStep

LEMMA ReportsInStep ==
  ASSUME Shape, Begin, NEW p \in Roles, Regular(p), CStep(p), UNCHANGED server,
         InStep(p), Alone(p)', CExtra(p) \/ CBind(p)
  PROVE  InStep(p)'
<1>1. cPc[p] \in {"extra", "head"} /\ toClient' = toClient
  BY DEF CExtra, CBind
<1>2. Settled(p) /\ Free(toClient[p], Ack)
  BY <1>1, SettledThen
<1>3. p \notin cut
  BY DEF Regular
<1>4. /\ sockets \in [Roles -> Seq(Nat)] /\ sockets[p] \in Seq(Nat) /\ Len(sockets[p]) \in Nat
      /\ cPc \in [Roles -> ClientPcs]
  BY LenProperties DEF Shape, TypeOK, ClientTypeOK
<1>5. CASE CBind(p)
  <2>. DEFINE t == <<0>>
              ports == <<<<Len(sockets[p]), 0>>>>
  <2>1. t \in Seq(Nat) /\ DOMAIN t = 1 .. 1 /\ t[1] = 0
    OBVIOUS
  <2>2. ports = [i \in 1 .. 1 |-> <<Len(sockets[p]) + i - 1, t[i]>>]
    <3>1. ports = [i \in 1 .. 1 |-> <<Len(sockets[p]), 0>>]
      OBVIOUS
    <3>2. \A i \in 1 .. 1 : <<Len(sockets[p]), 0>> = <<Len(sockets[p]) + i - 1, t[i]>>
      BY <1>4
    <3>. QED
      BY <3>1, <3>2
  <2>3. sockets'[p] = sockets[p] \o t
    <3>1. sockets'[p] = Append(sockets[p], 0)
      BY <1>4, <1>5 DEF CBind
    <3>. QED
      BY <1>4, <3>1, AppendIsConcat
  <2>4. Report(p, ports, "head")
    BY <1>5 DEF CBind
  <2>. HIDE DEF t, ports
  <2>5. Named(sockets'[p]) = Named(sockets[p]) \o ports
    BY <1>4, <2>1, <2>2, <2>3, NamedConcat
  <2>. QED
    BY <1>1, <1>2, <1>3, <2>4, <2>5, ReportStep
<1>6. CASE CExtra(p)
  <2>1. PICK k \in 0 .. NumConns - Len(sockets[p]) :
          /\ sockets' = [sockets EXCEPT ![p] = sockets[p] \o [i \in 1 .. k |-> 0]]
          /\ IF k = 0 THEN Goto(p, "head") /\ UNCHANGED <<melden, toServer>>
             ELSE Report(p, [i \in 1 .. k |-> <<Len(sockets[p]) + i - 1, 0>>], "head")
    BY <1>6 DEF CExtra
  <2>2. k \in Nat /\ NumConns \in Nat
    BY <1>4, ConstantFacts
  <2>. DEFINE t == [i \in 1 .. k |-> 0]
              ports == [i \in 1 .. k |-> <<Len(sockets[p]) + i - 1, 0>>]
  <2>3. t \in Seq(Nat) /\ DOMAIN t = 1 .. k /\ \A i \in 1 .. k : t[i] = 0
    BY <2>2, OfLength
  <2>4. sockets'[p] = sockets[p] \o t
    BY <1>4, <2>1
  <2>5. ports = [i \in DOMAIN t |-> <<Len(sockets[p]) + i - 1, t[i]>>]
    BY <2>3
  <2>6. k # 0 => Report(p, ports, "head")
    BY <2>1
  <2>7. k = 0 => cPc'[p] = "head" /\ toServer' = toServer
    BY <1>4, <2>1 DEF Goto
  <2>8. k = 0 => t = <<>>
    BY <2>3
  <2>. HIDE DEF t, ports
  <2>9. CASE k # 0
    <3>1. Named(sockets'[p]) = Named(sockets[p]) \o ports
      BY <1>4, <2>3, <2>4, <2>5, NamedConcat
    <3>. QED
      BY <1>1, <1>2, <1>3, <2>6, <2>9, <3>1, ReportStep
  <2>10. CASE k = 0
    <3>1. sockets'[p] = sockets[p]
      BY <1>4, <2>4, <2>8, <2>10, ConcatEmptySeq
    <3>2. Open(p)' = Open(p)
      BY DEF Open
    <3>3. Settled(p)'
      BY <1>1, <1>2, <2>7, <2>10, <3>1, <3>2 DEF Settled
    <3>. QED
      BY <1>1, <1>2, <3>3, FreeSole, SettledIn
  <2>. QED
    BY <2>9, <2>10
<1>. QED
  BY <1>5, <1>6

\* A retry is asked for.
LEMMA RequestInStep ==
  ASSUME Shape, NEW p \in Roles, Regular(p), CStep(p), UNCHANGED server,
         InStep(p), Alone(p)', CRetryRequest(p)
  PROVE  InStep(p)'
<1>1. cPc[p] = "failed" /\ Send(p, OfConn("retry_request", conn[p]))
      /\ cPc'[p] = "retry" /\ toClient' = toClient /\ sockets' = sockets /\ conn' = conn
  BY DEF CRetryRequest, Goto, Shape, TypeOK, ClientTypeOK
<1>2. Settled(p) /\ Free(toClient[p], Ack)
  BY <1>1, SettledThen
<1>. DEFINE m == OfConn("retry_request", conn[p])
<1>3. m.type = "retry_request" /\ m.conn = conn[p] /\ Send(p, m)
  BY <1>1 DEF OfConn
<1>. HIDE DEF m
<1>4. /\ Lines(toServer'[p]) = Lines(toServer[p]) \cup {m}
      /\ \A T : /\ Free(toServer'[p], T) <=> (Free(toServer[p], T) /\ m.type \notin T)
                /\ Free(toServer[p], T) => Sole(toServer'[p], T)
  BY <1>3, NewLine DEF Regular
<1>5. /\ Free(toServer'[p], Registration) /\ Free(toServer'[p], Added)
      /\ Free(toClient'[p], Replies) /\ Free(toClient'[p], Grant) /\ Free(toClient'[p], Ack)
      /\ member = Roles => asked[p] = {} /\ Sole(toServer'[p], Request)
      /\ Open(p)' = {} /\ bound'[p] = Named(sockets'[p])
  BY <1>1, <1>2, <1>3, <1>4, FreeSub DEF Settled, Open, Registration, Added
<1>6. ~Rebinding(p)'
  BY <1>1 DEF Rebinding
<1>7. Awaited(p)' /\ OnRecord(p)'
  BY <1>5, <1>6 DEF Awaited, OnRecord
<1>8. Answered(p)'
  <2>1. \A x \in Lines(toServer'[p]) : x.type \notin Added
    BY <1>5 DEF Free
  <2>. QED
    BY <1>5, <2>1, FreeSole DEF Answered
<1>9. (member = Roles => Retrying(p))'
  <2>1. SUFFICES ASSUME member = Roles PROVE Retrying(p)'
    OBVIOUS
  <2>2. /\ \A x \in Lines(toServer'[p]) : x.type \in Request => x.conn = conn'[p]
        /\ \A x \in Lines(toClient'[p]) : x.type \notin Replies
    BY <1>1, <1>2, <1>3, <1>4, <1>5, <2>1 DEF Free, Settled
  <2>. QED
    BY <1>1, <1>5, <2>1, <2>2, FreeSole DEF Retrying
<1>. QED
  BY <1>7, <1>8, <1>9 DEF InStep

\* A reader that takes the only line of its kinds leaves none.
LEMMA ReceivedChannel ==
  ASSUME LinkTypeOK, NEW p \in Roles, NEW t, Receive(p, t), NEW T, t \in T,
         Sole(toClient[p], T)
  PROVE  /\ Free(toClient'[p], T) /\ ~Free(toClient[p], T)
         /\ \A x \in Lines(toClient[p]) : x.type \in T => x.type = t
<1>. DEFINE s == toClient[p]
            S == Places(p, t, conn[p])
            i == CHOOSE j \in S : \A k \in S : j <= k
<1>1. toClient \in [Roles -> Seq(Msg)] /\ s \in Seq(Msg)
  BY DEF LinkTypeOK
<1>2. S \in SUBSET Nat /\ S # {}
  <2>1. DOMAIN s \subseteq Nat
    BY <1>1, LenProperties
  <2>. QED
    BY <2>1 DEF Places, Receive
<1>3. i \in DOMAIN s /\ s[i].type = t
  BY <1>2, FirstOf DEF Places
<1>4. toClient'[p] = Without(s, i)
  BY <1>1 DEF Receive, Without
<1>. HIDE DEF i, S, s
<1>5. Free(toClient'[p], T)
  BY <1>1, <1>3, <1>4, WithoutChannel DEF s
<1>6. \A j \in DOMAIN s : s[j].type \in T => j = i
  BY <1>3 DEF Sole, s
<1>7. ~Free(s, T) /\ \A x \in Lines(s) : x.type \in T => x.type = t
  BY <1>3, <1>6 DEF Free, Lines
<1>. QED
  BY <1>5, <1>7 DEF s

\* An answer to a retry comes to a client with nothing else outstanding.
LEMMA AnswerFacts ==
  ASSUME Shape, NEW p \in Roles, InStep(p), cPc[p] = "retry",
         NEW t \in Replies, Receive(p, t)
  PROVE  /\ member = Roles
         /\ Free(toClient'[p], Replies)
         /\ (t \in Grant) <=> ~Free(toClient[p], Grant)
         /\ asked[p] = {} /\ Free(toServer[p], Request)
         /\ Free(toServer[p], Registration) /\ Free(toServer[p], Added)
         /\ Free(toClient[p], Ack)
         /\ bound[p] = Named(sockets[p])
         /\ Open(p) = IF t \in Grant THEN {conn[p]} ELSE {}
<1>1. LinkTypeOK
  BY DEF Shape, TypeOK
<1>2. First(p, t) \in Lines(toClient[p]) /\ First(p, t).type = t
  BY <1>1, ReceivedLine
<1>3. ~Free(toClient[p], Replies)
  BY <1>2 DEF Free
<1>4. member = Roles /\ Retrying(p)
  BY <1>3 DEF InStep, Alone
<1>5. Sole(toClient[p], Replies)
  BY <1>4 DEF Retrying
<1>6. Free(toClient'[p], Replies) /\ \A x \in Lines(toClient[p]) : x.type \in Replies => x.type = t
  BY <1>1, <1>5, ReceivedChannel
<1>7. (t \in Grant) <=> ~Free(toClient[p], Grant)
  BY <1>2, <1>6 DEF Free, Grant, Replies
<1>8. asked[p] = {} /\ Free(toServer[p], Request)
  BY <1>3, <1>4 DEF Retrying
<1>9. /\ Free(toServer[p], Registration) /\ Free(toServer[p], Added)
      /\ Free(toClient[p], Ack) /\ bound[p] = Named(sockets[p])
  BY DEF InStep, Answered, OnRecord
<1>10. Open(p) \subseteq {conn[p]} /\ (conn[p] \in Open(p) <=> t \in Grant)
  BY <1>7 DEF InStep, Awaited, Rebinding
<1>. QED
  BY <1>4, <1>6, <1>7, <1>8, <1>9, <1>10

LEMMA GrantedInStep ==
  ASSUME Shape, NEW p \in Roles, Regular(p), CStep(p), UNCHANGED server,
         InStep(p), Alone(p)', CRetryGranted(p)
  PROVE  InStep(p)'
<1>1. cPc[p] = "retry" /\ Receive(p, "retry_granted") /\ Rebind(p)
  BY DEF CRetryGranted, Granted
<1>2. "retry_granted" \in Replies /\ "retry_granted" \in Grant
  BY DEF Replies, Grant
<1>3. /\ Free(toClient'[p], Replies) /\ asked[p] = {} /\ Free(toServer[p], Request)
      /\ Free(toServer[p], Registration) /\ Free(toServer[p], Added) /\ Free(toClient[p], Ack)
      /\ bound[p] = Named(sockets[p]) /\ Open(p) = {conn[p]}
  BY <1>1, <1>2, AnswerFacts
<1>4. /\ TypeOK /\ cPc \in [Roles -> ClientPcs] /\ after \in [Roles -> {"head", "peerinfo"}]
      /\ reported \in [Roles -> Seq(Ports)] /\ sockets \in [Roles -> Seq(Nat)]
      /\ conn \in [Roles -> 0 .. NumConns] /\ newest \in [Roles -> [Conns -> Nat]]
  BY DEF Shape, TypeOK, ClientTypeOK
<1>5. conn[p] < NumConns /\ conn[p] < Len(sockets[p]) /\ conn[p] \in Nat /\ conn[p] \in Conns
  BY <1>1, <1>4, ConstantFacts DEF Shape, Slots, AtWork, Trying
<1>. DEFINE g == newest[p][conn[p]] + 1
            ports == <<<<conn[p], newest'[p][conn[p]]>>>>
            m == OfPorts("add_ports", ports)
<1>6. g \in Nat
  BY <1>4, <1>5
<1>7. newest'[p][conn[p]] = g
  BY <1>1, <1>4, <1>5, RebindType
<1>8. sockets'[p] = [sockets[p] EXCEPT ![conn[p] + 1] = g]
  BY <1>1, <1>4 DEF Rebind
<1>9. sockets'[p][conn[p] + 1] = g
  <2>1. DOMAIN sockets[p] = 1 .. Len(sockets[p]) /\ Len(sockets[p]) \in Nat
    BY <1>4, LenProperties
  <2>. HIDE DEF g
  <2>. QED
    BY <1>5, <1>8, <2>1
<1>. HIDE DEF g
<1>10. /\ Send(p, m) /\ cPc'[p] = "ack" /\ after'[p] = "peerinfo" /\ reported'[p] = ports
       /\ conn' = conn
  BY <1>4 DEF CRetryGranted, Report, Goto
<1>11. m.type = "add_ports" /\ m.ports = ports
  BY DEF OfPorts
<1>. HIDE DEF m
<1>12. /\ Lines(toServer'[p]) = Lines(toServer[p]) \cup {m}
       /\ \A T : /\ Free(toServer'[p], T) <=> (Free(toServer[p], T) /\ m.type \notin T)
                 /\ Free(toServer[p], T) => Sole(toServer'[p], T)
  BY <1>10, NewLine DEF Regular
<1>13. /\ Free(toServer'[p], Registration) /\ ~Free(toServer'[p], Added)
       /\ Sole(toServer'[p], Added) /\ Free(toServer'[p], Request)
       /\ Free(toClient'[p], Ack)
  BY <1>3, <1>11, <1>12, ClientChannels DEF Registration, Added, Request
<1>14. Rebinding(p)'
  BY <1>10, <1>13 DEF Rebinding
<1>15. Awaited(p)'
  <2>1. Open(p)' = Open(p)
    BY DEF Open
  <2>. QED
    BY <1>3, <1>10, <1>14, <2>1 DEF Awaited
<1>16. Answered(p)'
  <2>1. \A x \in Lines(toServer'[p]) : x.type \in Added => x.ports = reported'[p]
    BY <1>3, <1>10, <1>11, <1>12 DEF Free
  <2>. QED
    BY <1>10, <1>13, <2>1, FreeSole DEF Answered
<1>17. Port(p, conn[p])' = <<conn[p], g>> /\ ports = <<<<conn[p], g>>>>
  BY <1>7, <1>9, <1>10 DEF Port
<1>18. OnRecord(p)'
  <2>1. conn[p] < Len(bound[p])
        /\ Named(sockets'[p]) = [bound[p] EXCEPT ![conn[p] + 1] = <<conn[p], g>>]
    <3>. DEFINE s == sockets[p]
    <3>1. s \in Seq(Nat) /\ conn[p] < Len(s)
      BY <1>4, <1>5
    <3>. HIDE DEF s
    <3>2. Named([s EXCEPT ![conn[p] + 1] = g]) = [Named(s) EXCEPT ![conn[p] + 1] = <<conn[p], g>>]
      <4>1. PICK n \in Nat : n = conn[p] /\ n < Len(s)
        BY <1>5, <3>1
      <4>2. Named([s EXCEPT ![n + 1] = g]) = [Named(s) EXCEPT ![n + 1] = <<n, g>>]
        <5>1. \A k \in Nat, h \in Nat : k < Len(s) =>
                Named([s EXCEPT ![k + 1] = h]) = [Named(s) EXCEPT ![k + 1] = <<k, h>>]
          BY <3>1, NamedFacts
        <5>. QED
          BY <1>6, <4>1, <5>1, Zenon
      <4>. QED
        BY <4>1, <4>2
    <3>3. Len(Named(s)) = Len(s)
      BY <3>1, NamedFacts
    <3>. QED
      BY <1>3, <1>8, <3>1, <3>2, <3>3 DEF s
  <2>2. bound' = bound
    OBVIOUS
  <2>. QED
    BY <1>10, <1>13, <1>17, <2>1, <2>2 DEF OnRecord
<1>19. (member = Roles => Retrying(p))'
  <2>1. SUFFICES ASSUME member' = Roles PROVE Retrying(p)'
    OBVIOUS
  <2>2. /\ \A x \in Lines(toServer'[p]) : x.type \notin Request
        /\ \A x \in Lines(toClient'[p]) : x.type \notin Replies
    BY <1>3, <1>13 DEF Free
  <2>. QED
    BY <1>3, <1>10, <1>13, <2>2, FreeSole DEF Retrying
<1>. QED
  BY <1>15, <1>16, <1>18, <1>19 DEF InStep

\* A step that leaves nothing outstanding.
LEMMA QuietInStep ==
  ASSUME Shape, NEW p \in Roles, CStep(p), UNCHANGED server, Alone(p)',
         Settled(p), Free(toClient[p], Ack),
         ~CRegister(p), ~CRetryRequest(p), ~(CExtra(p) \/ CBind(p) \/ CRetryGranted(p)),
         sockets'[p] = sockets[p]
  PROVE  InStep(p)'
<1>1. Settled(p)'
  BY QuietStep
<1>2. Free(toClient'[p], Ack)
  BY ClientChannels
<1>. QED
  BY <1>1, <1>2, FreeSole, SettledIn

LEMMA RejectedInStep ==
  ASSUME Shape, NEW p \in Roles, CStep(p), UNCHANGED server,
         InStep(p), Alone(p)', CRetryRejected(p)
  PROVE  InStep(p)'
<1>1. cPc[p] = "retry" /\ Receive(p, "retry_rejected") /\ sockets' = sockets
  BY DEF CRetryRejected
<1>2. "retry_rejected" \in Replies /\ "retry_rejected" \notin Grant
  BY DEF Replies, Grant
<1>3. /\ Free(toClient'[p], Replies) /\ asked[p] = {} /\ Free(toServer[p], Request)
      /\ Free(toServer[p], Registration) /\ Free(toServer[p], Added) /\ Free(toClient[p], Ack)
      /\ bound[p] = Named(sockets[p]) /\ Open(p) = {}
  BY <1>1, <1>2, AnswerFacts
<1>4. /\ ~CRegister(p) /\ ~CRetryRequest(p) /\ ~CExtra(p) /\ ~CBind(p)
  BY <1>1 DEF CRegister, CRetryRequest, CExtra, CBind
<1>5. ~CRetryGranted(p)
  <2>1. Free(toClient[p], Grant)
    BY <1>1, <1>2, AnswerFacts
  <2>2. ~Receive(p, "retry_granted")
    BY <2>1, ReceivedLine DEF Free, Grant, Shape, TypeOK
  <2>. QED
    BY <2>2 DEF CRetryGranted, Granted
<1>6. /\ Free(toServer'[p], Registration) /\ Free(toServer'[p], Added)
      /\ Free(toServer'[p], Request) /\ Free(toClient'[p], Ack)
  BY <1>3, <1>4, <1>5, ClientChannels
<1>7. Open(p)' = Open(p)
  BY DEF Open
<1>8. Settled(p)'
  BY <1>1, <1>3, <1>6, <1>7 DEF Settled
<1>. QED
  BY <1>6, <1>8, FreeSole, SettledIn

\* Steps that change its sockets are not taken for others.
LEMMA LongerDiffers ==
  ASSUME NEW s \in Seq(Nat)
  PROVE  Append(s, 0) # s
<1>1. Len(s) \in Nat /\ Len(Append(s, 0)) = Len(s) + 1
  BY AppendProperties, LenProperties
<1>. QED
  BY <1>1

LEMMA RebindChanges ==
  ASSUME Shape, NEW p \in Roles, UNCHANGED newest
  PROVE  ~CRetryGranted(p)
<1>1. SUFFICES ASSUME CRetryGranted(p) PROVE FALSE
  OBVIOUS
<1>2. TypeOK /\ cPc[p] = "retry" /\ Rebind(p)
  BY <1>1 DEF CRetryGranted, Granted, Shape
<1>3. conn[p] < NumConns /\ conn[p] < Len(sockets[p]) /\ conn[p] \in Conns
  BY <1>2, ConstantFacts DEF Shape, Slots, AtWork, Trying, TypeOK, ClientTypeOK
<1>4. newest'[p][conn[p]] = newest[p][conn[p]] + 1 /\ newest[p][conn[p]] \in Nat
  BY <1>2, <1>3, RebindType DEF TypeOK, ClientTypeOK
<1>. QED
  BY <1>4

\* The limits that pass when nothing else can happen.
LEMMA LimitInStep ==
  ASSUME Shape, Begin, NEW p \in Roles, Regular(p), CStep(p), UNCHANGED server,
         InStep(p), Alone(p)', Quiet, ~RelayFirst(p), CTimeout(p) \/ CAckTimeout(p)
  PROVE  InStep(p)'
<1>1. p \in serving /\ toServer[p] = <<>> /\ ClientWaits(p)
  BY RegularFacts DEF Quiet, ServerWaits
<1>2. \A T : Free(toServer[p], T)
  BY <1>1, NoneFree
<1>3. /\ cPc[p] \in {"peerinfo", "go", "retry", "ack"} /\ sockets' = sockets
      /\ ~CRegister(p) /\ ~CRetryRequest(p) /\ ~(CExtra(p) \/ CBind(p))
  BY DEF CTimeout, CAckTimeout, CAckMissing, CRegister, CRetryRequest, CExtra, CBind
<1>4. ~CRetryGranted(p)
  <2>1. newest' = newest
    BY DEF CTimeout, CAckTimeout, CAckMissing
  <2>. QED
    BY <2>1, RebindChanges
<1>5. CASE cPc[p] \in {"peerinfo", "go"}
  BY <1>3, <1>4, <1>5, SettledThen, QuietInStep
<1>6. CASE cPc[p] = "retry"
  <2>1. Free(toClient[p], Ack)
    BY <1>6 DEF InStep, Answered
  <2>2. CASE member = Roles
    <3>1. Retrying(p)
      BY <2>2 DEF InStep
    <3>2. Free(toClient[p], Replies)
      <4>1. Places(p, "retry_granted", conn[p]) = {} /\ Places(p, "retry_rejected", conn[p]) = {}
        BY <1>1, <1>6 DEF ClientWaits
      <4>2. ASSUME NEW i \in DOMAIN toClient[p], toClient[p][i].type \in Replies PROVE FALSE
        <5>1. toClient[p][i].conn = conn[p]
          BY <3>1, <4>2 DEF Retrying, Lines
        <5>. QED
          BY <4>1, <4>2, <5>1 DEF Places, Replies
      <4>. QED
        BY <4>2 DEF Free, Lines
    <3>3. asked[p] = {}
      BY <1>6, <3>1 DEF Retrying, RelayFirst
    <3>4. Settled(p)
      BY <1>2, <3>2, <3>3, SettledWhen
    <3>. QED
      BY <1>3, <1>4, <2>1, <3>4, QuietInStep
  <2>3. CASE member # Roles
    <3>1. Settled(p)
      BY <1>2, <2>3, SettledWhen DEF InStep, Alone
    <3>. QED
      BY <1>3, <1>4, <2>1, <3>1, QuietInStep
  <2>. QED
    BY <2>2, <2>3
<1>7. CASE cPc[p] = "ack"
  <2>1. Free(toClient[p], Ack)
    BY <1>1, <1>7 DEF ClientWaits, Acks, Free, Lines, Ack
  <2>2. Free(toClient[p], Replies) /\ (member = Roles => asked[p] = {})
    BY <1>7 DEF InStep, Alone, Retrying
  <2>3. Settled(p)
    BY <1>2, <2>2, SettledWhen
  <2>. QED
    BY <1>3, <1>4, <2>1, <2>3, QuietInStep
<1>. QED
  BY <1>3, <1>5, <1>6, <1>7

\* The answer to a report.
LEMMA AckInStep ==
  ASSUME Shape, NEW p \in Roles, CStep(p), UNCHANGED server,
         InStep(p), Alone(p)', CAck(p)
  PROVE  InStep(p)'
<1>. DEFINE s == toClient[p]
            i == CHOOSE j \in Acks(p) : \A k \in Acks(p) : j <= k
<1>1. toClient \in [Roles -> Seq(Msg)] /\ s \in Seq(Msg)
  BY DEF Shape, TypeOK, LinkTypeOK
<1>2. cPc[p] = "ack" /\ sockets' = sockets /\ Acks(p) # {}
  BY DEF CAck
<1>3. Acks(p) \in SUBSET Nat
  <2>1. DOMAIN s \subseteq Nat
    BY <1>1, LenProperties
  <2>. QED
    BY <2>1 DEF Acks
<1>4. i \in DOMAIN s /\ s[i].type \in Ack
  BY <1>2, <1>3, FirstOf DEF Acks, Ack
<1>5. toClient'[p] = Without(s, i)
  BY <1>1 DEF CAck, Without
<1>. HIDE DEF i
<1>6. ~Free(s, Ack)
  BY <1>4 DEF Free, Lines
<1>7. Sole(s, Ack) /\ Free(toServer[p], Added)
  BY <1>6 DEF InStep, Answered
<1>8. Free(toClient'[p], Ack)
  BY <1>1, <1>4, <1>5, <1>7, WithoutChannel
<1>9. /\ Free(toClient[p], Replies)
      /\ member = Roles => asked[p] = {} /\ Free(toServer[p], Request)
  BY <1>2 DEF InStep, Alone, Retrying
<1>10. Settled(p)
  BY <1>7, <1>9, SettledWhen
<1>11. ~CRegister(p) /\ ~CRetryRequest(p) /\ ~(CExtra(p) \/ CBind(p) \/ CRetryGranted(p))
  BY <1>2 DEF CRegister, CRetryRequest, CExtra, CBind, CRetryGranted, Granted
<1>12. Settled(p)'
  BY <1>2, <1>10, <1>11, QuietStep
<1>. QED
  BY <1>8, <1>12, FreeSole, SettledIn

\* A step of a client leaves it in step with the relay.
LEMMA ClientInStep ==
  ASSUME Shape, Begin, NEW p \in Roles, Regular(p), Regular(p)', InStep(p),
         CStep(p), Orderly(p), UNCHANGED server
  PROVE  InStep(p)'
<1>1. Alone(p)'
  BY AloneClient
<1>2. CASE CExtra(p) \/ CBind(p)
  BY <1>1, <1>2, ReportsInStep
<1>3. CASE CRetryRequest(p)
  BY <1>1, <1>3, RequestInStep
<1>4. CASE CRetryRejected(p)
  BY <1>1, <1>4, RejectedInStep
<1>5. CASE CRetryGranted(p)
  BY <1>1, <1>5, GrantedInStep
<1>6. CASE CAck(p)
  BY <1>1, <1>6, AckInStep
<1>7. CASE Quiet /\ ~RelayFirst(p) /\ (CTimeout(p) \/ CAckTimeout(p))
  BY <1>1, <1>7, LimitInStep
<1>8. CASE \/ CRegistered(p) \/ CFirstPeerInfo(p) \/ CStart(p) \/ CPeerInfo(p) \/ CReady(p)
              \/ CGo(p) \/ CEstablished(p) \/ CPunchFail(p) \/ CPunchAlone(p)
           \/ (CBindFail(p) /\ UNCHANGED sockets)
  <2>1. sockets' = sockets /\ cPc[p] \notin {"register", "failed", "retry", "ack", "extra"}
    BY <1>8 DEF CRegistered, CFirstPeerInfo, CStart, CPeerInfo, CReady, CGo, CEstablished,
       CPunchFail, CPunchAlone, CBindFail
  <2>2. ~CBind(p)
    <3>1. sockets[p] \in Seq(Nat) /\ sockets \in [Roles -> Seq(Nat)]
      BY DEF Shape, TypeOK, ClientTypeOK
    <3>2. CBind(p) => sockets'[p] = Append(sockets[p], 0)
      BY <3>1 DEF CBind
    <3>3. Append(sockets[p], 0) # sockets[p]
      BY <3>1, LongerDiffers
    <3>. QED
      BY <2>1, <3>2, <3>3
  <2>3. ~CRegister(p) /\ ~CRetryRequest(p) /\ ~(CExtra(p) \/ CBind(p) \/ CRetryGranted(p))
    BY <2>1, <2>2 DEF CRegister, CRetryRequest, CExtra, CRetryGranted, Granted
  <2>4. Settled(p) /\ Free(toClient[p], Ack)
    BY <2>1, SettledThen
  <2>. QED
    BY <1>1, <2>1, <2>3, <2>4, QuietInStep
<1>. QED
  BY <1>2, <1>3, <1>4, <1>5, <1>6, <1>7, <1>8, OpenSteps

(***************************************************************************)
(* Steps that do not concern a client.                                     *)
(***************************************************************************)

\* Of these types, a channel holds what it held.
Alike(s, r, T) ==
  /\ Free(r, T) <=> Free(s, T)
  /\ Sole(s, T) => Sole(r, T)
  /\ \A x \in Lines(r) : x.type \in T => x \in Lines(s)

LEMMA AlikeFacts ==
  ASSUME NEW s \in Seq(Msg), NEW T
  PROVE  /\ Alike(s, s, T)
         /\ \A m \in Msg : m.type \notin T => Alike(s, Append(s, m), T)
         /\ s # <<>> /\ Head(s).type \notin T => Alike(s, Tail(s), T)
<1>1. Alike(s, s, T)
  BY DEF Alike
<1>2. ASSUME NEW m \in Msg, m.type \notin T PROVE Alike(s, Append(s, m), T)
  BY <1>2, AppendChannel DEF Alike
<1>3. ASSUME s # <<>>, Head(s).type \notin T PROVE Alike(s, Tail(s), T)
  BY <1>3, TailChannel DEF Alike
<1>. QED
  BY <1>1, <1>2, <1>3

\* The ports a client has on record stay as they are.
KeptRecord(p) ==
  /\ SameClient(p) /\ bound'[p] = bound[p] /\ Open(p)' = Open(p)
  /\ Alike(toServer[p], toServer'[p], Registration)
  /\ Alike(toServer[p], toServer'[p], Added)
  /\ Alike(toClient[p], toClient'[p], Grant) /\ Alike(toClient[p], toClient'[p], Ack)

KeptRetry(p) ==
  /\ SameClient(p) /\ asked'[p] = asked[p] /\ asked[p] \cap timer \subseteq timer'
  /\ Alike(toServer[p], toServer'[p], Request) /\ Alike(toClient[p], toClient'[p], Replies)

KeptAlone(p) ==
  /\ SameClient(p) /\ (member' # Roles => member # Roles)
  /\ Free(toClient[p], Replies) => Free(toClient'[p], Replies)
  /\ Unheard(Other(p))' =>
       /\ Unheard(Other(p)) /\ asked'[p] = asked[p]
       /\ Free(toClient[p], Info) => Free(toClient'[p], Info)
       /\ Free(toServer[p], Request) => Free(toServer'[p], Request)

LEMMA RecordKept ==
  ASSUME NEW p \in Roles, Awaited(p), Answered(p), OnRecord(p), KeptRecord(p)
  PROVE  Awaited(p)' /\ Answered(p)' /\ OnRecord(p)'
<1>1. /\ Free(toServer'[p], Registration) <=> Free(toServer[p], Registration)
      /\ Free(toServer'[p], Added) <=> Free(toServer[p], Added)
      /\ Free(toClient'[p], Grant) <=> Free(toClient[p], Grant)
      /\ Free(toClient'[p], Ack) <=> Free(toClient[p], Ack)
      /\ Sole(toServer[p], Added) => Sole(toServer'[p], Added)
      /\ Sole(toClient[p], Ack) => Sole(toClient'[p], Ack)
      /\ \A x \in Lines(toServer'[p]) : x.type \in Added => x \in Lines(toServer[p])
  BY DEF KeptRecord, Alike
<1>2. /\ cPc'[p] = cPc[p] /\ after'[p] = after[p] /\ reported'[p] = reported[p]
      /\ conn'[p] = conn[p] /\ sockets'[p] = sockets[p]
      /\ bound'[p] = bound[p] /\ Open(p)' = Open(p)
  BY DEF KeptRecord, SameClient
<1>3. Rebinding(p)' <=> Rebinding(p)
  BY <1>1, <1>2 DEF Rebinding
<1>4. Awaited(p)'
  BY <1>1, <1>2, <1>3 DEF Awaited
<1>5. Answered(p)'
  BY <1>1, <1>2 DEF Answered
<1>6. OnRecord(p)'
  BY <1>1, <1>2, <1>3 DEF OnRecord, Port
<1>. QED
  BY <1>4, <1>5, <1>6

LEMMA RetryKept ==
  ASSUME NEW p \in Roles, Retrying(p), KeptRetry(p)
  PROVE  Retrying(p)'
<1>1. /\ Free(toServer'[p], Request) <=> Free(toServer[p], Request)
      /\ Free(toClient'[p], Replies) <=> Free(toClient[p], Replies)
      /\ Sole(toServer[p], Request) => Sole(toServer'[p], Request)
      /\ Sole(toClient[p], Replies) => Sole(toClient'[p], Replies)
      /\ \A x \in Lines(toServer'[p]) : x.type \in Request => x \in Lines(toServer[p])
      /\ \A x \in Lines(toClient'[p]) : x.type \in Replies => x \in Lines(toClient[p])
      /\ cPc'[p] = cPc[p] /\ conn'[p] = conn[p]
      /\ asked'[p] = asked[p] /\ asked[p] \cap timer \subseteq timer'
  BY DEF KeptRetry, Alike, SameClient
<1>. QED
  BY <1>1 DEF Retrying

LEMMA AloneKept ==
  ASSUME NEW p \in Roles, Alone(p), KeptAlone(p)
  PROVE  Alone(p)'
BY DEF Alone, KeptAlone, SameClient

\* Before the other is heard a client has not come to a retry.
LEMMA AloneRetrying ==
  ASSUME NEW p \in Roles, Alone(p), Unheard(Other(p)), member # Roles
  PROVE  Retrying(p)
<1>1. /\ Free(toServer[p], Request) /\ Free(toClient[p], Replies) /\ asked[p] = {}
      /\ cPc[p] \in Early
  BY DEF Alone
<1>2. /\ \A x \in Lines(toServer[p]) : x.type \notin Request
      /\ \A x \in Lines(toClient[p]) : x.type \notin Replies
  BY <1>1 DEF Free
<1>. QED
  BY <1>1, <1>2, FreeSole DEF Retrying, Early

LEMMA Kept ==
  ASSUME NEW p \in Roles, InStep(p), KeptRecord(p), KeptAlone(p),
         member' = Roles => KeptRetry(p) /\ (member = Roles \/ Retrying(p))
  PROVE  InStep(p)'
<1>1. Alone(p)' /\ Awaited(p)' /\ Answered(p)' /\ OnRecord(p)'
  BY RecordKept, AloneKept DEF InStep
<1>2. (member = Roles => Retrying(p))'
  BY RetryKept DEF InStep
<1>. QED
  BY <1>1, <1>2 DEF InStep

\* Who is not heard was not heard before.
LEMMA HeardStays ==
  ASSUME Shape, NEW q \in Roles,
         \/ \E p \in Roles : CStep(p)
         \/ SStep /\ UNCHANGED client
         \/ UNCHANGED <<cPc, toServer>>
  PROVE  Unheard(q)' => Unheard(q)
<1>1. ASSUME ~Unheard(q) PROVE ~Unheard(q)'
  <2>1. cPc[q] # "register" /\ Free(toServer[q], Registration)
    BY <1>1 DEF Unheard
  <2>2. ASSUME NEW p \in Roles, CStep(p) PROVE ~Unheard(q)'
    <3>1. CASE p = q
      <4>1. ~CRegister(q)
        BY <2>1 DEF CRegister
      <4>. QED
        BY <2>1, <2>2, <3>1, <4>1, ClientChannels, ClientPcNext DEF Unheard
    <3>2. CASE p # q
      BY <2>1, <2>2, <3>2, ClientFrame DEF Unheard, SameClient
    <3>. QED
      BY <3>1, <3>2
  <2>3. ASSUME SStep, UNCHANGED client PROVE ~Unheard(q)'
    <3>1. Lines(toServer'[q]) \subseteq Lines(toServer[q])
      BY <2>3, ServerTakes DEF Shape
    <3>. QED
      BY <2>1, <2>3, <3>1 DEF Unheard, Free
  <2>4. ASSUME UNCHANGED <<cPc, toServer>> PROVE ~Unheard(q)'
    BY <2>1, <2>4 DEF Unheard
  <2>. QED
    BY <2>2, <2>3, <2>4
<1>. QED
  BY <1>1

\* Nothing of p's changes.
LEMMA Untouched ==
  ASSUME Shape, NEW p \in Roles, InStep(p), SameClient(p),
         toServer'[p] = toServer[p], toClient'[p] = toClient[p], UNCHANGED server,
         Unheard(Other(p))' => Unheard(Other(p))
  PROVE  InStep(p)'
<1>1. toServer[p] \in Seq(Msg) /\ toClient[p] \in Seq(Msg)
  BY DEF Shape, TypeOK, LinkTypeOK
<1>2. \A T : Alike(toServer[p], toServer'[p], T) /\ Alike(toClient[p], toClient'[p], T)
  BY <1>1, AlikeFacts
<1>3. Open(p)' = Open(p)
  BY DEF Open
<1>4. KeptRecord(p) /\ KeptRetry(p) /\ KeptAlone(p)
  BY <1>2, <1>3 DEF KeptRecord, KeptRetry, KeptAlone
<1>. QED
  BY <1>4, Kept DEF InStep

(***************************************************************************)
(* The steps of the relay.                                                 *)
(***************************************************************************)

\* What a coordinator says to a client.
Talk == {"peer_info", "go"}
Hears(p) ==
  \/ toClient'[p] = toClient[p]
  \/ \E m \in Msg : m.type \in Talk /\ toClient'[p] = Append(toClient[p], m)

LEMMA TalkHeard ==
  ASSUME Shape, NEW p \in Roles, NEW n \in Conns,
         \/ TellPeerInfo(n) \/ SendGo(n)
         \/ SendFails(PeerInfo(n, PortFor("receiver", n))) \/ SendFails(OfConn("go", n))
  PROVE  Hears(p)
<1>1. TypeOK /\ toClient \in [Roles -> Seq(Msg)]
  BY DEF Shape, TypeOK, LinkTypeOK
<1>2. \A q \in Roles : PeerInfo(n, PortFor(q, n)) \in Msg
                        /\ PeerInfo(n, PortFor(q, n)).type \in Talk
  BY <1>1, PortForType, MsgFacts DEF Talk
<1>3. OfConn("go", n) \in Msg /\ OfConn("go", n).type \in Talk
  BY MsgFacts DEF Talk
<1>4. ASSUME NEW m, TellBoth(m), m[p] \in Msg, m[p].type \in Talk PROVE Hears(p)
  BY <1>4 DEF TellBoth, Hears
<1>5. ASSUME NEW m \in Msg, m.type \in Talk, SendFails(m) PROVE Hears(p)
  <2>1. CASE toClient' = toClient
    BY <2>1 DEF Hears
  <2>2. CASE Tell("sender", m)
    BY <1>1, <1>5, <2>2 DEF Tell, Written, Hears
  <2>. QED
    BY <1>5, <2>1, <2>2 DEF SendFails
<1>6. CASE TellPeerInfo(n)
  <2>. DEFINE m == [q \in Roles |-> PeerInfo(n, PortFor(Other(q), n))]
  <2>1. TellBoth(m) /\ m[p] = PeerInfo(n, PortFor(Other(p), n)) /\ Other(p) \in Roles
    BY <1>6, ConstantFacts DEF TellPeerInfo
  <2>. HIDE DEF m
  <2>. QED
    BY <1>2, <1>4, <2>1
<1>7. CASE SendGo(n)
  <2>. DEFINE m == [q \in Roles |-> OfConn("go", n)]
  <2>1. TellBoth(m) /\ m[p] = OfConn("go", n)
    BY <1>7 DEF SendGo
  <2>. HIDE DEF m
  <2>. QED
    BY <1>3, <1>4, <2>1
<1>. QED
  BY <1>2, <1>3, <1>5, <1>6, <1>7 DEF Roles

Task ==
  \/ \E k \in Coordinators : Coordinator(k) \/ CoReadyTimeout(k) \/ CoResultTimeout(k)
  \/ \E n \in Conns : RetryCoordinator(n) \/ RetryReadyTimeout(n)

LEMMA TaskTells ==
  ASSUME Shape, NEW p \in Roles, Task
  PROVE  /\ UNCHANGED <<toServer, cut, serving, member, bound, asked, retries>>
         /\ Hears(p) /\ ~NoTasks
<1>1. TypeOK /\ coConn \in [Coordinators -> Conns]
      /\ retryNew \in [Conns -> Nat] /\ retryWait \in [Conns -> Nat]
  BY DEF Shape, TypeOK, ServerTypeOK
<1>2. CASE \E k \in Coordinators : Coordinator(k) \/ CoReadyTimeout(k) \/ CoResultTimeout(k)
  <2>1. PICK k \in Coordinators : Coordinator(k) \/ CoReadyTimeout(k) \/ CoResultTimeout(k)
    BY <1>2
  <2>2. coConn[k] \in Conns
    BY <1>1
  <2>3. coPc[k] # "unused"
    BY <2>1 DEF Coordinator, CoStart, CoSkip, CoPeerInfo, CoGo, CoResult, CoSendFail,
       CoReadyTimeout, CoResultTimeout
  <2>4. CASE CoPeerInfo(k)
    BY <2>2, <2>3, <2>4, TalkHeard DEF CoPeerInfo, NoTasks
  <2>5. CASE CoGo(k)
    <3>1. Hears(p)
      BY <2>2, <2>5, TalkHeard DEF CoGo
    <3>. QED
      BY <2>3, <2>5, <3>1 DEF CoGo, SendGo, NoTasks
  <2>6. CASE CoSendFail(k)
    <3>1. Hears(p)
      BY <2>2, <2>6, TalkHeard DEF CoSendFail
    <3>. QED
      BY <2>3, <2>6, <3>1 DEF CoSendFail, NoTasks
  <2>7. CASE CoStart(k) \/ CoSkip(k) \/ CoResult(k) \/ CoReadyTimeout(k) \/ CoResultTimeout(k)
    BY <2>3, <2>7 DEF CoStart, CoSkip, CoResult, CoReadyTimeout, CoResultTimeout, Hears,
       NoTasks
  <2>. QED
    BY <2>1, <2>4, <2>5, <2>6, <2>7 DEF Coordinator
<1>3. CASE \E n \in Conns : RetryCoordinator(n) \/ RetryReadyTimeout(n)
  <2>1. PICK n \in Conns : RetryCoordinator(n) \/ RetryReadyTimeout(n)
    BY <1>3
  <2>2. retryNew[n] > 0 \/ retryWait[n] > 0
    BY <2>1 DEF RetryCoordinator, RetryStart, RetryGo, RetrySendFail, RetryReadyTimeout
  <2>3. ~NoTasks
    BY <1>1, <2>2 DEF NoTasks
  <2>4. CASE RetryStart(n)
    BY <2>3, <2>4, TalkHeard DEF RetryStart, Hears
  <2>5. CASE RetryGo(n)
    <3>1. Hears(p)
      BY <2>5, TalkHeard DEF RetryGo
    <3>. QED
      BY <2>3, <2>5, <3>1 DEF RetryGo, SendGo
  <2>6. CASE RetrySendFail(n)
    <3>1. Hears(p)
      BY <2>6, TalkHeard DEF RetrySendFail
    <3>. QED
      BY <2>3, <2>6, <3>1 DEF RetrySendFail
  <2>7. CASE RetryReadyTimeout(n)
    BY <2>3, <2>7 DEF RetryReadyTimeout, Hears
  <2>. QED
    BY <2>1, <2>4, <2>5, <2>6, <2>7 DEF RetryCoordinator
<1>. QED
  BY <1>2, <1>3 DEF Task

\* What a client hears from a coordinator says nothing of its ports or retries.
LEMMA TaskInStep ==
  ASSUME Shape, Begin, NEW p \in Roles, InStep(p), Task, SStep, UNCHANGED client
  PROVE  InStep(p)'
<1>1. toServer[p] \in Seq(Msg) /\ toClient[p] \in Seq(Msg)
  BY DEF Shape, TypeOK, LinkTypeOK
<1>2. /\ UNCHANGED <<toServer, member, bound, asked, granted, mapped, timer>>
      /\ Hears(p) /\ ~NoTasks
  BY TaskTells
<1>3. \A T : Talk \cap T = {} => Alike(toClient[p], toClient'[p], T)
  <2>1. CASE toClient'[p] = toClient[p]
    BY <1>1, <2>1, AlikeFacts
  <2>2. CASE toClient'[p] # toClient[p]
    <3>1. PICK m \in Msg : m.type \in Talk /\ toClient'[p] = Append(toClient[p], m)
      BY <1>2, <2>2 DEF Hears
    <3>. QED
      BY <1>1, <3>1, AlikeFacts
  <2>. QED
    BY <2>1, <2>2
<1>4. /\ Alike(toClient[p], toClient'[p], Grant) /\ Alike(toClient[p], toClient'[p], Ack)
      /\ Alike(toClient[p], toClient'[p], Replies)
  BY <1>3 DEF Talk, Grant, Ack, Replies
<1>5. \A T : Alike(toServer[p], toServer'[p], T)
  BY <1>1, <1>2, AlikeFacts
<1>6. ~Unheard(Other(p)) /\ ~Unheard(Other(p))'
  <2>1. Other(p) \in Roles
    BY ConstantFacts
  <2>2. ~Unheard(Other(p))
    BY <1>2, <2>1 DEF Begin, BeginOf
  <2>. QED
    BY <2>1, <2>2, HeardStays
<1>7. SameClient(p) /\ Open(p)' = Open(p)
  BY <1>2 DEF SameClient, Open
<1>8. KeptRecord(p) /\ KeptRetry(p)
  BY <1>2, <1>4, <1>5, <1>7 DEF KeptRecord, KeptRetry
<1>9. KeptAlone(p)
  BY <1>2, <1>4, <1>6, <1>7 DEF KeptAlone, Alike
<1>. QED
  BY <1>2, <1>8, <1>9, Kept

\* The line a handler takes is its client's.
LEMMA Reading ==
  ASSUME Shape, NEW p \in Roles, NEW q \in Roles, NEW t, Reads(q, t)
  PROVE  /\ \A T : p # q \/ t \notin T => Alike(toServer[p], toServer'[p], T)
         /\ toServer[p] \in Seq(Msg) /\ toClient[p] \in Seq(Msg)
         /\ toServer[q] # <<>> /\ Head(toServer[q]).type = t
         /\ \A T : t \in T => ~Free(toServer[q], T)
<1>1. toServer \in [Roles -> Seq(Msg)] /\ toClient \in [Roles -> Seq(Msg)]
  BY DEF Shape, TypeOK, LinkTypeOK
<1>2. /\ toServer[q] # <<>> /\ Head(toServer[q]).type = t
      /\ toServer' = [toServer EXCEPT ![q] = Tail(toServer[q])]
  BY DEF Reads, Line, TakeLine
<1>3. \A T : t \in T => ~Free(toServer[q], T)
  BY <1>1, <1>2, HeadLine DEF Free
<1>4. ASSUME NEW T, p # q \/ t \notin T PROVE Alike(toServer[p], toServer'[p], T)
  <2>1. CASE p # q
    <3>1. toServer'[p] = toServer[p]
      BY <1>1, <1>2, <2>1
    <3>. QED
      BY <1>1, <3>1, AlikeFacts
  <2>2. CASE p = q
    <3>1. toServer'[p] = Tail(toServer[p])
      BY <1>1, <1>2, <2>2
    <3>. QED
      BY <1>1, <1>2, <1>4, <2>2, <3>1, AlikeFacts
  <2>. QED
    BY <2>1, <2>2
<1>. QED
  BY <1>1, <1>2, <1>3, <1>4

\* Lines about probing, readiness and results.
LEMMA OtherLines ==
  ASSUME Shape, NEW p \in Roles, InStep(p), SStep, UNCHANGED client, NEW q \in Roles,
         \/ SProbesComplete(q) \/ SReady(q)
         \/ SConnResult(q, "established") \/ SConnResult(q, "abandoned")
  PROVE  InStep(p)'
<1>1. UNCHANGED <<toClient, member, bound, asked, granted, mapped, timer>>
  BY DEF SProbesComplete, SReady, SConnResult
<1>2. PICK t : Reads(q, t) /\ t \notin Registration \cup Request \cup Added
  BY DEF SProbesComplete, SReady, SConnResult, ResultLine, Registration, Request, Added
<1>3. /\ Alike(toServer[p], toServer'[p], Registration)
      /\ Alike(toServer[p], toServer'[p], Request) /\ Alike(toServer[p], toServer'[p], Added)
      /\ toClient[p] \in Seq(Msg)
  BY <1>2, Reading
<1>4. \A T : Alike(toClient[p], toClient'[p], T)
  BY <1>1, <1>3, AlikeFacts
<1>5. SameClient(p) /\ Open(p)' = Open(p)
  BY <1>1 DEF SameClient, Open
<1>6. Unheard(Other(p))' => Unheard(Other(p))
  BY HeardStays, ConstantFacts
<1>7. KeptRecord(p) /\ KeptRetry(p) /\ KeptAlone(p)
  BY <1>1, <1>3, <1>4, <1>5, <1>6 DEF KeptRecord, KeptRetry, KeptAlone, Alike
<1>. QED
  BY <1>1, <1>7, Kept DEF InStep

LEMMA OtherRegisters ==
  ASSUME Shape, Begin, NEW p \in Roles, InStep(p), SStep, UNCHANGED client,
         NEW q \in Roles, SRegister(q)
  PROVE  InStep(p)'
<1>1. Reads(q, "register") /\ "register" \in Registration
  BY DEF SRegister, Registration
<1>2. ~Free(toServer[q], Registration)
  BY <1>1, Reading
<1>3. q # p /\ q = Other(p)
  <2>1. Free(toServer[p], Registration)
    BY DEF InStep, Answered
  <2>. QED
    BY <1>2, <2>1, ConstantFacts
<1>4. Unheard(q) /\ member # Roles
  BY <1>2 DEF Unheard, Begin, BeginOf, NotHeard
<1>5. Retrying(p)
  BY <1>3, <1>4, AloneRetrying DEF InStep
<1>6. /\ toServer[p] \in Seq(Msg) /\ toClient[p] \in Seq(Msg)
      /\ \A T : Alike(toServer[p], toServer'[p], T)
  BY <1>1, <1>3, Reading
<1>7. /\ toClient'[p] = toClient[p] /\ bound'[p] = bound[p]
      /\ UNCHANGED <<asked, granted, mapped, timer>>
  <2>1. toClient \in [Roles -> Seq(Msg)] /\ bound \in [Roles -> Seq(Ports)]
    BY DEF Shape, TypeOK, LinkTypeOK, ServerTypeOK
  <2>2. toClient' = Written(toClient, q, Bare("registered"))
        /\ bound' = [bound EXCEPT ![q] = Head(toServer[q]).ports]
    BY DEF SRegister, Tell
  <2>3. toClient'[p] = toClient[p] /\ bound'[p] = bound[p]
    BY <1>3, <2>1, <2>2 DEF Written
  <2>. QED
    BY <2>3 DEF SRegister
<1>8. \A T : Alike(toClient[p], toClient'[p], T)
  BY <1>6, <1>7, AlikeFacts
<1>9. SameClient(p) /\ Open(p)' = Open(p)
  BY <1>7 DEF SameClient, Open
<1>10. KeptRecord(p) /\ KeptRetry(p) /\ KeptAlone(p)
  BY <1>3, <1>4, <1>6, <1>7, <1>8, <1>9 DEF KeptRecord, KeptRetry, KeptAlone, Alike
<1>. QED
  BY <1>5, <1>10, Kept

LEMMA OtherLeaves ==
  ASSUME Shape, NEW p \in Roles, Regular(p), Regular(p)', InStep(p), SStep, UNCHANGED client,
         NEW q \in Roles, SGone(q)
  PROVE  InStep(p)'
<1>1. p \in member /\ p \notin cut /\ p \notin cut'
  BY DEF Regular
<1>2. q # p /\ q \notin member
  BY <1>1 DEF SGone
<1>3. UNCHANGED <<toClient, member, bound, asked, granted, mapped, timer>>
  BY <1>2 DEF SGone
<1>4. toServer'[p] = toServer[p] /\ toServer[p] \in Seq(Msg) /\ toClient[p] \in Seq(Msg)
  BY <1>2 DEF SGone, Shape, TypeOK, LinkTypeOK
<1>5. \A T : Alike(toServer[p], toServer'[p], T) /\ Alike(toClient[p], toClient'[p], T)
  BY <1>3, <1>4, AlikeFacts
<1>6. SameClient(p) /\ Open(p)' = Open(p)
  BY <1>3 DEF SameClient, Open
<1>7. Unheard(Other(p))' => Unheard(Other(p))
  BY HeardStays, ConstantFacts
<1>8. KeptRecord(p) /\ KeptRetry(p) /\ KeptAlone(p)
  BY <1>3, <1>5, <1>6, <1>7 DEF KeptRecord, KeptRetry, KeptAlone, Alike
<1>. QED
  BY <1>3, <1>8, Kept DEF InStep

LEMMA OtherReports ==
  ASSUME Shape, NEW p \in Roles, InStep(p), SStep, UNCHANGED client,
         NEW q \in Roles, q # p, SAddPorts(q)
  PROVE  InStep(p)'
<1>1. Reads(q, "add_ports") /\ UNCHANGED <<member, asked, timer>>
  BY DEF SAddPorts
<1>2. /\ toServer[p] \in Seq(Msg) /\ toClient[p] \in Seq(Msg)
      /\ \A T : Alike(toServer[p], toServer'[p], T)
  BY <1>1, Reading
<1>3. /\ toClient \in [Roles -> Seq(Msg)] /\ bound \in [Roles -> Seq(Ports)]
      /\ mapped \in [Conns -> SUBSET Roles] /\ granted \subseteq Conns
      /\ p = Other(q)
  BY ConstantFacts DEF Shape, TypeOK, LinkTypeOK, ServerTypeOK
<1>4. toClient'[p] = toClient[p]
  <2>1. toClient' = Written(toClient, q, OfPorts("ports_added_ack", Head(toServer[q]).ports))
    BY DEF SAddPorts, Tell
  <2>. QED
    BY <1>3, <2>1 DEF Written
<1>5. bound'[p] = bound[p] /\ Open(p)' = Open(p)
  <2>1. CASE SNewPorts(q)
    BY <1>3, <2>1 DEF SNewPorts, Open
  <2>2. ASSUME NEW n \in Conns, SRetryPort(q, n) PROVE bound'[p] = bound[p] /\ Open(p)' = Open(p)
    <3>1. bound'[p] = bound[p]
      BY <1>3, <2>2 DEF SRetryPort
    <3>2. CASE p \in mapped[n]
      <4>1. granted' = granted \ {n} /\ mapped' = [mapped EXCEPT ![n] = {}]
        BY <1>3, <2>2, <3>2 DEF SRetryPort
      <4>. QED
        BY <1>3, <3>1, <3>2, <4>1 DEF Open
    <3>3. CASE p \notin mapped[n]
      <4>1. granted' = granted /\ mapped' = [mapped EXCEPT ![n] = mapped[n] \cup {q}]
        BY <1>3, <2>2, <3>3 DEF SRetryPort
      <4>. QED
        BY <1>3, <3>1, <3>3, <4>1 DEF Open
    <3>. QED
      BY <3>2, <3>3
  <2>. QED
    BY <2>1, <2>2 DEF SAddPorts
<1>6. \A T : Alike(toClient[p], toClient'[p], T)
  BY <1>2, <1>4, AlikeFacts
<1>7. SameClient(p) /\ (Unheard(Other(p))' => Unheard(Other(p)))
  BY HeardStays, ConstantFacts DEF SameClient
<1>8. KeptRecord(p) /\ KeptRetry(p) /\ KeptAlone(p)
  BY <1>1, <1>2, <1>5, <1>6, <1>7 DEF KeptRecord, KeptRetry, KeptAlone, Alike
<1>. QED
  BY <1>1, <1>8, Kept DEF InStep

\* What the relay makes of the ports a client reports.
LEMMA ReportFiled ==
  ASSUME Shape, NEW p \in Roles, InStep(p), SAddPorts(p), ~Free(toServer[p], Added)
  PROVE  bound'[p] = Named(sockets[p]) /\ Open(p)' = {}
<1>. DEFINE m == Head(toServer[p])
<1>1. /\ bound \in [Roles -> Seq(Ports)] /\ mapped \in [Conns -> SUBSET Roles]
      /\ granted \subseteq Conns /\ toServer[p] \in Seq(Msg) /\ LinkTypeOK
      /\ after \in [Roles -> {"head", "peerinfo"}]
  BY DEF Shape, TypeOK, LinkTypeOK, ServerTypeOK, ClientTypeOK
<1>2. toServer[p] # <<>> /\ m.type = "add_ports"
  BY DEF SAddPorts, Reads, Line
<1>3. m \in Lines(toServer[p])
  BY <1>1, <1>2, HeadLine
<1>4. m.ports = reported[p] /\ cPc[p] = "ack"
  BY <1>2, <1>3 DEF InStep, Answered, Added
<1>. HIDE DEF m
<1>5. Free(toClient[p], Grant)
  BY <1>4, FreeSub DEF InStep, Alone, Retrying
<1>6. Open(p) \subseteq {conn[p]} /\ (conn[p] \in Open(p) <=> after[p] = "peerinfo")
  BY <1>4, <1>5 DEF InStep, Awaited, Rebinding
<1>7. CASE SNewPorts(p)
  <2>1. Open(p) = {} /\ Open(p)' = Open(p) /\ bound' = [bound EXCEPT ![p] = bound[p] \o m.ports]
    BY <1>7 DEF SNewPorts, Open, m
  <2>2. after[p] = "head"
    BY <1>1, <1>6, <2>1
  <2>3. bound[p] \o reported[p] = Named(sockets[p])
    BY <2>2 DEF InStep, OnRecord
  <2>. QED
    BY <1>1, <1>4, <2>1, <2>3
<1>8. ASSUME NEW n \in Conns, SRetryPort(p, n)
      PROVE  bound'[p] = Named(sockets[p]) /\ Open(p)' = {}
  <2>1. n \in Open(p)
    BY <1>8 DEF SRetryPort, Open
  <2>2. n = conn[p] /\ Rebinding(p)
    BY <1>4, <1>6, <2>1 DEF Rebinding
  <2>3. /\ n < Len(bound[p]) /\ m.ports = <<Port(p, n)>>
        /\ Named(sockets[p]) = [bound[p] EXCEPT ![n + 1] = Port(p, n)]
    BY <1>4, <2>2 DEF InStep, OnRecord
  <2>. DEFINE port == Head(m.ports)
  <2>4. port = Port(p, n)
    BY <2>3
  <2>5. bound'[p] = [bound[p] EXCEPT ![n + 1] = port]
    BY <1>1, <1>8, <2>3 DEF SRetryPort, m
  <2>. HIDE DEF port
  <2>6. Open(p)' = {}
    <3>1. CASE Other(p) \in mapped[n]
      <4>1. granted' = granted \ {n} /\ mapped' = [mapped EXCEPT ![n] = {}]
        BY <1>8, <3>1 DEF SRetryPort
      <4>. QED
        BY <1>1, <1>6, <2>2, <4>1 DEF Open
    <3>2. CASE Other(p) \notin mapped[n]
      <4>1. granted' = granted /\ mapped' = [mapped EXCEPT ![n] = mapped[n] \cup {p}]
        BY <1>8, <3>2 DEF SRetryPort
      <4>. QED
        BY <1>1, <1>6, <2>2, <4>1 DEF Open
    <3>. QED
      BY <3>1, <3>2
  <2>. QED
    BY <2>3, <2>4, <2>5, <2>6
<1>. QED
  BY <1>7, <1>8 DEF SAddPorts

LEMMA OwnReport ==
  ASSUME Shape, NEW p \in Roles, p \notin cut, InStep(p), SStep, UNCHANGED client, SAddPorts(p)
  PROVE  InStep(p)'
<1>1. Reads(p, "add_ports") /\ UNCHANGED <<member, asked>> /\ "add_ports" \in Added
  BY DEF SAddPorts, Added
<1>2. /\ toServer[p] \in Seq(Msg) /\ toClient[p] \in Seq(Msg)
      /\ toServer[p] # <<>> /\ Head(toServer[p]).type = "add_ports"
      /\ ~Free(toServer[p], Added)
      /\ Alike(toServer[p], toServer'[p], Registration)
      /\ Alike(toServer[p], toServer'[p], Request)
  <2>1. "add_ports" \notin Registration \cup Request
    BY DEF Registration, Request
  <2>. QED
    BY <1>1, <2>1, Reading
<1>3. bound'[p] = Named(sockets[p]) /\ Open(p)' = {}
  BY <1>2, ReportFiled
<1>4. /\ cPc[p] = "ack" /\ Free(toClient[p], Ack) /\ Free(toServer[p], Registration)
      /\ Sole(toServer[p], Added)
      /\ Free(toClient[p], Replies)
      /\ member = Roles => asked[p] = {} /\ Free(toServer[p], Request)
  BY <1>2 DEF InStep, Answered, Alone, Retrying
<1>5. toServer'[p] = Tail(toServer[p])
  BY <1>1 DEF Reads, TakeLine, Shape, TypeOK, LinkTypeOK
<1>6. Free(toServer'[p], Added)
  BY <1>1, <1>2, <1>4, <1>5, TailChannel
<1>. DEFINE m == OfPorts("ports_added_ack", Head(toServer[p]).ports)
<1>7. m \in Msg /\ m.type = "ports_added_ack"
  BY <1>2, HeadLine, MsgFacts
<1>8. toClient'[p] = Append(toClient[p], m)
  BY DEF SAddPorts, Tell, Written, Shape, TypeOK, LinkTypeOK
<1>. HIDE DEF m
<1>9. \A T : /\ Free(toClient'[p], T) <=> (Free(toClient[p], T) /\ m.type \notin T)
             /\ Free(toClient[p], T) => Sole(toClient'[p], T)
  BY <1>2, <1>7, <1>8, AppendChannel, FreeSole
<1>10. Settled(p)'
  BY <1>1, <1>2, <1>3, <1>4, <1>6, <1>7, <1>9 DEF Settled, Alike, Replies
<1>11. Alone(p)'
  <2>1. SameClient(p) /\ (Unheard(Other(p))' => Unheard(Other(p)))
    BY HeardStays, ConstantFacts DEF SameClient
  <2>2. KeptAlone(p)
    BY <1>1, <1>2, <1>7, <1>9, <2>1 DEF KeptAlone, Alike, Replies, Info
  <2>. QED
    BY <2>2, AloneKept DEF InStep
<1>12. cPc'[p] = "ack" /\ Sole(toClient'[p], Ack)
  BY <1>4, <1>9
<1>. QED
  BY <1>10, <1>11, <1>12, SettledIn

\* The retry a client waits for is granted.
LEMMA GrantInStep ==
  ASSUME Shape, NEW p \in Roles, InStep(p), SameClient(p),
         member = Roles, member' = Roles, ~Unheard(Other(p))', cPc[p] = "retry",
         Free(toClient[p], Replies), Free(toServer'[p], Request), asked'[p] = {},
         Alike(toServer[p], toServer'[p], Registration),
         Alike(toServer[p], toServer'[p], Added),
         conn[p] \in Conns, bound'[p] = bound[p],
         granted' = granted \cup {conn[p]}, mapped' = [mapped EXCEPT ![conn[p]] = {}],
         toClient'[p] = Append(toClient[p], OfConn("retry_granted", conn[p]))
  PROVE  InStep(p)'
<1>. DEFINE m == OfConn("retry_granted", conn[p])
<1>1. toClient[p] \in Seq(Msg) /\ mapped \in [Conns -> SUBSET Roles] /\ granted \subseteq Conns
  BY DEF Shape, TypeOK, LinkTypeOK, ServerTypeOK
<1>2. /\ m \in Msg /\ m.type = "retry_granted" /\ m.conn = conn[p]
      /\ toClient'[p] = Append(toClient[p], m)
  BY MsgFacts
<1>. HIDE DEF m
<1>3. /\ Lines(toClient'[p]) = Lines(toClient[p]) \cup {m}
      /\ \A T : /\ Free(toClient'[p], T) <=> (Free(toClient[p], T) /\ m.type \notin T)
                /\ Free(toClient[p], T) => Sole(toClient'[p], T)
  BY <1>1, <1>2, AppendChannel, FreeSole
<1>4. /\ Free(toServer[p], Registration) /\ Free(toServer[p], Added) /\ Free(toClient[p], Ack)
      /\ bound[p] = Named(sockets[p])
  BY DEF InStep, Answered, OnRecord
<1>5. Open(p) = {}
  BY FreeSub DEF InStep, Awaited, Rebinding
<1>6. /\ cPc'[p] = "retry" /\ conn'[p] = conn[p] /\ sockets'[p] = sockets[p]
      /\ Free(toServer'[p], Registration) /\ Free(toServer'[p], Added)
      /\ Free(toClient'[p], Ack) /\ ~Free(toClient'[p], Grant) /\ Sole(toClient'[p], Replies)
  BY <1>2, <1>3, <1>4 DEF SameClient, Alike, Ack, Grant
<1>7. ~Rebinding(p)'
  BY <1>6 DEF Rebinding
<1>8. Open(p)' = {conn[p]}
  BY <1>1, <1>5 DEF Open
<1>9. Awaited(p)' /\ OnRecord(p)'
  BY <1>4, <1>6, <1>7, <1>8 DEF Awaited, OnRecord
<1>10. Answered(p)'
  <2>1. \A x \in Lines(toServer'[p]) : x.type \notin Added
    BY <1>6 DEF Free
  <2>. QED
    BY <1>6, <2>1, FreeSole DEF Answered
<1>11. Retrying(p)'
  <2>1. \A x \in Lines(toServer'[p]) : x.type \notin Request
    BY DEF Free
  <2>2. \A x \in Lines(toClient'[p]) : x.type \in Replies => x.conn = conn[p]
    BY <1>2, <1>3 DEF Free
  <2>. QED
    BY <1>6, <2>1, <2>2, FreeSole DEF Retrying
<1>12. Alone(p)'
  BY DEF Alone
<1>. QED
  BY <1>9, <1>10, <1>11, <1>12 DEF InStep

\* A client asks for a retry.
LEMMA OwnRequest ==
  ASSUME Shape, NEW p \in Roles, p \notin cut, InStep(p), SStep, UNCHANGED client,
         SRetryRequest(p)
  PROVE  InStep(p)'
<1>. DEFINE n == Head(toServer[p]).conn
<1>1. Reads(p, "retry_request") /\ UNCHANGED <<member, bound>> /\ "retry_request" \in Request
  BY DEF SRetryRequest, Request
<1>2. /\ toServer[p] \in Seq(Msg) /\ toClient[p] \in Seq(Msg)
      /\ toServer[p] # <<>> /\ Head(toServer[p]).type = "retry_request"
      /\ ~Free(toServer[p], Request)
      /\ Alike(toServer[p], toServer'[p], Registration)
      /\ Alike(toServer[p], toServer'[p], Added)
  <2>1. "retry_request" \notin Registration \cup Added
    BY DEF Registration, Added
  <2>. QED
    BY <1>1, <2>1, Reading
<1>3. SameClient(p) /\ ~Unheard(Other(p)) /\ ~Unheard(Other(p))'
  <2>1. ~Unheard(Other(p))
    BY <1>2 DEF InStep, Alone
  <2>. QED
    BY <2>1, HeardStays, ConstantFacts DEF SameClient
<1>4. /\ toClient \in [Roles -> Seq(Msg)] /\ asked \in [Roles -> SUBSET Conns]
      /\ Head(toServer[p]) \in Lines(toServer[p]) /\ n \in Conns
  BY <1>2, HeadLine, MsgFacts DEF Shape, TypeOK, LinkTypeOK, ServerTypeOK
<1>5. CASE member # Roles
  <2>1. UNCHANGED <<toClient, granted, mapped>>
    BY <1>5 DEF SRetryRequest
  <2>2. \A T : Alike(toClient[p], toClient'[p], T)
    BY <1>2, <2>1, AlikeFacts
  <2>3. Open(p)' = Open(p)
    BY <2>1 DEF Open
  <2>4. KeptRecord(p) /\ KeptAlone(p)
    BY <1>1, <1>2, <1>3, <2>1, <2>2, <2>3 DEF KeptRecord, KeptAlone
  <2>. QED
    BY <1>1, <1>5, <2>4, Kept
<1>6. CASE member = Roles
  <2>1. Retrying(p)
    BY <1>6 DEF InStep
  <2>2. /\ n = conn[p] /\ cPc[p] = "retry" /\ asked[p] = {} /\ Free(toClient[p], Replies)
        /\ Sole(toServer[p], Request)
    BY <1>1, <1>2, <1>4, <2>1 DEF Retrying
  <2>3. toServer'[p] = Tail(toServer[p])
    BY <1>1 DEF Reads, TakeLine, Shape, TypeOK, LinkTypeOK
  <2>4. Free(toServer'[p], Request)
    BY <1>1, <1>2, <2>2, <2>3, TailChannel
  <2>5. CASE n \in asked[Other(p)]
    <3>1. /\ asked' = [q \in Roles |-> asked[q] \ {n}]
          /\ granted' = granted \cup {n} /\ mapped' = [mapped EXCEPT ![n] = {}]
          /\ TellBoth([q \in Roles |-> OfConn("retry_granted", n)])
      BY <1>6, <2>5 DEF SRetryRequest
    <3>2. asked'[p] = {} /\ toClient'[p] = Append(toClient[p], OfConn("retry_granted", n))
      BY <2>2, <3>1 DEF TellBoth
    <3>. HIDE DEF n
    <3>. QED
      BY <1>1, <1>2, <1>3, <1>4, <1>6, <2>2, <2>4, <3>1, <3>2, GrantInStep
  <2>6. CASE n \notin asked[Other(p)]
    <3>1. /\ asked' = [asked EXCEPT ![p] = asked[p] \cup {n}] /\ timer' = timer \cup {n}
          /\ UNCHANGED <<granted, mapped, toClient>>
      BY <1>6, <2>6 DEF SRetryRequest
    <3>2. asked'[p] = {conn[p]} /\ conn[p] \in timer'
      BY <1>4, <2>2, <3>1
    <3>3. \A T : Alike(toClient[p], toClient'[p], T)
      BY <1>2, <3>1, AlikeFacts
    <3>4. Open(p)' = Open(p)
      BY <3>1 DEF Open
    <3>5. KeptRecord(p)
      BY <1>1, <1>2, <1>3, <3>3, <3>4 DEF KeptRecord
    <3>6. Awaited(p)' /\ Answered(p)' /\ OnRecord(p)'
      BY <3>5, RecordKept DEF InStep
    <3>7. Retrying(p)'
      <4>1. /\ \A x \in Lines(toServer'[p]) : x.type \notin Request
            /\ \A x \in Lines(toClient'[p]) : x.type \notin Replies
        BY <2>2, <2>4, <3>1 DEF Free
      <4>2. cPc'[p] = "retry" /\ conn'[p] = conn[p] /\ Free(toClient'[p], Replies)
        BY <2>2, <3>1
      <4>. QED
        BY <2>4, <3>2, <4>1, <4>2, FreeSole DEF Retrying
    <3>8. Alone(p)'
      BY <1>1, <1>3, <1>6 DEF Alone
    <3>. QED
      BY <3>6, <3>7, <3>8 DEF InStep
  <2>. QED
    BY <2>5, <2>6
<1>. QED
  BY <1>5, <1>6

\* Who is in the session has been heard.
LEMMA BothHeard ==
  ASSUME Begin, member = Roles, NEW q \in Roles
  PROVE  ~Unheard(q)
BY DEF Begin, BeginOf, NotHeard

\* The other one asks.
LEMMA OtherRequests ==
  ASSUME Shape, Begin, NEW p \in Roles, p \notin cut, InStep(p), SStep, UNCHANGED client,
         NEW q \in Roles, q # p, SRetryRequest(q)
  PROVE  InStep(p)'
<1>. DEFINE n == Head(toServer[q]).conn
<1>1. Reads(q, "retry_request") /\ UNCHANGED <<member, bound>>
  BY DEF SRetryRequest
<1>2. /\ toServer[p] \in Seq(Msg) /\ toClient[p] \in Seq(Msg)
      /\ \A T : Alike(toServer[p], toServer'[p], T)
  BY <1>1, Reading
<1>3. /\ asked \in [Roles -> SUBSET Conns] /\ p = Other(q) /\ q = Other(p)
  BY ConstantFacts DEF Shape, TypeOK, ServerTypeOK
<1>4. SameClient(p) /\ (Unheard(Other(p))' => Unheard(Other(p)))
  BY HeardStays, ConstantFacts DEF SameClient
<1>5. ASSUME UNCHANGED <<toClient, granted, mapped>>, asked'[p] = asked[p],
             member = Roles => timer \subseteq timer'
      PROVE  InStep(p)'
  <2>1. \A T : Alike(toClient[p], toClient'[p], T)
    BY <1>2, <1>5, AlikeFacts
  <2>2. Open(p)' = Open(p)
    BY <1>5 DEF Open
  <2>3. KeptRecord(p) /\ KeptAlone(p) /\ (member = Roles => KeptRetry(p))
    BY <1>1, <1>2, <1>4, <1>5, <2>1, <2>2 DEF KeptRecord, KeptAlone, KeptRetry, Alike
  <2>. QED
    BY <1>1, <2>3, Kept
<1>6. CASE member # Roles
  <2>1. /\ UNCHANGED <<toClient, granted, mapped>>
        /\ asked' = [asked EXCEPT ![q] = asked[q] \cup {n}]
    BY <1>6 DEF SRetryRequest
  <2>. QED
    BY <1>3, <1>5, <1>6, <2>1
<1>7. CASE member = Roles /\ n \notin asked[p]
  <2>1. /\ UNCHANGED <<toClient, granted, mapped>>
        /\ asked' = [asked EXCEPT ![q] = asked[q] \cup {n}] /\ timer' = timer \cup {n}
    BY <1>3, <1>7 DEF SRetryRequest
  <2>. QED
    BY <1>3, <1>5, <2>1
<1>8. CASE member = Roles /\ n \in asked[p]
  <2>1. /\ asked' = [r \in Roles |-> asked[r] \ {n}]
        /\ granted' = granted \cup {n} /\ mapped' = [mapped EXCEPT ![n] = {}]
        /\ TellBoth([r \in Roles |-> OfConn("retry_granted", n)])
    BY <1>3, <1>8 DEF SRetryRequest
  <2>2. Retrying(p)
    BY <1>8 DEF InStep
  <2>3. /\ n = conn[p] /\ cPc[p] = "retry" /\ asked[p] \subseteq {n}
        /\ Free(toClient[p], Replies) /\ Free(toServer[p], Request) /\ n \in Conns
    BY <1>3, <1>8, <2>2 DEF Retrying
  <2>4. asked'[p] = {} /\ toClient'[p] = Append(toClient[p], OfConn("retry_granted", n))
    BY <2>1, <2>3 DEF TellBoth
  <2>5. Free(toServer'[p], Request)
    BY <1>2, <2>3 DEF Alike
  <2>6. ~Unheard(Other(p))'
    BY <1>3, <1>4, <1>8, BothHeard
  <2>. HIDE DEF n
  <2>. QED
    BY <1>1, <1>2, <1>4, <1>8, <2>1, <2>3, <2>4, <2>5, <2>6, GrantInStep
<1>. QED
  BY <1>3, <1>6, <1>7, <1>8

\* A retry runs out of time at the relay.
LEMMA TimerInStep ==
  ASSUME Shape, Begin, NEW p \in Roles, p \notin cut, InStep(p), SStep, UNCHANGED client,
         NEW n \in Conns, SRetryTimer(n)
  PROVE  InStep(p)'
<1>1. n \in timer /\ timer' = timer \ {n}
      /\ UNCHANGED <<toServer, member, bound, granted, mapped>>
  BY DEF SRetryTimer
<1>2. member = Roles /\ Retrying(p)
  BY <1>1 DEF Begin, InStep
<1>3. PICK r \in Roles : /\ n \in asked[r] /\ n \notin asked[Other(r)]
                         /\ asked' = [asked EXCEPT ![r] = asked[r] \ {n}]
                         /\ Tell(r, OfConn("retry_rejected", n))
  BY DEF SRetryTimer
<1>4. /\ asked \in [Roles -> SUBSET Conns] /\ toClient \in [Roles -> Seq(Msg)]
      /\ toServer[p] \in Seq(Msg) /\ toClient[p] \in Seq(Msg)
  BY DEF Shape, TypeOK, LinkTypeOK, ServerTypeOK
<1>5. SameClient(p) /\ Open(p)' = Open(p) /\ ~Unheard(Other(p)) /\ ~Unheard(Other(p))'
  <2>1. Other(p) \in Roles
    BY ConstantFacts
  <2>2. ~Unheard(Other(p))
    BY <1>2, <2>1 DEF Begin, BeginOf, NotHeard
  <2>. QED
    BY <1>1, <2>1, <2>2, HeardStays DEF SameClient, Open
<1>6. \A T : Alike(toServer[p], toServer'[p], T)
  BY <1>1, <1>4, AlikeFacts
<1>7. Alone(p)'
  BY <1>1, <1>2, <1>5 DEF Alone
<1>8. CASE r # p
  <2>1. n \notin asked[p] /\ asked'[p] = asked[p] /\ toClient'[p] = toClient[p]
    BY <1>3, <1>4, <1>8, ConstantFacts DEF Tell, Written
  <2>2. \A T : Alike(toClient[p], toClient'[p], T)
    BY <1>4, <2>1, AlikeFacts
  <2>3. KeptRecord(p) /\ KeptRetry(p)
    BY <1>1, <1>5, <1>6, <2>1, <2>2 DEF KeptRecord, KeptRetry
  <2>. QED
    BY <1>1, <1>2, <1>7, <2>3, RecordKept, RetryKept DEF InStep
<1>9. CASE r = p
  <2>. DEFINE m == OfConn("retry_rejected", n)
  <2>1. m \in Msg /\ m.type = "retry_rejected" /\ m.conn = n
    BY MsgFacts
  <2>2. toClient'[p] = Append(toClient[p], m)
    BY <1>3, <1>4, <1>9 DEF Tell, Written
  <2>. HIDE DEF m
  <2>3. /\ n = conn[p] /\ cPc[p] = "retry" /\ asked'[p] = {}
        /\ Free(toClient[p], Replies) /\ Free(toServer[p], Request)
    BY <1>2, <1>3, <1>4, <1>9 DEF Retrying
  <2>4. /\ Lines(toClient'[p]) = Lines(toClient[p]) \cup {m}
        /\ Sole(toClient'[p], Replies)
        /\ Alike(toClient[p], toClient'[p], Grant) /\ Alike(toClient[p], toClient'[p], Ack)
    <3>1. m.type \notin Grant /\ m.type \notin Ack
      BY <2>1 DEF Grant, Ack
    <3>2. /\ Lines(toClient'[p]) = Lines(toClient[p]) \cup {m}
          /\ Sole(toClient'[p], Replies)
      BY <1>4, <2>1, <2>2, <2>3, AppendChannel, FreeSole
    <3>3. \A T : m.type \notin T => Alike(toClient[p], toClient'[p], T)
      BY <1>4, <2>1, <2>2, AlikeFacts
    <3>. QED
      BY <1>4, <2>1, <2>2, <2>3, <3>1, <3>2, <3>3
  <2>5. KeptRecord(p)
    BY <1>1, <1>5, <1>6, <2>4 DEF KeptRecord
  <2>6. Retrying(p)'
    <3>1. cPc'[p] = "retry" /\ conn'[p] = conn[p] /\ Free(toServer'[p], Request)
      BY <1>1, <2>3
    <3>2. /\ \A x \in Lines(toServer'[p]) : x.type \notin Request
          /\ \A x \in Lines(toClient'[p]) : x.type \in Replies => x.conn = conn[p]
      BY <2>1, <2>3, <2>4, <3>1 DEF Free
    <3>. QED
      BY <2>3, <2>4, <3>1, <3>2, FreeSole DEF Retrying
  <2>. QED
    BY <1>7, <2>5, <2>6, RecordKept DEF InStep
<1>. QED
  BY <1>8, <1>9

\* The relay hears a client.
LEMMA Registers ==
  ASSUME Shape, Begin, NEW p \in Roles, p \notin cut, SStep, UNCHANGED client, SRegister(p)
  PROVE  InStep(p)'
<1>1. Reads(p, "register") /\ "register" \in Registration
      /\ UNCHANGED <<asked, granted, mapped>>
  BY DEF SRegister, Registration
<1>2. ~Free(toServer[p], Registration) /\ toServer[p] # <<>>
  BY <1>1, Reading
<1>3. NotHeard(p)
  BY <1>2 DEF Unheard, Begin, BeginOf
<1>4. /\ p \notin member /\ asked[p] = {} /\ toClient[p] = <<>> /\ saved[p] = NoPort
      /\ cPc[p] = "registered"
      /\ toServer[p] = <<OfPorts("register", Named(sockets[p]))>>
  BY <1>2, <1>3 DEF NotHeard
<1>5. /\ toServer \in [Roles -> Seq(Msg)] /\ toClient \in [Roles -> Seq(Msg)]
      /\ bound \in [Roles -> Seq(Ports)]
  BY DEF Shape, TypeOK, LinkTypeOK, ServerTypeOK
<1>. DEFINE m == OfPorts("register", Named(sockets[p]))
            r == Bare("registered")
<1>6. m \in Msg /\ m.ports = Named(sockets[p]) /\ r \in Msg /\ r.type = "registered"
  BY RegisterLine, MsgFacts
<1>7. toServer'[p] = Tail(toServer[p]) /\ toClient'[p] = Append(toClient[p], r)
      /\ bound'[p] = Head(toServer[p]).ports
  BY <1>5 DEF SRegister, Reads, TakeLine, Tell, Written
<1>. HIDE DEF m, r
<1>8. toServer'[p] = <<>> /\ bound'[p] = Named(sockets[p])
  BY <1>4, <1>6, <1>7, OneLine DEF m
<1>9. \A T : Free(toServer'[p], T)
  BY <1>8, NoneFree
<1>10. \A T : Free(toClient'[p], T) <=> "registered" \notin T
  <2>. DEFINE s == toClient[p]
  <2>1. s \in Seq(Msg) /\ toClient'[p] = Append(s, r) /\ \A T : Free(s, T)
    BY <1>4, <1>5, <1>7, NoneFree
  <2>. HIDE DEF s
  <2>2. \A T : Free(Append(s, r), T) <=> (Free(s, T) /\ r.type \notin T)
    BY <1>6, <2>1, AppendChannel
  <2>. QED
    BY <1>6, <2>1, <2>2
<1>11. Free(toClient'[p], Replies) /\ Free(toClient'[p], Info) /\ Free(toClient'[p], Ack)
  BY <1>10 DEF Replies, Info, Ack
<1>12. Open(p)' = {}
  BY <1>1, <1>4 DEF Open, Begin
<1>13. Settled(p)'
  BY <1>1, <1>4, <1>8, <1>9, <1>11, <1>12 DEF Settled
<1>14. Alone(p)'
  BY <1>1, <1>4, <1>9, <1>11 DEF Alone, Early
<1>. QED
  BY <1>11, <1>13, <1>14, FreeSole, SettledIn

\* Only who registers comes into the session.
LEMMA MemberGrows ==
  ASSUME Shape, NEW p \in Roles, p \notin member, p \in member', SStep
  PROVE  SRegister(p)
<1>1. ~Task
  BY TaskTells
<1>2. ~\E n \in Conns : SRetryTimer(n)
  BY DEF SRetryTimer
<1>3. \A q \in Roles : SHandler(q) => SRegister(q)
  BY DEF SHandler, SProbesComplete, SReady, SAddPorts, SRetryRequest, SConnResult, SGone
<1>4. \A q \in Roles : SRegister(q) => member' = member \cup {q}
  BY DEF SRegister
<1>. QED
  BY <1>1, <1>2, <1>3, <1>4 DEF SStep, Server, ServerLimit, Task

LEMMA ServerInStep ==
  ASSUME Shape, Begin, NEW p \in Roles, Regular(p)', Regular(p) => InStep(p),
         SStep, UNCHANGED client
  PROVE  InStep(p)'
<1>1. p \in member' /\ p \notin cut' /\ p \notin unfilled /\ cut \subseteq cut'
  BY ServerSession DEF Regular
<1>2. p \notin cut
  BY <1>1
<1>3. CASE p \notin member
  <2>1. SRegister(p)
    BY <1>1, <1>3, MemberGrows
  <2>. QED
    BY <1>2, <2>1, Registers
<1>4. CASE p \in member
  <2>1. Regular(p) /\ InStep(p)
    BY <1>1, <1>2, <1>4 DEF Regular
  <2>2. CASE Task
    BY <2>1, <2>2, TaskInStep
  <2>3. CASE \E n \in Conns : SRetryTimer(n)
    BY <1>2, <2>1, <2>3, TimerInStep
  <2>4. ASSUME NEW q \in Roles, SHandler(q) PROVE InStep(p)'
    <3>1. CASE SRegister(q)
      BY <2>1, <2>4, <3>1, OtherRegisters
    <3>2. CASE \/ SProbesComplete(q) \/ SReady(q)
               \/ SConnResult(q, "established") \/ SConnResult(q, "abandoned")
      BY <2>1, <2>4, <3>2, OtherLines
    <3>3. CASE SAddPorts(q)
      BY <1>2, <2>1, <2>4, <3>3, OwnReport, OtherReports
    <3>4. CASE SRetryRequest(q)
      BY <1>2, <2>1, <2>4, <3>4, OwnRequest, OtherRequests
    <3>5. CASE SGone(q)
      BY <2>1, <2>4, <3>5, OtherLeaves
    <3>. QED
      BY <2>4, <3>1, <3>2, <3>3, <3>4, <3>5 DEF SHandler
  <2>. QED
    BY <2>2, <2>3, <2>4 DEF SStep, Server, ServerLimit, Task
<1>. QED
  BY <1>3, <1>4

(***************************************************************************)
(* The invariant.                                                          *)
(***************************************************************************)

LEMMA UnfilledStays ==
  ASSUME NEW p \in Roles, CStep(p)
  PROVE  unfilled \subseteq unfilled'
BY DEF CStep, Client, Punched, ClientLimit,
   CRegister, CRegisterFail, CFirstFail, CExtra, CFinish, CBind, CBindFail,
   CStart, CReady, CRetryRequest, CAckError, CAckMissing, CNotice, CTransportLost,
   CEstablished, CPunchFail, CFirstTimeout, CTimeout, CAckTimeout, CPunchAlone,
   CRegistered, CFirstPeerInfo, CPeerInfo, CGo, CRetryRejected, CRetryGranted, CRebindFail,
   CWriteError, CAck

LEMMA PortInvInit == Init => PortInv
<1>. SUFFICES ASSUME Init PROVE PortInv
  OBVIOUS
<1>1. \A p \in Roles : ~Regular(p)
  BY DEF Init, ServerInit, Regular
<1>. QED
  BY <1>1, ShapeInit, BeginInit DEF PortInv

LEMMA PortInvStep == PortInv /\ [Next]_vars => PortInv'
<1>. SUFFICES ASSUME PortInv, [Next]_vars PROVE PortInv'
  OBVIOUS
<1>1. Shape /\ Begin /\ TypeOK /\ Shape' /\ Begin'
  BY ShapeStep, BeginStep DEF PortInv, Shape
<1>2. ASSUME early' = 0, NEW p \in Roles, Regular(p)' PROVE InStep(p)'
  <2>1. Regular(p) => InStep(p)
    BY <1>1, <1>2, Steps DEF PortInv
  <2>2. CASE SStep /\ UNCHANGED client
    BY <1>1, <1>2, <2>1, <2>2, ServerInStep
  <2>3. ASSUME NEW q \in Roles, CStep(q), UNCHANGED server, Orderly(q) PROVE InStep(p)'
    <3>1. Regular(p) /\ InStep(p)
      <4>1. cut \subseteq cut' /\ unfilled \subseteq unfilled'
        BY <2>3, ClientCuts, UnfilledStays
      <4>. QED
        BY <1>2, <2>1, <2>3, <4>1 DEF Regular
    <3>2. CASE q = p
      BY <1>1, <1>2, <2>3, <3>1, <3>2, ClientInStep
    <3>3. CASE q # p
      <4>1. SameClient(p) /\ toServer'[p] = toServer[p] /\ toClient'[p] = toClient[p]
        BY <1>1, <2>3, <3>3, ClientFrame
      <4>2. Unheard(Other(p))' => Unheard(Other(p))
        BY <1>1, <2>3, HeardStays, ConstantFacts
      <4>. QED
        BY <1>1, <2>3, <3>1, <4>1, <4>2, Untouched
    <3>. QED
      BY <3>2, <3>3
  <2>4. CASE \/ \E q \in Roles : Drop(q)
             \/ UNCHANGED <<server, client, link>>
    <3>1. /\ UNCHANGED <<server, client, toServer, toClient>>
          /\ cut \subseteq cut'
      BY <2>4 DEF Drop
    <3>2. Regular(p) /\ InStep(p)
      BY <1>2, <2>1, <3>1 DEF Regular
    <3>3. SameClient(p) /\ (Unheard(Other(p))' => Unheard(Other(p)))
      BY <1>1, <3>1, HeardStays, ConstantFacts DEF SameClient
    <3>. QED
      BY <1>1, <3>1, <3>2, <3>3, Untouched
  <2>. QED
    BY <1>1, <1>2, <2>2, <2>3, <2>4, Steps
<1>. QED
  BY <1>1, <1>2 DEF PortInv

LEMMA PortInvariance == Spec => []PortInv
BY PortInvInit, PortInvStep, PTL DEF Spec

\* What the relay has on record follows, wherever no report is under way.
LEMMA RecordFollows ==
  ASSUME PortInv
  PROVE  PortsTrue
<1>. SUFFICES ASSUME NEW p \in member \ cut, conn[p] < Len(bound[p]), conn[p] < Len(sockets[p]),
                     ~Reporting(p), early = 0, p \notin unfilled
              PROVE  bound[p][conn[p] + 1] = Port(p, conn[p])
  BY DEF PortsTrue
<1>1. /\ p \in Roles /\ conn[p] \in Nat /\ sockets[p] \in Seq(Nat)
      /\ toServer[p] \in Seq(Msg)
  BY ConstantFacts DEF PortInv, Shape, TypeOK, ServerTypeOK, ClientTypeOK, LinkTypeOK
<1>2. InStep(p)
  BY <1>1 DEF PortInv, Regular
<1>3. Free(toServer[p], Added)
  BY DEF Reporting, Free, Added, Lines
<1>4. bound[p] = Named(sockets[p])
  BY <1>2, <1>3 DEF InStep, OnRecord
<1>5. conn[p] + 1 \in DOMAIN sockets[p] /\ conn[p] + 1 - 1 = conn[p]
  BY <1>1, LenProperties
<1>. QED
  BY <1>1, <1>4, <1>5, NamedFacts DEF Port

(***************************************************************************)
(* PortsTrue: the relay's record of a client's port for the connection it  *)
(* is at is the port the client holds there (handlers.py:127-172), unless  *)
(* a limit passed early or the client left a granted retry without a port. *)
(***************************************************************************)
THEOREM PortsAreTrue == Spec => []PortsTrue
BY PortInvariance, RecordFollows, PTL
=============================================================================
