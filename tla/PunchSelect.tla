----------------------------- MODULE PunchSelect -----------------------------
(***************************************************************************)
(* How the two sides of a punch come to keep one connection:               *)
(* punch_connection in src/punch/strategy.rs and pre_handshake in          *)
(* src/punch/helpers.rs.  Each side listens on its punch port and connects *)
(* from several local ports at once, so several TCP connections may come   *)
(* about.  On each, the two sides exchange random numbers; the ordered     *)
(* pair is its key.  A connection whose exchange is complete on one side   *)
(* is a candidate there.  A side takes its first candidate, waits a while  *)
(* for better ones, keeps the best and drops all others - without a word   *)
(* to the other side about which.                                          *)
(*                                                                         *)
(* A link is a TCP connection that may come about.  A stranger's link has  *)
(* an end on one side only: something else that reached the punch port, or *)
(* was reached through a guessed one.                                      *)
(*                                                                         *)
(* Abstracted: which ports and addresses make which links possible, the    *)
(* attempts that lead to none, rotation over targets, the report.  The     *)
(* random numbers are all different.                                       *)
(***************************************************************************)
EXTENDS Integers, Sequences, FiniteSets

CONSTANTS
  NumLinks,     \* bound: TCP connections that come about in one punch
  Draws,        \* the random numbers tried, each in [Peers -> [Links -> Nat]]
  Options,      \* the settings of prefer_lan tried, each in [Peers -> BOOLEAN]
  MaxTimeouts   \* bound: exchanges that time out between the two sides

Peers == {"sender", "receiver"}
Other(p) == IF p = "sender" THEN "receiver" ELSE "sender"
Links == 1 .. NumLinks
NoLink == 0

ASSUME PunchAssumption ==
  /\ NumLinks \in Nat \ {0}
  /\ MaxTimeouts \in Nat
  /\ Options \subseteq [Peers -> BOOLEAN]
  /\ \A d \in Draws :
       /\ d \in [Peers -> [Links -> Nat]]
       /\ \A p, q \in Peers, c, e \in Links : d[p][c] = d[q][e] => p = q /\ c = e

VARIABLES
  ends,       \* how each side came by a link: connect_task, listener, or not at all
  lan,        \* is_lan, as each side would classify the link
  preferLan,  \* the option prefer_lan of each side
  drawn,      \* the random number of each side's socket
  up,         \* the links whose TCP handshake is done
  at,         \* what each side is doing with a link
  coming,     \* what is on its way to a side on a link
  listening,  \* the sides whose listener task still has its socket
  main,       \* where punch_connection stands
  found,      \* the channel of candidates
  winner,
  seen,       \* the candidates taken from the channel (history)
  timeouts

ways == <<ends, lan, preferLan, drawn>>
vars == <<ways, up, at, coming, listening, main, found, winner, seen, timeouts>>

Ends == {"connect", "accept", "none"}
\* "greeted": the own number is sent.  "candidate": the exchange is complete.
LinkStates == {"idle", "greeted", "candidate", "gone"}

TypeOK ==
  /\ ends \in [Peers -> [Links -> Ends]]
  /\ lan \in [Peers -> [Links -> BOOLEAN]]
  /\ preferLan \in [Peers -> BOOLEAN]
  /\ drawn \in [Peers -> [Links -> Nat]]
  /\ up \subseteq Links
  /\ at \in [Peers -> [Links -> LinkStates]]
  /\ coming \in [Peers -> [Links -> {"nothing", "number", "junk"}]]
  /\ listening \subseteq Peers
  /\ main \in [Peers -> {"wait", "grace", "ok", "err"}]
  /\ found \in [Peers -> Seq(Links)]
  /\ winner \in [Peers -> Links \cup {NoLink}]
  /\ \A p \in Peers : winner[p] = NoLink <=> main[p] \in {"wait", "err"}
  /\ seen \in [Peers -> SUBSET Links]
  /\ timeouts \in Nat

\* A link has a connecting end or comes from a stranger.  When both ends connect
\* (simultaneous open) both sides go by the relay's mark on the target, which is the
\* same for both; an accepting end goes by the address it sees, which may be private
\* where the target was not marked, and the other way round.  What a stranger's link is
\* classified as is without effect: it does not become a candidate.
Possible(c) ==
  LET connects == {p \in Peers : ends[p][c] = "connect"}
      strange == {p \in Peers : ends[p][c] = "none"}
  IN /\ connects # {} \/ strange # {}
     /\ strange # Peers
     /\ connects = Peers => lan["sender"][c] = lan["receiver"][c]
     /\ \A p \in strange : ~lan[p][c] /\ ~lan[Other(p)][c]

Init ==
  /\ ends \in [Peers -> [Links -> Ends]]
  /\ lan \in [Peers -> [Links -> BOOLEAN]]
  /\ \A c \in Links : Possible(c)
  /\ preferLan \in Options
  /\ drawn \in Draws
  /\ up = {}
  /\ at = [p \in Peers |-> [c \in Links |-> "idle"]]
  /\ coming = [p \in Peers |-> [c \in Links |-> "nothing"]]
  /\ listening = Peers
  /\ main = [p \in Peers |-> "wait"]
  /\ found = [p \in Peers |-> <<>>]
  /\ winner = [p \in Peers |-> NoLink]
  /\ seen = [p \in Peers |-> {}]
  /\ timeouts = 0

Strange(c) == \E p \in Peers : ends[p][c] = "none"
Running(p) == main[p] \in {"wait", "grace"}

----------------------------------------------------------------------------
(* The connection tasks and the listener task of one side.                 *)

\* The TCP handshake needs a socket that connects or listens at the other end.
Reachable(q, c) ==
  \/ ends[q][c] = "none"
  \/ ends[q][c] = "connect" /\ Running(q) /\ at[q][c] = "idle"
  \/ ends[q][c] = "accept" /\ q \in listening /\ at[q][c] = "idle"

\* The listener has one connection at a time; each connecting task has its own.
ListenerFree(p) ==
  p \in listening
    /\ \A c \in Links : ends[p][c] = "accept" => at[p][c] # "greeted"

\* A side finds a link connected - the first to do so makes it up - and pre_handshake
\* begins with the own number.  What a stranger sends is not the magic and version.
Greet(p, c) ==
  /\ at[p][c] = "idle" /\ ends[p][c] # "none" /\ Running(p)
  /\ ends[p][c] = "accept" => ListenerFree(p)
  /\ c \in up \/ Reachable(Other(p), c)
  /\ up' = up \cup {c}
  /\ at' = [at EXCEPT ![p][c] = "greeted"]
  /\ coming' = IF ends[Other(p)][c] = "none" THEN [coming EXCEPT ![p][c] = "junk"]
               ELSE IF at[Other(p)][c] = "gone" THEN coming
               ELSE [coming EXCEPT ![Other(p)][c] = "number"]
  /\ UNCHANGED <<ways, listening, main, found, winner, seen, timeouts>>

\* A listener's later connections in the backlog are reset when its socket closes.
Refused(p, a) ==
  [c \in Links |-> IF ends[p][c] = "accept" /\ a[c] = "idle" THEN "gone" ELSE a[c]]

BecomesCandidate(p, c) ==
  LET a == [at[p] EXCEPT ![c] = "candidate"]
  IN /\ found' = [found EXCEPT ![p] = Append(@, c)]
     /\ IF ends[p][c] = "accept"
        THEN listening' = listening \ {p} /\ at' = [at EXCEPT ![p] = Refused(p, a)]
        ELSE at' = [at EXCEPT ![p] = a] /\ UNCHANGED listening
     /\ UNCHANGED <<ways, up, coming, main, winner, seen, timeouts>>

\* Mutant: the magic is not compared.
RecognizeAnything(p, c) ==
  at[p][c] = "greeted" /\ coming[p][c] # "nothing" /\ BecomesCandidate(p, c)

\* The other number has come: the task hands the connection over and ends - and with
\* the listener's task, the listener.
Recognize(p, c) ==
  at[p][c] = "greeted" /\ coming[p][c] = "number" /\ BecomesCandidate(p, c)

\* The exchange fails: junk, the other end closed, or one second without an answer.
\* The socket is dropped; what has come may be lost with the other end's reset.
Fails(p, c) ==
  /\ at[p][c] = "greeted"
  /\ \/ Strange(c) /\ UNCHANGED timeouts
     \/ at[Other(p)][c] = "gone" /\ UNCHANGED timeouts
     \/ timeouts < MaxTimeouts /\ timeouts' = timeouts + 1

\* Mutant: the listener's task ends with its first connection, good or bad.
RejectAndStop(p, c) ==
  /\ Fails(p, c)
  /\ LET a == [at[p] EXCEPT ![c] = "gone"]
     IN IF ends[p][c] = "accept"
        THEN listening' = listening \ {p} /\ at' = [at EXCEPT ![p] = Refused(p, a)]
        ELSE at' = [at EXCEPT ![p] = a] /\ UNCHANGED listening
  /\ UNCHANGED <<ways, up, coming, main, found, winner, seen>>

Reject(p, c) ==
  /\ Fails(p, c)
  /\ at' = [at EXCEPT ![p][c] = "gone"]
  /\ UNCHANGED <<ways, up, coming, listening, main, found, winner, seen>>

----------------------------------------------------------------------------
(* The choice.                                                             *)

\* Mutant: the pair as the side sees it, its own number first.
KeyAsSeen(p, c) == <<drawn[p][c], drawn[Other(p)][c]>>

\* Both sides compute the same pair for the same link.
Key(p, c) ==
  LET own == drawn[p][c] other == drawn[Other(p)][c]
  IN IF own <= other THEN <<own, other>> ELSE <<other, own>>

Smaller(k, l) == k[1] < l[1] \/ (k[1] = l[1] /\ k[2] < l[2])

IsBetter(p, new, cur) ==
  IF preferLan[p] /\ lan[p][new] # lan[p][cur]
  THEN lan[p][new]
  ELSE Smaller(Key(p, new), Key(p, cur))

\* stop_all, and the end of punch_connection: all sockets but the winner's are closed.
Stop(p, outcome) ==
  /\ main' = [main EXCEPT ![p] = outcome]
  /\ at' = [at EXCEPT ![p] =
              [c \in Links |-> IF c = winner'[p] THEN @[c] ELSE "gone"]]
  /\ listening' = listening \ {p}
  /\ found' = [found EXCEPT ![p] = <<>>]

\* A candidate in the same local network is not worth waiting for better ones.
First(p) ==
  /\ main[p] = "wait" /\ found[p] # <<>>
  /\ LET c == Head(found[p])
     IN /\ winner' = [winner EXCEPT ![p] = c]
        /\ seen' = [seen EXCEPT ![p] = @ \cup {c}]
        /\ IF preferLan[p] /\ lan[p][c]
           THEN Stop(p, "ok")
           ELSE /\ main' = [main EXCEPT ![p] = "grace"]
                /\ found' = [found EXCEPT ![p] = Tail(@)]
                /\ UNCHANGED <<at, listening>>
  /\ UNCHANGED <<ways, up, coming, timeouts>>

\* Of two candidates the worse is dropped, and its socket closed.
Compare(p) ==
  /\ main[p] = "grace" /\ found[p] # <<>>
  /\ LET c == Head(found[p])
         better == IsBetter(p, c, winner[p])
     IN /\ winner' = [winner EXCEPT ![p] = IF better THEN c ELSE @]
        /\ seen' = [seen EXCEPT ![p] = @ \cup {c}]
        /\ at' = [at EXCEPT ![p][IF better THEN winner[p] ELSE c] = "gone"]
        /\ found' = [found EXCEPT ![p] = Tail(@)]
  /\ UNCHANGED <<ways, up, coming, listening, main, timeouts>>

\* The window closes; candidates still in the channel are not looked at.
GraceEnds(p) ==
  /\ main[p] = "grace"
  /\ UNCHANGED winner
  /\ Stop(p, "ok")
  /\ UNCHANGED <<ways, up, coming, seen, timeouts>>

\* Mutant: the end of the time is taken for success.
GiveUpOk(p) ==
  /\ main[p] = "wait" /\ found[p] = <<>>
  /\ UNCHANGED winner
  /\ Stop(p, "ok")
  /\ UNCHANGED <<ways, up, coming, seen, timeouts>>

\* No candidate in the time for punching.
GiveUp(p) ==
  /\ main[p] = "wait" /\ found[p] = <<>>
  /\ UNCHANGED winner
  /\ Stop(p, "err")
  /\ UNCHANGED <<ways, up, coming, seen, timeouts>>

----------------------------------------------------------------------------
Task(p, c) == Greet(p, c) \/ Recognize(p, c) \/ Reject(p, c)
Choice(p) == First(p) \/ Compare(p) \/ GraceEnds(p)

Over == (\A p \in Peers : ~Running(p)) /\ UNCHANGED vars

Next ==
  \/ \E p \in Peers, c \in Links : Task(p, c)
  \/ \E p \in Peers : Choice(p) \/ GiveUp(p)
  \/ Over

Spec == Init /\ [][Next]_vars

\* Every task and both programs are scheduled.  Nothing makes a link come about or a
\* side give up.
Fairness ==
  \A p \in Peers : WF_vars(Choice(p)) /\ \A c \in Links : WF_vars(c \in up /\ Task(p, c))

FairSpec == Spec /\ Fairness

----------------------------------------------------------------------------
(* Properties.                                                             *)

Established(p) == main[p] = "ok"

\* The connection a side keeps is open and leads to the other side, which has begun the
\* exchange on it - whoever else has reached a punch port or was reached through a guessed one
\* (helpers.rs:80-82).
WinnerLeadsToPeer ==
  \A p \in Peers : Established(p) =>
    /\ at[p][winner[p]] = "candidate"
    /\ ends[Other(p)][winner[p]] # "none"
    /\ at[Other(p)][winner[p]] # "idle"

\* Two sides that prefer alike, classify alike and have looked at the same candidates
\* keep the same one, in whatever order these came to each (strategy.rs:169-179).
SameViewSameWinner ==
  (\A p \in Peers : Established(p)) /\ seen["sender"] = seen["receiver"]
    /\ preferLan["sender"] = preferLan["receiver"]
    /\ (\A c \in seen["sender"] : lan["sender"][c] = lan["receiver"][c])
    => winner["sender"] = winner["receiver"]

\* The comment at strategy.rs:169-173: both sides make the same choice without a
\* further word ("Die Auswahl ist damit ohne weitere Absprache auf beiden Seiten
\* dieselbe").
WinnersAgree ==
  (\A p \in Peers : Established(p)) => winner["sender"] = winner["receiver"]

\* Once a connection between the two sides is up, both of them end with one, unless an
\* exchange times out or a side's time is over: a stranger that holds the listener only
\* delays it (strategy.rs:372-394), and what one side drops the other had another for.
BothEstablish ==
  [](timeouts = 0 /\ \A p \in Peers : main[p] # "err")
    => \A c \in Links :
         (c \in up /\ ~Strange(c)) ~> (\A p \in Peers : Established(p))
=============================================================================
