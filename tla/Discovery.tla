------------------------------ MODULE Discovery ------------------------------
(***************************************************************************)
(* Discovery of BitBook peers by one daemon (network/discovery.go): rounds *)
(* that probe candidates, the handler of inbound hellos, the table of      *)
(* confirmed peers and close().                                            *)
(*                                                                         *)
(* The host's network is not the daemon's code: connections come and go at *)
(* any time, the notices of it arrive later, in any order, and the table   *)
(* learns of connections only when it reads them (reconcileLocked).  The   *)
(* ID of a connection is never used again.                                 *)
(*                                                                         *)
(* A probe or a handler is a task: it has no stream yet (dialing), waits   *)
(* for the hello of the other end (hello), or has heard it and is about to *)
(* confirm the connection (heard), without any lock in between.            *)
(***************************************************************************)
EXTENDS Integers, Sequences, FiniteSets, SequencesExt

CONSTANTS
    Peer,           \* other peers: numbers, in the order of their IDs
    BitBook,        \* those that speak the discovery protocol
    Answering,      \* those of them that answer some probe after every other
    Provider,       \* those that the DHT may name, whether they speak it or not
    Conn,           \* connections that may ever be made
    PeerOf,         \* PeerOf[c]: the remote peer of connection c
    Prober,         \* the workers of a round (discoveryProbeConcurrency)
    Handler,        \* the slots of inbound handlers (discoveryInboundLimit)
    Capacity,       \* discoveryConfirmedCapacity
    ConnectedLimit, \* discoveryConnectedLimit
    RoundBudget,    \* the probes that may run into their deadline in one round
    Idle            \* a worker or a slot with no task

ASSUME DiscoveryAssumption ==
    /\ Peer \subseteq Nat /\ IsFiniteSet(Peer)
    /\ Answering \subseteq BitBook /\ BitBook \subseteq Peer
    /\ Provider \subseteq Peer
    /\ PeerOf \in [Conn -> Peer]
    /\ Capacity \in Nat \ {0}
    /\ ConnectedLimit \in Nat \ {0}
    /\ RoundBudget \in Nat \ {0}

VARIABLES
    open,       \* the connections that are up
    made,       \* history: the connections that were ever up
    observed,   \* observed[p]: the connections of p as the table saw them last
    confirmed,  \* the confirmed peers, the least recently confirmed first
    task,       \* task[w]: what a prober or a handler is doing
    round,      \* the candidates that the round under way has still to probe
    inRound,    \* a round is under way
    late,       \* how many probes of it have run into their deadline
    rotation,   \* where the next round starts among the connected peers
    life,       \* running, closing, closed
    spoken      \* history: peers that said hello and have been connected since

vars == <<open, made, observed, confirmed, task, round, inRound, late, rotation, life, spoken>>

Worker == Prober \cup Handler
Live(p) == {c \in open : PeerOf[c] = p}
Confirmed == ToSet(confirmed)

(* The numbers of a finite set in increasing order.                        *)
Ordered(S) ==
    CHOOSE f \in [1 .. Cardinality(S) -> S] : \A i, j \in DOMAIN f : i < j => f[i] < f[j]

(* The elements of a sequence that are not in S.                           *)
Dropping(s, S) ==
    LET kept == Ordered({i \in DOMAIN s : s[i] \notin S})
    IN [n \in DOMAIN kept |-> s[kept[n]]]

Init ==
    /\ open = {} /\ made = {}
    /\ observed = [p \in Peer |-> {}]
    /\ confirmed = <<>>
    /\ task = [w \in Worker |-> Idle]
    /\ round = <<>> /\ inRound = FALSE /\ late = 0 /\ rotation = 0
    /\ life = "running"
    /\ spoken = {}

-----------------------------------------------------------------------------
(* The table of confirmed peers; its lock is held over each of these.      *)

(* The peers whose confirmation ends when the table reads the connections  *)
(* of the peers in S: those it has not seen connected without a break.     *)
Lapsed(S) == {p \in S : observed[p] \cap Live(p) = {}}

Observed(S) == [p \in Peer |-> IF p \in S THEN Live(p) ELSE observed[p]]

Without(S) == Dropping(confirmed, S)

Reconcile(S) ==
    /\ observed' = Observed(S)
    /\ confirmed' = Without(Lapsed(S))

(* Defect: nobody leaves the table.                                        *)
ConfirmBeyond(p) ==
    /\ confirmed' = Append(Without({p}), p)
    /\ observed' = Observed({p})

(* A peer is confirmed now; if the table is full, the one confirmed least  *)
(* recently leaves it, with what was observed of its connections.          *)
Confirm(p) ==
    LET full == p \notin Confirmed /\ Len(confirmed) >= Capacity
    IN /\ confirmed' = Append(IF full THEN Tail(confirmed) ELSE Without({p}), p)
       /\ observed' = [q \in Peer |-> IF full /\ q = Head(confirmed) THEN {}
                                      ELSE IF q = p THEN Live(p) ELSE observed[q]]

(* Defect: any connection of the peer will do.                             *)
ConfirmPeerOf(c) ==
    LET p == PeerOf[c]
    IN IF Live(p) # {} THEN Confirm(p) ELSE Reconcile({p})

(* confirmConnection: only while the connection of the hello is up.        *)
ConfirmConnection(c) ==
    LET p == PeerOf[c]
    IN IF c \in open THEN Confirm(p) ELSE Reconcile({p})

-----------------------------------------------------------------------------
(* The host's network.                                                     *)

Connect(c) ==
    /\ c \notin made
    /\ open' = open \cup {c}
    /\ made' = made \cup {c}
    /\ UNCHANGED <<observed, confirmed, task, round, inRound, late, rotation, life, spoken>>

Disconnect(c) ==
    /\ c \in open
    /\ open' = open \ {c}
    /\ spoken' = IF Live(PeerOf[c]) = {c} THEN spoken \ {PeerOf[c]} ELSE spoken
    /\ UNCHANGED <<made, observed, confirmed, task, round, inRound, late, rotation, life>>

(* A notice of a connection that came or went; close() stops them.         *)
Notice(p) ==
    /\ life = "running"
    /\ Reconcile({p})
    /\ UNCHANGED <<open, made, task, round, inRound, late, rotation, life, spoken>>

(* BitBookPeers, at any time: what it returns is then in confirmed.        *)
BitBookPeers ==
    /\ Reconcile(Peer)
    /\ UNCHANGED <<open, made, task, round, inRound, late, rotation, life, spoken>>

-----------------------------------------------------------------------------
(* Rounds.                                                                 *)

(* At most ConnectedLimit of the connected peers, from the rotation on.    *)
Turn(connected) ==
    IF connected = <<>> THEN <<>>
    ELSE [i \in 1 .. Min({ConnectedLimit, Len(connected)}) |->
            connected[((rotation + i - 1) % Len(connected)) + 1]]

(* Defect: the next round starts where this one did.                       *)
NextRotationStays(connected) ==
    IF connected = <<>> THEN 0 ELSE rotation % Len(connected)

NextRotation(connected) ==
    IF connected = <<>> THEN 0
    ELSE ((rotation % Len(connected)) + Len(Turn(connected))) % Len(connected)

(* Defect: the loop is not cancelled.                                      *)
StartRoundAnyway ==
    /\ ~inRound
    /\ Reconcile(Peer)
    /\ round' = SetToSeq({p \in Peer : Live(p) # {}} \ ToSet(confirmed'))
    /\ inRound' = TRUE
    /\ UNCHANGED <<open, made, task, late, rotation, life, spoken>>

(* The ticker: providers that the DHT names first, then connected peers,   *)
(* nobody twice, no peer that is confirmed.                                *)
StartRound ==
    /\ life = "running" /\ ~inRound
    /\ inRound' = TRUE
    /\ UNCHANGED <<open, made, task, late, life, spoken>>
    /\ \E named \in SUBSET Provider :
         LET linked    == {p \in Peer : Live(p) # {}}
             known     == Confirmed \ Lapsed(named \cup linked)
             providers == SetToSeq(named \ known)
             connected == Ordered(linked \ known)
         IN /\ Reconcile(named \cup linked)
            /\ round' = providers \o Dropping(Turn(connected), named)
            /\ rotation' = NextRotation(connected)

(* The search for providers fails after it has named some of them, and the *)
(* round is over before it has candidates.                                 *)
SearchFails ==
    /\ life = "running" /\ ~inRound
    /\ \E named \in SUBSET Provider : Reconcile(named)
    /\ UNCHANGED <<open, made, task, round, inRound, late, rotation, life, spoken>>

(* The round is over once its candidates are probed or its time is up.     *)
EndRound ==
    /\ inRound
    /\ round = <<>> /\ \A w \in Prober : task[w] = Idle
    /\ inRound' = FALSE /\ late' = 0
    /\ UNCHANGED <<open, made, observed, confirmed, task, round, rotation, life, spoken>>

-----------------------------------------------------------------------------
(* Tasks.                                                                  *)

(* A prober takes the next candidate.                                      *)
Take(w) ==
    /\ w \in Prober /\ task[w] = Idle /\ round # <<>>
    /\ task' = [task EXCEPT ![w] = [stage |-> "dialing", peer |-> Head(round)]]
    /\ round' = Tail(round)
    /\ UNCHANGED <<open, made, observed, confirmed, inRound, late, rotation, life, spoken>>

(* NewStream uses a connection or makes one; trackStream refuses the       *)
(* stream once close() has begun.                                          *)
Dial(w) ==
    /\ task[w] # Idle /\ task[w].stage = "dialing"
    /\ \E c \in Conn :
         /\ PeerOf[c] = task[w].peer
         /\ c \in open \/ (c \notin made /\ Live(task[w].peer) = {})
         /\ open' = open \cup {c} /\ made' = made \cup {c}
         /\ task' = [task EXCEPT ![w] = IF life = "running" THEN [stage |-> "hello", conn |-> c]
                                        ELSE Idle]
    /\ UNCHANGED <<observed, confirmed, round, inRound, late, rotation, life, spoken>>

(* A peer opens a stream to this daemon and a slot is free.                *)
Accept(w) ==
    /\ w \in Handler /\ task[w] = Idle /\ life = "running"
    /\ \E c \in open : PeerOf[c] \in BitBook /\ task' = [task EXCEPT ![w] = [stage |-> "hello", conn |-> c]]
    /\ UNCHANGED <<open, made, observed, confirmed, round, inRound, late, rotation, life, spoken>>

(* The other end says hello; close() has reset the stream by then.         *)
Hear(w) ==
    /\ task[w] # Idle /\ task[w].stage = "hello"
    /\ task[w].conn \in open /\ PeerOf[task[w].conn] \in BitBook
    /\ life = "running"
    /\ task' = [task EXCEPT ![w].stage = "heard"]
    /\ spoken' = spoken \cup {PeerOf[task[w].conn]}
    /\ UNCHANGED <<open, made, observed, confirmed, round, inRound, late, rotation, life>>

Finish(w) ==
    /\ task[w] # Idle /\ task[w].stage = "heard"
    /\ task' = [task EXCEPT ![w] = Idle]
    /\ ConfirmConnection(task[w].conn)
    /\ UNCHANGED <<open, made, round, inRound, late, rotation, life, spoken>>

(* A stream or a dial that fails at once or by its deadline, or a wrong    *)
(* answer.  Probes that end late use up the time of their round, whose     *)
(* other candidates are then given up.                                     *)
Fails(w) ==
    /\ task[w] # Idle
    /\ task' = [task EXCEPT ![w] = Idle]
    /\ late' \in {late} \cup (IF w \in Prober THEN {late + 1} ELSE {})
    /\ round' = IF late' >= RoundBudget THEN <<>> ELSE round
    /\ UNCHANGED <<open, made, observed, confirmed, inRound, rotation, life, spoken>>

-----------------------------------------------------------------------------
(* close(): what is under way is cancelled and reset, then waited for.     *)

Close ==
    /\ life = "running"
    /\ life' = "closing"
    /\ round' = <<>>
    /\ UNCHANGED <<open, made, observed, confirmed, task, inRound, late, rotation, spoken>>

Closed ==
    /\ life = "closing"
    /\ ~inRound /\ \A w \in Worker : task[w] = Idle
    /\ life' = "closed"
    /\ UNCHANGED <<open, made, observed, confirmed, task, round, inRound, late, rotation, spoken>>

Next ==
    \/ \E c \in Conn : Connect(c) \/ Disconnect(c)
    \/ \E p \in Peer : Notice(p)
    \/ BitBookPeers
    \/ StartRound \/ SearchFails \/ EndRound
    \/ \E w \in Worker : Take(w) \/ Dial(w) \/ Accept(w) \/ Hear(w) \/ Finish(w) \/ Fails(w)
    \/ Close \/ Closed

Spec == Init /\ [][Next]_vars

(* Probers and the loop go on, and some searches for providers succeed;    *)
(* every task ends, by its deadline at least; among the probes of a peer   *)
(* that answers are always some that end in time.                          *)
Fairness ==
    /\ WF_vars(StartRound) /\ WF_vars(EndRound) /\ WF_vars(Closed)
    /\ \A w \in Prober : WF_vars(Take(w))
    /\ \A w \in Worker : WF_vars(Fails(w))
    /\ \A w \in Prober, p \in Answering :
         /\ SF_vars(Dial(w) /\ task[w].peer = p)
         /\ SF_vars(Hear(w) /\ PeerOf[task[w].conn] = p)
         /\ SF_vars(Finish(w) /\ PeerOf[task[w].conn] = p)

FairSpec == Spec /\ Fairness

-----------------------------------------------------------------------------
Task ==
    [stage : {"dialing"}, peer : Peer] \cup [stage : {"hello", "heard"}, conn : Conn]

(* Types; the table is within its capacity, knows a connection of every    *)
(* peer in it, and nothing is under way once close() has returned.         *)
TypeOK ==
    /\ made \subseteq Conn /\ open \subseteq made
    /\ observed \in [Peer -> SUBSET Conn]
    /\ confirmed \in Seq(Peer) /\ IsInjective(confirmed) /\ Len(confirmed) <= Capacity
    /\ \A p \in Confirmed : observed[p] # {}
    /\ task \in [Worker -> Task \cup {Idle}]
    /\ round \in Seq(Peer) /\ inRound \in BOOLEAN /\ late \in Nat /\ rotation \in Nat
    /\ life \in {"running", "closing", "closed"}
    /\ spoken \subseteq Peer
    /\ life = "closed" => round = <<>> /\ ~inRound /\ \A w \in Worker : task[w] = Idle

(* Whom the next reading of the connections leaves in the table, and hence *)
(* whom BitBookPeers reports, has said hello and has been connected ever   *)
(* since: neither a probe that ends late nor a reconnection that nobody    *)
(* noticed confirms a peer (confirmConnection and reconcileLocked).        *)
ConfirmedStaysConnected ==
    \A p \in Confirmed : observed[p] \cap Live(p) # {} => p \in spoken

(* A BitBook peer that stays connected is confirmed again and again, also  *)
(* if there are more connected peers than a round probes                   *)
(* (selectDiscoveryCandidates).                                            *)
PeersAreFound ==
    \A p \in Answering :
        <>[](life = "running" /\ Live(p) # {}) => []<>(p \in Confirmed)

(* close() returns, whatever it finds under way.                           *)
CloseReturns == life = "closing" ~> life = "closed"
=============================================================================
