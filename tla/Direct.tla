------------------------------- MODULE Direct -------------------------------
(***************************************************************************)
(* The direct messaging service of the BitBook daemon                      *)
(* (src/modern/direct/service.go): signed envelopes between peers, the     *)
(* durable outbox, the replay filter and the chat history, as every peer   *)
(* runs them at once over streams that may fail at any point.              *)
(*                                                                         *)
(* An envelope's random 20-byte ID becomes the pair of its sender and the  *)
(* instant of its creation, which is as unique; an instant is the number   *)
(* of envelopes the sender has created, so a sender's timestamps increase. *)
(* Only timestamps of one sender are ever compared.  Texts, signatures and *)
(* frames are left out: peers are honest, so verify() refuses an envelope  *)
(* only when the clocks disagree (HandlerFails).                           *)
(*                                                                         *)
(* Datastore writes are atomic and survive a crash; locks, calls, retry    *)
(* passes and streams do not.                                              *)
(***************************************************************************)
EXTENDS Naturals, Sequences, FiniteSets

CONSTANTS
    Peer,           \* the peers that run the daemon
    Worker,         \* the goroutines that serve one peer's API calls
    Stream,         \* slots for direct streams that are open at one time
    Subject,        \* the conversation subjects
    NoSubject,      \* the empty subject: an ordinary two-party conversation
    NoId,           \* the empty replyTo
    NoStream,       \* no stream is open
    Ops,            \* Ops[p]: the API operations the user of p calls
    MaxEnvelopes,   \* bound: MaxEnvelopes[p] is how many envelopes p creates
    MaxRemoved,     \* bound: a user removes while fewer messages are removed
    MaxCrashes,     \* bound: crashes in one behaviour
    Faults          \* whether storage errors and clock skew happen

Operation == {"chat", "follow", "unfollow", "read", "delete"}
Kind == {"chat", "follow", "unfollow", "read"}
MsgId == Peer \X Nat

ASSUME DirectAssumption ==
    /\ NoSubject \in Subject
    /\ NoId \notin MsgId
    /\ NoStream \notin Stream
    /\ Ops \in [Peer -> SUBSET Operation]
    /\ MaxEnvelopes \in [Peer -> Nat]
    /\ MaxRemoved \in Nat
    /\ MaxCrashes \in Nat
    /\ Faults \in BOOLEAN

Envelope == [kind : Kind, sender : Peer, recipient : Peer,
             subject : Subject, replyTo : MsgId \cup {NoId}, ts : Nat]

Id(e) == <<e.sender, e.ts>>

(* One entry of a peer's stored chat history.  An entry with gone = TRUE    *)
(* has been removed from the stored list by its user: the code no longer    *)
(* sees it, the properties do.                                              *)
Entry == [id : MsgId, peer : Peer, subject : Subject, outgoing : BOOLEAN,
          read : BOOLEAN, gone : BOOLEAN]

VARIABLES
    clock,       \* clock[p]: envelopes p has created
    following,   \* following[p]: peers p follows, in its social store
    followers,   \* followers[p][q]: newest follow state of q that p knows
    messages,    \* messages[p]: chat history under /bitbook/direct/messages
    outbox,      \* outbox[p]: envelopes under /bitbook/direct/outbox
    seen,        \* seen[p]: IDs under /bitbook/direct/seen
    call,        \* call[p][w]: the API call that worker w of p serves
    pass,        \* pass[p]: the RetryPending pass of p, holder of outboxMu
    stream,      \* stream[s]: a direct stream and the handler at its end
    crashes,     \* crashes so far
    issued,      \* history: every envelope created
    promised     \* history: envelopes a call reported delivered or queued

durable == <<clock, following, followers, messages, outbox, seen>>
history == <<issued, promised>>
vars == <<durable, call, pass, stream, crashes, history>>

-----------------------------------------------------------------------------
(* The local values of a call, of a retry pass and of a stream.            *)

Idle == [stage |-> "idle"]
Call ==
    {Idle}
    \cup [stage : {"notify"}, kind : {"follow", "unfollow"}, peer : Peer]
    \cup [stage : {"receipt"}, peer : Peer, subject : Subject, last : MsgId]
    \cup [stage : {"put", "deliver", "queue"}, env : Envelope]
    \cup [stage : {"wait"}, env : Envelope, stream : Stream]

Off == [on |-> FALSE]
Pass ==
    {Off}
    \cup [on : {TRUE}, todo : Seq(Envelope), remaining : Seq(Envelope),
          stream : Stream \cup {NoStream}]

(* server: how far handleStream got; waited: whether deliver() still reads. *)
Free == [server |-> "free"]
Working == {"sent", "apply", "mark"}
Finished == {"accepted", "rejected", "dead"}
Exchange ==
    {Free} \cup [server : Working \cup Finished, env : Envelope, waited : BOOLEAN]

FollowState == [following : BOOLEAN, ts : Nat]

TypeOK ==
    /\ clock \in [Peer -> Nat]
    /\ following \in [Peer -> SUBSET Peer]
    /\ followers \in [Peer -> [Peer -> FollowState]]
    /\ messages \in [Peer -> Seq(Entry)]
    /\ outbox \in [Peer -> Seq(Envelope)]
    /\ seen \in [Peer -> SUBSET MsgId]
    /\ call \in [Peer -> [Worker -> Call]]
    /\ pass \in [Peer -> Pass]
    /\ stream \in [Stream -> Exchange]
    /\ crashes \in Nat
    /\ issued \subseteq Envelope
    /\ promised \subseteq Envelope

Init ==
    /\ clock = [p \in Peer |-> 0]
    /\ following = [p \in Peer |-> {}]
    /\ followers = [p \in Peer |-> [q \in Peer |-> [following |-> FALSE, ts |-> 0]]]
    /\ messages = [p \in Peer |-> <<>>]
    /\ outbox = [p \in Peer |-> <<>>]
    /\ seen = [p \in Peer |-> {}]
    /\ call = [p \in Peer |-> [w \in Worker |-> Idle]]
    /\ pass = [p \in Peer |-> Off]
    /\ stream = [s \in Stream |-> Free]
    /\ crashes = 0
    /\ issued = {}
    /\ promised = {}

-----------------------------------------------------------------------------
(* Helpers.                                                                 *)

InSeq(x, s) == \E i \in DOMAIN s : s[i] = x

(* Defects.  An operator whose comment begins with "Defect" is not part of  *)
(* the model: it is a variant of the definition after it with a plausible   *)
(* bug, kept to show which property notices the bug.                        *)

(* Defect: the clock is read with an offset that can pass below zero.       *)
NewEnvelopeEarly(p, kind, q, subject, replyTo) ==
    [kind |-> kind, sender |-> p, recipient |-> q, subject |-> subject,
     replyTo |-> replyTo, ts |-> clock[p] - 1]

(* newEnvelope: the next envelope of p, stamped with p's clock.             *)
NewEnvelope(p, kind, q, subject, replyTo) ==
    [kind |-> kind, sender |-> p, recipient |-> q, subject |-> subject,
     replyTo |-> replyTo, ts |-> clock[p] + 1]

CanIssue(p) == clock[p] < MaxEnvelopes[p]

Issue(p, e) ==
    /\ clock' = [clock EXCEPT ![p] = @ + 1]
    /\ issued' = issued \cup {e}

SetCall(p, w, c) == call' = [call EXCEPT ![p][w] = c]

(* putMessage: append the entry unless its ID is already in the list.       *)
Listed(p, id) == \E i \in DOMAIN messages[p] :
                    messages[p][i].id = id /\ ~messages[p][i].gone

Put(p, m) ==
    messages' = IF Listed(p, m.id) THEN messages
                ELSE [messages EXCEPT ![p] = Append(@, m)]

(* The indices of p's stored messages exchanged with q under a subject.     *)
Thread(p, q, subject, outgoing) ==
    {i \in DOMAIN messages[p] :
        /\ ~messages[p][i].gone
        /\ messages[p][i].peer = q
        /\ messages[p][i].subject = subject
        /\ messages[p][i].outgoing = outgoing}

MarkRead(p, indices) ==
    messages' = [messages EXCEPT ![p] =
        [i \in DOMAIN @ |->
            IF i \in indices THEN [@[i] EXCEPT !.read = TRUE] ELSE @[i]]]

CanRemove(p) ==
    Cardinality({i \in DOMAIN messages[p] : messages[p][i].gone}) < MaxRemoved

Remove(p, indices) ==
    messages' = [messages EXCEPT ![p] =
        [i \in DOMAIN @ |->
            IF i \in indices THEN [@[i] EXCEPT !.gone = TRUE] ELSE @[i]]]

(* A stream whose handler has finished and whose reader has left is gone.   *)
Settle(x) == IF ~x.waited /\ x.server \in Finished THEN Free ELSE x

(* The bound on streams delays a delivery, it never makes one fail.         *)
SlotFree == \E s \in Stream : stream[s] = Free

Opened(e) == [server |-> "sent", env |-> e, waited |-> TRUE]

(* deliver() stops reading the stream: deadline, reset or return.           *)
Abandoned(s) ==
    IF stream[s] = Free THEN Free ELSE Settle([stream[s] EXCEPT !.waited = FALSE])

Reached(s, to) == stream' = [stream EXCEPT ![s] = Settle([@ EXCEPT !.server = to])]

(* outboxMu is free: the only long holder is a retry pass.                  *)
(* Defect: queue() does not take the lock.                                  *)
OutboxOpen(p) == TRUE

OutboxFree(p) == pass[p] = Off

(* Defect: deliver() does not look at ack.Accepted.                         *)
AnswerRead(s, e) ==
    /\ stream[s].server \in {"accepted", "rejected"}
    /\ stream[s].waited
    /\ Id(stream[s].env) = Id(e)

(* deliver() returns nil: an accepting acknowledgement with the right ID.   *)
Acknowledged(s, e) ==
    /\ stream[s].server = "accepted"
    /\ stream[s].waited
    /\ Id(stream[s].env) = Id(e)

-----------------------------------------------------------------------------
(* API calls.  Every one runs on a worker of its own, one step at a time.   *)

(* SendChat up to putMessage: checks and newEnvelope.                       *)
SendChat(p, w, q, subject) ==
    LET e == NewEnvelope(p, "chat", q, subject, NoId) IN
    /\ "chat" \in Ops[p]
    /\ call[p][w] = Idle
    /\ q # p
    /\ CanIssue(p)
    /\ Issue(p, e)
    /\ SetCall(p, w, [stage |-> "put", env |-> e])
    /\ UNCHANGED <<following, followers, messages, outbox, seen, pass, stream,
                   crashes, promised>>

(* SendChat stores the message in the sender's own history, then sends it.  *)
PutOutgoing(p, w) ==
    /\ call[p][w].stage = "put"
    /\ LET e == call[p][w].env IN
       /\ Put(p, [id |-> Id(e), peer |-> e.recipient, subject |-> e.subject,
                  outgoing |-> TRUE, read |-> FALSE, gone |-> FALSE])
       /\ SetCall(p, w, [stage |-> "deliver", env |-> e])
    /\ UNCHANGED <<clock, following, followers, outbox, seen, pass, stream,
                   crashes, history>>

(* The follow handler of the API: social.Follow or social.Unfollow ... Only *)
(* Follow refuses p itself.  If the list is saved and the count of the      *)
(* profile is not, the call fails and nobody is told.                       *)
Follow(p, w, q, kind) ==
    /\ kind \in Ops[p] \cap {"follow", "unfollow"}
    /\ call[p][w] = Idle
    /\ kind = "follow" => q # p
    /\ CanIssue(p)
    /\ following' = [following EXCEPT ![p] =
                        IF kind = "follow" THEN @ \cup {q} ELSE @ \ {q}]
    /\ \E failed \in BOOLEAN :
          /\ failed => Faults
          /\ SetCall(p, w, IF failed THEN Idle
                           ELSE [stage |-> "notify", kind |-> kind, peer |-> q])
    /\ UNCHANGED <<clock, followers, messages, outbox, seen, pass, stream,
                   crashes, history>>

(* ... and SendFollow, after the new root was committed and published.      *)
SendFollow(p, w) ==
    /\ call[p][w].stage = "notify"
    /\ LET e == NewEnvelope(p, call[p][w].kind, call[p][w].peer, NoSubject, NoId) IN
       /\ Issue(p, e)
       /\ SetCall(p, w, [stage |-> "deliver", env |-> e])
    /\ UNCHANGED <<following, followers, messages, outbox, seen, pass, stream,
                   crashes, promised>>

(* Defect: the first message instead of the newest.                         *)
Oldest(p, indices) ==
    {i \in indices : \A j \in indices : messages[p][i].id[2] <= messages[p][j].id[2]}

Newest(p, indices) ==
    {i \in indices : \A j \in indices : messages[p][j].id[2] <= messages[p][i].id[2]}

(* MarkAsRead: markIncomingRead; a call that changes nothing returns.       *)
MarkAsRead(p, w, q, subject) ==
    LET incoming == Thread(p, q, subject, FALSE) IN
    /\ "read" \in Ops[p]
    /\ call[p][w] = Idle
    /\ CanIssue(p)
    /\ \E i \in incoming : ~messages[p][i].read
    /\ \E last \in Newest(p, incoming) :
          SetCall(p, w, [stage |-> "receipt", peer |-> q, subject |-> subject,
                         last |-> messages[p][last].id])
    /\ MarkRead(p, incoming)
    /\ UNCHANGED <<clock, following, followers, outbox, seen, pass, stream,
                   crashes, history>>

(* MarkAsRead, second half: the read receipt names the newest message.      *)
SendReceipt(p, w) ==
    /\ call[p][w].stage = "receipt"
    /\ LET c == call[p][w]
           e == NewEnvelope(p, "read", c.peer, c.subject, c.last) IN
       /\ Issue(p, e)
       /\ SetCall(p, w, [stage |-> "deliver", env |-> e])
    /\ UNCHANGED <<following, followers, messages, outbox, seen, pass, stream,
                   crashes, promised>>

(* DeleteMessage drops the message with this ID from p's history.           *)
DeleteMessage(p, id) ==
    /\ "delete" \in Ops[p]
    /\ CanRemove(p)
    /\ Listed(p, id)
    /\ Remove(p, {i \in DOMAIN messages[p] : messages[p][i].id = id})
    /\ UNCHANGED <<clock, following, followers, outbox, seen, call, pass, stream,
                   crashes, history>>

(* DeleteConversation drops what p exchanged with q under no subject.       *)
DeleteConversation(p, q) ==
    LET indices == Thread(p, q, NoSubject, TRUE) \cup Thread(p, q, NoSubject, FALSE) IN
    /\ "delete" \in Ops[p]
    /\ CanRemove(p)
    /\ indices # {}
    /\ Remove(p, indices)
    /\ UNCHANGED <<clock, following, followers, outbox, seen, call, pass, stream,
                   crashes, history>>

-----------------------------------------------------------------------------
(* sendDurable: deliver, and queue what could not be delivered.             *)

(* deliver() reaches the recipient, opens a stream and writes the frame.    *)
(* A host does not connect to itself.                                       *)
CallOpens(p, w, s) ==
    /\ call[p][w].stage = "deliver"
    /\ call[p][w].env.recipient # p
    /\ stream[s] = Free
    /\ stream' = [stream EXCEPT ![s] = Opened(call[p][w].env)]
    /\ SetCall(p, w, [stage |-> "wait", env |-> call[p][w].env, stream |-> s])
    /\ UNCHANGED <<durable, pass, crashes, history>>

CallDelivered(p, w) ==
    /\ call[p][w].stage = "wait"
    /\ LET c == call[p][w] IN
       /\ Acknowledged(c.stream, c.env)
       /\ stream' = [stream EXCEPT ![c.stream] = Free]
       /\ promised' = promised \cup {c.env}
    /\ SetCall(p, w, Idle)
    /\ UNCHANGED <<durable, pass, crashes, issued>>

(* deliver() returns an error before a stream is open: the peer is not      *)
(* found, cannot be dialled, or the deadline has passed.                    *)
CallUnreachable(p, w) ==
    /\ call[p][w].stage = "deliver"
    /\ SlotFree
    /\ SetCall(p, w, [stage |-> "queue", env |-> call[p][w].env])
    /\ UNCHANGED <<durable, pass, stream, crashes, history>>

(* deliver() returns an error after the frame was written: a deadline, a    *)
(* lost stream or a refusal.  The handler may still be running.             *)
CallGivesUp(p, w) ==
    /\ call[p][w].stage = "wait"
    /\ stream' = [stream EXCEPT ![call[p][w].stream] = Abandoned(call[p][w].stream)]
    /\ SetCall(p, w, [stage |-> "queue", env |-> call[p][w].env])
    /\ UNCHANGED <<durable, pass, crashes, history>>

(* queue() needs outboxMu, which a retry pass keeps from start to end.      *)
CallQueued(p, w) ==
    /\ call[p][w].stage = "queue"
    /\ OutboxFree(p)
    /\ LET e == call[p][w].env IN
       /\ outbox' = IF \E i \in DOMAIN outbox[p] : Id(outbox[p][i]) = Id(e)
                    THEN outbox
                    ELSE [outbox EXCEPT ![p] = Append(@, e)]
       /\ promised' = promised \cup {e}
    /\ SetCall(p, w, Idle)
    /\ UNCHANGED <<clock, following, followers, messages, seen, pass, stream,
                   crashes, issued>>

(* A datastore error ends the call: it reports an error and promises        *)
(* nothing.                                                                 *)
CallFails(p, w) ==
    /\ Faults
    /\ \/ call[p][w].stage = "put"
       \/ call[p][w].stage = "queue" /\ OutboxFree(p)
    /\ SetCall(p, w, Idle)
    /\ UNCHANGED <<durable, pass, stream, crashes, history>>

-----------------------------------------------------------------------------
(* RetryPending: one pass over the outbox as it was loaded, outboxMu held   *)
(* throughout.                                                              *)

RetryStart(p) ==
    /\ pass[p] = Off
    /\ outbox[p] # <<>>
    /\ pass' = [pass EXCEPT ![p] = [on |-> TRUE, todo |-> outbox[p],
                                    remaining |-> <<>>, stream |-> NoStream]]
    /\ UNCHANGED <<durable, call, stream, crashes, history>>

Retrying(p) == pass[p].on /\ pass[p].todo # <<>>

(* The pass turns to the next envelope, having kept these.                  *)
Advanced(x, remaining) ==
    [on |-> TRUE, todo |-> Tail(x.todo), remaining |-> remaining, stream |-> NoStream]

RetryOpens(p, s) ==
    /\ Retrying(p)
    /\ pass[p].stream = NoStream
    /\ Head(pass[p].todo).recipient # p
    /\ stream[s] = Free
    /\ stream' = [stream EXCEPT ![s] = Opened(Head(pass[p].todo))]
    /\ pass' = [pass EXCEPT ![p].stream = s]
    /\ UNCHANGED <<durable, call, crashes, history>>

RetryDelivered(p) ==
    /\ Retrying(p)
    /\ pass[p].stream # NoStream
    /\ Acknowledged(pass[p].stream, Head(pass[p].todo))
    /\ stream' = [stream EXCEPT ![pass[p].stream] = Free]
    /\ pass' = [pass EXCEPT ![p] = Advanced(@, @.remaining)]
    /\ UNCHANGED <<durable, call, crashes, history>>

(* Defect: the pass forgets the envelope.                                   *)
RetryDrops(p) ==
    /\ Retrying(p)
    /\ pass[p].stream # NoStream \/ SlotFree
    /\ stream' = IF pass[p].stream = NoStream THEN stream
                 ELSE [stream EXCEPT ![pass[p].stream] = Abandoned(pass[p].stream)]
    /\ pass' = [pass EXCEPT ![p] = Advanced(@, @.remaining)]
    /\ UNCHANGED <<durable, call, crashes, history>>

(* The envelope could not be delivered: the pass keeps it and moves on.     *)
RetryKeeps(p) ==
    /\ Retrying(p)
    /\ pass[p].stream # NoStream \/ SlotFree
    /\ stream' = IF pass[p].stream = NoStream THEN stream
                 ELSE [stream EXCEPT ![pass[p].stream] = Abandoned(pass[p].stream)]
    /\ pass' = [pass EXCEPT
          ![p] = Advanced(@, Append(@.remaining, Head(@.todo)))]
    /\ UNCHANGED <<durable, call, crashes, history>>

(* Defect: the pass returns without unlocking outboxMu.                     *)
RetrySavesLocked(p) ==
    /\ pass[p].on
    /\ pass[p].todo = <<>>
    /\ outbox' = [outbox EXCEPT ![p] = pass[p].remaining]
    /\ UNCHANGED <<clock, following, followers, messages, seen, call, pass, stream,
                   crashes, history>>

RetrySaves(p) ==
    /\ pass[p].on
    /\ pass[p].todo = <<>>
    /\ outbox' = [outbox EXCEPT ![p] = pass[p].remaining]
    /\ pass' = [pass EXCEPT ![p] = Off]
    /\ UNCHANGED <<clock, following, followers, messages, seen, call, stream,
                   crashes, history>>

RetrySaveFails(p) ==
    /\ Faults
    /\ pass[p].on
    /\ pass[p].todo = <<>>
    /\ pass' = [pass EXCEPT ![p] = Off]
    /\ UNCHANGED <<durable, call, stream, crashes, history>>

-----------------------------------------------------------------------------
(* handleStream and accept at the recipient.  No lock is held from the      *)
(* replay check to the mark, and the handler does not stop when the sender  *)
(* gives up.                                                                *)

(* Defect: the ID is recorded at the replay check already.                  *)
CheckSeenMarks(s) ==
    /\ stream[s].server = "sent"
    /\ LET e == stream[s].env IN
       /\ Reached(s, IF Id(e) \in seen[e.recipient] THEN "accepted" ELSE "apply")
       /\ seen' = [seen EXCEPT ![e.recipient] = @ \cup {Id(e)}]
    /\ UNCHANGED <<clock, following, followers, messages, outbox, call, pass,
                   crashes, history>>

(* verify() passes; a replay is accepted without being applied again.       *)
CheckSeen(s) ==
    /\ stream[s].server = "sent"
    /\ LET e == stream[s].env IN
       Reached(s, IF Id(e) \in seen[e.recipient] THEN "accepted" ELSE "apply")
    /\ UNCHANGED <<durable, call, pass, crashes, history>>

(* putMessage into the recipient's history.                                 *)
ApplyChat(s) ==
    /\ stream[s].server = "apply"
    /\ LET e == stream[s].env IN
       /\ e.kind = "chat"
       /\ Put(e.recipient, [id |-> Id(e), peer |-> e.sender, subject |-> e.subject,
                            outgoing |-> FALSE, read |-> FALSE, gone |-> FALSE])
    /\ Reached(s, "mark")
    /\ UNCHANGED <<clock, following, followers, outbox, seen, call, pass, crashes,
                   history>>

(* Defect: no look at the timestamps.                                       *)
FollowStateLast(old, e) == [following |-> e.kind = "follow", ts |-> e.ts]

FollowStateAfter(old, e) ==
    IF e.ts > old.ts THEN [following |-> e.kind = "follow", ts |-> e.ts] ELSE old

(* social.ApplyFollower: only a newer state replaces the one stored.        *)
ApplyFollower(s) ==
    /\ stream[s].server = "apply"
    /\ LET e == stream[s].env IN
       /\ e.kind \in {"follow", "unfollow"}
       /\ followers' = [followers EXCEPT
             ![e.recipient][e.sender] = FollowStateAfter(@, e)]
    /\ Reached(s, "mark")
    /\ UNCHANGED <<clock, following, messages, outbox, seen, call, pass, crashes,
                   history>>

(* markOutgoingRead: the outgoing messages up to the one the receipt names, *)
(* which is looked up whatever its subject; none when it is not stored.     *)
Named(p, q, id) ==
    \E i \in DOMAIN messages[p] :
        /\ messages[p][i].id = id
        /\ messages[p][i].peer = q
        /\ messages[p][i].outgoing
        /\ ~messages[p][i].gone

(* Defect: the whole conversation is marked.                                *)
CoveredAll(p, q, subject, id) ==
    IF Named(p, q, id) THEN Thread(p, q, subject, TRUE) ELSE {}

Covered(p, q, subject, id) ==
    IF Named(p, q, id)
    THEN {i \in Thread(p, q, subject, TRUE) : messages[p][i].id[2] <= id[2]}
    ELSE {}

ApplyRead(s) ==
    /\ stream[s].server = "apply"
    /\ LET e == stream[s].env IN
       /\ e.kind = "read"
       /\ MarkRead(e.recipient, Covered(e.recipient, e.sender, e.subject, e.replyTo))
    /\ Reached(s, "mark")
    /\ UNCHANGED <<clock, following, followers, outbox, seen, call, pass, crashes,
                   history>>

MarkSeen(s) ==
    /\ stream[s].server = "mark"
    /\ LET e == stream[s].env IN
       seen' = [seen EXCEPT ![e.recipient] = @ \cup {Id(e)}]
    /\ Reached(s, "accepted")
    /\ UNCHANGED <<clock, following, followers, messages, outbox, call, pass,
                   crashes, history>>

(* accept() returns an error: a timestamp too far ahead of the recipient's  *)
(* clock, or a datastore error at the replay check, at the write that       *)
(* applies the envelope or at the mark.                                     *)
HandlerFails(s) ==
    /\ Faults
    /\ stream[s].server \in Working
    /\ Reached(s, "rejected")
    /\ UNCHANGED <<durable, call, pass, crashes, history>>

(* The frame is lost with the stream before the handler has read it.        *)
FrameLost(s) ==
    /\ stream[s].server = "sent"
    /\ Reached(s, "dead")
    /\ UNCHANGED <<durable, call, pass, crashes, history>>

-----------------------------------------------------------------------------
(* The daemon of p stops without warning and starts again: what was in      *)
(* memory is lost, what was stored is not.                                  *)
Crash(p) ==
    /\ crashes < MaxCrashes
    /\ crashes' = crashes + 1
    /\ call' = [call EXCEPT ![p] = [w \in Worker |-> Idle]]
    /\ pass' = [pass EXCEPT ![p] = Off]
    /\ stream' = [s \in Stream |->
          IF stream[s] = Free THEN Free
          ELSE IF stream[s].env.sender = p THEN Abandoned(s)
          ELSE IF stream[s].env.recipient = p /\ stream[s].server \in Working
               THEN Settle([stream[s] EXCEPT !.server = "dead"])
          ELSE stream[s]]
    /\ UNCHANGED <<durable, history>>

CallStep(p, w) ==
    \/ PutOutgoing(p, w)
    \/ SendFollow(p, w)
    \/ SendReceipt(p, w)
    \/ \E s \in Stream : CallOpens(p, w, s)
    \/ CallDelivered(p, w)
    \/ CallUnreachable(p, w)
    \/ CallGivesUp(p, w)
    \/ CallQueued(p, w)
    \/ CallFails(p, w)

UserStep(p) ==
    \/ \E w \in Worker, q \in Peer :
          \/ \E subject \in Subject : SendChat(p, w, q, subject)
          \/ \E kind \in {"follow", "unfollow"} : Follow(p, w, q, kind)
          \/ \E subject \in Subject : MarkAsRead(p, w, q, subject)
    \/ \E i \in DOMAIN messages[p] : DeleteMessage(p, messages[p][i].id)
    \/ \E q \in Peer : DeleteConversation(p, q)

RetryStep(p) ==
    \/ RetryStart(p)
    \/ \E s \in Stream : RetryOpens(p, s)
    \/ RetryDelivered(p)
    \/ RetryKeeps(p)
    \/ RetrySaves(p)
    \/ RetrySaveFails(p)

HandlerStep(s) ==
    \/ CheckSeen(s)
    \/ ApplyChat(s)
    \/ ApplyFollower(s)
    \/ ApplyRead(s)
    \/ MarkSeen(s)
    \/ HandlerFails(s)
    \/ FrameLost(s)

Next ==
    \/ \E p \in Peer :
          \/ UserStep(p)
          \/ RetryStep(p)
          \/ Crash(p)
          \/ \E w \in Worker : CallStep(p, w)
    \/ \E s \in Stream : HandlerStep(s)

Spec == Init /\ [][Next]_vars

(* Scheduling.  Goroutines that can run do run; outboxMu is not withheld    *)
(* from a waiter for ever; and an envelope that is tried again and again    *)
(* reaches its recipient again and again (the recipient is not unreachable  *)
(* at every single pass).                                                   *)
Sent(s, id) == CheckSeen(s) /\ Id(stream[s].env) = id

Attempted(p, n) ==
    \E s \in Stream : RetryOpens(p, s) /\ Head(pass[p].todo).ts = n

Fairness ==
    /\ \A p \in Peer, w \in Worker : SF_vars(CallStep(p, w))
    /\ \A p \in Peer : WF_vars(RetryStep(p))
    /\ \A s \in Stream : WF_vars(HandlerStep(s))
    /\ \A p \in Peer : \A n \in 1 .. MaxEnvelopes[p] :
          /\ SF_vars(Attempted(p, n))
          /\ SF_vars(\E s \in Stream : Sent(s, <<p, n>>))

FairSpec == Spec /\ Fairness

-----------------------------------------------------------------------------
(* Properties.                                                              *)

(* A call that reported an envelope delivered or queued told the truth for  *)
(* good: at every later moment, whatever crashes, times out or runs at the  *)
(* same time, the envelope is in the sender's outbox or the recipient has   *)
(* recorded it (sendDurable, queue, RetryPending, accept).                  *)
PromiseKept ==
    \A e \in promised :
        InSeq(e, outbox[e.sender]) \/ Id(e) \in seen[e.recipient]

(* The replay filter never hides an envelope whose effect is missing: a     *)
(* chat recorded as seen is in the recipient's history (or its user removed *)
(* it), a follow change is reflected by a state at least as new, and a read *)
(* receipt has marked the message it names (accept).                        *)
SeenApplied ==
    \A e \in issued : Id(e) \in seen[e.recipient] =>
        /\ e.kind = "chat" =>
              \E i \in DOMAIN messages[e.recipient] :
                  messages[e.recipient][i].id = Id(e)
        /\ e.kind \in {"follow", "unfollow"} =>
              followers[e.recipient][e.sender].ts >= e.ts
        /\ e.kind = "read" =>
              \A i \in DOMAIN messages[e.recipient] :
                  LET m == messages[e.recipient][i] IN
                  m.id = e.replyTo /\ m.subject = e.subject /\ ~m.gone => m.read

(* What p holds of q's follow state is what q said at that instant, so late *)
(* and repeated deliveries cannot mix two of q's changes (ApplyFollower).   *)
FollowerStateSaid ==
    \A p, q \in Peer : followers[p][q].ts > 0 =>
        \E e \in issued :
            /\ e.sender = q
            /\ e.recipient = p
            /\ e.ts = followers[p][q].ts
            /\ e.kind = IF followers[p][q].following THEN "follow" ELSE "unfollow"

(* Two handlers for one envelope (a retry beside a slow first attempt, or   *)
(* one after a crash) never leave the message twice in the history          *)
(* (putMessage).                                                            *)
NoDuplicateMessage ==
    \A p \in Peer : \A i, j \in DOMAIN messages[p] :
        /\ messages[p][i].id = messages[p][j].id
        /\ ~messages[p][i].gone
        /\ ~messages[p][j].gone
        => i = j

(* An envelope recorded as seen has had its effect, once.                   *)
AppliedOnce == SeenApplied /\ NoDuplicateMessage

(* A sender sees its message as read only if the recipient has marked as    *)
(* read this message or a later one of the conversation (MarkAsRead,        *)
(* markOutgoingRead).                                                       *)
ReadIsBacked ==
    \A p \in Peer : \A i \in DOMAIN messages[p] :
        LET m == messages[p][i] IN
        m.outgoing /\ m.read =>
            \E j \in DOMAIN messages[m.peer] :
                LET r == messages[m.peer][j] IN
                /\ r.peer = p
                /\ ~r.outgoing
                /\ r.subject = m.subject
                /\ r.id[2] >= m.id[2]
                /\ r.read

(* The envelopes that p's calls, its outbox or a handler still carry.       *)
Carried(p) ==
    {e \in issued :
        /\ e.sender = p
        /\ \/ InSeq(e, outbox[p])
           \/ \E w \in Worker : "env" \in DOMAIN call[p][w] /\ call[p][w].env = e}

(* As long as no daemon crashes and no write fails, and an API client       *)
(* changes its follows one at a time, two peers agree on who follows whom   *)
(* as soon as no change between them is under way (follow handler,          *)
(* SendFollow, ApplyFollower).                                              *)
FollowAgreement ==
    \A p, q \in Peer :
        \/ p = q
        \/ \E w \in Worker : call[p][w].stage = "notify" /\ call[p][w].peer = q
        \/ \E e \in Carried(p) : e.recipient = q /\ e.kind \in {"follow", "unfollow"}
        \/ (q \in following[p]) = followers[q][p].following

(* Follower states are what the follower said, and agree with its own list  *)
(* once no change is under way.                                             *)
FollowsAgree == FollowerStateSaid /\ FollowAgreement

(* A message shown as sent in p's history is being sent, queued, or         *)
(* recorded by its recipient.                                               *)
OutgoingAccounted ==
    \A p \in Peer : \A i \in DOMAIN messages[p] :
        LET m == messages[p][i] IN
        m.outgoing /\ ~m.gone =>
            \/ m.id \in seen[m.peer]
            \/ \E e \in Carried(p) : Id(e) = m.id

(* Whoever marked a message as read has told the sender, or still holds the *)
(* receipt that will: one that names this message or a later one.           *)
ReceiptOwed ==
    \A p \in Peer : \A i \in DOMAIN messages[p] :
        LET m == messages[p][i] IN
        ~m.outgoing /\ m.read =>
            \/ \E w \in Worker : /\ call[p][w].stage = "receipt"
                                 /\ call[p][w].peer = m.peer
                                 /\ call[p][w].subject = m.subject
                                 /\ call[p][w].last[2] >= m.id[2]
            \/ \E e \in issued :
                  /\ e.kind = "read"
                  /\ e.sender = p
                  /\ e.recipient = m.peer
                  /\ e.subject = m.subject
                  /\ e.replyTo[2] >= m.id[2]
                  /\ e \in Carried(p) \/ Id(e) \in seen[m.peer]

(* What a history owes to the other peer, a message or a receipt, is on its *)
(* way or has been recorded there.                                          *)
OwedIsCarried == OutgoingAccounted /\ ReceiptOwed

(* Every promised envelope to another peer is recorded by its recipient in  *)
(* the end.                                                                 *)
PromiseFulfilled ==
    \A p \in Peer : \A n \in 1 .. MaxEnvelopes[p] :
        (\E e \in promised : Id(e) = <<p, n>> /\ e.recipient # p) ~>
        (\E q \in Peer : <<p, n>> \in seen[q])

(* No call is stuck: not behind outboxMu, which a pass holds while it waits *)
(* for a peer, and not behind a peer that does not answer (queue, deliver). *)
CallsReturn == \A p \in Peer, w \in Worker : call[p][w] # Idle ~> call[p][w] = Idle
=============================================================================
