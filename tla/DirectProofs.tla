---------------------------- MODULE DirectProofs ----------------------------
(***************************************************************************)
(* Theorems about Direct for every number of peers, workers and streams    *)
(* and every sequence of crashes and errors, in three parts: types; the    *)
(* promises of the service, which implements Courier; and what the peers'  *)
(* histories, receipts and follows say of each other.                      *)
(***************************************************************************)
EXTENDS DirectCourier, SequenceTheorems, TLAPS

LEMMA SettleType ==
    ASSUME NEW x \in Exchange, x # Free
    PROVE  Settle(x) \in Exchange
BY DEF Settle, Exchange, Free

LEMMA AbandonedType ==
    ASSUME TypeOK, NEW s \in Stream
    PROVE  Abandoned(s) \in Exchange
<1>1. CASE stream[s] = Free
  BY <1>1 DEF Abandoned, Exchange
<1>2. CASE stream[s] # Free
  <2> DEFINE x == [stream[s] EXCEPT !.waited = FALSE]
  <2>1. stream[s] \in [server : Working \cup Finished, env : Envelope, waited : BOOLEAN]
    BY <1>2 DEF TypeOK, Exchange
  <2>2. x \in [server : Working \cup Finished, env : Envelope, waited : BOOLEAN]
    BY <2>1
  <2>3. x.server # "free"
    BY <2>2 DEF Working, Finished
  <2>4. x \in Exchange /\ x # Free
    BY <2>2, <2>3 DEF Exchange, Free
  <2>5. Settle(x) \in Exchange
    BY <2>4, SettleType
  <2> QED BY <1>2, <2>5 DEF Abandoned
<1> QED BY <1>1, <1>2

LEMMA ReachedType ==
    ASSUME TypeOK, NEW s \in Stream, stream[s] # Free,
           NEW to \in Working \cup Finished, Reached(s, to)
    PROVE  stream' \in [Stream -> Exchange]
<1> DEFINE x == [stream[s] EXCEPT !.server = to]
<1>1. stream[s] \in [server : Working \cup Finished, env : Envelope, waited : BOOLEAN]
  BY DEF TypeOK, Exchange
<1>2. x \in [server : Working \cup Finished, env : Envelope, waited : BOOLEAN]
  BY <1>1
<1>3. x.server # "free"
  BY <1>2 DEF Working, Finished
<1>4. x \in Exchange /\ x # Free
  BY <1>2, <1>3 DEF Exchange, Free
<1>5. Settle(x) \in Exchange
  BY <1>4, SettleType
<1>6. stream' = [stream EXCEPT ![s] = Settle(x)]
  BY DEF Reached
<1> QED BY <1>5, <1>6 DEF TypeOK

(* The type of a stream or of a call, by the stage it has reached.          *)
LEMMA StreamType ==
    ASSUME TypeOK, NEW s \in Stream, stream[s].server # "free"
    PROVE  /\ stream[s] # Free
           /\ stream[s] \in [server : Working \cup Finished, env : Envelope,
                              waited : BOOLEAN]
           /\ stream[s].env \in Envelope
           /\ stream[s].env.sender \in Peer
           /\ stream[s].env.recipient \in Peer
           /\ Id(stream[s].env) \in MsgId
<1>1. stream[s] # Free
  BY DEF Free
<1>2. stream[s] \in [server : Working \cup Finished, env : Envelope, waited : BOOLEAN]
  BY <1>1 DEF TypeOK, Exchange
<1> QED BY <1>1, <1>2 DEF Envelope, Id, MsgId

LEMMA CallType ==
    ASSUME TypeOK, NEW p \in Peer, NEW w \in Worker
    PROVE  /\ call[p][w].stage = "notify" =>
                 call[p][w].kind \in {"follow", "unfollow"} /\ call[p][w].peer \in Peer
           /\ call[p][w].stage = "receipt" =>
                 /\ call[p][w].peer \in Peer
                 /\ call[p][w].subject \in Subject
                 /\ call[p][w].last \in MsgId
           /\ call[p][w].stage \in {"put", "deliver", "queue", "wait"} =>
                 call[p][w].env \in Envelope
           /\ call[p][w].stage = "wait" => call[p][w].stream \in Stream
<1>1. call[p][w] \in Call
  BY DEF TypeOK
<1> QED BY <1>1 DEF Call, Idle

LEMMA SetCallType ==
    ASSUME TypeOK, NEW p \in Peer, NEW w \in Worker, NEW c \in Call,
           SetCall(p, w, c)
    PROVE  call' \in [Peer -> [Worker -> Call]]
BY DEF TypeOK, SetCall

(* Follow leaves its call about to tell the peer or, if a write failed,     *)
(* over.                                                                    *)
LEMMA FollowCall ==
    ASSUME NEW p \in Peer, NEW w \in Worker, NEW q \in Peer,
           NEW kind \in {"follow", "unfollow"}, Follow(p, w, q, kind)
    PROVE  \E c \in Call :
              /\ SetCall(p, w, c)
              /\ \/ c = [stage |-> "notify", kind |-> kind, peer |-> q]
                 \/ c = Idle /\ Faults
<1>1. [stage |-> "notify", kind |-> kind, peer |-> q] \in Call /\ Idle \in Call
  BY DEF Call, Idle
<1> QED BY <1>1 DEF Follow

LEMMA IssueType ==
    ASSUME TypeOK, NEW p \in Peer, NEW kind \in Kind, NEW q \in Peer,
           NEW subject \in Subject, NEW replyTo \in MsgId \cup {NoId},
           Issue(p, NewEnvelope(p, kind, q, subject, replyTo))
    PROVE  /\ NewEnvelope(p, kind, q, subject, replyTo) \in Envelope
           /\ clock' \in [Peer -> Nat]
           /\ issued' \subseteq Envelope
<1>1. NewEnvelope(p, kind, q, subject, replyTo) \in Envelope
  BY DEF NewEnvelope, Envelope, TypeOK
<1> QED BY <1>1 DEF Issue, TypeOK

LEMMA PutType ==
    ASSUME TypeOK, NEW p \in Peer, NEW m \in Entry, Put(p, m)
    PROVE  messages' \in [Peer -> Seq(Entry)]
<1>1. Append(messages[p], m) \in Seq(Entry)
  BY DEF TypeOK
<1> QED BY <1>1 DEF Put, TypeOK

LEMMA MarkType ==
    ASSUME TypeOK, NEW p \in Peer, NEW indices, MarkRead(p, indices)
    PROVE  messages' \in [Peer -> Seq(Entry)]
<1> DEFINE s == messages[p]
           t == [i \in DOMAIN s |->
                    IF i \in indices THEN [s[i] EXCEPT !.read = TRUE] ELSE s[i]]
<1>1. s \in Seq(Entry)
  BY DEF TypeOK
<1>2. \A i \in DOMAIN s : s[i] \in Entry
  BY <1>1
<1>3. \A i \in DOMAIN s : [s[i] EXCEPT !.read = TRUE] \in Entry
  BY <1>2 DEF Entry
<1>4. Len(s) \in Nat /\ DOMAIN s = 1 .. Len(s)
  BY <1>1
<1>5. t \in Seq(Entry)
  <2>1. t \in [1 .. Len(s) -> Entry]
    BY <1>2, <1>3, <1>4
  <2> QED BY <2>1, <1>4
<1> QED BY <1>5 DEF MarkRead, TypeOK

LEMMA RemoveType ==
    ASSUME TypeOK, NEW p \in Peer, NEW indices, Remove(p, indices)
    PROVE  messages' \in [Peer -> Seq(Entry)]
<1> DEFINE s == messages[p]
           t == [i \in DOMAIN s |->
                    IF i \in indices THEN [s[i] EXCEPT !.gone = TRUE] ELSE s[i]]
<1>1. s \in Seq(Entry)
  BY DEF TypeOK
<1>2. \A i \in DOMAIN s : s[i] \in Entry
  BY <1>1
<1>3. \A i \in DOMAIN s : [s[i] EXCEPT !.gone = TRUE] \in Entry
  BY <1>2 DEF Entry
<1>4. Len(s) \in Nat /\ DOMAIN s = 1 .. Len(s)
  BY <1>1
<1>5. t \in Seq(Entry)
  <2>1. t \in [1 .. Len(s) -> Entry]
    BY <1>2, <1>3, <1>4
  <2> QED BY <2>1, <1>4
<1> QED BY <1>5 DEF Remove, TypeOK
-----------------------------------------------------------------------------
(* A step of any kind keeps every variable in its set.                      *)

LEMMA TypeUserStep ==
    ASSUME DirectAssumption, TypeOK, NEW p \in Peer, UserStep(p)
    PROVE  TypeOK'
<1>1. ASSUME NEW w \in Worker, NEW q \in Peer, NEW subject \in Subject,
             SendChat(p, w, q, subject)
      PROVE  TypeOK'
  <2> DEFINE e == NewEnvelope(p, "chat", q, subject, NoId)
  <2>1. Issue(p, e) /\ SetCall(p, w, [stage |-> "put", env |-> e])
    BY <1>1 DEF SendChat
  <2>2. e \in Envelope /\ clock' \in [Peer -> Nat] /\ issued' \subseteq Envelope
    BY <2>1, IssueType DEF Kind
  <2>3. [stage |-> "put", env |-> e] \in Call
    BY <2>2 DEF Call
  <2>4. call' \in [Peer -> [Worker -> Call]]
    BY <2>1, <2>3, SetCallType
  <2> QED BY <1>1, <2>2, <2>4 DEF SendChat, TypeOK
<1>2. ASSUME NEW w \in Worker, NEW q \in Peer, NEW kind \in {"follow", "unfollow"},
             Follow(p, w, q, kind)
      PROVE  TypeOK'
  <2>2. call' \in [Peer -> [Worker -> Call]]
    BY <1>2, FollowCall, SetCallType
  <2>3. following' \in [Peer -> SUBSET Peer]
    BY <1>2 DEF Follow, TypeOK
  <2> QED BY <1>2, <2>2, <2>3 DEF Follow, TypeOK, history
<1>3. ASSUME NEW w \in Worker, NEW q \in Peer, NEW subject \in Subject,
             MarkAsRead(p, w, q, subject)
      PROVE  TypeOK'
  <2> DEFINE incoming == Thread(p, q, subject, FALSE)
  <2>1. PICK last \in Newest(p, incoming) :
           SetCall(p, w, [stage |-> "receipt", peer |-> q, subject |-> subject,
                          last |-> messages[p][last].id])
    BY <1>3 DEF MarkAsRead
  <2>2. last \in DOMAIN messages[p]
    BY <2>1 DEF Newest, Thread
  <2>3. messages[p][last].id \in MsgId
    <3>1. messages[p] \in Seq(Entry)
      BY DEF TypeOK
    <3>2. messages[p][last] \in Entry
      BY <2>2, <3>1
    <3> QED BY <3>2 DEF Entry
  <2>4. [stage |-> "receipt", peer |-> q, subject |-> subject,
         last |-> messages[p][last].id] \in Call
    BY <2>3 DEF Call
  <2>5. call' \in [Peer -> [Worker -> Call]]
    BY <2>1, <2>4, SetCallType
  <2>6. messages' \in [Peer -> Seq(Entry)]
    BY <1>3, MarkType DEF MarkAsRead
  <2> QED BY <1>3, <2>5, <2>6 DEF MarkAsRead, TypeOK, history
<1>4. ASSUME NEW id, DeleteMessage(p, id)
      PROVE  TypeOK'
  <2>1. messages' \in [Peer -> Seq(Entry)]
    BY <1>4, RemoveType DEF DeleteMessage
  <2> QED BY <1>4, <2>1 DEF DeleteMessage, TypeOK, history
<1>5. ASSUME NEW q \in Peer, DeleteConversation(p, q)
      PROVE  TypeOK'
  <2>1. messages' \in [Peer -> Seq(Entry)]
    BY <1>5, RemoveType DEF DeleteConversation
  <2> QED BY <1>5, <2>1 DEF DeleteConversation, TypeOK, history
<1> QED BY <1>1, <1>2, <1>3, <1>4, <1>5 DEF UserStep

LEMMA TypeCallStep ==
    ASSUME DirectAssumption, TypeOK, NEW p \in Peer, NEW w \in Worker, CallStep(p, w)
    PROVE  TypeOK'
<1> DEFINE e == call[p][w].env
<1>1. CASE PutOutgoing(p, w)
  <2>1. e \in Envelope
    BY <1>1, CallType DEF PutOutgoing
  <2>2. [id |-> Id(e), peer |-> e.recipient, subject |-> e.subject,
         outgoing |-> TRUE, read |-> FALSE, gone |-> FALSE] \in Entry
    BY <2>1 DEF Entry, Id, MsgId, Envelope
  <2>3. messages' \in [Peer -> Seq(Entry)]
    BY <1>1, <2>2, PutType DEF PutOutgoing
  <2>4. [stage |-> "deliver", env |-> e] \in Call
    BY <2>1 DEF Call
  <2>5. call' \in [Peer -> [Worker -> Call]]
    BY <1>1, <2>4, SetCallType DEF PutOutgoing
  <2> QED BY <1>1, <2>3, <2>5 DEF PutOutgoing, TypeOK, history
<1>2. CASE SendFollow(p, w)
  <2> DEFINE f == NewEnvelope(p, call[p][w].kind, call[p][w].peer, NoSubject, NoId)
  <2>1. Issue(p, f) /\ SetCall(p, w, [stage |-> "deliver", env |-> f])
    BY <1>2 DEF SendFollow
  <2>2. call[p][w].kind \in Kind /\ call[p][w].peer \in Peer /\ NoSubject \in Subject
    BY <1>2, CallType DEF SendFollow, Kind, DirectAssumption
  <2>3. f \in Envelope /\ clock' \in [Peer -> Nat] /\ issued' \subseteq Envelope
    BY <2>1, <2>2, IssueType
  <2>4. [stage |-> "deliver", env |-> f] \in Call
    BY <2>3 DEF Call
  <2>5. call' \in [Peer -> [Worker -> Call]]
    BY <2>1, <2>4, SetCallType
  <2> QED BY <1>2, <2>3, <2>5 DEF SendFollow, TypeOK
<1>3. CASE SendReceipt(p, w)
  <2> DEFINE c == call[p][w]
             f == NewEnvelope(p, "read", c.peer, c.subject, c.last)
  <2>1. Issue(p, f) /\ SetCall(p, w, [stage |-> "deliver", env |-> f])
    BY <1>3 DEF SendReceipt
  <2>2. c.peer \in Peer /\ c.subject \in Subject /\ c.last \in MsgId \cup {NoId}
        /\ "read" \in Kind
    BY <1>3, CallType DEF SendReceipt, Kind
  <2>3. f \in Envelope /\ clock' \in [Peer -> Nat] /\ issued' \subseteq Envelope
    BY <2>1, <2>2, IssueType
  <2>4. [stage |-> "deliver", env |-> f] \in Call
    BY <2>3 DEF Call
  <2>5. call' \in [Peer -> [Worker -> Call]]
    BY <2>1, <2>4, SetCallType
  <2> QED BY <1>3, <2>3, <2>5 DEF SendReceipt, TypeOK
<1>4. ASSUME NEW s \in Stream, CallOpens(p, w, s)
      PROVE  TypeOK'
  <2>1. e \in Envelope
    BY <1>4, CallType DEF CallOpens
  <2>2. Opened(e) \in Exchange
    BY <2>1 DEF Opened, Exchange, Working
  <2>3. [stage |-> "wait", env |-> e, stream |-> s] \in Call
    BY <2>1 DEF Call
  <2>4. call' \in [Peer -> [Worker -> Call]]
    BY <1>4, <2>3, SetCallType DEF CallOpens
  <2> QED BY <1>4, <2>2, <2>4 DEF CallOpens, TypeOK, durable, history
<1>5. CASE CallDelivered(p, w)
  <2>1. call' \in [Peer -> [Worker -> Call]]
    BY <1>5, SetCallType DEF CallDelivered, Call
  <2>2. stream' \in [Stream -> Exchange]
    BY <1>5 DEF CallDelivered, TypeOK, Exchange
  <2>3. e \in Envelope
    BY <1>5, CallType DEF CallDelivered
  <2> QED BY <1>5, <2>1, <2>2, <2>3 DEF CallDelivered, TypeOK, durable
<1>6. CASE CallUnreachable(p, w)
  <2>1. [stage |-> "queue", env |-> e] \in Call
    BY <1>6, CallType DEF CallUnreachable, Call
  <2>2. call' \in [Peer -> [Worker -> Call]]
    BY <1>6, <2>1, SetCallType DEF CallUnreachable
  <2> QED BY <1>6, <2>2 DEF CallUnreachable, TypeOK, durable, history
<1>7. CASE CallGivesUp(p, w)
  <2>1. [stage |-> "queue", env |-> e] \in Call /\ call[p][w].stream \in Stream
    BY <1>7, CallType DEF CallGivesUp, Call
  <2>2. call' \in [Peer -> [Worker -> Call]]
    BY <1>7, <2>1, SetCallType DEF CallGivesUp
  <2>3. stream' \in [Stream -> Exchange]
    BY <1>7, <2>1, AbandonedType DEF CallGivesUp, TypeOK
  <2> QED BY <1>7, <2>2, <2>3 DEF CallGivesUp, TypeOK, durable, history
<1>8. CASE CallQueued(p, w)
  <2>1. call' \in [Peer -> [Worker -> Call]]
    BY <1>8, SetCallType DEF CallQueued, Call
  <2>2. e \in Envelope
    BY <1>8, CallType DEF CallQueued
  <2>3. Append(outbox[p], e) \in Seq(Envelope)
    BY <2>2 DEF TypeOK
  <2> QED BY <1>8, <2>1, <2>2, <2>3 DEF CallQueued, TypeOK
<1>9. CASE CallFails(p, w)
  <2>1. call' \in [Peer -> [Worker -> Call]]
    BY <1>9, SetCallType DEF CallFails, Call
  <2> QED BY <1>9, <2>1 DEF CallFails, TypeOK, durable, history
<1> QED BY <1>1, <1>2, <1>3, <1>4, <1>5, <1>6, <1>7, <1>8, <1>9 DEF CallStep

(* The head and the tail of a sequence that is not empty.                   *)
LEMMA HeadTail ==
    ASSUME NEW S, NEW s \in Seq(S), s # <<>>
    PROVE  /\ Head(s) \in S
           /\ Tail(s) \in Seq(S)
           /\ InSeq(Head(s), s)
           /\ \A i \in DOMAIN s : s[i] = Head(s) \/ InSeq(s[i], Tail(s))
           /\ \A i \in DOMAIN Tail(s) : InSeq(Tail(s)[i], s)
<1>1. /\ Len(s) \in Nat \ {0}
      /\ DOMAIN s = 1 .. Len(s)
      /\ Head(s) = s[1]
      /\ s[1] \in S
      /\ Tail(s) \in Seq(S)
      /\ Len(Tail(s)) = Len(s) - 1
      /\ DOMAIN Tail(s) = 1 .. Len(s) - 1
      /\ \A i \in 1 .. Len(s) - 1 : Tail(s)[i] = s[i + 1]
  OBVIOUS
<1>2. ASSUME NEW i \in DOMAIN s, s[i] # Head(s)
      PROVE  InSeq(s[i], Tail(s))
  <2>1. i - 1 \in DOMAIN Tail(s) /\ Tail(s)[i - 1] = s[i]
    BY <1>1, <1>2
  <2> QED BY <2>1 DEF InSeq
<1>3. ASSUME NEW i \in DOMAIN Tail(s)
      PROVE  InSeq(Tail(s)[i], s)
  <2>1. i + 1 \in DOMAIN s /\ Tail(s)[i] = s[i + 1]
    BY <1>1
  <2> QED BY <2>1 DEF InSeq
<1>4. InSeq(Head(s), s)
  BY <1>1 DEF InSeq
<1> QED BY <1>1, <1>2, <1>3, <1>4

(* The elements of a sequence with one more at its end.                     *)
LEMMA AppendMembers ==
    ASSUME NEW S, NEW s \in Seq(S), NEW e \in S
    PROVE  /\ InSeq(e, Append(s, e))
           /\ \A f : InSeq(f, s) => InSeq(f, Append(s, e))
           /\ \A i \in DOMAIN Append(s, e) :
                 \/ Append(s, e)[i] = e
                 \/ \E j \in DOMAIN s : Append(s, e)[i] = s[j]
<1>1. /\ Len(s) + 1 \in DOMAIN Append(s, e)
      /\ Append(s, e)[Len(s) + 1] = e
  OBVIOUS
<1>2. \A i \in DOMAIN s : i \in DOMAIN Append(s, e) /\ Append(s, e)[i] = s[i]
  OBVIOUS
<1>3. \A i \in DOMAIN Append(s, e) :
         Append(s, e)[i] = e \/ (i \in DOMAIN s /\ Append(s, e)[i] = s[i])
  OBVIOUS
<1> QED BY <1>1, <1>2, <1>3 DEF InSeq

LEMMA PassType ==
    ASSUME TypeOK, NEW p \in Peer, pass[p].on
    PROVE  /\ pass[p] \in [on : {TRUE}, todo : Seq(Envelope), remaining : Seq(Envelope),
                            stream : Stream \cup {NoStream}]
           /\ pass[p].todo \in Seq(Envelope)
           /\ pass[p].remaining \in Seq(Envelope)
           /\ pass[p].stream \in Stream \cup {NoStream}
<1>1. pass[p] \in Pass
  BY DEF TypeOK
<1>2. Off.on = FALSE
  BY DEF Off
<1>3. pass[p] # Off
  BY <1>2
<1>4. pass[p] \in [on : {TRUE}, todo : Seq(Envelope), remaining : Seq(Envelope),
                  stream : Stream \cup {NoStream}]
  BY <1>1, <1>3 DEF Pass
<1> QED BY <1>4

LEMMA CurrentType ==
    ASSUME TypeOK, NEW p \in Peer, Retrying(p)
    PROVE  Head(pass[p].todo) \in Envelope
BY PassType, HeadTail DEF Retrying

LEMMA AdvancedType ==
    ASSUME NEW x, x.todo \in Seq(Envelope), x.todo # <<>>,
           NEW remaining \in Seq(Envelope)
    PROVE  Advanced(x, remaining) \in
              [on : {TRUE}, todo : Seq(Envelope), remaining : Seq(Envelope),
               stream : Stream \cup {NoStream}]
<1>1. Tail(x.todo) \in Seq(Envelope)
  BY HeadTail
<1> QED BY <1>1 DEF Advanced

LEMMA TypeRetryStep ==
    ASSUME TypeOK, NEW p \in Peer, RetryStep(p)
    PROVE  TypeOK'
<1> DEFINE x == pass[p]
           R == [on : {TRUE}, todo : Seq(Envelope), remaining : Seq(Envelope),
                 stream : Stream \cup {NoStream}]
<1>0. R \subseteq Pass
  BY DEF Pass
<1>1. CASE RetryStart(p)
  <2>1. [on |-> TRUE, todo |-> outbox[p], remaining |-> <<>>, stream |-> NoStream] \in R
    BY DEF TypeOK
  <2> QED BY <1>0, <1>1, <2>1 DEF RetryStart, TypeOK, durable, history
<1>2. ASSUME NEW s \in Stream, RetryOpens(p, s)
      PROVE  TypeOK'
  <2>1. x \in R
    BY <1>2, PassType DEF RetryOpens, Retrying
  <2>2. [x EXCEPT !.stream = s] \in R
    BY <2>1
  <2>3. Opened(Head(x.todo)) \in Exchange
    BY <1>2, CurrentType DEF RetryOpens, Opened, Exchange, Working
  <2>4. pass' \in [Peer -> Pass]
    BY <1>0, <1>2, <2>2 DEF RetryOpens, TypeOK
  <2>5. stream' \in [Stream -> Exchange]
    BY <1>2, <2>3 DEF RetryOpens, TypeOK
  <2> QED BY <1>2, <2>4, <2>5 DEF RetryOpens, TypeOK, durable, history
<1>3. CASE RetryDelivered(p)
  <2>1. x \in R /\ x.todo \in Seq(Envelope) /\ x.todo # <<>> /\ x.remaining \in Seq(Envelope)
    BY <1>3, PassType DEF RetryDelivered, Retrying
  <2>2. Advanced(x, x.remaining) \in R
    BY <2>1, AdvancedType
  <2>3. pass' \in [Peer -> Pass]
    BY <1>0, <1>3, <2>2 DEF RetryDelivered, TypeOK
  <2>4. stream' \in [Stream -> Exchange]
    BY <1>3 DEF RetryDelivered, TypeOK, Exchange
  <2> QED BY <1>3, <2>3, <2>4 DEF RetryDelivered, TypeOK, durable, history
<1>4. CASE RetryKeeps(p)
  <2>1. /\ x \in R
        /\ x.todo \in Seq(Envelope) /\ x.todo # <<>>
        /\ x.remaining \in Seq(Envelope)
        /\ x.stream \in Stream \cup {NoStream}
    BY <1>4, PassType DEF RetryKeeps, Retrying
  <2>2. Head(x.todo) \in Envelope
    BY <1>4, CurrentType DEF RetryKeeps
  <2>3. Append(x.remaining, Head(x.todo)) \in Seq(Envelope)
    BY <2>1, <2>2
  <2>4. Advanced(x, Append(x.remaining, Head(x.todo))) \in R
    BY <2>1, <2>3, AdvancedType
  <2>5. pass' \in [Peer -> Pass]
    BY <1>0, <1>4, <2>4 DEF RetryKeeps, TypeOK
  <2>6. stream' \in [Stream -> Exchange]
    <3>1. CASE x.stream = NoStream
      BY <1>4, <3>1 DEF RetryKeeps, TypeOK
    <3>2. CASE x.stream # NoStream
      <4>1. Abandoned(x.stream) \in Exchange
        BY <2>1, <3>2, AbandonedType
      <4> QED BY <1>4, <3>2, <4>1 DEF RetryKeeps, TypeOK
    <3> QED BY <3>1, <3>2
  <2> QED BY <1>4, <2>5, <2>6 DEF RetryKeeps, TypeOK, durable, history
<1>5. CASE RetrySaves(p)
  <2>1. x.remaining \in Seq(Envelope)
    BY <1>5, PassType DEF RetrySaves
  <2> QED BY <1>5, <2>1 DEF RetrySaves, TypeOK, Pass, history
<1>6. CASE RetrySaveFails(p)
  BY <1>6 DEF RetrySaveFails, TypeOK, Pass, durable, history
<1> QED BY <1>1, <1>2, <1>3, <1>4, <1>5, <1>6 DEF RetryStep

LEMMA TypeHandlerStep ==
    ASSUME TypeOK, NEW s \in Stream, HandlerStep(s)
    PROVE  TypeOK'
<1> DEFINE e == stream[s].env
<1>1. stream[s].server \in Working
  BY DEF HandlerStep, CheckSeen, ApplyChat, ApplyFollower, ApplyRead, MarkSeen,
         HandlerFails, FrameLost, Working
<1>2. /\ stream[s] # Free
      /\ e \in Envelope
      /\ e.sender \in Peer
      /\ e.recipient \in Peer
      /\ Id(e) \in MsgId
  BY <1>1, StreamType DEF Working
<1>3. CASE CheckSeen(s)
  <2>1. stream' \in [Stream -> Exchange]
    BY <1>2, <1>3, ReachedType DEF CheckSeen, Working, Finished
  <2> QED BY <1>3, <2>1 DEF CheckSeen, TypeOK, durable, history
<1>4. CASE ApplyChat(s)
  <2>1. stream' \in [Stream -> Exchange]
    BY <1>2, <1>4, ReachedType DEF ApplyChat, Working
  <2>2. [id |-> Id(e), peer |-> e.sender, subject |-> e.subject,
         outgoing |-> FALSE, read |-> FALSE, gone |-> FALSE] \in Entry
    BY <1>2 DEF Entry, Envelope
  <2>3. messages' \in [Peer -> Seq(Entry)]
    BY <1>2, <1>4, <2>2, PutType DEF ApplyChat
  <2> QED BY <1>4, <2>1, <2>3 DEF ApplyChat, TypeOK, history
<1>5. CASE ApplyFollower(s)
  <2>1. stream' \in [Stream -> Exchange]
    BY <1>2, <1>5, ReachedType DEF ApplyFollower, Working
  <2>2. FollowStateAfter(followers[e.recipient][e.sender], e) \in FollowState
    BY <1>2 DEF FollowStateAfter, FollowState, TypeOK, Envelope
  <2>3. followers' \in [Peer -> [Peer -> FollowState]]
    BY <1>2, <1>5, <2>2 DEF ApplyFollower, TypeOK
  <2> QED BY <1>5, <2>1, <2>3 DEF ApplyFollower, TypeOK, history
<1>6. CASE ApplyRead(s)
  <2>1. stream' \in [Stream -> Exchange]
    BY <1>2, <1>6, ReachedType DEF ApplyRead, Working
  <2>2. messages' \in [Peer -> Seq(Entry)]
    BY <1>2, <1>6, MarkType DEF ApplyRead
  <2> QED BY <1>6, <2>1, <2>2 DEF ApplyRead, TypeOK, history
<1>7. CASE MarkSeen(s)
  <2>1. stream' \in [Stream -> Exchange]
    BY <1>2, <1>7, ReachedType DEF MarkSeen, Finished
  <2>2. seen' \in [Peer -> SUBSET MsgId]
    BY <1>2, <1>7 DEF MarkSeen, TypeOK
  <2> QED BY <1>7, <2>1, <2>2 DEF MarkSeen, TypeOK, history
<1>8. CASE HandlerFails(s)
  <2>1. stream' \in [Stream -> Exchange]
    BY <1>2, <1>8, ReachedType DEF HandlerFails, Finished
  <2> QED BY <1>8, <2>1 DEF HandlerFails, TypeOK, durable, history
<1>9. CASE FrameLost(s)
  <2>1. stream' \in [Stream -> Exchange]
    BY <1>2, <1>9, ReachedType DEF FrameLost, Finished
  <2> QED BY <1>9, <2>1 DEF FrameLost, TypeOK, durable, history
<1> QED BY <1>3, <1>4, <1>5, <1>6, <1>7, <1>8, <1>9 DEF HandlerStep

LEMMA TypeCrash ==
    ASSUME TypeOK, NEW p \in Peer, Crash(p)
    PROVE  TypeOK'
<1>1. stream' \in [Stream -> Exchange]
  <2> SUFFICES ASSUME NEW s \in Stream
               PROVE  stream'[s] \in Exchange
    BY DEF Crash
  <2>1. CASE stream[s] = Free
    BY <2>1 DEF Crash, Exchange
  <2>2. CASE stream[s] # Free /\ stream[s].env.sender = p
    BY <2>2, AbandonedType DEF Crash
  <2>3. CASE /\ stream[s] # Free
             /\ stream[s].env.sender # p
             /\ stream[s].env.recipient = p
             /\ stream[s].server \in Working
    <3> DEFINE x == [stream[s] EXCEPT !.server = "dead"]
    <3>1. stream[s] \in [server : Working \cup Finished, env : Envelope, waited : BOOLEAN]
      BY <2>3, StreamType DEF Working
    <3>2. x \in [server : Working \cup Finished, env : Envelope, waited : BOOLEAN]
      BY <3>1 DEF Finished
    <3>3. x \in Exchange /\ x.server = "dead"
      BY <3>1, <3>2 DEF Exchange
    <3>4. x # Free
      BY <3>3 DEF Free
    <3>5. Settle(x) \in Exchange
      BY <3>3, <3>4, SettleType
    <3> QED BY <2>3, <3>5 DEF Crash
  <2>4. CASE /\ stream[s] # Free
             /\ stream[s].env.sender # p
             /\ ~(stream[s].env.recipient = p /\ stream[s].server \in Working)
    BY <2>4 DEF Crash, TypeOK
  <2> QED BY <2>1, <2>2, <2>3, <2>4
<1>2. call' \in [Peer -> [Worker -> Call]]
  BY DEF Crash, TypeOK, Call
<1>3. pass' \in [Peer -> Pass]
  BY DEF Crash, TypeOK, Pass
<1>4. UNCHANGED <<durable, history>> /\ crashes' = crashes + 1
  BY DEF Crash
<1> QED BY <1>1, <1>2, <1>3, <1>4 DEF TypeOK, durable, history

(* Every variable of the direct service keeps its type: streams, calls and  *)
(* retry passes are never in a stage whose local values they do not have    *)
(* (all of service.go).                                                     *)
THEOREM DirectTypes == Spec => []TypeOK
<1>1. Init => TypeOK
  BY DirectAssumption DEF Init, TypeOK, FollowState, Call, Pass, Exchange
<1>2. TypeOK /\ [Next]_vars => TypeOK'
  <2> SUFFICES ASSUME TypeOK, [Next]_vars
               PROVE  TypeOK'
    OBVIOUS
  <2>1. CASE UNCHANGED vars
    BY <2>1 DEF vars, durable, history, TypeOK
  <2>2. CASE Next
    BY <2>2, DirectAssumption, TypeUserStep, TypeCallStep, TypeRetryStep,
       TypeHandlerStep, TypeCrash DEF Next
  <2> QED BY <2>1, <2>2
<1> QED BY <1>1, <1>2, PTL DEF Spec

-----------------------------------------------------------------------------
(* Promises.                                                                *)

(* Creation instants never exceed the creator's clock, ...                  *)
Fresh == \A e \in issued : e.ts <= clock[e.sender]

(* ... so that two envelopes never share an ID.                             *)
Unique == \A e, f \in issued : Id(e) = Id(f) => e = f

(* Calls, streams and outboxes carry envelopes that were created, and the   *)
(* first and the last only those of their own peer.                         *)
HasEnvelope(c) == c.stage \in {"put", "deliver", "queue", "wait"}

CallsKnown ==
    \A p \in Peer, w \in Worker : HasEnvelope(call[p][w]) =>
        call[p][w].env \in issued /\ call[p][w].env.sender = p

StreamsKnown == \A s \in Stream : stream[s] # Free => stream[s].env \in issued

OutboxKnown ==
    \A p \in Peer : \A i \in DOMAIN outbox[p] :
        outbox[p][i] \in issued /\ outbox[p][i].sender = p

(* A retry pass has an envelope of the outbox before it, keeps it, or knows *)
(* that it was recorded; and it has and keeps nothing else.                 *)
PassKeeps ==
    \A p \in Peer : pass[p].on =>
        /\ \A i \in DOMAIN outbox[p] :
              \/ InSeq(outbox[p][i], pass[p].todo)
              \/ InSeq(outbox[p][i], pass[p].remaining)
              \/ Id(outbox[p][i]) \in seen[outbox[p][i].recipient]
        /\ \A i \in DOMAIN pass[p].todo : InSeq(pass[p].todo[i], outbox[p])
        /\ \A i \in DOMAIN pass[p].remaining : InSeq(pass[p].remaining[i], outbox[p])

(* An accepting answer is only written when the envelope is recorded.       *)
AnswerBacked ==
    \A s \in Stream : stream[s].server = "accepted" =>
        Id(stream[s].env) \in seen[stream[s].env.recipient]

IInv ==
    /\ TypeOK
    /\ Fresh
    /\ Unique
    /\ CallsKnown
    /\ StreamsKnown
    /\ OutboxKnown
    /\ PassKeeps
    /\ AnswerBacked
    /\ PromiseKept
-----------------------------------------------------------------------------
(* What the steps of the service do to each variable.                       *)

LEMMA IssueEffect ==
    ASSUME DirectAssumption, TypeOK, Next
    PROVE  \/ UNCHANGED <<clock, issued>>
           \/ \E p \in Peer, kind \in Kind, q \in Peer, subject \in Subject,
                 replyTo \in MsgId \cup {NoId} :
                    Issue(p, NewEnvelope(p, kind, q, subject, replyTo))
<1>1. ASSUME NEW p \in Peer, UserStep(p)
      PROVE  \/ UNCHANGED <<clock, issued>>
             \/ \E kind \in Kind, q \in Peer, subject \in Subject,
                   replyTo \in MsgId \cup {NoId} :
                      Issue(p, NewEnvelope(p, kind, q, subject, replyTo))
  <2>1. CASE \E w \in Worker, q \in Peer, subject \in Subject : SendChat(p, w, q, subject)
    BY <2>1 DEF SendChat, Kind
  <2>2. CASE ~\E w \in Worker, q \in Peer, subject \in Subject : SendChat(p, w, q, subject)
    BY <1>1, <2>2 DEF UserStep, Follow, MarkAsRead, DeleteMessage, DeleteConversation,
       history
  <2> QED BY <2>1, <2>2
<1>2. ASSUME NEW p \in Peer, NEW w \in Worker, CallStep(p, w)
      PROVE  \/ UNCHANGED <<clock, issued>>
             \/ \E kind \in Kind, q \in Peer, subject \in Subject,
                   replyTo \in MsgId \cup {NoId} :
                      Issue(p, NewEnvelope(p, kind, q, subject, replyTo))
  <2>1. CASE SendFollow(p, w)
    BY <2>1, CallType, DirectAssumption DEF SendFollow, Kind
  <2>2. CASE SendReceipt(p, w)
    BY <2>2, CallType DEF SendReceipt, Kind
  <2>3. CASE ~SendFollow(p, w) /\ ~SendReceipt(p, w)
    BY <1>2, <2>3 DEF CallStep, PutOutgoing, CallOpens, CallDelivered, CallUnreachable,
       CallGivesUp, CallQueued, CallFails, durable, history
  <2> QED BY <2>1, <2>2, <2>3
<1>3. ASSUME NEW p \in Peer, RetryStep(p) \/ Crash(p)
      PROVE  UNCHANGED <<clock, issued>>
  BY <1>3 DEF RetryStep, RetryStart, RetryOpens, RetryDelivered, RetryKeeps, RetrySaves,
     RetrySaveFails, Crash, durable, history
<1>4. ASSUME NEW s \in Stream, HandlerStep(s)
      PROVE  UNCHANGED <<clock, issued>>
  BY <1>4 DEF HandlerStep, CheckSeen, ApplyChat, ApplyFollower, ApplyRead, MarkSeen,
     HandlerFails, FrameLost, durable, history
<1> QED BY <1>1, <1>2, <1>3, <1>4 DEF Next

LEMMA IssuedGrows ==
    ASSUME DirectAssumption, TypeOK, Next
    PROVE  issued \subseteq issued'
BY IssueEffect DEF Issue

LEMMA SeenEffect ==
    ASSUME TypeOK, Next
    PROVE  UNCHANGED seen \/ \E s \in Stream : MarkSeen(s)
<1>1. ASSUME NEW p \in Peer, UserStep(p) \/ RetryStep(p) \/ Crash(p)
      PROVE  UNCHANGED seen
  BY <1>1 DEF UserStep, SendChat, Follow, MarkAsRead, DeleteMessage, DeleteConversation,
     RetryStep, RetryStart, RetryOpens, RetryDelivered, RetryKeeps, RetrySaves,
     RetrySaveFails, Crash, durable
<1>2. ASSUME NEW p \in Peer, NEW w \in Worker, CallStep(p, w)
      PROVE  UNCHANGED seen
  BY <1>2 DEF CallStep, PutOutgoing, SendFollow, SendReceipt, CallOpens, CallDelivered,
     CallUnreachable, CallGivesUp, CallQueued, CallFails, durable
<1>3. ASSUME NEW s \in Stream, HandlerStep(s)
      PROVE  UNCHANGED seen \/ MarkSeen(s)
  BY <1>3 DEF HandlerStep, CheckSeen, ApplyChat, ApplyFollower, ApplyRead, HandlerFails,
     FrameLost, durable
<1> QED BY <1>1, <1>2, <1>3 DEF Next

LEMMA SeenGrows ==
    ASSUME TypeOK, Next, NEW p \in Peer
    PROVE  seen[p] \subseteq seen'[p]
BY SeenEffect, ZenonT(60) DEF MarkSeen, TypeOK

LEMMA OutboxEffect ==
    ASSUME TypeOK, Next
    PROVE  \/ UNCHANGED outbox
           \/ \E p \in Peer, w \in Worker : CallQueued(p, w)
           \/ \E p \in Peer : RetrySaves(p)
<1>1. ASSUME NEW p \in Peer, UserStep(p) \/ Crash(p)
      PROVE  UNCHANGED outbox
  BY <1>1 DEF UserStep, SendChat, Follow, MarkAsRead, DeleteMessage, DeleteConversation,
     Crash, durable
<1>2. ASSUME NEW p \in Peer, NEW w \in Worker, CallStep(p, w)
      PROVE  UNCHANGED outbox \/ CallQueued(p, w)
  BY <1>2 DEF CallStep, PutOutgoing, SendFollow, SendReceipt, CallOpens, CallDelivered,
     CallUnreachable, CallGivesUp, CallFails, durable
<1>3. ASSUME NEW p \in Peer, RetryStep(p)
      PROVE  UNCHANGED outbox \/ RetrySaves(p)
  BY <1>3 DEF RetryStep, RetryStart, RetryOpens, RetryDelivered, RetryKeeps,
     RetrySaveFails, durable
<1>4. ASSUME NEW s \in Stream, HandlerStep(s)
      PROVE  UNCHANGED outbox
  BY <1>4 DEF HandlerStep, CheckSeen, ApplyChat, ApplyFollower, ApplyRead, MarkSeen,
     HandlerFails, FrameLost, durable
<1> QED BY <1>1, <1>2, <1>3, <1>4 DEF Next

LEMMA PassEffect ==
    ASSUME TypeOK, Next
    PROVE  \/ UNCHANGED pass
           \/ \E p \in Peer : RetryStep(p) \/ Crash(p)
<1>1. ASSUME NEW p \in Peer, UserStep(p)
      PROVE  UNCHANGED pass
  BY <1>1 DEF UserStep, SendChat, Follow, MarkAsRead, DeleteMessage, DeleteConversation
<1>2. ASSUME NEW p \in Peer, NEW w \in Worker, CallStep(p, w)
      PROVE  UNCHANGED pass
  BY <1>2 DEF CallStep, PutOutgoing, SendFollow, SendReceipt, CallOpens, CallDelivered,
     CallUnreachable, CallGivesUp, CallQueued, CallFails
<1>3. ASSUME NEW s \in Stream, HandlerStep(s)
      PROVE  UNCHANGED pass
  BY <1>3 DEF HandlerStep, CheckSeen, ApplyChat, ApplyFollower, ApplyRead, MarkSeen,
     HandlerFails, FrameLost
<1> QED BY <1>1, <1>2, <1>3 DEF Next

LEMMA PromiseEffect ==
    ASSUME TypeOK, Next
    PROVE  \/ UNCHANGED promised
           \/ \E p \in Peer, w \in Worker : CallDelivered(p, w) \/ CallQueued(p, w)
<1>1. ASSUME NEW p \in Peer, UserStep(p) \/ RetryStep(p) \/ Crash(p)
      PROVE  UNCHANGED promised
  BY <1>1 DEF UserStep, SendChat, Follow, MarkAsRead, DeleteMessage, DeleteConversation,
     RetryStep, RetryStart, RetryOpens, RetryDelivered, RetryKeeps, RetrySaves,
     RetrySaveFails, Crash, history
<1>2. ASSUME NEW p \in Peer, NEW w \in Worker, CallStep(p, w)
      PROVE  UNCHANGED promised \/ CallDelivered(p, w) \/ CallQueued(p, w)
  BY <1>2 DEF CallStep, PutOutgoing, SendFollow, SendReceipt, CallOpens,
     CallUnreachable, CallGivesUp, CallFails, history
<1>3. ASSUME NEW s \in Stream, HandlerStep(s)
      PROVE  UNCHANGED promised
  BY <1>3 DEF HandlerStep, CheckSeen, ApplyChat, ApplyFollower, ApplyRead, MarkSeen,
     HandlerFails, FrameLost, history
<1> QED BY <1>1, <1>2, <1>3 DEF Next

-----------------------------------------------------------------------------
(* Identity of envelopes.                                                   *)

LEMMA FreshStep ==
    ASSUME DirectAssumption, TypeOK, Fresh, Unique, Next
    PROVE  Fresh' /\ Unique'
<1>1. CASE UNCHANGED <<clock, issued>>
  BY <1>1 DEF Fresh, Unique, Id
<1>2. ASSUME NEW p \in Peer, NEW kind \in Kind, NEW q \in Peer, NEW subject \in Subject,
             NEW replyTo \in MsgId \cup {NoId},
             Issue(p, NewEnvelope(p, kind, q, subject, replyTo))
      PROVE  Fresh' /\ Unique'
  <2> DEFINE e == NewEnvelope(p, kind, q, subject, replyTo)
  <2>1. /\ e.sender = p
        /\ e.ts = clock[p] + 1
        /\ clock[p] \in Nat
    BY DEF NewEnvelope, TypeOK
  <2>2. issued' = issued \cup {e} /\ clock' = [clock EXCEPT ![p] = clock[p] + 1]
    BY <1>2 DEF Issue
  <2>3. \A f \in issued : f.sender \in Peer /\ f.ts \in Nat
    BY DEF TypeOK, Envelope
  <2>4. Fresh'
    BY <2>1, <2>2, <2>3 DEF Fresh, TypeOK
  <2>5. \A f \in issued : Id(f) # Id(e)
    BY <2>1, <2>3 DEF Fresh, Id
  <2>6. Unique'
    BY <2>2, <2>5 DEF Unique, Id
  <2> QED BY <2>4, <2>6
<1> QED BY <1>1, <1>2, IssueEffect
-----------------------------------------------------------------------------
(* Who carries which envelopes.                                             *)

LEMMA CallsKnownStep ==
    ASSUME DirectAssumption, TypeOK, CallsKnown, Next
    PROVE  CallsKnown'
<1> SUFFICES ASSUME NEW p \in Peer, NEW w \in Worker, HasEnvelope(call'[p][w])
             PROVE  call'[p][w].env \in issued' /\ call'[p][w].env.sender = p
  BY DEF CallsKnown
<1>1. issued \subseteq issued'
  BY IssuedGrows
<1>2. CASE call'[p][w] = call[p][w]
  BY <1>1, <1>2 DEF CallsKnown
<1>3. ASSUME NEW q \in Peer, NEW v \in Worker, NEW c \in Call, SetCall(q, v, c),
             HasEnvelope(c) => c.env \in issued' /\ c.env.sender = q
      PROVE  call'[p][w].env \in issued' /\ call'[p][w].env.sender = p
  <2>1. CASE p = q /\ w = v
    BY <1>3, <2>1 DEF SetCall, TypeOK
  <2>2. CASE ~(p = q /\ w = v)
    BY <1>2, <1>3, <2>2 DEF SetCall, TypeOK
  <2> QED BY <2>1, <2>2
<1>4. ASSUME NEW q \in Peer, UserStep(q)
      PROVE  call'[p][w].env \in issued' /\ call'[p][w].env.sender = p
  <2>1. ASSUME NEW v \in Worker, NEW r \in Peer, NEW subject \in Subject,
               SendChat(q, v, r, subject)
        PROVE  call'[p][w].env \in issued' /\ call'[p][w].env.sender = p
    <3> DEFINE e == NewEnvelope(q, "chat", r, subject, NoId)
               c == [stage |-> "put", env |-> e]
    <3>1. Issue(q, e) /\ SetCall(q, v, c)
      BY <2>1 DEF SendChat
    <3>2. e \in Envelope
      BY <3>1, IssueType DEF Kind
    <3>3. c \in Call
      BY <3>2 DEF Call
    <3>4. c.env \in issued' /\ c.env.sender = q
      BY <3>1 DEF Issue, NewEnvelope
    <3> QED BY <1>3, <3>1, <3>3, <3>4
  <2>2. ASSUME NEW v \in Worker, NEW r \in Peer, NEW kind \in {"follow", "unfollow"},
               Follow(q, v, r, kind)
        PROVE  call'[p][w].env \in issued' /\ call'[p][w].env.sender = p
    <3>1. PICK c \in Call : SetCall(q, v, c) /\ ~HasEnvelope(c)
      BY <2>2, FollowCall DEF HasEnvelope, Idle
    <3> QED BY <1>3, <3>1
  <2>3. ASSUME NEW v \in Worker, NEW r \in Peer, NEW subject \in Subject,
               MarkAsRead(q, v, r, subject)
        PROVE  call'[p][w].env \in issued' /\ call'[p][w].env.sender = p
    <3> DEFINE c(last) == [stage |-> "receipt", peer |-> r, subject |-> subject,
                           last |-> messages[q][last].id]
    <3>1. PICK last \in Newest(q, Thread(q, r, subject, FALSE)) : SetCall(q, v, c(last))
      BY <2>3 DEF MarkAsRead
    <3>2. call'[q][v] = c(last) /\ ~HasEnvelope(c(last))
      BY <3>1 DEF SetCall, TypeOK, HasEnvelope
    <3>3. ~(p = q /\ w = v)
      BY <3>2
    <3> QED BY <1>2, <3>1, <3>3 DEF SetCall, TypeOK
  <2>4. CASE \E id : DeleteMessage(q, id)
    BY <1>2, <2>4 DEF DeleteMessage
  <2>5. CASE \E r \in Peer : DeleteConversation(q, r)
    BY <1>2, <2>5 DEF DeleteConversation
  <2> QED BY <1>4, <2>1, <2>2, <2>3, <2>4, <2>5 DEF UserStep
<1>5. ASSUME NEW q \in Peer, NEW v \in Worker, CallStep(q, v)
      PROVE  call'[p][w].env \in issued' /\ call'[p][w].env.sender = p
  <2> DEFINE e == call[q][v].env
  <2>1. CASE PutOutgoing(q, v)
    <3>1. e \in Envelope /\ e \in issued' /\ e.sender = q
      BY <1>1, <2>1, CallType DEF PutOutgoing, CallsKnown, HasEnvelope
    <3>2. [stage |-> "deliver", env |-> e] \in Call
      BY <3>1 DEF Call
    <3> QED BY <1>3, <2>1, <3>1, <3>2 DEF PutOutgoing
  <2>2. CASE SendFollow(q, v)
    <3> DEFINE f == NewEnvelope(q, call[q][v].kind, call[q][v].peer, NoSubject, NoId)
               c == [stage |-> "deliver", env |-> f]
    <3>1. Issue(q, f) /\ SetCall(q, v, c)
      BY <2>2 DEF SendFollow
    <3>2. call[q][v].kind \in Kind /\ call[q][v].peer \in Peer /\ NoSubject \in Subject
      BY <2>2, CallType DEF SendFollow, Kind, DirectAssumption
    <3>3. f \in Envelope
      BY <3>1, <3>2, IssueType
    <3>4. c \in Call
      BY <3>3 DEF Call
    <3>5. f \in issued' /\ f.sender = q
      BY <3>1 DEF Issue, NewEnvelope
    <3> QED BY <1>3, <3>1, <3>4, <3>5
  <2>3. CASE SendReceipt(q, v)
    <3> DEFINE b == call[q][v]
               f == NewEnvelope(q, "read", b.peer, b.subject, b.last)
               c == [stage |-> "deliver", env |-> f]
    <3>1. Issue(q, f) /\ SetCall(q, v, c)
      BY <2>3 DEF SendReceipt
    <3>2. b.peer \in Peer /\ b.subject \in Subject /\ b.last \in MsgId \cup {NoId}
          /\ "read" \in Kind
      BY <2>3, CallType DEF SendReceipt, Kind
    <3>3. f \in Envelope
      BY <3>1, <3>2, IssueType
    <3>4. c \in Call
      BY <3>3 DEF Call
    <3>5. f \in issued' /\ f.sender = q
      BY <3>1 DEF Issue, NewEnvelope
    <3> QED BY <1>3, <3>1, <3>4, <3>5
  <2>4. ASSUME NEW s \in Stream, CallOpens(q, v, s)
        PROVE  call'[p][w].env \in issued' /\ call'[p][w].env.sender = p
    <3>1. e \in Envelope /\ e \in issued' /\ e.sender = q
      BY <1>1, <2>4, CallType DEF CallOpens, CallsKnown, HasEnvelope
    <3>2. [stage |-> "wait", env |-> e, stream |-> s] \in Call
      BY <3>1 DEF Call
    <3> QED BY <1>3, <2>4, <3>1, <3>2 DEF CallOpens
  <2>5. CASE CallDelivered(q, v) \/ CallQueued(q, v) \/ CallFails(q, v)
    <3>1. Idle \in Call /\ ~HasEnvelope(Idle)
      BY DEF Call, Idle, HasEnvelope
    <3> QED BY <1>3, <2>5, <3>1 DEF CallDelivered, CallQueued, CallFails
  <2>6. CASE CallUnreachable(q, v) \/ CallGivesUp(q, v)
    <3>1. e \in Envelope /\ e \in issued' /\ e.sender = q
      BY <1>1, <2>6, CallType DEF CallUnreachable, CallGivesUp, CallsKnown, HasEnvelope
    <3>2. [stage |-> "queue", env |-> e] \in Call
      BY <3>1 DEF Call
    <3> QED BY <1>3, <2>6, <3>1, <3>2 DEF CallUnreachable, CallGivesUp
  <2> QED BY <1>5, <2>1, <2>2, <2>3, <2>4, <2>5, <2>6 DEF CallStep
<1>6. ASSUME NEW q \in Peer, RetryStep(q)
      PROVE  call'[p][w].env \in issued' /\ call'[p][w].env.sender = p
  BY <1>2, <1>6 DEF RetryStep, RetryStart, RetryOpens, RetryDelivered, RetryKeeps,
     RetrySaves, RetrySaveFails
<1>7. ASSUME NEW q \in Peer, Crash(q)
      PROVE  call'[p][w].env \in issued' /\ call'[p][w].env.sender = p
  <2>1. call' = [call EXCEPT ![q] = [v \in Worker |-> Idle]]
    BY <1>7 DEF Crash
  <2>2. CASE p = q
    BY <2>1, <2>2 DEF TypeOK, HasEnvelope, Idle
  <2>3. CASE p # q
    BY <1>2, <2>1, <2>3 DEF TypeOK
  <2> QED BY <2>2, <2>3
<1>8. ASSUME NEW s \in Stream, HandlerStep(s)
      PROVE  call'[p][w].env \in issued' /\ call'[p][w].env.sender = p
  BY <1>2, <1>8 DEF HandlerStep, CheckSeen, ApplyChat, ApplyFollower, ApplyRead, MarkSeen,
     HandlerFails, FrameLost
<1> QED BY <1>4, <1>5, <1>6, <1>7, <1>8 DEF Next

(* How one stream may change.                                               *)
LEMMA StreamEffect ==
    ASSUME DirectAssumption, TypeOK, CallsKnown, OutboxKnown, PassKeeps, Next,
           NEW s \in Stream
    PROVE  \/ stream'[s] = stream[s]
           \/ stream'[s] = Free
           \/ \E e \in issued : stream'[s] = Opened(e)
           \/ /\ stream[s] # Free
              /\ stream'[s].env = stream[s].env
              /\ \/ stream'[s].server = stream[s].server
                 \/ stream'[s].server # "accepted"
                 \/ Id(stream[s].env) \in seen'[stream[s].env.recipient]
<1> DEFINE Same == stream'[s] = stream[s]
           Fresher == \E e \in issued : stream'[s] = Opened(e)
           Further == /\ stream[s] # Free
                      /\ stream'[s].env = stream[s].env
                      /\ \/ stream'[s].server = stream[s].server
                         \/ stream'[s].server # "accepted"
                         \/ Id(stream[s].env) \in seen'[stream[s].env.recipient]
           Goal == Same \/ stream'[s] = Free \/ Fresher \/ Further
<1>1. ASSUME NEW to \in Working \cup Finished, stream[s] # Free,
             stream'[s] = Settle([stream[s] EXCEPT !.server = to]),
             \/ to # "accepted"
             \/ Id(stream[s].env) \in seen'[stream[s].env.recipient]
      PROVE  Goal
  <2> DEFINE x == [stream[s] EXCEPT !.server = to]
  <2>1. stream[s] \in [server : Working \cup Finished, env : Envelope, waited : BOOLEAN]
    BY <1>1 DEF TypeOK, Exchange
  <2>2. x.env = stream[s].env /\ x.server = to
    BY <2>1
  <2>3. stream'[s] = Free \/ stream'[s] = x
    BY <1>1 DEF Settle
  <2> QED BY <1>1, <2>2, <2>3
<1>2. ASSUME stream'[s] = Abandoned(s)
      PROVE  Goal
  <2>1. CASE stream[s] = Free
    BY <1>2, <2>1 DEF Abandoned
  <2>2. CASE stream[s] # Free
    <3> DEFINE x == [stream[s] EXCEPT !.waited = FALSE]
    <3>1. stream[s] \in [server : Working \cup Finished, env : Envelope, waited : BOOLEAN]
      BY <2>2 DEF TypeOK, Exchange
    <3>2. x.env = stream[s].env /\ x.server = stream[s].server
      BY <3>1
    <3>3. stream'[s] = Free \/ stream'[s] = x
      BY <1>2, <2>2 DEF Abandoned, Settle
    <3> QED BY <2>2, <3>2, <3>3
  <2> QED BY <2>1, <2>2
<1>3. ASSUME NEW p \in Peer, UserStep(p)
      PROVE  Goal
  BY <1>3 DEF UserStep, SendChat, Follow, MarkAsRead, DeleteMessage, DeleteConversation
<1>4. ASSUME NEW p \in Peer, NEW w \in Worker, CallStep(p, w)
      PROVE  Goal
  <2>1. ASSUME NEW t \in Stream, CallOpens(p, w, t)
        PROVE  Goal
    <3>1. call[p][w].env \in issued
      BY <2>1 DEF CallOpens, CallsKnown, HasEnvelope
    <3> QED BY <2>1, <3>1 DEF CallOpens, TypeOK
  <2>2. CASE CallDelivered(p, w)
    BY <2>2 DEF CallDelivered, TypeOK
  <2>3. CASE CallGivesUp(p, w)
    <3>1. s = call[p][w].stream => stream'[s] = Abandoned(s)
      BY <2>3 DEF CallGivesUp, TypeOK
    <3>2. s # call[p][w].stream => Same
      BY <2>3 DEF CallGivesUp, TypeOK
    <3> QED BY <1>2, <3>1, <3>2
  <2>4. CASE \/ PutOutgoing(p, w)
             \/ SendFollow(p, w)
             \/ SendReceipt(p, w)
             \/ CallUnreachable(p, w)
             \/ CallQueued(p, w)
             \/ CallFails(p, w)
    BY <2>4 DEF PutOutgoing, SendFollow, SendReceipt, CallUnreachable, CallQueued, CallFails
  <2> QED BY <1>4, <2>1, <2>2, <2>3, <2>4 DEF CallStep
<1>5. ASSUME NEW p \in Peer, RetryStep(p)
      PROVE  Goal
  <2>1. ASSUME NEW t \in Stream, RetryOpens(p, t)
        PROVE  Goal
    <3>1. pass[p].on /\ pass[p].todo \in Seq(Envelope) /\ pass[p].todo # <<>>
      BY <2>1, PassType DEF RetryOpens, Retrying
    <3>2. InSeq(Head(pass[p].todo), outbox[p])
      BY <3>1, HeadTail DEF PassKeeps, InSeq
    <3>3. Head(pass[p].todo) \in issued
      BY <3>2 DEF OutboxKnown, InSeq
    <3> QED BY <2>1, <3>3 DEF RetryOpens, TypeOK
  <2>2. CASE RetryDelivered(p)
    BY <2>2 DEF RetryDelivered, TypeOK
  <2>3. CASE RetryKeeps(p)
    <3>1. pass[p].stream # NoStream /\ s = pass[p].stream => stream'[s] = Abandoned(s)
      BY <2>3 DEF RetryKeeps, TypeOK
    <3>2. pass[p].stream = NoStream \/ s # pass[p].stream => Same
      BY <2>3 DEF RetryKeeps, TypeOK
    <3> QED BY <1>2, <3>1, <3>2
  <2>4. CASE RetryStart(p) \/ RetrySaves(p) \/ RetrySaveFails(p)
    BY <2>4 DEF RetryStart, RetrySaves, RetrySaveFails
  <2> QED BY <1>5, <2>1, <2>2, <2>3, <2>4 DEF RetryStep
<1>6. ASSUME NEW p \in Peer, Crash(p)
      PROVE  Goal
  <2>1. stream'[s] = IF stream[s] = Free THEN Free
                     ELSE IF stream[s].env.sender = p THEN Abandoned(s)
                     ELSE IF stream[s].env.recipient = p /\ stream[s].server \in Working
                          THEN Settle([stream[s] EXCEPT !.server = "dead"])
                     ELSE stream[s]
    BY <1>6 DEF Crash
  <2>2. "dead" \in Working \cup Finished
    BY DEF Finished
  <2> QED BY <1>1, <1>2, <2>1, <2>2
<1>7. ASSUME NEW t \in Stream, HandlerStep(t)
      PROVE  Goal
  <2>1. CASE s # t
    BY <1>7, <2>1 DEF HandlerStep, CheckSeen, ApplyChat, ApplyFollower, ApplyRead,
       MarkSeen, HandlerFails, FrameLost, Reached, TypeOK
  <2>2. CASE s = t
    <3> DEFINE e == stream[s].env
    <3>0. /\ stream[s] # Free
          /\ e.recipient \in Peer
          /\ \A to : Reached(s, to) =>
                stream'[s] = Settle([stream[s] EXCEPT !.server = to])
      <4>1. stream[s].server \in Working
        BY <1>7, <2>2 DEF HandlerStep, CheckSeen, ApplyChat, ApplyFollower, ApplyRead,
           MarkSeen, HandlerFails, FrameLost, Working
      <4>2. stream[s].server # "free"
        BY <4>1 DEF Working
      <4> QED BY <4>2, StreamType DEF Reached, TypeOK
    <3>1. CASE CheckSeen(s)
      <4>1. CASE Id(e) \in seen[e.recipient]
        <5>1. Reached(s, "accepted") /\ UNCHANGED seen
          BY <3>1, <4>1 DEF CheckSeen, durable
        <5> QED BY <1>1, <3>0, <4>1, <5>1 DEF Finished
      <4>2. CASE Id(e) \notin seen[e.recipient]
        <5>1. Reached(s, "apply")
          BY <3>1, <4>2 DEF CheckSeen
        <5> QED BY <1>1, <3>0, <5>1 DEF Working
      <4> QED BY <4>1, <4>2
    <3>2. CASE ApplyChat(s) \/ ApplyFollower(s) \/ ApplyRead(s)
      <4>1. Reached(s, "mark")
        BY <3>2 DEF ApplyChat, ApplyFollower, ApplyRead
      <4> QED BY <1>1, <3>0, <4>1 DEF Working
    <3>3. CASE MarkSeen(s)
      <4>1. Reached(s, "accepted") /\ Id(e) \in seen'[e.recipient]
        BY <3>0, <3>3 DEF MarkSeen, TypeOK
      <4> QED BY <1>1, <3>0, <4>1 DEF Finished
    <3>4. CASE HandlerFails(s) \/ FrameLost(s)
      <4>1. Reached(s, "rejected") \/ Reached(s, "dead")
        BY <3>4 DEF HandlerFails, FrameLost
      <4> QED BY <1>1, <3>0, <4>1 DEF Finished
    <3> QED BY <1>7, <2>2, <3>1, <3>2, <3>3, <3>4 DEF HandlerStep
  <2> QED BY <2>1, <2>2
<1> QED BY <1>3, <1>4, <1>5, <1>6, <1>7 DEF Next

LEMMA StreamsStep ==
    ASSUME DirectAssumption, TypeOK, CallsKnown, OutboxKnown, PassKeeps, StreamsKnown,
           AnswerBacked, Next
    PROVE  StreamsKnown' /\ AnswerBacked'
<1>1. issued \subseteq issued'
  BY IssuedGrows
<1>2. ASSUME NEW s \in Stream
      PROVE  /\ stream'[s] # Free => stream'[s].env \in issued'
             /\ stream'[s].server = "accepted" =>
                   Id(stream'[s].env) \in seen'[stream'[s].env.recipient]
  <2>1. stream[s].server = "accepted" =>
           /\ stream[s].env.recipient \in Peer
           /\ Id(stream[s].env) \in seen'[stream[s].env.recipient]
    BY SeenGrows, StreamType DEF AnswerBacked
  <2>2. CASE stream'[s] = stream[s]
    BY <1>1, <2>1, <2>2 DEF StreamsKnown
  <2>3. CASE stream'[s] = Free
    BY <2>3 DEF Free
  <2>4. CASE \E e \in issued : stream'[s] = Opened(e)
    BY <1>1, <2>4 DEF Opened
  <2>5. CASE /\ stream[s] # Free
             /\ stream'[s].env = stream[s].env
             /\ \/ stream'[s].server = stream[s].server
                \/ stream'[s].server # "accepted"
                \/ Id(stream[s].env) \in seen'[stream[s].env.recipient]
    BY <1>1, <2>1, <2>5 DEF StreamsKnown, Id
  <2> QED BY <2>2, <2>3, <2>4, <2>5, StreamEffect
<1> QED BY <1>2 DEF StreamsKnown, AnswerBacked, Id
-----------------------------------------------------------------------------
(* The outbox and the pass that walks over it.                              *)

(* While a pass holds outboxMu, nobody changes the outbox.                  *)
LEMMA OutboxHeld ==
    ASSUME TypeOK, Next, NEW p \in Peer, pass'[p].on
    PROVE  outbox'[p] = outbox[p]
<1>1. ASSUME NEW q \in Peer, NEW w \in Worker, CallQueued(q, w)
      PROVE  outbox'[p] = outbox[p]
  <2>1. CASE p = q
    <3>1. pass'[p] = Off
      BY <1>1, <2>1 DEF CallQueued, OutboxFree
    <3> QED BY <3>1 DEF Off
  <2>2. CASE p # q
    BY <1>1, <2>2 DEF CallQueued, TypeOK
  <2> QED BY <2>1, <2>2
<1>2. ASSUME NEW q \in Peer, RetrySaves(q)
      PROVE  outbox'[p] = outbox[p]
  <2>1. CASE p = q
    <3>1. pass'[p] = Off
      BY <1>2, <2>1 DEF RetrySaves, TypeOK
    <3> QED BY <3>1 DEF Off
  <2>2. CASE p # q
    BY <1>2, <2>2 DEF RetrySaves, TypeOK
  <2> QED BY <2>1, <2>2
<1> QED BY <1>1, <1>2, OutboxEffect

LEMMA OutboxStep ==
    ASSUME DirectAssumption, TypeOK, CallsKnown, OutboxKnown, PassKeeps, Next
    PROVE  OutboxKnown'
<1>1. issued \subseteq issued'
  BY IssuedGrows
<1> SUFFICES ASSUME NEW p \in Peer, NEW i \in DOMAIN outbox'[p]
             PROVE  outbox'[p][i] \in issued' /\ outbox'[p][i].sender = p
  BY DEF OutboxKnown
<1>2. CASE outbox'[p] = outbox[p]
  BY <1>1, <1>2 DEF OutboxKnown
<1>3. ASSUME NEW w \in Worker, CallQueued(p, w), outbox'[p] # outbox[p]
      PROVE  outbox'[p][i] \in issued' /\ outbox'[p][i].sender = p
  <2> DEFINE e == call[p][w].env
  <2>1. e \in issued /\ e.sender = p
    BY <1>3 DEF CallQueued, CallsKnown, HasEnvelope
  <2>2. outbox'[p] = Append(outbox[p], e)
    BY <1>3 DEF CallQueued, TypeOK
  <2>3. outbox[p] \in Seq(Envelope)
    BY DEF TypeOK
  <2>4. CASE i = Len(outbox[p]) + 1
    BY <1>1, <2>1, <2>2, <2>3, <2>4
  <2>5. CASE i # Len(outbox[p]) + 1
    <3>1. i \in DOMAIN outbox[p] /\ outbox'[p][i] = outbox[p][i]
      BY <2>2, <2>3, <2>5
    <3> QED BY <1>1, <3>1 DEF OutboxKnown
  <2> QED BY <2>4, <2>5
<1>4. CASE RetrySaves(p)
  <2>1. outbox'[p] = pass[p].remaining /\ pass[p].on
    BY <1>4 DEF RetrySaves, TypeOK
  <2>2. InSeq(outbox'[p][i], outbox[p])
    BY <2>1 DEF PassKeeps
  <2> QED BY <1>1, <2>2 DEF OutboxKnown, InSeq
<1>5. ASSUME NEW q \in Peer, q # p,
             RetrySaves(q) \/ \E w \in Worker : CallQueued(q, w)
      PROVE  outbox'[p] = outbox[p]
  BY <1>5 DEF RetrySaves, CallQueued, TypeOK
<1> QED BY <1>2, <1>3, <1>4, <1>5, OutboxEffect

LEMMA PassStep ==
    ASSUME DirectAssumption, TypeOK, Unique, StreamsKnown, OutboxKnown, PassKeeps,
           AnswerBacked, Next
    PROVE  PassKeeps'
<1> DEFINE Safe(p, e, x) ==
              InSeq(e, x.todo) \/ InSeq(e, x.remaining) \/ Id(e) \in seen'[e.recipient]
           Kept(p, x) ==
              /\ \A i \in DOMAIN outbox[p] : Safe(p, outbox[p][i], x)
              /\ \A i \in DOMAIN x.todo : InSeq(x.todo[i], outbox[p])
              /\ \A i \in DOMAIN x.remaining : InSeq(x.remaining[i], outbox[p])
<1> SUFFICES ASSUME NEW p \in Peer, pass'[p].on
             PROVE  Kept(p, pass'[p])
  <2>1. \A p \in Peer : pass'[p].on => Kept(p, pass'[p]) /\ outbox'[p] = outbox[p]
    BY OutboxHeld
  <2> SUFFICES ASSUME NEW p \in Peer, pass'[p].on
               PROVE  /\ \A i \in DOMAIN outbox'[p] : Safe(p, outbox'[p][i], pass'[p])
                      /\ \A i \in DOMAIN pass'[p].todo :
                            InSeq(pass'[p].todo[i], outbox'[p])
                      /\ \A i \in DOMAIN pass'[p].remaining :
                            InSeq(pass'[p].remaining[i], outbox'[p])
    BY DEF PassKeeps, InSeq, Id
  <2>2. Kept(p, pass'[p]) /\ outbox'[p] = outbox[p]
    BY <2>1
  <2> QED BY <2>2
<1>1. /\ outbox[p] \in Seq(Envelope)
      /\ \A i \in DOMAIN outbox[p] :
            outbox[p][i] \in Envelope /\ outbox[p][i].recipient \in Peer
  <2>1. outbox[p] \in Seq(Envelope)
    BY DEF TypeOK
  <2>2. \A i \in DOMAIN outbox[p] : outbox[p][i] \in Envelope
    BY <2>1
  <2> QED BY <2>1, <2>2 DEF Envelope
<1>2. pass[p].on => Kept(p, pass[p])
  <2>1. \A i \in DOMAIN outbox[p] : seen[outbox[p][i].recipient] \subseteq
                                     seen'[outbox[p][i].recipient]
    BY <1>1, SeenGrows
  <2>2. pass[p].on => \A i \in DOMAIN outbox[p] : Safe(p, outbox[p][i], pass[p])
    BY <2>1 DEF PassKeeps
  <2> QED BY <2>2 DEF PassKeeps
<1>3. CASE pass'[p] = pass[p]
  BY <1>2, <1>3
<1>4. CASE RetryStart(p)
  <2>1. pass'[p] = [on |-> TRUE, todo |-> outbox[p], remaining |-> <<>>, stream |-> NoStream]
    BY <1>4 DEF RetryStart, TypeOK
  <2>2. pass'[p].todo = outbox[p] /\ pass'[p].remaining = <<>>
    BY <2>1
  <2>3. DOMAIN <<>> = {}
    OBVIOUS
  <2>4. \A i \in DOMAIN outbox[p] : InSeq(outbox[p][i], outbox[p])
    BY DEF InSeq
  <2> QED BY <2>2, <2>3, <2>4
<1>5. ASSUME NEW s \in Stream, RetryOpens(p, s)
      PROVE  Kept(p, pass'[p])
  <2>1. pass[p].on
    BY <1>5 DEF RetryOpens, Retrying
  <2>2. pass'[p] = [pass[p] EXCEPT !.stream = s]
    BY <1>5 DEF RetryOpens, TypeOK
  <2>3. pass'[p].todo = pass[p].todo /\ pass'[p].remaining = pass[p].remaining
    BY <2>1, <2>2, PassType
  <2> QED BY <1>2, <2>1, <2>3
<1>6. CASE RetryDelivered(p) \/ RetryKeeps(p)
  <2> DEFINE x == pass[p]
             e == Head(x.todo)
  <2>1. /\ x.on
        /\ x.todo \in Seq(Envelope)
        /\ x.todo # <<>>
        /\ x.remaining \in Seq(Envelope)
        /\ e \in Envelope
    BY <1>6, PassType, CurrentType DEF RetryDelivered, RetryKeeps, Retrying
  <2>2. /\ InSeq(e, outbox[p])
        /\ \A f : InSeq(f, x.todo) => f = e \/ InSeq(f, Tail(x.todo))
        /\ \A f : InSeq(f, Tail(x.todo)) => InSeq(f, x.todo)
    <3>1. InSeq(e, x.todo)
      BY <2>1, HeadTail
    <3>2. InSeq(e, outbox[p])
      BY <2>1, <3>1 DEF PassKeeps, InSeq
    <3>3. \A f : InSeq(f, x.todo) => f = e \/ InSeq(f, Tail(x.todo))
      <4>1. \A i \in DOMAIN x.todo : x.todo[i] = e \/ InSeq(x.todo[i], Tail(x.todo))
        BY <2>1, HeadTail
      <4>2. \A f : InSeq(f, x.todo) => \E i \in DOMAIN x.todo : x.todo[i] = f
        BY DEF InSeq
      <4> QED BY <4>1, <4>2
    <3>4. \A f : InSeq(f, Tail(x.todo)) => InSeq(f, x.todo)
      BY <2>1, HeadTail DEF InSeq
    <3> QED BY <3>2, <3>3, <3>4
  <2>3. PICK remaining \in {x.remaining, Append(x.remaining, e)} :
           /\ pass'[p] = Advanced(x, remaining)
           /\ InSeq(e, remaining) \/ Id(e) \in seen'[e.recipient]
    <3>1. CASE RetryDelivered(p)
      <4> DEFINE s == x.stream
      <4>1. pass'[p] = Advanced(x, x.remaining)
        BY <3>1 DEF RetryDelivered, TypeOK
      <4>2. s \in Stream /\ Acknowledged(s, e)
        BY <2>1, <3>1, PassType DEF RetryDelivered
      <4>3. stream[s] # Free /\ stream[s].server = "accepted"
        BY <4>2 DEF Acknowledged, Free
      <4>4. stream[s].env \in issued /\ e \in issued
        BY <2>2, <4>2, <4>3 DEF StreamsKnown, OutboxKnown, InSeq
      <4>5. stream[s].env = e
        BY <4>2, <4>4 DEF Unique, Acknowledged
      <4>6. Id(e) \in seen[e.recipient]
        BY <4>2, <4>3, <4>5 DEF AnswerBacked
      <4>7. Id(e) \in seen'[e.recipient]
        BY <2>1, <4>6, SeenGrows DEF Envelope
      <4> QED BY <4>1, <4>7
    <3>2. CASE RetryKeeps(p)
      <4>1. pass'[p] = Advanced(x, Append(x.remaining, e))
        BY <3>2 DEF RetryKeeps, TypeOK
      <4>2. InSeq(e, Append(x.remaining, e))
        BY <2>1, AppendMembers
      <4> QED BY <4>1, <4>2
    <3> QED BY <1>6, <3>1, <3>2
  <2>4. pass'[p].todo = Tail(x.todo) /\ pass'[p].remaining = remaining
    BY <2>3 DEF Advanced
  <2>5. \A f : InSeq(f, x.remaining) => InSeq(f, remaining)
    <3>1. \A f : InSeq(f, x.remaining) => InSeq(f, Append(x.remaining, e))
      BY <2>1, AppendMembers
    <3> QED BY <2>3, <3>1
  <2>6. \A i \in DOMAIN remaining : InSeq(remaining[i], outbox[p])
    <3>1. \A i \in DOMAIN Append(x.remaining, e) :
             \/ Append(x.remaining, e)[i] = e
             \/ \E j \in DOMAIN x.remaining : Append(x.remaining, e)[i] = x.remaining[j]
      BY <2>1, AppendMembers
    <3>2. \A i \in DOMAIN x.remaining : InSeq(x.remaining[i], outbox[p])
      BY <2>1 DEF PassKeeps
    <3>3. \A i \in DOMAIN Append(x.remaining, e) :
             InSeq(Append(x.remaining, e)[i], outbox[p])
      BY <2>2, <3>1, <3>2
    <3> QED BY <2>3, <3>2, <3>3
  <2>7. \A i \in DOMAIN Tail(x.todo) : InSeq(Tail(x.todo)[i], outbox[p])
    <3>1. \A i \in DOMAIN Tail(x.todo) : InSeq(Tail(x.todo)[i], x.todo)
      BY <2>1, HeadTail
    <3>2. \A f : InSeq(f, x.todo) => InSeq(f, outbox[p])
      BY <2>1 DEF PassKeeps, InSeq
    <3> QED BY <3>1, <3>2
  <2>8. ASSUME NEW i \in DOMAIN outbox[p]
        PROVE  \/ InSeq(outbox[p][i], Tail(x.todo))
               \/ InSeq(outbox[p][i], remaining)
               \/ Id(outbox[p][i]) \in seen'[outbox[p][i].recipient]
    BY <1>2, <2>1, <2>2, <2>3, <2>5
  <2> HIDE DEF x, e
  <2> QED BY <2>4, <2>6, <2>7, <2>8
<1>7. CASE RetrySaves(p) \/ RetrySaveFails(p) \/ Crash(p)
  <2>1. pass'[p] = Off
    BY <1>7 DEF RetrySaves, RetrySaveFails, Crash, TypeOK
  <2> QED BY <2>1 DEF Off
<1>8. ASSUME NEW q \in Peer, q # p, RetryStep(q) \/ Crash(q)
      PROVE  pass'[p] = pass[p]
  BY <1>8 DEF RetryStep, RetryStart, RetryOpens, RetryDelivered, RetryKeeps, RetrySaves,
     RetrySaveFails, Crash, TypeOK
<1> HIDE DEF Kept
<1>9. ASSUME NEW q \in Peer, RetryStep(q) \/ Crash(q)
      PROVE  Kept(p, pass'[p])
  <2>1. CASE q = p
    BY <1>4, <1>5, <1>6, <1>7, <1>9, <2>1 DEF RetryStep
  <2>2. CASE q # p
    BY <1>3, <1>8, <1>9, <2>2
  <2> QED BY <2>1, <2>2
<1> QED BY <1>3, <1>9, PassEffect
-----------------------------------------------------------------------------
(* The promises.                                                            *)

LEMMA PromiseStep ==
    ASSUME DirectAssumption, TypeOK, Unique, CallsKnown, StreamsKnown, OutboxKnown,
           PassKeeps, AnswerBacked, PromiseKept, Next
    PROVE  PromiseKept'
<1> SUFFICES ASSUME NEW e \in promised'
             PROVE  InSeq(e, outbox'[e.sender]) \/ Id(e) \in seen'[e.recipient]
  BY DEF PromiseKept, InSeq, Id
<1>1. e \in Envelope => e.sender \in Peer /\ e.recipient \in Peer
  BY DEF Envelope
<1>2. ASSUME e \in Envelope, e \in promised \/ InSeq(e, outbox[e.sender]) \/ Id(e) \in seen[e.recipient]
      PROVE  InSeq(e, outbox'[e.sender]) \/ Id(e) \in seen'[e.recipient]
  <2> DEFINE p == e.sender
  <2>1. CASE Id(e) \in seen[e.recipient]
    BY <1>1, <1>2, <2>1, SeenGrows
  <2>2. CASE Id(e) \notin seen[e.recipient]
    <3>1. InSeq(e, outbox[p])
      BY <1>2, <2>2 DEF PromiseKept
    <3>2. CASE outbox'[p] = outbox[p]
      BY <3>1, <3>2
    <3>3. ASSUME NEW w \in Worker, CallQueued(p, w)
          PROVE  InSeq(e, outbox'[p])
      <4>1. \/ outbox'[p] = outbox[p]
            \/ outbox'[p] = Append(outbox[p], call[p][w].env)
        BY <1>1, <1>2, <3>3 DEF CallQueued, TypeOK
      <4>2. outbox[p] \in Seq(Envelope)
        BY <1>1, <1>2 DEF TypeOK
      <4>3. \A i \in DOMAIN outbox[p] :
               /\ i \in DOMAIN Append(outbox[p], call[p][w].env)
               /\ Append(outbox[p], call[p][w].env)[i] = outbox[p][i]
        BY <4>2
      <4> QED BY <3>1, <4>1, <4>3 DEF InSeq
    <3>4. CASE RetrySaves(p)
      <4>1. outbox'[p] = pass[p].remaining /\ pass[p].on /\ pass[p].todo = <<>>
        BY <1>1, <1>2, <3>4 DEF RetrySaves, TypeOK
      <4>2. ~InSeq(e, pass[p].todo)
        BY <4>1 DEF InSeq
      <4>3. InSeq(e, pass[p].remaining) \/ Id(e) \in seen[e.recipient]
        BY <1>1, <1>2, <3>1, <4>1, <4>2 DEF PassKeeps, InSeq
      <4> QED BY <2>2, <4>1, <4>3
    <3>5. ASSUME NEW q \in Peer, q # p,
                 RetrySaves(q) \/ \E w \in Worker : CallQueued(q, w)
          PROVE  outbox'[p] = outbox[p]
      BY <1>1, <1>2, <3>5 DEF RetrySaves, CallQueued, TypeOK
    <3> QED BY <1>1, <1>2, <3>2, <3>3, <3>4, <3>5, OutboxEffect
  <2> QED BY <2>1, <2>2
<1>3. CASE e \in promised
  BY <1>2, <1>3 DEF TypeOK
<1>4. ASSUME NEW p \in Peer, NEW w \in Worker, CallDelivered(p, w), e \notin promised
      PROVE  InSeq(e, outbox'[e.sender]) \/ Id(e) \in seen'[e.recipient]
  <2> DEFINE s == call[p][w].stream
  <2>1. e = call[p][w].env /\ Acknowledged(s, e)
    BY <1>4 DEF CallDelivered
  <2>2. e \in Envelope /\ e \in issued /\ s \in Stream
    BY <1>4, <2>1, CallType DEF CallDelivered, CallsKnown, HasEnvelope
  <2>3. stream[s] # Free /\ stream[s].server = "accepted"
    BY <2>1 DEF Acknowledged, Free
  <2>4. stream[s].env = e
    BY <2>1, <2>2, <2>3 DEF StreamsKnown, Unique, Acknowledged
  <2>5. Id(e) \in seen[e.recipient]
    BY <2>2, <2>3, <2>4 DEF AnswerBacked
  <2> QED BY <1>2, <2>2, <2>5
<1>5. ASSUME NEW p \in Peer, NEW w \in Worker, CallQueued(p, w), e \notin promised
      PROVE  InSeq(e, outbox'[e.sender]) \/ Id(e) \in seen'[e.recipient]
  <2>1. e = call[p][w].env
    BY <1>5 DEF CallQueued
  <2>2. e \in issued /\ e.sender = p
    BY <1>5, <2>1 DEF CallQueued, CallsKnown, HasEnvelope
  <2>3. outbox[p] \in Seq(Envelope)
    BY DEF TypeOK
  <2>4. CASE \E i \in DOMAIN outbox[p] : Id(outbox[p][i]) = Id(e)
    <3>1. PICK i \in DOMAIN outbox[p] : Id(outbox[p][i]) = Id(e)
      BY <2>4
    <3>2. outbox[p][i] = e
      BY <2>2, <3>1 DEF OutboxKnown, Unique
    <3>3. outbox' = outbox
      BY <1>5, <2>1, <2>4 DEF CallQueued
    <3> QED BY <2>2, <3>2, <3>3 DEF InSeq
  <2>5. CASE ~\E i \in DOMAIN outbox[p] : Id(outbox[p][i]) = Id(e)
    <3>1. outbox'[p] = Append(outbox[p], e)
      BY <1>5, <2>1, <2>5 DEF CallQueued, TypeOK
    <3>2. /\ Len(outbox[p]) + 1 \in DOMAIN Append(outbox[p], e)
          /\ Append(outbox[p], e)[Len(outbox[p]) + 1] = e
      BY <2>3
    <3> QED BY <2>2, <3>1, <3>2 DEF InSeq
  <2> QED BY <2>4, <2>5
<1> QED BY <1>3, <1>4, <1>5, PromiseEffect

(* IInv holds at the start and no step breaks it.                           *)
LEMMA IInvInit ==
    ASSUME DirectAssumption, Init
    PROVE  IInv
<1>1. TypeOK
  BY DEF Init, TypeOK, FollowState, Call, Pass, Exchange
<1>2. Fresh /\ Unique /\ PromiseKept
  BY DEF Init, Fresh, Unique, PromiseKept
<1>3. CallsKnown /\ StreamsKnown /\ AnswerBacked
  BY DEF Init, CallsKnown, StreamsKnown, AnswerBacked, HasEnvelope, Idle, Free
<1>4. OutboxKnown /\ PassKeeps
  BY DEF Init, OutboxKnown, PassKeeps, Off
<1> QED BY <1>1, <1>2, <1>3, <1>4 DEF IInv

LEMMA IInvStep ==
    ASSUME DirectAssumption, IInv, [Next]_vars
    PROVE  IInv'
<1>1. CASE UNCHANGED vars
  <2>1. TypeOK'
    BY <1>1 DEF vars, durable, history, IInv, TypeOK
  <2>2. Fresh' /\ Unique' /\ PromiseKept'
    BY <1>1 DEF vars, durable, history, IInv, Fresh, Unique, PromiseKept, InSeq, Id
  <2>3. CallsKnown' /\ StreamsKnown' /\ AnswerBacked'
    BY <1>1 DEF vars, durable, history, IInv, CallsKnown, StreamsKnown, AnswerBacked, Id
  <2>4. OutboxKnown'
    BY <1>1 DEF vars, durable, history, IInv, OutboxKnown
  <2>5. PassKeeps'
    <3>1. outbox' = outbox /\ pass' = pass /\ seen' = seen
      BY <1>1 DEF vars, durable
    <3> SUFFICES ASSUME NEW p \in Peer, pass'[p].on
                 PROVE  /\ \A i \in DOMAIN outbox'[p] :
                              \/ InSeq(outbox'[p][i], pass'[p].todo)
                              \/ InSeq(outbox'[p][i], pass'[p].remaining)
                              \/ Id(outbox'[p][i]) \in seen'[outbox'[p][i].recipient]
                        /\ \A i \in DOMAIN pass'[p].todo :
                              InSeq(pass'[p].todo[i], outbox'[p])
                        /\ \A i \in DOMAIN pass'[p].remaining :
                              InSeq(pass'[p].remaining[i], outbox'[p])
      BY DEF PassKeeps, InSeq, Id
    <3> QED BY <3>1 DEF IInv, PassKeeps
  <2> QED BY <2>1, <2>2, <2>3, <2>4, <2>5 DEF IInv
<1>2. CASE Next
  <2> USE DEF IInv
  <2>1. TypeOK'
    BY <1>2, TypeUserStep, TypeCallStep, TypeRetryStep, TypeHandlerStep, TypeCrash
    DEF Next
  <2>2. Fresh' /\ Unique'
    BY <1>2, FreshStep
  <2>3. CallsKnown'
    BY <1>2, CallsKnownStep
  <2>4. StreamsKnown' /\ AnswerBacked'
    BY <1>2, StreamsStep
  <2>5. OutboxKnown'
    BY <1>2, OutboxStep
  <2>6. PassKeeps'
    BY <1>2, PassStep
  <2>7. PromiseKept'
    BY <1>2, PromiseStep
  <2> QED BY <2>1, <2>2, <2>3, <2>4, <2>5, <2>6, <2>7
<1> QED BY <1>1, <1>2

THEOREM DirectInvariant == Spec => []IInv
<1>1. Init => IInv
  BY IInvInit, DirectAssumption
<1>2. IInv /\ [Next]_vars => IInv'
  BY IInvStep, DirectAssumption
<1> QED BY <1>1, <1>2, PTL DEF Spec

(* A call that reported an envelope delivered or queued told the truth for  *)
(* good, whatever crashes, times out or runs at the same time (sendDurable, *)
(* queue, RetryPending, accept).                                            *)
THEOREM DirectPromiseKept == Spec => []PromiseKept
<1>1. IInv => PromiseKept
  BY DEF IInv
<1> QED BY <1>1, DirectInvariant, PTL
-----------------------------------------------------------------------------
(* The refinement of Courier.                                               *)

LEMMA WaitingMember ==
    ASSUME NEW x
    PROVE  x \in Waiting <=>
              /\ \E p \in Peer : \E i \in DOMAIN outbox[p] : Id(outbox[p][i]) = x
              /\ x \notin Recorded
<1>1. \A p \in Peer : x \in Queued(p) <=> \E i \in DOMAIN outbox[p] : Id(outbox[p][i]) = x
  BY DEF Queued
<1>2. x \in UNION {Queued(p) : p \in Peer} <=> \E p \in Peer : x \in Queued(p)
  OBVIOUS
<1> QED BY <1>1, <1>2 DEF Waiting

LEMMA WaitingMemberNext ==
    ASSUME NEW x
    PROVE  x \in Waiting' <=>
              /\ \E p \in Peer : \E i \in DOMAIN outbox'[p] : Id(outbox'[p][i]) = x
              /\ x \notin Recorded'
<1>1. \A p \in Peer :
         x \in Queued(p)' <=> \E i \in DOMAIN outbox'[p] : Id(outbox'[p][i]) = x
  BY DEF Queued, Id
<1>2. x \in UNION {Queued(p)' : p \in Peer} <=> \E p \in Peer : x \in Queued(p)'
  OBVIOUS
<1> QED BY <1>1, <1>2 DEF Waiting

LEMMA CourierMark ==
    ASSUME TypeOK, NEW s \in Stream, MarkSeen(s)
    PROVE  C!Next \/ UNCHANGED <<Waiting, Recorded>>
<1> DEFINE e == stream[s].env
           x == Id(e)
<1>1. e.recipient \in Peer
  BY StreamType DEF MarkSeen
<1>2. outbox' = outbox /\ seen' = [seen EXCEPT ![e.recipient] = @ \cup {x}]
  BY DEF MarkSeen
<1>3. Recorded' = Recorded \cup {x}
  BY <1>1, <1>2 DEF Recorded, TypeOK
<1>4. Waiting' = Waiting \ {x}
  BY <1>2, <1>3, WaitingMember, WaitingMemberNext
<1>5. CASE x \in Recorded
  <2>1. x \notin Waiting
    BY <1>5, WaitingMember
  <2> QED BY <1>3, <1>4, <1>5, <2>1
<1>6. CASE x \notin Recorded
  <2>1. C!Hand(x)
    BY <1>3, <1>4, <1>6 DEF C!Hand
  <2> QED BY <1>3, <2>1 DEF C!Next
<1> QED BY <1>5, <1>6

LEMMA CourierQueue ==
    ASSUME TypeOK, NEW p \in Peer, NEW w \in Worker, CallQueued(p, w)
    PROVE  C!Next \/ UNCHANGED <<Waiting, Recorded>>
<1> DEFINE e == call[p][w].env
           x == Id(e)
<1>1. seen' = seen
  BY DEF CallQueued
<1>2. Recorded' = Recorded
  BY <1>1 DEF Recorded
<1>3. CASE outbox' = outbox
  <2>1. Waiting' = Waiting
    BY <1>2, <1>3, WaitingMember, WaitingMemberNext, ZenonT(60)
  <2> QED BY <1>2, <2>1
<1>4. CASE outbox' = [outbox EXCEPT ![p] = Append(@, e)]
  <2>1. outbox[p] \in Seq(Envelope)
    BY DEF TypeOK
  <2>2. /\ outbox'[p] = Append(outbox[p], e)
        /\ \A q \in Peer : q # p => outbox'[q] = outbox[q]
    BY <1>4 DEF TypeOK
  <2>3. \A i \in DOMAIN Append(outbox[p], e) :
           \/ i \in DOMAIN outbox[p] /\ Append(outbox[p], e)[i] = outbox[p][i]
           \/ Append(outbox[p], e)[i] = e
    BY <2>1
  <2>4. \A i \in DOMAIN outbox[p] :
           /\ i \in DOMAIN Append(outbox[p], e)
           /\ Append(outbox[p], e)[i] = outbox[p][i]
    BY <2>1
  <2>5. /\ Len(outbox[p]) + 1 \in DOMAIN Append(outbox[p], e)
        /\ Append(outbox[p], e)[Len(outbox[p]) + 1] = e
    BY <2>1
  <2>6. Waiting' = Waiting \cup ({x} \ Recorded)
    <3>1. ASSUME NEW y, y \in Waiting'
          PROVE  y \in Waiting \/ (y = x /\ y \notin Recorded)
      BY <1>2, <2>2, <2>3, <3>1, WaitingMember, WaitingMemberNext
    <3>2. ASSUME NEW y, y \in Waiting
          PROVE  y \in Waiting'
      BY <1>2, <2>2, <2>4, <3>2, WaitingMember, WaitingMemberNext
    <3>3. x \notin Recorded => x \in Waiting'
      BY <1>2, <2>2, <2>5, WaitingMemberNext
    <3> QED BY <3>1, <3>2, <3>3
  <2>7. CASE x \in Waiting \cup Recorded
    <3>1. Waiting' = Waiting
      BY <2>6, <2>7
    <3> QED BY <1>2, <3>1
  <2>8. CASE x \notin Waiting \cup Recorded
    <3>1. C!Take(x)
      BY <1>2, <2>6, <2>8 DEF C!Take
    <3>2. x \in Waiting'
      BY <2>6, <2>8
    <3> QED BY <3>1, <3>2 DEF C!Next
  <2> QED BY <2>7, <2>8
<1> QED BY <1>3, <1>4 DEF CallQueued

LEMMA CourierSave ==
    ASSUME TypeOK, PassKeeps, NEW p \in Peer, RetrySaves(p)
    PROVE  UNCHANGED <<Waiting, Recorded>>
<1>1. Recorded' = Recorded
  BY DEF RetrySaves, Recorded
<1>2. /\ pass[p].on
      /\ pass[p].todo = <<>>
      /\ outbox'[p] = pass[p].remaining
      /\ \A q \in Peer : q # p => outbox'[q] = outbox[q]
  BY DEF RetrySaves, TypeOK
<1>3. /\ outbox[p] \in Seq(Envelope)
      /\ \A i \in DOMAIN outbox[p] : outbox[p][i].recipient \in Peer
  <2>1. outbox[p] \in Seq(Envelope)
    BY DEF TypeOK
  <2>2. \A i \in DOMAIN outbox[p] : outbox[p][i] \in Envelope
    BY <2>1
  <2> QED BY <2>1, <2>2 DEF Envelope
<1>4. \A f : ~InSeq(f, pass[p].todo)
  BY <1>2 DEF InSeq
<1>5. \A i \in DOMAIN outbox[p] :
         InSeq(outbox[p][i], outbox'[p]) \/ Id(outbox[p][i]) \in Recorded
  BY <1>2, <1>3, <1>4 DEF PassKeeps, Recorded
<1>6. \A i \in DOMAIN outbox'[p] : InSeq(outbox'[p][i], outbox[p])
  BY <1>2 DEF PassKeeps
<1>7. \A y : y \in Waiting => y \in Waiting'
  BY <1>1, <1>2, <1>5, WaitingMember, WaitingMemberNext DEF InSeq
<1>8. \A y : y \in Waiting' => y \in Waiting
  BY <1>1, <1>2, <1>6, WaitingMember, WaitingMemberNext DEF InSeq
<1> QED BY <1>1, <1>7, <1>8

LEMMA CourierStep ==
    ASSUME IInv, [Next]_vars
    PROVE  [C!Next]_<<Waiting, Recorded>>
<1>1. CASE outbox' = outbox /\ seen' = seen
  <2>1. Recorded' = Recorded
    BY <1>1 DEF Recorded
  <2>2. Waiting' = Waiting
    BY <1>1, <2>1, WaitingMember, WaitingMemberNext
  <2> QED BY <2>1, <2>2
<1>2. CASE UNCHANGED vars
  BY <1>1, <1>2 DEF vars, durable
<1>3. ASSUME NEW s \in Stream, MarkSeen(s)
      PROVE  [C!Next]_<<Waiting, Recorded>>
  BY <1>3, CourierMark DEF IInv
<1>4. ASSUME NEW p \in Peer, NEW w \in Worker, CallQueued(p, w)
      PROVE  [C!Next]_<<Waiting, Recorded>>
  BY <1>4, CourierQueue DEF IInv
<1>5. ASSUME NEW p \in Peer, RetrySaves(p)
      PROVE  [C!Next]_<<Waiting, Recorded>>
  BY <1>5, CourierSave DEF IInv
<1>6. CASE Next
  BY <1>1, <1>3, <1>4, <1>5, <1>6, OutboxEffect, SeenEffect DEF IInv
<1> QED BY <1>2, <1>6

(* The service implements Courier: no step drops an envelope that is queued *)
(* and not recorded, and none forgets one that is recorded (queue,          *)
(* RetryPending, markSeen).                                                 *)
THEOREM DirectImplementsCourier == Spec => ImplementsCourier
<1>1. Init => C!Init
  <2> SUFFICES ASSUME Init PROVE Waiting = {} /\ Recorded = {}
    BY DEF C!Init
  <2>1. \A p \in Peer : seen[p] = {} /\ outbox[p] = <<>>
    BY DEF Init
  <2>2. Recorded = {}
    BY <2>1 DEF Recorded
  <2>3. \A x : x \notin Waiting
    BY <2>1, WaitingMember
  <2> QED BY <2>2, <2>3
<1>2. IInv /\ [Next]_vars => [C!Next]_<<Waiting, Recorded>>
  BY CourierStep
<1> QED BY <1>1, <1>2, DirectInvariant, PTL DEF Spec, ImplementsCourier, C!Spec

-----------------------------------------------------------------------------
(* Histories: an envelope recorded as seen has had its effect, once, and a   *)
(* read mark is backed by the reader.                                       *)

(* A chat goes to somebody else, and a call that has not yet stored its     *)
(* message has a chat.                                                      *)
ChatsApart == \A e \in issued : e.kind = "chat" => e.sender # e.recipient

PutsChat == \A p \in Peer, w \in Worker : call[p][w].stage = "put" => call[p][w].env.kind = "chat"

(* Entries come from chats, one way at the sender and the other way at the  *)
(* recipient.                                                               *)
Outgoing(m, e, p) == m.outgoing /\ e.sender = p /\ e.recipient = m.peer

Incoming(m, e, p) == ~m.outgoing /\ e.sender = m.peer /\ e.recipient = p

From(m, e, p) ==
    /\ e.kind = "chat"
    /\ Id(e) = m.id
    /\ e.subject = m.subject
    /\ Outgoing(m, e, p) \/ Incoming(m, e, p)

EntriesKnown ==
    \A p \in Peer : \A i \in DOMAIN messages[p] :
        \E e \in issued : From(messages[p][i], e, p)

(* Until a call has stored its message, nobody else has heard of it.        *)
PutIsNew ==
    \A p \in Peer, w \in Worker : call[p][w].stage = "put" =>
        LET e == call[p][w].env IN
        /\ \A v \in Worker : HasEnvelope(call[p][v]) /\ call[p][v].env = e => v = w
        /\ \A i \in DOMAIN outbox[p] : outbox[p][i] # e
        /\ \A s \in Stream : stream[s] # Free => stream[s].env # e
        /\ \A q \in Peer : \A i \in DOMAIN messages[q] : messages[q][i].id # Id(e)

(* A receipt names a message that its sender has received and read.         *)
Reads(p, q, subject, id) ==
    \E i \in DOMAIN messages[p] :
        /\ messages[p][i].id = id
        /\ messages[p][i].peer = q
        /\ messages[p][i].subject = subject
        /\ ~messages[p][i].outgoing
        /\ messages[p][i].read

ReceiptsBacked ==
    /\ \A e \in issued : e.kind = "read" => Reads(e.sender, e.recipient, e.subject, e.replyTo)
    /\ \A p \in Peer, w \in Worker : call[p][w].stage = "receipt" =>
          Reads(p, call[p][w].peer, call[p][w].subject, call[p][w].last)

(* What recording an envelope as seen claims of it.                         *)
ChatApplied(e) == \E i \in DOMAIN messages[e.recipient] : messages[e.recipient][i].id = Id(e)

FollowApplied(e) == followers[e.recipient][e.sender].ts >= e.ts

ReadApplied(e) ==
    \A i \in DOMAIN messages[e.recipient] :
        LET m == messages[e.recipient][i] IN
        m.id = e.replyTo /\ m.subject = e.subject /\ ~m.gone => m.read

Applied(e) ==
    /\ e.kind = "chat" => ChatApplied(e)
    /\ e.kind \in {"follow", "unfollow"} => FollowApplied(e)
    /\ e.kind = "read" => ReadApplied(e)

MarksApplied == \A s \in Stream : stream[s].server = "mark" => Applied(stream[s].env)

SeenKnown == \A p \in Peer : \A id \in seen[p] : \E e \in issued : Id(e) = id

HistoryInv ==
    /\ ChatsApart
    /\ PutsChat
    /\ EntriesKnown
    /\ PutIsNew
    /\ ReceiptsBacked
    /\ MarksApplied
    /\ SeenKnown
    /\ SeenApplied
    /\ NoDuplicateMessage
    /\ FollowerStateSaid
    /\ ReadIsBacked

-----------------------------------------------------------------------------
(* As long as nothing crashes and no write fails, a follow change is on its *)
(* way or recorded.                                                         *)
Flawless == MaxCrashes = 0 /\ Faults = FALSE

(* An API client makes one call at a time: then the newest change towards a *)
(* peer is the one that the sender's list shows.                            *)
OneAtATime == \A v, w \in Worker : v = w

FollowChanges(p, q) ==
    {e \in issued : e.sender = p /\ e.recipient = q /\ e.kind \in {"follow", "unfollow"}}

Announcing(p, q) == \E w \in Worker : call[p][w].stage = "notify" /\ call[p][w].peer = q

FollowsCarried ==
    \A e \in issued : e.kind \in {"follow", "unfollow"} =>
        e \in Carried(e.sender) \/ Id(e) \in seen[e.recipient]

ListIsNewest ==
    \A p, q \in Peer :
        /\ \A w \in Worker : call[p][w].stage = "notify" /\ call[p][w].peer = q =>
              (q \in following[p]) = (call[p][w].kind = "follow")
        /\ ~Announcing(p, q) =>
              /\ FollowChanges(p, q) = {} => q \notin following[p]
              /\ \A e \in FollowChanges(p, q) :
                    (\A f \in FollowChanges(p, q) : f.ts <= e.ts) =>
                        (q \in following[p]) = (e.kind = "follow")

NoStateYet ==
    \A p, q \in Peer : followers[p][q].ts = 0 => ~followers[p][q].following

Dated == \A e \in issued : e.ts > 0

OwedInv == OwedIsCarried /\ FollowsCarried

FollowsInv == ListIsNewest /\ NoStateYet /\ Dated

-----------------------------------------------------------------------------
(* What a step does to the histories.                                       *)

OutgoingEntry(e) == [id |-> Id(e), peer |-> e.recipient, subject |-> e.subject,
                     outgoing |-> TRUE, read |-> FALSE, gone |-> FALSE]

IncomingEntry(e) == [id |-> Id(e), peer |-> e.sender, subject |-> e.subject,
                     outgoing |-> FALSE, read |-> FALSE, gone |-> FALSE]

LEMMA MessagesEffect ==
    ASSUME TypeOK, Next
    PROVE  \/ UNCHANGED messages
           \/ \E p \in Peer, w \in Worker : PutOutgoing(p, w)
           \/ \E s \in Stream : ApplyChat(s)
           \/ \E p \in Peer, w \in Worker, q \in Peer, subject \in Subject :
                 MarkAsRead(p, w, q, subject)
           \/ \E s \in Stream : ApplyRead(s)
           \/ \E p \in Peer : \E indices \in SUBSET DOMAIN messages[p] : Remove(p, indices)
<1>1. ASSUME NEW p \in Peer, UserStep(p)
      PROVE  \/ UNCHANGED messages
             \/ \E w \in Worker, q \in Peer, subject \in Subject :
                   MarkAsRead(p, w, q, subject)
             \/ \E indices \in SUBSET DOMAIN messages[p] : Remove(p, indices)
  <2>1. CASE \E w \in Worker, q \in Peer :
                \/ \E subject \in Subject : SendChat(p, w, q, subject)
                \/ \E kind \in {"follow", "unfollow"} : Follow(p, w, q, kind)
                \/ \E subject \in Subject : MarkAsRead(p, w, q, subject)
    BY <2>1 DEF SendChat, Follow
  <2>2. ASSUME NEW i \in DOMAIN messages[p], DeleteMessage(p, messages[p][i].id)
        PROVE  \E indices \in SUBSET DOMAIN messages[p] : Remove(p, indices)
    BY <2>2 DEF DeleteMessage
  <2>3. ASSUME NEW q \in Peer, DeleteConversation(p, q)
        PROVE  \E indices \in SUBSET DOMAIN messages[p] : Remove(p, indices)
    <3>1. Thread(p, q, NoSubject, TRUE) \cup Thread(p, q, NoSubject, FALSE)
             \in SUBSET DOMAIN messages[p]
      BY DEF Thread
    <3> QED BY <2>3, <3>1 DEF DeleteConversation
  <2> QED BY <1>1, <2>1, <2>2, <2>3 DEF UserStep
<1>2. ASSUME NEW p \in Peer, NEW w \in Worker, CallStep(p, w)
      PROVE  UNCHANGED messages \/ PutOutgoing(p, w)
  BY <1>2 DEF CallStep, SendFollow, SendReceipt, CallOpens, CallDelivered,
     CallUnreachable, CallGivesUp, CallQueued, CallFails, durable
<1>3. ASSUME NEW p \in Peer, RetryStep(p) \/ Crash(p)
      PROVE  UNCHANGED messages
  BY <1>3 DEF RetryStep, RetryStart, RetryOpens, RetryDelivered, RetryKeeps, RetrySaves,
     RetrySaveFails, Crash, durable
<1>4. ASSUME NEW s \in Stream, HandlerStep(s)
      PROVE  UNCHANGED messages \/ ApplyChat(s) \/ ApplyRead(s)
  BY <1>4 DEF HandlerStep, CheckSeen, ApplyFollower, MarkSeen, HandlerFails, FrameLost,
     durable
<1> QED BY <1>1, <1>2, <1>3, <1>4 DEF Next

(* What an entry keeps for good.                                            *)
Keeps(m, n) ==
    /\ n.id = m.id
    /\ n.peer = m.peer
    /\ n.subject = m.subject
    /\ n.outgoing = m.outgoing
    /\ m.read => n.read
    /\ m.gone => n.gone

LEMMA EntryType ==
    ASSUME TypeOK, NEW p \in Peer, NEW i \in DOMAIN messages[p]
    PROVE  /\ messages[p][i] \in Entry
           /\ messages[p][i].peer \in Peer
           /\ messages[p][i].id \in MsgId
           /\ messages[p][i].id[2] \in Nat
<1>1. messages[p][i] \in Entry
  BY DEF TypeOK
<1> QED BY <1>1 DEF Entry, MsgId

LEMMA PutGrows ==
    ASSUME TypeOK, NEW p \in Peer, NEW m \in Entry, Put(p, m), NEW q \in Peer
    PROVE  /\ \A i \in DOMAIN messages[q] :
                 i \in DOMAIN messages'[q] /\ messages'[q][i] = messages[q][i]
           /\ \A i \in DOMAIN messages'[q] \ DOMAIN messages[q] :
                 q = p /\ messages'[q][i] = m /\ ~Listed(p, m.id)
           /\ \A i, j \in DOMAIN messages'[q] \ DOMAIN messages[q] : i = j
           /\ \E i \in DOMAIN messages'[p] : messages'[p][i].id = m.id
<1>0. messages[q] \in Seq(Entry) /\ messages[p] \in Seq(Entry)
  BY DEF TypeOK
<1>1. CASE Listed(p, m.id)
  BY <1>1 DEF Put, Listed
<1>2. CASE ~Listed(p, m.id)
  <2>1. messages' = [messages EXCEPT ![p] = Append(messages[p], m)]
    BY <1>2 DEF Put
  <2>2. messages'[p] = Append(messages[p], m)
    BY <2>1 DEF TypeOK
  <2>3. /\ DOMAIN messages'[p] = 1 .. Len(messages[p]) + 1
        /\ DOMAIN messages[p] = 1 .. Len(messages[p])
        /\ messages'[p][Len(messages[p]) + 1] = m
        /\ \A i \in 1 .. Len(messages[p]) : messages'[p][i] = messages[p][i]
        /\ Len(messages[p]) \in Nat
    BY <1>0, <2>2
  <2>4. \A i \in DOMAIN messages'[p] \ DOMAIN messages[p] : i = Len(messages[p]) + 1
    BY <2>3
  <2>5. CASE q = p
    <3>1. Len(messages[p]) + 1 \in DOMAIN messages'[p]
      BY <2>3
    <3> QED BY <1>2, <2>3, <2>4, <2>5, <3>1
  <2>6. CASE q # p
    <3>1. messages'[q] = messages[q]
      BY <2>1, <2>6 DEF TypeOK
    <3>2. Len(messages[p]) + 1 \in DOMAIN messages'[p]
      BY <2>3
    <3> QED BY <2>3, <3>1, <3>2
  <2> QED BY <2>5, <2>6
<1> QED BY <1>1, <1>2

LEMMA MarkGrows ==
    ASSUME TypeOK, NEW p \in Peer, NEW indices, MarkRead(p, indices), NEW q \in Peer
    PROVE  /\ DOMAIN messages'[q] = DOMAIN messages[q]
           /\ \A i \in DOMAIN messages[q] :
                 /\ Keeps(messages[q][i], messages'[q][i])
                 /\ messages'[q][i].gone = messages[q][i].gone
                 /\ q = p /\ i \in indices => messages'[q][i].read
                 /\ messages'[q][i].read => messages[q][i].read \/ (q = p /\ i \in indices)
<1>0. \A i \in DOMAIN messages[q] : messages[q][i] \in Entry
  BY DEF TypeOK
<1>1. CASE q = p
  <2>1. messages'[p] = [i \in DOMAIN messages[p] |->
            IF i \in indices THEN [messages[p][i] EXCEPT !.read = TRUE] ELSE messages[p][i]]
    BY DEF MarkRead, TypeOK
  <2>2. ASSUME NEW i \in DOMAIN messages[p]
        PROVE  /\ Keeps(messages[p][i], messages'[p][i])
               /\ messages'[p][i].gone = messages[p][i].gone
               /\ i \in indices => messages'[p][i].read
               /\ messages'[p][i].read => messages[p][i].read \/ i \in indices
    BY <1>0, <1>1, <2>1 DEF Keeps, Entry
  <2> QED BY <1>1, <2>1, <2>2
<1>2. CASE q # p
  <2>1. messages'[q] = messages[q]
    BY <1>2 DEF MarkRead, TypeOK
  <2> QED BY <1>2, <2>1 DEF Keeps
<1> QED BY <1>1, <1>2

LEMMA RemoveGrows ==
    ASSUME TypeOK, NEW p \in Peer, NEW indices, Remove(p, indices), NEW q \in Peer
    PROVE  /\ DOMAIN messages'[q] = DOMAIN messages[q]
           /\ \A i \in DOMAIN messages[q] :
                 /\ Keeps(messages[q][i], messages'[q][i])
                 /\ messages'[q][i].read = messages[q][i].read
<1>0. \A i \in DOMAIN messages[q] : messages[q][i] \in Entry
  BY DEF TypeOK
<1>1. CASE q = p
  <2>1. messages'[p] = [i \in DOMAIN messages[p] |->
            IF i \in indices THEN [messages[p][i] EXCEPT !.gone = TRUE] ELSE messages[p][i]]
    BY DEF Remove, TypeOK
  <2>2. ASSUME NEW i \in DOMAIN messages[p]
        PROVE  /\ Keeps(messages[p][i], messages'[p][i])
               /\ messages'[p][i].read = messages[p][i].read
    BY <1>0, <1>1, <2>1 DEF Keeps, Entry
  <2> QED BY <1>1, <2>1, <2>2
<1>2. CASE q # p
  <2>1. messages'[q] = messages[q]
    BY <1>2 DEF Remove, TypeOK
  <2> QED BY <1>2, <2>1 DEF Keeps
<1> QED BY <1>1, <1>2

(* The message that a step stores.                                          *)
Stored(p, m) ==
    \/ \E w \in Worker : PutOutgoing(p, w) /\ m = OutgoingEntry(call[p][w].env)
    \/ \E s \in Stream :
          ApplyChat(s) /\ stream[s].env.recipient = p /\ m = IncomingEntry(stream[s].env)

(* The indices that a step marks as read.                                   *)
Marked(p, i) ==
    \/ \E w \in Worker, q \in Peer, subject \in Subject :
          MarkAsRead(p, w, q, subject) /\ i \in Thread(p, q, subject, FALSE)
    \/ \E s \in Stream :
          LET e == stream[s].env IN
          /\ ApplyRead(s)
          /\ e.recipient = p
          /\ i \in Covered(p, e.sender, e.subject, e.replyTo)

LEMMA HistoryGrows ==
    ASSUME TypeOK, Next, NEW p \in Peer
    PROVE  /\ \A i \in DOMAIN messages[p] :
                 /\ i \in DOMAIN messages'[p]
                 /\ Keeps(messages[p][i], messages'[p][i])
                 /\ messages'[p][i].read => messages[p][i].read \/ Marked(p, i)
           /\ \A i \in DOMAIN messages'[p] \ DOMAIN messages[p] :
                 Stored(p, messages'[p][i]) /\ ~Listed(p, messages'[p][i].id)
           /\ \A i, j \in DOMAIN messages'[p] \ DOMAIN messages[p] : i = j
<1> DEFINE Old == \A i \in DOMAIN messages[p] :
                    /\ i \in DOMAIN messages'[p]
                    /\ Keeps(messages[p][i], messages'[p][i])
                    /\ messages'[p][i].read => messages[p][i].read \/ Marked(p, i)
           New ==
              /\ \A i \in DOMAIN messages'[p] \ DOMAIN messages[p] :
                    Stored(p, messages'[p][i]) /\ ~Listed(p, messages'[p][i].id)
              /\ \A i, j \in DOMAIN messages'[p] \ DOMAIN messages[p] : i = j
<1>1. CASE UNCHANGED messages
  BY <1>1 DEF Keeps
<1>2. ASSUME NEW q \in Peer, NEW w \in Worker, PutOutgoing(q, w)
      PROVE  Old /\ New
  <2> DEFINE e == call[q][w].env
  <2>1. e \in Envelope /\ Put(q, OutgoingEntry(e))
    BY <1>2, CallType DEF PutOutgoing, OutgoingEntry
  <2>2. OutgoingEntry(e) \in Entry
    BY <2>1 DEF OutgoingEntry, Entry, Envelope, Id, MsgId
  <2>3. Old
    BY <2>1, <2>2, PutGrows DEF Keeps
  <2>4. New
    BY <1>2, <2>1, <2>2, PutGrows DEF Stored
  <2> QED BY <2>3, <2>4
<1>3. ASSUME NEW s \in Stream, ApplyChat(s)
      PROVE  Old /\ New
  <2> DEFINE e == stream[s].env
  <2>1. e \in Envelope /\ e.recipient \in Peer /\ Put(e.recipient, IncomingEntry(e))
    <3>1. stream[s].server # "free"
      BY <1>3 DEF ApplyChat
    <3> QED BY <1>3, <3>1, StreamType DEF ApplyChat, IncomingEntry
  <2>2. IncomingEntry(e) \in Entry
    BY <2>1 DEF IncomingEntry, Entry, Envelope, Id, MsgId
  <2>3. Old
    BY <2>1, <2>2, PutGrows DEF Keeps
  <2>4. New
    BY <1>3, <2>1, <2>2, PutGrows DEF Stored
  <2> QED BY <2>3, <2>4
<1>4. ASSUME NEW q \in Peer, NEW w \in Worker, NEW r \in Peer, NEW subject \in Subject,
             MarkAsRead(q, w, r, subject)
      PROVE  Old /\ New
  <2>1. MarkRead(q, Thread(q, r, subject, FALSE))
    BY <1>4 DEF MarkAsRead
  <2>2. New
    BY <2>1, MarkGrows
  <2>3. \A i : p = q /\ i \in Thread(q, r, subject, FALSE) => Marked(p, i)
    BY <1>4 DEF Marked
  <2>4. ASSUME NEW i \in DOMAIN messages[p]
        PROVE  /\ i \in DOMAIN messages'[p]
               /\ Keeps(messages[p][i], messages'[p][i])
               /\ messages'[p][i].read =>
                     messages[p][i].read \/ (p = q /\ i \in Thread(q, r, subject, FALSE))
    <3> HIDE DEF Old, New
    <3> QED BY <2>1, MarkGrows
  <2>5. Old
    BY <2>3, <2>4
  <2> QED BY <2>2, <2>5
<1>5. ASSUME NEW s \in Stream, ApplyRead(s)
      PROVE  Old /\ New
  <2> DEFINE e == stream[s].env
             indices == Covered(e.recipient, e.sender, e.subject, e.replyTo)
  <2>1. e.recipient \in Peer /\ MarkRead(e.recipient, indices)
    <3>1. stream[s].server # "free"
      BY <1>5 DEF ApplyRead
    <3> QED BY <1>5, <3>1, StreamType DEF ApplyRead
  <2>2. New
    BY <2>1, MarkGrows
  <2>3. \A i : p = e.recipient /\ i \in indices => Marked(p, i)
    BY <1>5 DEF Marked
  <2> HIDE DEF indices
  <2> QED BY <2>1, <2>2, <2>3, MarkGrows
<1>6. ASSUME NEW q \in Peer, NEW indices \in SUBSET DOMAIN messages[q], Remove(q, indices)
      PROVE  Old /\ New
  BY <1>6, RemoveGrows
<1> QED BY <1>1, <1>2, <1>3, <1>4, <1>5, <1>6, MessagesEffect

-----------------------------------------------------------------------------
(* What a step does to the calls, the envelopes and the streams.            *)

LEMMA SetCallEffect ==
    ASSUME TypeOK, NEW p \in Peer, NEW w \in Worker, NEW q \in Peer, NEW v \in Worker,
           NEW c, SetCall(q, v, c)
    PROVE  /\ ~(p = q /\ w = v) => call'[p][w] = call[p][w]
           /\ call'[q][v] = c
BY DEF SetCall, TypeOK

LEMMA CallEffect ==
    ASSUME TypeOK, Next, NEW p \in Peer, NEW w \in Worker
    PROVE  \/ call'[p][w] = call[p][w]
           \/ CallStep(p, w)
           \/ Crash(p)
           \/ \E q \in Peer, subject \in Subject : SendChat(p, w, q, subject)
           \/ \E q \in Peer, kind \in {"follow", "unfollow"} : Follow(p, w, q, kind)
           \/ \E q \in Peer, subject \in Subject : MarkAsRead(p, w, q, subject)
<1> DEFINE Goal ==
           \/ call'[p][w] = call[p][w]
           \/ CallStep(p, w)
           \/ Crash(p)
           \/ \E q \in Peer, subject \in Subject : SendChat(p, w, q, subject)
           \/ \E q \in Peer, kind \in {"follow", "unfollow"} : Follow(p, w, q, kind)
           \/ \E q \in Peer, subject \in Subject : MarkAsRead(p, w, q, subject)
<1>1. ASSUME NEW q \in Peer, UserStep(q)
      PROVE  Goal
  <2>1. ASSUME NEW v \in Worker, NEW r \in Peer, NEW subject \in Subject,
               SendChat(q, v, r, subject)
        PROVE  Goal
    <3>1. \E c : SetCall(q, v, c)
      BY <2>1 DEF SendChat
    <3>2. (p = q /\ w = v) \/ call'[p][w] = call[p][w]
      BY <3>1, SetCallEffect
    <3> QED BY <2>1, <3>2
  <2>2. ASSUME NEW v \in Worker, NEW r \in Peer, NEW kind \in {"follow", "unfollow"},
               Follow(q, v, r, kind)
        PROVE  Goal
    <3>1. \E c : SetCall(q, v, c)
      BY <2>2, FollowCall
    <3>2. (p = q /\ w = v) \/ call'[p][w] = call[p][w]
      BY <3>1, SetCallEffect
    <3> QED BY <2>2, <3>2
  <2>3. ASSUME NEW v \in Worker, NEW r \in Peer, NEW subject \in Subject,
               MarkAsRead(q, v, r, subject)
        PROVE  Goal
    <3>1. \E c : SetCall(q, v, c)
      BY <2>3 DEF MarkAsRead
    <3>2. (p = q /\ w = v) \/ call'[p][w] = call[p][w]
      BY <3>1, SetCallEffect
    <3> QED BY <2>3, <3>2
  <2>4. CASE (\E id : DeleteMessage(q, id)) \/ \E r \in Peer : DeleteConversation(q, r)
    BY <2>4 DEF DeleteMessage, DeleteConversation
  <2> QED BY <1>1, <2>1, <2>2, <2>3, <2>4 DEF UserStep
<1>2. ASSUME NEW q \in Peer, NEW v \in Worker, CallStep(q, v)
      PROVE  Goal
  <2>1. \E c : SetCall(q, v, c)
    BY <1>2 DEF CallStep, PutOutgoing, SendFollow, SendReceipt, CallOpens, CallDelivered,
       CallUnreachable, CallGivesUp, CallQueued, CallFails
  <2> QED BY <1>2, <2>1, SetCallEffect
<1>3. ASSUME NEW q \in Peer, RetryStep(q)
      PROVE  Goal
  BY <1>3 DEF RetryStep, RetryStart, RetryOpens, RetryDelivered, RetryKeeps, RetrySaves,
     RetrySaveFails
<1>4. ASSUME NEW q \in Peer, Crash(q)
      PROVE  Goal
  <2>1. q # p => call'[p] = call[p]
    BY <1>4 DEF Crash, TypeOK
  <2> QED BY <1>4, <2>1
<1>5. ASSUME NEW s \in Stream, HandlerStep(s)
      PROVE  Goal
  BY <1>5 DEF HandlerStep, CheckSeen, ApplyChat, ApplyFollower, ApplyRead, MarkSeen,
     HandlerFails, FrameLost
<1> QED BY <1>1, <1>2, <1>3, <1>4, <1>5 DEF Next

(* Where a new envelope comes from.                                         *)
Origin(e) ==
    \/ \E w \in Worker, q \in Peer, subject \in Subject :
          /\ SendChat(e.sender, w, q, subject)
          /\ e = NewEnvelope(e.sender, "chat", q, subject, NoId)
    \/ \E w \in Worker :
          LET c == call[e.sender][w] IN
          /\ SendFollow(e.sender, w)
          /\ e = NewEnvelope(e.sender, c.kind, c.peer, NoSubject, NoId)
    \/ \E w \in Worker :
          LET c == call[e.sender][w] IN
          /\ SendReceipt(e.sender, w)
          /\ e = NewEnvelope(e.sender, "read", c.peer, c.subject, c.last)

LEMMA IssuedNew ==
    ASSUME DirectAssumption, TypeOK, Fresh, Next, NEW e \in issued', e \notin issued
    PROVE  /\ e.sender \in Peer
           /\ e.ts = clock[e.sender] + 1
           /\ \A f \in issued : Id(f) # Id(e)
           /\ Origin(e)
<1>1. /\ e.sender \in Peer
      /\ e.ts = clock[e.sender] + 1
  <2>1. PICK p \in Peer, kind \in Kind, q \in Peer, subject \in Subject,
             replyTo \in MsgId \cup {NoId} :
                Issue(p, NewEnvelope(p, kind, q, subject, replyTo))
    BY IssueEffect
  <2>2. e = NewEnvelope(p, kind, q, subject, replyTo)
    BY <2>1 DEF Issue
  <2> QED BY <2>2 DEF NewEnvelope
<1>2. \A f \in issued : Id(f) # Id(e)
  BY <1>1 DEF Id, Fresh, TypeOK, Envelope
<1>3. ASSUME NEW p \in Peer, UserStep(p)
      PROVE  Origin(e)
  <2>1. PICK w \in Worker, q \in Peer, subject \in Subject : SendChat(p, w, q, subject)
    BY <1>3 DEF UserStep, Follow, MarkAsRead, DeleteMessage, DeleteConversation, history
  <2>2. e = NewEnvelope(p, "chat", q, subject, NoId)
    BY <2>1 DEF SendChat, Issue
  <2>3. e.sender = p
    BY <2>2 DEF NewEnvelope
  <2> QED BY <2>1, <2>2, <2>3 DEF Origin
<1>4. ASSUME NEW p \in Peer, NEW w \in Worker, CallStep(p, w)
      PROVE  Origin(e)
  <2>1. SendFollow(p, w) \/ SendReceipt(p, w)
    BY <1>4 DEF CallStep, PutOutgoing, CallOpens, CallDelivered, CallUnreachable,
       CallGivesUp, CallQueued, CallFails, durable, history
  <2>2. CASE SendFollow(p, w)
    <3>1. e = NewEnvelope(p, call[p][w].kind, call[p][w].peer, NoSubject, NoId)
      BY <2>2 DEF SendFollow, Issue
    <3>2. e.sender = p
      BY <3>1 DEF NewEnvelope
    <3> QED BY <2>2, <3>1, <3>2 DEF Origin
  <2>3. CASE SendReceipt(p, w)
    <3>1. e = NewEnvelope(p, "read", call[p][w].peer, call[p][w].subject, call[p][w].last)
      BY <2>3 DEF SendReceipt, Issue
    <3>2. e.sender = p
      BY <3>1 DEF NewEnvelope
    <3> QED BY <2>3, <3>1, <3>2 DEF Origin
  <2> QED BY <2>1, <2>2, <2>3
<1>5. ASSUME NEW p \in Peer, RetryStep(p) \/ Crash(p)
      PROVE  FALSE
  BY <1>5 DEF RetryStep, RetryStart, RetryOpens, RetryDelivered, RetryKeeps, RetrySaves,
     RetrySaveFails, Crash, durable, history
<1>6. ASSUME NEW s \in Stream, HandlerStep(s)
      PROVE  FALSE
  BY <1>6 DEF HandlerStep, CheckSeen, ApplyChat, ApplyFollower, ApplyRead, MarkSeen,
     HandlerFails, FrameLost, durable, history
<1>7. Origin(e)
  BY <1>3, <1>4, <1>5, <1>6 DEF Next
<1> QED BY <1>1, <1>2, <1>7

(* A call carries what it carried before or an envelope it has just made,   *)
(* and stores only what it has just made.                                   *)
LEMMA CallCarries ==
    ASSUME DirectAssumption, TypeOK, Fresh, Next, NEW p \in Peer, NEW w \in Worker,
           HasEnvelope(call'[p][w])
    PROVE  \/ /\ HasEnvelope(call[p][w])
              /\ call'[p][w].env = call[p][w].env
              /\ call'[p][w].stage = "put" => call'[p][w] = call[p][w]
           \/ /\ call'[p][w].env \notin issued
              /\ call'[p][w].env \in issued'
              /\ call'[p][w].stage = "put" => call'[p][w].env.kind = "chat"
<1> DEFINE Goal ==
           \/ /\ HasEnvelope(call[p][w])
              /\ call'[p][w].env = call[p][w].env
              /\ call'[p][w].stage = "put" => call'[p][w] = call[p][w]
           \/ /\ call'[p][w].env \notin issued
              /\ call'[p][w].env \in issued'
              /\ call'[p][w].stage = "put" => call'[p][w].env.kind = "chat"
<1>1. CASE call'[p][w] = call[p][w]
  BY <1>1
<1>2. CASE Crash(p)
  BY <1>2 DEF Crash, TypeOK, HasEnvelope, Idle
<1>3. ASSUME NEW kind, NEW q, NEW subject, NEW replyTo,
             NEW stage,
             Issue(p, NewEnvelope(p, kind, q, subject, replyTo)),
             SetCall(p, w, [stage |-> stage, env |-> NewEnvelope(p, kind, q, subject, replyTo)]),
             stage = "put" => kind = "chat"
      PROVE  Goal
  <2> DEFINE e == NewEnvelope(p, kind, q, subject, replyTo)
  <2>1. call'[p][w] = [stage |-> stage, env |-> e]
    BY <1>3, SetCallEffect
  <2>2. call'[p][w].env = e /\ call'[p][w].stage = stage
    BY <2>1
  <2>3. e.sender = p /\ e.ts = clock[p] + 1 /\ e.kind = kind
    BY DEF NewEnvelope
  <2>4. e \notin issued
    BY <2>3 DEF Fresh, TypeOK, Envelope
  <2>5. e \in issued'
    BY <1>3 DEF Issue
  <2> QED BY <1>3, <2>2, <2>3, <2>4, <2>5
<1>4. ASSUME NEW q \in Peer, NEW subject \in Subject, SendChat(p, w, q, subject)
      PROVE  Goal
  BY <1>3, <1>4 DEF SendChat
<1>5. ASSUME NEW q \in Peer, NEW kind \in {"follow", "unfollow"}, Follow(p, w, q, kind)
      PROVE  Goal
  BY <1>5, FollowCall, SetCallEffect DEF HasEnvelope, Idle
<1>6. ASSUME NEW q \in Peer, NEW subject \in Subject, MarkAsRead(p, w, q, subject)
      PROVE  Goal
  BY <1>6, SetCallEffect DEF MarkAsRead, HasEnvelope
<1>7. CASE CallStep(p, w)
  <2>1. CASE SendFollow(p, w)
    BY <1>3, <2>1 DEF SendFollow
  <2>2. CASE SendReceipt(p, w)
    BY <1>3, <2>2 DEF SendReceipt
  <2>3. CASE CallDelivered(p, w) \/ CallQueued(p, w) \/ CallFails(p, w)
    <3>1. call'[p][w] = Idle
      BY <2>3, SetCallEffect DEF CallDelivered, CallQueued, CallFails
    <3> QED BY <3>1 DEF HasEnvelope, Idle
  <2>4. CASE PutOutgoing(p, w)
    <3>1. call'[p][w] = [stage |-> "deliver", env |-> call[p][w].env]
      BY <2>4, SetCallEffect DEF PutOutgoing
    <3> QED BY <2>4, <3>1 DEF PutOutgoing, HasEnvelope
  <2>5. ASSUME NEW s \in Stream, CallOpens(p, w, s)
        PROVE  Goal
    <3>1. call'[p][w] = [stage |-> "wait", env |-> call[p][w].env, stream |-> s]
      BY <2>5, SetCallEffect DEF CallOpens
    <3> QED BY <2>5, <3>1 DEF CallOpens, HasEnvelope
  <2>6. CASE CallUnreachable(p, w) \/ CallGivesUp(p, w)
    <3>1. call'[p][w] = [stage |-> "queue", env |-> call[p][w].env]
      BY <2>6, SetCallEffect DEF CallUnreachable, CallGivesUp
    <3> QED BY <2>6, <3>1 DEF CallUnreachable, CallGivesUp, HasEnvelope
  <2> QED BY <1>7, <2>1, <2>2, <2>3, <2>4, <2>5, <2>6 DEF CallStep
<1> QED BY <1>1, <1>2, <1>4, <1>5, <1>6, <1>7, CallEffect

(* A stream that opens carries what a call delivers or a pass retries.      *)
LEMMA StreamCarries ==
    ASSUME DirectAssumption, TypeOK, CallsKnown, OutboxKnown, PassKeeps, Next,
           NEW s \in Stream, stream'[s] # Free
    PROVE  \/ /\ stream[s] # Free
              /\ stream'[s].env = stream[s].env
              /\ stream'[s].server \in {stream[s].server, "dead"} \/ HandlerStep(s)
           \/ /\ stream'[s].server = "sent"
              /\ \/ \E p \in Peer, w \in Worker :
                       call[p][w].stage = "deliver" /\ stream'[s].env = call[p][w].env
                 \/ \E p \in Peer : InSeq(stream'[s].env, outbox[p])
<1> DEFINE Goal ==
           \/ /\ stream[s] # Free
              /\ stream'[s].env = stream[s].env
              /\ stream'[s].server \in {stream[s].server, "dead"} \/ HandlerStep(s)
           \/ /\ stream'[s].server = "sent"
              /\ \/ \E p \in Peer, w \in Worker :
                       call[p][w].stage = "deliver" /\ stream'[s].env = call[p][w].env
                 \/ \E p \in Peer : InSeq(stream'[s].env, outbox[p])
<1>1. ASSUME NEW p \in Peer, NEW w \in Worker, NEW t \in Stream, CallOpens(p, w, t)
      PROVE  Goal
  <2>1. t # s => stream'[s] = stream[s]
    BY <1>1 DEF CallOpens, TypeOK
  <2>2. t = s => stream'[s].env = call[p][w].env /\ stream'[s].server = "sent"
    BY <1>1 DEF CallOpens, TypeOK, Opened
  <2> QED BY <1>1, <2>1, <2>2 DEF CallOpens
<1>2. ASSUME NEW p \in Peer, NEW t \in Stream, RetryOpens(p, t)
      PROVE  Goal
  <2>1. t # s => stream'[s] = stream[s]
    BY <1>2 DEF RetryOpens, TypeOK
  <2>2. t = s => stream'[s].env = Head(pass[p].todo) /\ stream'[s].server = "sent"
    BY <1>2 DEF RetryOpens, TypeOK, Opened
  <2>3. pass[p].on /\ pass[p].todo \in Seq(Envelope) /\ pass[p].todo # <<>>
    BY <1>2, PassType DEF RetryOpens, Retrying
  <2>4. InSeq(Head(pass[p].todo), outbox[p])
    BY <2>3, HeadTail DEF PassKeeps, InSeq
  <2> QED BY <2>1, <2>2, <2>4
<1>3. CASE /\ ~\E p \in Peer, w \in Worker, t \in Stream : CallOpens(p, w, t)
           /\ ~\E p \in Peer, t \in Stream : RetryOpens(p, t)
  <2>1. ASSUME NEW t \in Stream, stream[t] # Free, NEW to, HandlerStep(t),
               stream' = [stream EXCEPT ![t] = Settle([stream[t] EXCEPT !.server = to])]
        PROVE  Goal
    <3>1. stream[t] \in [server : Working \cup Finished, env : Envelope, waited : BOOLEAN]
      BY <2>1 DEF TypeOK, Exchange
    <3> DEFINE x == [stream[t] EXCEPT !.server = to]
    <3>2. x.env = stream[t].env
      BY <3>1
    <3>3. Settle(x) = Free \/ Settle(x) = x
      BY DEF Settle
    <3> QED BY <2>1, <3>2, <3>3 DEF TypeOK
  <2>2. ASSUME NEW t \in Stream
        PROVE  Abandoned(t) # Free =>
                 /\ stream[t] # Free
                 /\ Abandoned(t).env = stream[t].env
                 /\ Abandoned(t).server = stream[t].server
    <3>1. CASE stream[t] # Free
      <4>1. stream[t] \in [server : Working \cup Finished, env : Envelope, waited : BOOLEAN]
        BY <3>1 DEF TypeOK, Exchange
      <4> DEFINE x == [stream[t] EXCEPT !.waited = FALSE]
      <4>2. x.env = stream[t].env /\ x.server = stream[t].server
        BY <4>1
      <4> QED BY <3>1, <4>2 DEF Abandoned, Settle
    <3>2. CASE stream[t] = Free
      BY <3>2 DEF Abandoned
    <3> QED BY <3>1, <3>2
  <2>3. ASSUME NEW p \in Peer, UserStep(p)
        PROVE  Goal
    BY <2>3, ZenonT(60) DEF UserStep, SendChat, Follow, MarkAsRead, DeleteMessage, DeleteConversation
  <2>4. ASSUME NEW p \in Peer, NEW w \in Worker, CallStep(p, w)
        PROVE  Goal
    <3>1. \/ UNCHANGED stream
          \/ \E t \in Stream : stream' = [stream EXCEPT ![t] = Free]
          \/ \E t \in Stream : stream' = [stream EXCEPT ![t] = Abandoned(t)]
      BY <1>3, <2>4, CallType DEF CallStep, PutOutgoing, SendFollow, SendReceipt,
         CallDelivered, CallUnreachable, CallGivesUp, CallQueued, CallFails
    <3> QED BY <2>2, <3>1 DEF TypeOK
  <2>5. ASSUME NEW p \in Peer, RetryStep(p)
        PROVE  Goal
    <3>1. pass[p].on => pass[p].stream \in Stream \cup {NoStream}
      BY PassType
    <3>2. \/ UNCHANGED stream
          \/ \E t \in Stream : stream' = [stream EXCEPT ![t] = Free]
          \/ \E t \in Stream : stream' = [stream EXCEPT ![t] = Abandoned(t)]
      BY <1>3, <2>5, <3>1 DEF RetryStep, RetryStart, RetryDelivered, RetryKeeps, RetrySaves,
         RetrySaveFails, Retrying
    <3> QED BY <2>2, <3>2 DEF TypeOK
  <2>6. ASSUME NEW p \in Peer, Crash(p)
        PROVE  Goal
    <3>1. stream'[s] = IF stream[s] = Free THEN Free
                       ELSE IF stream[s].env.sender = p THEN Abandoned(s)
                       ELSE IF stream[s].env.recipient = p /\ stream[s].server \in Working
                            THEN Settle([stream[s] EXCEPT !.server = "dead"])
                       ELSE stream[s]
      BY <2>6 DEF Crash
    <3>2. CASE stream'[s] = Settle([stream[s] EXCEPT !.server = "dead"]) /\ stream[s] # Free
      <4>1. stream[s] \in [server : Working \cup Finished, env : Envelope, waited : BOOLEAN]
        BY <3>2 DEF TypeOK, Exchange
      <4> DEFINE x == [stream[s] EXCEPT !.server = "dead"]
      <4>2. x.env = stream[s].env /\ x.server = "dead"
        BY <4>1
      <4>3. Settle(x) = Free \/ Settle(x) = x
        BY DEF Settle
      <4> QED BY <3>2, <4>2, <4>3
    <3> QED BY <2>2, <3>1, <3>2
  <2>7. ASSUME NEW t \in Stream, HandlerStep(t)
        PROVE  Goal
    <3>1. stream[t].server \in Working
      BY <2>7 DEF HandlerStep, CheckSeen, ApplyChat, ApplyFollower, ApplyRead, MarkSeen,
         HandlerFails, FrameLost, Working
    <3>2. stream[t] # Free
      BY <3>1 DEF Working, Free
    <3>3. \E to : Reached(t, to)
      BY <2>7 DEF HandlerStep, CheckSeen, ApplyChat, ApplyFollower, ApplyRead, MarkSeen,
         HandlerFails, FrameLost
    <3> QED BY <2>1, <2>7, <3>2, <3>3 DEF Reached
  <2> QED BY <2>3, <2>4, <2>5, <2>6, <2>7 DEF Next
<1> QED BY <1>1, <1>2, <1>3

-----------------------------------------------------------------------------
(* Entries, and the messages that calls are about to store.                 *)

LEMMA ChatsApartStep ==
    ASSUME DirectAssumption, TypeOK, Fresh, ChatsApart, Next
    PROVE  ChatsApart'
<1> SUFFICES ASSUME NEW e \in issued', e \notin issued, e.kind = "chat"
             PROVE  e.sender # e.recipient
  BY DEF ChatsApart
<1>1. Origin(e)
  BY IssuedNew
<1>2. ASSUME NEW w \in Worker, NEW q \in Peer, NEW subject \in Subject,
             SendChat(e.sender, w, q, subject),
             e = NewEnvelope(e.sender, "chat", q, subject, NoId)
      PROVE  e.sender # e.recipient
  <2>1. e.recipient = q
    BY <1>2 DEF NewEnvelope
  <2> QED BY <1>2, <2>1 DEF SendChat
<1>3. ASSUME NEW w \in Worker, SendFollow(e.sender, w),
             e = NewEnvelope(e.sender, call[e.sender][w].kind, call[e.sender][w].peer,
                             NoSubject, NoId)
      PROVE  FALSE
  <2>1. e.kind = call[e.sender][w].kind
    BY <1>3 DEF NewEnvelope
  <2>2. e.sender \in Peer
    BY IssuedNew
  <2>3. call[e.sender][w].kind \in {"follow", "unfollow"}
    BY <1>3, <2>2, CallType DEF SendFollow
  <2> QED BY <2>1, <2>3
<1>4. \A w \in Worker : e # NewEnvelope(e.sender, "read", call[e.sender][w].peer,
                           call[e.sender][w].subject, call[e.sender][w].last)
  BY DEF NewEnvelope
<1> QED BY <1>1, <1>2, <1>3, <1>4 DEF Origin

LEMMA PutsChatStep ==
    ASSUME DirectAssumption, TypeOK, Fresh, PutsChat, Next
    PROVE  PutsChat'
BY CallCarries DEF PutsChat, HasEnvelope

LEMMA FromKept ==
    ASSUME NEW m, NEW n, NEW e, NEW p, Keeps(m, n), From(m, e, p)
    PROVE  From(n, e, p)
BY DEF Keeps, From, Outgoing, Incoming

LEMMA EntriesStep ==
    ASSUME DirectAssumption, TypeOK, CallsKnown, StreamsKnown, PutsChat, EntriesKnown, Next
    PROVE  EntriesKnown'
<1>1. issued \subseteq issued'
  BY IssuedGrows
<1> SUFFICES ASSUME NEW p \in Peer, NEW i \in DOMAIN messages'[p]
             PROVE  \E e \in issued' : From(messages'[p][i], e, p)
  BY DEF EntriesKnown, From, Outgoing, Incoming, Id
<1>2. CASE i \in DOMAIN messages[p]
  <2>1. Keeps(messages[p][i], messages'[p][i])
    BY <1>2, HistoryGrows
  <2>2. PICK e \in issued : From(messages[p][i], e, p)
    BY <1>2 DEF EntriesKnown
  <2> QED BY <1>1, <2>1, <2>2, FromKept
<1>3. CASE i \notin DOMAIN messages[p]
  <2>1. Stored(p, messages'[p][i])
    BY <1>3, HistoryGrows
  <2>2. ASSUME NEW w \in Worker, PutOutgoing(p, w)
        PROVE  call[p][w].env \in issued /\ From(OutgoingEntry(call[p][w].env), call[p][w].env, p)
    BY <2>2 DEF PutOutgoing, CallsKnown, HasEnvelope, PutsChat, From, Outgoing, OutgoingEntry
  <2>3. ASSUME NEW s \in Stream, ApplyChat(s), stream[s].env.recipient = p
        PROVE  stream[s].env \in issued /\ From(IncomingEntry(stream[s].env), stream[s].env, p)
    BY <2>3 DEF ApplyChat, StreamsKnown, Free, From, Incoming, IncomingEntry
  <2> QED BY <1>1, <2>1, <2>2, <2>3 DEF Stored
<1> QED BY <1>2, <1>3

LEMMA PutIsNewStep ==
    ASSUME DirectAssumption, TypeOK, Fresh, Unique, CallsKnown, StreamsKnown, OutboxKnown,
           PassKeeps, EntriesKnown, PutIsNew, Next
    PROVE  PutIsNew'
<1> SUFFICES ASSUME NEW p \in Peer, NEW w \in Worker, call'[p][w].stage = "put"
             PROVE  LET e == call'[p][w].env IN
                    /\ \A v \in Worker : HasEnvelope(call'[p][v]) /\ call'[p][v].env = e => v = w
                    /\ \A i \in DOMAIN outbox'[p] : outbox'[p][i] # e
                    /\ \A s \in Stream : stream'[s] # Free => stream'[s].env # e
                    /\ \A q \in Peer : \A i \in DOMAIN messages'[q] : messages'[q][i].id # Id(e)
  BY DEF PutIsNew, HasEnvelope, Free, Id
<1> DEFINE e == call'[p][w].env
<1>1. HasEnvelope(call'[p][w])
  BY DEF HasEnvelope
<1>2. /\ e \in issued'
      /\ e.sender = p
      /\ call'[p][w] = call[p][w] \/ e \notin issued
  <2>1. CallsKnown'
    BY CallsKnownStep
  <2> QED BY <1>1, <2>1, CallCarries DEF CallsKnown
<1>3. e \in issued => call[p][w].stage = "put" /\ call[p][w].env = e
  BY <1>2
<1>4. \A f \in issued : e \notin issued => Id(f) # Id(e)
  BY <1>2, IssuedNew
<1>5. \A f \in issued : Id(f) = Id(e) => f = e
  BY <1>4 DEF Unique
<1>6. \A v \in Worker : HasEnvelope(call[p][v]) /\ call[p][v].env = e => v = w
  BY <1>3 DEF PutIsNew, CallsKnown
<1>7. \A q \in Peer, v \in Worker :
         HasEnvelope(call[q][v]) /\ call[q][v].env = e =>
            q = p /\ v = w /\ call[p][w].stage = "put"
  BY <1>2, <1>3, <1>6 DEF CallsKnown
<1>8. ASSUME NEW v \in Worker, HasEnvelope(call'[p][v]), call'[p][v].env = e
      PROVE  v = w
  <2>1. CASE HasEnvelope(call[p][v]) /\ call[p][v].env = e
    BY <1>6, <2>1
  <2>2. CASE e \notin issued
    <3>1. ASSUME NEW u \in Worker, call'[p][u].env = e, HasEnvelope(call'[p][u]), u # w
          PROVE  call'[p][u] = call[p][u]
      <4>1. Origin(e)
        BY <1>2, <2>2, IssuedNew
      <4>2. ASSUME NEW x \in Worker, NEW c, SetCall(p, x, c)
            PROVE  call'[p][u] = call[p][u] \/ call'[p][w] = call[p][w]
        BY <3>1, <4>2, SetCallEffect
      <4>3. call'[p][w] # call[p][w]
        BY <1>2, <2>2, <1>1 DEF CallsKnown
      <4>4. \E x \in Worker : \E c : SetCall(p, x, c)
        BY <1>2, <4>1 DEF Origin, SendChat, SendFollow, SendReceipt
      <4> QED BY <4>2, <4>3, <4>4
    <3>2. v # w => call[p][v].env \in issued
      BY <1>8, <3>1 DEF CallsKnown
    <3> QED BY <1>8, <2>2, <3>1, <3>2
  <2> QED BY <1>8, <2>1, <2>2, CallCarries
<1>9. ASSUME NEW i \in DOMAIN outbox'[p], outbox'[p][i] = e
      PROVE  FALSE
  <2>1. ASSUME InSeq(e, outbox[p])
        PROVE  FALSE
    BY <1>3, <2>1 DEF InSeq, OutboxKnown, PutIsNew
  <2>2. CASE outbox'[p] = outbox[p]
    BY <1>9, <2>1, <2>2 DEF InSeq
  <2>3. ASSUME NEW v \in Worker, CallQueued(p, v), outbox'[p] # outbox[p]
        PROVE  FALSE
    <3> DEFINE f == call[p][v].env
    <3>1. outbox'[p] = Append(outbox[p], f) /\ outbox[p] \in Seq(Envelope)
      BY <2>3 DEF CallQueued, TypeOK
    <3>2. f # e
      <4>1. HasEnvelope(call[p][v]) /\ call[p][v].stage = "queue"
        BY <2>3 DEF CallQueued, HasEnvelope
      <4> QED BY <1>7, <4>1
    <3>3. InSeq(e, outbox[p])
      BY <1>9, <3>1, <3>2 DEF InSeq
    <3> QED BY <2>1, <3>3
  <2>4. CASE RetrySaves(p)
    <3>1. outbox'[p] = pass[p].remaining /\ pass[p].on
      BY <2>4 DEF RetrySaves, TypeOK
    <3> QED BY <1>9, <2>1, <3>1 DEF PassKeeps
  <2>5. ASSUME NEW q \in Peer, q # p, RetrySaves(q) \/ \E v \in Worker : CallQueued(q, v)
        PROVE  outbox'[p] = outbox[p]
    BY <2>5 DEF RetrySaves, CallQueued, TypeOK
  <2> QED BY <2>2, <2>3, <2>4, <2>5, OutboxEffect
<1>10. ASSUME NEW s \in Stream, stream'[s] # Free, stream'[s].env = e
       PROVE  FALSE
  <2>1. CASE stream[s] # Free /\ stream'[s].env = stream[s].env
    BY <1>3, <1>10, <2>1 DEF StreamsKnown, PutIsNew
  <2>2. ASSUME NEW q \in Peer, NEW v \in Worker, call[q][v].stage = "deliver", call[q][v].env = e
        PROVE  FALSE
    BY <1>7, <2>2 DEF HasEnvelope
  <2>3. ASSUME NEW q \in Peer, InSeq(e, outbox[q])
        PROVE  FALSE
    BY <1>2, <1>3, <2>3 DEF InSeq, OutboxKnown, PutIsNew
  <2> QED BY <1>10, <2>1, <2>2, <2>3, StreamCarries
<1>11. ASSUME NEW q \in Peer, NEW i \in DOMAIN messages'[q], messages'[q][i].id = Id(e)
       PROVE  FALSE
  <2>1. CASE i \in DOMAIN messages[q]
    <3>1. messages[q][i].id = Id(e)
      BY <1>11, <2>1, HistoryGrows DEF Keeps
    <3>2. PICK f \in issued : Id(f) = Id(e)
      BY <2>1, <3>1 DEF EntriesKnown, From
    <3> QED BY <1>3, <1>5, <2>1, <3>1, <3>2 DEF PutIsNew
  <2>2. CASE i \notin DOMAIN messages[q]
    <3>1. Stored(q, messages'[q][i])
      BY <2>2, HistoryGrows
    <3>2. ASSUME NEW v \in Worker, PutOutgoing(q, v), Id(call[q][v].env) = Id(e)
          PROVE  FALSE
      <4>1. HasEnvelope(call[q][v])
        BY <3>2 DEF PutOutgoing, HasEnvelope
      <4>2. call[q][v].env = e
        BY <1>5, <3>2, <4>1 DEF CallsKnown
      <4>3. q = p /\ v = w
        BY <1>7, <4>1, <4>2
      <4>4. call'[p][w].stage = "deliver"
        BY <3>2, <4>3, SetCallEffect DEF PutOutgoing
      <4> QED BY <4>4
    <3>3. ASSUME NEW s \in Stream, ApplyChat(s), Id(stream[s].env) = Id(e)
          PROVE  FALSE
      <4>1. stream[s] # Free
        BY <3>3 DEF ApplyChat, Free
      <4>2. stream[s].env \in issued /\ stream[s].env = e
        BY <1>5, <3>3, <4>1 DEF StreamsKnown
      <4> QED BY <1>3, <4>1, <4>2 DEF PutIsNew
    <3>4. \A x : OutgoingEntry(x).id = Id(x) /\ IncomingEntry(x).id = Id(x)
      BY DEF OutgoingEntry, IncomingEntry
    <3> HIDE DEF e
    <3> QED BY <1>11, <3>1, <3>2, <3>3, <3>4 DEF Stored
  <2> QED BY <2>1, <2>2
<1> QED BY <1>8, <1>9, <1>10, <1>11

-----------------------------------------------------------------------------
(* Receipts, and the effects of the envelopes that are recorded as seen.    *)

LEMMA ReadsKept ==
    ASSUME TypeOK, Next, NEW p \in Peer, NEW q, NEW subject, NEW id,
           Reads(p, q, subject, id)
    PROVE  Reads(p, q, subject, id)'
<1>1. PICK i \in DOMAIN messages[p] :
         /\ messages[p][i].id = id
         /\ messages[p][i].peer = q
         /\ messages[p][i].subject = subject
         /\ ~messages[p][i].outgoing
         /\ messages[p][i].read
  BY DEF Reads
<1>2. i \in DOMAIN messages'[p] /\ Keeps(messages[p][i], messages'[p][i])
  BY HistoryGrows
<1> QED BY <1>1, <1>2 DEF Reads, Keeps

LEMMA ReceiptsStep ==
    ASSUME DirectAssumption, TypeOK, Fresh, ReceiptsBacked, Next
    PROVE  ReceiptsBacked'
<1>1. ASSUME NEW e \in issued', e.kind = "read"
      PROVE  Reads(e.sender, e.recipient, e.subject, e.replyTo)'
  <2>1. CASE e \in issued
    <3>1. e.sender \in Peer
      BY <2>1 DEF TypeOK, Envelope
    <3>2. Reads(e.sender, e.recipient, e.subject, e.replyTo)
      BY <1>1, <2>1 DEF ReceiptsBacked
    <3> QED BY <3>1, <3>2, ReadsKept
  <2>2. CASE e \notin issued
    <3>1. Origin(e) /\ e.sender \in Peer
      BY <2>2, IssuedNew
    <3>2. ~\E q, subject : e = NewEnvelope(e.sender, "chat", q, subject, NoId)
      BY <1>1 DEF NewEnvelope
    <3>3. \A w \in Worker : SendFollow(e.sender, w) =>
             e # NewEnvelope(e.sender, call[e.sender][w].kind, call[e.sender][w].peer,
                             NoSubject, NoId)
      BY <1>1, <3>1, CallType DEF SendFollow, NewEnvelope
    <3>4. PICK w \in Worker :
             /\ SendReceipt(e.sender, w)
             /\ e = NewEnvelope(e.sender, "read", call[e.sender][w].peer,
                                call[e.sender][w].subject, call[e.sender][w].last)
      BY <3>1, <3>2, <3>3 DEF Origin
    <3>5. /\ e.recipient = call[e.sender][w].peer
          /\ e.subject = call[e.sender][w].subject
          /\ e.replyTo = call[e.sender][w].last
      BY <3>4 DEF NewEnvelope
    <3>6. Reads(e.sender, e.recipient, e.subject, e.replyTo)
      BY <3>1, <3>4, <3>5 DEF SendReceipt, ReceiptsBacked
    <3> QED BY <3>1, <3>6, ReadsKept
  <2> QED BY <2>1, <2>2
<1>2. ASSUME NEW p \in Peer, NEW w \in Worker, call'[p][w].stage = "receipt"
      PROVE  Reads(p, call[p][w].peer, call[p][w].subject, call[p][w].last)'
  <2>1. CASE call'[p][w] = call[p][w]
    <3> DEFINE c == call[p][w]
    <3>1. Reads(p, c.peer, c.subject, c.last)
      BY <1>2, <2>1 DEF ReceiptsBacked
    <3>2. PICK q, subject, id : q = c.peer /\ subject = c.subject /\ id = c.last
      OBVIOUS
    <3>3. Reads(p, q, subject, id)'
      BY <3>1, <3>2, ReadsKept
    <3>4. call'[p][w].peer = q /\ call'[p][w].subject = subject /\ call'[p][w].last = id
      BY <2>1, <3>2
    <3> QED BY <3>3, <3>4 DEF Reads
  <2>2. ASSUME NEW q \in Peer, NEW subject \in Subject, MarkAsRead(p, w, q, subject)
        PROVE  Reads(p, call[p][w].peer, call[p][w].subject, call[p][w].last)'
    <3> DEFINE incoming == Thread(p, q, subject, FALSE)
    <3>1. PICK last \in Newest(p, incoming) :
             SetCall(p, w, [stage |-> "receipt", peer |-> q, subject |-> subject,
                            last |-> messages[p][last].id])
      BY <2>2 DEF MarkAsRead
    <3>2. call'[p][w] = [stage |-> "receipt", peer |-> q, subject |-> subject,
                         last |-> messages[p][last].id]
      BY <3>1, SetCallEffect
    <3>3. MarkRead(p, incoming)
      BY <2>2 DEF MarkAsRead
    <3>4. /\ last \in incoming
          /\ last \in DOMAIN messages[p]
          /\ messages[p][last].peer = q
          /\ messages[p][last].subject = subject
          /\ ~messages[p][last].outgoing
      BY <3>1 DEF Newest, Thread
    <3>5. /\ last \in DOMAIN messages'[p]
          /\ Keeps(messages[p][last], messages'[p][last])
          /\ messages'[p][last].read
      BY <3>3, <3>4, MarkGrows
    <3> QED BY <3>2, <3>4, <3>5 DEF Reads, Keeps
  <2>3. CASE CallStep(p, w)
    <3>1. \E c : SetCall(p, w, c) /\ c.stage \in {"idle", "deliver", "wait", "queue"}
      <4>1. CASE PutOutgoing(p, w) \/ SendFollow(p, w) \/ SendReceipt(p, w)
        BY <4>1 DEF PutOutgoing, SendFollow, SendReceipt
      <4>2. CASE \E s \in Stream : CallOpens(p, w, s)
        BY <4>2 DEF CallOpens
      <4>3. CASE CallDelivered(p, w) \/ CallQueued(p, w) \/ CallFails(p, w)
        BY <4>3 DEF CallDelivered, CallQueued, CallFails, Idle
      <4>4. CASE CallUnreachable(p, w) \/ CallGivesUp(p, w)
        BY <4>4 DEF CallUnreachable, CallGivesUp
      <4> QED BY <2>3, <4>1, <4>2, <4>3, <4>4 DEF CallStep
    <3> QED BY <1>2, <3>1, SetCallEffect
  <2>4. CASE Crash(p)
    BY <1>2, <2>4 DEF Crash, TypeOK, Idle
  <2>5. ASSUME NEW q \in Peer, NEW subject \in Subject, SendChat(p, w, q, subject)
        PROVE  FALSE
    BY <1>2, <2>5, SetCallEffect DEF SendChat
  <2>6. ASSUME NEW q \in Peer, NEW kind \in {"follow", "unfollow"}, Follow(p, w, q, kind)
        PROVE  FALSE
    BY <1>2, <2>6, FollowCall, SetCallEffect DEF Idle
  <2> QED BY <2>1, <2>2, <2>3, <2>4, <2>5, <2>6, CallEffect
<1> QED BY <1>1, <1>2 DEF ReceiptsBacked, Reads

LEMMA SeenKnownStep ==
    ASSUME DirectAssumption, TypeOK, StreamsKnown, SeenKnown, Next
    PROVE  SeenKnown'
<1>1. issued \subseteq issued'
  BY IssuedGrows
<1>2. CASE UNCHANGED seen
  BY <1>1, <1>2 DEF SeenKnown, Id
<1>3. ASSUME NEW s \in Stream, MarkSeen(s)
      PROVE  SeenKnown'
  <2>1. stream[s] # Free /\ stream[s].env \in issued
    BY <1>3 DEF MarkSeen, Free, StreamsKnown
  <2>2. \A p \in Peer : \A id \in seen'[p] : id \in seen[p] \/ id = Id(stream[s].env)
    BY <1>3 DEF MarkSeen, TypeOK
  <2> QED BY <1>1, <2>1, <2>2 DEF SeenKnown, Id
<1> QED BY <1>2, <1>3, SeenEffect

LEMMA FollowersEffect ==
    ASSUME TypeOK, Next
    PROVE  UNCHANGED followers \/ \E s \in Stream : ApplyFollower(s)
<1>1. ASSUME NEW p \in Peer, UserStep(p) \/ RetryStep(p) \/ Crash(p)
      PROVE  UNCHANGED followers
  BY <1>1 DEF UserStep, SendChat, Follow, MarkAsRead, DeleteMessage, DeleteConversation,
     RetryStep, RetryStart, RetryOpens, RetryDelivered, RetryKeeps, RetrySaves,
     RetrySaveFails, Crash, durable
<1>2. ASSUME NEW p \in Peer, NEW w \in Worker, CallStep(p, w)
      PROVE  UNCHANGED followers
  BY <1>2 DEF CallStep, PutOutgoing, SendFollow, SendReceipt, CallOpens, CallDelivered,
     CallUnreachable, CallGivesUp, CallQueued, CallFails, durable
<1>3. ASSUME NEW s \in Stream, HandlerStep(s)
      PROVE  UNCHANGED followers \/ ApplyFollower(s)
  BY <1>3 DEF HandlerStep, CheckSeen, ApplyChat, ApplyRead, MarkSeen, HandlerFails,
     FrameLost, durable
<1> QED BY <1>1, <1>2, <1>3 DEF Next

(* What p knows of q only changes to what q has said, and only forward.     *)
LEMMA FollowersForward ==
    ASSUME TypeOK, StreamsKnown, Next, NEW p \in Peer, NEW q \in Peer
    PROVE  \/ followers'[p][q] = followers[p][q]
           \/ \E e \in issued :
                 /\ e.sender = q
                 /\ e.recipient = p
                 /\ e.kind \in {"follow", "unfollow"}
                 /\ e.ts > followers[p][q].ts
                 /\ followers'[p][q].ts = e.ts
                 /\ followers'[p][q].following <=> e.kind = "follow"
<1>1. CASE UNCHANGED followers
  BY <1>1
<1>2. ASSUME NEW s \in Stream, ApplyFollower(s), followers'[p][q] # followers[p][q]
      PROVE  \E e \in issued :
                 /\ e.sender = q
                 /\ e.recipient = p
                 /\ e.kind \in {"follow", "unfollow"}
                 /\ e.ts > followers[p][q].ts
                 /\ followers'[p][q].ts = e.ts
                 /\ followers'[p][q].following <=> e.kind = "follow"
  <2> DEFINE e == stream[s].env
  <2>1. stream[s] # Free /\ e \in issued
    BY <1>2 DEF ApplyFollower, Free, StreamsKnown
  <2>2. e.sender \in Peer /\ e.recipient \in Peer
    BY <2>1 DEF TypeOK, Envelope
  <2>3. followers' = [followers EXCEPT ![e.recipient][e.sender] =
                        FollowStateAfter(followers[e.recipient][e.sender], e)]
    BY <1>2 DEF ApplyFollower
  <2>4. e.recipient = p /\ e.sender = q
    BY <1>2, <2>2, <2>3 DEF TypeOK
  <2>5. followers'[p][q] = FollowStateAfter(followers[p][q], e)
    BY <2>3, <2>4 DEF TypeOK
  <2>6. e.ts > followers[p][q].ts
    BY <1>2, <2>5 DEF FollowStateAfter
  <2>7. followers'[p][q] = [following |-> e.kind = "follow", ts |-> e.ts]
    BY <2>5, <2>6 DEF FollowStateAfter
  <2>8. followers'[p][q].ts = e.ts /\ (followers'[p][q].following <=> e.kind = "follow")
    <3>1. PICK b \in BOOLEAN : b <=> e.kind = "follow"
      OBVIOUS
    <3>2. (e.kind = "follow") = b
      BY <3>1
    <3>3. followers'[p][q] = [following |-> b, ts |-> e.ts]
      BY <2>7, <3>2, Zenon
    <3> QED BY <3>1, <3>3
  <2>9. e.kind \in {"follow", "unfollow"}
    BY <1>2 DEF ApplyFollower
  <2> QED BY <2>1, <2>4, <2>6, <2>8, <2>9
<1> QED BY <1>1, <1>2, FollowersEffect

LEMMA FollowerStateStep ==
    ASSUME DirectAssumption, TypeOK, StreamsKnown, FollowerStateSaid, Next
    PROVE  FollowerStateSaid'
<1>1. issued \subseteq issued'
  BY IssuedGrows
<1> SUFFICES ASSUME NEW p \in Peer, NEW q \in Peer, followers'[p][q].ts > 0
             PROVE  \E e \in issued' :
                       /\ e.sender = q
                       /\ e.recipient = p
                       /\ e.ts = followers'[p][q].ts
                       /\ e.kind = IF followers'[p][q].following THEN "follow" ELSE "unfollow"
  BY DEF FollowerStateSaid
<1>2. CASE followers'[p][q] = followers[p][q]
  BY <1>1, <1>2 DEF FollowerStateSaid
<1>3. CASE followers'[p][q] # followers[p][q]
  <2>1. PICK e \in issued :
           /\ e.sender = q
           /\ e.recipient = p
           /\ e.kind \in {"follow", "unfollow"}
           /\ followers'[p][q].ts = e.ts
           /\ followers'[p][q].following <=> e.kind = "follow"
    BY <1>3, FollowersForward
  <2>2. e.kind = IF followers'[p][q].following THEN "follow" ELSE "unfollow"
    BY <2>1
  <2> QED BY <1>1, <2>1, <2>2
<1> QED BY <1>2, <1>3

(* The chat that an entry comes from is the one of its ID.                  *)
LEMMA EntryOf ==
    ASSUME Unique, EntriesKnown, NEW p \in Peer, NEW i \in DOMAIN messages[p],
           NEW e \in issued, messages[p][i].id = Id(e)
    PROVE  From(messages[p][i], e, p)
<1>1. PICK f \in issued : From(messages[p][i], f, p)
  BY DEF EntriesKnown
<1>2. f = e
  BY <1>1 DEF From, Unique
<1> QED BY <1>1, <1>2

(* The message that a receipt names is one that its recipient wrote to its  *)
(* sender.                                                                  *)
LEMMA ReceiptNames ==
    ASSUME TypeOK, Unique, EntriesKnown, ReceiptsBacked, NEW e \in issued, e.kind = "read"
    PROVE  \E f \in issued :
              /\ f.kind = "chat"
              /\ Id(f) = e.replyTo
              /\ f.sender = e.recipient
              /\ f.recipient = e.sender
<1>1. e.sender \in Peer
  BY DEF TypeOK, Envelope
<1>2. PICK i \in DOMAIN messages[e.sender] :
         /\ messages[e.sender][i].id = e.replyTo
         /\ messages[e.sender][i].peer = e.recipient
         /\ ~messages[e.sender][i].outgoing
  BY DEF ReceiptsBacked, Reads
<1>3. PICK f \in issued : From(messages[e.sender][i], f, e.sender)
  BY <1>1, <1>2 DEF EntriesKnown
<1> QED BY <1>2, <1>3 DEF From, Outgoing, Incoming

LEMMA AppliedKept ==
    ASSUME DirectAssumption, IInv, ChatsApart, EntriesKnown, PutIsNew, ReceiptsBacked, Next,
           NEW e \in issued, Applied(e)
    PROVE  Applied(e)'
<1>0. /\ e.sender \in Peer /\ e.recipient \in Peer /\ e.ts \in Nat
      /\ TypeOK /\ Unique /\ CallsKnown /\ StreamsKnown
  BY DEF IInv, TypeOK, Envelope
<1>1. CASE e.kind = "chat"
  <2>1. PICK i \in DOMAIN messages[e.recipient] : messages[e.recipient][i].id = Id(e)
    BY <1>1 DEF Applied, ChatApplied
  <2>2. i \in DOMAIN messages'[e.recipient] /\ messages'[e.recipient][i].id = Id(e)
    BY <1>0, <2>1, HistoryGrows DEF Keeps
  <2> QED BY <1>1, <2>2 DEF Applied, ChatApplied, Id
<1>2. CASE e.kind \in {"follow", "unfollow"}
  <2>1. followers[e.recipient][e.sender].ts >= e.ts
    BY <1>2 DEF Applied, FollowApplied
  <2>2. \/ followers'[e.recipient][e.sender] = followers[e.recipient][e.sender]
        \/ followers'[e.recipient][e.sender].ts > followers[e.recipient][e.sender].ts
    <3>1. CASE followers'[e.recipient][e.sender] # followers[e.recipient][e.sender]
      <4>1. PICK f \in issued :
               /\ f.ts > followers[e.recipient][e.sender].ts
               /\ followers'[e.recipient][e.sender].ts = f.ts
        BY <1>0, <3>1, FollowersForward
      <4> QED BY <4>1
    <3> QED BY <3>1
  <2>3. followers[e.recipient][e.sender].ts \in Nat
    BY <1>0 DEF TypeOK, FollowState
  <2>4. followers'[e.recipient][e.sender].ts \in Nat
    <3>1. TypeOK'
      BY IInvStep DEF IInv
    <3> QED BY <1>0, <3>1 DEF TypeOK, FollowState
  <2> QED BY <1>0, <1>2, <2>1, <2>2, <2>3, <2>4 DEF Applied, FollowApplied
<1>3. CASE e.kind = "read"
  <2> DEFINE p == e.recipient
  <2>1. ASSUME NEW i \in DOMAIN messages'[p],
               messages'[p][i].id = e.replyTo, messages'[p][i].subject = e.subject,
               ~messages'[p][i].gone
        PROVE  messages'[p][i].read
    <3>1. CASE i \in DOMAIN messages[p]
      <4>1. Keeps(messages[p][i], messages'[p][i])
        BY <1>0, <3>1, HistoryGrows
      <4> QED BY <1>3, <2>1, <3>1, <4>1 DEF Keeps, Applied, ReadApplied
    <3>2. CASE i \notin DOMAIN messages[p]
      <4>1. Stored(p, messages'[p][i])
        BY <1>0, <3>2, HistoryGrows
      <4>2. PICK f \in issued : /\ f.kind = "chat"
                                /\ Id(f) = e.replyTo
                                /\ f.sender = e.recipient
                                /\ f.recipient = e.sender
        BY <1>0, <1>3, ReceiptNames
      <4>3. \A x : OutgoingEntry(x).id = Id(x) /\ IncomingEntry(x).id = Id(x)
        BY DEF OutgoingEntry, IncomingEntry
      <4>4. ASSUME NEW w \in Worker, PutOutgoing(p, w), Id(call[p][w].env) = e.replyTo
            PROVE  FALSE
        <5>1. PICK j \in DOMAIN messages[e.sender] : messages[e.sender][j].id = e.replyTo
          BY <1>3 DEF ReceiptsBacked, Reads
        <5> QED BY <1>0, <4>4, <5>1 DEF PutOutgoing, PutIsNew
      <4>5. ASSUME NEW s \in Stream, ApplyChat(s), stream[s].env.recipient = p,
                   Id(stream[s].env) = e.replyTo
            PROVE  FALSE
        <5>1. stream[s].env \in issued
          BY <1>0, <4>5 DEF ApplyChat, StreamsKnown, Free
        <5>2. stream[s].env = f
          BY <1>0, <4>2, <4>5, <5>1 DEF Unique
        <5> QED BY <4>2, <4>5, <5>2 DEF ChatsApart
      <4> QED BY <2>1, <4>1, <4>3, <4>4, <4>5 DEF Stored
    <3> QED BY <3>1, <3>2
  <2>2. ReadApplied(e)'
    BY <2>1 DEF ReadApplied
  <2> QED BY <1>3, <2>2 DEF Applied
<1>4. e.kind \in Kind
  BY <1>0 DEF TypeOK, Envelope
<1> QED BY <1>1, <1>2, <1>3, <1>4 DEF Kind

(* The write that applies an envelope has the effect that its mark claims.  *)
LEMMA ApplyApplies ==
    ASSUME DirectAssumption, IInv, ChatsApart, EntriesKnown, ReceiptsBacked, Next,
           NEW s \in Stream, ApplyChat(s) \/ ApplyFollower(s) \/ ApplyRead(s),
           NEW e, e = stream[s].env
    PROVE  Applied(e)'
<1>0. /\ TypeOK /\ Unique /\ StreamsKnown
      /\ e \in issued
      /\ e \in Envelope
      /\ e.sender \in Peer /\ e.recipient \in Peer
  <2>1. TypeOK /\ Unique /\ StreamsKnown
    BY DEF IInv
  <2>2. stream[s].server = "apply"
    BY DEF ApplyChat, ApplyFollower, ApplyRead
  <2>3. e \in issued
    BY <2>1, <2>2 DEF StreamsKnown, Free
  <2> QED BY <2>1, <2>3 DEF TypeOK, Envelope
<1>1. CASE ApplyChat(s)
  <2>1. e.kind = "chat" /\ Put(e.recipient, IncomingEntry(e))
    BY <1>1 DEF ApplyChat, IncomingEntry
  <2>2. IncomingEntry(e) \in Entry /\ IncomingEntry(e).id = Id(e)
    BY <1>0 DEF IncomingEntry, Entry, Envelope, Id, MsgId
  <2>3. \E i \in DOMAIN messages'[e.recipient] : messages'[e.recipient][i].id = Id(e)
    BY <1>0, <2>1, <2>2, PutGrows
  <2> QED BY <2>1, <2>3 DEF Applied, ChatApplied, Id
<1>2. CASE ApplyFollower(s)
  <2>1. followers' = [followers EXCEPT ![e.recipient][e.sender] =
                        FollowStateAfter(followers[e.recipient][e.sender], e)]
    BY <1>2 DEF ApplyFollower
  <2>2. followers'[e.recipient][e.sender] =
           FollowStateAfter(followers[e.recipient][e.sender], e)
    BY <1>0, <2>1 DEF TypeOK
  <2>3. followers[e.recipient][e.sender] \in FollowState /\ e.ts \in Nat
    BY <1>0 DEF TypeOK, Envelope
  <2>4. followers'[e.recipient][e.sender].ts >= e.ts
    BY <2>2, <2>3 DEF FollowStateAfter, FollowState
  <2> QED BY <1>2, <2>4 DEF ApplyFollower, Applied, FollowApplied
<1>3. CASE ApplyRead(s)
  <2> DEFINE p == e.recipient
             indices == Covered(p, e.sender, e.subject, e.replyTo)
  <2>1. e.kind = "read" /\ MarkRead(p, indices)
    BY <1>3 DEF ApplyRead
  <2>2. PICK f \in issued : /\ f.kind = "chat"
                            /\ Id(f) = e.replyTo
                            /\ f.sender = p
                            /\ f.recipient = e.sender
    BY <1>0, <2>1, ReceiptNames
  <2>3. f.sender # f.recipient
    BY <2>2 DEF ChatsApart
  <2>4. ASSUME NEW i \in DOMAIN messages'[p],
               messages'[p][i].id = e.replyTo, messages'[p][i].subject = e.subject,
               ~messages'[p][i].gone
        PROVE  messages'[p][i].read
    <3>1. /\ i \in DOMAIN messages[p]
          /\ Keeps(messages[p][i], messages'[p][i])
          /\ ~messages[p][i].gone
          /\ messages[p][i].id = e.replyTo
          /\ messages[p][i].subject = e.subject
      <4>1. p \in Peer /\ TypeOK
        BY <1>0
      <4>2. MarkRead(p, indices)
        BY <2>1
      <4> HIDE DEF p, indices
      <4>3. /\ DOMAIN messages'[p] = DOMAIN messages[p]
            /\ \A j \in DOMAIN messages[p] :
                  /\ Keeps(messages[p][j], messages'[p][j])
                  /\ messages'[p][j].gone = messages[p][j].gone
        BY <4>1, <4>2, MarkGrows
      <4> QED BY <2>4, <4>3 DEF Keeps
    <3>2. From(messages[p][i], f, p)
      BY <1>0, <2>2, <3>1, EntryOf
    <3>3. messages[p][i].outgoing /\ messages[p][i].peer = e.sender
      BY <2>2, <2>3, <3>2 DEF From, Outgoing, Incoming
    <3>4. messages[p][i].id[2] <= e.replyTo[2]
      BY <1>0, <2>2, <3>1 DEF Id, TypeOK, Envelope
    <3>5. i \in indices
      BY <3>1, <3>3, <3>4 DEF Covered, Named, Thread
    <3> HIDE DEF indices
    <3> QED BY <1>0, <2>1, <3>1, <3>5, MarkGrows
  <2>5. ReadApplied(e)'
    BY <2>4 DEF ReadApplied
  <2> QED BY <2>1, <2>5 DEF Applied
<1> QED BY <1>1, <1>2, <1>3

LEMMA MarksStep ==
    ASSUME DirectAssumption, IInv, HistoryInv, Next
    PROVE  MarksApplied'
<1>0. TypeOK /\ CallsKnown /\ OutboxKnown /\ PassKeeps /\ StreamsKnown
  BY DEF IInv
<1> SUFFICES ASSUME NEW s \in Stream, stream'[s].server = "mark"
             PROVE  Applied(stream[s].env)'
  BY DEF MarksApplied
<1>1. stream'[s] # Free
  BY DEF Free
<1>2. /\ stream[s] # Free
      /\ stream'[s].env = stream[s].env
      /\ stream[s].server = "mark" \/ HandlerStep(s)
  BY <1>0, <1>1, StreamCarries
<1>3. PICK e : e = stream[s].env
  OBVIOUS
<1>4. e \in issued /\ stream'[s].env = e
  BY <1>0, <1>2, <1>3 DEF StreamsKnown
<1>5. Applied(e)'
  <2>1. CASE stream[s].server = "mark"
    BY <1>3, <1>4, <2>1, AppliedKept DEF HistoryInv, MarksApplied
  <2>2. CASE stream[s].server # "mark" /\ HandlerStep(s)
    <3>1. ASSUME NEW to, to # "mark", Reached(s, to)
          PROVE  FALSE
      <4>1. stream[s] \in [server : Working \cup Finished, env : Envelope, waited : BOOLEAN]
        BY <1>0, <1>2 DEF TypeOK, Exchange
      <4> DEFINE x == [stream[s] EXCEPT !.server = to]
      <4>2. x.server = to
        BY <4>1
      <4>3. stream'[s] = Settle(x)
        BY <1>0, <3>1 DEF Reached, TypeOK
      <4> QED BY <1>1, <3>1, <4>2, <4>3 DEF Settle
    <3>2. ApplyChat(s) \/ ApplyFollower(s) \/ ApplyRead(s)
      BY <2>2, <3>1 DEF HandlerStep, CheckSeen, MarkSeen, HandlerFails, FrameLost
    <3> QED BY <1>3, <3>2, ApplyApplies DEF HistoryInv
  <2> QED BY <1>2, <2>1, <2>2
<1> QED BY <1>4, <1>5 DEF Applied, ChatApplied, FollowApplied, ReadApplied, Id

LEMMA SeenAppliedStep ==
    ASSUME DirectAssumption, IInv, HistoryInv, Next
    PROVE  SeenApplied'
<1>0. TypeOK /\ Fresh /\ Unique /\ StreamsKnown
  BY DEF IInv
<1> SUFFICES ASSUME NEW e \in issued', Id(e) \in seen'[e.recipient]
             PROVE  Applied(e)'
  BY DEF SeenApplied, Applied, ChatApplied, FollowApplied, ReadApplied, Id
<1>1. CASE Id(e) \in seen[e.recipient]
  <2>1. e \in Envelope /\ e.recipient \in Peer
    <3>1. TypeOK'
      BY IInvStep DEF IInv
    <3> QED BY <3>1 DEF TypeOK, Envelope
  <2>2. PICK f \in issued : Id(f) = Id(e)
    BY <1>1, <2>1 DEF HistoryInv, SeenKnown
  <2>3. e \in issued
    BY <1>0, <2>2, IssuedNew
  <2>4. Applied(e)
    BY <1>1, <2>3 DEF HistoryInv, SeenApplied, Applied, ChatApplied, FollowApplied, ReadApplied
  <2> QED BY <2>3, <2>4, AppliedKept DEF HistoryInv
<1>2. CASE Id(e) \notin seen[e.recipient]
  <2>1. PICK s \in Stream : MarkSeen(s)
    BY <1>2, <1>0, SeenEffect
  <2>2. /\ stream[s].env \in issued
        /\ Applied(stream[s].env)
    BY <1>0, <2>1 DEF MarkSeen, StreamsKnown, Free, HistoryInv, MarksApplied
  <2>3. Id(e) = Id(stream[s].env)
    BY <1>0, <1>2, <2>1 DEF MarkSeen, TypeOK
  <2>4. e = stream[s].env
    BY <1>0, <2>2, <2>3, IssuedNew DEF Unique
  <2> QED BY <2>2, <2>4, AppliedKept DEF HistoryInv
<1> QED BY <1>1, <1>2

-----------------------------------------------------------------------------
(* Histories without repetition, and read marks with a reader.              *)

LEMMA NoDuplicateStep ==
    ASSUME TypeOK, NoDuplicateMessage, Next
    PROVE  NoDuplicateMessage'
<1> SUFFICES ASSUME NEW p \in Peer,
                    NEW i \in DOMAIN messages'[p], NEW j \in DOMAIN messages'[p],
                    messages'[p][i].id = messages'[p][j].id,
                    ~messages'[p][i].gone, ~messages'[p][j].gone
             PROVE  i = j
  BY DEF NoDuplicateMessage
<1>1. ASSUME NEW k \in DOMAIN messages[p], ~messages'[p][k].gone
      PROVE  ~messages[p][k].gone /\ messages'[p][k].id = messages[p][k].id
  BY <1>1, HistoryGrows DEF Keeps
<1>2. CASE i \in DOMAIN messages[p] /\ j \in DOMAIN messages[p]
  BY <1>1, <1>2 DEF NoDuplicateMessage
<1>3. CASE i \in DOMAIN messages[p] /\ j \notin DOMAIN messages[p]
  BY <1>1, <1>3, HistoryGrows DEF Listed
<1>4. CASE i \notin DOMAIN messages[p] /\ j \in DOMAIN messages[p]
  BY <1>1, <1>4, HistoryGrows DEF Listed
<1>5. CASE i \notin DOMAIN messages[p] /\ j \notin DOMAIN messages[p]
  BY <1>5, HistoryGrows
<1> QED BY <1>2, <1>3, <1>4, <1>5

LEMMA ReadBackedStep ==
    ASSUME DirectAssumption, TypeOK, StreamsKnown, ReceiptsBacked, ReadIsBacked, Next
    PROVE  ReadIsBacked'
<1> DEFINE Backed(p, m) == \E j \in DOMAIN messages[m.peer] :
                              LET r == messages[m.peer][j] IN
                              /\ r.peer = p
                              /\ ~r.outgoing
                              /\ r.subject = m.subject
                              /\ r.id[2] >= m.id[2]
                              /\ r.read
           BackedNext(p, m) == \E j \in DOMAIN messages'[m.peer] :
                              LET r == messages'[m.peer][j] IN
                              /\ r.peer = p
                              /\ ~r.outgoing
                              /\ r.subject = m.subject
                              /\ r.id[2] >= m.id[2]
                              /\ r.read
<1> SUFFICES ASSUME NEW p \in Peer, NEW i \in DOMAIN messages'[p],
                    messages'[p][i].outgoing, messages'[p][i].read
             PROVE  BackedNext(p, messages'[p][i])
  BY DEF ReadIsBacked
<1>1. ASSUME NEW m, m.peer \in Peer, Backed(p, m)
      PROVE  BackedNext(p, m)
  <2>1. PICK j \in DOMAIN messages[m.peer] :
           /\ messages[m.peer][j].peer = p
           /\ ~messages[m.peer][j].outgoing
           /\ messages[m.peer][j].subject = m.subject
           /\ messages[m.peer][j].id[2] >= m.id[2]
           /\ messages[m.peer][j].read
    BY <1>1
  <2>2. /\ j \in DOMAIN messages'[m.peer]
        /\ Keeps(messages[m.peer][j], messages'[m.peer][j])
    BY <1>1, HistoryGrows
  <2> QED BY <2>1, <2>2 DEF Keeps
<1>2. CASE i \notin DOMAIN messages[p]
  <2>1. Stored(p, messages'[p][i])
    BY <1>2, HistoryGrows
  <2>2. \A e : ~OutgoingEntry(e).read /\ ~IncomingEntry(e).read
    BY DEF OutgoingEntry, IncomingEntry
  <2> QED BY <2>1, <2>2 DEF Stored
<1>3. CASE i \in DOMAIN messages[p]
  <2> DEFINE m == messages[p][i]
             n == messages'[p][i]
  <2>1. Keeps(m, n) /\ (m.read \/ Marked(p, i)) /\ m.peer \in Peer
    BY <1>3, HistoryGrows, EntryType
  <2>2. Backed(p, m)
    <3>1. CASE m.read
      BY <1>3, <2>1, <3>1 DEF Keeps, ReadIsBacked
    <3>2. ASSUME NEW w \in Worker, NEW q \in Peer, NEW subject \in Subject,
                 i \in Thread(p, q, subject, FALSE)
          PROVE  FALSE
      BY <2>1, <3>2 DEF Thread, Keeps
    <3>3. ASSUME NEW s \in Stream, ApplyRead(s), stream[s].env.recipient = p,
                 i \in Covered(p, stream[s].env.sender, stream[s].env.subject,
                               stream[s].env.replyTo)
          PROVE  Backed(p, m)
      <4> DEFINE e == stream[s].env
      <4>1. e \in issued /\ e.kind = "read"
        BY <3>3 DEF ApplyRead, StreamsKnown, Free
      <4>2. m.peer = e.sender /\ m.subject = e.subject /\ m.id[2] <= e.replyTo[2]
        BY <3>3 DEF Covered, Thread
      <4>3. Reads(e.sender, e.recipient, e.subject, e.replyTo)
        BY <4>1 DEF ReceiptsBacked
      <4>4. PICK j \in DOMAIN messages[e.sender] :
               /\ messages[e.sender][j].id = e.replyTo
               /\ messages[e.sender][j].peer = e.recipient
               /\ messages[e.sender][j].subject = e.subject
               /\ ~messages[e.sender][j].outgoing
               /\ messages[e.sender][j].read
        BY <4>3 DEF Reads
      <4>5. messages[e.sender][j].id[2] >= m.id[2]
        <5>1. e.replyTo[2] \in Nat /\ m.id[2] \in Nat
          <6>1. e.sender \in Peer
            BY <4>1 DEF TypeOK, Envelope
          <6> QED BY <1>3, <4>4, <6>1, EntryType
        <5> QED BY <4>2, <4>4, <5>1
      <4> QED BY <3>3, <4>2, <4>4, <4>5, ZenonT(60)
    <3> QED BY <2>1, <3>1, <3>2, <3>3 DEF Marked
  <2>3. BackedNext(p, m)
    BY <1>1, <2>1, <2>2
  <2> QED BY <2>1, <2>3 DEF Keeps
<1> QED BY <1>2, <1>3

-----------------------------------------------------------------------------
(* HistoryInv holds at the start and no step breaks it.                     *)
LEMMA HistoryInit ==
    ASSUME DirectAssumption, Init
    PROVE  HistoryInv
<1>1. ChatsApart /\ PutsChat /\ EntriesKnown /\ PutIsNew
  BY DEF Init, ChatsApart, PutsChat, EntriesKnown, PutIsNew, Idle
<1>2. ReceiptsBacked /\ MarksApplied /\ SeenKnown
  BY DEF Init, ReceiptsBacked, MarksApplied, SeenKnown, Idle, Free
<1>3. SeenApplied /\ NoDuplicateMessage /\ FollowerStateSaid /\ ReadIsBacked
  BY DEF Init, SeenApplied, NoDuplicateMessage, FollowerStateSaid, ReadIsBacked
<1> QED BY <1>1, <1>2, <1>3 DEF HistoryInv

LEMMA HistoryStep ==
    ASSUME DirectAssumption, IInv, HistoryInv, [Next]_vars
    PROVE  HistoryInv'
<1>1. CASE UNCHANGED vars
  <2>1. ChatsApart' /\ PutsChat' /\ SeenKnown'
    BY <1>1 DEF vars, durable, history, HistoryInv, ChatsApart, PutsChat, SeenKnown, Id
  <2>2. EntriesKnown' /\ ReceiptsBacked'
    BY <1>1 DEF vars, durable, history, HistoryInv, EntriesKnown, From, Outgoing, Incoming,
       ReceiptsBacked, Reads, Id
  <2>3. PutIsNew'
    BY <1>1 DEF vars, durable, history, HistoryInv, PutIsNew, HasEnvelope, Id
  <2>4. MarksApplied' /\ SeenApplied'
    BY <1>1 DEF vars, durable, history, HistoryInv, MarksApplied, SeenApplied, Applied,
       ChatApplied, FollowApplied, ReadApplied, Id
  <2>5. NoDuplicateMessage' /\ FollowerStateSaid' /\ ReadIsBacked'
    BY <1>1 DEF vars, durable, history, HistoryInv, NoDuplicateMessage, FollowerStateSaid,
       ReadIsBacked
  <2> QED BY <2>1, <2>2, <2>3, <2>4, <2>5 DEF HistoryInv
<1>2. CASE Next
  <2>1. /\ TypeOK /\ Fresh /\ Unique /\ CallsKnown /\ StreamsKnown /\ OutboxKnown
        /\ PassKeeps
    BY DEF IInv
  <2>2. ChatsApart' /\ PutsChat'
    BY <1>2, <2>1, ChatsApartStep, PutsChatStep DEF HistoryInv
  <2>3. EntriesKnown'
    BY <1>2, <2>1, EntriesStep DEF HistoryInv
  <2>4. PutIsNew'
    BY <1>2, <2>1, PutIsNewStep DEF HistoryInv
  <2>5. ReceiptsBacked' /\ SeenKnown'
    BY <1>2, <2>1, ReceiptsStep, SeenKnownStep DEF HistoryInv
  <2>6. MarksApplied' /\ SeenApplied'
    BY <1>2, MarksStep, SeenAppliedStep
  <2>7. NoDuplicateMessage' /\ FollowerStateSaid' /\ ReadIsBacked'
    BY <1>2, <2>1, NoDuplicateStep, FollowerStateStep, ReadBackedStep DEF HistoryInv
  <2> QED BY <2>2, <2>3, <2>4, <2>5, <2>6, <2>7 DEF HistoryInv
<1> QED BY <1>1, <1>2

(* The inductive invariant of the histories.                                *)
THEOREM DirectHistories == Spec => []HistoryInv
<1>1. Init => HistoryInv
  BY HistoryInit, DirectAssumption
<1>2. IInv /\ HistoryInv /\ [Next]_vars => HistoryInv'
  BY HistoryStep, DirectAssumption
<1> QED BY <1>1, <1>2, DirectInvariant, PTL DEF Spec

(* An envelope recorded as seen has had its effect, and no message is       *)
(* stored twice, whatever crashes, is retried or runs at the same time      *)
(* (accept, putMessage).                                                    *)
THEOREM DirectAppliedOnce == Spec => []AppliedOnce
<1>1. HistoryInv => AppliedOnce
  BY DEF HistoryInv, AppliedOnce
<1> QED BY <1>1, DirectHistories, PTL

(* A sender sees its message as read only if its recipient has marked this  *)
(* message or a later one as read, also through crashes, errors and         *)
(* removals (MarkAsRead, markOutgoingRead).                                 *)
THEOREM DirectReadIsBacked == Spec => []ReadIsBacked
<1>1. HistoryInv => ReadIsBacked
  BY DEF HistoryInv
<1> QED BY <1>1, DirectHistories, PTL

-----------------------------------------------------------------------------
(* Without crashes and failed writes, nothing that is owed is dropped.      *)

LEMMA EnvDomain ==
    ASSUME TypeOK, NEW p \in Peer, NEW w \in Worker
    PROVE  "env" \in DOMAIN call[p][w] <=> HasEnvelope(call[p][w])
<1>1. call[p][w] \in Call
  BY DEF TypeOK
<1> QED BY <1>1 DEF Call, Idle, HasEnvelope

LEMMA NoCrash ==
    ASSUME DirectAssumption, Flawless, TypeOK, NEW p \in Peer
    PROVE  /\ ~Crash(p)
           /\ \A w \in Worker : ~CallFails(p, w)
BY DEF Flawless, TypeOK, Crash, CallFails

LEMMA OutboxKept ==
    ASSUME DirectAssumption, IInv, Next, NEW p \in Peer, NEW e, InSeq(e, outbox[p])
    PROVE  InSeq(e, outbox'[p]) \/ Id(e) \in seen'[e.recipient]
<1>0. TypeOK /\ OutboxKnown /\ PassKeeps
  BY DEF IInv
<1>1. PICK i \in DOMAIN outbox[p] : outbox[p][i] = e
  BY DEF InSeq
<1>2. e \in issued /\ e.recipient \in Peer
  BY <1>0, <1>1 DEF OutboxKnown, TypeOK, Envelope
<1>3. CASE outbox'[p] = outbox[p]
  BY <1>1, <1>3 DEF InSeq
<1>4. ASSUME NEW w \in Worker, CallQueued(p, w), outbox'[p] # outbox[p]
      PROVE  InSeq(e, outbox'[p])
  <2>1. outbox'[p] = Append(outbox[p], call[p][w].env) /\ outbox[p] \in Seq(Envelope)
    BY <1>0, <1>4 DEF CallQueued, TypeOK
  <2>2. i \in DOMAIN outbox'[p] /\ outbox'[p][i] = e
    BY <1>1, <2>1
  <2> QED BY <2>2 DEF InSeq
<1>5. CASE RetrySaves(p)
  <2>1. outbox'[p] = pass[p].remaining /\ pass[p].on /\ pass[p].todo = <<>>
    BY <1>0, <1>5 DEF RetrySaves, TypeOK
  <2>2. \/ InSeq(outbox[p][i], pass[p].todo)
        \/ InSeq(outbox[p][i], pass[p].remaining)
        \/ Id(outbox[p][i]) \in seen[outbox[p][i].recipient]
    BY <1>0, <2>1 DEF PassKeeps
  <2>3. ~InSeq(outbox[p][i], pass[p].todo)
    BY <2>1 DEF InSeq
  <2> QED BY <1>0, <1>1, <1>2, <2>1, <2>2, <2>3, SeenGrows
<1>6. ASSUME NEW q \in Peer, q # p, RetrySaves(q) \/ \E w \in Worker : CallQueued(q, w)
      PROVE  outbox'[p] = outbox[p]
  BY <1>0, <1>6 DEF RetrySaves, CallQueued, TypeOK
<1> QED BY <1>0, <1>3, <1>4, <1>5, <1>6, OutboxEffect

LEMMA CallKept ==
    ASSUME DirectAssumption, Flawless, IInv, Next, NEW p \in Peer, NEW w \in Worker,
           HasEnvelope(call[p][w]), NEW e, e = call[p][w].env
    PROVE  \/ HasEnvelope(call'[p][w]) /\ call'[p][w].env = e
           \/ InSeq(e, outbox'[p])
           \/ Id(e) \in seen'[e.recipient]
<1>0. TypeOK /\ Unique /\ CallsKnown /\ StreamsKnown /\ OutboxKnown /\ AnswerBacked
  BY DEF IInv
<1>1. e \in issued /\ e.recipient \in Peer
  BY <1>0 DEF CallsKnown, TypeOK, Envelope
<1>2. CASE call'[p][w] = call[p][w]
  BY <1>2
<1>3. CASE CallStep(p, w)
  <2>1. CASE CallDelivered(p, w)
    <3> DEFINE s == call[p][w].stream
    <3>1. s \in Stream /\ Acknowledged(s, e)
      BY <1>0, <2>1, CallType DEF CallDelivered
    <3>2. /\ stream[s].server = "accepted"
          /\ Id(stream[s].env) = Id(e)
      BY <3>1 DEF Acknowledged
    <3>3. stream[s].env \in issued
      BY <1>0, <3>1, <3>2 DEF StreamsKnown, Free
    <3>4. stream[s].env = e
      BY <1>0, <1>1, <3>2, <3>3 DEF Unique
    <3>5. Id(e) \in seen[e.recipient]
      BY <1>0, <3>1, <3>2, <3>4 DEF AnswerBacked
    <3> QED BY <1>0, <1>1, <3>5, SeenGrows
  <2>2. CASE CallQueued(p, w)
    <3>1. CASE \E i \in DOMAIN outbox[p] : Id(outbox[p][i]) = Id(e)
      <4>1. PICK i \in DOMAIN outbox[p] : Id(outbox[p][i]) = Id(e)
        BY <3>1
      <4>2. outbox[p][i] = e
        BY <1>0, <1>1, <4>1 DEF OutboxKnown, Unique
      <4>3. outbox' = outbox
        BY <2>2, <3>1 DEF CallQueued
      <4> QED BY <4>2, <4>3 DEF InSeq
    <3>2. CASE ~\E i \in DOMAIN outbox[p] : Id(outbox[p][i]) = Id(e)
      <4>1. outbox'[p] = Append(outbox[p], e) /\ outbox[p] \in Seq(Envelope)
        BY <1>0, <2>2, <3>2 DEF CallQueued, TypeOK
      <4>2. Len(outbox[p]) + 1 \in DOMAIN outbox'[p] /\ outbox'[p][Len(outbox[p]) + 1] = e
        BY <4>1
      <4> QED BY <4>2 DEF InSeq
    <3> QED BY <3>1, <3>2
  <2>3. CASE PutOutgoing(p, w)
    <3>1. call'[p][w] = [stage |-> "deliver", env |-> e]
      BY <1>0, <2>3, SetCallEffect DEF PutOutgoing
    <3> QED BY <3>1 DEF HasEnvelope
  <2>4. ASSUME NEW s \in Stream, CallOpens(p, w, s)
        PROVE  HasEnvelope(call'[p][w]) /\ call'[p][w].env = e
    <3>1. call'[p][w] = [stage |-> "wait", env |-> e, stream |-> s]
      BY <1>0, <2>4, SetCallEffect DEF CallOpens
    <3> QED BY <3>1 DEF HasEnvelope
  <2>5. CASE CallUnreachable(p, w) \/ CallGivesUp(p, w)
    <3>1. call'[p][w] = [stage |-> "queue", env |-> e]
      BY <1>0, <2>5, SetCallEffect DEF CallUnreachable, CallGivesUp
    <3> QED BY <3>1 DEF HasEnvelope
  <2>6. ~SendFollow(p, w) /\ ~SendReceipt(p, w)
    BY DEF SendFollow, SendReceipt, HasEnvelope
  <2> QED BY <1>0, <1>3, <2>1, <2>2, <2>3, <2>4, <2>5, <2>6, NoCrash DEF CallStep
<1>4. /\ \A q \in Peer, subject \in Subject : ~SendChat(p, w, q, subject)
      /\ \A q \in Peer, kind \in {"follow", "unfollow"} : ~Follow(p, w, q, kind)
      /\ \A q \in Peer, subject \in Subject : ~MarkAsRead(p, w, q, subject)
  <2>1. call[p][w] # Idle
    BY DEF HasEnvelope, Idle
  <2> QED BY <2>1 DEF SendChat, Follow, MarkAsRead
<1> QED BY <1>0, <1>2, <1>3, <1>4, NoCrash, CallEffect

LEMMA CarriedKept ==
    ASSUME DirectAssumption, Flawless, IInv, Next, NEW p \in Peer, NEW e \in Carried(p)
    PROVE  e \in Carried(p)' \/ Id(e) \in seen'[e.recipient]
<1>0. TypeOK /\ e \in issued' /\ e.sender = p
  BY IssuedGrows DEF IInv, Carried
<1>1. CASE InSeq(e, outbox[p])
  BY <1>0, <1>1, OutboxKept DEF Carried, InSeq
<1>2. CASE \E w \in Worker : "env" \in DOMAIN call[p][w] /\ call[p][w].env = e
  <2>1. PICK w \in Worker : "env" \in DOMAIN call[p][w] /\ call[p][w].env = e
    BY <1>2
  <2>2. \/ HasEnvelope(call'[p][w]) /\ call'[p][w].env = e
        \/ InSeq(e, outbox'[p])
        \/ Id(e) \in seen'[e.recipient]
    BY <1>0, <2>1, EnvDomain, CallKept
  <2>3. TypeOK'
    BY IInvStep DEF IInv
  <2>4. HasEnvelope(call'[p][w]) => "env" \in DOMAIN call'[p][w]
    <3>1. call'[p][w] \in Call
      BY <2>3 DEF TypeOK
    <3> QED BY <3>1 DEF Call, Idle, HasEnvelope
  <2> QED BY <1>0, <2>2, <2>4 DEF Carried, InSeq
<1> QED BY <1>1, <1>2 DEF Carried

(* A call that delivers carries its envelope.                               *)
LEMMA DeliversCarried ==
    ASSUME NEW p \in Peer, NEW w \in Worker, NEW e \in issued', e.sender = p,
           call'[p][w] = [stage |-> "deliver", env |-> e]
    PROVE  e \in Carried(p)'
BY DEF Carried

LEMMA OutgoingAccountedStep ==
    ASSUME DirectAssumption, Flawless, IInv, HistoryInv, OutgoingAccounted, Next
    PROVE  OutgoingAccounted'
<1>0. TypeOK /\ Unique /\ CallsKnown
  BY DEF IInv
<1> SUFFICES ASSUME NEW p \in Peer, NEW i \in DOMAIN messages'[p],
                    messages'[p][i].outgoing, ~messages'[p][i].gone
             PROVE  \/ messages'[p][i].id \in seen'[messages'[p][i].peer]
                    \/ \E e \in Carried(p)' : Id(e) = messages'[p][i].id
  BY DEF OutgoingAccounted, Id
<1>1. CASE i \in DOMAIN messages[p]
  <2> DEFINE m == messages[p][i]
  <2>1. Keeps(m, messages'[p][i]) /\ m.peer \in Peer
    BY <1>0, <1>1, HistoryGrows, EntryType
  <2>2. m.outgoing /\ ~m.gone
    BY <2>1 DEF Keeps
  <2>3. CASE m.id \in seen[m.peer]
    BY <1>0, <2>1, <2>3, SeenGrows DEF Keeps
  <2>4. ASSUME NEW e \in Carried(p), Id(e) = m.id
        PROVE  \/ m.id \in seen'[m.peer]
               \/ \E f \in Carried(p)' : Id(f) = m.id
    <3>1. From(m, e, p)
      BY <1>0, <1>1, <2>4, EntryOf DEF Carried, HistoryInv
    <3>2. e.recipient = m.peer \/ Incoming(m, e, p)
      BY <3>1 DEF From, Outgoing
    <3> QED BY <2>2, <2>4, <3>2, CarriedKept DEF Incoming
  <2> QED BY <1>1, <2>1, <2>2, <2>3, <2>4 DEF OutgoingAccounted, Keeps
<1>2. CASE i \notin DOMAIN messages[p]
  <2>1. Stored(p, messages'[p][i])
    BY <1>0, <1>2, HistoryGrows
  <2>2. \A x : ~IncomingEntry(x).outgoing /\ OutgoingEntry(x).id = Id(x)
    BY DEF IncomingEntry, OutgoingEntry
  <2>3. PICK w \in Worker : PutOutgoing(p, w) /\ messages'[p][i].id = Id(call[p][w].env)
    BY <2>1, <2>2 DEF Stored
  <2>4. call[p][w].env \in issued' /\ call[p][w].env.sender = p
    BY <1>0, <2>3, IssuedGrows DEF PutOutgoing, CallsKnown, HasEnvelope
  <2>5. call'[p][w] = [stage |-> "deliver", env |-> call[p][w].env]
    BY <1>0, <2>3, SetCallEffect DEF PutOutgoing
  <2>6. PICK e \in issued' : e = call[p][w].env
    BY <2>4
  <2>7. e \in Carried(p)'
    BY <2>4, <2>5, <2>6, DeliversCarried
  <2> QED BY <2>3, <2>6, <2>7
<1> QED BY <1>1, <1>2


(* Where the envelopes of a step come from, with the call that sends them.  *)
LEMMA SentCarried ==
    ASSUME DirectAssumption, TypeOK, NEW p \in Peer, NEW w \in Worker,
           SendFollow(p, w) \/ SendReceipt(p, w), NEW e \in issued', e \notin issued
    PROVE  e \in Carried(p)'
<1>1. PICK f : /\ issued' = issued \cup {f}
               /\ f.sender = p
               /\ SetCall(p, w, [stage |-> "deliver", env |-> f])
  BY DEF SendFollow, SendReceipt, Issue, NewEnvelope
<1>2. e = f
  BY <1>1
<1>3. call'[p][w] = [stage |-> "deliver", env |-> e]
  BY <1>1, <1>2, SetCallEffect
<1> QED BY <1>1, <1>2, <1>3, DeliversCarried

(* A call with a receipt to send keeps it or sends it.                      *)
LEMMA ReceiptCallKept ==
    ASSUME DirectAssumption, Flawless, TypeOK, Fresh, Next, NEW p \in Peer, NEW w \in Worker,
           call[p][w].stage = "receipt"
    PROVE  \/ call'[p][w] = call[p][w]
           \/ \E e \in issued' :
                 /\ e.kind = "read"
                 /\ e.sender = p
                 /\ e.recipient = call[p][w].peer
                 /\ e.subject = call[p][w].subject
                 /\ e.replyTo = call[p][w].last
                 /\ e \in Carried(p)'
<1>1. /\ \A q \in Peer, subject \in Subject : ~SendChat(p, w, q, subject)
      /\ \A q \in Peer, kind \in {"follow", "unfollow"} : ~Follow(p, w, q, kind)
      /\ \A q \in Peer, subject \in Subject : ~MarkAsRead(p, w, q, subject)
  <2>1. call[p][w] # Idle
    BY DEF Idle
  <2> QED BY <2>1 DEF SendChat, Follow, MarkAsRead
<1>2. CASE CallStep(p, w)
  <2>1. SendReceipt(p, w)
    BY <1>2, NoCrash DEF CallStep, PutOutgoing, SendFollow, CallOpens, CallDelivered,
       CallUnreachable, CallGivesUp, CallQueued
  <2> DEFINE c == call[p][w]
             f == NewEnvelope(p, "read", c.peer, c.subject, c.last)
  <2>2. issued' = issued \cup {f} /\ SetCall(p, w, [stage |-> "deliver", env |-> f])
    BY <2>1 DEF SendReceipt, Issue
  <2>3. /\ f.kind = "read"
        /\ f.sender = p
        /\ f.recipient = c.peer
        /\ f.subject = c.subject
        /\ f.replyTo = c.last
    BY DEF NewEnvelope
  <2> HIDE DEF f, c
  <2>4. PICK e \in issued' : e = f
    BY <2>2
  <2>5. call'[p][w] = [stage |-> "deliver", env |-> e]
    BY <2>2, <2>4, SetCallEffect
  <2>6. e \in Carried(p)'
    BY <2>3, <2>4, <2>5, DeliversCarried
  <2> QED BY <2>3, <2>4, <2>6 DEF c
<1> QED BY <1>1, <1>2, NoCrash, CallEffect

(* What a reader owes for a message, or what it has done about it.          *)
OwedByCall(p, m) ==
    \E w \in Worker : /\ call[p][w].stage = "receipt"
                      /\ call[p][w].peer = m.peer
                      /\ call[p][w].subject = m.subject
                      /\ call[p][w].last[2] >= m.id[2]

OwedBySent(p, m) ==
    \E e \in issued :
        /\ e.kind = "read"
        /\ e.sender = p
        /\ e.recipient = m.peer
        /\ e.subject = m.subject
        /\ e.replyTo[2] >= m.id[2]
        /\ e \in Carried(p) \/ Id(e) \in seen[m.peer]

LEMMA SentStays ==
    ASSUME DirectAssumption, Flawless, IInv, Next, NEW p \in Peer, NEW m, OwedBySent(p, m)
    PROVE  OwedBySent(p, m)'
<1>0. TypeOK
  BY DEF IInv
<1>1. PICK e \in issued :
         /\ e.kind = "read"
         /\ e.sender = p
         /\ e.recipient = m.peer
         /\ e.subject = m.subject
         /\ e.replyTo[2] >= m.id[2]
         /\ e \in Carried(p) \/ Id(e) \in seen[m.peer]
  BY DEF OwedBySent
<1>2. e \in issued' /\ e.recipient \in Peer
  BY <1>0, IssuedGrows DEF TypeOK, Envelope
<1>3. e \in Carried(p)' \/ Id(e) \in seen'[m.peer]
  BY <1>0, <1>1, <1>2, CarriedKept, SeenGrows
<1> QED BY <1>1, <1>2, <1>3 DEF OwedBySent

LEMMA ReceiptOwedStep ==
    ASSUME DirectAssumption, Flawless, IInv, ReceiptOwed, Next
    PROVE  ReceiptOwed'
<1>0. TypeOK /\ Fresh
  BY DEF IInv
<1> SUFFICES ASSUME NEW p \in Peer, NEW i \in DOMAIN messages'[p],
                    NEW n, n = messages'[p][i], ~n.outgoing, n.read
             PROVE  OwedByCall(p, n)' \/ OwedBySent(p, n)'
  BY DEF ReceiptOwed, OwedByCall, OwedBySent
<1>1. ASSUME i \in DOMAIN messages[p], messages[p][i].read
      PROVE  OwedByCall(p, n)' \/ OwedBySent(p, n)'
  <2>1. PICK m : m = messages[p][i]
    OBVIOUS
  <2>2. /\ n.id = m.id /\ n.peer = m.peer /\ n.subject = m.subject
        /\ ~m.outgoing /\ m.read
    BY <1>0, <1>1, <2>1, HistoryGrows DEF Keeps
  <2>3. OwedByCall(p, m) \/ OwedBySent(p, m)
    BY <1>1, <2>1, <2>2 DEF ReceiptOwed, OwedByCall, OwedBySent
  <2>4. CASE OwedBySent(p, m)
    <3>1. OwedBySent(p, m)'
      BY <2>4, SentStays
    <3> QED BY <2>2, <3>1 DEF OwedBySent
  <2>5. CASE OwedByCall(p, m)
    <3>1. PICK w \in Worker : /\ call[p][w].stage = "receipt"
                              /\ call[p][w].peer = m.peer
                              /\ call[p][w].subject = m.subject
                              /\ call[p][w].last[2] >= m.id[2]
      BY <2>5 DEF OwedByCall
    <3>2. CASE call'[p][w] = call[p][w]
      BY <2>2, <3>1, <3>2 DEF OwedByCall
    <3>3. ASSUME NEW e \in issued',
                 /\ e.kind = "read"
                 /\ e.sender = p
                 /\ e.recipient = call[p][w].peer
                 /\ e.subject = call[p][w].subject
                 /\ e.replyTo = call[p][w].last
                 /\ e \in Carried(p)'
          PROVE  OwedBySent(p, n)'
      BY <2>2, <3>1, <3>3 DEF OwedBySent
    <3> QED BY <1>0, <3>1, <3>2, <3>3, ReceiptCallKept
  <2> QED BY <2>3, <2>4, <2>5
<1>2. ASSUME i \in DOMAIN messages[p], ~messages[p][i].read
      PROVE  OwedByCall(p, n)'
  <2>1. Marked(p, i) /\ ~messages[p][i].outgoing /\ Keeps(messages[p][i], n)
    BY <1>0, <1>2, HistoryGrows DEF Keeps
  <2>2. \A s \in Stream : ~(/\ ApplyRead(s)
                            /\ i \in Covered(p, stream[s].env.sender, stream[s].env.subject,
                                             stream[s].env.replyTo))
    BY <2>1 DEF Covered, Thread
  <2>3. PICK w \in Worker, q \in Peer, subject \in Subject :
           MarkAsRead(p, w, q, subject) /\ i \in Thread(p, q, subject, FALSE)
    BY <2>1, <2>2 DEF Marked
  <2>4. PICK last \in Newest(p, Thread(p, q, subject, FALSE)) :
           SetCall(p, w, [stage |-> "receipt", peer |-> q, subject |-> subject,
                          last |-> messages[p][last].id])
    BY <2>3 DEF MarkAsRead
  <2>5. call'[p][w] = [stage |-> "receipt", peer |-> q, subject |-> subject,
                       last |-> messages[p][last].id]
    BY <1>0, <2>4, SetCallEffect
  <2>6. messages[p][last].id[2] >= messages[p][i].id[2]
    <3>1. last \in DOMAIN messages[p]
      BY <2>4 DEF Newest, Thread
    <3>2. messages[p][i].id[2] <= messages[p][last].id[2]
      BY <2>3, <2>4 DEF Newest
    <3> QED BY <1>0, <1>2, <3>1, <3>2, EntryType
  <2>7. messages[p][i].peer = q /\ messages[p][i].subject = subject
    BY <2>3 DEF Thread
  <2> QED BY <2>1, <2>5, <2>6, <2>7 DEF OwedByCall, Keeps
<1>3. i \in DOMAIN messages[p]
  <2> SUFFICES ASSUME i \notin DOMAIN messages[p] PROVE FALSE
    OBVIOUS
  <2>1. Stored(p, n)
    BY <1>0, HistoryGrows
  <2>2. \A x : OutgoingEntry(x).outgoing /\ ~IncomingEntry(x).read
    BY DEF OutgoingEntry, IncomingEntry
  <2> QED BY <2>1, <2>2, Zenon DEF Stored
<1> QED BY <1>1, <1>2, <1>3

LEMMA FollowsCarriedStep ==
    ASSUME DirectAssumption, Flawless, IInv, FollowsCarried, Next
    PROVE  FollowsCarried'
<1>0. TypeOK /\ Fresh
  BY DEF IInv
<1> SUFFICES ASSUME NEW e \in issued', e.kind \in {"follow", "unfollow"}
             PROVE  e \in Carried(e.sender)' \/ Id(e) \in seen'[e.recipient]
  BY DEF FollowsCarried, Carried
<1>1. CASE e \in issued
  <2>1. e.sender \in Peer /\ e.recipient \in Peer
    BY <1>0, <1>1 DEF TypeOK, Envelope
  <2> QED BY <1>0, <1>1, <2>1, CarriedKept, SeenGrows DEF FollowsCarried
<1>2. CASE e \notin issued
  <2>1. \A p, q, subject, id : NewEnvelope(p, "chat", q, subject, id).kind = "chat"
    BY DEF NewEnvelope
  <2>2. \A p, q, subject, id : NewEnvelope(p, "read", q, subject, id).kind = "read"
    BY DEF NewEnvelope
  <2>3. PICK w \in Worker : SendFollow(e.sender, w) /\ e.sender \in Peer
    BY <1>0, <1>2, <2>1, <2>2, IssuedNew DEF Origin
  <2> QED BY <1>0, <1>2, <2>3, SentCarried
<1> QED BY <1>1, <1>2


LEMMA OwedInit ==
    ASSUME Init
    PROVE  OwedInv
<1>1. \A p \in Peer : messages[p] = <<>>
  BY DEF Init
<1>2. issued = {}
  BY DEF Init
<1> QED BY <1>1, <1>2 DEF OwedInv, OwedIsCarried, OutgoingAccounted, ReceiptOwed,
    FollowsCarried

LEMMA OwedStep ==
    ASSUME DirectAssumption, Flawless, IInv, HistoryInv, OwedInv, [Next]_vars
    PROVE  OwedInv'
<1>1. CASE UNCHANGED vars
  BY <1>1 DEF OwedInv, OwedIsCarried, OutgoingAccounted, ReceiptOwed, FollowsCarried,
     Carried, vars, durable, history
<1>2. CASE Next
  BY <1>2, OutgoingAccountedStep, ReceiptOwedStep, FollowsCarriedStep
     DEF OwedInv, OwedIsCarried
<1> QED BY <1>1, <1>2

(* As long as no daemon crashes and no write fails, a message shown as sent *)
(* and a receipt for a message marked as read are on their way or recorded  *)
(* at the other peer (SendChat, MarkAsRead, sendDurable, queue,             *)
(* RetryPending, markSeen).                                                 *)
THEOREM DirectOwedIsCarried == Flawless => (Spec => []OwedIsCarried)
<1> SUFFICES ASSUME Flawless PROVE Spec => []OwedIsCarried
  OBVIOUS
<1>1. Init => OwedInv
  BY OwedInit
<1>2. IInv /\ HistoryInv /\ OwedInv /\ [Next]_vars => OwedInv'
  BY DirectAssumption, OwedStep
<1>3. OwedInv => OwedIsCarried
  BY DEF OwedInv
<1> QED BY <1>1, <1>2, <1>3, DirectInvariant, DirectHistories, PTL DEF Spec


-----------------------------------------------------------------------------
(* Follows, as long as nothing crashes, no write fails and a client makes   *)
(* one call at a time.                                                      *)

LEMMA DatedStep ==
    ASSUME DirectAssumption, TypeOK, Fresh, Dated, Next
    PROVE  Dated'
<1> SUFFICES ASSUME NEW e \in issued', e \notin issued
             PROVE  e.ts > 0
  BY DEF Dated
<1>1. e.sender \in Peer /\ e.ts = clock[e.sender] + 1
  BY IssuedNew
<1>2. clock[e.sender] \in Nat
  BY <1>1 DEF TypeOK
<1> QED BY <1>1, <1>2

LEMMA NoStateStep ==
    ASSUME TypeOK, StreamsKnown, NoStateYet, Next
    PROVE  NoStateYet'
<1> SUFFICES ASSUME NEW p \in Peer, NEW q \in Peer, followers'[p][q].ts = 0
             PROVE  ~followers'[p][q].following
  BY DEF NoStateYet
<1>1. followers[p][q].ts \in Nat
  BY DEF TypeOK, FollowState
<1>2. CASE followers'[p][q] = followers[p][q]
  BY <1>2 DEF NoStateYet
<1>3. ASSUME NEW e \in issued, e.ts > followers[p][q].ts, followers'[p][q].ts = e.ts
      PROVE  FALSE
  <2>1. e.ts = 0
    BY <1>3
  <2> QED BY <1>1, <1>3, <2>1
<1> QED BY <1>2, <1>3, FollowersForward

LEMMA FollowingEffect ==
    ASSUME TypeOK, Next
    PROVE  \/ UNCHANGED following
           \/ \E p \in Peer, w \in Worker, q \in Peer, kind \in {"follow", "unfollow"} :
                 Follow(p, w, q, kind)
<1>1. ASSUME NEW p \in Peer, UserStep(p)
      PROVE  \/ UNCHANGED following
             \/ \E w \in Worker, q \in Peer, kind \in {"follow", "unfollow"} :
                   Follow(p, w, q, kind)
  BY <1>1 DEF UserStep, SendChat, MarkAsRead, DeleteMessage, DeleteConversation
<1>2. ASSUME NEW p \in Peer, NEW w \in Worker, CallStep(p, w)
      PROVE  UNCHANGED following
  BY <1>2 DEF CallStep, PutOutgoing, SendFollow, SendReceipt, CallOpens, CallDelivered,
     CallUnreachable, CallGivesUp, CallQueued, CallFails, durable
<1>3. ASSUME NEW p \in Peer, RetryStep(p) \/ Crash(p)
      PROVE  UNCHANGED following
  BY <1>3 DEF RetryStep, RetryStart, RetryOpens, RetryDelivered, RetryKeeps, RetrySaves,
     RetrySaveFails, Crash, durable
<1>4. ASSUME NEW s \in Stream, HandlerStep(s)
      PROVE  UNCHANGED following
  BY <1>4 DEF HandlerStep, CheckSeen, ApplyChat, ApplyFollower, ApplyRead, MarkSeen,
     HandlerFails, FrameLost, durable
<1> QED BY <1>1, <1>2, <1>3, <1>4 DEF Next

(* A call that announces a change, and none that did not, unless the step   *)
(* begins or sends one.                                                     *)
LEMMA NotifyKept ==
    ASSUME DirectAssumption, Flawless, TypeOK, Next, NEW p \in Peer, NEW w \in Worker,
           \A q \in Peer, kind \in {"follow", "unfollow"} : ~Follow(p, w, q, kind),
           ~SendFollow(p, w),
           call[p][w].stage = "notify" \/ call'[p][w].stage = "notify"
    PROVE  call'[p][w] = call[p][w]
<1>1. ASSUME NEW c, SetCall(p, w, c), c.stage # "notify"
      PROVE  call'[p][w].stage # "notify"
  BY <1>1, SetCallEffect
<1>2. ASSUME NEW q \in Peer, NEW subject \in Subject,
             SendChat(p, w, q, subject) \/ MarkAsRead(p, w, q, subject)
      PROVE  FALSE
  <2>1. call[p][w] = Idle
    BY <1>2 DEF SendChat, MarkAsRead
  <2>2. call[p][w].stage # "notify"
    BY <2>1 DEF Idle
  <2>3. CASE SendChat(p, w, q, subject)
    <3>1. \E e : SetCall(p, w, [stage |-> "put", env |-> e])
      BY <2>3 DEF SendChat
    <3> QED BY <1>1, <2>2, <3>1
  <2>4. CASE MarkAsRead(p, w, q, subject)
    <3>1. \E last : SetCall(p, w, [stage |-> "receipt", peer |-> q, subject |-> subject,
                                   last |-> last])
      BY <2>4 DEF MarkAsRead
    <3> QED BY <1>1, <2>2, <3>1
  <2> QED BY <1>2, <2>3, <2>4
<1>3. ASSUME CallStep(p, w)
      PROVE  FALSE
  <2>1. call[p][w].stage # "notify"
    BY <1>3 DEF CallStep, PutOutgoing, SendReceipt, CallOpens, CallDelivered,
       CallUnreachable, CallGivesUp, CallQueued, CallFails
  <2>2. CASE PutOutgoing(p, w) \/ SendReceipt(p, w)
    <3>1. \E e : SetCall(p, w, [stage |-> "deliver", env |-> e])
      BY <2>2 DEF PutOutgoing, SendReceipt
    <3> QED BY <1>1, <2>1, <3>1
  <2>3. ASSUME NEW s \in Stream, CallOpens(p, w, s)
        PROVE  FALSE
    <3>1. \E e : SetCall(p, w, [stage |-> "wait", env |-> e, stream |-> s])
      BY <2>3 DEF CallOpens
    <3> QED BY <1>1, <2>1, <3>1
  <2>4. CASE CallUnreachable(p, w) \/ CallGivesUp(p, w)
    <3>1. \E e : SetCall(p, w, [stage |-> "queue", env |-> e])
      BY <2>4 DEF CallUnreachable, CallGivesUp
    <3> QED BY <1>1, <2>1, <3>1
  <2>5. CASE CallDelivered(p, w) \/ CallQueued(p, w)
    <3>1. SetCall(p, w, Idle) /\ Idle.stage # "notify"
      BY <2>5 DEF CallDelivered, CallQueued, Idle
    <3> QED BY <1>1, <2>1, <3>1
  <2> QED BY <1>3, <2>2, <2>3, <2>4, <2>5, NoCrash DEF CallStep
<1> QED BY <1>2, <1>3, NoCrash, CallEffect

LEMMA ListFollow ==
    ASSUME DirectAssumption, Flawless, OneAtATime, TypeOK, ListIsNewest,
           NEW p \in Peer, NEW q \in Peer, NEW w \in Worker, NEW r \in Peer,
           NEW kind \in {"follow", "unfollow"}, Follow(p, w, r, kind)
    PROVE  /\ \A v \in Worker : call'[p][v].stage = "notify" /\ call'[p][v].peer = q =>
                 (q \in following'[p]) = (call'[p][v].kind = "follow")
           /\ ~Announcing(p, q)' =>
                 /\ FollowChanges(p, q)' = {} => q \notin following'[p]
                 /\ \A e \in FollowChanges(p, q)' :
                       (\A f \in FollowChanges(p, q)' : f.ts <= e.ts) =>
                           (q \in following'[p]) = (e.kind = "follow")
<1>1. /\ call[p][w] = Idle
      /\ following'[p] = IF kind = "follow" THEN following[p] \cup {r}
                         ELSE following[p] \ {r}
      /\ SetCall(p, w, [stage |-> "notify", kind |-> kind, peer |-> r])
      /\ issued' = issued
  BY FollowCall DEF Follow, TypeOK, history, Flawless
<1>2. /\ call'[p][w].stage = "notify"
      /\ call'[p][w].kind = kind
      /\ call'[p][w].peer = r
  BY <1>1, SetCallEffect
<1>3. \A v \in Worker : v = w
  BY DEF OneAtATime
<1>4. CASE q = r
  <2>1. Announcing(p, q)'
    BY <1>2, <1>4 DEF Announcing
  <2>2. (q \in following'[p]) = (kind = "follow")
    BY <1>1, <1>4
  <2> QED BY <1>2, <1>3, <2>1, <2>2
<1>5. CASE q # r
  <2>1. ~Announcing(p, q)
    BY <1>1, <1>3 DEF Announcing, Idle
  <2>2. (q \in following'[p]) = (q \in following[p])
    BY <1>1, <1>5
  <2>3. FollowChanges(p, q)' = FollowChanges(p, q)
    BY <1>1 DEF FollowChanges
  <2>4. \A v \in Worker : ~(call'[p][v].stage = "notify" /\ call'[p][v].peer = q)
    BY <1>2, <1>3, <1>5
  <2> QED BY <2>1, <2>2, <2>3, <2>4 DEF ListIsNewest
<1> QED BY <1>4, <1>5

LEMMA ListSend ==
    ASSUME DirectAssumption, Flawless, OneAtATime, TypeOK, Fresh, ListIsNewest,
           NEW p \in Peer, NEW q \in Peer, NEW w \in Worker, SendFollow(p, w)
    PROVE  /\ \A v \in Worker : call'[p][v].stage # "notify"
           /\ FollowChanges(p, q)' = {} => q \notin following'[p]
           /\ \A e \in FollowChanges(p, q)' :
                 (\A f \in FollowChanges(p, q)' : f.ts <= e.ts) =>
                     (q \in following'[p]) = (e.kind = "follow")
<1> DEFINE c == call[p][w]
           n == NewEnvelope(p, c.kind, c.peer, NoSubject, NoId)
<1>1. /\ c.stage = "notify"
      /\ issued' = issued \cup {n}
      /\ SetCall(p, w, [stage |-> "deliver", env |-> n])
      /\ following' = following
  BY DEF SendFollow, Issue
<1>2. /\ n.kind = c.kind
      /\ n.sender = p
      /\ n.recipient = c.peer
      /\ n.ts = clock[p] + 1
  BY DEF NewEnvelope
<1>3. c.kind \in {"follow", "unfollow"} /\ c.peer \in Peer
  BY <1>1, CallType
<1> HIDE DEF n
<1>4. \A v \in Worker : v = w
  BY DEF OneAtATime
<1>5. \A v \in Worker : call'[p][v].stage # "notify"
  <2>1. call'[p][w] = [stage |-> "deliver", env |-> n]
    BY <1>1, SetCallEffect
  <2> QED BY <1>4, <2>1
<1>6. CASE q = c.peer
  <2>1. n \in FollowChanges(p, q)'
    BY <1>1, <1>2, <1>3, <1>6 DEF FollowChanges
  <2>2. (q \in following[p]) = (c.kind = "follow")
    BY <1>1, <1>6 DEF ListIsNewest
  <2>3. ASSUME NEW e \in FollowChanges(p, q)', \A f \in FollowChanges(p, q)' : f.ts <= e.ts
        PROVE  e = n
    <3>1. n.ts <= e.ts
      BY <2>1, <2>3
    <3>2. SUFFICES ASSUME e \in issued, e.sender = p PROVE FALSE
      BY <1>1 DEF FollowChanges
    <3>3. e.ts <= clock[p] /\ e.ts \in Nat /\ clock[p] \in Nat
      BY <3>2 DEF Fresh, TypeOK, Envelope
    <3> QED BY <1>2, <3>1, <3>3
  <2> QED BY <1>1, <1>2, <1>5, <2>1, <2>2, <2>3
<1>7. CASE q # c.peer
  <2>1. FollowChanges(p, q)' = FollowChanges(p, q)
    BY <1>1, <1>2, <1>7 DEF FollowChanges
  <2>2. ~Announcing(p, q)
    BY <1>4, <1>7 DEF Announcing
  <2> QED BY <1>1, <1>5, <2>1, <2>2 DEF ListIsNewest
<1> QED BY <1>6, <1>7

LEMMA ListStep ==
    ASSUME DirectAssumption, Flawless, OneAtATime, TypeOK, Fresh, ListIsNewest, Next
    PROVE  ListIsNewest'
<1> SUFFICES ASSUME NEW p \in Peer, NEW q \in Peer
             PROVE  /\ \A w \in Worker : call'[p][w].stage = "notify" /\ call'[p][w].peer = q =>
                          (q \in following'[p]) = (call'[p][w].kind = "follow")
                    /\ ~Announcing(p, q)' =>
                          /\ FollowChanges(p, q)' = {} => q \notin following'[p]
                          /\ \A e \in FollowChanges(p, q)' :
                                (\A f \in FollowChanges(p, q)' : f.ts <= e.ts) =>
                                    (q \in following'[p]) = (e.kind = "follow")
  BY DEF ListIsNewest
<1>2. CASE \E w \in Worker, r \in Peer, kind \in {"follow", "unfollow"} :
              Follow(p, w, r, kind)
  BY <1>2, ListFollow
<1>3. CASE \E w \in Worker : SendFollow(p, w)
  BY <1>3, ListSend
<1>4. CASE /\ ~\E w \in Worker, r \in Peer, kind \in {"follow", "unfollow"} :
                  Follow(p, w, r, kind)
           /\ ~\E w \in Worker : SendFollow(p, w)
  <2>1. \A w \in Worker :
           call[p][w].stage = "notify" \/ call'[p][w].stage = "notify" =>
               call'[p][w] = call[p][w]
    BY <1>4, NotifyKept
  <2>2. following'[p] = following[p]
    <3>1. ASSUME NEW r \in Peer, NEW v \in Worker, NEW s \in Peer,
                 NEW kind \in {"follow", "unfollow"}, Follow(r, v, s, kind)
          PROVE  following'[p] = following[p]
      <4>1. r # p
        BY <1>4, <3>1
      <4>2. \E x : following' = [following EXCEPT ![r] = x]
        BY <3>1 DEF Follow
      <4> QED BY <4>1, <4>2 DEF TypeOK
    <3> QED BY <3>1, FollowingEffect
  <2>3. FollowChanges(p, q)' = FollowChanges(p, q)
    <3>1. ASSUME NEW e \in issued', e \notin issued, e.sender = p,
                 e.kind \in {"follow", "unfollow"}
          PROVE  FALSE
      <4>1. \A a, b, x, id : NewEnvelope(a, "chat", b, x, id).kind = "chat"
        BY DEF NewEnvelope
      <4>2. \A a, b, x, id : NewEnvelope(a, "read", b, x, id).kind = "read"
        BY DEF NewEnvelope
      <4> QED BY <1>4, <3>1, <4>1, <4>2, IssuedNew DEF Origin
    <3>2. issued \subseteq issued'
      BY IssuedGrows
    <3> QED BY <3>1, <3>2 DEF FollowChanges
  <2>4. Announcing(p, q)' <=> Announcing(p, q)
    BY <2>1 DEF Announcing
  <2> QED BY <2>1, <2>2, <2>3, <2>4 DEF ListIsNewest
<1> QED BY <1>2, <1>3, <1>4


LEMMA FollowsInit ==
    ASSUME Init
    PROVE  FollowsInv
<1>1. \A p, q \in Peer : /\ following[p] = {}
                         /\ followers[p][q] = [following |-> FALSE, ts |-> 0]
  BY DEF Init
<1>2. issued = {}
  BY DEF Init
<1>3. \A p \in Peer, w \in Worker : call[p][w] = Idle
  BY DEF Init
<1>4. \A p \in Peer, w \in Worker : call[p][w].stage # "notify"
  BY <1>3 DEF Idle
<1>5. ListIsNewest
  BY <1>1, <1>2, <1>4 DEF ListIsNewest, FollowChanges
<1>6. NoStateYet
  BY <1>1 DEF NoStateYet
<1> QED BY <1>2, <1>5, <1>6 DEF FollowsInv, Dated

LEMMA FollowsStep ==
    ASSUME DirectAssumption, Flawless, OneAtATime, IInv, FollowsInv, [Next]_vars
    PROVE  FollowsInv'
<1>1. CASE UNCHANGED vars
  BY <1>1 DEF FollowsInv, ListIsNewest, NoStateYet, Dated, FollowChanges, Announcing,
     vars, durable, history
<1>2. CASE Next
  BY <1>2, ListStep, NoStateStep, DatedStep DEF FollowsInv, IInv
<1> QED BY <1>1, <1>2

(* Once no change from p to q is under way, q has the newest of them, and   *)
(* that is what p's own list shows.                                         *)
LEMMA FollowsMeet ==
    ASSUME DirectAssumption, IInv, HistoryInv, OwedInv, FollowsInv
    PROVE  FollowAgreement
<1>0. TypeOK
  BY DEF IInv
<1> SUFFICES ASSUME NEW p \in Peer, NEW q \in Peer, p # q, ~Announcing(p, q),
                    \A e \in Carried(p) :
                        ~(e.recipient = q /\ e.kind \in {"follow", "unfollow"})
             PROVE  (q \in following[p]) = followers[q][p].following
  BY DEF FollowAgreement, Announcing
<1> DEFINE state == followers[q][p]
<1>1. state.following \in BOOLEAN /\ state.ts \in Nat
  BY <1>0 DEF TypeOK, FollowState
<1>2. ASSUME NEW e \in FollowChanges(p, q)
      PROVE  e.ts <= state.ts /\ e.ts > 0
  <2>1. /\ e \in issued
        /\ e.sender = p
        /\ e.recipient = q
        /\ e.kind \in {"follow", "unfollow"}
    BY DEF FollowChanges
  <2>2. Id(e) \in seen[q]
    BY <2>1 DEF OwedInv, FollowsCarried
  <2>3. state.ts >= e.ts
    BY <2>1, <2>2 DEF HistoryInv, SeenApplied
  <2>4. e.ts \in Nat
    BY <1>0, <2>1 DEF TypeOK, Envelope
  <2> QED BY <1>1, <2>1, <2>3, <2>4 DEF FollowsInv, Dated
<1>3. CASE state.ts = 0
  <2>1. ~state.following
    BY <1>3 DEF FollowsInv, NoStateYet
  <2>2. FollowChanges(p, q) = {}
    <3>1. ASSUME NEW e \in FollowChanges(p, q)
          PROVE  FALSE
      <4>1. e.ts \in Nat
        BY <1>0 DEF FollowChanges, TypeOK, Envelope
      <4> QED BY <1>2, <1>3, <4>1
    <3> QED BY <3>1
  <2>3. q \notin following[p]
    BY <2>2 DEF FollowsInv, ListIsNewest
  <2> QED BY <1>1, <2>1, <2>3
<1>4. CASE state.ts > 0
  <2>1. PICK e \in issued :
           /\ e.sender = p
           /\ e.recipient = q
           /\ e.ts = state.ts
           /\ e.kind = IF state.following THEN "follow" ELSE "unfollow"
    BY <1>4 DEF HistoryInv, FollowerStateSaid
  <2>2. e \in FollowChanges(p, q)
    BY <2>1 DEF FollowChanges
  <2>3. \A f \in FollowChanges(p, q) : f.ts <= e.ts
    BY <1>2, <2>1
  <2>4. (q \in following[p]) = (e.kind = "follow")
    BY <2>2, <2>3 DEF FollowsInv, ListIsNewest
  <2>5. (e.kind = "follow") = state.following
    BY <1>1, <2>1
  <2> QED BY <2>4, <2>5
<1> QED BY <1>1, <1>3, <1>4

(* Peers hold of each other's follows what was said, and as long as nothing *)
(* crashes, no write fails and a client makes one call at a time they agree *)
(* once no change is under way (follow handler, SendFollow, ApplyFollower). *)
THEOREM DirectFollowsAgree == Flawless /\ OneAtATime => (Spec => []FollowsAgree)
<1> SUFFICES ASSUME Flawless, OneAtATime PROVE Spec => []FollowsAgree
  OBVIOUS
<1>1. Init => OwedInv /\ FollowsInv
  BY OwedInit, FollowsInit
<1>2. /\ IInv /\ HistoryInv
      /\ OwedInv /\ FollowsInv
      /\ [Next]_vars
      => (OwedInv /\ FollowsInv)'
  BY DirectAssumption, OwedStep, FollowsStep
<1>3. IInv /\ HistoryInv /\ OwedInv /\ FollowsInv => FollowsAgree
  BY DirectAssumption, FollowsMeet DEF FollowsAgree, HistoryInv
<1> QED BY <1>1, <1>2, <1>3, DirectInvariant, DirectHistories, PTL DEF Spec
=============================================================================
