--------------------------- MODULE DiscoveryProofs ---------------------------
(***************************************************************************)
(* Proofs about Discovery for any peers, connections, workers and limits:  *)
(* types, the capacity of the table, and that nobody is reported who has   *)
(* not said hello on connections without a break.                          *)
(***************************************************************************)
EXTENDS Discovery, FiniteSetTheorems, TLAPS

-----------------------------------------------------------------------------
(* Numbers in order.                                                        *)

Rank(S, x) == Cardinality({y \in S : y < x})

LEMMA RankGrows ==
    ASSUME NEW S \in SUBSET Int, IsFiniteSet(S), NEW x \in S, NEW y \in S
    PROVE  /\ Rank(S, x) \in 0 .. Cardinality(S) - 1
           /\ x < y => Rank(S, x) < Rank(S, y)
<1>1. \A T \in SUBSET S : IsFiniteSet(T) /\ Cardinality(T) \in Nat
  BY FS_Subset, FS_CardinalityType
<1> DEFINE Below(z) == {u \in S : u < z}
<1>2. Below(x) \in SUBSET S /\ Below(y) \in SUBSET S
  OBVIOUS
<1>3. Cardinality(Below(x)) < Cardinality(S)
  <2>1. Below(x) # S
    OBVIOUS
  <2>2. Cardinality(Below(x)) <= Cardinality(S) /\ Cardinality(Below(x)) # Cardinality(S)
    BY <1>2, <2>1, FS_Subset
  <2> QED BY <1>1, <1>2, <2>2
<1>4. ASSUME x < y
      PROVE  Cardinality(Below(x)) < Cardinality(Below(y))
  <2>0. x \in Int /\ y \in Int /\ \A u \in S : u \in Int
    OBVIOUS
  <2>1. Below(x) \in SUBSET Below(y) /\ x \in Below(y) /\ x \notin Below(x)
    <3>1. \A u \in S : u < x => u < y
      BY <1>4, <2>0
    <3>2. ~(x < x)
      BY <2>0
    <3> QED BY <1>4, <3>1, <3>2
  <2>2. Cardinality(Below(x)) <= Cardinality(Below(y))
        /\ Cardinality(Below(x)) # Cardinality(Below(y))
    BY <1>1, <1>2, <2>1, FS_Subset
  <2> QED BY <1>1, <1>2, <2>2
<1>5. Cardinality(Below(x)) \in Nat /\ Cardinality(S) \in Nat
  BY <1>1, <1>2
<1> QED BY <1>3, <1>4, <1>5 DEF Rank

Increasing(f) == \A i, j \in DOMAIN f : i < j => f[i] < f[j]

LEMMA OrderedExists ==
    ASSUME NEW S \in SUBSET Int, IsFiniteSet(S)
    PROVE  \E f \in [1 .. Cardinality(S) -> S] : Increasing(f)
<1> DEFINE n == Cardinality(S)
           r == [x \in S |-> Rank(S, x) + 1]
<1>1. n \in Nat
  BY FS_CardinalityType
<1>2. \A x \in S : r[x] \in 1 .. n
  BY <1>1, RankGrows
<1>3. \A x, y \in S : x < y => r[x] < r[y]
  BY <1>1, RankGrows
<1>4. r \in Injection(S, 1 .. n)
  <2>1. \A x, y \in S : r[x] = r[y] => x = y
    BY <1>2, <1>3
  <2> QED BY <1>2, <2>1 DEF Injection, IsInjective
<1>5. r \in Surjection(S, 1 .. n)
  <2>1. IsFiniteSet(1 .. n) /\ Cardinality(1 .. n) = n
    BY <1>1, FS_Interval
  <2> HIDE DEF r
  <2> QED BY <1>4, <2>1, FS_Injection
<1>6. \A i \in 1 .. n : \E x \in S : r[x] = i
  BY <1>5 DEF Surjection
<1> HIDE DEF r
<1> DEFINE f == [i \in 1 .. n |-> CHOOSE x \in S : r[x] = i]
<1>7. \A i \in 1 .. n : f[i] \in S /\ r[f[i]] = i
  BY <1>6
<1>8. f \in [1 .. n -> S]
  BY <1>7
<1> HIDE DEF f
<1>9. \A i, j \in 1 .. n : i < j => f[i] < f[j]
  <2> SUFFICES ASSUME NEW i \in 1 .. n, NEW j \in 1 .. n, i < j, ~(f[i] < f[j])
               PROVE  FALSE
    OBVIOUS
  <2>1. f[i] \in Int /\ f[j] \in Int
    BY <1>7
  <2>2. f[j] < f[i] \/ f[j] = f[i]
    BY <2>1
  <2>3. j < i \/ j = i
    BY <1>3, <1>7, <2>2
  <2> QED BY <2>3
<1> QED BY <1>8, <1>9 DEF Increasing

LEMMA OrderedFacts ==
    ASSUME NEW S \in SUBSET Int, IsFiniteSet(S)
    PROVE  /\ Cardinality(S) \in Nat
           /\ Ordered(S) \in [1 .. Cardinality(S) -> S]
           /\ \A i, j \in 1 .. Cardinality(S) : i < j => Ordered(S)[i] < Ordered(S)[j]
           /\ \A i, j \in 1 .. Cardinality(S) : Ordered(S)[i] = Ordered(S)[j] => i = j
           /\ \A x \in S : \E i \in 1 .. Cardinality(S) : Ordered(S)[i] = x
<1> DEFINE n == Cardinality(S)
           f == Ordered(S)
<1>1. n \in Nat
  BY FS_CardinalityType
<1>2. f \in [1 .. n -> S] /\ Increasing(f)
  BY OrderedExists DEF Ordered, Increasing
<1> HIDE DEF f
<1>3. \A i, j \in 1 .. n : i < j => f[i] < f[j]
  BY <1>2 DEF Increasing
<1>4. \A i, j \in 1 .. n : f[i] = f[j] => i = j
  <2>1. \A i \in 1 .. n : f[i] \in Int
    BY <1>2
  <2> QED BY <1>3, <2>1
<1>5. f \in Surjection(1 .. n, S)
  <2>1. f \in Injection(1 .. n, S)
    BY <1>2, <1>4 DEF Injection, IsInjective
  <2>2. Cardinality(1 .. n) = n
    BY <1>1, FS_Interval
  <2> QED BY <2>1, <2>2, FS_Injection
<1>6. \A x \in S : \E i \in 1 .. n : f[i] = x
  BY <1>5 DEF Surjection
<1> QED BY <1>1, <1>2, <1>3, <1>4, <1>6 DEF f


-----------------------------------------------------------------------------
(* Sequences.                                                               *)

LEMMA DroppingFacts ==
    ASSUME NEW T, NEW s \in Seq(T), NEW S
    PROVE  /\ Dropping(s, S) \in Seq(T)
           /\ Len(Dropping(s, S)) <= Len(s)
           /\ ToSet(s) \cap S # {} => Len(Dropping(s, S)) < Len(s)
           /\ ToSet(Dropping(s, S)) = ToSet(s) \ S
           /\ IsInjective(s) => IsInjective(Dropping(s, S))
<1> DEFINE kept == {i \in DOMAIN s : s[i] \notin S}
           n == Cardinality(kept)
           f == Ordered(kept)
           d == Dropping(s, S)
<1>1. Len(s) \in Nat /\ DOMAIN s = 1 .. Len(s) /\ \A i \in DOMAIN s : s[i] \in T
  OBVIOUS
<1>2. IsFiniteSet(DOMAIN s) /\ Cardinality(DOMAIN s) = Len(s)
  BY <1>1, FS_Interval
<1>3. kept \in SUBSET Int
  BY <1>1
<1>4. IsFiniteSet(kept) /\ n \in Nat /\ n <= Len(s) /\ (n = Len(s) => kept = DOMAIN s)
  BY <1>1, <1>2, FS_Subset, FS_CardinalityType
<1>5. /\ f \in [1 .. n -> kept]
      /\ \A i, j \in 1 .. n : f[i] = f[j] => i = j
      /\ \A x \in kept : \E i \in 1 .. n : f[i] = x
  BY <1>3, <1>4, OrderedFacts
<1>6. d = [i \in 1 .. n |-> s[f[i]]]
  BY <1>5 DEF Dropping
<1> HIDE DEF f, d
<1>7. \A i \in 1 .. n : f[i] \in DOMAIN s /\ s[f[i]] \in T /\ s[f[i]] \notin S
  BY <1>1, <1>5
<1>8. d \in Seq(T) /\ Len(d) = n
  BY <1>4, <1>6, <1>7
<1>9. ToSet(s) \cap S # {} => n < Len(s)
  <2> SUFFICES ASSUME ToSet(s) \cap S # {} PROVE n < Len(s)
    OBVIOUS
  <2>1. PICK i \in DOMAIN s : s[i] \in S
    BY DEF ToSet
  <2>2. kept # DOMAIN s
    BY <2>1
  <2> QED BY <1>1, <1>4, <2>2
<1>10. ToSet(d) = ToSet(s) \ S
  <2>1. ASSUME NEW x \in ToSet(d)
        PROVE  x \in ToSet(s) \ S
    <3>1. PICK i \in 1 .. n : x = s[f[i]]
      BY <1>6 DEF ToSet
    <3> QED BY <1>7, <3>1 DEF ToSet
  <2>2. ASSUME NEW x \in ToSet(s) \ S
        PROVE  x \in ToSet(d)
    <3>1. PICK j \in DOMAIN s : x = s[j]
      BY DEF ToSet
    <3>2. j \in kept
      BY <3>1
    <3>3. PICK i \in 1 .. n : f[i] = j
      BY <1>5, <3>2
    <3>4. i \in DOMAIN d /\ d[i] = x
      BY <1>6, <3>1, <3>3
    <3> QED BY <3>4 DEF ToSet
  <2> QED BY <2>1, <2>2
<1>11. IsInjective(s) => IsInjective(d)
  BY <1>5, <1>6, <1>7 DEF IsInjective
<1> QED BY <1>4, <1>8, <1>9, <1>10, <1>11 DEF d

LEMMA AppendFacts ==
    ASSUME NEW T, NEW s \in Seq(T), NEW x \in T
    PROVE  /\ Append(s, x) \in Seq(T)
           /\ Len(Append(s, x)) = Len(s) + 1
           /\ ToSet(Append(s, x)) = ToSet(s) \cup {x}
           /\ IsInjective(s) /\ x \notin ToSet(s) => IsInjective(Append(s, x))
<1>1. /\ Append(s, x) \in Seq(T)
      /\ Len(s) \in Nat
      /\ DOMAIN s = 1 .. Len(s)
      /\ DOMAIN Append(s, x) = 1 .. Len(s) + 1
      /\ \A i \in 1 .. Len(s) : Append(s, x)[i] = s[i]
      /\ Append(s, x)[Len(s) + 1] = x
  OBVIOUS
<1> DEFINE a == Append(s, x)
<1>2. \A i \in DOMAIN a : (i \in DOMAIN s /\ a[i] = s[i]) \/ (i = Len(s) + 1 /\ a[i] = x)
  BY <1>1
<1>3. \A i \in DOMAIN s : i \in DOMAIN a /\ a[i] = s[i]
  BY <1>1
<1>4. Len(s) + 1 \in DOMAIN a
  BY <1>1
<1> HIDE DEF a
<1>5. ToSet(a) = ToSet(s) \cup {x}
  BY <1>1, <1>2, <1>3, <1>4 DEF ToSet, a
<1>6. IsInjective(s) /\ x \notin ToSet(s) => IsInjective(a)
  BY <1>2 DEF IsInjective, ToSet
<1> QED BY <1>1, <1>5, <1>6 DEF a

LEMMA TailFacts ==
    ASSUME NEW T, NEW s \in Seq(T), s # <<>>
    PROVE  /\ Tail(s) \in Seq(T)
           /\ Head(s) \in ToSet(s)
           /\ Len(Tail(s)) = Len(s) - 1
           /\ ToSet(Tail(s)) \subseteq ToSet(s)
           /\ IsInjective(s) => IsInjective(Tail(s)) /\ Head(s) \notin ToSet(Tail(s))
<1>1. /\ Tail(s) \in Seq(T)
      /\ Len(s) \in Nat \ {0}
      /\ DOMAIN s = 1 .. Len(s)
      /\ DOMAIN Tail(s) = 1 .. Len(s) - 1
      /\ Len(Tail(s)) = Len(s) - 1
      /\ \A i \in DOMAIN Tail(s) : Tail(s)[i] = s[i + 1]
      /\ Head(s) = s[1]
  OBVIOUS
<1>2. \A i \in DOMAIN Tail(s) : i \in Int /\ i + 1 \in DOMAIN s /\ i + 1 # 1
  BY <1>1
<1>3. 1 \in DOMAIN s
  BY <1>1
<1>4. ToSet(Tail(s)) \subseteq ToSet(s) /\ Head(s) \in ToSet(s)
  BY <1>1, <1>2, <1>3 DEF ToSet
<1>5. ASSUME IsInjective(s)
      PROVE  IsInjective(Tail(s)) /\ Head(s) \notin ToSet(Tail(s))
  <2>1. \A i, j \in DOMAIN Tail(s) : Tail(s)[i] = Tail(s)[j] => i + 1 = j + 1
    BY <1>1, <1>2, <1>5 DEF IsInjective
  <2>2. \A i, j \in DOMAIN Tail(s) : i + 1 = j + 1 => i = j
    BY <1>2
  <2>3. \A i \in DOMAIN Tail(s) : Tail(s)[i] # Head(s)
    BY <1>1, <1>2, <1>3, <1>5 DEF IsInjective
  <2> QED BY <2>1, <2>2, <2>3 DEF IsInjective, ToSet
<1> QED BY <1>1, <1>4, <1>5

LEMMA SetToSeqType ==
    ASSUME NEW T, NEW S \in SUBSET T, IsFiniteSet(S)
    PROVE  SetToSeq(S) \in Seq(T)
<1>1. PICK g : g \in Bijection(1 .. Cardinality(S), S)
  BY FS_CardinalityType DEF ExistsBijection
<1>2. g \in [1 .. Cardinality(S) -> S] /\ IsInjective(g)
  BY <1>1 DEF Bijection, Injection, IsInjective
<1>3. SetToSeq(S) \in [1 .. Cardinality(S) -> S]
  BY <1>2 DEF SetToSeq
<1>4. Cardinality(S) \in Nat
  BY FS_CardinalityType
<1> QED BY <1>3, <1>4


-----------------------------------------------------------------------------
(* The table.                                                               *)

Table ==
    /\ observed \in [Peer -> SUBSET Conn]
    /\ \A p \in Peer : observed[p] \subseteq made
    /\ confirmed \in Seq(Peer) /\ IsInjective(confirmed) /\ Len(confirmed) <= Capacity
    /\ \A p \in Confirmed : observed[p] # {}

(* Whose confirmation would be shown has said hello since.                  *)
Shown(p) == observed[p] \cap Live(p) # {}

(* A task knows connections that were made; the hello that it has heard is  *)
(* good as long as the connection is up.                                    *)
TasksSound ==
    \A w \in Worker :
        task[w] # Idle /\ task[w].stage \in {"hello", "heard"} =>
            /\ task[w].conn \in made
            /\ task[w].stage = "heard" /\ task[w].conn \in open =>
                  PeerOf[task[w].conn] \in spoken

Ended == life # "running" => round = <<>>

IInv ==
    /\ TypeOK
    /\ \A p \in Peer : observed[p] \subseteq made
    /\ TasksSound
    /\ Ended
    /\ ConfirmedStaysConnected

LEMMA ConfirmedType == ASSUME TypeOK PROVE Confirmed \subseteq Peer
  BY DEF TypeOK, Confirmed, ToSet

LEMMA ReconcileFacts ==
    ASSUME DiscoveryAssumption, IInv, NEW S \in SUBSET Peer, Reconcile(S), open' = open, made' = made
    PROVE  /\ Table'
           /\ Confirmed' = Confirmed \ Lapsed(S)
           /\ spoken' = spoken => ConfirmedStaysConnected'
<1>1. /\ confirmed \in Seq(Peer) /\ IsInjective(confirmed)
      /\ Len(confirmed) <= Capacity /\ Capacity \in Nat
      /\ observed \in [Peer -> SUBSET Conn]
      /\ open \subseteq made /\ made \subseteq Conn
      /\ \A p \in Peer : observed[p] \subseteq made
      /\ \A p \in Confirmed : observed[p] # {}
      /\ Confirmed \subseteq Peer
  BY ConfirmedType DEF IInv, TypeOK, DiscoveryAssumption
<1>2. confirmed' = Dropping(confirmed, Lapsed(S)) /\ observed' = Observed(S)
  BY DEF Reconcile, Without
<1>3. /\ confirmed' \in Seq(Peer) /\ IsInjective(confirmed')
      /\ Len(confirmed') <= Len(confirmed)
      /\ Len(confirmed) \in Nat /\ Len(confirmed') \in Nat
      /\ Confirmed' = Confirmed \ Lapsed(S)
  BY <1>1, <1>2, DroppingFacts DEF Confirmed
<1>4. /\ observed' \in [Peer -> SUBSET Conn]
      /\ \A p \in Peer : observed'[p] = IF p \in S THEN Live(p) ELSE observed[p]
  BY <1>1, <1>2 DEF Observed, Live
<1>5. \A p \in Peer : observed'[p] \subseteq made
  BY <1>1, <1>4 DEF Live
<1>6. \A p \in Confirmed' : observed'[p] # {}
  BY <1>1, <1>3, <1>4 DEF Lapsed
<1>7. ASSUME spoken' = spoken, NEW p \in Confirmed', observed'[p] \cap Live(p)' # {}
      PROVE  p \in spoken
  <2>1. Live(p)' = Live(p)
    BY DEF Live
  <2>2. p \in Confirmed /\ p \in Peer /\ p \notin Lapsed(S)
    BY <1>1, <1>3
  <2>3. observed[p] \cap Live(p) # {}
    BY <1>4, <1>7, <2>1, <2>2 DEF Lapsed
  <2> QED BY <2>2, <2>3 DEF IInv, ConfirmedStaysConnected
<1>8. Table'
  <2>1. Len(confirmed') <= Capacity
    BY <1>1, <1>3
  <2> QED BY <1>3, <1>4, <1>5, <1>6, <2>1 DEF Table
<1> QED BY <1>3, <1>7, <1>8 DEF ConfirmedStaysConnected

LEMMA ConfirmFacts ==
    ASSUME DiscoveryAssumption, IInv, NEW p \in Peer, Live(p) # {}, p \in spoken,
           Confirm(p), open' = open, made' = made, spoken' = spoken
    PROVE  Table' /\ ConfirmedStaysConnected'
<1>1. /\ confirmed \in Seq(Peer) /\ IsInjective(confirmed)
      /\ Len(confirmed) <= Capacity /\ Capacity \in Nat \ {0}
      /\ observed \in [Peer -> SUBSET Conn]
      /\ open \subseteq made /\ made \subseteq Conn
      /\ \A q \in Peer : observed[q] \subseteq made
      /\ \A q \in Confirmed : observed[q] # {}
      /\ Confirmed \subseteq Peer
      /\ Len(confirmed) \in Nat
  BY ConfirmedType DEF IInv, TypeOK, DiscoveryAssumption
<1> DEFINE full == p \notin Confirmed /\ Len(confirmed) >= Capacity
           rest == IF full THEN Tail(confirmed) ELSE Without({p})
<1>2. confirmed' = Append(rest, p)
  BY DEF Confirm
<1>3. \A q \in Peer : observed'[q] = IF full /\ q = Head(confirmed) THEN {}
                                     ELSE IF q = p THEN Live(p) ELSE observed[q]
  BY DEF Confirm
<1>4. /\ rest \in Seq(Peer) /\ IsInjective(rest)
      /\ p \notin ToSet(rest)
      /\ ToSet(rest) \subseteq Confirmed
      /\ Len(rest) < Capacity
      /\ full => Head(confirmed) \notin ToSet(rest) /\ Head(confirmed) \in Confirmed
  <2>1. CASE full
    <3>1. confirmed # <<>>
      BY <1>1, <2>1
    <3>2. rest = Tail(confirmed)
      BY <2>1
    <3> HIDE DEF rest
    <3>3. /\ Tail(confirmed) \in Seq(Peer) /\ IsInjective(Tail(confirmed))
          /\ ToSet(Tail(confirmed)) \subseteq Confirmed
          /\ Len(Tail(confirmed)) = Len(confirmed) - 1
          /\ Head(confirmed) \in Confirmed /\ Head(confirmed) \notin ToSet(Tail(confirmed))
      BY <1>1, <3>1, TailFacts DEF Confirmed
    <3> QED BY <1>1, <2>1, <3>2, <3>3
  <2>2. CASE ~full
    <3>1. rest = Dropping(confirmed, {p})
      BY <2>2 DEF Without
    <3> HIDE DEF rest
    <3>2. /\ rest \in Seq(Peer) /\ IsInjective(rest)
          /\ ToSet(rest) = Confirmed \ {p}
          /\ Len(rest) <= Len(confirmed)
          /\ p \in Confirmed => Len(rest) < Len(confirmed)
      BY <1>1, <3>1, DroppingFacts DEF Confirmed
    <3>3. Len(rest) \in Nat
      BY <3>2
    <3>4. Len(rest) < Capacity
      BY <1>1, <2>2, <3>2, <3>3
    <3> QED BY <2>2, <3>2, <3>4
  <2> QED BY <2>1, <2>2
<1> HIDE DEF full, rest
<1>5. /\ confirmed' \in Seq(Peer) /\ IsInjective(confirmed')
      /\ Len(confirmed') <= Capacity
      /\ Confirmed' = ToSet(rest) \cup {p}
  <2>1. Len(rest) \in Nat
    BY <1>4
  <2> QED BY <1>1, <1>2, <1>4, <2>1, AppendFacts DEF Confirmed
<1>6. \A q \in Confirmed' : q \in Peer /\ (q = p \/ q \in Confirmed)
                            /\ observed'[q] = IF q = p THEN Live(p) ELSE observed[q]
  <2> SUFFICES ASSUME NEW q \in Confirmed'
               PROVE  q \in Peer /\ (q = p \/ q \in Confirmed)
                      /\ observed'[q] = IF q = p THEN Live(p) ELSE observed[q]
    OBVIOUS
  <2>1. q \in Peer /\ (q = p \/ q \in ToSet(rest)) /\ (q = p \/ q \in Confirmed)
    BY <1>1, <1>4, <1>5
  <2>2. full => q # Head(confirmed)
    BY <1>4, <2>1 DEF full
  <2> QED BY <1>3, <2>1, <2>2
<1>7. Table'
  <2>1. observed' \in [Peer -> SUBSET Conn]
    <3>1. \A q \in Peer : observed'[q] \in SUBSET Conn
      BY <1>1, <1>3 DEF Live
    <3>2. observed' = [q \in Peer |-> observed'[q]]
      BY DEF Confirm
    <3> QED BY <3>1, <3>2
  <2>2. \A q \in Peer : observed'[q] \subseteq made
    BY <1>1, <1>3 DEF Live
  <2>3. \A q \in Confirmed' : observed'[q] # {}
    BY <1>1, <1>6
  <2> QED BY <1>5, <2>1, <2>2, <2>3 DEF Table
<1>8. ASSUME NEW q \in Confirmed', observed'[q] \cap Live(q)' # {}
      PROVE  q \in spoken'
  <2>1. Live(q)' = Live(q)
    BY DEF Live
  <2> QED BY <1>6, <1>8, <2>1 DEF IInv, ConfirmedStaysConnected
<1> QED BY <1>7, <1>8 DEF ConfirmedStaysConnected


-----------------------------------------------------------------------------
(* Rounds.                                                                  *)

LEMMA TurnFacts ==
    ASSUME DiscoveryAssumption, TypeOK, NEW s \in Seq(Peer)
    PROVE  Turn(s) \in Seq(Peer) /\ NextRotation(s) \in Nat
<1>1. Len(s) \in Nat /\ rotation \in Nat /\ ConnectedLimit \in Nat \ {0}
      /\ \A i \in 1 .. Len(s) : s[i] \in Peer
  BY DEF TypeOK, DiscoveryAssumption
<1>2. CASE s = <<>>
  BY <1>2 DEF Turn, NextRotation
<1>3. CASE s # <<>>
  <2> DEFINE n == Min({ConnectedLimit, Len(s)})
  <2>1. Len(s) \in Nat \ {0}
    BY <1>1, <1>3
  <2>2. n \in Nat
    <3>1. \E m \in {ConnectedLimit, Len(s)} : \A k \in {ConnectedLimit, Len(s)} : m <= k
      BY <1>1
    <3> QED BY <1>1, <3>1 DEF Min
  <2>3. \A a \in Nat : a % Len(s) \in 0 .. Len(s) - 1
    BY <2>1
  <2> HIDE DEF n
  <2>4. \A i \in 1 .. n : s[((rotation + i - 1) % Len(s)) + 1] \in Peer
    <3> SUFFICES ASSUME NEW i \in 1 .. n
                 PROVE  s[((rotation + i - 1) % Len(s)) + 1] \in Peer
      OBVIOUS
    <3>1. rotation + i - 1 \in Nat
      BY <1>1, <2>2
    <3>2. (rotation + i - 1) % Len(s) \in 0 .. Len(s) - 1
      BY <2>3, <3>1
    <3>3. ((rotation + i - 1) % Len(s)) + 1 \in 1 .. Len(s)
      BY <2>1, <3>2
    <3> QED BY <1>1, <3>3
  <2>5. Turn(s) = [i \in 1 .. n |-> s[((rotation + i - 1) % Len(s)) + 1]]
    BY <1>3 DEF Turn, n
  <2>6. Turn(s) \in Seq(Peer) /\ Len(Turn(s)) \in Nat
    BY <2>2, <2>4, <2>5
  <2>7. NextRotation(s) = ((rotation % Len(s)) + Len(Turn(s))) % Len(s)
    BY <1>3 DEF NextRotation
  <2>8. (rotation % Len(s)) + Len(Turn(s)) \in Nat
    BY <1>1, <2>1, <2>3, <2>6
  <2>9. PICK k \in Nat : NextRotation(s) = k % Len(s)
    BY <2>7, <2>8
  <2>10. NextRotation(s) \in Nat
    BY <2>1, <2>3, <2>9
  <2> QED BY <2>6, <2>10
<1> QED BY <1>2, <1>3

(* What a step leaves alone when it is not about the table.                 *)
LEMMA TableKept ==
    ASSUME IInv, UNCHANGED <<observed, confirmed>>, made \subseteq made'
    PROVE  Table'
<1>1. Confirmed' = Confirmed
  BY DEF Confirmed
<1> QED BY <1>1 DEF IInv, TypeOK, Table

LEMMA OrderedType ==
    ASSUME NEW T \in SUBSET Nat, IsFiniteSet(T), NEW S \in SUBSET T
    PROVE  Ordered(S) \in Seq(T)
<1>1. IsFiniteSet(S)
  BY FS_Subset
<1>2. S \in SUBSET Int
  OBVIOUS
<1>3. Cardinality(S) \in Nat /\ Ordered(S) \in [1 .. Cardinality(S) -> S]
  BY <1>1, <1>2, OrderedFacts
<1>4. Ordered(S) \in [1 .. Cardinality(S) -> T]
  BY <1>3
<1> QED BY <1>3, <1>4

LEMMA StartRoundFacts ==
    ASSUME DiscoveryAssumption, IInv, StartRound
    PROVE  /\ \E S \in SUBSET Peer : Reconcile(S)
           /\ round' \in Seq(Peer)
           /\ rotation' \in Nat
<1> DEFINE linked == {p \in Peer : Live(p) # {}}
           known(named) == Confirmed \ Lapsed(named \cup linked)
           providers(named) == SetToSeq(named \ known(named))
           connected(named) == Ordered(linked \ known(named))
<1>1. PICK named \in SUBSET Provider :
         /\ Reconcile(named \cup linked)
         /\ round' = providers(named) \o Dropping(Turn(connected(named)), named)
         /\ rotation' = NextRotation(connected(named))
  BY DEF StartRound
<1>2. /\ Peer \subseteq Nat /\ IsFiniteSet(Peer)
      /\ named \subseteq Peer /\ linked \subseteq Peer
      /\ TypeOK
  BY DEF DiscoveryAssumption, IInv
<1> HIDE DEF linked
<1>3. named \cup linked \in SUBSET Peer
  BY <1>2
<1>4. providers(named) \in Seq(Peer)
  <2>1. named \ known(named) \in SUBSET Peer
    BY <1>2
  <2>2. IsFiniteSet(named \ known(named))
    BY <1>2, <2>1, FS_Subset
  <2> HIDE DEF known
  <2> QED BY <2>1, <2>2, SetToSeqType
<1>5. connected(named) \in Seq(Peer)
  <2>1. linked \ known(named) \in SUBSET Peer
    BY <1>2
  <2> QED BY <1>2, <2>1, OrderedType
<1> HIDE DEF known, providers, connected
<1>6. Turn(connected(named)) \in Seq(Peer) /\ NextRotation(connected(named)) \in Nat
  BY <1>2, <1>5, TurnFacts
<1>7. Dropping(Turn(connected(named)), named) \in Seq(Peer)
  BY <1>6, DroppingFacts
<1>8. round' \in Seq(Peer)
  BY <1>1, <1>4, <1>7
<1> QED BY <1>1, <1>3, <1>6, <1>8

-----------------------------------------------------------------------------
(* Steps.                                                                   *)

LEMMA ConnStep ==
    ASSUME DiscoveryAssumption, IInv, NEW c \in Conn, Connect(c) \/ Disconnect(c)
    PROVE  IInv'
<1>0. TypeOK /\ TasksSound /\ Ended /\ ConfirmedStaysConnected
      /\ \A p \in Peer : observed[p] \subseteq made
      /\ PeerOf[c] \in Peer
  BY DEF IInv, DiscoveryAssumption
<1>1. /\ UNCHANGED <<observed, confirmed, task, round, inRound, late, rotation, life>>
      /\ Confirmed' = Confirmed
      /\ made \subseteq made'
  BY DEF Connect, Disconnect, Confirmed
<1>2. made' \subseteq Conn /\ open' \subseteq made' /\ spoken' \subseteq Peer
  BY <1>0 DEF Connect, Disconnect, TypeOK
<1>3. TypeOK'
  BY <1>0, <1>1, <1>2 DEF TypeOK
<1>4. CASE Connect(c)
  <2>1. /\ c \notin made /\ open' = open \cup {c} /\ made' = made \cup {c}
        /\ spoken' = spoken
    BY <1>4 DEF Connect
  <2>2. TasksSound'
    BY <1>0, <1>1, <2>1 DEF TasksSound
  <2>3. \A p \in Peer : observed'[p] \cap Live(p)' = observed[p] \cap Live(p)
    BY <1>0, <1>1, <2>1 DEF Live
  <2>4. ConfirmedStaysConnected'
    BY <1>0, <1>1, <2>1, <2>3, ConfirmedType DEF ConfirmedStaysConnected
  <2> QED BY <1>0, <1>1, <1>3, <2>2, <2>4 DEF IInv, Ended
<1>5. CASE Disconnect(c)
  <2>1. /\ c \in open /\ open' = open \ {c} /\ made' = made
        /\ spoken' = IF Live(PeerOf[c]) = {c} THEN spoken \ {PeerOf[c]} ELSE spoken
    BY <1>5 DEF Disconnect
  <2>2. \A p \in spoken : p \in spoken' \/ Live(p) = {c}
    BY <2>1
  <2>3. TasksSound'
    <3> SUFFICES ASSUME NEW w \in Worker, task[w] # Idle, task[w].stage = "heard",
                        task[w].conn \in open'
                 PROVE  PeerOf[task[w].conn] \in spoken'
      BY <1>0, <1>1, <2>1 DEF TasksSound
    <3>1. task[w].conn \in open /\ task[w].conn # c
      BY <2>1
    <3>2. task[w].conn \in Live(PeerOf[task[w].conn])
      BY <3>1 DEF Live
    <3>3. PeerOf[task[w].conn] \in spoken
      BY <1>0, <3>1 DEF TasksSound
    <3> QED BY <2>2, <3>1, <3>2, <3>3
  <2>4. \A p \in Peer : Live(p)' = Live(p) \ {c}
    BY <2>1 DEF Live
  <2>5. ConfirmedStaysConnected'
    <3> SUFFICES ASSUME NEW p \in Confirmed, observed[p] \cap (Live(p) \ {c}) # {}
                 PROVE  p \in spoken'
      BY <1>0, <1>1, <2>4, ConfirmedType DEF ConfirmedStaysConnected
    <3>1. p \in spoken /\ Live(p) # {c}
      BY <1>0 DEF ConfirmedStaysConnected
    <3> QED BY <2>2, <3>1
  <2> QED BY <1>0, <1>1, <1>3, <2>1, <2>3, <2>5 DEF IInv, Ended
<1> QED BY <1>4, <1>5

(* A step that changes the table and leaves the network alone.              *)
LEMMA TableStep ==
    ASSUME IInv, Table', ConfirmedStaysConnected',
           UNCHANGED <<open, made, spoken, life, late>>,
           task' \in [Worker -> Task \cup {Idle}],
           \A w \in Worker : task'[w] \in {task[w], Idle},
           round' \in Seq(Peer), inRound' \in BOOLEAN, rotation' \in Nat,
           life # "running" => round' = <<>>,
           life = "closed" => inRound' = inRound
    PROVE  IInv'
<1>1. TypeOK'
  <2>1. life = "closed" => round' = <<>> /\ ~inRound' /\ \A w \in Worker : task'[w] = Idle
    BY DEF IInv, TypeOK
  <2> QED BY <2>1 DEF IInv, TypeOK, Table
<1>2. TasksSound'
  BY DEF IInv, TasksSound
<1> QED BY <1>1, <1>2 DEF IInv, Table, Ended

LEMMA ReadStep ==
    ASSUME DiscoveryAssumption, IInv,
           BitBookPeers \/ StartRound \/ SearchFails \/ \E p \in Peer : Notice(p)
    PROVE  IInv'
<1>1. \E S \in SUBSET Peer : Reconcile(S)
  <2>1. Provider \subseteq Peer
    BY DEF DiscoveryAssumption
  <2> QED BY <2>1, StartRoundFacts DEF BitBookPeers, SearchFails, Notice
<1>2. UNCHANGED <<open, made, spoken, life, late, task>>
  BY DEF BitBookPeers, StartRound, SearchFails, Notice
<1>3. Table' /\ ConfirmedStaysConnected'
  BY <1>1, <1>2, ReconcileFacts
<1>4. round' \in Seq(Peer) /\ inRound' \in BOOLEAN /\ rotation' \in Nat
  BY StartRoundFacts DEF BitBookPeers, StartRound, SearchFails, Notice, IInv, TypeOK
<1>5. /\ life # "running" => round' = <<>>
      /\ life = "closed" => inRound' = inRound
  BY DEF BitBookPeers, StartRound, SearchFails, Notice, IInv, Ended
<1>6. task \in [Worker -> Task \cup {Idle}]
  BY DEF IInv, TypeOK
<1> QED BY <1>2, <1>3, <1>4, <1>5, <1>6, TableStep

LEMMA FinishStep ==
    ASSUME DiscoveryAssumption, IInv, NEW w \in Worker, Finish(w)
    PROVE  IInv'
<1> DEFINE c == task[w].conn
           p == PeerOf[c]
<1>1. /\ task[w] # Idle /\ task[w].stage = "heard"
      /\ ConfirmConnection(c)
      /\ task' = [task EXCEPT ![w] = Idle]
      /\ UNCHANGED <<open, made, round, inRound, late, rotation, life, spoken>>
  BY DEF Finish
<1>2. task \in [Worker -> Task \cup {Idle}]
  BY DEF IInv, TypeOK
<1>3. c \in made /\ p \in Peer /\ (c \in open => p \in spoken)
  BY <1>1 DEF IInv, TasksSound, TypeOK, DiscoveryAssumption
<1>4. Table' /\ ConfirmedStaysConnected'
  <2>1. CASE c \in open
    <3>1. Confirm(p) /\ Live(p) # {}
      BY <1>1, <2>1 DEF ConfirmConnection, Live
    <3> QED BY <1>1, <1>3, <2>1, <3>1, ConfirmFacts
  <2>2. CASE c \notin open
    <3>1. Reconcile({p}) /\ {p} \in SUBSET Peer
      BY <1>1, <1>3, <2>2 DEF ConfirmConnection
    <3> QED BY <1>1, <3>1, ReconcileFacts
  <2> QED BY <2>1, <2>2
<1>5. task' \in [Worker -> Task \cup {Idle}] /\ \A v \in Worker : task'[v] \in {task[v], Idle}
  BY <1>1, <1>2
<1>6. /\ round' \in Seq(Peer) /\ inRound' \in BOOLEAN /\ rotation' \in Nat
      /\ life # "running" => round' = <<>>
      /\ inRound' = inRound
  BY <1>1 DEF IInv, TypeOK, Ended
<1> QED BY <1>1, <1>4, <1>5, <1>6, TableStep


(* A step that leaves the table alone, and the network but for what a dial  *)
(* or a hello adds to it.                                                   *)
LEMMA QuietStep ==
    ASSUME DiscoveryAssumption, IInv, TypeOK', TasksSound', Ended',
           UNCHANGED <<observed, confirmed, open>>,
           made \subseteq made', spoken \subseteq spoken'
    PROVE  IInv'
<1>1. Confirmed' = Confirmed /\ \A p \in Peer : Live(p)' = Live(p)
  BY DEF Confirmed, Live
<1>2. ConfirmedStaysConnected'
  BY <1>1, ConfirmedType DEF IInv, ConfirmedStaysConnected
<1> QED BY <1>2 DEF IInv

LEMMA LoopStep ==
    ASSUME DiscoveryAssumption, IInv, EndRound \/ Close \/ Closed
    PROVE  IInv'
<1>1. UNCHANGED <<observed, confirmed, open, made, spoken, task, rotation>>
  BY DEF EndRound, Close, Closed
<1>2. TypeOK /\ TasksSound /\ Ended
  BY DEF IInv
<1>3. /\ round' \in {round, <<>>} /\ inRound' \in {inRound, FALSE} /\ late' \in {late, 0}
      /\ life' \in {life, "closing", "closed"}
  BY DEF EndRound, Close, Closed
<1>4. Ended' /\ (life' = "closed" =>
                    round' = <<>> /\ ~inRound' /\ \A w \in Worker : task[w] = Idle)
  <2>1. CASE EndRound
    BY <1>2, <2>1 DEF EndRound, Ended, TypeOK
  <2>2. CASE Close
    BY <2>2 DEF Close, Ended
  <2>3. CASE Closed
    BY <1>2, <2>3 DEF Closed, Ended
  <2> QED BY <2>1, <2>2, <2>3
<1>5. TypeOK'
  <2>1. Confirmed' = Confirmed
    BY <1>1 DEF Confirmed
  <2>2. round \in Seq(Peer) /\ <<>> \in Seq(Peer) /\ late \in Nat /\ inRound \in BOOLEAN
        /\ life \in {"running", "closing", "closed"}
    BY <1>2 DEF TypeOK
  <2>3. round' \in Seq(Peer)
    BY <1>3, <2>2, Zenon
  <2>4. late' \in Nat
    BY <1>3, <2>2
  <2>5. inRound' \in BOOLEAN
    BY <1>3, <2>2, Zenon
  <2>6. life' \in {"running", "closing", "closed"}
    BY <1>3, <2>2, Zenon
  <2> QED BY <1>1, <1>2, <1>4, <2>1, <2>3, <2>4, <2>5, <2>6 DEF TypeOK
<1>6. TasksSound'
  BY <1>1, <1>2 DEF TasksSound
<1> QED BY <1>1, <1>4, <1>5, <1>6, QuietStep

(* What a step does that moves one task on.                                 *)
Moves(w, t) ==
    /\ task' = [task EXCEPT ![w] = t]
    /\ UNCHANGED <<observed, confirmed, inRound, rotation, life>>

LEMMA MoveTypes ==
    ASSUME DiscoveryAssumption, IInv, NEW w \in Worker, NEW t \in Task \cup {Idle},
           Moves(w, t), life = "closed" => t = Idle,
           open' \subseteq made', made' \subseteq Conn,
           round' \in Seq(Peer), late' \in Nat, spoken' \subseteq Peer,
           life = "closed" => round' = <<>>
    PROVE  TypeOK'
<1>1. TypeOK
  BY DEF IInv
<1>2. Confirmed' = Confirmed
  BY DEF Confirmed, Moves
<1>3. task' \in [Worker -> Task \cup {Idle}]
  BY <1>1 DEF Moves, TypeOK
<1>4. life = "closed" => ~inRound /\ \A v \in Worker : task'[v] = Idle
  BY <1>1 DEF Moves, TypeOK
<1> QED BY <1>1, <1>2, <1>3, <1>4 DEF Moves, TypeOK

LEMMA MoveSound ==
    ASSUME IInv, NEW w \in Worker, NEW t, Moves(w, t),
           open' \subseteq made', made \subseteq made', spoken \subseteq spoken',
           open' \cap made \subseteq open,
           t # Idle /\ t.stage \in {"hello", "heard"} =>
               t.conn \in made' /\ (t.stage = "heard" => PeerOf[t.conn] \in spoken')
    PROVE  TasksSound'
<1> SUFFICES ASSUME NEW v \in Worker, task'[v] # Idle, task'[v].stage \in {"hello", "heard"}
             PROVE  /\ task'[v].conn \in made'
                    /\ task'[v].stage = "heard" /\ task'[v].conn \in open' =>
                          PeerOf[task'[v].conn] \in spoken'
  BY DEF TasksSound
<1>1. CASE v = w
  <2>1. task'[v] = t
    BY <1>1 DEF Moves, IInv, TypeOK
  <2> QED BY <2>1
<1>2. CASE v # w
  <2>1. task'[v] = task[v]
    BY <1>2 DEF Moves, IInv, TypeOK
  <2>2. /\ task[v].conn \in made
        /\ task[v].stage = "heard" /\ task[v].conn \in open => PeerOf[task[v].conn] \in spoken
    BY <2>1 DEF IInv, TasksSound
  <2> QED BY <2>1, <2>2
<1> QED BY <1>1, <1>2

LEMMA TaskType ==
    ASSUME TypeOK, NEW w \in Worker, task[w] # Idle
    PROVE  /\ task[w] \in Task
           /\ task[w].stage = "dialing" => task[w].peer \in Peer
           /\ task[w].stage \in {"hello", "heard"} => task[w].conn \in Conn
<1>1. task[w] \in Task
  BY DEF TypeOK
<1> QED BY <1>1 DEF Task

LEMMA TakeStep ==
    ASSUME DiscoveryAssumption, IInv, NEW w \in Worker, Take(w)
    PROVE  IInv'
<1>0. TypeOK /\ Ended
  BY DEF IInv
<1> DEFINE t == [stage |-> "dialing", peer |-> Head(round)]
<1>1. /\ round # <<>> /\ round' = Tail(round) /\ Moves(w, t)
      /\ UNCHANGED <<open, made, late, spoken>>
  BY DEF Take, Moves
<1>2. Head(round) \in Peer /\ Tail(round) \in Seq(Peer)
  BY <1>0, <1>1 DEF TypeOK
<1>3. t \in Task /\ t.stage = "dialing"
  BY <1>2 DEF Task
<1> HIDE DEF t
<1>4. life = "running"
  BY <1>0, <1>1 DEF Ended
<1>5. TypeOK'
  BY <1>0, <1>1, <1>2, <1>3, <1>4, MoveTypes DEF TypeOK
<1>6. TasksSound'
  BY <1>0, <1>1, <1>3, MoveSound DEF TypeOK
<1>7. Ended'
  BY <1>1, <1>4 DEF Moves, Ended
<1> QED BY <1>1, <1>5, <1>6, <1>7, QuietStep DEF Moves

LEMMA AcceptStep ==
    ASSUME DiscoveryAssumption, IInv, NEW w \in Worker, Accept(w)
    PROVE  IInv'
<1>0. TypeOK /\ Ended
  BY DEF IInv
<1>1. PICK c \in open : task' = [task EXCEPT ![w] = [stage |-> "hello", conn |-> c]]
  BY DEF Accept
<1> DEFINE t == [stage |-> "hello", conn |-> c]
<1>2. /\ life = "running" /\ Moves(w, t)
      /\ UNCHANGED <<open, made, round, late, spoken>>
  BY <1>1 DEF Accept, Moves
<1>3. c \in made /\ c \in Conn
  BY <1>0 DEF TypeOK
<1>4. t \in Task /\ t.stage = "hello" /\ t.conn = c
  BY <1>3 DEF Task
<1> HIDE DEF t
<1>5. TypeOK'
  BY <1>0, <1>2, <1>4, MoveTypes DEF TypeOK
<1>6. TasksSound'
  BY <1>0, <1>2, <1>3, <1>4, MoveSound DEF TypeOK
<1>7. Ended'
  BY <1>0, <1>2 DEF Moves, Ended
<1> QED BY <1>2, <1>5, <1>6, <1>7, QuietStep DEF Moves

LEMMA HearStep ==
    ASSUME DiscoveryAssumption, IInv, NEW w \in Worker, Hear(w)
    PROVE  IInv'
<1>0. TypeOK /\ Ended
  BY DEF IInv
<1> DEFINE c == task[w].conn
           t == [task[w] EXCEPT !.stage = "heard"]
<1>1. /\ task[w] # Idle /\ task[w].stage = "hello"
      /\ c \in open /\ life = "running"
      /\ spoken' = spoken \cup {PeerOf[c]}
      /\ UNCHANGED <<open, made, round, late>>
      /\ Moves(w, t)
  BY <1>0 DEF Hear, Moves, TypeOK
<1>2. task[w] \in Task /\ c \in Conn /\ PeerOf[c] \in Peer /\ c \in made
  BY <1>0, <1>1, TaskType DEF DiscoveryAssumption, TypeOK
<1>3. t \in Task /\ t.conn = c
  BY <1>1, <1>2 DEF Task
<1> HIDE DEF t
<1>4. TypeOK'
  BY <1>0, <1>1, <1>2, <1>3, MoveTypes DEF TypeOK
<1>5. TasksSound'
  BY <1>0, <1>1, <1>2, <1>3, MoveSound DEF TypeOK
<1>6. Ended'
  BY <1>0, <1>1 DEF Moves, Ended
<1> QED BY <1>1, <1>4, <1>5, <1>6, QuietStep DEF Moves

LEMMA FailsStep ==
    ASSUME DiscoveryAssumption, IInv, NEW w \in Worker, Fails(w)
    PROVE  IInv'
<1>0. TypeOK /\ Ended
  BY DEF IInv
<1>1. /\ Moves(w, Idle)
      /\ UNCHANGED <<open, made, spoken>>
      /\ late' \in {late, late + 1}
      /\ round' \in {round, <<>>}
  BY DEF Fails, Moves
<1>2. round' \in Seq(Peer) /\ late' \in Nat
      /\ (life # "running" => round' = <<>>)
  <2>1. round \in Seq(Peer) /\ <<>> \in Seq(Peer) /\ late \in Nat
    BY <1>0 DEF TypeOK
  <2>2. round' \in Seq(Peer)
    BY <1>1, <2>1, Zenon
  <2>3. late' \in Nat
    BY <1>1, <2>1
  <2>4. life # "running" => round' = <<>>
    BY <1>0, <1>1, Zenon DEF Ended
  <2> QED BY <2>2, <2>3, <2>4
<1>3. TypeOK'
  BY <1>0, <1>1, <1>2, MoveTypes DEF TypeOK
<1>4. TasksSound'
  BY <1>0, <1>1, MoveSound DEF TypeOK
<1>5. Ended'
  BY <1>1, <1>2 DEF Moves, Ended
<1> QED BY <1>1, <1>3, <1>4, <1>5, QuietStep DEF Moves

(* A dial may bring a connection up, but none that was there before.        *)
LEMMA DialStep ==
    ASSUME DiscoveryAssumption, IInv, NEW w \in Worker, Dial(w)
    PROVE  IInv'
<1>0. TypeOK /\ Ended /\ ConfirmedStaysConnected
      /\ \A p \in Peer : observed[p] \subseteq made
  BY DEF IInv
<1>1. PICK c \in Conn :
         /\ c \in open \/ c \notin made
         /\ open' = open \cup {c} /\ made' = made \cup {c}
         /\ task' = [task EXCEPT ![w] = IF life = "running" THEN [stage |-> "hello", conn |-> c]
                                        ELSE Idle]
  BY DEF Dial
<1> DEFINE t == IF life = "running" THEN [stage |-> "hello", conn |-> c] ELSE Idle
<1>2. Moves(w, t) /\ UNCHANGED <<round, late, spoken>>
  BY <1>1 DEF Dial, Moves
<1>3. /\ t \in Task \cup {Idle}
      /\ life = "closed" => t = Idle
      /\ t # Idle => t = [stage |-> "hello", conn |-> c]
  BY DEF Task
<1> HIDE DEF t
<1>4. TypeOK'
  BY <1>0, <1>1, <1>2, <1>3, MoveTypes DEF TypeOK
<1>5. TasksSound'
  <2>1. t # Idle => t.stage = "hello" /\ t.conn = c
    BY <1>3
  <2>2. open' \cap made \subseteq open
    BY <1>1
  <2> QED BY <1>0, <1>1, <1>2, <2>1, <2>2, MoveSound DEF TypeOK
<1>6. ConfirmedStaysConnected'
  <2>1. Confirmed' = Confirmed /\ observed' = observed
    BY <1>2 DEF Confirmed, Moves
  <2>2. \A p \in Peer : observed[p] \cap Live(p)' = observed[p] \cap Live(p)
    BY <1>0, <1>1 DEF Live
  <2> QED BY <1>0, <1>2, <2>1, <2>2, ConfirmedType DEF ConfirmedStaysConnected
<1>7. Ended' /\ \A p \in Peer : observed'[p] \subseteq made'
  BY <1>0, <1>1, <1>2 DEF Moves, Ended
<1> QED BY <1>4, <1>5, <1>6, <1>7 DEF IInv

LEMMA IInvInit ==
    ASSUME DiscoveryAssumption, Init
    PROVE  IInv
<1>1. Confirmed = {}
  BY DEF Init, Confirmed, ToSet
<1>2. TypeOK
  <2>1. IsInjective(confirmed) /\ Len(confirmed) <= Capacity /\ confirmed \in Seq(Peer)
    BY DEF Init, IsInjective, DiscoveryAssumption
  <2> QED BY <1>1, <2>1 DEF Init, TypeOK
<1>3. TasksSound
  BY DEF Init, TasksSound
<1> QED BY <1>1, <1>2, <1>3 DEF Init, IInv, Ended, ConfirmedStaysConnected

LEMMA IInvStep ==
    ASSUME DiscoveryAssumption, IInv, [Next]_vars
    PROVE  IInv'
<1>1. CASE UNCHANGED vars
  BY <1>1 DEF vars, IInv, TypeOK, TasksSound, Ended, ConfirmedStaysConnected, Confirmed, Live
<1>2. CASE Next
  BY <1>2, ConnStep, ReadStep, LoopStep, TakeStep, DialStep, AcceptStep, HearStep, FinishStep,
     FailsStep DEF Next
<1> QED BY <1>1, <1>2

-----------------------------------------------------------------------------
(* Discovery keeps its invariant: the table is within its capacity, only    *)
(* holds peers whose connections it knows, and what it shows is backed by   *)
(* hellos (confirmedPeers, handleInboundHello, probeBitBookPeer).           *)
THEOREM DiscoveryInvariant == Spec => []IInv
<1>1. Init => IInv
  BY DiscoveryAssumption, IInvInit
<1>2. IInv /\ [Next]_vars => IInv'
  BY DiscoveryAssumption, IInvStep
<1> QED BY <1>1, <1>2, PTL DEF Spec

(* Types; the table is within its capacity, knows a connection of every     *)
(* peer in it, and nothing is under way once close() has returned           *)
(* (confirmLocked, reconcileLocked, close).                                 *)
THEOREM DiscoveryTypes == Spec => []TypeOK
<1>1. IInv => TypeOK
  BY DEF IInv
<1> QED BY <1>1, DiscoveryInvariant, PTL

(* Whom BitBookPeers reports has said hello and has been connected ever     *)
(* since, however late a probe ends and whoever reconnects unnoticed        *)
(* (confirmConnection, reconcileLocked).                                    *)
THEOREM DiscoveryConfirmedStaysConnected == Spec => []ConfirmedStaysConnected
<1>1. IInv => ConfirmedStaysConnected
  BY DEF IInv
<1> QED BY <1>1, DiscoveryInvariant, PTL
=============================================================================
