--------------------------- MODULE RichPostProofs ---------------------------
(***************************************************************************)
(* Proofs about RichPost: the journal and the claims of rich posts agree   *)
(* whatever fails or stops, and the journal keeps within its limits.       *)
(***************************************************************************)
EXTENDS RichPost, FiniteSetTheorems, TLAPS

-----------------------------------------------------------------------------
(* Images and sums.                                                         *)

(* The values of a function on a finite set.                                *)
LEMMA FiniteImage ==
  ASSUME NEW S, IsFiniteSet(S), NEW f
  PROVE  /\ IsFiniteSet({f[x] : x \in S})
         /\ Cardinality({f[x] : x \in S}) <= Cardinality(S)
  <1> DEFINE T == {f[x] : x \in S}
             g == [x \in S |-> f[x]]
  <1>1. g \in Surjection(S, T)
    BY DEF Surjection
  <1> HIDE DEF T, g
  <1>2. IsFiniteSet(T) /\ Cardinality(T) <= Cardinality(S)
    BY <1>1, FS_Surjection
  <1> QED
    BY <1>2 DEF T

(* The units of one element.                                                *)
LEMMA UnitsOfOne ==
  ASSUME NEW e, NEW n \in Nat
  PROVE  IsFiniteSet({e} \X (1..n)) /\ Cardinality({e} \X (1..n)) = n
  <1>1. IsFiniteSet({e}) /\ Cardinality({e}) = 1
    BY FS_Singleton
  <1>2. IsFiniteSet(1..n) /\ Cardinality(1..n) = n
    BY FS_Interval
  <1> DEFINE A == {e}
             B == 1..n
  <1>3. IsFiniteSet(A) /\ IsFiniteSet(B) /\ Cardinality(A) = 1 /\ Cardinality(B) = n
    BY <1>1, <1>2
  <1> HIDE DEF A, B
  <1>4. IsFiniteSet(A \X B) /\ Cardinality(A \X B) = Cardinality(A) * Cardinality(B)
    BY <1>3, FS_Product
  <1>5. Cardinality(A \X B) = n
    BY <1>3, <1>4
  <1> QED
    BY <1>4, <1>5 DEF A, B

LEMMA UnitsFinite ==
  ASSUME NEW f, NEW S, IsFiniteSet(S), \A x \in S : f[x] \in Nat
  PROVE  IsFiniteSet(Units(f, S))
  <1> DEFINE g == [x \in S |-> {x} \X (1..f[x])]
             U == {g[x] : x \in S}
  <1>1. IsFiniteSet(U)
    <2> HIDE DEF g
    <2> QED
      BY FiniteImage
  <1>2. \A u \in U : IsFiniteSet(u)
    <2>1. \A x \in S : IsFiniteSet({x} \X (1..f[x]))
      BY UnitsOfOne
    <2> QED
      BY <2>1
  <1>3. Units(f, S) = UNION U
    BY DEF Units
  <1> HIDE DEF U
  <1> QED
    BY <1>1, <1>2, <1>3, FS_UNION

LEMMA SumNat ==
  ASSUME NEW f, NEW S, IsFiniteSet(S), \A x \in S : f[x] \in Nat
  PROVE  SumOver(f, S) \in Nat
  BY UnitsFinite, FS_CardinalityType DEF SumOver

LEMMA SumAdd ==
  ASSUME NEW f, NEW S, IsFiniteSet(S), NEW e, e \notin S,
         \A x \in S \cup {e} : f[x] \in Nat
  PROVE  SumOver(f, S \cup {e}) = f[e] + SumOver(f, S)
  <1> DEFINE A == Units(f, S)
             B == {e} \X (1..f[e])
  <1>1. IsFiniteSet(A) /\ IsFiniteSet(B) /\ Cardinality(B) = f[e]
    BY UnitsFinite, UnitsOfOne
  <1>2. Units(f, S \cup {e}) = A \cup B
    BY DEF Units
  <1>3. A \cap B = {}
    <2>1. \A u \in A : \E x \in S : u \in {x} \X (1..f[x])
      BY DEF Units
    <2> QED
      BY <2>1
  <1>4. Cardinality(A) \in Nat /\ f[e] \in Nat
    BY <1>1, FS_CardinalityType
  <1>5. SumOver(f, S) = Cardinality(A)
    BY DEF SumOver
  <1>6. Cardinality(A \cap B) = 0
    BY <1>3, FS_EmptySet
  <1> HIDE DEF A, B
  <1>7. Cardinality(A \cup B) = Cardinality(A) + Cardinality(B) - Cardinality(A \cap B)
    BY <1>1, FS_Union
  <1>8. SumOver(f, S \cup {e}) = Cardinality(A \cup B)
    BY <1>2 DEF SumOver
  <1> QED
    BY <1>1, <1>4, <1>5, <1>6, <1>7, <1>8

(* A sum over a set depends on the values at its elements only.             *)
LEMMA SumSame ==
  ASSUME NEW f, NEW g, NEW S, \A x \in S : f[x] = g[x]
  PROVE  SumOver(f, S) = SumOver(g, S)
  <1>1. Units(f, S) = Units(g, S)
    BY DEF Units
  <1> QED
    BY <1>1 DEF SumOver

LEMMA SumZero ==
  ASSUME NEW f, NEW S, \A x \in S : f[x] = 0
  PROVE  SumOver(f, S) = 0
  <1>1. \A x \in S : {x} \X (1..f[x]) = {}
    OBVIOUS
  <1>2. Units(f, S) = {}
    BY <1>1 DEF Units
  <1> QED
    BY <1>2, FS_EmptySet DEF SumOver

(* One value changes.                                                       *)
LEMMA SumReplace ==
  ASSUME NEW f, NEW g, NEW S, IsFiniteSet(S), NEW e \in S,
         \A x \in S : f[x] \in Nat /\ g[x] \in Nat,
         \A x \in S \ {e} : f[x] = g[x]
  PROVE  SumOver(g, S) = SumOver(f, S) - f[e] + g[e]
  <1> DEFINE R == S \ {e}
  <1>1. IsFiniteSet(R) /\ R \cup {e} = S /\ e \notin R
    BY FS_Subset
  <1> HIDE DEF R
  <1>2. \A x \in R : f[x] = g[x]
    BY DEF R
  <1>3. SumOver(f, R) = SumOver(g, R)
    BY <1>2, SumSame
  <1>4. \A x \in R \cup {e} : f[x] \in Nat /\ g[x] \in Nat
    BY <1>1
  <1>5. SumOver(f, R \cup {e}) = f[e] + SumOver(f, R) /\ SumOver(g, R \cup {e}) = g[e] + SumOver(g, R)
    BY <1>1, <1>4, SumAdd
  <1>6. SumOver(f, R) \in Nat
    BY <1>1, <1>4, SumNat
  <1> QED
    BY <1>1, <1>3, <1>4, <1>5, <1>6

-----------------------------------------------------------------------------

Types ==
    /\ recorded \in [Post -> SUBSET State]
    /\ claims \subseteq Claim
    /\ uploads \subseteq Upload
    /\ block \in [Post -> {"none", "stored", "synced"}]
    /\ life \in {"closed", "recovering", "open", "poisoned", "corrupt"}
    /\ call \in {NoCall} \cup [post : Post, step : Step]
    /\ said \in [Post -> {"none", "live", "deleted"}]

(* Only a store that has failed is in doubt about a record.                *)
Certain ==
    /\ \A p \in Post : recorded[p] # {}
    /\ life # "poisoned" => \A p \in Post : \E s \in State : recorded[p] = {s}

(* What a call has done when it reaches a step.                            *)
CallFollows ==
    call # NoCall =>
        LET p == call.post
        IN  /\ life \in {"open", "recovering"}
            /\ call.step # "release" => life = "open"
            /\ call.step = "prepare" => Of(p) \in {"none", "aborted"}
            /\ call.step \in {"clone", "live"} => Of(p) = "preparing"
            /\ call.step = "live" => ClaimsOf(p) \subseteq claims /\ block[p] = "synced"
            /\ call.step = "delete" => Of(p) \in {"live", "aborted"} /\ said[p] = "none"
            /\ call.step = "release" => \/ Of(p) = "deleting"
                                        \/ Of(p) = "preparing" /\ life = "recovering"

(* While the store is open, only the post of the running call is in the    *)
(* middle of something.                                                    *)
Middle ==
    life = "open" => \A p \in Post :
        Of(p) \in {"preparing", "deleting"} => call # NoCall /\ call.post = p

(* The journals that a crash may leave.                                    *)
Left == {r \in [Post -> State] : \A p \in Post : r[p] \in recorded[p]}

BytesOf(r) == SumOver([p \in Post |-> Size[r[p]]], Post)

(* The state in which recovery leaves a record.                            *)
Rest(s) == IF s = "preparing" THEN "aborted" ELSE IF s = "deleting" THEN "deleted" ELSE s

RestOf(r) == [p \in Post |-> Rest(r[p])]

KnownIn(r) == {p \in Post : r[p] # "none"}

(* A journal is within the limits, and when every call is settled there is *)
(* room to turn one record that was rolled back into one being prepared.   *)
Sound(r) ==
    /\ Cardinality(KnownIn(r)) <= MaxRecords
    /\ BytesOf(r) <= MaxBytes
    /\ KnownIn(r) # {} => BytesOf(RestOf(r)) - Size["aborted"] + Size["preparing"] <= MaxBytes

LeftSound == \A r \in Left : Sound(r)

PrepareFits == At("prepare") => Fits(call.post, "preparing")

IInv ==
    /\ Types
    /\ Certain
    /\ CallFollows
    /\ Middle
    /\ ClaimsMatchPosts
    /\ AnswersSurvive
    /\ LeftSound
    /\ PrepareFits
    /\ NeverCorrupt
-----------------------------------------------------------------------------
(* The record in memory.                                                    *)

LEMMA SingleOf == ASSUME NEW p, NEW s, recorded[p] = {s} PROVE Of(p) = s
  BY DEF Of

LEMMA SingleOfNext == ASSUME NEW p, NEW s, recorded'[p] = {s} PROVE Of(p)' = s
  BY DEF Of

LEMMA SameOf == ASSUME UNCHANGED recorded, NEW p PROVE Of(p)' = Of(p)
  BY DEF Of

LEMMA OfRecorded ==
  ASSUME Types, Certain, NEW p \in Post
  PROVE  /\ Of(p) \in State /\ Of(p) \in recorded[p]
         /\ life # "poisoned" => recorded[p] = {Of(p)}
  <1>1. Of(p) \in recorded[p]
    BY DEF Certain, Of
  <1>2. Of(p) \in State
    BY <1>1 DEF Types
  <1>3. ASSUME life # "poisoned" PROVE recorded[p] = {Of(p)}
    BY <1>1, <1>3 DEF Certain
  <1> QED
    BY <1>1, <1>2, <1>3

LEMMA CallPost ==
  ASSUME Types, call # NoCall
  PROVE  call = [post |-> call.post, step |-> call.step] /\ call.post \in Post /\ call.step \in Step
  BY DEF Types

(* A record that is written is the one in memory, and no other changes.     *)
LEMMA WrittenOf ==
  ASSUME Types, call # NoCall, NEW p \in Post, p = call.post, NEW s \in State, Writes(s)
  PROVE  /\ recorded'[p] = {s} /\ Of(p)' = s
         /\ \A q \in Post : q # p => recorded'[q] = recorded[q] /\ Of(q)' = Of(q)
  <1>1. /\ recorded'[p] = {s}
        /\ \A q \in Post : q # p => recorded'[q] = recorded[q]
    BY DEF Types, Writes
  <1>2. Of(p)' = s
    BY <1>1, SingleOfNext
  <1>3. ASSUME NEW q \in Post, q # p PROVE Of(q)' = Of(q)
    BY <1>1, <1>3 DEF Of
  <1> QED
    BY <1>1, <1>2, <1>3

(* A failed write leaves the record as it was, or in doubt.                 *)
LEMMA FailedOf ==
  ASSUME Types, call # NoCall, NEW s \in State, WriteFails(s)
  PROVE  /\ recorded' \in [Post -> SUBSET State]
         /\ recorded'[call.post] \in {recorded[call.post], recorded[call.post] \cup {s}}
         /\ \A q \in Post : q # call.post => recorded'[q] = recorded[q]
         /\ call' = NoCall /\ life' = "poisoned"
  BY CallPost DEF Types, WriteFails, Poisons

-----------------------------------------------------------------------------
(* Types, and certainty.                                                    *)

LEMMA TypesStep ==
  ASSUME Types, Certain, CallFollows, Next
  PROVE  Types'
  <1> USE DEF Step
  <1>a. ASSUME NEW s \in State, call # NoCall, Writes(s) \/ WriteFails(s)
        PROVE  recorded' \in [Post -> SUBSET State]
    BY <1>a, CallPost, FailedOf DEF Writes, Types
  <1>b. ASSUME NEW s \in Step, call # NoCall, Goes(s)
        PROVE  call' \in [post : Post, step : Step] /\ UNCHANGED life
    BY <1>b, CallPost DEF Goes
  <1>1. ASSUME NEW p \in Post, Add(p) PROVE Types'
    BY <1>1 DEF Add, Types
  <1>2. ASSUME NEW p \in Post, AddAgain(p) PROVE Types'
    BY <1>2 DEF AddAgain, Poisons, Types
  <1>3. ASSUME NEW p \in Post, AnswerAgain(p) PROVE Types'
    <2>1. Of(p) \in {"live", "deleted"}
      BY <1>3 DEF AnswerAgain
    <2> QED
      BY <1>3, <2>1 DEF AnswerAgain, Types
  <1>4. ASSUME NEW p \in Post, Delete(p) PROVE Types'
    BY <1>4 DEF Delete, Poisons, Types
  <1>5. ASSUME NEW p \in Post, Recover(p) PROVE Types'
    BY <1>5 DEF Recover, Types
  <1>6. CASE Prepare
    <2>1. recorded' \in [Post -> SUBSET State]
      BY <1>6, <1>a DEF Prepare, At, State
    <2>2. /\ call' \in {NoCall} \cup [post : Post, step : Step]
          /\ life' \in {"closed", "recovering", "open", "poisoned", "corrupt"}
      BY <1>6, <1>b DEF Prepare, At, WriteFails, Poisons, Types
    <2> QED
      BY <1>6, <2>1, <2>2 DEF Prepare, Types
  <1>7. CASE Clone
    <2>1. PICK c \in ClaimsOf(call.post) \ claims :
             \/ c[2] \in uploads /\ claims' = claims \cup {c} /\ (UNCHANGED <<call, life>> \/ Poisons)
             \/ UNCHANGED claims /\ Poisons
      BY <1>7 DEF Clone
    <2>2. c \in Claim
      BY DEF ClaimsOf
    <2> QED
      BY <1>7, <2>1, <2>2 DEF Clone, Poisons, Types
  <1>8. CASE PutBlock
    <2>1. call # NoCall /\ call.post \in Post
      BY <1>8, CallPost DEF PutBlock, At
    <2>2. block' \in [Post -> {"none", "stored", "synced"}]
      BY <1>8, <2>1 DEF PutBlock, Types
    <2>3. /\ call' \in {NoCall} \cup [post : Post, step : Step]
          /\ life' \in {"closed", "recovering", "open", "poisoned", "corrupt"}
      BY <1>8, <2>1, <1>b DEF PutBlock, Poisons, Types
    <2> QED
      BY <1>8, <2>2, <2>3 DEF PutBlock, Types
  <1>9. CASE GoLive
    <2>1. recorded' \in [Post -> SUBSET State]
      BY <1>9, <1>a DEF GoLive, At, State
    <2>2. call # NoCall /\ call.post \in Post
      BY <1>9, CallPost DEF GoLive, At
    <2> QED
      BY <1>9, <2>1, <2>2 DEF GoLive, Returns, WriteFails, Poisons, Types
  <1>10. CASE WriteDeleting
    <2>1. recorded' \in [Post -> SUBSET State]
      BY <1>10, <1>a DEF WriteDeleting, At, State
    <2>2. /\ call' \in {NoCall} \cup [post : Post, step : Step]
          /\ life' \in {"closed", "recovering", "open", "poisoned", "corrupt"}
      BY <1>10, <1>b DEF WriteDeleting, At, WriteFails, Poisons, Types
    <2> QED
      BY <1>10, <2>1, <2>2 DEF WriteDeleting, Types
  <1>11. CASE Release
    BY <1>11 DEF Release, Poisons, Types
  <1>12. CASE Settle
    <2> DEFINE s == IF Of(call.post) = "deleting" THEN "deleted" ELSE "aborted"
    <2>1. call # NoCall /\ call.post \in Post /\ s \in State
      BY <1>12, CallPost DEF Settle, At, State
    <2>2. \/ Writes(s) /\ Returns /\ said' = IF life = "open" THEN [said EXCEPT ![call.post] = s] ELSE said
          \/ WriteFails(s) /\ UNCHANGED said
      BY <1>12 DEF Settle
    <2>3. recorded' \in [Post -> SUBSET State]
      BY <2>1, <2>2, <1>a
    <2>4. life = "open" => s = "deleted"
      BY <1>12 DEF Settle, At, CallFollows
    <2> HIDE DEF s
    <2>5. said' \in [Post -> {"none", "live", "deleted"}]
      BY <2>1, <2>2, <2>4 DEF Types
    <2> QED
      BY <1>12, <2>2, <2>3, <2>5 DEF Settle, Returns, WriteFails, Poisons, Types
  <1>13. CASE Load
    BY <1>13 DEF Load, Types
  <1>14. CASE Opened
    BY <1>14 DEF Opened, Types
  <1>15. CASE Crash
    <2>1. recorded' \in [Post -> {{s} : s \in State}]
      BY <1>15 DEF Crash
    <2>2. recorded' \in [Post -> SUBSET State]
      BY <2>1
    <2>3. block' \in [Post -> {"none", "stored", "synced"}]
      BY <1>15 DEF Crash
    <2> QED
      BY <1>15, <2>2, <2>3 DEF Crash, Types
  <1>16. ASSUME NEW u \in Upload, ReleaseUpload(u) PROVE Types'
    BY <1>16 DEF ReleaseUpload, Types
  <1> QED
    BY <1>1, <1>2, <1>3, <1>4, <1>5, <1>6, <1>7, <1>8, <1>9, <1>10, <1>11, <1>12, <1>13,
       <1>14, <1>15, <1>16 DEF Next
LEMMA CertainStep ==
  ASSUME Types, Certain, CallFollows, Next
  PROVE  Certain'
  <1>a. ASSUME UNCHANGED recorded, life' = "poisoned" \/ life # "poisoned" PROVE Certain'
    BY <1>a DEF Certain
  <1>b. ASSUME NEW s \in State, call # NoCall, Writes(s), life # "poisoned" PROVE Certain'
    <2>1. \A q \in Post : \E x \in State : recorded'[q] = {x}
      BY <1>b, CallPost, WrittenOf DEF Certain
    <2> QED
      BY <2>1 DEF Certain
  <1>c. ASSUME NEW s \in State, call # NoCall, WriteFails(s) PROVE Certain'
    BY <1>c, FailedOf DEF Certain
  <1>d. ASSUME call # NoCall PROVE life # "poisoned"
    BY <1>d DEF CallFollows
  <1>1. ASSUME NEW p \in Post, Add(p) \/ AddAgain(p) \/ AnswerAgain(p) \/ Delete(p) \/ Recover(p)
        PROVE  Certain'
    BY <1>1, <1>a DEF Add, AddAgain, AnswerAgain, Delete, Recover, Poisons
  <1>2. CASE Prepare \/ GoLive \/ WriteDeleting
    BY <1>2, <1>b, <1>c, <1>d DEF Prepare, GoLive, WriteDeleting, At, State
  <1>3. CASE Clone \/ PutBlock \/ Release
    BY <1>3, <1>a, <1>d DEF Clone, PutBlock, Release, At
  <1>4. CASE Settle
    <2> DEFINE s == IF Of(call.post) = "deleting" THEN "deleted" ELSE "aborted"
    <2>1. s \in State /\ call # NoCall /\ (Writes(s) \/ WriteFails(s))
      BY <1>4 DEF Settle, At, State
    <2> QED
      BY <2>1, <1>b, <1>c, <1>d
  <1>5. CASE Load \/ Opened
    BY <1>5, <1>a DEF Load, Opened
  <1>6. CASE Crash
    <2>1. recorded' \in [Post -> {{s} : s \in State}]
      BY <1>6 DEF Crash
    <2>2. \A p \in Post : \E s \in State : recorded'[p] = {s}
      BY <2>1
    <2> QED
      BY <2>2 DEF Certain
  <1>7. ASSUME NEW u \in Upload, ReleaseUpload(u) PROVE Certain'
    BY <1>7, <1>a DEF ReleaseUpload, Certain
  <1> QED
    BY <1>1, <1>2, <1>3, <1>4, <1>5, <1>6, <1>7 DEF Next

-----------------------------------------------------------------------------
(* The steps of a call.                                                     *)

LEMMA CallStep ==
  ASSUME Types, Certain, CallFollows, Next
  PROVE  CallFollows'
  <1>a. ASSUME call' = NoCall PROVE CallFollows'
    BY <1>a DEF CallFollows
  <1>b. ASSUME UNCHANGED <<recorded, life, call, said>>,
               claims \subseteq claims' \/ (call # NoCall /\ call.step # "live"),
               block' = block \/ (call # NoCall /\ call.step # "live") PROVE CallFollows'
    <2>1. \A p : Of(p)' = Of(p)
      BY <1>b, SameOf
    <2>2. ClaimsOf(call.post)' = ClaimsOf(call.post)
      BY <1>b DEF ClaimsOf, Claim
    <2> QED
      BY <1>b, <2>1, <2>2 DEF CallFollows
  <1>c. ASSUME NEW p \in Post, NEW s \in {"prepare", "delete", "release"},
               call' = [post |-> p, step |-> s], UNCHANGED <<recorded, life>>,
               life = "open" \/ (life = "recovering" /\ s = "release"),
               s = "prepare" => Of(p) \in {"none", "aborted"},
               s = "delete" => Of(p) \in {"live", "aborted"} /\ said'[p] = "none",
               s = "release" => Of(p) \in {"preparing", "deleting"} /\ life = "recovering"
        PROVE  CallFollows'
    <2>1. Of(p)' = Of(p) /\ call'.post = p /\ call'.step = s
      BY <1>c, SameOf
    <2>2. Of(call.post)' = Of(p)
      BY <2>1
    <2> QED
      BY <1>c, <2>1, <2>2 DEF CallFollows
  <1>d. ASSUME NEW p \in Post, p = call.post, call # NoCall, NEW s \in {"clone", "live", "release"},
               Goes(s), Of(p)' \in {"preparing", "deleting"},
               life = "open",
               s \in {"clone", "live"} => Of(p)' = "preparing",
               s = "live" => ClaimsOf(p) \subseteq claims' /\ block'[p] = "synced",
               s = "release" => Of(p)' = "deleting"
        PROVE  CallFollows'
    <2>1. call'.post = p /\ call'.step = s /\ life' = life
      BY <1>d, CallPost DEF Goes
    <2>2. Of(call.post)' = Of(p)' /\ ClaimsOf(call.post)' = ClaimsOf(p)
      BY <2>1 DEF ClaimsOf, Claim
    <2> QED
      BY <1>d, <2>1, <2>2 DEF CallFollows
  <1>1. ASSUME NEW p \in Post, Add(p) PROVE CallFollows'
    <2>1. Of(p) = "none"
      BY <1>1, SingleOf DEF Add, Known
    <2> QED
      BY <1>1, <1>c, <2>1 DEF Add
  <1>2. ASSUME NEW p \in Post, AddAgain(p) PROVE CallFollows'
    BY <1>2, <1>a, <1>c DEF AddAgain, Poisons
  <1>3. ASSUME NEW p \in Post, AnswerAgain(p) PROVE CallFollows'
    BY <1>3, <1>a DEF AnswerAgain
  <1>4. ASSUME NEW p \in Post, Delete(p) PROVE CallFollows'
    BY <1>4, <1>a, <1>c DEF Delete, Poisons, Types
  <1>5. ASSUME NEW p \in Post, Recover(p) PROVE CallFollows'
    BY <1>5, <1>c DEF Recover
  <1>6. CASE Prepare
    <2>1. CASE WriteFails("preparing")
      BY <2>1, <1>a DEF WriteFails, Poisons
    <2>2. CASE Writes("preparing") /\ Goes("clone")
      BY <1>6, <2>2, <1>d, CallPost, WrittenOf DEF Prepare, At, CallFollows, State
    <2> QED
      BY <1>6, <2>1, <2>2 DEF Prepare
  <1>7. CASE Clone
    <2>1. CASE UNCHANGED <<call, life>> /\ claims \subseteq claims'
      BY <1>7, <2>1, <1>b DEF Clone
    <2>2. CASE Poisons
      BY <2>2, <1>a DEF Poisons
    <2> QED
      BY <1>7, <2>1, <2>2 DEF Clone
  <1>8. CASE PutBlock
    <2>1. CASE Poisons
      BY <2>1, <1>a DEF Poisons
    <2>2. CASE block' = [block EXCEPT ![call.post] = "synced"] /\ Goes("live")
      <3>1. call # NoCall /\ call.post \in Post /\ block'[call.post] = "synced"
        BY <1>8, <2>2, CallPost DEF PutBlock, At, Types
      <3>2. life = "open" /\ Of(call.post) = "preparing"
        BY <1>8 DEF PutBlock, At, CallFollows
      <3>3. PICK p \in Post : p = call.post
        BY <3>1
      <3>4. Of(p)' = "preparing"
        BY <1>8, <3>2, <3>3, SameOf DEF PutBlock
      <3>5. ClaimsOf(p) \subseteq claims' /\ block'[p] = "synced"
        BY <1>8, <3>1, <3>3 DEF PutBlock
      <3> QED
        BY <2>2, <3>1, <3>2, <3>3, <3>4, <3>5, <1>d
    <2> QED
      BY <1>8, <2>1, <2>2 DEF PutBlock
  <1>9. CASE GoLive
    BY <1>9, <1>a DEF GoLive, Returns, WriteFails, Poisons
  <1>10. CASE WriteDeleting
    <2>1. CASE WriteFails("deleting")
      BY <2>1, <1>a DEF WriteFails, Poisons
    <2>2. CASE Writes("deleting") /\ Goes("release")
      BY <1>10, <2>2, <1>d, CallPost, WrittenOf DEF WriteDeleting, At, CallFollows, State
    <2> QED
      BY <1>10, <2>1, <2>2 DEF WriteDeleting
  <1>11. CASE Release
    BY <1>11, <1>a, <1>b DEF Release, At, Poisons
  <1>12. CASE Settle
    BY <1>12, <1>a DEF Settle, Returns, WriteFails, Poisons
  <1>13. CASE Load
    BY <1>13, <1>a DEF Load, CallFollows
  <1>14. CASE Opened
    BY <1>14, <1>a DEF Opened
  <1>15. CASE Crash
    BY <1>15, <1>a DEF Crash
  <1>16. ASSUME NEW u \in Upload, ReleaseUpload(u) PROVE CallFollows'
    BY <1>16, <1>b DEF ReleaseUpload
  <1> QED
    BY <1>1, <1>2, <1>3, <1>4, <1>5, <1>6, <1>7, <1>8, <1>9, <1>10, <1>11, <1>12, <1>13,
       <1>14, <1>15, <1>16 DEF Next
LEMMA MiddleStep ==
  ASSUME Types, Certain, CallFollows, Middle, Next
  PROVE  Middle'
  <1>a. ASSUME life' # "open" PROVE Middle'
    BY <1>a DEF Middle
  <1>b. ASSUME UNCHANGED <<recorded, life>>,
               call # NoCall => call' # NoCall /\ call'.post = call.post PROVE Middle'
    <2>1. \A q : Of(q)' = Of(q)
      BY <1>b, SameOf
    <2> QED
      BY <1>b, <2>1 DEF Middle
  <1>c. ASSUME NEW s \in State, call # NoCall, life = "open", Writes(s),
               \/ s \notin {"preparing", "deleting"}
               \/ call' # NoCall /\ call'.post = call.post
        PROVE  Middle'
    BY <1>c, CallPost, WrittenOf DEF Middle
  <1>d. ASSUME NEW s \in Step, call # NoCall, Goes(s)
        PROVE  call' # NoCall /\ call'.post = call.post /\ UNCHANGED life
    BY <1>d, CallPost, RichPostAssumption DEF Goes
  <1>1. ASSUME NEW p \in Post, Add(p) \/ AddAgain(p) \/ AnswerAgain(p) \/ Delete(p) \/ Recover(p)
        PROVE  Middle'
    <2>1. life' # "open" \/ (UNCHANGED <<recorded, life>> /\ call = NoCall)
      BY <1>1 DEF Add, AddAgain, AnswerAgain, Delete, Recover, Poisons
    <2> QED
      BY <1>a, <1>b, <2>1
  <1>2. CASE Prepare
    <2>1. CASE WriteFails("preparing")
      BY <2>1, <1>a DEF WriteFails, Poisons
    <2>2. CASE Writes("preparing") /\ Goes("clone")
      BY <1>2, <2>2, <1>c, <1>d DEF Prepare, At, CallFollows, State, Step
    <2> QED
      BY <1>2, <2>1, <2>2 DEF Prepare
  <1>3. CASE Clone \/ Release
    <2>1. life' # "open" \/ UNCHANGED <<recorded, life, call>>
      BY <1>3 DEF Clone, Release, Poisons
    <2> QED
      BY <1>a, <1>b, <2>1
  <1>4. CASE PutBlock
    <2>1. life' # "open" \/ (UNCHANGED recorded /\ Goes("live") /\ call # NoCall)
      BY <1>4 DEF PutBlock, Poisons, At
    <2> QED
      BY <1>a, <1>b, <1>d, <2>1 DEF Step
  <1>5. CASE GoLive
    <2>1. CASE WriteFails("live")
      BY <2>1, <1>a DEF WriteFails, Poisons
    <2>2. CASE Writes("live")
      BY <1>5, <2>2, <1>c DEF GoLive, At, CallFollows, State
    <2> QED
      BY <1>5, <2>1, <2>2 DEF GoLive
  <1>6. CASE WriteDeleting
    <2>1. CASE WriteFails("deleting")
      BY <2>1, <1>a DEF WriteFails, Poisons
    <2>2. CASE Writes("deleting") /\ Goes("release")
      BY <1>6, <2>2, <1>c, <1>d DEF WriteDeleting, At, CallFollows, State, Step
    <2> QED
      BY <1>6, <2>1, <2>2 DEF WriteDeleting
  <1>7. CASE Settle
    <2> DEFINE s == IF Of(call.post) = "deleting" THEN "deleted" ELSE "aborted"
    <2>1. call # NoCall /\ s \in State /\ s \notin {"preparing", "deleting"}
      BY <1>7 DEF Settle, At, State
    <2>2. (Writes(s) /\ Returns) \/ WriteFails(s)
      BY <1>7 DEF Settle
    <2> HIDE DEF s
    <2>3. CASE life' = "open"
      BY <2>1, <2>2, <2>3, <1>c DEF Returns, WriteFails, Poisons
    <2> QED
      BY <2>3, <1>a
  <1>8. CASE Load \/ Crash
    BY <1>8, <1>a DEF Load, Crash
  <1>9. CASE Opened
    <2>1. \A q : Of(q)' = Of(q)
      BY <1>9, SameOf DEF Opened
    <2> QED
      BY <1>9, <2>1 DEF Opened, Middle
  <1>10. ASSUME NEW u \in Upload, ReleaseUpload(u) PROVE Middle'
    BY <1>10, <1>b DEF ReleaseUpload
  <1> QED
    BY <1>1, <1>2, <1>3, <1>4, <1>5, <1>6, <1>7, <1>8, <1>9, <1>10 DEF Next

-----------------------------------------------------------------------------
(* The claims and the answers.                                              *)

LEMMA ClaimOfOne ==
  ASSUME NEW p, NEW q, p # q
  PROVE  ClaimsOf(p) \cap ClaimsOf(q) = {}
  BY DEF ClaimsOf

LEMMA ClaimsStep ==
  ASSUME Types, Certain, CallFollows, ClaimsMatchPosts, Next
  PROVE  ClaimsMatchPosts'
  <1> DEFINE Match(p) ==
        /\ "live" \in recorded[p] => ClaimsOf(p) \subseteq claims /\ block[p] = "synced"
        /\ recorded[p] \cap {"none", "aborted", "deleted"} # {} => ClaimsOf(p) \cap claims = {}
  <1>a. ASSUME NEW q \in Post, recorded'[q] \subseteq recorded[q],
               block[q] = "synced" => block'[q] = "synced",
               ClaimsOf(q) \cap claims' = ClaimsOf(q) \cap claims
        PROVE  Match(q)'
    <2>1. Match(q)
      BY DEF ClaimsMatchPosts
    <2>2. ClaimsOf(q)' = ClaimsOf(q)
      BY DEF ClaimsOf, Claim
    <2> HIDE DEF ClaimsOf
    <2>3. ASSUME "live" \in recorded'[q] PROVE ClaimsOf(q) \subseteq claims' /\ block'[q] = "synced"
      BY <1>a, <2>1, <2>3
    <2>4. ASSUME recorded'[q] \cap {"none", "aborted", "deleted"} # {}
          PROVE  ClaimsOf(q) \cap claims' = {}
      BY <1>a, <2>1, <2>4
    <2> QED
      BY <2>2, <2>3, <2>4
  <1>b. ASSUME \A q \in Post : recorded'[q] \subseteq recorded[q],
               \A q \in Post : block[q] = "synced" => block'[q] = "synced",
               UNCHANGED claims PROVE ClaimsMatchPosts'
    <2>1. \A q \in Post : Match(q)'
      BY <1>a, <1>b
    <2> QED
      BY <2>1 DEF ClaimsMatchPosts
  <1>c. ASSUME NEW s \in State, call # NoCall, Writes(s) \/ WriteFails(s), UNCHANGED <<claims, block>>,
               s = "live" => ClaimsOf(call.post) \subseteq claims /\ block[call.post] = "synced",
               s \in {"none", "aborted", "deleted"} => ClaimsOf(call.post) \cap claims = {}
        PROVE  ClaimsMatchPosts'
    <2>1. PICK p \in Post : p = call.post
      BY <1>c, CallPost
    <2>2. \A q \in Post : q # p => recorded'[q] = recorded[q]
      BY <1>c, <2>1, FailedOf, WrittenOf
    <2>3. recorded'[p] \subseteq recorded[p] \cup {s}
      BY <1>c, <2>1, FailedOf, WrittenOf
    <2>4. Match(p)
      BY DEF ClaimsMatchPosts
    <2>5. ClaimsOf(p)' = ClaimsOf(p)
      BY DEF ClaimsOf, Claim
    <2>6. Match(p)'
      BY <1>c, <2>1, <2>3, <2>4, <2>5
    <2>7. \A q \in Post : q # p => Match(q)'
      BY <1>a, <1>c, <2>2
    <2> QED
      BY <2>6, <2>7 DEF ClaimsMatchPosts
  <1>d. ASSUME call # NoCall, recorded[call.post] \cap {"live", "none", "aborted", "deleted"} = {},
               UNCHANGED <<recorded, block>>, NEW c \in ClaimsOf(call.post),
               claims' \in {claims, claims \cup {c}, claims \ {c}}
        PROVE  ClaimsMatchPosts'
    <2>1. PICK p \in Post : p = call.post
      BY <1>d, CallPost
    <2>2. Match(p)'
      BY <1>d, <2>1
    <2>3. ASSUME NEW q \in Post, q # p PROVE Match(q)'
      <3>1. c \notin ClaimsOf(q)
        BY <1>d, <2>1, <2>3, ClaimOfOne
      <3>2. ClaimsOf(q) \cap claims' = ClaimsOf(q) \cap claims
        BY <1>d, <3>1
      <3> QED
        BY <1>a, <1>d, <3>2
    <2> QED
      BY <2>2, <2>3 DEF ClaimsMatchPosts
  <1>e. ASSUME call # NoCall
        PROVE  call.post \in Post /\ recorded[call.post] = {Of(call.post)}
    BY <1>e, CallPost, OfRecorded DEF CallFollows
  <1>1. ASSUME NEW p \in Post, Add(p) \/ AddAgain(p) \/ AnswerAgain(p) \/ Delete(p) \/ Recover(p)
        PROVE  ClaimsMatchPosts'
    BY <1>1, <1>b DEF Add, AddAgain, AnswerAgain, Delete, Recover
  <1>2. CASE Prepare
    BY <1>2, <1>c DEF Prepare, At, State
  <1>3. CASE Clone
    <2>1. PICK c \in ClaimsOf(call.post) \ claims : claims' \in {claims, claims \cup {c}}
      BY <1>3 DEF Clone
    <2>2. call # NoCall /\ Of(call.post) = "preparing"
      BY <1>3 DEF Clone, At, CallFollows
    <2> QED
      BY <1>3, <1>d, <1>e, <2>1, <2>2 DEF Clone
  <1>4. CASE PutBlock
    <2>1. \A q \in Post : block[q] = "synced" => block'[q] = "synced"
      BY <1>4 DEF PutBlock, Types
    <2> QED
      BY <1>4, <1>b, <2>1 DEF PutBlock
  <1>5. CASE GoLive
    BY <1>5, <1>c DEF GoLive, At, CallFollows, State
  <1>6. CASE WriteDeleting
    BY <1>6, <1>c DEF WriteDeleting, At, State
  <1>7. CASE Release
    <2>1. PICK c \in ClaimsOf(call.post) \cap claims : claims' \in {claims, claims \ {c}}
      BY <1>7 DEF Release
    <2>2. call # NoCall /\ Of(call.post) \in {"preparing", "deleting"}
      BY <1>7 DEF Release, At, CallFollows
    <2> QED
      BY <1>7, <1>d, <1>e, <2>1, <2>2 DEF Release
  <1>8. CASE Settle
    <2> DEFINE s == IF Of(call.post) = "deleting" THEN "deleted" ELSE "aborted"
    <2>1. call # NoCall /\ s \in State /\ s # "live"
      BY <1>8 DEF Settle, At, State
    <2>2. /\ Writes(s) \/ WriteFails(s)
          /\ ClaimsOf(call.post) \cap claims = {}
          /\ UNCHANGED <<claims, block>>
      BY <1>8 DEF Settle
    <2> HIDE DEF s
    <2> QED
      BY <2>1, <2>2, <1>c
  <1>9. CASE Load
    BY <1>9, <1>b DEF Load
  <1>10. CASE Opened
    <2>1. \A q \in Post : block[q] = "synced" => block'[q] = "synced"
      BY <1>10 DEF Opened
    <2> QED
      BY <1>10, <1>b, <2>1 DEF Opened
  <1>11. CASE Crash
    BY <1>11, <1>b DEF Crash
  <1>12. ASSUME NEW u \in Upload, ReleaseUpload(u) PROVE ClaimsMatchPosts'
    BY <1>12, <1>b DEF ReleaseUpload
  <1> QED
    BY <1>1, <1>2, <1>3, <1>4, <1>5, <1>6, <1>7, <1>8, <1>9, <1>10, <1>11, <1>12 DEF Next

LEMMA AnswersStep ==
  ASSUME Types, Certain, CallFollows, AnswersSurvive, Next
  PROVE  AnswersSurvive'
  <1>a. ASSUME \A q \in Post : said'[q] # "none" => said[q] = said'[q] /\ recorded'[q] = recorded[q]
        PROVE  AnswersSurvive'
    BY <1>a DEF AnswersSurvive
  <1>b. ASSUME call # NoCall, Of(call.post) \notin {"live", "deleted"} \/ said[call.post] = "none"
        PROVE  call.post \in Post /\ said[call.post] = "none"
    <2>1. call.post \in Post /\ recorded[call.post] = {Of(call.post)}
      BY <1>b, CallPost, OfRecorded DEF CallFollows
    <2> QED
      BY <1>b, <2>1 DEF AnswersSurvive, Types
  <1>c. ASSUME NEW s \in State, call # NoCall, Of(call.post) \notin {"live", "deleted"} \/ said[call.post] = "none",
               \/ UNCHANGED said /\ (Writes(s) \/ WriteFails(s))
               \/ said' = [said EXCEPT ![call.post] = s] /\ Writes(s)
        PROVE  AnswersSurvive'
    <2>1. PICK p \in Post : p = call.post /\ said[p] = "none"
      BY <1>b, <1>c
    <2>2. \A q \in Post : q # p => recorded'[q] = recorded[q] /\ said'[q] = said[q]
      BY <1>c, <2>1, FailedOf, WrittenOf DEF Types
    <2>3. CASE UNCHANGED said
      BY <1>a, <2>1, <2>2, <2>3
    <2>4. CASE said' = [said EXCEPT ![call.post] = s] /\ Writes(s)
      <3>1. recorded'[p] = {s} /\ said'[p] = s
        BY <1>c, <2>1, <2>4, WrittenOf DEF Types
      <3> QED
        BY <2>2, <3>1 DEF AnswersSurvive
    <2> QED
      BY <1>c, <2>3, <2>4
  <1>1. ASSUME NEW p \in Post, Add(p) \/ AddAgain(p) \/ Recover(p)
        PROVE  AnswersSurvive'
    BY <1>1, <1>a DEF Add, AddAgain, Recover
  <1>2. ASSUME NEW p \in Post, AnswerAgain(p) PROVE AnswersSurvive'
    <2>1. recorded[p] = {Of(p)} /\ recorded' = recorded
      BY <1>2, OfRecorded DEF AnswerAgain
    <2>2. said' = [said EXCEPT ![p] = Of(p)]
      BY <1>2 DEF AnswerAgain
    <2> QED
      BY <2>1, <2>2 DEF AnswersSurvive, Types
  <1>3. ASSUME NEW p \in Post, Delete(p) PROVE AnswersSurvive'
    BY <1>3, <1>a DEF Delete, Types
  <1>4. CASE Prepare
    BY <1>4, <1>c DEF Prepare, At, CallFollows, State
  <1>5. CASE GoLive
    BY <1>5, <1>c DEF GoLive, At, CallFollows, State
  <1>6. CASE WriteDeleting
    BY <1>6, <1>c DEF WriteDeleting, At, CallFollows, State
  <1>7. CASE Settle
    <2> DEFINE s == IF Of(call.post) = "deleting" THEN "deleted" ELSE "aborted"
    <2>1. call # NoCall /\ s \in State /\ Of(call.post) \in {"preparing", "deleting"}
      BY <1>7 DEF Settle, At, State, CallFollows
    <2>2. \/ UNCHANGED said /\ (Writes(s) \/ WriteFails(s))
          \/ said' = [said EXCEPT ![call.post] = s] /\ Writes(s)
      BY <1>7 DEF Settle
    <2> HIDE DEF s
    <2> QED
      BY <2>1, <2>2, <1>c
  <1>8. CASE Clone \/ PutBlock \/ Release \/ Load \/ Opened
    BY <1>8, <1>a DEF Clone, PutBlock, Release, Load, Opened
  <1>9. CASE Crash
    <2>1. \A q \in Post : recorded'[q] \subseteq recorded[q]
      BY <1>9 DEF Crash
    <2>2. recorded' \in [Post -> {{s} : s \in State}] /\ UNCHANGED said
      BY <1>9 DEF Crash
    <2>3. \A q \in Post : \E s \in State : recorded'[q] = {s}
      BY <2>2
    <2> QED
      BY <2>1, <2>2, <2>3 DEF AnswersSurvive
  <1>10. ASSUME NEW u \in Upload, ReleaseUpload(u) PROVE AnswersSurvive'
    BY <1>10, <1>a DEF ReleaseUpload
  <1> QED
    BY <1>1, <1>2, <1>3, <1>4, <1>5, <1>6, <1>7, <1>8, <1>9, <1>10 DEF Next
-----------------------------------------------------------------------------
(* The limits of the journal.                                               *)

LEMMA RestState == ASSUME NEW s \in State PROVE Rest(s) \in State
  BY DEF Rest, State

LEMMA BytesNat == ASSUME NEW r \in [Post -> State] PROVE BytesOf(r) \in Nat
  BY SumNat, RichPostAssumption DEF BytesOf

LEMMA BytesReplace ==
  ASSUME NEW r \in [Post -> State], NEW p \in Post, NEW s \in State
  PROVE  BytesOf([r EXCEPT ![p] = s]) = BytesOf(r) - Size[r[p]] + Size[s]
  <1> DEFINE f == [q \in Post |-> Size[r[q]]]
             g == [q \in Post |-> Size[[r EXCEPT ![p] = s][q]]]
  <1>1. \A q \in Post : f[q] \in Nat /\ g[q] \in Nat
    BY RichPostAssumption
  <1>2. \A q \in Post \ {p} : f[q] = g[q]
    OBVIOUS
  <1>3. f[p] = Size[r[p]] /\ g[p] = Size[s]
    OBVIOUS
  <1> HIDE DEF f, g
  <1>4. SumOver(g, Post) = SumOver(f, Post) - f[p] + g[p]
    BY <1>1, <1>2, SumReplace, RichPostAssumption
  <1> QED
    BY <1>3, <1>4 DEF BytesOf, f, g

LEMMA RestReplace ==
  ASSUME NEW r \in [Post -> State], NEW p \in Post, NEW s \in State
  PROVE  /\ RestOf(r) \in [Post -> State]
         /\ RestOf([r EXCEPT ![p] = s]) = [RestOf(r) EXCEPT ![p] = Rest(s)]
  BY RestState DEF RestOf

(* The journal in memory.                                                   *)
Current == [p \in Post |-> Of(p)]

LEMMA CurrentLeft ==
  ASSUME Types, Certain
  PROVE  /\ Current \in [Post -> State] /\ Current \in Left
         /\ Bytes = BytesOf(Current)
         /\ life # "poisoned" => Left = {Current}
  <1>1. Current \in [Post -> State] /\ Current \in Left
    BY OfRecorded DEF Current, Left
  <1>2. Bytes = BytesOf(Current)
    <2>1. [p \in Post |-> Size[Of(p)]] = [p \in Post |-> Size[Current[p]]]
      BY DEF Current
    <2> QED
      BY <2>1 DEF Bytes, BytesOf
  <1>3. ASSUME life # "poisoned", NEW r \in Left PROVE r = Current
    <2>1. \A p \in Post : r[p] = Of(p)
      BY <1>3, OfRecorded DEF Left
    <2>2. r \in [Post -> State]
      BY DEF Left
    <2> QED
      BY <2>1, <2>2 DEF Current
  <1> QED
    BY <1>1, <1>2, <1>3

LEMMA KnownOf ==
  ASSUME Types, Certain, life # "poisoned", NEW p \in Post
  PROVE  Known(p) <=> Of(p) # "none"
  BY OfRecorded DEF Known

LEMMA KnownCurrent ==
  ASSUME Types, Certain, life # "poisoned"
  PROVE  KnownIn(Current) = {q \in Post : Known(q)}
  BY KnownOf DEF KnownIn, Current

(* Of posts that are settled, recovery changes nothing.                     *)
LEMMA RestSettled ==
  ASSUME Types, Certain, \A q \in Post : Of(q) \notin {"preparing", "deleting"}
  PROVE  RestOf(Current) = Current
  BY DEF RestOf, Current, Rest

(* One write, into a journal that is sound, leaves a sound one.             *)
LEMMA SoundWrite ==
  ASSUME Types, Certain, life # "poisoned", Sound(Current),
         NEW p \in Post, NEW s \in State, Fits(p, s),
         \/ Of(p) # "none" /\ Size[Rest(s)] <= Size[Rest(Of(p))]
         \/ /\ s = "preparing"
            /\ Of(p) = "none"
            /\ \A q \in Post : Of(q) \notin {"preparing", "deleting"}
  PROVE  Sound([Current EXCEPT ![p] = s])
  <1> DEFINE c == Current
             r == [Current EXCEPT ![p] = s]
             Slack == Size["preparing"] - Size["aborted"]
  <1>1. c \in [Post -> State] /\ Bytes = BytesOf(c) /\ c[p] = Of(p) /\ Of(p) \in State
    BY CurrentLeft, OfRecorded DEF Current
  <1>2. /\ MaxBytes \in Nat /\ MaxRecords \in Nat /\ IsFiniteSet(Post)
        /\ \A x \in State : Size[x] \in Nat
        /\ Size["preparing"] \in Nat /\ Size["aborted"] \in Nat
    BY RichPostAssumption DEF State
  <1>3. r \in [Post -> State]
    BY <1>1
  <1>4. Cardinality(KnownIn(r)) <= MaxRecords
    <2>1. IsFiniteSet(KnownIn(c)) /\ Cardinality(KnownIn(c)) \in Nat
      BY <1>2, FS_Subset, FS_CardinalityType DEF KnownIn
    <2>2. Cardinality(KnownIn(c)) <= MaxRecords
      BY DEF Sound
    <2>3. CASE Known(p)
      <3>1. p \in KnownIn(c)
        BY <1>1, <2>3, KnownOf DEF KnownIn
      <3>2. KnownIn(r) \subseteq KnownIn(c)
        BY <1>1, <3>1 DEF KnownIn
      <3>3. Cardinality(KnownIn(r)) <= Cardinality(KnownIn(c))
        BY <2>1, <3>2, FS_Subset
      <3>4. Cardinality(KnownIn(r)) \in Nat
        BY <2>1, <3>2, FS_Subset, FS_CardinalityType
      <3> QED
        BY <1>2, <2>1, <2>2, <3>3, <3>4
    <2>4. CASE ~Known(p)
      <3>1. Cardinality(KnownIn(c)) < MaxRecords
        BY <2>4, KnownCurrent DEF Fits
      <3>2. KnownIn(r) \subseteq KnownIn(c) \cup {p}
        BY <1>1 DEF KnownIn
      <3>3. /\ IsFiniteSet(KnownIn(c) \cup {p})
            /\ Cardinality(KnownIn(c) \cup {p}) <= Cardinality(KnownIn(c)) + 1
            /\ Cardinality(KnownIn(c) \cup {p}) \in Nat
        <4>1. /\ IsFiniteSet(KnownIn(c) \cup {p})
              /\ \/ Cardinality(KnownIn(c) \cup {p}) = Cardinality(KnownIn(c)) + 1
                 \/ Cardinality(KnownIn(c) \cup {p}) = Cardinality(KnownIn(c))
          BY <2>1, FS_AddElement
        <4> QED
          BY <2>1, <4>1
      <3>4. /\ Cardinality(KnownIn(r)) <= Cardinality(KnownIn(c) \cup {p})
            /\ Cardinality(KnownIn(r)) \in Nat
        BY <3>2, <3>3, FS_Subset, FS_CardinalityType
      <3> QED
        BY <1>2, <2>1, <3>1, <3>3, <3>4
    <2> QED
      BY <2>3, <2>4
  <1>5. BytesOf(r) <= MaxBytes
    <2>1. BytesOf(r) = BytesOf(c) - Size[Of(p)] + Size[s]
      BY <1>1, BytesReplace
    <2> QED
      BY <1>1, <2>1 DEF Fits
  <1>6. BytesOf(RestOf(r)) - Size["aborted"] + Size["preparing"] <= MaxBytes
    <2>1. BytesOf(RestOf(r)) = BytesOf(RestOf(c)) - Size[Rest(Of(p))] + Size[Rest(s)]
      <3>1. RestOf(c) \in [Post -> State] /\ RestOf(r) = [RestOf(c) EXCEPT ![p] = Rest(s)]
        BY <1>1, RestReplace
      <3>2. RestOf(c)[p] = Rest(Of(p))
        BY <1>1 DEF RestOf
      <3> DEFINE rest == RestOf(c)
      <3>3. rest \in [Post -> State] /\ Rest(s) \in State
        BY <3>1, RestState
      <3> HIDE DEF rest
      <3>4. BytesOf([rest EXCEPT ![p] = Rest(s)]) = BytesOf(rest) - Size[rest[p]] + Size[Rest(s)]
        BY <3>3, BytesReplace
      <3> QED
        BY <3>1, <3>2, <3>4 DEF rest
    <2>2. /\ BytesOf(c) \in Nat /\ BytesOf(RestOf(c)) \in Nat
          /\ Size[Rest(s)] \in Nat /\ Size[Rest(Of(p))] \in Nat /\ Size[Of(p)] \in Nat
      BY <1>1, <1>2, RestState, RestReplace, BytesNat
    <2>3. CASE Of(p) # "none" /\ Size[Rest(s)] <= Size[Rest(Of(p))]
      <3>1. BytesOf(RestOf(c)) - Size["aborted"] + Size["preparing"] <= MaxBytes
        <4>1. p \in KnownIn(c)
          BY <1>1, <2>3 DEF KnownIn
        <4> QED
          BY <4>1 DEF Sound
      <3> QED
        BY <1>2, <2>1, <2>2, <2>3, <3>1
    <2>4. CASE /\ s = "preparing"
               /\ Of(p) = "none"
               /\ \A q \in Post : Of(q) \notin {"preparing", "deleting"}
      <3>1. RestOf(c) = c
        BY <2>4, RestSettled
      <3>2. Rest(s) = "aborted" /\ Rest(Of(p)) = "none"
        BY <2>4 DEF Rest
      <3>3. BytesOf(c) - Size["none"] + Size["preparing"] <= MaxBytes
        BY <1>1, <2>4 DEF Fits
      <3>4. Size["none"] = 0
        BY RichPostAssumption
      <3> QED
        BY <1>2, <2>1, <2>2, <3>1, <3>2, <3>3, <3>4
    <2> QED
      BY <2>3, <2>4
  <1> QED
    BY <1>4, <1>5, <1>6 DEF Sound
(* Of a write that may have failed, every outcome is sound.                 *)
LEMMA LeftWrite ==
  ASSUME Types, Certain, LeftSound, life # "poisoned", call # NoCall,
         NEW s \in State, Writes(s) \/ WriteFails(s),
         \/ /\ Of(call.post) # "none"
            /\ Size[Rest(s)] <= Size[Rest(Of(call.post))]
         \/ /\ s = "preparing"
            /\ Of(call.post) = "none"
            /\ \A q \in Post : Of(q) \notin {"preparing", "deleting"}
  PROVE  LeftSound'
  <1>1. PICK p \in Post : p = call.post
    BY CallPost
  <1>2. Current \in [Post -> State] /\ Left = {Current} /\ Sound(Current)
    BY CurrentLeft DEF LeftSound
  <1>3. ASSUME UNCHANGED recorded PROVE LeftSound'
    <2>1. Left' = Left
      BY <1>3 DEF Left
    <2> QED
      BY <2>1 DEF LeftSound, Sound
  <1>4. ASSUME Fits(p, s), recorded' \in {[recorded EXCEPT ![p] = {s}], [recorded EXCEPT ![p] = @ \cup {s}]}
        PROVE  LeftSound'
    <2>1. Sound([Current EXCEPT ![p] = s])
      BY <1>1, <1>2, <1>4, SoundWrite
    <2>2. ASSUME NEW r \in [Post -> State], \A q \in Post : r[q] \in recorded'[q]
          PROVE  Sound(r)
      <3>1. \A q \in Post : recorded[q] = {Of(q)} /\ Current[q] = Of(q)
        BY OfRecorded DEF Current
      <3>2. \A q \in Post : q # p => r[q] = Current[q]
        BY <1>4, <2>2, <3>1 DEF Types
      <3>3. r[p] \in {Current[p], s}
        BY <1>4, <2>2, <3>1 DEF Types
      <3>4. CASE r[p] = Current[p]
        <4>1. r = Current
          BY <1>2, <3>2, <3>4
        <4> QED
          BY <1>2, <4>1
      <3>5. CASE r[p] = s
        <4>1. r = [Current EXCEPT ![p] = s]
          BY <1>2, <3>2, <3>5
        <4> QED
          BY <2>1, <4>1
      <3> QED
        BY <3>3, <3>4, <3>5
    <2> QED
      BY <2>2 DEF LeftSound, Left, Sound
  <1> QED
    BY <1>1, <1>3, <1>4 DEF Writes, WriteFails

LEMMA LeftStep ==
  ASSUME Types, Certain, CallFollows, Middle, LeftSound, Next
  PROVE  LeftSound'
  <1>a. ASSUME \A q \in Post : recorded'[q] \subseteq recorded[q] PROVE LeftSound'
    <2>1. Left' \subseteq Left
      BY <1>a DEF Left
    <2> QED
      BY <2>1 DEF LeftSound, Sound
  <1>b. ASSUME call # NoCall
        PROVE  call.post \in Post /\ life # "poisoned"
    BY <1>b, CallPost DEF CallFollows
  <1>c. /\ Size["none"] = 0 /\ \A s \in State : Size[s] \in Nat
        /\ Size["deleted"] < Size["live"] /\ Size["live"] < Size["aborted"]
    BY RichPostAssumption
  <1>1. ASSUME NEW p \in Post, Add(p) \/ AddAgain(p) \/ AnswerAgain(p) \/ Delete(p) \/ Recover(p)
        PROVE  LeftSound'
    BY <1>1, <1>a DEF Add, AddAgain, AnswerAgain, Delete, Recover
  <1>2. CASE Prepare
    <2>1. call # NoCall /\ life = "open" /\ Of(call.post) \in {"none", "aborted"}
      BY <1>2 DEF Prepare, At, CallFollows
    <2>2. CASE Of(call.post) = "none"
      <3>1. \A q \in Post : Of(q) \notin {"preparing", "deleting"}
        BY <2>1, <2>2 DEF Middle
      <3> QED
        BY <1>2, <2>1, <2>2, <3>1, LeftWrite DEF Prepare, State
    <2>3. CASE Of(call.post) = "aborted"
      <3>1. Size[Rest("preparing")] <= Size[Rest("aborted")]
        BY <1>c DEF Rest, State
      <3> QED
        BY <1>2, <2>1, <2>3, <3>1, LeftWrite DEF Prepare, State
    <2> QED
      BY <2>1, <2>2, <2>3
  <1>3. CASE GoLive
    <2>1. call # NoCall /\ Of(call.post) = "preparing"
      BY <1>3 DEF GoLive, At, CallFollows
    <2>2. Size[Rest("live")] <= Size[Rest("preparing")]
      BY <1>c DEF Rest, State
    <2> QED
      BY <1>3, <1>b, <2>1, <2>2, LeftWrite DEF GoLive, State
  <1>4. CASE WriteDeleting
    <2>1. call # NoCall /\ Of(call.post) \in {"live", "aborted"}
      BY <1>4 DEF WriteDeleting, At, CallFollows
    <2>2. Size[Rest("deleting")] <= Size[Rest(Of(call.post))]
      BY <1>c, <2>1 DEF Rest, State
    <2> QED
      BY <1>4, <1>b, <2>1, <2>2, LeftWrite DEF WriteDeleting, State
  <1>5. CASE Settle
    <2> DEFINE s == IF Of(call.post) = "deleting" THEN "deleted" ELSE "aborted"
    <2>1. call # NoCall /\ s \in State /\ Of(call.post) \in {"preparing", "deleting"}
      BY <1>5 DEF Settle, At, State, CallFollows
    <2>2. Writes(s) \/ WriteFails(s)
      BY <1>5 DEF Settle
    <2>3. Size[Rest(s)] <= Size[Rest(Of(call.post))]
      BY <1>c, <2>1 DEF Rest, State
    <2> HIDE DEF s
    <2> QED
      BY <1>b, <2>1, <2>2, <2>3, LeftWrite
  <1>6. CASE Clone \/ PutBlock \/ Release \/ Load \/ Opened
    BY <1>6, <1>a DEF Clone, PutBlock, Release, Load, Opened
  <1>7. CASE Crash
    BY <1>7, <1>a DEF Crash
  <1>8. ASSUME NEW u \in Upload, ReleaseUpload(u) PROVE LeftSound'
    BY <1>8, <1>a DEF ReleaseUpload
  <1> QED
    BY <1>1, <1>2, <1>3, <1>4, <1>5, <1>6, <1>7, <1>8 DEF Next

(* A post that was rolled back can be made again.                           *)
LEMMA ResumeHasRoom ==
  ASSUME Types, Certain, Middle, LeftSound, life = "open", call = NoCall,
         NEW p \in Post, Of(p) = "aborted"
  PROVE  Fits(p, "preparing")
  <1>1. Known(p)
    BY KnownOf
  <1>2. /\ Sound(Current) /\ Bytes = BytesOf(Current)
        /\ Current \in [Post -> State] /\ Current[p] = "aborted"
    BY CurrentLeft DEF LeftSound, Current
  <1>3. RestOf(Current) = Current
    BY RestSettled DEF Middle
  <1>4. p \in KnownIn(Current)
    BY <1>2 DEF KnownIn
  <1>5. BytesOf(Current) - Size["aborted"] + Size["preparing"] <= MaxBytes
    BY <1>2, <1>3, <1>4 DEF Sound
  <1> QED
    BY <1>1, <1>2, <1>5 DEF Fits

LEMMA PrepareStep ==
  ASSUME Types, Certain, Middle, LeftSound, PrepareFits, Next
  PROVE  PrepareFits'
  <1>a. ASSUME UNCHANGED recorded, NEW p, Fits(p, "preparing") PROVE Fits(p, "preparing")'
    BY <1>a DEF Fits, Known, Bytes, Of
  <1>b. ASSUME UNCHANGED recorded, call' = NoCall \/ call' = call PROVE PrepareFits'
    <2>1. CASE call' = NoCall
      BY <2>1 DEF PrepareFits, At
    <2>2. CASE call' = call /\ At("prepare")
      <3>1. Fits(call.post, "preparing")
        BY <2>2 DEF PrepareFits
      <3>2. PICK p : p = call.post
        OBVIOUS
      <3>3. Fits(p, "preparing")'
        BY <1>a, <1>b, <3>1, <3>2
      <3> QED
        BY <2>2, <3>2, <3>3 DEF PrepareFits
    <2> QED
      BY <1>b, <2>1, <2>2 DEF PrepareFits, At
  <1>c. ASSUME call' # NoCall => call'.step # "prepare" PROVE PrepareFits'
    BY <1>c DEF PrepareFits, At
  <1>d. ASSUME UNCHANGED recorded, NEW p \in Post, Fits(p, "preparing"), call' = [post |-> p, step |-> "prepare"]
        PROVE  PrepareFits'
    <2>1. Fits(p, "preparing")' /\ call'.post = p
      BY <1>a, <1>d
    <2> QED
      BY <2>1 DEF PrepareFits
  <1>e. ASSUME NEW s \in Step, s # "prepare", call # NoCall, Goes(s) PROVE PrepareFits'
    <2>1. call'.step = s
      BY <1>e, CallPost DEF Goes
    <2> QED
      BY <1>c, <1>e, <2>1
  <1>1. ASSUME NEW p \in Post, Add(p) PROVE PrepareFits'
    BY <1>1, <1>d DEF Add
  <1>2. ASSUME NEW p \in Post, AddAgain(p) PROVE PrepareFits'
    <2>1. CASE Of(p) = "aborted" /\ claims \cap ClaimsOf(p) = {}
      BY <1>2, <2>1, <1>d, ResumeHasRoom DEF AddAgain
    <2>2. CASE Poisons
      BY <2>2, <1>c DEF Poisons
    <2> QED
      BY <1>2, <2>1, <2>2 DEF AddAgain
  <1>3. ASSUME NEW p \in Post, AnswerAgain(p) \/ Delete(p) \/ Recover(p) PROVE PrepareFits'
    BY <1>3, <1>b, <1>c DEF AnswerAgain, Delete, Recover, Poisons
  <1>4. CASE Prepare \/ PutBlock \/ WriteDeleting
    BY <1>4, <1>c, <1>e DEF Prepare, PutBlock, WriteDeleting, WriteFails, Poisons, At, Step
  <1>5. CASE GoLive \/ Settle
    BY <1>5, <1>c DEF GoLive, Settle, Returns, WriteFails, Poisons
  <1>6. CASE Clone \/ Release
    BY <1>6, <1>b, <1>c DEF Clone, Release, Poisons
  <1>7. CASE Load \/ Opened \/ Crash
    BY <1>7, <1>b, <1>c DEF Load, Opened, Crash
  <1>8. ASSUME NEW u \in Upload, ReleaseUpload(u) PROVE PrepareFits'
    BY <1>8, <1>b DEF ReleaseUpload
  <1> QED
    BY <1>1, <1>2, <1>3, <1>4, <1>5, <1>6, <1>7, <1>8 DEF Next

(* The journal that recovery finds is one that it accepts.                  *)
LEMMA NeverCorruptStep ==
  ASSUME Types, Certain, ClaimsMatchPosts, LeftSound, NeverCorrupt, Next
  PROVE  NeverCorrupt'
  <1>1. CASE Load
    <2>1. life = "closed"
      BY <1>1 DEF Load
    <2>2. Sound(Current) /\ Bytes = BytesOf(Current) /\ KnownIn(Current) = {q \in Post : Known(q)}
      BY <2>1, CurrentLeft, KnownCurrent DEF LeftSound
    <2>3. ASSUME NEW p \in Post
          PROVE  /\ Of(p) = "live" => ClaimsOf(p) \subseteq claims
                 /\ Of(p) = "aborted" => ClaimsOf(p) \cap claims = {}
      BY <2>1, OfRecorded DEF ClaimsMatchPosts
    <2>4. Valid
      BY <2>2, <2>3 DEF Valid, Sound
    <2> QED
      BY <1>1, <2>4 DEF Load, NeverCorrupt
  <1>2. ASSUME ~Load, life' # life PROVE life' \in {"poisoned", "open", "closed"}
    BY <1>2 DEF Next, Add, AddAgain, AnswerAgain, Delete, Recover, Prepare, Clone, PutBlock, GoLive,
                WriteDeleting, Release, Settle, Opened, Crash, ReleaseUpload, Goes, Returns,
                WriteFails, Poisons
  <1> QED
    BY <1>1, <1>2 DEF NeverCorrupt

-----------------------------------------------------------------------------
LEMMA InvInit == ASSUME Init PROVE IInv
  <1>1. \A p \in Post : recorded[p] = {"none"} /\ Of(p) = "none"
    BY SingleOf DEF Init
  <1>2. Types /\ Certain /\ CallFollows /\ Middle /\ AnswersSurvive /\ PrepareFits /\ NeverCorrupt
    BY <1>1 DEF Init, Types, Certain, CallFollows, Middle, AnswersSurvive, PrepareFits, At,
                NeverCorrupt, State
  <1>3. ClaimsMatchPosts
    BY <1>1 DEF Init, ClaimsMatchPosts
  <1>4. ASSUME NEW r \in Left PROVE Sound(r)
    <2>1. \A p \in Post : r[p] = "none"
      BY <1>1 DEF Left
    <2>2. KnownIn(r) = {} /\ Cardinality(KnownIn(r)) = 0
      BY <2>1, FS_EmptySet DEF KnownIn
    <2>3. BytesOf(r) = 0
      <3> DEFINE f == [p \in Post |-> Size[r[p]]]
      <3>1. \A p \in Post : f[p] = 0
        BY <2>1, RichPostAssumption
      <3> HIDE DEF f
      <3> QED
        BY <3>1, SumZero, RichPostAssumption DEF BytesOf, f
    <2> QED
      BY <2>2, <2>3, RichPostAssumption DEF Sound
  <1> QED
    BY <1>2, <1>3, <1>4 DEF IInv, LeftSound

LEMMA InvStep == ASSUME IInv, [Next]_vars PROVE IInv'
  <1>1. CASE Next
    BY <1>1, TypesStep, CertainStep, CallStep, MiddleStep, ClaimsStep, AnswersStep, LeftStep,
       PrepareStep, NeverCorruptStep DEF IInv
  <1>2. CASE UNCHANGED vars
    <2>1. Types' /\ Certain' /\ AnswersSurvive' /\ NeverCorrupt'
      BY <1>2 DEF vars, IInv, Types, Certain, AnswersSurvive, NeverCorrupt
    <2>2. CallFollows'
      BY <1>2 DEF vars, IInv, CallFollows, Of, ClaimsOf, Claim
    <2>3. Middle' /\ ClaimsMatchPosts'
      BY <1>2 DEF vars, IInv, Middle, ClaimsMatchPosts, Of, ClaimsOf, Claim
    <2>4. LeftSound'
      BY <1>2 DEF vars, IInv, LeftSound, Left, Sound
    <2>5. PrepareFits'
      BY <1>2 DEF vars, IInv, PrepareFits, At, Fits, Known, Bytes, Of
    <2> QED
      BY <2>1, <2>2, <2>3, <2>4, <2>5 DEF IInv
  <1> QED
    BY <1>1, <1>2

(* The inductive invariant of rich posts.                                   *)
THEOREM RichPostInvariant == Spec => []IInv
  BY InvInit, InvStep, PTL DEF Spec

(* The types of the journal, the claims and the running call; records are   *)
(* certain unless the store has failed, and no post is in the middle of     *)
(* something while the store is open and nobody works on it.                *)
THEOREM RichPostTypes == Spec => []TypeOK
  <1>1. ASSUME IInv PROVE TypeOK
    <2>1. \A p \in Post : life # "poisoned" => Cardinality(recorded[p]) = 1
      <3> SUFFICES ASSUME NEW p \in Post, life # "poisoned" PROVE Cardinality(recorded[p]) = 1
        OBVIOUS
      <3>1. PICK s \in State : recorded[p] = {s}
        BY <1>1 DEF IInv, Certain
      <3> QED
        BY <3>1, FS_Singleton
    <2>2. ASSUME life = "open", NEW p \in Post, recorded[p] \in {{"preparing"}, {"deleting"}}
          PROVE  call # NoCall /\ call.post = p
      <3>1. Of(p) \in {"preparing", "deleting"}
        BY <2>2, SingleOf
      <3> QED
        BY <1>1, <2>2, <3>1 DEF IInv, Middle
    <2>3. recorded \in [Post -> (SUBSET State) \ {{}}]
      BY <1>1 DEF IInv, Types, Certain
    <2> QED
      BY <1>1, <2>1, <2>2, <2>3 DEF IInv, Types, TypeOK
  <1> QED
    BY <1>1, RichPostInvariant, PTL

(* No claim of a post on an upload is lost and none is leaked, whatever a   *)
(* crash leaves of the record of the post (createRichLocked,                *)
(* DeleteRichPost, loadAndRecoverRich).                                     *)
THEOREM RichPostClaims == Spec => []ClaimsMatchPosts
  BY RichPostInvariant, PTL DEF IInv

(* What AddRichPost and DeleteRichPost have answered survives every failure *)
(* and crash.                                                               *)
THEOREM RichPostAnswers == Spec => []AnswersSurvive
  BY RichPostInvariant, PTL DEF IInv

(* Recovery never refuses the journal, and the quota has room for what it   *)
(* has promised: the first record of a creation that passed the check, and  *)
(* of every post that was rolled back (checkRichRecordQuotaLocked).         *)
THEOREM RichPostJournal == Spec => []JournalSound
  <1>1. ASSUME IInv PROVE JournalSound
    BY <1>1, ResumeHasRoom DEF IInv, JournalSound, ResumeFits, PrepareFits
  <1> QED
    BY <1>1, RichPostInvariant, PTL
=============================================================================
