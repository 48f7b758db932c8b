---------------------------- MODULE SocialProofs ----------------------------
(***************************************************************************)
(* Proofs about Social: types, and the counts that peers see.              *)
(***************************************************************************)
EXTENDS Social, FiniteSetTheorems, TLAPS

(* The sizes of the lists are numbers.                                      *)
LEMMA CountIsNat ==
    ASSUME TypeOK, NEW list \in List PROVE Count(list) \in Nat
<1>1. IsFiniteSet(following) /\ IsFiniteSet(Followers)
  BY FS_Subset, SocialAssumption DEF TypeOK, Followers
<1>2. Cardinality(following) \in Nat /\ Cardinality(Followers) \in Nat
  BY <1>1, FS_CardinalityType
<1> QED BY <1>2 DEF Count

LEMMA SnapshotType ==
    ASSUME TypeOK PROVE Snapshot \in Root
BY DEF TypeOK, Snapshot, Root, Followers

LEMMA InitType == Init => TypeOK
<1> SUFFICES ASSUME Init PROVE TypeOK
  OBVIOUS
<1>1. [f \in Field |-> Blank] \in Text
  BY SocialAssumption DEF Text
<1>2. profile \in Profile
  BY <1>1 DEF Init, Profile
<1>3. posts \subseteq Slug /\ following \subseteq Peer /\ changes \in Nat /\ lagging \subseteq List
  BY DEF Init
<1>4. Followers \subseteq Peer
  BY DEF Followers
<1>5. Snapshot \in Root
  BY <1>2, <1>3, <1>4 DEF Snapshot, Root
<1>6. followers \in [Peer -> FollowerState]
  <2>1. [at |-> 0, following |-> FALSE] \in FollowerState
    BY SocialAssumption DEF FollowerState
  <2> QED BY <2>1 DEF Init
<1>7. Idle \in Call
  BY DEF Idle, Call
<1> QED BY <1>2, <1>3, <1>5, <1>6, <1>7 DEF Init, TypeOK

(* What a goroutine goes on to do is a call.                                *)
LEMMA GotoType ==
    ASSUME TypeOK, NEW g \in Goroutine, NEW next \in Call, Goto(g, next)
    PROVE  call' \in [Goroutine -> Call]
BY DEF Goto, TypeOK

LEMMA StageTypes ==
    /\ Idle \in Call
    /\ ToCommit \in Call
    /\ \A r \in Root : [stage |-> "publish", root |-> r] \in Call
    /\ \A list \in List, changed \in BOOLEAN :
          [stage |-> "count", list |-> list, changed |-> changed] \in Call
    /\ \A document \in Profile : [stage |-> "patch", document |-> document] \in Call
BY DEF Idle, ToCommit, Call

LEMMA CallFields ==
    ASSUME TypeOK, NEW g \in Goroutine
    PROVE  /\ At(g, "patch") => call[g].document \in Profile
           /\ At(g, "count") => call[g].list \in List /\ call[g].changed \in BOOLEAN
           /\ At(g, "publish") \/ At(g, "publishing") =>
                 call[g].root \in Root /\ [call[g] EXCEPT !.stage = "publishing"] \in Call
<1>0. call[g] \in Call
  BY DEF TypeOK
<1>1. ASSUME At(g, "patch") PROVE call[g].document \in Profile
  BY <1>0, <1>1 DEF Call, At
<1>2. ASSUME At(g, "count") PROVE call[g].list \in List /\ call[g].changed \in BOOLEAN
  BY <1>0, <1>2 DEF Call, At
<1>3. ASSUME At(g, "publish") \/ At(g, "publishing")
      PROVE  call[g].root \in Root /\ [call[g] EXCEPT !.stage = "publishing"] \in Call
  <2>1. call[g] \in [stage : {"publish", "publishing"}, root : Root]
    BY <1>0, <1>3 DEF Call, At
  <2>2. [call[g] EXCEPT !.stage = "publishing"] \in [stage : {"publish", "publishing"}, root : Root]
    BY <2>1
  <2> QED BY <2>1, <2>2 DEF Call
<1> QED BY <1>1, <1>2, <1>3

(* A stored document has the counts of the lists.                           *)
LEMMA NormalizedType ==
    ASSUME TypeOK, NEW document, document.text \in Text
    PROVE  Normalized(document) \in Profile
BY CountIsNat DEF Normalized, Profile, List

LEMMA ChangeType ==
    ASSUME TypeOK, NEW w \in Worker, ChangeStep(w) PROVE TypeOK'
<1>0. w \in Goroutine
  BY DEF Goroutine
<1>1. ASSUME NEW text \in Text, SetProfile(w, text) PROVE TypeOK'
  <2>1. profile' \in Profile
    BY <1>1, NormalizedType DEF SetProfile
  <2>2. call' \in [Goroutine -> Call]
    BY <1>0, <1>1, GotoType, StageTypes DEF SetProfile
  <2> QED BY <1>1, <2>1, <2>2 DEF SetProfile, Changing, lists, TypeOK
<1>2. ASSUME NEW field \in Field, NEW value \in Value, ReadProfile(w, field, value) PROVE TypeOK'
  <2>1. [profile EXCEPT !.text[field] = value] \in Profile
    <3>1. profile \in Profile /\ profile.text \in Text
      BY DEF TypeOK, Profile
    <3>2. [profile.text EXCEPT ![field] = value] \in Text
      BY <3>1 DEF Text
    <3> QED BY <3>1, <3>2 DEF Profile
  <2>2. call' \in [Goroutine -> Call]
    BY <1>0, <1>2, <2>1, GotoType, StageTypes DEF ReadProfile
  <2> QED BY <1>2, <2>2 DEF ReadProfile, lists, TypeOK
<1>3. ASSUME NEW slug \in Slug, AddPost(w, slug) \/ DeletePost(w, slug) PROVE TypeOK'
  <2>1. call' \in [Goroutine -> Call]
    BY <1>0, <1>3, GotoType, StageTypes DEF AddPost, DeletePost
  <2> QED BY <1>3, <2>1 DEF AddPost, DeletePost, Changing, lists, TypeOK
<1>4. ASSUME NEW p \in Peer, Follow(w, p) \/ Unfollow(w, p) PROVE TypeOK'
  <2>1. PICK peers \in SUBSET Peer : SaveFollowing(w, peers)
    BY <1>4 DEF Follow, Unfollow, TypeOK
  <2>2. call' \in [Goroutine -> Call]
    BY <1>0, <2>1, GotoType, StageTypes DEF SaveFollowing, List
  <2> QED BY <2>1, <2>2 DEF SaveFollowing, Changing, TypeOK
<1>5. ASSUME NEW p \in Peer, NEW at \in 1 .. MaxTime, ApplyFollower(w, p, at) PROVE TypeOK'
  <2>1. [at |-> at, following |-> at % 2 = 1] \in FollowerState
    BY SocialAssumption DEF FollowerState
  <2>2. followers' \in [Peer -> FollowerState]
    BY <1>5, <2>1 DEF ApplyFollower, TypeOK
  <2>3. call' \in [Goroutine -> Call]
    BY <1>0, <1>5, GotoType, StageTypes DEF ApplyFollower, List
  <2> QED BY <1>5, <2>2, <2>3 DEF ApplyFollower, Changing, TypeOK
<1>6. CASE Publish(w)
  <2>1. call' \in [Goroutine -> Call]
    BY <1>0, <1>6, GotoType, StageTypes DEF Publish
  <2> QED BY <1>6, <2>1 DEF Publish, lists, TypeOK
<1> QED BY <1>1, <1>2, <1>3, <1>4, <1>5, <1>6 DEF ChangeStep

LEMMA WorkType ==
    ASSUME TypeOK, NEW w \in Worker, WorkStep(w) PROVE TypeOK'
<1>0. w \in Goroutine
  BY DEF Goroutine
<1>1. CASE PatchProfile(w)
  <2>1. call[w].document.text \in Text
    BY <1>0, <1>1, CallFields DEF PatchProfile, Profile
  <2>2. profile' \in Profile
    BY <1>1, <2>1, NormalizedType DEF PatchProfile
  <2>3. call' \in [Goroutine -> Call]
    BY <1>0, <1>1, GotoType, StageTypes DEF PatchProfile
  <2> QED BY <1>1, <2>2, <2>3 DEF PatchProfile, lists, TypeOK
<1>2. CASE UpdateCount(w)
  <2>1. call[w].list \in List
    BY <1>0, <1>2, CallFields DEF UpdateCount
  <2>2. profile' \in Profile
    <3>1. Count(call[w].list) \in Nat
      BY <2>1, CountIsNat
    <3>2. profile \in Profile
      BY DEF TypeOK
    <3>3. CASE call[w].list = "following"
      BY <1>2, <3>1, <3>2, <3>3 DEF UpdateCount, Profile
    <3>4. CASE call[w].list = "followers"
      BY <1>2, <3>1, <3>2, <3>4 DEF UpdateCount, Profile
    <3> QED BY <2>1, <3>3, <3>4 DEF List
  <2>3. (IF call[w].changed THEN ToCommit ELSE Idle) \in Call
    BY StageTypes
  <2>4. call' \in [Goroutine -> Call]
    BY <1>0, <1>2, <2>3, GotoType DEF UpdateCount
  <2> QED BY <1>2, <2>2, <2>4 DEF UpdateCount, lists, TypeOK
<1>3. CASE CountFails(w)
  <2>1. call[w].list \in List
    BY <1>0, <1>3, CallFields DEF CountFails
  <2>2. call' \in [Goroutine -> Call]
    BY <1>0, <1>3, GotoType, StageTypes DEF CountFails
  <2> QED BY <1>3, <2>1, <2>2 DEF CountFails, lists, TypeOK
<1>4. CASE Commit(w)
  <2>1. root' \in Root
    BY <1>4, SnapshotType DEF Commit, CommitLocked
  <2>2. call' \in [Goroutine -> Call]
    BY <1>0, <1>4, GotoType, StageTypes, SnapshotType DEF Commit
  <2> QED BY <1>4, <2>1, <2>2 DEF Commit, CommitLocked, lists, TypeOK
<1>5. CASE CommitFails(w)
  <2>1. call' \in [Goroutine -> Call]
    BY <1>0, <1>5, GotoType, StageTypes DEF CommitFails
  <2> QED BY <1>5, <2>1 DEF CommitFails, lists, TypeOK
<1> QED BY <1>1, <1>2, <1>3, <1>4, <1>5 DEF WorkStep

LEMMA PublishType ==
    ASSUME TypeOK, NEW g \in Goroutine, PublishStep(g) PROVE TypeOK'
<1>1. CASE PublishRoot(g)
  <2>1. call' \in [Goroutine -> Call]
    BY <1>1, CallFields, GotoType DEF PublishRoot
  <2> QED BY <1>1, <2>1 DEF PublishRoot, lists, TypeOK
<1>2. CASE Published(g) \/ PublishFails(g)
  <2>1. published' \in Root
    BY <1>2, CallFields DEF Published, PublishFails, TypeOK
  <2>2. call' \in [Goroutine -> Call]
    BY <1>2, GotoType, StageTypes DEF Published, PublishFails
  <2> QED BY <1>2, <2>1, <2>2 DEF Published, PublishFails, lists, TypeOK
<1> QED BY <1>1, <1>2 DEF PublishStep

LEMMA CrashType ==
    ASSUME TypeOK, Crash PROVE TypeOK'
<1>1. lagging' \subseteq List
  BY CallFields DEF Crash, TypeOK
<1>2. published' \in Root
  BY CallFields DEF Crash, TypeOK
<1>3. call' \in [Goroutine -> Call]
  BY StageTypes DEF Crash
<1>4. crashes' \in Nat
  BY DEF Crash, TypeOK
<1> QED BY <1>1, <1>2, <1>3, <1>4 DEF Crash, lists, TypeOK

LEMMA NextType ==
    ASSUME TypeOK, [Next]_vars PROVE TypeOK'
<1>1. CASE \E w \in Worker : ChangeStep(w) \/ WorkStep(w)
  BY <1>1, ChangeType, WorkType
<1>2. CASE CommitOnly
  BY <1>2, SnapshotType DEF CommitOnly, CommitLocked, lists, TypeOK
<1>3. CASE Republish
  <2>1. root' \in Root
    BY <1>3, SnapshotType DEF Republish, CommitLocked
  <2>2. call' \in [Goroutine -> Call]
    BY <1>3, GotoType, StageTypes, SnapshotType DEF Republish, Goroutine
  <2> QED BY <1>3, <2>1, <2>2 DEF Republish, CommitLocked, lists, TypeOK
<1>4. CASE \E g \in Goroutine : PublishStep(g)
  BY <1>4, PublishType
<1>5. CASE Crash
  BY <1>5, CrashType
<1>6. CASE UNCHANGED vars
  BY <1>6 DEF vars, lists, TypeOK
<1> QED BY <1>1, <1>2, <1>3, <1>4, <1>5, <1>6 DEF Next

(* Every variable of the social store keeps its type, for any sets of       *)
(* peers, posts and goroutines.                                             *)
THEOREM SocialTypes == Spec => []TypeOK
<1> QED BY InitType, NextType, PTL DEF Spec

-----------------------------------------------------------------------------
(* The counts that peers see.                                               *)

(* One goroutine at a time has mu over two writes.                          *)
Alone == \A g, h \in Goroutine : At(g, "count") /\ At(h, "count") => g = h

CountRight(list) ==
    \/ list \in lagging
    \/ profile[list] = Count(list)
    \/ \E g \in Goroutine : At(g, "count") /\ call[g].list = list

Counted == \A list \in List : CountRight(list)

CountInv == TypeOK /\ Alone /\ Counted /\ CountsMatchLists

(* A commit waits for mu: it never sees a list without its count.           *)
LEMMA SnapshotConsistent ==
    ASSUME TypeOK, Counted, MuFree PROVE Consistent(Snapshot)
<1>1. \A list \in List : list \in lagging \/ profile[list] = Count(list)
  BY DEF Counted, CountRight, MuFree
<1>2. "following" \in lagging \/ profile.following = Cardinality(following)
  BY <1>1 DEF Count, List
<1>3. "followers" \in lagging \/ profile.followers = Cardinality(Followers)
  BY <1>1 DEF Count, List
<1> QED BY <1>2, <1>3 DEF Consistent, Snapshot

LEMMA AfterGoto ==
    ASSUME TypeOK, NEW g \in Goroutine, NEW next, Goto(g, next)
    PROVE  call'[g] = next /\ \A h \in Goroutine \ {g} : call'[h] = call[h]
BY DEF Goto, TypeOK

(* A goroutine that does not begin or end a change leaves the counts alone. *)
LEMMA KeepsCounts ==
    ASSUME TypeOK, Alone, Counted, NEW g \in Goroutine, NEW next, Goto(g, next),
           ~At(g, "count"), next.stage # "count",
           UNCHANGED <<profile, lists, lagging>>
    PROVE  Alone' /\ Counted'
<1>1. \A h \in Goroutine : At(h, "count")' <=> At(h, "count")
  BY AfterGoto DEF At
<1>2. \A h \in Goroutine : At(h, "count") => call'[h] = call[h]
  BY AfterGoto
<1>3. Alone'
  BY <1>1 DEF Alone
<1>4. \A list \in List : Count(list)' = Count(list)
  BY DEF Count, Followers, lists
<1>5. Counted'
  BY <1>1, <1>2, <1>4 DEF Counted, CountRight
<1> QED BY <1>3, <1>5

(* The roots in play come from commits.                                     *)
LEMMA KeepsRoots ==
    ASSUME TypeOK, CountsMatchLists, NEW g \in Goroutine, NEW next, Goto(g, next),
           next.stage \in {"publish", "publishing"} => Consistent(next.root),
           Consistent(root'), Consistent(published')
    PROVE  CountsMatchLists'
<1> SUFFICES ASSUME NEW h \in Goroutine, At(h, "publish")' \/ At(h, "publishing")'
             PROVE  Consistent(call'[h].root)
  BY DEF CountsMatchLists, Roots
<1>1. CASE h = g
  BY <1>1, AfterGoto DEF At
<1>2. CASE h # g
  BY <1>2, AfterGoto DEF At, CountsMatchLists, Roots
<1> QED BY <1>1, <1>2

LEMMA RootsKnown ==
    ASSUME CountsMatchLists
    PROVE  /\ Consistent(root)
           /\ Consistent(published)
           /\ \A g \in Goroutine :
                 At(g, "publish") \/ At(g, "publishing") => Consistent(call[g].root)
BY DEF CountsMatchLists, Roots

LEMMA InitCounts == Init => CountInv
<1> SUFFICES ASSUME Init PROVE CountInv
  OBVIOUS
<1>1. TypeOK
  BY InitType
<1>2. \A g \in Goroutine : call[g].stage = "idle"
  BY DEF Init, Idle
<1>3. Alone /\ MuFree
  BY <1>2 DEF Alone, MuFree, At
<1>4. Followers = {}
  BY DEF Followers, Init
<1>5. Counted
  BY <1>4, FS_EmptySet DEF Counted, CountRight, Count, List, Init
<1>6. CountsMatchLists
  BY <1>1, <1>2, <1>3, <1>5, SnapshotConsistent DEF CountsMatchLists, Roots, At, Init
<1> QED BY <1>1, <1>3, <1>5, <1>6 DEF CountInv

(* A call that sets the profile sets both counts.                           *)
LEMMA SetCounts ==
    ASSUME TypeOK, MuFree, NEW w \in Goroutine, NEW document, profile' = Normalized(document),
           Goto(w, ToCommit), UNCHANGED lists
    PROVE  Alone' /\ Counted'
<1>1. \A h \in Goroutine : ~At(h, "count")'
  BY AfterGoto DEF MuFree, At, ToCommit
<1>2. \A list \in List : Count(list)' = Count(list)
  BY DEF Count, Followers, lists
<1>3. \A list \in List : profile'[list] = Count(list)
  BY DEF List, Normalized
<1>4. Alone'
  BY <1>1 DEF Alone
<1> QED BY <1>2, <1>3, <1>4 DEF Counted, CountRight

(* The first write of a change leaves the other list and its count alone.   *)
LEMMA ListSaved ==
    ASSUME TypeOK, MuFree, Counted, NEW w \in Goroutine, NEW list \in List,
           NEW next, next.stage = "count", next.list = list, Goto(w, next),
           UNCHANGED <<profile, lagging>>,
           \A other \in List \ {list} : Count(other)' = Count(other)
    PROVE  Alone' /\ Counted'
<1>1. \A h \in Goroutine \ {w} : ~At(h, "count")'
  BY AfterGoto DEF MuFree, At
<1>2. Alone'
  BY <1>1 DEF Alone
<1>3. At(w, "count")' /\ call'[w].list = list
  BY AfterGoto DEF At
<1>4. ASSUME NEW other \in List PROVE CountRight(other)'
  <2>1. CASE other = list
    BY <1>3, <2>1 DEF CountRight
  <2>2. CASE other # list
    BY <2>2 DEF Counted, CountRight, MuFree
  <2> QED BY <2>1, <2>2
<1> QED BY <1>2, <1>4 DEF Counted

(* The second write, or its failure, ends the change.                       *)
LEMMA CountSettled ==
    ASSUME TypeOK, Alone, Counted, NEW w \in Goroutine, At(w, "count"),
           NEW next, next.stage # "count", Goto(w, next), UNCHANGED lists,
           call[w].list \in lagging' \/ profile'[call[w].list] = Count(call[w].list),
           \A other \in List \ {call[w].list} :
              /\ profile'[other] = profile[other]
              /\ other \in lagging => other \in lagging'
    PROVE  Alone' /\ Counted'
<1>1. \A h \in Goroutine : ~At(h, "count")'
  BY AfterGoto DEF Alone, At
<1>2. Alone'
  BY <1>1 DEF Alone
<1>3. \A list \in List : Count(list)' = Count(list)
  BY DEF Count, Followers, lists
<1>4. ASSUME NEW other \in List PROVE CountRight(other)'
  <2>1. CASE other = call[w].list
    BY <1>3, <2>1 DEF CountRight
  <2>2. CASE other # call[w].list
    <3>1. other \in lagging \/ profile[other] = Count(other)
      BY <2>2 DEF Counted, CountRight, Alone
    <3> QED BY <1>3, <2>2, <3>1 DEF CountRight
  <2> QED BY <2>1, <2>2
<1> QED BY <1>2, <1>4 DEF Counted

LEMMA ChangeCounts ==
    ASSUME CountInv, NEW w \in Worker, ChangeStep(w) PROVE CountInv'
<1>0. w \in Goroutine /\ TypeOK /\ Alone /\ Counted /\ CountsMatchLists
  BY DEF Goroutine, CountInv
<1>a. TypeOK'
  BY <1>0, ChangeType
<1>b. Consistent(root) /\ Consistent(published)
  BY <1>0, RootsKnown
<1>1. ASSUME NEW text \in Text, SetProfile(w, text) PROVE CountInv'
  <2>1. Alone' /\ Counted'
    BY <1>0, <1>1, SetCounts DEF SetProfile, Changing
  <2>2. CountsMatchLists'
    BY <1>0, <1>b, <1>1, KeepsRoots DEF SetProfile, ToCommit
  <2> QED BY <1>a, <2>1, <2>2 DEF CountInv
<1>2. ASSUME NEW field \in Field, NEW value \in Value, ReadProfile(w, field, value)
      PROVE  CountInv'
  <2>1. Alone' /\ Counted'
    BY <1>0, <1>2, KeepsCounts DEF ReadProfile, At
  <2>2. CountsMatchLists'
    BY <1>0, <1>b, <1>2, KeepsRoots DEF ReadProfile
  <2> QED BY <1>a, <2>1, <2>2 DEF CountInv
<1>3. ASSUME NEW slug \in Slug, AddPost(w, slug) \/ DeletePost(w, slug) PROVE CountInv'
  <2>1. \A list \in List : Count(list)' = Count(list)
    BY <1>3 DEF AddPost, DeletePost, Count, Followers
  <2>2. \A h \in Goroutine : ~At(h, "count")'
    BY <1>0, <1>3, AfterGoto DEF AddPost, DeletePost, Changing, MuFree, At, ToCommit
  <2>3. Alone' /\ Counted'
    BY <1>0, <1>3, <2>1, <2>2
       DEF AddPost, DeletePost, Changing, MuFree, Alone, Counted, CountRight
  <2>4. CountsMatchLists'
    BY <1>0, <1>b, <1>3, KeepsRoots DEF AddPost, DeletePost, ToCommit
  <2> QED BY <1>a, <2>3, <2>4 DEF CountInv
<1>4. ASSUME NEW p \in Peer, Follow(w, p) \/ Unfollow(w, p) PROVE CountInv'
  <2>1. PICK peers \in SUBSET Peer : SaveFollowing(w, peers)
    BY <1>0, <1>4 DEF Follow, Unfollow, TypeOK
  <2>2. \A other \in List \ {"following"} : Count(other)' = Count(other)
    BY <2>1 DEF SaveFollowing, Count, Followers, List
  <2>3. Alone' /\ Counted'
    BY <1>0, <2>1, <2>2, ListSaved DEF SaveFollowing, Changing, List
  <2>4. CountsMatchLists'
    BY <1>0, <1>b, <2>1, KeepsRoots DEF SaveFollowing
  <2> QED BY <1>a, <2>3, <2>4 DEF CountInv
<1>5. ASSUME NEW p \in Peer, NEW at \in 1 .. MaxTime, ApplyFollower(w, p, at) PROVE CountInv'
  <2>1. \A other \in List \ {"followers"} : Count(other)' = Count(other)
    BY <1>5 DEF ApplyFollower, Count, List
  <2>2. Alone' /\ Counted'
    BY <1>0, <1>5, <2>1, ListSaved DEF ApplyFollower, Changing, List
  <2>3. CountsMatchLists'
    BY <1>0, <1>b, <1>5, KeepsRoots DEF ApplyFollower
  <2> QED BY <1>a, <2>2, <2>3 DEF CountInv
<1>6. CASE Publish(w)
  <2>1. Alone' /\ Counted'
    BY <1>0, <1>6, KeepsCounts DEF Publish, At, ToCommit
  <2>2. CountsMatchLists'
    BY <1>0, <1>b, <1>6, KeepsRoots DEF Publish, ToCommit
  <2> QED BY <1>a, <2>1, <2>2 DEF CountInv
<1> QED BY <1>1, <1>2, <1>3, <1>4, <1>5, <1>6 DEF ChangeStep

LEMMA WorkCounts ==
    ASSUME CountInv, NEW w \in Worker, WorkStep(w) PROVE CountInv'
<1>0. w \in Goroutine /\ TypeOK /\ Alone /\ Counted /\ CountsMatchLists
  BY DEF Goroutine, CountInv
<1>a. TypeOK'
  BY <1>0, WorkType
<1>b. Consistent(root) /\ Consistent(published)
  BY <1>0, RootsKnown
<1>c. Idle.stage = "idle" /\ ToCommit.stage = "commit"
  BY DEF Idle, ToCommit
<1>1. CASE PatchProfile(w)
  <2>1. Alone' /\ Counted'
    BY <1>0, <1>1, SetCounts DEF PatchProfile
  <2>2. CountsMatchLists'
    BY <1>0, <1>b, <1>c, <1>1, KeepsRoots DEF PatchProfile
  <2> QED BY <1>a, <2>1, <2>2 DEF CountInv
<1>2. CASE UpdateCount(w)
  <2> DEFINE next == IF call[w].changed THEN ToCommit ELSE Idle
  <2>1. next.stage \notin {"count", "publish", "publishing"}
    BY <1>c
  <2>2. Goto(w, next) /\ At(w, "count") /\ UNCHANGED <<lists, root, published>>
    BY <1>2 DEF UpdateCount
  <2>3. call[w].list \in List
    BY <1>0, <2>2, CallFields
  <2>4. /\ profile'[call[w].list] = Count(call[w].list)
        /\ \A other \in List \ {call[w].list} : profile'[other] = profile[other]
    <3>1. profile \in Profile
      BY <1>0 DEF TypeOK
    <3>2. CASE call[w].list = "following"
      BY <1>2, <3>1, <3>2 DEF UpdateCount, Profile, List
    <3>3. CASE call[w].list = "followers"
      BY <1>2, <3>1, <3>3 DEF UpdateCount, Profile, List
    <3> QED BY <2>3, <3>2, <3>3 DEF List
  <2>5. \A other \in List \ {call[w].list} : other \in lagging => other \in lagging'
    BY <1>2 DEF UpdateCount
  <2> HIDE DEF next
  <2>6. Alone' /\ Counted'
    BY <1>0, <2>1, <2>2, <2>4, <2>5, CountSettled
  <2>7. CountsMatchLists'
    BY <1>0, <1>b, <2>1, <2>2, KeepsRoots
  <2> QED BY <1>a, <2>6, <2>7 DEF CountInv
<1>3. CASE CountFails(w)
  <2>1. Alone' /\ Counted'
    BY <1>0, <1>c, <1>3, CountSettled DEF CountFails
  <2>2. CountsMatchLists'
    BY <1>0, <1>b, <1>c, <1>3, KeepsRoots DEF CountFails
  <2> QED BY <1>a, <2>1, <2>2 DEF CountInv
<1>4. CASE Commit(w)
  <2> DEFINE ToPublish == [stage |-> "publish", root |-> Snapshot]
  <2>1. Consistent(root')
    BY <1>0, <1>4, SnapshotConsistent DEF Commit, CommitLocked
  <2>2. PICK next \in {Idle, ToPublish} : Goto(w, next)
    BY <1>4 DEF Commit
  <2>3. next.stage \in {"publish", "publishing"} => Consistent(next.root)
    BY <1>0, <1>4, <1>c, SnapshotConsistent DEF Commit, CommitLocked
  <2>4. next.stage # "count"
    BY <1>c
  <2> HIDE DEF ToPublish
  <2>5. Alone' /\ Counted'
    BY <1>0, <1>4, <2>2, <2>4, KeepsCounts DEF Commit, CommitLocked, At
  <2>6. CountsMatchLists'
    BY <1>0, <1>b, <1>4, <2>1, <2>2, <2>3, KeepsRoots DEF Commit, CommitLocked
  <2> QED BY <1>a, <2>5, <2>6 DEF CountInv
<1>5. CASE CommitFails(w)
  <2>1. Alone' /\ Counted'
    BY <1>0, <1>c, <1>5, KeepsCounts DEF CommitFails, At
  <2>2. CountsMatchLists'
    BY <1>0, <1>b, <1>c, <1>5, KeepsRoots DEF CommitFails
  <2> QED BY <1>a, <2>1, <2>2 DEF CountInv
<1> QED BY <1>1, <1>2, <1>3, <1>4, <1>5 DEF WorkStep

LEMMA PublishCounts ==
    ASSUME CountInv, NEW g \in Goroutine, PublishStep(g) PROVE CountInv'
<1>0. TypeOK /\ Alone /\ Counted /\ CountsMatchLists
  BY DEF CountInv
<1>a. TypeOK'
  BY <1>0, PublishType
<1>b. Consistent(root) /\ Consistent(published)
  BY <1>0, RootsKnown
<1>c. At(g, "publish") \/ At(g, "publishing") => Consistent(call[g].root)
  BY <1>0, RootsKnown
<1>1. CASE PublishRoot(g)
  <2> DEFINE next == [call[g] EXCEPT !.stage = "publishing"]
  <2>1. call[g] \in [stage : {"publish", "publishing"}, root : Root]
    BY <1>0, <1>1 DEF PublishRoot, TypeOK, Call, At
  <2>2. next.stage = "publishing" /\ next.root = call[g].root
    BY <2>1
  <2>3. Goto(g, next)
    BY <1>1 DEF PublishRoot
  <2> HIDE DEF next
  <2>4. Alone' /\ Counted'
    BY <1>0, <1>1, <2>2, <2>3, KeepsCounts DEF PublishRoot, At
  <2>5. CountsMatchLists'
    BY <1>0, <1>b, <1>c, <1>1, <2>2, <2>3, KeepsRoots DEF PublishRoot
  <2> QED BY <1>a, <2>4, <2>5 DEF CountInv
<1>2. CASE Published(g) \/ PublishFails(g)
  <2>1. Idle.stage = "idle"
    BY DEF Idle
  <2>2. Alone' /\ Counted'
    BY <1>0, <1>2, <2>1, KeepsCounts DEF Published, PublishFails, At
  <2>3. CountsMatchLists'
    BY <1>0, <1>b, <1>c, <1>2, <2>1, KeepsRoots DEF Published, PublishFails
  <2> QED BY <1>a, <2>2, <2>3 DEF CountInv
<1> QED BY <1>1, <1>2 DEF PublishStep

LEMMA CrashCounts ==
    ASSUME CountInv, Crash PROVE CountInv'
<1>0. TypeOK /\ Alone /\ Counted /\ CountsMatchLists
  BY DEF CountInv
<1>1. TypeOK'
  BY <1>0, CrashType
<1>2. \A g \in Goroutine : call'[g].stage = "idle"
  BY DEF Crash, Idle
<1>3. Alone'
  BY <1>2 DEF Alone, At
<1>4. \A list \in List : Count(list)' = Count(list)
  BY DEF Crash, lists, Count, Followers
<1>5. Counted'
  BY <1>0, <1>4 DEF Crash, Counted, CountRight
<1>6. Consistent(root') /\ Consistent(published')
  BY <1>0, RootsKnown DEF Crash
<1>7. CountsMatchLists'
  BY <1>2, <1>6 DEF CountsMatchLists, Roots, At
<1> QED BY <1>1, <1>3, <1>5, <1>7 DEF CountInv

LEMMA NextCounts ==
    ASSUME CountInv, [Next]_vars PROVE CountInv'
<1>0. TypeOK /\ Alone /\ Counted /\ CountsMatchLists
  BY DEF CountInv
<1>a. TypeOK'
  BY <1>0, NextType
<1>1. CASE \E w \in Worker : ChangeStep(w) \/ WorkStep(w)
  BY <1>1, ChangeCounts, WorkCounts
<1>2. CASE CommitOnly
  <2>1. Consistent(root') /\ Consistent(published')
    BY <1>0, <1>2, SnapshotConsistent, RootsKnown DEF CommitOnly, CommitLocked
  <2>2. CountsMatchLists'
    BY <1>0, <1>2, <2>1 DEF CommitOnly, CountsMatchLists, Roots, At
  <2>3. Alone' /\ Counted'
    BY <1>0, <1>2 DEF CommitOnly, CommitLocked, lists, Alone, Counted, CountRight, Count,
                      Followers, At
  <2> QED BY <1>a, <2>2, <2>3 DEF CountInv
<1>3. CASE Republish
  <2>1. Consistent(Snapshot) /\ Consistent(published)
    BY <1>0, <1>3, SnapshotConsistent, RootsKnown DEF Republish, CommitLocked
  <2>2. Republisher \in Goroutine
    BY DEF Goroutine
  <2>3. Alone' /\ Counted'
    BY <1>0, <1>3, <2>2, KeepsCounts DEF Republish, CommitLocked, At
  <2>4. CountsMatchLists'
    BY <1>0, <1>3, <2>1, <2>2, KeepsRoots DEF Republish, CommitLocked
  <2> QED BY <1>a, <2>3, <2>4 DEF CountInv
<1>4. CASE \E g \in Goroutine : PublishStep(g)
  BY <1>4, PublishCounts
<1>5. CASE Crash
  BY <1>5, CrashCounts
<1>6. CASE UNCHANGED vars
  BY <1>0, <1>a, <1>6 DEF vars, lists, CountInv, Alone, Counted, CountRight, Count, Followers,
                          CountsMatchLists, Roots, At
<1> QED BY <1>1, <1>2, <1>3, <1>4, <1>5, <1>6 DEF Next

(* The inductive invariant: one goroutine at a time has mu over two writes, *)
(* and a count that is neither right nor lagging is about to be written.    *)
THEOREM SocialCounts == Spec => []CountInv
<1> QED BY InitCounts, NextCounts, PTL DEF Spec

(* However many calls run side by side and whatever fails, the profile in a *)
(* root has the sizes of the lists beside it, unless the write of that      *)
(* count had failed.                                                        *)
THEOREM SocialCountsMatchLists == Spec => []CountsMatchLists
<1>1. CountInv => CountsMatchLists
  BY DEF CountInv
<1> QED BY <1>1, SocialCounts, PTL
=============================================================================
