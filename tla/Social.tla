------------------------------- MODULE Social -------------------------------
(***************************************************************************)
(* The social store of one daemon and its publication                      *)
(* (src/modern/social/store.go), with the goroutines that use it: requests *)
(* of the API, the handlers of follow envelopes and the republish loop.    *)
(*                                                                         *)
(* Each write to the datastore is atomic and durable.  Store.mu is held    *)
(* over the two writes of a change to a list and its count in the profile, *)
(* and over a commit; publishMu over a publication.  A commit writes       *)
(* immutable blocks, so a root stands for all that it snapshots.  A call   *)
(* whose first write fails has changed nothing and is left out.            *)
(*                                                                         *)
(* The records of IPNS are the publisher's (external): under publishMu     *)
(* each publication gets a higher sequence number than the one before, so  *)
(* the last one wins.  Rich posts, contents and signatures are left out.   *)
(***************************************************************************)
EXTENDS Naturals, FiniteSets

CONSTANTS
    Peer,          \* other peers
    Field,         \* presentation fields of a profile
    Value,         \* their values
    Blank,         \* the value of a field that was never set
    Slug,          \* slugs of posts
    Worker,        \* goroutines: API requests and handlers of envelopes
    Republisher,   \* the goroutine of the republish loop
    MaxTime,       \* timestamps of follow envelopes
    MaxChanges,    \* bound: changes of the store
    MaxCrashes,    \* bound: crashes
    Faults         \* whether writes fail

Goroutine == Worker \cup {Republisher}
List == {"following", "followers"}
Text == [Field -> Value]
Profile == [text : Text, following : Nat, followers : Nat]
FollowerState == [at : 0 .. MaxTime, following : BOOLEAN]
Root == [version : Nat, profile : Profile, posts : SUBSET Slug,
         following : SUBSET Peer, followers : SUBSET Peer, lagging : SUBSET List]
Call ==
    [stage : {"idle", "commit"}]
    \cup [stage : {"patch"}, document : Profile]
    \cup [stage : {"count"}, list : List, changed : BOOLEAN]
    \cup [stage : {"publish", "publishing"}, root : Root]

ASSUME SocialAssumption ==
    /\ IsFiniteSet(Peer)
    /\ Blank \in Value
    /\ Republisher \notin Worker
    /\ MaxTime \in Nat
    /\ MaxChanges \in Nat
    /\ MaxCrashes \in Nat
    /\ Faults \in BOOLEAN

VARIABLES
    profile,     \* profileKey
    posts,       \* postsKey
    following,   \* followingKey
    followers,   \* followersKey: the newest state of each peer
    root,        \* rootKey: the last root committed
    published,   \* the root that peers resolve
    call,        \* call[g]: what goroutine g is doing
    changes,     \* history: changes made so far; the version of a snapshot
    lagging,     \* history: the counts whose write failed
    crashes      \* history: crashes so far

lists == <<posts, following, followers>>
vars == <<profile, lists, root, published, call, changes, lagging, crashes>>

Idle == [stage |-> "idle"]
ToCommit == [stage |-> "commit"]

Followers == {p \in Peer : followers[p].following}

Snapshot ==
    [version |-> changes, profile |-> profile, posts |-> posts,
     following |-> following, followers |-> Followers, lagging |-> lagging]

TypeOK ==
    /\ profile \in Profile
    /\ posts \subseteq Slug
    /\ following \subseteq Peer
    /\ followers \in [Peer -> FollowerState]
    /\ root \in Root
    /\ published \in Root
    /\ call \in [Goroutine -> Call]
    /\ changes \in Nat
    /\ lagging \subseteq List
    /\ crashes \in Nat

(* A daemon that has committed and published its empty state.               *)
Init ==
    /\ profile = [text |-> [f \in Field |-> Blank], following |-> 0, followers |-> 0]
    /\ posts = {}
    /\ following = {}
    /\ followers = [p \in Peer |-> [at |-> 0, following |-> FALSE]]
    /\ changes = 0
    /\ lagging = {}
    /\ root = Snapshot
    /\ published = root
    /\ call = [g \in Goroutine |-> Idle]
    /\ crashes = 0

-----------------------------------------------------------------------------
(* Changes of the store.                                                    *)

At(g, stage) == call[g].stage = stage

(* Store.mu                                                                 *)
MuFree == \A g \in Goroutine : ~At(g, "count")

(* The bound leaves room for the profiles that are being patched.           *)
MayChange ==
    changes + Cardinality({g \in Goroutine : At(g, "patch")}) < MaxChanges

Changing(w) ==
    /\ At(w, "idle")
    /\ MayChange
    /\ MuFree
    /\ changes' = changes + 1

Goto(g, next) == call' = [call EXCEPT ![g] = next]

(* Defect: the count leaves out one of the list.                            *)
CountShort(list) ==
    IF list = "following" THEN Cardinality(following) - 1 ELSE Cardinality(Followers)

Count(list) ==
    IF list = "following" THEN Cardinality(following) ELSE Cardinality(Followers)

(* The profile that SetProfile stores for a document.                       *)
Normalized(document) ==
    [text |-> document.text,
     following |-> Count("following"), followers |-> Count("followers")]

SetProfile(w, text) ==
    /\ Changing(w)
    /\ profile' = Normalized([text |-> text, following |-> 0, followers |-> 0])
    /\ lagging' = {}
    /\ Goto(w, ToCommit)
    /\ UNCHANGED <<lists, root, published, crashes>>

(* patchProfile reads the profile, merges, and then sets it.                *)
ReadProfile(w, field, value) ==
    /\ At(w, "idle")
    /\ MayChange
    /\ MuFree
    /\ Goto(w, [stage |-> "patch", document |-> [profile EXCEPT !.text[field] = value]])
    /\ UNCHANGED <<profile, lists, root, published, changes, lagging, crashes>>

PatchProfile(w) ==
    /\ At(w, "patch")
    /\ MuFree
    /\ changes' = changes + 1
    /\ profile' = Normalized(call[w].document)
    /\ lagging' = {}
    /\ Goto(w, ToCommit)
    /\ UNCHANGED <<lists, root, published, crashes>>

AddPost(w, slug) ==
    /\ Changing(w)
    /\ slug \notin posts
    /\ posts' = posts \cup {slug}
    /\ Goto(w, ToCommit)
    /\ UNCHANGED <<profile, following, followers, root, published, lagging, crashes>>

DeletePost(w, slug) ==
    /\ Changing(w)
    /\ slug \in posts
    /\ posts' = posts \ {slug}
    /\ Goto(w, ToCommit)
    /\ UNCHANGED <<profile, following, followers, root, published, lagging, crashes>>

(* The first write of Follow or Unfollow; mu is kept.                       *)
SaveFollowing(w, peers) ==
    /\ Changing(w)
    /\ following' = peers
    /\ Goto(w, [stage |-> "count", list |-> "following", changed |-> TRUE])
    /\ UNCHANGED <<profile, posts, followers, root, published, lagging, crashes>>

Follow(w, p) == SaveFollowing(w, following \cup {p})

Unfollow(w, p) == SaveFollowing(w, following \ {p})

(* A peer says at odd times that it follows and at even ones that it does   *)
(* not; an envelope may come again or late.  The API caller and the handler *)
(* of an envelope then commit, the latter only if the state has changed.    *)
ApplyFollower(w, p, at) ==
    /\ Changing(w)
    /\ at > followers[p].at
    /\ followers' = [followers EXCEPT ![p] = [at |-> at, following |-> at % 2 = 1]]
    /\ Goto(w, [stage |-> "count", list |-> "followers",
                changed |-> followers[p].at = 0
                            \/ followers'[p].following # followers[p].following])
    /\ UNCHANGED <<profile, posts, following, root, published, lagging, crashes>>

(* updateProfileCount, the second write                                     *)
UpdateCount(w) ==
    /\ At(w, "count")
    /\ profile' = [profile EXCEPT ![call[w].list] = Count(call[w].list)]
    /\ lagging' = lagging \ {call[w].list}
    /\ Goto(w, IF call[w].changed THEN ToCommit ELSE Idle)
    /\ UNCHANGED <<lists, root, published, changes, crashes>>

(* The call fails with it, and does not commit.                             *)
CountFails(w) ==
    /\ Faults
    /\ At(w, "count")
    /\ lagging' = lagging \cup {call[w].list}
    /\ Goto(w, Idle)
    /\ UNCHANGED <<profile, lists, root, published, changes, crashes>>

-----------------------------------------------------------------------------
(* Commits and publications.                                                *)

(* The request to publish commits too; without peers its publication fails. *)
Publish(w) ==
    /\ At(w, "idle")
    /\ Goto(w, ToCommit)
    /\ UNCHANGED <<profile, lists, root, published, changes, lagging, crashes>>

(* Defect: the store is read without mu.                                    *)
CommitLockedNot ==
    /\ root' = Snapshot
    /\ UNCHANGED <<profile, lists, published, changes, lagging, crashes>>

CommitLocked ==
    /\ MuFree
    /\ root' = Snapshot
    /\ UNCHANGED <<profile, lists, published, changes, lagging, crashes>>

(* commitAndPublish and publishFollowerState: without connected peers the   *)
(* root is only saved.                                                      *)
Commit(w) ==
    /\ At(w, "commit")
    /\ CommitLocked
    /\ \/ Goto(w, Idle)
       \/ Goto(w, [stage |-> "publish", root |-> Snapshot])

CommitFails(w) ==
    /\ Faults
    /\ At(w, "commit")
    /\ Goto(w, Idle)
    /\ UNCHANGED <<profile, lists, root, published, changes, lagging, crashes>>

(* The republish loop finds no connected peer.                              *)
CommitOnly ==
    /\ At(Republisher, "idle")
    /\ CommitLocked
    /\ UNCHANGED call

(* Defect: the loop publishes the root that was committed last.             *)
RepublishStored ==
    /\ At(Republisher, "idle")
    /\ Goto(Republisher, [stage |-> "publish", root |-> root])
    /\ UNCHANGED <<profile, lists, root, published, changes, lagging, crashes>>

(* The republish loop calls Publish.                                        *)
Republish ==
    /\ At(Republisher, "idle")
    /\ CommitLocked
    /\ Goto(Republisher, [stage |-> "publish", root |-> Snapshot])

(* PublishRoot has publishMu.                                               *)
PublishRoot(g) ==
    /\ At(g, "publish")
    /\ \A other \in Goroutine : ~At(other, "publishing")
    /\ Goto(g, [call[g] EXCEPT !.stage = "publishing"])
    /\ UNCHANGED <<profile, lists, root, published, changes, lagging, crashes>>

Published(g) ==
    /\ At(g, "publishing")
    /\ published' = call[g].root
    /\ Goto(g, Idle)
    /\ UNCHANGED <<profile, lists, root, changes, lagging, crashes>>

(* No peer has taken the record, or some have before the time ran out.      *)
PublishFails(g) ==
    /\ At(g, "publishing")
    /\ published' \in {published, call[g].root}
    /\ Goto(g, Idle)
    /\ UNCHANGED <<profile, lists, root, changes, lagging, crashes>>

(* The daemon stops and starts again.                                       *)
Crash ==
    /\ crashes < MaxCrashes
    /\ crashes' = crashes + 1
    /\ lagging' = lagging \cup {call[g].list : g \in {w \in Goroutine : At(w, "count")}}
    /\ published' \in {published}
                      \cup {call[g].root : g \in {w \in Goroutine : At(w, "publishing")}}
    /\ call' = [g \in Goroutine |-> Idle]
    /\ UNCHANGED <<profile, lists, root, changes>>

ChangeStep(w) ==
    \/ \E text \in Text : SetProfile(w, text)
    \/ \E field \in Field, value \in Value : ReadProfile(w, field, value)
    \/ \E slug \in Slug : AddPost(w, slug) \/ DeletePost(w, slug)
    \/ \E p \in Peer : Follow(w, p) \/ Unfollow(w, p)
    \/ \E p \in Peer, at \in 1 .. MaxTime : ApplyFollower(w, p, at)
    \/ Publish(w)

(* What a goroutine that has begun goes on to do.                           *)
WorkStep(w) ==
    \/ PatchProfile(w)
    \/ UpdateCount(w)
    \/ CountFails(w)
    \/ Commit(w)
    \/ CommitFails(w)

PublishStep(g) ==
    \/ PublishRoot(g)
    \/ Published(g)
    \/ PublishFails(g)

Next ==
    \/ \E w \in Worker : ChangeStep(w) \/ WorkStep(w)
    \/ CommitOnly
    \/ Republish
    \/ \E g \in Goroutine : PublishStep(g)
    \/ Crash

Spec == Init /\ [][Next]_vars

(* Goroutines go on, a Go mutex passes over no waiter for ever, and among   *)
(* the rounds of the republish loop are always some that find a peer and    *)
(* some whose publication succeeds.                                         *)
Fairness ==
    /\ \A w \in Worker : SF_vars(WorkStep(w) \/ PublishStep(w))
    /\ SF_vars(Republish \/ PublishRoot(Republisher))
    /\ SF_vars(Published(Republisher))

FairSpec == Spec /\ Fairness

-----------------------------------------------------------------------------
(* Properties.                                                              *)

Roots == {root, published}
         \cup {call[g].root : g \in {h \in Goroutine : At(h, "publish") \/ At(h, "publishing")}}

Consistent(r) ==
    /\ "following" \in r.lagging \/ r.profile.following = Cardinality(r.following)
    /\ "followers" \in r.lagging \/ r.profile.followers = Cardinality(r.followers)

(* Every root that was committed or is about to be published shows peers a  *)
(* profile whose counts are the sizes of the lists beside it, whichever     *)
(* calls ran side by side, unless the write of that count had failed and    *)
(* no later one had made up for it (SetProfile, updateProfileCount,         *)
(* commitLocked).                                                           *)
CountsMatchLists == \A r \in Roots : Consistent(r)

(* Once the store is left alone, peers resolve its state for good: whatever *)
(* failed or was published out of order before, the republish loop makes up *)
(* for it (republish, PublishRoot).                                         *)
PublishedCatchesUp == <>[](published = Snapshot)

(* What peers resolve never goes back to an older state of the store.       *)
NeverRolledBack == [][published'.version >= published.version]_vars
=============================================================================
