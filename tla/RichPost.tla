------------------------------ MODULE RichPost ------------------------------
(***************************************************************************)
(* Rich posts of one daemon: the journal of social/richpost_store.go and   *)
(* the private claims that every post keeps in the attachment store.       *)
(*                                                                         *)
(* All operations run under the lock of the social store, so one call is   *)
(* under way at a time; one action is one durable step of it.  A write to  *)
(* the journal is a Put and a Sync; recorded[p] holds every state that a   *)
(* crash may leave of p's record, one state when nothing is in doubt.  The *)
(* attachment store is the one of module Attachment, seen from outside: a  *)
(* claim whose call succeeded is durable, one whose call failed is there   *)
(* or not.                                                                 *)
(*                                                                         *)
(* The store is opened only over writes that are no longer in doubt.       *)
(***************************************************************************)
EXTENDS Integers, FiniteSets, Sums

CONSTANTS
    Post,           \* the IDs that a client may choose for posts
    Upload,         \* attachments that a client has uploaded
    UploadsOf,      \* UploadsOf[p]: the uploads that post p refers to
    Size,           \* Size[s]: the length of a record in state s
    MaxRecords,     \* the limits of the journal
    MaxBytes,
    NoCall          \* nobody has the lock of the store

State == {"none", "preparing", "live", "aborted", "deleting", "deleted"}
Step == {"prepare", "clone", "live", "delete", "release"}

ASSUME RichPostAssumption ==
    /\ IsFiniteSet(Post)
    /\ UploadsOf \in [Post -> SUBSET Upload]
    /\ Size \in [State -> Nat]
    /\ Size["none"] = 0
    /\ Size["deleted"] < Size["live"] /\ Size["live"] < Size["aborted"]
    /\ Size["aborted"] < Size["deleting"] /\ Size["deleting"] < Size["preparing"]
    /\ MaxRecords \in Nat /\ MaxBytes \in Nat
    /\ NoCall \notin [post : Post, step : Step]

VARIABLES
    recorded,   \* recorded[p]: what a crash may leave of p's record
    claims,     \* the claims of posts on their uploads that the attachment store has
    uploads,    \* the uploads that have not been released
    block,      \* block[p]: the envelope in the block store: none, stored, synced
    life,       \* closed, recovering, open, poisoned, corrupt
    call,       \* the post and the next step of the call that has the lock
    said        \* history: the last answer about p that still binds the store

vars == <<recorded, claims, uploads, block, life, call, said>>

Claim == {c \in Post \X Upload : c[2] \in UploadsOf[c[1]]}
ClaimsOf(p) == {c \in Claim : c[1] = p}

Init ==
    /\ recorded = [p \in Post |-> {"none"}]
    /\ claims = {}
    /\ uploads = Upload
    /\ block = [p \in Post |-> "none"]
    /\ life = "closed"
    /\ call = NoCall
    /\ said = [p \in Post |-> "none"]

-----------------------------------------------------------------------------
(* The journal.                                                            *)

Known(p) == recorded[p] # {"none"}

(* The record in memory: the one that the journal shows.                   *)
Of(p) == CHOOSE s \in recorded[p] : TRUE

Bytes == SumOver([p \in Post |-> Size[Of(p)]], Post)

(* The quota: records are never removed, a tombstone counts for ever.      *)
Fits(p, s) ==
    /\ Known(p) \/ Cardinality({q \in Post : Known(q)}) < MaxRecords
    /\ Bytes - Size[Of(p)] + Size[s] <= MaxBytes

At(step) == call # NoCall /\ call.step = step
Goes(step) == call' = [call EXCEPT !.step = step] /\ UNCHANGED life
Returns == call' = NoCall /\ UNCHANGED life

(* An error after the first write: the store serves nothing more until it  *)
(* is opened again.  (During recovery: the store does not open.)           *)
Poisons == call' = NoCall /\ life' = "poisoned"

Writes(s) ==
    /\ Fits(call.post, s)
    /\ recorded' = [recorded EXCEPT ![call.post] = {s}]

(* The quota refuses the record, or its Put fails, or only its Sync does.  *)
WriteFails(s) ==
    /\ \/ Fits(call.post, s) /\ recorded' = [recorded EXCEPT ![call.post] = @ \cup {s}]
       \/ UNCHANGED recorded
    /\ Poisons

-----------------------------------------------------------------------------
(* AddRichPost.                                                            *)

(* Defect: the quota is checked for the record that remains.               *)
AddUnchecked(p) ==
    /\ life = "open" /\ call = NoCall
    /\ ~Known(p)
    /\ UploadsOf[p] \subseteq uploads
    /\ Fits(p, "live")
    /\ call' = [post |-> p, step |-> "prepare"]
    /\ UNCHANGED <<recorded, claims, uploads, block, life, said>>

(* A post nobody has seen: it must fit the quota and its uploads must be   *)
(* there, or nothing happens at all.                                       *)
Add(p) ==
    /\ life = "open" /\ call = NoCall
    /\ ~Known(p)
    /\ UploadsOf[p] \subseteq uploads
    /\ Fits(p, "preparing")
    /\ call' = [post |-> p, step |-> "prepare"]
    /\ UNCHANGED <<recorded, claims, uploads, block, life, said>>

(* A post that was rolled back is made again with the same targets, which  *)
(* must be free; a post in the middle of something poisons the store.      *)
AddAgain(p) ==
    /\ life = "open" /\ call = NoCall
    /\ Of(p) \in {"aborted", "preparing", "deleting"}
    /\ IF Of(p) = "aborted" /\ claims \cap ClaimsOf(p) = {}
         THEN call' = [post |-> p, step |-> "prepare"] /\ UNCHANGED life
         ELSE Poisons
    /\ UNCHANGED <<recorded, claims, uploads, block, said>>

Prepare ==
    /\ At("prepare")
    /\ \/ Writes("preparing") /\ Goes("clone")
       \/ WriteFails("preparing")
    /\ UNCHANGED <<claims, uploads, block, said>>

(* ClonePublic, once for every upload of the post.                         *)
Clone ==
    /\ At("clone")
    /\ \E c \in ClaimsOf(call.post) \ claims :
         \/ /\ c[2] \in uploads
            /\ claims' = claims \cup {c}
            /\ (UNCHANGED <<call, life>> \/ Poisons)
         \/ UNCHANGED claims /\ Poisons
    /\ UNCHANGED <<recorded, uploads, block, said>>

(* Defect: not every claim is waited for.                                  *)
PutBlockEarly ==
    /\ At("clone")
    /\ \/ block' = [block EXCEPT ![call.post] = "synced"] /\ Goes("live")
       \/ block' \in {block, [block EXCEPT ![call.post] = IF @ = "none" THEN "stored" ELSE @]}
          /\ Poisons
    /\ UNCHANGED <<recorded, claims, uploads, said>>

(* The envelope goes into the block store and is synced there.             *)
PutBlock ==
    /\ At("clone")
    /\ ClaimsOf(call.post) \subseteq claims
    /\ \/ block' = [block EXCEPT ![call.post] = "synced"] /\ Goes("live")
       \/ block' \in {block, [block EXCEPT ![call.post] = IF @ = "none" THEN "stored" ELSE @]}
          /\ Poisons
    /\ UNCHANGED <<recorded, claims, uploads, said>>

(* Defect: the answer does not wait for the sync.                          *)
GoLiveEarly ==
    /\ At("live")
    /\ \/ Writes("live") /\ Returns
       \/ WriteFails("live")
    /\ said' = [said EXCEPT ![call.post] = "live"]
    /\ UNCHANGED <<claims, uploads, block>>

(* Only the write of the live record makes the post visible.               *)
GoLive ==
    /\ At("live")
    /\ \/ /\ Writes("live") /\ Returns
          /\ said' = [said EXCEPT ![call.post] = "live"]
       \/ WriteFails("live") /\ UNCHANGED said
    /\ UNCHANGED <<claims, uploads, block>>

(* The same request for a post that is there, and the deletion of one that *)
(* is deleted: the answer is given again.                                  *)
AnswerAgain(p) ==
    /\ life = "open" /\ call = NoCall
    /\ \/ Of(p) = "live" /\ ClaimsOf(p) \subseteq claims
       \/ Of(p) = "deleted"
    /\ said' = [said EXCEPT ![p] = Of(p)]
    /\ UNCHANGED <<recorded, claims, uploads, block, life, call>>

-----------------------------------------------------------------------------
(* DeleteRichPost.                                                         *)

Delete(p) ==
    /\ life = "open" /\ call = NoCall
    /\ Of(p) \notin {"none", "deleted"}
    /\ IF Of(p) \in {"live", "aborted"}
         THEN call' = [post |-> p, step |-> "delete"] /\ UNCHANGED life
         ELSE Poisons
    /\ said' = [said EXCEPT ![p] = "none"]
    /\ UNCHANGED <<recorded, claims, uploads, block>>

WriteDeleting ==
    /\ At("delete")
    /\ \/ Writes("deleting") /\ Goes("release")
       \/ WriteFails("deleting")
    /\ UNCHANGED <<claims, uploads, block, said>>

(* Release of every claim of the post; a claim that is not there is none   *)
(* to release.                                                             *)
Release ==
    /\ At("release")
    /\ \E c \in ClaimsOf(call.post) \cap claims :
         \/ claims' = claims \ {c} /\ UNCHANGED <<call, life>>
         \/ claims' \in {claims, claims \ {c}} /\ Poisons
    /\ UNCHANGED <<recorded, uploads, block, said>>

(* The end of a deletion, and of a rollback: a tombstone, or aborted.      *)
Settle ==
    LET s == IF Of(call.post) = "deleting" THEN "deleted" ELSE "aborted"
    IN /\ At("release")
       /\ ClaimsOf(call.post) \cap claims = {}
       /\ \/ /\ Writes(s) /\ Returns
             /\ said' = IF life = "open" THEN [said EXCEPT ![call.post] = s] ELSE said
          \/ WriteFails(s) /\ UNCHANGED said
       /\ UNCHANGED <<claims, uploads, block>>

-----------------------------------------------------------------------------
(* Opening the store.                                                      *)

(* What loadAndRecoverRich accepts: the journal is within its limits, a    *)
(* live post has its claims and a post that was rolled back has none.      *)
Valid ==
    /\ Cardinality({p \in Post : Known(p)}) <= MaxRecords
    /\ Bytes <= MaxBytes
    /\ \A p \in Post :
         /\ Of(p) = "live" => ClaimsOf(p) \subseteq claims
         /\ Of(p) = "aborted" => ClaimsOf(p) \cap claims = {}

Load ==
    /\ life = "closed"
    /\ life' = IF Valid THEN "recovering" ELSE "corrupt"
    /\ UNCHANGED <<recorded, claims, uploads, block, call, said>>

(* A post in the middle of something gives its claims up.                  *)
Recover(p) ==
    /\ life = "recovering" /\ call = NoCall
    /\ Of(p) \in {"preparing", "deleting"}
    /\ call' = [post |-> p, step |-> "release"]
    /\ UNCHANGED <<recorded, claims, uploads, block, life, said>>

(* Defect: the store opens before it has recovered.                        *)
OpenedAtOnce ==
    /\ life = "recovering" /\ call = NoCall
    /\ life' = "open"
    /\ UNCHANGED <<recorded, claims, uploads, block, call, said>>

(* The envelopes of live posts are put back if they are missing.           *)
Opened ==
    /\ life = "recovering" /\ call = NoCall
    /\ \A p \in Post : Of(p) \notin {"preparing", "deleting"}
    /\ block' = [p \in Post |-> IF Of(p) = "live" /\ block[p] = "none" THEN "synced"
                                ELSE block[p]]
    /\ life' = "open"
    /\ UNCHANGED <<recorded, claims, uploads, call, said>>

-----------------------------------------------------------------------------
(* The world around the store.                                             *)

(* A client releases an upload; IDs of uploads are not used again.         *)
ReleaseUpload(u) ==
    /\ u \in uploads
    /\ uploads' = uploads \ {u}
    /\ UNCHANGED <<recorded, claims, block, life, call, said>>

(* The daemon stops, between any two steps: of every write in doubt one    *)
(* outcome remains.                                                        *)
Crash ==
    /\ life # "closed"
    /\ recorded' \in {r \in [Post -> {{s} : s \in State}] : \A p \in Post : r[p] \subseteq recorded[p]}
    /\ block' \in {b \in [Post -> {"none", "synced"}] :
                     \A p \in Post : block[p] # "stored" => b[p] = block[p]}
    /\ life' = "closed"
    /\ call' = NoCall
    /\ UNCHANGED <<claims, uploads, said>>

Next ==
    \/ \E p \in Post : Add(p) \/ AddAgain(p) \/ AnswerAgain(p) \/ Delete(p) \/ Recover(p)
    \/ Prepare \/ Clone \/ PutBlock \/ GoLive
    \/ WriteDeleting \/ Release \/ Settle
    \/ Load \/ Opened \/ Crash
    \/ \E u \in Upload : ReleaseUpload(u)

Spec == Init /\ [][Next]_vars

-----------------------------------------------------------------------------
(* Types; nothing is in doubt while the store is open and between calls,   *)
(* when no post is in the middle of something.                             *)
TypeOK ==
    /\ recorded \in [Post -> (SUBSET State) \ {{}}]
    /\ claims \subseteq Claim
    /\ uploads \subseteq Upload
    /\ block \in [Post -> {"none", "stored", "synced"}]
    /\ life \in {"closed", "recovering", "open", "poisoned", "corrupt"}
    /\ call \in {NoCall} \cup [post : Post, step : Step]
    /\ said \in [Post -> {"none", "live", "deleted"}]
    /\ life # "poisoned" => \A p \in Post : Cardinality(recorded[p]) = 1
    /\ life = "open" => \A p \in Post :
         recorded[p] \in {{"preparing"}, {"deleting"}} => call # NoCall /\ call.post = p

(* No claim is lost and none is leaked: whatever a crash leaves of a       *)
(* record, a live post has all its claims and its envelope, and a post     *)
(* that is not there, was rolled back or is deleted has no claim left      *)
(* (createRichLocked, DeleteRichPost and loadAndRecoverRich).              *)
ClaimsMatchPosts ==
    \A p \in Post :
      /\ "live" \in recorded[p] => ClaimsOf(p) \subseteq claims /\ block[p] = "synced"
      /\ recorded[p] \cap {"none", "aborted", "deleted"} # {} => ClaimsOf(p) \cap claims = {}

(* Recovery never finds a journal that it must refuse.                     *)
NeverCorrupt == life # "corrupt"

(* What AddRichPost and DeleteRichPost have answered survives every        *)
(* failure and crash until a client asks for something else.               *)
AnswersSurvive ==
    \A p \in Post : said[p] # "none" => recorded[p] = {said[p]}

(* The quota never stands in the way of a creation whose check it passed,  *)
(* nor of a post that was rolled back: between calls the journal has room  *)
(* for the record that a second attempt writes first.                      *)
ResumeFits ==
    /\ At("prepare") => Fits(call.post, "preparing")
    /\ life = "open" /\ call = NoCall =>
         \A p \in Post : Of(p) = "aborted" => Fits(p, "preparing")

(* The journal can be opened again and written to as its limits promise.    *)
JournalSound == NeverCorrupt /\ ResumeFits
=============================================================================
