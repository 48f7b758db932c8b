# A verification project for the BitBook daemon

This directory holds TLA+ modules for the maintained BitBook daemon
(`src/modern`) and for the orders of the OpenBazaar node of 2018 that it
replaces (`src/core`, `src/net`, `src/repo`, `src/api`, `src/wallet`), the TLC
configurations that check them on small instances, and TLAPS proofs of what
matters most.

## 1. The system

### The daemon

One process, `bitbookd`, runs these parts. Every part keeps what must survive
in one datastore (LevelDB) under a prefix of its own; a single write is atomic
and durable, a sequence of writes is not.

| part (under `src/modern`) | state | operations | what is hard about it |
|---|---|---|---|
| direct messaging (`direct/service.go`) | chat history, outbox, IDs seen (durable); `outboxMu`, `messagesMu`, calls and streams (memory) | `SendChat`, `SendFollow`, `MarkAsRead`, `DeleteMessage`, `DeleteConversation`, `RetryPending`, the stream handler | lost answers, retries beside slow first attempts, crashes between writes, a lock held across network waits |
| social store (`social/store.go`) | profile, posts, following, follower states, last root (durable); `mu`, `publishMu` | `SetProfile`, `AddPost`, `DeletePost`, `Follow`, `Unfollow`, `ApplyFollower`, `Commit`, `PublishRoot`, `Publish`, `Fetch` | two writes per operation, order of commits against order of publications |
| rich posts (`social/richpost*.go`) | one record per post: preparing, live, aborted, deleting, deleted | `AddRichPost`, `DeleteRichPost`, recovery | a protocol of several durable steps with the attachment store |
| attachment store (`attachment/store.go`) | one record per claim: retaining, ready, releasing; pins (durable); quotas and reservations (memory) | `ImportPublic`, `RetainPublic`, `GetPublic`, `Release`, `Close`, recovery | shared roots, crash at every step, quota accounting under concurrency |
| account authorization (`accountauth`) | grants and revocations of one controller | `Apply`, `AuthorizesKnown` | arrival in any order, saturation |
| account store (`accountstore`) | snapshot of the records (durable), the state built from it | `Create`, `Open`, `Apply`, `Close` | writes that fail halfway, saturation that must survive restarts |
| payment (`payment`) | requests and statuses sent and received (durable) | `SendRequest`, `SendStatus`, `SendSigned`, the stream handler | replays, contradicting repeats, restart |
| discovery (`network/discovery.go`) | candidates, probes under way, confirmed peers (memory) | rounds, probes, hello handler, disconnect notices, `close` | stale probes, capacity, shutdown |
| network node (`network/*.go`) | host, DHT, Bitswap, IPNS publisher | `Put`, `Get`, `PublishRoot`, `ResolveRoot`, file import and copy | mostly libraries |
| HTTP API (`api`) | none | one handler per endpoint; every request runs on a goroutine of its own | several store operations per request, no lock around them |
| local client and media (`localclient`) | work slots, playback handles (memory) | uploads, downloads, releases, handles | slots and handles at their limit, cancellation |
| public content (`publiccontent`) | none | a parser and validator | pure |
| daemon (`cmd/bitbookd/main.go`) | none | start, stop, retry loop (every minute), republish loop (every 10 minutes) | the loops race with API calls |

How the parts interact: an API request calls the social store and then direct
messaging; the handler of a direct stream calls `ApplyFollower` of the social
store; rich posts call the attachment store; media calls both; the loops of the
daemon call `RetryPending` and `Publish`. Peers interact only through streams
and through published roots.

### The 2018 node

| part | state | operations | what is hard about it |
|---|---|---|---|
| orders (`core/order.go`, `confirmation.go`, `fulfillment.go`, `completion.go`, `refunds.go`, `disputes.go`) | one record per order at the buyer (purchases), the vendor (sales) and the moderator (cases) | one call per endpoint of `api/jsonapi.go`, the wallet's callbacks (`wallet/listeners`) | three records of one order that calls, messages and callbacks change at once, an `ORDER` that overwrites its sale when it comes again, and money that moves once |
| network service (`net/service`, `net/retriever`, `core/net.go`) | messages put aside because they came too early, and those that can be sent again (`repo/db/messages.go`) | one handler per message, direct and offline delivery, `ResendCachedOrderMessage`, the retriever's passes | messages late, repeated and out of order |
| listings, profiles, ratings, follows, chats, posts, moderators, wallets, images, settings (`core`, `repo`, `api`) | JSON files and SQLite tables | endpoints that read and write one of them | mostly input validation and I/O |
| migrations (`repo/migrations`), schema, IPFS and mobile wrappers, generated code | | | |

## 2. The modules

| module | what it is | code |
|---|---|---|
| `Direct` | direct messaging of all peers at once | `direct/service.go`, `direct/types.go`, `ApplyFollower` of `social/store.go`, the follow handler of `api/handler.go`, `retryPending` of `main.go` |
| `Courier` | abstract: items are owed until they are done | what `README.md` of the daemon promises of direct messages |
| `DirectCourier` | the mapping from `Direct` to `Courier` | |
| `MCDirect` | small instances for TLC | |
| `DirectProofs` | types, promises, histories, read marks, follower states and the refinement, proved | |
| `Attachment` | the attachment store of one daemon | `attachment/store.go`, `clone.go`, the record of `codec.go` |
| `MCAttachment` | small instances for TLC | |
| `AttachmentProofs` | types, pins, durability, accounting and limits, proved | |
| `Social` | the social store of one daemon, the requests that change it, the republish loop | `social/store.go`, `publishFollowerState` of `direct/service.go`, `commitAndPublish` and its callers in `api/handler.go`, `republish` of `main.go` |
| `MCSocial` | a small instance for TLC | |
| `SocialProofs` | types and counts, proved | |
| `AccountAuth` | the state that grants and revocations add up to: operators | `accountauth/state.go` |
| `AccountStore` | its durable store and one handle on it | `accountstore/store.go`, `codec.go`, `types.go` |
| `Authority` | abstract: facts are sure for good, and a denial is final | what `ErrSaturated`, `Apply` and `AuthorizesKnown` promise |
| `MCAccountStore`, `AccountProofs` | a small instance; types, durability and the refinement, proved | |
| `Payment` | the payment service of all peers | `payment/service.go`, `replay.go`, `frame.go` |
| `Ledger` | abstract: what payers accept and payees record | `tickets/BBGO-PAY-001.md` |
| `MCPayment` | a small instance for TLC | |
| `PaymentProofs` | types, the checks before a save, action properties and the refinement, proved | |
| `RichPost` | the journal of rich posts and their claims | `social/richpost_store.go` |
| `MCRichPost` | a small instance for TLC | |
| `RichPostProofs` | types, claims, answers and the room of the journal, proved | |
| `Sums` | sums over finite sets, for the quotas in bytes of attachments and rich posts | |
| `Discovery` | rounds, probes, inbound hellos and confirmed peers of one daemon | `network/discovery.go` |
| `MCDiscovery` | small instances for TLC | |
| `DiscoveryProofs` | types and confirmed peers, proved | |
| `Order` | one order between buyer, vendor and moderator | the files of the first two rows of the table of the 2018 node |
| `MCOrder` | an instance for TLC | |
| `OrderProofs` | types and the three safety invariants of an order, proved | |

`Direct` and `Social` meet in `ApplyFollower`: `Direct` has the follower states of
all peers and no profile, `Social` the lists, counts and roots of one daemon, with
envelopes that arrive in any order. `RichPost` sees `Attachment` from outside: a
claim whose call succeeded is durable (`ReportsAreDurable`, which is proved of
`Attachment`), one whose call failed is there or not.

### Direct

*Peers and envelopes.* Every peer of `Peer` runs the service. An envelope's
random ID is the pair of its sender and its creation instant; a peer's clock
counts the envelopes it created, so that timestamps of one sender increase,
which is all that the code compares (`ApplyFollower`, `markOutgoingRead`).
Message texts, signatures and frames are left out: peers are honest, and
`verify()` refuses an honest envelope only when the clocks are too far apart
(`HandlerFails`).

*Durable state* is `following`, `followers`, `messages`, `outbox` and `seen`,
under the keys the code uses. A removed message stays in the sequence with
`gone = TRUE`: the actions no longer see it, the properties do. *Volatile state*
is `call` (one API call per worker, with the local values of its goroutine),
`pass` (a `RetryPending` pass, the only long holder of `outboxMu`) and
`stream`. `issued` and `promised` are history variables.

*Grain.* One action is one datastore write, or one network event, of the code.
The short critical sections of `messagesMu`, of the social store's lock and of
`queue()` are atomic: nobody else writes what they read. A retry pass is not:
it holds the lock while it waits for peers.

*Streams.* `deliver()` opens a stream (`CallOpens`, `RetryOpens`), then reads the
answer (`CallDelivered`, `RetryDelivered`) or gives up (`CallGivesUp`,
`RetryKeeps`) while the handler at the other end goes on: `CheckSeen`, the
write that applies the envelope, `MarkSeen`. A frame may be lost, a handler may
refuse, and an answer may come too late. Several handlers may work on one
envelope at once. A host does not connect to itself: the envelope of an `Unfollow` of
oneself, which the code does not refuse as it does a `Follow`, stays in the outbox for ever. Streams live in slots of a finite set; a full set delays a
delivery and never makes it fail.

*Crashes.* `Crash(p)` loses `call[p]`, `pass[p]` and both ends of p's streams, at
any point between two writes.

*Failing calls.* With `Faults`, handlers refuse, writes fail, and a `Follow` may save its list
and then fail to save the count, after which nobody is told. (Only the proofs cover the
last: the runs with follows have no faults.)

*Bounds.* `MaxEnvelopes`, `MaxRemoved` and `MaxCrashes` bound the behaviours;
`Ops` says which API calls a user makes. The number of workers and streams is
that of their sets. Nothing else is bounded.

### Attachment

*What a write is.* A record is written by `Put` or `Delete` and made durable by
`Sync`; a pin is changed by `Pin` or `Unpin` and made durable by `Flush`. Either
half may fail. `record` and `pinned` are what the datastore and the pinner show;
`recorded[id]` holds every value that a crash may leave behind and `unflushed`
the roots whose pin may or may not survive. A `Sync` that succeeds settles all
records, as the tests' `restoreDeletedOnSyncFailure` assumes of the contract of
the datastore. (The LevelDB datastore that the daemon uses syncs every `Put` by
itself; the store does not rely on it, and neither does the model.)

*Operations.* An import or a retain reserves (`ReserveImport`, `ReserveRetain`),
reads or validates the file without the lock, and then either claims it or
releases its reservation. `Claim`, `Clone` and `Release` take `mu` and keep it
over their writes: `op` is the call that holds it and its next step (`Pin`,
`MakeReady`, `Unpin`, `Drop`). Every write has a second form whose second half
fails (`...Unsynced`, `...Unflushed`), and `StepFails` is a first half that fails.
`Open` is `Load`, which requires that `Open` accepts what it finds, one `Resume` with the same steps for each claim it
finds unfinished, in any order, then `RemoveOrphan` and `Opened`, for which
the pins are listed a second time (`Finished`). An error in it
closes the store again. `Crash` may come at any time.

*The constant `Reopens`* says whether the store may be opened while writes of an
earlier one are still not durable, as when a daemon restarts on a running
machine after a `Sync` failed. With `FALSE` it is opened only over settled writes,
in particular after every crash.

*Left out:* calls that change nothing, the verification of blocks, and pins of
other packages. Files are immutable, so the length of a CID is a constant, and
a caller may declare a wrong one.

*Bounds.* None but the sets of references, files and lengths, and the two limits
of the store itself.

### Social

*Goroutines.* A worker is a goroutine of an API request or of the handler of a
follow envelope; `Republisher` runs the loop of `main.go`. `call[g]` says what a
goroutine does next: `patch` (it has read the profile that it will set), `count` (it
has `mu`, has saved a list and must still write the count into the profile),
`commit`, `publish` (it waits for `publishMu` with the root it has committed) and
`publishing` (it has `publishMu`).

*Locks.* `mu` is held across actions only in `count`; every other critical section is
one action. A commit reads and writes under `mu` and nobody sees its parts, so it
is one action too.

*Roots.* A root is the snapshot that its commit made. `published` is the root that
peers resolve: Boxo's publisher (not in the repository) numbers the records, and
`publishMu` makes the last publication the one with the highest number. A
publication that fails may still have reached peers.

*History.* `changes` numbers the states of the store and is the version of a
snapshot, `lagging` holds the counts whose write failed, `crashes` counts crashes.

*Bounds.* `MaxChanges`, `MaxCrashes` and the timestamps `1 .. MaxTime`.

*Left out:* rich posts, the contents of posts (a post is its slug, and `slug` stands
for the one that `uniqueLocalSlugLocked` finds), and calls whose first write fails.

### Account store

*What is stored.* The facts of one controller, grants and revocations that have been
verified, are a log under one key, and `Apply` replaces the whole value with a
longer one: `Put` shows it, `Sync` makes it durable, `survivors` holds what a crash may
leave. A snapshot is taken for the log that it encodes.

*Operations.* `Create`, `Open`, `Apply` and `Close`; `Apply` of a fact is `Apply` (the
`Put`), then `Synced` or `SyncFails`. A failed write disables the handle. The fact that
exceeds the limit is kept as a witness and denies everything for good.
`Reopens` means the same as in `Attachment`: a handle that is opened over a value that
was never synced answers a repeated fact as a duplicate, without writing it.

*Left out:* the encoding and the signatures of records.

### Payment

*Objects.* Requests and cancellations are constants that stand for their canonical
bytes; two may share an ID or a nonce (`IdOf`, `NonceOf`), as a peer can make them do.
Other statuses exist in the encoding and are never sent.

*Exchanges.* `stream[s]` is one exchange. The sender may give up or lose the stream while
the handler goes on, so that it may record what the sender believes failed; several handlers
may run at one peer. `acceptInbound` and `storeOutbound` run under the service's lock
and load, check and save the records in one piece: one action each. A save is one write, which
happens or does not. `Close` waits for the handlers, `Closed` is its return and `Restart` a new
process; `Expire` is the clock passing a request's `ExpiresAt`.

### Rich posts

*The journal* has one record per post. `recorded[p]` holds what a crash may leave of it: a
`Put` whose `Sync` failed leaves two values, after which the store is poisoned and serves
nothing until it is opened again. All operations run under the lock of the social store, so
`call` is the one call under way and its next step: the record `preparing`, one
claim after the other, the envelope, the record `live`; for a deletion the record
`deleting`, one release after the other, the tombstone. `Load` is what `loadAndRecoverRich`
accepts, `Recover` its rollback of unfinished posts, `Opened` its end. A crash may come at
any time, and clients release their uploads at any time.

*Quota.* A record's length depends on its state (`Size`); the code's lengths differ by the
names of the states. Tombstones stay for good.

*The store is opened over settled writes only.* (Opened over a `live` record that is not synced,
it would answer a repeated `AddRichPost` with a post that a crash can still take back, as
the account store does with a repeated fact.)

### Discovery

*Connections* come and go at will (`Connect`, `Disconnect`), IDs of connections are not used
again, and the table of confirmed peers learns of them only when it reads them: on a notice, which
comes any time later, in a round, at a confirmation and in `BitBookPeers`. `confirmed` has the
order of the confirmations, which decides who leaves a full table. A peer that
has just reconnected is in the table until the next reading; the property is therefore
about what a reading leaves. `Ordered` is `slices.Sort`; it and `Dropping` are defined by what they
return, because the prover knows nothing of `SelectSeq`.

*Tasks.* A prober takes a candidate, opens a stream (perhaps on a new connection), waits for the
hello and then confirms the connection it came on; an inbound handler the same from its
second step. No lock is held in between. A probe may fail at any time, or run into its
deadline; `RoundBudget` such probes use up the 30 seconds of a round, whose remaining
candidates are dropped. The search for providers may fail, and the round with it (`SearchFails`).

*Left out:* advertising, the bytes of the hello, connections that are closed and still listed
(they count as gone), and the time that the search for providers takes. A round reads the
connections of its candidates at one instant.

### Orders

*Records.* `order[p]` is a trader's row: the state, which parts of the contract it has, and
the resolution of a dispute; `dispute` is the moderator's case; `ledger[p]` is what p's
wallet has said of the coin, `coin` where the money is.

*Calls.* An API call checks the record that it reads and then works through its effects one by one:
messages, spends, the write of the record it computed at the start. Handlers of messages and
callbacks of the wallet run in between, so that a call may overwrite what they stored. One call at a time
runs at a node. When the wallet refuses a spend because the coin is spent already, the call stores
what its code stores then, or nothing.

*Handlers are single steps.* In the code they are not: `handleReject` reads the purchase
(`handlers.go:726`), pays (800) and stores (864), and `ProcessDisputeOpen` reads, sends
`DISPUTE_UPDATE` and stores (`disputes.go:351-397`), without a lock against the calls of the API, so
that a handler may also overwrite what a call has stored since. The model has the overwriting of
a handler by a call, not that of a call by a handler.

*Messages* go over a stream or, when the sending fails, into offline storage (`Slow`), whose copies of one
message are one. A sending that failed may still have reached the peer, which then gets both (`twice`).
The retriever fetches stored messages in any order; what comes too early is put aside,
and a pass tries it again by the rank of its type and then deletes it, as the code does whether
or not it was handled. A direct message is lost only if its receiver stops.

*Messages that come again.* `cached[p]` is p's table of messages, one of each type of the order, and
`ResendCachedOrderMessage` sends one of them again whatever has become of the order. What `Purchase`
keeps is the online form of the order, which has the ID of the offline form only if the order is moderated or an
`ADDRESS_REQUEST`: a `DIRECT` order cannot come again, a moderated one can, also because only the answer
to the online form was lost (`PurchaseOffline`). `handleOrder` looks at no record: it stores the sale as new
(`HandleOrder`), confirmed if the message came over a stream, unconfirmed if a moderated one was stored.
`lost` remembers what the sale showed before, a confirmation or an award; no step looks at it.
`VENDOR_FINALIZED_PAYMENT` and errors are not kept.

*Left out here:* the new address of an `ADDRESS_REQUEST` that is confirmed again, as the wallet's callback finds the
order by its ID; the sale that is left at the vendor when only the answer to an online `ADDRESS_REQUEST` was lost and the
buyer then buys `DIRECT`, which is an order of its own; the copies that receivers keep of the messages they got.

*Restarts.* `Crash` ends a node's call, pass and streams. Offline messages whose goroutine has
not stored them yet when the sender stops are not modelled.

*Simplifications:* one item, one coin paid at once, awards to one side, no ratings, inventory or
amounts; `ORDER_PAYMENT`, `ORDER_PROCESSING_FAILURE` and `PARTIALLY_FULFILLED` are left out.

*Bounds:* `MaxDirect`, `MaxOffline`, `MaxCrashes`, `MaxRepeats` (messages that are sent twice or again), `MaxCalls`
(calls under way and repeats together), and for each way of payment the messages that may
be late (`Slow`) or are sent again (`Resent`) and the nodes that may restart; `ResentIn` says in which states of its
order a trader asks for it. In the run a moderated order has late and repeated orders
and no restart: with one it has millions of states more and shows nothing new.
The theorems have no such bounds: any message may be late, and any that the code keeps sent again, any number of times.

## 3. What is checked

| run | instance | shows |
|---|---|---|
| `DirectChat` | one chat, one receipt, one removal, two concurrent calls, two streams, one crash, storage errors | types; what is recorded as seen has had its effect, once; the service implements `Courier` |
| `DirectRead` | two chats and two receipts in every order, no crash | a read mark at the sender is backed by the recipient; every sent message and every receipt is accounted for |
| `DirectLive` | one peer makes two chats or follow changes, the second while the first may be retried | no promise is broken and every one is fulfilled; follower states are what the follower said, and both peers agree once nothing is under way; every call returns, also one that waits for `outboxMu` behind a pass |
| `AttachmentCrash` | four references with a limit of three, two files, every write may fail, crashes | types; a ready claim keeps its pin, `Open` never refuses, reports are durable, the pins and the accounting are those of the claims, the limits hold |
| `SocialLive` | two workers, the republish loop, two changes of any kind, failing writes and publications, one crash | types; every root has the counts of its lists; peers catch up in the end |
| `SocialRollback` | one worker, one change | finding: the loop publishes a root it committed before the change after the root with the change |
| `AccountDurable` | two grants of two devices, their revocations, a limit of three, every write may fail, crashes | types; no answer is taken back; shown authority is durable and not revoked; a restart rebuilds the same state; the store implements `Authority` |
| `PaymentLedger` | two requests with one ID, two cancellations, two streams, expiry, failing reads and writes, `Close`, restarts | types; the checks of a handler are all that saving asks for; what was accepted is accepted again; nothing changes after `Close`; the service implements `Ledger` |
| `RichCrash` | three posts in a journal of two, one of them without uploads, two uploads, one shared; every step may fail or be the last | types; no claim is lost or leaked; no answer is taken back; the journal can be opened and has the room it promised |
| `DiscoveryPeers` | two peers, three connections, a prober, a handler, a table of one, rounds of one connected peer | types; who is reported said hello on connections without a break; a peer that answers is confirmed again and again; `close` returns |
| `DiscoveryStarved` | two connected peers, rounds of both, one slow probe uses up a round | finding: the first peer is silent, the rotation comes back to it for ever, and the second is never probed |
| `OrderTrade` | one order paid in each of three ways, late messages, one that is sent twice or again, a restart of a trader without a moderator | types; records of a cancellation, refund, confirmation or shipment are backed; a moderated escrow is settled by agreement; recorded payouts happened. What an `ORDER` that came again has overwritten counts as recorded |

Why the bounds are enough: the hazards need two handlers for one envelope (two
streams), a call beside a pass or beside another call (two workers, in `DirectChat`;
one worker beside the passes in the two runs with more envelopes), a crash
between any two writes (one crash; a second one meets the same states), and
two envelopes that overtake each other (`DirectRead`, `DirectLive`). The runs of `Direct`
stop when the budgets of operations are used up and the outboxes are empty, so
deadlock is not checked.

Seven things that the model does, as the code does, are known and have no run of their
own; TLC finds each when the run named is changed as described.

- `DirectRead` with one crash: `OwedIsCarried` fails. `SendChat` stores the message in
  the history (`service.go:154`) before `sendDurable` can queue its envelope; a daemon
  that stops in between keeps a chat that nobody will ever send. A receipt is
  lost the same way between `markIncomingRead` and `queue`.
- `DirectChat`: a crash between `putMessage` and `markSeen` (`service.go:437`, `456`) and a
  removal by the user; the retried envelope passes the replay check and the
  removed message comes back: the invariant that two entries of one ID in
  `messages[p]` have the same `gone` fails.
- `AttachmentCrash` with `Reopens = TRUE` and only `NeverCorrupt`: it fails. A `Release` whose `Sync` failed,
  an `Open` on the running machine that finishes it by removing the pin (`store.go:488`),
  and a crash that brings the old record back leave a ready claim without its pin,
  and `Open` refuses the store for good.
- `PaymentLedger` with a third peer and two requests under one ID, one from ana to bea and the other
  from carl to ana: `ChecksSuffice` fails. The answer to ana's request is lost, so that ana
  records only its cancellation; when carl's request arrives, the checks of the handler do not see
  the cancellation's request and let it pass, and the validation of the whole collection refuses to save
  it. IDs are 32 random bytes that whoever makes a request chooses, so it takes a peer that uses
  another's ID. The proof of section 4 shows that it takes nothing else.
- `OrderTrade` with `ShippedIsPaid`, but without its `crashes = 0`: it fails. `RefundOrder` pays the buyer
  (`refunds.go:100`) before it stores `REFUNDED`, and `ConfirmOfflineOrder` stores
  `AWAITING_FULFILLMENT` (`confirmation.go:117`) before it sweeps the coin; a vendor that stops in
  between still has an order that it may ship.
- `OrderTrade` with `ConfirmationIsBacked`, but without its `lost`: it fails for a moderated order in five states. The
  vendor confirms the online `ORDER`, the buyer stores the confirmed purchase and asks for the message
  to be sent again (`POST /ob/resendordermessage`), it goes into offline storage, and the vendor that
  fetches it stores the sale as new and unconfirmed (`handlers.go:523`).
- `OrderTrade` with `ShippedIsPaid`, but without its `lost = {}`: it fails for an `ADDRESS_REQUEST`. An `ORDER` that is sent
  again and handled when the vendor has fulfilled the order makes the sale a new one, the wallet's next report
  of the payment makes it `AWAITING_FULFILLMENT` once more, and the vendor may refund what it has shipped.

`Attachment` has no budgets: its state space is finite by its sets. Sharing a file
needs two claims on it, beside a third reference that comes and goes, and a
fourth that finds the limit reached; two files of different lengths tell the
roots' accounting apart. A crash loses any subset of the unsynced writes. (Two files cannot
reach the limit on pins; the invariants of the proofs were checked with three as well.)

`Social` needs two goroutines that change lists and profile side by side (two
changes), the loop beside both, and a crash between a list and its count.

*Fairness* (`FairSpec` of `Direct`, used by `DirectLive`). Goroutines that can run do
run (weak fairness of handlers and of passes, which the ticker of `main.go`
starts again and again; strong fairness of calls, because `outboxMu` is a Go
mutex, whose starvation mode does not pass over a waiter for ever). An envelope
that is tried again and again is delivered again and again: the recipient is not
unreachable at every single pass. Without this assumption nothing can be
promised of a peer that never comes back. No fairness is assumed of users,
crashes or errors, and the run has no crash and no error: a crash loses calls,
and a promise is made only when a call returns.

`SocialLive` checks liveness under `FairSpec` of `Social`: goroutines go on, a Go
mutex passes over no waiter for ever, and among the rounds of the republish loop
are always some that find a peer and some whose publication succeeds. Without
that, nobody can be reached. Users stop after `MaxChanges` changes: while they go
on, peers need not catch up. The run has no state without a successor, so that a
lock that is never released would show.

`FairSpec` of `Discovery`: the loop, the probers and the ends of tasks go on, and among the
probes of a peer of `Answering` are always some that connect, hear and end in time, and some searches for providers succeed. Peers
may connect and disconnect for ever. A round of `DiscoveryPeers` never runs out of time
before its last candidate (`RoundBudget` is the number of candidates); `DiscoveryStarved` shows that this
is needed. There the DHT names nobody, so that only the connected peers count: with
32 connected, unconfirmed peers of which 24 are silent, the code's four workers,
five and thirty seconds do the same.

The other instances. `AccountDurable`: the third fact reaches the limit and the fourth
passes it; a fact and its repetition, a grant and its revocation meet in every order. `PaymentLedger`: two objects
of one kind are what replays and second cancellations take, two streams let a late
handler and its repetition meet. `RichCrash`: the shared upload can be gone when the second
post wants it, the third post is one too many, and 13 bytes make a deletion or a second
attempt compete for the last ones. `DiscoveryPeers`: a reconnection takes two connections of
one peer, an eviction a table of one and two peers, the rotation a round that
has not room for all. Users may stop at any time and so may
the daemon, so deadlock is not checked there.
`OrderTrade` may end too: an order is settled and all mail is read.

## 4. What is proved

Each theorem holds for any values of the constants that meet the assumption its model
declares (`DirectAssumption`, `AttachmentAssumption`, ...), which only says what
the constants are: any sets of peers, workers, streams, references or posts, any sizes and
limits, any number of envelopes, failures and crashes. Every inductive invariant was first
checked by TLC on the instance of its run, or on a smaller one.

**Direct messaging.**

- `DirectTypes`: `Spec => []TypeOK`.
- `DirectInvariant`: `Spec => []IInv`, where `IInv` conjoins the types with
  - `Fresh`, `Unique`: no envelope is younger than its creator's clock, so IDs
    are unique;
  - `CallsKnown`, `StreamsKnown`, `OutboxKnown`: what calls, streams and outboxes
    carry was created, and by the right peer;
  - `PassKeeps`: a pass still has before it, has kept or has delivered every
    envelope of the outbox, and keeps nothing else;
  - `AnswerBacked`: an accepting answer means that the envelope is recorded.
- `DirectPromiseKept`: `Spec => []PromiseKept`. `PromiseKept` is not inductive:
  that a pass may overwrite the outbox needs `PassKeeps`, which needs
  `AnswerBacked` and `Unique`.
- `DirectImplementsCourier`: `Spec => ImplementsCourier`. A step that marks an
  envelope as seen hands its item over, a step that queues one takes it, and the
  save at the end of a pass changes nothing, by `PassKeeps`.
- `DirectHistories`: `Spec => []HistoryInv`; from it `DirectAppliedOnce` and
  `DirectReadIsBacked`, whatever crashes and fails. `HistoryInv` traces what a peer shows
  back to what another did: entries come from chats (`EntriesKnown`) whose message nobody has
  before `SendChat` has stored it (`PutIsNew`), a receipt names a message that its sender has read
  (`ReceiptsBacked`), and what is about to be marked as seen has had its effect
  (`MarksApplied`, `SeenApplied`). That no history has a message twice follows because an
  ID belongs to one chat and a chat goes to somebody else (`ChatsApart`).
- `DirectOwedIsCarried`: `Flawless => (Spec => []OwedIsCarried)`. `Flawless` says that
  there is no crash and no storage error; the first counterexample of section 3 shows that
  it is needed. The invariant adds the same claim for follow changes (`FollowsCarried`).
- `DirectFollowsAgree`: `Flawless /\ OneAtATime => (Spec => []FollowsAgree)`. The newest
  change is the one that the list shows (`ListIsNewest`), by `OneAtATime` (clients make their calls
  one after another), and no newer one can be recorded (`FollowerStateSaid`).

**The attachment store.**

- `AttachmentTypes`: `Spec => []TypeOK`.
- `AttachmentPins`: `Spec => []PinInv`, where `PinInv` says that an ID is reserved
  or claimed, never both (`ReservedApart`), that an operation works on a claim
  in the state its step is for (`OpClaim`) with the pin as its next write needs
  it (`OpPin`), that a ready claim has its pin and a pin has a claim.
- `AttachmentPinsAreClaimed`: `Spec => []PinsAreClaimed`, from `PinInv`.
- If `Reopens` is `FALSE`, `AttachmentReadyPinned` and `AttachmentReportsAreDurable`:
  `Spec => []ReadyPinned` and `Spec => []ReportsAreDurable`. `ReadyPinned` is not
  inductive: that a release may unpin needs `Covered` (whatever a crash may leave
  of a claim is for the file that the store knows) and `OpDurable` (the claim that
  holds the lock has one record, the one in memory); recovery needs
  `RecoveringDurable`. The third counterexample of section 3 shows that the assumption is needed.
- `AttachmentQuotaExact`: `Spec => []QuotaExact`, however the store was opened. `QuotaInv` says
  what the accounting is at every instant of a working store: the roots of the claims, and those
  of the reservations that are no imports, each root once, and imports by the
  bytes they declare.
- If `Reopens` is `FALSE`, `AttachmentLeftLimited` and `AttachmentNeverCorrupt`: whatever mixture of
  written and unwritten records and pins a crash leaves keeps within both limits, names one file
  per claim and a pin for each ready one, so `Open` never refuses, nor for the pins that recovery adds. `LeftLimited` bounds every such
  mixture at once, by the union of all that may be left.

References are finitely many in `AttachmentAssumption`, as `ReferenceID` is an array of 16 bytes
(`types.go:32`).

**The social store** (other peers are finitely many).

- `SocialTypes`: `Spec => []TypeOK`.
- `SocialCounts`: `Spec => []CountInv`, where `CountInv` adds `Alone` (one goroutine at
  a time has `mu` over two writes) and `Counted` (a count is right, lagging, or about
  to be written by the goroutine that has `mu`).
- `SocialCountsMatchLists`: `Spec => []CountsMatchLists`, because a commit waits for
  `mu`. The lemmas `KeepsCounts`, `SetCounts`, `ListSaved` and `CountSettled` say what
  the four kinds of step do to the counts, `KeepsRoots` where roots come from.

**Rich posts.** `RichPostInvariant`, and from it `RichPostTypes`, `RichPostClaims`
(`ClaimsMatchPosts`), `RichPostAnswers` (`AnswersSurvive`) and `RichPostJournal` (`JournalSound`).

- Only a poisoned store is in doubt about a record (`Certain`), a call has done what its step
  comes after (`CallFollows`), and in an open store nothing but its post is in the middle of
  something (`Middle`).
- `JournalSound` is not inductive. `LeftSound` says that every journal that a crash may leave is
  within both limits; `PrepareFits` that the room between a `preparing` and an
  `aborted` record is still there, so that recovery can roll back every unfinished post: a
  record that may or may not have been written counts with the longer of its two lengths.

**The account store.**

- `AccountTypes`: `Spec => []TypeOK`; `AccountAlwaysDecodes`: whatever a crash leaves can be
  opened; `AccountReopenAgrees`: the state of a handle is the one that a restart
  rebuilds from its log. These hold however the store was opened.
- If `Reopens` is `FALSE`: `AccountAnswersSurvive`, `AccountAuthorityIsBacked` and
  `AccountImplementsAuthority` (`Spec => ImplementsAuthority`). The inductive invariant
  says that at most the last fact of a log is in doubt (`Chain`), and that it is the
  one the handle is writing (`HandleSure`).

**Payment.**

- `PaymentInvariant`: `Spec => []IInv`: a stream carries an object between the two peers the object
  names (`StreamsAddressed`), an accepting answer has its record at the payer (`AnswersBacked`),
  what a payee recorded its payer has accepted (`OutboundBacked`), every stored collection
  is valid (`RecordsValid`), and a closed service has no handler left (`ClosedQuiet`). `PaymentTypes` is a part of it.
- `PaymentAcceptedForGood` and `PaymentQuietAfterClose`, action properties: what was accepted is
  never refused again, and nothing is recorded after `Close` has returned.
- `PaymentImplementsLedger`: `Spec => ImplementsLedger`.
- `PaymentChecksSuffice`: `IdsIdentify` implies `Spec => []ChecksSuffice`, where `IdsIdentify` says that
  requests with one ID have one payee and one payer. The fourth counterexample of section 3
  shows that this is needed. It allows several requests with one ID or one nonce between two peers.

**Discovery.** `DiscoveryInvariant`, and from it `DiscoveryTypes` and `DiscoveryConfirmedStaysConnected`:
the table never knows a connection that was never made, a task that has heard a hello did so on
a connection that, if it is still up, has been up ever since (`TasksSound`: IDs of connections are not used
again), and `close()` leaves no candidate (`Ended`). That a round's candidates are peers
takes `OrderedFacts`: a finite set of numbers can be put in order, by their ranks.

**Orders.** `OrderInvariant`: `Spec => []IInv`, and from it `OrderTypes`, `OrderRecordsBacked`
(`RecordsAreBacked`), `OrderSettledByAgreement` (`SettledByAgreement`) and `OrderPayoutHappened`
(`PayoutHappened`), for any ways of payment, messages that are late or sent again, nodes that restart and bounds. The
assumptions are those of `Order`: the parameters have their types, and `None` is not among the three ways of
payment, nor a contract, resolution or case.

What the theorems say of an order whose `ORDER` comes again: `CanceledIsRefunded` (a part of `RecordsAreBacked`) and
`PayoutHappened` hold over any number of repetitions. `ConfirmationIsBacked` and `SettledByAgreement` hold with
"the vendor has it on record" weakened to "has, or had until an `ORDER` that came again overwrote the record"
(`lost`), and `ShippedIsPaid` only while nothing has been lost so; section 3 shows that they need this.

None of the three is inductive. A record is written by a call that read the contract some steps before
and may have been overtaken by handlers, or by a handler of a message that was sent long ago and may
have been put aside, so `IInv` says the same of everything on the way:

- `Base`: types; nothing before the purchase (`Unstarted`); what the calls of each party
  may still have to do (`Fitting`); no award without a moderator (`Unmoderated`).
- `Ordering`: a vendor without a record does nothing; the vendor of an `ADDRESS_REQUEST` always shows a
  confirmation, since every repetition confirms again; a `DIRECT` order comes once (`Single`, which follows
  it from the call of the buyer to the record of the vendor); and a new sale with nothing lost has no call of the vendor yet.
- `CalledOff`: a step towards a cancellation comes after the payment to the buyer.
- `Confirmation`: whatever tells the buyer of a confirmation, be it a message, a record or a pending store,
  means that the vendor `Holds` it: its record and every record that its call
  has yet to store have it, or it is in `lost`. It fixes the rest of a confirming call step by step (`Confirming`), because the
  vendor may still put its old record back (`recoverState`), but only while nothing has been sent.
- `Agreement`: in a moderated order a payment to the vendor, made or pending, comes after the timeout
  or a shipment that the buyer `Holds` or an award that a trader does; who completes holds the shipment.
- `Acceptance`: an award recorded as accepted is paid, or its payment is the next effect of the call.
- `Finalized`: whoever is told of a finalized payment, the coin is with the vendor, and without a moderator
  in a state from which no refund begins (`Settled`). `AtAddress`: the price of an `ADDRESS_REQUEST` is never in the escrow.
- `Awaiting`, `Refunding`, `Sweeping`: a vendor that confirmed before the payment gave its own address, a
  refund ends with a record of it, and a call that sweeps the escrow decides nothing else.
- `Shipping`: without a moderator, a restart and anything `lost` (`Steady`), a vendor whose record says
  that it may ship has the price, or the sweep that brings it is yet to come (`Owed`), and a shipment
  comes after the sweep (`Settling`). The fifth and the last counterexample of section 3 show what a restart
  and a repeated `ORDER` do.

*How the proofs are laid out.* They go action by action; "effect" lemmas (`SeenEffect`, `OutboxEffect`,
`PassEffect`, ...) say once which actions change a variable. In `OrderProofs` calls, handlers and
effects change the same few variables, so its lemmas on moves (`RecordMoves`, `CallMoves`,
`ToldMoves`, `StateMoves`, `PartMoves`, `CoinMoves`) say once what can change a record, a call, the messages
under way, a state, a part of the contract and the coin, and the parts of `IInv` are proved from
these. Sums over finite sets are cardinalities of sets of units (`Sums`), so
that facts about finite sets do where induction over data is not available.

*What is only model-checked:* liveness (`PromiseFulfilled`, `CallsReturn`, `PublishedCatchesUp`,
`PeersAreFound`, `CloseReturns`), which is beyond the prover.

## 5. Plan

1. `RetryOutbox`: one pass under its 45 seconds with 10 seconds per delivery; is
   every envelope of a reachable peer tried in the end? (`Direct` lets a pass try all.)
2. `LocalMedia`: two work slots and 128 playback handles under cancellation and expiry.
3. `RichPost` over the actions of `Attachment` itself.
4. Pure operators: ranges of media requests.

## 6. Not modelled

- `network/node.go`, `identity.go`, `open.go`, `files.go`: wiring of libp2p, Bitswap and IPNS, and
  imports and copies of files; what other parts need of them is modelled there.
- `localclient/server.go`: a listener and its descriptor file, mostly I/O. `localclient/media.go` is planned.
- `publiccontent`, `payment/canonical.go` and `signature.go`, `accountauth/records.go`, the parsers of
  `social/richpost.go` and `attachment/codec.go`: pure functions of byte strings, tested and fuzzed
  in the repository.
- Flags, start and stop of `cmd/bitbookd/main.go`; routing and JSON of the APIs.
- Of the 2018 node: everything but orders. Follows, chats, posts, listings, profiles and settings are
  single reads and writes of a table or a file; migrations and schema run once, before anything
  else; the IPFS and mobile wrappers and the generated protobuf code have no protocol of
  their own.
