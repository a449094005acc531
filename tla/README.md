# TLA+ models of finpal-basic

This directory holds TLA+ models of the parts of finpal-basic (`src/src/mtchain/...`) whose
correctness depends on control flow: the order of checks, which ledger view a change lands in,
and what a long sequence of legal steps can reach. Every definition is translated from the C++
source. Code that the repository does not contain is modelled from `spec.md`: the Transactor
that runs preflight, preclaim and doApply, the BookTip cursor, `offerDelete` and `dirAdd`.
`PROJECT.json` maps each definition to the lines it models. Those built from the spec are
marked `spec_modelled`.

## 1. Inventory

| Component | Source | State | Operations | Status |
|---|---|---|---|---|
| Payment channels | `app/tx/impl/PayChan.cpp` | account balances and owner counts, owner directories, channel objects (owner, destination, Amount, Balance, SettleDelay, PublicKey, CancelAfter, Expiration) | PayChanCreate, PayChanFund, PayChanClaim (preflight, preclaim, doApply each); `closeChannel` | modelled (`PayChan`) |
| Result classes | `protocol/TER.h` | none (values) | the values of `enum TER`, `isTesSuccess`, `isTecClaim` | modelled (`TER`, used by `PayChan`) |
| Offer stream | `app/tx/impl/OfferStream.cpp` | live view `view_`, pristine `cancelView_`, book tip, step counter, `permToRemove_` | `step()`, `erase`, `permRmOffer` (two policies), `accountFundsHelper` | modelled (`OfferStream`) |
| Directory iteration | `ledger/impl/Directory.cpp` | pages of indexes linked by `sfIndexNext`; the iterator (page, position, index) | `begin`, `end`, `find`, `operator==`, `operator++` | modelled (`Directory`) |
| Offer cancel | `app/tx/impl/CancelOffer.cpp` | the offers, keyed by (account, sequence); account Sequences | preflight, preclaim, doApply | modelled (`OfferStream`) |
| Quality / Rate | `protocol/Quality.h`, `protocol/Rate.h` | none (values) | `TAmounts::empty` (used); `ceil_in`/`ceil_out` are declared but defined in `Quality.cpp`, which is not in the repository | partly |
| Cached SLEs | `ledger/impl/CachedSLEs.cpp` | chronological list of entries, holders of each entry, the clock | `expire` (`rate` only reads) | modelled (`CachedSLEs`) |
| Load monitor | `core/impl/LoadMonitor.cpp`, `core/LoadEvent.h` | decaying counters, targets, the uptime clock; each LoadEvent's state and times | `update`, `addLoadSample`, `addSamples`, `isOver`, `getStats`, `setTargetLatency`; LoadEvent construct, `start`, `stop`, destroy | modelled (`LoadMonitor`) |
| Bootstrap cache | `peerfinder/impl/Bootcache.cpp` | the valence-ordered cache `m_map`, `m_needsUpdate`, the cooldown, the persistent Store | `load`, `insert`, `on_success`, `on_failure`, `prune`, `update`/`checkUpdate`/`flagForUpdate`, `periodicActivity`, the destructor | modelled (`Bootcache`) |
| Peer slots | `peerfinder/impl/SlotImp.cpp`, `Slot.h` | slot state | none here: `PeerFinder::Logic` makes the transitions and is not in the repository | not modelled |
| RPC server | `rpc/impl/ServerHandlerImp.cpp` | ports from `[server]`, per-port connection counts, each session's stage, each address's resource balance | `setup_ServerHandler` (`parse_Ports`, `to_Port`, `setup_Client`, `setup_Overlay`), `onAccept`, `onHandoff` (both), `onRequest`, `processSession` (HTTP and WebSocket), `processRequest`, `onWSMessage`, `onClose` | modelled (`ServerHandler`) |
| Cluster | `overlay/impl/Cluster.cpp` | node reports (name, load fee, report time) | `load`, `update` (`member`, `size`, `for_each` only read) | modelled (`Cluster`) |
| RPC handler table, traffic counters, metadata, paths, keys, DB, timers, logging, JSON, test helpers | the remaining files | | | not modelled (I/O, formatting, value types; see `PROJECT.json`) |

### How the parts interact

A transaction runs through the Transactor in a fixed order:

1. preflight: a check of the transaction alone.
2. preclaim: a check against the ledger before the fee is taken.
3. The fee is taken.
4. doApply runs against a view of the ledger.

The outcome decides what is kept. `tesSUCCESS` keeps doApply's view. A `tec` code keeps only the
fee. Any other code keeps nothing.

The payment-channel transactions are three such transactors. They share `closeChannel`, which
runs for an explicit close. It also runs implicitly whenever a Fund or Claim finds the channel
past `CancelAfter` or `Expiration`.

An offer-crossing transaction walks an order book through an offer stream. The book is a
`Dir`-like chain of directory pages. The stream repairs dangling directory indexes with
`erase`, which removes the index from its page but leaves an emptied page linked. That repair
is what puts the directory iterator into states it was not written for.

### Hard behaviours

- Payment channels:
  - The three-view result rule: a preflight failure changes nothing, a `tec` burns the fee only,
    and `tes` keeps everything.
  - Preclaim reads the ledger before the fee is taken; doApply reads it after.
  - The signer rules of a claim.
  - The settle delay that protects the destination.
  - The implicit close on expiry racing a late claim.
- Offer stream:
  - Two views diverge inside one session.
  - "Found unfunded" versus "became unfunded" is decided by comparing the two views.
  - Step budget exhaustion ends a session mid-book.
- Directory:
  - Iteration over pages that a repair has emptied.
- CachedSLEs: a loop that erases from the list it walks, while other threads hold entries.
- Cluster: peer reports delivered late, out of order or twice.
- LoadMonitor: integer decay with mixed rounding, and a reading in the same second as a sample.
- ServerHandler:
  - Coroutines of one address test `disconnect()` and charge only after `doCommand`, so
    they all pass the test before any charge lands.
  - Connections are counted before the limit test.
  - `processRequest` has many exits, and each must charge exactly right.
  - The standalone loop erases from the vector it walks.
- Bootcache:
  - `prune()` runs between an insert and the read through the insert's iterator.
  - Integer arithmetic decides how much `prune()` removes.
  - Writes wait for a cooldown, and a crash loses them.

## 2. Modules

### `TER.tla`: transaction results

A result is named by its enumerator. `TERValue` gives its value in `enum TER`: each class
starts at an explicit value and counts up. It covers every result the modelled transactors
return, plus `tecCLAIM` and `tesSUCCESS`. `isTesSuccess` and `isTecClaim` compare values, as
the header does, so a code's class comes from its value, not from a hand-made list.
`PayChan` extends it.

### `PayChan.tla`: payment channels

The state is `ledger = [bal, ownerCount, dir, chan]`, plus:

- `now`: the parent close time.
- `burned`: fees destroyed.
- `used`: channel ids taken.
- `authorized[c]`: the highest balance the channel key has signed for. This is an off-ledger
  fact, set by `SignClaim`.
- `notice[c]`: the close time at which the current expiration was first set. This is a history
  variable for the settle-delay property.
- `submitter`: the account of the last applied transaction.

Each transactor step is an operator from a view to a result:

| Operator | Models |
|---|---|
| `CreatePreflight`, `CreatePreclaim`, `CreateDoApply` | `PayChanCreate` |
| `FundPreflight`, `FundDoApply` | `PayChanFund` |
| `ClaimPreflight`, `Verified`, `ClaimDoApply` = `ClaimBalance` then `ClaimFlags` | `PayChanClaim` |
| `closeChannel` | the shared close |

Each doApply returns `[ter, view]`. `Transact` applies the Transactor rule around it:

- A failed preflight, or a balance below the fee (`terINSUF_FEE_B`), leaves the state unchanged.
- A failed preclaim or a `tec` result burns the fee only.
- `tesSUCCESS` keeps doApply's view.

`CreateDoApply` inserts the channel, then calls `dirAdd` (View.cpp, not in the repository,
modelled from its contract). `dirAdd` fails with `tecDIR_FULL` when the owner directory has no
room. What fills a directory (offers, trust lines) is outside this model, so whether it is
full is an input of each create. The failure returns with the insert still in the view, and
the `tec` rule discards it; `OwnerRecordsConsistent` catches a create that ignores the failure.

The actions are `PayChanCreate`, `PayChanFund`, `PayChanClaim`, `SignClaim` and `CloseLedger`.
Their inputs are small sets:

- The destination may be `Ghost`, an account that does not exist.
- The public key may be `BadKey`, which `publicKeyType` rejects.
- Optional fields may be `None`.

### `EscrowChannel.tla`: what a channel promises

This is the abstract channel of spec section 3, with no fees, reserves, directories,
signatures or time. Each channel id has a `status` of none, open or closed. An open channel
has an `owner`, a `dst`, the amount `funded` and the amount `paid`. The actions are:

- `OpenChannel`: the parties differ and nothing is paid yet.
- `Deposit`: `funded` grows.
- `Pay`: `paid` grows and stays within `funded`.
- `Close`: the channel closes for good.

`PayChan` maps onto it through `Escrow == INSTANCE EscrowChannel WITH ...`:

- `status` comes from `AbsStatus`: open when the channel object exists, closed when the id is
  in `used` and the object is gone, none otherwise.
- `funded` is `Amount`, `paid` is `Balance`, and the parties are the channel's.

`EscrowRefined == Escrow!Spec` is checked as a `PROPERTY`. Transactions that change no abstract
field, like setting an expiration or renewing, are stuttering steps.

### `OfferStream.tla`: one matching session over one order book

A view is `[book, offer, funds]`:

- `book`: the directory's keys in quality order.
- `offer[k]`: the offer behind key `k`, or `Missing` for a dangling index.
- `funds[o]`: the owner's holdings of the book's out currency.

`StepIteration` is one pass of the `for(;;)` loop of `TOfferStreamBase::step`, in the code's
order:

1. The tip advances, deleting the previous offer from `view_`.
2. The step counter is checked.
3. A missing entry is erased from both views.
4. An expired or empty offer goes to `permRmOffer`.
5. An unfunded offer goes to `permRmOffer` only if the cancel view shows the same funds.
6. Otherwise the stream yields the offer.

`policy` is the stream class of the session, chosen by `Begin`, and selects the
`permRmOffer` policy:

- `OfferStream` deletes from `cancelView_` at once.
- `FlowOfferStream` collects keys in `permToRemove_`.

The taker is the environment, with these actions:

- `Begin`
- `Consume` (a full fill asks for the next offer; a partial fill ends the session)
- `Stop`
- `Commit` (keep `view_`, or fall back to `cancelView_`, then apply `permToRemove_`)

Between sessions, `CancelOffer(a, seq, flags)` is the CancelOffer transaction.
`CancelPreflight`, `CancelPreclaim` and `CancelDoApply` are its three phases. `OfferId` gives
the (account, sequence) of each offer key, which is what `getOfferIndex` hashes, and the ledger
holds each account's `Sequence`. The Transactor rule (`CancelResult` and the Sequence bump)
comes from the spec: a `tem` result applies nothing, and an applied cancel consumes a sequence.

### `Directory.tla`: `Dir` and its iterator

`pages` is the sequence of page index lists, with the root first. Page `p` links to `p+1`, and
the last page links to 0.

An iterator is `[page, pos, index]`, with `Zero` for the zero hash. The operators mirror the
code:

- `begin`, `End`, `IsEnd` (`operator==`), `find` and `Advance` (`operator++`).
- `Advance` is built from the helpers `StepInPage`, `NextPage`, `OffLastPage` and `At`.

The actions are:

- `Begin` and `Find(p, k)`.
- `Increment`. Its guard is the `assert(index_ != zero)` of `operator++`.
- `Erase(p, k)`, which is `OfferStream::erase` applied to a page.

`Init` builds the directories `dirAdd` builds: no page is empty.

### `CachedSLEs.tla`: the ledger-entry cache's sweep

`chron` is `map_.chronological`, oldest first, each entry `[key, when]`. `holders[k]` counts
the `shared_ptr`s to `k`'s entry held outside the cache, so `unique` is `holders[k] = 0`.

- `Walk(s, i, t)` is the `for` loop of `expire()` (lines 27-38), recursive over the position.
  An erase returns the successor and the loop's `++iter` then steps past it. When the erase
  returns `end()`, incrementing `end()` of the circular list either lands on `begin()` or
  stops, and `Walk` returns both outcomes.
- `Expire` is `expire()`: `expireTime = now - timeToLive_`, then one of `Walk`'s results.
- `Fetch`, `Release` and `Tick` are the environment: `fetch` touching or inserting an entry
  for a caller who holds it, the caller dropping it, and the clock.

### `Cluster.tla`: cluster membership

`nodes[id]` is the `ClusterNode` of `id` or `None`. `update` returns `[ok, nodes]` like the
C++ (`false` for a report not newer than the stored one). `load` is the line loop of
`Cluster::load`: `Malformed` stands for a line the regular expression rejects and `Invalid`
for an identity that does not parse, a duplicate is skipped, and a config line is
`update(id, comment)` with fee 0 and time 0. `Load` runs once at startup; `Receive` is a
peer's report, with any node, name, fee and time, so reports are reordered and repeated.
`section` is a history variable: the lines `Load` was given.

### `LoadMonitor.tla`: job latency and its decay

The five counters are the C++ members. `update(m, t)` returns the counters brought to second
`t`: unchanged in the same second, reset when the clock went back or moved more than 8
seconds, otherwise `Decay` once per second with the code's rounding. `addSamples` is the code
with its `update()` first. `Read` is `isOver`/`getStats`, whose only state change is the
`update()`. A LoadEvent is `[state, waiting, running]`: `Create` (constructor, started or
not), `Start` (elapsed time goes to waiting, also when already running, as `LoadEvent.h`
documents), `Stop` (elapsed time to running, then `addLoadSample` with the jitter rule) and
`Destroy`. LoadEvent.cpp is not in the repository, so those four follow the header's
declarations and comments. `fresh` is a history variable: the latency of the last sample
while its second lasts.

`setTargetLatency` writes its two targets without the mutex. It is therefore two actions,
`SetTargetFirst` and `SetTargetSecond`. The first writes either target, because the data race
lets a reader see either write first. `pending` holds the call's targets until the second
write. `IsOver` is the verdict `isOver` and `getStats` would give in the current state. No
property is checked of the race. The harmful case is an alarm that both the old and the new
targets raise but the torn pair misses, and showing it needs a violation run, which this
project has no slot for. The converse, no false alarm, holds for any test that checks each
target on its own, so it says nothing about this code.

### `ServerHandler.tla`: the RPC server front end

`Setup(config, alone)` is `setup_ServerHandler`:

- `parse_Ports` with `to_Port`'s checks (`to_PortOk`).
- The standalone erase loop (`StripPeer`, recursive over the position, like the iterator).
- The more-than-one-peer check (`PeerPorts`).
- `setup_Client` and `setup_Overlay` (`SelectInSeq`: the first matching port).

A configuration is a `[server]` flag and a sequence of port sections. `Missing` is a name
without a section. A port section records only what the code tests: ip present, port
number ok or zero, protocols, limit, and whether it has credentials. A failed setup is
terminal: the application stops.

`count` is `count_`, per port. `sess[s]` is a connection slot:

- `st` is its stage: `open`, `request`, `queued`, `command`, `wsread`, `wsjob`, `wscommand`,
  `closing`, `rejected` or `free`.
- It also records the port, TLS, the remote address, and whether its consumer is unlimited.

`balance[ip]` is the resource manager's balance of the address. `last[s]` records the kind
of the last reply and how many charges it cost. The actions follow the handlers:

- `Accept` and `End` are `onAccept` and `onClose`.
- `Handoff` is both `onHandoff` overloads (`onHandoff` decides the next stage).
- `OnRequest` is `onRequest` with `authorized`.
- `Check` and `Command` are the HTTP `processSession` and `processRequest`, split at
  `doCommand` because other coroutines run while it does.
- `WSMessage` is `onWSMessage`. `WSCheck` and `WSCommand` are the WebSocket `processSession`,
  split the same way.
- `Decay` is the resource manager's decay.

The role (`requestRole` of `Role.cpp`, not in the repository), whether the JSON parses, the
method and params shapes, and the `loadType` a command leaves are inputs chosen with `\E`.

### `Bootcache.tla`: the peer finder's bootstrap cache

`map` is `m_map`'s right view: a sequence of `[ep, val]`, highest valence first. Equal
valences keep their insertion order (`InsertSorted`, the `multiset_of` insert). The order
itself is declared in `Bootcache.h`, which is not in the repository. `store` is the set of
rows the Store last saved; it survives restarts. `cooling` abstracts
`m_clock.now() <= m_whenUpdate`. `readErased` is a history variable: an entry was read
through an iterator that `prune()` erased.

The operators and actions:

- `prune` is `prune()`: over `BootcacheSize`, erase `Len * PrunePercent \div 100` entries from
  the end.
- `Flagged` is `flagForUpdate` followed by `checkUpdate`.
- `checkUpdate` is `periodicActivity`.
- `Start` is construction plus `load` (`clear`, then each stored row inserted in any order
  the Store returns, then `prune`).
- `insert`, `on_success` and `on_failure` (sharing `Record`).
- `Stop` is the destructor's `update()`.
- `Crash` loses the cache but not the Store.
- `Tick` ends the cooldown.

## 3. Runs

| Run | Config | Expect | Shows |
|---|---|---|---|
| `paychan_safety` | `MCPayChan.cfg` | pass | conservation, claims within funds and signatures, owner records, settle delay, the reserve after a create's fee, and the refinement of `EscrowChannel` |
| `paychan_negative_amount` | `MCPayChanNegative.cfg` | violation | a create with a negative Amount succeeds (the check at PayChan.cpp:159 is commented out) |
| `offerstream_sessions` | `MCOfferStream.cfg` | pass | OfferStream and FlowOfferStream sessions in turn remove the invalid offers they pass, and never remove a merely drained one; CancelOffer between them removes exactly the offer it names |
| `directory` | `MCDirectory.cfg` | pass | with up to two repairs, iteration never repeats or skips over what it produces; while no page is empty, iterators are valid and `end()` comes after every index |
| `directory_repair_empty_page` | `MCDirectoryRepair.cfg` | violation | an emptied page breaks iteration: an emptied root makes `begin() == end()` with indexes left; `operator++` onto an emptied later page gives an iterator that is neither `end()` nor dereferenceable |
| `cachedsles_expire` | `MCCachedSLEs.cfg` | pass | a stale unheld entry is eventually dropped while the sweep timer runs |
| `cachedsles_sweep_skip` | `MCCachedSLEsSweep.cfg` | violation | one `expire()` skips the entry after each one it erases (CachedSLEs.cpp:36) |
| `cluster_reports` | `MCCluster.cfg` | pass | a server runs only on a section loaded whole; the first line naming a node sets its name, in either order of a duplicate; whatever the delivery order, a node holds its newest report |
| `loadmonitor_peak` | `MCLoadMonitor.cfg` | pass | a reading in the second of a sample reports a peak of at least that sample's latency, with the unlocked target writes interleaved |
| `server_handler` | `MCServerHandler.cfg` | pass | ports serve below their limit; each answer is charged per its path; the overdraft of concurrent sessions is bounded; a standalone server keeps no peer protocol; every request handed to the handler is answered |
| `bootcache` | `MCBootcache.cfg` | pass | the cache stays a bounded ordered bimap; `prune` drops only the worst; the Store matches the cache when no write is pending; a pending write happens while the process runs |
| `bootcache_pruned_read` | `MCBootcachePruned.cfg` | violation | `on_failure` of a new address in a full cache reads the entry `prune()` just erased (Bootcache.cpp:171) |

### Properties

**PayChan**

| Property | Kind | Statement |
|---|---|---|
| `ValueConserved` | invariant | Balances, plus the unclaimed funds `Amount - Balance` of open channels, plus fees burned, equal the initial drops. |
| `ClaimWithinFunds` | invariant | `0 <= Balance <= Amount`. |
| `PaidOnlyAuthorized` | invariant | A channel whose key is not the destination's own never pays out more than the key holder signed for. |
| `OwnerRecordsConsistent` | invariant | Each owner directory lists exactly the owner's open channels, and `OwnerCount` is its size. |
| `ReserveAfterFunding` | action property | A step that opens or adds to a channel leaves its owner at least the reserve for its new owner count minus one fee (Create tests before the fee, Fund after). |
| `SettleDelayHonoured` | action property | A channel that closes on anyone but the destination, with funds unclaimed, does so only past `CancelAfter` or at least `SettleDelay` after the expiration was first set. |
| `EscrowRefined` | refinement | `PayChan` implements `EscrowChannel` under the mapping above. |

**OfferStream**

| Property | Statement |
|---|---|
| `PristineFundedOffersSurvive` | An offer valid when the transaction began is never removed permanently. |
| `ExaminedInvalidRemoved` | Every passed-over offer that was already invalid leaves the ledger, whichever view commits. |
| `CancelRemovesOnlyNamed` | (action property) A cancel removes exactly the named offer, and only for an already-used sequence; cancelling a missing offer succeeds and changes no offer; Sequence advances exactly when the cancel applies. |

**Directory**

| Property | Statement |
|---|---|
| `IteratorValidNoEmpty` | While no page is empty, every iterator handed out is either `end()` or dereferenceable. |
| `VisitedInOrder` | The indexes produced form a contiguous run of the directory's entries, in order, whatever the repairs did. |
| `AtEndAllVisitedNoEmpty` | While no page is empty, reaching `end()` means every entry from the start was produced. |
| `IterationComplete` | (violation run) Both of the above (`IteratorValid /\ AtEndAllVisited`) whatever the repairs left. |

**CachedSLEs**

| Property | Kind | Statement |
|---|---|---|
| `StaleEventuallyEvicted` | liveness | An entry past its time to live that nobody holds is eventually dropped, touched or taken. |
| `ExpireSweepsAll` | action property (violation run) | One `expire()` leaves no stale unheld entry. |

**Cluster**

| Property | Kind | Statement |
|---|---|---|
| `LatestReportWins` | invariant | A node's entry carries the time and fee of its newest delivered report. |
| `ConfigLoadedWhole` | invariant | A running server's section had no malformed or unparsable line, and every configured node is a member; until a report about it arrives, it holds the name of the first line naming it, fee 0 and time 0. |

**LoadMonitor**

| Property | Kind | Statement |
|---|---|---|
| `FreshSampleInPeak` | invariant | In the second of a sample, the reported peak per event is at least that sample's latency. |

**ServerHandler**

| Property | Kind | Statement |
|---|---|---|
| `ServedWithinLimit` | invariant | On a port with a limit, fewer sessions than the limit are served at once. |
| `ChargedOnce` | invariant | Each answer is charged exactly once, except the free ones: unparsable, overloaded, no reply, invalid websocket JSON, and the undelivered slowDown. |
| `OverdraftBounded` | invariant | An address's balance exceeds the drop level by at most one largest charge per session. The bound is tight: TLC refutes it one lower. |
| `StandaloneWithoutPeer` | invariant | A running standalone server has no peer protocol and no port without a protocol. |
| `RequestsAnswered` | liveness | A session waiting on `onRequest` or on a posted coroutine is eventually answered (or closed). |

**Bootcache**

| Property | Kind | Statement |
|---|---|---|
| `TypeOK` | invariant | Besides the types, each address has one entry, and the view is ordered by valence. |
| `CacheBounded` | invariant | The cache never holds more than `BootcacheSize` entries. |
| `StoreMirrorsCache` | invariant | While the cache is up and no write is pending, the Store holds exactly the cache. |
| `PruneKeepsBest` | action property | An entry dropped in a step has a valence no higher than any kept entry. |
| `EventuallySaved` | liveness | A pending write happens, unless the process goes down first. |
| `PrunedEntryNotRead` | invariant (violation run) | No entry is read after `prune()` erased it. |

Every property of a passing run has a mutant in `PROJECT.json`: a plausible bug in a mapped
definition that TLC finds. Examples:

- A refund of the whole `Amount` on close.
- `dirAdd`'s failure ignored by PaymentChannelCreate.
- A found-unfunded test that ignores the cancel view.
- `operator++` reading the old position.

### Bounds

**PayChan.** 3 accounts, one of them requiring a destination tag and one disallowing incoming
payments, plus `Ghost`, which has no account root. One channel id. Amounts `{0,1,2}`. Settle
delay 1. Close times `0..2`. Fee 1. Reserve 1 + 1 per object. 5 drops each. At most 3 fees
burned.

These bounds are enough because:

- Every branch of every preflight, preclaim and doApply is reachable.
- A channel can be funded, claimed, partly signed, set to expire, expired, and closed by either
  party.
- Because the fees bound the number of transactions, the reserve tests are exercised at the
  boundary.

The refinement is checked in the same run at these bounds: about 2 minutes in all. At 2 fees,
the settle-delay mutant escapes, because closing an expired channel needs a create, an
expiration set by a fund, and then the close.

**OfferStream.** 3 offer keys and 2 owners, one of whom issues the currency. Out amounts and
holdings `{0,1,2}`. One close time, with expirations `None` or equal to it, which is the `<=`
boundary. Step budget 2 for 3 offers, so the budget runs out. Every combination of dangling,
expired, empty, unfunded and valid offers is an initial state. alice has offers at sequences
1 and 3 (2 has no offer) and gw at 2, with Sequence 4 for both. Cancels name sequences 0 to 5,
which covers the zero, existing, used-but-offerless, equal-to-Sequence and future cases. One
applied cancel per account.

**Directory.** 3 keys over 1 to 3 pages. Up to 2 repairs in the pass run, so a repair can
follow a repair and a page can be emptied in either order. 1 repair in the violation run,
enough to empty the root or a later page.

**CachedSLEs.** 3 keys, time to live 1, clock `0..3` (`0..2` for the sweep run), one holder
per entry at a time. Three entries can be stale at once, so an erase is followed by another
stale entry (the skip) and the last entry can be erased (the `end()` case).

**Cluster.** 2 identities, names `""` and one real name, fees and times `{1,2}`, and five
configurations: empty, one line, a duplicate after a named line and one after an unnamed
line, a good line before a malformed one, and an invalid identity. Two times per node give newer, older and equal reports.

**LoadMonitor.** One job (the monitor's calls are serialised by its mutex, so more jobs add
no interleaving), durations `{0,1,3}` ms with at most 4 ms per job, so totals fall on both
sides of the 2 ms jitter threshold. The clock runs to 10 s in jumps of up to 9 s, which
reaches the decay path, the same-second path and the reset beyond 8 s. Three samples.
Targets `{0, 2}`: a zero target (no target) and one the latencies cross, in both orders of
the two writes. About 4.4 million states, about a minute.

**ServerHandler.** 2 session slots from 1 address, 5 configurations:

- a limited (2) credentialed http/ws port with a peer/wss port;
- two peer-only ports before an RPC port, which tests the standalone loop's erase of
  consecutive ports and the more-than-one-peer refusal;
- a missing section;
- a zero port number;
- no `[server]`.

Also: fees 1 and 2, `feeInvalidRPC` 2, drop level 3, so two sessions can overshoot the drop
level together. 128 thousand states.

**Bootcache.** 3 addresses, cache size 2, prune 50%, so the third address forces a prune of
one entry. Valence within -2..2, so on_success and on_failure both reset a valence of the
other sign. 2 restarts, so a crash, a stop and the reload from the Store all happen.

### Fairness

Three liveness properties are checked:

- `StaleEventuallyEvicted`, under `WF_vars(Expire)`. The cache's owner calls `expire()` from a
  periodic sweep timer, so a sweep that stays possible is eventually taken.
- `EventuallySaved`, under `WF_vars(checkUpdate)` and `WF_vars(Tick)`. The peer finder's
  timer calls `periodicActivity`, and the clock passes the end of the cooldown.
- `RequestsAnswered`, under weak fairness per connection slot of `OnRequest`, `Check`,
  `Command`, `WSCheck` and `WSCommand`. The server calls `onRequest` as soon as `onHandoff`
  returns, and the job queue eventually runs each posted coroutine. Client-driven steps
  (`Accept`, `Handoff`, `WSMessage`, `End`) are not fair.

No other action is assumed fair. The transactions are submitted by users, so nothing
obliges any of them to happen. The offer stream always terminates within `MaxSteps`, because the
counter is bounded. The iterator terminates because there are finitely many pages.
`CHECK_DEADLOCK` is left on everywhere, because every model always has an enabled step:

- PayChan: a transaction is always submittable. One that fails preflight leaves the state as it is, which is still a step.
- OfferStream: `Begin` after each commit.
- Directory: `Begin`.
- CachedSLEs: `Expire` (it may leave the list as it is).
- LoadMonitor: `Read`.
- Bootcache: `Start` while down; while up, `on_success` or `on_failure` (one of them is within the valence bound).

`MCCluster.cfg` and `MCServerHandler.cfg` turn deadlock checking off. A configuration that
fails to load stops the server, so the model stops too.

## 4. Plan

The modules are built in this order, most important behaviour first:

1. `PayChan`: done.
2. `OfferStream`: done.
3. `Directory`: done.
4. `CancelOffer`: done, in the OfferStream ledger between sessions.
5. `EscrowChannel`: done. `PayChan` refines it (checked in `paychan_safety`).
6. `Quality` arithmetic: `ceil_in`/`ceil_out` as operators, checked against a reference
   definition over bounded amounts.
7. `CachedSLEs`: done. It exposes the skip after `erase`.
8. `Cluster`: done.
9. `LoadMonitor`: done. The decay can raise the reported peak with no new sample (a hazard
   in `PROJECT.json`).
10. `Bootcache`: done. It exposes the read after `prune()`.
11. `ServerHandler`: done.

The project has twelve runs, the most it keeps. Further work adds properties to existing
runs. Step 6 is blocked: `Quality.cpp` is not in the repository.

## 5. Not modelled

- The RPC handler table (`Handler.cpp`): a static table built once. `doCommand`, `Role.cpp` and the resource manager are not in the repository; `ServerHandler` takes their results as inputs.
- The peer slots (`SlotImp.cpp`): `PeerFinder::Logic`, which drives them, is not in the repository, and neither is the aged container behind `recent_t`. At `SlotImp.cpp:102` an endpoint heard again at a higher hop count is not refreshed, so it can expire and then be sent back to the peer that just sent it; no module covers it.
- `Quality.cpp`, which defines `ceil_in`, `ceil_out` and `composed_quality`, is not in the repository.
- Traffic counters: classification only.
- Metadata, accepted ledgers and path containers: value types.
- Canonical signature parsing (`PublicKey.cpp`): byte level. `PayChan` abstracts it as
  `Verified`.
- Database, timers, logging, JSON and string formatting.
- The simulator's `FunctionQueue`.
- The tests and test fixtures.
