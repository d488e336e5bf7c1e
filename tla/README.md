# A TLA+ model of the oxid node

This directory is a verification development for the program in `src/`: the
oxid daemon, a proof-of-stake and masternode coin descended from Bitcoin Core
0.10 by way of Dash and PIVX. It models the parts of the node whose errors a
unit test hardly reaches (threads that interleave on the block tree, a work
queue with condition variables, layered caches over a database that may fail),
checks them with TLC on small instances, and proves the main invariants with
TLAPS for every value of the constants.

Paths below are relative to the repository's `src/` directory, where the
program lives.

## The system

| Component | State | Operations | Hard part | What makes it correct |
|---|---|---|---|---|
| Block tree and active chain (`main.cpp`, `chain.*`, `spork.cpp`) | `mapBlockIndex` with status flags, `setBlockIndexCandidates`, `mapBlocksUnlinked`, `mapRejectedBlocks`, `chainActive` | `ProcessNewBlock`, `AcceptBlock`, `ReceivedBlockTransactions`, `FindMostWorkChain`, `ActivateBestChain(Step)`, `ConnectTip`, `DisconnectTip`, `InvalidateBlock`, `ReconsiderBlock`, `ReprocessBlocks` | any order of arrival; `cs_main` is released between the steps of a reorganisation; blocks that turn out invalid half way; failing reads and writes | the candidates hold what may be needed to go on or go back; the tip ends as the best usable block |
| Script check queue (`checkqueue.h`) | a queue and four counters under a mutex, two condition variables | `Add`, `Loop`, `Wait`, `IsIdle` | wake-ups, spurious wake-ups, interruptions, a queue shared by all blocks | one verdict per block, right and given |
| Coin views (`coins.*`, `txdb.cpp`) | two `CCoinsViewCache` with DIRTY and FRESH flags over LevelDB | `FetchCoins`, `ModifyCoins`, `BatchWrite`, `Flush` | lazily fetched entries, flags relative to the layer below, failed writes, crashes | the layers answer like plain maps; the database is consistent with its best block |
| Block index database and start-up (`FlushStateToDisk`, `LoadBlockIndexDB`, `VerifyDB`) | records of the index, file information, flags `shutdown`, `reindex` | store blocks and undo data; write file information, records, coins and flag; load, replay | a crash between any two writes; records written out of turn by `ConnectBlock`; a size of the blk file that is older than the records | the coins on disk have records, data and undo data; a restart finds a state it can go on from |
| Memory pool and orphans (`txmempool.*`, `main.cpp`) | `mapTx`, `mapNextTx`, orphan maps | accept, remove, conflicts, give back, orphan resolution and eviction | chains of dependants, reorganisations, limits, orphans tried in a loop | the maps agree, inputs are available and mature, nothing leaves without a reason |
| Block download (`main.cpp`) | `mapBlocksInFlight`, `CNodeState` | ask, receive, time out, disconnect | late answers, a peer that leaves | counters agree with the map, every missing block is asked for again |
| InstantTX (`instanttx.cpp`) | lock requests, votes, locks, `mapLockedInputs` | `ix`, `txlvote`, the wallet's own request, clean-up | messages out of order or repeated, conflicting requests, expiry in the middle of a handler | a masternode counts once; a locked input keeps its holder, has a complete lock behind it and is released |
| Masternode list, payments, budget, sync (`masternode*.cpp`) | lists and votes, seen-message maps | broadcasts, pings, votes, clean-up, asset requests | votes that come before what they vote on, `TRY_LOCK` that drops messages | votes are counted once and not lost |
| Obfuscation (`obfuscation.cpp`) | a mixing session | entries, signatures, timeouts | timeouts against late messages | a session ends, nobody signs what is not theirs |
| Wallet and key pool (`wallet.cpp`, `walletdb.cpp`) | `setKeyPool`, database records | reserve, keep, return, top up | crash, drained pool | no key is given out twice |
| Proof of stake and mining (`kernel.cpp`, `miner.cpp`) | stake modifiers, templates | staking thread | template stale when submitted | numeric validity |
| Zerocoin, script, keys, encodings, RPC, network, GUI, vendored code | | | arithmetic, I/O | not modelled, see the end |

How they interact. Message, staking, RPC and import threads all reach the block
tree through `ProcessNewBlock`. It checks a block without `cs_main`, stores it
under `cs_main`, and calls `ActivateBestChain`, which takes `cs_main` afresh for
every step. A step connects blocks by `ConnectBlock`, which changes coins in a
view over `pcoinsTip` and hands the script checks to the check queue; the view
is flushed into `pcoinsTip`, and `FlushStateToDisk` writes the block index and
then `pcoinsTip` to LevelDB. InstantTX and masternode payments influence the
verdict of `CheckBlock`, and a completed lock calls `ReprocessBlocks`, which
reconsiders rejected blocks and rolls the chain back. `ConnectTip` and
`DisconnectTip` also move transactions out of the memory pool and back into it,
and the pool takes nothing that conflicts with a lock.

Each of these meetings is in one module, and the other side is seen from there
as what it may do: verdicts that change in `ChainState` (`Contextual`), writes
that fail or a process that dies in `CoinsCache` and `ChainStore`, blocks that
come and go in `Mempool` and `InstantTX`.

## Modules

| Module | Models | Lines of code |
|---|---|---|
| `ChainState` | block tree, candidates, active chain | `main.cpp` 99-165, 2364-2382, 3341-3938, 4097-4581, `spork.cpp` 144-173, `chain.h` |
| `CheckQueue` | the script check queue | `checkqueue.h` |
| `BlockVerdict` | what `ConnectBlock` asks of the queue (abstract) | |
| `CoinsCache` | view, `pcoinsTip`, coin database | `coins.cpp` 79-281, `txdb.cpp` 22-76 |
| `FlatCoins` | three plain sets of coins (abstract) | |
| `ChainStore` | the databases, the order of their writes, crash, start-up and replay | `main.cpp` 2089-2143, 2700-2790, 3117-3202, 3247-3280, 3940-4020, 4404-4432, 4668-4935, 4969-5006, `init.cpp` 206-217 |
| `Mempool` | memory pool and orphan transactions | `txmempool.cpp` 358-529, `main.cpp` 607-680, 1589-1710, 3341-3446, 6012-6082 |
| `InstantTX` | lock requests, votes, locks, locked inputs | `instanttx.cpp`, `main.cpp` 4102-4119, `wallet.cpp` 1202-1219 |
| `ChainStateProofs`, `ChainStateBestProofs`, `CheckQueueProofs`, `CoinsCacheProofs`, `ChainStoreProofs`, `MempoolProofs`, `MempoolCoinsProofs`, `InstantTXProofs` | theorems | |
| `MCChainState`, `MCCheckQueue`, `MCCoinsCache`, `MCChainStore`, `MCMempool`, `MCInstantTX` | constants for TLC | |

`CheckQueue` implements `BlockVerdict`, and `CoinsCache` implements `FlatCoins`,
by refinement mappings stated at the end of the concrete modules (`Implements`)
and both checked and proved.

### ChainState

An action is one critical section of `cs_main`: everything a thread does
between taking and releasing it happens at once, and everything else may happen
between two actions of a thread. `csMain` is only used where the lock is kept
over several actions (`AcceptBlock` on a checkpoint calls `ActivateBestChain`
with the lock held).

| Code | Action |
|---|---|
| "block" message, staking, `submitblock`, import | `Offered`, the guard of `ProcessNewBlock` |
| `CheckBlock` fails on a masternode payment or a lock | `CheckRejects` |
| `AcceptBlock`: duplicate, invalid in context, write error, stored, on a checkpoint | `AcceptDuplicate`, `AcceptFailing`, `AcceptUnwritten`, `AcceptBlock`, `AcceptOnCheckpoint` |
| `ReceivedBlockTransactions` | `ReceiveLinked`, `ReceiveUnlinked`, `Linked`, `Numberings` |
| `FindMostWorkChain` | `IsMostWork`, `Discarded`, `Discard` |
| nothing better: return | `NothingToDo` |
| `ActivateBestChainStep`: done, block invalid, data damaged | `ActivateBestChainStep` with `StepDone`, `StepInvalid`, `StepDamaged` |
| a read or write fails in `ConnectTip` or `DisconnectTip` | `StepError` |
| `assert(hashPrevBlock == view.GetBestBlock())` | `StepAsserts`, `DisconnectAsserts` |
| `while (pindexMostWork != chainActive.Tip())`, read without the lock | `LoopTest` |
| `CheckBlockIndex`, periodic flush | `FinishActivate` |
| `invalidateblock`, `reconsiderblock` | `InvalidateBlock`, `InvalidateGenesis`, `InvalidateError`, `ReconsiderRPC` |
| `ReprocessBlocks` | `ReplayStart`, `ReplayReconsider`, `ReplayDisconnect`, `ReplayError` |

A block is its identity. What the code computes from its contents is a
constant: `Bad` blocks fail in `ConnectBlock`, `FailsCheck` ones in
`ContextualCheckBlock`, `Contextual` ones may pass or fail at each attempt
(their verdict depends on masternode votes and locks), `Damaged` ones may read
back damaged. The sorted set is a set, and the comparator is `Worse`; the flags
of a block are membership in sets. The iterations of `FindMostWorkChain` are
given by their result: the unusable candidates it meets before the first usable
one, each with the part of its path that is walked.

The variable `aborted` records `AbortNode`; the node may go on for a while, since
the shutdown is only requested. `crashed` records a failed assert. What a failure
leaves behind follows the order of `DisconnectTip` and `ConnectTip`
(`DisconnectFails`, `ConnectFails`): a failed read or `ConnectBlock` comes before
`view.Flush()`, leaves the coins at the tip and need not abort the node; a failed
`FlushStateToDisk` comes after it and before `UpdateTip`, leaves the coins one block
away from the tip, and each of its exits calls `AbortNode` (`state.Abort`, or
`CheckDiskSpace`). `CoinsFollowTip` says what the other threads, which go on until
they notice the shutdown, can then do to the two: nothing, because each of them
meets the assert on `view.GetBestBlock()` first.

Bounds: `MaxOps` limits commands and replays; the set of blocks limits
everything else. `ReplayDepth` is the argument of `ReprocessBlocks` (15 in the
code, 1 in the runs, where chains have three blocks).

### CheckQueue

An action is one pass through the mutex in `Loop`: the clean-up of the last
batch followed by taking a new one (`Take`), going to sleep (`Sleep`) or, for
the master, returning (`Return`). A check is its identity, and the queue a set:
the source remarks that the order does not matter. The number of checks taken is
`NNow`, with the code's division. `condition_variable::wait` may wake up for no
reason (`SpuriousWakeup`) and is an interruption point (`InterruptAll`,
`Interrupted`): an interrupted worker leaves with `nIdle` and `nTotal` as they
are, an interrupted master unwinds into `~CCheckQueueControl`, which waits
again. A wake-up of `condWorker.notify_one` picks any sleeping worker.

### CoinsCache

A call of a view is one action, since `cs_main` is held. A `CCoins` is its set of
unspent outputs, the empty set being a pruned one; a cache is a record of the
entries it has, their coins, the DIRTY and FRESH ones and `hashBlock`.
`FlushView` is `CCoinsViewCache::BatchWrite`, `FlushTip` is
`CCoinsViewDB::BatchWrite`. `FlushTipFails` is a write that throws, which happens
after the entries have been erased from the cache. `Crash` starts again from
the database. `committed` and `failed` are history variables: what the tip was
last given, and whether a write has failed.

### ChainStore

What is on disk is one record, `disk`: the index records with their
BLOCK_HAVE_DATA and BLOCK_HAVE_UNDO, the height in the file information, the coins
and the flag `shutdown`. The rest of the state is the same in memory, with
`setDirtyBlockIndex`. Coins are the set of blocks applied to them (`done`) and
the block they name (`best`), which is enough to see coins of no chain.

| Code | Action |
|---|---|
| `AcceptBlock`: stored; header indexed, `ContextualCheckBlock` refuses | `ReceiveBlock`, `RefuseBlock` |
| `FindBlockPos` and `WriteBlockToDisk` | `StoreBlock`, `Stored` |
| `ConnectBlock` with its own `WriteBlockIndex`; the process dies after that write | `Connect`, `DieInConnect` |
| `FindUndoPos` and `CBlockUndo::WriteToDisk` | `StoreUndo`, `Stored` |
| `DisconnectTip` | `Disconnect` |
| `FlushStateToDisk`: file information, one record at a time, coins | `BeginFlush`, `WriteFileInfo`, `WriteRecord`, `EndIndex`, `WriteCoins` |
| `Shutdown`: the last flush and `WriteFlag("shutdown", true)` | `BeginShutdown`, `WriteFlag` |
| the process dies | `Die` |
| `LoadBlockIndexDB` and `VerifyDB`; with a replay; with one that fails | `Restart`, `Replay`, `RefuseReplay` |
| the operator removes the data directory, `InitBlockIndex` | `StartOver` |

`vSortedByHeight` sorts blocks of one height by pointer, so start-up is given an
order of addresses (`Addresses`). The replay starts at the first block above the
coins and goes up that list, whatever branch its entries are on. `"broken"` is a
node that refuses to start, or goes on in a way the model does not follow, until
the operator starts over.

`info` is the file information: the sizes at which the next block and the next
undo data are put, and the height of the highest block. `dataPos` and `undoPos` are
where a block's record says they are, `blkFile` and `revFile` the blocks for which
that is still so. The record that `ConnectBlock` writes survives a crash that the
file information of that time does not, so that a start may find data beyond the
size it loads, and the next block is stored over it. `exposed` is a history
variable, which no action looks at: the blocks to which that has happened at some
start. The properties say that nothing else is lost: no undo data of the chain on
disk is ever stored over (`FindUndoPos` goes by the same stale information, but
`ConnectBlock` writes its record before there is undo data, and the flush writes
the file information first), and of the blocks only those in `exposed`
(`IndexCoversCoins`); without one of them in its chain a node that is not to replay
and whose index is whole comes up (`StartsAgain`). `chain_store_files` shows the loss.

Simplifications: all blocks fit in one blk file (`MaxFile` bounds it), what was
written before the process died is there afterwards (no power failure), work is
height, blocks are valid, and start-up itself does not die half way. Data that is
overlapped in part counts as lost as a whole, since the hash or the checksum over it
fails.

### Mempool

A transaction is its identity, with the outputs it spends and creates given by
constants; zerocoin spends have a serial number and no inputs. The chain is the
sequence of blocks whose coins are in `pcoinsTip`. `busy` is the handler that
holds `cs_main` and how far it is: one action is one transaction's turn, so that
the state between two turns, which other threads see through `mempool.cs`, is a
state of the model.

| Code | Action |
|---|---|
| "tx": accepted; inputs unknown (`AddOrphanTx`, `LimitOrphanTxSize`) | `ReceiveTx`, `ReceiveOrphan` |
| zerocoin spends, "ix", wallet, RPC: accepted, no orphans tried | `AcceptElsewhere` |
| the loop over the orphans of what was accepted | `AcceptOrphan`, `SkipOrphan`, `RefuseOrphan`, `NextWork`, `EndOrphans` |
| `EraseOrphansFor` | `PeerGone` |
| `ConnectTip`: coins, then `removeForBlock` | `ConnectTip`, `RemoveForBlock` |
| `DisconnectTip`: coins, then each transaction given back or removed, then `removeCoinbaseSpends` | `DisconnectTip`, `Resurrect`, `Bury`, `RemoveCoinbaseSpends` |
| `CreateNewBlock` empties the pool | `Clear` |

Recursive removal is given by its result: `Removed(S)` is the least set of pool
transactions that has S and follows `mapNextTx`. Fees, sizes, scripts and lock
conflicts are refusals that may happen to any transaction. A zerocoin spend of a
block that is disconnected never comes back (`InChain`): `chainActive` still has
the block when `AcceptToMemoryPool` looks for it there.

### InstantTX

The message thread takes cs_main only inside `AcceptToMemoryPool`, and
`ProcessConsensusVote` asks the masternode list for a rank, which takes other
locks; `msg` is the message it has in hand at these points, and everything else
may happen there: the obfuscation thread cleans up, the wallet makes a request of
its own, blocks come and go.

| Code | Action |
|---|---|
| "ix": new; accepted; refused, its free inputs locked all the same | `ReceiveIX`, `AcceptIX`, `RejectIX` |
| "txlvote": remembered; not counted; counted; the vote that completes a lock | `ReceiveVote`, `RefuseVote`, `CountVote`, `CompleteLock` |
| `CheckForConflictingLocks` | `NoConflict`, `ExpireBoth` |
| `nExpiration` passes; `CleanTransactionLocksList` | `HourPasses`, `CleanLock` |
| the wallet's `CommitTransaction` with "ix" | `CommitIX` |
| "tx", `ConnectTip`, `DisconnectTip` | `ReceiveTx`, `ConnectBlock`, `DisconnectBlock` |

`hollow` are the requests that `operator[]` creates in `mapTxLockReq`
(`instanttx.cpp:350`) when a lock completes before its request is known: they
have no inputs, so they lock and unlock none. `byRefusal` is a history
variable: the inputs a refused request has locked (`instanttx.cpp:102`), which
stay locked unless the clean-up of some request happens to release them. Both are what the
code does, and the properties are stated around them; the comment at
`instanttx.cpp:386` that conflicting locks "will cancel each other out" does not
hold for a hollow request. Left out: the data races on the maps between the two
threads, relaying, `mapUnknownVotes`, and the contents of votes (signature and
rank are refusals). Two waits are not cut, those of `ReprocessBlocks` for `cs_main` and
of the wallet for its lock (`instanttx.cpp:116`, `354`), and the lock filter of
`CheckBlock` is always on, as it is under `SPORK_3` (`main.cpp:4103`). The height of a lock, computed from the age of the inputs, is
one constant for each transaction.

## Runs

| Run | Instance | Properties | States |
|---|---|---|---|
| `chain` | 7 blocks in three branches, one invalid, one damaged, two offered again, 2 threads, one invalidation or replay, failing block writes | `LinkedWhenComplete`, `ArrivalOrder`, `FailureHasCause`, `CandidatesInRange`, `ActiveChainValid`, `BestIsCandidate`, `CandidatesAtRest`, `TipBestAtRest`, `OrderFrozen` | 275 000 |
| `chain_faults` | 6 blocks, one contextual, one checkpoint, one failing in context, every command, every fault, 2 threads | `TypeOK`, `CoinsFollowTip` | 176 000 |
| `chain_live` | 6 blocks, one invalid, 2 threads, invalidation and reconsideration, fairness | `TipBestAtRest`, `ActivationEnds`, `BetterBlockWins` | 15 000 |
| `chain_contextual` | 6 blocks, one invalid, one branch contextual, 1 thread | `TipBestAtRest` (violated) | |
| `check_queue` | 4 checks, one failing, 2 workers, batches of at most 2, fairness | `TodoCounts`, `VerdictRight`, `IdleBetweenBlocks`, `WaitReturns`, `Implements` | 111 000 |
| `coins_cache` | 2 transactions of 2 outputs, 2 block hashes | `FlagsTell`, `NoAssertion`, `Implements`, `DiskTakesCommittedUnlessFailed` | 74 000 |
| `coins_failed_write` | the same | `DiskTakesCommitted` (violated) | |
| `chain_store` | 5 blocks: a chain of two above the genesis block, a branch of one, one refused; two sizes of blocks and of undo data, a file of 5, two orders of addresses | `TypeOK`, `IndexCoversCoins`, `IndexClosed`, `StartsAgain`, `ReplayExact` | 174 000 |
| `chain_replay` | the same | `ReplayToBestKnown` (violated) | |
| `chain_store_files` | the same | `FlaggedIsAvailable` (violated) | |
| `mempool` | 9 transactions: a chain of three, a coinstake that conflicts with its first, a spender of the reward, two zerocoin spends of one serial, a spender of one of them; 2 peers, 2 orphans, 3 blocks of 2 | `TypeOK`, `NextTxExact`, `InputsAvailable`, `InputsMature`, `OrphanIndexExact`, `OrphansTried`, `LeavesForReason` | 53 000 |
| `instanttx` | 2 requests that share an input, 2 masternodes, votes for two heights, 2 votes needed, fairness | `TypeOK`, `OneVoteEach`, `LockBehindInput`, `HolderStable`, `LocksReleased` | 1 000 000 |

Why these bounds show the interesting cases. The tree of the chain runs has a
branch of two against one of three whose second block is invalid, and a third
branch that starts on the second: a reorganisation can fail half way and turn
back, two branches can tie, blocks can arrive child first, and three candidates
can compete. Two threads are enough for one to move the tip between two steps
of the other; they are interchangeable, and the runs without liveness use that
symmetry. One command is enough, since commands do not depend on one another
except through the state they leave, and the blocks may arrive before and after
it. With two workers, four checks and batches of two, a worker can sleep while
another reports the last check, the batch size and the division in `NNow` both
decide, and a whole block fits between two passes of a worker. With two layers
of cache, two outputs tell spent, partly spent and unspent, and two
transactions let one entry be in a layer and another not. In `chain_store` a
chain of two and a branch of one fork at the genesis block, so a reorganisation, a
record without its parent, a replay that would mix the branches and both orders of
one height happen; the file information lags behind the records by one and by two
blocks, and blocks of two sizes overlap in whole and in part. In `mempool`, three
blocks of two transactions and a maturity of two let a reward mature, be spent in
the pool, and be young again after a reorganisation; two orphans are enough for an
eviction, and one of them waits for the other. In `instanttx`, one request spends
the input of the other and one more, so that a conflict hits part of a lock; the
heights of two votes can differ, and a lock can expire, be cleaned and be made anew
with a vote still in hand.

`chain` leaves out contextual verdicts, reconsideration and failing moves
of the tip: with those the properties on candidates do not hold
(`chain_contextual`, and the hazards on `ReconsiderBlock` and failed flushes in
`PROJECT.json`). What does hold with everything switched on is in
`chain_faults`.

Fairness. `FairSpec` of `ChainState` makes a thread that has begun to activate
a chain go on: the `TRY_LOCK` loop of `ActivateBestChain` sleeps 50 ms and tries
again, every section of `cs_main` ends, and no section waits for another thread.
Nobody has to offer a block, give a command, or fail. `FairSpec` of `CheckQueue`
makes a thread that is awake get the mutex (no thread holds it while it works or
sleeps), an interrupted thread throw, and `ConnectBlock` come to its `Wait`; no
spurious wake-up is promised, so that `WaitReturns` rests on the notifications
of the code. `Spec` of `InstantTX` makes an hour pass for every lock and the
obfuscation thread clean it up, which it tries every minute; nobody has to send
a request or a vote. `LocksReleased` says that then no input stays locked by a complete lock.
`Mempool` and `ChainStore` state no fairness: they only have safety properties.

`CandidatesAtRest` is about a node at rest on purpose. `CheckBlockIndex`, which
`-checkblockindex` (the default of regtest) runs at the end of every thread's
`ActivateBestChain`, asserts it at any time (`main.cpp:5179`), and there it can fail:
a step of a reorganisation that meets an invalid block ends on a worse tip than
before, and the candidates were pruned meanwhile. The thread itself repairs this in
its next round, but another thread can come to `CheckBlockIndex` in between.

### What the violated runs show

* `chain_contextual`: "The result is either failure or an activated best chain"
  (`main.cpp:3694`). The pruning is right as long as a block that was connected
  once can be connected again. `ConnectBlock` repeats `CheckBlock`, whose verdict
  on payments and locks can have changed, and then nothing is left to go back to.
* `chain_replay`: the replay after an unclean shutdown applies blocks "up until the
  best known block" (comment in `LoadBlockIndexDB`). It takes a position of
  `vSortedByHeight` for a height and stops at the first block above the last height
  that the file information knew; records that were written later, by `ConnectBlock`,
  can be higher.
* `chain_store_files`: `BLOCK_HAVE_DATA` means "full block available in blk*.dat"
  (`chain.h:94`). In the run the file information is flushed and the process dies before the
  record of the block it knows of is written; the block comes again and is stored at the end of
  the file, `ConnectBlock` writes its record (`main.cpp:3117`), and the process dies
  again. The start loads a size that does not count that block (`main.cpp:4738`), and
  `FindBlockPos` puts the next one over it (`main.cpp:3959`). If the coins come to be
  those of the lost block, `VerifyDB` cannot read it (`main.cpp:4900`), also when the
  node was shut down in order; that is why `StartsAgain` excepts these blocks.
* `coins_failed_write`: "failure to write is handled by the caller"
  (`init.cpp:159`). The caller requests a shutdown, which flushes a cache that has
  lost its entries and kept its block.

## Theorems

The theorems hold for every value of the constants that meets the assumptions
of the modules: for `ChainState` that the blocks are finitely many and form a
tree in which work grows (`TreeAssumption`) and that the parameters are of their
types (`ParameterAssumption`); for `CheckQueue` that checks and workers are
finitely many and the batch size is positive; for `CoinsCache` that the null hash
is not that of a block. TLC evaluates the assumptions in every run.

* `ChainStateProofs` (`TypeCorrect`, `LinkingIsExact`, `OrderIsFrozen`,
  `CandidatesAreInRange`, `ActiveChainIsValid`, `CoinsFollowTheTip`). The inductive
  invariant is `IInv`: the types, `LinkedWhenComplete`, and that candidates and tip
  are linked. None of the three is inductive alone: `BLOCK_VALID_SCRIPTS` only goes
  to blocks with data because what is connected lies below a linked candidate.
  `LinkedFacts` and `UnlinkedFacts` show that the queue of
  `ReceivedBlockTransactions` links exactly the chains the new block completes, and
  hence (`NextOrder`) never a block that was linked before, so that no key of the
  sorted set changes. Candidates stay in range because a tip that moves down keeps
  them so (`Order`: work grows along a chain) and every move up prunes the set
  (`RangeStep`, `PrunedRange`). No active block is marked failed because what
  `FindMostWorkChain` gives up is off the active chain and off the path of what it
  returns (`DiscardedFacts`), and because `InvalidateBlock` leaves no block it marks
  active. That theorem assumes `"step" \notin Faults` and `"genesis" \notin
  Commands`: without them it is false, since `InvalidateBlock` returns half way on an
  error and the genesis block cannot be disconnected. `CoinsFollowTheTip` needs of
  the state only that coins and tip are together or one block apart with the
  shutdown asked for (`CoinsParted`); that a failure leaves them so is `DisconnectParts`
  and `ConnectParts`, and that nothing moves them afterwards comes from the asserts.
* `ChainStateBestProofs`: `ArrivalIsOrdered` holds as it stands
  (`Numberings` deals out distinct numbers above all earlier ones).
  `FailuresHaveCauses` assumes `NeverReconsiders`: no `reconsiderblock`, and no
  sporks that replay blocks whose verdict may have changed. Both clear the flags
  of some blocks and leave those of their descendants, which then have no cause.
  `BestIsNeverForgotten`, `TipIsBestAtRest` and `CandidatesAreCompleteAtRest` are
  about a node that is `Steady`, in which also no verdict depends on more than the
  block, no step of the tip fails for want of disk space and nobody invalidates
  the genesis block, and about behaviours in which no checkpoint block is found
  invalid (`CheckpointsHold`, trivial without checkpoints). The hypotheses are
  not for the prover's sake. The run `chain_contextual` shows what happens with
  verdicts that change. With `reconsiderblock` a valid block can be forgotten: if a
  block was invalidated and the data of its child could not be stored,
  reconsidering the child clears the mark of the block too (`main.cpp:3801`), but
  makes only linked descendants of the child candidates. "The best block is a candidate"
  is not inductive, because `PruneBlockIndexCandidates` compares with a tip half way
  up a chain that may still turn out bad. What is inductive is `Covered`: a valid
  block that is no candidate sorts below a candidate *no step can turn down*; the
  tip is one itself (`TipSound`). `SettledOnBest` adds that when no thread has
  anything left to activate, the tip is the best valid candidate, which with
  `Covered` makes it the best valid block.
* `CheckQueueProofs` (`TodoIsExact`, `VerdictIsRight`, `IdleAgain`,
  `Implementation`). The verdict is right because a failing check is still
  pending or has cleared `fAllOk`, and the master only returns when nothing is
  pending. That needs the queue and the batches to be disjoint, so that `nTodo`
  counts each check once, and a thread to hold a batch exactly while it works.
  The queue is idle between blocks because every thread that is counted in
  `nTotal` and not in `nIdle` holds a batch.
* `CoinsCacheProofs` (`FlagsAreRight`, `AssertHolds`, `Implementation`,
  `DiskIsCommitted`). That FRESH means "nothing below" is preserved by a flush only
  because an entry of the upper cache that is not FRESH has pulled its parent's
  copy into the lower one (`Backed`), and because what is not in a cache has no
  flags (`Canonical`). From them, a flush changes no answer of the layer above,
  which is the step of the refinement, and the assert of `BatchWrite` follows.
  `DiskIsCommitted` needs that until a write fails the tip answers what it was
  given (`TipAsCommitted`).
* `ChainStoreProofs` (`TypeCorrect`, `IndexAlwaysCoversCoins`, `IndexAlwaysClosed`,
  `NodeStartsAgain`), from `StoreAssumption`: the blocks are finitely many and form a
  tree. The inductive invariant says, for every stage of a flush, what of memory may be
  missing on disk: a record that memory has and disk lacks is in
  `setDirtyBlockIndex`, and the dirty set is empty when the coins are written. That
  is what the order of the writes in `FlushStateToDisk` is for. For the files,
  `FileInv` says that undo data lies below the size in the file information, on disk as
  in memory, so that `FindUndoPos` never returns to it; of blocks this holds but for
  those in `exposed`, and what lies below the size is never stored over
  (`WrittenUndo`, `Kept`).
  `ReplayIsExact` is about a start that replays an index which is one chain. By
  `HeightInv` a block has undo data on disk only after the file information with
  its height (`nHeightLast`), so that the replay stops above every block of the
  coins on disk. That the sorted index of one chain is the chain
  (`SortedChain`) is proved by induction over the tree of blocks
  (`ParentInduction`), as a fact about the set of blocks for which it holds.
  `ReplayIsRejected` says what becomes of such a start: the last block it applies
  is above the file information and has no undo data, so `VerifyDB` at its
  default level turns the result down and the node does not come up.
* `MempoolProofs` (`TypeCorrect`, `MarksAreExact`, `OrphanIndexIsExact`,
  `RemovalHasReason`), from `MempoolAssumption`. `NextTxExact` and
  `OrphanIndexExact` are inductive with the types and with what the loop over the
  orphans relies on (`UnderWay`: its orphans are still there). `DeleteKeepsPool` uses
  that no output has two spenders in the pool; `UnindexedIndexes` that erasing an
  orphan takes it out of every entry it is in. `RemovalHasReason` follows because what
  `remove` takes away descends from where it began (`RemovedDescends`): the set of
  transactions with such an ancestor is closed under spending.
* `MempoolCoinsProofs` (`InputsAreAvailable`, `InputsAreMature`, `OrphansAreTried`),
  from the same assumption, which says of a transaction that is neither generated
  nor a zerocoin spend that it has inputs (`bad-txns-vin-empty`, `main.cpp:1442`): a
  transaction without any would not be removed by the block that confirms it.
  An input in the pool comes from the pool, from the unspent coins, or from what a
  block under way still has to do (`Pending`): one of its transactions to come spends
  the output and will evict the spender in the pool, or is to go back into the pool
  itself. With that go `OnlyPending` (a confirmed transaction is in the pool only
  until its block gets to it), `ChainClosed` and `SpendersFollow` (what the chain
  spends was created before). `Tried` is what the loop over the orphans keeps: an
  orphan of a transaction that had its turn still misses an input, came from a peer
  that misbehaved, or waits for a later turn.
* `InstantTXProofs` (`TypeCorrect`, `VotesCountOnce`, `LockedInputsBacked`,
  `HoldersKeepTheirInputs`), from `InstantAssumption`. `OneVoteEach` needs that a vote
  in hand is in `mapTxLockVote` and not yet in its lock (`Pending`), although the lock
  may be cleaned up meanwhile, and `LockBehindInput` that all votes of a lock are
  finitely many and its height is 0 or the computed one (`LocksSound`), so that a
  vote that comes late never makes a complete lock incomplete.

Every invariant and action property that a passing run checks is thus a theorem.
Only model-checked are the liveness properties, which are out of the prover's
reach (`ActivationEnds`, `BetterBlockWins`, `WaitReturns`, `LocksReleased`), the
four properties that a run finds violated, and `TipBestAtRest` of a node that
reconsiders a block while all data can be stored (`chain_live`), which is not
`Steady`.

## Not modelled

* The contents of blocks: scripts, signatures, proof of stake, difficulty,
  zerocoin arithmetic, serialisation. They are functions of data that TLC cannot
  enumerate; the models take their verdicts as given.
* Further blk files (`chain_store` fills one), `-reindex`, power failures (what was
  written before the process died is there afterwards), and `zerocoinDB`.
* `pindexBestHeader` and `pindexBestInvalid`, which steer requests and warnings.
* Block download (`mapBlocksInFlight`, `FindNextBlocksToDownload`, the stalling
  timeouts): it goes by headers, which peers only send each other when
  `HeadersFirstSyncingActive`, and that is off on every network the program defines
  (`chainparams.cpp:226`). Blocks are asked for by `getblocks` and `inv`, and any of
  them may come at any time: `Offered` of `ChainState`.
* `DisconnectBlockAndInputs`, which nothing calls, and `fQuit` of the queue, which
  nothing sets.
* Data races (`mapRejectedBlocks`, `mapSporks`, the maps of InstantTX): the models
  take a map operation as one step.
* In `Mempool`: fee and size policy, priorities, `mapDeltas` and estimates. They
  decide whether a transaction is taken, which the model leaves open.
* Masternode list, payments, budget and synchronisation, obfuscation, the key pool:
  they have state and timers worth a model (see the plan). What the modelled parts
  see of them is left open there: a verdict that changes, a vote that is refused.
* Network, address tables, RPC parsing, GUI and vendored libraries.

## Plan

Done: `ChainState`, `CheckQueue`, `CoinsCache`, `ChainStore`, `Mempool`,
`InstantTX`, with their theorems.

Theorems to add: those of the best chain from weaker hypotheses. `TipBestAtRest`
should hold of a node that reconsiders blocks if all data can be stored, with
the marks that `ReconsiderBlock` leaves behind as a cause of their own, and after
a step that failed from the next activation that succeeds.

Modules to add, if the project grows: masternode payments (`CanVote`, payee votes
and their clean-up), the key pool (`reserve`, `keep`, `return`, `top up`, crash), the budget's
votes and their orphans, the obfuscation session.
