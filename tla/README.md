# Student transfer between two parachains: TLA+ models

The repository is a two-parachain system on a local relay chain. Both
parachains run the same runtime: para 1000 is the *University*, para 2000 the
*Company*. The student pallet (`pallets/template/src/lib.rs`) keeps students
and their owners. `graduate_student` on the University removes a student and
sends an XCM with the record; the Company executes it as `receive_student`. A
React page (`frontend/src/App.jsx`) reads and writes both chains.

This directory holds TLA+ modules for that system, the TLC configurations
that check them, and proofs that TLAPS checks. Sources below are relative to
`src/`. Each chain in the picture grows because a collator node authors blocks
and the relay chain includes them; that has a model of its own.

```
 App.jsx (tab) --extrinsics, queries--> University (1000)   Company (2000)
                                         student pallet      student pallet
                                             | send_xcm           ^ Transact
                                         XcmpQueue pages      barrier, executor
                                             |                    ^
                                             +-- relay (HRMP) --> MessageQueue

 collator node --blocks, collations--> relay chain --included, finalized--> log of a chain
```

## 1. Inventory

| Component | State | Operations | Modelled in |
|---|---|---|---|
| Student pallet (`pallets/template/src/lib.rs`) | `StudentCount` (u32), `Students` (id -> record), `StudentsByOwner` (account -> at most 100 ids) | `create_student`, `graduate_student`, `receive_student`, `delete_student`, `update_student`, `delete_any_student` | `StudentCalls`, `StudentPallet`, `StudentRegistry` |
| Transfer between the chains | both pallets, the channel, the messages under way | all calls on both chains, steps of the channel, execution of a message | `Transfer`, `Graduation` |
| XCMP channel (`runtime/src/configs/mod.rs:202-261`, `setup-channels.sh`) | outbound pages, HRMP messages on the relay chain, message queue | establish, send, take a page, enqueue, service | `HrmpChannel`, `FifoChannel` |
| XCM configuration (`runtime/src/configs/xcm_config.rs`) | none; the executor has an origin and a holding register | barrier, location and origin converters, `SafeCallFilter` | `XcmConfig`, `XcmExecution` |
| Web page (`frontend/src/App.jsx`) | loaded lists, flags that disable buttons, transactions and loads under way | initialize, load, the six handlers, status callbacks | `Frontend` |
| Genesis presets (`runtime/src/genesis_config_presets.rs`) | - | the pallet starts empty | `StudentCalls!EmptyStorage` only |
| Block production (`runtime/src/lib.rs`, `apis.rs`, `configs/mod.rs`, `node/src/service.rs:171-230`) | collator's database of blocks, block in hand, candidates; included and pending block and finalized log on the relay chain | author, submit, back, include, time out, finalize, expire, reorganise | `Collation`, `LinearChain` |
| Collator node (`node/src/`) | steps of the start done, tasks alive | subcommands, start, failure and panic of a step, end of a task, signal, crash, restart | `CollatorNode` |
| Rest of the runtime assembly | - | fees, sessions, collator selection, sudo: configuration of external pallets | not modelled |
| Tests, mock, benchmarks, weights | - | left over from a template: they name calls the pallet does not have | not modelled |
| CI, Docker | - | build recipes | not modelled |

What is hard in it, and where:

- **Half-done calls.** `create_student` and `receive_student` write the counter
  and the record before `try_push` can fail (lib.rs:169-185, 315-323). Only
  FRAME's storage layer keeps the two maps consistent.
- **Two maps, one relation.** `swap_remove` reorders an owner's list
  (lib.rs:252); `delete_any_student` takes the id out of the list of whoever
  holds it (lib.rs:391). A long series of calls must keep the lists exact.
- **No end-to-end acknowledgement.** `send_xcm` is Ok once the message is
  queued; the record is then removed (lib.rs:248) although the call on the
  other chain can still fail. While it travels, anyone calls anything on both
  chains.
- **Open calls.** `receive_student` and `delete_any_student` accept any signed
  origin (lib.rs:312, 382).
- **A wrapping counter.** `id + 1` on a u32 in a release build (lib.rs:169).
- **A chain of queues** with a capacity of one HRMP message
  (setup-channels.sh:20) between the two pallets.
- **Computed origins.** The barrier grants free execution to an origin that it
  computes from the message (xcm_config.rs:104-122).
- **Building ahead.** A collator authors up to `UNINCLUDED_SEGMENT_CAPACITY`
  blocks before the first is included (runtime/lib.rs:224-244), from messages
  that the relay chain still has in its queue and calls that are still in the
  pool. Any of these blocks may be lost, and the collator may crash with one in
  its database that nobody was offered.
- **A start in many steps.** `start_parachain_node` spawns tasks between calls
  that can fail (service.rs:242-408); the tasks run and may end meanwhile, but
  only `run_node_until_exit` looks at them, after the start (command.rs:221).
- **Messages of local accounts.** `XcmExecuteFilter = Everything`
  (xcm_config.rs:200) lets any account run a message of its own making under
  the barrier that was written for other chains.
- **Stale rows and overlapping callbacks.** The page awaits one query per id
  while the chains go on; flags are set by clicks and reset by callbacks; a
  graduation waits 3 seconds instead of watching the Company (App.jsx:317).
- **Ends that nobody looks at.** A transaction that is dropped or invalid, or
  whose block is not seen to become final, has no branch in the callbacks
  (App.jsx:214-234): its flag stays, and the nonce that a drop leaves free
  holds up the transactions behind it.

`PROJECT.json` lists these hazards one by one, each at its line and with the
properties that watch it.

## 2. Modules and their code

**`StudentCalls`** has the six dispatchables as operators
`(storage, origin, arguments) -> outcome`. An outcome has the error of the
first early return, the storage *as the body leaves it* (writes before a late
error included) and the messages sent; `Committed` and `Sent` are the storage
layer around every dispatchable. The checks stand in the order of the code:
`delete_student` looks for the record before the owner, `update_student` the
other way round. `IdSpace` is the 2^32 of the u32, `MaxStudentsPerOwner` its
100. Name, surname, age and gender are one `profile`, with `LongNames` and
`LongSurnames` for those the `BoundedVec` conversions refuse. A ghost `tag`
in each record says who the student is; no guard reads it. Iterating
`StudentsByOwner` in hash order is a choice among the owners that hold the id.

**`StudentPallet`** is one chain: one action per dispatchable, any origin, any
argument. **`StudentRegistry`** is what it promises: one table with an owner
per student, where an id is handed out once. `StudentPallet!RegistrySpec`
says that the two maps and the counter implement that table.

**`HrmpChannel`** is the one-way channel. The queue pallets are FRAME's, so
the module is written from how `configs/mod.rs` configures them and from
`setup-channels.sh`: messages are packed in pages, one page leaves per block
while the relay chain has room, the receiver takes pages over and services
the oldest message. **`FifoChannel`** is the promise: one FIFO queue whose
messages are all handed over (`FifoSpec`).

**`Transfer`** composes two chains (each a `StudentCalls` storage) with
`HrmpChannel` (by `INSTANCE`, the variables shared). Users and root make any
call on either chain; `ReceiveByXcm` services a message and dispatches
`receive_student` as the sovereign account of para 1000. Both chains run the
same runtime with the destination 2000, but the only channel goes from 1000 to
2000, so `graduate_student` on the Company ends in `XcmSendFailed`.
**`Graduation`** is the life of a student without storage, ids or pages:
enrolled once with an owner who never changes, at most one journey, arrival in
the order of departure, loss only for lack of a place. `LifeSpec` says that
`Transfer` implements it.

**`XcmConfig`** is the barrier, the filters and the converters as operators on
locations and instructions; **`XcmExecution`** runs one message instruction by
instruction: one that a chain has sent, or one that a local account executes
with `PolkadotXcm::execute`, whose weight is credited beforehand
(`TakeWeightCredit`). Instructions that the configuration does not tell
apart are one representative. `MaxPrefixes` is the `ConstU32<8>` of
`WithComputedOrigin` (xcm_config.rs:126), `PaidWithin` the five instructions
among which the external `AllowTopLevelPaidExecutionFrom` looks for
`BuyExecution`.

**`Frontend`** is one tab (Alice) with the two chains behind it. A step is what
JavaScript runs without an await: a click, the continuation after one query,
one status notification. `loads` and `requests` are the
`loadStudentsFromChains` and `signAndSend` under way; `Sign` and `Submit` are
separate because `signAndSend` reads the next nonce before it submits, so two
quick clicks can use the same nonce. Other users' calls, failing connections
and dropped transactions are steps of their own; `Drop` also stands for a block
that is not seen to become final and for a lost subscription. A delivered graduation goes
through a plain FIFO queue, which is what `HrmpChannel` implements.

**`CollatorNode`** is the process. `Steps(c)` is what a command line does, in
order: `run` of command.rs, and for a node `start_parachain_node`. Each step
names the tasks it spawns, essential or not, and says whether it can fail; an
error drops the task manager and every task with it. `StartConsensus` is the
step that expects the collator key. `--collator`, `--validator` and `--dev`
each ask for the authority role. Subcommands that do the same with
`new_partial` are one. What they do with its parts (export, revert, purge) is
left out.

**`Collation`** lets that node author. A block is the sequence of the bodies
that lead to it from the last finalized block, so a block determines its
ancestors, and two blocks with one content are one block. `Author` takes the
deepest parent above the pending or the included block, the messages that its
chain has not processed, and any calls of the pool with the right nonces;
`holding` is in the memory of the authoring task between import and
`Submit`, `blocks` is the database and survives a crash. `Back`, `Include`,
`TimeOut`, `Finalize`, `Reorg` and `Expire` are what the relay chain does with
it; they are external and taken from what the runtime and the node are written
against. Each parachain has one collator (zombienet.toml), so there is one
node. `Node(action)` couples the two modules: what the authoring task holds is
gone when the task is. **`LinearChain`** is the promise: one log that only
grows, with every message and every call once and in order. It is what
`Transfer` and `Frontend` assume of the two chains. That the items of a kind
are in order is said of each place of the log and the places before it, so
that it can be reasoned about without filtering the log.

`MC*` modules give the constants values. `*Proofs` hold the theorems, one
module per component; `SequenceProofs` (least counterexamples, prefixes, flattened pages)
and `StudentCallsProofs` (lists of ids, the outcomes of the calls) hold lemmas
that several of them cite. Operators
under a comment "With a bug" are not part of a specification: each is a
plausible mistake in the definition below it, and `PROJECT.json` says which
property it breaks.

## 3. Runs

| Run | Question | Bounds |
|---|---|---|
| `student_pallet` | Do the maps agree, are ids unique, do accounts leave each other's students alone, is it a `StudentRegistry`? | 2 accounts, limit 2, 3 enrolments, 4 ids, 4 profiles |
| `hrmp_channel` | Is the channel a fair FIFO queue? | 3 messages, pages of 2, capacity 1, 5 under way |
| `transfer` | Exact storages and one place per student, on both chains | 2 users, limit 2, 4 enrolments, 5 ids, symmetry of the users |
| `transfer_life` | Is it the `Graduation` life; does every journey end? | 2 users, limit 1, 3 enrolments, no symmetry |
| `xcm_execution` | As whom may a message act; does the graduation message run? | all programs of up to 4 instructions, from 3 chains and 2 accounts; `MaxPrefixes` 2, `PaidWithin` 3 |
| `collation` | Is the chain one log whatever gets lost; does a node fail and progress as a whole? | capacity 2, 2 messages, 1 call, lag 1, 1 reorganisation, 1 restart, 1 lost task; 7 command lines |
| `frontend` | Do rows, flags and clicks match the chains? | 2 students, 2 transactions, all faults |
| `pallet_wrap`, `pallet_admin`, `transfer_loss`, `transfer_origin`, `frontend_stale` | one statement of a comment or document each; violated (section 4) | as small as the case allows |

Why the bounds suffice. An enrolment fails at the limit, so a limit of 1 or 2
with one enrolment more reaches a full list; two accounts are one owner and
one other; three ids in one list or in two are what `swap_remove` needs to
move an id other than the removed one. `IdSpace > MaxEnrolments` keeps the
counter from wrapping, `pallet_wrap` makes it wrap. In the channel, 5 messages
with pages of 2 fill the relay slot, the next page and the inbox at once. In
`xcm_execution` the shortest programs that matter are descend, unpaid,
transact and, for paid execution behind a chain, descend, withdraw, buy,
transact: four. Three descents pass `MaxPrefixes` of 2, and withdraw, clear,
clear, buy passes `PaidWithin` of 3, so both limits are reached; the theorems
hold for the code's 8 and 5. In `collation` the capacity is 2 instead of 3: one block
included or pending and another built on it is the least that makes messages
of an unincluded ancestor matter; two messages are the least that can be taken
in two blocks or in the wrong order; a second restart or reorganisation meets
the same database as the first. One command line is a collator's, the
one of zombienet.toml; `NeverPanics` and `WholeWhenAuthoring` hold for every
command line, an authority by `--dev` with an external relay chain node
included. In `frontend` two
transactions are enough for the same nonce, for a flag reset by another
handler, for one that waits behind a dropped one, and for loads that overlap. `Mounts = 2` (React's StrictMode, which
doubles effects in development builds) is a constant of `Frontend`; the run
uses 1, the production build, for the size of the state space.

Deadlock is checked except in `xcm_execution` (a message ends), `collation` (a
process ends) and `frontend` (the page may rest on its error screen with all
bounds used up).

What the properties say, beyond one `TypeOK` per module, which includes the
bound of the lists, of the pages and of the loop over ids:

- `OwnershipExact`, `ChainsExact`: a stored student is in exactly one owner's
  list, once, and lists hold nothing else.
- `IdsNeverReused`: no id designates two students over time, so an id kept by
  the page or a user never reaches another student.
- `EnumerationComplete`: the loop over `0 .. StudentCount - 1` meets everybody.
- `OnlyOwnersChange`: calls of others leave the students in an owner's list
  and their records as they are, `delete_any_student` apart.
- `OnePlace`: at most one record or message per student in the whole system.
- `DepartedGraduated`: whoever was sent off keeps the graduation mark.
- `LinearSpec`: blocks built ahead, lost in a crash, timed out or undone never
  show in the finalized log. `MessagesTaken`: while a collator stays up, every
  message gets there, whatever its database has left over. `FailureEndsNode`: a node that loses a task it
  cannot work without goes down, also when the task ends during the start.
  `AuthorsWhole`: nobody holds an authored block before the relay chain, the
  import queue and the follower of the included head run. `NoPanic`: the
  `expect` at service.rs:404.
- `OnlyOwnSovereign`: wherever its message moves the origin, a sibling signs only as its
  own sovereign account and a local account only as itself. `AccountsDispatchNothing`: a message on behalf of an
  account dispatches nothing. `GraduationMessageRuns`: the message of
  lib.rs:229-239 with the router's topic passes every filter.
- `ActsOnShown`: a transaction changes the student whose row was clicked, or
  nothing. `EveryStudentShown`: a load that finishes a chain shows every
  student there is below the count it read. `FlagsFollowRequests`: a flag is
  set exactly while its transaction is on the way. `ButtonsComeBack`: it is
  reset in the end, with two ways out, each named for its button: its own
  transaction was dropped (the callbacks have no branch for that, so it stays
  disabled until the page is loaded again), or it waits in the pool for a nonce
  that a dropped one has left free (`Stranded`). A drop does no other damage;
  without `Stranded` TLC refutes the property with a dropped deletion and a
  creation behind it.

**Fairness.** `Transfer`, `HrmpChannel`: weak fairness of `TakePage`, `Enqueue`
and the service of the inbox, because both parachains and the relay chain keep
producing blocks and the pallets do these steps in every block. Nobody is
obliged to open the channel or to make a call. `Frontend`: weak fairness of
connecting, of some load and some request going on, and of arrivals: nodes
answer, blocks are finalized, timers fire. Loads and requests are finite in
number and in steps, so fairness of their union is enough. Faults and clicks
have none. `Collation`: weak fairness of the steps of the start, of noticing
the end of an essential task (`run_node_until_exit` polls it), of `Author` and
`Submit` (the loop of `aura::run`), of finality and of expiry, because the
relay chain goes on; strong fairness of backing and inclusion, which time-outs and
reorganisations interrupt again and again: a relay chain that never includes
any block would make every progress claim about a parachain false. Crashes, restarts, task ends, signals and the
failure of a step have none.

## 4. Where code and text differ

1. `pallet_wrap` (code bug): past 2^32 enrolments the counter wraps and
   `Students::insert` overwrites the student under the reused id; the declared
   `StorageOverflow` error is never returned (lib.rs:129, 169).
2. `pallet_admin`: "admin only" (lib.rs:374), but any signed account may call
   `delete_any_student` for any student.
3. `transfer_loss` (code bug): "Remove student from this parachain after
   successful transfer" (lib.rs:248), but the student is removed when the
   message is queued. If the owner's list on the Company is full, `receive_student` fails there
   and the student is on neither chain. `Graduation` has the outcome `lost` for
   it, and `LifeSpec` shows that nothing else loses a student.
4. `transfer_origin`: "is not called by user" (lib.rs:303), but a signed user
   may enrol a "graduate" who never was at the University.
5. `frontend_stale`: "appears on Company Parachain automatically"
   (App.jsx:755), "polls both chains" (frontend/README.md:491), but the page
   loads once, 3 seconds after the graduation is finalized.

## 5. What is proved

TLAPS checks the theorems for every value of the constants: any accounts,
limits, sizes of pages and programs, numbers of enrolments, clicks and blocks.
All safety invariants, action properties and safety refinements of the passing
runs are among them.

| Module | Theorem | Statement |
|---|---|---|
| `StudentPalletProofs` | `TypeCorrect` | `Spec => []TypeOK`, wraps of the counter included |
| | `Invariance` | `NoWrap => (Spec => []Inv)` |
| | `OwnershipCorrect` | `NoWrap => (Spec => []OwnershipExact)` |
| | `IdsUnique` | `NoWrap => (Spec => []IdsNeverReused)` |
| | `EnumerationCorrect` | `NoWrap => (Spec => []EnumerationComplete)` |
| | `CountCorrect` | `NoWrap => (Spec => []IdsFollowCount)` |
| | `OwnersOnly` | `NoWrap => (Spec => OnlyOwnersChange)` |
| | `ImplementsRegistry` | `NoWrap => (Spec => RegistrySpec)` |
| `HrmpChannelProofs` | `ChannelTypeCorrect` | `Spec => []ChannelTypeOK` |
| | `ChannelIsFifo` | `Spec => Fifo!Spec`, the safety part of `FifoSpec` |
| `TransferProofs` | `ChainsTyped` | `NoWrap => (Spec => []TypeOK)` |
| | `ChainsStayExact` | `NoWrap => (Spec => []ChainsExact)` |
| | `NeverCopied` | `NoWrap => (Spec => []OnePlace)` |
| | `DepartedStayGraduated` | `NoWrap => (Spec => []DepartedGraduated)` |
| | `LivesAreSound` | `NoWrap => (Spec => LifeSpec)` |
| `XcmExecutionProofs` | `RegistersTyped` | `Spec => []TypeOK` |
| | `SovereignsApart` | `Spec => []OnlyOwnSovereign` |
| | `NothingForAccounts` | `Spec => []AccountsDispatchNothing` |
| | `GraduationsRun` | `Spec => []GraduationMessageRuns` |
| `CollationProofs` | `NeverPanics` | `Spec => []NoPanic` |
| | `WholeWhenAuthoring` | `Spec => []AuthorsWhole` |
| | `ImplementsLinearChain` | `Spec => LinearSpec` |
| | `ChainTypeCorrect` | `Spec => []TypeOK` |
| `FrontendProofs` | `PageTyped` | `Spec => []TypeOK` |
| | `ButtonsTellTheTruth` | `Spec => []FlagsFollowRequests` |
| | `ClicksReachTheirStudent` | `NoWrap => (Spec => ActsOnShown)` |
| | `LoadsMissNobody` | `NoWrap => (Spec => EveryStudentShown)` |

**Assumptions.** Each is named in the module that declares the constants, and
TLC evaluates it in every run of that module.

| Module | Assumption | Says |
|---|---|---|
| `StudentCalls` | `OriginsAssumption`, `BoundsAssumption`, `NoStudentAssumption` | root and foreign origins are not accounts; the limit is a natural number and the id space positive; `NoStudent` is no student |
| `StudentPallet` | `TagsAssumption`, `NoEntryAssumption` | tags are `1 .. MaxEnrolments`; `NoStudent` is no entry of the registry |
| `HrmpChannel` | `ChannelAssumption` | pages and the relay chain's slot have room for one message at least |
| `Transfer` | `AccountsAssumption`, `TagsAssumption`, `SizesAssumption` | users are accounts, the sovereign account is an account but no user; tags and sizes as above |
| `XcmConfig` | `ProgramAssumption`, `FundedAssumption` | the bounds on instructions are natural numbers, and the barrier looks at one descent at least; what stands for "no account" has no funds |
| `CollatorNode`, `Collation` | `NodeAssumption`, `CollationAssumption` | configurations are command lines; bounds are natural numbers, capacity and lag positive |
| `Frontend` | `FrontendAssumption` | the tab, the others and the sovereign have accounts; bounds are natural numbers; `None` is no id |

`NoWrap == MaxEnrolments < IdSpace` is not an assumption but a hypothesis of
the theorems that need it: fewer than 2^32 students are enrolled.
`pallet_wrap` shows that they fail without it.

**The pallet.** `Inv` is `TypeOK`, `OwnershipExact`, `EnumerationComplete` and
`IdsFollowCount`. `OwnershipExact` alone is not inductive: an enrolment could
overwrite a record listed elsewhere if the counter's value were in use.
`EnumerationComplete` excludes that, and needs that the counter never goes
back, which `IdsFollowCount` states (it counts the enrolments, and the student
enrolled at `id` is the only one `id` ever designates). `Steps` reduces every
call to one of four changes of the storage (enrol, erase, amend, drop) or none;
each change has one lemma on types and one on exactness, and these rest on
what `Append` and `swap_remove` do to a list without repeats. `OwnersOnly`
uses `Inv` in two ways: a new id is in no list yet, and an id in the caller's
list is in no other. For `ImplementsRegistry` an owner's list numbers the
entries that the owner has in the table, so the bound on those is the length of
a list without repeats.

**The channel.** `ChannelInv` says that pages hold 1 to `PageRoom` messages,
the relay chain no more pages than its capacity, and nothing is anywhere before
the channel is open. The inbox followed by the flattened relay slot and pages
is the FIFO queue of `FifoChannel`: a new page, a longer last page and a page
moved each leave that sequence alone or append one message.

**The transfer.** `OnePlace` and `DepartedGraduated` are not inductive, and
types alone do not keep ids in range on the Company. `Inv` adds: the records and
messages of different students are apart and each student has one at most
(`Apart`), nobody leaves a trace before the enrolment (`Born`), those under way
have departed and are marked (`Graduated`), the University's counter is at
most the enrolments, and the Company's counter with those who may still
arrive is too (`Counts`), and whoever was enrolled is somewhere unless a
ghost says why not (`Accounted`). `Counts` is what keeps the Company's
counter from wrapping: a student is numbered there once more, but only after
the University has let go. `LivesAreSound` maps each call and each step of
the channel to a step of `Graduation` or to none, with the channel's flattened
queue as the order of departure.

**The executor.** `OnlyOwnSovereign` needs to know where the origin register
can be. For a sibling or a local account it is the sender, or has two
junctions or more (which no converter takes for an account), or is cleared
(`Below`). For a message on behalf of an account, `AccountHeld` says that it
never gets past the withdrawal, because the origin behind a chain converts to
no local account. `GraduationOnCourse` follows the one message of lib.rs:229-239 instruction
by instruction.

**The node and its chain.** `NeverPanics` and `WholeWhenAuthoring` rest on the
shape of the plans: every step but `StartConsensus` does without a key and
without the authoring task, a plan has `StartConsensus` only for a node with
the authority role, and then as its last step, after the ones that spawn what
authoring needs. A block in hand is held by the authoring task, so that this
last step is done. For `ImplementsLinearChain` the finalized log is not enough:
`TreeInv` says that the database is a tree above it, with included, pending
and candidate blocks in it, that the pending block is a child of the included
one, that the tree is bounded by lag and capacity, and that the log that leads
to *any* of its blocks is legal. Whichever of them is finalized, given up or
built upon after a crash, the log stays one.

**The page.** `FlagsFollowRequests` counts: per button, the requests, the
awaited loads and the dropped transactions are one if the button is disabled
and none otherwise (`FlagsCount`). `Budgets` keeps nonces and enrolments within their bounds:
each click is behind one executed or one open transaction. `ActsOnShown` and
`EveryStudentShown` need that an id which was given away stays with its
student (`Later`, a lemma about every call) and that no counter wraps
(`Numbered`, as `Counts` above). Then each shown row, each request and each row
of a load under way names a student who still has that id or is gone, and a load
has met every student it has passed (`ShownInv`).

**Induction.** What a recursive function makes of a sequence (`FlattenSeq`) is
not proved by an induction theorem, whose parameter is an operator, but as
"there is no least counterexample" in a set of natural numbers (`LeastOf`,
`InductionUpTo`).

## 6. What is only model-checked, and what is left out

Only model-checked is what needs fairness, which is out of the prover's reach:
the fairness of `FifoSpec`, `EveryTravellerSettles`, `ButtonsComeBack`,
`FailureEndsNode` and `MessagesTaken`. The five statements of section 4
are refuted by TLC; there is nothing to prove about them.

Left out on purpose: weights, fees and events of the calls; suspension, weight
limits per block and overweight messages of the queues; asset transfers,
teleports and version negotiation of XCM (fees are one bit), and its refusal of
locations with more than eight junctions; in `Collation` the
velocity of one block per relay slot (it sets the pace only), the
transaction pool (any signed call may be in it), the relay chain's own queue
going back with a reorganisation, and what full nodes take for the best block
before finality; reorganisations in `Transfer` and `Frontend`, which see the
finalized log; hardware benchmarks and the contents of the command line's
defaults in the node; session rotation, collator selection and fees
(runtime/lib.rs:127-130 gives a tenth of a MILLI_UNIT in its comment and
computes a hundredth of that: a constant, not a behaviour);
the contents of the form fields and layout of the page. Two behaviours of the
page are modelled without a property, because no text promises the opposite:
overlapping loads may end in the wrong order, and the end of an update closes
whatever row is being edited (App.jsx:228-229).

## 7. Plan

Done: all modules of section 2, the runs of section 3, and proofs of every safety
property the passing runs check (section 5).

Next, in this order:

1. `Frontend` gives an abstract FIFO queue the place of the channel, and
   `Transfer` takes each chain for one log. `ChannelIsFifo` and
   `ImplementsLinearChain` justify both in prose; a theorem on the composition
   would need a module that maps the one into the other.
2. The two behaviours of the page at the end of section 6, if an abstract
   specification of the lists makes a real property of them.
3. Shorter proofs: `FrontendProofs` and `TransferProofs` repeat the lemmas on
   counters that do not wrap.
