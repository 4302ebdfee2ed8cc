# A TLA+ development of ObjectOrientedProgramming

The repository holds two C++ systems that share no code:

* `02_LOB_Engine`, a limit order book: a matching engine with price-time
  priority on fixed-size object pools, and a lock-free single-producer
  single-consumer queue;
* `01_AsyncNet_Server`, a multi-threaded TCP server on Boost.Asio that answers
  length-prefixed packets, with a load generator.

`build/` directories hold generated files and are not considered.

1. [Inventory](#1-inventory)
2. [What is hard, and what correct means](#2-what-is-hard-and-what-correct-means)
3. [Modules, and how they correspond to the code](#3-modules-and-how-they-correspond-to-the-code)
4. [Runs](#4-runs)
5. [Bounds, fairness](#5-bounds-fairness)
6. [What is proved](#6-what-is-proved)
7. [Findings](#7-findings)
8. [What is not modelled](#8-what-is-not-modelled)
9. [Plan](#9-plan)

`PROJECT.json` is the index: components, runs, the lines every definition
translates, hazards, findings, theorems, and for every property a plausible bug
(a mutant, defined next to the definition it stands in for) that breaks it.

## 1. Inventory

| part | state | operations | who it talks to |
|---|---|---|---|
| `ObjectPool` | `poolStorage_`, `freeList_` (a stack of addresses) | `allocate` (throws when empty), `deallocate` | owned twice by `OrderBook` |
| `PriceLevel` | intrusive list `head`/`tail`, `totalVolume` (uint32), `price` | `append`, `remove`, `empty` | linked orders live in a pool |
| `OrderBook` | `bids_`, `asks_`, `orderMap_`, two pools, two counters | `addOrder` (with `matchBuyOrder`, `matchSellOrder`, `getOrCreatePriceLevel`), `cancelOrder`, destructor, queries | one calling thread; exceptions leave it from the pools |
| `LockFreeSPSCQueue` | `buffer_`, atomics `head_`, `tail_` | `emplace` (producer), `pop` (consumer), `size`, `empty` (anybody) | not used by the engine |
| LOB demo, tests, benchmark | none | fixed sequences of calls of `OrderBook` | `OrderBook` |
| `Protocol` | none | header and packet encoding and decoding | sessions, load generator |
| `Session` | socket, strand, read buffers, `writeQueue_`, `isStopped_` | `start`, `stop`, `send`, completion handlers of reads and writes | its client, `SessionManager` |
| `SessionManager` | `sessions_` under a mutex, message counter | `addSession`, `removeSession`, `stopAll` | sessions, `Server` |
| `Server` | `io_context`, acceptor, signal set, worker threads, `isRunning_` | `start`, `stop` (also from the signal handler), `doAccept` | sessions, `main` |
| server `main` | none | constructs, starts, sleeps for ever | `Server` |
| `Logger` | level, mutex | `log`, `setLogLevel` | everybody |
| `BenchmarkClient` | counters shared by client threads | request loop, aggregation | a server, over TCP |

## 2. What is hard, and what correct means

The list `hazards` of `PROJECT.json` gives each hazard at its line with the
properties that are about it. In outline:

**The order book** runs on one thread, and everything hard about it is in one
call of `addOrder()`. That call holds raw pointers into two pools and an
iterator into a map while its own loop destroys what they point to; slots are
reused at once; four containers (the pools, `orderMap_`, `bids_`/`asks_`, the
levels' lists) have to forget an order together; and either pool may throw in
the middle. Correct means that the containers agree in every intermediate state
(`BookConsistent`), that no local dangles (`LocalsConsistent`), that quantity is
neither made nor lost (`TradesConserveQuantity`, `EventsAccountForTaker`),
that what the queries report is the promised book (`QuotesAreTrue`,
`DepthReadsDown`), that the iterator skips nothing and the book is never
crossed (`CursorAtBest`, `NoCrossedBook`), that memory suffices, is accounted for
and is returned (`LevelPoolSuffices`, `StrandedByThrowOnly`, `AllSlotsReturned`),
that the loop ends (`CallReturns`), and, above all, that what the caller sees is
price-time priority (`KeepsPriceTimePriority`). Below all that are intrusive
lists, linked through the orders themselves: their pointers must represent the
queue of the level (`ListsRepresentQueues`), also for the loop that destroys the
order it stands on (`MakerIsOldest`).

**The queue** is two threads, two counters and an array without locks. Loads may
be stale, counters wrap, slots are not atomic. Correct means no data race
(`NoRace`), counters that never drift apart by more than the ring
(`CountersInStep`), first in first out (`DeliversInOrder`), and a `size()` each of
the two threads may rely on (`SizeIsSafe`).

**A session** is a chain of asynchronous operations whose handlers run on a
strand; between an operation's completion and its handler anything else on the
strand may run, `stop()` above all, and the other end of the connection may do
what it likes. Correct means one read and one write at a time
(`ListensUntilStopped`, `OneWriteAtATime`), a reply stream the client can parse
(`NothingAfterCut`, `AnswersInOrder`), a stop that is final (`StoppedForGood`) and
while the server runs, no session that lives on for nobody (`ReleasedInTheEnd`) and no
request without an answer (`EveryRequestAnswered`).

**The server** is several threads over one `io_context`, a set of sessions under a
mutex, and a shutdown that runs on one of the threads it waits for. Correct means
that the set follows the sessions' lives (`KeepsSessionLife`, `NoGhosts`), that
the server goes on accepting (`AcceptorListens`), that nobody waits in a circle
(`ShutdownEndsWorkers`), and that a start that fails half-way is undone
(`UnwindingEnds`). Three things its documentation and messages claim do not hold;
see section 7.

**The load generator** reads a byte stream whose framing it checks no further than
a magic number, from connections that may break anywhere. Correct means that what
it counts as completed was echoed (`CompletedMeansEchoed`), that it stays in step
with the stream or finds its place again (`InStep`), that the report adds up
(`ReportAddsUp`), and that it ends (`BenchmarkEnds`). It stands on a wire format
that both ends must read as the other wrote it (`HeaderSurvives`).

The parts interact like this:

```
 main ──► Server ──accept handler──► Session ◄──TCP──► client
            │  ▲                       │ ▲
   signal ──┘  │                       │ │ stop()
               └── SessionManager ◄────┘ │
                        └────────────────┘
 BenchmarkClient ──threads──► Protocol ◄──bytes──► a server
 caller ──► OrderBook ──► PriceLevel (lists of orders)
               └──► ObjectPool<Order>, ObjectPool<PriceLevel>
 producer ──► LockFreeSPSCQueue ──► consumer      (stands alone)
```

## 3. Modules, and how they correspond to the code

| module | models | built on |
|---|---|---|
| `ObjectPool` | a pool's heap and free list as operators | |
| `PriceLevel` | a level: its list, as a sequence, and its volume | |
| `OrderBook` | the engine, one action per iteration or early return | the two above |
| `PriceTimeBook` | **abstract**: price-time priority without memory | |
| `OrderBookRefinement` | the engine implements `PriceTimeBook` | `OrderBook` |
| `BookQueries` | quotes, spread and printed depth | `OrderBookRefinement` |
| `IntrusiveList` | the levels' lists as pointers, next to the queues of `PriceLevel` | `PriceLevel` |
| `IntrusiveListProofs` | the pointers represent the queues | `IntrusiveList`, `DataLemmas` |
| `DataLemmas` | lemmas about lists, induction over the subsets of a finite set, sums | |
| `OrderBookProofs` | invariants, conservation, queries and refinement of the engine | `BookQueries`, `DataLemmas` |
| `LockFreeQueue` | the ring buffer under the C++ memory model | |
| `BoundedFifo` | **abstract**: a bounded first-in first-out queue | |
| `LockFreeQueueProofs` | race freedom and refinement of the queue | `LockFreeQueue` |
| `Session` | one connection: client, stream, strand, operations | |
| `EchoService` | **abstract**: what a connection promises its client | |
| `SessionLife` | **abstract**: the life of sessions between their owners | |
| `SessionManager` | the set and its mutex | |
| `Server` | main thread, workers, acceptor, signals, shutdown | `SessionManager` |
| `SessionProofs`, `ServerProofs` | invariants and refinements of both | `Session`; `Server` |
| `Protocol` | headers and packets as bytes | |
| `ProtocolProofs` | what is encoded is decoded | `Protocol` |
| `BenchmarkClient` | the load generator's threads, and a server as they see it | `Protocol` |
| `BenchmarkClientProofs` | what is reported is true | `BenchmarkClient`, `ProtocolProofs`, `DataLemmas` |
| `MCOrderBook`, `MCIntrusiveList`, `MCLockFreeQueue`, `MCSession`, `MCServer`, `MCBenchmarkClient` | instances for TLC | |

**`OrderBook`.** `orders` and `levels` are the heaps behind the two pools, a slot
being `Dead` or an object; `orderFree` and `levelFree` are the free lists;
`book[side][price]` is `bids_` and `asks_`; `orderMap` is `orderMap_`. A call is
several steps, with its locals as variables: `taker` is the incoming order,
`cursor` the map iterator, `maker` the list pointer, `matches` the returned
vector, and `pc` says whether the call is about to look at a level (`"level"`), at
a maker of the level (`"maker"`), or at what is left of the order (`"settle"`).
`AcceptOrder`, `RejectOrder`, `OrderPoolThrows` are the beginnings of
`addOrder()`; `EnterLevel`, `FillMaker`, `LeaveLevel`, `StopMatching` are the nested
loops, the two mirror-image functions being one here with `Before` for the order
of the map's keys; `RestOrder`, `LevelPoolThrows`, `DiscardOrder` are its ends.
The states between the steps are seen by nobody in the code. They are kept
because that is where pointers can dangle, and where an exception can leave.
The doubly linked list is a sequence (`PriceLevel`); `remove()` finds its order by
identity, as unlinking by pointer does.

**`BookQueries`.** The queries are operators on the state of `OrderBook`: `Quote` is
`getBestBid()` and `getBestAsk()`, `Spread` is `getSpread()`, `printBook(n)` gives the
lines printed, by `Walk`, the order of the maps. Their properties compare them with
the state of `PriceTimeBook` that the refinement gives, between two calls, since
one thread calls the engine.

**`IntrusiveList`.** `prev`, `next`, `head`, `tail`, `level`, `orderCount` are the fields of
the code; `levels` holds the same levels as `OrderBook` does, with their queues, as
the thing the pointers represent. `Link` is `append()`, `Unlink` is `remove()`; each
action does to the queue what `OrderBook` does and to the pointers what the code
does: `Rest`, `Cancel`, and the matching loop in a level, `EnterLevel`, `FillPart`,
`FillWhole`, `LeaveLevel`, with `maker` read from `head` and `next` as the code does.
Which order is filled, or by how much, is free here; `OrderBook` says that. This is
what licenses the sequences of `OrderBook`.

**`LockFreeQueue`.** The counters are unbounded in the model and seen through
`Word`, modulo `WordMod`. A load of the other thread's counter returns any value
not older than the last one read (`prodSeen`, `consSeen`), and `prodHb`, `consHb`
carry the happens-before edges that acquire loads of released stores create. A
relaxed load, as in `size()`, moves `Seen` and not `Hb`.

**`Session`.** `strand` is the queue of posted handlers. `readState` and `writeState`
follow the outstanding operation: pending, completed, and then its handler is
posted (`ReadIsPosted`, `WriteIsPosted`), so that others can get in between. A
handler is one step since handlers of a strand exclude each other and touch
nothing that others do. What others touch is `phase`, `registered` and the
operation states. `StopFirst` and `StopAgain` are the lambda of `stop()`;
`SendReply` that of `send()`; `HeaderRejected`, `PayloadWanted`, `HeaderProcessed`,
`PayloadProcessed`, `ReadError`, `Written`, `WriteError` the completion handlers.
`server` is how far a `Server::stop()` has come: `StopAll` (or `StopAllMisses`, when the
session is not in the set), then `ContextStops`, after which no handler is run.
`promised`, `written`, `sent` and `cut` are histories for the properties.

**`Server`.** `pc` of each thread and what the handler it runs is about (`cur`).
The accept handler is four steps (add, start, test `isRunning_`, `doAccept()`)
because they are on no strand; `stop()` is a step per statement, and per
session and per thread in its loops. Of the sessions only what `SessionLife`
says is kept. `Session` and `Server` are checked against this one module, and
it is what ties them together: `Session` shows one real session behaves like
the sessions `Server` assumes, whatever others do; `Server` shows that the threads
treat every session as `Session` assumes of its accept handler and `stopAll()`.

**`Protocol`.** A stream is a sequence of bytes. `htons` and the like are modelled by
the bytes they leave in the buffer of a little-endian host after `memcpy()`, that
is, by the numbers' digits to the base 256. `deserializeHeader` returns what the code
leaves in its output parameter too. `Session` reads whole headers and payloads, with a
magic number that is right or wrong, because that is all it tells apart.

**`BenchmarkClient`.** `pc` of each client says which statement of `runClientWorker()` is
next, a blocking read being enabled when its bytes are there or the connection is
broken; `Throws` is the `catch` at its end. `toServer` and `toClient` are the bytes on
the way. The server is external: it takes whole requests in order and echoes them,
which is what `EchoService` promises, and may in addition send a header with a wrong
magic number, for that is the case the client has a branch for. Of the latencies only
their number is kept, and of `main()` the spawning, the joins and the report.

## 4. Runs

Passing runs:

| run | instance | what it shows |
|---|---|---|
| `price_time_priority` | 3 orders, 3 prices, 3 slots in each pool | the refinement of `PriceTimeBook`; the book is never crossed, the iterator is at the best price, a sufficient level pool never throws, quantity is conserved step by step, the destructor returns everything, the printed depth is in order and true |
| `book_consistency` | 4 orders, 2 prices | containers and locals agree in every intermediate state; quotes, spread and counts are those of the promised book; events add up |
| `pools_exhausted` | 2 ids, 3 order slots, 1 level | calls throw again and again, on a book where calls have thrown: only the new order's slot is lost; every call ends |
| `intrusive_list` | 5 orders, 3 levels | the pointers represent the queues, and the matching loop visits the oldest order |
| `ring_buffer` | capacity 4, words modulo 8, 10 items | race freedom, order and `size()`, with stale loads and wrapped counters |
| `session` | up to 3 frames of every kind, a shutdown at any point | a session's reads, writes, answers and stop; answers and destruction in the end while the server runs |
| `server` | 2 sessions, 3 workers, a signal, a failing start | the set of sessions, accepting, shutdown, unwinding |
| `benchmark_client` | 2 clients, 3 requests each, one wrong answer to each, broken connections | completed means echoed, finding the place in the stream again, the totals, an end |

Runs that end in a violation, each the evidence of a finding (section 7):
`slot_leak`, `signal_stop`, `sessions_cut_off`, `start_races_stop`.

## 5. Bounds, fairness

**Bounds of `OrderBook`.** Three prices are what a sweep needs to erase one
level, step over to the next and stop before a third; three orders, to fill one,
fill another in part and rest; four orders on two prices put three in one
level, so that one is unlinked from the middle. Quantities 0, 1 and 2 give the
refusal, an exact and a partial fill. `QtyMod` (2^32 in the code) is larger than all
quantities together: the sums of a level wrap in the model as they do in the code,
and do not in the instances, since nothing says what the volume should be then.
`CounterMod` (2^64) is small because the statistics wrap and nothing reads them;
`TradesConserveQuantity` compares the counter modulo 2, which keeps the space small and
tells one unit from two but not two from none, and what rests on either side exactly;
`NoQuantityIsLost` proves both for every modulus. With three level slots the bound of
`LevelPoolSuffices` is always met, so the run asks whether empty levels come back;
`LevelsNeverRunOut` is about pools of every size. `FreshPools` lets
a new pool's free list be in any order, since the order of addresses is not
part of any promise; ids and slots are therefore symmetric. Symmetry is not
used in `pools_exhausted`, which checks a liveness property.

**Bounds of `IntrusiveList`.** Five orders allow a list of one, of two, and of three
with a middle, next to others; three levels let an order move from one to another
while a third is untouched. Quantities 1 and 2 give a fill in part and one to the
end; `QtyMod` is 3, so volumes wrap, which no pointer depends on.

**Bounds of `LockFreeQueue`.** Words of twice the capacity are the tightest
that the code's power-of-two assertions admit for a ring of 4, and 10 items make
both counters wrap. `MaxItems` is the bound in the guard of `EmplaceStart`.

**Bounds of `Session`.** Three frames give a reply under way, one that waits
behind it and a frame that ends the session; every kind of frame occurs in every
place: of each type the session treats differently, with payloads at the limit
and past it, and with a wrong magic number. `MaxFrames` is the bound in the guard
of `ClientSendsHeader`. The shutdown may come in every state, before the session is added
or after it has gone too, and the context may stop with anything queued. One payload value is enough to tell it from none, and
replies of two types to see their order.

**Bounds of `Server`.** Three workers are the signal handler's, one before or after
it in `workerThreads_`, and one in a session's or accept handler; two sessions
let one be accepted while another is stopped. A connection is accepted once, so
the number of sessions bounds the accepts; errors of `accept` are unbounded, and
so are the events that end a session.

**Bounds of `BenchmarkClient`.** Three requests let a client fall behind by a wrong answer
to the first, take a piece of a payload for a header at the second, and be in step
again for the third. The payload of the code has 56 bytes, seven headers' worth, and
none of these seven pieces begins with `AN`; the instance uses its first piece. `MaxBad`
bounds the wrong answers to each client, in the guard of `ServerErrs`. Two clients
are what shared totals need.

**Fairness.** `OrderBook`: `WF_vars(Step)`, a call that was started goes on, which
is what a thread does. Nothing says calls are made. The queue has none, and no
liveness property. `Session`: workers run the strand and the accept handler, and
operations that can complete do (`Fairness`), as long as the `io_context` runs. After
`Server::stop()` has stopped it (`Server.cpp:56`) no handler runs and nothing is promised:
`ReleasedInTheEnd` and `EveryRequestAnswered` both end with the beginning of a shutdown.
Of a session told to stop by `stopAll()` neither says anything: run `sessions_cut_off`
shows that its stop handler may never run. Nothing is assumed of the client.
`EveryRequestAnswered` alone has `ClientReads` as an antecedent, for a peer that
never reads blocks a write for ever. A write may fail at any time, but need not
unless the connection was reset. `Server`: each thread's own
steps are weakly fair. `TakeSignal` is strongly fair because the `io_context`
hands out handlers first in, first out, so a worker that becomes idle again and
again cannot pass the signal handler over for ever. That a worker takes other
handlers is not assumed and not needed. `BenchmarkClient`: the scheduler runs `main()`
and the client threads (weakly fair), and the server answers what it has received
unless the connection breaks, as `EveryRequestAnswered` says of `Session`.

Deadlock is not checked where the program may stop: a destroyed book, a
connection at its end, a process that exited or sleeps, a benchmark that has
reported. The ring buffer and the lists are checked for it.

## 6. What is proved

The proofs hold for all values of the constants under the named assumptions,
which TLC evaluates in every run: pools of any finite size, any set of ids, any
prices (natural numbers) and quantities below `QtyMod`; rings of any capacity that
divides the number of words at least twice.

`OrderBookProofs` (with `DataLemmas` about lists, pigeonholes and sums):

* `TypeCorrect`, `BookStaysConsistent`, `LocalsNeverDangle`. None of the three is
  inductive alone: unlinking a filled maker keeps the book consistent because
  `maker` is the head of a live level (locals), and `maker` stays one because the
  list and the map agree (book). `Structure`, their conjunction, is. There is one
  lemma per action, and in it one step per part of the invariant; `RestOrder`,
  `CancelOrder` and `FillMaker` are where something has to be argued: that a level
  just allocated is nobody else's, that an order that leaves its level leaves no
  pointer to its slot.
* `NeverCrossed`, `MatchesAtBestPrice`. `Uncrossed`, the conjunction of
  `NoCrossedBook` and `CursorAtBest`, is inductive relative to `Structure`: an order
  rests only when the cursor's price is too expensive or there is none, and the
  cursor is the best price; so its price is strictly below (above) all others.
* `LevelsNeverRunOut`: a state in which the pool is exhausted while an order is to rest
  would map the level slots one to one to orders other than the incoming one (the heads
  of the levels), and to prices other than its own (uncrossed, so both sides' prices
  differ): more pigeons than holes. This is why `IsFiniteSet(Price)` is assumed.
* `OnlyThrowsStrand`, `DestructorReturnsWhatItCanReach`, `EverySlotIsReturned`. The
  first is an action property, step by step from `Structure`. For the others `SlotsAddUp`
  says what is true of a destroyed book whatever threw before (every level slot back,
  every order slot but the stranded ones), and `NothingLost` that with a level pool that
  suffices nothing is stranded; `AllSlotsReturned` follows by counting.
* `ImplementsPriceTimePriority`: the refinement of `PriceTimeBook`, step by step, for a
  level pool that suffices (`LevelPoolIsLarge`, as many slots as orders or as prices).
  The mapping forgets the memory: a queue of slots becomes a queue of ids and
  quantities. On top of `Uncrossed` it needs `TakesWhatItMay`, that the call stands at a
  level only while the order's limit allows its price. `OnlyThrowsBreakPromise` is what
  holds without the hypothesis on the pool: each step is a step of the promise, a stutter,
  or `LevelPoolThrows`, which is the step that run `slot_leak` shows.
* `EventsTellTheTruth`. `EventsAccountForTaker` is not inductive: that the prices of
  the events never improve needs that no event's price is behind the cursor, and that
  the makers are distinct needs that all of them are off the book as long as something
  of the order remains. `EventsFollow` says both. The sum is one term more in each fill.
* `NoQuantityIsLost`. The orders queued on a side are exactly the orders of that side
  which `orderMap_` knows (`QueuesHoldTheMapped`, from `Structure`), so the sum of what
  rests changes by the maker's term alone, which becomes smaller or goes.
* `VolumesTellTheTruth`, `QuotesTellTheTruth`, `DepthTellsTheTruth`. `append()` and the
  fills keep `totalVolume` modulo 2^32 and `remove()` clamps it at 0, so that it is what
  waits in the level only while the quantities cannot add up that far. `QuantitiesFit`
  says so: the largest quantity times the number of order slots is below `QtyMod`. The
  code does not check it; with its 100000 slots (`OrderBook.hpp`, `DEFAULT_MAX_ORDERS`) it holds
  for quantities up to 42949, and the instances meet it. The invariant is that the volume
  of each live level is the sum of its queue and no live order exceeds the largest
  quantity. The queries add what the maps list: that the sorted listing of a finite set of
  prices exists (by induction over its subsets), that its last entry is the best price,
  and that cutting the asks from the far end leaves the nearest.

`IntrusiveListProofs` (with `DataLemmas`):

* `TypeCorrect`, `PointersRepresentQueues`, `LoopVisitsOldest`, for any number of orders
  and levels. `Structure`, their conjunction, is inductive: unlinking an order needs that
  it is in the queue its `level` names, once, so that its neighbours by pointer are its
  neighbours in the queue; the loop's next maker is the second of the queue because
  its maker was the first. The lemmas about `Link` and `Unlink` say how the positions of
  a queue move and that the other levels' pointers do not.

`ProtocolProofs`:

* `HeaderSurvives`: the header decoded from an encoded one, followed by anything, is the
  header, and is accepted exactly when its magic number is right; for all 16-bit and
  32-bit values, where the repository's test tries three. `ShortSurvives` and
  `LongSurvives` are about the digits.

`LockFreeQueueProofs`:

* `TypeCorrect`, `CountersStayInStep`, `RaceFree`. The inductive invariant adds to
  them what each thread is ordered after (`OrderedEnough`) and what the slots hold
  (`SlotsFilled`). The arithmetic is that two counts less than `Capacity` apart have
  different slots, and that the word difference of two counts that are at most
  `Capacity` apart is the true one.
* `SizeNeverMisleads`, from an invariant of its own on top.
* `ImplementsBoundedFifo`: the refinement, with every action mapped to a step of
  `BoundedFifo` or to a stutter.

`SessionProofs`, for any requests, any number of them and any cuts of the stream:

* `TypeCorrect`, `NeverGoesDeaf`, `WritesOneByOne`, `CutEndsTheStream`, `StopIsFinal`.
  The invariant is about what is *queued* on the strand, where the properties are about
  what runs: at most one completion of a read and one of a write (`OneRead`, `OneWrite`),
  nothing but a stop before `start()` (`Lifecycle`), no write after a cut packet
  (`CutIsLast`). That a read of a header gets a header needs that the session has not
  lost its place in the stream (`InPlace`): what is buffered was sent where the session
  stands, and what is left in the stream leads from there to where the client is.
* `ImplementsEchoService`: the replies promised are those written, those in `writeQueue_`
  and those whose `send()` is queued, in this order (`InOrder`); so a written packet
  is the next one promised.
* `ImplementsSessionLife`: the connection as one session of that abstract life.

`ServerProofs`, for any number of workers and sessions:

* `TypeCorrect`, `NoSessionIsLeftBehind`, `NeverTurnsDeaf`. With `NoGhosts` and
  `AcceptorListens` the invariant holds that the workers are created in order, that the
  session of an accept handler is new and no two handlers have the same
  (`HandlersOfSessions`, `ArrivalsAreNew`), and that `stopAll()` has told every session
  it has gone past while it holds the mutex (`StopAllTells`): without the last, clearing
  the set could lose a session nobody has told.
* `ImplementsSessionLife`: the server's sessions all live as `SessionLife` says.

`BenchmarkClientProofs`, for any number of client threads and requests and any payload
that meets the assumption:

* `TypeCorrect`, `ReportIsTrue`, `StaysInStep`, `OnlyEchoesComplete`. The invariant says
  of each connection what its stream carries byte by byte: answers to the requests so
  far, a wrong one repeated as often as it was sent, read in pieces of a header or a
  payload (`Track`); the reader is between two answers, or inside a wrong one, whose
  payload it takes for headers. The assumption is about the program's own literal
  (`BenchmarkClient.cpp:40`): its length is a multiple of the header's, and none of its
  eight-byte pieces begins with the magic number; so a client that has rejected a
  header is in step again before the next answer. The totals are sums over the threads:
  `completed` is the latencies measured, `completed + errors` the requests gone through
  and the threads that failed, `latencies` what the threads that ended have merged.

Sums over finite sets are reasoned about by induction over the subsets
(`SubsetInduction` in `DataLemmas`, from the well-foundedness of the strict subset
relation of a finite set), which needs no induction theorem with an operator parameter.

All type and safety invariants, action properties and refinements that the passing runs
check are theorems, some under a hypothesis on the size of the level pool or the
quantities as said above. Only model-checked, because out of the prover's reach, are
liveness (`CallReturns`, `ReleasedInTheEnd`,
`EveryRequestAnswered`, `ShutdownEndsWorkers`, `UnwindingEnds`, `BenchmarkEnds`) and
anything with `ENABLED`. The runs that end in a violation are about single instances.

## 7. Findings

Each is a run that ends in a counterexample, quoted in `PROJECT.json`:

* **`slot_leak`**: when the level pool throws, the incoming order has been
  allocated and may have traded; its slot is never returned, and the events of
  the trades are lost (`OrderBook.cpp:215`, against `:11`).
* **`signal_stop`**: the signal handler's `stop()` joins the thread it runs on,
  throws, and never completes; `main()` never learns of it (`Server.cpp:60`).
* **`sessions_cut_off`**: `stop()` stops the `io_context` before the stop handlers it
  has posted have run (`Server.cpp:56`).
* **`start_races_stop`**: `Session::start()` uses the socket outside the session's
  strand (`Server.cpp:73`).

## 8. What is not modelled

* *`OrderBook`*: time stamps; memory of the `matches` vector and the map nodes
  (`Fail` of `PriceTimeBook` allows for an allocation that fails at the start of a
  call, the model has only the pools' exceptions). The refinement is checked
  where the level pool suffices; with fewer levels a call may throw after it has
  traded, which `PriceTimeBook` does not allow and `slot_leak` shows. A level whose
  orders add up to more than 2^32 - 1 reports a wrapped volume (`PriceLevel.hpp:34`), and
  `remove()` clamps it to 0 (`:54`): the code has no check, and no promise to compare it with.
* *`PriceLevel`*: `prevLevel` and `nextLevel` are never used.
* *`printBook()`*: its wording and layout.
* *`LockFreeSPSCQueue`*: `size()` called by a third thread; a `T` whose move throws.
  After a counter has wrapped `size()` returns 0 for as long as `tail_` is below
  `head_` (2^64 pushes away); `SizeIsSafe` is about the time before.
* *`Session`*: bytes of a header (magic right or wrong, type, length); several
  `stop()` handlers from `stopAll()`, since a session is visited once; a context that
  stops while a handler is running, which is as if it stopped after it.
* *`Server`*: data races on `workerThreads_` and `acceptor_` are either order of
  the two accesses; several queued stop handlers of one session are one;
  signals after the first, which `signals_` catches and nobody takes; a
  constructor that throws (port in use); sessions' destruction after `main()`.
* *`BenchmarkClient`*: times and percentiles, of which only the number of samples is
  kept (`latenciesUs[size * 0.50]` is in range for every size above 0); the command line;
  a port that does not answer is `ConnectThrows`.
* *Server `main`*: the command line; a constructor that throws (port in use) ends it.
* *`Logger`*: one mutex around formatting and printing, taken last and held over nothing
  else, so it adds no order of locks to the one `Server` has; `currentLevel_` is only
  written by `setLogLevel()`, which nothing calls.
* *Demo, tests and benchmark of the engine, test of the protocol*: fixed sequences of
  calls on one thread, each a behaviour of the modules above. (`BenchmarkLOB.cpp:38`
  announces 20% cancellations; the id `i - 5` it cancels was itself the turn of a
  cancellation and never added, except for `i = 15`, so that `cancelOrder()` answers
  false to all the others: `CancelUnknown`.)
* *Build files*: nothing at run time.

## 9. Plan

Done, in this order: the engine with its abstract book and first proofs; the
queue with its proofs; the session, the manager and the server; the wire format with
its proof; the load generator; the pointers of the lists with their proof; the
queries. Every part whose behaviour a property can be about is modelled.

The proofs followed: all safety invariants, action properties and refinements of the
passing runs are theorems. Left to do:

1. `BenchmarkClient` assumes of its server what `EchoService` promises, in bytes where
   `EchoService` speaks of packets: the server's steps there as a refinement, through `Protocol`;
2. what the engine still promises when quantities do add up to more than `QtyMod`: the
   volume modulo 2^32 up to the first cancellation that clamps it.
