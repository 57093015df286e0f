# Verification of the order book and its feed

TLA+ models of the matching engine and of the threads that feed it, TLC runs
that check them on small instances, and TLAPS proofs for every instance.
Paths below are relative to the repository. `PROJECT.json` lists the runs, the
mutants, the hazards and, for each definition, the lines of code it models.

## 1. The system

ITCH messages change limit order books, one per stock. They come from a file,
or live over UDP, in which case a network thread hands packets to the matching
thread. The network thread has a UDP socket or an AF_XDP one. The replay sender
turns a file into such a feed.

```
 replay ~~UDP~~> network thread --SpscRing<PacketRef>--> matching thread
                     |  ^                                    |
                     |  +------------ PacketPool <-----------+
                     +----acquire / release                  v
                                               processMessage (ITCH)
                                                 | FlatHashMap: ref -> slot
                                                 | OrderBook per stock
                                                 |   LadderSide x 2
                                                 + OrderPool, shared
```

| Part | Code | State | Operations | Hard to get right |
|---|---|---|---|---|
| Order pool | `include/order_pool.hpp` | arena of nodes, free list through `next` | `allocate`, `free` | a slot freed while something still refers to it |
| Ladder side | `include/ladder_side.hpp` | ladder of levels, sorted overflow vector, `base`, cached `bestSlot` | `add`, `remove`, `bestLevel`, `removeEmptyBest` | stale cache; prices at the window's edges; linked-list surgery |
| Order book | `src/orderbook.cpp` | two sides | `handleOrder`, `removeByIndex` | the loop's end; who trades first |
| Matching engine | `src/matching_engine.cpp` | books, order map, scratch buffers | add, delete, execute/cancel, replace | the map lags behind the books while an order is matched |
| Order map | `include/flat_hash_map.hpp` | open-addressing table | `insert`, `find`, `erase` | back-shifting in chains that wrap around |
| SPSC ring | `include/spsc_ring.hpp` | `head`, `tail`, buffer | `push`, `pop` | each thread sees the other's index late |
| Packet pool | `include/packet_pool.hpp` | lock-free free list | `acquire`, `release` | ABA; two releasing threads |
| UDP handler | `src/feed_handler.cpp` | session, `nextExpected`, statistics | receive loop | loss, duplication, reordering; full ring, empty pool |
| AF_XDP handler | `src/feed_handler_xdp.cpp` | the same, frames, fill and RX rings, batch | loop over batches | a frame lent while it is read; an end of session inside a batch |
| UDP engine loop | `src/engine_udp.cpp` | `stop`, the slot in hand | pop, process, release, shutdown | ending the run |
| MoldUDP64 | `include/moldudp64.hpp` | cursor | header, message iterator, builder | byte order; bytes against announced count |
| ITCH parser | `src/itch.cpp` | - | big-endian field reads | reading beyond the message |
| Replay sender | `src/replay.cpp` | position in the file, batch, sequence number | packets, end of session | the batch's bounds; ending early |
| Entry point, clock | `src/main.cpp`, `include/tsc.hpp` | - | arguments, time stamps | - |

The properties that matter: the book is price-time fair and never crossed; the
caches and links that make it fast agree with what they summarise; no slot or
buffer is lost, shared or used after it was given back; messages are applied
in order and once, and a loss shows in the report; loops and runs end.

## 2. The modules

**Matching.** `OrderPool`, `LadderSide` and `OrderBook` define the operations
of the classes as operators on records. `MatchingEngine` extends them with the
variables and one action per message type. `addOrder` and `replaceOrder` start
the matching loop, `matchStep` is one trade of it (with the unlinking, the
freeing and the removal of an emptied level that follow), and `finishOrder`
rests the remainder and brings the map up to date. `addOrderBadSide` is the
exception nobody catches. The engine is one thread, so no message is looked at
in between; the steps are separate to state that the loop ends and to let the
refinement see each trade. `handleBuyOrder` and `handleSellOrder` mirror each
other and are one definition with the side as a parameter.

- `OverflowVec` is the sorted vector of overflow levels. `LadderSide` has the
  map the vector represents.
- `FlatHashMap` is the table, with one step per iteration of the second loop
  of `erase`. `MatchingEngine` has the map it represents.
- `PriceTimeBook` is the promise: one FIFO queue per stock, side and price. No
  slots, links or caches. `EngineRefinement` maps the engine's state to it by
  walking the lists.
- `MCEngine` and `MCRefinement` give TLC its symmetry set and a view that
  leaves out dead data (what `free` leaves behind in a slot, and the scratch
  buffers between messages). TLC picks the representative of a symmetric state
  before it applies the view, so the number of distinct states it reports
  varies a little from one execution to the next.

**Feed.**

- `SpscRing` takes one step per access to shared memory. An acquire load of the
  other thread's index returns any value it had since the last one seen.
  `BoundedFifo` is its promise.
- `PacketPool` does the same for the free list, with spurious failures of
  `compare_exchange_weak`, under the calls the two threads make. `FreeStack` is
  its promise.
- `EngineLoop` is the matching thread of `runUdp`, the ring and the pool at the
  level of `BoundedFifo` and `FreeStack`, and what both network threads do with
  a packet's header. `UdpFeed` and `XdpFeed` extend it with one network thread
  each. `LiveFeed` is the whole: the matching thread with the network thread
  that `useXdp` chooses.
- In `UdpFeed` a receive returns any packet of the feed, whether or not it was
  returned before, which is loss, duplication and reordering at once. The feed
  is chosen in the initial state: a sender that has sent everything before the
  first receive allows every behaviour that a later one does.
- In `XdpFeed` the kernel and libxdp are external. `arrive` is the kernel
  filling a frame; `peek` grants any batch that is there; `refill` is granted
  all or nothing, as `xsk_ring_prod__reserve` does. The tests of the Ethernet,
  IP and UDP headers are one outcome, `OtherFrame`. An entry of `batchAddrs`
  that was never written is `Indeterminate`.
- A buffer keeps the first `kMaxPacketBytes` of a datagram, in `recv` of the
  UDP handler and in `cpyLen` of the AF_XDP one, and the iterator stops at the
  first message that is not all there. So a packet has, beside the number of
  messages its header announces, the number that a buffer keeps (`fits`): all
  of them, or, for a datagram longer than a buffer, fewer. The session logic
  goes by the first number and the matching thread by the second.

**Bytes.**

- `ItchWire` is the parser and the byte order of numbers. A number the parser
  reads is the sequence of the addresses of its bytes, most significant first,
  because what it reads does not depend on their values. The sequence number of
  a packet has `2 * WordBytes` digits and goes through the exchange of halves
  that `buildMoldPacket` and `parseMoldHeader` make.
- `MoldFraming` follows a file of messages to `processMessage` along both
  modes of `main`: the loop of `run()` over the file, or the replay sender's
  batches, the packets it builds and the iterator of the matching thread. A
  message is known by the address of its first byte in the file. Lengths and
  offsets are those of ITCH 5.0, the packet is smaller. The size of the
  sender's packet (`src/replay.cpp:103`) and that of the receiver's buffer
  (`include/packet_pool.hpp:25`) are separate, as in the code, where both happen
  to be 2048; the buffer may be the smaller one and cut a message in two. The
  network delivers in order; `LiveFeed` has the one that does not.

**Proofs.** Of the engine, one on top of the other: `OrderBookProofs` (lists,
arena, side and book), `StoreProofs` (all books over one arena, with the order
map) and `EngineProofs`. Of the feed: `LiveFeedProofs` (counting of buffers, end
of session, order) and on top of it `FeedAccountProofs` (holes, buffers,
AF_XDP frames). Apart: `PriceTimeBookProofs`, `SpscRingProofs`,
`PacketPoolProofs`. Many leaves name their prover or a longer time: the
obligations of the large modules are slow to translate.

What the models abstract:

- Prices, shares and references are small numbers or model values. Prices stay
  far from 2^32, so `slotToPrice` does not wrap; it is applied to `bestSlot`
  only, whose price a resting order has.
- Clocks, latency records, the pacing of the replay sender, huge-page advice,
  thread pinning and output are left out. So are the byte and duplicate
  counters, and failures to open or map the file.
- In `LiveFeed` a packet is its header and the number of messages a buffer
  keeps; they are numbered from its sequence number. That the bytes hold as
  many as announced, or if they are cut as many as lie whole within the buffer,
  is `CountsAgree` of `MoldFraming`.

What the models assume, because nothing in the code enforces it:

- The table has fewer live keys than slots (`MaxLive`).
- `engine_ladder` and `engine_refinement` have a feed that gives no live
  reference to a second order (`FreshRefs` is all of `Refs`). `engine_queues`
  has one that does.
- A file holds whole messages of the lengths ITCH 5.0 gives their types.
- `PriceTimeBook` has a feed that gives no resting reference to a new order
  (the guard of `Arrive`). `processMessage` does not test it, so what is said
  of that book rests on the feed's promise.

Of the length of datagrams nothing is assumed.

## 3. The runs

| Run | Instance | Checks |
|---|---|---|
| `engine_ladder` | 3 orders, prices 2, 6, 7, 10, TICK 2, WINDOW 4 | `TypeOK`, `NeverCrossed`, `BestIsCached` |
| `engine_queues` | 2 stocks, 3 slots, 2 references of which one is reused while live, prices 6 and 7 | `SlotsInOnePlace`, `MapAgreesWithBooks` |
| `engine_refinement` | 1 stock, 3 orders of 0, 1 or 2 shares, prices 6 and 7 | `ImplementsPriceTimeBook`, `NoOvertaking`, `RestsOnce`, `QueuesAreLinked`, `MatchingProgresses` |
| `overflow_vector` | 5 prices, 3 orders per level | `Sorted`, `IsTheMap` |
| `flat_hash_map` | 8 slots, homes 5, 5, 6, 7, 7, 2 values | `TypeOK`, `NoKeyTwice`, `FindsWhatIsThere`, `ProbesReachTheirKeys`, `IsAMap`, `EraseEnds` |
| `spsc_ring` | capacity 4, 2 values | `TypeOK`, `NoRace`, `ImplementsFifo` |
| `packet_pool` | 4 buffers | `NextIsCurrent`, `ImplementsFreeStack` |
| `live_feed` | either handler, ring 2, pool 1 or 3, 3 messages, buffers for 1 or 2 messages of a packet, 3 receives, 3 frames, batches of 2 | `TypeOK`, `NeverStarves`, `BuffersInOnePlace`, `InOrderOnce`, `HolesAreReported`, `NothingLeftBehind`, `FramesInOnePlace`, `EndOfSessionEndsRun` |
| `mold_framing` | either mode, files of up to 3 messages of 8 types, packets of 57 bytes and at most 0 to 3 messages, buffers of 45 or 57 bytes | `TypeOK`, `BatchFits`, `NumbersFollow`, `CountsAgree`, `AppliesTheFile`, `SendsTheFile`, `PrefetchIsNextKey`, `ReadsItsOwnBytes`, `RunEnds` |
| `udp_drops_as_gaps` | as `live_feed` | `DropsSurfaceAsGaps`, violated |
| `udp_dead_producer` | 2 messages, 2 receives | `DeadProducerEndsRun`, violated |
| `udp_sessions` | 2 sessions of 2 messages | `SessionIsChecked`, violated |

Why the bounds are enough to meet the interesting cases:

- Where a price lands depends on the first order of its side, which sets
  `base`. With TICK 2 and WINDOW 4 the four prices of `engine_ladder` fall on
  the first, the middle and the last slots, off the grid, and below and above
  the window: with 6 first, `base` is 2, so that 2 is the price of slot 0 and 10
  is exactly `base + WINDOW * TICK`; with 2 first, 6 is the last slot; with 10
  first, 2 is below. Of the prices of the other two runs, 6 is in the ladder and
  7, off the grid, in the overflow.
- Three orders give a queue with a head, a middle and a tail, an order that
  fills two others, and a freed slot that is reused. Shares of 1 and 2 give
  partial, exact and excess fills.
- Five keys at homes 5, 5, 6, 7, 7 of an eight-slot table make one chain that
  wraps past the end. Between calls the table is at most five-eighths full.
- Capacity 4 lets both indices wrap while the ring is neither empty nor full.
  Four buffers allow one with each thread, one on the ring and one free.
- With one reference reused, its order can be filled, deleted or replaced while
  another with the same reference rests in either book, before and after the
  slot of the first is handed out again.
- A ring of two slots holds one packet, so it is often full. Three receives
  allow an accepted packet and two of a repeated, an early, a late and a dropped
  one, or an end of session behind them; a pool of one buffer runs empty.
  Batches of two frames have an end of session in the first, so that the second
  address is never saved.
- With room for one message, a packet of two or three has its end cut off,
  and the packet behind it is accepted as the next one.
- In a packet of 57 bytes a replace message fits exactly and the longer types
  not at all, and two of the shortest fit: as many as `batchPtrs` has entries in
  the model. In the code 256 entries are more than a packet of 2048 bytes can
  hold, as long as no message is shorter than 6 bytes. A buffer of 45 bytes
  cuts the longer messages in two, and packets of two messages within the
  second.
- Numbers of four binary digits, two to a half, take every path through the
  exchange of bytes and halves.

Symmetry (orders, stocks) is used in runs of safety properties only.
Deadlock is checked everywhere; a state where the program has ended has a
stuttering step of its own.

**Fairness.** `shift` of `FlatHashMap` is straight-line code of a running
thread. The end of the matching loop is stated without fairness:
`MatchingProgresses` says that every iteration takes shares from the incoming
order, and those are a natural number. In `LiveFeed` each thread has weak
fairness on the steps it can take alone: they run on cores of their own and
neither takes a lock. Nothing is assumed of the senders, of the kernel or of
`recv`, so an end-of-session marker may never arrive; `EndOfSessionEndsRun`
starts from one that was received. In `MoldFraming` the sender and the engine
are running programs, and `RunEnds` is about runs in which no `sendto` fails.

Each property of a passing run has a mutant in `PROJECT.json`: a changed
definition, kept in the module under a comment "Mutant", which makes TLC
report that property.

### Where code and comments disagree

Three disagreements are runs:

- `udp_drops_as_gaps`: a packet dropped on a full ring is not seen by the gap
  detection (`src/feed_handler.cpp:152` says it is), because `nextExpected` has
  already moved past it. The loss shows in `packetsDropped` only, which is why
  `HolesAreReported` mentions both counters.
- `udp_dead_producer`: when the network thread returns on an error, the
  matching thread spins for ever. `src/engine_udp.cpp:82` says the stop flag is
  there for that, but only the matching thread itself sets it, after its loop.
- `udp_sessions`: `src/feed_handler.cpp:71` says that the session bytes are
  checked not to change. They are stored and never compared, in both handlers,
  and messages of a second session are applied.

More were met while modelling and have no run of their own:

- A packet received into the throwaway buffer is not parsed, so neither an end
  of session nor a gap is detected there (`src/feed_handler.cpp:80`). With the
  shipped sizes the pool never runs empty.
- As many buffers as ring slots are one too few for the network thread never
  to run out (`src/engine_udp.cpp:40` says `>=`); theorem `PoolSuffices` has
  `>`. The shipped sizes have twice as many.
- The end-of-session packet's sequence number is not compared, so a loss just
  before it is not counted (`include/moldudp64.hpp:26`). `HolesAreReported` is
  about messages missing between two that were processed.
- The end of a datagram longer than a buffer is neither applied nor counted:
  `nextExpected` moves on by the header's count, the iterator stops at the cut,
  and the next packet is in sequence. `HolesAreReported` names these messages
  (`CutOff`) as the only ones that can be missing unreported. The replay sender
  sends none, its packet being as long as a buffer; another sender may.
- Frames that the fill ring refuses are not offered again on the next batch
  (`src/feed_handler_xdp.cpp:240`). `FramesInOnePlace` counts them in `lost`, so
  it does not speak against losing them; it says that frames are lost in no
  other way.

## 4. The proofs

| Theorem | States | For every |
|---|---|---|
| `EngineProofs!TypeCorrect` | `Spec => []TypeOK` | set of stocks, references, prices, quantities; TICK, WINDOW |
| `EngineProofs!EngineBestIsCached` | `Spec => []BestIsCached` | as above |
| `EngineProofs!EngineQueuesAreLinked` | `Spec => []QueuesAreLinked` | as above |
| `EngineProofs!EngineMapAgrees` | `Spec => []MapAgreesWithBooks` | as above, and set of references that are not reused |
| `EngineProofs!EngineProgresses` | `Spec => []MatchingProgresses` | as above |
| `PriceTimeBookProofs!BookNeverCrossed` | `PTBSpec => []NeverCrossed` | set of stocks and references; natural prices and quantities |
| `PriceTimeBookProofs!BookRestsOnce` | `PTBSpec => []RestsOnce` | as above |
| `PriceTimeBookProofs!BookIsFair` | `PTBSpec => NoOvertaking` | as above |
| `SpscRingProofs!RingNeverRaces` | `Spec => []NoRace` | capacity, set of values |
| `SpscRingProofs!RingIsFifo` | `Spec => ImplementsFifo` | capacity, set of values |
| `PacketPoolProofs!NoAba` | `Spec => []NextIsCurrent` | number of slots |
| `LiveFeedProofs!PoolSuffices` | `Spec => []NeverStarves` | handler, feed with datagrams of any length; ring, pool, frame area and batch size |
| `LiveFeedProofs!NothingIsLeft` | `Spec => []NothingLeftBehind` | as above |
| `LiveFeedProofs!ProcessedInOrder` | `Spec => []InOrderOnce` | as above |
| `FeedAccountProofs!HolesAreCounted` | `Spec => []HolesAreReported` | as above |
| `FeedAccountProofs!BufferDiscipline` | `Spec => []BuffersInOnePlace` | as above |
| `FeedAccountProofs!FrameDiscipline` | `Spec => []FramesInOnePlace` | as above |

They rest on the named ASSUMEs of the modules (constants are natural numbers,
sizes are positive, `INVALID_INDEX` and `kPoolInvalid` are no index), which TLC
evaluates on every run.

- **TypeCorrect.** `TypeOK` is inductive: every stored index is a slot of the
  arena or `INVALID_INDEX`, which `OrderPool::operator[]` needs.
  `OrderBookProofs` has a lemma for each operation of pool, side and book, in
  terms of a set of valid indices that may grow when the arena does;
  `EngineProofs` has a lemma per action.
- **EngineBestIsCached, EngineQueuesAreLinked, EngineMapAgrees,
  EngineProgresses.** None is inductive alone: that `unlink` keeps a queue
  linked needs that no slot is in two lists, and that a freed slot has left the
  map needs that the map agrees. Together they are, in `EngineInv`: the free
  list and the queues are lists without a slot in common or twice that use up
  the arena (`Arena`); each side has its populated slots, overflow and cached
  best slot in order (`SideInv`); and every live entry of the map leads to the
  order of that reference, which is in one queue (`Consistent`). A lemma per
  operation says which list it changes and how (one slot leaves, one joins at
  the tail), and the rest of the invariant follows from that alone.
  The properties walk the links with the recursive function `Chain`. What it
  returns is shown by a least counterexample: among the positions at which
  the walk and the list differ there would be a least one (`LeastExists`), and
  the step before it contradicts it.
- **BookNeverCrossed.** With the types, `NeverCrossed` is inductive. Only
  `Settle` fills an empty queue, and then `Marketable = {}` says that no
  opposite queue meets it.
- **BookRestsOnce, BookIsFair.** `RestsOnce` is inductive with the types: a
  queue only shrinks, except for the one that `Settle` appends the arriving
  order to, and that order rests nowhere, by the promise of the feed that
  `Arrive` states. Each step that changes a queue keeps
  the relative order of what stays (`KeptBy`: the new queue embeds into the old
  one in increasing positions); with every reference in one position, no two
  can have changed places.
- **RingNeverRaces, RingIsFifo.** Neither is inductive. `RingInv` says that
  going round the ring the positions come as `headSeen`, `head`, `tailSeen`,
  `tail`; that a push past its test still has an open slot and a pop past its
  test a value; and that what was written or read is what the slot holds. The
  refinement then has three facts: writing at the tail leaves the contents,
  publishing appends, advancing removes the head.
- **PoolSuffices.** `BuffersCounted`: until the network thread is done, pool,
  ring and the two threads' hands add up to `poolSlots`. The ring holds at most
  `RingSlots - 1` and the matching thread one, so one is left for either
  handler whenever it is about to call `acquire`.
- **NoAba.** `PoolInv`: the head is free, every free slot leads to a free slot
  that is not the head, and no two lead to the same one; a releasing thread
  owns its slot until its exchange succeeds. So the slot whose link `acquire`
  has read stays in the pool, since only the network thread takes slots off,
  and nobody writes the link of a slot in the pool.
- **NothingIsLeft.** `EndInv`: the sentinel is only ever last on the ring, and
  only once the network thread has ended; so the ring is empty when it is
  popped.
- **BufferDiscipline.** `OnePlace` says pairwise what `BuffersInOnePlace` says
  with one sequence: pool, ring and hands have no buffer twice or in common,
  and each buffer is in one of them. Four lemmas (take, release, append, pop)
  carry it through all actions.
- **ProcessedInOrder.** `Ordered`: from `processed` over the matching thread's
  packet and those on the ring to the `Horizon`, numbers only grow. The horizon
  is the number of the packet accepted and not yet handed over, or else
  `nextExpected`. The buffers of these packets are not written in between,
  which is where `OnePlace` is needed.
- **HolesAreCounted.** `Tight`: as long as both counters are 0, each packet of
  that chain starts where the one before ends by its header, up to the horizon.
  A step that would break it raises `gapsDetected` or `packetsDropped`. What
  lies between two messages processed is then in the cut-off ends of packets
  that were sent.
- **FrameDiscipline.** `Batched`: the addresses noted so far are those of the
  descriptors at the front of the RX ring, so releasing the descriptors moves
  the frames into the batch. `OneFrame` is then `OnePlace` for frames.

Only model-checked:

- the liveness properties: fairness and ENABLED are out of the prover's reach;
- `SlotsInOnePlace`, which counts with cardinalities; its content, the `Arena`
  part of `EngineInv`, is proved;
- `ImplementsPriceTimeBook`, and `NeverCrossed`, `RestsOnce` and `NoOvertaking`
  of the engine. The last three are proved of `PriceTimeBook`, which the first
  says the engine implements;
- `ImplementsFreeStack`, and the properties of `MoldFraming`, `OverflowVec` and
  `FlatHashMap`: they are about folds and recursive functions, or about
  searches in a table, and need induction over data;
- `TypeOK` of the modules other than the engine's.

No module declares a RECURSIVE operator.

## 5. Not modelled

- `include/tsc.hpp`, and the calibration and latency records built on it: they
  are written and never read by the parts modelled here.
- The parsing of arguments in `src/main.cpp` and `src/replay.cpp`; the values
  that matter (mode, handler, `--max-per-packet`) are chosen in the initial
  states.
- The pacing loop of the replay sender, which delays a packet and changes
  nothing else.
- A full order table. Its probe loops do not end for an absent key, and no code
  bounds the live orders; the constructor's comment gives the sizing that the
  model takes over as `MaxLive`.
- The build without Linux, whose AF_XDP handler only reports that there is
  none.
