# A TLA+ development for FBR-TSCH

FBR-TSCH is a fork of OpenWSN: firmware in C for small radio motes. A *sensor*
floods the switching of a light to a *sink* over a synchronised, time-slotted
MAC (TSCH). Each mote is one processor: interrupts (the slot timer, the timer
of the MAC's state machine, start and end of a radio frame) preempt a loop that
runs tasks to completion. There is no memory protection between the two and
little locking, and this is where most of what can go wrong is.

The modules here are read off the C source; paths below are relative to `src/`.
`PROJECT.json` gives, for each definition, the lines it models.

## The system

| component | source | state | operations | uses |
|---|---|---|---|---|
| scheduler | `kernel/openos/scheduler.c` | 10 task containers, linked list by priority | `scheduler_push_task` (interrupts off), `scheduler_start` (main loop, interrupts on) | called by the MAC's interrupts |
| openqueue | `openstack/cross-layers/openqueue.c` | 20 packet buffers with creator and owner | get, free, search by owner and creator, each with interrupts off | everyone |
| TSCH MAC | `openstack/02a-MAClow/IEEE802154E.c` | synchronisation, ASN and slot offset, state, packet of the slot, `syncnum`, `deSyncTimeout` | slot edge, state machine timer, start and end of frame | schedule, openqueue, sixtop, light; pushes the tasks |
| schedule | `openstack/02b-MAChigh/schedule.c` | circular list of active cells, current cell | advance, next active slot, type, jump at synchronisation | |
| sixtop | `openstack/02b-MAChigh/sixtop.c` | none | send, send an EB (interrupt), sendDone and receive tasks | openqueue, neighbors, light |
| neighbors | `openstack/02b-MAChigh/neighbors.c` | neighbour table, rank, preferred parent | update on reception (task), preferred parent (interrupt) | |
| light | `openapps/light/light.c` | burst number, map of packets seen, light state, bursts to catch up | sensor's burst and catch-up (slot interrupt), reception and relaying (task) | sixtop, openqueue |
| openserial, opentimers, boards | `drivers/common`, `bsp` | buffers, timer table, registers | input, output, compare interrupts | |

What is hard in it, with the line of each case in the `hazards` of
`PROJECT.json`:

* interrupts between two accesses of the task loop to what they share: the task
  list, the owners of the packets, `numMissedBursts` and `light_state`;
* tasks that carry no pointer and look for their packet when they run, so that
  the number of tasks and the number of packets must agree at all times;
* the many ways out of a slot, each of which must return the one packet of the
  slot once, stop the timer, turn the radio off, and leave the position in the
  schedule right;
* loss of synchronisation in the middle of anything;
* a time base kept in four counters per mote, each taken from an EB in its own
  way, and a search of the network that changes its channel once in 1000 slots;
* a neighbour table written by a task and read by interrupts half-way;
* a queue of limited size shared by received, relayed, sensed and EB packets;
* small wrapping integers: retries, `syncnum`, burst numbers, bursts to catch up.

What makes each component right: the scheduler runs each task once and wakes
up for it; a buffer has one owner and always comes back; the MAC uses the cell of the
slot it is in, returns to sleep, and desynchronises in time; the
application relays a packet once, and its light follows the sensor's; a mote
has at most one preferred parent, nearer to the DAG root than itself; and
motes that are synchronised agree on the slot and the channel.

## The modules

* **`Scheduler`** The task list. A push is atomic, since it disables the
  interrupts; every access of the main loop to the list or to the container of
  the running task is a step (`ReadHead`, `LoadNext`, `StoreShift`, `CallTask`,
  `FreeCb`, `FreePrio`, `FreeNext`), as is the check before the sleep. The
  containers are kept as an array of fields with `next` pointers, because it is
  their corruption that matters. `fresh` and `hit` are ghosts: containers
  whose task has not run, and whether an interrupt came in a window.
* **`OpenQueue`** The buffers and searches of openqueue, as operators on a
  function from buffer numbers to entries.
* **`PacketPool`** The abstract specification: the phases of a buffer's life
  and the steps between them.
* **`TimeLease`** A second abstract specification: what it means to be
  synchronised. A mote holds the time on a lease, gets or renews it by a number it
  has not had last and by nothing else, and loses it a term of slots later.
* **`Ieee154e`** One mote: a constant `Role` makes it DAG root, relay or
  sensor. One action per interrupt and per way out of its handler, and one per part of a
  task between two critical sections. It refines `PacketPool` by `PhaseOf`,
  and `TimeLease`.
* **`SyncNet`** Several motes by whole slots: who sends, what each listener
  receives on its channel, joining by an EB, following the parent's `syncnum`,
  losing the synchronisation, the channel search; a DAG root that may stop and
  motes that may reboot. It composes what `Ieee154e` says of one mote, at the
  grain of slots, with the choice of a parent. It refines `TimeLease` too: what the
  two modules say of the synchronisation, one by interrupts and the other by
  slots, is the same to whoever looks at the lease.
* **`Neighbors`** The neighbour table of one mote, with one step per access of
  the receive task that an interrupt can tell apart. `parent`, the preferred
  parent of the last finished task, is a ghost.
* **`Light`** The application on several motes, with the radio reduced to packets that reach
  any set of neighbours late or never. The task takes one step per access to
  the two variables that it shares with the slot interrupt. `seen`, `relayed`,
  `miscounted`, `torn`, `misled` and the `number` of a frame are ghosts.
* **`MCScheduler`, `MCIeee154e`, `MCSyncNet`, `MCNeighbors`, `MCLight`**
  instantiate them for TLC.
* **`SchedulerProofs`, `OpenQueueProofs`, `Ieee154eProofs`,
  `Ieee154eControlProofs`, `Ieee154ePoolProofs`, `SyncNetProofs`,
  `NeighborsProofs`, `LightProofs`** hold the theorems.

How state and actions correspond to the code: variables have the names of the C
variables where TLA+ allows (`ieee154e_vars.dataToSend` is `dataToSend`). `queue`
is `openqueue_vars.queue` reduced to creator, owner, retries and kind. A pointer
to a buffer is its number. `rxTasks` and `txTasks` count the pushed tasks. The
handlers of the radio timer are grouped where they do the same
(`TimerStep`, `TimerWatchdog`).

Abstractions that a reader should know:

* In `Ieee154e` an interrupt is one step. On the boards a handler of the MAC ends
  before the next slot edge (the durations of `IEEE802154E.h` and the guard
  at `IEEE802154E.c:553`), and interrupts of equal priority do not nest. So
  `dataReceived` is empty between interrupts and the part of `endSlot` that cleans
  it, and the acknowledgements that nothing requests, is not needed.
* The radio may call both callbacks in any order and number while it is on: on
  the CC2538 two interrupt flags call the end of frame callback, and one of
  two simultaneous flags is dropped.
* Time is the order of events; the slot timer may fire in any state. Overruns
  are thus always possible, although on a board they need a delay.
* The intermediate owners that a task gives a packet it has just claimed (LIGHT, SIXTOP) are
  one step, as no interrupt tells them from OPENQUEUE.
* Draws of `openrandom`, the sensor reading and the validity of frames are
  nondeterministic, as are ranks and the preferred parent in `Ieee154e`, which
  `Neighbors` is about.
* In `SyncNet` a slot is one step of all motes. Each mote in a cell may have a
  frame to send or not, a listener receives at most one of those on its
  channel, and a mote may prefer any of a constant set of parents. The DAG
  root's first slotframe, one cell off, is left to `Ieee154e` (`RootGetsAligned`).
  ASNs are counted modulo a multiple of all lengths, which is to assume a
  network younger than 2^32 slots: an EB carries four of the five bytes.
* In `Light`, `rx` and `queue` are sets: two identical packets in the same
  queue count as one.

## What the runs show

| run | instance | shows |
|---|---|---|
| `scheduler` | 4 containers, fewer than 3 pending at a push | the list stays finite and made of unrun tasks, no stale call, tasks lost only in the two windows, non-empty list served |
| `relay` | relay, 3 buffers, 3 slots (EB, TXRX, inactive), timeout 3 | types, packet ownership, task counts, no stranded buffer, no critical error, timers, states, alignment, EB slots, timeout, the refinements `PoolSpec` and `LeaseSpec`, and that packets and the radio come back |
| `root` | DAG root, the same slotframe | EB slots, the refinement `PoolSpec`, and the healing of the first slotframe; the task counts are proved for every role |
| `syncnet` | DAG root and two motes in range, the second behind the first; 3 slots (EB, TXRX, inactive), 2 EB channels, 6 data channels, timeout 4, 4 numbers; one mote reboots | one time base for all who are synchronised, joins in EB slots only, the refinement `LeaseSpec`, a mote that is not unlucky finds the network |
| `neighbors` | 3 motes for 2 rows, ranks to 4, `numRx` of 3 values, threshold 2 | one row per mote, one parent of a rank one less, the choice the loops compute, answers that settle |
| `light` | sensor and relay, 6 burst numbers, window 3, 6 bursts, EBs | counts and parity of the light state while bursts are missed and caught up, order of bursts |
| `light_mesh` | sensor and two relays that hear each other, 2 bursts of one packet | each packet relayed once, parity |

Five runs end in a violation, each a disagreement between the code and what it
says of itself (`findings` of `PROJECT.json` has the quotations):

| run | what happens |
|---|---|
| `scheduler_shift` | a push between the read of the head and the store of the list shift loses a task and leaks its container |
| `light_missed` | the slot interrupt between increment and decrement takes the missed count to 65535 |
| `light_state` | a mote takes over the state of a relay that has not caught up, with no race |
| `light_old` | a packet delayed by half the burst numbers passes for a new burst |
| `syncnet_newer` | a mote joins by an EB whose number is older than its own, since the test is an inequality |

Two more oddities are modelled as they are and not counted as findings, since nothing
in the repository says otherwise: the DAG root handles its first slotframe one
cell off (`RootGetsAligned` shows that this heals), and packet 4 of a burst
shares the flag of packet 0, as three bits of `pktId` are encoded and two
decoded (`PktId`).

What `syncnet_newer` shows may go further than the run: motes that hold two
numbers may join by each other's in turn and stay synchronised after the DAG root
has stopped. That is not checked.

The role of the sensor has no run of `Ieee154e`: what its interrupt does to
the pool is covered by the theorems, which are about every role.

Each property of a passing run has a mutant: a named variant of one definition with a plausible
bug, placed before it, under which TLC finds the property violated.

### Bounds

* `scheduler`: the windows involve the running container, the head, and one or
  two pushed tasks; with four containers a leak, a reuse of the container in
  release and an overflow all occur. `MAXPENDING` says that a push finds fewer
  tasks in the list: with a full list the code resets, which `Overflow` models.
* `relay`, `root`: three buffers hold a received packet, its relayed
  copy and one in the MAC, and the queue fills up; the slotframe has every kind of
  slot; a timeout of 3 lets a mote desynchronise within and between
  slotframes; two values of `syncnum` give new and old ones. The task counts are bounded
  by the buffers (`OneTaskPerPacket`), so no bound is put on them.
* `syncnet`: a slotframe of three cells and two EB channels, coprime as 13 and 4
  are, so that EBs hop over both channels, and a mote joins at either EB offset; the data
  channels include those of the EBs. A period of two slots makes the search miss
  EBs, and a timeout of four slots is over after one missed EB and the data slot
  behind it. Four numbers wrap. They have to be more than the EBs sent between two on
  the channel searched, or `Rejoins` is false: with three numbers TLC finds a mote
  to which each EB it could hear has the number it had. The code has 256 numbers
  and at most a dozen such EBs. A chain of parents and a mote that hears both have every
  relation of three motes in range. `syncnet_newer` needs three motes besides the
  DAG root and more numbers than are issued, in slotframes of one cell.
* `neighbors`: three motes for two rows fill the table, rank 4 stands for "none"
  and 1 to 3 give parents, equals and children, and `numRx` wraps at 3.
* `light`: six burst numbers and a window of three stand for 16 and 7: a packet up to
  three bursts ahead is new, so that a mote misses up to two bursts at once and
  the counting loop goes round more than once; two more missed later are added
  before the first are caught up. `MAXBURSTS` bounds the bursts, enough for
  the burst number to wrap; `MAXAGE` keeps a packet from lagging further behind the
  sensor than the code can tell, at the limit of two, which `light_old` shows is
  needed; `MISSEDS`, the width of the counter, is more than a mote can miss in six bursts, so that only
  the race makes it wrap. At most one EB waits in a mote. `light_mesh` has no EBs, and
  bursts of one packet: `RelayOnce` for several packets of a burst is left to
  theorem `RelayCorrect`.

### Fairness

`Scheduler` assumes that the main loop runs when no interrupt does and that the slot
timer, periodic and never stopped, interrupts again. `Ieee154e` assumes the slot timer and the task
loop; nothing of the radio or the state machine's timer. `SyncNet` assumes that slots
go on; what a mote needs besides to join is luck, stated as the premise
`NotUnlucky` of `Rejoins` and not as fairness of the code: that it does not miss for
ever the EBs it may join by, that the draws of the DAG root do not for ever avoid the
mote's channel, and that it stops rebooting. `Light` assumes no fairness: nothing is
claimed to happen in the flood, as a packet may be lost by every neighbour. That
the counting loop of the task stops at the number of the burst is in `MissedCounts`: a loop
that went on would count more bursts than there were.

## What is proved

With the TLA+ proof system, for all values of the constants that the modules'
assumptions allow (`SchedulerAssumption`, `QueueAssumption`, `MoteAssumption`,
`SyncNetAssumption`, `TemplateAssumption`, `AsnAssumption`,
`NeighborsAssumption`, `LightAssumption`):

**Scheduler** (`SchedulerProofs`, any number of containers)

* `TypeCorrect`, `ListCorrect`, `CallCorrect`: `TypeOK`, `ListSound` and
  `NoStaleCall`. `ListInv` says that there is a set of containers, closed under
  `next` and with a rank that decreases along it, that holds pushed tasks only and
  not the one that runs; between the load and the store of the shift, the same
  of what was loaded (`Rest`). A push puts its container between two ranks by
  doubling them all. `Walk`, the walk of `scheduler_push_task` along the list, is a
  recursive function: a least counterexample stands for induction, and a walk
  that stays within the set visits no container twice (`WalkEnds`).
* `LossCorrect`: `LossNeedsRace`, that outside the two windows no pushed task falls
  off the list. What is on the list (`Listed`) is the least set that has the head
  and is closed under `next`; so a push adds to it its own container only
  (`PushListed`), and a shift takes away the head only (`ShiftListed`), provided
  that what was loaded is still what follows the head. `HitInv` says that it is,
  unless an interrupt came in between.

**One mote** (`Ieee154e*Proofs`; any role, queue length, slotframe and timeout)

* `TypeCorrect`, `VariablesTyped`: the variables of a mote keep their types, and while it is
  synchronised `deSyncTimeout` runs and never wraps. The two are proved
  together: the decrement keeps its type only while the timeout runs.
* `ControlCorrect`, `StatesCorrect`: `WatchdogArmed` and `StatesOfMode`. Their conjunction is
  inductive: every way out of a slot goes through `Sleep`, which establishes it
  whatever the mode is afterwards.
* `AlignmentCorrect` and `AlignmentStable`: the cell of the schedule is that of
  the slot. Each has the step `AlignedStep`, for any mote while it is
  synchronised; a mote that joins gets there by `JoinAligned`. The proof uses
  that the active cells are the first of the slotframe and fit in it.
* `PoolCorrect`: `MacOwnsDataToSend`, `OneTaskPerPacket`, `NoBufferStranded`
  and `NoCritical`, for a pool of any size (`OwnershipCorrect`, `BuffersReturn` and
  `CriticalUnreached` state them by themselves). They hold each other up, and
  `PoolInv` adds three facts. What waits for the MAC has one transmission left
  and was created by 6top or light (`QueuedAreReady`), or `endSlot` would put it
  back. There is no EB before the mote has a rank (`EbsNeedRank`), or the removal
  of all EBs by the slot interrupt could free one that a task holds, and the task
  would then free it a second time. A running task owns `msg` and `pkt`
  (`TaskHolds`). An interrupt does one of four things to the
  pool (`InterruptEffect`), and each keeps `PoolInv`.
* `PoolRefines`: a mote implements `PacketPool`. The same case split gives
  the move of each buffer (`PhasesMove`).
* `CellsCorrect`: EBs in EB slots only, for every role. Motes that join use
  `AlignmentCorrect`, `PoolCorrect`'s invariant and `PhasesMove`. The DAG root is
  one cell off during its first slotframe, and needs `RootInv`: it never loses the
  synchronisation, its first active slot takes the cell after the first, and it
  never has a packet of light, so that the shifted cells find nothing to send.
* `LeaseRefines`: a mote other than the DAG root implements `TimeLease`. Only the
  slot timer uses the term up, by one per slot; an EB heard in the search and a
  frame of the parent, each with another number than the mote's, are the ways to a
  new one (`FrameTerms`), and no task touches it.

What the searches of the pool return for any queue is lemma `FirstFinds` of
`OpenQueueProofs`.

**Several motes** (`SyncNetProofs`; any motes, topology, parents, slotframe,
hopping templates, timeout and reboots)

* `TypeCorrect`: `TypeOK`, with the fact that the timeout of a synchronised mote
  is not 0 (`TimeoutRuns`).
* `TimeCorrect`: `OneTimeBase`, if the DAG root is not among the motes that
  start again. `OffsetInv` says that the three offsets of a synchronised mote
  are its ASN modulo their lengths, which the wrapping increments and the three
  ways of taking over an EB all keep; the ASNs then only have to be equal
  (`SameAsn`). The offset of the EB channels is worked out from the channel of the
  EB, so the proof uses that the template has no channel twice.
* `JoinCorrect`: `JoinsInEbSlot`, with reboots of any mote: an EB is sent in an
  EB slot of the sender, and the ASN in it gives the joining mote that slot.
* `LeaseRefines`: the network implements `TimeLease`, one lease per mote but the
  DAG root; those that may reboot are those that may lose it early.

**Neighbour table** (`NeighborsProofs`; any size of table and width of `numRx`)

* `TypeCorrect`, `TableCorrect`, `ParentsAreBelow`, `AnswersCorrect`: `TypeOK`,
  `TableSound`, `ParentBelow` and `AnswersSettle`, from `TableInv`. It adds that rows
  in use are named, and what the scan has done so far: the rows before it
  prefer nobody and the candidate is of a rank one less (`ScanInv`), where the task is
  and whom it is about (`TaskInv`), what the interrupts may be told meanwhile
  (`AnswerInv`), and the rank of the parent until an EB's is stored (`RankInv`).
* `ParentIsBest`: `ChoosesParent`, that the loops choose the neighbour heard most of
  those a rank below. `BestInv` has two invariants of the loop, as the mote's own rank
  changes with its first EB: before that all neighbours but the EB's are of no use
  (`HighRows`, `FirstScan`), later the candidate is the most heard of the rows
  passed (`LaterScan`).

**Application** (`LightProofs`; any motes, links, burst numbers and windows)

* `TypeCorrect`: `TypeOK` with the bound of the pool: every packet is counted in
  the queue, among the received, or as the one of the task. It uses that a
  burst has at most eight packets (`LightAssumption`; the code's is 5).
* `StateCorrect`: `StateFollowsBurst`. `ParityInv` gives, for each access of the task, the
  parity of the burst, the missed bursts and the light state, the
  register in the place of what it will be stored to; it uses that the numbers
  of bursts and the width of the counter are even.
* `MissedCorrect`, `BurstsCorrect`, `RelayCorrect`: `MissedCounts`, `BurstsAdvance` and
  `RelayOnce`, for behaviours in which packets are `Timely`: none is received so many
  bursts late that its number looks new. The hypothesis is needed, and cannot be
  derived: nothing in the code makes it true, and `light_old` shows what happens
  without it. TLC finds it invariant in the instances of `light` and `light_mesh`,
  where `MAXAGE` bounds the lag of packets and so of motes. `FloodInv` says, of each mote,
  that the number of its burst stands for its `burstId` (`NumberAt`), that the bursts missed and
  those the task will still count are no more than there were (`CountAt`), and
  that what it relayed of its burst is in its map (`RelayAt`).

Every safety property of a passing run is stated by a theorem. Only
model-checked is liveness (`PoolReturned`, `ListensAgain`, `RootGetsAligned`,
`ListServed`, `Rejoins`), which needs fairness and ENABLED, and both are
out of the provers' reach.

## Not modelled, and why

* Byte layout of frames and headers (`IEEE802154.c`, `packetfunctions.c`):
  sequential pointer arithmetic.
* `openrandom.c`: each draw is a nondeterministic choice.
* `adaptive_sync.c` and `processIE.c`: nothing reaches them.
* `openserial.c` and `openhdlc.c`: compiled out of the mote (`SConscript:69`) but
  for `openserial_printCritical`, which resets the board by the one timer of
  `opentimers.c` that this firmware starts: `Reboot` of `SyncNet`, for whatever reason.
* A DAG root that reboots with ASN 0 among motes still synchronised: the code has
  nothing that would bring them together before their timeout, so there is
  no property to check; `TimeCorrect` names the assumption.
* The age of 2^32 slots, after which an EB no longer carries the whole ASN.
* What a task lost by the race of the scheduler does to the queue: `Ieee154e`
  counts pushed tasks as run once, which `Scheduler` shows to hold outside its two
  windows (`LossNeedsRace`).
* Boards and chips: registers, vendor drivers and headers are some 50000 of the
  59000 lines of code of the repository, and host tools and test projects part of the
  rest. The radio, its timer and the slot timer appear as the
  environment of `Ieee154e`; the drivers have no state that its properties
  depend on. This is why the lines modelled are a small share of the
  repository, though most of those of `IEEE802154E.c`, `sixtop.c`,
  `neighbors.c`, `light.c`, `openqueue.c` and `scheduler.c`, and half of `schedule.c`.

## Order of the work

The pool and the MAC came first, since everything hands packets through them,
then the scheduler, the application, the neighbour table and the network of
several motes; the proofs followed the same order. What could be added: the
composition of `Scheduler` with the tasks of `Ieee154e`, and insertion into the
circular list of the schedule in an order other than that of `schedule_init`.
