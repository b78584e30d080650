# A verification project for the IceEE server

IceEE is the server of a massively multiplayer game: one or more *shards*
(server processes) that share a Redis database, each driven by one main thread.
This directory holds TLA+ modules that model parts of the server, the TLC
configurations that check them on small instances, and proofs that TLAPS checks
for every value of the constants. Source paths below are relative to
`SOURCE/Server/` unless they start with another directory.

## The system and its parts

**Threads.** Packets of clients are read by connection threads and handed to
the main thread (`SimulatorManager`), which handles them one after another
(`Daemon/main.cpp`, `RunServerMain`); a query handler is therefore atomic with
respect to other handlers. What runs beside the main thread is the pool of the
scheduler (`Scheduler::Pool`), the threads of the HTTP service, and the threads
of the Redis client that call back on messages.

| Part | State | Operations | Talks to |
|---|---|---|---|
| Scheduler (`Scheduler.cpp`) | sorted timers, `mNextRun`, FIFO queue | `Schedule`, `ScheduleIn`, `Cancel`, `Submit`, `Pool`, `RunScheduledTasks`, `Shutdown` | everybody who defers work |
| Main loop (`Daemon/main.cpp`) | cached clock `g_ServerTime`, server status | a cycle of packets, timers, queue, sleep | scheduler, cluster, instances |
| Trade (`Trade.cpp`, `query/TradeHandlers.cpp`) | map of transactions, each with two sides, offers, acceptances; `activeLootID` of creatures | `trade.start`, `.items`, `.offer`, `.currency`, `.accept`, `.cancel`, `.shop` | inventory, instances |
| Cluster (`Cluster.cpp`) | active shards, active players, master, pending transfers; sessions in Redis | start, stop, ping, expiry, configuration, join, leave, transfer, key/value store | all shards over pub/sub |
| Shutdown command (`query/CommandHandlers.cpp`) | one timer id | start a countdown, call it off | scheduler |
| Auction house (`AuctionHouse.cpp`, `query/AuctionHouseHandlers.cpp`) | auctions and bids in Redis, one timer per auction in the process | post, bid, buy, complete, expire, load | cluster master, scheduler, Redis, inventory |
| Parties (`PartyManager.cpp`, `query/PlayerHandlers.cpp`) | parties, members, leader, pointers to creatures | invite, accept, reject, set leader, kick, quit, reconnect | simulators, instances |
| Login, sessions, transfers (`message/LobbyMessage.cpp`, `Simulator.cpp`, `Cluster.cpp`) | sessions in Redis, simulators, loaded characters, pending transfers and tokens | connect, authenticate, select persona, transfer, detach | cluster, Redis |
| Instances (`Instance.cpp`) | instances with players and a counter, owner and party, time to live | place, remove, warp, check, delete | simulators, parties |
| Loot (`query/LootHandlers.cpp`) | loot tags and rolls | offer, roll, distribute | parties, inventory |
| Creatures, combat, quests, scripts, zones | the game world | per-tick updates, interpreters | each other, on the main thread |
| HTTP service and API | sessions of web pages, scheduled clean-up | requests | accounts, cluster |

**What is hard here.**

* *Ordering between queries of several players.* Handlers are atomic, but a
  transaction, a party or an auction lives through many of them, sent by
  players who do not wait for each other and leave at any time.
* *Copies that go stale.* An offer holds copies of items and a sum of coin;
  a timer id outlives its timer; `mNextRun` summarises a vector.
* *Two delivery orders.* Messages of shards about shards are `Submit`ted to
  the main thread and run in order; messages about players are handed to
  `Pool` and run at any time, concurrently with the former.
* *Crashes, restarts, suspicion.* A shard may crash and be back before the
  others miss it, may be thought dead while it lives, and pub/sub loses what is
  sent to a shard that is not subscribed.
* *Stages of timers.* A countdown and an auction hand over from one timer to the
  next, and may be called off in between.
* *Three lives.* Auctions and sessions in Redis outlive the process; timers,
  simulators and loaded characters do not; a party outlives the creatures and
  the connections of its members.
* *Counters kept beside lists.* An instance is deleted by `mPlayers`, not by the
  list of its players; sessions are counted, not named.

**What makes each part correct.** A scheduler: no due timer is passed over,
an undisturbed cancellation takes its own timer and no other, no timer starves. A trade: nobody
gains or loses what he did not agree to, transactions never name creatures that
are gone. A cluster: every shard knows itself, follows a master it knows, and
running shards agree on one. A countdown: it ends when it says, and can be
called off. An auction: the lot is in one place, the seller gets what the buyer
pays, and it ends. A party: whoever believes to be a member is one, and its
leader can lead. A session: Redis counts those who are logged in, nobody plays
twice, and a lost connection gives its session back. An instance: it lives as
long as somebody is in it and no longer, and placing a player has one answer.

`PROJECT.json` lists all parts, the hazards at their lines, and which
definition models which lines.

## Modules

### Scheduler (`Scheduler`, `MCScheduler`, `SchedulerProofs`)

The timers (`scheduled`, kept as a set because the vector is sorted before each
use and `std::sort` leaves equal keys in any order), `mNextRun`, `mNextTaskId`,
the queue of the main thread, both clocks, and the phases of a turn of the main
loop: handlers, moving due timers, draining the queue. Jobs are opaque: what a
job does is a `ScheduleTask`, `CancelTask` or `Submit` of the drain phase.

Callers are the main thread and the workers of CivetWeb (`WebThreads`): the web
control panel reloads the checksums (`http/WebControlPanel.cpp:66`), which
cancels a timer and schedules the next (`http/HTTPService.cpp:96-107`).
`RunScheduledTasks` and `Schedule` hold `mMutex` for the whole of their work.
`Cancel` unlocks before it erases (`Scheduler.cpp:99`, `:100`), so it is two steps:
`Cancel` finds the timer, `Erase` erases what the iterator points to by then.
A change of the vector by another thread in between makes the iterator stale
(`overtaken`); the erase then takes any timer or none (`Slot`), or tears the
vector and ends the process (`Crash`). `Submit` is open to all threads at all
times.

* Run `scheduler`: three timers, one web worker, a limit of one timer per cycle
  and a clock of five units, so that timers compete for the limit, are cancelled
  at the front, are due while others arrive, and cancellations are overtaken.
  `NoOversleep`: `mNextRun` is never later than a waiting timer, although
  `Cancel` does not maintain it and an overtaken erase may take any timer.
  `CancelIsExact`: a cancellation nobody overtook takes the timer of its id and
  no other, however old the id. `EveryTimerLeaves`: no timer waits for ever.
* Known deviations: an overtaken `Cancel` takes a stranger's timer, which is the
  condition of `CancelIsExact`; `ScheduleCheck` zeroes the id of its own timer
  before it cancels it (`http/HTTPService.cpp:104`), and so cancels the timer that
  was given the id 0, whoever's it is, and leaves its own (the model lets a
  worker cancel any id); `Cancel` leaves `mNextRun` alone, so after the front timer was cancelled
  the next one is run at the cancelled one's time, before it is due.
* Fairness: strong fairness of the main loop's steps, weak fairness of its own
  erase and of the clock. The loop runs until the server stops and never blocks
  on clients; a `Cancel` on the main thread suspends it until the erase, and a
  handler makes finitely many such calls, which is why strong fairness is what
  the loop gives. Web workers need not go on. Posts per cycle are bounded
  (`MaxPosts`), since `mQueue.run()` would otherwise never return.

### Trade (`Trade`, `MCTrade`, `TradeProofs`)

One action per query. `tradeList` maps trade ids (the id of the creature that
asked first) to transactions, `activeLootID` is the only way from a creature to
its transaction. Early returns that change nothing are steps that are not taken.
A NULL dereference is a step to `crashed`.

An offer may name a slot several times (`nth` tells the copies apart) and slots
of other containers (`OtherSlots`), and coin may be of either sign, since
`trade.items` and `trade.currency` check none of this. An offered item that lies
in a slot of another container frees no slot of the backpack, but `HasRoom`
counts one for it, as the code does.

Abstractions: items are unstackable and known by their id, backpacks have few
slots. An accept that fails for lack of room or coin changes nothing but the
acceptance and leaves the transaction open, as the code does. `item.move` cancels a trade before it
moves anything. The refusal of `AddItem_Ex` for ownership reasons, the coin an item
grinder pays for a deleted item, and the overflow of 32-bit balances are not modelled.

* `trade`: two players with an item each in backpacks of one slot, coin, and a
  shop, so that a backpack is full until its own item is given away, and items
  and coin that were offered are moved, deleted, sold, spent or earned before
  the trade is accepted. An offer names a slot up to
  twice, and coin is offered in negative amounts too. `TypeOK` includes that the
  buyback list keeps its limit; `CoinPreserved`: an accepted trade mints and
  destroys no coin; `Delivers`: a trade of two players whose offers were not
  touched and name slots of the backpack once (`PlainOffers`) hands over every
  item, although the room was computed from slots that only the removal frees.
  The run has no slots of other containers; the proof covers them.
* `trade_three`: three players without items (symmetric), so that requests are
  replaced by requests to a third player. `TradersPointBack`: whoever a
  transaction names is in the instance and points back to it.
* Finding `trade_duplicate`: an offered item that is sold or deleted is traded
  all the same, and is then in two places.
* Known deviations without a run: an offer of negative coin passes the check of
  the accept (`query/TradeHandlers.cpp:871`, `:699`) and takes coin from the other
  player, below zero if he has less; an offer that names a slot twice, or a slot
  of another container (`:263`, `Inventory.cpp:481`), has more slots counted
  than it frees, and what does not fit is lost, which is the condition of
  `Delivers`; `accepted` stays set when the offer behind it
  is replaced (`query/TradeHandlers.cpp:264`, `:887`), so a player may be held to
  an offer he never saw; a request that is taken up after it was replaced leads
  to the state `crashed`; `trade.start` does not refuse one's own id
  (`:419`), and a player on both sides of a transaction that others left offers
  in may lose an item for lack of room, which is why `Delivers` speaks of two players.

### Cluster (`Cluster`, `MCCluster`, `ClusterProofs`)

Each shard has a status, a `ClusterManager` (`mActiveShards`, `mActivePlayers`,
`mMasterShard`), a FIFO of messages for its main thread (`tasks`) and a bag of
messages for its pool (`pool`). Publishing appends to the queues of the shards
that are subscribed; others lose the message. `Launch`, `Ready`, `Stop` and
`Crash` are the life of a process, with the configuration exchange done by
`HandleStarted`, `HandleConfiguration`, `HandleReconfigure` and `HandleRequest`;
`RunProcessingCycle` pings and drops the shards not heard of; `PoolTask` runs
joined and left messages of players in any order.

Map accesses with `operator[]` create blank entries as they do in C++: an entry
of `mActiveShards` may exist with the empty name and start time zero.

Abstractions: time is not measured, so a shard that is down may be found expired
at any time, and a live one is found expired at most `MaxSuspicions` times;
`MaxTasks` bounds the pings that pile up in a queue. `Login` takes
authentication, `SetPersona` and the first zone as one step. Transfers and
the two steps of a login are the subject of `Session`. Not modelled: the entity
store, pongs, relayed chat, weather and auction messages.

* `cluster`: two shards start, stop, crash and come back within five clock
  values, and one live shard may be suspected. `ElectionSettles`: once
  membership no longer changes, the running shards agree on a running master, if
  no two of them were starting at the same time and nobody plays.
* `cluster_players`: with a player who logs in, changes zones and leaves.
  `OwnShardActive`: a running shard always lists itself, with its name and
  start time. `MasterIsActive`: a shard never follows a master it does not
  list.
* Known deviations, which is why `ElectionSettles` has its two conditions: a
  shard compares its own `mStartTime` but tells the others `g_ServerLaunchTime`
  (`Cluster.cpp:992`, `:1517`), so two shards that boot together each take the
  other for the master; and a joined message that overtakes a configuration
  creates a nameless entry (`Cluster.cpp:853`) which is then elected.
* Fairness: weak fairness of queued tasks and of the pool, because both are
  drained in every turn or by dedicated threads; strong fairness of a processing
  cycle that finds the stopped shards expired, because such a shard stays past
  the timeout while the cycle is disabled and enabled by the bound on queues.

### Shutdown (`Shutdown`, `MCShutdown`, `ShutdownProofs`)

The countdown of `/shutdown`: its stage timer, the id the handler holds (the
live timer's or that of one that ran), the timers that stop the server, and
the request that was announced with its restart time (a history variable). The
scheduler is abstracted to timers that run up to a tick after they are due.
`Requests` are arguments of either sign, since `atoi` is not checked.

* `shutdown`: requests of -1 to 10 and of 12 minutes, called off and asked for
  again at any time, on a clock that is longer than the longest countdown that
  ends, with every timer late. `RestartsWhenAnnounced`: a shutdown of less than
  ten minutes that was not called off happens in time, whatever was asked for
  before; `CountdownCancellable`: the handler holds the id of the running stage,
  although each stage sets a new timer.
* Known deviations: from ten minutes on, the countdown repeats a stage with no
  wait and never ends (`query/CommandHandlers.cpp:2038`), which is the condition of
  `RestartsWhenAnnounced`; a negative argument stops the server after the grace
  period; called off in the last five seconds, the server stops all the same,
  because nobody holds the id of the timer `LastTimer` sets. The product of
  minutes and 60000 is an int for 35791 minutes at most, of either sign (the
  assumption on `Requests`); beyond that its overflow is undefined.

### Auction (`AuctionPromise`, `Auction`, `MCAuction`, `AuctionProofs`)

`AuctionPromise` says what players rely on, with no clock, no timers and no
store: a lot is owned by one player, on sale for one seller at one price,
kept for its seller by a vendor, or gone; a sale moves the lot and exactly its
price; an unsold lot goes to the vendor, and its seller pays what the vendor asks
to have it again (`BuyBack`, `query/TradeHandlers.cpp:201`, `:221`). Purses change by a
commission, a price or a vendor's charge, as int, and by nothing else. `Auction` is the code: the entities in Redis (`item`, and `listed`, the
set the ids are loaded from), the timers of the process (`mTimers`), the players' auction
box, backpack, buyback list and copper, and the handlers of `query/AuctionHouseHandlers.cpp`.
`LoadItems` runs when the shard becomes master, and `LoseMaster` cancels every
timer when it ceases to be (`Cluster.cpp:823`); `Stop` and `Start` lose the
timers and keep the entities.

Prices are unsigned long and purses int, with the code's conversions: the
commission becomes an int before it is compared with the purse and subtracted
(`CommissionOf`, `query/AuctionHouseHandlers.cpp:166`), and a purse below zero is an enormous
unsigned long when a price is compared with it (`AsUnsignedLong`). The limits of
both types are constants; `Prices` are what `atol` and the assignment leave.

The refinement maps a lot to the set of *all* places that hold it (`Places`) and
the purses to `copper`. Since the abstract module only has states with one or no
place, a lot that is duplicated, or vanishes other than by being pushed out of
a full buyback list, breaks `KeepsPromise`. `Erase` is the erasure from a
vector, of an earlier bid of the same player and of a lot that is bought back.

A timer set by `ah.auction` captures a reference to a local variable
(`AuctionHouse.cpp:905`): the model marks it `dangling`, and when it runs it
completes any auction or crashes the process. `LoadedAuctionsEnd` is therefore
about the timers made from a copy, those of `LoadItems` and `CompleteAuction`.

* `auction`: two players, two lots of the same player, auctions of one hour, a clock of four
  hours (post, complete, expire, and be posted again), an int of -8 to 7 and a
  price of 20 whose commission no int holds, and a buyback list of
  one entry, so that a lot that comes back can push out the other.
  `KeepsPromise`; `TimersHaveAuctions`: `ah.buy` and expiry leave no timer
  behind that would act on an auction that is over; `LoadedAuctionsEnd`, unless
  the process stops or the shard is no longer master.
* Fairness: weak fairness of the clock, of loading and of each due timer, which
  the main loop runs in every turn (module `Scheduler` shows that no timer is
  passed over). Restarts and elections are not fair: they may happen or not.
* Known deviations: a commission that no int holds passes the check and changes
  the purse by a wrapped amount, so purses may fall below zero or grow, which
  `AuctionPromise` therefore allows; bids are written to Redis but not read back
  (`AuctionHouse.cpp:175` against `:205`), and `CompleteAuction` loads the auction
  it ends, so every auction ends as one that "failed to attract any bids"
  (`:576`), whatever was bid. The abstract module therefore has no sale by bid.
* Left out: prices in credits; the rounding of the commission, which the code
  computes in double; vendor charges are assumed not negative; a timer that the
  scheduler has moved to the queue already when the auction is bought or the
  shard ceases to be master, which runs all the same; two shards trading in the same auctions, whose
  saves would overwrite each other (`query/AuctionHouseHandlers.cpp:245`); a crash between
  the save of the auction and that of the character (`:192`).

### Party (`Party`, `MCParty`, `PartyProofs`)

A player keeps his `CreatureDefID`, has a `CreatureID` that is made from his
simulator's id and therefore changes with the connection, and gets a new
creature in every zone. Parties remember both ids and a pointer. The model
numbers connections and creatures, so that a stale id or pointer can be told
from the current one; a write through a pointer to a deleted creature sets
`corrupted`, and what follows is then arbitrary in the code, so the model stops there.
`creatures` counts the creatures of all players, for the bound. `ClearPartyIDs`
resets the `PartyID` of the creatures that erased entries point to and of those
the caller resets itself (`self`: quitting resets one's own first).
Invitations are shown by the target's client until answered and may be answered
late, after the leader left, was replaced or came back.

* `party`: three symmetric players, two parties, four creatures in all, two
  open invitations. `PartyKnowsMembers`: whoever has a `PartyID` is in the list
  of that party, with a pointer to his creature of now; `LeaderCanAct`: a
  leader's rights survive a reconnection, although they hang on an id that
  does not.
* Known deviations: `DoKick` reads the member after it erased him
  (`PartyManager.cpp:523`, `:528`), so it compares the *next* member with the leader
  and the party may lose its leader; `RemovePlayerReferences` stops
  at the first party that lists the player (`:569`), and a player who accepted
  two invitations leaves a dangling pointer in the second.
* Left out: virtual parties that scripts make, loot; a zone change whose
  placement fails (`Simulator.cpp:1464`), after which a player who is being
  disconnected has a `PartyID` and no creature; the second `ProcessDetach` after
  a transfer (`Simulator.cpp:870`), which clears the entry of a player who is
  back on the shard by then; an acceptance without an invitation, which
  `query/PlayerHandlers.cpp:388` does not check: it reaches the states of a late
  acceptance, but for a player who accepts himself.

### Session (`Session`, `SessionProofs`)

One account with one character, on the shards of a cluster. Each shard has a
FIFO of tasks for its main thread and a bag of player messages for its pool, as
in `Cluster`. `Authenticate` counts the sessions in Redis and only a later
task of the main thread registers one (`admitting` is the gap); `SetPersona`
loads the character; `ShardSet` saves it and asks another shard for a transfer, which
loads it, keeps a token in `mPending` and confirms; the client then connects
with the token. `Drop` and `ThreadEnds` are the loss of a connection and what
the simulator's thread does at its end; `Crash`, `PostInit` and `ShardRemoved`
are a crash, a boot (which clears the shard's sessions) and what the others do
when they drop a shard.

A session is a field of a hash in Redis, named by `g_ServerTime` (`Cluster.cpp:1080`),
milliseconds since the epoch that each shard caches per cycle. Two fields of the
same name are one: `Admit` may overwrite a session of another shard. One shard
never overwrites its own, because a second admission of the account finds the
first one's session and is refused (administrators, who are not, are left out).
From the lobby a connection may authenticate again: for the same account it is
checked against its own session and closed (`Reauthenticate`); for another one, `pld` is
reset without a logout (`SwitchAccount`, `Simulator.cpp:1182`), and the session stays
in Redis. `raced` remembers that two shards were about to admit at
the same time, `astray` which shards, since they booted, had a session overwritten or left
behind; the properties name these two as their conditions, and nothing else. The character's data is a number that grows with every
change, which is what "up to date" needs.

* `session`: two shards, two clients, two connections, one transfer and
  one change. `SessionsMatch`: the sessions Redis holds of a running shard that
  is not astray are those of its logged-in simulators; `AtMostOnePlaying`: no
  two connections play unless shards raced; `SessionReturned`: a connection that is lost
  gives its session back.
* Finding `session_stale`: the player goes on playing between the request and
  the confirmation of a transfer; what he does is saved after the other shard
  has loaded the character, and the arriving player has an old one.
* Fairness: weak fairness of the main thread, the pool and the simulators' own
  threads, each of which is an endless loop of a process that runs. Clients,
  crashes and boots are not fair.
* Known deviations: counting and registering sessions are two requests
  (`message/LobbyMessage.cpp:134`, `:147`), so two shards may both admit an account,
  and its character may then be played twice; sessions registered in the same
  millisecond are one, and then too few are counted; a connection that
  changes accounts keeps the account it left locked until the shard boots; an authentication that completes
  after its simulator ended keeps a session until the shard restarts, which is
  why `SessionReturned` is about simulators that have not ended; sessions of a crashed
  shard lock the account out until that shard boots; a late "left" message of
  the former shard makes the new one unload a character that is being played;
  `FinaliseTransfer` uses `charPtr` unchecked (`Simulator.cpp:3359`).
* Left out: several characters of an account, bans, administrators (who may
  log in twice), a second authentication with a token or while another is in
  progress on the connection, reuse of simulator ids, zone changes, expiry of `mPending`.

### Instances (`Instances`, `InstancesProofs`)

The instances of a shard, with the players in each, the counter `mPlayers`,
which is kept apart from the list and decides about deletion, owner and owner
party; where each player's creature is (`actInst`); the party each player is in.
`Login`, `MainCallSetZone` (a zone change, or a warp into another's instance)
and `ProcessDetach` place and remove players; `CheckActiveInstances` deletes
instances that have been empty long enough; ids wrap around and are used again.
Times are kept as the time left, which is all that comparisons with the clock
tell apart. `instList` is a set: every lookup has at most one answer, which
is what `PlacementUnambiguous` says, so the order of the vector cannot matter.
Parties are the sound part of `Party` (its deviations do not appear here). A
player asking for a zone that is not defined is left without an instance, and
his disconnection then dereferences NULL (`Simulator.cpp:857`): the model
goes to `crashed`.

* `instances`: three players, one party, a persistent town, a private dungeon
  and an undefined zone, two ids, so that ids run out and are used again.
  `InstanceOutlivesPlayers`, `PlacementUnambiguous`, and `EmptyInstancesGo`: an
  instance its last player left is deleted unless somebody comes back.
* Fairness: weak fairness of the check, which the main loop makes in every turn,
  and of the clock.
* When all ids are in use the code would look for a free one for ever; the
  model makes no instance then. The real range of ids is far larger than the
  number of instances a process can hold.

### Bounds

Every bound is a named constant. They were chosen so that the interesting case
fits twice or meets another of its kind: two offers or requests at odds with
each other, an id used again, a list at its limit, a restart between any two
steps, a second connection while the first is not yet gone. `CHECK_DEADLOCK
FALSE` is set because all these systems may come to rest: players need not act,
and bounded clocks and ids run out.

## Proofs

`SchedulerProofs` proves, for any number of timers and web workers, any limit per
cycle and any clock bound, that types are kept (`SchedulerTypeCorrect`), that no
timer is overslept (`SchedulerNeverOversleeps`) and that a cancellation nobody
overtook takes its own timer only (`SchedulerCancelIsExact`). The inductive
invariant is `TypeOK /\ PositiveTimes /\ NoOversleep /\ UniqueIds /\ GoodIterators
/\ LoopIsFree`. `PositiveTimes` (the clock and all due times are above zero) is
needed because `mNextRun = 0` means "none": a timer due at time zero would be
overslept. `UniqueIds` and `GoodIterators` (an iterator that was not overtaken
points to a waiting timer) are what makes an erase exact, and `LoopIsFree` says
that the main thread holds no iterator while it moves timers. The only assumption
is `SchedulerAssumption`, on the types of the constants.

`TradeProofs` proves, for any number of players, items, slots, containers, mentions
of a slot and amounts of either sign, that
types are kept and the buyback list keeps its limit (`TradeTypeCorrect`), that a
transaction names only players who are present and point back to it
(`TradeNeverDangles`), that an accepted trade preserves coin
(`TradePreservesCoin`), and that it hands over what was offered from the
backpack, slot by slot, and not touched since (`TradeDelivers`). The inductive invariant is `TypeOK /\ WellFormed /\
TradersPointBack`; `WellFormed` says that an entry that is not in use names
nobody and that an entry in use names two players, without which an entry taken up again
by `GetNewTransaction` could name players who left. `TradeDelivers` counts slots,
by the theorems on finite sets: giving away what lies where it was offered from
frees one slot for each item (`GiveAwayFrees`), and a list that is placed one to
one in as many slots as it has items is placed completely (`ReceivesAll`). The
only assumption is `TradeAssumption`, which has the slots of a backpack finite.

`ClusterProofs` proves, for any finite sets of shards and characters and any
number of restarts, suspicions and queued messages, that types are kept
(`ClusterTypeCorrect`), that a running shard always lists itself, with its name
and start time (`ShardAlwaysListsItself`), and that it never follows a master it
does not list (`MasterAlwaysActive`). The inductive invariant says of the manager
of every running shard (`Sound`) that an entry carries its own key or no name
(`Named`: the elected name is then listed or empty, even when the entry is one
that `operator[]` made), and of every queue (`Incoming`) that what a shard says
of itself never waits at that shard, without which a "stopped" or a
configuration could replace its own entry. The election is a lemma
(`ElectionSound`): a map with an entry has one with a least start time, because
`<` on the naturals is well-founded. Every function of the manager has a lemma
that it keeps `Sound`, and every action one that cites them. The only assumption
is `ClusterAssumption`; finiteness is needed to list the local players in a
configuration and to count suspicions.

`ShutdownProofs` proves, for any length of a minute and of the grace period,
that types are kept (`ShutdownTypeCorrect`) and that the handler holds the id of
the running stage (`ShutdownCancellable`), and that a shutdown of less than ten
minutes happens when it was announced, whatever else was asked for before
(`ShutdownInTime`). Types and cancellability need each other (`Types`): the stage that
runs is the one whose id is held. `RestartsWhenAnnounced` is not inductive:
`Timely` says for the timer of every stage how late it may still be (`Slack`,
one tick for each stage that is left). The requests are any whose
product with 60000 is an int; the limit of ten minutes is in the property, and the invariant says nothing of a
countdown that is longer.

`InstancesProofs` proves, for any finite set of players, any zones and any range
of ids, that types are kept (`InstancesTypeCorrect`), that no instance is
deleted under a player (`InstancesOutlivePlayers`) and that placing a player is
unambiguous (`PlacementIsUnambiguous`). The inductive invariant `IInv` adds
`Counted` (the counter is the number of players in the list; without it an
instance could be deleted at counter zero with players inside), `Listed` (who is
in a list is in that instance only; without it a player who leaves one instance
would remain in another's list) and `Placed` (only players with a simulator are
in an instance). Placing and removing are lemmas about one instance list
(`Sound(list, at)`), which the actions combine: a zone change is a removal
followed by a placement. The only assumption is `InstancesAssumption`.

`SessionProofs` proves, for any number of shards, clients, connections, transfers
and changes, that types are kept and that a charPtr no unload invalidated has a
loaded character to point to (`SessionTypeCorrect`), that Redis counts the logged-in
simulators of a running shard that is not astray (`SessionsAlwaysMatch`), and that no
two connections play unless shards raced (`OnlyOnePlays`). The inductive invariant
`IInv` adds to the types `SimInv` (who plays is logged in, and who is logged in
is on a shard that runs; without it a crash would leave
logins that nobody counts), `Admissions` (who is about to be admitted is a
simulator of the shard that admits), `Matched` (a shard never holds two sessions, it holds none
between counting and registering, and unless astray it holds one exactly when one
simulator is logged in there) and, while no shards raced, `Exclusive`: the session
in Redis is a lock, of which there is one, which whoever is logged in has, and
which whoever is about to be admitted found free. Overwriting cannot break
`Exclusive`, because it needs a session that was registered after the count, that
is, a race; nor can a change of accounts, which leaves the lock taken. The only
assumption is `SessionAssumption`.

`AuctionProofs` proves, for any players, lots, prices and lengths of auctions,
and for int and unsigned long of any width, that types are kept: purses stay int
and no buyback list grows past its limit (`AuctionTypeCorrect`), that no
timer outlives its auction (`TimersAlwaysHaveAuctions`), and that the auction
house implements `AuctionPromise` (`AuctionKeepsPromise`). The inductive
invariant adds `Stored` (an id in the store was handed out before, so that a new
auction replaces none), `TimersAgree` (a timer that is to expire an auction
captured the lot and the seller the store has, so that what it returns is what
was on sale), and `SoldOnce` and `HeldOnce` (a lot is in one place: without them the set
of places could not be mapped to an owner). The refinement has a lemma for each
kind of step: posting is `Offer`, buying is `Sell`, expiry is `Return`, with the
lot it may push out of a full buyback list, buying back is `Redeem`, and everything
else (moving a lot to the auction box, bids, completion, loading, becoming master
or ceasing to be, restarts, the clock) stutters.
The only assumption is `AuctionAssumption`.

`PartyProofs` proves, for any players and any number of parties, creatures and
open invitations, that types are kept, party ids are unique and no party lists a player
twice (`PartyTypeCorrect`), that whoever has a `PartyID` is in that party's list
with his creature of now (`MembersAlwaysKnown`), and that a leader can use his
rights (`LeaderAlwaysCanAct`). The inductive invariant `IInv` adds `Pointers` (no
entry points to a creature that is yet to come, and a live one has the
creature's id: a new creature thereby makes all entries stale that were not
updated, and a member who becomes leader is known by his id of now), `Apart` (who
is offline has no `PartyID`, so nobody logs in as a member of a party that does not
list him; nobody has invited himself, so a new party has two members) and
`Counts` (creature numbers stay within the bound). The steps fall into three kinds, with
one lemma each: those that take members and parties away or hand parties over
(`ShrinkKeeps`), those that add (`JoinKeeps`), and those that replace a
player's creature (`ReferencesKeep`). That the lookups find the first party is
proved from the well-foundedness of `<` (`FirstFound`). The only assumption is
`PartyAssumption`.

Model-checked only are liveness (`EveryTimerLeaves`, `ElectionSettles`,
`LoadedAuctionsEnd`, `SessionReturned`, `EmptyInstancesGo`), which is outside
what TLAPS proves. The two findings are counterexamples that TLC finds.

## Not modelled

Combat, abilities, quests and scripts are formulas and interpreters on one
thread whose behaviour lies in data that is not part of the repository; zones,
scenery and spawning are world data and its loading; chat, friends, clans, mail
and shops are thin handlers over stored entities; packet formats and the HTTP
service are conversions and I/O; CivetWeb, jsoncpp, sqrat and the Redis client
are vendored. Lifetimes of C++ objects captured by reference in deferred tasks
appear only where the task's effect matters (the timers of `Auction`).

Loot sharing was read and left out, because few of its checks hold as written:
an item is given before it is looked for (`query/LootHandlers.cpp:334`, `:347`),
so two members can take it; `HasTags` never denies (`:458`); a member who is
offline is dereferenced (`:736`); members out of range are counted and never
roll (`:137`). A model would have little to check beyond these.

Hazards that were seen and are outside the models: items of restricted
ownership, which `AddItem_Ex` refuses after they were taken from the giver
(`query/TradeHandlers.cpp:764`), and a crash between the saves of the two parties to
a sale.

## Plan

1. Three shards with a bound on restarts, for elections that a third shard
   overtakes.
2. Several shards trading in the same auctions, with a new master that makes the
   timers the former one cancelled.
3. Loot rolls, once their checks are as intended.
