------------------------------ MODULE Auction -------------------------------
(***************************************************************************)
(* The auction house of one shard (AuctionHouse.cpp and the handlers of    *)
(* query/AuctionHouseHandlers.cpp).  Auctions live in Redis and outlive    *)
(* the process; the timers that end them live in the process and are set   *)
(* again when it loads the auctions on becoming master.  Every handler and *)
(* every timer runs to its end on the main thread, so each is one action.  *)
(*                                                                         *)
(* A lot is an item of its own definition, prices are in copper: prices    *)
(* are unsigned long, purses are int, and the code converts between them.  *)
(* The clock counts hours.                                                 *)
(***************************************************************************)
EXTENDS Integers, Sequences, FiniteSets

CONSTANTS
    Players,       \* characters
    Lots,          \* items
    Owner,         \* [Lots -> Players], who holds each lot at first
    Purse,         \* copper each player has at first
    Value,         \* [Lots -> Nat], what a vendor asks for each lot
    IntLimit,      \* 2^31, int is -IntLimit..(IntLimit - 1)
    LongLimit,     \* 2^64, unsigned long is 0..(LongLimit - 1)
    MaxAuctions,   \* bound: auction ids the store hands out
    MaxTime,       \* bound: hours the clock counts
    MaxLoads,      \* bound: calls of LoadItems that are waiting to run
    Prices,        \* buy it now prices and reserves players ask, as atol and
                   \* the assignment leave them; 0 is none
    BidPrices,     \* what players bid
    Hours,         \* lengths players ask for
    MinAuctionHours, MaxAuctionHours,
    MaxAuctionExpiredHours,
    CommissionPerHour,  \* percent of the price, per hour
    PackSlots,     \* free slots of INV_CONTAINER
    BuybackLimit   \* entries of BUYBACK_CONTAINER

Ids == 1..MaxAuctions

ASSUME AuctionAssumption ==
    /\ Owner \in [Lots -> Players]
    /\ IntLimit \in Nat \ {0} /\ LongLimit \in Nat \ {0}
    /\ Purse \in 0..(IntLimit - 1) /\ Value \in [Lots -> 0..(IntLimit - 1)]
    /\ MaxAuctions \in Nat /\ MaxTime \in Nat /\ MaxLoads \in Nat
    /\ Prices \subseteq 0..(LongLimit - 1) /\ BidPrices \subseteq Nat /\ Hours \subseteq Nat
    /\ MinAuctionHours \in Nat /\ MaxAuctionHours \in Nat
    /\ MaxAuctionExpiredHours \in Nat /\ CommissionPerHour \in Nat
    /\ PackSlots \in Nat /\ BuybackLimit \in Nat \ {0}

VARIABLES
    now,        \* g_ServerTime
    box,        \* AUCTION_CONTAINER of each player
    pack,       \* INV_CONTAINER of each player
    buyback,    \* BUYBACK_CONTAINER of each player, oldest first
    copper,     \* css.copper of each player
    nextId,     \* ID_NEXT_AUCTION_ITEM_ID in Redis
    item,       \* the entities in Redis, by auction id
    listed,     \* LISTPREFIX_AUCTION_ITEMS in Redis
    up,         \* the process runs
    master,     \* mMaster of the cluster manager
    loading,    \* calls of LoadItems that were submitted and have not run yet
    mTimers,    \* the tasks in the scheduler, by auction id
    crashed     \* a null pointer was dereferenced

goods  == <<box, pack, buyback, copper>>
redis  == <<nextId, item, listed>>
vars   == <<now, goods, redis, up, master, loading, mTimers, crashed>>

-----------------------------------------------------------------------------
(* Purses and prices.                                                      *)

\* The conversion to int of what does not fit in one.
Ints == (-IntLimit)..(IntLimit - 1)
AsInt(n) == ((n + IntLimit) % (2 * IntLimit)) - IntLimit

\* (unsigned long) css->copper: the copper of a purse below zero is enormous.
AsUnsignedLong(n) == IF n >= 0 THEN n ELSE n + LongLimit

(***************************************************************************)
(* What the commission on a price comes to once it is an int, as the check *)
(* against the purse and the subtraction from it see it.  A commission of  *)
(* more than an int is below zero or anything else of the same remainder;  *)
(* a product that is no unsigned long converts to 0 or to the largest.     *)
(***************************************************************************)
CommissionOf(price, hours) ==
    LET product == (price * CommissionPerHour * hours) \div 100
    IN IF product < LongLimit THEN {AsInt(product)} ELSE {0, -1}

-----------------------------------------------------------------------------
(* The entity in Redis.                                                    *)

Bids == [buyer : Players, price : Nat]

AuctionHouseItem ==
    [lot : Lots, seller : Players, reserve : Prices, buyItNow : Prices,
     end : Nat, completed : BOOLEAN, bids : Seq(Bids)]

(***************************************************************************)
(* WriteEntity stores every bid as a line of four fields; ReadEntity takes *)
(* only lines of more than four, so an item that was loaded has no bids.   *)
(***************************************************************************)
ReadEntity(it) == [it EXCEPT !.bids = <<>>]

LoadItem(id) == ReadEntity(item[id])

IsExpired(it) == now >= it.end

\* std::vector::erase of the entry at i.
Erase(list, i) == [j \in 1..(Len(list) - 1) |-> IF j < i THEN list[j] ELSE list[j + 1]]

(***************************************************************************)
(* AuctionHouseItem::Bid: refused unless it beats the last bid and is not  *)
(* against one's own; an earlier bid of the bidder is replaced.            *)
(***************************************************************************)
BidAccepted(bids, p, price) ==
    bids # <<>> => price > bids[Len(bids)].price /\ bids[Len(bids)].buyer # p

WithBid(bids, p, price) ==
    LET own == {i \in DOMAIN bids : bids[i].buyer = p}
        first == CHOOSE i \in own : \A j \in own : i <= j
    IN Append(IF own = {} THEN bids ELSE Erase(bids, first), [buyer |-> p, price |-> price])

-----------------------------------------------------------------------------
(* The process's timers.                                                   *)

(***************************************************************************)
(* A task that completes the auction whose id it captured, one that        *)
(* completes whatever id it finds in a stack frame that is gone (the       *)
(* closure BroadcastAndSetupTimer makes holds a pointer to the caller's    *)
(* local), and one that expires the item it captured.                      *)
(***************************************************************************)
Tasks == [kind : {"complete", "dangling", "expire"}, at : Nat, copy : AuctionHouseItem]

CompleteAt(it) == [kind |-> "complete", at |-> it.end, copy |-> it]
DanglingAt(it) == [kind |-> "dangling", at |-> it.end, copy |-> it]
ExpireAt(it)   == [kind |-> "expire", at |-> it.end + MaxAuctionExpiredHours, copy |-> it]

Without(f, x) == [y \in DOMAIN f \ {x} |-> f[y]]
With(f, x, v) == [y \in DOMAIN f \cup {x} |-> IF y = x THEN v ELSE f[y]]

CancelItemTimer(id) == mTimers' = Without(mTimers, id)

\* Mutant of RemoveItem: only the list entry is removed.
RemoveItemKeepsEntity(id) ==
    /\ CancelItemTimer(id)
    /\ listed' = listed \ {id}
    /\ UNCHANGED <<item, nextId>>

(***************************************************************************)
(* RemoveItem cancels the timer and removes the entity and the list entry. *)
(***************************************************************************)
RemoveItem(id) ==
    /\ CancelItemTimer(id)
    /\ item' = Without(item, id)
    /\ listed' = listed \ {id}
    /\ UNCHANGED nextId

-----------------------------------------------------------------------------
Running == up /\ ~crashed

Init ==
    /\ now = 0
    /\ box = [p \in Players |-> {}]
    /\ pack = [p \in Players |-> {l \in Lots : Owner[l] = p}]
    /\ buyback = [p \in Players |-> <<>>]
    /\ copper = [p \in Players |-> Purse]
    /\ nextId = 1 /\ item = <<>> /\ listed = {}
    /\ up = TRUE /\ master = FALSE /\ loading = 0 /\ mTimers = <<>>
    /\ crashed = FALSE

(***************************************************************************)
(* item.move: the player drags an item of his pack into his auction box.   *)
(***************************************************************************)
MoveToBox(p, l) ==
    /\ Running /\ l \in pack[p] /\ box[p] = {}
    /\ pack' = [pack EXCEPT ![p] = @ \ {l}]
    /\ box' = [box EXCEPT ![p] = {l}]
    /\ UNCHANGED <<now, buyback, copper, redis, up, master, loading, mTimers, crashed>>

(***************************************************************************)
(* The vendor's buyback list: the player takes an item back into his pack  *)
(* for what the vendor asks.                                               *)
(***************************************************************************)
BuyBack(p, i) ==
    /\ Running /\ i \in DOMAIN buyback[p]
    /\ Cardinality(pack[p]) < PackSlots
    /\ Value[buyback[p][i]] <= copper[p]
    /\ pack' = [pack EXCEPT ![p] = @ \cup {buyback[p][i]}]
    /\ buyback' = [buyback EXCEPT ![p] = Erase(@, i)]
    /\ copper' = [copper EXCEPT ![p] = @ - Value[buyback[p][i]]]
    /\ UNCHANGED <<now, box, redis, up, master, loading, mTimers, crashed>>

Larger(a, b) == IF a >= b THEN a ELSE b

(***************************************************************************)
(* ah.auction: the handler's checks, AuctionHouseManager::Auction, and the *)
(* removal of the item from the auction box.  A commission that is below   *)
(* zero as an int passes the check and fills the purse.                    *)
(***************************************************************************)
AuctionHandler(p, l, reserve, buyItNow, hours) ==
    LET it == [lot |-> l, seller |-> p, reserve |-> reserve, buyItNow |-> buyItNow,
               end |-> now + hours, completed |-> FALSE, bids |-> <<>>]
    IN /\ Running /\ l \in box[p]
       /\ nextId \in Ids
       /\ MinAuctionHours <= hours /\ hours <= MaxAuctionHours
       /\ ~(reserve # 0 /\ buyItNow # 0 /\ buyItNow <= reserve)
       /\ Larger(reserve, buyItNow) # 0
       /\ \E fee \in CommissionOf(Larger(reserve, buyItNow), hours) :
             /\ fee <= copper[p]
             /\ copper' = [copper EXCEPT ![p] = AsInt(@ - fee)]
       /\ it.end + MaxAuctionExpiredHours <= MaxTime
       /\ box' = [box EXCEPT ![p] = @ \ {l}]
       /\ nextId' = nextId + 1
       /\ item' = With(item, nextId, it)
       /\ listed' = listed \cup {nextId}
       /\ mTimers' = IF master THEN With(mTimers, nextId, DanglingAt(it)) ELSE mTimers
       /\ UNCHANGED <<now, pack, buyback, up, master, loading, crashed>>

(***************************************************************************)
(* ah.bid: the item is loaded, the bid put into the loaded copy and the    *)
(* copy saved.                                                             *)
(***************************************************************************)
BidHandler(p, id, price) ==
    /\ Running /\ id \in DOMAIN item
    /\ ~IsExpired(LoadItem(id))
    /\ BidAccepted(LoadItem(id).bids, p, price)
    /\ item' = [item EXCEPT ![id] =
                  [LoadItem(id) EXCEPT !.bids = WithBid(@, p, price)]]
    /\ UNCHANGED <<now, goods, nextId, listed, up, master, loading, mTimers, crashed>>

(***************************************************************************)
(* What ValidateItem asks of a buyer; an auction of the past cannot be     *)
(* bought, completed or not.                                               *)
(***************************************************************************)
ValidateItem(it, b) ==
    /\ AsUnsignedLong(copper[b]) >= it.buyItNow
    /\ ~(it.end # 0 /\ IsExpired(it))
    /\ Cardinality(pack[b]) < PackSlots

(***************************************************************************)
(* ah.buy: ValidateItem, the item into the buyer's pack, RemoveItem, the   *)
(* price from the buyer to the seller.  A removed id loads as a blank item *)
(* whose item id is 0, which AddItem_Ex refuses.                           *)
(***************************************************************************)
BuyHandler(b, id) ==
    LET it == LoadItem(id)
    IN /\ Running /\ id \in DOMAIN item
       /\ ValidateItem(it, b)
       /\ pack' = [pack EXCEPT ![b] = @ \cup {it.lot}]
       /\ RemoveItem(id)
       /\ copper' = [[copper EXCEPT ![b] = AsInt(@ - it.buyItNow)]
                        EXCEPT ![it.seller] = AsInt(@ + it.buyItNow)]
       /\ UNCHANGED <<now, box, buyback, up, master, loading, crashed>>

\* Mutant of CompleteAuction: the task that would expire the item is not set.
CompleteAuctionForgets(id, timers) ==
    /\ IF id = 0 THEN UNCHANGED <<item, crashed>>
       ELSE IF id \in DOMAIN item
       THEN /\ item' = [item EXCEPT ![id] = [LoadItem(id) EXCEPT !.completed = TRUE]]
            /\ UNCHANGED crashed
       ELSE crashed' = TRUE /\ UNCHANGED item
    /\ mTimers' = timers
    /\ UNCHANGED <<now, goods, nextId, listed, up, master, loading>>

(***************************************************************************)
(* CompleteAuction: a loaded item has no bids, so the auction is always    *)
(* marked as completed without one and kept for its seller until it        *)
(* expires.  The id 0 is refused; any other that is not stored loads as a  *)
(* blank item without a seller, whose name is read all the same.  timers   *)
(* are the tasks left once the one that called this has run.               *)
(***************************************************************************)
CompleteAuction(id, timers) ==
    /\ IF id = 0
       THEN mTimers' = timers /\ UNCHANGED <<item, crashed>>
       ELSE IF id \in DOMAIN item
       THEN LET it == [LoadItem(id) EXCEPT !.completed = TRUE]
            IN /\ item' = [item EXCEPT ![id] = it]
               /\ mTimers' = With(timers, id, ExpireAt(it))
               /\ UNCHANGED crashed
       ELSE /\ crashed' = TRUE
            /\ mTimers' = timers
            /\ UNCHANGED item
    /\ UNCHANGED <<now, goods, nextId, listed, up, master, loading>>

\* Mutant of AddBuyBack: the list is full one entry too late.
AddBuyBackOneMore(list, l) ==
    Append(IF Len(list) > BuybackLimit THEN Tail(list) ELSE list, l)

(***************************************************************************)
(* AddBuyBack: a full list loses its oldest entry.                         *)
(***************************************************************************)
AddBuyBack(list, l) ==
    Append(IF Len(list) >= BuybackLimit THEN Tail(list) ELSE list, l)

(***************************************************************************)
(* ExpireItem: the item the task captured goes into the seller's buyback   *)
(* list, and the auction is removed.                                       *)
(***************************************************************************)
ExpireItem(id, it) ==
    /\ buyback' = [buyback EXCEPT ![it.seller] = AddBuyBack(@, it.lot)]
    /\ RemoveItem(id)
    /\ UNCHANGED <<now, box, pack, copper, up, master, loading, crashed>>

(***************************************************************************)
(* The scheduler runs the task of mTimers[id] once it is due.  A task that *)
(* runs is gone from the scheduler, though its id stays in mTimers where   *)
(* cancelling it does nothing.  A dangling one completes any id at all; -1 *)
(* stands for the ones that were never handed out.                         *)
(***************************************************************************)
RunTimer(id) ==
    /\ Running /\ id \in DOMAIN mTimers /\ mTimers[id].at <= now
    /\ \/ /\ mTimers[id].kind = "complete"
          /\ CompleteAuction(id, Without(mTimers, id))
       \/ /\ mTimers[id].kind = "dangling"
          /\ \E garbage \in {-1, 0} \cup Ids : CompleteAuction(garbage, Without(mTimers, id))
       \/ mTimers[id].kind = "expire" /\ ExpireItem(id, mTimers[id].copy)

(***************************************************************************)
(* FindMasterShard, in a task of the main thread, finds this shard to be   *)
(* the master: LoadItems is submitted.  When it finds that this shard is   *)
(* no longer the master, it cancels every timer.                           *)
(***************************************************************************)
BecomeMaster ==
    /\ Running /\ ~master /\ loading < MaxLoads
    /\ master' = TRUE /\ loading' = loading + 1
    /\ UNCHANGED <<now, goods, redis, up, mTimers, crashed>>

LoseMaster ==
    /\ Running /\ master
    /\ master' = FALSE /\ mTimers' = <<>>
    /\ UNCHANGED <<now, goods, redis, up, loading, crashed>>

\* Mutant of LoadItems: mCompleted is not looked at.
LoadItemsExpire ==
    /\ Running /\ loading > 0
    /\ loading' = loading - 1
    /\ mTimers' = [id \in (DOMAIN mTimers \ listed) \cup (IF master THEN listed ELSE {}) |->
                     IF id \in listed THEN ExpireAt(LoadItem(id)) ELSE mTimers[id]]
    /\ UNCHANGED <<now, goods, redis, up, master, crashed>>

(***************************************************************************)
(* LoadItems: the timer of every listed auction is cancelled and, when the *)
(* shard is still the master, made again from a copy of the item.          *)
(***************************************************************************)
LoadItems ==
    /\ Running /\ loading > 0
    /\ loading' = loading - 1
    /\ mTimers' = [id \in (DOMAIN mTimers \ listed) \cup (IF master THEN listed ELSE {}) |->
                     IF id \notin listed THEN mTimers[id]
                     ELSE IF LoadItem(id).completed THEN ExpireAt(LoadItem(id))
                     ELSE CompleteAt(LoadItem(id))]
    /\ UNCHANGED <<now, goods, redis, up, master, crashed>>

(***************************************************************************)
(* An orderly stop saves every character; the timers go with the process.  *)
(***************************************************************************)
Stop ==
    /\ Running
    /\ up' = FALSE /\ master' = FALSE /\ loading' = 0 /\ mTimers' = <<>>
    /\ UNCHANGED <<now, goods, redis, crashed>>

Start ==
    /\ ~up
    /\ up' = TRUE
    /\ UNCHANGED <<now, goods, redis, master, loading, mTimers, crashed>>

Tick ==
    /\ now < MaxTime
    /\ now' = now + 1
    /\ UNCHANGED <<goods, redis, up, master, loading, mTimers, crashed>>

Next ==
    \/ \E p \in Players, l \in Lots :
          \/ MoveToBox(p, l)
          \/ \E r, b \in Prices, h \in Hours : AuctionHandler(p, l, r, b, h)
    \/ \E p \in Players, i \in 1..BuybackLimit : BuyBack(p, i)
    \/ \E p \in Players, id \in Ids :
          BuyHandler(p, id) \/ \E price \in BidPrices : BidHandler(p, id, price)
    \/ \E id \in Ids : RunTimer(id)
    \/ BecomeMaster \/ LoseMaster \/ LoadItems \/ Stop \/ Start \/ Tick

Spec ==
    /\ Init /\ [][Next]_vars
    /\ WF_vars(Tick) /\ WF_vars(LoadItems)
    /\ \A id \in Ids : WF_vars(RunTimer(id))

-----------------------------------------------------------------------------
(* Properties.                                                             *)

Entries(list) == {list[i] : i \in DOMAIN list}

TypeOK ==
    /\ now \in 0..MaxTime
    /\ box \in [Players -> SUBSET Lots] /\ pack \in [Players -> SUBSET Lots]
    /\ buyback \in [Players -> Seq(Lots)]
    /\ \A p \in Players : Len(buyback[p]) <= BuybackLimit
    /\ copper \in [Players -> Ints]
    /\ nextId \in 1..(MaxAuctions + 1)
    /\ listed \subseteq Ids
    /\ DOMAIN item \subseteq Ids /\ \A id \in DOMAIN item : item[id] \in AuctionHouseItem
    /\ DOMAIN mTimers \subseteq Ids /\ \A id \in DOMAIN mTimers : mTimers[id] \in Tasks
    /\ up \in BOOLEAN /\ master \in BOOLEAN /\ loading \in 0..MaxLoads /\ crashed \in BOOLEAN

(***************************************************************************)
(* Every place that holds the lot: a player's box or pack, the buyback     *)
(* list a vendor keeps for him, an auction.                                *)
(***************************************************************************)
Owns(p) == box[p] \cup pack[p]
Returned(p) == Entries(buyback[p])

Places(l) ==
    {<<"owned", p>> : p \in {q \in Players : l \in Owns(q)}}
    \cup {<<"returned", p>> : p \in {q \in Players : l \in Returned(q)}}
    \cup {<<"sale", item[id].seller, item[id].buyItNow>> :
           id \in {i \in DOMAIN item : item[i].lot = l}}

Commissions == UNION {CommissionOf(price, hours) : price \in Prices, hours \in Hours}

Promise == INSTANCE AuctionPromise WITH
             state <- [l \in Lots |-> Places(l)],
             purse <- copper

(***************************************************************************)
(* The timers, the store and the handlers together keep the promise of     *)
(* AuctionPromise: no lot is ever in two places or lost on the way, the    *)
(* seller gets what the buyer pays, and a lot that was bought is never     *)
(* handed back to its seller by a timer that is still running.  Purses     *)
(* change by the commission, the price and what a vendor asks, each as an  *)
(* int, and by nothing else.                                               *)
(***************************************************************************)
KeepsPromise == Promise!Spec

(***************************************************************************)
(* No timer outlives its auction: a task in the scheduler belongs to an    *)
(* auction in the store, and when it is to expire the auction, to one that *)
(* was completed.  A task left behind by ah.buy would give the seller the  *)
(* sold item back, or read the name of a seller that is not there.         *)
(***************************************************************************)
TimersHaveAuctions ==
    \A id \in DOMAIN mTimers :
       id \in DOMAIN item /\ (mTimers[id].kind = "expire" => item[id].completed)

(***************************************************************************)
(* An auction whose timer LoadItems or CompleteAuction made from a copy of *)
(* the item ends, sold or returned, unless the process stops or another    *)
(* shard becomes the master first.                                         *)
(***************************************************************************)
LoadedAuctionsEnd ==
    \A id \in Ids :
       (id \in DOMAIN mTimers /\ mTimers[id].kind # "dangling")
          ~> (id \notin DOMAIN item \/ ~Running \/ ~master)
=============================================================================
