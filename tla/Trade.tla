-------------------------------- MODULE Trade --------------------------------
(***************************************************************************)
(* Trades between players of one instance: TradeManager and                *)
(* TradeTransaction (Trade.cpp), the trade.* query handlers                *)
(* (query/TradeHandlers.cpp), and the handlers of other queries that touch *)
(* what is being traded (item.move, item.delete, selling, buying back,     *)
(* leaving the instance).                                                  *)
(*                                                                         *)
(* All handlers run on the main thread, so each is one action; what makes  *)
(* a trade hard is the order in which the queries of several players       *)
(* arrive.  A player is a creature instance, whose ID is never given out   *)
(* again.  Items are single, unstackable and told apart by their IID.  The *)
(* NULL dereferences of the code are steps to `crashed'.                   *)
(***************************************************************************)
EXTENDS Integers, FiniteSets

CONSTANTS Players,      \* creature instances of players
          Items,        \* items, by IID
          Slots,        \* slots of the backpack, INV_CONTAINER
          OtherSlots,   \* slots of the other containers (bank, equipment ...)
          MaxMentions,  \* bound: how often one offer names a slot
          None,         \* no player, no item, no trade
          Amounts,      \* coin a player may offer, of either sign
          Price,        \* what a shop pays and asks for an item
          BuybackLimit, \* g_GameConfig.BuybackLimit
          MaxCopper     \* bound: selling and trading stop when a balance nears it

ASSUME TradeAssumption ==
    /\ None \notin Players \cup Items
    /\ Slots \subseteq Nat /\ IsFiniteSet(Slots)
    /\ Slots \cap OtherSlots = {}
    /\ MaxMentions \in Nat
    /\ Amounts \subseteq Int
    /\ Price \in Nat
    /\ BuybackLimit \in Nat \ {0}
    /\ MaxCopper \in Nat

VARIABLES present,        \* players registered in the instance
          activeLootID,   \* CreatureInstance::activeLootID, 0 is None
          tradeList,      \* TradeManager::tradeList, by trade ID
          inventory,      \* containers of each player
          buyback,        \* BUYBACK_CONTAINER of each player
          copper,         \* css.copper
          crashed         \* a NULL pointer was dereferenced

tradeVars == <<activeLootID, tradeList>>
goodsVars == <<inventory, buyback, copper>>
vars == <<present, activeLootID, tradeList, inventory, buyback, copper, crashed>>

\* GetItemPtrByCCSID finds an item in any container.
AllSlots == Slots \cup OtherSlots
Backpacks == [AllSlots -> Items \cup {None}]

\* An offered item: a copy of the item, the slot it was in, and which mention
\* of that slot in the offer it is (nothing keeps a query from naming a slot
\* again).
OfferedItem == [IID : Items, CCSID : AllSlots, nth : 1..MaxMentions]

TradePlayerData ==
    [selfPlayerID    : Players \cup {None},
     itemList        : SUBSET OfferedItem,
     coin            : Int,
     accepted        : BOOLEAN,
     tradeWindowOpen : BOOLEAN]

\* `listed' says whether the map holds an entry at all.
TradeTransaction ==
    [listed : BOOLEAN, init : BOOLEAN, player : [{0, 1} -> TradePlayerData]]

TypeOK ==
    /\ present \in SUBSET Players
    /\ activeLootID \in [Players -> Players \cup {None}]
    /\ tradeList \in [Players -> TradeTransaction]
    /\ inventory \in [Players -> Backpacks]
    /\ buyback \in [Players -> SUBSET Items]
    /\ \A p \in Players : /\ IsFiniteSet(buyback[p])
                          /\ Cardinality(buyback[p]) <= BuybackLimit
    /\ copper \in [Players -> Int]
    /\ crashed \in BOOLEAN

\* TradePlayerData::Clear
NoPlayerData ==
    [selfPlayerID |-> None, itemList |-> {}, coin |-> 0,
     accepted |-> FALSE, tradeWindowOpen |-> FALSE]

\* TradeTransaction::Clear on an entry of the map.
ClearedTransaction ==
    [listed |-> TRUE, init |-> FALSE, player |-> [i \in {0, 1} |-> NoPlayerData]]

NoTransaction == [ClearedTransaction EXCEPT !.listed = FALSE]

Init ==
    /\ present = Players
    /\ activeLootID = [p \in Players |-> None]
    /\ tradeList = [id \in Players |-> NoTransaction]
    /\ inventory \in [Players -> Backpacks]
    /\ \A p, q \in Players, s, u \in AllSlots :
          inventory[p][s] = inventory[q][u] /\ inventory[p][s] # None
              => p = q /\ s = u
    /\ buyback = [p \in Players |-> {}]
    /\ copper \in [Players -> 0..MaxCopper]
    /\ crashed = FALSE

-----------------------------------------------------------------------------
(* Lookups. *)

\* GetExistingTradeForPlayer(p) is not NULL.
InSomeTrade(p) ==
    \E id \in Players, i \in {0, 1} : tradeList[id].player[i].selfPlayerID = p

\* GetExistingTransaction(activeLootID) of p is not NULL.
HasTransaction(p) ==
    /\ activeLootID[p] # None
    /\ tradeList[activeLootID[p]].listed

\* GetPlayerData(p): the sides of transaction t that belong to p; the code
\* takes the first.
SidesOf(t, p) == {i \in {0, 1} : t.player[i].selfPlayerID = p}
IsTrader(t, p) == SidesOf(t, p) # {}
Side(t, p) == IF t.player[0].selfPlayerID = p THEN 0 ELSE 1

-----------------------------------------------------------------------------
(* Leaving a transaction. *)

Crash ==
    /\ crashed' = TRUE
    /\ UNCHANGED <<activeLootID, tradeList>>

\* The activeLootID of every player once transaction id has let go of its two.
Released(id) ==
    [p \in Players |-> IF IsTrader(tradeList[id], p) THEN None ELSE activeLootID[p]]

\* CancelTransaction on an entry of the map: both players are released.  An
\* entry that was never initialised has NULL players.
CancelTransaction(id) ==
    IF tradeList[id].player[0].selfPlayerID = None
    THEN Crash
    ELSE /\ activeLootID' = Released(id)
         /\ tradeList' = [tradeList EXCEPT ![id] = NoTransaction]
         /\ UNCHANGED crashed

-----------------------------------------------------------------------------
(* The trade.* queries. *)

\* GetNewTransaction: an entry that is not in use is created or cleared.
GetNewTransaction(id) ==
    IF tradeList[id].init THEN tradeList[id] ELSE ClearedTransaction

\* SetPlayers names the two players and leaves the rest of the entry as it is.
SetPlayers(t, initPlayer, targetPlayer) ==
    [t EXCEPT !.init = TRUE,
              !.player = [i \in {0, 1} |-> [@[i] EXCEPT !.selfPlayerID =
                             IF i = 0 THEN initPlayer ELSE targetPlayer]]]

WindowOpened(t, p) == [t EXCEPT !.player[Side(t, p)].tradeWindowOpen = TRUE]

\* CheckID of trade.start.
CheckID(p) == IF activeLootID[p] = None THEN p ELSE activeLootID[p]

\* (mutant) the check that the target is not trading is left out.
TradeRequestAnyTarget(p, q) ==
    /\ q \in present
    /\ LET id == CheckID(p)
           t  == SetPlayers(GetNewTransaction(id), p, q)
       IN  /\ tradeList' = [tradeList EXCEPT ![id] = WindowOpened(t, p)]
           /\ activeLootID' = [activeLootID EXCEPT ![p] = id, ![q] = id]
    /\ UNCHANGED <<present, goodsVars, crashed>>

\* trade.start with an argument: p asks q.
TradeRequest(p, q) ==
    /\ q \in present
    /\ ~InSomeTrade(q)
    /\ LET id == CheckID(p)
           t  == SetPlayers(GetNewTransaction(id), p, q)
       IN  /\ tradeList' = [tradeList EXCEPT ![id] = WindowOpened(t, p)]
           /\ activeLootID' = [activeLootID EXCEPT ![p] = id, ![q] = id]
    /\ UNCHANGED <<present, goodsVars, crashed>>

\* trade.start without an argument: p takes up the request it was sent.  An
\* entry with no origin is left behind cleared; GetPlayerData of a player who
\* is not in the transaction is NULL and is dereferenced.
TradeRequestAccept(p) ==
    /\ LET id == CheckID(p)
           t  == GetNewTransaction(id)
       IN  \/ /\ t.player[0].selfPlayerID = None
              /\ tradeList' = [tradeList EXCEPT ![id] = t]
              /\ UNCHANGED <<activeLootID, crashed>>
           \/ /\ t.player[0].selfPlayerID # None
              /\ IsTrader(t, p)
              /\ tradeList' = [tradeList EXCEPT ![id] = WindowOpened(t, p)]
              /\ UNCHANGED <<activeLootID, crashed>>
           \/ /\ t.player[0].selfPlayerID # None
              /\ ~IsTrader(t, p)
              /\ Crash
    /\ UNCHANGED <<present, goodsVars>>

\* trade.items, trade.offer, trade.accept and trade.currency sent by a player
\* who is not in the transaction his activeLootID names: it is cancelled.
NotATrader(p) ==
    /\ HasTransaction(p)
    /\ ~IsTrader(tradeList[activeLootID[p]], p)
    /\ CancelTransaction(activeLootID[p])
    /\ UNCHANGED <<present, goodsVars>>

\* trade.items: the offered items replace those offered before; `times' says
\* how often the query names each slot.  An unknown slot ends the loop with the
\* items before it already listed, which is the offer of a shorter query.
TradeItems(p, times) ==
    /\ HasTransaction(p)
    /\ LET id == activeLootID[p]
           t  == tradeList[id]
           i  == Side(t, p)
       IN  /\ IsTrader(t, p)
           /\ t.player[1 - i].tradeWindowOpen
           /\ \A s \in AllSlots : times[s] > 0 => inventory[p][s] # None
           /\ tradeList' = [tradeList EXCEPT ![id].player[i].itemList =
                 {r \in OfferedItem : /\ r.IID = inventory[p][r.CCSID]
                                      /\ r.nth <= times[r.CCSID]}]
    /\ UNCHANGED <<present, activeLootID, goodsVars, crashed>>

\* trade.currency: the offered coin, of either sign, replaces what was offered
\* before.
TradeCurrency(p, amount) ==
    /\ HasTransaction(p)
    /\ LET id == activeLootID[p]
           t  == tradeList[id]
       IN  /\ IsTrader(t, p)
           /\ tradeList' = [tradeList EXCEPT ![id].player[Side(t, p)].coin = amount]
    /\ UNCHANGED <<present, activeLootID, goodsVars, crashed>>

\* trade.cancel
TradeCancel(p) ==
    /\ HasTransaction(p)
    /\ CancelTransaction(activeLootID[p])
    /\ UNCHANGED <<present, goodsVars>>

-----------------------------------------------------------------------------
(* trade.accept. *)

FreeSlots(pack) == {s \in Slots : pack[s] = None}

\* RemItem for every offered item: whatever is in its slot now goes.
GiveAway(pack, list) ==
    [s \in AllSlots |-> IF \E r \in list : r.CCSID = s THEN None ELSE pack[s]]

\* AddItem_Ex for every item of the list: the lowest free slots are filled
\* while there are any; what does not fit is only logged.
Received(pack, list) ==
    {f \in Backpacks :
        LET new == {s \in FreeSlots(pack) : f[s] # None}
        IN  /\ \A s \in AllSlots \ new : f[s] = pack[s]
            /\ \A s \in new, u \in FreeSlots(pack) : u < s => u \in new
            /\ \/ Cardinality(new) = Cardinality(list)
               \/ new = FreeSlots(pack) /\ Cardinality(new) < Cardinality(list)
            /\ \E g \in [new -> list] :
                  /\ \A s, u \in new : g[s] = g[u] => s = u
                  /\ \A s \in new : f[s] = g[s].IID}

\* (mutant) the room needed is compared with the player's own items.
HasRoomForOwn(o, mine, theirs) ==
    Cardinality(FreeSlots(inventory[o])) + Cardinality(mine.itemList)
        >= Cardinality(mine.itemList)

\* What both sides must have: room for the other's items, counting one slot for
\* every item they offered themselves, and the coin they offered.
HasRoom(o, mine, theirs) ==
    Cardinality(FreeSlots(inventory[o])) + Cardinality(mine.itemList)
        >= Cardinality(theirs.itemList)

HasCoin(o, mine) == mine.coin <= copper[o]
Covered(o, mine, theirs) == HasRoom(o, mine, theirs) /\ HasCoin(o, mine)

\* (mutant) the second player's coin is charged to nobody.
ExchangeMintsCoin(t) ==
    LET a == t.player[0]  b == t.player[1]
        o == a.selfPlayerID  q == b.selfPlayerID
        left == [inventory EXCEPT ![o] = GiveAway(@, a.itemList),
                                  ![q] = GiveAway(@, b.itemList)]
    IN  /\ copper' = [copper EXCEPT ![o] = @ - a.coin + b.coin,
                                    ![q] = @ + a.coin]
        /\ \E packO \in Received(left[o], b.itemList) :
              LET half == [left EXCEPT ![o] = packO]
              IN  \E packQ \in Received(half[q], a.itemList) :
                     inventory' = [half EXCEPT ![q] = packQ]

\* Coin and items change hands: both sides give, then both receive.
Exchange(t) ==
    LET a == t.player[0]  b == t.player[1]
        o == a.selfPlayerID  q == b.selfPlayerID
        left == [inventory EXCEPT ![o] = GiveAway(@, a.itemList),
                                  ![q] = GiveAway(@, b.itemList)]
    IN  /\ copper' = [copper EXCEPT ![o] = @ - a.coin + b.coin,
                                    ![q] = @ - b.coin + a.coin]
        /\ \E packO \in Received(left[o], b.itemList) :
              LET half == [left EXCEPT ![o] = packO]
              IN  \E packQ \in Received(half[q], a.itemList) :
                     inventory' = [half EXCEPT ![q] = packQ]

\* trade.accept.  With both accepted the trade is carried out and its entry
\* removed; when a side is not covered the handler only reports that the
\* trade is closed, and entry and acceptances stay.
TradeAccept(p) ==
    /\ HasTransaction(p)
    /\ LET id == activeLootID[p]
           i  == Side(tradeList[id], p)
           t  == [tradeList[id] EXCEPT !.player[i].accepted = TRUE]
           a  == t.player[0]
           b  == t.player[1]
           mutual == a.accepted /\ b.accepted
           covered == /\ Covered(a.selfPlayerID, a, b)
                      /\ Covered(b.selfPlayerID, b, a)
       IN  /\ IsTrader(tradeList[id], p)
           /\ \/ /\ mutual /\ covered
                 /\ Exchange(t)
                 /\ \A r \in Players : copper'[r] \in -MaxCopper..MaxCopper
                 /\ activeLootID' = [activeLootID EXCEPT
                       ![a.selfPlayerID] = None, ![b.selfPlayerID] = None]
                 /\ tradeList' = [tradeList EXCEPT ![id] = NoTransaction]
              \/ /\ ~(mutual /\ covered)
                 /\ tradeList' = [tradeList EXCEPT ![id] = t]
                 /\ UNCHANGED <<activeLootID, inventory, copper>>
    /\ UNCHANGED <<present, buyback, crashed>>

-----------------------------------------------------------------------------
(* Other queries that touch the goods. *)

\* AdjustCopper: a balance that would fall below zero becomes zero.
AdjustCopper(balance, change) ==
    IF balance + change < 0 THEN 0 ELSE balance + change

\* item.move: cancels a trade the player is in; otherwise two slots are swapped.
ItemMove(p, s, u) ==
    \/ /\ HasTransaction(p)
       /\ CancelTransaction(activeLootID[p])
       /\ UNCHANGED <<present, goodsVars>>
    \/ /\ ~HasTransaction(p)
       /\ inventory[p][s] # None
       /\ inventory' = [inventory EXCEPT ![p][s] = inventory[p][u],
                                         ![p][u] = inventory[p][s]]
       /\ UNCHANGED <<present, tradeVars, buyback, copper, crashed>>

\* item.delete
ItemDelete(p, s) ==
    /\ inventory[p][s] # None
    /\ inventory' = [inventory EXCEPT ![p][s] = None]
    /\ UNCHANGED <<present, tradeVars, buyback, copper, crashed>>

\* (mutant) the oldest entry only goes when the list is over its limit.
ShopSellOneMore(p, s) ==
    /\ inventory[p][s] # None
    /\ copper[p] + Price <= MaxCopper
    /\ \E old \in SUBSET buyback[p] :
          /\ Cardinality(old) =
                IF Cardinality(buyback[p]) > BuybackLimit THEN 1 ELSE 0
          /\ buyback' = [buyback EXCEPT ![p] = (@ \ old) \cup {inventory[p][s]}]
    /\ inventory' = [inventory EXCEPT ![p][s] = None]
    /\ copper' = [copper EXCEPT ![p] = AdjustCopper(@, Price)]
    /\ UNCHANGED <<present, tradeVars, crashed>>

\* trade.shop, selling: AddBuyBack drops the oldest entry of a full list.
ShopSell(p, s) ==
    /\ inventory[p][s] # None
    /\ copper[p] + Price <= MaxCopper
    /\ \E old \in SUBSET buyback[p] :
          /\ Cardinality(old) =
                IF Cardinality(buyback[p]) >= BuybackLimit THEN 1 ELSE 0
          /\ buyback' = [buyback EXCEPT ![p] = (@ \ old) \cup {inventory[p][s]}]
    /\ inventory' = [inventory EXCEPT ![p][s] = None]
    /\ copper' = [copper EXCEPT ![p] = AdjustCopper(@, Price)]
    /\ UNCHANGED <<present, tradeVars, crashed>>

\* trade.shop, buying back an item that was sold.
ShopBuyback(p, x) ==
    /\ x \in buyback[p]
    /\ copper[p] >= Price
    /\ \E pack \in Received(inventory[p], {[IID |-> x]}) :
          inventory' = [inventory EXCEPT ![p] = pack]
    /\ FreeSlots(inventory[p]) # {}
    /\ buyback' = [buyback EXCEPT ![p] = @ \ {x}]
    /\ copper' = [copper EXCEPT ![p] = AdjustCopper(@, -Price)]
    /\ UNCHANGED <<present, tradeVars, crashed>>

\* UnloadResources: the player leaves the instance, and the trade his
\* activeLootID names is cancelled.
Leave(p) ==
    /\ \/ /\ HasTransaction(p)
          /\ tradeList[activeLootID[p]].player[0].selfPlayerID = None
          /\ Crash
          /\ UNCHANGED present
       \/ /\ HasTransaction(p)
          /\ tradeList[activeLootID[p]].player[0].selfPlayerID # None
          /\ activeLootID' = [Released(activeLootID[p]) EXCEPT ![p] = None]
          /\ tradeList' = [tradeList EXCEPT ![activeLootID[p]] = NoTransaction]
          /\ present' = present \ {p}
          /\ UNCHANGED crashed
       \/ /\ ~HasTransaction(p)
          /\ activeLootID' = [activeLootID EXCEPT ![p] = None]
          /\ present' = present \ {p}
          /\ UNCHANGED <<tradeList, crashed>>
    /\ UNCHANGED goodsVars

-----------------------------------------------------------------------------

\* One query of player p.
Query(p) ==
    \/ \E q \in Players : TradeRequest(p, q)
    \/ TradeRequestAccept(p)
    \/ NotATrader(p)
    \/ \E times \in [AllSlots -> 0..MaxMentions] : TradeItems(p, times)
    \/ \E amount \in Amounts : TradeCurrency(p, amount)
    \/ TradeCancel(p)
    \/ TradeAccept(p)
    \/ \E s, u \in AllSlots : ItemMove(p, s, u)
    \/ \E s \in AllSlots : ItemDelete(p, s)
    \/ \E s \in AllSlots : ShopSell(p, s)
    \/ \E x \in Items : ShopBuyback(p, x)
    \/ Leave(p)

Next == ~crashed /\ \E p \in present : Query(p)

Spec == Init /\ [][Next]_vars

-----------------------------------------------------------------------------

(***************************************************************************)
(* The creature pointers of a transaction are good: whoever a transaction  *)
(* names is still in the instance, and his activeLootID leads back to it,  *)
(* so leaving the instance (UnloadResources) always finds and cancels it.  *)
(***************************************************************************)
TradersPointBack ==
    \A id \in Players, i \in {0, 1} :
        LET p == tradeList[id].player[i].selfPlayerID
        IN  p # None => p \in present /\ activeLootID[p] = id

(***************************************************************************)
(* trade.accept mints and destroys no coin: it leaves every balance alone, *)
(* or moves copper between two players whose sum stays.                    *)
(***************************************************************************)
CoinPreserved ==
    [][\A p \in present : TradeAccept(p) =>
         \E o, q \in Players :
            /\ copper'[o] + copper'[q] = copper[o] + copper[q]
            /\ \A r \in Players \ {o, q} : copper'[r] = copper[r]]_vars

\* Every offered item still lies in the slot it was offered from.
OffersFresh(t) ==
    \A i \in {0, 1} : \A r \in t.player[i].itemList :
        inventory[t.player[i].selfPlayerID][r.CCSID] = r.IID

\* An offer names slots of the backpack, each of them once.
PlainOffers(t) ==
    \A i \in {0, 1} : \A r \in t.player[i].itemList :
        /\ r.CCSID \in Slots
        /\ \A u \in t.player[i].itemList : u.CCSID = r.CCSID => u = r

Holds(pack, x) == \E s \in Slots : pack[s] = x

(***************************************************************************)
(* A trade that two players carry out delivers: when nothing offered was   *)
(* touched since and each offer names slots of the backpack once, each     *)
(* side ends up with every item the other offered.  The room was checked   *)
(* before anything moved, counting a slot for every item a side offers     *)
(* itself; trade.items does not see to the second condition, and without   *)
(* it the slots are over-counted and items are lost.                       *)
(***************************************************************************)
Delivers ==
    [][\A p \in present :
         LET t == tradeList[activeLootID[p]]
         IN  /\ TradeAccept(p)
             /\ ~tradeList'[activeLootID[p]].listed
             /\ t.player[0].selfPlayerID # t.player[1].selfPlayerID
             /\ OffersFresh(t)
             /\ PlainOffers(t)
             => \A i \in {0, 1} : \A r \in t.player[i].itemList :
                   Holds(inventory'[t.player[1 - i].selfPlayerID], r.IID)]_vars

(***************************************************************************)
(* An item is in one place: "a pretty ugly hack to prevent some out of     *)
(* sync and potential duping issues" (item.move) is there to keep it so.   *)
(***************************************************************************)
NoDuplicate ==
    \A p, q \in Players, s, u \in AllSlots :
        inventory[p][s] = inventory[q][u] /\ inventory[p][s] # None
            => p = q /\ s = u
=============================================================================
