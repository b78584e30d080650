----------------------------- MODULE TradeProofs -----------------------------
(***************************************************************************)
(* What holds of trades for any number of players, items, slots and coins. *)
(***************************************************************************)
EXTENDS Trade, FiniteSetTheorems, TLAPS

\* A transaction names two players or none, and only one in use names any.
WellFormed ==
    \A id \in Players :
        /\ tradeList[id].player[0].selfPlayerID = None
              <=> tradeList[id].player[1].selfPlayerID = None
        /\ tradeList[id].player[0].selfPlayerID # None => tradeList[id].init
        /\ tradeList[id].init => tradeList[id].listed

IInv == TypeOK /\ WellFormed /\ TradersPointBack

\* Records of the right type, and how the handlers change them.
LEMMA ClearedType ==
    /\ ClearedTransaction \in TradeTransaction
    /\ NoTransaction \in TradeTransaction
    /\ ClearedTransaction.listed /\ ~ClearedTransaction.init /\ ~NoTransaction.init
    /\ \A i \in {0, 1} : /\ ClearedTransaction.player[i].selfPlayerID = None
                         /\ NoTransaction.player[i].selfPlayerID = None
<1>1. NoPlayerData \in TradePlayerData /\ NoPlayerData.selfPlayerID = None
  BY DEF NoPlayerData, TradePlayerData
<1>2. ClearedTransaction = [listed |-> TRUE, init |-> FALSE,
                           player |-> [i \in {0, 1} |-> NoPlayerData]]
  BY DEF ClearedTransaction
<1>3. ClearedTransaction \in TradeTransaction
  BY <1>1, <1>2 DEF TradeTransaction
<1>4. /\ ClearedTransaction.listed /\ ~ClearedTransaction.init
      /\ \A i \in {0, 1} : ClearedTransaction.player[i].selfPlayerID = None
  BY <1>1, <1>2
<1>5. /\ NoTransaction \in TradeTransaction
      /\ NoTransaction.init = ClearedTransaction.init
      /\ NoTransaction.player = ClearedTransaction.player
  BY <1>3 DEF NoTransaction, TradeTransaction
<1> QED
  BY <1>3, <1>4, <1>5

LEMMA SideType ==
    ASSUME NEW t \in TradeTransaction, NEW p \in Players, IsTrader(t, p)
    PROVE  Side(t, p) \in {0, 1} /\ t.player[Side(t, p)].selfPlayerID = p
BY DEF Side, IsTrader, SidesOf

\* Setting the fields of one side leaves the names alone.
LEMMA SideUpdate ==
    ASSUME NEW t \in TradeTransaction, NEW i \in {0, 1},
           NEW d \in TradePlayerData, d.selfPlayerID = t.player[i].selfPlayerID
    PROVE  LET u == [t EXCEPT !.player[i] = d]
           IN  /\ u \in TradeTransaction
               /\ \A j \in {0, 1} :
                     u.player[j].selfPlayerID = t.player[j].selfPlayerID
               /\ u.listed = t.listed /\ u.init = t.init
BY DEF TradeTransaction

LEMMA DataUpdates ==
    ASSUME NEW t \in TradeTransaction, NEW i \in {0, 1}
    PROVE  LET d == t.player[i]
           IN  /\ d \in TradePlayerData
               /\ [t EXCEPT !.player[i].accepted = TRUE]
                    = [t EXCEPT !.player[i] = [d EXCEPT !.accepted = TRUE]]
               /\ [t EXCEPT !.player[i].tradeWindowOpen = TRUE]
                    = [t EXCEPT !.player[i] = [d EXCEPT !.tradeWindowOpen = TRUE]]
               /\ [d EXCEPT !.accepted = TRUE] \in TradePlayerData
               /\ [d EXCEPT !.accepted = TRUE].selfPlayerID = d.selfPlayerID
               /\ [d EXCEPT !.tradeWindowOpen = TRUE] \in TradePlayerData
               /\ [d EXCEPT !.tradeWindowOpen = TRUE].selfPlayerID = d.selfPlayerID
               /\ \A n \in Int :
                     /\ [d EXCEPT !.coin = n] \in TradePlayerData
                     /\ [d EXCEPT !.coin = n].selfPlayerID = d.selfPlayerID
               /\ \A l \in SUBSET OfferedItem :
                     /\ [d EXCEPT !.itemList = l] \in TradePlayerData
                     /\ [d EXCEPT !.itemList = l].selfPlayerID = d.selfPlayerID
BY DEF TradeTransaction, TradePlayerData

\* SetPlayers names the players, opening a window keeps them.
LEMMA SetPlayersType ==
    ASSUME NEW n \in TradeTransaction, NEW p \in Players, NEW q \in Players
    PROVE  LET t == SetPlayers(n, p, q)
           IN  /\ t \in TradeTransaction
               /\ t.listed = n.listed /\ t.init
               /\ t.player[0].selfPlayerID = p
               /\ t.player[1].selfPlayerID = q
<1> DEFINE f == [i \in {0, 1} |-> [n.player[i] EXCEPT !.selfPlayerID =
                                     IF i = 0 THEN p ELSE q]]
<1>1. \A i \in {0, 1} : n.player[i] \in TradePlayerData
  BY DEF TradeTransaction
<1>2. f \in [{0, 1} -> TradePlayerData]
  BY <1>1 DEF TradePlayerData
<1>3. f[0].selfPlayerID = p /\ f[1].selfPlayerID = q
  BY <1>1 DEF TradePlayerData
<1>4. SetPlayers(n, p, q) = [n EXCEPT !.init = TRUE, !.player = f]
  BY DEF SetPlayers
<1> HIDE DEF f
<1> QED
  BY <1>2, <1>3, <1>4 DEF TradeTransaction

LEMMA WindowOpenedKeeps ==
    ASSUME NEW t \in TradeTransaction, NEW p \in Players, IsTrader(t, p)
    PROVE  LET u == WindowOpened(t, p)
           IN  /\ u \in TradeTransaction
               /\ \A j \in {0, 1} :
                     u.player[j].selfPlayerID = t.player[j].selfPlayerID
               /\ u.listed = t.listed /\ u.init = t.init
<1> DEFINE i == Side(t, p)
           d == [t.player[i] EXCEPT !.tradeWindowOpen = TRUE]
<1>1. i \in {0, 1}
  BY SideType
<1>2. d \in TradePlayerData /\ d.selfPlayerID = t.player[i].selfPlayerID
  BY <1>1, DataUpdates
<1>3. WindowOpened(t, p) = [t EXCEPT !.player[i] = d]
  BY <1>1, DataUpdates DEF WindowOpened
<1> HIDE DEF i, d
<1> QED
  BY <1>1, <1>2, <1>3, SideUpdate

\* An entry rewritten with the same names keeps the invariant's trade part.
LEMMA KeepNames ==
    ASSUME IInv, NEW id \in Players, NEW u \in TradeTransaction,
           \A j \in {0, 1} : u.player[j].selfPlayerID
                                = tradeList[id].player[j].selfPlayerID,
           u.listed, u.init = tradeList[id].init,
           tradeList' = [tradeList EXCEPT ![id] = u],
           UNCHANGED <<present, activeLootID>>
    PROVE  /\ tradeList' \in [Players -> TradeTransaction]
           /\ WellFormed'
           /\ TradersPointBack'
<1>1. tradeList' \in [Players -> TradeTransaction]
  BY DEF IInv, TypeOK
<1>2. \A k \in Players, j \in {0, 1} :
         tradeList'[k].player[j].selfPlayerID = tradeList[k].player[j].selfPlayerID
  BY DEF IInv, TypeOK
<1>3. \A k \in Players : /\ tradeList'[k].init = tradeList[k].init
                         /\ tradeList'[k].listed \/ tradeList'[k] = tradeList[k]
  BY DEF IInv, TypeOK
<1> QED
  BY <1>1, <1>2, <1>3 DEF IInv, WellFormed, TradersPointBack

\* A cancelled transaction keeps the invariant.
LEMMA CancelKeeps ==
    ASSUME IInv, NEW id \in Players, CancelTransaction(id),
           UNCHANGED <<present, goodsVars>>
    PROVE  IInv'
<1>1. CASE tradeList[id].player[0].selfPlayerID = None
  BY <1>1 DEF CancelTransaction, Crash, goodsVars, IInv, TypeOK, WellFormed,
              TradersPointBack
<1>2. CASE tradeList[id].player[0].selfPlayerID # None
  <2>1. /\ activeLootID' = Released(id)
        /\ tradeList' = [tradeList EXCEPT ![id] = NoTransaction]
        /\ UNCHANGED crashed
    BY <1>2 DEF CancelTransaction
  <2>2. TypeOK'
    BY <2>1, ClearedType DEF IInv, TypeOK, Released, goodsVars
  <2>3. /\ \A j \in {0, 1} : tradeList'[id].player[j].selfPlayerID = None
        /\ ~tradeList'[id].init
    BY <2>1, ClearedType DEF IInv, TypeOK
  <2>4. \A k \in Players \ {id} : tradeList'[k] = tradeList[k]
    BY <2>1 DEF IInv, TypeOK
  <2>5. WellFormed'
    BY <2>3, <2>4 DEF IInv, WellFormed
  <2>6. TradersPointBack'
    <3> SUFFICES ASSUME NEW k \in Players, NEW j \in {0, 1},
                        tradeList'[k].player[j].selfPlayerID # None
                 PROVE  /\ tradeList'[k].player[j].selfPlayerID \in present'
                        /\ activeLootID'[tradeList'[k].player[j].selfPlayerID] = k
      BY DEF TradersPointBack
    <3> DEFINE p == tradeList[k].player[j].selfPlayerID
    <3>1. k # id /\ tradeList'[k] = tradeList[k]
      BY <2>3, <2>4
    <3>2. p \in present /\ activeLootID[p] = k /\ p \in Players
      BY <3>1 DEF IInv, TradersPointBack, TypeOK
    <3>3. ~IsTrader(tradeList[id], p)
      BY <3>1, <3>2 DEF IInv, TradersPointBack, IsTrader, SidesOf, TypeOK
    <3> QED
      BY <2>1, <3>1, <3>2, <3>3 DEF Released
  <2> QED
    BY <2>2, <2>5, <2>6 DEF IInv
<1> QED
  BY <1>1, <1>2

\* An entry of the map, cleared or not.
LEMMA NewTransaction ==
    ASSUME IInv, NEW p \in present
    PROVE  LET id == CheckID(p)
               n  == GetNewTransaction(id)
           IN  /\ p \in Players
               /\ id \in Players
               /\ n \in TradeTransaction
               /\ n.listed
               /\ n = tradeList[id] \/ n = ClearedTransaction
<1> DEFINE id == CheckID(p)
<1>1. p \in Players
  BY DEF IInv, TypeOK
<1>2. id \in Players
  BY <1>1 DEF CheckID, IInv, TypeOK
<1>3. CASE tradeList[id].init
  BY <1>1, <1>2, <1>3 DEF GetNewTransaction, IInv, TypeOK, WellFormed
<1>4. CASE ~tradeList[id].init
  BY <1>1, <1>2, <1>4, ClearedType DEF GetNewTransaction
<1> QED
  BY <1>3, <1>4

LEMMA RequestKeeps ==
    ASSUME IInv, NEW p \in present, NEW q \in Players, TradeRequest(p, q)
    PROVE  IInv'
<1> DEFINE id == CheckID(p)
           n  == GetNewTransaction(id)
           t  == SetPlayers(n, p, q)
           u  == WindowOpened(t, p)
<1>1. p \in Players /\ q \in present /\ ~InSomeTrade(q)
  BY DEF TradeRequest, IInv, TypeOK
<1>2. id \in Players
  BY NewTransaction
<1>3. n \in TradeTransaction /\ n.listed
  BY NewTransaction
<1>4. /\ t \in TradeTransaction /\ t.listed /\ t.init
      /\ t.player[0].selfPlayerID = p /\ t.player[1].selfPlayerID = q
  BY <1>1, <1>3, SetPlayersType
<1>5. IsTrader(t, p)
  BY <1>4 DEF IsTrader, SidesOf
<1>7. /\ u \in TradeTransaction /\ u.listed /\ u.init
      /\ u.player[0].selfPlayerID = p /\ u.player[1].selfPlayerID = q
  <2> HIDE DEF t
  <2> QED
    BY <1>1, <1>4, <1>5, WindowOpenedKeeps
<1>8. /\ tradeList' = [tradeList EXCEPT ![id] = u]
      /\ activeLootID' = [activeLootID EXCEPT ![p] = id, ![q] = id]
      /\ UNCHANGED <<present, goodsVars, crashed>>
  BY DEF TradeRequest
<1> HIDE DEF id, n, t, u
<1>9. TypeOK'
  BY <1>2, <1>7, <1>8, <1>1 DEF IInv, TypeOK, goodsVars
<1>10. \A k \in Players \ {id} : tradeList'[k] = tradeList[k]
  BY <1>8 DEF IInv, TypeOK
<1>11. tradeList'[id] = u
  BY <1>2, <1>8 DEF IInv, TypeOK
<1>12. WellFormed'
  BY <1>1, <1>7, <1>10, <1>11, TradeAssumption DEF IInv, WellFormed
<1>13. TradersPointBack'
  <2> SUFFICES ASSUME NEW k \in Players, NEW j \in {0, 1},
                      tradeList'[k].player[j].selfPlayerID # None
               PROVE  /\ tradeList'[k].player[j].selfPlayerID \in present'
                      /\ activeLootID'[tradeList'[k].player[j].selfPlayerID] = k
    BY DEF TradersPointBack
  <2>1. CASE k = id
    BY <2>1, <1>1, <1>2, <1>7, <1>8, <1>11 DEF IInv, TypeOK
  <2>2. CASE k # id
    <3> DEFINE r == tradeList[k].player[j].selfPlayerID
    <3>1. tradeList'[k].player[j].selfPlayerID = r
      BY <2>2, <1>10
    <3>2. r \in present /\ activeLootID[r] = k /\ r \in Players
      BY <3>1 DEF IInv, TradersPointBack, TypeOK
    <3>3. r # q
      BY <1>1, <3>2 DEF InSomeTrade
    <3>4. r # p
      BY <2>2, <3>2, TradeAssumption DEF CheckID, id
    <3> QED
      BY <3>1, <3>2, <3>3, <3>4, <1>8 DEF IInv, TypeOK
  <2> QED
    BY <2>1, <2>2
<1> QED
  BY <1>9, <1>12, <1>13 DEF IInv

\* The entry cleared for reuse had named nobody.
LEMMA RequestAcceptKeeps ==
    ASSUME IInv, NEW p \in present, TradeRequestAccept(p)
    PROVE  IInv'
<1> DEFINE id == CheckID(p)
           n  == GetNewTransaction(id)
<1>1. /\ p \in Players /\ id \in Players
      /\ n \in TradeTransaction /\ n.listed
  BY NewTransaction
<1>2. \A j \in {0, 1} : n.player[j].selfPlayerID
                           = tradeList[id].player[j].selfPlayerID
  BY <1>1, ClearedType DEF GetNewTransaction, IInv, WellFormed
<1>3. UNCHANGED <<present, goodsVars>>
  BY DEF TradeRequestAccept
<1>7. n.init = tradeList[id].init
  BY <1>1, ClearedType DEF GetNewTransaction, IInv, TypeOK, TradeTransaction
<1>4. CASE Crash
  BY <1>3, <1>4 DEF Crash, IInv, TypeOK, WellFormed, TradersPointBack, goodsVars
<1> DEFINE Rewritten(u) ==
       /\ tradeList' = [tradeList EXCEPT ![id] = u]
       /\ UNCHANGED <<activeLootID, crashed>>
<1>5. CASE Rewritten(n)
  BY <1>1, <1>2, <1>3, <1>5, <1>7, KeepNames DEF IInv, TypeOK, goodsVars
<1>6. CASE IsTrader(n, p) /\ Rewritten(WindowOpened(n, p))
  <2> DEFINE u == WindowOpened(n, p)
  <2>1. /\ u \in TradeTransaction /\ u.listed /\ u.init = tradeList[id].init
        /\ \A j \in {0, 1} : u.player[j].selfPlayerID
                                = tradeList[id].player[j].selfPlayerID
    <3> HIDE DEF n
    <3> QED
      BY <1>1, <1>2, <1>6, <1>7, WindowOpenedKeeps
  <2> QED
    BY <1>1, <2>1, <1>3, <1>6, KeepNames DEF IInv, TypeOK, goodsVars
<1> QED
  BY <1>4, <1>5, <1>6 DEF TradeRequestAccept

\* A player who has a transaction and is in it.
LEMMA OwnTransaction ==
    ASSUME IInv, NEW p \in present, HasTransaction(p)
    PROVE  /\ p \in Players
           /\ activeLootID[p] \in Players
           /\ tradeList[activeLootID[p]] \in TradeTransaction
           /\ tradeList[activeLootID[p]].listed
BY DEF HasTransaction, IInv, TypeOK

LEMMA ItemsKeeps ==
    ASSUME IInv, NEW p \in present, NEW times, TradeItems(p, times)
    PROVE  IInv'
<1> DEFINE id == activeLootID[p]
           t  == tradeList[id]
           i  == Side(t, p)
           L  == {r \in OfferedItem : /\ r.IID = inventory[p][r.CCSID]
                                      /\ r.nth <= times[r.CCSID]}
           d  == [t.player[i] EXCEPT !.itemList = L]
           u  == [t EXCEPT !.player[i] = d]
<1>1. /\ p \in Players /\ id \in Players /\ t \in TradeTransaction /\ t.listed
      /\ i \in {0, 1}
  BY OwnTransaction, SideType DEF TradeItems
<1>2. L \in SUBSET OfferedItem
  OBVIOUS
<1>3. /\ tradeList' = [tradeList EXCEPT ![id] = u]
      /\ UNCHANGED <<present, activeLootID, goodsVars, crashed>>
  BY DEF TradeItems
<1> HIDE DEF L, i, t
<1>4. d \in TradePlayerData /\ d.selfPlayerID = t.player[i].selfPlayerID
  BY <1>1, <1>2, DataUpdates
<1> HIDE DEF d
<1>5. /\ u \in TradeTransaction /\ u.listed /\ u.init = t.init
      /\ \A j \in {0, 1} : u.player[j].selfPlayerID = t.player[j].selfPlayerID
  BY <1>1, <1>4, SideUpdate
<1> HIDE DEF u, id
<1> QED
  BY <1>1, <1>3, <1>5, KeepNames DEF t, IInv, TypeOK, goodsVars

LEMMA CurrencyKeeps ==
    ASSUME IInv, NEW p \in present, NEW amount \in Amounts, TradeCurrency(p, amount)
    PROVE  IInv'
<1> DEFINE id == activeLootID[p]
           t  == tradeList[id]
           i  == Side(t, p)
           d  == [t.player[i] EXCEPT !.coin = amount]
           u  == [t EXCEPT !.player[i] = d]
<1>1. /\ p \in Players /\ id \in Players /\ t \in TradeTransaction /\ t.listed
      /\ i \in {0, 1}
  BY OwnTransaction, SideType DEF TradeCurrency
<1>2. amount \in Int
  BY TradeAssumption
<1>3. /\ tradeList' = [tradeList EXCEPT ![id] = u]
      /\ UNCHANGED <<present, activeLootID, goodsVars, crashed>>
  BY DEF TradeCurrency
<1> HIDE DEF i, t
<1>4. d \in TradePlayerData /\ d.selfPlayerID = t.player[i].selfPlayerID
  BY <1>1, <1>2, DataUpdates
<1> HIDE DEF d
<1>5. /\ u \in TradeTransaction /\ u.listed /\ u.init = t.init
      /\ \A j \in {0, 1} : u.player[j].selfPlayerID = t.player[j].selfPlayerID
  BY <1>1, <1>4, SideUpdate
<1> HIDE DEF u, id
<1> QED
  BY <1>1, <1>3, <1>5, KeepNames DEF t, IInv, TypeOK, goodsVars

\* An exchange between two sides keeps the goods' types, and the sum
\* of the two balances.
LEMMA ExchangeKeeps ==
    ASSUME IInv, NEW t \in TradeTransaction,
           NEW o \in Players, NEW q \in Players,
           t.player[0].selfPlayerID = o, t.player[1].selfPlayerID = q,
           Exchange(t)
    PROVE  /\ copper' \in [Players -> Int]
           /\ copper'[o] + copper'[q] = copper[o] + copper[q]
           /\ \A r \in Players \ {o, q} : copper'[r] = copper[r]
           /\ inventory' \in [Players -> Backpacks]
<1> DEFINE a == t.player[0]  b == t.player[1]
           left == [inventory EXCEPT ![o] = GiveAway(@, a.itemList),
                                     ![q] = GiveAway(@, b.itemList)]
<1>1. a.coin \in Int /\ b.coin \in Int
  BY DEF TradeTransaction, TradePlayerData
<1>2. copper' = [copper EXCEPT ![o] = @ - a.coin + b.coin,
                               ![q] = @ - b.coin + a.coin]
  BY DEF Exchange
<1>3. copper \in [Players -> Int]
  BY DEF IInv, TypeOK
<1>4. PICK packO \in Received(left[o], b.itemList) :
        \E packQ \in Received([left EXCEPT ![o] = packO][q], a.itemList) :
           inventory' = [left EXCEPT ![o] = packO, ![q] = packQ]
  BY DEF Exchange
<1>5. PICK packQ \in Received([left EXCEPT ![o] = packO][q], a.itemList) :
        inventory' = [left EXCEPT ![o] = packO, ![q] = packQ]
  BY <1>4
<1>6. packO \in Backpacks /\ packQ \in Backpacks
  BY <1>4, <1>5 DEF Received
<1>7. \A f \in Backpacks : \A l : GiveAway(f, l) \in Backpacks
  BY DEF GiveAway, Backpacks
<1>8. inventory \in [Players -> Backpacks]
  BY DEF IInv, TypeOK
<1>9. left \in [Players -> Backpacks]
  BY <1>7, <1>8
<1> HIDE DEF left, a, b
<1>10. inventory' \in [Players -> Backpacks]
  BY <1>5, <1>6, <1>9
<1>11. CASE o = q
  BY <1>1, <1>2, <1>3, <1>10, <1>11
<1>12. CASE o # q
  BY <1>1, <1>2, <1>3, <1>10, <1>12
<1> QED
  BY <1>11, <1>12

\* trade.accept moves coin between two players at most, and keeps the invariant.
LEMMA AcceptKeeps ==
    ASSUME IInv, NEW p \in present, TradeAccept(p)
    PROVE  /\ IInv'
           /\ \E o, q \in Players :
                 /\ copper'[o] + copper'[q] = copper[o] + copper[q]
                 /\ \A r \in Players \ {o, q} : copper'[r] = copper[r]
<1> DEFINE id == activeLootID[p]
           e  == tradeList[id]
           i  == Side(e, p)
           d  == [e.player[i] EXCEPT !.accepted = TRUE]
           t  == [e EXCEPT !.player[i] = d]
           o  == t.player[0].selfPlayerID
           q  == t.player[1].selfPlayerID
<1>1. /\ p \in Players /\ id \in Players /\ e \in TradeTransaction /\ e.listed
      /\ IsTrader(e, p) /\ i \in {0, 1} /\ e.player[i].selfPlayerID = p
  BY OwnTransaction, SideType DEF TradeAccept
<1>2. /\ UNCHANGED <<present, buyback, crashed>>
      /\ \/ /\ Covered(o, t.player[0], t.player[1])
            /\ Covered(q, t.player[1], t.player[0])
            /\ Exchange(t)
            /\ activeLootID' = [activeLootID EXCEPT ![o] = None, ![q] = None]
            /\ tradeList' = [tradeList EXCEPT ![id] = NoTransaction]
         \/ /\ tradeList' = [tradeList EXCEPT ![id] = t]
            /\ UNCHANGED <<activeLootID, inventory, copper>>
  BY DEF TradeAccept
<1> HIDE DEF e, i
<1>3. d \in TradePlayerData /\ d.selfPlayerID = e.player[i].selfPlayerID
  BY <1>1, DataUpdates
<1> HIDE DEF d
<1>4. /\ t \in TradeTransaction /\ t.listed /\ t.init = e.init
      /\ \A j \in {0, 1} : t.player[j].selfPlayerID = e.player[j].selfPlayerID
  BY <1>1, <1>3, SideUpdate
<1>5. /\ o \in Players /\ q \in Players
      /\ o = e.player[0].selfPlayerID /\ q = e.player[1].selfPlayerID
  <2>1. /\ o \in Players \cup {None} /\ q \in Players \cup {None}
        /\ o = e.player[0].selfPlayerID /\ q = e.player[1].selfPlayerID
    BY <1>4 DEF TradeTransaction, TradePlayerData
  <2>2. o # None \/ q # None
    BY <1>1, <1>4, TradeAssumption
  <2>3. o = None <=> q = None
    BY <2>1, <1>1 DEF e, IInv, WellFormed
  <2> QED
    BY <2>1, <2>2, <2>3
<1> HIDE DEF t, id
<1>6. CASE /\ tradeList' = [tradeList EXCEPT ![id] = t]
           /\ UNCHANGED <<activeLootID, inventory, copper>>
  <2>1. IInv'
    BY <1>1, <1>2, <1>4, <1>6, KeepNames DEF e, IInv, TypeOK
  <2> QED
    BY <2>1, <1>5, <1>6
<1>7. CASE /\ Covered(o, t.player[0], t.player[1])
           /\ Covered(q, t.player[1], t.player[0])
           /\ Exchange(t)
           /\ activeLootID' = [activeLootID EXCEPT ![o] = None, ![q] = None]
           /\ tradeList' = [tradeList EXCEPT ![id] = NoTransaction]
  <2>1. /\ copper' \in [Players -> Int]
        /\ copper'[o] + copper'[q] = copper[o] + copper[q]
        /\ \A r \in Players \ {o, q} : copper'[r] = copper[r]
        /\ inventory' \in [Players -> Backpacks]
    BY <1>4, <1>5, <1>7, ExchangeKeeps
  <2> HIDE DEF o, q
  <2>2. TypeOK'
    BY <1>1, <1>2, <1>5, <1>7, <2>1, ClearedType DEF IInv, TypeOK
  <2>3. /\ \A j \in {0, 1} : tradeList'[id].player[j].selfPlayerID = None
        /\ ~tradeList'[id].init
    BY <1>1, <1>7, ClearedType DEF IInv, TypeOK
  <2>4. \A k \in Players \ {id} : tradeList'[k] = tradeList[k]
    BY <1>7 DEF IInv, TypeOK
  <2>5. WellFormed'
    BY <2>3, <2>4 DEF IInv, WellFormed
  <2>6. TradersPointBack'
    <3> SUFFICES ASSUME NEW k \in Players, NEW j \in {0, 1},
                        tradeList'[k].player[j].selfPlayerID # None
                 PROVE  /\ tradeList'[k].player[j].selfPlayerID \in present'
                        /\ activeLootID'[tradeList'[k].player[j].selfPlayerID] = k
      BY DEF TradersPointBack
    <3> DEFINE r == tradeList[k].player[j].selfPlayerID
    <3>1. k # id /\ tradeList'[k] = tradeList[k]
      BY <2>3, <2>4
    <3>2. r \in present /\ activeLootID[r] = k /\ r \in Players
      BY <3>1 DEF IInv, TradersPointBack, TypeOK
    <3>3. activeLootID[o] = id /\ activeLootID[q] = id
      BY <1>1, <1>5, TradeAssumption DEF e, IInv, TradersPointBack
    <3> QED
      BY <1>2, <1>7, <3>1, <3>2, <3>3 DEF IInv, TypeOK
  <2> QED
    BY <2>1, <2>2, <2>5, <2>6, <1>5 DEF IInv
<1> QED
  BY <1>2, <1>6, <1>7

\* Queries that only touch goods.
LEMMA GoodsKeeps ==
    ASSUME IInv, UNCHANGED <<present, tradeVars, crashed>>,
           inventory' \in [Players -> Backpacks],
           buyback' \in [Players -> SUBSET Items],
           \A p \in Players : /\ IsFiniteSet(buyback'[p])
                              /\ Cardinality(buyback'[p]) <= BuybackLimit,
           copper' \in [Players -> Int]
    PROVE  IInv'
BY DEF IInv, TypeOK, WellFormed, TradersPointBack, tradeVars

LEMMA LeaveKeeps ==
    ASSUME IInv, NEW p \in present, Leave(p)
    PROVE  IInv'
<1> DEFINE id == activeLootID[p]
<1>1. p \in Players /\ UNCHANGED goodsVars
  BY DEF Leave, IInv, TypeOK
<1>2. CASE Crash /\ UNCHANGED present
  BY <1>1, <1>2 DEF Crash, IInv, TypeOK, WellFormed, TradersPointBack, goodsVars
<1>3. CASE /\ HasTransaction(p)
           /\ activeLootID' = [Released(id) EXCEPT ![p] = None]
           /\ tradeList' = [tradeList EXCEPT ![id] = NoTransaction]
           /\ present' = present \ {p}
           /\ UNCHANGED crashed
  <2>1. id \in Players
    BY <1>3, OwnTransaction
  <2>2. TypeOK'
    BY <1>1, <1>3, <2>1, ClearedType DEF IInv, TypeOK, Released, goodsVars
  <2>3. /\ \A j \in {0, 1} : tradeList'[id].player[j].selfPlayerID = None
        /\ ~tradeList'[id].init
    BY <1>3, <2>1, ClearedType DEF IInv, TypeOK
  <2>4. \A k \in Players \ {id} : tradeList'[k] = tradeList[k]
    BY <1>3 DEF IInv, TypeOK
  <2>5. WellFormed'
    BY <2>3, <2>4 DEF IInv, WellFormed
  <2>6. TradersPointBack'
    <3> SUFFICES ASSUME NEW k \in Players, NEW j \in {0, 1},
                        tradeList'[k].player[j].selfPlayerID # None
                 PROVE  /\ tradeList'[k].player[j].selfPlayerID \in present'
                        /\ activeLootID'[tradeList'[k].player[j].selfPlayerID] = k
      BY DEF TradersPointBack
    <3> DEFINE r == tradeList[k].player[j].selfPlayerID
    <3>1. k # id /\ tradeList'[k] = tradeList[k]
      BY <2>3, <2>4
    <3>2. r \in present /\ activeLootID[r] = k /\ r \in Players
      BY <3>1 DEF IInv, TradersPointBack, TypeOK
    <3>3. ~IsTrader(tradeList[id], r)
      BY <2>1, <3>1, <3>2 DEF IInv, TradersPointBack, IsTrader, SidesOf, TypeOK
    <3>4. r # p
      BY <3>1, <3>2
    <3> QED
      BY <1>3, <3>1, <3>2, <3>3, <3>4 DEF Released
  <2> QED
    BY <2>2, <2>5, <2>6 DEF IInv
<1>4. CASE /\ ~HasTransaction(p)
           /\ activeLootID' = [activeLootID EXCEPT ![p] = None]
           /\ present' = present \ {p}
           /\ UNCHANGED <<tradeList, crashed>>
  <2>1. TypeOK'
    BY <1>1, <1>4 DEF IInv, TypeOK, goodsVars
  <2>2. WellFormed'
    BY <1>4 DEF IInv, WellFormed
  <2>3. \A k \in Players, j \in {0, 1} : tradeList[k].player[j].selfPlayerID # p
    <3> SUFFICES ASSUME NEW k \in Players, NEW j \in {0, 1},
                        tradeList[k].player[j].selfPlayerID = p
                 PROVE  FALSE
      OBVIOUS
    <3>1. id = k /\ tradeList[k].listed
      BY <1>1, TradeAssumption DEF IInv, TradersPointBack, WellFormed
    <3> QED
      BY <1>4, <3>1, TradeAssumption DEF HasTransaction
  <2>4. TradersPointBack'
    BY <1>4, <2>3 DEF IInv, TypeOK, TradersPointBack
  <2> QED
    BY <2>1, <2>2, <2>4 DEF IInv
<1> QED
  BY <1>2, <1>3, <1>4 DEF Leave

LEMMA InitIInv == Init => IInv
<1> SUFFICES ASSUME Init
             PROVE  IInv
  OBVIOUS
<1>1. copper \in [Players -> Int]
  BY TradeAssumption DEF Init
<1>4. \A p \in Players : /\ IsFiniteSet(buyback[p])
                         /\ Cardinality(buyback[p]) <= BuybackLimit
  <2>1. \A p \in Players : buyback[p] = {}
    BY DEF Init
  <2> QED
    BY <2>1, FS_EmptySet, TradeAssumption
<1>2. TypeOK
  BY <1>1, <1>4, ClearedType DEF Init, TypeOK
<1>3. \A id \in Players : tradeList[id] = NoTransaction
  BY DEF Init
<1> QED
  BY <1>2, <1>3, ClearedType DEF IInv, WellFormed, TradersPointBack

\* A list at its limit that lost an entry has room for one.
LEMMA SoldFits ==
    ASSUME NEW list, IsFiniteSet(list), Cardinality(list) <= BuybackLimit,
           NEW old \in SUBSET list, NEW x,
           Cardinality(old) = IF Cardinality(list) >= BuybackLimit THEN 1 ELSE 0
    PROVE  /\ IsFiniteSet((list \ old) \cup {x})
           /\ Cardinality((list \ old) \cup {x}) <= BuybackLimit
<1>1. /\ IsFiniteSet(old) /\ Cardinality(old) \in Nat /\ Cardinality(list) \in Nat
      /\ IsFiniteSet(list \ old) /\ Cardinality(list \ old) \in Nat
  BY FS_Subset, FS_CardinalityType
<1>2. Cardinality(list \ old) = Cardinality(list) - Cardinality(old)
  <2>1. Cardinality(list \ old) = Cardinality(list) - Cardinality(list \cap old)
    BY <1>1, FS_Difference
  <2>2. list \cap old = old
    OBVIOUS
  <2> QED
    BY <2>1, <2>2
<1>3. Cardinality(list \ old) < BuybackLimit
  BY <1>1, <1>2, TradeAssumption
<1>4. /\ IsFiniteSet((list \ old) \cup {x})
      /\ \/ Cardinality((list \ old) \cup {x}) = Cardinality(list \ old)
         \/ Cardinality((list \ old) \cup {x}) = Cardinality(list \ old) + 1
  BY <1>1, FS_AddElement
<1> QED
  BY <1>1, <1>3, <1>4, TradeAssumption

LEMMA NextIInv == IInv /\ [Next]_vars => IInv'
<1> SUFFICES ASSUME IInv, [Next]_vars
             PROVE  IInv'
  OBVIOUS
<1>1. CASE UNCHANGED vars
  BY <1>1, GoodsKeeps DEF vars, tradeVars, IInv, TypeOK
<1>2. CASE Next
  <2> PICK p \in present : Query(p)
    BY <1>2 DEF Next
  <2>1. p \in Players
    BY DEF IInv, TypeOK
  <2>2. CASE \E q \in Players : TradeRequest(p, q)
    BY <2>2, RequestKeeps
  <2>3. CASE TradeRequestAccept(p)
    BY <2>3, RequestAcceptKeeps
  <2>4. CASE NotATrader(p)
    BY <2>4, OwnTransaction, CancelKeeps DEF NotATrader
  <2>5. CASE \E times \in [AllSlots -> 0..MaxMentions] : TradeItems(p, times)
    BY <2>5, ItemsKeeps
  <2>6. CASE \E amount \in Amounts : TradeCurrency(p, amount)
    BY <2>6, CurrencyKeeps
  <2>7. CASE TradeCancel(p)
    BY <2>7, OwnTransaction, CancelKeeps DEF TradeCancel
  <2>8. CASE TradeAccept(p)
    BY <2>8, AcceptKeeps
  <2>9. CASE \E s, u \in AllSlots : ItemMove(p, s, u)
    <3> PICK s \in AllSlots, u \in AllSlots : ItemMove(p, s, u)
      BY <2>9
    <3>1. CASE HasTransaction(p)
      BY <3>1, OwnTransaction, CancelKeeps DEF ItemMove
    <3>2. CASE ~HasTransaction(p)
      <4>1. /\ inventory' = [inventory EXCEPT ![p][s] = inventory[p][u],
                                              ![p][u] = inventory[p][s]]
            /\ UNCHANGED <<present, tradeVars, buyback, copper, crashed>>
        BY <3>2 DEF ItemMove
      <4>2. inventory' \in [Players -> Backpacks]
        BY <2>1, <4>1 DEF IInv, TypeOK, Backpacks
      <4> QED
        BY <4>1, <4>2, GoodsKeeps DEF IInv, TypeOK
    <3> QED
      BY <3>1, <3>2
  <2>10. CASE \E s \in AllSlots : ItemDelete(p, s)
    <3> PICK s \in AllSlots : ItemDelete(p, s)
      BY <2>10
    <3>1. inventory' \in [Players -> Backpacks]
      BY <2>1 DEF ItemDelete, IInv, TypeOK, Backpacks
    <3> QED
      BY <3>1, GoodsKeeps DEF ItemDelete, IInv, TypeOK
  <2>11. CASE \E s \in AllSlots : ShopSell(p, s)
    <3> PICK s \in AllSlots : ShopSell(p, s)
      BY <2>11
    <3>1. inventory[p][s] \in Items /\ Price \in Nat
      BY <2>1, TradeAssumption DEF ShopSell, IInv, TypeOK, Backpacks
    <3>2. inventory' \in [Players -> Backpacks]
      BY <2>1 DEF ShopSell, IInv, TypeOK, Backpacks
    <3>3. copper' \in [Players -> Int]
      BY <2>1, <3>1 DEF ShopSell, AdjustCopper, IInv, TypeOK
    <3>4. PICK old \in SUBSET buyback[p] :
            /\ Cardinality(old) =
                  IF Cardinality(buyback[p]) >= BuybackLimit THEN 1 ELSE 0
            /\ buyback' = [buyback EXCEPT ![p] = (@ \ old) \cup {inventory[p][s]}]
      BY DEF ShopSell
    <3>5. buyback' \in [Players -> SUBSET Items]
      BY <2>1, <3>1, <3>4 DEF IInv, TypeOK
    <3>6. /\ IsFiniteSet((buyback[p] \ old) \cup {inventory[p][s]})
          /\ Cardinality((buyback[p] \ old) \cup {inventory[p][s]}) <= BuybackLimit
      BY <2>1, <3>4, SoldFits DEF IInv, TypeOK
    <3>7. \A k \in Players : /\ IsFiniteSet(buyback'[k])
                             /\ Cardinality(buyback'[k]) <= BuybackLimit
      BY <2>1, <3>4, <3>6 DEF IInv, TypeOK
    <3> QED
      BY <3>2, <3>3, <3>5, <3>7, GoodsKeeps DEF ShopSell
  <2>12. CASE \E x \in Items : ShopBuyback(p, x)
    <3> PICK x \in Items : ShopBuyback(p, x)
      BY <2>12
    <3>1. inventory' \in [Players -> Backpacks]
      BY <2>1 DEF ShopBuyback, Received, IInv, TypeOK
    <3>2. copper' \in [Players -> Int]
      BY <2>1, TradeAssumption DEF ShopBuyback, AdjustCopper, IInv, TypeOK
    <3>3. buyback' = [buyback EXCEPT ![p] = @ \ {x}]
      BY DEF ShopBuyback
    <3>4. buyback' \in [Players -> SUBSET Items]
      BY <2>1, <3>3 DEF IInv, TypeOK
    <3>5. /\ IsFiniteSet(buyback[p] \ {x})
          /\ Cardinality(buyback[p] \ {x}) <= BuybackLimit
      <4>1. /\ IsFiniteSet(buyback[p]) /\ Cardinality(buyback[p]) \in Nat
            /\ Cardinality(buyback[p]) <= BuybackLimit
        BY <2>1, FS_CardinalityType DEF IInv, TypeOK
      <4>2. /\ IsFiniteSet(buyback[p] \ {x}) /\ Cardinality(buyback[p] \ {x}) \in Nat
            /\ Cardinality(buyback[p] \ {x}) <= Cardinality(buyback[p])
        BY <4>1, FS_Subset, FS_CardinalityType
      <4> QED
        BY <4>1, <4>2, TradeAssumption
    <3>6. \A k \in Players : /\ IsFiniteSet(buyback'[k])
                             /\ Cardinality(buyback'[k]) <= BuybackLimit
      BY <2>1, <3>3, <3>5 DEF IInv, TypeOK
    <3> QED
      BY <3>1, <3>2, <3>4, <3>6, GoodsKeeps DEF ShopBuyback
  <2>13. CASE Leave(p)
    BY <2>13, LeaveKeeps
  <2> QED
    BY <2>2, <2>3, <2>4, <2>5, <2>6, <2>7, <2>8, <2>9, <2>10, <2>11, <2>12,
       <2>13 DEF Query
<1> QED
  BY <1>1, <1>2

LEMMA TradeInvariant == Spec => []IInv
BY InitIInv, NextIInv, PTL DEF Spec

(***************************************************************************)
(* Every query of every player leaves transactions, balances and           *)
(* containers well typed, and the buyback list within its limit: AddBuyBack *)
(* makes room before it adds.  Balances are integers of either sign.       *)
(***************************************************************************)
THEOREM TradeTypeCorrect == Spec => []TypeOK
<1>1. IInv => TypeOK
  BY DEF IInv
<1> QED
  BY <1>1, TradeInvariant, PTL

(***************************************************************************)
(* However many players start, restart, cancel and leave trades in         *)
(* whatever order, a transaction only names players who are still in the   *)
(* instance and whose activeLootID leads back to it: UnloadResources never *)
(* leaves a dangling creature pointer in TradeManager::tradeList.          *)
(***************************************************************************)
THEOREM TradeNeverDangles == Spec => []TradersPointBack
<1>1. IInv => TradersPointBack
  BY DEF IInv
<1> QED
  BY <1>1, TradeInvariant, PTL

(***************************************************************************)
(* trade.accept moves coin between at most two players and keeps their     *)
(* sum, also when a player trades with himself.                            *)
(***************************************************************************)
THEOREM TradePreservesCoin == Spec => CoinPreserved
<1> DEFINE Moved == \E o, q \in Players :
              /\ copper'[o] + copper'[q] = copper[o] + copper[q]
              /\ \A r \in Players \ {o, q} : copper'[r] = copper[r]
           A == \A p \in present : TradeAccept(p) => Moved
<1>1. IInv /\ [Next]_vars => [A]_vars
  BY AcceptKeeps
<1>2. CoinPreserved <=> [][A]_vars
  BY DEF CoinPreserved
<1> HIDE DEF A
<1> QED
  BY <1>1, <1>2, TradeInvariant, PTL DEF Spec

-----------------------------------------------------------------------------
(* What trade.accept delivers.                                             *)

\* Every item of a list still lies where it was offered from.
Fresh(pack, list) == \A r \in list : pack[r.CCSID] = r.IID

\* The list names slots of the backpack, each of them once.
Plain(list) ==
    \A r \in list : /\ r.CCSID \in Slots
                    /\ \A u \in list : u.CCSID = r.CCSID => u = r

\* Giving away what lies where it was offered from frees a slot for each item.
LEMMA GiveAwayFrees ==
    ASSUME NEW pack \in Backpacks, NEW list \in SUBSET OfferedItem,
           Fresh(pack, list), Plain(list)
    PROVE  /\ IsFiniteSet(list)
           /\ Cardinality(FreeSlots(GiveAway(pack, list)))
                 = Cardinality(FreeSlots(pack)) + Cardinality(list)
<1> DEFINE slots == {r.CCSID : r \in list}
           f == [r \in list |-> r.CCSID]
<1>1. \A r \in list : r.IID \in Items /\ r.CCSID \in Slots
  BY DEF OfferedItem, Plain
<1>2. \A r, u \in list : r.CCSID = u.CCSID => r = u
  BY DEF Plain
<1>3. slots \in SUBSET Slots /\ IsFiniteSet(slots)
  BY <1>1, FS_Subset, TradeAssumption
<1>4. f \in Bijection(list, slots)
  <2>1. f \in [list -> slots]
    OBVIOUS
  <2>2. \A r, u \in list : f[r] = f[u] => r = u
    BY <1>2
  <2>3. \A s \in slots : \E r \in list : f[r] = s
    OBVIOUS
  <2> HIDE DEF f, slots
  <2> QED BY <2>1, <2>2, <2>3 DEF Bijection, Injection, Surjection, IsInjective
<1>5. IsFiniteSet(list) /\ Cardinality(slots) = Cardinality(list)
  <2>1. f \in Injection(list, slots) /\ ExistsBijection(list, slots)
    BY <1>4 DEF Bijection, ExistsBijection
  <2> HIDE DEF f, slots
  <2>2. IsFiniteSet(list)
    BY <1>3, <2>1, FS_Injection
  <2> QED BY <2>1, <2>2, FS_Bijection
<1>6. FreeSlots(pack) \in SUBSET Slots /\ IsFiniteSet(FreeSlots(pack))
  BY FS_Subset, TradeAssumption DEF FreeSlots
<1>7. FreeSlots(GiveAway(pack, list)) = FreeSlots(pack) \cup slots
  BY <1>1 DEF FreeSlots, GiveAway, AllSlots
<1>8. FreeSlots(pack) \cap slots = {}
  BY <1>1, TradeAssumption DEF FreeSlots, Fresh
<1> HIDE DEF slots, f
<1>9. Cardinality(FreeSlots(pack) \cup slots) = Cardinality(FreeSlots(pack)) + Cardinality(slots)
  <2>1. Cardinality(FreeSlots(pack) \cup slots)
           = Cardinality(FreeSlots(pack)) + Cardinality(slots) - Cardinality(FreeSlots(pack) \cap slots)
    BY <1>3, <1>6, FS_Union
  <2>2. Cardinality(FreeSlots(pack) \cap slots) = 0
    BY <1>8, FS_EmptySet
  <2>3. Cardinality(FreeSlots(pack)) \in Nat /\ Cardinality(slots) \in Nat
    BY <1>3, <1>6, FS_CardinalityType
  <2> QED BY <2>1, <2>2, <2>3
<1> QED BY <1>5, <1>7, <1>9

\* With a free slot for each, AddItem_Ex places every item.
LEMMA ReceivesAll ==
    ASSUME NEW pack \in Backpacks, NEW list, IsFiniteSet(list),
           Cardinality(list) <= Cardinality(FreeSlots(pack)),
           NEW got \in Received(pack, list), NEW r \in list
    PROVE  Holds(got, r.IID)
<1> DEFINE new == {s \in FreeSlots(pack) : got[s] # None}
<1>1. /\ \/ Cardinality(new) = Cardinality(list)
         \/ new = FreeSlots(pack) /\ Cardinality(new) < Cardinality(list)
      /\ \E g \in [new -> list] : /\ \A s, u \in new : g[s] = g[u] => s = u
                                  /\ \A s \in new : got[s] = g[s].IID
  BY DEF Received
<1>2. new \subseteq Slots
  BY DEF FreeSlots
<1>3. Cardinality(list) \in Nat /\ Cardinality(FreeSlots(pack)) \in Nat
  <2>1. FreeSlots(pack) \in SUBSET Slots
    BY DEF FreeSlots
  <2> QED BY <2>1, FS_Subset, FS_CardinalityType, TradeAssumption
<1> HIDE DEF new
<1>4. Cardinality(new) = Cardinality(list)
  BY <1>1, <1>3
<1>5. PICK g \in [new -> list] : /\ \A s, u \in new : g[s] = g[u] => s = u
                                /\ \A s \in new : got[s] = g[s].IID
  BY <1>1
<1>6. g \in Injection(new, list)
  BY <1>5 DEF Injection, IsInjective
<1>7. g \in Surjection(new, list)
  BY <1>4, <1>6, FS_Injection
<1>8. PICK s \in new : g[s] = r
  BY <1>7 DEF Surjection
<1> QED BY <1>2, <1>5, <1>8 DEF Holds

LEMMA ExchangeDelivers ==
    ASSUME IInv, NEW t \in TradeTransaction,
           NEW o \in Players, NEW q \in Players, o # q,
           t.player[0].selfPlayerID = o, t.player[1].selfPlayerID = q,
           HasRoom(o, t.player[0], t.player[1]), HasRoom(q, t.player[1], t.player[0]),
           Exchange(t),
           Fresh(inventory[o], t.player[0].itemList), Fresh(inventory[q], t.player[1].itemList),
           Plain(t.player[0].itemList), Plain(t.player[1].itemList)
    PROVE  /\ \A r \in t.player[0].itemList : Holds(inventory'[q], r.IID)
           /\ \A r \in t.player[1].itemList : Holds(inventory'[o], r.IID)
<1>1. PICK a \in SUBSET OfferedItem, b \in SUBSET OfferedItem :
         a = t.player[0].itemList /\ b = t.player[1].itemList
  BY DEF TradeTransaction, TradePlayerData
<1>2. PICK left : left = [inventory EXCEPT ![o] = GiveAway(@, a), ![q] = GiveAway(@, b)]
  OBVIOUS
<1>3. inventory \in [Players -> Backpacks] /\ inventory[o] \in Backpacks /\ inventory[q] \in Backpacks
  BY DEF IInv, TypeOK
<1>4. \A pack \in Backpacks : \A l : GiveAway(pack, l) \in Backpacks
  BY DEF GiveAway, Backpacks
<1>5. /\ left \in [Players -> Backpacks]
      /\ left[o] = GiveAway(inventory[o], a) /\ left[q] = GiveAway(inventory[q], b)
  BY <1>2, <1>3, <1>4
<1>6. PICK packO \in Received(left[o], b) :
         \E packQ \in Received([left EXCEPT ![o] = packO][q], a) :
            inventory' = [[left EXCEPT ![o] = packO] EXCEPT ![q] = packQ]
  BY <1>1, <1>2 DEF Exchange
<1>7. PICK packQ \in Received(left[q], a) :
         inventory' = [[left EXCEPT ![o] = packO] EXCEPT ![q] = packQ]
  BY <1>5, <1>6
<1>8. inventory'[o] = packO /\ inventory'[q] = packQ
  BY <1>5, <1>7
<1>9. /\ IsFiniteSet(a) /\ IsFiniteSet(b)
      /\ Cardinality(FreeSlots(left[o])) = Cardinality(FreeSlots(inventory[o])) + Cardinality(a)
      /\ Cardinality(FreeSlots(left[q])) = Cardinality(FreeSlots(inventory[q])) + Cardinality(b)
  BY <1>1, <1>3, <1>5, GiveAwayFrees
<1>10. /\ Cardinality(FreeSlots(inventory[o])) + Cardinality(a) >= Cardinality(b)
       /\ Cardinality(FreeSlots(inventory[q])) + Cardinality(b) >= Cardinality(a)
  BY <1>1 DEF HasRoom
<1>11. /\ Cardinality(b) <= Cardinality(FreeSlots(left[o]))
       /\ Cardinality(a) <= Cardinality(FreeSlots(left[q]))
  BY <1>9, <1>10
<1>12. left[o] \in Backpacks /\ left[q] \in Backpacks
  BY <1>5
<1>13. \A r \in b : Holds(packO, r.IID)
  BY <1>9, <1>11, <1>12, ReceivesAll
<1>14. \A r \in a : Holds(packQ, r.IID)
  BY <1>9, <1>11, <1>12, ReceivesAll
<1> QED BY <1>1, <1>8, <1>13, <1>14

\* Accepting leaves the name and the offer of a side alone.
LEMMA AcceptedData ==
    ASSUME NEW d \in TradePlayerData
    PROVE  /\ [d EXCEPT !.accepted = TRUE] \in TradePlayerData
           /\ [d EXCEPT !.accepted = TRUE].selfPlayerID = d.selfPlayerID
           /\ [d EXCEPT !.accepted = TRUE].itemList = d.itemList
BY DEF TradePlayerData

LEMMA AcceptDelivers ==
    ASSUME IInv, NEW p \in present, TradeAccept(p), NEW e, e = tradeList[activeLootID[p]],
           ~tradeList'[activeLootID[p]].listed,
           e.player[0].selfPlayerID # e.player[1].selfPlayerID, OffersFresh(e),
           PlainOffers(e)
    PROVE  \A i \in {0, 1} : \A r \in e.player[i].itemList :
              Holds(inventory'[e.player[1 - i].selfPlayerID], r.IID)
<1>1. PICK id \in Players : id = activeLootID[p] /\ e = tradeList[id]
  BY OwnTransaction DEF TradeAccept
<1>2. p \in Players /\ e \in TradeTransaction /\ e.listed /\ IsTrader(e, p)
  BY <1>1, OwnTransaction DEF TradeAccept
<1>3. PICK i \in {0, 1} : i = Side(e, p) /\ e.player[i].selfPlayerID = p
  BY <1>2, SideType
<1>4. PICK d : d = [e.player[i] EXCEPT !.accepted = TRUE]
  OBVIOUS
<1>5. PICK t : t = [e EXCEPT !.player[i] = d]
  OBVIOUS
<1>6. /\ d \in TradePlayerData /\ d.selfPlayerID = e.player[i].selfPlayerID
      /\ d.itemList = e.player[i].itemList
  <2>1. e.player[i] \in TradePlayerData
    BY <1>2, <1>3 DEF TradeTransaction
  <2> QED BY <1>4, <2>1, AcceptedData
<1>7. /\ t \in TradeTransaction /\ t.listed
      /\ \A j \in {0, 1} : t.player[j].selfPlayerID = e.player[j].selfPlayerID
  BY <1>2, <1>3, <1>5, <1>6, SideUpdate
<1>8. \A j \in {0, 1} : t.player[j].itemList = e.player[j].itemList
  BY <1>2, <1>3, <1>5, <1>6 DEF TradeTransaction
<1>9. \/ /\ Covered(t.player[0].selfPlayerID, t.player[0], t.player[1])
         /\ Covered(t.player[1].selfPlayerID, t.player[1], t.player[0])
         /\ Exchange(t)
      \/ tradeList' = [tradeList EXCEPT ![id] = t]
  <2>1. [e EXCEPT !.player[i].accepted = TRUE] = t
    BY <1>2, <1>3, <1>4, <1>5, DataUpdates
  <2> QED BY <1>1, <1>3, <2>1 DEF TradeAccept
<1>10. tradeList' # [tradeList EXCEPT ![id] = t]
  BY <1>1, <1>7 DEF IInv, TypeOK
<1>11. PICK o \in Players, q \in Players :
          /\ o = e.player[0].selfPlayerID /\ q = e.player[1].selfPlayerID /\ o # q
  <2>1. e.player[0].selfPlayerID = None <=> e.player[1].selfPlayerID = None
    BY <1>1 DEF IInv, WellFormed
  <2>2. e.player[0].selfPlayerID \in Players \cup {None} /\ e.player[1].selfPlayerID \in Players \cup {None}
    BY <1>2 DEF TradeTransaction, TradePlayerData
  <2> QED BY <2>1, <2>2
<1>12. /\ Fresh(inventory[o], t.player[0].itemList)
       /\ Fresh(inventory[q], t.player[1].itemList)
       /\ Plain(t.player[0].itemList) /\ Plain(t.player[1].itemList)
  BY <1>8, <1>11 DEF OffersFresh, Fresh, PlainOffers, Plain
<1>13. HasRoom(o, t.player[0], t.player[1]) /\ HasRoom(q, t.player[1], t.player[0]) /\ Exchange(t)
  BY <1>7, <1>9, <1>10, <1>11 DEF Covered
<1>14. /\ \A r \in t.player[0].itemList : Holds(inventory'[q], r.IID)
       /\ \A r \in t.player[1].itemList : Holds(inventory'[o], r.IID)
  BY <1>7, <1>11, <1>12, <1>13, ExchangeDelivers
<1>15. \A r \in e.player[0].itemList : Holds(inventory'[e.player[1 - 0].selfPlayerID], r.IID)
  BY <1>8, <1>11, <1>14
<1>16. \A r \in e.player[1].itemList : Holds(inventory'[e.player[1 - 1].selfPlayerID], r.IID)
  BY <1>8, <1>11, <1>14
<1> QED BY <1>15, <1>16

(***************************************************************************)
(* A trade whose offers were not touched, and name slots of the backpack   *)
(* once, hands every item over, however full the containers are: the room  *)
(* trade.accept computes is there when the items are added.                *)
(***************************************************************************)
THEOREM TradeDelivers == Spec => Delivers
<1> DEFINE A == \A p \in present :
                  LET t == tradeList[activeLootID[p]]
                  IN  /\ TradeAccept(p)
                      /\ ~tradeList'[activeLootID[p]].listed
                      /\ t.player[0].selfPlayerID # t.player[1].selfPlayerID
                      /\ OffersFresh(t)
                      /\ PlainOffers(t)
                      => \A i \in {0, 1} : \A r \in t.player[i].itemList :
                            Holds(inventory'[t.player[1 - i].selfPlayerID], r.IID)
<1>1. IInv /\ [Next]_vars => [A]_vars
  BY AcceptDelivers
<1>2. Delivers <=> [][A]_vars
  BY DEF Delivers
<1> HIDE DEF A
<1> QED BY <1>1, <1>2, TradeInvariant, PTL DEF Spec
=============================================================================
