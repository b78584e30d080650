---------------------------- MODULE AuctionProofs ----------------------------
(***************************************************************************)
(* Proofs about the auction house, for any players, lots, prices and       *)
(* bounds: its types, that no timer outlives its auction, and that it      *)
(* implements AuctionPromise.                                              *)
(***************************************************************************)
EXTENDS Auction, TLAPS

(***************************************************************************)
(* The inductive invariant, by what it is about.                           *)
(***************************************************************************)

\* The auctions in the store are those an id was handed out for, and the list
\* names no other.
Stored ==
    /\ listed \subseteq DOMAIN item
    /\ \A id \in DOMAIN item : id < nextId

\* A task that is to expire an auction captured its lot and its seller.
TimersAgree ==
    \A id \in DOMAIN mTimers :
       /\ id \in DOMAIN item
       /\ mTimers[id].kind = "expire" =>
             /\ item[id].completed
             /\ mTimers[id].copy.lot = item[id].lot
             /\ mTimers[id].copy.seller = item[id].seller

NoDuplicates(list) == \A i, j \in DOMAIN list : list[i] = list[j] => i = j

Held(p) == box[p] \cup pack[p] \cup Entries(buyback[p])

\* No two auctions sell the same lot, and nobody holds a lot that is on sale.
SoldOnce ==
    /\ \A i, j \in DOMAIN item : item[i].lot = item[j].lot => i = j
    /\ \A i \in DOMAIN item, p \in Players : item[i].lot \notin Held(p)

\* No two players hold the same lot, and each holds it in one place.
HeldOnce ==
    /\ \A p, q \in Players : p # q => Held(p) \cap Held(q) = {}
    /\ \A p \in Players :
          /\ box[p] \cap pack[p] = {}
          /\ (box[p] \cup pack[p]) \cap Entries(buyback[p]) = {}
          /\ NoDuplicates(buyback[p])

IInv == TypeOK /\ Stored /\ TimersAgree /\ SoldOnce /\ HeldOnce

-----------------------------------------------------------------------------
(* The operators the model is built from.                                  *)

LEMMA ReadType ==
    ASSUME NEW it \in AuctionHouseItem
    PROVE  /\ ReadEntity(it) \in AuctionHouseItem
           /\ ReadEntity(it).lot = it.lot /\ ReadEntity(it).seller = it.seller
           /\ ReadEntity(it).buyItNow = it.buyItNow /\ ReadEntity(it).end = it.end
           /\ (ReadEntity(it).completed <=> it.completed) /\ ReadEntity(it).bids = <<>>
<1>1. <<>> \in Seq(Bids)
  OBVIOUS
<1>2. \A bids \in Seq(Bids) : [it EXCEPT !.bids = bids] \in AuctionHouseItem
  BY DEF AuctionHouseItem
<1> QED BY <1>1, <1>2 DEF ReadEntity, AuctionHouseItem

\* A bid put into a copy that has none.
LEMMA FirstBidType ==
    ASSUME NEW it \in AuctionHouseItem, it.bids = <<>>, NEW p \in Players, NEW price \in Nat
    PROVE  LET bid == [it EXCEPT !.bids = WithBid(@, p, price)]
           IN /\ bid \in AuctionHouseItem
              /\ bid.lot = it.lot /\ bid.seller = it.seller /\ bid.buyItNow = it.buyItNow
              /\ (bid.completed <=> it.completed)
<1>1. WithBid(<<>>, p, price) = Append(<<>>, [buyer |-> p, price |-> price])
  <2>1. {i \in DOMAIN <<>> : <<>>[i].buyer = p} = {}
    OBVIOUS
  <2> QED BY <2>1 DEF WithBid
<1>2. [buyer |-> p, price |-> price] \in Bids
  BY DEF Bids
<1>3. WithBid(it.bids, p, price) \in Seq(Bids)
  <2>1. \A b \in Bids : Append(<<>>, b) \in Seq(Bids)
    OBVIOUS
  <2>2. WithBid(it.bids, p, price) = WithBid(<<>>, p, price)
    OBVIOUS
  <2> QED BY <1>1, <1>2, <2>1, <2>2
<1> QED BY <1>3 DEF AuctionHouseItem

LEMMA CompletedType ==
    ASSUME NEW it \in AuctionHouseItem
    PROVE  LET done == [it EXCEPT !.completed = TRUE]
           IN /\ done \in AuctionHouseItem /\ done.completed
              /\ done.lot = it.lot /\ done.seller = it.seller /\ done.buyItNow = it.buyItNow
BY DEF AuctionHouseItem

LEMMA TaskTypes ==
    ASSUME NEW it \in AuctionHouseItem
    PROVE  /\ CompleteAt(it) \in Tasks /\ CompleteAt(it).kind = "complete"
           /\ DanglingAt(it) \in Tasks /\ DanglingAt(it).kind = "dangling"
           /\ ExpireAt(it) \in Tasks /\ ExpireAt(it).kind = "expire" /\ ExpireAt(it).copy = it
<1>1. it.end \in Nat /\ it.end + MaxAuctionExpiredHours \in Nat
  BY AuctionAssumption DEF AuctionHouseItem
<1> HIDE DEF AuctionHouseItem
<1> QED BY <1>1 DEF Tasks, CompleteAt, DanglingAt, ExpireAt

LEMMA AsIntType == \A n \in Int : AsInt(n) \in Ints /\ AsInt(n) \in Int
<1> SUFFICES ASSUME NEW n \in Int PROVE AsInt(n) \in Ints /\ AsInt(n) \in Int
  OBVIOUS
<1>1. PICK m, k : m = 2 * IntLimit /\ k = n + IntLimit
  OBVIOUS
<1>2. IntLimit \in Nat /\ m \in Nat /\ m > 0 /\ k \in Int
  BY <1>1, AuctionAssumption
<1>3. k % m \in 0..(m - 1)
  BY <1>2
<1>4. PICK rest \in 0..(m - 1) : rest = k % m
  BY <1>3
<1>5. AsInt(n) = rest - IntLimit
  BY <1>1, <1>4 DEF AsInt
<1> QED BY <1>1, <1>2, <1>4, <1>5 DEF Ints

\* A commission is an int, whatever the price.
LEMMA CommissionType ==
    ASSUME NEW price \in Nat, NEW hours \in Nat, NEW fee \in CommissionOf(price, hours)
    PROVE  fee \in Int
<1>1. \A a, b \in Nat : a * b \in Nat
  OBVIOUS
<1>2. \A a \in Nat : a \div 100 \in Nat
  OBVIOUS
<1>3. PICK product : product = (price * CommissionPerHour * hours) \div 100
  OBVIOUS
<1>4. product \in Nat
  BY <1>1, <1>2, <1>3, AuctionAssumption
<1>5. CommissionOf(price, hours) = IF product < LongLimit THEN {AsInt(product)} ELSE {0, -1}
  BY <1>3 DEF CommissionOf
<1>6. AsInt(product) \in Int
  BY <1>4, AsIntType
<1> QED BY <1>5, <1>6

\* Taking an entry out of a list leaves the others.
LEMMA Erased ==
    ASSUME NEW list \in Seq(Lots), NEW i \in DOMAIN list
    PROVE  /\ Erase(list, i) \in Seq(Lots) /\ Len(Erase(list, i)) <= Len(list)
           /\ Entries(list) = Entries(Erase(list, i)) \cup {list[i]}
           /\ NoDuplicates(list) =>
                 NoDuplicates(Erase(list, i)) /\ list[i] \notin Entries(Erase(list, i))
<1> DEFINE e == Erase(list, i)
<1>1. DOMAIN list = 1..Len(list) /\ Len(list) \in Nat /\ i \in 1..Len(list)
  OBVIOUS
<1>2. Len(list) - 1 \in Nat /\ \A j \in 1..Len(list) : list[j] \in Lots
  BY <1>1
<1>3. DOMAIN e = 1..(Len(list) - 1) /\ \A j \in DOMAIN e : e[j] = IF j < i THEN list[j] ELSE list[j + 1]
  BY DEF Erase
<1>4. e \in Seq(Lots) /\ Len(e) <= Len(list)
  <2>1. e = [j \in 1..(Len(list) - 1) |-> IF j < i THEN list[j] ELSE list[j + 1]]
    BY DEF Erase
  <2>2. \A j \in 1..(Len(list) - 1) : (IF j < i THEN list[j] ELSE list[j + 1]) \in Lots
    BY <1>1, <1>2
  <2> HIDE DEF e
  <2>3. e \in [1..(Len(list) - 1) -> Lots]
    BY <2>1, <2>2
  <2>4. e \in Seq(Lots) /\ Len(e) = Len(list) - 1
    BY <1>2, <2>3
  <2> QED BY <1>1, <2>4
<1> HIDE DEF e
<1>5. \A j \in DOMAIN e : e[j] \in Entries(list)
  BY <1>1, <1>3 DEF Entries
<1>6. \A j \in DOMAIN list : j # i => list[j] \in Entries(e)
  <2> SUFFICES ASSUME NEW j \in DOMAIN list, j # i PROVE \E k \in DOMAIN e : e[k] = list[j]
    BY DEF Entries
  <2>1. CASE j < i
    BY <1>1, <1>3, <2>1
  <2>2. CASE j > i
    <3>1. j - 1 \in DOMAIN e /\ ~(j - 1 < i) /\ (j - 1) + 1 = j
      BY <1>1, <1>3, <2>2
    <3> QED BY <1>3, <3>1
  <2> QED BY <1>1, <2>1, <2>2
<1>7. Entries(list) = Entries(e) \cup {list[i]}
  BY <1>5, <1>6 DEF Entries
<1>8. ASSUME NoDuplicates(list) PROVE NoDuplicates(e) /\ list[i] \notin Entries(e)
  <2>1. ASSUME NEW j \in DOMAIN e
        PROVE  LET k == IF j < i THEN j ELSE j + 1 IN k \in DOMAIN list /\ k # i /\ e[j] = list[k]
    BY <1>1, <1>3
  <2>2. list[i] \notin Entries(e)
    BY <1>8, <2>1 DEF NoDuplicates, Entries
  <2>3. ASSUME NEW j \in DOMAIN e, NEW k \in DOMAIN e, e[j] = e[k] PROVE j = k
    <3>1. (IF j < i THEN j ELSE j + 1) = (IF k < i THEN k ELSE k + 1)
      BY <1>8, <2>1, <2>3 DEF NoDuplicates
    <3> QED BY <1>1, <1>3, <3>1
  <2> QED BY <2>2, <2>3 DEF NoDuplicates
<1> QED BY <1>4, <1>7, <1>8 DEF e

\* A lot that joins the buyback list may push the oldest one out.
LEMMA BoughtBack ==
    ASSUME NEW list \in Seq(Lots), NEW l \in Lots, NoDuplicates(list), l \notin Entries(list)
    PROVE  /\ AddBuyBack(list, l) \in Seq(Lots)
           /\ NoDuplicates(AddBuyBack(list, l))
           /\ Len(list) <= BuybackLimit => Len(AddBuyBack(list, l)) <= BuybackLimit
           /\ \/ Entries(AddBuyBack(list, l)) = Entries(list) \cup {l}
              \/ \E old \in Entries(list) :
                    Entries(AddBuyBack(list, l)) = (Entries(list) \ {old}) \cup {l}
<1>1. ASSUME NEW s \in Seq(Lots), NoDuplicates(s), l \notin Entries(s)
      PROVE  /\ Append(s, l) \in Seq(Lots) /\ NoDuplicates(Append(s, l))
             /\ Entries(Append(s, l)) = Entries(s) \cup {l}
             /\ Len(Append(s, l)) = Len(s) + 1
  <2>1. /\ DOMAIN Append(s, l) = 1..(Len(s) + 1) /\ DOMAIN s = 1..Len(s) /\ Len(s) \in Nat
        /\ Append(s, l)[Len(s) + 1] = l /\ \A i \in 1..Len(s) : Append(s, l)[i] = s[i]
    OBVIOUS
  <2>2. Append(s, l) \in Seq(Lots) /\ Len(Append(s, l)) = Len(s) + 1
    OBVIOUS
  <2> DEFINE a == Append(s, l)
  <2> HIDE DEF a
  <2>3. \A i \in DOMAIN a : i \in DOMAIN s \/ i = Len(s) + 1
    BY <2>1 DEF a
  <2>4. Entries(a) = Entries(s) \cup {l}
    <3>1. \A i \in DOMAIN s : i \in DOMAIN a /\ a[i] = s[i]
      BY <2>1 DEF a
    <3>2. Len(s) + 1 \in DOMAIN a /\ a[Len(s) + 1] = l
      BY <2>1 DEF a
    <3> QED BY <2>3, <3>1, <3>2 DEF Entries
  <2>5. NoDuplicates(a)
    BY <1>1, <2>1, <2>3 DEF NoDuplicates, Entries, a
  <2> QED BY <2>2, <2>4, <2>5 DEF a
<1>2. CASE Len(list) >= BuybackLimit
  <2>1. /\ Tail(list) \in Seq(Lots) /\ DOMAIN Tail(list) = 1..(Len(list) - 1)
        /\ DOMAIN list = 1..Len(list) /\ Len(list) \in Nat /\ Len(list) > 0
        /\ \A i \in 1..(Len(list) - 1) : Tail(list)[i] = list[i + 1]
    BY <1>2, AuctionAssumption
  <2> DEFINE t == Tail(list)
  <2> HIDE DEF t
  <2>2. NoDuplicates(t)
    BY <2>1 DEF NoDuplicates, t
  <2>3. 1 \in DOMAIN list /\ list[1] \in Entries(list)
    BY <2>1 DEF Entries
  <2>4. Entries(t) = Entries(list) \ {list[1]}
    <3>1. \A i \in DOMAIN t : i + 1 \in DOMAIN list /\ i + 1 # 1 /\ t[i] = list[i + 1]
      BY <2>1 DEF t
    <3>2. \A i \in DOMAIN list : i # 1 => i - 1 \in DOMAIN t /\ t[i - 1] = list[i]
      BY <2>1 DEF t
    <3> QED BY <2>3, <3>1, <3>2 DEF Entries, NoDuplicates
  <2>5. AddBuyBack(list, l) = Append(t, l)
    BY <1>2 DEF AddBuyBack, t
  <2>6. t \in Seq(Lots) /\ l \notin Entries(t)
    BY <2>1, <2>4 DEF t
  <2>7. Len(t) + 1 = Len(list)
    BY <2>1 DEF t
  <2>8. Len(Append(t, l)) = Len(list)
    BY <1>1, <2>2, <2>6, <2>7
  <2> QED BY <1>1, <2>2, <2>3, <2>4, <2>5, <2>6, <2>8
<1>3. CASE ~(Len(list) >= BuybackLimit)
  <2>1. AddBuyBack(list, l) = Append(list, l)
    BY <1>3 DEF AddBuyBack
  <2>2. Len(list) + 1 <= BuybackLimit
    BY <1>3, AuctionAssumption
  <2> QED BY <1>1, <2>1, <2>2
<1> QED BY <1>2, <1>3

-----------------------------------------------------------------------------
(* Every step keeps the invariant.                                         *)

LEMMA InvHolds == Init => IInv
<1> SUFFICES ASSUME Init PROVE IInv
  OBVIOUS
<1>1. DOMAIN item = {} /\ DOMAIN mTimers = {} /\ listed = {} /\ nextId = 1
  BY DEF Init
<1>2. \A p \in Players : buyback[p] = <<>> /\ DOMAIN buyback[p] = {} /\ Entries(buyback[p]) = {}
  BY DEF Init, Entries
<1>3. \A p \in Players : Held(p) = {l \in Lots : Owner[l] = p}
  BY <1>2 DEF Init, Held
<1>4. TypeOK
  <2>1. buyback \in [Players -> Seq(Lots)]
    <3>1. <<>> \in Seq(Lots)
      OBVIOUS
    <3> QED BY <3>1 DEF Init
  <2>2. /\ box \in [Players -> SUBSET Lots] /\ pack \in [Players -> SUBSET Lots]
        /\ now \in 0..MaxTime /\ loading \in 0..MaxLoads
    BY AuctionAssumption DEF Init
  <2>5. copper \in [Players -> Ints]
    <3>1. Purse \in Ints
      BY AuctionAssumption DEF Ints
    <3> QED BY <3>1 DEF Init
  <2>6. \A p \in Players : Len(buyback[p]) <= BuybackLimit
    <3>1. Len(<<>>) <= BuybackLimit
      BY AuctionAssumption
    <3> QED BY <1>2, <3>1
  <2>3. nextId \in 1..(MaxAuctions + 1)
    BY <1>1, AuctionAssumption
  <2>4. up \in BOOLEAN /\ master \in BOOLEAN /\ crashed \in BOOLEAN
    BY DEF Init
  <2> QED BY <1>1, <2>1, <2>2, <2>3, <2>4, <2>5, <2>6 DEF TypeOK
<1>5. Stored /\ TimersAgree /\ SoldOnce
  BY <1>1 DEF Stored, TimersAgree, SoldOnce
<1>6. HeldOnce
  BY <1>2, <1>3 DEF HeldOnce, NoDuplicates, Init
<1> QED BY <1>4, <1>5, <1>6 DEF IInv

\* A step that moves no lot.
LEMMA SameGoods ==
    ASSUME IInv, UNCHANGED <<box, pack, buyback>>, DOMAIN item' = DOMAIN item,
           \A id \in DOMAIN item : item'[id].lot = item[id].lot
    PROVE  SoldOnce' /\ HeldOnce' /\ \A p : Held(p)' = Held(p)
<1>1. \A p : Held(p)' = Held(p)
  BY DEF Held
<1>2. SoldOnce'
  BY <1>1 DEF IInv, SoldOnce
<1>3. HeldOnce'
  BY <1>1 DEF IInv, HeldOnce
<1> QED BY <1>1, <1>2, <1>3

LEMMA MoveToBoxHeld ==
    ASSUME IInv, NEW p \in Players, NEW l \in Lots, MoveToBox(p, l), NEW q \in Players
    PROVE  Held(q)' = Held(q)
BY DEF IInv, TypeOK, MoveToBox, Held

LEMMA MoveToBoxKeeps ==
    ASSUME IInv, NEW p \in Players, NEW l \in Lots, MoveToBox(p, l) PROVE IInv'
<1>1. pack' \in [Players -> SUBSET Lots] /\ box' \in [Players -> SUBSET Lots]
  BY DEF IInv, TypeOK, MoveToBox
<1>2. TypeOK'
  BY <1>1 DEF IInv, TypeOK, MoveToBox, redis
<1>3. Stored' /\ TimersAgree'
  BY DEF IInv, Stored, TimersAgree, MoveToBox, redis
<1>4. SoldOnce'
  BY MoveToBoxHeld DEF IInv, SoldOnce, MoveToBox, redis
<1>5. \A q \in Players : /\ box'[q] \cap pack'[q] = {} /\ buyback'[q] = buyback[q]
                         /\ (box'[q] \cup pack'[q]) = (box[q] \cup pack[q])
  BY DEF IInv, TypeOK, HeldOnce, MoveToBox
<1>6. HeldOnce'
  BY <1>5, MoveToBoxHeld DEF IInv, HeldOnce
<1> QED BY <1>2, <1>3, <1>4, <1>6 DEF IInv

LEMMA BuyBackHeld ==
    ASSUME IInv, NEW p \in Players, NEW i, BuyBack(p, i)
    PROVE  /\ \A q \in Players : Held(q)' = Held(q)
           /\ pack' = [pack EXCEPT ![p] = @ \cup {buyback[p][i]}] /\ buyback[p][i] \in Lots
           /\ buyback' = [buyback EXCEPT ![p] = Erase(buyback[p], i)]
           /\ Erase(buyback[p], i) \in Seq(Lots)
           /\ Entries(buyback[p]) = Entries(Erase(buyback[p], i)) \cup {buyback[p][i]}
           /\ NoDuplicates(Erase(buyback[p], i)) /\ buyback[p][i] \notin Entries(Erase(buyback[p], i))
           /\ box' = box /\ Len(Erase(buyback[p], i)) <= BuybackLimit
<1>1. /\ buyback[p] \in Seq(Lots) /\ i \in DOMAIN buyback[p] /\ NoDuplicates(buyback[p])
      /\ Len(buyback[p]) <= BuybackLimit
  BY DEF IInv, TypeOK, HeldOnce, BuyBack
<1>2. /\ Erase(buyback[p], i) \in Seq(Lots) /\ buyback[p][i] \in Lots
      /\ Len(Erase(buyback[p], i)) <= Len(buyback[p])
      /\ Entries(buyback[p]) = Entries(Erase(buyback[p], i)) \cup {buyback[p][i]}
      /\ NoDuplicates(Erase(buyback[p], i)) /\ buyback[p][i] \notin Entries(Erase(buyback[p], i))
  BY <1>1, Erased
<1>3. /\ pack' = [pack EXCEPT ![p] = @ \cup {buyback[p][i]}]
      /\ buyback' = [buyback EXCEPT ![p] = Erase(buyback[p], i)] /\ box' = box
      /\ pack \in [Players -> SUBSET Lots] /\ buyback \in [Players -> Seq(Lots)]
  BY DEF BuyBack, IInv, TypeOK
<1>4. \A q \in Players : Held(q)' = Held(q)
  <2> SUFFICES ASSUME NEW q \in Players PROVE Held(q)' = Held(q)
    OBVIOUS
  <2>1. CASE q = p
    <3>1. pack'[p] = pack[p] \cup {buyback[p][i]} /\ buyback'[p] = Erase(buyback[p], i)
      BY <1>3
    <3> QED BY <1>2, <1>3, <2>1, <3>1 DEF Held
  <2>2. CASE q # p
    BY <1>3, <2>2 DEF Held
  <2> QED BY <2>1, <2>2
<1>5. Len(Erase(buyback[p], i)) <= BuybackLimit
  <2>1. Len(Erase(buyback[p], i)) \in Nat /\ Len(buyback[p]) \in Nat /\ BuybackLimit \in Nat
    BY <1>1, <1>2, AuctionAssumption
  <2> QED BY <1>1, <1>2, <2>1
<1> QED BY <1>2, <1>3, <1>4, <1>5

LEMMA BuyBackKeeps == ASSUME IInv, NEW p \in Players, NEW i, BuyBack(p, i) PROVE IInv'
<1> DEFINE l == buyback[p][i]
           e == Erase(buyback[p], i)
<1>1. /\ \A q \in Players : Held(q)' = Held(q)
      /\ pack' = [pack EXCEPT ![p] = @ \cup {l}] /\ l \in Lots
      /\ buyback' = [buyback EXCEPT ![p] = e] /\ e \in Seq(Lots)
      /\ Entries(buyback[p]) = Entries(e) \cup {l} /\ NoDuplicates(e) /\ l \notin Entries(e)
      /\ box' = box /\ Len(e) <= BuybackLimit
  BY BuyBackHeld
<1>6. Value[l] <= copper[p] /\ copper' = [copper EXCEPT ![p] = @ - Value[l]]
  BY DEF BuyBack
<1> HIDE DEF l, e
<1>2. TypeOK'
  <2>1. pack' \in [Players -> SUBSET Lots] /\ buyback' \in [Players -> Seq(Lots)]
    BY <1>1 DEF IInv, TypeOK
  <2>2. \A q \in Players : Len(buyback'[q]) <= BuybackLimit
    BY <1>1 DEF IInv, TypeOK
  <2>3. copper' \in [Players -> Ints]
    <3>1. copper \in [Players -> Ints] /\ Value[l] \in Nat
      BY <1>1, AuctionAssumption DEF IInv, TypeOK
    <3>2. copper[p] - Value[l] \in Ints
      BY <1>6, <3>1, AuctionAssumption DEF Ints
    <3> QED BY <1>6, <3>1, <3>2
  <2> QED BY <2>1, <2>2, <2>3 DEF IInv, TypeOK, BuyBack, redis
<1>3. Stored' /\ TimersAgree'
  BY DEF IInv, Stored, TimersAgree, BuyBack, redis
<1>4. SoldOnce'
  BY <1>1 DEF IInv, SoldOnce, BuyBack, redis
<1>5. HeldOnce'
  <2>1. \A q, r \in Players : q # r => Held(q)' \cap Held(r)' = {}
    BY <1>1 DEF IInv, HeldOnce
  <2>2. ASSUME NEW q \in Players
        PROVE  /\ box'[q] \cap pack'[q] = {}
               /\ (box'[q] \cup pack'[q]) \cap Entries(buyback'[q]) = {}
               /\ NoDuplicates(buyback'[q])
    <3>1. CASE q # p
      BY <1>1, <3>1 DEF IInv, TypeOK, HeldOnce
    <3>2. CASE q = p
      <4>1. pack'[p] = pack[p] \cup {l} /\ buyback'[p] = e /\ box'[p] = box[p]
        BY <1>1 DEF IInv, TypeOK
      <4>2. box[p] \cap pack[p] = {} /\ (box[p] \cup pack[p]) \cap (Entries(e) \cup {l}) = {}
        BY <1>1 DEF IInv, HeldOnce
      <4> QED BY <1>1, <3>2, <4>1, <4>2
    <3> QED BY <3>1, <3>2
  <2> QED BY <2>1, <2>2 DEF HeldOnce
<1> QED BY <1>2, <1>3, <1>4, <1>5 DEF IInv

\* The auction ah.auction makes.
Offered(p, l, reserve, buyItNow, hours) ==
    [lot |-> l, seller |-> p, reserve |-> reserve, buyItNow |-> buyItNow,
     end |-> now + hours, completed |-> FALSE, bids |-> <<>>]

LEMMA OfferMakes ==
    ASSUME IInv, NEW p \in Players, NEW l \in Lots, NEW r \in Prices, NEW b \in Prices,
           NEW h \in Hours, AuctionHandler(p, l, r, b, h)
    PROVE  /\ Offered(p, l, r, b, h) \in AuctionHouseItem
           /\ Offered(p, l, r, b, h).lot = l /\ Offered(p, l, r, b, h).seller = p
           /\ Offered(p, l, r, b, h).buyItNow = b
           /\ item' = With(item, nextId, Offered(p, l, r, b, h))
           /\ nextId \in Ids /\ nextId \notin DOMAIN item
           /\ \E fee \in Commissions :
                 fee \in Int /\ fee <= copper[p] /\ copper' = [copper EXCEPT ![p] = AsInt(@ - fee)]
           /\ \A q \in Players : Held(q)' = IF q = p THEN Held(p) \ {l} ELSE Held(q)
           /\ l \in box[p] /\ box' = [box EXCEPT ![p] = @ \ {l}] /\ pack' = pack /\ buyback' = buyback
           /\ mTimers' = mTimers \/ mTimers' = With(mTimers, nextId, DanglingAt(Offered(p, l, r, b, h)))
<1>1. <<>> \in Seq(Bids) /\ now + h \in Nat
  <2>1. now \in Nat
    BY AuctionAssumption DEF IInv, TypeOK
  <2>2. h \in Nat
    BY AuctionAssumption
  <2>3. <<>> \in Seq(Bids)
    OBVIOUS
  <2> QED BY <2>1, <2>2, <2>3
<1>2. Offered(p, l, r, b, h) \in AuctionHouseItem
  BY <1>1 DEF Offered, AuctionHouseItem
<1>3. /\ Offered(p, l, r, b, h).lot = l /\ Offered(p, l, r, b, h).seller = p
      /\ Offered(p, l, r, b, h).buyItNow = b
  BY DEF Offered
<1>4. /\ item' = With(item, nextId, Offered(p, l, r, b, h)) /\ nextId \in Ids
      /\ l \in box[p] /\ box' = [box EXCEPT ![p] = @ \ {l}] /\ pack' = pack /\ buyback' = buyback
      /\ mTimers' = mTimers \/ mTimers' = With(mTimers, nextId, DanglingAt(Offered(p, l, r, b, h)))
  BY DEF AuctionHandler, Offered
<1>5. nextId \notin DOMAIN item
  BY DEF IInv, Stored, TypeOK
<1>6. \E fee \in Commissions :
         fee \in Int /\ fee <= copper[p] /\ copper' = [copper EXCEPT ![p] = AsInt(@ - fee)]
  <2>1. Larger(r, b) \in Prices /\ Larger(r, b) \in Nat /\ h \in Nat
    BY AuctionAssumption DEF Larger
  <2>2. PICK fee \in CommissionOf(Larger(r, b), h) :
           fee <= copper[p] /\ copper' = [copper EXCEPT ![p] = AsInt(@ - fee)]
    BY DEF AuctionHandler
  <2>3. fee \in Int
    BY <2>1, CommissionType
  <2>4. fee \in Commissions
    BY <2>1 DEF Commissions
  <2> QED BY <2>2, <2>3, <2>4
<1>7. \A q \in Players : Held(q)' = IF q = p THEN Held(p) \ {l} ELSE Held(q)
  <2>1. l \notin pack[p] /\ l \notin Entries(buyback[p])
    BY <1>4 DEF IInv, HeldOnce
  <2>2. box'[p] = box[p] \ {l} /\ \A q \in Players \ {p} : box'[q] = box[q]
    BY <1>4 DEF IInv, TypeOK
  <2> QED BY <1>4, <2>1, <2>2 DEF Held
<1> QED BY <1>2, <1>3, <1>4, <1>5, <1>6, <1>7

LEMMA AuctionHandlerKeeps ==
    ASSUME IInv, NEW p \in Players, NEW l \in Lots, NEW r \in Prices, NEW b \in Prices,
           NEW h \in Hours, AuctionHandler(p, l, r, b, h)
    PROVE  IInv'
<1> DEFINE it == Offered(p, l, r, b, h)
<1>1. /\ it \in AuctionHouseItem /\ it.lot = l /\ it.seller = p
      /\ item' = With(item, nextId, it) /\ nextId \in Ids /\ nextId \notin DOMAIN item
      /\ \A q \in Players : Held(q)' = IF q = p THEN Held(p) \ {l} ELSE Held(q)
      /\ l \in box[p] /\ box' = [box EXCEPT ![p] = @ \ {l}] /\ pack' = pack /\ buyback' = buyback
      /\ mTimers' = mTimers \/ mTimers' = With(mTimers, nextId, DanglingAt(it))
  BY OfferMakes
<1>2. PICK fee \in Int : copper' = [copper EXCEPT ![p] = AsInt(@ - fee)]
  BY OfferMakes
<1>3. DanglingAt(it) \in Tasks /\ DanglingAt(it).kind = "dangling"
  BY <1>1, TaskTypes
<1>4. /\ now' = now /\ up' = up /\ master' = master /\ loading' = loading /\ crashed' = crashed
      /\ nextId' = nextId + 1 /\ listed' = listed \cup {nextId}
  BY DEF AuctionHandler
<1> HIDE DEF it
<1>5. /\ DOMAIN item' = DOMAIN item \cup {nextId} /\ item'[nextId] = it
      /\ \A id \in DOMAIN item : item'[id] = item[id]
  BY <1>1 DEF With
<1>6. /\ DOMAIN mTimers' \subseteq DOMAIN mTimers \cup {nextId}
      /\ \A id \in DOMAIN mTimers : id # nextId => id \in DOMAIN mTimers' /\ mTimers'[id] = mTimers[id]
      /\ nextId \in DOMAIN mTimers' => mTimers'[nextId] = DanglingAt(it)
  <2>1. nextId \notin DOMAIN mTimers
    BY <1>1 DEF IInv, TimersAgree
  <2>2. CASE mTimers' = mTimers
    BY <2>1, <2>2
  <2>3. CASE mTimers' = With(mTimers, nextId, DanglingAt(it))
    BY <2>1, <2>3 DEF With
  <2> QED BY <1>1, <2>2, <2>3
<1>7. TypeOK'
  <2>1. copper' \in [Players -> Ints] /\ box' \in [Players -> SUBSET Lots]
    <3>1. AsInt(copper[p] - fee) \in Ints
      <4>1. copper[p] \in Int
        BY DEF IInv, TypeOK, Ints
      <4> QED BY <4>1, AsIntType
    <3> QED BY <1>1, <1>2, <3>1 DEF IInv, TypeOK
  <2>2. nextId' \in 1..(MaxAuctions + 1)
    BY <1>1, <1>4, AuctionAssumption DEF Ids
  <2>3. DOMAIN item' \subseteq Ids /\ \A id \in DOMAIN item' : item'[id] \in AuctionHouseItem
    BY <1>1, <1>5 DEF IInv, TypeOK
  <2>4. DOMAIN mTimers' \subseteq Ids /\ \A id \in DOMAIN mTimers' : mTimers'[id] \in Tasks
    BY <1>1, <1>3, <1>6 DEF IInv, TypeOK
  <2> QED BY <1>1, <1>4, <2>1, <2>2, <2>3, <2>4 DEF IInv, TypeOK
<1>8. Stored'
  <2>1. \A id \in DOMAIN item' : id < nextId'
    BY <1>4, <1>5 DEF IInv, TypeOK, Stored, Ids
  <2> QED BY <1>4, <1>5, <2>1 DEF IInv, Stored
<1>9. TimersAgree'
  BY <1>3, <1>5, <1>6 DEF IInv, TimersAgree
<1>10. SoldOnce'
  <2>1. \A id \in DOMAIN item : item[id].lot # l
    BY <1>1 DEF IInv, SoldOnce, Held
  <2>2. \A i, j \in DOMAIN item' : item'[i].lot = item'[j].lot => i = j
    BY <1>1, <1>5, <2>1 DEF IInv, SoldOnce
  <2>3. \A q \in Players : l \notin Held(q)'
    <3>1. l \in Held(p)
      BY <1>1 DEF Held
    <3>2. \A q \in Players \ {p} : l \notin Held(q)
      BY <3>1 DEF IInv, HeldOnce
    <3> QED BY <1>1, <3>2
  <2>4. \A i \in DOMAIN item', q \in Players : item'[i].lot \notin Held(q)'
    BY <1>1, <1>5, <2>3 DEF IInv, SoldOnce
  <2> QED BY <2>2, <2>4 DEF SoldOnce
<1>11. HeldOnce'
  <2>1. \A q, s \in Players : q # s => Held(q)' \cap Held(s)' = {}
    BY <1>1 DEF IInv, HeldOnce
  <2>2. \A q \in Players : box'[q] \subseteq box[q]
    BY <1>1 DEF IInv, TypeOK
  <2> QED BY <1>1, <2>1, <2>2 DEF IInv, HeldOnce
<1> QED BY <1>7, <1>8, <1>9, <1>10, <1>11 DEF IInv

\* A bid changes nothing that an auction is sold or returned by.
LEMMA BidMakes ==
    ASSUME IInv, NEW p \in Players, NEW id \in Ids, NEW price \in BidPrices, BidHandler(p, id, price)
    PROVE  /\ DOMAIN item' = DOMAIN item
           /\ \A i \in DOMAIN item :
                 /\ item'[i] \in AuctionHouseItem
                 /\ item'[i].lot = item[i].lot /\ item'[i].seller = item[i].seller
                 /\ item'[i].buyItNow = item[i].buyItNow /\ (item'[i].completed <=> item[i].completed)
<1>1. id \in DOMAIN item /\ \A i \in DOMAIN item : item[i] \in AuctionHouseItem
  BY DEF BidHandler, IInv, TypeOK
<1>2. /\ LoadItem(id) \in AuctionHouseItem /\ LoadItem(id).bids = <<>>
      /\ LoadItem(id).lot = item[id].lot /\ LoadItem(id).seller = item[id].seller
      /\ LoadItem(id).buyItNow = item[id].buyItNow /\ (LoadItem(id).completed <=> item[id].completed)
  BY <1>1, ReadType DEF LoadItem
<1>3. price \in Nat
  BY AuctionAssumption
<1> DEFINE new == [LoadItem(id) EXCEPT !.bids = WithBid(@, p, price)]
<1>4. /\ new \in AuctionHouseItem /\ new.lot = item[id].lot /\ new.seller = item[id].seller
      /\ new.buyItNow = item[id].buyItNow /\ (new.completed <=> item[id].completed)
  BY <1>2, <1>3, FirstBidType
<1>5. item' = [item EXCEPT ![id] = new]
  BY DEF BidHandler
<1> HIDE DEF new
<1> QED BY <1>1, <1>4, <1>5

LEMMA BidHandlerKeeps ==
    ASSUME IInv, NEW p \in Players, NEW id \in Ids, NEW price \in BidPrices, BidHandler(p, id, price)
    PROVE  IInv'
<1>1. /\ DOMAIN item' = DOMAIN item
      /\ \A i \in DOMAIN item :
            /\ item'[i] \in AuctionHouseItem
            /\ item'[i].lot = item[i].lot /\ item'[i].seller = item[i].seller
            /\ (item'[i].completed <=> item[i].completed)
  BY BidMakes
<1>2. SoldOnce' /\ HeldOnce'
  BY <1>1, SameGoods DEF BidHandler, goods
<1>3. TypeOK'
  BY <1>1 DEF IInv, TypeOK, BidHandler, goods
<1>4. Stored' /\ TimersAgree'
  BY <1>1 DEF IInv, Stored, TimersAgree, BidHandler
<1> QED BY <1>2, <1>3, <1>4 DEF IInv

\* What RemoveItem leaves of the store and of the timers.
LEMMA Removed ==
    ASSUME IInv, NEW id \in DOMAIN item, RemoveItem(id)
    PROVE  /\ DOMAIN item' = DOMAIN item \ {id} /\ \A i \in DOMAIN item' : item'[i] = item[i]
           /\ DOMAIN mTimers' = DOMAIN mTimers \ {id} /\ \A i \in DOMAIN mTimers' : mTimers'[i] = mTimers[i]
           /\ Stored' /\ TimersAgree' /\ nextId' = nextId /\ listed' \subseteq listed
<1>1. DOMAIN item' = DOMAIN item \ {id} /\ \A i \in DOMAIN item' : item'[i] = item[i]
  BY DEF RemoveItem, Without
<1>2. DOMAIN mTimers' = DOMAIN mTimers \ {id} /\ \A i \in DOMAIN mTimers' : mTimers'[i] = mTimers[i]
  BY DEF RemoveItem, CancelItemTimer, Without
<1>3. nextId' = nextId /\ listed' = listed \ {id}
  BY DEF RemoveItem
<1>4. Stored'
  BY <1>1, <1>3 DEF IInv, Stored
<1>5. TimersAgree'
  BY <1>1, <1>2 DEF IInv, TimersAgree
<1> QED BY <1>1, <1>2, <1>3, <1>4, <1>5

LEMMA PricesAre == Prices \subseteq Nat /\ Ints \subseteq Int
<1>1. IntLimit \in Int /\ LongLimit \in Int /\ Prices \subseteq 0..(LongLimit - 1)
  BY AuctionAssumption
<1> QED BY <1>1 DEF Ints

LEMMA BuyMakes ==
    ASSUME IInv, NEW b \in Players, NEW id \in Ids, BuyHandler(b, id)
    PROVE  /\ id \in DOMAIN item /\ item[id] \in AuctionHouseItem
           /\ copper[b] >= 0 => item[id].buyItNow <= copper[b]
           /\ pack' = [pack EXCEPT ![b] = @ \cup {item[id].lot}] /\ RemoveItem(id)
           /\ copper' = [[copper EXCEPT ![b] = AsInt(@ - item[id].buyItNow)]
                            EXCEPT ![item[id].seller] = AsInt(@ + item[id].buyItNow)]
           /\ \A q \in Players : Held(q)' = IF q = b THEN Held(b) \cup {item[id].lot} ELSE Held(q)
<1>1. id \in DOMAIN item /\ item[id] \in AuctionHouseItem
  BY DEF BuyHandler, IInv, TypeOK
<1>2. /\ LoadItem(id).lot = item[id].lot /\ LoadItem(id).seller = item[id].seller
      /\ LoadItem(id).buyItNow = item[id].buyItNow
  BY <1>1, ReadType DEF LoadItem
<1>3. /\ pack' = [pack EXCEPT ![b] = @ \cup {item[id].lot}] /\ RemoveItem(id)
      /\ copper' = [[copper EXCEPT ![b] = AsInt(@ - item[id].buyItNow)]
                       EXCEPT ![item[id].seller] = AsInt(@ + item[id].buyItNow)]
      /\ box' = box /\ buyback' = buyback
  BY <1>2 DEF BuyHandler
<1>4. copper[b] >= 0 => item[id].buyItNow <= copper[b]
  <2>1. copper[b] \in Int /\ item[id].buyItNow \in Nat
    <3>1. copper[b] \in Ints
      BY DEF IInv, TypeOK
    <3>2. item[id].buyItNow \in Prices
      BY <1>1 DEF AuctionHouseItem
    <3> QED BY <3>1, <3>2, PricesAre DEF Ints
  <2>2. AsUnsignedLong(copper[b]) >= item[id].buyItNow
    BY <1>2 DEF BuyHandler, ValidateItem
  <2> QED BY <2>1, <2>2 DEF AsUnsignedLong
<1>5. \A q \in Players : Held(q)' = IF q = b THEN Held(b) \cup {item[id].lot} ELSE Held(q)
  <2>1. pack'[b] = pack[b] \cup {item[id].lot} /\ \A q \in Players \ {b} : pack'[q] = pack[q]
    BY <1>3 DEF IInv, TypeOK
  <2> QED BY <1>3, <2>1 DEF Held
<1> QED BY <1>1, <1>3, <1>4, <1>5

LEMMA BuyHandlerKeeps ==
    ASSUME IInv, NEW b \in Players, NEW id \in Ids, BuyHandler(b, id) PROVE IInv'
<1>1. PICK it \in AuctionHouseItem : id \in DOMAIN item /\ it = item[id]
  BY BuyMakes
<1>2. /\ pack' = [pack EXCEPT ![b] = @ \cup {it.lot}] /\ RemoveItem(id)
      /\ copper' = [[copper EXCEPT ![b] = AsInt(@ - it.buyItNow)]
                       EXCEPT ![it.seller] = AsInt(@ + it.buyItNow)]
      /\ \A q \in Players : Held(q)' = IF q = b THEN Held(b) \cup {it.lot} ELSE Held(q)
  BY <1>1, BuyMakes
<1>3. /\ DOMAIN item' = DOMAIN item \ {id} /\ \A i \in DOMAIN item' : item'[i] = item[i]
      /\ DOMAIN mTimers' = DOMAIN mTimers \ {id} /\ \A i \in DOMAIN mTimers' : mTimers'[i] = mTimers[i]
      /\ Stored' /\ TimersAgree' /\ nextId' = nextId /\ listed' \subseteq listed
  BY <1>1, <1>2, Removed
<1>4. it.lot \in Lots /\ it.seller \in Players /\ it.buyItNow \in Nat
  BY PricesAre DEF AuctionHouseItem
<1>5. UNCHANGED <<now, box, buyback, up, master, loading, crashed>>
  BY DEF BuyHandler
<1>6. TypeOK'
  <2>1. pack' \in [Players -> SUBSET Lots]
    BY <1>2, <1>4 DEF IInv, TypeOK
  <2>2. copper' \in [Players -> Ints]
    <3>1. PICK paid : paid = [copper EXCEPT ![b] = AsInt(@ - it.buyItNow)]
      OBVIOUS
    <3>2. copper \in [Players -> Ints] /\ \A n \in Ints : n \in Int
      BY DEF IInv, TypeOK, Ints
    <3>3. AsInt(copper[b] - it.buyItNow) \in Ints
      BY <1>4, <3>2, AsIntType
    <3>4. paid \in [Players -> Ints]
      BY <3>1, <3>2, <3>3
    <3>5. AsInt(paid[it.seller] + it.buyItNow) \in Ints
      BY <1>4, <3>2, <3>4, AsIntType
    <3>6. copper' = [paid EXCEPT ![it.seller] = AsInt(@ + it.buyItNow)]
      BY <1>2, <3>1
    <3> QED BY <3>4, <3>5, <3>6
  <2> QED BY <1>3, <1>5, <2>1, <2>2 DEF IInv, TypeOK
<1>7. it.lot \notin Held(b) /\ \A q \in Players : it.lot \notin Held(q)
  BY <1>1 DEF IInv, SoldOnce
<1>8. SoldOnce'
  <2>1. \A i \in DOMAIN item' : item[i].lot # it.lot
    BY <1>1, <1>3 DEF IInv, SoldOnce
  <2> QED BY <1>2, <1>3, <2>1 DEF IInv, SoldOnce
<1>9. HeldOnce'
  <2>1. \A q, s \in Players : q # s => Held(q)' \cap Held(s)' = {}
    BY <1>2, <1>7 DEF IInv, HeldOnce
  <2>2. it.lot \notin box[b] /\ it.lot \notin Entries(buyback[b])
    BY <1>7 DEF Held
  <2>3. pack'[b] = pack[b] \cup {it.lot} /\ \A q \in Players \ {b} : pack'[q] = pack[q]
    BY <1>2 DEF IInv, TypeOK
  <2>4. \A q \in Players : /\ box'[q] \cap pack'[q] = {}
                           /\ (box'[q] \cup pack'[q]) \cap Entries(buyback'[q]) = {}
                           /\ NoDuplicates(buyback'[q])
    BY <1>5, <2>2, <2>3 DEF IInv, HeldOnce
  <2> QED BY <2>1, <2>4 DEF HeldOnce
<1> QED BY <1>3, <1>6, <1>8, <1>9 DEF IInv

\* An auction that is completed keeps its lot, its seller and its price.
LEMMA CompleteMakes ==
    ASSUME IInv, NEW g, NEW timers, CompleteAuction(g, timers)
    PROVE  /\ DOMAIN item' = DOMAIN item
           /\ \A i \in DOMAIN item :
                 /\ item'[i] \in AuctionHouseItem
                 /\ item'[i].lot = item[i].lot /\ item'[i].seller = item[i].seller
                 /\ item'[i].buyItNow = item[i].buyItNow /\ (item[i].completed => item'[i].completed)
           /\ \/ mTimers' = timers
              \/ /\ g \in DOMAIN item
                 /\ mTimers' = With(timers, g, ExpireAt(item'[g])) /\ item'[g].completed
<1>1. \A i \in DOMAIN item : item[i] \in AuctionHouseItem
  BY DEF IInv, TypeOK
<1>2. CASE mTimers' = timers /\ item' = item
  BY <1>1, <1>2
<1>3. CASE g \in DOMAIN item /\ g # 0
  <2> DEFINE done == [LoadItem(g) EXCEPT !.completed = TRUE]
  <2>1. LoadItem(g) \in AuctionHouseItem /\ LoadItem(g).lot = item[g].lot
        /\ LoadItem(g).seller = item[g].seller /\ LoadItem(g).buyItNow = item[g].buyItNow
    BY <1>1, <1>3, ReadType DEF LoadItem
  <2>2. /\ done \in AuctionHouseItem /\ done.completed
        /\ done.lot = item[g].lot /\ done.seller = item[g].seller /\ done.buyItNow = item[g].buyItNow
    BY <2>1, CompletedType
  <2>3. item' = [item EXCEPT ![g] = done] /\ mTimers' = With(timers, g, ExpireAt(done))
    BY <1>3 DEF CompleteAuction
  <2> HIDE DEF done
  <2>4. DOMAIN item' = DOMAIN item /\ item'[g] = done /\ \A i \in DOMAIN item : i # g => item'[i] = item[i]
    BY <1>3, <2>3
  <2> QED BY <1>1, <1>3, <2>2, <2>3, <2>4
<1> QED BY <1>2, <1>3 DEF CompleteAuction

LEMMA CompleteKeeps ==
    ASSUME IInv, NEW id \in DOMAIN mTimers, NEW g, CompleteAuction(g, Without(mTimers, id))
    PROVE  IInv'
<1> DEFINE timers == Without(mTimers, id)
<1>1. /\ DOMAIN item' = DOMAIN item
      /\ \A i \in DOMAIN item :
            /\ item'[i] \in AuctionHouseItem
            /\ item'[i].lot = item[i].lot /\ item'[i].seller = item[i].seller
            /\ (item[i].completed => item'[i].completed)
      /\ \/ mTimers' = timers
         \/ /\ g \in DOMAIN item
            /\ mTimers' = With(timers, g, ExpireAt(item'[g])) /\ item'[g].completed
  BY CompleteMakes
<1>2. DOMAIN timers \subseteq DOMAIN mTimers /\ \A i \in DOMAIN timers : timers[i] = mTimers[i]
  BY DEF Without
<1>3. UNCHANGED <<now, goods, nextId, listed, up, master, loading>>
  BY DEF CompleteAuction
<1>4. crashed' \in BOOLEAN
  BY DEF CompleteAuction, IInv, TypeOK
<1> HIDE DEF timers
<1>5. SoldOnce' /\ HeldOnce'
  BY <1>1, <1>3, SameGoods DEF goods
<1>6. ASSUME NEW i \in DOMAIN mTimers'
      PROVE  /\ i \in DOMAIN item /\ mTimers'[i] \in Tasks
             /\ mTimers'[i].kind = "expire" =>
                   /\ item'[i].completed /\ mTimers'[i].copy.lot = item'[i].lot
                   /\ mTimers'[i].copy.seller = item'[i].seller
  <2>1. ASSUME i \in DOMAIN timers, mTimers'[i] = timers[i]
        PROVE  /\ i \in DOMAIN item /\ mTimers'[i] \in Tasks
               /\ mTimers'[i].kind = "expire" =>
                     /\ item'[i].completed /\ mTimers'[i].copy.lot = item'[i].lot
                     /\ mTimers'[i].copy.seller = item'[i].seller
    <3>1. i \in DOMAIN mTimers /\ mTimers'[i] = mTimers[i]
      BY <1>2, <2>1
    <3> QED BY <1>1, <3>1 DEF IInv, TimersAgree, TypeOK
  <2>2. ASSUME g \in DOMAIN item, i = g, mTimers'[i] = ExpireAt(item'[g]), item'[g].completed
        PROVE  /\ i \in DOMAIN item /\ mTimers'[i] \in Tasks
               /\ mTimers'[i].kind = "expire" =>
                     /\ item'[i].completed /\ mTimers'[i].copy.lot = item'[i].lot
                     /\ mTimers'[i].copy.seller = item'[i].seller
    BY <1>1, <2>2, TaskTypes
  <2> QED BY <1>1, <2>1, <2>2 DEF With
<1>7. TypeOK'
  BY <1>1, <1>3, <1>4, <1>6 DEF IInv, TypeOK, goods
<1>8. Stored' /\ TimersAgree'
  BY <1>1, <1>3, <1>6 DEF IInv, Stored, TimersAgree
<1> QED BY <1>5, <1>7, <1>8 DEF IInv

\* The lot of an auction that expires goes to its seller, who may lose another.
LEMMA ExpireMakes ==
    ASSUME IInv, NEW id \in DOMAIN mTimers, mTimers[id].kind = "expire",
           ExpireItem(id, mTimers[id].copy)
    PROVE  /\ id \in DOMAIN item /\ item[id] \in AuctionHouseItem /\ RemoveItem(id)
           /\ buyback' = [buyback EXCEPT ![item[id].seller] = AddBuyBack(@, item[id].lot)]
           /\ LET list == AddBuyBack(buyback[item[id].seller], item[id].lot)
              IN list \in Seq(Lots) /\ NoDuplicates(list) /\ Len(list) <= BuybackLimit
           /\ \E lost \in SUBSET Entries(buyback[item[id].seller]) :
                 /\ \A old, other \in lost : old = other
                 /\ Entries(buyback'[item[id].seller])
                       = (Entries(buyback[item[id].seller]) \ lost) \cup {item[id].lot}
                 /\ \A q \in Players :
                       Held(q)' = IF q = item[id].seller THEN (Held(q) \ lost) \cup {item[id].lot}
                                  ELSE Held(q)
<1>1. PICK it \in AuctionHouseItem : id \in DOMAIN item /\ it = item[id]
  BY DEF IInv, TypeOK, TimersAgree
<1>2. PICK s \in Players : s = it.seller
  BY DEF AuctionHouseItem
<1>3. PICK l \in Lots : l = it.lot
  BY DEF AuctionHouseItem
<1>4. mTimers[id].copy.lot = l /\ mTimers[id].copy.seller = s
  BY <1>1, <1>2, <1>3 DEF IInv, TimersAgree
<1>5. /\ buyback' = [buyback EXCEPT ![s] = AddBuyBack(@, l)] /\ RemoveItem(id)
      /\ box' = box /\ pack' = pack
  BY <1>4 DEF ExpireItem
<1>6. /\ buyback[s] \in Seq(Lots) /\ NoDuplicates(buyback[s]) /\ buyback \in [Players -> Seq(Lots)]
      /\ Len(buyback[s]) <= BuybackLimit
  BY DEF IInv, TypeOK, HeldOnce
<1>7. l \notin Held(s)
  BY <1>1, <1>2, <1>3 DEF IInv, SoldOnce
<1>8. /\ AddBuyBack(buyback[s], l) \in Seq(Lots) /\ NoDuplicates(AddBuyBack(buyback[s], l))
      /\ Len(AddBuyBack(buyback[s], l)) <= BuybackLimit
      /\ \/ Entries(AddBuyBack(buyback[s], l)) = Entries(buyback[s]) \cup {l}
         \/ \E old \in Entries(buyback[s]) :
               Entries(AddBuyBack(buyback[s], l)) = (Entries(buyback[s]) \ {old}) \cup {l}
  BY <1>6, <1>7, BoughtBack DEF Held
<1>9. PICK lost \in SUBSET Entries(buyback[s]) :
          /\ \A old, other \in lost : old = other
          /\ Entries(AddBuyBack(buyback[s], l)) = (Entries(buyback[s]) \ lost) \cup {l}
  <2>1. CASE Entries(AddBuyBack(buyback[s], l)) = Entries(buyback[s]) \cup {l}
    <3>1. {} \in SUBSET Entries(buyback[s]) /\ Entries(buyback[s]) \ {} = Entries(buyback[s])
      OBVIOUS
    <3> QED BY <2>1, <3>1
  <2>2. ASSUME NEW old \in Entries(buyback[s]),
               Entries(AddBuyBack(buyback[s], l)) = (Entries(buyback[s]) \ {old}) \cup {l}
        PROVE  \E lo \in SUBSET Entries(buyback[s]) :
                  /\ \A a, b \in lo : a = b
                  /\ Entries(AddBuyBack(buyback[s], l)) = (Entries(buyback[s]) \ lo) \cup {l}
    <3>1. {old} \in SUBSET Entries(buyback[s])
      OBVIOUS
    <3> QED BY <2>2, <3>1
  <2> QED BY <1>8, <2>1, <2>2
<1>10. buyback'[s] = AddBuyBack(buyback[s], l) /\ \A q \in Players \ {s} : buyback'[q] = buyback[q]
  BY <1>5, <1>6
<1>11. \A q \in Players : Held(q)' = IF q = s THEN (Held(q) \ lost) \cup {l} ELSE Held(q)
  <2>1. (box[s] \cup pack[s]) \cap lost = {}
    BY DEF IInv, HeldOnce
  <2>2. Held(s)' = (Held(s) \ lost) \cup {l}
    BY <1>5, <1>9, <1>10, <2>1 DEF Held
  <2>3. \A q \in Players \ {s} : Held(q)' = Held(q)
    BY <1>5, <1>10 DEF Held
  <2> QED BY <2>2, <2>3
<1>12. Entries(buyback'[s]) = (Entries(buyback[s]) \ lost) \cup {l}
  BY <1>9, <1>10
<1>13. id \in DOMAIN item /\ item[id] \in AuctionHouseItem /\ item[id].seller = s /\ item[id].lot = l
  BY <1>1, <1>2, <1>3
<1>14. \A old, other \in lost : old = other
  BY <1>9
<1>15. \E gone \in SUBSET Entries(buyback[item[id].seller]) :
          /\ \A old, other \in gone : old = other
          /\ Entries(buyback'[item[id].seller])
                = (Entries(buyback[item[id].seller]) \ gone) \cup {item[id].lot}
          /\ \A q \in Players :
                Held(q)' = IF q = item[id].seller THEN (Held(q) \ gone) \cup {item[id].lot}
                           ELSE Held(q)
  BY <1>11, <1>12, <1>13, <1>14
<1>16. /\ buyback' = [buyback EXCEPT ![item[id].seller] = AddBuyBack(@, item[id].lot)]
       /\ RemoveItem(id)
  BY <1>5, <1>13
<1>17. LET list == AddBuyBack(buyback[item[id].seller], item[id].lot)
       IN list \in Seq(Lots) /\ NoDuplicates(list) /\ Len(list) <= BuybackLimit
  BY <1>8, <1>13
<1> QED BY <1>13, <1>15, <1>16, <1>17

LEMMA ExpireKeeps ==
    ASSUME IInv, NEW id \in DOMAIN mTimers, mTimers[id].kind = "expire",
           ExpireItem(id, mTimers[id].copy)
    PROVE  IInv'
<1>1. PICK it \in AuctionHouseItem : id \in DOMAIN item /\ it = item[id]
  BY ExpireMakes
<1>2. PICK s \in Players, l \in Lots : s = it.seller /\ l = it.lot
  BY DEF AuctionHouseItem
<1>3. /\ RemoveItem(id) /\ buyback' = [buyback EXCEPT ![s] = AddBuyBack(@, l)]
      /\ AddBuyBack(buyback[s], l) \in Seq(Lots) /\ NoDuplicates(AddBuyBack(buyback[s], l))
      /\ Len(AddBuyBack(buyback[s], l)) <= BuybackLimit
  BY <1>1, <1>2, ExpireMakes
<1>4. PICK lost \in SUBSET Entries(buyback[s]) :
          /\ Entries(buyback'[s]) = (Entries(buyback[s]) \ lost) \cup {l}
          /\ \A q \in Players : Held(q)' = IF q = s THEN (Held(q) \ lost) \cup {l} ELSE Held(q)
  BY <1>1, <1>2, ExpireMakes
<1>5. /\ DOMAIN item' = DOMAIN item \ {id} /\ \A i \in DOMAIN item' : item'[i] = item[i]
      /\ DOMAIN mTimers' = DOMAIN mTimers \ {id} /\ \A i \in DOMAIN mTimers' : mTimers'[i] = mTimers[i]
      /\ Stored' /\ TimersAgree' /\ nextId' = nextId /\ listed' \subseteq listed
  BY <1>1, <1>3, Removed
<1>6. UNCHANGED <<now, box, pack, copper, up, master, loading, crashed>>
  BY DEF ExpireItem
<1>7. buyback' \in [Players -> Seq(Lots)] /\ buyback'[s] = AddBuyBack(buyback[s], l)
      /\ \A q \in Players \ {s} : buyback'[q] = buyback[q]
  BY <1>3 DEF IInv, TypeOK
<1>8. TypeOK'
  <2>1. \A q \in Players : Len(buyback'[q]) <= BuybackLimit
    BY <1>3, <1>7 DEF IInv, TypeOK
  <2> QED BY <1>5, <1>6, <1>7, <2>1 DEF IInv, TypeOK
<1>9. \A q \in Players : l \notin Held(q)
  BY <1>1, <1>2 DEF IInv, SoldOnce
<1>10. SoldOnce'
  <2>1. \A i \in DOMAIN item' : item[i].lot # l
    BY <1>1, <1>2, <1>5 DEF IInv, SoldOnce
  <2> QED BY <1>4, <1>5, <2>1 DEF IInv, SoldOnce
<1>11. HeldOnce'
  <2>1. \A q, r \in Players : q # r => Held(q)' \cap Held(r)' = {}
    BY <1>4, <1>9 DEF IInv, HeldOnce
  <2>2. l \notin box[s] /\ l \notin pack[s]
    BY <1>9 DEF Held
  <2>3. ASSUME NEW q \in Players
        PROVE  /\ box'[q] \cap pack'[q] = {}
               /\ (box'[q] \cup pack'[q]) \cap Entries(buyback'[q]) = {}
               /\ NoDuplicates(buyback'[q])
    <3>1. CASE q = s
      BY <1>3, <1>4, <1>6, <1>7, <2>2, <3>1 DEF IInv, HeldOnce
    <3>2. CASE q # s
      BY <1>6, <1>7, <3>2 DEF IInv, HeldOnce
    <3> QED BY <3>1, <3>2
  <2> QED BY <2>1, <2>3 DEF HeldOnce
<1> QED BY <1>5, <1>8, <1>10, <1>11 DEF IInv

LEMMA RunTimerKeeps == ASSUME IInv, NEW id \in Ids, RunTimer(id) PROVE IInv'
BY CompleteKeeps, ExpireKeeps DEF RunTimer

LEMMA LoadItemsKeeps == ASSUME IInv, LoadItems PROVE IInv'
<1>1. UNCHANGED <<now, goods, redis, up, master, crashed>> /\ loading' \in 0..MaxLoads
  BY AuctionAssumption DEF LoadItems, IInv, TypeOK
<1>2. SoldOnce' /\ HeldOnce'
  BY <1>1, SameGoods DEF goods, redis
<1>3. DOMAIN mTimers' \subseteq DOMAIN mTimers \cup listed
  BY DEF LoadItems
<1>4. ASSUME NEW i \in DOMAIN mTimers'
      PROVE  /\ i \in DOMAIN item /\ mTimers'[i] \in Tasks
             /\ mTimers'[i].kind = "expire" =>
                   /\ item[i].completed /\ mTimers'[i].copy.lot = item[i].lot
                   /\ mTimers'[i].copy.seller = item[i].seller
  <2>1. CASE i \notin listed
    <3>1. i \in DOMAIN mTimers /\ mTimers'[i] = mTimers[i]
      BY <1>3, <2>1 DEF LoadItems
    <3> QED BY <3>1 DEF IInv, TimersAgree, TypeOK
  <2>2. CASE i \in listed
    <3>1. i \in DOMAIN item /\ item[i] \in AuctionHouseItem
      BY <2>2 DEF IInv, Stored, TypeOK
    <3>2. /\ LoadItem(i) \in AuctionHouseItem /\ LoadItem(i).lot = item[i].lot
          /\ LoadItem(i).seller = item[i].seller /\ (LoadItem(i).completed <=> item[i].completed)
      BY <3>1, ReadType DEF LoadItem
    <3>3. mTimers'[i] = IF LoadItem(i).completed THEN ExpireAt(LoadItem(i)) ELSE CompleteAt(LoadItem(i))
      BY <1>3, <2>2 DEF LoadItems
    <3> QED BY <3>1, <3>2, <3>3, TaskTypes
  <2> QED BY <2>1, <2>2
<1>5. TypeOK'
  <2>1. DOMAIN mTimers' \subseteq Ids
    BY <1>3 DEF IInv, TypeOK
  <2> QED BY <1>1, <1>4, <2>1 DEF IInv, TypeOK, goods, redis
<1>6. Stored' /\ TimersAgree'
  BY <1>1, <1>4 DEF IInv, Stored, TimersAgree, redis
<1> QED BY <1>2, <1>5, <1>6 DEF IInv

\* The steps of the process and of the clock that touch neither goods nor store.
LEMMA ProcessKeeps ==
    ASSUME IInv, BecomeMaster \/ LoseMaster \/ Stop \/ Start \/ Tick \/ UNCHANGED vars PROVE IInv'
<1>1. UNCHANGED <<goods, redis, crashed>>
  BY DEF BecomeMaster, LoseMaster, Stop, Start, Tick, vars
<1>2. SoldOnce' /\ HeldOnce'
  BY <1>1, SameGoods DEF goods, redis
<1>3. mTimers' = mTimers \/ DOMAIN mTimers' = {}
  BY DEF BecomeMaster, LoseMaster, Stop, Start, Tick, vars
<1>4. Stored' /\ TimersAgree'
  BY <1>1, <1>3 DEF IInv, Stored, TimersAgree, redis
<1>5. now' \in 0..MaxTime
  BY AuctionAssumption DEF IInv, TypeOK, BecomeMaster, LoseMaster, Stop, Start, Tick, vars
<1>6. up' \in BOOLEAN /\ master' \in BOOLEAN /\ loading' \in 0..MaxLoads
  <2>1. MaxLoads \in Nat /\ up \in BOOLEAN /\ master \in BOOLEAN /\ loading \in 0..MaxLoads
    BY AuctionAssumption DEF IInv, TypeOK
  <2>2. CASE BecomeMaster
    BY <2>1, <2>2 DEF BecomeMaster
  <2>3. CASE LoseMaster
    BY <2>1, <2>3 DEF LoseMaster
  <2>4. CASE Stop
    <3>1. up' = FALSE /\ master' = FALSE /\ loading' = 0
      BY <2>4 DEF Stop
    <3>2. loading' \in 0..MaxLoads
      BY <2>1, <3>1
    <3> QED BY <3>1, <3>2
  <2>5. CASE Start
    BY <2>1, <2>5 DEF Start
  <2>6. CASE Tick \/ UNCHANGED vars
    BY <2>1, <2>6 DEF Tick, vars
  <2> QED BY <2>2, <2>3, <2>4, <2>5, <2>6
<1>7. TypeOK'
  BY <1>1, <1>3, <1>5, <1>6 DEF IInv, TypeOK, goods, redis
<1> QED BY <1>2, <1>4, <1>7 DEF IInv

LEMMA InvKept == IInv /\ [Next]_vars => IInv'
<1> SUFFICES ASSUME IInv, [Next]_vars PROVE IInv'
  OBVIOUS
<1>1. CASE \E p \in Players, l \in Lots :
             \/ MoveToBox(p, l)
             \/ \E r, b \in Prices, h \in Hours : AuctionHandler(p, l, r, b, h)
  BY <1>1, MoveToBoxKeeps, AuctionHandlerKeeps
<1>2. CASE \E p \in Players, i \in 1..BuybackLimit : BuyBack(p, i)
  BY <1>2, BuyBackKeeps
<1>3. CASE \E p \in Players, id \in Ids :
             BuyHandler(p, id) \/ \E price \in BidPrices : BidHandler(p, id, price)
  BY <1>3, BuyHandlerKeeps, BidHandlerKeeps
<1>4. CASE \E id \in Ids : RunTimer(id)
  BY <1>4, RunTimerKeeps
<1>5. CASE LoadItems
  BY <1>5, LoadItemsKeeps
<1>6. CASE BecomeMaster \/ LoseMaster \/ Stop \/ Start \/ Tick \/ UNCHANGED vars
  BY <1>6, ProcessKeeps
<1> QED BY <1>1, <1>2, <1>3, <1>4, <1>5, <1>6 DEF Next

LEMMA InvAlways == Spec => []IInv
BY InvHolds, InvKept, PTL DEF Spec

-----------------------------------------------------------------------------
(* The theorems.                                                           *)

(***************************************************************************)
(* Types of the containers, of the entities in Redis and of the tasks in   *)
(* the scheduler: purses stay int through the conversions of ah.auction    *)
(* and ah.buy, which may leave them below zero, and no buyback list grows  *)
(* past its limit.                                                         *)
(***************************************************************************)
THEOREM AuctionTypeCorrect == Spec => []TypeOK
<1>1. IInv => TypeOK
  BY DEF IInv
<1> QED BY <1>1, InvAlways, PTL

(***************************************************************************)
(* Whatever id a task with a dangling pointer completes, whenever auctions *)
(* are bought and the process restarts: RemoveItem leaves no task behind,  *)
(* and only completed auctions have a task that expires them.              *)
(***************************************************************************)
THEOREM TimersAlwaysHaveAuctions == Spec => []TimersHaveAuctions
<1>1. IInv => TimersHaveAuctions
  BY DEF IInv, TimersAgree, TimersHaveAuctions
<1> QED BY <1>1, InvAlways, PTL

-----------------------------------------------------------------------------
(* The auction house keeps its promise.                                    *)

\* Places, from who has what and from the auctions.
PlacesIn(l, owns, kept, its) ==
    {<<"owned", p>> : p \in {q \in Players : l \in owns[q]}}
    \cup {<<"returned", p>> : p \in {q \in Players : l \in kept[q]}}
    \cup {<<"sale", its[id].seller, its[id].buyItNow>> : id \in {i \in DOMAIN its : its[i].lot = l}}

AllOwned == [p \in Players |-> Owns(p)]
AllKept == [p \in Players |-> Returned(p)]

LEMMA PlacesAre ==
    ASSUME NEW l
    PROVE  /\ Places(l) = PlacesIn(l, AllOwned, AllKept, item)
           /\ Places(l)' = PlacesIn(l, AllOwned', AllKept', item')
<1>1. /\ {q \in Players : l \in Owns(q)} = {q \in Players : l \in AllOwned[q]}
      /\ {q \in Players : l \in Returned(q)} = {q \in Players : l \in AllKept[q]}
  BY DEF AllOwned, AllKept
<1>2. /\ {q \in Players : l \in Owns(q)'} = {q \in Players : l \in AllOwned'[q]}
      /\ {q \in Players : l \in Returned(q)'} = {q \in Players : l \in AllKept'[q]}
  BY DEF AllOwned, AllKept
<1> QED BY <1>1, <1>2 DEF Places, PlacesIn

LEMMA SoldBy ==
    ASSUME NEW l, NEW owns, NEW kept, NEW its, NEW id \in DOMAIN its, its[id].lot = l,
           \A q \in Players : l \notin owns[q] /\ l \notin kept[q],
           \A i \in DOMAIN its : its[i].lot = l => i = id
    PROVE  PlacesIn(l, owns, kept, its) = {<<"sale", its[id].seller, its[id].buyItNow>>}
<1>1. {q \in Players : l \in owns[q]} = {} /\ {q \in Players : l \in kept[q]} = {}
  OBVIOUS
<1>2. {i \in DOMAIN its : its[i].lot = l} = {id}
  OBVIOUS
<1> QED BY <1>1, <1>2 DEF PlacesIn

LEMMA HeldByNobody ==
    ASSUME NEW l, NEW owns, NEW kept, NEW its,
           \A q \in Players : l \notin owns[q] /\ l \notin kept[q],
           \A i \in DOMAIN its : its[i].lot # l
    PROVE  PlacesIn(l, owns, kept, its) = {}
<1>1. {q \in Players : l \in owns[q]} = {} /\ {q \in Players : l \in kept[q]} = {}
  OBVIOUS
<1>2. {i \in DOMAIN its : its[i].lot = l} = {}
  OBVIOUS
<1> QED BY <1>1, <1>2 DEF PlacesIn

\* A lot nobody gets, loses, offers or takes off sale stays in its places.
LEMMA PlacesStay ==
    ASSUME NEW l,
           \A q \in Players : (l \in Owns(q)' <=> l \in Owns(q)) /\ (l \in Returned(q)' <=> l \in Returned(q)),
           \A i : (i \in DOMAIN item' /\ item'[i].lot = l) <=> (i \in DOMAIN item /\ item[i].lot = l),
           \A i \in DOMAIN item : item[i].lot = l =>
              item'[i].seller = item[i].seller /\ item'[i].buyItNow = item[i].buyItNow
    PROVE  Places(l)' = Places(l)
<1>1. {q \in Players : l \in AllOwned'[q]} = {q \in Players : l \in AllOwned[q]}
  BY DEF AllOwned
<1>2. {q \in Players : l \in AllKept'[q]} = {q \in Players : l \in AllKept[q]}
  BY DEF AllKept
<1>3. {i \in DOMAIN item' : item'[i].lot = l} = {i \in DOMAIN item : item[i].lot = l}
  OBVIOUS
<1>4. PlacesIn(l, AllOwned', AllKept', item') = PlacesIn(l, AllOwned, AllKept, item)
  BY <1>1, <1>2, <1>3 DEF PlacesIn
<1> QED BY <1>4, PlacesAre

\* Steps that leave every lot where it is.
LEMMA NothingMoves ==
    ASSUME copper' = copper, \A q \in Players : Owns(q)' = Owns(q), buyback' = buyback,
           DOMAIN item' = DOMAIN item,
           \A i \in DOMAIN item : /\ item'[i].lot = item[i].lot /\ item'[i].seller = item[i].seller
                                  /\ item'[i].buyItNow = item[i].buyItNow
    PROVE  UNCHANGED <<[l \in Lots |-> Places(l)], copper>>
<1>1. \A q \in Players : Returned(q)' = Returned(q)
  BY DEF Returned
<1>2. \A l \in Lots : Places(l)' = Places(l)
  BY <1>1, PlacesStay
<1> QED BY <1>2

\* What a player holds is what he owns and what a vendor keeps for him.
LEMMA HeldParts ==
    ASSUME IInv, NEW p \in Players
    PROVE  /\ Held(p) = Owns(p) \cup Returned(p)
           /\ Owns(p) \cap Returned(p) = {}
           /\ \A l \in Held(p) :
                 /\ \A q \in Players \ {p} : l \notin Owns(q) /\ l \notin Returned(q)
                 /\ \A i \in DOMAIN item : item[i].lot # l
<1>1. Held(p) = Owns(p) \cup Returned(p) /\ Owns(p) \cap Returned(p) = {}
  BY DEF Held, Owns, Returned, IInv, HeldOnce
<1>2. \A q \in Players : Held(q) = Owns(q) \cup Returned(q)
  BY DEF Held, Owns, Returned
<1>3. \A l \in Held(p) : \A q \in Players \ {p} : l \notin Held(q)
  BY DEF IInv, HeldOnce
<1>4. \A l \in Held(p) : \A i \in DOMAIN item : item[i].lot # l
  BY DEF IInv, SoldOnce
<1> QED BY <1>1, <1>2, <1>3, <1>4

LEMMA OwnedNow ==
    ASSUME IInv, NEW p \in Players, NEW l \in Owns(p) PROVE Places(l) = {<<"owned", p>>}
<1>1. l \in Held(p) /\ l \notin Returned(p)
  BY HeldParts
<1>2. \A q \in Players \ {p} : l \notin Owns(q) /\ l \notin Returned(q)
  BY <1>1, HeldParts
<1>3. l \in AllOwned[p] /\ \A q \in Players : (l \in AllOwned[q] => q = p) /\ l \notin AllKept[q]
  BY <1>1, <1>2 DEF AllOwned, AllKept
<1>4. \A i \in DOMAIN item : item[i].lot # l
  BY <1>1, HeldParts
<1>5. PlacesIn(l, AllOwned, AllKept, item) = {<<"owned", p>>}
  <2>1. {q \in Players : l \in AllOwned[q]} = {p} /\ {q \in Players : l \in AllKept[q]} = {}
    BY <1>3
  <2>2. {i \in DOMAIN item : item[i].lot = l} = {}
    BY <1>4
  <2> QED BY <2>1, <2>2 DEF PlacesIn
<1> QED BY <1>5, PlacesAre

LEMMA KeptNow ==
    ASSUME IInv, NEW p \in Players, NEW l \in Returned(p) PROVE Places(l) = {<<"returned", p>>}
<1>1. l \in Held(p) /\ l \notin Owns(p)
  BY HeldParts
<1>2. \A q \in Players \ {p} : l \notin Owns(q) /\ l \notin Returned(q)
  BY <1>1, HeldParts
<1>3. l \in AllKept[p] /\ \A q \in Players : (l \in AllKept[q] => q = p) /\ l \notin AllOwned[q]
  BY <1>1, <1>2 DEF AllOwned, AllKept
<1>4. \A i \in DOMAIN item : item[i].lot # l
  BY <1>1, HeldParts
<1>5. PlacesIn(l, AllOwned, AllKept, item) = {<<"returned", p>>}
  <2>1. {q \in Players : l \in AllKept[q]} = {p} /\ {q \in Players : l \in AllOwned[q]} = {}
    BY <1>3
  <2>2. {i \in DOMAIN item : item[i].lot = l} = {}
    BY <1>4
  <2> QED BY <2>1, <2>2 DEF PlacesIn
<1> QED BY <1>5, PlacesAre

\* An auction's lot is on sale, for its seller, at its price.
LEMMA OnSaleNow ==
    ASSUME IInv, NEW id \in DOMAIN item
    PROVE  /\ Places(item[id].lot) = {<<"sale", item[id].seller, item[id].buyItNow>>}
           /\ item[id].lot \in Lots /\ item[id].seller \in Players /\ item[id].buyItNow \in Prices
           /\ \A q \in Players : item[id].lot \notin Owns(q) /\ item[id].lot \notin Returned(q)
           /\ \A i \in DOMAIN item : item[i].lot = item[id].lot => i = id
<1>1. item[id].lot \in Lots /\ item[id].seller \in Players /\ item[id].buyItNow \in Prices
  BY DEF IInv, TypeOK, AuctionHouseItem
<1>2. \A q \in Players : item[id].lot \notin Owns(q) /\ item[id].lot \notin Returned(q)
  BY HeldParts DEF IInv, SoldOnce
<1>3. \A i \in DOMAIN item : item[i].lot = item[id].lot => i = id
  BY DEF IInv, SoldOnce
<1>4. \A q \in Players : item[id].lot \notin AllOwned[q] /\ item[id].lot \notin AllKept[q]
  BY <1>2 DEF AllOwned, AllKept
<1>5. PlacesIn(item[id].lot, AllOwned, AllKept, item)
        = {<<"sale", item[id].seller, item[id].buyItNow>>}
  BY <1>3, <1>4, SoldBy
<1> QED BY <1>1, <1>2, <1>3, <1>5, PlacesAre

LEMMA PromiseInit == Init => Promise!Init
<1> SUFFICES ASSUME Init PROVE Promise!Init
  OBVIOUS
<1>1. ASSUME NEW l \in Lots PROVE Places(l) = {<<"owned", Owner[l]>>}
  <2>1. PICK p \in Players : p = Owner[l]
    BY AuctionAssumption
  <2>2. l \in Owns(p)
    BY <2>1 DEF Init, Owns
  <2>3. Places(l) = {<<"owned", p>>}
    BY <2>2, InvHolds, OwnedNow
  <2> QED BY <2>1, <2>3
<1>2. [l \in Lots |-> Places(l)] \in [Lots -> {Promise!Owned(p) : p \in Players}]
  BY <1>1, AuctionAssumption DEF Promise!Owned
<1>3. copper \in [Players -> Nat]
  BY AuctionAssumption DEF Init
<1> QED BY <1>2, <1>3 DEF Promise!Init

LEMMA OfferRefined ==
    ASSUME IInv, NEW p \in Players, NEW l \in Lots, NEW r \in Prices, NEW b \in Prices,
           NEW h \in Hours, AuctionHandler(p, l, r, b, h)
    PROVE  Promise!Offer(p, l)
<1>1. PICK it \in AuctionHouseItem :
         /\ it.lot = l /\ it.seller = p /\ it.buyItNow = b
         /\ item' = With(item, nextId, it) /\ nextId \notin DOMAIN item
  BY OfferMakes
<1>2. /\ \E fee \in Commissions :
            fee <= copper[p] /\ copper' = [copper EXCEPT ![p] = AsInt(@ - fee)]
      /\ l \in box[p] /\ box' = [box EXCEPT ![p] = @ \ {l}] /\ pack' = pack /\ buyback' = buyback
      /\ box \in [Players -> SUBSET Lots]
  BY OfferMakes DEF IInv, TypeOK
<1>3. /\ DOMAIN item' = DOMAIN item \cup {nextId} /\ item'[nextId] = it
      /\ \A i \in DOMAIN item : item'[i] = item[i]
  BY <1>1 DEF With
<1>4. l \in Owns(p) /\ l \in Held(p)
  BY <1>2 DEF Owns, Held
<1>5. /\ \A q \in Players \ {p} : l \notin Owns(q) /\ l \notin Returned(q)
      /\ l \notin Returned(p) /\ \A i \in DOMAIN item : item[i].lot # l
  BY <1>4, HeldParts
<1>6. Places(l) = {<<"owned", p>>}
  BY <1>4, OwnedNow
<1>7. /\ \A q \in Players : Owns(q)' = Owns(q) \ (IF q = p THEN {l} ELSE {})
      /\ \A q \in Players : Returned(q)' = Returned(q)
  <2>1. l \notin pack[p]
    BY <1>2 DEF IInv, HeldOnce
  <2> QED BY <1>2, <2>1 DEF Owns, Returned
<1>8. Places(l)' = {<<"sale", p, b>>}
  <2>1. \A q \in Players : l \notin AllOwned'[q] /\ l \notin AllKept'[q]
    BY <1>5, <1>7 DEF AllOwned, AllKept
  <2>2. PlacesIn(l, AllOwned', AllKept', item') = {<<"sale", p, b>>}
    BY <1>1, <1>3, <1>5, <2>1, SoldBy
  <2> QED BY <2>2, PlacesAre
<1>9. \A k \in Lots \ {l} : Places(k)' = Places(k)
  <2> SUFFICES ASSUME NEW k \in Lots \ {l} PROVE Places(k)' = Places(k)
    OBVIOUS
  <2>1. \A q \in Players : (k \in Owns(q)' <=> k \in Owns(q)) /\ (k \in Returned(q)' <=> k \in Returned(q))
    BY <1>7
  <2> QED BY <1>1, <1>3, <2>1, PlacesStay
<1>10. [k \in Lots |-> Places(k)]' = [[k \in Lots |-> Places(k)] EXCEPT ![l] = {<<"sale", p, b>>}]
  BY <1>8, <1>9
<1> QED BY <1>2, <1>6, <1>10 DEF Promise!Offer, Promise!Owned, Promise!OnSale

\* Once the auction is removed, other lots are where they were.
LEMMA OthersStay ==
    ASSUME IInv, NEW id \in DOMAIN item, NEW k, k # item[id].lot,
           DOMAIN item' = DOMAIN item \ {id}, \A i \in DOMAIN item' : item'[i] = item[i],
           \A q \in Players : (k \in Owns(q)' <=> k \in Owns(q)) /\ (k \in Returned(q)' <=> k \in Returned(q))
    PROVE  Places(k)' = Places(k)
<1>1. \A i : (i \in DOMAIN item' /\ item'[i].lot = k) <=> (i \in DOMAIN item /\ item[i].lot = k)
  OBVIOUS
<1>2. \A i \in DOMAIN item : item[i].lot = k =>
         item'[i].seller = item[i].seller /\ item'[i].buyItNow = item[i].buyItNow
  OBVIOUS
<1> QED BY <1>1, <1>2, PlacesStay

LEMMA BuyRefined ==
    ASSUME IInv, NEW b \in Players, NEW id \in Ids, BuyHandler(b, id)
    PROVE  \E l \in Lots : Promise!Sell(b, l)
<1>1. PICK it \in AuctionHouseItem : id \in DOMAIN item /\ it = item[id]
  BY BuyMakes
<1>2. PICK l \in Lots, s \in Players, price \in Prices :
         l = it.lot /\ s = it.seller /\ price = it.buyItNow
  BY DEF AuctionHouseItem
<1>3. /\ copper[b] >= 0 => price <= copper[b]
      /\ RemoveItem(id) /\ pack' = [pack EXCEPT ![b] = @ \cup {l}]
      /\ copper' = [[copper EXCEPT ![b] = AsInt(@ - price)] EXCEPT ![s] = AsInt(@ + price)]
  BY <1>1, <1>2, BuyMakes
<1>4. DOMAIN item' = DOMAIN item \ {id} /\ \A i \in DOMAIN item' : item'[i] = item[i]
  BY <1>1, <1>3, Removed
<1>5. /\ Places(l) = {<<"sale", s, price>>}
      /\ \A q \in Players : l \notin Owns(q) /\ l \notin Returned(q)
      /\ \A i \in DOMAIN item : item[i].lot = l => i = id
  BY <1>1, <1>2, OnSaleNow
<1>6. /\ \A q \in Players : Owns(q)' = Owns(q) \cup (IF q = b THEN {l} ELSE {})
      /\ \A q \in Players : Returned(q)' = Returned(q)
  <2>1. box' = box /\ buyback' = buyback /\ pack \in [Players -> SUBSET Lots]
    BY DEF BuyHandler, IInv, TypeOK
  <2> QED BY <1>3, <2>1 DEF Owns, Returned
<1>7. Places(l)' = {<<"owned", b>>}
  <2>1. /\ l \in AllOwned'[b]
        /\ \A q \in Players : (l \in AllOwned'[q] => q = b) /\ l \notin AllKept'[q]
    BY <1>5, <1>6 DEF AllOwned, AllKept
  <2>2. \A i \in DOMAIN item' : item'[i].lot # l
    BY <1>4, <1>5
  <2>3. PlacesIn(l, AllOwned', AllKept', item') = {<<"owned", b>>}
    <3>1. {q \in Players : l \in AllOwned'[q]} = {b} /\ {q \in Players : l \in AllKept'[q]} = {}
      BY <2>1
    <3>2. {i \in DOMAIN item' : item'[i].lot = l} = {}
      BY <2>2
    <3> QED BY <3>1, <3>2 DEF PlacesIn
  <2> QED BY <2>3, PlacesAre
<1>8. \A k \in Lots \ {l} : Places(k)' = Places(k)
  <2> SUFFICES ASSUME NEW k \in Lots \ {l} PROVE Places(k)' = Places(k)
    OBVIOUS
  <2>1. \A q \in Players : (k \in Owns(q)' <=> k \in Owns(q)) /\ (k \in Returned(q)' <=> k \in Returned(q))
    BY <1>6
  <2> QED BY <1>1, <1>2, <1>4, <2>1, OthersStay
<1>9. [k \in Lots |-> Places(k)]' = [[k \in Lots |-> Places(k)] EXCEPT ![l] = {<<"owned", b>>}]
  BY <1>7, <1>8
<1> QED BY <1>3, <1>5, <1>9 DEF Promise!Sell, Promise!Owned, Promise!OnSale

LEMMA BuyBackRefined ==
    ASSUME IInv, NEW p \in Players, NEW i, BuyBack(p, i)
    PROVE  \E l \in Lots : Promise!Redeem(p, l)
<1>1. PICK l \in Lots : l = buyback[p][i]
  BY BuyBackHeld
<1>2. PICK e \in Seq(Lots) : e = Erase(buyback[p], i)
  BY BuyBackHeld
<1>3. /\ pack' = [pack EXCEPT ![p] = @ \cup {l}] /\ box' = box
      /\ buyback' = [buyback EXCEPT ![p] = e]
      /\ Entries(buyback[p]) = Entries(e) \cup {l} /\ l \notin Entries(e)
      /\ pack \in [Players -> SUBSET Lots] /\ buyback \in [Players -> Seq(Lots)]
  BY <1>1, <1>2, BuyBackHeld DEF IInv, TypeOK
<1>4. Value[l] <= copper[p] /\ copper' = [copper EXCEPT ![p] = @ - Value[l]] /\ item' = item
  BY <1>1 DEF BuyBack, redis
<1>5. l \in Returned(p) /\ l \in Held(p)
  BY <1>3 DEF Returned, Held
<1>6. /\ \A q \in Players \ {p} : l \notin Owns(q) /\ l \notin Returned(q)
      /\ l \notin Owns(p) /\ \A k \in DOMAIN item : item[k].lot # l
  BY <1>5, HeldParts
<1>7. /\ \A q \in Players : Owns(q)' = Owns(q) \cup (IF q = p THEN {l} ELSE {})
      /\ \A q \in Players : Returned(q)' = Returned(q) \ (IF q = p THEN {l} ELSE {})
  BY <1>3 DEF Owns, Returned
<1>8. Places(l) = {<<"returned", p>>}
  BY <1>5, KeptNow
<1>9. Places(l)' = {<<"owned", p>>}
  <2>1. /\ l \in AllOwned'[p]
        /\ \A q \in Players : (l \in AllOwned'[q] => q = p) /\ l \notin AllKept'[q]
    BY <1>6, <1>7 DEF AllOwned, AllKept
  <2>2. PlacesIn(l, AllOwned', AllKept', item') = {<<"owned", p>>}
    <3>1. {q \in Players : l \in AllOwned'[q]} = {p} /\ {q \in Players : l \in AllKept'[q]} = {}
      BY <2>1
    <3>2. {k \in DOMAIN item' : item'[k].lot = l} = {}
      BY <1>4, <1>6
    <3> QED BY <3>1, <3>2 DEF PlacesIn
  <2> QED BY <2>2, PlacesAre
<1>10. \A k \in Lots \ {l} : Places(k)' = Places(k)
  <2> SUFFICES ASSUME NEW k \in Lots \ {l} PROVE Places(k)' = Places(k)
    OBVIOUS
  <2>1. \A q \in Players : (k \in Owns(q)' <=> k \in Owns(q)) /\ (k \in Returned(q)' <=> k \in Returned(q))
    BY <1>7
  <2> QED BY <1>4, <2>1, PlacesStay
<1>11. [k \in Lots |-> Places(k)]' = [[k \in Lots |-> Places(k)] EXCEPT ![l] = {<<"owned", p>>}]
  BY <1>9, <1>10
<1> QED BY <1>4, <1>8, <1>11 DEF Promise!Redeem, Promise!Owned, Promise!Kept

LEMMA ExpireRefined ==
    ASSUME IInv, NEW id \in DOMAIN mTimers, mTimers[id].kind = "expire",
           ExpireItem(id, mTimers[id].copy)
    PROVE  \E p \in Players, l \in Lots : Promise!Return(p, l)
<1>1. PICK it \in AuctionHouseItem : id \in DOMAIN item /\ it = item[id]
  BY ExpireMakes
<1>2. PICK l \in Lots, s \in Players, price \in Prices :
         l = it.lot /\ s = it.seller /\ price = it.buyItNow
  BY DEF AuctionHouseItem
<1>3. PICK lost \in SUBSET Entries(buyback[s]) :
         /\ \A old, other \in lost : old = other
         /\ Entries(buyback'[s]) = (Entries(buyback[s]) \ lost) \cup {l}
  BY <1>1, <1>2, ExpireMakes
<1>4. DOMAIN item' = DOMAIN item \ {id} /\ \A i \in DOMAIN item' : item'[i] = item[i]
  BY <1>1, ExpireMakes, Removed
<1>5. /\ Places(l) = {<<"sale", s, price>>}
      /\ \A q \in Players : l \notin Owns(q) /\ l \notin Returned(q)
      /\ \A i \in DOMAIN item : item[i].lot = l => i = id
  BY <1>1, <1>2, OnSaleNow
<1>6. /\ \A q \in Players : Owns(q)' = Owns(q)
      /\ Returned(s)' = (Returned(s) \ lost) \cup {l}
      /\ \A q \in Players \ {s} : Returned(q)' = Returned(q)
  <2>1. box' = box /\ pack' = pack
    BY DEF ExpireItem
  <2>2. buyback' = [buyback EXCEPT ![s] = AddBuyBack(@, l)] /\ buyback \in [Players -> Seq(Lots)]
    BY <1>1, <1>2, ExpireMakes DEF IInv, TypeOK
  <2>3. \A q \in Players \ {s} : buyback'[q] = buyback[q]
    BY <2>2
  <2> QED BY <1>3, <2>1, <2>3 DEF Owns, Returned
<1>7. Places(l)' = {<<"returned", s>>}
  <2>1. /\ l \in AllKept'[s]
        /\ \A q \in Players : (l \in AllKept'[q] => q = s) /\ l \notin AllOwned'[q]
    BY <1>5, <1>6 DEF AllOwned, AllKept
  <2>2. \A i \in DOMAIN item' : item'[i].lot # l
    BY <1>4, <1>5
  <2>3. PlacesIn(l, AllOwned', AllKept', item') = {<<"returned", s>>}
    <3>1. {q \in Players : l \in AllKept'[q]} = {s} /\ {q \in Players : l \in AllOwned'[q]} = {}
      BY <2>1
    <3>2. {i \in DOMAIN item' : item'[i].lot = l} = {}
      BY <2>2
    <3> QED BY <3>1, <3>2 DEF PlacesIn
  <2> QED BY <2>3, PlacesAre
<1>8. ASSUME NEW k \in Lots \ {l}, k \notin lost PROVE Places(k)' = Places(k)
  <2>1. \A q \in Players : (k \in Owns(q)' <=> k \in Owns(q)) /\ (k \in Returned(q)' <=> k \in Returned(q))
    BY <1>6, <1>8
  <2> QED BY <1>1, <1>2, <1>4, <2>1, OthersStay
<1>9. copper' = copper
  BY DEF ExpireItem
<1>10. CASE lost = {}
  <2>1. [k \in Lots |-> Places(k)]' = [[k \in Lots |-> Places(k)] EXCEPT ![l] = {<<"returned", s>>}]
    BY <1>7, <1>8, <1>10
  <2> QED BY <1>5, <1>9, <2>1 DEF Promise!Return, Promise!Kept, Promise!OnSale
<1>11. CASE lost # {}
  <2>1. PICK old \in lost : lost = {old}
    BY <1>3, <1>11
  <2>2. old \in Returned(s) /\ old \in Lots
    <3>1. buyback[s] \in Seq(Lots)
      BY DEF IInv, TypeOK
    <3>2. old \in Entries(buyback[s])
      BY <2>1
    <3> QED BY <3>1, <3>2 DEF Returned, Entries
  <2>3. old # l
    BY <1>5, <2>2
  <2>4. /\ \A q \in Players \ {s} : old \notin Owns(q) /\ old \notin Returned(q)
        /\ old \notin Owns(s) /\ \A i \in DOMAIN item : item[i].lot # old
    BY <2>2, HeldParts
  <2>5. Places(old) = {<<"returned", s>>}
    BY <2>2, KeptNow
  <2>6. Places(old)' = {}
    <3>1. \A q \in Players : old \notin AllOwned'[q] /\ old \notin AllKept'[q]
      BY <1>6, <2>1, <2>3, <2>4 DEF AllOwned, AllKept
    <3>2. PlacesIn(old, AllOwned', AllKept', item') = {}
      BY <1>4, <2>4, <3>1, HeldByNobody
    <3> QED BY <3>2, PlacesAre
  <2>7. [k \in Lots |-> Places(k)]'
          = [[k \in Lots |-> Places(k)] EXCEPT ![l] = {<<"returned", s>>}, ![old] = {}]
    BY <1>7, <1>8, <2>1, <2>2, <2>3, <2>6
  <2>8. old \in Lots \ {l}
    BY <2>2, <2>3
  <2> QED BY <1>5, <1>9, <2>2, <2>5, <2>7, <2>8
          DEF Promise!Return, Promise!Kept, Promise!OnSale, Promise!Gone
<1> QED BY <1>10, <1>11

LEMMA PromiseStep ==
    IInv /\ [Next]_vars => [Promise!Next]_<<[l \in Lots |-> Places(l)], copper>>
<1> SUFFICES ASSUME IInv, [Next]_vars
             PROVE  Promise!Next \/ UNCHANGED <<[l \in Lots |-> Places(l)], copper>>
  OBVIOUS
<1>1. ASSUME NEW p \in Players, NEW l \in Lots, MoveToBox(p, l)
      PROVE  UNCHANGED <<[k \in Lots |-> Places(k)], copper>>
  <2>1. \A q \in Players : Owns(q)' = Owns(q)
    BY <1>1 DEF IInv, TypeOK, MoveToBox, Owns
  <2>2. copper' = copper /\ buyback' = buyback /\ item' = item
    BY <1>1 DEF MoveToBox, redis
  <2> QED BY <2>1, <2>2, NothingMoves
<1>2. ASSUME NEW p \in Players, NEW l \in Lots, NEW r \in Prices, NEW b \in Prices,
             NEW h \in Hours, AuctionHandler(p, l, r, b, h)
      PROVE  Promise!Next
  BY <1>2, OfferRefined DEF Promise!Next
<1>3. ASSUME NEW p \in Players, NEW i, BuyBack(p, i) PROVE Promise!Next
  BY <1>3, BuyBackRefined DEF Promise!Next
<1>4. ASSUME NEW b \in Players, NEW id \in Ids, BuyHandler(b, id) PROVE Promise!Next
  BY <1>4, BuyRefined DEF Promise!Next
<1>5. ASSUME copper' = copper, UNCHANGED <<box, pack, buyback>>, DOMAIN item' = DOMAIN item,
             \A i \in DOMAIN item : /\ item'[i].lot = item[i].lot /\ item'[i].seller = item[i].seller
                                    /\ item'[i].buyItNow = item[i].buyItNow
      PROVE  UNCHANGED <<[k \in Lots |-> Places(k)], copper>>
  <2>1. \A q \in Players : Owns(q)' = Owns(q)
    BY <1>5 DEF Owns
  <2> QED BY <1>5, <2>1, NothingMoves
<1>6. ASSUME NEW p \in Players, NEW id \in Ids, NEW price \in BidPrices, BidHandler(p, id, price)
      PROVE  UNCHANGED <<[k \in Lots |-> Places(k)], copper>>
  <2>1. copper' = copper /\ UNCHANGED <<box, pack, buyback>>
    BY <1>6 DEF BidHandler, goods
  <2> QED BY <1>5, <1>6, <2>1, BidMakes
<1>7. ASSUME NEW id \in Ids, RunTimer(id)
      PROVE  Promise!Next \/ UNCHANGED <<[k \in Lots |-> Places(k)], copper>>
  <2>1. id \in DOMAIN mTimers
    BY <1>7 DEF RunTimer
  <2>2. ASSUME NEW g, CompleteAuction(g, Without(mTimers, id))
        PROVE  UNCHANGED <<[k \in Lots |-> Places(k)], copper>>
    <3>1. copper' = copper /\ UNCHANGED <<box, pack, buyback>>
      BY <2>2 DEF CompleteAuction, goods
    <3> QED BY <1>5, <2>2, <3>1, CompleteMakes
  <2>3. ASSUME mTimers[id].kind = "expire", ExpireItem(id, mTimers[id].copy) PROVE Promise!Next
    BY <2>1, <2>3, ExpireRefined DEF Promise!Next
  <2> QED BY <1>7, <2>2, <2>3 DEF RunTimer
<1>8. ASSUME BecomeMaster \/ LoseMaster \/ LoadItems \/ Stop \/ Start \/ Tick \/ UNCHANGED vars
      PROVE  UNCHANGED <<[k \in Lots |-> Places(k)], copper>>
  <2>1. copper' = copper /\ UNCHANGED <<box, pack, buyback>> /\ item' = item
    BY <1>8 DEF BecomeMaster, LoseMaster, LoadItems, Stop, Start, Tick, vars, goods, redis
  <2> QED BY <1>5, <2>1
<1> QED BY <1>1, <1>2, <1>3, <1>4, <1>6, <1>7, <1>8 DEF Next

(***************************************************************************)
(* The auction house of Auction.tla, with its store, its clock and its     *)
(* timers, implements AuctionPromise: no lot is duplicated or lost on the  *)
(* way, a sale moves exactly the price, and a lot that was sold is never   *)
(* given back.  The handlers' steps map to Offer, Sell and Redeem, the     *)
(* expiry of an item to Return, and every other step to none.  Purses are  *)
(* int of any width and wrap around as the code's do.                      *)
(***************************************************************************)
THEOREM AuctionKeepsPromise == Spec => KeepsPromise
BY InvAlways, PromiseInit, PromiseStep, PTL DEF Spec, KeepsPromise, Promise!Spec
=============================================================================
