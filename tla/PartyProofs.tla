----------------------------- MODULE PartyProofs -----------------------------
(***************************************************************************)
(* Proofs about parties, for any number of players, parties and creatures. *)
(***************************************************************************)
EXTENDS Party, WellFoundedInduction, TLAPS

(***************************************************************************)
(* The inductive invariant, by what it is about.                           *)
(***************************************************************************)

Entries(members) == {members[k] : k \in DOMAIN members}

\* A list of members that has each player once.
Unique(members) == \A j, k \in DOMAIN members : members[j].def = members[k].def => j = k

Types ==
    /\ mPartyList \in Seq(ActiveParty)
    /\ nextPartyID \in 1..(MaxParties + 1)
    /\ PartyID \in [Players -> 0..MaxParties]
    /\ online \subseteq Players
    /\ login \in [Players -> 0..MaxCreatures] /\ zone \in [Players -> 0..MaxCreatures]
    /\ creatures \in 0..MaxCreatures
    /\ invited \subseteq Players \X Players
    /\ corrupted \in BOOLEAN

\* A player has no more creatures than there are.
Counts == \A p \in Players : login[p] <= creatures /\ zone[p] <= creatures

Lists ==
    /\ \A i, j \in DOMAIN mPartyList : mPartyList[i].id = mPartyList[j].id => i = j
    /\ \A i \in DOMAIN mPartyList : mPartyList[i].id < nextPartyID /\ Unique(mPartyList[i].members)

\* No entry points to a creature that is yet to come, and one that points to
\* the player's creature of now has its id.
Pointers ==
    \A i \in DOMAIN mPartyList : \A m \in Entries(mPartyList[i].members) :
       m.ptr <= zone[m.def] /\ (Live(m) => m.cid = CreatureID(m.def))

\* Who is offline is in no party, and nobody has invited himself.
Apart ==
    /\ \A p \in Players \ online : PartyID[p] = 0
    /\ \A inv \in invited : inv[1] # inv[2]

IInv == Types /\ Counts /\ Lists /\ Pointers /\ Apart /\ PartyKnowsMembers /\ LeaderCanAct

-----------------------------------------------------------------------------
(* The operators the model is built from.                                  *)

LEMMA LeastExists ==
    ASSUME NEW S \in SUBSET Nat, S # {}
    PROVE  \E t \in S : \A u \in S : t <= u
<1> DEFINE less == OpToRel(<, Nat)
<1>1. PICK t \in S : \A u \in S : <<u, t>> \notin less
  <2>1. IsWellFoundedOn(less, Nat)
    BY NatLessThanWellFounded
  <2> HIDE DEF less
  <2> QED BY <2>1, WFMin, Zenon
<1>2. \A u \in S : ~(u < t)
  <2> SUFFICES ASSUME NEW u \in S, u < t PROVE FALSE
    OBVIOUS
  <2>1. u \in Nat /\ t \in Nat
    OBVIOUS
  <2>2. <<u, t>> \in less
    BY <2>1, Zenon DEF OpToRel
  <2> QED BY <1>1, <2>2
<1> QED BY <1>2

\* First returns the smallest position, or 0 for none.
LEMMA FirstFound ==
    ASSUME NEW found \in SUBSET (Nat \ {0})
    PROVE  /\ First(found) = 0 <=> found = {}
           /\ First(found) # 0 => First(found) \in found /\ \A j \in found : First(found) <= j
<1>1. CASE found = {}
  BY <1>1 DEF First
<1>2. CASE found # {}
  <2>1. \E i \in found : \A j \in found : i <= j
    BY <1>2, LeastExists
  <2> QED BY <1>2, <2>1 DEF First
<1> QED BY <1>1, <1>2

\* The position in a list of the entry that is at j once the one at i is erased.
Shift(i, j) == IF j < i THEN j ELSE j + 1

LEMMA Dropped ==
    ASSUME NEW S, NEW s \in Seq(S), NEW i \in DOMAIN s, NEW d, d = DropIndex(s, i)
    PROVE  /\ d \in Seq(S) /\ Len(d) = Len(s) - 1
           /\ \A j \in DOMAIN d : Shift(i, j) \in DOMAIN s \ {i} /\ d[j] = s[Shift(i, j)]
           /\ \A j, k \in DOMAIN d : Shift(i, j) = Shift(i, k) => j = k
           /\ \A k \in DOMAIN s \ {i} : \E j \in DOMAIN d : Shift(i, j) = k
<1>1. DOMAIN s = 1..Len(s) /\ Len(s) \in Nat /\ i \in 1..Len(s) /\ \A j \in 1..Len(s) : s[j] \in S
  OBVIOUS
<1>2. d = [j \in 1..(Len(s) - 1) |-> s[Shift(i, j)]]
  BY DEF DropIndex, Shift
<1>3. \A j \in 1..(Len(s) - 1) : Shift(i, j) \in 1..Len(s) /\ Shift(i, j) # i
  BY <1>1 DEF Shift
<1>4. d \in [1..(Len(s) - 1) -> S] /\ Len(s) - 1 \in Nat
  BY <1>1, <1>2, <1>3
<1>5. d \in Seq(S) /\ Len(d) = Len(s) - 1 /\ DOMAIN d = 1..(Len(s) - 1)
  BY <1>4
<1>6. \A j \in DOMAIN d : Shift(i, j) \in DOMAIN s \ {i} /\ d[j] = s[Shift(i, j)]
  BY <1>1, <1>2, <1>3, <1>5
<1>7. \A j, k \in DOMAIN d : Shift(i, j) = Shift(i, k) => j = k
  BY <1>1, <1>5 DEF Shift
<1>8. ASSUME NEW k \in DOMAIN s \ {i} PROVE \E j \in DOMAIN d : Shift(i, j) = k
  <2>1. CASE k < i
    BY <1>1, <1>5, <2>1 DEF Shift
  <2>2. CASE k > i
    <3>1. k - 1 \in DOMAIN d /\ Shift(i, k - 1) = k
      BY <1>1, <1>5, <2>2 DEF Shift
    <3> QED BY <3>1
  <2> QED BY <1>1, <2>1, <2>2
<1> QED BY <1>5, <1>6, <1>7, <1>8

LEMMA PartyFields ==
    ASSUME NEW party \in ActiveParty
    PROVE  /\ party.id \in 1..MaxParties /\ party.leader \in Players
           /\ party.leaderID \in CreatureIDs /\ party.members \in Seq(PartyMember)
           /\ \A m \in Entries(party.members) : m \in PartyMember
<1>1. party.members \in Seq(PartyMember)
  BY DEF ActiveParty
<1>2. \A m \in Entries(party.members) : m \in PartyMember
  BY <1>1 DEF Entries
<1> QED BY <1>1, <1>2 DEF ActiveParty

LEMMA MemberFields ==
    ASSUME NEW m \in PartyMember
    PROVE  m.def \in Players /\ m.cid \in CreatureIDs /\ m.ptr \in 0..MaxCreatures
BY DEF PartyMember

\* One player, one entry.
LEMMA OneEntry ==
    ASSUME NEW members, Unique(members), NEW m \in Entries(members), NEW n \in Entries(members),
           m.def = n.def
    PROVE  m = n
BY DEF Unique, Entries

LEMMA EntriesAre ==
    ASSUME NEW party, NEW p
    PROVE  /\ AllEntries(party) = Entries(party.members)
           /\ EntriesOf(party, p) = {m \in Entries(party.members) : m.def = p}
           /\ HasMember(party, p) <=> \E m \in Entries(party.members) : m.def = p
BY DEF AllEntries, EntriesOf, Entries, HasMember

LEMMA MemberDropped ==
    ASSUME NEW ms \in Seq(PartyMember), Unique(ms), NEW k \in DOMAIN ms
    PROVE  /\ DropIndex(ms, k) \in Seq(PartyMember) /\ Unique(DropIndex(ms, k))
           /\ Entries(DropIndex(ms, k)) = {m \in Entries(ms) : m.def # ms[k].def}
<1>1. PICK d : d = DropIndex(ms, k)
  OBVIOUS
<1>2. /\ d \in Seq(PartyMember)
      /\ \A j \in DOMAIN d : Shift(k, j) \in DOMAIN ms \ {k} /\ d[j] = ms[Shift(k, j)]
      /\ \A i, j \in DOMAIN d : Shift(k, i) = Shift(k, j) => i = j
      /\ \A i \in DOMAIN ms \ {k} : \E j \in DOMAIN d : Shift(k, j) = i
  BY <1>1, Dropped
<1>3. Unique(d)
  BY <1>2 DEF Unique
<1>4. \A j \in DOMAIN d : d[j] \in Entries(ms) /\ d[j].def # ms[k].def
  BY <1>2 DEF Entries, Unique
<1>5. \A i \in DOMAIN ms : ms[i].def # ms[k].def => \E j \in DOMAIN d : d[j] = ms[i]
  BY <1>2
<1>6. Entries(d) = {m \in Entries(ms) : m.def # ms[k].def}
  BY <1>4, <1>5 DEF Entries
<1> QED BY <1>1, <1>2, <1>3, <1>6

\* RemoveMember takes out the entry of p and no other.
LEMMA RemainingAre ==
    ASSUME NEW party \in ActiveParty, Unique(party.members), NEW p
    PROVE  /\ Remaining(party, p) \in Seq(PartyMember) /\ Unique(Remaining(party, p))
           /\ Entries(Remaining(party, p)) = {m \in Entries(party.members) : m.def # p}
<1>1. PICK ms \in Seq(PartyMember) : ms = party.members
  BY PartyFields
<1> DEFINE found == {j \in DOMAIN ms : ms[j].def = p}
           k == First(found)
<1>2. found \in SUBSET (Nat \ {0})
  OBVIOUS
<1>3. (k = 0 <=> found = {}) /\ (k # 0 => k \in found)
  BY <1>2, FirstFound
<1>4. Remaining(party, p) = IF k = 0 THEN ms ELSE DropIndex(ms, k)
  BY <1>1 DEF Remaining
<1>5. CASE k = 0
  <2>1. \A j \in DOMAIN ms : ms[j].def # p
    BY <1>3, <1>5
  <2> HIDE DEF k
  <2> QED BY <1>1, <1>4, <1>5, <2>1 DEF Entries
<1>6. CASE k # 0
  <2>1. k \in DOMAIN ms /\ ms[k].def = p
    BY <1>3, <1>6
  <2> HIDE DEF k, found
  <2> QED BY <1>1, <1>4, <1>6, <2>1, MemberDropped
<1> QED BY <1>5, <1>6

\* Looking a party up finds it, or nothing.
LEMMA LookedUp ==
    ASSUME Types, NEW p
    PROVE  /\ GetPartyByID(p) # 0 =>
                 GetPartyByID(p) \in DOMAIN mPartyList /\ mPartyList[GetPartyByID(p)].id = p
           /\ GetPartyByLeader(p) # 0 =>
                 /\ GetPartyByLeader(p) \in DOMAIN mPartyList
                 /\ mPartyList[GetPartyByLeader(p)].leader = p
           /\ GetPartyWithMember(p) # 0 =>
                 /\ GetPartyWithMember(p) \in DOMAIN mPartyList
                 /\ HasMember(mPartyList[GetPartyWithMember(p)], p)
           /\ GetPartyWithMember(p) = 0 => \A i \in DOMAIN mPartyList : ~HasMember(mPartyList[i], p)
<1>1. DOMAIN mPartyList \in SUBSET (Nat \ {0})
  <2>1. DOMAIN mPartyList = 1..Len(mPartyList) /\ Len(mPartyList) \in Nat
    BY DEF Types
  <2> QED BY <2>1
<1>2. {i \in DOMAIN mPartyList : mPartyList[i].id = p} \in SUBSET (Nat \ {0})
  BY <1>1
<1>3. {i \in DOMAIN mPartyList : mPartyList[i].leader = p} \in SUBSET (Nat \ {0})
  BY <1>1
<1>4. {i \in DOMAIN mPartyList : HasMember(mPartyList[i], p)} \in SUBSET (Nat \ {0})
  BY <1>1
<1>5. GetPartyByID(p) # 0 =>
        GetPartyByID(p) \in DOMAIN mPartyList /\ mPartyList[GetPartyByID(p)].id = p
  BY <1>2, FirstFound DEF GetPartyByID
<1>6. GetPartyByLeader(p) # 0 =>
        GetPartyByLeader(p) \in DOMAIN mPartyList /\ mPartyList[GetPartyByLeader(p)].leader = p
  BY <1>3, FirstFound DEF GetPartyByLeader
<1>7. /\ GetPartyWithMember(p) # 0 =>
           GetPartyWithMember(p) \in DOMAIN mPartyList /\ HasMember(mPartyList[GetPartyWithMember(p)], p)
      /\ GetPartyWithMember(p) = 0 => \A i \in DOMAIN mPartyList : ~HasMember(mPartyList[i], p)
  BY <1>4, FirstFound DEF GetPartyWithMember
<1> QED BY <1>5, <1>6, <1>7

-----------------------------------------------------------------------------
(* Every step keeps the invariant.                                         *)

\* PartyKnowsMembers, for one player.
Known(p, ids) ==
    \E i \in DOMAIN mPartyList :
       /\ mPartyList[i].id = ids[p]
       /\ \E m \in Entries(mPartyList[i].members) : m.def = p /\ Live(m)

LEMMA KnownIs == PartyKnowsMembers <=> \A p \in online : PartyID[p] # 0 => Known(p, PartyID)
BY EntriesAre DEF PartyKnowsMembers, Known

LEMMA InvHolds == Init => IInv
<1> SUFFICES ASSUME Init PROVE IInv
  OBVIOUS
<1>1. mPartyList \in Seq(ActiveParty) /\ DOMAIN mPartyList = {}
  BY DEF Init
<1>2. Types
  <2>1. 0 \in 0..MaxParties /\ 0 \in 0..MaxCreatures /\ 1 \in 1..(MaxParties + 1)
    BY PartyAssumption
  <2>2. PartyID \in [Players -> 0..MaxParties]
    BY <2>1 DEF Init
  <2>3. login \in [Players -> 0..MaxCreatures] /\ zone \in [Players -> 0..MaxCreatures]
    BY <2>1 DEF Init
  <2>4. online \subseteq Players /\ invited \subseteq Players \X Players /\ corrupted \in BOOLEAN
    BY DEF Init
  <2>5. nextPartyID \in 1..(MaxParties + 1) /\ creatures \in 0..MaxCreatures
    BY <2>1 DEF Init
  <2> QED BY <1>1, <2>2, <2>3, <2>4, <2>5 DEF Types
<1>3. Counts /\ Apart
  BY DEF Init, Counts, Apart
<1>4. Lists /\ Pointers /\ LeaderCanAct
  BY <1>1 DEF Lists, Pointers, LeaderCanAct
<1>5. PartyKnowsMembers
  BY DEF Init, PartyKnowsMembers
<1> QED BY <1>2, <1>3, <1>4, <1>5 DEF IInv

\* Steps that change invitations only, or nothing.
LEMMA InvitationsKeep ==
    ASSUME IInv, UNCHANGED <<mPartyList, nextPartyID, PartyID, online, places, corrupted>>,
           invited' \subseteq Players \X Players, \A inv \in invited' : inv[1] # inv[2]
    PROVE  IInv'
<1>1. Types' /\ Counts' /\ Lists' /\ Apart'
  BY DEF IInv, Types, Counts, Lists, Apart, places
<1>2. Pointers' /\ LeaderCanAct'
  BY DEF IInv, Pointers, LeaderCanAct, Live, CreatureID, places
<1>3. PartyKnowsMembers'
  BY DEF IInv, PartyKnowsMembers, EntriesOf, Live, places
<1> QED BY <1>1, <1>2, <1>3 DEF IInv

LEMMA InviteKeeps == ASSUME IInv, NEW p \in Players, NEW q \in Players, Invite(p, q) PROVE IInv'
<1>1. invited' = invited \cup {<<p, q>>} /\ p # q
  BY DEF Invite
<1>2. invited' \subseteq Players \X Players /\ \A inv \in invited' : inv[1] # inv[2]
  BY <1>1 DEF IInv, Types, Apart
<1> QED BY <1>2, InvitationsKeep DEF Invite

LEMMA RejectKeeps == ASSUME IInv, NEW p \in Players, NEW q \in Players, RejectInvite(p, q) PROVE IInv'
<1>1. invited' \subseteq Players \X Players /\ \A inv \in invited' : inv[1] # inv[2]
  BY DEF IInv, Types, Apart, RejectInvite
<1> QED BY <1>1, InvitationsKeep DEF RejectInvite

(***************************************************************************)
(* Steps that take members or whole parties away or hand parties over: a   *)
(* party that is left was there before, has no new member, and is led by   *)
(* the leader it had or by a member; whoever keeps his PartyID keeps his   *)
(* entry.                                                                  *)
(***************************************************************************)
LEMMA ShrinkKeeps ==
    ASSUME IInv, UNCHANGED <<nextPartyID, online, places, invited>>, corrupted' \in BOOLEAN,
           mPartyList' \in Seq(ActiveParty),
           \A i, j \in DOMAIN mPartyList' : mPartyList'[i].id = mPartyList'[j].id => i = j,
           \A j \in DOMAIN mPartyList' :
              /\ Unique(mPartyList'[j].members)
              /\ \E i \in DOMAIN mPartyList :
                    /\ mPartyList'[j].id = mPartyList[i].id
                    /\ Entries(mPartyList'[j].members) \subseteq Entries(mPartyList[i].members)
                    /\ \/ /\ mPartyList'[j].leader = mPartyList[i].leader
                          /\ mPartyList'[j].leaderID = mPartyList[i].leaderID
                       \/ \E m \in Entries(mPartyList'[j].members) :
                             mPartyList'[j].leader = m.def /\ mPartyList'[j].leaderID = m.cid,
           PartyID' \in [Players -> 0..MaxParties],
           \A p \in Players : PartyID'[p] \in {0, PartyID[p]},
           \A p \in online : PartyID'[p] # 0 =>
              \E j \in DOMAIN mPartyList' :
                 /\ mPartyList'[j].id = PartyID[p]
                 /\ \E m \in Entries(mPartyList'[j].members) : m.def = p /\ Live(m)
    PROVE  IInv'
<1>1. \A m : Live(m)' <=> Live(m)
  BY DEF Live, places
<1>2. \A p : CreatureID(p)' = CreatureID(p)
  BY DEF CreatureID, places
<1>3. Types' /\ Counts'
  BY DEF IInv, Types, Counts, places
<1>4. Lists'
  BY DEF IInv, Lists
<1>5. Pointers'
  <2> SUFFICES ASSUME NEW j \in DOMAIN mPartyList', NEW m \in Entries(mPartyList'[j].members)
               PROVE  m.ptr <= zone[m.def] /\ (Live(m) => m.cid = CreatureID(m.def))
    BY <1>1, <1>2 DEF Pointers, places
  <2>1. PICK i \in DOMAIN mPartyList : m \in Entries(mPartyList[i].members)
    OBVIOUS
  <2> QED BY <2>1 DEF IInv, Pointers
<1>6. Apart'
  BY DEF IInv, Apart
<1>7. PartyKnowsMembers'
  <2> SUFFICES ASSUME NEW p \in online, PartyID'[p] # 0
               PROVE  \E j \in DOMAIN mPartyList' :
                         /\ mPartyList'[j].id = PartyID'[p]
                         /\ \E m \in EntriesOf(mPartyList'[j], p) : Live(m)'
    BY DEF PartyKnowsMembers
  <2>1. p \in Players /\ PartyID'[p] = PartyID[p]
    BY DEF IInv, Types
  <2> QED BY <1>1, <2>1, EntriesAre
<1>8. LeaderCanAct'
  <2> SUFFICES ASSUME NEW p \in online, NEW j \in DOMAIN mPartyList',
                      mPartyList'[j].id = PartyID'[p], mPartyList'[j].leader = p
               PROVE  mPartyList'[j].leaderID = CreatureID(p)
    BY <1>2 DEF LeaderCanAct
  <2>1. p \in Players /\ PartyID'[p] # 0 /\ PartyID'[p] = PartyID[p]
    <3>1. mPartyList'[j] \in ActiveParty
      OBVIOUS
    <3>2. mPartyList'[j].id # 0
      BY <3>1, PartyFields, PartyAssumption
    <3> QED BY <3>2 DEF IInv, Types
  <2>2. PICK i \in DOMAIN mPartyList :
           /\ mPartyList'[j].id = mPartyList[i].id
           /\ Entries(mPartyList'[j].members) \subseteq Entries(mPartyList[i].members)
           /\ \/ /\ mPartyList'[j].leader = mPartyList[i].leader
                 /\ mPartyList'[j].leaderID = mPartyList[i].leaderID
              \/ \E m \in Entries(mPartyList'[j].members) :
                    mPartyList'[j].leader = m.def /\ mPartyList'[j].leaderID = m.cid
    OBVIOUS
  <2>3. CASE /\ mPartyList'[j].leader = mPartyList[i].leader
             /\ mPartyList'[j].leaderID = mPartyList[i].leaderID
    BY <2>1, <2>2, <2>3 DEF IInv, LeaderCanAct
  <2>4. ASSUME NEW m \in Entries(mPartyList'[j].members),
               mPartyList'[j].leader = m.def, mPartyList'[j].leaderID = m.cid
        PROVE  mPartyList'[j].leaderID = CreatureID(p)
    <3>1. PICK k \in DOMAIN mPartyList' :
             /\ mPartyList'[k].id = PartyID[p]
             /\ \E n \in Entries(mPartyList'[k].members) : n.def = p /\ Live(n)
      BY <2>1
    <3>2. k = j
      BY <2>1, <3>1
    <3>3. PICK n \in Entries(mPartyList'[j].members) : n.def = p /\ Live(n)
      BY <3>1, <3>2
    <3>4. n = m
      BY <2>4, <3>3, OneEntry
    <3>5. m \in Entries(mPartyList[i].members) /\ Live(m)
      BY <2>2, <3>3, <3>4
    <3>6. m.cid = CreatureID(m.def)
      BY <3>5 DEF IInv, Pointers
    <3> QED BY <2>4, <3>6
  <2> QED BY <2>2, <2>3, <2>4
<1> QED BY <1>3, <1>4, <1>5, <1>6, <1>7, <1>8 DEF IInv

LEMMA Cleared ==
    ASSUME Types, NEW self, NEW dropped, ClearPartyIDs(self, dropped)
    PROVE  /\ PartyID' \in [Players -> 0..MaxParties] /\ corrupted' \in BOOLEAN
           /\ \A p \in Players :
                 /\ PartyID'[p] \in {0, PartyID[p]}
                 /\ PartyID'[p] # 0 => p \notin self /\ ~\E m \in dropped : m.def = p /\ Live(m)
<1>1. corrupted' \in BOOLEAN
  BY DEF ClearPartyIDs
<1>2. PartyID' \in [Players -> 0..MaxParties]
  BY PartyAssumption DEF ClearPartyIDs, Types
<1>3. \A p \in Players :
         /\ PartyID'[p] \in {0, PartyID[p]}
         /\ PartyID'[p] # 0 => p \notin self /\ ~\E m \in dropped : m.def = p /\ Live(m)
  BY DEF ClearPartyIDs
<1> QED BY <1>1, <1>2, <1>3

LEMMA SetLeaderKeeps ==
    ASSUME IInv, NEW p \in Players, NEW id \in CreatureIDs, DoSetLeader(p, id) PROVE IInv'
<1>1. PICK i \in DOMAIN mPartyList : i = GetPartyByID(PartyID[p])
  BY LookedUp DEF IInv, DoSetLeader
<1>2. PICK k \in DOMAIN mPartyList[i].members :
         mPartyList' = [mPartyList EXCEPT ![i].leader = mPartyList[i].members[k].def,
                                          ![i].leaderID = mPartyList[i].members[k].cid]
  BY <1>1 DEF DoSetLeader
<1>3. PICK m : m = mPartyList[i].members[k] /\ m \in Entries(mPartyList[i].members)
  BY DEF Entries
<1>4. mPartyList \in Seq(ActiveParty) /\ mPartyList[i] \in ActiveParty
  BY DEF IInv, Types
<1>5. m.def \in Players /\ m.cid \in CreatureIDs
  BY <1>3, <1>4, PartyFields, MemberFields
<1>6. /\ DOMAIN mPartyList' = DOMAIN mPartyList
      /\ \A j \in DOMAIN mPartyList : j # i => mPartyList'[j] = mPartyList[j]
      /\ mPartyList'[i] = [[mPartyList[i] EXCEPT !.leader = m.def] EXCEPT !.leaderID = m.cid]
  BY <1>2, <1>3
<1>7. /\ mPartyList'[i] \in ActiveParty /\ mPartyList'[i].id = mPartyList[i].id
      /\ mPartyList'[i].members = mPartyList[i].members
      /\ mPartyList'[i].leader = m.def /\ mPartyList'[i].leaderID = m.cid
  BY <1>4, <1>5, <1>6 DEF ActiveParty
<1>8. mPartyList' \in Seq(ActiveParty)
  <2>1. mPartyList' = [mPartyList EXCEPT ![i] = mPartyList'[i]]
    BY <1>2, <1>4, <1>6
  <2> QED BY <1>4, <1>7, <2>1
<1>9. \A j \in DOMAIN mPartyList : /\ mPartyList'[j].id = mPartyList[j].id
                                   /\ mPartyList'[j].members = mPartyList[j].members
  BY <1>6, <1>7
<1>10. UNCHANGED <<nextPartyID, PartyID, online, places, invited, corrupted>>
  BY DEF DoSetLeader
<1>11. \A j \in DOMAIN mPartyList' :
          /\ Unique(mPartyList'[j].members)
          /\ \E l \in DOMAIN mPartyList :
                /\ mPartyList'[j].id = mPartyList[l].id
                /\ Entries(mPartyList'[j].members) \subseteq Entries(mPartyList[l].members)
                /\ \/ /\ mPartyList'[j].leader = mPartyList[l].leader
                      /\ mPartyList'[j].leaderID = mPartyList[l].leaderID
                   \/ \E n \in Entries(mPartyList'[j].members) :
                         mPartyList'[j].leader = n.def /\ mPartyList'[j].leaderID = n.cid
  <2> SUFFICES ASSUME NEW j \in DOMAIN mPartyList
               PROVE  /\ Unique(mPartyList'[j].members)
                      /\ \/ /\ mPartyList'[j].leader = mPartyList[j].leader
                            /\ mPartyList'[j].leaderID = mPartyList[j].leaderID
                         \/ \E n \in Entries(mPartyList'[j].members) :
                               mPartyList'[j].leader = n.def /\ mPartyList'[j].leaderID = n.cid
    BY <1>6, <1>9
  <2>1. Unique(mPartyList'[j].members)
    BY <1>9 DEF IInv, Lists
  <2>2. CASE j = i
    BY <1>3, <1>7, <2>1, <2>2
  <2>3. CASE j # i
    BY <1>6, <2>1, <2>3
  <2> QED BY <2>2, <2>3
<1>12. \A q \in online : PartyID'[q] # 0 =>
          \E j \in DOMAIN mPartyList' :
             /\ mPartyList'[j].id = PartyID[q]
             /\ \E n \in Entries(mPartyList'[j].members) : n.def = q /\ Live(n)
  BY <1>6, <1>9, <1>10, KnownIs DEF IInv, Known
<1>13. \A j, l \in DOMAIN mPartyList' : mPartyList'[j].id = mPartyList'[l].id => j = l
  BY <1>6, <1>9 DEF IInv, Lists
<1>14. corrupted' \in BOOLEAN /\ PartyID' \in [Players -> 0..MaxParties]
  BY <1>10 DEF IInv, Types
<1> QED BY <1>8, <1>10, <1>11, <1>12, <1>13, <1>14, ShrinkKeeps

-----------------------------------------------------------------------------
(* Members and parties that go.                                            *)

LEMMA PartyDropped ==
    ASSUME NEW list \in Seq(ActiveParty),
           \A i, j \in DOMAIN list : list[i].id = list[j].id => i = j,
           NEW gone \in DOMAIN list, NEW d, d = DropIndex(list, gone)
    PROVE  /\ d \in Seq(ActiveParty)
           /\ \A i, j \in DOMAIN d : d[i].id = d[j].id => i = j
           /\ \A j \in DOMAIN d : \E i \in DOMAIN list : d[j] = list[i]
           /\ \A i \in DOMAIN list \ {gone} : \E j \in DOMAIN d : d[j] = list[i]
<1>1. /\ d \in Seq(ActiveParty)
      /\ \A j \in DOMAIN d : Shift(gone, j) \in DOMAIN list \ {gone} /\ d[j] = list[Shift(gone, j)]
      /\ \A i, j \in DOMAIN d : Shift(gone, i) = Shift(gone, j) => i = j
      /\ \A i \in DOMAIN list \ {gone} : \E j \in DOMAIN d : Shift(gone, j) = i
  BY Dropped
<1> QED BY <1>1

\* The new leader is the old one or a member.
LEMMA LeaderDropped ==
    ASSUME NEW party \in ActiveParty, NEW ms \in Seq(PartyMember), NEW id,
           NEW left, left = UpdateLeaderDropped([party EXCEPT !.members = ms], id)
    PROVE  /\ left \in ActiveParty /\ left.id = party.id /\ left.members = ms
           /\ \/ left.leader = party.leader /\ left.leaderID = party.leaderID
              \/ \E m \in Entries(ms) : left.leader = m.def /\ left.leaderID = m.cid
<1>1. PICK rest : rest = [party EXCEPT !.members = ms]
  OBVIOUS
<1>2. /\ rest \in ActiveParty /\ rest.id = party.id /\ rest.members = ms
      /\ rest.leader = party.leader /\ rest.leaderID = party.leaderID
  BY <1>1 DEF ActiveParty
<1>3. CASE ~(rest.leaderID = id /\ rest.members # <<>>)
  <2>1. left = rest
    BY <1>1, <1>3 DEF UpdateLeaderDropped
  <2> QED BY <1>2, <2>1
<1>4. CASE rest.leaderID = id /\ rest.members # <<>>
  <2>1. 1 \in DOMAIN ms
    BY <1>2, <1>4
  <2>2. PICK m \in Entries(ms) : m = ms[1]
    BY <2>1 DEF Entries
  <2>3. m \in PartyMember
    BY <2>1, <2>2
  <2>4. m.def \in Players /\ m.cid \in CreatureIDs
    BY <2>3, MemberFields
  <2>5. left = [[rest EXCEPT !.leader = m.def] EXCEPT !.leaderID = m.cid]
    BY <1>1, <1>2, <1>4, <2>2 DEF UpdateLeaderDropped
  <2>6. /\ left \in ActiveParty /\ left.id = rest.id /\ left.members = rest.members
        /\ left.leader = m.def /\ left.leaderID = m.cid
    BY <1>2, <2>4, <2>5 DEF ActiveParty
  <2> QED BY <1>2, <2>2, <2>6
<1> QED BY <1>3, <1>4

LEMMA RemoveKeeps ==
    ASSUME IInv, NEW i \in DOMAIN mPartyList, NEW p, NEW id, NEW self,
           RemoveFrom(i, p, id, self), UNCHANGED <<nextPartyID, online, places, invited>>
    PROVE  IInv'
<1>1. PICK party \in ActiveParty : party = mPartyList[i] /\ Unique(party.members)
  BY DEF IInv, Types, Lists
<1>2. PICK ms \in Seq(PartyMember) :
         /\ ms = Remaining(party, p) /\ Unique(ms)
         /\ Entries(ms) = {m \in Entries(party.members) : m.def # p}
  BY <1>1, RemainingAre
<1>3. [party EXCEPT !.members = ms].members = ms
  BY DEF ActiveParty
<1>4. /\ mPartyList \in Seq(ActiveParty)
      /\ \A j, k \in DOMAIN mPartyList : mPartyList[j].id = mPartyList[k].id => j = k
      /\ \A j \in DOMAIN mPartyList : Unique(mPartyList[j].members)
  BY DEF IInv, Types, Lists
<1>5. CASE Len(ms) <= 1
  <2>1. mPartyList' = DropIndex(mPartyList, i) /\ ClearPartyIDs(self, AllEntries(party))
    BY <1>1, <1>2, <1>3, <1>5 DEF RemoveFrom
  <2>2. /\ mPartyList' \in Seq(ActiveParty)
        /\ \A j, k \in DOMAIN mPartyList' : mPartyList'[j].id = mPartyList'[k].id => j = k
        /\ \A j \in DOMAIN mPartyList' : \E k \in DOMAIN mPartyList : mPartyList'[j] = mPartyList[k]
        /\ \A k \in DOMAIN mPartyList \ {i} : \E j \in DOMAIN mPartyList' : mPartyList'[j] = mPartyList[k]
    BY <1>4, <2>1, PartyDropped
  <2>3. /\ PartyID' \in [Players -> 0..MaxParties] /\ corrupted' \in BOOLEAN
        /\ \A q \in Players :
              /\ PartyID'[q] \in {0, PartyID[q]}
              /\ PartyID'[q] # 0 => ~\E m \in Entries(party.members) : m.def = q /\ Live(m)
    <3>1. ClearPartyIDs(self, Entries(party.members))
      BY <2>1, EntriesAre
    <3> QED BY <3>1, Cleared DEF IInv
  <2>4. ASSUME NEW q \in online, PartyID'[q] # 0
        PROVE  \E j \in DOMAIN mPartyList' :
                  /\ mPartyList'[j].id = PartyID[q]
                  /\ \E m \in Entries(mPartyList'[j].members) : m.def = q /\ Live(m)
    <3>1. q \in Players
      BY DEF IInv, Types
    <3>2. Known(q, PartyID)
      BY <2>3, <2>4, <3>1, KnownIs DEF IInv
    <3>3. PICK k \in DOMAIN mPartyList :
             /\ mPartyList[k].id = PartyID[q]
             /\ \E m \in Entries(mPartyList[k].members) : m.def = q /\ Live(m)
      BY <3>2 DEF Known
    <3>4. k # i
      BY <1>1, <2>3, <2>4, <3>1, <3>3
    <3>5. PICK j \in DOMAIN mPartyList' : mPartyList'[j] = mPartyList[k]
      BY <2>2, <3>4
    <3> QED BY <3>3, <3>5
  <2>5. \A j \in DOMAIN mPartyList' :
           /\ Unique(mPartyList'[j].members)
           /\ \E k \in DOMAIN mPartyList :
                 /\ mPartyList'[j].id = mPartyList[k].id
                 /\ Entries(mPartyList'[j].members) \subseteq Entries(mPartyList[k].members)
                 /\ \/ /\ mPartyList'[j].leader = mPartyList[k].leader
                       /\ mPartyList'[j].leaderID = mPartyList[k].leaderID
                    \/ \E m \in Entries(mPartyList'[j].members) :
                          mPartyList'[j].leader = m.def /\ mPartyList'[j].leaderID = m.cid
    <3> SUFFICES ASSUME NEW j \in DOMAIN mPartyList', NEW k \in DOMAIN mPartyList,
                        mPartyList'[j] = mPartyList[k]
                 PROVE  Unique(mPartyList[k].members)
      BY <2>2
    <3> QED BY <1>4
  <2> QED BY <2>2, <2>3, <2>4, <2>5, ShrinkKeeps
<1>6. CASE ~(Len(ms) <= 1)
  <2>1. PICK left : left = UpdateLeaderDropped([party EXCEPT !.members = ms], id)
    OBVIOUS
  <2>2. /\ left \in ActiveParty /\ left.id = party.id /\ left.members = ms
        /\ \/ left.leader = party.leader /\ left.leaderID = party.leaderID
           \/ \E m \in Entries(ms) : left.leader = m.def /\ left.leaderID = m.cid
    BY <2>1, LeaderDropped
  <2>3. mPartyList' = [mPartyList EXCEPT ![i] = left] /\ ClearPartyIDs(self, EntriesOf(party, p))
    BY <1>1, <1>2, <1>3, <1>6, <2>1 DEF RemoveFrom
  <2>4. /\ mPartyList' \in Seq(ActiveParty) /\ DOMAIN mPartyList' = DOMAIN mPartyList
        /\ \A j \in DOMAIN mPartyList : mPartyList'[j] = IF j = i THEN left ELSE mPartyList[j]
    BY <1>4, <2>2, <2>3
  <2>5. /\ PartyID' \in [Players -> 0..MaxParties] /\ corrupted' \in BOOLEAN
        /\ \A q \in Players :
              /\ PartyID'[q] \in {0, PartyID[q]}
              /\ PartyID'[q] # 0 => ~\E m \in EntriesOf(party, p) : m.def = q /\ Live(m)
    BY <2>3, Cleared DEF IInv
  <2>6. ASSUME NEW q \in online, PartyID'[q] # 0
        PROVE  \E j \in DOMAIN mPartyList' :
                  /\ mPartyList'[j].id = PartyID[q]
                  /\ \E m \in Entries(mPartyList'[j].members) : m.def = q /\ Live(m)
    <3>1. q \in Players
      BY DEF IInv, Types
    <3>2. Known(q, PartyID)
      BY <2>5, <2>6, <3>1, KnownIs DEF IInv
    <3>3. PICK k \in DOMAIN mPartyList :
             /\ mPartyList[k].id = PartyID[q]
             /\ \E m \in Entries(mPartyList[k].members) : m.def = q /\ Live(m)
      BY <3>2 DEF Known
    <3>4. CASE k # i
      BY <2>4, <3>3, <3>4
    <3>5. CASE k = i
      <4>1. PICK m \in Entries(party.members) : m.def = q /\ Live(m)
        BY <1>1, <3>3, <3>5
      <4>2. q # p
        BY <2>5, <2>6, <3>1, <4>1, EntriesAre
      <4>3. m \in Entries(left.members)
        BY <1>2, <2>2, <4>1, <4>2
      <4>4. mPartyList'[i] = left /\ left.id = PartyID[q]
        BY <1>1, <2>2, <2>4, <3>3, <3>5
      <4> QED BY <2>4, <4>1, <4>3, <4>4
    <3> QED BY <3>4, <3>5
  <2>7. \A j \in DOMAIN mPartyList' :
           /\ Unique(mPartyList'[j].members)
           /\ \E k \in DOMAIN mPartyList :
                 /\ mPartyList'[j].id = mPartyList[k].id
                 /\ Entries(mPartyList'[j].members) \subseteq Entries(mPartyList[k].members)
                 /\ \/ /\ mPartyList'[j].leader = mPartyList[k].leader
                       /\ mPartyList'[j].leaderID = mPartyList[k].leaderID
                    \/ \E m \in Entries(mPartyList'[j].members) :
                          mPartyList'[j].leader = m.def /\ mPartyList'[j].leaderID = m.cid
    <3> SUFFICES ASSUME NEW j \in DOMAIN mPartyList
                 PROVE  /\ Unique(mPartyList'[j].members)
                        /\ mPartyList'[j].id = mPartyList[j].id
                        /\ Entries(mPartyList'[j].members) \subseteq Entries(mPartyList[j].members)
                        /\ \/ /\ mPartyList'[j].leader = mPartyList[j].leader
                              /\ mPartyList'[j].leaderID = mPartyList[j].leaderID
                           \/ \E m \in Entries(mPartyList'[j].members) :
                                 mPartyList'[j].leader = m.def /\ mPartyList'[j].leaderID = m.cid
      BY <2>4
    <3>1. CASE j = i
      <4>1. mPartyList'[j] = left /\ mPartyList[j] = party
        BY <1>1, <2>4, <3>1
      <4> QED BY <1>2, <2>2, <4>1
    <3>2. CASE j # i
      BY <1>4, <2>4, <3>2
    <3> QED BY <3>1, <3>2
  <2>8. \A j \in DOMAIN mPartyList : mPartyList'[j].id = mPartyList[j].id
    BY <1>1, <2>2, <2>4
  <2>9. \A j, k \in DOMAIN mPartyList' : mPartyList'[j].id = mPartyList'[k].id => j = k
    BY <1>4, <2>4, <2>8
  <2> QED BY <2>4, <2>5, <2>6, <2>7, <2>9, ShrinkKeeps
<1> QED BY <1>5, <1>6

LEMMA KickKeeps ==
    ASSUME IInv, NEW p \in Players, NEW id \in CreatureIDs, DoKick(p, id) PROVE IInv'
<1>1. PICK i \in DOMAIN mPartyList : i = GetPartyByID(PartyID[p])
  BY LookedUp DEF IInv, DoKick
<1>2. \E q, dropped : RemoveFrom(i, q, dropped, {})
  BY <1>1 DEF DoKick
<1>3. UNCHANGED <<nextPartyID, online, places, invited>>
  BY DEF DoKick
<1> QED BY <1>2, <1>3, RemoveKeeps

LEMMA QuitKeeps == ASSUME IInv, NEW p \in Players, DoQuit(p) PROVE IInv'
<1>1. PICK i \in DOMAIN mPartyList : i = GetPartyByID(PartyID[p])
  BY LookedUp DEF IInv, DoQuit
<1>2. RemoveFrom(i, p, CreatureID(p), {p})
  BY <1>1 DEF DoQuit
<1>3. UNCHANGED <<nextPartyID, online, places, invited>>
  BY DEF DoQuit
<1> QED BY <1>2, <1>3, RemoveKeeps

LEMMA DestroyKeeps == ASSUME IInv, DebugDestroyParties PROVE IInv'
<1> DEFINE all == UNION {AllEntries(mPartyList[i]) : i \in DOMAIN mPartyList}
<1>1. /\ mPartyList' = <<>> /\ ClearPartyIDs({}, all)
      /\ UNCHANGED <<nextPartyID, online, places, invited>>
  BY DEF DebugDestroyParties
<1>2. mPartyList' \in Seq(ActiveParty) /\ DOMAIN mPartyList' = {}
  BY <1>1
<1>3. /\ PartyID' \in [Players -> 0..MaxParties] /\ corrupted' \in BOOLEAN
      /\ \A q \in Players :
            /\ PartyID'[q] \in {0, PartyID[q]}
            /\ PartyID'[q] # 0 => ~\E m \in all : m.def = q /\ Live(m)
  <2> HIDE DEF all
  <2> QED BY <1>1, Cleared DEF IInv
<1>4. ASSUME NEW q \in online, PartyID'[q] # 0 PROVE FALSE
  <2>1. q \in Players
    BY DEF IInv, Types
  <2>2. Known(q, PartyID)
    BY <1>3, <1>4, <2>1, KnownIs DEF IInv
  <2>3. PICK k \in DOMAIN mPartyList : \E m \in Entries(mPartyList[k].members) : m.def = q /\ Live(m)
    BY <2>2 DEF Known
  <2>4. PICK m \in Entries(mPartyList[k].members) : m.def = q /\ Live(m)
    BY <2>3
  <2>5. m \in all
    BY <2>4, EntriesAre
  <2> QED BY <1>3, <1>4, <2>1, <2>4, <2>5
<1> QED BY <1>1, <1>2, <1>3, <1>4, ShrinkKeeps

\* What /partyquit leaves of the parties before the one it deletes.
MembersGone(p, last) ==
    [i \in DOMAIN mPartyList |->
       IF i < last THEN [mPartyList[i] EXCEPT !.members = Remaining(mPartyList[i], p)]
       ELSE mPartyList[i]]

LEMMA MembersGoneAre ==
    ASSUME Types, Lists, NEW p, NEW last, NEW removed, removed = MembersGone(p, last)
    PROVE  /\ removed \in Seq(ActiveParty) /\ DOMAIN removed = DOMAIN mPartyList
           /\ \A i \in DOMAIN mPartyList :
                 /\ removed[i].id = mPartyList[i].id
                 /\ removed[i].leader = mPartyList[i].leader
                 /\ removed[i].leaderID = mPartyList[i].leaderID
                 /\ Unique(removed[i].members)
                 /\ Entries(removed[i].members) \subseteq Entries(mPartyList[i].members)
                 /\ \A m \in Entries(mPartyList[i].members) :
                       m.def # p => m \in Entries(removed[i].members)
<1>1. mPartyList \in Seq(ActiveParty) /\ DOMAIN removed = DOMAIN mPartyList
  BY DEF Types, MembersGone
<1>2. ASSUME NEW i \in DOMAIN mPartyList
      PROVE  /\ removed[i] \in ActiveParty
             /\ removed[i].id = mPartyList[i].id
             /\ removed[i].leader = mPartyList[i].leader
             /\ removed[i].leaderID = mPartyList[i].leaderID
             /\ Unique(removed[i].members)
             /\ Entries(removed[i].members) \subseteq Entries(mPartyList[i].members)
             /\ \A m \in Entries(mPartyList[i].members) :
                   m.def # p => m \in Entries(removed[i].members)
  <2>1. PICK party \in ActiveParty : party = mPartyList[i] /\ Unique(party.members)
    BY <1>1 DEF Lists
  <2>2. PICK ms \in Seq(PartyMember) :
           /\ ms = Remaining(party, p) /\ Unique(ms)
           /\ Entries(ms) = {m \in Entries(party.members) : m.def # p}
    BY <2>1, RemainingAre
  <2>3. CASE i < last
    <3>1. removed[i] = [party EXCEPT !.members = ms]
      BY <2>1, <2>2, <2>3 DEF MembersGone
    <3>2. /\ removed[i] \in ActiveParty /\ removed[i].members = ms
          /\ removed[i].id = party.id /\ removed[i].leader = party.leader
          /\ removed[i].leaderID = party.leaderID
      BY <3>1 DEF ActiveParty
    <3> QED BY <2>1, <2>2, <3>2
  <2>4. CASE ~(i < last)
    <3>1. removed[i] = party
      BY <2>1, <2>4 DEF MembersGone
    <3> QED BY <2>1, <3>1
  <2> QED BY <2>3, <2>4
<1>3. removed \in Seq(ActiveParty)
  <2>1. Len(mPartyList) \in Nat /\ DOMAIN mPartyList = 1..Len(mPartyList)
    BY <1>1
  <2>2. removed = [i \in DOMAIN removed |-> removed[i]]
    BY DEF MembersGone
  <2>3. removed \in [1..Len(mPartyList) -> ActiveParty]
    BY <1>1, <1>2, <2>1, <2>2
  <2> QED BY <2>1, <2>3
<1> QED BY <1>1, <1>2, <1>3

LEMMA ForceRemoveKeeps == ASSUME IInv, NEW p \in Players, DebugForceRemove(p) PROVE IInv'
<1> DEFINE dies(party) == IF HasMember(party, p) THEN Len(Remaining(party, p)) <= 1
                          ELSE party.leader = p
           found == {i \in DOMAIN mPartyList : dies(mPartyList[i])}
<1>1. PICK dead : dead = First(found)
  OBVIOUS
<1>2. PICK last : last = IF dead = 0 THEN Len(mPartyList) + 1 ELSE dead
  OBVIOUS
<1>3. PICK removed : removed = MembersGone(p, last)
  OBVIOUS
<1>4. PICK dropped :
         dropped = UNION {IF i = dead THEN AllEntries(mPartyList[i])
                          ELSE EntriesOf(mPartyList[i], p) : i \in DOMAIN mPartyList \cap 1..last}
  OBVIOUS
<1>5. /\ mPartyList' = IF dead = 0 THEN removed ELSE DropIndex(removed, dead)
      /\ ClearPartyIDs({p}, dropped)
      /\ UNCHANGED <<nextPartyID, online, places, invited>>
  BY <1>1, <1>2, <1>3, <1>4 DEF DebugForceRemove, MembersGone
<1>6. DOMAIN mPartyList = 1..Len(mPartyList) /\ Len(mPartyList) \in Nat
  BY DEF IInv, Types
<1>7. dead # 0 => dead \in DOMAIN mPartyList /\ dead \in 1..last
  <2>1. found \in SUBSET (Nat \ {0})
    BY <1>6
  <2>2. dead # 0 => dead \in found
    <3> HIDE DEF found
    <3> QED BY <1>1, <2>1, FirstFound
  <2> QED BY <1>2, <1>6, <2>2
<1> HIDE DEF found, dies
<1>8. /\ removed \in Seq(ActiveParty) /\ DOMAIN removed = DOMAIN mPartyList
      /\ \A i \in DOMAIN mPartyList :
            /\ removed[i].id = mPartyList[i].id
            /\ removed[i].leader = mPartyList[i].leader
            /\ removed[i].leaderID = mPartyList[i].leaderID
            /\ Unique(removed[i].members)
            /\ Entries(removed[i].members) \subseteq Entries(mPartyList[i].members)
            /\ \A m \in Entries(mPartyList[i].members) :
                  m.def # p => m \in Entries(removed[i].members)
  <2>1. Types /\ Lists
    BY DEF IInv
  <2> QED BY <1>3, <2>1, MembersGoneAre
<1>9. \A i, j \in DOMAIN removed : removed[i].id = removed[j].id => i = j
  BY <1>8 DEF IInv, Lists
<1>10. /\ mPartyList' \in Seq(ActiveParty)
       /\ \A i, j \in DOMAIN mPartyList' : mPartyList'[i].id = mPartyList'[j].id => i = j
       /\ \A j \in DOMAIN mPartyList' : \E i \in DOMAIN removed : mPartyList'[j] = removed[i]
       /\ \A i \in DOMAIN removed : i # dead => \E j \in DOMAIN mPartyList' : mPartyList'[j] = removed[i]
  <2>1. CASE dead = 0
    <3>1. mPartyList' = removed
      BY <1>5, <2>1
    <3> QED BY <1>8, <1>9, <3>1
  <2>2. CASE dead # 0
    <3>1. mPartyList' = DropIndex(removed, dead) /\ dead \in DOMAIN removed
      BY <1>5, <1>7, <1>8, <2>2
    <3>2. \A i \in DOMAIN removed \ {dead} : \E j \in DOMAIN mPartyList' : mPartyList'[j] = removed[i]
      BY <1>8, <1>9, <3>1, PartyDropped
    <3> QED BY <1>8, <1>9, <3>1, <3>2, PartyDropped
  <2> QED BY <2>1, <2>2
<1>11. /\ PartyID' \in [Players -> 0..MaxParties] /\ corrupted' \in BOOLEAN
       /\ \A q \in Players :
             /\ PartyID'[q] \in {0, PartyID[q]}
             /\ PartyID'[q] # 0 => q # p /\ ~\E m \in dropped : m.def = q /\ Live(m)
  BY <1>5, Cleared DEF IInv
<1>12. ASSUME NEW q \in online, PartyID'[q] # 0
       PROVE  \E j \in DOMAIN mPartyList' :
                 /\ mPartyList'[j].id = PartyID[q]
                 /\ \E m \in Entries(mPartyList'[j].members) : m.def = q /\ Live(m)
  <2>1. q \in Players
    BY DEF IInv, Types
  <2>2. Known(q, PartyID)
    BY <1>11, <1>12, <2>1, KnownIs DEF IInv
  <2> DEFINE his(i, m) == mPartyList[i].id = PartyID[q] /\ m.def = q /\ Live(m)
  <2>7. PICK k \in DOMAIN mPartyList : \E m \in Entries(mPartyList[k].members) : his(k, m)
    BY <2>2 DEF Known
  <2>3. PICK m \in Entries(mPartyList[k].members) : his(k, m)
    BY <2>7
  <2>4. k # dead
    <3> SUFFICES ASSUME k = dead PROVE FALSE
      OBVIOUS
    <3>1. k \in DOMAIN mPartyList \cap 1..last
      BY <1>6, <1>7
    <3>2. m \in AllEntries(mPartyList[k])
      BY EntriesAre
    <3>3. m \in dropped
      BY <1>4, <3>1, <3>2
    <3> QED BY <1>11, <1>12, <2>1, <2>3, <3>3
  <2>5. PICK j \in DOMAIN mPartyList' : mPartyList'[j] = removed[k]
    BY <1>8, <1>10, <2>4
  <2>6. m \in Entries(removed[k].members) /\ removed[k].id = PartyID[q]
    BY <1>8, <1>11, <1>12, <2>1, <2>3
  <2> QED BY <2>3, <2>5, <2>6
<1>13. \A j \in DOMAIN mPartyList' :
          /\ Unique(mPartyList'[j].members)
          /\ \E i \in DOMAIN mPartyList :
                /\ mPartyList'[j].id = mPartyList[i].id
                /\ Entries(mPartyList'[j].members) \subseteq Entries(mPartyList[i].members)
                /\ \/ /\ mPartyList'[j].leader = mPartyList[i].leader
                      /\ mPartyList'[j].leaderID = mPartyList[i].leaderID
                   \/ \E m \in Entries(mPartyList'[j].members) :
                         mPartyList'[j].leader = m.def /\ mPartyList'[j].leaderID = m.cid
  <2> SUFFICES ASSUME NEW j \in DOMAIN mPartyList'
               PROVE  /\ Unique(mPartyList'[j].members)
                      /\ \E i \in DOMAIN mPartyList :
                            /\ mPartyList'[j].id = mPartyList[i].id
                            /\ Entries(mPartyList'[j].members) \subseteq Entries(mPartyList[i].members)
                            /\ mPartyList'[j].leader = mPartyList[i].leader
                            /\ mPartyList'[j].leaderID = mPartyList[i].leaderID
    OBVIOUS
  <2>1. PICK i \in DOMAIN mPartyList : mPartyList'[j] = removed[i]
    BY <1>8, <1>10
  <2> QED BY <1>8, <2>1
<1> QED BY <1>5, <1>10, <1>11, <1>12, <1>13, ShrinkKeeps

-----------------------------------------------------------------------------
(* Members and parties that come.                                          *)

LEMMA NewMemberIs ==
    ASSUME Types, NEW p \in Players
    PROVE  /\ CreatureID(p) \in CreatureIDs
           /\ NewMember(p) \in PartyMember
           /\ NewMember(p).def = p /\ NewMember(p).cid = CreatureID(p) /\ NewMember(p).ptr = zone[p]
<1>1. login[p] \in 0..MaxCreatures /\ zone[p] \in 0..MaxCreatures
  BY DEF Types
<1>2. CreatureID(p) \in CreatureIDs
  BY <1>1 DEF CreatureID, CreatureIDs
<1>3. NewMember(p) = [def |-> p, cid |-> CreatureID(p), ptr |-> zone[p]]
  BY DEF NewMember
<1> QED BY <1>1, <1>2, <1>3 DEF PartyMember

(***************************************************************************)
(* Steps that give some players, the joiners, a new entry each in one      *)
(* party, at the end or not, that none of them leads under an old id.      *)
(***************************************************************************)
LEMMA JoinKeeps ==
    ASSUME IInv, UNCHANGED <<online, places, corrupted>>, invited' \subseteq invited,
           NEW joiners \in SUBSET online, NEW at \in DOMAIN mPartyList',
           mPartyList' \in Seq(ActiveParty), nextPartyID' \in 1..(MaxParties + 1),
           DOMAIN mPartyList \subseteq DOMAIN mPartyList',
           \A i, j \in DOMAIN mPartyList' : mPartyList'[i].id = mPartyList'[j].id => i = j,
           \A j \in DOMAIN mPartyList' :
              mPartyList'[j].id < nextPartyID' /\ Unique(mPartyList'[j].members),
           \A j \in DOMAIN mPartyList' : j # at => j \in DOMAIN mPartyList,
           \A j \in DOMAIN mPartyList : j # at => mPartyList'[j] = mPartyList[j],
           at \in DOMAIN mPartyList =>
              /\ mPartyList'[at].id = mPartyList[at].id
              /\ mPartyList'[at].leader = mPartyList[at].leader
              /\ mPartyList'[at].leaderID = mPartyList[at].leaderID
              /\ Entries(mPartyList[at].members) \subseteq Entries(mPartyList'[at].members),
           \A m \in Entries(mPartyList'[at].members) :
              \/ at \in DOMAIN mPartyList /\ m \in Entries(mPartyList[at].members)
              \/ m \in {NewMember(q) : q \in joiners},
           \A q \in joiners : NewMember(q) \in Entries(mPartyList'[at].members),
           mPartyList'[at].leader \in joiners =>
              mPartyList'[at].leaderID = CreatureID(mPartyList'[at].leader),
           at \notin DOMAIN mPartyList => \A q \in Players \ joiners : PartyID[q] # mPartyList'[at].id,
           PartyID' = [q \in Players |-> IF q \in joiners THEN mPartyList'[at].id ELSE PartyID[q]]
    PROVE  IInv'
<1>1. \A m : Live(m)' <=> Live(m)
  BY DEF Live, places
<1>2. \A q : CreatureID(q)' = CreatureID(q)
  BY DEF CreatureID, places
<1>3. PICK id : id = mPartyList'[at].id
  OBVIOUS
<1>4. id \in 1..MaxParties
  <2>1. mPartyList'[at] \in ActiveParty
    OBVIOUS
  <2> QED BY <1>3, <2>1, PartyFields
<1>5. /\ online \subseteq Players /\ joiners \subseteq Players
      /\ \A q \in joiners : PartyID'[q] = id
      /\ \A q \in Players \ joiners : PartyID'[q] = PartyID[q]
  BY <1>3 DEF IInv, Types
<1>6. Types'
  <2>1. PartyID' \in [Players -> 0..MaxParties]
    <3>1. PartyID \in [Players -> 0..MaxParties] /\ id \in 0..MaxParties
      BY <1>4, PartyAssumption DEF IInv, Types
    <3>2. PartyID' = [q \in Players |-> IF q \in joiners THEN id ELSE PartyID[q]]
      BY <1>3
    <3> QED BY <3>1, <3>2
  <2> QED BY <2>1 DEF IInv, Types, places
<1>7. Counts' /\ Lists'
  BY DEF IInv, Counts, Lists, places
<1>8. Pointers'
  <2> SUFFICES ASSUME NEW j \in DOMAIN mPartyList', NEW m \in Entries(mPartyList'[j].members)
               PROVE  m.ptr <= zone[m.def] /\ (Live(m) => m.cid = CreatureID(m.def))
    BY <1>1, <1>2 DEF Pointers, places
  <2>1. CASE j \in DOMAIN mPartyList /\ m \in Entries(mPartyList[j].members)
    BY <2>1 DEF IInv, Pointers
  <2>2. ASSUME NEW q \in joiners, m = NewMember(q)
        PROVE  m.ptr <= zone[m.def] /\ (Live(m) => m.cid = CreatureID(m.def))
    <3>1. m.def = q /\ m.cid = CreatureID(q) /\ m.ptr = zone[q]
      BY <1>5, <2>2, NewMemberIs DEF IInv
    <3>2. zone[q] <= zone[q]
      BY <1>5 DEF IInv, Types
    <3> QED BY <3>1, <3>2
  <2> QED BY <2>1, <2>2
<1>9. Apart'
  BY <1>5 DEF IInv, Apart
<1>10. PartyKnowsMembers'
  <2> SUFFICES ASSUME NEW q \in online, PartyID'[q] # 0
               PROVE  \E j \in DOMAIN mPartyList' :
                         /\ mPartyList'[j].id = PartyID'[q]
                         /\ \E m \in EntriesOf(mPartyList'[j], q) : Live(m)'
    BY DEF PartyKnowsMembers
  <2>1. CASE q \in joiners
    <3>1. NewMember(q).def = q /\ Live(NewMember(q))
      BY <1>5, NewMemberIs DEF IInv, Live
    <3> QED BY <1>1, <1>3, <1>5, <2>1, <3>1, EntriesAre
  <2>2. CASE q \notin joiners
    <3>1. Known(q, PartyID)
      BY <1>5, <2>2, KnownIs DEF IInv
    <3>2. PICK j \in DOMAIN mPartyList :
             /\ mPartyList[j].id = PartyID[q]
             /\ \E m \in Entries(mPartyList[j].members) : m.def = q /\ Live(m)
      BY <3>1 DEF Known
    <3>3. /\ mPartyList'[j].id = mPartyList[j].id
          /\ Entries(mPartyList[j].members) \subseteq Entries(mPartyList'[j].members)
      OBVIOUS
    <3> QED BY <1>1, <1>5, <2>2, <3>2, <3>3, EntriesAre
  <2> QED BY <2>1, <2>2
<1>11. LeaderCanAct'
  <2> SUFFICES ASSUME NEW q \in online, NEW j \in DOMAIN mPartyList',
                      mPartyList'[j].id = PartyID'[q], mPartyList'[j].leader = q
               PROVE  mPartyList'[j].leaderID = CreatureID(q)
    BY <1>2 DEF LeaderCanAct
  <2>1. CASE q \in joiners
    <3>1. j = at
      BY <1>3, <1>5, <2>1
    <3> QED BY <2>1, <3>1
  <2>2. CASE q \notin joiners
    <3>1. PartyID'[q] = PartyID[q]
      BY <1>5, <2>2
    <3>2. j \in DOMAIN mPartyList
      BY <1>5, <2>2, <3>1
    <3>3. /\ mPartyList'[j].id = mPartyList[j].id /\ mPartyList'[j].leader = mPartyList[j].leader
          /\ mPartyList'[j].leaderID = mPartyList[j].leaderID
      BY <3>2
    <3> QED BY <3>1, <3>2, <3>3 DEF IInv, LeaderCanAct
  <2> QED BY <2>1, <2>2
<1> QED BY <1>6, <1>7, <1>8, <1>9, <1>10, <1>11 DEF IInv

LEMMA AcceptKeeps ==
    ASSUME IInv, NEW p \in Players, NEW leader \in Players, AcceptInvite(p, leader) PROVE IInv'
<1>1. /\ p \in online /\ invited' \subseteq invited /\ p # leader
      /\ UNCHANGED <<online, places, corrupted>>
  BY DEF AcceptInvite, IInv, Apart
<1>2. /\ mPartyList \in Seq(ActiveParty)
      /\ DOMAIN mPartyList = 1..Len(mPartyList) /\ Len(mPartyList) \in Nat
      /\ PartyID \in [Players -> 0..MaxParties]
  BY DEF IInv, Types
<1>3. /\ \A i, j \in DOMAIN mPartyList : mPartyList[i].id = mPartyList[j].id => i = j
      /\ \A i \in DOMAIN mPartyList : mPartyList[i].id < nextPartyID /\ Unique(mPartyList[i].members)
  BY DEF IInv, Lists
<1>4. PICK i : i = GetPartyByLeader(leader)
  OBVIOUS
<1>5. CASE UNCHANGED <<mPartyList, nextPartyID, PartyID>>
  <2>1. invited' \subseteq Players \X Players /\ \A inv \in invited' : inv[1] # inv[2]
    BY <1>1 DEF IInv, Types, Apart
  <2> QED BY <1>1, <1>5, <2>1, InvitationsKeep
<1>6. CASE /\ leader \in online /\ nextPartyID <= MaxParties
           /\ mPartyList' = Append(mPartyList,
                 [id |-> nextPartyID, leader |-> leader, leaderID |-> CreatureID(leader),
                  members |-> <<NewMember(leader), NewMember(p)>>])
           /\ nextPartyID' = nextPartyID + 1
           /\ PartyID' = [PartyID EXCEPT ![leader] = nextPartyID, ![p] = nextPartyID]
  <2>1. PICK ms : ms = <<NewMember(leader), NewMember(p)>>
    OBVIOUS
  <2>2. PICK new : new = [id |-> nextPartyID, leader |-> leader, leaderID |-> CreatureID(leader),
                          members |-> ms]
    OBVIOUS
  <2>3. PICK at : at = Len(mPartyList) + 1
    OBVIOUS
  <2>4. /\ CreatureID(leader) \in CreatureIDs
        /\ NewMember(leader) \in PartyMember /\ NewMember(p) \in PartyMember
        /\ NewMember(leader).def = leader /\ NewMember(p).def = p
    BY NewMemberIs DEF IInv
  <2>5. /\ ms \in Seq(PartyMember) /\ DOMAIN ms = 1..2
        /\ ms[1] = NewMember(leader) /\ ms[2] = NewMember(p)
    BY <2>1, <2>4
  <2>6. Entries(ms) = {NewMember(leader), NewMember(p)} /\ Unique(ms)
    BY <1>1, <2>4, <2>5 DEF Entries, Unique
  <2>7. nextPartyID \in 1..MaxParties /\ nextPartyID' \in 1..(MaxParties + 1)
    BY <1>6, PartyAssumption DEF IInv, Types
  <2>8. /\ new \in ActiveParty /\ new.id = nextPartyID /\ new.leader = leader
        /\ new.leaderID = CreatureID(leader) /\ new.members = ms
    BY <2>2, <2>4, <2>5, <2>7 DEF ActiveParty
  <2>9. mPartyList' = Append(mPartyList, new)
    BY <1>6, <2>1, <2>2
  <2>10. /\ mPartyList' \in Seq(ActiveParty)
         /\ DOMAIN mPartyList' = 1..at /\ at \in Nat /\ at \in DOMAIN mPartyList'
         /\ at \notin DOMAIN mPartyList /\ mPartyList'[at] = new
         /\ \A j \in DOMAIN mPartyList : mPartyList'[j] = mPartyList[j]
         /\ DOMAIN mPartyList' = DOMAIN mPartyList \cup {at}
    BY <1>2, <2>3, <2>8, <2>9
  <2>11. \A j \in DOMAIN mPartyList : mPartyList[j].id \in 1..MaxParties
    BY <1>2, PartyFields
  <2>12. \A j, k \in DOMAIN mPartyList' : mPartyList'[j].id = mPartyList'[k].id => j = k
    <3>1. \A j \in DOMAIN mPartyList : mPartyList'[j].id # new.id
      BY <1>3, <2>7, <2>8, <2>10, <2>11
    <3> QED BY <1>3, <2>10, <3>1
  <2>13. \A j \in DOMAIN mPartyList' :
            mPartyList'[j].id < nextPartyID' /\ Unique(mPartyList'[j].members)
    <3>1. nextPartyID' = nextPartyID + 1 /\ nextPartyID \in Nat
      BY <1>6, <2>7
    <3>2. \A j \in DOMAIN mPartyList :
             mPartyList'[j].id < nextPartyID' /\ Unique(mPartyList'[j].members)
      BY <1>3, <2>10, <2>11, <3>1
    <3>3. mPartyList'[at].id < nextPartyID' /\ Unique(mPartyList'[at].members)
      BY <2>6, <2>8, <2>10, <3>1
    <3> QED BY <2>10, <3>2, <3>3
  <2>14. \A q \in Players \ {leader, p} : PartyID[q] # nextPartyID
    <3> SUFFICES ASSUME NEW q \in Players, PartyID[q] = nextPartyID PROVE FALSE
      OBVIOUS
    <3>1. q \in online /\ PartyID[q] # 0
      BY <2>7 DEF IInv, Apart
    <3>2. PICK j \in DOMAIN mPartyList : mPartyList[j].id = PartyID[q]
      BY <3>1 DEF IInv, PartyKnowsMembers
    <3> QED BY <1>3, <2>7, <2>11, <3>2
  <2>15. PICK joiners \in SUBSET online : joiners = {leader, p}
    BY <1>1, <1>6
  <2>16. PartyID' = [q \in Players |-> IF q \in joiners THEN mPartyList'[at].id ELSE PartyID[q]]
    BY <1>1, <1>2, <1>6, <2>8, <2>10, <2>15
  <2>17. /\ \A m \in Entries(mPartyList'[at].members) : m \in {NewMember(q) : q \in joiners}
         /\ \A q \in joiners : NewMember(q) \in Entries(mPartyList'[at].members)
    BY <2>6, <2>8, <2>10, <2>15
  <2>18. /\ mPartyList'[at].leader \in joiners =>
               mPartyList'[at].leaderID = CreatureID(mPartyList'[at].leader)
         /\ \A q \in Players \ joiners : PartyID[q] # mPartyList'[at].id
    BY <2>8, <2>10, <2>14, <2>15
  <2> HIDE <2>9
  <2> QED BY <1>1, <2>7, <2>10, <2>12, <2>13, <2>16, <2>17, <2>18, JoinKeeps
<1>7. CASE /\ i # 0
           /\ mPartyList' = [mPartyList EXCEPT ![i] = AddMember(@, p)]
           /\ PartyID' = IF HasMember(mPartyList[i], p) THEN PartyID
                         ELSE [PartyID EXCEPT ![p] = mPartyList[i].id]
           /\ UNCHANGED nextPartyID
  <2>1. i \in DOMAIN mPartyList /\ mPartyList[i].leader = leader
    BY <1>4, <1>7, LookedUp DEF IInv
  <2>2. PICK party \in ActiveParty : party = mPartyList[i] /\ Unique(party.members)
    BY <1>2, <1>3, <2>1
  <2>3. mPartyList' = [mPartyList EXCEPT ![i] = AddMember(party, p)]
    BY <1>7, <2>2
  <2>4. CASE HasMember(party, p)
    <3>1. mPartyList' = mPartyList
      BY <1>2, <2>1, <2>2, <2>3, <2>4 DEF AddMember
    <3> QED BY <1>5, <1>7, <2>2, <2>4, <3>1
  <2>5. CASE ~HasMember(party, p)
    <3>1. PICK ms \in Seq(PartyMember) : ms = party.members
      BY PartyFields
    <3>2. PICK new \in PartyMember : new = NewMember(p) /\ new.def = p
      BY NewMemberIs DEF IInv
    <3>3. PICK more : more = Append(ms, new)
      OBVIOUS
    <3>4. /\ more \in Seq(PartyMember) /\ DOMAIN more = DOMAIN ms \cup {Len(ms) + 1}
          /\ more[Len(ms) + 1] = new /\ \A k \in DOMAIN ms : more[k] = ms[k]
      BY <3>3
    <3>5. \A k \in DOMAIN ms : ms[k].def # p
      BY <2>5, <3>1 DEF HasMember
    <3>6. Entries(more) = Entries(ms) \cup {new} /\ Unique(more)
      <4>1. Unique(ms)
        BY <2>2, <3>1
      <4> QED BY <3>2, <3>4, <3>5, <4>1 DEF Entries, Unique
    <3>7. PICK grown : grown = [party EXCEPT !.members = more]
      OBVIOUS
    <3>8. /\ grown \in ActiveParty /\ grown.members = more /\ grown.id = party.id
          /\ grown.leader = party.leader /\ grown.leaderID = party.leaderID
      BY <3>4, <3>7 DEF ActiveParty
    <3>9. mPartyList' = [mPartyList EXCEPT ![i] = grown]
      BY <2>3, <2>5, <3>1, <3>2, <3>3, <3>7 DEF AddMember
    <3>10. /\ mPartyList' \in Seq(ActiveParty) /\ DOMAIN mPartyList' = DOMAIN mPartyList
           /\ mPartyList'[i] = grown
           /\ \A j \in DOMAIN mPartyList : j # i => mPartyList'[j] = mPartyList[j]
      BY <1>2, <2>1, <3>8, <3>9
    <3>11. \A j \in DOMAIN mPartyList : mPartyList'[j].id = mPartyList[j].id
      BY <2>2, <3>8, <3>10
    <3>12. \A j, k \in DOMAIN mPartyList' : mPartyList'[j].id = mPartyList'[k].id => j = k
      BY <1>3, <3>10, <3>11
    <3>13. \A j \in DOMAIN mPartyList' :
              mPartyList'[j].id < nextPartyID' /\ Unique(mPartyList'[j].members)
      BY <1>3, <1>7, <3>6, <3>8, <3>10, <3>11
    <3>14. PICK joiners \in SUBSET online : joiners = {p}
      BY <1>1
    <3>15. PartyID' = [q \in Players |-> IF q \in joiners THEN mPartyList'[i].id ELSE PartyID[q]]
      BY <1>2, <1>7, <2>2, <2>5, <3>8, <3>10, <3>14
    <3>16. /\ \A m \in Entries(mPartyList'[i].members) :
                 m \in Entries(mPartyList[i].members) \/ m \in {NewMember(q) : q \in joiners}
           /\ \A q \in joiners : NewMember(q) \in Entries(mPartyList'[i].members)
           /\ Entries(mPartyList[i].members) \subseteq Entries(mPartyList'[i].members)
      BY <2>2, <3>1, <3>2, <3>6, <3>8, <3>10, <3>14
    <3>17. /\ mPartyList'[i].id = mPartyList[i].id
           /\ mPartyList'[i].leader = mPartyList[i].leader
           /\ mPartyList'[i].leaderID = mPartyList[i].leaderID
           /\ mPartyList'[i].leader \notin joiners
      BY <1>1, <2>1, <2>2, <3>8, <3>10, <3>14
    <3>18. nextPartyID' \in 1..(MaxParties + 1)
      BY <1>7 DEF IInv, Types
    <3> QED BY <1>1, <2>1, <3>10, <3>12, <3>13, <3>15, <3>16, <3>17, <3>18, JoinKeeps
  <2> QED BY <2>4, <2>5
<1> QED BY <1>4, <1>5, <1>6, <1>7 DEF AcceptInvite

-----------------------------------------------------------------------------
(* Creatures that come and go.                                             *)

\* What UpdatePlayerReferences does to the members of one party.
WithEntry(ms, p, e) == [k \in DOMAIN ms |-> IF ms[k].def = p THEN e ELSE ms[k]]

LEMMA MembersReferenced ==
    ASSUME NEW ms \in Seq(PartyMember), Unique(ms), NEW p \in Players,
           NEW e \in PartyMember, e.def = p,
           NEW new, new = WithEntry(ms, p, e)
    PROVE  /\ new \in Seq(PartyMember) /\ Unique(new)
           /\ \A m \in Entries(new) : m = e \/ (m.def # p /\ m \in Entries(ms))
           /\ \A m \in Entries(ms) : IF m.def = p THEN e \in Entries(new) ELSE m \in Entries(new)
<1>1. DOMAIN ms = 1..Len(ms) /\ Len(ms) \in Nat /\ \A k \in DOMAIN ms : ms[k] \in PartyMember
  OBVIOUS
<1>2. DOMAIN new = DOMAIN ms /\ \A k \in DOMAIN ms : new[k] = IF ms[k].def = p THEN e ELSE ms[k]
  BY DEF WithEntry
<1>3. new \in [1..Len(ms) -> PartyMember]
  BY <1>1 DEF WithEntry
<1>4. new \in Seq(PartyMember)
  BY <1>1, <1>3
<1>5. \A k \in DOMAIN ms : new[k].def = ms[k].def
  BY <1>2
<1>6. Unique(new)
  BY <1>2, <1>5 DEF Unique
<1>7. \A m \in Entries(new) : m = e \/ (m.def # p /\ m \in Entries(ms))
  BY <1>2 DEF Entries
<1>8. \A m \in Entries(ms) : IF m.def = p THEN e \in Entries(new) ELSE m \in Entries(new)
  BY <1>2 DEF Entries
<1> QED BY <1>4, <1>6, <1>7, <1>8

\* The parties that UpdatePlayerReferences reaches.
Reached(i, p) == GetPartyWithMember(p) = 0 \/ i <= GetPartyWithMember(p)

\* The parties as UpdatePlayerReferences makes them: e for an entry of p, and cid
\* for the leader's id if p leads, in those it reaches.
Refers(new, p, cid, e) ==
    /\ new \in Seq(ActiveParty) /\ DOMAIN new = DOMAIN mPartyList
    /\ \A i \in DOMAIN mPartyList :
          /\ new[i].id = mPartyList[i].id /\ new[i].leader = mPartyList[i].leader
          /\ mPartyList[i].leader # p => new[i].leaderID = mPartyList[i].leaderID
          /\ mPartyList[i].leader = p /\ Reached(i, p) => new[i].leaderID = cid
          /\ Unique(new[i].members)
          /\ \A m \in Entries(new[i].members) : m = e \/ m \in Entries(mPartyList[i].members)
          /\ \A m \in Entries(mPartyList[i].members) : m.def # p => m \in Entries(new[i].members)
          /\ HasMember(mPartyList[i], p) /\ Reached(i, p) => e \in Entries(new[i].members)

LEMMA Referenced ==
    ASSUME Types, Lists, NEW p \in Players, NEW cid \in CreatureIDs, NEW ptr \in 0..MaxCreatures,
           NEW e, e = [def |-> p, cid |-> cid, ptr |-> ptr],
           NEW new, new = UpdatePlayerReferences(p, cid, ptr)
    PROVE  e \in PartyMember /\ Refers(new, p, cid, e)
<1>1. e \in PartyMember /\ e.def = p
  BY DEF PartyMember
<1>2. PICK first : first = GetPartyWithMember(p)
  OBVIOUS
<1>3. /\ mPartyList \in Seq(ActiveParty)
      /\ DOMAIN mPartyList = 1..Len(mPartyList) /\ Len(mPartyList) \in Nat
  BY DEF Types
<1>4. first = 0 \/ first \in DOMAIN mPartyList
  BY <1>2, LookedUp
<1>5. new = [i \in DOMAIN mPartyList |->
               IF first # 0 /\ i > first THEN mPartyList[i]
               ELSE [mPartyList[i] EXCEPT
                       !.leaderID = IF mPartyList[i].leader = p THEN cid ELSE @,
                       !.members = WithEntry(@, p, e)]]
  BY <1>2 DEF UpdatePlayerReferences, WithEntry
<1>6. DOMAIN new = DOMAIN mPartyList
  BY <1>5
<1>7. ASSUME NEW i \in DOMAIN mPartyList
      PROVE  /\ new[i] \in ActiveParty
             /\ new[i].id = mPartyList[i].id /\ new[i].leader = mPartyList[i].leader
             /\ mPartyList[i].leader # p => new[i].leaderID = mPartyList[i].leaderID
             /\ mPartyList[i].leader = p /\ Reached(i, p) => new[i].leaderID = cid
             /\ Unique(new[i].members)
             /\ \A m \in Entries(new[i].members) : m = e \/ m \in Entries(mPartyList[i].members)
             /\ \A m \in Entries(mPartyList[i].members) : m.def # p => m \in Entries(new[i].members)
             /\ HasMember(mPartyList[i], p) /\ Reached(i, p) => e \in Entries(new[i].members)
  <2>1. PICK party \in ActiveParty : party = mPartyList[i] /\ Unique(party.members)
    BY <1>3 DEF Lists
  <2>2. Reached(i, p) <=> ~(first # 0 /\ i > first)
    BY <1>2, <1>3, <1>4 DEF Reached
  <2>3. CASE ~Reached(i, p)
    <3>1. new[i] = party
      BY <1>5, <2>1, <2>2, <2>3
    <3> QED BY <2>1, <2>3, <3>1
  <2>4. CASE Reached(i, p)
    <3>1. PICK ms \in Seq(PartyMember) : ms = party.members /\ Unique(ms)
      BY <2>1, PartyFields
    <3>2. PICK ns : ns = WithEntry(ms, p, e)
      OBVIOUS
    <3>3. PICK lid : lid = IF party.leader = p THEN cid ELSE party.leaderID
      OBVIOUS
    <3>4. new[i] = [[party EXCEPT !.leaderID = lid] EXCEPT !.members = ns]
      <4>1. new[i] = [party EXCEPT !.leaderID = IF party.leader = p THEN cid ELSE @,
                                   !.members = WithEntry(@, p, e)]
        BY <1>5, <2>1, <2>2, <2>4
      <4>2. [party EXCEPT !.leaderID = lid].members = party.members
        BY DEF ActiveParty
      <4> QED BY <3>1, <3>2, <3>3, <4>1, <4>2
    <3>5. /\ ns \in Seq(PartyMember) /\ Unique(ns)
          /\ \A m \in Entries(ns) : m = e \/ (m.def # p /\ m \in Entries(ms))
          /\ \A m \in Entries(ms) : IF m.def = p THEN e \in Entries(ns) ELSE m \in Entries(ns)
      BY <1>1, <3>1, <3>2, MembersReferenced
    <3>6. lid \in CreatureIDs
      BY <3>3, PartyFields
    <3>7. /\ new[i] \in ActiveParty /\ new[i].id = party.id /\ new[i].leader = party.leader
          /\ new[i].leaderID = lid /\ new[i].members = ns
      BY <3>4, <3>5, <3>6 DEF ActiveParty
    <3>8. HasMember(party, p) => e \in Entries(ns)
      BY <3>1, <3>5, EntriesAre
    <3> QED BY <2>1, <3>1, <3>3, <3>5, <3>7, <3>8
  <2> QED BY <2>3, <2>4
<1>8. new \in Seq(ActiveParty)
  <2>1. new = [i \in DOMAIN new |-> new[i]]
    BY <1>5
  <2>2. new \in [1..Len(mPartyList) -> ActiveParty]
    BY <1>3, <1>6, <1>7, <2>1
  <2> QED BY <1>3, <2>2
<1> QED BY <1>1, <1>6, <1>7, <1>8 DEF Refers

OthersStay(p) ==
    \A q \in Players : q # p =>
       /\ PartyID'[q] = PartyID[q] /\ (q \in online' <=> q \in online)
       /\ login'[q] = login[q] /\ zone'[q] = zone[q]

(***************************************************************************)
(* What entering a zone and leaving the game share: p's old entries are    *)
(* dead, his new one counts if he stays, and nobody else changes.          *)
(***************************************************************************)
LEMMA ReferencesKeep ==
    ASSUME IInv, NEW p \in Players, NEW cid, NEW e \in PartyMember, e.def = p,
           Refers(mPartyList', p, cid, e),
           Types', Counts', Apart', nextPartyID' = nextPartyID,
           OthersStay(p),
           zone[p] <= zone'[p], e.ptr <= zone'[p], Live(e)' => e.cid = CreatureID(p)',
           \A m \in PartyMember : m.def = p /\ m.ptr <= zone[p] => ~Live(m)',
           p \in online' /\ PartyID'[p] # 0 =>
              /\ Live(e)'
              /\ \E i \in DOMAIN mPartyList :
                    mPartyList[i].id = PartyID'[p] /\ e \in Entries(mPartyList'[i].members),
           \A i \in DOMAIN mPartyList :
              p \in online' /\ mPartyList[i].id = PartyID'[p] /\ mPartyList[i].leader = p =>
                 mPartyList'[i].leaderID = CreatureID(p)'
    PROVE  IInv'
<1> USE DEF Refers, OthersStay
<1>1. online \subseteq Players /\ online' \subseteq Players
  BY DEF IInv, Types
<1>2. \A m \in PartyMember : m.def # p => (Live(m)' <=> Live(m)) /\ zone'[m.def] = zone[m.def]
  BY MemberFields DEF Live
<1>3. \A q \in Players : q # p => CreatureID(q)' = CreatureID(q)
  BY DEF CreatureID
<1>4. Lists'
  BY DEF IInv, Lists
<1>5. \A i \in DOMAIN mPartyList : \A m \in Entries(mPartyList[i].members) :
         m \in PartyMember /\ m.ptr <= zone[m.def] /\ (Live(m) => m.cid = CreatureID(m.def))
  <2>1. \A i \in DOMAIN mPartyList : mPartyList[i] \in ActiveParty
    BY DEF IInv, Types
  <2> QED BY <2>1, PartyFields DEF IInv, Pointers
<1>6. Pointers'
  <2> SUFFICES ASSUME NEW i \in DOMAIN mPartyList, NEW m \in Entries(mPartyList'[i].members)
               PROVE  m.ptr <= zone'[m.def] /\ (Live(m)' => m.cid = CreatureID(m.def)')
    BY DEF Pointers
  <2>1. CASE m = e
    BY <2>1
  <2>2. CASE m \in Entries(mPartyList[i].members) /\ m.def = p
    <3>1. m \in PartyMember /\ m.ptr \in Int /\ m.ptr <= zone[p] /\ zone[p] \in Int /\ zone'[p] \in Int
      BY <1>5, <2>2, MemberFields DEF IInv, Types
    <3>2. m.ptr <= zone'[p]
      BY <3>1
    <3> QED BY <2>2, <3>1, <3>2
  <2>3. CASE m \in Entries(mPartyList[i].members) /\ m.def # p
    <3>1. m \in PartyMember /\ m.def \in Players /\ m.ptr <= zone[m.def]
             /\ (Live(m) => m.cid = CreatureID(m.def))
      BY <1>5, <2>3, MemberFields
    <3> QED BY <1>2, <1>3, <2>3, <3>1
  <2> QED BY <2>1, <2>2, <2>3
<1>7. PartyKnowsMembers'
  <2> SUFFICES ASSUME NEW q \in online', PartyID'[q] # 0
               PROVE  \E i \in DOMAIN mPartyList' :
                         /\ mPartyList'[i].id = PartyID'[q]
                         /\ \E m \in EntriesOf(mPartyList'[i], q) : Live(m)'
    BY DEF PartyKnowsMembers
  <2>1. CASE q = p
    <3>1. PICK i \in DOMAIN mPartyList :
             mPartyList[i].id = PartyID'[p] /\ e \in Entries(mPartyList'[i].members) /\ Live(e)'
      BY <2>1
    <3>2. e \in EntriesOf(mPartyList'[i], p)
      BY <3>1, EntriesAre
    <3> QED BY <2>1, <3>1, <3>2
  <2>2. CASE q # p
    <3>1. q \in Players /\ q \in online /\ PartyID'[q] = PartyID[q]
      BY <1>1, <2>2
    <3>2. Known(q, PartyID)
      BY <3>1, KnownIs DEF IInv
    <3>3. PICK i \in DOMAIN mPartyList :
             /\ mPartyList[i].id = PartyID[q]
             /\ \E m \in Entries(mPartyList[i].members) : m.def = q /\ Live(m)
      BY <3>2 DEF Known
    <3>4. PICK m \in Entries(mPartyList[i].members) : m.def = q /\ Live(m)
      BY <3>3
    <3>5. Live(m)' /\ m \in Entries(mPartyList'[i].members)
      BY <1>2, <1>5, <2>2, <3>4
    <3>6. m \in EntriesOf(mPartyList'[i], q)
      BY <3>4, <3>5, EntriesAre
    <3> QED BY <3>1, <3>3, <3>5, <3>6
  <2> QED BY <2>1, <2>2
<1>8. LeaderCanAct'
  <2> SUFFICES ASSUME NEW q \in online', NEW i \in DOMAIN mPartyList,
                      mPartyList'[i].id = PartyID'[q], mPartyList'[i].leader = q
               PROVE  mPartyList'[i].leaderID = CreatureID(q)'
    BY DEF LeaderCanAct
  <2>1. CASE q = p
    BY <2>1
  <2>2. CASE q # p
    <3>1. q \in online /\ q \in Players /\ PartyID'[q] = PartyID[q]
      BY <1>1, <2>2
    <3> QED BY <1>3, <2>2, <3>1 DEF IInv, LeaderCanAct
  <2> QED BY <2>1, <2>2
<1> QED BY <1>4, <1>6, <1>7, <1>8 DEF IInv

LEMMA SetZoneKeeps == ASSUME IInv, NEW p \in Players, SetZone(p) PROVE IInv'
<1>1. /\ mPartyList \in Seq(ActiveParty) /\ PartyID \in [Players -> 0..MaxParties]
      /\ online \subseteq Players /\ creatures \in 0..MaxCreatures
      /\ login \in [Players -> 0..MaxCreatures] /\ zone \in [Players -> 0..MaxCreatures]
      /\ \A q \in Players : login[q] <= creatures /\ zone[q] <= creatures
  BY DEF IInv, Types, Counts
<1>2. /\ creatures < MaxCreatures /\ creatures' = creatures + 1
      /\ zone' = [zone EXCEPT ![p] = @ + 1]
      /\ login' = IF p \in online THEN login ELSE [login EXCEPT ![p] = @ + 1]
      /\ online' = online \cup {p}
      /\ mPartyList' = UpdatePlayerReferences(p, <<p, login'[p]>>, zone[p] + 1)
      /\ PartyID' = [PartyID EXCEPT ![p] = PartyIDOfFirst(p, @)]
      /\ UNCHANGED <<nextPartyID, invited, corrupted>>
  BY DEF SetZone
<1>3. /\ zone'[p] = zone[p] + 1 /\ \A q \in Players : q # p => zone'[q] = zone[q]
      /\ login'[p] \in {login[p], login[p] + 1} /\ \A q \in Players : q # p => login'[q] = login[q]
  BY <1>1, <1>2
<1>4. zone[p] \in 0..(MaxCreatures - 1) /\ login[p] \in 0..(MaxCreatures - 1)
  BY <1>1, <1>2, PartyAssumption
<1>5. zone[p] + 1 \in 0..MaxCreatures /\ login'[p] \in 0..MaxCreatures
  BY <1>3, <1>4, PartyAssumption
<1>6. login' \in [Players -> 0..MaxCreatures] /\ zone' \in [Players -> 0..MaxCreatures]
  <2>1. zone' \in [Players -> 0..MaxCreatures]
    BY <1>1, <1>2, <1>5
  <2>2. login' \in [Players -> 0..MaxCreatures]
    BY <1>1, <1>2, <1>4, PartyAssumption
  <2> QED BY <2>1, <2>2
<1>7. PICK cid \in CreatureIDs : cid = <<p, login'[p]>>
  BY <1>5 DEF CreatureIDs
<1>8. PICK e : e = [def |-> p, cid |-> cid, ptr |-> zone[p] + 1]
  OBVIOUS
<1>9. e.def = p /\ e.cid = cid /\ e.ptr = zone[p] + 1
  BY <1>8
<1>10. e \in PartyMember /\ Refers(mPartyList', p, cid, e)
  <2>1. mPartyList' = UpdatePlayerReferences(p, cid, zone[p] + 1)
    BY <1>2, <1>7
  <2>2. Types /\ Lists
    BY DEF IInv
  <2>3. PICK ptr \in 0..MaxCreatures : ptr = zone[p] + 1
    BY <1>5
  <2>4. mPartyList' = UpdatePlayerReferences(p, cid, ptr) /\ e = [def |-> p, cid |-> cid, ptr |-> ptr]
    BY <1>8, <2>1, <2>3
  <2> QED BY <2>2, <2>4, Referenced
<1>11. PICK first : first = GetPartyWithMember(p)
  OBVIOUS
<1>12. /\ first # 0 => /\ first \in DOMAIN mPartyList /\ HasMember(mPartyList[first], p)
                       /\ Reached(first, p) /\ PartyID'[p] = mPartyList[first].id
       /\ first = 0 => PartyID'[p] = PartyID[p]
  <2>1. PartyID'[p] = PartyIDOfFirst(p, PartyID[p])
    BY <1>1, <1>2
  <2>2. first # 0 => first \in DOMAIN mPartyList /\ HasMember(mPartyList[first], p)
    BY <1>11, LookedUp DEF IInv
  <2>3. first # 0 => Reached(first, p)
    <3>1. DOMAIN mPartyList \subseteq Nat
      BY <1>1
    <3> QED BY <1>11, <2>2, <3>1 DEF Reached
  <2> QED BY <1>11, <2>1, <2>2, <2>3 DEF PartyIDOfFirst
<1>13. first = 0 => PartyID'[p] = 0
  <2> SUFFICES ASSUME first = 0, PartyID[p] # 0 PROVE FALSE
    BY <1>12
  <2>1. p \in online
    BY DEF IInv, Apart
  <2>2. Known(p, PartyID)
    BY <2>1, KnownIs DEF IInv
  <2>3. \E i \in DOMAIN mPartyList : HasMember(mPartyList[i], p)
    BY <2>2, EntriesAre DEF Known
  <2> QED BY <1>11, <2>3, LookedUp DEF IInv
<1>14. /\ PartyID' \in [Players -> 0..MaxParties]
       /\ \A q \in Players : q # p => PartyID'[q] = PartyID[q]
  <2>1. PartyIDOfFirst(p, PartyID[p]) \in 0..MaxParties
    <3>1. first # 0 => mPartyList[first].id \in 1..MaxParties
      BY <1>1, <1>12, PartyFields
    <3> QED BY <1>1, <1>11, <3>1, PartyAssumption DEF PartyIDOfFirst
  <2> QED BY <1>1, <1>2, <2>1
<1>15. Types'
  <2>1. creatures' \in 0..MaxCreatures
    BY <1>1, <1>2, PartyAssumption
  <2> QED BY <1>1, <1>2, <1>6, <1>10, <1>14, <2>1 DEF IInv, Types, Refers
<1>16. Counts'
  <2> SUFFICES ASSUME NEW q \in Players PROVE login'[q] <= creatures' /\ zone'[q] <= creatures'
    BY DEF Counts
  <2>1. login[q] \in Int /\ zone[q] \in Int /\ login[q] <= creatures /\ zone[q] <= creatures
    BY <1>1
  <2>2. login'[q] \in {login[q], login[q] + 1} /\ zone'[q] \in {zone[q], zone[q] + 1}
    BY <1>3
  <2>3. creatures' = creatures + 1 /\ creatures \in Int
    BY <1>1, <1>2
  <2> QED BY <2>1, <2>2, <2>3
<1>17. Apart'
  BY <1>2, <1>14 DEF IInv, Apart
<1>18. CreatureID(p)' = cid /\ Live(e)'
  <2>1. CreatureID(p)' = cid
    BY <1>7 DEF CreatureID
  <2>2. Live(e)'
    BY <1>2, <1>3, <1>9 DEF Live
  <2> QED BY <2>1, <2>2
<1>19. \A m \in PartyMember : m.def = p /\ m.ptr <= zone[p] => ~Live(m)'
  <2> SUFFICES ASSUME NEW m \in PartyMember, m.def = p, m.ptr <= zone[p], m.ptr = zone'[p] PROVE FALSE
    BY DEF Live
  <2> QED BY <1>3, <1>4
<1>20. zone[p] <= zone'[p] /\ e.ptr <= zone'[p]
  BY <1>3, <1>4, <1>9
<1>21. PartyID'[p] # 0 =>
          \E i \in DOMAIN mPartyList :
             mPartyList[i].id = PartyID'[p] /\ e \in Entries(mPartyList'[i].members)
  BY <1>10, <1>12, <1>13 DEF Refers
<1>22. \A i \in DOMAIN mPartyList :
          mPartyList[i].id = PartyID'[p] /\ mPartyList[i].leader = p => mPartyList'[i].leaderID = cid
  <2> SUFFICES ASSUME NEW i \in DOMAIN mPartyList, mPartyList[i].id = PartyID'[p],
                      mPartyList[i].leader = p
               PROVE  mPartyList'[i].leaderID = cid
    OBVIOUS
  <2>1. mPartyList[i].id \in 1..MaxParties
    BY <1>1, PartyFields
  <2>2. first # 0 /\ i = first
    BY <1>12, <1>13, <2>1 DEF IInv, Lists
  <2> QED BY <1>10, <1>12, <2>2 DEF Refers
<1>23. OthersStay(p)
  BY <1>2, <1>3, <1>14 DEF OthersStay
<1>24. nextPartyID' = nextPartyID
  BY <1>2
<1> QED BY <1>9, <1>10, <1>15, <1>16, <1>17, <1>18, <1>19, <1>20, <1>21, <1>22, <1>23, <1>24,
           ReferencesKeep

LEMMA DisconnectKeeps == ASSUME IInv, NEW p \in Players, Disconnect(p) PROVE IInv'
<1>1. /\ mPartyList' = UpdatePlayerReferences(p, CreatureID(p), 0)
      /\ PartyID' = [PartyID EXCEPT ![p] = 0] /\ online' = online \ {p}
      /\ invited' \subseteq invited
      /\ UNCHANGED <<nextPartyID, login, zone, creatures, corrupted>>
  BY DEF Disconnect, places
<1>2. PICK e : e = [def |-> p, cid |-> CreatureID(p), ptr |-> 0]
  OBVIOUS
<1>3. e.def = p /\ e.ptr = 0
  BY <1>2
<1>4. e \in PartyMember /\ Refers(mPartyList', p, CreatureID(p), e)
  <2>1. Types /\ Lists /\ CreatureID(p) \in CreatureIDs /\ 0 \in 0..MaxCreatures
    BY NewMemberIs, PartyAssumption DEF IInv
  <2> QED BY <1>1, <1>2, <2>1, Referenced
<1>5. /\ PartyID' \in [Players -> 0..MaxParties] /\ PartyID'[p] = 0
      /\ \A q \in Players : q # p => PartyID'[q] = PartyID[q]
  BY <1>1, PartyAssumption DEF IInv, Types
<1>6. Types'
  BY <1>1, <1>4, <1>5 DEF IInv, Types, Refers
<1>7. Counts' /\ Apart'
  BY <1>1, <1>5 DEF IInv, Counts, Apart
<1>8. zone[p] \in 0..MaxCreatures /\ zone'[p] = zone[p]
  BY <1>1 DEF IInv, Types
<1>9. zone[p] <= zone'[p] /\ e.ptr <= zone'[p]
  BY <1>3, <1>8
<1>10. \A m \in PartyMember : m.def = p => ~Live(m)'
  BY <1>1 DEF Live
<1>11. OthersStay(p)
  BY <1>1, <1>5 DEF OthersStay
<1>12. p \notin online' /\ ~Live(e)' /\ nextPartyID' = nextPartyID
  BY <1>1, <1>3, <1>4, <1>10
<1> QED BY <1>3, <1>4, <1>6, <1>7, <1>9, <1>10, <1>11, <1>12, ReferencesKeep

-----------------------------------------------------------------------------
(* The results.                                                            *)

LEMMA InvKept == IInv /\ [Next]_vars => IInv'
<1> SUFFICES ASSUME IInv, [Next]_vars PROVE IInv'
  OBVIOUS
<1>1. ASSUME NEW p \in Players, NEW q \in Players,
             Invite(p, q) \/ AcceptInvite(p, q) \/ RejectInvite(p, q)
      PROVE  IInv'
  BY <1>1, InviteKeeps, AcceptKeeps, RejectKeeps
<1>2. ASSUME NEW p \in Players, NEW id \in CreatureIDs, DoSetLeader(p, id) \/ DoKick(p, id)
      PROVE  IInv'
  BY <1>2, SetLeaderKeeps, KickKeeps
<1>3. ASSUME NEW p \in Players, DoQuit(p) \/ SetZone(p) \/ Disconnect(p) \/ DebugForceRemove(p)
      PROVE  IInv'
  BY <1>3, QuitKeeps, SetZoneKeeps, DisconnectKeeps, ForceRemoveKeeps
<1>4. CASE DebugDestroyParties
  BY <1>4, DestroyKeeps
<1>5. CASE UNCHANGED vars
  <2>1. /\ UNCHANGED <<mPartyList, nextPartyID, PartyID, online, places, corrupted>>
        /\ invited' = invited
    BY <1>5 DEF vars
  <2>2. invited' \subseteq Players \X Players /\ \A inv \in invited' : inv[1] # inv[2]
    BY <2>1 DEF IInv, Types, Apart
  <2> QED BY <2>1, <2>2, InvitationsKeep
<1> QED BY <1>1, <1>2, <1>3, <1>4, <1>5 DEF Next

LEMMA InvAlways == Spec => []IInv
<1> QED BY InvHolds, InvKept, PTL DEF Spec

(***************************************************************************)
(* Types, party ids that no two parties share, and members listed once:    *)
(* PartyManager's vectors keep what its lookups take for granted.          *)
(***************************************************************************)
THEOREM PartyTypeCorrect == Spec => []TypeOK
<1>1. IInv => TypeOK
  BY DEF IInv, Types, Lists, Unique, TypeOK
<1> QED BY <1>1, InvAlways, PTL

(***************************************************************************)
(* Whoever has a PartyID is in that party's list with the creature he has  *)
(* now, through every invitation, kick, quit, zone change, disconnection   *)
(* and debug command.                                                      *)
(***************************************************************************)
THEOREM MembersAlwaysKnown == Spec => []PartyKnowsMembers
<1>1. IInv => PartyKnowsMembers
  BY DEF IInv
<1> QED BY <1>1, InvAlways, PTL

(***************************************************************************)
(* The leader of the party his PartyID names passes the check of mLeaderID *)
(* that kick and setLeader make.                                           *)
(***************************************************************************)
THEOREM LeaderAlwaysCanAct == Spec => []LeaderCanAct
<1>1. IInv => LeaderCanAct
  BY DEF IInv
<1> QED BY <1>1, InvAlways, PTL
=============================================================================
