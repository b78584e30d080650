-------------------------------- MODULE Party --------------------------------
(***************************************************************************)
(* Parties of players (PartyManager.cpp, the party query of                *)
(* query/PlayerHandlers.cpp, and what a simulator does to parties when its *)
(* player logs in, changes zone or disconnects).  Every query runs to its  *)
(* end on the main thread, so each is one action.                          *)
(*                                                                         *)
(* A player keeps his CreatureDefID for ever, has a CreatureID that goes   *)
(* with his connection, and gets a new creature in every zone.  Parties    *)
(* remember both ids and a pointer to the creature, which must be cleared  *)
(* before the creature is deleted.                                         *)
(***************************************************************************)
EXTENDS Integers, Sequences, FiniteSets

CONSTANTS
    Players,      \* characters
    MaxParties,   \* bound: party ids handed out
    MaxCreatures, \* bound: creatures all players get together
    MaxInvites    \* bound: invitations shown at a time

ASSUME PartyAssumption == MaxParties \in Nat /\ MaxCreatures \in Nat /\ MaxInvites \in Nat

VARIABLES
    mPartyList,   \* the parties, oldest first
    nextPartyID,
    PartyID,      \* of each player's creature, 0 if in no party
    online,       \* players with a creature
    login,        \* connections each player has had
    zone,         \* creatures each player has had
    creatures,    \* creatures all players have had together
    invited,      \* <<leader, target>>, invitations the target's client shows
    corrupted     \* a deleted creature was written to

places == <<login, zone, creatures>>
vars == <<mPartyList, nextPartyID, PartyID, online, places, invited, corrupted>>

-----------------------------------------------------------------------------
CreatureIDs == Players \X (0..MaxCreatures)

CreatureID(p) == <<p, login[p]>>   \* 2000000 + the simulator's InternalID

(***************************************************************************)
(* ptr is mCreaturePtr: the number of the player's creature it points to,  *)
(* 0 for null.                                                             *)
(***************************************************************************)
PartyMember == [def : Players, cid : CreatureIDs, ptr : 0..MaxCreatures]

ActiveParty ==
    [id : 1..MaxParties, leader : Players, leaderID : CreatureIDs,
     members : Seq(PartyMember)]

NewMember(p) == [def |-> p, cid |-> CreatureID(p), ptr |-> zone[p]]

\* mCreaturePtr, which the code does not check, is the creature he has now.
Live(m) == m.def \in online /\ m.ptr = zone[m.def]

HasMember(party, p) == \E k \in DOMAIN party.members : party.members[k].def = p

First(found) == IF found = {} THEN 0 ELSE CHOOSE i \in found : \A j \in found : i <= j

\* Positions in mPartyList, 0 if there is no such party.
GetPartyByLeader(p) == First({i \in DOMAIN mPartyList : mPartyList[i].leader = p})
GetPartyByID(id) == First({i \in DOMAIN mPartyList : mPartyList[i].id = id})
GetPartyWithMember(p) == First({i \in DOMAIN mPartyList : HasMember(mPartyList[i], p)})

\* Mutant of AddMember: HasMember is not asked.
AddMemberAgain(party, p) == [party EXCEPT !.members = Append(@, NewMember(p))]

AddMember(party, p) ==
    IF HasMember(party, p) THEN party
    ELSE [party EXCEPT !.members = Append(@, NewMember(p))]

DropIndex(s, i) == [j \in 1..(Len(s) - 1) |-> IF j < i THEN s[j] ELSE s[j + 1]]

\* The members of a party once RemoveMember has erased the entry of p.
Remaining(party, p) ==
    LET k == First({j \in DOMAIN party.members : party.members[j].def = p})
    IN  IF k = 0 THEN party.members ELSE DropIndex(party.members, k)

(***************************************************************************)
(* If the leader is the creature that was dropped, the first member leads. *)
(***************************************************************************)
UpdateLeaderDropped(party, id) ==
    IF party.leaderID = id /\ party.members # <<>>
    THEN [party EXCEPT !.leader = party.members[1].def, !.leaderID = party.members[1].cid]
    ELSE party

(***************************************************************************)
(* RemoveMember and Disband set the PartyID of the creatures that the      *)
(* dropped entries point to.  self are the players whose PartyID the       *)
(* caller has reset itself.                                                *)
(***************************************************************************)
ClearPartyIDs(self, dropped) ==
    /\ PartyID' = [p \in Players |-> IF p \in self \/ \E m \in dropped : m.def = p /\ Live(m)
                                     THEN 0 ELSE PartyID[p]]
    /\ corrupted' = \E m \in dropped : m.ptr # 0 /\ ~Live(m)

EntriesOf(party, p) ==
    {party.members[k] : k \in {j \in DOMAIN party.members : party.members[j].def = p}}

AllEntries(party) == {party.members[k] : k \in DOMAIN party.members}

\* Mutant of RemoveFrom: a party of one is deleted and not disbanded.
RemoveFromNoDisband(i, p, droppedID, self) ==
    LET party == mPartyList[i]
        rest == [party EXCEPT !.members = Remaining(party, p)]
    IN /\ mPartyList' = IF Len(rest.members) <= 1 THEN DropIndex(mPartyList, i)
                        ELSE [mPartyList EXCEPT ![i] = UpdateLeaderDropped(rest, droppedID)]
       /\ ClearPartyIDs(self, EntriesOf(party, p))

(***************************************************************************)
(* The end of DoQuit and DoKick: p is removed from the party at i, a party *)
(* of one is disbanded and deleted, and a dropped leader replaced.         *)
(* droppedID is the creature id passed to UpdateLeaderDropped.             *)
(***************************************************************************)
RemoveFrom(i, p, droppedID, self) ==
    LET party == mPartyList[i]
        rest == [party EXCEPT !.members = Remaining(party, p)]
    IN IF Len(rest.members) <= 1
       THEN /\ mPartyList' = DropIndex(mPartyList, i)
            /\ ClearPartyIDs(self, AllEntries(party))
       ELSE /\ mPartyList' = [mPartyList EXCEPT ![i] = UpdateLeaderDropped(rest, droppedID)]
            /\ ClearPartyIDs(self, EntriesOf(party, p))

-----------------------------------------------------------------------------
Init ==
    /\ mPartyList = <<>> /\ nextPartyID = 1
    /\ PartyID = [p \in Players |-> 0]
    /\ online = {}
    /\ login = [p \in Players |-> 0] /\ zone = [p \in Players |-> 0] /\ creatures = 0
    /\ invited = {}
    /\ corrupted = FALSE

(***************************************************************************)
(* party invite: refused to members who do not lead and for targets who    *)
(* have a party.  The target's client shows it.                            *)
(***************************************************************************)
Invite(p, target) ==
    /\ ~corrupted /\ p # target /\ {p, target} \subseteq online
    /\ PartyID[p] # 0 => GetPartyByLeader(p) # 0
    /\ PartyID[target] = 0
    /\ Cardinality(invited) < MaxInvites
    /\ invited' = invited \cup {<<p, target>>}
    /\ UNCHANGED <<mPartyList, nextPartyID, PartyID, online, places, corrupted>>

(***************************************************************************)
(* party accept.invite: nothing is checked but that the leader is there.   *)
(***************************************************************************)
AcceptInvite(p, leader) ==
    LET i == GetPartyByLeader(leader)
        new == [id |-> nextPartyID, leader |-> leader, leaderID |-> CreatureID(leader),
                members |-> <<NewMember(leader), NewMember(p)>>]
    IN /\ ~corrupted /\ p \in online /\ <<leader, p>> \in invited
       /\ invited' = invited \ {<<leader, p>>}
       /\ \/ leader \notin online /\ UNCHANGED <<mPartyList, nextPartyID, PartyID>>
          \/ /\ leader \in online /\ i = 0 /\ nextPartyID <= MaxParties
             /\ mPartyList' = Append(mPartyList, new)
             /\ nextPartyID' = nextPartyID + 1
             /\ PartyID' = [PartyID EXCEPT ![leader] = nextPartyID, ![p] = nextPartyID]
          \/ /\ leader \in online /\ i # 0
             /\ mPartyList' = [mPartyList EXCEPT ![i] = AddMember(@, p)]
             /\ PartyID' = IF HasMember(mPartyList[i], p) THEN PartyID
                           ELSE [PartyID EXCEPT ![p] = mPartyList[i].id]
             /\ UNCHANGED nextPartyID
       /\ UNCHANGED <<online, places, corrupted>>

RejectInvite(p, leader) ==
    /\ ~corrupted /\ p \in online /\ <<leader, p>> \in invited
    /\ invited' = invited \ {<<leader, p>>}
    /\ UNCHANGED <<mPartyList, nextPartyID, PartyID, online, places, corrupted>>

(***************************************************************************)
(* What p may do to the party his PartyID names: hand it over to a member. *)
(***************************************************************************)
DoSetLeader(p, id) ==
    LET i == GetPartyByID(PartyID[p])
    IN /\ ~corrupted /\ p \in online /\ i # 0
       /\ mPartyList[i].leaderID = CreatureID(p)
       /\ \E k \in DOMAIN mPartyList[i].members :
             LET m == mPartyList[i].members[k]
             IN /\ m.cid = id
                /\ mPartyList' = [mPartyList EXCEPT ![i].leader = m.def, ![i].leaderID = m.cid]
       /\ UNCHANGED <<nextPartyID, PartyID, online, places, invited, corrupted>>

(***************************************************************************)
(* Kick one: the code goes on to use a pointer into the vector it erased   *)
(* the member from, and so passes the id of the member who moved into his  *)
(* place to UpdateLeaderDropped; the last one's entry still reads as his.  *)
(***************************************************************************)
DoKick(p, id) ==
    LET i == GetPartyByID(PartyID[p])
    IN /\ ~corrupted /\ p \in online /\ i # 0
       /\ mPartyList[i].leaderID = CreatureID(p)
       /\ \E k \in DOMAIN mPartyList[i].members :
             LET ms == mPartyList[i].members
             IN /\ ms[k].cid = id
                /\ RemoveFrom(i, ms[k].def, ms[IF k < Len(ms) THEN k + 1 ELSE k].cid, {})
       /\ UNCHANGED <<nextPartyID, online, places, invited>>

(***************************************************************************)
(* Quit it.  The creature's PartyID is reset before anything else.         *)
(***************************************************************************)
DoQuit(p) ==
    /\ ~corrupted /\ p \in online /\ GetPartyByID(PartyID[p]) # 0
    /\ RemoveFrom(GetPartyByID(PartyID[p]), p, CreatureID(p), {p})
    /\ UNCHANGED <<nextPartyID, online, places, invited>>

-----------------------------------------------------------------------------
\* Mutant of UpdatePlayerReferences: mLeaderID is not looked at.
UpdatePlayerReferencesMember(p, cid, ptr) ==
    [i \in DOMAIN mPartyList |->
       IF i # GetPartyWithMember(p) THEN mPartyList[i]
       ELSE [mPartyList[i] EXCEPT !.members =
               [k \in DOMAIN @ |-> IF @[k].def = p
                                   THEN [def |-> p, cid |-> cid, ptr |-> ptr]
                                   ELSE @[k]]]]

(***************************************************************************)
(* UpdatePlayerReferences goes through the parties up to the first that    *)
(* has p as a member; CheckMemberLogin does the same.  ptr is 0 when       *)
(* RemovePlayerReferences follows.                                         *)
(***************************************************************************)
UpdatePlayerReferences(p, cid, ptr) ==
    LET first == GetPartyWithMember(p)
    IN [i \in DOMAIN mPartyList |->
          IF first # 0 /\ i > first THEN mPartyList[i]
          ELSE [mPartyList[i] EXCEPT
                  !.leaderID = IF mPartyList[i].leader = p THEN cid ELSE @,
                  !.members = [k \in DOMAIN @ |->
                                 IF @[k].def = p
                                 THEN [def |-> p, cid |-> cid, ptr |-> ptr]
                                 ELSE @[k]]]]

PartyIDOfFirst(p, otherwise) ==
    LET first == GetPartyWithMember(p)
    IN  IF first = 0 THEN otherwise ELSE mPartyList[first].id

(***************************************************************************)
(* The player enters a zone: by logging in, or from another zone whose     *)
(* creature is copied, PartyID and all, and deleted.  The placement        *)
(* succeeds.                                                               *)
(***************************************************************************)
SetZone(p) ==
    /\ ~corrupted /\ creatures < MaxCreatures
    /\ creatures' = creatures + 1
    /\ zone' = [zone EXCEPT ![p] = @ + 1]
    /\ login' = IF p \in online THEN login ELSE [login EXCEPT ![p] = @ + 1]
    /\ online' = online \cup {p}
    /\ mPartyList' = UpdatePlayerReferences(p, <<p, login'[p]>>, zone[p] + 1)
    /\ PartyID' = [PartyID EXCEPT ![p] = PartyIDOfFirst(p, @)]
    /\ UNCHANGED <<nextPartyID, invited, corrupted>>

(***************************************************************************)
(* ProcessDetach: CheckMemberLogin, then RemovePlayerReferences, then the  *)
(* creature is deleted.  A later login starts with a PartyID of 0.         *)
(***************************************************************************)
Disconnect(p) ==
    /\ ~corrupted /\ p \in online
    /\ mPartyList' = UpdatePlayerReferences(p, CreatureID(p), 0)
    /\ PartyID' = [PartyID EXCEPT ![p] = 0]
    /\ online' = online \ {p}
    /\ invited' = {inv \in invited : inv[2] # p}
    /\ UNCHANGED <<nextPartyID, places, corrupted>>

-----------------------------------------------------------------------------
(***************************************************************************)
(* /partyquit: p is removed from every party up to the first that is then  *)
(* left to one member, or that p leads without being in it; that one is    *)
(* deleted.  The leader is not replaced.                                   *)
(***************************************************************************)
DebugForceRemove(p) ==
    LET dies(party) == IF HasMember(party, p) THEN Len(Remaining(party, p)) <= 1
                       ELSE party.leader = p
        dead == First({i \in DOMAIN mPartyList : dies(mPartyList[i])})
        last == IF dead = 0 THEN Len(mPartyList) + 1 ELSE dead
        removed == [i \in DOMAIN mPartyList |->
                      IF i < last
                      THEN [mPartyList[i] EXCEPT !.members = Remaining(mPartyList[i], p)]
                      ELSE mPartyList[i]]
        dropped == UNION {IF i = dead THEN AllEntries(mPartyList[i])
                          ELSE EntriesOf(mPartyList[i], p) : i \in DOMAIN mPartyList \cap 1..last}
    IN /\ ~corrupted /\ p \in online
       /\ mPartyList' = IF dead = 0 THEN removed ELSE DropIndex(removed, dead)
       /\ ClearPartyIDs({p}, dropped)
       /\ UNCHANGED <<nextPartyID, online, places, invited>>

(***************************************************************************)
(* /partyzap.                                                              *)
(***************************************************************************)
DebugDestroyParties ==
    /\ ~corrupted /\ mPartyList # <<>>
    /\ mPartyList' = <<>>
    /\ ClearPartyIDs({}, UNION {AllEntries(mPartyList[i]) : i \in DOMAIN mPartyList})
    /\ UNCHANGED <<nextPartyID, online, places, invited>>

Next ==
    \/ \E p, q \in Players : Invite(p, q) \/ AcceptInvite(p, q) \/ RejectInvite(p, q)
    \/ \E p \in Players, id \in CreatureIDs : DoSetLeader(p, id) \/ DoKick(p, id)
    \/ \E p \in Players : DoQuit(p) \/ SetZone(p) \/ Disconnect(p) \/ DebugForceRemove(p)
    \/ DebugDestroyParties

Spec == Init /\ [][Next]_vars

-----------------------------------------------------------------------------
(* Properties.                                                             *)

(***************************************************************************)
(* Types, and what the code takes for granted of its vectors: no two       *)
(* parties have the same id and no party lists a player twice.             *)
(***************************************************************************)
TypeOK ==
    /\ mPartyList \in Seq(ActiveParty)
    /\ \A i, j \in DOMAIN mPartyList : mPartyList[i].id = mPartyList[j].id => i = j
    /\ \A i \in DOMAIN mPartyList :
          \A j, k \in DOMAIN mPartyList[i].members :
             mPartyList[i].members[j].def = mPartyList[i].members[k].def => j = k
    /\ nextPartyID \in 1..(MaxParties + 1)
    /\ PartyID \in [Players -> 0..MaxParties]
    /\ online \subseteq Players
    /\ login \in [Players -> 0..MaxCreatures] /\ zone \in [Players -> 0..MaxCreatures]
    /\ creatures \in 0..MaxCreatures
    /\ invited \subseteq Players \X Players
    /\ corrupted \in BOOLEAN

(***************************************************************************)
(* A player whose PartyID is set is in that party's list, and the list     *)
(* points to the creature he has now.  Chat, loot and experience look the  *)
(* party up by PartyID; a list that lost him would share nothing with him, *)
(* and a deletion of the party would leave him in one that does not exist. *)
(***************************************************************************)
PartyKnowsMembers ==
    \A p \in online :
       PartyID[p] # 0 =>
          \E i \in DOMAIN mPartyList :
             /\ mPartyList[i].id = PartyID[p]
             /\ \E m \in EntriesOf(mPartyList[i], p) : Live(m)

(***************************************************************************)
(* A leader who is in the party he leads can use his rights: kick and      *)
(* setLeader compare mLeaderID with the id of his creature, which changes  *)
(* with every connection.                                                  *)
(***************************************************************************)
LeaderCanAct ==
    \A p \in online, i \in DOMAIN mPartyList :
       (mPartyList[i].id = PartyID[p] /\ mPartyList[i].leader = p)
          => mPartyList[i].leaderID = CreatureID(p)
=============================================================================
