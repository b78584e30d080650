------------------------------ MODULE Instances ------------------------------
(***************************************************************************)
(* The instances of zones on a shard (ActiveInstanceManager of             *)
(* Instance.cpp) and the players in them: a player is placed in an         *)
(* instance when he logs in, changes zone or warps, taken out of it when   *)
(* he leaves, and an instance that stays empty is deleted.  Everything     *)
(* runs on the main thread, so each operation is one action.               *)
(*                                                                         *)
(* Times are kept as the time that is left, which is all that the code's   *)
(* comparisons with g_ServerTime tell apart.  Party.tla models parties;    *)
(* here a party is an id, a leader and the players whose PartyID it is.    *)
(***************************************************************************)
EXTENDS Integers, FiniteSets

CONSTANTS
    Players,
    Nobody,             \* no player
    Zones,              \* zone ids players ask for
    Defined,            \* those that have a ZoneDefInfo
    Instanced,          \* zones with mInstance: private to a party or player
    Persistent,         \* zones with mPersist
    MaxParties,         \* bound: party ids handed out
    BASE_INSTANCE_ID, MAX_INSTANCE_ID,
    INSTANCE_DELETE_MAXTIME, INSTANCE_DELETE_RECHECK

ASSUME InstancesAssumption ==
    /\ IsFiniteSet(Players) /\ Nobody \notin Players
    /\ Defined \subseteq Zones /\ Instanced \subseteq Defined /\ Persistent \subseteq Defined
    /\ MaxParties \in Nat
    /\ BASE_INSTANCE_ID \in Nat \ {0} /\ MAX_INSTANCE_ID \in Nat
    /\ BASE_INSTANCE_ID <= MAX_INSTANCE_ID
    /\ INSTANCE_DELETE_MAXTIME \in Nat /\ INSTANCE_DELETE_RECHECK \in Nat

VARIABLES
    instList,           \* the instances
    NextInstanceID,
    actInst,            \* id of the instance each player's creature is in, 0 if none
    online,             \* players with a simulator
    PartyID,            \* party of each player, 0 if none
    leader,             \* leader of each party, Nobody if it is gone
    nextPartyID,
    nextInstanceCheck,  \* time left
    crashed             \* a null actInst was dereferenced

party == <<PartyID, leader, nextPartyID>>
vars == <<instList, NextInstanceID, actInst, online, party, nextInstanceCheck, crashed>>

InstanceIds == BASE_INSTANCE_ID..MAX_INSTANCE_ID
Parties == 1..MaxParties

-----------------------------------------------------------------------------
(***************************************************************************)
(* players is PlayerList, expire the time left until mExpireTime.          *)
(***************************************************************************)
ActiveInstance ==
    [id : InstanceIds, zone : Defined, owner : Players \cup {Nobody},
     ownerParty : Parties \cup {0}, players : SUBSET Players, mPlayers : Nat,
     expire : 0..INSTANCE_DELETE_MAXTIME]

AdjustPlayerCount(inst, offset) ==
    [inst EXCEPT !.mPlayers = @ + offset,
                 !.expire = IF inst.mPlayers + offset <= 0 THEN INSTANCE_DELETE_MAXTIME ELSE @]

(***************************************************************************)
(* The lookups return the first instance of the list that matches; here,   *)
(* all that match.  PlacementUnambiguous says that there is at most one.   *)
(***************************************************************************)
GetPtrByZoneInstanceID(list, z, id) == {inst \in list : inst.zone = z /\ inst.id = id}
GetPtrByZonePartyID(list, z, id) == {inst \in list : inst.zone = z /\ inst.ownerParty = id}
GetPtrByZoneOwner(list, z, p) == {inst \in list : inst.zone = z /\ inst.owner = p}
GetPtrByZoneID(list, z) == {inst \in list : inst.zone = z}

\* in_creatureDefID: the leader of the player's party stands for him.
PlacementOwner(p) ==
    IF PartyID[p] # 0 /\ leader[PartyID[p]] # Nobody THEN leader[PartyID[p]] ELSE p

\* Mutant of ResolveExistingInstance: the leader's instance is not looked for.
ResolveOwnInstance(list, p, z, id) ==
    LET byId == GetPtrByZoneInstanceID(list, z, id)
        byParty == GetPtrByZonePartyID(list, z, PartyID[p])
    IN IF id # 0 /\ byId # {} THEN byId
       ELSE IF z \notin Instanced THEN GetPtrByZoneID(list, z)
       ELSE IF PartyID[p] # 0 /\ byParty # {} THEN byParty
       ELSE GetPtrByZoneOwner(list, z, p)

(***************************************************************************)
(* The instance asked for; or in a private zone the one of the player's    *)
(* party, or of the party's leader or himself; or the zone's only one.     *)
(***************************************************************************)
ResolveExistingInstance(list, p, z, id) ==
    LET byId == GetPtrByZoneInstanceID(list, z, id)
        byParty == GetPtrByZonePartyID(list, z, PartyID[p])
    IN IF id # 0 /\ byId # {} THEN byId
       ELSE IF z \notin Instanced THEN GetPtrByZoneID(list, z)
       ELSE IF PartyID[p] # 0 /\ byParty # {} THEN byParty
       ELSE GetPtrByZoneOwner(list, z, PlacementOwner(p))

(***************************************************************************)
(* Ids are handed out in turn, from the base again after the last, without *)
(* those in use.  With all of them in use the search would never end.      *)
(***************************************************************************)
UsedIds == {inst.id : inst \in instList}

\* id is what it returns.
GetNewInstanceID(id) ==
    LET turn(n) == (n - NextInstanceID - 1) % (MAX_INSTANCE_ID - BASE_INSTANCE_ID + 1)
    IN  /\ id \notin UsedIds
        /\ \A other \in InstanceIds \ UsedIds : turn(id) <= turn(other)

\* CreateInstance, and the ownership AddSimulator_Ex gives to a private one.
CreateInstance(p, z, new) ==
    [id |-> new, zone |-> z,
     owner |-> IF z \in Instanced THEN PlacementOwner(p) ELSE Nobody,
     ownerParty |-> IF z \in Instanced THEN PartyID[p] ELSE 0,
     players |-> {}, mPlayers |-> 0, expire |-> 0]

\* LoadPlayer and AdjustPlayerCount(1).
LoadPlayer(inst, p) == AdjustPlayerCount([inst EXCEPT !.players = @ \cup {p}], 1)

\* Mutants of UnloadPlayer: the player is counted off twice, or not at all.
UnloadPlayerTwice(inst, p) == AdjustPlayerCount([inst EXCEPT !.players = @ \ {p}], -2)

UnloadPlayerCounted(inst, p) == [inst EXCEPT !.players = @ \ {p}]

UnloadPlayer(inst, p) == AdjustPlayerCount([inst EXCEPT !.players = @ \ {p}], -1)

\* MainCallHelperInstanceUnregister.
Unregistered(p) ==
    {IF inst.id = actInst[p] /\ p \in inst.players THEN UnloadPlayer(inst, p) ELSE inst :
       inst \in instList}

-----------------------------------------------------------------------------
Init ==
    /\ instList = {} /\ NextInstanceID = BASE_INSTANCE_ID
    /\ actInst = [p \in Players |-> 0] /\ online = {}
    /\ PartyID = [p \in Players |-> 0] /\ leader = [id \in Parties |-> Nobody]
    /\ nextPartyID = 1
    /\ nextInstanceCheck = 0
    /\ crashed = FALSE

(***************************************************************************)
(* AddSimulator_Ex: p, who is in no instance of list, is placed in one.    *)
(***************************************************************************)
AddSimulator_Ex(list, p, z, id) ==
    LET found == ResolveExistingInstance(list, p, z, id)
    IN \/ /\ z \in Defined
          /\ \E inst \in found :
                /\ instList' = (list \ {inst}) \cup {LoadPlayer(inst, p)}
                /\ actInst' = [actInst EXCEPT ![p] = inst.id]
          /\ UNCHANGED NextInstanceID
       \/ /\ z \in Defined /\ found = {}
          /\ \E new \in InstanceIds :
                /\ GetNewInstanceID(new)
                /\ instList' = list \cup {LoadPlayer(CreateInstance(p, z, new), p)}
                /\ actInst' = [actInst EXCEPT ![p] = new]
                /\ NextInstanceID' = new
       \/ /\ z \notin Defined
          /\ instList' = list
          /\ actInst' = [actInst EXCEPT ![p] = 0]
          /\ UNCHANGED NextInstanceID

\* SetPersona: the first zone that is set.
Login(p, z) ==
    /\ ~crashed /\ p \notin online /\ z \in Defined
    /\ online' = online \cup {p}
    /\ AddSimulator_Ex(instList, p, z, 0)
    /\ UNCHANGED <<party, nextInstanceCheck, crashed>>

(***************************************************************************)
(* MainCallSetZone, for portals, warps and scripts; id is not 0 when one   *)
(* warps to an instance.  A zone that is not defined leaves the player     *)
(* nowhere, to be disconnected.                                            *)
(***************************************************************************)
MainCallSetZone(p, z, id) ==
    /\ ~crashed /\ p \in online /\ actInst[p] # 0
    /\ \A inst \in instList : (inst.id = actInst[p] /\ inst.zone = z) => id # 0
    /\ AddSimulator_Ex(Unregistered(p), p, z, id)
    /\ UNCHANGED <<online, party, nextInstanceCheck, crashed>>

(***************************************************************************)
(* ProcessDetach: the others in the instance are told through actInst,     *)
(* null or not, and the player is taken out of it.                         *)
(***************************************************************************)
ProcessDetach(p) ==
    /\ ~crashed /\ p \in online
    /\ crashed' = (actInst[p] = 0)
    /\ instList' = Unregistered(p)
    /\ actInst' = [actInst EXCEPT ![p] = 0]
    /\ online' = online \ {p}
    /\ UNCHANGED <<NextInstanceID, party, nextInstanceCheck>>

\* Mutant of QualifyDelete: one player too many.
QualifyDeleteEarly(inst) == inst.mPlayers <= 1 /\ inst.zone \notin Persistent /\ inst.expire = 0

QualifyDelete(inst) == inst.mPlayers <= 0 /\ inst.zone \notin Persistent /\ inst.expire = 0

CheckActiveInstances ==
    /\ ~crashed /\ nextInstanceCheck = 0
    /\ nextInstanceCheck' = INSTANCE_DELETE_RECHECK
    /\ instList' = {inst \in instList : ~QualifyDelete(inst)}
    /\ UNCHANGED <<NextInstanceID, actInst, online, party, crashed>>

DebugFlushInactiveInstances ==
    /\ ~crashed
    /\ instList' = {IF inst.mPlayers = 0 THEN [inst EXCEPT !.expire = 0] ELSE inst :
                      inst \in instList}
    /\ nextInstanceCheck' = 0
    /\ UNCHANGED <<NextInstanceID, actInst, online, party, crashed>>

Less(t) == IF t > 0 THEN t - 1 ELSE 0

Tick ==
    /\ ~crashed
    /\ instList' = {[inst EXCEPT !.expire = Less(@)] : inst \in instList}
    /\ nextInstanceCheck' = Less(nextInstanceCheck)
    /\ UNCHANGED <<NextInstanceID, actInst, online, party, crashed>>

-----------------------------------------------------------------------------
(* What Party.tla does to the ids and leaders that are looked at here.     *)

Members(id) == {p \in Players : PartyID[p] = id}

AcceptInvite(p, q) ==
    /\ ~crashed /\ p # q /\ {p, q} \subseteq online /\ PartyID[p] = 0
    /\ \/ /\ PartyID[q] = 0 /\ nextPartyID \in Parties
          /\ PartyID' = [PartyID EXCEPT ![p] = nextPartyID, ![q] = nextPartyID]
          /\ leader' = [leader EXCEPT ![nextPartyID] = q]
          /\ nextPartyID' = nextPartyID + 1
       \/ /\ PartyID[q] # 0 /\ leader[PartyID[q]] = q
          /\ PartyID' = [PartyID EXCEPT ![p] = PartyID[q]]
          /\ UNCHANGED <<leader, nextPartyID>>
    /\ UNCHANGED <<instList, NextInstanceID, actInst, online, nextInstanceCheck, crashed>>

DoQuit(p) ==
    LET id == PartyID[p]
        rest == Members(id) \ {p}
    IN /\ ~crashed /\ p \in online /\ id # 0
       /\ \/ /\ Cardinality(rest) <= 1
             /\ PartyID' = [q \in Players |-> IF q \in Members(id) THEN 0 ELSE PartyID[q]]
             /\ leader' = [leader EXCEPT ![id] = Nobody]
          \/ /\ Cardinality(rest) > 1
             /\ PartyID' = [PartyID EXCEPT ![p] = 0]
             /\ \E q \in rest : leader' = [leader EXCEPT ![id] = IF @ = p THEN q ELSE @]
       /\ UNCHANGED <<instList, NextInstanceID, actInst, online, nextPartyID, nextInstanceCheck, crashed>>

DoSetLeader(p, q) ==
    /\ ~crashed /\ p \in online /\ PartyID[p] # 0
    /\ leader[PartyID[p]] = p /\ q # p /\ PartyID[q] = PartyID[p]
    /\ leader' = [leader EXCEPT ![PartyID[p]] = q]
    /\ UNCHANGED <<instList, NextInstanceID, actInst, online, PartyID, nextPartyID,
                   nextInstanceCheck, crashed>>

Next ==
    \/ \E p \in Players, z \in Zones :
          Login(p, z) \/ \E id \in {0} \cup UsedIds : MainCallSetZone(p, z, id)
    \/ \E p \in Players : ProcessDetach(p) \/ DoQuit(p)
    \/ \E p, q \in Players : AcceptInvite(p, q) \/ DoSetLeader(p, q)
    \/ CheckActiveInstances \/ DebugFlushInactiveInstances \/ Tick

\* The main loop goes on, and so does the clock.
Spec == Init /\ [][Next]_vars /\ WF_vars(CheckActiveInstances) /\ WF_vars(Tick)

-----------------------------------------------------------------------------
(* Properties.                                                             *)

TypeOK ==
    /\ instList \subseteq ActiveInstance
    /\ NextInstanceID \in InstanceIds
    /\ actInst \in [Players -> InstanceIds \cup {0}]
    /\ online \subseteq Players
    /\ PartyID \in [Players -> Parties \cup {0}]
    /\ leader \in [Parties -> Players \cup {Nobody}]
    /\ nextPartyID \in 1..(MaxParties + 1)
    /\ nextInstanceCheck \in 0..INSTANCE_DELETE_RECHECK
    /\ crashed \in BOOLEAN

(***************************************************************************)
(* The instance a player's creature points to exists and has him in its    *)
(* list: instances are deleted by a counter that is kept apart from the    *)
(* list, whatever the order in which players move, warp into each other's  *)
(* instances and disconnect.                                               *)
(***************************************************************************)
InstanceOutlivesPlayers ==
    \A p \in Players :
       actInst[p] # 0 => \E inst \in instList : inst.id = actInst[p] /\ p \in inst.players

(***************************************************************************)
(* Nobody can be placed in two ways: instance ids are unique though they   *)
(* are used again, a public zone has one instance, and a private zone has  *)
(* one for each party and one for each owner, though parties change their  *)
(* leaders and their members between two visits.                           *)
(***************************************************************************)
PlacementUnambiguous ==
    \A a, b \in instList :
       a # b => /\ a.id # b.id
                /\ a.zone = b.zone => /\ a.zone \in Instanced
                                      /\ a.owner # b.owner
                                      /\ a.ownerParty # 0 => a.ownerParty # b.ownerParty

\* Instance id is empty and not to be kept.
Empty(id) ==
    \E inst \in instList : inst.id = id /\ inst.players = {} /\ inst.zone \notin Persistent

(***************************************************************************)
(* An instance that its last player left is deleted, unless somebody comes *)
(* back; the memory of dungeons does not pile up.                          *)
(***************************************************************************)
EmptyInstancesGo == \A id \in InstanceIds : Empty(id) ~> (crashed \/ ~Empty(id))
=============================================================================
