--------------------------- MODULE InstancesProofs ---------------------------
(***************************************************************************)
(* What holds of instances for any number of players, zones, parties and   *)
(* instance ids.                                                           *)
(***************************************************************************)
EXTENDS Instances, FiniteSetTheorems, TLAPS

\* The lookups of a list of instances have one answer.
Unambiguous(list) ==
    \A a, b \in list :
       a # b => /\ a.id # b.id
                /\ a.zone = b.zone => /\ a.zone \in Instanced
                                      /\ a.owner # b.owner
                                      /\ a.ownerParty # 0 => a.ownerParty # b.ownerParty

\* The counter of an instance counts its list.
Counted(list) == \A inst \in list : inst.mPlayers = Cardinality(inst.players)

\* Who is in a list is in that instance only: at is where each player is.
Listed(list, at) == \A inst \in list : \A p \in inst.players : at[p] = inst.id

Outlives(list, at) ==
    \A p \in Players :
       at[p] # 0 => \E inst \in list : inst.id = at[p] /\ p \in inst.players

Sound(list, at) ==
    /\ list \subseteq ActiveInstance
    /\ at \in [Players -> InstanceIds \cup {0}]
    /\ Counted(list) /\ Listed(list, at) /\ Outlives(list, at) /\ Unambiguous(list)

\* Only players with a simulator are in an instance.
Placed == \A p \in Players : p \notin online => actInst[p] = 0

RestType ==
    /\ NextInstanceID \in InstanceIds
    /\ online \subseteq Players
    /\ PartyID \in [Players -> Parties \cup {0}]
    /\ leader \in [Parties -> Players \cup {Nobody}]
    /\ nextPartyID \in 1..(MaxParties + 1)
    /\ nextInstanceCheck \in 0..INSTANCE_DELETE_RECHECK
    /\ crashed \in BOOLEAN

IInv == Sound(instList, actInst) /\ Placed /\ RestType

-----------------------------------------------------------------------------
(* Loading and unloading one player.                                       *)

LEMMA AdjustedInstance ==
    ASSUME NEW inst \in ActiveInstance, NEW offset \in Int, inst.mPlayers + offset \in Nat
    PROVE  LET new == AdjustPlayerCount(inst, offset)
           IN /\ new \in ActiveInstance
              /\ new.id = inst.id /\ new.zone = inst.zone
              /\ new.owner = inst.owner /\ new.ownerParty = inst.ownerParty
              /\ new.players = inst.players
              /\ new.mPlayers = inst.mPlayers + offset
<1> DEFINE t == IF inst.mPlayers + offset <= 0 THEN INSTANCE_DELETE_MAXTIME ELSE inst.expire
           n == inst.mPlayers + offset
<1>1. t \in 0..INSTANCE_DELETE_MAXTIME
  BY InstancesAssumption DEF ActiveInstance
<1>2. AdjustPlayerCount(inst, offset) = [inst EXCEPT !.mPlayers = n, !.expire = t]
  BY DEF AdjustPlayerCount, ActiveInstance
<1> HIDE DEF n, t
<1>3. n \in Nat
  BY DEF n
<1>4. LET new == [inst EXCEPT !.mPlayers = n, !.expire = t]
      IN /\ new \in ActiveInstance
         /\ new.id = inst.id /\ new.zone = inst.zone
         /\ new.owner = inst.owner /\ new.ownerParty = inst.ownerParty
         /\ new.players = inst.players
         /\ new.mPlayers = n
  BY <1>1, <1>3 DEF ActiveInstance
<1> QED
  BY <1>2, <1>4 DEF n

LEMMA RelistedInstance ==
    ASSUME NEW inst \in ActiveInstance, NEW players \in SUBSET Players
    PROVE  LET new == [inst EXCEPT !.players = players]
           IN /\ new \in ActiveInstance
              /\ new.id = inst.id /\ new.zone = inst.zone
              /\ new.owner = inst.owner /\ new.ownerParty = inst.ownerParty
              /\ new.players = players
              /\ new.mPlayers = inst.mPlayers
BY DEF ActiveInstance

LEMMA LoadedInstance ==
    ASSUME NEW inst \in ActiveInstance, NEW p \in Players, p \notin inst.players,
           inst.mPlayers = Cardinality(inst.players)
    PROVE  LET new == LoadPlayer(inst, p)
           IN /\ new \in ActiveInstance
              /\ new.id = inst.id /\ new.zone = inst.zone
              /\ new.owner = inst.owner /\ new.ownerParty = inst.ownerParty
              /\ new.players = inst.players \cup {p}
              /\ new.mPlayers = Cardinality(new.players)
<1>1. inst.players \in SUBSET Players /\ inst.mPlayers \in Nat
  BY DEF ActiveInstance
<1>2. IsFiniteSet(inst.players)
  BY <1>1, FS_Subset, InstancesAssumption
<1>3. Cardinality(inst.players \cup {p}) = inst.mPlayers + 1
  BY <1>2, FS_AddElement
<1> DEFINE mid == [inst EXCEPT !.players = inst.players \cup {p}]
<1>4. LoadPlayer(inst, p) = AdjustPlayerCount(mid, 1)
  BY DEF LoadPlayer
<1>5. /\ mid \in ActiveInstance
      /\ mid.id = inst.id /\ mid.zone = inst.zone
      /\ mid.owner = inst.owner /\ mid.ownerParty = inst.ownerParty
      /\ mid.players = inst.players \cup {p}
      /\ mid.mPlayers = inst.mPlayers
  BY <1>1, RelistedInstance
<1> HIDE DEF mid
<1>6. mid.mPlayers + 1 \in Nat
  BY <1>1, <1>5
<1> DEFINE new == AdjustPlayerCount(mid, 1)
<1>7. /\ new \in ActiveInstance
      /\ new.id = mid.id /\ new.zone = mid.zone
      /\ new.owner = mid.owner /\ new.ownerParty = mid.ownerParty
      /\ new.players = mid.players
      /\ new.mPlayers = mid.mPlayers + 1
  BY <1>5, <1>6, AdjustedInstance
<1> HIDE DEF new
<1> QED
  BY <1>3, <1>4, <1>5, <1>6, <1>7 DEF new

LEMMA UnloadedInstance ==
    ASSUME NEW inst \in ActiveInstance, NEW p \in inst.players,
           inst.mPlayers = Cardinality(inst.players)
    PROVE  LET new == UnloadPlayer(inst, p)
           IN /\ new \in ActiveInstance
              /\ new.id = inst.id /\ new.zone = inst.zone
              /\ new.owner = inst.owner /\ new.ownerParty = inst.ownerParty
              /\ new.players = inst.players \ {p}
              /\ new.mPlayers = Cardinality(new.players)
<1>1. inst.players \in SUBSET Players /\ inst.mPlayers \in Nat
  BY DEF ActiveInstance
<1>2. IsFiniteSet(inst.players)
  BY <1>1, FS_Subset, InstancesAssumption
<1>3. /\ Cardinality(inst.players \ {p}) = inst.mPlayers - 1
      /\ inst.mPlayers - 1 \in Nat
  BY <1>2, FS_RemoveElement, FS_CardinalityType
<1> DEFINE mid == [inst EXCEPT !.players = inst.players \ {p}]
<1>4. UnloadPlayer(inst, p) = AdjustPlayerCount(mid, -1)
  BY DEF UnloadPlayer
<1>5. /\ mid \in ActiveInstance
      /\ mid.id = inst.id /\ mid.zone = inst.zone
      /\ mid.owner = inst.owner /\ mid.ownerParty = inst.ownerParty
      /\ mid.players = inst.players \ {p}
      /\ mid.mPlayers = inst.mPlayers
  BY <1>1, RelistedInstance
<1> HIDE DEF mid
<1>6. mid.mPlayers + (-1) = inst.mPlayers - 1
  BY <1>1, <1>5
<1> DEFINE new == AdjustPlayerCount(mid, -1)
<1>7. /\ new \in ActiveInstance
      /\ new.id = mid.id /\ new.zone = mid.zone
      /\ new.owner = mid.owner /\ new.ownerParty = mid.ownerParty
      /\ new.players = mid.players
      /\ new.mPlayers = mid.mPlayers + (-1)
  BY <1>5, <1>6, AdjustedInstance, <1>3
<1> HIDE DEF new
<1> QED
  BY <1>3, <1>4, <1>5, <1>6, <1>7 DEF new

-----------------------------------------------------------------------------
(* Steps that change every instance on its own.                            *)

\* Changing no more than the time an instance has left keeps a list sound.
LEMMA TimesKeep ==
    ASSUME NEW f, NEW list, NEW at, Sound(list, at),
           f \in [list -> ActiveInstance],
           \A inst \in list : /\ f[inst].id = inst.id /\ f[inst].zone = inst.zone
                              /\ f[inst].owner = inst.owner
                              /\ f[inst].ownerParty = inst.ownerParty
                              /\ f[inst].players = inst.players
                              /\ f[inst].mPlayers = inst.mPlayers
    PROVE  Sound({f[inst] : inst \in list}, at)
<1> DEFINE new == {f[inst] : inst \in list}
<1>1. new \subseteq ActiveInstance /\ at \in [Players -> InstanceIds \cup {0}]
  BY DEF Sound
<1>2. Counted(new)
  BY DEF Sound, Counted
<1>3. Listed(new, at)
  BY DEF Sound, Listed
<1>4. Outlives(new, at)
  BY DEF Sound, Outlives
<1>5. Unambiguous(new)
  BY DEF Sound, Unambiguous
<1> QED
  BY <1>1, <1>2, <1>3, <1>4, <1>5 DEF Sound

\* Without player p, who is then nowhere, the list is sound and has the same ids.
LEMMA UnregisteredKeeps ==
    ASSUME IInv, NEW p \in Players
    PROVE  /\ Sound(Unregistered(p), [actInst EXCEPT ![p] = 0])
           /\ {inst.id : inst \in Unregistered(p)} = UsedIds
<1> DEFINE list == Unregistered(p)
           at == [actInst EXCEPT ![p] = 0]
           f == [inst \in instList |->
                   IF inst.id = actInst[p] /\ p \in inst.players
                   THEN UnloadPlayer(inst, p) ELSE inst]
<1>1. list = {f[inst] : inst \in instList}
  BY DEF Unregistered
<1>2. \A inst \in instList :
         /\ inst \in ActiveInstance /\ f[inst] \in ActiveInstance
         /\ f[inst].id = inst.id /\ f[inst].zone = inst.zone
         /\ f[inst].owner = inst.owner /\ f[inst].ownerParty = inst.ownerParty
         /\ f[inst].players = inst.players \ {p}
         /\ f[inst].mPlayers = Cardinality(f[inst].players)
  <2> TAKE inst \in instList
  <2>1. inst \in ActiveInstance /\ inst.mPlayers = Cardinality(inst.players)
    BY DEF IInv, Sound, Counted
  <2>2. CASE p \in inst.players
    <3>1. f[inst] = UnloadPlayer(inst, p)
      BY <2>2 DEF IInv, Sound, Listed
    <3> QED
      BY <2>1, <2>2, <3>1, UnloadedInstance
  <2>3. CASE p \notin inst.players
    <3>1. f[inst] = inst /\ inst.players \ {p} = inst.players
      BY <2>3
    <3> QED
      BY <2>1, <3>1
  <2> QED
    BY <2>2, <2>3
<1> HIDE DEF f
<1>3. at \in [Players -> InstanceIds \cup {0}] /\ at[p] = 0
      /\ \A q \in Players : q # p => at[q] = actInst[q]
  BY DEF IInv, Sound
<1>4. list \subseteq ActiveInstance /\ Counted(list)
  BY <1>1, <1>2 DEF Counted
<1>5. Listed(list, at)
  <2> SUFFICES ASSUME NEW inst \in instList, NEW q \in inst.players \ {p}
               PROVE  at[q] = inst.id
    BY <1>1, <1>2 DEF Listed
  <2> QED
    BY <1>2, <1>3 DEF IInv, Sound, Listed, ActiveInstance
<1>6. Outlives(list, at)
  <2> SUFFICES ASSUME NEW q \in Players, at[q] # 0
               PROVE  \E inst \in list : inst.id = at[q] /\ q \in inst.players
    BY DEF Outlives
  <2>1. q # p /\ at[q] = actInst[q]
    BY <1>3
  <2>2. PICK inst \in instList : inst.id = actInst[q] /\ q \in inst.players
    BY <2>1 DEF IInv, Sound, Outlives
  <2> QED
    BY <1>1, <1>2, <2>1, <2>2
<1>7. Unambiguous(list)
  BY <1>1, <1>2 DEF IInv, Sound, Unambiguous
<1>8. {inst.id : inst \in list} = UsedIds
  BY <1>1, <1>2 DEF UsedIds
<1> QED
  BY <1>3, <1>4, <1>5, <1>6, <1>7, <1>8 DEF Sound

-----------------------------------------------------------------------------
(* Placing a player.                                                       *)

\* Adding p to an instance of a list he is in no instance of.
LEMMA JoinKeeps ==
    ASSUME NEW list, NEW at, Sound(list, at), NEW p \in Players, at[p] = 0,
           NEW inst \in list
    PROVE  Sound((list \ {inst}) \cup {LoadPlayer(inst, p)}, [at EXCEPT ![p] = inst.id])
<1> DEFINE load == LoadPlayer(inst, p)
           new == (list \ {inst}) \cup {load}
           now == [at EXCEPT ![p] = inst.id]
<1>1. \A other \in list : other \in ActiveInstance /\ other.id \in InstanceIds
                          /\ p \notin other.players
  BY InstancesAssumption DEF Sound, Listed, ActiveInstance, InstanceIds
<1>2. /\ load \in ActiveInstance
      /\ load.id = inst.id /\ load.zone = inst.zone
      /\ load.owner = inst.owner /\ load.ownerParty = inst.ownerParty
      /\ load.players = inst.players \cup {p}
      /\ load.mPlayers = Cardinality(load.players)
  BY <1>1, LoadedInstance DEF Sound, Counted
<1> HIDE DEF load
<1>3. now \in [Players -> InstanceIds \cup {0}] /\ now[p] = inst.id
      /\ \A q \in Players : q # p => now[q] = at[q]
  BY <1>1 DEF Sound
<1>4. new \subseteq ActiveInstance /\ Counted(new)
  BY <1>1, <1>2 DEF Sound, Counted
<1>5. Listed(new, now)
  <2> SUFFICES ASSUME NEW other \in new, NEW q \in other.players
               PROVE  now[q] = other.id
    BY DEF Listed
  <2>1. q \in Players
    BY <1>4 DEF ActiveInstance
  <2>2. CASE q = p
    BY <1>1, <1>2, <1>3, <2>2
  <2>3. CASE q # p
    BY <1>2, <1>3, <2>1, <2>3 DEF Sound, Listed
  <2> QED
    BY <2>2, <2>3
<1>6. Outlives(new, now)
  <2> SUFFICES ASSUME NEW q \in Players, now[q] # 0
               PROVE  \E other \in new : other.id = now[q] /\ q \in other.players
    BY DEF Outlives
  <2>1. CASE q = p
    BY <1>2, <1>3, <2>1
  <2>2. CASE q # p
    <3>1. PICK other \in list : other.id = now[q] /\ q \in other.players
      BY <1>3, <2>2 DEF Sound, Outlives
    <3> QED
      BY <1>2, <3>1
  <2> QED
    BY <2>1, <2>2
<1>7. Unambiguous(new)
  BY <1>2 DEF Sound, Unambiguous
<1> QED
  BY <1>3, <1>4, <1>5, <1>6, <1>7 DEF Sound, load

\* Adding an instance with p in it, which no lookup finds.
LEMMA NewKeeps ==
    ASSUME NEW list, NEW at, Sound(list, at), NEW p \in Players, at[p] = 0,
           NEW inst \in ActiveInstance, inst.players = {}, inst.mPlayers = 0,
           \A other \in list :
              /\ other.id # inst.id
              /\ other.zone = inst.zone => /\ other.zone \in Instanced
                                           /\ other.owner # inst.owner
                                           /\ inst.ownerParty # 0
                                                 => other.ownerParty # inst.ownerParty
    PROVE  Sound(list \cup {LoadPlayer(inst, p)}, [at EXCEPT ![p] = inst.id])
<1> DEFINE load == LoadPlayer(inst, p)
           new == list \cup {load}
           now == [at EXCEPT ![p] = inst.id]
<1>1. \A other \in list : other \in ActiveInstance /\ p \notin other.players
  BY InstancesAssumption DEF Sound, Listed, ActiveInstance, InstanceIds
<1>2. /\ load \in ActiveInstance
      /\ load.id = inst.id /\ load.zone = inst.zone
      /\ load.owner = inst.owner /\ load.ownerParty = inst.ownerParty
      /\ load.players = {p}
      /\ load.mPlayers = Cardinality(load.players)
  BY FS_EmptySet, LoadedInstance
<1> HIDE DEF load
<1>3. now \in [Players -> InstanceIds \cup {0}] /\ now[p] = inst.id
      /\ \A q \in Players : q # p => now[q] = at[q]
  BY DEF Sound, ActiveInstance
<1>4. new \subseteq ActiveInstance /\ Counted(new)
  BY <1>1, <1>2 DEF Sound, Counted
<1>5. Listed(new, now)
  <2> SUFFICES ASSUME NEW other \in new, NEW q \in other.players
               PROVE  now[q] = other.id
    BY DEF Listed
  <2>1. q \in Players
    BY <1>4 DEF ActiveInstance
  <2> QED
    BY <1>1, <1>2, <1>3, <2>1 DEF Sound, Listed
<1>6. Outlives(new, now)
  <2> SUFFICES ASSUME NEW q \in Players, now[q] # 0
               PROVE  \E other \in new : other.id = now[q] /\ q \in other.players
    BY DEF Outlives
  <2>1. CASE q = p
    BY <1>2, <1>3, <2>1
  <2>2. CASE q # p
    BY <1>3, <2>2 DEF Sound, Outlives
  <2> QED
    BY <2>1, <2>2
<1>7. Unambiguous(new)
  BY <1>2 DEF Sound, Unambiguous
<1> QED
  BY <1>3, <1>4, <1>5, <1>6, <1>7 DEF Sound, load

\* Who is looked up instead of p is a player.
LEMMA OwnerType ==
    ASSUME IInv, NEW p \in Players
    PROVE  PlacementOwner(p) \in Players /\ PartyID[p] \in Parties \cup {0}
BY DEF PlacementOwner, IInv, RestType

\* AddSimulator_Ex on a list in which p is nowhere.
LEMMA AddSimulatorKeeps ==
    ASSUME IInv, NEW p \in Players, NEW list, NEW z \in Zones, NEW id,
           Sound(list, [actInst EXCEPT ![p] = 0]),
           {inst.id : inst \in list} = UsedIds,
           AddSimulator_Ex(list, p, z, id)
    PROVE  /\ Sound(instList', actInst')
           /\ NextInstanceID' \in InstanceIds
           /\ \A q \in Players : q # p => actInst'[q] = actInst[q]
<1> DEFINE at == [actInst EXCEPT ![p] = 0]
           found == ResolveExistingInstance(list, p, z, id)
<1>1. actInst \in [Players -> InstanceIds \cup {0}] /\ NextInstanceID \in InstanceIds
  BY DEF IInv, Sound, RestType
<1>2. at[p] = 0 /\ \A v : [at EXCEPT ![p] = v] = [actInst EXCEPT ![p] = v]
  BY <1>1
<1>3. CASE /\ z \in Defined
           /\ \E inst \in found :
                 /\ instList' = (list \ {inst}) \cup {LoadPlayer(inst, p)}
                 /\ actInst' = [actInst EXCEPT ![p] = inst.id]
           /\ UNCHANGED NextInstanceID
  <2>1. PICK inst \in found :
           /\ instList' = (list \ {inst}) \cup {LoadPlayer(inst, p)}
           /\ actInst' = [actInst EXCEPT ![p] = inst.id]
    BY <1>3
  <2>2. inst \in list
    BY <2>1 DEF ResolveExistingInstance, GetPtrByZoneInstanceID, GetPtrByZonePartyID,
                GetPtrByZoneOwner, GetPtrByZoneID
  <2>3. Sound((list \ {inst}) \cup {LoadPlayer(inst, p)}, [at EXCEPT ![p] = inst.id])
    BY <1>2, <2>2, JoinKeeps
  <2> QED
    BY <1>1, <1>2, <1>3, <2>1, <2>3
<1>4. CASE /\ z \in Defined /\ found = {}
           /\ \E new \in InstanceIds :
                 /\ GetNewInstanceID(new)
                 /\ instList' = list \cup {LoadPlayer(CreateInstance(p, z, new), p)}
                 /\ actInst' = [actInst EXCEPT ![p] = new]
                 /\ NextInstanceID' = new
  <2>1. PICK new \in InstanceIds :
           /\ GetNewInstanceID(new)
           /\ instList' = list \cup {LoadPlayer(CreateInstance(p, z, new), p)}
           /\ actInst' = [actInst EXCEPT ![p] = new]
           /\ NextInstanceID' = new
    BY <1>4
  <2> DEFINE inst == CreateInstance(p, z, new)
  <2>2. /\ inst \in ActiveInstance /\ inst.players = {} /\ inst.mPlayers = 0
        /\ inst.id = new /\ inst.zone = z
        /\ z \in Instanced => inst.owner = PlacementOwner(p) /\ inst.ownerParty = PartyID[p]
    BY <1>4, OwnerType, InstancesAssumption DEF CreateInstance, ActiveInstance
  <2>3. \A other \in list : other.id # new
    BY <2>1 DEF GetNewInstanceID
  <2>4. ASSUME NEW other \in list, other.zone = z
        PROVE  /\ z \in Instanced /\ other.owner # PlacementOwner(p)
               /\ PartyID[p] # 0 => other.ownerParty # PartyID[p]
    BY <1>4, <2>4 DEF ResolveExistingInstance, GetPtrByZoneInstanceID, GetPtrByZonePartyID,
                      GetPtrByZoneOwner, GetPtrByZoneID
  <2> HIDE DEF inst
  <2>5. \A other \in list :
           /\ other.id # inst.id
           /\ other.zone = inst.zone => /\ other.zone \in Instanced
                                        /\ other.owner # inst.owner
                                        /\ inst.ownerParty # 0
                                              => other.ownerParty # inst.ownerParty
    BY <2>2, <2>3, <2>4
  <2> HIDE DEF at
  <2>6. Sound(list, at)
    BY DEF at
  <2>7. Sound(list \cup {LoadPlayer(inst, p)}, [at EXCEPT ![p] = inst.id])
    BY <1>2, <2>2, <2>5, <2>6, NewKeeps
  <2> QED
    BY <1>1, <1>2, <2>1, <2>2, <2>7 DEF inst
<1>5. CASE /\ z \notin Defined
           /\ instList' = list
           /\ actInst' = [actInst EXCEPT ![p] = 0]
           /\ UNCHANGED NextInstanceID
  BY <1>1, <1>5
<1> QED
  BY <1>3, <1>4, <1>5 DEF AddSimulator_Ex

-----------------------------------------------------------------------------
(* The actions.                                                            *)

LEMMA LoginKeeps ==
    ASSUME IInv, NEW p \in Players, NEW z \in Zones, Login(p, z)
    PROVE  IInv'
<1>1. p \notin online /\ AddSimulator_Ex(instList, p, z, 0) /\ online' = online \cup {p}
      /\ UNCHANGED <<party, nextInstanceCheck, crashed>>
  BY DEF Login
<1>2. actInst = [actInst EXCEPT ![p] = 0]
  BY <1>1 DEF IInv, Placed, Sound
<1>3. Sound(instList, [actInst EXCEPT ![p] = 0]) /\ {inst.id : inst \in instList} = UsedIds
  BY <1>2 DEF IInv, UsedIds
<1>4. /\ Sound(instList', actInst') /\ NextInstanceID' \in InstanceIds
      /\ \A q \in Players : q # p => actInst'[q] = actInst[q]
  BY <1>1, <1>3, AddSimulatorKeeps
<1>5. Placed'
  BY <1>1, <1>4 DEF IInv, Placed
<1>6. RestType'
  BY <1>1, <1>4 DEF IInv, RestType, party
<1> QED
  BY <1>4, <1>5, <1>6 DEF IInv

LEMMA MainCallSetZoneKeeps ==
    ASSUME IInv, NEW p \in Players, NEW z \in Zones, NEW id, MainCallSetZone(p, z, id)
    PROVE  IInv'
<1>1. p \in online /\ AddSimulator_Ex(Unregistered(p), p, z, id)
      /\ UNCHANGED <<online, party, nextInstanceCheck, crashed>>
  BY DEF MainCallSetZone
<1>2. /\ Sound(instList', actInst') /\ NextInstanceID' \in InstanceIds
      /\ \A q \in Players : q # p => actInst'[q] = actInst[q]
  BY <1>1, UnregisteredKeeps, AddSimulatorKeeps
<1>3. Placed'
  BY <1>1, <1>2 DEF IInv, Placed
<1>4. RestType'
  BY <1>1, <1>2 DEF IInv, RestType, party
<1> QED
  BY <1>2, <1>3, <1>4 DEF IInv

LEMMA ProcessDetachKeeps ==
    ASSUME IInv, NEW p \in Players, ProcessDetach(p)
    PROVE  IInv'
<1>1. Sound(instList', actInst')
  BY UnregisteredKeeps DEF ProcessDetach
<1>2. Placed'
  BY DEF ProcessDetach, IInv, Placed, Sound
<1>3. RestType'
  BY DEF ProcessDetach, IInv, RestType, party
<1> QED
  BY <1>1, <1>2, <1>3 DEF IInv

\* An instance without counted players has none in its list.
LEMMA CheckActiveInstancesKeeps ==
    ASSUME IInv, CheckActiveInstances
    PROVE  IInv'
<1>1. /\ instList' = {inst \in instList : ~QualifyDelete(inst)}
      /\ UNCHANGED <<actInst, online, NextInstanceID, party, crashed>>
      /\ nextInstanceCheck' = INSTANCE_DELETE_RECHECK
  BY DEF CheckActiveInstances
<1>2. ASSUME NEW inst \in instList, NEW p \in inst.players
      PROVE  inst \in instList'
  <2>1. inst \in ActiveInstance /\ inst.mPlayers = Cardinality(inst.players)
    BY DEF IInv, Sound, Counted
  <2>2. IsFiniteSet(inst.players)
    BY <2>1, FS_Subset, InstancesAssumption DEF ActiveInstance
  <2>3. inst.mPlayers \in Nat /\ inst.mPlayers # 0
    BY <1>2, <2>1, <2>2, FS_EmptySet, FS_CardinalityType
  <2> QED
    BY <1>1, <2>3 DEF QualifyDelete
<1>3. Sound(instList', actInst')
  <2>1. instList' \subseteq instList
    BY <1>1
  <2>2. Outlives(instList', actInst')
    BY <1>1, <1>2 DEF IInv, Sound, Outlives
  <2> QED
    BY <1>1, <2>1, <2>2 DEF IInv, Sound, Counted, Listed, Unambiguous
<1>4. Placed' /\ RestType'
  BY <1>1, InstancesAssumption DEF IInv, Placed, RestType, party
<1> QED
  BY <1>3, <1>4 DEF IInv

LEMMA DebugFlushInactiveInstancesKeeps ==
    ASSUME IInv, DebugFlushInactiveInstances
    PROVE  IInv'
<1> DEFINE f == [inst \in instList |->
                   IF inst.mPlayers = 0 THEN [inst EXCEPT !.expire = 0] ELSE inst]
<1>1. /\ f \in [instList -> ActiveInstance]
      /\ \A inst \in instList : /\ f[inst].id = inst.id /\ f[inst].zone = inst.zone
                                /\ f[inst].owner = inst.owner
                                /\ f[inst].ownerParty = inst.ownerParty
                                /\ f[inst].players = inst.players
                                /\ f[inst].mPlayers = inst.mPlayers
  BY InstancesAssumption DEF IInv, Sound, ActiveInstance
<1>2. instList' = {f[inst] : inst \in instList} /\ actInst' = actInst
  BY DEF DebugFlushInactiveInstances
<1> HIDE DEF f
<1>3. Sound(instList', actInst')
  BY <1>1, <1>2, TimesKeep DEF IInv
<1>4. Placed' /\ RestType'
  BY InstancesAssumption DEF DebugFlushInactiveInstances, IInv, Placed, RestType, party
<1> QED
  BY <1>3, <1>4 DEF IInv

LEMMA TickKeeps ==
    ASSUME IInv, Tick
    PROVE  IInv'
<1> DEFINE f == [inst \in instList |-> [inst EXCEPT !.expire = Less(inst.expire)]]
<1>1. /\ f \in [instList -> ActiveInstance]
      /\ \A inst \in instList : /\ f[inst].id = inst.id /\ f[inst].zone = inst.zone
                                /\ f[inst].owner = inst.owner
                                /\ f[inst].ownerParty = inst.ownerParty
                                /\ f[inst].players = inst.players
                                /\ f[inst].mPlayers = inst.mPlayers
  BY InstancesAssumption DEF IInv, Sound, ActiveInstance, Less
<1>2. instList' = {f[inst] : inst \in instList} /\ actInst' = actInst
  BY DEF Tick
<1> HIDE DEF f
<1>3. Sound(instList', actInst')
  BY <1>1, <1>2, TimesKeep DEF IInv
<1>4. Placed' /\ RestType'
  BY InstancesAssumption DEF Tick, IInv, Placed, RestType, party, Less
<1> QED
  BY <1>3, <1>4 DEF IInv

LEMMA PartyKeeps ==
    ASSUME IInv, NEW p \in Players, NEW q \in Players,
           AcceptInvite(p, q) \/ DoQuit(p) \/ DoSetLeader(p, q)
    PROVE  IInv'
<1>1. UNCHANGED <<instList, NextInstanceID, actInst, online, nextInstanceCheck, crashed>>
  BY DEF AcceptInvite, DoQuit, DoSetLeader
<1>2. RestType'
  <2>1. CASE AcceptInvite(p, q)
    BY <1>1, <2>1, InstancesAssumption DEF AcceptInvite, IInv, RestType, Parties
  <2>2. CASE DoQuit(p)
    BY <1>1, <2>2 DEF DoQuit, IInv, RestType, Members
  <2>3. CASE DoSetLeader(p, q)
    BY <1>1, <2>3 DEF DoSetLeader, IInv, RestType
  <2> QED
    BY <2>1, <2>2, <2>3
<1> QED
  BY <1>1, <1>2 DEF IInv, Placed

-----------------------------------------------------------------------------

LEMMA InitHolds == Init => IInv
<1> SUFFICES ASSUME Init PROVE IInv
  OBVIOUS
<1>1. Sound(instList, actInst)
  BY DEF Init, Sound, Counted, Listed, Outlives, Unambiguous
<1>2. Placed
  BY DEF Init, Placed
<1>3. NextInstanceID \in InstanceIds /\ nextPartyID \in 1..(MaxParties + 1)
      /\ nextInstanceCheck \in 0..INSTANCE_DELETE_RECHECK
  BY InstancesAssumption DEF Init, InstanceIds
<1>4. /\ online \subseteq Players /\ crashed \in BOOLEAN
      /\ PartyID \in [Players -> Parties \cup {0}]
      /\ leader \in [Parties -> Players \cup {Nobody}]
  BY DEF Init
<1> QED
  BY <1>1, <1>2, <1>3, <1>4 DEF IInv, RestType

LEMMA StepKeeps == IInv /\ [Next]_vars => IInv'
<1> SUFFICES ASSUME IInv, [Next]_vars PROVE IInv'
  OBVIOUS
<1>1. CASE UNCHANGED vars
  BY <1>1 DEF vars, party, IInv, Placed, RestType
<1>2. CASE \E p \in Players, z \in Zones : Login(p, z)
  BY <1>2, LoginKeeps
<1>3. CASE \E p \in Players, z \in Zones :
              \E id \in {0} \cup UsedIds : MainCallSetZone(p, z, id)
  BY <1>3, MainCallSetZoneKeeps
<1>4. CASE \E p \in Players : ProcessDetach(p)
  BY <1>4, ProcessDetachKeeps
<1>5. CASE \E p \in Players : DoQuit(p)
  BY <1>5, PartyKeeps
<1>6. CASE \E p, q \in Players : AcceptInvite(p, q) \/ DoSetLeader(p, q)
  BY <1>6, PartyKeeps
<1>7. CASE CheckActiveInstances
  BY <1>7, CheckActiveInstancesKeeps
<1>8. CASE DebugFlushInactiveInstances
  BY <1>8, DebugFlushInactiveInstancesKeeps
<1>9. CASE Tick
  BY <1>9, TickKeeps
<1> QED
  BY <1>1, <1>2, <1>3, <1>4, <1>5, <1>6, <1>7, <1>8, <1>9 DEF Next

LEMMA InvariantHolds == Spec => []IInv
BY InitHolds, StepKeeps, PTL DEF Spec

(***************************************************************************)
(* The variables keep their types; no counter of players falls below zero  *)
(* (ActiveInstance::AdjustPlayerCount).                                    *)
(***************************************************************************)
THEOREM InstancesTypeCorrect == Spec => []TypeOK
<1>1. IInv => TypeOK
  BY DEF IInv, Sound, RestType, TypeOK
<1> QED
  BY <1>1, InvariantHolds, PTL

(***************************************************************************)
(* CheckActiveInstances never deletes an instance that a player's creature *)
(* points to.                                                              *)
(***************************************************************************)
THEOREM InstancesOutlivePlayers == Spec => []InstanceOutlivesPlayers
<1>1. IInv => InstanceOutlivesPlayers
  BY DEF IInv, Sound, Outlives, InstanceOutlivesPlayers
<1> QED
  BY <1>1, InvariantHolds, PTL

(***************************************************************************)
(* Every lookup of ResolveExistingInstance finds at most one instance.     *)
(***************************************************************************)
THEOREM PlacementIsUnambiguous == Spec => []PlacementUnambiguous
<1>1. IInv => PlacementUnambiguous
  BY DEF IInv, Sound, Unambiguous, PlacementUnambiguous
<1> QED
  BY <1>1, InvariantHolds, PTL
=============================================================================
