---------------------------- MODULE ClusterProofs ----------------------------
(***************************************************************************)
(* Proofs of what every shard can rely on, for any number of shards and    *)
(* characters: types, its own entry, and that its master is listed.        *)
(***************************************************************************)
EXTENDS Cluster, FiniteSetTheorems, WellFoundedInduction, TLAPS

(***************************************************************************)
(* What is true of the manager n of shard s while it runs.                 *)
(***************************************************************************)

\* An entry carries its own key, or no name when operator[] made it.
Named(n) == \A t \in Names : n.mActiveShards[t].mName \in {t, NoName}

Own(n, s) ==
    /\ n.mActiveShards[s].listed /\ n.mActiveShards[s].mName = s
    /\ n.mActiveShards[s].mStartTime > 0

Follows(n) == n.mMasterShard = NoName \/ IsShardActive(n, n.mMasterShard)

Sound(n, s) == n \in ClusterManager /\ Named(n) /\ Own(n, s) /\ Follows(n)

\* What may wait for the main thread of s: what a shard says of itself is
\* never queued at that shard.
Incoming(s) ==
    {m \in Message : m.type \in {"started", "stopped", "ping", "configuration"} => m.from # s}

Queues(q) ==
    q \in [Shards -> Seq(Message)] /\ \A s \in Shards : q[s] \in Seq(Incoming(s))

Managers(st, nd) ==
    nd \in [Shards -> ClusterManager] /\ \A s \in Shards : st[s] = "up" => Sound(nd[s], s)

Others ==
    /\ status \in [Shards -> {"down", "launched", "up"}]
    /\ launchTime \in [Shards -> Nat]
    /\ clock \in Nat
    /\ pool \in [Shards -> Seq(PlayerMessage)]
    /\ session \in [Chars -> Names]
    /\ suspicions \in Nat
    /\ joins \in Nat

IInv == Queues(tasks) /\ Managers(status, node) /\ Others

-----------------------------------------------------------------------------
(* The election.                                                           *)

LEMMA NamesAreNaturals == Names \subseteq Nat /\ Shards \subseteq Names /\ NoName \notin Shards
BY ClusterAssumption DEF Names, NoName

LEMMA LeastExists ==
    ASSUME NEW S \in SUBSET Nat, S # {}
    PROVE  \E t \in S : \A u \in S : t <= u
<1> DEFINE less == OpToRel(<, Nat)
<1>1. PICK t \in S : \A u \in S : <<u, t>> \notin less
  <2>1. IsWellFoundedOn(less, Nat)
    BY NatLessThanWellFounded
  <2> HIDE DEF less
  <2> QED BY <2>1, WFMin, Zenon
<1>2. \A u \in S : ~(u < t)
  <2> SUFFICES ASSUME NEW u \in S, u < t PROVE FALSE
    OBVIOUS
  <2>1. u \in Nat /\ t \in Nat
    OBVIOUS
  <2>2. <<u, t>> \in less
    BY <2>1, Zenon DEF OpToRel
  <2> QED BY <1>1, <2>2
<1> QED BY <1>2

LEMMA FirstIsMember ==
    ASSUME NEW S \in SUBSET Nat, S # {}
    PROVE  FirstOf(S) \in S
BY LeastExists DEF FirstOf

LEMMA SomeEarliest ==
    ASSUME NEW n \in ClusterManager, NEW s \in Names, IsShardActive(n, s)
    PROVE  Earliest(n) # {}
<1> DEFINE act == {t \in Names : IsShardActive(n, t)}
           times == {n.mActiveShards[t].mStartTime : t \in act}
<1>1. \A t \in Names : n.mActiveShards[t].mStartTime \in Nat
  BY DEF ClusterManager, Shard
<1>2. times \in SUBSET Nat /\ times # {}
  BY <1>1
<1>3. PICK a \in times : \A b \in times : a <= b
  <2> HIDE DEF times
  <2> QED BY <1>2, LeastExists
<1>4. PICK t \in act : n.mActiveShards[t].mStartTime = a
  BY <1>3
<1>5. t \in Earliest(n)
  BY <1>3, <1>4 DEF Earliest
<1> QED BY <1>5

(***************************************************************************)
(* Whoever is elected is listed: the walk of the map finds an earliest     *)
(* entry, and its name is its key or empty.                                *)
(***************************************************************************)
LEMMA ElectionSound ==
    ASSUME NEW n \in ClusterManager, NEW s \in Shards, Named(n), Own(n, s)
    PROVE  Sound(FindMasterShard(n), s)
<1> DEFINE f == FirstOf(Earliest(n))
           m == n.mActiveShards[f].mName
<1>1. Earliest(n) \in SUBSET Nat /\ Earliest(n) # {}
  BY SomeEarliest, NamesAreNaturals DEF Own, Earliest, IsShardActive
<1>2. f \in Names /\ IsShardActive(n, f)
  BY <1>1, FirstIsMember DEF Earliest
<1>3. m \in {f, NoName} /\ m \in Names
  BY <1>2 DEF Named, Names
<1> HIDE DEF m
<1>4. FindMasterShard(n) = [n EXCEPT !.mMasterShard = m]
  BY DEF FindMasterShard, m
<1> QED BY <1>2, <1>3, <1>4, SMT DEF Sound, ClusterManager, Named, Own, Follows, IsShardActive

-----------------------------------------------------------------------------
(* The functions of ClusterManager.                                        *)

\* An entry under a key other than its own may be given any listed entry.
LEMMA PutEntry ==
    ASSUME NEW s \in Shards, NEW n, Sound(n, s), NEW t \in Names \ {s},
           NEW e \in Shard, e.listed, e.mName \in {t, NoName}
    PROVE  Sound([n EXCEPT !.mActiveShards[t] = e], s)
BY NamesAreNaturals, SMT DEF Sound, ClusterManager, Named, Own, Follows, IsShardActive

LEMMA NewEntryType ==
    NewEntry \in Shard /\ NewEntry.listed /\ NewEntry.mName = NoName
BY DEF NewEntry, NoName, Names, Shard

LEMMA NoEntryType == NoEntry \in Shard /\ NoEntry.mName = NoName
BY NewEntryType DEF NoEntry, Shard

LEMMA EntryType ==
    ASSUME NEW n \in ClusterManager, NEW t \in Names
    PROVE  Entry(n, t) \in Shard
BY NewEntryType DEF Entry, ClusterManager

LEMMA CountPlayersSound ==
    ASSUME NEW s \in Shards, NEW n, Sound(n, s), NEW t \in Names, NEW d \in Int
    PROVE  Sound(CountPlayers(n, t, d), s)
<1> DEFINE e == [Entry(n, t) EXCEPT !.mPlayers = @ + d]
<1>1. n \in ClusterManager
  BY DEF Sound
<1>2. e \in Shard
  BY <1>1, EntryType DEF Shard
<1>a. Entry(n, t).listed
  BY DEF Entry, NewEntry, IsShardActive
<1>b. e.listed
  BY <1>1, <1>a, EntryType DEF Shard
<1>3. e.mName \in {t, NoName}
  BY <1>1, EntryType DEF Shard, Entry, NewEntry, Sound, Named
<1>4. t = s => e.mName = s /\ e.mStartTime > 0
  BY <1>1, EntryType DEF Shard, Entry, IsShardActive, Sound, Own
<1> HIDE DEF e
<1>5. CountPlayers(n, t, d) = [n EXCEPT !.mActiveShards[t] = e]
  BY DEF CountPlayers, e
<1> QED BY <1>2, <1>b, <1>3, <1>4, <1>5, NamesAreNaturals, SMT
        DEF Sound, ClusterManager, Named, Own, Follows, IsShardActive

LEMMA SetPlayerSound ==
    ASSUME NEW s \in Shards, NEW n, Sound(n, s), NEW c \in Chars, NEW t \in Names
    PROVE  Sound([n EXCEPT !.mActivePlayers[c] = t], s)
BY SMT DEF Sound, ClusterManager, Named, Own, Follows, IsShardActive

LEMMA ShardRemovedSound ==
    ASSUME NEW s \in Shards, NEW n, Sound(n, s), NEW names \in SUBSET Names, s \notin names
    PROVE  Sound(ShardRemoved(n, names), s)
<1> DEFINE gone == {t \in names : IsShardActive(n, t)}
           shards == [t \in Names |-> IF t \in gone THEN NoEntry ELSE n.mActiveShards[t]]
           players == [c \in Chars |-> IF n.mActivePlayers[c] \in gone THEN NoName
                                       ELSE n.mActivePlayers[c]]
           k == [n EXCEPT !.mActiveShards = shards, !.mActivePlayers = players]
<1>1. ShardRemoved(n, names) = IF gone = {} THEN n ELSE FindMasterShard(k)
  BY DEF ShardRemoved
<1>2. shards \in [Names -> Shard] /\ players \in [Chars -> Names]
  <2>1. n.mActiveShards \in [Names -> Shard] /\ n.mActivePlayers \in [Chars -> Names]
    BY DEF Sound, ClusterManager
  <2> QED BY <2>1, NoEntryType DEF Names
<1>3. \A t \in Names : shards[t].mName \in {t, NoName}
  BY NoEntryType DEF Sound, Named
<1>4. shards[s] = n.mActiveShards[s]
  BY NamesAreNaturals
<1> HIDE DEF shards, players, gone
<1>5. k \in ClusterManager /\ Named(k) /\ Own(k, s)
  BY <1>2, <1>3, <1>4 DEF Sound, ClusterManager, Named, Own
<1> HIDE DEF k
<1> QED BY <1>1, <1>5, ElectionSound

LEMMA NewShardSound ==
    ASSUME NEW s \in Shards, NEW n, Sound(n, s), NEW t \in Shards \ {s}
    PROVE  Sound(NewShard(n, t), s) /\ IsShardActive(NewShard(n, t), t)
<1> DEFINE k == ShardRemoved(n, {t})
           e == [NewEntry EXCEPT !.mName = t, !.seen = TRUE]
<1>1. Sound(k, s)
  BY ShardRemovedSound, NamesAreNaturals
<1>2. e \in Shard /\ e.listed /\ e.mName = t
  BY NewEntryType, NamesAreNaturals DEF Shard
<1>3. NewShard(n, t) = [k EXCEPT !.mActiveShards[t] = e]
  BY DEF NewShard
<1> HIDE DEF k, e
<1>4. Sound(NewShard(n, t), s)
  BY <1>1, <1>2, <1>3, PutEntry, NamesAreNaturals
<1>5. IsShardActive(NewShard(n, t), t)
  BY <1>1, <1>2, <1>3, NamesAreNaturals DEF IsShardActive, Sound, ClusterManager
<1> QED BY <1>4, <1>5

LEMMA ConfigurationSound ==
    ASSUME NEW s \in Shards, NEW n, Sound(n, s), NEW m \in Incoming(s), m.type = "configuration"
    PROVE  Sound(ServerConfigurationReceived(n, m), s)
<1> DEFINE k == IF IsShardActive(n, m.from) THEN n ELSE NewShard(n, m.from)
           e == [k.mActiveShards[m.from] EXCEPT !.seen = TRUE,
                    !.mPlayers = m.players, !.mStartTime = m.launchTime]
<1>1. m.from \in Shards \ {s} /\ m.players \in Int /\ m.launchTime \in Nat
  BY DEF Incoming, Message
<1>2. Sound(k, s) /\ IsShardActive(k, m.from)
  BY <1>1, NewShardSound
<1>3. k.mActiveShards[m.from] \in Shard /\ k.mActiveShards[m.from].listed
      /\ k.mActiveShards[m.from].mName \in {m.from, NoName}
  BY <1>1, <1>2, NamesAreNaturals DEF Sound, ClusterManager, Named, IsShardActive
<1>4. ServerConfigurationReceived(n, m) = FindMasterShard([k EXCEPT !.mActiveShards[e.mName] = e])
  BY DEF ServerConfigurationReceived
<1> HIDE DEF k
<1>5. e \in Shard /\ e.listed /\ e.mName \in {m.from, NoName}
  BY <1>1, <1>3 DEF Shard
<1> HIDE DEF e
<1>6. e.mName \in Names \ {s}
  BY <1>1, <1>5, NamesAreNaturals DEF Names
<1>7. Sound([k EXCEPT !.mActiveShards[e.mName] = e], s)
  BY <1>2, <1>5, <1>6, PutEntry
<1> QED BY <1>4, <1>7, ElectionSound DEF Sound

LEMMA JoinedSound ==
    ASSUME NEW s \in Shards, NEW n, Sound(n, s), NEW c \in Chars
    PROVE  Sound(JoinedShard(n, s, c), s)
<1> DEFINE k == IF n.mActivePlayers[c] = NoName THEN CountPlayers(n, s, 1) ELSE n
<1>1. Sound(k, s)
  BY CountPlayersSound, NamesAreNaturals
<1>2. JoinedShard(n, s, c) = [k EXCEPT !.mActivePlayers[c] = s]
  BY DEF JoinedShard
<1> HIDE DEF k
<1> QED BY <1>1, <1>2, SetPlayerSound, NamesAreNaturals

LEMMA JoinedOtherSound ==
    ASSUME NEW s \in Shards, NEW n, Sound(n, s), NEW t \in Shards, NEW c \in Chars
    PROVE  Sound(JoinedOtherShard(n, t, c), s)
<1> DEFINE was == n.mActivePlayers[c]
           k == CASE was = NoName -> CountPlayers(n, t, 1)
                  [] was \notin {NoName, t} -> CountPlayers(n, was, -1)
                  [] OTHER -> n
<1>1. was \in Names
  BY DEF Sound, ClusterManager
<1>2. Sound(k, s)
  <2>1. CASE was = NoName
    BY <2>1, CountPlayersSound, NamesAreNaturals
  <2>2. CASE was \notin {NoName, t}
    BY <1>1, <2>2, CountPlayersSound
  <2>3. CASE was # NoName /\ was = t
    BY <2>3
  <2> QED BY <2>1, <2>2, <2>3
<1>3. JoinedOtherShard(n, t, c) = [k EXCEPT !.mActivePlayers[c] = t]
  BY DEF JoinedOtherShard
<1> HIDE DEF k
<1> QED BY <1>2, <1>3, SetPlayerSound, NamesAreNaturals

LEMMA LeftSound ==
    ASSUME NEW s \in Shards, NEW n, Sound(n, s), NEW t \in Shards, NEW c \in Chars
    PROVE  Sound([CountPlayers(n, t, -1) EXCEPT !.mActivePlayers[c] = NoName], s)
<1>1. Sound(CountPlayers(n, t, -1), s)
  BY CountPlayersSound, NamesAreNaturals
<1> QED BY <1>1, SetPlayerSound DEF Names

-----------------------------------------------------------------------------
(* Messages.                                                               *)

\* Publishing appends to the queues of others.
LEMMA QueuedTasks ==
    ASSUME NEW q, Queues(q),
           NEW s \in Shards, NEW ms, \A r \in Shards \ {s} : ms \in Seq(Incoming(r))
    PROVE  Queues(Queued(q, s, ms))
<1>1. \A r \in Shards : Queued(q, s, ms)[r] \in Seq(Incoming(r))
  BY DEF Queued, Queues
<1>2. \A r \in Shards : Seq(Incoming(r)) \subseteq Seq(Message)
  BY DEF Incoming
<1> QED BY <1>1, <1>2 DEF Queued, Queues

LEMMA QueuedPlayers ==
    ASSUME NEW q \in [Shards -> Seq(PlayerMessage)], NEW s \in Shards, NEW ms \in Seq(PlayerMessage)
    PROVE  Queued(q, s, ms) \in [Shards -> Seq(PlayerMessage)]
BY DEF Queued

\* One message to one queue.
LEMMA OneMessage ==
    ASSUME NEW q, Queues(q),
           NEW t \in Shards, NEW m \in Incoming(t)
    PROVE  Queues([q EXCEPT ![t] = Append(@, m)])
BY DEF Queues, Incoming

LEMMA OwnMessages ==
    ASSUME NEW s \in Shards, NEW type \in {"started", "stopped", "ping"}
    PROVE  \A r \in Shards \ {s} : <<[type |-> type, from |-> s]>> \in Seq(Incoming(r))
<1>1. \A r \in Shards \ {s} : [type |-> type, from |-> s] \in Incoming(r)
  BY DEF Incoming, Message
<1> QED BY <1>1

LEMMA RequestQueued ==
    ASSUME NEW q, Queues(q),
           NEW s \in Shards, NEW t \in Shards
    PROVE  Queues(RequestReconfigure(q, s, t))
<1>1. [type |-> "reconfigure", from |-> s, shardName |-> t] \in Incoming(t)
  BY DEF Incoming, Message
<1> QED BY <1>1, OneMessage DEF RequestReconfigure

LEMMA ListedOnce ==
    ASSUME NEW S, IsFiniteSet(S)
    PROVE  SetToSeq(S) \in [1..Cardinality(S) -> S] /\ Cardinality(S) \in Nat
<1>1. PICK f \in Bijection(1..Cardinality(S), S) : TRUE
  BY FS_CardinalityType DEF ExistsBijection
<1>2. f \in [1..Cardinality(S) -> S] /\ IsInjective(f)
  BY <1>1 DEF Bijection, Injection, IsInjective
<1>3. SetToSeq(S) \in [1..Cardinality(S) -> S]
  BY <1>2, Zenon DEF SetToSeq
<1> QED BY <1>3, FS_CardinalityType

LEMMA LocalPlayersType ==
    ASSUME NEW s \in Shards PROVE LocalPlayers(s) \in Seq(PlayerMessage)
<1> DEFINE S == {c \in Chars : node[s].mActivePlayers[c] = s}
           local == SetToSeq(S)
<1>1. S \subseteq Chars /\ IsFiniteSet(S)
  BY FS_Subset, ClusterAssumption
<1> HIDE DEF S
<1>2. local \in Seq(S)
  BY <1>1, ListedOnce
<1> HIDE DEF local
<1>3. [i \in 1..Len(local) |-> [type |-> "joined", from |-> s, cdefid |-> local[i]]]
         \in Seq(PlayerMessage)
  BY <1>1, <1>2 DEF PlayerMessage
<1> QED BY <1>3, Zenon DEF LocalPlayers, local, S

LEMMA Dequeued ==
    ASSUME Queues(tasks), NEW s \in Shards, tasks[s] # <<>>
    PROVE  Queues(Rest(s)) /\ Head(tasks[s]) \in Incoming(s)
BY DEF Queues, Rest

LEMMA Emptied ==
    ASSUME NEW q, Queues(q), NEW s \in Shards
    PROVE  Queues([q EXCEPT ![s] = <<>>])
BY DEF Queues

\* One manager is changed, or replaced together with its status.
LEMMA ManagerSet ==
    ASSUME Managers(status, node), NEW s \in Shards, NEW n, Sound(n, s)
    PROVE  Managers(status, [node EXCEPT ![s] = n])
BY DEF Managers, Sound

-----------------------------------------------------------------------------
(* Every step keeps the invariant.                                         *)

LEMMA InvHolds == Init => IInv
<1> SUFFICES ASSUME Init PROVE IInv
  OBVIOUS
<1>1. NoManager \in ClusterManager
  BY NoEntryType DEF NoManager, ClusterManager, Names
<1>2. Managers(status, node)
  BY <1>1 DEF Init, Managers
<1> QED BY <1>2 DEF IInv, Init, Queues, Others, Names

LEMMA LaunchKeeps == ASSUME IInv, NEW s \in Shards, Launch(s) PROVE IInv'
<1>1. Managers(status, node)'
  BY DEF IInv, Launch, Managers, Others
<1> QED BY <1>1 DEF IInv, Launch, Queues, Others

LEMMA ReadyKeeps == ASSUME IInv, NEW s \in Shards, Ready(s) PROVE IInv'
<1> DEFINE e == [NewEntry EXCEPT !.mName = s, !.mStartTime = clock + 1]
           n == [NoManager EXCEPT !.mActiveShards[s] = e]
<1>1. e \in Shard /\ e.listed /\ e.mName = s /\ e.mStartTime > 0
  <2>1. clock + 1 \in Nat /\ clock + 1 > 0
    BY DEF IInv, Others
  <2> QED BY <2>1, NewEntryType, NamesAreNaturals DEF Shard
<1>2. NoManager \in ClusterManager /\ Named(NoManager)
  BY NoEntryType DEF NoManager, ClusterManager, Names, Named
<1> HIDE DEF e
<1>3. n \in ClusterManager /\ Named(n) /\ Own(n, s)
  BY <1>1, <1>2, NamesAreNaturals DEF ClusterManager, Named, Own
<1>4. Sound(FindMasterShard(n), s)
  BY <1>3, ElectionSound
<1>5. node' = [node EXCEPT ![s] = FindMasterShard(n)]
  BY DEF Ready, e
<1> HIDE DEF n
<1>6. Managers(status, node)'
  BY <1>4, <1>5 DEF IInv, Ready, Managers, Others, Sound
<1>7. Queues(tasks)'
  BY QueuedTasks, OwnMessages DEF IInv, Ready, Publish
<1>8. session' \in [Chars -> Names]
  BY DEF IInv, Others, Ready, Names
<1> QED BY <1>6, <1>7, <1>8 DEF IInv, Others, Ready

LEMMA HaltKeeps ==
    ASSUME IInv, NEW s \in Shards, Halt(s), Queues(tasks')
    PROVE  IInv'
<1>1. NoManager \in ClusterManager
  BY NoEntryType DEF NoManager, ClusterManager, Names
<1>2. Managers(status, node)'
  BY <1>1 DEF IInv, Halt, Managers, Others
<1>3. Queues(tasks)'
  BY DEF Queues
<1> QED BY <1>2, <1>3 DEF IInv, Halt, Others

LEMMA StopKeeps == ASSUME IInv, NEW s \in Shards, Stop(s) \/ Crash(s) PROVE IInv'
<1>1. Queues(Publish(s, <<[type |-> "stopped", from |-> s]>>))
  BY QueuedTasks, OwnMessages DEF IInv, Publish
<1>2. Halt(s) /\ Queues(tasks')
  BY <1>1, Emptied DEF IInv, Stop, Crash
<1> QED BY <1>2, HaltKeeps

\* A step of the main thread that changes its manager and the queues only.
LEMMA MainStep ==
    ASSUME IInv, NEW s \in Shards, NEW n, Sound(n, s), node' = [node EXCEPT ![s] = n],
           Queues(tasks'), pool' \in [Shards -> Seq(PlayerMessage)],
           UNCHANGED <<status, launchTime, clock, session, suspicions, joins>>
    PROVE  IInv'
<1>1. Managers(status, node)'
  BY ManagerSet DEF IInv, Managers
<1>2. Queues(tasks)'
  BY DEF Queues
<1> QED BY <1>1, <1>2 DEF IInv, Others

LEMMA SameManager ==
    ASSUME IInv, NEW s \in Shards, status[s] = "up"
    PROVE  Sound(node[s], s) /\ node = [node EXCEPT ![s] = node[s]]
           /\ pool \in [Shards -> Seq(PlayerMessage)]
BY DEF IInv, Managers, Others

LEMMA StartedKeeps == ASSUME IInv, NEW s \in Shards, HandleStarted(s) PROVE IInv'
<1> DEFINE t == Head(tasks[s]).from
<1>1. Head(tasks[s]) \in Incoming(s) /\ Queues(Rest(s)) /\ Sound(node[s], s)
  BY Dequeued, SameManager DEF IInv, HandleStarted, Task
<1>2. t \in Shards \ {s}
  BY <1>1 DEF Incoming, Message, HandleStarted, Task
<1>3. Sound(NewShard(node[s], t), s) /\ Queues(RequestReconfigure(Rest(s), s, t))
  BY <1>1, <1>2, NewShardSound, RequestQueued
<1>4. node' = [node EXCEPT ![s] = NewShard(node[s], t)] /\ tasks' = RequestReconfigure(Rest(s), s, t)
      /\ UNCHANGED <<status, launchTime, clock, pool, session, suspicions, joins>>
  BY DEF HandleStarted
<1> HIDE DEF t
<1>5. pool' \in [Shards -> Seq(PlayerMessage)]
  BY <1>4 DEF IInv, Others
<1> QED BY <1>3, <1>4, <1>5, MainStep

LEMMA StoppedKeeps == ASSUME IInv, NEW s \in Shards, HandleStopped(s) PROVE IInv'
<1> DEFINE t == Head(tasks[s]).from
<1>1. Head(tasks[s]) \in Incoming(s) /\ Queues(Rest(s)) /\ Sound(node[s], s)
  BY Dequeued, SameManager DEF IInv, HandleStopped, Task
<1>2. t \in Shards \ {s}
  BY <1>1 DEF Incoming, Message, HandleStopped, Task
<1>3. Sound(ShardRemoved(node[s], {t}), s)
  BY <1>1, <1>2, ShardRemovedSound, NamesAreNaturals
<1>4. node' = [node EXCEPT ![s] = ShardRemoved(node[s], {t})] /\ tasks' = Rest(s)
      /\ UNCHANGED <<status, launchTime, clock, pool, session, suspicions, joins>>
  BY DEF HandleStopped
<1> HIDE DEF t
<1>5. pool' \in [Shards -> Seq(PlayerMessage)]
  BY <1>4 DEF IInv, Others
<1> QED BY <1>1, <1>3, <1>4, <1>5, MainStep

LEMMA ConfigurationKeeps == ASSUME IInv, NEW s \in Shards, HandleConfiguration(s) PROVE IInv'
<1> DEFINE m == Head(tasks[s])
<1>1. m \in Incoming(s) /\ m.type = "configuration" /\ Queues(Rest(s)) /\ Sound(node[s], s)
  BY Dequeued, SameManager DEF IInv, HandleConfiguration, Task
<1>2. node' = [node EXCEPT ![s] = ServerConfigurationReceived(node[s], m)] /\ tasks' = Rest(s)
      /\ UNCHANGED <<status, launchTime, clock, pool, session, suspicions, joins>>
  BY DEF HandleConfiguration
<1> HIDE DEF m
<1>3. Sound(ServerConfigurationReceived(node[s], m), s)
  BY <1>1, ConfigurationSound
<1>4. pool' \in [Shards -> Seq(PlayerMessage)]
  BY <1>2 DEF IInv, Others
<1> QED BY <1>1, <1>2, <1>3, <1>4, MainStep

LEMMA ReconfigureKeeps == ASSUME IInv, NEW s \in Shards, HandleReconfigure(s) PROVE IInv'
<1> DEFINE t == Head(tasks[s]).from
           sent == [r \in Shards |->
                      IF r # s /\ status[r] = "up"
                      THEN Append(tasks[r], Configuration(s)) ELSE Rest(s)[r]]
           asked == [type |-> "request", shardName |-> t]
<1>1. Head(tasks[s]) \in Incoming(s) /\ Queues(Rest(s)) /\ Sound(node[s], s)
  BY Dequeued, SameManager DEF IInv, HandleReconfigure, Task
<1>2. t \in Shards
  BY <1>1 DEF Incoming, Message, HandleReconfigure, Task
<1>3. \A r \in Shards \ {s} : Configuration(s) \in Incoming(r)
  <2>1. launchTime[s] \in Nat /\ node[s].mActiveShards[s].mPlayers \in Int
    BY <1>1, NamesAreNaturals DEF IInv, Others, Sound, ClusterManager, Shard
  <2> QED BY <2>1 DEF Configuration, Incoming, Message
<1>4. Queues(sent)
  <2>1. \A r \in Shards : sent[r] \in Seq(Incoming(r))
    <3> HIDE DEF Configuration
    <3> QED BY <1>1, <1>3 DEF Queues, IInv
  <2>2. \A r \in Shards : Seq(Incoming(r)) \subseteq Seq(Message)
    BY DEF Incoming
  <2> QED BY <2>1, <2>2 DEF Queues
<1>5. asked \in Incoming(s)
  BY <1>2 DEF Incoming, Message
<1>6. tasks' = IF IsShardActive(node[s], t) THEN sent ELSE [sent EXCEPT ![s] = Append(@, asked)]
  BY DEF HandleReconfigure
<1>7. pool' = Queued(pool, s, LocalPlayers(s))
      /\ UNCHANGED <<status, launchTime, clock, node, session, suspicions, joins>>
  BY DEF HandleReconfigure, PublishPlayers
<1> HIDE DEF sent, asked
<1>8. Queues(tasks')
  BY <1>4, <1>5, <1>6, OneMessage
<1>9. pool' \in [Shards -> Seq(PlayerMessage)]
  BY <1>7, LocalPlayersType, QueuedPlayers DEF IInv, Others
<1>10. node' = [node EXCEPT ![s] = node[s]]
  BY <1>7 DEF IInv, Managers
<1> QED BY <1>1, <1>7, <1>8, <1>9, <1>10, MainStep

LEMMA RequestKeeps == ASSUME IInv, NEW s \in Shards, HandleRequest(s) PROVE IInv'
<1> DEFINE t == Head(tasks[s]).shardName
<1>1. Head(tasks[s]) \in Incoming(s) /\ Queues(Rest(s)) /\ Sound(node[s], s)
  BY Dequeued, SameManager DEF IInv, HandleRequest, Task
<1>2. t \in Shards
  BY <1>1 DEF Incoming, Message, HandleRequest, Task
<1>3. Queues(tasks')
  BY <1>1, <1>2, RequestQueued DEF HandleRequest
<1>4. node' = [node EXCEPT ![s] = node[s]] /\ pool' \in [Shards -> Seq(PlayerMessage)]
      /\ UNCHANGED <<status, launchTime, clock, session, suspicions, joins>>
  BY DEF HandleRequest, IInv, Managers, Others
<1> QED BY <1>1, <1>3, <1>4, MainStep

LEMMA PingKeeps == ASSUME IInv, NEW s \in Shards, HandlePing(s) PROVE IInv'
<1> DEFINE t == Head(tasks[s]).from
           e == [node[s].mActiveShards[t] EXCEPT !.seen = TRUE]
           n == [node[s] EXCEPT !.mActiveShards[t] = e]
<1>1. Head(tasks[s]) \in Incoming(s) /\ Queues(Rest(s)) /\ Sound(node[s], s)
  BY Dequeued, SameManager DEF IInv, HandlePing, Task
<1>2. t \in Shards \ {s}
  BY <1>1 DEF Incoming, Message, HandlePing, Task
<1>3. pool' \in [Shards -> Seq(PlayerMessage)]
      /\ UNCHANGED <<status, launchTime, clock, session, suspicions, joins>>
  BY DEF HandlePing, IInv, Others
<1>4. CASE IsShardActive(node[s], t) /\ node' = [node EXCEPT ![s].mActiveShards[t].seen = TRUE]
           /\ tasks' = Rest(s)
  <2>1. node[s].mActiveShards[t] \in Shard /\ node[s].mActiveShards[t].listed
        /\ node[s].mActiveShards[t].mName \in {t, NoName}
    BY <1>1, <1>2, <1>4, NamesAreNaturals DEF Sound, ClusterManager, Named, IsShardActive
  <2>2. e \in Shard /\ e.listed /\ e.mName \in {t, NoName}
    BY <2>1 DEF Shard
  <2>3. node' = [node EXCEPT ![s] = n]
    BY <1>4
  <2> HIDE DEF e, t
  <2>4. Sound(n, s)
    BY <1>1, <1>2, <2>2, PutEntry, NamesAreNaturals
  <2> QED BY <1>1, <1>3, <1>4, <2>3, <2>4, MainStep
<1>5. CASE tasks' = RequestReconfigure(Rest(s), s, t) /\ UNCHANGED node
  <2>1. Queues(tasks') /\ node' = [node EXCEPT ![s] = node[s]]
    BY <1>1, <1>2, <1>5, RequestQueued DEF IInv, Managers
  <2> QED BY <1>1, <1>3, <2>1, MainStep
<1> QED BY <1>4, <1>5 DEF HandlePing

LEMMA PoolKeeps == ASSUME IInv, NEW s \in Shards, PoolTask(s) PROVE IInv'
<1>1. PICK i \in 1..Len(pool[s]) :
         /\ pool' = [pool EXCEPT ![s] = RemoveAt(@, i)]
         /\ node' = [node EXCEPT ![s] =
               IF pool[s][i].type = "joined"
               THEN JoinedOtherShard(@, pool[s][i].from, pool[s][i].cdefid)
               ELSE LeftOtherShard(@, pool[s][i].from, pool[s][i].cdefid)]
  BY DEF PoolTask
<1> DEFINE m == pool[s][i]
           n == IF m.type = "joined" THEN JoinedOtherShard(node[s], m.from, m.cdefid)
                                     ELSE LeftOtherShard(node[s], m.from, m.cdefid)
<1>2. Sound(node[s], s) /\ pool[s] \in Seq(PlayerMessage)
  BY SameManager DEF PoolTask
<1>3. m.from \in Shards /\ m.cdefid \in Chars
  <2>1. m \in PlayerMessage
    BY <1>2
  <2> HIDE DEF m
  <2> QED BY <2>1 DEF PlayerMessage
<1>4. Sound(n, s)
  BY <1>2, <1>3, JoinedOtherSound, LeftSound DEF LeftOtherShard
<1>5. pool' \in [Shards -> Seq(PlayerMessage)]
  BY <1>1, <1>2 DEF RemoveAt, IInv, Others
<1>6. node' = [node EXCEPT ![s] = n]
  BY <1>1
<1> HIDE DEF n
<1>7. Queues(tasks') /\ UNCHANGED <<status, launchTime, clock, session, suspicions, joins>>
  BY DEF PoolTask, IInv
<1> QED BY <1>4, <1>5, <1>6, <1>7, MainStep

LEMMA CycleKeeps ==
    ASSUME IInv, NEW s \in Shards, NEW expired \in SUBSET Names, RunProcessingCycle(s, expired)
    PROVE  IInv'
<1>1. Sound(node[s], s)
  BY SameManager DEF RunProcessingCycle
<1>2. Sound(ShardRemoved(node[s], expired), s)
  BY <1>1, ShardRemovedSound DEF RunProcessingCycle, Silent
<1>3. Managers(status, node)'
  BY <1>2, ManagerSet DEF IInv, RunProcessingCycle, Managers
<1>4. Queues(tasks)'
  BY QueuedTasks, OwnMessages DEF IInv, RunProcessingCycle, Publish
<1>5. Cardinality(expired \cap Alive) \in Nat
  <2>1. IsFiniteSet(expired \cap Alive)
    BY FS_Subset, ClusterAssumption DEF Alive
  <2> QED BY <2>1, FS_CardinalityType
<1>6. suspicions' \in Nat
  BY <1>5 DEF IInv, Others, RunProcessingCycle
<1> QED BY <1>3, <1>4, <1>6 DEF IInv, Others, RunProcessingCycle

\* The parts of Login and SetZone that are the same.
LEMMA EnterZoneKeeps ==
    ASSUME IInv, NEW s \in Shards, status[s] = "up", NEW c \in Chars, EnterZone(s, c),
           session' \in [Chars -> Names]
    PROVE  IInv'
<1>1. Sound(JoinedShard(node[s], s, c), s)
  BY SameManager, JoinedSound
<1>2. Managers(status, node)'
  BY <1>1, ManagerSet DEF IInv, EnterZone, Managers
<1>3. <<[type |-> "joined", from |-> s, cdefid |-> c]>> \in Seq(PlayerMessage)
  BY DEF PlayerMessage
<1>4. pool' \in [Shards -> Seq(PlayerMessage)]
  BY <1>3, QueuedPlayers DEF IInv, Others, EnterZone, PublishPlayers
<1>5. Queues(tasks)' /\ joins' \in Nat
  BY DEF IInv, EnterZone, Queues, Others
<1> QED BY <1>2, <1>4, <1>5 DEF IInv, Others, EnterZone

LEMMA LoginKeeps ==
    ASSUME IInv, NEW s \in Shards, NEW c \in Chars, Login(s, c) \/ SetZone(s, c)
    PROVE  IInv'
<1>1. session' \in [Chars -> Names]
  BY NamesAreNaturals DEF IInv, Others, Login, SetZone
<1> QED BY <1>1, EnterZoneKeeps DEF Login, SetZone

LEMMA LogoutKeeps == ASSUME IInv, NEW s \in Shards, NEW c \in Chars, Logout(s, c) PROVE IInv'
<1>1. session' \in [Chars -> Names]
  BY DEF IInv, Others, Logout, Names
<1>2. Sound(node[s], s)
  BY SameManager DEF Logout
<1>3. Managers(status, node)' /\ pool' \in [Shards -> Seq(PlayerMessage)]
  <2>1. CASE UNCHANGED <<node, pool>>
    BY <2>1 DEF IInv, Managers, Others, Logout
  <2> DEFINE n == [CountPlayers(node[s], s, -1) EXCEPT !.mActivePlayers[c] = NoName]
  <2>2. CASE /\ node' = [node EXCEPT ![s] = n]
             /\ pool' = PublishPlayers(s, <<[type |-> "left", from |-> s, cdefid |-> c]>>)
    <3>1. Sound(n, s)
      BY <1>2, LeftSound
    <3>2. <<[type |-> "left", from |-> s, cdefid |-> c]>> \in Seq(PlayerMessage)
      BY DEF PlayerMessage
    <3>3. pool' \in [Shards -> Seq(PlayerMessage)]
      BY <2>2, <3>2, QueuedPlayers DEF IInv, Others, PublishPlayers
    <3> HIDE DEF n
    <3>4. Managers(status, node)'
      BY <2>2, <3>1, ManagerSet DEF IInv, Logout, Managers
    <3> QED BY <3>3, <3>4
  <2> QED BY <2>1, <2>2 DEF Logout
<1>4. Queues(tasks)'
  BY DEF IInv, Logout, Queues
<1> QED BY <1>1, <1>3, <1>4 DEF IInv, Others, Logout

LEMMA InvKept == IInv /\ [Next]_vars => IInv'
<1> SUFFICES ASSUME IInv, [Next]_vars PROVE IInv'
  OBVIOUS
<1>1. CASE UNCHANGED vars
  BY <1>1 DEF vars, IInv, Queues, Managers, Others
<1>2. ASSUME NEW s \in Shards, MainTask(s) PROVE IInv'
  BY <1>2, StartedKeeps, StoppedKeeps, ConfigurationKeeps, ReconfigureKeeps, RequestKeeps,
     PingKeeps DEF MainTask
<1>3. ASSUME NEW s \in Shards, Launch(s) \/ Ready(s) \/ Stop(s) \/ Crash(s) PROVE IInv'
  BY <1>3, LaunchKeeps, ReadyKeeps, StopKeeps
<1>4. ASSUME NEW s \in Shards, NEW c \in Chars, Login(s, c) \/ SetZone(s, c) \/ Logout(s, c)
      PROVE IInv'
  BY <1>4, LoginKeeps, LogoutKeeps
<1> QED BY <1>1, <1>2, <1>3, <1>4, PoolKeeps, CycleKeeps DEF Next

LEMMA InvAlways == Spec => []IInv
BY InvHolds, InvKept, PTL DEF Spec

-----------------------------------------------------------------------------
(* The theorems.                                                           *)

(***************************************************************************)
(* Every map, queue and counter keeps its type, for any number of shards,  *)
(* characters, restarts and suspicions (ClusterManager's members).         *)
(***************************************************************************)
THEOREM ClusterTypeCorrect == Spec => []TypeOK
<1>1. IInv => TypeOK
  BY DEF IInv, Queues, Managers, Others, TypeOK
<1> QED BY <1>1, InvAlways, PTL

(***************************************************************************)
(* A running shard always lists itself, with its name and start time: no   *)
(* message it can receive and no expiry touches the entry Init made.       *)
(***************************************************************************)
THEOREM ShardAlwaysListsItself == Spec => []OwnShardActive
<1>1. IInv => OwnShardActive
  BY DEF IInv, Managers, Sound, Own, OwnShardActive, Alive
<1> QED BY <1>1, InvAlways, PTL

(***************************************************************************)
(* A running shard never follows a master it does not list, whatever was   *)
(* removed, came back or was made by operator[] (FindMasterShard).         *)
(***************************************************************************)
THEOREM MasterAlwaysActive == Spec => []MasterIsActive
<1>1. IInv => MasterIsActive
  BY DEF IInv, Managers, Sound, Follows, MasterIsActive, Alive
<1> QED BY <1>1, InvAlways, PTL
=============================================================================
