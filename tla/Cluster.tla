------------------------------- MODULE Cluster -------------------------------
(***************************************************************************)
(* The shards of a cluster and what each of them believes about the        *)
(* others: ClusterManager (Cluster.cpp).  A shard keeps a map of the       *)
(* active shards, a map of the players it knows to be online, and the name *)
(* of the master shard.  Shards talk over Redis pub/sub.  The callback of  *)
(* a message hands it to the scheduler: with Submit it waits in the queue  *)
(* of the main thread and runs in order, with Pool it runs on any thread   *)
(* of the pool, at any time.                                               *)
(*                                                                         *)
(* Time is left out: a ping may be sent at any time, and a shard that      *)
(* stopped may be found expired at any time after.  That a shard which is  *)
(* alive is not heard of for CLUSTER_SHARD_TIMEOUT happens at most         *)
(* MaxSuspicions times.  Transfers of players between shards, chat,        *)
(* weather and auction messages are not modelled here.                     *)
(***************************************************************************)
EXTENDS Integers, FiniteSets, SequencesExt

CONSTANTS Shards,        \* shard names; a smaller number sorts first
          Chars,         \* characters, one per account
          MaxClock,      \* bound on launches and initialisations
          MaxSuspicions, \* bound on live shards found expired
          MaxTasks,      \* bound on queues: no ping is sent into a longer one
          MaxJoins       \* bound on players entering a zone

ASSUME ClusterAssumption ==
    /\ Shards \subseteq Nat \ {0} /\ IsFiniteSet(Shards) /\ IsFiniteSet(Chars)
    /\ MaxClock \in Nat /\ MaxSuspicions \in Nat /\ MaxTasks \in Nat
    /\ MaxJoins \in Nat

VARIABLES status,      \* of each shard's process
          launchTime,  \* g_ServerLaunchTime
          clock,       \* last time given out
          node,        \* state of each ClusterManager
          tasks,       \* cluster messages queued for the main thread
          pool,        \* cluster messages handed to the thread pool
          session,     \* AccountSessions in Redis: the shard of each character
          suspicions,  \* live shards found expired so far
          joins        \* zone entries so far

vars == <<status, launchTime, clock, node, tasks, pool, session, suspicions, joins>>

NoName == 0             \* the empty string
Names == Shards \cup {NoName}

\* An entry of mActiveShards.  `listed' says whether the map holds it, `seen'
\* whether mLastSeen is not zero.
Shard == [listed : BOOLEAN, mName : Names, mStartTime : Nat,
          seen : BOOLEAN, mPlayers : Int]

\* mActiveShards, mActivePlayers (the shard of each player, NoName for a
\* player who is not in the map) and mMasterShard.
ClusterManager ==
    [mActiveShards : [Names -> Shard], mActivePlayers : [Chars -> Names],
     mMasterShard : Names]

Message ==
    [type : {"started", "stopped", "ping"}, from : Shards]
    \cup [type : {"reconfigure"}, from : Shards, shardName : Shards]
    \cup [type : {"request"}, shardName : Shards]
    \cup [type : {"configuration"}, from : Shards, players : Int, launchTime : Nat]
PlayerMessage == [type : {"joined", "left"}, from : Shards, cdefid : Chars]

TypeOK ==
    /\ status \in [Shards -> {"down", "launched", "up"}]
    /\ launchTime \in [Shards -> Nat]
    /\ clock \in Nat
    /\ node \in [Shards -> ClusterManager]
    /\ tasks \in [Shards -> Seq(Message)]
    /\ pool \in [Shards -> Seq(PlayerMessage)]
    /\ session \in [Chars -> Names]
    /\ suspicions \in Nat
    /\ joins \in Nat

-----------------------------------------------------------------------------
(* The functions of ClusterManager, on the state n of one. *)

\* Shard::Shard
NewEntry == [listed |-> TRUE, mName |-> NoName, mStartTime |-> 0,
             seen |-> FALSE, mPlayers |-> 0]
NoEntry == [NewEntry EXCEPT !.listed = FALSE]

NoManager == [mActiveShards  |-> [t \in Names |-> NoEntry],
              mActivePlayers |-> [c \in Chars |-> NoName],
              mMasterShard   |-> NoName]

IsShardActive(n, t) == n.mActiveShards[t].listed

\* mActiveShards[t], which makes an entry when there is none.
Entry(n, t) == IF IsShardActive(n, t) THEN n.mActiveShards[t] ELSE NewEntry

\* (mutant) an entry without players is dropped.
CountPlayersDropsEmpty(n, t, d) ==
    [n EXCEPT !.mActiveShards[t] =
        IF Entry(n, t).mPlayers + d = 0 THEN NoEntry
        ELSE [Entry(n, t) EXCEPT !.mPlayers = @ + d]]

\* mActiveShards[t].mPlayers += d
CountPlayers(n, t, d) ==
    [n EXCEPT !.mActiveShards[t] = [Entry(n, t) EXCEPT !.mPlayers = @ + d]]

\* The active shards that started first; the map is walked by name.
Earliest(n) ==
    {t \in Names : /\ IsShardActive(n, t)
                   /\ \A u \in Names : IsShardActive(n, u) =>
                         n.mActiveShards[t].mStartTime <= n.mActiveShards[u].mStartTime}
FirstOf(S) == CHOOSE t \in S : \A u \in S : t <= u

FindMasterShard(n) ==
    [n EXCEPT !.mMasterShard = n.mActiveShards[FirstOf(Earliest(n))].mName]

\* (mutant) the master is not looked for again.
ShardRemovedKeepsMaster(n, gone) ==
    [n EXCEPT !.mActiveShards = [t \in Names |-> IF t \in gone THEN NoEntry ELSE @[t]],
              !.mActivePlayers = [c \in Chars |-> IF @[c] \in gone THEN NoName ELSE @[c]]]

\* ShardRemoved for every shard of a set: the shards that are active go, with
\* the players LeftOtherShard finds on them.
ShardRemoved(n, names) ==
    LET gone == {t \in names : IsShardActive(n, t)}
    IN  IF gone = {} THEN n
        ELSE FindMasterShard([n EXCEPT
               !.mActiveShards = [t \in Names |-> IF t \in gone THEN NoEntry ELSE @[t]],
               !.mActivePlayers = [c \in Chars |-> IF @[c] \in gone THEN NoName ELSE @[c]]])

\* A shard that is already known came back before it expired.
NewShard(n, t) ==
    [ShardRemoved(n, {t}) EXCEPT
        !.mActiveShards[t] = [NewEntry EXCEPT !.mName = t, !.seen = TRUE]]

\* The entry is changed and stored under the name it carries.
ServerConfigurationReceived(n, m) ==
    LET k == IF IsShardActive(n, m.from) THEN n ELSE NewShard(n, m.from)
        s == [k.mActiveShards[m.from] EXCEPT !.seen = TRUE,
                 !.mPlayers = m.players, !.mStartTime = m.launchTime]
    IN  FindMasterShard([k EXCEPT !.mActiveShards[s.mName] = s])

\* JoinedShard: a local player, new or in another zone.
JoinedShard(n, s, c) ==
    LET k == IF n.mActivePlayers[c] = NoName THEN CountPlayers(n, s, 1) ELSE n
    IN  [k EXCEPT !.mActivePlayers[c] = s]

\* JoinedOtherShard and LeftOtherShard: what other shards say of players.
JoinedOtherShard(n, t, c) ==
    LET was == n.mActivePlayers[c]
        k == CASE was = NoName -> CountPlayers(n, t, 1)
               [] was \notin {NoName, t} -> CountPlayers(n, was, -1)
               [] OTHER -> n
    IN  [k EXCEPT !.mActivePlayers[c] = t]

LeftOtherShard(n, t, c) ==
    IF n.mActivePlayers[c] = NoName
    THEN n
    ELSE [CountPlayers(n, t, -1) EXCEPT !.mActivePlayers[c] = NoName]

-----------------------------------------------------------------------------
(* Messages.  Redis gives a message to the shards that have subscribed. *)

Queued(q, s, ms) ==
    [r \in Shards |-> IF r # s /\ status[r] = "up" THEN q[r] \o ms ELSE q[r]]

Publish(s, ms) == Queued(tasks, s, ms)
PublishPlayers(s, ms) == Queued(pool, s, ms)

\* A reconfigure request is dropped by everyone but the shard it names.
RequestReconfigure(q, s, t) ==
    IF status[t] = "up" /\ t # s
    THEN [q EXCEPT ![t] = Append(@,
             [type |-> "reconfigure", from |-> s, shardName |-> t])]
    ELSE q

\* (mutant) the age of the shard is sent, not the time it was launched.
ConfigurationWithAge(s) ==
    [type |-> "configuration", from |-> s, launchTime |-> launchTime[s] - clock,
     players |-> node[s].mActiveShards[s].mPlayers]

\* What SendConfiguration says of its own shard.
Configuration(s) ==
    [type |-> "configuration", from |-> s, launchTime |-> launchTime[s],
     players |-> node[s].mActiveShards[s].mPlayers]

\* One joined message for every local player, sent after the configuration.
LocalPlayers(s) ==
    LET local == SetToSeq({c \in Chars : node[s].mActivePlayers[c] = s})
    IN  [i \in 1..Len(local) |-> [type |-> "joined", from |-> s, cdefid |-> local[i]]]

-----------------------------------------------------------------------------
(* The life of a shard's process. *)

Init ==
    /\ status = [s \in Shards |-> "down"]
    /\ launchTime = [s \in Shards |-> 0]
    /\ clock = 0
    /\ node = [s \in Shards |-> NoManager]
    /\ tasks = [s \in Shards |-> <<>>]
    /\ pool = [s \in Shards |-> <<>>]
    /\ session = [c \in Chars |-> NoName]
    /\ suspicions = 0
    /\ joins = 0

\* PlatformTime::Init
Launch(s) ==
    /\ status[s] = "down"
    /\ clock < MaxClock
    /\ status' = [status EXCEPT ![s] = "launched"]
    /\ clock' = clock + 1
    /\ launchTime' = [launchTime EXCEPT ![s] = clock + 1]
    /\ UNCHANGED <<node, tasks, pool, session, suspicions, joins>>

\* Init, PostInit and Ready: the shard lists itself, sessions left behind by
\* an earlier run are removed, and the others are told.
Ready(s) ==
    /\ status[s] = "launched"
    /\ status' = [status EXCEPT ![s] = "up"]
    /\ clock' = clock + 1
    /\ node' = [node EXCEPT ![s] = FindMasterShard(
          [NoManager EXCEPT !.mActiveShards[s] =
              [NewEntry EXCEPT !.mName = s, !.mStartTime = clock + 1]])]
    /\ session' = [c \in Chars |-> IF session[c] = s THEN NoName ELSE session[c]]
    /\ tasks' = Publish(s, <<[type |-> "started", from |-> s]>>)
    /\ UNCHANGED <<launchTime, pool, suspicions, joins>>

Halt(s) ==
    /\ status' = [status EXCEPT ![s] = "down"]
    /\ node' = [node EXCEPT ![s] = NoManager]
    /\ pool' = [pool EXCEPT ![s] = <<>>]
    /\ UNCHANGED <<launchTime, clock, session, suspicions, joins>>

\* PreShutdown, and the end of the process.  The sessions of its players stay.
Stop(s) ==
    /\ status[s] = "up"
    /\ tasks' = [Publish(s, <<[type |-> "stopped", from |-> s]>>) EXCEPT ![s] = <<>>]
    /\ Halt(s)

Crash(s) ==
    /\ status[s] = "up"
    /\ tasks' = [tasks EXCEPT ![s] = <<>>]
    /\ Halt(s)

-----------------------------------------------------------------------------
(* Tasks of the main thread and of the pool. *)

\* The next message of the main queue.
Task(s, type) ==
    /\ status[s] = "up"
    /\ tasks[s] # <<>>
    /\ Head(tasks[s]).type = type

Rest(s) == [tasks EXCEPT ![s] = Tail(@)]

HandleStarted(s) ==
    /\ Task(s, "started")
    /\ LET t == Head(tasks[s]).from
       IN  /\ node' = [node EXCEPT ![s] = NewShard(@, t)]
           /\ tasks' = RequestReconfigure(Rest(s), s, t)
    /\ UNCHANGED <<status, launchTime, clock, pool, session, suspicions, joins>>

HandleStopped(s) ==
    /\ Task(s, "stopped")
    /\ node' = [node EXCEPT ![s] = ShardRemoved(@, {Head(tasks[s]).from})]
    /\ tasks' = Rest(s)
    /\ UNCHANGED <<status, launchTime, clock, pool, session, suspicions, joins>>

HandleConfiguration(s) ==
    /\ Task(s, "configuration")
    /\ node' = [node EXCEPT ![s] = ServerConfigurationReceived(@, Head(tasks[s]))]
    /\ tasks' = Rest(s)
    /\ UNCHANGED <<status, launchTime, clock, pool, session, suspicions, joins>>

\* SendConfiguration; when the sender is unknown, another task asks it back.
HandleReconfigure(s) ==
    /\ Task(s, "reconfigure")
    /\ LET t == Head(tasks[s]).from
           sent == [r \in Shards |->
                      IF r # s /\ status[r] = "up"
                      THEN Append(tasks[r], Configuration(s)) ELSE Rest(s)[r]]
       IN  tasks' = IF IsShardActive(node[s], t) THEN sent
                    ELSE [sent EXCEPT ![s] =
                            Append(@, [type |-> "request", shardName |-> t])]
    /\ pool' = PublishPlayers(s, LocalPlayers(s))
    /\ UNCHANGED <<status, launchTime, clock, node, session, suspicions, joins>>

HandleRequest(s) ==
    /\ Task(s, "request")
    /\ tasks' = RequestReconfigure(Rest(s), s, Head(tasks[s]).shardName)
    /\ UNCHANGED <<status, launchTime, clock, node, pool, session, suspicions, joins>>

\* (mutant) a ping of an unknown shard is ignored.
HandlePingIgnoresUnknown(s) ==
    /\ Task(s, "ping")
    /\ LET t == Head(tasks[s]).from
       IN  node' = IF IsShardActive(node[s], t)
                   THEN [node EXCEPT ![s].mActiveShards[t].seen = TRUE] ELSE node
    /\ tasks' = Rest(s)
    /\ UNCHANGED <<status, launchTime, clock, pool, session, suspicions, joins>>

\* ShardPing
HandlePing(s) ==
    /\ Task(s, "ping")
    /\ LET t == Head(tasks[s]).from
       IN  \/ /\ IsShardActive(node[s], t)
              /\ node' = [node EXCEPT ![s].mActiveShards[t].seen = TRUE]
              /\ tasks' = Rest(s)
           \/ /\ ~IsShardActive(node[s], t)
              /\ tasks' = RequestReconfigure(Rest(s), s, t)
              /\ UNCHANGED node
    /\ UNCHANGED <<status, launchTime, clock, pool, session, suspicions, joins>>

MainTask(s) ==
    \/ HandleStarted(s) \/ HandleStopped(s) \/ HandleConfiguration(s)
    \/ HandleReconfigure(s) \/ HandleRequest(s) \/ HandlePing(s)

\* A thread of the pool takes any of the messages handed to it.
PoolTask(s) ==
    /\ status[s] = "up"
    /\ \E i \in 1..Len(pool[s]) :
          LET m == pool[s][i]
          IN  /\ pool' = [pool EXCEPT ![s] = RemoveAt(@, i)]
              /\ node' = [node EXCEPT ![s] =
                    IF m.type = "joined" THEN JoinedOtherShard(@, m.from, m.cdefid)
                                         ELSE LeftOtherShard(@, m.from, m.cdefid)]
    /\ UNCHANGED <<status, launchTime, clock, tasks, session, suspicions, joins>>

-----------------------------------------------------------------------------
(* Steps of the main thread that no message causes. *)

\* The shards s could find expired.
Silent(s) ==
    {t \in Names \ {s} : /\ node[s].mActiveShards[t].listed
                         /\ node[s].mActiveShards[t].seen}
Alive == {t \in Shards : status[t] = "up"}

\* RunProcessingCycle: a ping, and the shards not heard of for long go.
RunProcessingCycle(s, expired) ==
    /\ status[s] = "up"
    /\ \A r \in Shards : Len(tasks[r]) <= MaxTasks
    /\ expired \subseteq Silent(s)
    /\ suspicions + Cardinality(expired \cap Alive) <= MaxSuspicions
    /\ suspicions' = suspicions + Cardinality(expired \cap Alive)
    /\ tasks' = Publish(s, <<[type |-> "ping", from |-> s]>>)
    /\ node' = [node EXCEPT ![s] = ShardRemoved(@, expired)]
    /\ UNCHANGED <<status, launchTime, clock, pool, session, joins>>

EnterZone(s, c) ==
    /\ joins < MaxJoins
    /\ joins' = joins + 1
    /\ node' = [node EXCEPT ![s] = JoinedShard(@, s, c)]
    /\ pool' = PublishPlayers(s, <<[type |-> "joined", from |-> s, cdefid |-> c]>>)
    /\ UNCHANGED <<status, launchTime, clock, tasks, suspicions>>

\* A character without a session anywhere logs in and enters its first zone:
\* the checks of lobby authentication and SetPersona, and MainCallSetZone.
Login(s, c) ==
    /\ status[s] = "up"
    /\ session[c] = NoName
    /\ node[s].mActivePlayers[c] \in {NoName, s}
    /\ session' = [session EXCEPT ![c] = s]
    /\ EnterZone(s, c)

\* MainCallSetZone of a player who is in the game.
SetZone(s, c) ==
    /\ status[s] = "up"
    /\ session[c] = s
    /\ EnterZone(s, c)
    /\ UNCHANGED session

\* ProcessDetach: LeftShard, and the session is removed.
Logout(s, c) ==
    /\ status[s] = "up"
    /\ session[c] = s
    /\ session' = [session EXCEPT ![c] = NoName]
    /\ \/ /\ node[s].mActivePlayers[c] # NoName
          /\ node' = [node EXCEPT ![s] =
                [CountPlayers(@, s, -1) EXCEPT !.mActivePlayers[c] = NoName]]
          /\ pool' = PublishPlayers(s, <<[type |-> "left", from |-> s, cdefid |-> c]>>)
       \/ /\ node[s].mActivePlayers[c] = NoName
          /\ UNCHANGED <<node, pool>>
    /\ UNCHANGED <<status, launchTime, clock, tasks, suspicions, joins>>

-----------------------------------------------------------------------------

Next ==
    \E s \in Shards :
        \/ Launch(s) \/ Ready(s) \/ Stop(s) \/ Crash(s)
        \/ MainTask(s) \/ PoolTask(s)
        \/ \E expired \in SUBSET Names : RunProcessingCycle(s, expired)
        \/ \E c \in Chars : Login(s, c) \/ SetZone(s, c) \/ Logout(s, c)

Spec == Init /\ [][Next]_vars

\* Queued tasks run and the processing cycle keeps coming round; a shard that
\* is gone is past the timeout in all but finitely many cycles.
FairSpec ==
    /\ Spec
    /\ \A s \in Shards :
          /\ WF_vars(MainTask(s))
          /\ WF_vars(PoolTask(s))
          /\ SF_vars(RunProcessingCycle(s, Silent(s) \ Alive))

-----------------------------------------------------------------------------

(***************************************************************************)
(* "Our own shard is always active" (ClusterManager::Init): whatever other *)
(* shards say, and whatever expires, the entry a running shard made for    *)
(* itself stays, with its name and the time it started.                    *)
(***************************************************************************)
OwnShardActive ==
    \A s \in Alive : LET e == node[s].mActiveShards[s]
                     IN  e.listed /\ e.mName = s /\ e.mStartTime > 0

(***************************************************************************)
(* A shard never follows a master it does not list as active: a master     *)
(* that stopped, expired or came back is replaced in the same step.        *)
(***************************************************************************)
MasterIsActive ==
    \A s \in Alive : LET m == node[s].mMasterShard
                     IN  m = NoName \/ IsShardActive(node[s], m)

\* No two running shards were starting at the same time.
BootsApart ==
    \A r, s \in Alive :
        r = s \/ launchTime[r] > node[s].mActiveShards[s].mStartTime
              \/ launchTime[s] > node[r].mActiveShards[r].mStartTime

OneMaster ==
    \E m \in Alive : \A s \in Alive : node[s].mMasterShard = m

(***************************************************************************)
(* When shards stop coming and going, the running ones settle on one       *)
(* running shard as master, whatever was lost, expired or restarted        *)
(* before: master duties (auctions, weather) are done by exactly one shard *)
(* because every shard compares the same start times (FindMasterShard).    *)
(***************************************************************************)
ElectionSettles == <>[](Alive # {} /\ BootsApart => OneMaster)
=============================================================================
