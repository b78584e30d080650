------------------------------ MODULE Session -------------------------------
(***************************************************************************)
(* The way of one account and its character through the shards of a        *)
(* cluster: connections, authentication, the account sessions kept in      *)
(* Redis, selecting the character, the transfer of the player to another   *)
(* shard, disconnecting, and the crash and restart of shards.              *)
(* (message/LobbyMessage.cpp, Simulator.cpp, Cluster.cpp, Character.cpp,   *)
(* auth/ClusterAuthentication.cpp.)                                        *)
(*                                                                         *)
(* Each shard has a main thread, which runs the tasks submitted to it one  *)
(* after the other, and a pool of threads.  The character's data is a      *)
(* number that grows with every change.                                    *)
(***************************************************************************)
EXTENDS Integers, Sequences, FiniteSets, Bags

CONSTANTS
    Shards,
    Clients,        \* clients the player runs at the same time
    MaxSims,        \* bound: connections ever made
    MaxTransfers,   \* bound: transfers ever asked for
    MaxChanges      \* bound: changes of the character on each shard

ASSUME SessionAssumption ==
    /\ Clients \in Nat /\ MaxSims \in Nat /\ MaxTransfers \in Nat /\ MaxChanges \in Nat
    /\ 0 \notin Shards

VARIABLES
    up,         \* shards whose process runs
    sessions,   \* account sessions in Redis, by shard
    store,      \* the character in Redis
    sim,        \* the simulators, never deleted while the process runs
    open,       \* connections whose client is still there
    switch,     \* [shard, token] of the switch packets clients received
    tokens,     \* transfer tokens handed out
    charList,   \* the copy of the character each shard has loaded
    mActivePlayers,  \* the shard the character is on, as each shard knows
    mPending,   \* transfers each shard expects
    main,       \* tasks submitted to each main thread
    pool,       \* player messages handed to each pool
    admitting,  \* the simulator each main thread is about to admit
    raced,      \* history: two shards were about to admit at the same time
    astray      \* history: shards that, since they booted, had a session of
                \* theirs overwritten in Redis, or left there by a connection
                \* that changed accounts

redis  == <<sessions, store>>
client == <<open, switch>>
history == <<raced, astray>>
vars == <<up, redis, sim, client, tokens, charList, mActivePlayers, mPending, main, pool, admitting, history>>

-----------------------------------------------------------------------------
None == 0                    \* no shard, no simulator, no token
Unloaded == -1               \* no copy in charList
Sims == 1..MaxSims
Tokens == 1..MaxTransfers

(***************************************************************************)
(* auth is the stage of the authentication; acc says that accPtr of pld is *)
(* the account, char is its charPtr, def says that its CreatureDefID is    *)
(* set, game that ProtocolState left the lobby, and ended that the thread  *)
(* ended and submitted its ProcessDisconnect.                              *)
(***************************************************************************)
SimulatorThread ==
    [shard : Shards \cup {None}, auth : {"pool", "main", "done"},
     token : Tokens \cup {None}, acc : BOOLEAN,
     char : {"null", "loaded", "dangling"}, def : BOOLEAN, game : BOOLEAN, ended : BOOLEAN]

NewSim(s, token) ==
    [shard |-> s, auth |-> "pool", token |-> token, acc |-> FALSE,
     char |-> "null", def |-> FALSE, game |-> FALSE, ended |-> FALSE]

Unused == NewSim(None, None)
Gone == [Unused EXCEPT !.auth = "done", !.ended = TRUE]   \* its process is

PendingShardPlayer == [token : Tokens, from : Shards]

Tasks ==
    [type : {"transfer", "confirm"}, token : Tokens, from : Shards, sim : Sims]
    \cup [type : {"disconnect"}, sim : Sims] \cup [type : {"unload"}]

PlayerMessages == [type : {"joined", "left"}, from : Shards]

SimsOf(s) == {n \in Sims : sim[n].shard = s}
Free(s) == s \in up /\ admitting[s] = None
Submit(s, task) == [main EXCEPT ![s] = IF s \in up THEN Append(@, task) ELSE @]
Publish(s, type) ==
    [t \in Shards |-> IF t \in up \ {s}
                      THEN pool[t] (+) SetToBag({[type |-> type, from |-> s]})
                      ELSE pool[t]]

\* RequestCharacter: the copy that is there, or a new one.
RequestCharacter(s) == IF charList[s] = Unloaded THEN store ELSE charList[s]

\* Pointers to the copy of s after it was unloaded.
Dangling(s) == [n \in Sims |-> IF sim[n].shard = s /\ sim[n].char = "loaded"
                               THEN [sim[n] EXCEPT !.char = "dangling"] ELSE sim[n]]

-----------------------------------------------------------------------------
Init ==
    /\ up = Shards
    /\ sessions = [s \in Shards |-> 0] /\ store = 0
    /\ sim = [n \in Sims |-> Unused]
    /\ open = {} /\ switch = {} /\ tokens = 0
    /\ charList = [s \in Shards |-> Unloaded]
    /\ mActivePlayers = [s \in Shards |-> None]
    /\ mPending = [s \in Shards |-> {}]
    /\ main = [s \in Shards |-> <<>>]
    /\ pool = [s \in Shards |-> EmptyBag]
    /\ admitting = [s \in Shards |-> None]
    /\ raced = FALSE /\ astray = {}

(***************************************************************************)
(* A client connects and authenticates, by password or with the token of a *)
(* switch packet; the simulator pools the authentication.  Simulators are  *)
(* numbered in the order of their creation.                                *)
(***************************************************************************)
Connect(n, s, token) ==
    /\ s \in up /\ sim[n] = Unused /\ \A m \in 1..(n - 1) : sim[m] # Unused
    /\ Cardinality(open) < Clients
    /\ token # None => [shard |-> s, token |-> token] \in switch
    /\ sim' = [sim EXCEPT ![n] = NewSim(s, token)]
    /\ open' = open \cup {n}
    /\ switch' = switch \ {[shard |-> s, token |-> token]}
    /\ UNCHANGED <<up, redis, tokens, charList, mActivePlayers, mPending, main, pool, admitting, history>>

(***************************************************************************)
(* The authentication of another account, which the client sent from the   *)
(* lobby of this one, is admitted: pld is reset and gets the other account *)
(* without a logout.                                                       *)
(***************************************************************************)
SwitchAccount(n) ==
    /\ sim[n].acc /\ Free(sim[n].shard)
    /\ sim' = [sim EXCEPT ![n].acc = FALSE, ![n].char = "null", ![n].def = FALSE]
    /\ astray' = astray \cup {sim[n].shard}
    /\ UNCHANGED <<up, redis, client, tokens, charList, mActivePlayers, mPending, main, pool, admitting, raced>>

\* The client goes away; the simulator's thread will notice.
Drop(n) ==
    /\ n \in open
    /\ open' = open \ {n}
    /\ UNCHANGED <<up, redis, sim, switch, tokens, charList, mActivePlayers, mPending, main, pool, admitting, history>>

(***************************************************************************)
(* The first phase, on a thread of the pool.  A token is consumed, the     *)
(* player's former shard forgotten, and the character requested.           *)
(***************************************************************************)
AuthenticateToken(n) ==
    LET s == sim[n].shard
        found == {p \in mPending[s] : p.token = sim[n].token}
    IN /\ s \in up /\ sim[n].auth = "pool" /\ sim[n].token # None
       /\ \/ /\ found # {}
             /\ mPending' = [mPending EXCEPT ![s] = @ \ found]
             /\ mActivePlayers' = [mActivePlayers EXCEPT ![s] = None]
             /\ charList' = [charList EXCEPT ![s] = RequestCharacter(s)]
             /\ sim' = [sim EXCEPT ![n].auth = "main"]
             /\ UNCHANGED open
          \/ /\ found = {}
             /\ sim' = [sim EXCEPT ![n].auth = "done"]
             /\ open' = open \ {n}
             /\ UNCHANGED <<mPending, mActivePlayers, charList>>
       /\ UNCHANGED <<up, redis, switch, tokens, main, pool, admitting, history>>

AuthenticatePassword(n) ==
    /\ sim[n].shard \in up /\ sim[n].auth = "pool" /\ sim[n].token = None
    /\ sim' = [sim EXCEPT ![n].auth = "main"]
    /\ UNCHANGED <<up, redis, client, tokens, charList, mActivePlayers, mPending, main, pool, admitting, history>>

\* Mutant of AccountSessions: sessions on other shards do not count.
LocalAccountSessions(s) == {t \in {s} : sessions[t] > 0}

\* The shards whose sessions CountAccountSessions adds up.
AccountSessions(s) == {t \in Shards : sessions[t] > 0}

(***************************************************************************)
(* The second phase, on the main thread: the account's sessions are        *)
(* counted in Redis, and registered there by a second request.  It runs    *)
(* though the connection may be gone by now.  When there is a session, be  *)
(* it of this connection, the connection is closed, and so is a simulator  *)
(* of this shard that plays and seems idle.                                *)
(***************************************************************************)
CheckMultipleLogins(n) ==
    LET s == sim[n].shard
        playing == {m \in SimsOf(s) : sim[m].acc /\ sim[m].char # "null"}
    IN /\ \/ /\ AccountSessions(s) = {}
             /\ admitting' = [admitting EXCEPT ![s] = n]
             /\ raced' = (raced \/ \E t \in Shards : admitting[t] # None)
             /\ UNCHANGED <<sim, open>>
          \/ /\ AccountSessions(s) # {}
             /\ sim' = [sim EXCEPT ![n].auth = "done"]
             /\ \E idle \in SUBSET playing :
                   Cardinality(idle) <= 1 /\ open' = open \ ({n} \cup idle)
             /\ UNCHANGED <<admitting, raced>>
       /\ UNCHANGED <<up, redis, switch, tokens, charList, mActivePlayers, mPending, main, pool, astray>>

CountSessions(n) == sim[n].auth = "main" /\ Free(sim[n].shard) /\ CheckMultipleLogins(n)

(***************************************************************************)
(* A second authentication, which the client sent from the lobby of a      *)
(* connection that is logged in by now, reaches the same check.  The first *)
(* phase of one by password changes nothing.                               *)
(***************************************************************************)
Reauthenticate(n) == sim[n].acc /\ Free(sim[n].shard) /\ CheckMultipleLogins(n)

(***************************************************************************)
(* AdjustSessionLoginCount and LoadAccountCharacters.  The session is the  *)
(* field of a hash, named by the millisecond: one that another shard       *)
(* registered in the same millisecond is overwritten.                      *)
(***************************************************************************)
Admit(n) ==
    LET s == sim[n].shard
    IN /\ s \in up /\ admitting[s] = n
       /\ \E same \in {{}} \cup {{t} : t \in {u \in Shards : sessions[u] > 0}} :
             /\ sessions' = [t \in Shards |-> sessions[t] + (IF t = s THEN 1 ELSE 0)
                                                        - (IF t \in same THEN 1 ELSE 0)]
             /\ astray' = astray \cup same
       /\ sim' = [sim EXCEPT ![n].auth = "done", ![n].acc = TRUE,
                             ![n].char = "null", ![n].def = FALSE]
       /\ admitting' = [admitting EXCEPT ![s] = None]
       /\ UNCHANGED <<up, store, client, tokens, charList, mActivePlayers, mPending, main, pool, raced>>

\* Mutant of SetPersona: the pointer is set before the character is requested.
SetPersonaUnrequested(n) ==
    LET s == sim[n].shard
    IN /\ n \in open /\ sim[n].acc /\ ~sim[n].game /\ Free(s)
       /\ mActivePlayers[s] \in {None, s}
       /\ sim' = [sim EXCEPT ![n].char = "loaded", ![n].def = TRUE, ![n].game = TRUE]
       /\ mActivePlayers' = [mActivePlayers EXCEPT ![s] = s]
       /\ pool' = Publish(s, "joined")
       /\ UNCHANGED <<up, redis, client, tokens, charList, mPending, main, admitting, history>>

(***************************************************************************)
(* The player selects the character.  Refused, with a disconnect, while    *)
(* another simulator of this shard plays it or another shard is known to.  *)
(***************************************************************************)
SetPersona(n) ==
    LET s == sim[n].shard
        taken == \/ \E m \in SimsOf(s) \ {n} : sim[m].char # "null"
                 \/ mActivePlayers[s] \notin {None, s}
    IN /\ n \in open /\ sim[n].acc /\ ~sim[n].game /\ Free(s)
       /\ \/ /\ taken
             /\ open' = open \ {n}
             /\ UNCHANGED <<sim, charList, mActivePlayers, pool>>
          \/ /\ ~taken
             /\ charList' = [charList EXCEPT ![s] = RequestCharacter(s)]
             /\ sim' = [sim EXCEPT ![n].char = "loaded", ![n].def = TRUE, ![n].game = TRUE]
             /\ mActivePlayers' = [mActivePlayers EXCEPT ![s] = s]
             /\ pool' = Publish(s, "joined")
             /\ UNCHANGED open
       /\ UNCHANGED <<up, redis, switch, tokens, mPending, main, admitting, history>>

\* Anything that changes the character while it is played.
Change(n) ==
    LET s == sim[n].shard
    IN /\ n \in open /\ sim[n].char = "loaded" /\ Free(s)
       /\ charList[s] < MaxChanges
       /\ charList' = [charList EXCEPT ![s] = @ + 1]
       /\ UNCHANGED <<up, redis, sim, client, tokens, mActivePlayers, mPending, main, pool, admitting, history>>

\* SaveCharacter writes the copy that is loaded, whichever it is.
Saved(s) == IF charList[s] = Unloaded THEN store ELSE charList[s]

-----------------------------------------------------------------------------
(* Transfers.                                                              *)

(***************************************************************************)
(* ShardSet: the character is saved and the other shard told; the player   *)
(* plays on.                                                               *)
(***************************************************************************)
ShardSet(n, t) ==
    LET s == sim[n].shard
    IN /\ n \in open /\ sim[n].char # "null" /\ Free(s) /\ t # s
       /\ tokens < MaxTransfers
       /\ tokens' = tokens + 1
       /\ store' = Saved(s)
       /\ main' = Submit(t, [type |-> "transfer", token |-> tokens + 1, from |-> s, sim |-> n])
       /\ UNCHANGED <<up, sessions, sim, client, charList, mActivePlayers, mPending, pool, admitting, history>>

Task(s, type) == Free(s) /\ main[s] # <<>> /\ Head(main[s]).type = type

\* Reload the character, expect the player, confirm.
TransferFromOtherShard(s) ==
    LET m == Head(main[s])
        rest == [main EXCEPT ![s] = Tail(@)]
    IN /\ Task(s, "transfer")
       /\ charList' = [charList EXCEPT ![s] = store]
       /\ sim' = Dangling(s)
       /\ mPending' = [mPending EXCEPT ![s] = @ \cup {[token |-> m.token, from |-> m.from]}]
       /\ main' = [rest EXCEPT ![m.from] =
                     IF m.from \in up
                     THEN Append(@, [type |-> "confirm", token |-> m.token, from |-> s, sim |-> m.sim])
                     ELSE @]
       /\ UNCHANGED <<up, redis, client, tokens, mActivePlayers, pool, admitting, history>>

\* Mutant of ProcessDetach: only a simulator that plays logs out.
ProcessDetachPlaying(n) ==
    LET s == sim[n].shard
        was == sim[n].def /\ mActivePlayers[s] # None
        out == sim[n].acc /\ sim[n].char # "null"
    IN /\ store' = IF sim[n].char = "null" THEN store ELSE Saved(s)
       /\ mActivePlayers' = IF was THEN [mActivePlayers EXCEPT ![s] = None] ELSE mActivePlayers
       /\ pool' = IF was THEN Publish(s, "left") ELSE pool
       /\ sessions' = IF out /\ sessions[s] > 0 THEN [sessions EXCEPT ![s] = @ - 1] ELSE sessions
       /\ sim' = [sim EXCEPT ![n].char = "null", ![n].acc = IF out THEN FALSE ELSE @]

(***************************************************************************)
(* ProcessDetach: the character is saved, LeftShard forgets and announces  *)
(* the player wherever he is thought to be, and Logout removes a session   *)
(* of this shard.  It runs again when the thread ends after a transfer.    *)
(***************************************************************************)
ProcessDetach(n) ==
    LET s == sim[n].shard
        was == sim[n].def /\ mActivePlayers[s] # None
    IN /\ store' = IF sim[n].char = "null" THEN store ELSE Saved(s)
       /\ mActivePlayers' = IF was THEN [mActivePlayers EXCEPT ![s] = None] ELSE mActivePlayers
       /\ pool' = IF was THEN Publish(s, "left") ELSE pool
       /\ sessions' = IF sim[n].acc /\ sessions[s] > 0 THEN [sessions EXCEPT ![s] = @ - 1] ELSE sessions
       /\ sim' = [sim EXCEPT ![n].char = "null", ![n].acc = FALSE]

(***************************************************************************)
(* What a process that ends leaves behind: the store, the sessions of its  *)
(* accounts, and the clients, whose connections break.                     *)
(***************************************************************************)
Die(s) ==
    /\ up' = up \ {s}
    /\ sim' = [n \in Sims |-> IF sim[n].shard = s THEN Gone ELSE sim[n]]
    /\ open' = open \ SimsOf(s)
    /\ charList' = [charList EXCEPT ![s] = Unloaded]
    /\ mActivePlayers' = [mActivePlayers EXCEPT ![s] = None]
    /\ mPending' = [mPending EXCEPT ![s] = {}]
    /\ main' = [main EXCEPT ![s] = <<>>]
    /\ pool' = [pool EXCEPT ![s] = EmptyBag]
    /\ admitting' = [admitting EXCEPT ![s] = None]
    /\ UNCHANGED <<redis, switch>>

(***************************************************************************)
(* FinaliseTransfer: the switch packet goes out and the player is          *)
(* detached.  It reads his name through charPtr, which is null if he was   *)
(* detached meanwhile, and that ends the process.                          *)
(***************************************************************************)
ConfirmTransferToOtherShard(s) ==
    LET m == Head(main[s])
        n == m.sim
    IN /\ Task(s, "confirm")
       /\ \/ /\ sim[n].shard # s
             /\ main' = [main EXCEPT ![s] = Tail(@)]
             /\ UNCHANGED <<up, redis, sim, client, charList, mActivePlayers, mPending, pool, admitting>>
          \/ sim[n].shard = s /\ sim[n].char = "null" /\ Die(s)
          \/ /\ sim[n].shard = s /\ sim[n].char # "null"
             /\ main' = [main EXCEPT ![s] = Tail(@)]
             /\ switch' = IF n \in open THEN switch \cup {[shard |-> m.from, token |-> m.token]}
                          ELSE switch
             /\ open' = open \ {n}
             /\ ProcessDetach(n)
             /\ UNCHANGED <<up, charList, mPending, admitting>>
       /\ UNCHANGED <<tokens, history>>

-----------------------------------------------------------------------------
(* The end of connections, messages of other shards, crashes.              *)

\* The thread of a simulator whose connection is gone ends.
ThreadEnds(n) ==
    LET s == sim[n].shard
    IN /\ s \in up /\ n \notin open /\ ~sim[n].ended
       /\ sim' = [sim EXCEPT ![n].ended = TRUE]
       /\ main' = Submit(s, [type |-> "disconnect", sim |-> n])
       /\ UNCHANGED <<up, redis, client, tokens, charList, mActivePlayers, mPending, pool, admitting, history>>

ProcessDisconnect(s) ==
    /\ Task(s, "disconnect")
    /\ main' = [main EXCEPT ![s] = Tail(@)]
    /\ ProcessDetach(Head(main[s]).sim)
    /\ UNCHANGED <<up, client, tokens, charList, mPending, admitting, history>>

\* The task LeftOtherShard submits.
UnloadCharacter(s) ==
    /\ Task(s, "unload")
    /\ main' = [main EXCEPT ![s] = Tail(@)]
    /\ charList' = [charList EXCEPT ![s] = Unloaded]
    /\ sim' = Dangling(s)
    /\ UNCHANGED <<up, redis, client, tokens, mActivePlayers, mPending, pool, admitting, history>>

\* Ignored while the player is expected here.
LeftOtherShard(s) ==
    IF mPending[s] # {} \/ mActivePlayers[s] = None
    THEN UNCHANGED <<mActivePlayers, main>>
    ELSE /\ mActivePlayers' = [mActivePlayers EXCEPT ![s] = None]
         /\ main' = Submit(s, [type |-> "unload"])

PoolTask(s) ==
    /\ s \in up
    /\ \E m \in BagToSet(pool[s]) :
          /\ pool' = [pool EXCEPT ![s] = @ (-) SetToBag({m})]
          /\ \/ /\ m.type = "joined"
                /\ charList' = [charList EXCEPT ![s] = RequestCharacter(s)]
                /\ mActivePlayers' = [mActivePlayers EXCEPT ![s] = m.from]
                /\ UNCHANGED main
             \/ m.type = "left" /\ LeftOtherShard(s) /\ UNCHANGED charList
    /\ UNCHANGED <<up, redis, sim, client, tokens, mPending, admitting, history>>

\* A shard that does not answer pings is removed with its players.
ShardRemoved(s, t) ==
    /\ Free(s) /\ t \notin up /\ mActivePlayers[s] = t /\ mPending[s] = {}
    /\ LeftOtherShard(s)
    /\ UNCHANGED <<up, redis, sim, client, tokens, charList, mPending, pool, admitting, history>>

Crash(s) == s \in up /\ Die(s) /\ UNCHANGED <<tokens, history>>

\* Mutant of PostInit: sessions of an earlier process are left alone.
PostInitKeepsSessions(s) ==
    /\ s \notin up
    /\ up' = up \cup {s}
    /\ astray' = astray \ {s}
    /\ UNCHANGED <<redis, sim, client, tokens, charList, mActivePlayers, mPending, main, pool, admitting, raced>>

\* A shard that boots removes the sessions it left behind.
PostInit(s) ==
    /\ s \notin up
    /\ up' = up \cup {s}
    /\ sessions' = [sessions EXCEPT ![s] = 0]
    /\ astray' = astray \ {s}
    /\ UNCHANGED <<store, sim, client, tokens, charList, mActivePlayers, mPending, main, pool, admitting, raced>>

MainTask(s) ==
    \/ TransferFromOtherShard(s) \/ ConfirmTransferToOtherShard(s)
    \/ ProcessDisconnect(s) \/ UnloadCharacter(s)

Authenticate(n) ==
    AuthenticateToken(n) \/ AuthenticatePassword(n) \/ CountSessions(n) \/ Admit(n)

Next ==
    \/ \E n \in Sims, s \in Shards :
          ShardSet(n, s) \/ \E token \in {None} \cup Tokens : Connect(n, s, token)
    \/ \E n \in Sims : Reauthenticate(n) \/ SwitchAccount(n) \/ Drop(n) \/ Authenticate(n) \/ SetPersona(n) \/ Change(n) \/ ThreadEnds(n)
    \/ \E s \in Shards : MainTask(s) \/ PoolTask(s) \/ Crash(s) \/ PostInit(s)
    \/ \E s, t \in Shards : ShardRemoved(s, t)

(***************************************************************************)
(* Threads of a process that runs go on: the pool, the main thread and the *)
(* simulators' own.                                                        *)
(***************************************************************************)
Spec ==
    /\ Init /\ [][Next]_vars
    /\ \A n \in Sims : WF_vars(Authenticate(n)) /\ WF_vars(ThreadEnds(n))
    /\ \A s \in Shards : WF_vars(MainTask(s)) /\ WF_vars(PoolTask(s))

-----------------------------------------------------------------------------
(* Properties.                                                             *)

(***************************************************************************)
(* Types, and that a simulator whose charPtr is good has a character to    *)
(* point to in charList.  Redis never holds two sessions of one shard.     *)
(***************************************************************************)
TypeOK ==
    /\ up \subseteq Shards
    /\ sessions \in [Shards -> {0, 1}] /\ store \in 0..MaxChanges
    /\ sim \in [Sims -> SimulatorThread]
    /\ \A n \in Sims : sim[n].char = "loaded" => charList[sim[n].shard] # Unloaded
    /\ open \subseteq Sims
    /\ switch \subseteq [shard : Shards, token : Tokens]
    /\ tokens \in 0..MaxTransfers
    /\ charList \in [Shards -> {Unloaded} \cup 0..MaxChanges]
    /\ mActivePlayers \in [Shards -> Shards \cup {None}]
    /\ mPending \in [Shards -> SUBSET PendingShardPlayer]
    /\ \A s \in Shards : main[s] \in Seq(Tasks) /\ BagToSet(pool[s]) \subseteq PlayerMessages
    /\ admitting \in [Shards -> Sims \cup {None}]
    /\ raced \in BOOLEAN /\ astray \subseteq Shards

(***************************************************************************)
(* The sessions Redis holds of a running shard are those of the simulators *)
(* logged in there, though detaching may happen twice, sessions are        *)
(* removed without knowing whose they are, connections authenticate again, *)
(* and the process may have crashed before.  Only two things lead astray,  *)
(* until the shard boots again: another shard that registers in the same   *)
(* millisecond, and a connection that changes accounts.  One session too   *)
(* many locks the account out; one too few admits it twice.                *)
(***************************************************************************)
SessionsMatch ==
    \A s \in up \ astray : sessions[s] = Cardinality({n \in SimsOf(s) : sim[n].acc})

(***************************************************************************)
(* "Check for multiple logins": no two connections, on the same or on      *)
(* different shards, play the character at the same time, however many     *)
(* clients there are and whatever the order in which connections drop,     *)
(* authenticate again, transfers complete and shards crash, unless two     *)
(* shards were once between counting the sessions and registering theirs   *)
(* at the same time.                                                       *)
(***************************************************************************)
AtMostOnePlaying ==
    ~raced => \A m, n \in Sims : (sim[m].char # "null" /\ sim[n].char # "null") => m = n

(***************************************************************************)
(* A connection that was logged in and is lost, before or after its player *)
(* selected a character, gives its session back.                           *)
(***************************************************************************)
SessionReturned ==
    \A n \in Sims : (sim[n].acc /\ ~sim[n].ended /\ n \notin open) ~> ~sim[n].acc

(***************************************************************************)
(* "Flush to characters and the account now so that the new Sim has most   *)
(* up-to-date data": a player who arrives by transfer plays the character  *)
(* that was saved last.                                                    *)
(***************************************************************************)
TransferUpToDate ==
    [][\A n \in Sims :
         (sim[n].token # None /\ sim[n].char = "null" /\ sim'[n].char = "loaded")
            => charList'[sim[n].shard] = store]_vars
=============================================================================
