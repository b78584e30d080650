---------------------------- MODULE SessionProofs ----------------------------
(***************************************************************************)
(* Proofs about the sessions of an account, for any number of shards,      *)
(* connections and transfers.                                              *)
(***************************************************************************)
EXTENDS Session, FiniteSetTheorems, TLAPS

(***************************************************************************)
(* The inductive invariant, by what it is about.                           *)
(***************************************************************************)

Base ==
    /\ up \subseteq Shards
    /\ store \in 0..MaxChanges
    /\ open \subseteq Sims
    /\ switch \subseteq [shard : Shards, token : Tokens]
    /\ tokens \in 0..MaxTransfers
    /\ mActivePlayers \in [Shards -> Shards \cup {None}]
    /\ mPending \in [Shards -> SUBSET PendingShardPlayer]

Queues ==
    /\ main \in [Shards -> Seq(Tasks)]
    /\ DOMAIN pool = Shards /\ \A s \in Shards : BagToSet(pool[s]) \subseteq PlayerMessages

\* A simulator lives on a running shard, and who plays is logged in.
SimInv ==
    /\ sim \in [Sims -> SimulatorThread]
    /\ \A n \in Sims : /\ sim[n].shard \in up \cup {None}
                       /\ sim[n].char # "null" => sim[n].acc
                       /\ sim[n].acc => sim[n].shard \in up
                       /\ sim[n].def => sim[n].shard \in up

Copies ==
    /\ charList \in [Shards -> {Unloaded} \cup 0..MaxChanges]
    /\ \A n \in Sims : sim[n].char = "loaded" => charList[sim[n].shard] # Unloaded

\* Who is about to be admitted is a simulator of that shard.
Admissions ==
    /\ admitting \in [Shards -> Sims \cup {None}]
    /\ \A s \in Shards : admitting[s] # None => s \in up /\ sim[admitting[s]].shard = s

On(n, s) == sim[n].shard = s /\ sim[n].acc

(***************************************************************************)
(* A shard that counted no sessions has none of its own until it registers *)
(* one.  Unless it is astray, it has one exactly when one simulator is     *)
(* logged in there.                                                        *)
(***************************************************************************)
Matched ==
    /\ sessions \in [Shards -> {0, 1}] /\ raced \in BOOLEAN /\ astray \subseteq Shards
    /\ \A s \in Shards : admitting[s] # None => sessions[s] = 0
    /\ \A s \in up \ astray :
          /\ \A m, n \in Sims : (On(m, s) /\ On(n, s)) => m = n
          /\ \A n \in Sims : On(n, s) => sessions[s] = 1
          /\ sessions[s] = 1 => \E n \in Sims : On(n, s)

(***************************************************************************)
(* While no two shards were about to admit at the same time, the session   *)
(* in Redis is a lock: there is one at most, whoever is logged in has it,  *)
(* and who is about to be admitted is alone and found none.                *)
(***************************************************************************)
Exclusive ==
    /\ \A m, n \in Sims : (sim[m].acc /\ sim[n].acc) => m = n
    /\ \A n \in Sims : sim[n].acc => sessions[sim[n].shard] = 1
    /\ \A s, t \in Shards : (sessions[s] = 1 /\ sessions[t] = 1) => s = t
    /\ \A s, t \in Shards : admitting[s] # None => sessions[t] = 0
    /\ \A s, t \in Shards : (admitting[s] # None /\ admitting[t] # None) => s = t

Counted == Matched /\ (~raced => Exclusive)

IInv == Base /\ Queues /\ SimInv /\ Copies /\ Admissions /\ Counted

-----------------------------------------------------------------------------
(* Types of what is made, and counting.                                    *)

LEMMA NoneIsNothing == None \notin Shards /\ None \notin Sims /\ None \notin Tokens
BY SessionAssumption DEF None, Sims, Tokens

LEMMA NewSimType ==
    ASSUME NEW s \in Shards \cup {None}, NEW token \in Tokens \cup {None}
    PROVE  /\ NewSim(s, token) \in SimulatorThread
           /\ NewSim(s, token).shard = s /\ ~NewSim(s, token).acc
           /\ NewSim(s, token).char = "null" /\ NewSim(s, token).auth = "pool"
           /\ ~NewSim(s, token).def
BY DEF NewSim, SimulatorThread

LEMMA GoneType ==
    Gone \in SimulatorThread /\ Gone.shard = None /\ ~Gone.acc /\ Gone.char = "null" /\ ~Gone.def
<1>1. /\ Unused \in SimulatorThread /\ Unused.shard = None /\ ~Unused.acc
      /\ Unused.char = "null" /\ ~Unused.def
  BY NewSimType DEF Unused
<1> QED BY <1>1 DEF Gone, SimulatorThread

LEMMA TaskFields ==
    ASSUME NEW m \in Tasks
    PROVE  /\ m.type \in {"transfer", "confirm"} =>
                 m.token \in Tokens /\ m.from \in Shards /\ m.sim \in Sims
           /\ m.type = "disconnect" => m.sim \in Sims
BY DEF Tasks

\* A step that logs in nobody, logs out only who is on a shard that stops,
\* and lets no shard start to admit.
LEMMA SameLogins ==
    ASSUME Counted, UNCHANGED <<sessions, raced, astray>>, up' \subseteq up,
           \A n \in Sims : sim'[n].acc => sim[n].acc /\ sim'[n].shard = sim[n].shard,
           \A n \in Sims : (sim[n].acc /\ sim[n].shard \in up') => sim'[n].acc /\ sim'[n].shard = sim[n].shard,
           \A s \in Shards : admitting'[s] # None => admitting[s] # None
    PROVE  Counted'
<1>1. \A n \in Sims, s \in up' : On(n, s)' <=> On(n, s)
  BY DEF On
<1>2. Matched'
  <2>1. /\ sessions' \in [Shards -> {0, 1}] /\ raced' \in BOOLEAN /\ astray' \subseteq Shards
        /\ \A s \in Shards : admitting'[s] # None => sessions'[s] = 0
    BY DEF Counted, Matched
  <2>2. \A s \in up' \ astray' :
          /\ \A m, n \in Sims : (On(m, s)' /\ On(n, s)') => m = n
          /\ \A n \in Sims : On(n, s)' => sessions'[s] = 1
          /\ sessions'[s] = 1 => \E n \in Sims : On(n, s)'
    BY <1>1 DEF Counted, Matched
  <2> QED BY <2>1, <2>2 DEF Matched
<1>3. ~raced' => Exclusive'
  BY DEF Counted, Exclusive
<1> QED BY <1>2, <1>3 DEF Counted

LEMMA Published ==
    ASSUME Queues, NEW s \in Shards, NEW type \in {"joined", "left"}, pool' = Publish(s, type),
           main' \in [Shards -> Seq(Tasks)]
    PROVE  Queues'
<1>1. [type |-> type, from |-> s] \in PlayerMessages
  BY DEF PlayerMessages
<1>2. DOMAIN pool' = Shards
  BY DEF Publish
<1>3. ASSUME NEW t \in Shards PROVE BagToSet(pool'[t]) \subseteq PlayerMessages
  BY <1>1 DEF Queues, Publish, BagToSet, SetToBag, (+)
<1> QED BY <1>2, <1>3 DEF Queues

-----------------------------------------------------------------------------
(* Every step keeps the invariant.                                         *)

LEMMA InvHolds == Init => IInv
<1> SUFFICES ASSUME Init PROVE IInv
  OBVIOUS
<1>1. /\ Unused \in SimulatorThread /\ Unused.shard = None /\ ~Unused.acc
      /\ Unused.char = "null" /\ ~Unused.def
  BY NewSimType DEF Unused
<1>2. SimInv /\ Copies
  BY <1>1 DEF Init, SimInv, Copies
<1>3. Counted
  <2>1. \A n \in Sims : ~sim[n].acc
    BY <1>1 DEF Init
  <2>2. /\ sessions \in [Shards -> {0, 1}] /\ \A s \in Shards : sessions[s] = 0 /\ admitting[s] = None
        /\ raced = FALSE /\ astray = {}
    BY DEF Init
  <2>3. up \subseteq Shards
    BY DEF Init
  <2>4. Matched
    <3>1. raced \in BOOLEAN /\ astray \subseteq Shards
      BY <2>2
    <3>2. \A n \in Sims, s \in up \ astray : ~On(n, s)
      BY <2>1 DEF On
    <3>3. \A s \in up \ astray : sessions[s] = 0
      BY <2>2, <2>3
    <3>4. \A s \in Shards : admitting[s] # None => sessions[s] = 0
      BY <2>2
    <3>5. sessions \in [Shards -> {0, 1}]
      BY <2>2
    <3>6. \A s \in up \ astray : sessions[s] # 1
      BY <3>3
    <3> QED BY <3>1, <3>2, <3>4, <3>5, <3>6 DEF Matched
  <2>5. Exclusive
    BY <2>1, <2>2 DEF Exclusive
  <2> QED BY <2>4, <2>5 DEF Counted
<1>4. Queues
  BY DEF Init, Queues, EmptyBag, SetToBag, BagToSet
<1>5. Base /\ Admissions
  BY SessionAssumption DEF Init, Base, Admissions
<1> QED BY <1>2, <1>3, <1>4, <1>5 DEF IInv

LEMMA ConnectKeeps ==
    ASSUME IInv, NEW n \in Sims, NEW s \in Shards, NEW token \in {None} \cup Tokens,
           Connect(n, s, token)
    PROVE  IInv'
<1>1. /\ NewSim(s, token) \in SimulatorThread
      /\ NewSim(s, token).shard = s /\ ~NewSim(s, token).acc /\ NewSim(s, token).char = "null"
      /\ ~NewSim(s, token).def
  BY NewSimType
<1>2. sim[n].shard = None /\ ~sim[n].acc
  BY NewSimType DEF Connect, Unused
<1>3. SimInv'
  BY <1>1 DEF IInv, SimInv, Connect
<1>4. Copies'
  BY <1>1 DEF IInv, SimInv, Copies, Connect
<1>5. Admissions'
  BY <1>2, NoneIsNothing DEF IInv, SimInv, Admissions, Connect
<1>6. Counted'
  BY <1>1, <1>2, SameLogins DEF IInv, SimInv, Connect, redis, history, Admissions
<1>7. Base' /\ Queues'
  BY DEF IInv, Base, Queues, Connect, redis
<1> QED BY <1>3, <1>4, <1>5, <1>6, <1>7 DEF IInv

LEMMA DropKeeps == ASSUME IInv, NEW n \in Sims, Drop(n) PROVE IInv'
<1>1. Counted'
  BY SameLogins DEF IInv, Drop, redis, history, Admissions
<1> QED BY <1>1 DEF IInv, Base, Queues, SimInv, Copies, Admissions, Drop, redis

LEMMA AuthenticateTokenKeeps == ASSUME IInv, NEW n \in Sims, AuthenticateToken(n) PROVE IInv'
<1>1. sim[n].shard \in up /\ up \subseteq Shards /\ sim[n].auth = "pool"
  BY DEF IInv, SimInv, AuthenticateToken, Base
<1>2. PICK a \in {"main", "done"} : sim' = [sim EXCEPT ![n].auth = a]
  BY DEF AuthenticateToken
<1>3. SimInv'
  BY <1>1, <1>2 DEF IInv, SimInv, SimulatorThread, AuthenticateToken
<1>4. RequestCharacter(sim[n].shard) \in 0..MaxChanges
  BY <1>1 DEF IInv, Base, Copies, RequestCharacter
<1>5. charList' \in [Shards -> {Unloaded} \cup 0..MaxChanges]
      /\ \A s \in Shards : charList[s] # Unloaded => charList'[s] # Unloaded
  BY <1>1, <1>4 DEF IInv, Copies, AuthenticateToken, Unloaded
<1>6. Copies'
  BY <1>1, <1>2, <1>5 DEF IInv, SimInv, Copies, SimulatorThread
<1>7. Admissions'
  BY <1>1, <1>2 DEF IInv, SimInv, Admissions, SimulatorThread, AuthenticateToken
<1>8. Counted'
  BY <1>1, <1>2, SameLogins DEF IInv, SimInv, SimulatorThread, AuthenticateToken, redis, history, Admissions
<1>a. mPending' \in [Shards -> SUBSET PendingShardPlayer]
  BY <1>1 DEF IInv, Base, AuthenticateToken
<1>b. mActivePlayers' \in [Shards -> Shards \cup {None}]
  BY <1>1 DEF IInv, Base, AuthenticateToken
<1>9. Base' /\ Queues'
  BY <1>a, <1>b DEF IInv, Base, Queues, AuthenticateToken, redis
<1> QED BY <1>3, <1>6, <1>7, <1>8, <1>9 DEF IInv

LEMMA AuthenticatePasswordKeeps ==
    ASSUME IInv, NEW n \in Sims, AuthenticatePassword(n) PROVE IInv'
<1>1. SimInv' /\ Copies' /\ Admissions'
  BY DEF IInv, SimInv, Copies, Admissions, SimulatorThread, AuthenticatePassword
<1>2. Counted'
  BY SameLogins DEF IInv, SimInv, SimulatorThread, AuthenticatePassword, redis, history, Admissions
<1> QED BY <1>1, <1>2 DEF IInv, Base, Queues, AuthenticatePassword, redis, client

\* The check for multiple logins, of a first authentication or a second one.
LEMMA CheckKeeps ==
    ASSUME IInv, NEW n \in Sims, sim[n].shard \in up, admitting[sim[n].shard] = None,
           CheckMultipleLogins(n)
    PROVE  IInv'
<1>1. PICK s \in Shards : s = sim[n].shard /\ s \in up
  BY DEF IInv, Base
<1>2. /\ UNCHANGED <<up, sessions, store, switch, tokens, charList, mActivePlayers, mPending, main, pool, astray>>
      /\ open' \subseteq open
  BY DEF CheckMultipleLogins, redis
<1>3. CASE /\ AccountSessions(s) = {}
           /\ admitting' = [admitting EXCEPT ![s] = n]
           /\ raced' = (raced \/ \E t \in Shards : admitting[t] # None)
           /\ UNCHANGED <<sim, open>>
  <2>1. \A t \in Shards : sessions[t] = 0
    BY <1>3 DEF AccountSessions, IInv, Counted, Matched
  <2>2. Admissions'
    BY <1>1, <1>2, <1>3, NoneIsNothing DEF IInv, Admissions
  <2>3. raced' \in BOOLEAN /\ (~raced' => ~raced /\ \A t \in Shards : admitting[t] = None)
    BY <1>3
  <2>4. \A t \in Shards : t # s => admitting'[t] = admitting[t]
    BY <1>3 DEF IInv, Admissions
  <2>5. Matched'
    BY <1>2, <1>3, <2>1, <2>3 DEF IInv, Counted, Matched, On
  <2>6. ~raced' => Exclusive'
    BY <1>2, <1>3, <2>1, <2>3, <2>4 DEF IInv, Counted, Exclusive
  <2>7. Base' /\ Queues' /\ SimInv' /\ Copies'
    BY <1>2, <1>3 DEF IInv, Base, Queues, SimInv, Copies
  <2> QED BY <2>2, <2>5, <2>6, <2>7 DEF IInv, Counted
<1>4. CASE /\ sim' = [sim EXCEPT ![n].auth = "done"]
           /\ UNCHANGED <<admitting, raced>>
  <2>1. SimInv' /\ Copies'
    BY <1>2, <1>4 DEF IInv, SimInv, Copies, SimulatorThread
  <2>2. \A m \in Sims : sim'[m].shard = sim[m].shard /\ (sim'[m].acc <=> sim[m].acc)
    BY <1>4 DEF IInv, SimInv, SimulatorThread
  <2>3. Admissions'
    BY <1>2, <1>4, <2>2 DEF IInv, Admissions
  <2>4. Counted'
    BY <1>2, <1>4, <2>2, SameLogins DEF IInv
  <2>5. Base' /\ Queues'
    BY <1>2 DEF IInv, Base, Queues
  <2> QED BY <2>1, <2>3, <2>4, <2>5 DEF IInv
<1> QED BY <1>1, <1>3, <1>4 DEF CheckMultipleLogins

LEMMA CountSessionsKeeps ==
    ASSUME IInv, NEW n \in Sims, CountSessions(n) \/ Reauthenticate(n) PROVE IInv'
BY CheckKeeps DEF CountSessions, Reauthenticate, Free

\* pld is reset without a logout: a session that nobody has stays behind.
LEMMA SwitchAccountKeeps == ASSUME IInv, NEW n \in Sims, SwitchAccount(n) PROVE IInv'
<1>1. PICK s \in Shards : s = sim[n].shard /\ s \in up
  BY DEF IInv, Base, SwitchAccount, Free
<1>2. /\ UNCHANGED <<up, sessions, store, open, switch, tokens, charList, mActivePlayers, mPending, main, pool>>
      /\ UNCHANGED <<admitting, raced>> /\ astray' = astray \cup {s}
  BY <1>1 DEF SwitchAccount, redis, client
<1>3. DOMAIN sim' = Sims /\ \A m \in Sims \ {n} : sim'[m] = sim[m]
  BY DEF IInv, SimInv, SwitchAccount
<1>4. sim'[n] = [[[sim[n] EXCEPT !.acc = FALSE] EXCEPT !.char = "null"] EXCEPT !.def = FALSE]
      /\ sim[n] \in SimulatorThread
  BY DEF IInv, SimInv, SwitchAccount
<1>5. /\ sim'[n].shard = s /\ ~sim'[n].acc /\ ~sim'[n].def /\ sim'[n].char = "null"
      /\ sim'[n] \in SimulatorThread
  BY <1>1, <1>4 DEF SimulatorThread
<1>6. SimInv'
  <2>1. sim' \in [Sims -> SimulatorThread]
    BY <1>3, <1>5 DEF IInv, SimInv, SwitchAccount
  <2> QED BY <1>1, <1>2, <1>3, <1>5, <2>1 DEF IInv, SimInv
<1>7. Copies'
  BY <1>2, <1>3, <1>5 DEF IInv, Copies
<1>8. Admissions'
  BY <1>1, <1>2, <1>3, <1>5 DEF IInv, Admissions
<1>9. Matched'
  <2>1. \A m \in Sims, t \in up' \ astray' : On(m, t)' <=> On(m, t)
    BY <1>1, <1>2, <1>3, <1>5 DEF On
  <2>2. \A t \in up' \ astray' : t \in up \ astray /\ sessions'[t] = sessions[t]
    BY <1>2
  <2>3. \A t \in up' \ astray' :
          /\ \A m, k \in Sims : (On(m, t)' /\ On(k, t)') => m = k
          /\ \A k \in Sims : On(k, t)' => sessions'[t] = 1
          /\ sessions'[t] = 1 => \E k \in Sims : On(k, t)'
    BY <2>1, <2>2 DEF IInv, Counted, Matched
  <2>4. /\ sessions' \in [Shards -> {0, 1}] /\ raced' \in BOOLEAN /\ astray' \subseteq Shards
        /\ \A t \in Shards : admitting'[t] # None => sessions'[t] = 0
    BY <1>2 DEF IInv, Counted, Matched
  <2> QED BY <2>3, <2>4 DEF Matched
<1>10. ~raced' => Exclusive'
  BY <1>2, <1>3, <1>5 DEF IInv, Counted, Exclusive
<1>11. Base' /\ Queues'
  BY <1>2 DEF IInv, Base, Queues
<1> QED BY <1>6, <1>7, <1>8, <1>9, <1>10, <1>11 DEF IInv, Counted

LEMMA AdmitKeeps == ASSUME IInv, NEW n \in Sims, Admit(n) PROVE IInv'
<1>1. PICK s \in Shards : s = sim[n].shard /\ s \in up /\ admitting[s] = n
  BY DEF IInv, Base, Admit
<1>2. sim[n] \in SimulatorThread /\ n # None
  BY NoneIsNothing DEF IInv, SimInv
<1>3. up' = up /\ charList' = charList /\ raced' = raced /\ admitting' = [admitting EXCEPT ![s] = None]
  BY <1>1 DEF Admit
<1>4. DOMAIN sim' = Sims /\ \A m \in Sims \ {n} : sim'[m] = sim[m]
  BY DEF IInv, SimInv, Admit
<1>5. sim'[n] = [[[[sim[n] EXCEPT !.auth = "done"] EXCEPT !.acc = TRUE]
                       EXCEPT !.char = "null"] EXCEPT !.def = FALSE]
  BY DEF IInv, SimInv, Admit
<1>6. /\ sim'[n].shard = s /\ sim'[n].acc /\ ~sim'[n].def /\ sim'[n].char = "null"
      /\ sim'[n] \in SimulatorThread
  BY <1>1, <1>2, <1>5 DEF SimulatorThread
<1>7. SimInv'
  <2>1. sim' \in [Sims -> SimulatorThread]
    BY <1>4, <1>6 DEF IInv, SimInv, Admit
  <2> QED BY <1>1, <1>3, <1>4, <1>6, <2>1 DEF IInv, SimInv
<1>8. Copies'
  BY <1>3, <1>4, <1>6 DEF IInv, Copies
<1>9. Admissions'
  BY <1>1, <1>3, <1>4, <1>6 DEF IInv, Admissions
<1>10. sessions[s] = 0 /\ sessions \in [Shards -> {0, 1}]
  BY <1>1, <1>2 DEF IInv, Counted, Matched
<1>11. PICK same : /\ \A t \in same : t \in Shards /\ sessions[t] > 0
                   /\ sessions' = [t \in Shards |-> sessions[t] + (IF t = s THEN 1 ELSE 0)
                                                          - (IF t \in same THEN 1 ELSE 0)]
                   /\ astray' = astray \cup same
  BY <1>1 DEF Admit
<1>12. s \notin same
  BY <1>10, <1>11
<1>13. /\ sessions' \in [Shards -> {0, 1}] /\ sessions'[s] = 1
       /\ \A t \in Shards : t # s /\ t \notin same => sessions'[t] = sessions[t]
       /\ \A t \in same : sessions'[t] = 0
  <2>1. ASSUME NEW t \in Shards
        PROVE  /\ sessions'[t] \in {0, 1}
               /\ t = s => sessions'[t] = 1
               /\ t \in same => sessions'[t] = 0
               /\ (t # s /\ t \notin same) => sessions'[t] = sessions[t]
    <3>1. sessions'[t] = sessions[t] + (IF t = s THEN 1 ELSE 0) - (IF t \in same THEN 1 ELSE 0)
      BY <1>11
    <3>2. sessions[t] \in {0, 1} /\ (t = s => sessions[t] = 0) /\ (t \in same => sessions[t] = 1)
      BY <1>10, <1>11
    <3> QED BY <1>12, <3>1, <3>2
  <2>2. sessions' \in [Shards -> {0, 1}]
    BY <1>11, <2>1
  <2> QED BY <1>11, <2>1, <2>2
<1>14. Matched'
  <2>1. /\ raced' \in BOOLEAN /\ astray' \subseteq Shards
    BY <1>3, <1>11 DEF IInv, Counted, Matched
  <2>2. \A t \in Shards : admitting'[t] # None => sessions'[t] = 0
    BY <1>3, <1>13 DEF IInv, Counted, Matched, Admissions
  <2>3. ASSUME NEW t \in up' \ astray'
        PROVE  /\ \A m, k \in Sims : (On(m, t)' /\ On(k, t)') => m = k
               /\ \A k \in Sims : On(k, t)' => sessions'[t] = 1
               /\ sessions'[t] = 1 => \E k \in Sims : On(k, t)'
    <3>1. t \in up \ astray /\ t \notin same /\ t \in Shards
      BY <1>3, <1>11 DEF IInv, Base
    <3>2. CASE t = s
      <4>1. \A k \in Sims : ~On(k, s)
        BY <1>10, <3>1, <3>2 DEF IInv, Counted, Matched
      <4>2. \A k \in Sims \ {n} : ~On(k, s)'
        BY <1>4, <4>1 DEF On
      <4>3. On(n, s)'
        BY <1>6 DEF On
      <4> QED BY <1>13, <3>2, <4>2, <4>3
    <3>3. CASE t # s
      <4>1. \A k \in Sims : On(k, t)' <=> On(k, t)
        BY <1>1, <1>4, <1>6, <3>3 DEF On
      <4>2. sessions'[t] = sessions[t]
        BY <1>13, <3>1, <3>3
      <4> QED BY <3>1, <4>1, <4>2 DEF IInv, Counted, Matched
    <3> QED BY <3>2, <3>3
  <2> QED BY <1>13, <2>1, <2>2, <2>3 DEF Matched
<1>15. ~raced' => Exclusive'
  <2> SUFFICES ASSUME ~raced' PROVE Exclusive'
    OBVIOUS
  <2>1. Exclusive
    BY <1>3 DEF IInv, Counted
  <2>2. \A t \in Shards : sessions[t] = 0 /\ (t # s => admitting[t] = None)
    BY <1>1, <1>2, <2>1 DEF Exclusive
  <2>3. \A k \in Sims : ~sim[k].acc
    BY <2>1, <2>2 DEF Exclusive, IInv, SimInv, Base
  <2>4. \A k \in Sims \ {n} : ~sim'[k].acc
    BY <1>4, <2>3
  <2>5. \A t \in Shards : admitting'[t] = None
    BY <1>3, <2>2 DEF IInv, Admissions
  <2>6. \A t \in Shards : t # s => sessions'[t] = 0
    BY <1>11, <1>13, <2>2
  <2> QED BY <1>6, <1>13, <2>4, <2>5, <2>6 DEF Exclusive
<1>16. Base' /\ Queues'
  BY DEF IInv, Base, Queues, Admit, client
<1> QED BY <1>7, <1>8, <1>9, <1>14, <1>15, <1>16 DEF IInv, Counted

LEMMA SetPersonaKeeps == ASSUME IInv, NEW n \in Sims, SetPersona(n) PROVE IInv'
<1>1. PICK s \in Shards : s = sim[n].shard /\ s \in up
  BY DEF IInv, SimInv, Base, SetPersona
<1>2. CASE UNCHANGED <<sim, charList, mActivePlayers, pool>>
  <2>1. Counted'
    BY <1>2, SameLogins DEF IInv, SetPersona, redis, history, Admissions
  <2> QED BY <1>2, <2>1 DEF IInv, Base, Queues, SimInv, Copies, Admissions, SetPersona, redis
<1>3. CASE /\ charList' = [charList EXCEPT ![s] = RequestCharacter(s)]
           /\ sim' = [sim EXCEPT ![n].char = "loaded", ![n].def = TRUE, ![n].game = TRUE]
           /\ mActivePlayers' = [mActivePlayers EXCEPT ![s] = s]
           /\ pool' = Publish(s, "joined")
           /\ UNCHANGED open
  <2>1. DOMAIN sim' = Sims /\ \A m \in Sims \ {n} : sim'[m] = sim[m]
    BY <1>3 DEF IInv, SimInv
  <2>2. sim'[n] = [[[sim[n] EXCEPT !.char = "loaded"] EXCEPT !.def = TRUE] EXCEPT !.game = TRUE]
        /\ sim[n] \in SimulatorThread
    BY <1>3 DEF IInv, SimInv
  <2>3. /\ sim'[n].shard = s /\ (sim'[n].acc <=> sim[n].acc) /\ sim'[n].auth = sim[n].auth
        /\ sim'[n] \in SimulatorThread
    BY <1>1, <2>2 DEF SimulatorThread
  <2>4. SimInv'
    <3>1. sim' \in [Sims -> SimulatorThread]
      BY <1>3, <2>1, <2>3 DEF IInv, SimInv
    <3> QED BY <1>1, <2>1, <2>3, <3>1 DEF IInv, SimInv, SetPersona
  <2>5. RequestCharacter(s) \in 0..MaxChanges
    BY DEF IInv, Base, Copies, RequestCharacter
  <2>6. /\ charList' \in [Shards -> {Unloaded} \cup 0..MaxChanges]
        /\ \A t \in Shards : charList[t] # Unloaded => charList'[t] # Unloaded
        /\ charList'[s] # Unloaded
    BY <1>3, <2>5 DEF IInv, Copies, Unloaded
  <2>7. Copies'
    <3> SUFFICES ASSUME NEW m \in Sims, sim'[m].char = "loaded"
                 PROVE  charList'[sim'[m].shard] # Unloaded
      BY <2>6 DEF Copies
    <3>1. CASE m = n
      <4>1. sim'[m].shard = s
        BY <2>3, <3>1
      <4> QED BY <2>6, <4>1
    <3>2. CASE m # n
      <4>1. sim[m].char = "loaded" /\ sim'[m].shard = sim[m].shard
        BY <2>1, <3>2
      <4>2. sim[m].shard \in Shards
        BY <4>1 DEF IInv, SimInv, Base
      <4> QED BY <2>6, <4>1, <4>2 DEF IInv, Copies
    <3> QED BY <3>1, <3>2
  <2>8. Admissions'
    BY <1>1, <2>1, <2>3 DEF IInv, Admissions, SetPersona
  <2>9. Counted'
    BY <1>1, <2>1, <2>3, SameLogins DEF IInv, SetPersona, redis, history, Admissions
  <2>10. Queues'
    BY <1>3, Published DEF IInv, Queues, SetPersona
  <2>11. Base'
    BY <1>3 DEF IInv, Base, SetPersona, redis
  <2> QED BY <2>4, <2>7, <2>8, <2>9, <2>10, <2>11 DEF IInv
<1> QED BY <1>1, <1>2, <1>3 DEF SetPersona

LEMMA ChangeKeeps == ASSUME IInv, NEW n \in Sims, Change(n) PROVE IInv'
<1>1. PICK s \in Shards : s = sim[n].shard /\ s \in up
  BY DEF IInv, SimInv, Base, Change
<1>2. charList[s] \in 0..MaxChanges /\ charList[s] < MaxChanges
  BY <1>1 DEF IInv, Copies, Change, Unloaded
<1>3. Copies'
  <2>1. charList' = [charList EXCEPT ![s] = charList[s] + 1] /\ sim' = sim
    BY <1>1 DEF IInv, Copies, Change
  <2>2. charList' \in [Shards -> {Unloaded} \cup 0..MaxChanges]
    BY <1>2, <2>1, SessionAssumption DEF IInv, Copies
  <2>3. \A t \in Shards : charList[t] # Unloaded => charList'[t] # Unloaded
    BY <1>2, <2>1 DEF IInv, Copies, Unloaded
  <2>4. \A m \in Sims : sim[m].char = "loaded" => sim[m].shard \in Shards
    BY DEF IInv, SimInv, Base
  <2> QED BY <2>1, <2>2, <2>3, <2>4 DEF IInv, Copies
<1>4. Counted'
  BY SameLogins DEF IInv, Change, redis, history, Admissions
<1> QED BY <1>3, <1>4 DEF IInv, Base, Queues, SimInv, Admissions, Change, redis, client

LEMMA SubmitType ==
    ASSUME Queues, NEW s \in Shards, NEW task \in Tasks
    PROVE  Submit(s, task) \in [Shards -> Seq(Tasks)]
<1>1. main[s] \in Seq(Tasks) /\ Append(main[s], task) \in Seq(Tasks)
  BY DEF Queues
<1>2. Submit(s, task) = [main EXCEPT ![s] = IF s \in up THEN Append(main[s], task) ELSE main[s]]
  BY DEF Submit, Queues
<1> QED BY <1>1, <1>2 DEF Queues

LEMMA ShardSetKeeps == ASSUME IInv, NEW n \in Sims, NEW t \in Shards, ShardSet(n, t) PROVE IInv'
<1>1. PICK s \in Shards : s = sim[n].shard /\ s \in up
  BY DEF IInv, SimInv, Base, ShardSet
<1>2. tokens + 1 \in Tokens /\ tokens' \in 0..MaxTransfers
  BY SessionAssumption DEF IInv, Base, ShardSet, Tokens
<1>3. [type |-> "transfer", token |-> tokens + 1, from |-> s, sim |-> n] \in Tasks
  BY <1>2 DEF Tasks
<1>4. Queues'
  BY <1>1, <1>3, SubmitType DEF IInv, Queues, ShardSet
<1>5. store' \in 0..MaxChanges
  BY <1>1 DEF IInv, Base, Copies, ShardSet, Saved
<1>6. Counted'
  BY SameLogins DEF IInv, ShardSet, history, Admissions
<1> QED BY <1>2, <1>4, <1>5, <1>6 DEF IInv, Base, SimInv, Copies, Admissions, ShardSet, client

\* The simulators of s after its copy of the character was unloaded.
LEMMA DanglingType ==
    ASSUME SimInv, NEW s \in Shards
    PROVE  Dangling(s) \in [Sims -> SimulatorThread]
<1>1. \A m \in Sims : sim[m] \in SimulatorThread
  BY DEF SimInv
<1>2. \A m \in Sims : [sim[m] EXCEPT !.char = "dangling"] \in SimulatorThread
  BY <1>1 DEF SimulatorThread
<1> QED BY <1>1, <1>2 DEF Dangling

LEMMA DanglingSims ==
    ASSUME SimInv, NEW s \in Shards, NEW n \in Sims
    PROVE  /\ Dangling(s)[n].shard = sim[n].shard /\ (Dangling(s)[n].acc <=> sim[n].acc)
           /\ Dangling(s)[n].auth = sim[n].auth /\ (Dangling(s)[n].def <=> sim[n].def)
           /\ Dangling(s)[n].char = "null" <=> sim[n].char = "null"
           /\ Dangling(s)[n].char = "loaded" => sim[n].char = "loaded" /\ sim[n].shard # s
<1>1. sim[n] \in SimulatorThread
  BY DEF SimInv
<1>2. Dangling(s)[n] = IF sim[n].shard = s /\ sim[n].char = "loaded"
                       THEN [sim[n] EXCEPT !.char = "dangling"] ELSE sim[n]
  BY DEF Dangling
<1> QED BY <1>1, <1>2 DEF SimulatorThread

\* What is left of the tasks of s when its main thread has taken the first.
LEMMA TaskTaken ==
    ASSUME Queues, NEW s \in Shards, main[s] # <<>>
    PROVE  /\ Head(main[s]) \in Tasks
           /\ [main EXCEPT ![s] = Tail(@)] \in [Shards -> Seq(Tasks)]
BY DEF Queues

LEMMA TransferKeeps == ASSUME IInv, NEW s \in Shards, TransferFromOtherShard(s) PROVE IInv'
<1> DEFINE m == Head(main[s])
           rest == [main EXCEPT ![s] = Tail(@)]
           confirm == [type |-> "confirm", token |-> m.token, from |-> s, sim |-> m.sim]
<1>1. m \in Tasks /\ m.type = "transfer" /\ rest \in [Shards -> Seq(Tasks)]
  BY TaskTaken DEF IInv, TransferFromOtherShard, Task
<1>2. m.token \in Tokens /\ m.from \in Shards /\ m.sim \in Sims
  BY <1>1, TaskFields
<1>3. Queues'
  <2>1. confirm \in Tasks
    BY <1>2 DEF Tasks
  <2>2. main' = [rest EXCEPT ![m.from] = IF m.from \in up THEN Append(@, confirm) ELSE @]
        /\ pool' = pool
    BY DEF TransferFromOtherShard
  <2> HIDE DEF m, rest, confirm
  <2>3. Append(rest[m.from], confirm) \in Seq(Tasks)
    BY <1>1, <1>2, <2>1
  <2>4. main' \in [Shards -> Seq(Tasks)]
    BY <1>1, <1>2, <2>2, <2>3
  <2> QED BY <2>2, <2>4 DEF IInv, Queues
<1>4. [token |-> m.token, from |-> m.from] \in PendingShardPlayer
  BY <1>2 DEF PendingShardPlayer
<1> HIDE DEF m
<1>5. mPending' = [mPending EXCEPT ![s] = @ \cup {[token |-> m.token, from |-> m.from]}]
      /\ charList' = [charList EXCEPT ![s] = store] /\ sim' = Dangling(s)
      /\ UNCHANGED <<up, sessions, store, open, switch, tokens, mActivePlayers, admitting, raced, astray>>
  BY DEF TransferFromOtherShard, m, redis, client, history
<1>6. Base'
  BY <1>4, <1>5 DEF IInv, Base
<1>7. SimInv'
  <2>1. sim' \in [Sims -> SimulatorThread]
    BY <1>5, DanglingType DEF IInv
  <2> QED BY <1>5, <2>1, DanglingSims DEF IInv, SimInv
<1>8. Copies'
  <2>1. charList' \in [Shards -> {Unloaded} \cup 0..MaxChanges]
    BY <1>5 DEF IInv, Copies, Base
  <2>2. \A n \in Sims : sim'[n].char = "loaded" =>
           sim[n].char = "loaded" /\ sim'[n].shard = sim[n].shard /\ sim[n].shard # s
    BY <1>5, DanglingSims DEF IInv
  <2>3. \A t \in Shards \ {s} : charList'[t] = charList[t]
    BY <1>5 DEF IInv, Copies
  <2>4. \A n \in Sims : sim[n].char = "loaded" => sim[n].shard \in Shards
    BY DEF IInv, SimInv, Base
  <2> QED BY <2>1, <2>2, <2>3, <2>4 DEF IInv, Copies
<1>9. Admissions'
  BY <1>5, DanglingSims, NoneIsNothing DEF IInv, Admissions
<1>10. Counted'
  BY <1>5, DanglingSims, SameLogins DEF IInv, history, Admissions
<1> QED BY <1>3, <1>6, <1>7, <1>8, <1>9, <1>10 DEF IInv

LEMMA UnloadKeeps == ASSUME IInv, NEW s \in Shards, UnloadCharacter(s) PROVE IInv'
<1>1. Queues'
  BY TaskTaken DEF IInv, Queues, UnloadCharacter, Task
<1>2. /\ charList' = [charList EXCEPT ![s] = Unloaded] /\ sim' = Dangling(s)
      /\ UNCHANGED <<up, sessions, store, open, switch, tokens, mActivePlayers, mPending, admitting, raced, astray>>
  BY DEF UnloadCharacter, redis, client, history
<1>3. SimInv'
  <2>1. sim' \in [Sims -> SimulatorThread]
    BY <1>2, DanglingType DEF IInv
  <2> QED BY <1>2, <2>1, DanglingSims DEF IInv, SimInv
<1>4. Copies'
  <2>1. charList' \in [Shards -> {Unloaded} \cup 0..MaxChanges]
    BY <1>2 DEF IInv, Copies
  <2>2. \A n \in Sims : sim'[n].char = "loaded" =>
           sim[n].char = "loaded" /\ sim'[n].shard = sim[n].shard /\ sim[n].shard # s
    BY <1>2, DanglingSims DEF IInv
  <2>3. \A t \in Shards \ {s} : charList'[t] = charList[t]
    BY <1>2 DEF IInv, Copies
  <2>4. \A n \in Sims : sim[n].char = "loaded" => sim[n].shard \in Shards
    BY DEF IInv, SimInv, Base
  <2> QED BY <2>1, <2>2, <2>3, <2>4 DEF IInv, Copies
<1>5. Admissions'
  BY <1>2, DanglingSims, NoneIsNothing DEF IInv, Admissions
<1>6. Counted'
  BY <1>2, DanglingSims, SameLogins DEF IInv, history, Admissions
<1> QED BY <1>1, <1>2, <1>3, <1>4, <1>5, <1>6 DEF IInv, Base

\* The steps that end with ProcessDetach of n, a simulator of the running
\* shard s or of none: the types of what it leaves, and the sessions.
LEMMA DetachKeeps ==
    ASSUME IInv, NEW n \in Sims, ProcessDetach(n), sim[n].shard \in Shards,
           UNCHANGED <<up, charList, admitting, tokens, mPending, raced, astray>>,
           main' \in [Shards -> Seq(Tasks)], open' \subseteq open,
           switch' \subseteq [shard : Shards, token : Tokens]
    PROVE  IInv'
<1>1. PICK s \in Shards : s = sim[n].shard
  OBVIOUS
<1>2. DOMAIN sim' = Sims /\ \A m \in Sims \ {n} : sim'[m] = sim[m]
  BY DEF IInv, SimInv, ProcessDetach
<1>3. sim'[n] = [[sim[n] EXCEPT !.char = "null"] EXCEPT !.acc = FALSE] /\ sim[n] \in SimulatorThread
  BY DEF IInv, SimInv, ProcessDetach
<1>4. /\ sim'[n].shard = s /\ ~sim'[n].acc /\ sim'[n].auth = sim[n].auth
      /\ (sim'[n].def <=> sim[n].def) /\ sim'[n].char = "null" /\ sim'[n] \in SimulatorThread
  BY <1>1, <1>3 DEF SimulatorThread
<1>5. SimInv'
  <2>1. sim' \in [Sims -> SimulatorThread]
    BY <1>2, <1>4 DEF IInv, SimInv, ProcessDetach
  <2>2. s \in up \cup {None} /\ (sim[n].def => s \in up)
    BY <1>1 DEF IInv, SimInv
  <2> QED BY <1>2, <1>4, <2>1, <2>2 DEF IInv, SimInv
<1>6. Copies'
  BY <1>2, <1>4 DEF IInv, Copies
<1>7. Admissions'
  BY <1>1, <1>2, <1>4 DEF IInv, Admissions
<1>8. Counted'
  <2>1. CASE ~sim[n].acc
    <3>1. sessions' = sessions
      BY <2>1 DEF ProcessDetach
    <3> QED BY <1>2, <1>4, <2>1, <3>1, SameLogins DEF IInv, history, Admissions
  <2>2. CASE sim[n].acc
    <3>1. sessions' = [sessions EXCEPT ![s] = 0] /\ sessions \in [Shards -> {0, 1}]
      <4>1. sessions \in [Shards -> {0, 1}] /\ sessions[s] \in {0, 1}
        BY DEF IInv, Counted, Matched
      <4>2. sessions' = IF sessions[s] > 0 THEN [sessions EXCEPT ![s] = sessions[s] - 1] ELSE sessions
        BY <1>1, <2>2, <4>1 DEF ProcessDetach
      <4>3. CASE sessions[s] = 0
        BY <4>1, <4>2, <4>3
      <4>4. CASE sessions[s] = 1
        BY <4>1, <4>2, <4>4
      <4> QED BY <4>1, <4>3, <4>4
    <3>2. sessions' \in [Shards -> {0, 1}] /\ sessions'[s] = 0 /\ \A t \in Shards \ {s} : sessions'[t] = sessions[t]
      BY <3>1
    <3>3. On(n, s)
      BY <1>1, <2>2 DEF On
    <3>4. ASSUME NEW t \in up' \ astray'
          PROVE  /\ \A m, k \in Sims : (On(m, t)' /\ On(k, t)') => m = k
                 /\ \A k \in Sims : On(k, t)' => sessions'[t] = 1
                 /\ sessions'[t] = 1 => \E k \in Sims : On(k, t)'
      <4>1. t \in up \ astray /\ t \in Shards
        BY DEF IInv, Base
      <4>2. CASE t = s
        <5>1. \A k \in Sims \ {n} : ~On(k, s)
          BY <3>3, <4>1, <4>2 DEF IInv, Counted, Matched
        <5>2. \A k \in Sims : ~On(k, s)'
          BY <1>2, <1>4, <5>1 DEF On
        <5> QED BY <3>2, <4>2, <5>2
      <4>3. CASE t # s
        <5>1. \A k \in Sims : On(k, t)' <=> On(k, t)
          BY <1>1, <1>2, <1>4, <4>3 DEF On
        <5> QED BY <3>2, <4>1, <4>3, <5>1 DEF IInv, Counted, Matched
      <4> QED BY <4>2, <4>3
    <3>5. Matched'
      BY <3>2, <3>4 DEF IInv, Counted, Matched
    <3>6. ~raced' => Exclusive'
      <4> SUFFICES ASSUME ~raced' PROVE Exclusive'
        OBVIOUS
      <4>1. Exclusive
        BY DEF IInv, Counted
      <4>2. \A k \in Sims : ~sim'[k].acc
        BY <1>2, <1>4, <2>2, <4>1 DEF Exclusive
      <4>3. \A t \in Shards : sessions'[t] = 1 => sessions[t] = 1
        BY <3>2
      <4>4. \A t \in Shards : sessions[t] = 0 => sessions'[t] = 0
        BY <3>2
      <4> QED BY <4>1, <4>2, <4>3, <4>4 DEF Exclusive
    <3> QED BY <3>5, <3>6 DEF Counted
  <2> QED BY <2>1, <2>2
<1>9. Queues'
  <2>1. CASE pool' = Publish(s, "left")
    BY <2>1, Published DEF IInv
  <2>2. CASE pool' = pool
    BY <2>2 DEF IInv, Queues
  <2> QED BY <1>1, <2>1, <2>2 DEF ProcessDetach
<1>10. store' \in 0..MaxChanges
  BY <1>1 DEF IInv, Base, Copies, ProcessDetach, Saved
<1>11. mActivePlayers' \in [Shards -> Shards \cup {None}]
  BY <1>1 DEF IInv, Base, ProcessDetach
<1>12. Base'
  BY <1>10, <1>11 DEF IInv, Base
<1> QED BY <1>5, <1>6, <1>7, <1>8, <1>9, <1>12 DEF IInv

\* A process that ends takes its simulators, its copies and its queues along.
LEMMA DieKeeps ==
    ASSUME IInv, NEW s \in Shards, Die(s), UNCHANGED <<tokens, history>> PROVE IInv'
<1>1. DOMAIN sim' = Sims /\ \A n \in Sims : sim'[n] = IF sim[n].shard = s THEN Gone ELSE sim[n]
  BY DEF Die
<1>2. sim' \in [Sims -> SimulatorThread]
  BY <1>1, GoneType DEF IInv, SimInv, Die
<1>3. SimInv'
  BY <1>1, <1>2, GoneType DEF IInv, SimInv, Die
<1>4. Copies'
  <2>1. charList' \in [Shards -> {Unloaded} \cup 0..MaxChanges]
        /\ \A t \in Shards \ {s} : charList'[t] = charList[t]
    BY DEF IInv, Copies, Die
  <2>2. \A n \in Sims : sim'[n].char = "loaded" =>
           sim[n].char = "loaded" /\ sim'[n].shard = sim[n].shard /\ sim[n].shard # s
    BY <1>1, GoneType
  <2>3. \A n \in Sims : sim[n].char = "loaded" => sim[n].shard \in Shards
    BY DEF IInv, SimInv, Base
  <2> QED BY <2>1, <2>2, <2>3 DEF IInv, Copies
<1>5. Admissions'
  <2>1. admitting' \in [Shards -> Sims \cup {None}] /\ admitting'[s] = None
        /\ \A t \in Shards \ {s} : admitting'[t] = admitting[t]
    BY DEF IInv, Admissions, Die
  <2>2. ASSUME NEW t \in Shards, admitting'[t] # None
        PROVE  t \in up' /\ sim'[admitting'[t]].shard = t
    <3>1. t # s /\ admitting'[t] = admitting[t] /\ admitting[t] \in Sims
      BY <2>1, <2>2 DEF IInv, Admissions
    <3>2. t \in up /\ sim[admitting[t]].shard = t
      BY <2>2, <3>1 DEF IInv, Admissions
    <3> QED BY <1>1, <3>1, <3>2 DEF Die
  <2> QED BY <2>1, <2>2 DEF Admissions
<1>6. Counted'
  <2>1. \A n \in Sims : sim'[n].acc => sim[n].acc /\ sim'[n].shard = sim[n].shard
    BY <1>1, GoneType
  <2>2. \A n \in Sims : (sim[n].acc /\ sim[n].shard \in up') => sim'[n].acc /\ sim'[n].shard = sim[n].shard
    BY <1>1 DEF Die
  <2>3. \A t \in Shards : admitting'[t] # None => admitting[t] # None
    BY DEF Die, IInv, Admissions
  <2>4. up' \subseteq up /\ UNCHANGED <<sessions, raced, astray>>
    BY DEF Die, redis, history
  <2> QED BY <2>1, <2>2, <2>3, <2>4, SameLogins DEF IInv
<1>7. Queues'
  BY DEF IInv, Queues, Die, EmptyBag, SetToBag, BagToSet
<1>8. Base'
  BY DEF IInv, Base, Die, redis
<1> QED BY <1>3, <1>4, <1>5, <1>6, <1>7, <1>8 DEF IInv

LEMMA ConfirmKeeps == ASSUME IInv, NEW s \in Shards, ConfirmTransferToOtherShard(s) PROVE IInv'
<1> DEFINE m == Head(main[s])
           n == m.sim
<1>1. m \in Tasks /\ m.type = "confirm" /\ [main EXCEPT ![s] = Tail(@)] \in [Shards -> Seq(Tasks)]
  BY TaskTaken DEF IInv, ConfirmTransferToOtherShard, Task
<1>2. m.token \in Tokens /\ m.from \in Shards /\ n \in Sims
  BY <1>1, TaskFields
<1>3. [shard |-> m.from, token |-> m.token] \in [shard : Shards, token : Tokens]
  BY <1>2
<1>7. UNCHANGED <<tokens, raced, astray>>
  BY DEF ConfirmTransferToOtherShard, history
<1>4. CASE /\ main' = [main EXCEPT ![s] = Tail(@)]
           /\ UNCHANGED <<up, redis, sim, client, charList, mActivePlayers, mPending, pool, admitting>>
  <2>1. Counted'
    BY <1>4, <1>7, SameLogins DEF IInv, redis, history, Admissions
  <2>2. Queues'
    BY <1>1, <1>4 DEF IInv, Queues
  <2>3. tokens' = tokens
    BY DEF ConfirmTransferToOtherShard
  <2> QED BY <1>4, <2>1, <2>2, <2>3 DEF IInv, Base, SimInv, Copies, Admissions, redis, client
<1>5. CASE Die(s)
  BY <1>5, <1>7, DieKeeps DEF history
<1>6. CASE /\ sim[n].shard = s
           /\ main' = [main EXCEPT ![s] = Tail(@)]
           /\ switch' = IF n \in open THEN switch \cup {[shard |-> m.from, token |-> m.token]}
                        ELSE switch
           /\ open' = open \ {n}
           /\ ProcessDetach(n)
           /\ UNCHANGED <<up, charList, mPending, admitting>>
  <2> HIDE DEF n, m
  <2>1. switch' \subseteq [shard : Shards, token : Tokens]
    BY <1>3, <1>6 DEF IInv, Base
  <2>2. main' \in [Shards -> Seq(Tasks)] /\ open' \subseteq open /\ tokens' = tokens
    BY <1>1, <1>6 DEF ConfirmTransferToOtherShard
  <2>3. UNCHANGED <<up, charList, admitting, tokens, mPending, raced, astray>>
    BY <1>6, <1>7
  <2> QED BY <1>2, <1>6, <2>1, <2>2, <2>3, DetachKeeps
<1> QED BY <1>4, <1>5, <1>6 DEF ConfirmTransferToOtherShard

LEMMA DisconnectKeeps == ASSUME IInv, NEW s \in Shards, ProcessDisconnect(s) PROVE IInv'
<1>1. PICK n \in Sims : n = Head(main[s]).sim
  BY TaskTaken, TaskFields DEF IInv, ProcessDisconnect, Task
<1>2. main' \in [Shards -> Seq(Tasks)]
  BY TaskTaken DEF IInv, ProcessDisconnect, Task
<1>3. /\ ProcessDetach(n) /\ UNCHANGED <<up, charList, admitting, tokens, mPending, raced, astray>>
      /\ open' = open /\ switch' = switch
  BY <1>1 DEF ProcessDisconnect, client, history
<1>4. open' \subseteq open /\ switch' \subseteq [shard : Shards, token : Tokens]
  BY <1>3 DEF IInv, Base
<1>5. CASE sim[n].shard \in Shards
  BY <1>2, <1>3, <1>4, <1>5, DetachKeeps
<1>6. CASE sim[n].shard \notin Shards
  <2>1. ~sim[n].acc /\ ~sim[n].def /\ sim[n].char = "null" /\ sim[n] \in SimulatorThread
    BY <1>6 DEF IInv, SimInv, Base
  <2>2. store' = store /\ mActivePlayers' = mActivePlayers /\ pool' = pool /\ sessions' = sessions
    BY <1>3, <2>1 DEF ProcessDetach
  <2>3. sim' = sim
    <3>1. [[sim[n] EXCEPT !.char = "null"] EXCEPT !.acc = FALSE] = sim[n]
      BY <2>1 DEF SimulatorThread
    <3>2. sim' = [sim EXCEPT ![n] = [[sim[n] EXCEPT !.char = "null"] EXCEPT !.acc = FALSE]]
      BY <1>3 DEF ProcessDetach, IInv, SimInv
    <3> QED BY <3>1, <3>2 DEF IInv, SimInv
  <2>4. Counted'
    BY <1>3, <2>2, <2>3, SameLogins DEF IInv, history, Admissions
  <2>5. Queues'
    BY <1>2, <2>2 DEF IInv, Queues
  <2> QED BY <1>3, <2>2, <2>3, <2>4, <2>5 DEF IInv, Base, SimInv, Copies, Admissions
<1> QED BY <1>5, <1>6

LEMMA ThreadEndsKeeps == ASSUME IInv, NEW n \in Sims, ThreadEnds(n) PROVE IInv'
<1>1. PICK s \in Shards : s = sim[n].shard /\ s \in up
  BY DEF IInv, Base, ThreadEnds
<1>2. [type |-> "disconnect", sim |-> n] \in Tasks
  BY DEF Tasks
<1>3. Queues'
  BY <1>1, <1>2, SubmitType DEF IInv, Queues, ThreadEnds
<1>4. DOMAIN sim' = Sims /\ \A m \in Sims \ {n} : sim'[m] = sim[m]
  BY DEF IInv, SimInv, ThreadEnds
<1>5. sim'[n] = [sim[n] EXCEPT !.ended = TRUE] /\ sim[n] \in SimulatorThread
  BY DEF IInv, SimInv, ThreadEnds
<1>6. /\ sim'[n].shard = sim[n].shard /\ sim'[n].auth = sim[n].auth /\ sim'[n].char = sim[n].char
      /\ (sim'[n].acc <=> sim[n].acc) /\ (sim'[n].def <=> sim[n].def) /\ sim'[n] \in SimulatorThread
  BY <1>5 DEF SimulatorThread
<1>7. SimInv'
  <2>1. sim' \in [Sims -> SimulatorThread]
    BY <1>4, <1>6 DEF IInv, SimInv, ThreadEnds
  <2> QED BY <1>4, <1>6, <2>1 DEF IInv, SimInv, ThreadEnds
<1>8. Copies'
  BY <1>4, <1>6 DEF IInv, Copies, ThreadEnds
<1>9. Admissions'
  BY <1>4, <1>6 DEF IInv, Admissions, ThreadEnds
<1>10. Counted'
  BY <1>4, <1>6, SameLogins DEF IInv, ThreadEnds, redis, history, Admissions
<1>11. Base'
  BY DEF IInv, Base, ThreadEnds, redis, client
<1> QED BY <1>3, <1>7, <1>8, <1>9, <1>10, <1>11 DEF IInv

\* What LeftOtherShard leaves behind.
LEMMA LeftTypes ==
    ASSUME Base, Queues, NEW s \in Shards, LeftOtherShard(s)
    PROVE  main' \in [Shards -> Seq(Tasks)] /\ mActivePlayers' \in [Shards -> Shards \cup {None}]
<1>1. [type |-> "unload"] \in Tasks
  BY DEF Tasks
<1>2. Submit(s, [type |-> "unload"]) \in [Shards -> Seq(Tasks)]
  BY <1>1, SubmitType
<1> QED BY <1>2 DEF LeftOtherShard, Base, Queues

LEMMA PoolTaskKeeps == ASSUME IInv, NEW s \in Shards, PoolTask(s) PROVE IInv'
<1>1. PICK m \in BagToSet(pool[s]) :
          /\ pool' = [pool EXCEPT ![s] = @ (-) SetToBag({m})]
          /\ \/ /\ m.type = "joined"
                /\ charList' = [charList EXCEPT ![s] = RequestCharacter(s)]
                /\ mActivePlayers' = [mActivePlayers EXCEPT ![s] = m.from]
                /\ UNCHANGED main
             \/ m.type = "left" /\ LeftOtherShard(s) /\ UNCHANGED charList
  BY DEF PoolTask
<1>2. m \in PlayerMessages /\ m.from \in Shards
  BY DEF IInv, Queues, PlayerMessages
<1>3. main' \in [Shards -> Seq(Tasks)] /\ mActivePlayers' \in [Shards -> Shards \cup {None}]
  <2>1. CASE LeftOtherShard(s)
    BY <2>1, LeftTypes DEF IInv
  <2>2. CASE mActivePlayers' = [mActivePlayers EXCEPT ![s] = m.from] /\ UNCHANGED main
    BY <1>2, <2>2 DEF IInv, Base, Queues
  <2> QED BY <1>1, <2>1, <2>2
<1>4. Queues'
  <2>1. DOMAIN pool' = Shards /\ \A t \in Shards \ {s} : pool'[t] = pool[t]
    BY <1>1 DEF IInv, Queues
  <2>2. pool'[s] = pool[s] (-) SetToBag({m})
    BY <1>1 DEF IInv, Queues
  <2>3. BagToSet(pool'[s]) \subseteq BagToSet(pool[s])
    BY <2>2 DEF BagToSet, (-), SetToBag
  <2> QED BY <1>3, <2>1, <2>3 DEF IInv, Queues
<1>5. RequestCharacter(s) \in 0..MaxChanges
  BY DEF IInv, Base, Copies, RequestCharacter
<1>6. /\ charList' \in [Shards -> {Unloaded} \cup 0..MaxChanges]
      /\ \A t \in Shards : charList[t] # Unloaded => charList'[t] # Unloaded
  BY <1>1, <1>5 DEF IInv, Copies, Unloaded
<1>7. Copies'
  <2>1. \A n \in Sims : sim[n].char = "loaded" => sim[n].shard \in Shards
    BY DEF IInv, SimInv, Base
  <2> QED BY <1>6, <2>1 DEF IInv, Copies, PoolTask
<1>8. Counted'
  BY SameLogins DEF IInv, PoolTask, redis, history, Admissions
<1> QED BY <1>3, <1>4, <1>7, <1>8 DEF IInv, Base, SimInv, Admissions, PoolTask, redis, client

LEMMA ShardRemovedKeeps ==
    ASSUME IInv, NEW s \in Shards, NEW t \in Shards, ShardRemoved(s, t) PROVE IInv'
<1>1. main' \in [Shards -> Seq(Tasks)] /\ mActivePlayers' \in [Shards -> Shards \cup {None}]
  BY LeftTypes DEF IInv, ShardRemoved
<1>2. Counted'
  BY SameLogins DEF IInv, ShardRemoved, redis, history, Admissions
<1> QED BY <1>1, <1>2 DEF IInv, Base, Queues, SimInv, Copies, Admissions, ShardRemoved, redis, client

\* No simulator is on a shard that does not run: its sessions are all old.
LEMMA PostInitKeeps == ASSUME IInv, NEW s \in Shards, PostInit(s) PROVE IInv'
<1>1. /\ sessions' = [sessions EXCEPT ![s] = 0] /\ up' = up \cup {s} /\ s \notin up /\ up \subseteq Shards
      /\ astray' = astray \ {s} /\ sim' = sim /\ admitting' = admitting /\ raced' = raced
  BY DEF IInv, Base, PostInit
<1>2. \A n \in Sims : ~On(n, s)
  BY <1>1 DEF IInv, SimInv, On
<1>3. \A n \in Sims, t \in Shards : On(n, t)' <=> On(n, t)
  BY <1>1 DEF On
<1>4. sessions \in [Shards -> {0, 1}] /\ sessions' \in [Shards -> {0, 1}] /\ sessions'[s] = 0
      /\ \A t \in Shards \ {s} : sessions'[t] = sessions[t]
  <2>1. sessions \in [Shards -> {0, 1}]
    BY DEF IInv, Counted, Matched
  <2> QED BY <1>1, <2>1
<1>5. Matched'
  <2>1. raced' \in BOOLEAN /\ astray' \subseteq Shards
    BY <1>1 DEF IInv, Counted, Matched
  <2>2. \A t \in Shards : admitting'[t] # None => sessions'[t] = 0
    BY <1>1, <1>4 DEF IInv, Counted, Matched
  <2>3. ASSUME NEW t \in up' \ astray'
        PROVE  /\ \A m, k \in Sims : (On(m, t)' /\ On(k, t)') => m = k
               /\ \A k \in Sims : On(k, t)' => sessions'[t] = 1
               /\ sessions'[t] = 1 => \E k \in Sims : On(k, t)'
    <3>1. CASE t = s
      BY <1>2, <1>3, <1>4, <3>1
    <3>2. CASE t # s
      <4>1. t \in up \ astray /\ t \in Shards /\ sessions'[t] = sessions[t]
        BY <1>1, <1>4, <3>2
      <4> QED BY <1>3, <4>1 DEF IInv, Counted, Matched
    <3> QED BY <3>1, <3>2
  <2> QED BY <1>4, <2>1, <2>2, <2>3 DEF Matched
<1>6. ~raced' => Exclusive'
  <2>1. \A n \in Sims : sim[n].acc => sim[n].shard \in Shards \ {s}
    BY <1>1 DEF IInv, SimInv
  <2>2. \A t \in Shards : (sessions'[t] = 1 => sessions[t] = 1) /\ (sessions[t] = 0 => sessions'[t] = 0)
    BY <1>4
  <2> QED BY <1>1, <1>4, <2>1, <2>2 DEF IInv, Counted, Exclusive
<1> QED BY <1>5, <1>6 DEF IInv, Counted, Base, Queues, SimInv, Copies, Admissions, PostInit, client

LEMMA InvKept == IInv /\ [Next]_vars => IInv'
<1> SUFFICES ASSUME IInv, [Next]_vars PROVE IInv'
  OBVIOUS
<1>1. CASE UNCHANGED vars
  <2>1. Counted'
    BY <1>1, SameLogins DEF IInv, vars, redis, history, Admissions
  <2> QED BY <1>1, <2>1
       DEF IInv, Base, Queues, SimInv, Copies, Admissions, vars, redis, client
<1>2. CASE \E n \in Sims, s \in Shards :
             ShardSet(n, s) \/ \E token \in {None} \cup Tokens : Connect(n, s, token)
  BY <1>2, ShardSetKeeps, ConnectKeeps
<1>3. CASE \E n \in Sims : Reauthenticate(n) \/ SwitchAccount(n) \/ Drop(n) \/ Authenticate(n)
                          \/ SetPersona(n) \/ Change(n) \/ ThreadEnds(n)
  BY <1>3, SwitchAccountKeeps, DropKeeps, AuthenticateTokenKeeps, AuthenticatePasswordKeeps, CountSessionsKeeps,
     AdmitKeeps, SetPersonaKeeps, ChangeKeeps, ThreadEndsKeeps DEF Authenticate
<1>4. CASE \E s \in Shards : MainTask(s) \/ PoolTask(s) \/ Crash(s) \/ PostInit(s)
  BY <1>4, TransferKeeps, ConfirmKeeps, DisconnectKeeps, UnloadKeeps, PoolTaskKeeps, DieKeeps,
     PostInitKeeps DEF MainTask, Crash
<1>5. CASE \E s, t \in Shards : ShardRemoved(s, t)
  BY <1>5, ShardRemovedKeeps
<1> QED BY <1>1, <1>2, <1>3, <1>4, <1>5 DEF Next

LEMMA InvAlways == Spec => []IInv
BY InvHolds, InvKept, PTL DEF Spec

-----------------------------------------------------------------------------
(* The theorems.                                                           *)

(***************************************************************************)
(* Types, and that a charPtr SetPersona set and no unload invalidated      *)
(* always has a copy in charList to point to, on every shard.              *)
(***************************************************************************)
THEOREM SessionTypeCorrect == Spec => []TypeOK
<1>1. IInv => TypeOK
  BY DEF IInv, Base, Queues, SimInv, Copies, Admissions, Counted, Matched, TypeOK
<1> QED BY <1>1, InvAlways, PTL

(***************************************************************************)
(* Unless another shard registered in the same millisecond, or a           *)
(* connection changed accounts, since a shard booted, the sessions Redis   *)
(* holds of it are exactly as many as simulators are logged in there,      *)
(* through every order of admission, second authentication, detaching      *)
(* (once or twice), crash and restart.                                     *)
(***************************************************************************)
THEOREM SessionsAlwaysMatch == Spec => []SessionsMatch
<1>1. ASSUME IInv, NEW s \in up \ astray
      PROVE  sessions[s] = Cardinality({n \in SimsOf(s) : sim[n].acc})
  <2>1. {n \in SimsOf(s) : sim[n].acc} = {n \in Sims : On(n, s)}
    BY DEF SimsOf, On
  <2>2. s \in Shards /\ sessions[s] \in {0, 1}
    BY <1>1 DEF IInv, Base, Counted, Matched
  <2>3. CASE sessions[s] = 0
    <3>1. {n \in Sims : On(n, s)} = {}
      BY <1>1, <2>3 DEF IInv, Counted, Matched
    <3> QED BY <2>1, <2>3, <3>1, FS_EmptySet
  <2>4. CASE sessions[s] = 1
    <3>1. PICK n \in Sims : On(n, s)
      BY <1>1, <2>4 DEF IInv, Counted, Matched
    <3>2. {m \in Sims : On(m, s)} = {n}
      BY <1>1, <3>1 DEF IInv, Counted, Matched
    <3> QED BY <2>1, <2>4, <3>2, FS_Singleton
  <2> QED BY <2>2, <2>3, <2>4
<1>2. IInv => SessionsMatch
  BY <1>1 DEF SessionsMatch
<1> QED BY <1>2, InvAlways, PTL

(***************************************************************************)
(* However many clients a player runs, and whatever the order in which     *)
(* connections drop, authenticate again and change accounts, transfers     *)
(* complete and shards crash and boot: no two connections play the         *)
(* character at the same time, on one shard or on several, unless two      *)
(* shards were once between counting its sessions and registering theirs   *)
(* at the same time, which nothing in the code prevents.                   *)
(***************************************************************************)
THEOREM OnlyOnePlays == Spec => []AtMostOnePlaying
<1>1. IInv => AtMostOnePlaying
  BY DEF IInv, SimInv, Counted, Exclusive, AtMostOnePlaying
<1> QED BY <1>1, InvAlways, PTL
=============================================================================
