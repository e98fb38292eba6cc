---------------------------- MODULE SessionPool ----------------------------
(***************************************************************************)
(* HttpServer hands the connections it accepts to its HttpSessionManagers  *)
(* in turn, and a manager serves each with a session of its pool, or with  *)
(* a new one when the pool is empty.                                       *)
(*                                                                         *)
(* A manager is a thread, but all its thread does is connect the manager's *)
(* signal to its slot.  The slot itself runs in the thread that accepts    *)
(* connections, at once; before the signal is connected nothing runs, and  *)
(* the connection is lost.                                                 *)
(***************************************************************************)
EXTENDS Integers, Sequences, FiniteSets, SequencesExt

CONSTANTS
  Connection,      \* descriptors of accepted sockets
  NoConnection,    \* what a session in the pool serves
  MaxManagers,     \* bound: session managers
  MaxGiven,        \* bound: connections given to a manager
  MaxInt,          \* the largest int
  FirstIndices     \* ints found in ringIndex, which no constructor sets

ASSUME PoolAssumption ==
  /\ NoConnection \notin Connection
  /\ MaxManagers \in Nat \ {0} /\ MaxGiven \in Nat
  /\ MaxInt \in Nat \ {0}
  /\ FirstIndices \subseteq (-MaxInt - 1)..MaxInt

VARIABLES
  managers,    \* HttpServer::threads: "off", "starting" or "connected"
  listening,   \* QTcpServer::isListening()
  ringIndex,   \* HttpServer::ringIndex
  firstIndex,  \* ghost: what was found in it
  made,        \* sessions each manager has created, numbered from 1
  pool,        \* HttpSessionManager::pool
  serving,     \* the connection each session serves
  given,       \* ghost: connections each manager was given
  peak,        \* ghost: the most connections a manager served at a time
  aborted      \* the program did what is undefined, or was aborted

sessionVars == <<made, pool, serving, peak>>
poolVars == <<managers, listening, ringIndex, firstIndex, sessionVars, given, aborted>>

Manager == 1..MaxManagers
SessionNumber == 1..MaxGiven

PoolInit ==
  /\ managers = <<"off">> /\ listening = FALSE
  /\ firstIndex \in FirstIndices /\ ringIndex = firstIndex
  /\ made = [t \in Manager |-> 0]
  /\ pool = [t \in Manager |-> <<>>]
  /\ serving = [t \in Manager |-> [k \in SessionNumber |-> NoConnection]]
  /\ given = [t \in Manager |-> 0]
  /\ peak = [t \in Manager |-> 0]
  /\ aborted = FALSE

-----------------------------------------------------------------------------
(* Setting up *)

\* Fewer managers: the last ones are deleted, and to delete a running QThread
\* aborts the program.
SetThreadsNumber(n) ==
  /\ ~aborted /\ ~listening
  /\ managers' = [t \in 1..n |-> IF t <= Len(managers) THEN managers[t] ELSE "off"]
  /\ aborted' = \E t \in n + 1 .. Len(managers) : managers[t] # "off"
  /\ UNCHANGED <<listening, ringIndex, firstIndex, sessionVars, given>>

\* start().  Whether the address was free is not looked at.  A second start()
\* changes nothing: what listens listens, and a thread that runs runs.
StartServer(free) ==
  /\ ~aborted
  /\ listening' = (listening \/ free)
  /\ managers' = [t \in DOMAIN managers |->
                    IF managers[t] = "off" THEN "starting" ELSE managers[t]]
  /\ UNCHANGED <<ringIndex, firstIndex, sessionVars, given, aborted>>

\* run(), in the thread of manager t.
RunBegins(t) ==
  /\ ~aborted
  /\ t \in DOMAIN managers /\ managers[t] = "starting"
  /\ managers' = [managers EXCEPT ![t] = "connected"]
  /\ UNCHANGED <<listening, ringIndex, firstIndex, sessionVars, given, aborted>>

-----------------------------------------------------------------------------
(* Connections *)

Live(t) == {k \in SessionNumber : serving[t][k] # NoConnection}
Open == {serving[t][k] : t \in Manager, k \in SessionNumber} \ {NoConnection}

\* Mutant: the session is not taken out of the pool.
FromPoolNotPopped(t, c) ==
  /\ pool[t] # <<>>
  /\ serving' = [serving EXCEPT ![t][Last(pool[t])] = c]
  /\ UNCHANGED <<pool, made>>

\* onNewConnection: the session that was released last.
FromPool(t, c) ==
  /\ pool[t] # <<>>
  /\ pool' = [pool EXCEPT ![t] = Front(@)]
  /\ serving' = [serving EXCEPT ![t][Last(pool[t])] = c]
  /\ made' = made

\* onNewConnection, and the pool is empty.
FromFactory(t, c) ==
  /\ pool[t] = <<>>
  /\ made' = [made EXCEPT ![t] = @ + 1]
  /\ serving' = [serving EXCEPT ![t][made[t] + 1] = c]
  /\ pool' = pool

\* The signal newConnection: nothing happens before it is connected.
AddSession(t, c) ==
  IF managers[t] = "connected"
  THEN /\ FromPool(t, c) \/ FromFactory(t, c)
       /\ LET live == Cardinality(Live(t)) + 1
          IN peak' = [peak EXCEPT ![t] = IF live > @ THEN live ELSE @]
  ELSE UNCHANGED sessionVars

\* Mutant: the index is not reduced to the number of managers.
NextInRingUnbounded == ringIndex

\* a % b of C++ for b > 0: the sign is that of a.
Remainder(a, b) == IF a >= 0 THEN a % b ELSE -((-a) % b)

NextInRing == Remainder(ringIndex, Len(managers))

\* Mutant: the index never wraps around.
AdvanceRingWide == ringIndex' = ringIndex + 1

\* ringIndex++ wraps around.
AdvanceRing == ringIndex' = IF ringIndex = MaxInt THEN -MaxInt - 1 ELSE ringIndex + 1

IncomingConnection(c) ==
  /\ ~aborted /\ listening /\ c \notin Open
  /\ AdvanceRing
  /\ IF NextInRing + 1 \in DOMAIN managers
     THEN LET t == NextInRing + 1
          IN /\ given[t] < MaxGiven
             /\ given' = [given EXCEPT ![t] = @ + 1]
             /\ AddSession(t, c)
             /\ aborted' = aborted
     ELSE aborted' = TRUE /\ UNCHANGED <<sessionVars, given>>
  /\ UNCHANGED <<managers, listening, firstIndex>>

ReleaseSession(t, k) == pool' = [pool EXCEPT ![t] = Append(@, k)]

\* onConnectionDie: a session of the web server is always kept.
ConnectionDies(t, k) ==
  /\ ~aborted /\ k \in Live(t)
  /\ serving' = [serving EXCEPT ![t][k] = NoConnection]
  /\ ReleaseSession(t, k)
  /\ UNCHANGED <<managers, listening, ringIndex, firstIndex, made, peak, given, aborted>>

-----------------------------------------------------------------------------
PoolNext ==
  \/ \E n \in Manager : SetThreadsNumber(n)
  \/ \E free \in BOOLEAN : StartServer(free)
  \/ \E t \in Manager : RunBegins(t)
  \/ \E c \in Connection : IncomingConnection(c)
  \/ \E t \in Manager, k \in SessionNumber : ConnectionDies(t, k)

PoolSpec == PoolInit /\ [][PoolNext]_poolVars

-----------------------------------------------------------------------------
(* Properties *)

\* The variables have their types.
PoolTypeOK ==
  /\ managers \in Seq({"off", "starting", "connected"})
  /\ Len(managers) \in Manager
  /\ {listening, aborted} \subseteq BOOLEAN
  /\ {ringIndex, firstIndex} \subseteq (-MaxInt - 1)..MaxInt
  /\ {made, given, peak} \subseteq [Manager -> 0..MaxGiven]
  /\ pool \in [Manager -> Seq(SessionNumber)]
  /\ serving \in [Manager -> [SessionNumber -> Connection \cup {NoConnection}]]

\* No two sessions serve one connection; a session is in the pool of its manager,
\* once, or serves, so it is never handed out while it is busy and none is lost;
\* and a manager never has more than it served at a time, however long it runs.
ExclusiveSessions ==
  \A t \in Manager :
    /\ \A i, j \in DOMAIN pool[t] : pool[t][i] = pool[t][j] => i = j
    /\ \A i \in DOMAIN pool[t] : pool[t][i] \notin Live(t)
    /\ \A k \in Live(t), u \in Manager :
         \A l \in Live(u) : serving[t][k] = serving[u][l] => t = u /\ k = l
    /\ made[t] = peak[t]
    /\ 1..made[t] = Live(t) \cup ToSet(pool[t])

\* Connections are spread evenly, those that are lost with the others, and the
\* program is not aborted: unless it started its managers without a free address,
\* or found a ringIndex that is negative or grows past the largest int.
RingSpreads ==
  /\ \A t, u \in DOMAIN managers : given[t] <= given[u] + 1
  /\ aborted => \/ ~listening
                \/ firstIndex \notin 0 .. MaxInt - MaxManagers * MaxGiven
=============================================================================
