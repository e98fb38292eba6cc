------------------------ MODULE SessionPool_proofs ------------------------
(***************************************************************************)
(* Type correctness of SessionPool, that sessions are exclusive, and that  *)
(* the first sessions are spread evenly over the managers, for every set   *)
(* of connections, any number of managers, and every bound.                *)
(***************************************************************************)
EXTENDS SessionPool, FiniteSetTheorems, SequenceTheorems, TLAPS

-----------------------------------------------------------------------------
(* Facts about sequences and sets *)

Distinct(s) == \A i, j \in DOMAIN s : s[i] = s[j] => i = j

\* What is put behind a sequence that does not have it.
LEMMA AppendDistinct ==
  ASSUME NEW S, NEW s \in Seq(S), NEW x \in S, Distinct(s), x \notin ToSet(s)
  PROVE  /\ Append(s, x) \in Seq(S) /\ Distinct(Append(s, x))
         /\ ToSet(Append(s, x)) = ToSet(s) \cup {x}
<1>1. /\ Append(s, x) \in Seq(S) /\ Len(s) \in Nat /\ DOMAIN s = 1..Len(s)
      /\ DOMAIN Append(s, x) = 1 .. Len(s) + 1
      /\ \A i \in 1..Len(s) : Append(s, x)[i] = s[i]
      /\ Append(s, x)[Len(s) + 1] = x
  OBVIOUS
<1>2. \A i \in DOMAIN s : s[i] # x
  BY DEF ToSet
<1>3. Distinct(Append(s, x))
  <2>1. SUFFICES ASSUME NEW i \in 1 .. Len(s) + 1, NEW j \in 1 .. Len(s) + 1,
                        Append(s, x)[i] = Append(s, x)[j]
                 PROVE  i = j
    BY <1>1 DEF Distinct
  <2>2. CASE i \in 1..Len(s) /\ j \in 1..Len(s)
    BY <1>1, <2>1, <2>2 DEF Distinct
  <2>3. CASE i = Len(s) + 1 \/ j = Len(s) + 1
    BY <1>1, <1>2, <2>1, <2>3
  <2>4. QED
    BY <1>1, <2>2, <2>3
<1>4. ToSet(Append(s, x)) = ToSet(s) \cup {x}
  <2>1. ASSUME NEW y \in ToSet(Append(s, x))
        PROVE  y \in ToSet(s) \cup {x}
    BY <1>1 DEF ToSet
  <2>2. ASSUME NEW y \in ToSet(s) \cup {x}
        PROVE  y \in ToSet(Append(s, x))
    <3>1. CASE y = x
      BY <1>1, <3>1 DEF ToSet
    <3>2. CASE y \in ToSet(s)
      <4>1. PICK i \in DOMAIN s : y = s[i]
        BY <3>2 DEF ToSet
      <4>2. i \in DOMAIN Append(s, x) /\ y = Append(s, x)[i]
        BY <1>1, <4>1
      <4>3. QED
        BY <4>2 DEF ToSet
    <3>3. QED
      BY <2>2, <3>1, <3>2
  <2>3. QED
    BY <2>1, <2>2
<1>5. QED
  BY <1>1, <1>3, <1>4

\* What is left when the last of a sequence is taken out.
LEMMA FrontDistinct ==
  ASSUME NEW S, NEW s \in Seq(S), s # <<>>, Distinct(s)
  PROVE  /\ Front(s) \in Seq(S) /\ Distinct(Front(s))
         /\ Last(s) \in S /\ Last(s) \in ToSet(s)
         /\ ToSet(Front(s)) = ToSet(s) \ {Last(s)}
<1>1. Len(s) \in Nat \ {0} /\ DOMAIN s = 1..Len(s) /\ s \in [1..Len(s) -> S]
  BY EmptySeq
<1>2. Last(s) = s[Len(s)] /\ Len(s) \in DOMAIN s
  BY <1>1 DEF Last
<1>3. Front(s) = [i \in 1 .. Len(s) - 1 |-> s[i]]
  BY <1>1 DEF Front
<1>4. Front(s) \in Seq(S) /\ DOMAIN Front(s) = 1 .. Len(s) - 1
  BY <1>1, <1>3
<1>5. \A i \in DOMAIN Front(s) : i \in DOMAIN s /\ Front(s)[i] = s[i]
  BY <1>1, <1>3, <1>4
<1>6. Distinct(Front(s))
  BY <1>5 DEF Distinct
<1>7. ASSUME NEW y \in ToSet(Front(s))
      PROVE  y \in ToSet(s) \ {Last(s)}
  <2>1. PICK i \in DOMAIN Front(s) : y = Front(s)[i]
    BY <1>7 DEF ToSet
  <2>2. i \in DOMAIN s /\ y = s[i] /\ i # Len(s)
    BY <1>1, <1>4, <1>5, <2>1
  <2>3. QED
    BY <1>2, <2>2 DEF ToSet, Distinct
<1>8. ASSUME NEW y \in ToSet(s) \ {Last(s)}
      PROVE  y \in ToSet(Front(s))
  <2>1. PICK i \in DOMAIN s : y = s[i]
    BY <1>8 DEF ToSet
  <2>2. i \in DOMAIN Front(s) /\ y = Front(s)[i]
    BY <1>1, <1>2, <1>4, <1>5, <1>8, <2>1
  <2>3. QED
    BY <2>2 DEF ToSet
<1>9. Last(s) \in S /\ Last(s) \in ToSet(s)
  BY <1>1, <1>2 DEF ToSet
<1>10. QED
  BY <1>4, <1>6, <1>7, <1>8, <1>9

\* How many of the first n numbers a set has.
LEMMA HowMany ==
  ASSUME NEW n \in Nat, NEW L \in SUBSET (1..n)
  PROVE  /\ Cardinality(L) \in 0..n
         /\ L = 1..n => Cardinality(L) = n
         /\ L # 1..n => Cardinality(L) < n
<1>1. IsFiniteSet(1..n) /\ Cardinality(1..n) = n
  BY FS_Interval
<1>2. IsFiniteSet(L) /\ Cardinality(L) <= n /\ (Cardinality(L) = n => L = 1..n)
  BY <1>1, FS_Subset
<1>3. Cardinality(L) \in Nat
  BY <1>2, FS_CardinalityType
<1>4. QED
  BY <1>1, <1>2, <1>3

-----------------------------------------------------------------------------
(* The invariant *)

\* Every session was made for a connection.
MadeForGiven == \A t \in Manager : made[t] <= given[t]

PoolInv == PoolTypeOK /\ ExclusiveSessions /\ MadeForGiven

\* No connection is served twice.
ServedOnce ==
  \A t, u \in Manager : \A k \in Live(t), l \in Live(u) :
    serving[t][k] = serving[u][l] => t = u /\ k = l

\* What ExclusiveSessions says of one manager, the connections it serves apart.
OwnSessions(t) ==
  /\ Distinct(pool[t])
  /\ ToSet(pool[t]) \cap Live(t) = {}
  /\ made[t] = peak[t]
  /\ 1..made[t] = Live(t) \cup ToSet(pool[t])

EachOwn == \A t \in Manager : OwnSessions(t)

LEMMA ExclusiveParts == ExclusiveSessions <=> ServedOnce /\ EachOwn
<1>1. \A t \in Manager : (\A i \in DOMAIN pool[t] : pool[t][i] \notin Live(t))
                          <=> ToSet(pool[t]) \cap Live(t) = {}
  BY DEF ToSet
<1>2. ExclusiveSessions => ServedOnce
  BY DEF ExclusiveSessions, ServedOnce
<1>3. ExclusiveSessions => EachOwn
  BY <1>1 DEF ExclusiveSessions, EachOwn, OwnSessions, Distinct
<1>4. ServedOnce /\ EachOwn => ExclusiveSessions
  BY <1>1 DEF ExclusiveSessions, ServedOnce, EachOwn, OwnSessions, Distinct
<1>5. QED
  BY <1>2, <1>3, <1>4

\* What a manager served and serves when a session begins a connection that no
\* session serves.
LEMMA SessionServes ==
  ASSUME PoolTypeOK, ServedOnce, NEW t \in Manager, NEW k \in SessionNumber,
         NEW c \in Connection, c \notin Open, k \notin Live(t),
         serving' = [serving EXCEPT ![t][k] = c]
  PROVE  /\ serving' \in [Manager -> [SessionNumber -> Connection \cup {NoConnection}]]
         /\ Live(t)' = Live(t) \cup {k}
         /\ \A u \in Manager \ {t} : Live(u)' = Live(u)
         /\ ServedOnce'
<1>1. /\ serving \in [Manager -> [SessionNumber -> Connection \cup {NoConnection}]]
      /\ c # NoConnection
  BY PoolAssumption DEF PoolTypeOK
<1>2. /\ serving' \in [Manager -> [SessionNumber -> Connection \cup {NoConnection}]]
      /\ \A u \in Manager, l \in SessionNumber :
           serving'[u][l] = IF u = t /\ l = k THEN c ELSE serving[u][l]
  BY <1>1
<1>3. Live(t)' = Live(t) \cup {k} /\ \A u \in Manager \ {t} : Live(u)' = Live(u)
  BY <1>1, <1>2 DEF Live
<1>4. \A u \in Manager : \A l \in Live(u) : serving[u][l] # c
  BY <1>1 DEF Open, Live
<1>5. ServedOnce'
  <2>1. SUFFICES ASSUME NEW u \in Manager, NEW v \in Manager,
                        NEW i \in Live(u)', NEW j \in Live(v)',
                        serving'[u][i] = serving'[v][j]
                 PROVE  u = v /\ i = j
    BY DEF ServedOnce
  <2>2. i \in SessionNumber /\ j \in SessionNumber
    BY DEF Live
  <2>3. (u = t /\ i = k) \/ (i \in Live(u) /\ serving'[u][i] = serving[u][i])
    BY <1>2, <1>3, <2>2
  <2>4. (v = t /\ j = k) \/ (j \in Live(v) /\ serving'[v][j] = serving[v][j])
    BY <1>2, <1>3, <2>2
  <2>5. serving'[t][k] = c
    BY <1>2
  <2>6. QED
    BY <1>4, <2>1, <2>3, <2>4, <2>5 DEF ServedOnce
<1>6. QED
  BY <1>2, <1>3, <1>5

\* The sessions of a manager are among those it made.
LEMMA LiveMade ==
  ASSUME PoolTypeOK, NEW t \in Manager, OwnSessions(t)
  PROVE  /\ made[t] \in Nat /\ made[t] <= MaxGiven
         /\ Live(t) \in SUBSET (1..made[t])
         /\ ToSet(pool[t]) \in SUBSET (1..made[t])
         /\ pool[t] \in Seq(SessionNumber)
         /\ pool[t] = <<>> => Live(t) = 1..made[t]
         /\ pool[t] # <<>> => Live(t) # 1..made[t]
<1>1. /\ made[t] \in Nat /\ made[t] <= MaxGiven /\ pool[t] \in Seq(SessionNumber)
  BY PoolAssumption DEF PoolTypeOK
<1>2. Live(t) \in SUBSET (1..made[t]) /\ ToSet(pool[t]) \in SUBSET (1..made[t])
  BY DEF OwnSessions
<1>3. pool[t] = <<>> => ToSet(pool[t]) = {}
  BY DEF ToSet
<1>4. pool[t] # <<>> => ToSet(pool[t]) # {}
  BY <1>1, FrontDistinct DEF OwnSessions
<1>5. QED
  BY <1>1, <1>2, <1>3, <1>4 DEF OwnSessions

-----------------------------------------------------------------------------
(* One lemma per operation that touches the sessions *)

\* A connection arrives, and its manager has connected the signal.
LEMMA AddSessionKeeps ==
  ASSUME PoolTypeOK, ServedOnce, \A u \in Manager : OwnSessions(u), MadeForGiven,
         NEW t \in Manager, NEW c \in Connection, c \notin Open,
         given[t] < MaxGiven, given' = [given EXCEPT ![t] = @ + 1],
         managers[t] = "connected", AddSession(t, c)
  PROVE  /\ {made', given', peak'} \subseteq [Manager -> 0..MaxGiven]
         /\ pool' \in [Manager -> Seq(SessionNumber)]
         /\ serving' \in [Manager -> [SessionNumber -> Connection \cup {NoConnection}]]
         /\ ServedOnce' /\ (\A u \in Manager : OwnSessions(u)') /\ MadeForGiven'
<1> DEFINE n == Cardinality(Live(t)) + 1
<1>1. /\ {made, given, peak} \subseteq [Manager -> 0..MaxGiven] /\ MaxGiven \in Nat
      /\ pool \in [Manager -> Seq(SessionNumber)]
  BY PoolAssumption DEF PoolTypeOK
<1>2. /\ made[t] \in Nat /\ made[t] <= given[t] /\ made[t] + 1 \in SessionNumber
      /\ given[t] \in Nat /\ made[t] = peak[t]
  BY <1>1 DEF MadeForGiven, SessionNumber, OwnSessions
<1>3. /\ Live(t) \in SUBSET (1..made[t]) /\ ToSet(pool[t]) \in SUBSET (1..made[t])
      /\ pool[t] \in Seq(SessionNumber)
      /\ pool[t] = <<>> => Live(t) = 1..made[t]
      /\ pool[t] # <<>> => Live(t) # 1..made[t]
  BY LiveMade
<1>4. /\ n \in 1 .. made[t] + 1
      /\ pool[t] = <<>> => n = made[t] + 1
      /\ pool[t] # <<>> => n <= made[t]
  BY <1>2, <1>3, HowMany
<1>5. /\ FromPool(t, c) \/ FromFactory(t, c)
      /\ peak' = [peak EXCEPT ![t] = IF n > @ THEN n ELSE @]
  BY DEF AddSession
<1>6. given' \in [Manager -> 0..MaxGiven] /\ given'[t] = given[t] + 1
      /\ \A u \in Manager \ {t} : given'[u] = given[u]
  BY <1>1, <1>2
<1>7. CASE FromPool(t, c)
  <2>1. /\ pool[t] # <<>> /\ pool' = [pool EXCEPT ![t] = Front(@)]
        /\ serving' = [serving EXCEPT ![t][Last(pool[t])] = c] /\ made' = made
    BY <1>7 DEF FromPool
  <2>2. Distinct(pool[t]) /\ ToSet(pool[t]) \cap Live(t) = {}
    BY DEF OwnSessions
  <2>3. /\ Front(pool[t]) \in Seq(SessionNumber) /\ Distinct(Front(pool[t]))
        /\ Last(pool[t]) \in SessionNumber /\ Last(pool[t]) \in ToSet(pool[t])
        /\ ToSet(Front(pool[t])) = ToSet(pool[t]) \ {Last(pool[t])}
    BY <1>3, <2>1, <2>2, FrontDistinct
  <2>4. Last(pool[t]) \notin Live(t)
    BY <2>2, <2>3
  <2>5. /\ serving' \in [Manager -> [SessionNumber -> Connection \cup {NoConnection}]]
        /\ Live(t)' = Live(t) \cup {Last(pool[t])}
        /\ \A u \in Manager \ {t} : Live(u)' = Live(u)
        /\ ServedOnce'
    BY <2>1, <2>3, <2>4, SessionServes
  <2>6. peak' = peak
    BY <1>1, <1>2, <1>4, <1>5, <2>1
  <2>7. /\ pool' \in [Manager -> Seq(SessionNumber)] /\ pool'[t] = Front(pool[t])
        /\ \A u \in Manager \ {t} : pool'[u] = pool[u]
    BY <1>1, <2>1, <2>3
  <2>8. OwnSessions(t)'
    <3>1. ToSet(pool'[t]) \cap Live(t)' = {}
      BY <2>2, <2>3, <2>5, <2>7
    <3>2. Live(t)' \cup ToSet(pool'[t]) = Live(t) \cup ToSet(pool[t])
      BY <2>3, <2>5, <2>7
    <3>3. QED
      BY <2>1, <2>3, <2>6, <2>7, <3>1, <3>2 DEF OwnSessions
  <2>9. \A u \in Manager \ {t} : OwnSessions(u)'
    BY <2>1, <2>5, <2>6, <2>7 DEF OwnSessions
  <2>10. MadeForGiven'
    BY <1>1, <1>6, <2>1 DEF MadeForGiven
  <2>11. QED
    BY <1>1, <1>6, <2>1, <2>5, <2>6, <2>7, <2>8, <2>9, <2>10
<1>8. CASE FromFactory(t, c)
  <2>1. /\ pool[t] = <<>> /\ made' = [made EXCEPT ![t] = @ + 1]
        /\ serving' = [serving EXCEPT ![t][made[t] + 1] = c] /\ pool' = pool
    BY <1>8 DEF FromFactory
  <2>2. made[t] + 1 \notin Live(t) /\ Live(t) = 1..made[t]
    BY <1>2, <1>3, <2>1
  <2>3. /\ serving' \in [Manager -> [SessionNumber -> Connection \cup {NoConnection}]]
        /\ Live(t)' = Live(t) \cup {made[t] + 1}
        /\ \A u \in Manager \ {t} : Live(u)' = Live(u)
        /\ ServedOnce'
    BY <1>2, <2>1, <2>2, SessionServes
  <2>4. /\ made' \in [Manager -> 0..MaxGiven] /\ made'[t] = made[t] + 1
        /\ \A u \in Manager \ {t} : made'[u] = made[u]
    BY <1>1, <1>2, <2>1 DEF SessionNumber
  <2>5. /\ peak' \in [Manager -> 0..MaxGiven] /\ peak'[t] = made[t] + 1
        /\ \A u \in Manager \ {t} : peak'[u] = peak[u]
    BY <1>1, <1>2, <1>4, <1>5, <2>1 DEF SessionNumber
  <2>6. OwnSessions(t)'
    <3>1. ToSet(pool[t]) = {} /\ Distinct(pool[t])
      BY <2>1 DEF ToSet, Distinct
    <3>2. 1..made'[t] = (1..made[t]) \cup {made[t] + 1}
      BY <1>2, <2>4
    <3>3. QED
      BY <2>1, <2>2, <2>3, <2>4, <2>5, <3>1, <3>2 DEF OwnSessions
  <2>7. \A u \in Manager \ {t} : OwnSessions(u)'
    BY <2>1, <2>3, <2>4, <2>5 DEF OwnSessions
  <2>8. MadeForGiven'
    BY <1>1, <1>2, <1>6, <2>4 DEF MadeForGiven
  <2>9. QED
    BY <1>1, <1>6, <2>1, <2>3, <2>4, <2>5, <2>6, <2>7, <2>8
<1>9. QED
  BY <1>5, <1>7, <1>8

\* A session dies and goes back to the pool of its manager.
LEMMA ConnectionDiesKeeps ==
  ASSUME PoolTypeOK, ServedOnce, \A u \in Manager : OwnSessions(u),
         NEW t \in Manager, NEW k \in SessionNumber, ConnectionDies(t, k)
  PROVE  /\ pool' \in [Manager -> Seq(SessionNumber)]
         /\ serving' \in [Manager -> [SessionNumber -> Connection \cup {NoConnection}]]
         /\ ServedOnce' /\ \A u \in Manager : OwnSessions(u)'
<1>1. /\ pool \in [Manager -> Seq(SessionNumber)]
      /\ serving \in [Manager -> [SessionNumber -> Connection \cup {NoConnection}]]
  BY DEF PoolTypeOK
<1>2. /\ k \in Live(t) /\ serving' = [serving EXCEPT ![t][k] = NoConnection]
      /\ pool' = [pool EXCEPT ![t] = Append(@, k)] /\ UNCHANGED <<made, peak>>
  BY DEF ConnectionDies, ReleaseSession
<1>3. /\ serving' \in [Manager -> [SessionNumber -> Connection \cup {NoConnection}]]
      /\ \A u \in Manager, l \in SessionNumber :
           serving'[u][l] = IF u = t /\ l = k THEN NoConnection ELSE serving[u][l]
  BY <1>1, <1>2
<1>4. Live(t)' = Live(t) \ {k} /\ \A u \in Manager \ {t} : Live(u)' = Live(u)
  BY <1>1, <1>3 DEF Live
<1>5. ServedOnce'
  <2>1. SUFFICES ASSUME NEW u \in Manager, NEW v \in Manager,
                        NEW i \in Live(u)', NEW j \in Live(v)',
                        serving'[u][i] = serving'[v][j]
                 PROVE  u = v /\ i = j
    BY DEF ServedOnce
  <2>2. i \in Live(u) /\ serving'[u][i] = serving[u][i]
    BY <1>3, <1>4 DEF Live
  <2>3. j \in Live(v) /\ serving'[v][j] = serving[v][j]
    BY <1>3, <1>4 DEF Live
  <2>4. serving[u][i] = serving[v][j]
    BY <2>1, <2>2, <2>3
  <2>5. QED
    BY <2>2, <2>3, <2>4 DEF ServedOnce
<1>6. Distinct(pool[t]) /\ k \notin ToSet(pool[t])
  BY <1>2 DEF OwnSessions
<1>7. /\ Append(pool[t], k) \in Seq(SessionNumber) /\ Distinct(Append(pool[t], k))
      /\ ToSet(Append(pool[t], k)) = ToSet(pool[t]) \cup {k}
  BY <1>1, <1>6, AppendDistinct
<1>8. /\ pool' \in [Manager -> Seq(SessionNumber)] /\ pool'[t] = Append(pool[t], k)
      /\ \A u \in Manager \ {t} : pool'[u] = pool[u]
  BY <1>1, <1>2, <1>7
<1>9. OwnSessions(t)'
  BY <1>2, <1>4, <1>7, <1>8 DEF OwnSessions
<1>10. \A u \in Manager \ {t} : OwnSessions(u)'
  BY <1>2, <1>4, <1>8 DEF OwnSessions
<1>11. QED
  BY <1>3, <1>5, <1>8, <1>9, <1>10

-----------------------------------------------------------------------------
(* The invariant is inductive *)

\* Nothing that the sessions are made of changes.
LEMMA SessionsUntouched ==
  ASSUME PoolInv, UNCHANGED <<sessionVars, given>>
  PROVE  /\ {made', given', peak'} \subseteq [Manager -> 0..MaxGiven]
         /\ pool' \in [Manager -> Seq(SessionNumber)]
         /\ serving' \in [Manager -> [SessionNumber -> Connection \cup {NoConnection}]]
         /\ ExclusiveSessions' /\ MadeForGiven'
BY DEF PoolInv, PoolTypeOK, ExclusiveSessions, MadeForGiven, Live, sessionVars

LEMMA PoolInitially == PoolInit => PoolInv
<1> SUFFICES ASSUME PoolInit
             PROVE  PoolInv
  OBVIOUS
<1>1. \A t \in Manager : Live(t) = {}
  BY DEF PoolInit, Live
<1>2. PoolTypeOK
  <2>1. managers \in Seq({"off", "starting", "connected"}) /\ Len(managers) = 1
    BY DEF PoolInit
  <2>2. 1 \in Manager /\ MaxGiven \in Nat
    BY PoolAssumption DEF Manager
  <2>3. {ringIndex, firstIndex} \subseteq (-MaxInt - 1)..MaxInt
    BY PoolAssumption DEF PoolInit
  <2>4. {made, given, peak} \subseteq [Manager -> 0..MaxGiven]
    BY <2>2 DEF PoolInit
  <2>5. /\ pool \in [Manager -> Seq(SessionNumber)]
        /\ serving \in [Manager -> [SessionNumber -> Connection \cup {NoConnection}]]
    BY DEF PoolInit
  <2>6. listening \in BOOLEAN /\ aborted \in BOOLEAN
    BY DEF PoolInit
  <2>7. QED
    BY <2>1, <2>2, <2>3, <2>4, <2>5, <2>6 DEF PoolTypeOK
<1>3. ServedOnce
  BY <1>1 DEF ServedOnce
<1>4. ASSUME NEW t \in Manager
      PROVE  OwnSessions(t)
  <2>1. pool[t] = <<>> /\ made[t] = 0 /\ peak[t] = 0 /\ 1..0 = {}
    BY DEF PoolInit
  <2>2. Distinct(pool[t]) /\ ToSet(pool[t]) = {}
    BY <2>1 DEF Distinct, ToSet
  <2>3. QED
    BY <1>1, <2>1, <2>2 DEF OwnSessions
<1>5. MadeForGiven
  BY DEF PoolInit, MadeForGiven
<1>6. QED
  BY <1>2, <1>3, <1>4, <1>5, ExclusiveParts DEF PoolInv, EachOwn

\* The ring index stays an int.
LEMMA RingWraps ==
  ASSUME ringIndex \in (-MaxInt - 1)..MaxInt, AdvanceRing
  PROVE  ringIndex' \in (-MaxInt - 1)..MaxInt
BY PoolAssumption DEF AdvanceRing

LEMMA PoolStep == PoolInv /\ [PoolNext]_poolVars => PoolInv'
<1> SUFFICES ASSUME PoolInv, [PoolNext]_poolVars
             PROVE  PoolInv'
  OBVIOUS
<1>1. /\ PoolTypeOK /\ ExclusiveSessions /\ MadeForGiven
      /\ ServedOnce /\ \A t \in Manager : OwnSessions(t)
  BY ExclusiveParts DEF PoolInv, EachOwn
<1>2. /\ managers \in Seq({"off", "starting", "connected"}) /\ Len(managers) \in Manager
      /\ {listening, aborted} \subseteq BOOLEAN
      /\ {ringIndex, firstIndex} \subseteq (-MaxInt - 1)..MaxInt
      /\ MaxManagers \in Nat
  BY <1>1, PoolAssumption DEF PoolTypeOK
<1>3. DOMAIN managers = 1..Len(managers) /\ Len(managers) \in Nat
  BY <1>2
<1>4. ASSUME NEW n \in Manager, SetThreadsNumber(n)
      PROVE  PoolInv'
  <2>1. managers' \in Seq({"off", "starting", "connected"}) /\ Len(managers') = n
    <3>1. /\ managers' = [t \in 1..n |-> IF t <= Len(managers) THEN managers[t] ELSE "off"]
          /\ n \in Nat
      BY <1>4 DEF SetThreadsNumber, Manager
    <3>2. \A t \in 1..n : t <= Len(managers) => managers[t] \in {"off", "starting", "connected"}
      BY <1>2, <1>3
    <3>3. QED
      BY <3>1, <3>2
  <2>2. aborted' \in BOOLEAN /\ UNCHANGED <<listening, ringIndex, firstIndex, sessionVars, given>>
    BY <1>4 DEF SetThreadsNumber
  <2>3. QED
    BY <1>2, <2>1, <2>2, SessionsUntouched DEF PoolInv, PoolTypeOK
<1>5. ASSUME NEW free \in BOOLEAN, StartServer(free)
      PROVE  PoolInv'
  <2>1. managers' \in Seq({"off", "starting", "connected"}) /\ Len(managers') = Len(managers)
    BY <1>2, <1>3, <1>5 DEF StartServer
  <2>2. listening' \in BOOLEAN /\ UNCHANGED <<ringIndex, firstIndex, sessionVars, given, aborted>>
    BY <1>2, <1>5 DEF StartServer
  <2>3. QED
    BY <1>2, <2>1, <2>2, SessionsUntouched DEF PoolInv, PoolTypeOK
<1>6. ASSUME NEW t \in Manager, RunBegins(t)
      PROVE  PoolInv'
  <2>1. managers' \in Seq({"off", "starting", "connected"}) /\ Len(managers') = Len(managers)
    BY <1>2, <1>3, <1>6 DEF RunBegins
  <2>2. UNCHANGED <<listening, ringIndex, firstIndex, sessionVars, given, aborted>>
    BY <1>6 DEF RunBegins
  <2>3. QED
    BY <1>2, <2>1, <2>2, SessionsUntouched DEF PoolInv, PoolTypeOK
<1>7. ASSUME NEW c \in Connection, IncomingConnection(c)
      PROVE  PoolInv'
  <2>1. ringIndex' \in (-MaxInt - 1)..MaxInt /\ UNCHANGED <<managers, listening, firstIndex>>
        /\ c \notin Open
    BY <1>2, <1>7, RingWraps DEF IncomingConnection
  <2>2. CASE NextInRing + 1 \notin DOMAIN managers
    <3>1. aborted' = TRUE /\ UNCHANGED <<sessionVars, given>>
      BY <1>7, <2>2 DEF IncomingConnection
    <3>2. QED
      BY <1>2, <2>1, <3>1, SessionsUntouched DEF PoolInv, PoolTypeOK
  <2>3. CASE NextInRing + 1 \in DOMAIN managers
    <3> DEFINE t == NextInRing + 1
    <3>1. /\ given[t] < MaxGiven /\ given' = [given EXCEPT ![t] = @ + 1]
          /\ AddSession(t, c) /\ aborted' = aborted
      BY <1>7, <2>3 DEF IncomingConnection
    <3>2. t \in Manager
      BY <1>2, <1>3, <2>3 DEF Manager
    <3> HIDE DEF t
    <3>3. CASE managers[t] = "connected"
      <4>1. /\ {made', given', peak'} \subseteq [Manager -> 0..MaxGiven]
            /\ pool' \in [Manager -> Seq(SessionNumber)]
            /\ serving' \in [Manager -> [SessionNumber -> Connection \cup {NoConnection}]]
            /\ ServedOnce' /\ (\A u \in Manager : OwnSessions(u)') /\ MadeForGiven'
        BY <1>1, <2>1, <3>1, <3>2, <3>3, AddSessionKeeps
      <4>2. ExclusiveSessions'
        <5>1. EachOwn'
          BY <4>1 DEF EachOwn
        <5>2. QED
          BY <4>1, <5>1, ExclusiveParts, PTL
      <4>3. QED
        BY <1>2, <2>1, <3>1, <4>1, <4>2 DEF PoolInv, PoolTypeOK
    <3>4. CASE managers[t] # "connected"
      <4>1. UNCHANGED sessionVars
        BY <3>1, <3>4 DEF AddSession
      <4>2. ExclusiveSessions'
        BY <1>1, <4>1 DEF ExclusiveSessions, Live, sessionVars
      <4>3. /\ {made, given, peak} \subseteq [Manager -> 0..MaxGiven] /\ MaxGiven \in Nat
            /\ MadeForGiven
        BY <1>1, PoolAssumption DEF PoolTypeOK
      <4>4. /\ given' \in [Manager -> 0..MaxGiven]
            /\ \A u \in Manager : given[u] <= given'[u]
        BY <3>1, <3>2, <4>3
      <4>5. MadeForGiven'
        BY <4>1, <4>3, <4>4 DEF MadeForGiven, sessionVars
      <4>6. QED
        BY <1>1, <1>2, <2>1, <3>1, <4>1, <4>2, <4>4, <4>5
        DEF PoolInv, PoolTypeOK, sessionVars
    <3>5. QED
      BY <3>3, <3>4
  <2>4. QED
    BY <2>2, <2>3
<1>8. ASSUME NEW t \in Manager, NEW k \in SessionNumber, ConnectionDies(t, k)
      PROVE  PoolInv'
  <2>1. /\ pool' \in [Manager -> Seq(SessionNumber)]
        /\ serving' \in [Manager -> [SessionNumber -> Connection \cup {NoConnection}]]
        /\ ServedOnce' /\ \A u \in Manager : OwnSessions(u)'
    BY <1>1, <1>8, ConnectionDiesKeeps
  <2>2. ExclusiveSessions'
    <3>1. EachOwn'
      BY <2>1 DEF EachOwn
    <3>2. QED
      BY <2>1, <3>1, ExclusiveParts, PTL
  <2>3. UNCHANGED <<managers, listening, ringIndex, firstIndex, made, peak, given, aborted>>
    BY <1>8 DEF ConnectionDies, ReleaseSession
  <2>4. QED
    BY <1>1, <2>1, <2>2, <2>3 DEF PoolInv, PoolTypeOK, MadeForGiven
<1>9. CASE UNCHANGED poolVars
  BY <1>1, <1>9, SessionsUntouched DEF poolVars, sessionVars, PoolInv, PoolTypeOK
<1>10. QED
  BY <1>4, <1>5, <1>6, <1>7, <1>8, <1>9 DEF PoolNext

\* PoolInv holds all along.
LEMMA PoolAlways == PoolSpec => []PoolInv
BY PoolInitially, PoolStep, PTL DEF PoolSpec

-----------------------------------------------------------------------------
(* The theorems *)

\* Every variable of the pools keeps its type: the ring index wraps around, and
\* no manager makes more sessions than it was given connections.
THEOREM PoolTypes == PoolSpec => []PoolTypeOK
<1>1. PoolInv => PoolTypeOK
  BY DEF PoolInv
<1>2. QED
  BY <1>1, PoolAlways, PTL

\* incomingConnection, onNewConnection and onConnectionDie never give a connection
\* two sessions nor a busy session a second connection, and lose no session.
THEOREM SessionsExclusive == PoolSpec => []ExclusiveSessions
<1>1. PoolInv => ExclusiveSessions
  BY DEF PoolInv
<1>2. QED
  BY <1>1, PoolAlways, PTL
-----------------------------------------------------------------------------
(* Connections go round the managers *)

\* The manager a connection goes to if it comes while ringIndex is i.
TurnAt(i) == Remainder(i, Len(managers)) + 1
Turn == TurnAt(ringIndex)
First == TurnAt(firstIndex)

\* How many turns after the first manager's is the turn of manager t.
Behind(t) == IF t >= First THEN t - First ELSE t - First + Len(managers)

\* Before the server listens no connection has come.
NoneYet == ringIndex = firstIndex /\ \A t \in Manager : given[t] = 0

\* The managers that had their turn in this round have been given one connection
\* more than the manager whose turn it is, the others as many.
InRounds ==
  Turn \in DOMAIN managers =>
    /\ First \in DOMAIN managers
    /\ \A t \in DOMAIN managers :
         given[t] = given[Turn] + IF Behind(t) < Behind(Turn) THEN 1 ELSE 0

Even == \A t, u \in DOMAIN managers : given[t] <= given[u] + 1

\* An index as small as that does not wrap around.
Ordinary == firstIndex \in 0 .. MaxInt - MaxManagers * MaxGiven

\* Every manager had its turn once in each round that is over.
Counted == ringIndex = firstIndex + Len(managers) * given[Turn] + Behind(Turn)

RingInv ==
  /\ ~listening => NoneYet
  /\ Even
  /\ ~aborted => InRounds
  /\ ~aborted /\ Ordinary => Turn \in DOMAIN managers /\ Counted
  /\ aborted => ~listening \/ ~Ordinary

\* Division, and the remainder of the next number.
LEMMA RemainderUnique ==
  ASSUME NEW n \in Int, NEW L \in Nat \ {0}, NEW q \in Int, NEW r \in 0 .. L - 1, n = L * q + r
  PROVE  n % L = r
OBVIOUS

LEMMA RemainderOfNext ==
  ASSUME NEW n \in Nat, NEW L \in Nat \ {0}
  PROVE  /\ n % L \in 0 .. L - 1
         /\ (n + 1) % L = IF n % L = L - 1 THEN 0 ELSE (n % L) + 1
<1> DEFINE q == n \div L
           r == n % L
<1>1. n = L * q + r /\ q \in Int /\ r \in 0 .. L - 1
  OBVIOUS
<1> HIDE DEF q, r
<1>2. CASE r = L - 1
  <2>1. n + 1 = L * (q + 1) + 0 /\ q + 1 \in Int /\ 0 \in 0 .. L - 1 /\ n + 1 \in Int
    BY <1>1, <1>2
  <2>2. (n + 1) % L = 0
    BY <2>1, RemainderUnique
  <2> QED
    BY <1>1, <1>2, <2>2 DEF r
<1>3. CASE r # L - 1
  <2>1. n + 1 = L * q + (r + 1) /\ r + 1 \in 0 .. L - 1 /\ n + 1 \in Int
    BY <1>1, <1>3
  <2>2. (n + 1) % L = r + 1
    BY <1>1, <2>1, RemainderUnique
  <2> QED
    BY <1>1, <1>3, <2>2 DEF r
<1> QED
  BY <1>2, <1>3

\* What ringIndex++ makes of an index.
NextIndex(i) == IF i = MaxInt THEN -MaxInt - 1 ELSE i + 1

\* As long as the turn comes to a manager at all it comes to the next one, also where
\* the index wraps around and where it is negative.
LEMMA TurnsInOrder ==
  ASSUME NEW L \in Nat \ {0}, NEW a \in (-MaxInt - 1)..MaxInt,
         Remainder(a, L) \in 0 .. L - 1, Remainder(NextIndex(a), L) \in 0 .. L - 1
  PROVE  Remainder(NextIndex(a), L) = IF Remainder(a, L) = L - 1 THEN 0 ELSE Remainder(a, L) + 1
<1>0. MaxInt \in Nat \ {0}
  BY PoolAssumption
<1>1. CASE a >= 0 /\ a # MaxInt
  <2>1. a \in Nat /\ NextIndex(a) = a + 1 /\ a + 1 >= 0
    BY <1>0, <1>1 DEF NextIndex
  <2> QED
    BY <1>1, <2>1, RemainderOfNext DEF Remainder
<1>2. CASE a = MaxInt
  <2>1. NextIndex(a) = -MaxInt - 1 /\ ~(-MaxInt - 1 >= 0) /\ -(-MaxInt - 1) = MaxInt + 1
    BY <1>0, <1>2 DEF NextIndex
  <2>2. Remainder(NextIndex(a), L) = -((MaxInt + 1) % L) /\ Remainder(a, L) = MaxInt % L
    BY <1>0, <1>2, <2>1 DEF Remainder
  <2>3. /\ MaxInt % L \in 0 .. L - 1
        /\ (MaxInt + 1) % L = IF MaxInt % L = L - 1 THEN 0 ELSE (MaxInt % L) + 1
    BY <1>0, RemainderOfNext
  <2> QED
    BY <2>2, <2>3
<1>3. CASE a < 0
  <2> DEFINE b == -a - 1
  <2>1. b \in Nat /\ NextIndex(a) = a + 1 /\ -a = b + 1 /\ ~(a >= 0)
    BY <1>0, <1>3 DEF NextIndex
  <2>2. Remainder(a, L) = -((b + 1) % L)
    BY <2>1 DEF Remainder
  <2>3. Remainder(a + 1, L) = -(b % L)
    <3>1. CASE b = 0
      <4>1. a + 1 = 0 /\ 0 = L * 0 + 0 /\ 0 \in 0 .. L - 1
        BY <2>1, <3>1
      <4>2. 0 % L = 0
        BY <4>1, RemainderUnique
      <4> QED
        BY <3>1, <4>1, <4>2 DEF Remainder
    <3>2. CASE b # 0
      <4>1. ~(a + 1 >= 0) /\ -(a + 1) = b
        BY <2>1, <3>2
      <4> QED
        BY <4>1 DEF Remainder
    <3> QED
      BY <3>1, <3>2
  <2>4. b % L \in 0 .. L - 1 /\ (b + 1) % L = IF b % L = L - 1 THEN 0 ELSE (b % L) + 1
    BY <2>1, RemainderOfNext
  <2> HIDE DEF b
  <2> QED
    BY <2>1, <2>2, <2>3, <2>4
<1> QED
  BY <1>0, <1>1, <1>2, <1>3

\* The first turn of a round is that of the first manager.
LEMMA TurnProperties ==
  ASSUME PoolInv
  PROVE  /\ Len(managers) \in Nat \ {0} /\ DOMAIN managers = 1..Len(managers)
         /\ DOMAIN managers \subseteq Manager
         /\ given \in [Manager -> 0..MaxGiven] /\ MaxGiven \in Nat /\ MaxManagers \in Nat
         /\ Len(managers) <= MaxManagers
         /\ ringIndex \in (-MaxInt - 1)..MaxInt /\ firstIndex \in (-MaxInt - 1)..MaxInt
         /\ \A i \in Int : TurnAt(i) \in DOMAIN managers <=>
                             Remainder(i, Len(managers)) \in 0 .. Len(managers) - 1
<1>1. /\ Len(managers) \in Nat \ {0} /\ DOMAIN managers = 1..Len(managers)
      /\ Len(managers) <= MaxManagers /\ MaxManagers \in Nat /\ MaxGiven \in Nat
  BY PoolAssumption DEF PoolInv, PoolTypeOK, Manager
<1>2. \A i \in Int : Remainder(i, Len(managers)) \in Int
  BY <1>1 DEF Remainder
<1>3. /\ given \in [Manager -> 0..MaxGiven]
      /\ ringIndex \in (-MaxInt - 1)..MaxInt /\ firstIndex \in (-MaxInt - 1)..MaxInt
  BY DEF PoolInv, PoolTypeOK
<1>4. DOMAIN managers \subseteq Manager
  BY <1>1 DEF Manager
<1>5. \A i \in Int : TurnAt(i) \in DOMAIN managers <=>
                       Remainder(i, Len(managers)) \in 0 .. Len(managers) - 1
  <2> DEFINE L == Len(managers)
  <2>1. \A x \in Int : x + 1 \in 1..L <=> x \in 0 .. L - 1
    BY <1>1
  <2> QED
    BY <1>1, <1>2, <2>1 DEF TurnAt
<1> QED
  BY <1>1, <1>3, <1>4, <1>5

\* Before the server listens: whatever the index is, all the managers are level.
LEMMA NoneYetRing ==
  PoolInv /\ NoneYet => Even /\ InRounds /\ (Ordinary => Turn \in DOMAIN managers /\ Counted)
<1> SUFFICES ASSUME PoolInv, NoneYet
             PROVE  Even /\ InRounds /\ (Ordinary => Turn \in DOMAIN managers /\ Counted)
  OBVIOUS
<1> DEFINE L == Len(managers)
<1>1. /\ L \in Nat \ {0} /\ DOMAIN managers = 1..L /\ DOMAIN managers \subseteq Manager
      /\ ringIndex = firstIndex /\ firstIndex \in Int
      /\ \A t \in DOMAIN managers : given[t] = 0
  BY TurnProperties, PoolAssumption DEF NoneYet
<1> HIDE DEF L
<1>2. Turn = First /\ \A t \in DOMAIN managers : Behind(t) = Behind(t)
  BY <1>1 DEF Turn, First
<1>3. Even
  BY <1>1 DEF Even
<1>4. InRounds
  <2> SUFFICES ASSUME Turn \in DOMAIN managers
               PROVE  \A t \in DOMAIN managers : ~(Behind(t) < Behind(Turn))
    BY <1>1, <1>2 DEF InRounds
  <2> QED
    BY <1>1, <1>2 DEF Behind
<1>5. ASSUME Ordinary PROVE Turn \in DOMAIN managers /\ Counted
  <2>1. firstIndex \in Nat /\ firstIndex % L \in 0 .. L - 1
    <3>1. firstIndex \in Nat
      BY <1>1, <1>5 DEF Ordinary
    <3> QED
      BY <1>1, <3>1, RemainderOfNext
  <2>2. First = (firstIndex % L) + 1 /\ First \in 1..L
    BY <1>1, <2>1 DEF First, TurnAt, Remainder, L
  <2>3. Behind(Turn) = 0 /\ given[Turn] = 0 /\ Turn \in DOMAIN managers
    BY <1>1, <1>2, <2>2 DEF Behind
  <2>4. L * given[Turn] = 0
    BY <1>1, <2>3
  <2> QED
    BY <1>1, <2>1, <2>3, <2>4 DEF Counted, L
<1> QED
  BY <1>3, <1>4, <1>5

\* The next connection goes to the next manager.
LEMMA GivenRing ==
  ASSUME PoolInv, InRounds, AdvanceRing, UNCHANGED <<managers, firstIndex>>,
         Turn \in DOMAIN managers, given[Turn] < MaxGiven,
         given' = [given EXCEPT ![Turn] = @ + 1],
         Ordinary => Counted
  PROVE  Even' /\ InRounds' /\ (Ordinary' => (Turn \in DOMAIN managers)' /\ Counted')
<1> DEFINE L == Len(managers)
           m == given[Turn]
           next == IF Turn = L THEN 1 ELSE Turn + 1
<1>1. /\ L \in Nat \ {0} /\ DOMAIN managers = 1..L /\ DOMAIN managers \subseteq Manager
      /\ given \in [Manager -> 0..MaxGiven] /\ MaxGiven \in Nat /\ MaxManagers \in Nat
      /\ L <= MaxManagers
      /\ ringIndex \in (-MaxInt - 1)..MaxInt /\ firstIndex \in (-MaxInt - 1)..MaxInt
      /\ \A i \in Int : TurnAt(i) \in DOMAIN managers <=> Remainder(i, L) \in 0 .. L - 1
  BY TurnProperties
<1>2. MaxInt \in Nat \ {0}
  BY PoolAssumption
<1>3. ringIndex' = NextIndex(ringIndex) /\ ringIndex' \in Int /\ ringIndex \in Int
  BY <1>1, <1>2 DEF AdvanceRing, NextIndex
<1>4. Turn \in 1..L /\ First \in 1..L /\ m \in 0..MaxGiven /\ First' = First
  BY <1>1 DEF InRounds, First, TurnAt
<1>5. \A t \in 1..L : given[t] = m + IF Behind(t) < Behind(Turn) THEN 1 ELSE 0
  BY <1>1 DEF InRounds
<1>6. /\ given' \in [Manager -> Int] /\ given'[Turn] = m + 1
      /\ \A t \in 1..L : t # Turn => given'[t] = given[t]
  BY <1>1, <1>4
<1>7. \A t \in 1..L : Behind(t) \in 0 .. L - 1 /\ Behind(t)' = Behind(t)
  BY <1>1, <1>4 DEF Behind
<1>8. \A t, u \in 1..L : Behind(t) = Behind(u) => t = u
  BY <1>1, <1>4 DEF Behind
<1>9. Even'
  BY <1>1, <1>4, <1>5, <1>6 DEF Even
<1>10. Turn' \in 1..L => Turn' = next
  <2> SUFFICES ASSUME Turn' \in 1..L PROVE Turn' = next
    OBVIOUS
  <2>1. Turn' = TurnAt(NextIndex(ringIndex)) /\ Turn = TurnAt(ringIndex)
    BY <1>3 DEF Turn, TurnAt
  <2>2. Remainder(ringIndex, L) \in 0 .. L - 1 /\ Remainder(NextIndex(ringIndex), L) \in 0 .. L - 1
    BY <1>1, <1>3, <1>4, <2>1
  <2>3. Remainder(NextIndex(ringIndex), L) =
          IF Remainder(ringIndex, L) = L - 1 THEN 0 ELSE Remainder(ringIndex, L) + 1
    BY <1>1, <2>2, TurnsInOrder
  <2> QED
    BY <1>1, <2>1, <2>2, <2>3 DEF TurnAt
<1>11. /\ next \in 1..L
       /\ Behind(next) = IF Behind(Turn) = L - 1 THEN 0 ELSE Behind(Turn) + 1
  <2> DEFINE f == First
             n == Turn
  <2>1. f \in 1..L /\ n \in 1..L /\ L \in Nat \ {0}
    BY <1>1, <1>4
  <2>2. \A t \in 1..L : Behind(t) = IF t >= f THEN t - f ELSE t - f + L
    BY DEF Behind
  <2> HIDE DEF f, L
  <2>3. next \in 1..L
    BY <2>1
  <2>4. CASE n = L
    BY <2>1, <2>2, <2>3, <2>4
  <2>5. CASE n # L
    BY <2>1, <2>2, <2>3, <2>5
  <2> QED
    BY <2>3, <2>4, <2>5
<1> HIDE DEF next, m, L
<1>12. given'[next] = IF Behind(Turn) = L - 1 THEN m + 1 ELSE m
  <2>1. CASE Behind(Turn) = L - 1
    <3>1. CASE next = Turn
      BY <1>6, <2>1, <3>1
    <3>2. CASE next # Turn
      <4>1. Behind(next) < Behind(Turn)
        BY <1>1, <1>4, <1>7, <1>8, <1>11, <2>1, <3>2
      <4> QED
        BY <1>5, <1>6, <1>11, <2>1, <3>2, <4>1
    <3> QED
      BY <3>1, <3>2
  <2>2. CASE Behind(Turn) # L - 1
    <3>1. ~(Behind(next) < Behind(Turn)) /\ next # Turn
      BY <1>1, <1>4, <1>7, <1>11, <2>2
    <3>2. given'[next] = m + 0 /\ m \in Int
      BY <1>4, <1>5, <1>6, <1>11, <3>1
    <3> QED
      BY <2>2, <3>2
  <2> QED
    BY <2>1, <2>2
<1>13. \A t \in 1..L : given'[t] = given'[next] + IF Behind(t) < Behind(next) THEN 1 ELSE 0
  <2> SUFFICES ASSUME NEW t \in 1..L
               PROVE  given'[t] = given'[next] + IF Behind(t) < Behind(next) THEN 1 ELSE 0
    OBVIOUS
  <2>1. /\ Behind(t) \in 0 .. L - 1 /\ Behind(Turn) \in 0 .. L - 1 /\ L \in Nat \ {0} /\ m \in Int
        /\ t # Turn => Behind(t) # Behind(Turn)
        /\ given'[t] = IF t = Turn THEN m + 1
                       ELSE m + IF Behind(t) < Behind(Turn) THEN 1 ELSE 0
    BY <1>1, <1>4, <1>5, <1>6, <1>7, <1>8
  <2> QED
    BY <1>11, <1>12, <2>1
<1>14. InRounds'
  <2> SUFFICES ASSUME Turn' \in DOMAIN managers
               PROVE  /\ First \in DOMAIN managers
                      /\ \A t \in DOMAIN managers :
                           given'[t] = given'[Turn'] + IF Behind(t)' < Behind(Turn)' THEN 1 ELSE 0
    BY <1>4 DEF InRounds
  <2>1. Turn' = next /\ Behind(Turn)' = Behind(next)
    BY <1>1, <1>4, <1>7, <1>10, <1>11 DEF Behind, L
  <2> QED
    BY <1>1, <1>4, <1>7, <1>13, <2>1
<1>15. ASSUME Ordinary'
       PROVE  (Turn \in DOMAIN managers)' /\ Counted'
  <2>1. firstIndex \in 0 .. MaxInt - MaxManagers * MaxGiven /\ Ordinary
    BY <1>15 DEF Ordinary
  <2>2. ringIndex = firstIndex + L * m + Behind(Turn)
    BY <2>1 DEF Counted, L, m
  <2>3. ringIndex >= 0 /\ ringIndex < MaxInt
    <3>1. L * m \in Nat /\ Behind(Turn) \in 0 .. L - 1 /\ firstIndex \in Nat
      BY <1>1, <1>4, <1>7, <2>1
    <3>2. L * m + Behind(Turn) < L * (m + 1)
      BY <1>1, <1>4, <3>1
    <3>3. L * (m + 1) <= MaxManagers * MaxGiven
      <4>1. m + 1 \in Nat /\ m + 1 <= MaxGiven
        BY <1>1, <1>4 DEF m
      <4>2. L * (m + 1) <= L * MaxGiven
        BY <1>1, <4>1
      <4>3. L * MaxGiven <= MaxManagers * MaxGiven
        BY <1>1
      <4>4. L * MaxGiven \in Int /\ MaxManagers * MaxGiven \in Int /\ L * (m + 1) \in Int
        BY <1>1, <4>1
      <4> QED
        BY <4>2, <4>3, <4>4
    <3>4. L * (m + 1) \in Int /\ MaxManagers * MaxGiven \in Int
      BY <1>1, <1>4
    <3> QED
      BY <1>2, <2>1, <2>2, <3>1, <3>2, <3>3, <3>4
  <2>4. ringIndex' = ringIndex + 1 /\ ringIndex' \in Nat
    BY <1>3, <2>3 DEF NextIndex
  <2>5. Turn' \in 1..L
    <3>1. Remainder(ringIndex', L) \in 0 .. L - 1
      <4>1. ringIndex \in Nat /\ ringIndex + 1 \in Nat /\ ringIndex + 1 >= 0
        BY <1>3, <2>3
      <4>2. (ringIndex + 1) % L \in 0 .. L - 1
        BY <1>1, <4>1, RemainderOfNext
      <4> QED
        BY <2>4, <4>1, <4>2 DEF Remainder
    <3>2. TurnAt(ringIndex') \in 1..L
      BY <1>1, <1>3, <3>1
    <3> QED
      BY <3>2 DEF Turn, TurnAt
  <2>6. Turn' = next /\ Behind(Turn)' = Behind(next) /\ given'[Turn'] = given'[next]
    BY <1>1, <1>4, <1>7, <1>10, <1>11, <2>5 DEF Behind, L
  <2>7. ringIndex + 1 = firstIndex + L * given'[next] + Behind(next)
    <3>1. /\ L \in Nat \ {0} /\ m \in Int /\ firstIndex \in Int /\ L * m \in Int
          /\ Behind(Turn) \in 0 .. L - 1
      BY <1>1, <1>4, <1>7
    <3>2. L * (m + 1) = L * m + L
      BY <3>1
    <3>3. CASE Behind(Turn) = L - 1
      <4>1. given'[next] = m + 1 /\ Behind(next) = 0
        BY <1>11, <1>12, <3>3
      <4>2. L * given'[next] = L * m + L
        BY <3>2, <4>1
      <4> QED
        BY <2>2, <3>1, <3>3, <4>1, <4>2
    <3>4. CASE Behind(Turn) # L - 1
      <4>1. given'[next] = m /\ Behind(next) = Behind(Turn) + 1
        BY <1>11, <1>12, <3>4
      <4> QED
        BY <2>2, <3>1, <4>1
    <3> QED
      BY <3>3, <3>4
  <2> QED
    BY <1>1, <2>4, <2>5, <2>6, <2>7 DEF Counted, L
<1> QED
  BY <1>9, <1>14, <1>15

\* The connection finds no manager: the index is negative.
LEMMA LostRing ==
  ASSUME PoolInv, Ordinary => Turn \in DOMAIN managers,
         Turn \notin DOMAIN managers, aborted', UNCHANGED firstIndex
  PROVE  ~Ordinary'
BY DEF Ordinary

\* A step that gives nothing to anybody once the server listens.
LEMMA RingFrame ==
  ASSUME RingInv, UNCHANGED <<ringIndex, firstIndex, given, aborted>>,
         DOMAIN managers' = DOMAIN managers, Len(managers') = Len(managers),
         listening => listening', aborted => listening' = listening
  PROVE  RingInv'
<1>1. Turn' = Turn /\ First' = First
  BY DEF Turn, First, TurnAt
<1>2. \A t : Behind(t)' = Behind(t)
  BY <1>1 DEF Behind
<1>3. (NoneYet => NoneYet') /\ (Even => Even') /\ (Ordinary' => Ordinary)
  BY DEF NoneYet, Even, Ordinary
<1>4. InRounds' <=> InRounds
  BY <1>1, <1>2 DEF InRounds
<1>5. Counted' <=> Counted
  BY <1>1, <1>2 DEF Counted
<1> QED
  <2>1. (~listening' => NoneYet') /\ Even' /\ (~aborted' => InRounds')
    BY <1>3, <1>4 DEF RingInv
  <2>2. ~aborted' /\ Ordinary' => Turn' \in DOMAIN managers' /\ Counted'
    BY <1>1, <1>3, <1>5 DEF RingInv
  <2>3. aborted' => ~listening' \/ ~Ordinary'
    BY <1>3 DEF RingInv
  <2> QED
    BY <2>1, <2>2, <2>3 DEF RingInv

LEMMA RingStep == PoolInv /\ PoolInv' /\ RingInv /\ [PoolNext]_poolVars => RingInv'
<1> SUFFICES ASSUME PoolInv, PoolInv', RingInv, [PoolNext]_poolVars
             PROVE  RingInv'
  OBVIOUS
<1>1. /\ DOMAIN managers = 1..Len(managers) /\ Len(managers) \in Nat
      /\ aborted \in BOOLEAN /\ listening \in BOOLEAN
  BY TurnProperties DEF PoolInv, PoolTypeOK
<1>2. ASSUME NEW n \in Manager, SetThreadsNumber(n)
      PROVE  RingInv'
  <2>1. ~listening' /\ NoneYet /\ UNCHANGED <<ringIndex, firstIndex, given>> /\ ~aborted
    BY <1>2 DEF SetThreadsNumber, RingInv
  <2>3. NoneYet'
    BY <2>1 DEF NoneYet
  <2>2. (Even /\ InRounds /\ (Ordinary => Turn \in DOMAIN managers /\ Counted))'
    BY <2>3, NoneYetRing, PTL
  <2> QED
    BY <2>1, <2>2, <2>3 DEF RingInv
<1>3. ASSUME NEW free \in BOOLEAN, StartServer(free)
      PROVE  RingInv'
  <2>1. /\ DOMAIN managers' = DOMAIN managers /\ Len(managers') = Len(managers)
        /\ (listening => listening') /\ ~aborted
        /\ UNCHANGED <<ringIndex, firstIndex, given, aborted>>
    BY <1>1, <1>3 DEF StartServer
  <2> QED
    BY <2>1, RingFrame
<1>4. ASSUME NEW t \in Manager, RunBegins(t)
      PROVE  RingInv'
  <2>1. /\ DOMAIN managers' = DOMAIN managers /\ Len(managers') = Len(managers)
        /\ listening' = listening
        /\ UNCHANGED <<ringIndex, firstIndex, given, aborted>>
    BY <1>1, <1>4 DEF RunBegins
  <2> QED
    BY <2>1, RingFrame
<1>5. ASSUME NEW c \in Connection, IncomingConnection(c)
      PROVE  RingInv'
  <2>1. /\ ~aborted /\ listening /\ listening' = listening /\ AdvanceRing
        /\ UNCHANGED <<managers, firstIndex>> /\ NextInRing + 1 = Turn
    BY <1>5 DEF IncomingConnection, NextInRing, Turn, TurnAt
  <2>2. Even /\ InRounds /\ (Ordinary => Turn \in DOMAIN managers /\ Counted)
    BY <2>1 DEF RingInv
  <2>3. CASE Turn \in DOMAIN managers
    <3>1. /\ given[Turn] < MaxGiven /\ given' = [given EXCEPT ![Turn] = @ + 1]
          /\ aborted' = aborted
      BY <1>5, <2>1, <2>3 DEF IncomingConnection
    <3>2. Even' /\ InRounds' /\ (Ordinary' => (Turn \in DOMAIN managers)' /\ Counted')
      BY <2>1, <2>2, <2>3, <3>1, GivenRing
    <3> QED
      BY <2>1, <3>1, <3>2 DEF RingInv
  <2>4. CASE Turn \notin DOMAIN managers
    <3>1. aborted' /\ given' = given
      BY <1>5, <2>1, <2>4 DEF IncomingConnection
    <3>2. Even' = Even
      BY <2>1, <3>1 DEF Even
    <3> QED
      BY <2>1, <2>2, <2>4, <3>1, <3>2, LostRing DEF RingInv
  <2> QED
    BY <2>3, <2>4
<1>6. ASSUME NEW t \in Manager, NEW k \in SessionNumber, ConnectionDies(t, k)
      PROVE  RingInv'
  BY <1>6, RingFrame DEF ConnectionDies
<1>7. CASE UNCHANGED poolVars
  BY <1>7, RingFrame DEF poolVars
<1> QED
  BY <1>2, <1>3, <1>4, <1>5, <1>6, <1>7 DEF PoolNext

\* incomingConnection gives no manager two connections more than another, and finds a
\* manager for each, unless the program never listened or began with a ringIndex that
\* is negative or wraps around.
THEOREM RingSpread == PoolSpec => []RingSpreads
<1>1. PoolInit => RingInv
  <2> SUFFICES ASSUME PoolInit PROVE RingInv
    OBVIOUS
  <2>1. NoneYet /\ ~aborted /\ ~listening
    BY DEF PoolInit, NoneYet
  <2> QED
    BY <2>1, PoolInitially, NoneYetRing DEF RingInv
<1>2. RingInv => RingSpreads
  BY DEF RingInv, RingSpreads, Even, Ordinary
<1> QED
  BY <1>1, <1>2, PoolAlways, RingStep, PTL DEF PoolSpec
=============================================================================
