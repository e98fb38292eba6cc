--------------------------- MODULE NetworkAddress ---------------------------
(***************************************************************************)
(* Where a device or a control point is reached: on construction it takes  *)
(* a random port that nobody seems to listen on, and the first address of  *)
(* the host, and announces both from then on.  Its web server listens      *)
(* there later, and nobody looks at whether it could.                      *)
(*                                                                         *)
(* The applications are those of one host.  Random numbers depend on the   *)
(* second the application was started in, and on nothing else.             *)
(***************************************************************************)
EXTENDS Integers, Sequences, SequencesExt

CONSTANTS
  Application,   \* devices and control points of the host
  Loopback,      \* 127.0.0.1
  Interfaces,    \* the states of the network: sequences of interfaces
  RandMax,       \* RAND_MAX
  Rand,          \* [seconds -> sequences over 0..RandMax]: rand() after srand()
  FirstPort, LastPort,   \* 49152 and 65535 in the code
  PortModulus,   \* 2^16 in the code
  MaxRuns        \* bound: applications started

Seconds == DOMAIN Rand

ASSUME NetworkAssumption ==
  /\ RandMax \in Nat /\ {FirstPort, LastPort} \subseteq 1 .. PortModulus - 1
  /\ FirstPort <= LastPort /\ PortModulus \in Nat /\ PortModulus % 2 = 0
  /\ \A t \in Seconds : t \in Nat /\ Rand[t] \in Seq(0..RandMax)
  /\ \A now \in Interfaces : \A i \in DOMAIN now :
       DOMAIN now[i] = {"up", "running", "entries"}
  /\ MaxRuns \in Nat

VARIABLES
  clock,       \* time(NULL)
  interfaces,  \* QNetworkInterface::allInterfaces()
  phase,       \* of each application: "off", "drawing", "drawn", "made",
               \*   "listening" or "deaf"
  seed, draws, \* of its random numbers
  port, ipAddress,   \* what it announces
  probed,      \* ghost: the address at which its port was found closed
  before,      \* ghost: those that listened when it took its port
  slow,        \* ghost: its last probe was not answered in time
  runs         \* applications started so far

networkVars == <<clock, interfaces, phase, seed, draws, port, ipAddress, probed, before, slow, runs>>

NetworkInit ==
  /\ clock \in Seconds /\ interfaces \in Interfaces
  /\ phase = [a \in Application |-> "off"]
  /\ seed = [a \in Application |-> 0] /\ draws = [a \in Application |-> 0]
  /\ port = [a \in Application |-> 0] /\ ipAddress = [a \in Application |-> Loopback]
  /\ probed = [a \in Application |-> Loopback]
  /\ before = [a \in Application |-> {}] /\ slow = [a \in Application |-> FALSE]
  /\ runs = 0

-----------------------------------------------------------------------------
(* The host *)

Tick ==
  /\ clock + 1 \in Seconds /\ clock' = clock + 1
  /\ UNCHANGED <<interfaces, phase, seed, draws, port, ipAddress, probed, before, slow, runs>>

InterfacesChange(now) ==
  /\ interfaces' = now
  /\ UNCHANGED <<clock, phase, seed, draws, port, ipAddress, probed, before, slow, runs>>

\* The IPv4 addresses of interfaces that are up and run.
Addresses ==
  FlattenSeq([i \in DOMAIN interfaces |->
                IF interfaces[i].up /\ interfaces[i].running
                THEN SelectSeq(interfaces[i].entries, LAMBDA e : e.version = 4 /\ e.address # Loopback)
                ELSE <<>>])

\* getValidIP: the first of them.
ValidIP == IF Addresses = <<>> THEN Loopback ELSE Head(Addresses).address

Listening(address, p) ==
  {a \in Application : phase[a] = "listening" /\ ipAddress[a] = address /\ port[a] = p}

-----------------------------------------------------------------------------
(* getPort() *)

\* The number r of 0..RandMax, as a port.
PortOf(r) == FirstPort + r \div (RandMax \div (LastPort - FirstPort + 1) + 1)

\* A quint16 passed as a qint16, and a qint16 passed as a quint16.
Signed(p) == IF p < PortModulus \div 2 THEN p ELSE p - PortModulus

\* Mutant: the sign stays.
UnsignedNot(p) == p

Unsigned(p) == p % PortModulus

\* A new application: the random numbers start again.
BeginDrawing(a) ==
  /\ phase[a] = "off" /\ runs < MaxRuns
  /\ runs' = runs + 1
  /\ phase' = [phase EXCEPT ![a] = "drawing"]
  /\ seed' = [seed EXCEPT ![a] = clock] /\ draws' = [draws EXCEPT ![a] = 0]
  /\ UNCHANGED <<clock, interfaces, port, ipAddress, probed, before, slow>>

\* isPortOpen: what listens may fail to answer in time.  A port that is open is not
\* taken, and the next one is drawn.
DrawPort(a, answered) ==
  LET p == PortOf(Rand[seed[a]][draws[a] + 1])
      open == Listening(ValidIP, Unsigned(Signed(p))) # {}
  IN /\ phase[a] = "drawing" /\ draws[a] < Len(Rand[seed[a]])
     /\ draws' = [draws EXCEPT ![a] = @ + 1]
     /\ IF open /\ answered
        THEN UNCHANGED <<phase, port, probed, before, slow>>
        ELSE /\ phase' = [phase EXCEPT ![a] = "drawn"]
             /\ port' = [port EXCEPT ![a] = p] /\ probed' = [probed EXCEPT ![a] = ValidIP]
             /\ before' = [before EXCEPT ![a] = {b \in Application : phase[b] = "listening"}]
             /\ slow' = [slow EXCEPT ![a] = open]
     /\ UNCHANGED <<clock, interfaces, seed, ipAddress, runs>>

\* discoverNetworkAddress asks for the address once more, and buildUrlBase keeps it.
TakeAddress(a) ==
  /\ phase[a] = "drawn"
  /\ phase' = [phase EXCEPT ![a] = "made"]
  /\ ipAddress' = [ipAddress EXCEPT ![a] = ValidIP]
  /\ UNCHANGED <<clock, interfaces, seed, draws, port, probed, before, slow, runs>>

\* start(): the web server listens, unless the address is not one of the host any
\* more, or the port is taken.
ListenThere(a) ==
  /\ phase[a] = "made"
  /\ LET there == ipAddress[a] \in {Loopback} \cup {Addresses[i].address : i \in DOMAIN Addresses}
         free == Listening(ipAddress[a], port[a]) = {}
     IN phase' = [phase EXCEPT ![a] = IF there /\ free THEN "listening" ELSE "deaf"]
  /\ UNCHANGED <<clock, interfaces, seed, draws, port, ipAddress, probed, before, slow, runs>>

\* The application ends.
QuitApplication(a) ==
  /\ phase[a] \in {"made", "listening", "deaf"}
  /\ phase' = [phase EXCEPT ![a] = "off"]
  /\ before' = [b \in Application |-> IF b = a THEN {} ELSE before[b] \ {a}]
  /\ UNCHANGED <<clock, interfaces, seed, draws, port, ipAddress, probed, slow, runs>>

-----------------------------------------------------------------------------
NetworkNext ==
  \/ Tick
  \/ \E now \in Interfaces : InterfacesChange(now)
  \/ \E a \in Application : BeginDrawing(a)
  \/ \E a \in Application, answered \in BOOLEAN : DrawPort(a, answered)
  \/ \E a \in Application : TakeAddress(a)
  \/ \E a \in Application : ListenThere(a)
  \/ \E a \in Application : QuitApplication(a)

NetworkSpec == NetworkInit /\ [][NetworkNext]_networkVars

-----------------------------------------------------------------------------
(* Properties *)

\* The variables have their types.
NetworkTypeOK ==
  /\ clock \in Seconds /\ interfaces \in Interfaces
  /\ phase \in [Application -> {"off", "drawing", "drawn", "made", "listening", "deaf"}]
  /\ \A a \in Application : phase[a] # "off" => draws[a] \in 0 .. Len(Rand[seed[a]])
  /\ before \in [Application -> SUBSET Application]
  /\ slow \in [Application -> BOOLEAN] /\ runs \in 0..MaxRuns

\* The port an application announces is one of the dynamic ports, and nobody listened
\* there when it was taken, unless the probe was not answered in time or was sent to
\* another address than the one announced: so a server that cannot listen was overtaken
\* since, or its address is gone.
PortWasFree ==
  \A a \in Application :
    phase[a] \in {"made", "listening", "deaf"} =>
      /\ port[a] \in FirstPort..LastPort
      /\ ~slow[a] /\ ipAddress[a] = probed[a] =>
           \A b \in before[a] : <<ipAddress[b], port[b]>> # <<ipAddress[a], port[a]>>
=============================================================================
