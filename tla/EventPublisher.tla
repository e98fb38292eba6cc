--------------------------- MODULE EventPublisher ---------------------------
(***************************************************************************)
(* What a UPnP device promises the subscribers of one of its services,     *)
(* without saying how: a subscription starts with event key 0 and a full   *)
(* set of values, every later event carries the current value of one       *)
(* variable under the next key, and once the subscription has ended no     *)
(* event is ever sent under its SID again.  EventController implements     *)
(* this module; losing or delaying an event on the way is not excluded.    *)
(***************************************************************************)
EXTENDS Integers

CONSTANTS Sid,       \* the identifiers a subscription can be given
          Var,       \* the service's state variables
          Val,       \* the values of a state variable
          InitVal,   \* the value of every variable at the start
          NoVal,     \* what a subscriber knows before its first event
          SeqMax     \* the largest event key, 2^32 - 1 in the code

VARIABLES values,    \* the value of each state variable
          status,    \* "unused", "active" or "ended", per SID
          key,       \* key of the last event sent under each SID, -1 if none
          view       \* what the events sent under a SID told its subscriber

vars == <<values, status, key, view>>

\* The event key that follows k: 0 comes first, and SeqMax wraps to 1.
NextKey(k) == IF k = SeqMax THEN 1 ELSE k + 1

Init ==
  /\ values = [v \in Var |-> InitVal]
  /\ status = [s \in Sid |-> "unused"]
  /\ key = [s \in Sid |-> -1]
  /\ view = [s \in Sid |-> [v \in Var |-> NoVal]]

Change(v, x) ==
  /\ values' = [values EXCEPT ![v] = x]
  /\ UNCHANGED <<status, key, view>>

\* A subscription and its initial event, with the value of every variable.
Start(s) ==
  /\ status[s] = "unused"
  /\ status' = [status EXCEPT ![s] = "active"]
  /\ key' = [key EXCEPT ![s] = 0]
  /\ view' = [view EXCEPT ![s] = values]
  /\ UNCHANGED values

\* An event about one variable.
Publish(s, v) ==
  /\ status[s] = "active"
  /\ key' = [key EXCEPT ![s] = NextKey(@)]
  /\ view' = [view EXCEPT ![s][v] = values[v]]
  /\ UNCHANGED <<values, status>>

\* Cancelled by the subscriber, or expired.
End(s) ==
  /\ status[s] = "active"
  /\ status' = [status EXCEPT ![s] = "ended"]
  /\ UNCHANGED <<values, key, view>>

Next ==
  \/ \E v \in Var, x \in Val : Change(v, x)
  \/ \E s \in Sid : Start(s) \/ End(s)
  \/ \E s \in Sid, v \in Var : Publish(s, v)

Spec == Init /\ [][Next]_vars

=============================================================================
