-------------------------------- MODULE Lease --------------------------------
(***************************************************************************)
(* What the runtime promises about the resources of sessions: a session    *)
(* holds at most one generation of them, and a generation number is handed *)
(* out once, to one session, above every number handed out before.         *)
(***************************************************************************)
EXTENDS Integers

CONSTANT Sessions

VARIABLES
  lease,  \* lease[s]: generation whose resources s holds, or 0
  high    \* highest generation number handed out or wasted

vars == <<lease, high>>

Init ==
  /\ lease = [s \in Sessions |-> 0]
  /\ high = 0

\* A new generation, which may take the place of the one s held.
Grant(s) ==
  /\ lease'[s] > high
  /\ high' = lease'[s]
  /\ lease' = [lease EXCEPT ![s] = lease'[s]]

\* The resources of s go, and a number may be wasted on a failed replacement.
Revoke(s) ==
  /\ lease[s] # 0
  /\ lease' = [lease EXCEPT ![s] = 0]
  /\ high' >= high

Waste ==
  /\ high' > high
  /\ UNCHANGED lease

RevokeAll ==
  /\ lease' = [s \in Sessions |-> 0]
  /\ UNCHANGED high

Next == (\E s \in Sessions : Grant(s) \/ Revoke(s)) \/ Waste \/ RevokeAll

Spec == Init /\ [][Next]_vars
=============================================================================
