------------------------------ MODULE AuditTrail ------------------------------
(***************************************************************************)
(* What the application writer promises, without requests, locks or        *)
(* transactions: a status and the trail of stage changes that led to it    *)
(* always move together, one legal edge at a time.                         *)
(***************************************************************************)
EXTENDS ApplicationFSM, Naturals, Sequences

CONSTANT Apps                   \* application ids

VARIABLES status,               \* status[a]: the stage, NoStatus when there is no row
          trail                 \* trail[a]: the stage changes of a, oldest first

vars == <<status, trail>>

NoStatus == "none"

Init == /\ status = [a \in Apps |-> NoStatus]
        /\ trail  = [a \in Apps |-> <<>>]

Create(a, s) == /\ status[a] = NoStatus
                /\ status' = [status EXCEPT ![a] = s]
                /\ UNCHANGED trail

Move(a, to) == /\ status[a] # NoStatus
               /\ assert_transition(status[a], to)
               /\ status' = [status EXCEPT ![a] = to]
               /\ trail'  = [trail EXCEPT ![a] = Append(@, Edge(status[a], to))]

Delete(a) == /\ status[a] # NoStatus
             /\ status' = [status EXCEPT ![a] = NoStatus]
             /\ trail'  = [trail EXCEPT ![a] = <<>>]

Next == \E a \in Apps : \/ \E s \in ENTRY_STATES : Create(a, s)
                        \/ \E to \in VALID_STATES : Move(a, to)
                        \/ Delete(a)

Spec == Init /\ [][Next]_vars
-------------------------------------------------------------------------------
\* The trail of one application is a walk through the stage machine that starts
\* where creation may start.
IsWalk(t) ==
  /\ \A i \in 1..Len(t) : assert_transition(t[i].from, t[i].to)
  /\ \A i \in 1..(Len(t) - 1) : t[i].to = t[i + 1].from
  /\ t # <<>> => t[1].from \in ENTRY_STATES

\* The audit trail explains the status: replaying the stage changes of a row
\* from its first entry reaches the stage the row is in now, every step of the
\* replay is a legal move, and a deleted application leaves no trail.
TrailExplainsStatus ==
  \A a \in Apps :
    /\ IsWalk(trail[a])
    /\ status[a] = NoStatus => trail[a] = <<>>
    /\ status[a] # NoStatus /\ trail[a] = <<>> => status[a] \in ENTRY_STATES
    /\ trail[a] # <<>> => status[a] = trail[a][Len(trail[a])].to
===============================================================================
