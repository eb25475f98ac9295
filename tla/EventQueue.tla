----------------------------- MODULE EventQueue -----------------------------
(***************************************************************************)
(* What DCL/Interfaces/TDCLThread.h promises of the events of a thread:    *)
(* they are handled in the order of their arrival, among those the mask    *)
(* lets through, and each of them once.                                    *)
(***************************************************************************)
EXTENDS Integers

CONSTANTS Kind,      \* event kinds
          Mask,      \* masks the thread waits with
          Bound      \* bound: number of events ever posted

VARIABLES pending,   \* events posted and not handled: [n |-> arrival, kind |-> k]
          arrivals   \* number of events posted

qvars == <<pending, arrivals>>

QInit == pending = {} /\ arrivals = 0

Post == /\ arrivals < Bound
        /\ arrivals' = arrivals + 1
        /\ \E k \in Kind :
             pending' = pending \cup {[n |-> arrivals + 1, kind |-> k]}

\* An event is handled when no earlier one passes the same mask.
Handle == \E m \in Mask, e \in pending :
            /\ e.kind \in m
            /\ \A f \in pending : f.kind \in m => e.n <= f.n
            /\ pending' = pending \ {e}
            /\ UNCHANGED arrivals

QSpec == QInit /\ [][Post \/ Handle]_qvars
=============================================================================
