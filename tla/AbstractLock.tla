---------------------------- MODULE AbstractLock ----------------------------
(***************************************************************************)
(* What DCL/Interfaces/IDCLThreads.h promises of a semaphore that protects *)
(* a resource: callers ask, one at a time is let in, and whoever is in     *)
(* gives the resource back.                                                *)
(***************************************************************************)
CONSTANT Clients
VARIABLES holding,   \* the clients that were let in
          asking     \* the clients blocked in their call

lvars == <<holding, asking>>

LockInit == holding = {} /\ asking = {}

\* A client that finds the resource free and unclaimed is let in at once.
EnterAtOnce(c) ==
  /\ holding = {} /\ asking = {}
  /\ holding' = {c}
  /\ UNCHANGED asking

Ask(c) ==
  /\ c \notin holding \cup asking
  /\ asking' = asking \cup {c}
  /\ UNCHANGED holding

\* One of the blocked clients, any of them, is let in once nobody is.
LetIn(c) ==
  /\ c \in asking
  /\ holding = {}
  /\ holding' = {c}
  /\ asking' = asking \ {c}

Leave(c) ==
  /\ c \in holding
  /\ holding' = holding \ {c}
  /\ UNCHANGED asking

LockNext == \E c \in Clients : EnterAtOnce(c) \/ Ask(c) \/ LetIn(c) \/ Leave(c)

LockSpec == LockInit /\ [][LockNext]_lvars
=============================================================================
