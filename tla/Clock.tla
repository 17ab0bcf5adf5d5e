------------------------------- MODULE Clock -------------------------------
(***************************************************************************)
(* What the parts of the server that depend on time share: the clock, the  *)
(* threads that serve requests, and the load.  A part reads the clock in   *)
(* one step and acts on the reading in a later one; the clock may advance  *)
(* in between, as far as the thread is slow.                               *)
(***************************************************************************)
EXTENDS Integers, FiniteSets

CONSTANTS
    Threads,   \* the threads that serve requests
    MaxTime,   \* where the clock stops
    Loads,     \* the loads to consider: which kinds of request arrive together
    None

VARIABLES
    now,       \* the time
    load       \* the kinds of request that arrive

ASSUME ClockAssumption ==
    /\ MaxTime \in Nat /\ None \notin Threads \cup Int
    /\ IsFiniteSet(Threads)

clockVars == <<now, load>>

ClockInit == now = 0 /\ load \in Loads

\* The bound on a behaviour: time stands still at MaxTime.
Tick ==
    /\ now < MaxTime
    /\ now' = now + 1
    /\ UNCHANGED load
=============================================================================
