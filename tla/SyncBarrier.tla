---------------------------- MODULE SyncBarrier ----------------------------
(***************************************************************************)
(* What a layer's sync points promise, without locks, queues or fences     *)
(* (spec.md sections 4.1 step 6, 4.2 and 5).  A dependency registered for  *)
(* frame t of this layer goes waiting -> released -> applied: it is        *)
(* released (frameAvailable) only once the producer has produced frame t,  *)
(* or when the producer disconnects; the requester then applies its       *)
(* transaction.  The layer's current frame only moves forward, to a        *)
(* produced frame, and never to or past the target of a dependency whose  *)
(* transaction is not applied.                                             *)
(***************************************************************************)
EXTENDS Naturals

CONSTANTS MaxFrame, SyncPoints

VARIABLES
    frame,      \* the layer's latched frame number
    produced,   \* the last frame number the producer queued
    closed,     \* the producer has disconnected
    deps        \* each dependency's target frame and state

vars == <<frame, produced, closed, deps>>

States == {"unused", "waiting", "released", "applied"}

Init ==
    /\ frame = 0
    /\ produced = 0
    /\ closed = FALSE
    /\ deps = [p \in SyncPoints |-> [target |-> 0, state |-> "unused"]]

Produce ==
    /\ ~closed /\ produced < MaxFrame
    /\ produced' = produced + 1
    /\ UNCHANGED <<frame, closed, deps>>

\* A dependency can only be registered for a frame not yet latched.
Register(p, t) ==
    /\ ~closed
    /\ deps[p].state = "unused"
    /\ frame < t
    /\ deps' = [deps EXCEPT ![p] = [target |-> t, state |-> "waiting"]]
    /\ UNCHANGED <<frame, produced, closed>>

\* Some waiting dependencies on produced frames are released together.
Release(S) ==
    /\ S # {}
    /\ \A p \in S : deps[p].state = "waiting" /\ deps[p].target <= produced
    /\ deps' = [p \in SyncPoints |->
                  IF p \in S THEN [deps[p] EXCEPT !.state = "released"] ELSE deps[p]]
    /\ UNCHANGED <<frame, produced, closed>>

Apply(p) ==
    /\ deps[p].state = "released"
    /\ deps' = [deps EXCEPT ![p].state = "applied"]
    /\ UNCHANGED <<frame, produced, closed>>

\* The barrier: every dependency up to frame n has its transaction applied.
Latch(n) ==
    /\ frame < n /\ n <= produced
    /\ \A p \in SyncPoints :
          deps[p].state # "unused" /\ deps[p].target <= n => deps[p].state = "applied"
    /\ frame' = n
    /\ UNCHANGED <<produced, closed, deps>>

\* Disconnect releases every waiting dependency at once.
Close ==
    /\ ~closed
    /\ closed' = TRUE
    /\ deps' = [p \in SyncPoints |->
                  IF deps[p].state = "waiting" THEN [deps[p] EXCEPT !.state = "released"]
                  ELSE deps[p]]
    /\ UNCHANGED <<frame, produced>>

Next ==
    \/ Produce
    \/ \E p \in SyncPoints, t \in 1..MaxFrame : Register(p, t)
    \/ \E S \in SUBSET SyncPoints : Release(S)
    \/ \E p \in SyncPoints : Apply(p)
    \/ \E n \in 1..MaxFrame : Latch(n)
    \/ Close

Spec == Init /\ [][Next]_vars

=============================================================================
