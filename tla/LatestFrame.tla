---------------------------- MODULE LatestFrame ----------------------------
(***************************************************************************)
(* What FrameGrabber promises its users (FrameGrabber.h, class comment):   *)
(* frames arrive in the background and the LATEST one is handed out, each  *)
(* at most once.  There is no queue: a frame nobody fetched is replaced by *)
(* the next one, and a call that waits for the next frame discards the one *)
(* that was there before it.                                               *)
(***************************************************************************)
EXTENDS Naturals

CONSTANT Consumers

VARIABLES
  count,    \* frames published so far; the newest frame has this number
  fresh,    \* the newest frame has been neither handed out nor discarded
  got       \* the frame each consumer holds, 0 if it holds none

vars == <<count, fresh, got>>

None == 0

Init ==
  /\ count = 0
  /\ fresh = FALSE
  /\ got = [c \in Consumers |-> None]

Publish ==
  /\ count' = count + 1
  /\ fresh' = TRUE
  /\ UNCHANGED got

Discard ==
  /\ fresh' = FALSE
  /\ UNCHANGED <<count, got>>

Take(c) ==
  /\ fresh
  /\ fresh' = FALSE
  /\ got' = [got EXCEPT ![c] = count]
  /\ UNCHANGED count

Forget(c) ==
  /\ got' = [got EXCEPT ![c] = None]
  /\ UNCHANGED <<count, fresh>>

Next ==
  \/ Publish
  \/ Discard
  \/ \E c \in Consumers : Take(c) \/ Forget(c)

Spec == Init /\ [][Next]_vars

=============================================================================
