--------------------------- MODULE BufferExchange ---------------------------
(***************************************************************************)
(* What an LPA session promises about its buffers, without threads, locks   *)
(* or a driver: a buffer travels from the empty ones through the writer's   *)
(* hands to the filled ones and back, a flush takes the filled ones back at *)
(* once, and the end of the stream is announced only when no buffer is left *)
(* to be played, neither filled nor in the writer's hands.                  *)
(***************************************************************************)
EXTENDS Naturals

CONSTANT Buffers

VARIABLES
  empty, hand, filled,   (* where the buffers are                            *)
  released,              (* buffers given back to the system                 *)
  announced              (* ends of stream announced since the last flush,   *)
                         (* counted up to 2                                  *)

vars == <<empty, hand, filled, released, announced>>

Init ==
  /\ empty \in SUBSET Buffers
  /\ hand = {} /\ filled = {} /\ released = {}
  /\ announced = 0

Take(b) ==
  /\ b \in empty /\ hand = {}
  /\ empty' = empty \ {b}
  /\ hand' = {b}
  /\ UNCHANGED <<filled, released, announced>>

Fill ==
  /\ hand # {}
  /\ filled' = filled \cup hand
  /\ hand' = {}
  /\ UNCHANGED <<empty, released, announced>>

Recycle(b) ==
  /\ b \in filled
  /\ filled' = filled \ {b}
  /\ empty' = empty \cup {b}
  /\ UNCHANGED <<hand, released, announced>>

(* Only when nothing is in the writer's hands.                               *)
TakeBack ==
  /\ hand = {}
  /\ empty' = empty \cup filled
  /\ filled' = {}
  /\ announced' = 0
  /\ UNCHANGED <<hand, released>>

AnnounceEnd ==
  /\ filled = {} /\ hand = {}
  /\ announced' \in {announced, announced + 1} \cap (0..2)
  /\ UNCHANGED <<empty, hand, filled, released>>

ReleaseEmpty ==
  /\ released' = released \cup empty
  /\ empty' = {}
  /\ UNCHANGED <<hand, filled, announced>>

ReleaseFilled ==
  /\ released' = released \cup filled
  /\ filled' = {}
  /\ UNCHANGED <<empty, hand, announced>>

Next ==
  \/ \E b \in Buffers : Take(b) \/ Recycle(b)
  \/ Fill \/ TakeBack \/ AnnounceEnd \/ ReleaseEmpty \/ ReleaseFilled

Spec == Init /\ [][Next]_vars
=============================================================================
