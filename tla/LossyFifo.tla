----------------------------- MODULE LossyFifo -----------------------------
(***************************************************************************)
(* What one direction of a call's audio promises (audio_bridge.py, its     *)
(* docstring under "Backpressure"): frames, numbered as they are produced, *)
(* may be lost, but what arrives arrives once and in order.                *)
(***************************************************************************)
EXTENDS Naturals, Sequences

CONSTANT Frames     \* bound on the frames of a call

VARIABLES produced, \* how many frames the producer has handed in
          arrived   \* the numbers of the frames the consumer got, in order

vars == <<produced, arrived>>

Newest(s) == IF s = <<>> THEN 0 ELSE s[Len(s)]

Init == produced = 0 /\ arrived = <<>>

Produce == /\ produced < Frames
           /\ produced' = produced + 1
           /\ UNCHANGED arrived

Arrive == \E n \in Newest(arrived) + 1 .. produced :
            /\ arrived' = Append(arrived, n)
            /\ UNCHANGED produced

Next == Produce \/ Arrive

Spec == Init /\ [][Next]_vars
=============================================================================
