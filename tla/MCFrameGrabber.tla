--------------------------- MODULE MCFrameGrabber ---------------------------
(* Model checking of FrameGrabber: the consumers are interchangeable.      *)
EXTENDS FrameGrabber, TLC

ConsumerSymmetry == Permutations(Consumers)

=============================================================================
