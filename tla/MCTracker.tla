----------------------------- MODULE MCTracker -----------------------------
(* Instances of Tracker for TLC.                                           *)
EXTENDS Tracker

Det(class, p) == [c |-> class, pos |-> p]

\* Three places of which neighbours are near, and a second class.
MCDetections == {Det("car", 0), Det("car", 1), Det("car", 2), Det("bike", 1)}

\* The clock also goes back.
MCClockSteps == {-30, 30}

MCOneDetection == {Det("car", 0), Det("bike", 0)}
=============================================================================
