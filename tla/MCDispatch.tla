----------------------------- MODULE MCDispatch -----------------------------
\* Dispatch on a small city, for TLC.
EXTENDS Dispatch, TLC

\* Trips and drivers are interchangeable; only for runs without liveness.
Symmetric == Permutations(Trips) \cup Permutations(Drivers)
=============================================================================
