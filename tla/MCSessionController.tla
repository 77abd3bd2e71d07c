----------------------- MODULE MCSessionController -----------------------
EXTENDS SessionController, TLC

\* Threads are interchangeable; sound where only invariants are checked.
ThreadSymmetry == Permutations(Threads)
=============================================================================
