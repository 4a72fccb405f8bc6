------------------------------ MODULE MCWorker ------------------------------
(* A small instance of Worker for TLC: two goroutines stand for the ten.   *)
EXTENDS Worker

CONSTANTS g, h,   \* the goroutines
          a, b    \* the callers of Quit

Handlers == {g, h}
Callers == {a, b}

=============================================================================
