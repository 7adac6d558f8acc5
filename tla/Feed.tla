-------------------------------- MODULE Feed --------------------------------
(***************************************************************************)
(* What a stream of the virtual camera promises the application that reads *)
(* it: while a run of the stream lasts, buffers numbered from zero enter a *)
(* bounded queue and leave it in the same order; a number is missing only  *)
(* when its buffer was lost before it entered; runs do not overlap.        *)
(* Module Stream implements it.                                            *)
(***************************************************************************)
EXTENDS Naturals, Sequences

CONSTANTS Capacity, Modulus

VARIABLES
    live,   \* a run of the stream lasts
    next,   \* the number of the next buffer
    missed, \* how many were lost since the last that entered
    fifo    \* the buffers not yet taken: number, and how many are missing before it

Init == live = FALSE /\ next = 0 /\ missed = 0 /\ fifo = <<>>

Begin == ~live /\ live' = TRUE /\ next' = 0 /\ missed' = 0 /\ UNCHANGED fifo

Number == next' = (next + 1) % Modulus

Emit ==
    /\ live
    /\ Len(fifo) < Capacity
    /\ fifo' = Append(fifo, [seq |-> next, missed |-> missed])
    /\ Number /\ missed' = 0
    /\ UNCHANGED live

Lose == live /\ Number /\ missed' = missed + 1 /\ UNCHANGED <<live, fifo>>

Take == fifo # <<>> /\ fifo' = Tail(fifo) /\ UNCHANGED <<live, next, missed>>

End == live /\ live' = FALSE /\ UNCHANGED <<next, missed, fifo>>

Next == Begin \/ Emit \/ Lose \/ Take \/ End

Spec == Init /\ [][Next]_<<live, next, missed, fifo>>
=============================================================================
