------------------------------ MODULE MCDelivery ------------------------------
(* Where the rows of the jobs go, for TLC. *)
EXTENDS Delivery, TLC

CONSTANTS a, b, d1, d2, d3

\* Job a has two files, job b one, each in a place of its own.
Apart == (a :> <<d1, d2>>) @@ (b :> <<d3>>)

\* Two releases with the same file name.
Shared == (a :> <<d1>>) @@ (b :> <<d1>>)
=============================================================================
