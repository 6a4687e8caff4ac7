---------------------------------- MODULE Sums ----------------------------------
(***************************************************************************)
(* The running sum of a sequence of integers: of the sizes of the events   *)
(* of the UART, and of the times in libcoap's queue of waiting messages.   *)
(***************************************************************************)
EXTENDS Integers

(* f[1] + ... + f[n]                                                       *)
SumTo(f, n) ==
    LET sum[j \in 0..n] == IF j = 0 THEN 0 ELSE sum[j - 1] + f[j]
    IN  sum[n]

=============================================================================
