--------------------------- MODULE MCReservations ---------------------------
(* A small phase: one component, two rows, lists with the cases that differ. *)
EXTENDS Reservations, TLC

CONSTANTS c, e, f

R(x) == [component |-> c, entity |-> x, kind |-> "Read"]
W(x) == [component |-> c, entity |-> x, kind |-> "Write"]

\* No access, a row or the store read or written, a row read twice, a row
\* read and another or the same one written.
MCRequests ==
    {<<>>, <<R(e)>>, <<W(e)>>, <<R(Whole)>>, <<W(Whole)>>, <<R(e), R(e)>>,
     <<R(e), W(f)>>, <<R(f), W(f)>>}

=============================================================================
