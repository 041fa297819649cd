---------------------------- MODULE MCDispatch ----------------------------
EXTENDS Dispatch

R(c) == [cell |-> c, kind |-> "Read"]
W(c) == [cell |-> c, kind |-> "Write"]

\* An asynchronous writer, a synchronous reader system of two rows and an
\* asynchronous reader; all fetch a before b.
MCRows == {"w", "s1", "s2", "x"}
MCPlanned == <<"w", "s1", "s2", "x">>
MCSystemOf == [r \in MCRows |-> CASE r = "w" -> 1 [] r = "x" -> 3 [] OTHER -> 2]
MCSync == {"s1", "s2"}
MCAccesses ==
    [r \in MCRows |->
        CASE r = "w"  -> <<W("a"), W("b")>>
          [] r = "s1" -> <<R("a"), R("b")>>
          [] r = "s2" -> <<R("b")>>
          [] r = "x"  -> <<R("a")>>]
MCCells == {"a", "b"}
MCScoop == <<"a">>

\* Two rows of an asynchronous reader share a batch. Every row alone fetches a
\* before b, but their task may hold b for one and fetch a for the other.
BatchRows == {"w", "x1", "x2"}
BatchPlanned == <<"w", "x1", "x2">>
BatchSystemOf == [r \in BatchRows |-> IF r = "w" THEN 1 ELSE 2]
BatchAccesses ==
    [r \in BatchRows |->
        CASE r = "w"  -> <<W("a"), W("b")>>
          [] r = "x1" -> <<R("a")>>
          [] r = "x2" -> <<R("b")>>]
NoScoop == <<>>
=============================================================================
