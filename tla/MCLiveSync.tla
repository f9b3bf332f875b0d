------------------------------ MODULE MCLiveSync ------------------------------
(* An instance of LiveSync for TLC: one row, which is there at the start.       *)
EXTENDS LiveSync, TLC

CONSTANTS p1, d1, d2

On(d)  == [def |-> d, enabled |-> TRUE]
Off(d) == [def |-> d, enabled |-> FALSE]

OneRow == (p1 :> On(d1))

Req(op, p, row, atomic) == [op |-> op, pk |-> p, row |-> row, atomic |-> atomic]

\* The writes of the source itself (a toggle and a native save in a transaction,
\* a plain save and a delete), of the application, of Beat, and of others.
WriteRequests ==
    {Req("save", p1, On(d2), FALSE), Req("save", p1, On(d2), TRUE),
     Req("save", p1, Off(d2), FALSE), Req("toggle", p1, Off(d1), TRUE),
     Req("tick", p1, On(d1), FALSE), Req("delete", p1, On(d1), FALSE),
     Req("foreign", p1, On(d2), FALSE), Req("foreign", p1, NoRow, FALSE)}
==============================================================================
