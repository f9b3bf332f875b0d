------------------------ MODULE MCPeriodicTaskStore ------------------------
(* Instances of PeriodicTaskStore for TLC: two rows, one of whose names may  *)
(* read as the other's primary key, and a key that is free.                  *)
EXTENDS PeriodicTaskStore, TLC

CONSTANTS p1, p2, p3, a, b, d1, d2

OnePk    == {p1}
ThreePks == {p1, p2, p3}
OneName  == {a}
TwoNames == {a, b}
OneDef   == {d1}
TwoDefs  == {d1, d2}

\* The name b reads as the number p1.
NoNumber == <<>>
BIsP1    == b :> p1

Config(n, d, e) == [name |-> n, def |-> d, enabled |-> e]
Row(c)          == [config |-> c, runs |-> 0]

On(op, pk, spec, expected) ==
    [op |-> op, pk |-> pk, text |-> NoName, spec |-> spec,
     overlap |-> "allow", expected |-> expected]

Bare(op, text, spec) ==
    [op |-> op, pk |-> NoPk, text |-> text, spec |-> spec,
     overlap |-> "allow", expected |-> spec]

Start == Config(a, d1, TRUE)
Other == Config(b, d1, TRUE)
Edit  == Config(a, d2, TRUE)
Off   == Config(a, d1, FALSE)

OneRow  == (p1 :> Row(Start))
TwoRows == (p1 :> Row(Start)) @@ (p2 :> Row(Other)) @@ (p3 :> NoRow)

\* Two writers of one row, each kind against each.
WriteRequests ==
    {On("update", p1, Edit, Start), On("set_enabled", p1, Off, Start),
     Bare("delete", a, Start), On("mutate_update", p1, Edit, Start),
     On("mutate_delete", p1, Start, Start)}

\* Creations, identities of both kinds, and the refusals.
NameRequests ==
    {Bare("create", a, Start), Bare("create", b, Other),
     [Bare("create", b, Other) EXCEPT !.overlap = "skip"],
     [On("update", p1, Other, Start) EXCEPT !.overlap = "skip"],
     Bare("mutate_create", b, Other), On("mutate_create", p3, Other, Start),
     On("get", p1, Start, Start),
     Bare("get", b, Start), Bare("set_enabled", b, Off),
     Bare("delete", a, Start), On("delete", p1, Start, Start),
     Bare("update", b, Other),
     On("update", p1, Other, Start),
     Bare("mutate_delete", a, Start), On("mutate_update", p1, Other, Start)}

SessionSymmetry == Permutations(Sessions)

-----------------------------------------------------------------------------
(* A reconciler that makes an update, sees it time out and makes it again.   *)

CONSTANTS first, retry

RetryRequests == {On("update", p1, Edit, Start)}

\* The retry is made once the first attempt has been reported as timed out.
RetryAfterTimeout ==
    pc[retry] = "idle" /\ pc'[retry] # "idle" => reply[first] = "OffloadTimeoutError"

RetrySpec == Init /\ [][Next /\ RetryAfterTimeout]_vars

\* "The update is idempotent (it re-applies the same spec), so the reconciler
\* safely retries next cycle" (sources/dcb.py:209): once the retry has
\* succeeded, the first attempt finds nothing left to change.
RetryIsSafe ==
    [][Lands(first) /\ reply[retry] = "ok" =>
          \A p \in Pks : Exists(p) /\ rows'[p].config = rows[p].config]_vars
============================================================================
