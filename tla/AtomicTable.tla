------------------------------ MODULE AtomicTable ------------------------------
(***************************************************************************)
(* What the callers of sources/dcb.py may think its operations are: single *)
(* steps on the PeriodicTask table.                                        *)
(*                                                                         *)
(* A creation, a toggle, a deletion and a compare-and-set edit take effect *)
(* at one moment, at most once, and touch nothing they were not asked to;  *)
(* the compare-and-set edits do so only where the row is what was          *)
(* expected.  update_schedule is the exception: it puts every column of    *)
(* the row in place, Beat's run counter at an arbitrary value, also where  *)
(* the row has been deleted.  An answer is "ok" or "no" only when nothing  *)
(* can happen any more; "unknown" promises nothing.                        *)
(***************************************************************************)
EXTENDS Naturals

CONSTANTS Sessions, Pks, Configs, Requests, Table, MaxRuns, NoPk, NoRow

VARIABLES rows,    \* the table
          used,    \* primary keys handed out
          req,     \* per session: its request
          answer,  \* per session: "open", "ok", "no" or "unknown"
          landed   \* per session: whether it has taken effect

vars == <<rows, used, req, answer, landed>>

Exists(p)      == rows[p] # NoRow
NameFree(n, p) == \A q \in Pks : Exists(q) /\ rows[q].config.name = n => q = p

Init ==
    /\ rows   = Table
    /\ used   = {p \in Pks : Table[p] # NoRow}
    /\ req    \in [Sessions -> Requests]
    /\ answer = [s \in Sessions |-> "open"]
    /\ landed = [s \in Sessions |-> FALSE]

\* The rows a request may mean: the one it names, or any under a bare text.
Meant(s) == {p \in Pks : req[s].pk \in {p, NoPk}}

Land(s, ops) ==
    /\ req[s].op \in ops
    /\ ~landed[s]
    /\ answer[s] \in {"open", "unknown"}
    /\ landed' = [landed EXCEPT ![s] = TRUE]
    /\ UNCHANGED <<req, answer>>

Create(s) ==
    /\ Land(s, {"create", "mutate_create"})
    /\ \E p \in Pks \ used :
          /\ NameFree(req[s].spec.name, p)
          /\ rows' = [rows EXCEPT ![p] = [config |-> req[s].spec, runs |-> 0]]
          /\ used' = used \cup {p}

Toggle(s) ==
    /\ Land(s, {"set_enabled"})
    /\ \E p \in Meant(s) :
          /\ Exists(p)
          /\ rows' = [rows EXCEPT ![p].config.enabled = req[s].spec.enabled]
    /\ UNCHANGED used

Delete(s) ==
    /\ Land(s, {"delete"})
    /\ \E p \in Meant(s) : rows' = [rows EXCEPT ![p] = NoRow]
    /\ UNCHANGED used

\* The row is, now, what the caller last saw.
AsExpected(s) == Exists(req[s].pk) /\ rows[req[s].pk].config = req[s].expected

CompareAndSet(s) ==
    /\ Land(s, {"mutate_update"})
    /\ AsExpected(s)
    /\ NameFree(req[s].spec.name, req[s].pk)
    /\ rows' = [rows EXCEPT ![req[s].pk].config = req[s].spec]
    /\ UNCHANGED used

CompareAndDelete(s) ==
    /\ Land(s, {"mutate_delete"})
    /\ AsExpected(s)
    /\ rows' = [rows EXCEPT ![req[s].pk] = NoRow]
    /\ UNCHANGED used

Overwrite(s) ==
    /\ Land(s, {"update"})
    /\ \E p \in Meant(s) \cap used, n \in 0..MaxRuns :
          /\ NameFree(req[s].spec.name, p)
          /\ rows' = [rows EXCEPT ![p] = [config |-> req[s].spec, runs |-> n]]
    /\ UNCHANGED used

\* A deletion may have found nothing left to do.
Answer(s) ==
    /\ answer[s] = "open"
    /\ \/ /\ landed[s] \/ req[s].op \in {"get", "delete"}
          /\ answer' = [answer EXCEPT ![s] = "ok"]
       \/ ~landed[s] /\ answer' = [answer EXCEPT ![s] = "no"]
       \/ answer' = [answer EXCEPT ![s] = "unknown"]
    /\ UNCHANGED <<rows, used, req, landed>>

\* The administration site saves or deletes the row, Beat counts a run.
Others(p) ==
    /\ Exists(p)
    /\ \/ \E c \in Configs : NameFree(c.name, p) /\ rows' = [rows EXCEPT ![p].config = c]
       \/ rows' = [rows EXCEPT ![p] = NoRow]
       \/ rows[p].runs < MaxRuns /\ rows' = [rows EXCEPT ![p].runs = @ + 1]
    /\ UNCHANGED <<used, req, answer, landed>>

Effect(s) ==
    \/ Create(s) \/ Toggle(s) \/ Delete(s) \/ Overwrite(s)
    \/ CompareAndSet(s) \/ CompareAndDelete(s)

Next == \/ \E s \in Sessions : Effect(s) \/ Answer(s)
        \/ \E p \in Pks : Others(p)

Spec == Init /\ [][Next]_vars
==============================================================================
