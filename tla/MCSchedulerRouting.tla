------------------------- MODULE MCSchedulerRouting -------------------------
(* Instances of SchedulerRouting for TLC.                                   *)
EXTENDS SchedulerRouting, TLC

\* The adapter's own sources, and sources an embedder might inject.
BuiltIn == <<"dcb", "static">>
Mixed   == <<"custom", "dcb", "static", "custom">>

All(ops) == {[op |-> o, id |-> x] : o \in ops, x \in Ids}

AnyRequests  == All(Ops)
ColdRequests == All({"external", "update", "delete"})
FireRequests == All({"trigger"})

CommandSymmetry == Permutations(Commands)
=============================================================================
