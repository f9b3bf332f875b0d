------------------------- MODULE MCRelatedSchedules -------------------------
(* Instances of RelatedSchedules for TLC.                                    *)
EXTENDS RelatedSchedules, TLC

CONSTANTS p1, p2, p3, r1, r2, r3, r4, a, b, daily, blanks, dawn, noon, noonCET

Interval(n, period) == [attr |-> "interval", every |-> n, period |-> period]
Crontab(f, tz)      == [attr |-> "crontab", fields |-> f, timezone |-> tz]
Solar(e, at)        == [attr |-> "solar", event |-> e, place |-> at]

Task(n, x, attr, r) ==
    [name |-> n, args |-> x, one_off |-> FALSE,
     interval |-> IF attr = "interval" THEN r ELSE NoId,
     crontab  |-> IF attr = "crontab" THEN r ELSE NoId,
     clocked  |-> IF attr = "clocked" THEN r ELSE NoId,
     solar    |-> IF attr = "solar" THEN r ELSE NoId]

\* Two tasks share one interval row; a key is free.
SharedTasks   == (p1 :> Task(Bare(a), "junk", "interval", r1))
              @@ (p2 :> Task(Bare(p1), "[]", "interval", r1)) @@ (p3 :> NoRow)
SharedRelated == (r1 :> Interval(1, "minutes")) @@ (r2 :> Crontab(daily, "CET"))
              @@ (r3 :> NoRow) @@ (r4 :> NoRow)

\* An entry that is named like the first task's id, and one whose id a task
\* may be named after.
TwoEntries == {[name |-> DcbId(p1), args |-> "[]", schedule |-> [type |-> "timedelta", length |-> 3]],
               [name |-> Bare(b), args |-> "[]",
                schedule |-> [type |-> "crontab", fields |-> daily, tz |-> "CET"]]}
FewTexts    == {StaticId(Bare(b)), DcbId(p2)}
FewArgs     == {""}
FewValues   == {Interval(2, "minutes")}

\* Texts that are read back as another: more blanks, another offset.
FewCanonical == (daily :> daily) @@ (blanks :> daily) @@ (EveryMinute :> EveryMinute)
             @@ (noon :> noon) @@ (noonCET :> noon)

Definition(n, kind, e) ==
    [name |-> n, kind |-> kind, expression |-> e, timezone |-> "CET", args |-> "[]"]
At(definition, place) ==
    [f \in DOMAIN definition \cup {"place"} |-> IF f = "place" THEN place ELSE definition[f]]
Schedule(n, kind, e)    == At(Definition(n, kind, e), NoPlace)
Req(op, p, changes)  == [op |-> op, pk |-> p, changes |-> changes]

\* A fraction of a second; half a microsecond more is too fine.
Halves == 3 * Microsecond
\* A place of the table's precision, and one that is finer and rounds to it.
Here   == 4 * Microdegree
Nearby == Here - 1

WriteRequests ==
    {Req("update", p1, Schedule(Bare(a), "cron", blanks)),
     Req("update", p2, At(Definition(Bare(p1), "solar", dawn), Here)),
     Req("update", p2, At(Definition(Bare(p1), "solar", dawn), Nearby)),
     Req("update", p2, Schedule(Bare(p1), "clocked", noonCET)),
     Req("mutate_update", p1, [args |-> "[1]"]),
     Req("mutate_update", p1, [kind |-> "clocked"]),
     Req("mutate_create", NoId, Definition(Bare(b), "interval", Halves + 1)),
     Req("mutate_create", NoId, At(Definition(Bare(b), "solar", dawn), Here)),
     Req("mutate_create", NoId, Definition(Bare(b), "cron", Empty)),
     Req("mutate_create", NoId, Definition(Bare(b), "interval", (MaxEvery + 1) * Microsecond)),
     Req("create", NoId, Schedule(Bare(b), "interval", Halves))}

SameRequests   == {Req("update", p1, Schedule(Bare(a), "interval", Halves))}
NativeRequests == {Req("mutate_update", p1, [args |-> "[1]"])}

SessionSymmetry == Permutations(Sessions) \cup Permutations({r3, r4})
==============================================================================
