---------------------------- MODULE ScheduleMapper ----------------------------
(***************************************************************************)
(* src/z4j_celerybeat/mapper.py: how a django-celery-beat row, joined with *)
(* the schedule row it points to, and an entry of beat_schedule read as a  *)
(* Schedule.  The columns both forms copy unchanged (task, queue, kwargs,  *)
(* enabled, the run counter) are one value in PeriodicTaskStore and are    *)
(* left out here.                                                          *)
(*                                                                         *)
(* Durations are counted in half microseconds and coordinates in thirds of *)
(* a millionth of a degree, so that a decimal that is finer than its       *)
(* column can be told from one that is not.                                *)
(***************************************************************************)
EXTENDS Integers

CONSTANTS MicrosPerSecond,  \* 1_000_000
          NoPlace           \* a Schedule without solar coordinates

ASSUME MapperAssumption == MicrosPerSecond \in Nat \ {0}

\* What a foreign key that is null leads to: a row of no table.
NoRow == [attr |-> "none"]

Microdegree == 3
Microsecond == 2
Second      == MicrosPerSecond * Microsecond

\* Mutant: fractions of a second are cut off.
LengthTruncated(period) ==
    CASE period = "microseconds" -> 0
      [] period = "minutes"      -> 60 * Second
      [] period = "hours"        -> 3600 * Second
      [] period = "days"         -> 86400 * Second
      [] OTHER                   -> Second

\* An unknown period counts as seconds.
Length(period) ==
    CASE period = "microseconds" -> Microsecond
      [] period = "minutes"      -> 60 * Second
      [] period = "hours"        -> 3600 * Second
      [] period = "days"         -> 86400 * Second
      [] OTHER                   -> Second

IntervalToSeconds(every, period) == every * Length(period)

\* args and kwargs are JSON text; text that is empty or does not parse reads as
\* the empty list.
ParseJsonField(text) == IF text \in {"", "junk"} THEN "[]" ELSE text

-----------------------------------------------------------------------------
(* Identities.  A text is [scheme, of]: "dcb:7", "static:<digest of x>", or  *)
(* anything else, which may read as a number.                                *)

DcbId(p)    == [scheme |-> "dcb",    of |-> p]
StaticId(n) == [scheme |-> "static", of |-> n]
Bare(x)     == [scheme |-> "bare",   of |-> x]

-----------------------------------------------------------------------------
(* Database rows.  A periodic task is [task, rows]: its own columns, and     *)
(* under each of its four foreign keys the row it points to, or NoRow.       *)

\* The first of the four that is set decides.
ResolveKindAndExpression(rows) ==
    LET as(kind, expression, timezone) ==
            [kind |-> kind, expression |-> expression, timezone |-> timezone]
    IN  IF rows.interval # NoRow
        THEN as("interval", IntervalToSeconds(rows.interval.every, rows.interval.period), "UTC")
        ELSE IF rows.crontab # NoRow
        THEN as("cron", rows.crontab.fields, rows.crontab.timezone)
        ELSE IF rows.clocked # NoRow THEN as("clocked", rows.clocked.time, "UTC")
        ELSE IF rows.solar # NoRow THEN as("solar", rows.solar.event, "UTC")
        ELSE as("interval", 0, "UTC")

Coordinates(rows) ==
    IF ResolveKindAndExpression(rows).kind = "solar" THEN rows.solar.place ELSE NoPlace

IntervalColumns(rows) ==
    IF rows.interval = NoRow THEN <<>> ELSE <<rows.interval.every, rows.interval.period>>

\* Mutant: the hash is taken of the parsed arguments.
NativeParsed(periodic) ==
    <<[periodic.task EXCEPT !.args = ParseJsonField(@)],
      IntervalColumns(periodic.rows), Coordinates(periodic.rows)>>

\* What source_hash is a digest of: the raw columns and keys behind the
\* Schedule, and of the rows they point to the interval and the coordinates.
Native(periodic) ==
    <<periodic.task, IntervalColumns(periodic.rows), Coordinates(periodic.rows)>>

MapPeriodicTask(p, periodic) ==
    LET resolved == ResolveKindAndExpression(periodic.rows)
    IN  [external_id |-> DcbId(p), name |-> periodic.task.name,
         kind |-> resolved.kind, expression |-> resolved.expression,
         timezone |-> resolved.timezone, args |-> ParseJsonField(periodic.task.args),
         place |-> Coordinates(periodic.rows), source_hash |-> Native(periodic)]

-----------------------------------------------------------------------------
(* Entries of beat_schedule: a name, arguments and a schedule, which is      *)
(* None, a number of seconds, a timedelta, a crontab, a solar, or anything.  *)

ResolveStaticSchedule(value) ==
    LET as(kind, expression, timezone) ==
            [kind |-> kind, expression |-> expression, timezone |-> timezone]
    IN  CASE value.type = "none"                    -> as("interval", 0, "UTC")
          [] value.type \in {"number", "timedelta"} -> as("interval", value.length, "UTC")
          [] value.type = "crontab"                 -> as("cron", value.fields, value.tz)
          [] value.type = "solar"                   -> as("solar", value.event, "UTC")
          [] OTHER                                  -> as("cron", value.text, "UTC")

MapStaticEntry(entry) ==
    LET resolved == ResolveStaticSchedule(entry.schedule)
    IN  [external_id |-> StaticId(entry.name), name |-> entry.name,
         kind |-> resolved.kind, expression |-> resolved.expression,
         timezone |-> resolved.timezone, args |-> entry.args,
         place |-> NoPlace]
==============================================================================
