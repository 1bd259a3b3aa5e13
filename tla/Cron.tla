-------------------------------- MODULE Cron --------------------------------
(***************************************************************************)
(* cron.py: five-field cron expressions over minutes of UTC.               *)
(*                                                                         *)
(* A field is a sequence of parts, a part what its text says: "*", one     *)
(* number or a range, with or without a step.  The instants of the clock   *)
(* are finer than minutes, PerMinute of them to each.                      *)
(***************************************************************************)
EXTENDS Integers, Sequences

CONSTANTS
    Calendar,  \* minute of the clock -> the fields a datetime shows then
    PerMinute, \* instants in a minute
    ScanCap,   \* how many minutes back a missed tick is looked for
    Never      \* the last run of a schedule that has not run

ASSUME CronAssumption ==
    /\ PerMinute \in Nat \ {0}
    /\ ScanCap \in Nat \ {0}
    /\ Never \notin Int

Minute(instant) == instant \div PerMinute

-----------------------------------------------------------------------------
(* Expressions *)

Bounds == [minute |-> <<0, 59>>, hour |-> <<0, 23>>, day |-> <<1, 31>>,
           month |-> <<1, 12>>, weekday |-> <<0, 6>>]

Fields == DOMAIN Bounds

Invalid   == {}          \* a ValueError: a well-formed part holds some value
Malformed == "malformed" \* text int() refuses
Plain     == "plain"     \* a part without a step

AnyValue == [form |-> "any", stepped |-> Plain]

\* Day of week takes 7 for Sunday on input.
HighestInput(field) == IF field = "weekday" THEN 7 ELSE Bounds[field][2]

FirstOf(part, field) == IF part.form = "any" THEN Bounds[field][1] ELSE part.low

\* "N/S" runs from N to the top of the range.
LastOf(part, field) ==
    CASE part.form = "any" -> HighestInput(field)
      [] part.form = "range" -> part.high
      [] part.form = "one" -> IF part.stepped = Plain THEN part.low ELSE HighestInput(field)

Stride(part) == IF part.stepped = Plain THEN 1 ELSE part.step

PartIsWellFormed(part, field) ==
    /\ part.form # Malformed
    /\ part.stepped # Malformed /\ Stride(part) > 0
    /\ FirstOf(part, field) >= Bounds[field][1]
    /\ LastOf(part, field) <= HighestInput(field)
    /\ FirstOf(part, field) <= LastOf(part, field)

SundayIsZero(v, field) == IF field = "weekday" /\ v = 7 THEN 0 ELSE v

ParsePart(part, field) ==
    IF PartIsWellFormed(part, field)
    THEN {SundayIsZero(v, field) :
            v \in {w \in FirstOf(part, field)..LastOf(part, field) :
                     (w - FirstOf(part, field)) % Stride(part) = 0}}
    ELSE Invalid

\* One bad part spoils its field.
ParseField(parts, field) ==
    IF \A i \in DOMAIN parts : ParsePart(parts[i], field) # Invalid
    THEN UNION {ParsePart(parts[i], field) : i \in DOMAIN parts}
    ELSE Invalid

\* Restriction is read off the text: "*/1" restricts, "*" does not.
Compile(expr) ==
    [values |-> [field \in Fields |-> ParseField(expr[field], field)],
     restricted |-> {field \in {"day", "weekday"} : expr[field] # <<AnyValue>>}]

Valid(expr) == \A field \in Fields : ParseField(expr[field], field) # Invalid

-----------------------------------------------------------------------------
(* Matching *)

\* With both day fields restricted either one is enough.
Matches(c, date) ==
    LET In(field) == date[field] \in c.values[field]
    IN  /\ In("minute") /\ In("hour") /\ In("month")
        /\ IF c.restricted = {"day", "weekday"}
           THEN In("day") \/ In("weekday")
           ELSE In("day") /\ In("weekday")

IsDue(c, lastRun, now) ==
    CASE lastRun = Never -> Matches(c, Calendar[Minute(now)])
      [] lastRun # Never /\ lastRun < (Minute(now) - ScanCap) * PerMinute -> TRUE
      [] OTHER -> \E m \in (Minute(lastRun) + 1)..Minute(now) : Matches(c, Calendar[m])

\* Never: no minute within the cap matches.
NextDue(c, after) ==
    LET Ahead == {m \in (Minute(after) + 1)..Minute(after + ScanCap * PerMinute) :
                    Matches(c, Calendar[m])}
    IN  IF Ahead = {} THEN Never
        ELSE CHOOSE m \in Ahead : \A n \in Ahead : m <= n
=============================================================================
