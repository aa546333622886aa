------------------------------ MODULE CronExpr ------------------------------
(***************************************************************************)
(* Cron expressions: the fields of an expression, the days they mean in a  *)
(* month, and the search for the next instant.  An entry of a field is     *)
(* given by its form and its numbers; the text is not modelled.  Seconds,  *)
(* minutes and hours run from 0 to Top, which is 59 or 23 in the code.     *)
(***************************************************************************)
EXTENDS Integers, Sequences, FiniteSets, FiniteSetsExt

CONSTANTS
    Top,        \* the greatest second, minute and hour
    LastYear,   \* the last year of the default list
    Clocks,     \* the second, minute and hour fields that are tried
    Dates,      \* the day, month and weekday fields, and what follows them
    Starts,     \* the instants at which a schedule is created
    MaxRuns     \* how many next instants are asked for

VARIABLES
    spec,       \* the fields as they arrive
    expr,       \* the Expression, New before it is made, or Invalid
    time,       \* the system's clock, Zero when no run is left, or Panic
    runs        \* the number of instants computed
vars == <<spec, expr, time, runs>>

FirstYear == 1970
CronAssumption ==
    Top \in Nat \ {0} /\ LastYear \in Nat /\ LastYear >= FirstYear /\ MaxRuns \in Nat

New == [made |-> FALSE]
Invalid == [made |-> TRUE]
Zero == <<>>                    \* time.Time{}
Panic == <<"panic">>            \* the first element of an empty list

-----------------------------------------------------------------------------
(* The calendar of package time. *)
Leap(y) == y % 4 = 0 /\ (y % 100 # 0 \/ y % 400 = 0)
LastDay(y, m) == IF m = 2 THEN IF Leap(y) THEN 29 ELSE 28
                 ELSE IF m \in {4, 6, 9, 11} THEN 30 ELSE 31
Shift == <<0, 3, 2, 5, 0, 3, 5, 1, 4, 6, 2, 4>>
Weekday(y, m, d) ==             \* 0 is Sunday
    LET c == IF m < 3 THEN y - 1 ELSE y
    IN  (c + c \div 4 - c \div 100 + c \div 400 + Shift[m] + d) % 7

-----------------------------------------------------------------------------
(* The fields, as sequences of entries. *)
Field(name, min, max) == [name |-> name, min |-> min, max |-> max]
Desc == [second |-> Field("second", 0, Top), minute |-> Field("minute", 0, Top),
         hour |-> Field("hour", 0, Top), dom |-> Field("day-of-month", 1, 31),
         month |-> Field("month", 1, 12), dow |-> Field("day-of-week", 0, 6),
         year |-> Field("year", FirstYear, LastYear)]

\* dowTokens: 7 is Sunday as well.
Number(desc, n) == IF desc.name = "day-of-week" THEN n % 7 ELSE n

PopulateMany(first, last, step) == {i \in first..last : (i - first) % step = 0}

\* The values of an entry that genericFieldParse has a directive for.
Populated(e, desc) ==
    LET a == Number(desc, e.a)
        b == Number(desc, e.b)
    IN  CASE e.form = "*" -> desc.min..desc.max
          [] e.form = "v" -> {a}
          [] e.form = "a-b" -> PopulateMany(a, b, 1)
          [] e.form = "*/s" -> PopulateMany(desc.min, desc.max, e.step)
          [] e.form = "v/s" -> PopulateMany(a, desc.max, e.step)
          [] e.form = "a-b/s" -> PopulateMany(a, b, e.step)
          [] OTHER -> {}

Having(field, form) == {k \in DOMAIN field : field[k].form = form}
Forms(field) == {field[k].form : k \in DOMAIN field}
Stepped == {"*/s", "v/s", "a-b/s"}
Generic == {"*", "v", "a-b"} \cup Stepped

InvalidInterval(field, desc) ==
    \E k \in DOMAIN field : field[k].form \in Stepped /\ field[k].step \notin 1..desc.max
Values(field, desc) == UNION {Populated(field[k], desc) : k \in DOMAIN field}

\* An asterisk ends the loop of genericFieldHandler: what follows it is not looked at.
UpToStar(field) ==
    {k \in DOMAIN field : \A i \in Having(field, "*") : k <= i}
GenericFieldError(field, desc) ==
    \/ InvalidInterval(field, desc)
    \/ \E k \in UpToStar(field) : field[k].form \notin Generic

DomFieldError(field) ==
    InvalidInterval(field, Desc.dom) \/ Forms(field) \ (Generic \cup {"L", "LW", "vW"}) # {}
DomFieldHandler(field) ==
    [restricted |-> "*" \notin Forms(field), days |-> Values(field, Desc.dom),
     workdays |-> {field[k].a : k \in Having(field, "vW")},
     last |-> "L" \in Forms(field), lastWorkday |-> "LW" \in Forms(field)]

DowFieldError(field) ==
    InvalidInterval(field, Desc.dow) \/ Forms(field) \ (Generic \cup {"vL", "v#n"}) # {}
DowFieldHandler(field) ==
    [restricted |-> "*" \notin Forms(field), days |-> Values(field, Desc.dow),
     last |-> {field[k].a % 7 : k \in Having(field, "vL")},
     specific |-> {(field[k].b - 1) * 7 + (field[k].a % 7) : k \in Having(field, "v#n")}]

\* Of two fields after the weekday the first is the year; one may be the year or
\* the time zone.  A zone moves what the clock shows, and nothing else.
AnyYear == <<[form |-> "*", a |-> 0, b |-> 0, step |-> 1]>>
IsZone(field) == Forms(field) = {"zone"}
SplitError(rest) ==
    \/ Len(rest) > 2
    \/ Len(rest) = 2 /\ ~IsZone(rest[2])
    \/ Len(rest) = 1 /\ Forms(rest[1]) = {"nowhere"}
YearField(rest) ==
    IF Len(rest) = 0 \/ (Len(rest) = 1 /\ IsZone(rest[1])) THEN AnyYear ELSE rest[1]

ParseError(s) ==
    \/ SplitError(s.rest)
    \/ \E f \in {"second", "minute", "hour", "month"} : GenericFieldError(s[f], Desc[f])
    \/ GenericFieldError(YearField(s.rest), Desc.year)
    \/ DomFieldError(s.dom) \/ DowFieldError(s.dow)

Parse(s) ==
    IF ParseError(s) THEN Invalid
    ELSE [second |-> Values(s.second, Desc.second), minute |-> Values(s.minute, Desc.minute),
          hour |-> Values(s.hour, Desc.hour), dom |-> DomFieldHandler(s.dom),
          month |-> Values(s.month, Desc.month), dow |-> DowFieldHandler(s.dow),
          year |-> Values(YearField(s.rest), Desc.year)]

-----------------------------------------------------------------------------
(* The days of a month. *)
WorkdayOfMonth(y, m, d) ==
    CASE Weekday(y, m, d) = 6 -> IF d > 1 THEN d - 1 ELSE d + 2
      [] Weekday(y, m, d) = 0 -> IF d < LastDay(y, m) THEN d + 1 ELSE d - 2
      [] OTHER -> d

\* A row of dowNormalizedOffsets.
Offsets(r) == {d \in 1..31 : (d - 1) % 7 = r}

DaysOfDom(dom, y, m) ==
    LET last == LastDay(y, m)
    IN  {d \in dom.days : d <= last}
          \cup {WorkdayOfMonth(y, m, d) : d \in {w \in dom.workdays : w <= last}}
          \cup (IF dom.last THEN {last} ELSE {})
          \cup (IF dom.lastWorkday THEN {WorkdayOfMonth(y, m, last)} ELSE {})

DaysOfDow(dow, y, m) ==
    LET last == LastDay(y, m)
        offset == 7 - Weekday(y, m, 1)
        origin == last - 6
        lastOffset == 7 - Weekday(y, m, origin)
        week(v) == {d \in Offsets((offset + v) % 7) : d <= last}
        nth(v) == 1 + 7 * (v \div 7) + ((offset + v) % 7)
    IN  (UNION {week(v) : v \in dow.days})
          \cup {d \in {nth(v) : v \in dow.specific} : d <= last}
          \cup {d \in {origin + ((lastOffset + v) % 7) : v \in dow.last} : d <= last}

ActualDaysOfMonth(e, y, m) ==
    IF ~e.dom.restricted /\ ~e.dow.restricted THEN 1..LastDay(y, m)
    ELSE (IF e.dom.restricted THEN DaysOfDom(e.dom, y, m) ELSE {})
           \cup (IF e.dow.restricted THEN DaysOfDow(e.dow, y, m) ELSE {})

-----------------------------------------------------------------------------
(* The next instant.  An instant is <<year, month, day, hour, minute, second>>. *)
Empty == -1
First(list) == IF list = {} THEN Empty ELSE Min(list)
After(list, n) == {i \in list : i > n}
Date(t) == IF \E k \in DOMAIN t : t[k] = Empty THEN Panic ELSE t
DayStarts(e, y, m, d) ==
    Date(<<y, m, d, First(e.hour), First(e.minute), First(e.second)>>)

RECURSIVE NextYear(_, _), NextMonth(_, _)
NextYear(e, t) ==
    LET y == First(After(e.year, t[1]))
        m == First(e.month)
        days == ActualDaysOfMonth(e, y, m)
    IN  IF y = Empty THEN Zero
        ELSE IF m = Empty THEN Panic
        ELSE IF days # {} THEN DayStarts(e, y, m, Min(days))
        ELSE IF DayStarts(e, y, m, 1) = Panic THEN Panic
        ELSE NextMonth(e, DayStarts(e, y, m, 1))
NextMonth(e, t) ==
    LET m == First(After(e.month, t[2]))
        days == ActualDaysOfMonth(e, t[1], m)
    IN  IF m = Empty THEN NextYear(e, t)
        ELSE IF days # {} THEN DayStarts(e, t[1], m, Min(days))
        ELSE IF DayStarts(e, t[1], m, 1) = Panic THEN Panic
        ELSE NextMonth(e, DayStarts(e, t[1], m, 1))

NextDayOfMonth(e, t) ==
    LET d == First(After(ActualDaysOfMonth(e, t[1], t[2]), t[3]))
    IN  IF d = Empty THEN NextMonth(e, t) ELSE DayStarts(e, t[1], t[2], d)
NextHour(e, t) ==
    LET h == First(After(e.hour, t[4]))
    IN  IF h = Empty THEN NextDayOfMonth(e, t)
        ELSE Date(<<t[1], t[2], t[3], h, First(e.minute), First(e.second)>>)
NextMinute(e, t) ==
    LET n == First(After(e.minute, t[5]))
    IN  IF n = Empty THEN NextHour(e, t)
        ELSE Date(<<t[1], t[2], t[3], t[4], n, First(e.second)>>)
NextSecond(e, t) ==
    LET s == First(After(e.second, t[6]))
    IN  IF s = Empty THEN NextMinute(e, t)
        ELSE <<t[1], t[2], t[3], t[4], t[5], s>>

\* Expression.Next: the first field of t that does not match decides.
NextTime(e, t) ==
    LET days == ActualDaysOfMonth(e, t[1], t[2])
        none(list, v) == \A i \in list : i < v
    IN  CASE t = Zero -> Zero
          [] none(e.year, t[1]) -> Zero
          [] t[1] \notin e.year \/ none(e.month, t[2]) -> NextYear(e, t)
          [] t[2] \notin e.month \/ none(days, t[3]) -> NextMonth(e, t)
          [] t[3] \notin days \/ none(e.hour, t[4]) -> NextDayOfMonth(e, t)
          [] t[4] \notin e.hour \/ none(e.minute, t[5]) -> NextHour(e, t)
          [] t[5] \notin e.minute \/ none(e.second, t[6]) -> NextMinute(e, t)
          [] OTHER -> NextSecond(e, t)

-----------------------------------------------------------------------------
Init ==
    /\ \E c \in Clocks, d \in Dates :
          spec = [second |-> c.second, minute |-> c.minute, hour |-> c.hour,
                  dom |-> d.dom, month |-> d.month, dow |-> d.dow, rest |-> d.rest]
    /\ expr = New
    /\ time \in Starts
    /\ runs = 0

\* A schedule with no run left is refused with ErrCronExpressionExpired.
NewCronScheduled ==
    /\ expr = New
    /\ LET e == Parse(spec)
           next == IF e = Invalid THEN Zero ELSE NextTime(e, time)
       IN  /\ expr' = IF next = Zero THEN Invalid ELSE e
           /\ time' = IF next = Panic THEN Panic ELSE time
    /\ UNCHANGED <<spec, runs>>

\* The clock moves to the instant the timer waits for.
NextRun ==
    /\ expr \notin {New, Invalid} /\ time \notin {Zero, Panic} /\ runs < MaxRuns
    /\ time' = NextTime(expr, time)
    /\ runs' = runs + 1
    /\ UNCHANGED <<spec, expr>>

Next == NewCronScheduled \/ NextRun
Spec == Init /\ [][Next]_vars

-----------------------------------------------------------------------------
TypeOK ==
    /\ expr \notin {New, Invalid} =>
          /\ expr.hour \cup expr.minute \cup expr.second \subseteq 0..Top
          /\ expr.month \subseteq 1..12 /\ expr.year \subseteq Nat
    /\ time \notin {Zero, Panic} =>
          /\ time[2] \in 1..12 /\ time[3] \in 1..LastDay(time[1], time[2])
          /\ time[4] \in 0..Top /\ time[5] \in 0..Top /\ time[6] \in 0..Top
    /\ runs \in 0..MaxRuns

Less(s, t) == \E k \in DOMAIN s : s[k] < t[k] /\ \A i \in 1..(k - 1) : s[i] = t[i]

Apart(i, j) == IF i < j THEN j - i ELSE i - j
\* d is the weekday nearest to day x of the same month.
NearestWorkday(y, m, x, d) ==
    LET workdays == {w \in 1..LastDay(y, m) : Weekday(y, m, w) \in 1..5}
    IN  d \in workdays /\ \A w \in workdays : Apart(d, x) <= Apart(w, x)

MeansDay(e, y, m, d) ==
    \/ d \in Populated(e, Desc.dom)
    \/ e.form = "L" /\ d = LastDay(y, m)
    \/ e.form = "LW" /\ NearestWorkday(y, m, LastDay(y, m), d)
    \/ e.form = "vW" /\ e.a <= LastDay(y, m) /\ NearestWorkday(y, m, e.a, d)
MeansWeekday(e, y, m, d) ==
    \/ Weekday(y, m, d) \in Populated(e, Desc.dow)
    \/ e.form = "vL" /\ Weekday(y, m, d) = e.a % 7 /\ d + 7 > LastDay(y, m)
    \/ e.form = "v#n" /\ Weekday(y, m, d) = e.a % 7 /\ (d - 1) \div 7 = e.b - 1

\* "If both fields are restricted, the command will be run when either matches."
DayMatches(y, m, d) ==
    LET byDay == \E k \in DOMAIN spec.dom : MeansDay(spec.dom[k], y, m, d)
        byWeekday == \E k \in DOMAIN spec.dow : MeansWeekday(spec.dow[k], y, m, d)
        star(field) == "*" \in Forms(field)
    IN  \/ star(spec.dom) /\ byWeekday
        \/ star(spec.dow) /\ byDay
        \/ ~star(spec.dom) /\ ~star(spec.dow) /\ (byDay \/ byWeekday)

\* Next returns the closest matching instant after the one it is given, over the
\* ends of months and years, leap days, the nearest workdays and the fifth weeks;
\* and the zero time only when no instant is left.
NextIsClosest ==
    (/\ expr \notin {New, Invalid} /\ time \notin {Zero, Panic}
     /\ {} \notin {expr.hour, expr.minute, expr.second, expr.month}) =>
        LET next == NextTime(expr, time)
            days == {t \in expr.year \X expr.month \X (1..31) :
                        t[3] <= LastDay(t[1], t[2]) /\ DayMatches(t[1], t[2], t[3])}
            clocks == expr.hour \X expr.minute \X expr.second
            today == SubSeq(time, 1, 3)
            sooner(t) == Less(time, t) /\ (next # Zero => Less(t, next))
        IN  /\ next # Panic
            /\ next # Zero => /\ SubSeq(next, 1, 3) \in days /\ SubSeq(next, 4, 6) \in clocks
                              /\ Less(time, next)
            /\ \A d \in {t \in days : /\ ~Less(t, today)
                                      /\ next # Zero => ~Less(SubSeq(next, 1, 3), t)} :
                  \A c \in clocks : ~sooner(d \o c)
=============================================================================
