----------------------------- MODULE DateRanges -----------------------------
(***************************************************************************)
(* The date ranges of :filter -d and :search -d (lib/parse/daterange.go).  *)
(* A date is the number of a day, day 1 being 1 January of year 1; what    *)
(* time.Date and AddDate of Go do with months and days out of range is     *)
(* part of the model.  A range is typed as a sequence of terms:            *)
(*   <<t>>  a term alone, <<t, Dots>>, <<Dots, t>> and <<t, Dots, u>>,     *)
(* with a term [prefix, word] of the dictionary, [relative |-> a sequence  *)
(* of [n, unit]] or [date |-> day].  A word may be cut off at either end:  *)
(* Entries gives the entries of the dictionary that contain it, and the    *)
(* code takes any of them, in the order of a Go map.                       *)
(***************************************************************************)
EXTENDS Integers, SequencesExt

CONSTANTS
  Todays,    \* days on which ranges are asked for
  Ranges,    \* what is typed
  Entries    \* from the words typed to the entries of dict that contain them

VARIABLES today, asked, answer

drVars == <<today, asked, answer>>

Dots == [dots |-> TRUE]   \* the range operator

-----------------------------------------------------------------------------
(* package time (external). *)

MonthNames == <<"january", "february", "march", "april", "may", "june", "july", "august",
                "september", "october", "november", "december">>
WeekdayNames == <<"monday", "tuesday", "wednesday", "thursday", "friday", "saturday", "sunday">>

Leap(y) == y % 4 = 0 /\ (y % 100 # 0 \/ y % 400 = 0)
DaysBefore(y, m) ==
  <<0, 31, 59, 90, 120, 151, 181, 212, 243, 273, 304, 334>>[m]
  + (IF m > 2 /\ Leap(y) THEN 1 ELSE 0)
FirstOfYear(y) == LET z == y - 1 IN 365 * z + z \div 4 - z \div 100 + z \div 400 + 1

Date(y, m, d) ==
  LET carry == (m - 1) \div 12
      year == y + carry
      month == m - 12 * carry
  IN FirstOfYear(year) + DaysBefore(year, month) + d - 1

Year(t) ==
  LET y == (400 * (t - 1)) \div 146097 + 1 IN
  CHOOSE z \in (y - 1)..(y + 1) : FirstOfYear(z) <= t /\ t < FirstOfYear(z + 1)
YearDay(t) == t - FirstOfYear(Year(t)) + 1
Month(t) ==
  LET y == Year(t) IN
  CHOOSE m \in 1..12 : DaysBefore(y, m) < YearDay(t)
                       /\ (m = 12 \/ YearDay(t) <= DaysBefore(y, m + 1))
Day(t) == YearDay(t) - DaysBefore(Year(t), Month(t))
AddDate(t, years, months, days) == Date(Year(t) + years, Month(t) + months, Day(t) + days)
Weekday(t) == ((t - 1) % 7) + 1   \* 1 is Monday; Go counts Sunday as 0

-----------------------------------------------------------------------------
(* dict *)

daydiff(weekday) == LET d == (weekday % 7) - (Weekday(today) % 7) IN IF d > 0 THEN d - 7 ELSE d
monthdiff(month) == LET d == month - Month(today) IN IF d > 0 THEN d - 12 ELSE d

IndexIn(names, word) == CHOOSE i \in DOMAIN names : names[i] = word
Is(names, word) == \E i \in DOMAIN names : names[i] = word

Earlier(this, n) == IF this THEN 0 ELSE -n

WeekdayDate(entry, this) ==
  AddDate(today, 0, 0, daydiff(IndexIn(WeekdayNames, entry)) + Earlier(this, 7))
MonthDate(entry, this) ==
  AddDate(today, Earlier(this, 1), monthdiff(IndexIn(MonthNames, entry)), 1 - Day(today))

(* An entry of the dictionary; this is FALSE after "last". *)
Look(entry, this) ==
  CASE entry = "today" -> today
    [] entry = "yesterday" -> AddDate(today, 0, 0, -1)
    [] entry = "week" -> AddDate(today, 0, 0, daydiff(1) + Earlier(this, 7))
    [] entry = "month" -> AddDate(today, 0, Earlier(this, 1), 1 - Day(today))
    [] entry = "year" -> AddDate(today, Earlier(this, 1), 0, 1 - YearDay(today))
    [] Is(WeekdayNames, entry) -> WeekdayDate(entry, this)
    [] Is(MonthNames, entry) -> MonthDate(entry, this)

-----------------------------------------------------------------------------
(* translate: the days a term may stand for, none for an error.            *)

RelativeDate(terms) ==
  LET Total(units) ==
        LET F[i \in 0..Len(terms)] ==
              IF i = 0 THEN 0
              ELSE F[i - 1] + (IF terms[i].unit \in units THEN terms[i].n ELSE 0)
        IN F[Len(terms)]
  IN [years |-> Total({"y"}), months |-> Total({"m"}), days |-> 7 * Total({"w"}) + Total({"d"})]

Known(terms) == \A i \in DOMAIN terms : terms[i].unit \in {"y", "m", "w", "d"}

Translate(t) ==
  IF "date" \in DOMAIN t THEN {t.date}
  ELSE IF "relative" \in DOMAIN t
  THEN LET r == RelativeDate(t.relative) IN
       IF Known(t.relative) THEN {AddDate(today, -r.years, -r.months, -r.days)} ELSE {}
  ELSE {Look(e, t.prefix # "last") :
          e \in Entries[t.word] \ (IF t.prefix = "" THEN {"month"} ELSE {})}

(* ensureRangeOp *)
Periods == {"year", "month", "week"}
EnsureRangeOp(r) ==
  IF Len(r) # 1 \/ "word" \notin DOMAIN r[1] THEN r
  ELSE CASE r[1].word \in Periods /\ r[1].prefix = "this" -> Append(r, Dots)
         [] r[1].word \in Periods /\ r[1].prefix = "last" ->
              r \o <<Dots, [r[1] EXCEPT !.prefix = "this"]>>
         [] OTHER -> r

(* DateRange, 0 for a date that is not set; no range for an error. *)
DateRange(typed) ==
  LET r == EnsureRangeOp(typed) IN
  CASE r[1] = Dots -> IF Len(r) = 1 THEN {} ELSE {[start |-> 0, end |-> e] : e \in Translate(r[2])}
    [] Len(r) = 1 -> {[start |-> b, end |-> AddDate(b, 0, 0, 1)] : b \in Translate(r[1])}
    [] Len(r) = 2 -> {[start |-> b, end |-> 0] : b \in Translate(r[1])}
    [] Len(r) = 3 -> {[start |-> b, end |-> e] : b \in Translate(r[1]), e \in Translate(r[3])}

-----------------------------------------------------------------------------

Nothing == [start |-> 0, end |-> 0]

Init == today \in Todays /\ asked = <<>> /\ answer = Nothing

(* A range is typed: ParseDate keeps it in the criteria, or reports the error. *)
ParseDate ==
  /\ asked = <<>>
  /\ asked' \in Ranges
  /\ IF DateRange(asked') = {} THEN answer' = Nothing ELSE answer' \in DateRange(asked')
  /\ UNCHANGED today

Next == ParseDate

-----------------------------------------------------------------------------
(* The reference, by the calendar.                                         *)

NewYear(t) == Month(t) = 1 /\ Day(t) = 1
Months(t) == 12 * Year(t) + Month(t)

(* When February is over, the year before begins a day too early or too    *)
(* late if just one of both years is a leap year.                          *)
LeapShift ==
  IF Month(today) <= 2 THEN 0
  ELSE (IF Leap(Year(today) - 1) THEN 1 ELSE 0) - (IF Leap(Year(today)) THEN 1 ELSE 0)

(* Weekdays lie in the last seven days, months in the last twelve months;  *)
(* "last" means one period earlier, and nothing for today and yesterday.   *)
EntryRight(e, prefix, d) ==
  LET earlier(n) == IF prefix = "last" THEN n ELSE 0 IN
  CASE e = "today" -> d = today
    [] e = "yesterday" -> d = today - 1
    [] e \in {"week"} \cup ToSet(WeekdayNames) ->
         /\ today - d - earlier(7) \in 0..6
         /\ WeekdayNames[Weekday(d)] = IF e = "week" THEN "monday" ELSE e
    [] e = "month" -> Day(d) = 1 /\ Months(today) - Months(d) = earlier(1)
    [] e = "year" -> LET s == d - earlier(LeapShift) IN
                     NewYear(s) /\ Year(today) - Year(s) = earlier(1)
    [] OTHER -> /\ MonthNames[Month(d)] = e /\ Day(d) = 1
                /\ Months(today) - Months(d) - earlier(12) \in 0..11

(* Months and years ago: the same day of the month, or as many days after  *)
(* the end of a month that is too short.                                   *)
RelativeRight(r, d) ==
  LET s == d + r.days
      month == Months(today) - 12 * r.years - r.months
  IN \/ Months(s) = month /\ Day(s) = Day(today)
     \/ Months(s) = month + 1 /\ Day(s) = Day(today) - Day(s - Day(s))

TermRight(t, d) ==
  CASE "date" \in DOMAIN t -> d = t.date
    [] "relative" \in DOMAIN t -> RelativeRight(RelativeDate(t.relative), d)
    [] OTHER -> \E e \in Entries[t.word] : EntryRight(e, t.prefix, d)

Meaningless(t) ==
  CASE DOMAIN t \cap {"date", "dots"} # {} -> FALSE
    [] "relative" \in DOMAIN t -> ~Known(t.relative)
    [] OTHER -> Entries[t.word] \subseteq (IF t.prefix = "" THEN {"month"} ELSE {})

Period == Len(asked) = 1 /\ EnsureRangeOp(asked) # asked

(* From one name to a later one: nothing is in the range while today is between them. *)
WrapsRight(names, now) ==
  /\ Len(asked) = 3
  /\ \A i \in {1, 3} : "word" \in DOMAIN asked[i] /\ Is(names, asked[i].word)
  =>
    LET i == IndexIn(names, asked[1].word)
        j == IndexIn(names, asked[3].word)
    IN i < j /\ asked[1].prefix = asked[3].prefix
         => (answer.start < answer.end <=> now \notin i..(j - 1))

(* A term alone, without "..": one day, where aerc-search(1) says of -d    *)
(* since[..until] that without until the search goes to the present.       *)
OneDay == answer.end = answer.start + 1

(* DatesRight: each end of a range is the day its term names, by the       *)
(* calendar of today, and the present when nothing follows ".."; a term    *)
(* alone is one day, or with this and last one whole week, month or year;  *)
(* only a term without meaning is refused.                                 *)
DatesRight ==
  asked = <<>> \/
  IF answer = Nothing THEN asked = <<Dots>> \/ \E i \in DOMAIN asked : Meaningless(asked[i])
  ELSE /\ asked[1] = Dots \/ TermRight(asked[1], answer.start)
       /\ asked[Len(asked)] = Dots \/ Len(asked) = 1 \/ TermRight(asked[Len(asked)], answer.end)
       /\ asked[Len(asked)] = Dots => answer.end = 0
       /\ Len(asked) = 1 /\ ~Period => OneDay
       /\ Period => IF asked[1].prefix = "this" THEN answer.end = 0
                    ELSE answer.start < answer.end /\ answer.end <= today
                         /\ EntryRight(asked[1].word, "this", answer.end)
       /\ WrapsRight(WeekdayNames, Weekday(today)) /\ WrapsRight(MonthNames, Month(today))

=============================================================================
