----------------------------- MODULE RetryAfter -----------------------------
(***************************************************************************)
(* The floor that the Retry-After fields of an answer stand for            *)
(* (infrastructure/transport/RetryAfter.ts): each is a number of seconds   *)
(* or a date in one of three forms, of which the obsolete one has a year   *)
(* of two digits.                                                          *)
(*                                                                         *)
(* Time is counted in ticks.  A field is what its pattern takes from it:   *)
(* [kind, n], or [kind, form, year, month, day, tick, weekday]; one that    *)
(* matches no pattern, or is too long, is of another kind.  Whether some   *)
(* field was invalid is only reported.                                     *)
(***************************************************************************)
EXTENDS Integers, Sequences, FiniteSetsExt

CONSTANTS
  TicksPerSecond, TicksPerDay,
  MaxSafe,        \* Number.MAX_SAFE_INTEGER, in ticks
  Headers         \* sequences of fields

(* The fields, as their patterns take them apart (a year that is written   *)
(* out may be any).                                                        *)
Written(forms, years) ==
  [kind : {"date"}, form : forms, year : years, month : 1 .. 12, day : 0 .. 99,
   tick : Nat, weekday : 0 .. 6]
DateFields == Written({"imf", "asctime"}, Nat) \union Written({"obsolete"}, 0 .. 99)
Fields == [kind : {"other"}] \union [kind : {"seconds"}, n : Nat] \union DateFields

ASSUME RetryAfterAssumption ==
  /\ TicksPerSecond \in Nat \ {0} /\ TicksPerDay \in Nat \ {0} /\ MaxSafe \in Nat
  /\ Headers \subseteq Seq(Fields)

VARIABLE wall     \* the wall clock: [year, month, day, tick]

Infinite == MaxSafe + 1

(* Days since 1 March of the year 0; a day past the end of its month runs   *)
(* over into the next, as in setUTCFullYear().                             *)
DayNumber(year, month, day) ==
  LET y == IF month <= 2 THEN year - 1 ELSE year
      m == IF month <= 2 THEN month + 9 ELSE month - 3
  IN  365 * y + y \div 4 - y \div 100 + y \div 400 + (153 * m + 2) \div 5 + day - 1

Weekday(day) == (day + 3) % 7

Exists(year, f) ==
  /\ f.day \in 1 .. 31
  /\ DayNumber(year, f.month, f.day) <
       IF f.month = 12 THEN DayNumber(year + 1, 1, 1) ELSE DayNumber(year, f.month + 1, 1)

(* What the wall clock may show: a date that exists. *)
Clocks ==
  {c \in [year : Nat, month : 1 .. 12, day : 1 .. 31, tick : 0 .. TicksPerDay - 1] :
     Exists(c.year, c)}

Instant(year, f) == DayNumber(year, f.month, f.day) * TicksPerDay + f.tick

(* Fifty years from now. *)
FutureLimit == Instant(wall.year + 50, wall)

\* The latest year with these digits that is not after that of the limit.
Candidate(f) ==
  LET upper == wall.year + 50
      year == f.year + (upper \div 100) * 100
  IN  IF f.form # "obsolete" THEN f.year ELSE IF year > upper THEN year - 100 ELSE year

(* A mistake: the fixed pivot of Date.parse(). *)
FullYearPivoted(f) ==
  IF f.form # "obsolete" THEN f.year ELSE IF f.year < 50 THEN 2000 + f.year ELSE 1900 + f.year

FullYear(f) ==
  LET year == Candidate(f)
  IN  IF f.form = "obsolete" /\ Instant(year, f) > FutureLimit THEN year - 100 ELSE year

\* The instant of a date, if it is one.
HttpDate(f) ==
  LET year == FullYear(f)
  IN  {t \in {Instant(year, f)} :
         /\ f.tick < TicksPerDay
         /\ Exists(Candidate(f), f) /\ Exists(year, f)
         /\ Weekday(DayNumber(year, f.month, f.day)) = f.weekday}

Delay(f) ==
  CASE f.kind = "seconds" -> {Min({f.n * TicksPerSecond, Infinite})}
    [] f.kind = "date" -> {Max({t - Instant(wall.year, wall), 0}) : t \in HttpDate(f)}
    [] OTHER -> {}

Looked(header) == {header[i] : i \in 1 .. Min({Len(header), 8})}

(* retryAfterNotBefore(): none, or one floor, of which those that are not   *)
(* representable never end.                                                *)
NotBefore(header, now) ==
  LET delays == UNION {Delay(f) : f \in Looked(header)}
  IN  IF delays = {} THEN {} ELSE {Min({now + Max(delays), Infinite})}

-----------------------------------------------------------------------------
(* What a field asks for, from RFC 9110: the date as it is written, a year *)
(* of two digits being the one within fifty years of now.                  *)
Meant(f) ==
  {year \in IF f.form = "obsolete" THEN wall.year - 50 .. wall.year + 50 ELSE {f.year} :
     /\ f.form = "obsolete" =>
          /\ year % 100 = f.year
          /\ Instant(year, f) <= FutureLimit
          /\ Instant(year + 100, f) > FutureLimit
     /\ f.tick < TicksPerDay /\ Exists(year, f)
     /\ Weekday(DayNumber(year, f.month, f.day)) = f.weekday}

Asked(f) ==
  CASE f.kind = "seconds" -> {f.n * TicksPerSecond}
    [] f.kind = "date" -> {Max({Instant(y, f) - Instant(wall.year, wall), 0}) : y \in Meant(f)}
    [] OTHER -> {}

AskedBy(fields) == UNION {Asked(f) : f \in fields}

(* A 29 February of the obsolete form may be ignored: it is looked for in   *)
(* the later of two centuries first.                                       *)
Certain(f) == ~(f.kind = "date" /\ f.form = "obsolete" /\ f.month = 2 /\ f.day = 29)

LateEnough ==
  \A header \in Headers :
    \A a \in AskedBy({f \in Looked(header) : Certain(f)}) :
      \E floor \in NotBefore(header, 0) : floor >= Min({a, Infinite})

NoLater ==
  \A header \in Headers :
    \A floor \in NotBefore(header, 0) :
      \E a \in AskedBy(Looked(header)) : floor = Min({a, Infinite})

(* No request is allowed earlier than any of the fields that are looked at *)
(* asks, and none is held back longer than the one that asks for most, nor *)
(* for ever unless that delay is too large to be represented, in whatever  *)
(* year of the century it is (retryAfterNotBefore, httpDate).              *)
AsksHonoured == LateEnough /\ NoLater
=============================================================================
