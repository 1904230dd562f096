------------------------------ MODULE MCInputs ------------------------------
(* What comes from outside as text: the configurations of MCRuntime, and   *)
(* Retry-After fields against clocks on both sides of the turn of a        *)
(* century and of a leap day, with the dates close to one of their limits; *)
(* the clock is read once.                                                 *)
EXTENDS MCRuntime, RetryAfter

Clock(y, m, d, t) == [year |-> y, month |-> m, day |-> d, tick |-> t]
Walls == {Clock(2024, 2, 29, 1), Clock(2026, 11, 19, 1), Clock(2049, 12, 31, 0),
          Clock(2050, 1, 1, 0), Clock(2050, 3, 1, 1)}

ASSUME WallsAreClocks == Walls \subseteq Clocks

MonthDays == {<<1, 1>>, <<2, 29>>, <<3, 0>>, <<3, 1>>, <<4, 31>>, <<11, 19>>, <<11, 20>>, <<12, 31>>}

\* With its weekday in each of these years.
Dates(form, written, md, t, years) ==
  {[kind |-> "date", form |-> form, year |-> written, month |-> md[1], day |-> md[2],
    tick |-> t, weekday |-> Weekday(DayNumber(y, md[1], md[2]))] : y \in years}
MCDates ==
  UNION {Dates("obsolete", y, md, t, {1900 + y, 2000 + y, 2100 + y}) :
           y \in {0, 24, 26, 49, 50, 74, 76, 99}, md \in MonthDays, t \in {0, 2}}
  \union UNION {Dates("imf", y, md, t, {y, y + 1}) :
           y \in {2024, 2026, 2050}, md \in MonthDays, t \in {0, 3}}

Other == [kind |-> "other"]
Seconds(n) == [kind |-> "seconds", n |-> n]
Tomorrow == Dates("asctime", 2026, <<11, 20>>, 0, {2026})
MCHeaders ==
  {<<f>> : f \in MCDates} \union {<<Seconds(n)>> : n \in {0, 2, MaxSafe, MaxSafe + 1}}
  \union {<<f, g>> : f, g \in Tomorrow \union {Other, Seconds(0), Seconds(1), Seconds(4)}}
  \union {<<>>, [i \in 1 .. 9 |-> IF i = 9 THEN Seconds(2) ELSE Seconds(1)],
          [i \in 1 .. 8 |-> IF i = 8 THEN Seconds(2) ELSE Other]}

InputsInit == Init /\ wall \in Walls
InputsNext == Next /\ UNCHANGED wall
InputsSpec == InputsInit /\ [][InputsNext]_<<vars, wall>>
=============================================================================
