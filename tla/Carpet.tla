-------------------------------- MODULE Carpet --------------------------------
(* The plate of a year: how the service packs it (backend/advice/series.py) and *)
(* how the page reads it back, colours it, names a quarter and finds one under  *)
(* a pointer or a key (components/carpet).  Energy is in whole units.           *)
EXTENDS Integers, Sequences, SequencesExt

CONSTANTS
    QUARTERS_PER_DAY,  \* rows of the plate, 96 in the code
    MONTHS,            \* the length of each month of a common year
    LEAP_YEAR_DAYS,    \* the days of a year with a longer second month
    Garbled            \* a string that is not base64, or none at all

ASSUME QuartersAssumption == QUARTERS_PER_DAY \in Nat \ {0}

EXPORT_FLAG     == 128
MAGNITUDE_MASK  == 127
OWN_FULL_SCALE  == 255
FEBRUARY        == 2

Most(a, b) == IF a < b THEN b ELSE a
Clamp(a, low, high) == IF a < low THEN low ELSE IF high < a THEN high ELSE a

-----------------------------------------------------------------------------
(* The service packs a sequence of flows.  No quarter holds both directions.    *)
(* numpy's rint rounds a half to even, here up: the properties allow for half a *)
(* step either way.                                                             *)
Scale(amount, ceiling, full) ==
    IF ceiling = 0 THEN 0 ELSE (2 * amount * full + ceiling) \div (2 * ceiling)

Ceilings(flows) ==
    [f \in {"own", "export", "grid"} |-> Max({0} \cup {flows[i][f] : i \in DOMAIN flows})]

Byte(flow, ceilings) ==
    IF flow.export > 0 THEN EXPORT_FLAG + Scale(flow.export, ceilings.export, MAGNITUDE_MASK)
                       ELSE Scale(flow.grid, ceilings.grid, MAGNITUDE_MASK)

encode_year(flows) ==
    LET ceilings == Ceilings(flows)
    IN  [quarters |-> Len(flows), ceilings |-> ceilings,
         own   |-> [i \in DOMAIN flows |-> Scale(flows[i].own, ceilings.own, OWN_FULL_SCALE)],
         meter |-> [i \in DOMAIN flows |-> Byte(flows[i], ceilings)]]

-----------------------------------------------------------------------------
(* decode.ts: nothing that is not whole days, nor bytes of another length.      *)
Refused == [days |-> 0]

decodeYear(year) ==
    IF \/ year.quarters \notin Int
       \/ year.quarters <= 0 \/ year.quarters % QUARTERS_PER_DAY # 0
       \/ Garbled \in {year.own, year.meter}
    THEN Refused
    ELSE IF Len(year.own) # year.quarters \/ Len(year.meter) # year.quarters
    THEN Refused
    ELSE [days |-> year.quarters \div QUARTERS_PER_DAY, own |-> year.own, meter |-> year.meter,
          ceilings |-> year.ceilings]

byteAt(bytes, index) == IF index + 1 \in DOMAIN bytes THEN bytes[index + 1] ELSE 0

(* Mutant: the meter byte read as a magnitude over 255.                         *)
readingWholeByte(year, index) ==
    LET meter    == byteAt(year.meter, index)
        exported == meter >= EXPORT_FLAG
    IN  [exported |-> exported,
         own   |-> byteAt(year.own, index) * year.ceilings.own * MAGNITUDE_MASK,
         meter |-> meter * MAGNITUDE_MASK
                   * (IF exported THEN year.ceilings.export ELSE year.ceilings.grid)]

(* One quarter read back, in units of 1 / (255 * 127).                          *)
reading(year, index) ==
    LET meter    == byteAt(year.meter, index)
        exported == meter >= EXPORT_FLAG
    IN  [exported |-> exported,
         own   |-> byteAt(year.own, index) * year.ceilings.own * MAGNITUDE_MASK,
         meter |-> (meter % EXPORT_FLAG) * OWN_FULL_SCALE
                   * (IF exported THEN year.ceilings.export ELSE year.ceilings.grid)]

NoCell == [day |-> -1]

(* Mutant: the plate's own order, hour by hour, used on the bytes.              *)
cellAtTransposed(year, day, quarter) ==
    IF day \notin 0 .. year.days - 1 \/ quarter \notin 0 .. QUARTERS_PER_DAY - 1 THEN NoCell
    ELSE [day |-> day, quarter |-> quarter, reads |-> reading(year, quarter * year.days + day)]

cellAt(year, day, quarter) ==
    IF day \notin 0 .. year.days - 1 \/ quarter \notin 0 .. QUARTERS_PER_DAY - 1 THEN NoCell
    ELSE [day |-> day, quarter |-> quarter,
          reads |-> reading(year, day * QUARTERS_PER_DAY + quarter)]

(* palette.ts: the larger flow wins and a tie is the meter's.                   *)
stateOf(reads) ==
    IF reads.own > reads.meter THEN "own"
    ELSE IF reads.exported THEN "export" ELSE "offtake"

(* The colour of a cell: its state's token, lifted by its share of full scale.  *)
cellColour(year, index, state) ==
    [state |-> state, share |-> IF state = "own" THEN byteAt(year.own, index)
                                ELSE byteAt(year.meter, index) % EXPORT_FLAG]

(* buildPixels: the payload runs day by day, the image hour by hour.            *)
buildPixels(year) ==
    [at \in 0 .. year.days * QUARTERS_PER_DAY - 1 |->
        LET index == (at % year.days) * QUARTERS_PER_DAY + at \div year.days
        IN  cellColour(year, index, stateOf(reading(year, index)))]

-----------------------------------------------------------------------------
(* geometry.ts                                                                  *)
monthsOf(days) ==
    [m \in DOMAIN MONTHS |-> MONTHS[m] + IF m = FEBRUARY /\ days = LEAP_YEAR_DAYS THEN 1 ELSE 0]

DaysBefore(m, days) == FoldLeft(+, 0, SubSeq(monthsOf(days), 1, m - 1))

(* The day of a month, or a label with month 0 outside the year.                *)
dayLabel(day, days) ==
    LET here == {m \in DOMAIN MONTHS : day - DaysBefore(m, days) < monthsOf(days)[m]}
        month == CHOOSE m \in here : \A n \in here : m <= n
    IN  IF here = {} THEN [month |-> 0, date |-> 0]
        ELSE [month |-> month, date |-> day - DaysBefore(month, days) + 1]

quarterLabel(quarter) == [hour |-> quarter \div 4, minute |-> (quarter % 4) * 15]

NoCursor == [day |-> -1, quarter |-> -1]

(* A pointer at across / of and down / of of the plate's box; `of` is zero for  *)
(* a box without a width.                                                       *)
cellFromPointer(across, down, of, days) ==
    IF of = 0 THEN NoCursor
    ELSE [day     |-> Clamp((across * days) \div of, 0, days - 1),
          quarter |-> Clamp((down * QUARTERS_PER_DAY) \div of, 0, QUARTERS_PER_DAY - 1)]

(* The middle of the cursor's column and row, as fractions of the plate.        *)
acrossOf(cursor, days) ==
    IF cursor = NoCursor THEN [part |-> 1, whole |-> 2]
    ELSE [part |-> 2 * cursor.day + 1, whole |-> 2 * days]

downOf(cursor) ==
    IF cursor = NoCursor THEN [part |-> 1, whole |-> 2]
    ELSE [part |-> 2 * cursor.quarter + 1, whole |-> 2 * QUARTERS_PER_DAY]

STEPS == [ArrowLeft |-> <<-1, 0>>, ArrowRight |-> <<1, 0>>, ArrowUp |-> <<0, -1>>, ArrowDown |-> <<0, 1>>]

moveCursor(from, key, days) ==
    LET at == IF from = NoCursor THEN [day |-> 0, quarter |-> 0] ELSE from
    IN  [day     |-> Clamp(at.day + STEPS[key][1], 0, days - 1),
         quarter |-> Clamp(at.quarter + STEPS[key][2], 0, QUARTERS_PER_DAY - 1)]

=============================================================================
