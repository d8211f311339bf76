--------------------------------- MODULE Bands ---------------------------------
(* Where a band is drawn: components/band/position.ts, and the two figures that *)
(* place their parts with it.  Amounts are integers, or Unreadable for a string *)
(* parseFloat gives up on.  A length on the track is a fraction of the axis: a  *)
(* record of `part` and `whole`, so that no rounding is invented.               *)
EXTENDS Integers

CONSTANTS
    Unreadable,  \* an amount that is not a number
    Floor        \* the track is Floor times as wide as it is high (min-width)

ASSUME FloorAssumption == Floor \in Nat \ {0}

Lesser(a, b) == IF a < b THEN a ELSE b
Greater(a, b) == IF a < b THEN b ELSE a
Within(a, low, high) == Lesser(high, Greater(low, a))

-----------------------------------------------------------------------------
(* axisFor: zero is always on the axis.  A band of nothing but zeroes has none. *)
NoAxis == [min |-> 0, max |-> 0]

axisFor(low, high) ==
    IF Unreadable \in {low, high} THEN NoAxis
    ELSE IF high < low THEN NoAxis
    ELSE [min |-> Lesser(0, low), max |-> Greater(0, high)]

Share(part, axis) ==
    IF axis = NoAxis THEN [part |-> 0, whole |-> 1]
    ELSE [part  |-> Within(part, 0, axis.max - axis.min), whole |-> axis.max - axis.min]

bandSpanFraction(low, high) ==
    LET axis == axisFor(low, high) IN Share(IF axis = NoAxis THEN 0 ELSE high - low, axis)

bandOffsetFraction(low, high) ==
    LET axis == axisFor(low, high) IN Share(IF axis = NoAxis THEN 0 ELSE low - axis.min, axis)

(* Where an amount is marked: halfway when there is no axis to mark it on.      *)
axisPercentage(low, amount, high) ==
    LET axis == axisFor(low, high)
    IN  IF axis = NoAxis \/ amount = Unreadable THEN [part |-> 1, whole |-> 2]
        ELSE Share(amount - axis.min, axis)

(* Mutant: every band hangs from its left edge.                                 *)
neverRightPinned(low) == FALSE

bandIsRightPinned(low) == low # Unreadable /\ low >= 0

-----------------------------------------------------------------------------
(* HeadlineBand: the edges of the fill, drawn at its width once it has grown    *)
(* and never narrower than the track is high.  In Floor-ths of the whole.       *)
Fill(band, shown) ==
    LET span   == bandSpanFraction(band.low, band.high)
        offset == bandOffsetFraction(band.low, band.high)
        whole  == span.whole * Floor
        width  == Greater(IF shown THEN span.part * Floor ELSE 0, span.whole)
        inset  == Greater(0, whole - (offset.part + span.part) * Floor)
        left   == IF bandIsRightPinned(band.low) THEN whole - inset - width
                                                 ELSE offset.part * Floor
    IN  [left |-> left, right |-> left + width, whole |-> whole]

Marker(band) == axisPercentage(band.low, band.mid, band.high)

(* The two labels under the band take the band's own edges.                     *)
LowLabel(band) == bandOffsetFraction(band.low, band.high)
HighLabel(band) ==
    LET span == bandSpanFraction(band.low, band.high)
    IN  [span EXCEPT !.part = @ + bandOffsetFraction(band.low, band.high).part]

=============================================================================
