----------------------------- MODULE MCAdvicePage -----------------------------
(* The advice page on a handful of answers: years of two, four and five days of *)
(* two quarters, bands on either side of zero, and bodies with one thing spoilt.    *)
EXTENDS AdvicePage

Amounts(low, mid, high) == [strings |-> TRUE, lists |-> TRUE, low |-> low, mid |-> mid, high |-> high]
Band == Amounts(2, 3, 5)
Rule(id, saving) == [rule_id |-> id, saving |-> saving, action |-> "sentence"]
Route(name, rules) == [route |-> name, rules |-> rules]

(* The first step without a band of its own, and one with it.                   *)
ThreeRoutes == << Route("SHIFT_BEHAVIOUR", <<>>),
                  Route("SMART_CONTROL", <<Rule("a", Band), Rule("b", Null)>>),
                  Route("STORAGE", <<Rule("c", Band)>>) >>
NoFirstBand == << Route("SHIFT_BEHAVIOUR", <<Rule("b", Null)>>),
                  Route("SMART_CONTROL", <<>>),
                  Route("STORAGE", <<Rule("c", Band)>>) >>

Q(own, export, grid) == [own |-> own, export |-> export, grid |-> grid]
TwoDays   == << Q(0, 0, 4), Q(3, 0, 1), Q(2, 9, 0), Q(5, 2, 0) >>
FourDays  == << Q(0, 0, 0), Q(1, 0, 7), Q(6, 1, 0), Q(0, 30, 0), Q(4, 0, 3), Q(0, 0, 2),
                Q(6, 9, 0), Q(1, 1, 0) >>
FiveDays  == FourDays \o << Q(8, 0, 7), Q(5, 12, 0) >>
NoPanels  == << Q(0, 0, 3), Q(0, 0, 1), Q(0, 0, 2), Q(0, 0, 3) >>

Battery(verdict) ==
    [verdict |-> verdict, sized |-> "figure", saving |-> Band, payback |-> Band, cost |-> Band,
     curve |-> <<Band>>]

Body(headline, routes, battery, flows) ==
    [confidence |-> "GOOD", headline |-> headline, routes |-> routes, battery |-> battery,
     consumption |-> "figure", flows |-> flows,
     year |-> IF flows = <<>> THEN Missing ELSE encode_year(flows)]

Plain == Body(Amounts(16, 17, 20), ThreeRoutes, Null, TwoDays)

Good == { Plain,
          Body(Amounts(-3, 1, 4), NoFirstBand, Null, FourDays),
          Body(Amounts(-20, -19, -18), ThreeRoutes, Battery("CONSIDER_BATTERY"), <<>>),
          Body(Amounts(97, 98, 98), <<>>, Battery("BATTERY_DOES_NOT_PAY_BACK"), NoPanels),
          Body(Amounts(7, 7, 7), NoFirstBand, Null, FiveDays),
          Body(Amounts(Unreadable, 1, 2), <<>>, Null, <<>>),
          [Plain EXCEPT !.consumption = Missing],
          \* a payload that lost its last byte, or that is not base64
          [Plain EXCEPT !.year.own = SubSeq(@, 1, 3)],
          [Plain EXCEPT !.year.quarters = 3],
          [Plain EXCEPT !.year.quarters = Missing],
          [Plain EXCEPT !.routes[2].rules[2].action = Nested],
          [Plain EXCEPT !.year.meter = Garbled] }

Spoilt == { Null,
            [Plain EXCEPT !.confidence = "CERTAIN"],
            [Plain EXCEPT !.headline = Missing],
            [Plain EXCEPT !.headline.strings = FALSE],
            [Plain EXCEPT !.routes = Missing],
            [Plain EXCEPT !.routes[1].route = Missing],
            [Plain EXCEPT !.routes[2].rules = Missing],
            [Plain EXCEPT !.routes[2].rules[1].saving = Missing],
            [Plain EXCEPT !.routes[2].rules[1].saving.lists = FALSE],
            [Plain EXCEPT !.battery = [Battery("CONSIDER_BATTERY") EXCEPT !.payback = Missing]],
            [Plain EXCEPT !.battery = [Battery("CONSIDER_BATTERY") EXCEPT !.sized = Missing]] }

(* What passes the check and cannot be built, or cannot be read.                *)
Unlooked == { [Plain EXCEPT !.consumption = Null],
              [Plain EXCEPT !.consumption = Nested],
              [Plain EXCEPT !.routes[2].rules[1].action = Nested],
              [Plain EXCEPT !.year = Null],
              [Plain EXCEPT !.year.ceilings = Missing] }

SomeBodies == Good \cup Spoilt \cup Unlooked

(* A household that never exports: the end of netting costs it nothing.         *)
ZeroBodies == {Body(Amounts(0, 0, 0), <<>>, Null, <<>>)}

CommonYear == <<2, 2>>

(* What the theorems ask of the answers is true of these.                       *)
ASSUME AnswersAssumption ==
    Bodies = SomeBodies =>
        RulesFireOnce /\ HeadlinesAreBands /\ YearsArePacked /\ MonthsHoldYears

=============================================================================
