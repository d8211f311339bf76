--------------------------------- MODULE MCFlow ---------------------------------
(* The question flow on a few sessions a tab may start with.                   *)
EXTENDS Flow

RoundOneDone == [k \in Keys |-> IF k \in RoundOneKeys
                                THEN (IF k = "roof" THEN "chosen" ELSE "good")
                                ELSE "none"]

(* One question short of round one.                                            *)
ThreeAnswered == [RoundOneDone EXCEPT !["annualConsumptionKwh"] = "none"]

(* Both rounds answered up to the last question, with a heat pump.             *)
NearlyDone == [RoundOneDone EXCEPT !["daytimeOccupancy"] = "nee", !["ev"] = "NIGHT",
                 !["heatPump"] = "ja", !["heatDemandKwh"] = "good", !["dynamicContract"] = "nee"]

(* Stored by another version: a demand without its heat pump, a bad postcode.  *)
Inconsistent == [NearlyDone EXCEPT !["heatPump"] = "nee", !["battery"] = "nee"]
OtherPostcode == [RoundOneDone EXCEPT !["postcode4"] = "bad"]

SomeSessions == {EmptyAnswers, ThreeAnswered, RoundOneDone, NearlyDone, Inconsistent,
                 OtherPostcode}

=============================================================================
