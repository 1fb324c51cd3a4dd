------------------------- MODULE MCSourceObservation -------------------------
EXTENDS SourceObservationLive
CONSTANTS d1, d2
OnePlan == <<d1>>
TwoPlan == <<d1, d2>>
Apart == [i \in Items |-> i]
Together == [i \in Items |-> d1]
=============================================================================
