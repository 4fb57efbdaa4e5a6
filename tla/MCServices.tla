----------------------------- MODULE MCServices -----------------------------
(***************************************************************************)
(* Instances for TLC of the postal API client and the admins' intake, and  *)
(* samples of the inputs of the pure calculations.  A behaviour is about   *)
(* one of them, its part; the others stay as they began.                   *)
(***************************************************************************)
EXTENDS IndiaPostApi, Intake, KitPricing, StockHealth, AnalyticsRange, ReportWindows

CONSTANT Parts

VARIABLES
    part,    \* what this behaviour is about
    sample   \* the input of a calculation

partVars == <<apiVars, intakeVars, part, sample>>

\* The months of a year and its neighbours; 31 days, then 28, 31, 30...
MCMonthStarts == {-31, 0, 31, 59, 90, 120, 151, 181, 212, 243, 273, 304, 334, 365, 396, 424}

Weights == UNION {[1 .. n -> 0 .. 3] : n \in 1 .. 3}
Shipments == [days : SUBSET {0, 7, 8, 28, 29}, qty : {1, 6, 12}]
Listed == [level : {"OUT", "LOW", "HEALTHY"}, daysLeft : {-1, 0, 4}, name : {1, 2}]

Samples(p) ==
    CASE p = "split" -> {<<t, w, f>> : t \in {0, 1, 2, 7, 10}, w \in Weights, f \in 0 .. 1}
      [] p = "units" -> UNION {{<<t, w, q>> : t \in {0, 1, 5, 7, 100}, w \in [1 .. n -> 0 .. 2],
                                             q \in [1 .. n -> 1 .. 3]} : n \in 1 .. 3}
      [] p = "kits" -> UNION {[1 .. n -> [stock : -1 .. 4, qty : 1 .. 3]] : n \in 0 .. 2}
      [] p = "stock" -> {<<s, a, b>> : s \in {-2, 0, 3, 10, 20, 40}, a \in Shipments, b \in Shipments}
      [] p = "urgency" -> Listed \X Listed \X Listed
      [] p = "buckets" -> {<<f, n, g>> : f \in 0 .. 62, n \in 0 .. 40, g \in {"day", "week", "month"}}
      [] p = "range" -> {<<f, t, n>> : f \in {NoDate, 0, 1, 2}, t \in {NoDate, 0, 1, 3, 410},
                                       n \in -60 .. 200}
      [] p = "windows" -> 1000 .. 1800
      [] OTHER -> {0}

Init ==
    /\ part \in Parts /\ sample \in Samples(part)
    /\ ApiInit /\ IntakeInit
    /\ part # "intake" => oneDesk

Next ==
    /\ UNCHANGED <<part, sample>>
    /\ \/ part = "api" /\ ApiNext /\ UNCHANGED intakeVars
       \/ part = "intake" /\ IntakeNext /\ UNCHANGED apiVars

Spec == Init /\ [][Next]_partVars /\ ApiFairness

-----------------------------------------------------------------------------
\* The variables of the services keep their types.
ServicesTypeOK == ApiTypeOK /\ IntakeTypeOK

\* SplitIsExact over the samples, whichever lines come out short (kit-pricing,
\* allocate).
SplitsAreExact ==
    part = "split" =>
        \A short \in SUBSET DOMAIN sample[2] :
            SplitIsExact(sample[1], sample[2], [i \in DOMAIN sample[2] |-> sample[3] * i], short)

\* UnitPricesFit over the samples (kit-pricing, allocateUnitPrices).
UnitPricesAddUp ==
    part = "units" =>
        \A short \in SUBSET DOMAIN sample[2] :
            UnitPricesFit(sample[1], sample[2], sample[3], short)

\* BuildableIsExact over the samples (tribe-kits.service, buildableKits).
KitsAreBuildable == part = "kits" => BuildableIsExact(sample)

\* LastsAsSaid over the samples (restock-math, dispatch-counts).
StockLasts == part = "stock" => LastsAsSaid(sample[1], <<sample[2], sample[3]>>)

\* SuggestionIsEnough over the samples (restock-math).
SuggestionsSuffice == part = "stock" => SuggestionIsEnough(sample[1], <<sample[2], sample[3]>>)

\* UrgencyIsAnOrder over the samples (restock-math, compareItems).
UrgencyOrders == part = "urgency" => UrgencyIsAnOrder(sample[1], sample[2], sample[3])

\* BucketsCoverRange over the samples (analytics-range).
BucketsCover == part = "buckets" => BucketsCoverRange(sample[1], sample[1] + sample[2], sample[3])

\* RangeIsIndian over the samples (analytics-range).
RangesAreIndian == part = "range" => RangeIsIndian(sample[1], sample[2], sample[3])

\* ClosesOnLatestCutoff at every half hour of the samples, which pass midnight,
\* a Friday and several cut-offs (dispatch-digest, weekly-report).
WindowsClose == part = "windows" => ClosesOnLatestCutoff(sample)

\* The calculations give what their callers rely on, on every sample.
SumsRight ==
    /\ SplitsAreExact /\ UnitPricesAddUp /\ KitsAreBuildable
    /\ StockLasts /\ SuggestionsSuffice /\ UrgencyOrders
    /\ BucketsCover /\ RangesAreIndian /\ WindowsClose
=============================================================================
