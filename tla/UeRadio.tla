------------------------------ MODULE UeRadio ------------------------------
(***************************************************************************)
(* The radio side of one UE: in every step it moves, looks up the shadow   *)
(* fading of its place, and each of its phy_layers re-estimates what is    *)
(* due: the SINR, the CQI with the throughput, the rank.  The UE and its   *)
(* phy_layer count their steps and compute the SINR period each on their   *)
(* own, from speeds in different units.                                    *)
(*                                                                         *)
(* `stage' is "move", "channel" or "mac"; the MAC uses the report between  *)
(* steps.  Decibels are abstracted to the band of RI_THRES they fall in;   *)
(* what matters of a value is how old it is and for which rank it holds.   *)
(* Ages are in steps.                                                      *)
(***************************************************************************)
EXTENDS Mobility

CONSTANTS
    Directions,  \* subset of {"dl", "ul"}
    Outdoor,     \* whether the scenario draws an indoor distance
    Setups,      \* CQI and RI periods and the coherence time, in 1/10 steps
    MaxRi,       \* min(n_antennas, mimo_l)
    NumThres,    \* thresholds of RI_THRES: 3
    Cycle        \* bound: a multiple of all periods, where counters restart

ASSUME UeRadioAssumption ==
    /\ Directions \subseteq {"dl", "ul"} /\ Outdoor \in BOOLEAN
    /\ Setups \subseteq [cqi : Nat \ {0}, ri : Nat \ {0}, coherence : Nat]
    /\ MaxRi \in Nat \ {0} /\ NumThres \in Nat \ {0} /\ Cycle \in Nat \ {0}

VARIABLES
    stage, tx, cqi_period, ri_period,
    sinr_period, phy_sinr_period,  \* of the phy_layer, and of the UE
    period_counter,                \* both counters
    d_in_computed,
    fading_age,   \* phy_macro_fading: steps since it was looked up
    band,         \* thresholds below the average SINR
    sinr,         \* age, rank and age of the fading of the SINR
    report,       \* age and rank of the SINR of the CQI, and rank of the rate
    current_ri

periods == <<tx, cqi_period, ri_period, sinr_period, phy_sinr_period>>
channel == <<period_counter, d_in_computed, fading_age, band, sinr, report,
             current_ri>>
radioVars == <<mobility, stage, periods, channel>>

(* init_update_rates: at most the shorter period, at least one step.  The  *)
(* phy_layer converts the speed from km/h to m/s, which makes its          *)
(* coherence time 3.6 times as long as the UE's.                           *)
SinrPeriod(coherence, cqi, ri) ==
    IF coherence > 10 * Min({cqi, ri}) THEN Min({cqi, ri})
    ELSE Max({1, coherence \div 10})

\* fault: the speed is converted the other way round
UeCoherenceLonger(phy) == (phy * 36) \div 10
UeCoherence(phy) == (phy * 10) \div 36

RadioInit ==
    /\ MobilityInit
    /\ stage = "mac" /\ tx \in Directions
    /\ \E s \in Setups :
         /\ cqi_period = s.cqi /\ ri_period = s.ri
         /\ sinr_period = SinrPeriod(s.coherence, s.cqi, s.ri)
         /\ phy_sinr_period = SinrPeriod(UeCoherence(s.coherence), s.cqi, s.ri)
    /\ period_counter = 0 /\ d_in_computed = FALSE
    /\ fading_age = 0 /\ band = 0
    /\ sinr = [age |-> 0, ri |-> MaxRi, fading |-> 0]
    /\ report = [age |-> 0, sinr_ri |-> MaxRi, ri |-> MaxRi]
    /\ current_ri = MaxRi
-----------------------------------------------------------------------------
MoveUe ==
    /\ stage = "move" /\ stage' = "channel"
    /\ UpdatePos
    /\ UNCHANGED <<periods, channel>>

(* compute_d_in draws an indoor distance until it is below the distance to *)
(* the antenna; outdoors that is never the case in the origin.             *)
DrawsForEver == Outdoor /\ ~d_in_computed /\ pos = Origin

Redraw ==
    /\ stage = "channel" /\ DrawsForEver
    /\ UNCHANGED radioVars

Due(period) == period_counter % period = 0

(* What estimate_ri may make of the rank.  With more antennas than entries  *)
(* it reads on past the end of RI_THRES until a value is above the SINR,    *)
(* so that any further rank may result, or none and the rank stays.         *)
EstimateRi(b) ==
    IF tx = "ul" THEN {1}
    ELSE IF b < Min({MaxRi, NumThres}) THEN {b + 1}
    ELSE IF b >= NumThres /\ MaxRi > NumThres THEN (NumThres + 1 .. MaxRi) \union {current_ri}
    ELSE {current_ri}

\* fault: the distance is drawn again in every step
KeepNoDin == d_in_computed' = FALSE
KeepDin == d_in_computed' = TRUE

EstimateChannelState ==
    /\ stage = "channel" /\ ~DrawsForEver
    /\ stage' = "mac"
    /\ KeepDin
    /\ fading_age' = IF Due(phy_sinr_period) THEN 0 ELSE fading_age + 1
    /\ IF Due(sinr_period)
       THEN /\ band' \in 0 .. NumThres
            /\ sinr' = [age |-> 0, ri |-> current_ri, fading |-> fading_age']
       ELSE band' = band /\ sinr' = [sinr EXCEPT !.age = @ + 1]
    /\ report' = IF Due(cqi_period)
                 THEN [age |-> sinr'.age, sinr_ri |-> sinr'.ri, ri |-> current_ri]
                 ELSE [report EXCEPT !.age = @ + 1]
    /\ current_ri' \in IF Due(ri_period) THEN EstimateRi(band') ELSE {current_ri}
    /\ period_counter' = (period_counter + 1) % Cycle
    /\ UNCHANGED <<mobility, periods>>

\* the MAC layer's step, and the PDCP of the next one
StepMac ==
    /\ stage = "mac" /\ stage' = "move"
    /\ UNCHANGED <<mobility, periods, channel>>

RadioNext == MoveUe \/ Redraw \/ EstimateChannelState \/ StepMac

(* The main loop goes on, and random draws below a positive distance come. *)
RadioSpec == RadioInit /\ [][RadioNext]_radioVars /\ WF_radioVars(RadioNext)
-----------------------------------------------------------------------------
(* Types, and the UE's place: always on the map, so that the fading is     *)
(* interpolated inside its table, and never farther away than max_distance *)
(* or where it started, however the models compute their next position.    *)
RadioTypeOK ==
    /\ stage \in {"move", "channel", "mac"} /\ period_counter \in 0 .. Cycle - 1
    /\ pos \in Square(Apothem)
    /\ Dist2(pos) <= Max({MaxDistance2, radius2})
    /\ speed \in -MaxSpeed .. MaxSpeed /\ current_ri \in 1 .. MaxRi
    /\ kind = "clockwise" => Dist2(pos) = radius2

(* What the scheduler works with between two steps.  The SINR behind a     *)
(* report is at most one CQI and one SINR period old, less two steps; its  *)
(* fading is less than a SINR period older than it, although the UE counts *)
(* a period of its own; and when the SINR period divides the CQI period, a *)
(* rate counts the layers the SINR was computed for.                       *)
ReportConsistent ==
    stage = "mac" =>
      /\ report.age <= (cqi_period - 1) + (sinr_period - 1)
      /\ sinr.fading < sinr_period
      /\ cqi_period % sinr_period = 0 => report.ri = report.sinr_ri

(* A UE that does not start in the antenna's place goes through every      *)
(* step, whatever places it comes by later; an indoor one always does.     *)
StepsGoOn == (Outdoor => pos # Origin) => []<>(stage = "mac")
=============================================================================
