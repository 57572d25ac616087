------------------------------ MODULE UeProofs ------------------------------
(* Theorems about the two sides of a UE, its radio and its packets.         *)
(*                                                                          *)
(* UeRadio, for every map, every speed and every setup: the UE stays on the *)
(* map and in range, whatever its mobility model, and, where the counters   *)
(* restart at a multiple of the periods, the reports that the scheduler     *)
(* uses are as fresh as the periods promise.                                *)
(*                                                                          *)
(* SimFlow, for every traffic file, budget, size of an IP packet and        *)
(* sequence of grants: every bit of a packet is somewhere, a packet's       *)
(* fragments meet the fate of its data, and the generator replays its file. *)
EXTENDS UeRadio, SimFlow, PacketBitsProofs

(* The places of a UE.                                                      *)
Placed ==
    /\ pos \in Square(Apothem) /\ radius2 \in Nat
    /\ kind = "clockwise" => Dist2(pos) = radius2
    /\ Dist2(pos) <= Max({MaxDistance2, radius2})
    /\ speed \in -MaxSpeed .. MaxSpeed

(* The periods, as init_update_rates makes them: the UE's own is never      *)
(* longer than the one of its phy_layers.                                   *)
Periodic ==
    /\ cqi_period \in Nat \ {0} /\ ri_period \in Nat \ {0}
    /\ sinr_period \in Nat \ {0} /\ phy_sinr_period \in Nat \ {0}
    /\ phy_sinr_period <= sinr_period

Estimated ==
    /\ stage \in {"move", "channel", "mac"} /\ period_counter \in 0 .. Cycle - 1
    /\ band \in 0 .. NumThres /\ current_ri \in 1 .. MaxRi
    /\ fading_age \in Nat
    /\ sinr \in [age : Nat, ri : 1 .. MaxRi, fading : Nat]
    /\ report \in [age : Nat, sinr_ri : 1 .. MaxRi, ri : 1 .. MaxRi]

(* What is due every so many steps is as old as the counter says, except    *)
(* when it is due now: then it may be older than that, but not too old.     *)
Aged(age, period) ==
    /\ age < period
    /\ ~Due(period) => age + 1 = period_counter % period

Fresh ==
    /\ Aged(fading_age, phy_sinr_period)
    /\ Aged(sinr.age, sinr_period)
    /\ sinr.fading < phy_sinr_period
    /\ report.age <= (cqi_period - 1) + (sinr_period - 1)
    /\ ~Due(cqi_period) =>
         report.age + 1 <= (period_counter % cqi_period) + (sinr_period - 1)
    /\ cqi_period % sinr_period = 0 => report.ri = report.sinr_ri

\* the counters may restart: every period divides Cycle
CycleFits ==
    \A s \in Setups :
        \A p \in {s.cqi, s.ri, SinrPeriod(s.coherence, s.cqi, s.ri),
                  SinrPeriod(UeCoherence(s.coherence), s.cqi, s.ri)} :
            Cycle % p = 0

Restarts ==
    \A p \in {cqi_period, sinr_period, phy_sinr_period} : Cycle % p = 0

RadioInv == Placed /\ Periodic /\ Estimated
-----------------------------------------------------------------------------
(* The larger and the smaller of two numbers.                               *)
LEMMA MaxOfTwo ==
    ASSUME NEW a \in Int, NEW b \in Int
    PROVE  /\ Max({a, b}) \in {a, b}
           /\ Max({a, b}) >= a /\ Max({a, b}) >= b
<1>1. \E x \in {a, b} : \A y \in {a, b} : x >= y
      OBVIOUS
<1>. QED  BY <1>1 DEF Max

LEMMA MinOfTwo ==
    ASSUME NEW a \in Int, NEW b \in Int
    PROVE  /\ Min({a, b}) \in {a, b}
           /\ Min({a, b}) <= a /\ Min({a, b}) <= b
<1>1. \E x \in {a, b} : \A y \in {a, b} : x <= y
      OBVIOUS
<1>. QED  BY <1>1 DEF Min

(* A clipped coordinate is on the map.                                      *)
LEMMA ClipRange ==
    ASSUME NEW n \in Int
    PROVE  Clip(n) \in -Apothem .. Apothem
<1>1. Apothem \in Nat /\ Apothem > 0
      BY MobilityAssumption
<1>2. CASE n > 0
  <2>1. Sign(n) = 1 /\ Sign(n) * n = n
        BY <1>2 DEF Sign
  <2>2. Clip(n) = Min({n, Apothem})
        <3>1. Min({n, Apothem}) \in {n, Apothem}
              BY <1>1, MinOfTwo
        <3>. QED  BY <2>1, <3>1, <1>1 DEF Clip
  <2>. QED  BY <1>1, <1>2, <2>2, MinOfTwo
<1>3. CASE n < 0
  <2>1. Sign(n) = -1 /\ Sign(n) * n = -n /\ -n \in Int
        BY <1>3 DEF Sign
  <2>2. PICK m \in Int : m = Min({-n, Apothem}) /\ 0 <= m /\ m <= Apothem
    <3>1. Min({-n, Apothem}) \in {-n, Apothem} /\ Min({-n, Apothem}) <= Apothem
          BY <1>1, <2>1, MinOfTwo
    <3>. QED  BY <3>1, <1>1, <1>3
  <2>3. Clip(n) = (-1) * m
        BY <2>1, <2>2 DEF Clip
  <2>. QED  BY <1>1, <2>2, <2>3
<1>4. CASE n = 0
  <2>1. Sign(n) = 0 /\ Sign(n) * n = 0
        BY <1>4 DEF Sign
  <2>2. PICK m \in Int : m = Min({0, Apothem})
        BY <1>1, MinOfTwo
  <2>3. Clip(n) = 0 * m
        BY <2>1, <2>2 DEF Clip
  <2>. QED  BY <1>1, <2>2, <2>3
<1>. QED  BY <1>2, <1>3, <1>4

(* new_speed keeps the speed in its bounds.                                 *)
LEMMA BoundedRange ==
    ASSUME NEW v \in Int
    PROVE  Bounded(v) \in -MaxSpeed .. MaxSpeed
<1>1. MaxSpeed \in Nat /\ MaxSpeed \in Int /\ -MaxSpeed \in Int
      BY MobilityAssumption
<1>2. PICK m \in Int : m = Min({MaxSpeed, v}) /\ m <= MaxSpeed
      BY <1>1, MinOfTwo
<1>3. Bounded(v) = Max({-MaxSpeed, m})
      BY <1>2 DEF Bounded
<1>. QED  BY <1>1, <1>2, <1>3, MaxOfTwo

(* The square of a distance on the grid.                                    *)
LEMMA Dist2Nat ==
    ASSUME NEW p \in Int \X Int
    PROVE  Dist2(p) \in Nat
<1>1. p[1] \in Int /\ p[2] \in Int
      OBVIOUS
<1>2. \A x \in Int : x * x \in Nat
      OBVIOUS
<1>3. p[1] * p[1] \in Nat /\ p[2] * p[2] \in Nat
      BY <1>1, <1>2
<1>. QED  BY <1>3 DEF Dist2

LEMMA OnGrid ==
    ASSUME NEW p \in Square(Apothem)
    PROVE  p \in Int \X Int
BY MobilityAssumption DEF Square

(* init_update_rates: at least one step, and with a shorter coherence time  *)
(* no longer period.                                                        *)
LEMMA SinrPeriodIs ==
    ASSUME NEW c \in Nat, NEW d \in Nat, d <= c,
           NEW p \in Nat \ {0}, NEW r \in Nat \ {0}
    PROVE  /\ SinrPeriod(c, p, r) \in Nat \ {0}
           /\ SinrPeriod(d, p, r) \in Nat \ {0}
           /\ SinrPeriod(d, p, r) <= SinrPeriod(c, p, r)
<1>1. PICK m \in Nat \ {0} : m = Min({p, r})
  <2>1. Min({p, r}) \in {p, r}
        BY MinOfTwo
  <2>. QED  BY <2>1
<1>2. \A x \in Nat : x \div 10 \in Nat
      OBVIOUS
<1>3. \A x \in Nat : Max({1, x \div 10}) = IF x \div 10 > 1 THEN x \div 10 ELSE 1
      BY <1>2, MaxOfTwo
<1>4. \A x \in Nat : SinrPeriod(x, p, r) =
        IF x > 10 * m THEN m ELSE IF x \div 10 > 1 THEN x \div 10 ELSE 1
      BY <1>1, <1>3 DEF SinrPeriod
<1>5. d \div 10 <= c \div 10
      OBVIOUS
<1>6. ~(d > 10 * m) => d \div 10 <= m
      BY <1>1
<1>7. ASSUME NEW x \in Nat
      PROVE  SinrPeriod(x, p, r) \in Nat \ {0}
  <2>1. CASE x > 10 * m
        BY <2>1, <1>1, <1>4
  <2>2. CASE ~(x > 10 * m) /\ x \div 10 > 1
        BY <2>2, <1>2, <1>4
  <2>3. CASE ~(x > 10 * m) /\ ~(x \div 10 > 1)
        BY <2>3, <1>4
  <2>. QED  BY <2>1, <2>2, <2>3
<1>8. SinrPeriod(d, p, r) <= SinrPeriod(c, p, r)
      BY <1>1, <1>2, <1>4, <1>5, <1>6, SMTT(30)
<1>. QED  BY <1>7, <1>8

(* A UE estimates its coherence time no longer than its phy_layers do.      *)
LEMMA UeCoherenceIs ==
    ASSUME NEW c \in Nat
    PROVE  UeCoherence(c) \in Nat /\ UeCoherence(c) <= c
BY DEF UeCoherence

(* Whatever the SINR, the rank is one of the antenna configuration's.       *)
LEMMA EstimateRiRange ==
    ASSUME NEW b \in Nat, current_ri \in 1 .. MaxRi
    PROVE  EstimateRi(b) \subseteq 1 .. MaxRi
<1>1. MaxRi \in Nat \ {0} /\ NumThres \in Nat \ {0}
      BY UeRadioAssumption
<1>2. PICK m \in Nat : m = Min({MaxRi, NumThres}) /\ m <= MaxRi
      BY <1>1, MinOfTwo
<1>. QED  BY <1>1, <1>2 DEF EstimateRi
-----------------------------------------------------------------------------
(* Quotient and remainder.                                                  *)
LEMMA DivMod ==
    ASSUME NEW n \in Nat, NEW p \in Nat \ {0}
    PROVE  /\ n \div p \in Nat /\ n % p \in Nat /\ n % p < p
           /\ n = p * (n \div p) + (n % p)
OBVIOUS

LEMMA SmallProduct ==
    ASSUME NEW p \in Nat \ {0}, NEW k \in Int, -p < p * k, p * k < p
    PROVE  k = 0
<1>1. CASE k >= 1
  <2>1. p * k = p + p * (k - 1)
        OBVIOUS
  <2>2. p * (k - 1) >= 0
        BY <1>1
  <2>. QED  BY <2>1, <2>2
<1>2. CASE k <= -1
  <2>1. p * k = -p - p * (-k - 1)
        OBVIOUS
  <2>2. p * (-k - 1) >= 0
        BY <1>2
  <2>. QED  BY <2>1, <2>2
<1>. QED  BY <1>1, <1>2

(* The remainder is the only one there is.                                  *)
LEMMA ModIs ==
    ASSUME NEW n \in Nat, NEW p \in Nat \ {0}, NEW k \in Int, NEW r \in Nat,
           n = p * k + r, r < p
    PROVE  n % p = r
<1>1. PICK d \in Nat, m \in Nat : d = n \div p /\ m = n % p /\ m < p /\ n = p * d + m
      BY DivMod
<1>2. p * (k - d) = m - r
      BY <1>1
<1>3. k - d = 0
      BY <1>1, <1>2, SmallProduct
<1>. QED  BY <1>1, <1>3

(* One step on, the counter of a period is one more, or starts again.       *)
LEMMA ModNext ==
    ASSUME NEW n \in Nat, NEW p \in Nat \ {0}
    PROVE  (n + 1) % p = IF n % p = p - 1 THEN 0 ELSE (n % p) + 1
<1>1. PICK d \in Nat, m \in Nat : d = n \div p /\ m = n % p /\ m < p /\ n = p * d + m
      BY DivMod
<1>2. CASE m = p - 1
  <2>1. n + 1 = p * (d + 1) + 0 /\ n + 1 \in Nat /\ d + 1 \in Int /\ 0 < p
        BY <1>1, <1>2
  <2>2. (n + 1) % p = 0
        BY <2>1, ModIs
  <2>. QED  BY <1>1, <1>2, <2>2
<1>3. CASE m # p - 1
  <2>1. n + 1 = p * d + (m + 1) /\ m + 1 < p /\ m + 1 \in Nat /\ n + 1 \in Nat
        BY <1>1, <1>3
  <2>2. \A a, b \in Nat : (a = p * d + b /\ b < p) => a % p = b
        BY ModIs
  <2>3. (n + 1) % p = m + 1
        BY <2>1, <2>2
  <2>. QED  BY <1>1, <1>3, <2>3
<1>. QED  BY <1>2, <1>3

(* Divisibility is transitive.                                              *)
LEMMA ModTrans ==
    ASSUME NEW n \in Nat, NEW c \in Nat \ {0}, NEW p \in Nat \ {0},
           n % c = 0, c % p = 0
    PROVE  n % p = 0
<1>1. PICK d \in Nat : n = c * d
      BY DivMod
<1>2. PICK e \in Nat : c = p * e
      BY DivMod
<1>3. n = p * (e * d) + 0
      BY <1>1, <1>2
<1>. QED  BY <1>3, ModIs

(* A counter that restarts at a multiple of the period.                     *)
LEMMA RestartMod ==
    ASSUME NEW n \in 0 .. Cycle - 1, NEW p \in Nat \ {0}, Cycle % p = 0
    PROVE  ((n + 1) % Cycle) % p = IF n % p = p - 1 THEN 0 ELSE (n % p) + 1
<1>1. Cycle \in Nat \ {0} /\ n \in Nat
      BY UeRadioAssumption
<1>2. CASE n + 1 = Cycle
  <2>1. (n + 1) % Cycle = 0
    <3>1. n + 1 = Cycle * 1 + 0
          BY <1>1, <1>2
    <3>. QED  BY <3>1, <1>1, ModIs
  <2>2. 0 % p = 0
        BY ModIs
  <2>3. (n + 1) % p = 0
        BY <1>2
  <2>. QED  BY <1>1, <2>1, <2>2, <2>3, ModNext
<1>3. CASE n + 1 < Cycle
  <2>1. n + 1 = Cycle * 0 + (n + 1) /\ n + 1 \in Nat
        BY <1>1
  <2>2. (n + 1) % Cycle = n + 1
        BY <2>1, <1>1, <1>3, ModIs
  <2>3. (n + 1) % p = IF n % p = p - 1 THEN 0 ELSE (n % p) + 1
        BY <1>1, ModNext
  <2>. QED  BY <2>2, <2>3
<1>. QED  BY <1>1, <1>2, <1>3
-----------------------------------------------------------------------------
LEMMA InitPlaced ==
    ASSUME RadioInit
    PROVE  Placed
<1>1. MaxSpeed \in Nat /\ Apothem \in Nat /\ MaxDistance2 \in Nat
      BY MobilityAssumption
<1>2. MobilityInit
      BY DEF RadioInit
<1>3. PICK p \in Square(Apothem + 1) : pos = <<Clip(p[1]), Clip(p[2])>>
      BY <1>2 DEF MobilityInit
<1>4. p[1] \in Int /\ p[2] \in Int
      BY <1>1 DEF Square
<1>5. Clip(p[1]) \in -Apothem .. Apothem /\ Clip(p[2]) \in -Apothem .. Apothem
      BY <1>4, ClipRange
<1>6. pos \in Square(Apothem)
      BY <1>3, <1>5 DEF Square
<1>7. radius2 = Dist2(pos) /\ radius2 \in Nat
      BY <1>2, <1>6, OnGrid, Dist2Nat DEF MobilityInit
<1>8. Dist2(pos) <= Max({MaxDistance2, radius2})
  <2>1. MaxDistance2 \in Int /\ radius2 \in Int
        BY <1>1, <1>7
  <2>2. Max({MaxDistance2, radius2}) \in Int /\ Max({MaxDistance2, radius2}) >= radius2
    <3>1. /\ Max({MaxDistance2, radius2}) \in {MaxDistance2, radius2}
          /\ Max({MaxDistance2, radius2}) >= radius2
          BY <2>1, MaxOfTwo, Zenon
    <3>. QED  BY <2>1, <3>1
  <2>. QED  BY <1>7, <2>1, <2>2
<1>9. speed \in -MaxSpeed .. MaxSpeed
      BY <1>1, <1>2 DEF MobilityInit
<1>. QED  BY <1>6, <1>7, <1>8, <1>9 DEF Placed

(* A UE that is where Placed says stays there, wherever its model would     *)
(* like to send it.                                                         *)
LEMMA UpdatePosPlaced ==
    ASSUME Placed, UpdatePos
    PROVE  Placed'
<1>1. MaxSpeed \in Nat /\ MaxDistance2 \in Nat /\ SpeedVars \subseteq Int
      BY MobilityAssumption
<1>2. /\ pos \in Square(Apothem) /\ radius2 \in Nat /\ speed \in -MaxSpeed .. MaxSpeed
      /\ kind = "clockwise" => Dist2(pos) = radius2
      /\ Dist2(pos) <= Max({MaxDistance2, radius2})
      BY DEF Placed
<1>3. kind' = kind /\ radius2' = radius2
      BY DEF UpdatePos
<1>4. CASE pos' = pos /\ speed' \in -MaxSpeed .. MaxSpeed
  <2>1. Dist2(pos') = Dist2(pos)
        BY <1>4
  <2>. QED  BY <1>2, <1>3, <1>4, <2>1 DEF Placed, Dist2
<1>5. ASSUME NEW p, NEW d, NEW v \in -MaxSpeed .. MaxSpeed,
             p \in NextPositions(d, v), Move(p, d, v)
      PROVE  Placed'
  <2>1. CASE ~Accepts(p)
    <3>1. pos' = pos /\ speed' \in {v, 0}
          BY <1>5, <2>1 DEF Move
    <3>. QED  BY <1>1, <3>1, <1>4
  <2>2. CASE Accepts(p)
    <3>1. pos' = p /\ speed' = v
          BY <1>5, <2>2 DEF Move
    <3>2. p \in Square(Apothem)
          BY <2>2 DEF Accepts, Inside
    <3>3. Dist2(p) \in Int
          BY <3>2, OnGrid, Dist2Nat
    <3>4. kind = "clockwise" => Dist2(p) = radius2
          BY <1>5, <2>2 DEF NextPositions, Accepts
    <3>5. Dist2(p) <= MaxDistance2 \/ Dist2(p) <= radius2
          BY <1>2, <2>2, <3>3, <3>4 DEF Accepts
    <3>6. PICK m \in Int : /\ m = Max({MaxDistance2, radius2})
                           /\ m >= MaxDistance2 /\ m >= radius2
      <4>1. MaxDistance2 \in Int /\ radius2 \in Int
            BY <1>1, <1>2
      <4>2. /\ Max({MaxDistance2, radius2}) \in {MaxDistance2, radius2}
            /\ Max({MaxDistance2, radius2}) >= MaxDistance2
            /\ Max({MaxDistance2, radius2}) >= radius2
            BY <4>1, MaxOfTwo, Zenon
      <4>. QED  BY <4>1, <4>2
    <3>7. Dist2(p) <= m
          BY <1>1, <1>2, <3>3, <3>5, <3>6
    <3>8. Dist2(pos') = Dist2(p)
          BY <3>1
    <3>. QED  BY <1>2, <1>3, <1>5, <3>1, <3>2, <3>4, <3>6, <3>7, <3>8 DEF Placed, Dist2
  <2>. QED  BY <2>1, <2>2
<1>6. CASE kind = "base"
      BY <1>2, <1>4, <1>6 DEF UpdatePos
<1>7. CASE kind # "base"
  <2>1. \E d : \E v \in IF due = 0 THEN {Bounded(speed + s) : s \in SpeedVars}
                                   ELSE {speed} :
          IF moving THEN \E p \in NextPositions(d, v) : Move(p, d, v)
                    ELSE pos' = pos /\ current_dir' = d /\ speed' = v
        BY <1>7, Zenon DEF UpdatePos
  <2>2. \A s \in SpeedVars : speed + s \in Int
        BY <1>1, <1>2
  <2>3. \A s \in SpeedVars : Bounded(speed + s) \in -MaxSpeed .. MaxSpeed
        BY <2>2, BoundedRange
  <2>4. PICK d, v : /\ v \in -MaxSpeed .. MaxSpeed
                    /\ moving => \E p \in NextPositions(d, v) : Move(p, d, v)
                    /\ ~moving => pos' = pos /\ speed' = v
        BY <1>2, <2>1, <2>3
  <2>5. CASE moving
        BY <1>5, <2>4, <2>5
  <2>6. CASE ~moving
        BY <1>4, <2>4, <2>6
  <2>. QED  BY <2>5, <2>6
<1>. QED  BY <1>6, <1>7
-----------------------------------------------------------------------------
LEMMA InitRadioInv ==
    ASSUME RadioInit
    PROVE  RadioInv
<1>1. MaxRi \in Nat \ {0} /\ NumThres \in Nat /\ Cycle \in Nat \ {0}
      BY UeRadioAssumption
<1>2. PICK s \in Setups :
        /\ cqi_period = s.cqi /\ ri_period = s.ri
        /\ sinr_period = SinrPeriod(s.coherence, s.cqi, s.ri)
        /\ phy_sinr_period = SinrPeriod(UeCoherence(s.coherence), s.cqi, s.ri)
      BY DEF RadioInit
<1>3. s.cqi \in Nat \ {0} /\ s.ri \in Nat \ {0} /\ s.coherence \in Nat
      BY UeRadioAssumption
<1>4. UeCoherence(s.coherence) \in Nat /\ UeCoherence(s.coherence) <= s.coherence
      BY <1>3, UeCoherenceIs
<1>5. \A c, d \in Nat : d <= c =>
        /\ SinrPeriod(c, s.cqi, s.ri) \in Nat \ {0}
        /\ SinrPeriod(d, s.cqi, s.ri) \in Nat \ {0}
        /\ SinrPeriod(d, s.cqi, s.ri) <= SinrPeriod(c, s.cqi, s.ri)
      BY <1>3, SinrPeriodIs
<1>6. Periodic
      BY <1>2, <1>3, <1>4, <1>5 DEF Periodic
<1>7. Estimated
  <2>1. 1 <= MaxRi /\ 0 <= Cycle - 1
        BY <1>1
  <2>. QED  BY <1>1, <2>1 DEF RadioInit, Estimated
<1>. QED  BY <1>6, <1>7, InitPlaced DEF RadioInv

(* What the channel's step leaves alone, and what it makes of the rest.     *)
LEMMA EstimateInv ==
    ASSUME RadioInv, EstimateChannelState
    PROVE  Estimated'
<1>1. MaxRi \in Nat \ {0} /\ NumThres \in Nat /\ Cycle \in Nat \ {0}
      BY UeRadioAssumption
<1>2. Estimated
      BY DEF RadioInv
<1>3. fading_age' \in Nat
      BY <1>2 DEF Estimated, EstimateChannelState
<1>4. band' \in 0 .. NumThres /\ sinr' \in [age : Nat, ri : 1 .. MaxRi, fading : Nat]
  <2>1. CASE Due(sinr_period)
        BY <1>2, <1>3, <2>1 DEF Estimated, EstimateChannelState
  <2>2. CASE ~Due(sinr_period)
        BY <1>2, <2>2 DEF Estimated, EstimateChannelState
  <2>. QED  BY <2>1, <2>2
<1>5. report' \in [age : Nat, sinr_ri : 1 .. MaxRi, ri : 1 .. MaxRi]
  <2>1. CASE Due(cqi_period)
        BY <1>2, <1>4, <2>1 DEF Estimated, EstimateChannelState
  <2>2. CASE ~Due(cqi_period)
        BY <1>2, <2>2 DEF Estimated, EstimateChannelState
  <2>. QED  BY <2>1, <2>2
<1>6. current_ri' \in 1 .. MaxRi
  <2>1. EstimateRi(band') \subseteq 1 .. MaxRi
        BY <1>1, <1>2, <1>4, EstimateRiRange DEF Estimated
  <2>. QED  BY <1>2, <2>1 DEF Estimated, EstimateChannelState
<1>7. period_counter' \in 0 .. Cycle - 1
      BY <1>1, <1>2 DEF Estimated, EstimateChannelState
<1>8. stage' = "mac"
      BY DEF EstimateChannelState
<1>. QED  BY <1>3, <1>4, <1>5, <1>6, <1>7, <1>8 DEF Estimated

LEMMA NextRadioInv ==
    ASSUME RadioInv, [RadioNext]_radioVars
    PROVE  RadioInv'
<1>. USE DEF RadioInv
<1>1. CASE MoveUe
  <2>1. Placed'
        BY <1>1, UpdatePosPlaced DEF MoveUe
  <2>2. Periodic' /\ Estimated'
        BY <1>1 DEF MoveUe, Periodic, Estimated, periods, channel
  <2>. QED  BY <2>1, <2>2
<1>2. CASE EstimateChannelState
  <2>1. Placed'
        BY <1>2 DEF EstimateChannelState, Placed, mobility, Dist2
  <2>2. Periodic'
        BY <1>2 DEF EstimateChannelState, Periodic, periods
  <2>. QED  BY <1>2, <2>1, <2>2, EstimateInv
<1>3. CASE StepMac
  <2>1. Placed'
        BY <1>3 DEF StepMac, Placed, mobility, Dist2
  <2>2. Periodic' /\ Estimated'
        BY <1>3 DEF StepMac, Periodic, Estimated, periods, channel
  <2>. QED  BY <2>1, <2>2
<1>4. CASE UNCHANGED radioVars
      BY <1>4 DEF radioVars, Placed, Periodic, Estimated, mobility, periods, channel, Dist2
<1>. QED  BY <1>1, <1>2, <1>3, <1>4 DEF RadioNext, Redraw

LEMMA RadioAlways == RadioSpec => []RadioInv
<1>. QED  BY InitRadioInv, NextRadioInv, PTL DEF RadioSpec

(* A UE is always on the map, where its fading is interpolated inside the   *)
(* table, and as close to the antenna as max_distance or its first place,   *)
(* whatever its mobility model, its speed and the turns it takes; its rank  *)
(* is one its antennas allow.                                               *)
THEOREM RadioTypeCorrect == RadioSpec => []RadioTypeOK
<1>1. RadioInv => RadioTypeOK
      BY DEF RadioInv, Placed, Estimated, RadioTypeOK
<1>. QED  BY <1>1, RadioAlways, PTL
-----------------------------------------------------------------------------
LEMMA InitFresh ==
    ASSUME RadioInit, CycleFits
    PROVE  Restarts /\ Fresh
<1>1. PICK s \in Setups :
        /\ cqi_period = s.cqi /\ ri_period = s.ri
        /\ sinr_period = SinrPeriod(s.coherence, s.cqi, s.ri)
        /\ phy_sinr_period = SinrPeriod(UeCoherence(s.coherence), s.cqi, s.ri)
      BY DEF RadioInit
<1>2. Restarts
      BY <1>1 DEF CycleFits, Restarts
<1>3. Periodic
      BY InitRadioInv DEF RadioInv
<1>4. 0 % cqi_period = 0 /\ 0 % sinr_period = 0 /\ 0 % phy_sinr_period = 0
  <2>1. \A p \in Nat \ {0} : 0 = p * 0 + 0 /\ 0 < p
        OBVIOUS
  <2>2. \A p \in Nat \ {0} : 0 % p = 0
        BY <2>1, ModIs
  <2>. QED  BY <1>3, <2>2 DEF Periodic
<1>5. Due(cqi_period) /\ Due(sinr_period) /\ Due(phy_sinr_period)
      BY <1>4 DEF RadioInit, Due
<1>6. Fresh
      BY <1>3, <1>5 DEF RadioInit, Fresh, Aged, Periodic
<1>. QED  BY <1>2, <1>6

(* A step of the channel counts what is not due one step older.             *)
LEMMA AgedNext ==
    ASSUME RadioInv, EstimateChannelState,
           NEW p \in Nat \ {0}, Cycle % p = 0, NEW age \in Nat, Aged(age, p),
           NEW new, new = IF Due(p) THEN 0 ELSE age + 1
    PROVE  /\ new \in Nat /\ new < p
           /\ period_counter' % p # 0 => new + 1 = period_counter' % p
<1>1. period_counter \in 0 .. Cycle - 1 /\ Cycle \in Nat \ {0}
      BY UeRadioAssumption DEF RadioInv, Estimated
<1>2. PICK m \in Nat : m = period_counter % p /\ m < p
      BY <1>1, DivMod
<1>3. period_counter' % p = IF m = p - 1 THEN 0 ELSE m + 1
  <2>1. period_counter' = (period_counter + 1) % Cycle
        BY DEF EstimateChannelState
  <2>. QED  BY <1>1, <1>2, <2>1, RestartMod
<1>4. CASE m = 0
      BY <1>2, <1>3, <1>4 DEF Due
<1>5. CASE m # 0
      BY <1>2, <1>3, <1>5 DEF Due, Aged
<1>. QED  BY <1>4, <1>5

LEMMA EstimateFresh ==
    ASSUME RadioInv, Restarts, Fresh, EstimateChannelState
    PROVE  Fresh'
<1>1. Periodic /\ Estimated /\ period_counter \in 0 .. Cycle - 1 /\ Cycle \in Nat \ {0}
      BY UeRadioAssumption DEF RadioInv, Estimated
<1>2. /\ cqi_period' = cqi_period /\ sinr_period' = sinr_period
      /\ phy_sinr_period' = phy_sinr_period
      BY DEF EstimateChannelState, periods
<1>3. /\ fading_age' \in Nat /\ fading_age' < phy_sinr_period
      /\ period_counter' % phy_sinr_period # 0 =>
           fading_age' + 1 = period_counter' % phy_sinr_period
  <2>1. fading_age' = IF Due(phy_sinr_period) THEN 0 ELSE fading_age + 1
        BY DEF EstimateChannelState
  <2>2. fading_age \in Nat /\ phy_sinr_period \in Nat \ {0}
        BY <1>1 DEF Estimated, Periodic
  <2>3. Cycle % phy_sinr_period = 0 /\ Aged(fading_age, phy_sinr_period)
        BY DEF Restarts, Fresh
  <2>. QED  BY <2>1, <2>2, <2>3, AgedNext
<1>4. /\ sinr'.age \in Nat /\ sinr'.age < sinr_period
      /\ period_counter' % sinr_period # 0 =>
           sinr'.age + 1 = period_counter' % sinr_period
  <2>1. sinr.age \in Nat /\ sinr_period \in Nat \ {0}
        BY <1>1 DEF Estimated, Periodic
  <2>2. sinr'.age = IF Due(sinr_period) THEN 0 ELSE sinr.age + 1
    <3>1. CASE Due(sinr_period)
          BY <3>1 DEF EstimateChannelState
    <3>2. CASE ~Due(sinr_period)
          BY <1>1, <3>2 DEF EstimateChannelState, Estimated
    <3>. QED  BY <3>1, <3>2
  <2>3. Cycle % sinr_period = 0 /\ Aged(sinr.age, sinr_period)
        BY DEF Restarts, Fresh
  <2>. QED  BY <2>1, <2>2, <2>3, AgedNext
<1>5. sinr'.fading < phy_sinr_period
  <2>1. CASE Due(sinr_period)
        BY <1>3, <2>1 DEF EstimateChannelState
  <2>2. CASE ~Due(sinr_period)
        BY <1>1, <2>2 DEF EstimateChannelState, Estimated, Fresh
  <2>. QED  BY <2>1, <2>2
<1>6. PICK m \in Nat : m = period_counter % cqi_period /\ m < cqi_period
      BY <1>1, DivMod DEF Periodic
<1>7. period_counter' % cqi_period = IF m = cqi_period - 1 THEN 0 ELSE m + 1
  <2>1. period_counter' = (period_counter + 1) % Cycle
        BY DEF EstimateChannelState
  <2>2. cqi_period \in Nat \ {0} /\ Cycle % cqi_period = 0
        BY <1>1 DEF Periodic, Restarts
  <2>. QED  BY <1>1, <1>6, <2>1, <2>2, RestartMod
<1>8. /\ report'.age <= (cqi_period - 1) + (sinr_period - 1)
      /\ period_counter' % cqi_period # 0 =>
           report'.age + 1 <= (period_counter' % cqi_period) + (sinr_period - 1)
  <2>1. CASE m = 0
    <3>1. report'.age = sinr'.age
          BY <1>6, <2>1 DEF EstimateChannelState, Due
    <3>. QED  BY <1>1, <1>4, <1>6, <1>7, <2>1, <3>1 DEF Periodic
  <2>2. CASE m # 0
    <3>1. PICK a \in Nat : a = report.age
          BY <1>1 DEF Estimated
    <3>2. report'.age = a + 1
          BY <1>1, <1>6, <2>2, <3>1 DEF EstimateChannelState, Due, Estimated
    <3>3. a + 1 <= m + (sinr_period - 1)
          BY <1>6, <2>2, <3>1 DEF Fresh, Due
    <3>. QED  BY <1>1, <1>6, <1>7, <2>2, <3>2, <3>3 DEF Periodic
  <2>. QED  BY <2>1, <2>2
<1>9. cqi_period % sinr_period = 0 => report'.ri = report'.sinr_ri
  <2>. SUFFICES ASSUME cqi_period % sinr_period = 0
                PROVE  report'.ri = report'.sinr_ri
       OBVIOUS
  <2>1. CASE Due(cqi_period)
    <3>1. /\ period_counter \in Nat /\ cqi_period \in Nat \ {0}
          /\ sinr_period \in Nat \ {0} /\ period_counter % cqi_period = 0
          BY <1>1, <2>1 DEF Due, Periodic
    <3>2. Due(sinr_period)
          BY <3>1, ModTrans DEF Due
    <3>. QED  BY <2>1, <3>2 DEF EstimateChannelState
  <2>2. CASE ~Due(cqi_period)
        BY <1>1, <2>2 DEF EstimateChannelState, Estimated, Fresh
  <2>. QED  BY <2>1, <2>2
<1>. QED  BY <1>2, <1>3, <1>4, <1>5, <1>8, <1>9 DEF Fresh, Aged, Due

LEMMA NextFresh ==
    ASSUME RadioInv, Restarts /\ Fresh, [RadioNext]_radioVars
    PROVE  (Restarts /\ Fresh)'
<1>1. CASE EstimateChannelState
  <2>1. Restarts'
        BY <1>1 DEF EstimateChannelState, Restarts, periods
  <2>. QED  BY <1>1, <2>1, EstimateFresh
<1>2. CASE UNCHANGED <<periods, channel>>
      BY <1>2 DEF Restarts, Fresh, Aged, Due, periods, channel
<1>. QED  BY <1>1, <1>2 DEF RadioNext, MoveUe, Redraw, StepMac, radioVars

(* The reports the scheduler uses, for all periods and speeds: with         *)
(* counters that restart only where every period does, a report's SINR is   *)
(* at most one CQI and one SINR period old, less two steps; the fading in   *)
(* it is less than a SINR period older; and where the SINR period divides   *)
(* the CQI period, a rate counts the layers its SINR was computed for.      *)
THEOREM FreshReports ==
    ASSUME CycleFits
    PROVE  RadioSpec => []ReportConsistent
<1>1. RadioSpec => [](Restarts /\ Fresh)
      BY InitFresh, NextFresh, RadioAlways, PTL DEF RadioSpec
<1>2. (RadioInv /\ Restarts /\ Fresh) => ReportConsistent
  <2>. SUFFICES ASSUME RadioInv, Fresh
                PROVE  ReportConsistent
       OBVIOUS
  <2>1. Periodic /\ Estimated
        BY DEF RadioInv
  <2>2. sinr.fading < sinr_period
        BY <2>1 DEF Periodic, Estimated, Fresh
  <2>. QED  BY <2>2 DEF Fresh, ReportConsistent
<1>. QED  BY <1>1, <1>2, RadioAlways, PTL
-----------------------------------------------------------------------------
(* The packets and the traffic.                                             *)

(* An element of a sequence.                                                *)
LEMMA ElementOf ==
    ASSUME NEW S, NEW s \in Seq(S), NEW i \in DOMAIN s
    PROVE  s[i] \in S
    OBVIOUS

(* A sequence over a set is one over a larger set.                          *)
LEMMA SeqWider ==
    ASSUME NEW S, NEW T, S \subseteq T
    PROVE  Seq(S) \subseteq Seq(T)
<1>. SUFFICES ASSUME NEW s \in Seq(S)
              PROVE  s \in Seq(T)
     OBVIOUS
<1>1. PICK n \in Nat : n = Len(s) /\ s \in [1..n -> S]
      OBVIOUS
<1>2. s \in [1..n -> T]
      BY <1>1
<1>. QED  BY <1>2, FunctionSeq
-----------------------------------------------------------------------------
(* The bits of a packet in a list of blocks.                                *)
AreBlocks(list) ==
    \A i \in DOMAIN list : list[i].pkts \in Seq(BlockEntry)

(* The entries of a typed list have sizes that can be added up.             *)
LEMMA EntriesSized ==
    ASSUME NEW s, s \in Seq(BufferEntry) \/ s \in Seq(BlockEntry)
    PROVE  \A i \in DOMAIN s : s[i].size \in Nat \ {0} /\ s[i].uid \in Uids
<1>1. CASE s \in Seq(BufferEntry)
  <2>. SUFFICES ASSUME NEW i \in DOMAIN s
                PROVE  s[i].size \in Nat \ {0} /\ s[i].uid \in Uids
       OBVIOUS
  <2>1. s[i] \in BufferEntry
        BY <1>1
  <2>. QED  BY <2>1 DEF BufferEntry
<1>2. CASE s \in Seq(BlockEntry)
  <2>. SUFFICES ASSUME NEW i \in DOMAIN s
                PROVE  s[i].size \in Nat \ {0} /\ s[i].uid \in Uids
       OBVIOUS
  <2>1. s[i] \in BlockEntry
        BY <1>2
  <2>. QED  BY <2>1 DEF BlockEntry
<1>. QED  BY <1>1, <1>2

LEMMA BufferBitsNat ==
    ASSUME NEW s \in Seq(BufferEntry), NEW u
    PROVE  BitsOf(s, u) \in Nat
<1>1. \A i \in DOMAIN s : s[i].size \in Nat
      BY EntriesSized
<1>. QED  BY <1>1, BitsOfNat

LEMMA EntryBitsNat ==
    ASSUME NEW s \in Seq(BlockEntry), NEW u
    PROVE  BitsOf(s, u) \in Nat
<1>1. \A i \in DOMAIN s : s[i].size \in Nat
      BY EntriesSized
<1>. QED  BY <1>1, BitsOfNat

LEMMA BlocksSeq ==
    ASSUME NEW B, NEW list \in Seq(B), AreBlocks(list), NEW u
    PROVE  /\ [i \in DOMAIN list |-> BitsOf(list[i].pkts, u)] \in Seq(Nat)
           /\ Len([i \in DOMAIN list |-> BitsOf(list[i].pkts, u)]) = Len(list)
<1>1. \A i \in DOMAIN list : BitsOf(list[i].pkts, u) \in Nat
      BY EntryBitsNat DEF AreBlocks
<1>2. Len(list) \in Nat /\ DOMAIN list = 1..Len(list)
      OBVIOUS
<1>3. [i \in DOMAIN list |-> BitsOf(list[i].pkts, u)] \in [1..Len(list) -> Nat]
      BY <1>1, <1>2
<1>. HIDE DEF BitsOf
<1>. QED  BY <1>2, <1>3, FunctionSeq

LEMMA BlockBitsNat ==
    ASSUME NEW B, NEW list \in Seq(B), AreBlocks(list), NEW u
    PROVE  BlockBits(list, u) \in Nat
<1>1. [i \in DOMAIN list |-> BitsOf(list[i].pkts, u)] \in Seq(Nat)
      BY BlocksSeq
<1>. QED  BY <1>1, SumOfIs, Zenon DEF BlockBits

LEMMA BlockBitsNothing ==
    ASSUME NEW u
    PROVE  BlockBits(<<>>, u) = 0
<1>1. [i \in DOMAIN <<>> |-> BitsOf(<<>>[i].pkts, u)] = <<>>
      OBVIOUS
<1>. QED  BY <1>1, SumOfNothing DEF BlockBits

LEMMA BlockBitsAppend ==
    ASSUME NEW B, NEW list \in Seq(B), AreBlocks(list), NEW b \in B,
           b.pkts \in Seq(BlockEntry), NEW u
    PROVE  /\ AreBlocks(Append(list, b))
           /\ BlockBits(Append(list, b), u) = BlockBits(list, u) + BitsOf(b.pkts, u)
<1>. DEFINE n == [i \in DOMAIN list |-> BitsOf(list[i].pkts, u)]
            r == Append(list, b)
            m == [i \in DOMAIN r |-> BitsOf(r[i].pkts, u)]
<1>1. n \in Seq(Nat) /\ Len(n) = Len(list)
      BY BlocksSeq
<1>2. BitsOf(b.pkts, u) \in Nat
      BY EntryBitsNat
<1>3. /\ r \in Seq(B) /\ Len(r) = Len(list) + 1 /\ r[Len(list) + 1] = b
      /\ \A i \in 1..Len(list) : r[i] = list[i]
      /\ DOMAIN list = 1..Len(list) /\ DOMAIN r = 1..(Len(list) + 1)
      OBVIOUS
<1>4. AreBlocks(r)
      BY <1>3 DEF AreBlocks
<1>5. m \in Seq(Nat) /\ Len(m) = Len(r)
      BY <1>3, <1>4, BlocksSeq
<1>6. m = Append(n, BitsOf(b.pkts, u))
  <2>1. PICK x \in Nat : x = BitsOf(b.pkts, u)
        BY <1>2
  <2>2. \A i \in 1..Len(list) : m[i] = n[i]
        BY <1>3
  <2>3. m[Len(list) + 1] = x
        BY <1>3, <2>1
  <2>. HIDE DEF m, n, r
  <2>4. m = Append(n, x)
        BY <1>1, <1>3, <1>5, <2>2, <2>3
  <2>. QED  BY <2>1, <2>4
<1>7. BlockBits(list, u) = SumOf(n) /\ BlockBits(r, u) = SumOf(m)
      BY Zenon DEF BlockBits
<1>. HIDE DEF m, n, r
<1>8. SumOf(m) = SumOf(n) + BitsOf(b.pkts, u)
      BY <1>1, <1>2, <1>6, SumOfAppend
<1>. QED  BY <1>4, <1>7, <1>8 DEF r

LEMMA Removed ==
    ASSUME NEW B, NEW list \in Seq(B), NEW k \in DOMAIN list
    PROVE  /\ RemoveAt(list, k) \in Seq(B)
           /\ Len(list) = Len(RemoveAt(list, k)) + 1
           /\ \A i \in DOMAIN RemoveAt(list, k) :
                 RemoveAt(list, k)[i] = IF i < k THEN list[i] ELSE list[i + 1]
           /\ \A i \in DOMAIN RemoveAt(list, k) : i \in DOMAIN list /\ i + 1 \in DOMAIN list
<1>. DEFINE a == SubSeq(list, 1, k - 1)
            b == SubSeq(list, k + 1, Len(list))
<1>1. /\ a \in Seq(B) /\ Len(a) = k - 1 /\ \A i \in 1..(k - 1) : a[i] = list[i]
      /\ k \in 1..Len(list)
      OBVIOUS
<1>2. /\ b \in Seq(B) /\ Len(b) = Len(list) - k
      /\ \A i \in 1..(Len(list) - k) : b[i] = list[i + k]
      OBVIOUS
<1>3. RemoveAt(list, k) = a \o b
      BY DEF RemoveAt
<1>. HIDE DEF a, b
<1>4. /\ a \o b \in Seq(B) /\ Len(a \o b) = Len(list) - 1
      /\ \A i \in 1..(k - 1) : (a \o b)[i] = a[i]
      /\ \A i \in k..(Len(list) - 1) : (a \o b)[i] = b[(i - k) + 1]
      BY <1>1, <1>2, SMTT(30)
<1>5. \A i \in k..(Len(list) - 1) : (a \o b)[i] = list[i + 1]
  <2>. TAKE i \in k..(Len(list) - 1)
  <2>1. (i - k) + 1 \in 1..(Len(list) - k) /\ ((i - k) + 1) + k = i + 1
        BY <1>1
  <2>. QED  BY <1>2, <1>4, <2>1
<1>6. DOMAIN (a \o b) = 1..(Len(list) - 1)
      BY <1>4
<1>7. PICK r : r = RemoveAt(list, k)
      OBVIOUS
<1>8. /\ DOMAIN r = 1..(Len(list) - 1) /\ r \in Seq(B) /\ Len(r) = Len(list) - 1
      /\ \A i \in 1..(k - 1) : r[i] = list[i]
      /\ \A i \in k..(Len(list) - 1) : r[i] = list[i + 1]
      BY <1>1, <1>3, <1>4, <1>5, <1>6, <1>7
<1>9. \A i \in DOMAIN r : /\ r[i] = IF i < k THEN list[i] ELSE list[i + 1]
                         /\ i \in DOMAIN list /\ i + 1 \in DOMAIN list
  <2>. TAKE i \in DOMAIN r
  <2>1. i \in 1..(Len(list) - 1) /\ k \in Nat
        BY <1>1, <1>8
  <2>2. CASE i < k
        BY <1>8, <2>1, <2>2
  <2>3. CASE ~(i < k)
        BY <1>8, <2>1, <2>3
  <2>. QED  BY <2>2, <2>3
<1>. QED  BY <1>7, <1>8, <1>9

LEMMA BlockBitsRemoved ==
    ASSUME NEW B, NEW list \in Seq(B), AreBlocks(list), NEW k \in DOMAIN list, NEW u
    PROVE  /\ AreBlocks(RemoveAt(list, k))
           /\ BlockBits(list, u) = BlockBits(RemoveAt(list, k), u) + BitsOf(list[k].pkts, u)
<1>. DEFINE n == [i \in DOMAIN list |-> BitsOf(list[i].pkts, u)]
            r == RemoveAt(list, k)
            m == [i \in DOMAIN r |-> BitsOf(r[i].pkts, u)]
<1>1. n \in Seq(Nat) /\ Len(n) = Len(list)
      BY BlocksSeq
<1>2. /\ r \in Seq(B) /\ Len(list) = Len(r) + 1
      /\ \A i \in DOMAIN r : r[i] = IF i < k THEN list[i] ELSE list[i + 1]
      /\ \A i \in DOMAIN r : i \in DOMAIN list /\ i + 1 \in DOMAIN list
      BY Removed
<1>3. AreBlocks(r)
      BY <1>2 DEF AreBlocks
<1>4. m \in Seq(Nat) /\ Len(m) = Len(r)
      BY <1>2, <1>3, BlocksSeq
<1>5. \A i \in DOMAIN m : m[i] = IF i < k THEN n[i] ELSE n[i + 1]
      BY <1>2
<1>6. k \in DOMAIN n /\ n[k] = BitsOf(list[k].pkts, u)
      OBVIOUS
<1>7. BlockBits(list, u) = SumOf(n) /\ BlockBits(r, u) = SumOf(m)
      BY Zenon DEF BlockBits
<1>. HIDE DEF m, n, r
<1>8. SumOf(n) = SumOf(m) + n[k]
      BY <1>1, <1>2, <1>4, <1>5, <1>6, SumOfRemoved
<1>. QED  BY <1>3, <1>6, <1>7, <1>8 DEF r

LEMMA BlockBitsSame ==
    ASSUME NEW s, NEW t, NEW u, DOMAIN t = DOMAIN s,
           \A i \in DOMAIN s : t[i].pkts = s[i].pkts
    PROVE  BlockBits(t, u) = BlockBits(s, u)
<1>1. [i \in DOMAIN t |-> BitsOf(t[i].pkts, u)] = [i \in DOMAIN s |-> BitsOf(s[i].pkts, u)]
      BY Zenon
<1>. QED  BY <1>1, Zenon DEF BlockBits
-----------------------------------------------------------------------------
(* The bits of a packet that are on their way.                              *)
Carried(u) ==
    BitsOf(ingress_pkts, u) + BitsOf(q, u) + BitsOf(harq.pkts, u) + BlockBits(pkt_list, u)

(* Every bit of an undecided packet is on its way or has been accounted for *)
(* in pending_results, once; nothing is left of a decided one.              *)
Conserved(u) ==
    Carried(u) + FragmentsOf(u).bits = IF Decided(u) THEN 0 ELSE orig[u]

(* What has been accounted for is a packet in part, and known to have lost  *)
(* something if and only if it has; a verdict was right.                    *)
FragmentsTrue(u) ==
    /\ u \in DOMAIN pending_results => pending_results[u].bits < orig[u]
    /\ ~Decided(u) => (FragmentsOf(u).dropped <=> u \in lost)
    /\ verdict[u] \in {"accept", "drop"} => (verdict[u] = "drop" <=> u \in lost)

(* Packets come in whole; a loop leaves nothing in the ingress list and no  *)
(* block.                                                                   *)
FlowLoops ==
    /\ \A i \in DOMAIN ingress_pkts : ingress_pkts[i].size = orig[ingress_pkts[i].uid]
    /\ pc # "admit" => ingress_pkts = <<>>
    /\ pc # "get" => harq = NoHarq /\ bits = 0
    /\ Len(verdict) = Len(orig)

(* The inductive invariant of the flow.                                     *)
FlowInv == TypeOK /\ FlowLoops /\ \A u \in Uids : Conserved(u) /\ FragmentsTrue(u)

(* The blocks under way, as TypeOK types them.                              *)
LEMMA BlocksTyped ==
    ASSUME TypeOK
    PROVE  AreBlocks(pkt_list)
<1>. SUFFICES ASSUME NEW i \in DOMAIN pkt_list
              PROVE  pkt_list[i].pkts \in Seq(BlockEntry)
     BY DEF AreBlocks
<1>1. pkt_list \in Seq([pkts : Seq(BlockEntry), wait : Nat])
      BY DEF TypeOK
<1>2. pkt_list[i] \in [pkts : Seq(BlockEntry), wait : Nat]
      BY <1>1, ElementOf
<1>. QED  BY <1>2

(* The bits of a packet on their way are a number.                          *)
LEMMA CarriedNat ==
    ASSUME TypeOK, NEW u
    PROVE  /\ BitsOf(ingress_pkts, u) \in Nat /\ BitsOf(q, u) \in Nat
           /\ BitsOf(harq.pkts, u) \in Nat /\ BlockBits(pkt_list, u) \in Nat
<1>1. /\ ingress_pkts \in Seq(BufferEntry) /\ q \in Seq(BufferEntry)
      /\ harq.pkts \in Seq(BlockEntry)
      /\ pkt_list \in Seq([pkts : Seq(BlockEntry), wait : Nat])
      BY DEF TypeOK
<1>. QED  BY <1>1, BufferBitsNat, EntryBitsNat, BlockBitsNat, BlocksTyped

(* What TypeOK says of one packet.                                          *)
LEMMA PacketTyped ==
    ASSUME TypeOK, Len(verdict) = Len(orig), NEW u \in Uids
    PROVE  /\ u \in Nat /\ orig[u] \in Nat \ {0} /\ verdict[u] \in Verdicts
           /\ FragmentsOf(u).bits \in Nat /\ FragmentsOf(u).dropped \in BOOLEAN
           /\ u \in DOMAIN pending_results =>
                 FragmentsOf(u) = pending_results[u] /\ FragmentsOf(u).bits > 0
           /\ u \notin DOMAIN pending_results =>
                 FragmentsOf(u).bits = 0 /\ FragmentsOf(u).dropped = FALSE
<1>1. orig[u] \in Nat \ {0} /\ verdict[u] \in Verdicts /\ u \in Nat
      BY SimAssumption DEF TypeOK, Uids
<1>2. CASE u \in DOMAIN pending_results
      BY <1>1, <1>2 DEF TypeOK, FragmentsOf
<1>3. CASE u \notin DOMAIN pending_results
      BY <1>1, <1>3 DEF FragmentsOf, NoFragments
<1>. QED  BY <1>1, <1>2, <1>3

(* The packets of a list that has no more of each than is on its way.       *)
Entries(pkts) ==
    /\ pkts \in Seq(BufferEntry) \/ pkts \in Seq(BlockEntry)
    /\ \A u \in Uids : BitsOf(pkts, u) <= Carried(u)

LEMMA EntriesOf ==
    ASSUME TypeOK, NEW pkts, Entries(pkts), NEW u \in Uids
    PROVE  /\ BitsOf(pkts, u) \in Nat
           /\ u \in {pkts[i].uid : i \in DOMAIN pkts} <=> BitsOf(pkts, u) > 0
<1>0. pkts \in Seq(BufferEntry) \/ pkts \in Seq(BlockEntry)
      BY DEF Entries
<1>1. \A i \in DOMAIN pkts : pkts[i].size \in Nat \ {0}
      BY <1>0, EntriesSized
<1>2. BitsOf(pkts, u) \in Nat
      BY <1>0, BufferBitsNat, EntryBitsNat
<1>3. ASSUME NEW i \in DOMAIN pkts, pkts[i].uid = u
      PROVE  BitsOf(pkts, u) > 0
  <2>1. PICK s : s = pkts[i].size /\ s \in Nat \ {0}
        BY <1>1
  <2>2. s <= BitsOf(pkts, u)
        BY <1>0, <1>1, <1>3, <2>1, BitsOfAtLeast
  <2>. QED  BY <1>2, <2>1, <2>2
<1>4. ASSUME \A i \in DOMAIN pkts : pkts[i].uid # u
      PROVE  BitsOf(pkts, u) = 0
      BY <1>0, <1>1, <1>4, BitsOfNone
<1>. QED  BY <1>2, <1>3, <1>4

(* The accounting of a block, for one packet.                               *)
Lose(pkts, dropped, u) == u \in lost' <=> u \in lost \/ (dropped /\ BitsOf(pkts, u) > 0)

LEMMA AccountOne ==
    ASSUME TypeOK, Len(verdict) = Len(orig), NEW u \in Uids, Conserved(u), FragmentsTrue(u),
           NEW pkts, Entries(pkts), NEW dropped \in BOOLEAN, Account(pkts, dropped),
           UNCHANGED orig, Carried(u) = Carried(u)' + BitsOf(pkts, u), Carried(u)' \in Nat,
           Lose(pkts, dropped, u)
    PROVE  /\ u \in DOMAIN pending_results' =>
                  pending_results'[u] \in [bits : 1..orig[u], dropped : BOOLEAN]
           /\ verdict'[u] \in Verdicts
           /\ Conserved(u)' /\ FragmentsTrue(u)'
<1>. DEFINE after == After(pkts, dropped)
            done == {v \in DOMAIN after : after[v].bits >= orig[v]}
<1>1. PICK b, c, f, o \in Nat :
          b = BitsOf(pkts, u) /\ c = Carried(u)' /\ f = FragmentsOf(u).bits /\ o = orig[u]
      BY EntriesOf, PacketTyped
<1>2. PICK g \in BOOLEAN : g = FragmentsOf(u).dropped
      BY PacketTyped
<1>3. Carried(u) = c + b
      BY <1>1
<1>4. /\ o > 0 /\ verdict[u] \in Verdicts
      /\ u \in DOMAIN pending_results => FragmentsOf(u) = pending_results[u] /\ f > 0
      /\ u \notin DOMAIN pending_results => f = 0 /\ g = FALSE
  <2>1. /\ orig[u] \in Nat \ {0} /\ verdict[u] \in Verdicts
        /\ u \in DOMAIN pending_results =>
              FragmentsOf(u) = pending_results[u] /\ FragmentsOf(u).bits > 0
        /\ u \notin DOMAIN pending_results => FragmentsOf(u).bits = 0
        BY PacketTyped
  <2>2. u \notin DOMAIN pending_results => FragmentsOf(u).dropped = FALSE
        BY PacketTyped
  <2>3. u \notin DOMAIN pending_results => g = FALSE
        BY <1>2, <2>2, Zenon
  <2>. QED  BY <1>1, <2>1, <2>3
<1>5. (c + b) + f = IF Decided(u) THEN 0 ELSE o
      BY <1>1, <1>3 DEF Conserved
<1>6. u \in DOMAIN after <=> u \in DOMAIN pending_results \/ b > 0
      BY <1>1, EntriesOf DEF After
<1>7. u \in DOMAIN after => /\ after[u] = [bits |-> f + b, dropped |-> g \/ (dropped /\ b > 0)]
      BY <1>1, <1>2 DEF After
<1>8. /\ pending_results' = [v \in DOMAIN after \ done |-> after[v]]
      /\ verdict'[u] = IF u \notin done THEN verdict[u]
                       ELSE IF after[u].dropped THEN "drop" ELSE "accept"
      BY DEF Account, Restrict
<1>9. u \in lost' <=> u \in lost \/ (dropped /\ b > 0)
      BY <1>1 DEF Lose
<1>10. orig'[u] = o
      BY <1>1
<1>. HIDE DEF after
<1>11. CASE u \notin DOMAIN after
  <2>1. b = 0 /\ u \notin DOMAIN pending_results /\ f = 0 /\ g = FALSE
        BY <1>4, <1>6, <1>11
  <2>2. u \notin DOMAIN pending_results' /\ verdict'[u] = verdict[u]
        BY <1>8, <1>11
  <2>3. FragmentsOf(u)' = NoFragments
        BY <2>2 DEF FragmentsOf
  <2>4. Decided(u)' <=> Decided(u)
        BY <2>2 DEF Decided
  <2>5. Conserved(u)'
        BY <1>1, <1>5, <1>10, <2>1, <2>3, <2>4 DEF Conserved, NoFragments
  <2>6. FragmentsTrue(u)'
        BY <1>2, <1>9, <2>1, <2>2, <2>3, <2>4 DEF FragmentsTrue, NoFragments
  <2>. QED  BY <1>4, <2>2, <2>5, <2>6
<1>12. CASE u \in DOMAIN after
  <2>1. ~Decided(u) /\ (c + b) + f = o /\ f + b > 0
        BY <1>4, <1>5, <1>6, <1>12
  <2>2. after[u].bits = f + b /\ (after[u].dropped <=> g \/ (dropped /\ b > 0))
        BY <1>7, <1>12
  <2>3. g <=> u \in lost
        BY <1>2, <2>1 DEF FragmentsTrue
  <2>4. after[u].dropped <=> u \in lost'
        BY <1>9, <2>2, <2>3
  <2>5. CASE u \in done
    <3>1. f + b >= o
          BY <1>1, <2>2, <2>5
    <3>2. c = 0
          BY <2>1, <3>1
    <3>3. u \notin DOMAIN pending_results' /\ FragmentsOf(u)' = NoFragments
          BY <1>8, <2>5 DEF FragmentsOf
    <3>4. verdict'[u] = IF after[u].dropped THEN "drop" ELSE "accept"
          BY <1>8, <2>5
    <3>5. verdict'[u] \in Verdicts /\ Decided(u)'
          BY <3>4 DEF Verdicts, Decided
    <3>6. Conserved(u)'
          BY <1>1, <3>2, <3>3, <3>5 DEF Conserved, NoFragments
    <3>7. FragmentsTrue(u)'
          BY <2>4, <3>3, <3>4, <3>5 DEF FragmentsTrue
    <3>. QED  BY <3>3, <3>5, <3>6, <3>7
  <2>6. CASE u \notin done
    <3>1. f + b < o
          BY <1>1, <1>12, <2>2, <2>6
    <3>2. /\ u \in DOMAIN pending_results' /\ FragmentsOf(u)' = after[u]
          /\ pending_results'[u] = after[u]
          BY <1>8, <1>12, <2>6 DEF FragmentsOf
    <3>3. verdict'[u] = verdict[u]
          BY <1>8, <2>6
    <3>4. ~Decided(u)' /\ verdict'[u] = "none"
          BY <2>1, <3>3 DEF Decided
    <3>5. Conserved(u)'
          BY <1>1, <1>10, <2>1, <2>2, <3>2, <3>4 DEF Conserved
    <3>6. FragmentsTrue(u)'
          BY <1>10, <2>2, <2>4, <3>1, <3>2, <3>4 DEF FragmentsTrue
    <3>7. after[u] \in [bits : 1..orig[u], dropped : BOOLEAN]
      <4>1. PICK e \in BOOLEAN : e = (g \/ (dropped /\ b > 0))
            BY <1>2
      <4>2. after[u] = [bits |-> f + b, dropped |-> e]
            BY <1>7, <1>12, <4>1
      <4>3. f + b \in 1..o
            BY <2>1, <3>1
      <4>. QED  BY <1>1, <4>1, <4>2, <4>3
    <3>. QED  BY <1>4, <3>2, <3>3, <3>5, <3>6, <3>7
  <2>. QED  BY <2>5, <2>6
<1>. QED  BY <1>11, <1>12

(* The accounting of a block, for all packets.                              *)
LEMMA AccountAll ==
    ASSUME FlowInv, NEW pkts, Entries(pkts), NEW dropped \in BOOLEAN, Account(pkts, dropped),
           UNCHANGED orig, \A u \in Uids : /\ Carried(u) = Carried(u)' + BitsOf(pkts, u)
                                           /\ Carried(u)' \in Nat /\ Lose(pkts, dropped, u)
    PROVE  /\ DOMAIN pending_results' \subseteq Uids
           /\ \A u \in DOMAIN pending_results' :
                 pending_results'[u] \in [bits : 1..orig[u], dropped : BOOLEAN]
           /\ verdict' \in Seq(Verdicts) /\ Len(verdict') = Len(orig)
           /\ \A u \in Uids : Conserved(u)' /\ FragmentsTrue(u)'
<1>1. TypeOK /\ Len(verdict) = Len(orig) /\ \A u \in Uids : Conserved(u) /\ FragmentsTrue(u)
      BY DEF FlowInv, FlowLoops
<1>2. ASSUME NEW u \in Uids
      PROVE  /\ u \in DOMAIN pending_results' =>
                    pending_results'[u] \in [bits : 1..orig[u], dropped : BOOLEAN]
             /\ verdict'[u] \in Verdicts
             /\ Conserved(u)' /\ FragmentsTrue(u)'
      BY <1>1, <1>2, AccountOne
<1>3. DOMAIN pending_results' \subseteq Uids
  <2>1. DOMAIN pending_results \subseteq Uids
        BY <1>1 DEF TypeOK
  <2>2. {pkts[i].uid : i \in DOMAIN pkts} \subseteq Uids
    <3>1. \A i \in DOMAIN pkts : pkts[i].uid \in Uids
          BY EntriesSized DEF Entries
    <3>. QED  BY <3>1
  <2>3. DOMAIN After(pkts, dropped) \subseteq Uids
        BY <2>1, <2>2 DEF After
  <2>4. DOMAIN pending_results' \subseteq DOMAIN After(pkts, dropped)
        BY DEF Account, Restrict
  <2>. QED  BY <2>3, <2>4
<1>4. verdict' \in Seq(Verdicts) /\ Len(verdict') = Len(orig)
  <2>1. orig \in Seq(1..PktSize)
        BY <1>1 DEF TypeOK
  <2>2. Uids = 1..Len(orig) /\ Len(orig) \in Nat
        BY <2>1 DEF Uids
  <2>3. verdict' \in [1..Len(orig) -> Verdicts]
        BY <1>2, <2>2 DEF Account
  <2>. QED  BY <2>2, <2>3, FunctionSeq
<1>. QED  BY <1>2, <1>3, <1>4
-----------------------------------------------------------------------------
(* What depends on the packets there are, and on what is on its way.        *)
LEMMA SameUids ==
    ASSUME UNCHANGED orig
    PROVE  /\ Uids' = Uids /\ BufferEntry' = BufferEntry /\ BlockEntry' = BlockEntry
    BY DEF Uids, BufferEntry, BlockEntry

LEMMA PacketStays ==
    ASSUME FlowInv, UNCHANGED <<orig, pending_results, verdict, lost>>,
           \A u \in Uids : Carried(u)' = Carried(u)
    PROVE  \A u \in Uids' : Conserved(u)' /\ FragmentsTrue(u)'
<1>. SUFFICES ASSUME NEW u \in Uids
              PROVE  Conserved(u)' /\ FragmentsTrue(u)'
     BY SameUids
<1>1. Conserved(u) /\ FragmentsTrue(u) /\ Carried(u)' = Carried(u)
      BY DEF FlowInv
<1>2. FragmentsOf(u)' = FragmentsOf(u) /\ (Decided(u)' <=> Decided(u))
      BY DEF FragmentsOf, Decided
<1>3. Conserved(u)'
      BY <1>1, <1>2 DEF Conserved
<1>. QED  BY <1>1, <1>2, <1>3 DEF FragmentsTrue

LEMMA StepInv ==
    ASSUME FlowInv, NEW dt \in StepTimes, Step(dt)
    PROVE  FlowInv'
<1>0. TypeOK /\ FlowLoops /\ pc = "mac" /\ dt \in Nat
      BY SimAssumption DEF FlowInv, Step
<1>1. /\ q \in Seq(BufferEntry) /\ pkt_list \in Seq([pkts : Seq(BlockEntry), wait : Nat])
      /\ \A i \in DOMAIN q : q[i] \in BufferEntry
      /\ \A i \in DOMAIN pkt_list : pkt_list[i] \in [pkts : Seq(BlockEntry), wait : Nat]
      BY <1>0, ElementOf DEF TypeOK
<1>2. /\ UNCHANGED <<ingress_pkts, current_size, bits, harq, pending_results, verdict,
                     orig, generated, lost>>
      /\ q' = [i \in DOMAIN q |-> [q[i] EXCEPT !.age = IF @ > Budget THEN @ ELSE @ + dt]]
      /\ pkt_list' = [i \in DOMAIN pkt_list |->
                         [pkt_list[i] EXCEPT !.wait = IF @ > dt THEN @ - dt ELSE 0]]
      /\ pc' = "generate" /\ clock' = IF clock + dt > MaxClock THEN MaxClock ELSE clock + dt
      /\ Call(clock')
      BY DEF Step, history
<1>3. /\ Uids' = Uids /\ BufferEntry' = BufferEntry /\ BlockEntry' = BlockEntry
      BY <1>2, SameUids
<1>4. \A i \in DOMAIN q : /\ q'[i] \in BufferEntry /\ q'[i].uid = q[i].uid
                          /\ q'[i].size = q[i].size
  <2>. TAKE i \in DOMAIN q
  <2>1. q[i] \in [uid : Uids, size : Nat \ {0}, age : Nat]
        BY <1>1 DEF BufferEntry
  <2>2. q'[i] = [q[i] EXCEPT !.age = IF @ > Budget THEN @ ELSE @ + dt]
        BY <1>2
  <2>3. q'[i] \in [uid : Uids, size : Nat \ {0}, age : Nat]
        BY <1>0, <2>1, <2>2
  <2>. QED  BY <2>1, <2>2, <2>3 DEF BufferEntry
<1>5. \A i \in DOMAIN pkt_list :
          /\ pkt_list'[i] \in [pkts : Seq(BlockEntry), wait : Nat]
          /\ pkt_list'[i].pkts = pkt_list[i].pkts
  <2>. TAKE i \in DOMAIN pkt_list
  <2>1. PICK B : B = Seq(BlockEntry)
        OBVIOUS
  <2>2. pkt_list[i] \in [pkts : B, wait : Nat]
        BY <1>1, <2>1
  <2>3. pkt_list'[i] = [pkt_list[i] EXCEPT !.wait = IF @ > dt THEN @ - dt ELSE 0]
        BY <1>2
  <2>4. pkt_list'[i] \in [pkts : B, wait : Nat] /\ pkt_list'[i].pkts = pkt_list[i].pkts
        BY <1>0, <2>2, <2>3
  <2>. QED  BY <2>1, <2>4
<1>6. DOMAIN q' = DOMAIN q /\ DOMAIN pkt_list' = DOMAIN pkt_list
      BY <1>2
<1>7. q' \in Seq(BufferEntry') /\ pkt_list' \in Seq([pkts : Seq(BlockEntry'), wait : Nat])
  <2>1. q' \in Seq(BufferEntry)
    <3>1. Len(q) \in Nat /\ DOMAIN q = 1..Len(q) /\ q' \in [1..Len(q) -> BufferEntry]
          BY <1>1, <1>2, <1>4
    <3>. QED  BY <3>1, FunctionSeq
  <2>2. pkt_list' \in Seq([pkts : Seq(BlockEntry), wait : Nat])
    <3>1. PICK B : B = [pkts : Seq(BlockEntry), wait : Nat]
          OBVIOUS
    <3>2. pkt_list \in Seq(B) /\ \A i \in DOMAIN pkt_list : pkt_list'[i] \in B
          BY <1>1, <1>5, <3>1
    <3>3. /\ Len(pkt_list) \in Nat /\ DOMAIN pkt_list = 1..Len(pkt_list)
          /\ pkt_list' \in [1..Len(pkt_list) -> B]
          BY <1>2, <3>2
    <3>4. pkt_list' \in Seq(B)
          BY <3>3, FunctionSeq
    <3>. QED  BY <3>1, <3>4
  <2>. QED  BY <1>3, <2>1, <2>2
<1>8. ASSUME NEW u
      PROVE  Carried(u)' = Carried(u)
  <2>1. \A i \in DOMAIN q : PartOf(q'[i], u) = PartOf(q[i], u)
        BY <1>4 DEF PartOf
  <2>2. BitsOf(q', u) = BitsOf(q, u)
        BY <1>6, <2>1, BitsOfSame
  <2>3. BlockBits(pkt_list', u) = BlockBits(pkt_list, u)
        BY <1>5, <1>6, BlockBitsSame
  <2>. QED  BY <1>2, <2>2, <2>3 DEF Carried
<1>10. TypeOK'
  <2>1. TraceTypeOK'
        BY <1>0, <1>2 DEF TypeOK, TraceTypeOK, Call
  <2>2. clock' \in 0..MaxClock /\ pc' \in PcAt
        BY <1>0, <1>2, SimAssumption, SMTT(30) DEF TypeOK, PcAt
  <2>3. /\ ingress_pkts' \in Seq(BufferEntry') /\ current_size' \in Floats /\ bits' \in Nat
        /\ generated' \in Nat /\ harq' \in [bits : Nat, pkts : Seq(BlockEntry'), wait : Nat]
        BY <1>0, <1>2, <1>3 DEF TypeOK
  <2>4. /\ DOMAIN pending_results' \subseteq Uids' /\ lost' \subseteq Uids'
        /\ \A u \in DOMAIN pending_results' :
              pending_results'[u] \in [bits : 1..orig'[u], dropped : BOOLEAN]
        /\ orig' \in Seq(1..PktSize) /\ verdict' \in Seq(Verdicts)
        BY <1>0, <1>2, <1>3 DEF TypeOK
  <2>. QED  BY <1>7, <2>1, <2>2, <2>3, <2>4 DEF TypeOK
<1>11. FlowLoops'
       BY <1>0, <1>2 DEF FlowLoops
<1>12. \A u \in Uids' : Conserved(u)' /\ FragmentsTrue(u)'
       BY <1>2, <1>8, PacketStays
<1>. QED  BY <1>10, <1>11, <1>12 DEF FlowInv

(* The packets stay typed when no verdict changes.                          *)
LEMMA PacketsStayTyped ==
    ASSUME TypeOK, UNCHANGED <<orig, pending_results, verdict, lost>>
    PROVE  /\ DOMAIN pending_results' \subseteq Uids' /\ lost' \subseteq Uids'
           /\ \A u \in DOMAIN pending_results' :
                 pending_results'[u] \in [bits : 1..orig'[u], dropped : BOOLEAN]
           /\ orig' \in Seq(1..PktSize) /\ verdict' \in Seq(Verdicts)
<1>1. Uids' = Uids
      BY SameUids
<1>. QED  BY <1>1 DEF TypeOK

LEMMA ControlInv ==
    ASSUME FlowInv, UNCHANGED <<clock, flow, release, history>>, TraceTypeOK', pc' \in PcAt,
           pc' # "admit" => ingress_pkts = <<>>, pc' # "get" => pc # "get"
    PROVE  FlowInv'
<1>1. TypeOK /\ FlowLoops
      BY DEF FlowInv
<1>2. UNCHANGED <<clock, ingress_pkts, q, current_size, bits, harq, pkt_list,
                  pending_results, verdict, orig, generated, lost>>
      BY DEF flow, release, history
<1>3. Uids' = Uids /\ BufferEntry' = BufferEntry /\ BlockEntry' = BlockEntry
      BY <1>2, SameUids
<1>4. /\ DOMAIN pending_results' \subseteq Uids' /\ lost' \subseteq Uids'
      /\ \A u \in DOMAIN pending_results' :
            pending_results'[u] \in [bits : 1..orig'[u], dropped : BOOLEAN]
      /\ orig' \in Seq(1..PktSize) /\ verdict' \in Seq(Verdicts)
      BY <1>1, <1>2, PacketsStayTyped
<1>5. TypeOK'
  <2>1. /\ clock' \in 0..MaxClock /\ ingress_pkts' \in Seq(BufferEntry')
        /\ q' \in Seq(BufferEntry') /\ current_size' \in Floats /\ bits' \in Nat
        /\ generated' \in Nat /\ harq' \in [bits : Nat, pkts : Seq(BlockEntry'), wait : Nat]
        /\ pkt_list' \in Seq([pkts : Seq(BlockEntry'), wait : Nat])
        BY <1>1, <1>2, <1>3 DEF TypeOK
  <2>. QED  BY <1>4, <2>1 DEF TypeOK
<1>6. FlowLoops'
      BY <1>1, <1>2 DEF FlowLoops
<1>7. \A u \in Uids : Carried(u)' = Carried(u)
      BY <1>2 DEF Carried
<1>8. \A u \in Uids' : Conserved(u)' /\ FragmentsTrue(u)'
      BY <1>2, <1>7, PacketStays
<1>. QED  BY <1>5, <1>6, <1>8 DEF FlowInv

LEMMA GenerateInv ==
    ASSUME FlowInv, Generate
    PROVE  FlowInv'
<1>1. TraceTypeOK /\ pc = "generate" /\ (pc # "admit" => ingress_pkts = <<>>)
      BY DEF FlowInv, FlowLoops, TypeOK, Generate
<1>2. TraceTypeOK'
  <2>1. /\ Trace \in Seq([t : Nat, bytes : Nat]) /\ Len(Trace) \in Nat
        /\ \A i \in 1..Len(Trace) : Trace[i].t \in Nat /\ Trace[i].bytes \in Nat
    <3>1. Trace \in Seq([t : Nat, bytes : Nat])
          BY TraceAssumption
    <3>2. \A i \in DOMAIN Trace : Trace[i] \in [t : Nat, bytes : Nat]
          BY <3>1, ElementOf
    <3>. QED  BY <3>1, <3>2
  <2>2. Len(Trace) > 0
        BY TraceAssumption
  <2>3. CASE ReadRecord(clock)
    <3>1. records + 1 \in 1..Len(Trace)
          BY <1>1, <2>1, <2>3 DEF ReadRecord, TraceTypeOK
    <3>2. PICK a, b \in Nat : a = Trace[records + 1].t /\ b = Trace[records + 1].bytes
          BY <2>1, <3>1
    <3>3. last_t' \in Nat /\ last_tp' \in Nat /\ total_tp' \in Nat
      <4>1. /\ last_t' = IF a <= clock THEN a + t_acc ELSE a
            /\ last_tp' = b
            /\ total_tp' = IF a <= clock THEN total_tp + b ELSE total_tp
            BY <2>3, <3>2, Zenon DEF ReadRecord, Take
      <4>. QED  BY <1>1, <4>1 DEF TraceTypeOK
    <3>4. records' \in 0..Len(Trace) /\ t_acc' \in Nat
          BY <1>1, <2>3, <3>1 DEF ReadRecord, TraceTypeOK
    <3>. QED  BY <3>3, <3>4 DEF TraceTypeOK
  <2>4. CASE Rewind(clock)
    <3>1. 1 \in 1..Len(Trace)
          BY <2>1, <2>2
    <3>. QED  BY <1>1, <2>1, <2>4, <3>1, SMTT(30) DEF Rewind, Take, TraceTypeOK
  <2>. QED  BY <2>3, <2>4 DEF Generate
<1>3. pc' = pc /\ UNCHANGED <<clock, flow, release, history>>
      BY DEF Generate
<1>. QED  BY <1>1, <1>2, <1>3, ControlInv DEF PcAt

LEMMA LoopEndsInv ==
    ASSUME FlowInv, AdmitDone \/ ExpireDone \/ ReleaseDone
    PROVE  FlowInv'
<1>1. TraceTypeOK /\ (pc # "admit" => ingress_pkts = <<>>)
      BY DEF FlowInv, FlowLoops, TypeOK
<1>2. /\ UNCHANGED <<file, clock, flow, release, history>>
      /\ pc' \in PcAt /\ ingress_pkts = <<>> /\ pc # "get"
      BY <1>1 DEF AdmitDone, ExpireDone, ReleaseDone, PcAt
<1>3. TraceTypeOK'
      BY <1>1, <1>2 DEF TraceTypeOK, file
<1>. QED  BY <1>2, <1>3, ControlInv
-----------------------------------------------------------------------------
LEMMA AdmitInv ==
    ASSUME FlowInv, Admit
    PROVE  FlowInv'
<1>. DEFINE p == Head(ingress_pkts)
<1>0. TypeOK /\ FlowLoops
      BY DEF FlowInv
<1>1. /\ UNCHANGED <<file, clock, pc, bits, harq, pkt_list, pending_results, verdict,
                     orig, generated, lost>>
      /\ pc = "admit" /\ ingress_pkts # <<>> /\ ingress_pkts' = Tail(ingress_pkts)
      /\ q' = Append(q, p) /\ current_size' \in Floats
      BY DEF Admit, Nearest, release, history
<1>2. /\ ingress_pkts \in Seq(BufferEntry) /\ q \in Seq(BufferEntry)
      /\ \A i \in DOMAIN ingress_pkts : ingress_pkts[i].size \in Nat
      /\ \A i \in DOMAIN q : q[i].size \in Nat
  <2>1. ingress_pkts \in Seq(BufferEntry) /\ q \in Seq(BufferEntry)
        BY <1>0 DEF TypeOK
  <2>. QED  BY <2>1, EntriesSized
<1>3. /\ p \in BufferEntry /\ p = ingress_pkts[1] /\ p.size \in Nat
      /\ Tail(ingress_pkts) \in Seq(BufferEntry)
      /\ \A i \in DOMAIN Tail(ingress_pkts) :
            i + 1 \in DOMAIN ingress_pkts /\ Tail(ingress_pkts)[i] = ingress_pkts[i + 1]
  <2>1. /\ p \in BufferEntry /\ p = ingress_pkts[1] /\ 1 \in DOMAIN ingress_pkts
        /\ Tail(ingress_pkts) \in Seq(BufferEntry)
        /\ \A i \in DOMAIN Tail(ingress_pkts) :
            i + 1 \in DOMAIN ingress_pkts /\ Tail(ingress_pkts)[i] = ingress_pkts[i + 1]
        BY <1>1, <1>2, HeadTail
  <2>. QED  BY <1>2, <2>1
<1>. HIDE DEF p
<1>4. /\ Uids' = Uids /\ BufferEntry' = BufferEntry /\ BlockEntry' = BlockEntry
      BY <1>1, SameUids
<1>5. ASSUME NEW u \in Uids
      PROVE  Carried(u)' = Carried(u)
  <2>1. BitsOf(ingress_pkts, u) = PartOf(p, u) + BitsOf(ingress_pkts', u)
        BY <1>1, <1>2, <1>3, BitsOfTail
  <2>2. BitsOf(q', u) = BitsOf(q, u) + PartOf(p, u)
        BY <1>1, <1>2, <1>3, BitsOfAppend, SMTT(30)
  <2>3. /\ BitsOf(ingress_pkts', u) \in Nat /\ BitsOf(q, u) \in Nat
        /\ BitsOf(harq.pkts, u) \in Nat /\ BlockBits(pkt_list, u) \in Nat
        BY <1>0, <1>1, <1>3, CarriedNat, BufferBitsNat
  <2>4. PartOf(p, u) \in Nat
        BY <1>3 DEF PartOf
  <2>5. harq' = harq /\ pkt_list' = pkt_list
        BY <1>1
  <2>. HIDE DEF BitsOf, BlockBits, PartOf
  <2>. QED  BY <2>1, <2>2, <2>3, <2>4, <2>5 DEF Carried
<1>7. q' \in Seq(BufferEntry)
      BY <1>1, <1>2, <1>3, Appended
<1>8. TypeOK'
  <2>1. TraceTypeOK' /\ clock' \in 0..MaxClock /\ pc' \in PcAt
        BY <1>0, <1>1 DEF TypeOK, TraceTypeOK, file
  <2>2. /\ ingress_pkts' \in Seq(BufferEntry') /\ q' \in Seq(BufferEntry')
        BY <1>1, <1>3, <1>4, <1>7
  <2>3. /\ current_size' \in Floats /\ bits' \in Nat /\ generated' \in Nat
        /\ harq' \in [bits : Nat, pkts : Seq(BlockEntry'), wait : Nat]
        /\ pkt_list' \in Seq([pkts : Seq(BlockEntry'), wait : Nat])
        BY <1>0, <1>1, <1>3, <1>4, SMTT(30) DEF TypeOK
  <2>. QED  BY <1>0, <1>1, <2>1, <2>2, <2>3, PacketsStayTyped DEF TypeOK
<1>9. FlowLoops'
  <2>1. \A i \in DOMAIN ingress_pkts' : ingress_pkts'[i].size = orig'[ingress_pkts'[i].uid]
        BY <1>0, <1>1, <1>3 DEF FlowLoops
  <2>. QED  BY <1>0, <1>1, <2>1 DEF FlowLoops
<1>10. \A u \in Uids' : Conserved(u)' /\ FragmentsTrue(u)'
       BY <1>1, <1>5, PacketStays
<1>. QED  BY <1>8, <1>9, <1>10 DEF FlowInv

(* A refused packet was whole: nothing of it is anywhere else.              *)
LEMMA RefuseInv ==
    ASSUME FlowInv, Refuse
    PROVE  FlowInv'
<1>. DEFINE p == Head(ingress_pkts)
<1>0. TypeOK /\ FlowLoops
      BY DEF FlowInv
<1>1. /\ UNCHANGED <<file, clock, pc, q, current_size, bits, harq, pkt_list,
                     pending_results, orig, generated, lost>>
      /\ pc = "admit" /\ ingress_pkts # <<>> /\ ingress_pkts' = Tail(ingress_pkts)
      /\ verdict' = [verdict EXCEPT ![p.uid] = "refused"]
      BY DEF Refuse, history
<1>2. /\ ingress_pkts \in Seq(BufferEntry)
      /\ \A i \in DOMAIN ingress_pkts : ingress_pkts[i].size \in Nat \ {0}
  <2>1. ingress_pkts \in Seq(BufferEntry)
        BY <1>0 DEF TypeOK
  <2>. QED  BY <2>1, EntriesSized
<1>3. /\ 1 \in DOMAIN ingress_pkts /\ p = ingress_pkts[1] /\ p.size \in Nat \ {0}
      /\ p.uid \in Uids /\ p.size = orig[p.uid]
      /\ Tail(ingress_pkts) \in Seq(BufferEntry)
      /\ \A i \in DOMAIN Tail(ingress_pkts) :
            i + 1 \in DOMAIN ingress_pkts /\ Tail(ingress_pkts)[i] = ingress_pkts[i + 1]
  <2>1. /\ p \in BufferEntry /\ p = ingress_pkts[1] /\ 1 \in DOMAIN ingress_pkts
        /\ Tail(ingress_pkts) \in Seq(BufferEntry)
        /\ \A i \in DOMAIN Tail(ingress_pkts) :
            i + 1 \in DOMAIN ingress_pkts /\ Tail(ingress_pkts)[i] = ingress_pkts[i + 1]
        BY <1>1, <1>2, HeadTail
  <2>2. p.uid \in Uids
        BY <2>1 DEF BufferEntry
  <2>. QED  BY <1>0, <1>2, <2>1, <2>2 DEF FlowLoops
<1>. HIDE DEF p
<1>4. /\ Uids' = Uids /\ BufferEntry' = BufferEntry /\ BlockEntry' = BlockEntry
      BY <1>1, SameUids
<1>5. /\ orig \in Seq(1..PktSize) /\ verdict \in Seq(Verdicts) /\ Len(verdict) = Len(orig)
      /\ p.uid \in DOMAIN verdict
  <2>1. orig \in Seq(1..PktSize) /\ verdict \in Seq(Verdicts) /\ Len(verdict) = Len(orig)
        BY <1>0 DEF TypeOK, FlowLoops
  <2>2. DOMAIN verdict = DOMAIN orig
        BY <2>1
  <2>. QED  BY <1>3, <2>1, <2>2 DEF Uids
<1>6. /\ verdict' \in Seq(Verdicts) /\ Len(verdict') = Len(verdict)
      /\ verdict'[p.uid] = "refused" /\ \A v : v # p.uid => verdict'[v] = verdict[v]
  <2>1. "refused" \in Verdicts
        BY DEF Verdicts
  <2>2. PICK v : v = p.uid
        OBVIOUS
  <2>3. v \in DOMAIN verdict /\ verdict' = [verdict EXCEPT ![v] = "refused"]
        BY <1>1, <1>5, <2>2
  <2>4. verdict' \in Seq(Verdicts) /\ Len(verdict') = Len(verdict)
        BY <1>5, <2>1, <2>3, ExceptSeq
  <2>5. verdict'[v] = "refused" /\ \A w \in DOMAIN verdict : w # v => verdict'[w] = verdict[w]
        BY <2>3
  <2>. QED  BY <2>2, <2>3, <2>4, <2>5
<1>7. ASSUME NEW u \in Uids
      PROVE  Conserved(u)' /\ FragmentsTrue(u)'
  <2>0. Conserved(u) /\ FragmentsTrue(u)
        BY DEF FlowInv
  <2>1. PICK a, b, c, e, x, f, o \in Nat :
            /\ a = BitsOf(Tail(ingress_pkts), u) /\ b = BitsOf(q, u) /\ c = BitsOf(harq.pkts, u)
            /\ e = BlockBits(pkt_list, u) /\ x = PartOf(p, u) /\ f = FragmentsOf(u).bits
            /\ o = orig[u]
    <3>1. PartOf(p, u) \in Nat
          BY <1>3 DEF PartOf
    <3>. QED  BY <1>0, <1>3, <1>5, <3>1, CarriedNat, BufferBitsNat, PacketTyped
  <2>2. BitsOf(ingress_pkts, u) = x + a
    <3>1. BitsOf(ingress_pkts, u) = PartOf(ingress_pkts[1], u) + BitsOf(Tail(ingress_pkts), u)
          BY <1>1, <1>2, BitsOfTail
    <3>. QED  BY <1>3, <2>1, <3>1
  <2>3. Carried(u) = ((x + a) + b) + c + e /\ Carried(u)' = ((a + b) + c) + e
    <3>1. ingress_pkts' = Tail(ingress_pkts) /\ q' = q /\ harq' = harq /\ pkt_list' = pkt_list
          BY <1>1
    <3>. HIDE DEF BitsOf, BlockBits
    <3>. QED  BY <2>1, <2>2, <3>1 DEF Carried
  <2>4. /\ FragmentsOf(u)' = FragmentsOf(u)
        /\ orig' = orig /\ lost' = lost /\ pending_results' = pending_results
        BY <1>1 DEF FragmentsOf
  <2>5. CASE u = p.uid
    <3>1. x = o /\ o > 0
          BY <1>3, <2>1, <2>5 DEF PartOf
    <3>2. ~Decided(u) /\ f = 0 /\ ((a + b) + c) + e = 0
      <4>1. ((((x + a) + b) + c) + e) + f = IF Decided(u) THEN 0 ELSE o
            BY <2>0, <2>1, <2>3 DEF Conserved
      <4>2. CASE Decided(u)
        <5>1. ((((x + a) + b) + c) + e) + f = 0
              BY <4>1, <4>2
        <5>. QED  BY <3>1, <5>1
      <4>3. CASE ~Decided(u)
        <5>1. ((((x + a) + b) + c) + e) + f = o
              BY <4>1, <4>3
        <5>2. f = 0 /\ ((a + b) + c) + e = 0
              BY <3>1, <5>1
        <5>. QED  BY <4>3, <5>2
      <4>. QED  BY <4>2, <4>3
    <3>3. u \notin DOMAIN pending_results
      <4>1. u \in DOMAIN pending_results => FragmentsOf(u).bits > 0
            BY <1>0, <1>5, PacketTyped
      <4>. QED  BY <2>1, <3>2, <4>1
    <3>4. verdict'[u] = "refused" /\ Decided(u)'
          BY <1>6, <2>5 DEF Decided
    <3>5. Conserved(u)'
          BY <2>1, <2>3, <2>4, <3>2, <3>4 DEF Conserved
    <3>. QED  BY <2>4, <3>3, <3>4, <3>5 DEF FragmentsTrue
  <2>6. CASE u # p.uid
    <3>1. x = 0 /\ verdict'[u] = verdict[u]
          BY <1>6, <2>1, <2>6 DEF PartOf
    <3>2. Carried(u)' = Carried(u) /\ (Decided(u)' <=> Decided(u))
          BY <2>1, <2>3, <3>1 DEF Decided
    <3>3. Conserved(u)'
          BY <2>0, <2>4, <3>2 DEF Conserved
    <3>. QED  BY <2>0, <2>4, <3>1, <3>2, <3>3 DEF FragmentsTrue
  <2>. QED  BY <2>5, <2>6
<1>8. TypeOK'
  <2>1. TraceTypeOK' /\ clock' \in 0..MaxClock /\ pc' \in PcAt
        BY <1>0, <1>1 DEF TypeOK, TraceTypeOK, file
  <2>2. ingress_pkts' \in Seq(BufferEntry') /\ q' \in Seq(BufferEntry')
        BY <1>0, <1>1, <1>3, <1>4 DEF TypeOK
  <2>3. /\ current_size' \in Floats /\ bits' \in Nat /\ generated' \in Nat
        /\ harq' \in [bits : Nat, pkts : Seq(BlockEntry'), wait : Nat]
        /\ pkt_list' \in Seq([pkts : Seq(BlockEntry'), wait : Nat])
        BY <1>0, <1>1, <1>4 DEF TypeOK
  <2>4. /\ DOMAIN pending_results' \subseteq Uids' /\ lost' \subseteq Uids'
        /\ \A u \in DOMAIN pending_results' :
              pending_results'[u] \in [bits : 1..orig'[u], dropped : BOOLEAN]
        /\ orig' \in Seq(1..PktSize)
        BY <1>0, <1>1, <1>4 DEF TypeOK
  <2>. QED  BY <1>6, <2>1, <2>2, <2>3, <2>4 DEF TypeOK
<1>9. FlowLoops'
  <2>1. \A i \in DOMAIN ingress_pkts' : ingress_pkts'[i].size = orig'[ingress_pkts'[i].uid]
        BY <1>0, <1>1, <1>3 DEF FlowLoops
  <2>. QED  BY <1>0, <1>1, <1>5, <1>6, <2>1 DEF FlowLoops
<1>. QED  BY <1>4, <1>7, <1>8, <1>9 DEF FlowInv

LEMMA ExpireInv ==
    ASSUME FlowInv, Expire
    PROVE  FlowInv'
<1>. DEFINE p == Head(q)
<1>0. TypeOK /\ FlowLoops
      BY DEF FlowInv
<1>1. /\ UNCHANGED <<file, clock, pc, ingress_pkts, bits, harq, pkt_list, orig, generated>>
      /\ pc = "expire" /\ q # <<>> /\ q' = Tail(q) /\ current_size' \in Floats
      /\ Account(<<p>>, TRUE) /\ lost' = lost \cup {p.uid}
      BY DEF Expire, Nearest
<1>2. /\ q \in Seq(BufferEntry) /\ \A i \in DOMAIN q : q[i].size \in Nat
  <2>1. q \in Seq(BufferEntry)
        BY <1>0 DEF TypeOK
  <2>. QED  BY <2>1, EntriesSized
<1>3. /\ p \in BufferEntry /\ p = q[1] /\ p.size \in Nat \ {0} /\ p.uid \in Uids
      /\ Tail(q) \in Seq(BufferEntry)
  <2>1. p \in BufferEntry /\ p = q[1] /\ Tail(q) \in Seq(BufferEntry)
        BY <1>1, <1>2, HeadTail
  <2>. QED  BY <2>1 DEF BufferEntry
<1>. HIDE DEF p
<1>4. /\ Uids' = Uids /\ BufferEntry' = BufferEntry /\ BlockEntry' = BlockEntry
      BY <1>1, SameUids
<1>5. ASSUME NEW u
      PROVE  BitsOf(<<p>>, u) = PartOf(p, u) /\ PartOf(p, u) \in Nat
  <2>1. p.size \in Nat
        BY <1>3
  <2>. QED  BY <2>1, BitsOfSingle DEF PartOf
<1>6. ASSUME NEW u \in Uids
      PROVE  /\ Carried(u) = Carried(u)' + BitsOf(<<p>>, u) /\ Carried(u)' \in Nat
             /\ Lose(<<p>>, TRUE, u) /\ BitsOf(<<p>>, u) <= Carried(u)
  <2>1. PICK a, b, c, e, x \in Nat :
            /\ a = BitsOf(ingress_pkts, u) /\ b = BitsOf(Tail(q), u) /\ c = BitsOf(harq.pkts, u)
            /\ e = BlockBits(pkt_list, u) /\ x = PartOf(p, u)
        BY <1>0, <1>3, <1>5, CarriedNat, BufferBitsNat
  <2>2. BitsOf(q, u) = x + b
    <3>1. BitsOf(q, u) = PartOf(q[1], u) + BitsOf(Tail(q), u)
          BY <1>1, <1>2, BitsOfTail
    <3>. QED  BY <1>3, <2>1, <3>1
  <2>3. Carried(u) = ((a + (x + b)) + c) + e /\ Carried(u)' = ((a + b) + c) + e
    <3>1. q' = Tail(q) /\ ingress_pkts' = ingress_pkts /\ harq' = harq /\ pkt_list' = pkt_list
          BY <1>1
    <3>. HIDE DEF BitsOf, BlockBits
    <3>. QED  BY <2>1, <2>2, <3>1 DEF Carried
  <2>4. BitsOf(<<p>>, u) = x
        BY <1>5, <2>1
  <2>5. x > 0 <=> u = p.uid
        BY <1>3, <2>1 DEF PartOf
  <2>6. Lose(<<p>>, TRUE, u)
        BY <1>1, <2>4, <2>5 DEF Lose
  <2>7. /\ Carried(u) = Carried(u)' + BitsOf(<<p>>, u) /\ Carried(u)' \in Nat
        /\ BitsOf(<<p>>, u) <= Carried(u)
        BY <2>1, <2>3, <2>4
  <2>. QED  BY <2>6, <2>7
<1>7. Entries(<<p>>)
  <2>1. <<p>> \in Seq(BufferEntry)
        BY <1>3
  <2>. QED  BY <1>6, <2>1 DEF Entries
<1>8. /\ DOMAIN pending_results' \subseteq Uids
      /\ \A u \in DOMAIN pending_results' :
            pending_results'[u] \in [bits : 1..orig[u], dropped : BOOLEAN]
      /\ verdict' \in Seq(Verdicts) /\ Len(verdict') = Len(orig)
      /\ \A u \in Uids : Conserved(u)' /\ FragmentsTrue(u)'
  <2>1. TRUE \in BOOLEAN /\ UNCHANGED orig
        BY <1>1
  <2>. QED  BY <1>1, <1>6, <1>7, <2>1, AccountAll
<1>10. TypeOK'
  <2>1. TraceTypeOK' /\ clock' \in 0..MaxClock /\ pc' \in PcAt
        BY <1>0, <1>1 DEF TypeOK, TraceTypeOK, file
  <2>2. ingress_pkts' \in Seq(BufferEntry') /\ q' \in Seq(BufferEntry')
        BY <1>0, <1>1, <1>3, <1>4 DEF TypeOK
  <2>3. /\ bits' \in Nat /\ generated' \in Nat
        /\ harq' \in [bits : Nat, pkts : Seq(BlockEntry'), wait : Nat]
        /\ pkt_list' \in Seq([pkts : Seq(BlockEntry'), wait : Nat])
        BY <1>0, <1>1, <1>4 DEF TypeOK
  <2>4. lost' \subseteq Uids' /\ orig' = orig /\ orig' \in Seq(1..PktSize)
        BY <1>0, <1>1, <1>3, <1>4 DEF TypeOK
  <2>. QED  BY <1>1, <1>4, <1>8, <2>1, <2>2, <2>3, <2>4 DEF TypeOK
<1>11. FlowLoops'
       BY <1>0, <1>1, <1>8 DEF FlowLoops
<1>. QED  BY <1>4, <1>8, <1>10, <1>11 DEF FlowInv

LEMMA ReleaseInv ==
    ASSUME FlowInv, Release
    PROVE  FlowInv'
<1>0. TypeOK /\ FlowLoops
      BY DEF FlowInv
<1>1. PICK k \in DOMAIN pkt_list :
          /\ UNCHANGED <<file, clock, pc, flow, history>> /\ pc = "release"
          /\ Account(pkt_list[k].pkts, FALSE) /\ pkt_list' = RemoveAt(pkt_list, k)
      BY DEF Release
<1>2. UNCHANGED <<file, clock, pc, ingress_pkts, q, current_size, bits, harq,
                  orig, generated, lost>>
      BY <1>1 DEF flow, history
<1>3. /\ pkt_list \in Seq([pkts : Seq(BlockEntry), wait : Nat]) /\ AreBlocks(pkt_list)
      /\ pkt_list[k].pkts \in Seq(BlockEntry)
  <2>1. AreBlocks(pkt_list)
        BY <1>0, BlocksTyped
  <2>. QED  BY <1>0, <2>1 DEF TypeOK, AreBlocks
<1>4. /\ Uids' = Uids /\ BufferEntry' = BufferEntry /\ BlockEntry' = BlockEntry
      BY <1>2, SameUids
<1>5. PICK pkts : pkts = pkt_list[k].pkts
      OBVIOUS
<1>6. ASSUME NEW u \in Uids
      PROVE  /\ Carried(u) = Carried(u)' + BitsOf(pkts, u) /\ Carried(u)' \in Nat
             /\ BitsOf(pkts, u) <= Carried(u)
  <2>1. /\ AreBlocks(RemoveAt(pkt_list, k))
        /\ BlockBits(pkt_list, u)
           = BlockBits(RemoveAt(pkt_list, k), u) + BitsOf(pkt_list[k].pkts, u)
        BY <1>3, BlockBitsRemoved
  <2>2. RemoveAt(pkt_list, k) \in Seq([pkts : Seq(BlockEntry), wait : Nat])
        BY <1>3, Removed
  <2>3. PICK a, b, c, e, x \in Nat :
            /\ a = BitsOf(ingress_pkts, u) /\ b = BitsOf(q, u) /\ c = BitsOf(harq.pkts, u)
            /\ e = BlockBits(RemoveAt(pkt_list, k), u) /\ x = BitsOf(pkts, u)
        BY <1>0, <1>3, <1>5, <2>1, <2>2, CarriedNat, BlockBitsNat, EntryBitsNat
  <2>4. Carried(u) = ((a + b) + c) + (e + x) /\ Carried(u)' = ((a + b) + c) + e
    <3>1. /\ q' = q /\ ingress_pkts' = ingress_pkts /\ harq' = harq
          /\ pkt_list' = RemoveAt(pkt_list, k)
          BY <1>1, <1>2
    <3>2. BlockBits(pkt_list, u) = e + x
          BY <1>5, <2>1, <2>3
    <3>. HIDE DEF BitsOf, BlockBits
    <3>. QED  BY <2>3, <3>1, <3>2 DEF Carried
  <2>. QED  BY <2>3, <2>4
<1>7. Entries(pkts)
  <2>1. pkts \in Seq(BlockEntry)
        BY <1>3, <1>5
  <2>. QED  BY <1>6, <2>1 DEF Entries
<1>8. \A u \in Uids : Lose(pkts, FALSE, u)
      BY <1>2 DEF Lose
<1>9. /\ DOMAIN pending_results' \subseteq Uids
      /\ \A u \in DOMAIN pending_results' :
            pending_results'[u] \in [bits : 1..orig[u], dropped : BOOLEAN]
      /\ verdict' \in Seq(Verdicts) /\ Len(verdict') = Len(orig)
      /\ \A u \in Uids : Conserved(u)' /\ FragmentsTrue(u)'
  <2>1. FALSE \in BOOLEAN /\ UNCHANGED orig /\ Account(pkts, FALSE)
        BY <1>1, <1>2, <1>5
  <2>. QED  BY <1>6, <1>7, <1>8, <2>1, AccountAll
<1>10. TypeOK'
  <2>1. TraceTypeOK' /\ clock' \in 0..MaxClock /\ pc' \in PcAt
        BY <1>0, <1>2 DEF TypeOK, TraceTypeOK, file
  <2>2. /\ ingress_pkts' \in Seq(BufferEntry') /\ q' \in Seq(BufferEntry')
        /\ current_size' \in Floats /\ bits' \in Nat /\ generated' \in Nat
        /\ harq' \in [bits : Nat, pkts : Seq(BlockEntry'), wait : Nat]
        BY <1>0, <1>2, <1>4 DEF TypeOK
  <2>3. pkt_list' \in Seq([pkts : Seq(BlockEntry'), wait : Nat])
        BY <1>1, <1>3, <1>4, Removed
  <2>4. lost' \subseteq Uids' /\ orig' = orig /\ orig' \in Seq(1..PktSize)
        BY <1>0, <1>2, <1>4 DEF TypeOK
  <2>. QED  BY <1>4, <1>9, <2>1, <2>2, <2>3, <2>4 DEF TypeOK
<1>11. FlowLoops'
       BY <1>0, <1>2, <1>9 DEF FlowLoops
<1>. QED  BY <1>4, <1>9, <1>10, <1>11 DEF FlowInv
-----------------------------------------------------------------------------
LEMMA HandleInv ==
    ASSUME FlowInv, NEW g \in Grants, NEW d \in Delays, Handle(g, d)
    PROVE  FlowInv'
<1>0. TypeOK /\ FlowLoops /\ g \in Nat /\ d \in Nat
      BY SimAssumption DEF FlowInv
<1>1. /\ UNCHANGED <<file, clock, ingress_pkts, q, current_size, pkt_list,
                     pending_results, verdict, orig, generated, lost>>
      /\ bits' = g /\ harq' = [NoHarq EXCEPT !.wait = d] /\ pc = "mac" /\ pc' = "get"
      BY DEF Handle, release, history
<1>2. harq = NoHarq /\ harq' = [bits |-> 0, pkts |-> <<>>, wait |-> d]
      BY <1>0, <1>1 DEF FlowLoops, NoHarq
<1>3. /\ Uids' = Uids /\ BufferEntry' = BufferEntry /\ BlockEntry' = BlockEntry
      BY <1>1, SameUids
<1>4. TypeOK'
  <2>1. TraceTypeOK' /\ clock' \in 0..MaxClock /\ pc' \in PcAt
        BY <1>0, <1>1 DEF TypeOK, TraceTypeOK, file, PcAt
  <2>2. /\ ingress_pkts' \in Seq(BufferEntry') /\ q' \in Seq(BufferEntry')
        /\ current_size' \in Floats /\ bits' \in Nat /\ generated' \in Nat
        /\ pkt_list' \in Seq([pkts : Seq(BlockEntry'), wait : Nat])
        BY <1>0, <1>1, <1>3 DEF TypeOK
  <2>3. harq' \in [bits : Nat, pkts : Seq(BlockEntry'), wait : Nat]
        BY <1>0, <1>2
  <2>. QED  BY <1>0, <1>1, <2>1, <2>2, <2>3, PacketsStayTyped DEF TypeOK
<1>5. FlowLoops'
  <2>1. harq'.bits = harq.bits
        BY <1>2 DEF NoHarq
  <2>. QED  BY <1>0, <1>1, <2>1 DEF FlowLoops
<1>6. \A u \in Uids : Carried(u)' = Carried(u)
  <2>1. harq'.pkts = harq.pkts
        BY <1>2 DEF NoHarq
  <2>. QED  BY <1>1, <2>1 DEF Carried
<1>7. \A u \in Uids' : Conserved(u)' /\ FragmentsTrue(u)'
      BY <1>1, <1>6, PacketStays
<1>. QED  BY <1>4, <1>5, <1>7 DEF FlowInv

(* What a step of get_pkts leaves when it moves `size' bits of the packet   *)
(* at the front of the buffer to the block.                                 *)
LEMMA TakeInv ==
    ASSUME FlowInv, q # <<>>, pc = "get", NEW size \in Nat \ {0},
           UNCHANGED <<file, clock, pc, ingress_pkts, current_size, release, history>>,
           bits' \in Nat, harq' = InHarq(Head(q).uid, size), q' \in Seq(BufferEntry),
           \A u \in Uids : BitsOf(q, u) = BitsOf(q', u) + (IF Head(q).uid = u THEN size ELSE 0)
    PROVE  FlowInv'
<1>. DEFINE e == [uid |-> Head(q).uid, size |-> size]
<1>0. TypeOK /\ FlowLoops
      BY DEF FlowInv
<1>1. UNCHANGED <<file, clock, pc, ingress_pkts, current_size, pkt_list,
                  pending_results, verdict, orig, generated, lost>>
      BY DEF release, history
<1>2. /\ Uids' = Uids /\ BufferEntry' = BufferEntry /\ BlockEntry' = BlockEntry
      BY <1>1, SameUids
<1>3. /\ q \in Seq(BufferEntry) /\ harq \in [bits : Nat, pkts : Seq(BlockEntry), wait : Nat]
      BY <1>0 DEF TypeOK
<1>4. e \in BlockEntry /\ e.size = size /\ e.uid = Head(q).uid
  <2>1. Head(q) \in BufferEntry
        BY <1>3, HeadTail
  <2>. QED  BY <2>1 DEF BufferEntry, BlockEntry
<1>. HIDE DEF e
<1>5. harq' = [bits |-> harq.bits + size, pkts |-> Append(harq.pkts, e), wait |-> harq.wait]
      BY <1>3 DEF InHarq, e
<1>6. \A i \in DOMAIN harq.pkts : harq.pkts[i].size \in Nat
      BY <1>3, EntriesSized
<1>7. Append(harq.pkts, e) \in Seq(BlockEntry)
      BY <1>3, <1>4, Appended
<1>8. ASSUME NEW u \in Uids
      PROVE  Carried(u)' = Carried(u)
  <2>1. BitsOf(Append(harq.pkts, e), u) = BitsOf(harq.pkts, u) + PartOf(e, u)
        BY <1>3, <1>4, <1>6, BitsOfAppend
  <2>2. PICK a, b, c, f, x \in Nat :
            /\ a = BitsOf(ingress_pkts, u) /\ b = BitsOf(q', u) /\ c = BitsOf(harq.pkts, u)
            /\ f = BlockBits(pkt_list, u) /\ x = PartOf(e, u)
    <3>1. PartOf(e, u) \in Nat
          BY <1>4 DEF PartOf
    <3>. QED  BY <1>0, <3>1, CarriedNat, BufferBitsNat
  <2>3. BitsOf(q, u) = b + x /\ BitsOf(harq'.pkts, u) = c + x
    <3>1. PartOf(e, u) = IF Head(q).uid = u THEN size ELSE 0
          BY <1>4 DEF PartOf
    <3>2. harq'.pkts = Append(harq.pkts, e)
          BY <1>5
    <3>. QED  BY <2>1, <2>2, <3>1, <3>2
  <2>4. Carried(u) = ((a + (b + x)) + c) + f /\ Carried(u)' = ((a + b) + (c + x)) + f
    <3>1. ingress_pkts' = ingress_pkts /\ pkt_list' = pkt_list
          BY <1>1
    <3>. HIDE DEF BitsOf, BlockBits
    <3>. QED  BY <2>2, <2>3, <3>1 DEF Carried
  <2>. QED  BY <2>2, <2>4
<1>9. TypeOK'
  <2>1. TraceTypeOK' /\ clock' \in 0..MaxClock /\ pc' \in PcAt
        BY <1>0, <1>1 DEF TypeOK, TraceTypeOK, file
  <2>2. /\ ingress_pkts' \in Seq(BufferEntry') /\ q' \in Seq(BufferEntry')
        /\ current_size' \in Floats /\ bits' \in Nat /\ generated' \in Nat
        /\ pkt_list' \in Seq([pkts : Seq(BlockEntry'), wait : Nat])
        BY <1>0, <1>1, <1>2 DEF TypeOK
  <2>3. harq' \in [bits : Nat, pkts : Seq(BlockEntry'), wait : Nat]
    <3>1. PICK b, w \in Nat : b = harq.bits + size /\ w = harq.wait
          BY <1>3
    <3>2. PICK B : B = Seq(BlockEntry)
          OBVIOUS
    <3>3. PICK l \in B : l = Append(harq.pkts, e)
          BY <1>7, <3>2
    <3>4. harq' = [bits |-> b, pkts |-> l, wait |-> w]
          BY <1>5, <3>1, <3>3
    <3>5. harq' \in [bits : Nat, pkts : B, wait : Nat]
          BY <3>4
    <3>. QED  BY <1>2, <3>2, <3>5
  <2>. QED  BY <1>0, <1>1, <2>1, <2>2, <2>3, PacketsStayTyped DEF TypeOK
<1>10. FlowLoops'
       BY <1>0, <1>1 DEF FlowLoops
<1>11. \A u \in Uids' : Conserved(u)' /\ FragmentsTrue(u)'
       BY <1>1, <1>8, PacketStays
<1>. QED  BY <1>9, <1>10, <1>11 DEF FlowInv

LEMMA TakeWholeInv ==
    ASSUME FlowInv, TakeWhole
    PROVE  FlowInv'
<1>0. TypeOK
      BY DEF FlowInv
<1>1. /\ UNCHANGED <<file, clock, pc, ingress_pkts, current_size, release, history>>
      /\ pc = "get" /\ q # <<>> /\ bits >= Head(q).size /\ bits' = bits - Head(q).size
      /\ harq' = InHarq(Head(q).uid, Head(q).size) /\ q' = Tail(q)
      BY DEF TakeWhole
<1>2. /\ q \in Seq(BufferEntry) /\ bits \in Nat
      /\ \A i \in DOMAIN q : q[i].size \in Nat
  <2>1. q \in Seq(BufferEntry) /\ bits \in Nat
        BY <1>0 DEF TypeOK
  <2>. QED  BY <2>1, EntriesSized
<1>3. Head(q) \in BufferEntry /\ Head(q) = q[1] /\ Tail(q) \in Seq(BufferEntry)
      BY <1>1, <1>2, HeadTail
<1>4. PICK size \in Nat \ {0} : size = Head(q).size
      BY <1>3 DEF BufferEntry
<1>6. ASSUME NEW u \in Uids
      PROVE  BitsOf(q, u) = BitsOf(q', u) + (IF Head(q).uid = u THEN size ELSE 0)
  <2>1. BitsOf(q, u) = PartOf(q[1], u) + BitsOf(Tail(q), u)
        BY <1>1, <1>2, BitsOfTail
  <2>2. PICK b, x \in Nat : b = BitsOf(Tail(q), u) /\ x = PartOf(q[1], u)
    <3>1. PartOf(q[1], u) \in Nat
          BY <1>3, <1>4 DEF PartOf
    <3>. QED  BY <1>3, <3>1, BufferBitsNat
  <2>3. x = IF Head(q).uid = u THEN size ELSE 0
        BY <1>3, <1>4, <2>2 DEF PartOf
  <2>4. BitsOf(q, u) = b + x
        BY <2>1, <2>2
  <2>. QED  BY <1>1, <2>2, <2>3, <2>4
<1>7. bits' \in Nat /\ harq' = InHarq(Head(q).uid, size) /\ q' \in Seq(BufferEntry)
      BY <1>1, <1>2, <1>3, <1>4
<1>. QED  BY <1>1, <1>6, <1>7, TakeInv

LEMMA TakeFragmentInv ==
    ASSUME FlowInv, TakeFragment
    PROVE  FlowInv'
<1>. DEFINE p == Head(q)
            e == [q[1] EXCEPT !.size = Rest(p)]
<1>0. TypeOK
      BY DEF FlowInv
<1>1. /\ UNCHANGED <<file, clock, pc, ingress_pkts, current_size, release, history>>
      /\ pc = "get" /\ q # <<>> /\ bits > 0 /\ bits < p.size /\ bits' = 0
      /\ harq' = InHarq(p.uid, bits) /\ q' = [q EXCEPT ![1] = e]
      BY DEF TakeFragment
<1>2. /\ q \in Seq(BufferEntry) /\ bits \in Nat \ {0}
      /\ \A i \in DOMAIN q : q[i].size \in Nat
  <2>1. q \in Seq(BufferEntry) /\ bits \in Nat
        BY <1>0 DEF TypeOK
  <2>. QED  BY <1>1, <2>1, EntriesSized
<1>3. p \in BufferEntry /\ p = q[1] /\ 1 \in DOMAIN q
      BY <1>1, <1>2, HeadTail
<1>4. PICK s \in Nat \ {0} : s = p.size /\ s > bits
      BY <1>1, <1>3 DEF BufferEntry
<1>5. e \in BufferEntry /\ e.uid = p.uid /\ e.size = s - bits /\ e.size \in Nat
  <2>1. p \in [uid : Uids, size : Nat \ {0}, age : Nat]
        BY <1>3 DEF BufferEntry
  <2>2. e = [p EXCEPT !.size = s - bits] /\ s - bits \in Nat \ {0}
        BY <1>2, <1>3, <1>4 DEF Rest
  <2>3. e \in [uid : Uids, size : Nat \ {0}, age : Nat] /\ e.uid = p.uid /\ e.size = s - bits
        BY <2>1, <2>2
  <2>. QED  BY <2>2, <2>3 DEF BufferEntry
<1>. HIDE DEF p, e
<1>6. q' \in Seq(BufferEntry)
      BY <1>1, <1>2, <1>3, <1>5, ExceptSeq
<1>8. ASSUME NEW u \in Uids
      PROVE  BitsOf(q, u) = BitsOf(q', u) + (IF p.uid = u THEN bits ELSE 0)
  <2>1. BitsOf(q, u) = PartOf(q[1], u) + BitsOf(Tail(q), u)
        BY <1>1, <1>2, BitsOfTail
  <2>2. BitsOf(q', u) = PartOf(e, u) + BitsOf(Tail(q), u)
        BY <1>1, <1>2, <1>5, BitsOfCut
  <2>3. PICK b \in Nat : b = BitsOf(Tail(q), u)
    <3>1. Tail(q) \in Seq(BufferEntry)
          BY <1>1, <1>2, HeadTail
    <3>. QED  BY <3>1, BufferBitsNat
  <2>4. /\ PartOf(q[1], u) = IF p.uid = u THEN s ELSE 0
        /\ PartOf(e, u) = IF p.uid = u THEN s - bits ELSE 0
        BY <1>3, <1>4, <1>5 DEF PartOf
  <2>5. CASE p.uid = u
    <3>1. BitsOf(q, u) = s + b /\ BitsOf(q', u) = (s - bits) + b
          BY <2>1, <2>2, <2>3, <2>4, <2>5
    <3>. QED  BY <1>2, <1>4, <2>3, <2>5, <3>1
  <2>6. CASE p.uid # u
    <3>1. BitsOf(q, u) = b /\ BitsOf(q', u) = b
          BY <2>1, <2>2, <2>3, <2>4, <2>6
    <3>. QED  BY <2>3, <2>6, <3>1
  <2>. QED  BY <2>5, <2>6
<1>9. bits' \in Nat /\ harq' = InHarq(Head(q).uid, bits) /\ p = Head(q)
      BY <1>1 DEF p
<1>. QED  BY <1>1, <1>2, <1>6, <1>8, <1>9, TakeInv

LEMMA PushInv ==
    ASSUME FlowInv, Push
    PROVE  FlowInv'
<1>. DEFINE b == [pkts |-> harq.pkts, wait |-> harq.wait]
<1>0. TypeOK /\ FlowLoops
      BY DEF FlowInv
<1>1. /\ UNCHANGED <<file, clock, ingress_pkts, q, pending_results, verdict,
                     orig, generated, lost>>
      /\ pc = "get" /\ pc' = "mac" /\ current_size' \in Floats
      /\ pkt_list' = Append(pkt_list, b) /\ bits' = 0 /\ harq' = NoHarq
      BY DEF Push, Nearest, history
<1>2. /\ pkt_list \in Seq([pkts : Seq(BlockEntry), wait : Nat]) /\ AreBlocks(pkt_list)
      /\ harq \in [bits : Nat, pkts : Seq(BlockEntry), wait : Nat]
      /\ b \in [pkts : Seq(BlockEntry), wait : Nat] /\ b.pkts \in Seq(BlockEntry)
      /\ b.pkts = harq.pkts
  <2>1. /\ pkt_list \in Seq([pkts : Seq(BlockEntry), wait : Nat])
        /\ harq \in [bits : Nat, pkts : Seq(BlockEntry), wait : Nat]
        BY <1>0 DEF TypeOK
  <2>. QED  BY <1>0, <2>1, BlocksTyped
<1>. HIDE DEF b
<1>3. /\ Uids' = Uids /\ BufferEntry' = BufferEntry /\ BlockEntry' = BlockEntry
      BY <1>1, SameUids
<1>4. ASSUME NEW u \in Uids
      PROVE  Carried(u)' = Carried(u)
  <2>1. BlockBits(pkt_list', u) = BlockBits(pkt_list, u) + BitsOf(harq.pkts, u)
        BY <1>1, <1>2, BlockBitsAppend, ZenonT(40)
  <2>2. PICK a, c, f, x \in Nat :
            /\ a = BitsOf(ingress_pkts, u) /\ c = BitsOf(q, u) /\ x = BitsOf(harq.pkts, u)
            /\ f = BlockBits(pkt_list, u)
        BY <1>0, CarriedNat
  <2>3. BitsOf(harq'.pkts, u) = 0
        BY <1>1, BitsOfNothing DEF NoHarq
  <2>4. Carried(u) = ((a + c) + x) + f /\ Carried(u)' = ((a + c) + 0) + (f + x)
    <3>1. ingress_pkts' = ingress_pkts /\ q' = q
          BY <1>1
    <3>. HIDE DEF BitsOf, BlockBits
    <3>. QED  BY <2>1, <2>2, <2>3, <3>1 DEF Carried
  <2>. QED  BY <2>2, <2>4
<1>7. TypeOK'
  <2>1. TraceTypeOK' /\ clock' \in 0..MaxClock /\ pc' \in PcAt
        BY <1>0, <1>1 DEF TypeOK, TraceTypeOK, file, PcAt
  <2>2. /\ ingress_pkts' \in Seq(BufferEntry') /\ q' \in Seq(BufferEntry')
        /\ current_size' \in Floats /\ bits' \in Nat /\ generated' \in Nat
        BY <1>0, <1>1, <1>3 DEF TypeOK
  <2>3. pkt_list' \in Seq([pkts : Seq(BlockEntry'), wait : Nat])
        BY <1>1, <1>2, <1>3, Appended
  <2>4. harq' \in [bits : Nat, pkts : Seq(BlockEntry'), wait : Nat]
        BY <1>1 DEF NoHarq
  <2>. QED  BY <1>0, <1>1, <2>1, <2>2, <2>3, <2>4, PacketsStayTyped DEF TypeOK
<1>8. FlowLoops'
      BY <1>0, <1>1 DEF FlowLoops
<1>9. \A u \in Uids' : Conserved(u)' /\ FragmentsTrue(u)'
      BY <1>1, <1>4, PacketStays
<1>. QED  BY <1>7, <1>8, <1>9 DEF FlowInv
-----------------------------------------------------------------------------
(* ceil(n / pkt_size) packets: all but the last full, and the last not      *)
(* empty.                                                                   *)
LEMMA LastPacket ==
    ASSUME NEW n \in Nat, NEW c, c = NumPkts(n)
    PROVE  c \in Nat /\ (c > 0 => n - (c - 1) * PktSize \in 1..PktSize)
<1>1. PICK P \in Nat \ {0} : P = PktSize
      BY SimAssumption
<1>2. PICK a \in Nat : a = n + P - 1
      BY <1>1
<1>3. c = a \div P
      BY <1>1, <1>2 DEF NumPkts
<1>4. PICK k \in Nat, r \in 0..(P - 1) : a = P * k + r /\ k = c
  <2>1. a = P * (a \div P) + (a % P) /\ a % P \in 0..(P - 1) /\ a \div P \in Nat
        OBVIOUS
  <2>. QED  BY <1>3, <2>1
<1>5. (k - 1) * P = (P * k) - P
      OBVIOUS
<1>6. PICK m \in Int : m = P * k
      OBVIOUS
<1>7. n - (m - P) = r + 1
      BY <1>2, <1>4, <1>6
<1>8. n - (c - 1) * PktSize = r + 1
      BY <1>1, <1>4, <1>5, <1>6, <1>7
<1>. QED  BY <1>1, <1>4, <1>8

LEMMA Concatenated ==
    ASSUME NEW S, NEW s \in Seq(S), NEW t \in Seq(S)
    PROVE  /\ s \o t \in Seq(S) /\ Len(s \o t) = Len(s) + Len(t)
           /\ \A i \in 1..Len(s) : (s \o t)[i] = s[i]
           /\ \A i \in 1..Len(t) : (s \o t)[Len(s) + i] = t[i]
    OBVIOUS

LEMMA EntryOfIndex ==
    ASSUME NEW s, NEW u \in Nat, NEW S, s \in Seq(S), \A i \in DOMAIN s : s[i].size \in Nat,
           NEW l \in Nat, \A i \in DOMAIN s : s[i].uid = l + i
    PROVE  BitsOf(s, u) = IF u - l \in DOMAIN s THEN s[u - l].size ELSE 0
<1>1. DOMAIN s = 1..Len(s) /\ Len(s) \in Nat
      OBVIOUS
<1>2. CASE u - l \in DOMAIN s
  <2>1. PICK k \in DOMAIN s : k = u - l
        BY <1>2
  <2>2. k \in Nat /\ s[k].uid = u
        BY <1>1, <2>1
  <2>3. \A i \in DOMAIN s : s[i].uid = s[k].uid => i = k
        BY <1>1, <2>2
  <2>4. BitsOf(s, s[k].uid) = s[k].size
        BY <2>3, BitsOfOne
  <2>. QED  BY <1>2, <2>1, <2>2, <2>4
<1>3. CASE u - l \notin DOMAIN s
  <2>1. \A i \in DOMAIN s : s[i].uid # u
        BY <1>1, <1>3
  <2>2. BitsOf(s, u) = 0
        BY <2>1, BitsOfNone
  <2>. QED  BY <1>3, <2>2
<1>. QED  BY <1>2, <1>3

LEMMA MoreUids ==
    ASSUME FlowInv, Uids \subseteq Uids'
    PROVE  /\ q \in Seq(BufferEntry') /\ harq.pkts \in Seq(BlockEntry')
           /\ pkt_list \in Seq([pkts : Seq(BlockEntry'), wait : Nat])
<1>1. TypeOK
      BY DEF FlowInv
<1>2. BufferEntry \subseteq BufferEntry' /\ BlockEntry \subseteq BlockEntry'
      BY DEF BufferEntry, BlockEntry
<1>3. Seq(BufferEntry) \subseteq Seq(BufferEntry') /\ Seq(BlockEntry) \subseteq Seq(BlockEntry')
      BY <1>2, SeqWider
<1>4. [pkts : Seq(BlockEntry), wait : Nat] \subseteq [pkts : Seq(BlockEntry'), wait : Nat]
      BY <1>3
<1>5. Seq([pkts : Seq(BlockEntry), wait : Nat]) \subseteq Seq([pkts : Seq(BlockEntry'), wait : Nat])
      BY <1>4, SeqWider
<1>6. /\ q \in Seq(BufferEntry) /\ harq \in [bits : Nat, pkts : Seq(BlockEntry), wait : Nat]
      /\ pkt_list \in Seq([pkts : Seq(BlockEntry), wait : Nat])
      BY <1>1 DEF TypeOK
<1>. QED  BY <1>3, <1>5, <1>6

(* Nothing is anywhere of a packet that has not been generated.             *)
LEMMA NothingOfNew ==
    ASSUME FlowInv, NEW u, u \notin Uids
    PROVE  /\ BitsOf(q, u) = 0 /\ BitsOf(harq.pkts, u) = 0 /\ BlockBits(pkt_list, u) = 0
           /\ u \notin DOMAIN pending_results /\ u \notin lost
<1>1. TypeOK
      BY DEF FlowInv
<1>2. ASSUME NEW s, s \in Seq(BufferEntry) \/ s \in Seq(BlockEntry)
      PROVE  BitsOf(s, u) = 0
  <2>1. \A i \in DOMAIN s : s[i].size \in Nat /\ s[i].uid # u
        BY <1>2, EntriesSized
  <2>. QED  BY <1>2, <2>1, BitsOfNone
<1>3. q \in Seq(BufferEntry) /\ harq.pkts \in Seq(BlockEntry)
      BY <1>1 DEF TypeOK
<1>4. BlockBits(pkt_list, u) = 0
  <2>. DEFINE n == [i \in DOMAIN pkt_list |-> BitsOf(pkt_list[i].pkts, u)]
  <2>1. AreBlocks(pkt_list) /\ pkt_list \in Seq([pkts : Seq(BlockEntry), wait : Nat])
        BY <1>1, BlocksTyped DEF TypeOK
  <2>2. n \in Seq(Nat)
        BY <2>1, BlocksSeq
  <2>3. \A i \in DOMAIN n : n[i] = 0
        BY <1>2, <2>1 DEF AreBlocks
  <2>4. BlockBits(pkt_list, u) = SumOf(n)
        BY Zenon DEF BlockBits
  <2>. HIDE DEF n
  <2>. QED  BY <2>2, <2>3, <2>4, SumOfZeros
<1>5. u \notin DOMAIN pending_results /\ u \notin lost
      BY <1>1 DEF TypeOK
<1>. QED  BY <1>2, <1>3, <1>4, <1>5

LEMMA IngestInv ==
    ASSUME FlowInv, Ingest
    PROVE  FlowInv'
<1>. DEFINE new == 8 * total_tp
            count == NumPkts(new)
            size == [i \in 1..count |-> IF i < count THEN PktSize
                                        ELSE new - (count - 1) * PktSize]
            pkts == [i \in 1..count |->
                        [uid |-> Len(orig) + i, size |-> size[i], age |-> 0]]
            nones == [i \in 1..count |-> "none"]
<1>0. TypeOK /\ FlowLoops
      BY DEF FlowInv
<1>1. /\ UNCHANGED <<file, clock, q, current_size, bits, harq, pkt_list,
                     pending_results, lost>>
      /\ pc = "generate" /\ pc' = "admit" /\ generated' = generated + total_tp
      /\ ingress_pkts' = ingress_pkts \o pkts /\ orig' = orig \o size
      /\ verdict' = verdict \o nones
      BY DEF Ingest
<1>2. ingress_pkts = <<>> /\ harq = NoHarq /\ total_tp \in Nat
      BY <1>0, <1>1 DEF FlowLoops, TypeOK, TraceTypeOK
<1>3. PICK c : c = count
      OBVIOUS
<1>4. c \in Nat /\ (c > 0 => new - (c - 1) * PktSize \in 1..PktSize)
  <2>1. new \in Nat
        BY <1>2
  <2>. HIDE DEF new
  <2>. QED  BY <1>3, <2>1, LastPacket
<1>5. \A i \in 1..c : size[i] \in 1..PktSize
  <2>. TAKE i \in 1..c
  <2>1. PICK l : l = new - (c - 1) * PktSize
        OBVIOUS
  <2>2. size[i] = IF i < c THEN PktSize ELSE l
        BY <1>3, <2>1
  <2>3. l \in 1..PktSize /\ PktSize \in 1..PktSize
        BY <1>4, <2>1, SimAssumption
  <2>. QED  BY <2>2, <2>3
<1>6. PICK L \in Nat : L = Len(orig) /\ DOMAIN orig = 1..L
  <2>1. orig \in Seq(1..PktSize)
        BY <1>0 DEF TypeOK
  <2>. QED  BY <2>1
<1>7. /\ size \in Seq(1..PktSize) /\ Len(size) = c
      /\ nones \in Seq(Verdicts) /\ Len(nones) = c /\ \A i \in 1..c : nones[i] = "none"
  <2>1. size \in [1..c -> 1..PktSize]
        BY <1>3, <1>5
  <2>2. nones \in [1..c -> Verdicts] /\ \A i \in 1..c : nones[i] = "none"
        BY <1>3 DEF Verdicts
  <2>. HIDE DEF size, nones
  <2>3. size \in Seq(1..PktSize) /\ Len(size) = c
        BY <1>4, <2>1, FunctionSeq
  <2>4. nones \in Seq(Verdicts) /\ Len(nones) = c
        BY <1>4, <2>2, FunctionSeq
  <2>. QED  BY <2>2, <2>3, <2>4
<1>8. \A i \in 1..c : pkts[i] = [uid |-> L + i, size |-> size[i], age |-> 0]
      BY <1>3, <1>6
<1>9. pkts = [i \in 1..c |-> pkts[i]]
      BY <1>3
<1>. HIDE DEF size, pkts, nones, new, count
<1>10. /\ orig' \in Seq(1..PktSize) /\ Len(orig') = L + c /\ DOMAIN orig' = 1..(L + c)
       /\ \A i \in 1..L : orig'[i] = orig[i]
       /\ \A i \in 1..c : orig'[L + i] = size[i]
  <2>1. orig \in Seq(1..PktSize)
        BY <1>0 DEF TypeOK
  <2>0. size \in Seq(1..PktSize)
        BY <1>7
  <2>2. /\ orig \o size \in Seq(1..PktSize) /\ Len(orig \o size) = Len(orig) + Len(size)
        /\ \A i \in 1..Len(orig) : (orig \o size)[i] = orig[i]
        /\ \A i \in 1..Len(size) : (orig \o size)[Len(orig) + i] = size[i]
        BY <2>0, <2>1, Concatenated
  <2>3. /\ orig' \in Seq(1..PktSize) /\ Len(orig') = L + c
        /\ \A i \in 1..L : orig'[i] = orig[i]
        /\ \A i \in 1..c : orig'[L + i] = size[i]
        BY <1>1, <1>6, <1>7, <2>2
  <2>. QED  BY <2>3
<1>11. /\ verdict' \in Seq(Verdicts) /\ Len(verdict') = L + c
       /\ \A i \in 1..L : verdict'[i] = verdict[i]
       /\ \A i \in 1..c : verdict'[L + i] = "none"
  <2>1. verdict \in Seq(Verdicts) /\ Len(verdict) = L
        BY <1>0, <1>6 DEF TypeOK, FlowLoops
  <2>2. /\ verdict \o nones \in Seq(Verdicts) /\ Len(verdict \o nones) = Len(verdict) + Len(nones)
        /\ \A i \in 1..Len(verdict) : (verdict \o nones)[i] = verdict[i]
        /\ \A i \in 1..Len(nones) : (verdict \o nones)[Len(verdict) + i] = nones[i]
    <3>1. verdict \in Seq(Verdicts)
          BY <2>1
    <3>2. nones \in Seq(Verdicts)
          BY <1>7
    <3>. QED  BY <3>1, <3>2, Concatenated
  <2>. QED  BY <1>1, <1>7, <2>1, <2>2
<1>12. Uids = 1..L /\ Uids' = 1..(L + c) /\ Uids \subseteq Uids'
       BY <1>4, <1>6, <1>10 DEF Uids
<1>13. /\ ingress_pkts' \in Seq(BufferEntry') /\ Len(ingress_pkts') = c
       /\ DOMAIN ingress_pkts' = 1..c
       /\ \A i \in 1..c : /\ ingress_pkts'[i].uid = L + i
                          /\ ingress_pkts'[i].size = size[i]
  <2>1. \A i \in 1..c : pkts[i] \in BufferEntry'
    <3>. TAKE i \in 1..c
    <3>1. PICK s \in Nat \ {0} : s = size[i]
          BY <1>5, SimAssumption
    <3>2. PICK v \in Uids' : v = L + i
          BY <1>4, <1>12
    <3>3. pkts[i] = [uid |-> v, size |-> s, age |-> 0] /\ 0 \in Nat
          BY <1>8, <3>1, <3>2
    <3>. QED  BY <3>3 DEF BufferEntry
  <2>2. pkts \in [1..c -> BufferEntry']
        BY <1>9, <2>1
  <2>3. pkts \in Seq(BufferEntry') /\ Len(pkts) = c
        BY <1>4, <2>2, FunctionSeq
  <2>4. ingress_pkts' = pkts
    <3>1. <<>> \o pkts = pkts
          BY <2>3
    <3>. QED  BY <1>1, <1>2, <3>1
  <2>. QED  BY <1>8, <2>3, <2>4
<1>14. /\ q \in Seq(BufferEntry') /\ harq.pkts \in Seq(BlockEntry')
       /\ pkt_list \in Seq([pkts : Seq(BlockEntry'), wait : Nat])
       BY <1>12, MoreUids
<1>15. TypeOK'
  <2>1. TraceTypeOK' /\ clock' \in 0..MaxClock /\ pc' \in PcAt
        BY <1>0, <1>1 DEF TypeOK, TraceTypeOK, file, PcAt
  <2>2. /\ q' \in Seq(BufferEntry') /\ current_size' \in Floats /\ bits' \in Nat
        /\ generated' \in Nat /\ pkt_list' \in Seq([pkts : Seq(BlockEntry'), wait : Nat])
        BY <1>0, <1>1, <1>2, <1>14 DEF TypeOK
  <2>3. harq' \in [bits : Nat, pkts : Seq(BlockEntry'), wait : Nat]
        BY <1>1, <1>2 DEF NoHarq
  <2>4. /\ DOMAIN pending_results' \subseteq Uids' /\ lost' \subseteq Uids'
        /\ \A u \in DOMAIN pending_results' :
              pending_results'[u] \in [bits : 1..orig'[u], dropped : BOOLEAN]
    <3>1. /\ DOMAIN pending_results \subseteq Uids /\ lost \subseteq Uids
          /\ \A u \in DOMAIN pending_results :
                pending_results[u] \in [bits : 1..orig[u], dropped : BOOLEAN]
          BY <1>0 DEF TypeOK
    <3>2. \A u \in DOMAIN pending_results : orig'[u] = orig[u]
          BY <1>10, <1>12, <3>1
    <3>. QED  BY <1>1, <1>12, <3>1, <3>2
  <2>. QED  BY <1>10, <1>11, <1>13, <2>1, <2>2, <2>3, <2>4 DEF TypeOK
<1>16. FlowLoops'
  <2>1. \A i \in DOMAIN ingress_pkts' : ingress_pkts'[i].size = orig'[ingress_pkts'[i].uid]
        BY <1>10, <1>13
  <2>. QED  BY <1>0, <1>1, <1>10, <1>11, <2>1 DEF FlowLoops
<1>17. ASSUME NEW u \in Uids'
       PROVE  Conserved(u)' /\ FragmentsTrue(u)'
  <2>0. u \in Nat /\ u \in 1..(L + c)
        BY <1>12
  <2>1. BitsOf(ingress_pkts', u)
        = IF u - L \in DOMAIN ingress_pkts' THEN ingress_pkts'[u - L].size ELSE 0
    <3>1. \A i \in DOMAIN ingress_pkts' : ingress_pkts'[i].size \in Nat
          BY <1>5, <1>13
    <3>. QED  BY <1>13, <2>0, <3>1, EntryOfIndex
  <2>2. Carried(u)' = BitsOf(ingress_pkts', u) + BitsOf(q, u) + BitsOf(harq.pkts, u)
                      + BlockBits(pkt_list, u)
        BY <1>1 DEF Carried
  <2>3. FragmentsOf(u)' = FragmentsOf(u) /\ lost' = lost
        BY <1>1 DEF FragmentsOf
  <2>4. CASE u \in Uids
    <3>1. BitsOf(ingress_pkts', u) = 0 /\ BitsOf(ingress_pkts, u) = 0
          BY <1>2, <1>12, <1>13, <2>0, <2>1, <2>4, BitsOfNothing
    <3>2. Carried(u)' = Carried(u)
          BY <2>2, <3>1 DEF Carried
    <3>3. /\ orig'[u] = orig[u] /\ verdict'[u] = verdict[u]
          /\ pending_results' = pending_results
          BY <1>1, <1>10, <1>11, <1>12, <2>4
    <3>4. Conserved(u) /\ FragmentsTrue(u) /\ (Decided(u)' <=> Decided(u))
          BY <2>4, <3>3 DEF FlowInv, Decided
    <3>5. Conserved(u)'
          BY <2>3, <3>2, <3>3, <3>4 DEF Conserved
    <3>. QED  BY <2>3, <3>3, <3>4, <3>5 DEF FragmentsTrue
  <2>5. CASE u \notin Uids
    <3>1. PICK i \in 1..c : u = L + i /\ i = u - L
          BY <1>4, <1>12, <2>0, <2>5
    <3>2. BitsOf(ingress_pkts', u) = size[i] /\ orig'[u] = size[i] /\ size[i] \in Nat
          BY <1>5, <1>10, <1>13, <2>1, <3>1
    <3>3. /\ BitsOf(q, u) = 0 /\ BitsOf(harq.pkts, u) = 0 /\ BlockBits(pkt_list, u) = 0
          /\ u \notin DOMAIN pending_results /\ u \notin lost
          BY <2>5, NothingOfNew
    <3>4. verdict'[u] = "none" /\ ~Decided(u)'
          BY <1>11, <3>1 DEF Decided
    <3>5. Carried(u)' = size[i]
          BY <2>2, <3>2, <3>3
    <3>6. FragmentsOf(u)' = NoFragments
          BY <2>3, <3>3 DEF FragmentsOf
    <3>7. Conserved(u)'
          BY <3>2, <3>4, <3>5, <3>6 DEF Conserved, NoFragments
    <3>. QED  BY <1>1, <2>3, <3>3, <3>4, <3>6, <3>7 DEF FragmentsTrue, NoFragments
  <2>. QED  BY <2>4, <2>5
<1>. QED  BY <1>15, <1>16, <1>17 DEF FlowInv
-----------------------------------------------------------------------------
LEMMA InitFlowInv == Init => FlowInv
<1>. SUFFICES ASSUME Init
              PROVE  FlowInv
     OBVIOUS
<1>1. /\ records = 0 /\ last_t = 0 /\ last_tp = 0 /\ t_acc = 0 /\ total_tp = 0
      /\ clock = 0 /\ pc = "mac" /\ ingress_pkts = <<>> /\ q = <<>> /\ current_size = 0
      /\ bits = 0 /\ harq = NoHarq /\ pkt_list = <<>> /\ pending_results = <<>>
      /\ orig = <<>> /\ verdict = <<>> /\ generated = 0 /\ lost = {}
      BY DEF Init, TraceInit
<1>2. Uids = {}
      BY <1>1 DEF Uids
<1>3. TypeOK
  <2>1. TraceTypeOK
    <3>1. Len(Trace) \in Nat
          BY TraceAssumption
    <3>. QED  BY <1>1, <3>1 DEF TraceTypeOK
  <2>0. 0 \in Floats
    <3>1. 0 \in 0..Exact
          BY FloatsAssumption
    <3>. QED  BY <3>1, FloatsAssumption
  <2>2. clock \in 0..MaxClock /\ pc \in PcAt
        BY <1>1, SimAssumption DEF PcAt
  <2>3. /\ ingress_pkts \in Seq(BufferEntry) /\ q \in Seq(BufferEntry)
        /\ current_size \in Floats /\ bits \in Nat /\ generated \in Nat
        /\ harq \in [bits : Nat, pkts : Seq(BlockEntry), wait : Nat]
        /\ pkt_list \in Seq([pkts : Seq(BlockEntry), wait : Nat])
        /\ orig \in Seq(1..PktSize) /\ verdict \in Seq(Verdicts)
        BY <1>1, <2>0 DEF NoHarq
  <2>4. /\ DOMAIN pending_results \subseteq Uids /\ lost \subseteq Uids
        /\ \A u \in DOMAIN pending_results :
              pending_results[u] \in [bits : 1..orig[u], dropped : BOOLEAN]
        BY <1>1, <1>2
  <2>. QED  BY <2>1, <2>2, <2>3, <2>4 DEF TypeOK
<1>4. FlowLoops
      BY <1>1 DEF FlowLoops, NoHarq
<1>. QED  BY <1>2, <1>3, <1>4 DEF FlowInv

LEMMA NextFlowInv == FlowInv /\ [Next]_vars => FlowInv'
<1>. SUFFICES ASSUME FlowInv, [Next]_vars
              PROVE  FlowInv'
     OBVIOUS
<1>1. CASE UNCHANGED vars
  <2>1. TraceTypeOK /\ pc \in PcAt /\ (pc # "admit" => ingress_pkts = <<>>)
        BY DEF FlowInv, FlowLoops, TypeOK
  <2>2. UNCHANGED <<file, clock, pc, flow, release, history>>
        BY <1>1 DEF vars
  <2>3. TraceTypeOK'
        BY <2>1, <2>2 DEF TraceTypeOK, file
  <2>. QED  BY <2>1, <2>2, <2>3, ControlInv
<1>2. ASSUME NEW dt \in StepTimes, Step(dt)
      PROVE  FlowInv'
      BY <1>2, StepInv
<1>3. CASE Generate
      BY <1>3, GenerateInv
<1>4. CASE Ingest
      BY <1>4, IngestInv
<1>5. CASE Admit
      BY <1>5, AdmitInv
<1>6. CASE Refuse
      BY <1>6, RefuseInv
<1>7. CASE AdmitDone \/ ExpireDone \/ ReleaseDone
      BY <1>7, LoopEndsInv
<1>8. CASE Expire
      BY <1>8, ExpireInv
<1>9. CASE Release
      BY <1>9, ReleaseInv
<1>10. CASE TakeWhole
       BY <1>10, TakeWholeInv
<1>11. CASE TakeFragment
       BY <1>11, TakeFragmentInv
<1>12. CASE Push
       BY <1>12, PushInv
<1>13. ASSUME NEW g \in Grants, NEW d \in Delays, Handle(g, d)
       PROVE  FlowInv'
       BY <1>13, HandleInv
<1>. QED  BY <1>1, <1>2, <1>3, <1>4, <1>5, <1>6, <1>7, <1>8, <1>9, <1>10, <1>11, <1>12,
             <1>13 DEF Next, UeStep

LEMMA FlowAlways == Spec => []FlowInv
<1>. QED  BY InitFlowInv, NextFlowInv, PTL DEF Spec

(* The variables of the flow and of the generator keep their types: in      *)
(* particular a packet under way always has its entry in the size map, and  *)
(* no entry of a list has more bits than its packet.                        *)
THEOREM TypeCorrect == Spec => []TypeOK
<1>1. FlowInv => TypeOK
      BY DEF FlowInv
<1>. QED  BY <1>1, FlowAlways, PTL

(* Every bit of a packet is in a list, in a block or in the accounting of   *)
(* its fragments until the packet is decided, and none is left afterwards,  *)
(* whatever the file, the sizes, the grants, the delays and the order in    *)
(* which blocks come back.                                                  *)
THEOREM BitsOfPacketsConserved == Spec => []BitsConserved
<1>1. FlowInv => BitsConserved
  <2>. SUFFICES ASSUME FlowInv, pc \in {"mac", "release"}, NEW u \in Uids
                PROVE  BitsOf(q, u) + FragmentsOf(u).bits + BlockBits(pkt_list, u)
                       = IF Decided(u) THEN 0 ELSE orig[u]
       BY DEF BitsConserved
  <2>1. TypeOK /\ Len(verdict) = Len(orig) /\ ingress_pkts = <<>> /\ harq = NoHarq
        BY DEF FlowInv, FlowLoops
  <2>2. PICK b, c, f \in Nat :
            b = BitsOf(q, u) /\ c = BlockBits(pkt_list, u) /\ f = FragmentsOf(u).bits
        BY <2>1, CarriedNat, PacketTyped
  <2>3. BitsOf(ingress_pkts, u) = 0 /\ BitsOf(harq.pkts, u) = 0
        BY <2>1, BitsOfNothing DEF NoHarq
  <2>4. Carried(u) = ((0 + b) + 0) + c
        BY <2>2, <2>3 DEF Carried
  <2>5. Carried(u) + FragmentsOf(u).bits = IF Decided(u) THEN 0 ELSE orig[u]
        BY DEF FlowInv, Conserved
  <2>6. Carried(u) + FragmentsOf(u).bits = BitsOf(q, u) + FragmentsOf(u).bits + BlockBits(pkt_list, u)
        BY <2>2, <2>4
  <2>. QED  BY <2>5, <2>6, Zenon
<1>. QED  BY <1>1, FlowAlways, PTL

(* A packet that is decided was dropped if and only if some of its bits     *)
(* were lost, however it was cut into fragments and whichever of them comes *)
(* back last.                                                               *)
THEOREM FateIsThatOfTheData == Spec => []FateMatchesData
<1>1. FlowInv => FateMatchesData
      BY DEF FlowInv, FragmentsTrue, FateMatchesData
<1>. QED  BY <1>1, FlowAlways, PTL
-----------------------------------------------------------------------------
(* The traffic so far, of which the call under way has counted total_tp.    *)
TrafficSoFar == generated + (IF pc = "generate" THEN total_tp ELSE 0)

(* What is due of the file by t when it has been replayed k times and `n'   *)
(* records of the next replay have been read.                               *)
IsDue(k, n, t, i) == i <= n /\ k * Duration + Trace[i].t <= t

DueOf(k, n, t) ==
    [i \in DOMAIN Trace |-> Trace[i].bytes * (IF IsDue(k, n, t, i) THEN k + 1 ELSE k)]

(* The file has been replayed k times: all but the last record read are     *)
(* due, the last one may be ahead, and is so between two calls.  Nothing    *)
(* due is missed, and during the first replay nothing is counted early.     *)
Replayed(k) ==
    /\ t_acc = k * Duration /\ t_acc <= clock
    /\ records = 0 => k = 0 /\ last_t = 0 /\ last_tp = 0
    /\ records > 0 => last_t = t_acc + Trace[records].t /\ last_tp = Trace[records].bytes
    /\ \A i \in 1..(records - 1) : t_acc + Trace[i].t <= clock
    /\ pc # "generate" => last_t > clock \/ (clock = 0 /\ records = 0)
    /\ TrafficSoFar >= SumOf(DueOf(k, records, clock))
    /\ k = 0 => TrafficSoFar = SumOf(DueOf(0, records, clock))

TrafficInv == \E k \in Nat : Replayed(k)

(* The records of the file.                                                 *)
LEMMA TraceFacts ==
    /\ Len(Trace) \in Nat \ {0} /\ DOMAIN Trace = 1..Len(Trace)
    /\ \A i \in 1..Len(Trace) : /\ Trace[i].t \in Nat /\ Trace[i].bytes \in Nat
                                /\ Trace[i].t <= Duration
    /\ \A i, j \in 1..Len(Trace) : i < j => Trace[i].t <= Trace[j].t
    /\ Duration \in Nat \ {0} /\ Duration = Trace[Len(Trace)].t
<1>1. /\ Trace \in Seq([t : Nat, bytes : Nat]) /\ Trace # <<>>
      /\ \A i, j \in DOMAIN Trace : i < j => Trace[i].t <= Trace[j].t
      /\ Last(Trace).t > 0
      BY TraceAssumption
<1>2. Len(Trace) \in Nat \ {0} /\ DOMAIN Trace = 1..Len(Trace)
      BY <1>1
<1>3. \A i \in 1..Len(Trace) : Trace[i] \in [t : Nat, bytes : Nat]
      BY <1>1, <1>2, ElementOf
<1>4. Last(Trace) = Trace[Len(Trace)]
      BY DEF Last
<1>5. Duration \in Nat \ {0} /\ Duration = Trace[Len(Trace)].t
      BY <1>1, <1>2, <1>3, <1>4 DEF Duration
<1>6. ASSUME NEW i \in 1..Len(Trace)
      PROVE  Trace[i].t <= Duration
  <2>1. PICK l : l = Len(Trace)
        OBVIOUS
  <2>2. l \in DOMAIN Trace /\ i \in DOMAIN Trace /\ i <= l /\ i \in Nat
        BY <1>2, <2>1
  <2>3. CASE i = l
        BY <1>5, <2>1, <2>3
  <2>4. CASE i < l
    <3>1. Trace[i].t <= Trace[l].t
          BY <1>1, <2>2, <2>4
    <3>. QED  BY <1>5, <2>1, <3>1
  <2>. QED  BY <2>1, <2>2, <2>3, <2>4
<1>. QED  BY <1>1, <1>2, <1>3, <1>5, <1>6

LEMMA Times ==
    ASSUME NEW a \in Nat, NEW b \in Nat, NEW d \in Nat
    PROVE  a * d \in Nat /\ (a <= b => a * d <= b * d) /\ (a + 1) * d = a * d + d
<1>1. a * d \in Nat /\ (a + 1) * d = a * d + d
      OBVIOUS
<1>2. ASSUME a <= b
      PROVE  a * d <= b * d
  <2>1. PICK c \in Nat : b = a + c
        BY <1>2
  <2>2. b * d = a * d + c * d /\ c * d \in Nat
        BY <2>1
  <2>. QED  BY <1>1, <2>2
<1>. QED  BY <1>1, <1>2

LEMMA DueSeq ==
    ASSUME NEW k \in Nat, NEW n, NEW t
    PROVE  DueOf(k, n, t) \in Seq(Nat) /\ Len(DueOf(k, n, t)) = Len(Trace)
<1>1. \A i \in 1..Len(Trace) : DueOf(k, n, t)[i] \in Nat
  <2>. TAKE i \in 1..Len(Trace)
  <2>1. PICK b \in Nat, c \in Nat :
            b = Trace[i].bytes /\ c = (IF IsDue(k, n, t, i) THEN k + 1 ELSE k)
        BY TraceFacts
  <2>2. DueOf(k, n, t)[i] = b * c
        BY <2>1, TraceFacts DEF DueOf
  <2>. QED  BY <2>2, Times
<1>2. DueOf(k, n, t) \in [1..Len(Trace) -> Nat]
      BY <1>1, TraceFacts DEF DueOf
<1>. HIDE DEF DueOf
<1>. QED  BY <1>2, TraceFacts, FunctionSeq

(* One record more is due.                                                  *)
LEMMA DueChange ==
    ASSUME NEW k \in Nat, NEW n, NEW t, NEW m, NEW s, NEW j \in DOMAIN Trace,
           \A i \in DOMAIN Trace : i # j => (IsDue(k, m, s, i) <=> IsDue(k, n, t, i)),
           ~IsDue(k, n, t, j)
    PROVE  SumOf(DueOf(k, m, s))
           = SumOf(DueOf(k, n, t)) + (IF IsDue(k, m, s, j) THEN Trace[j].bytes ELSE 0)
<1>1. PICK f : f = DueOf(k, n, t) /\ f \in Seq(Nat) /\ Len(f) = Len(Trace)
      BY DueSeq
<1>2. PICK g : g = DueOf(k, m, s) /\ g \in Seq(Nat) /\ Len(g) = Len(Trace)
      BY DueSeq
<1>3. \A i \in DOMAIN Trace : i # j => g[i] = f[i]
  <2>. SUFFICES ASSUME NEW i \in DOMAIN Trace, i # j
                PROVE  g[i] = f[i]
       OBVIOUS
  <2>1. CASE IsDue(k, n, t, i)
        BY <1>1, <1>2, <2>1 DEF DueOf
  <2>2. CASE ~IsDue(k, n, t, i)
        BY <1>1, <1>2, <2>2 DEF DueOf
  <2>. QED  BY <2>1, <2>2
<1>4. DOMAIN f = DOMAIN Trace
      BY <1>1, Zenon DEF DueOf
<1>5. PICK b \in Nat : b = Trace[j].bytes
      BY TraceFacts
<1>6. f[j] = b * k /\ g[j] = IF IsDue(k, m, s, j) THEN b * (k + 1) ELSE b * k
      BY <1>1, <1>2, <1>5 DEF DueOf
<1>7. SumOf(g) + f[j] = SumOf(f) + g[j]
  <2>1. f \in Seq(Nat) /\ g \in Seq(Nat) /\ Len(g) = Len(f) /\ j \in DOMAIN f
        BY <1>1, <1>2, <1>4
  <2>2. \A i \in DOMAIN f : i # j => g[i] = f[i]
        BY <1>3, <1>4
  <2>. QED  BY <2>1, <2>2, SumOfChange
<1>8. PICK x, y, z \in Nat : x = SumOf(f) /\ y = SumOf(g) /\ z = b * k
  <2>1. SumOf(f) \in Nat /\ SumOf(g) \in Nat
        BY <1>1, <1>2, SumOfIs
  <2>. QED  BY <2>1
<1>9. b * (k + 1) = z + b
      BY <1>8
<1>10. y = x + (IF IsDue(k, m, s, j) THEN b ELSE 0)
  <2>1. CASE IsDue(k, m, s, j)
    <3>1. y + z = x + (z + b)
          BY <1>6, <1>7, <1>8, <1>9, <2>1
    <3>2. y = x + b
          BY <3>1
    <3>. QED  BY <2>1, <3>2
  <2>2. CASE ~IsDue(k, m, s, j)
    <3>1. y + z = x + z
          BY <1>6, <1>7, <1>8, <2>2
    <3>2. y = x + 0
          BY <3>1
    <3>. QED  BY <2>2, <3>2
  <2>. QED  BY <2>1, <2>2
<1>. QED  BY <1>1, <1>2, <1>5, <1>8, <1>10, Zenon

LEMMA DueSame ==
    ASSUME NEW k \in Nat, NEW n, NEW t, NEW m, NEW s,
           \A i \in DOMAIN Trace : IsDue(k, m, s, i) <=> IsDue(k, n, t, i)
    PROVE  DueOf(k, m, s) = DueOf(k, n, t)
    BY Zenon DEF DueOf

(* A replay read to its end is a replay.                                    *)
LEMMA DueRewound ==
    ASSUME NEW k \in Nat, NEW t, \A i \in DOMAIN Trace : IsDue(k, Len(Trace), t, i)
    PROVE  DueOf(k, Len(Trace), t) = DueOf(k + 1, 0, t)
<1>1. \A i \in DOMAIN Trace : ~IsDue(k + 1, 0, t, i)
      BY TraceFacts DEF IsDue
<1>. QED  BY <1>1, Zenon DEF DueOf

LEMMA TrafficStays ==
    ASSUME TrafficInv, UNCHANGED <<file, clock>>, TrafficSoFar' = TrafficSoFar,
           pc' # "generate" => pc # "generate" \/ last_t > clock
    PROVE  TrafficInv'
<1>1. PICK k \in Nat : Replayed(k)
      BY DEF TrafficInv
<1>2. UNCHANGED <<records, last_t, last_tp, t_acc, total_tp, clock>>
      BY DEF file
<1>. HIDE DEF TrafficSoFar
<1>3. Replayed(k)'
      BY <1>1, <1>2 DEF Replayed, DueOf, IsDue
<1>. QED  BY <1>3 DEF TrafficInv

(* The clock has moved: of the records read only the last may be due now    *)
(* that was not before.                                                     *)
LEMMA CallTraffic ==
    ASSUME FlowInv, TrafficInv, NEW dt \in StepTimes, Step(dt)
    PROVE  TrafficInv'
<1>1. PICK k \in Nat : Replayed(k)
      BY DEF TrafficInv
<1>2. TypeOK /\ dt \in Nat /\ MaxClock \in Nat
      BY SimAssumption DEF FlowInv
<1>3. PICK c, e, n, l, a \in Nat :
          c = clock /\ e = clock' /\ n = records /\ l = last_t /\ a = t_acc /\ c <= e
  <2>1. clock \in Nat /\ clock <= MaxClock /\ records \in Nat /\ last_t \in Nat /\ t_acc \in Nat
    <3>1. Len(Trace) \in Nat
          BY TraceFacts
    <3>. QED  BY <1>2, <3>1 DEF TypeOK, TraceTypeOK
  <2>2. clock' \in Nat /\ clock <= clock'
        BY <1>2, <2>1 DEF Step
  <2>. QED  BY <2>1, <2>2
<1>4. /\ pc = "mac" /\ pc' = "generate" /\ generated' = generated
      /\ records' = n /\ last_t' = l /\ last_tp' = last_tp /\ t_acc' = a
      /\ total_tp' = IF l <= e THEN last_tp ELSE 0
      BY <1>3 DEF Step, Call, history
<1>5. /\ a = k * Duration /\ a <= c
      /\ n = 0 => k = 0 /\ l = 0 /\ last_tp = 0
      /\ n > 0 => l = a + Trace[n].t /\ last_tp = Trace[n].bytes
      /\ \A i \in 1..(n - 1) : a + Trace[i].t <= c
      /\ l > c \/ (c = 0 /\ n = 0)
      /\ generated >= SumOf(DueOf(k, n, c))
      /\ k = 0 => generated = SumOf(DueOf(0, n, c))
  <2>1. generated \in Nat
        BY <1>2 DEF TypeOK
  <2>2. TrafficSoFar = generated
        BY <1>4, <2>1 DEF TrafficSoFar
  <2>. HIDE DEF TrafficSoFar, DueOf
  <2>. QED  BY <1>1, <1>3, <1>4, <2>2 DEF Replayed
<1>6. TrafficSoFar' = generated + total_tp'
      BY <1>4 DEF TrafficSoFar
<1>7. n \in 0..Len(Trace) /\ generated \in Nat
      BY <1>2, <1>3 DEF TypeOK, TraceTypeOK
<1>8. SumOf(DueOf(k, n, c)) \in Nat /\ total_tp' \in Nat
  <2>1. DueOf(k, n, c) \in Seq(Nat)
        BY DueSeq
  <2>2. last_tp \in Nat
        BY <1>2 DEF TypeOK, TraceTypeOK
  <2>. QED  BY <1>4, <2>1, <2>2, SumOfIs
<1>9. SumOf(DueOf(k, n, e)) = SumOf(DueOf(k, n, c)) + total_tp'
  <2>1. CASE n = 0
    <3>1. DueOf(k, n, e) = DueOf(k, n, c)
      <4>1. \A i \in DOMAIN Trace : ~IsDue(k, n, e, i) /\ ~IsDue(k, n, c, i)
            BY <2>1, TraceFacts DEF IsDue
      <4>. QED  BY <4>1, DueSame
    <3>2. total_tp' = 0
          BY <1>4, <1>5, <2>1
    <3>. QED  BY <1>8, <3>1, <3>2
  <2>2. CASE n > 0
    <3>1. n \in DOMAIN Trace /\ n \in 1..Len(Trace) /\ l = a + Trace[n].t /\ l > c
          BY <1>5, <1>7, <2>2, TraceFacts
    <3>2. \A i \in DOMAIN Trace : i # n => (IsDue(k, n, e, i) <=> IsDue(k, n, c, i))
      <4>. SUFFICES ASSUME NEW i \in 1..Len(Trace), i # n
                    PROVE  IsDue(k, n, e, i) <=> IsDue(k, n, c, i)
           BY TraceFacts
      <4>1. PICK s \in Nat : s = Trace[i].t
            BY TraceFacts
      <4>2. CASE i < n
        <5>1. i \in 1..(n - 1)
              BY <4>2
        <5>2. a + s <= c
              BY <1>5, <4>1, <5>1
        <5>3. a + s <= e
              BY <1>3, <5>2
        <5>. QED  BY <1>5, <4>1, <4>2, <5>2, <5>3 DEF IsDue
      <4>3. CASE ~(i < n)
        <5>1. ~(i <= n)
              BY <4>3
        <5>. QED  BY <5>1 DEF IsDue
      <4>. QED  BY <4>2, <4>3
    <3>3. ~IsDue(k, n, c, n)
          BY <1>5, <3>1 DEF IsDue
    <3>4. IsDue(k, n, e, n) <=> l <= e
          BY <1>5, <3>1 DEF IsDue
    <3>5. SumOf(DueOf(k, n, e))
          = SumOf(DueOf(k, n, c)) + (IF IsDue(k, n, e, n) THEN Trace[n].bytes ELSE 0)
          BY <3>1, <3>2, <3>3, DueChange
    <3>6. total_tp' = IF IsDue(k, n, e, n) THEN Trace[n].bytes ELSE 0
          BY <1>4, <1>5, <2>2, <3>4
    <3>. QED  BY <3>5, <3>6
  <2>. QED  BY <1>7, <2>1, <2>2
<1>10. Replayed(k)'
  <2>1. /\ TrafficSoFar' >= SumOf(DueOf(k, n, e))
        /\ k = 0 => TrafficSoFar' = SumOf(DueOf(0, n, e))
        BY <1>5, <1>6, <1>7, <1>8, <1>9
  <2>2. \A i \in 1..(n - 1) : a + Trace[i].t <= e
    <3>. TAKE i \in 1..(n - 1)
    <3>1. PICK s \in Nat : s = Trace[i].t
          BY <1>7, TraceFacts
    <3>2. a + s <= c
          BY <1>5, <3>1
    <3>. QED  BY <1>3, <3>1, <3>2
  <2>3. a <= e
        BY <1>3, <1>5
  <2>4. (SumOf(DueOf(k, records, clock)))' = SumOf(DueOf(k, n, e))
        BY <1>3, <1>4 DEF DueOf, IsDue
  <2>5. (SumOf(DueOf(0, records, clock)))' = SumOf(DueOf(0, n, e))
        BY <1>3, <1>4 DEF DueOf, IsDue
  <2>. HIDE DEF TrafficSoFar
  <2>6. (TrafficSoFar >= SumOf(DueOf(k, records, clock)))'
        BY <2>1, <2>4
  <2>7. (k = 0 => TrafficSoFar = SumOf(DueOf(0, records, clock)))'
        BY <2>1, <2>5
  <2>. HIDE DEF DueOf
  <2>. QED  BY <1>3, <1>4, <1>5, <2>2, <2>3, <2>6, <2>7 DEF Replayed
<1>. QED  BY <1>10 DEF TrafficInv

(* A record is read because the one before it is due.  One that is ahead    *)
(* of the clock is left for the next call: that is in the first replay,     *)
(* since a file replayed has been gone through.                             *)
LEMMA ReadTraffic ==
    ASSUME FlowInv, TrafficInv, pc = "generate", pc' = pc, UNCHANGED <<clock, history>>,
           ReadRecord(clock)
    PROVE  TrafficInv'
<1>1. PICK k \in Nat : Replayed(k)
      BY DEF TrafficInv
<1>2. TypeOK
      BY DEF FlowInv
<1>3. PICK c, n, a, g \in Nat : c = clock /\ n = records /\ a = t_acc /\ g = generated
      BY <1>2, TraceFacts DEF TypeOK, TraceTypeOK
<1>4. PICK t, b \in Nat : t = Trace[n + 1].t /\ b = Trace[n + 1].bytes /\ t <= Duration
  <2>1. n + 1 \in 1..Len(Trace)
        BY <1>3, TraceFacts DEF ReadRecord
  <2>. QED  BY <2>1, TraceFacts
<1>5. /\ n + 1 \in DOMAIN Trace /\ last_t <= c /\ records' = n + 1 /\ t_acc' = a
      /\ last_tp' = b /\ last_t' = (IF t <= c THEN t + a ELSE t)
      /\ total_tp' = (IF t <= c THEN total_tp + b ELSE total_tp)
      /\ clock' = c /\ generated' = g
  <2>1. n + 1 \in DOMAIN Trace
        BY <1>3, TraceFacts DEF ReadRecord
  <2>2. last_t <= c /\ records' = n + 1 /\ t_acc' = a /\ clock' = c /\ generated' = g
        BY <1>3 DEF ReadRecord, history
  <2>3. Take(Trace[n + 1], c, a)
        BY <1>3, Zenon DEF ReadRecord
  <2>. QED  BY <1>4, <2>1, <2>2, <2>3, Zenon DEF Take
<1>6. /\ a = k * Duration /\ a <= c
      /\ n > 0 => last_t = a + Trace[n].t
      /\ \A i \in 1..(n - 1) : a + Trace[i].t <= c
      /\ TrafficSoFar >= SumOf(DueOf(k, n, c))
      /\ k = 0 => TrafficSoFar = SumOf(DueOf(0, n, c))
      BY <1>1, <1>3 DEF Replayed
<1>7. PICK x \in Nat : x = total_tp
      BY <1>2 DEF TypeOK, TraceTypeOK
<1>8. TrafficSoFar = g + x /\ TrafficSoFar' = (IF t <= c THEN (g + x) + b ELSE g + x)
  <2>1. TrafficSoFar = g + x
        BY <1>3, <1>7 DEF TrafficSoFar
  <2>2. TrafficSoFar' = g + (IF t <= c THEN x + b ELSE x)
        BY <1>5, <1>7 DEF TrafficSoFar
  <2>. QED  BY <2>1, <2>2
<1>9. k = 0 \/ t <= c
  <2>. SUFFICES ASSUME k # 0
                PROVE  t <= c
       OBVIOUS
  <2>1. 1 \in Nat /\ 1 <= k /\ Duration \in Nat
        BY TraceFacts
  <2>2. 1 * Duration <= k * Duration /\ 1 * Duration = Duration
        BY <2>1, Times
  <2>3. Duration <= a
        BY <1>6, <2>2
  <2>. QED  BY <1>4, <1>6, <2>1, <2>3
<1>10. k = 0 => a = 0
       BY <1>6, TraceFacts
<1>11. last_t' = a + t
  <2>1. CASE t <= c
        BY <1>5, <2>1
  <2>2. CASE ~(t <= c)
        BY <1>5, <1>9, <1>10, <2>2
  <2>. QED  BY <2>1, <2>2
<1>12. \A i \in 1..n : a + Trace[i].t <= c
  <2>. TAKE i \in 1..n
  <2>1. CASE i = n
        BY <1>5, <1>6, <2>1
  <2>2. CASE i # n
    <3>1. i \in 1..(n - 1)
          BY <2>2
    <3>. QED  BY <1>6, <3>1
  <2>. QED  BY <2>1, <2>2
<1>13. PICK y \in Nat : y = SumOf(DueOf(k, n, c))
  <2>1. DueOf(k, n, c) \in Seq(Nat)
        BY DueSeq
  <2>. QED  BY <2>1, SumOfIs
<1>14. SumOf(DueOf(k, n + 1, c)) = y + (IF a + t <= c THEN b ELSE 0)
  <2>1. \A i \in DOMAIN Trace : i # n + 1 => (IsDue(k, n + 1, c, i) <=> IsDue(k, n, c, i))
    <3>. SUFFICES ASSUME NEW i \in 1..Len(Trace), i # n + 1
                  PROVE  IsDue(k, n + 1, c, i) <=> IsDue(k, n, c, i)
         BY TraceFacts
    <3>1. i <= n + 1 <=> i <= n
          OBVIOUS
    <3>. QED  BY <3>1 DEF IsDue
  <2>2. ~IsDue(k, n, c, n + 1)
        BY DEF IsDue
  <2>3. IsDue(k, n + 1, c, n + 1) <=> a + t <= c
        BY <1>4, <1>6 DEF IsDue
  <2>4. SumOf(DueOf(k, n + 1, c)) = SumOf(DueOf(k, n, c))
            + (IF IsDue(k, n + 1, c, n + 1) THEN Trace[n + 1].bytes ELSE 0)
        BY <1>5, <2>1, <2>2, DueChange
  <2>. QED  BY <1>4, <1>13, <2>3, <2>4
<1>15. /\ TrafficSoFar' >= SumOf(DueOf(k, n + 1, c))
       /\ k = 0 => TrafficSoFar' = SumOf(DueOf(0, n + 1, c))
  <2>1. g + x >= y /\ (k = 0 => g + x = y)
        BY <1>6, <1>8, <1>13
  <2>2. a + t <= c => t <= c
        OBVIOUS
  <2>3. TrafficSoFar' >= y + (IF a + t <= c THEN b ELSE 0)
        BY <1>8, <2>1, <2>2
  <2>4. k = 0 => TrafficSoFar' = y + (IF a + t <= c THEN b ELSE 0)
        BY <1>8, <1>10, <2>1
  <2>. QED  BY <1>14, <2>3, <2>4
<1>16. Replayed(k)'
  <2>. HIDE DEF TrafficSoFar
  <2>1. /\ (SumOf(DueOf(k, records, clock)))' = SumOf(DueOf(k, n + 1, c))
        /\ (SumOf(DueOf(0, records, clock)))' = SumOf(DueOf(0, n + 1, c))
        BY <1>5 DEF DueOf, IsDue
  <2>2. (/\ t_acc = k * Duration /\ t_acc <= clock
         /\ \A i \in 1..(records - 1) : t_acc + Trace[i].t <= clock)'
        BY <1>5, <1>6, <1>12
  <2>3. (/\ records = 0 => k = 0 /\ last_t = 0 /\ last_tp = 0
         /\ records > 0 => last_t = t_acc + Trace[records].t /\ last_tp = Trace[records].bytes)'
        BY <1>4, <1>5, <1>11
  <2>4. (/\ TrafficSoFar >= SumOf(DueOf(k, records, clock))
         /\ k = 0 => TrafficSoFar = SumOf(DueOf(0, records, clock)))'
        BY <1>15, <2>1
  <2>. HIDE DEF DueOf
  <2>. QED  BY <2>2, <2>3, <2>4 DEF Replayed
<1>. QED  BY <1>16 DEF TrafficInv

(* The last record is due: all are, and a replay is over.                   *)
LEMMA RewindTraffic ==
    ASSUME FlowInv, TrafficInv, pc = "generate", pc' = pc, UNCHANGED <<clock, history>>,
           Rewind(clock)
    PROVE  TrafficInv'
<1>1. PICK k \in Nat : Replayed(k)
      BY DEF TrafficInv
<1>2. TypeOK
      BY DEF FlowInv
<1>3. PICK c, n, a, g, x \in Nat :
          c = clock /\ n = records /\ a = t_acc /\ g = generated /\ x = total_tp
  <2>1. /\ clock \in Nat /\ records \in Nat /\ t_acc \in Nat /\ generated \in Nat
        /\ total_tp \in Nat
        BY <1>2, TraceFacts, SMTT(30) DEF TypeOK, TraceTypeOK
  <2>. QED  BY <2>1, Zenon
<1>4. PICK t, b, d \in Nat :
          t = Trace[1].t /\ b = Trace[1].bytes /\ d = Duration /\ t <= d /\ d > 0
      BY TraceFacts
<1>5. /\ n = Len(Trace) /\ n > 0 /\ last_t <= c /\ records' = 1 /\ t_acc' = last_t
      /\ last_tp' = b /\ last_t' = (IF t <= c THEN t + last_t ELSE t)
      /\ total_tp' = (IF t <= c THEN x + b ELSE x)
      /\ clock' = c /\ generated' = g
  <2>1. n = Len(Trace) /\ n > 0
        BY <1>3, TraceFacts DEF Rewind
  <2>. QED  BY <1>3, <1>4, <2>1 DEF Rewind, Take, history
<1>6. /\ a = k * Duration /\ a <= c /\ last_t = a + Trace[n].t
      /\ \A i \in 1..(n - 1) : a + Trace[i].t <= c
      /\ TrafficSoFar >= SumOf(DueOf(k, n, c))
      BY <1>1, <1>3, <1>5 DEF Replayed
<1>7. TrafficSoFar = g + x /\ TrafficSoFar' = g + (IF t <= c THEN x + b ELSE x)
      BY <1>3, <1>5 DEF TrafficSoFar
<1>8. last_t = a + d /\ a + d = (k + 1) * Duration /\ a + d <= c /\ t <= c
  <2>1. last_t = a + d /\ a + d <= c
        BY <1>4, <1>5, <1>6, TraceFacts
  <2>2. (k + 1) * Duration = k * Duration + Duration
        BY <1>4, Times
  <2>. QED  BY <1>4, <1>6, <2>1, <2>2
<1>9. \A i \in DOMAIN Trace : IsDue(k, Len(Trace), c, i)
  <2>. SUFFICES ASSUME NEW i \in 1..Len(Trace)
                PROVE  IsDue(k, Len(Trace), c, i)
       BY TraceFacts
  <2>1. a + Trace[i].t <= c
    <3>1. PICK s \in Nat : s = Trace[i].t /\ s <= d
          BY <1>4, TraceFacts
    <3>. QED  BY <1>8, <3>1
  <2>2. i <= Len(Trace)
        BY TraceFacts
  <2>. QED  BY <1>6, <2>1, <2>2 DEF IsDue
<1>10. PICK y \in Nat : y = SumOf(DueOf(k + 1, 0, c)) /\ y <= g + x
  <2>1. DueOf(k, n, c) = DueOf(k + 1, 0, c)
        BY <1>5, <1>9, DueRewound
  <2>2. DueOf(k, n, c) \in Seq(Nat)
        BY DueSeq
  <2>3. SumOf(DueOf(k, n, c)) \in Nat
        BY <2>2, SumOfIs
  <2>. QED  BY <1>6, <1>7, <2>1, <2>3
<1>11. SumOf(DueOf(k + 1, 1, c)) <= y + b /\ SumOf(DueOf(k + 1, 1, c)) \in Nat
  <2>1. 1 \in DOMAIN Trace /\ k + 1 \in Nat
        BY <1>5, TraceFacts
  <2>2. \A i \in DOMAIN Trace : i # 1 => (IsDue(k + 1, 1, c, i) <=> IsDue(k + 1, 0, c, i))
    <3>. SUFFICES ASSUME NEW i \in 1..Len(Trace), i # 1
                  PROVE  IsDue(k + 1, 1, c, i) <=> IsDue(k + 1, 0, c, i)
         BY TraceFacts
    <3>1. ~(i <= 1) /\ ~(i <= 0)
          OBVIOUS
    <3>. QED  BY <3>1 DEF IsDue
  <2>3. ~IsDue(k + 1, 0, c, 1)
        BY DEF IsDue
  <2>4. SumOf(DueOf(k + 1, 1, c)) = SumOf(DueOf(k + 1, 0, c))
            + (IF IsDue(k + 1, 1, c, 1) THEN Trace[1].bytes ELSE 0)
        BY <2>1, <2>2, <2>3, DueChange
  <2>5. CASE IsDue(k + 1, 1, c, 1)
    <3>1. SumOf(DueOf(k + 1, 1, c)) = y + b
          BY <1>4, <1>10, <2>4, <2>5
    <3>. QED  BY <3>1
  <2>6. CASE ~IsDue(k + 1, 1, c, 1)
    <3>1. SumOf(DueOf(k + 1, 1, c)) = y + 0
          BY <1>10, <2>4, <2>6
    <3>. QED  BY <3>1
  <2>. QED  BY <2>5, <2>6
<1>12. TrafficSoFar' >= SumOf(DueOf(k + 1, 1, c))
  <2>1. TrafficSoFar' = g + (x + b)
        BY <1>7, <1>8
  <2>. QED  BY <1>10, <1>11, <2>1
<1>13. Replayed(k + 1)'
  <2>. HIDE DEF TrafficSoFar
  <2>1. (SumOf(DueOf(k + 1, records, clock)))' = SumOf(DueOf(k + 1, 1, c))
        BY <1>5 DEF DueOf, IsDue
  <2>2. (/\ t_acc = (k + 1) * Duration /\ t_acc <= clock
         /\ \A i \in 1..(records - 1) : t_acc + Trace[i].t <= clock)'
        BY <1>5, <1>8
  <2>3. (/\ records = 0 => k + 1 = 0 /\ last_t = 0 /\ last_tp = 0
         /\ records > 0 => last_t = t_acc + Trace[records].t /\ last_tp = Trace[records].bytes)'
        BY <1>4, <1>5, <1>8
  <2>4. (TrafficSoFar >= SumOf(DueOf(k + 1, records, clock)))'
        BY <1>12, <2>1
  <2>5. k + 1 # 0 /\ pc' = "generate"
        OBVIOUS
  <2>. HIDE DEF DueOf
  <2>. QED  BY <2>2, <2>3, <2>4, <2>5 DEF Replayed
<1>. QED  BY <1>13 DEF TrafficInv

LEMMA InitTraffic == Init => TrafficInv
<1>. SUFFICES ASSUME Init
              PROVE  TrafficInv
     OBVIOUS
<1>1. /\ records = 0 /\ last_t = 0 /\ last_tp = 0 /\ t_acc = 0 /\ total_tp = 0
      /\ clock = 0 /\ pc = "mac" /\ generated = 0
      BY DEF Init, TraceInit
<1>2. SumOf(DueOf(0, 0, 0)) = 0
  <2>1. DueOf(0, 0, 0) \in Seq(Nat)
        BY DueSeq
  <2>2. \A i \in DOMAIN DueOf(0, 0, 0) : DueOf(0, 0, 0)[i] = 0
    <3>. SUFFICES ASSUME NEW i \in 1..Len(Trace)
                  PROVE  DueOf(0, 0, 0)[i] = 0
         BY TraceFacts DEF DueOf
    <3>1. PICK b \in Nat : b = Trace[i].bytes
          BY TraceFacts
    <3>2. DueOf(0, 0, 0)[i] = b * 0
          BY <3>1, TraceFacts DEF DueOf, IsDue
    <3>. QED  BY <3>2
  <2>. HIDE DEF DueOf
  <2>. QED  BY <2>1, <2>2, SumOfZeros
<1>3. TrafficSoFar = 0
      BY <1>1 DEF TrafficSoFar
<1>4. 0 * Duration = 0
      BY TraceFacts
<1>. HIDE DEF DueOf, TrafficSoFar
<1>5. Replayed(0)
      BY <1>1, <1>2, <1>3, <1>4 DEF Replayed
<1>. QED  BY <1>5 DEF TrafficInv

LEMMA NextTraffic == FlowInv /\ TrafficInv /\ [Next]_vars => TrafficInv'
<1>. SUFFICES ASSUME FlowInv, TrafficInv, [Next]_vars
              PROVE  TrafficInv'
     OBVIOUS
<1>0. generated \in Nat /\ total_tp \in Nat
      BY DEF FlowInv, TypeOK, TraceTypeOK
<1>1. CASE UNCHANGED vars
  <2>1. UNCHANGED <<file, clock, pc, generated>>
        BY <1>1 DEF vars, history
  <2>2. TrafficSoFar' = TrafficSoFar
        BY <2>1 DEF TrafficSoFar, file
  <2>. QED  BY <2>1, <2>2, TrafficStays
<1>2. ASSUME NEW dt \in StepTimes, Step(dt)
      PROVE  TrafficInv'
      BY <1>2, CallTraffic
<1>3. CASE Generate
  <2>1. pc = "generate" /\ pc' = pc /\ UNCHANGED <<clock, history>>
        BY <1>3 DEF Generate
  <2>2. CASE ReadRecord(clock)
        BY <2>1, <2>2, ReadTraffic
  <2>3. CASE Rewind(clock)
        BY <2>1, <2>3, RewindTraffic
  <2>. QED  BY <1>3, <2>2, <2>3 DEF Generate
<1>4. CASE Ingest
  <2>1. /\ UNCHANGED <<file, clock>> /\ pc = "generate" /\ pc' = "admit"
        /\ generated' = generated + total_tp
        BY <1>4 DEF Ingest
  <2>2. TrafficSoFar' = TrafficSoFar
        BY <1>0, <2>1 DEF TrafficSoFar
  <2>. QED  BY <1>4, <2>1, <2>2, TrafficStays DEF Ingest, Exhausted
<1>5. CASE \/ Admit \/ Refuse \/ AdmitDone \/ Expire \/ ExpireDone \/ Release
           \/ ReleaseDone \/ TakeWhole \/ TakeFragment \/ Push
           \/ \E h \in Grants, d \in Delays : Handle(h, d)
  <2>1. /\ UNCHANGED <<file, clock, generated>> /\ pc # "generate" /\ pc' # "generate"
        BY <1>5, Zenon DEF Admit, Refuse, AdmitDone, Expire, ExpireDone, Release, ReleaseDone,
                    TakeWhole, TakeFragment, Push, Handle, history
  <2>2. TrafficSoFar' = TrafficSoFar
        BY <2>1 DEF TrafficSoFar
  <2>. QED  BY <2>1, <2>2, TrafficStays
<1>. QED  BY <1>1, <1>2, <1>3, <1>4, <1>5 DEF Next, UeStep

(* Between two calls the record read last is ahead: the records before it   *)
(* have come once more than the others.                                     *)
LEMMA ReplaysOfRecord ==
    ASSUME NEW c \in Nat, NEW k \in Nat, NEW n \in 1..Len(Trace), NEW i \in 1..Len(Trace),
           k * Duration <= c, c < k * Duration + Trace[n].t,
           \A j \in 1..(n - 1) : k * Duration + Trace[j].t <= c
    PROVE  Replays(Trace[i], c) = IF IsDue(k, n, c, i) THEN k + 1 ELSE k
<1>1. PICK a, d, s, t, l \in Nat :
          /\ a = k * Duration /\ d = Duration /\ s = Trace[i].t /\ t = Trace[n].t
          /\ l = Len(Trace)
  <2>1. k * Duration \in Nat
        BY TraceFacts, Times
  <2>. QED  BY <2>1, TraceFacts, Zenon
<1>2. n \in Nat /\ i \in Nat /\ 1 <= i /\ i <= l /\ n <= l
      BY <1>1, TraceFacts
<1>3. d > 0 /\ s <= d /\ t <= d /\ a <= c /\ c < a + t
  <2>1. d > 0 /\ s <= d /\ t <= d
        BY <1>1, TraceFacts
  <2>2. k * Duration <= c /\ c < k * Duration + Trace[n].t
        OBVIOUS
  <2>. QED  BY <1>1, <2>1, <2>2
<1>4. k <= c
  <2>1. 1 \in Nat /\ 1 <= d
        BY <1>3
  <2>2. 1 * k <= d * k
        BY <2>1, Times, Zenon
  <2>3. 1 * k = k /\ d * k = k * d
        OBVIOUS
  <2>4. k <= k * d
        BY <2>2, <2>3, Zenon
  <2>5. a = k * d
        BY <1>1, Zenon
  <2>. QED  BY <1>3, <2>4, <2>5
<1>. DEFINE Come(j) == j * Duration + Trace[i].t <= c
<1>5. ASSUME NEW j \in 0..c
      PROVE  \E b \in Nat : b = j * Duration /\ (Come(j) <=> b + s <= c)
  <2>1. PICK b \in Nat : b = j * Duration
        BY <1>1, Times
  <2>. QED  BY <1>1, <2>1
<1>6. Replays(Trace[i], c) = Cardinality({j \in 0..c : Come(j)})
      BY Zenon DEF Replays
<1>. HIDE DEF Come
<1>7. ASSUME NEW m \in Nat, m <= k + 1, \A j \in 0..c : Come(j) <=> j < m
      PROVE  Replays(Trace[i], c) = m
  <2>1. {j \in 0..c : Come(j)} = 0..(m - 1)
    <3>1. \A j \in 0..(m - 1) : j \in 0..c /\ j < m
          BY <1>4, <1>7
    <3>2. \A j \in 0..c : j < m => j \in 0..(m - 1)
          BY <1>7
    <3>. QED  BY <1>7, <3>1, <3>2, Zenon
  <2>2. Cardinality(0..(m - 1)) = m
    <3>1. Cardinality(0..(m - 1)) = IF 0 > m - 1 THEN 0 ELSE (m - 1) - 0 + 1
          BY FS_Interval
    <3>. QED  BY <3>1
  <2>. QED  BY <1>6, <2>1, <2>2
<1>8. CASE i < n
  <2>1. a + s <= c
    <3>1. i \in 1..(n - 1)
          BY <1>2, <1>8
    <3>. QED  BY <1>1, <3>1
  <2>2. IsDue(k, n, c, i)
        BY <1>1, <1>2, <1>8, <2>1 DEF IsDue
  <2>3. PICK m \in Nat : m = k + 1
        OBVIOUS
  <2>4. ASSUME NEW j \in 0..c
        PROVE  Come(j) <=> j < m
    <3>1. PICK b \in Nat : b = j * Duration /\ (Come(j) <=> b + s <= c)
          BY <1>5
    <3>2. CASE j < m
      <4>1. j <= k
            BY <2>3, <3>2
      <4>2. b <= a
            BY <1>1, <3>1, <4>1, Times
      <4>3. b + s <= c
            BY <2>1, <4>2
      <4>. QED  BY <3>1, <3>2, <4>3
    <3>3. CASE ~(j < m)
      <4>1. k + 1 <= j /\ k + 1 \in Nat
            BY <2>3, <3>3
      <4>2. (k + 1) * Duration <= b /\ (k + 1) * Duration = a + d
            BY <1>1, <3>1, <4>1, Times
      <4>3. a + d <= b
            BY <4>2
      <4>4. ~(b + s <= c)
            BY <1>3, <4>3
      <4>. QED  BY <3>1, <3>3, <4>4
    <3>. QED  BY <3>2, <3>3
  <2>5. Replays(Trace[i], c) = m
        BY <1>7, <2>3, <2>4
  <2>. QED  BY <2>2, <2>3, <2>5
<1>9. CASE ~(i < n)
  <2>1. t <= s
    <3>1. CASE i = n
          BY <1>1, <3>1
    <3>2. CASE n < i
          BY <1>1, <3>2, TraceFacts
    <3>. QED  BY <1>2, <1>9, <3>1, <3>2
  <2>2. ~IsDue(k, n, c, i)
    <3>1. ~(a + s <= c)
          BY <1>3, <2>1
    <3>. QED  BY <1>1, <3>1 DEF IsDue
  <2>3. ASSUME NEW j \in 0..c
        PROVE  Come(j) <=> j < k
    <3>1. PICK b \in Nat : b = j * Duration /\ (Come(j) <=> b + s <= c)
          BY <1>5
    <3>2. CASE j < k
      <4>1. j + 1 <= k /\ j + 1 \in Nat
            BY <3>2
      <4>2. (j + 1) * Duration <= a /\ (j + 1) * Duration = b + d
            BY <1>1, <3>1, <4>1, Times
      <4>3. b + d <= a
            BY <4>2
      <4>4. b + s <= c
            BY <1>3, <4>3
      <4>. QED  BY <3>1, <3>2, <4>4
    <3>3. CASE ~(j < k)
      <4>1. k <= j
            BY <3>3
      <4>2. a <= b
            BY <1>1, <3>1, <4>1, Times
      <4>3. ~(b + s <= c)
            BY <1>3, <2>1, <4>2
      <4>. QED  BY <3>1, <3>3, <4>3
    <3>. QED  BY <3>2, <3>3
  <2>4. Replays(Trace[i], c) = k
        BY <1>7, <2>3
  <2>. QED  BY <2>2, <2>4
<1>. QED  BY <1>8, <1>9, SMTT(30)

(* The traffic generated is exactly that of the file until its last record, *)
(* and never less, for every file and every sequence of clock steps.        *)
THEOREM TrafficIsThatOfTheFile == Spec => []TrafficFollowsFile
<1>1. FlowInv /\ TrafficInv => TrafficFollowsFile
  <2>. SUFFICES ASSUME FlowInv, TrafficInv, pc = "mac", clock > 0
                PROVE  /\ clock < Duration => generated = BytesUntil(clock)
                       /\ generated >= BytesUntil(clock)
       BY DEF TrafficFollowsFile
  <2>1. PICK k \in Nat : Replayed(k)
        BY DEF TrafficInv
  <2>2. PICK c, n, g \in Nat : c = clock /\ n = records /\ g = generated /\ n \in 0..Len(Trace)
        BY TraceFacts DEF FlowInv, TypeOK, TraceTypeOK
  <2>3. TrafficSoFar = g
        BY <2>2 DEF TrafficSoFar
  <2>. HIDE DEF TrafficSoFar, DueOf
  <2>4. last_t > c /\ k * Duration <= c
        /\ (n = 0 => last_t = 0) /\ (n > 0 => last_t = k * Duration + Trace[n].t)
        /\ (\A i \in 1..(n - 1) : k * Duration + Trace[i].t <= c)
        /\ g >= SumOf(DueOf(k, n, c)) /\ (k = 0 => g = SumOf(DueOf(0, n, c)))
        BY <2>1, <2>2, <2>3 DEF Replayed
  <2>5. n \in 1..Len(Trace) /\ c < k * Duration + Trace[n].t
    <3>1. n # 0
          BY <2>2, <2>4
    <3>2. n > 0 /\ n \in 1..Len(Trace)
          BY <2>2, <3>1, TraceFacts
    <3>3. PICK e \in Nat : e = k * Duration + Trace[n].t
      <4>1. k * Duration \in Nat
            BY TraceFacts, Times
      <4>. QED  BY <3>2, <4>1, TraceFacts
    <3>. QED  BY <2>2, <2>4, <3>2, <3>3
  <2>6. BytesUntil(c) = SumOf(DueOf(k, n, c))
    <3>1. \A i \in DOMAIN Trace :
              Replays(Trace[i], c) = IF IsDue(k, n, c, i) THEN k + 1 ELSE k
          BY <2>2, <2>4, <2>5, ReplaysOfRecord, TraceFacts, SMTT(30)
    <3>2. [i \in DOMAIN Trace |-> Trace[i].bytes * Replays(Trace[i], c)] = DueOf(k, n, c)
          BY <3>1, Zenon DEF DueOf
    <3>. QED  BY <3>2, Zenon DEF BytesUntil
  <2>7. c < Duration => k = 0
    <3>. SUFFICES ASSUME k # 0
                  PROVE  Duration <= c
         BY <2>2, TraceFacts
    <3>1. 1 \in Nat /\ 1 <= k /\ Duration \in Nat
          BY TraceFacts
    <3>2. 1 * Duration <= k * Duration /\ 1 * Duration = Duration /\ k * Duration \in Nat
          BY <3>1, Times
    <3>. QED  BY <2>2, <2>4, <3>1, <3>2
  <2>. QED  BY <2>2, <2>4, <2>6, <2>7
<1>2. Spec => []TrafficInv
  <2>. QED  BY FlowAlways, InitTraffic, NextTraffic, PTL DEF Spec
<1>. QED  BY <1>1, <1>2, FlowAlways, PTL
=============================================================================
