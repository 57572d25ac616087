------------------------------ MODULE Mobility ------------------------------
(***************************************************************************)
(* The mobility models, on a grid: a UE moves by speed cells per step in   *)
(* some direction, inside a square map and within a maximum distance of    *)
(* the antenna in its centre.  Angles are rounded to the eight directions  *)
(* of the grid.  What the code gets by dividing by zero (a direction of    *)
(* length 0) is the position Nan, which compares with nothing.             *)
(***************************************************************************)
EXTENDS Integers, FiniteSetsExt

CONSTANTS
    Kinds,         \* mobility models of the instance
    Apothem,       \* half the side of the map
    MaxDistance2,  \* square of max_distance
    SpeedVars,     \* what new_speed may return
    MaxSpeed,      \* bound: speed stays in -MaxSpeed .. MaxSpeed
    TimeTargets    \* steps from one new direction to the next, noise included

ASSUME MobilityAssumption ==
    /\ Kinds \subseteq {"base", "walk", "waypoint", "manhattan", "drift", "clockwise"}
    /\ Apothem \in Nat \ {0} /\ MaxDistance2 \in Nat
    /\ SpeedVars \subseteq Int /\ MaxSpeed \in Nat
    /\ TimeTargets \subseteq Nat \ {0}

VARIABLES
    kind, pos, speed, current_dir,
    due,      \* steps to t_target
    moving,   \* past_t > 0
    radius2   \* clockwise_model::radius, squared

mobility == <<kind, pos, speed, current_dir, due, moving, radius2>>

Origin == <<0, 0>>
Nan == <<>>
Sign(n) == IF n > 0 THEN 1 ELSE IF n < 0 THEN -1 ELSE 0
Dist2(p) == p[1] * p[1] + p[2] * p[2]
Square(n) == (-n .. n) \X (-n .. n)
Inside(p) == p \in Square(Apothem)
Cardinal == {<<0, 1>>, <<0, -1>>, <<1, 0>>, <<-1, 0>>}
Clip(n) == Sign(n) * Min({Sign(n) * n, Apothem})

(* Random positions are on the map, or the fallback, the origin; given     *)
(* ones are clipped to the map, whatever their distance.                   *)
MobilityInit ==
    /\ kind \in Kinds
    /\ \E p \in Square(Apothem + 1) : pos = <<Clip(p[1]), Clip(p[2])>>
    /\ radius2 = Dist2(pos)
    /\ speed \in {0, MaxSpeed} /\ current_dir = Origin
    /\ due = 0 /\ moving = FALSE

\* the directions a model may turn to when t_target has come
Turns ==
    CASE kind \in {"walk", "waypoint"} -> (Square(1) \ {Origin}) \union {Nan}
      [] kind = "manhattan" -> Cardinal
      [] OTHER -> {current_dir}

Bounded(v) == Max({-MaxSpeed, Min({MaxSpeed, v})})

Along(p, d, v) == IF d = Nan THEN Nan ELSE <<p[1] + v * d[1], p[2] + v * d[2]>>

\* where update_pos would like to go, with speed v and direction d
NextPositions(d, v) ==
    CASE kind = "drift" ->
           IF pos = Origin THEN {Nan}
           ELSE {Along(pos, <<Sign(pos[1]), Sign(pos[2])>>, v)}
      [] kind = "clockwise" ->
           IF radius2 = 0 THEN {Nan}
           ELSE {p \in Square(2 * Apothem) : Dist2(p) = radius2}
      [] OTHER -> {Along(pos, d, v)}

\* fault: what is outside is refused, instead of what is not inside
AcceptsUnlessOutside(p) ==
    p = Nan \/ (Inside(p) /\ (kind = "clockwise" \/ Dist2(p) <= MaxDistance2))
Accepts(p) ==
    p # Nan /\ Inside(p) /\ (kind = "clockwise" \/ Dist2(p) <= MaxDistance2)

\* a refused move: the radial models stop, the others turn
Move(p, d, v) ==
    IF Accepts(p)
    THEN pos' = p /\ speed' = v /\ current_dir' = d
    ELSE /\ pos' = pos
         /\ IF kind \in {"drift", "clockwise"}
            THEN speed' = 0 /\ current_dir' = d
            ELSE speed' = v /\ current_dir' \in Cardinal

(* update_pos: the target time first, then the move, if there is a past.   *)
UpdatePos ==
    /\ moving' \in {moving, TRUE}  \* the first timestamp may be 0
    /\ UNCHANGED <<kind, radius2>>
    /\ \/ kind = "base" /\ UNCHANGED <<pos, speed, current_dir, due>>
       \/ /\ kind # "base"
          /\ \E t \in IF due = 0 THEN TimeTargets ELSE {due},
                d \in IF due = 0 THEN Turns ELSE {current_dir},
                v \in IF due = 0 THEN {Bounded(speed + s) : s \in SpeedVars}
                                ELSE {speed} :
                /\ due' = t - 1
                /\ IF moving THEN \E p \in NextPositions(d, v) : Move(p, d, v)
                             ELSE pos' = pos /\ current_dir' = d /\ speed' = v
=============================================================================
