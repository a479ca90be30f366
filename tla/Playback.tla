------------------------------- MODULE Playback -------------------------------
(***************************************************************************)
(* The playback of a custom animation (main/custom_animation.c): which     *)
(* pose the servos are told at which time.  Time is in milliseconds, and   *)
(* the floats of the code are fractions, rounded only when written to PWM. *)
(***************************************************************************)
EXTENDS Integers, Sequences

CONSTANTS
    Channel,            \* the servos
    Inputs,             \* animations as received, sequences of keyframes
    Offsets,            \* calibrations, [Channel -> Int]
    MaxKeyframes,       \* CUSTOM_ANIMATION_MAX_KEYFRAMES, 64
    MaxAngle,           \* SERVO_MAX_ANGLE, 180
    Tick,               \* ANIMATION_TICK_MS, 20
    RtosTick,           \* the period of the FreeRTOS tick, 10
    MaxDelay,           \* how late a task of a higher priority lets the wake-up be
    Word,               \* 2^32, where segment_ms wraps
    Duty,               \* the steps of PWM duty in a degree
    Overshoot           \* fractions an elastic curve passes through

ASSUME PlaybackAssumption ==
    /\ MaxKeyframes \in Nat /\ MaxAngle \in Nat /\ Word \in Nat \ {0} /\ Duty \in Nat \ {0}
    /\ RtosTick \in Nat \ {0} /\ Tick \in Nat \ {0} /\ Tick % RtosTick = 0
    /\ MaxDelay \in 0..Tick

EaseType == {"none", "sine", "cubic", "elastic"}

Keyframe == [time_ms : 0..Word-1, angles : [Channel -> Nat],
             ease_in_type : STRING, ease_in_ms : Nat,
             ease_out_type : STRING, ease_out_ms : Nat]

Fraction == [n : Int, d : Nat \ {0}]

ASSUME InputsAssumption == /\ Inputs \subseteq Seq(Keyframe)
                           /\ Offsets \subseteq [Channel -> Int]
                           /\ Overshoot \subseteq Fraction

VARIABLES
    anim,       \* the animation
    offset,     \* the calibration loaded for it
    to,         \* the keyframe being reached; behind the last one, the end
    t,          \* play_segment()'s t, -1 outside its loop
    last_wake,
    now,
    pose,       \* the angle written to each servo, in steps of duty
    start       \* history: when the first pose was taken up

playbackVars == <<anim, offset, to, t, last_wake, now, pose, start>>
----------------------------------------------------------------------------
Frac(n, d) == [n |-> n, d |-> d]
Zero == Frac(0, 1)
One  == Frac(1, 1)

LE(x, y)    == x.n * y.d <= y.n * x.d
Minus(x, y) == Frac(x.n * y.d - y.n * x.d, x.d * y.d)

(* ease_depart().  For the cosine of the sine curve, Bhaskara's fraction,  *)
(* which is right at both ends and nowhere off by 0.002.                   *)
EaseDepart(type, x) ==
    CASE type = "none"    -> {x}
      [] type = "sine"    -> {Frac(5 * x.n * x.n, 4 * x.d * x.d + x.n * x.n)}
      [] type = "cubic"   -> {Frac(x.n * x.n * x.n, x.d * x.d * x.d)}
      [] type = "elastic" -> IF LE(x, Zero) THEN {Zero}
                             ELSE IF LE(One, x) THEN {One} ELSE Overshoot

(* ease_arrive(): each curve is the departure's, turned around.            *)
EaseArrive(type, x) == {Minus(One, y) : y \in EaseDepart(type, Minus(One, x))}
----------------------------------------------------------------------------
From == anim[to - 1]
To   == anim[to]

Segment == (To.time_ms - From.time_ms) % Word

(* Easings that overrun the segment, left as they are.                     *)
NoScale(s, out, in) == One

(* Easings that overrun the segment share it in their proportion.          *)
Scale(s, out, in) == IF out + in > s THEN Frac(s, out + in) ELSE One

Depart == LET k == Scale(Segment, From.ease_out_ms, To.ease_in_ms)
          IN  Frac(From.ease_out_ms * k.n, k.d)

ArriveIn == LET k == Scale(Segment, From.ease_out_ms, To.ease_in_ms)
            IN  Frac(To.ease_in_ms * k.n, k.d)

(* The way covered t ms into the segment: the departure is its first half, *)
(* the arrival its second, and between them it holds.                      *)
Departing == t * Depart.d < Depart.n
Holding   == (Segment - t) * ArriveIn.d > ArriveIn.n \/ To.ease_in_ms = 0

HalfOf(x) == Frac(x.n, 2 * x.d)

(* No hold: the arrival begins where the departure ends.                   *)
ProgressUnheld ==
    IF Departing
    THEN {HalfOf(y) : y \in EaseDepart(From.ease_out_type, Frac(t * Depart.d, Depart.n))}
    ELSE {HalfOf(Frac(y.n + y.d, y.d)) :
             y \in EaseArrive(To.ease_in_type,
                              Minus(One, Frac((Segment - t) * ArriveIn.d,
                                              IF ArriveIn.n = 0 THEN 1 ELSE ArriveIn.n)))}

Progress ==
    IF Departing
    THEN {HalfOf(y) : y \in EaseDepart(From.ease_out_type, Frac(t * Depart.d, Depart.n))}
    ELSE IF Holding
    THEN {Frac(1, 2)}
    ELSE {HalfOf(Frac(y.n + y.d, y.d)) :
             y \in EaseArrive(To.ease_in_type,
                              Minus(One, Frac((Segment - t) * ArriveIn.d, ArriveIn.n)))}

Clamped(x) == IF x < 0 THEN 0 ELSE IF x > MaxAngle * Duty THEN MaxAngle * Duty ELSE x

(* move_servo() without its clamp.                                         *)
WrittenAnywhere(x, ch) == Clamped(x) + offset[ch] * Duty

(* apply_pose() and move_servo() for one servo, each with its clamp: an    *)
(* elastic easing leaves the servo's range, and so can the calibration.    *)
Written(x, ch) == Clamped(Clamped(x) + offset[ch] * Duty)

Way(a, b, p) == (Duty * (a * p.d + (b - a) * p.n)) \div p.d

ApplyPose(a, b, p) ==
    pose' = [ch \in Channel |-> Written(Way(a.angles[ch], b.angles[ch], p), ch)]
----------------------------------------------------------------------------
(* custom_animation_deserialize().                                         *)
Deserializes(a) ==
    /\ Len(a) \in 1..MaxKeyframes
    /\ \A i \in 1..Len(a) :
          /\ \A ch \in Channel : a[i].angles[ch] <= MaxAngle
          /\ a[i].ease_in_type \in EaseType /\ a[i].ease_out_type \in EaseType
          /\ i > 1 => a[i].time_ms >= a[i - 1].time_ms

(* An animation comes at any point of the RTOS tick.                       *)
PlaybackInit ==
    /\ anim = <<>>
    /\ offset \in Offsets
    /\ to = 1 /\ t = -1 /\ last_wake = 0
    /\ now \in 0..RtosTick - 1
    /\ pose = [ch \in Channel |-> 0]
    /\ start = 0

(* custom_animation_play() takes up the first pose at once, whatever its   *)
(* time.                                                                   *)
Play(a) ==
    /\ anim = <<>> /\ Deserializes(a)
    /\ anim' = a
    /\ ApplyPose(a[1], a[1], One)
    /\ to' = 2
    /\ start' = now
    /\ UNCHANGED <<offset, t, last_wake, now>>

Playing == anim # <<>> /\ to <= Len(anim)

EmptySegment ==
    /\ Playing /\ t = -1 /\ Segment = 0
    /\ ApplyPose(From, To, One)
    /\ to' = to + 1
    /\ UNCHANGED <<anim, offset, t, last_wake, now, start>>

EnterSegment ==
    /\ Playing /\ t = -1 /\ Segment # 0
    /\ last_wake' = now - (now % RtosTick)
    /\ t' = 0
    /\ UNCHANGED <<anim, offset, to, now, pose, start>>

(* The delay from now on, with vTaskDelay().                               *)
WakeAfter(w) == (now - (now % RtosTick)) + Tick

(* vTaskDelayUntil(): until Tick after the last wake-up, which may be past.*)
WakeUntil(w) == IF w + Tick > now THEN w + Tick ELSE now

(* One turn of the loop; late is what other tasks add to the delay.        *)
Step(late) ==
    /\ Playing /\ t # -1 /\ t < Segment
    /\ \E p \in Progress : ApplyPose(From, To, p)
    /\ now' = WakeUntil(last_wake) + late
    /\ last_wake' = last_wake + Tick
    /\ t' = t + Tick
    /\ UNCHANGED <<anim, offset, to, start>>

Land ==
    /\ Playing /\ t # -1 /\ t >= Segment
    /\ ApplyPose(From, To, One)
    /\ to' = to + 1
    /\ t' = -1
    /\ UNCHANGED <<anim, offset, last_wake, now, start>>

PlaybackNext ==
    \/ \E a \in Inputs : Play(a)
    \/ EmptySegment \/ EnterSegment \/ Land
    \/ \E late \in 0..MaxDelay : Step(late)

PlaybackSpec == PlaybackInit /\ [][PlaybackNext]_playbackVars
----------------------------------------------------------------------------
PlaybackTypeOK ==
    /\ anim \in Inputs \cup {<<>>} /\ offset \in Offsets
    /\ to \in 1..Len(anim) + 1 \/ anim = <<>>
    /\ t \in Int /\ t >= -1 /\ last_wake \in Nat /\ now \in Nat /\ start \in Nat
    /\ pose \in [Channel -> 0..MaxAngle * Duty]

(* Each keyframe's pose stands when it is due: never a whole RTOS tick     *)
(* early, and late by less than one animation tick and one delay for each  *)
(* keyframe before it, however often the loop was delayed on the way       *)
(* (custom_animation.c:131-149).  Times count from the first keyframe's.   *)
Punctual ==
    anim # <<>> /\ t = -1 =>
        LET at  == to - 1
            due == start + anim[at].time_ms - anim[1].time_ms
        IN  /\ \A ch \in Channel :
                  pose[ch] = Written(anim[at].angles[ch] * Duty, ch)
            /\ due - RtosTick < now
            /\ now <= due + (at - 1) * (Tick - 1 + MaxDelay)

Authored(type) == type # "elastic"

(* Without elastic easings no servo ever turns back on its way to the next *)
(* keyframe, nor overshoots it (custom_animation.c:133-149).               *)
NeverBack ==
    [][ Playing /\ t # -1 /\ Authored(From.ease_out_type) /\ Authored(To.ease_in_type) =>
        \A ch \in Channel :
            LET goal == Written(To.angles[ch] * Duty, ch)
            IN  \/ pose[ch] <= pose'[ch] /\ pose'[ch] <= goal
                \/ pose[ch] >= pose'[ch] /\ pose'[ch] >= goal ]_playbackVars

Abs(x) == IF x < 0 THEN -x ELSE x

(* The largest slope of a curve, rounded up.                               *)
Slope(type) == CASE type = "none" -> 1 [] type = "sine" -> 2 [] OTHER -> 3

(* And none jumps: in one turn of the loop a servo covers at most what the *)
(* steeper of the two easings covers in one tick (and a step of rounding), *)
(* also where departure, hold and arrival meet, and also when they overrun *)
(* the segment (custom_animation.c:121-144).                               *)
NoJump ==
    [][ /\ Playing /\ t # -1 /\ Authored(From.ease_out_type) /\ Authored(To.ease_in_type)
        /\ From.ease_out_ms # 0 /\ To.ease_in_ms # 0
        => \A ch \in Channel :
            LET way  == Abs(To.angles[ch] - From.angles[ch]) * Duty
                step == Abs(pose'[ch] - pose[ch]) - 1
                Covers(ease, type) ==
                    step * 2 * ease.n <= way * Slope(type) * Tick * ease.d
            IN  Covers(Depart, From.ease_out_type) \/ Covers(ArriveIn, To.ease_in_type) ]_playbackVars
============================================================================
