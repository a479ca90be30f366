------------------------------ MODULE MCPlayback ------------------------------
(* Three keyframes: a first segment shorter than a tick, of a tick and of  *)
(* more, under every pair of easings; then an empty segment or a short     *)
(* one.  And animations that playback could not honour.                    *)
EXTENDS Playback

CONSTANTS l, r

MCChannel == {l, r}
MCOffsets == {[ch \in MCChannel |-> 0], [ch \in MCChannel |-> IF ch = l THEN -1 ELSE 2]}

Frame(time, a, b, in, inMs, out, outMs) ==
    [time_ms |-> time, angles |-> [ch \in MCChannel |-> IF ch = l THEN a ELSE b],
     ease_in_type |-> in, ease_in_ms |-> inMs, ease_out_type |-> out, ease_out_ms |-> outMs]

Playable ==
    {<<Frame(3, 1, 4, "none", 0, o, om),
       Frame(3 + s, 3, 2, i, im, o, om),
       Frame(3 + s + z, 0, 2, i, im, "none", 0)>> :
         s \in {1, 4, 9}, z \in {0, 5}, o, i \in EaseType, om, im \in {0, 3, 9}}

Unplayable ==
    {<<>>,
     <<Frame(4, 0, 4, "none", 0, "none", 0), Frame(3, 4, 0, "none", 0, "none", 0)>>,
     <<Frame(0, 0, 5, "none", 0, "none", 0)>>,
     <<Frame(0, 0, 4, "bounce", 0, "none", 0)>>,
     [j \in 1..4 |-> Frame(j, 0, 4, "none", 0, "none", 0)]}

MCInputs == Playable \cup Unplayable
MCOvershoot == {Frac(-1, 4), Frac(1, 3), Frac(5, 4)}
=============================================================================
