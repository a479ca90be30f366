-------------------------- MODULE MCAnimationStore --------------------------
(* Two slots; a prefix of one byte, names of one or two, keyframes of two, *)
(* animations of one or two keyframes.  Inputs cross each length check by  *)
(* one in both directions.                                                 *)
EXTENDS AnimationStore

Make(i, n, l, c, named, framed) ==
    [id |-> i, name_len |-> n, len |-> l, count |-> c, named |-> named, framed |-> framed]

MCInputs ==
    {Make(1, 1, 5, 1, TRUE, TRUE)}
    \cup {Make(1, n, 1 + n + 1 + 2 * c + surplus, c, TRUE, TRUE) :
             n \in {0, 2, 3}, c \in 0..3, surplus \in {-1, 0, 1}}
    \cup {Make(1, 1, l, 1, TRUE, TRUE) : l \in 0..2}
    \cup {Make(1, 1, 5, 1, FALSE, TRUE), Make(1, 1, 5, 1, TRUE, FALSE)}

MCDamage ==
    {Make(2, 3, l, 1, TRUE, TRUE) : l \in {0, 7, 9}}
    \cup {Make(2, 0, 4, 1, TRUE, TRUE), Make(2, 1, 5, 1, TRUE, FALSE)}
============================================================================
