------------------------------- MODULE MCNames -------------------------------
(* Every name of up to three bytes over the bytes on both sides of each    *)
(* boundary of the code and of RFC 3629; longer ones that begin with the   *)
(* lead byte of a four-byte sequence or with one character in front.       *)
EXTENDS Names

Edges == {31, 32, 126, 127, 128, 143, 144, 159, 160, 191, 192, 193, 194, 223, 224, 225,
          236, 237, 238, 239, 240, 241, 243, 244, 245, 247, 248, 255}

Leads  == {239, 240, 241, 243, 244, 245, 247, 248}
Trails == {127, 128, 143, 144, 159, 160, 191, 192}

MCInputs == UNION {[1..l -> Edges] : l \in 0..3}
            \cup {<<a, b, c, d>> : a \in Leads, b, c, d \in Trails}
            \cup {<<32, a, b, c, d>> : a \in Leads, b, c, d \in Trails}
            \cup {<<a, b, 128, d, 126, e>> : a, b \in {128, 194, 224, 240}, d, e \in Trails}
=============================================================================
