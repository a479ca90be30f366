-------------------------------- MODULE Names --------------------------------
(***************************************************************************)
(* The names of stored animations: the loop of name_is_valid() (store.c),  *)
(* which decodes UTF-8 bytewise and judges code points, against the table  *)
(* of well-formed byte sequences of RFC 3629.                              *)
(***************************************************************************)
EXTENDS Integers, Sequences

CONSTANTS
    Inputs,     \* the names clients send
    MinBytes,   \* STORE_NAME_MIN_BYTES, 1
    MaxBytes,   \* STORE_NAME_MAX_BYTES, 32
    After       \* the byte that follows the name in the record

Byte == 0..255

ASSUME NamesAssumption == /\ Inputs \subseteq Seq(Byte) /\ After \in Byte
                          /\ MinBytes \in Nat \ {0} /\ MaxBytes \in Nat

VARIABLES
    name,       \* the bytes
    i,          \* the loop's index
    verdict     \* what the function has returned, if it has

vars == <<name, i, verdict>>
----------------------------------------------------------------------------
(* name[k]; the record has bytes after the name.                           *)
At(k) == IF k < Len(name) THEN name[k + 1] ELSE After

(* The trailing bytes a lead byte announces by its first bits, and the     *)
(* bits of the code point it carries itself.                               *)
Trailing(lead) == CASE lead \div 32 = 6  -> 1
                    [] lead \div 16 = 14 -> 2
                    [] lead \div 8 = 30  -> 3
                    [] OTHER             -> 0

LeadBits(lead) == CASE Trailing(lead) = 1 -> lead % 32
                    [] Trailing(lead) = 2 -> lead % 16
                    [] OTHER              -> lead % 8

IsTrailing(b) == b \div 64 = 2

SixBits(k) == At(k) % 64

CodePoint(k) ==
    LET bits == LeadBits(At(k))
    IN  CASE Trailing(At(k)) = 1 -> bits * 64 + SixBits(k + 1)
          [] Trailing(At(k)) = 2 -> (bits * 64 + SixBits(k + 1)) * 64 + SixBits(k + 2)
          [] OTHER -> ((bits * 64 + SixBits(k + 1)) * 64 + SixBits(k + 2)) * 64
                        + SixBits(k + 3)

ShortestEncoding(t) == CASE t = 1 -> 128 [] t = 2 -> 2048 [] OTHER -> 65536

(* Surrogates taken for characters.                                        *)
AllowsSurrogates(t, c) == c >= ShortestEncoding(t) /\ c <= 1114111

AllowedCodePoint(t, c) == /\ c >= ShortestEncoding(t) /\ c <= 1114111
                          /\ ~(c >= 55296 /\ c <= 57343)

FitsOffByOne(k) == k + Trailing(At(k)) <= Len(name)

(* The sequence that begins at k ends within the name.                     *)
Fits(k) == k + Trailing(At(k)) < Len(name)
----------------------------------------------------------------------------
Init == /\ name \in Inputs
        /\ i = 0
        /\ verdict = IF Len(name) \in MinBytes..MaxBytes THEN "running" ELSE "invalid"

Reading == verdict = "running" /\ i < Len(name) /\ UNCHANGED name

Ascii == /\ Reading
         /\ At(i) < 128
         /\ IF At(i) < 32 \/ At(i) = 127
            THEN verdict' = "invalid" /\ UNCHANGED i
            ELSE i' = i + 1 /\ UNCHANGED verdict

Multibyte ==
    LET t == Trailing(At(i)) IN
    /\ Reading
    /\ At(i) >= 128
    /\ IF /\ t # 0
          /\ Fits(i)
          /\ \A k \in 1..t : IsTrailing(At(i + k))
          /\ AllowedCodePoint(t, CodePoint(i))
       THEN i' = i + t + 1 /\ UNCHANGED verdict
       ELSE verdict' = "invalid" /\ UNCHANGED i

Accept == /\ verdict = "running" /\ i >= Len(name)
          /\ verdict' = "valid"
          /\ UNCHANGED <<name, i>>

Next == Ascii \/ Multibyte \/ Accept

Spec == Init /\ [][Next]_vars
----------------------------------------------------------------------------
TypeOK == /\ name \in Seq(Byte)
          /\ i \in 0..Len(name)
          /\ verdict \in {"running", "valid", "invalid"}

(* RFC 3629, section 4: the byte sequences that encode one character, the  *)
(* control characters of docs/ble-protocol.md:704 left out.                *)
Trail == 128..191

Character(n, k, l) ==
    /\ k + l <= Len(n)
    /\ \/ l = 1 /\ n[k + 1] \in 32..126
       \/ l = 2 /\ n[k + 1] \in 194..223 /\ n[k + 2] \in Trail
       \/ /\ l = 3
          /\ \/ n[k + 1] = 224 /\ n[k + 2] \in 160..191
             \/ n[k + 1] \in 225..236 \cup {238, 239} /\ n[k + 2] \in Trail
             \/ n[k + 1] = 237 /\ n[k + 2] \in 128..159
          /\ n[k + 3] \in Trail
       \/ /\ l = 4
          /\ \/ n[k + 1] = 240 /\ n[k + 2] \in 144..191
             \/ n[k + 1] \in 241..243 /\ n[k + 2] \in Trail
             \/ n[k + 1] = 244 /\ n[k + 2] \in 128..143
          /\ n[k + 3] \in Trail /\ n[k + 4] \in Trail

(* Cuts is a way to cut the first k bytes into characters: from each cut   *)
(* before the end, one character leads to another cut.                     *)
Cuts(C, n, k) == /\ C \subseteq 0..k /\ 0 \in C /\ k \in C
                 /\ \A c \in C \ {k} : \E l \in 1..4 : c + l \in C /\ Character(n, c, l)

IsName(n) == /\ Len(n) \in MinBytes..MaxBytes
             /\ \E C \in SUBSET (0..Len(n)) : Cuts(C, n, Len(n))

(* A name is accepted exactly when it is 1 to 32 bytes of well-formed      *)
(* UTF-8 without control characters: nothing overlong, cut off, beyond     *)
(* U+10FFFF or a surrogate, and no such name is refused                    *)
(* (store.c:122-193, docs/ble-protocol.md:465, 702-705).                   *)
VerdictIsRight == verdict # "running" => (verdict = "valid" <=> IsName(name))
=============================================================================
