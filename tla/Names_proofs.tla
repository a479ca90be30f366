---------------------------- MODULE Names_proofs ----------------------------
(***************************************************************************)
(* name_is_valid() accepts exactly the names, for every set of inputs and  *)
(* every bound on their length.                                            *)
(***************************************************************************)
EXTENDS Names, TLAPS

(* The bit patterns of UTF-8 as ranges of bytes.                           *)
LEMMA LeadRanges ==
    ASSUME NEW b \in Byte
    PROVE  /\ b \div 32 = 6 <=> b \in 192..223
           /\ b \div 16 = 14 <=> b \in 224..239
           /\ b \div 8 = 30 <=> b \in 240..247
           /\ IsTrailing(b) <=> b \in Trail
BY DEF Byte, IsTrailing, Trail

LEMMA BitsOfByte ==
    ASSUME NEW b \in Byte
    PROVE  /\ b \in 192..223 => b % 32 = b - 192
           /\ b \in 224..239 => b % 16 = b - 224
           /\ b \in 240..247 => b % 8 = b - 240
           /\ b \in Trail => b % 64 = b - 128
BY DEF Byte, Trail

LEMMA AtByte ==
    ASSUME name \in Seq(Byte), NEW k \in Nat
    PROVE  At(k) \in Byte /\ (k < Len(name) => At(k) = name[k + 1])
<1>1. CASE k < Len(name)
  <2>1. k + 1 \in 1..Len(name)
    BY <1>1
  <2>2. QED
    BY <1>1, <2>1 DEF At
<1>2. CASE ~(k < Len(name))
  BY <1>2, NamesAssumption DEF At
<1>3. QED
  BY <1>1, <1>2

LEMMA TrailingRanges ==
    ASSUME NEW b \in Byte
    PROVE  /\ Trailing(b) = 1 <=> b \in 192..223
           /\ Trailing(b) = 2 <=> b \in 224..239
           /\ Trailing(b) = 3 <=> b \in 240..247
           /\ Trailing(b) \in 0..3
<1>1. /\ b \div 32 = 6 <=> b \in 192..223
      /\ b \div 16 = 14 <=> b \in 224..239
      /\ b \div 8 = 30 <=> b \in 240..247
  BY LeadRanges
<1> HIDE DEF Byte
<1>2. CASE b \in 192..223
  BY <1>1, <1>2 DEF Trailing
<1>3. CASE b \in 224..239
  BY <1>1, <1>3 DEF Trailing
<1>4. CASE b \in 240..247
  BY <1>1, <1>4 DEF Trailing
<1>5. CASE b \notin 192..223 /\ b \notin 224..239 /\ b \notin 240..247
  BY <1>1, <1>5 DEF Trailing
<1>6. QED
  BY <1>2, <1>3, <1>4, <1>5

(* The code points of well-formed sequences, ...                           *)
Value2(a, b)       == (a - 192) * 64 + (b - 128)
Value3(a, b, c)    == ((a - 224) * 64 + (b - 128)) * 64 + (c - 128)
Value4(a, b, c, d) == (((a - 240) * 64 + (b - 128)) * 64 + (c - 128)) * 64 + (d - 128)

(* ... and the first two bytes that RFC 3629 allows them.                  *)
Head2(a) == a \in 194..223

Head3(a, b) == \/ a = 224 /\ b \in 160..191
               \/ a \in 225..236 \cup {238, 239} /\ b \in Trail
               \/ a = 237 /\ b \in 128..159

Head4(a, b) == \/ a = 240 /\ b \in 144..191
               \/ a \in 241..243 /\ b \in Trail
               \/ a = 244 /\ b \in 128..143

LEMMA HeadTrail ==
    ASSUME NEW a, NEW b
    PROVE  (Head3(a, b) => b \in Trail) /\ (Head4(a, b) => b \in Trail)
BY DEF Head3, Head4, Trail

(* The test of the code point is a test of the first two bytes.            *)
LEMMA Decode2 ==
    ASSUME NEW a \in 192..223, NEW b \in Trail
    PROVE  AllowedCodePoint(1, Value2(a, b)) <=> Head2(a)
BY DEF Head2, AllowedCodePoint, ShortestEncoding, Trail, Value2

LEMMA Decode3 ==
    ASSUME NEW a \in 224..239, NEW b \in Trail, NEW c \in Trail
    PROVE  AllowedCodePoint(2, Value3(a, b, c)) <=> Head3(a, b)
<1> DEFINE v == Value3(a, b, c)
<1>1. /\ a \in Int /\ a >= 224 /\ a <= 239
      /\ b \in Int /\ b >= 128 /\ b <= 191
      /\ c \in Int /\ c >= 128 /\ c <= 191
  BY DEF Trail
<1>2. v \in Int /\ v = 4096 * a + 64 * b + c - 925824
  BY <1>1, SMT DEF Value3
<1>3. AllowedCodePoint(2, v) <=> /\ v >= 2048 /\ v <= 1114111
                                 /\ ~(v >= 55296 /\ v <= 57343)
  BY DEF AllowedCodePoint, ShortestEncoding
<1>4. Head3(a, b) <=> \/ a = 224 /\ b >= 160
                      \/ (a >= 225 /\ a <= 236) \/ a >= 238
                      \/ a = 237 /\ b <= 159
  BY <1>1 DEF Head3, Trail
<1> SUFFICES AllowedCodePoint(2, v) <=> Head3(a, b)
  OBVIOUS
<1> HIDE DEF v
<1>5. CASE a = 224
  BY <1>1, <1>2, <1>3, <1>4, <1>5, SMT
<1>6. CASE a >= 225 /\ a <= 236
  BY <1>1, <1>2, <1>3, <1>4, <1>6, SMT
<1>7. CASE a = 237
  BY <1>1, <1>2, <1>3, <1>4, <1>7, SMT
<1>8. CASE a >= 238
  BY <1>1, <1>2, <1>3, <1>4, <1>8, SMT
<1>9. QED
  BY <1>1, <1>5, <1>6, <1>7, <1>8, SMT

LEMMA Decode4 ==
    ASSUME NEW a \in 240..247, NEW b \in Trail, NEW c \in Trail, NEW d \in Trail
    PROVE  AllowedCodePoint(3, Value4(a, b, c, d)) <=> Head4(a, b)
<1> DEFINE v == Value4(a, b, c, d)
<1>1. /\ a \in Int /\ a >= 240 /\ a <= 247
      /\ b \in Int /\ b >= 128 /\ b <= 191
      /\ c \in Int /\ c >= 128 /\ c <= 191
      /\ d \in Int /\ d >= 128 /\ d <= 191
  BY DEF Trail
<1>2. v \in Int /\ v = 262144 * a + 4096 * b + 64 * c + d - 63447168
  BY <1>1, SMT DEF Value4
<1>3. AllowedCodePoint(3, v) <=> /\ v >= 65536 /\ v <= 1114111
                                 /\ ~(v >= 55296 /\ v <= 57343)
  BY DEF AllowedCodePoint, ShortestEncoding
<1>4. Head4(a, b) <=> \/ a = 240 /\ b >= 144
                      \/ a >= 241 /\ a <= 243
                      \/ a = 244 /\ b <= 143
  BY <1>1 DEF Head4, Trail
<1> SUFFICES AllowedCodePoint(3, v) <=> Head4(a, b)
  OBVIOUS
<1> HIDE DEF v
<1>5. CASE a = 240
  BY <1>1, <1>2, <1>3, <1>4, <1>5, SMT
<1>6. CASE a >= 241 /\ a <= 243
  BY <1>1, <1>2, <1>3, <1>4, <1>6, SMT
<1>7. CASE a = 244
  BY <1>1, <1>2, <1>3, <1>4, <1>7, SMT
<1>8. CASE a >= 245
  BY <1>1, <1>2, <1>3, <1>4, <1>8, SMT
<1>9. QED
  BY <1>1, <1>5, <1>6, <1>7, <1>8, SMT
----------------------------------------------------------------------------
(* What Ascii and Multibyte ask of the character that begins at k.         *)
Printable(k) == ~(At(k) < 32 \/ At(k) = 127)

Decodes(k) == /\ Trailing(At(k)) # 0
              /\ Fits(k)
              /\ \A j \in 1..Trailing(At(k)) : IsTrailing(At(k + j))
              /\ AllowedCodePoint(Trailing(At(k)), CodePoint(k))

(* The bytes of the character at k, by its length.                         *)
LEMMA CharacterBytes ==
    ASSUME name \in Seq(Byte), NEW k \in 0..Len(name)-1
    PROVE  /\ Character(name, k, 1) <=> At(k) \in 32..126
           /\ Character(name, k, 2) <=> /\ k + 1 < Len(name)
                                        /\ Head2(At(k)) /\ At(k + 1) \in Trail
           /\ Character(name, k, 3) <=> /\ k + 2 < Len(name) /\ Head3(At(k), At(k + 1))
                                        /\ At(k + 1) \in Trail /\ At(k + 2) \in Trail
           /\ Character(name, k, 4) <=> /\ k + 3 < Len(name) /\ Head4(At(k), At(k + 1))
                                        /\ At(k + 1) \in Trail /\ At(k + 2) \in Trail
                                        /\ At(k + 3) \in Trail
<1>1. /\ k \in Nat /\ k < Len(name) /\ Len(name) \in Nat
  OBVIOUS
<1>2. /\ k + 1 \in Nat /\ k + 2 \in Nat /\ k + 3 \in Nat
      /\ (k + 1) + 1 = k + 2 /\ (k + 2) + 1 = k + 3 /\ (k + 3) + 1 = k + 4
  BY <1>1
<1>3. /\ At(k) = name[k + 1]
      /\ k + 1 < Len(name) => At(k + 1) = name[k + 2]
      /\ k + 2 < Len(name) => At(k + 2) = name[k + 3]
      /\ k + 3 < Len(name) => At(k + 3) = name[k + 4]
  BY <1>1, <1>2, AtByte
<1>4. /\ k + 1 <= Len(name)
      /\ k + 2 <= Len(name) <=> k + 1 < Len(name)
      /\ k + 3 <= Len(name) <=> k + 2 < Len(name)
      /\ k + 4 <= Len(name) <=> k + 3 < Len(name)
      /\ k + 2 < Len(name) => k + 1 < Len(name)
      /\ k + 3 < Len(name) => k + 2 < Len(name)
  BY <1>1
<1>5. Character(name, k, 1) <=> At(k) \in 32..126
  BY <1>3, <1>4 DEF Character
<1>6. Character(name, k, 2) <=> /\ k + 1 < Len(name)
                                /\ Head2(At(k)) /\ At(k + 1) \in Trail
  BY <1>3, <1>4 DEF Character, Head2
<1>7. Character(name, k, 3) <=> /\ k + 2 < Len(name) /\ Head3(At(k), At(k + 1))
                                /\ At(k + 1) \in Trail /\ At(k + 2) \in Trail
  <2>1. Character(name, k, 3) <=> /\ k + 3 <= Len(name) /\ Head3(name[k + 1], name[k + 2])
                                  /\ name[k + 3] \in Trail
    BY DEF Character, Head3
  <2>2. Head3(At(k), At(k + 1)) => At(k + 1) \in Trail
    BY HeadTrail
  <2>3. QED
    BY <1>3, <1>4, <2>1, <2>2
<1>8. Character(name, k, 4) <=> /\ k + 3 < Len(name) /\ Head4(At(k), At(k + 1))
                                /\ At(k + 1) \in Trail /\ At(k + 2) \in Trail
                                /\ At(k + 3) \in Trail
  <2>1. Character(name, k, 4) <=> /\ k + 4 <= Len(name) /\ Head4(name[k + 1], name[k + 2])
                                  /\ name[k + 3] \in Trail /\ name[k + 4] \in Trail
    BY DEF Character, Head4
  <2>2. Head4(At(k), At(k + 1)) => At(k + 1) \in Trail
    BY HeadTrail
  <2>3. QED
    BY <1>3, <1>4, <2>1, <2>2
<1>9. QED
  BY <1>5, <1>6, <1>7, <1>8

(* The bytes the code asks for, by the number of trailing bytes.           *)
LEMMA DecodedBytes ==
    ASSUME name \in Seq(Byte), NEW k \in 0..Len(name)-1
    PROVE  /\ Trailing(At(k)) = 1 =>
                (Decodes(k) <=> /\ k + 1 < Len(name)
                                /\ Head2(At(k)) /\ At(k + 1) \in Trail)
           /\ Trailing(At(k)) = 2 =>
                (Decodes(k) <=> /\ k + 2 < Len(name) /\ Head3(At(k), At(k + 1))
                                /\ At(k + 1) \in Trail /\ At(k + 2) \in Trail)
           /\ Trailing(At(k)) = 3 =>
                (Decodes(k) <=> /\ k + 3 < Len(name) /\ Head4(At(k), At(k + 1))
                                /\ At(k + 1) \in Trail /\ At(k + 2) \in Trail
                                /\ At(k + 3) \in Trail)
<1> DEFINE a == At(k)
<1> DEFINE b == At(k + 1)
<1> DEFINE c == At(k + 2)
<1> DEFINE d == At(k + 3)
<1> DEFINE t == Trailing(a)
<1>1. a \in Byte /\ b \in Byte /\ c \in Byte /\ d \in Byte
  <2>1. k \in Nat /\ k + 1 \in Nat /\ k + 2 \in Nat /\ k + 3 \in Nat
    OBVIOUS
  <2>2. QED
    BY <2>1, AtByte
<1>2. /\ t = 1 => a \in 192..223
      /\ t = 2 => a \in 224..239
      /\ t = 3 => a \in 240..247
  BY <1>1, TrailingRanges
<1>3. /\ IsTrailing(b) <=> b \in Trail
      /\ IsTrailing(c) <=> c \in Trail
      /\ IsTrailing(d) <=> d \in Trail
  BY <1>1, LeadRanges
<1>4. /\ a \in 192..223 => a % 32 = a - 192
      /\ a \in 224..239 => a % 16 = a - 224
      /\ a \in 240..247 => a % 8 = a - 240
      /\ b \in Trail => b % 64 = b - 128
      /\ c \in Trail => c % 64 = c - 128
      /\ d \in Trail => d % 64 = d - 128
  BY <1>1, BitsOfByte
<1>5. ASSUME t = 1
      PROVE  Decodes(k) <=> k + 1 < Len(name) /\ Head2(a) /\ b \in Trail
  <2>1. Fits(k) <=> k + 1 < Len(name)
    BY <1>5 DEF Fits
  <2>2. (\A j \in 1..t : IsTrailing(At(k + j))) <=> b \in Trail
    BY <1>3, <1>5
  <2>3. CodePoint(k) = (a % 32) * 64 + (b % 64)
    BY <1>5 DEF CodePoint, LeadBits, SixBits
  <2>4. b \in Trail => CodePoint(k) = Value2(a, b)
    <3>1. SUFFICES ASSUME b \in Trail PROVE CodePoint(k) = Value2(a, b)
      OBVIOUS
    <3>2. a % 32 = a - 192 /\ b % 64 = b - 128
      BY <1>2, <1>4, <1>5, <3>1
    <3>3. QED
      BY <2>3, <3>2 DEF Value2
  <2>5. b \in Trail => (AllowedCodePoint(1, CodePoint(k)) <=> Head2(a))
    <3>1. SUFFICES ASSUME b \in Trail
                   PROVE  AllowedCodePoint(1, CodePoint(k)) <=> Head2(a)
      OBVIOUS
    <3>2. CodePoint(k) = Value2(a, b)
      BY <2>4, <3>1
    <3>3. a \in 192..223
      BY <1>2, <1>5
    <3>4. QED
      BY <3>1, <3>2, <3>3, Decode2
  <2>6. Decodes(k) <=> /\ Fits(k) /\ (\A j \in 1..t : IsTrailing(At(k + j)))
                       /\ AllowedCodePoint(1, CodePoint(k))
    BY <1>5 DEF Decodes
  <2>7. QED
    BY ONLY <2>1, <2>2, <2>5, <2>6
<1>6. ASSUME t = 2
      PROVE  Decodes(k) <=> k + 2 < Len(name) /\ Head3(a, b) /\ b \in Trail /\ c \in Trail
  <2>1. Fits(k) <=> k + 2 < Len(name)
    BY <1>6 DEF Fits
  <2>2. (\A j \in 1..t : IsTrailing(At(k + j))) <=> b \in Trail /\ c \in Trail
    BY <1>3, <1>6
  <2>3. CodePoint(k) = ((a % 16) * 64 + (b % 64)) * 64 + (c % 64)
    BY <1>6 DEF CodePoint, LeadBits, SixBits
  <2>4. b \in Trail /\ c \in Trail
          => CodePoint(k) = Value3(a, b, c)
    <3>1. SUFFICES ASSUME b \in Trail, c \in Trail
                   PROVE  CodePoint(k) = Value3(a, b, c)
      OBVIOUS
    <3>2. a % 16 = a - 224 /\ b % 64 = b - 128 /\ c % 64 = c - 128
      BY <1>2, <1>4, <1>6, <3>1
    <3>3. QED
      BY <2>3, <3>2 DEF Value3
  <2>5. b \in Trail /\ c \in Trail => (AllowedCodePoint(2, CodePoint(k)) <=> Head3(a, b))
    <3>1. SUFFICES ASSUME b \in Trail, c \in Trail
                   PROVE  AllowedCodePoint(2, CodePoint(k)) <=> Head3(a, b)
      OBVIOUS
    <3>2. CodePoint(k) = Value3(a, b, c)
      BY <2>4, <3>1
    <3>3. a \in 224..239
      BY <1>2, <1>6
    <3>4. QED
      BY <3>1, <3>2, <3>3, Decode3
  <2>6. Decodes(k) <=> /\ Fits(k) /\ (\A j \in 1..t : IsTrailing(At(k + j)))
                       /\ AllowedCodePoint(2, CodePoint(k))
    BY <1>6 DEF Decodes
  <2>7. QED
    BY ONLY <2>1, <2>2, <2>5, <2>6
<1>7. ASSUME t = 3
      PROVE  Decodes(k) <=> /\ k + 3 < Len(name) /\ Head4(a, b)
                            /\ b \in Trail /\ c \in Trail /\ d \in Trail
  <2>1. Fits(k) <=> k + 3 < Len(name)
    BY <1>7 DEF Fits
  <2>2. (\A j \in 1..t : IsTrailing(At(k + j))) <=> b \in Trail /\ c \in Trail /\ d \in Trail
    BY <1>3, <1>7
  <2>3. CodePoint(k) = (((a % 8) * 64 + (b % 64)) * 64 + (c % 64)) * 64 + (d % 64)
    BY <1>7 DEF CodePoint, LeadBits, SixBits
  <2>4. b \in Trail /\ c \in Trail /\ d \in Trail
          => CodePoint(k) = Value4(a, b, c, d)
    <3>1. SUFFICES ASSUME b \in Trail, c \in Trail, d \in Trail
                   PROVE  CodePoint(k) = Value4(a, b, c, d)
      OBVIOUS
    <3>2. a % 8 = a - 240 /\ b % 64 = b - 128 /\ c % 64 = c - 128 /\ d % 64 = d - 128
      BY <1>2, <1>4, <1>7, <3>1
    <3>3. QED
      BY <2>3, <3>2 DEF Value4
  <2>5. b \in Trail /\ c \in Trail /\ d \in Trail
          => (AllowedCodePoint(3, CodePoint(k)) <=> Head4(a, b))
    <3>1. SUFFICES ASSUME b \in Trail, c \in Trail, d \in Trail
                   PROVE  AllowedCodePoint(3, CodePoint(k)) <=> Head4(a, b)
      OBVIOUS
    <3>2. CodePoint(k) = Value4(a, b, c, d)
      BY <2>4, <3>1
    <3>3. a \in 240..247
      BY <1>2, <1>7
    <3>4. QED
      BY <3>1, <3>2, <3>3, Decode4
  <2>6. Decodes(k) <=> /\ Fits(k) /\ (\A j \in 1..t : IsTrailing(At(k + j)))
                       /\ AllowedCodePoint(3, CodePoint(k))
    BY <1>7 DEF Decodes
  <2>7. QED
    BY ONLY <2>1, <2>2, <2>5, <2>6
<1>8. QED
  BY <1>5, <1>6, <1>7

(* At most one character begins at k, of the length the code steps over.   *)
LEMMA CharacterLength ==
    ASSUME name \in Seq(Byte), NEW k \in 0..Len(name)-1, NEW l \in 1..4
    PROVE  /\ At(k) < 128 => (Character(name, k, l) <=> l = 1 /\ Printable(k))
           /\ At(k) >= 128 => (Character(name, k, l) <=> l = Trailing(At(k)) + 1 /\ Decodes(k))
<1>1. At(k) \in Byte
  <2>1. k \in Nat
    OBVIOUS
  <2>2. QED
    BY <2>1, AtByte
<1>2. /\ Trailing(At(k)) = 1 <=> At(k) \in 192..223
      /\ Trailing(At(k)) = 2 <=> At(k) \in 224..239
      /\ Trailing(At(k)) = 3 <=> At(k) \in 240..247
      /\ Trailing(At(k)) \in 0..3
  BY <1>1, TrailingRanges
<1>3. /\ Head2(At(k)) => At(k) \in 192..223
      /\ Head3(At(k), At(k + 1)) => At(k) \in 224..239
      /\ Head4(At(k), At(k + 1)) => At(k) \in 240..247
  BY DEF Head2, Head3, Head4
<1>4. /\ At(k) \in 32..126 => At(k) < 128
      /\ At(k) \in 192..223 => At(k) >= 128
      /\ At(k) \in 224..239 => At(k) >= 128
      /\ At(k) \in 240..247 => At(k) >= 128
      /\ At(k) < 128 => ~(At(k) >= 128)
      /\ At(k) < 128 => (At(k) \in 32..126 <=> ~(At(k) < 32 \/ At(k) = 127))
  <2> DEFINE a == At(k)
  <2>1. a \in 0..255
    BY <1>1 DEF Byte
  <2> HIDE DEF a
  <2>2. /\ a \in 32..126 => a < 128
        /\ a \in 192..223 => a >= 128
        /\ a \in 224..239 => a >= 128
        /\ a \in 240..247 => a >= 128
        /\ a < 128 => ~(a >= 128)
        /\ a < 128 => (a \in 32..126 <=> ~(a < 32 \/ a = 127))
    BY <2>1
  <2>3. QED
    BY <2>2 DEF a
<1>5. Decodes(k) => Trailing(At(k)) # 0
  BY DEF Decodes
<1>6. /\ Character(name, k, 1) <=> At(k) \in 32..126
      /\ Character(name, k, 2) <=> Trailing(At(k)) = 1 /\ Decodes(k)
      /\ Character(name, k, 3) <=> Trailing(At(k)) = 2 /\ Decodes(k)
      /\ Character(name, k, 4) <=> Trailing(At(k)) = 3 /\ Decodes(k)
  <2>1. Character(name, k, 1) <=> At(k) \in 32..126
    BY CharacterBytes
  <2>2. Character(name, k, 2) <=> Trailing(At(k)) = 1 /\ Decodes(k)
    BY <1>2, <1>3, CharacterBytes, DecodedBytes
  <2>3. Character(name, k, 3) <=> Trailing(At(k)) = 2 /\ Decodes(k)
    BY <1>2, <1>3, CharacterBytes, DecodedBytes
  <2>4. Character(name, k, 4) <=> Trailing(At(k)) = 3 /\ Decodes(k)
    BY <1>2, <1>3, CharacterBytes, DecodedBytes
  <2>5. QED
    BY <2>1, <2>2, <2>3, <2>4
<1>7. Trailing(At(k)) = 1 \/ Trailing(At(k)) = 2 \/ Trailing(At(k)) = 3 => At(k) >= 128
  BY <1>2, <1>4
<1>8. l = 1 \/ l = 2 \/ l = 3 \/ l = 4
  OBVIOUS
<1>9. /\ 1 = Trailing(At(k)) + 1 <=> Trailing(At(k)) = 0
      /\ 2 = Trailing(At(k)) + 1 <=> Trailing(At(k)) = 1
      /\ 3 = Trailing(At(k)) + 1 <=> Trailing(At(k)) = 2
      /\ 4 = Trailing(At(k)) + 1 <=> Trailing(At(k)) = 3
  <2> DEFINE t == Trailing(At(k))
  <2>1. t \in 0..3
    BY <1>2
  <2> HIDE DEF t
  <2>2. (1 = t + 1 <=> t = 0) /\ (2 = t + 1 <=> t = 1)
        /\ (3 = t + 1 <=> t = 2) /\ (4 = t + 1 <=> t = 3)
    BY <2>1
  <2>3. QED
    BY <2>2 DEF t
<1>10. QED
  <2>1. CASE l = 1
    BY <1>4, <1>5, <1>6, <1>9, <2>1 DEF Printable
  <2>2. CASE l = 2
    BY <1>4, <1>6, <1>7, <1>9, <2>2
  <2>3. CASE l = 3
    BY <1>4, <1>6, <1>7, <1>9, <2>3
  <2>4. CASE l = 4
    BY <1>4, <1>6, <1>7, <1>9, <2>4
  <2>5. QED
    BY <1>8, <2>1, <2>2, <2>3, <2>4
----------------------------------------------------------------------------
(* The bytes before k are characters; and every way to cut the whole name  *)
(* into characters cuts it at k.                                           *)
Prefix(n, k) == \E C \in SUBSET (0..k) : Cuts(C, n, k)

Forced(n, k) == \A C \in SUBSET (0..Len(n)) : Cuts(C, n, Len(n)) => k \in C

LEMMA PrefixGrows ==
    ASSUME NEW n, NEW k \in Nat, NEW m \in 1..4, Prefix(n, k), Character(n, k, m)
    PROVE  Prefix(n, k + m)
<1>1. PICK C \in SUBSET (0..k) : Cuts(C, n, k)
  BY DEF Prefix
<1> DEFINE D == C \cup {k + m}
<1>2. D \in SUBSET (0..(k + m)) /\ 0 \in D /\ k + m \in D
  BY <1>1 DEF Cuts
<1>3. ASSUME NEW c \in D \ {k + m}
      PROVE  \E l \in 1..4 : c + l \in D /\ Character(n, c, l)
  <2>1. CASE c = k
    BY <2>1
  <2>2. CASE c # k
    <3>1. c \in C \ {k}
      BY <2>2
    <3>2. QED
      BY <1>1, <3>1 DEF Cuts
  <2>3. QED
    BY <2>1, <2>2
<1> HIDE DEF D
<1>4. Cuts(D, n, k + m)
  BY <1>2, <1>3 DEF Cuts
<1>5. QED
  BY <1>2, <1>4 DEF Prefix

LEMMA ForcedGrows ==
    ASSUME NEW n, NEW k \in Nat, k < Len(n), Len(n) \in Nat, NEW m \in 1..4, Forced(n, k),
           \A l \in 1..4 : Character(n, k, l) => l = m
    PROVE  Forced(n, k + m)
<1>1. SUFFICES ASSUME NEW C \in SUBSET (0..Len(n)), Cuts(C, n, Len(n))
               PROVE  k + m \in C
  BY DEF Forced
<1>2. k \in C \ {Len(n)}
  BY <1>1 DEF Forced
<1>3. \E l \in 1..4 : k + l \in C /\ Character(n, k, l)
  BY <1>1, <1>2 DEF Cuts
<1>4. QED
  BY <1>3

LEMMA StuckIsNoName ==
    ASSUME NEW n, NEW k \in Nat, k < Len(n), Len(n) \in Nat, Forced(n, k),
           \A l \in 1..4 : ~Character(n, k, l)
    PROVE  ~IsName(n)
<1>1. SUFFICES ASSUME NEW C \in SUBSET (0..Len(n)), Cuts(C, n, Len(n))
               PROVE  FALSE
  BY DEF IsName
<1>2. k \in C \ {Len(n)}
  BY <1>1 DEF Forced
<1>3. QED
  BY <1>1, <1>2 DEF Cuts
----------------------------------------------------------------------------
(* The loop has cut off whole characters and had no choice.                *)
LoopInv == verdict # "invalid" => /\ Len(name) \in MinBytes..MaxBytes
                                  /\ Prefix(name, i) /\ Forced(name, i)

IInv == /\ TypeOK
        /\ LoopInv
        /\ verdict = "valid" => i = Len(name)
        /\ verdict = "invalid" => ~IsName(name)

LEMMA InitInv == Init => IInv
<1>1. SUFFICES ASSUME Init PROVE IInv
  OBVIOUS
<1>2. name \in Seq(Byte) /\ Len(name) \in Nat
  BY <1>1, NamesAssumption DEF Init
<1>3. TypeOK
  BY <1>1, <1>2 DEF Init, TypeOK
<1>4. Prefix(name, 0)
  <2>1. {0} \in SUBSET (0..0) /\ Cuts({0}, name, 0)
    BY DEF Cuts
  <2>2. QED
    BY <2>1 DEF Prefix
<1>5. Forced(name, 0)
  BY DEF Forced, Cuts
<1>6. i = 0 /\ verdict # "valid"
      /\ (verdict = "invalid" <=> Len(name) \notin MinBytes..MaxBytes)
  BY <1>1 DEF Init
<1>7. QED
  BY <1>3, <1>4, <1>5, <1>6 DEF IInv, LoopInv, IsName

(* A step over the one character that begins at i.                         *)
LEMMA StepKeepsInv ==
    ASSUME IInv, verdict = "running", i < Len(name), NEW m \in 1..4,
           Character(name, i, m), \A l \in 1..4 : Character(name, i, l) => l = m,
           i' = i + m, UNCHANGED <<name, verdict>>
    PROVE  IInv'
<1>1. name \in Seq(Byte) /\ Len(name) \in Nat /\ i \in Nat
  BY DEF IInv, TypeOK
<1>2. i + m <= Len(name)
  BY DEF Character
<1>3. TypeOK'
  BY <1>1, <1>2 DEF TypeOK, IInv
<1>4. Prefix(name, i + m) /\ Forced(name, i + m)
  BY <1>1, PrefixGrows, ForcedGrows DEF IInv, LoopInv
<1>5. (Prefix(name, i) /\ Forced(name, i))'
  BY <1>4
<1>6. LoopInv'
  BY <1>5 DEF IInv, LoopInv
<1>7. verdict' = "running"
  OBVIOUS
<1>8. QED
  BY <1>3, <1>6, <1>7 DEF IInv

(* A refusal, where no character begins at i.                              *)
LEMMA RefusalKeepsInv ==
    ASSUME IInv, verdict = "running", i < Len(name),
           \A l \in 1..4 : ~Character(name, i, l),
           verdict' = "invalid", UNCHANGED <<name, i>>
    PROVE  IInv'
<1>1. name \in Seq(Byte) /\ Len(name) \in Nat /\ i \in Nat
  BY DEF IInv, TypeOK
<1>2. Forced(name, i)
  BY DEF IInv, LoopInv
<1>3. ~IsName(name)
  BY <1>1, <1>2, StuckIsNoName
<1>4. ~IsName(name)'
  BY <1>3 DEF IsName
<1>5. TypeOK'
  BY DEF IInv, TypeOK
<1>6. QED
  BY <1>4, <1>5 DEF IInv, LoopInv

LEMMA NextInv == IInv /\ [Next]_vars => IInv'
<1> SUFFICES ASSUME IInv, [Next]_vars PROVE IInv'
  OBVIOUS
<1>1. name \in Seq(Byte) /\ Len(name) \in Nat /\ i \in 0..Len(name)
  BY DEF IInv, TypeOK
<1>2. ASSUME Reading
      PROVE  /\ i \in 0..Len(name)-1 /\ i \in Nat /\ i < Len(name) /\ verdict = "running"
             /\ At(i) \in Byte /\ Trailing(At(i)) \in 0..3
             /\ name' = name
             /\ \A l \in 1..4 :
                  /\ At(i) < 128 => (Character(name, i, l) <=> l = 1 /\ Printable(i))
                  /\ At(i) >= 128 => (Character(name, i, l)
                                        <=> l = Trailing(At(i)) + 1 /\ Decodes(i))
  <2>1. i \in 0..Len(name)-1 /\ i \in Nat /\ i < Len(name)
    BY <1>1, <1>2 DEF Reading
  <2>2. At(i) \in Byte
    BY <1>1, <2>1, AtByte
  <2>3. QED
    BY <1>1, <1>2, <2>1, <2>2, TrailingRanges, CharacterLength DEF Reading
<1>3. CASE Ascii
  <2>1. Reading /\ At(i) < 128
    BY <1>3 DEF Ascii
  <2>2. CASE Printable(i)
    <3>1. i' = i + 1 /\ UNCHANGED <<name, verdict>>
      BY <1>2, <1>3, <2>1, <2>2 DEF Ascii, Printable
    <3>2. Character(name, i, 1) /\ \A l \in 1..4 : Character(name, i, l) => l = 1
      BY <1>2, <2>1, <2>2
    <3>3. QED
      BY <1>2, <2>1, <3>1, <3>2, StepKeepsInv
  <2>3. CASE ~Printable(i)
    <3>1. verdict' = "invalid" /\ UNCHANGED <<name, i>>
      BY <1>2, <1>3, <2>1, <2>3 DEF Ascii, Printable
    <3>2. QED
      BY <1>2, <2>1, <2>3, <3>1, RefusalKeepsInv
  <2>4. QED
    BY <2>2, <2>3
<1>4. CASE Multibyte
  <2>1. Reading /\ At(i) >= 128
    BY <1>4 DEF Multibyte
  <2>2. CASE Decodes(i)
    <3>1. i' = i + Trailing(At(i)) + 1 /\ UNCHANGED <<name, verdict>>
      BY <1>2, <1>4, <2>1, <2>2 DEF Multibyte, Decodes
    <3> DEFINE m == Trailing(At(i)) + 1
    <3>2. m \in 1..4 /\ i' = i + m
      BY <1>2, <2>1, <3>1
    <3>3. Character(name, i, m) /\ \A l \in 1..4 : Character(name, i, l) => l = m
      BY <1>2, <2>1, <2>2, <3>2
    <3> HIDE DEF m
    <3>4. QED
      BY <1>2, <2>1, <3>1, <3>2, <3>3, StepKeepsInv
  <2>3. CASE ~Decodes(i)
    <3>1. verdict' = "invalid" /\ UNCHANGED <<name, i>>
      BY <1>2, <1>4, <2>1, <2>3 DEF Multibyte, Decodes
    <3>2. QED
      BY <1>2, <2>1, <2>3, <3>1, RefusalKeepsInv
  <2>4. QED
    BY <2>2, <2>3
<1>5. CASE Accept
  <2>1. i = Len(name) /\ verdict = "running" /\ verdict' = "valid" /\ UNCHANGED <<name, i>>
    BY <1>1, <1>5 DEF Accept
  <2>2. TypeOK'
    BY <2>1 DEF IInv, TypeOK
  <2>3. (Len(name) \in MinBytes..MaxBytes /\ Prefix(name, i) /\ Forced(name, i))'
    BY <2>1 DEF IInv, LoopInv
  <2>4. QED
    BY <2>1, <2>2, <2>3 DEF IInv, LoopInv
<1>6. CASE UNCHANGED vars
  BY <1>6 DEF vars, IInv, LoopInv, TypeOK, IsName
<1>7. QED
  BY <1>3, <1>4, <1>5, <1>6 DEF Next
----------------------------------------------------------------------------
(* The loop never leaves the name (store.c:133-190).                       *)
THEOREM TypeCorrect == Spec => []TypeOK
<1>1. IInv => TypeOK
  BY DEF IInv
<1>2. QED
  BY <1>1, InitInv, NextInv, PTL DEF Spec

(* name_is_valid() accepts exactly the well-formed names, whatever the     *)
(* bytes and whatever the limits of the length (store.c:122-193).          *)
THEOREM AcceptsExactlyNames == Spec => []VerdictIsRight
<1>1. IInv => VerdictIsRight
  <2>1. SUFFICES ASSUME IInv PROVE VerdictIsRight
    OBVIOUS
  <2>2. verdict = "valid" => IsName(name)
    BY <2>1 DEF IInv, LoopInv, Prefix, IsName
  <2>3. QED
    BY <2>1, <2>2 DEF IInv, TypeOK, VerdictIsRight
<1>2. QED
  BY <1>1, InitInv, NextInv, PTL DEF Spec
=============================================================================
