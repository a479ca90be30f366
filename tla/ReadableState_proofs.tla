-------------------------- MODULE ReadableState_proofs --------------------------
(***************************************************************************)
(* For every set of packets clients write: what the firmware packs, it and *)
(* its clients unpack again, and what ABF2 shows is a whole packet, of what*)
(* is saved now when nothing is under way.                                 *)
(***************************************************************************)
EXTENDS ReadableState, SequenceTheorems, TLAPS

(* The high and the low byte of an unsigned word.                          *)
LEMMA TwoBytes ==
    ASSUME NEW h \in Int, NEW l \in Byte, NEW u \in Int, h * 256 + l = u, 0 <= u, u < 65536
    PROVE  h \in Byte /\ (h < 128 <=> u < 32768)
BY SMT DEF Byte

(* Division and remainder by 256 (servo_calibration.c:58-59).              *)
LEMMA Split ==
    ASSUME NEW u \in Int
    PROVE  u \div 256 \in Int /\ u % 256 \in Byte /\ (u \div 256) * 256 + (u % 256) = u
<1>1. u \div 256 \in Int
  BY SMT
<1>2. u % 256 \in Byte
  BY SMT DEF Byte
<1>3. (u \div 256) * 256 + (u % 256) = u
  BY SMT
<1> QED
  BY <1>1, <1>2, <1>3, SMT

(* The unsigned value of a 16-bit word.                                    *)
LEMMA Unsigned ==
    ASSUME NEW w \in Int, -32768 <= w, w < 32768
    PROVE  w % 65536 = IF w < 0 THEN w + 65536 ELSE w
BY SMT

(* servo_calibration.c:58-59 against 99: the cast to int16_t gives back    *)
(* negative words too.                                                     *)
LEMMA WordRoundTrip ==
    ASSUME NEW w \in Int16
    PROVE  /\ High(w) \in Byte /\ Low(w) \in Byte
           /\ Word(High(w), Low(w)) = w
<1>1. w \in Int /\ -32768 <= w /\ w < 32768
  BY SMT DEF Int16
<1>2. w % 65536 = IF w < 0 THEN w + 65536 ELSE w
  BY <1>1, Unsigned, SMT
<1>3. PICK u \in Int : u = w % 65536 /\ 0 <= u /\ u < 65536
  BY <1>1, <1>2, SMT
<1>4. w % 256 = u % 256
  BY <1>1, <1>2, <1>3, SMT
<1>5. PICK h \in Int, l \in Byte : h = u \div 256 /\ l = u % 256 /\ h * 256 + l = u
  BY Split, SMT
<1>6. h \in Byte /\ (h < 128 <=> u < 32768)
  BY <1>3, <1>5, TwoBytes, SMT
<1>7. High(w) = h /\ Low(w) = l
  BY <1>3, <1>4, <1>5, SMT DEF High, Low
<1>8. h \in Int /\ l \in Int
  BY <1>5, SMT DEF Byte
<1>9. Word(h, l) = w
  BY <1>1, <1>2, <1>3, <1>5, <1>6, <1>8, SMT DEF Word
<1> QED
  BY <1>5, <1>6, <1>7, <1>9, SMT

(* A sequence of words as bytes is twice as long ...                       *)
LEMMA BytesLength ==
    ASSUME NEW s \in Seq(Int16)
    PROVE  /\ BytesOf(s) \in Seq(Byte)
           /\ Len(BytesOf(s)) = 2 * Len(s)
           /\ \A i \in 1..Len(s) : /\ BytesOf(s)[2 * i - 1] = High(s[i])
                                   /\ BytesOf(s)[2 * i] = Low(s[i])
<1>1. Len(s) \in Nat /\ \A i \in 1..Len(s) : s[i] \in Int16
  OBVIOUS
<1>2. ASSUME NEW i \in 1..2 * Len(s)
      PROVE  BytesOf(s)[i] \in Byte
  <2>1. CASE i % 2 = 1
    <3>1. (i + 1) \div 2 \in 1..Len(s)
      BY <1>1, <2>1, SMT
    <3> QED
      BY <1>1, <2>1, <3>1, WordRoundTrip DEF BytesOf
  <2>2. CASE i % 2 # 1
    <3>1. i \div 2 \in 1..Len(s)
      BY <1>1, <2>2, SMT
    <3> QED
      BY <1>1, <2>2, <3>1, WordRoundTrip DEF BytesOf
  <2> QED
    BY <2>1, <2>2
<1>3. BytesOf(s) \in Seq(Byte) /\ Len(BytesOf(s)) = 2 * Len(s)
  BY <1>1, <1>2, SMT DEF BytesOf
<1>4. ASSUME NEW i \in 1..Len(s)
      PROVE  BytesOf(s)[2 * i - 1] = High(s[i]) /\ BytesOf(s)[2 * i] = Low(s[i])
  <2>1. /\ 2 * i - 1 \in 1..2 * Len(s) /\ 2 * i \in 1..2 * Len(s)
        /\ (2 * i - 1) % 2 = 1 /\ (2 * i) % 2 = 0
        /\ ((2 * i - 1) + 1) \div 2 = i /\ (2 * i) \div 2 = i
    BY <1>1, SMT
  <2> QED
    BY <2>1, SMT DEF BytesOf
<1> QED
  BY <1>3, <1>4

(* ... and has the same words (servo_calibration.c:48-115,                 *)
(* animation_mode.c:43-93).                                                *)
THEOREM WordsReadBack ==
    ASSUME NEW s \in Seq(Int16)
    PROVE  WordsOf(BytesOf(s)) = s
<1> DEFINE b == BytesOf(s)
<1>1. Len(s) \in Nat /\ Len(b) = 2 * Len(s) /\ Len(b) \div 2 = Len(s)
  BY BytesLength, SMT
<1>2. \A i \in 1..Len(s) : Word(b[2 * i - 1], b[2 * i]) = s[i]
  BY BytesLength, WordRoundTrip
<1>3. WordsOf(b) = [i \in 1..Len(s) |-> s[i]]
  BY <1>1, <1>2 DEF WordsOf
<1> QED
  BY <1>1, <1>3, SMT
----------------------------------------------------------------------------
(* ble_packet_types.h:75-132: a type and data that fit are unpacked as they *)
(* were packed.                                                            *)
LEMMA Packed ==
    ASSUME NEW t \in 1..6, NEW data \in Seq(Byte), Len(data) < MaxPacket
    PROVE  /\ Unpacks(<<t>> \o data)
           /\ (<<t>> \o data)[1] = t
           /\ Data(<<t>> \o data) = data
<1>1. /\ Len(<<t>> \o data) = 1 + Len(data) /\ (<<t>> \o data)[1] = t
      /\ Tail(<<t>> \o data) = data
  OBVIOUS
<1> QED
  BY <1>1, PacketsAssumption DEF Unpacks, Data, DataType

(* data_packet_pack_servo_calibration() and data_packet_pack_animation_mode() *)
(* against what data_packet_get_...() accepts and gives (servo_calibration.c *)
(* :48-115, animation_mode.c:43-93).                                       *)
LEMMA WordsPacket ==
    ASSUME NEW kind \in {"calibration", "mode"}, NEW c, IsConfig(kind, c)
    PROVE  Gets(kind, Pack(kind, c)) /\ Got(kind, Pack(kind, c)) = c
<1> DEFINE t == TypeOf[kind]
           n == IF kind = "calibration" THEN 4 ELSE 2
<1>1. c \in [1..n -> Int16]
  BY DEF IsConfig, Calibration, Mode
<1>2. c \in Seq(Int16) /\ Len(c) = n
  BY <1>1
<1>3. BytesOf(c) \in Seq(Byte) /\ Len(BytesOf(c)) = 2 * n /\ WordsOf(BytesOf(c)) = c
  BY <1>2, BytesLength, WordsReadBack
<1>4. t \in 1..6
  BY DEF TypeOf
<1>5. Pack(kind, c) = <<t>> \o BytesOf(c)
  BY DEF Pack
<1>6. Len(BytesOf(c)) < MaxPacket
  BY <1>3, PacketsAssumption
<1>7. Unpacks(Pack(kind, c)) /\ Pack(kind, c)[1] = t /\ Data(Pack(kind, c)) = BytesOf(c)
  BY <1>3, <1>4, <1>5, <1>6, Packed
<1>8. kind # "lighting" /\ Pack(kind, c)[1] = TypeOf[kind]
  BY <1>7
<1>9. Got(kind, Pack(kind, c)) = c
  <2> HIDE DEF t, n
  <2> QED
    BY <1>3, <1>7, <1>8 DEF Got
<1>10. CASE kind = "calibration"
  <2>1. Len(Data(Pack(kind, c))) = 8
    BY <1>3, <1>7, <1>10
  <2> HIDE DEF t, n
  <2>2. Gets(kind, Pack(kind, c))
    BY <1>7, <1>8, <1>10, <2>1 DEF Gets
  <2> QED
    BY <1>9, <2>2
<1>11. CASE kind = "mode"
  <2>1. Len(Data(Pack(kind, c))) = 4
    BY <1>3, <1>7, <1>11
  <2> HIDE DEF t, n
  <2>2. Gets(kind, Pack(kind, c))
    BY <1>7, <1>8, <1>11, <2>1 DEF Gets
  <2> QED
    BY <1>9, <2>2
<1> QED
  BY <1>10, <1>11

(* The colour a byte belongs to, and its place in it.                      *)
LEMMA ColorByte ==
    ASSUME NEW i \in Int, NEW j \in 1..3
    PROVE  (3 * i + j - 1) \div 3 = i /\ ((3 * i + j - 1) % 3) + 1 = j
<1>1. j = 1 \/ j = 2 \/ j = 3
  BY SMT
<1>2. (3 * i + 0) \div 3 = i /\ (3 * i + 0) % 3 = 0
  BY SMT
<1>3. (3 * i + 1) \div 3 = i /\ (3 * i + 1) % 3 = 1
  BY SMT
<1>4. (3 * i + 2) \div 3 = i /\ (3 * i + 2) % 3 = 2
  BY SMT
<1>5. CASE j = 1
  BY <1>2, <1>5, SMT
<1>6. CASE j = 2
  BY <1>3, <1>6, SMT
<1>7. CASE j = 3
  BY <1>4, <1>7, SMT
<1>8. QED
  BY <1>1, <1>5, <1>6, <1>7

(* A lighting configuration as bytes: three bytes and three for each colour *)
(* (lighting_types.h:131-156).                                             *)
LEMMA LightingShape ==
    ASSUME NEW l \in Lighting
    PROVE  /\ LightingBytes(l) \in Seq(Byte)
           /\ Len(LightingBytes(l)) = 3 + 3 * Len(l.colors)
           /\ LightingBytes(l)[1] = l.mode /\ LightingBytes(l)[2] = l.speed
           /\ LightingBytes(l)[3] = Len(l.colors)
           /\ \A i \in 1..Len(l.colors) : /\ LightingBytes(l)[3 * i + 1] = l.colors[i][1]
                                          /\ LightingBytes(l)[3 * i + 2] = l.colors[i][2]
                                          /\ LightingBytes(l)[3 * i + 3] = l.colors[i][3]
<1> DEFINE n == Len(l.colors)
<1>1. /\ l.mode \in Byte /\ l.speed \in Byte /\ n \in Nat /\ n <= MaxColors
      /\ l.colors \in Seq(Color)
  BY DEF Lighting
<1>2. n \in Byte
  <2> HIDE DEF n
  <2>1. MaxColors \in 1..255
    BY PacketsAssumption
  <2>2. QED
    BY <1>1, <2>1 DEF Byte
<1>3. \A i \in 1..n, j \in 1..3 : l.colors[i][j] \in Byte
  <2>1. \A c \in Color, j \in 1..3 : c[j] \in Byte
    BY DEF Color
  <2>2. \A i \in 1..n : l.colors[i] \in Color
    BY <1>1
  <2>3. QED
    BY <2>1, <2>2
<1> HIDE DEF n
<1>4. LightingBytes(l) = [i \in 1..3 + 3 * n |->
          CASE i = 1 -> l.mode
            [] i = 2 -> l.speed
            [] i = 3 -> n
            [] OTHER -> l.colors[(i - 1) \div 3][((i - 1) % 3) + 1]]
  BY DEF LightingBytes, n
<1>5. ASSUME NEW i \in 1..3 + 3 * n PROVE LightingBytes(l)[i] \in Byte
  <2>1. CASE i > 3
    <3>1. (i - 1) \div 3 \in 1..n /\ ((i - 1) % 3) + 1 \in 1..3
      BY <1>1, <2>1, SMT
    <3>2. l.colors[(i - 1) \div 3][((i - 1) % 3) + 1] \in Byte
      BY <1>3, <3>1
    <3>3. i # 1 /\ i # 2 /\ i # 3
      BY <2>1
    <3>4. QED
      BY <1>4, <3>2, <3>3
  <2>2. CASE i \in {1, 2, 3}
    BY <1>1, <1>2, <1>4, <2>2
  <2>3. QED
    BY <1>1, <2>1, <2>2
<1>6. LightingBytes(l) \in Seq(Byte) /\ Len(LightingBytes(l)) = 3 + 3 * n
  <2>1. 3 + 3 * n \in Nat
    BY <1>1
  <2>2. LightingBytes(l) \in [1..3 + 3 * n -> Byte]
    BY <1>4, <1>5
  <2>3. QED
    BY <2>1, <2>2
<1>7. ASSUME NEW i \in 1..n, NEW j \in 1..3 PROVE LightingBytes(l)[3 * i + j] = l.colors[i][j]
  <2>1. /\ 3 * i + j \in 1..3 + 3 * n /\ 3 * i + j \notin {1, 2, 3}
        /\ (3 * i + j - 1) \div 3 = i /\ ((3 * i + j - 1) % 3) + 1 = j
    <3>1. i \in Int /\ i >= 1 /\ i <= n /\ j \in Int
      BY <1>1
    <3>2. 3 * i + j \in 1..3 + 3 * n /\ 3 * i + j \notin {1, 2, 3}
      BY <1>1, <3>1, SMT
    <3>3. QED
      BY <3>1, <3>2, ColorByte
  <2>2. PICK m \in 1..3 + 3 * n : /\ m = 3 * i + j /\ m # 1 /\ m # 2 /\ m # 3
                                  /\ (m - 1) \div 3 = i /\ ((m - 1) % 3) + 1 = j
    BY <2>1
  <2>3. LightingBytes(l)[m] = l.colors[(m - 1) \div 3][((m - 1) % 3) + 1]
    BY <1>4, <2>2
  <2>4. QED
    BY <2>2, <2>3
<1>8. /\ LightingBytes(l)[1] = l.mode /\ LightingBytes(l)[2] = l.speed
      /\ LightingBytes(l)[3] = n
  BY <1>1, <1>4
<1>9. QED
  BY <1>6, <1>7, <1>8 DEF n

(* ... and back (lighting_types.h:177-202).                                *)
LEMMA LightingReadsBack ==
    ASSUME NEW l \in Lighting
    PROVE  LightingFrom(LightingBytes(l)) = l
<1> DEFINE b == LightingBytes(l)
<1>1. l \in [mode : Byte, speed : Byte, colors : Seq(Color)]
  BY DEF Lighting
<1>2. b[1] = l.mode /\ b[2] = l.speed /\ b[3] = Len(l.colors)
  BY LightingShape
<1>3. ASSUME NEW i \in 1..Len(l.colors)
      PROVE  <<b[3 * i + 1], b[3 * i + 2], b[3 * i + 3]>> = l.colors[i]
  <2>1. l.colors[i] \in Color
    <3>1. l.colors \in Seq(Color)
      BY <1>1
    <3>2. QED
      BY <3>1
  <2>2. b[3 * i + 1] = l.colors[i][1] /\ b[3 * i + 2] = l.colors[i][2] /\ b[3 * i + 3] = l.colors[i][3]
    BY LightingShape
  <2>3. QED
    BY <2>1, <2>2 DEF Color
<1> HIDE DEF b
<1>4. [i \in 1..b[3] |-> <<b[3 * i + 1], b[3 * i + 2], b[3 * i + 3]>>] = l.colors
  <2>1. [i \in 1..b[3] |-> <<b[3 * i + 1], b[3 * i + 2], b[3 * i + 3]>>]
           = [i \in 1..Len(l.colors) |-> l.colors[i]]
    BY <1>2, <1>3
  <2>2. PICK s \in Seq(Color) : s = l.colors
    BY <1>1
  <2>3. [i \in 1..Len(s) |-> s[i]] = s
    OBVIOUS
  <2>4. QED
    BY <2>1, <2>2, <2>3
<1>5. LightingFrom(b) = [mode |-> l.mode, speed |-> l.speed, colors |-> l.colors]
  BY <1>2, <1>4 DEF LightingFrom
<1>6. QED
  BY <1>1, <1>5 DEF b

LEMMA LightingPacket ==
    ASSUME NEW l \in Lighting
    PROVE  /\ Gets("lighting", Pack("lighting", l)) /\ Got("lighting", Pack("lighting", l)) = l
           /\ Pack("lighting", l) \in Seq(Byte) /\ Len(Pack("lighting", l)) \in 1..MaxPacket
<1> DEFINE b == LightingBytes(l)
           p == Pack("lighting", l)
<1>1. /\ b \in Seq(Byte) /\ Len(b) = 3 + 3 * Len(l.colors) /\ b[3] = Len(l.colors)
      /\ LightingFrom(b) = l
  BY LightingShape, LightingReadsBack
<1>2. Len(l.colors) \in Nat /\ Len(l.colors) <= MaxColors
  BY DEF Lighting
<1>3. Len(b) < MaxPacket
  BY <1>1, <1>2, PacketsAssumption
<1>4. p = <<2>> \o b
  BY DEF Pack, TypeOf
<1> HIDE DEF b, p
<1>5. Unpacks(p) /\ p[1] = 2 /\ Data(p) = b
  BY <1>1, <1>3, <1>4, Packed
<1>6. p \in Seq(Byte) /\ Len(p) \in 1..MaxPacket
  BY <1>1, <1>3, <1>4, PacketsAssumption DEF Byte
<1>7. Gets("lighting", p)
  BY <1>1, <1>2, <1>5 DEF Gets, TypeOf
<1>8. Got("lighting", p) = l
  BY <1>1, <1>5 DEF Got
<1>9. QED
  BY <1>6, <1>7, <1>8 DEF p

(* A calibration or mode as bytes, and what packets of theirs give.        *)
LEMMA WordsBytes ==
    ASSUME NEW kind \in {"calibration", "mode"}, NEW c, IsConfig(kind, c)
    PROVE  Pack(kind, c) \in Seq(Byte) /\ Len(Pack(kind, c)) \in 1..MaxPacket
<1> DEFINE n == IF kind = "calibration" THEN 4 ELSE 2
<1>1. c \in [1..n -> Int16]
  BY DEF IsConfig, Calibration, Mode
<1>2. c \in Seq(Int16) /\ Len(c) = n
  BY <1>1
<1>3. BytesOf(c) \in Seq(Byte) /\ Len(BytesOf(c)) = 2 * n
  BY <1>2, BytesLength
<1>4. TypeOf[kind] \in Byte
  BY DEF TypeOf, Byte
<1>5. Pack(kind, c) = <<TypeOf[kind]>> \o BytesOf(c)
  BY DEF Pack
<1> HIDE DEF n
<1>6. n \in 0..4
  BY DEF n
<1>7. QED
  BY <1>3, <1>4, <1>5, <1>6, PacketsAssumption

LEMMA PackBytes ==
    ASSUME NEW kind \in Kind, NEW c, IsConfig(kind, c)
    PROVE  Pack(kind, c) \in Seq(Byte) /\ Len(Pack(kind, c)) \in 1..MaxPacket
<1>1. CASE kind = "lighting"
  BY <1>1, LightingPacket DEF IsConfig
<1>2. CASE kind # "lighting"
  BY <1>2, WordsBytes DEF Kind
<1>3. QED
  BY <1>1, <1>2

(* Whatever configuration is packed, it is accepted by the function that   *)
(* unpacks its kind, and is the one that was packed: lighting of any number*)
(* of colours, and negative words too (ble_packet_types.h:75-179,          *)
(* lighting_types.h:131-202, servo_calibration.c:48-115).                  *)
THEOREM ReadsBack ==
    ASSUME NEW kind \in Kind, NEW c, IsConfig(kind, c)
    PROVE  Gets(kind, Pack(kind, c)) /\ Got(kind, Pack(kind, c)) = c
<1>1. CASE kind = "lighting"
  BY <1>1, LightingPacket DEF IsConfig
<1>2. CASE kind # "lighting"
  BY <1>2, WordsPacket DEF Kind
<1>3. QED
  BY <1>1, <1>2

LEMMA PackWhole ==
    ASSUME NEW kind \in Kind, NEW c, IsConfig(kind, c)
    PROVE  Whole(Pack(kind, c))
BY ReadsBack DEF Whole

LEMMA ByteNat == \A b \in Byte : b \in Nat
BY DEF Byte

LEMMA WordType ==
    ASSUME NEW h \in Byte, NEW l \in Byte
    PROVE  Word(h, l) \in Int16
BY SMT DEF Word, Byte, Int16

(* Whatever a packet that is accepted gives is a configuration of its kind.*)
LEMMA GotConfig ==
    ASSUME NEW kind \in Kind, NEW bytes \in Seq(Byte), Gets(kind, bytes)
    PROVE  IsConfig(kind, Got(kind, bytes))
<1>1. Len(bytes) \in Nat /\ Len(bytes) >= 1
  BY DEF Gets, Unpacks
<1>2. PICK d \in Seq(Byte) : d = Data(bytes)
  <2>1. bytes # <<>>
    BY <1>1
  <2>2. Tail(bytes) \in Seq(Byte)
    BY <2>1
  <2>3. QED
    BY <2>2 DEF Data
<1>3. Len(d) \in Nat /\ \A i \in 1..Len(d) : d[i] \in Byte
  OBVIOUS
<1>4. CASE kind = "lighting"
  <2>1. Len(d) >= 3 /\ d[3] <= MaxColors /\ Len(d) >= 3 + 3 * d[3]
    BY <1>2, <1>4 DEF Gets
  <2>2. PICK n \in Nat : n = d[3] /\ n <= MaxColors /\ 3 + 3 * n <= Len(d)
    <3>1. d[3] \in Byte
      BY <1>3, <2>1
    <3>2. PICK n \in Nat : n = d[3]
      <4>1. d[3] \in Nat
        BY <3>1, ByteNat, Zenon
      <4>2. QED
        BY <4>1, Zenon
    <3>3. n <= MaxColors
      BY <2>1, <3>2
    <3>4. 3 + 3 * n <= Len(d)
      BY <1>3, <2>1, <3>2
    <3>5. QED
      BY <3>2, <3>3, <3>4
  <2>3. d[1] \in Byte /\ d[2] \in Byte
    BY <1>3, <2>1
  <2>4. ASSUME NEW i \in 1..n
        PROVE  <<d[3 * i + 1], d[3 * i + 2], d[3 * i + 3]>> \in Color
    <3>1. 3 * i + 1 \in 1..Len(d) /\ 3 * i + 2 \in 1..Len(d) /\ 3 * i + 3 \in 1..Len(d)
      BY <1>3, <2>2
    <3>2. d[3 * i + 1] \in Byte /\ d[3 * i + 2] \in Byte /\ d[3 * i + 3] \in Byte
      BY <1>3, <3>1
    <3>3. QED
      BY <3>2 DEF Color
  <2> DEFINE s == [i \in 1..n |-> <<d[3 * i + 1], d[3 * i + 2], d[3 * i + 3]>>]
  <2>5. s \in Seq(Color) /\ Len(s) = n
    BY <2>4
  <2>6. Got(kind, bytes) = [mode |-> d[1], speed |-> d[2], colors |-> s]
    BY <1>2, <1>4, <2>2 DEF Got, LightingFrom
  <2> HIDE DEF s
  <2>7. QED
    BY <1>4, <2>2, <2>3, <2>5, <2>6 DEF IsConfig, Lighting
<1>5. ASSUME NEW n \in {2, 4}, Len(d) = 2 * n PROVE WordsOf(d) \in [1..n -> Int16]
  <2>1. Len(d) \div 2 = n
    BY <1>5
  <2>2. ASSUME NEW i \in 1..n PROVE Word(d[2 * i - 1], d[2 * i]) \in Int16
    <3>1. 2 * i - 1 \in 1..Len(d) /\ 2 * i \in 1..Len(d)
      BY <1>5
    <3>2. QED
      BY <1>3, <3>1, WordType
  <2>3. QED
    BY <2>1, <2>2 DEF WordsOf
<1>6. CASE kind = "calibration"
  <2>1. Len(d) = 8 /\ Got(kind, bytes) = WordsOf(d)
    BY <1>2, <1>6 DEF Gets, Got
  <2>2. QED
    BY <1>5, <1>6, <2>1 DEF IsConfig, Calibration
<1>7. CASE kind = "mode"
  <2>1. Len(d) = 4 /\ Got(kind, bytes) = WordsOf(d)
    BY <1>2, <1>7 DEF Gets, Got
  <2>2. QED
    BY <1>5, <1>7, <2>1 DEF IsConfig, Mode
<1>8. QED
  BY <1>4, <1>6, <1>7 DEF Kind

LEMMA DefaultConfig == ASSUME NEW kind \in Kind PROVE IsConfig(kind, Default(kind))
<1>1. CASE kind = "lighting"
  <2>1. <<255, 255, 255>> \in Color /\ 50 \in Byte /\ 0 \in Byte
    BY DEF Color, Byte
  <2>2. PICK s \in Seq(Color) : s = <<<<255, 255, 255>>>> /\ Len(s) = 1
    <3>1. PICK c \in Color : c = <<255, 255, 255>>
      BY <2>1
    <3>2. <<c>> \in Seq(Color) /\ Len(<<c>>) = 1
      OBVIOUS
    <3>3. QED
      BY <3>1, <3>2
  <2>3. Default(kind) = [mode |-> 0, speed |-> 50, colors |-> s]
    BY <1>1, <2>2 DEF Default
  <2>4. MaxColors \in 1..255
    BY PacketsAssumption
  <2>5. Default(kind) \in Lighting
    <3>1. /\ Default(kind) \in [mode : Byte, speed : Byte, colors : Seq(Color)]
          /\ Default(kind).colors = s
      BY <2>1, <2>2, <2>3
    <3>2. Len(s) <= MaxColors
      BY <2>2, <2>4
    <3>3. QED
      BY <3>1, <3>2 DEF Lighting
  <2>6. QED
    BY <1>1, <2>5 DEF IsConfig
<1>2. CASE kind = "calibration"
  BY <1>2 DEF Default, IsConfig, Calibration, Int16
<1>3. CASE kind = "mode"
  BY <1>3 DEF Default, IsConfig, Mode, Int16
<1>4. QED
  BY <1>1, <1>2, <1>3 DEF Kind
----------------------------------------------------------------------------
(* The inductive invariant.                                                *)

Configs == Calibration \cup Mode \cup Lighting

(* The variables that are functions of a kind, and the controller's locals.*)
Shapes == /\ nvs \in [Kind -> {None} \cup Configs] /\ current \in [Kind -> Configs]
          /\ packed \in [Kind -> Seq(Byte)] /\ queued \in Seq(Seq(Byte))
          /\ controller \in [at : {"idle", "save", "load", "pack", "copy"}, kind : Kind,
                             config : {None} \cup Configs, bytes : Seq(Byte), copied : Nat]

(* The controller has a configuration to save; once it packs, the attribute*)
(* table is there, and what it has copied is in the buffer, of the length  *)
(* at least.  Unless NVS failed, it packs what is saved, and nobody has put*)
(* other bytes where it has copied.                                        *)
WorkInv ==
    LET k == controller.kind IN
    /\ At("save") => IsConfig(k, controller.config)
    /\ At("pack") \/ At("copy") => table
    /\ At("copy") => controller.copied <= Len(packed[k])
    /\ ~failed /\ At("pack") => current[k] = Saved(k)
    /\ ~failed /\ At("copy") =>
          /\ controller.bytes = Pack(k, Saved(k))
          /\ \A i \in 1..controller.copied : packed[k][i] = controller.bytes[i]

Good(bytes) == bytes = <<>> \/ Whole(bytes)

SavedNow(bytes) == \E k \in Kind : bytes = Pack(k, Saved(k))

(* What ABF2 will show when the stack has applied everything.              *)
Latest == IF queued = <<>> THEN value ELSE queued[Len(queued)]

ValueInv ==
    /\ ~deferred => queued = <<>>
    /\ ~failed =>
          /\ Good(value) /\ Good(answer) /\ \A i \in 1..Len(queued) : Good(queued[i])
          /\ At("idle") \/ At("save") => Latest = <<>> \/ SavedNow(Latest)

IInv == TypeOK /\ Shapes /\ WorkInv /\ ValueInv
----------------------------------------------------------------------------
(* What loading, packing and setting do.                                   *)

LEMMA ConfigIn ==
    ASSUME NEW kind \in Kind, NEW c, IsConfig(kind, c)
    PROVE  c \in Configs
BY DEF Kind, IsConfig, Configs

LEMMA SavedConfig ==
    ASSUME TypeOK, NEW kind \in Kind
    PROVE  IsConfig(kind, Saved(kind))
BY DefaultConfig DEF TypeOK, Saved

LEMMA LoadableConfig ==
    ASSUME TypeOK, NEW kind \in Kind, NEW config \in Loadable(kind)
    PROVE  IsConfig(kind, config)
<1>1. CASE config \in {Saved(kind), Default(kind)}
  BY <1>1, SavedConfig, DefaultConfig
<1>2. CASE kind = "calibration" /\ config \in Garbage
  BY <1>2, InputsAssumption DEF IsConfig
<1>3. QED
  BY <1>1, <1>2 DEF Loadable

LEMMA OverBytes ==
    ASSUME NEW b, NEW buffer, IsBytes(b), IsBytes(buffer)
    PROVE  /\ IsBytes(Over(b, buffer))
           /\ Len(buffer) <= Len(Over(b, buffer))
           /\ \A i \in 1..Len(b) : Over(b, buffer)[i] = b[i]
<1>1. /\ b \in Seq(Byte) /\ buffer \in Seq(Byte) /\ Len(b) \in Nat /\ Len(buffer) \in Nat
      /\ Len(b) <= MaxPacket /\ Len(buffer) <= MaxPacket
  BY DEF IsBytes
<1>2. PICK tail \in Seq(Byte) :
         /\ tail = SubSeq(buffer, Len(b) + 1, Len(buffer))
         /\ Len(tail) = IF Len(b) < Len(buffer) THEN Len(buffer) - Len(b) ELSE 0
  <2>1. PICK m \in Int, n \in Int : m = Len(b) + 1 /\ n = Len(buffer)
    BY <1>1
  <2>2. \A i \in m..n : buffer[i] \in Byte
    BY <1>1, <2>1
  <2>3. /\ SubSeq(buffer, m, n) \in Seq(Byte)
        /\ Len(SubSeq(buffer, m, n)) = IF m <= n THEN n - m + 1 ELSE 0
    BY <2>2, SubSeqProperties
  <2>4. (m <= n <=> Len(b) < Len(buffer)) /\ n - m + 1 = Len(buffer) - Len(b)
    BY <1>1, <2>1
  <2>5. QED
    BY <2>1, <2>3, <2>4, Zenon
<1>3. Over(b, buffer) = b \o tail
  BY <1>2 DEF Over
<1>4. /\ b \o tail \in Seq(Byte) /\ Len(b \o tail) = Len(b) + Len(tail)
      /\ \A i \in 1..Len(b) : (b \o tail)[i] = b[i]
  BY <1>1, <1>2
<1>5. QED
  BY <1>1, <1>2, <1>3, <1>4, PacketsAssumption DEF IsBytes

(* An update as one step of the callback task: unless NVS fails, the       *)
(* buffer begins with the packet of what is saved.                         *)
LEMMA Updates ==
    ASSUME TypeOK, Shapes, NEW kind \in Kind, NEW config \in Loadable(kind),
           Update(kind, config)
    PROVE  /\ current' \in [Kind -> Configs] /\ \A k \in Kind : IsConfig(k, current'[k])
           /\ packed' \in [Kind -> Seq(Byte)]
           /\ \A k \in Kind : IsBytes(packed'[k]) /\ Len(packed[k]) <= Len(packed'[k])
           /\ \A k \in Kind \ {kind} : packed'[k] = packed[k] /\ current'[k] = current[k]
           /\ failed' \in BOOLEAN
           /\ IsConfig(kind, config) /\ IsBytes(Pack(kind, config))
           /\ SetValue(Pack(kind, config))
           /\ ~failed' => /\ ~failed /\ config = Saved(kind) /\ current'[kind] = config
                          /\ \A i \in 1..Len(Pack(kind, config)) :
                                packed'[kind][i] = Pack(kind, config)[i]
<1> DEFINE b == Pack(kind, config)
<1>1. IsConfig(kind, config) /\ config \in Configs
  BY LoadableConfig, ConfigIn
<1>2. IsBytes(b)
  BY <1>1, PackBytes DEF IsBytes
<1>3. /\ Loads(kind, config) \/ LoadFails(kind, config)
      /\ current' = [current EXCEPT ![kind] = config]
      /\ packed' = [packed EXCEPT ![kind] = Over(b, @)]
      /\ SetValue(b)
  BY DEF Update, Buffer
<1> HIDE DEF b
<1>4. IsBytes(packed[kind])
  BY DEF TypeOK
<1>5. /\ IsBytes(Over(b, packed[kind])) /\ Len(packed[kind]) <= Len(Over(b, packed[kind]))
      /\ \A i \in 1..Len(b) : Over(b, packed[kind])[i] = b[i]
  BY <1>2, <1>4, OverBytes
<1>6. current' \in [Kind -> Configs] /\ \A k \in Kind : IsConfig(k, current'[k])
  BY <1>1, <1>3 DEF TypeOK, Shapes
<1>7. /\ packed'[kind] = Over(b, packed[kind])
      /\ \A k \in Kind \ {kind} : packed'[k] = packed[k]
      /\ packed' \in [Kind -> Seq(Byte)]
  <2>1. Over(b, packed[kind]) \in Seq(Byte) /\ packed \in [Kind -> Seq(Byte)]
    BY <1>5 DEF IsBytes, Shapes
  <2>2. QED
    BY <1>3, <2>1
<1>8. \A k \in Kind : IsBytes(packed'[k]) /\ Len(packed[k]) <= Len(packed'[k])
  <2>1. \A k \in Kind : IsBytes(packed[k]) /\ Len(packed[k]) <= Len(packed[k])
    BY DEF TypeOK, IsBytes
  <2>2. QED
    BY <1>5, <1>7, <2>1
<1>9. failed' \in BOOLEAN /\ (~failed' => ~failed /\ config = Saved(kind))
  <2>1. CASE Loads(kind, config)
    <3>1. failed' = failed /\ config = Saved(kind)
      BY <2>1 DEF Loads
    <3>2. failed \in BOOLEAN
      BY DEF TypeOK
    <3>3. QED
      BY <3>1, <3>2, Zenon
  <2>2. CASE LoadFails(kind, config)
    <3>1. failed' = TRUE
      BY <2>2 DEF LoadFails
    <3>2. QED
      BY <3>1, Zenon
  <2>3. QED
    BY <1>3, <2>1, <2>2
<1>10. \A k \in Kind \ {kind} : current'[k] = current[k]
  BY <1>3 DEF Shapes
<1>11. current'[kind] = config
  BY <1>3 DEF Shapes
<1>12. QED
  BY <1>1, <1>2, <1>3, <1>5, <1>6, <1>7, <1>8, <1>9, <1>10, <1>11 DEF b

(* A value is set: it is applied at once or queued, and is the latest.     *)
LEMMA SetsValue ==
    ASSUME TypeOK, Shapes, ValueInv, NEW b, IsBytes(b), SetValue(b)
    PROVE  /\ IsBytes(value') /\ queued' \in Seq(Seq(Byte))
           /\ \A i \in 1..Len(queued') : IsBytes(queued'[i])
           /\ ~deferred => queued' = <<>> /\ value' = b
           /\ Latest' = b
           /\ ~failed /\ Good(b) => Good(value') /\ \A i \in 1..Len(queued') : Good(queued'[i])
<1>1. b \in Seq(Byte) /\ queued \in Seq(Seq(Byte))
  BY DEF IsBytes, Shapes
<1>2. CASE deferred
  <2>1. queued' = Append(queued, b) /\ value' = value
    BY <1>2 DEF SetValue
  <2>2. /\ queued' \in Seq(Seq(Byte)) /\ Len(queued') = Len(queued) + 1
        /\ queued'[Len(queued')] = b /\ queued' # <<>>
        /\ \A i \in 1..Len(queued') : (i \in 1..Len(queued) /\ queued'[i] = queued[i]) \/ queued'[i] = b
    BY <1>1, <2>1
  <2>3. QED
    BY <1>2, <2>1, <2>2 DEF TypeOK, ValueInv, Latest
<1>3. CASE ~deferred
  <2>1. queued' = <<>> /\ value' = b
    BY <1>3 DEF SetValue, ValueInv
  <2>2. Latest' = b
    BY <2>1 DEF Latest
  <2>3. queued' \in Seq(Seq(Byte)) /\ Len(queued') = 0
    BY <1>1, <1>3, <2>1 DEF SetValue
  <2>4. QED
    BY <2>1, <2>2, <2>3
<1>4. QED
  BY <1>2, <1>3 DEF TypeOK
----------------------------------------------------------------------------
(* The callback task.                                                      *)

(* One update, between two steps of the controller, leaves the controller's*)
(* work as it was: it writes the same bytes.                               *)
LEMMA UpdateStep ==
    ASSUME IInv, table, NEW kind \in Kind, NEW config \in Loadable(kind), Update(kind, config),
           UNCHANGED <<table, nvs, deferred, controller>>,
           connected' \in BOOLEAN, answer' = <<>> \/ answer' = value'
    PROVE  IInv'
<1> DEFINE b == Pack(kind, config)
           k == controller.kind
<1>0. TypeOK /\ Shapes /\ WorkInv /\ ValueInv
  BY DEF IInv
<1>1. /\ current' \in [Kind -> Configs] /\ \A j \in Kind : IsConfig(j, current'[j])
      /\ packed' \in [Kind -> Seq(Byte)]
      /\ \A j \in Kind : IsBytes(packed'[j]) /\ Len(packed[j]) <= Len(packed'[j])
      /\ \A j \in Kind \ {kind} : packed'[j] = packed[j] /\ current'[j] = current[j]
      /\ failed' \in BOOLEAN
      /\ IsConfig(kind, config) /\ IsBytes(b)
      /\ SetValue(b)
  BY <1>0, Updates
<1>2. ~failed' => /\ ~failed /\ config = Saved(kind) /\ current'[kind] = config
                  /\ \A i \in 1..Len(b) : packed'[kind][i] = b[i]
  BY <1>0, Updates
<1>3. /\ IsBytes(value') /\ queued' \in Seq(Seq(Byte))
      /\ \A i \in 1..Len(queued') : IsBytes(queued'[i])
      /\ ~deferred => queued' = <<>> /\ value' = b
      /\ Latest' = b
      /\ ~failed /\ Good(b) => Good(value') /\ \A i \in 1..Len(queued') : Good(queued'[i])
  BY <1>0, <1>1, SetsValue
<1>4. Good(b)
  BY <1>1, PackWhole DEF Good
<1> HIDE DEF b
<1>5. IsBytes(<<>>)
  BY PacketsAssumption DEF IsBytes
<1>6. TypeOK'
  BY <1>0, <1>1, <1>3, <1>5 DEF TypeOK
<1>7. Shapes'
  BY <1>0, <1>1, <1>3 DEF Shapes
<1>8. WorkInv'
  <2>1. k \in Kind /\ controller.copied \in Nat /\ controller.copied <= Len(controller.bytes)
    BY <1>0 DEF TypeOK, IsBytes
  <2>2. At("copy") => controller.copied <= Len(packed'[k])
    <3>1. Len(packed[k]) \in Nat /\ Len(packed'[k]) \in Nat /\ Len(packed[k]) <= Len(packed'[k])
      BY <1>0, <1>1, <2>1 DEF TypeOK, IsBytes
    <3>2. QED
      BY <1>0, <2>1, <3>1 DEF WorkInv
  <2>3. Saved(k)' = Saved(k)
    BY DEF Saved
  <2>4. ~failed' /\ At("pack") => current'[k] = Saved(k)
    BY <1>0, <1>1, <1>2, <2>1 DEF WorkInv
  <2>5. ASSUME ~failed', At("copy"), NEW i \in 1..controller.copied
        PROVE  packed'[k][i] = controller.bytes[i]
    <3>1. ~failed /\ controller.bytes = Pack(k, Saved(k)) /\ packed[k][i] = controller.bytes[i]
      BY <1>0, <1>2, <2>5 DEF WorkInv
    <3>2. CASE k = kind
      <4>1. controller.bytes = b
        BY <1>2, <2>5, <3>1, <3>2 DEF b
      <4>2. i \in 1..Len(b)
        BY <2>1, <2>5, <4>1, <1>1 DEF IsBytes
      <4>3. QED
        BY <1>2, <2>5, <3>2, <4>1, <4>2
    <3>3. CASE k # kind
      BY <1>1, <2>1, <3>1, <3>3
    <3>4. QED
      BY <3>2, <3>3
  <2>6. ~failed' /\ At("copy") => controller.bytes = Pack(k, Saved(k))
    BY <1>0, <1>2 DEF WorkInv
  <2>7. /\ At("save") => IsConfig(k, controller.config)
        /\ At("pack") \/ At("copy") => table
    BY <1>0 DEF WorkInv
  <2> HIDE DEF k
  <2>8. k' = k /\ \A place \in {"save", "pack", "copy"} : At(place)' <=> At(place)
    BY DEF At, k
  <2>9. QED
    BY <2>2, <2>3, <2>4, <2>5, <2>6, <2>7, <2>8 DEF WorkInv, At, k
<1>9. ValueInv'
  <2>1. ~failed' => SavedNow(b)'
    BY <1>2 DEF SavedNow, Saved, b
  <2>2. ~failed' => SavedNow(Latest)'
    <3>1. ASSUME ~failed' PROVE \E j \in Kind : Latest' = Pack(j, Saved(j))
      BY <1>2, <1>3, <3>1 DEF b
    <3>2. QED
      BY <3>1 DEF SavedNow, Saved
  <2>3. Good(<<>>)
    BY DEF Good
  <2>4. ~failed' => Good(value') /\ Good(answer') /\ \A i \in 1..Len(queued') : Good(queued'[i])
    BY <1>2, <1>3, <1>4, <2>3
  <2>5. QED
    BY <1>3, <2>2, <2>4 DEF ValueInv
<1>10. QED
  BY <1>6, <1>7, <1>8, <1>9 DEF IInv

(* A step that touches none of what the invariant is about, but perhaps the*)
(* answer, and may connect or bring up the table.                          *)
LEMMA QuietStep ==
    ASSUME IInv, UNCHANGED <<nvs, current, packed, value, queued, deferred, controller, failed>>,
           connected' \in BOOLEAN, table' = table \/ table' = TRUE,
           answer' = answer \/ answer' = <<>>
    PROVE  IInv'
<1>1. IsBytes(<<>>) /\ Good(<<>>)
  BY PacketsAssumption DEF IsBytes, Good
<1>2. TypeOK'
  <2>1. table' \in BOOLEAN
    BY Zenon DEF IInv, TypeOK
  <2>2. QED
    BY <1>1, <2>1 DEF IInv, TypeOK
<1>3. Shapes'
  BY DEF IInv, Shapes
<1>4. WorkInv'
  BY DEF IInv, WorkInv, At, Saved
<1>5. ValueInv'
  BY <1>1 DEF IInv, ValueInv, At, Saved, SavedNow, Latest
<1>6. QED
  BY <1>2, <1>3, <1>4, <1>5 DEF IInv

LEMMA ConnectStep == ASSUME IInv, ConnectEvt PROVE IInv'
<1>0. "lighting" \in Kind
  BY DEF Kind
<1>1. CASE table
  BY <1>0, <1>1, UpdateStep DEF ConnectEvt, NoAnswer
<1>2. CASE ~table
  BY <1>2, QuietStep DEF ConnectEvt, NoAnswer
<1>3. QED
  BY <1>1, <1>2

LEMMA ReadStep == ASSUME IInv, ReadEvt PROVE IInv'
<1>0. "calibration" \in Kind
  BY DEF Kind
<1>1. connected' \in BOOLEAN
  BY DEF ReadEvt, IInv, TypeOK
<1>2. QED
  BY <1>0, <1>1, UpdateStep DEF ReadEvt

(* The stack applies the oldest value; the latest one stays the latest.    *)
LEMMA ApplyStep == ASSUME IInv, Apply PROVE IInv'
<1>1. /\ queued # <<>> /\ queued \in Seq(Seq(Byte))
      /\ value' = Head(queued) /\ queued' = Tail(queued) /\ answer' = <<>>
      /\ UNCHANGED <<table, connected, nvs, current, packed, deferred, controller, failed>>
  BY DEF Apply, NoAnswer, IInv, Shapes
<1>2. /\ Len(queued) \in Nat /\ 1 \in 1..Len(queued) /\ value' = queued[1]
      /\ queued' \in Seq(Seq(Byte)) /\ Len(queued') = Len(queued) - 1
      /\ \A i \in 1..Len(queued') : i + 1 \in 1..Len(queued) /\ queued'[i] = queued[i + 1]
  BY <1>1
<1>3. Latest' = Latest
  <2>1. CASE Len(queued) = 1
    <3>1. queued' = <<>>
      BY <1>2, <2>1
    <3>2. QED
      BY <1>1, <1>2, <2>1, <3>1 DEF Latest
  <2>2. CASE Len(queued) # 1
    <3>1. queued' # <<>> /\ Len(queued') \in 1..Len(queued')
      BY <1>2, <2>2
    <3>2. queued'[Len(queued')] = queued[Len(queued)]
      BY <1>2, <3>1
    <3>3. QED
      BY <1>1, <3>1, <3>2 DEF Latest
  <2>3. QED
    BY <2>1, <2>2
<1>4. IsBytes(<<>>) /\ Good(<<>>)
  BY PacketsAssumption DEF IsBytes, Good
<1>5. TypeOK'
  <2>1. IsBytes(value') /\ \A i \in 1..Len(queued') : IsBytes(queued'[i])
    BY <1>2 DEF IInv, TypeOK
  <2>2. table
    BY <1>1 DEF IInv, TypeOK
  <2>3. QED
    BY <1>1, <1>4, <2>1, <2>2 DEF IInv, TypeOK
<1>6. Shapes'
  BY <1>1, <1>2 DEF IInv, Shapes
<1>7. WorkInv'
  BY <1>1 DEF IInv, WorkInv, At, Saved
<1>8. ValueInv'
  <2>1. ~deferred => queued' = <<>>
    BY <1>1 DEF IInv, ValueInv
  <2>2. ~failed => Good(value') /\ \A i \in 1..Len(queued') : Good(queued'[i])
    BY <1>2 DEF IInv, ValueInv
  <2>3. ~failed /\ (At("idle") \/ At("save")) => Latest' = <<>> \/ SavedNow(Latest)
    BY <1>3 DEF IInv, ValueInv
  <2>4. SavedNow(Latest)' <=> SavedNow(Latest)
    BY <1>1, <1>3 DEF SavedNow, Saved
  <2>5. QED
    BY <1>1, <1>4, <2>1, <2>2, <2>3, <2>4 DEF ValueInv, At
<1>9. QED
  BY <1>5, <1>6, <1>7, <1>8 DEF IInv
----------------------------------------------------------------------------
(* The controller.                                                         *)

Places == {"idle", "save", "load", "pack", "copy"}

Controllers == [at : Places, kind : Kind, config : {None} \cup Configs,
                bytes : Seq(Byte), copied : Nat]

LEMMA ControllerFields ==
    ASSUME IInv
    PROVE  /\ controller \in Controllers /\ controller.kind \in Kind
           /\ controller.bytes \in Seq(Byte) /\ IsBytes(controller.bytes)
           /\ Len(controller.bytes) \in Nat /\ Len(controller.bytes) <= MaxPacket
           /\ controller.copied \in Nat /\ controller.copied <= Len(controller.bytes)
           /\ controller.config \in {None} \cup Configs
BY DEF IInv, TypeOK, Shapes, Controllers, Places, IsBytes

LEMMA IdleController ==
    /\ Idle \in Controllers /\ Idle.at = "idle" /\ Idle.kind \in Kind
    /\ Idle.bytes = <<>> /\ Idle.copied = 0 /\ IsBytes(<<>>) /\ <<>> \in Seq(Byte) /\ Len(<<>>) = 0
BY PacketsAssumption DEF Idle, Controllers, Places, Kind, Configs, IsBytes

(* Of the step, only where the controller is and what it holds matters.    *)
LEMMA LocalStep ==
    ASSUME IInv, UNCHANGED <<table, connected, nvs, current, packed, value, queued, deferred, failed>>,
           answer' = <<>>, controller' \in Controllers,
           IsBytes(controller'.bytes), controller'.copied <= Len(controller'.bytes),
           WorkInv',
           controller'.at \in {"idle", "save"}
              => At("idle") \/ At("save") \/ Latest = <<>> \/ (~failed => SavedNow(Latest))
    PROVE  IInv'
<1>1. IsBytes(<<>>) /\ Good(<<>>)
  BY PacketsAssumption DEF IsBytes, Good
<1>2. TypeOK'
  BY <1>1 DEF IInv, TypeOK, Controllers, Places, IsBytes
<1>3. Shapes'
  BY DEF IInv, Shapes, Controllers, Places
<1>4. ValueInv'
  <2>1. Latest' = Latest /\ (SavedNow(Latest)' <=> SavedNow(Latest))
    BY DEF Latest, SavedNow, Saved
  <2>2. QED
    BY <1>1, <2>1 DEF IInv, ValueInv, At
<1>5. QED
  BY <1>2, <1>3, <1>4 DEF IInv

LEMMA CommandStep ==
    ASSUME IInv, NEW bytes \in Inputs, NEW kind \in Kind, Command(bytes, kind)
    PROVE  IInv'
<1> DEFINE config == Got(kind, bytes)
<1>1. IsConfig(kind, config) /\ config \in Configs
  <2>1. bytes \in Seq(Byte) /\ Gets(kind, bytes)
    BY InputsAssumption DEF Command
  <2>2. IsConfig(kind, config)
    BY <2>1, GotConfig
  <2>3. QED
    BY <2>2, ConfigIn
<1>2. /\ controller' = [Idle EXCEPT !.at = "save", !.kind = kind, !.config = config]
      /\ At("idle") /\ answer' = <<>>
      /\ UNCHANGED <<table, connected, nvs, current, packed, value, queued, deferred, failed>>
  BY DEF Command, NoAnswer, At
<1> HIDE DEF config
<1>3. controller' = [at |-> "save", kind |-> kind, config |-> config, bytes |-> <<>>, copied |-> 0]
  BY <1>2 DEF Idle
<1>4. controller' \in Controllers
  BY <1>1, <1>3, IdleController DEF Controllers, Places
<1>5. IsBytes(controller'.bytes) /\ controller'.copied <= Len(controller'.bytes)
  BY <1>3, IdleController
<1>6. WorkInv'
  BY <1>1, <1>3 DEF WorkInv, At
<1>7. QED
  BY <1>2, <1>4, <1>5, <1>6, LocalStep

LEMMA PackStep == ASSUME IInv, PackLocal PROVE IInv'
<1> DEFINE k == controller.kind
           b == Pack(k, current[k])
<1>1. k \in Kind /\ IsConfig(k, current[k]) /\ controller \in Controllers
  BY ControllerFields DEF IInv, TypeOK
<1>2. b \in Seq(Byte) /\ IsBytes(b)
  BY <1>1, PackBytes DEF IsBytes
<1>3. /\ controller' = [controller EXCEPT !.at = "copy", !.copied = 0, !.bytes = b]
      /\ At("pack") /\ answer' = <<>>
      /\ UNCHANGED <<table, connected, nvs, current, packed, value, queued, deferred, failed>>
  BY DEF PackLocal, NoAnswer
<1> HIDE DEF b
<1>4. /\ controller' \in Controllers
      /\ controller'.at = "copy" /\ controller'.copied = 0 /\ controller'.bytes = b
      /\ controller'.kind = k
  BY <1>1, <1>2, <1>3 DEF Controllers, Places
<1>5. controller'.copied <= Len(controller'.bytes) /\ 0 <= Len(packed[k])
  BY <1>1, <1>2, <1>4 DEF IsBytes, IInv, TypeOK
<1>6. table /\ (~failed => current[k] = Saved(k))
  BY <1>3 DEF IInv, WorkInv
<1>7. WorkInv'
  <2>1. ~failed => b = Pack(k, Saved(k))
    BY <1>6 DEF b
  <2>2. Saved(k)' = Saved(k)
    BY <1>3, <1>4 DEF Saved
  <2>3. \A i \in 1..0 : FALSE
    OBVIOUS
  <2> HIDE DEF k
  <2>4. QED
    BY <1>3, <1>4, <1>5, <1>6, <2>1, <2>2, <2>3 DEF WorkInv, At, Saved
<1>8. QED
  BY <1>2, <1>3, <1>4, <1>5, <1>7, LocalStep

(* Saving: what is readable need not be what is saved until the load.      *)
LEMMA SaveStep == ASSUME IInv, Save \/ SaveFails PROVE IInv'
<1> DEFINE k == controller.kind
<1>1. k \in Kind /\ controller \in Controllers /\ IsConfig(k, controller.config)
  BY ControllerFields DEF IInv, WorkInv, Save, SaveFails
<1>2. controller.config \in Configs
  BY <1>1, ConfigIn
<1>3. /\ answer' = <<>>
      /\ UNCHANGED <<table, connected, current, packed, value, queued, deferred>>
      /\ \/ failed' = failed /\ nvs' = [nvs EXCEPT ![k] = controller.config]
                             /\ controller' = [controller EXCEPT !.at = "load"]
         \/ /\ failed' = TRUE /\ nvs' \in {nvs, [nvs EXCEPT ![k] = controller.config]}
            /\ controller' = Idle \/ controller' = [controller EXCEPT !.at = "load"]
  BY DEF Save, SaveFails, NoAnswer, Goto
<1>4. /\ controller' \in Controllers /\ controller'.at \in {"idle", "load"}
      /\ IsBytes(controller'.bytes) /\ controller'.copied <= Len(controller'.bytes)
  <2>1. CASE controller' = Idle
    BY <2>1, IdleController
  <2>2. CASE controller' = [controller EXCEPT !.at = "load"]
    BY <1>1, <2>2, ControllerFields DEF Controllers, Places
  <2>3. QED
    BY <1>3, <2>1, <2>2
<1>5. /\ nvs' \in [Kind -> {None} \cup Configs]
      /\ \A j \in Kind : nvs'[j] = None \/ IsConfig(j, nvs'[j])
  <2>1. /\ nvs \in [Kind -> {None} \cup Configs]
        /\ \A j \in Kind : nvs[j] = None \/ IsConfig(j, nvs[j])
    BY DEF IInv, TypeOK, Shapes
  <2>2. QED
    BY <1>1, <1>2, <1>3, <2>1
<1>6. failed' \in BOOLEAN /\ (~failed' => ~failed /\ controller'.at = "load")
  <2>1. CASE failed' = TRUE
    BY <2>1, Zenon
  <2>2. CASE failed' = failed /\ controller' = [controller EXCEPT !.at = "load"]
    <3>1. failed \in BOOLEAN
      BY DEF IInv, TypeOK
    <3>2. controller'.at = "load"
      BY <1>1, <2>2 DEF Controllers
    <3>3. QED
      BY <2>2, <3>1, <3>2, Zenon
  <2>3. QED
    BY <1>3, <2>1, <2>2
<1>7. IsBytes(<<>>) /\ Good(<<>>)
  BY PacketsAssumption DEF IsBytes, Good
<1>8. TypeOK'
  BY <1>3, <1>4, <1>5, <1>6, <1>7 DEF IInv, TypeOK, Controllers, Places, IsBytes
<1>9. Shapes'
  BY <1>3, <1>4, <1>5 DEF IInv, Shapes, Controllers, Places
<1>10. WorkInv'
  BY <1>4 DEF WorkInv, At
<1>11. ValueInv'
  BY <1>3, <1>4, <1>6, <1>7 DEF IInv, ValueInv, At
<1>12. QED
  BY <1>8, <1>9, <1>10, <1>11 DEF IInv

LEMMA LoadStep == ASSUME IInv, Load PROVE IInv'
<1> DEFINE k == controller.kind
<1>0. k \in Kind /\ controller \in Controllers
  BY ControllerFields
<1>1. CASE ~table
  <2>1. /\ controller' = Idle /\ answer' = <<>>
        /\ UNCHANGED <<table, connected, nvs, current, packed, value, queued, deferred, failed>>
    BY <1>1 DEF Load, NoAnswer
  <2>2. Latest = <<>>
    BY <1>1 DEF IInv, TypeOK, Latest
  <2>3. WorkInv'
    BY <2>1, IdleController DEF WorkInv, At
  <2>4. /\ controller' \in Controllers /\ IsBytes(controller'.bytes)
        /\ controller'.copied <= Len(controller'.bytes)
    BY <2>1, IdleController
  <2>5. QED
    BY <2>1, <2>2, <2>3, <2>4, LocalStep
<1>2. CASE table
  <2>1. PICK config \in Loadable(k) :
           /\ Loads(k, config) \/ LoadFails(k, config)
           /\ current' = [current EXCEPT ![k] = config]
    BY <1>2 DEF Load
  <2>2. /\ controller' = [controller EXCEPT !.at = "pack"] /\ answer' = <<>> /\ At("load")
        /\ UNCHANGED <<table, connected, nvs, packed, value, queued, deferred>>
    BY <1>2 DEF Load, Goto, NoAnswer
  <2>3. IsConfig(k, config) /\ config \in Configs
    BY <1>0, LoadableConfig, ConfigIn DEF IInv
  <2>4. /\ controller' \in Controllers /\ controller'.at = "pack" /\ controller'.kind = k
        /\ controller'.bytes = controller.bytes /\ controller'.copied = controller.copied
    BY <1>0, <2>2 DEF Controllers, Places
  <2>5. failed' \in BOOLEAN /\ (~failed' => ~failed /\ config = Saved(k))
    <3>1. CASE Loads(k, config)
      <4>1. failed' = failed /\ config = Saved(k) /\ failed \in BOOLEAN
        BY <3>1 DEF Loads, IInv, TypeOK
      <4>2. QED
        BY <4>1, Zenon
    <3>2. CASE LoadFails(k, config)
      <4>1. failed' = TRUE
        BY <3>2 DEF LoadFails
      <4>2. QED
        BY <4>1, Zenon
    <3>3. QED
      BY <2>1, <3>1, <3>2
  <2>6. /\ current' \in [Kind -> Configs] /\ \A j \in Kind : IsConfig(j, current'[j])
        /\ current'[k] = config
    BY <1>0, <2>1, <2>3 DEF IInv, TypeOK, Shapes
  <2>7. IsBytes(<<>>) /\ Good(<<>>)
    BY PacketsAssumption DEF IsBytes, Good
  <2>8. TypeOK'
    BY <2>2, <2>4, <2>5, <2>6, <2>7, ControllerFields DEF IInv, TypeOK, Controllers, Places
  <2>9. Shapes'
    BY <2>2, <2>4, <2>6 DEF IInv, Shapes, Controllers, Places
  <2>10. WorkInv'
    <3>1. Saved(k)' = Saved(k)
      BY <2>2, <2>4 DEF Saved
    <3> HIDE DEF k
    <3>2. QED
      BY <1>2, <2>2, <2>4, <2>5, <2>6, <3>1 DEF WorkInv, At, Saved
  <2>11. ValueInv'
    BY <2>2, <2>4, <2>5, <2>7 DEF IInv, ValueInv, At
  <2>12. QED
    BY <2>8, <2>9, <2>10, <2>11 DEF IInv
<1>3. QED
  BY <1>1, <1>2

(* One byte more of the packet is in the buffer.                           *)
LEMMA CopyByte ==
    ASSUME NEW buffer \in Seq(Byte), NEW bytes \in Seq(Byte), NEW c \in Nat,
           c <= Len(buffer), c + 1 <= Len(bytes), Len(bytes) <= MaxPacket, Len(buffer) <= MaxPacket
    PROVE  LET next == IF c + 1 <= Len(buffer) THEN [buffer EXCEPT ![c + 1] = bytes[c + 1]]
                                               ELSE Append(buffer, bytes[c + 1])
           IN  /\ IsBytes(next) /\ c + 1 <= Len(next)
               /\ next[c + 1] = bytes[c + 1]
               /\ \A i \in 1..c : next[i] = buffer[i]
<1>0. c + 1 \in 1..Len(bytes) /\ bytes[c + 1] \in Byte /\ MaxPacket \in Nat
  BY PacketsAssumption
<1>1. CASE c + 1 <= Len(buffer)
  <2>1. PICK next \in Seq(Byte) : next = [buffer EXCEPT ![c + 1] = bytes[c + 1]]
    <3>1. PICK x \in Byte : x = bytes[c + 1]
      BY <1>0, Zenon
    <3>2. [buffer EXCEPT ![c + 1] = x] \in Seq(Byte)
      BY <1>1
    <3>3. QED
      BY <3>1, <3>2
  <2>2. /\ Len(next) = Len(buffer) /\ next[c + 1] = bytes[c + 1]
        /\ \A i \in 1..c : next[i] = buffer[i]
    BY <1>0, <1>1, <2>1
  <2>3. QED
    BY <1>1, <2>1, <2>2 DEF IsBytes
<1>2. CASE ~(c + 1 <= Len(buffer))
  <2>1. PICK next \in Seq(Byte) : next = Append(buffer, bytes[c + 1])
    <3>1. PICK x \in Byte : x = bytes[c + 1]
      BY <1>0, Zenon
    <3>2. Append(buffer, x) \in Seq(Byte)
      OBVIOUS
    <3>3. QED
      BY <3>1, <3>2
  <2>2. /\ Len(buffer) = c /\ Len(next) = c + 1 /\ next[c + 1] = bytes[c + 1]
        /\ \A i \in 1..c : next[i] = buffer[i]
    BY <1>0, <1>2, <2>1
  <2>3. QED
    BY <1>0, <1>2, <2>1, <2>2 DEF IsBytes
<1>3. QED
  BY <1>1, <1>2

LEMMA CopyStep == ASSUME IInv, Copy PROVE IInv'
<1> DEFINE k == controller.kind
           c == controller.copied
           bytes == controller.bytes
           buffer == packed[k]
           next == IF c + 1 <= Len(buffer) THEN [buffer EXCEPT ![c + 1] = bytes[c + 1]]
                                           ELSE Append(buffer, bytes[c + 1])
<1>0. /\ k \in Kind /\ controller \in Controllers /\ bytes \in Seq(Byte) /\ IsBytes(bytes)
      /\ c \in Nat /\ Len(bytes) <= MaxPacket /\ packed \in [Kind -> Seq(Byte)]
  BY ControllerFields DEF IInv, Shapes
<1>1. /\ At("copy") /\ c + 1 <= Len(bytes)
      /\ packed' = [packed EXCEPT ![k] = next]
      /\ controller' = [controller EXCEPT !.copied = c + 1]
      /\ answer' = <<>>
      /\ UNCHANGED <<table, connected, nvs, current, value, queued, deferred, failed>>
  BY DEF Copy, Buffer, NoAnswer
<1>2. buffer \in Seq(Byte) /\ Len(buffer) <= MaxPacket /\ c <= Len(buffer)
  BY <1>0, <1>1 DEF IInv, TypeOK, IsBytes, WorkInv
<1>3. /\ IsBytes(next) /\ c + 1 <= Len(next)
      /\ next[c + 1] = bytes[c + 1] /\ \A i \in 1..c : next[i] = buffer[i]
  BY <1>0, <1>1, <1>2, CopyByte
<1> HIDE DEF next
<1>4. /\ controller' \in Controllers /\ controller'.at = "copy" /\ controller'.kind = k
      /\ controller'.bytes = bytes /\ controller'.copied = c + 1
  BY <1>0, <1>1 DEF Controllers, Places, At
<1>5. /\ packed' \in [Kind -> Seq(Byte)] /\ packed'[k] = next
      /\ \A j \in Kind : IsBytes(packed'[j])
  <2>1. next \in Seq(Byte) /\ \A j \in Kind : IsBytes(packed[j])
    BY <1>3 DEF IsBytes, IInv, TypeOK
  <2>2. QED
    BY <1>0, <1>1, <1>3, <2>1
<1>6. IsBytes(<<>>) /\ Good(<<>>)
  BY PacketsAssumption DEF IsBytes, Good
<1>7. TypeOK'
  <2>1. c + 1 \in 0..Len(bytes)
    BY <1>0, <1>1
  <2>2. QED
    BY <1>0, <1>1, <1>4, <1>5, <1>6, <2>1 DEF IInv, TypeOK
<1>8. Shapes'
  BY <1>1, <1>4, <1>5 DEF IInv, Shapes, Controllers, Places
<1>9. WorkInv'
  <2>1. table
    BY <1>1 DEF IInv, WorkInv
  <2>2. Saved(k)' = Saved(k)
    BY <1>1, <1>4 DEF Saved
  <2>3. ASSUME ~failed PROVE bytes = Pack(k, Saved(k)) /\ \A i \in 1..c + 1 : next[i] = bytes[i]
    <3>1. bytes = Pack(k, Saved(k)) /\ \A i \in 1..c : buffer[i] = bytes[i]
      BY <1>1, <2>3 DEF IInv, WorkInv
    <3>2. \A i \in 1..c + 1 : i \in 1..c \/ i = c + 1
      BY <1>0
    <3>3. QED
      BY <1>3, <3>1, <3>2
  <2> HIDE DEF k, c, bytes, buffer
  <2>4. QED
    BY <1>1, <1>3, <1>4, <1>5, <2>1, <2>2, <2>3 DEF WorkInv, At, Saved
<1>10. ValueInv'
  BY <1>1, <1>4, <1>6 DEF IInv, ValueInv, At
<1>11. QED
  BY <1>7, <1>8, <1>9, <1>10 DEF IInv

(* The value set is the packet of what is saved, unless NVS failed.        *)
LEMMA SetStep == ASSUME IInv, Set PROVE IInv'
<1> DEFINE k == controller.kind
           bytes == controller.bytes
           b == SubSeq(packed[k], 1, controller.copied)
<1>0. /\ k \in Kind /\ bytes \in Seq(Byte) /\ IsBytes(bytes) /\ packed[k] \in Seq(Byte)
      /\ Len(bytes) \in Nat /\ Len(bytes) <= MaxPacket
  BY ControllerFields DEF IInv, Shapes
<1>1. /\ At("copy") /\ controller.copied = Len(bytes) /\ SetValue(b)
      /\ controller' = Idle /\ answer' = <<>>
      /\ UNCHANGED <<table, connected, nvs, current, packed, deferred, failed>>
  BY DEF Set, Buffer, NoAnswer
<1>2. table /\ Len(bytes) <= Len(packed[k])
  BY <1>1 DEF IInv, WorkInv
<1>3. /\ b \in Seq(Byte) /\ Len(b) = Len(bytes)
      /\ \A i \in 1..Len(bytes) : b[i] = packed[k][i]
  <2>1. PICK s \in Seq(Byte), n \in Nat : s = packed[k] /\ n = Len(bytes) /\ n <= Len(s)
    BY <1>0, <1>2
  <2>2. \A i \in 1..n : s[i] \in Byte
    BY <2>1
  <2>3. /\ SubSeq(s, 1, n) \in Seq(Byte)
        /\ Len(SubSeq(s, 1, n)) = IF 1 <= n THEN n - 1 + 1 ELSE 0
        /\ \A i \in 1..n - 1 + 1 : SubSeq(s, 1, n)[i] = s[1 + i - 1]
    BY <2>2, SubSeqProperties
  <2>4. \A i \in 1..n : i \in 1..n - 1 + 1 /\ 1 + i - 1 = i
    OBVIOUS
  <2>5. b = SubSeq(s, 1, n)
    BY <1>1, <2>1
  <2>6. Len(SubSeq(s, 1, n)) = n /\ \A i \in 1..n : SubSeq(s, 1, n)[i] = s[i]
    BY <2>3, <2>4
  <2>7. QED
    BY <2>1, <2>3, <2>5, <2>6
<1> HIDE DEF b
<1>4. IsBytes(b)
  BY <1>0, <1>3 DEF IsBytes
<1>5. ASSUME ~failed PROVE b = Pack(k, Saved(k)) /\ Good(b)
  <2>1. bytes = Pack(k, Saved(k)) /\ \A i \in 1..Len(bytes) : packed[k][i] = bytes[i]
    BY <1>1, <1>5 DEF IInv, WorkInv
  <2>2. b = bytes
    <3>1. \A i \in 1..Len(bytes) : b[i] = bytes[i]
      BY <1>3, <2>1
    <3>2. QED
      BY <1>0, <1>3, <3>1, SeqEqual
  <2>3. IsConfig(k, Saved(k))
    BY <1>0, SavedConfig DEF IInv
  <2>4. QED
    BY <1>0, <2>1, <2>2, <2>3, PackWhole DEF Good
<1>6. /\ IsBytes(value') /\ queued' \in Seq(Seq(Byte))
      /\ \A i \in 1..Len(queued') : IsBytes(queued'[i])
      /\ ~deferred => queued' = <<>>
      /\ Latest' = b
      /\ ~failed => Good(value') /\ \A i \in 1..Len(queued') : Good(queued'[i])
  BY <1>1, <1>4, <1>5, SetsValue DEF IInv
<1>7. Good(<<>>)
  BY DEF Good
<1>8. TypeOK'
  BY <1>1, <1>2, <1>6, IdleController DEF IInv, TypeOK
<1>9. Shapes'
  BY <1>1, <1>6, IdleController DEF IInv, Shapes, Controllers, Places
<1>10. WorkInv'
  BY <1>1, IdleController DEF WorkInv, At
<1>11. ValueInv'
  <2>1. ~failed => SavedNow(Latest)'
    <3>1. ASSUME ~failed PROVE \E j \in Kind : Latest' = Pack(j, Saved(j))
      BY <1>0, <1>5, <1>6, <3>1
    <3>2. QED
      BY <1>1, <3>1 DEF SavedNow, Saved
  <2>2. QED
    BY <1>1, <1>6, <1>7, <2>1 DEF ValueInv
<1>12. QED
  BY <1>8, <1>9, <1>10, <1>11 DEF IInv
----------------------------------------------------------------------------
LEMMA InitInv == Init => IInv
<1> SUFFICES ASSUME Init PROVE IInv
  OBVIOUS
<1>1. \A k \in Kind : IsConfig(k, Default(k)) /\ Default(k) \in Configs
  BY DefaultConfig, ConfigIn
<1>2. IsBytes(<<>>) /\ Good(<<>>) /\ Len(<<>>) = 0 /\ <<>> \in Seq(Seq(Byte))
  BY PacketsAssumption DEF IsBytes, Good
<1>3. TypeOK
  <2>1. table \in BOOLEAN /\ connected \in BOOLEAN /\ deferred \in BOOLEAN /\ failed \in BOOLEAN
    BY DEF Init
  <2>2. QED
    BY <1>1, <1>2, <2>1, IdleController DEF Init, TypeOK
<1>4. Shapes
  BY <1>1, <1>2, IdleController DEF Init, Shapes, Controllers, Places
<1>5. WorkInv
  BY IdleController DEF Init, WorkInv, At
<1>6. ValueInv
  BY <1>2 DEF Init, ValueInv, Latest
<1>7. QED
  BY <1>3, <1>4, <1>5, <1>6 DEF IInv

LEMMA StepInv == IInv /\ [Next]_vars => IInv'
<1> SUFFICES ASSUME IInv, [Next]_vars PROVE IInv'
  OBVIOUS
<1>1. CASE TableEvt \/ DisconnectEvt
  <2>1. connected' \in BOOLEAN
    BY <1>1 DEF TableEvt, DisconnectEvt, IInv, TypeOK
  <2>2. QED
    BY <1>1, <2>1, QuietStep DEF TableEvt, DisconnectEvt, NoAnswer
<1>2. CASE UNCHANGED vars
  BY <1>2, QuietStep DEF vars, IInv, TypeOK
<1>3. CASE \E bytes \in Inputs, kind \in Kind : Command(bytes, kind)
  BY <1>3, CommandStep
<1>4. QED
  BY <1>1, <1>2, <1>3, ConnectStep, ReadStep, ApplyStep, SaveStep, LoadStep, PackStep,
     CopyStep, SetStep DEF Next

THEOREM Invariance == Spec => []IInv
BY InitInv, StepInv, PTL DEF Spec

(* Every buffer and every value stays within a packet's size, whatever is  *)
(* written (controller.c:189-363).                                         *)
THEOREM TypeCorrect == Spec => []TypeOK
<1>1. IInv => TypeOK
  BY DEF IInv
<1>2. QED
  BY <1>1, Invariance, PTL

(* As long as NVS does not fail, nothing torn is ever readable, wherever   *)
(* the callback task cuts into the controller's update                     *)
(* (controller.c:189-363).                                                 *)
THEOREM ReadsWhole == Spec => []NeverTorn
<1>1. IInv => NeverTorn
  BY DEF IInv, ValueInv, NeverTorn, Good
<1>2. QED
  BY <1>1, Invariance, PTL

(* When nothing is under way, ABF2 shows what is saved now                 *)
(* (controller.c:370-486).                                                 *)
THEOREM ShowsSaved == Spec => []Converges
<1>1. IInv => Converges
  BY DEF IInv, ValueInv, Converges, Latest, SavedNow
<1>2. QED
  BY <1>1, Invariance, PTL

(* A read answers the calibration that is saved, whatever the controller is *)
(* doing, if the stack applies values at once (ble.c:622-628).             *)
THEOREM ReadShowsCalibration == Spec => ReadsCalibration
<1>1. ASSUME ReadEvt, ~deferred, ~failed'
      PROVE  answer' = Pack("calibration", Saved("calibration"))
  <2>1. PICK config \in Loadable("calibration") : Update("calibration", config)
    BY <1>1 DEF ReadEvt
  <2>2. config = Saved("calibration")
    BY <1>1, <2>1 DEF Update, Loads, LoadFails
  <2>3. value' = Pack("calibration", config) /\ answer' = value'
    BY <1>1, <2>1 DEF Update, SetValue, ReadEvt
  <2>4. QED
    BY <2>2, <2>3
<1>2. [Next]_vars => [ReadEvt /\ ~deferred /\ ~failed'
                         => answer' = Pack("calibration", Saved("calibration"))]_vars
  BY <1>1
<1>3. QED
  BY <1>2, PTL DEF Spec, ReadsCalibration
=============================================================================
