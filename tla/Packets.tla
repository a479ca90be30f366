-------------------------------- MODULE Packets --------------------------------
(***************************************************************************)
(* The wire formats of lighting, servo calibration and animation mode      *)
(* (main/types/ble_packet_types.h and what it calls): what a client writes *)
(* to ABF1 and reads from ABF2, as sequences of bytes.                     *)
(***************************************************************************)
EXTENDS Integers, Sequences

CONSTANTS
    MaxPacket,      \* BLE_PACKET_MAX_SIZE, 512
    MaxColors,      \* MAX_LIGHTING_COLORS, 32
    LightingModes   \* NUM_LIGHTING_MODES, 5

(* Every configuration fits a packet.                                      *)
ASSUME PacketsAssumption == /\ MaxColors \in 1..255 /\ LightingModes \in 1..256
                            /\ MaxPacket \in Nat /\ MaxPacket >= 9
                            /\ MaxPacket >= 4 + 3 * MaxColors

Byte  == 0..255
Int16 == {w \in Int : -32768 <= w /\ w < 32768}
Color == Byte \X Byte \X Byte

(* data_type_t, and the types that carry a configuration.                  *)
DataType == 1..6
Kind     == {"lighting", "calibration", "mode"}
TypeOf   == [lighting |-> 2, calibration |-> 3, mode |-> 4]

(* Configurations: the four offsets of a calibration and the two fields of *)
(* a mode are 16-bit words.                                                *)
Lighting    == {l \in [mode : Byte, speed : Byte, colors : Seq(Color)] :
                   Len(l.colors) <= MaxColors}
Calibration == [1..4 -> Int16]
Mode        == [1..2 -> Int16]

IsConfig(kind, c) == CASE kind = "lighting"    -> c \in Lighting
                       [] kind = "calibration" -> c \in Calibration
                       [] kind = "mode"        -> c \in Mode
----------------------------------------------------------------------------
(* data_packet_unpack().                                                   *)
Unpacks(bytes) == Len(bytes) \in 1..MaxPacket /\ bytes[1] \in DataType

Data(bytes) == Tail(bytes)

(* Big-endian two's complement.                                            *)
High(w) == (w % 65536) \div 256
Low(w)  == w % 256

Word(h, l) == IF h < 128 THEN h * 256 + l ELSE h * 256 + l - 65536

BytesOf(words) == [i \in 1..2 * Len(words) |-> IF i % 2 = 1 THEN High(words[(i + 1) \div 2])
                                                            ELSE Low(words[i \div 2])]

WordsOf(data) == [i \in 1..Len(data) \div 2 |-> Word(data[2 * i - 1], data[2 * i])]

(* lighting_data_serialize() and lighting_data_deserialize(): bytes behind *)
(* the last colour are ignored.                                            *)
LightingBytes(l) ==
    [i \in 1..3 + 3 * Len(l.colors) |->
        CASE i = 1 -> l.mode
          [] i = 2 -> l.speed
          [] i = 3 -> Len(l.colors)
          [] OTHER -> l.colors[(i - 1) \div 3][((i - 1) % 3) + 1]]

LightingFrom(data) ==
    [mode |-> data[1], speed |-> data[2],
     colors |-> [i \in 1..data[3] |-> <<data[3 * i + 1], data[3 * i + 2], data[3 * i + 3]>>]]
----------------------------------------------------------------------------
(* data_packet_pack_lighting() and the like, then data_packet_pack().      *)
Pack(kind, config) == <<TypeOf[kind]>> \o (IF kind = "lighting" THEN LightingBytes(config)
                                                                ELSE BytesOf(config))

(* The length of the data is not looked at.                                *)
GetsAnyLength(kind, bytes) ==
    /\ Unpacks(bytes) /\ bytes[1] = TypeOf[kind]
    /\ kind = "lighting" => /\ Len(Data(bytes)) >= 3
                            /\ Data(bytes)[3] <= MaxColors
                            /\ Len(Data(bytes)) >= 3 + 3 * Data(bytes)[3]

(* data_packet_get_lighting() and the like: what they accept ...           *)
Gets(kind, bytes) ==
    /\ Unpacks(bytes) /\ bytes[1] = TypeOf[kind]
    /\ CASE kind = "lighting"    -> /\ Len(Data(bytes)) >= 3
                                    /\ Data(bytes)[3] <= MaxColors
                                    /\ Len(Data(bytes)) >= 3 + 3 * Data(bytes)[3]
         [] kind = "calibration" -> Len(Data(bytes)) = 8
         [] kind = "mode"        -> Len(Data(bytes)) = 4

(* ... and what they give.                                                 *)
Got(kind, bytes) == IF kind = "lighting" THEN LightingFrom(Data(bytes)) ELSE WordsOf(Data(bytes))
=============================================================================
