---------------------------- MODULE StoreFrames ----------------------------
(***************************************************************************)
(* The frames of the 0x06 animation-store requests and what the transport  *)
(* of main/store.c can answer to one of them.  Payload bytes are abstract: *)
(* a payload is a value with a size, and a request body is the sequence of *)
(* the payloads it was assembled from.                                     *)
(***************************************************************************)
EXTENDS Integers, Sequences

CONSTANTS
    Corr,       \* correlation ids a client can choose (uint8_t)
    Opcode,     \* sub-opcodes a frame can name (uint8_t)
    Payload,    \* payloads one frame can carry
    Size,       \* Size[p]: how many bytes payload p takes
    MaxChunks,  \* largest chunk_count and chunk_index of a frame (255)
    Capacity,   \* sizeof(request_buffer), 819
    Timeout     \* STORE_CHUNK_TIMEOUT_US, in ticks of the model's clock

ASSUME ByteAssumption == 0 \in Corr /\ 0 \in Opcode
ASSUME SizeAssumption == Size \in [Payload -> Nat]
ASSUME BoundsAssumption == MaxChunks \in Nat /\ Capacity \in Nat /\ Timeout \in Nat

Frame == [corr : Corr, opcode : Opcode, index : 0..MaxChunks,
          count : 0..MaxChunks, payload : Payload]

(* chunk_count == 0 || chunk_index >= chunk_count is answered as malformed. *)
WellFormed(f) == f.count > 0 /\ f.index < f.count

TransportStatus == {"MALFORMED_REQUEST", "NO_ACTIVE_TRANSFER",
                    "CHUNK_OUT_OF_ORDER", "TOO_LARGE"}

(* What the transport did with the frame it processed last: dropped it     *)
(* unread, kept it as one more chunk, answered it, or passed a complete    *)
(* request to dispatch().                                                  *)
Dropped == [kind |-> "dropped"]
Kept    == [kind |-> "kept"]
Reply(c, s) == [kind |-> "reply", corr |-> c, status |-> s]
Dispatch(c, op, b) == [kind |-> "dispatch", corr |-> c, opcode |-> op, body |-> b]

Outcome == {Dropped, Kept}
           \cup [kind : {"reply"}, corr : Corr, status : TransportStatus]
           \cup [kind : {"dispatch"}, corr : Corr, opcode : Opcode, body : Seq(Payload)]
============================================================================
