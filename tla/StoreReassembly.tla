-------------------------- MODULE StoreReassembly --------------------------
(***************************************************************************)
(* The request reassembly of main/store.c: the file-scope registers        *)
(* request_*, store_process_request() up to its call of dispatch(), and    *)
(* store_reset().  Both run on the controller task only, so each call is   *)
(* one step.  The module is open: the caller supplies the frame, the time  *)
(* esp_timer_get_time() returns and whether ABF2 is subscribed.            *)
(***************************************************************************)
EXTENDS StoreFrames

VARIABLES
    xfer,       \* the request_* registers
    outcome     \* what became of the last frame; the caller acts on it

regs == <<xfer, outcome>>

(* The bytes request_buffer[0..request_len-1] are the sequence buffer.     *)
Transfer == [corr : Corr, opcode : Opcode, count : 0..MaxChunks,
             next : 0..MaxChunks, len : 0..Capacity, last : Nat,
             buffer : Seq(Payload)]

TypeOK == xfer \in Transfer /\ outcome \in Outcome

(* Static storage: every register is zero, no transfer is active.          *)
Init == /\ xfer = [corr |-> 0, opcode |-> 0, count |-> 0, next |-> 0,
                   len |-> 0, last |-> 0, buffer |-> <<>>]
        /\ outcome = Dropped

Active(x) == x.count > 0

(* A reset that forgets the index of the next chunk.                       *)
ClearedKeepsNext(x) == [x EXCEPT !.count = 0, !.len = 0, !.buffer = <<>>]

(* store_reset(): corr, opcode and the time stamp keep their old values.   *)
Cleared(x) == [x EXCEPT !.count = 0, !.next = 0, !.len = 0, !.buffer = <<>>]

(* The transfer as the frame at time t finds it: gone once the timeout has *)
(* passed since its last chunk.                                            *)
Current(x, t) == IF Active(x) /\ t - x.last > Timeout THEN Cleared(x) ELSE x

(* Chunk 0 takes the registers over, whatever was in flight.               *)
Started(x, f) == [Cleared(x) EXCEPT !.corr = f.corr, !.opcode = f.opcode,
                                    !.count = f.count]

(* A chunk of the transfer, whichever it is.                               *)
MatchesAnyIndex(x, f) == /\ f.corr = x.corr
                         /\ f.opcode = x.opcode
                         /\ f.count = x.count

Matches(x, f) == /\ f.corr = x.corr
                 /\ f.opcode = x.opcode
                 /\ f.count = x.count
                 /\ f.index = x.next

FitsOffByOne(x, f) == x.len + Size[f.payload] <= Capacity + 1

Fits(x, f) == x.len + Size[f.payload] <= Capacity

Appended(x, f, t) ==
    [corr |-> x.corr, opcode |-> x.opcode, count |-> x.count,
     next |-> x.next + 1, len |-> x.len + Size[f.payload], last |-> t,
     buffer |-> Append(x.buffer, f.payload)]
----------------------------------------------------------------------------
(* ABF2 is not subscribed: nothing is read from the frame.                 *)
DropUnsubscribed == /\ outcome' = Dropped
                    /\ UNCHANGED xfer

(* Fewer bytes than a header: the first byte, if any, is echoed as corr.   *)
RejectShort == /\ \/ outcome' = Dropped
                  \/ \E c \in Corr : outcome' = Reply(c, "MALFORMED_REQUEST")
               /\ UNCHANGED xfer

RejectMalformed(f) == /\ ~WellFormed(f)
                      /\ outcome' = Reply(f.corr, "MALFORMED_REQUEST")
                      /\ UNCHANGED xfer

RejectNoTransfer(f, t) ==
    /\ WellFormed(f)
    /\ f.index # 0
    /\ ~Active(Current(xfer, t))
    /\ xfer' = Current(xfer, t)
    /\ outcome' = Reply(f.corr, "NO_ACTIVE_TRANSFER")

RejectOutOfOrder(f, t) ==
    /\ WellFormed(f)
    /\ f.index # 0
    /\ Active(Current(xfer, t))
    /\ ~Matches(xfer, f)
    /\ xfer' = Cleared(xfer)
    /\ outcome' = Reply(f.corr, "CHUNK_OUT_OF_ORDER")

(* The registers a chunk that belongs to a transfer is appended to.        *)
Receiving(x, f, t) ==
    IF f.index = 0 THEN Started(x, f) ELSE Current(x, t)

Belongs(f, t) ==
    /\ WellFormed(f)
    /\ f.index = 0 \/ (Active(Current(xfer, t)) /\ Matches(xfer, f))

RejectTooLarge(f, t) ==
    /\ Belongs(f, t)
    /\ ~Fits(Receiving(xfer, f, t), f)
    /\ xfer' = Cleared(Receiving(xfer, f, t))
    /\ outcome' = Reply(f.corr, "TOO_LARGE")

KeepChunk(f, t) ==
    LET x == Appended(Receiving(xfer, f, t), f, t) IN
    /\ Belongs(f, t)
    /\ Fits(Receiving(xfer, f, t), f)
    /\ x.next < x.count
    /\ xfer' = x
    /\ outcome' = Kept

(* The last chunk: the registers are cleared before dispatch() reads the   *)
(* buffer, which store_reset() leaves in place.                            *)
CompleteRequest(f, t) ==
    LET x == Appended(Receiving(xfer, f, t), f, t) IN
    /\ Belongs(f, t)
    /\ Fits(Receiving(xfer, f, t), f)
    /\ x.next >= x.count
    /\ xfer' = Cleared(x)
    /\ outcome' = Dispatch(f.corr, f.opcode, x.buffer)

(* store_process_request() for a subscribed client and a whole header.     *)
ProcessFrame(f, t) == \/ RejectMalformed(f)
                      \/ RejectNoTransfer(f, t)
                      \/ RejectOutOfOrder(f, t)
                      \/ RejectTooLarge(f, t)
                      \/ KeepChunk(f, t)
                      \/ CompleteRequest(f, t)

(* CMD_TYPE_STORE_RESET.                                                   *)
StoreReset == xfer' = Cleared(xfer) /\ UNCHANGED outcome
============================================================================
