--------------------------- MODULE StoreTransport ---------------------------
(***************************************************************************)
(* What the store transport promises, without its registers: the outcome   *)
(* of a frame is a function of the frames processed since the latest chunk *)
(* 0 (docs/ble-protocol.md, 5 and 7.6).  A request reaches dispatch() when *)
(* those frames are exactly the chunks of one transfer, in order, none     *)
(* later than the timeout and all of them within the buffer; and then it   *)
(* does, with their payloads in their order.                               *)
(***************************************************************************)
EXTENDS StoreFrames

VARIABLES
    now,        \* the device's clock
    seen,       \* the well-formed frames since the latest chunk 0 or reset
    outcome     \* what became of the frame processed last

absVars == <<now, seen, outcome>>

Entry == [frame : Frame, at : Nat, total : Nat]

(* One more frame of the history, with the bytes received so far.          *)
Entered(s, f, t) ==
    [frame |-> f, at |-> t,
     total |-> Size[f.payload] + (IF s = <<>> THEN 0 ELSE s[Len(s)].total)]

Collect(s, f, t) ==
    IF f.index = 0 THEN <<Entered(<<>>, f, t)>> ELSE Append(s, Entered(s, f, t))

SameTransfer(f, g) == f.corr = g.corr /\ f.opcode = g.opcode /\ f.count = g.count

(* The frames are the first chunks of one transfer, each in its turn.      *)
InOrder(s) ==
    /\ s # <<>>
    /\ \A i \in 1..Len(s) :
          /\ s[i].frame.index = i - 1
          /\ SameTransfer(s[i].frame, s[1].frame)
          /\ s[i].total <= Capacity
          /\ i > 1 => s[i].at - s[i-1].at <= Timeout

Pending(s) == InOrder(s) /\ Len(s) < s[1].frame.count
Whole(s)   == InOrder(s) /\ Len(s) = s[1].frame.count

Body(s) == [i \in 1..Len(s) |-> s[i].frame.payload]

(* Why a frame that no transfer can use is refused, given the history s it *)
(* came after.                                                             *)
Refusal(s, f, t) ==
    IF f.index # 0 /\ (~Pending(s) \/ t - s[Len(s)].at > Timeout)
    THEN "NO_ACTIVE_TRANSFER"
    ELSE IF f.index # 0 /\ (f.index # Len(s) \/ ~SameTransfer(f, s[1].frame))
         THEN "CHUNK_OUT_OF_ORDER"
         ELSE "TOO_LARGE"
----------------------------------------------------------------------------
Init == now = 0 /\ seen = <<>> /\ outcome = Dropped

Tick == now' = now + 1 /\ UNCHANGED <<seen, outcome>>

Ignore == /\ \/ outcome' = Dropped
             \/ \E c \in Corr : outcome' = Reply(c, "MALFORMED_REQUEST")
          /\ UNCHANGED <<now, seen>>

Receive(f) ==
    /\ WellFormed(f)
    /\ seen' = Collect(seen, f, now)
    /\ \/ Pending(seen') /\ outcome' = Kept
       \/ Whole(seen') /\ outcome' = Dispatch(f.corr, f.opcode, Body(seen'))
       \/ ~InOrder(seen') /\ outcome' = Reply(f.corr, Refusal(seen, f, now))
    /\ UNCHANGED now

Forget == seen' = <<>> /\ UNCHANGED <<now, outcome>>

Next == Tick \/ Ignore \/ Forget \/ \E f \in Frame : Receive(f)

Spec == Init /\ [][Next]_absVars
============================================================================
