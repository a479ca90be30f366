-------------------------- MODULE StoreTransfers ---------------------------
(***************************************************************************)
(* StoreReassembly under every order of frames, delays, resets and         *)
(* subscription changes the controller task can see, with the history that *)
(* StoreTransport is written in.                                           *)
(***************************************************************************)
EXTENDS StoreReassembly

CONSTANTS
    Inputs,     \* the frames clients write
    MaxTime,    \* bound: ticks of the clock
    MaxSeen     \* bound: frames of a history that a frame can follow

ASSUME InputsAssumption == Inputs \subseteq Frame

VARIABLES
    now,        \* esp_timer_get_time(), in ticks
    seen        \* history: the well-formed frames since chunk 0 or a reset

vars == <<xfer, outcome, now, seen>>

(* The promise is read on these states as they are: the registers drop out.*)
Promise == INSTANCE StoreTransport WITH now <- now, seen <- seen, outcome <- outcome

StoreInit == Init /\ now = 0 /\ seen = <<>>

Tick == now < MaxTime /\ now' = now + 1 /\ UNCHANGED <<xfer, outcome, seen>>

(* store_process_request() on a frame with a header.                       *)
Frames(f) ==
    /\ WellFormed(f) /\ f.index # 0 => Len(seen) < MaxSeen
    /\ ProcessFrame(f, now)
    /\ seen' = IF WellFormed(f) THEN Promise!Collect(seen, f, now) ELSE seen
    /\ UNCHANGED now

Unread == (DropUnsubscribed \/ RejectShort) /\ UNCHANGED <<now, seen>>

Reset == StoreReset /\ seen' = <<>> /\ UNCHANGED now

Next == Tick \/ Unread \/ Reset \/ \E f \in Inputs : Frames(f)

Spec == StoreInit /\ [][Next]_vars
----------------------------------------------------------------------------
StoreTypeOK == /\ TypeOK
               /\ now \in Nat
               /\ seen \in Seq(Promise!Entry)

(* The registers hold exactly the pending transfer the history defines,    *)
(* and nothing when the history is no beginning of a transfer: a frame of  *)
(* another transfer, a gap or a stale chunk never leaves a half that a     *)
(* later chunk can complete (store.c:487-541).                             *)
RegistersMatchHistory ==
    /\ Active(xfer) <=> Promise!Pending(seen)
    /\ Active(xfer) =>
         /\ xfer.buffer = Promise!Body(seen)
         /\ xfer.next = Len(seen)
         /\ xfer.len = seen[Len(seen)].total
         /\ xfer.last = seen[Len(seen)].at
         /\ Promise!SameTransfer(xfer, seen[1].frame)
    /\ ~Active(xfer) => xfer.next = 0 /\ xfer.len = 0 /\ xfer.buffer = <<>>

(* A request that reaches a handler is one transfer, whole, in order and   *)
(* timely; such a transfer always reaches it, whatever came before it; and *)
(* every other frame is refused with the status its history calls for.     *)
RefinesPromise == Promise!Spec
============================================================================
