-------------------------- MODULE MCStoreTransfers --------------------------
(* Transfers of one to three chunks from two correlation ids, payloads of  *)
(* one and two bytes, a buffer that three chunks can overflow, a clock that*)
(* can pass the timeout, and a malformed frame of each shape.              *)
EXTENDS StoreTransfers

MCPayload == {"small", "large"}
MCSize == [p \in MCPayload |-> IF p = "small" THEN 1 ELSE 2]

MCInputs == {f \in Frame : /\ WellFormed(f) \/ (f.index = f.count /\ f.count < 2)
                           /\ f.corr = 0 \/ f.payload = "small"}
============================================================================
