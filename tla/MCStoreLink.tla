---------------------------- MODULE MCStoreLink ----------------------------
(* A STORE takes two frames, a LIST answer two of the default MTU, and     *)
(* everything else one.                                                    *)
EXTENDS StoreLink

MCPayload == 0..MaxAsk
MCSize == [p \in MCPayload |-> 1]
MCChunksOf == [op \in Opcode |-> IF op = STORE THEN 2 ELSE 1]
MCFramesOf == [mtu \in Mtu |-> [op \in Opcode |-> IF op = LIST /\ mtu = "small" THEN 2 ELSE 1]]

(* Frame sizes have nothing to do with the clock and the other commands.   *)
ExchangeAlone == spent.mtu = 0 \/ spent.other + now = 0
============================================================================
