----------------------- MODULE StoreTransfers_proofs -----------------------
(***************************************************************************)
(* For every frame set, buffer size, timeout and bound: the registers of   *)
(* the reassembly stay in type, they agree with the history, and the       *)
(* reassembly implements StoreTransport.                                   *)
(***************************************************************************)
EXTENDS StoreTransfers, SequenceTheorems, TLAPS

(* An entry that joins a history is an entry.                              *)
LEMMA EnteredType ==
    ASSUME NEW s \in Seq(Promise!Entry), NEW f \in Frame, NEW t \in Nat
    PROVE  /\ Promise!Entered(s, f, t) \in Promise!Entry
           /\ Promise!Collect(s, f, t) \in Seq(Promise!Entry)
           /\ Promise!Collect(s, f, t) # <<>>
<1>1. Size[f.payload] \in Nat
  BY SizeAssumption DEF Frame
<1>2. s # <<>> => s[Len(s)] \in Promise!Entry
  OBVIOUS
<1>3. (IF s = <<>> THEN 0 ELSE s[Len(s)].total) \in Nat
  BY <1>2 DEF Promise!Entry
<1>4. /\ Promise!Entered(s, f, t) \in Promise!Entry
      /\ Promise!Entered(<<>>, f, t) \in Promise!Entry
  <2>1. f \in Promise!Frame
    BY DEF Promise!Frame, Frame
  <2>2. QED
    BY <1>1, <1>3, <2>1 DEF Promise!Entered, Promise!Entry
<1>5. ASSUME NEW e \in Promise!Entry
      PROVE  /\ <<e>> \in Seq(Promise!Entry) /\ <<e>> # <<>>
             /\ Append(s, e) \in Seq(Promise!Entry) /\ Append(s, e) # <<>>
  <2>1. <<e>> \in Seq(Promise!Entry) /\ Len(<<e>>) = 1
    OBVIOUS
  <2>2. Append(s, e) \in Seq(Promise!Entry) /\ Len(Append(s, e)) = Len(s) + 1
    OBVIOUS
  <2>3. Len(<<>>) = 0 /\ Len(s) + 1 # 0
    OBVIOUS
  <2>4. QED
    BY <2>1, <2>2, <2>3
<1>6. QED
  BY <1>4, <1>5 DEF Promise!Collect

(* A history with one more entry is in order exactly when it was, and the  *)
(* entry is the next chunk of the same transfer, in time and in bounds.    *)
LEMMA InOrderAppend ==
    ASSUME NEW s \in Seq(Promise!Entry), s # <<>>, NEW e \in Promise!Entry
    PROVE  Promise!InOrder(Append(s, e)) <=>
             /\ Promise!InOrder(s)
             /\ e.frame.index = Len(s)
             /\ Promise!SameTransfer(e.frame, s[1].frame)
             /\ e.total <= Capacity
             /\ e.at - s[Len(s)].at <= Timeout
<1> DEFINE a == Append(s, e)
<1>1. /\ Len(s) \in Nat \ {0} /\ Len(a) = Len(s) + 1 /\ a # <<>>
      /\ a[Len(s) + 1] = e /\ \A i \in 1..Len(s) : a[i] = s[i]
  OBVIOUS
<1>2. a[1] = s[1] /\ a[Len(s)] = s[Len(s)]
  BY <1>1
<1>3. ASSUME Promise!InOrder(a)
      PROVE  /\ Promise!InOrder(s)
             /\ e.frame.index = Len(s)
             /\ Promise!SameTransfer(e.frame, s[1].frame)
             /\ e.total <= Capacity
             /\ e.at - s[Len(s)].at <= Timeout
  <2> HIDE DEF a
  <2>1. \A i \in 1..Len(s) : i \in 1..Len(a) /\ (i > 1 => i - 1 \in 1..Len(s))
    BY <1>1
  <2>2. Promise!InOrder(s)
    BY <1>1, <1>2, <1>3, <2>1 DEF Promise!InOrder
  <2>3. Len(s) + 1 \in 1..Len(a) /\ Len(s) + 1 > 1 /\ (Len(s) + 1) - 1 = Len(s)
    BY <1>1
  <2>4. QED
    BY <1>1, <1>2, <1>3, <2>2, <2>3 DEF Promise!InOrder
<1>4. ASSUME Promise!InOrder(s), e.frame.index = Len(s),
             Promise!SameTransfer(e.frame, s[1].frame),
             e.total <= Capacity, e.at - s[Len(s)].at <= Timeout
      PROVE  Promise!InOrder(a)
  <2> SUFFICES ASSUME NEW i \in 1..Len(a)
               PROVE  /\ a[i].frame.index = i - 1
                      /\ Promise!SameTransfer(a[i].frame, a[1].frame)
                      /\ a[i].total <= Capacity
                      /\ i > 1 => a[i].at - a[i-1].at <= Timeout
    BY <1>1 DEF Promise!InOrder
  <2> HIDE DEF a
  <2>1. CASE i = Len(s) + 1
    BY <1>1, <1>2, <1>4, <2>1
  <2>2. CASE i # Len(s) + 1
    <3>1. i \in 1..Len(s) /\ a[i] = s[i] /\ (i > 1 => a[i-1] = s[i-1])
      BY <1>1, <2>2
    <3>2. QED
      BY <1>2, <1>4, <3>1 DEF Promise!InOrder
  <2>3. QED
    BY <2>1, <2>2
<1>5. QED
  BY <1>3, <1>4

(* The body of a longer history is the body with one more payload.         *)
LEMMA BodyAppend ==
    ASSUME NEW s \in Seq(Promise!Entry), NEW e \in Promise!Entry
    PROVE  /\ Promise!Body(s) \in Seq(Payload)
           /\ Promise!Body(Append(s, e)) = Append(Promise!Body(s), e.frame.payload)
           /\ Promise!Body(<<e>>) = <<e.frame.payload>>
<1>1. \A i \in 1..Len(s) : s[i].frame.payload \in Payload
  <2>1. \A i \in 1..Len(s) : s[i] \in Promise!Entry
    OBVIOUS
  <2>2. QED
    BY <2>1 DEF Promise!Entry, Promise!Frame
<1>2. e.frame.payload \in Payload
  BY DEF Promise!Entry, Promise!Frame
<1>3. Promise!Body(s) \in Seq(Payload) /\ Len(Promise!Body(s)) = Len(s)
  BY <1>1 DEF Promise!Body
<1>4. Promise!Body(Append(s, e)) = Append(Promise!Body(s), e.frame.payload)
  BY <1>2, <1>3 DEF Promise!Body
<1>5. Promise!Body(<<e>>) = <<e.frame.payload>>
  BY DEF Promise!Body
<1>6. QED
  BY <1>3, <1>4, <1>5
----------------------------------------------------------------------------
(* The inductive invariant: the types, and the registers against history.  *)
IInv == StoreTypeOK /\ RegistersMatchHistory

(* A history that starts over is in order when its one chunk fits.         *)
LEMMA InOrderFirst ==
    ASSUME NEW f \in Frame, f.index = 0, NEW t \in Nat
    PROVE  LET c == <<Promise!Entered(<<>>, f, t)>> IN
           /\ Promise!InOrder(c) <=> Size[f.payload] <= Capacity
           /\ Len(c) = 1 /\ c[1].total = Size[f.payload]
           /\ c[1].at = t /\ c[1].frame = f
<1> DEFINE e == Promise!Entered(<<>>, f, t)
<1> DEFINE c == <<e>>
<1>1. Size[f.payload] \in Nat
  BY SizeAssumption DEF Frame
<1>2. e.total = Size[f.payload] /\ e.at = t /\ e.frame = f
  BY <1>1 DEF Promise!Entered
<1> HIDE DEF e
<1>3. Len(c) = 1 /\ c[1] = e /\ c # <<>>
  OBVIOUS
<1> HIDE DEF c
<1>4. Promise!InOrder(c) <=> Size[f.payload] <= Capacity
  BY <1>2, <1>3 DEF Promise!InOrder, Promise!SameTransfer
<1>5. QED
  BY <1>2, <1>3, <1>4 DEF c, e

(* A well-formed frame extends the history in order exactly when the       *)
(* registers take it: chunk 0, or the expected chunk of a live transfer,   *)
(* that fits.                                                              *)
LEMMA TakenInOrder ==
    ASSUME IInv, NEW f \in Frame, WellFormed(f)
    PROVE  Promise!InOrder(Promise!Collect(seen, f, now)) <=>
             Belongs(f, now) /\ Fits(Receiving(xfer, f, now), f)
<1> USE DEF IInv, StoreTypeOK, TypeOK
<1>0. seen \in Seq(Promise!Entry) /\ now \in Nat /\ xfer \in Transfer
  OBVIOUS
<1>1. CASE f.index = 0
  <2>1. Belongs(f, now) /\ (Fits(Receiving(xfer, f, now), f) <=> Size[f.payload] <= Capacity)
    <3>1. Started(xfer, f).len = 0
      BY <1>0 DEF Started, Cleared, Transfer
    <3>2. Size[f.payload] \in Nat
      BY SizeAssumption DEF Frame
    <3>3. QED
      BY <1>1, <3>1, <3>2 DEF Belongs, Fits, Receiving
  <2>2. QED
    BY <1>0, <1>1, <2>1, InOrderFirst DEF Promise!Collect
<1>2. CASE f.index # 0 /\ seen = <<>>
  <2>1. ~Active(xfer)
    BY <1>2 DEF RegistersMatchHistory, Promise!Pending, Promise!InOrder
  <2>2. ~Belongs(f, now)
    BY <1>2, <2>1 DEF Belongs, Current
  <2>3. Promise!Collect(seen, f, now)[1].frame = f /\ Len(Promise!Collect(seen, f, now)) = 1
    BY <1>2 DEF Promise!Collect, Promise!Entered
  <2>4. f.index \in Int
    BY BoundsAssumption DEF Frame
  <2>5. QED
    BY <1>2, <2>2, <2>3, <2>4 DEF Promise!InOrder
<1>3. CASE f.index # 0 /\ seen # <<>>
  <2> DEFINE e == Promise!Entered(seen, f, now)
  <2>1. e \in Promise!Entry /\ Promise!Collect(seen, f, now) = Append(seen, e)
    BY <1>0, <1>3, EnteredType DEF Promise!Collect
  <2>2. e.frame = f /\ e.at = now /\ e.total = Size[f.payload] + seen[Len(seen)].total
    BY <1>3 DEF Promise!Entered
  <2> HIDE DEF e
  <2>3. Promise!InOrder(Append(seen, e)) <=>
             /\ Promise!InOrder(seen)
             /\ f.index = Len(seen)
             /\ Promise!SameTransfer(f, seen[1].frame)
             /\ Size[f.payload] + seen[Len(seen)].total <= Capacity
             /\ now - seen[Len(seen)].at <= Timeout
    BY <1>0, <1>3, <2>1, <2>2, InOrderAppend
  <2>4. CASE Active(xfer)
    <3>1. /\ Promise!InOrder(seen) /\ xfer.next = Len(seen)
          /\ xfer.len = seen[Len(seen)].total /\ xfer.last = seen[Len(seen)].at
          /\ Promise!SameTransfer(xfer, seen[1].frame)
      BY <2>4 DEF RegistersMatchHistory, Promise!Pending
    <3>2. xfer.last \in Nat /\ xfer.len \in Nat /\ Size[f.payload] \in Nat
      BY <1>0, SizeAssumption, BoundsAssumption DEF Transfer, Frame
    <3>3. CASE now - xfer.last > Timeout
      <4>1. ~Active(Current(xfer, now))
        BY <1>0, <2>4, <3>3 DEF Active, Current, Cleared, Transfer
      <4>2. ~(now - seen[Len(seen)].at <= Timeout)
        BY <1>0, <3>1, <3>2, <3>3, BoundsAssumption
      <4>3. QED
        BY <1>3, <2>1, <2>3, <4>1, <4>2 DEF Belongs
    <3>4. CASE ~(now - xfer.last > Timeout)
      <4>1. Current(xfer, now) = xfer /\ Receiving(xfer, f, now) = xfer
        BY <1>3, <3>4 DEF Current, Receiving
      <4>2. now - seen[Len(seen)].at <= Timeout
        BY <1>0, <3>1, <3>2, <3>4, BoundsAssumption
      <4>3. Matches(xfer, f) <=> f.index = Len(seen) /\ Promise!SameTransfer(f, seen[1].frame)
        BY <3>1 DEF Matches, Promise!SameTransfer
      <4>4. Fits(xfer, f) <=> Size[f.payload] + seen[Len(seen)].total <= Capacity
        BY <3>1, <3>2 DEF Fits
      <4>5. QED
        BY <1>3, <2>1, <2>3, <2>4, <3>1, <4>1, <4>2, <4>3, <4>4 DEF Belongs
    <3>5. QED
      BY <3>3, <3>4
  <2>5. CASE ~Active(xfer)
    <3>1. ~Promise!Pending(seen) /\ ~Belongs(f, now)
      BY <1>3, <2>5 DEF RegistersMatchHistory, Belongs, Current
    <3>2. f.index < f.count
      BY DEF WellFormed
    <3>3. ~Promise!InOrder(Append(seen, e))
      BY <2>3, <3>1, <3>2 DEF Promise!Pending, Promise!SameTransfer
    <3>4. QED
      BY <2>1, <3>1, <3>3
  <2>6. QED
    BY <2>4, <2>5
<1>4. QED
  BY <1>1, <1>2, <1>3

(* When the registers take a frame they become the longer history.         *)
LEMMA TakenRegisters ==
    ASSUME IInv, NEW f \in Frame, Belongs(f, now),
           Fits(Receiving(xfer, f, now), f)
    PROVE  LET x == Appended(Receiving(xfer, f, now), f, now)
               c == Promise!Collect(seen, f, now)
           IN  /\ x \in [corr : Corr, opcode : Opcode, count : 1..MaxChunks,
                          next : 1..MaxChunks, len : 0..Capacity, last : Nat,
                          buffer : Seq(Payload)]
               /\ x.next <= x.count
               /\ x.buffer = Promise!Body(c)
               /\ x.next = Len(c)
               /\ x.len = c[Len(c)].total
               /\ x.last = c[Len(c)].at
               /\ x.count = f.count
               /\ Promise!SameTransfer(x, c[1].frame)
<1> DEFINE r == Receiving(xfer, f, now)
<1> DEFINE x == Appended(r, f, now)
<1> DEFINE c == Promise!Collect(seen, f, now)
<1>0. /\ seen \in Seq(Promise!Entry) /\ now \in Nat /\ xfer \in Transfer
      /\ WellFormed(f) /\ Size[f.payload] \in Nat /\ f.payload \in Payload
      /\ f.corr \in Corr /\ f.opcode \in Opcode /\ f.index \in 0..MaxChunks
      /\ f.count \in 1..MaxChunks
  BY SizeAssumption, BoundsAssumption
  DEF IInv, StoreTypeOK, TypeOK, Frame, Belongs, WellFormed
<1>1. CASE f.index = 0
  <2>1. r = [corr |-> f.corr, opcode |-> f.opcode, count |-> f.count, next |-> 0,
             len |-> 0, last |-> xfer.last, buffer |-> <<>>]
    BY <1>0, <1>1 DEF Receiving, Started, Cleared, Transfer
  <2>2. x = [corr |-> f.corr, opcode |-> f.opcode, count |-> f.count, next |-> 1,
             len |-> Size[f.payload], last |-> now, buffer |-> <<f.payload>>]
    <3>1. Append(<<>>, f.payload) = <<f.payload>>
      OBVIOUS
    <3> HIDE DEF r
    <3>2. QED
      BY <1>0, <2>1, <3>1 DEF Appended
  <2>3. c = <<Promise!Entered(<<>>, f, now)>>
    BY <1>1 DEF Promise!Collect
  <2>4. Promise!Entered(<<>>, f, now) \in Promise!Entry
    BY <1>0, <1>1, <2>3, EnteredType, ElementOfSeq
  <2>5. Promise!Body(c) = <<f.payload>>
    BY <1>0, <1>1, <2>3, <2>4, BodyAppend DEF Promise!Entered
  <2>6. Size[f.payload] <= Capacity
    BY <1>0, <2>1 DEF Fits
  <2>7. <<f.payload>> \in Seq(Payload)
    BY <1>0
  <2>8. QED
    BY <1>0, <1>1, <2>2, <2>3, <2>5, <2>6, <2>7, InOrderFirst, BoundsAssumption
    DEF Promise!SameTransfer
<1>2. CASE f.index # 0
  <2>1. Active(Current(xfer, now)) /\ Matches(xfer, f)
    BY <1>2 DEF Belongs
  <2>2. Active(xfer) /\ r = xfer
    BY <1>0, <1>2, <2>1 DEF Receiving, Current, Cleared, Active, Transfer
  <2>3. /\ Promise!InOrder(seen) /\ xfer.buffer = Promise!Body(seen)
        /\ xfer.next = Len(seen) /\ xfer.len = seen[Len(seen)].total
        /\ Promise!SameTransfer(xfer, seen[1].frame) /\ seen # <<>>
    BY <2>2 DEF IInv, RegistersMatchHistory, Promise!Pending, Promise!InOrder
  <2> DEFINE e == Promise!Entered(seen, f, now)
  <2>4. e \in Promise!Entry /\ c = Append(seen, e)
    BY <1>0, <1>2, EnteredType DEF Promise!Collect
  <2>5. e.frame = f /\ e.at = now /\ e.total = Size[f.payload] + seen[Len(seen)].total
    BY <2>3 DEF Promise!Entered
  <2> HIDE DEF e, c
  <2>6. Len(c) = Len(seen) + 1 /\ c[Len(c)] = e /\ c[1] = seen[1]
    BY <1>0, <2>3, <2>4
  <2>7. Promise!Body(c) = Append(xfer.buffer, f.payload)
    BY <1>0, <2>3, <2>4, <2>5, BodyAppend
  <2>8. x = [corr |-> xfer.corr, opcode |-> xfer.opcode, count |-> xfer.count,
             next |-> xfer.next + 1, len |-> xfer.len + Size[f.payload],
             last |-> now, buffer |-> Append(xfer.buffer, f.payload)]
    BY <2>2 DEF Appended
  <2>9. /\ xfer.next \in Nat /\ xfer.next = f.index /\ xfer.count = f.count
        /\ f.index < f.count
    BY <1>0, <2>1, BoundsAssumption DEF Matches, Transfer, WellFormed
  <2>10. xfer.len \in Nat /\ xfer.len + Size[f.payload] <= Capacity
    BY <1>0, <2>2, BoundsAssumption DEF Fits, Transfer
  <2>11. Append(xfer.buffer, f.payload) \in Seq(Payload)
    BY <1>0 DEF Transfer
  <2>12. x.corr \in Corr /\ x.opcode \in Opcode
    BY <1>0, <2>8 DEF Transfer
  <2>13. /\ x.count = f.count /\ x.next = f.index + 1 /\ x.last = now
         /\ x.len = xfer.len + Size[f.payload]
         /\ x.buffer = Append(xfer.buffer, f.payload)
         /\ x.corr = xfer.corr /\ x.opcode = xfer.opcode
    BY <2>8, <2>9
  <2> HIDE DEF x
  <2>14. x \in [corr : Corr, opcode : Opcode, count : 1..MaxChunks,
                 next : 1..MaxChunks, len : 0..Capacity, last : Nat,
                 buffer : Seq(Payload)]
    <3>1. x.next \in 1..MaxChunks
      BY <1>0, <2>9, <2>13, BoundsAssumption
    <3>2. x.len \in 0..Capacity
      <4>1. Size[f.payload] \in Nat
        BY <1>0
      <4>2. QED
        BY <2>10, <2>13, <4>1, BoundsAssumption
    <3>3. QED
      BY <1>0, <2>8, <2>9, <2>11, <2>12, <2>13, <3>1, <3>2
  <2>15. Promise!SameTransfer(x, c[1].frame)
    BY <2>3, <2>6, <2>8 DEF Promise!SameTransfer
  <2>16. /\ x.next <= x.count /\ x.buffer = Promise!Body(c) /\ x.next = Len(c)
         /\ x.len = c[Len(c)].total /\ x.last = c[Len(c)].at /\ x.count = f.count
    <3>1. xfer.len + Size[f.payload] = Size[f.payload] + seen[Len(seen)].total
      BY <1>0, <2>3, <2>10
    <3>2. x.next <= x.count /\ x.next = Len(c)
      BY <1>0, <2>3, <2>6, <2>9, <2>13
    <3>3. QED
      BY <2>5, <2>6, <2>7, <2>13, <3>1, <3>2
  <2>17. QED
    BY <2>14, <2>15, <2>16 DEF x, c
<1>3. QED
  BY <1>1, <1>2
----------------------------------------------------------------------------
(* Clearing the registers leaves them in type and without a transfer.      *)
LEMMA ClearedFields ==
    ASSUME NEW x \in Transfer
    PROVE  /\ Cleared(x) \in Transfer
           /\ ~Active(Cleared(x))
           /\ Cleared(x).next = 0 /\ Cleared(x).len = 0 /\ Cleared(x).buffer = <<>>
<1>1. <<>> \in Seq(Payload) /\ 0 \in 0..MaxChunks /\ 0 \in 0..Capacity
  BY BoundsAssumption
<1>2. Cleared(x) \in Transfer
  BY <1>1 DEF Cleared, Transfer
<1>3. /\ Cleared(x).count = 0 /\ Cleared(x).next = 0
      /\ Cleared(x).len = 0 /\ Cleared(x).buffer = <<>>
  BY DEF Cleared, Transfer
<1>4. QED
  BY <1>2, <1>3 DEF Active

(* Registers that belong to no transfer, after a frame that no transfer    *)
(* took: the history is then no transfer either.                           *)
LEMMA RefusedKeepsInv ==
    ASSUME IInv, NEW f \in Frame, WellFormed(f),
           ~(Belongs(f, now) /\ Fits(Receiving(xfer, f, now), f)),
           NEW x \in Transfer, xfer' = x, ~Active(x),
           x.next = 0, x.len = 0, x.buffer = <<>>,
           seen' = Promise!Collect(seen, f, now), outcome' \in Outcome, now' = now
    PROVE  IInv'
<1>1. ~Promise!InOrder(seen')
  BY TakenInOrder
<1>2. ~Promise!Pending(seen')
  BY <1>1 DEF Promise!Pending
<1>3. seen \in Seq(Promise!Entry) /\ now \in Nat
  BY DEF IInv, StoreTypeOK
<1>4. seen' \in Seq(Promise!Entry)
  BY <1>3, EnteredType
<1>5. RegistersMatchHistory'
  BY <1>2 DEF RegistersMatchHistory
<1>6. QED
  BY <1>3, <1>4, <1>5 DEF IInv, StoreTypeOK, TypeOK

(* Every frame preserves the invariant, whatever becomes of it.            *)
LEMMA FramesKeepInv ==
    ASSUME IInv, NEW f \in Inputs, Frames(f)
    PROVE  IInv'
<1> DEFINE cur == Current(xfer, now)
<1> DEFINE rec == Receiving(xfer, f, now)
<1> DEFINE col == Promise!Collect(seen, f, now)
<1>0. /\ f \in Frame /\ xfer \in Transfer /\ now \in Nat /\ now' = now
      /\ outcome \in Outcome /\ seen \in Seq(Promise!Entry) /\ RegistersMatchHistory
      /\ f.corr \in Corr /\ f.opcode \in Opcode
  BY InputsAssumption DEF IInv, StoreTypeOK, TypeOK, Frames, Frame
<1>1. \A s \in TransportStatus : Reply(f.corr, s) \in Outcome
  BY <1>0 DEF Reply, Outcome
<1>2. /\ Cleared(xfer) \in Transfer /\ ~Active(Cleared(xfer))
      /\ Cleared(xfer).next = 0 /\ Cleared(xfer).len = 0 /\ Cleared(xfer).buffer = <<>>
  BY <1>0, ClearedFields DEF Transfer
<1>3. WellFormed(f) => seen' = col
  BY DEF Frames
<1>4. CASE RejectMalformed(f)
  <2>1. outcome' \in Outcome /\ xfer' = xfer /\ seen' = seen
    BY <1>1, <1>4 DEF RejectMalformed, TransportStatus, Frames
  <2>2. QED
    BY <1>0, <2>1 DEF IInv, StoreTypeOK, TypeOK, RegistersMatchHistory
<1>5. CASE RejectNoTransfer(f, now)
  <2>1. WellFormed(f) /\ ~Belongs(f, now) /\ ~Active(cur) /\ xfer' = cur
        /\ outcome' \in Outcome
    BY <1>1, <1>5 DEF RejectNoTransfer, Belongs, TransportStatus
  <2>2. cur \in Transfer /\ cur.next = 0 /\ cur.len = 0 /\ cur.buffer = <<>>
    BY <1>0, <1>2, <2>1 DEF Current, RegistersMatchHistory
  <2>3. QED
    BY <1>0, <1>3, <2>1, <2>2, RefusedKeepsInv
<1>6. CASE RejectOutOfOrder(f, now)
  <2>1. WellFormed(f) /\ ~Belongs(f, now) /\ xfer' = Cleared(xfer) /\ outcome' \in Outcome
    BY <1>1, <1>6 DEF RejectOutOfOrder, Belongs, TransportStatus
  <2>2. QED
    BY <1>0, <1>2, <1>3, <2>1, RefusedKeepsInv
<1>7. CASE RejectTooLarge(f, now)
  <2>1. WellFormed(f) /\ Belongs(f, now) /\ ~Fits(rec, f) /\ xfer' = Cleared(rec)
        /\ outcome' \in Outcome
    BY <1>1, <1>7 DEF RejectTooLarge, Belongs, TransportStatus
  <2>2. rec \in Transfer
    <3>1. CASE f.index = 0
      <4>1. rec = [Cleared(xfer) EXCEPT !.corr = f.corr, !.opcode = f.opcode,
                                        !.count = f.count]
        BY <3>1 DEF Receiving, Started
      <4>2. f.count \in 0..MaxChunks
        BY <1>0 DEF Frame
      <4>3. QED
        BY <1>0, <1>2, <4>1, <4>2 DEF Transfer
    <3>2. CASE f.index # 0
      BY <1>0, <1>2, <3>2 DEF Receiving, Current, Transfer
    <3>3. QED
      BY <3>1, <3>2
  <2> HIDE DEF rec
  <2>3. /\ Cleared(rec) \in Transfer /\ ~Active(Cleared(rec))
        /\ Cleared(rec).next = 0 /\ Cleared(rec).len = 0 /\ Cleared(rec).buffer = <<>>
    BY <2>2, ClearedFields
  <2>4. QED
    BY <1>0, <1>3, <2>1, <2>3, RefusedKeepsInv DEF rec
<1>8. CASE KeepChunk(f, now) \/ CompleteRequest(f, now)
  <2> DEFINE x == Appended(rec, f, now)
  <2>1. WellFormed(f) /\ Belongs(f, now) /\ Fits(rec, f)
    BY <1>8 DEF KeepChunk, CompleteRequest, Belongs
  <2>2. /\ x \in [corr : Corr, opcode : Opcode, count : 1..MaxChunks,
                   next : 1..MaxChunks, len : 0..Capacity, last : Nat,
                   buffer : Seq(Payload)]
        /\ x.next <= x.count /\ x.buffer = Promise!Body(col)
        /\ x.next = Len(col) /\ x.len = col[Len(col)].total
        /\ x.last = col[Len(col)].at /\ x.count = f.count
        /\ Promise!SameTransfer(x, col[1].frame)
    BY <1>0, <2>1, TakenRegisters
  <2>3. Promise!InOrder(col) /\ col \in Seq(Promise!Entry) /\ seen' = col
    BY <1>0, <1>3, <2>1, TakenInOrder, EnteredType
  <2>4. col[1].frame.count = x.count
    BY <2>2 DEF Promise!SameTransfer
  <2>5. CASE KeepChunk(f, now)
    <3>1. xfer' = x /\ outcome' = Kept /\ x.next < x.count
      BY <2>5 DEF KeepChunk
    <3> HIDE DEF x, col
    <3>2. Promise!Pending(seen')
      BY <2>2, <2>3, <2>4, <3>1 DEF Promise!Pending
    <3>3. xfer' \in Transfer /\ Active(xfer')
      BY <2>2, <3>1, BoundsAssumption DEF Transfer, Active
    <3>4. RegistersMatchHistory'
      BY <2>2, <2>3, <3>1, <3>2, <3>3 DEF RegistersMatchHistory
    <3>5. QED
      BY <1>0, <2>3, <3>1, <3>3, <3>4 DEF IInv, StoreTypeOK, TypeOK, Outcome, Kept
  <2>6. CASE CompleteRequest(f, now)
    <3>1. /\ xfer' = Cleared(x) /\ outcome' = Dispatch(f.corr, f.opcode, x.buffer)
          /\ x.next >= x.count
      BY <2>6 DEF CompleteRequest
    <3> HIDE DEF x, col
    <3>2. ~Promise!Pending(seen')
      BY <2>2, <2>3, <2>4, <3>1, BoundsAssumption DEF Promise!Pending
    <3>3. x \in Transfer /\ x.buffer \in Seq(Payload)
      BY <2>2, BoundsAssumption DEF Transfer
    <3>4. /\ Cleared(x) \in Transfer /\ ~Active(Cleared(x))
          /\ Cleared(x).next = 0 /\ Cleared(x).len = 0 /\ Cleared(x).buffer = <<>>
      BY <3>3, ClearedFields
    <3>5. outcome' \in Outcome
      BY <1>0, <3>1, <3>3 DEF Outcome, Dispatch
    <3>6. RegistersMatchHistory'
      BY <3>1, <3>2, <3>4 DEF RegistersMatchHistory
    <3>7. QED
      BY <1>0, <2>3, <3>1, <3>4, <3>5, <3>6 DEF IInv, StoreTypeOK, TypeOK
  <2>7. QED
    BY <1>8, <2>5, <2>6
<1>9. QED
  BY <1>4, <1>5, <1>6, <1>7, <1>8 DEF Frames, ProcessFrame

(* The invariant is inductive.                                             *)
LEMMA InitInv == StoreInit => IInv
<1> SUFFICES ASSUME StoreInit PROVE IInv
  OBVIOUS
<1>1. xfer \in Transfer /\ ~Active(xfer)
  BY ByteAssumption, BoundsAssumption DEF StoreInit, Init, Transfer, Active
<1>2. ~Promise!Pending(seen)
  BY DEF StoreInit, Promise!Pending, Promise!InOrder
<1>3. outcome \in Outcome /\ seen \in Seq(Promise!Entry) /\ now \in Nat
  BY DEF StoreInit, Init, Outcome, Dropped
<1>4. QED
  BY <1>1, <1>2, <1>3 DEF IInv, StoreTypeOK, TypeOK, RegistersMatchHistory, StoreInit, Init

LEMMA StepInv == IInv /\ [Next]_vars => IInv'
<1> SUFFICES ASSUME IInv, [Next]_vars PROVE IInv'
  OBVIOUS
<1>1. CASE Tick
  BY <1>1 DEF Tick, IInv, StoreTypeOK, TypeOK, RegistersMatchHistory
<1>2. CASE Unread
  <2>1. outcome' \in Outcome /\ UNCHANGED <<xfer, now, seen>>
    BY <1>2 DEF Unread, DropUnsubscribed, RejectShort, Outcome, Dropped, Reply, TransportStatus
  <2>2. QED
    BY <2>1 DEF IInv, StoreTypeOK, TypeOK, RegistersMatchHistory
<1>3. CASE Reset
  <2>1. xfer' = Cleared(xfer) /\ seen' = <<>> /\ UNCHANGED <<now, outcome>>
    BY <1>3 DEF Reset, StoreReset
  <2>2. /\ Cleared(xfer) \in Transfer /\ ~Active(Cleared(xfer))
        /\ Cleared(xfer).next = 0 /\ Cleared(xfer).len = 0 /\ Cleared(xfer).buffer = <<>>
    BY ClearedFields DEF IInv, StoreTypeOK, TypeOK, Transfer
  <2>3. ~Promise!Pending(seen') /\ seen' \in Seq(Promise!Entry)
    BY <2>1 DEF Promise!Pending, Promise!InOrder
  <2>4. QED
    BY <2>1, <2>2, <2>3 DEF IInv, StoreTypeOK, TypeOK, RegistersMatchHistory
<1>4. ASSUME NEW f \in Inputs, Frames(f) PROVE IInv'
  BY <1>4, FramesKeepInv
<1>5. CASE UNCHANGED vars
  BY <1>5 DEF vars, IInv, StoreTypeOK, TypeOK, RegistersMatchHistory
<1>6. QED
  BY <1>1, <1>2, <1>3, <1>4, <1>5 DEF Next

(* The registers and the history stay in type.                             *)
THEOREM TypeCorrect == Spec => []StoreTypeOK
<1>1. IInv => StoreTypeOK
  BY DEF IInv
<1>2. QED
  BY <1>1, InitInv, StepInv, PTL DEF Spec

(* The registers always hold exactly the pending transfer of the history.  *)
THEOREM RegistersCorrect == Spec => []RegistersMatchHistory
<1>1. IInv => RegistersMatchHistory
  BY DEF IInv
<1>2. QED
  BY <1>1, InitInv, StepInv, PTL DEF Spec
----------------------------------------------------------------------------
(* Processing a frame is a step of the abstract transport: the outcome is  *)
(* the one its history calls for.                                          *)
LEMMA FramesRefine ==
    ASSUME IInv, NEW f \in Inputs, Frames(f)
    PROVE  Promise!Next
<1> DEFINE col == Promise!Collect(seen, f, now)
<1>0. /\ f \in Frame /\ f \in Promise!Frame /\ f.corr \in Corr /\ xfer \in Transfer
      /\ now \in Nat /\ now' = now /\ seen \in Seq(Promise!Entry)
      /\ RegistersMatchHistory
  BY InputsAssumption
  DEF IInv, StoreTypeOK, TypeOK, Frames, Frame, Promise!Frame
<1>1. WellFormed(f) => seen' = col /\ Promise!WellFormed(f)
  BY DEF Frames, WellFormed, Promise!WellFormed
<1>2. CASE RejectMalformed(f)
  <2>1. outcome' = Promise!Reply(f.corr, "MALFORMED_REQUEST") /\ seen' = seen
    BY <1>2 DEF RejectMalformed, Frames, Reply, Promise!Reply
  <2>2. QED
    BY <1>0, <2>1 DEF Promise!Ignore, Promise!Next
<1>3. ASSUME WellFormed(f), ~(Belongs(f, now) /\ Fits(Receiving(xfer, f, now), f)),
             NEW s, s = Promise!Refusal(seen, f, now), outcome' = Reply(f.corr, s)
      PROVE  Promise!Next
  <2>1. ~Promise!InOrder(seen')
    BY <1>0, <1>1, <1>3, TakenInOrder
  <2>2. outcome' = Promise!Reply(f.corr, Promise!Refusal(seen, f, now))
    BY <1>3 DEF Reply, Promise!Reply
  <2>3. Promise!Receive(f)
    BY <1>0, <1>1, <1>3, <2>1, <2>2 DEF Promise!Receive
  <2>4. QED
    BY <1>0, <2>3 DEF Promise!Next
<1>4. Active(xfer) => /\ Promise!Pending(seen) /\ xfer.next = Len(seen)
                      /\ xfer.last = seen[Len(seen)].at
                      /\ Promise!SameTransfer(xfer, seen[1].frame)
  BY <1>0 DEF RegistersMatchHistory
<1>5. CASE RejectNoTransfer(f, now)
  <2>1. /\ WellFormed(f) /\ f.index # 0 /\ ~Active(Current(xfer, now))
        /\ outcome' = Reply(f.corr, "NO_ACTIVE_TRANSFER")
    BY <1>5 DEF RejectNoTransfer
  <2>2. ~Promise!Pending(seen) \/ now - seen[Len(seen)].at > Timeout
    BY <1>0, <1>4, <2>1 DEF Current, RegistersMatchHistory
  <2>3. "NO_ACTIVE_TRANSFER" = Promise!Refusal(seen, f, now)
    BY <2>1, <2>2 DEF Promise!Refusal
  <2>4. QED
    BY <1>3, <2>1, <2>3 DEF Belongs
<1>6. Active(Current(xfer, now)) =>
        Active(xfer) /\ Promise!Pending(seen) /\ ~(now - seen[Len(seen)].at > Timeout)
  BY <1>0, <1>4 DEF Current, Active, Cleared, Transfer
<1>7. CASE RejectOutOfOrder(f, now)
  <2>1. /\ WellFormed(f) /\ f.index # 0 /\ Active(Current(xfer, now)) /\ ~Matches(xfer, f)
        /\ outcome' = Reply(f.corr, "CHUNK_OUT_OF_ORDER")
    BY <1>7 DEF RejectOutOfOrder
  <2>2. f.index # Len(seen) \/ ~Promise!SameTransfer(f, seen[1].frame)
    BY <1>4, <1>6, <2>1 DEF Matches, Promise!SameTransfer
  <2>3. "CHUNK_OUT_OF_ORDER" = Promise!Refusal(seen, f, now)
    BY <1>6, <2>1, <2>2 DEF Promise!Refusal
  <2>4. QED
    BY <1>3, <2>1, <2>3 DEF Belongs
<1>8. CASE RejectTooLarge(f, now)
  <2>1. /\ WellFormed(f) /\ Belongs(f, now) /\ ~Fits(Receiving(xfer, f, now), f)
        /\ outcome' = Reply(f.corr, "TOO_LARGE")
    BY <1>8 DEF RejectTooLarge, Belongs
  <2>2. f.index # 0 => /\ Promise!Pending(seen) /\ ~(now - seen[Len(seen)].at > Timeout)
                       /\ f.index = Len(seen)
                       /\ Promise!SameTransfer(f, seen[1].frame)
    BY <1>4, <1>6, <2>1 DEF Belongs, Matches, Promise!SameTransfer
  <2>3. "TOO_LARGE" = Promise!Refusal(seen, f, now)
    BY <2>2 DEF Promise!Refusal
  <2>4. QED
    BY <1>3, <2>1, <2>3
<1>9. CASE KeepChunk(f, now) \/ CompleteRequest(f, now)
  <2> DEFINE x == Appended(Receiving(xfer, f, now), f, now)
  <2>1. WellFormed(f) /\ Belongs(f, now) /\ Fits(Receiving(xfer, f, now), f)
    BY <1>9 DEF KeepChunk, CompleteRequest, Belongs
  <2>2. /\ x.next \in 1..MaxChunks /\ x.count \in 1..MaxChunks
        /\ x.next <= x.count /\ x.buffer = Promise!Body(col) /\ x.next = Len(col)
        /\ Promise!SameTransfer(x, col[1].frame)
    BY <1>0, <2>1, TakenRegisters
  <2>3. Promise!InOrder(col) /\ seen' = col
    BY <1>0, <1>1, <2>1, TakenInOrder
  <2>4. col[1].frame.count = x.count
    BY <2>2 DEF Promise!SameTransfer
  <2>5. CASE KeepChunk(f, now)
    <3>1. outcome' = Promise!Kept /\ x.next < x.count
      BY <2>5 DEF KeepChunk, Kept, Promise!Kept
    <3>2. seen' = Promise!Collect(seen, f, now) /\ Promise!WellFormed(f)
      BY <1>1, <2>1
    <3> HIDE DEF x, col
    <3>3. Promise!Pending(seen')
      BY <2>2, <2>3, <2>4, <3>1 DEF Promise!Pending
    <3>4. Promise!Receive(f)
      BY <1>0, <3>1, <3>2, <3>3 DEF Promise!Receive
    <3>5. QED
      BY <1>0, <3>4 DEF Promise!Next
  <2>6. CASE CompleteRequest(f, now)
    <3>1. outcome' = Promise!Dispatch(f.corr, f.opcode, Promise!Body(col)) /\ x.next >= x.count
      BY <2>2, <2>6 DEF CompleteRequest, Dispatch, Promise!Dispatch
    <3>2. seen' = Promise!Collect(seen, f, now) /\ Promise!WellFormed(f)
      BY <1>1, <2>1
    <3>3. outcome' = Promise!Dispatch(f.corr, f.opcode, Promise!Body(seen'))
      BY <2>3, <3>1
    <3> HIDE DEF x, col
    <3>4. Promise!Whole(seen')
      BY <2>2, <2>3, <2>4, <3>1, BoundsAssumption DEF Promise!Whole
    <3>5. Promise!Receive(f)
      BY <1>0, <3>2, <3>3, <3>4 DEF Promise!Receive
    <3>6. QED
      BY <1>0, <3>5 DEF Promise!Next
  <2>7. QED
    BY <1>9, <2>5, <2>6
<1>10. QED
  BY <1>2, <1>5, <1>7, <1>8, <1>9 DEF Frames, ProcessFrame

LEMMA StepRefine == IInv /\ [Next]_vars => [Promise!Next]_(Promise!absVars)
<1> SUFFICES ASSUME IInv, [Next]_vars PROVE [Promise!Next]_(Promise!absVars)
  OBVIOUS
<1>1. CASE Tick
  BY <1>1 DEF Tick, Promise!Tick, Promise!Next
<1>2. CASE Unread
  BY <1>2 DEF Unread, DropUnsubscribed, RejectShort, Promise!Ignore, Promise!Next,
              Dropped, Reply, Promise!Dropped, Promise!Reply
<1>3. CASE Reset
  BY <1>3 DEF Reset, StoreReset, Promise!Forget, Promise!Next
<1>4. ASSUME NEW f \in Inputs, Frames(f) PROVE Promise!Next
  BY <1>4, FramesRefine
<1>5. CASE UNCHANGED vars
  BY <1>5 DEF vars, Promise!absVars
<1>6. QED
  BY <1>1, <1>2, <1>3, <1>4, <1>5 DEF Next

(* The reassembly implements the abstract transport, step for step: what   *)
(* reaches a handler is always one whole transfer, and every other frame   *)
(* is refused for the reason its history gives.                            *)
THEOREM Refinement == Spec => RefinesPromise
<1>1. StoreInit => Promise!Init
  BY DEF StoreInit, Init, Promise!Init, Dropped, Promise!Dropped
<1>2. QED
  BY <1>1, InitInv, StepInv, StepRefine, PTL DEF Spec, RefinesPromise, Promise!Spec
============================================================================
