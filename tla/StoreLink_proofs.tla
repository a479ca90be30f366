-------------------------- MODULE StoreLink_proofs --------------------------
(***************************************************************************)
(* For every number of connections, requests and commands, every length of *)
(* the queue and every MTU: the link stays in type, no frame is larger than*)
(* its link allows, no request is executed twice or after a later one, the *)
(* chunks of two requests mix only if a reset was lost, and the first      *)
(* client hears its answers whole unless an indication of them failed, and *)
(* an OK only for what was stored.                                         *)
(***************************************************************************)
EXTENDS StoreLink, TLAPS

(* What the controller is doing tells what it took from the queue; before  *)
(* the first connection there is nothing to take.                          *)
PcInv ==
    /\ pc = "handle" => outcome.kind = "dispatch"
    /\ pc \in {"check", "send", "wait"} =>
          /\ outcome.kind \in {"reply", "dispatch"}
          /\ answer.status = "OK" => outcome.kind = "dispatch"
          /\ answer.conn > 0
    /\ conn = 0 => ~up /\ events = <<>> /\ queue = <<>> /\ pc = "idle"

(* A client sends what it has begun to ask for.                            *)
ClientInv == client.sent > 0 => asked > 0 /\ client.sent <= ChunksOf[client.opcode]

TypeInv == LinkTypeOK /\ PcInv /\ ClientInv

(* A disconnect is the last event of its connection, and nobody connects   *)
(* until it has been handled.                                              *)
LinkInv ==
    /\ up => ~advertising
    /\ ~up => air = <<>>
    /\ advertising => events = <<>> /\ spp_mtu_size = "small"
    /\ \A i \in 1..Len(events) :
          events[i].kind = "disconnect" <=> ~up /\ i = Len(events)
    /\ ~up /\ ~advertising => events # <<>>

(* The firmware believes in the large MTU only while the link has it.      *)
MtuInv ==
    /\ spp_mtu_size = "large" => client.mtu = "large"
    /\ \A i \in 1..Len(events) : events[i].kind = "mtu" => client.mtu = "large"
    /\ answer.conn = conn /\ answer.mtu = "large" => client.mtu = "large"

(* From a clean start, no CONF_EVT but that of the frame sent can be on its*)
(* way.                                                                    *)
Silent == ~indication_confirmed /\ \A i \in 1..Len(events) : events[i].kind # "confirm"

CleanInv ==
    proof.clean =>
        /\ pc = "send" => air = <<>> /\ Silent /\ bridge = 0
        /\ pc = "wait" => Len(air) <= 1 /\ bridge = 0 /\ (proof.fate # "pending" \/ Silent)

(* A request's frames are processed in the order they were sent.           *)
Before(f, g) == \/ f.payload < g.payload
                \/ f.payload = g.payload /\ f.index < g.index /\ f.count = g.count

(* The frames in the queue and among the events.                           *)
Queued(i)  == i \in 1..Len(queue) /\ queue[i].kind = "store"
Waiting(i) == i \in 1..Len(events) /\ events[i].kind = "write" /\ events[i].command.kind = "store"

Fq(i) == queue[i].frame
Fe(i) == events[i].command.frame

(* The client has sent this frame of its request, or of an earlier one.    *)
Sent(f) == /\ f.index < f.count
           /\ f.payload \in 1..asked
           /\ f.payload = asked /\ client.sent > 0 =>
                  f.index < client.sent /\ f.count = ChunksOf[client.opcode]

FrameInv ==
    /\ \A i \in 1..Len(queue)  : Queued(i) => Sent(Fq(i))
    /\ \A i \in 1..Len(events) : Waiting(i) => Sent(Fe(i))
    /\ \A i, j \in 1..Len(queue)  : Queued(i) /\ Queued(j) /\ i < j => Before(Fq(i), Fq(j))
    /\ \A i, j \in 1..Len(events) : Waiting(i) /\ Waiting(j) /\ i < j => Before(Fe(i), Fe(j))
    /\ \A i \in 1..Len(queue), j \in 1..Len(events) :
          Queued(i) /\ Waiting(j) => Before(Fq(i), Fe(j))

(* Request n is complete: what is still to be processed is of later ones.  *)
Over(n) == /\ n \in 1..asked
           /\ n = asked => client.sent \in {0, ChunksOf[client.opcode]}
           /\ \A i \in 1..Len(queue)  : Queued(i) => Fq(i).payload > n
           /\ \A i \in 1..Len(events) : Waiting(i) => Fe(i).payload > n

Dispatched == outcome.kind = "dispatch"

DoneInv ==
    /\ Dispatched => outcome.body # <<>> /\ Over(Completes(outcome.body))
    /\ \A s \in {stored, played} : \A i \in 1..Len(s) : s[i] # <<>> /\ Over(Completes(s[i]))
    /\ pc = "handle" => \A i \in 1..Len(stored) : Completes(stored[i]) < Completes(outcome.body)
    /\ pc \in {"handle", "check", "send", "wait"} /\ Dispatched =>
           \A i \in 1..Len(played) : Completes(played[i]) < Completes(outcome.body)
----------------------------------------------------------------------------
(* Sequences, events and commands.                                         *)

(* What a queue is once its first element is taken.                        *)
LEMMA TailOf ==
    ASSUME NEW S, NEW q \in Seq(S), q # <<>>
    PROVE  /\ Head(q) \in S /\ Head(q) = q[1] /\ 1 \in 1..Len(q)
           /\ Tail(q) \in Seq(S) /\ Len(Tail(q)) = Len(q) - 1
           /\ \A i \in 1..Len(Tail(q)) : i + 1 \in 1..Len(q) /\ Tail(q)[i] = q[i + 1]
OBVIOUS

(* What a queue is once an element is appended to it.                      *)
LEMMA AppendOf ==
    ASSUME NEW S, NEW q \in Seq(S), NEW e \in S
    PROVE  /\ Append(q, e) \in Seq(S) /\ Len(Append(q, e)) = Len(q) + 1
           /\ Append(q, e)[Len(q) + 1] = e
           /\ \A i \in 1..Len(q) : Append(q, e)[i] = q[i]
           /\ Len(q) \in Nat /\ Append(q, e) # <<>>
<1>1. /\ Append(q, e) \in Seq(S) /\ Len(Append(q, e)) = Len(q) + 1
      /\ Append(q, e)[Len(q) + 1] = e
      /\ Len(q) \in Nat
  OBVIOUS
<1>2. \A i \in 1..Len(q) : Append(q, e)[i] = q[i]
  OBVIOUS
<1>3. Append(q, e) # <<>>
  <2>1. Append(q, e) = <<>> => Len(Append(q, e)) = 0
    OBVIOUS
  <2>2. QED
    BY <1>1, <2>1
<1>4. QED
  BY <1>1, <1>2, <1>3

(* What is left of the air when a frame in it fails.                       *)
LEMMA RemoveAtOf ==
    ASSUME NEW S, NEW q \in Seq(S), NEW k \in 1..Len(q)
    PROVE  /\ RemoveAt(q, k) \in Seq(S) /\ Len(RemoveAt(q, k)) = Len(q) - 1
           /\ \A i \in 1..Len(RemoveAt(q, k)) :
                 /\ i < k => RemoveAt(q, k)[i] = q[i]
                 /\ i >= k => i + 1 \in 1..Len(q) /\ RemoveAt(q, k)[i] = q[i + 1]
<1> DEFINE a == SubSeq(q, 1, k - 1)
           b == SubSeq(q, k + 1, Len(q))
<1>1. Len(q) \in Nat /\ k - 1 \in 0..Len(q)
  OBVIOUS
<1>2. a \in Seq(S) /\ Len(a) = k - 1 /\ \A i \in 1..(k - 1) : a[i] = q[i]
  BY <1>1
<1>3. b \in Seq(S) /\ Len(b) = Len(q) - k /\ \A i \in 1..(Len(q) - k) : b[i] = q[k + i]
  BY <1>1
<1>4. RemoveAt(q, k) = a \o b
  BY DEF RemoveAt
<1> HIDE DEF a, b
<1>5. /\ a \o b \in Seq(S) /\ Len(a \o b) = Len(q) - 1
      /\ \A i \in 1..Len(q) - 1 : (a \o b)[i] = IF i <= Len(a) THEN a[i] ELSE b[i - Len(a)]
  <2>1. a \in Seq(S) /\ b \in Seq(S)
    BY <1>2, <1>3
  <2>2. /\ a \o b \in Seq(S) /\ Len(a \o b) = Len(a) + Len(b)
        /\ \A i \in 1..Len(a) + Len(b) :
              (a \o b)[i] = IF i <= Len(a) THEN a[i] ELSE b[i - Len(a)]
    BY <2>1
  <2>3. Len(a) + Len(b) = Len(q) - 1
    BY <1>1, <1>2, <1>3
  <2>4. QED
    BY <2>2, <2>3
<1>6. \A i \in 1..Len(q) - 1 : i < k => (a \o b)[i] = q[i]
  BY <1>1, <1>2, <1>5
<1>7. ASSUME NEW i \in 1..Len(q) - 1, i >= k
      PROVE  i + 1 \in 1..Len(q) /\ (a \o b)[i] = q[i + 1]
  <2>1. i - (k - 1) \in 1..(Len(q) - k) /\ k + (i - (k - 1)) = i + 1
    BY <1>1, <1>7
  <2>2. (a \o b)[i] = b[i - (k - 1)]
    BY <1>1, <1>2, <1>5, <1>7
  <2>3. QED
    BY <1>1, <1>3, <1>7, <2>1, <2>2
<1>8. QED
  BY <1>4, <1>5, <1>6, <1>7

(* A sequence that grows keeps its type when its elements' type grows.     *)
LEMMA SeqMonotone ==
    ASSUME NEW S, NEW T, S \subseteq T, NEW q \in Seq(S)
    PROVE  q \in Seq(T)
OBVIOUS

LEMMA StoreCmdFields ==
    ASSUME NEW f \in Frame
    PROVE  /\ StoreCmd(f) \in Written /\ StoreCmd(f) \in Command
           /\ StoreCmd(f).kind = "store" /\ StoreCmd(f).frame = f
BY DEF StoreCmd, Written, Command

LEMMA CommandFields ==
    /\ OtherCmd \in Written /\ OtherCmd \in Command /\ OtherCmd.kind = "other"
    /\ ResetCmd \in Command /\ ResetCmd.kind = "reset"
    /\ \A c \in Command : /\ c.kind \in {"reset", "other", "store"}
                          /\ c.kind = "store" => c.frame \in Frame
    /\ Written \subseteq Command
<1>1. Written \subseteq Command
  BY DEF Command
<1>2. \A c \in Command : /\ c.kind \in {"reset", "other", "store"}
                         /\ c.kind = "store" => c.frame \in Frame
  BY DEF Command, Written
<1>3. QED
  BY <1>1, <1>2 DEF OtherCmd, ResetCmd, Written, Command

LEMMA WriteFields ==
    ASSUME NEW c \in Written
    PROVE  Write(c) \in Event /\ Write(c).kind = "write" /\ Write(c).command = c
BY DEF Write, Event

LEMMA EventFields ==
    /\ Connected \in Event /\ Connected.kind = "connect"
    /\ Disconnected \in Event /\ Disconnected.kind = "disconnect"
    /\ Confirm \in Event /\ Confirm.kind = "confirm"
    /\ Exchanged \in Event /\ Exchanged.kind = "mtu"
    /\ \A on \in BOOLEAN : Cccd(on) \in Event /\ Cccd(on).kind = "cccd"
    /\ \A e \in Event : /\ e.kind \in {"connect", "disconnect", "confirm", "mtu", "cccd", "write"}
                        /\ e.kind = "cccd" => e.on \in BOOLEAN
                        /\ e.kind = "write" => e.command \in Written
                        /\ e.kind = "confirm" => e = Confirm
<1>1. /\ Connected \in Event /\ Connected.kind = "connect"
      /\ Disconnected \in Event /\ Disconnected.kind = "disconnect"
  BY DEF Connected, Disconnected, Event
<1>2. /\ Confirm \in Event /\ Confirm.kind = "confirm"
      /\ Exchanged \in Event /\ Exchanged.kind = "mtu"
  BY DEF Confirm, Exchanged, Event
<1>3. \A on \in BOOLEAN : Cccd(on) \in Event /\ Cccd(on).kind = "cccd"
  BY DEF Cccd, Event
<1>4. \A e \in Event : /\ e.kind \in {"connect", "disconnect", "confirm", "mtu", "cccd", "write"}
                       /\ e.kind = "cccd" => e.on \in BOOLEAN
                       /\ e.kind = "write" => e.command \in Written
  BY DEF Event
<1>5. \A e \in Event : e.kind = "confirm" => e = Confirm
  BY DEF Event, Confirm
<1>6. QED
  BY <1>1, <1>2, <1>3, <1>4, <1>5
----------------------------------------------------------------------------
(* The reassembly.                                                         *)

LEMMA FrameFields ==
    ASSUME NEW f \in Frame
    PROVE  /\ f.corr \in Corr /\ f.opcode \in Opcode /\ f.index \in Nat /\ f.count \in Nat
           /\ f.count \in 0..MaxChunks /\ f.payload \in Payload /\ f.payload \in Nat
           /\ Size[f.payload] \in Nat
<1>1. /\ f.corr \in Corr /\ f.opcode \in Opcode /\ f.index \in 0..MaxChunks
      /\ f.count \in 0..MaxChunks /\ f.payload \in Payload
  BY DEF Frame
<1>2. f.index \in Nat /\ f.count \in Nat
  BY <1>1, BoundsAssumption
<1>3. f.payload \in Nat
  BY <1>1, LinkAssumption
<1>4. Size[f.payload] \in Nat
  BY <1>1, SizeAssumption
<1>5. QED
  BY <1>1, <1>2, <1>3, <1>4

LEMMA ClearedType ==
    ASSUME NEW x \in Transfer
    PROVE  Cleared(x) \in Transfer /\ Cleared(x).count = 0
<1>1. <<>> \in Seq(Payload) /\ 0 \in 0..MaxChunks /\ 0 \in 0..Capacity
  BY BoundsAssumption
<1>2. QED
  BY <1>1 DEF Cleared, Transfer

LEMMA CurrentType ==
    ASSUME NEW x \in Transfer, NEW t \in Nat
    PROVE  Current(x, t) \in Transfer /\ (Active(Current(x, t)) => Current(x, t) = x)
<1>1. CASE Active(x) /\ t - x.last > Timeout
  BY <1>1, ClearedType DEF Current, Active
<1>2. CASE ~(Active(x) /\ t - x.last > Timeout)
  BY <1>2 DEF Current
<1>3. QED
  BY <1>1, <1>2

(* What the registers a chunk is appended to are.                          *)
LEMMA ReceivingType ==
    ASSUME xfer \in Transfer, NEW f \in Frame, NEW t \in Nat, Belongs(f, t)
    PROVE  /\ Receiving(xfer, f, t) \in Transfer
           /\ Receiving(xfer, f, t).corr = f.corr /\ Receiving(xfer, f, t).opcode = f.opcode
           /\ Receiving(xfer, f, t).count = f.count /\ Receiving(xfer, f, t).next = f.index
           /\ \/ f.index = 0 /\ Receiving(xfer, f, t).buffer = <<>>
              \/ f.index > 0 /\ xfer.count > 0 /\ Receiving(xfer, f, t) = xfer
<1>1. WellFormed(f)
  BY DEF Belongs
<1>2. CASE f.index = 0
  <2>1. Receiving(xfer, f, t) = Started(xfer, f)
    BY <1>2 DEF Receiving
  <2>2. Cleared(xfer) \in Transfer /\ Cleared(xfer).count = 0
    BY ClearedType
  <2>3. f.corr \in Corr /\ f.opcode \in Opcode /\ f.count \in 0..MaxChunks
    BY <1>1, FrameFields
  <2>4. Started(xfer, f) \in Transfer
    BY <2>2, <2>3 DEF Started, Transfer
  <2>5. /\ Started(xfer, f).corr = f.corr /\ Started(xfer, f).opcode = f.opcode
        /\ Started(xfer, f).count = f.count /\ Started(xfer, f).next = Cleared(xfer).next
        /\ Started(xfer, f).buffer = Cleared(xfer).buffer
    BY <2>2 DEF Started, Transfer
  <2>6. Cleared(xfer).next = 0 /\ Cleared(xfer).buffer = <<>>
    BY DEF Cleared, Transfer
  <2>7. QED
    BY <1>2, <2>1, <2>4, <2>5, <2>6
<1>3. CASE f.index # 0
  <2>1. /\ Active(Current(xfer, t)) /\ Matches(xfer, f)
        /\ Receiving(xfer, f, t) = Current(xfer, t) /\ Current(xfer, t) = xfer
    BY <1>3, CurrentType DEF Belongs, Receiving
  <2>2. QED
    BY <1>3, <2>1, FrameFields DEF Matches, Active
<1>4. QED
  BY <1>2, <1>3

(* What processing a frame leaves, and what makes a request complete.      *)
LEMMA FrameStep ==
    ASSUME xfer \in Transfer, NEW f \in Frame, NEW t \in Nat, ProcessFrame(f, t)
    PROVE  /\ TypeOK'
           /\ outcome'.kind \in {"reply", "kept", "dispatch"}
           /\ outcome'.kind \in {"reply", "dispatch"} => outcome'.corr = f.corr
           /\ outcome'.kind = "reply" => outcome'.status \in TransportStatus
           /\ outcome'.kind = "dispatch" =>
                 /\ Belongs(f, t)
                 /\ f.index + 1 >= f.count /\ outcome'.opcode = f.opcode
                 /\ outcome'.body = Append(Receiving(xfer, f, t).buffer, f.payload)
                 /\ outcome'.body # <<>> /\ Completes(outcome'.body) = f.payload
<1> DEFINE r == Receiving(xfer, f, t)
<1>1. ASSUME NEW s \in TransportStatus
      PROVE  /\ Reply(f.corr, s) \in Outcome /\ Reply(f.corr, s).kind = "reply"
             /\ Reply(f.corr, s).corr = f.corr /\ Reply(f.corr, s).status = s
  BY FrameFields DEF Reply, Outcome
<1>2. CASE RejectMalformed(f)
  BY <1>1, <1>2 DEF RejectMalformed, TypeOK, TransportStatus
<1>3. CASE RejectNoTransfer(f, t)
  <2>1. xfer' \in Transfer /\ outcome' = Reply(f.corr, "NO_ACTIVE_TRANSFER")
    BY <1>3, CurrentType DEF RejectNoTransfer
  <2>2. QED
    BY <1>1, <2>1 DEF TypeOK, TransportStatus
<1>4. CASE RejectOutOfOrder(f, t)
  <2>1. xfer' \in Transfer /\ outcome' = Reply(f.corr, "CHUNK_OUT_OF_ORDER")
    BY <1>4, ClearedType DEF RejectOutOfOrder
  <2>2. QED
    BY <1>1, <2>1 DEF TypeOK, TransportStatus
<1>5. CASE RejectTooLarge(f, t)
  <2>1. xfer' \in Transfer /\ outcome' = Reply(f.corr, "TOO_LARGE")
    BY <1>5, ReceivingType, ClearedType DEF RejectTooLarge
  <2>2. QED
    BY <1>1, <2>1 DEF TypeOK, TransportStatus
<1>6. CASE KeepChunk(f, t)
  <2>1. /\ Belongs(f, t) /\ r.len + Size[f.payload] <= Capacity /\ xfer' = Appended(r, f, t)
        /\ Appended(r, f, t).next < Appended(r, f, t).count /\ outcome' = Kept
    BY <1>6 DEF KeepChunk, Fits
  <2>2. r \in Transfer
    BY <2>1, ReceivingType
  <2>3. Appended(r, f, t).next = r.next + 1 /\ Appended(r, f, t).count = r.count
    BY DEF Appended
  <2> HIDE DEF r
  <2>4. r.next + 1 \in 0..MaxChunks /\ r.len + Size[f.payload] \in 0..Capacity
    <3>1. r.next \in 0..MaxChunks /\ r.count \in 0..MaxChunks /\ r.len \in 0..Capacity
      BY <2>2 DEF Transfer
    <3>2. Size[f.payload] \in Nat
      BY FrameFields
    <3>3. QED
      BY <2>1, <2>3, <3>1, <3>2, BoundsAssumption
  <2>5. Append(r.buffer, f.payload) \in Seq(Payload)
    BY <2>2, FrameFields DEF Transfer
  <2>6. xfer' \in Transfer
    BY <2>1, <2>2, <2>4, <2>5 DEF Appended, Transfer
  <2>7. QED
    BY <2>1, <2>6 DEF TypeOK, Kept, Outcome
<1>7. CASE CompleteRequest(f, t)
  <2>1. /\ Belongs(f, t) /\ r.len + Size[f.payload] <= Capacity
        /\ xfer' = Cleared(Appended(r, f, t))
        /\ Appended(r, f, t).next >= Appended(r, f, t).count
        /\ outcome' = Dispatch(f.corr, f.opcode, Appended(r, f, t).buffer)
    BY <1>7 DEF CompleteRequest, Fits
  <2>2. r \in Transfer /\ r.next = f.index /\ r.count = f.count
    BY <2>1, ReceivingType
  <2>3. /\ Appended(r, f, t).next = r.next + 1 /\ Appended(r, f, t).count = r.count
        /\ Appended(r, f, t).buffer = Append(r.buffer, f.payload)
    BY DEF Appended
  <2> HIDE DEF r
  <2>4. Append(r.buffer, f.payload) \in Seq(Payload)
    BY <2>2, FrameFields DEF Transfer
  <2>5. xfer' \in Transfer
    <3>1. /\ xfer'.corr = r.corr /\ xfer'.opcode = r.opcode /\ xfer'.count = 0 /\ xfer'.next = 0
          /\ xfer'.len = 0 /\ xfer'.last = t /\ xfer'.buffer = <<>>
          /\ xfer' = [corr |-> r.corr, opcode |-> r.opcode, count |-> 0, next |-> 0, len |-> 0,
                     last |-> t, buffer |-> <<>>]
      BY <2>1 DEF Appended, Cleared
    <3>2. <<>> \in Seq(Payload) /\ 0 \in 0..MaxChunks /\ 0 \in 0..Capacity
      BY BoundsAssumption
    <3>3. QED
      BY <2>2, <3>1, <3>2 DEF Transfer
  <2>6. /\ outcome' \in Outcome /\ outcome'.kind = "dispatch" /\ outcome'.corr = f.corr
        /\ outcome'.opcode = f.opcode /\ outcome'.body = Append(r.buffer, f.payload)
    BY <2>1, <2>3, <2>4, FrameFields DEF Dispatch, Outcome
  <2>7. /\ Append(r.buffer, f.payload) # <<>>
        /\ Completes(Append(r.buffer, f.payload)) = f.payload
    <3>1. r.buffer \in Seq(Payload) /\ f.payload \in Payload
      BY <2>2, FrameFields DEF Transfer
    <3>2. QED
      BY <3>1, AppendOf DEF Completes
  <2>8. f.index + 1 >= f.count
    BY <2>1, <2>2, <2>3
  <2>9. QED
    BY <2>1, <2>5, <2>6, <2>7, <2>8 DEF TypeOK, r
<1>8. QED
  BY <1>2, <1>3, <1>4, <1>5, <1>6, <1>7 DEF ProcessFrame
----------------------------------------------------------------------------
(* Types.                                                                  *)

(* The frames Ask and SendChunk send.                                      *)
AskedFrame(op) == Chunk(asked + 1, client.corr + 1, op, 0)
NextFrame == Chunk(asked, client.corr, client.opcode, client.sent)

LEMMA AskedType ==
    ASSUME TypeInv, NEW op \in Asks, Ask(op)
    PROVE  /\ AskedFrame(op) \in Frame
           /\ AskedFrame(op).corr = client.corr + 1 /\ AskedFrame(op).opcode = op
           /\ AskedFrame(op).index = 0 /\ AskedFrame(op).count = ChunksOf[op]
           /\ AskedFrame(op).payload = asked + 1
           /\ ChunksOf[op] \in Nat /\ ChunksOf[op] >= 1
<1>1. client.corr + 1 \in Corr /\ op \in Opcode /\ asked < MaxAsk /\ asked \in 0..MaxAsk
  BY LinkAssumption DEF Ask, TypeInv, LinkTypeOK
<1>2. asked + 1 \in Payload
  BY <1>1, LinkAssumption
<1>3. ChunksOf[op] \in 1..MaxChunks
  BY <1>1, LinkAssumption
<1>4. 0 \in 0..MaxChunks /\ ChunksOf[op] \in 0..MaxChunks
  BY <1>3, BoundsAssumption
<1>5. QED
  BY <1>1, <1>2, <1>3, <1>4 DEF AskedFrame, Chunk, Frame

LEMMA NextType ==
    ASSUME TypeInv, SendChunk
    PROVE  /\ NextFrame \in Frame
           /\ NextFrame.corr = client.corr /\ NextFrame.opcode = client.opcode
           /\ NextFrame.index = client.sent /\ NextFrame.count = ChunksOf[client.opcode]
           /\ NextFrame.payload = asked
           /\ client.sent \in Nat /\ client.sent > 0 /\ client.sent < ChunksOf[client.opcode]
           /\ asked > 0 /\ ChunksOf[client.opcode] \in Nat
<1>1. /\ client.corr \in Corr /\ client.opcode \in Opcode /\ client.sent \in Nat
      /\ asked \in 0..MaxAsk
  BY DEF TypeInv, LinkTypeOK, ClientState
<1>2. client.sent > 0 /\ asked > 0 /\ client.sent < ChunksOf[client.opcode]
  BY DEF SendChunk, Asking, TypeInv, ClientInv
<1>3. asked \in Payload
  BY <1>1, <1>2, LinkAssumption
<1>4. ChunksOf[client.opcode] \in 1..MaxChunks
  BY <1>1, LinkAssumption
<1>5. client.sent \in 0..MaxChunks /\ ChunksOf[client.opcode] \in 0..MaxChunks
  BY <1>1, <1>2, <1>4, BoundsAssumption
<1>6. QED
  BY <1>1, <1>2, <1>3, <1>4, <1>5 DEF NextFrame, Chunk, Frame

LEMMA InitTypes == LinkInit => TypeInv
<1> SUFFICES ASSUME LinkInit PROVE TypeInv
  OBVIOUS
<1>1. TypeOK
  BY ByteAssumption, BoundsAssumption DEF LinkInit, Init, TypeOK, Transfer, Outcome
<1>2. /\ events \in Seq(Event) /\ air \in Seq(Indication(conn)) /\ queue \in Seq(Command)
      /\ Len(queue) = 0 /\ stored \in Seq(Seq(Payload)) /\ played \in Seq(Seq(Payload))
  BY DEF LinkInit
<1>3. /\ QueueLength \in Nat /\ MaxConn \in Nat /\ MaxAsk \in Nat /\ MaxTime \in Nat
      /\ MaxOther \in Nat /\ MaxCccd \in Nat /\ MaxMtu \in Nat /\ MaxFail \in Nat
      /\ MaxBridge \in Nat
  BY LinkAssumption
<1>4. spent \in [other : 0..MaxOther, cccd : 0..MaxCccd, mtu : 0..MaxMtu,
                 fail : 0..MaxFail, bridge : 0..MaxBridge]
  BY <1>3 DEF LinkInit
<1>5. /\ client \in ClientState
      /\ answer \in Response(conn)
      /\ proof \in [clean : BOOLEAN, fate : {"pending", "landed", "failed"}]
  BY ByteAssumption DEF LinkInit, NoClient, NoAnswer, Unproven, Mtu, Status, Response, ClientState
<1>6. ClientInv
  BY DEF LinkInit, NoClient, ClientInv
<1>7. QED
  <2>1. LinkTypeOK
    <3>1. /\ conn \in 0..MaxConn /\ asked \in 0..MaxAsk /\ now \in 0..MaxTime
          /\ Len(queue) <= QueueLength
      BY <1>2, <1>3 DEF LinkInit
    <3>2. /\ up \in BOOLEAN /\ advertising \in BOOLEAN /\ is_connected \in BOOLEAN
          /\ enable_data_ntf \in BOOLEAN /\ indication_confirmed \in BOOLEAN
          /\ spp_mtu_size \in Mtu /\ pc \in {"idle", "handle", "check", "send", "wait", "busy"}
          /\ lost \subseteq {"store", "other", "reset"}
      BY DEF LinkInit, Mtu
    <3>3. bridge \in 0..MaxBridge
      BY <1>3 DEF LinkInit
    <3>4. QED
      BY <1>1, <1>2, <1>4, <1>5, <3>1, <3>2, <3>3 DEF LinkTypeOK
  <2>2. PcInv
    BY DEF LinkInit, PcInv
  <2>3. QED
    BY <1>6, <2>1, <2>2 DEF TypeInv

(* A step of the client or the stack that leaves the firmware alone.       *)
LEMMA OutsideTypes ==
    ASSUME TypeInv, UNCHANGED <<bleVars, ctlVars, stored, played, lost, regs>>,
           up' \in BOOLEAN, advertising' \in BOOLEAN, conn' \in 0..MaxConn, conn <= conn',
           conn' = 0 => ~up' /\ events' = <<>>,
           events' \in Seq(Event), air' \in Seq(Indication(conn)),
           client' \in ClientState,
           asked' \in 0..MaxAsk, now' \in 0..MaxTime,
           spent' \in [other : 0..MaxOther, cccd : 0..MaxCccd, mtu : 0..MaxMtu,
                       fail : 0..MaxFail, bridge : 0..MaxBridge],
           proof' \in [clean : BOOLEAN, fate : {"pending", "landed", "failed"}],
           ClientInv'
    PROVE  TypeInv'
<1>1. conn \in Nat /\ conn' \in Nat
  BY DEF TypeInv, LinkTypeOK
<1>2. Indication(conn) \subseteq Indication(conn')
  BY <1>1 DEF Indication
<1>3. air' \in Seq(Indication(conn'))
  BY <1>2, SeqMonotone
<1>4. answer \in Response(conn) /\ answer' = answer
  BY DEF TypeInv, LinkTypeOK, ctlVars
<1>5. answer' \in Response(conn')
  BY <1>1, <1>4 DEF Response
<1>6. TypeOK'
  BY DEF TypeInv, LinkTypeOK, TypeOK, regs
<1>7. LinkTypeOK'
  BY <1>3, <1>5, <1>6 DEF TypeInv, LinkTypeOK, bleVars, ctlVars
<1>8. PcInv'
  BY <1>1 DEF TypeInv, LinkTypeOK, PcInv, ctlVars, regs
<1>9. QED
  BY <1>7, <1>8 DEF TypeInv

(* A step that leaves the client's request alone.                          *)
LEMMA SameRequest ==
    ASSUME TypeInv, UNCHANGED asked,
           client'.sent = client.sent, client'.opcode = client.opcode
    PROVE  ClientInv'
BY DEF TypeInv, ClientInv

LEMMA CountsUp ==
    ASSUME NEW m \in Nat, NEW n \in 0..m, n < m
    PROVE  n + 1 \in 0..m
OBVIOUS

LEMMA Bounds ==
    /\ QueueLength \in Nat /\ MaxConn \in Nat /\ MaxAsk \in Nat /\ MaxTime \in Nat
    /\ MaxOther \in Nat /\ MaxCccd \in Nat /\ MaxMtu \in Nat /\ MaxEvents \in Nat
    /\ MaxFail \in Nat /\ MaxBridge \in Nat
BY LinkAssumption

(* What a client writes joins the events.                                  *)
LEMMA WritesEvent ==
    ASSUME TypeInv, NEW e \in Event, ClientWrites(e)
    PROVE  /\ events' \in Seq(Event) /\ Len(events') = Len(events) + 1
           /\ events'[Len(events) + 1] = e
           /\ \A i \in 1..Len(events) : events'[i] = events[i]
           /\ up /\ conn > 0 /\ Len(events) \in Nat
           /\ UNCHANGED <<up, conn, advertising, air, now, bleVars, ctlVars, stored, played, lost,
                          proof, regs>>
<1>1. events \in Seq(Event) /\ events' = Append(events, e)
  BY DEF TypeInv, LinkTypeOK, ClientWrites
<1>2. up /\ conn > 0
  BY DEF ClientWrites, TypeInv, LinkTypeOK, PcInv
<1>3. QED
  BY <1>1, <1>2, AppendOf DEF ClientWrites, histVars

LEMMA WriteTypes ==
    ASSUME TypeInv, NEW e \in Event, ClientWrites(e), client' \in ClientState,
           asked' \in 0..MaxAsk, ClientInv',
           spent' \in [other : 0..MaxOther, cccd : 0..MaxCccd, mtu : 0..MaxMtu,
                       fail : 0..MaxFail, bridge : 0..MaxBridge]
    PROVE  TypeInv'
<1>1. /\ events' \in Seq(Event) /\ conn > 0
      /\ UNCHANGED <<up, conn, advertising, air, now, bleVars, ctlVars, stored, played, lost,
                     proof, regs>>
  BY WritesEvent
<1>2. /\ up \in BOOLEAN /\ advertising \in BOOLEAN /\ conn \in 0..MaxConn
      /\ air \in Seq(Indication(conn)) /\ now \in 0..MaxTime
      /\ proof \in [clean : BOOLEAN, fate : {"pending", "landed", "failed"}]
  BY DEF TypeInv, LinkTypeOK
<1>3. conn <= conn /\ conn # 0
  BY <1>1, <1>2
<1>4. QED
  BY <1>1, <1>2, <1>3, OutsideTypes

(* An indication leaves the air, taken by the client or failed.            *)
Settles == Receive \/ \E i \in 1..Len(air) : Fails(i)

LEMMA SettlesLeaves ==
    ASSUME TypeInv, Settles
    PROVE  /\ events' = Append(events, Confirm) /\ air # <<>> /\ conn > 0
           /\ air' \in Seq(Indication(conn)) /\ Len(air') = Len(air) - 1 /\ Len(air) \in Nat
           /\ \A i \in 1..Len(air') : \E j \in 1..Len(air) : air'[i] = air[j]
           /\ client' \in ClientState
           /\ client'.mtu = client.mtu /\ client'.corr = client.corr
           /\ client'.opcode = client.opcode /\ client'.sent = client.sent
           /\ proof'.clean = proof.clean
           /\ proof' \in [clean : BOOLEAN, fate : {"pending", "landed", "failed"}]
           /\ proof.fate # "pending" => proof'.fate # "pending"
           /\ pc = "wait" /\ Len(air) = 1 => proof'.fate # "pending"
           /\ UNCHANGED <<up, conn, advertising, asked, now, bleVars, ctlVars, stored, played,
                          lost, regs>>
<1>1. /\ air \in Seq(Indication(conn)) /\ Len(air) \in Nat /\ client \in ClientState
      /\ proof \in [clean : BOOLEAN, fate : {"pending", "landed", "failed"}] /\ conn \in Nat
  BY DEF TypeInv, LinkTypeOK
<1>2. ASSUME air # <<>> PROVE conn > 0
  <2>1. air[1] \in Indication(conn)
    BY <1>1, <1>2
  <2>2. air[1].conn \in 1..conn
    BY <2>1 DEF Indication
  <2>3. QED
    BY <1>1, <2>2
<1>3. ASSUME NEW k \in 1..Len(air), NEW f \in {"landed", "failed"}, proof' = Settled(k, f)
      PROVE  /\ proof'.clean = proof.clean
             /\ proof' \in [clean : BOOLEAN, fate : {"pending", "landed", "failed"}]
             /\ proof.fate # "pending" => proof'.fate # "pending"
             /\ pc = "wait" /\ Len(air) = 1 => proof'.fate # "pending"
  <2>1. proof' = [proof EXCEPT !.fate = f] \/ proof' = proof
    BY <1>3 DEF Settled
  <2>2. pc = "wait" /\ Len(air) = 1 /\ proof.fate = "pending" => proof' = [proof EXCEPT !.fate = f]
    BY <1>3 DEF Settled
  <2>3. f # "pending" /\ f \in {"pending", "landed", "failed"}
    BY <1>3
  <2>4. ASSUME proof' = [proof EXCEPT !.fate = f]
        PROVE  /\ proof'.clean = proof.clean /\ proof'.fate = f
               /\ proof' \in [clean : BOOLEAN, fate : {"pending", "landed", "failed"}]
    BY <1>1, <2>3, <2>4
  <2>5. QED
    BY <1>1, <2>1, <2>2, <2>3, <2>4
<1>4. CASE Receive
  <2>1. /\ air # <<>> /\ air' = Tail(air) /\ 1 \in 1..Len(air)
        /\ events' = Append(events, Confirm) /\ proof' = Settled(1, "landed")
        /\ UNCHANGED <<up, conn, advertising, asked, now, bleVars, ctlVars, stored, played,
                       lost, regs>>
    BY <1>1, <1>4 DEF Receive
  <2>2. /\ air' \in Seq(Indication(conn)) /\ Len(air') = Len(air) - 1
        /\ \A i \in 1..Len(air') : i + 1 \in 1..Len(air) /\ air'[i] = air[i + 1]
        /\ Head(air) \in Indication(conn)
    BY <1>1, <2>1, TailOf
  <2>3. /\ client' \in ClientState
        /\ client'.mtu = client.mtu /\ client'.corr = client.corr
        /\ client'.opcode = client.opcode /\ client'.sent = client.sent
    <3> DEFINE r == Head(air)
               next == IF r.index # client.heard THEN "gap"
                       ELSE IF r.index + 1 = r.count THEN r.status ELSE "none"
    <3>1. r.status \in Status
      BY <2>2 DEF Indication
    <3>2. client.heard + 1 \in Nat /\ next \in Status \cup {"gap"}
      BY <1>1, <3>1 DEF Status, ClientState
    <3>3. \/ client' = client
          \/ client' = [client EXCEPT !.heard = @ + 1, !.answer = next]
      BY <1>4 DEF Receive
    <3> HIDE DEF next
    <3>4. QED
      BY <1>1, <3>2, <3>3 DEF ClientState
  <2>4. QED
    BY <1>1, <1>2, <1>3, <2>1, <2>2, <2>3
<1>5. ASSUME NEW k \in 1..Len(air), Fails(k)
      PROVE  /\ air # <<>> /\ air' \in Seq(Indication(conn)) /\ Len(air') = Len(air) - 1
             /\ \A i \in 1..Len(air') : \E j \in 1..Len(air) : air'[i] = air[j]
             /\ client' \in ClientState
             /\ client'.mtu = client.mtu /\ client'.corr = client.corr
             /\ client'.opcode = client.opcode /\ client'.sent = client.sent
             /\ events' = Append(events, Confirm) /\ proof' = Settled(k, "failed")
             /\ UNCHANGED <<up, conn, advertising, asked, now, bleVars, ctlVars, stored, played,
                            lost, regs>>
  <2>1. /\ air' = RemoveAt(air, k) /\ air # <<>>
        /\ client' = [client EXCEPT !.missed = @ \/ air[k].corr = client.corr]
        /\ events' = Append(events, Confirm) /\ proof' = Settled(k, "failed")
        /\ UNCHANGED <<up, conn, advertising, asked, now, bleVars, ctlVars, stored, played,
                       lost, regs>>
    BY <1>1, <1>5 DEF Fails
  <2>2. /\ air' \in Seq(Indication(conn)) /\ Len(air') = Len(air) - 1
        /\ \A i \in 1..Len(air') : /\ i < k => air'[i] = air[i]
                                   /\ i >= k => i + 1 \in 1..Len(air) /\ air'[i] = air[i + 1]
    BY <1>1, <2>1, RemoveAtOf
  <2>3. \A i \in 1..Len(air') : \E j \in 1..Len(air) : air'[i] = air[j]
    <3>1. \A i \in 1..Len(air') : i \in 1..Len(air) /\ (i < k \/ i >= k)
      BY <1>1, <2>2
    <3>2. QED
      BY <2>2, <3>1
  <2>4. /\ client' \in ClientState
        /\ client'.mtu = client.mtu /\ client'.corr = client.corr
        /\ client'.opcode = client.opcode /\ client'.sent = client.sent
    BY <1>1, <2>1 DEF ClientState
  <2>5. QED
    BY <2>1, <2>2, <2>3, <2>4
<1>6. QED
  BY <1>1, <1>2, <1>3, <1>4, <1>5 DEF Settles

(* What uart_task leaves to the others.                                    *)
LEMMA BridgeLeaves ==
    ASSUME TypeInv, Bridge
    PROVE  /\ UNCHANGED events \/ (up /\ events' = Append(events, Confirm))
           /\ UNCHANGED <<up, conn, advertising, air, client, asked, now, is_connected,
                          enable_data_ntf, spp_mtu_size, indication_confirmed, queue, pc,
                          answer, stored, played, lost, xfer, outcome>>
           /\ proof'.clean => proof' = proof /\ bridge > 0
BY DEF Bridge, BridgeReads, BridgeSends, ctlVars, histVars, regs, TypeInv, LinkTypeOK

LEMMA BridgeTypes ==
    ASSUME TypeInv, Bridge PROVE TypeInv'
<1>1. /\ bridge \in 0..MaxBridge /\ events \in Seq(Event)
      /\ spent \in [other : 0..MaxOther, cccd : 0..MaxCccd, mtu : 0..MaxMtu,
                    fail : 0..MaxFail, bridge : 0..MaxBridge]
      /\ proof \in [clean : BOOLEAN, fate : {"pending", "landed", "failed"}]
  BY DEF TypeInv, LinkTypeOK
<1>2. /\ bridge' \in 0..MaxBridge
      /\ spent' \in [other : 0..MaxOther, cccd : 0..MaxCccd, mtu : 0..MaxMtu,
                     fail : 0..MaxFail, bridge : 0..MaxBridge]
      /\ proof' \in [clean : BOOLEAN, fate : {"pending", "landed", "failed"}]
  <2>1. CASE BridgeReads
    <3>1. PICK n \in 1..(MaxBridge - spent.bridge) :
              bridge' = n /\ spent' = [spent EXCEPT !.bridge = @ + n]
      BY <2>1 DEF BridgeReads
    <3>2. n \in 0..MaxBridge /\ spent.bridge + n \in 0..MaxBridge
      <4>1. MaxBridge \in Nat
        BY Bounds
      <4>2. spent.bridge \in 0..MaxBridge
        BY <1>1
      <4>3. QED
        BY <4>1, <4>2
    <3>3. proof' = [proof EXCEPT !.clean = FALSE]
      BY <2>1 DEF BridgeReads
    <3>4. QED
      BY <1>1, <3>1, <3>2, <3>3
  <2>2. CASE BridgeSends
    <3>1. bridge' \in 0..MaxBridge
      BY <1>1, <2>2, Bounds DEF BridgeSends
    <3>2. QED
      BY <1>1, <2>2, <3>1 DEF BridgeSends, histVars
  <2>3. QED
    BY <2>1, <2>2 DEF Bridge
<1>3. events' \in Seq(Event) /\ (conn = 0 => events' = <<>>)
  <2>1. conn = 0 => ~up /\ events = <<>>
    BY DEF TypeInv, PcInv
  <2>2. UNCHANGED <<events, conn>> \/ (up /\ UNCHANGED conn /\ events' = Append(events, Confirm))
    BY BridgeLeaves
  <2>3. Confirm \in Event
    BY EventFields
  <2>4. Append(events, Confirm) \in Seq(Event)
    BY <1>1, <2>3, AppendOf
  <2>5. QED
    BY <1>1, <2>1, <2>2, <2>4
<1>4. TypeOK'
  BY BridgeLeaves DEF TypeInv, LinkTypeOK, TypeOK
<1>5. LinkTypeOK'
  BY <1>2, <1>3, <1>4, BridgeLeaves DEF TypeInv, LinkTypeOK
<1>6. PcInv' /\ ClientInv'
  BY <1>3, BridgeLeaves DEF TypeInv, PcInv, ClientInv
<1>7. QED
  BY <1>5, <1>6 DEF TypeInv

LEMMA NextSent ==
    ASSUME TypeInv, SendChunk
    PROVE  ClientInv'
<1>1. client \in ClientState
  BY DEF TypeInv, LinkTypeOK
<1>2. client' = [client EXCEPT !.sent = client.sent + 1] /\ UNCHANGED asked
  BY DEF SendChunk
<1>3. client'.sent = client.sent + 1 /\ client'.opcode = client.opcode
  BY <1>1, <1>2 DEF ClientState
<1>4. /\ client.sent \in Nat /\ client.sent < ChunksOf[client.opcode]
      /\ asked > 0 /\ ChunksOf[client.opcode] \in Nat
  BY NextType
<1>5. QED
  BY <1>2, <1>3, <1>4 DEF ClientInv

LEMMA ClientTypes ==
    ASSUME TypeInv, Client \/ Tick PROVE TypeInv'
<1> USE DEF TypeInv, LinkTypeOK
<1>1. CASE Connect
  <2>1. events' \in Seq(Event)
    BY <1>1, EventFields, AppendOf DEF Connect
  <2>2. conn + 1 \in 0..MaxConn /\ conn + 1 # 0 /\ conn <= conn + 1
    BY <1>1, Bounds DEF Connect
  <2>3. NoClient \in ClientState
    BY ByteAssumption DEF NoClient, Mtu, Status, ClientState
  <2>4. ClientInv'
    BY <1>1 DEF Connect, NoClient, ClientInv
  <2>5. QED
    BY <1>1, <2>1, <2>2, <2>3, <2>4, OutsideTypes DEF Connect, histVars
<1>2. CASE Drop
  <2>1. events' \in Seq(Event)
    BY <1>2, EventFields, AppendOf DEF Drop
  <2>2. conn # 0 /\ air' \in Seq(Indication(conn)) /\ conn <= conn
    BY <1>2 DEF Drop, PcInv
  <2>3. QED
    BY <1>2, <2>1, <2>2, SameRequest, OutsideTypes DEF Drop, histVars
<1>3. ASSUME NEW on \in BOOLEAN, Subscribe(on) PROVE TypeInv'
  <2>1. ClientWrites(Cccd(on)) /\ Cccd(on) \in Event
    BY <1>3, EventFields DEF Subscribe
  <2>2. spent' \in [other : 0..MaxOther, cccd : 0..MaxCccd, mtu : 0..MaxMtu,
                    fail : 0..MaxFail, bridge : 0..MaxBridge]
    <3>1. spent.cccd + 1 \in 0..MaxCccd
      BY <1>3, Bounds, CountsUp DEF Subscribe
    <3>2. QED
      BY <1>3, <3>1 DEF Subscribe
  <2>3. client' \in ClientState
    BY <1>3 DEF Subscribe, ClientState
  <2>5. ClientInv'
    BY <1>3, <2>3, SameRequest DEF Subscribe, ClientState
  <2>4. QED
    BY <1>3, <2>1, <2>2, <2>3, <2>5, WriteTypes DEF Subscribe
<1>4. CASE ExchangeMtu
  <2>1. ClientWrites(Exchanged) /\ Exchanged \in Event
    BY <1>4, EventFields DEF ExchangeMtu
  <2>2. spent' \in [other : 0..MaxOther, cccd : 0..MaxCccd, mtu : 0..MaxMtu,
                    fail : 0..MaxFail, bridge : 0..MaxBridge]
    <3>1. spent.mtu + 1 \in 0..MaxMtu
      BY <1>4, Bounds, CountsUp DEF ExchangeMtu
    <3>2. QED
      BY <1>4, <3>1 DEF ExchangeMtu
  <2>3. client' \in ClientState
    BY <1>4 DEF ExchangeMtu, Mtu, ClientState
  <2>5. ClientInv'
    BY <1>4, <2>3, SameRequest DEF ExchangeMtu, ClientState
  <2>4. QED
    BY <1>4, <2>1, <2>2, <2>3, <2>5, WriteTypes DEF ExchangeMtu
<1>5. ASSUME NEW op \in Asks, Ask(op) PROVE TypeInv'
  <2>1. AskedFrame(op) \in Frame
    BY <1>5, AskedType
  <2>2. ClientWrites(Write(StoreCmd(AskedFrame(op)))) /\ Write(StoreCmd(AskedFrame(op))) \in Event
    BY <1>5, <2>1, StoreCmdFields, WriteFields DEF Ask, AskedFrame
  <2>3. asked' \in 0..MaxAsk
    BY <1>5, Bounds, CountsUp DEF Ask
  <2>4. client' \in ClientState
    <3>1. op \in Opcode /\ client.corr + 1 \in Corr
      BY <1>5, LinkAssumption DEF Ask
    <3>2. (client.subscribed /\ OneFrame(op)) \in BOOLEAN
      OBVIOUS
    <3>3. QED
      BY <1>5, <3>1, <3>2 DEF Ask, Status, ClientState
  <2>5. ClientInv'
    <3>1. client'.sent = 1 /\ client'.opcode = op /\ asked' > 0
      BY <1>5 DEF Ask, ClientState
    <3>2. QED
      BY <1>5, <3>1, AskedType DEF ClientInv
  <2>6. QED
    BY <1>5, <2>2, <2>3, <2>4, <2>5, WriteTypes DEF Ask
<1>6. CASE SendChunk
  <2>1. NextFrame \in Frame
    BY <1>6, NextType
  <2>2. ClientWrites(Write(StoreCmd(NextFrame))) /\ Write(StoreCmd(NextFrame)) \in Event
    BY <1>6, <2>1, StoreCmdFields, WriteFields DEF SendChunk, NextFrame
  <2>3. client' \in ClientState
    <3>1. client \in ClientState /\ client.sent + 1 \in Nat
      BY DEF ClientState
    <3>2. QED
      BY <1>6, <3>1 DEF SendChunk, ClientState
  <2>4. ClientInv'
    BY <1>6, NextSent
  <2>5. QED
    BY <1>6, <2>2, <2>3, <2>4, WriteTypes DEF SendChunk
<1>7. CASE AskOther
  <2>1. ClientWrites(Write(OtherCmd)) /\ Write(OtherCmd) \in Event
    BY <1>7, CommandFields, WriteFields DEF AskOther
  <2>2. spent' \in [other : 0..MaxOther, cccd : 0..MaxCccd, mtu : 0..MaxMtu,
                    fail : 0..MaxFail, bridge : 0..MaxBridge]
    <3>1. spent.other + 1 \in 0..MaxOther
      BY <1>7, Bounds, CountsUp DEF AskOther
    <3>2. QED
      BY <1>7, <3>1 DEF AskOther
  <2>3. QED
    BY <1>7, <2>1, <2>2, SameRequest, WriteTypes DEF AskOther
<1>8. CASE Settles
  <2>1. events' \in Seq(Event)
    <3>1. events' = Append(events, Confirm)
      BY <1>8, SettlesLeaves
    <3>2. Confirm \in Event /\ events \in Seq(Event)
      BY EventFields
    <3>3. QED
      BY <3>1, <3>2, AppendOf
  <2>2. spent' \in [other : 0..MaxOther, cccd : 0..MaxCccd, mtu : 0..MaxMtu,
                   fail : 0..MaxFail, bridge : 0..MaxBridge]
    <3>1. CASE Receive
      BY <3>1 DEF Receive
    <3>2. ASSUME NEW i \in 1..Len(air), Fails(i) PROVE spent' = [spent EXCEPT !.fail = @ + 1] /\ spent.fail < MaxFail
      BY <3>2 DEF Fails
    <3>3. spent.fail < MaxFail => spent.fail + 1 \in 0..MaxFail
      BY Bounds, CountsUp
    <3>4. QED
      BY <1>8, <3>1, <3>2, <3>3 DEF Settles
  <2>3. conn # 0 /\ conn <= conn /\ ClientInv'
    BY <1>8, SettlesLeaves, SameRequest
  <2>4. QED
    BY <1>8, <2>1, <2>2, <2>3, SettlesLeaves, OutsideTypes
<1>9. CASE Tick
  <2>1. now' \in 0..MaxTime
    BY <1>9, Bounds DEF Tick
  <2>2. QED
    BY <1>9, <2>1, SameRequest, OutsideTypes DEF Tick, histVars, PcInv
<1>10. QED
  BY <1>1, <1>2, <1>3, <1>4, <1>5, <1>6, <1>7, <1>8, <1>9 DEF Client, Settles

(* What the callback task takes from the events.                           *)
LEMMA TakesEvent ==
    ASSUME TypeInv, NEW kind, Next1(kind)
    PROVE  /\ events \in Seq(Event) /\ events # <<>> /\ 1 \in 1..Len(events)
           /\ Head(events) = events[1] /\ events[1] \in Event /\ events[1].kind = kind
           /\ events' \in Seq(Event) /\ Len(events') = Len(events) - 1 /\ Len(events) \in Nat
           /\ \A i \in 1..Len(events') : i + 1 \in 1..Len(events) /\ events'[i] = events[i + 1]
           /\ conn > 0
           /\ UNCHANGED <<up, conn, air, client, asked, spent, now, bridge, pc, answer, stored,
                          played, proof, regs>>
<1>1. events \in Seq(Event) /\ events # <<>> /\ events' = Tail(events)
  BY DEF TypeInv, LinkTypeOK, Next1
<1>2. conn \in Nat /\ conn # 0
  BY <1>1 DEF TypeInv, LinkTypeOK, PcInv
<1>3. QED
  BY <1>1, <1>2, TailOf DEF Next1

LEMMA QueueRoom ==
    ASSUME TypeInv, NEW c \in Command, Room
    PROVE  /\ Append(queue, c) \in Seq(Command) /\ Len(Append(queue, c)) <= QueueLength
           /\ Len(Append(queue, c)) = Len(queue) + 1 /\ Len(queue) \in Nat
           /\ Append(queue, c)[Len(queue) + 1] = c
           /\ \A i \in 1..Len(queue) : Append(queue, c)[i] = queue[i]
<1>1. queue \in Seq(Command)
  BY DEF TypeInv, LinkTypeOK
<1>2. QED
  BY <1>1, AppendOf, Bounds DEF Room

LEMMA CallbackTypes ==
    ASSUME TypeInv, Callback PROVE TypeInv'
<1>1. ASSUME NEW kind, Next1(kind), advertising' \in BOOLEAN, is_connected' \in BOOLEAN,
             enable_data_ntf' \in BOOLEAN, indication_confirmed' \in BOOLEAN,
             spp_mtu_size' \in Mtu, queue' \in Seq(Command), Len(queue') <= QueueLength,
             lost' \subseteq {"store", "other", "reset"}
      PROVE  TypeInv'
  <2>1. /\ events' \in Seq(Event) /\ conn > 0
        /\ UNCHANGED <<up, conn, air, client, asked, spent, now, bridge, pc, answer, stored,
                       played, proof, regs>>
    BY <1>1, TakesEvent
  <2>2. TypeOK'
    BY <2>1 DEF TypeInv, LinkTypeOK, TypeOK, regs
  <2>3. LinkTypeOK'
    BY <1>1, <2>1, <2>2 DEF TypeInv, LinkTypeOK
  <2>4. conn \in Nat /\ conn # 0
    BY <2>1 DEF TypeInv, LinkTypeOK
  <2>5. PcInv'
    BY <2>1, <2>4 DEF TypeInv, PcInv, regs
  <2>6. ClientInv'
    BY <2>1 DEF TypeInv, ClientInv
  <2>7. QED
    BY <2>3, <2>5, <2>6 DEF TypeInv
<1>2. /\ advertising \in BOOLEAN /\ is_connected \in BOOLEAN /\ enable_data_ntf \in BOOLEAN
      /\ indication_confirmed \in BOOLEAN /\ spp_mtu_size \in Mtu /\ queue \in Seq(Command)
      /\ Len(queue) <= QueueLength /\ lost \subseteq {"store", "other", "reset"}
  BY DEF TypeInv, LinkTypeOK
<1>3. CASE ConnectEvt
  BY <1>1, <1>2, <1>3 DEF ConnectEvt
<1>4. CASE MtuEvt
  BY <1>1, <1>2, <1>4 DEF MtuEvt, Mtu
<1>5. CASE CccdEvt
  <2>1. Next1("cccd")
    BY <1>5 DEF CccdEvt
  <2>2. Head(events).on \in BOOLEAN
    BY <2>1, TakesEvent, EventFields
  <2>3. QED
    BY <1>1, <1>2, <1>5, <2>1, <2>2 DEF CccdEvt
<1>6. CASE ConfEvt
  BY <1>1, <1>2, <1>6 DEF ConfEvt
<1>7. CASE WriteEvt
  <2>1. Next1("write") /\ Room /\ queue' = Append(queue, Head(events).command)
    BY <1>7 DEF WriteEvt
  <2>2. Head(events).command \in Command
    BY <2>1, TakesEvent, EventFields, CommandFields
  <2>3. QED
    BY <1>1, <1>2, <1>7, <2>1, <2>2, QueueRoom DEF WriteEvt, bleVars
<1>8. CASE WriteTimeout
  <2>1. Next1("write") /\ lost' = lost \cup {Head(events).command.kind}
    BY <1>8 DEF WriteTimeout
  <2>2. Head(events).command.kind \in {"store", "other", "reset"}
    BY <2>1, TakesEvent, EventFields, CommandFields
  <2>3. QED
    BY <1>1, <1>2, <1>8, <2>1, <2>2 DEF WriteTimeout, bleVars
<1>9. CASE DisconnectEvt
  <2>1. /\ Next1("disconnect") /\ QueueReset
        /\ advertising' \in BOOLEAN /\ is_connected' \in BOOLEAN /\ enable_data_ntf' \in BOOLEAN
        /\ indication_confirmed' \in BOOLEAN /\ spp_mtu_size' \in Mtu
    BY <1>2, <1>9 DEF DisconnectEvt, Mtu
  <2>2. /\ queue' \in Seq(Command) /\ Len(queue') <= QueueLength
        /\ lost' \subseteq {"store", "other", "reset"}
    <3>1. CASE Room
      <4>1. queue' = Append(queue, ResetCmd) /\ lost' = lost
        BY <2>1, <3>1 DEF QueueReset
      <4>2. ResetCmd \in Command
        BY CommandFields
      <4>3. QED
        BY <1>2, <3>1, <4>1, <4>2, QueueRoom
    <3>2. CASE ~Room
      <4>1. lost' = lost \cup {"reset"} /\ queue' = queue
        BY <2>1, <3>2 DEF QueueReset
      <4>2. QED
        BY <1>2, <4>1
    <3>3. QED
      BY <3>1, <3>2
  <2>3. QED
    BY <1>1, <2>1, <2>2
<1>10. QED
  BY <1>3, <1>4, <1>5, <1>6, <1>7, <1>8, <1>9 DEF Callback

(* A step of the controller task.                                          *)
LEMMA InsideTypes ==
    ASSUME TypeInv, conn # 0, TypeOK',
           UNCHANGED <<up, conn, advertising, events, client, asked, spent, now,
                       is_connected, enable_data_ntf, spp_mtu_size, bridge, lost>>,
           air' \in Seq(Indication(conn)), indication_confirmed' \in BOOLEAN,
           queue' \in Seq(Command), Len(queue') <= QueueLength,
           pc' \in {"idle", "handle", "check", "send", "wait", "busy"},
           answer' \in Response(conn),
           stored' \in Seq(Seq(Payload)), played' \in Seq(Seq(Payload)),
           proof' \in [clean : BOOLEAN, fate : {"pending", "landed", "failed"}],
           pc' = "handle" => outcome'.kind = "dispatch",
           pc' \in {"check", "send", "wait"} =>
                 /\ outcome'.kind \in {"reply", "dispatch"}
                 /\ answer'.status = "OK" => outcome'.kind = "dispatch"
                 /\ answer'.conn > 0
    PROVE  TypeInv'
<1>1. LinkTypeOK'
  BY DEF TypeInv, LinkTypeOK
<1>2. PcInv'
  BY DEF PcInv
<1>3. ClientInv'
  BY DEF TypeInv, ClientInv
<1>4. QED
  BY <1>1, <1>2, <1>3 DEF TypeInv

LEMMA TakesCommand ==
    ASSUME TypeInv, NEW kind, Take(kind)
    PROVE  /\ pc = "idle" /\ queue \in Seq(Command) /\ queue # <<>> /\ 1 \in 1..Len(queue)
           /\ Head(queue) = queue[1] /\ queue[1] \in Command /\ queue[1].kind = kind
           /\ queue' \in Seq(Command) /\ Len(queue') = Len(queue) - 1 /\ Len(queue) \in Nat
           /\ Len(queue') <= QueueLength
           /\ \A i \in 1..Len(queue') : i + 1 \in 1..Len(queue) /\ queue'[i] = queue[i + 1]
           /\ conn # 0
           /\ UNCHANGED <<up, conn, advertising, events, air, client, asked, spent, now,
                          is_connected, enable_data_ntf, spp_mtu_size, bridge, indication_confirmed,
                          stored, played, lost, proof>>
<1>1. queue \in Seq(Command) /\ queue # <<>> /\ queue' = Tail(queue) /\ Len(queue) <= QueueLength
  BY DEF TypeInv, LinkTypeOK, Take
<1>2. conn # 0
  BY <1>1 DEF TypeInv, PcInv
<1>3. Len(queue') = Len(queue) - 1 /\ Len(queue) \in Nat /\ Len(queue') <= QueueLength
  BY <1>1, TailOf, Bounds
<1>4. QED
  BY <1>1, <1>2, <1>3, TailOf DEF Take, Quiet, linkVars, histVars

(* Where a frame leaves the controller.                                    *)
LEMMA TakeStoreStep ==
    ASSUME TypeInv, TakeStore
    PROVE  /\ Take("store") /\ queue[1].frame \in Frame /\ now \in Nat /\ xfer \in Transfer
           /\ \/ enable_data_ntf /\ ProcessFrame(queue[1].frame, now)
              \/ ~enable_data_ntf /\ DropUnsubscribed
           /\ \/ pc' = "check" /\ outcome'.kind = "reply" /\ Respond(outcome'.status, 0)
              \/ pc' = "handle" /\ outcome'.kind = "dispatch" /\ UNCHANGED answer
              \/ pc' = "idle" /\ outcome'.kind \notin {"reply", "dispatch"} /\ UNCHANGED answer
<1>1. Take("store") /\ Head(queue) = queue[1] /\ pc = "idle" /\ queue[1].frame \in Frame
  BY TakesCommand, CommandFields DEF TakeStore
<1>2. now \in Nat /\ xfer \in Transfer
  BY Bounds DEF TypeInv, LinkTypeOK, TypeOK
<1>3. \/ enable_data_ntf /\ ProcessFrame(queue[1].frame, now)
      \/ ~enable_data_ntf /\ DropUnsubscribed
  BY <1>1 DEF TakeStore
<1>4. \/ pc' = "check" /\ outcome'.kind = "reply" /\ Respond(outcome'.status, 0)
      \/ pc' = "handle" /\ outcome'.kind = "dispatch" /\ UNCHANGED answer
      \/ pc' = "idle" /\ outcome'.kind \notin {"reply", "dispatch"} /\ UNCHANGED answer
  BY <1>1 DEF TakeStore
<1>5. QED
  BY <1>1, <1>2, <1>3, <1>4

(* The response that respond() begins.                                     *)
LEMMA Responds ==
    ASSUME TypeInv, NEW s \in Status, NEW op, s = "OK" => op \in Opcode, Respond(s, op)
    PROVE  /\ answer' \in Response(conn)
           /\ answer'.status = s /\ answer'.index = 0 /\ answer'.mtu = spp_mtu_size
           /\ answer'.conn = conn /\ answer'.count \in Nat /\ answer'.count > 0
           /\ s # "OK" => answer'.count = 1
<1>1. conn \in Nat /\ spp_mtu_size \in Mtu
  BY DEF TypeInv, LinkTypeOK
<1>2. s = "OK" => FramesOf[spp_mtu_size][op] \in Nat \ {0}
  BY <1>1, LinkAssumption
<1> DEFINE n == IF s = "OK" THEN FramesOf[spp_mtu_size][op] ELSE 1
<1>3. n \in Nat /\ n > 0 /\ (s # "OK" => n = 1)
  BY <1>2
<1>4. answer' = [status |-> s, index |-> 0, mtu |-> spp_mtu_size, conn |-> conn, count |-> n]
  BY DEF Respond
<1> HIDE DEF n
<1>5. QED
  BY <1>1, <1>3, <1>4 DEF Response

(* The frame respond() sends next.                                         *)
Sending == [corr |-> outcome.corr, status |-> answer.status, index |-> answer.index,
            count |-> answer.count, mtu |-> answer.mtu, conn |-> answer.conn]

LEMMA SentType ==
    ASSUME TypeInv, outcome.kind \in {"reply", "dispatch"}, answer.conn > 0
    PROVE  Sending \in Indication(conn)
<1>1. outcome.corr \in Corr
  BY DEF TypeInv, LinkTypeOK, TypeOK, Outcome, Dropped, Kept
<1>2. answer \in Response(conn) /\ conn \in Nat
  BY DEF TypeInv, LinkTypeOK
<1>3. QED
  BY <1>1, <1>2 DEF Sending, Response, Indication

LEMMA ControllerTypes ==
    ASSUME TypeInv, Controller PROVE TypeInv'
<1>1. /\ TypeOK /\ air \in Seq(Indication(conn)) /\ indication_confirmed \in BOOLEAN
      /\ queue \in Seq(Command) /\ Len(queue) <= QueueLength /\ answer \in Response(conn)
      /\ stored \in Seq(Seq(Payload)) /\ played \in Seq(Seq(Payload))
      /\ proof \in [clean : BOOLEAN, fate : {"pending", "landed", "failed"}]
      /\ pc \in {"idle", "handle", "check", "send", "wait", "busy"} /\ conn \in Nat
  BY DEF TypeInv, LinkTypeOK
<1>2. pc # "idle" => conn # 0
  BY DEF TypeInv, PcInv
<1>3. NoAnswer \in Response(conn) /\ Unproven \in [clean : BOOLEAN, fate : {"pending", "landed", "failed"}]
  BY <1>1 DEF NoAnswer, Unproven, Response, Status, Mtu
<1>4. CASE TakeReset
  <2>1. Take("reset") /\ StoreReset /\ UNCHANGED <<pc, answer>>
    BY <1>4 DEF TakeReset
  <2>2. TypeOK'
    BY <1>1, <2>1, ClearedType DEF StoreReset, TypeOK
  <2>3. QED
    BY <1>1, <2>1, <2>2, TakesCommand, InsideTypes
<1>5. CASE TakeOther
  <2>1. Take("other") /\ pc' = "busy" /\ UNCHANGED <<answer, regs>>
    BY <1>5 DEF TakeOther
  <2>2. TypeOK'
    BY <1>1, <2>1 DEF regs, TypeOK
  <2>3. QED
    BY <1>1, <2>1, <2>2, TakesCommand, InsideTypes
<1>6. CASE TakeStore
  <2>1. Take("store")
    BY <1>6, TakeStoreStep
  <2>2. TypeOK'
    <3>1. CASE enable_data_ntf /\ ProcessFrame(queue[1].frame, now)
      BY <1>6, <3>1, TakeStoreStep, FrameStep
    <3>2. CASE ~enable_data_ntf /\ DropUnsubscribed
      BY <1>1, <3>2 DEF DropUnsubscribed, TypeOK, Outcome
    <3>3. QED
      BY <1>6, <3>1, <3>2, TakeStoreStep
  <2>3. CASE pc' = "check" /\ outcome'.kind = "reply" /\ Respond(outcome'.status, 0)
    <3>1. outcome'.status \in TransportStatus
      BY <2>2, <2>3 DEF TypeOK, Outcome, Dropped, Kept
    <3>2. outcome'.status \in Status /\ outcome'.status # "OK"
      BY <3>1 DEF Status, TransportStatus
    <3>3. answer' \in Response(conn) /\ answer'.status # "OK" /\ answer'.conn = conn
      BY <2>3, <3>2, Responds
    <3>4. QED
      BY <1>1, <2>1, <2>2, <2>3, <3>3, TakesCommand, InsideTypes
  <2>4. CASE pc' = "handle" /\ outcome'.kind = "dispatch" /\ UNCHANGED answer
    BY <1>1, <2>1, <2>2, <2>4, TakesCommand, InsideTypes
  <2>5. CASE pc' = "idle" /\ outcome'.kind \notin {"reply", "dispatch"} /\ UNCHANGED answer
    BY <1>1, <2>1, <2>2, <2>5, TakesCommand, InsideTypes
  <2>6. QED
    BY <1>6, <2>3, <2>4, <2>5, TakeStoreStep
<1>7. CASE Handle
  <2>1. /\ pc = "handle" /\ pc' = "check" /\ outcome.kind = "dispatch"
        /\ UNCHANGED <<up, conn, advertising, events, air, client, asked, spent, now,
                       is_connected, enable_data_ntf, spp_mtu_size, bridge, indication_confirmed, queue,
                       played, lost, proof, xfer, outcome>>
    BY <1>7 DEF Handle, Quiet, linkVars, regs, TypeInv, PcInv
  <2>2. outcome.opcode \in Opcode /\ outcome.body \in Seq(Payload)
    BY <1>1, <2>1 DEF TypeOK, Outcome, Dropped, Kept
  <2>3. \/ Respond("OK", outcome.opcode) \/ Respond("REFUSED", outcome.opcode)
    BY <1>7 DEF Handle
  <2>4. answer' \in Response(conn) /\ answer'.conn = conn
    BY <2>2, <2>3, Responds DEF Status
  <2>5. stored' \in Seq(Seq(Payload))
    <3>1. Append(stored, outcome.body) \in Seq(Seq(Payload))
      BY <1>1, <2>2
    <3>2. stored' = stored \/ stored' = Append(stored, outcome.body)
      BY <1>7 DEF Handle
    <3>3. QED
      BY <1>1, <3>1, <3>2
  <2>6. TypeOK'
    BY <1>1, <2>1 DEF TypeOK
  <2>7. QED
    BY <1>1, <1>2, <2>1, <2>4, <2>5, <2>6, InsideTypes
<1>8. CASE CheckFails
  <2>1. /\ pc = "check" /\ pc' = "idle" /\ answer' = NoAnswer
        /\ UNCHANGED <<up, conn, advertising, events, air, client, asked, spent, now,
                       is_connected, enable_data_ntf, spp_mtu_size, bridge, indication_confirmed, queue,
                       stored, played, lost, proof, xfer, outcome>>
    BY <1>8 DEF CheckFails, Quiet, linkVars, histVars, regs
  <2>2. QED
    BY <1>1, <1>2, <1>3, <2>1, InsideTypes DEF TypeOK
<1>9. CASE Drain
  <2>1. /\ pc = "check" /\ pc' = "send" /\ indication_confirmed' = FALSE /\ proof' = Worth
        /\ UNCHANGED <<up, conn, advertising, events, air, client, asked, spent, now,
                       is_connected, enable_data_ntf, spp_mtu_size, bridge, queue, answer,
                       stored, played, lost, xfer, outcome>>
    BY <1>9 DEF Drain, Quiet, linkVars, regs
  <2>2. Worth \in [clean : BOOLEAN, fate : {"pending", "landed", "failed"}]
    <3>1. (/\ air = <<>> /\ bridge = 0
           /\ \A i \in 1..Len(events) : events[i] # Confirm) \in BOOLEAN
      OBVIOUS
    <3>2. QED
      BY <1>3, <3>1 DEF Worth
  <2>3. /\ outcome'.kind \in {"reply", "dispatch"} /\ answer'.conn > 0
        /\ answer'.status = "OK" => outcome'.kind = "dispatch"
    BY <2>1 DEF TypeInv, PcInv
  <2>4. TypeOK'
    BY <1>1, <2>1 DEF TypeOK
  <2>5. QED
    BY <1>1, <1>2, <2>1, <2>2, <2>3, <2>4, InsideTypes
<1>10. CASE Send
  <2>1. /\ pc = "send"
        /\ UNCHANGED <<up, conn, advertising, events, client, asked, spent, now,
                       is_connected, enable_data_ntf, spp_mtu_size, bridge, indication_confirmed, queue,
                       stored, played, lost, xfer, outcome>>
    BY <1>10 DEF Send, bleVars, regs
  <2>2. /\ outcome.kind \in {"reply", "dispatch"} /\ answer.conn > 0
        /\ answer.status = "OK" => outcome.kind = "dispatch"
    BY <2>1 DEF TypeInv, PcInv
  <2>3. TypeOK'
    BY <1>1, <2>1 DEF TypeOK
  <2>4. CASE up
    <3>1. Sending \in Indication(conn)
      BY <2>2, SentType
    <3>2. pc' = "wait" /\ answer' = answer /\ air' = Append(air, Sending)
      BY <1>10, <2>4 DEF Send, Sending
    <3>3. proof' \in [clean : BOOLEAN, fate : {"pending", "landed", "failed"}]
      BY <1>1, <1>10, <2>4 DEF Send
    <3>4. air' \in Seq(Indication(conn))
      BY <1>1, <3>1, <3>2, AppendOf
    <3>5. QED
      BY <1>1, <1>2, <2>1, <2>2, <2>3, <3>2, <3>3, <3>4, InsideTypes
  <2>5. CASE ~up
    <3>1. pc' = "idle" /\ answer' = NoAnswer /\ proof' = Unproven /\ air' = air
      BY <1>10, <2>5 DEF Send
    <3>2. QED
      BY <1>1, <1>2, <1>3, <2>1, <2>3, <3>1, InsideTypes
  <2>6. QED
    BY <2>4, <2>5
<1>11. CASE Confirmed
  <2>1. /\ pc = "wait" /\ indication_confirmed' = FALSE /\ proof' = Unproven
        /\ pc' \in {"check", "busy", "idle"}
        /\ pc' = "check" => answer' = [answer EXCEPT !.index = @ + 1]
        /\ pc' # "check" => answer' = NoAnswer
        /\ UNCHANGED <<up, conn, advertising, events, air, client, asked, spent, now,
                       is_connected, enable_data_ntf, spp_mtu_size, bridge, queue,
                       stored, lost, xfer, outcome>>
    BY <1>11 DEF Confirmed, Quiet, linkVars, regs
  <2>2. /\ outcome.kind \in {"reply", "dispatch"} /\ answer.conn > 0
        /\ answer.status = "OK" => outcome.kind = "dispatch"
    BY <2>1 DEF TypeInv, PcInv
  <2>3. /\ [answer EXCEPT !.index = @ + 1] \in Response(conn)
        /\ [answer EXCEPT !.index = @ + 1].conn = answer.conn
        /\ [answer EXCEPT !.index = @ + 1].status = answer.status
    <3>1. /\ answer.index + 1 \in Nat /\ answer.status \in Status /\ answer.count \in Nat
          /\ answer.mtu \in Mtu /\ answer.conn \in 0..conn
          /\ answer = [status |-> answer.status, index |-> answer.index, count |-> answer.count,
                      mtu |-> answer.mtu, conn |-> answer.conn]
      BY <1>1 DEF Response
    <3>2. QED
      BY <3>1 DEF Response
  <2>4. played' \in Seq(Seq(Payload))
    <3>1. \/ played' = played
          \/ answer.status = "OK" /\ played' = Append(played, outcome.body)
      BY <1>11 DEF Confirmed
    <3>2. outcome.kind = "dispatch" => outcome.body \in Seq(Payload)
      BY <1>1 DEF TypeOK, Outcome, Dropped, Kept
    <3>3. outcome.kind = "dispatch" => Append(played, outcome.body) \in Seq(Seq(Payload))
      BY <1>1, <3>2
    <3>4. QED
      BY <1>1, <2>2, <3>1, <3>3
  <2>5. TypeOK'
    BY <1>1, <2>1 DEF TypeOK
  <2>6. QED
    BY <1>1, <1>2, <1>3, <2>1, <2>2, <2>3, <2>4, <2>5, InsideTypes
<1>12. CASE ConfirmTimeout
  <2>1. /\ pc = "wait" /\ pc' = "idle" /\ answer' = NoAnswer /\ proof' = Unproven
        /\ UNCHANGED <<up, conn, advertising, events, air, client, asked, spent, now,
                       is_connected, enable_data_ntf, spp_mtu_size, bridge, indication_confirmed, queue,
                       stored, played, lost, xfer, outcome>>
    BY <1>12 DEF ConfirmTimeout, Quiet, linkVars, regs
  <2>2. QED
    BY <1>1, <1>2, <1>3, <2>1, InsideTypes DEF TypeOK
<1>13. CASE Finish
  <2>1. /\ pc = "busy" /\ pc' = "idle"
        /\ UNCHANGED <<up, conn, advertising, events, air, client, asked, spent, now,
                       is_connected, enable_data_ntf, spp_mtu_size, bridge, indication_confirmed, queue,
                       answer, stored, played, lost, proof, xfer, outcome>>
    BY <1>13 DEF Finish, Quiet, linkVars, histVars, regs
  <2>2. QED
    BY <1>1, <1>2, <2>1, InsideTypes DEF TypeOK
<1>14. QED
  BY <1>4, <1>5, <1>6, <1>7, <1>8, <1>9, <1>10, <1>11, <1>12, <1>13 DEF Controller, Indicate

LEMMA TypeStep == TypeInv /\ [Next]_vars => TypeInv'
<1> SUFFICES ASSUME TypeInv, [Next]_vars PROVE TypeInv'
  OBVIOUS
<1>1. CASE UNCHANGED vars
  BY <1>1 DEF vars, linkVars, bleVars, ctlVars, histVars, regs,
              TypeInv, LinkTypeOK, PcInv, ClientInv, TypeOK
<1>2. QED
  BY <1>1, ClientTypes, BridgeTypes, CallbackTypes, ControllerTypes DEF Next
----------------------------------------------------------------------------
(* The link and its MTU.                                                   *)

(* What the controller task leaves to the others.                          *)
LEMMA ControllerLeaves ==
    ASSUME TypeInv, Controller
    PROVE  /\ UNCHANGED <<up, conn, advertising, events, client, asked, spent, now,
                          is_connected, enable_data_ntf, spp_mtu_size, bridge, lost>>
           /\ \/ UNCHANGED air
              \/ Send /\ up /\ air' = Append(air, Sending)
<1>1. CASE TakeReset \/ TakeOther \/ TakeStore
  BY <1>1, TakesCommand DEF TakeReset, TakeOther, TakeStore
<1>2. CASE Send
  BY <1>2 DEF Send, Sending, bleVars
<1>3. CASE Handle \/ CheckFails \/ Drain
  BY <1>3 DEF Handle, CheckFails, Drain, Quiet, linkVars, histVars
<1>4. CASE Confirmed \/ ConfirmTimeout \/ Finish
  BY <1>4 DEF Confirmed, ConfirmTimeout, Finish, Quiet, linkVars, histVars
<1>5. QED
  BY <1>1, <1>2, <1>3, <1>4 DEF Controller, Indicate

LEMMA AppendsEvent ==
    ASSUME TypeInv, NEW e \in Event, events' = Append(events, e)
    PROVE  /\ events' \in Seq(Event) /\ events' # <<>> /\ Len(events) \in Nat
           /\ Len(events') = Len(events) + 1 /\ events'[Len(events) + 1] = e
           /\ \A i \in 1..Len(events) : events'[i] = events[i]
<1>1. events \in Seq(Event)
  BY DEF TypeInv, LinkTypeOK
<1>2. QED
  BY <1>1, AppendOf

(* The events a client's writes add to, and those of the stack.            *)
LEMMA ClientEvents ==
    ASSUME TypeInv, Client
    PROVE  \/ Connect /\ events' = Append(events, Connected)
           \/ Drop /\ events' = Append(events, Disconnected)
           \/ Settles /\ events' = Append(events, Confirm)
           \/ \E on \in BOOLEAN : Subscribe(on) /\ ClientWrites(Cccd(on))
           \/ ExchangeMtu /\ ClientWrites(Exchanged)
           \/ \E op \in Asks : /\ Ask(op) /\ AskedFrame(op) \in Frame
                               /\ ClientWrites(Write(StoreCmd(AskedFrame(op))))
           \/ SendChunk /\ NextFrame \in Frame /\ ClientWrites(Write(StoreCmd(NextFrame)))
           \/ AskOther /\ ClientWrites(Write(OtherCmd))
<1>1. ASSUME NEW op \in Asks, Ask(op)
      PROVE  AskedFrame(op) \in Frame /\ ClientWrites(Write(StoreCmd(AskedFrame(op))))
  BY <1>1, AskedType DEF Ask, AskedFrame
<1>2. ASSUME SendChunk
      PROVE  NextFrame \in Frame /\ ClientWrites(Write(StoreCmd(NextFrame)))
  BY <1>2, NextType DEF SendChunk, NextFrame
<1>3. CASE \E op \in Asks : Ask(op)
  BY <1>1, <1>3
<1>4. CASE SendChunk
  BY <1>2, <1>4
<1>5. CASE Connect \/ Drop \/ Settles
  BY <1>5, SettlesLeaves DEF Connect, Drop
<1>6. CASE ExchangeMtu \/ AskOther \/ \E on \in BOOLEAN : Subscribe(on)
  BY <1>6 DEF ExchangeMtu, AskOther, Subscribe
<1>7. QED
  BY <1>3, <1>4, <1>5, <1>6 DEF Client, Settles

(* A write is of one of three kinds.                                       *)
LEMMA WritesKind ==
    ASSUME TypeInv, Client
    PROVE  \/ Connect \/ Drop \/ Settles
           \/ \E e \in Event : /\ ClientWrites(e) /\ e.kind \in {"cccd", "mtu", "write"}
                               /\ e.kind = "mtu" => ExchangeMtu
<1>1. CASE \E on \in BOOLEAN : Subscribe(on) /\ ClientWrites(Cccd(on))
  BY <1>1, EventFields
<1>2. CASE ExchangeMtu /\ ClientWrites(Exchanged)
  BY <1>2, EventFields
<1>3. CASE \E op \in Asks : /\ Ask(op) /\ AskedFrame(op) \in Frame
                            /\ ClientWrites(Write(StoreCmd(AskedFrame(op))))
  BY <1>3, StoreCmdFields, WriteFields
<1>4. CASE SendChunk /\ NextFrame \in Frame /\ ClientWrites(Write(StoreCmd(NextFrame)))
  BY <1>4, StoreCmdFields, WriteFields
<1>5. CASE AskOther /\ ClientWrites(Write(OtherCmd))
  BY <1>5, CommandFields, WriteFields
<1>6. QED
  BY <1>1, <1>2, <1>3, <1>4, <1>5, ClientEvents

LEMMA LinkStep == TypeInv /\ LinkInv /\ [Next]_vars => LinkInv'
<1> SUFFICES ASSUME TypeInv, LinkInv, [Next]_vars PROVE LinkInv'
  OBVIOUS
<1>1. /\ events \in Seq(Event) /\ Len(events) \in Nat /\ (events = <<>> <=> Len(events) = 0)
      /\ up \in BOOLEAN /\ advertising \in BOOLEAN
  BY DEF TypeInv, LinkTypeOK
<1>2. ASSUME UNCHANGED <<up, advertising, events, spp_mtu_size>>, ~up => air' = <<>>
      PROVE  LinkInv'
  BY <1>2 DEF LinkInv
<1>3. CASE Connect
  <2>1. /\ events = <<>> /\ events' = Append(events, Connected)
        /\ up' = TRUE /\ advertising' = FALSE
    BY <1>3 DEF Connect, LinkInv
  <2>2. Len(events') = 1 /\ events'[1].kind = "connect"
    BY <1>1, <2>1, AppendsEvent, EventFields
  <2>3. QED
    BY <2>1, <2>2 DEF LinkInv
<1>4. CASE Drop
  <2>1. /\ up /\ up' = FALSE /\ air' = <<>> /\ advertising' = advertising
        /\ events' = Append(events, Disconnected) /\ spp_mtu_size' = spp_mtu_size
    BY <1>4 DEF Drop, bleVars
  <2>2. /\ Len(events') = Len(events) + 1 /\ events'[Len(events) + 1].kind = "disconnect"
        /\ events' # <<>>
        /\ \A i \in 1..Len(events) : events'[i].kind = events[i].kind
    BY <2>1, AppendsEvent, EventFields
  <2>3. \A i \in 1..Len(events) : events[i].kind # "disconnect" /\ i # Len(events) + 1
    BY <1>1, <2>1 DEF LinkInv
  <2>4. \A i \in 1..Len(events') : i = Len(events) + 1 \/ i \in 1..Len(events)
    BY <1>1, <2>2
  <2>5. ~advertising
    BY <2>1 DEF LinkInv
  <2>6. QED
    BY <2>1, <2>2, <2>3, <2>4, <2>5 DEF LinkInv
<1>5. ASSUME NEW e \in Event, up, events' = Append(events, e), e.kind # "disconnect",
             UNCHANGED <<up, advertising, spp_mtu_size>>
      PROVE  LinkInv'
  <2>1. /\ Len(events') = Len(events) + 1 /\ events'[Len(events) + 1].kind # "disconnect"
        /\ \A i \in 1..Len(events) : events'[i].kind = events[i].kind
    BY <1>5, AppendsEvent
  <2>2. \A i \in 1..Len(events') : i = Len(events) + 1 \/ i \in 1..Len(events)
    BY <1>1, <2>1
  <2>3. ~advertising /\ \A i \in 1..Len(events) : events[i].kind # "disconnect"
    BY <1>5 DEF LinkInv
  <2>4. QED
    BY <1>5, <2>1, <2>2, <2>3 DEF LinkInv
<1>6. CASE Settles
  <2>1. up
    BY <1>6, SettlesLeaves DEF LinkInv
  <2>2. QED
    BY <1>5, <1>6, <2>1, EventFields, SettlesLeaves DEF bleVars
<1>7. CASE \E e \in Event : /\ ClientWrites(e) /\ e.kind \in {"cccd", "mtu", "write"}
                            /\ e.kind = "mtu" => ExchangeMtu
  BY <1>5, <1>7 DEF ClientWrites, bleVars
<1>8. CASE Tick
  BY <1>2, <1>8 DEF Tick, bleVars, LinkInv
<1>9. ASSUME NEW kind, Next1(kind), kind # "disconnect", UNCHANGED advertising
      PROVE  LinkInv'
  <2>1. /\ events # <<>> /\ events[1].kind = kind /\ 1 \in 1..Len(events)
        /\ Len(events') = Len(events) - 1
        /\ \A i \in 1..Len(events') : i + 1 \in 1..Len(events) /\ events'[i] = events[i + 1]
        /\ UNCHANGED <<up, air>> /\ events' \in Seq(Event)
    BY <1>9, TakesEvent
  <2>2. ~advertising
    BY <2>1 DEF LinkInv
  <2>3. ~up => Len(events) # 1
    BY <1>9, <2>1 DEF LinkInv
  <2>4. ~up => events' # <<>>
    BY <1>1, <2>1, <2>3
  <2>5. \A i \in 1..Len(events') : events'[i].kind = "disconnect" <=> ~up /\ i = Len(events')
    BY <1>1, <2>1 DEF LinkInv
  <2>6. QED
    BY <1>9, <2>1, <2>2, <2>4, <2>5 DEF LinkInv
<1>10. CASE DisconnectEvt
  <2>1. /\ Next1("disconnect") /\ spp_mtu_size' = "small" /\ advertising' = TRUE
    BY <1>10 DEF DisconnectEvt
  <2>2. /\ events[1].kind = "disconnect" /\ 1 \in 1..Len(events)
        /\ Len(events') = Len(events) - 1 /\ events' \in Seq(Event)
        /\ UNCHANGED <<up, air>>
    BY <2>1, TakesEvent
  <2>3. ~up /\ Len(events) = 1
    BY <2>2 DEF LinkInv
  <2>4. events' = <<>>
    BY <2>2, <2>3
  <2>5. QED
    BY <2>1, <2>2, <2>3, <2>4 DEF LinkInv
<1>11. CASE Callback
  <2>1. CASE ConnectEvt \/ MtuEvt \/ CccdEvt \/ ConfEvt
    BY <1>9, <2>1 DEF ConnectEvt, MtuEvt, CccdEvt, ConfEvt
  <2>2. CASE WriteEvt \/ WriteTimeout
    BY <1>9, <2>2 DEF WriteEvt, WriteTimeout
  <2>3. QED
    BY <1>10, <1>11, <2>1, <2>2 DEF Callback
<1>12. CASE Controller
  BY <1>2, <1>12, ControllerLeaves DEF LinkInv
<1>13. CASE UNCHANGED vars
  BY <1>2, <1>13 DEF vars, linkVars, bleVars, LinkInv
<1>14. CASE Bridge
  BY <1>2, <1>5, <1>14, EventFields, BridgeLeaves DEF LinkInv
<1>15. QED
  BY <1>3, <1>4, <1>6, <1>7, <1>8, <1>11, <1>12, <1>13, <1>14, WritesKind DEF Next

(* A response keeps the MTU and the connection it began with.              *)
LEMMA AnswerKeeps ==
    ASSUME TypeInv, Controller
    PROVE  \/ answer'.mtu = answer.mtu /\ answer'.conn = answer.conn
           \/ answer'.mtu = "small"
           \/ answer'.mtu = spp_mtu_size /\ answer'.conn = conn
<1>1. NoAnswer.mtu = "small"
  BY DEF NoAnswer
<1>2. CASE TakeReset \/ TakeOther \/ Drain \/ Finish
  BY <1>2 DEF TakeReset, TakeOther, Drain, Finish
<1>3. CASE CheckFails \/ ConfirmTimeout
  BY <1>1, <1>3 DEF CheckFails, ConfirmTimeout
<1>4. CASE Send
  BY <1>1, <1>4 DEF Send
<1>5. CASE Confirmed
  <2>1. answer' = [answer EXCEPT !.index = @ + 1] \/ answer' = NoAnswer
    BY <1>5 DEF Confirmed
  <2>2. answer \in Response(conn)
    BY DEF TypeInv, LinkTypeOK
  <2>3. QED
    BY <1>1, <2>1, <2>2 DEF Response
<1>6. ASSUME NEW s, NEW op, Respond(s, op)
      PROVE  answer'.mtu = spp_mtu_size /\ answer'.conn = conn
  BY <1>6 DEF Respond
<1>7. CASE Handle
  BY <1>6, <1>7 DEF Handle
<1>8. CASE TakeStore
  BY <1>6, <1>8, TakeStoreStep
<1>9. QED
  BY <1>2, <1>3, <1>4, <1>5, <1>7, <1>8 DEF Controller, Indicate

FitInv == MtuInv /\ FitsItsLink

LEMMA FitStep == TypeInv /\ LinkInv /\ FitInv /\ [Next]_vars => FitInv'
<1> SUFFICES ASSUME TypeInv, LinkInv, FitInv, [Next]_vars PROVE FitInv'
  OBVIOUS
<1>1. /\ events \in Seq(Event) /\ Len(events) \in Nat /\ air \in Seq(Indication(conn))
      /\ answer \in Response(conn) /\ client \in ClientState /\ conn \in Nat
  BY DEF TypeInv, LinkTypeOK
<1>2. ASSUME client.mtu = "large" => client'.mtu = "large", UNCHANGED conn,
             spp_mtu_size' \in {spp_mtu_size, "small"} \/ client.mtu = "large",
             \A i \in 1..Len(events') : events'[i].kind = "mtu" =>
                 client'.mtu = "large" \/ \E j \in 1..Len(events) : events[j].kind = "mtu",
             \A i \in 1..Len(air') :
                 \/ \E j \in 1..Len(air) : air[j].conn = air'[i].conn /\ air[j].mtu = air'[i].mtu
                 \/ answer.conn = air'[i].conn /\ answer.mtu = air'[i].mtu,
             \/ answer'.mtu = answer.mtu /\ answer'.conn = answer.conn
             \/ answer'.mtu = "small"
             \/ answer'.mtu = spp_mtu_size /\ answer'.conn = conn
      PROVE  FitInv'
  BY <1>2 DEF FitInv, MtuInv, FitsItsLink
<1>3. ASSUME NEW e \in Event, events' = Append(events, e),
             e.kind = "mtu" => client'.mtu = "large"
      PROVE  \A i \in 1..Len(events') : events'[i].kind = "mtu" =>
                 client'.mtu = "large" \/ \E j \in 1..Len(events) : events[j].kind = "mtu"
  <2>1. /\ Len(events') = Len(events) + 1 /\ events'[Len(events) + 1] = e
        /\ \A i \in 1..Len(events) : events'[i] = events[i]
    BY <1>3, AppendsEvent
  <2>2. \A i \in 1..Len(events') : i = Len(events) + 1 \/ i \in 1..Len(events)
    BY <1>1, <2>1
  <2>3. QED
    BY <1>3, <2>1, <2>2
<1>4. CASE Connect
  <2>1. /\ events = <<>> /\ air = <<>> /\ spp_mtu_size = "small" /\ conn' = conn + 1
        /\ events' = Append(events, Connected) /\ UNCHANGED <<air, spp_mtu_size, answer>>
    BY <1>4 DEF Connect, LinkInv, bleVars, ctlVars
  <2>2. Len(events') = 1 /\ events'[1].kind # "mtu"
    BY <1>1, <2>1, AppendsEvent, EventFields
  <2>3. answer.conn # conn + 1
    BY <1>1 DEF Response
  <2>4. Len(air) = 0
    BY <2>1
  <2>5. QED
    BY <2>1, <2>2, <2>3, <2>4 DEF FitInv, MtuInv, FitsItsLink
<1>5. CASE Drop
  <2>1. UNCHANGED <<client, conn, spp_mtu_size, answer>> /\ air' = <<>>
    BY <1>5 DEF Drop, bleVars, ctlVars
  <2>2. \A i \in 1..Len(air') : FALSE
    BY <2>1
  <2>3. QED
    BY <1>2, <1>3, <1>5, <2>1, <2>2, EventFields DEF Drop
<1>6. CASE Settles
  BY <1>2, <1>3, <1>6, SettlesLeaves, EventFields DEF bleVars, ctlVars
<1>7. ASSUME NEW e \in Event, ClientWrites(e), e.kind = "mtu" => ExchangeMtu, Client,
             ~(Connect \/ Drop \/ Settles)
      PROVE  FitInv'
  <2>1. UNCHANGED <<conn, spp_mtu_size, answer, air>> /\ events' = Append(events, e)
    BY <1>7 DEF ClientWrites, bleVars, ctlVars
  <2>2. ExchangeMtu => client'.mtu = "large"
    BY <1>1 DEF ExchangeMtu, ClientState
  <2>3. client'.mtu \in {client.mtu, "large"}
    BY <1>1, <1>7, <2>2 DEF Client, Settles, Subscribe, Ask, SendChunk, AskOther, ClientState
  <2>4. QED
    BY <1>2, <1>3, <1>7, <2>1, <2>2, <2>3
<1>8. CASE Tick
  BY <1>8 DEF Tick, bleVars, ctlVars, FitInv, MtuInv, FitsItsLink
<1>9. ASSUME NEW kind, Next1(kind),
             spp_mtu_size' \in {spp_mtu_size, "small"} \/ (spp_mtu_size' = "large" /\ kind = "mtu")
      PROVE  FitInv'
  <2>1. /\ \A i \in 1..Len(events') : i + 1 \in 1..Len(events) /\ events'[i] = events[i + 1]
        /\ 1 \in 1..Len(events) /\ events[1].kind = kind
        /\ UNCHANGED <<conn, air, client, answer>>
    BY <1>9, TakesEvent
  <2>2. kind = "mtu" => client.mtu = "large"
    BY <2>1 DEF FitInv, MtuInv
  <2>3. QED
    BY <1>2, <1>9, <2>1, <2>2
<1>10. CASE Callback
  <2>1. CASE ConnectEvt \/ CccdEvt \/ ConfEvt
    BY <1>9, <2>1 DEF ConnectEvt, CccdEvt, ConfEvt
  <2>2. CASE WriteEvt \/ WriteTimeout
    BY <1>9, <2>2 DEF WriteEvt, WriteTimeout, bleVars
  <2>3. CASE DisconnectEvt \/ MtuEvt
    BY <1>9, <2>3 DEF DisconnectEvt, MtuEvt
  <2>4. QED
    BY <1>10, <2>1, <2>2, <2>3 DEF Callback
<1>11. CASE Controller
  <2>1. /\ UNCHANGED <<events, client, conn, spp_mtu_size>>
        /\ UNCHANGED air \/ (up /\ air' = Append(air, Sending) /\ pc = "send")
    BY <1>11, ControllerLeaves DEF Send
  <2>2. \A i \in 1..Len(air') :
            \/ \E j \in 1..Len(air) : air[j].conn = air'[i].conn /\ air[j].mtu = air'[i].mtu
            \/ answer.conn = air'[i].conn /\ answer.mtu = air'[i].mtu
    <3>1. CASE UNCHANGED air
      BY <3>1
    <3>2. CASE air' = Append(air, Sending) /\ pc = "send"
      <4>1. outcome.kind \in {"reply", "dispatch"} /\ answer.conn > 0
        BY <3>2 DEF TypeInv, PcInv
      <4>2. /\ Len(air') = Len(air) + 1 /\ air'[Len(air) + 1] = Sending /\ Len(air) \in Nat
            /\ \A i \in 1..Len(air) : air'[i] = air[i]
        BY <1>1, <3>2, <4>1, SentType, AppendOf
      <4>3. \A i \in 1..Len(air') : i = Len(air) + 1 \/ i \in 1..Len(air)
        BY <4>2
      <4>4. Sending.conn = answer.conn /\ Sending.mtu = answer.mtu
        BY DEF Sending
      <4>5. QED
        BY <4>2, <4>3, <4>4
    <3>3. QED
      BY <2>1, <3>1, <3>2
  <2>3. QED
    BY <1>2, <1>11, <2>1, <2>2, AnswerKeeps
<1>12. CASE UNCHANGED vars
  BY <1>12 DEF vars, linkVars, bleVars, ctlVars, FitInv, MtuInv, FitsItsLink
<1>13. CASE Bridge
  BY <1>2, <1>3, <1>13, BridgeLeaves, EventFields
<1>14. QED
  BY <1>4, <1>5, <1>6, <1>7, <1>8, <1>10, <1>11, <1>12, <1>13, WritesKind DEF Next
----------------------------------------------------------------------------
(* Confirmations.                                                          *)

LEMMA CleanStep == TypeInv /\ CleanInv /\ [Next]_vars => CleanInv'
<1> SUFFICES ASSUME TypeInv, CleanInv, [Next]_vars PROVE CleanInv'
  OBVIOUS
<1>1. /\ events \in Seq(Event) /\ Len(events) \in Nat /\ air \in Seq(Indication(conn))
      /\ Len(air) \in Nat /\ proof \in [clean : BOOLEAN, fate : {"pending", "landed", "failed"}]
  BY DEF TypeInv, LinkTypeOK
<1>2. ASSUME UNCHANGED <<pc, proof, bridge>>, air' = air \/ air' = <<>>, Silent => Silent'
      PROVE  CleanInv'
  <2>1. Len(<<>>) = 0
    OBVIOUS
  <2>2. QED
    BY <1>2, <2>1 DEF CleanInv
<1>3. ASSUME NEW e \in Event, events' = Append(events, e), e.kind # "confirm",
             UNCHANGED indication_confirmed, Silent
      PROVE  Silent'
  <2>1. /\ Len(events') = Len(events) + 1 /\ events'[Len(events) + 1] = e
        /\ \A i \in 1..Len(events) : events'[i] = events[i]
    BY <1>3, AppendsEvent
  <2>2. \A i \in 1..Len(events') : i = Len(events) + 1 \/ i \in 1..Len(events)
    BY <1>1, <2>1
  <2>3. QED
    BY <1>3, <2>1, <2>2 DEF Silent
<1>4. CASE Connect
  BY <1>2, <1>3, <1>4, EventFields DEF Connect, bleVars, ctlVars, histVars
<1>5. CASE Drop
  BY <1>2, <1>3, <1>5, EventFields DEF Drop, bleVars, ctlVars, histVars
<1>6. CASE \E e \in Event : /\ ClientWrites(e) /\ e.kind \in {"cccd", "mtu", "write"}
                            /\ e.kind = "mtu" => ExchangeMtu
  BY <1>2, <1>3, <1>6 DEF ClientWrites, bleVars, ctlVars, histVars
<1>7. CASE Settles
  <2>1. /\ air # <<>> /\ Len(air') = Len(air) - 1 /\ pc' = pc /\ bridge' = bridge
        /\ proof'.clean = proof.clean
        /\ proof.fate # "pending" => proof'.fate # "pending"
        /\ pc = "wait" /\ Len(air) = 1 => proof'.fate # "pending"
    BY <1>7, SettlesLeaves DEF ctlVars, bleVars
  <2>2. Len(air) <= 1 => Len(air) = 1 /\ Len(air') <= 1
    BY <1>1, <2>1
  <2>3. QED
    BY <2>1, <2>2 DEF CleanInv
<1>8. CASE Tick
  BY <1>2, <1>8 DEF Tick, bleVars, ctlVars, histVars, Silent
<1>9. ASSUME NEW kind, Next1(kind), kind # "confirm", UNCHANGED indication_confirmed
      PROVE  CleanInv'
  <2>1. /\ \A i \in 1..Len(events') : i + 1 \in 1..Len(events) /\ events'[i] = events[i + 1]
        /\ UNCHANGED <<air, pc, proof, bridge>>
    BY <1>9, TakesEvent
  <2>2. Silent => Silent'
    BY <1>9, <2>1 DEF Silent
  <2>3. QED
    BY <1>2, <2>1, <2>2
<1>10. CASE ConfEvt
  <2>1. Next1("confirm")
    BY <1>10 DEF ConfEvt
  <2>2. ~Silent /\ UNCHANGED <<air, pc, proof, bridge>>
    BY <2>1, TakesEvent DEF Silent
  <2>3. QED
    BY <2>2 DEF CleanInv
<1>11. CASE Callback
  <2>1. CASE ConnectEvt \/ CccdEvt \/ MtuEvt \/ DisconnectEvt
    BY <1>9, <2>1 DEF ConnectEvt, CccdEvt, MtuEvt, DisconnectEvt
  <2>2. CASE WriteEvt \/ WriteTimeout
    BY <1>9, <2>2 DEF WriteEvt, WriteTimeout, bleVars
  <2>3. QED
    BY <1>10, <1>11, <2>1, <2>2 DEF Callback
<1>12. CASE Drain
  <2>1. /\ pc' = "send" /\ indication_confirmed' = FALSE /\ proof' = Worth
        /\ UNCHANGED <<air, events, bridge>>
    BY <1>12 DEF Drain, Quiet, linkVars
  <2>2. Worth.clean = (air = <<>> /\ bridge = 0 /\ \A i \in 1..Len(events) : events[i] # Confirm)
    BY DEF Worth, Unproven
  <2>3. \A i \in 1..Len(events) : events[i] # Confirm => events[i].kind # "confirm"
    BY <1>1, EventFields
  <2>4. QED
    BY <2>1, <2>2, <2>3 DEF CleanInv, Silent
<1>13. CASE Send
  <2>1. CASE up
    <3>1. /\ pc = "send" /\ air' = Append(air, Sending) /\ proof' = [proof EXCEPT !.fate = "pending"]
          /\ pc' = "wait" /\ UNCHANGED <<events, indication_confirmed, bridge>>
      BY <1>13, <2>1 DEF Send, Sending, bleVars
    <3>2. Sending \in Indication(conn)
      BY <3>1, SentType DEF TypeInv, PcInv
    <3>3. Len(air') = Len(air) + 1
      BY <1>1, <3>1, <3>2, AppendOf
    <3>4. proof'.clean = proof.clean
      BY <1>1, <3>1
    <3>5. air = <<>> => Len(air') <= 1
      BY <3>3
    <3>6. QED
      BY <3>1, <3>4, <3>5 DEF CleanInv, Silent
  <2>2. CASE ~up
    BY <1>13, <2>2 DEF Send, CleanInv
  <2>3. QED
    BY <2>1, <2>2
<1>14. CASE Controller
  <2>1. CASE TakeReset \/ TakeOther \/ TakeStore
    <3>1. pc' \notin {"send", "wait"}
      BY <2>1, TakesCommand, TakeStoreStep DEF TakeReset, TakeOther
    <3>2. QED
      BY <3>1 DEF CleanInv
  <2>2. CASE Handle \/ CheckFails \/ Confirmed \/ ConfirmTimeout \/ Finish
    <3>1. pc' \notin {"send", "wait"}
      BY <2>2 DEF Handle, CheckFails, Confirmed, ConfirmTimeout, Finish
    <3>2. QED
      BY <3>1 DEF CleanInv
  <2>3. QED
    BY <1>12, <1>13, <1>14, <2>1, <2>2 DEF Controller, Indicate
<1>15. CASE UNCHANGED vars
  BY <1>2, <1>15 DEF vars, linkVars, bleVars, ctlVars, histVars, Silent
<1>16. CASE Bridge
  BY <1>16, BridgeLeaves DEF CleanInv
<1>17. QED
  BY <1>4, <1>5, <1>6, <1>7, <1>8, <1>11, <1>14, <1>15, <1>16, WritesKind DEF Next

(* Discarding the left-over confirmation (ble.c:859-860) works, whatever   *)
(* indications fail (ble.c:682-691): when no other CONF_EVT was on its way *)
(* and uart_task has sent nothing since, the confirmation taken tells that *)
(* the frame just sent has reached the client or failed.                   *)
THEOREM ConfirmedIsTheFrameSent == Spec => CleanConfirmation
<1>1. LinkInit => TypeInv /\ CleanInv
  <2>1. ASSUME LinkInit PROVE CleanInv
    BY <2>1 DEF LinkInit, CleanInv
  <2>2. QED
    BY <2>1, InitTypes
<1>2. TypeInv /\ CleanInv /\ [Next]_vars => TypeInv' /\ CleanInv'
  BY TypeStep, CleanStep
<1>3. CleanInv /\ [Next]_vars => [Confirmed /\ proof.clean => proof.fate # "pending"]_vars
  BY DEF CleanInv, Silent, Confirmed
<1>4. QED
  BY <1>1, <1>2, <1>3, PTL DEF Spec, CleanConfirmation
----------------------------------------------------------------------------
(* The order of requests.                                                  *)

LEMMA FramesTyped ==
    ASSUME TypeInv
    PROVE  /\ \A i \in 1..Len(queue) : Queued(i) => Fq(i) \in Frame
           /\ \A i \in 1..Len(events) : Waiting(i) => Fe(i) \in Frame
           /\ Len(queue) \in Nat /\ Len(events) \in Nat /\ asked \in Nat
<1>1. queue \in Seq(Command) /\ events \in Seq(Event) /\ asked \in 0..MaxAsk
  BY DEF TypeInv, LinkTypeOK
<1>2. \A i \in 1..Len(queue) : Queued(i) => Fq(i) \in Frame
  <2>1. \A i \in 1..Len(queue) : queue[i] \in Command
    BY <1>1
  <2>2. QED
    BY <2>1, CommandFields DEF Queued, Fq
<1>3. \A i \in 1..Len(events) : Waiting(i) => Fe(i) \in Frame
  <2>1. \A i \in 1..Len(events) : events[i] \in Event
    BY <1>1
  <2>2. QED
    BY <2>1, EventFields, CommandFields DEF Waiting, Fe
<1>4. QED
  BY <1>1, <1>2, <1>3

(* The client goes on with its request, or forgets it.                     *)
SameOrGone == /\ asked' = asked
              /\ \/ client'.sent = 0
                 \/ client'.sent = client.sent /\ client'.opcode = client.opcode

(* No frame is added to the queue or to the events, dq and de of which are *)
(* taken from the front.                                                   *)
NoNewFrame(dq, de) ==
    /\ \A i \in 1..Len(queue')  : Queued(i)' => Queued(i + dq) /\ Fq(i)' = Fq(i + dq)
    /\ \A i \in 1..Len(events') : Waiting(i)' => Waiting(i + de) /\ Fe(i)' = Fe(i + de)

LEMMA FramesKeepOrder ==
    ASSUME TypeInv, SameOrGone, NEW dq \in {0, 1}, NEW de \in {0, 1}, NoNewFrame(dq, de)
    PROVE  /\ FrameInv => FrameInv'
           /\ \A n : Over(n) => Over(n)'
<1>1. \A f : Sent(f) => Sent(f)'
  BY DEF SameOrGone, Sent
<1>2. ASSUME NEW i \in 1..Len(queue'), Queued(i)'
      PROVE  i + dq \in 1..Len(queue) /\ Queued(i + dq) /\ Fq(i)' = Fq(i + dq)
  BY <1>2 DEF NoNewFrame, Queued
<1>3. ASSUME NEW i \in 1..Len(events'), Waiting(i)'
      PROVE  i + de \in 1..Len(events) /\ Waiting(i + de) /\ Fe(i)' = Fe(i + de)
  BY <1>3 DEF NoNewFrame, Waiting
<1>4. ASSUME FrameInv PROVE FrameInv'
  <2>1. \A i \in 1..Len(queue')  : Queued(i)' => Sent(Fq(i))'
    BY <1>1, <1>2, <1>4 DEF FrameInv
  <2>2. \A i \in 1..Len(events') : Waiting(i)' => Sent(Fe(i))'
    BY <1>1, <1>3, <1>4 DEF FrameInv
  <2>3. ASSUME NEW i \in 1..Len(queue'), NEW j \in 1..Len(queue'), Queued(i)', Queued(j)', i < j
        PROVE  Before(Fq(i), Fq(j))'
    <3>1. i + dq < j + dq
      BY <2>3
    <3>2. Before(Fq(i + dq), Fq(j + dq))
      BY <1>2, <1>4, <2>3, <3>1 DEF FrameInv
    <3>3. QED
      BY <1>2, <2>3, <3>2 DEF Before
  <2>4. ASSUME NEW i \in 1..Len(events'), NEW j \in 1..Len(events'), Waiting(i)', Waiting(j)', i < j
        PROVE  Before(Fe(i), Fe(j))'
    <3>1. i + de < j + de
      BY <2>4
    <3>2. Before(Fe(i + de), Fe(j + de))
      BY <1>3, <1>4, <2>4, <3>1 DEF FrameInv
    <3>3. QED
      BY <1>3, <2>4, <3>2 DEF Before
  <2>5. ASSUME NEW i \in 1..Len(queue'), NEW j \in 1..Len(events'), Queued(i)', Waiting(j)'
        PROVE  Before(Fq(i), Fe(j))'
    <3>1. Before(Fq(i + dq), Fe(j + de))
      BY <1>2, <1>3, <1>4, <2>5 DEF FrameInv
    <3>2. QED
      BY <1>2, <1>3, <2>5, <3>1 DEF Before
  <2>6. QED
    BY <2>1, <2>2, <2>3, <2>4, <2>5 DEF FrameInv
<1>5. ASSUME NEW n, Over(n) PROVE Over(n)'
  BY <1>2, <1>3, <1>5 DEF Over, SameOrGone
<1>6. QED
  BY <1>4, <1>5

(* The client sends one more frame, later than all before.                 *)
LEMMA FrameJoins ==
    ASSUME TypeInv, FrameInv, NEW f \in Frame, ClientWrites(Write(StoreCmd(f))),
           \/ /\ f.payload = asked + 1 /\ asked' = asked + 1
              /\ f.index = 0 /\ client'.sent = 1
           \/ /\ f.payload = asked /\ asked' = asked /\ client'.opcode = client.opcode
              /\ f.index = client.sent /\ client'.sent = client.sent + 1 /\ client.sent \in Nat
              /\ client.sent > 0 /\ client.sent < ChunksOf[client.opcode] /\ asked > 0,
           f.count = ChunksOf[client'.opcode], f.index < f.count
    PROVE  /\ FrameInv'
           /\ \A n : Over(n) => Over(n)'
<1> DEFINE e == Write(StoreCmd(f))
<1>1. /\ Len(events') = Len(events) + 1 /\ events'[Len(events) + 1] = e
      /\ \A i \in 1..Len(events) : events'[i] = events[i]
      /\ Len(events) \in Nat /\ queue' = queue
  BY StoreCmdFields, WriteFields, WritesEvent DEF ctlVars
<1>2. e.kind = "write" /\ e.command.kind = "store" /\ e.command.frame = f
  BY StoreCmdFields, WriteFields
<1> HIDE DEF e
<1>3. asked \in Nat /\ f.index \in Nat /\ f.count \in Nat /\ f.payload \in Nat
  BY FramesTyped, FrameFields
<1>4. ASSUME NEW g \in Frame, Sent(g)
      PROVE  Sent(g)' /\ Before(g, f) /\ g.payload <= asked
  <2>1. g.payload \in 1..asked /\ g.index \in Nat /\ g.count \in Nat
    BY <1>4, FrameFields DEF Sent
  <2>2. QED
    BY <1>3, <1>4, <2>1 DEF Sent, Before
<1>5. Sent(f)'
  BY <1>3 DEF Sent
<1>6. \A i \in 1..Len(queue') : /\ Queued(i)' => Queued(i) /\ Fq(i)' = Fq(i)
                                /\ Queued(i) => Fq(i) \in Frame /\ Sent(Fq(i))
  BY <1>1, FramesTyped DEF Queued, Fq, FrameInv
<1>7. \A i \in 1..Len(events') :
          \/ i = Len(events) + 1 /\ Fe(i)' = f
          \/ /\ i \in 1..Len(events) /\ i < Len(events) + 1
             /\ Waiting(i)' => Waiting(i) /\ Fe(i)' = Fe(i)
             /\ Waiting(i) => Fe(i) \in Frame /\ Sent(Fe(i))
  <2>1. \A i \in 1..Len(events') : i = Len(events) + 1 \/ (i \in 1..Len(events) /\ i < Len(events) + 1)
    BY <1>1
  <2>2. QED
    BY <1>1, <1>2, <2>1, FramesTyped DEF Waiting, Fe, FrameInv
<1>8. \A i \in 1..Len(queue') : Queued(i)' => Sent(Fq(i))'
  BY <1>4, <1>6 DEF Sent
<1>9. \A i \in 1..Len(events') : Waiting(i)' => Sent(Fe(i))'
  BY <1>4, <1>5, <1>7 DEF Sent
<1>10. \A i, j \in 1..Len(queue') : Queued(i)' /\ Queued(j)' /\ i < j => Before(Fq(i), Fq(j))'
  BY <1>1, <1>6 DEF FrameInv, Before
<1>11. ASSUME NEW i \in 1..Len(events'), NEW j \in 1..Len(events'), Waiting(i)', Waiting(j)', i < j
       PROVE  Before(Fe(i), Fe(j))'
  <2>1. CASE j = Len(events) + 1
    <3>1. i # Len(events) + 1
      BY <1>1, <1>11, <2>1
    <3>2. Waiting(i) /\ Fe(i)' = Fe(i) /\ Fe(i) \in Frame /\ Sent(Fe(i))
      BY <1>7, <1>11, <3>1
    <3>3. Fe(j)' = f
      BY <1>1, <1>2, <2>1 DEF Fe
    <3>4. QED
      BY <1>4, <3>2, <3>3 DEF Before
  <2>2. CASE j # Len(events) + 1
    <3>1. i # Len(events) + 1
      BY <1>1, <1>11, <2>2
    <3>2. /\ Waiting(i) /\ Fe(i)' = Fe(i) /\ Waiting(j) /\ Fe(j)' = Fe(j)
          /\ i \in 1..Len(events) /\ j \in 1..Len(events)
      BY <1>7, <1>11, <2>2, <3>1
    <3>3. Before(Fe(i), Fe(j))
      BY <1>11, <3>2 DEF FrameInv
    <3>4. QED
      BY <3>2, <3>3 DEF Before
  <2>3. QED
    BY <2>1, <2>2
<1>12. ASSUME NEW i \in 1..Len(queue'), NEW j \in 1..Len(events'), Queued(i)', Waiting(j)'
       PROVE  Before(Fq(i), Fe(j))'
  <2>1. Queued(i) /\ Fq(i)' = Fq(i) /\ Fq(i) \in Frame /\ Sent(Fq(i))
    BY <1>6, <1>12
  <2>2. CASE j = Len(events) + 1
    <3>1. Fe(j)' = f
      BY <1>1, <1>2, <2>2 DEF Fe
    <3>2. QED
      BY <1>4, <2>1, <3>1 DEF Before
  <2>3. CASE j # Len(events) + 1
    <3>1. Waiting(j) /\ Fe(j)' = Fe(j) /\ j \in 1..Len(events)
      BY <1>7, <1>12, <2>3
    <3>2. Before(Fq(i), Fe(j))
      BY <1>1, <2>1, <3>1 DEF FrameInv
    <3>3. QED
      BY <2>1, <3>1, <3>2 DEF Before
  <2>4. QED
    BY <2>2, <2>3
<1>13. ASSUME NEW n, Over(n) PROVE Over(n)'
  <2>1. n \in 1..asked /\ (n = asked => client.sent \in {0, ChunksOf[client.opcode]})
    BY <1>13 DEF Over
  <2>2. n \in 1..asked' /\ n # asked' /\ f.payload > n
    BY <1>3, <2>1, BoundsAssumption
  <2>3. \A i \in 1..Len(queue') : Queued(i)' => Fq(i)'.payload > n
    BY <1>1, <1>6, <1>13 DEF Over
  <2>4. \A i \in 1..Len(events') : Waiting(i)' => Fe(i)'.payload > n
    BY <1>7, <1>13, <2>2 DEF Over
  <2>5. QED
    BY <2>2, <2>3, <2>4 DEF Over
<1>14. QED
  BY <1>8, <1>9, <1>10, <1>11, <1>12, <1>13 DEF FrameInv

(* The callback task moves the first frame to the end of the queue.        *)
LEMMA FrameMoves ==
    ASSUME TypeInv, FrameInv, WriteEvt
    PROVE  /\ FrameInv'
           /\ \A n : Over(n) => Over(n)'
<1>1. Next1("write") /\ Room /\ queue' = Append(queue, Head(events).command)
  BY DEF WriteEvt
<1>2. /\ 1 \in 1..Len(events) /\ Head(events) = events[1] /\ events[1].kind = "write"
      /\ events[1].command \in Command
      /\ \A i \in 1..Len(events') : i + 1 \in 1..Len(events) /\ events'[i] = events[i + 1]
      /\ UNCHANGED <<client, asked>>
  BY <1>1, TakesEvent, EventFields, CommandFields
<1>3. /\ Len(queue') = Len(queue) + 1 /\ queue'[Len(queue) + 1] = events[1].command
      /\ \A i \in 1..Len(queue) : queue'[i] = queue[i]
      /\ Len(queue) \in Nat
  BY <1>1, <1>2, QueueRoom
<1>4. \A f : Sent(f) => Sent(f)'
  BY <1>2 DEF Sent
<1>5. \A i \in 1..Len(queue') :
          \/ i = Len(queue) + 1 /\ Fq(i)' = Fe(1) /\ (Queued(i)' => Waiting(1))
          \/ i \in 1..Len(queue) /\ i < Len(queue) + 1 /\ Fq(i)' = Fq(i) /\ (Queued(i)' => Queued(i))
  <2>1. \A i \in 1..Len(queue') : i = Len(queue) + 1 \/ (i \in 1..Len(queue) /\ i < Len(queue) + 1)
    BY <1>3
  <2>2. QED
    BY <1>2, <1>3, <2>1 DEF Queued, Waiting, Fq, Fe
<1>6. \A i \in 1..Len(events') : /\ i + 1 \in 1..Len(events) /\ 1 < i + 1
                                 /\ Fe(i)' = Fe(i + 1) /\ (Waiting(i)' => Waiting(i + 1))
  BY <1>2 DEF Waiting, Fe
<1>7. \A i \in 1..Len(queue') : Queued(i)' => Sent(Fq(i))'
  BY <1>2, <1>4, <1>5 DEF FrameInv, Sent
<1>8. \A i \in 1..Len(events') : Waiting(i)' => Sent(Fe(i))'
  BY <1>4, <1>6 DEF FrameInv, Sent
<1>9. ASSUME NEW i \in 1..Len(queue'), NEW j \in 1..Len(queue'), Queued(i)', Queued(j)', i < j
      PROVE  Before(Fq(i), Fq(j))'
  <2>1. i # Len(queue) + 1
    BY <1>3, <1>9
  <2>2. i \in 1..Len(queue) /\ Fq(i)' = Fq(i) /\ Queued(i)
    BY <1>5, <1>9, <2>1
  <2>3. CASE j = Len(queue) + 1
    <3>1. Fq(j)' = Fe(1) /\ Waiting(1)
      BY <1>3, <1>5, <1>9, <2>3
    <3>2. Before(Fq(i), Fe(1))
      BY <1>2, <2>2, <3>1 DEF FrameInv
    <3>3. QED
      BY <2>2, <3>1, <3>2 DEF Before
  <2>4. CASE j # Len(queue) + 1
    <3>1. j \in 1..Len(queue) /\ Fq(j)' = Fq(j) /\ Queued(j)
      BY <1>5, <1>9, <2>4
    <3>2. Before(Fq(i), Fq(j))
      BY <1>9, <2>2, <3>1 DEF FrameInv
    <3>3. QED
      BY <2>2, <3>1, <3>2 DEF Before
  <2>5. QED
    BY <2>3, <2>4
<1>10. ASSUME NEW i \in 1..Len(events'), NEW j \in 1..Len(events'), Waiting(i)', Waiting(j)', i < j
       PROVE  Before(Fe(i), Fe(j))'
  <2>1. i + 1 < j + 1
    BY <1>10
  <2>2. Before(Fe(i + 1), Fe(j + 1))
    BY <1>6, <1>10, <2>1 DEF FrameInv
  <2>3. QED
    BY <1>6, <1>10, <2>2 DEF Before
<1>11. ASSUME NEW i \in 1..Len(queue'), NEW j \in 1..Len(events'), Queued(i)', Waiting(j)'
       PROVE  Before(Fq(i), Fe(j))'
  <2>1. Waiting(j + 1) /\ Fe(j)' = Fe(j + 1) /\ j + 1 \in 1..Len(events) /\ 1 < j + 1
    BY <1>6, <1>11
  <2>2. CASE i = Len(queue) + 1
    <3>1. Fq(i)' = Fe(1) /\ Waiting(1)
      BY <1>3, <1>5, <1>11, <2>2
    <3>2. Before(Fe(1), Fe(j + 1))
      BY <1>2, <2>1, <3>1 DEF FrameInv
    <3>3. QED
      BY <2>1, <3>1, <3>2 DEF Before
  <2>3. CASE i # Len(queue) + 1
    <3>1. i \in 1..Len(queue) /\ Fq(i)' = Fq(i) /\ Queued(i)
      BY <1>5, <1>11, <2>3
    <3>2. Before(Fq(i), Fe(j + 1))
      BY <2>1, <3>1 DEF FrameInv
    <3>3. QED
      BY <2>1, <3>1, <3>2 DEF Before
  <2>4. QED
    BY <2>2, <2>3
<1>12. ASSUME NEW n, Over(n) PROVE Over(n)'
  <2>1. \A i \in 1..Len(queue') : Queued(i)' => Fq(i)'.payload > n
    BY <1>2, <1>5, <1>12 DEF Over
  <2>2. \A i \in 1..Len(events') : Waiting(i)' => Fe(i)'.payload > n
    BY <1>6, <1>12 DEF Over
  <2>3. QED
    BY <1>2, <1>12, <2>1, <2>2 DEF Over
<1>13. QED
  BY <1>7, <1>8, <1>9, <1>10, <1>11, <1>12 DEF FrameInv

LEMMA FrameStepsOut ==
    ASSUME TypeInv, FrameInv, Client \/ Tick \/ Bridge
    PROVE  FrameInv' /\ \A n : Over(n) => Over(n)'
<1>1. client \in ClientState /\ Len(events) \in Nat
  BY FramesTyped DEF TypeInv, LinkTypeOK
<1>2. \A i \in 1..Len(queue) : i + 0 = i
  BY FramesTyped
<1>3. ASSUME NEW e \in Event, events' = Append(events, e), UNCHANGED queue,
             e.kind = "write" => e.command.kind # "store"
      PROVE  NoNewFrame(0, 0)
  <2>1. /\ Len(events') = Len(events) + 1 /\ events'[Len(events) + 1] = e
        /\ \A i \in 1..Len(events) : events'[i] = events[i]
    BY <1>3, AppendsEvent
  <2>2. \A i \in 1..Len(events') : i + 0 = i /\ (i = Len(events) + 1 \/ i \in 1..Len(events))
    BY <1>1, <2>1
  <2>3. QED
    BY <1>2, <1>3, <2>1, <2>2 DEF NoNewFrame, Queued, Waiting, Fq, Fe
<1>4. CASE Connect
  <2>1. SameOrGone
    BY <1>4 DEF Connect, SameOrGone, NoClient
  <2>2. NoNewFrame(0, 0)
    BY <1>3, <1>4, EventFields DEF Connect, ctlVars
  <2>3. QED
    BY <2>1, <2>2, FramesKeepOrder
<1>5. CASE Drop
  <2>1. SameOrGone
    BY <1>5 DEF Drop, SameOrGone
  <2>2. NoNewFrame(0, 0)
    BY <1>3, <1>5, EventFields DEF Drop, ctlVars
  <2>3. QED
    BY <2>1, <2>2, FramesKeepOrder
<1>6. CASE Settles
  <2>1. SameOrGone
    BY <1>6, SettlesLeaves DEF SameOrGone
  <2>2. NoNewFrame(0, 0)
    BY <1>3, <1>6, EventFields, SettlesLeaves DEF ctlVars
  <2>3. QED
    BY <2>1, <2>2, FramesKeepOrder
<1>7. ASSUME NEW e \in Event, ClientWrites(e), e.kind = "write" => e.command.kind # "store",
             client'.sent = client.sent, client'.opcode = client.opcode, asked' = asked
      PROVE  FrameInv' /\ \A n : Over(n) => Over(n)'
  <2>1. SameOrGone
    BY <1>7 DEF SameOrGone
  <2>2. NoNewFrame(0, 0)
    BY <1>3, <1>7 DEF ClientWrites, ctlVars
  <2>3. QED
    BY <2>1, <2>2, FramesKeepOrder
<1>8. ASSUME NEW on \in BOOLEAN, Subscribe(on)
      PROVE  FrameInv' /\ \A n : Over(n) => Over(n)'
  <2>1. ClientWrites(Cccd(on)) /\ Cccd(on) \in Event /\ Cccd(on).kind # "write"
    BY <1>8, EventFields DEF Subscribe
  <2>2. client'.sent = client.sent /\ client'.opcode = client.opcode /\ asked' = asked
    BY <1>1, <1>8 DEF Subscribe, ClientState
  <2>3. QED
    BY <1>7, <2>1, <2>2
<1>9. CASE ExchangeMtu
  <2>1. ClientWrites(Exchanged) /\ Exchanged \in Event /\ Exchanged.kind # "write"
    BY <1>9, EventFields DEF ExchangeMtu
  <2>2. client'.sent = client.sent /\ client'.opcode = client.opcode /\ asked' = asked
    BY <1>1, <1>9 DEF ExchangeMtu, ClientState
  <2>3. QED
    BY <1>7, <2>1, <2>2
<1>10. CASE AskOther
  <2>1. /\ ClientWrites(Write(OtherCmd)) /\ Write(OtherCmd) \in Event
        /\ Write(OtherCmd).command.kind # "store"
    BY <1>10, CommandFields, WriteFields DEF AskOther
  <2>2. client'.sent = client.sent /\ client'.opcode = client.opcode /\ asked' = asked
    BY <1>10 DEF AskOther
  <2>3. QED
    BY <1>7, <2>1, <2>2
<1>11. ASSUME NEW op \in Asks, Ask(op)
       PROVE  FrameInv' /\ \A n : Over(n) => Over(n)'
  <2> DEFINE f == AskedFrame(op)
  <2>1. /\ f \in Frame /\ f.index = 0 /\ f.payload = asked + 1 /\ f.count = ChunksOf[op]
        /\ f.index < f.count
    BY <1>11, AskedType
  <2>2. ClientWrites(Write(StoreCmd(f)))
    BY <1>11 DEF Ask, AskedFrame
  <2>3. client'.sent = 1 /\ client'.opcode = op /\ asked' = asked + 1
    BY <1>1, <1>11 DEF Ask, ClientState
  <2> HIDE DEF f
  <2>4. QED
    BY <2>1, <2>2, <2>3, FrameJoins
<1>12. CASE SendChunk
  <2> DEFINE f == NextFrame
  <2>1. /\ f \in Frame /\ f.index = client.sent /\ f.payload = asked
        /\ f.count = ChunksOf[client.opcode] /\ client.sent \in Nat
        /\ client.sent > 0 /\ client.sent < ChunksOf[client.opcode] /\ asked > 0
    BY <1>12, NextType
  <2>2. ClientWrites(Write(StoreCmd(f)))
    BY <1>12 DEF SendChunk, NextFrame
  <2>3. client'.sent = client.sent + 1 /\ client'.opcode = client.opcode /\ asked' = asked
    BY <1>1, <1>12 DEF SendChunk, ClientState
  <2> HIDE DEF f
  <2>4. QED
    BY <2>1, <2>2, <2>3, FrameJoins
<1>13. ASSUME UNCHANGED <<events, queue, client, asked>>
       PROVE  FrameInv' /\ \A n : Over(n) => Over(n)'
  <2>1. \A i \in 1..Len(events) : i + 0 = i
    BY <1>1
  <2>2. SameOrGone /\ NoNewFrame(0, 0)
    BY <1>2, <1>13, <2>1 DEF SameOrGone, NoNewFrame, Queued, Waiting, Fq, Fe
  <2>3. QED
    BY <2>2, FramesKeepOrder
<1>14. CASE Tick
  BY <1>13, <1>14 DEF Tick, ctlVars
<1>15. CASE Bridge
  <2>1. UNCHANGED <<queue, client, asked>> /\ SameOrGone
    BY <1>15, BridgeLeaves DEF SameOrGone
  <2>2. CASE UNCHANGED events
    BY <1>13, <2>1, <2>2
  <2>3. CASE events' = Append(events, Confirm)
    <3>1. NoNewFrame(0, 0)
      BY <1>3, <2>1, <2>3, EventFields
    <3>2. QED
      BY <2>1, <3>1, FramesKeepOrder
  <2>4. QED
    BY <1>15, <2>2, <2>3, BridgeLeaves
<1>16. QED
  BY <1>4, <1>5, <1>6, <1>8, <1>9, <1>10, <1>11, <1>12, <1>14, <1>15 DEF Client, Settles

LEMMA FrameStepsIn ==
    ASSUME TypeInv, FrameInv, Callback
    PROVE  FrameInv' /\ \A n : Over(n) => Over(n)'
<1>1. Len(queue) \in Nat /\ Len(events) \in Nat
  BY FramesTyped
<1>2. ASSUME NEW kind, Next1(kind), queue' = queue \/ (Room /\ queue' = Append(queue, ResetCmd))
      PROVE  FrameInv' /\ \A n : Over(n) => Over(n)'
  <2>1. /\ \A i \in 1..Len(events') : i + 1 \in 1..Len(events) /\ events'[i] = events[i + 1]
        /\ UNCHANGED <<client, asked>>
    BY <1>2, TakesEvent
  <2>2. SameOrGone
    BY <2>1 DEF SameOrGone
  <2>3. \A i \in 1..Len(queue') : Queued(i)' => Queued(i + 0) /\ Fq(i)' = Fq(i + 0)
    <3>1. CASE queue' = queue
      <4>1. \A i \in 1..Len(queue) : i + 0 = i
        BY <1>1
      <4>2. QED
        BY <3>1, <4>1 DEF Queued, Fq
    <3>2. CASE Room /\ queue' = Append(queue, ResetCmd)
      <4>1. /\ Len(queue') = Len(queue) + 1 /\ queue'[Len(queue) + 1].kind = "reset"
            /\ \A i \in 1..Len(queue) : queue'[i] = queue[i]
        BY <3>2, QueueRoom, CommandFields
      <4>2. \A i \in 1..Len(queue') : i + 0 = i /\ (i = Len(queue) + 1 \/ i \in 1..Len(queue))
        BY <1>1, <4>1
      <4>3. QED
        BY <4>1, <4>2 DEF Queued, Fq
    <3>3. QED
      BY <1>2, <3>1, <3>2
  <2>4. NoNewFrame(0, 1)
    BY <2>1, <2>3 DEF NoNewFrame, Waiting, Fe
  <2>5. QED
    BY <2>2, <2>4, FramesKeepOrder
<1>3. CASE ConnectEvt \/ MtuEvt \/ CccdEvt \/ ConfEvt \/ WriteTimeout
  BY <1>2, <1>3 DEF ConnectEvt, MtuEvt, CccdEvt, ConfEvt, WriteTimeout
<1>4. CASE DisconnectEvt
  BY <1>2, <1>4 DEF DisconnectEvt, QueueReset
<1>5. CASE WriteEvt
  BY <1>5, FrameMoves
<1>6. QED
  BY <1>3, <1>4, <1>5 DEF Callback

LEMMA FrameStepsController ==
    ASSUME TypeInv, FrameInv, Controller
    PROVE  FrameInv' /\ \A n : Over(n) => Over(n)'
<1>1. UNCHANGED <<events, client, asked>> /\ SameOrGone
  BY ControllerLeaves DEF SameOrGone
<1>2. \A i \in 1..Len(events') : Waiting(i)' => Waiting(i + 0) /\ Fe(i)' = Fe(i + 0)
  <2>1. \A i \in 1..Len(events) : i + 0 = i
    BY FramesTyped
  <2>2. QED
    BY <1>1, <2>1 DEF Waiting, Fe
<1>3. CASE \E kind : Take(kind)
  <2>1. \A i \in 1..Len(queue') : i + 1 \in 1..Len(queue) /\ queue'[i] = queue[i + 1]
    BY <1>3, TakesCommand
  <2>2. NoNewFrame(1, 0)
    BY <1>2, <2>1 DEF NoNewFrame, Queued, Fq
  <2>3. QED
    BY <1>1, <2>2, FramesKeepOrder
<1>4. CASE UNCHANGED queue
  <2>1. \A i \in 1..Len(queue) : i + 0 = i
    BY FramesTyped
  <2>2. NoNewFrame(0, 0)
    BY <1>2, <1>4, <2>1 DEF NoNewFrame, Queued, Fq
  <2>3. QED
    BY <1>1, <2>2, FramesKeepOrder
<1>5. (\E kind : Take(kind)) \/ UNCHANGED queue
  <2>1. CASE TakeReset \/ TakeOther \/ TakeStore
    BY <2>1, TakeStoreStep DEF TakeReset, TakeOther
  <2>2. CASE Handle \/ CheckFails \/ Drain \/ Send
    BY <2>2 DEF Handle, CheckFails, Drain, Send
  <2>3. CASE Confirmed \/ ConfirmTimeout \/ Finish
    BY <2>3 DEF Confirmed, ConfirmTimeout, Finish
  <2>4. QED
    BY <2>1, <2>2, <2>3 DEF Controller, Indicate
<1>6. QED
  BY <1>3, <1>4, <1>5

LEMMA FramesStep ==
    ASSUME TypeInv, FrameInv, [Next]_vars
    PROVE  FrameInv' /\ \A n : Over(n) => Over(n)'
<1>1. CASE UNCHANGED vars
  BY <1>1 DEF vars, linkVars, ctlVars, FrameInv, Over, Sent, Before, Queued, Waiting, Fq, Fe
<1>2. QED
  BY <1>1, FrameStepsOut, FrameStepsIn, FrameStepsController DEF Next
----------------------------------------------------------------------------
(* What has been executed.                                                 *)

(* The request a frame completes is over once the frame is processed.      *)
LEMMA CompletedOver ==
    ASSUME TypeInv, FrameInv, TakeStore, outcome'.kind = "dispatch"
    PROVE  /\ Queued(1) /\ Completes(outcome'.body) = Fq(1).payload /\ outcome'.body # <<>>
           /\ Over(Completes(outcome.body))'
<1> DEFINE f == queue[1].frame
<1>1. /\ Take("store") /\ f \in Frame /\ now \in Nat /\ xfer \in Transfer
      /\ enable_data_ntf /\ ProcessFrame(f, now)
  BY TakeStoreStep DEF DropUnsubscribed, Dropped
<1>2. /\ f.index + 1 >= f.count
      /\ outcome'.body # <<>> /\ Completes(outcome'.body) = f.payload
  BY <1>1, FrameStep
<1>3. /\ 1 \in 1..Len(queue) /\ queue[1].kind = "store"
      /\ \A i \in 1..Len(queue') : i + 1 \in 1..Len(queue) /\ queue'[i] = queue[i + 1]
      /\ UNCHANGED <<events, client, asked>>
  BY <1>1, TakesCommand
<1>4. Queued(1) /\ Fq(1) = f /\ Sent(f)
  BY <1>3 DEF Queued, Fq, FrameInv
<1> HIDE DEF f
<1>5. /\ f.index \in Nat /\ f.count \in Nat /\ f.payload \in Nat /\ f.payload \in 1..asked
      /\ asked \in Nat /\ f.index < f.count
  BY <1>1, <1>4, FrameFields, FramesTyped DEF Sent
<1>6. ASSUME NEW g \in Frame, Sent(g), Before(f, g)
      PROVE  g.payload > f.payload
  <2>1. g.index \in Nat /\ g.count \in Nat /\ g.payload \in Nat /\ g.index < g.count
    BY <1>6, FrameFields DEF Sent
  <2>2. QED
    BY <1>2, <1>5, <1>6, <2>1 DEF Before
<1>7. f.payload = asked => client.sent \in {0, ChunksOf[client.opcode]}
  <2>1. SUFFICES ASSUME f.payload = asked, client.sent # 0
                 PROVE  client.sent = ChunksOf[client.opcode]
    OBVIOUS
  <2>2. client.sent \in Nat
    BY DEF TypeInv, LinkTypeOK, ClientState
  <2>3. f.index < client.sent /\ f.count = ChunksOf[client.opcode]
    BY <1>4, <2>1, <2>2 DEF Sent
  <2>4. client.sent <= ChunksOf[client.opcode]
    BY <2>1, <2>2 DEF TypeInv, ClientInv
  <2>5. QED
    BY <1>2, <1>5, <2>2, <2>3, <2>4
<1>8. ASSUME NEW i \in 1..Len(queue'), Queued(i)' PROVE Fq(i)'.payload > f.payload
  <2>1. i + 1 \in 1..Len(queue) /\ Queued(i + 1) /\ Fq(i)' = Fq(i + 1) /\ 1 < i + 1
    BY <1>3, <1>8 DEF Queued, Fq
  <2>2. Fq(i + 1) \in Frame /\ Sent(Fq(i + 1)) /\ Before(f, Fq(i + 1))
    BY <1>3, <1>4, <2>1, FramesTyped DEF FrameInv
  <2>3. QED
    BY <1>6, <2>1, <2>2
<1>9. ASSUME NEW i \in 1..Len(events'), Waiting(i)' PROVE Fe(i)'.payload > f.payload
  <2>1. i \in 1..Len(events) /\ Waiting(i) /\ Fe(i)' = Fe(i)
    BY <1>3, <1>9 DEF Waiting, Fe
  <2>2. Fe(i) \in Frame /\ Sent(Fe(i)) /\ Before(f, Fe(i))
    BY <1>3, <1>4, <2>1, FramesTyped DEF FrameInv
  <2>3. QED
    BY <1>6, <2>1, <2>2
<1>10. ASSUME NEW n, n = f.payload PROVE Over(n)'
  BY <1>3, <1>5, <1>7, <1>8, <1>9, <1>10 DEF Over
<1>11. Over(Completes(outcome.body))'
  <2>1. PICK n : n = f.payload
    OBVIOUS
  <2>2. n = Completes(outcome.body)' /\ Over(n)'
    BY <1>2, <1>10, <2>1 DEF Completes
  <2>3. QED
    BY <2>2
<1>12. QED
  BY <1>2, <1>4, <1>11

(* A list of executed requests with one more, later than all of them.      *)
LEMMA ExecutedAppend ==
    ASSUME NEW s \in Seq(Seq(Payload)), NEW b \in Seq(Payload),
           \A i, j \in 1..Len(s) : i < j => Completes(s[i]) < Completes(s[j]),
           \A i \in 1..Len(s) : Completes(s[i]) < Completes(b)
    PROVE  /\ \A i, j \in 1..Len(Append(s, b)) :
                  i < j => Completes(Append(s, b)[i]) < Completes(Append(s, b)[j])
           /\ \A i \in 1..Len(Append(s, b)) :
                  Append(s, b)[i] = b \/ \E j \in 1..Len(s) : Append(s, b)[i] = s[j]
<1> DEFINE a == Append(s, b)
<1>1. /\ Len(a) = Len(s) + 1 /\ a[Len(s) + 1] = b /\ Len(s) \in Nat
      /\ \A i \in 1..Len(s) : a[i] = s[i]
  OBVIOUS
<1> HIDE DEF a
<1>2. \A i \in 1..Len(a) : i = Len(s) + 1 \/ (i \in 1..Len(s) /\ i < Len(s) + 1)
  BY <1>1
<1>3. ASSUME NEW i \in 1..Len(a), NEW j \in 1..Len(a), i < j
      PROVE  Completes(a[i]) < Completes(a[j])
  <2>1. i \in 1..Len(s)
    BY <1>1, <1>2, <1>3
  <2>2. CASE j = Len(s) + 1
    BY <1>1, <2>1, <2>2
  <2>3. CASE j \in 1..Len(s)
    BY <1>1, <1>3, <2>1, <2>3
  <2>4. QED
    BY <1>2, <2>2, <2>3
<1>4. \A i \in 1..Len(a) : a[i] = b \/ \E j \in 1..Len(s) : a[i] = s[j]
  BY <1>1, <1>2
<1>5. QED
  BY <1>3, <1>4 DEF a

(* Steps that execute nothing.                                             *)
LEMMA NothingDone ==
    ASSUME UNCHANGED <<stored, played>>, DoneInv, OnceInOrder, \A n : Over(n) => Over(n)',
           Dispatched' => UNCHANGED outcome,
           pc' = "handle" => pc = "handle" /\ UNCHANGED outcome,
           pc' \in {"handle", "check", "send", "wait"} /\ Dispatched' =>
               pc \in {"handle", "check", "send", "wait"}
    PROVE  DoneInv' /\ OnceInOrder'
<1>1. OnceInOrder'
  BY DEF OnceInOrder, Completes
<1>2. ASSUME NEW b, Over(Completes(b)) PROVE Over(Completes(b))'
  BY <1>2 DEF Completes
<1>3. Dispatched' => Dispatched /\ outcome' = outcome
  BY DEF Dispatched
<1>4. Dispatched' => outcome'.body # <<>> /\ Over(Completes(outcome.body))'
  <2>1. SUFFICES ASSUME Dispatched'
                 PROVE  outcome'.body # <<>> /\ Over(Completes(outcome.body))'
    OBVIOUS
  <2>2. PICK b : b = outcome.body
    OBVIOUS
  <2>3. b # <<>> /\ Over(Completes(b))
    BY <1>3, <2>1, <2>2 DEF DoneInv
  <2>4. Over(Completes(b))' /\ outcome'.body = b
    BY <1>2, <1>3, <2>1, <2>2, <2>3
  <2>5. Completes(b)' = Completes(outcome.body)'
    BY <2>4 DEF Completes
  <2>6. QED
    BY <2>3, <2>4
<1>5. \A s \in {stored, played} : \A i \in 1..Len(s) : s[i] # <<>> /\ Over(Completes(s[i]))'
  BY <1>2 DEF DoneInv
<1>6. pc' = "handle" => \A i \in 1..Len(stored') : Completes(stored'[i]) < Completes(outcome'.body)
  BY DEF DoneInv
<1>7. pc' \in {"handle", "check", "send", "wait"} /\ Dispatched' =>
          \A i \in 1..Len(played') : Completes(played'[i]) < Completes(outcome'.body)
  BY <1>3 DEF DoneInv
<1>8. QED
  BY <1>1, <1>4, <1>5, <1>6, <1>7 DEF DoneInv, Completes

(* Steps that execute the request dispatched.                              *)
LEMMA OneDone ==
    ASSUME TypeInv, DoneInv, OnceInOrder, \A n : Over(n) => Over(n)',
           Dispatched, UNCHANGED outcome,
           \/ /\ UNCHANGED played /\ stored' = Append(stored, outcome.body)
              /\ pc = "handle" /\ pc' = "check"
           \/ /\ UNCHANGED stored /\ played' = Append(played, outcome.body)
              /\ pc = "wait" /\ pc' = "busy"
    PROVE  DoneInv' /\ OnceInOrder'
<1> DEFINE body == outcome.body
<1>1. /\ stored \in Seq(Seq(Payload)) /\ played \in Seq(Seq(Payload)) /\ body \in Seq(Payload)
  BY DEF TypeInv, LinkTypeOK, TypeOK, Outcome, Dropped, Kept, Dispatched
<1>2. /\ \A i, j \in 1..Len(stored) : i < j => Completes(stored[i]) < Completes(stored[j])
      /\ \A i, j \in 1..Len(played) : i < j => Completes(played[i]) < Completes(played[j])
  BY DEF OnceInOrder
<1>3. ASSUME NEW b, b # <<>> /\ Over(Completes(b)) PROVE b # <<>> /\ Over(Completes(b))'
  BY <1>3 DEF Completes
<1>4. body # <<>> /\ Over(Completes(body))
  BY DEF DoneInv
<1>5. /\ \A i \in 1..Len(stored) : stored[i] # <<>> /\ Over(Completes(stored[i]))
      /\ \A i \in 1..Len(played) : played[i] # <<>> /\ Over(Completes(played[i]))
  BY DEF DoneInv
<1>6. /\ stored' = Append(stored, body) =>
             \A i \in 1..Len(stored) : Completes(stored[i]) < Completes(body)
      /\ \A i \in 1..Len(played) : Completes(played[i]) < Completes(body)
  <2>1. \A i \in 1..Len(played) : Completes(played[i]) < Completes(body)
    BY DEF DoneInv
  <2>2. pc = "handle" => \A i \in 1..Len(stored) : Completes(stored[i]) < Completes(body)
    BY DEF DoneInv
  <2>3. stored' = stored => stored' # Append(stored, body)
    <3>1. Len(Append(stored, body)) = Len(stored) + 1 /\ Len(stored) \in Nat
      BY <1>1
    <3>2. QED
      BY <3>1
  <2>4. QED
    BY <2>1, <2>2, <2>3
<1> HIDE DEF body
<1>7. /\ \A i, j \in 1..Len(stored') : i < j => Completes(stored'[i]) < Completes(stored'[j])
      /\ \A i \in 1..Len(stored') :
             stored'[i] = body \/ \E j \in 1..Len(stored) : stored'[i] = stored[j]
  <2>1. CASE stored' = stored
    BY <1>2, <2>1
  <2>2. CASE stored' = Append(stored, body)
    BY <1>1, <1>2, <1>6, <2>2, ExecutedAppend
  <2>3. QED
    BY <2>1, <2>2 DEF body
<1>8. /\ \A i, j \in 1..Len(played') : i < j => Completes(played'[i]) < Completes(played'[j])
      /\ \A i \in 1..Len(played') :
             played'[i] = body \/ \E j \in 1..Len(played) : played'[i] = played[j]
  <2>1. CASE played' = played
    BY <1>2, <2>1
  <2>2. CASE played' = Append(played, body)
    BY <1>1, <1>2, <1>6, <2>2, ExecutedAppend
  <2>3. QED
    BY <2>1, <2>2 DEF body
<1>9. /\ \A i \in 1..Len(stored') : stored'[i] # <<>> /\ Over(Completes(stored[i]))'
      /\ \A i \in 1..Len(played') : played'[i] # <<>> /\ Over(Completes(played[i]))'
  <2>1. ASSUME NEW b, b = body \/ (\E j \in 1..Len(stored) : b = stored[j])
                               \/ (\E j \in 1..Len(played) : b = played[j])
        PROVE  b # <<>> /\ Over(Completes(b))'
    BY <1>3, <1>4, <1>5, <2>1
  <2>2. ASSUME NEW i \in 1..Len(stored') PROVE stored'[i] # <<>> /\ Over(Completes(stored[i]))'
    <3>1. PICK b : b = stored'[i]
      OBVIOUS
    <3>2. b # <<>> /\ Over(Completes(b))'
      BY <1>7, <2>1, <2>2, <3>1
    <3>3. Completes(b)' = Completes(stored[i])'
      BY <3>1 DEF Completes
    <3>4. QED
      BY <3>1, <3>2, <3>3
  <2>3. ASSUME NEW i \in 1..Len(played') PROVE played'[i] # <<>> /\ Over(Completes(played[i]))'
    <3>1. PICK b : b = played'[i]
      OBVIOUS
    <3>2. b # <<>> /\ Over(Completes(b))'
      BY <1>8, <2>1, <2>3, <3>1
    <3>3. Completes(b)' = Completes(played[i])'
      BY <3>1 DEF Completes
    <3>4. QED
      BY <3>1, <3>2, <3>3
  <2>4. QED
    BY <2>2, <2>3
<1>10. outcome'.body # <<>> /\ Over(Completes(outcome.body))'
  <2>1. PICK b : b = body
    OBVIOUS
  <2>2. b # <<>> /\ Over(Completes(b))' /\ outcome'.body = b
    BY <1>3, <1>4, <2>1 DEF body
  <2>3. Completes(b)' = Completes(outcome.body)'
    BY <2>2 DEF Completes
  <2>4. QED
    BY <2>2, <2>3
<1>11. OnceInOrder'
  BY <1>7, <1>8 DEF OnceInOrder, Completes
<1>12. pc' # "handle"
  OBVIOUS
<1>13. pc' \in {"check", "send", "wait"} =>
           \A i \in 1..Len(played') : Completes(played'[i]) < Completes(outcome'.body)
  BY <1>6 DEF body
<1>14. QED
  BY <1>9, <1>10, <1>11, <1>12, <1>13 DEF DoneInv, Completes

LEMMA DoneStep ==
    ASSUME TypeInv, FrameInv, DoneInv, OnceInOrder, [Next]_vars
    PROVE  DoneInv' /\ OnceInOrder'
<1>1. \A n : Over(n) => Over(n)'
  BY FramesStep
<1>2. ASSUME NEW b, Over(Completes(b)) PROVE Over(Completes(b))'
  BY <1>1, <1>2 DEF Completes
<1>3. /\ stored \in Seq(Seq(Payload)) /\ played \in Seq(Seq(Payload))
      /\ Dispatched => outcome.body \in Seq(Payload)
  BY DEF TypeInv, LinkTypeOK, TypeOK, Outcome, Dropped, Kept, Dispatched
<1>4. CASE Client \/ Tick \/ Bridge \/ Callback \/ UNCHANGED vars
  <2>1. UNCHANGED <<pc, stored, played, outcome>>
    <3>1. CASE Client
      BY <1>4, <3>1, WritesKind, SettlesLeaves DEF Connect, Drop, ClientWrites, ctlVars, histVars, regs
    <3>2. CASE Tick \/ UNCHANGED vars
      BY <3>2 DEF Tick, vars, ctlVars, histVars, regs
    <3>3. CASE Callback
      BY <3>3 DEF Callback, ConnectEvt, MtuEvt, CccdEvt, ConfEvt, WriteEvt, WriteTimeout,
                  DisconnectEvt, Next1, regs
    <3>4. CASE Bridge
      BY <3>4, BridgeLeaves
    <3>5. QED
      BY <1>4, <3>1, <3>2, <3>3, <3>4
  <2>2. QED
    BY <1>1, <2>1, NothingDone DEF Dispatched
<1>5. CASE TakeReset \/ TakeOther
  <2>1. UNCHANGED <<stored, played, outcome>> /\ pc' \in {"idle", "busy"}
    BY <1>5, TakesCommand DEF TakeReset, TakeOther, StoreReset, regs
  <2>2. QED
    BY <1>1, <2>1, NothingDone
<1>6. CASE CheckFails \/ Drain \/ Send \/ ConfirmTimeout \/ Finish
  <2>1. /\ UNCHANGED <<stored, played, outcome>> /\ pc' # "handle"
        /\ pc' \in {"check", "send", "wait"} => pc \in {"check", "send", "wait"}
    BY <1>6 DEF CheckFails, Drain, Send, ConfirmTimeout, Finish, histVars, regs
  <2>2. QED
    BY <1>1, <2>1, NothingDone
<1>7. CASE TakeStore /\ outcome'.kind # "dispatch"
  <2>1. UNCHANGED <<stored, played>> /\ ~Dispatched' /\ pc' # "handle"
    BY <1>7, TakeStoreStep, TakesCommand DEF Dispatched
  <2>2. QED
    BY <1>1, <2>1, NothingDone
<1>8. CASE TakeStore /\ outcome'.kind = "dispatch"
  <2>1. UNCHANGED <<stored, played>>
    BY <1>8, TakeStoreStep, TakesCommand
  <2>2. /\ Queued(1) /\ Completes(outcome'.body) = Fq(1).payload /\ outcome'.body # <<>>
        /\ Over(Completes(outcome.body))' /\ 1 \in 1..Len(queue)
    BY <1>8, CompletedOver DEF Queued
  <2>3. \A s \in {stored, played} : \A i \in 1..Len(s) :
            s[i] # <<>> /\ Over(Completes(s[i])) /\ Over(Completes(s[i]))'
    BY <1>2 DEF DoneInv
  <2>4. \A s \in {stored, played} : \A i \in 1..Len(s) : Completes(s[i]) < Fq(1).payload
    <3>1. \A n : Over(n) => Fq(1).payload > n /\ n \in 1..asked
      BY <2>2 DEF Over
    <3>2. Fq(1).payload \in Nat /\ asked \in Nat
      BY <2>2, FramesTyped, FrameFields
    <3>3. QED
      BY <2>3, <3>1, <3>2
  <2>5. \A s \in {stored', played'} : \A i \in 1..Len(s) :
            s[i] # <<>> /\ Over(Completes(s[i]))'
    BY <2>1, <2>3
  <2>6. OnceInOrder'
    BY <2>1 DEF OnceInOrder, Completes
  <2>7. /\ \A i \in 1..Len(stored') : Completes(stored'[i]) < Completes(outcome'.body)
        /\ \A i \in 1..Len(played') : Completes(played'[i]) < Completes(outcome'.body)
    BY <2>1, <2>2, <2>4
  <2>8. QED
    BY <2>2, <2>5, <2>6, <2>7 DEF DoneInv, Completes
<1>9. CASE Handle
  <2>1. /\ pc = "handle" /\ pc' = "check" /\ UNCHANGED <<played, outcome>>
        /\ stored' = stored \/ stored' = Append(stored, outcome.body)
    BY <1>9 DEF Handle, regs
  <2>2. Dispatched
    BY <2>1 DEF TypeInv, PcInv, Dispatched
  <2>3. CASE stored' = stored
    BY <1>1, <2>1, <2>3, NothingDone
  <2>4. CASE stored' = Append(stored, outcome.body)
    BY <1>1, <2>1, <2>2, <2>4, OneDone
  <2>5. QED
    BY <2>1, <2>3, <2>4
<1>10. CASE Confirmed
  <2>1. /\ pc = "wait" /\ UNCHANGED <<stored, outcome>>
        /\ \/ played' = played /\ pc' # "handle"
           \/ answer.status = "OK" /\ played' = Append(played, outcome.body) /\ pc' = "busy"
    BY <1>10 DEF Confirmed, regs
  <2>2. CASE played' = played /\ pc' # "handle"
    BY <1>1, <2>1, <2>2, NothingDone
  <2>3. CASE answer.status = "OK" /\ played' = Append(played, outcome.body) /\ pc' = "busy"
    <3>1. Dispatched
      BY <2>1, <2>3 DEF TypeInv, PcInv, Dispatched
    <3>2. QED
      BY <1>1, <2>1, <2>3, <3>1, OneDone
  <2>4. QED
    BY <2>1, <2>2, <2>3
<1>11. QED
  BY <1>4, <1>5, <1>6, <1>7, <1>8, <1>9, <1>10 DEF Next, Controller, Indicate
----------------------------------------------------------------------------
(* Requests do not mix: a transfer belongs to one request.                 *)

(* Chunks on their way to the buffer: position 0 is the transfer under way,*)
(* then come the commands in the queue and the events.  Holds(i, c, p):    *)
(* there is a chunk with correlation id c of request p at i.               *)
Rear == Len(queue) + Len(events)

Holds(i, c, p) ==
    \/ i = 0 /\ Active(xfer) /\ c = xfer.corr /\ p = xfer.buffer[1]
    \/ Queued(i) /\ c = Fq(i).corr /\ p = Fq(i).payload
    \/ /\ Waiting(i - Len(queue))
       /\ c = Fe(i - Len(queue)).corr /\ p = Fe(i - Len(queue)).payload

(* The end of a connection: its reset, or the event that will queue it.    *)
Cut(i) == \/ i \in 1..Len(queue) /\ queue[i].kind = "reset"
          \/ i - Len(queue) \in 1..Len(events) /\ events[i - Len(queue)].kind = "disconnect"

Uniform(b) == \A i, j \in 1..Len(b) : b[i] = b[j]

BufferInv == Active(xfer) => xfer.buffer # <<>> /\ Uniform(xfer.buffer)

PairInv ==
    \A i, j \in 0..Rear, c \in Corr, p, q \in Payload :
        i < j /\ Holds(i, c, p) /\ Holds(j, c, q) /\ (\A k \in i..j : ~Cut(k)) => p = q

(* Of the requests the client has made, or an id it has yet to use.        *)
Made(c, p) == c <= client.corr /\ (c = client.corr => p = asked)

OpenInv ==
    \A i \in 0..Rear, c \in Corr, p \in Payload :
        Holds(i, c, p) /\ (\A k \in i..Rear : ~Cut(k)) => up /\ Made(c, p)

ThreadInv == BufferInv /\ PairInv /\ OpenInv

MixInv ==
    "reset" \notin lost =>
        /\ ThreadInv
        /\ Dispatched => Uniform(outcome.body)
        /\ \A i \in 1..Len(stored) : Uniform(stored[i])

LEMMA PathNat == (TypeInv => Rear \in Nat) /\ (TypeInv' => Rear' \in Nat)
<1>1. ASSUME TypeInv PROVE Rear \in Nat
  BY <1>1, FramesTyped DEF Rear
<1>2. ASSUME TypeInv' PROVE Rear' \in Nat
  <2>1. queue' \in Seq(Command) /\ events' \in Seq(Event)
    BY <1>2 DEF TypeInv, LinkTypeOK
  <2>2. QED
    BY <2>1 DEF Rear
<1>3. QED
  BY <1>1, <1>2

LEMMA ThreadMoves ==
    ASSUME TypeInv, TypeInv', PairInv, OpenInv, NEW m \in [Nat -> Nat],
           \A i, j \in Nat : i < j => m[i] < m[j],
           \A i \in 0..Rear', c \in Corr, p \in Payload :
               Holds(i, c, p)' => m[i] \in 0..Rear /\ Holds(m[i], c, p),
           \A i \in 0..Rear', c \in Corr, p \in Payload, k \in 0..Rear :
               Holds(i, c, p)' /\ k >= m[i] /\ Cut(k) =>
                   \E l \in 0..Rear' : l >= i /\ m[l] = k /\ Cut(l)',
           UNCHANGED <<up, asked>>, client'.corr = client.corr
    PROVE  PairInv' /\ OpenInv'
<1>1. Rear \in Nat /\ Rear' \in Nat
  BY PathNat
<1>2. PairInv'
  <2>1. SUFFICES ASSUME NEW i \in 0..Rear', NEW j \in 0..Rear', NEW c \in Corr,
                        NEW p \in Payload, NEW q \in Payload,
                        i < j, Holds(i, c, p)', Holds(j, c, q)', \A k \in i..j : ~Cut(k)'
                 PROVE  p = q
    BY DEF PairInv
  <2>2. m[i] \in 0..Rear /\ m[j] \in 0..Rear /\ Holds(m[i], c, p) /\ Holds(m[j], c, q)
    BY <2>1
  <2>3. i \in Nat /\ j \in Nat /\ m[i] < m[j]
    BY <1>1, <2>1
  <2>4. ASSUME NEW k \in m[i]..m[j], Cut(k) PROVE FALSE
    <3>1. k \in 0..Rear /\ k >= m[i] /\ k <= m[j]
      BY <1>1, <2>2, <2>4
    <3>2. PICK l \in 0..Rear' : l >= i /\ m[l] = k /\ Cut(l)'
      BY <2>1, <2>4, <3>1
    <3>3. l \in Nat /\ l <= j
      <4>1. l \in Nat
        BY <1>1
      <4>2. j < l => m[j] < m[l]
        BY <2>3, <4>1
      <4>3. ~(j < l)
        BY <2>2, <3>1, <3>2, <4>2
      <4>4. QED
        BY <2>3, <4>1, <4>3
    <3>4. QED
      BY <2>1, <3>2, <3>3
  <2>5. QED
    BY <2>2, <2>3, <2>4 DEF PairInv
<1>3. OpenInv'
  <2>1. SUFFICES ASSUME NEW i \in 0..Rear', NEW c \in Corr, NEW p \in Payload,
                        Holds(i, c, p)', \A k \in i..Rear' : ~Cut(k)'
                 PROVE  up /\ Made(c, p)
    BY DEF OpenInv, Made
  <2>2. m[i] \in 0..Rear /\ Holds(m[i], c, p)
    BY <2>1
  <2>3. ASSUME NEW k \in m[i]..Rear, Cut(k) PROVE FALSE
    <3>1. k \in 0..Rear /\ k >= m[i]
      BY <1>1, <2>2, <2>3
    <3>2. PICK l \in 0..Rear' : l >= i /\ m[l] = k /\ Cut(l)'
      BY <2>1, <2>3, <3>1
    <3>3. QED
      BY <1>1, <2>1, <3>2
  <2>4. QED
    BY <2>2, <2>3 DEF OpenInv
<1>4. QED
  BY <1>2, <1>3

LEMMA PathTyped ==
    ASSUME TypeInv
    PROVE  /\ Rear \in Nat /\ Len(queue) \in Nat /\ Len(events) \in Nat
           /\ \A i \in Int : \A c, p : Holds(i, c, p) => i \in 0..Rear
           /\ \A i \in Int : Cut(i) => i \in 1..Rear
           /\ \A i \in 1..Len(queue) : i - Len(queue) \notin 1..Len(events)
<1>1. Len(queue) \in Nat /\ Len(events) \in Nat
  BY FramesTyped
<1>2. QED
  BY <1>1 DEF Rear, Holds, Cut, Queued, Waiting

(* A command is taken from the queue: what comes after it moves up.        *)
LEMMA QueueTaken ==
    ASSUME TypeInv, NEW kind, Take(kind)
    PROVE  /\ Rear' = Rear - 1
           /\ \A i \in 1..Rear' : \A c, p : Holds(i, c, p)' => Holds(i + 1, c, p)
           /\ \A k \in 2..Rear : Cut(k) => Cut(k - 1)'
           /\ Cut(1) => kind = "reset"
<1>1. /\ Len(queue') = Len(queue) - 1 /\ Len(queue) \in Nat /\ Len(events) \in Nat
      /\ 1 \in 1..Len(queue) /\ queue[1].kind = kind /\ UNCHANGED events
      /\ \A i \in 1..Len(queue') : i + 1 \in 1..Len(queue) /\ queue'[i] = queue[i + 1]
  BY TakesCommand, FramesTyped
<1>2. Rear' = Rear - 1 /\ Rear \in Nat
  BY <1>1 DEF Rear
<1>3. ASSUME NEW i \in 1..Rear', NEW c, NEW p, Holds(i, c, p)' PROVE Holds(i + 1, c, p)
  <2>1. i - Len(queue') = (i + 1) - Len(queue) /\ i # 0
    BY <1>1, <1>2
  <2>2. CASE Queued(i)' /\ c = Fq(i)'.corr /\ p = Fq(i)'.payload
    BY <1>1, <2>2 DEF Holds, Queued, Fq
  <2>3. CASE /\ Waiting(i - Len(queue))' /\ c = Fe(i - Len(queue))'.corr
             /\ p = Fe(i - Len(queue))'.payload
    BY <1>1, <2>1, <2>3 DEF Holds, Waiting, Fe
  <2>4. QED
    BY <1>3, <2>1, <2>2, <2>3 DEF Holds
<1>4. ASSUME NEW k \in 2..Rear, Cut(k) PROVE Cut(k - 1)'
  <2>1. (k - 1) - Len(queue') = k - Len(queue)
    BY <1>1, <1>2
  <2>2. CASE k \in 1..Len(queue) /\ queue[k].kind = "reset"
    <3>1. k - 1 \in 1..Len(queue') /\ queue'[k - 1] = queue[k]
      BY <1>1, <2>2
    <3>2. QED
      BY <2>2, <3>1 DEF Cut
  <2>3. CASE k - Len(queue) \in 1..Len(events) /\ events[k - Len(queue)].kind = "disconnect"
    BY <1>1, <2>1, <2>3 DEF Cut
  <2>4. QED
    BY <1>4, <2>2, <2>3 DEF Cut
<1>5. Cut(1) => kind = "reset"
  BY <1>1 DEF Cut
<1>6. QED
  BY <1>2, <1>3, <1>4, <1>5

(* An event is handled that leaves the queue as it is: so does what comes  *)
(* after it.                                                               *)
LEMMA EventTaken ==
    ASSUME TypeInv, NEW kind, Next1(kind), UNCHANGED queue
    PROVE  /\ Rear' = Rear - 1
           /\ \A i \in 0..Rear' : \A c, p : Holds(i, c, p)' =>
                 Holds(IF i <= Len(queue) THEN i ELSE i + 1, c, p)
           /\ \A k \in 0..Rear : Cut(k) =>
                 \/ k <= Len(queue) /\ Cut(k)'
                 \/ k = Len(queue) + 1 /\ kind = "disconnect"
                 \/ k - 1 > Len(queue) /\ Cut(k - 1)'
<1>1. /\ Len(events') = Len(events) - 1 /\ Len(queue) \in Nat /\ Len(events) \in Nat
      /\ 1 \in 1..Len(events) /\ events[1].kind = kind /\ UNCHANGED <<queue, xfer>>
      /\ \A i \in 1..Len(events') : i + 1 \in 1..Len(events) /\ events'[i] = events[i + 1]
  BY TakesEvent, FramesTyped DEF regs
<1>2. Rear' = Rear - 1 /\ Rear \in Nat
  BY <1>1 DEF Rear
<1>3. ASSUME NEW i \in 0..Rear', NEW c, NEW p, Holds(i, c, p)'
      PROVE  Holds(IF i <= Len(queue) THEN i ELSE i + 1, c, p)
  <2>1. CASE i <= Len(queue)
    <3>1. i - Len(queue') \notin 1..Len(events')
      BY <1>1, <1>2, <2>1
    <3>2. Holds(i, c, p)
      BY <1>1, <1>3, <3>1 DEF Holds, Queued, Waiting, Fq
    <3>3. QED
      BY <2>1, <3>2
  <2>2. CASE ~(i <= Len(queue))
    <3>1. i # 0 /\ ~Queued(i)' /\ (i + 1) - Len(queue) = (i - Len(queue)) + 1
      BY <1>1, <1>2, <2>2 DEF Queued
    <3>2. Holds(i + 1, c, p)
      BY <1>1, <1>3, <3>1 DEF Holds, Waiting, Fe
    <3>3. QED
      BY <2>2, <3>2
  <2>3. QED
    BY <2>1, <2>2
<1>4. ASSUME NEW k \in 0..Rear, Cut(k)
      PROVE  \/ k <= Len(queue) /\ Cut(k)'
             \/ k = Len(queue) + 1 /\ kind = "disconnect"
             \/ k - 1 > Len(queue) /\ Cut(k - 1)'
  <2>1. CASE k \in 1..Len(queue) /\ queue[k].kind = "reset"
    BY <1>1, <2>1 DEF Cut
  <2>2. CASE k - Len(queue) \in 1..Len(events) /\ events[k - Len(queue)].kind = "disconnect"
    <3>1. CASE k - Len(queue) = 1
      BY <1>1, <2>2, <3>1
    <3>2. CASE k - Len(queue) # 1
      <4>1. /\ (k - 1) - Len(queue) \in 1..Len(events') /\ k - 1 > Len(queue)
            /\ ((k - 1) - Len(queue)) + 1 = k - Len(queue)
        BY <1>1, <1>2, <2>2, <3>2
      <4>2. Cut(k - 1)'
        BY <1>1, <2>2, <4>1 DEF Cut
      <4>3. QED
        BY <4>1, <4>2
    <3>3. QED
      BY <3>1, <3>2
  <2>3. QED
    BY <1>4, <2>1, <2>2 DEF Cut
<1>5. QED
  BY <1>2, <1>3, <1>4

(* The event becomes a command: everything stays where it is.              *)
LEMMA EventMoved ==
    ASSUME TypeInv, NEW kind, Next1(kind), NEW d \in Command, Room, queue' = Append(queue, d),
           \/ kind = "write" /\ d = Head(events).command
           \/ kind = "disconnect" /\ d = ResetCmd
    PROVE  /\ Rear' = Rear
           /\ \A i \in 0..Rear' : \A c, p : Holds(i, c, p)' => Holds(i, c, p)
           /\ \A k \in 0..Rear : Cut(k) => Cut(k)'
<1>1. /\ Len(events') = Len(events) - 1 /\ Len(queue) \in Nat /\ Len(events) \in Nat
      /\ 1 \in 1..Len(events) /\ Head(events) = events[1] /\ events[1].kind = kind
      /\ UNCHANGED <<xfer>>
      /\ \A i \in 1..Len(events') : i + 1 \in 1..Len(events) /\ events'[i] = events[i + 1]
  BY TakesEvent, FramesTyped DEF regs
<1>2. /\ Len(queue') = Len(queue) + 1 /\ queue'[Len(queue) + 1] = d
      /\ \A i \in 1..Len(queue) : queue'[i] = queue[i]
  BY QueueRoom
<1>3. Rear' = Rear /\ Rear \in Nat
  BY <1>1, <1>2 DEF Rear
<1>4. ResetCmd.kind = "reset"
  BY CommandFields
<1>5. ASSUME NEW i \in 0..Rear', NEW c, NEW p, Holds(i, c, p)' PROVE Holds(i, c, p)
  <2>1. CASE i = 0
    BY <1>1, <1>2, <1>5, <2>1 DEF Holds, Queued, Waiting
  <2>2. CASE i \in 1..Len(queue)
    <3>1. i - Len(queue') \notin 1..Len(events') /\ i # 0
      BY <1>1, <1>2, <2>2
    <3>2. QED
      BY <1>1, <1>2, <1>5, <2>2, <3>1 DEF Holds, Queued, Waiting, Fq
  <2>3. CASE i = Len(queue) + 1
    <3>1. i - Len(queue') \notin 1..Len(events') /\ i # 0 /\ i - Len(queue) = 1
      BY <1>1, <1>2, <2>3
    <3>2. queue'[i] = d /\ Queued(i)' /\ c = d.frame.corr /\ p = d.frame.payload /\ d.kind = "store"
      BY <1>2, <1>5, <2>3, <3>1 DEF Holds, Queued, Waiting, Fq
    <3>3. Waiting(i - Len(queue)) /\ Fe(i - Len(queue)) = d.frame
      BY <1>1, <1>4, <3>1, <3>2 DEF Waiting, Fe
    <3>4. QED
      BY <3>2, <3>3 DEF Holds
  <2>4. CASE i > Len(queue) + 1
    <3>1. ~Queued(i)' /\ i # 0 /\ i - Len(queue) = (i - Len(queue')) + 1
      BY <1>1, <1>2, <2>4 DEF Queued
    <3>2. QED
      BY <1>1, <1>5, <3>1 DEF Holds, Waiting, Fe
  <2>5. QED
    BY <1>1, <1>3, <2>1, <2>2, <2>3, <2>4
<1>6. ASSUME NEW k \in 0..Rear, Cut(k) PROVE Cut(k)'
  <2>1. CASE k \in 1..Len(queue) /\ queue[k].kind = "reset"
    BY <1>1, <1>2, <2>1 DEF Cut
  <2>2. CASE k - Len(queue) \in 1..Len(events) /\ events[k - Len(queue)].kind = "disconnect"
    <3>1. CASE k - Len(queue) = 1
      <4>1. kind = "disconnect" /\ k = Len(queue) + 1
        BY <1>1, <1>3, <2>2, <3>1
      <4>2. queue'[k].kind = "reset" /\ k \in 1..Len(queue')
        BY <1>1, <1>2, <1>4, <4>1
      <4>3. QED
        BY <4>2 DEF Cut
    <3>2. CASE k - Len(queue) # 1
      <4>1. k - Len(queue') \in 1..Len(events') /\ (k - Len(queue')) + 1 = k - Len(queue)
        BY <1>1, <1>2, <1>3, <2>2, <3>2
      <4>2. QED
        BY <1>1, <2>2, <4>1 DEF Cut
    <3>3. QED
      BY <3>1, <3>2
  <2>3. QED
    BY <1>6, <2>1, <2>2 DEF Cut
<1>7. QED
  BY <1>3, <1>5, <1>6

(* An event joins the others.                                              *)
LEMMA EventJoined ==
    ASSUME TypeInv, NEW e \in Event, events' = Append(events, e), UNCHANGED <<queue, xfer>>
    PROVE  /\ Rear' = Rear + 1
           /\ \A i \in 0..Rear' : \A c, p : Holds(i, c, p)' =>
                 \/ i \in 0..Rear /\ Holds(i, c, p)
                 \/ /\ i = Rear + 1 /\ e.kind = "write" /\ e.command.kind = "store"
                    /\ c = e.command.frame.corr /\ p = e.command.frame.payload
           /\ \A k \in 0..Rear : Cut(k) => Cut(k)'
           /\ e.kind = "disconnect" => Cut(Rear)'
<1>1. /\ Len(events') = Len(events) + 1 /\ events'[Len(events) + 1] = e
      /\ \A i \in 1..Len(events) : events'[i] = events[i]
      /\ Len(events) \in Nat /\ Len(queue) \in Nat
  BY AppendsEvent, FramesTyped
<1>2. Rear' = Rear + 1 /\ Rear \in Nat
  BY <1>1 DEF Rear
<1>3. ASSUME NEW i \in 0..Rear', NEW c, NEW p, Holds(i, c, p)'
      PROVE  \/ i \in 0..Rear /\ Holds(i, c, p)
             \/ /\ i = Rear + 1 /\ e.kind = "write" /\ e.command.kind = "store"
                /\ c = e.command.frame.corr /\ p = e.command.frame.payload
  <2>1. CASE i = Rear + 1
    <3>1. i - Len(queue) = Len(events) + 1 /\ i # 0 /\ i \notin 1..Len(queue)
      BY <1>1, <2>1 DEF Rear
    <3>2. QED
      BY <1>1, <1>3, <2>1, <3>1 DEF Holds, Queued, Waiting, Fe
  <2>2. CASE i # Rear + 1
    <3>1. i \in 0..Rear /\ (i - Len(queue) \in 1..Len(events') => i - Len(queue) \in 1..Len(events))
      BY <1>1, <1>2, <2>2 DEF Rear
    <3>2. CASE i = 0 /\ Active(xfer)' /\ c = xfer'.corr /\ p = xfer'.buffer[1]
      BY <3>1, <3>2 DEF Holds
    <3>3. CASE Queued(i)' /\ c = Fq(i)'.corr /\ p = Fq(i)'.payload
      BY <3>1, <3>3 DEF Holds, Queued, Fq
    <3>4. CASE /\ Waiting(i - Len(queue))' /\ c = Fe(i - Len(queue))'.corr
               /\ p = Fe(i - Len(queue))'.payload
      BY <1>1, <3>1, <3>4 DEF Holds, Waiting, Fe
    <3>5. QED
      BY <1>3, <3>1, <3>2, <3>3, <3>4 DEF Holds
  <2>3. QED
    BY <2>1, <2>2
<1>4. ASSUME NEW k \in 0..Rear, Cut(k) PROVE Cut(k)'
  <2>1. k - Len(queue) \in 1..Len(events) => k - Len(queue) \in 1..Len(events')
    BY <1>1
  <2>2. QED
    BY <1>1, <1>4, <2>1 DEF Cut
<1>5. e.kind = "disconnect" => Cut(Rear)'
  <2>1. Rear' - Len(queue') = Len(events) + 1 /\ Len(events) + 1 \in 1..Len(events')
    BY <1>1, <1>2 DEF Rear
  <2>2. QED
    BY <1>1, <2>1 DEF Cut
<1>6. QED
  BY <1>2, <1>3, <1>4, <1>5

(* A command taken: what it leaves in the registers comes from position z. *)
LEMMA ThreadTake ==
    ASSUME TypeInv, TypeInv', PairInv, OpenInv, NEW kind, Take(kind), NEW z \in {0, 1},
           \A c \in Corr, p \in Payload : Holds(0, c, p)' => kind # "reset" /\ Holds(z, c, p)
    PROVE  PairInv' /\ OpenInv'
<1> DEFINE m == [i \in Nat |-> IF i = 0 THEN z ELSE i + 1]
<1>1. /\ Rear' = Rear - 1
      /\ \A i \in 1..Rear' : \A c, p : Holds(i, c, p)' => Holds(i + 1, c, p)
      /\ \A k \in 2..Rear : Cut(k) => Cut(k - 1)'
      /\ Cut(1) => kind = "reset"
  BY QueueTaken
<1>2. Rear \in Nat /\ Rear' \in Nat /\ ~Cut(0)
  BY PathNat, PathTyped
<1>3. m \in [Nat -> Nat] /\ \A i, j \in Nat : i < j => m[i] < m[j]
  OBVIOUS
<1>4. ASSUME NEW i \in 0..Rear', NEW c \in Corr, NEW p \in Payload, Holds(i, c, p)'
      PROVE  m[i] \in 0..Rear /\ Holds(m[i], c, p)
  <2>1. CASE i = 0
    BY <1>1, <1>2, <1>4, <2>1
  <2>2. CASE i # 0
    BY <1>1, <1>2, <1>4, <2>2
  <2>3. QED
    BY <2>1, <2>2
<1>5. ASSUME NEW i \in 0..Rear', NEW c \in Corr, NEW p \in Payload, NEW k \in 0..Rear,
             Holds(i, c, p)', k >= m[i], Cut(k)
      PROVE  \E l \in 0..Rear' : l >= i /\ m[l] = k /\ Cut(l)'
  <2>1. k >= 2
    <3>1. CASE i = 0
      BY <1>1, <1>2, <1>5, <3>1
    <3>2. CASE i # 0
      BY <1>2, <1>5, <3>2
    <3>3. QED
      BY <3>1, <3>2
  <2>2. k - 1 \in 1..Rear' /\ k - 1 >= i /\ m[k - 1] = k /\ Cut(k - 1)'
    BY <1>1, <1>2, <1>5, <2>1
  <2>3. QED
    BY <1>2, <2>2
<1>6. UNCHANGED <<up, asked>> /\ client'.corr = client.corr
  BY TakesCommand
<1> HIDE DEF m
<1>7. QED
  BY <1>3, <1>4, <1>5, <1>6, ThreadMoves

LEMMA ThreadEvent ==
    ASSUME TypeInv, TypeInv', PairInv, OpenInv, NEW kind, Next1(kind), UNCHANGED queue,
           kind # "disconnect"
    PROVE  PairInv' /\ OpenInv'
<1> DEFINE m == [i \in Nat |-> IF i <= Len(queue) THEN i ELSE i + 1]
<1>1. /\ Rear' = Rear - 1
      /\ \A i \in 0..Rear' : \A c, p : Holds(i, c, p)' =>
            Holds(IF i <= Len(queue) THEN i ELSE i + 1, c, p)
      /\ \A k \in 0..Rear : Cut(k) =>
            \/ k <= Len(queue) /\ Cut(k)'
            \/ k - 1 > Len(queue) /\ Cut(k - 1)'
  BY EventTaken
<1>2. Rear \in Nat /\ Rear' \in Nat /\ Len(queue) \in Nat
  BY PathNat, PathTyped
<1>3. Len(queue) <= Rear'
  <2>1. Len(events) - 1 = Len(events') /\ Len(events) >= 1 /\ Len(events) \in Nat
    BY TakesEvent
  <2>2. QED
    BY <1>1, <1>2, <2>1 DEF Rear
<1>4. m \in [Nat -> Nat] /\ \A i, j \in Nat : i < j => m[i] < m[j]
  BY <1>2
<1>5. ASSUME NEW i \in 0..Rear', NEW c \in Corr, NEW p \in Payload, Holds(i, c, p)'
      PROVE  m[i] \in 0..Rear /\ Holds(m[i], c, p)
  BY <1>1, <1>2, <1>5
<1>6. ASSUME NEW i \in 0..Rear', NEW c \in Corr, NEW p \in Payload, NEW k \in 0..Rear,
             Holds(i, c, p)', k >= m[i], Cut(k)
      PROVE  \E l \in 0..Rear' : l >= i /\ m[l] = k /\ Cut(l)'
  <2>1. CASE k <= Len(queue) /\ Cut(k)'
    <3>1. k \in 0..Rear' /\ k >= i /\ m[k] = k
      BY <1>2, <1>3, <1>6, <2>1
    <3>2. QED
      BY <2>1, <3>1
  <2>2. CASE k - 1 > Len(queue) /\ Cut(k - 1)'
    <3>1. k - 1 \in 0..Rear' /\ k - 1 >= i /\ m[k - 1] = k
      BY <1>1, <1>2, <1>6, <2>2
    <3>2. QED
      BY <2>2, <3>1
  <2>3. QED
    BY <1>1, <1>6, <2>1, <2>2
<1>7. UNCHANGED <<up, asked>> /\ client'.corr = client.corr
  BY TakesEvent
<1> HIDE DEF m
<1>8. QED
  BY <1>4, <1>5, <1>6, <1>7, ThreadMoves

LEMMA ThreadWrite ==
    ASSUME TypeInv, TypeInv', PairInv, OpenInv,
           NEW kind, Next1(kind), NEW d \in Command, Room, queue' = Append(queue, d),
           \/ kind = "write" /\ d = Head(events).command
           \/ kind = "disconnect" /\ d = ResetCmd
    PROVE  PairInv' /\ OpenInv'
<1> DEFINE m == [i \in Nat |-> i]
<1>1. /\ Rear' = Rear
      /\ \A i \in 0..Rear' : \A c, p : Holds(i, c, p)' => Holds(i, c, p)
      /\ \A k \in 0..Rear : Cut(k) => Cut(k)'
  BY EventMoved
<1>2. Rear \in Nat
  BY PathNat
<1>3. m \in [Nat -> Nat] /\ \A i, j \in Nat : i < j => m[i] < m[j]
  OBVIOUS
<1>4. ASSUME NEW i \in 0..Rear', NEW c \in Corr, NEW p \in Payload, Holds(i, c, p)'
      PROVE  m[i] \in 0..Rear /\ Holds(m[i], c, p)
  BY <1>1, <1>2, <1>4
<1>5. ASSUME NEW i \in 0..Rear', NEW c \in Corr, NEW p \in Payload, NEW k \in 0..Rear,
             Holds(i, c, p)', k >= m[i], Cut(k)
      PROVE  \E l \in 0..Rear' : l >= i /\ m[l] = k /\ Cut(l)'
  <2>1. k \in 0..Rear' /\ k >= i /\ m[k] = k /\ Cut(k)'
    BY <1>1, <1>2, <1>5
  <2>2. QED
    BY <2>1
<1>6. UNCHANGED <<up, asked>> /\ client'.corr = client.corr
  BY TakesEvent
<1> HIDE DEF m
<1>7. QED
  BY ONLY TypeInv, TypeInv', PairInv, OpenInv, <1>3, <1>4, <1>5, <1>6, ThreadMoves, SMT

(* An event joins: a chunk is of the client's latest request, and follows  *)
(* nothing but chunks of requests the client has made.                     *)
LEMMA ThreadJoins ==
    ASSUME TypeInv, TypeInv', PairInv, OpenInv, NEW e \in Event,
           events' = Append(events, e), UNCHANGED <<queue, xfer>>,
           e.kind = "write" /\ e.command.kind = "store" =>
               up' /\ e.command.frame.corr = client'.corr /\ e.command.frame.payload = asked',
           e.kind # "disconnect" /\ up =>
               up' /\ \A c \in Corr, p \in Payload : Made(c, p) => Made(c, p)'
    PROVE  PairInv' /\ OpenInv'
<1>1. /\ Rear' = Rear + 1
      /\ \A i \in 0..Rear' : \A c, p : Holds(i, c, p)' =>
            \/ i \in 0..Rear /\ Holds(i, c, p)
            \/ /\ i = Rear + 1 /\ e.kind = "write" /\ e.command.kind = "store"
               /\ c = e.command.frame.corr /\ p = e.command.frame.payload
      /\ \A k \in 0..Rear : Cut(k) => Cut(k)'
      /\ e.kind = "disconnect" => Cut(Rear)'
  BY EventJoined
<1>2. Rear \in Nat /\ Rear' \in Nat
  BY PathNat
<1>3. ASSUME NEW i \in 0..Rear, NEW c \in Corr, NEW p \in Payload, Holds(i, c, p),
             \A k \in i..Rear' : ~Cut(k)'
      PROVE  up' /\ Made(c, p)'
  <2>1. \A k \in i..Rear : ~Cut(k)
    BY <1>1, <1>2, <1>3
  <2>2. up /\ Made(c, p)
    BY <1>3, <2>1 DEF OpenInv
  <2>3. e.kind # "disconnect"
    <3>1. Rear' \in i..Rear'
      BY <1>1, <1>2
    <3>2. ~Cut(Rear)'
      BY <1>3, <3>1
    <3>3. QED
      BY <1>1, <3>2
  <2>4. QED
    BY <2>2, <2>3
<1>4. PairInv'
  <2>1. SUFFICES ASSUME NEW i \in 0..Rear', NEW j \in 0..Rear', NEW c \in Corr,
                        NEW p \in Payload, NEW q \in Payload,
                        i < j, Holds(i, c, p)', Holds(j, c, q)', \A k \in i..j : ~Cut(k)'
                 PROVE  p = q
    BY DEF PairInv
  <2>2. i \in 0..Rear /\ Holds(i, c, p)
    BY <1>1, <1>2, <2>1
  <2>3. CASE j \in 0..Rear /\ Holds(j, c, q)
    <3>1. \A k \in i..j : ~Cut(k)
      BY <1>1, <1>2, <2>1, <2>3
    <3>2. QED
      BY <2>1, <2>2, <2>3, <3>1 DEF PairInv
  <2>4. CASE /\ j = Rear + 1 /\ e.kind = "write" /\ e.command.kind = "store"
             /\ c = e.command.frame.corr /\ q = e.command.frame.payload
    <3>1. Made(c, p)'
      BY <1>1, <1>3, <2>1, <2>2, <2>4
    <3>2. QED
      BY <2>4, <3>1 DEF Made
  <2>5. QED
    BY <1>1, <2>1, <2>3, <2>4
<1>5. OpenInv'
  <2>1. SUFFICES ASSUME NEW i \in 0..Rear', NEW c \in Corr, NEW p \in Payload,
                        Holds(i, c, p)', \A k \in i..Rear' : ~Cut(k)'
                 PROVE  up' /\ Made(c, p)'
    BY DEF OpenInv
  <2>2. CASE i \in 0..Rear /\ Holds(i, c, p)
    BY <1>3, <2>1, <2>2
  <2>3. CASE /\ e.kind = "write" /\ e.command.kind = "store"
             /\ c = e.command.frame.corr /\ p = e.command.frame.payload
    <3>1. client'.corr \in Nat
      BY LinkAssumption DEF TypeInv, LinkTypeOK, ClientState
    <3>2. QED
      BY <2>3, <3>1 DEF Made
  <2>4. QED
    BY <1>1, <2>1, <2>2, <2>3
<1>6. QED
  BY <1>4, <1>5

(* What a chunk is appended to: nothing, or the transfer it belongs to.    *)
Before0(f, b) == b = <<>> \/ (Active(xfer) /\ xfer.corr = f.corr /\ b = xfer.buffer)

LEMMA FrameRegs ==
    ASSUME xfer \in Transfer, NEW f \in Frame, NEW t \in Nat, ProcessFrame(f, t)
    PROVE  /\ \/ ~Active(xfer')
              \/ xfer' = xfer
              \/ /\ xfer'.corr = f.corr
                 /\ \E b \in Seq(Payload) : Before0(f, b) /\ xfer'.buffer = Append(b, f.payload)
           /\ outcome'.kind = "dispatch" =>
                 \E b \in Seq(Payload) : Before0(f, b) /\ outcome'.body = Append(b, f.payload)
<1> DEFINE r == Receiving(xfer, f, t)
<1>1. ASSUME Belongs(f, t)
      PROVE  r.buffer \in Seq(Payload) /\ Before0(f, r.buffer) /\ r.corr = f.corr
  <2>1. /\ r \in Transfer /\ r.corr = f.corr
        /\ \/ f.index = 0 /\ r.buffer = <<>>
           \/ f.index > 0 /\ xfer.count > 0 /\ r = xfer
    BY <1>1, ReceivingType
  <2> HIDE DEF r
  <2>2. QED
    BY <2>1 DEF Transfer, Before0, Active
<1>2. CASE RejectMalformed(f)
  BY <1>2 DEF RejectMalformed, Reply
<1>3. CASE RejectNoTransfer(f, t)
  BY <1>3 DEF RejectNoTransfer, Reply
<1>4. CASE RejectOutOfOrder(f, t)
  BY <1>4, ClearedType DEF RejectOutOfOrder, Reply, Active
<1>5. CASE RejectTooLarge(f, t)
  <2>1. Cleared(r).count = 0
    BY <1>5, ReceivingType, ClearedType DEF RejectTooLarge
  <2>2. QED
    BY <1>5, <2>1 DEF RejectTooLarge, Reply, Active
<1>6. CASE KeepChunk(f, t)
  <2>1. Belongs(f, t) /\ xfer' = Appended(r, f, t) /\ outcome' = Kept
    BY <1>6 DEF KeepChunk
  <2>2. xfer'.corr = r.corr /\ xfer'.buffer = Append(r.buffer, f.payload)
    BY <2>1 DEF Appended
  <2>3. outcome'.kind # "dispatch"
    BY <2>1 DEF Kept
  <2> HIDE DEF r
  <2>4. QED
    BY <1>1, <2>1, <2>2, <2>3
<1>7. CASE CompleteRequest(f, t)
  <2>1. Belongs(f, t) /\ xfer' = Cleared(Appended(r, f, t))
    BY <1>7 DEF CompleteRequest
  <2>2. ~Active(xfer')
    BY <2>1 DEF Appended, Cleared, Active
  <2>3. outcome'.body = Append(r.buffer, f.payload)
    BY <1>7 DEF CompleteRequest, Dispatch, Appended
  <2> HIDE DEF r
  <2>4. QED
    BY <1>1, <2>1, <2>2, <2>3
<1>8. QED
  BY <1>2, <1>3, <1>4, <1>5, <1>6, <1>7 DEF ProcessFrame

(* A chunk joins a transfer of its own request only.                       *)
LEMMA ChunkJoinsItsOwn ==
    ASSUME TypeInv, BufferInv, PairInv, Take("store"),
           NEW b \in Seq(Payload), Before0(queue[1].frame, b)
    PROVE  /\ Uniform(Append(b, queue[1].frame.payload))
           /\ Append(b, queue[1].frame.payload) # <<>>
           /\ Append(b, queue[1].frame.payload)[1] = queue[1].frame.payload
<1> DEFINE f == queue[1].frame
           a == Append(b, f.payload)
<1>1. /\ 1 \in 1..Len(queue) /\ queue[1].kind = "store" /\ f \in Frame
      /\ Len(queue) \in Nat /\ queue[1] \in Command
  BY TakesCommand, CommandFields
<1>2. f.corr \in Corr /\ f.payload \in Payload
  BY <1>1, FrameFields
<1> HIDE DEF f
<1>3. /\ Len(a) = Len(b) + 1 /\ a[Len(b) + 1] = f.payload /\ Len(b) \in Nat
      /\ a # <<>> /\ \A i \in 1..Len(b) : a[i] = b[i]
  BY <1>2, AppendOf
<1>4. CASE b = <<>>
  <2>1. \A i \in 1..Len(a) : a[i] = f.payload
    BY <1>3, <1>4
  <2>2. Uniform(a) /\ a[1] = f.payload
    BY <1>3, <1>4, <2>1 DEF Uniform
  <2>3. QED
    BY <1>3, <2>2 DEF f
<1>5. CASE b # <<>>
  <2>1. /\ Active(xfer) /\ xfer.corr = f.corr /\ b = xfer.buffer /\ Uniform(b)
        /\ 1 \in 1..Len(b) /\ b[1] \in Payload
    <3>1. Active(xfer) /\ xfer.corr = f.corr /\ b = xfer.buffer
      BY <1>5 DEF Before0, f
    <3>2. Uniform(b)
      BY <3>1 DEF BufferInv
    <3>3. 1 \in 1..Len(b) /\ b[1] \in Payload
      BY <1>5
    <3>4. QED
      BY <3>1, <3>2, <3>3
  <2>2. Holds(0, f.corr, b[1])
    BY <2>1 DEF Holds
  <2>3. Holds(1, f.corr, f.payload)
    BY <1>1 DEF Holds, Queued, Fq, f
  <2>4. Rear \in Nat /\ Rear >= 1
    BY <1>1, PathTyped, PathNat DEF Rear
  <2>5. \A k \in 0..1 : ~Cut(k)
    <3>1. ~Cut(0)
      BY PathTyped
    <3>2. ~Cut(1)
      BY <1>1, PathTyped DEF Cut
    <3>3. QED
      BY <3>1, <3>2
  <2>6. b[1] = f.payload
    BY <1>2, <2>1, <2>2, <2>3, <2>4, <2>5 DEF PairInv
  <2>7. \A i \in 1..Len(b) : b[i] = f.payload
    BY <2>1, <2>6 DEF Uniform
  <2>8. \A i \in 1..Len(a) : a[i] = f.payload
    BY <1>3, <2>7
  <2>9. Uniform(a) /\ a[1] = f.payload
    BY <1>3, <2>1, <2>8 DEF Uniform
  <2>10. QED
    BY <1>3, <2>9 DEF f
<1>6. QED
  BY <1>4, <1>5

LEMMA MixTakeStore ==
    ASSUME TypeInv, TypeInv', ThreadInv, TakeStore,
           Dispatched => Uniform(outcome.body)
    PROVE  ThreadInv' /\ (Dispatched' => Uniform(outcome'.body))
<1> DEFINE f == queue[1].frame
<1>1. /\ Take("store") /\ f \in Frame /\ now \in Nat /\ xfer \in Transfer
      /\ \/ enable_data_ntf /\ ProcessFrame(f, now)
         \/ ~enable_data_ntf /\ DropUnsubscribed
  BY TakeStoreStep
<1>2. BufferInv /\ PairInv /\ OpenInv
  BY DEF ThreadInv
<1>3. 1 \in 1..Len(queue) /\ queue[1].kind = "store"
  BY <1>1, TakesCommand
<1>4. \A c, p : Holds(0, c, p)' => Active(xfer') /\ c = xfer'.corr /\ p = xfer'.buffer[1]
  <2>1. 0 \notin 1..Len(queue') /\ 0 - Len(queue') \notin 1..Len(events')
    <3>1. queue' \in Seq(Command) /\ events' \in Seq(Event)
      BY DEF TypeInv, LinkTypeOK
    <3>2. Len(queue') \in Nat /\ Len(events') \in Nat
      BY <3>1
    <3>3. QED
      BY <3>2
  <2>2. QED
    BY <2>1 DEF Holds, Queued, Waiting
<1>5. ASSUME ~Active(xfer') \/ xfer' = xfer PROVE ThreadInv'
  <2>1. \A c, p : Holds(0, c, p)' => Holds(0, c, p)
    BY <1>4, <1>5 DEF Holds
  <2>2. PairInv' /\ OpenInv'
    BY <1>1, <1>2, <2>1, ThreadTake
  <2>3. BufferInv'
    BY <1>2, <1>5 DEF BufferInv
  <2>4. QED
    BY <2>2, <2>3 DEF ThreadInv
<1>6. ASSUME xfer'.corr = f.corr,
             \E b \in Seq(Payload) : Before0(f, b) /\ xfer'.buffer = Append(b, f.payload)
      PROVE  ThreadInv'
  <2>1. /\ xfer'.buffer # <<>> /\ Uniform(xfer'.buffer) /\ xfer'.buffer[1] = f.payload
    BY <1>1, <1>2, <1>6, ChunkJoinsItsOwn
  <2>2. \A c, p : Holds(0, c, p)' => Holds(1, c, p)
    BY <1>3, <1>4, <1>6, <2>1 DEF Holds, Queued, Fq
  <2>3. PairInv' /\ OpenInv'
    BY <1>1, <1>2, <2>2, ThreadTake
  <2>4. BufferInv'
    BY <2>1 DEF BufferInv
  <2>5. QED
    BY <2>3, <2>4 DEF ThreadInv
<1>7. DropUnsubscribed => ThreadInv'
  BY <1>5 DEF DropUnsubscribed
<1>8. ProcessFrame(f, now) => ThreadInv'
  BY <1>1, <1>5, <1>6, FrameRegs
<1>9. ThreadInv'
  BY <1>1, <1>7, <1>8
<1>10. ASSUME Dispatched' PROVE Uniform(outcome'.body)
  <2>1. ProcessFrame(f, now) /\ outcome'.kind = "dispatch"
    BY <1>1, <1>10 DEF Dispatched, DropUnsubscribed, Dropped
  <2>2. \E b \in Seq(Payload) : Before0(f, b) /\ outcome'.body = Append(b, f.payload)
    BY <1>1, <2>1, FrameRegs
  <2>3. QED
    BY <1>1, <1>2, <2>2, ChunkJoinsItsOwn
<1>11. QED
  BY <1>9, <1>10

LEMMA ThreadStays ==
    ASSUME ThreadInv, UNCHANGED <<queue, events, xfer, up, client, asked>>
    PROVE  ThreadInv'
<1>1. /\ Rear' = Rear /\ \A i, c, p : Holds(i, c, p)' <=> Holds(i, c, p)
      /\ \A i : Cut(i)' <=> Cut(i)
      /\ \A c, p : Made(c, p)' <=> Made(c, p)
  BY DEF Rear, Holds, Cut, Made, Queued, Waiting, Fq, Fe
<1>2. BufferInv' /\ PairInv' /\ OpenInv'
  BY <1>1 DEF ThreadInv, BufferInv, PairInv, OpenInv
<1>3. QED
  BY <1>2 DEF ThreadInv

LEMMA ThreadClient ==
    ASSUME TypeInv, TypeInv', ThreadInv, Client \/ Bridge
    PROVE  ThreadInv'
<1>1. BufferInv /\ PairInv /\ OpenInv
  BY DEF ThreadInv
<1>2. ASSUME NEW e \in Event, events' = Append(events, e), UNCHANGED <<queue, xfer>>,
             e.kind = "write" /\ e.command.kind = "store" =>
                 up' /\ e.command.frame.corr = client'.corr /\ e.command.frame.payload = asked',
             e.kind # "disconnect" /\ up =>
                 up' /\ \A c \in Corr, p \in Payload : Made(c, p) => Made(c, p)'
      PROVE  ThreadInv'
  <2>1. PairInv' /\ OpenInv'
    BY <1>1, <1>2, ThreadJoins
  <2>2. BufferInv'
    BY <1>1, <1>2 DEF BufferInv
  <2>3. QED
    BY <2>1, <2>2 DEF ThreadInv
<1>3. ASSUME UNCHANGED <<asked>>, client'.corr = client.corr
      PROVE  \A c \in Corr, p \in Payload : Made(c, p) => Made(c, p)'
  BY <1>3 DEF Made
<1>4. client.corr \in Nat /\ \A c \in Corr : c \in Nat
  BY LinkAssumption DEF TypeInv, LinkTypeOK, ClientState
<1>5. CASE Connect
  BY <1>2, <1>5, EventFields DEF Connect, ctlVars, regs
<1>6. CASE Drop
  BY <1>2, <1>6, EventFields DEF Drop, ctlVars, regs
<1>7. CASE Settles
  <2>1. /\ client'.corr = client.corr /\ UNCHANGED <<up, asked, queue, xfer>>
        /\ events' = Append(events, Confirm)
    BY <1>7, SettlesLeaves DEF ctlVars, regs
  <2>2. QED
    BY <1>2, <1>3, <2>1, EventFields
<1>8. ASSUME NEW e \in Event, ClientWrites(e), client'.corr = client.corr, UNCHANGED asked,
             e.kind # "disconnect",
             e.kind = "write" /\ e.command.kind = "store" =>
                 e.command.frame.corr = client.corr /\ e.command.frame.payload = asked
      PROVE  ThreadInv'
  <2>1. up /\ UNCHANGED <<up, queue, xfer>> /\ events' = Append(events, e)
    BY <1>8 DEF ClientWrites, ctlVars, regs
  <2>2. \A c \in Corr, p \in Payload : Made(c, p) => Made(c, p)'
    BY <1>3, <1>8
  <2>3. QED
    BY <1>2, <1>8, <2>1, <2>2
<1>9. ASSUME NEW on \in BOOLEAN, Subscribe(on) PROVE ThreadInv'
  <2>1. ClientWrites(Cccd(on)) /\ UNCHANGED asked /\ client'.corr = client.corr
    BY <1>9 DEF Subscribe, TypeInv, LinkTypeOK, ClientState
  <2>2. QED
    BY <1>8, <2>1, EventFields
<1>10. CASE ExchangeMtu
  <2>1. ClientWrites(Exchanged) /\ UNCHANGED asked /\ client'.corr = client.corr
    BY <1>10 DEF ExchangeMtu, TypeInv, LinkTypeOK, ClientState
  <2>2. QED
    BY <1>8, <2>1, EventFields
<1>11. CASE AskOther
  <2>1. ClientWrites(Write(OtherCmd)) /\ UNCHANGED asked /\ client'.corr = client.corr
    BY <1>11 DEF AskOther
  <2>2. QED
    BY <1>8, <2>1, CommandFields, WriteFields
<1>12. CASE SendChunk
  <2>1. ClientWrites(Write(StoreCmd(NextFrame))) /\ UNCHANGED asked /\ client'.corr = client.corr
    BY <1>12 DEF SendChunk, NextFrame, TypeInv, LinkTypeOK, ClientState
  <2>2. NextFrame \in Frame /\ NextFrame.corr = client.corr /\ NextFrame.payload = asked
    BY <1>12, NextType
  <2>3. QED
    BY <1>8, <2>1, <2>2, StoreCmdFields, WriteFields
<1>13. ASSUME NEW op \in Asks, Ask(op) PROVE ThreadInv'
  <2>1. /\ ClientWrites(Write(StoreCmd(AskedFrame(op)))) /\ asked' = asked + 1
        /\ client'.corr = client.corr + 1
    BY <1>13 DEF Ask, AskedFrame, TypeInv, LinkTypeOK, ClientState
  <2>2. /\ AskedFrame(op) \in Frame /\ AskedFrame(op).corr = client.corr + 1
        /\ AskedFrame(op).payload = asked + 1
    BY <1>13, AskedType
  <2> DEFINE e == Write(StoreCmd(AskedFrame(op)))
  <2>3. /\ e \in Event /\ e.kind = "write" /\ e.command.kind = "store"
        /\ e.command.frame = AskedFrame(op)
    BY <2>2, StoreCmdFields, WriteFields
  <2>4. up /\ UNCHANGED <<up, queue, xfer>> /\ events' = Append(events, e)
    BY <2>1 DEF ClientWrites, ctlVars, regs
  <2>5. \A c \in Corr, p \in Payload : Made(c, p) => Made(c, p)'
    BY <1>4, <2>1 DEF Made
  <2> HIDE DEF e
  <2>6. QED
    BY <1>2, <2>1, <2>2, <2>3, <2>4, <2>5
<1>14. CASE Bridge
  <2>1. client'.corr = client.corr /\ UNCHANGED <<up, asked, queue, xfer, client>>
    BY <1>14, BridgeLeaves
  <2>2. CASE UNCHANGED events
    BY <2>1, <2>2, ThreadStays
  <2>3. CASE events' = Append(events, Confirm)
    BY <1>2, <1>3, <2>1, <2>3, EventFields
  <2>4. QED
    BY <1>14, <2>2, <2>3, BridgeLeaves
<1>15. QED
  BY <1>5, <1>6, <1>7, <1>9, <1>10, <1>11, <1>12, <1>13, <1>14 DEF Client, Settles

LEMMA ThreadCallback ==
    ASSUME TypeInv, TypeInv', ThreadInv, Callback, "reset" \notin lost'
    PROVE  ThreadInv'
<1>1. BufferInv /\ PairInv /\ OpenInv
  BY DEF ThreadInv
<1>2. BufferInv'
  <2>1. UNCHANGED xfer
    BY DEF Callback, ConnectEvt, MtuEvt, CccdEvt, ConfEvt, WriteEvt, WriteTimeout,
           DisconnectEvt, Next1, regs
  <2>2. QED
    BY <1>1, <2>1 DEF BufferInv
<1>3. ASSUME NEW kind, Next1(kind), UNCHANGED queue, kind # "disconnect" PROVE ThreadInv'
  <2>1. PairInv' /\ OpenInv'
    BY <1>1, <1>3, ThreadEvent
  <2>2. QED
    BY <1>2, <2>1 DEF ThreadInv
<1>4. ASSUME NEW kind, Next1(kind), NEW d \in Command, Room, queue' = Append(queue, d),
             \/ kind = "write" /\ d = Head(events).command
             \/ kind = "disconnect" /\ d = ResetCmd
      PROVE  ThreadInv'
  <2>1. PairInv' /\ OpenInv'
    BY <1>1, <1>4, ThreadWrite
  <2>2. QED
    BY <1>2, <2>1 DEF ThreadInv
<1>5. CASE ConnectEvt \/ MtuEvt \/ CccdEvt \/ ConfEvt \/ WriteTimeout
  BY <1>3, <1>5 DEF ConnectEvt, MtuEvt, CccdEvt, ConfEvt, WriteTimeout
<1>6. CASE WriteEvt
  <2>1. Next1("write") /\ Room /\ queue' = Append(queue, Head(events).command)
    BY <1>6 DEF WriteEvt
  <2>2. Head(events).command \in Command
    BY <2>1, TakesEvent, EventFields, CommandFields
  <2>3. QED
    BY <1>4, <2>1, <2>2
<1>7. CASE DisconnectEvt
  <2>1. Next1("disconnect") /\ Room /\ queue' = Append(queue, ResetCmd)
    BY <1>7 DEF DisconnectEvt, QueueReset
  <2>2. QED
    BY <1>4, <2>1, CommandFields
<1>8. QED
  BY <1>5, <1>6, <1>7 DEF Callback

LEMMA ThreadTakes ==
    ASSUME TypeInv, TypeInv', ThreadInv, TakeReset \/ TakeOther
    PROVE  ThreadInv'
<1>1. BufferInv /\ PairInv /\ OpenInv
  BY DEF ThreadInv
<1>2. 0 \notin 1..Len(queue') /\ 0 - Len(queue') \notin 1..Len(events')
  <2>1. queue' \in Seq(Command) /\ events' \in Seq(Event)
    BY DEF TypeInv, LinkTypeOK
  <2>2. Len(queue') \in Nat /\ Len(events') \in Nat
    BY <2>1
  <2>3. QED
    BY <2>2
<1>3. \A c, p : Holds(0, c, p)' => Active(xfer') /\ c = xfer'.corr /\ p = xfer'.buffer[1]
  BY <1>2 DEF Holds, Queued, Waiting
<1>4. CASE TakeReset
  <2>1. Take("reset") /\ ~Active(xfer')
    <3>1. Take("reset") /\ xfer' = Cleared(xfer) /\ xfer \in Transfer
      BY <1>4 DEF TakeReset, StoreReset, TypeInv, LinkTypeOK, TypeOK
    <3>2. QED
      BY <3>1, ClearedType DEF Active
  <2>2. PairInv' /\ OpenInv'
    BY <1>1, <1>3, <2>1, ThreadTake
  <2>3. BufferInv'
    BY <2>1 DEF BufferInv
  <2>4. QED
    BY <2>2, <2>3 DEF ThreadInv
<1>5. CASE TakeOther
  <2>1. Take("other") /\ UNCHANGED xfer
    BY <1>5 DEF TakeOther, regs
  <2>2. \A c, p : Holds(0, c, p)' => Holds(0, c, p)
    BY <1>3, <2>1 DEF Holds
  <2>3. PairInv' /\ OpenInv'
    BY <1>1, <2>1, <2>2, ThreadTake
  <2>4. BufferInv'
    BY <1>1, <2>1 DEF BufferInv
  <2>5. QED
    BY <2>3, <2>4 DEF ThreadInv
<1>6. QED
  BY <1>4, <1>5

LEMMA MixStep ==
    ASSUME TypeInv, TypeInv', MixInv, [Next]_vars
    PROVE  MixInv'
<1> SUFFICES ASSUME "reset" \notin lost'
             PROVE  /\ ThreadInv'
                    /\ Dispatched' => Uniform(outcome'.body)
                    /\ \A i \in 1..Len(stored') : Uniform(stored'[i])
  BY DEF MixInv
<1>1. "reset" \notin lost
  <2>1. CASE Client \/ Tick \/ Bridge \/ UNCHANGED vars
    BY <2>1, WritesKind, SettlesLeaves, BridgeLeaves
       DEF Connect, Drop, ClientWrites, Tick, vars, histVars
  <2>2. CASE Callback
    BY <2>2 DEF Callback, ConnectEvt, MtuEvt, CccdEvt, ConfEvt, WriteEvt, WriteTimeout,
                DisconnectEvt, QueueReset
  <2>3. CASE Controller
    BY <2>3, ControllerLeaves
  <2>4. QED
    BY <2>1, <2>2, <2>3 DEF Next
<1>2. /\ ThreadInv /\ (Dispatched => Uniform(outcome.body))
      /\ \A i \in 1..Len(stored) : Uniform(stored[i])
  BY <1>1 DEF MixInv
<1>3. ASSUME ThreadInv', UNCHANGED <<outcome, stored>>
      PROVE  /\ ThreadInv'
             /\ Dispatched' => Uniform(outcome'.body)
             /\ \A i \in 1..Len(stored') : Uniform(stored'[i])
  BY <1>2, <1>3 DEF Dispatched
<1>4. CASE Client \/ Bridge
  <2>1. UNCHANGED <<outcome, stored>>
    BY <1>4, WritesKind, SettlesLeaves, BridgeLeaves DEF Connect, Drop, ClientWrites, histVars, regs
  <2>2. QED
    BY <1>2, <1>3, <1>4, <2>1, ThreadClient
<1>5. CASE Callback
  <2>1. UNCHANGED <<outcome, stored>>
    BY <1>5 DEF Callback, ConnectEvt, MtuEvt, CccdEvt, ConfEvt, WriteEvt, WriteTimeout,
                DisconnectEvt, Next1, regs
  <2>2. QED
    BY <1>2, <1>3, <1>5, <2>1, ThreadCallback
<1>6. CASE Tick \/ UNCHANGED vars
  BY <1>2, <1>3, <1>6, ThreadStays DEF Tick, vars, linkVars, ctlVars, histVars, regs
<1>7. CASE TakeReset \/ TakeOther
  <2>1. UNCHANGED <<outcome, stored>>
    BY <1>7, TakesCommand DEF TakeReset, TakeOther, StoreReset, regs
  <2>2. QED
    BY <1>2, <1>3, <1>7, <2>1, ThreadTakes
<1>8. CASE TakeStore
  <2>1. UNCHANGED stored
    BY <1>8, TakeStoreStep, TakesCommand
  <2>2. QED
    BY <1>2, <1>8, <2>1, MixTakeStore
<1>9. CASE Handle
  <2>1. /\ UNCHANGED <<queue, events, xfer, up, client, asked, outcome>> /\ pc = "handle"
        /\ stored' = stored \/ stored' = Append(stored, outcome.body)
    BY <1>9 DEF Handle, Quiet, linkVars, regs
  <2>2. ThreadInv'
    BY <1>2, <2>1, ThreadStays
  <2>3. Dispatched /\ outcome.body \in Seq(Payload) /\ stored \in Seq(Seq(Payload))
    <3>1. Dispatched
      BY <2>1 DEF TypeInv, PcInv, Dispatched
    <3>2. outcome \in Outcome /\ stored \in Seq(Seq(Payload))
      BY DEF TypeInv, LinkTypeOK, TypeOK
    <3>3. outcome.body \in Seq(Payload)
      BY <3>1, <3>2 DEF Outcome, Dropped, Kept, Dispatched
    <3>4. QED
      BY <3>1, <3>2, <3>3
  <2>4. \A i \in 1..Len(stored') : Uniform(stored'[i])
    <3>1. CASE stored' = stored
      BY <1>2, <3>1
    <3>2. CASE stored' = Append(stored, outcome.body)
      <4>1. /\ Len(stored') = Len(stored) + 1 /\ stored'[Len(stored) + 1] = outcome.body
            /\ \A i \in 1..Len(stored) : stored'[i] = stored[i]
            /\ Len(stored) \in Nat
        BY <2>3, <3>2, AppendOf
      <4>2. \A i \in 1..Len(stored') : i \in 1..Len(stored) \/ i = Len(stored) + 1
        BY <4>1
      <4>3. QED
        BY <1>2, <2>3, <4>1, <4>2
    <3>3. QED
      BY <2>1, <3>1, <3>2
  <2>5. Dispatched' => Uniform(outcome'.body)
    BY <1>2, <2>1 DEF Dispatched
  <2>6. QED
    BY <2>2, <2>4, <2>5
<1>10. CASE Indicate \/ Finish
  <2>1. UNCHANGED <<queue, xfer, outcome, stored>>
    BY <1>10 DEF Indicate, CheckFails, Drain, Send, Confirmed, ConfirmTimeout, Finish, histVars, regs
  <2>2. UNCHANGED <<events, up, client, asked>>
    BY <1>10, ControllerLeaves DEF Controller
  <2>3. QED
    BY <1>2, <1>3, <2>1, <2>2, ThreadStays
<1>11. QED
  BY <1>4, <1>5, <1>6, <1>7, <1>8, <1>9, <1>10 DEF Next, Controller

LEMMA MixInit == LinkInit => MixInv
<1> SUFFICES ASSUME LinkInit PROVE MixInv
  OBVIOUS
<1>1. /\ events = <<>> /\ queue = <<>> /\ stored = <<>> /\ ~Active(xfer) /\ ~Dispatched
      /\ Len(events) = 0 /\ Len(queue) = 0 /\ Len(stored) = 0
  BY DEF LinkInit, Init, Dropped, Active, Dispatched
<1>2. \A i \in Int : \A c, p : ~Holds(i, c, p)
  BY <1>1 DEF Holds, Queued, Waiting
<1>3. Rear = 0
  BY <1>1 DEF Rear
<1>4. BufferInv
  BY <1>1 DEF BufferInv
<1>5. PairInv /\ OpenInv
  BY <1>2, <1>3 DEF PairInv, OpenInv
<1>6. QED
  BY <1>1, <1>4, <1>5 DEF MixInv, ThreadInv

LEMMA UnmixedUnlessLost == MixInv => MixedOnlyIfResetLost
BY DEF MixInv, MixedOnlyIfResetLost, Mixed, Uniform

----------------------------------------------------------------------------
(* The first client's requests and the answers to them.                    *)

(* The frames in the queue and among the events.                           *)
Travels(f) == \/ \E i \in 1..Len(queue)  : Queued(i) /\ Fq(i) = f
              \/ \E i \in 1..Len(events) : Waiting(i) /\ Fe(i) = f

(* What the first client's frames, and the answers to them, say: its       *)
(* correlation ids are the numbers of its requests.                        *)
FirstFrame(f) == f.corr = f.payload /\ (f.payload = asked => f.opcode = client.opcode)

AtWork == pc \in {"handle", "check", "send", "wait"}

FirstInv ==
    conn <= 1 =>
        /\ client.corr = asked /\ (conn = 0 => asked = 0)
        /\ \A f \in Frame : Travels(f) => FirstFrame(f)
        /\ AtWork => outcome.corr \in 1..asked
        /\ Dispatched => /\ outcome.corr = Completes(outcome.body)
                         /\ outcome.corr = asked => outcome.opcode = client.opcode
        /\ \A i \in 1..Len(air) : air[i].corr \in 1..asked

(* How a step changes what the client is asking for ...                    *)
LEMMA ClientMoves ==
    ASSUME TypeInv, [Next]_vars
    PROVE  \/ /\ client'.corr = client.corr /\ client'.opcode = client.opcode
              /\ UNCHANGED <<asked, conn>>
           \/ Connect /\ client' = NoClient /\ UNCHANGED asked /\ conn' = conn + 1
           \/ \E op \in Asks : /\ Ask(op) /\ client'.corr = client.corr + 1 /\ client'.opcode = op
                               /\ asked' = asked + 1 /\ UNCHANGED conn /\ conn > 0
<1>1. client \in ClientState
  BY DEF TypeInv, LinkTypeOK
<1>2. CASE Connect
  BY <1>2 DEF Connect
<1>3. ASSUME NEW op \in Asks, Ask(op)
      PROVE  /\ client'.corr = client.corr + 1 /\ client'.opcode = op
             /\ asked' = asked + 1 /\ UNCHANGED conn /\ conn > 0
  <2>1. conn > 0 /\ UNCHANGED conn
    BY <1>3, AskedType, StoreCmdFields, WriteFields, WritesEvent DEF Ask, AskedFrame
  <2>2. QED
    BY <1>1, <1>3, <2>1 DEF Ask, ClientState
<1>4. CASE Drop \/ Settles \/ Bridge \/ AskOther \/ Tick
  BY <1>1, <1>4, SettlesLeaves, BridgeLeaves DEF Drop, AskOther, ClientWrites, Tick, ClientState
<1>5. CASE ExchangeMtu \/ SendChunk \/ \E on \in BOOLEAN : Subscribe(on)
  BY <1>1, <1>5 DEF ExchangeMtu, SendChunk, Subscribe, ClientWrites, ClientState
<1>6. CASE Callback
  BY <1>6 DEF Callback, ConnectEvt, MtuEvt, CccdEvt, ConfEvt, WriteEvt, WriteTimeout,
              DisconnectEvt, Next1
<1>7. CASE Controller
  BY <1>7, ControllerLeaves
<1>8. CASE UNCHANGED vars
  BY <1>8 DEF vars, linkVars
<1>9. QED
  BY <1>2, <1>3, <1>4, <1>5, <1>6, <1>7, <1>8 DEF Next, Client, Settles

(* ... what is in the air: the k-th frame leaves it ...                    *)
Loses(k) ==
    /\ k \in 1..Len(air) /\ Len(air') = Len(air) - 1
    /\ \A i \in 1..Len(air') : /\ i < k => i \in 1..Len(air) /\ air'[i] = air[i]
                               /\ i >= k => i + 1 \in 1..Len(air) /\ air'[i] = air[i + 1]

LEMMA AirMoves ==
    ASSUME TypeInv, [Next]_vars
    PROVE  \/ UNCHANGED air
           \/ Drop /\ air' = <<>> /\ ~up'
           \/ \E k \in 1..Len(air) : Loses(k) /\ ((Receive /\ k = 1) \/ Fails(k))
           \/ Send /\ up /\ air' = Append(air, Sending)
<1>1. air \in Seq(Indication(conn)) /\ Len(air) \in Nat
  BY DEF TypeInv, LinkTypeOK
<1>2. CASE Connect \/ Drop \/ Bridge \/ Tick \/ UNCHANGED vars
  BY <1>2, BridgeLeaves DEF Connect, Drop, Tick, vars, linkVars
<1>3. CASE Receive
  <2>1. air # <<>> /\ air' = Tail(air)
    BY <1>3 DEF Receive
  <2>2. Len(air') = Len(air) - 1 /\ 1 \in 1..Len(air)
    BY <1>1, <2>1, TailOf
  <2>3. \A i \in 1..Len(air') : ~(i < 1) /\ i + 1 \in 1..Len(air) /\ air'[i] = air[i + 1]
    BY <1>1, <2>1, TailOf
  <2>4. QED
    BY <1>3, <2>2, <2>3 DEF Loses
<1>4. ASSUME NEW k \in 1..Len(air), Fails(k) PROVE Loses(k)
  <2>1. air' = RemoveAt(air, k)
    BY <1>4 DEF Fails
  <2>2. /\ Len(air') = Len(air) - 1
        /\ \A i \in 1..Len(air') : /\ i < k => air'[i] = air[i]
                                   /\ i >= k => i + 1 \in 1..Len(air) /\ air'[i] = air[i + 1]
    BY <1>1, <2>1, RemoveAtOf
  <2>3. \A i \in 1..Len(air') : i \in 1..Len(air)
    BY <1>1, <2>2
  <2>4. QED
    BY <2>2, <2>3 DEF Loses
<1>5. ASSUME NEW e, ClientWrites(e) PROVE UNCHANGED air
  BY <1>5 DEF ClientWrites
<1>6. CASE Client
  BY <1>2, <1>3, <1>4, <1>5, <1>6, WritesKind DEF Settles
<1>7. CASE Callback
  BY <1>7 DEF Callback, ConnectEvt, MtuEvt, CccdEvt, ConfEvt, WriteEvt, WriteTimeout,
              DisconnectEvt, Next1
<1>8. CASE Controller
  BY <1>8, ControllerLeaves
<1>9. QED
  BY <1>2, <1>6, <1>7, <1>8 DEF Next

(* ... where nothing appears but what was there before or is sent ...      *)
LEMMA AirKeeps ==
    ASSUME TypeInv, [Next]_vars, NEW i \in 1..Len(air')
    PROVE  \/ \E j \in 1..Len(air) : air'[i] = air[j]
           \/ Send /\ up /\ air' = Append(air, Sending) /\ air'[i] = Sending
<1>1. CASE UNCHANGED air
  BY <1>1
<1>2. CASE air' = <<>>
  BY <1>2
<1>3. ASSUME NEW k \in 1..Len(air), Loses(k) PROVE \E j \in 1..Len(air) : air'[i] = air[j]
  <2>1. i < k \/ i >= k
    <3>1. Len(air) \in Nat
      BY DEF TypeInv, LinkTypeOK
    <3>2. QED
      BY <1>3, <3>1 DEF Loses
  <2>2. QED
    BY <1>3, <2>1 DEF Loses
<1>4. CASE Send /\ up /\ air' = Append(air, Sending)
  <2>1. air \in Seq(Indication(conn)) /\ Sending \in Indication(conn)
    BY <1>4, SentType DEF Send, TypeInv, PcInv, LinkTypeOK
  <2>2. /\ Len(air') = Len(air) + 1 /\ air'[Len(air) + 1] = Sending
        /\ \A j \in 1..Len(air) : air'[j] = air[j]
        /\ Len(air) \in Nat
    BY <1>4, <2>1, AppendOf
  <2>3. i \in 1..Len(air) \/ i = Len(air) + 1
    BY <2>2
  <2>4. QED
    BY <1>4, <2>2, <2>3
<1>5. QED
  BY <1>1, <1>2, <1>3, <1>4, AirMoves

(* ... and that only the controller does its work.                         *)
LEMMA WorkElsewhere ==
    ASSUME TypeInv, Client \/ Tick \/ Bridge \/ Callback \/ UNCHANGED vars
    PROVE  UNCHANGED <<pc, answer, stored, outcome>>
<1>1. CASE Client
  BY <1>1, WritesKind, SettlesLeaves DEF Connect, Drop, ClientWrites, ctlVars, histVars, regs
<1>2. CASE Callback
  BY <1>2 DEF Callback, ConnectEvt, MtuEvt, CccdEvt, ConfEvt, WriteEvt, WriteTimeout,
              DisconnectEvt, Next1, regs
<1>3. CASE Tick \/ UNCHANGED vars
  BY <1>3 DEF Tick, vars, ctlVars, histVars, regs
<1>4. CASE Bridge
  BY <1>4, BridgeLeaves
<1>5. QED
  BY <1>1, <1>2, <1>3, <1>4

LEMMA TravelsStep ==
    ASSUME TypeInv, [Next]_vars, NEW f, Travels(f)'
    PROVE  \/ Travels(f)
           \/ \E op \in Asks : Ask(op) /\ f = AskedFrame(op)
           \/ SendChunk /\ f = NextFrame
<1>1. Len(queue) \in Nat /\ Len(events) \in Nat
  BY FramesTyped
<1>2. ASSUME NEW e \in Event, events' = Append(events, e), UNCHANGED queue
      PROVE  Travels(f) \/ (e.kind = "write" /\ e.command.kind = "store" /\ f = e.command.frame)
  <2>1. /\ Len(events') = Len(events) + 1 /\ events'[Len(events) + 1] = e
        /\ \A i \in 1..Len(events) : events'[i] = events[i]
    BY <1>2, AppendsEvent
  <2>2. \A i \in 1..Len(events') : i = Len(events) + 1 \/ i \in 1..Len(events)
    BY <1>1, <2>1
  <2>3. QED
    BY <1>2, <2>1, <2>2 DEF Travels, Queued, Waiting, Fq, Fe
<1>3. ASSUME NEW kind, Next1(kind),
             \/ UNCHANGED queue
             \/ Room /\ queue' = Append(queue, ResetCmd)
             \/ Room /\ kind = "write" /\ queue' = Append(queue, Head(events).command)
      PROVE  Travels(f)
  <2>1. /\ 1 \in 1..Len(events) /\ Head(events) = events[1] /\ events[1].kind = kind
        /\ \A i \in 1..Len(events') : i + 1 \in 1..Len(events) /\ events'[i] = events[i + 1]
        /\ kind = "write" => events[1].command \in Command
    BY <1>3, TakesEvent, EventFields, CommandFields
  <2>2. ASSUME NEW i \in 1..Len(events'), Waiting(i)', Fe(i)' = f PROVE Travels(f)
    <3>1. i + 1 \in 1..Len(events) /\ Waiting(i + 1) /\ Fe(i + 1) = f
      BY <2>1, <2>2 DEF Waiting, Fe
    <3>2. QED
      BY <3>1 DEF Travels
  <2>3. ASSUME NEW c \in Command, Room, queue' = Append(queue, c),
               NEW i \in 1..Len(queue'), Queued(i)', Fq(i)' = f
        PROVE  Travels(f) \/ (c.kind = "store" /\ c.frame = f)
    <3>1. /\ Len(queue') = Len(queue) + 1 /\ queue'[Len(queue) + 1] = c
          /\ \A j \in 1..Len(queue) : queue'[j] = queue[j]
      BY <2>3, QueueRoom
    <3>2. i = Len(queue) + 1 \/ i \in 1..Len(queue)
      BY <1>1, <3>1
    <3>3. QED
      BY <2>3, <3>1, <3>2 DEF Travels, Queued, Fq
  <2>4. CASE UNCHANGED queue
    BY <2>2, <2>4 DEF Travels, Queued, Fq
  <2>5. CASE Room /\ queue' = Append(queue, ResetCmd)
    <3>1. ResetCmd \in Command /\ ResetCmd.kind # "store"
      BY CommandFields
    <3>2. ASSUME NEW i \in 1..Len(queue'), Queued(i)', Fq(i)' = f PROVE Travels(f)
      BY <2>3, <2>5, <3>1, <3>2
    <3>3. QED
      BY <2>2, <3>2 DEF Travels
  <2>6. CASE Room /\ kind = "write" /\ queue' = Append(queue, Head(events).command)
    <3>1. events[1].command \in Command /\ queue' = Append(queue, events[1].command)
      BY <2>1, <2>6
    <3>2. events[1].command.kind = "store" /\ events[1].command.frame = f => Travels(f)
      BY <2>1, <2>6 DEF Travels, Waiting, Fe
    <3>3. ASSUME NEW i \in 1..Len(queue'), Queued(i)', Fq(i)' = f PROVE Travels(f)
      BY <2>3, <2>6, <3>1, <3>2, <3>3
    <3>4. QED
      BY <2>2, <3>3 DEF Travels
  <2>7. QED
    BY <1>3, <2>4, <2>5, <2>6
<1>4. CASE Client
  <2>1. CASE Connect \/ Drop \/ Settles
    BY <1>2, <2>1, EventFields, SettlesLeaves DEF Connect, Drop, ctlVars
  <2>2. ASSUME NEW e \in Event, ClientWrites(e)
        PROVE  Travels(f) \/ (e.kind = "write" /\ e.command.kind = "store" /\ f = e.command.frame)
    BY <1>2, <2>2 DEF ClientWrites, ctlVars
  <2>3. CASE ExchangeMtu \/ AskOther \/ \E on \in BOOLEAN : Subscribe(on)
    <3>1. CASE ExchangeMtu
      <4>1. ClientWrites(Exchanged)
        BY <3>1 DEF ExchangeMtu
      <4>2. QED
        BY <2>2, <4>1, EventFields
    <3>2. CASE AskOther
      <4>1. ClientWrites(Write(OtherCmd))
        BY <3>2 DEF AskOther
      <4>2. QED
        BY <2>2, <4>1, CommandFields, WriteFields
    <3>3. CASE \E on \in BOOLEAN : Subscribe(on)
      <4>1. \E on \in BOOLEAN : ClientWrites(Cccd(on))
        BY <3>3 DEF Subscribe
      <4>2. QED
        BY <2>2, <4>1, EventFields
    <3>4. QED
      BY <2>3, <3>1, <3>2, <3>3
  <2>4. ASSUME NEW op \in Asks, Ask(op) PROVE Travels(f) \/ f = AskedFrame(op)
    <3>1. ClientWrites(Write(StoreCmd(AskedFrame(op)))) /\ AskedFrame(op) \in Frame
      BY <2>4, AskedType DEF Ask, AskedFrame
    <3>2. QED
      BY <2>2, <3>1, StoreCmdFields, WriteFields
  <2>5. CASE SendChunk
    BY <2>2, <2>5, NextType, StoreCmdFields, WriteFields DEF SendChunk, NextFrame
  <2>6. QED
    BY <1>4, <2>1, <2>3, <2>4, <2>5 DEF Client, Settles
<1>5. CASE Callback
  <2>1. CASE ConnectEvt \/ MtuEvt \/ CccdEvt \/ ConfEvt \/ WriteTimeout
    BY <1>3, <2>1 DEF ConnectEvt, MtuEvt, CccdEvt, ConfEvt, WriteTimeout
  <2>2. CASE DisconnectEvt
    BY <1>3, <2>2 DEF DisconnectEvt, QueueReset
  <2>3. CASE WriteEvt
    BY <1>3, <2>3 DEF WriteEvt
  <2>4. QED
    BY <1>5, <2>1, <2>2, <2>3 DEF Callback
<1>6. CASE UNCHANGED <<queue, events>>
  BY <1>6 DEF Travels, Queued, Waiting, Fq, Fe
<1>7. CASE Tick \/ UNCHANGED vars
  BY <1>6, <1>7 DEF Tick, vars, linkVars, ctlVars
<1>8. CASE TakeReset \/ TakeOther \/ TakeStore
  <2>1. \E kind : Take(kind)
    BY <1>8, TakeStoreStep DEF TakeReset, TakeOther
  <2>2. /\ \A i \in 1..Len(queue') : i + 1 \in 1..Len(queue) /\ queue'[i] = queue[i + 1]
        /\ UNCHANGED events
    BY <2>1, TakesCommand
  <2>3. QED
    BY <2>2 DEF Travels, Queued, Waiting, Fq, Fe
<1>9. CASE Handle \/ Indicate \/ Finish
  <2>1. UNCHANGED queue
    BY <1>9 DEF Handle, Indicate, CheckFails, Drain, Send, Confirmed, ConfirmTimeout, Finish
  <2>2. UNCHANGED events
    BY <1>9, ControllerLeaves DEF Controller
  <2>3. QED
    BY <1>6, <2>1, <2>2
<1>10. CASE Bridge
  BY <1>2, <1>6, <1>10, BridgeLeaves, EventFields
<1>11. QED
  BY <1>4, <1>5, <1>7, <1>8, <1>9, <1>10 DEF Next, Controller

LEMMA FirstStep ==
    ASSUME TypeInv, TypeInv', LinkInv, FrameInv, DoneInv, FirstInv, [Next]_vars
    PROVE  FirstInv'
<1>1. conn \in Nat /\ conn' \in Nat /\ asked \in Nat /\ client.corr \in Nat
  <2>1. conn \in 0..MaxConn /\ asked \in 0..MaxAsk /\ client.corr \in Corr
    BY DEF TypeInv, LinkTypeOK, ClientState
  <2>2. conn' \in 0..MaxConn
    BY DEF TypeInv, LinkTypeOK
  <2>3. client.corr \in Nat
    BY <2>1, LinkAssumption
  <2>4. QED
    BY <2>1, <2>2, <2>3, Bounds
<1>2. SUFFICES ASSUME conn' <= 1
               PROVE  /\ client'.corr = asked' /\ (conn' = 0 => asked' = 0)
                      /\ \A f \in Frame : Travels(f)' => FirstFrame(f)'
                      /\ AtWork' => outcome'.corr \in 1..asked'
                      /\ Dispatched' =>
                            /\ outcome'.corr = Completes(outcome'.body)
                            /\ outcome'.corr = asked' => outcome'.opcode = client'.opcode
                      /\ \A i \in 1..Len(air') : air'[i].corr \in 1..asked'
  BY DEF FirstInv, Completes
<1>3. conn' >= conn
  BY <1>1, ClientMoves
<1>4. /\ client.corr = asked /\ (conn = 0 => asked = 0)
      /\ \A f \in Frame : Travels(f) => FirstFrame(f)
      /\ AtWork => outcome.corr \in 1..asked
      /\ Dispatched => /\ outcome.corr = Completes(outcome.body)
                       /\ outcome.corr = asked => outcome.opcode = client.opcode
      /\ \A i \in 1..Len(air) : air[i].corr \in 1..asked
  BY <1>1, <1>2, <1>3 DEF FirstInv
<1>5. conn = 0 => ~up /\ events = <<>> /\ queue = <<>> /\ pc = "idle"
  BY DEF TypeInv, PcInv
<1>6. client'.corr = asked' /\ (conn' = 0 => asked' = 0) /\ asked' \in Nat /\ asked' >= asked
  <2>1. CASE client'.corr = client.corr /\ UNCHANGED <<asked, conn>>
    BY <1>1, <1>4, <2>1
  <2>2. CASE Connect /\ client' = NoClient /\ UNCHANGED asked /\ conn' = conn + 1
    <3>1. conn = 0
      BY <1>1, <1>2, <2>2
    <3>2. QED
      BY <1>1, <1>4, <2>2, <3>1 DEF NoClient
  <2>3. CASE client'.corr = client.corr + 1 /\ asked' = asked + 1 /\ UNCHANGED conn /\ conn > 0
    BY <1>1, <1>4, <2>3
  <2>4. QED
    BY <2>1, <2>2, <2>3, ClientMoves
<1>7. \A f \in Frame : Travels(f) => f.payload \in 1..asked
  BY DEF Travels, FrameInv, Sent
<1>8. \A n \in 1..asked : n \in 1..asked'
  BY <1>1, <1>6
<1>9. ASSUME NEW f \in Frame, Travels(f)' PROVE FirstFrame(f)'
  <2>1. CASE Travels(f)
    <3>1. f.corr = f.payload /\ (f.payload = asked => f.opcode = client.opcode)
      BY <1>4, <2>1 DEF FirstFrame
    <3>2. CASE client'.opcode = client.opcode /\ UNCHANGED asked
      BY <3>1, <3>2 DEF FirstFrame
    <3>3. CASE Connect /\ conn' = conn + 1
      <4>1. conn = 0
        BY <1>1, <1>2, <3>3
      <4>2. QED
        BY <1>5, <2>1, <4>1 DEF Travels
    <3>4. CASE asked' = asked + 1
      <4>1. f.payload # asked'
        BY <1>1, <1>7, <2>1, <3>4
      <4>2. QED
        BY <3>1, <4>1 DEF FirstFrame
    <3>5. QED
      BY <3>2, <3>3, <3>4, ClientMoves
  <2>2. ASSUME NEW op \in Asks, Ask(op), f = AskedFrame(op) PROVE FirstFrame(f)'
    <3>1. f.corr = client.corr + 1 /\ f.opcode = op /\ f.payload = asked + 1
      BY <2>2, AskedType
    <3>2. client'.opcode = op
      BY <2>2 DEF Ask, TypeInv, LinkTypeOK, ClientState
    <3>3. QED
      BY <1>4, <3>1, <3>2 DEF FirstFrame
  <2>3. CASE SendChunk /\ f = NextFrame
    <3>1. f.corr = client.corr /\ f.opcode = client.opcode /\ f.payload = asked
      BY <2>3, NextType
    <3>2. client'.opcode = client.opcode
      BY <2>3 DEF SendChunk, TypeInv, LinkTypeOK, ClientState
    <3>3. QED
      BY <1>4, <3>1, <3>2 DEF FirstFrame
  <2>4. QED
    BY <1>9, <2>1, <2>2, <2>3, TravelsStep
<1>10. ASSUME NEW i \in 1..Len(air') PROVE air'[i].corr \in 1..asked'
  <2>1. Send => outcome.corr \in 1..asked
    BY <1>4 DEF Send, AtWork
  <2>2. Sending.corr = outcome.corr
    BY DEF Sending
  <2>3. QED
    BY <1>4, <1>8, <2>1, <2>2, AirKeeps
<1>11. Dispatched => outcome.corr \in 1..asked
  BY <1>4 DEF DoneInv, Over
<1>12. ASSUME UNCHANGED outcome, AtWork' => AtWork
       PROVE  /\ AtWork' => outcome'.corr \in 1..asked'
              /\ Dispatched' =>
                    /\ outcome'.corr = Completes(outcome'.body)
                    /\ outcome'.corr = asked' => outcome'.opcode = client'.opcode
  <2>1. ASSUME Dispatched', outcome'.corr = asked' PROVE outcome'.opcode = client'.opcode
    <3>1. Dispatched /\ outcome.corr \in 1..asked
      BY <1>11, <1>12, <2>1 DEF Dispatched
    <3>2. CASE client'.opcode = client.opcode /\ UNCHANGED asked
      BY <1>4, <1>12, <2>1, <3>1, <3>2
    <3>3. CASE Connect /\ conn' = conn + 1
      BY <1>1, <1>2, <1>4, <3>1, <3>3
    <3>4. CASE asked' = asked + 1
      BY <1>1, <1>12, <2>1, <3>1, <3>4
    <3>5. QED
      BY <3>2, <3>3, <3>4, ClientMoves
  <2>2. QED
    BY <1>4, <1>8, <1>12, <2>1 DEF Dispatched
<1>13. CASE Client \/ Tick \/ Bridge \/ Callback \/ UNCHANGED vars
  <2>1. UNCHANGED outcome /\ (AtWork' => AtWork)
    BY <1>13, WorkElsewhere DEF AtWork
  <2>2. QED
    BY <1>6, <1>9, <1>10, <1>12, <2>1
<1>14. CASE TakeReset \/ TakeOther \/ Handle \/ Indicate \/ Finish
  <2>1. UNCHANGED outcome /\ (AtWork' => AtWork)
    <3>1. CASE TakeReset \/ TakeOther
      BY <3>1, TakesCommand DEF TakeReset, TakeOther, StoreReset, regs, AtWork
    <3>2. CASE Handle \/ Finish
      BY <3>2 DEF Handle, Finish, regs, AtWork
    <3>3. CASE Indicate
      BY <3>3 DEF Indicate, CheckFails, Drain, Send, Confirmed, ConfirmTimeout, regs, AtWork
    <3>4. QED
      BY <1>14, <3>1, <3>2, <3>3
  <2>2. QED
    BY <1>6, <1>9, <1>10, <1>12, <2>1
<1>15. CASE TakeStore
  <2> DEFINE f == queue[1].frame
  <2>1. /\ Take("store") /\ f \in Frame /\ now \in Nat /\ xfer \in Transfer
        /\ \/ enable_data_ntf /\ ProcessFrame(f, now)
           \/ ~enable_data_ntf /\ DropUnsubscribed
        /\ AtWork' => outcome'.kind \in {"reply", "dispatch"}
    BY <1>15, TakeStoreStep DEF AtWork
  <2>2. 1 \in 1..Len(queue) /\ queue[1].kind = "store" /\ UNCHANGED <<client, asked>>
    BY <2>1, TakesCommand
  <2>3. Travels(f)
    BY <2>2 DEF Travels, Queued, Fq
  <2>4. /\ f.corr = f.payload /\ f.corr \in 1..asked
        /\ f.payload = asked => f.opcode = client.opcode
    BY <1>4, <1>7, <2>1, <2>3 DEF FirstFrame
  <2>5. ASSUME outcome'.kind \in {"reply", "dispatch"}
        PROVE  ProcessFrame(f, now) /\ outcome'.corr = f.corr
    <3>1. ProcessFrame(f, now)
      BY <2>1, <2>5 DEF DropUnsubscribed, Dropped
    <3>2. QED
      BY <2>1, <2>5, <3>1, FrameStep
  <2>6. Dispatched' => outcome'.opcode = f.opcode /\ Completes(outcome'.body) = f.payload
    BY <2>1, <2>5, FrameStep DEF Dispatched
  <2> HIDE DEF f
  <2>7. /\ AtWork' => outcome'.corr \in 1..asked'
        /\ Dispatched' => /\ outcome'.corr = Completes(outcome'.body)
                          /\ outcome'.corr = asked' => outcome'.opcode = client'.opcode
    BY <2>1, <2>2, <2>4, <2>5, <2>6 DEF Dispatched
  <2>8. QED
    BY <1>6, <1>9, <1>10, <2>7
<1>16. QED
  BY <1>13, <1>14, <1>15 DEF Next, Controller

(* A response under way, and the frames of responses in the air.           *)
Responding == pc \in {"check", "send", "wait"}

AnswerInv ==
    /\ \A i \in 1..Len(air) : air[i].status # "none" /\ air[i].index < air[i].count
    /\ Responding =>
          /\ answer.index < answer.count /\ answer.status # "none"
          /\ answer.status # "OK" => answer.count = 1

(* A frame of the client's answer, the controller working on the client's  *)
(* request, and the first client, as long as no such frame has failed.     *)
Mine(i) == air[i].corr = client.corr

WorksForMe == AtWork /\ outcome.corr = client.corr

Whole == conn = 1 /\ ~client.missed

(* The frames of its answer follow each other in the air, and the last of  *)
(* all is the one before the next to send, or the one a confirmation is    *)
(* awaited for: frames of older answers may have failed between them.      *)
Chained ==
    /\ \A i \in 1..Len(air) : i > 1 /\ Mine(i) /\ air[i].index > 0 =>
          Mine(i - 1) /\ air[i - 1].index + 1 = air[i].index
    /\ air # <<>> /\ WorksForMe =>
          /\ pc \in {"check", "send"} /\ answer.index > 0 =>
                Mine(Len(air)) /\ air[Len(air)].index + 1 = answer.index
          /\ pc = "wait" => Mine(Len(air)) /\ air[Len(air)].index = answer.index

ChainInv == Whole => Chained

(* What the first client is told was done, was done.                       *)
OkInv ==
    conn = 1 =>
        /\ Responding /\ answer.status = "OK" /\ outcome.opcode = STORE => Executed(outcome.corr)
        /\ client.opcode = STORE =>
               \A i \in 1..Len(air) :
                   air[i].corr = asked /\ air[i].status = "OK" => Executed(asked)
        /\ OkMeansStored

(* What a step of the controller makes of its work.                        *)
LEMMA WorkMoves ==
    ASSUME TypeInv, [Next]_vars
    PROVE  \/ UNCHANGED <<pc, answer, stored, outcome>>
           \/ /\ pc' \in {"idle", "busy"} /\ UNCHANGED <<stored, outcome>>
              /\ Indicate \/ Finish \/ TakeReset \/ TakeOther
           \/ /\ TakeStore /\ UNCHANGED stored /\ pc' = "idle" /\ outcome'.kind # "dispatch"
           \/ /\ TakeStore /\ UNCHANGED stored /\ pc' = "handle" /\ outcome'.kind = "dispatch"
           \/ /\ TakeStore /\ UNCHANGED stored /\ pc' = "check" /\ outcome'.kind = "reply"
              /\ answer'.index = 0 /\ answer'.count = 1
              /\ answer'.status \notin {"none", "OK"}
           \/ /\ Handle /\ pc = "handle" /\ pc' = "check" /\ UNCHANGED outcome
              /\ answer'.index = 0 /\ answer'.count \in Nat /\ answer'.count > 0
              /\ \/ /\ answer'.status = "OK"
                    /\ stored' = IF outcome.opcode = STORE THEN Append(stored, outcome.body)
                                                           ELSE stored
                 \/ answer'.status = "REFUSED" /\ answer'.count = 1 /\ UNCHANGED stored
           \/ Drain /\ pc = "check" /\ pc' = "send" /\ UNCHANGED <<answer, stored, outcome>>
           \/ Send /\ pc = "send" /\ pc' = "wait" /\ up /\ UNCHANGED <<answer, stored, outcome>>
           \/ /\ Confirmed /\ pc = "wait" /\ pc' = "check" /\ UNCHANGED <<stored, outcome>>
              /\ answer.index + 1 < answer.count
              /\ answer' = [answer EXCEPT !.index = answer.index + 1]
<1>1. CASE Client \/ Tick \/ Bridge \/ Callback \/ UNCHANGED vars
  BY <1>1, WorkElsewhere
<1>2. CASE TakeReset \/ TakeOther
  <2>1. UNCHANGED <<stored, outcome>> /\ pc' \in {"idle", "busy"}
    BY <1>2, TakesCommand DEF TakeReset, TakeOther, StoreReset, regs
  <2>2. QED
    BY <1>2, <2>1
<1>3. CASE TakeStore
  <2>1. /\ UNCHANGED stored /\ Take("store") /\ queue[1].frame \in Frame /\ now \in Nat
        /\ xfer \in Transfer
        /\ \/ enable_data_ntf /\ ProcessFrame(queue[1].frame, now)
           \/ ~enable_data_ntf /\ DropUnsubscribed
        /\ \/ pc' = "check" /\ outcome'.kind = "reply" /\ Respond(outcome'.status, 0)
           \/ pc' = "handle" /\ outcome'.kind = "dispatch" /\ UNCHANGED answer
           \/ pc' = "idle" /\ outcome'.kind \notin {"reply", "dispatch"} /\ UNCHANGED answer
    BY <1>3, TakeStoreStep, TakesCommand
  <2>2. ASSUME outcome'.kind = "reply", Respond(outcome'.status, 0)
        PROVE  /\ answer'.index = 0 /\ answer'.count = 1
               /\ answer'.status \notin {"none", "OK"}
    <3>1. outcome'.status \in TransportStatus
      BY <2>1, <2>2, FrameStep DEF DropUnsubscribed, Dropped
    <3>2. outcome'.status \notin {"none", "OK"}
      BY <3>1 DEF TransportStatus
    <3>3. QED
      BY <2>2, <3>2 DEF Respond
  <2>3. QED
    BY <1>3, <2>1, <2>2
<1>4. CASE Handle
  <2>1. pc = "handle" /\ pc' = "check" /\ UNCHANGED outcome
    BY <1>4 DEF Handle, regs
  <2>2. outcome.opcode \in Opcode
    <3>1. outcome \in Outcome /\ outcome.kind = "dispatch"
      BY <2>1 DEF TypeInv, PcInv, LinkTypeOK, TypeOK
    <3>2. QED
      BY <3>1 DEF Outcome, Dropped, Kept
  <2>3. "OK" \in Status /\ "REFUSED" \in Status
    BY DEF Status
  <2>4. CASE /\ Respond("OK", outcome.opcode)
             /\ stored' = IF outcome.opcode = STORE THEN Append(stored, outcome.body) ELSE stored
    <3>1. /\ answer'.status = "OK" /\ answer'.index = 0
          /\ answer'.count \in Nat /\ answer'.count > 0
      BY <2>2, <2>3, <2>4, Responds
    <3>2. QED
      BY <1>4, <2>1, <2>4, <3>1
  <2>5. CASE Respond("REFUSED", outcome.opcode) /\ UNCHANGED stored
    <3>1. answer'.status = "REFUSED" /\ answer'.index = 0 /\ answer'.count = 1
      BY <2>5 DEF Respond
    <3>2. QED
      BY <1>4, <2>1, <2>5, <3>1
  <2>6. QED
    BY <1>4, <2>4, <2>5 DEF Handle
<1>5. CASE CheckFails \/ ConfirmTimeout \/ Finish
  BY <1>5 DEF CheckFails, ConfirmTimeout, Finish, Indicate, histVars, regs
<1>6. CASE Drain
  BY <1>6 DEF Drain, regs
<1>7. CASE Send
  BY <1>7 DEF Send, Indicate, regs
<1>8. CASE Confirmed
  BY <1>8 DEF Confirmed, Indicate, regs
<1>9. QED
  BY <1>1, <1>2, <1>3, <1>4, <1>5, <1>6, <1>7, <1>8 DEF Next, Controller, Indicate

(* The frame sent joins those in the air; the others move up.              *)
LEMMA AirTyped ==
    ASSUME TypeInv
    PROVE  /\ air \in Seq(Indication(conn)) /\ Len(air) \in Nat
           /\ \A i \in 1..Len(air) : /\ air[i].index \in Nat /\ air[i].count \in Nat
                                     /\ air[i].status \in Status /\ air[i].corr \in Corr
           /\ answer.index \in Nat /\ answer.count \in Nat /\ answer \in Response(conn)
           /\ air # <<>> <=> Len(air) # 0
<1>1. air \in Seq(Indication(conn)) /\ answer \in Response(conn)
  BY DEF TypeInv, LinkTypeOK
<1>2. \A i \in 1..Len(air) : air[i] \in Indication(conn)
  BY <1>1
<1>3. \A i \in 1..Len(air) : /\ air[i].index \in Nat /\ air[i].count \in Nat
                             /\ air[i].status \in Status /\ air[i].corr \in Corr
  BY <1>2 DEF Indication
<1>4. answer.index \in Nat /\ answer.count \in Nat
  BY <1>1 DEF Response
<1>5. QED
  BY <1>1, <1>3, <1>4

LEMMA AirTaken ==
    ASSUME TypeInv, air # <<>>, air' = Tail(air)
    PROVE  /\ Len(air') = Len(air) - 1
           /\ \A i \in 1..Len(air') : i + 1 \in 1..Len(air) /\ air'[i] = air[i + 1]
BY AirTyped, TailOf

LEMMA AirJoined ==
    ASSUME TypeInv, Send, air' = Append(air, Sending)
    PROVE  /\ Len(air') = Len(air) + 1 /\ Len(air') # 0 /\ air' # <<>>
           /\ air'[Len(air')] = Sending
           /\ \A i \in 1..Len(air) : air'[i] = air[i]
           /\ \A i \in 1..Len(air') : i \in 1..Len(air) \/ i = Len(air')
           /\ Sending.corr = outcome.corr /\ Sending.status = answer.status
           /\ Sending.index = answer.index /\ Sending.count = answer.count
<1>1. Sending \in Indication(conn)
  BY SentType DEF Send, TypeInv, PcInv
<1>2. /\ Len(air') = Len(air) + 1 /\ air'[Len(air) + 1] = Sending
      /\ \A i \in 1..Len(air) : air'[i] = air[i]
      /\ Len(air) \in Nat /\ air' # <<>>
  BY <1>1, AirTyped, AppendOf
<1>3. \A i \in 1..Len(air') : i \in 1..Len(air) \/ i = Len(air')
  BY <1>2
<1>4. QED
  BY <1>2, <1>3 DEF Sending

LEMMA AnswerStep ==
    ASSUME TypeInv, AnswerInv, [Next]_vars
    PROVE  AnswerInv'
<1>1. ASSUME NEW i \in 1..Len(air')
      PROVE  air'[i].status # "none" /\ air'[i].index < air'[i].count
  <2>1. Send => answer.status # "none" /\ answer.index < answer.count
    BY DEF Send, AnswerInv, Responding
  <2>2. /\ Sending.status = answer.status /\ Sending.index = answer.index
        /\ Sending.count = answer.count
    BY DEF Sending
  <2>3. QED
    BY <2>1, <2>2, AirKeeps DEF AnswerInv
<1>2. Responding' => /\ answer'.index < answer'.count /\ answer'.status # "none"
                     /\ answer'.status # "OK" => answer'.count = 1
  <2>1. Responding => /\ answer.index < answer.count /\ answer.status # "none"
                      /\ answer.status # "OK" => answer.count = 1
    BY DEF AnswerInv
  <2>2. CASE UNCHANGED answer /\ (Responding' => Responding)
    BY <2>1, <2>2
  <2>3. CASE /\ answer'.index = 0 /\ answer'.count \in Nat /\ answer'.count > 0
             /\ answer'.status # "none" /\ (answer'.status # "OK" => answer'.count = 1)
    BY <2>3
  <2>4. CASE /\ pc = "wait" /\ answer.index + 1 < answer.count
             /\ answer' = [answer EXCEPT !.index = answer.index + 1]
    <3>1. /\ answer'.index = answer.index + 1 /\ answer'.count = answer.count
          /\ answer'.status = answer.status
      BY <2>4, AirTyped DEF Response
    <3>2. QED
      BY <2>1, <2>4, <3>1 DEF Responding
  <2>5. QED
    BY <2>2, <2>3, <2>4, WorkMoves DEF Responding
<1>3. QED
  BY <1>1, <1>2 DEF AnswerInv

(* What the client hears: the next frame of its answer, or nothing.        *)
Hears ==
    /\ Receive /\ Asking /\ air # <<>> /\ air[1].corr = client.corr
    /\ client'.corr = client.corr /\ client'.opcode = client.opcode
    /\ client'.sent = client.sent /\ client'.heard = client.heard + 1
    /\ client'.missed = client.missed
    /\ client'.answer = IF air[1].index # client.heard THEN "gap"
                        ELSE IF air[1].index + 1 = air[1].count THEN air[1].status ELSE "none"

HearsNothing ==
    /\ client'.corr = client.corr /\ client'.opcode = client.opcode
    /\ client'.heard = client.heard /\ client'.answer = client.answer
    /\ client'.sent > 0 <=> client.sent > 0
    /\ client.missed => client'.missed
    /\ Receive => ~(Asking /\ air[1].corr = client.corr)

LEMMA ClientHears ==
    ASSUME TypeInv, [Next]_vars
    PROVE  \/ Hears /\ UNCHANGED <<up, asked, conn>>
           \/ HearsNothing /\ UNCHANGED <<asked, conn>> /\ (up' => up)
           \/ Connect /\ client' = NoClient /\ UNCHANGED asked /\ conn' = conn + 1
           \/ /\ client'.corr = client.corr + 1 /\ client'.heard = 0 /\ client'.answer = "none"
              /\ asked' = asked + 1 /\ UNCHANGED <<up, conn, air, pc, outcome>>
<1>1. /\ client \in ClientState /\ client.corr \in Corr /\ client.sent \in Nat
      /\ client.heard \in Nat
  BY DEF TypeInv, LinkTypeOK, ClientState
<1>2. CASE Connect
  BY <1>2 DEF Connect
<1>3. CASE Receive
  <2>1. /\ air # <<>> /\ Head(air) = air[1] /\ UNCHANGED <<up, asked, conn>>
        /\ client' = IF Asking /\ air[1].corr = client.corr
                     THEN [client EXCEPT
                             !.heard = client.heard + 1,
                             !.answer = IF air[1].index # client.heard THEN "gap"
                                        ELSE IF air[1].index + 1 = air[1].count THEN air[1].status
                                        ELSE "none"]
                     ELSE client
    BY <1>3, AirTyped, TailOf DEF Receive
  <2>2. CASE Asking /\ air[1].corr = client.corr
    <3> DEFINE a == IF air[1].index # client.heard THEN "gap"
                    ELSE IF air[1].index + 1 = air[1].count THEN air[1].status ELSE "none"
    <3>1. client' = [client EXCEPT !.heard = client.heard + 1, !.answer = a]
      BY <2>1, <2>2
    <3> HIDE DEF a
    <3>2. /\ client'.corr = client.corr /\ client'.opcode = client.opcode
          /\ client'.sent = client.sent /\ client'.heard = client.heard + 1
          /\ client'.missed = client.missed /\ client'.answer = a
      BY <1>1, <3>1 DEF ClientState
    <3>3. QED
      BY <1>3, <2>1, <2>2, <3>2 DEF Hears, a
  <2>3. CASE ~(Asking /\ air[1].corr = client.corr)
    BY <2>1, <2>3 DEF HearsNothing
  <2>4. QED
    BY <2>2, <2>3
<1>4. ASSUME ~Receive, UNCHANGED <<asked, conn>>, up' => up,
             client'.corr = client.corr, client'.opcode = client.opcode,
             client'.heard = client.heard, client'.answer = client.answer,
             client'.sent > 0 <=> client.sent > 0, client.missed => client'.missed
      PROVE  HearsNothing /\ UNCHANGED <<asked, conn>> /\ (up' => up)
  BY <1>4 DEF HearsNothing
<1>5. CASE ~Receive /\ \E k \in 1..Len(air) : Fails(k)
  BY <1>1, <1>4, <1>5 DEF Fails, ClientState
<1>6. Receive \/ ~Receive
  OBVIOUS
<1>7. CASE ~Receive /\ (Drop \/ AskOther \/ Tick \/ Bridge)
  BY <1>4, <1>7, BridgeLeaves DEF Drop, AskOther, ClientWrites, Tick
<1>8. CASE ~Receive /\ (ExchangeMtu \/ \E on \in BOOLEAN : Subscribe(on))
  BY <1>1, <1>4, <1>8 DEF ExchangeMtu, Subscribe, ClientWrites, ClientState
<1>9. CASE ~Receive /\ SendChunk
  <2>1. /\ client'.corr = client.corr /\ client'.opcode = client.opcode
        /\ client'.heard = client.heard /\ client'.answer = client.answer
        /\ client'.sent = client.sent + 1 /\ client'.missed = client.missed
    BY <1>1, <1>9 DEF SendChunk, ClientState
  <2>2. client.sent > 0
    BY <1>9 DEF SendChunk, Asking
  <2>3. QED
    BY <1>1, <1>4, <1>9, <2>1, <2>2 DEF SendChunk, ClientWrites
<1>10. ASSUME NEW op \in Asks, Ask(op)
       PROVE  /\ client'.corr = client.corr + 1 /\ client'.heard = 0 /\ client'.answer = "none"
              /\ asked' = asked + 1 /\ UNCHANGED <<up, conn, air, pc, outcome>>
  BY <1>1, <1>10 DEF Ask, ClientWrites, ctlVars, regs, ClientState
<1>11. CASE ~Receive /\ Callback
  BY <1>4, <1>11 DEF Callback, ConnectEvt, MtuEvt, CccdEvt, ConfEvt, WriteEvt, WriteTimeout,
              DisconnectEvt, Next1
<1>12. CASE ~Receive /\ Controller
  BY <1>4, <1>12, ControllerLeaves
<1>13. CASE ~Receive /\ UNCHANGED vars
  BY <1>4, <1>13 DEF vars, linkVars
<1>14. QED
  BY <1>2, <1>3, <1>5, <1>6, <1>7, <1>8, <1>9, <1>10, <1>11, <1>12, <1>13 DEF Next, Client

(* What a frame that leaves the air leaves behind.                         *)
LEMMA LeavesAir ==
    ASSUME TypeInv, TypeInv', NEW k \in 1..Len(air), Loses(k),
           (Receive /\ k = 1) \/ Fails(k)
    PROVE  /\ UNCHANGED <<pc, answer, outcome>>
           /\ Fails(k) /\ Mine(k) => client'.missed
           /\ Len(air) \in Nat /\ Len(air') = Len(air) - 1
           /\ \A i \in 1..Len(air') : /\ i < k => i \in 1..Len(air) /\ air'[i] = air[i]
                                      /\ i >= k => i + 1 \in 1..Len(air) /\ air'[i] = air[i + 1]
           /\ air' = <<>> => Len(air) = 1 /\ k = 1
           /\ air' # <<>> => 1 \in 1..Len(air') /\ Len(air') \in 1..Len(air')
<1>1. UNCHANGED <<pc, answer, outcome>>
  BY DEF Receive, Fails, ctlVars, regs
<1>2. Fails(k) /\ Mine(k) => client'.missed
  <2>1. client \in ClientState
    BY DEF TypeInv, LinkTypeOK
  <2>2. QED
    BY <2>1 DEF Fails, Mine, ClientState
<1>3. /\ Len(air) \in Nat /\ Len(air') = Len(air) - 1
      /\ \A i \in 1..Len(air') : /\ i < k => i \in 1..Len(air) /\ air'[i] = air[i]
                                 /\ i >= k => i + 1 \in 1..Len(air) /\ air'[i] = air[i + 1]
  BY AirTyped DEF Loses
<1>4. air' \in Seq(Indication(conn'))
  BY DEF TypeInv, LinkTypeOK
<1>5. air' = <<>> <=> Len(air') = 0
  BY <1>4
<1>6. QED
  BY <1>1, <1>2, <1>3, <1>5

(* The controller works, and sends nothing.                                *)
LEMMA ChainWork ==
    ASSUME TypeInv, Chained, [Next]_vars, UNCHANGED air, client'.corr = client.corr
    PROVE  Chained'
<1>1. Len(air) \in Nat /\ answer.index \in Nat
  BY AirTyped
<1>2. /\ \A i : Mine(i)' <=> Mine(i)
      /\ UNCHANGED <<pc, outcome>> \/ (pc \in {"check", "wait"} /\ UNCHANGED outcome) =>
            (WorksForMe' => WorksForMe)
  BY DEF Mine, WorksForMe, AtWork
<1>3. \A i \in 1..Len(air') : i > 1 /\ Mine(i)' /\ air'[i].index > 0 =>
          Mine(i - 1)' /\ air'[i - 1].index + 1 = air'[i].index
  BY <1>2 DEF Chained
<1>4. ASSUME air # <<>>, WorksForMe'
      PROVE  /\ pc' \in {"check", "send"} /\ answer'.index > 0 =>
                   Mine(Len(air)) /\ air[Len(air)].index + 1 = answer'.index
             /\ pc' = "wait" => Mine(Len(air)) /\ air[Len(air)].index = answer'.index
  <2>1. WorksForMe =>
            /\ pc \in {"check", "send"} /\ answer.index > 0 =>
                  Mine(Len(air)) /\ air[Len(air)].index + 1 = answer.index
            /\ pc = "wait" => Mine(Len(air)) /\ air[Len(air)].index = answer.index
    BY <1>4 DEF Chained
  <2>2. CASE UNCHANGED <<pc, answer, outcome>>
    BY <1>2, <1>4, <2>1, <2>2
  <2>3. CASE pc' \in {"idle", "busy", "handle"}
    BY <2>3
  <2>4. CASE pc' = "check" /\ answer'.index = 0
    BY <2>4
  <2>5. CASE pc = "check" /\ pc' = "send" /\ UNCHANGED <<answer, outcome>>
    BY <1>2, <1>4, <2>1, <2>5
  <2>6. CASE /\ pc = "wait" /\ pc' = "check" /\ UNCHANGED outcome
             /\ answer' = [answer EXCEPT !.index = answer.index + 1]
    <3>1. answer'.index = answer.index + 1
      BY <2>6, AirTyped DEF Response
    <3>2. QED
      BY <1>2, <1>4, <2>1, <2>6, <3>1
  <2>7. CASE Send /\ pc' = "wait"
    <3>1. air' = Append(air, Sending)
      BY <2>7 DEF Send, Sending
    <3>2. Len(air') = Len(air) + 1
      BY <2>7, <3>1, AirJoined
    <3>3. QED
      BY <1>1, <3>2
  <2>8. QED
    BY <2>2, <2>3, <2>4, <2>5, <2>6, <2>7, WorkMoves
<1>5. QED
  BY <1>2, <1>3, <1>4 DEF Chained

(* A frame leaves the air: the one in front, or one of an older answer.    *)
LEMMA ChainLoses ==
    ASSUME TypeInv, TypeInv', Chained, client'.corr = client.corr,
           NEW k \in 1..Len(air), Loses(k), (Receive /\ k = 1) \/ (Fails(k) /\ ~Mine(k))
    PROVE  Chained'
<1>1. /\ UNCHANGED <<pc, answer, outcome>>
      /\ Len(air) \in Nat /\ Len(air') = Len(air) - 1
      /\ \A i \in 1..Len(air') : /\ i < k => i \in 1..Len(air) /\ air'[i] = air[i]
                                 /\ i >= k => i + 1 \in 1..Len(air) /\ air'[i] = air[i + 1]
      /\ air' # <<>> => Len(air') \in 1..Len(air')
  BY LeavesAir
<1>2. \A i \in 1..Len(air') : Mine(i)' <=> air'[i].corr = client.corr
  BY DEF Mine
<1>3. Mine(k) => k = 1
  OBVIOUS
<1>4. ASSUME NEW i \in 1..Len(air'), i > 1, Mine(i)', air'[i].index > 0
      PROVE  Mine(i - 1)' /\ air'[i - 1].index + 1 = air'[i].index
  <2>1. i - 1 \in 1..Len(air') /\ i \in Nat /\ k \in Nat /\ (i + 1) - 1 = i
    BY <1>1, <1>4
  <2>2. CASE i < k
    <3>1. i \in 1..Len(air) /\ air'[i] = air[i] /\ Mine(i)
      BY <1>1, <1>2, <1>4, <2>2 DEF Mine
    <3>2. i - 1 < k
      BY <2>1, <2>2
    <3>3. air'[i - 1] = air[i - 1]
      BY <1>1, <2>1, <3>2
    <3>4. Mine(i - 1) /\ air[i - 1].index + 1 = air[i].index
      BY <1>4, <3>1 DEF Chained
    <3>5. QED
      BY <3>1, <3>3, <3>4 DEF Mine
  <2>3. CASE i >= k
    <3>1. i + 1 \in 1..Len(air) /\ air'[i] = air[i + 1] /\ Mine(i + 1)
      BY <1>1, <1>2, <1>4, <2>3 DEF Mine
    <3>2. i + 1 > 1
      BY <1>4, <2>1
    <3>3. Mine(i) /\ air[i].index + 1 = air[i + 1].index
      BY <1>4, <2>1, <3>1, <3>2 DEF Chained
    <3>4. i - 1 >= k
      BY <1>3, <1>4, <2>1, <2>3, <3>3
    <3>5. air'[i - 1] = air[(i - 1) + 1] /\ (i - 1) + 1 = i
      BY <1>1, <2>1, <3>4
    <3>6. QED
      BY <3>1, <3>3, <3>5 DEF Mine
  <2>4. QED
    BY <2>1, <2>2, <2>3
<1>5. ASSUME air' # <<>>, Mine(Len(air)) PROVE air'[Len(air')] = air[Len(air)]
  <2>1. k # Len(air)
    BY <1>1, <1>3, <1>5
  <2>2. Len(air') >= k /\ Len(air') + 1 = Len(air)
    BY <1>1, <2>1
  <2>3. QED
    BY <1>1, <1>5, <2>2
<1>6. ASSUME air' # <<>>, WorksForMe'
      PROVE  /\ pc' \in {"check", "send"} /\ answer'.index > 0 =>
                   Mine(Len(air))' /\ air'[Len(air')].index + 1 = answer'.index
             /\ pc' = "wait" => Mine(Len(air))' /\ air'[Len(air')].index = answer'.index
  <2>1. WorksForMe /\ air # <<>>
    BY <1>1, <1>6 DEF WorksForMe, AtWork
  <2>2. /\ pc \in {"check", "send"} /\ answer.index > 0 =>
              Mine(Len(air)) /\ air[Len(air)].index + 1 = answer.index
        /\ pc = "wait" => Mine(Len(air)) /\ air[Len(air)].index = answer.index
    BY <2>1 DEF Chained
  <2>3. QED
    BY <1>1, <1>5, <1>6, <2>2 DEF Mine
<1>7. QED
  BY <1>4, <1>6 DEF Chained, Mine

(* A frame of the answer follows the one before it.                        *)
LEMMA ChainSent ==
    ASSUME TypeInv, Chained, client'.corr = client.corr, Send, up, air' = Append(air, Sending)
    PROVE  Chained'
<1>1. /\ Len(air') = Len(air) + 1 /\ Len(air') # 0 /\ air' # <<>>
      /\ air'[Len(air')] = Sending
      /\ \A i \in 1..Len(air) : air'[i] = air[i]
      /\ \A i \in 1..Len(air') : i \in 1..Len(air) \/ i = Len(air')
      /\ Sending.corr = outcome.corr /\ Sending.index = answer.index
      /\ Len(air) \in Nat /\ answer.index \in Nat
  BY AirJoined, AirTyped
<1>2. pc = "send" /\ pc' = "wait" /\ UNCHANGED <<answer, outcome>>
  BY DEF Send, regs
<1>3. ASSUME NEW i \in 1..Len(air'), i > 1, Mine(i)', air'[i].index > 0
      PROVE  Mine(i - 1)' /\ air'[i - 1].index + 1 = air'[i].index
  <2>1. i - 1 \in 1..Len(air) /\ air'[i - 1] = air[i - 1]
    BY <1>1, <1>3
  <2>2. CASE i \in 1..Len(air)
    <3>1. air'[i] = air[i] /\ Mine(i)
      BY <1>1, <1>3, <2>2 DEF Mine
    <3>2. Mine(i - 1) /\ air[i - 1].index + 1 = air[i].index
      BY <1>3, <2>2, <3>1 DEF Chained
    <3>3. QED
      BY <2>1, <3>1, <3>2 DEF Mine
  <2>3. CASE i = Len(air')
    <3>1. i - 1 = Len(air) /\ air # <<>> /\ answer.index > 0
      BY <1>1, <1>3, <2>1, <2>3, AirTyped
    <3>2. WorksForMe
      BY <1>1, <1>2, <1>3, <2>3 DEF Mine, WorksForMe, AtWork
    <3>3. Mine(Len(air)) /\ air[Len(air)].index + 1 = answer.index
      BY <1>2, <3>1, <3>2 DEF Chained
    <3>4. QED
      BY <1>1, <2>1, <2>3, <3>1, <3>3 DEF Mine
  <2>4. QED
    BY <1>1, <2>2, <2>3
<1>4. WorksForMe' => Mine(Len(air))' /\ air'[Len(air')].index = answer'.index
  BY <1>1, <1>2 DEF Mine, WorksForMe
<1>5. QED
  BY <1>2, <1>3, <1>4 DEF Chained, Mine

LEMMA ChainStep ==
    ASSUME TypeInv, TypeInv', LinkInv, FirstInv, ChainInv, [Next]_vars
    PROVE  ChainInv'
<1>1. SUFFICES ASSUME Whole' PROVE Chained'
  BY DEF ChainInv
<1>2. conn \in Nat /\ asked \in Nat
  BY FramesTyped, Bounds DEF TypeInv, LinkTypeOK
<1>3. CASE Connect
  <2>1. UNCHANGED air /\ ~up
    BY <1>3 DEF Connect
  <2>2. air' = <<>>
    BY <2>1 DEF LinkInv
  <2>3. QED
    BY <2>2 DEF Chained
<1>4. CASE /\ client'.corr = client.corr + 1
           /\ UNCHANGED <<up, conn, air, pc, outcome>>
  <2>1. /\ client.corr = asked
        /\ AtWork => outcome.corr \in 1..asked
        /\ \A i \in 1..Len(air) : air[i].corr \in 1..asked
    BY <1>1, <1>4 DEF FirstInv, Whole
  <2>2. \A i \in 1..Len(air') : ~Mine(i)'
    BY <1>2, <1>4, <2>1 DEF Mine
  <2>3. ~WorksForMe'
    BY <1>2, <1>4, <2>1 DEF WorksForMe, AtWork
  <2>4. QED
    BY <2>2, <2>3 DEF Chained, Mine
<1>5. CASE conn = 1 /\ client'.corr = client.corr /\ ~client.missed
  <2>1. Chained
    BY <1>5 DEF ChainInv, Whole
  <2>2. CASE UNCHANGED air
    BY <1>5, <2>1, <2>2, ChainWork
  <2>3. CASE air' = <<>>
    BY <2>3 DEF Chained
  <2>4. ASSUME NEW k \in 1..Len(air), Loses(k), (Receive /\ k = 1) \/ Fails(k) PROVE Chained'
    <3>1. Fails(k) => ~Mine(k)
      BY <1>1, <2>4, LeavesAir DEF Whole
    <3>2. QED
      BY <1>5, <2>1, <2>4, <3>1, ChainLoses
  <2>5. CASE Send /\ up /\ air' = Append(air, Sending)
    BY <1>5, <2>1, <2>5, ChainSent
  <2>6. QED
    BY <2>2, <2>3, <2>4, <2>5, AirMoves
<1>6. client'.corr = client.corr /\ UNCHANGED conn /\ (client.missed => client'.missed) =>
          conn = 1 /\ ~client.missed
  BY <1>1 DEF Whole
<1>7. QED
  BY <1>3, <1>4, <1>5, <1>6, ClientHears DEF Hears, HearsNothing

LEMMA OkStep ==
    ASSUME TypeInv, TypeInv', LinkInv, FirstInv, OkInv, [Next]_vars
    PROVE  OkInv'
<1>1. conn \in Nat /\ conn' \in Nat /\ asked \in Nat
  <2>1. conn \in 0..MaxConn /\ asked \in 0..MaxAsk
    BY DEF TypeInv, LinkTypeOK
  <2>2. conn' \in 0..MaxConn
    BY DEF TypeInv, LinkTypeOK
  <2>3. QED
    BY <2>1, <2>2, Bounds
<1>2. SUFFICES ASSUME conn' = 1
               PROVE  /\ Responding' /\ answer'.status = "OK" /\ outcome'.opcode = STORE =>
                             Executed(outcome.corr)'
                      /\ client'.opcode = STORE =>
                             \A i \in 1..Len(air') :
                                 air'[i].corr = asked' /\ air'[i].status = "OK" => Executed(asked)'
                      /\ OkMeansStored'
  BY DEF OkInv
<1>3. CASE Connect
  <2>1. conn = 0 /\ client' = NoClient /\ UNCHANGED <<pc, air>> /\ ~up
    BY <1>1, <1>2, <1>3 DEF Connect, ctlVars
  <2>2. pc = "idle" /\ air = <<>>
    BY <2>1 DEF TypeInv, PcInv, LinkInv
  <2>3. QED
    BY <2>1, <2>2 DEF Responding, OkMeansStored, NoClient
<1>4. CASE conn = 1 /\ ~Connect
  <2>1. /\ client.corr = asked
        /\ Dispatched => /\ outcome.corr = Completes(outcome.body)
                         /\ outcome.corr = asked => outcome.opcode = client.opcode
        /\ \A i \in 1..Len(air) : air[i].corr \in 1..asked
    BY <1>4 DEF FirstInv
  <2>2. /\ Responding /\ answer.status = "OK" /\ outcome.opcode = STORE => Executed(outcome.corr)
        /\ client.opcode = STORE => \A i \in 1..Len(air) :
               air[i].corr = asked /\ air[i].status = "OK" => Executed(asked)
        /\ OkMeansStored
    BY <1>4 DEF OkInv
  <2>3. stored \in Seq(Seq(Payload))
    BY DEF TypeInv, LinkTypeOK
  <2>4. Dispatched => outcome.body \in Seq(Payload)
    <3>1. outcome \in Outcome
      BY DEF TypeInv, LinkTypeOK, TypeOK
    <3>2. QED
      BY <3>1 DEF Outcome, Dropped, Kept, Dispatched
  <2>5. ASSUME Dispatched, stored' = Append(stored, outcome.body)
        PROVE  /\ \A n : Executed(n) => \E i \in 1..Len(stored') : Completes(stored'[i]) = n
               /\ \E i \in 1..Len(stored') : Completes(stored'[i]) = Completes(outcome.body)
    <3>1. /\ Len(stored') = Len(stored) + 1 /\ stored'[Len(stored) + 1] = outcome.body
          /\ \A i \in 1..Len(stored) : stored'[i] = stored[i]
          /\ Len(stored) \in Nat
      BY <2>3, <2>4, <2>5, AppendOf
    <3>2. /\ Len(stored) + 1 \in 1..Len(stored')
          /\ \A i \in 1..Len(stored) : i \in 1..Len(stored')
      BY <3>1
    <3>3. QED
      BY <3>1, <3>2 DEF Executed
  <2>6. ASSUME pc = "handle" PROVE Dispatched
    BY <2>6 DEF TypeInv, PcInv, Dispatched
  <2>7. \A n : Executed(n) => \E i \in 1..Len(stored') : Completes(stored'[i]) = n
    <3>1. stored' = stored \/ (pc = "handle" /\ stored' = Append(stored, outcome.body))
      BY WorkMoves
    <3>2. QED
      BY <2>5, <2>6, <3>1 DEF Executed
  <2>8. ASSUME Responding', answer'.status = "OK", outcome'.opcode = STORE
        PROVE  \E i \in 1..Len(stored') : Completes(stored'[i]) = outcome'.corr
    <3>1. CASE UNCHANGED <<answer, outcome>> /\ Responding
      BY <2>2, <2>7, <2>8, <3>1
    <3>2. CASE /\ pc = "handle" /\ UNCHANGED outcome
               /\ stored' = IF outcome.opcode = STORE THEN Append(stored, outcome.body)
                                                      ELSE stored
      BY <2>1, <2>5, <2>6, <2>8, <3>2
    <3>3. CASE answer'.status # "OK"
      BY <2>8, <3>3
    <3>4. CASE pc = "wait" /\ UNCHANGED outcome /\ answer' = [answer EXCEPT !.index = answer.index + 1]
      <4>1. answer'.status = answer.status
        BY <3>4, AirTyped DEF Response
      <4>2. QED
        BY <2>2, <2>7, <2>8, <3>4, <4>1 DEF Responding
    <3>5. pc' = "handle" \/ pc' \in {"idle", "busy"} => ~Responding'
      BY DEF Responding
    <3>6. UNCHANGED <<pc, answer, stored, outcome>> => Responding
      BY <2>8 DEF Responding
    <3>7. pc \in {"check", "send"} => Responding
      BY DEF Responding
    <3>8. QED
      BY <2>8, <3>1, <3>2, <3>3, <3>4, <3>5, <3>6, <3>7, WorkMoves
  <2>9. CASE asked' = asked + 1 /\ UNCHANGED air /\ client'.answer = "none"
    <3>1. \A i \in 1..Len(air') : air'[i].corr # asked'
      BY <1>1, <2>1, <2>9
    <3>2. OkMeansStored'
      BY <2>9 DEF OkMeansStored
    <3>3. QED
      BY <2>8, <3>1, <3>2 DEF Executed
  <2>10. CASE UNCHANGED asked /\ client'.opcode = client.opcode
    <3>1. ASSUME client.opcode = STORE, NEW i \in 1..Len(air'),
                 air'[i].corr = asked, air'[i].status = "OK"
          PROVE  Executed(asked)
      <4>1. CASE \E j \in 1..Len(air) : air'[i] = air[j]
        BY <2>2, <3>1, <4>1
      <4>2. CASE Send /\ air'[i] = Sending
        <5>1. outcome.corr = asked /\ answer.status = "OK" /\ pc = "send"
          BY <3>1, <4>2 DEF Send, Sending
        <5>2. Dispatched
          BY <5>1 DEF TypeInv, PcInv, Dispatched
        <5>3. QED
          BY <2>1, <2>2, <3>1, <5>1, <5>2 DEF Responding
      <4>3. QED
        BY <4>1, <4>2, AirKeeps
    <3>2. client'.opcode = STORE /\ client'.answer = "OK" => Executed(asked)
      <4>1. CASE client'.answer = client.answer
        BY <2>2, <2>10, <4>1 DEF OkMeansStored
      <4>2. CASE Hears
        <5>1. air[1].corr = asked /\ 1 \in 1..Len(air)
          BY <2>1, <4>2, AirTyped DEF Hears
        <5>2. client'.answer = "OK" => air[1].status = "OK"
          BY <4>2 DEF Hears
        <5>3. QED
          BY <2>2, <2>10, <5>1, <5>2
      <4>3. CASE client'.answer = "none"
        BY <4>3
      <4>4. QED
        BY <1>4, <4>1, <4>2, <4>3, ClientHears DEF HearsNothing
    <3>3. OkMeansStored'
      BY <2>7, <2>10, <3>2 DEF OkMeansStored, Executed
    <3>4. QED
      BY <2>7, <2>8, <2>10, <3>1, <3>3 DEF Executed
  <2>11. QED
    BY <1>4, <2>9, <2>10, ClientHears DEF Hears, HearsNothing
<1>5. conn = 1 \/ Connect
  BY <1>2, ClientMoves
<1>6. QED
  BY <1>3, <1>4, <1>5

----------------------------------------------------------------------------
(* The first client hears its answers without a gap.                       *)

(* The last frame of an answer.                                            *)
Final(r) == r.index + 1 = r.count

(* No frame but final ones of the client's answer has been sent.           *)
Fresh == client.heard = 0 /\ \A i \in 1..Len(air) : Mine(i) => Final(air[i])

(* A client that waits has heard as much of its answer as is not in the air*)
(* and has been sent.                                                      *)
HeardInv ==
    up /\ Asking =>
        /\ \A i \in 1..Len(air) : Mine(i) /\ air[i].index = 0 => client.heard = 0
        /\ air # <<>> /\ Mine(1) => air[1].index = client.heard
        /\ \A i, j \in 1..Len(air) : i < j /\ Mine(i) /\ Mine(j) /\ air[j].index = 0 => Final(air[i])
        /\ WorksForMe /\ (pc = "handle" \/ (pc # "wait" /\ answer.index = 0)) => Fresh
        /\ WorksForMe /\ pc \in {"check", "send"} /\ air = <<>> => client.heard = answer.index
        /\ WorksForMe /\ pc = "wait" /\ air = <<>> => client.heard = answer.index + 1

(* Of an answer in several frames, the request is over; and unless one of  *)
(* its frames has failed, the client has heard it without a gap.           *)
GapInv ==
    conn = 1 =>
        /\ \A i \in 1..Len(air) : ~Final(air[i]) => Over(air[i].corr)
        /\ Asking /\ client.heard > 0 => Over(asked)
        /\ ~client.missed => client.answer # "gap" /\ HeardInv

(* A request that is over is not begun to be answered once more.           *)
LEMMA NotOver ==
    ASSUME TypeInv, FrameInv, FirstInv, conn = 1, TakeStore,
           outcome'.kind \in {"reply", "dispatch"}, outcome'.corr = client.corr
    PROVE  ~Over(asked)
<1> DEFINE f == queue[1].frame
<1>1. /\ Take("store") /\ f \in Frame /\ now \in Nat /\ xfer \in Transfer
      /\ enable_data_ntf /\ ProcessFrame(f, now)
  BY TakeStoreStep DEF DropUnsubscribed, Dropped
<1>2. outcome'.corr = f.corr
  BY <1>1, FrameStep
<1>3. 1 \in 1..Len(queue) /\ queue[1].kind = "store"
  BY <1>1, TakesCommand
<1>4. Queued(1) /\ Fq(1) = f /\ Travels(f)
  BY <1>3 DEF Queued, Fq, Travels
<1> HIDE DEF f
<1>5. f.corr = f.payload /\ client.corr = asked
  BY <1>1, <1>4 DEF FirstInv, FirstFrame
<1>6. f.payload \in Nat /\ asked \in Nat
  BY <1>1, FrameFields, FramesTyped
<1>7. ASSUME Over(asked) PROVE FALSE
  <2>1. Fq(1).payload > asked
    BY <1>3, <1>4, <1>7 DEF Over
  <2>2. f.payload > asked
    BY <1>4, <2>1
  <2>3. f.payload = asked
    BY <1>2, <1>5
  <2>4. QED
    BY <1>6, <2>2, <2>3
<1>8. QED
  BY <1>7

(* The client hears a frame.                                               *)
LEMMA HeardNext ==
    ASSUME TypeInv, ChainInv, AnswerInv, conn = 1, FirstInv, LinkInv, GapInv, Hears
    PROVE  /\ ~client.missed => HeardInv' /\ client'.answer # "gap"
           /\ Asking' /\ client'.heard > 0 => Over(asked)
<1>1. /\ Receive /\ Asking /\ air # <<>> /\ air[1].corr = client.corr
      /\ client'.corr = client.corr /\ client'.heard = client.heard + 1
      /\ client'.sent = client.sent
      /\ client'.answer = IF air[1].index # client.heard THEN "gap"
                          ELSE IF air[1].index + 1 = air[1].count THEN air[1].status ELSE "none"
  BY DEF Hears
<1>2. /\ air' = Tail(air) /\ UNCHANGED <<up, pc, answer, outcome>>
  BY <1>1 DEF Receive, ctlVars, regs
<1>3. /\ Len(air') = Len(air) - 1 /\ Len(air) \in Nat /\ 1 \in 1..Len(air)
      /\ \A i \in 1..Len(air') : i + 1 \in 1..Len(air) /\ air'[i] = air[i + 1]
      /\ air' = <<>> => Len(air) = 1
  <2>1. Len(air) \in Nat /\ 1 \in 1..Len(air)
    BY <1>1, AirTyped
  <2>2. /\ Len(air') = Len(air) - 1
        /\ \A i \in 1..Len(air') : i + 1 \in 1..Len(air) /\ air'[i] = air[i + 1]
    BY <1>1, <1>2, AirTaken
  <2>3. air' = <<>> => Len(air') = 0
    OBVIOUS
  <2>4. QED
    BY <2>1, <2>2, <2>3
<1>4. up
  BY <1>1 DEF LinkInv
<1>5. /\ \A i \in 1..Len(air) : ~Final(air[i]) => Over(air[i].corr)
      /\ ~client.missed =>
            /\ Chained
            /\ \A i \in 1..Len(air) : Mine(i) /\ air[i].index = 0 => client.heard = 0
            /\ air[1].index = client.heard
            /\ \A i, j \in 1..Len(air) :
                  i < j /\ Mine(i) /\ Mine(j) /\ air[j].index = 0 => Final(air[i])
            /\ WorksForMe /\ (pc = "handle" \/ (pc # "wait" /\ answer.index = 0)) => Fresh
  BY <1>1, <1>4 DEF GapInv, HeardInv, Mine, ChainInv, Whole
<1>6. ~client.missed => client'.answer # "gap"
  <2>1. air[1].status \in Status
    BY <1>3, AirTyped
  <2>2. air[1].status # "gap"
    BY <2>1 DEF Status, TransportStatus
  <2>3. QED
    BY <1>1, <1>5, <2>2
<1>7. ASSUME Asking' PROVE ~Final(air[1])
  <2>1. client'.answer = "none"
    BY <1>7 DEF Asking
  <2>2. air[1].status # "none"
    BY <1>3 DEF AnswerInv
  <2>3. QED
    BY <1>1, <1>5, <2>1, <2>2 DEF Final
<1>8. Asking' => Over(asked)
  <2>1. client.corr = asked
    BY DEF FirstInv
  <2>2. QED
    BY <1>1, <1>3, <1>5, <1>7, <2>1
<1>9. \A i \in 1..Len(air') : Mine(i)' => Mine(i + 1)
  BY <1>1, <1>3 DEF Mine
<1>10. ASSUME Asking', ~client.missed PROVE HeardInv'
  <2>1. ~Final(air[1]) /\ Mine(1)
    BY <1>1, <1>7, <1>10 DEF Mine
  <2>2. \A i \in 1..Len(air') : Mine(i)' => air'[i].index # 0
    <3>1. ASSUME NEW i \in 1..Len(air'), Mine(i)', air'[i].index = 0 PROVE FALSE
      <4>1. i + 1 \in 1..Len(air) /\ air'[i] = air[i + 1] /\ Mine(i + 1) /\ 1 < i + 1
        BY <1>3, <1>9, <3>1
      <4>2. Final(air[1])
        BY <1>3, <1>5, <1>10, <2>1, <3>1, <4>1
      <4>3. QED
        BY <2>1, <4>2
    <3>2. QED
      BY <3>1
  <2>3. ASSUME air' # <<>>, Mine(1)' PROVE air'[1].index = client'.heard
    <3>1. 1 \in 1..Len(air')
      <4>1. air' \in Seq(Indication(conn))
        BY <1>1, <1>2, AirTyped, TailOf
      <4>2. QED
        BY <2>3, <4>1
    <3>2. /\ 1 + 1 \in 1..Len(air) /\ air'[1] = air[1 + 1] /\ air'[1].index # 0
          /\ Mine(1 + 1)
      BY <1>3, <1>9, <2>2, <2>3, <3>1
    <3>3. air[1 + 1].index > 0
      BY <3>2, AirTyped
    <3>4. air[(1 + 1) - 1].index + 1 = air[1 + 1].index
      BY <1>5, <1>10, <3>2, <3>3 DEF Chained
    <3>5. QED
      BY <1>1, <1>5, <1>10, <3>2, <3>4
  <2>4. ~(WorksForMe' /\ (pc' = "handle" \/ (pc' # "wait" /\ answer'.index = 0)))
    <3>1. ~Fresh
      BY <1>3, <2>1 DEF Fresh
    <3>2. WorksForMe' => WorksForMe
      BY <1>1, <1>2 DEF WorksForMe, AtWork
    <3>3. QED
      BY <1>2, <1>5, <1>10, <3>1, <3>2
  <2>5. ASSUME WorksForMe', pc' \in {"check", "send"}, air' = <<>>
        PROVE  client'.heard = answer'.index
    <3>1. answer.index # 0
      BY <1>2, <2>4, <2>5
    <3>2. answer.index > 0 /\ Len(air) = 1
      BY <1>3, <2>5, <3>1, AirTyped
    <3>3. air[1].index + 1 = answer.index
      BY <1>1, <1>2, <1>5, <1>10, <2>5, <3>2 DEF Chained, WorksForMe, AtWork
    <3>4. QED
      BY <1>1, <1>2, <1>5, <1>10, <3>3
  <2>6. ASSUME WorksForMe', pc' = "wait", air' = <<>>
        PROVE  client'.heard = answer'.index + 1
    <3>1. Len(air) = 1
      BY <1>3, <2>6
    <3>2. air[1].index = answer.index
      BY <1>1, <1>2, <1>5, <1>10, <2>6, <3>1 DEF Chained, WorksForMe, AtWork
    <3>3. QED
      BY <1>1, <1>2, <1>5, <1>10, <3>2
  <2>7. QED
    BY <2>2, <2>3, <2>4, <2>5, <2>6 DEF HeardInv
<1>11. QED
  BY <1>6, <1>8, <1>10 DEF HeardInv

(* A frame of another answer leaves the air.                               *)
LEMMA HeardElse ==
    ASSUME TypeInv, TypeInv', Chained, HeardInv, HearsNothing, up' => up,
           NEW k \in 1..Len(air), Loses(k), (Receive /\ k = 1) \/ Fails(k), ~(Asking /\ Mine(k))
    PROVE  HeardInv'
<1>1. /\ client'.corr = client.corr /\ client'.heard = client.heard /\ (Asking' <=> Asking)
  BY DEF HearsNothing, Asking
<1>2. /\ UNCHANGED <<pc, answer, outcome>>
      /\ Len(air) \in Nat /\ Len(air') = Len(air) - 1
      /\ \A i \in 1..Len(air') : /\ i < k => i \in 1..Len(air) /\ air'[i] = air[i]
                                 /\ i >= k => i + 1 \in 1..Len(air) /\ air'[i] = air[i + 1]
      /\ air' = <<>> => Len(air) = 1 /\ k = 1
      /\ air' # <<>> => 1 \in 1..Len(air')
  BY LeavesAir
<1>3. SUFFICES ASSUME up', Asking' PROVE HeardInv'
  BY DEF HeardInv
<1>4. /\ ~Mine(k)
      /\ \A i \in 1..Len(air) : Mine(i) /\ air[i].index = 0 => client.heard = 0
      /\ air # <<>> /\ Mine(1) => air[1].index = client.heard
      /\ \A i, j \in 1..Len(air) : i < j /\ Mine(i) /\ Mine(j) /\ air[j].index = 0 => Final(air[i])
      /\ WorksForMe /\ (pc = "handle" \/ (pc # "wait" /\ answer.index = 0)) => Fresh
  BY <1>1, <1>3 DEF HeardInv
<1> DEFINE src(i) == IF i < k THEN i ELSE i + 1
<1>5. /\ \A i \in 1..Len(air') : /\ src(i) \in 1..Len(air) /\ air'[i] = air[src(i)]
                                 /\ Mine(i)' <=> Mine(src(i))
      /\ \A i, j \in 1..Len(air') : i < j => src(i) < src(j)
  <2>1. ASSUME NEW i \in 1..Len(air') PROVE src(i) \in 1..Len(air) /\ air'[i] = air[src(i)]
    <3>1. i < k \/ i >= k
      BY <1>2
    <3>2. QED
      BY <1>2, <3>1
  <2>2. \A i, j \in 1..Len(air') : i < j => src(i) < src(j)
    BY <1>2
  <2>3. QED
    BY <1>1, <2>1, <2>2 DEF Mine
<1>6. src(1) = 1 \/ (src(1) = 1 + 1 /\ k = 1)
  BY <1>2
<1> HIDE DEF src
<1>7. \A i \in 1..Len(air') : Mine(i)' /\ air'[i].index = 0 => client'.heard = 0
  BY <1>1, <1>4, <1>5
<1>8. air' # <<>> /\ Mine(1)' => air'[1].index = client'.heard
  <2>1. SUFFICES ASSUME air' # <<>>, Mine(1)' PROVE air'[1].index = client'.heard
    OBVIOUS
  <2>2. Mine(src(1)) /\ src(1) \in 1..Len(air) /\ air'[1] = air[src(1)] /\ air # <<>>
    BY <1>2, <1>5, <2>1
  <2>3. CASE src(1) = 1
    BY <1>1, <1>4, <2>2, <2>3
  <2>4. CASE src(1) = 1 + 1 /\ k = 1 /\ air[1 + 1].index = 0
    BY <1>1, <1>4, <2>2, <2>4
  <2>5. CASE src(1) = 1 + 1 /\ k = 1 /\ air[1 + 1].index # 0
    <3>1. air[1 + 1].index > 0
      BY <2>2, <2>5, AirTyped
    <3>2. Mine((1 + 1) - 1)
      BY <2>2, <2>5, <3>1 DEF Chained
    <3>3. QED
      BY <1>4, <2>5, <3>2
  <2>6. QED
    BY <1>6, <2>3, <2>4, <2>5
<1>9. ASSUME NEW i \in 1..Len(air'), NEW j \in 1..Len(air'),
             i < j, Mine(i)', Mine(j)', air'[j].index = 0
      PROVE  Final(air'[i])
  BY <1>4, <1>5, <1>9
<1>10. WorksForMe' => WorksForMe
  BY <1>1, <1>2 DEF WorksForMe, AtWork
<1>11. Fresh => Fresh'
  BY <1>1, <1>5 DEF Fresh, Final
<1>12. WorksForMe' /\ (pc' = "handle" \/ (pc' # "wait" /\ answer'.index = 0)) => Fresh'
  BY <1>2, <1>4, <1>10, <1>11
<1>13. WorksForMe' /\ pc' \in {"check", "send"} /\ air' = <<>> => client'.heard = answer'.index
  <2>1. SUFFICES ASSUME WorksForMe', pc' \in {"check", "send"}, air' = <<>>
                 PROVE  client'.heard = answer'.index
    OBVIOUS
  <2>2. CASE answer.index = 0
    BY <1>2, <1>12, <2>1, <2>2 DEF Fresh
  <2>3. CASE answer.index # 0
    <3>1. answer.index > 0 /\ air # <<>>
      BY <1>2, <2>3, AirTyped
    <3>2. Mine(Len(air))
      BY <1>2, <1>10, <2>1, <3>1 DEF Chained
    <3>3. QED
      BY <1>2, <1>4, <2>1, <3>2
  <2>4. QED
    BY <2>2, <2>3
<1>14. ~(WorksForMe' /\ pc' = "wait" /\ air' = <<>>)
  <2>1. SUFFICES ASSUME WorksForMe', pc' = "wait", air' = <<>> PROVE FALSE
    OBVIOUS
  <2>2. Mine(Len(air))
    BY <1>2, <1>10, <2>1 DEF Chained
  <2>3. QED
    BY <1>2, <1>4, <2>1, <2>2
<1>15. QED
  BY <1>7, <1>8, <1>9, <1>12, <1>13, <1>14 DEF HeardInv

(* The controller works, and sends nothing.                                *)
LEMMA HeardWork ==
    ASSUME TypeInv, FrameInv, FirstInv, conn = 1, GapInv, ~client.missed, [Next]_vars,
           HearsNothing, up' => up, UNCHANGED air
    PROVE  HeardInv'
<1>1. /\ client'.corr = client.corr /\ client'.heard = client.heard /\ (Asking' <=> Asking)
  BY DEF HearsNothing, Asking
<1>2. SUFFICES ASSUME up', Asking' PROVE HeardInv'
  BY DEF HeardInv
<1>3. /\ \A i \in 1..Len(air) : Mine(i) /\ air[i].index = 0 => client.heard = 0
      /\ air # <<>> /\ Mine(1) => air[1].index = client.heard
      /\ \A i, j \in 1..Len(air) : i < j /\ Mine(i) /\ Mine(j) /\ air[j].index = 0 => Final(air[i])
      /\ WorksForMe /\ (pc = "handle" \/ (pc # "wait" /\ answer.index = 0)) => Fresh
      /\ WorksForMe /\ pc \in {"check", "send"} /\ air = <<>> => client.heard = answer.index
      /\ WorksForMe /\ pc = "wait" /\ air = <<>> => client.heard = answer.index + 1
  BY <1>1, <1>2 DEF GapInv, HeardInv
<1>4. /\ \A i : Mine(i)' <=> Mine(i)
      /\ Fresh' <=> Fresh
  BY <1>1 DEF Mine, Fresh, Final
<1>5. SUFFICES /\ WorksForMe' /\ (pc' = "handle" \/ (pc' # "wait" /\ answer'.index = 0)) => Fresh
               /\ WorksForMe' /\ pc' \in {"check", "send"} /\ air = <<>> =>
                     client.heard = answer'.index
               /\ WorksForMe' /\ pc' = "wait" /\ air = <<>> => client.heard = answer'.index + 1
  BY <1>1, <1>3, <1>4 DEF HeardInv, Final
<1>6. CASE UNCHANGED <<pc, answer, stored, outcome>>
  BY <1>1, <1>3, <1>6 DEF WorksForMe, AtWork
<1>7. CASE pc' \in {"idle", "busy"}
  BY <1>7 DEF WorksForMe, AtWork
<1>8. CASE /\ TakeStore /\ outcome'.kind \in {"reply", "dispatch"}
           /\ pc' = "handle" \/ (pc' = "check" /\ answer'.index = 0)
  <2>1. SUFFICES ASSUME WorksForMe' PROVE Fresh
    BY <1>8 DEF Fresh
  <2>2. ~Over(asked)
    BY <1>1, <1>8, <2>1, NotOver DEF WorksForMe
  <2>3. client.heard \in Nat /\ client.corr = asked
    BY DEF TypeInv, LinkTypeOK, ClientState, FirstInv
  <2>4. client.heard = 0
    BY <1>1, <1>2, <2>2, <2>3 DEF GapInv
  <2>5. \A i \in 1..Len(air) : Mine(i) => Final(air[i])
    BY <2>2, <2>3 DEF GapInv, Mine
  <2>6. QED
    BY <2>4, <2>5 DEF Fresh
<1>9. CASE pc = "handle" /\ pc' = "check" /\ UNCHANGED outcome /\ answer'.index = 0
  <2>1. WorksForMe' => WorksForMe
    BY <1>1, <1>9 DEF WorksForMe, AtWork
  <2>2. QED
    BY <1>3, <1>9, <2>1 DEF Fresh
<1>10. CASE pc = "check" /\ pc' = "send" /\ UNCHANGED <<answer, stored, outcome>>
  <2>1. WorksForMe' => WorksForMe
    BY <1>1, <1>10 DEF WorksForMe, AtWork
  <2>2. QED
    BY <1>3, <1>10, <2>1
<1>11. CASE Send /\ up
  <2>1. air' = Append(air, Sending)
    BY <1>11 DEF Send, Sending
  <2>2. Len(air') = Len(air) + 1 /\ Len(air) \in Nat
    BY <1>11, <2>1, AirJoined, AirTyped
  <2>3. QED
    BY <2>2
<1>12. CASE /\ pc = "wait" /\ pc' = "check" /\ UNCHANGED outcome
            /\ answer' = [answer EXCEPT !.index = answer.index + 1]
  <2>1. WorksForMe' => WorksForMe
    BY <1>1, <1>12 DEF WorksForMe, AtWork
  <2>2. answer'.index = answer.index + 1 /\ answer.index \in Nat
    BY <1>12, AirTyped DEF Response
  <2>3. QED
    BY <1>3, <1>12, <2>1, <2>2
<1>13. QED
  BY <1>6, <1>7, <1>8, <1>9, <1>10, <1>11, <1>12, WorkMoves

(* The controller sends a frame.                                           *)
LEMMA HeardSent ==
    ASSUME TypeInv, HeardInv, HearsNothing, up' => up,
           Send, up, air' = Append(air, Sending)
    PROVE  HeardInv'
<1>1. /\ client'.corr = client.corr /\ client'.heard = client.heard /\ (Asking' <=> Asking)
  BY DEF HearsNothing, Asking
<1>2. pc = "send" /\ pc' = "wait"
  BY DEF Send
<1>3. /\ Len(air') = Len(air) + 1 /\ Len(air') # 0 /\ air' # <<>>
      /\ air'[Len(air')] = Sending
      /\ \A i \in 1..Len(air) : air'[i] = air[i]
      /\ \A i \in 1..Len(air') : i \in 1..Len(air) \/ i = Len(air')
      /\ Sending.corr = outcome.corr /\ Sending.index = answer.index
      /\ Len(air) \in Nat /\ (air # <<>> <=> Len(air) # 0)
  BY AirJoined, AirTyped
<1>4. SUFFICES ASSUME up', Asking' PROVE HeardInv'
  BY DEF HeardInv
<1>5. /\ \A i \in 1..Len(air) : Mine(i) /\ air[i].index = 0 => client.heard = 0
      /\ air # <<>> /\ Mine(1) => air[1].index = client.heard
      /\ \A i, j \in 1..Len(air) : i < j /\ Mine(i) /\ Mine(j) /\ air[j].index = 0 => Final(air[i])
      /\ WorksForMe /\ answer.index = 0 => Fresh
      /\ WorksForMe /\ air = <<>> => client.heard = answer.index
  BY <1>1, <1>2, <1>4 DEF HeardInv
<1>6. /\ \A i \in 1..Len(air) : Mine(i)' <=> Mine(i)
      /\ Mine(Len(air))' => WorksForMe
  BY <1>1, <1>2, <1>3 DEF Mine, WorksForMe, AtWork
<1>7. ASSUME NEW i \in 1..Len(air'), Mine(i)', air'[i].index = 0 PROVE client'.heard = 0
  <2>1. CASE i \in 1..Len(air)
    BY <1>1, <1>3, <1>5, <1>6, <1>7, <2>1
  <2>2. CASE i = Len(air')
    BY <1>1, <1>3, <1>5, <1>6, <1>7, <2>2 DEF Fresh
  <2>3. QED
    BY <1>3, <2>1, <2>2
<1>8. ASSUME Mine(1)' PROVE air'[1].index = client'.heard
  <2>1. CASE air # <<>>
    <3>1. 1 \in 1..Len(air)
      BY <1>3, <2>1
    <3>2. QED
      BY <1>1, <1>3, <1>5, <1>6, <1>8, <2>1, <3>1
  <2>2. CASE air = <<>>
    <3>1. Len(air') = 1
      BY <1>3, <2>2
    <3>2. QED
      BY <1>1, <1>3, <1>5, <1>6, <1>8, <2>2, <3>1
  <2>3. QED
    BY <2>1, <2>2
<1>9. ASSUME NEW i \in 1..Len(air'), NEW j \in 1..Len(air'),
             i < j, Mine(i)', Mine(j)', air'[j].index = 0
      PROVE  Final(air'[i])
  <2>1. i \in 1..Len(air) /\ air'[i] = air[i] /\ Mine(i)
    BY <1>3, <1>6, <1>9
  <2>2. CASE j \in 1..Len(air)
    BY <1>3, <1>5, <1>6, <1>9, <2>1, <2>2
  <2>3. CASE j = Len(air')
    <3>1. WorksForMe /\ answer.index = 0
      BY <1>3, <1>6, <1>9, <2>3
    <3>2. QED
      BY <1>5, <2>1, <3>1 DEF Fresh
  <2>4. QED
    BY <1>3, <2>2, <2>3
<1>10. QED
  BY <1>2, <1>3, <1>7, <1>8, <1>9 DEF HeardInv

LEMMA GapStep ==
    ASSUME TypeInv, TypeInv', LinkInv, FrameInv, DoneInv, FirstInv, AnswerInv, ChainInv, GapInv,
           [Next]_vars
    PROVE  GapInv'
<1>1. conn \in Nat /\ conn' \in Nat /\ asked \in Nat
  <2>1. conn \in 0..MaxConn /\ asked \in 0..MaxAsk
    BY DEF TypeInv, LinkTypeOK
  <2>2. conn' \in 0..MaxConn
    BY DEF TypeInv, LinkTypeOK
  <2>3. QED
    BY <2>1, <2>2, Bounds
<1>2. SUFFICES ASSUME conn' = 1
               PROVE  /\ \A i \in 1..Len(air') : ~Final(air'[i]) => Over(air[i].corr)'
                      /\ Asking' /\ client'.heard > 0 => Over(asked)'
                      /\ ~client'.missed => client'.answer # "gap" /\ HeardInv'
  BY DEF GapInv, Final
<1>3. \A n : Over(n) => Over(n)'
  BY FramesStep
<1>4. CASE Connect
  <2>1. conn = 0 /\ client' = NoClient /\ UNCHANGED air /\ ~up
    BY <1>1, <1>2, <1>4 DEF Connect
  <2>2. air = <<>> /\ ~Asking'
    BY <2>1 DEF LinkInv, Asking, NoClient
  <2>3. QED
    BY <2>1, <2>2 DEF HeardInv, NoClient
<1>5. CASE conn = 1
  <2>1. /\ client.corr = asked
        /\ AtWork => outcome.corr \in 1..asked
        /\ Dispatched => outcome.corr = Completes(outcome.body)
        /\ \A i \in 1..Len(air) : air[i].corr \in 1..asked
    BY <1>5 DEF FirstInv
  <2>2. /\ \A i \in 1..Len(air) : ~Final(air[i]) => Over(air[i].corr)
        /\ Asking /\ client.heard > 0 => Over(asked)
        /\ ~client.missed => client.answer # "gap" /\ HeardInv /\ Chained
    BY <1>5 DEF GapInv, ChainInv, Whole
  <2>3. ASSUME NEW i \in 1..Len(air'), ~Final(air'[i]) PROVE Over(air[i].corr)'
    <3>1. PICK n : n = air'[i].corr
      OBVIOUS
    <3>2. Over(n)
      <4>1. CASE \E j \in 1..Len(air) : air'[i] = air[j]
        BY <2>2, <2>3, <3>1, <4>1
      <4>2. CASE Send /\ air'[i] = Sending
        <5>1. /\ n = outcome.corr /\ answer.index + 1 # answer.count /\ pc = "send"
          BY <2>3, <3>1, <4>2 DEF Send, Sending, Final
        <5>2. answer.status = "OK"
          BY <5>1, AirTyped DEF AnswerInv, Responding
        <5>3. Dispatched
          BY <5>1, <5>2 DEF TypeInv, PcInv, Dispatched
        <5>4. Over(Completes(outcome.body))
          BY <5>3 DEF DoneInv
        <5>5. QED
          BY <2>1, <5>1, <5>3, <5>4
      <4>3. QED
        BY <4>1, <4>2, AirKeeps
    <3>3. Over(n)'
      BY <1>3, <3>2
    <3>4. QED
      BY <3>1, <3>3
  <2>4. ASSUME Over(asked), UNCHANGED asked PROVE Over(asked)'
    <3>1. PICK n : n = asked
      OBVIOUS
    <3>2. Over(n)'
      BY <1>3, <2>4, <3>1
    <3>3. QED
      BY <2>4, <3>1, <3>2
  <2>5. CASE Hears /\ UNCHANGED asked
    <3>1. /\ ~client.missed => HeardInv' /\ client'.answer # "gap"
          /\ Asking' /\ client'.heard > 0 => Over(asked)
      BY <1>5, <2>5, HeardNext
    <3>2. QED
      BY <2>3, <2>4, <2>5, <3>1 DEF Hears
  <2>6. CASE HearsNothing /\ UNCHANGED asked /\ (up' => up)
    <3>1. client'.answer = client.answer /\ client'.heard = client.heard /\ (Asking' <=> Asking)
      BY <2>6 DEF HearsNothing, Asking
    <3>2. ASSUME ~client'.missed PROVE HeardInv' /\ ~client.missed
      <4> ~client.missed /\ HeardInv /\ Chained
        BY <2>2, <2>6, <3>2 DEF HearsNothing
      <4>1. CASE UNCHANGED air
        BY <1>5, <2>6, <4>1, HeardWork
      <4>2. CASE ~up'
        BY <4>2 DEF HeardInv
      <4>3. ASSUME NEW k \in 1..Len(air), Loses(k), (Receive /\ k = 1) \/ Fails(k)
            PROVE  HeardInv'
        <5>1. Fails(k) => ~Mine(k)
          BY <3>2, <4>3, LeavesAir
        <5>2. Receive /\ k = 1 => ~(Asking /\ Mine(k))
          BY <2>6 DEF HearsNothing, Mine
        <5>3. QED
          BY <2>6, <4>3, <5>1, <5>2, HeardElse
      <4>4. CASE Send /\ up /\ air' = Append(air, Sending)
        BY <2>6, <4>4, HeardSent
      <4>5. QED
        BY <4>1, <4>2, <4>3, <4>4, AirMoves
    <3>3. QED
      BY <2>2, <2>3, <2>4, <2>6, <3>1, <3>2
  <2>7. CASE /\ client'.corr = client.corr + 1 /\ client'.heard = 0 /\ client'.answer = "none"
             /\ UNCHANGED <<air, pc, outcome>>
    <3>1. \A i \in 1..Len(air') : ~Mine(i)'
      BY <1>1, <2>1, <2>7 DEF Mine
    <3>2. ~WorksForMe'
      BY <1>1, <2>1, <2>7 DEF WorksForMe, AtWork
    <3>3. air' # <<>> => 1 \in 1..Len(air')
      BY <2>7, AirTyped
    <3>4. HeardInv'
      BY <3>1, <3>2, <3>3 DEF HeardInv
    <3>5. QED
      BY <2>3, <2>7, <3>4
  <2>8. CASE Connect /\ conn' = conn + 1
    BY <1>2, <1>5, <2>8
  <2>9. QED
    BY <2>5, <2>6, <2>7, <2>8, ClientHears
<1>6. conn = 1 \/ Connect
  BY <1>2, ClientMoves
<1>7. QED
  BY <1>4, <1>5, <1>6

LEMMA AnswersInit == LinkInit => FirstInv /\ AnswerInv /\ ChainInv /\ OkInv /\ GapInv
<1> SUFFICES ASSUME LinkInit PROVE FirstInv /\ AnswerInv /\ ChainInv /\ OkInv /\ GapInv
  OBVIOUS
<1>1. /\ events = <<>> /\ queue = <<>> /\ air = <<>> /\ conn = 0 /\ pc = "idle" /\ asked = 0
      /\ Len(events) = 0 /\ Len(queue) = 0 /\ Len(air) = 0 /\ client.corr = 0 /\ ~Dispatched
  BY DEF LinkInit, Init, NoClient, Dropped, Dispatched
<1>2. AnswerInv /\ ChainInv /\ OkInv /\ GapInv
  BY <1>1 DEF AnswerInv, ChainInv, Whole, OkInv, GapInv, Responding
<1>3. FirstInv
  BY <1>1 DEF FirstInv, Travels, AtWork
<1>4. QED
  BY <1>2, <1>3
----------------------------------------------------------------------------
(* The theorems.                                                           *)

IInv ==
    /\ TypeInv /\ LinkInv /\ FitInv /\ CleanInv
    /\ FrameInv /\ DoneInv /\ OnceInOrder /\ MixInv
    /\ FirstInv /\ OkInv /\ AnswerInv /\ ChainInv /\ GapInv

LEMMA InitInv == LinkInit => IInv
<1> SUFFICES ASSUME LinkInit PROVE IInv
  OBVIOUS
<1>1. /\ events = <<>> /\ queue = <<>> /\ air = <<>> /\ stored = <<>> /\ played = <<>>
      /\ Len(<<>>) = 0 /\ outcome.kind = "dropped" /\ pc = "idle"
  BY DEF LinkInit, Init, Dropped
<1>2. LinkInv /\ FitInv /\ CleanInv
  BY <1>1 DEF LinkInit, NoAnswer, LinkInv, FitInv, MtuInv, FitsItsLink, CleanInv
<1>3. FrameInv
  BY <1>1 DEF FrameInv
<1>4. DoneInv
  BY <1>1 DEF DoneInv, Dispatched
<1>5. OnceInOrder
  BY <1>1 DEF OnceInOrder
<1>6. QED
  BY <1>2, <1>3, <1>4, <1>5, InitTypes, MixInit, AnswersInit DEF IInv

LEMMA StepInv == IInv /\ [Next]_vars => IInv'
<1> SUFFICES ASSUME IInv, [Next]_vars PROVE IInv'
  OBVIOUS
<1>1. /\ TypeInv /\ LinkInv /\ FitInv /\ CleanInv
      /\ FrameInv /\ DoneInv /\ OnceInOrder /\ MixInv
      /\ FirstInv /\ OkInv /\ AnswerInv /\ ChainInv /\ GapInv
  BY DEF IInv
<1>2. TypeInv'
  BY <1>1, TypeStep
<1>3. LinkInv' /\ FitInv' /\ CleanInv'
  BY <1>1, <1>2, LinkStep, FitStep, CleanStep
<1>4. FrameInv' /\ DoneInv' /\ OnceInOrder'
  BY <1>1, <1>2, FramesStep, DoneStep
<1>5. MixInv'
  BY <1>1, <1>2, MixStep
<1>6. FirstInv' /\ OkInv'
  BY <1>1, <1>2, FirstStep, OkStep
<1>7. AnswerInv' /\ ChainInv' /\ GapInv'
  BY <1>1, <1>2, AnswerStep, ChainStep, GapStep
<1>8. QED
  BY <1>2, <1>3, <1>4, <1>5, <1>6, <1>7 DEF IInv

(* The parts of the invariant hold in every state of the link.             *)
THEOREM Invariance == Spec => []IInv
BY InitInv, StepInv, PTL DEF Spec

(* Types, and the queue never holds more than it has room for              *)
(* (controller.c:583 and 611).                                             *)
THEOREM TypeCorrect == Spec => []LinkTypeOK
<1>1. IInv => LinkTypeOK
  BY DEF IInv, TypeInv
<1>2. QED
  BY <1>1, Invariance, PTL

(* A frame is never larger than the MTU of its link allows, except when an *)
(* answer begun in one connection goes on into the next (ble.c:680 and 740,*)
(* store.c:61).                                                            *)
THEOREM FramesFit == Spec => []FitsItsLink
<1>1. IInv => FitsItsLink
  BY DEF IInv, FitInv
<1>2. QED
  BY <1>1, Invariance, PTL

(* However commands are delayed, dropped, abandoned or overtaken by a new  *)
(* connection, no request is executed twice and none after a later one     *)
(* (controller.c:583 and 632, store.c:538-540).                            *)
THEOREM ExecutedOnceInOrder == Spec => []OnceInOrder
<1>1. IInv => OnceInOrder
  BY DEF IInv
<1>2. QED
  BY <1>1, Invariance, PTL

(* No reset command lost, the chunks of two requests never end up in one   *)
(* body, whatever else is dropped, delayed or abandoned: the next client   *)
(* may count its requests from one again and still does not inherit the    *)
(* transfer of the client before it (ble.c:737-743, controller.c:583 and   *)
(* 599-615, store.c:494-541).                                              *)
THEOREM MixesOnlyIfResetLost == Spec => []MixedOnlyIfResetLost
<1>1. IInv => MixedOnlyIfResetLost
  BY UnmixedUnlessLost DEF IInv
<1>2. QED
  BY <1>1, Invariance, PTL

(* A client that connects to a firmware just started and is answered OK for*)
(* its store request has had its own body stored (store.c:306-315 and      *)
(* 538-540).                                                               *)
THEOREM OkOfTheFirst == Spec => []FirstOkMeansStored
<1>1. IInv => FirstOkMeansStored
  BY DEF IInv, OkInv, FirstOkMeansStored
<1>2. QED
  BY <1>1, Invariance, PTL

(* And its answers reach it without a gap unless one of their own frames   *)
(* failed: the next is sent only when there was a CONF_EVT for the one     *)
(* before, and whatever else is abandoned, fails or is confirmed early, no *)
(* other answer comes between them (store.c:64-91, ble.c:682-691).         *)
THEOREM FirstWithoutGap == Spec => []FirstHasNoGap
<1>1. IInv => FirstHasNoGap
  BY DEF IInv, GapInv, FirstHasNoGap
<1>2. QED
  BY <1>1, Invariance, PTL
============================================================================
