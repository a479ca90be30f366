------------------------ MODULE CustomAnimation_proofs ------------------------
(***************************************************************************)
(* For every number of chunks, size of buffer, length of queue and set of  *)
(* ids: what is played is whole, in order, and of one transfer unless the  *)
(* start of a transfer was dropped.  And for every animation, calibration  *)
(* and curve, every tick and every delay below it: its playback keeps the  *)
(* servos in their range and reaches each keyframe in time.                *)
(***************************************************************************)
EXTENDS CustomAnimation, Playback, TLAPS

(* A client has begun the transfer it is sending.                          *)
SenderInv == /\ sender.next <= sender.count
             /\ sender.count > 0 => sender.of > 0

TypeInv == TypeOK /\ SenderInv

(* The buffer holds chunks 0, 1, ... of one id and count.                  *)
InPlace(b, id, count) ==
    \A j \in 1..Len(b) : b[j].index = j - 1 /\ b[j].id = id /\ b[j].count = count

(* As long as the registers accept chunks, they describe the buffer.       *)
BufferInv == regs.count # 0 => /\ regs.next \in 1..regs.count
                               /\ Len(buffer) = regs.next
                               /\ InPlace(buffer, regs.id, regs.count)

WholeInv == BufferInv /\ PlayedWhole /\ \A i \in 1..Len(played) : played[i] # <<>>

(* d was written after c, and if both are of one transfer, d has the higher*)
(* index; of such chunks, c comes first.                                   *)
Follows(c, d) == \/ c.of < d.of
                 \/ c.of = d.of /\ c.count = d.count /\ c.index < d.index

(* The chunk c has been written.                                           *)
Wrote(c) ==
    \/ c.of < sender.of
    \/ c.of = sender.of /\ c.count = sender.count /\ c.index < sender.next

LastOf(b) == b[Len(b)]

QueueOrder ==
    \A j \in 1..Len(queue) : WellFormed(queue[j]) =>
        /\ Wrote(queue[j])
        /\ \A i \in 1..j - 1 : WellFormed(queue[i]) => Follows(queue[i], queue[j])

PlayedFirst ==
    \A i \in 1..Len(played) :
        /\ Wrote(LastOf(played[i]))
        /\ \A j \in 1..Len(queue) : WellFormed(queue[j]) => Follows(LastOf(played[i]), queue[j])

OrderInv == QueueOrder /\ PlayedFirst /\ PlayedOnceInOrder

(* Chunk 0 of transfer tr was missed, or is queued before position j, or   *)
(* was processed: nothing but chunks of tr is queued before j, and the     *)
(* buffer is of tr if the registers accept chunks at all.                  *)
Begun(tr, j) ==
    \/ tr \in missed
    \/ \E i \in 1..j - 1 : WellFormed(queue[i]) /\ queue[i].of = tr /\ queue[i].index = 0
    \/ /\ \A i \in 1..j - 1 : WellFormed(queue[i]) => queue[i].of = tr
       /\ regs.count = 0 \/ LastOf(buffer).of = tr

(* Neighbours of two transfers: the later one's start was missed.          *)
Joined(b) ==
    \A j \in 1..Len(b) - 1 : b[j].of # b[j + 1].of => b[j + 1].of \in missed

ChunksBegun ==
    \A j \in 1..Len(queue) :
        WellFormed(queue[j]) /\ queue[j].index # 0 => Begun(queue[j].of, j)

SenderBegun == sender.next > 0 => Begun(sender.of, Len(queue) + 1)

MixedInv == /\ ChunksBegun /\ SenderBegun
            /\ regs.count # 0 => Joined(buffer)
            /\ MixedOnlyIfStartMissed

IInv == TypeInv /\ WholeInv /\ OrderInv /\ MixedInv
----------------------------------------------------------------------------
(* Sequences.                                                              *)

(* What a queue is once its first element is taken.                        *)
LEMMA TailOf ==
    ASSUME NEW S, NEW q \in Seq(S), q # <<>>
    PROVE  /\ Head(q) \in S /\ Head(q) = q[1] /\ 1 \in 1..Len(q)
           /\ Tail(q) \in Seq(S) /\ Len(Tail(q)) = Len(q) - 1
           /\ \A i \in 1..Len(Tail(q)) : i + 1 \in 1..Len(q) /\ Tail(q)[i] = q[i + 1]
OBVIOUS

(* What a queue or a buffer is once an element is appended to it.          *)
LEMMA AppendOf ==
    ASSUME NEW S, NEW q \in Seq(S), NEW e \in S
    PROVE  /\ Append(q, e) \in Seq(S) /\ Len(Append(q, e)) = Len(q) + 1
           /\ Append(q, e)[Len(q) + 1] = e
           /\ \A i \in 1..Len(q) : Append(q, e)[i] = q[i]
           /\ Len(q) \in Nat /\ Append(q, e) # <<>>
<1>1. /\ Append(q, e) \in Seq(S) /\ Len(Append(q, e)) = Len(q) + 1
      /\ Append(q, e)[Len(q) + 1] = e
      /\ Len(q) \in Nat
  OBVIOUS
<1>2. \A i \in 1..Len(q) : Append(q, e)[i] = q[i]
  OBVIOUS
<1>3. Append(q, e) # <<>>
  <2>1. Append(q, e) = <<>> => Len(Append(q, e)) = 0
    OBVIOUS
  <2>2. QED
    BY <1>1, <2>1
<1>4. QED
  BY <1>1, <1>2, <1>3
----------------------------------------------------------------------------
(* Types.                                                                  *)

LEMMA ChunkFields ==
    ASSUME NEW c \in Chunk
    PROVE  /\ c.id \in TransferId /\ c.index \in 0..MaxChunks /\ c.count \in 0..MaxChunks
           /\ c.size \in Nat /\ c.of \in 1..MaxTransfers
           /\ c.index \in Nat /\ c.count \in Nat /\ c.of \in Nat
<1>1. /\ c.id \in TransferId /\ c.index \in 0..MaxChunks /\ c.count \in 0..MaxChunks
      /\ c.size \in Sizes /\ c.of \in 1..MaxTransfers
  BY DEF Chunk
<1>2. c.size \in Nat
  BY <1>1, SizesAssumption
<1>3. c.index \in Nat /\ c.count \in Nat
  BY <1>1
<1>4. c.of \in Nat
  BY <1>1
<1>5. QED
  BY <1>1, <1>2, <1>3, <1>4

(* The chunk the client writes next.                                       *)
Sent(size) == [id |-> sender.id, index |-> sender.next, count |-> sender.count,
               size |-> size, of |-> sender.of]

LEMMA SentChunk ==
    ASSUME TypeInv, NEW size \in Sizes, sender.next < sender.count
    PROVE  /\ Sent(size) \in Chunk /\ WellFormed(Sent(size))
           /\ Sent(size).of = sender.of /\ Sent(size).count = sender.count
           /\ Sent(size).index = sender.next
<1>1. /\ sender.id \in TransferId /\ sender.next \in 0..MaxChunks
      /\ sender.count \in 0..MaxChunks /\ sender.of \in 0..MaxTransfers
  BY DEF TypeInv, TypeOK
<1>2. sender.count > 0 /\ sender.of \in 1..MaxTransfers
  BY <1>1, SizesAssumption DEF TypeInv, SenderInv
<1>3. QED
  BY <1>1, <1>2, SizesAssumption DEF Sent, Chunk, WellFormed

(* What the registers and the buffer are after a chunk was copied.         *)
LEMMA Copied ==
    ASSUME TypeInv, NEW c \in Chunk, KeepChunk(c)
    PROVE  /\ regs' \in Registers
           /\ regs'.id = c.id /\ regs'.count = c.count /\ regs'.next = c.index + 1
           /\ Kept(c) \in Seq(Chunk)
           /\ buffer' = Append(Kept(c), c)
<1>1. regs \in Registers /\ buffer \in Seq(Chunk)
  BY DEF TypeInv, TypeOK
<1>2. /\ WellFormed(c) /\ Fits(c)
      /\ c.index = 0 \/ (c.id = regs.id /\ c.count = regs.count /\ c.index = regs.next)
      /\ regs' = [Receiving(c) EXCEPT !.len = @ + c.size, !.next = @ + 1]
      /\ buffer' = Append(Kept(c), c)
  BY DEF KeepChunk, Matches
<1>3. /\ Receiving(c) \in Registers
      /\ Receiving(c).id = c.id /\ Receiving(c).count = c.count /\ Receiving(c).next = c.index
  BY <1>1, <1>2, ChunkFields, SizesAssumption DEF Receiving, Started, Registers
<1>4. c.index + 1 \in 0..MaxChunks
  BY <1>2, ChunkFields, SizesAssumption DEF WellFormed
<1>5. Receiving(c).len + c.size \in 0..Capacity
  BY <1>2, <1>3, ChunkFields, SizesAssumption DEF Fits, Registers
<1>6. Kept(c) \in Seq(Chunk)
  BY <1>1 DEF Kept
<1>7. QED
  BY <1>2, <1>3, <1>4, <1>5, <1>6 DEF Registers

(* What they are after any other chunk.                                    *)
LEMMA Refused ==
    ASSUME TypeInv, NEW c \in Chunk,
           IgnoreMalformed(c) \/ DropMismatch(c) \/ DropTooLarge(c)
    PROVE  /\ regs' \in Registers /\ buffer' \in Seq(Chunk)
           /\ UNCHANGED <<playing, played>>
           /\ \/ ~WellFormed(c) /\ UNCHANGED <<regs, buffer>>
              \/ WellFormed(c) /\ regs'.count = 0
<1>1. regs \in Registers /\ buffer \in Seq(Chunk)
  BY DEF TypeInv, TypeOK
<1>2. CASE IgnoreMalformed(c)
  BY <1>1, <1>2 DEF IgnoreMalformed
<1>3. CASE DropMismatch(c)
  BY <1>1, <1>3, SizesAssumption DEF DropMismatch, Registers
<1>4. CASE DropTooLarge(c)
  <2>1. Receiving(c) \in Registers
    BY <1>1, ChunkFields, SizesAssumption DEF Receiving, Started, Registers
  <2>2. Kept(c) \in Seq(Chunk)
    BY <1>1 DEF Kept
  <2>3. QED
    BY <1>4, <2>1, <2>2, SizesAssumption DEF DropTooLarge, Registers
<1>5. QED
  BY <1>2, <1>3, <1>4

(* The types, over one step.                                               *)
LEMMA TypeStep == TypeInv /\ [Next]_vars => TypeInv'
<1> SUFFICES ASSUME TypeInv, [Next]_vars PROVE TypeInv'
  OBVIOUS
<1> USE DEF TypeInv
<1>0. /\ sender \in [id : TransferId, count : 0..MaxChunks, next : 0..MaxChunks,
                     of : 0..MaxTransfers]
      /\ queue \in Seq(Chunk) /\ Len(queue) <= QueueLength /\ Len(queue) \in Nat
  BY DEF TypeOK
<1>1. ASSUME NEW id \in TransferId, NEW count \in 1..MaxChunks, Begin(id, count)
      PROVE  TypeInv'
  BY <1>0, <1>1, SizesAssumption DEF Begin, TypeOK, SenderInv
<1>2. ASSUME NEW size \in Sizes, Write(size)
      PROVE  TypeInv'
  <2>1. /\ Sent(size) \in Chunk /\ sender.next < sender.count
        /\ Sent(size).of = sender.of
    BY <1>2, SentChunk DEF Write
  <2>2. /\ sender' = [sender EXCEPT !.next = @ + 1]
        /\ UNCHANGED <<regs, buffer, playing, played>>
    BY <1>2 DEF Write
  <2>3. queue' \in Seq(Chunk) /\ Len(queue') <= QueueLength
    <3>1. CASE Len(queue) < QueueLength
      <4>1. queue' = Append(queue, Sent(size))
        BY <1>2, <3>1 DEF Write, Sent
      <4>2. QED
        BY <1>0, <2>1, <3>1, <4>1, AppendOf, SizesAssumption
    <3>2. CASE ~(Len(queue) < QueueLength)
      BY <1>0, <1>2, <3>2 DEF Write
    <3>3. QED
      BY <3>1, <3>2
  <2>4. missed' \subseteq 1..MaxTransfers
    BY <1>2, <2>1, ChunkFields DEF Write, Sent, TypeOK
  <2>5. sender' \in [id : TransferId, count : 0..MaxChunks, next : 0..MaxChunks,
                     of : 0..MaxTransfers]
        /\ SenderInv'
    BY <1>0, <2>1, <2>2, SizesAssumption DEF SenderInv
  <2>6. QED
    BY <2>2, <2>3, <2>4, <2>5 DEF TypeOK
<1>3. ASSUME NEW c \in Malformed, WriteMalformed(c)
      PROVE  TypeInv'
  <2>1. queue' \in Seq(Chunk) /\ Len(queue') <= QueueLength
    BY <1>0, <1>3, AppendOf, MalformedAssumption, SizesAssumption DEF WriteMalformed
  <2>2. QED
    BY <1>3, <2>1 DEF WriteMalformed, TypeOK, SenderInv
<1>4. ASSUME queue # <<>>, Process(Head(queue))
      PROVE  TypeInv'
  <2> DEFINE c == Head(queue)
  <2>1. c \in Chunk /\ queue' \in Seq(Chunk) /\ Len(queue') <= QueueLength
    <3>1. queue' = Tail(queue)
      BY <1>4 DEF Process, IgnoreMalformed, DropMismatch, DropTooLarge, KeepChunk, Take
    <3>2. QED
      BY <1>0, <1>4, <3>1, TailOf, SizesAssumption
  <2>2. UNCHANGED <<sender, missed>>
    BY <1>4 DEF Process, IgnoreMalformed, DropMismatch, DropTooLarge, KeepChunk, Take
  <2>3. CASE KeepChunk(c)
    <3>1. buffer' \in Seq(Chunk) /\ regs' \in Registers
      BY <2>1, <2>3, Copied, AppendOf
    <3>2. played' \in Seq(Seq(Chunk)) /\ playing' \in BOOLEAN
      <4>1. \/ UNCHANGED <<playing, played>>
            \/ playing' = TRUE /\ played' = Append(played, buffer')
        BY <2>3 DEF KeepChunk
      <4>2. played \in Seq(Seq(Chunk)) /\ playing \in BOOLEAN
        BY DEF TypeOK
      <4>3. playing' \in BOOLEAN
        BY <4>1, <4>2
      <4>4. played' \in Seq(Seq(Chunk))
        <5>1. Append(played, buffer') \in Seq(Seq(Chunk))
          BY <3>1, <4>2
        <5>2. QED
          BY <4>1, <4>2, <5>1
      <4>5. QED
        BY <4>3, <4>4
    <3>3. QED
      BY <2>1, <2>2, <3>1, <3>2 DEF TypeOK, SenderInv
  <2>4. CASE ~KeepChunk(c)
    BY <1>4, <2>1, <2>2, <2>4, Refused DEF Process, TypeOK, SenderInv
  <2>5. QED
    BY <2>3, <2>4
<1>5. CASE PlayEnds
  BY <1>5 DEF PlayEnds, TypeOK, SenderInv
<1>6. CASE UNCHANGED vars
  BY <1>6 DEF vars, TypeOK, SenderInv
<1>7. QED
  BY <1>1, <1>2, <1>3, <1>4, <1>5, <1>6 DEF Next

(* Init.                                                                   *)
LEMMA InitInv == Init => IInv
<1> SUFFICES ASSUME Init PROVE IInv
  OBVIOUS
<1>1. /\ regs = [id |-> 0, count |-> 0, next |-> 0, len |-> 0]
      /\ buffer = <<>> /\ queue = <<>> /\ played = <<>>
      /\ playing = FALSE /\ missed = {}
      /\ sender = [id |-> 0, count |-> 0, next |-> 0, of |-> 0]
  BY DEF Init
<1>2. TypeInv
  <2>1. regs \in Registers
    BY <1>1, SizesAssumption DEF Registers
  <2>2. playing \in BOOLEAN
    BY <1>1, Zenon
  <2>3. QED
    BY <1>1, <2>1, <2>2, SizesAssumption DEF TypeInv, TypeOK, SenderInv
<1>3. WholeInv
  BY <1>1 DEF WholeInv, BufferInv, PlayedWhole
<1>4. OrderInv
  BY <1>1 DEF OrderInv, QueueOrder, PlayedFirst, PlayedOnceInOrder
<1>5. MixedInv
  BY <1>1 DEF MixedInv, ChunksBegun, SenderBegun, MixedOnlyIfStartMissed
<1>6. QED
  BY <1>2, <1>3, <1>4, <1>5 DEF IInv

(* The registers of every client, whatever the others send, are well typed:*)
(* the index of a chunk never passes its count and the buffer never        *)
(* overflows (controller.c:135-169).                                       *)
THEOREM TypeCorrect == Spec => []TypeOK
<1>1. Init => TypeInv
  BY InitInv DEF IInv
<1>2. TypeInv /\ [Next]_vars => TypeInv'
  BY TypeStep
<1>3. TypeInv => TypeOK
  BY DEF TypeInv
<1>4. QED
  BY <1>1, <1>2, <1>3, PTL DEF Spec
----------------------------------------------------------------------------
(* Whole animations.                                                       *)

(* A copied chunk continues the buffer.                                    *)
LEMMA CopiedInPlace ==
    ASSUME TypeInv, BufferInv, NEW c \in Chunk, KeepChunk(c)
    PROVE  /\ regs'.next \in 1..regs'.count /\ Len(buffer') = regs'.next
           /\ InPlace(buffer', c.id, c.count)
           /\ buffer' \in Seq(Chunk) /\ LastOf(buffer') = c
           /\ regs'.count = c.count /\ regs'.next = c.index + 1
<1>1. /\ WellFormed(c)
      /\ c.index = 0 \/ (c.id = regs.id /\ c.count = regs.count /\ c.index = regs.next)
  BY DEF KeepChunk, Matches
<1>2. /\ c.index \in Nat /\ c.count \in Nat /\ c.index < c.count
  BY <1>1, ChunkFields DEF WellFormed
<1>3. /\ Kept(c) \in Seq(Chunk) /\ Len(Kept(c)) = c.index
      /\ InPlace(Kept(c), c.id, c.count)
  <2>1. CASE c.index = 0
    BY <2>1 DEF Kept, InPlace
  <2>2. CASE c.index # 0
    BY <1>1, <1>2, <2>2 DEF Kept, BufferInv, TypeInv, TypeOK
  <2>3. QED
    BY <2>1, <2>2
<1>4. /\ regs'.next = c.index + 1 /\ regs'.count = c.count
      /\ buffer' = Append(Kept(c), c)
  BY Copied
<1>5. /\ buffer' \in Seq(Chunk) /\ Len(buffer') = c.index + 1 /\ buffer'[c.index + 1] = c
      /\ \A i \in 1..c.index : buffer'[i] = Kept(c)[i]
  BY <1>3, <1>4, AppendOf
<1>6. InPlace(buffer', c.id, c.count)
  <2>1. ASSUME NEW j \in 1..Len(buffer')
        PROVE  buffer'[j].index = j - 1 /\ buffer'[j].id = c.id /\ buffer'[j].count = c.count
    <3>1. CASE j = c.index + 1
      BY <1>2, <1>5, <3>1
    <3>2. CASE j # c.index + 1
      <4>1. j \in 1..c.index
        BY <1>2, <1>5, <2>1, <3>2
      <4>2. QED
        BY <1>3, <1>5, <4>1 DEF InPlace
    <3>3. QED
      BY <3>1, <3>2
  <2>2. QED
    BY <2>1 DEF InPlace
<1>7. QED
  BY <1>2, <1>4, <1>5, <1>6 DEF LastOf

(* What a step can do to the buffer and to what has been played: nothing,  *)
(* or it takes a chunk from the queue, and refuses it or copies it.        *)
LEMMA StepCases ==
    ASSUME TypeInv, [Next]_vars
    PROVE  \/ UNCHANGED <<regs, buffer, played>>
           \/ /\ queue # <<>> /\ Head(queue) \in Chunk
              /\ \/ KeepChunk(Head(queue))
                 \/ UNCHANGED played /\ regs'.count = 0
<1>1. ASSUME queue # <<>>, Process(Head(queue))
      PROVE  \/ UNCHANGED <<regs, buffer, played>>
             \/ /\ Head(queue) \in Chunk
                /\ \/ KeepChunk(Head(queue))
                   \/ UNCHANGED played /\ regs'.count = 0
  <2>1. Head(queue) \in Chunk
    BY <1>1, TailOf DEF TypeInv, TypeOK
  <2>2. QED
    BY <1>1, <2>1, Refused DEF Process
<1>2. CASE UNCHANGED vars
  BY <1>2 DEF vars
<1>3. CASE PlayEnds
  BY <1>3 DEF PlayEnds
<1>4. QED
  BY <1>1, <1>2, <1>3 DEF Next, Begin, Write, WriteMalformed

LEMMA WholeStep == TypeInv /\ WholeInv /\ [Next]_vars => WholeInv'
<1> SUFFICES ASSUME TypeInv, WholeInv, [Next]_vars PROVE WholeInv'
  OBVIOUS
<1>1. CASE UNCHANGED <<regs, buffer, played>>
  BY <1>1 DEF WholeInv, BufferInv, InPlace, PlayedWhole
<1>2. CASE UNCHANGED played /\ regs'.count = 0
  BY <1>2 DEF WholeInv, BufferInv, PlayedWhole
<1>3. ASSUME NEW c \in Chunk, KeepChunk(c)
      PROVE  WholeInv'
  <2>1. /\ regs'.next \in 1..regs'.count /\ Len(buffer') = regs'.next
        /\ InPlace(buffer', c.id, c.count) /\ buffer' \in Seq(Chunk)
        /\ regs'.count = c.count /\ regs'.id = c.id
    BY <1>3, CopiedInPlace, Copied DEF WholeInv
  <2>2. BufferInv'
    BY <2>1 DEF BufferInv, InPlace
  <2>3. CASE UNCHANGED played
    BY <2>2, <2>3 DEF WholeInv, PlayedWhole
  <2>4. CASE regs'.next >= regs'.count /\ played' = Append(played, buffer')
    <3>1. Len(buffer') = c.count /\ c.count \in Nat \ {0}
      BY <2>1, <2>4, ChunkFields
    <3>2. /\ buffer'[1].count = c.count /\ buffer'[1].id = c.id
          /\ \A j \in 1..Len(buffer') : /\ buffer'[j].index = j - 1
                                         /\ buffer'[j].id = c.id /\ buffer'[j].count = c.count
      BY <2>1, <3>1 DEF InPlace
    <3>3. /\ Len(played') = Len(played) + 1 /\ played'[Len(played) + 1] = buffer'
          /\ \A i \in 1..Len(played) : played'[i] = played[i]
          /\ Len(played) \in Nat
      BY <2>1, <2>4 DEF TypeInv, TypeOK
    <3>4. buffer' # <<>>
      BY <3>1
    <3>5. ASSUME NEW i \in 1..Len(played')
          PROVE  i \in 1..Len(played) \/ i = Len(played) + 1
      BY <3>3
    <3>6. PlayedWhole'
      BY <3>1, <3>2, <3>3, <3>5 DEF WholeInv, PlayedWhole
    <3>7. QED
      BY <2>2, <3>3, <3>4, <3>5, <3>6 DEF WholeInv
  <2>5. QED
    BY <1>3, <2>3, <2>4 DEF KeepChunk
<1>4. QED
  BY <1>1, <1>2, <1>3, StepCases

(* What is played is whole (controller.c:130-180).                         *)
THEOREM PlaysWhole == Spec => []PlayedWhole
<1>1. Init => TypeInv /\ WholeInv
  BY InitInv DEF IInv
<1>2. TypeInv /\ WholeInv /\ [Next]_vars => TypeInv' /\ WholeInv'
  BY TypeStep, WholeStep
<1>3. WholeInv => PlayedWhole
  BY DEF WholeInv
<1>4. QED
  BY <1>1, <1>2, <1>3, PTL DEF Spec
----------------------------------------------------------------------------
(* Transfers in order.                                                     *)

(* The sender only goes forward.                                           *)
LEMMA WrittenStays ==
    ASSUME TypeInv, NEW c \in Chunk, Wrote(c),
           \/ sender' = sender
           \/ sender' = [sender EXCEPT !.next = @ + 1]
           \/ sender'.of = sender.of + 1
    PROVE  Wrote(c)'
<1>1. /\ sender.next \in Nat /\ sender.of \in Nat /\ c.of \in Nat /\ c.index \in Nat
  BY ChunkFields, SizesAssumption DEF TypeInv, TypeOK
<1>2. CASE sender' = [sender EXCEPT !.next = @ + 1]
  <2>1. sender'.next = sender.next + 1 /\ sender'.of = sender.of /\ sender'.count = sender.count
    BY <1>2 DEF TypeInv, TypeOK
  <2>2. QED
    BY <1>1, <2>1 DEF Wrote
<1>3. QED
  BY <1>1, <1>2 DEF Wrote

(* What has been written comes before what the client writes next, which   *)
(* then counts as written too.                                             *)
LEMMA SentFollows ==
    ASSUME TypeInv, NEW size \in Sizes, sender.next < sender.count
    PROVE  /\ \A c \in Chunk : Wrote(c) => Follows(c, Sent(size))
           /\ sender' = [sender EXCEPT !.next = @ + 1]
                => \A c \in Chunk : c = Sent(size) => Wrote(c)'
<1>1. /\ Sent(size).of = sender.of /\ Sent(size).count = sender.count
      /\ Sent(size).index = sender.next
  BY SentChunk
<1>2. ASSUME NEW c \in Chunk, Wrote(c)
      PROVE  Follows(c, Sent(size))
  BY <1>1, <1>2 DEF Wrote, Follows
<1>3. ASSUME sender' = [sender EXCEPT !.next = @ + 1], NEW c \in Chunk, c = Sent(size)
      PROVE  Wrote(c)'
  <2>1. /\ sender'.next = sender.next + 1 /\ sender'.of = sender.of /\ sender'.count = sender.count
        /\ sender.next \in Nat
        /\ sender'.id = sender.id
    BY <1>3, SizesAssumption DEF TypeInv, TypeOK
  <2>2. QED
    BY <1>1, <1>3, <2>1 DEF Wrote
<1>4. QED
  BY <1>2, <1>3

(* The last chunk of an animation that was played is its highest.          *)
LEMMA LastPlayed ==
    ASSUME TypeInv, WholeInv, NEW i \in 1..Len(played)
    PROVE  /\ LastOf(played[i]) \in Chunk
           /\ LastOf(played[i]).index = LastOf(played[i]).count - 1
<1>1. played[i] \in Seq(Chunk) /\ played[i] # <<>>
  BY DEF TypeInv, TypeOK, WholeInv
<1>2. Len(played[i]) \in Nat /\ Len(played[i]) \in 1..Len(played[i])
  BY <1>1
<1>3. LastOf(played[i]) \in Chunk
  BY <1>1, <1>2 DEF LastOf
<1>4. QED
  BY <1>2, <1>3 DEF WholeInv, PlayedWhole, LastOf

(* A chunk is appended to the queue and follows all that was written.      *)
LEMMA QueuedInOrder ==
    ASSUME TypeInv, WholeInv, OrderInv, NEW c \in Chunk,
           queue' = Append(queue, c), UNCHANGED played,
           \A d \in Chunk : Wrote(d) => Wrote(d)',
           WellFormed(c) => Wrote(c)' /\ \A d \in Chunk : Wrote(d) => Follows(d, c)
    PROVE  OrderInv'
<1>1. queue \in Seq(Chunk)
  BY DEF TypeInv, TypeOK
<1>2. /\ Len(queue) \in Nat /\ Len(queue') = Len(queue) + 1 /\ queue'[Len(queue) + 1] = c
      /\ \A j \in 1..Len(queue) : queue'[j] = queue[j] /\ queue[j] \in Chunk
  BY <1>1, AppendOf
<1>3. \A j \in 1..Len(queue') : j \in 1..Len(queue) \/ j = Len(queue) + 1
  BY <1>2
<1>4. QueueOrder'
  <2>1. ASSUME NEW j \in 1..Len(queue'), WellFormed(queue'[j]), NEW d \in Chunk, d = queue'[j]
        PROVE  /\ Wrote(d)'
               /\ \A i \in 1..j - 1 : WellFormed(queue'[i]) => Follows(queue'[i], d)
    <3>1. CASE j \in 1..Len(queue)
      <4>1. \A i \in 1..j - 1 : i \in 1..Len(queue) /\ queue'[i] = queue[i]
        BY <1>2, <3>1
      <4>2. /\ d = queue[j] /\ Wrote(d)
            /\ \A i \in 1..j - 1 : WellFormed(queue[i]) => Follows(queue[i], d)
        BY <1>2, <2>1, <3>1 DEF OrderInv, QueueOrder
      <4>3. QED
        BY <4>1, <4>2 DEF Wrote
    <3>2. CASE j = Len(queue) + 1
      <4>1. d = c
        BY <1>2, <2>1, <3>2
      <4>2. ASSUME NEW i \in 1..j - 1, WellFormed(queue'[i])
            PROVE  Follows(queue'[i], d)
        <5>1. i \in 1..Len(queue) /\ queue'[i] = queue[i] /\ queue[i] \in Chunk
          BY <1>2, <3>2
        <5>2. Wrote(queue[i])
          BY <4>2, <5>1 DEF OrderInv, QueueOrder
        <5>3. QED
          BY <2>1, <4>1, <5>1, <5>2
      <4>3. QED
        BY <2>1, <4>1, <4>2 DEF Wrote
    <3>3. QED
      BY <1>3, <3>1, <3>2
  <2>2. \A j \in 1..Len(queue') : queue'[j] \in Chunk
    BY <1>2, <1>3
  <2>3. QED
    BY <2>1, <2>2 DEF QueueOrder, Wrote
<1>5. PlayedFirst'
  <2>1. ASSUME NEW i \in 1..Len(played)
        PROVE  /\ LastOf(played[i]) \in Chunk /\ Wrote(LastOf(played[i]))
               /\ \A j \in 1..Len(queue) : WellFormed(queue[j]) => Follows(LastOf(played[i]), queue[j])
    BY <2>1, LastPlayed DEF OrderInv, PlayedFirst
  <2>2. ASSUME NEW i \in 1..Len(played), NEW d \in Chunk, d = LastOf(played[i])
        PROVE  /\ Wrote(d)'
               /\ \A j \in 1..Len(queue') : WellFormed(queue'[j]) => Follows(d, queue'[j])
    BY <1>2, <1>3, <2>1, <2>2 DEF Wrote
  <2>3. QED
    BY <2>1, <2>2 DEF PlayedFirst, LastOf, Wrote
<1>6. QED
  BY <1>4, <1>5 DEF OrderInv, PlayedOnceInOrder

(* The chunk in front is taken.                                            *)
LEMMA TakenInOrder ==
    ASSUME TypeInv, WholeInv, OrderInv, queue # <<>>, queue' = Tail(queue), UNCHANGED sender,
           \/ UNCHANGED played
           \/ /\ WellFormed(Head(queue))
              /\ played' = Append(played, buffer')
              /\ buffer' \in Seq(Chunk) /\ LastOf(buffer') = Head(queue)
    PROVE  OrderInv'
<1> DEFINE c == Head(queue)
<1>1. queue \in Seq(Chunk) /\ played \in Seq(Seq(Chunk))
  BY DEF TypeInv, TypeOK
<1>2. /\ c \in Chunk /\ c = queue[1] /\ 1 \in 1..Len(queue) /\ Len(queue) \in Nat
      /\ Len(queue') = Len(queue) - 1
      /\ \A j \in 1..Len(queue') : j + 1 \in 1..Len(queue) /\ queue'[j] = queue[j + 1]
  BY <1>1, TailOf
<1> HIDE DEF c
<1>3. QueueOrder'
  <2>1. ASSUME NEW j \in 1..Len(queue'), WellFormed(queue'[j])
        PROVE  /\ Wrote(queue'[j])
               /\ \A i \in 1..j - 1 : WellFormed(queue'[i]) => Follows(queue'[i], queue'[j])
    <3>1. j + 1 \in 1..Len(queue) /\ queue'[j] = queue[j + 1]
      BY <1>2
    <3>2. \A i \in 1..j - 1 : /\ i \in 1..Len(queue') /\ i + 1 \in 1..(j + 1) - 1
                             /\ queue'[i] = queue[i + 1]
      BY <1>2
    <3>3. QED
      BY <2>1, <3>1, <3>2 DEF OrderInv, QueueOrder
  <2>2. QED
    BY <2>1 DEF QueueOrder, WellFormed, Follows, Wrote
<1>4. \A j \in 1..Len(queue') : WellFormed(c) /\ WellFormed(queue'[j]) => Follows(c, queue'[j])
  <2>1. ASSUME NEW j \in 1..Len(queue')
        PROVE  j + 1 \in 1..Len(queue) /\ queue'[j] = queue[j + 1] /\ 1 \in 1..(j + 1) - 1
    BY <1>2
  <2>2. QED
    BY <1>2, <2>1 DEF OrderInv, QueueOrder
<1>5. ASSUME NEW i \in 1..Len(played)
      PROVE  /\ Wrote(LastOf(played[i]))
             /\ \A j \in 1..Len(queue') : WellFormed(queue'[j]) => Follows(LastOf(played[i]), queue'[j])
  BY <1>2 DEF OrderInv, PlayedFirst
<1>6. CASE UNCHANGED played
  BY <1>3, <1>5, <1>6 DEF OrderInv, PlayedFirst, PlayedOnceInOrder, LastOf, WellFormed, Follows, Wrote
<1>7. CASE /\ WellFormed(c) /\ played' = Append(played, buffer')
           /\ buffer' \in Seq(Chunk) /\ LastOf(buffer') = c
  <2>1. /\ Len(played) \in Nat /\ Len(played') = Len(played) + 1
        /\ played'[Len(played) + 1] = buffer'
        /\ \A i \in 1..Len(played) : played'[i] = played[i]
    BY <1>1, <1>7
  <2>2. \A i \in 1..Len(played') : i \in 1..Len(played) \/ i = Len(played) + 1
    BY <2>1
  <2>3. Wrote(c)
    BY <1>2, <1>7 DEF OrderInv, QueueOrder
  <2>4. ASSUME NEW i \in 1..Len(played')
        PROVE  /\ Wrote(LastOf(played'[i]))
               /\ \A j \in 1..Len(queue') : WellFormed(queue'[j]) => Follows(LastOf(played'[i]), queue'[j])
    <3>1. CASE i \in 1..Len(played)
      BY <1>5, <2>1, <3>1
    <3>2. CASE i = Len(played) + 1
      BY <1>4, <1>7, <2>1, <2>3, <3>2
    <3>3. QED
      BY <2>2, <3>1, <3>2
  <2>5. PlayedFirst'
    BY <2>4 DEF PlayedFirst, LastOf, WellFormed, Follows, Wrote
  <2>6. ASSUME NEW i \in 1..Len(played)
        PROVE  LastOf(played[i]).of < c.of
    <3>1. Follows(LastOf(played[i]), c)
      BY <1>2, <1>7 DEF OrderInv, PlayedFirst
    <3>2. c.index < c.count /\ c.index \in Nat /\ c.count \in Nat
      BY <1>2, <1>7, ChunkFields DEF WellFormed
    <3>3. QED
      BY <3>1, <3>2, LastPlayed, ChunkFields DEF Follows
  <2>7. PlayedOnceInOrder'
    <3>1. ASSUME NEW i \in 1..Len(played'), NEW j \in 1..Len(played'), i < j
          PROVE  LastOf(played'[i]).of < LastOf(played'[j]).of
      <4>1. i \in 1..Len(played)
        BY <2>1, <3>1
      <4>2. CASE j \in 1..Len(played)
        BY <2>1, <3>1, <4>1, <4>2 DEF OrderInv, PlayedOnceInOrder, LastOf
      <4>3. CASE j = Len(played) + 1
        BY <1>7, <2>1, <2>6, <4>1, <4>3
      <4>4. QED
        BY <2>2, <4>2, <4>3
    <3>2. QED
      BY <3>1 DEF PlayedOnceInOrder, LastOf
  <2>8. QED
    BY <1>3, <2>5, <2>7 DEF OrderInv
<1>8. QED
  BY <1>6, <1>7 DEF c

(* The queue and what was played stay, and the sender goes forward.        *)
LEMMA SenderMoves ==
    ASSUME TypeInv, WholeInv, OrderInv, UNCHANGED <<queue, played>>,
           \A d \in Chunk : Wrote(d) => Wrote(d)'
    PROVE  OrderInv'
<1>1. \A j \in 1..Len(queue) : queue[j] \in Chunk
  BY DEF TypeInv, TypeOK
<1>2. QueueOrder'
  BY <1>1 DEF OrderInv, QueueOrder, Wrote
<1>3. PlayedFirst'
  BY LastPlayed DEF OrderInv, PlayedFirst, Wrote, LastOf
<1>4. QED
  BY <1>2, <1>3 DEF OrderInv, PlayedOnceInOrder

LEMMA OrderStep == TypeInv /\ WholeInv /\ OrderInv /\ [Next]_vars => OrderInv'
<1> SUFFICES ASSUME TypeInv, WholeInv, OrderInv, [Next]_vars PROVE OrderInv'
  OBVIOUS
<1>1. ASSUME NEW id \in TransferId, NEW count \in 1..MaxChunks, Begin(id, count)
      PROVE  OrderInv'
  <2>1. sender'.of = sender.of + 1 /\ UNCHANGED <<queue, played>>
    BY <1>1 DEF Begin
  <2>2. \A d \in Chunk : Wrote(d) => Wrote(d)'
    BY <2>1, WrittenStays DEF Wrote
  <2>3. QED
    BY <2>1, <2>2, SenderMoves
<1>2. ASSUME NEW size \in Sizes, Write(size)
      PROVE  OrderInv'
  <2>1. /\ sender.next < sender.count /\ UNCHANGED played
        /\ sender' = [sender EXCEPT !.next = @ + 1]
        /\ queue' = Append(queue, Sent(size)) \/ UNCHANGED queue
    BY <1>2 DEF Write, Sent
  <2>2. \A d \in Chunk : Wrote(d) => Wrote(d)'
    BY <2>1, WrittenStays DEF Wrote
  <2>3. CASE UNCHANGED queue
    BY <2>1, <2>2, <2>3, SenderMoves
  <2>4. CASE queue' = Append(queue, Sent(size))
    <3>1. PICK c \in Chunk : c = Sent(size)
      BY <2>1, SentChunk
    <3>2. \A d \in Chunk : Wrote(d) => Follows(d, c)
      BY <2>1, <3>1, SentFollows
    <3>3. Wrote(c)'
      BY <2>1, <3>1, SentFollows DEF Wrote
    <3>4. QED
      BY <2>1, <2>2, <2>4, <3>1, <3>2, <3>3, QueuedInOrder
  <2>5. QED
    BY <2>1, <2>3, <2>4
<1>3. ASSUME NEW c \in Malformed, WriteMalformed(c)
      PROVE  OrderInv'
  <2>1. c \in Chunk /\ ~WellFormed(c)
    BY MalformedAssumption, ChunkFields DEF WellFormed
  <2>2. queue' = Append(queue, c) /\ UNCHANGED <<played, sender>>
    BY <1>3 DEF WriteMalformed
  <2>3. \A d \in Chunk : Wrote(d) => Wrote(d)'
    BY <2>2 DEF Wrote
  <2>4. QED
    BY <2>1, <2>2, <2>3, QueuedInOrder
<1>4. ASSUME queue # <<>>, Process(Head(queue))
      PROVE  OrderInv'
  <2>1. Head(queue) \in Chunk
    BY <1>4, TailOf DEF TypeInv, TypeOK
  <2>2. queue' = Tail(queue) /\ UNCHANGED sender
    BY <1>4 DEF Process, IgnoreMalformed, DropMismatch, DropTooLarge, KeepChunk, Take
  <2>3. CASE UNCHANGED played
    BY <1>4, <2>2, <2>3, TakenInOrder
  <2>4. CASE /\ KeepChunk(Head(queue)) /\ played' = Append(played, buffer')
    <3>1. WellFormed(Head(queue))
      BY <2>4 DEF KeepChunk
    <3>2. buffer' \in Seq(Chunk) /\ LastOf(buffer') = Head(queue)
      BY <2>1, <2>4, CopiedInPlace DEF WholeInv
    <3>3. QED
      BY <1>4, <2>2, <2>4, <3>1, <3>2, TakenInOrder
  <2>5. QED
    BY <1>4, <2>3, <2>4 DEF Process, IgnoreMalformed, DropMismatch, DropTooLarge, KeepChunk
<1>5. CASE PlayEnds \/ UNCHANGED vars
  <2>1. UNCHANGED <<queue, played, sender>>
    BY <1>5 DEF PlayEnds, vars
  <2>2. QED
    BY <2>1, SenderMoves DEF Wrote
<1>6. QED
  BY <1>1, <1>2, <1>3, <1>4, <1>5 DEF Next

(* No transfer is played twice, and none after a later one: the registers a*)
(* finished transfer leaves behind take no further chunk                   *)
(* (controller.c:173-181).                                                 *)
THEOREM PlaysOnceInOrder == Spec => []PlayedOnceInOrder
<1>1. Init => TypeInv /\ WholeInv /\ OrderInv
  BY InitInv DEF IInv
<1>2. TypeInv /\ WholeInv /\ OrderInv /\ [Next]_vars => TypeInv' /\ WholeInv' /\ OrderInv'
  BY TypeStep, WholeStep, OrderStep
<1>3. OrderInv => PlayedOnceInOrder
  BY DEF OrderInv
<1>4. QED
  BY <1>1, <1>2, <1>3, PTL DEF Spec
----------------------------------------------------------------------------
(* Animations made of one transfer.                                        *)

(* A chunk is appended to the queue: nothing that had begun before is      *)
(* disturbed by a chunk behind it, and the chunk's own transfer has begun, *)
(* or it begins with it.                                                   *)
LEMMA QueuedBegun ==
    ASSUME TypeInv, NEW c \in Chunk, queue' = Append(queue, c),
           UNCHANGED <<regs, buffer>>, missed \subseteq missed',
           NEW tr, NEW j \in 1..Len(queue) + 1, Begun(tr, j)
    PROVE  Begun(tr, j)'
<1>1. queue \in Seq(Chunk)
  BY DEF TypeInv, TypeOK
<1>2. \A i \in 1..j - 1 : i \in 1..Len(queue) /\ queue'[i] = queue[i]
  BY <1>1, AppendOf
<1>3. QED
  BY <1>2 DEF Begun, LastOf

LEMMA BegunWith ==
    ASSUME TypeInv, NEW c \in Chunk, queue' = Append(queue, c),
           UNCHANGED <<regs, buffer, missed>>, NEW tr,
           \/ WellFormed(c) /\ c.of = tr /\ c.index = 0
           \/ Begun(tr, Len(queue) + 1) /\ (WellFormed(c) => c.of = tr)
    PROVE  Begun(tr, Len(queue) + 1)'
<1>1. queue \in Seq(Chunk)
  BY DEF TypeInv, TypeOK
<1>2. /\ Len(queue) \in Nat /\ Len(queue') = Len(queue) + 1 /\ queue'[Len(queue) + 1] = c
      /\ \A i \in 1..Len(queue) : queue'[i] = queue[i]
  BY <1>1, AppendOf
<1>3. \A i \in 1..(Len(queue') + 1) - 1 : i \in 1..Len(queue) \/ i = Len(queue) + 1
  BY <1>2
<1>4. \A i \in 1..Len(queue) : i \in 1..(Len(queue) + 1) - 1 /\ i \in 1..(Len(queue') + 1) - 1
  BY <1>2
<1>5. Len(queue) + 1 \in 1..(Len(queue') + 1) - 1
  BY <1>2
<1>6. CASE WellFormed(c) /\ c.of = tr /\ c.index = 0
  BY <1>2, <1>5, <1>6 DEF Begun
<1>7. CASE Begun(tr, Len(queue) + 1) /\ (WellFormed(c) => c.of = tr)
  <2>1. CASE tr \in missed
    BY <2>1 DEF Begun
  <2>2. ASSUME NEW i \in 1..Len(queue), WellFormed(queue[i]), queue[i].of = tr, queue[i].index = 0
        PROVE  Begun(tr, Len(queue) + 1)'
    BY <1>2, <1>4, <2>2 DEF Begun
  <2>3. CASE /\ \A i \in 1..Len(queue) : WellFormed(queue[i]) => queue[i].of = tr
             /\ regs.count = 0 \/ LastOf(buffer).of = tr
    <3>1. \A i \in 1..(Len(queue') + 1) - 1 : WellFormed(queue'[i]) => queue'[i].of = tr
      BY <1>2, <1>3, <1>7, <2>3
    <3>2. QED
      BY <2>3, <3>1 DEF Begun, LastOf
  <2>4. QED
    BY <1>2, <1>4, <1>7, <2>1, <2>2, <2>3 DEF Begun
<1>8. QED
  BY <1>6, <1>7

(* The chunk h in front is taken: what had begun at a position has begun   *)
(* there, one position nearer, if only h can have been its start.          *)
LEMMA TakenBegun ==
    ASSUME TypeInv, QueueOrder, queue # <<>>, queue' = Tail(queue), UNCHANGED missed,
           NEW h \in Chunk, h = Head(queue),
           \/ ~WellFormed(h) /\ UNCHANGED <<regs, buffer>>
           \/ WellFormed(h) /\ (regs'.count = 0 \/ LastOf(buffer)'.of = h.of),
           NEW tr \in Nat, NEW j \in 1..Len(queue), Begun(tr, j + 1),
           \A i \in 1..j : WellFormed(queue[i]) => queue[i].of <= tr
    PROVE  Begun(tr, j)'
<1>1. /\ queue \in Seq(Chunk) /\ Len(queue) \in Nat /\ h = queue[1] /\ 1 \in 1..Len(queue)
      /\ Len(queue') = Len(queue) - 1
      /\ \A i \in 1..Len(queue') : i + 1 \in 1..Len(queue) /\ queue'[i] = queue[i + 1]
  BY TailOf DEF TypeInv, TypeOK
<1>2. \A i \in 1..j - 1 : /\ i + 1 \in 1..j /\ i + 1 \in 1..(j + 1) - 1
                         /\ i + 1 \in 1..Len(queue) /\ queue'[i] = queue[i + 1]
  BY <1>1
<1>3. CASE tr \in missed
  BY <1>3 DEF Begun
<1>4. ASSUME NEW i \in 1..j, WellFormed(queue[i]), queue[i].of = tr, queue[i].index = 0
      PROVE  Begun(tr, j)'
  <2>1. CASE i # 1
    <3>1. i - 1 \in 1..j - 1 /\ queue'[i - 1] = queue[i]
      BY <1>1, <2>1
    <3>2. QED
      BY <1>4, <3>1 DEF Begun, WellFormed
  <2>2. CASE i = 1
    <3>1. WellFormed(h) /\ h.of = tr /\ (regs'.count = 0 \/ LastOf(buffer)'.of = tr)
      BY <1>1, <1>4, <2>2
    <3>2. ASSUME NEW k \in 1..j - 1, WellFormed(queue'[k])
          PROVE  queue'[k].of = tr
      <4>1. /\ k + 1 \in 1..Len(queue) /\ queue'[k] = queue[k + 1] /\ k + 1 \in 1..j
            /\ 1 \in 1..(k + 1) - 1
        BY <1>2
      <4>2. Follows(queue[1], queue[k + 1])
        BY <1>1, <3>1, <3>2, <4>1 DEF QueueOrder
      <4>3. queue[k + 1].of <= tr /\ queue[k + 1].of \in Nat
        <5>1. queue[k + 1] \in Chunk
          BY <1>1, <4>1
        <5>2. WellFormed(queue[k + 1])
          BY <3>2, <4>1
        <5>3. QED
          BY <4>1, <5>1, <5>2, ChunkFields
      <4>4. queue[1].of = tr /\ tr \in Nat
        BY <1>1, <3>1
      <4>5. queue[1].of <= queue[k + 1].of
        BY <4>2, <4>3, <4>4 DEF Follows
      <4>6. queue[k + 1].of = tr
        BY <4>3, <4>4, <4>5
      <4>7. QED
        BY <4>1, <4>6
    <3>3. QED
      BY <3>1, <3>2 DEF Begun, WellFormed
  <2>3. QED
    BY <2>1, <2>2
<1>5. CASE /\ \A i \in 1..j : WellFormed(queue[i]) => queue[i].of = tr
           /\ regs.count = 0 \/ LastOf(buffer).of = tr
  <2>1. \A i \in 1..j - 1 : WellFormed(queue'[i]) => queue'[i].of = tr
    BY <1>2, <1>5
  <2>2. regs'.count = 0 \/ LastOf(buffer)'.of = tr
    BY <1>1, <1>5 DEF LastOf
  <2>3. QED
    BY <2>1, <2>2 DEF Begun, WellFormed
<1>6. \A i \in 1..(j + 1) - 1 : i \in 1..j
  BY <1>1
<1>7. \A i \in 1..j : i \in 1..(j + 1) - 1
  BY <1>1
<1>8. QED
  BY <1>3, <1>4, <1>5, <1>6, <1>7 DEF Begun

(* A copied chunk joins the buffer.                                        *)
LEMMA CopiedJoined ==
    ASSUME TypeInv, BufferInv, ChunksBegun, regs.count # 0 => Joined(buffer),
           queue # <<>>, UNCHANGED missed, NEW c \in Chunk, c = Head(queue), KeepChunk(c)
    PROVE  Joined(buffer)'
<1>1. /\ WellFormed(c) /\ c = queue[1] /\ 1 \in 1..Len(queue)
      /\ c.index = 0 \/ c.count = regs.count
  BY TailOf DEF KeepChunk, Matches, TypeInv, TypeOK
<1>2. buffer \in Seq(Chunk) /\ Len(buffer) \in Nat
  BY DEF TypeInv, TypeOK
<1>3. CASE c.index = 0
  <2>1. buffer' = Append(<<>>, c)
    BY <1>3 DEF KeepChunk, Kept
  <2>2. Len(buffer') = 1
    BY <2>1
  <2>3. QED
    BY <2>2 DEF Joined
<1>4. CASE c.index # 0
  <2>1. regs.count # 0 /\ buffer' = Append(buffer, c)
    BY <1>1, <1>4, ChunkFields DEF KeepChunk, Kept, WellFormed
  <2>2. /\ Len(buffer') = Len(buffer) + 1 /\ buffer'[Len(buffer) + 1] = c
        /\ \A i \in 1..Len(buffer) : buffer'[i] = buffer[i]
    BY <1>2, <2>1, AppendOf
  <2>3. c.of \in missed \/ LastOf(buffer).of = c.of
    <3>1. Begun(c.of, 1)
      BY <1>1, <1>4 DEF ChunksBegun
    <3>2. QED
      BY <2>1, <3>1 DEF Begun
  <2>4. ASSUME NEW j \in 1..Len(buffer') - 1, buffer'[j].of # buffer'[j + 1].of
        PROVE  buffer'[j + 1].of \in missed'
    <3>1. CASE j = Len(buffer)
      BY <2>2, <2>3, <2>4, <3>1 DEF LastOf
    <3>2. CASE j # Len(buffer)
      <4>1. j \in 1..Len(buffer) - 1 /\ j \in 1..Len(buffer) /\ j + 1 \in 1..Len(buffer)
        BY <1>2, <2>2, <3>2
      <4>2. QED
        BY <2>1, <2>2, <2>4, <4>1 DEF Joined
    <3>3. QED
      BY <3>1, <3>2
  <2>5. QED
    BY <2>4 DEF Joined
<1>5. QED
  BY <1>3, <1>4

LEMMA MixedWrite ==
    ASSUME TypeInv, MixedInv, NEW size \in Sizes, Write(size)
    PROVE  MixedInv'
<1>1. /\ sender.next < sender.count /\ UNCHANGED <<regs, buffer, played>>
      /\ sender'.of = sender.of /\ missed \subseteq missed'
  BY DEF Write, TypeInv, TypeOK
<1>2. sender.next \in Nat
  BY SizesAssumption DEF TypeInv, TypeOK
<1>3. (regs.count # 0 => Joined(buffer))' /\ MixedOnlyIfStartMissed'
  BY <1>1 DEF MixedInv, Joined, MixedOnlyIfStartMissed
<1>4. PICK c \in Chunk : c = Sent(size)
  BY <1>1, SentChunk
<1>5. WellFormed(c) /\ c.of = sender.of /\ c.index = sender.next
  BY <1>1, <1>4, SentChunk
<1>6. CASE queue' = Append(queue, c) /\ UNCHANGED missed
  <2>1. /\ queue \in Seq(Chunk) /\ Len(queue) \in Nat
        /\ Len(queue') = Len(queue) + 1 /\ queue'[Len(queue) + 1] = c
        /\ \A j \in 1..Len(queue) : queue'[j] = queue[j]
    BY <1>6, AppendOf DEF TypeInv, TypeOK
  <2>2. c.index # 0 => Begun(c.of, Len(queue) + 1)
    BY <1>2, <1>5 DEF MixedInv, SenderBegun
  <2>3. ASSUME NEW j \in 1..Len(queue) + 1, NEW d \in Chunk, d = queue'[j],
               WellFormed(d), d.index # 0
        PROVE  Begun(d.of, j)'
    <3>1. Begun(d.of, j)
      <4>1. CASE j \in 1..Len(queue)
        BY <2>1, <2>3, <4>1 DEF MixedInv, ChunksBegun
      <4>2. CASE j = Len(queue) + 1
        BY <2>1, <2>2, <2>3, <4>2
      <4>3. QED
        BY <2>1, <4>1, <4>2
    <3>2. QED
      BY <1>1, <1>6, <3>1, QueuedBegun
  <2>4. \A j \in 1..Len(queue') : j \in 1..Len(queue) + 1 /\ queue'[j] \in Chunk
    BY <2>1
  <2>5. ChunksBegun'
    BY <2>3, <2>4 DEF ChunksBegun, Begun, WellFormed
  <2>6. Begun(sender.of, Len(queue) + 1)'
    <3>1. PICK tr \in Nat : tr = sender.of
      BY SizesAssumption DEF TypeInv, TypeOK
    <3>2. Begun(tr, Len(queue) + 1)'
      BY <1>1, <1>5, <1>6, <2>2, <3>1, BegunWith
    <3>3. QED
      BY <1>1, <3>1, <3>2 DEF Begun
  <2>7. QED
    BY <1>3, <2>5, <2>6 DEF MixedInv, SenderBegun
<1>7. CASE /\ UNCHANGED queue
           /\ missed' = IF c.index = 0 THEN missed \cup {c.of} ELSE missed
  <2>1. ChunksBegun'
    BY <1>1, <1>7 DEF MixedInv, ChunksBegun, Begun, LastOf
  <2>2. SenderBegun'
    <3>1. CASE c.index = 0
      BY <1>1, <1>5, <1>7, <3>1 DEF SenderBegun, Begun
    <3>2. CASE c.index # 0
      BY <1>1, <1>2, <1>5, <1>7, <3>2 DEF MixedInv, SenderBegun, Begun, LastOf
    <3>3. QED
      BY <3>1, <3>2
  <2>3. QED
    BY <1>3, <2>1, <2>2 DEF MixedInv
<1>8. QED
  BY <1>4, <1>6, <1>7 DEF Write, Sent

LEMMA MixedMalformed ==
    ASSUME TypeInv, MixedInv, NEW c \in Malformed, WriteMalformed(c)
    PROVE  MixedInv'
<1>1. c \in Chunk /\ ~WellFormed(c)
  BY MalformedAssumption, ChunkFields DEF WellFormed
<1>2. queue' = Append(queue, c) /\ UNCHANGED <<regs, buffer, played, sender, missed>>
  BY DEF WriteMalformed
<1>3. /\ queue \in Seq(Chunk) /\ Len(queue) \in Nat
      /\ Len(queue') = Len(queue) + 1 /\ queue'[Len(queue) + 1] = c
      /\ \A j \in 1..Len(queue) : queue'[j] = queue[j]
  BY <1>1, <1>2, AppendOf DEF TypeInv, TypeOK
<1>4. ChunksBegun'
  <2>1. ASSUME NEW j \in 1..Len(queue'), NEW d \in Chunk, d = queue'[j],
               WellFormed(d), d.index # 0
        PROVE  Begun(d.of, j)'
    <3>1. j \in 1..Len(queue) /\ j \in 1..Len(queue) + 1
      BY <1>1, <1>3, <2>1
    <3>2. Begun(d.of, j)
      BY <1>3, <2>1, <3>1 DEF MixedInv, ChunksBegun
    <3>3. QED
      BY <1>1, <1>2, <3>1, <3>2, QueuedBegun
  <2>2. \A j \in 1..Len(queue') : queue'[j] \in Chunk
    BY <1>1, <1>3
  <2>3. QED
    BY <2>1, <2>2 DEF ChunksBegun, Begun, WellFormed
<1>5. SenderBegun'
  <2>1. PICK tr \in Nat : tr = sender.of
    BY SizesAssumption DEF TypeInv, TypeOK
  <2>2. sender.next > 0 => Begun(tr, Len(queue) + 1)'
    BY <1>1, <1>2, <2>1, BegunWith DEF MixedInv, SenderBegun
  <2>3. QED
    BY <1>2, <2>1, <2>2 DEF SenderBegun, Begun
<1>6. QED
  BY <1>2, <1>4, <1>5 DEF MixedInv, Joined, MixedOnlyIfStartMissed

LEMMA MixedProcess ==
    ASSUME TypeInv, WholeInv, OrderInv, MixedInv, queue # <<>>, Process(Head(queue))
    PROVE  MixedInv'
<1>1. PICK c \in Chunk : c = Head(queue)
  BY TailOf DEF TypeInv, TypeOK
<1>2. queue' = Tail(queue) /\ UNCHANGED <<sender, missed>>
  BY DEF Process, IgnoreMalformed, DropMismatch, DropTooLarge, KeepChunk, Take
<1>3. \/ KeepChunk(c)
      \/ IgnoreMalformed(c) \/ DropMismatch(c) \/ DropTooLarge(c)
  BY <1>1 DEF Process
<1>4. \/ ~WellFormed(c) /\ UNCHANGED <<regs, buffer>>
      \/ WellFormed(c) /\ (regs'.count = 0 \/ LastOf(buffer)'.of = c.of)
  <2>1. CASE KeepChunk(c)
    BY <2>1, CopiedInPlace DEF WholeInv, KeepChunk, LastOf
  <2>2. QED
    BY <1>3, <2>1, Refused
<1>5. /\ queue \in Seq(Chunk) /\ Len(queue) \in Nat /\ Len(queue') = Len(queue) - 1
      /\ \A j \in 1..Len(queue') : j + 1 \in 1..Len(queue) /\ queue'[j] = queue[j + 1]
      /\ \A j \in 1..Len(queue) : queue[j] \in Chunk /\ queue[j].of \in Nat
  BY <1>2, TailOf, ChunkFields DEF TypeInv, TypeOK
<1>6. ChunksBegun'
  <2>1. ASSUME NEW j \in 1..Len(queue'), NEW d \in Chunk, d = queue'[j],
               WellFormed(d), d.index # 0
        PROVE  Begun(d.of, j)'
    <3>1. j + 1 \in 1..Len(queue) /\ d = queue[j + 1] /\ j \in 1..Len(queue) /\ d.of \in Nat
      BY <1>5, <2>1
    <3>2. Begun(d.of, j + 1)
      BY <2>1, <3>1 DEF MixedInv, ChunksBegun
    <3>3. ASSUME NEW i \in 1..j, WellFormed(queue[i])
          PROVE  queue[i].of <= d.of
      <4>1. i \in 1..(j + 1) - 1 /\ i \in 1..Len(queue)
        BY <3>1
      <4>2. Follows(queue[i], d)
        BY <2>1, <3>1, <3>3, <4>1 DEF OrderInv, QueueOrder
      <4>3. QED
        BY <1>5, <3>1, <4>1, <4>2 DEF Follows
    <3>4. QED
      BY <1>1, <1>2, <1>4, <3>1, <3>2, <3>3, TakenBegun DEF OrderInv
  <2>2. \A j \in 1..Len(queue') : queue'[j] \in Chunk
    BY <1>5
  <2>3. QED
    BY <2>1, <2>2 DEF ChunksBegun, Begun, WellFormed
<1>7. SenderBegun'
  <2>1. PICK tr \in Nat : tr = sender.of
    BY SizesAssumption DEF TypeInv, TypeOK
  <2>2. Len(queue) \in 1..Len(queue)
    BY <1>5
  <2>3. ASSUME NEW i \in 1..Len(queue), WellFormed(queue[i])
        PROVE  queue[i].of <= tr
    <3>1. Wrote(queue[i])
      BY <2>3 DEF OrderInv, QueueOrder
    <3>2. QED
      BY <1>5, <2>1, <3>1 DEF Wrote
  <2>4. PICK j \in 1..Len(queue) : j = Len(queue)
    BY <2>2
  <2>5. sender.next > 0 => Begun(tr, j)'
    BY <1>1, <1>2, <1>4, <2>1, <2>3, <2>4, TakenBegun DEF OrderInv, MixedInv, SenderBegun
  <2>6. Len(queue') + 1 = j
    BY <1>5, <2>4
  <2>7. QED
    BY <1>2, <2>1, <2>5, <2>6 DEF SenderBegun, Begun
<1>8. (regs.count # 0 => Joined(buffer))'
  <2>1. CASE KeepChunk(c)
    BY <1>1, <1>2, <2>1, CopiedJoined DEF WholeInv, MixedInv
  <2>2. CASE ~KeepChunk(c)
    BY <1>2, <1>3, <2>2, Refused DEF MixedInv, Joined
  <2>3. QED
    BY <2>1, <2>2
<1>9. MixedOnlyIfStartMissed'
  <2>1. CASE UNCHANGED played
    BY <1>2, <2>1 DEF MixedInv, MixedOnlyIfStartMissed
  <2>2. CASE KeepChunk(c) /\ played' = Append(played, buffer')
    <3>1. Joined(buffer)' /\ buffer' \in Seq(Chunk)
      BY <1>1, <1>2, <2>2, CopiedJoined, CopiedInPlace DEF WholeInv, MixedInv
    <3>2. /\ Len(played) \in Nat /\ Len(played') = Len(played) + 1
          /\ played'[Len(played) + 1] = buffer'
          /\ \A i \in 1..Len(played) : played'[i] = played[i]
      BY <2>2, <3>1 DEF TypeInv, TypeOK
    <3>3. \A i \in 1..Len(played') : i \in 1..Len(played) \/ i = Len(played) + 1
      BY <3>2
    <3>4. QED
      BY <1>2, <3>1, <3>2, <3>3 DEF MixedInv, MixedOnlyIfStartMissed, Joined
  <2>3. QED
    BY <1>3, <2>1, <2>2, Refused DEF KeepChunk
<1>10. QED
  BY <1>6, <1>7, <1>8, <1>9 DEF MixedInv

LEMMA MixedStep ==
    TypeInv /\ WholeInv /\ OrderInv /\ MixedInv /\ [Next]_vars => MixedInv'
<1> SUFFICES ASSUME TypeInv, WholeInv, OrderInv, MixedInv, [Next]_vars PROVE MixedInv'
  OBVIOUS
<1>1. ASSUME NEW id \in TransferId, NEW count \in 1..MaxChunks, Begin(id, count)
      PROVE  MixedInv'
  <2>1. sender'.next = 0 /\ UNCHANGED <<queue, regs, buffer, played, missed>>
    BY <1>1 DEF Begin
  <2>2. ChunksBegun' /\ SenderBegun'
    BY <2>1 DEF MixedInv, ChunksBegun, SenderBegun, Begun, LastOf
  <2>3. QED
    BY <2>1, <2>2 DEF MixedInv, Joined, MixedOnlyIfStartMissed
<1>2. CASE PlayEnds \/ UNCHANGED vars
  <2>1. UNCHANGED <<queue, regs, buffer, played, missed, sender>>
    BY <1>2 DEF PlayEnds, vars
  <2>2. ChunksBegun' /\ SenderBegun'
    BY <2>1 DEF MixedInv, ChunksBegun, SenderBegun, Begun, LastOf
  <2>3. QED
    BY <2>1, <2>2 DEF MixedInv, Joined, MixedOnlyIfStartMissed
<1>3. QED
  BY <1>1, <1>2, MixedWrite, MixedMalformed, MixedProcess DEF Next

(* Chunks of two transfers make one animation only if the later one's chunk*)
(* 0 never got into the queue (controller.c:583).                          *)
THEOREM MixesOnlyIfStartMissed == Spec => []MixedOnlyIfStartMissed
<1>1. Init => IInv
  BY InitInv
<1>2. IInv /\ [Next]_vars => IInv'
  BY TypeStep, WholeStep, OrderStep, MixedStep DEF IInv
<1>3. IInv => MixedOnlyIfStartMissed
  BY DEF IInv, MixedInv
<1>4. QED
  BY <1>1, <1>2, <1>3, PTL DEF Spec

----------------------------------------------------------------------------
(* Playback: fractions and poses.                                          *)

(* Arithmetic of fractions.                                                *)
LEMMA Products ==
    /\ \A a, b \in Int : a * b \in Int
    /\ \A a, b \in Nat : a * b \in Nat
    /\ \A a, b \in Nat \ {0} : a * b \in Nat \ {0}
<1>1. \A a, b \in Int : a * b \in Int
  OBVIOUS
<1>2. \A a, b \in Nat : a * b \in Nat
  OBVIOUS
<1>3. \A a, b \in Nat \ {0} : a * b \in Nat \ {0}
  OBVIOUS
<1>4. QED
  BY <1>1, <1>2, <1>3

LEMMA Quotients ==
    \A a \in Int, b \in Nat \ {0} : a \div b \in Int
OBVIOUS

LEMMA FracIn ==
    ASSUME NEW n \in Int, NEW d \in Nat \ {0}
    PROVE  Frac(n, d) \in Fraction /\ Frac(n, d).n = n /\ Frac(n, d).d = d
BY DEF Frac, Fraction

LEMMA FractionFields ==
    ASSUME NEW x \in Fraction
    PROVE  x.n \in Int /\ x.d \in Nat \ {0} /\ x.d \in Int
BY DEF Fraction

LEMMA Units ==
    /\ Zero \in Fraction /\ One \in Fraction /\ One.n = 1 /\ One.d = 1
BY DEF Zero, One, Frac, Fraction

LEMMA MinusIn ==
    ASSUME NEW x \in Fraction, NEW y \in Fraction
    PROVE  Minus(x, y) \in Fraction
<1>1. /\ x.n * y.d \in Int /\ y.n * x.d \in Int /\ x.d * y.d \in Nat \ {0}
  BY FractionFields, Products
<1>2. x.n * y.d - y.n * x.d \in Int
  BY <1>1
<1>3. QED
  BY <1>1, <1>2, FracIn DEF Minus

LEMMA HalfIn ==
    ASSUME NEW x \in Fraction
    PROVE  HalfOf(x) \in Fraction /\ HalfOf(Frac(x.n + x.d, x.d)) \in Fraction
<1>1. x.n \in Int /\ x.d \in Nat \ {0} /\ x.n + x.d \in Int /\ 2 * x.d \in Nat \ {0}
  BY FractionFields
<1>2. Frac(x.n + x.d, x.d).n = x.n + x.d /\ Frac(x.n + x.d, x.d).d = x.d
  BY <1>1, FracIn
<1>3. QED
  BY <1>1, <1>2, FracIn DEF HalfOf

LEMMA DepartIn ==
    ASSUME NEW type \in EaseType, NEW x \in Fraction
    PROVE  EaseDepart(type, x) \subseteq Fraction
<1>1. x.n \in Int /\ x.d \in Nat \ {0} /\ x.d \in Int
  BY FractionFields
<1>2. Frac(5 * x.n * x.n, 4 * x.d * x.d + x.n * x.n) \in Fraction
  <2>1. x.n * x.n \in Nat /\ x.d * x.d \in Nat \ {0}
    BY <1>1
  <2>2. 5 * x.n * x.n = 5 * (x.n * x.n) /\ 4 * x.d * x.d = 4 * (x.d * x.d)
    BY <1>1
  <2>3. 5 * x.n * x.n \in Int /\ 4 * x.d * x.d + x.n * x.n \in Nat \ {0}
    BY <2>1, <2>2
  <2>4. QED
    BY <2>3, FracIn
<1>3. Frac(x.n * x.n * x.n, x.d * x.d * x.d) \in Fraction
  <2>1. x.n * x.n \in Int /\ x.d * x.d \in Nat \ {0}
    BY <1>1, Products
  <2>2. x.n * x.n * x.n \in Int /\ x.d * x.d * x.d \in Nat \ {0}
    BY <1>1, <2>1, Products
  <2>3. QED
    BY <2>2, FracIn
<1>4. CASE type = "none"
  BY <1>4 DEF EaseDepart
<1>5. CASE type = "sine"
  BY <1>2, <1>5 DEF EaseDepart
<1>6. CASE type = "cubic"
  BY <1>3, <1>6 DEF EaseDepart
<1>7. CASE type = "elastic"
  BY <1>7, Units, InputsAssumption DEF EaseDepart
<1>8. QED
  BY <1>4, <1>5, <1>6, <1>7 DEF EaseType

LEMMA ArriveTyped ==
    ASSUME NEW type \in EaseType, NEW x \in Fraction
    PROVE  EaseArrive(type, x) \subseteq Fraction
<1>1. Minus(One, x) \in Fraction
  BY Units, MinusIn
<1>2. \A y \in EaseDepart(type, Minus(One, x)) : Minus(One, y) \in Fraction
  BY <1>1, DepartIn, Units, MinusIn
<1>3. QED
  BY <1>2 DEF EaseArrive

(* Where a servo is told to go is where it can.                            *)
LEMMA Range ==
    ASSUME NEW x \in Int
    PROVE  Clamped(x) \in 0..MaxAngle * Duty /\ Clamped(x) \in Int
<1>1. MaxAngle * Duty \in Nat
  BY PlaybackAssumption, Products
<1>2. QED
  BY <1>1 DEF Clamped

LEMMA WrittenIn ==
    ASSUME NEW x \in Int, offset \in Offsets, NEW ch \in Channel
    PROVE  Written(x, ch) \in 0..MaxAngle * Duty
<1>1. offset[ch] \in Int
  BY InputsAssumption
<1>2. offset[ch] * Duty \in Int
  BY <1>1, PlaybackAssumption
<1>3. Clamped(x) + offset[ch] * Duty \in Int
  BY <1>2, Range
<1>4. QED
  BY <1>3, Range DEF Written

LEMMA WayIn ==
    ASSUME NEW a \in Int, NEW b \in Int, NEW p \in Fraction
    PROVE  Way(a, b, p) \in Int /\ Way(a, b, One) = b * Duty
<1>1. p.n \in Int /\ p.d \in Nat \ {0} /\ p.d \in Int /\ Duty \in Int /\ b - a \in Int
  BY FractionFields, PlaybackAssumption
<1>2. a * p.d \in Int /\ (b - a) * p.n \in Int
  BY <1>1, Products
<1>3. a * p.d + (b - a) * p.n \in Int
  BY <1>2
<1>4. Duty * (a * p.d + (b - a) * p.n) \in Int
  BY <1>1, <1>3, Products
<1>5. Way(a, b, p) \in Int
  BY <1>1, <1>4, Quotients DEF Way
<1>6. a * One.d + (b - a) * One.n = b
  BY Units
<1>7. (Duty * b) \div 1 = b * Duty
  <2>1. Duty * b \in Int /\ Duty * b = b * Duty
    BY <1>1
  <2>2. \A x \in Int : x \div 1 = x
    OBVIOUS
  <2>3. QED
    BY <2>1, <2>2
<1>8. QED
  BY <1>5, <1>6, <1>7, Units DEF Way

----------------------------------------------------------------------------
(* Playback: RTOS ticks.                                                   *)

(* The RTOS tick before a time.                                            *)
Floor(x) == x - (x % RtosTick)

LEMMA Division ==
    ASSUME NEW x \in Nat, NEW r \in Nat \ {0}
    PROVE  /\ x \div r \in Nat /\ x % r \in 0..(r - 1)
           /\ x = r * (x \div r) + (x % r)
<1>1. x \div r \in Int
  OBVIOUS
<1>2. x % r \in 0..(r - 1)
  OBVIOUS
<1>3. x = r * (x \div r) + (x % r)
  <2>1. x \in Int /\ r \in Int /\ r > 0
    OBVIOUS
  <2>2. x % r = x - r * (x \div r)
    BY <2>1, SMT
  <2>3. r * (x \div r) \in Int /\ x % r \in Int
    BY <2>1, <1>1, <1>2
  <2>4. QED
    BY <2>1, <2>2, <2>3
<1>4. x \div r \in Nat
  OBVIOUS
<1>5. QED
  BY <1>2, <1>3, <1>4

LEMMA Multiples ==
    ASSUME NEW k \in Nat, NEW r \in Nat \ {0}
    PROVE  (r * k) % r = 0
OBVIOUS

LEMMA FloorOf ==
    ASSUME NEW x \in Nat
    PROVE  /\ Floor(x) \in Nat /\ Floor(x) <= x /\ x < Floor(x) + RtosTick
           /\ Floor(x) % RtosTick = 0
<1>1. RtosTick \in Nat \ {0}
  BY PlaybackAssumption
<1>2. /\ x \div RtosTick \in Nat /\ x % RtosTick \in 0..(RtosTick - 1)
      /\ x = RtosTick * (x \div RtosTick) + (x % RtosTick)
      /\ RtosTick * (x \div RtosTick) \in Nat
  BY <1>1, Division, Products
<1>3. Floor(x) = RtosTick * (x \div RtosTick)
  BY <1>1, <1>2 DEF Floor
<1>4. QED
  BY <1>1, <1>2, <1>3, Multiples

LEMMA FloorAbove ==
    ASSUME NEW x \in Nat, NEW w \in Nat, w % RtosTick = 0, w <= x
    PROVE  w <= Floor(x)
<1> DEFINE a == w \div RtosTick
           b == x \div RtosTick
<1>1. RtosTick \in Nat \ {0}
  BY PlaybackAssumption
<1>2. a \in Nat /\ w = RtosTick * a
  BY <1>1, Division
<1>3. /\ b \in Nat /\ x = RtosTick * b + (x % RtosTick) /\ x % RtosTick \in 0..(RtosTick - 1)
  BY <1>1, Division
<1> HIDE DEF a, b
<1>4. a <= b
  <2>1. SUFFICES ASSUME a >= b + 1 PROVE FALSE
    BY <1>2, <1>3
  <2>2. a - (b + 1) \in Nat /\ RtosTick * (a - (b + 1)) \in Nat
    BY <1>1, <1>2, <1>3, <2>1, Products
  <2>3. RtosTick * a = RtosTick * (b + 1) + RtosTick * (a - (b + 1))
    BY <1>1, <1>2, <1>3
  <2>4. RtosTick * (b + 1) = RtosTick * b + RtosTick
    BY <1>1, <1>3
  <2>5. RtosTick * b \in Nat
    BY <1>1, <1>3, Products
  <2>6. QED
    BY <1>1, <1>2, <1>3, <2>2, <2>3, <2>4, <2>5
<1>5. RtosTick * a <= RtosTick * b
  <2>1. b - a \in Nat /\ RtosTick * (b - a) \in Nat
    BY <1>1, <1>2, <1>3, <1>4, Products
  <2>2. RtosTick * b = RtosTick * a + RtosTick * (b - a)
    BY <1>1, <1>2, <1>3
  <2>3. RtosTick * a \in Nat
    BY <1>1, <1>2, Products
  <2>4. QED
    BY <2>1, <2>2, <2>3
<1>6. Floor(x) = RtosTick * b
  <2>1. RtosTick * b \in Nat /\ x % RtosTick \in Nat
    BY <1>1, <1>3, Products
  <2>2. x - (x % RtosTick) = RtosTick * b
    BY <1>3, <2>1
  <2>3. QED
    BY <2>2 DEF Floor
<1>7. QED
  BY <1>2, <1>5, <1>6

LEMMA Aligned ==
    ASSUME NEW w \in Nat, w % RtosTick = 0
    PROVE  \E a \in Nat : w = RtosTick * a
<1>1. RtosTick \in Nat \ {0}
  BY PlaybackAssumption
<1>2. /\ w \div RtosTick \in Nat
      /\ w = RtosTick * (w \div RtosTick) + (w % RtosTick)
  BY <1>1, Division
<1>3. RtosTick * (w \div RtosTick) \in Nat
  BY <1>1, <1>2, Products
<1>4. w = RtosTick * (w \div RtosTick)
  BY <1>2, <1>3
<1>5. QED
  BY <1>2, <1>4

LEMMA NextWake ==
    ASSUME NEW w \in Nat, w % RtosTick = 0
    PROVE  (w + Tick) % RtosTick = 0
<1>1. RtosTick \in Nat \ {0} /\ Tick \in Nat \ {0} /\ Tick % RtosTick = 0
  BY PlaybackAssumption
<1>2. PICK a \in Nat : w = RtosTick * a
  BY Aligned
<1>3. PICK b \in Nat : Tick = RtosTick * b
  BY <1>1, Aligned
<1>4. w + Tick = RtosTick * (a + b) /\ a + b \in Nat
  BY <1>1, <1>2, <1>3
<1>5. QED
  BY <1>1, <1>4, Multiples

LEMMA TickCovers == RtosTick <= Tick
<1>1. RtosTick \in Nat \ {0} /\ Tick \in Nat \ {0} /\ Tick % RtosTick = 0
  BY PlaybackAssumption
<1>2. PICK b \in Nat : Tick = RtosTick * b
  BY <1>1, Aligned
<1>3. b # 0
  BY <1>1, <1>2
<1>4. b - 1 \in Nat /\ RtosTick * (b - 1) \in Nat
  BY <1>1, <1>3, Products
<1>5. RtosTick * b = RtosTick * (b - 1) + RtosTick
  BY <1>1, <1>2
<1>6. QED
  BY <1>1, <1>2, <1>4, <1>5

LEMMA NoWrap ==
    ASSUME NEW x \in Nat, x < Word
    PROVE  x % Word = x
BY PlaybackAssumption

----------------------------------------------------------------------------
(* Playback: the invariant.                                                *)

(* From the first keyframe to the k-th, and the delay allowed for each.    *)
Elapsed(k) == anim[k].time_ms - anim[1].time_ms

Late == Tick - 1 + MaxDelay

PlayTypes ==
    /\ PlaybackTypeOK
    /\ anim # <<>> => Deserializes(anim) /\ to > 1
    /\ t # -1 => anim # <<>> /\ to <= Len(anim) /\ Segment # 0 /\ t < Segment + Tick

(* The pose of the keyframe last reached stands, and it was reached in     *)
(* time.                                                                   *)
Reached ==
    anim # <<>> /\ t = -1 =>
        /\ \A ch \in Channel : pose[ch] = Written(anim[to - 1].angles[ch] * Duty, ch)
        /\ Floor(start) + Elapsed(to - 1) <= Floor(now)
        /\ now <= start + Elapsed(to - 1) + (to - 2) * Late

(* On the way to the next one, the wake-ups follow t.                      *)
UnderWay ==
    t # -1 =>
        /\ last_wake % RtosTick = 0 /\ last_wake <= now
        /\ Floor(start) + Elapsed(to - 1) + t <= last_wake
        /\ last_wake <= start + Elapsed(to - 1) + (to - 2) * Late + t
        /\ t = 0 => now < last_wake + RtosTick
        /\ t > 0 => now <= last_wake + MaxDelay

PlayInv == PlayTypes /\ Reached /\ UnderWay

(* The keyframes of an animation that is played.                           *)
LEMMA Frames ==
    ASSUME PlayTypes, anim # <<>>
    PROVE  /\ Len(anim) \in Nat /\ to \in 2..Len(anim) + 1
           /\ \A i \in 1..Len(anim) :
                 /\ anim[i] \in Keyframe /\ anim[i].time_ms \in 0..Word-1
                 /\ anim[i].angles \in [Channel -> Nat]
                 /\ anim[i].ease_in_ms \in Nat /\ anim[i].ease_out_ms \in Nat
                 /\ anim[i].ease_in_type \in EaseType /\ anim[i].ease_out_type \in EaseType
                 /\ i > 1 => anim[i].time_ms >= anim[i - 1].time_ms
<1>1. anim \in Seq(Keyframe) /\ Deserializes(anim) /\ to > 1 /\ to \in 1..Len(anim) + 1
  BY InputsAssumption DEF PlayTypes, PlaybackTypeOK
<1>2. Len(anim) \in Nat /\ \A i \in 1..Len(anim) : anim[i] \in Keyframe
  BY <1>1
<1>3. \A i \in 1..Len(anim) :
         /\ anim[i].ease_in_type \in EaseType /\ anim[i].ease_out_type \in EaseType
         /\ i > 1 => anim[i].time_ms >= anim[i - 1].time_ms
  BY <1>1 DEF Deserializes
<1>4. \A k \in Keyframe : /\ k.time_ms \in 0..Word-1 /\ k.angles \in [Channel -> Nat]
                          /\ k.ease_in_ms \in Nat /\ k.ease_out_ms \in Nat
  BY DEF Keyframe
<1>5. to \in 2..Len(anim) + 1
  BY <1>1, <1>2
<1>6. QED
  BY <1>2, <1>3, <1>4, <1>5

(* The segment does not wrap: times do not go back.                        *)
LEMMA SegmentIs ==
    ASSUME PlayTypes, anim # <<>>, to <= Len(anim)
    PROVE  /\ to \in 2..Len(anim) /\ to - 1 \in 1..Len(anim) /\ 1 \in 1..Len(anim)
           /\ Segment \in Nat
           /\ Elapsed(to) = Elapsed(to - 1) + Segment
           /\ Elapsed(to - 1) \in Int /\ Elapsed(to) \in Int
<1>1. to \in 2..Len(anim) /\ to - 1 \in 1..Len(anim) /\ to \in 1..Len(anim) /\ 1 \in 1..Len(anim)
  BY Frames
<1>2. /\ anim[to].time_ms \in 0..Word-1 /\ anim[to - 1].time_ms \in 0..Word-1
      /\ anim[1].time_ms \in 0..Word-1
      /\ anim[to].time_ms >= anim[to - 1].time_ms
  BY <1>1, Frames
<1>3. Word \in Nat
  BY PlaybackAssumption
<1>4. /\ anim[to].time_ms - anim[to - 1].time_ms \in Nat
      /\ anim[to].time_ms - anim[to - 1].time_ms < Word
  BY <1>2, <1>3
<1>5. Segment = anim[to].time_ms - anim[to - 1].time_ms
  <2> DEFINE x == anim[to].time_ms - anim[to - 1].time_ms
  <2>1. Segment = x % Word
    BY DEF Segment, To, From
  <2>2. x \in Nat /\ x < Word
    BY <1>4
  <2> HIDE DEF x
  <2>3. x % Word = x
    BY <2>2, NoWrap
  <2>4. QED
    BY <2>1, <2>3 DEF x
<1>6. /\ Elapsed(to) = Elapsed(to - 1) + Segment
      /\ Elapsed(to - 1) \in Int /\ Elapsed(to) \in Int
  <2> DEFINE x == anim[to].time_ms
             y == anim[to - 1].time_ms
             z == anim[1].time_ms
  <2>1. x \in Nat /\ y \in Nat /\ z \in Nat
    BY <1>2, <1>3
  <2>2. Elapsed(to) = x - z /\ Elapsed(to - 1) = y - z /\ Segment = x - y
    BY <1>5 DEF Elapsed
  <2> HIDE DEF x, y, z
  <2>3. QED
    BY <2>1, <2>2
<1>7. QED
  BY <1>1, <1>4, <1>5, <1>6

(* The numbers of the code.                                                *)
LEMMA Numbers ==
    /\ Tick \in Nat \ {0} /\ RtosTick \in Nat \ {0} /\ MaxDelay \in Nat /\ MaxDelay <= Tick
    /\ Late \in Nat
<1>1. /\ Tick \in Nat \ {0} /\ RtosTick \in Nat \ {0}
      /\ MaxDelay \in Nat /\ MaxDelay <= Tick
  BY PlaybackAssumption
<1>2. Late \in Nat
  BY <1>1 DEF Late
<1>3. QED
  BY <1>1, <1>2

LEMMA OneMore ==
    ASSUME NEW k \in Int
    PROVE  /\ k * Late \in Int /\ (k + 1) * Late = k * Late + Late
           /\ k >= 0 => k * Late >= 0
BY Numbers

(* A pose is one the servos can take.                                      *)
LEMMA PoseIn ==
    ASSUME PlayTypes, anim # <<>>, NEW p \in Fraction,
           NEW i \in 1..Len(anim), NEW j \in 1..Len(anim),
           ApplyPose(anim[i], anim[j], p)
    PROVE  /\ pose' \in [Channel -> 0..MaxAngle * Duty]
           /\ p = One => \A ch \in Channel : pose'[ch] = Written(anim[j].angles[ch] * Duty, ch)
<1>1. \A ch \in Channel : anim[i].angles[ch] \in Int /\ anim[j].angles[ch] \in Int
  BY Frames
<1>2. offset \in Offsets
  BY DEF PlayTypes, PlaybackTypeOK
<1>3. ASSUME NEW ch \in Channel
      PROVE  /\ Written(Way(anim[i].angles[ch], anim[j].angles[ch], p), ch) \in 0..MaxAngle * Duty
             /\ Way(anim[i].angles[ch], anim[j].angles[ch], One) = anim[j].angles[ch] * Duty
  BY <1>1, <1>2, WayIn, WrittenIn
<1>4. pose' = [ch \in Channel |-> Written(Way(anim[i].angles[ch], anim[j].angles[ch], p), ch)]
  BY DEF ApplyPose
<1>5. QED
  BY <1>3, <1>4

(* The fractions of the way, and no division by zero.                      *)
LEMMA ScaledIn ==
    ASSUME NEW s \in Nat, NEW o \in Nat, NEW i \in Nat
    PROVE  Scale(s, o, i) \in Fraction
<1>1. CASE o + i > s
  BY <1>1, FracIn DEF Scale
<1>2. CASE ~(o + i > s)
  BY <1>2, Units DEF Scale
<1>3. QED
  BY <1>1, <1>2

LEMMA EasingsIn ==
    ASSUME PlayTypes, anim # <<>>, to <= Len(anim)
    PROVE  /\ Depart \in Fraction /\ ArriveIn \in Fraction
           /\ From.ease_out_type \in EaseType /\ To.ease_in_type \in EaseType
<1>1. to \in 1..Len(anim) /\ to - 1 \in 1..Len(anim) /\ Segment \in Nat
  BY SegmentIs
<1>2. /\ From.ease_out_ms \in Nat /\ To.ease_in_ms \in Nat
      /\ From.ease_out_type \in EaseType /\ To.ease_in_type \in EaseType
  BY <1>1, Frames DEF From, To
<1> DEFINE k == Scale(Segment, From.ease_out_ms, To.ease_in_ms)
<1>3. k \in Fraction
  BY <1>1, <1>2, ScaledIn
<1> HIDE DEF k
<1>4. k.n \in Int /\ k.d \in Nat \ {0}
  BY <1>3, FractionFields
<1>5. From.ease_out_ms * k.n \in Int /\ To.ease_in_ms * k.n \in Int
  BY <1>2, <1>4, Products
<1>6. Frac(From.ease_out_ms * k.n, k.d) \in Fraction /\ Frac(To.ease_in_ms * k.n, k.d) \in Fraction
  BY <1>4, <1>5, FracIn
<1>7. QED
  BY <1>2, <1>6 DEF Depart, ArriveIn, k

LEMMA ProgressIn ==
    ASSUME PlayTypes, t # -1, t < Segment
    PROVE  Progress \subseteq Fraction
<1>1. /\ anim # <<>> /\ to <= Len(anim) /\ t \in Nat
  BY DEF PlayTypes, PlaybackTypeOK
<1>2. /\ Depart \in Fraction /\ ArriveIn \in Fraction
      /\ From.ease_out_type \in EaseType /\ To.ease_in_type \in EaseType
      /\ Segment \in Nat /\ Segment - t \in Nat \ {0}
  BY <1>1, EasingsIn, SegmentIs
<1>3. /\ Depart.n \in Int /\ Depart.d \in Nat \ {0} /\ Depart.d \in Nat
      /\ ArriveIn.n \in Int /\ ArriveIn.d \in Nat \ {0} /\ ArriveIn.d \in Nat
  BY <1>2, FractionFields
<1>4. CASE Departing
  <2>1. t * Depart.d \in Nat /\ Depart.n \in Nat \ {0}
    BY <1>1, <1>3, <1>4, Products DEF Departing
  <2>2. Frac(t * Depart.d, Depart.n) \in Fraction
    BY <2>1, FracIn
  <2>3. EaseDepart(From.ease_out_type, Frac(t * Depart.d, Depart.n)) \subseteq Fraction
    BY <1>2, <2>2, DepartIn
  <2>4. QED
    BY <1>4, <2>3, HalfIn DEF Progress
<1>5. CASE ~Departing /\ Holding
  BY <1>5, FracIn DEF Progress
<1>6. CASE ~Departing /\ ~Holding
  <2>1. (Segment - t) * ArriveIn.d \in Nat \ {0}
    BY <1>2, <1>3, Products
  <2>2. ArriveIn.n \in Nat \ {0}
    BY <1>3, <1>6, <2>1 DEF Holding
  <2>3. Frac((Segment - t) * ArriveIn.d, ArriveIn.n) \in Fraction
    BY <2>1, <2>2, FracIn
  <2>4. Minus(One, Frac((Segment - t) * ArriveIn.d, ArriveIn.n)) \in Fraction
    BY <2>3, Units, MinusIn
  <2>5. EaseArrive(To.ease_in_type, Minus(One, Frac((Segment - t) * ArriveIn.d, ArriveIn.n)))
          \subseteq Fraction
    BY <1>2, <2>4, ArriveTyped
  <2>6. QED
    BY <1>6, <2>5, HalfIn DEF Progress
<1>7. QED
  BY <1>4, <1>5, <1>6

(* The steps.                                                              *)
LEMMA PlaybackBegins == PlaybackInit => PlayInv
<1> SUFFICES ASSUME PlaybackInit PROVE PlayInv
  OBVIOUS
<1>1. MaxAngle * Duty \in Nat /\ RtosTick \in Nat
  BY PlaybackAssumption, Products
<1>2. PlayTypes
  BY <1>1 DEF PlaybackInit, PlayTypes, PlaybackTypeOK
<1>3. QED
  BY <1>2 DEF PlaybackInit, PlayInv, Reached, UnderWay

LEMMA PlayStep ==
    ASSUME PlayInv, NEW a \in Inputs, Play(a)
    PROVE  PlayInv'
<1>1. /\ anim = <<>> /\ Deserializes(a) /\ anim' = a
      /\ ApplyPose(a[1], a[1], One)
      /\ to' = 2 /\ start' = now
      /\ UNCHANGED <<offset, t, last_wake, now>>
  BY DEF Play
<1>2. a \in Seq(Keyframe) /\ Len(a) \in Nat /\ 1 \in 1..Len(a) /\ a # <<>>
  BY <1>1, InputsAssumption DEF Deserializes
<1>3. a[1].angles \in [Channel -> Nat] /\ a[1].time_ms \in Nat
  <2>1. a[1] \in Keyframe
    BY <1>2
  <2>2. QED
    BY <2>1, PlaybackAssumption DEF Keyframe
<1>4. /\ offset \in Offsets /\ t = -1 /\ last_wake \in Nat /\ now \in Nat
  BY <1>1 DEF PlayInv, PlayTypes, PlaybackTypeOK
<1>5. ASSUME NEW ch \in Channel
      PROVE  /\ Written(Way(a[1].angles[ch], a[1].angles[ch], One), ch) \in 0..MaxAngle * Duty
             /\ Way(a[1].angles[ch], a[1].angles[ch], One) = a[1].angles[ch] * Duty
  BY <1>3, <1>4, WayIn, WrittenIn, Units
<1>6. pose' = [ch \in Channel |-> Written(Way(a[1].angles[ch], a[1].angles[ch], One), ch)]
  BY <1>1 DEF ApplyPose
<1>7. /\ pose' \in [Channel -> 0..MaxAngle * Duty]
      /\ \A ch \in Channel : pose'[ch] = Written(a[1].angles[ch] * Duty, ch)
  BY <1>5, <1>6
<1>8. PlayTypes'
  <2>1. PlaybackTypeOK'
    BY <1>1, <1>2, <1>4, <1>7 DEF PlaybackTypeOK
  <2>2. Deserializes(anim')
    BY <1>1
  <2>3. QED
    BY <1>1, <1>4, <2>1, <2>2 DEF PlayTypes, Deserializes
<1>9. Reached'
  <2>1. Elapsed(to - 1)' = 0 /\ Floor(start)' = Floor(now) /\ Floor(now)' = Floor(now)
    BY <1>1, <1>3 DEF Elapsed, Floor
  <2>2. Floor(now) \in Nat
    BY <1>4, FloorOf
  <2>3. (to' - 2) * Late = 0 /\ to' - 1 = 1
    BY <1>1, Numbers
  <2>4. \A ch \in Channel :
           pose'[ch] = Written(anim[to - 1].angles[ch] * Duty, ch)'
    BY <1>1, <1>7, <2>3 DEF Written, Clamped
  <2>5. QED
    BY <1>1, <1>4, <2>1, <2>2, <2>3, <2>4 DEF Reached
<1>10. UnderWay'
  BY <1>1, <1>4 DEF UnderWay
<1>11. QED
  BY <1>8, <1>9, <1>10 DEF PlayInv

(* What a step leaves alone.                                               *)
LEMMA Constant ==
    ASSUME UNCHANGED <<anim, offset, start>>
    PROVE  /\ \A k : Elapsed(k)' = Elapsed(k)
           /\ \A x, ch : Written(x, ch)' = Written(x, ch)
           /\ Floor(start)' = Floor(start)
BY DEF Elapsed, Written, Clamped, Floor

(* The next keyframe is reached.                                           *)
LEMMA ReachNext ==
    ASSUME PlayInv, anim # <<>>, to <= Len(anim),
           ApplyPose(From, To, One), to' = to + 1, t' = -1,
           UNCHANGED <<anim, offset, last_wake, now, start>>,
           Floor(start) + Elapsed(to) <= Floor(now),
           now <= start + Elapsed(to) + (to - 1) * Late
    PROVE  PlayInv'
<1>1. /\ PlayTypes /\ to \in 2..Len(anim) /\ to - 1 \in 1..Len(anim) /\ to \in 1..Len(anim)
      /\ Len(anim) \in Nat
  BY SegmentIs, Frames DEF PlayInv
<1>2. /\ pose' \in [Channel -> 0..MaxAngle * Duty]
      /\ \A ch \in Channel : pose'[ch] = Written(anim[to].angles[ch] * Duty, ch)
  <2>1. ApplyPose(anim[to - 1], anim[to], One)
    BY DEF From, To
  <2>2. QED
    BY <1>1, <2>1, PoseIn, Units
<1>3. PlayTypes'
  <2>1. PlaybackTypeOK'
    BY <1>1, <1>2 DEF PlayTypes, PlaybackTypeOK
  <2>2. Deserializes(anim')
    BY <1>1 DEF PlayTypes
  <2>3. QED
    BY <1>1, <2>1, <2>2 DEF PlayTypes
<1>4. to' - 1 = to /\ to' - 2 = to - 1
  BY <1>1
<1>5. Reached'
  <2>1. /\ Elapsed(to - 1)' = Elapsed(to) /\ ((to - 2) * Late)' = (to - 1) * Late
        /\ Floor(start)' = Floor(start) /\ Floor(now)' = Floor(now)
    BY <1>4 DEF Elapsed, Floor, Late
  <2>2. \A ch \in Channel : pose'[ch] = Written(anim[to - 1].angles[ch] * Duty, ch)'
    BY <1>2, <1>4 DEF Written, Clamped
  <2>3. QED
    BY <1>4, <2>1, <2>2 DEF Reached
<1>6. UnderWay'
  BY DEF UnderWay
<1>7. QED
  BY <1>3, <1>5, <1>6 DEF PlayInv

LEMMA EmptyStep ==
    ASSUME PlayInv, EmptySegment
    PROVE  PlayInv'
<1>1. /\ anim # <<>> /\ to <= Len(anim) /\ t = -1 /\ Segment = 0
      /\ ApplyPose(From, To, One) /\ to' = to + 1
      /\ UNCHANGED <<anim, offset, t, last_wake, now, start>>
  BY DEF EmptySegment, Playing
<1>2. /\ PlayTypes /\ Floor(start) + Elapsed(to - 1) <= Floor(now)
      /\ now <= start + Elapsed(to - 1) + (to - 2) * Late
      /\ now \in Nat /\ start \in Nat
  BY <1>1 DEF PlayInv, Reached, PlayTypes, PlaybackTypeOK
<1>3. Elapsed(to) = Elapsed(to - 1) /\ Elapsed(to) \in Int /\ to \in Int
  BY <1>1, <1>2, SegmentIs
<1>4. (to - 1) * Late = (to - 2) * Late + Late /\ (to - 2) * Late \in Int /\ Late \in Nat
  <2>1. to - 2 \in Int /\ (to - 2) + 1 = to - 1
    BY <1>3
  <2>2. QED
    BY <2>1, OneMore, Numbers
<1>5. now <= start + Elapsed(to) + (to - 1) * Late
  <2> DEFINE E == Elapsed(to)
  <2> DEFINE L == (to - 2) * Late
  <2> DEFINE M == (to - 1) * Late
  <2>1. /\ E \in Int /\ L \in Int /\ Late \in Nat /\ M = L + Late
        /\ now \in Int /\ start \in Int
    BY <1>2, <1>3, <1>4
  <2>2. now <= start + E + L
    BY <1>2, <1>3
  <2> HIDE DEF E, L, M
  <2>3. now <= start + E + M
    BY <2>1, <2>2
  <2>4. QED
    BY <2>3 DEF E, M
<1>6. QED
  BY <1>1, <1>2, <1>3, <1>5, ReachNext

LEMMA LandStep ==
    ASSUME PlayInv, Land
    PROVE  PlayInv'
<1>1. /\ anim # <<>> /\ to <= Len(anim) /\ t # -1 /\ t >= Segment
      /\ ApplyPose(From, To, One) /\ to' = to + 1 /\ t' = -1
      /\ UNCHANGED <<anim, offset, last_wake, now, start>>
  BY DEF Land, Playing
<1>2. /\ PlayTypes /\ t \in Nat /\ Segment # 0 /\ t < Segment + Tick
      /\ now \in Nat /\ start \in Nat /\ last_wake \in Nat
  BY <1>1 DEF PlayInv, PlayTypes, PlaybackTypeOK
<1>3. /\ last_wake % RtosTick = 0 /\ last_wake <= now
      /\ Floor(start) + Elapsed(to - 1) + t <= last_wake
      /\ last_wake <= start + Elapsed(to - 1) + (to - 2) * Late + t
      /\ t > 0 => now <= last_wake + MaxDelay
  BY <1>1 DEF PlayInv, UnderWay
<1>4. /\ Elapsed(to) = Elapsed(to - 1) + Segment /\ Segment \in Nat
      /\ Elapsed(to - 1) \in Int /\ Elapsed(to) \in Int /\ to \in Int
  BY <1>1, <1>2, SegmentIs
<1>5. t > 0
  BY <1>1, <1>2, <1>4
<1>6. (to - 1) * Late = (to - 2) * Late + Late /\ (to - 2) * Late \in Int /\ Late \in Nat
  <2>1. to - 2 \in Int /\ (to - 2) + 1 = to - 1
    BY <1>4
  <2>2. QED
    BY <2>1, OneMore, Numbers
<1>7. Floor(start) + Elapsed(to) <= Floor(now)
  <2>1. last_wake <= Floor(now) /\ Floor(now) \in Nat /\ Floor(start) \in Nat
    BY <1>2, <1>3, FloorAbove, FloorOf
  <2>2. QED
    BY <1>1, <1>2, <1>3, <1>4, <2>1
<1>8. now <= start + Elapsed(to) + (to - 1) * Late
  <2>1. Late = Tick - 1 + MaxDelay /\ Tick \in Nat /\ MaxDelay \in Nat
    BY Numbers DEF Late
  <2> DEFINE L == (to - 2) * Late
  <2>2. L \in Int /\ (to - 1) * Late = L + Late
    BY <1>6
  <2>3. last_wake <= start + Elapsed(to - 1) + L + t
    BY <1>3
  <2> HIDE DEF L
  <2>4. now <= start + Elapsed(to - 1) + L + t + MaxDelay
    BY <1>2, <1>3, <1>4, <1>5, <2>1, <2>2, <2>3
  <2>5. t <= Segment + Tick - 1
    BY <1>2, <1>4, <2>1
  <2>6. now <= start + Elapsed(to - 1) + Segment + (L + (Tick - 1 + MaxDelay))
    BY <1>2, <1>4, <2>1, <2>2, <2>4, <2>5
  <2>7. QED
    BY <1>2, <1>4, <2>1, <2>2, <2>6
<1>9. QED
  BY <1>1, <1>7, <1>8, ReachNext

LEMMA EnterStep ==
    ASSUME PlayInv, EnterSegment
    PROVE  PlayInv'
<1>1. /\ anim # <<>> /\ to <= Len(anim) /\ t = -1 /\ Segment # 0
      /\ last_wake' = Floor(now) /\ t' = 0
      /\ UNCHANGED <<anim, offset, to, now, pose, start>>
  BY DEF EnterSegment, Playing, Floor
<1>2. /\ PlayTypes /\ now \in Nat /\ start \in Nat
      /\ Floor(start) + Elapsed(to - 1) <= Floor(now)
      /\ now <= start + Elapsed(to - 1) + (to - 2) * Late
  BY <1>1 DEF PlayInv, Reached, PlayTypes, PlaybackTypeOK
<1>3. /\ Floor(now) \in Nat /\ Floor(now) <= now /\ now < Floor(now) + RtosTick
      /\ Floor(now) % RtosTick = 0 /\ Floor(start) \in Nat
  BY <1>2, FloorOf
<1>4. /\ Segment \in Nat /\ Segment' = Segment /\ Elapsed(to - 1) \in Int /\ to \in Int
  BY <1>1, <1>2, SegmentIs DEF Segment, To, From
<1>5. PlayTypes'
  <2>1. PlaybackTypeOK'
    BY <1>1, <1>2, <1>3 DEF PlayTypes, PlaybackTypeOK
  <2>2. Deserializes(anim') /\ to' > 1
    BY <1>1, <1>2 DEF PlayTypes
  <2>3. t' < Segment' + Tick
    BY <1>1, <1>4, Numbers
  <2>4. QED
    BY <1>1, <1>4, <2>1, <2>2, <2>3 DEF PlayTypes
<1>6. Reached'
  BY <1>1 DEF Reached
<1>7. UnderWay'
  <2>1. (to - 2) * Late \in Int
    BY <1>4, OneMore
  <2>2. Elapsed(to - 1)' = Elapsed(to - 1) /\ Floor(start)' = Floor(start)
    BY <1>1, Constant
  <2>3. /\ last_wake' % RtosTick = 0 /\ last_wake' <= now
        /\ Floor(start) + Elapsed(to - 1) + 0 <= last_wake'
        /\ now < last_wake' + RtosTick
    BY <1>1, <1>2, <1>3, <1>4
  <2>4. last_wake' <= start + Elapsed(to - 1) + (to - 2) * Late + 0
    <3> DEFINE E == Elapsed(to - 1)
    <3> DEFINE L == (to - 2) * Late
    <3>1. E \in Int /\ L \in Int /\ start \in Int
      BY <1>2, <1>4, <2>1
    <3>2. now <= start + E + L /\ last_wake' <= now
      BY <1>2, <2>3
    <3>3. last_wake' \in Int /\ now \in Int
      BY <1>1, <1>2, <1>3
    <3> HIDE DEF E, L
    <3>4. last_wake' <= start + E + L + 0
      BY <3>1, <3>2, <3>3
    <3>5. QED
      BY <3>4 DEF E, L
  <2>5. QED
    BY <1>1, <2>2, <2>3, <2>4 DEF UnderWay
<1>8. QED
  BY <1>5, <1>6, <1>7 DEF PlayInv

(* One turn of the loop.  A wake-up was never so late that the next one is *)
(* past already.                                                           *)
LEMMA LoopStep ==
    ASSUME PlayInv, NEW late \in 0..MaxDelay, Step(late)
    PROVE  PlayInv'
<1>1. /\ anim # <<>> /\ to <= Len(anim) /\ t # -1 /\ t < Segment
      /\ now' = WakeUntil(last_wake) + late
      /\ last_wake' = last_wake + Tick /\ t' = t + Tick
      /\ UNCHANGED <<anim, offset, to, start>>
  BY DEF Step, Playing
<1>2. /\ PlayTypes /\ t \in Nat /\ Segment # 0
      /\ now \in Nat /\ start \in Nat /\ last_wake \in Nat
  BY <1>1 DEF PlayInv, PlayTypes, PlaybackTypeOK
<1>3. /\ last_wake % RtosTick = 0 /\ last_wake <= now
      /\ Floor(start) + Elapsed(to - 1) + t <= last_wake
      /\ last_wake <= start + Elapsed(to - 1) + (to - 2) * Late + t
      /\ t = 0 => now < last_wake + RtosTick
      /\ t > 0 => now <= last_wake + MaxDelay
  BY <1>1 DEF PlayInv, UnderWay
<1>4. /\ Segment \in Nat /\ Segment' = Segment /\ Elapsed(to - 1) \in Int /\ to \in Int
      /\ to - 1 \in 1..Len(anim) /\ to \in 1..Len(anim)
  BY <1>1, <1>2, SegmentIs DEF Segment, To, From
<1>5. now <= last_wake + Tick
  BY <1>2, <1>3, Numbers, TickCovers
<1>6. WakeUntil(last_wake) = last_wake + Tick
  BY <1>2, <1>5, Numbers DEF WakeUntil
<1>7. /\ now' = last_wake' + late /\ late \in Nat /\ late <= MaxDelay
      /\ t' \in Nat /\ t' > 0 /\ last_wake' \in Nat /\ now' \in Nat
  BY <1>1, <1>2, <1>6, Numbers
<1>8. pose' \in [Channel -> 0..MaxAngle * Duty]
  <2>1. PICK p \in Progress : ApplyPose(From, To, p)
    BY DEF Step
  <2>2. p \in Fraction
    BY <1>1, <1>2, ProgressIn
  <2>3. ApplyPose(anim[to - 1], anim[to], p)
    BY <2>1 DEF From, To
  <2>4. QED
    BY <1>1, <1>2, <1>4, <2>2, <2>3, PoseIn
<1>9. PlayTypes'
  <2>1. PlaybackTypeOK'
    BY <1>1, <1>2, <1>7, <1>8 DEF PlayTypes, PlaybackTypeOK
  <2>2. Deserializes(anim') /\ to' > 1
    BY <1>1, <1>2 DEF PlayTypes
  <2>3. t' < Segment' + Tick
    BY <1>1, <1>2, <1>4, Numbers
  <2>4. QED
    BY <1>1, <1>2, <1>4, <2>1, <2>2, <2>3 DEF PlayTypes
<1>10. Reached'
  BY <1>7 DEF Reached
<1>11. UnderWay'
  <2>1. Elapsed(to - 1)' = Elapsed(to - 1) /\ Floor(start)' = Floor(start)
    BY <1>1, Constant
  <2>2. (to - 2) * Late \in Int /\ Floor(start) \in Nat
    <3>1. to - 2 \in Int
      BY <1>4
    <3>2. QED
      BY <1>2, <3>1, OneMore, FloorOf
  <2>3. last_wake' % RtosTick = 0
    BY <1>1, <1>2, <1>3, NextWake
  <2>4. last_wake' <= now' /\ now' <= last_wake' + MaxDelay
    BY <1>1, <1>2, <1>6, Numbers
  <2>5. /\ Floor(start) + Elapsed(to - 1) + t' <= last_wake'
        /\ last_wake' <= start + Elapsed(to - 1) + (to - 2) * Late + t'
    <3> DEFINE F == Floor(start)
    <3> DEFINE E == Elapsed(to - 1)
    <3> DEFINE L == (to - 2) * Late
    <3>1. F \in Int /\ E \in Int /\ L \in Int
      BY <1>4, <2>2
    <3>2. F + E + t <= last_wake /\ last_wake <= start + E + L + t
      BY <1>3
    <3>3. /\ last_wake \in Int /\ start \in Int /\ t \in Int /\ Tick \in Int
          /\ last_wake' = last_wake + Tick /\ t' = t + Tick
      BY <1>1, <1>2, Numbers
    <3> HIDE DEF F, E, L
    <3>4. F + E + t' <= last_wake'
      BY <3>1, <3>2, <3>3
    <3>5. last_wake' <= start + E + L + t'
      BY <3>1, <3>2, <3>3
    <3>6. QED
      BY <3>4, <3>5 DEF F, E, L
  <2>6. QED
    BY <1>1, <1>7, <2>1, <2>3, <2>4, <2>5 DEF UnderWay
<1>12. QED
  BY <1>9, <1>10, <1>11 DEF PlayInv

LEMMA PlaybackStep == PlayInv /\ [PlaybackNext]_playbackVars => PlayInv'
<1> SUFFICES ASSUME PlayInv, [PlaybackNext]_playbackVars PROVE PlayInv'
  OBVIOUS
<1>1. CASE UNCHANGED playbackVars
  <2>1. UNCHANGED <<anim, offset, to, t, last_wake, now, pose, start>>
    BY <1>1 DEF playbackVars
  <2>2. PlayTypes'
    BY <2>1 DEF PlayInv, PlayTypes, PlaybackTypeOK, Segment, To, From, Deserializes
  <2>3. Reached' /\ UnderWay'
    BY <2>1 DEF PlayInv, Reached, UnderWay, Elapsed, Floor, Late, Written, Clamped
  <2>4. QED
    BY <2>2, <2>3 DEF PlayInv
<1>2. QED
  BY <1>1, PlayStep, EmptyStep, EnterStep, LandStep, LoopStep DEF PlaybackNext

LEMMA PlaybackInvariance == PlaybackSpec => []PlayInv
BY PlaybackBegins, PlaybackStep, PTL DEF PlaybackSpec

(* Whatever the keyframes, the easings and the calibration, a servo is told*)
(* an angle it can take, and no easing divides by zero                     *)
(* (custom_animation.c:80-149).                                            *)
THEOREM PosesInRange == PlaybackSpec => []PlaybackTypeOK
<1>1. PlayInv => PlaybackTypeOK
  BY DEF PlayInv, PlayTypes
<1>2. QED
  BY <1>1, PlaybackInvariance, PTL

(* The pose of each keyframe stands, neither early by a whole RTOS tick nor*)
(* late by more than one animation tick and one delay for each keyframe    *)
(* before it: delays inside a segment do not add up, what is lost at its   *)
(* end does (custom_animation.c:131-149).                                  *)
THEOREM OnTime == PlaybackSpec => []Punctual
<1>1. ASSUME PlayInv, anim # <<>>, t = -1
      PROVE  /\ \A ch \in Channel :
                   pose[ch] = Written(anim[to - 1].angles[ch] * Duty, ch)
             /\ (start + anim[to - 1].time_ms - anim[1].time_ms) - RtosTick < now
             /\ now <= start + anim[to - 1].time_ms - anim[1].time_ms
                         + (to - 1 - 1) * (Tick - 1 + MaxDelay)
  <2>1. /\ PlayTypes /\ start \in Nat /\ now \in Nat
        /\ to \in 2..Len(anim) + 1 /\ Len(anim) \in Nat /\ RtosTick \in Nat /\ Word \in Nat
    BY <1>1, Frames, PlaybackAssumption DEF PlayInv, PlayTypes, PlaybackTypeOK
  <2>2. to - 1 \in 1..Len(anim) /\ 1 \in 1..Len(anim) /\ to - 1 - 1 = to - 2
    BY <2>1
  <2>3. anim[to - 1].time_ms \in 0..Word-1 /\ anim[1].time_ms \in 0..Word-1
    BY <1>1, <2>1, <2>2, Frames
  <2>4. /\ \A ch \in Channel : pose[ch] = Written(anim[to - 1].angles[ch] * Duty, ch)
        /\ Floor(start) + Elapsed(to - 1) <= Floor(now)
        /\ now <= start + Elapsed(to - 1) + (to - 2) * (Tick - 1 + MaxDelay)
    BY <1>1 DEF PlayInv, Reached, Late
  <2>5. /\ Floor(start) \in Nat /\ Floor(now) \in Nat /\ start < Floor(start) + RtosTick
        /\ Floor(now) <= now
    BY <2>1, FloorOf
  <2>6. start + Elapsed(to - 1) = start + anim[to - 1].time_ms - anim[1].time_ms
    BY <2>1, <2>3 DEF Elapsed
  <2>7. Elapsed(to - 1) \in Int
    BY <2>1, <2>3 DEF Elapsed
  <2>8. start + Elapsed(to - 1) - RtosTick < now
    BY <2>1, <2>4, <2>5, <2>7
  <2>9. (to - 1 - 1) * (Tick - 1 + MaxDelay) = (to - 2) * (Tick - 1 + MaxDelay)
    BY <2>2
  <2>10. (start + anim[to - 1].time_ms - anim[1].time_ms) - RtosTick < now
    BY <2>1, <2>3, <2>6, <2>7, <2>8
  <2>11. now <= start + anim[to - 1].time_ms - anim[1].time_ms
                  + (to - 1 - 1) * (Tick - 1 + MaxDelay)
    BY <2>4, <2>6, <2>9
  <2>12. QED
    BY <2>4, <2>10, <2>11
<1>2. PlayInv => Punctual
  <2> SUFFICES ASSUME PlayInv, anim # <<>>, t = -1
               PROVE  /\ \A ch \in Channel :
                            pose[ch] = Written(anim[to - 1].angles[ch] * Duty, ch)
                      /\ (start + anim[to - 1].time_ms - anim[1].time_ms) - RtosTick < now
                      /\ now <= start + anim[to - 1].time_ms - anim[1].time_ms
                                  + (to - 1 - 1) * (Tick - 1 + MaxDelay)
    BY Zenon DEF Punctual
  <2> QED
    BY <1>1
<1>3. QED
  BY <1>2, PlaybackInvariance, PTL

----------------------------------------------------------------------------
(* Playback: curves.                                                       *)

(* Products keep an order, and a positive factor can be taken out again.   *)
LEMMA Scaled ==
    ASSUME NEW a \in Int, NEW b \in Int, NEW c \in Nat, a <= b
    PROVE  a * c <= b * c
<1>1. b - a \in Nat /\ (b - a) * c \in Nat
  BY Products
<1>2. (b - a) * c = b * c - a * c
  OBVIOUS
<1>3. a * c \in Int /\ b * c \in Int
  OBVIOUS
<1>4. QED
  BY <1>1, <1>2, <1>3

LEMMA Unscaled ==
    ASSUME NEW a \in Int, NEW b \in Int, NEW c \in Nat \ {0}, a * c <= b * c
    PROVE  a <= b
<1>1. SUFFICES ASSUME b + 1 <= a PROVE FALSE
  OBVIOUS
<1>2. (b + 1) * c <= a * c
  BY <1>1, Scaled
<1>3. (b + 1) * c = b * c + c
  OBVIOUS
<1>4. a * c \in Int /\ b * c \in Int
  OBVIOUS
<1>5. QED
  BY <1>2, <1>3, <1>4

LEMMA Multiplied ==
    ASSUME NEW a \in Nat, NEW b \in Nat, NEW c \in Nat, NEW d \in Nat, a <= b, c <= d
    PROVE  a * c <= b * d
<1>1. a * c <= b * c
  BY Scaled
<1>2. c * b <= d * b
  BY Scaled
<1>3. c * b = b * c /\ d * b = b * d /\ a * c \in Int /\ b * c \in Int /\ b * d \in Int
  OBVIOUS
<1>4. QED
  BY <1>1, <1>2, <1>3

LEMMA Rearranged ==
    ASSUME NEW a \in Int, NEW b \in Int, NEW c \in Int, NEW d \in Int
    PROVE  /\ (a * b) * (c * d) = (a * c) * (b * d)
           /\ (a * b) * (c * d) = (a * d) * (b * c)
           /\ (a * b) * c = (a * c) * b
           /\ a * b * c = a * (b * c)
OBVIOUS

(* The order of fractions.                                                 *)
LEMMA LETransitive ==
    ASSUME NEW x \in Fraction, NEW y \in Fraction, NEW z \in Fraction, LE(x, y), LE(y, z)
    PROVE  LE(x, z)
<1> DEFINE xn == x.n  xd == x.d  yn == y.n  yd == y.d  zn == z.n  zd == z.d
<1>1. /\ xn \in Int /\ xd \in Nat \ {0} /\ yn \in Int /\ yd \in Nat \ {0}
      /\ zn \in Int /\ zd \in Nat \ {0}
  BY FractionFields
<1>2. xn * yd <= yn * xd /\ yn * zd <= zn * yd
  BY DEF LE
<1> SUFFICES xn * zd <= zn * xd
  BY DEF LE
<1> HIDE DEF xn, xd, yn, yd, zn, zd
<1>3. (xn * yd) * zd <= (yn * xd) * zd
  BY <1>1, <1>2, Products, Scaled
<1>4. (yn * zd) * xd <= (zn * yd) * xd
  BY <1>1, <1>2, Products, Scaled
<1>5. /\ (xn * yd) * zd = (xn * zd) * yd /\ (zn * yd) * xd = (zn * xd) * yd
      /\ (yn * xd) * zd = (yn * zd) * xd
  BY <1>1, Rearranged
<1>6. xn * zd \in Int /\ zn * xd \in Int /\ (xn * zd) * yd \in Int /\ (zn * xd) * yd \in Int
      /\ (yn * zd) * xd \in Int
  BY <1>1, Products
<1>7. (xn * zd) * yd <= (zn * xd) * yd
  BY <1>3, <1>4, <1>5, <1>6
<1>8. QED
  BY <1>1, <1>6, <1>7, Unscaled

LEMMA LEReflexive ==
    ASSUME NEW x \in Fraction
    PROVE  LE(x, x)
<1>1. x.n * x.d \in Int
  BY FractionFields, Products
<1>2. QED
  BY <1>1 DEF LE

(* A curve on the way from 0 to 1.                                         *)
Curve(type, x) ==
    CASE type = "none" -> x
      [] type = "sine" -> Frac(5 * x.n * x.n, 4 * x.d * x.d + x.n * x.n)
      [] OTHER         -> Frac(x.n * x.n * x.n, x.d * x.d * x.d)

Smooth == {"none", "sine", "cubic"}

LEMMA CurveIs ==
    ASSUME NEW type \in Smooth, NEW x \in Fraction
    PROVE  EaseDepart(type, x) = {Curve(type, x)} /\ Curve(type, x) \in Fraction
<1>1. EaseDepart(type, x) = {Curve(type, x)}
  BY DEF EaseDepart, Curve, Smooth
<1>2. type \in EaseType
  BY DEF Smooth, EaseType
<1>3. EaseDepart(type, x) \subseteq Fraction
  BY <1>2, DepartIn
<1>4. QED
  BY <1>1, <1>3

LEMMA CurveKeepsOrder ==
    ASSUME NEW type \in Smooth, NEW x \in Fraction, NEW y \in Fraction,
           0 <= x.n, 0 <= y.n, LE(x, y)
    PROVE  LE(Curve(type, x), Curve(type, y))
<1> DEFINE a == x.n  b == x.d  c == y.n  e == y.d
<1> DEFINE u == a * e  v == c * b
<1>1. a \in Nat /\ b \in Nat \ {0} /\ c \in Nat /\ e \in Nat \ {0}
  BY FractionFields
<1>2. u \in Nat /\ v \in Nat /\ u <= v
  BY <1>1, Products DEF LE
<1>3. CASE type = "none"
  BY <1>3 DEF Curve
<1>4. CASE type = "sine"
  <2> DEFINE n1 == 5 * a * a  d1 == 4 * b * b + a * a
             n2 == 5 * c * c  d2 == 4 * e * e + c * c
  <2>1. Curve(type, x) = Frac(n1, d1) /\ Curve(type, y) = Frac(n2, d2)
    BY <1>4 DEF Curve
  <2>2. SUFFICES n1 * d2 <= n2 * d1
    BY <2>1 DEF LE, Frac
  <2> HIDE DEF a, b, c, e
  <2>3. u * u <= v * v /\ u * u \in Nat /\ v * v \in Nat
    BY <1>2, Multiplied, Products
  <2> DEFINE w == (a * a) * (c * c)
  <2>4. w \in Nat
    BY <1>1, Products
  <2>5. n1 * d2 = 20 * (u * u) + 5 * w
    BY <1>1
  <2>6. n2 * d1 = 20 * (v * v) + 5 * w
    BY <1>1
  <2> HIDE DEF n1, n2, d1, d2, w, u, v
  <2>7. QED
    BY <2>3, <2>4, <2>5, <2>6
<1>5. CASE type = "cubic"
  <2> DEFINE n1 == a * a * a  d1 == b * b * b  n2 == c * c * c  d2 == e * e * e
  <2>1. Curve(type, x) = Frac(n1, d1) /\ Curve(type, y) = Frac(n2, d2)
    BY <1>5 DEF Curve
  <2>2. SUFFICES n1 * d2 <= n2 * d1
    BY <2>1 DEF LE, Frac
  <2> HIDE DEF a, b, c, e
  <2>3. u * u <= v * v /\ u * u \in Nat /\ v * v \in Nat
    BY <1>2, Multiplied, Products
  <2>4. (u * u) * u <= (v * v) * v
    BY <1>2, <2>3, Multiplied
  <2>5. n1 * d2 = (u * u) * u
    BY <1>1
  <2>6. n2 * d1 = (v * v) * v
    BY <1>1
  <2>7. QED
    BY <2>4, <2>5, <2>6
<1>6. QED
  BY <1>3, <1>4, <1>5 DEF Smooth

LEMMA CurveEnds ==
    ASSUME NEW type \in Smooth
    PROVE  Curve(type, Zero).n = 0 /\ Curve(type, One).n = Curve(type, One).d
BY DEF Curve, Smooth, Zero, One, Frac

(* Between 0 and 1 a curve stays there.                                    *)
LEMMA CurveInside ==
    ASSUME NEW type \in Smooth, NEW x \in Fraction, 0 <= x.n, x.n <= x.d
    PROVE  /\ Curve(type, x) \in Fraction
           /\ 0 <= Curve(type, x).n /\ Curve(type, x).n <= Curve(type, x).d
<1> DEFINE y == Curve(type, x)  z == Curve(type, One)
<1>1. y \in Fraction /\ z \in Fraction
  BY CurveIs, Units
<1>2. LE(x, One) /\ LE(Zero, x)
  BY FractionFields DEF LE, Zero, One, Frac
<1>3. LE(y, z) /\ LE(Curve(type, Zero), y)
  BY <1>2, Units, CurveKeepsOrder DEF Zero, Frac
<1>4. /\ y.n \in Int /\ y.d \in Nat \ {0} /\ z.n \in Int /\ z.d \in Nat \ {0} /\ z.n = z.d
      /\ Curve(type, Zero).n = 0 /\ Curve(type, Zero).d \in Nat \ {0}
  BY <1>1, CurveIs, Units, CurveEnds, FractionFields
<1>5. y.n * z.d <= y.d * z.d
  <2>1. z.n * y.d = y.d * z.d
    BY <1>4
  <2>2. QED
    BY <1>3, <1>4, <2>1 DEF LE
<1>6. y.n <= y.d
  BY <1>4, <1>5, Unscaled
<1>7. 0 * Curve(type, Zero).d <= y.n * Curve(type, Zero).d
  <2>1. 0 * y.d = 0 /\ 0 * Curve(type, Zero).d = 0
    BY <1>4
  <2>2. QED
    BY <1>3, <1>4, <2>1 DEF LE
<1>8. 0 <= y.n
  BY <1>4, <1>7, Unscaled
<1>9. QED
  BY <1>1, <1>6, <1>8

----------------------------------------------------------------------------
(* Playback: the way covered after a time.                                 *)

(* The way covered u ms into a segment of s, departing as c within D and   *)
(* arriving as r within A.                                                 *)
FirstHalf(c)  == Frac(c.n, 2 * c.d)
SecondHalf(c) == Frac(2 * c.d - c.n, 2 * c.d)

Gone(D, u)    == Frac(u * D.d, D.n)
Left(A, s, u) == Frac((s - u) * A.d, A.n)

Covered(out, D, in, A, inMs, s, u) ==
    IF u * D.d < D.n THEN FirstHalf(Curve(out, Gone(D, u)))
    ELSE IF (s - u) * A.d > A.n \/ inMs = 0 THEN Frac(1, 2)
    ELSE SecondHalf(Curve(in, Left(A, s, u)))

Between(p) == p \in Fraction /\ LE(Zero, p) /\ LE(p, One)

LEMMA InBetween ==
    ASSUME NEW p \in Fraction
    PROVE  Between(p) <=> 0 <= p.n /\ p.n <= p.d
<1>1. p.n \in Int /\ p.d \in Nat \ {0}
  BY FractionFields
<1>2. LE(Zero, p) <=> 0 <= p.n
  BY <1>1 DEF LE, Zero, Frac
<1>3. LE(p, One) <=> p.n <= p.d
  BY <1>1 DEF LE, One, Frac
<1>4. QED
  BY <1>2, <1>3 DEF Between

LEMMA FirstHalfIn ==
    ASSUME NEW c, Between(c)
    PROVE  Between(FirstHalf(c)) /\ LE(FirstHalf(c), Frac(1, 2))
<1> DEFINE n == c.n  d == c.d
<1>1. n \in Int /\ d \in Nat \ {0} /\ 0 <= n /\ n <= d /\ 2 * d \in Nat \ {0}
  BY InBetween, FractionFields DEF Between
<1>2. FirstHalf(c) = Frac(n, 2 * d)
  BY DEF FirstHalf
<1> HIDE DEF n, d
<1>3. Frac(n, 2 * d) \in Fraction /\ Frac(n, 2 * d).n = n /\ Frac(n, 2 * d).d = 2 * d
  BY <1>1, FracIn
<1>4. Between(Frac(n, 2 * d))
  BY <1>1, <1>3, InBetween
<1>5. LE(Frac(n, 2 * d), Frac(1, 2))
  BY <1>1 DEF LE, Frac
<1>6. QED
  BY <1>2, <1>4, <1>5

LEMMA SecondHalfIn ==
    ASSUME NEW c, Between(c)
    PROVE  Between(SecondHalf(c)) /\ LE(Frac(1, 2), SecondHalf(c))
<1> DEFINE n == c.n  d == c.d
<1>1. /\ n \in Int /\ d \in Nat \ {0} /\ 0 <= n /\ n <= d /\ 2 * d \in Nat \ {0}
      /\ 2 * d - n \in Int
  BY InBetween, FractionFields DEF Between
<1>2. SecondHalf(c) = Frac(2 * d - n, 2 * d)
  BY DEF SecondHalf
<1> HIDE DEF n, d
<1>3. /\ Frac(2 * d - n, 2 * d) \in Fraction
      /\ Frac(2 * d - n, 2 * d).n = 2 * d - n /\ Frac(2 * d - n, 2 * d).d = 2 * d
  BY <1>1, FracIn
<1>4. Between(Frac(2 * d - n, 2 * d))
  BY <1>1, <1>3, InBetween
<1>5. LE(Frac(1, 2), Frac(2 * d - n, 2 * d))
  BY <1>1 DEF LE, Frac
<1>6. QED
  BY <1>2, <1>4, <1>5

LEMMA HalvesKeepOrder ==
    ASSUME NEW c \in Fraction, NEW e \in Fraction, LE(c, e)
    PROVE  LE(FirstHalf(c), FirstHalf(e)) /\ LE(SecondHalf(e), SecondHalf(c))
<1> DEFINE a == c.n  b == c.d  x == e.n  y == e.d
<1>1. a \in Int /\ b \in Int /\ x \in Int /\ y \in Int /\ a * y <= x * b
  BY FractionFields DEF LE
<1>2. /\ FirstHalf(c) = Frac(a, 2 * b) /\ FirstHalf(e) = Frac(x, 2 * y)
      /\ SecondHalf(c) = Frac(2 * b - a, 2 * b) /\ SecondHalf(e) = Frac(2 * y - x, 2 * y)
  BY DEF FirstHalf, SecondHalf
<1> HIDE DEF a, b, x, y
<1>3. a * (2 * y) <= x * (2 * b)
  <2>1. a * (2 * y) = 2 * (a * y) /\ x * (2 * b) = 2 * (x * b)
    BY <1>1
  <2>2. a * y \in Int /\ x * b \in Int
    BY <1>1
  <2>3. QED
    BY <1>1, <2>1, <2>2
<1>4. (2 * y - x) * (2 * b) <= (2 * b - a) * (2 * y)
  <2>1. (2 * y - x) * (2 * b) = 4 * (y * b) - 2 * (x * b)
    BY <1>1
  <2>2. (2 * b - a) * (2 * y) = 4 * (y * b) - 2 * (a * y)
    BY <1>1
  <2>3. a * y \in Int /\ x * b \in Int /\ y * b \in Int
    BY <1>1
  <2>4. QED
    BY <1>1, <2>1, <2>2, <2>3
<1>5. QED
  BY <1>2, <1>3, <1>4 DEF LE, Frac

LEMMA GoneIn ==
    ASSUME NEW D \in Fraction, NEW u \in Nat, u * D.d < D.n
    PROVE  Between(Gone(D, u))
<1>1. D.n \in Int /\ D.d \in Nat \ {0} /\ u * D.d \in Nat
  BY FractionFields, Products
<1>2. D.n \in Nat \ {0}
  BY <1>1
<1>3. /\ Gone(D, u) \in Fraction /\ Gone(D, u).n = u * D.d /\ Gone(D, u).d = D.n
  BY <1>1, <1>2, FracIn DEF Gone
<1>4. QED
  BY <1>1, <1>2, <1>3, InBetween

LEMMA LeftIn ==
    ASSUME NEW A \in Fraction, A.n > 0, NEW s \in Nat, NEW u \in Nat, u <= s,
           (s - u) * A.d <= A.n
    PROVE  Between(Left(A, s, u))
<1>1. A.n \in Nat \ {0} /\ A.d \in Nat \ {0} /\ s - u \in Nat /\ (s - u) * A.d \in Nat
  BY FractionFields, Products
<1>2. /\ Left(A, s, u) \in Fraction /\ Left(A, s, u).n = (s - u) * A.d
      /\ Left(A, s, u).d = A.n
  BY <1>1, FracIn DEF Left
<1>3. QED
  BY <1>1, <1>2, InBetween

LEMMA GoneGrows ==
    ASSUME NEW D \in Fraction, D.n > 0, NEW u \in Nat, NEW v \in Nat, u <= v
    PROVE  LE(Gone(D, u), Gone(D, v))
<1>1. D.n \in Nat \ {0} /\ D.d \in Nat \ {0}
  BY FractionFields
<1>2. u * D.d <= v * D.d /\ u * D.d \in Int /\ v * D.d \in Int
  BY <1>1, Scaled
<1>3. (u * D.d) * D.n <= (v * D.d) * D.n
  BY <1>1, <1>2, Scaled
<1>4. QED
  BY <1>3 DEF LE, Gone, Frac

LEMMA LeftShrinks ==
    ASSUME NEW A \in Fraction, A.n > 0, NEW s \in Nat, NEW u \in Nat, NEW v \in Nat,
           u <= v, v <= s
    PROVE  LE(Left(A, s, v), Left(A, s, u))
<1>1. A.n \in Nat \ {0} /\ A.d \in Nat \ {0} /\ s - u \in Nat /\ s - v \in Nat /\ s - v <= s - u
  BY FractionFields
<1>2. (s - v) * A.d <= (s - u) * A.d /\ (s - v) * A.d \in Int /\ (s - u) * A.d \in Int
  BY <1>1, Scaled, Products
<1>3. ((s - v) * A.d) * A.n <= ((s - u) * A.d) * A.n
  BY <1>1, <1>2, Scaled
<1>4. QED
  BY <1>3 DEF LE, Left, Frac

(* One half, and what lies before and behind.                              *)
LEMMA Half == Between(Frac(1, 2))
<1>1. Frac(1, 2) \in Fraction /\ Frac(1, 2).n = 1 /\ Frac(1, 2).d = 2
  BY FracIn
<1>2. QED
  BY <1>1, InBetween

LEMMA BetweenCurve ==
    ASSUME NEW type \in Smooth, NEW x, Between(x)
    PROVE  Between(Curve(type, x))
<1>1. x \in Fraction /\ 0 <= x.n /\ x.n <= x.d
  BY InBetween DEF Between
<1>2. QED
  BY <1>1, CurveInside, InBetween

(* A segment's easings, as Scale leaves them.                              *)
Shares(D, A, inMs, s) ==
    /\ D \in Fraction /\ A \in Fraction /\ s \in Nat
    /\ inMs # 0 => A.n > 0

LEMMA CoveredIn ==
    ASSUME NEW out \in Smooth, NEW in \in Smooth, NEW D, NEW A, NEW inMs, NEW s,
           Shares(D, A, inMs, s), NEW u \in Nat, u <= s
    PROVE  /\ Between(Covered(out, D, in, A, inMs, s, u))
           /\ u * D.d < D.n => LE(Covered(out, D, in, A, inMs, s, u), Frac(1, 2))
           /\ ~(u * D.d < D.n) => LE(Frac(1, 2), Covered(out, D, in, A, inMs, s, u))
<1> DEFINE p == Covered(out, D, in, A, inMs, s, u)
<1>1. CASE u * D.d < D.n
  <2>1. p = FirstHalf(Curve(out, Gone(D, u)))
    BY <1>1 DEF Covered
  <2>2. Between(Curve(out, Gone(D, u)))
    BY <1>1, GoneIn, BetweenCurve DEF Shares
  <2>3. QED
    BY <1>1, <2>1, <2>2, FirstHalfIn
<1>2. CASE ~(u * D.d < D.n) /\ ((s - u) * A.d > A.n \/ inMs = 0)
  <2>1. p = Frac(1, 2)
    BY <1>2 DEF Covered
  <2>2. QED
    BY <1>2, <2>1, Half, LEReflexive DEF Between
<1>3. CASE ~(u * D.d < D.n) /\ ~((s - u) * A.d > A.n \/ inMs = 0)
  <2>1. p = SecondHalf(Curve(in, Left(A, s, u)))
    BY <1>3 DEF Covered
  <2>2. A.n \in Int /\ A.d \in Int /\ (s - u) * A.d \in Int
    BY FractionFields DEF Shares
  <2>3. A.n > 0 /\ (s - u) * A.d <= A.n
    BY <1>3, <2>2 DEF Shares
  <2>4. Between(Curve(in, Left(A, s, u)))
    BY <2>3, LeftIn, BetweenCurve DEF Shares
  <2>5. QED
    BY <1>3, <2>1, <2>4, SecondHalfIn
<1>4. QED
  BY <1>1, <1>2, <1>3

(* Later is further.                                                       *)
LEMMA CoveredGrows ==
    ASSUME NEW out \in Smooth, NEW in \in Smooth, NEW D, NEW A, NEW inMs, NEW s,
           Shares(D, A, inMs, s), NEW u \in Nat, NEW v \in Nat, u <= v, v <= s
    PROVE  LE(Covered(out, D, in, A, inMs, s, u), Covered(out, D, in, A, inMs, s, v))
<1> DEFINE p == Covered(out, D, in, A, inMs, s, u)
           q == Covered(out, D, in, A, inMs, s, v)
<1>1. /\ D \in Fraction /\ A \in Fraction /\ s \in Nat /\ u <= s
      /\ D.n \in Int /\ D.d \in Nat \ {0} /\ A.n \in Int /\ A.d \in Nat \ {0}
  BY FractionFields DEF Shares
<1>2. /\ u * D.d <= v * D.d /\ (s - v) * A.d <= (s - u) * A.d
      /\ u * D.d \in Nat /\ v * D.d \in Nat
      /\ (s - u) * A.d \in Nat /\ (s - v) * A.d \in Nat
  <2>1. s - v \in Nat /\ s - u \in Nat /\ s - v <= s - u
    BY <1>1
  <2>2. QED
    BY <1>1, <2>1, Scaled, Products
<1>3. Between(p) /\ Between(q) /\ p \in Fraction /\ q \in Fraction
  BY <1>1, CoveredIn DEF Between
<1>4. CASE v * D.d < D.n
  <2>1. u * D.d < D.n /\ D.n > 0
    BY <1>1, <1>2, <1>4
  <2>2. p = FirstHalf(Curve(out, Gone(D, u))) /\ q = FirstHalf(Curve(out, Gone(D, v)))
    BY <1>4, <2>1 DEF Covered
  <2>3. Between(Gone(D, u)) /\ Between(Gone(D, v)) /\ LE(Gone(D, u), Gone(D, v))
    BY <1>1, <1>4, <2>1, GoneIn, GoneGrows
  <2>4. /\ Gone(D, u) \in Fraction /\ 0 <= Gone(D, u).n
        /\ Gone(D, v) \in Fraction /\ 0 <= Gone(D, v).n
    BY <2>3, InBetween DEF Between
  <2>5. LE(Curve(out, Gone(D, u)), Curve(out, Gone(D, v)))
    BY <2>3, <2>4, CurveKeepsOrder
  <2>6. Curve(out, Gone(D, u)) \in Fraction /\ Curve(out, Gone(D, v)) \in Fraction
    BY <2>4, CurveIs
  <2>7. QED
    BY <2>2, <2>5, <2>6, HalvesKeepOrder
<1>5. CASE ~(v * D.d < D.n) /\ u * D.d < D.n
  <2>1. LE(p, Frac(1, 2)) /\ LE(Frac(1, 2), q)
    BY <1>1, <1>5, CoveredIn
  <2>2. Frac(1, 2) \in Fraction
    BY Half DEF Between
  <2>3. QED
    BY <1>3, <2>1, <2>2, LETransitive
<1>6. CASE /\ ~(u * D.d < D.n) /\ ~(v * D.d < D.n)
           /\ (s - u) * A.d > A.n \/ inMs = 0
  <2>1. p = Frac(1, 2)
    BY <1>6 DEF Covered
  <2>2. LE(Frac(1, 2), q)
    BY <1>6, CoveredIn
  <2>3. QED
    BY <2>1, <2>2
<1>7. CASE /\ ~(u * D.d < D.n) /\ ~(v * D.d < D.n)
           /\ ~((s - u) * A.d > A.n \/ inMs = 0)
  <2>1. A.n > 0 /\ (s - u) * A.d <= A.n /\ (s - v) * A.d <= A.n
    BY <1>1, <1>2, <1>7 DEF Shares
  <2>2. /\ p = SecondHalf(Curve(in, Left(A, s, u)))
        /\ q = SecondHalf(Curve(in, Left(A, s, v)))
    BY <1>1, <1>2, <1>7, <2>1 DEF Covered
  <2>3. Between(Left(A, s, u)) /\ Between(Left(A, s, v)) /\ LE(Left(A, s, v), Left(A, s, u))
    BY <1>1, <2>1, LeftIn, LeftShrinks
  <2>4. /\ Left(A, s, u) \in Fraction /\ 0 <= Left(A, s, u).n
        /\ Left(A, s, v) \in Fraction /\ 0 <= Left(A, s, v).n
    BY <2>3, InBetween DEF Between
  <2>5. LE(Curve(in, Left(A, s, v)), Curve(in, Left(A, s, u)))
    BY <2>3, <2>4, CurveKeepsOrder
  <2>6. Curve(in, Left(A, s, v)) \in Fraction /\ Curve(in, Left(A, s, u)) \in Fraction
    BY <2>4, CurveIs
  <2>7. QED
    BY <2>2, <2>5, <2>6, HalvesKeepOrder
<1>8. QED
  <2>1. (v * D.d < D.n \/ ~(v * D.d < D.n)) /\ (u * D.d < D.n => v * D.d < D.n \/ ~(v * D.d < D.n))
    OBVIOUS
  <2>2. v * D.d < D.n \/ ~(u * D.d < D.n) \/ (~(v * D.d < D.n) /\ u * D.d < D.n)
    OBVIOUS
  <2>3. QED
    BY <1>4, <1>5, <1>6, <1>7, <2>2

----------------------------------------------------------------------------
(* Playback: from the way covered to the angles.                            *)

(* Division rounds down.                                                   *)
LEMMA RoundsDown ==
    ASSUME NEW x \in Int, NEW d \in Nat \ {0}
    PROVE  /\ x \div d \in Int
           /\ (x \div d) * d <= x /\ x < (x \div d) * d + d
<1>1. x \div d \in Int
  OBVIOUS
<1>2. x % d \in 0..(d - 1)
  OBVIOUS
<1>3. x % d = x - d * (x \div d)
  BY SMT
<1>4. d * (x \div d) = (x \div d) * d /\ (x \div d) * d \in Int
  BY <1>1, Products
<1>5. QED
  BY <1>1, <1>2, <1>3, <1>4

LEMMA QuotientsKeepOrder ==
    ASSUME NEW x \in Int, NEW d \in Nat \ {0}, NEW y \in Int, NEW e \in Nat \ {0},
           x * e <= y * d
    PROVE  x \div d <= y \div e
<1> DEFINE m == x \div d  k == y \div e
<1>1. m \in Int /\ m * d <= x /\ k \in Int /\ y < k * e + e
  BY RoundsDown
<1> HIDE DEF m, k
<1>2. (m * d) * e <= x * e
  BY <1>1, Scaled, Products
<1>3. (m * d) * e = (m * e) * d /\ m * e \in Int /\ x * e \in Int /\ y * d \in Int
  BY <1>1, Products, Rearranged
<1>4. (m * e) * d <= y * d
  BY <1>2, <1>3, Products
<1>5. m * e <= y
  BY <1>3, <1>4, Unscaled
<1>6. m * e <= (k + 1) * e - 1
  <2>1. (k + 1) * e = k * e + e /\ k * e \in Int
    BY <1>1
  <2>2. QED
    BY <1>1, <1>3, <1>5, <2>1
<1>7. m <= k
  <2>1. SUFFICES ASSUME k + 1 <= m PROVE FALSE
    BY <1>1
  <2>2. (k + 1) * e <= m * e /\ (k + 1) * e \in Int
    BY <1>1, <2>1, Scaled
  <2>3. QED
    BY <1>3, <1>6, <2>2
<1>8. QED
  BY <1>7 DEF m, k

(* The way from a towards b grows with the part covered.                   *)
Reach(a, b, p) == Duty * (a * p.d + (b - a) * p.n)

LEMMA ReachApart ==
    ASSUME NEW a \in Int, NEW b \in Int, NEW p \in Fraction, NEW q \in Fraction
    PROVE  /\ Reach(a, b, p) \in Int /\ Reach(a, b, q) \in Int
           /\ Reach(a, b, q) * p.d - Reach(a, b, p) * q.d
                = (Duty * (b - a)) * (q.n * p.d - p.n * q.d)
<1> DEFINE x == p.n  d == p.d  y == q.n  e == q.d
<1>1. x \in Int /\ d \in Int /\ y \in Int /\ e \in Int /\ Duty \in Int /\ b - a \in Int
  BY FractionFields, PlaybackAssumption
<1>2. /\ Reach(a, b, p) = Duty * (a * d + (b - a) * x)
      /\ Reach(a, b, q) = Duty * (a * e + (b - a) * y)
  BY DEF Reach
<1> HIDE DEF x, d, y, e
<1>3. /\ Duty * (a * d + (b - a) * x) \in Int /\ Duty * (a * e + (b - a) * y) \in Int
  <2>1. a * d + (b - a) * x \in Int /\ a * e + (b - a) * y \in Int
    BY <1>1
  <2>2. QED
    BY <1>1, <2>1, Products
<1>4. \A g, c \in Int :
        (g * (a * e + c * y)) * d - (g * (a * d + c * x)) * e = (g * c) * (y * d - x * e)
  BY <1>1
<1>5. (Duty * (a * e + (b - a) * y)) * d - (Duty * (a * d + (b - a) * x)) * e
        = (Duty * (b - a)) * (y * d - x * e)
  BY <1>1, <1>4
<1>6. QED
  BY <1>2, <1>3, <1>5 DEF x, d, y, e

LEMMA WayGrows ==
    ASSUME NEW a \in Int, NEW b \in Int, NEW p \in Fraction, NEW q \in Fraction, LE(p, q)
    PROVE  /\ Way(a, b, p) \in Int /\ Way(a, b, q) \in Int
           /\ a <= b => Way(a, b, p) <= Way(a, b, q)
           /\ b <= a => Way(a, b, q) <= Way(a, b, p)
<1> DEFINE f == q.n * p.d - p.n * q.d
<1>1. /\ Duty \in Nat /\ p.d \in Nat \ {0} /\ q.d \in Nat \ {0} /\ p.n \in Int /\ q.n \in Int
      /\ q.n * p.d \in Int /\ p.n * q.d \in Int /\ f \in Nat
  <2>1. /\ Duty \in Nat /\ p.d \in Nat \ {0} /\ q.d \in Nat \ {0} /\ p.n \in Int /\ q.n \in Int
    BY FractionFields, PlaybackAssumption
  <2>2. q.n * p.d \in Int /\ p.n * q.d \in Int
    BY <2>1, Products
  <2>3. QED
    BY <2>1, <2>2 DEF LE
<1>2. /\ Reach(a, b, p) \in Int /\ Reach(a, b, q) \in Int
      /\ Reach(a, b, q) * p.d - Reach(a, b, p) * q.d = (Duty * (b - a)) * f
  BY ReachApart
<1>3. Reach(a, b, q) * p.d \in Int /\ Reach(a, b, p) * q.d \in Int
  BY <1>1, <1>2, Products
<1>4. Way(a, b, p) = Reach(a, b, p) \div p.d /\ Way(a, b, q) = Reach(a, b, q) \div q.d
  BY DEF Way, Reach
<1>5. Way(a, b, p) \in Int /\ Way(a, b, q) \in Int
  BY <1>1, <1>2, <1>4, Quotients
<1>6. ASSUME a <= b PROVE Way(a, b, p) <= Way(a, b, q)
  <2>1. b - a \in Nat /\ Duty * (b - a) \in Nat
    BY <1>1, <1>6, Products
  <2>2. (Duty * (b - a)) * f \in Nat
    BY <1>1, <2>1, Products
  <2>3. Reach(a, b, p) * q.d <= Reach(a, b, q) * p.d
    BY <1>2, <1>3, <2>2
  <2>4. QED
    BY <1>1, <1>2, <1>4, <2>3, QuotientsKeepOrder
<1>7. ASSUME b <= a PROVE Way(a, b, q) <= Way(a, b, p)
  <2>1. a - b \in Nat /\ Duty * (a - b) \in Nat
    BY <1>1, <1>7, Products
  <2>2. (Duty * (a - b)) * f \in Nat
    BY <1>1, <2>1, Products
  <2>3. \A g, h \in Int : (g * (b - a)) * h = -((g * (a - b)) * h)
    OBVIOUS
  <2>4. (Duty * (b - a)) * f = -((Duty * (a - b)) * f)
    BY <1>1, <2>3
  <2>5. Reach(a, b, q) * p.d <= Reach(a, b, p) * q.d
    BY <1>2, <1>3, <2>2, <2>4
  <2>6. QED
    BY <1>1, <1>2, <1>4, <2>5, QuotientsKeepOrder
<1>8. QED
  BY <1>5, <1>6, <1>7

(* From zero to one: the two keyframes' own angles.                        *)
LEMMA WayBegins ==
    ASSUME NEW a \in Int, NEW b \in Int
    PROVE  Way(a, b, Zero) = a * Duty /\ Way(a, b, One) = b * Duty
<1>1. /\ Zero.n = 0 /\ Zero.d = 1 /\ Duty \in Int
  BY PlaybackAssumption DEF Zero, Frac
<1>2. a * 1 + (b - a) * 0 = a
  OBVIOUS
<1>3. Way(a, b, Zero) = (Duty * a) \div 1
  BY <1>1, <1>2 DEF Way
<1>4. Duty * a \in Int /\ Duty * a = a * Duty
  BY <1>1
<1>5. \A x \in Int : x \div 1 = x
  OBVIOUS
<1>6. QED
  BY <1>3, <1>4, <1>5, WayIn, Units

(* Clamping and calibration keep the order, and bring nothing further apart. *)
LEMMA WrittenKeepsOrder ==
    ASSUME NEW x \in Int, NEW y \in Int, x <= y, offset \in Offsets, NEW ch \in Channel
    PROVE  /\ Written(x, ch) \in Int /\ Written(y, ch) \in Int
           /\ Written(x, ch) <= Written(y, ch)
           /\ Written(y, ch) - Written(x, ch) <= y - x
<1> DEFINE m == MaxAngle * Duty  k == offset[ch] * Duty
<1>1. m \in Nat
  BY PlaybackAssumption, Products
<1>2. k \in Int
  <2>1. offset[ch] \in Int
    BY InputsAssumption
  <2>2. QED
    BY <2>1, PlaybackAssumption
<1>3. \A i \in Int : Clamped(i) = IF i < 0 THEN 0 ELSE IF i > m THEN m ELSE i
  BY DEF Clamped
<1>4. Written(x, ch) = Clamped(Clamped(x) + k) /\ Written(y, ch) = Clamped(Clamped(y) + k)
  BY DEF Written
<1> HIDE DEF m, k
<1>5. \A i, j \in Int : i <= j =>
         /\ Clamped(i) \in Int /\ Clamped(j) \in Int
         /\ Clamped(i) <= Clamped(j) /\ Clamped(j) - Clamped(i) <= j - i
  BY <1>1, <1>3
<1>6. /\ Clamped(x) \in Int /\ Clamped(y) \in Int
      /\ Clamped(x) <= Clamped(y) /\ Clamped(y) - Clamped(x) <= y - x
  BY <1>5
<1>7. /\ Clamped(x) + k \in Int /\ Clamped(y) + k \in Int
      /\ Clamped(x) + k <= Clamped(y) + k
  BY <1>2, <1>6
<1>8. /\ Clamped(Clamped(x) + k) \in Int /\ Clamped(Clamped(y) + k) \in Int
      /\ Clamped(Clamped(x) + k) <= Clamped(Clamped(y) + k)
      /\ Clamped(Clamped(y) + k) - Clamped(Clamped(x) + k) <= (Clamped(y) + k) - (Clamped(x) + k)
  BY <1>5, <1>7
<1>9. QED
  BY <1>2, <1>4, <1>6, <1>8

----------------------------------------------------------------------------
(* Playback: the way of a segment without elastic easings.                 *)

Gentle == Authored(From.ease_out_type) /\ Authored(To.ease_in_type)

Goes(u) ==
    Covered(From.ease_out_type, Depart, To.ease_in_type, ArriveIn, To.ease_in_ms, Segment, u)

(* The part covered when the servos were last told.                        *)
Prior == IF t = 0 THEN Zero ELSE Goes(t - Tick)

Trail ==
    t # -1 /\ Gentle =>
        /\ t = 0 \/ t >= Tick
        /\ \A ch \in Channel :
              pose[ch] = Written(Way(From.angles[ch], To.angles[ch], Prior), ch)

TrailInv == PlayInv /\ Trail

(* What the servos are told is what Covered says.                          *)
LEMMA ProgressIs ==
    ASSUME PlayTypes, t # -1, t < Segment, Gentle
    PROVE  Progress = {Goes(t)}
<1>1. /\ anim # <<>> /\ to <= Len(anim)
  BY DEF PlayTypes, PlaybackTypeOK
<1>2. /\ From.ease_out_type \in EaseType /\ To.ease_in_type \in EaseType
      /\ From.ease_out_type \in Smooth /\ To.ease_in_type \in Smooth
      /\ Depart \in Fraction /\ ArriveIn \in Fraction /\ Segment \in Nat /\ Segment - t \in Nat
      /\ t \in Nat
  <2>1. From.ease_out_type \in EaseType /\ To.ease_in_type \in EaseType
    BY <1>1, EasingsIn
  <2>2. From.ease_out_type \in Smooth /\ To.ease_in_type \in Smooth
    BY <2>1 DEF Gentle, Authored, EaseType, Smooth
  <2>3. Segment \in Nat /\ t \in Nat
    BY <1>1, SegmentIs DEF PlayTypes, PlaybackTypeOK
  <2>4. QED
    BY <1>1, <2>1, <2>2, <2>3, EasingsIn
<1>3. /\ Depart.n \in Int /\ Depart.d \in Nat \ {0} /\ Depart.d \in Nat
      /\ ArriveIn.n \in Int /\ ArriveIn.d \in Nat \ {0} /\ ArriveIn.d \in Nat
  BY <1>2, FractionFields
<1>4. CASE Departing
  <2> DEFINE x == Frac(t * Depart.d, Depart.n)
  <2>1. x \in Fraction
    <3>1. t * Depart.d \in Nat /\ Depart.n \in Nat \ {0}
      BY <1>2, <1>3, <1>4, Products DEF Departing
    <3>2. QED
      BY <3>1, FracIn
  <2>2. EaseDepart(From.ease_out_type, x) = {Curve(From.ease_out_type, x)}
    BY <1>2, <2>1, CurveIs
  <2>3. Progress = {HalfOf(y) : y \in EaseDepart(From.ease_out_type, x)}
    BY <1>4 DEF Progress
  <2>4. Progress = {HalfOf(Curve(From.ease_out_type, x))}
    BY <2>2, <2>3
  <2>5. Goes(t) = FirstHalf(Curve(From.ease_out_type, x))
    BY <1>4 DEF Goes, Covered, Departing, Gone
  <2>6. QED
    BY <2>4, <2>5 DEF HalfOf, FirstHalf
<1>5. CASE ~Departing /\ Holding
  <2>1. Progress = {Frac(1, 2)}
    BY <1>5 DEF Progress
  <2>2. Goes(t) = Frac(1, 2)
    BY <1>5 DEF Goes, Covered, Departing, Holding
  <2>3. QED
    BY <2>1, <2>2
<1>6. CASE ~Departing /\ ~Holding
  <2> DEFINE w == (Segment - t) * ArriveIn.d
             r == Frac(w, ArriveIn.n)
             c == Curve(To.ease_in_type, r)
  <2>1. w \in Nat /\ ArriveIn.n \in Nat \ {0}
    <3>1. w \in Nat \ {0}
      <4>1. Segment - t \in Nat \ {0}
        BY <1>2
      <4>2. QED
        BY <1>3, <4>1, Products
    <3>2. ~(w > ArriveIn.n)
      BY <1>6 DEF Holding
    <3>3. QED
      BY <1>3, <3>1, <3>2
  <2>2. r \in Fraction /\ r.n = w /\ r.d = ArriveIn.n
    BY <2>1, FracIn
  <2>3. c \in Fraction /\ EaseDepart(To.ease_in_type, r) = {c}
    BY <1>2, <2>2, CurveIs
  <2>4. c.n \in Int /\ c.d \in Nat \ {0}
    BY <2>3, FractionFields
  <2>5. Minus(One, Minus(One, r)) = r
    <3> HIDE DEF w
    <3>1. Minus(One, r) = Frac(ArriveIn.n - w, ArriveIn.n)
      <4>1. 1 * ArriveIn.n - w * 1 = ArriveIn.n - w /\ 1 * ArriveIn.n = ArriveIn.n
        BY <2>1
      <4>2. QED
        BY <4>1 DEF Minus, One, Frac
    <3>2. Minus(One, Frac(ArriveIn.n - w, ArriveIn.n)) = Frac(w, ArriveIn.n)
      <4>1. /\ 1 * ArriveIn.n - (ArriveIn.n - w) * 1 = w /\ 1 * ArriveIn.n = ArriveIn.n
        BY <2>1
      <4>2. QED
        BY <4>1 DEF Minus, One, Frac
    <3>3. QED
      BY <3>1, <3>2
  <2>6. EaseArrive(To.ease_in_type, Minus(One, r)) = {Minus(One, c)}
    BY <2>3, <2>5 DEF EaseArrive
  <2>7. Progress = {HalfOf(Frac(y.n + y.d, y.d)) : y \in EaseArrive(To.ease_in_type, Minus(One, r))}
    BY <1>6 DEF Progress
  <2>8. Progress = {HalfOf(Frac(Minus(One, c).n + Minus(One, c).d, Minus(One, c).d))}
    BY <2>6, <2>7
  <2> HIDE DEF c
  <2>9. Minus(One, c) = Frac(c.d - c.n, c.d)
    <3>1. 1 * c.d - c.n * 1 = c.d - c.n /\ 1 * c.d = c.d
      BY <2>4
    <3>2. QED
      BY <3>1 DEF Minus, One, Frac
  <2>10. HalfOf(Frac((c.d - c.n) + c.d, c.d)) = SecondHalf(c)
    <3>1. (c.d - c.n) + c.d = 2 * c.d - c.n
      BY <2>4
    <3>2. QED
      BY <3>1 DEF HalfOf, SecondHalf, Frac
  <2>11. Progress = {SecondHalf(c)}
    BY <2>8, <2>9, <2>10 DEF Frac
  <2>12. Goes(t) = SecondHalf(c)
    BY <1>6 DEF Goes, Covered, Departing, Holding, Left, c
  <2>13. QED
    BY <2>11, <2>12
<1>7. QED
  BY <1>4, <1>5, <1>6

(* The easings of a segment share it.                                      *)
LEMMA SharesIt ==
    ASSUME PlayTypes, anim # <<>>, to <= Len(anim), Segment # 0, Gentle
    PROVE  /\ Shares(Depart, ArriveIn, To.ease_in_ms, Segment)
           /\ From.ease_out_type \in Smooth /\ To.ease_in_type \in Smooth
<1>1. /\ Depart \in Fraction /\ ArriveIn \in Fraction
      /\ From.ease_out_type \in Smooth /\ To.ease_in_type \in Smooth
  BY EasingsIn DEF Gentle, Authored, EaseType, Smooth
<1>2. Segment \in Nat \ {0} /\ to \in 1..Len(anim) /\ to - 1 \in 1..Len(anim)
  BY SegmentIs
<1>3. From.ease_out_ms \in Nat /\ To.ease_in_ms \in Nat
  BY <1>2, Frames DEF From, To
<1>4. ASSUME To.ease_in_ms # 0 PROVE ArriveIn.n > 0
  <2> DEFINE k == Scale(Segment, From.ease_out_ms, To.ease_in_ms)
  <2>1. k.n \in Nat \ {0}
    BY <1>2 DEF Scale, One, Frac
  <2>2. To.ease_in_ms \in Nat \ {0}
    BY <1>3, <1>4
  <2> HIDE DEF k
  <2>3. To.ease_in_ms * k.n \in Nat \ {0}
    BY <2>1, <2>2, Products
  <2>4. ArriveIn.n = To.ease_in_ms * k.n
    BY DEF ArriveIn, Frac, k
  <2>5. QED
    BY <2>3, <2>4
<1>5. QED
  BY <1>1, <1>2, <1>4 DEF Shares

LEMMA GoesOn ==
    ASSUME PlayTypes, t # -1, Gentle
    PROVE  /\ \A u \in Nat : u <= Segment => Between(Goes(u))
           /\ \A u, v \in Nat : u <= v /\ v <= Segment => LE(Goes(u), Goes(v))
<1>1. /\ anim # <<>> /\ to <= Len(anim) /\ Segment # 0
  BY DEF PlayTypes
<1>2. /\ Shares(Depart, ArriveIn, To.ease_in_ms, Segment)
      /\ From.ease_out_type \in Smooth /\ To.ease_in_type \in Smooth
  BY <1>1, SharesIt
<1>3. \A u \in Nat : u <= Segment => Between(Goes(u))
  BY <1>2, CoveredIn DEF Goes
<1>4. \A u, v \in Nat : u <= v /\ v <= Segment => LE(Goes(u), Goes(v))
  BY <1>2, CoveredGrows DEF Goes
<1>5. QED
  BY <1>3, <1>4

(* What is next is not behind what was told last.                          *)
LEMMA PriorIs ==
    ASSUME TrailInv, t # -1, Gentle
    PROVE  /\ Between(Prior)
           /\ t < Segment => Between(Goes(t)) /\ LE(Prior, Goes(t))
<1>1. /\ PlayTypes /\ t \in Nat /\ t < Segment + Tick /\ (t = 0 \/ t >= Tick)
  BY DEF TrailInv, Trail, PlayInv, PlayTypes, PlaybackTypeOK
<1>2. Segment \in Nat /\ Tick \in Nat
  BY <1>1, SegmentIs, Numbers DEF PlayTypes
<1>3. t < Segment => Between(Goes(t))
  BY <1>1, <1>2, GoesOn
<1>4. CASE t = 0
  <2>1. Prior = Zero /\ Between(Zero)
    BY <1>4, Units, InBetween DEF Prior, Zero, Frac
  <2>2. QED
    BY <1>3, <2>1 DEF Between
<1>5. CASE t # 0
  <2>1. Prior = Goes(t - Tick) /\ t - Tick \in Nat /\ t - Tick <= Segment /\ t - Tick <= t
    BY <1>1, <1>2, <1>5 DEF Prior
  <2>2. Between(Goes(t - Tick))
    BY <1>1, <2>1, GoesOn
  <2>3. ASSUME t < Segment PROVE LE(Goes(t - Tick), Goes(t))
    <3>1. t <= Segment
      BY <1>1, <1>2, <2>3
    <3>2. QED
      BY <1>1, <2>1, <3>1, GoesOn
  <2>4. QED
    BY <1>3, <2>1, <2>2, <2>3
<1>6. QED
  BY <1>4, <1>5

LEMMA SameSegment ==
    ASSUME UNCHANGED <<anim, to>>
    PROVE  /\ From' = From /\ To' = To /\ Segment' = Segment
           /\ Depart' = Depart /\ ArriveIn' = ArriveIn
           /\ Gentle' = Gentle
<1>1. From' = From /\ To' = To
  BY DEF From, To
<1>2. Segment' = Segment
  BY <1>1 DEF Segment
<1>3. QED
  BY <1>1, <1>2 DEF Depart, ArriveIn, Scale, Gentle, Authored, Frac, One

(* What the servos were told this turn is what they were told last in the  *)
(* next.                                                                   *)
LEMMA Stands ==
    ASSUME UNCHANGED <<anim, to, offset>>, NEW p, Prior' = p,
           \A ch \in Channel :
              pose'[ch] = Written(Way(From.angles[ch], To.angles[ch], p), ch)
    PROVE  (\A ch \in Channel :
              pose[ch] = Written(Way(From.angles[ch], To.angles[ch], Prior), ch))'
<1>1. From' = From /\ To' = To
  BY SameSegment
<1>2. QED
  BY <1>1 DEF Written, Clamped, Way

LEMMA TrailStep == TrailInv /\ [PlaybackNext]_playbackVars => Trail'
<1> SUFFICES ASSUME TrailInv, [PlaybackNext]_playbackVars, t' # -1, Gentle' PROVE Trail'
  BY DEF Trail
<1>1. CASE UNCHANGED playbackVars
  <2>1. UNCHANGED <<anim, offset, to, t, last_wake, now, pose, start>>
    BY <1>1 DEF playbackVars
  <2>2. /\ From' = From /\ To' = To /\ Segment' = Segment
        /\ Depart' = Depart /\ ArriveIn' = ArriveIn /\ Gentle' = Gentle
    BY <2>1, SameSegment
  <2>3. Prior' = Prior
    BY <2>1, <2>2 DEF Prior, Goes, Zero, Frac
  <2>4. Trail /\ t # -1 /\ Gentle
    BY <2>1, <2>2 DEF TrailInv
  <2>5. \A ch \in Channel :
           pose'[ch] = Written(Way(From.angles[ch], To.angles[ch], Prior), ch)
    BY <2>1, <2>4 DEF Trail
  <2>6. (\A ch \in Channel :
           pose[ch] = Written(Way(From.angles[ch], To.angles[ch], Prior), ch))'
    BY <2>1, <2>3, <2>5, Stands
  <2>7. QED
    BY <2>1, <2>4, <2>6 DEF Trail
<1>2. ASSUME NEW a \in Inputs, Play(a) PROVE FALSE
  BY <1>2 DEF Play, TrailInv, PlayInv, PlayTypes
<1>3. CASE EmptySegment
  BY <1>3 DEF EmptySegment
<1>4. CASE Land
  BY <1>4 DEF Land
<1>5. CASE EnterSegment
  <2>1. /\ anim # <<>> /\ t = -1 /\ t' = 0 /\ to <= Len(anim)
        /\ UNCHANGED <<anim, offset, to, now, pose, start>>
    BY <1>5 DEF EnterSegment, Playing
  <2>2. From' = From /\ To' = To /\ Prior' = Zero
    BY <2>1, SameSegment DEF Prior, Zero, Frac
  <2>3. \A ch \in Channel : pose[ch] = Written(From.angles[ch] * Duty, ch)
    BY <2>1 DEF TrailInv, PlayInv, Reached, From
  <2>4. \A ch \in Channel : From.angles[ch] \in Int /\ To.angles[ch] \in Int
    <3>1. to \in 1..Len(anim) /\ to - 1 \in 1..Len(anim)
      BY <2>1, SegmentIs DEF TrailInv, PlayInv
    <3>2. QED
      BY <2>1, <3>1, Frames DEF From, To, TrailInv, PlayInv
  <2>5. \A ch \in Channel : Way(From.angles[ch], To.angles[ch], Zero) = From.angles[ch] * Duty
    BY <2>4, WayBegins
  <2>6. (\A ch \in Channel :
           pose[ch] = Written(Way(From.angles[ch], To.angles[ch], Prior), ch))'
    <3>1. \A ch \in Channel :
             pose'[ch] = Written(Way(From.angles[ch], To.angles[ch], Zero), ch)
      BY <2>1, <2>3, <2>5
    <3>2. QED
      BY <2>1, <2>2, <3>1, Stands
  <2>7. QED
    BY <2>1, <2>6 DEF Trail
<1>6. ASSUME NEW late \in 0..MaxDelay, Step(late) PROVE Trail'
  <2>1. /\ t # -1 /\ t < Segment /\ t' = t + Tick /\ UNCHANGED <<anim, offset, to, start>>
    BY <1>6 DEF Step
  <2>2. /\ From' = From /\ To' = To /\ Segment' = Segment
        /\ Depart' = Depart /\ ArriveIn' = ArriveIn /\ Gentle' = Gentle
    BY <2>1, SameSegment
  <2>3. PlayTypes /\ t \in Nat /\ Tick \in Nat \ {0}
    BY <2>1, Numbers DEF TrailInv, PlayInv, PlayTypes, PlaybackTypeOK
  <2>4. PICK p \in Progress : ApplyPose(From, To, p)
    BY <1>6 DEF Step
  <2>5. p = Goes(t)
    BY <2>1, <2>2, <2>3, <2>4, ProgressIs
  <2>6. t' # 0 /\ t' - Tick = t /\ t' >= Tick
    BY <2>1, <2>3
  <2>7. Prior' = Goes(t)
    BY <2>2, <2>6 DEF Prior, Goes
  <2>8. \A ch \in Channel : pose'[ch] = Written(Way(From.angles[ch], To.angles[ch], Goes(t)), ch)
    BY <2>4, <2>5 DEF ApplyPose
  <2>9. (\A ch \in Channel :
            pose[ch] = Written(Way(From.angles[ch], To.angles[ch], Prior), ch))'
    BY <2>1, <2>7, <2>8, Stands
  <2>10. QED
    BY <2>6, <2>9 DEF Trail
<1>7. QED
  BY <1>1, <1>2, <1>3, <1>4, <1>5, <1>6 DEF PlaybackNext

LEMMA TrailInvariance == PlaybackSpec => []TrailInv
<1>1. PlaybackInit => TrailInv
  BY PlaybackBegins DEF TrailInv, Trail, PlaybackInit
<1>2. TrailInv /\ [PlaybackNext]_playbackVars => TrailInv'
  BY PlaybackStep, TrailStep DEF TrailInv
<1>3. QED
  BY <1>1, <1>2, PTL DEF PlaybackSpec

(* Where a servo is told to go in the turn after p was covered.            *)
LEMMA OnTheWay ==
    ASSUME PlayInv, anim # <<>>, to <= Len(anim), NEW ch \in Channel,
           NEW p, Between(p), NEW q, Between(q), LE(p, q)
    PROVE  LET a == From.angles[ch]
               b == To.angles[ch]
               Told(x) == Written(Way(a, b, x), ch)
           IN  /\ a \in Int /\ b \in Int /\ Told(p) \in Int /\ Told(q) \in Int
               /\ Written(b * Duty, ch) \in Int
               /\ a <= b => Told(p) <= Told(q) /\ Told(q) <= Written(b * Duty, ch)
               /\ b <= a => Told(p) >= Told(q) /\ Told(q) >= Written(b * Duty, ch)
<1> DEFINE a == From.angles[ch]
           b == To.angles[ch]
           Told(x) == Written(Way(a, b, x), ch)
<1>1. a \in Int /\ b \in Int /\ offset \in Offsets
  <2>1. to \in 1..Len(anim) /\ to - 1 \in 1..Len(anim)
    BY SegmentIs DEF PlayInv
  <2>2. QED
    BY <2>1, Frames DEF From, To, PlayInv, PlayTypes, PlaybackTypeOK
<1>2. p \in Fraction /\ q \in Fraction /\ LE(q, One) /\ One \in Fraction
  BY Units DEF Between
<1> HIDE DEF a, b
<1>3. /\ Way(a, b, p) \in Int /\ Way(a, b, q) \in Int
      /\ a <= b => Way(a, b, p) <= Way(a, b, q)
      /\ b <= a => Way(a, b, q) <= Way(a, b, p)
  BY <1>1, <1>2, WayGrows
<1>4. /\ Way(a, b, One) \in Int /\ Way(a, b, One) = b * Duty
      /\ a <= b => Way(a, b, q) <= Way(a, b, One)
      /\ b <= a => Way(a, b, One) <= Way(a, b, q)
  BY <1>1, <1>2, WayGrows, WayBegins
<1>5. \A x, y \in Int : x <= y => /\ Written(x, ch) \in Int /\ Written(y, ch) \in Int
                                  /\ Written(x, ch) <= Written(y, ch)
  BY <1>1, WrittenKeepsOrder
<1>6. Told(p) \in Int /\ Told(q) \in Int /\ Written(b * Duty, ch) \in Int
  BY <1>3, <1>4, <1>5
<1>7. a <= b => Told(p) <= Told(q) /\ Told(q) <= Written(b * Duty, ch)
  BY <1>3, <1>4, <1>5
<1>8. b <= a => Told(p) >= Told(q) /\ Told(q) >= Written(b * Duty, ch)
  BY <1>3, <1>4, <1>5, <1>6
<1>9. QED
  BY <1>1, <1>6, <1>7, <1>8 DEF a, b

(* What a turn of the loop, or the end of a segment, tells the servos.     *)
LEMMA ToldNext ==
    ASSUME TrailInv, PlaybackNext, Playing, t # -1, Gentle
    PROVE  \E q : /\ Between(q) /\ LE(Prior, q)
                  /\ t < Segment => q = Goes(t)
                  /\ t >= Segment => q = One
                  /\ \A ch \in Channel :
                        pose'[ch] = Written(Way(From.angles[ch], To.angles[ch], q), ch)
<1>1. PlayTypes /\ t \in Int /\ Segment \in Int
  <2>1. PlayTypes /\ t \in Int
    BY DEF TrailInv, PlayInv, PlayTypes, PlaybackTypeOK
  <2>2. QED
    BY <2>1, SegmentIs DEF Playing
<1>2. CASE Land
  <2>1. t >= Segment /\ ApplyPose(From, To, One)
    BY <1>2 DEF Land
  <2>2. Between(One) /\ LE(Prior, One)
    BY PriorIs, Units, LEReflexive, InBetween DEF Between
  <2>3. QED
    BY <1>1, <2>1, <2>2 DEF ApplyPose
<1>3. ASSUME NEW late \in 0..MaxDelay, Step(late)
      PROVE  /\ t < Segment
             /\ \A ch \in Channel :
                   pose'[ch] = Written(Way(From.angles[ch], To.angles[ch], Goes(t)), ch)
  <2>1. t < Segment
    BY <1>3 DEF Step
  <2>2. PICK p \in Progress : ApplyPose(From, To, p)
    BY <1>3 DEF Step
  <2>3. p = Goes(t)
    BY <1>1, <2>1, <2>2, ProgressIs
  <2>4. QED
    BY <2>1, <2>2, <2>3 DEF ApplyPose
<1>4. Land \/ \E late \in 0..MaxDelay : Step(late)
  BY DEF PlaybackNext, Play, EmptySegment, EnterSegment, Playing
<1>5. CASE \E late \in 0..MaxDelay : Step(late)
  <2>1. /\ t < Segment
        /\ \A ch \in Channel :
              pose'[ch] = Written(Way(From.angles[ch], To.angles[ch], Goes(t)), ch)
    BY <1>3, <1>5
  <2>2. Between(Goes(t)) /\ LE(Prior, Goes(t))
    BY <2>1, PriorIs
  <2>3. QED
    BY <1>1, <2>1, <2>2
<1>6. QED
  BY <1>2, <1>4, <1>5

(* Without elastic easings no servo turns back on its way to the next      *)
(* keyframe, nor overshoots it, whatever the easings' lengths and the      *)
(* calibration (custom_animation.c:133-149).                               *)
THEOREM NeverTurnsBack == PlaybackSpec => NeverBack
<1>1. ASSUME TrailInv, PlaybackNext, Playing, t # -1, Gentle, NEW ch \in Channel
      PROVE  LET goal == Written(To.angles[ch] * Duty, ch)
             IN  \/ pose[ch] <= pose'[ch] /\ pose'[ch] <= goal
                 \/ pose[ch] >= pose'[ch] /\ pose'[ch] >= goal
  <2>1. PICK q : /\ Between(q) /\ LE(Prior, q)
                 /\ pose'[ch] = Written(Way(From.angles[ch], To.angles[ch], q), ch)
    BY <1>1, ToldNext
  <2>2. /\ Between(Prior)
        /\ pose[ch] = Written(Way(From.angles[ch], To.angles[ch], Prior), ch)
    BY <1>1, PriorIs DEF TrailInv, Trail
  <2>3. /\ PlayInv /\ anim # <<>> /\ to <= Len(anim)
    BY <1>1 DEF TrailInv, Playing
  <2> DEFINE a == From.angles[ch]
             b == To.angles[ch]
             goal == Written(b * Duty, ch)
             before == Written(Way(a, b, Prior), ch)
             after == Written(Way(a, b, q), ch)
  <2>4. /\ a \in Int /\ b \in Int
        /\ a <= b => before <= after /\ after <= goal
        /\ b <= a => before >= after /\ after >= goal
    BY <2>1, <2>2, <2>3, OnTheWay
  <2> HIDE DEF a, b
  <2>5. a <= b \/ b <= a
    BY <2>4
  <2>6. QED
    BY <2>1, <2>2, <2>4, <2>5 DEF a, b
<1>2. TrailInv /\ [PlaybackNext]_playbackVars =>
        [ Playing /\ t # -1 /\ Authored(From.ease_out_type) /\ Authored(To.ease_in_type) =>
            \A ch \in Channel :
                LET goal == Written(To.angles[ch] * Duty, ch)
                IN  \/ pose[ch] <= pose'[ch] /\ pose'[ch] <= goal
                    \/ pose[ch] >= pose'[ch] /\ pose'[ch] >= goal ]_playbackVars
  BY <1>1 DEF Gentle
<1>3. QED
  BY <1>2, TrailInvariance, PTL DEF PlaybackSpec, NeverBack

----------------------------------------------------------------------------
(* Playback: how steep the way is.                                         *)

(* From p to q the way covered rises by no more than g / h.                *)
Rise(p, q, g, h) == (q.n * p.d - p.n * q.d) * h <= g * (p.d * q.d)

LEMMA RiseAdds ==
    ASSUME NEW p \in Fraction, NEW m \in Fraction, NEW q \in Fraction,
           NEW g \in Int, NEW h \in Nat \ {0}, NEW k \in Int, NEW l \in Nat \ {0},
           Rise(p, m, g, h), Rise(m, q, k, l)
    PROVE  Rise(p, q, g * l + k * h, h * l)
<1> DEFINE a == p.n  b == p.d  c == m.n  d == m.d  e == q.n  f == q.d
<1>1. /\ a \in Int /\ b \in Nat \ {0} /\ c \in Int /\ d \in Nat \ {0}
      /\ e \in Int /\ f \in Nat \ {0}
  BY FractionFields
<1>2. (c * b - a * d) * h <= g * (b * d) /\ (e * d - c * f) * l <= k * (d * f)
  BY DEF Rise
<1> SUFFICES (e * b - a * f) * (h * l) <= (g * l + k * h) * (b * f)
  BY DEF Rise
<1> HIDE DEF a, b, c, d, e, f
<1> DEFINE u == (c * b - a * d) * h
           v == (e * d - c * f) * l
           x == (e * b - a * f) * (h * l)
           y == (g * l + k * h) * (b * f)
<1>3. /\ u \in Int /\ v \in Int /\ g * (b * d) \in Int /\ k * (d * f) \in Int
      /\ x \in Int /\ y \in Int /\ l * f \in Nat /\ h * b \in Nat
  BY <1>1, Products
<1>4. u * (l * f) <= (g * (b * d)) * (l * f)
  BY <1>2, <1>3, Scaled
<1>5. v * (h * b) <= (k * (d * f)) * (h * b)
  BY <1>2, <1>3, Scaled
<1>6. x * d = u * (l * f) + v * (h * b)
  BY <1>1
<1>7. y * d = (g * (b * d)) * (l * f) + (k * (d * f)) * (h * b)
  BY <1>1
<1>8. /\ u * (l * f) \in Int /\ v * (h * b) \in Int
      /\ (g * (b * d)) * (l * f) \in Int /\ (k * (d * f)) * (h * b) \in Int
  BY <1>3, Products
<1> HIDE DEF u, v, x, y
<1>9. x * d <= y * d
  BY <1>4, <1>5, <1>6, <1>7, <1>8
<1>10. x <= y
  BY <1>1, <1>3, <1>9, Unscaled
<1>11. QED
  BY <1>10 DEF x, y

LEMMA RiseLess ==
    ASSUME NEW p \in Fraction, NEW q \in Fraction,
           NEW g \in Int, NEW h \in Nat \ {0}, NEW k \in Int, NEW l \in Nat \ {0},
           Rise(p, q, g, h), g * l <= k * h
    PROVE  Rise(p, q, k, l)
<1> DEFINE f == q.n * p.d - p.n * q.d
           b == p.d * q.d
<1>1. f \in Int /\ b \in Nat \ {0}
  <2>1. p.n \in Int /\ q.n \in Int /\ p.d \in Nat \ {0} /\ q.d \in Nat \ {0}
    BY FractionFields
  <2>2. q.n * p.d \in Int /\ p.n * q.d \in Int
    BY <2>1, Products
  <2>3. QED
    BY <2>1, <2>2, Products
<1>2. f * h <= g * b
  BY DEF Rise
<1> SUFFICES f * l <= k * b
  BY DEF Rise
<1> HIDE DEF f, b
<1>3. (f * h) * l <= (g * b) * l
  BY <1>1, <1>2, Products, Scaled
<1>4. (g * l) * b <= (k * h) * b
  BY <1>1, Products, Scaled
<1>5. /\ (f * h) * l = (f * l) * h /\ (g * b) * l = (g * l) * b
      /\ (k * h) * b = (k * b) * h
  BY <1>1, Rearranged
<1>6. /\ f * l \in Int /\ k * b \in Int /\ (f * l) * h \in Int /\ (g * l) * b \in Int
      /\ (k * b) * h \in Int
  BY <1>1, Products
<1>7. (f * l) * h <= (k * b) * h
  BY <1>3, <1>4, <1>5, <1>6
<1>8. QED
  BY <1>6, <1>7, Unscaled

LEMMA HalvesAre ==
    /\ Frac(1, 2) \in Fraction
    /\ \A c \in Fraction : FirstHalf(c) \in Fraction /\ SecondHalf(c) \in Fraction
<1>1. Frac(1, 2) \in Fraction
  BY FracIn
<1>2. ASSUME NEW c \in Fraction
      PROVE  FirstHalf(c) \in Fraction /\ SecondHalf(c) \in Fraction
  <2>1. c.n \in Int /\ 2 * c.d \in Nat \ {0} /\ 2 * c.d - c.n \in Int
    BY FractionFields
  <2>2. QED
    BY <2>1, FracIn DEF FirstHalf, SecondHalf
<1>3. QED
  BY <1>1, <1>2

LEMMA RiseHalves ==
    ASSUME NEW c \in Fraction, NEW e \in Fraction, NEW g \in Int, NEW h \in Nat \ {0},
           Rise(c, e, g, h)
    PROVE  /\ Rise(FirstHalf(c), FirstHalf(e), g, 2 * h)
           /\ Rise(SecondHalf(e), SecondHalf(c), g, 2 * h)
<1> DEFINE a == c.n  b == c.d  x == e.n  y == e.d
<1>1. a \in Int /\ b \in Nat \ {0} /\ x \in Int /\ y \in Nat \ {0}
  BY FractionFields
<1>2. (x * b - a * y) * h <= g * (b * y)
  BY DEF Rise
<1>3. /\ FirstHalf(c) = Frac(a, 2 * b) /\ FirstHalf(e) = Frac(x, 2 * y)
      /\ SecondHalf(c) = Frac(2 * b - a, 2 * b) /\ SecondHalf(e) = Frac(2 * y - x, 2 * y)
  BY DEF FirstHalf, SecondHalf
<1> HIDE DEF a, b, x, y
<1> DEFINE l == (x * b - a * y) * h
           r == g * (b * y)
<1>4. l \in Int /\ r \in Int /\ l <= r
  BY <1>1, <1>2, Products
<1>5. (x * (2 * b) - a * (2 * y)) * (2 * h) <= g * ((2 * b) * (2 * y))
  <2>1. (x * (2 * b) - a * (2 * y)) * (2 * h) = 4 * l
    BY <1>1
  <2>2. g * ((2 * b) * (2 * y)) = 4 * r
    BY <1>1
  <2> HIDE DEF l, r
  <2>3. QED
    BY <1>4, <2>1, <2>2
<1>6. ((2 * b - a) * (2 * y) - (2 * y - x) * (2 * b)) * (2 * h) <= g * ((2 * y) * (2 * b))
  <2>1. ((2 * b - a) * (2 * y) - (2 * y - x) * (2 * b)) * (2 * h) = 4 * l
    BY <1>1
  <2>2. g * ((2 * y) * (2 * b)) = 4 * r
    BY <1>1
  <2> HIDE DEF l, r
  <2>3. QED
    BY <1>4, <2>1, <2>2
<1>7. QED
  BY <1>3, <1>5, <1>6 DEF Rise, Frac

(* No curve is steeper than its Slope.                                     *)
LEMMA CurveRises ==
    ASSUME NEW type \in Smooth, NEW x, Between(x), NEW y, Between(y), LE(x, y)
    PROVE  Rise(Curve(type, x), Curve(type, y),
                Slope(type) * (y.n * x.d - x.n * y.d), x.d * y.d)
<1> DEFINE a == x.n  b == x.d  c == y.n  e == y.d
<1> DEFINE u == a * e  v == c * b  w == b * e
<1>1. a \in Nat /\ b \in Nat \ {0} /\ c \in Nat /\ e \in Nat \ {0} /\ a <= b /\ c <= e
  BY InBetween, FractionFields DEF Between
<1>2. u \in Nat /\ v \in Nat /\ w \in Nat \ {0} /\ u <= v /\ v - u \in Nat
  BY <1>1, Products DEF LE
<1>3. v <= w
  BY <1>1, Multiplied
<1>4. CASE type = "none"
  <2>1. Curve(type, x) = x /\ Curve(type, y) = y /\ Slope(type) = 1
    BY <1>4 DEF Curve, Slope
  <2>2. (v - u) * w <= (1 * (v - u)) * w
    BY <1>2
  <2>3. QED
    BY <2>1, <2>2 DEF Rise
<1>5. CASE type = "sine"
  <2> DEFINE n1 == 5 * a * a  d1 == 4 * b * b + a * a
             n2 == 5 * c * c  d2 == 4 * e * e + c * c
  <2>1. /\ Curve(type, x) = Frac(n1, d1) /\ Curve(type, y) = Frac(n2, d2) /\ Slope(type) = 2
    BY <1>5 DEF Curve, Slope
  <2>2. SUFFICES (n2 * d1 - n1 * d2) * w <= (2 * (v - u)) * (d1 * d2)
    BY <2>1 DEF Rise, Frac
  <2> HIDE DEF a, b, c, e
  <2> DEFINE z == (a * c) * (a * c)
             k == 16 * (w * w) + 4 * (u * u) + 4 * (v * v)
  <2>3. d1 * d2 = k + z
    BY <1>1
  <2>4. (n2 * d1 - n1 * d2) * w = (v - u) * (20 * ((v + u) * w))
    BY <1>1
  <2>5. z \in Nat /\ u * u \in Int /\ v * v \in Int /\ w * w \in Nat /\ u * w \in Int /\ v * w \in Int
    BY <1>1, <1>2, Products
  <2> HIDE DEF n1, n2, d1, d2, z, u, v, w
  <2>6. 20 * ((v + u) * w) <= 2 * (k + z)
    <3>1. \A i \in Int : 4 * (i * i) + 8 * (w * w) >= 10 * (i * w)
      <4>1. ASSUME NEW i \in Int PROVE 4 * (i * i) + 8 * (w * w) >= 10 * (i * w)
        <5> DEFINE j == 4 * i - 5 * w
        <5>1. j \in Int
          BY <1>2
        <5>2. j * j >= 0
          BY <5>1
        <5>3. j * j = 16 * (i * i) - 40 * (i * w) + 25 * (w * w)
          BY <1>2
        <5>4. i * i \in Int /\ i * w \in Int
          BY <1>2
        <5> HIDE DEF j
        <5>5. QED
          BY <2>5, <5>2, <5>3, <5>4
      <4>2. QED
        BY <4>1
    <3>2. /\ 4 * (u * u) + 8 * (w * w) >= 10 * (u * w)
          /\ 4 * (v * v) + 8 * (w * w) >= 10 * (v * w)
      BY <1>2, <3>1
    <3>3. (v + u) * w = v * w + u * w
      BY <1>2
    <3>4. QED
      BY <2>5, <3>2, <3>3
  <2>7. /\ 20 * ((v + u) * w) \in Int /\ k \in Int /\ 2 * (k + z) \in Int
    <3>1. (v + u) * w \in Int
      BY <1>2
    <3>2. QED
      BY <2>5, <3>1
  <2> HIDE DEF k
  <2>8. (20 * ((v + u) * w)) * (v - u) <= (2 * (k + z)) * (v - u)
    BY <1>2, <2>6, <2>7, Scaled
  <2>9. /\ (v - u) * (20 * ((v + u) * w)) = (20 * ((v + u) * w)) * (v - u)
        /\ (2 * (v - u)) * (k + z) = (2 * (k + z)) * (v - u)
    BY <1>2, <2>5, <2>7
  <2>10. QED
    BY <2>3, <2>4, <2>8, <2>9
<1>6. CASE type = "cubic"
  <2> DEFINE n1 == a * a * a  d1 == b * b * b  n2 == c * c * c  d2 == e * e * e
  <2>1. /\ Curve(type, x) = Frac(n1, d1) /\ Curve(type, y) = Frac(n2, d2) /\ Slope(type) = 3
    BY <1>6 DEF Curve, Slope
  <2>2. SUFFICES (n2 * d1 - n1 * d2) * w <= (3 * (v - u)) * (d1 * d2)
    BY <2>1 DEF Rise, Frac
  <2> HIDE DEF a, b, c, e
  <2> DEFINE k == v * v + v * u + u * u
  <2>3. (n2 * d1 - n1 * d2) * w = ((v - u) * w) * k
    BY <1>1
  <2>4. (3 * (v - u)) * (d1 * d2) = ((v - u) * w) * (3 * (w * w))
    BY <1>1
  <2> HIDE DEF n1, n2, d1, d2, u, v, w
  <2>5. v * v <= w * w /\ v * u <= w * w /\ u * u <= w * w
    <3>1. u <= w
      BY <1>2, <1>3
    <3>2. QED
      BY <1>2, <1>3, <3>1, Multiplied
  <2>6. v * v \in Nat /\ v * u \in Nat /\ u * u \in Nat /\ w * w \in Nat /\ (v - u) * w \in Nat
    BY <1>2, Products
  <2>7. k <= 3 * (w * w) /\ k \in Int /\ 3 * (w * w) \in Int
    BY <2>5, <2>6
  <2> HIDE DEF k
  <2>8. k * ((v - u) * w) <= (3 * (w * w)) * ((v - u) * w)
    BY <2>6, <2>7, Scaled
  <2>9. /\ k * ((v - u) * w) = ((v - u) * w) * k
        /\ (3 * (w * w)) * ((v - u) * w) = ((v - u) * w) * (3 * (w * w))
    BY <2>6, <2>7
  <2>10. QED
    BY <2>3, <2>4, <2>8, <2>9
<1>7. QED
  BY <1>4, <1>5, <1>6 DEF Smooth

(* Easings that share their segment, both with a length of their own.      *)
Fitting(D, A, s) ==
    /\ D \in Fraction /\ A \in Fraction /\ s \in Nat /\ D.n > 0 /\ A.n > 0
    /\ D.n * A.d + A.n * D.d <= s * (D.d * A.d)

LEMMA SlopeIs ==
    ASSUME NEW type \in Smooth
    PROVE  Slope(type) \in Nat
BY DEF Slope, Smooth

LEMMA FittingParts ==
    ASSUME NEW D, NEW A, NEW s, Fitting(D, A, s)
    PROVE  /\ D.n \in Nat \ {0} /\ D.d \in Nat \ {0} /\ A.n \in Nat \ {0} /\ A.d \in Nat \ {0}
           /\ s \in Nat /\ D \in Fraction /\ A \in Fraction
BY FractionFields DEF Fitting

(* While departing.                                                        *)
LEMMA RiseDeparting ==
    ASSUME NEW out \in Smooth, NEW D \in Fraction, NEW u \in Nat, NEW v \in Nat,
           u <= v, u * D.d < D.n, v * D.d < D.n
    PROVE  Rise(FirstHalf(Curve(out, Gone(D, u))), FirstHalf(Curve(out, Gone(D, v))),
                Slope(out) * ((v - u) * D.d), 2 * D.n)
<1> DEFINE m == D.n  d == D.d  S == Slope(out)
           c == Curve(out, Gone(D, u))
           e == Curve(out, Gone(D, v))
<1>1. d \in Nat \ {0} /\ S \in Nat /\ u * d \in Nat /\ v * d \in Nat /\ m \in Nat \ {0}
  BY FractionFields, SlopeIs, Products
<1>2. Between(Gone(D, u)) /\ Between(Gone(D, v)) /\ LE(Gone(D, u), Gone(D, v))
  BY <1>1, GoneIn, GoneGrows
<1>3. Gone(D, u) = Frac(u * d, m) /\ Gone(D, v) = Frac(v * d, m)
  BY DEF Gone
<1>4. Rise(c, e, S * ((v * d) * m - (u * d) * m), m * m)
  BY <1>2, <1>3, CurveRises DEF Frac
<1>5. c \in Fraction /\ e \in Fraction
  BY <1>2, BetweenCurve DEF Between
<1> HIDE DEF m, d, S, c, e
<1> DEFINE g == S * ((v * d) * m - (u * d) * m)
<1>6. g \in Int /\ m * m \in Nat \ {0}
  <2>1. (v * d) * m - (u * d) * m \in Int
    BY <1>1
  <2>2. QED
    BY <1>1, <2>1, Products
<1>7. Rise(FirstHalf(c), FirstHalf(e), g, 2 * (m * m))
  BY <1>4, <1>5, <1>6, RiseHalves
<1>8. g * (2 * m) = (S * ((v - u) * d)) * (2 * (m * m))
  BY <1>1
<1>9. FirstHalf(c) \in Fraction /\ FirstHalf(e) \in Fraction
  BY <1>5, HalvesAre
<1>10. S * ((v - u) * d) \in Int /\ 2 * (m * m) \in Nat \ {0} /\ 2 * m \in Nat \ {0} /\ g * (2 * m) \in Int
  <2>1. (v - u) * d \in Int
    BY <1>1
  <2>2. QED
    BY <1>1, <1>6, <2>1, Products
<1> HIDE DEF g
<1>11. Rise(FirstHalf(c), FirstHalf(e), S * ((v - u) * d), 2 * m)
  BY <1>6, <1>7, <1>8, <1>9, <1>10, RiseLess
<1>12. QED
  BY <1>11 DEF m, d, S, c, e

(* Up to the end of the departure.                                         *)
LEMMA RiseToHalf ==
    ASSUME NEW out \in Smooth, NEW D \in Fraction, NEW u \in Nat, u * D.d < D.n
    PROVE  Rise(FirstHalf(Curve(out, Gone(D, u))), Frac(1, 2),
                Slope(out) * (D.n - u * D.d), 2 * D.n)
<1> DEFINE m == D.n  d == D.d  S == Slope(out)
           c == Curve(out, Gone(D, u))
           e == Curve(out, One)
           g == S * (m - u * d)
<1>1. d \in Nat \ {0} /\ S \in Nat /\ u * d \in Nat /\ m \in Nat \ {0}
  BY FractionFields, SlopeIs, Products
<1>2. Between(Gone(D, u)) /\ Between(One) /\ LE(Gone(D, u), One)
  BY GoneIn, Units, InBetween DEF Between
<1>3. Gone(D, u) = Frac(u * d, m)
  BY DEF Gone
<1>4. Rise(c, e, S * (1 * m - (u * d) * 1), m * 1)
  BY <1>2, <1>3, CurveRises DEF One, Frac
<1>5. c \in Fraction /\ e \in Fraction /\ e.n = e.d /\ e.d \in Nat \ {0}
  BY <1>2, BetweenCurve, CurveEnds, FractionFields DEF Between
<1> HIDE DEF m, d, S, c, e
<1>6. 1 * m - (u * d) * 1 = m - u * d /\ m * 1 = m /\ g \in Int
  BY <1>1, Products
<1>7. Rise(c, e, g, m)
  BY <1>4, <1>6
<1> HIDE DEF g
<1>8. Rise(FirstHalf(c), FirstHalf(e), g, 2 * m)
  BY <1>1, <1>5, <1>6, <1>7, RiseHalves
<1>9. Rise(FirstHalf(e), Frac(1, 2), 0, 1)
  <2>1. FirstHalf(e) = Frac(e.d, 2 * e.d)
    BY <1>5 DEF FirstHalf
  <2>2. (1 * (2 * e.d) - e.d * 2) * 1 <= 0 * ((2 * e.d) * 2)
    BY <1>5
  <2>3. QED
    BY <2>1, <2>2 DEF Rise, Frac
<1>10. FirstHalf(c) \in Fraction /\ FirstHalf(e) \in Fraction /\ Frac(1, 2) \in Fraction
  BY <1>5, HalvesAre
<1>11. Rise(FirstHalf(c), Frac(1, 2), g * 1 + 0 * (2 * m), (2 * m) * 1)
  BY <1>1, <1>6, <1>8, <1>9, <1>10, RiseAdds
<1>12. g * 1 + 0 * (2 * m) = g /\ (2 * m) * 1 = 2 * m
  BY <1>1, <1>6
<1>13. Rise(FirstHalf(c), Frac(1, 2), g, 2 * m)
  BY <1>11, <1>12
<1>14. QED
  BY <1>13 DEF m, d, S, c, g

(* From the beginning of the arrival.                                      *)
LEMMA RiseFromHalf ==
    ASSUME NEW in \in Smooth, NEW A \in Fraction, A.n > 0, NEW s \in Nat, NEW v \in Nat,
           v <= s, (s - v) * A.d <= A.n
    PROVE  Rise(Frac(1, 2), SecondHalf(Curve(in, Left(A, s, v))),
                Slope(in) * (A.n - (s - v) * A.d), 2 * A.n)
<1> DEFINE m == A.n  d == A.d  S == Slope(in)
           w == (s - v) * d
           c == Curve(in, Left(A, s, v))
           e == Curve(in, One)
           g == S * (m - w)
<1>1. d \in Nat \ {0} /\ S \in Nat /\ w \in Nat /\ m \in Nat \ {0}
  <2>1. A.d \in Nat \ {0} /\ A.n \in Nat \ {0} /\ s - v \in Nat
    BY FractionFields
  <2>2. QED
    BY <2>1, SlopeIs, Products
<1>2. Between(Left(A, s, v)) /\ Between(One) /\ LE(Left(A, s, v), One)
  BY LeftIn, Units, InBetween DEF Between
<1>3. Left(A, s, v) = Frac(w, m)
  BY DEF Left
<1>4. Rise(c, e, S * (1 * m - w * 1), m * 1)
  BY <1>2, <1>3, CurveRises DEF One, Frac
<1>5. c \in Fraction /\ e \in Fraction /\ e.n = e.d /\ e.d \in Nat \ {0}
  BY <1>2, BetweenCurve, CurveEnds, FractionFields DEF Between
<1> HIDE DEF m, d, S, c, e, w
<1>6. 1 * m - w * 1 = m - w /\ m * 1 = m /\ g \in Int
  BY <1>1, Products
<1>7. Rise(c, e, g, m)
  BY <1>4, <1>6
<1> HIDE DEF g
<1>8. Rise(SecondHalf(e), SecondHalf(c), g, 2 * m)
  BY <1>1, <1>5, <1>6, <1>7, RiseHalves
<1>9. Rise(Frac(1, 2), SecondHalf(e), 0, 1)
  <2>1. SecondHalf(e) = Frac(e.d, 2 * e.d)
    <3>1. 2 * e.d - e.n = e.d
      BY <1>5
    <3>2. QED
      BY <3>1 DEF SecondHalf
  <2>2. (e.d * 2 - 1 * (2 * e.d)) * 1 <= 0 * (2 * (2 * e.d))
    BY <1>5
  <2>3. QED
    BY <2>1, <2>2 DEF Rise, Frac
<1>10. SecondHalf(c) \in Fraction /\ SecondHalf(e) \in Fraction /\ Frac(1, 2) \in Fraction
  BY <1>5, HalvesAre
<1>11. Rise(Frac(1, 2), SecondHalf(c), 0 * (2 * m) + g * 1, 1 * (2 * m))
  BY <1>1, <1>6, <1>8, <1>9, <1>10, RiseAdds
<1>12. 0 * (2 * m) + g * 1 = g /\ 1 * (2 * m) = 2 * m
  BY <1>1, <1>6
<1>13. Rise(Frac(1, 2), SecondHalf(c), g, 2 * m)
  BY <1>11, <1>12
<1>14. QED
  BY <1>13 DEF m, d, S, c, g, w

(* While arriving.                                                         *)
LEMMA RiseArriving ==
    ASSUME NEW in \in Smooth, NEW A \in Fraction, A.n > 0, NEW s \in Nat,
           NEW u \in Nat, NEW v \in Nat, u <= v, v <= s, (s - u) * A.d <= A.n
    PROVE  Rise(SecondHalf(Curve(in, Left(A, s, u))), SecondHalf(Curve(in, Left(A, s, v))),
                Slope(in) * ((v - u) * A.d), 2 * A.n)
<1> DEFINE m == A.n  d == A.d  S == Slope(in)
           c == Curve(in, Left(A, s, u))
           e == Curve(in, Left(A, s, v))
<1>1. d \in Nat \ {0} /\ S \in Nat /\ m \in Nat \ {0} /\ s - u \in Nat /\ s - v \in Nat
  BY FractionFields, SlopeIs
<1>2. (s - v) * d <= (s - u) * d /\ (s - u) * d \in Nat /\ (s - v) * d \in Nat
  BY <1>1, Scaled, Products
<1>3. /\ Between(Left(A, s, u)) /\ Between(Left(A, s, v)) /\ u <= s
      /\ LE(Left(A, s, v), Left(A, s, u))
  <2>1. u <= s /\ (s - v) * A.d <= A.n
    BY <1>1, <1>2
  <2>2. QED
    BY <2>1, LeftIn, LeftShrinks
<1>4. Left(A, s, u) = Frac((s - u) * d, m) /\ Left(A, s, v) = Frac((s - v) * d, m)
  BY DEF Left
<1>5. Rise(e, c, S * (((s - u) * d) * m - ((s - v) * d) * m), m * m)
  BY <1>3, <1>4, CurveRises DEF Frac
<1>6. c \in Fraction /\ e \in Fraction
  BY <1>3, BetweenCurve DEF Between
<1> HIDE DEF m, d, S, c, e
<1> DEFINE g == S * (((s - u) * d) * m - ((s - v) * d) * m)
<1>7. g \in Int /\ m * m \in Nat \ {0}
  <2>1. ((s - u) * d) * m - ((s - v) * d) * m \in Int
    BY <1>1
  <2>2. QED
    BY <1>1, <2>1, Products
<1>8. Rise(SecondHalf(c), SecondHalf(e), g, 2 * (m * m))
  BY <1>5, <1>6, <1>7, RiseHalves
<1>9. g * (2 * m) = (S * ((v - u) * d)) * (2 * (m * m))
  BY <1>1
<1>10. SecondHalf(c) \in Fraction /\ SecondHalf(e) \in Fraction
  BY <1>6, HalvesAre
<1>11. S * ((v - u) * d) \in Int /\ 2 * (m * m) \in Nat \ {0} /\ 2 * m \in Nat \ {0} /\ g * (2 * m) \in Int
  <2>1. (v - u) * d \in Int
    BY <1>1
  <2>2. QED
    BY <1>1, <1>7, <2>1, Products
<1> HIDE DEF g
<1>12. Rise(SecondHalf(c), SecondHalf(e), S * ((v - u) * d), 2 * m)
  BY <1>7, <1>8, <1>9, <1>10, <1>11, RiseLess
<1>13. QED
  BY <1>12 DEF m, d, S, c, e

(* The time between two turns goes to the departure, the hold and the      *)
(* arrival: a mean of two slopes is at most the greater.                   *)
LEMMA Weighted ==
    ASSUME NEW S \in Nat, NEW R \in Nat, NEW x \in Nat, NEW y \in Nat, NEW T \in Nat,
           NEW m \in Nat \ {0}, NEW d \in Nat \ {0}, NEW n \in Nat \ {0}, NEW e \in Nat \ {0},
           x * e + y * d <= T * (d * e), R * (e * m) <= S * (d * n)
    PROVE  S * (x * n) + R * (y * m) <= (S * T) * (d * n)
<1> DEFINE l == S * (x * n) + R * (y * m)
           r == (S * T) * (d * n)
<1>1. (x * e + y * d) * (S * n) <= (T * (d * e)) * (S * n)
  <2>1. x * e + y * d \in Int /\ T * (d * e) \in Int /\ S * n \in Nat
    BY Products
  <2>2. QED
    BY <2>1, Scaled
<1>2. (R * (e * m)) * y <= (S * (d * n)) * y
  <2>1. R * (e * m) \in Int /\ S * (d * n) \in Int
    BY Products
  <2>2. QED
    BY <2>1, Scaled
<1>3. (x * e + y * d) * (S * n) = (S * (x * n)) * e + (S * (d * n)) * y
  OBVIOUS
<1>4. (T * (d * e)) * (S * n) = r * e
  OBVIOUS
<1>5. l * e = (S * (x * n)) * e + (R * (e * m)) * y
  OBVIOUS
<1>6. /\ (S * (x * n)) * e \in Int /\ (S * (d * n)) * y \in Int /\ (R * (e * m)) * y \in Int
      /\ l \in Int /\ r \in Int /\ r * e \in Int /\ l * e \in Int
  BY Products
<1> HIDE DEF l, r
<1>7. l * e <= r * e
  BY <1>1, <1>2, <1>3, <1>4, <1>5, <1>6
<1>8. l <= r
  BY <1>6, <1>7, Unscaled
<1>9. QED
  BY <1>8 DEF l, r

(* As steep as the departure or the arrival allows.                        *)
Steep(p, q, type, E) == Rise(p, q, Slope(type) * (Tick * E.d), 2 * E.n)

LEMMA SteepIf ==
    ASSUME NEW p \in Fraction, NEW q \in Fraction, NEW type \in Smooth, NEW E \in Fraction,
           E.n > 0, NEW k \in Int, k <= Tick * E.d, Rise(p, q, Slope(type) * k, 2 * E.n)
    PROVE  Steep(p, q, type, E)
<1> DEFINE S == Slope(type)  h == 2 * E.n  j == Tick * E.d
<1>1. S \in Nat /\ h \in Nat \ {0} /\ j \in Int
  BY FractionFields, SlopeIs, Numbers
<1>2. k * S <= j * S /\ k * S = S * k /\ j * S = S * j
  BY <1>1, Scaled
<1>3. S * k \in Int /\ S * j \in Int
  BY <1>1, Products
<1>4. (S * k) * h <= (S * j) * h
  BY <1>1, <1>2, <1>3, Scaled
<1>5. Rise(p, q, S * k, h)
  OBVIOUS
<1> HIDE DEF S, h, j
<1>6. Rise(p, q, S * j, h)
  BY <1>1, <1>3, <1>4, <1>5, RiseLess
<1>7. QED
  BY <1>6 DEF Steep, S, h, j

(* Standing still is not steep.                                            *)
LEMMA SteepFlat ==
    ASSUME NEW p \in Fraction, NEW q \in Fraction, q.n * p.d = p.n * q.d,
           NEW type \in Smooth, NEW E \in Fraction, E.n > 0
    PROVE  Steep(p, q, type, E)
<1>1. /\ q.n * p.d \in Int /\ q.n * p.d - p.n * q.d = 0 /\ 2 * E.n \in Int
      /\ p.d * q.d \in Nat /\ Slope(type) * (Tick * E.d) \in Nat
  BY FractionFields, Products, SlopeIs, Numbers
<1>2. (Slope(type) * (Tick * E.d)) * (p.d * q.d) \in Nat
  BY <1>1, Products
<1>3. 0 * (2 * E.n) = 0
  BY <1>1
<1>4. QED
  BY <1>1, <1>2, <1>3 DEF Steep, Rise

LEMMA CoveredRises ==
    ASSUME NEW out \in Smooth, NEW in \in Smooth, NEW D, NEW A, NEW inMs, NEW s,
           Fitting(D, A, s), inMs # 0,
           NEW u \in Nat, NEW v \in Nat, u <= v, v <= s, v - u <= Tick
    PROVE  LET p == Covered(out, D, in, A, inMs, s, u)
               q == Covered(out, D, in, A, inMs, s, v)
           IN  Steep(p, q, out, D) \/ Steep(p, q, in, A)
<1> DEFINE p == Covered(out, D, in, A, inMs, s, u)
           q == Covered(out, D, in, A, inMs, s, v)
<1>1. /\ D.n \in Nat \ {0} /\ D.d \in Nat \ {0} /\ A.n \in Nat \ {0} /\ A.d \in Nat \ {0}
      /\ s \in Nat /\ D \in Fraction /\ A \in Fraction
      /\ Tick \in Nat /\ v - u \in Nat /\ u <= s
  BY FittingParts, Numbers
<1>2. Shares(D, A, inMs, s)
  BY <1>1 DEF Shares
<1>3. p \in Fraction /\ q \in Fraction
  BY <1>1, <1>2, CoveredIn DEF Between
<1>4. /\ s - u \in Nat /\ s - v \in Nat
      /\ u * D.d \in Nat /\ v * D.d \in Nat
      /\ (s - u) * A.d \in Nat /\ (s - v) * A.d \in Nat
      /\ u * D.d <= v * D.d /\ (s - v) * A.d <= (s - u) * A.d
  <2>1. s - u \in Nat /\ s - v \in Nat /\ s - v <= s - u
    BY <1>1
  <2>2. QED
    BY <1>1, <2>1, Products, Scaled
<1>5. /\ (v - u) * D.d <= Tick * D.d /\ (v - u) * D.d = v * D.d - u * D.d
      /\ (v - u) * A.d <= Tick * A.d /\ (v - u) * A.d = (s - u) * A.d - (s - v) * A.d
      /\ Tick * D.d \in Nat /\ Tick * A.d \in Nat
  <2>1. (v - u) * D.d <= Tick * D.d /\ (v - u) * A.d <= Tick * A.d
    BY <1>1, Scaled
  <2>2. (v - u) * D.d = v * D.d - u * D.d /\ (v - u) * A.d = (s - u) * A.d - (s - v) * A.d
    BY <1>1
  <2>3. QED
    BY <1>1, <2>1, <2>2, Products
<1>6. CASE v * D.d < D.n
  <2>1. u * D.d < D.n
    BY <1>1, <1>4, <1>6
  <2>2. p = FirstHalf(Curve(out, Gone(D, u))) /\ q = FirstHalf(Curve(out, Gone(D, v)))
    BY <1>6, <2>1 DEF Covered
  <2>3. Rise(p, q, Slope(out) * ((v - u) * D.d), 2 * D.n)
    BY <1>1, <1>6, <2>1, <2>2, RiseDeparting
  <2>4. (v - u) * D.d \in Int
    BY <1>1
  <2>5. Steep(p, q, out, D)
    BY <1>1, <1>3, <1>5, <2>3, <2>4, SteepIf
  <2>6. QED
    BY <2>5
<1>7. CASE ~(v * D.d < D.n) /\ (s - v) * A.d > A.n
  <2>1. q = Frac(1, 2)
    BY <1>7 DEF Covered
  <2>2. CASE u * D.d < D.n
    <3>1. p = FirstHalf(Curve(out, Gone(D, u)))
      BY <2>2 DEF Covered
    <3>2. Rise(p, q, Slope(out) * (D.n - u * D.d), 2 * D.n)
      BY <1>1, <2>1, <2>2, <3>1, RiseToHalf
    <3>3. D.n - u * D.d \in Int /\ D.n - u * D.d <= Tick * D.d
      BY <1>1, <1>4, <1>5, <1>7
    <3>4. Steep(p, q, out, D)
      BY <1>1, <1>3, <3>2, <3>3, SteepIf
    <3>5. QED
      BY <3>4
  <2>3. CASE ~(u * D.d < D.n)
    <3>1. (s - u) * A.d > A.n
      BY <1>1, <1>4, <1>7
    <3>2. p = Frac(1, 2)
      BY <2>3, <3>1 DEF Covered
    <3>3. Steep(p, q, out, D)
      BY <1>1, <1>3, <2>1, <3>2, SteepFlat
    <3>4. QED
      BY <3>3
  <2>4. QED
    BY <2>2, <2>3
<1>8. CASE ~(v * D.d < D.n) /\ ~((s - v) * A.d > A.n)
  <2>1. q = SecondHalf(Curve(in, Left(A, s, v))) /\ (s - v) * A.d <= A.n
    BY <1>1, <1>4, <1>8 DEF Covered
  <2>2. CASE u * D.d < D.n
    <3> DEFINE x == D.n - u * D.d
               y == A.n - (s - v) * A.d
               S == Slope(out)
               R == Slope(in)
    <3>1. p = FirstHalf(Curve(out, Gone(D, u)))
      BY <2>2 DEF Covered
    <3>2. Rise(p, Frac(1, 2), S * x, 2 * D.n)
      BY <1>1, <2>2, <3>1, RiseToHalf
    <3>3. Rise(Frac(1, 2), q, R * y, 2 * A.n)
      BY <1>1, <2>1, RiseFromHalf
    <3>4. x \in Nat /\ y \in Nat /\ S \in Nat /\ R \in Nat
      BY <1>1, <1>4, <2>1, <2>2, SlopeIs
    <3>5. x * A.d + y * D.d <= Tick * (D.d * A.d)
      <4> DEFINE c == D.n * A.d + A.n * D.d
                 j == D.d * A.d
      <4>1. c \in Int /\ j \in Nat /\ c <= s * j
        BY <1>1, Products DEF Fitting
      <4>2. x * A.d + y * D.d = c - u * j - (s - v) * j
        BY <1>1
      <4>3. (v - u) * j <= Tick * j
        BY <1>1, <4>1, Scaled
      <4> HIDE DEF c, j, x, y
      <4>4. s * j - u * j - (s - v) * j = (v - u) * j
        BY <1>1, <4>1
      <4>5. /\ s * j \in Int /\ u * j \in Int /\ (s - v) * j \in Int
            /\ (v - u) * j \in Int /\ Tick * j \in Int
        BY <1>1, <4>1
      <4>6. x * A.d + y * D.d <= Tick * j
        BY <4>1, <4>2, <4>3, <4>4, <4>5
      <4>7. QED
        BY <4>6 DEF j
    <3> HIDE DEF x, y, S, R
    <3> DEFINE g == (S * x) * (2 * A.n) + (R * y) * (2 * D.n)
               h == (2 * D.n) * (2 * A.n)
               w == S * (x * A.n) + R * (y * D.n)
    <3>6. /\ S * x \in Int /\ R * y \in Int /\ 2 * D.n \in Nat \ {0} /\ 2 * A.n \in Nat \ {0}
          /\ g \in Int /\ h \in Nat \ {0} /\ w \in Int
      <4>1. /\ S * x \in Int /\ R * y \in Int /\ 2 * D.n \in Nat \ {0} /\ 2 * A.n \in Nat \ {0}
        BY <1>1, <3>4, Products
      <4>2. /\ (S * x) * (2 * A.n) \in Int /\ (R * y) * (2 * D.n) \in Int /\ h \in Nat \ {0}
            /\ S * (x * A.n) \in Int /\ R * (y * D.n) \in Int
        BY <1>1, <3>4, <4>1, Products
      <4>3. QED
        BY <4>1, <4>2
    <3>7. Rise(p, q, g, h)
      BY <1>3, <3>2, <3>3, <3>6, HalvesAre, RiseAdds
    <3>8. ASSUME NEW type \in Smooth, NEW E \in Fraction, E.n \in Nat \ {0}, E.d \in Nat \ {0},
                 NEW Z \in Nat, Z = Slope(type),
                 NEW F \in Nat \ {0}, h = (2 * E.n) * (2 * F),
                 w <= (Z * Tick) * (E.d * F)
          PROVE  Steep(p, q, type, E)
      <4>1. g = 2 * w
        BY <1>1, <3>4
      <4>2. Z * (Tick * E.d) \in Int /\ 2 * E.n \in Nat \ {0}
        BY <1>1, <3>8, Products
      <4>3. (Z * (Tick * E.d)) * h = ((Z * Tick) * (E.d * F)) * (2 * (2 * E.n))
        <5>1. (Z * (Tick * E.d)) * ((2 * E.n) * (2 * F)) = ((Z * Tick) * (E.d * F)) * (2 * (2 * E.n))
          BY <1>1, <3>8
        <5>2. QED
          BY <3>8, <5>1
      <4>4. w * (2 * (2 * E.n)) <= ((Z * Tick) * (E.d * F)) * (2 * (2 * E.n))
        <5>1. (Z * Tick) * (E.d * F) \in Int /\ 2 * (2 * E.n) \in Nat
          BY <1>1, <3>8, Products
        <5>2. QED
          BY <3>6, <3>8, <5>1, Scaled
      <4>5. g * (2 * E.n) = w * (2 * (2 * E.n))
        <5>1. (2 * w) * (2 * E.n) = w * (2 * (2 * E.n))
          BY <3>6, <3>8
        <5>2. QED
          BY <4>1, <5>1
      <4> HIDE DEF g, h, w
      <4>6. g * (2 * E.n) <= (Z * (Tick * E.d)) * h
        BY <4>3, <4>4, <4>5
      <4>7. Rise(p, q, Z * (Tick * E.d), 2 * E.n)
        BY <1>3, <3>6, <3>7, <4>2, <4>6, RiseLess
      <4>8. QED
        BY <3>8, <4>7 DEF Steep
    <3>9. CASE R * (A.d * D.n) <= S * (D.d * A.n)
      <4>1. w <= (S * Tick) * (D.d * A.n)
        BY <1>1, <3>4, <3>5, <3>9, Weighted
      <4>2. Steep(p, q, out, D)
        BY <1>1, <3>4, <3>8, <4>1 DEF S
      <4>3. QED
        BY <4>2
    <3>10. CASE S * (D.d * A.n) <= R * (A.d * D.n)
      <4>1. y * D.d + x * A.d <= Tick * (A.d * D.d)
        <5>1. D.d * A.d = A.d * D.d /\ x * A.d \in Int /\ y * D.d \in Int
          BY <1>1, <3>4
        <5>2. QED
          BY <3>5, <5>1
      <4>2. R * (y * D.n) + S * (x * A.n) <= (R * Tick) * (A.d * D.n)
        BY <1>1, <3>4, <3>10, <4>1, Weighted
      <4>3. w <= (R * Tick) * (A.d * D.n)
        <5>1. R * (y * D.n) \in Int /\ S * (x * A.n) \in Int
          BY <1>1, <3>4, Products
        <5>2. QED
          BY <4>2, <5>1
      <4>4. h = (2 * A.n) * (2 * D.n)
        BY <1>1
      <4>5. Steep(p, q, in, A)
        BY <1>1, <3>4, <3>8, <4>3, <4>4 DEF R
      <4>6. QED
        BY <4>5
    <3>11. R * (A.d * D.n) \in Int /\ S * (D.d * A.n) \in Int
      BY <1>1, <3>4, Products
    <3>12. QED
      BY <3>9, <3>10, <3>11
  <2>3. CASE ~(u * D.d < D.n) /\ (s - u) * A.d > A.n
    <3>1. p = Frac(1, 2)
      BY <2>3 DEF Covered
    <3>2. Rise(p, q, Slope(in) * (A.n - (s - v) * A.d), 2 * A.n)
      BY <1>1, <2>1, <3>1, RiseFromHalf
    <3>3. A.n - (s - v) * A.d \in Int /\ A.n - (s - v) * A.d <= Tick * A.d
      BY <1>1, <1>4, <1>5, <2>3
    <3>4. Steep(p, q, in, A)
      BY <1>1, <1>3, <3>2, <3>3, SteepIf
    <3>5. QED
      BY <3>4
  <2>4. CASE ~(u * D.d < D.n) /\ ~((s - u) * A.d > A.n)
    <3>1. p = SecondHalf(Curve(in, Left(A, s, u))) /\ (s - u) * A.d <= A.n
      BY <1>1, <1>4, <2>4 DEF Covered
    <3>2. Rise(p, q, Slope(in) * ((v - u) * A.d), 2 * A.n)
      BY <1>1, <2>1, <3>1, RiseArriving
    <3>3. (v - u) * A.d \in Int
      BY <1>1
    <3>4. Steep(p, q, in, A)
      BY <1>1, <1>3, <1>5, <3>2, <3>3, SteepIf
    <3>5. QED
      BY <3>4
  <2>5. QED
    BY <2>2, <2>3, <2>4
<1>9. QED
  BY <1>6, <1>7, <1>8

----------------------------------------------------------------------------
(* Playback: no servo jumps.                                               *)

(* Easings that overran the segment share it, the others fit.              *)
LEMMA EasingsFit ==
    ASSUME PlayTypes, anim # <<>>, to <= Len(anim), Segment # 0, Gentle,
           From.ease_out_ms # 0, To.ease_in_ms # 0
    PROVE  Fitting(Depart, ArriveIn, Segment)
<1> DEFINE k == Scale(Segment, From.ease_out_ms, To.ease_in_ms)
           o == From.ease_out_ms
           i == To.ease_in_ms
           s == Segment
<1>1. Depart \in Fraction /\ ArriveIn \in Fraction /\ s \in Nat \ {0}
  BY EasingsIn, SegmentIs
<1>2. o \in Nat \ {0} /\ i \in Nat \ {0}
  <2>1. to \in 1..Len(anim) /\ to - 1 \in 1..Len(anim)
    BY SegmentIs
  <2>2. QED
    BY <2>1, Frames DEF From, To
<1>3. /\ Depart.n = o * k.n /\ Depart.d = k.d /\ ArriveIn.n = i * k.n /\ ArriveIn.d = k.d
  BY DEF Depart, ArriveIn, Frac
<1>4. /\ k.n \in Nat \ {0} /\ k.d \in Nat \ {0} /\ (o + i) * k.n <= s * k.d
  <2>1. CASE o + i > s
    <3>1. k.n = s /\ k.d = o + i
      BY <2>1 DEF Scale, Frac
    <3> HIDE DEF k, o, i, s
    <3>2. (o + i) * s = s * (o + i) /\ (o + i) * s \in Int /\ o + i \in Nat \ {0}
      BY <1>1, <1>2
    <3>3. QED
      BY <1>1, <3>1, <3>2
  <2>2. CASE ~(o + i > s)
    <3>1. k.n = 1 /\ k.d = 1
      BY <2>2 DEF Scale, One, Frac
    <3> HIDE DEF k, o, i, s
    <3>2. QED
      BY <1>1, <1>2, <2>2, <3>1
  <2>3. QED
    BY <2>1, <2>2
<1> HIDE DEF k, o, i
<1>5. /\ Depart.n > 0 /\ ArriveIn.n > 0
  <2>1. o * k.n \in Nat \ {0} /\ i * k.n \in Nat \ {0}
    BY <1>2, <1>4, Products
  <2>2. QED
    BY <1>3, <2>1
<1>6. (o * k.n) * k.d + (i * k.n) * k.d <= s * (k.d * k.d)
  <2>1. ((o + i) * k.n) * k.d <= (s * k.d) * k.d
    <3>1. (o + i) * k.n \in Int /\ s * k.d \in Int
      BY <1>1, <1>2, <1>4
    <3>2. QED
      BY <1>4, <3>1, Scaled
  <2>2. ((o + i) * k.n) * k.d = (o * k.n) * k.d + (i * k.n) * k.d
    BY <1>2, <1>4
  <2>3. (s * k.d) * k.d = s * (k.d * k.d)
    BY <1>1, <1>4
  <2>4. QED
    BY <2>1, <2>2, <2>3
<1>7. QED
  BY <1>1, <1>3, <1>5, <1>6 DEF Fitting

(* An angle is written in whole steps of duty: one may be lost to rounding.*)
LEMMA WayApart ==
    ASSUME NEW a \in Int, NEW b \in Int, NEW p \in Fraction, NEW q \in Fraction, LE(p, q)
    PROVE  /\ Way(a, b, p) \in Int /\ Way(a, b, q) \in Int
           /\ (Abs(Way(a, b, q) - Way(a, b, p)) - 1) * (p.d * q.d)
                <= (Abs(b - a) * Duty) * (q.n * p.d - p.n * q.d)
<1> DEFINE X == Reach(a, b, p)  Y == Reach(a, b, q)  d == p.d  e == q.d
           f == q.n * p.d - p.n * q.d
           m == Way(a, b, p)  k == Way(a, b, q)
<1>1. /\ Duty \in Nat /\ d \in Nat \ {0} /\ e \in Nat \ {0} /\ f \in Int
      /\ X \in Int /\ Y \in Int /\ Y * d - X * e = (Duty * (b - a)) * f
  <2>1. f \in Int
    BY FractionFields
  <2>2. QED
    BY <2>1, ReachApart, FractionFields, PlaybackAssumption
<1>2. m = X \div d /\ k = Y \div e
  BY DEF Way, Reach
<1>3. /\ m \in Int /\ m * d <= X /\ X <= (m + 1) * d
      /\ k \in Int /\ k * e <= Y /\ Y <= (k + 1) * e
  <2>1. /\ m \in Int /\ m * d <= X /\ X < m * d + d
        /\ k \in Int /\ k * e <= Y /\ Y < k * e + e
    BY <1>1, <1>2, RoundsDown
  <2> HIDE DEF m, k, X, Y, d, e
  <2>2. (m + 1) * d = m * d + d /\ (k + 1) * e = k * e + e
    BY <1>1, <2>1
  <2>3. m * d \in Int /\ k * e \in Int
    BY <1>1, <2>1
  <2>4. QED
    BY <1>1, <2>1, <2>2, <2>3
<1>4. /\ a <= b => m <= k
      /\ b <= a => k <= m
  BY WayGrows
<1> HIDE DEF X, Y, d, e, f, m, k
<1>5. /\ (m * d) * e <= X * e /\ X * e <= ((m + 1) * d) * e
      /\ (k * e) * d <= Y * d /\ Y * d <= ((k + 1) * e) * d
  <2>1. m * d \in Int /\ (m + 1) * d \in Int /\ k * e \in Int /\ (k + 1) * e \in Int
    BY <1>1, <1>3
  <2>2. QED
    BY <1>1, <1>3, <2>1, Scaled
<1>6. X * e \in Int /\ Y * d \in Int /\ d * e \in Nat
  BY <1>1, Products
<1>7. (k - m - 1) * (d * e) <= Y * d - X * e
  <2>1. (k - m - 1) * (d * e) = (k * e) * d - ((m + 1) * d) * e
    BY <1>1, <1>3
  <2>2. (k * e) * d \in Int /\ ((m + 1) * d) * e \in Int
    BY <1>1, <1>3
  <2>3. QED
    BY <1>5, <1>6, <2>1, <2>2
<1>8. (m - k - 1) * (d * e) <= X * e - Y * d
  <2>1. (m - k - 1) * (d * e) = (m * d) * e - ((k + 1) * e) * d
    BY <1>1, <1>3
  <2>2. (m * d) * e \in Int /\ ((k + 1) * e) * d \in Int
    BY <1>1, <1>3
  <2>3. QED
    BY <1>5, <1>6, <2>1, <2>2
<1>9. (Abs(k - m) - 1) * (d * e) <= (Abs(b - a) * Duty) * f
  <2>1. CASE a <= b
    <3>1. Abs(b - a) = b - a /\ Abs(k - m) = k - m
      BY <1>3, <1>4, <2>1 DEF Abs
    <3>2. (Duty * (b - a)) * f = ((b - a) * Duty) * f
      BY <1>1
    <3>3. QED
      BY <1>1, <1>7, <3>1, <3>2
  <2>2. CASE b < a
    <3>1. b <= a
      BY <2>2
    <3>2. Abs(b - a) = a - b /\ Abs(k - m) = m - k
      <4>1. Abs(b - a) = a - b
        BY <2>2 DEF Abs
      <4>2. k <= m
        BY <1>4, <3>1
      <4>3. Abs(k - m) = m - k
        BY <1>3, <4>2 DEF Abs
      <4>4. QED
        BY <4>1, <4>3
    <3>3. X * e - Y * d = ((a - b) * Duty) * f
      <4>1. (Duty * (b - a)) * f = -(((a - b) * Duty) * f)
        BY <1>1
      <4>2. ((a - b) * Duty) * f \in Int
        BY <1>1
      <4>3. QED
        BY <1>1, <1>6, <4>1, <4>2
    <3>4. QED
      BY <1>8, <3>2, <3>3
  <2>3. QED
    BY <2>1, <2>2
<1>10. QED
  BY <1>3, <1>9 DEF d, e, f, m, k

LEMMA StepCovers ==
    ASSUME offset \in Offsets, NEW ch \in Channel, NEW a \in Int, NEW b \in Int,
           NEW p \in Fraction, NEW q \in Fraction, LE(p, q),
           NEW g \in Nat, NEW h \in Nat \ {0}, Rise(p, q, g, h)
    PROVE  LET step == Abs(Written(Way(a, b, q), ch) - Written(Way(a, b, p), ch)) - 1
           IN  step \in Int /\ step * h <= (Abs(b - a) * Duty) * g
<1> DEFINE m == Way(a, b, p)  k == Way(a, b, q)
           step == Abs(Written(k, ch) - Written(m, ch)) - 1
           r == p.d * q.d
           f == q.n * p.d - p.n * q.d
           way == Abs(b - a) * Duty
<1>1. m \in Int /\ k \in Int /\ (Abs(k - m) - 1) * r <= way * f
  BY WayApart
<1>2. f * h <= g * r /\ f \in Int /\ r \in Nat \ {0}
  <2>1. /\ p.n \in Int /\ q.n \in Int /\ p.d \in Nat \ {0} /\ q.d \in Nat \ {0}
    BY FractionFields
  <2>2. QED
    BY <2>1, Products DEF Rise
<1>3. way \in Nat
  <2>1. Abs(b - a) \in Nat
    BY DEF Abs
  <2>2. QED
    BY <2>1, PlaybackAssumption, Products
<1> HIDE DEF m, k, r, f, way
<1>4. /\ Written(m, ch) \in Int /\ Written(k, ch) \in Int
      /\ Abs(Written(k, ch) - Written(m, ch)) <= Abs(k - m)
  <2>1. CASE m <= k
    <3>1. /\ Written(m, ch) \in Int /\ Written(k, ch) \in Int
          /\ Written(m, ch) <= Written(k, ch) /\ Written(k, ch) - Written(m, ch) <= k - m
      BY <1>1, <2>1, WrittenKeepsOrder
    <3>2. QED
      BY <1>1, <2>1, <3>1 DEF Abs
  <2>2. CASE k <= m
    <3>1. /\ Written(m, ch) \in Int /\ Written(k, ch) \in Int
          /\ Written(k, ch) <= Written(m, ch) /\ Written(m, ch) - Written(k, ch) <= m - k
      BY <1>1, <2>2, WrittenKeepsOrder
    <3>2. QED
      BY <1>1, <2>2, <3>1 DEF Abs
  <2>3. QED
    BY <1>1, <2>1, <2>2
<1>5. step \in Int /\ Abs(k - m) \in Int /\ step <= Abs(k - m) - 1
  BY <1>1, <1>4 DEF Abs
<1> HIDE DEF step
<1>6. step * r <= way * f
  <2>1. step * r <= (Abs(k - m) - 1) * r
    BY <1>2, <1>5, Scaled
  <2>2. step * r \in Int /\ (Abs(k - m) - 1) * r \in Int /\ way * f \in Int
    BY <1>2, <1>3, <1>5
  <2>3. QED
    BY <1>1, <2>1, <2>2
<1>7. (step * r) * h <= (way * f) * h
  <2>1. step * r \in Int /\ way * f \in Int
    BY <1>2, <1>3, <1>5
  <2>2. QED
    BY <1>6, <2>1, Scaled
<1>8. (f * h) * way <= (g * r) * way
  <2>1. f * h \in Int /\ g * r \in Int
    BY <1>2
  <2>2. QED
    BY <1>2, <1>3, <2>1, Scaled
<1>9. /\ (step * r) * h = (step * h) * r /\ (way * f) * h = (f * h) * way
      /\ (g * r) * way = (way * g) * r
  BY <1>2, <1>3, <1>5
<1>10. /\ step * h \in Int /\ way * g \in Int /\ (step * h) * r \in Int /\ (way * g) * r \in Int
       /\ (f * h) * way \in Int
  BY <1>2, <1>3, <1>5
<1>11. (step * h) * r <= (way * g) * r
  BY <1>7, <1>8, <1>9, <1>10
<1>12. step * h <= way * g
  BY <1>2, <1>10, <1>11, Unscaled
<1>13. QED
  BY <1>5, <1>12 DEF step, way, m, k

(* What the property asks for.                                             *)
LEMMA SteepCovers ==
    ASSUME offset \in Offsets, NEW ch \in Channel, NEW a \in Int, NEW b \in Int,
           NEW p \in Fraction, NEW q \in Fraction, LE(p, q),
           NEW type \in Smooth, NEW E \in Fraction, E.n > 0, Steep(p, q, type, E)
    PROVE  LET way  == Abs(b - a) * Duty
               step == Abs(Written(Way(a, b, q), ch) - Written(Way(a, b, p), ch)) - 1
           IN  step * 2 * E.n <= way * Slope(type) * Tick * E.d
<1> DEFINE way  == Abs(b - a) * Duty
           step == Abs(Written(Way(a, b, q), ch) - Written(Way(a, b, p), ch)) - 1
           S == Slope(type)
<1>1. /\ E.n \in Nat \ {0} /\ E.d \in Nat \ {0} /\ S \in Nat /\ Tick \in Nat
      /\ S * (Tick * E.d) \in Nat /\ 2 * E.n \in Nat \ {0}
  <2>1. E.n \in Nat \ {0} /\ E.d \in Nat \ {0} /\ S \in Nat /\ Tick \in Nat
    BY FractionFields, SlopeIs, Numbers
  <2>2. QED
    BY <2>1, Products
<1>2. step \in Int /\ step * (2 * E.n) <= way * (S * (Tick * E.d))
  BY <1>1, StepCovers DEF Steep
<1>3. way \in Int
  <2>1. Abs(b - a) \in Nat
    BY DEF Abs
  <2>2. QED
    BY <2>1, PlaybackAssumption, Products
<1> HIDE DEF way, step, S
<1>4. step * 2 * E.n = step * (2 * E.n)
  BY <1>1, <1>2
<1>5. way * S * Tick * E.d = way * (S * (Tick * E.d))
  BY <1>1, <1>3
<1>6. step * 2 * E.n <= way * S * Tick * E.d
  BY <1>2, <1>4, <1>5
<1>7. QED
  BY <1>6 DEF way, step, S

(* At both ends of a segment, what Covered says is the keyframe itself.    *)
LEMMA CoveredEnds ==
    ASSUME NEW out \in Smooth, NEW in \in Smooth, NEW D, NEW A, NEW inMs, NEW s,
           Fitting(D, A, s), inMs # 0
    PROVE  /\ Covered(out, D, in, A, inMs, s, 0).n = 0
           /\ LET z == Covered(out, D, in, A, inMs, s, s) IN z \in Fraction /\ z.n = z.d
<1>1. /\ D.n \in Nat \ {0} /\ D.d \in Nat \ {0} /\ A.n \in Nat \ {0} /\ A.d \in Nat \ {0}
      /\ s \in Nat /\ D \in Fraction /\ A \in Fraction
      /\ D.n * A.d + A.n * D.d <= s * (D.d * A.d)
  BY FittingParts DEF Fitting
<1>2. Covered(out, D, in, A, inMs, s, 0).n = 0
  <2>1. 0 * D.d = 0 /\ 0 < D.n
    BY <1>1
  <2>2. Covered(out, D, in, A, inMs, s, 0) = FirstHalf(Curve(out, Frac(0, D.n)))
    BY <2>1 DEF Covered, Gone
  <2>3. Curve(out, Frac(0, D.n)).n = 0
    BY DEF Curve, Smooth, Frac
  <2>4. QED
    BY <2>2, <2>3 DEF FirstHalf, Frac
<1>3. ~(s * D.d < D.n)
  <2>1. D.n * A.d <= (s * D.d) * A.d
    <3>1. s * (D.d * A.d) = (s * D.d) * A.d /\ A.n * D.d \in Nat /\ D.n * A.d \in Int
      BY <1>1, Products
    <3>2. (s * D.d) * A.d \in Int
      BY <1>1
    <3>3. QED
      BY <1>1, <3>1, <3>2
  <2>2. s * D.d \in Int
    BY <1>1
  <2>3. D.n <= s * D.d
    BY <1>1, <2>1, <2>2, Unscaled
  <2>4. QED
    BY <1>1, <2>2, <2>3
<1>4. LET z == Covered(out, D, in, A, inMs, s, s) IN z \in Fraction /\ z.n = z.d
  <2> DEFINE z == Covered(out, D, in, A, inMs, s, s)
             c == Curve(in, Frac(0, A.n))
  <2>1. (s - s) * A.d = 0 /\ ~(0 > A.n)
    BY <1>1
  <2>2. z = SecondHalf(c)
    BY <1>3, <2>1 DEF Covered, Left
  <2>3. c.n = 0
    BY DEF Curve, Smooth, Frac
  <2>4. Frac(0, A.n) \in Fraction
    BY <1>1, FracIn
  <2>5. c \in Fraction
    BY <2>4, CurveIs
  <2>6. z \in Fraction
    BY <2>2, <2>5, HalvesAre
  <2>7. 2 * c.d - c.n = 2 * c.d
    BY <2>3, <2>5, FractionFields
  <2>8. z.n = z.d
    BY <2>2, <2>7 DEF SecondHalf, Frac
  <2>9. QED
    BY <2>6, <2>8
<1>5. QED
  BY <1>2, <1>4

LEMMA SteepToEnd ==
    ASSUME NEW p \in Fraction, NEW z \in Fraction, z.n = z.d, NEW type \in Smooth,
           NEW E \in Fraction, E.n > 0, Steep(p, z, type, E)
    PROVE  Steep(p, One, type, E)
<1> DEFINE g == Slope(type) * (Tick * E.d)  h == 2 * E.n
<1>1. g \in Nat /\ h \in Nat \ {0} /\ Rise(p, z, g, h)
  <2>1. /\ E.n \in Nat \ {0} /\ E.d \in Nat \ {0} /\ Slope(type) \in Nat /\ Tick \in Nat
    BY FractionFields, SlopeIs, Numbers
  <2>2. QED
    BY <2>1, Products DEF Steep
<1>2. Rise(z, One, 0, 1)
  <2>1. z.d \in Nat \ {0}
    BY FractionFields
  <2>2. (1 * z.d - z.n * 1) * 1 <= 0 * (z.d * 1)
    BY <2>1
  <2>3. QED
    BY <2>2 DEF Rise, One, Frac
<1> HIDE DEF g, h
<1>3. Rise(p, One, g * 1 + 0 * h, h * 1)
  BY <1>1, <1>2, Units, RiseAdds
<1>4. g * 1 + 0 * h = g /\ h * 1 = h
  BY <1>1
<1>5. QED
  BY <1>3, <1>4 DEF Steep, g, h

(* Between two turns of the loop the way covered is as steep as one of the *)
(* two easings allows.                                                     *)
LEMMA SteepTurn ==
    ASSUME TrailInv, Playing, t # -1, Gentle, From.ease_out_ms # 0, To.ease_in_ms # 0,
           NEW q \in Fraction, t < Segment => q = Goes(t), t >= Segment => q = One
    PROVE  Steep(Prior, q, From.ease_out_type, Depart) \/ Steep(Prior, q, To.ease_in_type, ArriveIn)
<1>1. /\ PlayTypes /\ t \in Nat /\ t < Segment + Tick /\ (t = 0 \/ t >= Tick)
      /\ anim # <<>> /\ to <= Len(anim) /\ Segment # 0
  BY DEF TrailInv, Trail, PlayInv, PlayTypes, PlaybackTypeOK
<1>2. Segment \in Nat \ {0} /\ Tick \in Nat \ {0}
  BY <1>1, SegmentIs, Numbers
<1>3. /\ Fitting(Depart, ArriveIn, Segment)
      /\ From.ease_out_type \in Smooth /\ To.ease_in_type \in Smooth
  BY <1>1, EasingsFit, SharesIt
<1>4. Depart \in Fraction /\ Depart.n > 0 /\ ArriveIn \in Fraction /\ ArriveIn.n > 0
  BY <1>3 DEF Fitting
<1>5. CASE t = 0
  <2>1. Prior = Zero /\ q = Goes(0)
    BY <1>2, <1>5 DEF Prior
  <2>2. q.n = 0
    BY <1>3, <2>1, CoveredEnds DEF Goes
  <2>3. q.n * Zero.d = Zero.n * q.d
    BY <2>2, FractionFields DEF Zero, Frac
  <2>4. Steep(Zero, q, From.ease_out_type, Depart)
    BY <1>3, <1>4, <2>3, Units, SteepFlat
  <2>5. QED
    BY <2>1, <2>4
<1>6. CASE t # 0 /\ t < Segment
  <2>1. Prior = Goes(t - Tick) /\ q = Goes(t)
    BY <1>6 DEF Prior
  <2>2. t - Tick \in Nat /\ t - Tick <= t /\ t <= Segment /\ t - (t - Tick) <= Tick
    BY <1>1, <1>2, <1>6
  <2>3. \/ Steep(Goes(t - Tick), Goes(t), From.ease_out_type, Depart)
        \/ Steep(Goes(t - Tick), Goes(t), To.ease_in_type, ArriveIn)
    BY <1>1, <1>3, <2>2, CoveredRises DEF Goes
  <2>4. QED
    BY <2>1, <2>3
<1>7. CASE t # 0 /\ t >= Segment
  <2>1. Prior = Goes(t - Tick) /\ q = One
    BY <1>7 DEF Prior
  <2>2. t - Tick \in Nat /\ t - Tick <= Segment /\ Segment - (t - Tick) <= Tick
    BY <1>1, <1>2, <1>7
  <2>3. \/ Steep(Goes(t - Tick), Goes(Segment), From.ease_out_type, Depart)
        \/ Steep(Goes(t - Tick), Goes(Segment), To.ease_in_type, ArriveIn)
    BY <1>2, <1>3, <2>2, CoveredRises DEF Goes
  <2>4. Goes(Segment) \in Fraction /\ Goes(Segment).n = Goes(Segment).d
    BY <1>3, CoveredEnds DEF Goes
  <2>5. Goes(t - Tick) \in Fraction
    BY <1>1, <2>2, GoesOn DEF Between
  <2>6. \/ Steep(Goes(t - Tick), One, From.ease_out_type, Depart)
        \/ Steep(Goes(t - Tick), One, To.ease_in_type, ArriveIn)
    BY <1>3, <1>4, <2>3, <2>4, <2>5, SteepToEnd
  <2>7. QED
    BY <2>1, <2>6
<1>8. QED
  BY <1>1, <1>2, <1>5, <1>6, <1>7

(* In one turn of the loop a servo covers no more than the steeper of the  *)
(* two easings does in a tick, also where departure, hold and arrival meet *)
(* and where the easings had to be scaled to fit the segment               *)
(* (custom_animation.c:121-144).                                           *)
THEOREM NeverJumps == PlaybackSpec => NoJump
<1>1. ASSUME TrailInv, PlaybackNext, Playing, t # -1, Gentle,
             From.ease_out_ms # 0, To.ease_in_ms # 0, NEW ch \in Channel
      PROVE  LET way  == Abs(To.angles[ch] - From.angles[ch]) * Duty
                 step == Abs(pose'[ch] - pose[ch]) - 1
                 Covers(ease, type) ==
                     step * 2 * ease.n <= way * Slope(type) * Tick * ease.d
             IN  Covers(Depart, From.ease_out_type) \/ Covers(ArriveIn, To.ease_in_type)
  <2>1. PICK q : /\ Between(q) /\ LE(Prior, q)
                 /\ t < Segment => q = Goes(t)
                 /\ t >= Segment => q = One
                 /\ pose'[ch] = Written(Way(From.angles[ch], To.angles[ch], q), ch)
    BY <1>1, ToldNext
  <2>2. /\ Prior \in Fraction /\ q \in Fraction
        /\ pose[ch] = Written(Way(From.angles[ch], To.angles[ch], Prior), ch)
    BY <1>1, <2>1, PriorIs DEF TrailInv, Trail, Between
  <2>3. \/ Steep(Prior, q, From.ease_out_type, Depart)
        \/ Steep(Prior, q, To.ease_in_type, ArriveIn)
    BY <1>1, <2>1, <2>2, SteepTurn
  <2>4. /\ PlayTypes /\ anim # <<>> /\ to <= Len(anim) /\ Segment # 0 /\ offset \in Offsets
    BY <1>1 DEF TrailInv, PlayInv, PlayTypes, PlaybackTypeOK
  <2>5. /\ From.ease_out_type \in Smooth /\ To.ease_in_type \in Smooth
        /\ Depart \in Fraction /\ Depart.n > 0 /\ ArriveIn \in Fraction /\ ArriveIn.n > 0
    BY <1>1, <2>4, EasingsFit, SharesIt DEF Fitting
  <2>6. From.angles[ch] \in Int /\ To.angles[ch] \in Int
    <3>1. to \in 1..Len(anim) /\ to - 1 \in 1..Len(anim)
      BY <2>4, SegmentIs
    <3>2. QED
      BY <2>4, <3>1, Frames DEF From, To
  <2> DEFINE a == From.angles[ch]
             b == To.angles[ch]
             way == Abs(b - a) * Duty
             step == Abs(Written(Way(a, b, q), ch) - Written(Way(a, b, Prior), ch)) - 1
             Covers(ease, type) == step * 2 * ease.n <= way * Slope(type) * Tick * ease.d
  <2>7. ASSUME Steep(Prior, q, From.ease_out_type, Depart)
        PROVE  Covers(Depart, From.ease_out_type)
    BY <2>1, <2>2, <2>4, <2>5, <2>6, <2>7, SteepCovers
  <2>8. ASSUME Steep(Prior, q, To.ease_in_type, ArriveIn)
        PROVE  Covers(ArriveIn, To.ease_in_type)
    BY <2>1, <2>2, <2>4, <2>5, <2>6, <2>8, SteepCovers
  <2>9. step = Abs(pose'[ch] - pose[ch]) - 1
    BY <2>1, <2>2
  <2>10. Covers(Depart, From.ease_out_type) \/ Covers(ArriveIn, To.ease_in_type)
    BY <2>3, <2>7, <2>8
  <2> HIDE DEF step, way, a, b
  <2>11. QED
    BY <2>9, <2>10 DEF way, a, b
<1>2. TrailInv /\ [PlaybackNext]_playbackVars =>
        [ /\ Playing /\ t # -1 /\ Authored(From.ease_out_type) /\ Authored(To.ease_in_type)
          /\ From.ease_out_ms # 0 /\ To.ease_in_ms # 0
          => \A ch \in Channel :
              LET way  == Abs(To.angles[ch] - From.angles[ch]) * Duty
                  step == Abs(pose'[ch] - pose[ch]) - 1
                  Covers(ease, type) ==
                      step * 2 * ease.n <= way * Slope(type) * Tick * ease.d
              IN  Covers(Depart, From.ease_out_type) \/ Covers(ArriveIn, To.ease_in_type) ]_playbackVars
  BY <1>1 DEF Gentle
<1>3. QED
  BY <1>2, TrailInvariance, PTL DEF PlaybackSpec, NoJump
============================================================================
