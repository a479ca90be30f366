--------------------------- MODULE CustomAnimation ---------------------------
(***************************************************************************)
(* Custom animations streamed with 0x05 (main/controller.c): the chunks a  *)
(* client writes, the command queue, and the reassembly registers of       *)
(* process_custom_animation_command().  Unlike the store's reassembly it   *)
(* has no reply, no timeout and no reset, so a transfer outlives the       *)
(* client that began it.  A byte of payload is abstract: the buffer is the *)
(* sequence of the chunks copied into it.                                  *)
(***************************************************************************)
EXTENDS Integers, Sequences

CONSTANTS
    TransferId,     \* transfer ids clients choose (uint8_t)
    MaxChunks,      \* largest chunk_count (255)
    Sizes,          \* payload sizes of a chunk
    Capacity,       \* CUSTOM_ANIMATION_MAX_SERIALIZED_SIZE, 769
    QueueLength,    \* COMMAND_QUEUE_LENGTH
    Malformed,      \* chunks no client should write
    MaxTransfers    \* bound: transfers clients begin

ASSUME SizesAssumption == /\ 0 \in TransferId /\ Sizes \subseteq Nat
                          /\ MaxChunks \in Nat /\ Capacity \in Nat
                          /\ QueueLength \in Nat /\ MaxTransfers \in Nat

(* The chunk as written, and which transfer of the history it belongs to.  *)
Chunk == [id : TransferId, index : 0..MaxChunks, count : 0..MaxChunks,
          size : Sizes, of : 1..MaxTransfers]

ASSUME MalformedAssumption ==
    \A c \in Malformed : c \in Chunk /\ (c.count = 0 \/ c.index >= c.count)

VARIABLES
    regs,       \* custom_animation_transfer_id, _chunk_count, _next_chunk, _len
    buffer,     \* custom_animation_buffer, up to _len
    queue,      \* the chunks in command_queue
    playing,    \* the controller is inside custom_animation_play()
    sender,     \* the transfer a client is sending
    played,     \* history: the animations played
    missed      \* history: the transfers whose chunk 0 a full queue dropped

vars == <<regs, buffer, queue, playing, sender, played, missed>>

Registers == [id : TransferId, count : 0..MaxChunks, next : 0..MaxChunks, len : 0..Capacity]
----------------------------------------------------------------------------
WellFormedOffByOne(c) == c.count # 0 /\ c.index <= c.count

WellFormed(c) == c.count # 0 /\ c.index < c.count

(* Chunk 0 takes the registers over, whatever was in flight.               *)
Started(c) == [id |-> c.id, count |-> c.count, next |-> 0, len |-> 0]

MatchesAnyCount(c) == c.id = regs.id /\ c.index = regs.next
Matches(c) == c.id = regs.id /\ c.count = regs.count /\ c.index = regs.next

Receiving(c) == IF c.index = 0 THEN Started(c) ELSE regs

(* The bytes in front of the chunk's; without the reset of _len, all.      *)
KeptAll(c) == buffer
Kept(c)    == IF c.index = 0 THEN <<>> ELSE buffer

FitsOffByOne(c) == Receiving(c).len + c.size <= Capacity + 1
Fits(c) == Receiving(c).len + c.size <= Capacity
----------------------------------------------------------------------------
Init == /\ regs = [id |-> 0, count |-> 0, next |-> 0, len |-> 0]
        /\ buffer = <<>>
        /\ queue = <<>>
        /\ playing = FALSE
        /\ sender = [id |-> 0, count |-> 0, next |-> 0, of |-> 0]
        /\ played = <<>>
        /\ missed = {}

(* A client, this one or one that connects later, begins a transfer; the   *)
(* one before, finished or not, is never resumed.                          *)
Begin(id, count) ==
    /\ sender.of < MaxTransfers
    /\ sender' = [id |-> id, count |-> count, next |-> 0, of |-> sender.of + 1]
    /\ UNCHANGED <<regs, buffer, queue, playing, played, missed>>

(* The client writes its next chunk, and controller_handle_write() queues  *)
(* it, or drops it when the queue stays full for 100 ms.                   *)
Write(size) ==
    LET c == [id |-> sender.id, index |-> sender.next, count |-> sender.count,
              size |-> size, of |-> sender.of]
    IN  /\ sender.next < sender.count
        /\ sender' = [sender EXCEPT !.next = @ + 1]
        /\ IF Len(queue) < QueueLength
           THEN queue' = Append(queue, c) /\ UNCHANGED missed
           ELSE /\ missed' = IF c.index = 0 THEN missed \cup {c.of} ELSE missed
                /\ UNCHANGED queue
        /\ UNCHANGED <<regs, buffer, playing, played>>

WriteMalformed(c) ==
    /\ Len(queue) < QueueLength
    /\ queue' = Append(queue, c)
    /\ UNCHANGED <<regs, buffer, playing, sender, played, missed>>
----------------------------------------------------------------------------
(* process_custom_animation_command() on the chunk in front.               *)
Take(c) == /\ ~playing
           /\ queue' = Tail(queue)
           /\ UNCHANGED <<sender, missed>>

IgnoreMalformed(c) == /\ Take(c)
                      /\ ~WellFormed(c)
                      /\ UNCHANGED <<regs, buffer, playing, played>>

(* Any other chunk than the next one: the transfer in flight is dropped.   *)
DropMismatch(c) ==
    /\ Take(c) /\ WellFormed(c)
    /\ c.index # 0 /\ ~Matches(c)
    /\ regs' = [regs EXCEPT !.count = 0]
    /\ UNCHANGED <<buffer, playing, played>>

DropTooLarge(c) ==
    /\ Take(c) /\ WellFormed(c)
    /\ c.index = 0 \/ Matches(c)
    /\ ~Fits(c)
    /\ regs' = [Receiving(c) EXCEPT !.count = 0]
    /\ buffer' = Kept(c)
    /\ UNCHANGED <<playing, played>>

(* The chunk is copied.  The last one ends the transfer, without clearing  *)
(* the registers: what custom_animation_deserialize() accepts is played.   *)
KeepChunk(c) ==
    /\ Take(c) /\ WellFormed(c)
    /\ c.index = 0 \/ Matches(c)
    /\ Fits(c)
    /\ regs' = [Receiving(c) EXCEPT !.len = @ + c.size, !.next = @ + 1]
    /\ buffer' = Append(Kept(c), c)
    /\ \/ UNCHANGED <<playing, played>>
       \/ /\ regs'.next >= regs'.count
          /\ playing' = TRUE
          /\ played' = Append(played, buffer')

(* custom_animation_play() returns.                                        *)
PlayEnds == /\ playing
            /\ playing' = FALSE
            /\ UNCHANGED <<regs, buffer, queue, sender, played, missed>>

Process(c) == IgnoreMalformed(c) \/ DropMismatch(c) \/ DropTooLarge(c) \/ KeepChunk(c)

Next == \/ \E id \in TransferId, count \in 1..MaxChunks : Begin(id, count)
        \/ \E size \in Sizes : Write(size)
        \/ \E c \in Malformed : WriteMalformed(c)
        \/ queue # <<>> /\ Process(Head(queue))
        \/ PlayEnds

Spec == Init /\ [][Next]_vars
----------------------------------------------------------------------------
TypeOK ==
    /\ regs \in Registers
    /\ buffer \in Seq(Chunk) /\ played \in Seq(Seq(Chunk))
    /\ queue \in Seq(Chunk) /\ Len(queue) <= QueueLength
    /\ playing \in BOOLEAN
    /\ sender \in [id : TransferId, count : 0..MaxChunks, next : 0..MaxChunks,
                   of : 0..MaxTransfers]
    /\ missed \subseteq 1..MaxTransfers

(* What is played is as many chunks as its first one announced, each in    *)
(* its place and all under one id, whatever was lost or dropped before     *)
(* (controller.c:130-180).                                                 *)
PlayedWhole ==
    \A i \in 1..Len(played) :
        /\ Len(played[i]) = played[i][1].count
        /\ \A j \in 1..Len(played[i]) : /\ played[i][j].index = j - 1
                                        /\ played[i][j].id = played[i][1].id
                                        /\ played[i][j].count = played[i][1].count

(* A transfer is played at most once, and none after a later one: the      *)
(* registers a finished transfer leaves behind take no further chunk.      *)
PlayedOnceInOrder ==
    \A i, j \in 1..Len(played) :
        i < j => played[i][Len(played[i])].of < played[j][Len(played[j])].of

(* Chunks of two transfers make one animation only if chunk 0 of the later *)
(* one never got into the queue (controller.c:583): nothing else tells two *)
(* transfers of one id and one count apart, and nothing ends the earlier.  *)
MixedOnlyIfStartMissed ==
    \A i \in 1..Len(played) : \A j \in 1..Len(played[i]) - 1 :
        played[i][j].of # played[i][j + 1].of => played[i][j + 1].of \in missed
=============================================================================
