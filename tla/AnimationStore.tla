--------------------------- MODULE AnimationStore ---------------------------
(***************************************************************************)
(* The store commands behind dispatch() (main/store.c) and the slots they  *)
(* keep in the "anim" NVS partition (main/animation_store.c), across power *)
(* loss and failing NVS calls.  Bytes are abstract: a record is the facts  *)
(* the code reads from it.  NVS itself is external, and promises what its  *)
(* interface does: a blob is replaced as a whole, once nvs_commit() has    *)
(* succeeded it stays, and until then a power loss leaves the old blob,    *)
(* the new one or none.                                                    *)
(***************************************************************************)
EXTENDS Integers, Sequences

CONSTANTS
    SlotCount,      \* STORE_SLOT_COUNT, 16
    Prefix,         \* STORE_RECORD_PREFIX_SIZE, 17
    NameMax,        \* STORE_NAME_MAX_BYTES, 32
    FrameSize,      \* CUSTOM_ANIMATION_KEYFRAME_SIZE, 12
    MaxFrames,      \* CUSTOM_ANIMATION_MAX_KEYFRAMES, 64
    Id,             \* animation ids
    Empty,          \* what a slot without a blob holds
    Inputs,         \* the records clients ask to store
    Damage,         \* the records a slot can hold that STORE did not write
    MaxFaults       \* bound: power losses and damaged slots

ASSUME SizesAssumption == /\ SlotCount \in Nat /\ Prefix \in Nat \ {0}
                          /\ NameMax \in Nat \ {0} /\ FrameSize \in Nat \ {0}
                          /\ MaxFrames \in Nat \ {0} /\ MaxFaults \in Nat

Slot == 0..SlotCount-1

(* A record of len bytes.  Of bytes it is too short to have, the field is  *)
(* whatever memory holds there; named says that the name_len bytes after   *)
(* the prefix are a name name_is_valid() accepts, framed that the count    *)
(* keyframes are ones custom_animation_deserialize() accepts.              *)
Record == [id : Id, name_len : Nat, len : Nat, count : Nat,
           named : BOOLEAN, framed : BOOLEAN]

ASSUME RecordsAssumption == /\ Inputs \subseteq Record /\ Damage \subseteq Record
                            /\ Empty \notin Record

RecordMax == Prefix + NameMax + 1 + MaxFrames * FrameSize
ListMax   == 1 + SlotCount * (1 + Prefix + NameMax)

VARIABLES
    flash,      \* flash[s]: the blob NVS holds for slot s, or Empty
    mounted,    \* animation_store_init() succeeded
    pc,         \* what the controller task is doing
    job,        \* the slot and record of the NVS write in progress
    reply,      \* the answer it gave last
    known,      \* history: what the last OK about a slot said it holds
    sure,       \* history: the slots nothing has touched since that OK
    faults      \* power losses and damaged slots so far

vars == <<flash, mounted, pc, job, reply, known, sure, faults>>
----------------------------------------------------------------------------
WireLen(r) == r.len - Prefix - r.name_len

(* custom_animation_deserialize() on the wire format of a record.          *)
Deserializes(r) == /\ WireLen(r) >= 1
                   /\ r.count \in 1..MaxFrames
                   /\ WireLen(r) >= 1 + r.count * FrameSize
                   /\ r.framed

(* Surplus bytes tolerated, as custom_animation_deserialize() does.         *)
AtLeastExact(r) == WireLen(r) >= 1 /\ WireLen(r) >= 1 + r.count * FrameSize

ExactLength(r) == WireLen(r) >= 1 /\ WireLen(r) = 1 + r.count * FrameSize

NameIsValid(r) == r.name_len \in 1..NameMax /\ r.named

(* slot < STORE_SLOT_COUNT, in handle_store().                             *)
SlotOffByOne(slot) == slot <= SlotCount
SlotInRange(slot)  == slot < SlotCount

(* handle_store(), in the order of its checks.                             *)
Refusal(slot, r) ==
    CASE r.len < Prefix              -> "MALFORMED_REQUEST"
      [] r.len < Prefix + r.name_len -> "MALFORMED_REQUEST"
      [] ~SlotInRange(slot)          -> "SLOT_OUT_OF_RANGE"
      [] ~NameIsValid(r)             -> "INVALID_NAME"
      [] ~ExactLength(r)             -> "MALFORMED_REQUEST"
      [] ~Deserializes(r)            -> "INVALID_ANIMATION"
      [] OTHER                       -> "none"
----------------------------------------------------------------------------
(* animation_store_read() into a buffer of RecordMax bytes.                *)
ReadError(s) == IF ~mounted THEN "NOT_INITIALIZED"
                ELSE IF flash[s] = Empty THEN "NOT_FOUND"
                ELSE IF flash[s].len > RecordMax THEN "INVALID_LENGTH" ELSE "OK"

(* A name length byte trusted as long as the record has the bytes.         *)
TrustsNameLength(r) == /\ r.len >= Prefix
                       /\ r.name_len >= 1
                       /\ r.len >= Prefix + r.name_len

(* The shape LIST and PLAY both require of a record they read.             *)
HasName(r) == /\ r.len >= Prefix
              /\ r.name_len \in 1..NameMax
              /\ r.len >= Prefix + r.name_len

Listed(s) == ReadError(s) = "OK" /\ HasName(flash[s])

(* PLAY without the shape check of LIST.                                   *)
PlayStatusUnshaped(s) ==
    CASE ReadError(s) = "NOT_FOUND"   -> "SLOT_EMPTY"
      [] ReadError(s) \notin {"OK", "NOT_FOUND"} -> "STORAGE_FAILURE"
      [] ~Deserializes(flash[s])      -> "STORAGE_FAILURE"
      [] OTHER                        -> "OK"

PlayStatus(s) ==
    CASE ReadError(s) = "NOT_FOUND"   -> "SLOT_EMPTY"
      [] ReadError(s) \notin {"OK", "NOT_FOUND"} -> "STORAGE_FAILURE"
      [] ~HasName(flash[s])           -> "SLOT_EMPTY"
      [] ~Deserializes(flash[s])      -> "STORAGE_FAILURE"
      [] OTHER                        -> "OK"

Answer(op, status) == [op |-> op, status |-> status]
NoJob == [op |-> "none", slot |-> 0, record |-> Empty]
----------------------------------------------------------------------------
Init == /\ flash = [s \in Slot |-> Empty]
        /\ mounted = FALSE
        /\ pc = "boot"
        /\ job = NoJob
        /\ reply = Answer("none", "none")
        /\ known = [s \in Slot |-> Empty]
        /\ sure = Slot
        /\ faults = 0

(* animation_store_init(): a partition NVS cannot use as it is, is erased; *)
(* one that is absent, or cannot be erased, leaves the store unmounted and *)
(* the boot goes on (boot.c:38-45).                                        *)
Boot ==
    /\ pc = "boot" /\ pc' = "idle"
    /\ \/ mounted' = TRUE /\ UNCHANGED <<flash, known, sure>>
       \/ /\ mounted' \in BOOLEAN
          /\ flash' = [s \in Slot |-> Empty]
          /\ known' = [s \in Slot |-> Empty]
          /\ sure' = Slot
       \/ mounted' = FALSE /\ UNCHANGED <<flash, known, sure>>
    /\ UNCHANGED <<job, reply, faults>>

Respond(op, status) == /\ pc' = "idle"
                       /\ reply' = Answer(op, status)

(* handle_store(): validate everything, then write.  From here to the      *)
(* answer the slot can hold the old record, the new one or none.           *)
Store(slot, r) ==
    /\ pc = "idle"
    /\ IF Refusal(slot, r) # "none" \/ ~mounted
       THEN /\ Respond("STORE", IF Refusal(slot, r) # "none" THEN Refusal(slot, r)
                                                            ELSE "STORAGE_FAILURE")
            /\ UNCHANGED <<job, sure>>
       ELSE /\ pc' = "write"
            /\ job' = [op |-> "STORE", slot |-> slot, record |-> r]
            /\ sure' = sure \ {slot}
            /\ UNCHANGED reply
    /\ UNCHANGED <<flash, mounted, known, faults>>

(* handle_delete(): parse_slot_payload(), then erase.                      *)
Delete(slot) ==
    /\ pc = "idle"
    /\ IF slot >= SlotCount \/ ~mounted
       THEN /\ Respond("DELETE", IF slot >= SlotCount THEN "SLOT_OUT_OF_RANGE"
                                                      ELSE "STORAGE_FAILURE")
            /\ UNCHANGED <<job, sure>>
       ELSE /\ pc' = "write"
            /\ job' = [op |-> "DELETE", slot |-> slot, record |-> Empty]
            /\ sure' = sure \ {slot}
            /\ UNCHANGED reply
    /\ UNCHANGED <<flash, mounted, known, faults>>

(* OK as soon as nvs_set_blob() has returned, nvs_commit() later.          *)
WriteAnswers ==
    /\ pc = "write"
    /\ flash' = [flash EXCEPT ![job.slot] = job.record]
    /\ pc' = "commit"
    /\ reply' = Answer(job.op, "OK")
    /\ known' = [known EXCEPT ![job.slot] = job.record]
    /\ sure' = sure \cup {job.slot}
    /\ UNCHANGED <<job, mounted, faults>>

(* nvs_set_blob() or nvs_erase_key().  A failure may have changed the slot.*)
Write ==
    /\ pc = "write"
    /\ \/ /\ job.op = "STORE" \/ flash[job.slot] # Empty
          /\ flash' = [flash EXCEPT ![job.slot] = job.record]
          /\ pc' = "commit"
          /\ UNCHANGED <<job, reply>>
       \/ /\ \E r \in {flash[job.slot], job.record} :
                flash' = [flash EXCEPT ![job.slot] = r]
          /\ Respond(job.op, "STORAGE_FAILURE")
          /\ job' = NoJob
    /\ UNCHANGED <<mounted, known, sure, faults>>

(* Deleting what is not there does not reach nvs_commit().                 *)
DeleteNothing ==
    /\ pc = "write" /\ job.op = "DELETE" /\ flash[job.slot] = Empty
    /\ Respond("DELETE", "OK")
    /\ known' = [known EXCEPT ![job.slot] = Empty]
    /\ sure' = sure \cup {job.slot}
    /\ job' = NoJob
    /\ UNCHANGED <<flash, mounted, faults>>

(* nvs_commit(), and the answer.                                           *)
Commit ==
    /\ pc = "commit"
    /\ \/ /\ Respond(job.op, "OK")
          /\ known' = [known EXCEPT ![job.slot] = job.record]
          /\ sure' = sure \cup {job.slot}
       \/ /\ Respond(job.op, "STORAGE_FAILURE")
          /\ UNCHANGED <<known, sure>>
    /\ job' = NoJob
    /\ UNCHANGED <<flash, mounted, faults>>

(* handle_play(), up to its answer.                                        *)
Play(slot) ==
    /\ pc = "idle"
    /\ Respond("PLAY", IF slot >= SlotCount THEN "SLOT_OUT_OF_RANGE" ELSE PlayStatus(slot))
    /\ UNCHANGED <<flash, mounted, job, known, sure, faults>>

(* handle_list(): the slots in ascending order, those it cannot read or    *)
(* make sense of left out; len is response_len.                            *)
WithSlot(s, response) ==
    IF Listed(s)
    THEN [entries |-> Append(response.entries, [slot |-> s, id |-> flash[s].id,
                                                name_len |-> flash[s].name_len]),
          len     |-> response.len + 1 + Prefix + flash[s].name_len]
    ELSE response

Response[n \in 0..SlotCount] ==
    IF n = 0 THEN [entries |-> <<>>, len |-> 1] ELSE WithSlot(n - 1, Response[n - 1])

List == /\ pc = "idle"
        /\ pc' = "idle"
        /\ reply' = [op |-> "LIST", status |-> "OK", entries |-> Response[SlotCount].entries]
        /\ UNCHANGED <<flash, mounted, job, known, sure, faults>>

(* Power is lost.  What was not committed may be there, or be gone, or     *)
(* have taken the old record with it.                                      *)
PowerLoss ==
    /\ faults < MaxFaults /\ faults' = faults + 1
    /\ pc' = "boot" /\ mounted' = FALSE /\ job' = NoJob
    /\ reply' = Answer("none", "none")
    /\ IF job = NoJob
       THEN UNCHANGED flash
       ELSE \E r \in {flash[job.slot], job.record, Empty} :
              flash' = [flash EXCEPT ![job.slot] = r]
    /\ UNCHANGED <<known, sure>>

(* A slot comes to hold a record no STORE of this firmware wrote.          *)
Damaged(s) ==
    /\ pc = "idle" /\ faults < MaxFaults /\ faults' = faults + 1
    /\ \E r \in Damage : flash' = [flash EXCEPT ![s] = r]
    /\ sure' = sure \ {s}
    /\ UNCHANGED <<mounted, pc, job, reply, known>>

Next == \/ Boot \/ Write \/ DeleteNothing \/ Commit \/ List \/ PowerLoss
        \/ \E slot \in 0..SlotCount : \/ Delete(slot) \/ Play(slot)
                                      \/ \E r \in Inputs : Store(slot, r)
        \/ \E s \in Slot : Damaged(s)

Spec == Init /\ [][Next]_vars
----------------------------------------------------------------------------
TypeOK ==
    /\ flash \in [Slot -> Record \cup {Empty}]
    /\ mounted \in BOOLEAN
    /\ pc \in {"boot", "idle", "write", "commit"}
    /\ job.op \in {"none", "STORE", "DELETE"}
    /\ job.slot \in Nat
    /\ job.record \in Record \cup {Empty}
    /\ job.op # "none" => job.slot \in Slot
    /\ pc \in {"write", "commit"} <=> job.op # "none"
    /\ known \in [Slot -> Record \cup {Empty}]
    /\ sure \subseteq Slot

(* An OK is kept: until the next STORE or DELETE of a slot is tried, the   *)
(* slot holds exactly what the last OK said, whatever other requests fail  *)
(* and whenever the power goes, unless a boot had to erase the partition   *)
(* (store.c:306-315, animation_store.c:40-121).                            *)
OkIsKept == \A s \in sure : flash[s] = known[s]

(* Whatever STORE wrote, and however a write was interrupted, LIST shows   *)
(* it and PLAY can play it: it fits the read buffers and passes the checks *)
(* of both (store.c:253-304 against 208-229 and 375-411).                  *)
StoredIsUsable ==
    \A s \in Slot : mounted /\ flash[s] \notin Damage \cup {Empty}
                       => Listed(s) /\ PlayStatus(s) = "OK"

(* SLOT_EMPTY means that the client's list is stale, and what LIST does    *)
(* not show cannot be played, damaged records included (store.c:388-397).  *)
SeenIsPlayable ==
    \A s \in Slot : /\ PlayStatus(s) = "SLOT_EMPTY" => ~Listed(s)
                    /\ PlayStatus(s) = "OK" => Listed(s)

(* The answer to LIST fits its static buffer (store.c:198, 231-233).       *)
ListFits == Response[SlotCount].len <= ListMax
============================================================================
