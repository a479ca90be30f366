----------------------- MODULE AnimationStore_proofs -----------------------
(***************************************************************************)
(* For every number of slots, every size, every set of inputs and every    *)
(* set of damaged records: the store stays in type, an OK is kept, and     *)
(* what STORE wrote can be listed and played, in an answer that fits.      *)
(***************************************************************************)
EXTENDS AnimationStore, TLAPS, NaturalsInduction, WellFoundedInduction

(* A record that handle_store() accepts for some slot.                     *)
Acceptable(r) == /\ r \in Record
                 /\ r.len >= Prefix + r.name_len
                 /\ NameIsValid(r) /\ ExactLength(r) /\ Deserializes(r)

Intact(r) == r = Empty \/ Acceptable(r)

(* A write in progress names its slot, about which nothing is sure; once   *)
(* written, the slot holds its record.  And nothing but acceptable records *)
(* is ever written.                                                        *)
JobInv == /\ job.op = "none" => job = NoJob
          /\ job.op # "none" => job.slot \in Slot \ sure
          /\ pc = "commit" => flash[job.slot] = job.record
          /\ Intact(job.record)

ContentInv == \A s \in Slot : flash[s] \in Damage \/ Intact(flash[s])

IInv == TypeOK /\ JobInv /\ OkIsKept /\ ContentInv
----------------------------------------------------------------------------
LEMMA NoJobType ==
    /\ NoJob.op = "none" /\ NoJob.slot = 0 /\ NoJob.record = Empty
    /\ Intact(NoJob.record)
BY DEF NoJob, Intact

LEMMA InitInv == Init => IInv
<1> SUFFICES ASSUME Init PROVE IInv
  OBVIOUS
<1>0. /\ pc = "boot" /\ mounted = FALSE /\ sure = Slot
      /\ job.op = "none" /\ job.slot = 0 /\ job.record = Empty
  BY NoJobType DEF Init
<1>1. TypeOK
  <2>1. flash \in [Slot -> Record \cup {Empty}] /\ known \in [Slot -> Record \cup {Empty}]
    BY DEF Init
  <2>2. mounted \in BOOLEAN
    BY <1>0, Zenon
  <2>3. QED
    BY <1>0, <2>1, <2>2 DEF TypeOK
<1>2. JobInv
  BY NoJobType DEF Init, JobInv
<1>3. OkIsKept /\ ContentInv
  BY DEF Init, OkIsKept, ContentInv, Intact
<1>4. QED
  BY <1>1, <1>2, <1>3 DEF IInv

(* One slot gets a value that is Empty or acceptable, and nothing is sure  *)
(* about that slot: this is all a write, an erase or a power loss can do.  *)
LEMMA SlotWritten ==
    ASSUME IInv, NEW s \in Slot, NEW r, Intact(r) \/ r \in Damage,
           flash' = [flash EXCEPT ![s] = r]
    PROVE  /\ flash' \in [Slot -> Record \cup {Empty}]
           /\ flash'[s] = r
           /\ \A t \in Slot : t # s => flash'[t] = flash[t]
           /\ \A t \in Slot : flash'[t] \in Damage \/ Intact(flash'[t])
<1>1. flash \in [Slot -> Record \cup {Empty}]
  BY DEF IInv, TypeOK
<1>2. r \in Record \cup {Empty}
  BY RecordsAssumption DEF Intact, Acceptable
<1>3. /\ flash' \in [Slot -> Record \cup {Empty}]
      /\ flash'[s] = r
      /\ \A t \in Slot : t # s => flash'[t] = flash[t]
  BY <1>1, <1>2
<1>4. QED
  BY <1>3 DEF IInv, ContentInv

(* Boot, with the partition as it was or erased.                           *)
LEMMA BootInv == IInv /\ Boot => IInv'
<1> SUFFICES ASSUME IInv, Boot PROVE IInv'
  OBVIOUS
<1>1. job.op = "none" /\ job = NoJob
  BY DEF IInv, TypeOK, JobInv, Boot
<1>2. UNCHANGED job /\ pc' = "idle" /\ mounted' \in BOOLEAN
  BY DEF Boot, IInv, TypeOK
<1>3. \/ UNCHANGED <<flash, known, sure>>
      \/ /\ flash' = [s \in Slot |-> Empty]
         /\ known' = [s \in Slot |-> Empty]
         /\ sure' = Slot
  BY DEF Boot
<1>4. TypeOK'
  BY <1>1, <1>2, <1>3, NoJobType DEF IInv, TypeOK
<1>5. JobInv'
  BY <1>1, <1>2, NoJobType DEF JobInv
<1>6. OkIsKept' /\ ContentInv'
  BY <1>3 DEF IInv, OkIsKept, ContentInv, Intact
<1>7. QED
  BY <1>4, <1>5, <1>6 DEF IInv

(* What handle_store() does not refuse is acceptable, and for a slot.      *)
LEMMA AcceptedRecord ==
    ASSUME NEW slot \in 0..SlotCount, NEW r \in Inputs, Refusal(slot, r) = "none"
    PROVE  slot \in Slot /\ Acceptable(r)
<1>1. r \in Record /\ SlotCount \in Nat /\ Prefix \in Nat
  BY RecordsAssumption, SizesAssumption
<1>2. /\ ~(r.len < Prefix) /\ ~(r.len < Prefix + r.name_len) /\ SlotInRange(slot)
      /\ NameIsValid(r) /\ ExactLength(r) /\ Deserializes(r)
  BY DEF Refusal
<1>3. r.len \in Nat /\ r.name_len \in Nat
  BY <1>1 DEF Record
<1>4. QED
  BY <1>1, <1>2, <1>3 DEF Slot, SlotInRange, Acceptable

LEMMA StoreInv ==
    ASSUME IInv, NEW slot \in 0..SlotCount, NEW r \in Inputs, Store(slot, r)
    PROVE  IInv'
<1>1. /\ UNCHANGED <<flash, mounted, known>>
      /\ pc = "idle" /\ job.op = "none"
  BY DEF Store, IInv, TypeOK
<1>2. CASE UNCHANGED <<job, sure>> /\ pc' = "idle"
  BY <1>1, <1>2 DEF IInv, TypeOK, JobInv, OkIsKept, ContentInv
<1>3. CASE /\ Refusal(slot, r) = "none"
           /\ pc' = "write" /\ sure' = sure \ {slot}
           /\ job' = [op |-> "STORE", slot |-> slot, record |-> r]
  <2>1. slot \in Slot /\ Acceptable(r) /\ r \in Record
    BY <1>3, AcceptedRecord DEF Acceptable
  <2>2. job'.op = "STORE" /\ job'.slot = slot /\ job'.record = r
    BY <1>3
  <2>3. slot \in Nat
    BY <2>1, SizesAssumption DEF Slot
  <2>4. TypeOK'
    BY <1>1, <1>3, <2>1, <2>2, <2>3 DEF IInv, TypeOK
  <2>5. JobInv'
    BY <1>3, <2>1, <2>2 DEF JobInv, Intact
  <2>6. OkIsKept' /\ ContentInv'
    BY <1>1, <1>3 DEF IInv, OkIsKept, ContentInv
  <2>7. QED
    BY <2>4, <2>5, <2>6 DEF IInv
<1>4. QED
  BY <1>2, <1>3 DEF Store, Respond

LEMMA DeleteInv ==
    ASSUME IInv, NEW slot \in 0..SlotCount, Delete(slot)
    PROVE  IInv'
<1>1. /\ UNCHANGED <<flash, mounted, known>>
      /\ pc = "idle" /\ job.op = "none"
  BY DEF Delete, IInv, TypeOK
<1>2. CASE UNCHANGED <<job, sure>> /\ pc' = "idle"
  BY <1>1, <1>2 DEF IInv, TypeOK, JobInv, OkIsKept, ContentInv
<1>3. CASE /\ ~(slot >= SlotCount)
           /\ pc' = "write" /\ sure' = sure \ {slot}
           /\ job' = [op |-> "DELETE", slot |-> slot, record |-> Empty]
  <2>1. slot \in Slot /\ slot \in Nat
    BY <1>3, SizesAssumption DEF Slot
  <2>2. job'.op = "DELETE" /\ job'.slot = slot /\ job'.record = Empty
    BY <1>3
  <2>3. TypeOK'
    BY <1>1, <1>3, <2>1, <2>2 DEF IInv, TypeOK
  <2>4. JobInv'
    BY <1>3, <2>1, <2>2 DEF JobInv, Intact
  <2>5. OkIsKept' /\ ContentInv'
    BY <1>1, <1>3 DEF IInv, OkIsKept, ContentInv
  <2>6. QED
    BY <2>3, <2>4, <2>5 DEF IInv
<1>4. QED
  BY <1>2, <1>3 DEF Delete, Respond

(* nvs_set_blob() or nvs_erase_key() leaves its slot with the old or the   *)
(* new value.                                                              *)
LEMMA WriteInv == IInv /\ Write => IInv'
<1> SUFFICES ASSUME IInv, Write PROVE IInv'
  OBVIOUS
<1>1. /\ job.op # "none" /\ job.slot \in Slot \ sure /\ Intact(job.record)
      /\ UNCHANGED <<mounted, known, sure>>
  BY DEF IInv, TypeOK, JobInv, Write
<1>2. PICK r : /\ r \in {flash[job.slot], job.record}
               /\ flash' = [flash EXCEPT ![job.slot] = r]
               /\ \/ r = job.record /\ pc' = "commit" /\ UNCHANGED job
                  \/ pc' = "idle" /\ job' = NoJob
  BY DEF Write, Respond
<1>3. Intact(r) \/ r \in Damage
  BY <1>1, <1>2 DEF IInv, ContentInv
<1>4. /\ flash' \in [Slot -> Record \cup {Empty}]
      /\ flash'[job.slot] = r
      /\ \A t \in Slot : t # job.slot => flash'[t] = flash[t]
      /\ \A t \in Slot : flash'[t] \in Damage \/ Intact(flash'[t])
  BY <1>1, <1>2, <1>3, SlotWritten
<1>5. TypeOK'
  BY <1>1, <1>2, <1>4, NoJobType DEF IInv, TypeOK
<1>6. JobInv'
  <2>1. CASE r = job.record /\ pc' = "commit" /\ UNCHANGED job
    BY <1>1, <1>4, <2>1 DEF JobInv
  <2>2. CASE pc' = "idle" /\ job' = NoJob
    BY <2>2, NoJobType DEF JobInv
  <2>3. QED
    BY <1>2, <2>1, <2>2
<1>7. OkIsKept'
  BY <1>1, <1>4 DEF IInv, TypeOK, OkIsKept
<1>8. ContentInv'
  BY <1>4 DEF ContentInv
<1>9. QED
  BY <1>5, <1>6, <1>7, <1>8 DEF IInv

(* The answer OK records what the slot holds.                              *)
LEMMA AnsweredInv ==
    ASSUME IInv, job.op # "none", flash[job.slot] = job.record,
           known' = [known EXCEPT ![job.slot] = job.record],
           sure' = sure \cup {job.slot},
           job' = NoJob, pc' = "idle", UNCHANGED <<flash, mounted>>
    PROVE  IInv'
<1>1. job.slot \in Slot /\ job.record \in Record \cup {Empty}
  BY DEF IInv, TypeOK
<1>2. TypeOK'
  BY <1>1, NoJobType DEF IInv, TypeOK
<1>3. JobInv'
  BY NoJobType DEF JobInv
<1>4. OkIsKept' /\ ContentInv'
  BY <1>1 DEF IInv, TypeOK, OkIsKept, ContentInv
<1>5. QED
  BY <1>2, <1>3, <1>4 DEF IInv

LEMMA DeleteNothingInv == IInv /\ DeleteNothing => IInv'
<1> SUFFICES ASSUME IInv, DeleteNothing PROVE IInv'
  OBVIOUS
<1>1. job.op = "DELETE" /\ flash[job.slot] = Empty /\ job.slot \in Slot
  BY DEF DeleteNothing, IInv, TypeOK
<1>2. /\ known' = [known EXCEPT ![job.slot] = Empty]
      /\ sure' = sure \cup {job.slot}
      /\ job' = NoJob /\ pc' = "idle" /\ UNCHANGED <<flash, mounted>>
  BY DEF DeleteNothing, Respond
<1>3. TypeOK'
  BY <1>1, <1>2, NoJobType DEF IInv, TypeOK
<1>4. JobInv'
  BY <1>2, NoJobType DEF JobInv
<1>5. OkIsKept' /\ ContentInv'
  BY <1>1, <1>2 DEF IInv, TypeOK, OkIsKept, ContentInv
<1>6. QED
  BY <1>3, <1>4, <1>5 DEF IInv

LEMMA CommitInv == IInv /\ Commit => IInv'
<1> SUFFICES ASSUME IInv, Commit PROVE IInv'
  OBVIOUS
<1>1. /\ job.op # "none" /\ flash[job.slot] = job.record
      /\ job' = NoJob /\ pc' = "idle" /\ UNCHANGED <<flash, mounted>>
  BY DEF IInv, TypeOK, JobInv, Commit, Respond
<1>2. CASE /\ known' = [known EXCEPT ![job.slot] = job.record]
           /\ sure' = sure \cup {job.slot}
  BY <1>1, <1>2, AnsweredInv
<1>3. CASE UNCHANGED <<known, sure>>
  BY <1>1, <1>3, NoJobType DEF IInv, TypeOK, JobInv, OkIsKept, ContentInv
<1>4. QED
  BY <1>2, <1>3 DEF Commit

(* Only the slot of the write in progress can suffer, and that one is not  *)
(* sure.                                                                   *)
LEMMA PowerLossInv == IInv /\ PowerLoss => IInv'
<1> SUFFICES ASSUME IInv, PowerLoss PROVE IInv'
  OBVIOUS
<1>1. pc' = "boot" /\ mounted' = FALSE /\ job' = NoJob /\ UNCHANGED <<known, sure>>
  BY DEF PowerLoss
<1>2. /\ flash' \in [Slot -> Record \cup {Empty}]
      /\ \A t \in sure : flash'[t] = flash[t]
      /\ \A t \in Slot : flash'[t] \in Damage \/ Intact(flash'[t])
  <2>1. CASE job = NoJob
    BY <2>1 DEF PowerLoss, IInv, TypeOK, ContentInv
  <2>2. CASE job # NoJob
    <3>1. job.slot \in Slot \ sure /\ Intact(job.record)
      BY <2>2 DEF IInv, JobInv
    <3>2. PICK r \in {flash[job.slot], job.record, Empty} :
             flash' = [flash EXCEPT ![job.slot] = r]
      BY <2>2 DEF PowerLoss
    <3>3. Intact(r) \/ r \in Damage
      BY <3>1 DEF IInv, ContentInv, Intact
    <3>4. QED
      BY <3>1, <3>2, <3>3, SlotWritten DEF IInv, TypeOK
  <2>3. QED
    BY <2>1, <2>2
<1>3. TypeOK'
  <2>1. job'.op = "none" /\ job'.slot = 0 /\ job'.record = Empty
    BY <1>1, NoJobType
  <2>2. mounted' \in BOOLEAN
    BY <1>1, Zenon
  <2>3. QED
    BY <1>1, <1>2, <2>1, <2>2 DEF IInv, TypeOK
<1>4. JobInv'
  BY <1>1, NoJobType DEF JobInv
<1>5. OkIsKept' /\ ContentInv'
  BY <1>1, <1>2 DEF IInv, OkIsKept, ContentInv
<1>6. QED
  BY <1>3, <1>4, <1>5 DEF IInv

LEMMA DamagedInv ==
    ASSUME IInv, NEW s \in Slot, Damaged(s)
    PROVE  IInv'
<1>1. /\ pc = "idle" /\ job.op = "none" /\ sure' = sure \ {s}
      /\ UNCHANGED <<mounted, pc, job, known>>
  BY DEF Damaged, IInv, TypeOK
<1>2. PICK r \in Damage : flash' = [flash EXCEPT ![s] = r]
  BY DEF Damaged
<1>3. /\ flash' \in [Slot -> Record \cup {Empty}]
      /\ \A t \in Slot : t # s => flash'[t] = flash[t]
      /\ \A t \in Slot : flash'[t] \in Damage \/ Intact(flash'[t])
  BY <1>2, SlotWritten
<1>4. TypeOK'
  BY <1>1, <1>3 DEF IInv, TypeOK
<1>5. JobInv'
  BY <1>1 DEF IInv, JobInv
<1>6. OkIsKept' /\ ContentInv'
  BY <1>1, <1>3 DEF IInv, TypeOK, OkIsKept, ContentInv
<1>7. QED
  BY <1>4, <1>5, <1>6 DEF IInv

LEMMA StepInv == IInv /\ [Next]_vars => IInv'
<1> SUFFICES ASSUME IInv, [Next]_vars PROVE IInv'
  OBVIOUS
<1>1. CASE UNCHANGED <<flash, mounted, pc, job, known, sure>>
  BY <1>1 DEF IInv, TypeOK, JobInv, OkIsKept, ContentInv
<1>2. CASE List
  BY <1>1, <1>2 DEF List
<1>3. ASSUME NEW slot \in 0..SlotCount, Play(slot) PROVE IInv'
  BY <1>1, <1>3 DEF Play, Respond
<1>4. QED
  BY <1>1, <1>2, <1>3, BootInv, WriteInv, DeleteNothingInv, CommitInv, PowerLossInv,
     StoreInv, DeleteInv, DamagedInv DEF Next, vars

LEMMA AlwaysInv == Spec => []IInv
BY InitInv, StepInv, PTL DEF Spec
----------------------------------------------------------------------------
(* Every variable keeps its type, and a write in progress its slot.        *)
THEOREM TypeCorrect == Spec => []TypeOK
<1>1. IInv => TypeOK
  BY DEF IInv
<1>2. QED
  BY <1>1, AlwaysInv, PTL

(* An OK about a slot stays true until the slot is written again, whatever *)
(* fails and whenever the power goes.                                      *)
THEOREM OkKept == Spec => []OkIsKept
<1>1. IInv => OkIsKept
  BY DEF IInv
<1>2. QED
  BY <1>1, AlwaysInv, PTL

LEMMA TimesMonotone ==
    ASSUME NEW a \in Nat, NEW b \in Nat, NEW c \in Nat, a <= b
    PROVE  a * c <= b * c
<1>1. b - a \in Nat /\ (b - a) * c \in Nat
  OBVIOUS
<1>2. b * c = a * c + (b - a) * c
  OBVIOUS
<1>3. QED
  BY <1>1, <1>2

(* An acceptable record fits the buffer LIST and PLAY read it into, and    *)
(* passes their checks.                                                    *)
LEMMA AcceptableReads ==
    ASSUME NEW r, Acceptable(r)
    PROVE  r.len <= RecordMax /\ HasName(r) /\ Deserializes(r)
<1>1. /\ r.len \in Nat /\ r.name_len \in 1..NameMax /\ r.count \in 1..MaxFrames
      /\ WireLen(r) = 1 + r.count * FrameSize
      /\ r.len >= Prefix + r.name_len
      /\ Deserializes(r)
  BY DEF Acceptable, Record, NameIsValid, ExactLength, Deserializes
<1>2. r.count * FrameSize <= MaxFrames * FrameSize
  BY <1>1, SizesAssumption, TimesMonotone
<1>3. r.count * FrameSize \in Nat /\ MaxFrames * FrameSize \in Nat
  BY <1>1, SizesAssumption
<1>4. r.len <= RecordMax
  BY <1>1, <1>2, <1>3, SizesAssumption DEF WireLen, RecordMax
<1>5. HasName(r)
  BY <1>1, SizesAssumption DEF HasName
<1>6. QED
  BY <1>1, <1>4, <1>5

(* Whatever STORE left in a slot, a mounted store lists it and plays it.   *)
THEOREM StoredUsable == Spec => []StoredIsUsable
<1>1. ASSUME IInv, NEW s \in Slot, mounted, flash[s] \notin Damage \cup {Empty}
      PROVE  Listed(s) /\ PlayStatus(s) = "OK"
  <2>1. Acceptable(flash[s])
    BY <1>1 DEF IInv, ContentInv, Intact
  <2>2. flash[s].len <= RecordMax /\ HasName(flash[s]) /\ Deserializes(flash[s])
    BY <2>1, AcceptableReads
  <2>3. flash[s].len \in Nat /\ RecordMax \in Nat
    BY <2>1, SizesAssumption DEF Acceptable, Record, RecordMax
  <2>4. ReadError(s) = "OK"
    BY <1>1, <2>2, <2>3 DEF ReadError
  <2>5. QED
    BY <2>2, <2>4 DEF Listed, PlayStatus
<1>2. IInv => StoredIsUsable
  BY <1>1 DEF StoredIsUsable
<1>3. QED
  BY <1>2, AlwaysInv, PTL

(* The three checks of PLAY, in their order, against those of LIST: a      *)
(* record that LIST leaves out is one PLAY calls SLOT_EMPTY or cannot      *)
(* read, and never one it plays, whatever the flash holds                  *)
(* (store.c:208-229 against 375-411).                                      *)
THEOREM SeenPlayable == Spec => []SeenIsPlayable
<1>1. ASSUME NEW s \in Slot, PlayStatus(s) = "SLOT_EMPTY" PROVE ~Listed(s)
  BY <1>1 DEF PlayStatus, Listed
<1>2. ASSUME NEW s \in Slot, PlayStatus(s) = "OK" PROVE Listed(s)
  <2>1. ReadError(s) # "NOT_FOUND" /\ ReadError(s) \in {"OK", "NOT_FOUND"} /\ HasName(flash[s])
    BY <1>2 DEF PlayStatus
  <2>2. QED
    BY <2>1 DEF Listed
<1>3. SeenIsPlayable
  BY <1>1, <1>2 DEF SeenIsPlayable
<1>4. QED
  BY <1>3, PTL
----------------------------------------------------------------------------
Below == {ss \in Nat \X Nat : ss[1] < ss[2]}

(* A set of numbers that is not empty has a least one.                    *)
LEMMA Least ==
    ASSUME NEW T \in SUBSET Nat, T # {}
    PROVE  \E x \in T : \A y \in T : ~(y < x)
<1>1. IsWellFoundedOn(Below, Nat)
  BY NatLessThanWellFounded DEF OpToRel, Below
<1>2. \E x \in T : \A y \in T : ~(<<y, x>> \in Below)
  BY <1>1, WFMin
<1>3. \A x, y \in T : <<y, x>> \in Below <=> y < x
  BY DEF Below
<1>4. QED
  BY <1>2, <1>3

(* What the loop of handle_list() starts from, and f as the answers after  *)
(* each of N slots.                                                        *)
First == [entries |-> <<>>, len |-> 1]

Loops(N, f) == f = [n \in 0..N |-> IF n = 0 THEN First ELSE WithSlot(n - 1, f[n - 1])]

LEMMA OneSlotMore ==
    ASSUME NEW N \in Nat, NEW g, Loops(N, g)
    PROVE  \E f : Loops(N + 1, f)
<1> DEFINE f == [n \in 0..(N + 1) |-> IF n = N + 1 THEN WithSlot(N, g[N]) ELSE g[n]]
<1>1. \A n \in 0..N : g[n] = IF n = 0 THEN First ELSE WithSlot(n - 1, g[n - 1])
  <2>1. g = [n \in 0..N |-> IF n = 0 THEN First ELSE WithSlot(n - 1, g[n - 1])]
    BY DEF Loops
  <2>2. QED
    BY ONLY <2>1, Zenon
<1>2. ASSUME NEW n \in 0..(N + 1)
      PROVE  f[n] = IF n = 0 THEN First ELSE WithSlot(n - 1, f[n - 1])
  <2>1. CASE n = N + 1
    <3>1. f[n] = WithSlot(N, g[N]) /\ n # 0 /\ n - 1 = N /\ n - 1 \in 0..(N + 1) /\ n - 1 # N + 1
      BY <2>1
    <3>2. f[n - 1] = g[N]
      BY <3>1
    <3>3. QED
      BY <3>1, <3>2
  <2>2. CASE n # N + 1
    <3>1. n \in 0..N /\ f[n] = g[n]
      BY <2>2
    <3>2. n # 0 => n - 1 \in 0..(N + 1) /\ n - 1 # N + 1
      BY <3>1
    <3>3. n # 0 => f[n - 1] = g[n - 1]
      BY <3>2
    <3>4. QED
      BY <1>1, <3>1, <3>3
  <2>3. QED
    BY <2>1, <2>2
<1>3. f = [n \in 0..(N + 1) |-> IF n = 0 THEN First ELSE WithSlot(n - 1, f[n - 1])]
  <2> DEFINE h == [n \in 0..(N + 1) |-> IF n = 0 THEN First ELSE WithSlot(n - 1, f[n - 1])]
  <2>1. \A n \in 0..(N + 1) : f[n] = h[n]
    BY <1>2
  <2>2. f = [n \in 0..(N + 1) |-> f[n]] /\ h = [n \in 0..(N + 1) |-> h[n]]
    OBVIOUS
  <2> HIDE DEF f, h
  <2>3. f = h
    BY <2>1, <2>2
  <2>4. QED
    BY <2>3 DEF h
<1> HIDE DEF f
<1>4. QED
  BY <1>3 DEF Loops

LEMMA AnswersExist == \A N \in Nat : \E f : Loops(N, f)
<1> DEFINE T == {N \in Nat : ~\E f : Loops(N, f)}
<1>1. SUFFICES ASSUME T # {} PROVE FALSE
  OBVIOUS
<1>2. PICK x \in T : \A y \in T : ~(y < x)
  BY <1>1, Least
<1>3. x \in Nat /\ ~\E f : Loops(x, f)
  OBVIOUS
<1>4. x # 0
  <2> DEFINE f == [n \in 0..0 |-> First]
  <2>1. f = [n \in 0..0 |-> IF n = 0 THEN First ELSE WithSlot(n - 1, f[n - 1])]
    OBVIOUS
  <2>2. Loops(0, f)
    BY <2>1 DEF Loops
  <2>3. QED
    BY <1>3, <2>2
<1>5. x - 1 \in Nat /\ x - 1 < x /\ (x - 1) + 1 = x
  BY <1>3, <1>4
<1>6. x - 1 \notin T
  BY <1>2, <1>5
<1>7. \E f : Loops(x - 1, f)
  BY <1>5, <1>6
<1>8. QED
  BY <1>3, <1>5, <1>7, OneSlotMore

(* The answer of the model is that of the loop.                            *)
LEMMA ResponseLoops == Loops(SlotCount, Response)
<1>1. \E f : Loops(SlotCount, f)
  BY AnswersExist, SizesAssumption
<1>2. Response = CHOOSE f : Loops(SlotCount, f)
  BY DEF Response, Loops, First
<1>3. QED
  BY <1>1, <1>2, Zenon

(* After n slots the answer has at most n entries of the largest size.     *)
Most(n) == 1 + n * (1 + Prefix + NameMax)

LEMMA ResponseBound ==
    \A n \in 0..SlotCount : Response[n].len \in Nat /\ Response[n].len <= Most(n)
<1> DEFINE T == {n \in 0..SlotCount : ~(Response[n].len \in Nat /\ Response[n].len <= Most(n))}
<1>1. SUFFICES ASSUME T # {} PROVE FALSE
  OBVIOUS
<1>2. SlotCount \in Nat /\ Prefix \in Nat /\ NameMax \in Nat
  BY SizesAssumption
<1>3. T \in SUBSET Nat
  BY <1>2
<1>4. PICK x \in T : \A y \in T : ~(y < x)
  BY <1>1, <1>3, Least
<1>5. /\ x \in 0..SlotCount
      /\ ~(Response[x].len \in Nat /\ Response[x].len <= Most(x))
  OBVIOUS
<1>6. Response[x] = IF x = 0 THEN First ELSE WithSlot(x - 1, Response[x - 1])
  BY <1>5, ResponseLoops, Zenon DEF Loops
<1>7. x # 0
  <2>1. First.len = 1 /\ Most(0) = 1
    BY <1>2 DEF First, Most
  <2>2. QED
    BY <1>5, <1>6, <2>1
<1>8. /\ x - 1 \in 0..SlotCount /\ x - 1 < x /\ x \in Nat
      /\ Most(x) = Most(x - 1) + 1 + Prefix + NameMax /\ Most(x - 1) \in Nat
  <2>1. x - 1 \in 0..SlotCount /\ x - 1 < x /\ x \in Nat /\ x - 1 \in Nat
    BY <1>2, <1>5, <1>7
  <2>2. \A k, c \in Nat : (k - 1) * c + c = k * c /\ k * c \in Nat
    OBVIOUS
  <2>3. /\ (x - 1) * (1 + Prefix + NameMax) + (1 + Prefix + NameMax) = x * (1 + Prefix + NameMax)
        /\ (x - 1) * (1 + Prefix + NameMax) \in Nat /\ x * (1 + Prefix + NameMax) \in Nat
    BY <1>2, <2>1, <2>2
  <2>4. QED
    BY <1>2, <2>1, <2>3 DEF Most
<1>9. Response[x - 1].len \in Nat /\ Response[x - 1].len <= Most(x - 1)
  BY <1>4, <1>8
<1> HIDE DEF T
<1>10. \/ Response[x] = Response[x - 1]
       \/ /\ flash[x - 1].name_len \in 1..NameMax
          /\ Response[x].len = Response[x - 1].len + 1 + Prefix + flash[x - 1].name_len
  BY <1>6, <1>7 DEF WithSlot, Listed, HasName
<1>11. QED
  BY <1>2, <1>5, <1>8, <1>9, <1>10

(* The answer to LIST fits its static buffer, whatever the flash holds: an *)
(* entry is listed only with a name of at most NameMax bytes, and there is *)
(* at most one for each slot (store.c:194-235).                            *)
THEOREM ListAnswerFits == Spec => []ListFits
<1>1. ListFits
  BY ResponseBound, SizesAssumption DEF ListFits, ListMax, Most
<1>2. QED
  BY <1>1, PTL
============================================================================
