----------------------------- MODULE StoreLink -----------------------------
(***************************************************************************)
(* A store request from the client's write to the answer it receives:      *)
(* the Bluedroid callback task (main/ble.c), the command queue and the     *)
(* controller task (main/controller.c), and store.c around its reassembly. *)
(* The client, the air and the Bluedroid stack are external: they appear   *)
(* as ble.c uses them.  Payloads are request numbers, so that a body says  *)
(* which requests its chunks came from.                                    *)
(***************************************************************************)
EXTENDS StoreReassembly, SequencesExt

CONSTANTS
    QueueLength,    \* COMMAND_QUEUE_LENGTH
    Asks,           \* sub-opcodes the clients ask for
    ChunksOf,       \* ChunksOf[op]: frames a request takes
    FramesOf,       \* FramesOf[mtu][op]: frames its OK answer takes
    MaxConn,        \* bound: connections
    MaxAsk,         \* bound: store requests, over all connections
    MaxOther,       \* bound: 0x01-0x05 commands
    MaxCccd,        \* bound: CCCD writes
    MaxMtu,         \* bound: MTU exchanges, over all connections
    MaxFail,        \* bound: indications that fail
    MaxBridge,      \* bound: notifications of uart_task
    MaxEvents,      \* bound: client writes the callback task has not seen
    MaxTime         \* bound: ticks of the clock the chunk timeout reads

LIST  == 2
STORE == 3
PLAY  == 5

(* The default of 23 bytes, and what a client exchanges it for.            *)
Mtu == {"small", "large"}

(* A request takes frames, and its body is made of request numbers.        *)
ASSUME LinkAssumption ==
    /\ Asks \subseteq Opcode /\ Corr \subseteq Nat
    /\ ChunksOf \in [Opcode -> 1..MaxChunks]
    /\ FramesOf \in [Mtu -> [Opcode -> Nat \ {0}]]
    /\ Payload \subseteq Nat /\ 1..MaxAsk \subseteq Payload
    /\ {QueueLength, MaxConn, MaxAsk, MaxOther, MaxCccd, MaxMtu, MaxFail,
        MaxBridge, MaxEvents, MaxTime} \subseteq Nat

VARIABLES
    (* the stack and the client *)
    up,             \* the link is up
    conn,           \* connections so far; 0 before the first
    advertising,
    events,         \* stack events the callback task has not handled, in order
    air,            \* indications sent, neither confirmed nor failed yet, in order
    client,         \* the client of the current connection
    asked,          \* number of the latest store request
    spent,          \* 0x01-0x05 commands, CCCD writes, MTU exchanges, failed
                    \* indications and notifications of uart_task so far
    now,            \* esp_timer_get_time()
    (* ble.c *)
    is_connected,
    enable_data_ntf,
    spp_mtu_size,
    indication_confirmed,   \* the binary semaphore
    bridge,         \* notifications uart_task has still to send
    (* controller.c, store.c *)
    queue,          \* command_queue
    pc,             \* where the controller task is
    answer,         \* the response it is sending: status, next frame, and what
                    \* respond() found when it began: MTU, frames; connection
    (* history *)
    stored,         \* bodies of the STORE requests committed, in order
    played,         \* bodies of the PLAY requests that moved the ears, in order
    lost,           \* kinds of command a full queue has dropped
    proof           \* what a confirmation taken now is worth, see Worth

linkVars == <<up, conn, advertising, events, air, client, asked, spent, now>>
bleVars  == <<is_connected, enable_data_ntf, spp_mtu_size, indication_confirmed, bridge>>
ctlVars  == <<queue, pc, answer>>
histVars == <<stored, played, lost, proof>>
vars     == <<linkVars, bleVars, ctlVars, histVars, regs>>
----------------------------------------------------------------------------
(* Stack events and commands.                                              *)
Connected    == [kind |-> "connect"]
Disconnected == [kind |-> "disconnect"]
Confirm      == [kind |-> "confirm"]
Cccd(on)     == [kind |-> "cccd", on |-> on]
Exchanged    == [kind |-> "mtu"]
Write(c)     == [kind |-> "write", command |-> c]

StoreCmd(f)  == [kind |-> "store", frame |-> f]
ResetCmd     == [kind |-> "reset"]
OtherCmd     == [kind |-> "other"]

(* What the client knows: whether it subscribed, its MTU, the request it   *)
(* waits for and the frames of the answer it has received; whether that    *)
(* request and its answer take one frame each and it was subscribed when it*)
(* asked and ever since; and whether an indication of its answer failed.   *)
NoClient == [subscribed |-> FALSE, mtu |-> "small", corr |-> 0, opcode |-> 0,
             sent |-> 0, heard |-> 0, answer |-> "none", entitled |-> FALSE,
             missed |-> FALSE]

Asking == client.sent > 0 /\ client.answer = "none"

OneFrame(op) == ChunksOf[op] = 1 /\ FramesOf[client.mtu][op] = 1

Chunk(n, corr, op, i) == [corr |-> corr, opcode |-> op, index |-> i,
                          count |-> ChunksOf[op], payload |-> n]

(* No response is under way.                                               *)
NoAnswer == [status |-> "none", index |-> 0, count |-> 0, mtu |-> "small", conn |-> 0]

(* Nor is a confirmation awaited.                                          *)
Unproven == [clean |-> TRUE, fate |-> "pending"]

LinkInit ==
    /\ Init
    /\ up = FALSE /\ conn = 0 /\ advertising = TRUE
    /\ events = <<>> /\ air = <<>> /\ client = NoClient
    /\ asked = 0 /\ spent = [other |-> 0, cccd |-> 0, mtu |-> 0, fail |-> 0, bridge |-> 0] /\ now = 0
    /\ is_connected = FALSE /\ enable_data_ntf = FALSE
    /\ spp_mtu_size = "small" /\ indication_confirmed = FALSE /\ bridge = 0
    /\ queue = <<>> /\ pc = "idle"
    /\ answer = NoAnswer
    /\ stored = <<>> /\ played = <<>> /\ lost = {}
    /\ proof = Unproven
----------------------------------------------------------------------------
(* The client and the stack.                                               *)

Connect ==
    /\ advertising /\ ~up /\ conn < MaxConn
    /\ up' = TRUE /\ conn' = conn + 1 /\ advertising' = FALSE
    /\ client' = NoClient
    /\ events' = Append(events, Connected)
    /\ UNCHANGED <<air, asked, spent, now, bleVars, ctlVars, histVars, regs>>

(* What was in the air is lost with the link.                              *)
Drop ==
    /\ up
    /\ up' = FALSE /\ air' = <<>>
    /\ events' = Append(events, Disconnected)
    /\ UNCHANGED <<conn, advertising, client, asked, spent, now,
                   bleVars, ctlVars, histVars, regs>>

ClientWrites(e) == /\ up
                   /\ Len(events) < MaxEvents
                   /\ events' = Append(events, e)
                   /\ UNCHANGED <<up, conn, advertising, air, now,
                                  bleVars, ctlVars, histVars, regs>>

Subscribe(on) ==
    /\ client.subscribed # on /\ spent.cccd < MaxCccd
    /\ ClientWrites(Cccd(on))
    /\ client' = [client EXCEPT !.subscribed = on, !.entitled = FALSE]
    /\ spent' = [spent EXCEPT !.cccd = @ + 1]
    /\ UNCHANGED asked

(* Once in a connection; the link has the new MTU before the firmware hears*)
(* of it.                                                                  *)
ExchangeMtu ==
    /\ client.mtu = "small" /\ spent.mtu < MaxMtu
    /\ ClientWrites(Exchanged)
    /\ client' = [client EXCEPT !.mtu = "large"]
    /\ spent' = [spent EXCEPT !.mtu = @ + 1]
    /\ UNCHANGED asked

(* A new request, with the next correlation id of this connection; the     *)
(* client has given up on the one before.                                  *)
Ask(op) ==
    LET corr == client.corr + 1 IN
    /\ asked < MaxAsk /\ corr \in Corr
    /\ ClientWrites(Write(StoreCmd(Chunk(asked + 1, corr, op, 0))))
    /\ asked' = asked + 1
    /\ client' = [client EXCEPT !.corr = corr, !.opcode = op, !.sent = 1,
                                !.heard = 0, !.answer = "none",
                                !.entitled = client.subscribed /\ OneFrame(op),
                                !.missed = FALSE]
    /\ UNCHANGED spent

SendChunk ==
    /\ Asking /\ client.sent < ChunksOf[client.opcode]
    /\ ClientWrites(Write(StoreCmd(Chunk(asked, client.corr, client.opcode, client.sent))))
    /\ client' = [client EXCEPT !.sent = @ + 1]
    /\ UNCHANGED <<asked, spent>>

AskOther ==
    /\ spent.other < MaxOther
    /\ ClientWrites(Write(OtherCmd))
    /\ spent' = [spent EXCEPT !.other = @ + 1]
    /\ UNCHANGED <<client, asked>>

(* What becomes of the i-th indication in the air; the controller waits for*)
(* the last of them.                                                       *)
Settled(i, fate) == IF pc = "wait" /\ proof.fate = "pending" /\ i = Len(air)
                    THEN [proof EXCEPT !.fate = fate] ELSE proof

(* The client takes the indication in front and its stack confirms it; a   *)
(* frame with another correlation id is discarded.                         *)
Receive ==
    LET r == Head(air) IN
    /\ air # <<>>
    /\ air' = Tail(air)
    /\ events' = Append(events, Confirm)
    /\ client' = IF Asking /\ r.corr = client.corr
                 THEN [client EXCEPT
                         !.heard = @ + 1,
                         !.answer = IF r.index # client.heard THEN "gap"
                                    ELSE IF r.index + 1 = r.count THEN r.status
                                    ELSE "none"]
                 ELSE client
    /\ proof' = Settled(1, "landed")
    /\ UNCHANGED <<up, conn, advertising, asked, spent, now, bleVars, ctlVars,
                   stored, played, lost, regs>>

(* An indication the stack had accepted fails: it never reaches the client,*)
(* and the CONF_EVT that says so is told from a confirmation by its status *)
(* alone, which ble.c logs.                                                *)
Fails(i) ==
    /\ spent.fail < MaxFail
    /\ spent' = [spent EXCEPT !.fail = @ + 1]
    /\ air' = RemoveAt(air, i)
    /\ events' = Append(events, Confirm)
    /\ client' = [client EXCEPT !.missed = @ \/ air[i].corr = client.corr]
    /\ proof' = Settled(i, "failed")
    /\ UNCHANGED <<up, conn, advertising, asked, now, bleVars, ctlVars,
                   stored, played, lost, regs>>

Tick == /\ now < MaxTime
        /\ now' = now + 1
        /\ UNCHANGED <<up, conn, advertising, events, air, client, asked, spent,
                       bleVars, ctlVars, histVars, regs>>
----------------------------------------------------------------------------
(* uart_task, the bridge of the SPP sample.                                *)

(* Bytes have come in; longer than a frame, they are sent in pieces, and   *)
(* the flags are not looked at again.                                      *)
BridgeReads ==
    /\ bridge = 0 /\ is_connected /\ enable_data_ntf
    /\ \E n \in 1..(MaxBridge - spent.bridge) :
          bridge' = n /\ spent' = [spent EXCEPT !.bridge = @ + n]
    /\ proof' = [proof EXCEPT !.clean = FALSE]
    /\ UNCHANGED <<up, conn, advertising, events, air, client, asked, now, is_connected,
                   enable_data_ntf, spp_mtu_size, indication_confirmed, ctlVars,
                   stored, played, lost, regs>>

(* A notification has a CONF_EVT of its own, on the handle of the          *)
(* indications; without room for it in the stack, or a link, none is sent. *)
BridgeSends ==
    /\ bridge > 0
    /\ bridge' = bridge - 1
    /\ \/ up /\ events' = Append(events, Confirm)
       \/ UNCHANGED events
    /\ UNCHANGED <<up, conn, advertising, air, client, asked, spent, now, is_connected,
                   enable_data_ntf, spp_mtu_size, indication_confirmed, ctlVars, histVars, regs>>

Bridge == BridgeReads \/ BridgeSends
----------------------------------------------------------------------------
(* The callback task: gatts_profile_event_handler() takes the stack's      *)
(* events one by one.                                                      *)
Next1(kind) == /\ events # <<>> /\ Head(events).kind = kind
               /\ events' = Tail(events)
               /\ UNCHANGED <<up, conn, air, client, asked, spent, now, bridge, pc, answer,
                              stored, played, proof, regs>>

ConnectEvt == /\ Next1("connect")
              /\ is_connected' = TRUE
              /\ UNCHANGED <<advertising, enable_data_ntf, spp_mtu_size, indication_confirmed, queue, lost>>

MtuEvt == /\ Next1("mtu")
          /\ spp_mtu_size' = "large"
          /\ UNCHANGED <<advertising, is_connected, enable_data_ntf, indication_confirmed, queue, lost>>

(* handle_data_notify_cccd_write(); an unsubscribe resets nothing else.    *)
CccdEvt == /\ Next1("cccd")
           /\ enable_data_ntf' = Head(events).on
           /\ UNCHANGED <<advertising, is_connected, spp_mtu_size, indication_confirmed, queue, lost>>

(* xSemaphoreGive(), whatever the event reports and on whichever frame.    *)
ConfEvt == /\ Next1("confirm")
           /\ indication_confirmed' = TRUE
           /\ UNCHANGED <<advertising, is_connected, enable_data_ntf, spp_mtu_size, queue, lost>>

RoomOffByOne == Len(queue) <= QueueLength

Room == Len(queue) < QueueLength

(* controller_handle_write(): xQueueSend() waits for room ...              *)
WriteEvt == /\ Next1("write")
            /\ Room
            /\ queue' = Append(queue, Head(events).command)
            /\ UNCHANGED <<advertising, bleVars, lost>>

(* ... for 100 ms, and then the command is dropped.                        *)
WriteTimeout == /\ Next1("write")
                /\ ~Room
                /\ lost' = lost \cup {Head(events).command.kind}
                /\ UNCHANGED <<advertising, bleVars, queue>>

(* A disconnect that leaves the transfer alone.                            *)
NoReset == UNCHANGED <<queue, lost>>

(* controller_queue_store_reset() does not wait.                           *)
QueueReset == IF Room THEN queue' = Append(queue, ResetCmd) /\ UNCHANGED lost
                      ELSE lost' = lost \cup {"reset"} /\ UNCHANGED queue

(* A disconnect that leaves the MTU as it was.                             *)
DisconnectKeepsMtu ==
    /\ Next1("disconnect")
    /\ is_connected' = FALSE /\ enable_data_ntf' = FALSE
    /\ QueueReset
    /\ advertising' = TRUE
    /\ UNCHANGED <<spp_mtu_size, indication_confirmed>>

DisconnectEvt == /\ Next1("disconnect")
                 /\ spp_mtu_size' = "small"
                 /\ is_connected' = FALSE /\ enable_data_ntf' = FALSE
                 /\ QueueReset
                 /\ advertising' = TRUE
                 /\ UNCHANGED indication_confirmed

Callback == ConnectEvt \/ MtuEvt \/ CccdEvt \/ ConfEvt \/ WriteEvt \/ WriteTimeout \/ DisconnectEvt
----------------------------------------------------------------------------
(* The controller task.                                                    *)
Quiet == UNCHANGED <<linkVars, is_connected, enable_data_ntf, spp_mtu_size, bridge>>

(* respond() begins: the answer is cut into frames of the MTU it finds; of *)
(* an OK there can be several.                                             *)
Respond(status, op) ==
    answer' = [status |-> status, index |-> 0, mtu |-> spp_mtu_size, conn |-> conn,
               count |-> IF status = "OK" THEN FramesOf[spp_mtu_size][op] ELSE 1]

Take(kind) == /\ pc = "idle" /\ queue # <<>> /\ Head(queue).kind = kind
              /\ queue' = Tail(queue)
              /\ Quiet /\ UNCHANGED <<indication_confirmed, histVars>>

TakeReset == Take("reset") /\ StoreReset /\ UNCHANGED <<pc, answer>>

(* Lighting, modes, calibration, 0x05: the controller is busy for a while. *)
TakeOther == Take("other") /\ pc' = "busy" /\ UNCHANGED <<answer, regs>>

(* store_process_request(), up to the handler or the answer.               *)
TakeStore ==
    /\ Take("store")
    /\ IF enable_data_ntf THEN ProcessFrame(Head(queue).frame, now) ELSE DropUnsubscribed
    /\ CASE outcome'.kind = "reply"    -> /\ pc' = "check"
                                          /\ Respond(outcome'.status, 0)
         [] outcome'.kind = "dispatch" -> pc' = "handle" /\ UNCHANGED answer
         [] OTHER                      -> UNCHANGED <<pc, answer>>

(* A handler that ignores the error animation_store_write() returns.       *)
HandleUnchecked ==
    /\ pc = "handle"
    /\ Respond("OK", outcome.opcode)
    /\ \/ UNCHANGED stored
       \/ stored' = IF outcome.opcode = STORE THEN Append(stored, outcome.body) ELSE stored
    /\ pc' = "check"
    /\ Quiet /\ UNCHANGED <<indication_confirmed, queue, played, lost, proof, regs>>

(* dispatch(): the handler's effect comes before its answer.  A handler    *)
(* can refuse the request, without an effect.                              *)
Handle ==
    /\ pc = "handle"
    /\ \/ /\ Respond("OK", outcome.opcode)
          /\ stored' = IF outcome.opcode = STORE THEN Append(stored, outcome.body) ELSE stored
       \/ /\ Respond("REFUSED", outcome.opcode)
          /\ UNCHANGED stored
    /\ pc' = "check"
    /\ Quiet /\ UNCHANGED <<indication_confirmed, queue, played, lost, proof, regs>>

(* respond() goes on frame after frame, until one fails.                   *)

(* The semaphore is drained for good when no other CONF_EVT is under way or*)
(* to come, from an indication sent before or from uart_task.              *)
Worth == [Unproven EXCEPT !.clean = /\ air = <<>> /\ bridge = 0
                                    /\ \A i \in 1..Len(events) : events[i] # Confirm]

(* ble_indicate_data_notify(): give up unless connected and subscribed ... *)
CheckFails ==
    /\ pc = "check"
    /\ ~(is_connected /\ enable_data_ntf)
    /\ pc' = "idle" /\ answer' = NoAnswer
    /\ Quiet /\ UNCHANGED <<indication_confirmed, queue, histVars, regs>>

(* The semaphore is taken without being drained first.                     *)
NoDrain ==
    /\ pc = "check"
    /\ is_connected /\ enable_data_ntf
    /\ proof' = Worth
    /\ pc' = "send"
    /\ Quiet /\ UNCHANGED <<indication_confirmed, queue, answer, stored, played, lost, regs>>

(* ... discard a confirmation left over from an abandoned response ...     *)
Drain ==
    /\ pc = "check"
    /\ is_connected /\ enable_data_ntf
    /\ indication_confirmed' = FALSE
    /\ proof' = Worth
    /\ pc' = "send"
    /\ Quiet /\ UNCHANGED <<queue, answer, stored, played, lost, regs>>

(* ... send, to whoever is connected; the stack refuses when nobody is ... *)
Send ==
    /\ pc = "send"
    /\ IF up THEN /\ air' = Append(air, [corr |-> outcome.corr, status |-> answer.status,
                                         index |-> answer.index, count |-> answer.count,
                                         mtu |-> answer.mtu, conn |-> answer.conn])
                  /\ proof' = [proof EXCEPT !.fate = "pending"]
                  /\ pc' = "wait" /\ UNCHANGED answer
             ELSE pc' = "idle" /\ answer' = NoAnswer /\ proof' = Unproven /\ UNCHANGED air
    /\ UNCHANGED <<up, conn, advertising, events, client, asked, spent, now, bleVars,
                   queue, stored, played, lost, regs>>

(* ... and wait for a confirmation ...                                     *)
Confirmed ==
    /\ pc = "wait" /\ indication_confirmed
    /\ indication_confirmed' = FALSE /\ proof' = Unproven
    /\ answer' = IF answer.index + 1 < answer.count THEN [answer EXCEPT !.index = @ + 1]
                                                    ELSE NoAnswer
    /\ IF answer.index + 1 < answer.count
       THEN pc' = "check" /\ UNCHANGED played
       ELSE IF answer.status = "OK" /\ outcome.opcode = PLAY
            THEN pc' = "busy" /\ played' = Append(played, outcome.body)
            ELSE pc' = "idle" /\ UNCHANGED played
    /\ Quiet /\ UNCHANGED <<queue, stored, lost, regs>>

(* A request answered too late is handled once more.                       *)
RetryOnTimeout ==
    /\ pc = "wait" /\ ~indication_confirmed
    /\ pc' = IF outcome.kind = "dispatch" THEN "handle" ELSE "idle"
    /\ Quiet /\ UNCHANGED <<indication_confirmed, queue, answer, histVars, regs>>

(* A frame that is not confirmed in time is sent once more.                *)
ResendOnTimeout ==
    /\ pc = "wait" /\ ~indication_confirmed
    /\ pc' = "check"
    /\ Quiet /\ UNCHANGED <<indication_confirmed, queue, answer, histVars, regs>>

(* A client that does not confirm counts as unsubscribed.                  *)
TimeoutUnsubscribes ==
    /\ pc = "wait" /\ ~indication_confirmed
    /\ pc' = "idle" /\ answer' = NoAnswer /\ enable_data_ntf' = FALSE
    /\ UNCHANGED <<linkVars, is_connected, spp_mtu_size, indication_confirmed, bridge, queue,
                   histVars, regs>>

(* Waiting with portMAX_DELAY.                                             *)
NoTimeout == FALSE /\ UNCHANGED vars

(* ... for two seconds.                                                    *)
ConfirmTimeout ==
    /\ pc = "wait" /\ ~indication_confirmed
    /\ pc' = "idle" /\ answer' = NoAnswer /\ proof' = Unproven
    /\ Quiet /\ UNCHANGED <<indication_confirmed, queue, stored, played, lost, regs>>

(* A played animation or another command ends.                             *)
Finish == /\ pc = "busy"
          /\ pc' = "idle"
          /\ Quiet /\ UNCHANGED <<indication_confirmed, queue, answer, histVars, regs>>

Indicate == CheckFails \/ Drain \/ Send \/ Confirmed \/ ConfirmTimeout

Controller == TakeReset \/ TakeOther \/ TakeStore \/ Handle \/ Indicate \/ Finish
----------------------------------------------------------------------------
Client == \/ Connect \/ Drop \/ ExchangeMtu \/ SendChunk \/ AskOther \/ Receive
          \/ \E i \in 1..Len(air) : Fails(i)
          \/ \E on \in BOOLEAN : Subscribe(on)
          \/ \E op \in Asks : Ask(op)

Next == Client \/ Tick \/ Bridge \/ Callback \/ Controller

Spec == LinkInit /\ [][Next]_vars

(* The tasks run: both timeouts elapse, an animation ends.  Nothing is     *)
(* assumed of the client.                                                  *)
FairSpec == Spec /\ WF_vars(Callback) /\ WF_vars(Controller)
----------------------------------------------------------------------------
Written == [kind : {"other"}] \cup [kind : {"store"}, frame : Frame]
Command == [kind : {"reset"}] \cup Written
Event   == [kind : {"connect", "disconnect", "confirm", "mtu"}]
           \cup [kind : {"cccd"}, on : BOOLEAN] \cup [kind : {"write"}, command : Written]

Status == TransportStatus \cup {"none", "OK", "REFUSED"}

ClientState == [subscribed : BOOLEAN, mtu : Mtu, corr : Corr, opcode : Opcode, sent : Nat,
                heard : Nat, answer : Status \cup {"gap"}, entitled : BOOLEAN,
                missed : BOOLEAN]

(* What is sent, and the response it is a frame of, after n connections.   *)
Indication(n) == [corr : Corr, status : Status, index : Nat, count : Nat, mtu : Mtu, conn : 1..n]
Response(n)   == [status : Status, index : Nat, count : Nat, mtu : Mtu, conn : 0..n]

LinkTypeOK ==
    /\ TypeOK
    /\ up \in BOOLEAN /\ advertising \in BOOLEAN /\ conn \in 0..MaxConn
    /\ events \in Seq(Event)
    /\ air \in Seq(Indication(conn))
    /\ client \in ClientState
    /\ asked \in 0..MaxAsk /\ now \in 0..MaxTime
    /\ spent \in [other : 0..MaxOther, cccd : 0..MaxCccd, mtu : 0..MaxMtu,
                 fail : 0..MaxFail, bridge : 0..MaxBridge]
    /\ is_connected \in BOOLEAN /\ enable_data_ntf \in BOOLEAN
    /\ indication_confirmed \in BOOLEAN /\ spp_mtu_size \in Mtu /\ bridge \in 0..MaxBridge
    /\ queue \in Seq(Command) /\ Len(queue) <= QueueLength
    /\ pc \in {"idle", "handle", "check", "send", "wait", "busy"}
    /\ answer \in Response(conn)
    /\ stored \in Seq(Seq(Payload)) /\ played \in Seq(Seq(Payload))
    /\ lost \subseteq {"store", "other", "reset"}
    /\ proof \in [clean : BOOLEAN, fate : {"pending", "landed", "failed"}]

(* The request whose last chunk completed a body.                          *)
Completes(body) == body[Len(body)]

(* However commands are delayed, dropped, abandoned or overtaken by a new  *)
(* connection, no request is executed twice and none after a later one     *)
(* (controller.c:583 and 632, store.c:538-540).                            *)
OnceInOrder ==
    \A s \in {stored, played} : \A i, j \in 1..Len(s) :
        i < j => Completes(s[i]) < Completes(s[j])

Mixed(body) == \E i, j \in 1..Len(body) : body[i] # body[j]

(* Chunks of two requests end up in one stored animation only when the     *)
(* reset of a disconnect was dropped (controller.c:611): one client's      *)
(* requests never mix, whatever writes are lost.                           *)
MixedOnlyIfResetLost ==
    \A i \in 1..Len(stored) : Mixed(stored[i]) => "reset" \in lost

Executed(n) == \E i \in 1..Len(stored) : Completes(stored[i]) = n

(* The OK a client reads for its STORE is of that STORE, and the animation *)
(* is committed by then (store.c:306-315).                                 *)
OkMeansStored == client.opcode = STORE /\ client.answer = "OK" => Executed(asked)

(* That much holds for the first client to connect ...                     *)
FirstOkMeansStored == conn = 1 => OkMeansStored

(* ... who also receives the frames of an answer without a gap, unless one *)
(* of them failed: its CONF_EVT counts as a confirmation, and respond()    *)
(* goes on to the next (store.c:80-87, ble.c:682-691).  Answers abandoned  *)
(* before, failures of other frames and confirmations taken early, of older*)
(* frames or of uart_task's, make no gap.                                  *)
FirstHasNoGap == conn = 1 /\ client.answer = "gap" => client.missed

(* A frame is never larger than the MTU of its link allows, except when an *)
(* answer begun in one connection goes on into the next: the exchange and  *)
(* the reset of spp_mtu_size keep it at or below what the link has         *)
(* (ble.c:680 and 740, store.c:61).                                        *)
FitsItsLink ==
    \A i \in 1..Len(air) : air[i].conn = conn /\ air[i].mtu = "large" => client.mtu = "large"

(* Discarding the left-over confirmation (ble.c:859-860) works: when no    *)
(* other was still on its way and uart_task has sent nothing, what is taken*)
(* for a confirmation is about the frame just sent.  That frame has reached*)
(* the client or failed, and is not still in the air: for the code, which  *)
(* does not look at the status (ble.c:682-691), both are the same.         *)
CleanConfirmation == [][Confirmed /\ proof.clean => proof.fate # "pending"]_vars

(* The controller waits for a confirmation the callback task has to        *)
(* deliver, and the callback task for room the controller has to make:     *)
(* their timeouts end every such wait, with no help from the client, and   *)
(* what clients have written is processed or dropped (ble.c:871,           *)
(* controller.c:583).                                                      *)
EverythingDrains == <>[](events = <<>> /\ queue = <<>> /\ pc = "idle")

Waits(n) == asked = n /\ up /\ Asking /\ client.entitled /\ ~client.missed

(* A request that is one frame and whose answer is one is answered, if the *)
(* client was subscribed when it asked, its stack takes indications, and   *)
(* neither the connection nor a command nor the answer is lost: however    *)
(* many answers were abandoned before, none of them keeps a later one from *)
(* the client (store.c:456-460, ble.c:851-875).                            *)
EntitledIsAnswered ==
    WF_vars(Receive) =>
        \A n \in 1..MaxAsk : Waits(n) ~> ~Waits(n) \/ lost # {}
----------------------------------------------------------------------------
(* docs/ble-protocol.md:512: "Disconnect discards all reassembly state."   *)
NoMixing == \A i \in 1..Len(stored) : ~Mixed(stored[i])

(* store.c:52-54: "PLAY is the only caller that must know: a result that   *)
(* was not delivered may not have side effects".                           *)
PlaysOnlyDelivered == [][played' # played => proof.fate = "landed"]_vars
============================================================================
