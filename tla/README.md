# Verification of the robo-cat-ears firmware

The repository is the firmware of a pair of animated cat ears: an ESP32-C3
that drives four servos and a strip of LEDs, takes commands over Bluetooth LE
and keeps up to sixteen named animations in flash. This directory holds TLA+
modules of the parts of it that are hard to test, the TLC configurations that
check them on small instances, and TLAPS proofs of what holds for every
instance. Source references are to `main/` and `docs/` of the repository.

## 1. Inventory

| Component | Where | State | Operations | Here |
|---|---|---|---|---|
| Store transport (0x06 reassembly) | `store.c` 28-41, 449-548 | `request_*` registers | a frame (`store_process_request`), a reset | modelled, proved |
| Store link | `ble.c`, `controller.c`, `store.c` 56-91 | CCCD and connection flags, MTU, confirmation semaphore, command queue, position of the controller task | stack events, queue send and receive, `respond`, `ble_indicate_data_notify` | modelled, proved |
| Animation store | `store.c` 195-447, `animation_store.c` | sixteen NVS blobs | LIST, STORE, DELETE, PLAY, mount, power loss | modelled, proved |
| LED tasks | `led.c` 26-242, 590-705, `controller.c` 670-698 | task handle, stop flag, mutex, saved configuration | lighting command, stop, start, restore at boot, self-exit | modelled, proved; pixel patterns not |
| Animation mode | `animation.c` 26-113, `animation_mode.c` | task handle, saved mode | mode command, periodic animation, deletion by the controller | modelled in `Movers`; what its deletion means for LEDs in `LedTasks` |
| Custom animations (0x05) | `controller.c` 108-181, `custom_animation.c` | reassembly buffer without reset or timeout | a chunk, playback | modelled in `CustomAnimation` and `Playback`, proved |
| Names | `store.c` 119-193 | none (pure) | `name_is_valid` | modelled, proved |
| Servos, calibration | `servo.c`, `servo_calibration.c` | PWM angles, NVS blob | move, load, save | modelled in `Movers` (who moves what when) and `Playback` (angles over time) |
| Readable characteristics | `controller.c` 189-363, `ble.c` 616-655 | attribute values, function-static buffers | READ and CONNECT events, update after a command | modelled in `ReadableState`, proved |
| Boot | `boot.c` | order of initialisation | `app_main` | the store's partition in `AnimationStore`, queue and LEDs in `LedTasks`, servos in `Movers` |
| Wire formats | `types/*.h` | none (pure) | pack, unpack | lighting, calibration and mode in `Packets`; keyframes in `AnimationStore` and `Playback` |
| Device serial | `device_serial.c` | none (pure) | hash of the MAC address | not modelled |
| UART bridge | `ble.c` 350-480 (SPP sample) | pieces still to send | notifications on the handle of the indications | its sending and the CONF events it causes in `StoreLink`; its bytes not |
| Prepared writes | `ble.c` (SPP sample) | sample buffers | - | not modelled: nothing above depends on them |

How they interact. Six tasks run: the Bluedroid callback task, the controller
task (priority 4), `app_main` (1), one LED task (5), the animation-mode task
(3) and `uart_task` (8), which the committed `sdkconfig` compiles and starts. The callback task turns GATT events into commands of a ten-element queue,
waiting at most 100 ms for room. The controller takes them one at a time and
runs each to its end, servo playback included; for a store request it sends
indications and waits up to 2 s for the callback task to report each
confirmation; any CONF event of the handle counts as one, an error or one of
`uart_task`'s notifications too. Flags and handles are shared through plain
globals.

What is hard about it: chunks that arrive in any order and over several
connections; the callback task and the controller waiting for each other;
confirmations and answers that outlive the request or the connection they
belong to; indications that fail and count as confirmed; commands dropped at a full queue, the reset of a disconnect among
them; buffers that two tasks fill at once; clients that come before the firmware
is ready; flash writes cut off by power loss or by a failing call; tasks that end
by themselves, late, or never, under handles that another task can come to
own; an `init_leds()` that runs while the controller is already serving.
`PROJECT.json` lists these hazards line by line with the properties that
cover them.

## 2. Modules

```
StoreFrames      constants, frames and outcomes of the transport
  StoreTransport     what the transport promises: no registers, only history
  StoreReassembly    the request_* registers and store_process_request()
    StoreTransfers       reassembly in every environment; refines StoreTransport
      StoreTransfers_proofs
    StoreLink            reassembly, callback task, queue, controller, client
      StoreLink_proofs
AnimationStore   the slots behind dispatch()
  AnimationStore_proofs
Names            name_is_valid()
  Names_proofs
CustomAnimation  reassembly of animations streamed with 0x05
Playback         the poses over time of an animation being played
  CustomAnimation_proofs    of CustomAnimation and of Playback
Packets          lighting, calibration and mode as bytes
  ReadableState      the value of ABF2, built by two tasks
    ReadableState_proofs
LedTasks         LED tasks, the animation-mode task on the same heap, and boot up to init_leds()
  LedTasks_proofs
Movers           controller, animation-mode task and app_main moving the servos
  Movers_proofs
```

Each `MC...` module gives the constants of one of them their values.

### StoreReassembly, StoreTransfers, StoreTransport

`xfer` is the eight file-scope variables `request_*`; `outcome` is what
`store_process_request()` did with the frame: dropped it, kept it, answered it,
or called `dispatch()`. Each early return is an action (`RejectMalformed`,
`RejectNoTransfer`, `RejectOutOfOrder`, `RejectTooLarge`, `KeepChunk`,
`CompleteRequest`). Their guards partition the frames, in the order of the
code's tests, the expiry of a stale transfer (`Current`) first. Payloads are
values with a size, and the buffer is the sequence of payloads copied into it.

`StoreTransport` says the same without registers. Its only state is the frames
since the latest chunk 0; a request is dispatched when they are exactly the
chunks of one transfer, in order, in time and within the buffer. It is taken
from sections 5 and 7.6 of `docs/ble-protocol.md` except on one point, where
the document and the code differ: the document (line 510) makes every error
terminal for the transfer, while the code answers a malformed frame and, as
its comment at `store.c:478` says, leaves the transfer alone. The abstract
specification follows the code (`Ignore`).

Run `store_transfers` checks that the registers are a function of the history
(`RegistersMatchHistory`) and the refinement (`RefinesPromise`). Bounds:
transfers of up to three chunks, two correlation ids, payloads of one and two
bytes in a buffer of three, so that the second or the third chunk overflows it; a timeout of one tick and a clock of two, so that a transfer can
be timely, just timely and late; histories of three frames, after which only a
chunk 0, a malformed frame or a reset follows.

### StoreLink

The path of a request, with these correspondences:

| Action | Code |
|---|---|
| `Connect`, `Drop`, `Subscribe`, `ExchangeMtu`, `Ask`, `SendChunk`, `AskOther`, `Receive` | the client and the radio (external) |
| `Fails` | an indication the stack accepted fails: the client never gets it, and its CONF event has an error status (external) |
| `BridgeReads`, `BridgeSends` | `uart_task()`: the flags are looked at once, then one notification or several pieces are sent, each with a CONF event of its own |
| `ConnectEvt`, `CccdEvt`, `MtuEvt`, `WriteEvt`/`WriteTimeout`, `ConfEvt`, `DisconnectEvt` | one case each of `gatts_profile_event_handler()` |
| `Take...` | `xQueueReceive()` in `controller_task()`, and what precedes the first blocking call |
| `Handle` | the handler `dispatch()` selects: its effect, refused or not |
| `Respond` (in `TakeStore` and `Handle`) | `respond()` up to its loop: the number of frames at the MTU of that moment |
| `CheckFails`, `Drain`, `Send`, `Confirmed`, `ConfirmTimeout` | `ble_indicate_data_notify()`, cut where another task can get in between |
| `Finish` | the end of an animation or of another command |

Assumptions about Bluedroid, from how `ble.c` uses it: events reach the callback
in order; one client at a time, because advertising restarts only in the
DISCONNECT event; an indication sent while no link is up is refused; one sent
while a link is up goes to the client of that link, whichever connection the
request came over, as `spp_conn_id` is the same for each; the client's stack
takes and confirms indications in order, while any of those under way can fail;
a notification sent while a link is up can have a CONF event, one sent without a
link has none; the bytes `uart_task` sends are no 0x06 frames to the client. Each request carries its number as payload, so
that a stored body tells which requests its chunks came from. A client numbers
its requests from 1 on each connection.

Run `store_link` (safety):

- `OnceInOrder`: no request is executed twice, or after a later one.
- `MixedOnlyIfResetLost`: a stored animation has chunks of two requests only
  if the reset of a disconnect was dropped. Writes dropped at a full queue,
  abandoned requests and unsubscribes do not suffice.
- `FirstOkMeansStored`: the OK that the first client to connect reads for its
  STORE is of that STORE, and the animation is committed.
- `FitsItsLink`: a frame is never larger than its link allows. `respond()`
  computes the frame size once, and an exchange or a disconnect can come before
  its last frame. It holds because the firmware hears of a larger MTU after the
  link has it and goes back to 23 in the DISCONNECT event, which comes before any
  next connection. An answer begun in one connection and continued in the next
  is the stated exception: its frames can be too large for the new link.

Run `link_drains` (LIST and PLAY, under fairness; the answer to LIST is two frames,
indications fail and `uart_task` sends a notification):

- `CleanConfirmation`: when no other CONF event was under way or to come as the
  semaphore was drained, from an older indication or from `uart_task`, one that is
  taken is about the frame just sent. That frame has reached the client or has failed:
  it is not still in the air. More cannot be said of the code, which gives the semaphore
  whatever the event's status is (`ble.c:682-691`).
- `FirstHasNoGap`: the first client receives the frames of an answer without a
  gap, unless an indication of that answer failed: then `respond()` has gone on, and
  the gap is real. Answers given up before, failures of other frames and confirmations
  taken early make none.
- `EverythingDrains`: the controller and the callback task, which can wait for
  each other, get out of it, and whatever clients have written is processed or
  dropped.
- `EntitledIsAnswered`: a request of one frame whose answer is one frame is
  answered, if the client was subscribed when it asked and ever since, its stack
  takes indications, no indication of its answer fails, the link stays up and no
  command is dropped. Answers that were abandoned before do not keep a later one back.

Fairness is weak fairness of the callback task and of the controller task as a
whole: both have work and run at priorities that nothing starves for good; their
waits are bounded by 100 ms and by 2 s, which `WriteTimeout` and `ConfirmTimeout`
stand for; animations are finite. Nothing is assumed of the client for
`EverythingDrains`: it may never confirm. For `EntitledIsAnswered` the premise
`WF_vars(Receive)` says that its stack takes indications; it is a premise of the
property and not part of the specification. The bounds on client actions only
mean that clients at some point fall silent.

Bounds: two connections (the hazards are about a request and its successor's
connection), two requests, one other command, a queue of one element standing
for one that other commands have filled up to its last place, two events under
way, two CCCD writes. In `store_link` there are one failing indication (`MaxFail`), one
clock tick with a chunk timeout of zero, and one MTU exchange; the constraint
`ExchangeAlone` keeps the exchange apart from the tick and from the other command,
neither of which a frame's size depends on. In `link_drains` indications fail twice, so
that a frame of an older answer and one of the answer under way can both fail, and
`uart_task` sends one notification (`MaxBridge`), read and sent at any two moments;
requests are single frames there, for which time does not matter. The timeouts of 100 ms and 2 s are untimed: each can elapse whenever its
wait lasts.

### AnimationStore

`flash` is the NVS partition; a record is the facts that the code reads from its
bytes: name length, total length, keyframe count, whether the name and the
keyframes are acceptable. A STORE is three steps: accepted (`Store`), written
(`Write`), committed and answered (`Commit`). Power can go in between, and any
NVS call can fail, having changed the slot or not. `Damaged` puts in a slot
what this firmware would not have written (the checks in LIST and PLAY are
there for that). CAPABILITY changes nothing and is left out, and so is a
request of the wrong length, refused before anything is looked at.

Run `animation_store`:

- `OkIsKept`: a slot holds what its last OK said until a STORE or DELETE of it is
  tried again, whatever fails and whenever the power goes. A boot that has to
  erase the partition (`animation_store.c:29-34`) is the stated exception.
- `StoredIsUsable`: whatever STORE put there can be listed and played: the check
  of the exact length in `handle_store()` implies every check on the read side.
- `SeenIsPlayable`: LIST and PLAY agree on damaged records too.
- `ListFits`: a LIST answer fits its buffer. `Response` is the loop of `handle_list()`
  over the slots.

Bounds: two slots, sizes of one or two bytes, with inputs one byte short of, at
and one past every limit; two faults, enough for an interrupted write and a
second loss on the following boot.

### Names

The loop of `name_is_valid()`, one step per character: `Ascii`, `Multibyte`, and
`Accept` at its end. The decoding (`LeadBits`, `SixBits`, `CodePoint`) is
arithmetic on bytes, as in the code; the byte behind the name is the next field
of the record and may be anything. The reference is a different thing
altogether: `Character` is the table of well-formed sequences of RFC 3629
(section 4) without control characters, and a byte sequence is a name
(`IsName`) when some set of cuts divides all of it into characters.

Run `names`: `VerdictIsRight`, the loop accepts a byte sequence exactly when it
is a name. Bounds: every sequence of up to three of the 28 bytes that lie on the
two sides of a boundary of the code or of the table, four-byte sequences of
boundary bytes, the same with a character in front, and six-byte ones past a
limit of five.

### CustomAnimation

The reassembly of `process_custom_animation_command()`, between the client's
writes and the queue on one side and `custom_animation_play()` on the other,
during which the queue fills up. It has no replies, no timeout and no reset at a
disconnect, so the module has no connections either: a client that connects
later is one more `Begin`. A chunk carries the number of the transfer it belongs
to, which the code does not see. A chunk shorter than its header changes nothing
and is left out; whether `custom_animation_deserialize()` accepts the bytes is
left open.

Run `custom_animation`:

- `PlayedWhole`: what is played is as many chunks as announced, each in its
  place.
- `PlayedOnceInOrder`: registers that a finished transfer leaves behind are not
  played again, and no transfer is played after a later one.
- `MixedOnlyIfStartMissed`: an animation has chunks of two transfers only if the
  queue dropped chunk 0 of the later one. Ids repeat; nothing else is needed,
  and the earlier transfer may be as old as one likes.

Bounds: three transfers, of two ids and up to three chunks of one or two bytes,
into a buffer of three; a queue of two; one malformed chunk of each shape.

### Playback

`custom_animation_play()` and `play_segment()`: `EmptySegment`, `EnterSegment`,
`Step` (one turn of the loop, the delay included) and `Land`. `now` and
`last_wake` are milliseconds, `now` falling anywhere in the FreeRTOS tick of
10 ms; tasks of a higher priority add up to `MaxDelay` to each delay. Floats are
exact fractions until they are written as PWM duty (`Duty` steps to a degree);
the cosine of the sine curve is Bhaskara's fraction, and an elastic curve gives
any of a set of values outside and inside 0..1. `InputsAssumption` says of the inputs
what the wire format does: times are words, angles and lengths naturals.

Run `playback`:

- `Punctual`: the pose of each keyframe stands when it is due, never a whole
  FreeRTOS tick early, and late by less than an animation tick and one delay per
  keyframe before it. `vTaskDelayUntil()` keeps delays inside a segment from
  adding up; between segments the lateness does add up, by up to a tick each,
  since every segment counts from its own start. `due` counts from the first
  keyframe, which is taken up at once whatever its time.
- `NeverBack`: without elastic easings no servo turns back or overshoots.
- `NoJump`: a turn of the loop moves a servo by no more than the steeper of the
  two easings covers in a tick, also where departure, hold and arrival meet and
  when both were scaled to fit.

Bounds: three keyframes; first segments shorter than a tick, of one and of more;
second ones empty or short; all pairs of easing types, with lengths of zero,
inside and beyond the segment; a calibration that moves a pose below the range
and another above; inputs that deserialization refuses. `Word` is 40 for 2^32:
times that go backwards would wrap to a long segment, and are refused.

### Packets, ReadableState

`Packets` has the byte formats of lighting, calibration and mode: `Pack` and, for
what a client sends, `Gets` (accepted) and `Got` (the result).

`ReadableState` has the value of ABF2. Every update reads a configuration from
NVS, packs it into a static buffer of its function and sets the attribute value.
The callback task does so in CONNECT (lighting) and READ (calibration), the
controller after each command. The callback task runs above the controller on
a single core, so an update is one step there and four in the controller
(`Load`, `PackLocal`, `Copy` byte by byte, `Set`), with callbacks in between.
`deferred` chooses between two ways the stack can apply a value: at once, or in
its own task later; the code works with both, and either is checked.

Run `readable`:

- `NeverTorn`: whatever is readable decodes and was packed as one. It holds
  because both tasks pack the same thing: whoever overwrites the buffer of a
  function writes the same saved configuration. A call that fails is the
  stated exception, since defaults then meet the saved bytes.
- `Converges`: with nothing under way, the value is one of the configurations as
  saved now; no update that was overtaken stays.
- `ReadsCalibration`: a read answers the saved calibration whatever the controller
  is doing, if the stack applies values at once. If it defers them, a read
  answers what was set before it.

Bounds: packets at the ends of their formats (one byte short, one too long, two
colours, words at both ends of their range), one deferred value, one failing
call.

### LedTasks

A task handle is the address of a task control block; FreeRTOS frees the block
after the task has ended, and the next task created may get it. `tcb` says
which task owns each block. The steps of `led_stop_current_task()` and
`led_start_task()` are separate actions of whoever calls them, the controller or
`app_main` through `init_leds()`. A LED task may look at the stop flag at once,
late or never (for a speed above 100 `led.c:291` underflows to a delay of hours).

`app_main` starts advertising before `controller_init()` has made the queue, and
makes the queue before `init_leds()` has made the mutex. `command_queue` and
`led_task_mutex` say what exists; a client can act at any point. `marks` is
history: a command came before `init_leds()` had returned ("early"), a stop was
about to force an animation-mode task ("foreign"), a task ended between the last
look at it and its deletion ("exits late"). `fault` is what stopped the firmware:
a NULL queue or mutex, no memory, or a task deleted twice.

Run `led_tasks`:

- `OneLedTask`: two tasks never drive the strip, unless a command was taken
  before `init_leds()` returned. In that case they can: `init_leds()` creates the
  restored task without looking at `led_task_handle` (`led.c:651-684`).
- `StopsForAReason`: a NULL queue or mutex is met only by an early client, and a
  task is deleted twice only after one of the three marks.
- `RunsUntilStopped`: the flag raised for one task never stops the next.
- `CommandEnds`: a command ends even if the old task never looks at the flag
  (weak fairness of the controller task only; the LED tasks owe nothing).

Bounds: three control blocks, two polls for the hundred, three commands.

### Movers

The controller, the animation-mode task and `app_main` play animations and return
the servos to their centres, each with a calibration it has read from NVS some
time before. NVS holds the calibration and the animation mode. `running` is the
mode task's handle with the frequency the task was given (0 when NULL). `mover`
says where each of the three is: about to read (`animate`, `play`, `reset`), in
between (`moving`, `playing`, `resetting`), or, for the controller, inside
`start_animation_mode()` and `stop_animation_mode()`. `pose` is what each servo
was last told: the centre by some calibration, or away from it. Angles and
delays are abstract: an animation moves any servo any number of times.

`marks` is history. It collects what can leave the ears elsewhere than at the
centres of the saved calibration: a custom animation that keeps its last pose
("pose held"), the mode task deleted in the middle of an animation ("cut
short"), a new calibration saved while another mover returns the servos with the
old one ("overtaken"), a read or a commit that failed. A reset by a mover that
is alone clears the marks on the servos, and so does a boot.

The three interleave freely, which allows more than their priorities do.

Run `movers`:

- `RunsAsSaved`: between commands a running mode task has the frequency of the
  saved mode, and none runs while that mode is off, unless a commit failed after
  the value changed. The converse does not hold: a boot restores no mode.
- `AtRest`: when nobody moves them and nothing in `marks` has happened, the ears
  stand at their centres by the saved calibration. Leaving out any one of the
  marks "cut short", "overtaken" and "uninitialised" makes it false: each stands
  for something the code lets happen.

Bounds: two servos, so that a reset can be interrupted half way; a calibration
besides the default one; two frequencies, so that a restart can keep the wrong
one; three commands (a mode, a calibration, an animation) and one fault.

## 3. Disagreements found

Each has a run of its own that shows it.

| Run | The text | The code |
|---|---|---|
| `mixing` | "Disconnect discards all reassembly state" (`docs/ble-protocol.md:512`) | the discard is a command sent without waiting, lost at a full queue; the next client can complete the previous one's transfer |
| `undelivered` | "a result that was not delivered may not have side effects" (`store.c:52-54`) | the CONF event of an indication that failed counts as its confirmation (`ble.c:683` only logs the status); PLAY moves the ears although the client never reads its OK |

Met while modelling, and without a run:

- The malformed-frame rule above (`docs/ble-protocol.md:510`).
- ABF2 mirrors the lighting, "the only readable state" (`docs/ble-protocol.md:134`): a
  READ replaces the value by the servo calibration before it answers (`ble.c:624`).
- "true if the client confirmed the frame" (`ble.h:85`): apart from the run
  `undelivered`, a confirmation that comes after the 2 s timeout and after the next
  drain is taken for the next frame, and so is the CONF event of a notification of
  `uart_task`; a PLAY can then move the ears before its own answer is confirmed. The
  premise of `CleanConfirmation` stands for both.
- "An OK means the animation is in flash" (`docs/ble-protocol.md:473`): the answer
  to a request of the previous connection can reach the next client under the
  correlation id of its own request. Hence `FirstOkMeansStored` and not
  `OkMeansStored`.
- "Stop the current LED animation task if running" (`led.h:37`): a solid task
  leaves its handle behind, the animation-mode task can come to own its block, and
  is deleted in its stead (the mark "foreign").
- A STORE committed after the client unsubscribed (`docs/ble-protocol.md:674` says
  no effect without a subscription; the flag is read when the frame is taken,
  `store.c:456`).
- A chunk acknowledged by ATT and then dropped at a full queue (`controller.c:583`,
  against `docs/ble-protocol.md:338`).
- `store_reset()`, "called on disconnect and on unsubscribe" (`store.h:31`), is
  never called on unsubscribe.
- A client that writes in the half second between advertising and
  `controller_init()` meets a NULL queue (`controller.c:583`); the comment at
  `controller.c:605` knows of the gap, for the disconnect.
- The calibration read that reports a missing key and "using defaults" and goes
  on to deserialize an uninitialised buffer (`servo_calibration.c:151-167`).
- A reset that is to update the servos "immediately" (`controller.c:480`) and that a
  mover with the old calibration can undo.
- `time_ms` is "relative to animation start" (`types/custom_animation_types.h:68`):
  the first keyframe's is not waited for, and lateness adds up over the segments
  (`Punctual`).
- A READ ignores the offset of a long read (`ble.c:616-644`). Every update also
  fills `spp_data_notify_val`, which only `controller_handle_read()` reads, and
  that is not called.

## 4. Proofs

`StoreTransfers_proofs` proves, for every set of frames, buffer size, timeout and
bound, from the assumptions of `StoreFrames` and `StoreTransfers` alone (sizes
are naturals, zero is a byte, the inputs are frames):

- `TypeCorrect`: `Spec => []StoreTypeOK`;
- `RegistersCorrect`: `Spec => []RegistersMatchHistory`;
- `Refinement`: `Spec => RefinesPromise`.

The inductive invariant `IInv` is the type invariant and `RegistersMatchHistory`
together. Neither is inductive alone: the byte count stays in bounds because
the registers describe a history whose totals do, and the registers describe
the history only if they are in type. The argument turns on two lemmas.
`TakenInOrder` says that the guard under which the code appends a chunk is
the condition under which the history with that frame is in order;
`TakenRegisters` says that the registers after the append are those of the
longer history. Both rest on `InOrderAppend`: a history with one more entry
is in order when it was and the entry is next. The refinement then has one
case per action.

`StoreLink_proofs` proves, for every number of connections, requests and events, every
length of the queue and every cutting of requests and answers into frames, from
`LinkAssumption` (a request takes between one frame and `MaxChunks`, an answer at
least one, request numbers are payloads, correlation ids are naturals) and the
assumptions of `StoreFrames`:

- `TypeCorrect`: `Spec => []LinkTypeOK`;
- `ExecutedOnceInOrder`: `Spec => []OnceInOrder`;
- `FramesFit`: `Spec => []FitsItsLink`;
- `ConfirmedIsTheFrameSent`: `Spec => CleanConfirmation`;
- `MixesOnlyIfResetLost`: `Spec => []MixedOnlyIfResetLost`;
- `OkOfTheFirst`: `Spec => []FirstOkMeansStored`;
- `FirstWithoutGap`: `Spec => []FirstHasNoGap`.

Types alone are not inductive: that a dispatched request has a body to execute, and
that an answer has a connection, follows from where the controller is (`PcInv`).
`LinkInv` is the discipline of connections: a disconnect is the last event of its
connection, and nobody connects until it has been handled. So `spp_mtu_size` is small
again before a new link can differ from it (`MtuInv`). `CleanInv` says that from a
clean start, with nothing in the air and `uart_task` done, the only CONF event that
can be on its way is the one for the frame sent. For `OnceInOrder`, `FrameInv` puts all frames in the queue and among the events
in the order in which they were sent (`Before`), none of them ahead of what the client
has sent (`Sent`). `DoneInv` says that when a request has been completed it is
`Over`: whatever is still to be processed is of later requests, and the client sends
no more of it. A frame that completes a body is thus of a later request than
everything executed before.

The last three theorems take the longest invariants. For `MixedOnlyIfResetLost`, all
chunks not yet processed have a place on one path: 0 is the transfer in the buffer,
then come the commands of the queue, then the events. `PairInv`: two chunks of one
correlation id (`Holds`) with no reset or disconnect between them (`Cut`) are of one
request. `OpenInv`: those behind the last cut are of requests that the client on the
link has made, and of no correlation id it has yet to use. A reset that reaches the
buffer empties place 0; only its loss removes a cut from the path. For the first client,
`FirstInv` says that correlation ids are request numbers wherever they appear, since
nobody used them before. `OkInv` follows an OK from the answer being sent to the frames in
the air to what the client has read. `AnswerInv` and `ChainInv` say that the frames of
its answer follow one another in the air and end at the frame that the controller is at.
`GapInv` then relates that chain to the client: what it has heard of the answer to its
request is where the first frame in the air goes on, or where the controller is when
nothing is in the air. `ChainInv` and that part of `GapInv` hold as long as no indication
of this answer has failed (`Whole`); frames of older answers may fail anywhere, and a
failure that leaves the answer alone never tears the chain (`ChainLoses`, `HeardElse`).

`AnimationStore_proofs` proves, for every number of slots, set of requests and
limit of sizes:

- `TypeCorrect`: `Spec => []TypeOK`;
- `OkKept`: `Spec => []OkIsKept`;
- `StoredUsable`: `Spec => []StoredIsUsable`;
- `SeenPlayable`: `Spec => SeenIsPlayable`, from the checks of PLAY and LIST alone;
- `ListAnswerFits`: `Spec => []ListFits`.

The inductive invariant adds two parts. `JobInv`: while a write is in progress
nothing is sure about its slot, and after the NVS call the slot holds the record
of the write. `ContentInv`: each slot is empty, damaged, or holds what
`handle_store()` accepts (`Acceptable`). The exact length it asks for then gives
every check of the read side.

`ListFits` bounds the recursive function `Response` and needs an induction over the
slots. `AnswersExist` first shows that a function with this recursion exists, by
extending one for fewer slots by one more (`OneSlotMore`), so that `Response` satisfies
its own equation (`ResponseLoops`). `ResponseBound` bounds its value slot by slot. Both
inductions take the least slot at which the claim fails (`Least`) and show that it fails
earlier; that needs no theorem with an operator for a parameter.

`Names_proofs` proves, for every set of inputs, every limit of length and every
byte behind the name:

- `TypeCorrect`: `Spec => []TypeOK`, the index stays within the name;
- `AcceptsExactlyNames`: `Spec => []VerdictIsRight`.

The proof first turns the code's arithmetic into ranges of bytes (`LeadRanges`,
`Decode2`, `Decode3`, `Decode4`: the test of the code point is a test of the
first two bytes), and concludes that at most one character begins at an index,
of the length the code steps over (`CharacterLength`). The inductive invariant
then says that the bytes before the index are characters (`Prefix`), and that
every division of the whole name has a cut at the index (`Forced`): the first
makes an accepted name a name, the second makes a refused one none.

`CustomAnimation_proofs` proves, for every number of chunks, set of ids, buffer and
length of queue, from `SizesAssumption` and `MalformedAssumption`:

- `TypeCorrect`: `Spec => []TypeOK`;
- `PlaysWhole`: `Spec => []PlayedWhole`;
- `PlaysOnceInOrder`: `Spec => []PlayedOnceInOrder`;
- `MixesOnlyIfStartMissed`: `Spec => []MixedOnlyIfStartMissed`.

The inductive invariant has one part for each. `WholeInv` relates registers and
buffer: as long as the registers accept chunks, the buffer holds chunks 0, 1, ...
of one id and one count. `OrderInv` follows the order in which chunks were sent
along the queue, the buffer and what has been played. `MixedInv` locates the
start of every transfer with a later chunk under way: it was missed, it is
ahead in the queue, or the registers have taken it.

Of `Playback` the same module proves, for every set of keyframes, calibrations and
overshoots, every tick, delay, word and resolution of PWM, from `PlaybackAssumption` and
`InputsAssumption`:

- `PosesInRange`: `PlaybackSpec => []PlaybackTypeOK`, where the type of a pose is the range
  of a servo;
- `OnTime`: `PlaybackSpec => []Punctual`;
- `NeverTurnsBack`: `PlaybackSpec => NeverBack`;
- `NeverJumps`: `PlaybackSpec => NoJump`.

(The two models are the two halves of one component, and their proofs share a module;
neither depends on the other.)

For `OnTime`, `UnderWay` says that inside a segment the wake-ups are multiples of the
FreeRTOS tick and follow `t` exactly, whatever the delays: `last_wake` differs from the
beginning of the segment by `t`. `Reached` carries over, from keyframe to keyframe, at most
`Late` (a tick less one millisecond, and one delay). The assumption `MaxDelay <= Tick` is
needed: a longer delay would let `vTaskDelayUntil()` find its wake-up in the past.

For the other two, `Trail` says that within a segment the servos stand where the loop's
previous turn put them, at the part of the way `Covered` there. `ProgressIs` shows that
the code's `Progress` is `Covered` when neither easing is elastic. `NeverTurnsBack`
then is monotony, step by step: of the curves (`CurveKeepsOrder`), of the way covered
(`CoveredGrows`, with a case for each border between departure, hold and arrival), of the
angle with its rounding (`WayGrows`), and of clamping and calibration
(`WrittenKeepsOrder`). `NeverJumps` needs slopes. `Rise(p, q, g, h)` says that `q - p` is at
most `g / h`, and adds up (`RiseAdds`); `CurveRises` bounds each curve by its `Slope`. A
turn of the loop that begins in the departure and ends in the arrival is the hard case
(`CoveredRises`): its rise is a mean of two slopes, weighted with the times spent in
each (`Weighted`), and these times add up to at most a tick because the two easings fit
their segment (`EasingsFit`). All of this is arithmetic on numerators and denominators.

`ReadableState_proofs` proves, for every set of packets, assuming that the packets
fit `BLE_PACKET_MAX_SIZE` and that what clients write are packets
(`PacketsAssumption`, `InputsAssumption`):

- `ReadsBack`: a lighting, calibration or mode packet unpacks to what was packed,
  for every value of every word; `WordsReadBack` is that for a sequence of words;
- `TypeCorrect`: `Spec => []TypeOK`;
- `ReadsWhole`: `Spec => []NeverTorn`;
- `ShowsSaved`: `Spec => []Converges`;
- `ReadShowsCalibration`: `Spec => ReadsCalibration`.

`WordRoundTrip` and `BytesLength` give bytes `2 * i - 1` and `2 * i` as those of word
`i`. The invariant says why two tasks may fill one buffer: both pack what is
saved, so the callback task writes the bytes that the controller has already copied
(`WorkInv`), and the latest value set, waiting or in place, is a packet of what is
saved, except between a save and the set that follows it (`ValueInv`). Where a call
has failed, `failed` releases these claims, as it does in the properties.

`LedTasks_proofs` proves, for every number of control blocks, polls and commands
(`BoundsAssumption`):

- `TypeCorrect`: `Spec => []TypeOK`;
- `DrivenByOne`: `Spec => []OneLedTask`;
- `StopsWhenTold`: `Spec => RunsUntilStopped`;
- `StopsNamed`: `Spec => []StopsForAReason`.

The invariant relates the stop flag, the handle, the control blocks and the positions
of the two callers. The flag is up only while a caller is stopping a task
(`FlagInv`), and before `init_leds()` has returned the controller is idle unless a
client was early (`BootInv`, `EarlyInv`). From these, whoever is about to create an
LED task has seen the one before end, and the one there is can be found by the
handle or by its creator (`StripInv`). Without a mark, a handle that names a block
names the task it was published for (`LiveInv`).

`Movers_proofs` proves, for every number of servos, calibrations and frequencies
(`MoversAssumption`):

- `TypeCorrect`: `Spec => []TypeOK`;
- `ModeAsSaved`: `Spec => []RunsAsSaved`;
- `EarsAtRest`: `Spec => []AtRest`.

`AtRest` speaks of the moment when all movers are idle. The invariant behind it
(`ServoInv`) speaks of every moment: without a mark, each servo is at the centre of
the calibration the firmware uses, or some mover still has to return it.

Only model-checked are the liveness properties (`CommandEnds`, `EverythingDrains`,
`EntitledIsAnswered`): the proof system has no rules for fairness and ENABLED. Every
invariant and every action property that the passing runs check is a theorem. The two
disagreements of section 3 are counterexamples and stay with TLC.

## 5. Not modelled

- The pixel patterns of the LED tasks (`led.c` 244-588): arithmetic on the task's
  own copies, with no state shared but the stop flag, which `LedTasks` has.
- Device serial (`device_serial.c`): a hash of the MAC address, covered by
  `test/device_serial_conformance.c`.
- Prepared writes and the heartbeat of the SPP sample in `ble.c`: nothing above depends
  on them. Of its UART bridge, the bytes and how they are cut into pieces; that it sends,
  and what its CONF events do, is in `StoreLink`.
- Peripheral drivers, NVS, FreeRTOS and Bluedroid, except as the code uses them.
- Float rounding in `custom_animation.c`, and the angles and delays of the built-in
  animations of `animation.c`.

## 6. Plan

Nothing of the safety properties above is left to prove. What could be added:

1. an abstract specification of the store link, a client that asks and is answered at most
   once, with the detailed one as its refinement;
2. the prepared writes of the SPP sample in `ble.c` and the pieces its UART bridge sends,
   should the firmware come to use them;
3. the pixel patterns of `led.c`, as pure functions with the bounds of their indexes.
