----------------------------- MODULE ReadableState -----------------------------
(***************************************************************************)
(* The value of the characteristic ABF2 (main/controller.c, main/ble.c):   *)
(* the callback task and the controller each build it from what NVS holds, *)
(* in the same function-static buffers.  The callback task has the higher  *)
(* priority on a single core, so its handlers run between two steps of the *)
(* controller but not the other way round.                                 *)
(***************************************************************************)
EXTENDS Packets

CONSTANTS
    Inputs,         \* packets a client writes to ABF1
    None,           \* nothing saved
    Garbage,        \* calibrations read from an uninitialised buffer
    MaxQueued       \* bound: values the stack has not applied yet

ASSUME InputsAssumption == /\ Inputs \subseteq Seq(Byte) /\ Garbage \subseteq Calibration
                          /\ MaxQueued \in Nat \ {0}

VARIABLES
    table,          \* spp_handle_table is filled in
    connected,      \* a client is
    nvs,            \* the saved configurations
    current,        \* current_lighting, current_calibration, current_mode
    packed,         \* packed_data of each of the three functions
    value,          \* the value of ABF2 in the attribute table; <<>> for its first zeros
    queued,         \* values set and not yet applied by the stack
    deferred,       \* the stack applies them in its own task
    controller,     \* where the controller is, and its locals
    answer,         \* what the read that has just been handled answered
    failed          \* history: a call to NVS or to create a task failed, once

vars == <<table, connected, nvs, current, packed, value, queued, deferred, controller, answer, failed>>

Default(kind) ==
    CASE kind = "lighting"    -> [mode |-> 0, speed |-> 50, colors |-> <<<<255, 255, 255>>>>]
      [] kind = "calibration" -> <<0, 0, 0, 0>>
      [] kind = "mode"        -> <<0, 0>>

Saved(kind) == IF nvs[kind] = None THEN Default(kind) ELSE nvs[kind]

Idle == [at |-> "idle", kind |-> "lighting", config |-> None, bytes |-> <<>>, copied |-> 0]

Init == /\ table = FALSE /\ connected = FALSE
        /\ nvs = [k \in Kind |-> None]
        /\ current = [k \in Kind |-> Default(k)]
        /\ packed = [k \in Kind |-> <<>>]
        /\ value = <<>> /\ queued = <<>> /\ deferred \in BOOLEAN
        /\ controller = Idle
        /\ answer = <<>> /\ failed = FALSE
----------------------------------------------------------------------------
(* One packed_data for all three functions.                                *)
SharedBuffer(kind) == "lighting"

Buffer(kind) == kind

(* led_load_config(), servo_load_calibration() and animation_mode_load(),  *)
(* and the default that the caller puts in when they fail.                 *)
Loads(kind, config) == config = Saved(kind) /\ UNCHANGED failed

LoadFails(kind, config) ==
    /\ config = Default(kind) \/ (kind = "calibration" /\ config \in Garbage)
    /\ ~failed /\ failed' = TRUE

NoAnswer == answer' = <<>>

(* memcpy() into a buffer that was longer leaves its tail.                 *)
Over(bytes, buffer) == bytes \o SubSeq(buffer, Len(bytes) + 1, Len(buffer))

(* esp_ble_gatts_set_attr_value() copies the bytes.                        *)
SetValue(bytes) == IF deferred THEN /\ Len(queued) < MaxQueued
                                    /\ queued' = Append(queued, bytes) /\ UNCHANGED value
                               ELSE value' = bytes /\ UNCHANGED queued

(* controller_update_..._characteristic() as one handler of the callback   *)
(* task runs it.                                                           *)
Update(kind, config) ==
    LET bytes == Pack(kind, config)
    IN  /\ Loads(kind, config) \/ LoadFails(kind, config)
        /\ current' = [current EXCEPT ![kind] = config]
        /\ packed' = [packed EXCEPT ![Buffer(kind)] = Over(bytes, @)]
        /\ SetValue(bytes)

Loadable(kind) == {Saved(kind), Default(kind)} \cup (IF kind = "calibration" THEN Garbage ELSE {})
----------------------------------------------------------------------------
(* Events of the callback task.                                            *)
TableEvt ==
    /\ ~table /\ table' = TRUE
    /\ NoAnswer
    /\ UNCHANGED <<connected, nvs, current, packed, value, queued, deferred, controller, failed>>

(* Advertising may begin before the table is there.                        *)
ConnectEvt ==
    /\ ~connected /\ connected' = TRUE
    /\ IF table THEN \E config \in Loadable("lighting") : Update("lighting", config)
                ELSE UNCHANGED <<current, packed, value, queued, failed>>
    /\ NoAnswer
    /\ UNCHANGED <<table, nvs, deferred, controller>>

DisconnectEvt ==
    /\ connected /\ connected' = FALSE
    /\ NoAnswer
    /\ UNCHANGED <<table, nvs, current, packed, value, queued, deferred, controller, failed>>

(* The answer is taken before the update.                                  *)
ReadEvtBeforeUpdate ==
    /\ table /\ connected
    /\ \E config \in Loadable("calibration") : Update("calibration", config)
    /\ answer' = value
    /\ UNCHANGED <<table, connected, nvs, deferred, controller>>

(* The update comes first; the answer is what the attribute table has then.*)
ReadEvt ==
    /\ table /\ connected
    /\ \E config \in Loadable("calibration") : Update("calibration", config)
    /\ answer' = value'
    /\ UNCHANGED <<table, connected, nvs, deferred, controller>>

Apply ==
    /\ queued # <<>>
    /\ value' = Head(queued) /\ queued' = Tail(queued)
    /\ NoAnswer
    /\ UNCHANGED <<table, connected, nvs, current, packed, deferred, controller, failed>>
----------------------------------------------------------------------------
(* The controller.  A packet goes through controller_handle_write() and    *)
(* the queue to the handler of its kind.                                   *)
Command(bytes, kind) ==
    /\ controller.at = "idle"
    /\ Gets(kind, bytes)
    /\ kind = "lighting" => Got(kind, bytes).mode < LightingModes
    /\ controller' = [Idle EXCEPT !.at = "save", !.kind = kind, !.config = Got(kind, bytes)]
    /\ NoAnswer
    /\ UNCHANGED <<table, connected, nvs, current, packed, value, queued, deferred, failed>>

At(place) == controller.at = place
Goto(place) == controller' = [controller EXCEPT !.at = place]

(* The characteristic is updated before the new configuration is saved.    *)
SaveLate ==
    /\ At("save")
    /\ nvs' = [nvs EXCEPT ![controller.kind] = controller.config]
    /\ controller' = Idle
    /\ \E config \in Loadable(controller.kind) :
          IF table THEN Update(controller.kind, config)
                   ELSE UNCHANGED <<current, packed, value, queued, failed>>
    /\ NoAnswer
    /\ UNCHANGED <<table, connected, deferred>>

(* servo_save_calibration(), animation_mode_save() and led_save_config().  *)
Save ==
    /\ At("save")
    /\ nvs' = [nvs EXCEPT ![controller.kind] = controller.config]
    /\ Goto("load")
    /\ NoAnswer
    /\ UNCHANGED <<table, connected, current, packed, value, queued, deferred, failed>>

(* A save that fails may have changed the value.  For a lighting command   *)
(* that is not the end; a task that cannot be created is.                  *)
SaveFails ==
    /\ At("save")
    /\ nvs' \in {nvs, [nvs EXCEPT ![controller.kind] = controller.config]}
    /\ ~failed /\ failed' = TRUE
    /\ \/ controller' = Idle
       \/ controller.kind = "lighting" /\ Goto("load")
    /\ NoAnswer
    /\ UNCHANGED <<table, connected, current, packed, value, queued, deferred>>

(* controller_update_..._characteristic(), here cut where the callback     *)
(* task can come in between: load ...                                      *)
Load ==
    /\ At("load")
    /\ IF table
       THEN /\ \E config \in Loadable(controller.kind) :
                  /\ Loads(controller.kind, config) \/ LoadFails(controller.kind, config)
                  /\ current' = [current EXCEPT ![controller.kind] = config]
            /\ Goto("pack")
       ELSE controller' = Idle /\ UNCHANGED <<current, failed>>
    /\ NoAnswer
    /\ UNCHANGED <<table, connected, nvs, packed, value, queued, deferred>>

(* ... serialise into a packet on the stack ...                            *)
PackLocal ==
    /\ At("pack")
    /\ controller' = [controller EXCEPT !.at = "copy", !.copied = 0,
                          !.bytes = Pack(controller.kind, current[controller.kind])]
    /\ NoAnswer
    /\ UNCHANGED <<table, connected, nvs, current, packed, value, queued, deferred, failed>>

(* ... copy that, byte by byte, into packed_data ...                       *)
Copy ==
    LET next == controller.copied + 1
        b    == Buffer(controller.kind)
    IN  /\ At("copy")
        /\ next <= Len(controller.bytes)
        /\ packed' = [packed EXCEPT ![b] =
              IF next <= Len(@) THEN [@ EXCEPT ![next] = controller.bytes[next]]
                                ELSE Append(@, controller.bytes[next])]
        /\ controller' = [controller EXCEPT !.copied = next]
        /\ NoAnswer
        /\ UNCHANGED <<table, connected, nvs, current, value, queued, deferred, failed>>

(* ... and set the value to as many bytes of it as were packed.            *)
Set ==
    /\ At("copy") /\ controller.copied = Len(controller.bytes)
    /\ SetValue(SubSeq(packed[Buffer(controller.kind)], 1, controller.copied))
    /\ controller' = Idle
    /\ NoAnswer
    /\ UNCHANGED <<table, connected, nvs, current, packed, deferred, failed>>

Next == \/ TableEvt \/ ConnectEvt \/ DisconnectEvt \/ ReadEvt \/ Apply
        \/ \E bytes \in Inputs, kind \in Kind : Command(bytes, kind)
        \/ Save \/ SaveFails \/ Load \/ PackLocal \/ Copy \/ Set

Spec == Init /\ [][Next]_vars
----------------------------------------------------------------------------
IsBytes(s) == s \in Seq(Byte) /\ Len(s) <= MaxPacket

TypeOK ==
    /\ table \in BOOLEAN /\ connected \in BOOLEAN /\ deferred \in BOOLEAN /\ failed \in BOOLEAN
    /\ \A k \in Kind : /\ nvs[k] = None \/ IsConfig(k, nvs[k])
                       /\ IsConfig(k, current[k])
                       /\ IsBytes(packed[k])
    /\ IsBytes(value) /\ IsBytes(answer)
    /\ \A i \in 1..Len(queued) : IsBytes(queued[i])
    /\ controller.at \in {"idle", "save", "load", "pack", "copy"} /\ controller.kind \in Kind
    /\ IsBytes(controller.bytes) /\ controller.copied \in 0..Len(controller.bytes)
    /\ ~table => value = <<>> /\ queued = <<>>

(* A packet that decodes, and that nothing was cut off from or left behind *)
(* in.                                                                     *)
Whole(bytes) == \E k \in Kind : Gets(k, bytes) /\ Pack(k, Got(k, bytes)) = bytes

(* Nothing torn is ever readable, although two tasks write the buffers it  *)
(* is made of: what the callback task writes over the controller's work is *)
(* the same bytes, unless one of them could not read NVS                   *)
(* (controller.c:189-363).                                                 *)
NeverTorn == ~failed => \A v \in {value, answer} : v # <<>> => Whole(v)

(* When nothing is under way the value is what is saved now, whatever kind *)
(* was set last: no update that was overtaken stays (controller.c:370-486).*)
Converges ==
    ~failed /\ At("idle") /\ queued = <<>> /\ value # <<>> =>
        \E k \in Kind : value = Pack(k, Saved(k))

(* A read answers the saved calibration, whatever the controller is doing, *)
(* if the stack applies a value at once (ble.c:622-628).                   *)
ReadsCalibration ==
    [][ReadEvt /\ ~deferred /\ ~failed' => answer' = Pack("calibration", Saved("calibration"))]_vars
=============================================================================
