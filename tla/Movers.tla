------------------------------- MODULE Movers -------------------------------
(***************************************************************************)
(* Who moves the ears: the controller (commands), the animation-mode task  *)
(* (main/animation.c) and app_main at boot.  Each plays animations and     *)
(* returns the servos to their centres (main/servo.c), with a calibration  *)
(* it has read from NVS (main/servo_calibration.c) some time before; the   *)
(* controller also starts the animation-mode task and deletes it wherever  *)
(* it is.  An angle is abstract: at the centre or away from it.            *)
(***************************************************************************)
EXTENDS Integers

CONSTANTS
    LastServo,      \* 3: four servos
    Calibration,    \* calibrations clients send
    Zero,           \* the default calibration, all offsets 0
    Frequency,      \* frequencies clients send (int16_t)
    MaxCommands,    \* bound: commands
    MaxFaults       \* bound: failing calls and power losses

Servo      == 0..LastServo
Mover      == {"controller", "mode", "main"}
AnyOffsets == Calibration \cup {Zero}

NoNamespace == "no namespace"
NoKey       == "no key"
Modes       == [id : {0, 1}, frequency : Frequency \cup {0}]
NoMode      == [id |-> 0, frequency |-> 0]

ASSUME MoversAssumption == /\ LastServo \in Nat /\ Frequency \subseteq Int
                           /\ MaxCommands \in Nat /\ MaxFaults \in Nat
                           /\ {NoNamespace, NoKey} \cap AnyOffsets = {}

VARIABLES
    calibration,    \* NVS: servo_cal/calibration
    mode,           \* NVS: anim_mode
    running,        \* the mode task's frequency; 0 when its handle is NULL
    mover,          \* what each task is doing
    pose,           \* what each servo was last told
    marks,          \* history: what can have left the ears elsewhere
    commands, faults    \* bounds

vars == <<calibration, mode, running, mover, pose, marks, commands, faults>>

(* step: where the task is; cal: its calibration variable; next: the servo *)
(* it resets next; then: where it goes after the reset.                    *)
Activity == [step : {"idle", "animate", "play", "moving", "playing", "reset", "resetting",
                     "restart", "stop", "start"},
             cal : AnyOffsets, next : Servo, then : {"idle", "animate"}]

Idle == [step |-> "idle", cal |-> Zero, next |-> 0, then |-> "idle"]

At(m, steps) == mover[m].step \in steps

Goes(m, step) == mover' = [mover EXCEPT ![m].step = step]

(* The mark that is about the mode, not about the servos.                  *)
ModeMark == "mode not committed"

Fault == faults > 0 /\ faults' = faults - 1

(* main resets the servos in init_servos() and then plays animation 3.     *)
Boot == [m \in Mover |-> IF m = "main"
                         THEN [Idle EXCEPT !.step = "reset", !.then = "animate"]
                         ELSE Idle]

Centred == [s \in Servo |-> [at |-> "centre", cal |-> Zero]]
----------------------------------------------------------------------------
(* servo_load_calibration(): without a namespace, or when nvs_open()       *)
(* fails, the defaults; when nvs_get_blob() fails or finds no key, the     *)
(* eight bytes of an uninitialised buffer are deserialized all the same.   *)
Load(cal, old) ==
    \/ /\ cal = IF calibration = NoNamespace THEN Zero ELSE calibration
       /\ marks' = old /\ UNCHANGED faults
    \/ /\ calibration = NoKey
       /\ marks' = old \cup {"uninitialised"} /\ UNCHANGED faults
    \/ /\ Fault /\ calibration # NoNamespace
       /\ marks' = old \cup {"uninitialised"}
    \/ /\ Fault /\ cal = Zero
       /\ marks' = old \cup {"not read"}

(* do_animation() and custom_animation_play() read the calibration once.   *)
LoadForMoves(m) ==
    /\ At(m, {"animate", "play"})
    /\ \E cal \in AnyOffsets :
          /\ Load(cal, marks)
          /\ mover' = [mover EXCEPT ![m].cal = cal,
                          ![m].step = IF @ = "play" THEN "playing" ELSE "moving"]
    /\ UNCHANGED <<calibration, mode, running, pose, commands>>

MoveServo(m, s) ==
    /\ At(m, {"moving", "playing"})
    /\ pose' = [pose EXCEPT ![s] = [at |-> "away", cal |-> mover[m].cal]]
    /\ UNCHANGED <<calibration, mode, running, mover, marks, commands, faults>>

(* A built-in animation ends with reset_servos(); a custom one stays in    *)
(* its last pose.                                                          *)
AnimationEnds(m) ==
    /\ At(m, {"moving"})
    /\ Goes(m, "reset")
    /\ UNCHANGED <<calibration, mode, running, pose, marks, commands, faults>>

PlayEnds(m) ==
    /\ At(m, {"playing"})
    /\ Goes(m, "idle")
    /\ marks' = marks \cup {"pose held"}
    /\ UNCHANGED <<calibration, mode, running, pose, commands, faults>>

(* reset_servos() reads the calibration again.  When nobody else is moving *)
(* the servos, it makes up for what has happened to them.                  *)
Alone(m) == \A n \in Mover \ {m} : At(n, {"idle"})

LoadForReset(m) ==
    /\ At(m, {"reset"})
    /\ \E cal \in AnyOffsets :
          /\ Load(cal, IF Alone(m) THEN marks \cap {ModeMark} ELSE marks)
          /\ mover' = [mover EXCEPT ![m].cal = cal, ![m].next = 0, ![m].step = "resetting"]
    /\ UNCHANGED <<calibration, mode, running, pose, commands>>

LastOneShort(s) == s >= LastServo - 1
LastOnePast(s)  == s = LastServo + 1
Last(s) == s = LastServo

ResetServo(m) ==
    LET a == mover[m] IN
    /\ a.step = "resetting"
    /\ pose' = [pose EXCEPT ![a.next] = [at |-> "centre", cal |-> a.cal]]
    /\ mover' = [mover EXCEPT
                   ![m] = IF Last(a.next) THEN [Idle EXCEPT !.step = a.then]
                                          ELSE [a EXCEPT !.next = @ + 1]]
    /\ UNCHANGED <<calibration, mode, running, marks, commands, faults>>
----------------------------------------------------------------------------
(* The controller takes a command that it acts on.                         *)
Command == At("controller", {"idle"}) /\ commands' = commands + 1 /\ commands < MaxCommands

AnimationCommand == /\ Command
                    /\ Goes("controller", "animate")
                    /\ UNCHANGED <<calibration, mode, running, pose, marks, faults>>

CustomCommand == /\ Command
                 /\ Goes("controller", "play")
                 /\ UNCHANGED <<calibration, mode, running, pose, marks, faults>>

(* Nothing tells a mover that is just now returning the servos with the    *)
(* calibration it has read before.                                         *)
Overtakes == \E m \in Mover \ {"controller"} : At(m, {"resetting"})

(* servo_save_calibration() succeeds, and the controller goes on to reset  *)
(* the servos ...                                                          *)
CalibrationSaved(cal) ==
    /\ Command
    /\ calibration' = cal
    /\ Goes("controller", "reset")
    /\ marks' = IF Overtakes THEN marks \cup {"overtaken"} ELSE marks
    /\ UNCHANGED <<mode, running, pose, faults>>

(* ... or fails: in nvs_open(); in nvs_set_blob(), after nvs_open() has    *)
(* created the namespace; in nvs_commit(), with the new value in place.    *)
CalibrationNotSaved(cal) ==
    /\ Command /\ Fault
    /\ \/ UNCHANGED <<calibration, marks>>
       \/ /\ calibration = NoNamespace
          /\ calibration' = NoKey
          /\ UNCHANGED marks
       \/ calibration' = cal /\ marks' = marks \cup {"not committed"}
    /\ UNCHANGED <<mode, running, mover, pose>>

(* animation_mode_save() in process_animation_mode_command(): the mode is  *)
(* acted on only when it was saved.                                        *)
ModeSaved(new) ==
    /\ Command
    /\ mode' = new
    /\ Goes("controller", IF new.id = 1 THEN "restart" ELSE "stop")
    /\ UNCHANGED <<calibration, running, pose, marks, faults>>

ModeNotSaved(new) ==
    /\ Command /\ Fault
    /\ \/ UNCHANGED <<mode, marks>>
       \/ mode' = new /\ marks' = marks \cup {ModeMark}
    /\ UNCHANGED <<calibration, running, mover, pose>>

StopDone == IF At("controller", {"restart"}) THEN "start" ELSE "idle"

(* The task is left to itself.                                            *)
StopsNothing == /\ At("controller", {"restart", "stop"})
                /\ Goes("controller", StopDone)
                /\ UNCHANGED <<calibration, mode, running, pose, marks, commands, faults>>

(* stop_animation_mode(): vTaskDelete() wherever the task is.              *)
StopMode ==
    /\ At("controller", {"restart", "stop"})
    /\ running' = 0
    /\ mover' = [mover EXCEPT !["mode"] = Idle, !["controller"].step = StopDone]
    /\ marks' = IF At("mode", {"moving", "reset", "resetting"})
                THEN marks \cup {"cut short"} ELSE marks
    /\ UNCHANGED <<calibration, mode, pose, commands, faults>>

(* start_animation_mode() reads the mode back; a frequency of 0 or less,   *)
(* a failing read or xTaskCreate() leave the task stopped.                 *)
StartMode ==
    /\ At("controller", {"start"})
    /\ \/ /\ running = 0 /\ mode.frequency > 0
          /\ running' = mode.frequency
          /\ mover' = [mover EXCEPT !["mode"].step = "animate", !["controller"].step = "idle"]
          /\ UNCHANGED faults
       \/ /\ running # 0 \/ mode.frequency <= 0 \/ faults > 0
          /\ IF running # 0 \/ mode.frequency <= 0 THEN UNCHANGED faults ELSE Fault
          /\ Goes("controller", "idle")
          /\ UNCHANGED running
    /\ UNCHANGED <<calibration, mode, pose, marks, commands>>

(* The mode task's interval is over.                                       *)
Interval == /\ running # 0 /\ At("mode", {"idle"})
            /\ Goes("mode", "animate")
            /\ UNCHANGED <<calibration, mode, running, pose, marks, commands, faults>>

(* A boot restores no animation mode.                                      *)
PowerLoss == /\ Fault
             /\ mover' = Boot /\ running' = 0 /\ pose' = Centred
             /\ marks' = marks \cap {ModeMark}
             /\ UNCHANGED <<calibration, mode, commands>>
----------------------------------------------------------------------------
Init == /\ calibration = NoNamespace /\ mode = NoMode /\ running = 0
        /\ mover = Boot
        /\ pose = Centred
        /\ marks = {} /\ commands = 0 /\ faults = MaxFaults

Moves(m) == \/ LoadForMoves(m) \/ AnimationEnds(m) \/ PlayEnds(m)
            \/ LoadForReset(m) \/ ResetServo(m)
            \/ \E s \in Servo : MoveServo(m, s)

Commands == \/ AnimationCommand \/ CustomCommand
            \/ \E cal \in Calibration : CalibrationSaved(cal) \/ CalibrationNotSaved(cal)
            \/ \E new \in Modes : ModeSaved(new) \/ ModeNotSaved(new)

Next == \/ \E m \in Mover : Moves(m)
        \/ Commands \/ StopMode \/ StartMode \/ Interval \/ PowerLoss

Spec == Init /\ [][Next]_vars
----------------------------------------------------------------------------
TypeOK ==
    /\ calibration \in AnyOffsets \cup {NoNamespace, NoKey}
    /\ mode \in Modes
    /\ running \in Frequency \cup {0}
    /\ mover \in [Mover -> Activity]
    /\ pose \in [Servo -> [at : {"centre", "away"}, cal : AnyOffsets]]
    /\ commands \in 0..MaxCommands /\ faults \in 0..MaxFaults

(* Between commands, a running animation-mode task runs at the frequency   *)
(* of the mode that is saved, and none runs while the saved mode is off:   *)
(* no delay, deletion, failing read or restart leaves an old task or an    *)
(* old frequency behind, unless a failing commit changed the mode          *)
(* (controller.c:370-403, animation.c:58-113).                             *)
RunsAsSaved ==
    running # 0 /\ ~At("controller", {"restart", "stop", "start"})
                /\ ModeMark \notin marks
        => mode.id = 1 /\ running = mode.frequency

(* When nobody moves them, the ears stand at their centres by the saved    *)
(* calibration, however the movers were interleaved, unless what marks     *)
(* names has happened (servo.c:18-36, controller.c:472-486).               *)
AtRest ==
    /\ \A m \in Mover : At(m, {"idle"})
    /\ marks \subseteq {ModeMark}
    => \A s \in Servo : /\ pose[s].at = "centre"
                        /\ pose[s].cal = IF calibration \in Calibration THEN calibration ELSE Zero
=============================================================================
