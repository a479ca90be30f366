----------------------------- MODULE Movers_proofs -----------------------------
(***************************************************************************)
(* For every number of servos, set of calibrations and set of frequencies: *)
(* the animation-mode task runs as saved, and ears that nobody moves are at*)
(* their centres.                                                          *)
(***************************************************************************)
EXTENDS Movers, TLAPS

(* The calibration by which the ears have to stand.                        *)
Target == IF calibration \in Calibration THEN calibration ELSE Zero

Clean == marks \subseteq {ModeMark}

(* The mode task exists while its handle does, and moves only as built-in  *)
(* animations do; the mode it is started for is one that is on.            *)
ModeInv == /\ At("mode", {"idle", "animate", "moving", "reset", "resetting"})
           /\ running = 0 => At("mode", {"idle"})
           /\ At("controller", {"restart", "start"}) => mode.id = 1
           /\ At("controller", {"start"}) => running = 0

(* The mover m has the servo s still to return, or to leave a mark.        *)
Pending(m, s) == \/ At(m, {"moving", "playing", "reset"})
                 \/ At(m, {"resetting"}) /\ mover[m].next <= s

Settled(s) == pose[s].at = "centre" /\ pose[s].cal = Target

(* Without a mark, every servo is in place or will be put there, and by the*)
(* saved calibration.                                                      *)
ServoInv ==
    Clean => /\ \A m \in Mover : At(m, {"resetting"}) => mover[m].cal = Target
             /\ \A s \in Servo : Settled(s) \/ \E m \in Mover : Pending(m, s)

IInv == TypeOK /\ ModeInv /\ RunsAsSaved /\ ServoInv
----------------------------------------------------------------------------
(* What the steps do to the movers.                                        *)

Steps == {"idle", "animate", "play", "moving", "playing", "reset", "resetting",
          "restart", "stop", "start"}

OthersStay(m) == \A n \in Mover : n # m => mover'[n] = mover[n]

LEMMA ActivityFields ==
    ASSUME TypeOK, NEW m \in Mover
    PROVE  /\ mover \in [Mover -> Activity] /\ mover[m] \in Activity
           /\ mover[m].step \in Steps /\ mover[m].cal \in AnyOffsets
           /\ mover[m].next \in Servo /\ mover[m].then \in {"idle", "animate"}
BY DEF TypeOK, Activity, Steps

LEMMA IdleActivity == /\ Idle \in Activity /\ Idle.step = "idle" /\ Idle.next = 0 /\ 0 \in Servo
                      /\ \A step \in Steps : /\ [Idle EXCEPT !.step = step] \in Activity
                                             /\ [Idle EXCEPT !.step = step].step = step
<1>1. 0 \in Servo /\ Zero \in AnyOffsets
  BY MoversAssumption DEF Servo, AnyOffsets
<1>2. QED
  BY <1>1 DEF Idle, Activity, Steps

LEMMA StepActivity ==
    ASSUME NEW a \in Activity, NEW step \in Steps
    PROVE  [a EXCEPT !.step = step] \in Activity /\ [a EXCEPT !.step = step].step = step
BY DEF Activity, Steps

(* A task goes from one step to another.                                   *)
LEMMA GoesTo ==
    ASSUME TypeOK, NEW m \in Mover, NEW step \in Steps, Goes(m, step)
    PROVE  /\ mover' \in [Mover -> Activity]
           /\ mover'[m].step = step /\ mover'[m].next = mover[m].next /\ mover'[m].cal = mover[m].cal
           /\ OthersStay(m)
BY ActivityFields DEF Goes, OthersStay, Activity, Steps

(* A task reads the calibration and begins to move.                        *)
LEMMA LoadsForMoves ==
    ASSUME TypeOK, NEW m \in Mover, LoadForMoves(m)
    PROVE  /\ mover' \in [Mover -> Activity] /\ OthersStay(m)
           /\ mover'[m].step = IF At(m, {"play"}) THEN "playing" ELSE "moving"
<1>1. PICK cal \in AnyOffsets :
         mover' = [mover EXCEPT ![m].cal = cal, ![m].step = IF @ = "play" THEN "playing" ELSE "moving"]
  BY DEF LoadForMoves
<1>2. QED
  BY <1>1, ActivityFields DEF OthersStay, Activity, Steps, At

(* A task reads the calibration and begins to return the servos: without a *)
(* new mark, it is the saved one.                                          *)
LEMMA LoadsForReset ==
    ASSUME TypeOK, NEW m \in Mover, LoadForReset(m)
    PROVE  /\ mover' \in [Mover -> Activity] /\ OthersStay(m)
           /\ mover'[m].step = "resetting" /\ mover'[m].next = 0
           /\ (marks \subseteq {ModeMark})' => mover'[m].cal = Target
           /\ ModeMark \in marks => ModeMark \in marks'
           /\ Clean' => Clean \/ Alone(m)
<1> DEFINE old == IF Alone(m) THEN marks \cap {ModeMark} ELSE marks
<1>1. PICK cal \in AnyOffsets :
         /\ Load(cal, old)
         /\ mover' = [mover EXCEPT ![m].cal = cal, ![m].next = 0, ![m].step = "resetting"]
  BY DEF LoadForReset
<1>2. /\ mover' \in [Mover -> Activity] /\ OthersStay(m)
      /\ mover'[m].step = "resetting" /\ mover'[m].next = 0 /\ mover'[m].cal = cal
  BY <1>1, ActivityFields, IdleActivity DEF OthersStay, Activity
<1>3. \/ cal = (IF calibration = NoNamespace THEN Zero ELSE calibration) /\ marks' = old
      \/ marks' = old \cup {"uninitialised"} \/ marks' = old \cup {"not read"}
  BY <1>1 DEF Load
<1>4. Clean' => cal = Target
  <2>1. ASSUME Clean' PROVE cal = (IF calibration = NoNamespace THEN Zero ELSE calibration)
    <3>1. "uninitialised" \notin marks' /\ "not read" \notin marks'
      BY <2>1 DEF Clean, ModeMark
    <3>2. QED
      BY <1>3, <3>1
  <2>2. calibration \in AnyOffsets \cup {NoNamespace, NoKey}
    BY DEF TypeOK
  <2>3. QED
    BY <1>1, <2>1, <2>2, MoversAssumption DEF Target, AnyOffsets
<1>5. (ModeMark \in marks => ModeMark \in marks') /\ (Clean' => Clean \/ Alone(m))
  BY <1>3 DEF Clean, ModeMark
<1>6. QED
  BY <1>2, <1>4, <1>5 DEF Clean

(* reset_servos() moves on to the next servo, or ends.                     *)
LEMMA Resets ==
    ASSUME TypeOK, NEW m \in Mover, ResetServo(m)
    PROVE  /\ mover' \in [Mover -> Activity] /\ OthersStay(m)
           /\ \/ /\ mover'[m].step = "resetting" /\ mover'[m].cal = mover[m].cal
                 /\ mover'[m].next = mover[m].next + 1
              \/ mover'[m].step \in {"idle", "animate"} /\ mover[m].next = LastServo
<1> DEFINE a == mover[m]
<1>1. a \in Activity /\ a.next \in Servo /\ a.then \in {"idle", "animate"} /\ mover \in [Mover -> Activity]
  BY ActivityFields
<1>2. CASE Last(a.next)
  <2>1. PICK b \in Activity : b = [Idle EXCEPT !.step = a.then] /\ b.step = a.then
    BY <1>1, IdleActivity DEF Steps
  <2>2. mover' = [mover EXCEPT ![m] = b]
    BY <1>2, <2>1 DEF ResetServo
  <2>3. QED
    BY <1>1, <1>2, <2>1, <2>2 DEF OthersStay, Last
<1>3. CASE ~Last(a.next)
  <2>1. a.next + 1 \in Servo
    BY <1>1, <1>3, MoversAssumption DEF Servo, Last
  <2>2. mover' = [mover EXCEPT ![m] = [a EXCEPT !.next = @ + 1]]
    BY <1>3 DEF ResetServo
  <2>3. a.step = "resetting"
    BY DEF ResetServo
  <2>4. QED
    BY <1>1, <2>1, <2>2, <2>3 DEF OthersStay, Activity
<1>4. QED
  BY <1>2, <1>3

(* The mode task is deleted, and the controller goes on.                   *)
LEMMA Stops ==
    ASSUME TypeOK, StopMode
    PROVE  /\ mover' \in [Mover -> Activity]
           /\ mover'["mode"] = Idle /\ mover'["main"] = mover["main"]
           /\ mover'["controller"].step = IF At("controller", {"restart"}) THEN "start" ELSE "idle"
           /\ At("controller", {"restart", "stop"})
<1>1. mover' = [mover EXCEPT !["mode"] = Idle, !["controller"].step = StopDone]
  BY DEF StopMode
<1>2. StopDone \in Steps /\ StopDone = IF At("controller", {"restart"}) THEN "start" ELSE "idle"
  BY DEF StopDone, Steps
<1>3. At("controller", {"restart", "stop"})
  BY DEF StopMode
<1>4. PICK c \in Activity : c = [mover["controller"] EXCEPT !.step = StopDone] /\ c.step = StopDone
  <2>1. mover["controller"] \in Activity
    BY ActivityFields DEF Mover
  <2>2. QED
    BY <1>2, <2>1, StepActivity
<1>5. mover' = [mover EXCEPT !["mode"] = Idle, !["controller"] = c]
  BY <1>1, <1>4, ActivityFields DEF Mover
<1>6. QED
  BY <1>2, <1>3, <1>4, <1>5, ActivityFields, IdleActivity DEF Mover

(* The mode task is created.                                               *)
LEMMA Starts ==
    ASSUME TypeOK,
           mover' = [mover EXCEPT !["mode"].step = "animate", !["controller"].step = "idle"]
    PROVE  /\ mover' \in [Mover -> Activity]
           /\ mover'["mode"].step = "animate" /\ mover'["main"] = mover["main"]
           /\ mover'["controller"].step = "idle"
BY ActivityFields DEF Mover, Activity, Steps

(* The state after a boot.                                                 *)
LEMMA BootActivities ==
    /\ Boot \in [Mover -> Activity]
    /\ Boot["main"].step = "reset" /\ Boot["mode"] = Idle /\ Boot["controller"] = Idle
<1>0. 0 \in Servo /\ Zero \in AnyOffsets
  BY MoversAssumption DEF Servo, AnyOffsets
<1>1. PICK b \in Activity : b = [Idle EXCEPT !.step = "reset", !.then = "animate"] /\ b.step = "reset"
  <2> DEFINE b == [Idle EXCEPT !.step = "reset", !.then = "animate"]
  <2>1. b \in Activity /\ b.step = "reset"
    BY <1>0 DEF Idle, Activity
  <2>2. QED
    BY <2>1
<1>2. QED
  BY <1>1, IdleActivity DEF Boot, Mover
----------------------------------------------------------------------------
(* What every move of a task has in common.                                *)

(* A task that moves was not idle, and does not become anything that only  *)
(* commands make of it.                                                    *)
LEMMA MovesSteps ==
    ASSUME TypeOK, NEW m \in Mover, Moves(m)
    PROVE  /\ mover' \in [Mover -> Activity] /\ OthersStay(m)
           /\ mover[m].step \in {"animate", "play", "moving", "playing", "reset", "resetting"}
           /\ mover'[m].step \in {"idle", "animate", "moving", "playing", "reset", "resetting"}
           /\ mover'[m].step = "playing" => mover[m].step \in {"play", "playing"}
           /\ UNCHANGED <<calibration, mode, running, commands>>
           /\ ModeMark \in marks => ModeMark \in marks'
<1>1. CASE LoadForMoves(m)
  <2>1. ModeMark \in marks => ModeMark \in marks'
    BY <1>1 DEF LoadForMoves, Load
  <2>2. QED
    BY <1>1, <2>1, LoadsForMoves DEF LoadForMoves, At
<1>2. CASE AnimationEnds(m)
  BY <1>2, GoesTo DEF AnimationEnds, At, Steps
<1>3. CASE PlayEnds(m)
  BY <1>3, GoesTo DEF PlayEnds, At, Steps
<1>4. CASE LoadForReset(m)
  BY <1>4, LoadsForReset DEF LoadForReset, At
<1>5. CASE ResetServo(m)
  BY <1>5, Resets DEF ResetServo
<1>6. CASE \E s \in Servo : MoveServo(m, s)
  BY <1>6, ActivityFields DEF MoveServo, At, OthersStay
<1>7. QED
  BY <1>1, <1>2, <1>3, <1>4, <1>5, <1>6 DEF Moves

(* The bound on failures.                                                  *)
LEMMA FaultBound == ASSUME TypeOK, Fault \/ UNCHANGED faults PROVE faults' \in 0..MaxFaults
BY MoversAssumption DEF TypeOK, Fault

LEMMA CommandBound == ASSUME TypeOK, Command PROVE commands' \in 0..MaxCommands
BY MoversAssumption DEF TypeOK, Command

(* The other half of the type.                                             *)
PoseType == pose \in [Servo -> [at : {"centre", "away"}, cal : AnyOffsets]]

LEMMA MovesType == ASSUME TypeOK, NEW m \in Mover, Moves(m) PROVE TypeOK'
<1>1. mover' \in [Mover -> Activity] /\ UNCHANGED <<calibration, mode, running, commands>>
  BY MovesSteps
<1>2. PoseType'
  <2>1. CASE ResetServo(m)
    <3>1. mover[m].next \in Servo /\ mover[m].cal \in AnyOffsets
      BY ActivityFields
    <3>2. pose' = [pose EXCEPT ![mover[m].next] = [at |-> "centre", cal |-> mover[m].cal]]
      BY <2>1 DEF ResetServo
    <3>3. QED
      BY <3>1, <3>2 DEF TypeOK, PoseType
  <2>2. CASE \E s \in Servo : MoveServo(m, s)
    <3>1. PICK s \in Servo : pose' = [pose EXCEPT ![s] = [at |-> "away", cal |-> mover[m].cal]]
      BY <2>2 DEF MoveServo
    <3>2. mover[m].cal \in AnyOffsets
      BY ActivityFields
    <3>3. QED
      BY <3>1, <3>2 DEF TypeOK, PoseType
  <2>3. CASE UNCHANGED pose
    BY <2>3 DEF TypeOK, PoseType
  <2>4. QED
    BY <2>1, <2>2, <2>3 DEF Moves, LoadForMoves, AnimationEnds, PlayEnds, LoadForReset
<1>3. Fault \/ UNCHANGED faults
  BY DEF Moves, LoadForMoves, Load, AnimationEnds, PlayEnds, LoadForReset, ResetServo, MoveServo
<1>4. faults' \in 0..MaxFaults
  BY <1>3, FaultBound
<1>5. QED
  BY <1>1, <1>2, <1>4 DEF TypeOK, PoseType

(* The commands.                                                           *)
LEMMA CommandsType == ASSUME TypeOK, Commands PROVE TypeOK'
<1> USE DEF PoseType
<1>0. "controller" \in Mover
  BY DEF Mover
<1>1. CASE AnimationCommand \/ CustomCommand
  <2>1. mover' \in [Mover -> Activity]
    BY <1>0, <1>1, GoesTo DEF AnimationCommand, CustomCommand, Steps
  <2>2. commands' \in 0..MaxCommands
    BY <1>1, CommandBound DEF AnimationCommand, CustomCommand
  <2>3. QED
    BY <1>1, <2>1, <2>2 DEF TypeOK, AnimationCommand, CustomCommand
<1>2. CASE \E cal \in Calibration : CalibrationSaved(cal)
  <2>1. PICK cal \in Calibration : CalibrationSaved(cal)
    BY <1>2
  <2>2. mover' \in [Mover -> Activity]
    BY <1>0, <2>1, GoesTo DEF CalibrationSaved, Steps
  <2>3. commands' \in 0..MaxCommands
    BY <2>1, CommandBound DEF CalibrationSaved
  <2>4. QED
    BY <2>1, <2>2, <2>3 DEF TypeOK, CalibrationSaved, AnyOffsets
<1>3. CASE \E cal \in Calibration : CalibrationNotSaved(cal)
  <2>1. PICK cal \in Calibration : CalibrationNotSaved(cal)
    BY <1>3
  <2>2. calibration' \in AnyOffsets \cup {NoNamespace, NoKey}
    BY <2>1 DEF CalibrationNotSaved, TypeOK, AnyOffsets
  <2>3. commands' \in 0..MaxCommands /\ faults' \in 0..MaxFaults
    BY <2>1, CommandBound, FaultBound DEF CalibrationNotSaved
  <2>4. QED
    BY <2>1, <2>2, <2>3 DEF TypeOK, CalibrationNotSaved
<1>4. CASE \E new \in Modes : ModeSaved(new)
  <2>1. PICK new \in Modes : ModeSaved(new)
    BY <1>4
  <2>2. mover' \in [Mover -> Activity]
    BY <1>0, <2>1, GoesTo DEF ModeSaved, Steps
  <2>3. commands' \in 0..MaxCommands
    BY <2>1, CommandBound DEF ModeSaved
  <2>4. QED
    BY <2>1, <2>2, <2>3 DEF TypeOK, ModeSaved
<1>5. CASE \E new \in Modes : ModeNotSaved(new)
  <2>1. PICK new \in Modes : ModeNotSaved(new)
    BY <1>5
  <2>2. mode' \in Modes
    BY <2>1 DEF ModeNotSaved, TypeOK
  <2>3. commands' \in 0..MaxCommands /\ faults' \in 0..MaxFaults
    BY <2>1, CommandBound, FaultBound DEF ModeNotSaved
  <2>4. QED
    BY <2>1, <2>2, <2>3 DEF TypeOK, ModeNotSaved
<1>6. QED
  BY <1>1, <1>2, <1>3, <1>4, <1>5 DEF Commands

(* Where a StartMode leads.                                                *)
LEMMA StartsOrNot ==
    ASSUME TypeOK, StartMode
    PROVE  /\ mover' \in [Mover -> Activity] /\ mover'["main"] = mover["main"]
           /\ mover'["controller"].step = "idle" /\ At("controller", {"start"})
           /\ \/ /\ running = 0 /\ running' = mode.frequency /\ running' > 0
                 /\ mover'["mode"].step = "animate"
              \/ running' = running /\ mover'["mode"] = mover["mode"]
           /\ Fault \/ UNCHANGED faults
           /\ UNCHANGED <<calibration, mode, pose, marks, commands>>
<1>1. CASE /\ running = 0 /\ mode.frequency > 0 /\ running' = mode.frequency
           /\ mover' = [mover EXCEPT !["mode"].step = "animate", !["controller"].step = "idle"]
           /\ UNCHANGED faults
  BY <1>1, Starts DEF StartMode
<1>2. CASE Goes("controller", "idle") /\ UNCHANGED running /\ (Fault \/ UNCHANGED faults)
  <2>1. "controller" \in Mover /\ "mode" \in Mover /\ "main" \in Mover /\ "idle" \in Steps
    BY DEF Mover, Steps
  <2>2. QED
    BY <1>2, <2>1, GoesTo DEF StartMode, OthersStay
<1>3. QED
  BY <1>1, <1>2 DEF StartMode

LEMMA TypeStep == ASSUME TypeOK, [Next]_vars PROVE TypeOK'
<1>1. CASE \E m \in Mover : Moves(m)
  BY <1>1, MovesType
<1>2. CASE Commands
  BY <1>2, CommandsType
<1>3. CASE StopMode
  <2>1. mover' \in [Mover -> Activity]
    BY <1>3, Stops
  <2>2. QED
    BY <1>3, <2>1 DEF StopMode, TypeOK
<1>4. CASE StartMode
  <2>1. faults' \in 0..MaxFaults
    BY <1>4, StartsOrNot, FaultBound
  <2>2. running' \in Frequency \cup {0}
    BY <1>4, StartsOrNot DEF TypeOK, Modes
  <2>3. QED
    BY <1>4, <2>1, <2>2, StartsOrNot DEF TypeOK
<1>5. CASE Interval
  <2>1. mover' \in [Mover -> Activity]
    BY <1>5, GoesTo DEF Interval, Mover, Steps
  <2>2. QED
    BY <1>5, <2>1 DEF Interval, TypeOK
<1>6. CASE PowerLoss
  <2>1. faults' \in 0..MaxFaults
    BY <1>6, FaultBound DEF PowerLoss
  <2>2. PoseType'
    BY <1>6, MoversAssumption DEF PowerLoss, PoseType, Centred, AnyOffsets
  <2>3. mover' \in [Mover -> Activity]
    BY <1>6, BootActivities DEF PowerLoss
  <2>4. QED
    BY <1>6, <2>1, <2>2, <2>3 DEF PowerLoss, PoseType, TypeOK
<1>7. CASE UNCHANGED vars
  BY <1>7 DEF vars, TypeOK
<1>8. QED
  BY <1>1, <1>2, <1>3, <1>4, <1>5, <1>6, <1>7 DEF Next
----------------------------------------------------------------------------
(* The animation mode.                                                     *)

ModeTask == {"idle", "animate", "moving", "reset", "resetting"}

LEMMA CommandSteps ==
    ASSUME TypeOK, Commands
    PROVE  /\ running' = running /\ mover'["mode"] = mover["mode"]
           /\ mover'["main"] = mover["main"]
           /\ mover["controller"].step = "idle"
           /\ mover'["controller"].step \in {"idle", "animate", "play", "reset", "restart", "stop"}
           /\ ModeMark \in marks => ModeMark \in marks'
<1>0. "controller" \in Mover /\ "mode" \in Mover /\ "main" \in Mover
  BY DEF Mover
<1>1. CASE AnimationCommand \/ CustomCommand
  BY <1>0, <1>1, GoesTo DEF AnimationCommand, CustomCommand, Steps, OthersStay, Command, At
<1>2. CASE \E cal \in Calibration : CalibrationSaved(cal)
  BY <1>0, <1>2, GoesTo DEF CalibrationSaved, Steps, OthersStay, Command, At
<1>3. CASE \E cal \in Calibration : CalibrationNotSaved(cal)
  BY <1>3 DEF CalibrationNotSaved, Command, At
<1>4. CASE \E new \in Modes : ModeSaved(new)
  BY <1>0, <1>4, GoesTo DEF ModeSaved, Steps, OthersStay, Command, At
<1>5. CASE \E new \in Modes : ModeNotSaved(new)
  BY <1>5 DEF ModeNotSaved, Command, At
<1>6. QED
  BY <1>1, <1>2, <1>3, <1>4, <1>5 DEF Commands

(* A command changes the mode only on the way to act on it, or leaves the  *)
(* mark.                                                                   *)
LEMMA CommandModes ==
    ASSUME TypeOK, Commands
    PROVE  \/ mode' = mode
           \/ ModeMark \in marks' /\ mover' = mover
           \/ mover'["controller"].step = IF mode'.id = 1 THEN "restart" ELSE "stop"
<1>1. CASE \E new \in Modes : ModeSaved(new)
  BY <1>1, GoesTo DEF ModeSaved, Mover, Steps
<1>2. CASE \E new \in Modes : ModeNotSaved(new)
  BY <1>2 DEF ModeNotSaved
<1>3. QED
  BY <1>1, <1>2 DEF Commands, AnimationCommand, CustomCommand, CalibrationSaved, CalibrationNotSaved

(* A command that restarts the task found, or saved, a mode that is on.    *)
LEMMA CommandRestarts ==
    ASSUME TypeOK, Commands, mover'["controller"].step = "restart"
    PROVE  mode'.id = 1
<1>0. "controller" \in Mover
  BY DEF Mover
<1>1. CASE \E new \in Modes : ModeSaved(new)
  BY <1>0, <1>1, GoesTo DEF ModeSaved, Steps
<1>2. ~(AnimationCommand \/ CustomCommand)
  BY <1>0, GoesTo DEF AnimationCommand, CustomCommand, Steps
<1>3. ~\E cal \in Calibration : CalibrationSaved(cal)
  BY <1>0, GoesTo DEF CalibrationSaved, Steps
<1>4. ~\E cal \in Calibration : CalibrationNotSaved(cal)
  BY DEF CalibrationNotSaved, Command, At
<1>5. ~\E new \in Modes : ModeNotSaved(new)
  BY DEF ModeNotSaved, Command, At
<1>6. QED
  BY <1>1, <1>2, <1>3, <1>4, <1>5 DEF Commands

LEMMA ModeStep ==
    ASSUME TypeOK, ModeInv, RunsAsSaved, [Next]_vars
    PROVE  ModeInv' /\ RunsAsSaved'
<1> DEFINE c == mover["controller"].step
           d == mover["mode"].step
<1>0. "controller" \in Mover /\ "mode" \in Mover /\ "main" \in Mover
  BY DEF Mover
<1>a. /\ d \in ModeTask
      /\ running = 0 => d = "idle"
      /\ c \in {"restart", "start"} => mode.id = 1
      /\ c = "start" => running = 0
      /\ \/ running = 0 \/ c \in {"restart", "stop", "start"}
         \/ ModeMark \in marks \/ (mode.id = 1 /\ running = mode.frequency)
  BY DEF ModeInv, At, ModeTask, RunsAsSaved
<1> SUFFICES /\ d' \in ModeTask
             /\ running' = 0 => d' = "idle"
             /\ c' \in {"restart", "start"} => mode'.id = 1
             /\ c' = "start" => running' = 0
             /\ \/ running' = 0 \/ c' \in {"restart", "stop", "start"}
                \/ ModeMark \in marks' \/ (mode'.id = 1 /\ running' = mode'.frequency)
  BY DEF ModeInv, At, ModeTask, RunsAsSaved
<1> HIDE DEF c, d
<1>1. CASE \E m \in Mover : Moves(m)
  <2>1. PICK m \in Mover : Moves(m)
    BY <1>1
  <2>2. /\ mode' = mode /\ running' = running /\ (ModeMark \in marks => ModeMark \in marks')
    BY <2>1, MovesSteps
  <2>3. CASE m = "mode"
    <3>1. c' = c
      BY <1>0, <2>1, <2>3, MovesSteps DEF OthersStay, c
    <3>2. d # "idle" /\ d' \in ModeTask
      BY <1>a, <2>1, <2>3, MovesSteps DEF ModeTask, d
    <3>3. QED
      BY <1>a, <2>2, <3>1, <3>2
  <2>4. CASE m = "controller"
    <3>1. d' = d
      BY <1>0, <2>1, <2>4, MovesSteps DEF OthersStay, d
    <3>2. c \notin {"restart", "stop", "start"} /\ c' \notin {"restart", "stop", "start"}
      BY <2>1, <2>4, MovesSteps DEF c
    <3>3. QED
      BY <1>a, <2>2, <3>1, <3>2
  <2>5. CASE m = "main"
    <3>1. c' = c /\ d' = d
      BY <1>0, <2>1, <2>5, MovesSteps DEF OthersStay, c, d
    <3>2. QED
      BY <1>a, <2>2, <3>1
  <2>6. QED
    BY <2>3, <2>4, <2>5 DEF Mover
<1>2. CASE Commands
  <2>1. /\ running' = running /\ d' = d /\ c = "idle" /\ (ModeMark \in marks => ModeMark \in marks')
        /\ c' \in {"idle", "animate", "play", "reset", "restart", "stop"}
    BY <1>2, CommandSteps DEF c, d
  <2>2. c' = "restart" => mode'.id = 1
    BY <1>2, CommandRestarts DEF c
  <2>3. \/ mode' = mode \/ ModeMark \in marks' \/ c' \in {"restart", "stop"}
    BY <1>2, CommandModes DEF c
  <2>4. QED
    BY <1>a, <2>1, <2>2, <2>3
<1>3. CASE StopMode
  <2>1. running' = 0 /\ mode' = mode
    BY <1>3 DEF StopMode
  <2>2. d' = "idle" /\ c \in {"restart", "stop"} /\ (c' = IF c = "restart" THEN "start" ELSE "idle")
    BY <1>3, Stops, IdleActivity DEF At, c, d
  <2>3. QED
    BY <1>a, <2>1, <2>2 DEF ModeTask
<1>4. CASE StartMode
  <2>1. c = "start" /\ c' = "idle" /\ mode' = mode
    BY <1>4, StartsOrNot DEF At, c
  <2>2. \/ running' = mode.frequency /\ running' > 0 /\ d' = "animate"
        \/ running' = running /\ d' = d
    BY <1>4, StartsOrNot DEF d
  <2>3. QED
    BY <1>a, <2>1, <2>2 DEF ModeTask
<1>5. CASE Interval
  <2>1. d' = "animate" /\ c' = c
    BY <1>0, <1>5, GoesTo DEF Interval, Steps, OthersStay, c, d
  <2>2. QED
    BY <1>a, <1>5, <2>1 DEF Interval, ModeTask
<1>6. CASE PowerLoss
  BY <1>6, BootActivities, IdleActivity DEF PowerLoss, c, d, ModeTask
<1>7. CASE UNCHANGED vars
  BY <1>a, <1>7 DEF vars, c, d
<1>8. QED
  BY <1>1, <1>2, <1>3, <1>4, <1>5, <1>6, <1>7 DEF Next
----------------------------------------------------------------------------
(* The servos.                                                             *)

(* A step that leaves the servos alone and takes no mover back keeps them. *)
LEMMA Kept ==
    ASSUME ServoInv,
           Clean' => /\ Clean /\ Target' = Target /\ pose' = pose
                     /\ \A n \in Mover :
                           \/ mover'[n] = mover[n]
                           \/ /\ mover[n].step \notin {"moving", "playing", "reset", "resetting"}
                              /\ mover'[n].step # "resetting"
                           \/ mover'[n].step \in {"moving", "playing", "reset"}
    PROVE  ServoInv'
<1> SUFFICES ASSUME Clean'
             PROVE  /\ \A m \in Mover : mover'[m].step = "resetting" => mover'[m].cal = Target'
                    /\ \A s \in Servo : Settled(s)' \/ \E m \in Mover : Pending(m, s)'
  BY DEF ServoInv, At
<1>1. \A m \in Mover : mover'[m].step = "resetting" => mover'[m].cal = Target'
  BY DEF ServoInv, At
<1>2. ASSUME NEW s \in Servo PROVE Settled(s)' \/ \E m \in Mover : Pending(m, s)'
  <2>1. CASE Settled(s)
    BY <2>1 DEF Settled
  <2>2. CASE \E m \in Mover : Pending(m, s)
    BY <2>2 DEF Pending, At
  <2>3. QED
    BY <2>1, <2>2 DEF ServoInv
<1>3. QED
  BY <1>1, <1>2

(* A mover that is to return every servo makes up for everything, unless   *)
(* another one is returning them with another calibration.                 *)
LEMMA ReturnsAll ==
    ASSUME NEW m \in Mover,
           Clean' => /\ \/ mover'[m].step = "reset"
                        \/ /\ mover'[m].step = "resetting" /\ mover'[m].next = 0
                           /\ mover'[m].cal = Target'
                     /\ \A n \in Mover \ {m} :
                           mover'[n].step = "resetting" => mover'[n].cal = Target'
    PROVE  ServoInv'
<1>1. \A s \in Servo : 0 <= s
  BY MoversAssumption DEF Servo
<1> SUFFICES ASSUME Clean'
             PROVE  /\ \A n \in Mover : mover'[n].step = "resetting" => mover'[n].cal = Target'
                    /\ \A s \in Servo : Pending(m, s)'
  BY DEF ServoInv, At
<1>2. QED
  BY <1>1 DEF Pending, At

(* A servo is returned.                                                    *)
LEMMA ResetsServos ==
    ASSUME TypeOK, ServoInv, NEW m \in Mover, ResetServo(m) PROVE ServoInv'
<1> DEFINE a == mover[m]
<1>1. /\ a.step = "resetting" /\ marks' = marks /\ calibration' = calibration
      /\ pose' = [pose EXCEPT ![a.next] = [at |-> "centre", cal |-> a.cal]]
  BY DEF ResetServo
<1>2. OthersStay(m) /\ a.next \in Servo
  BY Resets, ActivityFields
<1>3. \/ mover'[m].step = "resetting" /\ mover'[m].cal = a.cal /\ mover'[m].next = a.next + 1
      \/ mover'[m].step \in {"idle", "animate"} /\ a.next = LastServo
  BY Resets
<1> HIDE DEF a
<1> SUFFICES ASSUME Clean'
             PROVE  /\ \A n \in Mover : mover'[n].step = "resetting" => mover'[n].cal = Target'
                    /\ \A s \in Servo : Settled(s)' \/ \E n \in Mover : Pending(n, s)'
  BY DEF ServoInv, At
<1>4. Clean /\ Target' = Target
  BY <1>1 DEF Clean, Target
<1>5. a.cal = Target
  BY <1>1, <1>4 DEF ServoInv, At, a
<1>6. \A n \in Mover : mover'[n].step = "resetting" => mover'[n].cal = Target'
  BY <1>2, <1>3, <1>4, <1>5 DEF ServoInv, At, OthersStay
<1>7. ASSUME NEW s \in Servo PROVE Settled(s)' \/ \E n \in Mover : Pending(n, s)'
  <2>1. CASE s = a.next
    <3>1. pose'[s] = [at |-> "centre", cal |-> a.cal]
      BY <1>1, <1>2, <2>1 DEF TypeOK
    <3>2. QED
      BY <1>4, <1>5, <3>1 DEF Settled
  <2>2. CASE s # a.next /\ Settled(s)
    <3>1. pose'[s] = pose[s]
      BY <1>1, <2>2 DEF TypeOK
    <3>2. QED
      BY <1>4, <2>2, <3>1 DEF Settled
  <2>3. CASE s # a.next /\ \E n \in Mover : Pending(n, s)
    <3>1. PICK n \in Mover : Pending(n, s)
      BY <2>3
    <3>2. CASE n # m
      <4>1. mover'[n] = mover[n]
        BY <1>2, <3>2 DEF OthersStay
      <4>2. Pending(n, s)'
        BY <3>1, <4>1 DEF Pending, At
      <4>3. QED
        BY <4>2
    <3>3. CASE n = m
      <4>1. a.next <= s
        BY <1>1, <3>1, <3>3 DEF Pending, At, a
      <4>2. a.next + 1 <= s /\ a.next # LastServo
        BY <1>2, <2>3, <4>1, MoversAssumption DEF Servo
      <4>3. Pending(m, s)'
        BY <1>3, <4>2 DEF Pending, At
      <4>4. QED
        BY <4>3
    <3>4. QED
      BY <3>2, <3>3
  <2>4. QED
    BY <1>4, <2>1, <2>2, <2>3 DEF ServoInv
<1>8. QED
  BY <1>6, <1>7

(* A servo is moved by somebody who will return it, or leave a mark.       *)
LEMMA MovesServos ==
    ASSUME TypeOK, ServoInv, NEW m \in Mover, NEW s \in Servo, MoveServo(m, s) PROVE ServoInv'
<1>1. /\ mover[m].step \in {"moving", "playing"} /\ mover' = mover
      /\ marks' = marks /\ calibration' = calibration
  BY DEF MoveServo, At
<1>2. Target' = Target /\ (Clean' => Clean)
  BY <1>1 DEF Target, Clean
<1>3. \A t \in Servo : Pending(m, t)'
  BY <1>1 DEF Pending, At
<1>4. Clean' => \A n \in Mover : At(n, {"resetting"})' => (mover[n].cal)' = Target'
  BY <1>1, <1>2 DEF ServoInv, At
<1>5. QED
  BY <1>3, <1>4 DEF ServoInv

LEMMA MovesKeep ==
    ASSUME TypeOK, ServoInv, NEW m \in Mover, Moves(m) PROVE ServoInv'
<1>1. CASE LoadForMoves(m)
  <2>1. (Clean' => Clean) /\ Target' = Target /\ pose' = pose
    BY <1>1 DEF LoadForMoves, Load, Clean, Target
  <2>2. OthersStay(m) /\ mover'[m].step \in {"moving", "playing", "reset"}
    BY <1>1, LoadsForMoves
  <2>3. QED
    BY <2>1, <2>2, Kept DEF OthersStay
<1>2. CASE AnimationEnds(m)
  <2>1. (Clean' => Clean) /\ Target' = Target /\ pose' = pose
    BY <1>2 DEF AnimationEnds, Clean, Target
  <2>2. OthersStay(m) /\ mover'[m].step = "reset"
    BY <1>2, GoesTo DEF AnimationEnds, Steps
  <2>3. QED
    BY <2>1, <2>2, Kept DEF OthersStay
<1>3. CASE PlayEnds(m)
  <2>1. ~Clean'
    BY <1>3 DEF PlayEnds, Clean, ModeMark
  <2>2. QED
    BY <2>1 DEF ServoInv
<1>4. CASE LoadForReset(m)
  <2>1. Target' = Target /\ OthersStay(m)
    BY <1>4, LoadsForReset DEF LoadForReset, Target
  <2>2. Clean' => /\ mover'[m].step = "resetting" /\ mover'[m].next = 0 /\ mover'[m].cal = Target
                  /\ Clean \/ Alone(m)
    BY <1>4, LoadsForReset DEF Clean
  <2>3. ASSUME Clean', NEW n \in Mover \ {m}, mover'[n].step = "resetting"
        PROVE  mover'[n].cal = Target'
    <3>1. mover'[n] = mover[n] /\ At(n, {"resetting"})
      BY <2>1, <2>3 DEF OthersStay, At
    <3>2. Clean
      BY <2>2, <2>3, <3>1 DEF Alone, At
    <3>3. QED
      BY <2>1, <3>1, <3>2 DEF ServoInv
  <2>4. QED
    BY <2>1, <2>2, <2>3, ReturnsAll
<1>5. CASE ResetServo(m)
  BY <1>5, ResetsServos
<1>6. CASE \E s \in Servo : MoveServo(m, s)
  BY <1>6, MovesServos
<1>7. QED
  BY <1>1, <1>2, <1>3, <1>4, <1>5, <1>6 DEF Moves

LEMMA CommandsKeep == ASSUME TypeOK, ServoInv, Commands PROVE ServoInv'
<1>0. "controller" \in Mover
  BY DEF Mover
<1>1. CASE AnimationCommand \/ CustomCommand \/ \E new \in Modes : ModeSaved(new)
  <2>1. /\ \A n \in Mover : n # "controller" => mover'[n] = mover[n]
        /\ mover["controller"].step = "idle"
    BY <1>0, <1>1, GoesTo, CommandSteps DEF Mover
  <2>2. mover'["controller"].step \notin {"resetting"}
    BY CommandSteps
  <2>3. Clean' = Clean /\ Target' = Target /\ pose' = pose
    BY <1>1 DEF AnimationCommand, CustomCommand, ModeSaved, Clean, Target
  <2>4. QED
    BY <2>1, <2>2, <2>3, Kept
<1>2. CASE \E cal \in Calibration : CalibrationSaved(cal)
  <2>1. PICK cal \in Calibration : CalibrationSaved(cal)
    BY <1>2
  <2>2. mover'["controller"].step = "reset" /\ OthersStay("controller")
    BY <1>0, <2>1, GoesTo DEF CalibrationSaved, Steps
  <2>3. Clean' => ~Overtakes
    BY <2>1 DEF CalibrationSaved, Clean, ModeMark
  <2>4. ASSUME Clean', NEW n \in Mover \ {"controller"} PROVE mover'[n].step # "resetting"
    BY <2>2, <2>3, <2>4 DEF Overtakes, OthersStay, At
  <2>5. QED
    BY <1>0, <2>2, <2>4, ReturnsAll
<1>3. CASE \E cal \in Calibration : CalibrationNotSaved(cal)
  <2>1. PICK cal \in Calibration : CalibrationNotSaved(cal)
    BY <1>3
  <2>2. mover' = mover /\ pose' = pose
    BY <2>1 DEF CalibrationNotSaved
  <2>3. CASE UNCHANGED <<calibration, marks>>
    <3>1. Clean' = Clean /\ Target' = Target
      BY <2>3 DEF Clean, Target
    <3>2. QED
      BY <2>2, <3>1, Kept
  <2>4. CASE calibration = NoNamespace /\ calibration' = NoKey /\ UNCHANGED marks
    <3>1. Clean' = Clean /\ Target' = Target
      BY <2>4, MoversAssumption DEF Clean, Target, AnyOffsets
    <3>2. QED
      BY <2>2, <3>1, Kept
  <2>5. CASE marks' = marks \cup {"not committed"}
    <3>1. ~Clean'
      BY <2>5 DEF Clean, ModeMark
    <3>2. QED
      BY <3>1 DEF ServoInv
  <2>6. QED
    BY <2>1, <2>3, <2>4, <2>5 DEF CalibrationNotSaved
<1>4. CASE \E new \in Modes : ModeNotSaved(new)
  <2>1. (Clean' => Clean) /\ Target' = Target /\ pose' = pose /\ mover' = mover
    BY <1>4 DEF ModeNotSaved, Clean, Target
  <2>2. QED
    BY <2>1, Kept
<1>5. QED
  BY <1>1, <1>2, <1>3, <1>4 DEF Commands

LEMMA ServoStep == ASSUME TypeOK, ModeInv, ServoInv, [Next]_vars PROVE ServoInv'
<1>0. "controller" \in Mover /\ "mode" \in Mover /\ "main" \in Mover
  BY DEF Mover
<1>1. CASE \E m \in Mover : Moves(m)
  BY <1>1, MovesKeep
<1>2. CASE Commands
  BY <1>2, CommandsKeep
<1>3. CASE StopMode
  <2>1. (Clean' => Clean) /\ Target' = Target /\ pose' = pose
    BY <1>3 DEF StopMode, Clean, Target
  <2>2. Clean' => mover["mode"].step \notin {"moving", "playing", "reset", "resetting"}
    BY <1>3 DEF StopMode, Clean, ModeMark, ModeInv, At
  <2>3. /\ mover'["mode"].step = "idle" /\ mover'["main"] = mover["main"]
        /\ mover["controller"].step \in {"restart", "stop"}
        /\ mover'["controller"].step \in {"start", "idle"}
    BY <1>3, Stops, IdleActivity DEF At
  <2>4. QED
    BY <2>1, <2>2, <2>3, Kept DEF Mover
<1>4. CASE StartMode
  <2>1. (Clean' => Clean) /\ Target' = Target /\ pose' = pose
    BY <1>4, StartsOrNot DEF Clean, Target
  <2>2. /\ mover'["main"] = mover["main"]
        /\ mover["controller"].step = "start" /\ mover'["controller"].step = "idle"
        /\ \/ mover["mode"].step = "idle" /\ mover'["mode"].step = "animate"
           \/ mover'["mode"] = mover["mode"]
    BY <1>4, StartsOrNot DEF ModeInv, At
  <2>3. QED
    BY <2>1, <2>2, Kept DEF Mover
<1>5. CASE Interval
  <2>1. (Clean' => Clean) /\ Target' = Target /\ pose' = pose
    BY <1>5 DEF Interval, Clean, Target
  <2>2. OthersStay("mode") /\ mover["mode"].step = "idle" /\ mover'["mode"].step = "animate"
    BY <1>0, <1>5, GoesTo DEF Interval, Steps, At
  <2>3. QED
    BY <2>1, <2>2, Kept DEF OthersStay
<1>6. CASE PowerLoss
  <2>1. mover'["main"].step = "reset" /\ \A n \in Mover \ {"main"} : mover'[n].step = "idle"
    BY <1>6, BootActivities, IdleActivity DEF PowerLoss, Mover
  <2>2. QED
    BY <1>0, <2>1, ReturnsAll
<1>7. CASE UNCHANGED vars
  <2>1. Clean' = Clean /\ Target' = Target /\ pose' = pose /\ mover' = mover
    BY <1>7 DEF vars, Clean, Target
  <2>2. QED
    BY <2>1, Kept
<1>8. QED
  BY <1>1, <1>2, <1>3, <1>4, <1>5, <1>6, <1>7 DEF Next
----------------------------------------------------------------------------
LEMMA InitInv == Init => IInv
<1> SUFFICES ASSUME Init PROVE IInv
  OBVIOUS
<1>1. mover \in [Mover -> Activity]
  BY BootActivities DEF Init
<1>2. /\ mover["main"].step = "reset" /\ mover["mode"].step = "idle"
      /\ mover["controller"].step = "idle"
  BY BootActivities, IdleActivity DEF Init
<1>3. TypeOK
  <2>1. pose \in [Servo -> [at : {"centre", "away"}, cal : AnyOffsets]]
    BY DEF Init, Centred, AnyOffsets
  <2>2. mode \in Modes
    BY DEF Init, NoMode, Modes
  <2>3. QED
    BY <1>1, <2>1, <2>2, MoversAssumption DEF Init, TypeOK
<1>4. ModeInv /\ RunsAsSaved
  BY <1>2 DEF Init, ModeInv, RunsAsSaved, At
<1>5. \A m \in Mover : ~At(m, {"resetting"})
  BY <1>2 DEF At, Mover
<1>6. \A s \in Servo : Pending("main", s)
  BY <1>2 DEF Pending, At
<1>7. ServoInv
  BY <1>5, <1>6 DEF ServoInv, Mover
<1>8. QED
  BY <1>3, <1>4, <1>7 DEF IInv

THEOREM Invariance == Spec => []IInv
<1>1. IInv /\ [Next]_vars => IInv'
  BY TypeStep, ModeStep, ServoStep DEF IInv
<1>2. QED
  BY <1>1, InitInv, PTL DEF Spec

(* The movers, the servos, the saved calibration and the saved mode keep   *)
(* their types (animation.c, servo.c, servo_calibration.c).                *)
THEOREM TypeCorrect == Spec => []TypeOK
<1>1. IInv => TypeOK
  BY DEF IInv
<1>2. QED
  BY <1>1, Invariance, PTL

(* Between commands a running animation-mode task runs at the frequency of *)
(* the saved mode, and none runs while that mode is off                    *)
(* (controller.c:370-403, animation.c:58-113).                             *)
THEOREM ModeAsSaved == Spec => []RunsAsSaved
<1>1. IInv => RunsAsSaved
  BY DEF IInv
<1>2. QED
  BY <1>1, Invariance, PTL

(* When nobody moves them, the ears stand at their centres by the saved    *)
(* calibration, unless one of the marks says otherwise                     *)
(* (servo.c:18-36, controller.c:472-486).                                  *)
THEOREM EarsAtRest == Spec => []AtRest
<1>1. IInv => AtRest
  <2> SUFFICES ASSUME IInv, \A m \in Mover : At(m, {"idle"}), Clean, NEW s \in Servo
               PROVE  pose[s].at = "centre" /\ pose[s].cal = Target
    BY DEF AtRest, Clean, Target
  <2>1. \A m \in Mover : ~Pending(m, s)
    BY DEF Pending, At
  <2>2. QED
    BY <2>1 DEF IInv, ServoInv, Settled
<1>2. QED
  BY <1>1, Invariance, PTL
=============================================================================
