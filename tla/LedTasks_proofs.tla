---------------------------- MODULE LedTasks_proofs ----------------------------
(***************************************************************************)
(* For every number of control blocks, polls and commands: at most one LED *)
(* task drives the strip, it stops only when told to, and nothing but what *)
(* StopsForAReason names stops the firmware.                               *)
(***************************************************************************)
EXTENDS LedTasks, FiniteSetTheorems, TLAPS

(* A caller that stops a task has found one, and polls it for as long as   *)
(* its counter allows; a handle is published only of a task that exists.   *)
CallerInv ==
    \A e \in Caller :
        /\ pc[e] \in {"signal", "poll", "force", "kill", "publish"} => target[e] \in Addr
        /\ pc[e] = "poll" => polls[e] < MaxPolls

TypeInv == TypeOK /\ CallerInv

(* The flag is up only while somebody stops a task.                        *)
FlagInv == led_task_should_stop
               => \E e \in Caller : pc[e] \in {"poll", "force", "kill", "clear", "start"}

(* app_main() makes the queue, then the mutex, in this order.              *)
BootInv == /\ ~command_queue => pc["main"] = "boot"
           /\ ~led_task_mutex => pc["main"] \in {"boot", "init"}

(* Until init_leds() has returned, the controller has nothing to do unless *)
(* a client was early.                                                     *)
EarlyInv == "early" \notin marks /\ pc["main"] # "done" => pc["controller"] = "idle"

NoLedTask == \A a \in Addr : ~LedTask(a)

(* Whoever is about to create a LED task has seen the one before end, and  *)
(* the only one there is can be found: by its handle, or by the creator.   *)
StripInv ==
    "early" \notin marks =>
        /\ pc["main"] \in {"boot", "init", "load", "lower", "restore"}
               => led_task_handle = NULL /\ NoLedTask
        /\ \A e \in Caller :
              /\ pc[e] \in {"clear", "start", "save", "create"} => NoLedTask
              /\ pc[e] \in {"signal", "poll", "force", "kill"} => target[e] = led_task_handle
              /\ pc[e] = "publish" => \A a \in Addr : LedTask(a) => a = target[e]
        /\ \/ \E e \in Caller : pc[e] = "publish"
           \/ \A a \in Addr : LedTask(a) => a = led_task_handle

(* As long as nothing has been marked, a task that is about to be deleted  *)
(* is a live one of its kind.                                              *)
LiveInv ==
    marks = {} =>
        /\ \A e \in Caller : pc[e] = "kill" => LedTask(target[e])
        /\ mode_task_handle # NULL => tcb[mode_task_handle] = "mode"

IInv == TypeInv /\ FlagInv /\ BootInv /\ EarlyInv /\ StripInv /\ LiveInv /\ StopsForAReason
----------------------------------------------------------------------------
(* Types.                                                                  *)

(* The counter of the polls of led_stop_current_task().                    *)
LEMMA PollCounter ==
    ASSUME NEW f \in [Caller -> 0..MaxPolls], NEW e \in Caller
    PROVE  /\ [f EXCEPT ![e] = 0] \in [Caller -> 0..MaxPolls]
           /\ [f EXCEPT ![e] = 0][e] < MaxPolls
           /\ f[e] < MaxPolls => [f EXCEPT ![e] = @ + 1] \in [Caller -> 0..MaxPolls]
           /\ f[e] < MaxPolls /\ f[e] + 1 # MaxPolls => [f EXCEPT ![e] = @ + 1][e] < MaxPolls
<1>1. MaxPolls \in Nat /\ 0 < MaxPolls
  BY BoundsAssumption
<1>2. f[e] \in 0..MaxPolls /\ f[e] \in Nat
  BY <1>1
<1>3. 0 \in 0..MaxPolls /\ (f[e] < MaxPolls => f[e] + 1 \in 0..MaxPolls)
  BY <1>1, <1>2
<1>4. QED
  BY <1>1, <1>2, <1>3

LEMMA TypeStep == TypeInv /\ [Next]_vars => TypeInv'
<1> SUFFICES ASSUME TypeInv, [Next]_vars PROVE TypeInv'
  OBVIOUS
<1> USE DEF TypeInv, TypeOK, CallerInv, Light, Goto, At, ledVars, created, callVars
<1>1. ASSUME NEW e \in Caller, StopReadsHandle(e)
      PROVE  TypeInv'
  <2>1. CASE led_task_mutex
    <3>1. target' = [target EXCEPT ![e] = led_task_handle]
      BY <1>1, <2>1 DEF StopReadsHandle
    <3>2. CASE led_task_handle = NULL
      <4>1. pc' = [pc EXCEPT ![e] = "start"]
        BY <1>1, <2>1, <3>2 DEF StopReadsHandle
      <4>2. QED
        BY <1>1, <3>1, <4>1 DEF StopReadsHandle
    <3>3. CASE led_task_handle # NULL
      <4>1. pc' = [pc EXCEPT ![e] = "signal"]
        BY <1>1, <2>1, <3>3 DEF StopReadsHandle
      <4>2. QED
        BY <1>1, <3>1, <3>3, <4>1 DEF StopReadsHandle
    <3>4. QED
      BY <3>2, <3>3
  <2>2. CASE ~led_task_mutex
    BY <1>1, <2>2 DEF StopReadsHandle
  <2>3. QED
    BY <2>1, <2>2
<1>2. ASSUME NEW e \in Caller, StopSignals(e)
      PROVE  TypeInv'
  <2>1. /\ polls' = [polls EXCEPT ![e] = 0] /\ pc' = [pc EXCEPT ![e] = "poll"]
        /\ pc[e] = "signal" /\ led_task_should_stop' = TRUE
        /\ UNCHANGED <<tcb, led_task_handle, led_task_mutex, command_queue, saved,
                       mode_task_handle, target, light, marks>>
    BY <1>2 DEF StopSignals
  <2>2. /\ polls' \in [Caller -> 0..MaxPolls] /\ polls'[e] < MaxPolls
        /\ \A c \in Caller : c # e => polls'[c] = polls[c]
    BY <2>1, PollCounter
  <2>3. TypeOK'
    BY <2>1, <2>2
  <2>4. CallerInv'
    BY <2>1, <2>2
  <2>5. QED
    BY <2>3, <2>4
<1>3. ASSUME NEW e \in Caller, StopPolls(e)
      PROVE  TypeInv'
  <2>0. /\ polls' = [polls EXCEPT ![e] = @ + 1] /\ pc[e] = "poll"
        /\ UNCHANGED <<tcb, ledVars, mode_task_handle, target, light, commands, marks, fault>>
    BY <1>3, Zenon DEF StopPolls
  <2>1. UNCHANGED <<tcb, led_task_handle, led_task_should_stop, led_task_mutex,
                    command_queue, saved, mode_task_handle, target, light, marks>>
    BY <2>0
  <2>2. PICK l \in {"clear", "force", "poll"} :
           /\ pc' = [pc EXCEPT ![e] = l]
           /\ l = "poll" => polls[e] + 1 # MaxPolls
    <3>1. CASE Deleted(target[e])
      BY <1>3, <3>1 DEF StopPolls
    <3>2. CASE ~Deleted(target[e]) /\ polls[e] + 1 = MaxPolls
      BY <1>3, <3>2 DEF StopPolls
    <3>3. CASE ~Deleted(target[e]) /\ polls[e] + 1 # MaxPolls
      BY <1>3, <3>3 DEF StopPolls
    <3>4. QED
      BY <3>1, <3>2, <3>3
  <2>3. /\ polls' \in [Caller -> 0..MaxPolls]
        /\ polls[e] + 1 # MaxPolls => polls'[e] < MaxPolls
    <3>1. polls \in [Caller -> 0..MaxPolls] /\ polls[e] < MaxPolls
      BY <2>0
    <3>2. QED
      BY <2>0, <3>1, PollCounter, Zenon
  <2>4. TypeOK'
    BY <2>1, <2>2, <2>3
  <2>5. CallerInv'
    <3>1. \A c \in Caller : c # e => polls'[c] = polls[c]
      BY <2>0
    <3>2. QED
      BY <2>0, <2>1, <2>2, <2>3, <3>1
  <2>6. QED
    BY <2>4, <2>5
<1>4. ASSUME NEW e \in Caller, StopForces(e)
      PROVE  TypeInv'
  <2>1. TypeOK'
    BY <1>4, BoundsAssumption DEF StopForces
  <2>2. CallerInv'
    BY <1>4 DEF StopForces
  <2>3. QED
    BY <2>1, <2>2
<1>5. ASSUME NEW e \in Caller, StopKills(e)
      PROVE  TypeInv'
  <2>1. TypeOK'
    BY <1>5, BoundsAssumption DEF StopKills, Kill
  <2>2. CallerInv'
    BY <1>5 DEF StopKills, Kill
  <2>3. QED
    BY <2>1, <2>2
<1>6. ASSUME NEW e \in Caller, StopClears(e)
      PROVE  TypeInv'
  <2>1. TypeOK'
    BY <1>6, BoundsAssumption DEF StopClears
  <2>2. CallerInv'
    BY <1>6 DEF StopClears
  <2>3. QED
    BY <2>1, <2>2
<1>7. ASSUME NEW e \in Caller, StartLowersFlag(e)
      PROVE  TypeInv'
  <2>1. TypeOK'
    BY <1>7, BoundsAssumption DEF StartLowersFlag
  <2>2. CallerInv'
    BY <1>7 DEF StartLowersFlag
  <2>3. QED
    BY <2>1, <2>2
<1>8. ASSUME NEW e \in Caller, StartSaves(e)
      PROVE  TypeInv'
  <2>1. TypeOK'
    BY <1>8, BoundsAssumption DEF StartSaves
  <2>2. CallerInv'
    BY <1>8 DEF StartSaves
  <2>3. QED
    BY <2>1, <2>2
<1>9. ASSUME NEW e \in Caller, StartCreates(e)
      PROVE  TypeInv'
  <2>1. PICK l \in {"publish", "done", "idle"} : pc' = [pc EXCEPT ![e] = l]
    BY <1>9 DEF StartCreates, Ends
  <2>2. tcb' \in [Addr -> Light \cup {"free", "ended", "mode"}] /\ target' \in [Caller -> Addr \cup {NULL}]
    <3>1. CASE UNCHANGED <<tcb, target>>
      BY <3>1
    <3>2. ASSUME NEW a \in Addr, tcb' = [tcb EXCEPT ![a] = light[e]],
                 target' = [target EXCEPT ![e] = a]
          PROVE  /\ tcb' \in [Addr -> Light \cup {"free", "ended", "mode"}]
                 /\ target' \in [Caller -> Addr \cup {NULL}]
      BY <3>2
    <3>3. QED
      BY <1>9, <3>1, <3>2 DEF StartCreates, Created
  <2>3. TypeOK'
    BY <1>9, <2>1, <2>2 DEF StartCreates
  <2>4. CallerInv'
    BY <1>9 DEF StartCreates, Created, Ends
  <2>5. QED
    BY <2>3, <2>4
<1>10. ASSUME NEW e \in Caller, StartPublishes(e)
      PROVE  TypeInv'
  <2>1. TypeOK'
    BY <1>10, BoundsAssumption DEF StartPublishes, Ends
  <2>2. CallerInv'
    BY <1>10 DEF StartPublishes, Ends
  <2>3. QED
    BY <2>1, <2>2
<1>11. ASSUME NEW l \in Light, LightingCommand(l)
      PROVE  TypeInv'
  <2>1. TypeOK'
    BY <1>11, BoundsAssumption DEF LightingCommand, Caller, ClientActs
  <2>2. CallerInv'
    BY <1>11 DEF LightingCommand, Caller, ClientActs
  <2>3. QED
    BY <2>1, <2>2
<1>12. CASE ControllerInit
  <2>1. TypeOK'
    BY <1>12, BoundsAssumption DEF ControllerInit, Caller
  <2>2. CallerInv'
    BY <1>12 DEF ControllerInit, Caller
  <2>3. QED
    BY <2>1, <2>2
<1>13. CASE InitMutex
  <2>1. TypeOK'
    BY <1>13, BoundsAssumption DEF InitMutex, Caller
  <2>2. CallerInv'
    BY <1>13 DEF InitMutex, Caller
  <2>3. QED
    BY <2>1, <2>2
<1>14. CASE InitLoads
  <2>1. PICK l \in {"stop", "done", "lower"} : pc' = [pc EXCEPT !["main"] = l]
    BY <1>14 DEF InitLoads
  <2>2. light' \in [Caller -> Light]
    BY <1>14 DEF InitLoads, Caller
  <2>3. QED
    BY <1>14, <2>1, <2>2 DEF InitLoads, Caller
<1>15. CASE InitLowersFlag
  <2>1. TypeOK'
    BY <1>15, BoundsAssumption DEF InitLowersFlag, Caller
  <2>2. CallerInv'
    BY <1>15 DEF InitLowersFlag, Caller
  <2>3. QED
    BY <2>1, <2>2
<1>16. CASE InitRestores
  <2>1. TypeOK'
    BY <1>16, BoundsAssumption DEF InitRestores, Caller, Created
  <2>2. CallerInv'
    BY <1>16 DEF InitRestores, Caller, Created
  <2>3. QED
    BY <2>1, <2>2
<1>17. CASE WriteTooEarly
  <2>1. TypeOK'
    BY <1>17, BoundsAssumption DEF WriteTooEarly, ClientActs
  <2>2. CallerInv'
    BY <1>17 DEF WriteTooEarly, ClientActs
  <2>3. QED
    BY <2>1, <2>2
<1>18. CASE DisconnectEvt
  BY <1>18, BoundsAssumption DEF DisconnectEvt
<1>19. CASE ModeCommand
  <2>1. tcb' \in [Addr -> Light \cup {"free", "ended", "mode"}]
    BY <1>19 DEF ModeCommand, Kill
  <2>2. pc' \in {pc, [pc EXCEPT !["controller"] = "mode"]}
    BY <1>19 DEF ModeCommand
  <2>3. marks' \subseteq {"early", "foreign", "exits late"}
    BY <1>19 DEF ModeCommand, ClientActs
  <2>4. TypeOK'
    BY <1>19, <2>1, <2>2, <2>3 DEF ModeCommand, Caller
  <2>5. CallerInv'
    BY <1>19, <2>2 DEF ModeCommand, Caller
  <2>6. QED
    BY <2>4, <2>5
<1>20. CASE StartMode
  <2>1. TypeOK'
    BY <1>20, BoundsAssumption DEF StartMode, Caller, Created
  <2>2. CallerInv'
    BY <1>20 DEF StartMode, Caller, Created
  <2>3. QED
    BY <2>1, <2>2
<1>21. ASSUME NEW a \in Addr, LedExits(a)
      PROVE  TypeInv'
  BY <1>21, BoundsAssumption DEF LedExits
<1>22. ASSUME NEW a \in Addr, IdleFrees(a)
      PROVE  TypeInv'
  BY <1>22, BoundsAssumption DEF IdleFrees
<1>23. CASE UNCHANGED vars
  BY <1>23, BoundsAssumption DEF vars
<1>24. QED
  BY <1>1, <1>2, <1>3, <1>4, <1>5, <1>6, <1>7, <1>8, <1>9, <1>10, <1>11,
     <1>12, <1>13, <1>14, <1>15, <1>16, <1>17, <1>18, <1>19, <1>20,
     <1>21, <1>22, <1>23
     DEF Next, Main, LedStart

(* The flag.                                                               *)
LEMMA FlagStep == TypeInv /\ FlagInv /\ [Next]_vars => FlagInv'
<1> SUFFICES ASSUME TypeInv, FlagInv, [Next]_vars PROVE FlagInv'
  OBVIOUS
<1> USE DEF TypeInv, TypeOK, FlagInv, Goto, At, ledVars, created, callVars
<1>1. ASSUME NEW e \in Caller, StopReadsHandle(e)
      PROVE  FlagInv'
  BY <1>1 DEF StopReadsHandle
<1>2. ASSUME NEW e \in Caller, StopSignals(e)
      PROVE  FlagInv'
  BY <1>2 DEF StopSignals
<1>3. ASSUME NEW e \in Caller, StopPolls(e)
      PROVE  FlagInv'
  BY <1>3 DEF StopPolls
<1>4. ASSUME NEW e \in Caller, StopForces(e)
      PROVE  FlagInv'
  BY <1>4 DEF StopForces
<1>5. ASSUME NEW e \in Caller, StopKills(e)
      PROVE  FlagInv'
  BY <1>5 DEF StopKills, Kill
<1>6. ASSUME NEW e \in Caller, StopClears(e)
      PROVE  FlagInv'
  BY <1>6 DEF StopClears
<1>7. ASSUME NEW e \in Caller, StartLowersFlag(e)
      PROVE  FlagInv'
  BY <1>7 DEF StartLowersFlag
<1>8. ASSUME NEW e \in Caller, StartSaves(e)
      PROVE  FlagInv'
  BY <1>8 DEF StartSaves
<1>9. ASSUME NEW e \in Caller, StartCreates(e)
      PROVE  FlagInv'
  BY <1>9 DEF StartCreates, Created, Ends
<1>10. ASSUME NEW e \in Caller, StartPublishes(e)
      PROVE  FlagInv'
  BY <1>10 DEF StartPublishes, Ends
<1>11. ASSUME NEW l \in Light, LightingCommand(l)
      PROVE  FlagInv'
  BY <1>11 DEF LightingCommand, Caller, ClientActs
<1>12. CASE ControllerInit
  BY <1>12 DEF ControllerInit, Caller
<1>13. CASE InitMutex
  BY <1>13 DEF InitMutex, Caller
<1>14. CASE InitLoads
  BY <1>14 DEF InitLoads, Caller
<1>15. CASE InitLowersFlag
  BY <1>15 DEF InitLowersFlag, Caller
<1>16. CASE InitRestores
  BY <1>16 DEF InitRestores, Caller, Created
<1>17. CASE WriteTooEarly
  BY <1>17 DEF WriteTooEarly, ClientActs
<1>18. CASE DisconnectEvt
  BY <1>18 DEF DisconnectEvt
<1>19. CASE ModeCommand
  BY <1>19 DEF ModeCommand, Caller, ClientActs, Kill
<1>20. CASE StartMode
  BY <1>20 DEF StartMode, Caller, Created
<1>21. ASSUME NEW a \in Addr, LedExits(a)
      PROVE  FlagInv'
  BY <1>21 DEF LedExits
<1>22. ASSUME NEW a \in Addr, IdleFrees(a)
      PROVE  FlagInv'
  BY <1>22 DEF IdleFrees
<1>23. CASE UNCHANGED vars
  BY <1>23 DEF vars
<1>24. QED
  BY <1>1, <1>2, <1>3, <1>4, <1>5, <1>6, <1>7, <1>8, <1>9, <1>10, <1>11,
     <1>12, <1>13, <1>14, <1>15, <1>16, <1>17, <1>18, <1>19, <1>20,
     <1>21, <1>22, <1>23
     DEF Next, Main, LedStart

(* The queue and the mutex.                                                *)
LEMMA BootStep == TypeInv /\ BootInv /\ [Next]_vars => BootInv'
<1> SUFFICES ASSUME TypeInv, BootInv, [Next]_vars PROVE BootInv'
  OBVIOUS
<1> USE DEF TypeInv, TypeOK, BootInv, Caller, Goto, At, ledVars, created, callVars
<1>1. ASSUME NEW e \in Caller, StopReadsHandle(e)
      PROVE  BootInv'
  BY <1>1 DEF StopReadsHandle
<1>2. ASSUME NEW e \in Caller, StopSignals(e)
      PROVE  BootInv'
  BY <1>2 DEF StopSignals
<1>3. ASSUME NEW e \in Caller, StopPolls(e)
      PROVE  BootInv'
  BY <1>3 DEF StopPolls
<1>4. ASSUME NEW e \in Caller, StopForces(e)
      PROVE  BootInv'
  BY <1>4 DEF StopForces
<1>5. ASSUME NEW e \in Caller, StopKills(e)
      PROVE  BootInv'
  BY <1>5 DEF StopKills, Kill
<1>6. ASSUME NEW e \in Caller, StopClears(e)
      PROVE  BootInv'
  BY <1>6 DEF StopClears
<1>7. ASSUME NEW e \in Caller, StartLowersFlag(e)
      PROVE  BootInv'
  BY <1>7 DEF StartLowersFlag
<1>8. ASSUME NEW e \in Caller, StartSaves(e)
      PROVE  BootInv'
  BY <1>8 DEF StartSaves
<1>9. ASSUME NEW e \in Caller, StartCreates(e)
      PROVE  BootInv'
  BY <1>9 DEF StartCreates, Created, Ends
<1>10. ASSUME NEW e \in Caller, StartPublishes(e)
      PROVE  BootInv'
  BY <1>10 DEF StartPublishes, Ends
<1>11. ASSUME NEW l \in Light, LightingCommand(l)
      PROVE  BootInv'
  BY <1>11 DEF LightingCommand, Caller, ClientActs
<1>12. CASE ControllerInit
  BY <1>12 DEF ControllerInit, Caller
<1>13. CASE InitMutex
  BY <1>13 DEF InitMutex, Caller
<1>14. CASE InitLoads
  BY <1>14 DEF InitLoads, Caller
<1>15. CASE InitLowersFlag
  BY <1>15 DEF InitLowersFlag, Caller
<1>16. CASE InitRestores
  BY <1>16 DEF InitRestores, Caller, Created
<1>17. CASE WriteTooEarly
  BY <1>17 DEF WriteTooEarly, ClientActs
<1>18. CASE DisconnectEvt
  BY <1>18 DEF DisconnectEvt
<1>19. CASE ModeCommand
  BY <1>19 DEF ModeCommand, Caller, ClientActs, Kill
<1>20. CASE StartMode
  BY <1>20 DEF StartMode, Caller, Created
<1>21. ASSUME NEW a \in Addr, LedExits(a)
      PROVE  BootInv'
  BY <1>21 DEF LedExits
<1>22. ASSUME NEW a \in Addr, IdleFrees(a)
      PROVE  BootInv'
  BY <1>22 DEF IdleFrees
<1>23. CASE UNCHANGED vars
  BY <1>23 DEF vars
<1>24. QED
  BY <1>1, <1>2, <1>3, <1>4, <1>5, <1>6, <1>7, <1>8, <1>9, <1>10, <1>11,
     <1>12, <1>13, <1>14, <1>15, <1>16, <1>17, <1>18, <1>19, <1>20,
     <1>21, <1>22, <1>23
     DEF Next, Main, LedStart

(* Commands before the end of init_leds().                                 *)
LEMMA EarlyStep == TypeInv /\ BootInv /\ EarlyInv /\ [Next]_vars => EarlyInv'
<1> SUFFICES ASSUME TypeInv, BootInv, EarlyInv, [Next]_vars PROVE EarlyInv'
  OBVIOUS
<1> USE DEF TypeInv, TypeOK, BootInv, EarlyInv, Caller, Goto, At, ledVars, created, callVars
<1>1. ASSUME NEW e \in Caller, StopReadsHandle(e)
      PROVE  EarlyInv'
  BY <1>1 DEF StopReadsHandle
<1>2. ASSUME NEW e \in Caller, StopSignals(e)
      PROVE  EarlyInv'
  BY <1>2 DEF StopSignals
<1>3. ASSUME NEW e \in Caller, StopPolls(e)
      PROVE  EarlyInv'
  BY <1>3 DEF StopPolls
<1>4. ASSUME NEW e \in Caller, StopForces(e)
      PROVE  EarlyInv'
  BY <1>4 DEF StopForces
<1>5. ASSUME NEW e \in Caller, StopKills(e)
      PROVE  EarlyInv'
  BY <1>5 DEF StopKills, Kill
<1>6. ASSUME NEW e \in Caller, StopClears(e)
      PROVE  EarlyInv'
  BY <1>6 DEF StopClears
<1>7. ASSUME NEW e \in Caller, StartLowersFlag(e)
      PROVE  EarlyInv'
  BY <1>7 DEF StartLowersFlag
<1>8. ASSUME NEW e \in Caller, StartSaves(e)
      PROVE  EarlyInv'
  BY <1>8 DEF StartSaves
<1>9. ASSUME NEW e \in Caller, StartCreates(e)
      PROVE  EarlyInv'
  BY <1>9 DEF StartCreates, Created, Ends
<1>10. ASSUME NEW e \in Caller, StartPublishes(e)
      PROVE  EarlyInv'
  BY <1>10 DEF StartPublishes, Ends
<1>11. ASSUME NEW l \in Light, LightingCommand(l)
      PROVE  EarlyInv'
  BY <1>11 DEF LightingCommand, Caller, ClientActs
<1>12. CASE ControllerInit
  BY <1>12 DEF ControllerInit, Caller
<1>13. CASE InitMutex
  BY <1>13 DEF InitMutex, Caller
<1>14. CASE InitLoads
  BY <1>14 DEF InitLoads, Caller
<1>15. CASE InitLowersFlag
  BY <1>15 DEF InitLowersFlag, Caller
<1>16. CASE InitRestores
  BY <1>16 DEF InitRestores, Caller, Created
<1>17. CASE WriteTooEarly
  BY <1>17 DEF WriteTooEarly, ClientActs
<1>18. CASE DisconnectEvt
  BY <1>18 DEF DisconnectEvt
<1>19. CASE ModeCommand
  BY <1>19 DEF ModeCommand, Caller, ClientActs, Kill
<1>20. CASE StartMode
  BY <1>20 DEF StartMode, Caller, Created
<1>21. ASSUME NEW a \in Addr, LedExits(a)
      PROVE  EarlyInv'
  BY <1>21 DEF LedExits
<1>22. ASSUME NEW a \in Addr, IdleFrees(a)
      PROVE  EarlyInv'
  BY <1>22 DEF IdleFrees
<1>23. CASE UNCHANGED vars
  BY <1>23 DEF vars
<1>24. QED
  BY <1>1, <1>2, <1>3, <1>4, <1>5, <1>6, <1>7, <1>8, <1>9, <1>10, <1>11,
     <1>12, <1>13, <1>14, <1>15, <1>16, <1>17, <1>18, <1>19, <1>20,
     <1>21, <1>22, <1>23
     DEF Next, Main, LedStart

(* The strip.                                                              *)
LEMMA StripStep == TypeInv /\ BootInv /\ EarlyInv /\ StripInv /\ [Next]_vars => StripInv'
<1> SUFFICES ASSUME TypeInv, BootInv, EarlyInv, StripInv, [Next]_vars PROVE StripInv'
  OBVIOUS
<1> USE DEF TypeInv, TypeOK, CallerInv, EarlyInv, StripInv, NoLedTask, Deleted, Caller, Light, LedTask, Goto, At, ledVars, created, callVars
<1>1. ASSUME NEW e \in Caller, StopReadsHandle(e)
      PROVE  StripInv'
  <2> SUFFICES ASSUME "early" \notin marks PROVE StripInv'
    BY <1>1 DEF StopReadsHandle
  <2>1. \A c \in Caller : c # e => pc[c] \in {"idle", "done"}
    BY <1>1 DEF StopReadsHandle
  <2>2. \A a \in Addr : LedTask(a) => a = led_task_handle
    BY <1>1, <2>1 DEF StopReadsHandle
  <2>3. CASE ~led_task_mutex
    BY <1>1, <2>3 DEF StopReadsHandle
  <2>4. CASE led_task_mutex /\ led_task_handle = NULL
    <3>1. NoLedTask /\ pc' = [pc EXCEPT ![e] = "start"]
      BY <1>1, <2>2, <2>4, BoundsAssumption DEF StopReadsHandle
    <3>2. QED
      BY <1>1, <2>1, <2>2, <3>1 DEF StopReadsHandle
  <2>5. CASE led_task_mutex /\ led_task_handle # NULL
    <3>1. /\ target' = [target EXCEPT ![e] = led_task_handle]
          /\ pc' = [pc EXCEPT ![e] = "signal"]
      BY <1>1, <2>5 DEF StopReadsHandle
    <3>2. QED
      BY <1>1, <2>1, <2>2, <3>1 DEF StopReadsHandle
  <2>6. QED
    BY <2>3, <2>4, <2>5
<1>2. ASSUME NEW e \in Caller, StopSignals(e)
      PROVE  StripInv'
  BY <1>2, BoundsAssumption DEF StopSignals
<1>3. ASSUME NEW e \in Caller, StopPolls(e)
      PROVE  StripInv'
  BY <1>3, BoundsAssumption DEF StopPolls
<1>4. ASSUME NEW e \in Caller, StopForces(e)
      PROVE  StripInv'
  BY <1>4, BoundsAssumption DEF StopForces
<1>5. ASSUME NEW e \in Caller, StopKills(e)
      PROVE  StripInv'
  <2> SUFFICES ASSUME "early" \notin marks PROVE StripInv'
    BY <1>5 DEF StopKills
  <2>1. \A c \in Caller : c # e => pc[c] \in {"idle", "done"}
    BY <1>5 DEF StopKills
  <2>2. target[e] \in Addr /\ \A a \in Addr : LedTask(a) => a = target[e]
    BY <1>5, <2>1 DEF StopKills
  <2>3. NoLedTask'
    <3>1. CASE Deleted(target[e]) /\ UNCHANGED tcb
      BY <2>2, <3>1
    <3>2. CASE tcb' = [tcb EXCEPT ![target[e]] = "ended"]
      BY <2>2, <3>2
    <3>3. QED
      BY <1>5, <3>1, <3>2 DEF StopKills, Kill
  <2>4. QED
    BY <1>5, <2>1, <2>3 DEF StopKills
<1>6. ASSUME NEW e \in Caller, StopClears(e)
      PROVE  StripInv'
  BY <1>6, BoundsAssumption DEF StopClears
<1>7. ASSUME NEW e \in Caller, StartLowersFlag(e)
      PROVE  StripInv'
  BY <1>7, BoundsAssumption DEF StartLowersFlag
<1>8. ASSUME NEW e \in Caller, StartSaves(e)
      PROVE  StripInv'
  BY <1>8, BoundsAssumption DEF StartSaves
<1>9. ASSUME NEW e \in Caller, StartCreates(e)
      PROVE  StripInv'
  <2> SUFFICES ASSUME "early" \notin marks PROVE StripInv'
    BY <1>9 DEF StartCreates
  <2>1. NoLedTask /\ \A c \in Caller : c # e => pc[c] \in {"idle", "done"}
    BY <1>9 DEF StartCreates
  <2>2. ASSUME NEW a \in Addr, Created(a, light[e]), target' = [target EXCEPT ![e] = a],
               pc' = [pc EXCEPT ![e] = "publish"]
        PROVE  StripInv'
    <3>1. \A b \in Addr : LedTask(b)' => b = a
      BY <2>1, <2>2 DEF Created
    <3>2. QED
      BY <1>9, <2>1, <2>2, <3>1 DEF StartCreates
  <2>3. CASE Ends(e) /\ UNCHANGED <<tcb, target>>
    BY <1>9, <2>1, <2>3 DEF StartCreates, Ends
  <2>4. QED
    BY <1>9, <2>2, <2>3 DEF StartCreates
<1>10. ASSUME NEW e \in Caller, StartPublishes(e)
      PROVE  StripInv'
  BY <1>10, BoundsAssumption DEF StartPublishes, Ends
<1>11. ASSUME NEW l \in Light, LightingCommand(l)
      PROVE  StripInv'
  BY <1>11, BoundsAssumption DEF LightingCommand, Caller, ClientActs
<1>12. CASE ControllerInit
  BY <1>12, BoundsAssumption DEF ControllerInit, Caller
<1>13. CASE InitMutex
  BY <1>13, BoundsAssumption DEF InitMutex, Caller
<1>14. CASE InitLoads
  BY <1>14, BoundsAssumption DEF InitLoads, Caller
<1>15. CASE InitLowersFlag
  BY <1>15, BoundsAssumption DEF InitLowersFlag, Caller
<1>16. CASE InitRestores
  BY <1>16, BoundsAssumption DEF InitRestores, Caller, Created
<1>17. CASE WriteTooEarly
  BY <1>17, BoundsAssumption DEF WriteTooEarly, ClientActs
<1>18. CASE DisconnectEvt
  BY <1>18, BoundsAssumption DEF DisconnectEvt
<1>19. CASE ModeCommand
  <2>1. \A a \in Addr : LedTask(a)' => LedTask(a)
    BY <1>19 DEF ModeCommand, Kill
  <2>2. pc' \in {pc, [pc EXCEPT !["controller"] = "mode"]} /\ pc["controller"] = "idle"
    BY <1>19 DEF ModeCommand
  <2>3. UNCHANGED <<led_task_handle, target>> /\ marks \subseteq marks'
    BY <1>19 DEF ModeCommand, ClientActs
  <2>4. /\ pc'["main"] = pc["main"]
        /\ pc'["controller"] \in {"idle", "mode"}
    BY <2>2
  <2>5. NoLedTask => NoLedTask'
    BY <2>1
  <2>6. QED
    BY <2>1, <2>2, <2>3, <2>4, <2>5
<1>20. CASE StartMode
  BY <1>20, BoundsAssumption DEF StartMode, Caller, Created
<1>21. ASSUME NEW a \in Addr, LedExits(a)
      PROVE  StripInv'
  BY <1>21, BoundsAssumption DEF LedExits
<1>22. ASSUME NEW a \in Addr, IdleFrees(a)
      PROVE  StripInv'
  BY <1>22, BoundsAssumption DEF IdleFrees
<1>23. CASE UNCHANGED vars
  BY <1>23, BoundsAssumption DEF vars
<1>24. QED
  BY <1>1, <1>2, <1>3, <1>4, <1>5, <1>6, <1>7, <1>8, <1>9, <1>10, <1>11,
     <1>12, <1>13, <1>14, <1>15, <1>16, <1>17, <1>18, <1>19, <1>20,
     <1>21, <1>22, <1>23
     DEF Next, Main, LedStart

(* The tasks that can be deleted.                                          *)
LEMMA LiveStep == TypeInv /\ BootInv /\ EarlyInv /\ LiveInv /\ [Next]_vars => LiveInv'
<1> SUFFICES ASSUME TypeInv, BootInv, EarlyInv, LiveInv, [Next]_vars PROVE LiveInv'
  OBVIOUS
<1> USE DEF TypeInv, TypeOK, CallerInv, EarlyInv, LiveInv, Deleted, Caller, Light, LedTask, Goto, At, ledVars, created, callVars
<1>1. ASSUME NEW e \in Caller, StopReadsHandle(e)
      PROVE  LiveInv'
  BY <1>1, BoundsAssumption DEF StopReadsHandle
<1>2. ASSUME NEW e \in Caller, StopSignals(e)
      PROVE  LiveInv'
  BY <1>2, BoundsAssumption DEF StopSignals
<1>3. ASSUME NEW e \in Caller, StopPolls(e)
      PROVE  LiveInv'
  BY <1>3, BoundsAssumption DEF StopPolls
<1>4. ASSUME NEW e \in Caller, StopForces(e)
      PROVE  LiveInv'
  BY <1>4, BoundsAssumption DEF StopForces
<1>5. ASSUME NEW e \in Caller, StopKills(e)
      PROVE  LiveInv'
  BY <1>5, BoundsAssumption DEF StopKills, Kill
<1>6. ASSUME NEW e \in Caller, StopClears(e)
      PROVE  LiveInv'
  BY <1>6, BoundsAssumption DEF StopClears
<1>7. ASSUME NEW e \in Caller, StartLowersFlag(e)
      PROVE  LiveInv'
  BY <1>7, BoundsAssumption DEF StartLowersFlag
<1>8. ASSUME NEW e \in Caller, StartSaves(e)
      PROVE  LiveInv'
  BY <1>8, BoundsAssumption DEF StartSaves
<1>9. ASSUME NEW e \in Caller, StartCreates(e)
      PROVE  LiveInv'
  BY <1>9, BoundsAssumption DEF StartCreates, Created, Ends
<1>10. ASSUME NEW e \in Caller, StartPublishes(e)
      PROVE  LiveInv'
  BY <1>10, BoundsAssumption DEF StartPublishes, Ends
<1>11. ASSUME NEW l \in Light, LightingCommand(l)
      PROVE  LiveInv'
  BY <1>11, BoundsAssumption DEF LightingCommand, Caller, ClientActs
<1>12. CASE ControllerInit
  BY <1>12, BoundsAssumption DEF ControllerInit, Caller
<1>13. CASE InitMutex
  BY <1>13, BoundsAssumption DEF InitMutex, Caller
<1>14. CASE InitLoads
  BY <1>14, BoundsAssumption DEF InitLoads, Caller
<1>15. CASE InitLowersFlag
  BY <1>15, BoundsAssumption DEF InitLowersFlag, Caller
<1>16. CASE InitRestores
  BY <1>16, BoundsAssumption DEF InitRestores, Caller, Created
<1>17. CASE WriteTooEarly
  BY <1>17, BoundsAssumption DEF WriteTooEarly, ClientActs
<1>18. CASE DisconnectEvt
  BY <1>18, BoundsAssumption DEF DisconnectEvt
<1>19. CASE ModeCommand
  BY <1>19, BoundsAssumption DEF ModeCommand, Caller, ClientActs, Kill
<1>20. CASE StartMode
  BY <1>20, BoundsAssumption DEF StartMode, Caller, Created
<1>21. ASSUME NEW a \in Addr, LedExits(a)
      PROVE  LiveInv'
  BY <1>21, BoundsAssumption DEF LedExits
<1>22. ASSUME NEW a \in Addr, IdleFrees(a)
      PROVE  LiveInv'
  BY <1>22, BoundsAssumption DEF IdleFrees
<1>23. CASE UNCHANGED vars
  BY <1>23, BoundsAssumption DEF vars
<1>24. QED
  BY <1>1, <1>2, <1>3, <1>4, <1>5, <1>6, <1>7, <1>8, <1>9, <1>10, <1>11,
     <1>12, <1>13, <1>14, <1>15, <1>16, <1>17, <1>18, <1>19, <1>20,
     <1>21, <1>22, <1>23
     DEF Next, Main, LedStart

(* What stops the firmware.                                                *)
LEMMA ReasonStep == TypeInv /\ BootInv /\ EarlyInv /\ LiveInv /\ StopsForAReason /\ [Next]_vars => StopsForAReason'
<1> SUFFICES ASSUME TypeInv, BootInv, EarlyInv, LiveInv, StopsForAReason, [Next]_vars PROVE StopsForAReason'
  OBVIOUS
<1> USE DEF TypeInv, TypeOK, CallerInv, BootInv, EarlyInv, LiveInv, StopsForAReason, Caller, Light, LedTask,
       Deleted, Goto, At, ledVars, created, callVars
<1>1. ASSUME NEW e \in Caller, StopReadsHandle(e)
      PROVE  StopsForAReason'
  BY <1>1, BoundsAssumption DEF StopReadsHandle
<1>2. ASSUME NEW e \in Caller, StopSignals(e)
      PROVE  StopsForAReason'
  BY <1>2, BoundsAssumption DEF StopSignals
<1>3. ASSUME NEW e \in Caller, StopPolls(e)
      PROVE  StopsForAReason'
  BY <1>3, BoundsAssumption DEF StopPolls
<1>4. ASSUME NEW e \in Caller, StopForces(e)
      PROVE  StopsForAReason'
  BY <1>4, BoundsAssumption DEF StopForces
<1>5. ASSUME NEW e \in Caller, StopKills(e)
      PROVE  StopsForAReason'
  BY <1>5, BoundsAssumption DEF StopKills, Kill
<1>6. ASSUME NEW e \in Caller, StopClears(e)
      PROVE  StopsForAReason'
  BY <1>6, BoundsAssumption DEF StopClears
<1>7. ASSUME NEW e \in Caller, StartLowersFlag(e)
      PROVE  StopsForAReason'
  BY <1>7, BoundsAssumption DEF StartLowersFlag
<1>8. ASSUME NEW e \in Caller, StartSaves(e)
      PROVE  StopsForAReason'
  BY <1>8, BoundsAssumption DEF StartSaves
<1>9. ASSUME NEW e \in Caller, StartCreates(e)
      PROVE  StopsForAReason'
  BY <1>9, BoundsAssumption DEF StartCreates, Created, Ends
<1>10. ASSUME NEW e \in Caller, StartPublishes(e)
      PROVE  StopsForAReason'
  BY <1>10, BoundsAssumption DEF StartPublishes, Ends
<1>11. ASSUME NEW l \in Light, LightingCommand(l)
      PROVE  StopsForAReason'
  BY <1>11, BoundsAssumption DEF LightingCommand, Caller, ClientActs
<1>12. CASE ControllerInit
  BY <1>12, BoundsAssumption DEF ControllerInit, Caller
<1>13. CASE InitMutex
  BY <1>13, BoundsAssumption DEF InitMutex, Caller
<1>14. CASE InitLoads
  BY <1>14, BoundsAssumption DEF InitLoads, Caller
<1>15. CASE InitLowersFlag
  BY <1>15, BoundsAssumption DEF InitLowersFlag, Caller
<1>16. CASE InitRestores
  BY <1>16, BoundsAssumption DEF InitRestores, Caller, Created
<1>17. CASE WriteTooEarly
  BY <1>17, BoundsAssumption DEF WriteTooEarly, ClientActs
<1>18. CASE DisconnectEvt
  BY <1>18, BoundsAssumption DEF DisconnectEvt
<1>19. CASE ModeCommand
  BY <1>19, BoundsAssumption DEF ModeCommand, Caller, ClientActs, Kill
<1>20. CASE StartMode
  BY <1>20, BoundsAssumption DEF StartMode, Caller, Created
<1>21. ASSUME NEW a \in Addr, LedExits(a)
      PROVE  StopsForAReason'
  BY <1>21, BoundsAssumption DEF LedExits
<1>22. ASSUME NEW a \in Addr, IdleFrees(a)
      PROVE  StopsForAReason'
  BY <1>22, BoundsAssumption DEF IdleFrees
<1>23. CASE UNCHANGED vars
  BY <1>23, BoundsAssumption DEF vars
<1>24. QED
  BY <1>1, <1>2, <1>3, <1>4, <1>5, <1>6, <1>7, <1>8, <1>9, <1>10, <1>11,
     <1>12, <1>13, <1>14, <1>15, <1>16, <1>17, <1>18, <1>19, <1>20,
     <1>21, <1>22, <1>23
     DEF Next, Main, LedStart
----------------------------------------------------------------------------
LEMMA InitInv == Init => IInv
<1> SUFFICES ASSUME Init PROVE IInv
  OBVIOUS
<1> USE BoundsAssumption DEF Init, Caller, Light
<1>1. TypeInv
  <2>1. polls \in [Caller -> 0..MaxPolls]
    <3>1. 0 \in 0..MaxPolls
      OBVIOUS
    <3>2. QED
      BY <3>1
  <2>2. led_task_should_stop \in BOOLEAN /\ led_task_mutex \in BOOLEAN /\ command_queue \in BOOLEAN
    OBVIOUS
  <2>3. pc = [e \in Caller |-> IF e = "main" THEN "boot" ELSE "idle"]
    OBVIOUS
  <2>4. QED
    BY <2>1, <2>2, <2>3 DEF TypeInv, TypeOK, CallerInv
<1>2. FlagInv /\ BootInv /\ EarlyInv
  BY DEF FlagInv, BootInv, EarlyInv
<1>3. StripInv
  BY DEF StripInv, NoLedTask, LedTask
<1>4. LiveInv /\ StopsForAReason
  BY DEF LiveInv, StopsForAReason
<1>5. QED
  BY <1>1, <1>2, <1>3, <1>4 DEF IInv

(* The inductive invariant.                                                *)
THEOREM Invariance == Spec => []IInv
<1>1. Init => IInv
  BY InitInv
<1>2. IInv /\ [Next]_vars => IInv'
  BY TypeStep, FlagStep, BootStep, EarlyStep, StripStep, LiveStep, ReasonStep DEF IInv
<1>3. QED
  BY <1>1, <1>2, PTL DEF Spec

(* Handles, locals and labels keep their types; a stop never polls more    *)
(* often than it may (led.c:55-96).                                        *)
THEOREM TypeCorrect == Spec => []TypeOK
<1>1. IInv => TypeOK
  BY DEF IInv, TypeInv
<1>2. QED
  BY <1>1, Invariance, PTL

(* Never do two tasks drive the strip, unless a command came before        *)
(* init_leds() had restored the saved task (led.c:55-96, 191-242).         *)
THEOREM DrivenByOne == Spec => []OneLedTask
<1>1. ASSUME IInv
      PROVE  OneLedTask
  <2> SUFFICES ASSUME "early" \notin marks
               PROVE  Cardinality({a \in Addr : LedTask(a)}) <= 1
    BY DEF OneLedTask
  <2>1. \E b : \A a \in Addr : LedTask(a) => a = b
    BY <1>1 DEF IInv, StripInv
  <2>2. PICK b : {a \in Addr : LedTask(a)} \subseteq {b}
    BY <2>1
  <2>3. IsFiniteSet({b}) /\ Cardinality({b}) = 1
    BY FS_Singleton
  <2>4. /\ IsFiniteSet({a \in Addr : LedTask(a)})
        /\ Cardinality({a \in Addr : LedTask(a)}) <= Cardinality({b})
    BY <2>2, <2>3, FS_Subset
  <2>5. QED
    BY <2>3, <2>4
<1>2. QED
  BY <1>1, Invariance, PTL

(* A looping task exits only while somebody stops it (led.c:195-198).      *)
THEOREM StopsWhenTold == Spec => RunsUntilStopped
<1>1. ASSUME IInv, [Next]_vars
      PROVE  [\A a \in Addr : tcb[a] = "loop" /\ LedExits(a)
                 => \E e \in Caller : pc[e] \in {"poll", "force", "kill", "clear", "start"}]_vars
  BY <1>1 DEF IInv, FlagInv, LedExits
<1>2. QED
  BY <1>1, Invariance, PTL DEF Spec, RunsUntilStopped

(* The firmware stops only for a reason that is named (led.c:60, 83-87,    *)
(* controller.c:583, 605).                                                 *)
THEOREM StopsNamed == Spec => []StopsForAReason
<1>1. IInv => StopsForAReason
  BY DEF IInv
<1>2. QED
  BY <1>1, Invariance, PTL
=============================================================================
