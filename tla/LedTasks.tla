------------------------------ MODULE LedTasks ------------------------------
(***************************************************************************)
(* The tasks that lighting and animation-mode commands start and stop      *)
(* (main/led.c, main/animation.c), created by the controller task and, at  *)
(* boot, by app_main() through init_leds(); and what a client can do while *)
(* app_main() (main/boot.c) is still on its way: advertising begins before *)
(* the command queue and the LED mutex exist.  A task handle is the address*)
(* of a control block that the idle task frees after the task has ended    *)
(* and that a later task can get again; FreeRTOS is external and appears   *)
(* as the code uses it: xTaskCreate, vTaskDelete, eTaskGetState.           *)
(***************************************************************************)
EXTENDS Integers, FiniteSets

CONSTANTS
    Addr,           \* addresses of control blocks
    NULL,
    MaxPolls,       \* polls of led_stop_current_task() (100)
    MaxCommands     \* bound: commands and disconnects of the client

ASSUME BoundsAssumption == /\ NULL \notin Addr /\ MaxPolls \in Nat \ {0}
                           /\ MaxCommands \in Nat

(* The two tasks that call led.c, and what a lighting configuration starts:*)
(* a task that ends by itself (solid, or no colours) or one that loops     *)
(* until it sees the stop flag.                                            *)
Caller == {"controller", "main"}
Light  == {"solid", "loop"}

VARIABLES
    tcb,                    \* tcb[a]: the task whose control block a holds
    led_task_handle,
    led_task_should_stop,
    led_task_mutex,         \* the mutex exists
    command_queue,          \* the queue exists, and the controller task
    mode_task_handle,       \* animation_mode_task_handle
    saved,                  \* the lighting configuration in NVS
    pc, target, polls, light,   \* the callers and their locals
    commands,               \* commands so far
    marks,                  \* history: what has gone wrong so far
    fault                   \* what stopped the firmware

vars == <<tcb, led_task_handle, led_task_should_stop, led_task_mutex, command_queue,
          mode_task_handle, saved, pc, target, polls, light, commands, marks, fault>>
created  == <<led_task_mutex, command_queue>>
ledVars  == <<led_task_handle, led_task_should_stop, saved, created>>
callVars == <<target, polls, light>>

(* A freed block still reads as a deleted task until it is used again.     *)
Deleted(a) == tcb[a] \in {"free", "ended"}

LedTask(a) == tcb[a] \in Light

Init == /\ tcb = [a \in Addr |-> "free"]
        /\ led_task_handle = NULL /\ led_task_should_stop = FALSE
        /\ led_task_mutex = FALSE /\ command_queue = FALSE
        /\ mode_task_handle = NULL
        /\ saved \in Light \cup {"none", "invalid"}
        /\ pc = [e \in Caller |-> IF e = "main" THEN "boot" ELSE "idle"]
        /\ target = [e \in Caller |-> NULL]
        /\ polls = [e \in Caller |-> 0]
        /\ light = [e \in Caller |-> "loop"]
        /\ commands = 0 /\ marks = {} /\ fault = "none"

Goto(e, l) == pc' = [pc EXCEPT ![e] = l]
At(e, l)   == pc[e] = l
----------------------------------------------------------------------------
(* xTaskCreate(), with the handle it writes; and vTaskDelete() of another  *)
(* task, which is undefined for a task that has ended.                     *)
Created(a, what) == tcb[a] = "free" /\ tcb' = [tcb EXCEPT ![a] = what]

Kill(a) == IF Deleted(a) THEN fault' = "deleted twice" /\ UNCHANGED tcb
                         ELSE tcb' = [tcb EXCEPT ![a] = "ended"] /\ UNCHANGED fault
----------------------------------------------------------------------------
(* What the client does counts as early until init_leds() has returned.    *)
ClientActs == /\ commands < MaxCommands /\ commands' = commands + 1
              /\ marks' = IF At("main", "done") THEN marks ELSE marks \cup {"early"}

(* A write that comes before controller_init() has made the queue: there is*)
(* no check, and xQueueSend() asserts.                                     *)
WriteTooEarly ==
    /\ ~command_queue
    /\ ClientActs
    /\ fault' = "no queue"
    /\ UNCHANGED <<tcb, ledVars, mode_task_handle, pc, callVars>>

(* A disconnect goes to controller_queue_store_reset(), which has the check*)
(* and does nothing here.                                                  *)
DisconnectEvt ==
    /\ commands < MaxCommands /\ commands' = commands + 1
    /\ UNCHANGED <<tcb, ledVars, mode_task_handle, pc, callVars, marks, fault>>

(* process_lighting_command() calls led_start_task().                      *)
LightingCommand(l) ==
    /\ command_queue /\ At("controller", "idle")
    /\ ClientActs
    /\ light' = [light EXCEPT !["controller"] = l]
    /\ Goto("controller", "stop")
    /\ UNCHANGED <<tcb, ledVars, mode_task_handle, target, polls, fault>>

(* led_stop_current_task(): the handle, under the mutex ...                *)
StopReadsHandle(e) ==
    /\ At(e, "stop")
    /\ IF led_task_mutex
       THEN /\ target' = [target EXCEPT ![e] = led_task_handle]
            /\ Goto(e, IF led_task_handle = NULL THEN "start" ELSE "signal")
            /\ UNCHANGED fault
       ELSE fault' = "no mutex" /\ UNCHANGED <<target, pc>>
    /\ UNCHANGED <<tcb, ledVars, mode_task_handle, polls, light, commands, marks>>

(* ... raise the flag ...                                                  *)
StopSignals(e) ==
    /\ At(e, "signal")
    /\ led_task_should_stop' = TRUE
    /\ polls' = [polls EXCEPT ![e] = 0]
    /\ Goto(e, "poll")
    /\ UNCHANGED <<tcb, led_task_handle, created, saved, mode_task_handle,
                   target, light, commands, marks, fault>>

(* Polling without end.                                                    *)
StopPollsForever(e) ==
    /\ At(e, "poll")
    /\ Goto(e, IF Deleted(target[e]) THEN "clear" ELSE "poll")
    /\ UNCHANGED <<tcb, ledVars, mode_task_handle, callVars, commands, marks, fault>>

(* One poll too many: i <= 100.                                            *)
StopPollsOnceMore(e) ==
    /\ At(e, "poll")
    /\ polls' = [polls EXCEPT ![e] = @ + 1]
    /\ Goto(e, IF Deleted(target[e]) THEN "clear"
               ELSE IF polls[e] = MaxPolls THEN "force" ELSE "poll")
    /\ UNCHANGED <<tcb, ledVars, mode_task_handle, target, light, commands, marks, fault>>

(* ... poll until the task is gone, for a second ...                       *)
StopPolls(e) ==
    /\ At(e, "poll")
    /\ polls' = [polls EXCEPT ![e] = @ + 1]
    /\ Goto(e, IF Deleted(target[e]) THEN "clear"
               ELSE IF polls[e] + 1 = MaxPolls THEN "force" ELSE "poll")
    /\ UNCHANGED <<tcb, ledVars, mode_task_handle, target, light, commands, marks, fault>>

(* Deleting it without another look.                                       *)
StopForcesUnchecked(e) ==
    /\ At(e, "force")
    /\ Goto(e, "kill")
    /\ UNCHANGED <<tcb, ledVars, mode_task_handle, callVars, commands, marks, fault>>

(* Leaving a task that does not exit in time to its fate.                  *)
StopGivesUp(e) ==
    /\ At(e, "force")
    /\ Goto(e, "clear")
    /\ UNCHANGED <<tcb, ledVars, mode_task_handle, callVars, commands, marks, fault>>

(* ... look once more if it is still there; by now its control block may   *)
(* be that of another task ...                                             *)
StopForces(e) ==
    /\ At(e, "force")
    /\ Goto(e, IF Deleted(target[e]) THEN "clear" ELSE "kill")
    /\ marks' = IF tcb[target[e]] = "mode" THEN marks \cup {"foreign"} ELSE marks
    /\ UNCHANGED <<tcb, ledVars, mode_task_handle, callVars, commands, fault>>

(* ... delete it, once the warning is logged ...                           *)
StopKills(e) ==
    /\ At(e, "kill")
    /\ Kill(target[e])
    /\ Goto(e, "clear")
    /\ UNCHANGED <<ledVars, mode_task_handle, callVars, commands, marks>>

(* ... and forget it.                                                      *)
StopClears(e) ==
    /\ At(e, "clear")
    /\ led_task_handle' = NULL
    /\ Goto(e, "start")
    /\ UNCHANGED <<tcb, led_task_should_stop, created, saved, mode_task_handle,
                   callVars, commands, marks, fault>>

(* Forgetting to lower the flag for the new task.                          *)
StartKeepsFlag(e) ==
    /\ At(e, "start")
    /\ Goto(e, "save")
    /\ UNCHANGED <<tcb, ledVars, mode_task_handle, callVars, commands, marks, fault>>

(* led_start_task() after the stop: lower the flag ...                     *)
StartLowersFlag(e) ==
    /\ At(e, "start")
    /\ led_task_should_stop' = FALSE
    /\ Goto(e, "save")
    /\ UNCHANGED <<tcb, led_task_handle, created, saved, mode_task_handle,
                   callVars, commands, marks, fault>>

(* ... save the configuration, or fail to and go on ...                    *)
StartSaves(e) ==
    /\ At(e, "save")
    /\ saved' \in {saved, light[e]}
    /\ Goto(e, "create")
    /\ UNCHANGED <<tcb, led_task_handle, led_task_should_stop, created,
                   mode_task_handle, callVars, commands, marks, fault>>

Ends(e) == Goto(e, IF e = "main" THEN "done" ELSE "idle")

(* ... create the task, or fail to ...                                     *)
StartCreates(e) ==
    /\ At(e, "create")
    /\ \/ \E a \in Addr : /\ Created(a, light[e])
                          /\ target' = [target EXCEPT ![e] = a]
                          /\ Goto(e, "publish")
       \/ Ends(e) /\ UNCHANGED <<tcb, target>>
    /\ UNCHANGED <<ledVars, mode_task_handle, polls, light, commands, marks, fault>>

(* ... and store its handle under the mutex.                               *)
StartPublishes(e) ==
    /\ At(e, "publish")
    /\ led_task_handle' = target[e]
    /\ Ends(e)
    /\ UNCHANGED <<tcb, led_task_should_stop, created, saved, mode_task_handle,
                   callVars, commands, marks, fault>>

LedStart(e) == \/ StopReadsHandle(e) \/ StopSignals(e) \/ StopPolls(e) \/ StopForces(e) \/ StopKills(e)
               \/ StopClears(e) \/ StartLowersFlag(e) \/ StartSaves(e)
               \/ StartCreates(e) \/ StartPublishes(e)
----------------------------------------------------------------------------
(* app_main(): controller_init(), which app_main() does not survive if it  *)
(* fails ...                                                               *)
ControllerInit ==
    /\ At("main", "boot")
    /\ \/ command_queue' = TRUE /\ Goto("main", "init") /\ UNCHANGED fault
       \/ fault' = "no memory" /\ UNCHANGED <<command_queue, pc>>
    /\ UNCHANGED <<tcb, led_task_handle, led_task_should_stop, led_task_mutex, saved,
                   mode_task_handle, callVars, commands, marks>>

(* ... then init_leds(): the mutex; the saved configuration is restored, or*)
(* the default one started when there is none.                             *)
InitMutex ==
    /\ At("main", "init")
    /\ \/ led_task_mutex' = TRUE /\ Goto("main", "load") /\ UNCHANGED fault
       \/ fault' = "no memory" /\ UNCHANGED <<led_task_mutex, pc>>
    /\ UNCHANGED <<tcb, led_task_handle, led_task_should_stop, saved, command_queue,
                   mode_task_handle, callVars, commands, marks>>

InitLoads ==
    /\ At("main", "load")
    /\ CASE saved = "none"    -> Goto("main", "stop") /\ UNCHANGED light
         [] saved = "invalid" -> Goto("main", "done") /\ UNCHANGED light
         [] OTHER             -> /\ Goto("main", "lower")
                                 /\ light' = [light EXCEPT !["main"] = saved]
    /\ UNCHANGED <<tcb, ledVars, mode_task_handle, target, polls, commands, marks, fault>>

InitLowersFlag ==
    /\ At("main", "lower")
    /\ led_task_should_stop' = FALSE
    /\ Goto("main", "restore")
    /\ UNCHANGED <<tcb, led_task_handle, created, saved, mode_task_handle,
                   callVars, commands, marks, fault>>

(* xTaskCreate() writes led_task_handle itself here, without the mutex.    *)
InitRestores ==
    /\ At("main", "restore")
    /\ \/ \E a \in Addr : Created(a, light["main"]) /\ led_task_handle' = a
       \/ UNCHANGED <<tcb, led_task_handle>>
    /\ Goto("main", "done")
    /\ UNCHANGED <<led_task_should_stop, created, saved, mode_task_handle,
                   callVars, commands, marks, fault>>

Main == ControllerInit \/ InitMutex \/ InitLoads \/ InitLowersFlag \/ InitRestores
----------------------------------------------------------------------------
(* process_animation_mode_command(), once the mode is saved: the task of   *)
(* the old mode is deleted where it stands.                                *)
ModeCommand ==
    /\ command_queue /\ At("controller", "idle")
    /\ ClientActs
    /\ IF mode_task_handle # NULL THEN Kill(mode_task_handle)
                                  ELSE UNCHANGED <<tcb, fault>>
    /\ mode_task_handle' = NULL
    /\ \/ UNCHANGED pc
       \/ Goto("controller", "mode")
    /\ UNCHANGED <<ledVars, callVars>>

StartMode ==
    /\ At("controller", "mode")
    /\ \/ \E a \in Addr : Created(a, "mode") /\ mode_task_handle' = a
       \/ UNCHANGED <<tcb, mode_task_handle>>
    /\ Goto("controller", "idle")
    /\ UNCHANGED <<ledVars, callVars, commands, marks, fault>>
----------------------------------------------------------------------------
(* A looping LED task that sees the flag, and a solid one that is done,    *)
(* delete themselves; the idle task frees their control block.             *)
LedExits(a) ==
    /\ LedTask(a)
    /\ tcb[a] = "solid" \/ led_task_should_stop
    /\ tcb' = [tcb EXCEPT ![a] = "ended"]
    /\ marks' = IF \E e \in Caller : At(e, "kill") /\ target[e] = a
                THEN marks \cup {"exits late"} ELSE marks
    /\ UNCHANGED <<ledVars, mode_task_handle, pc, callVars, commands, fault>>

IdleFrees(a) ==
    /\ tcb[a] = "ended"
    /\ tcb' = [tcb EXCEPT ![a] = "free"]
    /\ UNCHANGED <<ledVars, mode_task_handle, pc, callVars, commands, marks, fault>>

Next == /\ fault = "none"
        /\ \/ Main \/ WriteTooEarly \/ DisconnectEvt \/ ModeCommand \/ StartMode
           \/ \E l \in Light : LightingCommand(l)
           \/ \E e \in Caller : LedStart(e)
           \/ \E a \in Addr : LedExits(a) \/ IdleFrees(a)

Spec == Init /\ [][Next]_vars

(* The controller task runs; nothing is assumed of the LED tasks.          *)
FairSpec == Spec /\ WF_vars(LedStart("controller") \/ StartMode)
----------------------------------------------------------------------------
TypeOK ==
    /\ tcb \in [Addr -> Light \cup {"free", "ended", "mode"}]
    /\ led_task_handle \in Addr \cup {NULL} /\ mode_task_handle \in Addr \cup {NULL}
    /\ led_task_should_stop \in BOOLEAN
    /\ led_task_mutex \in BOOLEAN /\ command_queue \in BOOLEAN
    /\ marks \subseteq {"early", "foreign", "exits late"}
    /\ saved \in Light \cup {"none", "invalid"}
    /\ target \in [Caller -> Addr \cup {NULL}]
    /\ polls \in [Caller -> 0..MaxPolls]
    /\ light \in [Caller -> Light]
    /\ pc \in [Caller -> {"boot", "init", "load", "lower", "restore", "done", "idle",
                          "stop", "signal", "poll", "force", "kill", "clear",
                          "start", "save", "create", "publish", "mode"}]

(* Never do two tasks drive the strip: whoever starts one has seen the one *)
(* before end, although each can take its time (led.c:55-96, 191-242).     *)
(* Only a command that comes before init_leds() has restored the saved     *)
(* task can break it: that start is not guarded (led.c:647-684).           *)
OneLedTask == "early" \notin marks => Cardinality({a \in Addr : LedTask(a)}) <= 1

(* A looping task exits only while somebody stops it: the flag of one stop *)
(* never reaches the task started after it (led.c:195-198).                *)
RunsUntilStopped ==
    [][\A a \in Addr : tcb[a] = "loop" /\ LedExits(a)
                          => \E e \in Caller : pc[e] \in {"poll", "force", "kill", "clear", "start"}]_vars

(* A lighting command always ends, even if the task it replaces never      *)
(* looks at the flag (led.c:74-88).                                        *)
CommandEnds == pc["controller"] # "idle" ~> pc["controller"] = "idle" \/ fault # "none"

(* The firmware stops only for a reason that is named: it is out of memory *)
(* at boot, the client was too early for the queue or the mutex, or a task *)
(* is deleted twice, after one of three things: a stop has hit the         *)
(* animation-mode task in the block of a LED task that had ended by itself,*)
(* a LED task has ended between the last look at it and its deletion, or   *)
(* the controller and init_leds() were stopping the same task (led.c:60,   *)
(* 83-87, controller.c:583, 605).                                          *)
StopsForAReason ==
    /\ fault \in {"no queue", "no mutex"} => "early" \in marks
    /\ fault = "deleted twice" => marks # {}
============================================================================
