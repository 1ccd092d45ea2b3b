------------------------------ MODULE BbbGpio ------------------------------
(***************************************************************************)
(* The flashing LED driver, gpio/bbb-gpio.c: a kernel thread sets the LED  *)
(* by the mode that users store through sysfs, while the module is loaded  *)
(* and unloaded.  Nothing is locked.                                       *)
(*                                                                         *)
(* External to src/: kthread_run(), kthread_stop() (asks the thread to end *)
(* and waits until it has), kobject_put() (waits for the stores under way, *)
(* so that a store is one step here) and the GPIO core, which lets anybody *)
(* drive or free a pin, requested or not.                                  *)
(***************************************************************************)
EXTENDS Integers

CONSTANTS Pins,          (* the GPIO numbers                             *)
          Periods,       (* numbers users store as blinkPeriod           *)
          ParamPins,     (* what root writes to the parameter gpioLED    *)
          ParamPeriods   (* what insmod is given, or root writes to the  *)
                         (* parameter, as blinkPeriod: mode 0660 permits *)
                         (* any value, and no function of the driver     *)
                         (* sees it                                      *)

ASSUME BbbAssumption ==
  /\ ParamPins \subseteq Pins
  /\ Periods \subseteq Int
  /\ ParamPeriods \subseteq Int

VARIABLES
  mod,          (* the module: see ModStates                         *)
  sysfs,        (* TRUE while /sys/ebb and its attributes exist      *)
  gpioLED,      (* the parameter: the pin of the LED                 *)
  mine,         (* the pins requested and not freed                  *)
  level,        (* per pin: TRUE if it is driven high                *)
  mode,         (* "off", "on" or "flash"                            *)
  ledOn,        (* the variable of that name                         *)
  blinkPeriod,  (* the parameter, in ms                              *)
  thread,       (* where flash() stands, "none" before it is started *)
  stop          (* TRUE once kthread_stop() was called               *)

modVars    == <<mod, sysfs>>
pinVars    == <<gpioLED, mine, level>>
attrVars   == <<mode, blinkPeriod>>
threadVars == <<ledOn, thread, stop>>
vars == <<modVars, pinVars, attrVars, threadVars>>

(* "sysfs" and "gpio" are the stages of init, "stopping" to "free" those   *)
(* of exit; "failed" is out again after init could not start the thread.   *)
ModStates == {"out", "sysfs", "gpio", "in", "stopping", "put", "off", "free",
              "failed", "exited"}
Exiting == {"stopping", "put", "off", "free"}
Modes == {"off", "on", "flash"}
Default == 1000

ValueTypes ==
  /\ mod \in ModStates
  /\ gpioLED \in Pins
  /\ mine \in SUBSET Pins
  /\ mode \in Modes
  /\ blinkPeriod \in (2 .. 10000) \cup ParamPeriods
  /\ thread \in {"none", "check", "mode", "again", "set", "sleep", "done"}

FlagTypes ==
  /\ sysfs \in BOOLEAN /\ ledOn \in BOOLEAN /\ stop \in BOOLEAN
  /\ level \in [Pins -> BOOLEAN]

(* The variables keep to their types.  The period is what period_store()   *)
(* lets in, whatever is stored and even if there is no number in it, or    *)
(* what the parameter was given, which nothing in the driver looks at: its *)
(* "min=1" (line 30) is less than the 2 ms the attribute asks for (70).    *)
TypeOK == ValueTypes /\ FlagTypes

Init ==
  /\ mod = "out" /\ sysfs = FALSE
  /\ gpioLED \in Pins /\ mine = {} /\ level = [p \in Pins |-> FALSE]
  /\ mode = "flash" /\ blinkPeriod = Default
  /\ ledOn = FALSE /\ thread = "none" /\ stop = FALSE

(***************************************************************************)
(* ebbLED_init                                                             *)
(***************************************************************************)

(* The variables of a module loaded afresh; a parameter may be given.  If  *)
(* the kobject or its attributes cannot be made nothing stays.             *)
InitSysfs ==
  /\ mod \in {"out", "exited"}
  /\ mod' = "sysfs" /\ sysfs' = TRUE
  /\ mode' = "flash"
  /\ blinkPeriod' \in {Default} \cup ParamPeriods
  /\ ledOn' = FALSE /\ thread' = "none" /\ stop' = FALSE
  /\ gpioLED' \in Pins
  /\ UNCHANGED <<mine, level>>

(* The result of gpio_request() is ignored. *)
InitGpio ==
  /\ mod = "sysfs"
  /\ mod' = "gpio"
  /\ ledOn' = TRUE
  /\ mine' = mine \cup {gpioLED} \/ mine' = mine
  /\ level' = [level EXCEPT ![gpioLED] = TRUE]
  /\ UNCHANGED <<sysfs, gpioLED, attrVars, thread, stop>>

InitThread ==
  /\ mod = "gpio"
  /\ mod' = "in" /\ thread' = "check"
  /\ UNCHANGED <<sysfs, pinVars, attrVars, ledOn, stop>>

(* kthread_run() fails: init returns and takes nothing back. *)
InitNoThread ==
  /\ mod = "gpio"
  /\ mod' = "failed"
  /\ UNCHANGED <<sysfs, pinVars, attrVars, threadVars>>

(***************************************************************************)
(* flash                                                                   *)
(***************************************************************************)

Step(from, to) == thread = from /\ thread' = to

(* Wrong variant: the loop runs for ever. *)
FlashCheckNever ==
  /\ Step("check", "mode")
  /\ UNCHANGED <<modVars, pinVars, attrVars, ledOn, stop>>

FlashCheck ==
  /\ Step("check", IF stop THEN "done" ELSE "mode")
  /\ UNCHANGED <<modVars, pinVars, attrVars, ledOn, stop>>

(* The first look at mode ... *)
FlashMode ==
  /\ Step("mode", IF mode = "flash" THEN "set" ELSE "again")
  /\ ledOn' = IF mode = "flash" THEN ~ledOn ELSE ledOn
  /\ UNCHANGED <<modVars, pinVars, attrVars, stop>>

(* Wrong variant: the branch that switches the LED off is missing. *)
FlashAgainNoOff ==
  /\ Step("again", "set")
  /\ ledOn' = (mode = "on" \/ ledOn)
  /\ UNCHANGED <<modVars, pinVars, attrVars, stop>>

(* ... and, if it was not FLASH, a second one, which may find it changed. *)
FlashAgain ==
  /\ Step("again", "set")
  /\ ledOn' = (mode = "on")
  /\ UNCHANGED <<modVars, pinVars, attrVars, stop>>

FlashSet ==
  /\ Step("set", "sleep")
  /\ level' = [level EXCEPT ![gpioLED] = ledOn]
  /\ UNCHANGED <<modVars, gpioLED, mine, attrVars, ledOn, stop>>

(* msleep() is not cut short by kthread_stop(). *)
FlashSleep ==
  /\ Step("sleep", "check")
  /\ UNCHANGED <<modVars, pinVars, attrVars, ledOn, stop>>

(***************************************************************************)
(* The attributes and the parameters                                       *)
(***************************************************************************)

(* Wrong variant: what is no mode is stored as a mode of its own. *)
ModeStoreAnything(m) ==
  /\ sysfs /\ mod # "failed"
  /\ mode' \in {m, "unknown"}
  /\ UNCHANGED <<modVars, pinVars, blinkPeriod, threadVars>>

(* What is compared is all but the last character, so every prefix of a    *)
(* mode's name is that mode, an empty line is "on", and what is none of    *)
(* them leaves the mode alone.                                             *)
ModeStore(m) ==
  /\ sysfs /\ mod # "failed"
  /\ mode' = m
  /\ UNCHANGED <<modVars, pinVars, blinkPeriod, threadVars>>

(* If sscanf() finds no number, period is uninitialized: any number.       *)
PeriodStore(n) ==
  /\ sysfs /\ mod # "failed"
  /\ n > 1 /\ n <= 10000
  /\ blinkPeriod' = n
  /\ UNCHANGED <<modVars, pinVars, mode, threadVars>>

(* Writes to the parameters of the module; the one it has goes always. *)
ParamStore ==
  /\ mod \in {"sysfs", "gpio", "in"} \cup Exiting
  /\ gpioLED' \in {gpioLED} \cup ParamPins
  /\ blinkPeriod' \in {blinkPeriod} \cup ParamPeriods
  /\ UNCHANGED <<modVars, mine, level, mode, threadVars>>

(***************************************************************************)
(* ebbLED_exit                                                             *)
(***************************************************************************)

(* Wrong variant: exit does not wait for the thread to end. *)
ExitStopNoWait ==
  /\ mod = "in"
  /\ mod' = "put" /\ stop' = TRUE
  /\ UNCHANGED <<sysfs, pinVars, attrVars, ledOn, thread>>

ExitStop ==
  /\ mod = "in"
  /\ mod' = "stopping" /\ stop' = TRUE
  /\ UNCHANGED <<sysfs, pinVars, attrVars, ledOn, thread>>

(* kthread_stop() returns. *)
ExitStopped ==
  /\ mod = "stopping" /\ thread = "done"
  /\ mod' = "put"
  /\ UNCHANGED <<sysfs, pinVars, attrVars, threadVars>>

ExitPut ==
  /\ mod = "put"
  /\ mod' = "off" /\ sysfs' = FALSE
  /\ UNCHANGED <<pinVars, attrVars, threadVars>>

ExitOff ==
  /\ mod = "off"
  /\ mod' = "free"
  /\ level' = [level EXCEPT ![gpioLED] = FALSE]
  /\ UNCHANGED <<sysfs, gpioLED, mine, attrVars, threadVars>>

(* Wrong variant: gpio_unexport() only. *)
ExitUnexport ==
  /\ mod = "free"
  /\ mod' = "exited"
  /\ UNCHANGED <<sysfs, pinVars, attrVars, threadVars>>

(* gpio_unexport() and gpio_free() of the pin the parameter names now. *)
ExitFree ==
  /\ mod = "free"
  /\ mod' = "exited"
  /\ mine' = mine \ {gpioLED}
  /\ UNCHANGED <<sysfs, gpioLED, level, attrVars, threadVars>>

(***************************************************************************)
(* Specification                                                           *)
(***************************************************************************)

Flash == FlashCheck \/ FlashMode \/ FlashAgain \/ FlashSet \/ FlashSleep
(* Attributes without code behind them, after a failed init, are not       *)
(* modelled, nor is loading the driver again.                              *)
Halted == mod = "failed" /\ UNCHANGED vars

ExitRest == ExitStopped \/ ExitPut \/ ExitOff \/ ExitFree

Next ==
  \/ InitSysfs \/ InitGpio \/ InitThread \/ InitNoThread
  \/ Flash
  \/ \E m \in Modes : ModeStore(m)
  \/ \E n \in Periods : PeriodStore(n)
  \/ ParamStore
  \/ ExitStop \/ ExitRest
  \/ Halted

(* The thread is scheduled and its sleep ends; rmmod runs on. *)
Fairness == WF_vars(Flash) /\ WF_vars(ExitRest)

Spec == Init /\ [][Next]_vars /\ Fairness

-----------------------------------------------------------------------------
(* "Turn the LED off, indicates device was unloaded": off it stays, for    *)
(* the thread that might light it again has ended before.                  *)
ExitLedOff == mod = "exited" => \A p \in Pins : ~level[p]

(* What init requested exit frees, however often the driver is reloaded    *)
(* with whatever pin: "gpioLED ... can be read/not changed".               *)
ExitFreesPin == mod = "exited" => mine = {}

(* Once the users have settled on a mode, the LED does what it says,       *)
(* although the thread reads the mode without a lock, twice, between their *)
(* stores, and never compares the LED with it.                             *)
Settled(m) == <>[](mod = "in" /\ mode = m)
LedFollowsMode ==
  /\ Settled("on")  => <>[]level[gpioLED]
  /\ Settled("off") => <>[]~level[gpioLED]
  /\ Settled("flash") => []<>level[gpioLED] /\ []<>~level[gpioLED]

(* rmmod returns: the thread sees that it is to stop, wherever it is.      *)
ExitCompletes == mod = "stopping" ~> mod = "exited"

=============================================================================
