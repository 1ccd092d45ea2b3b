--------------------------- MODULE BbbGpioProofs ---------------------------
(***************************************************************************)
(* Proofs about BbbGpio for any set of pins and any numbers users store:   *)
(* only the parameter takes the period out of its bounds, and, as long as nobody writes another pin  *)
(* to the parameter of the loaded module, rmmod leaves every pin low and   *)
(* free.  With such writes it does not (MCBbbGpioParam).                   *)
(***************************************************************************)
EXTENDS BbbGpio, TLAPS

-----------------------------------------------------------------------------
(* The inductive invariant.  Exit lowers and frees one pin, the one the    *)
(* parameter names: that this leaves none high or requested needs that no  *)
(* other pin ever was, and that the thread, which would light the LED      *)
(* again, has ended when exit lowers it.                                   *)

(* The thread exists from the end of init and has ended from "put" on. *)
ThreadInv ==
  /\ mod \in {"out", "sysfs", "gpio", "failed"} => thread = "none"
  /\ mod \in {"put", "off", "free", "exited"} => thread = "done"

(* Pins other than the parameter's are low and free, and that one, too,    *)
(* before init takes it and as far as exit has come.                       *)
PinInv ==
  /\ \A p \in Pins : level[p] =>
       p = gpioLED /\ mod \notin {"out", "sysfs", "free", "exited"}
  /\ \A p \in mine :
       p = gpioLED /\ mod \notin {"out", "sysfs", "exited"}

IInv == TypeOK /\ ThreadInv /\ PinInv

-----------------------------------------------------------------------------
(* The types, whatever is written to the parameters.                       *)

(* Every step keeps the values in their ranges ... *)
LEMMA ValueStep == ValueTypes /\ [Next]_vars => ValueTypes'
<1> SUFFICES ASSUME ValueTypes, [Next]_vars PROVE ValueTypes'
  OBVIOUS
<1>1. ASSUME InitSysfs PROVE ValueTypes'
  BY <1>1 DEF InitSysfs, ValueTypes, ModStates, Modes, Default
<1>2. ASSUME InitGpio PROVE ValueTypes'
  BY <1>2 DEF InitGpio, ValueTypes, ModStates, attrVars
<1>3. ASSUME InitThread \/ InitNoThread PROVE ValueTypes'
  <2>1. UNCHANGED <<gpioLED, mine, mode, blinkPeriod>>
    BY <1>3, Zenon DEF InitThread, InitNoThread, pinVars, attrVars
  <2>2. mod' \in {"in", "failed"} /\ thread' \in {"check", thread}
    BY <1>3, Zenon DEF InitThread, InitNoThread, threadVars
  <2> QED
    BY <2>1, <2>2 DEF ValueTypes, ModStates
<1>4. ASSUME Flash PROVE ValueTypes'
  <2>1. UNCHANGED <<mod, gpioLED, mine, mode, blinkPeriod>>
    BY <1>4, Zenon DEF Flash, FlashCheck, FlashMode, FlashAgain, FlashSet,
                       FlashSleep, modVars, pinVars, attrVars
  <2>2. thread' \in {"check", "mode", "again", "set", "sleep", "done"}
    BY <1>4, Zenon DEF Flash, FlashCheck, FlashMode, FlashAgain, FlashSet,
                       FlashSleep, Step
  <2> QED
    BY <2>1, <2>2 DEF ValueTypes
<1>5. ASSUME NEW m \in Modes, ModeStore(m) PROVE ValueTypes'
  BY <1>5 DEF ModeStore, ValueTypes, modVars, pinVars, threadVars
<1>6. ASSUME NEW n \in Periods, PeriodStore(n) PROVE ValueTypes'
  BY <1>6, BbbAssumption DEF PeriodStore, ValueTypes, modVars, pinVars,
                             threadVars
<1>7. ASSUME ParamStore PROVE ValueTypes'
  BY <1>7, BbbAssumption DEF ParamStore, ValueTypes, modVars, threadVars
<1>8. ASSUME ExitStop \/ ExitRest PROVE ValueTypes'
  <2> USE DEF ExitStop, ExitRest, ExitStopped, ExitPut, ExitOff, ExitFree
  <2>1. UNCHANGED <<gpioLED, mode, blinkPeriod, thread>>
    BY <1>8, Zenon DEF pinVars, attrVars, threadVars
  <2>2. mod' \in Exiting \cup {"exited"} /\ mine' \subseteq mine
    BY <1>8, Zenon DEF pinVars, Exiting
  <2> QED
    BY <2>1, <2>2 DEF ValueTypes, ModStates, Exiting
<1>9. ASSUME UNCHANGED vars PROVE ValueTypes'
  BY <1>9 DEF vars, ValueTypes, modVars, pinVars, attrVars, threadVars
<1> QED
  BY <1>1, <1>2, <1>3, <1>4, <1>5, <1>6, <1>7, <1>8, <1>9 DEF Next, Halted

(* ... and the flags Boolean. *)
LEMMA FlagStep == ValueTypes /\ FlagTypes /\ [Next]_vars => FlagTypes'
<1> SUFFICES ASSUME ValueTypes, FlagTypes, [Next]_vars PROVE FlagTypes'
  OBVIOUS
<1>1. gpioLED \in Pins
  BY DEF ValueTypes
<1>2. ASSUME InitSysfs PROVE FlagTypes'
  BY <1>2, Zenon DEF InitSysfs, FlagTypes
<1>3. ASSUME InitGpio PROVE FlagTypes'
  BY <1>1, <1>3, Zenon DEF InitGpio, FlagTypes
<1>4. ASSUME FlashMode \/ FlashAgain PROVE FlagTypes'
  BY <1>4, Zenon DEF FlashMode, FlashAgain, FlagTypes, modVars, pinVars
<1>5. ASSUME FlashSet PROVE FlagTypes'
  BY <1>1, <1>5, Zenon DEF FlashSet, FlagTypes, modVars
<1>6. ASSUME ExitStop \/ ExitPut PROVE FlagTypes'
  BY <1>6, Zenon DEF ExitStop, ExitPut, FlagTypes, pinVars, threadVars
<1>7. ASSUME ExitOff PROVE FlagTypes'
  BY <1>1, <1>7, Zenon DEF ExitOff, FlagTypes, threadVars
<1>8. ASSUME UNCHANGED <<sysfs, ledOn, stop, level>> PROVE FlagTypes'
  BY <1>8, Zenon DEF FlagTypes
<1>9. ASSUME InitThread \/ InitNoThread \/ FlashCheck \/ FlashSleep
      PROVE  UNCHANGED <<sysfs, ledOn, stop, level>>
  BY <1>9, Zenon DEF InitThread, InitNoThread, FlashCheck, FlashSleep,
                     modVars, pinVars, threadVars
<1>10. ASSUME \/ \E m \in Modes : ModeStore(m)
              \/ \E n \in Periods : PeriodStore(n)
              \/ ParamStore
       PROVE  UNCHANGED <<sysfs, ledOn, stop, level>>
  <2>1. CASE \E m \in Modes : ModeStore(m)
    BY <2>1, Zenon DEF ModeStore, modVars, pinVars, threadVars
  <2>2. ASSUME NEW n, PeriodStore(n)
        PROVE  UNCHANGED <<sysfs, ledOn, stop, level>>
    BY <2>2, SMT DEF PeriodStore, modVars, pinVars, threadVars
  <2>3. CASE ParamStore
    BY <2>3, Zenon DEF ParamStore, modVars, threadVars
  <2> QED
    BY <1>10, <2>1, <2>2, <2>3
<1>11. ASSUME ExitStopped \/ ExitFree \/ UNCHANGED vars
       PROVE  UNCHANGED <<sysfs, ledOn, stop, level>>
  BY <1>11, Zenon DEF ExitStopped, ExitFree, vars, modVars, pinVars, threadVars
<1> QED
  BY <1>2, <1>3, <1>4, <1>5, <1>6, <1>7, <1>8, <1>9, <1>10, <1>11
     DEF Next, Halted, Flash, ExitRest

(* The variables have their types when the kernel starts. *)
LEMMA InitTypes == Init => TypeOK
<1>1. Init => ValueTypes
  BY DEF Init, ValueTypes, ModStates, Modes, Default
<1>2. Init => FlagTypes
  BY Zenon DEF Init, FlagTypes
<1> QED
  BY <1>1, <1>2 DEF TypeOK

(* The variables keep to their types; the period to 2 .. 10000, whatever   *)
(* users store in the attribute, or to what the parameter was given.       *)
THEOREM TypeCorrect == Spec => []TypeOK
<1>1. TypeOK /\ [Next]_vars => TypeOK'
  BY ValueStep, FlagStep DEF TypeOK
<1> QED
  BY <1>1, InitTypes, PTL DEF Spec

-----------------------------------------------------------------------------
(* The pins, while nobody writes another pin to the parameter.             *)

(* Every step keeps the invariant. *)
LEMMA StepInv ==
  ASSUME ParamPins = {} PROVE IInv /\ [Next]_vars => IInv'
<1> SUFFICES ASSUME IInv, [Next]_vars PROVE ThreadInv' /\ PinInv'
  BY ValueStep, FlagStep DEF IInv, TypeOK
<1> USE DEF IInv, TypeOK, ValueTypes, FlagTypes, ThreadInv, PinInv,
            modVars, pinVars, attrVars, threadVars
<1>1. CASE InitSysfs
  BY <1>1 DEF InitSysfs
<1>2. CASE InitGpio
  BY <1>2 DEF InitGpio
<1>3. CASE InitThread \/ InitNoThread
  BY <1>3 DEF InitThread, InitNoThread
<1>4. CASE Flash
  BY <1>4 DEF Flash, FlashCheck, FlashMode, FlashAgain, FlashSet, FlashSleep,
              Step
<1>5. CASE \E m \in Modes : ModeStore(m)
  BY <1>5 DEF ModeStore
<1>6. CASE \E n \in Periods : PeriodStore(n)
  BY <1>6 DEF PeriodStore
<1>7. CASE ParamStore
  BY <1>7 DEF ParamStore, Exiting
<1>8. CASE ExitStop \/ ExitRest
  BY <1>8 DEF ExitStop, ExitRest, ExitStopped, ExitPut, ExitOff, ExitFree
<1>9. CASE UNCHANGED vars
  BY <1>9 DEF vars
<1> QED
  BY <1>1, <1>2, <1>3, <1>4, <1>5, <1>6, <1>7, <1>8, <1>9 DEF Next, Halted

(* The inductive invariant holds of the driver. *)
LEMMA Invariant == ASSUME ParamPins = {} PROVE Spec => []IInv
<1>1. Init => ThreadInv /\ PinInv
  BY DEF Init, ThreadInv, PinInv
<1> QED
  BY <1>1, InitTypes, StepInv, PTL DEF Spec, IInv

(* After rmmod no pin is high: the thread ended before exit switched the   *)
(* LED off, and it is the only pin that was ever lit.                      *)
THEOREM LedOffAfterExit == ASSUME ParamPins = {} PROVE Spec => []ExitLedOff
<1>1. IInv => ExitLedOff
  BY DEF IInv, PinInv, ExitLedOff
<1> QED
  BY <1>1, Invariant, PTL

(* After rmmod no pin is requested, over any number of loads with any pin. *)
THEOREM PinFreeAfterExit == ASSUME ParamPins = {} PROVE Spec => []ExitFreesPin
<1>1. IInv => ExitFreesPin
  BY DEF IInv, PinInv, ExitFreesPin
<1> QED
  BY <1>1, Invariant, PTL

=============================================================================
