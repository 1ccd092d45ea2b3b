--------------------------- MODULE GpioLkmProofs ---------------------------
(***************************************************************************)
(* Proofs about GpioLkm for any number of pins and any set of files: an    *)
(* open file keeps its structure, the pins are low after rmmod, and with   *)
(* one process per pin the cached direction and level are those of the pin.*)
(***************************************************************************)
EXTENDS GpioLkm, TLAPS

-----------------------------------------------------------------------------
(* The inductive invariant.  None of the three properties is inductive:    *)
(* that exit frees no structure of an open file rests on the module count, *)
(* that open() gets an allocated structure on the order of the steps of    *)
(* the loops, and that a write() leaves structure and pin in agreement on  *)
(* what it has done so far and on nobody else writing to the pin.          *)

(* The order of the loops: a node has a structure behind it and is behind  *)
(* the pin init is at; exit takes the pins in order and sets each low.     *)
LoopInv ==
  /\ mod \in {"out", "exited"} => nodes = {} /\ structs = {}
  /\ mod \in {"init", "in"} =>
       region = "ok" /\ nodes \subseteq structs /\ \A p \in nodes : p < at
  /\ mod = "init" /\ stage \in {"request", "add", "create"} => at \in structs
  /\ mod = "in" => at = NPins + 1
  /\ ExitLeavesPinsLow
  /\ mod = "exit" =>
       /\ IF region = "ok" THEN at = 1 ELSE structs = {}
       /\ \A p \in nodes : p >= at
       /\ \A p \in Pins : p < at => hwdir[p] = "out" /\ hwval[p] = "low"

(* A file: its pin is one init has finished, whose structure is there; no  *)
(* file is open before init and from exit on.                              *)
FileInv ==
  \A f \in Files :
    /\ fpc[f] = "closed" <=> fpin[f] = 0
    /\ fpc[f] # "closed" =>
         /\ fpin[f] \in structs
         /\ mod \in {"init", "in", "failed"}
         /\ mod \in {"init", "in"} => fpin[f] < at
    /\ fpc[f] = "hw" => fcmd[f] \in Commands
    /\ fpc[f] = "dir" => fcmd[f] \in {"in", "out"}
    /\ fpc[f] = "state" => fcmd[f] \in {"out", "low", "high"}

(* init has requested the pin. *)
Ready(p) ==
  /\ mod \in {"init", "in"}
  /\ p < at \/ (p = at /\ stage \in {"add", "create"})

Agrees(p) == dir[p] = hwdir[p] /\ (dir[p] = "out" => state[p] = hwval[p])

(* How far a write() has come in bringing structure and pin together. *)
Halfway(f) ==
  LET p == fpin[f] IN
  /\ fpc[f] = "hw" => Agrees(p) /\ HasEffect(fcmd[f], dir[p])
  /\ fpc[f] = "dir" => /\ hwdir[p] = fcmd[f]
                       /\ fcmd[f] = "out" => hwval[p] = "low"
  /\ fpc[f] = "state" => /\ dir[p] = "out" /\ hwdir[p] = "out"
                         /\ hwval[p] = IF fcmd[f] = "out" THEN "low"
                                                       ELSE fcmd[f]

PinInv ==
  Exclusive =>
    /\ \A f, g \in Files : fpin[f] = fpin[g] /\ fpin[f] # 0 => f = g
    /\ mod \in {"init", "in"} =>
         /\ \A p \in Pins : Ready(p) /\ Idle(p) => Agrees(p)
         /\ \A f \in Files : Halfway(f)

IInv == TypeOK /\ LoopInv /\ FileInv /\ PinInv

-----------------------------------------------------------------------------
(* The invariant holds initially and every step keeps it.                  *)

(* The pins are the numbers from 1, and there is one after the last. *)
LEMMA PinNumbers ==
  /\ NPins \in Nat /\ 1 <= NPins
  /\ \A p : p \in Pins <=> p \in Nat /\ 1 <= p /\ p <= NPins
  /\ \A a : a \in 1 .. NPins + 1 <=> a \in Nat /\ 1 <= a /\ a <= NPins + 1
BY GpioAssumption DEF Pins

(* Nothing is loaded and no file is open. *)
LEMMA InitInv == Init => IInv
<1> SUFFICES ASSUME Init PROVE IInv
  OBVIOUS
<1>1. TypeOK
  BY PinNumbers DEF Init, TypeOK
<1>2. LoopInv /\ FileInv /\ PinInv
  BY DEF Init, LoopInv, FileInv, PinInv, Idle, Ready, Halfway,
         ExitLeavesPinsLow
<1> QED
  BY <1>1, <1>2 DEF IInv

(* The steps of gpio_lkm_init(). *)
LEMMA InitStepInv ==
  ASSUME IInv, InitStep
  PROVE  IInv'
<1> USE PinNumbers DEF IInv
<1>1. ASSUME InitRegion PROVE IInv'
  <2> USE <1>1 DEF InitRegion, loopVars, resVars, pinVars, fileVars
  <2>1. TypeOK'
    BY DEF TypeOK, FileInv, Commands
  <2>2. LoopInv'
    BY DEF TypeOK, LoopInv, FileInv, ExitLeavesPinsLow
  <2>3. FileInv'
    BY DEF TypeOK, LoopInv, FileInv, Commands
  <2>4. PinInv'
    BY DEF TypeOK, LoopInv, FileInv, PinInv, Idle, Ready, Agrees, Halfway,
           HasEffect
  <2> QED
    BY <2>1, <2>2, <2>3, <2>4
<1>2. ASSUME InitClass PROVE IInv'
  <2> USE <1>2 DEF InitClass, loopVars, resVars, pinVars, fileVars
  <2>1. TypeOK'
    BY DEF TypeOK, FileInv, Commands
  <2>2. LoopInv'
    BY DEF TypeOK, LoopInv, FileInv, ExitLeavesPinsLow
  <2>3. FileInv'
    BY DEF TypeOK, LoopInv, FileInv, Commands
  <2>4. PinInv'
    BY DEF TypeOK, LoopInv, FileInv, PinInv, Idle, Ready, Agrees, Halfway,
           HasEffect
  <2> QED
    BY <2>1, <2>2, <2>3, <2>4
<1>3. ASSUME InitAlloc PROVE IInv'
  <2> USE <1>3 DEF InitAlloc, AtStage, loopVars, resVars, pinVars, fileVars
  <2>1. TypeOK'
    BY DEF TypeOK, FileInv, Commands
  <2>2. LoopInv'
    BY DEF TypeOK, LoopInv, FileInv, ExitLeavesPinsLow
  <2>3. FileInv'
    BY DEF TypeOK, LoopInv, FileInv, Commands
  <2>4. PinInv'
    BY DEF TypeOK, LoopInv, FileInv, PinInv, Idle, Ready, Agrees, Halfway,
           HasEffect
  <2> QED
    BY <2>1, <2>2, <2>3, <2>4
<1>4. ASSUME InitRequest PROVE IInv'
  <2> USE <1>4 DEF InitRequest, AtStage, loopVars, resVars, pinVars, fileVars
  <2>1. TypeOK'
    BY DEF TypeOK, FileInv, Commands
  <2>2. LoopInv'
    BY DEF TypeOK, LoopInv, FileInv, ExitLeavesPinsLow
  <2>3. FileInv'
    BY DEF TypeOK, LoopInv, FileInv, Commands
  <2>4. PinInv'
    BY DEF TypeOK, LoopInv, FileInv, PinInv, Idle, Ready, Agrees, Halfway,
           HasEffect
  <2> QED
    BY <2>1, <2>2, <2>3, <2>4
<1>5. ASSUME InitAdd PROVE IInv'
  <2> USE <1>5 DEF InitAdd, AtStage, loopVars, resVars, pinVars, fileVars
  <2>1. TypeOK'
    BY DEF TypeOK, FileInv, Commands
  <2>2. LoopInv'
    BY DEF TypeOK, LoopInv, FileInv, ExitLeavesPinsLow
  <2>3. FileInv'
    BY DEF TypeOK, LoopInv, FileInv, Commands
  <2>4. PinInv'
    BY DEF TypeOK, LoopInv, FileInv, PinInv, Idle, Ready, Agrees, Halfway,
           HasEffect
  <2> QED
    BY <2>1, <2>2, <2>3, <2>4
<1>6. ASSUME InitCreate PROVE IInv'
  <2> USE <1>6 DEF InitCreate, AtStage, loopVars, resVars, pinVars, fileVars
  <2>0. at \in Pins /\ at \in Nat /\ at + 1 \in 1 .. NPins + 1
    BY SMT DEF TypeOK
  <2>1. TypeOK'
    BY <2>0 DEF TypeOK, FileInv, Commands
  <2>2. LoopInv'
    <3>1. \A p \in nodes : p \in Nat /\ p < at
      BY DEF TypeOK, LoopInv
    <3>2. \A p \in nodes' : p < at + 1
      BY <2>0, <3>1
    <3> QED
      BY <2>0, <3>2 DEF LoopInv, ExitLeavesPinsLow
  <2>3. FileInv'
    BY DEF TypeOK, LoopInv, FileInv, Commands
  <2>4. PinInv'
    BY DEF TypeOK, LoopInv, FileInv, PinInv, Idle, Ready, Agrees, Halfway,
           HasEffect
  <2> QED
    BY <2>1, <2>2, <2>3, <2>4
<1>7. ASSUME InitDone PROVE IInv'
  <2> USE <1>7 DEF InitDone, loopVars, resVars, pinVars, fileVars
  <2>1. TypeOK'
    BY DEF TypeOK, FileInv, Commands
  <2>2. LoopInv'
    BY DEF TypeOK, LoopInv, FileInv, ExitLeavesPinsLow
  <2>3. FileInv'
    BY DEF TypeOK, LoopInv, FileInv, Commands
  <2>4. PinInv'
    BY DEF TypeOK, LoopInv, FileInv, PinInv, Idle, Ready, Agrees, Halfway,
           HasEffect
  <2> QED
    BY <2>1, <2>2, <2>3, <2>4
<1>8. ASSUME InitNoMemory PROVE IInv'
  <2> USE <1>8 DEF InitNoMemory, loopVars, resVars, pinVars, fileVars
  <2>1. TypeOK'
    BY DEF TypeOK, FileInv, Commands
  <2>2. LoopInv'
    BY DEF TypeOK, LoopInv, FileInv, ExitLeavesPinsLow
  <2>3. FileInv'
    BY DEF TypeOK, LoopInv, FileInv, Commands
  <2>4. PinInv'
    BY DEF TypeOK, LoopInv, FileInv, PinInv, Idle, Ready, Agrees, Halfway,
           HasEffect
  <2> QED
    BY <2>1, <2>2, <2>3, <2>4
<1>9. ASSUME InitAddFails PROVE IInv'
  <2> USE <1>9 DEF InitAddFails, loopVars, resVars, pinVars, fileVars
  <2>1. TypeOK'
    BY DEF TypeOK, FileInv, Commands
  <2>2. LoopInv'
    BY DEF TypeOK, LoopInv, FileInv, ExitLeavesPinsLow
  <2>3. FileInv'
    BY DEF TypeOK, LoopInv, FileInv, Commands
  <2>4. PinInv'
    BY DEF TypeOK, LoopInv, FileInv, PinInv, Idle, Ready, Agrees, Halfway,
           HasEffect
  <2> QED
    BY <2>1, <2>2, <2>3, <2>4
<1> QED
  BY <1>1, <1>2, <1>3, <1>4, <1>5, <1>6, <1>7, <1>8, <1>9 DEF InitStep

(* The steps of gpio_lkm_exit(). *)
LEMMA ExitStepInv ==
  ASSUME IInv, ExitStep
  PROVE  IInv'
<1> USE PinNumbers DEF IInv
<1>1. ASSUME ExitBegin PROVE IInv'
  <2> USE <1>1 DEF ExitBegin, loopVars, resVars, pinVars, fileVars
  <2>1. TypeOK'
    BY DEF TypeOK, FileInv, Commands
  <2>2. LoopInv'
    BY DEF TypeOK, LoopInv, FileInv, ExitLeavesPinsLow
  <2>3. FileInv'
    BY DEF TypeOK, LoopInv, FileInv, Commands
  <2>4. PinInv'
    BY DEF TypeOK, LoopInv, FileInv, PinInv, Idle, Ready, Agrees, Halfway,
           HasEffect
  <2> QED
    BY <2>1, <2>2, <2>3, <2>4
<1>2. ASSUME ExitFree PROVE IInv'
  <2> USE <1>2 DEF ExitFree, loopVars, resVars, pinVars, fileVars
  <2>1. TypeOK'
    BY DEF TypeOK, FileInv, Commands
  <2>2. LoopInv'
    BY DEF TypeOK, LoopInv, FileInv, ExitLeavesPinsLow
  <2>3. FileInv'
    BY DEF TypeOK, LoopInv, FileInv, Commands
  <2>4. PinInv'
    BY DEF TypeOK, LoopInv, FileInv, PinInv, Idle, Ready, Agrees, Halfway,
           HasEffect
  <2> QED
    BY <2>1, <2>2, <2>3, <2>4
<1>3. ASSUME ExitPin PROVE IInv'
  <2> USE <1>3 DEF ExitPin, loopVars, resVars, pinVars, fileVars
  <2>0. at \in Pins /\ at \in Nat /\ at + 1 \in 1 .. NPins + 1
    BY SMT DEF TypeOK
  <2>1. TypeOK'
    <3>1. /\ hwdir' \in [Pins -> {"in", "out"}]
          /\ hwval' \in [Pins -> {"low", "high"}]
      BY <2>0 DEF TypeOK
    <3>2. /\ at' \in 1 .. NPins + 1
          /\ nodes' \in SUBSET Pins /\ reqd' \in SUBSET Pins
          /\ fault' \in {"none", "error_pointer", "stale_cdev", "no_code"}
      BY <2>0 DEF TypeOK
    <3>3. /\ mod' = mod /\ stage' = stage /\ region' = region /\ class' = class
          /\ structs' = structs /\ cdevs' = cdevs /\ stale' = stale
          /\ dir' = dir /\ state' = state
          /\ fpc' = fpc /\ fpin' = fpin /\ fcmd' = fcmd
      OBVIOUS
    <3> HIDE <1>3 DEF ExitPin
    <3> QED
      BY <3>1, <3>2, <3>3 DEF TypeOK
  <2>2. LoopInv'
    <3>1. /\ structs = {} /\ \A p \in nodes : p \in Nat /\ p >= at
          /\ \A p \in Pins :
               p \in Nat /\ (p < at => hwdir[p] = "out" /\ hwval[p] = "low")
      BY DEF TypeOK, LoopInv
    <3>2. \A p \in nodes' : p >= at'
      BY <2>0, <3>1
    <3>3. \A p \in Pins : p < at' => hwdir'[p] = "out" /\ hwval'[p] = "low"
      BY <2>0, <3>1 DEF TypeOK
    <3> QED
      BY <3>1, <3>2, <3>3 DEF LoopInv, ExitLeavesPinsLow
  <2>3. FileInv'
    BY DEF TypeOK, LoopInv, FileInv, Commands
  <2>4. PinInv'
    BY DEF TypeOK, LoopInv, FileInv, PinInv, Idle, Ready, Agrees, Halfway,
           HasEffect
  <2> QED
    BY <2>1, <2>2, <2>3, <2>4
<1>4. ASSUME ExitDone PROVE IInv'
  <2> USE <1>4 DEF ExitDone, loopVars, resVars, pinVars, fileVars
  <2>1. TypeOK'
    BY DEF TypeOK, FileInv, Commands
  <2>2. LoopInv'
    BY DEF TypeOK, LoopInv, FileInv, ExitLeavesPinsLow
  <2>3. FileInv'
    BY DEF TypeOK, LoopInv, FileInv, Commands
  <2>4. PinInv'
    BY DEF TypeOK, LoopInv, FileInv, PinInv, Idle, Ready, Agrees, Halfway,
           HasEffect
  <2> QED
    BY <2>1, <2>2, <2>3, <2>4
<1> QED
  BY <1>1, <1>2, <1>3, <1>4 DEF ExitStep

(* The steps of a process with a device file. *)
LEMMA FileStepInv ==
  ASSUME IInv, NEW f \in Files, FileStep(f)
  PROVE  IInv'
<1> USE PinNumbers DEF IInv
<1>1. ASSUME NEW p \in Pins, OpenFile(f, p) PROVE IInv'
  <2> USE <1>1 DEF OpenFile, MayOpen, loopVars, resVars, pinVars, fileVars
  <2>1. TypeOK'
    BY DEF TypeOK, FileInv, Commands
  <2>2. LoopInv'
    BY DEF TypeOK, LoopInv, FileInv, ExitLeavesPinsLow
  <2>3. FileInv'
    BY DEF TypeOK, LoopInv, FileInv, Commands
  <2>4. PinInv'
    BY DEF TypeOK, LoopInv, FileInv, PinInv, Idle, Ready, Agrees, Halfway,
           HasEffect
  <2> QED
    BY <2>1, <2>2, <2>3, <2>4
<1>2. ASSUME CloseFile(f) PROVE IInv'
  <2> USE <1>2 DEF CloseFile, loopVars, resVars, pinVars, fileVars
  <2>1. TypeOK'
    BY DEF TypeOK, FileInv, Commands
  <2>2. LoopInv'
    BY DEF TypeOK, LoopInv, FileInv, ExitLeavesPinsLow
  <2>3. FileInv'
    BY DEF TypeOK, LoopInv, FileInv, Commands
  <2>4. PinInv'
    BY DEF TypeOK, LoopInv, FileInv, PinInv, Idle, Ready, Agrees, Halfway,
           HasEffect
  <2> QED
    BY <2>1, <2>2, <2>3, <2>4
<1>3. ASSUME FileOrphaned(f) PROVE IInv'
  <2> USE <1>3 DEF FileOrphaned, loopVars, resVars, pinVars, fileVars
  <2>1. TypeOK'
    BY DEF TypeOK, FileInv, Commands
  <2>2. LoopInv'
    BY DEF TypeOK, LoopInv, FileInv, ExitLeavesPinsLow
  <2>3. FileInv'
    BY DEF TypeOK, LoopInv, FileInv, Commands
  <2>4. PinInv'
    BY DEF TypeOK, LoopInv, FileInv, PinInv, Idle, Ready, Agrees, Halfway,
           HasEffect
  <2> QED
    BY <2>1, <2>2, <2>3, <2>4
<1>4. ASSUME NEW c \in Commands, WriteCheck(f, c) PROVE IInv'
  <2> USE <1>4 DEF WriteCheck, loopVars, resVars, pinVars, fileVars
  <2>1. TypeOK'
    BY DEF TypeOK, FileInv, Commands
  <2>2. LoopInv'
    BY DEF TypeOK, LoopInv, FileInv, ExitLeavesPinsLow
  <2>3. FileInv'
    BY DEF TypeOK, LoopInv, FileInv, Commands
  <2>4. PinInv'
    BY DEF TypeOK, LoopInv, FileInv, PinInv, Idle, Ready, Agrees, Halfway,
           HasEffect
  <2> QED
    BY <2>1, <2>2, <2>3, <2>4
<1>5. ASSUME WriteHw(f) PROVE IInv'
  <2> USE <1>5 DEF WriteHw, loopVars, resVars, pinVars, fileVars
  <2>1. TypeOK'
    BY DEF TypeOK, FileInv, Commands
  <2>2. LoopInv'
    BY DEF TypeOK, LoopInv, FileInv, ExitLeavesPinsLow
  <2>3. FileInv'
    BY DEF TypeOK, LoopInv, FileInv, Commands
  <2>4. PinInv'
    BY DEF TypeOK, LoopInv, FileInv, PinInv, Idle, Ready, Agrees, Halfway,
           HasEffect
  <2> QED
    BY <2>1, <2>2, <2>3, <2>4
<1>6. ASSUME WriteDir(f) PROVE IInv'
  <2> USE <1>6 DEF WriteDir, loopVars, resVars, pinVars, fileVars
  <2>1. TypeOK'
    BY DEF TypeOK, FileInv, Commands
  <2>2. LoopInv'
    BY DEF TypeOK, LoopInv, FileInv, ExitLeavesPinsLow
  <2>3. FileInv'
    BY DEF TypeOK, LoopInv, FileInv, Commands
  <2>4. PinInv'
    BY DEF TypeOK, LoopInv, FileInv, PinInv, Idle, Ready, Agrees, Halfway,
           HasEffect
  <2> QED
    BY <2>1, <2>2, <2>3, <2>4
<1>7. ASSUME WriteState(f) PROVE IInv'
  <2> USE <1>7 DEF WriteState, loopVars, resVars, pinVars, fileVars
  <2>1. TypeOK'
    BY DEF TypeOK, FileInv, Commands
  <2>2. LoopInv'
    BY DEF TypeOK, LoopInv, FileInv, ExitLeavesPinsLow
  <2>3. FileInv'
    BY DEF TypeOK, LoopInv, FileInv, Commands
  <2>4. PinInv'
    BY DEF TypeOK, LoopInv, FileInv, PinInv, Idle, Ready, Agrees, Halfway,
           HasEffect
  <2> QED
    BY <2>1, <2>2, <2>3, <2>4
<1> QED
  BY <1>1, <1>2, <1>3, <1>4, <1>5, <1>6, <1>7 DEF FileStep

(* Every step, and stuttering. *)
LEMMA StepInv == IInv /\ [Next]_vars => IInv'
<1> SUFFICES ASSUME IInv, [Next]_vars PROVE IInv'
  OBVIOUS
<1> USE DEF IInv
<1>1. ASSUME (\E p \in Pins : OpenGone(p)) \/ UNCHANGED vars PROVE IInv'
  <2> USE <1>1 DEF OpenGone, vars, loopVars, resVars, pinVars, fileVars
  <2>1. TypeOK'
    BY DEF TypeOK
  <2>2. LoopInv' /\ FileInv'
    BY DEF LoopInv, FileInv, ExitLeavesPinsLow
  <2>3. PinInv'
    BY DEF PinInv, Idle, Ready, Agrees, Halfway
  <2> QED
    BY <2>1, <2>2, <2>3
<1> QED
  BY <1>1, InitStepInv, ExitStepInv, FileStepInv
     DEF Next, Running, Halted

-----------------------------------------------------------------------------
(* The inductive invariant holds of the driver. *)
LEMMA Invariant == Spec => []IInv
BY InitInv, StepInv, PTL DEF Spec

(* The variables keep their types. *)
THEOREM TypeCorrect == Spec => []TypeOK
BY Invariant, PTL DEF IInv

(* However opens, closes, a failing init and rmmod interleave, the         *)
(* structure open() gave a file is allocated until its release().          *)
THEOREM OpenFilesKeepStructure == Spec => []OpenFileAlive
<1>1. IInv => OpenFileAlive
  BY DEF IInv, FileInv, OpenFileAlive
<1> QED
  BY <1>1, Invariant, PTL

(* After rmmod all pins are outputs at the low level, whatever the         *)
(* processes had written before.                                           *)
THEOREM PinsLowAfterExit == Spec => []ExitLeavesPinsLow
<1>1. IInv => ExitLeavesPinsLow
  BY DEF IInv, LoopInv
<1> QED
  BY <1>1, Invariant, PTL

(* If no two processes have the same pin open, the cached direction and    *)
(* level agree with the pin whenever no write() to it is under way.        *)
THEOREM CacheAgreesWithPin ==
  ASSUME Exclusive PROVE Spec => []DirMatchesPin
<1>1. IInv => DirMatchesPin
  BY GpioAssumption DEF IInv, LoopInv, PinInv, DirMatchesPin, Ready, Agrees,
                        Pins
<1> QED
  BY <1>1, Invariant, PTL

=============================================================================
