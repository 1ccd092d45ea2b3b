------------------------------ MODULE GpioLkm ------------------------------
(***************************************************************************)
(* The Raspberry Pi GPIO character device driver, gpio/gpio_lkm.c: loading *)
(* and unloading step by step, with every call that may fail, and the      *)
(* processes that write commands to the pins while that goes on.           *)
(*                                                                         *)
(* The pins are numbered in the order of the loop in gpio_lkm_init().  Of  *)
(* a pin the hardware keeps a direction and the level in its output latch; *)
(* the driver caches both in its struct gpio_lkm_dev.  Nothing is locked.  *)
(*                                                                         *)
(* External to src/: the character device table keeps what cdev_add() put  *)
(* into it until cdev_del(); class_create() and device_create() report     *)
(* failure by an error pointer, never by NULL; a module is unloaded only   *)
(* while no file holds gpio_lkm_fops.owner, but its code goes after a      *)
(* failed init whoever holds it.  (cdev.owner, set in line 391, is cleared *)
(* again by the memset() in cdev_init().)  gpio_direction_input() and      *)
(* gpio_direction_output(), whose results the driver ignores, are taken to *)
(* succeed on a pin that was requested.                                    *)
(*                                                                         *)
(* A step that follows an error pointer, or memory or code that is gone,   *)
(* sets fault, and nothing after it is modelled; nor is a second insmod    *)
(* after a failed one.                                                     *)
(***************************************************************************)
EXTENDS Naturals

CONSTANTS NPins,     (* how many pins the driver takes, 14 in the code   *)
          Files,     (* the struct file instances of user processes      *)
          Exclusive  (* TRUE: one process at a time has a given pin open *)

ASSUME GpioAssumption ==
  /\ NPins \in Nat \ {0}
  /\ Exclusive \in BOOLEAN

Pins == 1 .. NPins

VARIABLES
  mod,      (* the module: "failed" is out again after an error in init, *)
            (* "exited" after gpio_lkm_exit()                            *)
  stage,    (* what init does next to the pin it is at                   *)
  at,       (* the pin the loop of init or exit is at                    *)
  region,   (* the device numbers: "none" or "ok", registered            *)
  class,    (* gpio_lkm_class: "none", "ok" or "err", an error pointer   *)
  nodes,    (* pins with a node in /dev                                  *)
  reqd,     (* pins requested from the GPIO core                         *)
  structs,  (* pins with an allocated struct gpio_lkm_dev                *)
  cdevs,    (* pins whose cdev of this load is in the table              *)
  stale,    (* pins that have a cdev of an earlier load in the table     *)
  dir,      (* gpio_lkm_dev.dir                                          *)
  state,    (* gpio_lkm_dev.state                                        *)
  hwdir,    (* the direction of the pin                                  *)
  hwval,    (* the level in the output latch of the pin                  *)
  fpc,      (* per file: where its process stands                        *)
  fpin,     (* per file: the pin it has opened, 0 for none               *)
  fcmd,     (* per file: the command write() is carrying out             *)
  fault     (* "none" or the undefined step that was taken               *)

loopVars == <<mod, stage, at>>
resVars  == <<region, class, nodes, reqd, structs, cdevs, stale>>
pinVars  == <<dir, state, hwdir, hwval>>
fileVars == <<fpc, fpin, fcmd>>
vars == <<loopVars, resVars, pinVars, fileVars, fault>>

Commands == {"out", "in", "low", "high"}

TypeOK ==
  /\ mod \in {"out", "init", "in", "exit", "failed", "exited"}
  /\ stage \in {"class", "alloc", "request", "add", "create"}
  /\ at \in 1 .. NPins + 1
  /\ region \in {"none", "ok"} /\ class \in {"none", "ok", "err"}
  /\ nodes \in SUBSET Pins /\ reqd \in SUBSET Pins
  /\ structs \in SUBSET Pins
  /\ cdevs \in SUBSET Pins /\ stale \in SUBSET Pins
  /\ dir \in [Pins -> {"in", "out"}] /\ hwdir \in [Pins -> {"in", "out"}]
  /\ state \in [Pins -> {"low", "high"}] /\ hwval \in [Pins -> {"low", "high"}]
  /\ fpc \in [Files -> {"closed", "open", "hw", "dir", "state"}]
  /\ fpin \in [Files -> Pins \cup {0}]
  /\ fcmd \in [Files -> Commands \cup {"none"}]
  /\ fault \in {"none", "error_pointer", "stale_cdev", "no_code"}

Init ==
  /\ mod = "out" /\ stage = "class" /\ at = 1
  /\ region = "none" /\ class = "none"
  /\ nodes = {} /\ reqd = {} /\ structs = {} /\ cdevs = {} /\ stale = {}
  /\ dir = [p \in Pins |-> "in"] /\ state = [p \in Pins |-> "low"]
  /\ hwdir = [p \in Pins |-> "in"] /\ hwval = [p \in Pins |-> "low"]
  /\ fpc = [f \in Files |-> "closed"]
  /\ fpin = [f \in Files |-> 0]
  /\ fcmd = [f \in Files |-> "none"]
  /\ fault = "none"

(***************************************************************************)
(* gpio_lkm_init                                                           *)
(***************************************************************************)

(* alloc_chrdev_region(); if that fails nothing has changed. *)
InitRegion ==
  /\ mod \in {"out", "exited"}
  /\ mod' = "init" /\ stage' = "class" /\ at' = 1
  /\ region' = "ok"
  /\ UNCHANGED <<class, nodes, reqd, structs, cdevs, stale, pinVars, fileVars,
                 fault>>

(* The test against NULL lets an error pointer through. *)
InitClass ==
  /\ mod = "init" /\ stage = "class"
  /\ class' \in {"ok", "err"}
  /\ stage' = "alloc"
  /\ UNCHANGED <<mod, at, region, nodes, reqd, structs, cdevs, stale, pinVars,
                 fileVars, fault>>

(* Wrong variant: the loop does not stop at the last pin. *)
AtStageNoBound(s, next) == mod = "init" /\ stage = s /\ stage' = next

AtStage(s, next) == mod = "init" /\ stage = s /\ at \in Pins /\ stage' = next

InitAlloc ==
  /\ AtStage("alloc", "request")
  /\ structs' = structs \cup {at}
  /\ UNCHANGED <<mod, at, region, class, nodes, reqd, cdevs, stale, pinVars,
                 fileVars, fault>>

(* gpio_request_one(..., GPIOF_OUT_INIT_LOW), then dir and state. *)
InitRequest ==
  /\ AtStage("request", "add")
  /\ reqd' = reqd \cup {at}
  /\ hwdir' = [hwdir EXCEPT ![at] = "out"]
  /\ hwval' = [hwval EXCEPT ![at] = "low"]
  /\ dir' = [dir EXCEPT ![at] = "out"]
  /\ state' = [state EXCEPT ![at] = "low"]
  /\ UNCHANGED <<mod, at, region, class, nodes, structs, cdevs, stale,
                 fileVars, fault>>

InitAdd ==
  /\ AtStage("add", "create")
  /\ cdevs' = cdevs \cup {at}
  /\ UNCHANGED <<mod, at, region, class, nodes, reqd, structs, stale, pinVars,
                 fileVars, fault>>

(* device_create(), which fails if the class is an error; a failure is an  *)
(* error pointer and passes the test against NULL.                         *)
InitCreate ==
  /\ AtStage("create", "alloc")
  /\ at' = at + 1
  /\ \/ class = "ok" /\ nodes' = nodes \cup {at}
     \/ UNCHANGED nodes
  /\ UNCHANGED <<mod, region, class, reqd, structs, cdevs, stale, pinVars,
                 fileVars, fault>>

InitDone ==
  /\ mod = "init" /\ at = NPins + 1
  /\ mod' = "in"
  /\ UNCHANGED <<stage, at, resVars, pinVars, fileVars, fault>>

(* kmalloc() or gpio_request_one() fails: init returns on the spot. *)
InitNoMemory ==
  /\ mod = "init" /\ stage \in {"alloc", "request"} /\ at \in Pins
  /\ mod' = "failed"
  /\ UNCHANGED <<stage, at, resVars, pinVars, fileVars, fault>>

(* cdev_add() fails: all nodes, the class and the region are given back,   *)
(* for which the class has to be one.                                      *)
InitAddFails ==
  /\ mod = "init" /\ stage = "add" /\ at \in Pins
  /\ IF class = "err"
       THEN fault' = "error_pointer" /\ UNCHANGED <<mod, region, class, nodes>>
       ELSE /\ mod' = "failed" /\ nodes' = {} /\ class' = "none"
            /\ region' = "none" /\ UNCHANGED fault
  /\ UNCHANGED <<stage, at, reqd, structs, cdevs, stale, pinVars, fileVars>>

(***************************************************************************)
(* gpio_lkm_exit                                                           *)
(***************************************************************************)

(* Wrong variant: without an owner open files do not hold the module. *)
ExitBeginUnowned ==
  /\ mod = "in"
  /\ mod' = "exit" /\ at' = 1
  /\ UNCHANGED <<stage, resVars, pinVars, fileVars, fault>>

ExitBegin ==
  /\ mod = "in"
  /\ \A f \in Files : fpc[f] = "closed"
  /\ mod' = "exit" /\ at' = 1
  /\ UNCHANGED <<stage, resVars, pinVars, fileVars, fault>>

(* The region and the structures, cdevs inside, go before the nodes do. *)
ExitFree ==
  /\ mod = "exit" /\ region = "ok"
  /\ region' = "none"
  /\ structs' = {}
  /\ UNCHANGED <<loopVars, class, nodes, reqd, cdevs, stale, pinVars, fileVars,
                 fault>>

(* Wrong variant: the pins are given back as they are. *)
ExitPinAsIs ==
  /\ mod = "exit" /\ region = "none" /\ at \in Pins
  /\ class # "err"
  /\ nodes' = nodes \ {at} /\ reqd' = reqd \ {at} /\ at' = at + 1
  /\ UNCHANGED <<mod, stage, region, class, structs, cdevs, stale, pinVars,
                 fileVars, fault>>

ExitPin ==
  /\ mod = "exit" /\ region = "none" /\ at \in Pins
  /\ hwdir' = [hwdir EXCEPT ![at] = "out"]
  /\ hwval' = [hwval EXCEPT ![at] = "low"]
  /\ IF class = "err"
       THEN fault' = "error_pointer" /\ UNCHANGED <<at, nodes, reqd>>
       ELSE /\ nodes' = nodes \ {at} /\ reqd' = reqd \ {at} /\ at' = at + 1
            /\ UNCHANGED fault
  /\ UNCHANGED <<mod, stage, region, class, structs, cdevs, stale, dir, state,
                 fileVars>>

(* class_destroy(); the cdevs stay in the table, where the memory they     *)
(* were in is no longer the driver's.                                      *)
ExitDone ==
  /\ mod = "exit" /\ at = NPins + 1
  /\ mod' = "exited"
  /\ class' = "none"
  /\ stale' = stale \cup cdevs
  /\ cdevs' = {}
  /\ UNCHANGED <<stage, at, region, nodes, reqd, structs, pinVars, fileVars,
                 fault>>

(***************************************************************************)
(* The device files                                                        *)
(***************************************************************************)

MayOpen(p) == Exclusive => \A f \in Files : fpin[f] # p

(* chrdev_open() finds the newest cdev of the number and takes the owner   *)
(* of its operations, which a module on its way out no longer allows;      *)
(* gpio_lkm_open() then has the structure from the cdev.                   *)
OpenFile(f, p) ==
  /\ fpc[f] = "closed" /\ p \in nodes
  /\ mod \in {"init", "in"}
  /\ MayOpen(p)
  /\ fpc' = [fpc EXCEPT ![f] = "open"]
  /\ fpin' = [fpin EXCEPT ![f] = p]
  /\ UNCHANGED <<loopVars, resVars, pinVars, fcmd, fault>>

(* While a node leads to no usable cdev open() fails, or looks into what   *)
(* was the structure: freed by this exit, left by an earlier load, or      *)
(* owned by a module whose init failed.                                    *)
OpenGone(p) ==
  /\ p \in nodes
  /\ mod = "failed" \/ (mod = "exit" /\ (p \notin structs \/ p \in stale))
  /\ fault' = "stale_cdev"
  /\ UNCHANGED <<loopVars, resVars, pinVars, fileVars>>

CloseFile(f) ==
  /\ fpc[f] = "open" /\ mod # "failed"
  /\ fpc' = [fpc EXCEPT ![f] = "closed"]
  /\ fpin' = [fpin EXCEPT ![f] = 0]
  /\ UNCHANGED <<loopVars, resVars, pinVars, fcmd, fault>>

(* A process is in the driver, or comes to it, after init has failed. *)
FileOrphaned(f) ==
  /\ fpc[f] # "closed" /\ mod = "failed"
  /\ fault' = "no_code"
  /\ UNCHANGED <<loopVars, resVars, pinVars, fileVars>>

(***************************************************************************)
(* gpio_lkm_write                                                          *)
(***************************************************************************)

(* The cached direction decides whether there is anything to do: "in" and  *)
(* "out" only if it changes, "low" and "high" only for an output.  If not, *)
(* 0, -EPERM or, for no command at all, -EINVAL is returned and nothing    *)
(* has changed.                                                            *)
HasEffect(c, d) ==
  \/ c = "in"  /\ d = "out"
  \/ c = "out" /\ d = "in"
  \/ c \in {"low", "high"} /\ d = "out"

WriteCheck(f, c) ==
  /\ fpc[f] = "open" /\ mod # "failed"
  /\ HasEffect(c, dir[fpin[f]])
  /\ fpc' = [fpc EXCEPT ![f] = "hw"]
  /\ fcmd' = [fcmd EXCEPT ![f] = c]
  /\ UNCHANGED <<loopVars, resVars, pinVars, fpin, fault>>

(* gpio_direction_input(), gpio_direction_output(gpio, low) or             *)
(* gpio_set_value().                                                       *)
WriteHw(f) ==
  LET c == fcmd[f] p == fpin[f] IN
  /\ fpc[f] = "hw" /\ mod # "failed"
  /\ hwdir' = IF c \in {"in", "out"} THEN [hwdir EXCEPT ![p] = c] ELSE hwdir
  /\ hwval' = CASE c = "in" -> hwval
                [] c = "out" -> [hwval EXCEPT ![p] = "low"]
                [] OTHER -> [hwval EXCEPT ![p] = c]
  /\ fpc' = [fpc EXCEPT ![f] = IF c \in {"in", "out"} THEN "dir" ELSE "state"]
  /\ UNCHANGED <<loopVars, resVars, dir, state, fpin, fcmd, fault>>

(* Wrong variant: "out" stores the direction and forgets the level. *)
WriteDirOnly(f) ==
  /\ fpc[f] = "dir" /\ mod # "failed"
  /\ dir' = [dir EXCEPT ![fpin[f]] = fcmd[f]]
  /\ fpc' = [fpc EXCEPT ![f] = "open"]
  /\ fcmd' = [fcmd EXCEPT ![f] = "none"]
  /\ UNCHANGED <<loopVars, resVars, state, hwdir, hwval, fpin, fault>>

(* The new direction goes into the structure; "out" has a state, too. *)
WriteDir(f) ==
  LET c == fcmd[f] IN
  /\ fpc[f] = "dir" /\ mod # "failed"
  /\ dir' = [dir EXCEPT ![fpin[f]] = c]
  /\ fpc' = [fpc EXCEPT ![f] = IF c = "out" THEN "state" ELSE "open"]
  /\ fcmd' = [fcmd EXCEPT ![f] = IF c = "out" THEN "out" ELSE "none"]
  /\ UNCHANGED <<loopVars, resVars, state, hwdir, hwval, fpin, fault>>

WriteState(f) ==
  LET c == fcmd[f] IN
  /\ fpc[f] = "state" /\ mod # "failed"
  /\ state' = [state EXCEPT ![fpin[f]] = IF c = "out" THEN "low" ELSE c]
  /\ fpc' = [fpc EXCEPT ![f] = "open"]
  /\ fcmd' = [fcmd EXCEPT ![f] = "none"]
  /\ UNCHANGED <<loopVars, resVars, dir, hwdir, hwval, fpin, fault>>

(***************************************************************************)
(* Specification                                                           *)
(***************************************************************************)

InitStep == InitRegion \/ InitClass \/ InitAlloc \/ InitRequest \/ InitAdd
            \/ InitCreate \/ InitDone \/ InitNoMemory \/ InitAddFails
ExitStep == ExitBegin \/ ExitFree \/ ExitPin \/ ExitDone
FileStep(f) ==
  \/ \E p \in Pins : OpenFile(f, p)
  \/ CloseFile(f) \/ FileOrphaned(f)
  \/ \E c \in Commands : WriteCheck(f, c)
  \/ WriteHw(f) \/ WriteDir(f) \/ WriteState(f)

Running ==
  /\ fault = "none"
  /\ InitStep \/ ExitStep \/ (\E p \in Pins : OpenGone(p))
     \/ \E f \in Files : FileStep(f)

(* What comes after an undefined step or a failed insmod is not modelled. *)
Halted == (fault # "none" \/ mod = "failed") /\ UNCHANGED vars

Next == Running \/ Halted

Spec == Init /\ [][Next]_vars

-----------------------------------------------------------------------------
Idle(p) == \A f \in Files : fpin[f] = p => fpc[f] = "open"

(* "@state: logic state (low, high) of a GPIO pin, @dir: direction of a    *)
(* GPIO pin": while no write() to it is under way, the structure of a pin  *)
(* says what the pin does.                                                 *)
DirMatchesPin ==
  mod = "in" => \A p \in Pins : Idle(p) =>
    /\ dir[p] = hwdir[p]
    /\ dir[p] = "out" => state[p] = hwval[p]

(* What open() gave a file stays allocated until release(), through a      *)
(* failing init, other files' closes and rmmod.                            *)
OpenFileAlive == \A f \in Files : fpc[f] # "closed" => fpin[f] \in structs

(* "set all GPIO pins to output, low level": so they are after rmmod,      *)
(* whatever was written before.                                            *)
ExitLeavesPinsLow ==
  mod = "exited" => \A p \in Pins : hwdir[p] = "out" /\ hwval[p] = "low"

NothingHeld ==
  /\ region = "none" /\ class = "none"
  /\ nodes = {} /\ reqd = {} /\ structs = {} /\ cdevs = {} /\ stale = {}

(* "it should implement all the oposite to initialization actions to       *)
(* deallocate resources used by device".                                   *)
ExitUndoesInit == mod = "exited" => NothingHeld

=============================================================================
