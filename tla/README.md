# TLA+ models of the kernel drivers of os-course-labs

The repository teaches Linux kernel programming with a handful of drivers and
small modules. This directory specifies them in TLA+, checks the specifications
with TLC, and proves every safety property, action property and refinement
that the passing runs check with TLAPS, for every value of the constants. File names below are relative to `src/`.

    tlc -workers 2 -config MCStmLeds.cfg MCStmLeds     # one run
    tlapm StmLedsProofs.tla                            # the proofs about one module

`PROJECT.json` lists the components, the runs, the source lines behind each
definition, the disagreements between code and comments, and the hazards.

## 1. The system: inventory

The components share no code. What they share is the shape of a Linux driver:
an init or probe function that acquires things in an order, callbacks that the
kernel runs concurrently on behalf of processes, interrupts and threads, and an
exit, disconnect or remove function that must undo the first while the second
go on.

| component | state | operations | concurrency and failure | what makes it correct |
|---|---|---|---|---|
| STM32 LEDs USB driver, `usb/stm32leds_driver.c` | per device a `struct stm32leds` with a kref, two endpoints, one input buffer, a mutex and a spinlock; the interface's intfdata; the minor | probe, disconnect, open, release, read, write, the write URB's callback, init, exit | unplug and rmmod at any time; several files; completion interrupt; timeouts; every allocation | the structure is freed exactly once, when nobody has it; each URB and buffer has one owner; a report is intact and new; unplug and rmmod end |
| Raspberry Pi GPIO driver, `gpio/gpio_lkm.c` | 14 structures with a cdev and the cached direction and level; class, region, nodes | init, exit, open, release, read, write | processes write to a pin with no lock; any call of init may fail, at any pin | the cache is what the pin is; exit undoes init and leaves the pins low; nobody runs freed code |
| BeagleBone LED driver, `gpio/bbb-gpio.c` | mode, period, LED level, the thread, attributes, parameters | init, exit, the thread's loop, sysfs stores, parameter writes | the thread reads what stores change; exit waits for it | the LED follows the mode; off and free after exit; no store takes the period out of its range |
| HMC5843 magnetometer, `iio/hmc5843/*` | the chip's registers, regmap's cache of them, `data->lock` | probe, remove, suspend, resume, raw read, three setters, show functions, trigger handler | users, the trigger's thread and power management share chip and lock; any transfer may fail | no data from a sleeping chip; settings do not disturb each other; cache and chip agree; every path unlocks and acknowledges |
| IIO dummy, `iio/iio_simple_dummy.c` | six things an instance owns; `struct iio_dummy_state`, with a mutex, behind its files | probe, remove, read_raw, write_raw | any step of probe may fail; any number of processes read and write the files | what is acquired is released, in an order that leaves nothing dangling; a read gets one value that was there, whole; only legal values get in |
| character device skeleton, `gpio/chardev.c` | region, class, node, cdev | init, exit, open, release | opens between the steps of init and exit | the same, and an open file keeps its cdev |
| kobject demo, `kobject/kdemo.c` | a kobject, its files and three integers behind them | init, exit, show, store | stores while the module goes; no lock | both of the above |
| module demo, `demo/md*.c` | exported symbols | init, exit | md2 and md3 use md1; md3's init always fails | nobody uses symbols that are gone |
| VL53L0X distance sensor, `iio/vl53l0x/vl53l0x-i2c.c` | none but the chip's | probe, remove, read: start, look at most 20 times, fetch | several readers without a lock; any transfer may fail; the chip may never answer | a distance is of a measurement that ended after the reader started one; a read ends; remove waits for it |
| user programs, `usb/us.c`, `kobject/uevent.c` | none | sequential loops | none | not modelled |
| firmware image, patch, kernel configuration, device trees, labs, slides, build files | none | none | none | not modelled |

## 2. Modules

| module | what it is |
|---|---|
| `RefCounted` | abstract: objects that holders share, created with one holder, gone when the last one lets go |
| `StmLeds` | the USB driver's life cycle: module, probe, disconnect, open, release, kref, with the USB core's minor table and its `minor_rwsem`; implements `RefCounted` |
| `StmLedsIo` | extends `StmLeds` by every step of read(), write() and the completion callback; implements `StmLeds` |
| `GpioLkm` | the GPIO driver, each call of init and exit a step of its own, write() in its three steps |
| `BbbGpio` | the LED driver with its thread |
| `Hmc5843` | the magnetometer over regmap, register bits and all |
| `SysfsCalls` | processes inside the callbacks of files in sysfs: where each is, what it asked for, what it will return |
| `IioDummy`, `Kdemo`, `Vl53l0x` | extend `SysfsCalls` by the callbacks of one driver each, and the state these work on |
| `SysfsFiles` | composes the three: processes that use all their files at once; implements `AtomicFiles` |
| `AtomicFiles` | abstract: files of which each read or write takes effect at one moment |
| `ModuleLoad` | loading and unloading of chardev, kdemo, md1 to md3 and IIO dummy instances, by tables of what each init acquires, each failure unwinds and each exit releases |
| `MC...` | the instances TLC checks |
| `...Proofs` | the theorems about the module of that name, and their proofs; `StmLedsIoProofs` extends `StmLedsProofs` as `StmLedsIo` extends `StmLeds` |

A definition that is called a "wrong variant" in its comment takes no part in
any specification. It is a plausible mistake in the definition after it, kept
to show that some property notices: with it in place of the real one the
property named in `PROJECT.json` fails.

How state and actions correspond to the code:

* **StmLeds.** A block of `Devs` is a `struct stm32leds`; `mem` says whether it
  is allocated, `kref` is the counter in it. The USB core runs probe() and
  disconnect() of the interface in turn (it holds the device lock), so one
  variable `bus` is that thread's place; each open file has a thread of its own
  (`fpc`). An action ends where another thread can see what it did: probe() is
  cut at the allocation, at `usb_set_intfdata()`, and before, inside and after
  `usb_register_dev()`, inside which the minor becomes visible and may have to
  go again. open() is cut between reading intfdata and taking the reference, the
  window that `minor_rwsem` closes in the USB core. `Unplug` is the board being
  pulled out: the USB core takes the interface off the list that
  `usb_find_interface()` searches before it calls disconnect(), and from then on
  open() returns `-ENODEV` by its first branch (line 122); after disconnect() has
  cleared intfdata on an interface that is still listed (unbind, rmmod), by its
  second (line 129). `OpenNoDevice` has both.
* **StmLedsIo.** One action per statement of read() and write() that another
  thread, the callback or the host controller can come before: mutex, transfer,
  copy, allocation, submission, each error path. Reports are numbered instead of
  having bytes. Following a NULL pointer and freeing twice set `fault`, after
  which nothing moves.
* **GpioLkm.** `stage` and `at` are the loop of init, one pin after the other;
  the pin has a direction and a latched level, the structure caches both.
  write() looks at the cached direction, changes the pin, and stores what it did,
  in three actions. The results of `gpio_direction_input()` and
  `gpio_direction_output()` are ignored by the code, and the model takes the calls
  to succeed.
* **BbbGpio.** The thread's loop is cut at each read of `mode`. A store is one
  step, since removing an attribute waits for stores. What a store accepts
  follows the string comparison of the code: prefixes of a mode's name are that
  mode. `sscanf()` that finds no number leaves any number.
* **Hmc5843.** The registers are numbers; a setting is written by replacing the
  bits under its mask. `regmap_update_bits()` is regmap's: one step under
  regmap's own lock, no write if the cache has the value, and the cached
  register dropped if the write failed (whether the chip acted on it or not).
  `GetLock`, `Update`, `Poll`, `BulkRead` and `Unlock` are shared by all
  functions that take `data->lock`. The stages of `Core` are the statements of
  probe, remove, suspend and resume.
  `cache` has `NotCached` for a register regmap does not have a value of.
  `ChipInfo` has the tables of the four variants; a value that users write is
  looked up in the table of `Chip`, and what `read_raw()` takes from a register
  is an index into it.
* **IioDummy, Kdemo, Vl53l0x, SysfsFiles.** `pc` says where in its callback a
  process is, and `ret` what it will return, with the words it has read so far.
  `iio_dummy_read_raw()` is lock, one load for each word, unlock; a write is
  lock, store, unlock, or the store alone for the files whose store is not under
  the mutex. The callbacks of `kdemo.c` touch their variable once, in one step.
  In `Vl53l0x` each bus transfer is a step: start, look, fetch. The refinement
  maps the structures and the result register of the chip to the values of
  `AtomicFiles`, and `ret`, once it is settled, to the answer: a load of a second
  word must not have been overtaken by a store.
* **ModuleLoad.** `InitSteps`, `Unwind` and `ExitSteps` are read off the code;
  the actions walk through them one resource at a time while processes find the
  node or file and get in.

## 3. Runs

| run | instance | states | shows |
|---|---|---|---|
| `stmleds_life` | 2 blocks, 3 files | 6,499 | reference counting is exact, nothing leaks and nothing is used after it was freed, open() never races with disconnect(), -ENODEV only once the board is gone or disconnect() has begun, unplug and rmmod end, `RefCounted` is implemented |
| `stmleds_io` | 1 block, 2 files, 2 URBs, 2 reports | 349,364 | each coherent buffer has one owner while it exists, URB counters are exact, read() returns only new reports or an error, system calls end, `StmLeds` is implemented |
| `gpio_lkm` | 2 pins, 2 files, one process per pin | 8,524 | cached direction and level are the pin's when no write() is under way, open files keep their structures, pins are low after exit |
| `bbb_gpio` | 2 pins, 5 periods stored, parameter 1 or 10000 | 1,706 | LED off and pin free after exit, only the parameter takes the period out of 2 .. 10000 (part of `TypeOK`), the LED follows the mode, exit ends |
| `hmc5843` | HMC5883L, 2 users, 3 polls, 1 failing transfer, 3 settings of which one is refused | 38,604 | cache is chip, data come from a measuring chip, a user never waits for a chip the driver has put to sleep, "data not ready" is honest, setters write their field only, table indices in range, an unused chip sleeps, calls end |
| `module_load` | all six, 2 users | 1,406,658 | failed and finished modules leave nothing but two known leaks, nothing is held without what it refers to, who is inside finds what is there |
| `sysfs_files` | 2 users, 4 files, 2 looks, 2 distances | 137,120 | only legal values get into the structures, every call looks atomic (`AtomicFiles`) and stores what was given or the nearest legal value, a distance is of a measurement that ended after the reader's start and a timeout is real, every call and the removal of the sensor end |

Five runs end in a counterexample, each to one property that states a comment:

| run | comment | what happens |
|---|---|---|
| `stmleds_read_race` | "protect buffer int_in_buffer from concurency access" | the mutex that covers the transfer is dropped before the copy; the spinlock around the copy excludes nobody: a second reader's transfer overwrites the report |
| `stmleds_double_free` | "allocate a dma-consistent buffer for urb" | the error label of write() frees that buffer with `usb_free_coherent()` and again with `kfree()` |
| `gpio_lkm_race` | "@state: logic state", "@dir: direction of a GPIO pin" | two processes writing to one pin leave the cache and the pin different |
| `gpio_lkm_exit` | exit "should implement all the oposite to initialization actions" | no `cdev_del()`: the cdevs stay in the table while their memory is freed |
| `bbb_gpio_param` | gpioLED "can be read/not changed" | its mode 0660 lets root change it; exit then frees another pin |

Two more disagreements are in the models as the code has them, and the passing
runs let them pass by name:

* `gpio/bbb-gpio.c` documents the parameter blinkPeriod with "min=1" (line 30)
  and checks it nowhere, but the attribute of the same variable "Must be 2ms or
  greater, 10secs or less" (line 70) and refuses 1. So the driver may be loaded
  with, and keep, a period that nobody could store. `bbb_gpio` gives the
  parameter both of its documented bounds, and `TypeOK` says where the period can
  come from: a store, then 2 .. 10000, or the parameter.
* `iio_dummy_remove()` ends with "Free all structures" (line 687) and does not
  free swd, which probe allocated and frees when it fails itself (line 656). Nor
  has a probe that fails after `kstrdup()` (line 619) a label for the name.
  `module_load` lets these two go as `Leaks`.

### Bounds and why they are enough

* *Devices and files.* Two blocks allow an unplugged structure with files still
  open next to the one that replaced it; three files allow one that holds the
  old one, one that holds the new one, and one that is opening. The proofs
  remove the bound. For the I/O model one block is enough, since nothing in
  read() or write() reaches another device; two files and two URBs give two
  readers, two writers, one of each, and a writer overtaken by its own callback.
* *Reports* (`MaxReports`). One that was read and one that overwrites it.
* *Pins.* Failures at the first and at a later pin differ, those at later ones
  do not; two pins have both.
* *Periods* lie at and beside both bounds; 0 stands for what was not a number
  in range. *ParamPeriods* are the two bounds that line 30 documents for the
  parameter; its 1 is outside what line 70 lets into the same variable.
* *MaxTries* is 150 in the source. The loop treats all rounds alike except the
  last; 3 has a first, a middle and a last one.
* *MaxFaults.* One transfer may fail anywhere. Two properties are only claimed
  without failures (`faults = 0`), for a chip that cannot be reached cannot be
  put to sleep either.
* *PowerOnA.* The two values have the rate 10 Hz and the one marked "Not used"
  in the rate field, and 0 in the bits above it. These bits matter:
  `hmc5843_read_raw()` does not mask them off (line 385), and nothing in the
  driver clears them, so that `ShownIndexInTable` fails if they are set when the
  driver first sees the chip. They are 0 after power-on.
* *Chip.* The HMC5883L of `hmc5843/hmc5883l.dts`; its table of 7 rates is one
  shorter than the field, so that an index can be out of it.
* *DummyFiles, KdemoFiles.* One file for each way through the code: the scale,
  two words, stored under the mutex, refused if it is not in the table; an
  activity, stored clamped and without the mutex; `bar`, without any. The other
  files differ from these in name and initial value, or refuse every write as the
  scale refuses a wrong one, but without the mutex.
* *MaxTries of `SysfsFiles`* is 20 in the source; 2 has a last look and one
  before it. *Samples* are two, so that an old distance and a new one differ.
* *Exclusive* and *ParamPins*. `gpio_lkm` passes with one process per pin, a
  restriction that no comment asks for and `gpio_lkm_race` drops. `bbb_gpio` keeps
  to the comment that gpioLED is not changed; `bbb_gpio_param` drops that.

## 4. Fairness

No fairness is assumed of users: nobody has to call, plug, store or fire.

* `StmLeds`: the USB core's thread goes on with a probe() or disconnect() that
  has started, and calls disconnect() for what is bound when the module goes or
  the board was pulled out; open() goes on,
  it is never blocked once it has `minor_rwsem`. A queued writer of that
  semaphore keeps new readers out, which is what makes disconnect() end.
* `StmLedsIo`: each step inside read() and write() is weakly fair (transfers have
  a timeout); taking the mutex is strongly fair, since a Linux mutex is handed
  over to a waiter that keeps losing. The callback is not fair: a URB may stay in
  flight for as long as it likes.
* `BbbGpio`: the thread is scheduled and its sleep ends; rmmod runs on.
* `Hmc5843`: as in `StmLedsIo`, weak inside and strong at the mutex, and the core
  goes on. The chip is not fair, it may never become ready.
* `SysfsFiles`: a process inside a callback goes on, the mutex is strongly fair,
  and the removal of the sensor's file notices that nobody is inside any more. The
  chip need not ever complete a measurement.
* `GpioLkm` and `ModuleLoad` claim safety only.

## 5. What is proved

Seven modules of proofs state the safety properties, action properties and
refinements of all passing runs as theorems, for every value of the constants.
Each module has the same plan. `IInv` (`IoInv` in `StmLedsIoProofs`) is the
inductive invariant, a conjunction of named parts; `InitInv` shows it initially,
lemmas with one step per action show that each step keeps it, `StepInv` collects
them, and `Invariant` is `Spec => []IInv`. A property follows from `IInv`, an
action property from `IInv` and one step. TLC checked each `IInv` on the instance
of the component's run before it was proved.

The assumptions are those named in the modules: finitely many files, values that
stand for "nobody" or "nothing" are nobody, tables have the entries the code has.
Four theorems have a hypothesis of their own, stated with them below.

### `StmLedsProofs`: any blocks, any finite set of files

| theorem | statement |
|---|---|
| `TypeCorrect` | `[]TypeOK`; in particular no counter goes below zero |
| `KrefIsExact` | `[]KrefExact`: the counter of a live structure is the number of those who hold it |
| `NoLeakNoUseAfterFree` | `[]LiveIffHeld`: allocated exactly as long as somebody holds it |
| `OpenNeverRaces` | `[]OpenRaceSafe`: when open() takes its reference the bus still has its own |
| `EnodevIsHonest` | the action property `EnodevOnlyWhenGoing`: the board is gone or disconnect() has begun |
| `Refinement` | `ImplementsRefCounted` |

The invariants are not inductive one by one. Whether `kref_get()` in open() is
safe depends on where the bus thread stands; whether the last put frees depends
on the count being exact; and exactness depends on a block being held by nobody
when it is allocated. The inductive invariant `IInv` is the conjunction of
`TypeOK`, `BusInv` (what the place of the bus thread says about `busdev`,
`intfdata`, the minor and a board that was pulled), `FileInv` (what a file's place says about its block,
and that a file in open() keeps the minor mapped), `KrefExact` and
`LiveIffHeld`. `BusStepInv` and `FileStepInv` rest on `GetHolder` and
`PutHolder`, which say how the number of holders changes when one comes or goes.
The refinement adds that each step is a step of `RefCounted` or changes neither
the live blocks nor their holders.

### `StmLedsIoProofs`: any files, URBs and number of reports

| theorem | statement |
|---|---|
| `IoKeepsLifeCycle` | `ImplementsStmLeds`: each step of read(), write() and the callback is a step of `StmLeds` or leaves its variables alone |
| `IoTypeCorrect` | `[]IoTypeOK`; a URB has between no and two references |
| `BufferHasOneOwner` | `[]BufferOneOwner`: one of writer and callback frees the coherent buffer |
| `UrbCounterExact` | `[]UrbRefsExact`: a URB's counter is its writer plus the USB core |
| `ReadsAreNew` | `[]ReadsNewReport`: no reader gets an old report or the same one twice |

`IoKeepsLifeCycle` needs no invariant, and with it the invariant of
`StmLedsProofs` holds here, too: a file inside read() or write() has a live
structure. `IoInv` adds what the places of two threads say together. `MutexInv`:
who is past the mutex is the only one on it. `ReportOf`: what a reader brought, it
brought after its last report, and what overwrites the buffer between unlock and
copy is later or torn. `UrbOf` gives the counter, who may free the buffer, and
that a URB in flight has a writer past the submission or none. The part about
URBs holds until `fault` (the double free the run `stmleds_double_free` shows);
the properties say the same of themselves.

### `GpioLkmProofs`: any number of pins and files

| theorem | statement |
|---|---|
| `TypeCorrect` | `[]TypeOK` |
| `OpenFilesKeepStructure` | `[]OpenFileAlive` |
| `PinsLowAfterExit` | `[]ExitLeavesPinsLow` |
| `CacheAgreesWithPin` | `[]DirMatchesPin`, if `Exclusive` |

`LoopInv` says how far the loops of init and exit are, `FileInv` that an open
file's pin is one init is through with; `PinInv` how far a write() has brought pin
and cache together (`Halfway`). `Exclusive`, one process at a time for each pin, is
needed: `gpio_lkm_race` has the counterexample without it.

### `BbbGpioProofs`: any pins and periods

| theorem | statement |
|---|---|
| `TypeCorrect` | `[]TypeOK`, whatever is written to files and parameters |
| `LedOffAfterExit` | `[]ExitLedOff`, if `ParamPins = {}` |
| `PinFreeAfterExit` | `[]ExitFreesPin`, if `ParamPins = {}` |

Exit lowers and frees the pin the parameter names. That none other is high rests on
the parameter never having named another (`ParamPins = {}`, nobody writes it;
`bbb_gpio_param` shows what happens otherwise), and that the thread does not light
the LED again on its having ended (`ThreadInv`).

### `Hmc5843Proofs`: any variant, users, polls and failing transfers

| theorem | statement |
|---|---|
| `TypeCorrect` | `[]TypeOK` |
| `CacheAgreesWithChip` | `[]CacheCoherent` |
| `DataReadWhileMeasuring` | `[]ReadsAwake` |
| `UsersPollARunningChip` | `[]UserWaitsAwake` |
| `SleepsWhenUnbound` | `[]UnusedChipSleeps` |
| `NotReadyIsTrue` | the action property `GivesUpHonestly` |
| `SetterChangesOneField` | the action property `SetsItsFieldOnly` |
| `IndicesInTables` | `[]ShownIndexInTable`, if `PowerOnA \subseteq 0..31` |

All rest on `LockInv`: `data->lock` belongs to the one thread that is inside.
`CallInv` says which setting a thread may be writing, with a value its field has
the bits for; `ModeInv` what mode the chip is in by `Core`'s stage until a transfer
fails; `ReadyInv` that data get ready only in the continuous mode. The arithmetic
is in four lemmas, one for each field (`ConfBits`, `RateBits`, `GainBits`,
`ModeBits`): replacing a field's bits sets that field, keeps the others and stays
in a byte. `UpdateFacts` says it of `regmap_update_bits()` over a coherent cache,
failures included. `RateInv`, on top of `IInv`, is for the last theorem, whose
hypothesis is about the three bits above the rate that `read_raw()` does not mask
off (section 3).

### `ModuleLoadProofs`: any of the modules, any number of processes

| theorem | statement |
|---|---|
| `TypeCorrect` | `[]TypeOK` |
| `FailedLoadLeavesNothing` | `[]NothingLeft` |
| `OrderKeepsLayers` | `[]Layered` |
| `NobodyIsLeftInside` | `[]InsideIsServed` |

`NothingLeft` speaks of the moment a function is done; `PlaceInv` says it of every
moment before: a module has, but for its leaks, what its init is through with, or
what its unwinding or its exit has still to give back. What is to be done is one of
the ends of the tables in the model (`Loading`, `Unwinding`, `Unloading`), so that
each step is a finite case and no induction over sequences is needed; that entering
an error label leaves exactly its table to give back is where a wrong label would
fail. `UserInv` and `LinkInv` tie the processes and md2 to modules that stay.

### `SysfsFilesProofs`: any processes, files in use and written values

| theorem | statement |
|---|---|
| `TypeCorrect` | `[]TypeOK`: only legal values get into the structures |
| `CallsAreAtomic` | `ImplementsAtomicFiles`; an accepted write that is not legal stores the nearest legal value |
| `DistancesAreHonest` | the action property `DistanceHonest` |

`CallInv` says for each driver at which places a call can be and what it has read;
of a reader between the two words of a scale, that the first is still the scale's
first. A store in between would break this (`OthersKeep` has it as a hypothesis),
and `DummyStores` shows that none can come: who stores a value of two words has the
mutex (`LockInv`), and so has the reader. The refinement then goes step by step:
entering is `Ask`, the last load, a show and a fetch are `Read`, a store is `Write`
or `Refuse`, a failing transfer, the last look and a short fetch are `Fail`, the
end of a measurement is `Sense`, unlock and return are `Reply`; everything else
changes nothing in `AtomicFiles`. `SensorInv` carries the distance: who may fetch
has started before the last completion, for a start clears the complete bit.

## 6. What is only model-checked

* Liveness: `DisconnectCompletes`, `ExitCompletes`, `IoCompletes`, `CallsEnd`,
  `LedFollowsMode`. It needs fairness and ENABLED, which TLAPS cannot reason
  about. For the same reason `ImplementsAtomicFiles` and the other refinements
  are of specifications without fairness.
* The counterexamples of the five runs that end in one.

## 7. Abstractions

* One interface is bound at a time. One thread uses a file at a time, except
  that readers of different files compete.
* Bytes of reports, measurements and commands are left out; a command is what
  `which_command()` makes of it. Sizes are left out.
* usb_core flushes the URBs of an interface on unplug before disconnect()
  returns; the model lets them complete later, which allows more behaviours.
* A step through a bad pointer or into code that is gone ends the behaviour.
  After an init that failed half way in `gpio_lkm.c` or `bbb-gpio.c` no further
  insmod is modelled.
* The chip of `Hmc5843` keeps its power during suspend. User processes are
  frozen before suspend; interrupt threads are not.
* In `ModuleLoad`, reads and writes of sysfs files hold up the removal of the
  file; opens of a character device hold up rmmod. It knows of two leaks of the
  IIO dummy (`Leaks`), which `NothingLeft` lets pass: `swd` is not freed by
  `iio_dummy_remove()`, nor the name when probe fails after `kstrdup()` (section 3).
* Of the VL53L0X chip the repository says nothing. The model assumes that a start
  clears the complete bit and that the result registers keep the last result;
  `DistanceHonest` and the refinement rest on both. Whether a start while one is
  under way starts anew or is ignored makes no difference here.
* A value in `SysfsFiles` is a tuple of machine words, each read and written in
  one access; `<< >>` stands for text that `kstrtoint()` refuses, whatever its
  error. What the IIO core makes of text is taken as given.

## 8. Not modelled

* read() of `gpio_lkm.c` and the show functions of `bbb-gpio.c` and of the HMC5843's
  available values: they change nothing and read one variable, pin or constant table.
* The events and the buffer of the IIO dummy: their files are not in the repository.
* `hmc5843_spi.c` beyond what it shares with `hmc5843_i2c.c`: the setup of the SPI bus.
* `usb/us.c` and `kobject/uevent.c`: sequential user programs.
* Firmware image, patch, kernel configuration, device trees, teaching material.

## 9. Plan

Done, in this order: `StmLeds` with its abstraction and proofs, `StmLedsIo`,
`GpioLkm`, `BbbGpio`, `Hmc5843`, `ModuleLoad`, and `SysfsFiles` with its three
drivers and its abstraction.

The safety properties of every passing run are theorems (section 5).

Next, models: an abstract lock-protected sensor that `Hmc5843` implements (a read
returns a sample of the setting in force), and with it a refinement proof on top of
`LockInv`.

Next, proofs: from the invariants of section 5, action properties that no run
states yet, such as that the counter of a live structure changes by one at a time
and that a module is never unloaded before those that use it.
