------------------------------ MODULE Hmc5843 ------------------------------
(***************************************************************************)
(* The HMC5843/5883/5883L/5983 magnetometer driver,                        *)
(* src/iio/hmc5843/hmc5843_core.c, with the bus glue of hmc5843_i2c.c and  *)
(* hmc5843_spi.c: users that read measurements and change the settings     *)
(* through sysfs, the threaded handler of the trigger, and the kernel's    *)
(* core, which probes, suspends, resumes and removes the device.           *)
(*                                                                         *)
(* The chip is its three writable registers, bits and all, and the ready   *)
(* bit of its status register; regmap keeps a cache of the registers that  *)
(* the driver does not declare volatile.  Any transfer may fail.           *)
(***************************************************************************)
EXTENDS Integers, Sequences, Functions

CONSTANTS
  Users,      \* processes that use the device's files in sysfs
  MaxTries,   \* how often the status register is read; 150 in the source
  MaxFaults,  \* bound: transfers that fail in a behaviour
  PowerOnA,   \* what CONFIG_REG_A may hold when a driver first sees the chip
  Chip,       \* the variant, by which probe picks the tables
  Settings    \* what users write: pairs <<field, value>>

Handler == "handler"   \* the trigger's thread
Core    == "core"      \* the driver core and the power management
Threads == Users \cup {Handler, Core}

ASSUME HmcAssumption ==
  /\ Handler \notin Users /\ Core \notin Users /\ "none" \notin Users
  /\ MaxTries \in Nat \ {0} /\ MaxFaults \in Nat
  /\ PowerOnA \subseteq 0 .. 255
  /\ Chip \in {"HMC5843", "HMC5883", "HMC5883L", "HMC5983"}
  /\ \A s \in Settings : s[1] \in {"conf", "rate", "gain"}

VARIABLES
  chip,     \* the chip's registers A, B and MODE, and the ready bit of STATUS
  cache,    \* per register: what regmap remembers, or NotCached
  lock,     \* the owner of data->lock, or "none"
  stage,    \* where Core is in the life of the device
  pc,       \* where each thread is in a function of the driver
  call,     \* the setting <<field, value>> a thread writes, or <<"raw", 0>>
  tries,    \* hmc5843_wait_measurement()'s variable of that name
  ret,      \* how the thread's call has gone so far
  buffered, \* the buffer is enabled: triggers run the handler
  trigBusy, \* the trigger waits for iio_trigger_notify_done()
  faults    \* how many transfers have failed

device == <<chip, cache, faults>>
thread == <<pc, call, tries, ret>>
vars   == <<device, thread, lock, stage, buffered, trigBusy>>

-----------------------------------------------------------------------------
(* The tables of the variants: entry i + 1 is what users see for the value *)
(* i of a field.                                                           *)

\* The measurement configurations.
MeasConf5843 == <<"normal", "positivebias", "negativebias">>
MeasConf5983 == Append(MeasConf5843, "disabled")

\* Scales in 10^-9.
Scale5843  == <<6173, 7692, 10309, 12821, 18868, 21739, 25641, 35714>>
Scale5883  == <<7812, 9766, 13021, 16287, 24096, 27701, 32573, 45662>>
Scale5883L == <<7299, 9174, 12195, 15152, 22727, 25641, 30303, 43478>>

\* Sampling frequencies in 10^-2 Hz.
Rate5843 == <<50, 100, 200, 500, 1000, 2000, 5000>>
Rate5883 == <<75, 150, 300, 750, 1500, 3000, 7500>>
Rate5983 == Append(Rate5883, 22000)

ChipInfo ==
  [HMC5843  |-> [conf |-> MeasConf5843, rate |-> Rate5843, gain |-> Scale5843],
   HMC5883  |-> [conf |-> MeasConf5843, rate |-> Rate5883, gain |-> Scale5883],
   HMC5883L |-> [conf |-> MeasConf5843, rate |-> Rate5883, gain |-> Scale5883L],
   HMC5983  |-> [conf |-> MeasConf5983, rate |-> Rate5983, gain |-> Scale5883L]]

Table(f) == ChipInfo[Chip][f]

-----------------------------------------------------------------------------
(* Registers and regmap.                                                   *)

Registers == {"A", "B", "MODE", "STATUS"}

\* Bits of HMC5843_MODE_REG.
Continuous == 0
Idle == 2
Sleep == 3

\* The register a setting is in, the weight of its lowest bit (the _OFFSET of
\* the source) and the number of values its _MASK leaves it.
RegOf == [conf |-> "A", rate |-> "A", gain |-> "B", mode |-> "MODE"]
Low   == [conf |-> 1, rate |-> 4, gain |-> 32, mode |-> 1]
Size  == [conf |-> 4, rate |-> 8, gain |-> 8, mode |-> 4]

Get(r, f) == (r[RegOf[f]] \div Low[f]) % Size[f]

\* The register of f with the field f replaced by the bits v << OFFSET & MASK.
\* Wrong variants: the whole register is written, not the field alone; the
\* field is not cleared first.
PutNoMask(r, f, v) == v * Low[f]
PutNoClear(r, f, v) == r[RegOf[f]] + v * Low[f]
Put(r, f, v) == r[RegOf[f]] + ((v % Size[f]) - Get(r, f)) * Low[f]

\* Registers that are read from the chip every time.
\* Wrong variant: the range stops at the last data register.
VolatileNoStatus == {}
Volatile == {"STATUS"}

NotCached == -1
NoCache == [r \in Registers |-> NotCached]

\* What regmap takes the registers for: the cache, else the chip.
Regmap ==
  [r \in Registers |-> IF cache[r] = NotCached THEN chip[r] ELSE cache[r]]

\* regmap_read() of register r: it stays in the cache unless it is volatile.
ReadThrough(r) ==
  cache' = IF r \in Volatile THEN cache ELSE [cache EXCEPT ![r] = Regmap[r]]

Fault == faults < MaxFaults /\ faults' = faults + 1

\* The chip with x written to its register r.  Outside the continuous mode its
\* ready bit is clear.
Written(r, x) ==
  [chip EXCEPT ![r] = x,
               !["STATUS"] = IF r = "MODE" /\ x # Continuous THEN 0 ELSE @]

\* regmap_update_bits(), under regmap's own lock: nothing is written if the
\* register holds the value already.
UpdateBits(f, v) ==
  LET r   == RegOf[f]
      new == Put(Regmap, f, v)
  IN  /\ chip' = IF new = Regmap[r] THEN chip ELSE Written(r, new)
      /\ cache' = [cache EXCEPT ![r] = new]
      /\ UNCHANGED faults

\* Its read fails: nothing is known and nothing is changed.
UpdateBitsReadFails(f) ==
  /\ cache[RegOf[f]] = NotCached
  /\ Fault
  /\ UNCHANGED <<chip, cache>>

\* Its write fails, before or after the chip has acted on it: regmap drops the
\* register from the cache.
UpdateBitsWriteFails(f, v) ==
  LET r   == RegOf[f]
      new == Put(Regmap, f, v)
  IN  /\ new # Regmap[r]
      /\ Fault
      /\ chip' \in {chip, Written(r, new)}
      /\ cache' = [cache EXCEPT ![r] = NotCached]

\* In the continuous mode the chip clears the ready bit whenever it starts to
\* replace its data, and sets it when they are complete.
ChipMeasures ==
  /\ Get(chip, "mode") = Continuous
  /\ chip' = [chip EXCEPT !["STATUS"] = 1 - @]
  /\ UNCHANGED <<cache, faults, thread, lock, stage, buffered, trigBusy>>

-----------------------------------------------------------------------------
Init ==
  /\ chip \in [A : PowerOnA, B : {32}, MODE : {Idle, Sleep}, STATUS : {0}]
  /\ cache = NoCache
  /\ lock = "none"
  /\ stage = "unbound"
  /\ pc = [t \in Threads |-> "idle"]
  /\ call = [t \in Threads |-> <<"raw", 0>>]
  /\ tries = [t \in Threads |-> 0]
  /\ ret = [t \in Threads |-> "ok"]
  /\ buffered = FALSE
  /\ trigBusy = FALSE
  /\ faults = 0

Goto(t, p) == pc' = [pc EXCEPT ![t] = p]

\* Thread t enters the function that takes the lock for call c.
Begin(t, c) ==
  /\ Goto(t, "lock")
  /\ call' = [call EXCEPT ![t] = c]
  /\ ret' = [ret EXCEPT ![t] = "ok"]
  /\ UNCHANGED tries

\* Thread t goes on to p with the result x; when it leaves, its call is over.
Result(t, x, p) ==
  /\ Goto(t, p)
  /\ ret' = [ret EXCEPT ![t] = x]
  /\ call' = IF p = "idle" THEN [call EXCEPT ![t] = <<"raw", 0>>] ELSE call

(* hmc5843_set_mode(), _set_meas_conf(), _set_samp_freq(),                 *)
(* _set_range_gain(), _read_measurement() and _trigger_handler() all run   *)
(* under data->lock.                                                       *)

\* mutex_lock() returns.
\* Wrong variant: only the functions that read measurements take the lock.
LockedToRead(t) == call[t][1] # "raw" \/ lock = "none"
Locked(t) == lock = "none"

GetLock(t) ==
  /\ pc[t] = "lock"
  /\ Locked(t)
  /\ lock' = t
  /\ IF call[t][1] = "raw"
     THEN Goto(t, "poll") /\ tries' = [tries EXCEPT ![t] = MaxTries]
     ELSE Goto(t, "update") /\ UNCHANGED tries
  /\ UNCHANGED <<device, call, ret, stage, buffered, trigBusy>>

Update(t) ==
  LET f == call[t][1]
      v == call[t][2]
  IN  /\ pc[t] = "update"
      /\ \/ UpdateBits(f, v) /\ Result(t, "ok", "unlock")
         \/ UpdateBitsReadFails(f) /\ Result(t, "error", "unlock")
         \/ UpdateBitsWriteFails(f, v) /\ Result(t, "error", "unlock")
      /\ UNCHANGED <<tries, lock, stage, buffered, trigBusy>>

(* hmc5843_wait_measurement() and the bulk read that follows it in         *)
(* hmc5843_read_measurement() and hmc5843_trigger_handler().               *)

\* What the function returns when the loop was left with n for tries.
\* Wrong variant: data that are ready at the last look are not seen.
WaitResultEarly(n) == IF n <= 0 THEN "notready" ELSE "ok"
WaitResult(n) == IF n < 0 THEN "notready" ELSE "ok"

\* One round of the loop, up to the msleep(20), and the end of the loop.
Poll(t) ==
  /\ pc[t] = "poll"
  /\ ReadThrough("STATUS")
  /\ IF Regmap["STATUS"] = 1
     THEN LET x == WaitResult(tries[t] - 1)
          IN  /\ Result(t, x, IF x = "ok" THEN "bulk" ELSE "unlock")
              /\ tries' = [tries EXCEPT ![t] = 0]
     ELSE IF tries[t] > 1
     THEN /\ tries' = [tries EXCEPT ![t] = @ - 1]
          /\ UNCHANGED <<pc, call, ret>>
     ELSE /\ tries' = [tries EXCEPT ![t] = 0]
          /\ Result(t, WaitResult(-1), "unlock")
  /\ UNCHANGED <<chip, faults, lock, stage, buffered, trigBusy>>

PollFails(t) ==
  /\ pc[t] = "poll"
  /\ Fault
  /\ tries' = [tries EXCEPT ![t] = 0]
  /\ Result(t, "error", "unlock")
  /\ UNCHANGED <<chip, cache, lock, stage, buffered, trigBusy>>

BulkRead(t) ==
  /\ pc[t] = "bulk"
  /\ \/ Result(t, "ok", "unlock") /\ UNCHANGED faults
     \/ Result(t, "error", "unlock") /\ Fault
  /\ UNCHANGED <<chip, cache, tries, lock, stage, buffered, trigBusy>>

\* The lock after the unlock of t.
\* Wrong variant: the path on which the wait has failed has no unlock.
UnlockedIfReady(t) == IF ret[t] = "notready" THEN lock ELSE "none"
Unlocked(t) == "none"

\* The end of a user's call, and of the handler's locked part.
Unlock(t) ==
  /\ t # Core
  /\ pc[t] = "unlock"
  /\ lock' = Unlocked(t)
  /\ Result(t, "ok", IF t # Handler THEN "idle"
                     ELSE IF ret[t] = "ok" THEN "push" ELSE "done")
  /\ UNCHANGED <<device, tries, stage, buffered, trigBusy>>

-----------------------------------------------------------------------------
(* The users of sysfs.  Their files exist while the device is registered;  *)
(* user processes are frozen during suspend and resume.                    *)

UserMayEnter(u) == stage = "bound" /\ pc[u] = "idle"

ReadRaw(u) ==
  /\ UserMayEnter(u)
  /\ Begin(u, <<"raw", 0>>)
  /\ UNCHANGED <<device, lock, stage, buffered, trigBusy>>

\* The values of field f by which its table has v; without one the call is
\* refused with -EINVAL and leaves no trace.
IndexOf(f, v) == {i - 1 : i \in {j \in DOMAIN Table(f) : Table(f)[j] = v}}

WriteRaw(u) ==
  /\ UserMayEnter(u)
  /\ \E s \in Settings : \E i \in IndexOf(s[1], s[2]) : Begin(u, <<s[1], i>>)
  /\ UNCHANGED <<device, lock, stage, buffered, trigBusy>>

\* The index into regval_to_samp_freq: a shift without the mask.
RateIndex == Regmap["A"] \div Low["rate"]

\* The index into regval_to_nanoscale.
ScaleIndex == Regmap["B"] \div Low["gain"]

\* A user reads a setting, without data->lock: all that changes is the cache.
ShowSetting(u) ==
  /\ UserMayEnter(u)
  /\ \E r \in {"A", "B"} :
       \/ ReadThrough(r) /\ UNCHANGED faults
       \/ cache[r] = NotCached /\ Fault /\ UNCHANGED cache
  /\ UNCHANGED <<chip, thread, lock, stage, buffered, trigBusy>>

-----------------------------------------------------------------------------
(* The trigger.                                                            *)

\* Users switch the buffer on and off; the core waits for the handler first.
SwitchBuffer ==
  /\ stage = "bound"
  /\ pc[Handler] = "idle" /\ ~trigBusy
  /\ buffered' = ~buffered
  /\ UNCHANGED <<device, thread, lock, stage, trigBusy>>

\* iio_trigger_poll(): not before the last poll has been notified as done.
Trigger ==
  /\ buffered /\ ~trigBusy
  /\ trigBusy' = TRUE
  /\ Begin(Handler, <<"raw", 0>>)
  /\ UNCHANGED <<device, lock, stage, buffered>>

Push ==
  /\ pc[Handler] = "push"
  /\ Goto(Handler, "done")
  /\ UNCHANGED <<device, call, tries, ret, lock, stage, buffered, trigBusy>>

NotifyDone ==
  /\ pc[Handler] = "done"
  /\ Goto(Handler, "idle")
  /\ trigBusy' = FALSE
  /\ UNCHANGED <<device, call, tries, ret, lock, stage, buffered>>

-----------------------------------------------------------------------------
(* Probe, remove, suspend and resume.  The driver core runs one of them at *)
(* a time.                                                                 *)

\* What Core writes in the stages in which it writes a setting.
CoreSetting ==
  [conf |-> <<"conf", 0>>, rate |-> <<"rate", 4>>, gain |-> <<"gain", 1>>,
   mode |-> <<"mode", Continuous>>, sleep |-> <<"mode", Sleep>>,
   suspend |-> <<"mode", Sleep>>, resume |-> <<"mode", Continuous>>]

Stages == DOMAIN CoreSetting \cup
          {"unbound", "id", "setup", "register", "bound", "asleep", "unregister"}

EnterStage(s) ==
  /\ stage' = s
  /\ IF s \in DOMAIN CoreSetting THEN Begin(Core, CoreSetting[s])
     ELSE Result(Core, "ok", "idle") /\ UNCHANGED tries

\* The stage after a setting was written, or was not: hmc5843_init() gives up,
\* suspend is called off, the others go on.
\* Wrong variants: hmc5843_init() leaves out the rate, or the mode.
AfterSettingNoRate(s, ok) ==
  CASE s = "conf" /\ ok -> "gain"
    [] s = "gain" /\ ok -> "mode"
    [] s = "mode" /\ ok -> "setup"
    [] s = "suspend" /\ ok -> "asleep"
    [] s = "resume" \/ (s = "suspend" /\ ~ok) -> "bound"
    [] OTHER -> "unbound"
AfterSettingNoMode(s, ok) ==
  CASE s = "conf" /\ ok -> "rate"
    [] s = "rate" /\ ok -> "gain"
    [] s = "gain" /\ ok -> "setup"
    [] s = "suspend" /\ ok -> "asleep"
    [] s = "resume" \/ (s = "suspend" /\ ~ok) -> "bound"
    [] OTHER -> "unbound"
AfterSetting(s, ok) ==
  CASE s = "conf" /\ ok -> "rate"
    [] s = "rate" /\ ok -> "gain"
    [] s = "gain" /\ ok -> "mode"
    [] s = "mode" /\ ok -> "setup"
    [] s = "suspend" /\ ok -> "asleep"
    [] s = "resume" \/ (s = "suspend" /\ ~ok) -> "bound"
    [] OTHER -> "unbound"

\* The end of a setter that Core has called.  An unbound device has no regmap.
CoreUnlock ==
  LET s == AfterSetting(stage, ret[Core] = "ok")
  IN  /\ pc[Core] = "unlock"
      /\ lock' = "none"
      /\ EnterStage(s)
      /\ cache' = IF s = "unbound" THEN NoCache ELSE cache
      /\ UNCHANGED <<chip, faults, buffered, trigBusy>>

ProbeBegin ==
  /\ stage = "unbound"
  /\ EnterStage("id")
  /\ UNCHANGED <<device, lock, buffered, trigBusy>>

\* hmc5843_init() reads the identification: right, wrong, or not at all.
ProbeId ==
  /\ stage = "id"
  /\ \/ EnterStage("conf") /\ UNCHANGED faults
     \/ EnterStage("unbound") /\ UNCHANGED faults
     \/ EnterStage("unbound") /\ Fault
  /\ UNCHANGED <<chip, cache, lock, buffered, trigBusy>>

\* iio_triggered_buffer_setup()
ProbeSetup ==
  /\ stage = "setup"
  /\ \/ EnterStage("register")
     \/ EnterStage("sleep")
  /\ UNCHANGED <<device, lock, buffered, trigBusy>>

\* iio_device_register(), after which users can enter.
\* Wrong variant: its failure is returned as it is.
ProbeRegisterReturns ==
  /\ stage = "register"
  /\ \/ EnterStage("bound") /\ UNCHANGED cache
     \/ EnterStage("unbound") /\ cache' = NoCache
  /\ UNCHANGED <<chip, faults, lock, buffered, trigBusy>>
ProbeRegister ==
  /\ stage = "register"
  /\ \/ EnterStage("bound")
     \/ EnterStage("sleep")
  /\ UNCHANGED <<device, lock, buffered, trigBusy>>

\* iio_device_unregister() lets nobody enter, stops the trigger ...
Unregister ==
  /\ stage = "bound"
  /\ EnterStage("unregister")
  /\ buffered' = FALSE
  /\ UNCHANGED <<device, lock, trigBusy>>

\* ... and waits for those who are inside; the buffer is cleaned up.
Unregistered ==
  /\ stage = "unregister"
  /\ \A t \in Users \cup {Handler} : pc[t] = "idle"
  /\ EnterStage("sleep")
  /\ UNCHANGED <<device, lock, buffered, trigBusy>>

\* The processes are frozen before a device is suspended; a process in a system
\* call is not frozen before it has left it.
Suspend ==
  /\ stage = "bound"
  /\ \A u \in Users : pc[u] = "idle"
  /\ EnterStage("suspend")
  /\ UNCHANGED <<device, lock, buffered, trigBusy>>

Resume ==
  /\ stage = "asleep"
  /\ EnterStage("resume")
  /\ UNCHANGED <<device, lock, buffered, trigBusy>>

-----------------------------------------------------------------------------
Inside(t) == Update(t) \/ Poll(t) \/ PollFails(t) \/ BulkRead(t) \/ Unlock(t)

CoreStep == CoreUnlock \/ ProbeId \/ ProbeSetup \/ ProbeRegister \/ Unregistered

Next ==
  \/ ChipMeasures
  \/ \E t \in Threads : GetLock(t) \/ Inside(t)
  \/ \E u \in Users : ReadRaw(u) \/ WriteRaw(u) \/ ShowSetting(u)
  \/ SwitchBuffer \/ Trigger \/ Push \/ NotifyDone
  \/ CoreStep \/ ProbeBegin \/ Unregister \/ Suspend \/ Resume

\* A thread inside goes on, and the mutex is handed to one that waits for it
\* sooner or later.  Nobody has to call, measure or fire.
Fairness ==
  /\ \A t \in Threads : WF_vars(Inside(t)) /\ SF_vars(GetLock(t))
  /\ WF_vars(Push) /\ WF_vars(NotifyDone)
  /\ WF_vars(CoreStep)

Spec == Init /\ [][Next]_vars /\ Fairness

-----------------------------------------------------------------------------
(* Properties.                                                             *)

Pcs == {"idle", "lock", "update", "poll", "bulk", "unlock", "push", "done"}

ChipTypes ==
  /\ chip \in [Registers -> 0 .. 255]
  /\ chip["MODE"] \in 0 .. 3 /\ chip["STATUS"] \in 0 .. 1
  /\ cache \in [Registers -> {NotCached} \cup (0 .. 255)]
  /\ faults \in 0 .. MaxFaults

ThreadTypes ==
  /\ pc \in [Threads -> Pcs]
  /\ \A t \in Threads \ {Handler} : pc[t] \notin {"push", "done"}
  /\ \A t \in Threads :
       \/ call[t] \in {<<"raw", 0>>} \cup Range(CoreSetting)
       \/ /\ call[t][1] \in DOMAIN ChipInfo[Chip]
          /\ call[t][2] + 1 \in DOMAIN Table(call[t][1])
  /\ tries \in [Threads -> 0 .. MaxTries]
  /\ ret \in [Threads -> {"ok", "error", "notready"}]

StateTypes ==
  /\ lock \in Threads \cup {"none"}
  /\ stage \in Stages
  /\ buffered \in BOOLEAN /\ trigBusy \in BOOLEAN

\* The variables keep to their types; every register stays a byte, whatever
\* fields were written into it, and only the trigger's thread pushes.
TypeOK == ChipTypes /\ ThreadTypes /\ StateTypes

\* The cache never disagrees with the chip: what failed to be written is not
\* remembered, and the ready bit is not remembered at all.
CacheCoherent ==
  \A r \in Registers : cache[r] # NotCached => cache[r] = chip[r]

\* Data are read from a chip that measures: it is not put to sleep between the
\* look at its ready bit and the read of its data (why the mutex spans both).
ReadsAwake ==
  \A t \in Threads : pc[t] = "bulk" => Get(chip, "mode") = Continuous

\* "data not ready" means it: only a thread that looked as often as it may, and
\* that found the data not ready the last time too, gives up.
GivesUpHonestly ==
  [][\A t \in Threads :
       ret[t] # "notready" /\ ret'[t] = "notready"
         => tries[t] = 1 /\ chip["STATUS"] = 0]_vars

\* A user's read never waits for a chip that the driver has not switched on or
\* has put to sleep - remove and suspend wait for the users first - unless a
\* transfer to the chip has failed.
UserWaitsAwake ==
  \A u \in Users :
    pc[u] = "poll" /\ faults = 0 => Get(chip, "mode") = Continuous

\* A setter writes its own field and no other of the register, and when it
\* returns success the chip has the value, also when regmap, which believes its
\* cache, found nothing to write.
SetsItsFieldOnly ==
  [][\A t \in Threads, f \in DOMAIN RegOf :
       pc[t] = "update" /\ pc'[t] = "unlock" =>
         IF f = call[t][1] THEN ret'[t] = "ok" => Get(chip', f) = call[t][2]
         ELSE Get(chip', f) = Get(chip, f)]_vars

\* Whatever read_raw() of a registered device takes from its registers as an
\* index lies within the table of the variant: 7 or 8 rates, 8 scales.
ShownIndexInTable ==
  stage \in {"bound", "suspend", "asleep", "resume", "unregister"}
    => RateIndex + 1 \in DOMAIN Table("rate") /\ ScaleIndex + 1 \in DOMAIN Table("gain")

\* Once unbound - after remove, and after a probe that failed late - the chip
\* does not go on measuring ("sleep mode to save power", line 676), unless a
\* transfer to it has failed.
UnusedChipSleeps ==
  stage = "unbound" /\ faults = 0 => Get(chip, "mode") # Continuous

\* Every system call ends, every trigger is acknowledged, so that the next one
\* can come, and every probe, remove, suspend and resume ends, on every path.
CallsEnd ==
  /\ \A u \in Users : pc[u] # "idle" ~> pc[u] = "idle"
  /\ trigBusy ~> ~trigBusy
  /\ stage \notin {"unbound", "bound", "asleep"}
       ~> stage \in {"unbound", "bound", "asleep"}
=============================================================================
